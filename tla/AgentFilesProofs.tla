-------------------------- MODULE AgentFilesProofs --------------------------
(***************************************************************************)
(* The files of the agents, for any number of requests, names and cycles.   *)
(*                                                                         *)
(* The properties hold by distance, not by locks: a step of one request     *)
(* leaves alone what another one has in hand unless the two have met, and   *)
(* the history variables remember who met whom.  Undisturbed says, step by  *)
(* step, what a request that met nobody finds on the disk; from it follow   *)
(* AloneIsAtomic, the moves of DraftedOnce and the reset of Decryptable.    *)
(***************************************************************************)
EXTENDS AgentFiles, TLAPS

Some == Ids \cup {NoId}

Kinds == {"create", "save", "toggle", "rename", "delete", "reset"}

Serving == {"init", "poll", "mark", "status"}
Editing == {"mkdir", "read", "truncate", "write"}
KeySteps == {"load_key", "open_key", "write_key"}
Renaming == {"check", "move_config", "move_data"}
Removing == {"remove_config", "remove_data"}
Resetting == {"next", "unlink", "stop"}
Ended == {"ok", "failed"}

(* Which requests come to which step, and what they know there. *)
Local(t) ==
  /\ DOMAIN at[t] = {"id", "new", "lines", "key", "open", "todo"}
  /\ at[t].id \in Some /\ at[t].new \in Some /\ at[t].todo \subseteq Ids
  /\ FieldsOK(at[t].lines)
  /\ at[t].open = KeyFile => pc[t] = "write_key"
  /\ pc[t] \in {"idle", "slug"} \cup Editing \cup KeySteps \cup Renaming
                 \cup Removing \cup Resetting \cup Ended
  /\ pc[t] # "idle" => ask[t] \in Asks
  /\ pc[t] = "idle" => at[t].open = NoId
  /\ pc[t] = "slug" => ask[t].kind \in {"create", "rename"}
  /\ pc[t] = "slug" /\ ask[t].kind = "create" => at[t].id = NoId
  /\ pc[t] \in Editing => ask[t].kind # "rename" /\ at[t].id \in Ids
  /\ pc[t] \in KeySteps => Secret(t) /\ at[t].id \in Ids
  /\ pc[t] \in {"truncate", "write"} /\ Secret(t) => at[t].key \in Keys
  /\ pc[t] \in Renaming => ask[t].kind = "rename" /\ at[t].new \in Ids
  /\ pc[t] \in Removing => Destroys(t) /\ at[t].id \in Ids
  /\ pc[t] \in Resetting => ask[t].kind = "reset"
  /\ ask[t].kind = "rename" => at[t].id \in Ids

Shape ==
  /\ TypeOK
  /\ DOMAIN pc = Requests /\ DOMAIN ask = Requests /\ DOMAIN at = Requests
  /\ \A t \in Requests : Local(t)
  /\ proc \in [step: Serving \cup {"idle", "next", "removed"}, todo: SUBSET Ids,
               id: Some, user: Keys]
  /\ proc.step \in Serving => proc.id \in Ids
  /\ drafts \in [Keys -> Nat]

-----------------------------------------------------------------------------
(* What the history variables say of a state. *)
Meetings ==
  /\ \A t, u \in Requests : alone[t] /\ t # u => Touched(t) \cap Touched(u) = {}
  /\ \A t \in Requests : quiet[t] => Touched(t) \cap Served = {}
  /\ ~spoilt => \A t \in Requests : Moves(t) => alone[t] /\ quiet[t]
  /\ ~keyRace =>
       /\ \A t, u \in Requests : MakesKey(t) /\ MakesKey(u) => t = u
       /\ \A t \in Requests : ask[t].kind = "reset" => alone[t]

Edits(t) == ask[t].kind \in {"create", "save", "toggle"}

(* What a request that met no other finds: an edit ... *)
EditUndisturbed(t) ==
  LET id == at[t].id  was == before[t]
  IN  Edits(t) =>
        /\ pc[t] \in {"mkdir", "read", "truncate"} \cup KeySteps => Lines(id) = was.lines
        /\ pc[t] \in {"read", "truncate"} \cup KeySteps => id \in dirs
        /\ pc[t] \in {"truncate", "write"} \cup KeySteps => at[t].lines = was.lines
        /\ pc[t] = "write" => id \in DOMAIN env /\ at[t].open = id
        /\ ask[t].kind = "create" /\ Active(t) => was.lines = Empty

(* ... a rename ... *)
RenameUndisturbed(t) ==
  LET id == at[t].id  new == at[t].new  was == before[t]
  IN  ask[t].kind = "rename" =>
        /\ pc[t] \in {"slug", "check", "move_config"} => Lines(id) = was.lines
        /\ pc[t] \in {"check", "move_config"} => new \notin dirs
        /\ pc[t] = "move_data" => id \notin dirs /\ Lines(new) = was.lines
        /\ quiet[t] /\ Active(t) => DataOf(id) = was.data
        /\ quiet[t] /\ pc[t] \in {"move_config", "move_data"} => new \notin DOMAIN data

(* ... and the removal of one agent or of all. *)
RemovalUndisturbed(t) ==
  /\ pc[t] = "remove_data" => at[t].id \notin dirs
  /\ ask[t].kind = "reset" =>
       /\ pc[t] \in Editing \cup {"remove_config"} => dirs \subseteq at[t].todo \cup {at[t].id}
       /\ pc[t] \in {"next", "remove_data"} => dirs \subseteq at[t].todo
       /\ pc[t] \in {"unlink", "stop"} => dirs = {}
       /\ pc[t] = "stop" => key = Absent

Undisturbed ==
  \A t \in Requests :
    alone[t] => EditUndisturbed(t) /\ RenameUndisturbed(t) /\ RemovalUndisturbed(t)

-----------------------------------------------------------------------------
(* The keys of the passwords that are on the disk or in hand. *)
InHand == {"truncate", "write"} \cup KeySteps

Keyed(lines) == "password" \in DOMAIN lines => lines["password"][2] = key
KeyedHand(t) ==
  /\ pc[t] \in InHand => Keyed(at[t].lines)
  /\ pc[t] = "open_key" => key = Absent
  /\ pc[t] = "write_key" => key = Torn /\ at[t].open = KeyFile
  /\ pc[t] \in {"truncate", "write"} /\ Secret(t) => at[t].key = key

Encipherment ==
  ~keyRace => (\A i \in DOMAIN env : Keyed(env[i])) /\ \A t \in Requests : KeyedHand(t)

-----------------------------------------------------------------------------
(* Where an account occurs: on the disk, in the hand of a request that read
   it or brings it, and in the hand of the agent process. *)
OnDisk(u, i) == i \in DOMAIN env /\ "user" \in DOMAIN env[i] /\ env[i]["user"] = u
Holds(t, u) ==
  /\ pc[t] \in InHand
  /\ "user" \in DOMAIN at[t].lines /\ at[t].lines["user"] = u
Brings(t) == Active(t) /\ ask[t].kind = "save" /\ "user" \in ask[t].fields
Has(t, u, i) == at[t].id = i /\ (Holds(t, u) \/ (t = u /\ Brings(t)))
Polls(u, i) == proc.step \in {"init", "poll", "mark"} /\ proc.user = u /\ proc.id = i

At(u, i) == OnDisk(u, i) \/ (\E t \in Requests : Has(t, u, i)) \/ Polls(u, i)

(* While a rename is between its two moves the record is still at the old id. *)
Between(t, i) == pc[t] = "move_data" /\ at[t].new = i
HomeOf(i, h) ==
  \/ h = i /\ \A t \in Requests : ~Between(t, i)
  \/ \E t \in Requests : Between(t, i) /\ h = at[t].id

Done(i) == \A h \in Ids : HomeOf(i, h) => DataOf(h) = "done"
Marking(u, i) == proc.step = "mark" /\ proc.user = u /\ proc.id = i /\ DataOf(i) = "empty"

Places ==
  /\ \A u \in Keys : \A i, j \in Ids : At(u, i) /\ At(u, j) => i = j
  /\ \A t \in Requests :
       pc[t] = "idle" => drafts[t] = 0 /\ \A i \in Ids : ~At(t, i)
  /\ \A t \in Requests : pc[t] = "write" => at[t].open = at[t].id

Records == \A u \in Keys : \A i \in Ids : drafts[u] > 0 /\ At(u, i) => Done(i) \/ Marking(u, i)

Drafting ==
  ~spoilt => /\ Places /\ DraftedOnce
             /\ proc.step # "removed" => Records

-----------------------------------------------------------------------------
LEMMA IdFacts == NoId \notin Ids /\ KeyFile \notin Ids /\ NoId # KeyFile
<1>1. \A i \in Ids : i[2] \in 1..(N + 1)
  BY DEF Ids
<1>2. NoId[2] = 0 /\ KeyFile[2] = 0 /\ 0 \notin 1..(N + 1)
  BY ConstantsAssumption DEF NoId, KeyFile
<1> QED BY <1>1, <1>2 DEF NoId, KeyFile

LEMMA AskFacts ==
  ASSUME NEW a \in Asks
  PROVE  /\ a.kind \in Kinds
         /\ a.kind \in {"create", "rename"} => a.name \in Names
         /\ a.kind \in {"save", "toggle", "rename", "delete"} => a.id \in Ids
         /\ a.kind = "save" => a.fields \subseteq {"user", "password"}
         /\ a.kind = "toggle" => a.on \in BOOLEAN
BY ConstantsAssumption DEF Ask, Kinds

(* The functions. *)
LEMMA PutFacts ==
  ASSUME NEW f, NEW x, NEW v
  PROVE  /\ DOMAIN Put(f, x, v) = DOMAIN f \cup {x}
         /\ Put(f, x, v)[x] = v
         /\ \A y \in DOMAIN f \ {x} : Put(f, x, v)[y] = f[y]
BY DEF Put

LEMMA WithoutFacts ==
  ASSUME NEW f, NEW x
  PROVE  /\ DOMAIN Without(f, x) = DOMAIN f \ {x}
         /\ \A y \in DOMAIN f \ {x} : Without(f, x)[y] = f[y]
BY DEF Without

LEMMA OverFacts ==
  ASSUME NEW f, NEW g
  PROVE  /\ DOMAIN Over(f, g) = DOMAIN f \cup DOMAIN g
         /\ \A x \in DOMAIN f : Over(f, g)[x] = f[x]
         /\ \A x \in DOMAIN g \ DOMAIN f : Over(f, g)[x] = g[x]
BY DEF Over

LEMMA LineFacts ==
  ASSUME NEW f, NEW v
  PROVE  DOMAIN Line(f, v) = {f} /\ Line(f, v)[f] = v
<1>1. DOMAIN Empty = {}
  BY DEF Empty
<1> QED BY <1>1 DEF Line, Put

LEMMA EmptyFacts == DOMAIN Empty = {} /\ FieldsOK(Empty)
<1>1. DOMAIN Empty = {}
  BY DEF Empty
<1> QED BY <1>1 DEF FieldsOK

LEMMA LinesOK ==
  ASSUME TypeOK, NEW i
  PROVE  FieldsOK(Lines(i))
BY EmptyFacts DEF Lines, TypeOK

(* What a request writes is the lines of an .env again. *)
LEMMA EditedOK ==
  ASSUME NEW t \in Requests, Local(t), pc[t] = "write"
  PROVE  FieldsOK(Edited(t))
<1> DEFINE new == Updates(t)  old == at[t].lines
<1>1. ask[t] \in Asks /\ FieldsOK(old)
  BY DEF Local
<1>2. FieldsOK(new)
  <2>1. CASE ask[t].kind = "save"
    <3>1. new = [f \in ask[t].fields |-> IF f = "user" THEN t ELSE <<t, at[t].key>>]
      BY <2>1 DEF Updates, Encrypted
    <3>2. ask[t].fields \subseteq {"user", "password"}
      BY <1>1, <2>1, AskFacts
    <3>3. "password" \in ask[t].fields => at[t].key \in Keys
      BY <2>1 DEF Local, Secret
    <3>4. DOMAIN new = ask[t].fields
      BY <3>1
    <3>5. "user" \in DOMAIN new => new["user"] = t
      BY <3>1
    <3>6. "password" \in DOMAIN new => new["password"] = <<t, at[t].key>>
      BY <3>1
    <3>7. t \in Keys
      BY DEF Keys
    <3>8. "password" \in DOMAIN new => new["password"] \in Keys \X Keys
      BY <3>3, <3>4, <3>6, <3>7
    <3> HIDE DEF new
    <3>9. DOMAIN new \subseteq {"user", "password"}
      BY <3>2, <3>4
    <3> QED BY <3>5, <3>7, <3>8, <3>9 DEF FieldsOK
  <2>2. CASE ask[t].kind # "save"
    <3> DEFINE on == ask[t].kind = "toggle" /\ ask[t].on
    <3>1. new = Line("enabled", on) /\ on \in BOOLEAN
      BY <2>2 DEF Updates
    <3> HIDE DEF on
    <3>2. DOMAIN new = {"enabled"} /\ new["enabled"] \in BOOLEAN
      <4>1. DOMAIN Line("enabled", on) = {"enabled"} /\ Line("enabled", on)["enabled"] = on
        BY LineFacts
      <4> QED BY <3>1, <4>1, Zenon
    <3> HIDE DEF new
    <3> QED BY <3>2 DEF FieldsOK
  <2> QED BY <2>1, <2>2
<1>3. Edited(t) = Over(new, old)
  BY DEF Edited
<1> HIDE DEF new, old
<1> QED BY <1>1, <1>2, <1>3 DEF FieldsOK, Over

-----------------------------------------------------------------------------
(* What a step of request t does to what request u has in hand. *)
SameHand(u) ==
  /\ DOMAIN at'[u] = DOMAIN at[u]
  /\ at'[u].id = at[u].id /\ at'[u].new = at[u].new /\ at'[u].lines = at[u].lines
  /\ at'[u].key = at[u].key /\ at'[u].todo = at[u].todo

LEMMA OthersKept ==
  ASSUME Shape, NEW t \in Requests, Request(t)
  PROVE  /\ DOMAIN pc' = Requests /\ DOMAIN ask' = Requests /\ DOMAIN at' = Requests
         /\ \A u \in Requests \ {t} :
              /\ pc'[u] = pc[u] /\ ask'[u] = ask[u] /\ SameHand(u)
              /\ at'[u].open = at[u].open
                 \/ /\ at[u].open \in Ids /\ at'[u].open \in Some
                    /\ at[u].open = at[t].id /\ Active(t)
                 \/ /\ at[u].open = KeyFile /\ at'[u].open = NoId
                    /\ ask[t].kind = "reset" /\ Active(t)
<1> USE DEF Shape
<1>1. DOMAIN pc = Requests /\ DOMAIN ask = Requests /\ DOMAIN at = Requests
  OBVIOUS
<1>2. \A u \in Requests : DOMAIN at[u] = {"id", "new", "lines", "key", "open", "todo"}
  BY DEF Local
<1>3. CASE Start(t)
  BY <1>1, <1>3 DEF Start, Goto, SameHand
<1>4. CASE Slug(t)
  BY <1>1, <1>4 DEF Slug, Goto, SameHand
<1>5. CASE Mkdir(t) \/ Check(t) \/ MoveData(t) \/ RemoveData(t) \/ StopAgent(t)
  BY <1>1, <1>5 DEF Mkdir, Check, MoveData, RemoveData, StopAgent, Goto, SameHand
<1>6. CASE Read(t) \/ LoadKey(t) \/ OpenKey(t) \/ WriteKey(t)
  BY <1>1, <1>6 DEF Read, LoadKey, OpenKey, WriteKey, Goto, SameHand
<1>7. CASE Truncate(t) \/ Write(t) \/ ResetNext(t)
  BY <1>1, <1>7 DEF Truncate, Write, ResetNext, Goto, SameHand
<1>8. CASE MoveConfig(t)
  <2>1. pc[t] = "move_config" /\ ask' = ask
        /\ \E p : pc' = [pc EXCEPT ![t] = p]
    BY <1>8 DEF MoveConfig, Goto
  <2>2. at[t].id \in Ids /\ at[t].new \in Ids
    BY <2>1 DEF Local, Renaming
  <2>3. \/ at' = at
        \/ at' = [u \in Requests |->
                    [at[u] EXCEPT !.open = IF @ = at[t].id THEN at[t].new ELSE @]]
    BY <1>8 DEF MoveConfig
  <2> QED BY <1>1, <1>2, <2>1, <2>2, <2>3 DEF SameHand, Some, Active
<1>9. CASE RemoveConfig(t)
  <2>1. pc[t] = "remove_config" /\ ask' = ask
        /\ \E p : pc' = [pc EXCEPT ![t] = p]
        /\ at' = [u \in Requests |-> [at[u] EXCEPT !.open = IF @ = at[t].id THEN NoId ELSE @]]
    BY <1>9 DEF RemoveConfig, Goto
  <2>2. at[t].id \in Ids
    BY <2>1 DEF Local, Removing
  <2> QED BY <1>1, <1>2, <2>1, <2>2 DEF SameHand, Some, Active
<1>10. CASE Unlink(t)
  <2>1. pc[t] = "unlink" /\ ask' = ask
        /\ \E p : pc' = [pc EXCEPT ![t] = p]
        /\ at' = [u \in Requests |-> [at[u] EXCEPT !.open = IF @ = KeyFile THEN NoId ELSE @]]
    BY <1>10 DEF Unlink, Goto
  <2>2. ask[t].kind = "reset"
    BY <2>1 DEF Local, Resetting
  <2> QED BY <1>1, <1>2, <2>1, <2>2 DEF SameHand, Some, Active
<1> QED BY <1>3, <1>4, <1>5, <1>6, <1>7, <1>8, <1>9, <1>10 DEF Request

(* What request u knows stays true while it has the same in hand. *)
LEMMA LocalKept ==
  ASSUME NEW u \in Requests, Local(u), pc'[u] = pc[u], ask'[u] = ask[u], SameHand(u),
         \/ at'[u].open = at[u].open
         \/ at[u].open # NoId /\ at'[u].open # KeyFile
  PROVE  Local(u)'
BY DEF Local, SameHand, FieldsOK, Secret, Destroys

-----------------------------------------------------------------------------
(* The steps of a request, each with all it does to its own variables and to
   the files; OthersKept has what it does to those of the others. *)
Hand(t, id, new, lines, k, open, todo) ==
  /\ at'[t].id = id /\ at'[t].new = new /\ at'[t].lines = lines
  /\ at'[t].key = k /\ at'[t].open = open /\ at'[t].todo = todo
  /\ DOMAIN at'[t] = {"id", "new", "lines", "key", "open", "todo"}

SameHandOf(t, open) == Hand(t, at[t].id, at[t].new, at[t].lines, at[t].key, open, at[t].todo)
From(t, here) == pc[t] = here /\ ask'[t] = ask[t]
Unmoved == \A u \in Requests : at'[u].open = at[u].open
OthersOpen(t) == \A u \in Requests \ {t} : at'[u].open = at[u].open

StartStep(t) ==
  /\ pc[t] = "idle" /\ UNCHANGED <<dirs, env, data, key, proc, drafts>>
  /\ \E a \in Asks :
       /\ pc'[t] = First(a.kind) /\ ask'[t] = a
       /\ Hand(t, IF a.kind \in {"create", "reset"} THEN NoId ELSE a.id, at[t].new,
               at[t].lines, at[t].key, at[t].open, IF a.kind = "reset" THEN dirs ELSE {})
  /\ OthersOpen(t)
SlugStep(t) ==
  /\ From(t, "slug") /\ UNCHANGED <<dirs, env, data, key, proc, drafts>>
  /\ \E i \in Ids :
       /\ FreeId(ask[t].name, i)
       /\ \/ /\ ask[t].kind = "create" /\ pc'[t] = "mkdir"
             /\ Hand(t, i, at[t].new, at[t].lines, at[t].key, at[t].open, at[t].todo)
          \/ /\ ask[t].kind # "create" /\ pc'[t] = "check"
             /\ Hand(t, at[t].id, i, at[t].lines, at[t].key, at[t].open, at[t].todo)
  /\ OthersOpen(t)
MkdirStep(t) ==
  /\ From(t, "mkdir") /\ pc'[t] = "read" /\ SameHandOf(t, at[t].open)
  /\ dirs' = dirs \cup {at[t].id} /\ UNCHANGED <<env, data, key, proc, drafts>>
  /\ OthersOpen(t)
ReadStep(t) ==
  /\ From(t, "read") /\ pc'[t] = IF Secret(t) THEN "load_key" ELSE "truncate"
  /\ Hand(t, at[t].id, at[t].new, Lines(at[t].id), at[t].key, at[t].open, at[t].todo)
  /\ UNCHANGED <<dirs, env, data, key, proc, drafts>> /\ OthersOpen(t)
LoadKeyStep(t) ==
  /\ From(t, "load_key")
  /\ \/ key = Absent /\ pc'[t] = "open_key"
     \/ key = Torn /\ pc'[t] = Raised(t)
     \/ key \notin {Absent, Torn} /\ pc'[t] = "truncate"
  /\ Hand(t, at[t].id, at[t].new, at[t].lines, key, at[t].open, at[t].todo)
  /\ UNCHANGED <<dirs, env, data, key, proc, drafts>> /\ OthersOpen(t)
OpenKeyStep(t) ==
  /\ From(t, "open_key") /\ pc'[t] = "write_key" /\ key' = Torn
  /\ SameHandOf(t, KeyFile)
  /\ UNCHANGED <<dirs, env, data, proc, drafts>> /\ OthersOpen(t)
WriteKeyStep(t) ==
  /\ From(t, "write_key") /\ pc'[t] = "truncate"
  /\ key' = IF at[t].open = KeyFile THEN t ELSE key
  /\ Hand(t, at[t].id, at[t].new, at[t].lines, t, NoId, at[t].todo)
  /\ UNCHANGED <<dirs, env, data, proc, drafts>> /\ OthersOpen(t)
TruncateStep(t) ==
  /\ From(t, "truncate") /\ UNCHANGED <<dirs, data, key, proc, drafts>> /\ OthersOpen(t)
  /\ \/ /\ at[t].id \in dirs /\ pc'[t] = "write"
        /\ env' = Put(env, at[t].id, Empty) /\ SameHandOf(t, at[t].id)
     \/ /\ at[t].id \notin dirs /\ pc'[t] = Raised(t)
        /\ env' = env /\ SameHandOf(t, at[t].open)
WriteStep(t) ==
  /\ From(t, "write") /\ pc'[t] = IF at[t].id \in DOMAIN env THEN Written(t) ELSE Raised(t)
  /\ env' = IF at[t].open = NoId THEN env ELSE Put(env, at[t].open, Edited(t))
  /\ SameHandOf(t, NoId) /\ UNCHANGED <<dirs, data, key, proc, drafts>> /\ OthersOpen(t)
CheckStep(t) ==
  /\ From(t, "check")
  /\ \/ at[t].new \in dirs \cup DOMAIN data /\ pc'[t] = "failed"
     \/ at[t].new \notin dirs \cup DOMAIN data /\ pc'[t] = "move_config"
  /\ SameHandOf(t, at[t].open)
  /\ UNCHANGED <<dirs, env, data, key, proc, drafts>> /\ OthersOpen(t)
MoveConfigStep(t) ==
  /\ From(t, "move_config") /\ UNCHANGED <<data, key, proc, drafts>>
  /\ \/ /\ at[t].id \in dirs /\ at[t].new \notin DOMAIN env /\ pc'[t] = "move_data"
        /\ dirs' = (dirs \ {at[t].id}) \cup {at[t].new}
        /\ env' = IF at[t].id \in DOMAIN env
                  THEN Put(Without(env, at[t].id), at[t].new, env[at[t].id]) ELSE env
        /\ \A u \in Requests : at'[u].open = IF at[u].open = at[t].id THEN at[t].new
                                            ELSE at[u].open
        /\ SameHandOf(t, at'[t].open)
     \/ /\ at[t].id \notin dirs /\ pc'[t] = "move_data"
        /\ UNCHANGED <<dirs, env>> /\ SameHandOf(t, at[t].open) /\ Unmoved
     \/ /\ at[t].id \in dirs /\ at[t].new \in DOMAIN env /\ pc'[t] = "failed"
        /\ UNCHANGED <<dirs, env>> /\ SameHandOf(t, at[t].open) /\ Unmoved
MoveDataStep(t) ==
  /\ From(t, "move_data") /\ SameHandOf(t, at[t].open)
  /\ UNCHANGED <<dirs, env, key, proc, drafts>> /\ OthersOpen(t)
  /\ \/ /\ at[t].id \in DOMAIN data /\ at[t].new \in DOMAIN data
        /\ pc'[t] = "failed" /\ data' = data
     \/ /\ at[t].id \in DOMAIN data /\ at[t].new \notin DOMAIN data /\ pc'[t] = "ok"
        /\ data' = Put(Without(data, at[t].id), at[t].new, data[at[t].id])
     \/ at[t].id \notin DOMAIN data /\ pc'[t] = "ok" /\ data' = data
RemoveConfigStep(t) ==
  /\ From(t, "remove_config") /\ pc'[t] = "remove_data"
  /\ dirs' = dirs \ {at[t].id} /\ env' = Without(env, at[t].id)
  /\ UNCHANGED <<data, key, proc, drafts>>
  /\ \A u \in Requests : at'[u].open = IF at[u].open = at[t].id THEN NoId ELSE at[u].open
  /\ SameHandOf(t, at'[t].open)
RemoveDataStep(t) ==
  /\ From(t, "remove_data") /\ pc'[t] = IF ask[t].kind = "reset" THEN "next" ELSE "ok"
  /\ data' = Without(data, at[t].id) /\ SameHandOf(t, at[t].open)
  /\ UNCHANGED <<dirs, env, key, proc, drafts>> /\ OthersOpen(t)
ResetNextStep(t) ==
  /\ From(t, "next") /\ UNCHANGED <<dirs, env, data, key, proc, drafts>> /\ OthersOpen(t)
  /\ \/ at[t].todo = {} /\ pc'[t] = "unlink" /\ SameHandOf(t, at[t].open)
     \/ /\ pc'[t] = "mkdir"
        /\ \E i \in at[t].todo :
             Hand(t, i, at[t].new, at[t].lines, at[t].key, at[t].open, at[t].todo \ {i})
UnlinkStep(t) ==
  /\ From(t, "unlink") /\ pc'[t] = "stop" /\ key' = Absent
  /\ UNCHANGED <<dirs, env, data, proc, drafts>>
  /\ \A u \in Requests : at'[u].open = IF at[u].open = KeyFile THEN NoId ELSE at[u].open
  /\ SameHandOf(t, at'[t].open)
StopStep(t) ==
  /\ From(t, "stop") /\ pc'[t] = "ok" /\ SameHandOf(t, at[t].open)
  /\ UNCHANGED <<dirs, env, data, key, drafts>> /\ OthersOpen(t)
  /\ proc' = [proc EXCEPT !.step = "removed"]

LEMMA Effects ==
  ASSUME Shape, NEW t \in Requests, Request(t)
  PROVE  \/ StartStep(t) \/ SlugStep(t) \/ MkdirStep(t) \/ ReadStep(t) \/ LoadKeyStep(t)
         \/ OpenKeyStep(t) \/ WriteKeyStep(t) \/ TruncateStep(t) \/ WriteStep(t)
         \/ CheckStep(t) \/ MoveConfigStep(t) \/ MoveDataStep(t) \/ RemoveConfigStep(t)
         \/ RemoveDataStep(t) \/ ResetNextStep(t) \/ UnlinkStep(t) \/ StopStep(t)
<1>1. /\ t \in DOMAIN at /\ t \in DOMAIN pc /\ t \in DOMAIN ask /\ DOMAIN at = Requests
      /\ \A u \in Requests : DOMAIN at[u] = {"id", "new", "lines", "key", "open", "todo"}
  BY DEF Shape, Local
<1> USE <1>1 DEF Goto, From, Hand, SameHandOf, OthersOpen, Unmoved, files, server
<1>2. CASE Start(t)
  BY <1>2 DEF Start, StartStep
<1>3. ASSUME UNCHANGED server PROVE Slug(t) => SlugStep(t)
  BY <1>3 DEF Slug, SlugStep
<1>4. ASSUME UNCHANGED server
      PROVE  /\ Mkdir(t) => MkdirStep(t)
             /\ Read(t) => ReadStep(t)
             /\ LoadKey(t) => LoadKeyStep(t)
  BY <1>4 DEF Mkdir, MkdirStep, Read, ReadStep, LoadKey, LoadKeyStep
<1>5. ASSUME UNCHANGED server
      PROVE  /\ OpenKey(t) => OpenKeyStep(t)
             /\ WriteKey(t) => WriteKeyStep(t)
             /\ Unlink(t) => UnlinkStep(t)
  BY <1>5 DEF OpenKey, OpenKeyStep, WriteKey, WriteKeyStep, Unlink, UnlinkStep
<1>6. ASSUME UNCHANGED server
      PROVE  /\ Truncate(t) => TruncateStep(t)
             /\ Write(t) => WriteStep(t)
             /\ Check(t) => CheckStep(t)
  BY <1>6 DEF Truncate, TruncateStep, Write, WriteStep, Check, CheckStep
<1>7. ASSUME UNCHANGED server PROVE MoveConfig(t) => MoveConfigStep(t)
  BY <1>7 DEF MoveConfig, MoveConfigStep
<1>8. ASSUME UNCHANGED server
      PROVE  /\ MoveData(t) => MoveDataStep(t)
             /\ RemoveConfig(t) => RemoveConfigStep(t)
             /\ RemoveData(t) => RemoveDataStep(t)
  BY <1>8 DEF MoveData, MoveDataStep, RemoveConfig, RemoveConfigStep, RemoveData, RemoveDataStep
<1>9. ASSUME UNCHANGED server, ResetNext(t) PROVE ResetNextStep(t)
  <2>1. CASE at[t].todo = {}
    BY <1>9, <2>1 DEF ResetNext, ResetNextStep
  <2>2. CASE at[t].todo # {}
    <3>1. PICK i \in at[t].todo : at' = [at EXCEPT ![t].id = i, ![t].todo = @ \ {i}]
      BY <1>9, <2>2 DEF ResetNext
    <3>2. Hand(t, i, at[t].new, at[t].lines, at[t].key, at[t].open, at[t].todo \ {i})
      BY <3>1
    <3>3. pc[t] = "next" /\ pc'[t] = "mkdir" /\ UNCHANGED <<files, ask>> /\ OthersOpen(t)
      BY <1>9, <2>2, <3>1 DEF ResetNext
    <3> HIDE DEF Hand
    <3> QED BY <1>9, <3>2, <3>3 DEF ResetNextStep
  <2> QED BY <2>1, <2>2
<1>10. CASE StopAgent(t)
  BY <1>10 DEF StopAgent, StopStep
<1> HIDE <1>1 DEF Goto, From, Hand, SameHandOf, OthersOpen, Unmoved, files, server
<1> QED BY <1>2, <1>3, <1>4, <1>5, <1>6, <1>7, <1>8, <1>9, <1>10 DEF Request

-----------------------------------------------------------------------------
(* The types of the files, and which of them are open. *)
FilesOK ==
  /\ dirs \subseteq Ids /\ DOMAIN env \subseteq dirs
  /\ \A i \in DOMAIN env : FieldsOK(env[i])
  /\ DOMAIN data \subseteq Ids
  /\ \A i \in DOMAIN data : data[i] \in {"nodb", "empty", "done"}
  /\ key \in {Absent, Torn} \cup Keys
  /\ \A t \in Requests : at[t].open \in dirs \cup {NoId, KeyFile}

LEMMA FieldsKept == ASSUME NEW x PROVE FieldsOK(x)' <=> FieldsOK(x')
BY DEF FieldsOK

LEMMA EditShape ==
  ASSUME Shape, NEW t \in Requests,
         Mkdir(t) \/ Read(t) \/ Truncate(t) \/ Write(t)
  PROVE  FilesOK' /\ Local(t)'
<1> USE DEF Shape
<1>1. /\ FilesOK /\ Local(t) /\ t \in DOMAIN at /\ t \in DOMAIN pc
      /\ DOMAIN at = Requests
  BY DEF TypeOK, FilesOK
<1>2. /\ DOMAIN at[t] = {"id", "new", "lines", "key", "open", "todo"}
      /\ pc[t] \in Editing => at[t].id \in Ids /\ ask[t].kind # "rename"
      /\ pc[t] # "idle" => ask[t] \in Asks
  BY <1>1 DEF Local
<1>3. CASE Mkdir(t)
  <2>1. /\ pc[t] = "mkdir" /\ pc'[t] = "read" /\ at' = at /\ ask' = ask
        /\ dirs' = dirs \cup {at[t].id} /\ UNCHANGED <<env, data, key>>
    BY <1>1, <1>3 DEF Mkdir, Goto
  <2>2. FilesOK'
    BY <1>1, <1>2, <2>1 DEF FilesOK, Editing
  <2>3. Local(t)'
    BY <1>1, <1>2, <2>1 DEF Local, Editing, KeySteps, Renaming, Removing, Resetting
  <2> QED BY <2>2, <2>3
<1>4. CASE Read(t)
  <2>1. /\ pc[t] = "read" /\ pc'[t] = IF Secret(t) THEN "load_key" ELSE "truncate"
        /\ UNCHANGED <<dirs, env, data, key, ask>>
        /\ at' = [at EXCEPT ![t].lines = Lines(at[t].id)]
    BY <1>1, <1>4 DEF Read, Goto, files
  <2>2. /\ DOMAIN at'[t] = DOMAIN at[t] /\ at'[t].lines = Lines(at[t].id)
        /\ at'[t].id = at[t].id /\ at'[t].new = at[t].new /\ at'[t].key = at[t].key
        /\ at'[t].open = at[t].open /\ at'[t].todo = at[t].todo
        /\ \A u \in Requests \ {t} : at'[u] = at[u]
    BY <1>1, <1>2, <2>1
  <2>3. FilesOK'
    BY <1>1, <2>1, <2>2 DEF FilesOK
  <2>4. FieldsOK(at'[t].lines)
    BY <2>2, LinesOK
  <2>5. Local(t)'
    BY <1>1, <1>2, <2>1, <2>2, <2>4
    DEF Local, Editing, KeySteps, Renaming, Removing, Resetting, Secret, FieldsOK
  <2> QED BY <2>3, <2>5
<1>5. CASE Truncate(t)
  <2>1. pc[t] = "truncate" /\ UNCHANGED <<dirs, data, key, ask>>
    BY <1>1, <1>5 DEF Truncate, Goto
  <2>2. CASE at[t].id \in dirs
    <3>1. /\ pc'[t] = "write" /\ env' = Put(env, at[t].id, Empty)
          /\ at' = [at EXCEPT ![t].open = at[t].id]
      BY <1>1, <1>5, <2>2 DEF Truncate, Goto
    <3>2. /\ DOMAIN at'[t] = DOMAIN at[t] /\ at'[t].lines = at[t].lines
          /\ at'[t].id = at[t].id /\ at'[t].new = at[t].new /\ at'[t].key = at[t].key
          /\ at'[t].open = at[t].id /\ at'[t].todo = at[t].todo
          /\ \A u \in Requests \ {t} : at'[u] = at[u]
      BY <1>1, <1>2, <3>1
    <3>3. DOMAIN env' \subseteq dirs /\ \A i \in DOMAIN env' : FieldsOK(env'[i])
      BY <1>1, <2>2, <3>1, EmptyFacts DEF FilesOK, Put
    <3>4. FilesOK'
      BY <1>1, <2>1, <2>2, <3>2, <3>3 DEF FilesOK, FieldsOK
    <3>5. at[t].id # KeyFile
      BY <1>2, <2>1, IdFacts DEF Editing
    <3>6. Local(t)'
      BY <1>1, <1>2, <2>1, <3>1, <3>2, <3>5
      DEF Local, Editing, KeySteps, Renaming, Removing, Resetting, Secret, FieldsOK
    <3> QED BY <3>4, <3>6
  <2>3. CASE at[t].id \notin dirs
    <3>1. pc'[t] = Raised(t) /\ UNCHANGED <<env, at>>
      BY <1>1, <1>5, <2>3 DEF Truncate, Goto
    <3>2. FilesOK'
      BY <1>1, <2>1, <3>1 DEF FilesOK
    <3>3. Local(t)'
      BY <1>1, <1>2, <2>1, <3>1
      DEF Local, Editing, KeySteps, Renaming, Removing, Resetting, Ended, Raised, Destroys
    <3> QED BY <3>2, <3>3
  <2> QED BY <2>2, <2>3
<1>6. CASE Write(t)
  <2>1. /\ pc[t] = "write" /\ UNCHANGED <<dirs, data, key, ask>>
        /\ pc'[t] \in {Written(t), Raised(t)}
        /\ env' = IF at[t].open = NoId THEN env ELSE Put(env, at[t].open, Edited(t))
        /\ at' = [at EXCEPT ![t].open = NoId]
    BY <1>1, <1>6 DEF Write, Goto
  <2>2. /\ DOMAIN at'[t] = DOMAIN at[t] /\ at'[t].lines = at[t].lines
        /\ at'[t].id = at[t].id /\ at'[t].new = at[t].new /\ at'[t].key = at[t].key
        /\ at'[t].open = NoId /\ at'[t].todo = at[t].todo
        /\ \A u \in Requests \ {t} : at'[u] = at[u]
    BY <1>1, <1>2, <2>1
  <2>3. at[t].open \in dirs \cup {NoId}
    BY <1>1, <2>1 DEF FilesOK, Local
  <2>4. DOMAIN env' \subseteq dirs /\ \A i \in DOMAIN env' : FieldsOK(env'[i])
    BY <1>1, <2>1, <2>3, EditedOK DEF FilesOK, Put
  <2>5. FilesOK'
    BY <1>1, <2>1, <2>2, <2>4 DEF FilesOK, FieldsOK
  <2>6. Local(t)'
    BY <1>1, <1>2, <2>1, <2>2, IdFacts
    DEF Local, Editing, KeySteps, Renaming, Removing, Resetting, Ended, Raised, Written,
        Destroys, FieldsOK
  <2> QED BY <2>5, <2>6
<1> QED BY <1>3, <1>4, <1>5, <1>6

LEMMA KeyShape ==
  ASSUME Shape, NEW t \in Requests,
         LoadKey(t) \/ OpenKey(t) \/ WriteKey(t) \/ Unlink(t)
  PROVE  FilesOK' /\ Local(t)'
<1> USE DEF Shape
<1>1. /\ FilesOK /\ Local(t) /\ t \in DOMAIN at /\ t \in DOMAIN pc
      /\ DOMAIN at = Requests
  BY DEF TypeOK, FilesOK
<1>2. /\ DOMAIN at[t] = {"id", "new", "lines", "key", "open", "todo"}
      /\ pc[t] \in KeySteps => at[t].id \in Ids /\ Secret(t)
      /\ pc[t] # "idle" => ask[t] \in Asks
  BY <1>1 DEF Local
<1>3. CASE LoadKey(t)
  <2>1. /\ pc[t] = "load_key" /\ UNCHANGED <<dirs, env, data, key, ask>>
        /\ pc'[t] \in {"open_key", Raised(t), "truncate"}
        /\ pc'[t] = "truncate" => key \notin {Absent, Torn}
        /\ at' = [at EXCEPT ![t].key = key]
    BY <1>1, <1>3 DEF LoadKey, Goto, files, Raised
  <2>2. /\ DOMAIN at'[t] = DOMAIN at[t] /\ at'[t].lines = at[t].lines
        /\ at'[t].id = at[t].id /\ at'[t].new = at[t].new /\ at'[t].key = key
        /\ at'[t].open = at[t].open /\ at'[t].todo = at[t].todo
        /\ \A u \in Requests \ {t} : at'[u] = at[u]
    BY <1>1, <1>2, <2>1
  <2>3. FilesOK'
    BY <1>1, <2>1, <2>2 DEF FilesOK
  <2>4. pc'[t] = "truncate" => at'[t].key \in Keys
    BY <1>1, <2>1, <2>2 DEF FilesOK
  <2>5. ~Destroys(t) /\ Secret(t)
    BY <1>2, <2>1 DEF KeySteps, Secret, Destroys
  <2>6. Local(t)'
    BY <1>1, <1>2, <2>1, <2>2, <2>4, <2>5
    DEF Local, Editing, KeySteps, Renaming, Removing, Resetting, Ended, Raised,
        Secret, FieldsOK
  <2> QED BY <2>3, <2>6
<1>4. CASE OpenKey(t)
  <2>1. /\ pc[t] = "open_key" /\ UNCHANGED <<dirs, env, data, ask>>
        /\ pc'[t] = "write_key" /\ key' = Torn
        /\ at' = [at EXCEPT ![t].open = KeyFile]
    BY <1>1, <1>4 DEF OpenKey, Goto
  <2>2. /\ DOMAIN at'[t] = DOMAIN at[t] /\ at'[t].lines = at[t].lines
        /\ at'[t].id = at[t].id /\ at'[t].new = at[t].new /\ at'[t].key = at[t].key
        /\ at'[t].open = KeyFile /\ at'[t].todo = at[t].todo
        /\ \A u \in Requests \ {t} : at'[u] = at[u]
    BY <1>1, <1>2, <2>1
  <2>3. FilesOK'
    BY <1>1, <2>1, <2>2 DEF FilesOK
  <2>4. Local(t)'
    BY <1>1, <1>2, <2>1, <2>2
    DEF Local, Editing, KeySteps, Renaming, Removing, Resetting, Secret, FieldsOK
  <2> QED BY <2>3, <2>4
<1>5. CASE WriteKey(t)
  <2>1. /\ pc[t] = "write_key" /\ UNCHANGED <<dirs, env, data, ask>>
        /\ pc'[t] = "truncate" /\ key' \in {t, key}
        /\ at' = [at EXCEPT ![t].open = NoId, ![t].key = t]
    BY <1>1, <1>5 DEF WriteKey, Goto
  <2>2. /\ DOMAIN at'[t] = DOMAIN at[t] /\ at'[t].lines = at[t].lines
        /\ at'[t].id = at[t].id /\ at'[t].new = at[t].new /\ at'[t].key = t
        /\ at'[t].open = NoId /\ at'[t].todo = at[t].todo
        /\ \A u \in Requests \ {t} : at'[u] = at[u]
    BY <1>1, <1>2, <2>1
  <2>3. t \in Keys
    BY DEF Keys
  <2>4. FilesOK'
    BY <1>1, <2>1, <2>2, <2>3 DEF FilesOK
  <2>5. Local(t)'
    BY <1>1, <1>2, <2>1, <2>2, <2>3, IdFacts
    DEF Local, Editing, KeySteps, Renaming, Removing, Resetting, Secret, FieldsOK
  <2> QED BY <2>4, <2>5
<1>6. CASE Unlink(t)
  <2>1. /\ pc[t] = "unlink" /\ UNCHANGED <<dirs, env, data, ask>>
        /\ pc'[t] = "stop" /\ key' = Absent
        /\ at' = [u \in Requests |-> [at[u] EXCEPT !.open = IF @ = KeyFile THEN NoId ELSE @]]
    BY <1>1, <1>6 DEF Unlink, Goto
  <2>2. \A u \in Requests : DOMAIN at[u] = {"id", "new", "lines", "key", "open", "todo"}
    BY DEF Local
  <2>3. \A u \in Requests : at'[u].open \in {at[u].open, NoId}
    BY <2>1, <2>2
  <2>4. FilesOK'
    BY <1>1, <2>1, <2>3 DEF FilesOK
  <2>5. /\ DOMAIN at'[t] = DOMAIN at[t] /\ at'[t].lines = at[t].lines
        /\ at'[t].id = at[t].id /\ at'[t].new = at[t].new /\ at'[t].todo = at[t].todo
        /\ at'[t].open # KeyFile
    BY <2>1, <2>2, IdFacts
  <2>6. Local(t)'
    BY <1>1, <1>2, <2>1, <2>5
    DEF Local, Editing, KeySteps, Renaming, Removing, Resetting, FieldsOK
  <2> QED BY <2>4, <2>6
<1> QED BY <1>3, <1>4, <1>5, <1>6

LEMMA StartShape ==
  ASSUME Shape, NEW t \in Requests, Start(t) \/ Slug(t)
  PROVE  FilesOK' /\ Local(t)'
<1> USE DEF Shape
<1>1. /\ FilesOK /\ Local(t) /\ t \in DOMAIN at /\ t \in DOMAIN pc /\ t \in DOMAIN ask
      /\ DOMAIN at = Requests
  BY DEF TypeOK, FilesOK
<1>2. /\ DOMAIN at[t] = {"id", "new", "lines", "key", "open", "todo"}
      /\ pc[t] # "idle" => ask[t] \in Asks
      /\ pc[t] = "idle" => at[t].open = NoId
      /\ pc[t] = "slug" => ask[t].kind \in {"create", "rename"}
  BY <1>1 DEF Local
<1>3. CASE Start(t)
  <2>1. PICK a \in Asks :
          /\ pc[t] = "idle" /\ pc'[t] = First(a.kind) /\ ask'[t] = a
          /\ UNCHANGED <<dirs, env, data, key>>
          /\ at' = [at EXCEPT ![t].id = IF a.kind \in {"create", "reset"} THEN NoId ELSE a.id,
                              ![t].todo = IF a.kind = "reset" THEN dirs ELSE {}]
    BY <1>1, <1>3 DEF Start, Goto, files
  <2>2. a.kind \in Kinds /\ (a.kind \notin {"create", "reset"} => a.id \in Ids)
    BY AskFacts DEF Kinds
  <2>3. /\ DOMAIN at'[t] = DOMAIN at[t] /\ at'[t].lines = at[t].lines
        /\ at'[t].id = IF a.kind \in {"create", "reset"} THEN NoId ELSE a.id
        /\ at'[t].todo \in {dirs, {}}
        /\ at'[t].new = at[t].new /\ at'[t].open = NoId
        /\ \A u \in Requests \ {t} : at'[u] = at[u]
    BY <1>1, <1>2, <2>1
  <2>4. FilesOK'
    BY <1>1, <2>1, <2>3 DEF FilesOK
  <2>5. at'[t].todo \subseteq Ids /\ at'[t].id \in Some
    BY <1>1, <2>2, <2>3 DEF FilesOK, Some
  <2>6. Local(t)'
    BY <1>1, <1>2, <2>1, <2>2, <2>3, <2>5, IdFacts
    DEF Local, Editing, KeySteps, Renaming, Removing, Resetting, Ended, Kinds, First, FieldsOK
  <2> QED BY <2>4, <2>6
<1>4. CASE Slug(t)
  <2>1. PICK i \in Ids :
          /\ pc[t] = "slug" /\ UNCHANGED <<dirs, env, data, key, ask>>
          /\ \/ /\ ask[t].kind = "create" /\ pc'[t] = "mkdir"
                /\ at' = [at EXCEPT ![t].id = i]
             \/ /\ ask[t].kind # "create" /\ pc'[t] = "check"
                /\ at' = [at EXCEPT ![t].new = i]
    BY <1>1, <1>4 DEF Slug, Goto, files
  <2>2. /\ DOMAIN at'[t] = DOMAIN at[t] /\ at'[t].lines = at[t].lines
        /\ at'[t].open = at[t].open /\ at'[t].todo = at[t].todo /\ at'[t].key = at[t].key
        /\ at'[t].id \in {at[t].id, i} /\ at'[t].new \in {at[t].new, i}
        /\ ask[t].kind = "create" => at'[t].id = i
        /\ ask[t].kind # "create" => at'[t].new = i /\ at'[t].id = at[t].id
        /\ \A u \in Requests \ {t} : at'[u] = at[u]
    BY <1>1, <1>2, <2>1
  <2>3. FilesOK'
    BY <1>1, <2>1, <2>2 DEF FilesOK
  <2>4. Local(t)'
    BY <1>1, <1>2, <2>1, <2>2
    DEF Local, Editing, KeySteps, Renaming, Removing, Resetting, Ended, FieldsOK, Some
  <2> QED BY <2>3, <2>4
<1> QED BY <1>3, <1>4

LEMMA RenameShape ==
  ASSUME Shape, NEW t \in Requests, CheckStep(t) \/ MoveConfigStep(t) \/ MoveDataStep(t)
  PROVE  FilesOK' /\ Local(t)'
<1> DEFINE id == at[t].id  new == at[t].new
<1>1. FilesOK /\ Local(t)
  BY DEF Shape, TypeOK, FilesOK
<1>2. /\ pc[t] \in Renaming /\ pc'[t] \in Renaming \cup Ended /\ key' = key
      /\ ask'[t] = ask[t] /\ SameHandOf(t, at'[t].open)
  BY DEF CheckStep, MoveConfigStep, MoveDataStep, From, SameHandOf, Hand, Renaming, Ended
<1>3. ask[t].kind = "rename" /\ id \in Ids /\ new \in Ids
  BY <1>1, <1>2 DEF Local
<1>4. ASSUME at'[t].open # KeyFile PROVE Local(t)'
  BY <1>1, <1>2, <1>4
  DEF Local, SameHandOf, Hand, Editing, KeySteps, Renaming, Removing, Resetting, Ended, FieldsOK
<1>5. at[t].open # KeyFile
  BY <1>1, <1>2 DEF Local, Renaming
<1>6. ASSUME UNCHANGED <<dirs, env, data>>, Unmoved PROVE FilesOK' /\ Local(t)'
  <2>1. FilesOK'
    BY <1>1, <1>2, <1>6 DEF FilesOK, Unmoved
  <2> QED BY <1>4, <1>5, <1>6, <2>1 DEF Unmoved
<1>7. CASE CheckStep(t)
  BY <1>6, <1>7 DEF CheckStep, SameHandOf, Hand, OthersOpen, Unmoved
<1>8. CASE MoveDataStep(t)
  <2>1. UNCHANGED <<dirs, env>> /\ Unmoved
        /\ \/ data' = data
           \/ id \in DOMAIN data /\ data' = Put(Without(data, id), new, data[id])
    BY <1>8 DEF MoveDataStep, SameHandOf, Hand, OthersOpen, Unmoved
  <2>2. DOMAIN data' \subseteq Ids /\ \A i \in DOMAIN data' : data'[i] \in {"nodb", "empty", "done"}
    BY <1>1, <1>3, <2>1 DEF FilesOK, Put, Without
  <2>3. FilesOK'
    BY <1>1, <1>2, <2>1, <2>2 DEF FilesOK, Unmoved
  <2> QED BY <1>4, <1>5, <2>1, <2>3 DEF Unmoved
<1>9. CASE MoveConfigStep(t)
  <2>1. CASE UNCHANGED <<dirs, env>> /\ Unmoved
    BY <1>6, <1>9, <2>1 DEF MoveConfigStep
  <2>2. CASE /\ dirs' = (dirs \ {id}) \cup {new}
             /\ env' = IF id \in DOMAIN env THEN Put(Without(env, id), new, env[id]) ELSE env
             /\ \A u \in Requests : at'[u].open = IF at[u].open = id THEN new ELSE at[u].open
    <3>1. dirs' \subseteq Ids /\ \A u \in Requests : at'[u].open \in dirs' \cup {NoId, KeyFile}
      BY <1>1, <1>3, <2>2 DEF FilesOK
    <3>2. DOMAIN env' \subseteq dirs' /\ \A i \in DOMAIN env' : FieldsOK(env'[i])
      BY <1>1, <1>3, <2>2 DEF FilesOK, Put, Without
    <3>3. FilesOK'
      BY <1>1, <1>2, <1>9, <3>1, <3>2 DEF FilesOK, FieldsOK, MoveConfigStep
    <3>4. at'[t].open # KeyFile
      BY <1>3, <1>5, <2>2, IdFacts
    <3> QED BY <1>4, <3>3, <3>4
  <2> QED BY <1>9, <2>1, <2>2 DEF MoveConfigStep
<1> QED BY <1>7, <1>8, <1>9

LEMMA RemoveShape ==
  ASSUME Shape, NEW t \in Requests,
         RemoveConfig(t) \/ RemoveData(t) \/ ResetNext(t) \/ StopAgent(t)
  PROVE  FilesOK' /\ Local(t)'
<1> USE DEF Shape
<1>1. /\ FilesOK /\ Local(t) /\ t \in DOMAIN at /\ t \in DOMAIN pc /\ t \in DOMAIN ask
      /\ DOMAIN at = Requests
      /\ \A u \in Requests : DOMAIN at[u] = {"id", "new", "lines", "key", "open", "todo"}
  BY DEF TypeOK, FilesOK, Local
<1>2. CASE RemoveConfig(t)
  <2>1. /\ pc[t] = "remove_config" /\ pc'[t] = "remove_data"
        /\ dirs' = dirs \ {at[t].id} /\ env' = Without(env, at[t].id)
        /\ at' = [u \in Requests |-> [at[u] EXCEPT !.open = IF @ = at[t].id THEN NoId ELSE @]]
        /\ UNCHANGED <<data, key, ask>>
    BY <1>1, <1>2 DEF RemoveConfig, Goto
  <2>2. \A u \in Requests : at'[u].open = IF at[u].open = at[t].id THEN NoId ELSE at[u].open
    BY <1>1, <2>1
  <2>3. DOMAIN env' \subseteq dirs' /\ \A i \in DOMAIN env' : FieldsOK(env'[i])
    BY <1>1, <2>1 DEF FilesOK, Without
  <2>4. FilesOK'
    BY <1>1, <2>1, <2>2, <2>3 DEF FilesOK, FieldsOK
  <2>5. /\ DOMAIN at'[t] = DOMAIN at[t] /\ at'[t].lines = at[t].lines
        /\ at'[t].id = at[t].id /\ at'[t].new = at[t].new /\ at'[t].todo = at[t].todo
        /\ at'[t].open # KeyFile
    BY <1>1, <2>1, <2>2, IdFacts DEF Local
  <2>6. Local(t)'
    BY <1>1, <2>1, <2>5
    DEF Local, Editing, KeySteps, Renaming, Removing, Resetting, Ended, Destroys, FieldsOK
  <2> QED BY <2>4, <2>6
<1>3. CASE RemoveData(t)
  <2>1. /\ pc[t] = "remove_data" /\ pc'[t] = IF ask[t].kind = "reset" THEN "next" ELSE "ok"
        /\ data' = Without(data, at[t].id) /\ UNCHANGED <<dirs, env, key, ask, at>>
    BY <1>1, <1>3 DEF RemoveData, Goto
  <2>2. FilesOK'
    BY <1>1, <2>1 DEF FilesOK, Without
  <2>3. Local(t)'
    BY <1>1, <2>1
    DEF Local, Editing, KeySteps, Renaming, Removing, Resetting, Ended, FieldsOK
  <2> QED BY <2>2, <2>3
<1>4. CASE ResetNext(t)
  <2>1. pc[t] = "next" /\ UNCHANGED <<dirs, env, data, key, ask>>
    BY <1>1, <1>4 DEF ResetNext, Goto, files
  <2>2. CASE pc'[t] = "unlink" /\ at' = at
    <3>1. FilesOK'
      BY <1>1, <2>1, <2>2 DEF FilesOK
    <3>2. Local(t)'
      BY <1>1, <2>1, <2>2
      DEF Local, Editing, KeySteps, Renaming, Removing, Resetting, Ended, FieldsOK
    <3> QED BY <3>1, <3>2
  <2>3. ASSUME NEW i \in at[t].todo, pc'[t] = "mkdir",
               at' = [at EXCEPT ![t].id = i, ![t].todo = @ \ {i}]
        PROVE  FilesOK' /\ Local(t)'
    <3>1. /\ DOMAIN at'[t] = DOMAIN at[t] /\ at'[t].lines = at[t].lines
          /\ at'[t].id = i /\ at'[t].new = at[t].new /\ at'[t].todo = at[t].todo \ {i}
          /\ at'[t].open = at[t].open
          /\ \A u \in Requests \ {t} : at'[u] = at[u]
      BY <1>1, <2>3
    <3>2. i \in Ids /\ ask[t].kind = "reset"
      BY <1>1, <2>1 DEF Local, Resetting
    <3>3. FilesOK'
      BY <1>1, <2>1, <3>1 DEF FilesOK
    <3>4. Local(t)'
      BY <1>1, <2>1, <2>3, <3>1, <3>2
      DEF Local, Editing, KeySteps, Renaming, Removing, Resetting, Ended, FieldsOK, Some
    <3> QED BY <3>3, <3>4
  <2> QED BY <1>1, <1>4, <2>2, <2>3 DEF ResetNext, Goto
<1>5. CASE StopAgent(t)
  <2>1. /\ pc[t] = "stop" /\ pc'[t] = "ok"
        /\ UNCHANGED <<dirs, env, data, key, ask, at>>
    BY <1>1, <1>5 DEF StopAgent, Goto, files
  <2>2. FilesOK'
    BY <1>1, <2>1 DEF FilesOK
  <2>3. Local(t)'
    BY <1>1, <2>1
    DEF Local, Editing, KeySteps, Renaming, Removing, Resetting, Ended, FieldsOK
  <2> QED BY <2>2, <2>3
<1> QED BY <1>2, <1>3, <1>4, <1>5

LEMMA RequestFilesOK ==
  ASSUME Shape, NEW t \in Requests, Request(t)
  PROVE  FilesOK' /\ Local(t)'
<1>1. CASE Check(t) \/ MoveConfig(t) \/ MoveData(t)
  <2>1. CheckStep(t) \/ MoveConfigStep(t) \/ MoveDataStep(t)
    <3>1. pc[t] \in Renaming
      BY <1>1 DEF Check, MoveConfig, MoveData, Goto, Renaming
    <3>2. pc[t] \in {"check", "move_config", "move_data"}
      BY <3>1 DEF Renaming
    <3> QED
      BY <3>2, Effects DEF StartStep, SlugStep, MkdirStep, ReadStep, LoadKeyStep, OpenKeyStep,
         WriteKeyStep, TruncateStep, WriteStep, RemoveConfigStep, RemoveDataStep,
         ResetNextStep, UnlinkStep, StopStep, From
  <2> QED BY <2>1, RenameShape
<1> QED BY <1>1, StartShape, EditShape, KeyShape, RemoveShape DEF Request

(* A step of a request, and what it leaves of the agent process. *)
LEMMA RequestKeeps ==
  ASSUME Shape, NEW t \in Requests, Request(t)
  PROVE  /\ ask'[t] \in Asks \cup {ask[t]}
         /\ proc'.todo = proc.todo /\ proc'.id = proc.id /\ proc'.user = proc.user
         /\ proc'.step \in {proc.step, "removed"}
         /\ proc' \in [step: Serving \cup {"idle", "next", "removed"}, todo: SUBSET Ids,
                       id: Some, user: Keys]
         /\ drafts' = drafts
<1>1. proc \in [step: Serving \cup {"idle", "next", "removed"}, todo: SUBSET Ids,
                id: Some, user: Keys]
  BY DEF Shape
<1>2. drafts' = drafts /\ ask'[t] \in Asks \cup {ask[t]}
  BY Effects DEF StartStep, SlugStep, MkdirStep, ReadStep, LoadKeyStep, OpenKeyStep,
     WriteKeyStep, TruncateStep, WriteStep, CheckStep, MoveConfigStep, MoveDataStep,
     RemoveConfigStep, RemoveDataStep, ResetNextStep, UnlinkStep, StopStep, From
<1>3. proc' = proc \/ proc' = [proc EXCEPT !.step = "removed"]
  BY Effects DEF StartStep, SlugStep, MkdirStep, ReadStep, LoadKeyStep, OpenKeyStep,
     WriteKeyStep, TruncateStep, WriteStep, CheckStep, MoveConfigStep, MoveDataStep,
     RemoveConfigStep, RemoveDataStep, ResetNextStep, UnlinkStep, StopStep
<1> QED BY <1>1, <1>2, <1>3

LEMMA HistoryTypes ==
  ASSUME Shape, Remember
  PROVE  /\ alone' \in [Requests -> BOOLEAN] /\ quiet' \in [Requests -> BOOLEAN]
         /\ keyRace' \in BOOLEAN /\ spoilt' \in BOOLEAN
<1>1. /\ \E P \in [Requests -> BOOLEAN] : alone' = P
      /\ \E P \in [Requests -> BOOLEAN] : quiet' = P
  <2>1. ASSUME NEW t \in Requests
        PROVE  /\ ((Active(t) => alone[t])
                   /\ \A u \in Requests \ {t} : Touched(t)' \cap Touched(u)' = {}) \in BOOLEAN
               /\ ((Active(t) => quiet[t])
                   /\ Touched(t)' \cap (Served \cup Served') = {}) \in BOOLEAN
    OBVIOUS
  <2> QED BY <2>1, Zenon DEF Remember
<1>2. keyRace \in BOOLEAN /\ spoilt \in BOOLEAN
  BY DEF Shape, TypeOK
<1>3. keyRace' \in BOOLEAN
  BY <1>2, Zenon DEF Remember
<1>4. spoilt' \in BOOLEAN
  BY <1>2, Zenon DEF Remember
<1> QED BY <1>1, <1>3, <1>4

LEMMA RequestShape ==
  ASSUME Shape, NEW t \in Requests, Request(t), Remember
  PROVE  Shape'
<1>1. FilesOK' /\ Local(t)'
  BY RequestFilesOK
<1>2. ASSUME NEW u \in Requests \ {t} PROVE Local(u)'
  <2>1. /\ pc'[u] = pc[u] /\ ask'[u] = ask[u] /\ SameHand(u)
        /\ at'[u].open = at[u].open
           \/ (at[u].open \in Ids /\ at'[u].open \in Some)
           \/ (at[u].open = KeyFile /\ at'[u].open = NoId)
    BY OthersKept
  <2>2. at'[u].open = at[u].open \/ (at[u].open # NoId /\ at'[u].open # KeyFile)
    BY <2>1, IdFacts DEF Some
  <2>3. Local(u)
    BY DEF Shape
  <2> QED BY <2>1, <2>2, <2>3, LocalKept
<1>3. \A u \in Requests : Local(u)'
  BY <1>1, <1>2
<1>4. DOMAIN pc' = Requests /\ DOMAIN ask' = Requests /\ DOMAIN at' = Requests
  BY OthersKept
<1>5. \A u \in Requests : ask'[u] \in Asks \cup {[kind |-> "none"]}
  <2>1. \A u \in Requests : ask[u] \in Asks \cup {[kind |-> "none"]}
    BY DEF Shape, TypeOK
  <2>2. \A u \in Requests \ {t} : ask'[u] = ask[u]
    BY OthersKept
  <2> QED BY <2>1, <2>2, RequestKeeps
<1>6. TypeOK'
  BY <1>1, <1>5, HistoryTypes, RequestKeeps DEF TypeOK, FilesOK
<1>7. proc'.step \in Serving => proc'.id \in Ids
  BY RequestKeeps DEF Shape, Serving
<1>8. drafts' \in [Keys -> Nat]
  BY RequestKeeps DEF Shape
<1> QED BY <1>3, <1>4, <1>6, <1>7, <1>8, RequestKeeps DEF Shape

(* The steps of the agent process keep the types. *)
LEMMA ProcessKeeps ==
  ASSUME Shape, AgentProcess
  PROVE  /\ DOMAIN data' \subseteq Ids
         /\ \A i \in DOMAIN data' : data'[i] \in {"nodb", "empty", "done"}
         /\ proc' \in [step: Serving \cup {"idle", "next", "removed"}, todo: SUBSET Ids,
                       id: Some, user: Keys]
         /\ proc'.step \in Serving => proc'.id \in Ids
         /\ drafts' \in [Keys -> Nat]
<1>1. /\ proc \in [step: Serving \cup {"idle", "next", "removed"}, todo: SUBSET Ids,
                   id: Some, user: Keys]
      /\ proc.step \in Serving => proc.id \in Ids
      /\ drafts \in [Keys -> Nat] /\ dirs \subseteq Ids /\ Old \in Keys
      /\ DOMAIN data \subseteq Ids
      /\ \A i \in DOMAIN data : data[i] \in {"nodb", "empty", "done"}
  BY DEF Shape, TypeOK, Keys
<1>2. CASE Discover \/ EndCycle
  BY <1>1, <1>2 DEF Discover, EndCycle, Step, Serving
<1>3. CASE Load
  <2>1. PICK i \in proc.todo :
          proc' = [step |-> IF ~Readable(Lines(i)) THEN "status"
                            ELSE IF Enabled(Lines(i)) THEN "init" ELSE "next",
                   todo |-> proc.todo \ {i}, id |-> i,
                   user |-> IF Readable(Lines(i)) THEN Lines(i)["user"] ELSE Old]
    BY <1>3 DEF Load
  <2>2. i \in Ids /\ proc.todo \ {i} \subseteq Ids
    BY <1>1
  <2>3. Readable(Lines(i)) => Lines(i)["user"] \in Keys
    BY LinesOK DEF Shape, FieldsOK, Readable
  <2> DEFINE step == IF ~Readable(Lines(i)) THEN "status"
                     ELSE IF Enabled(Lines(i)) THEN "init" ELSE "next"
             user == IF Readable(Lines(i)) THEN Lines(i)["user"] ELSE Old
  <2>4. step \in Serving \cup {"next"} /\ user \in Keys
    BY <1>1, <2>3 DEF Serving
  <2>5. proc' = [step |-> step, todo |-> proc.todo \ {i}, id |-> i, user |-> user]
    BY <2>1
  <2> HIDE DEF step, user
  <2>6. data' = data /\ drafts' = drafts
    BY <1>3 DEF Load
  <2> QED BY <1>1, <2>2, <2>4, <2>5, <2>6 DEF Some
<1>4. CASE InitDb \/ MarkProcessed \/ WriteStatus
  <2>1. /\ proc.step \in Serving /\ drafts' = drafts
        /\ \E s \in Serving \cup {"next"} : proc' = [proc EXCEPT !.step = s]
    BY <1>4 DEF InitDb, MarkProcessed, WriteStatus, Step, Serving
  <2>2. \/ data' = data
        \/ \E d \in {"nodb", "empty"} : data' = Put(data, proc.id, d)
        \/ DataOf(proc.id) = "empty" /\ data' = [data EXCEPT ![proc.id] = "done"]
    BY <1>4 DEF InitDb, MarkProcessed, WriteStatus
  <2>3. DOMAIN data' \subseteq Ids /\ \A i \in DOMAIN data' : data'[i] \in {"nodb", "empty", "done"}
    BY <1>1, <2>1, <2>2 DEF Put
  <2> QED BY <1>1, <2>1, <2>3 DEF Serving
<1>5. CASE Poll
  <2>1. /\ data' = data /\ proc.step = "poll"
        /\ \E s \in {"mark", "status"} : proc' = [proc EXCEPT !.step = s]
        /\ \/ drafts' = drafts
           \/ drafts' = [drafts EXCEPT ![proc.user] = drafts[proc.user] + 1]
    BY <1>5 DEF Poll, Step
  <2>2. drafts' \in [Keys -> Nat]
    BY <1>1, <2>1
  <2> QED BY <1>1, <2>1, <2>2 DEF Serving
<1> QED BY <1>2, <1>3, <1>4, <1>5 DEF AgentProcess

LEMMA ProcessShape ==
  ASSUME Shape, AgentProcess, Remember
  PROVE  Shape'
<1>1. UNCHANGED <<dirs, env, key, pc, ask, at>>
  BY DEF AgentProcess
<1>2. \A u \in Requests : Local(u)'
  BY <1>1 DEF Shape, Local, FieldsOK, Secret, Destroys
<1>3. TypeOK'
  <2>1. \A i \in DOMAIN env : FieldsOK(env[i])'
    BY <1>1 DEF Shape, TypeOK, FieldsOK
  <2> QED BY <1>1, <2>1, ProcessKeeps, HistoryTypes DEF Shape, TypeOK
<1> QED BY <1>1, <1>2, <1>3, ProcessKeeps DEF Shape

LEMMA StutterShape == ASSUME Shape, UNCHANGED vars PROVE Shape'
<1>1. UNCHANGED <<dirs, env, data, key, pc, ask, at, proc, drafts, alone, quiet, keyRace, spoilt>>
  BY DEF vars, files, server, history
<1>2. \A u \in Requests : Local(u)'
  BY <1>1 DEF Shape, Local, FieldsOK, Secret, Destroys
<1>3. TypeOK'
  BY <1>1 DEF Shape, TypeOK, FieldsOK
<1> QED BY <1>1, <1>2, <1>3 DEF Shape

LEMMA InitShape == Init => Shape
<1> SUFFICES ASSUME Init PROVE Shape
  OBVIOUS
<1>1. <<FirstName, 1>> \in Ids
  BY ConstantsAssumption DEF Ids
<1>2. FieldsOK(Configured) /\ DOMAIN Configured = {"user", "password", "enabled"}
  <2> DEFINE x == Line("user", Old)  y == Line("password", <<Old, Old>>)  z == Line("enabled", TRUE)
  <2>1. DOMAIN x = {"user"} /\ x["user"] = Old
    BY LineFacts
  <2>2. DOMAIN y = {"password"} /\ y["password"] = <<Old, Old>>
    BY LineFacts
  <2>3. DOMAIN z = {"enabled"} /\ z["enabled"] \in BOOLEAN
    <3>1. DOMAIN z = {"enabled"} /\ z["enabled"] = TRUE
      BY LineFacts
    <3> QED BY <3>1, Zenon
  <2>4. Configured = Over(x, Over(y, z))
    BY DEF Configured
  <2> HIDE DEF x, y, z
  <2>5. /\ DOMAIN Over(y, z) = {"password", "enabled"}
        /\ Over(y, z)["password"] = <<Old, Old>> /\ Over(y, z)["enabled"] = z["enabled"]
    BY <2>2, <2>3 DEF Over
  <2>6. /\ DOMAIN Configured = {"user", "password", "enabled"}
        /\ Configured["user"] = Old /\ Configured["password"] = <<Old, Old>>
        /\ Configured["enabled"] = z["enabled"]
    BY <2>1, <2>4, <2>5 DEF Over
  <2>7. Old \in Keys /\ <<Old, Old>> \in Keys \X Keys
    BY DEF Keys
  <2> QED BY <2>3, <2>6, <2>7 DEF FieldsOK
<1>3. FieldsOK(Empty) /\ DOMAIN Empty = {}
  BY EmptyFacts
<1>4. /\ dirs \subseteq Ids /\ DOMAIN env \subseteq dirs
      /\ \A i \in DOMAIN env : FieldsOK(env[i])
      /\ key \in {Absent, Torn} \cup Keys /\ DOMAIN data = {}
  <2>1. CASE dirs = {} /\ env = Empty /\ key = Absent
    BY <1>3, <2>1 DEF Init
  <2>2. CASE dirs = {<<FirstName, 1>>} /\ env = Put(Empty, <<FirstName, 1>>, Configured) /\ key = Old
    <3>1. DOMAIN env = {<<FirstName, 1>>} /\ env[<<FirstName, 1>>] = Configured
      BY <1>3, <2>2 DEF Put
    <3> QED BY <1>1, <1>2, <1>3, <2>2, <3>1 DEF Init, Keys
  <2> QED BY <2>1, <2>2 DEF Init
<1>5. /\ \A t \in Requests : /\ pc[t] = "idle" /\ ask[t] = [kind |-> "none"]
                             /\ at[t] = [id |-> NoId, new |-> NoId, lines |-> Empty,
                                         key |-> Absent, open |-> NoId, todo |-> {}]
      /\ DOMAIN pc = Requests /\ DOMAIN ask = Requests /\ DOMAIN at = Requests
  BY DEF Init
<1>6. ASSUME NEW t \in Requests PROVE Local(t)
  BY <1>3, <1>5, IdFacts
  DEF Local, Some, Editing, KeySteps, Renaming, Removing, Resetting, Ended
<1>7. TypeOK
  <2>1. alone \in [Requests -> BOOLEAN] /\ quiet \in [Requests -> BOOLEAN]
    BY DEF Init
  <2>2. keyRace \in BOOLEAN /\ spoilt \in BOOLEAN /\ proc.todo \subseteq Ids
    BY DEF Init
  <2> QED BY <1>4, <1>5, <2>1, <2>2 DEF TypeOK
<1>8. proc \in [step: Serving \cup {"idle", "next", "removed"}, todo: SUBSET Ids,
                id: Some, user: Keys] /\ proc.step \notin Serving
  BY DEF Init, Some, Keys, Serving
<1>9. drafts \in [Keys -> Nat]
  BY DEF Init, Keys
<1> QED BY <1>5, <1>6, <1>7, <1>8, <1>9 DEF Shape

LEMMA ShapeHolds == Spec => []Shape
<1>1. Shape /\ [Next]_vars => Shape'
  BY RequestShape, ProcessShape, StutterShape DEF Next
<1> QED BY <1>1, InitShape, PTL DEF Spec

(* Every .env is in a directory and holds no password in plain text, whatever
   the requests interleave (agents_io.py:127-133). *)
THEOREM FilesTypeOK == Spec => []TypeOK
<1>1. Shape => TypeOK
  BY DEF Shape
<1> QED BY <1>1, ShapeHolds, PTL

-----------------------------------------------------------------------------
(* What a step remembers, as one fact for each history variable. *)
LEMMA Remembered ==
  ASSUME Remember, NEW t \in Requests
  PROVE  /\ alone'[t] => /\ Active(t) => alone[t]
                         /\ \A u \in Requests \ {t} : Touched(t)' \cap Touched(u)' = {}
         /\ quiet'[t] => /\ Active(t) => quiet[t]
                         /\ Touched(t)' \cap (Served \cup Served') = {}
         /\ before'[t] = IF Active(t) THEN before[t]
                         ELSE IF Active(t)'
                              THEN [lines |-> Lines(at'[t].id), data |-> DataOf(at'[t].id)]
                              ELSE NotSeen
<1>1. alone'[t] = (/\ Active(t) => alone[t]
                   /\ \A u \in Requests \ {t} : Touched(t)' \cap Touched(u)' = {})
  BY DEF Remember
<1>2. quiet'[t] = (/\ Active(t) => quiet[t]
                   /\ Touched(t)' \cap (Served \cup Served') = {})
  BY DEF Remember
<1>3. before'[t] = IF Active(t) THEN before[t]
                   ELSE IF Active(t)'
                        THEN [lines |-> Lines(at'[t].id), data |-> DataOf(at'[t].id)]
                        ELSE NotSeen
  BY DEF Remember
<1> QED BY <1>1, <1>2, <1>3, Zenon

LEMMA MeetingsRemembered == ASSUME Remember PROVE Meetings'
<1>1. \A t, u \in Requests : alone'[t] /\ t # u => Touched(t)' \cap Touched(u)' = {}
  BY Remembered
<1>2. \A t \in Requests : quiet'[t] => Touched(t)' \cap Served' = {}
  BY Remembered
<1>3. ~spoilt' => \A t \in Requests : Moves(t)' => alone'[t] /\ quiet'[t]
  BY Zenon DEF Remember
<1>4. ~keyRace' => /\ \A t, u \in Requests : MakesKey(t)' /\ MakesKey(u)' => t = u
                   /\ \A t \in Requests : ask'[t].kind = "reset" => alone'[t]
  BY Zenon DEF Remember
<1> QED BY <1>1, <1>2, <1>3, <1>4 DEF Meetings

(* The flags of what went wrong are never taken back. *)
LEMMA FlagsStay == ASSUME Remember PROVE (~spoilt' => ~spoilt) /\ (~keyRace' => ~keyRace)
BY Zenon DEF Remember

LEMMA MeetingsHold == Spec => []Meetings
<1>1. ASSUME Init PROVE Meetings
  <2>1. \A t \in Requests : pc[t] = "idle" /\ alone[t] /\ ask[t].kind = "none"
    BY <1>1 DEF Init
  <2> QED BY <2>1 DEF Meetings, Touched, Active, Moves, MakesKey
<1>2. ASSUME Meetings, UNCHANGED vars PROVE Meetings'
  <2>1. UNCHANGED <<alone, quiet, spoilt, keyRace, pc, at, ask, proc>>
    BY <1>2 DEF vars, history, server
  <2>2. \A t \in Requests : Touched(t)' = Touched(t) /\ Moves(t)' = Moves(t)
                            /\ MakesKey(t)' = MakesKey(t)
    BY <2>1 DEF Touched, Active, Moves, MakesKey
  <2>3. Served' = Served
    BY <2>1 DEF Served
  <2> QED BY <1>2, <2>1, <2>2, <2>3 DEF Meetings
<1>3. Meetings /\ [Next]_vars => Meetings'
  BY <1>2, MeetingsRemembered DEF Next
<1> QED BY <1>1, <1>3, PTL DEF Spec

-----------------------------------------------------------------------------
(* What stays as it is: the files of agents that a request has not in hand ... *)
SameConfig(i) ==
  /\ i \in dirs' <=> i \in dirs
  /\ i \in DOMAIN env' <=> i \in DOMAIN env
  /\ i \in DOMAIN env => env'[i] = env[i]
SameData(i) ==
  /\ i \in DOMAIN data' <=> i \in DOMAIN data
  /\ i \in DOMAIN data => data'[i] = data[i]
SameAt(i) == SameConfig(i) /\ SameData(i)

LEMMA InHandTouched ==
  ASSUME Shape, NEW t \in Requests, Active(t), NEW i \in {at[t].id, at[t].new, at[t].open}, i \in Ids
  PROVE  i \in Touched(t)
BY DEF Touched

LEMMA Elsewhere ==
  ASSUME Shape, NEW u \in Requests, Request(u), NEW i \in Ids, i \notin Touched(u)
  PROVE  SameAt(i)
<1>1. CASE UNCHANGED <<dirs, env, data>>
  BY <1>1 DEF SameAt, SameConfig, SameData
<1>2. ASSUME Active(u) PROVE i # at[u].id /\ i # at[u].new /\ i # at[u].open
  BY <1>2, InHandTouched
<1>3. CASE MkdirStep(u)
  BY <1>2, <1>3 DEF MkdirStep, From, Active, SameAt, SameConfig, SameData
<1>4. CASE TruncateStep(u)
  BY <1>2, <1>4 DEF TruncateStep, From, Active, SameAt, SameConfig, SameData, Put
<1>5. CASE WriteStep(u)
  BY <1>2, <1>5 DEF WriteStep, From, Active, SameAt, SameConfig, SameData, Put
<1>6. CASE MoveConfigStep(u)
  <2> DEFINE id == at[u].id  new == at[u].new
  <2>1. i # id /\ i # new /\ data' = data
    BY <1>2, <1>6 DEF MoveConfigStep, From, Active
  <2>2. CASE /\ dirs' = (dirs \ {id}) \cup {new}
             /\ env' = IF id \in DOMAIN env THEN Put(Without(env, id), new, env[id]) ELSE env
    <3> HIDE DEF id, new
    <3>1. i \in dirs' <=> i \in dirs
      BY <2>1, <2>2
    <3>2. /\ i \in DOMAIN env' <=> i \in DOMAIN env
          /\ i \in DOMAIN env => env'[i] = env[i]
      BY <2>1, <2>2 DEF Put, Without
    <3> QED BY <2>1, <3>1, <3>2 DEF SameAt, SameConfig, SameData
  <2> QED BY <1>1, <1>6, <2>1, <2>2 DEF MoveConfigStep
<1>7. CASE MoveDataStep(u)
  BY <1>2, <1>7 DEF MoveDataStep, From, Active, SameAt, SameConfig, SameData, Put, Without
<1>8. CASE RemoveConfigStep(u)
  BY <1>2, <1>8 DEF RemoveConfigStep, From, Active, SameAt, SameConfig, SameData, Without
<1>9. CASE RemoveDataStep(u)
  BY <1>2, <1>9 DEF RemoveDataStep, From, Active, SameAt, SameConfig, SameData, Without
<1> QED
  BY <1>1, <1>3, <1>4, <1>5, <1>6, <1>7, <1>8, <1>9, Effects
  DEF StartStep, SlugStep, ReadStep, LoadKeyStep, OpenKeyStep, WriteKeyStep, CheckStep,
      ResetNextStep, UnlinkStep, StopStep

(* ... the key, unless a request has an agent in hand ... *)
LEMMA KeyKept ==
  ASSUME Shape, NEW u \in Requests, Request(u), Touched(u) = {}
  PROVE  key' = key
<1>1. Local(u) /\ Ids # {}
  <2>1. <<FirstName, 1>> \in Ids
    BY ConstantsAssumption DEF Ids
  <2> QED BY <2>1 DEF Shape
<1>2. CASE pc[u] \in {"open_key", "write_key"}
  <2>1. Active(u) /\ at[u].id \in Ids
    BY <1>1, <1>2 DEF Local, KeySteps, Active
  <2> QED BY <2>1, InHandTouched
<1>3. CASE pc[u] = "unlink"
  BY <1>1, <1>3 DEF Touched, Active, Local, Resetting
<1>4. CASE pc[u] \notin {"open_key", "write_key", "unlink"}
  BY <1>4, Effects DEF StartStep, SlugStep, MkdirStep, ReadStep, LoadKeyStep, OpenKeyStep,
     WriteKeyStep, TruncateStep, WriteStep, CheckStep, MoveConfigStep, MoveDataStep,
     RemoveConfigStep, RemoveDataStep, ResetNextStep, UnlinkStep, StopStep, From
<1> QED BY <1>2, <1>3, <1>4

(* ... all of a request and of its agents that the acting one has not met ... *)
LEMMA Unmet ==
  ASSUME Shape, Meetings, Remember, NEW t \in Requests, NEW u \in Requests \ {t},
         Request(u), Active(t), alone'[t]
  PROVE  /\ pc'[t] = pc[t] /\ ask'[t] = ask[t] /\ SameHand(t)
         /\ at'[t].open = at[t].open /\ before'[t] = before[t]
         /\ alone[t] /\ (quiet'[t] => quiet[t])
         /\ \A i \in Touched(t) : SameAt(i)
         /\ ask[t].kind = "reset" => dirs' = dirs /\ key' = key
<1>1. alone[t] /\ (quiet'[t] => quiet[t]) /\ before'[t] = before[t]
  BY Remembered
<1>2. Touched(t) \cap Touched(u) = {}
  BY <1>1 DEF Meetings
<1>3. Touched(t) \subseteq Ids
  BY DEF Touched
<1>4. \A i \in Touched(t) : SameAt(i)
  BY <1>2, <1>3, Elsewhere
<1>5. pc'[t] = pc[t] /\ ask'[t] = ask[t] /\ SameHand(t)
  BY OthersKept
<1>6. at'[t].open = at[t].open
  <2>1. CASE at[t].open \in Ids /\ at[t].open = at[u].id /\ Active(u)
    BY <1>2, <2>1, InHandTouched
  <2>2. CASE at[t].open = KeyFile /\ ask[u].kind = "reset" /\ Active(u)
    <3>1. pc[t] = "write_key" /\ at[t].id \in Ids
      BY <2>2 DEF Shape, Local, KeySteps
    <3>2. at[t].id \in Touched(t) /\ at[t].id \in Touched(u)
      BY <2>2, <3>1, InHandTouched DEF Touched
    <3> QED BY <1>2, <3>2
  <2> QED BY <2>1, <2>2, OthersKept
<1>7. ASSUME ask[t].kind = "reset" PROVE dirs' = dirs /\ key' = key
  <2>1. Touched(t) = Ids
    BY <1>7 DEF Touched
  <2>2. Touched(u) = {}
    <3>1. Touched(u) \subseteq Ids
      BY DEF Touched
    <3> QED BY <1>2, <2>1, <3>1
  <2>3. dirs \subseteq Ids /\ dirs' \subseteq Ids
    BY RequestFilesOK DEF Shape, TypeOK, FilesOK
  <2> QED BY <1>4, <2>1, <2>2, <2>3, KeyKept DEF SameAt, SameConfig, SameData
<1> QED BY <1>1, <1>4, <1>5, <1>6, <1>7

(* ... and what the agent process does not serve. *)
LEMMA ProcessFrame ==
  ASSUME Shape, AgentProcess, NEW i, i \notin Served
  PROVE  SameAt(i)
BY DEF AgentProcess, Discover, Load, EndCycle, InitDb, Poll, MarkProcessed, WriteStatus,
   Step, Served, SameAt, SameConfig, SameData, Put

-----------------------------------------------------------------------------
(* A request that met no other, through a step of its own. *)
LEMMA OwnStep ==
  ASSUME Shape, Remember, NEW t \in Requests, Request(t),
         Active(t) => /\ EditUndisturbed(t) /\ RenameUndisturbed(t) /\ RemovalUndisturbed(t)
  PROVE  EditUndisturbed(t)' /\ RenameUndisturbed(t)' /\ RemovalUndisturbed(t)'
<1> DEFINE id == at[t].id  new == at[t].new  was == before[t]
<1>1. Active(t) => before'[t] = before[t] /\ (quiet'[t] => quiet[t])
  BY Remembered
<1>2. /\ Local(t) /\ dirs \subseteq Ids /\ DOMAIN env \subseteq dirs
      /\ NoId \notin DOMAIN env
  BY IdFacts DEF Shape, TypeOK
<1> USE <1>1, <1>2 DEF EditUndisturbed, RenameUndisturbed, RemovalUndisturbed, Edits, Active,
                       From, Hand, SameHandOf, Editing, KeySteps
<1>3. CASE StartStep(t)
  <2>1. PICK a \in Asks :
          /\ ask'[t] = a /\ pc'[t] = First(a.kind) /\ pc[t] = "idle"
          /\ at'[t].id = IF a.kind \in {"create", "reset"} THEN NoId ELSE a.id
          /\ at'[t].todo = IF a.kind = "reset" THEN dirs ELSE {}
    BY <1>3 DEF StartStep
  <2>2. pc'[t] \in {"slug", "next", "mkdir"} /\ (pc'[t] = "next" <=> a.kind = "reset")
        /\ (a.kind = "create" => pc'[t] = "slug")
    BY <2>1 DEF First
  <2>3. UNCHANGED <<dirs, env, data>>
    BY <1>3 DEF StartStep
  <2>4. before'[t] = [lines |-> Lines(at'[t].id), data |-> DataOf(at'[t].id)]
    BY <2>1, <2>2, Remembered
  <2>5. before'[t].lines = Lines(at[t].id)' /\ before'[t].data = DataOf(at[t].id)'
    BY <2>3, <2>4 DEF Lines, DataOf
  <2>6. a.kind = "create" => before'[t].lines = Empty
    BY <2>1, <2>4 DEF Lines
  <2> QED BY <2>1, <2>2, <2>3, <2>5, <2>6
<1>4. CASE SlugStep(t)
  <2>1. PICK i \in Ids :
          /\ i \notin dirs
          /\ \/ ask[t].kind = "create" /\ pc'[t] = "mkdir" /\ at'[t].id = i
             \/ ask[t].kind # "create" /\ pc'[t] = "check" /\ at'[t].new = i /\ at'[t].id = at[t].id
    BY <1>4 DEF SlugStep, FreeId
  <2>2. pc[t] = "slug" /\ ask'[t] = ask[t] /\ UNCHANGED <<dirs, env, data>>
        /\ ask[t].kind \in {"create", "rename"} /\ before'[t] = before[t]
    BY <1>4 DEF SlugStep, Local
  <2>3. Lines(i)' = Empty
    BY <2>1, <2>2 DEF Lines
  <2>4. CASE ask[t].kind = "create"
    BY <2>1, <2>2, <2>3, <2>4
  <2>5. CASE ask[t].kind = "rename"
    BY <2>1, <2>2, <2>5 DEF Lines, DataOf
  <2> QED BY <2>2, <2>4, <2>5
<1>5. CASE MkdirStep(t)
  BY <1>5 DEF MkdirStep, Lines, DataOf, Local
<1>6. CASE ReadStep(t)
  BY <1>6 DEF ReadStep, Lines, DataOf, Local
<1>7. CASE LoadKeyStep(t)
  BY <1>7 DEF LoadKeyStep, Lines, DataOf, Local, Raised, Secret, Destroys
<1>8. CASE OpenKeyStep(t) \/ WriteKeyStep(t)
  BY <1>8 DEF OpenKeyStep, WriteKeyStep, Lines, DataOf, Local, Secret
<1>9. CASE TruncateStep(t)
  BY <1>9 DEF TruncateStep, Lines, DataOf, Local, Raised, Destroys, Put
<1>10. CASE WriteStep(t)
  BY <1>10 DEF WriteStep, Lines, DataOf, Local, Raised, Written, Destroys, Put
<1>11. CASE CheckStep(t)
  BY <1>11 DEF CheckStep, Lines, DataOf, Local, Renaming
<1>12. CASE MoveConfigStep(t)
  <2>1. /\ pc[t] = "move_config" /\ pc'[t] \in {"move_data", "failed"} /\ data' = data
        /\ ask'[t] = ask[t] /\ at'[t].id = id /\ at'[t].new = new
        /\ ask[t].kind = "rename" /\ Lines(id) = was.lines /\ new \notin dirs
    BY <1>12 DEF MoveConfigStep, Local, Renaming
  <2>2. pc'[t] = "move_data" => id \notin dirs' /\ Lines(new)' = was.lines
    <3>1. CASE id \notin dirs
      BY <1>12, <2>1, <3>1 DEF MoveConfigStep, Lines
    <3>2. CASE id \in dirs /\ pc'[t] = "move_data"
      <4>1. id # new /\ dirs' = (dirs \ {id}) \cup {new}
            /\ env' = IF id \in DOMAIN env THEN Put(Without(env, id), new, env[id]) ELSE env
        BY <1>12, <2>1, <3>2 DEF MoveConfigStep
      <4>2. CASE id \in DOMAIN env
        BY <2>1, <4>1, <4>2 DEF Lines, Put
      <4>3. CASE id \notin DOMAIN env
        BY <2>1, <4>1, <4>3 DEF Lines
      <4> QED BY <4>1, <4>2, <4>3
    <3> QED BY <3>1, <3>2
  <2> QED BY <2>1, <2>2 DEF DataOf
<1>13. CASE MoveDataStep(t)
  BY <1>13 DEF MoveDataStep, Lines, DataOf, Local, Renaming
<1>14. CASE RemoveConfigStep(t)
  BY <1>14 DEF RemoveConfigStep, Lines, DataOf, Local, Removing, Destroys
<1>15. CASE RemoveDataStep(t)
  BY <1>15 DEF RemoveDataStep, Lines, DataOf, Local, Removing, Destroys
<1>16. CASE ResetNextStep(t)
  BY <1>16 DEF ResetNextStep, Local, Resetting
<1>17. CASE UnlinkStep(t)
  BY <1>17 DEF UnlinkStep, Local, Resetting
<1>18. CASE StopStep(t)
  BY <1>18 DEF StopStep, Local, Resetting
<1> HIDE <1>1, <1>2
<1> QED
  BY Effects, <1>3, <1>4, <1>5, <1>6, <1>7, <1>8, <1>9, <1>10, <1>11, <1>12, <1>13, <1>14,
     <1>15, <1>16, <1>17, <1>18

(* It stays undisturbed when what it knows, and the files of its agents, stay. *)
LEMMA StaysUndisturbed ==
  ASSUME Shape, NEW t \in Requests,
         EditUndisturbed(t), RenameUndisturbed(t), RemovalUndisturbed(t),
         pc'[t] = pc[t], ask'[t] = ask[t], SameHand(t), at'[t].open = at[t].open,
         Active(t), before'[t] = before[t],
         \A i \in Touched(t) : SameConfig(i),
         quiet'[t] => quiet[t] /\ \A i \in Touched(t) : SameData(i),
         ask[t].kind = "reset" => dirs' = dirs /\ key' = key
  PROVE  EditUndisturbed(t)' /\ RenameUndisturbed(t)' /\ RemovalUndisturbed(t)'
<1> DEFINE id == at[t].id  new == at[t].new
<1>1. at'[t].id = id /\ at'[t].new = new /\ at'[t].lines = at[t].lines /\ at'[t].todo = at[t].todo
  BY DEF SameHand
<1>2. \A i \in {id, new} \cap Ids :
        SameConfig(i) /\ (quiet'[t] => SameData(i))
  BY InHandTouched
<1>3. id \in Ids => /\ SameConfig(id) /\ Lines(at[t].id)' = Lines(id)
                    /\ quiet'[t] => DataOf(at[t].id)' = DataOf(id)
  BY <1>1, <1>2 DEF SameConfig, SameData, Lines, DataOf
<1>4. new \in Ids => /\ SameConfig(new) /\ Lines(at[t].new)' = Lines(new)
                     /\ quiet'[t] => (new \in DOMAIN data' <=> new \in DOMAIN data)
  BY <1>1, <1>2 DEF SameConfig, SameData, Lines
<1>5. Local(t)
  BY DEF Shape
<1>6. EditUndisturbed(t)'
  <2>1. CASE pc[t] \in {"mkdir", "read", "truncate", "write"} \cup KeySteps /\ Edits(t)
    BY <1>1, <1>3, <1>5, <2>1
    DEF EditUndisturbed, Edits, Active, Local, Editing, SameConfig
  <2>2. CASE ~(pc[t] \in {"mkdir", "read", "truncate", "write"} \cup KeySteps /\ Edits(t))
    BY <1>1, <2>2 DEF EditUndisturbed, Edits, Active
  <2> QED BY <2>1, <2>2
<1>7. RenameUndisturbed(t)'
  <2>1. CASE ask[t].kind = "rename"
    BY <1>1, <1>3, <1>4, <1>5, <2>1
    DEF RenameUndisturbed, Active, Local, Renaming, SameConfig
  <2>2. CASE ask[t].kind # "rename"
    BY <2>2 DEF RenameUndisturbed
  <2> QED BY <2>1, <2>2
<1>8. RemovalUndisturbed(t)'
  BY <1>1, <1>3, <1>5 DEF RemovalUndisturbed, Local, Removing, Editing, SameConfig
<1> QED BY <1>6, <1>7, <1>8

LEMMA UndisturbedKept ==
  ASSUME Shape, Meetings, Undisturbed, Next, NEW t \in Requests, alone'[t]
  PROVE  EditUndisturbed(t)' /\ RenameUndisturbed(t)' /\ RemovalUndisturbed(t)'
<1>1. Remember
  BY DEF Next
<1>2. Active(t) => /\ alone[t] /\ before'[t] = before[t] /\ (quiet'[t] => quiet[t])
                   /\ EditUndisturbed(t) /\ RenameUndisturbed(t) /\ RemovalUndisturbed(t)
  BY <1>1, Remembered DEF Undisturbed
<1>3. CASE Request(t)
  BY <1>1, <1>2, <1>3, OwnStep
<1>4. ASSUME ~Active(t)' PROVE EditUndisturbed(t)' /\ RenameUndisturbed(t)' /\ RemovalUndisturbed(t)'
  BY <1>4
  DEF EditUndisturbed, RenameUndisturbed, RemovalUndisturbed, Active, Editing, KeySteps
<1>5. ASSUME NEW u \in Requests \ {t}, Request(u)
      PROVE  EditUndisturbed(t)' /\ RenameUndisturbed(t)' /\ RemovalUndisturbed(t)'
  <2>1. CASE ~Active(t)
    <3>1. pc'[t] = pc[t]
      BY <1>5, OthersKept
    <3> QED BY <1>4, <2>1, <3>1 DEF Active
  <2>2. CASE Active(t)
    BY <1>1, <1>2, <1>5, <2>2, Unmet, StaysUndisturbed DEF SameAt
  <2> QED BY <2>1, <2>2
<1>6. CASE AgentProcess
  <2>1. UNCHANGED <<dirs, env, key, pc, ask, at>>
    BY <1>6 DEF AgentProcess
  <2>2. CASE ~Active(t)
    BY <1>4, <2>1, <2>2 DEF Active
  <2>3. CASE Active(t)
    <3>1. \A i \in Touched(t) : SameConfig(i)
      BY <2>1 DEF SameConfig
    <3>2. ASSUME quiet'[t] PROVE quiet[t] /\ \A i \in Touched(t) : SameData(i)
      <4>1. Touched(t) \cap Served = {}
        BY <1>2, <2>3, <3>2 DEF Meetings
      <4> QED BY <1>2, <1>6, <2>3, <3>2, <4>1, ProcessFrame DEF SameAt
    <3>3. SameHand(t)
      BY <2>1 DEF SameHand
    <3> QED BY <1>2, <2>1, <2>3, <3>1, <3>2, <3>3, StaysUndisturbed
  <2> QED BY <2>2, <2>3
<1> QED BY <1>3, <1>5, <1>6 DEF Next

LEMMA UndisturbedHolds == Spec => [](Shape /\ Meetings /\ Undisturbed)
<1>1. Init => Undisturbed
  BY DEF Init, Undisturbed, EditUndisturbed, RenameUndisturbed, RemovalUndisturbed, Edits, Active,
         Editing, KeySteps
<1>2. ASSUME Undisturbed, UNCHANGED vars PROVE Undisturbed'
  <2>1. UNCHANGED <<dirs, env, data, key, pc, ask, at, before, alone, quiet>>
    BY <1>2 DEF vars, files, history
  <2>2. \A t \in Requests : /\ EditUndisturbed(t)' <=> EditUndisturbed(t)
                            /\ RenameUndisturbed(t)' <=> RenameUndisturbed(t)
                            /\ RemovalUndisturbed(t)' <=> RemovalUndisturbed(t)
    BY <2>1 DEF EditUndisturbed, RenameUndisturbed, RemovalUndisturbed, Edits, Active, Lines, DataOf
  <2> QED BY <1>2, <2>1, <2>2 DEF Undisturbed
<1>3. Shape /\ Meetings /\ Undisturbed /\ [Next]_vars => Undisturbed'
  BY <1>2, UndisturbedKept DEF Undisturbed
<1> QED BY <1>1, <1>3, ShapeHolds, MeetingsHold, PTL DEF Spec

(* The last step of a request that was undisturbed so far. *)
LEMMA LastStep ==
  ASSUME Shape, Remember, NEW t \in Requests, Request(t), Active(t),
         EditUndisturbed(t), RenameUndisturbed(t), RemovalUndisturbed(t)
  PROVE  Atomically(t)
<1> DEFINE id == at[t].id  new == at[t].new  was == before[t]  kind == ask[t].kind
<1>1. quiet'[t] => quiet[t]
  BY Remembered
<1>2. Local(t) /\ DOMAIN env \subseteq dirs
  BY DEF Shape, TypeOK
<1> USE <1>1, <1>2 DEF EditUndisturbed, RenameUndisturbed, RemovalUndisturbed, Edits, Active,
                       From, Hand, SameHandOf, Editing, KeySteps, Atomically, Succeeds, Fails
<1>3. ASSUME pc'[t] \notin {"ok", "failed"} PROVE Atomically(t)
  BY <1>3
<1>4. CASE LoadKeyStep(t)
  <2>1. /\ pc[t] = "load_key" /\ kind = "save" /\ at'[t].id = id /\ env' = env
        /\ pc'[t] # "ok"
    BY <1>4 DEF LoadKeyStep, Local, Raised, Secret, Destroys
  <2>2. Lines(at[t].id)' = was.lines
    BY <2>1 DEF Lines
  <2> QED BY <2>1, <2>2
<1>5. CASE TruncateStep(t)
  <2>1. pc[t] = "truncate" /\ (pc'[t] = "write" \/ (id \notin dirs /\ pc'[t] = Raised(t)))
        /\ kind \in Kinds /\ kind # "rename"
    BY <1>5, AskFacts DEF TruncateStep, Local
  <2>2. Edits(t) => id \in dirs
    BY <2>1
  <2>3. ~Edits(t) => Destroys(t)
    BY <2>1 DEF Kinds, Destroys
  <2> QED BY <1>3, <2>1, <2>2, <2>3 DEF Raised
<1>6. CASE WriteStep(t)
  <2>1. CASE Edits(t)
    <3>1. /\ pc[t] = "write" /\ id \in DOMAIN env /\ at[t].open = id /\ at'[t].id = id
          /\ at[t].lines = was.lines /\ (kind = "create" => was.lines = Empty)
          /\ pc'[t] = "ok" /\ id \in Ids
      BY <1>6, <2>1 DEF WriteStep, Written, Destroys, Local
    <3>2. Lines(at[t].id)' = Over(Updates(t), was.lines)
      <4>1. env' = Put(env, id, Edited(t))
        BY <1>6, <3>1, IdFacts DEF WriteStep
      <4> DEFINE text == Edited(t)
      <4>2. env' = Put(env, id, text)
        BY <4>1
      <4> HIDE DEF text
      <4>3. env'[id] = text /\ id \in DOMAIN env'
        BY <4>2 DEF Put
      <4> QED BY <3>1, <4>3 DEF Lines, Edited, text
    <3>3. kind = "create" => Over(Updates(t), was.lines) = Line("enabled", FALSE)
      <4>1. ASSUME kind = "create" PROVE Updates(t) = Line("enabled", FALSE)
        <5>1. (kind = "toggle" /\ ask[t].on) = FALSE
          BY <4>1
        <5> QED BY <4>1, <5>1, Zenon DEF Updates
      <4>2. Over(Line("enabled", FALSE), Empty) = Line("enabled", FALSE)
        <5> DEFINE l == Line("enabled", FALSE)
        <5>1. DOMAIN l = {"enabled"} /\ l = [x \in {"enabled"} |-> l[x]]
          BY DEF Line, Put, Empty
        <5> HIDE DEF l
        <5>2. DOMAIN Empty = {}
          BY DEF Empty
        <5>3. Over(l, Empty) = [x \in {"enabled"} |-> l[x]]
          BY <5>1, <5>2 DEF Over
        <5> QED BY <5>1, <5>3 DEF l
      <4> QED BY <3>1, <4>1, <4>2
    <3> QED BY <2>1, <3>1, <3>2, <3>3
  <2>2. CASE ~Edits(t)
    <3>1. pc[t] = "write" /\ kind \in Kinds /\ kind # "rename"
      BY <1>6, AskFacts DEF WriteStep, Local
    <3>2. Destroys(t)
      BY <2>2, <3>1 DEF Kinds, Destroys
    <3> QED BY <1>3, <1>6, <3>2 DEF WriteStep, Raised, Written
  <2> QED BY <2>1, <2>2
<1>7. CASE CheckStep(t)
  BY <1>7 DEF CheckStep, Local, Renaming, Lines, DataOf
<1>8. CASE MoveConfigStep(t)
  BY <1>8 DEF MoveConfigStep, Local, Renaming
<1>9. CASE MoveDataStep(t)
  <2>1. /\ pc[t] = "move_data" /\ kind = "rename" /\ at'[t].id = id /\ at'[t].new = new
        /\ UNCHANGED <<dirs, env>> /\ id \notin dirs /\ Lines(new) = was.lines
        /\ quiet'[t] => DataOf(id) = was.data /\ new \notin DOMAIN data
    BY <1>9 DEF MoveDataStep, Local, Renaming
  <2>2. id \notin dirs' /\ Lines(at[t].new)' = was.lines
    BY <2>1 DEF Lines
  <2>3. ASSUME quiet'[t]
        PROVE  pc'[t] = "ok" /\ DataOf(at[t].new)' = was.data /\ DataOf(at[t].id)' = "none"
    <3>1. CASE id \in DOMAIN data
      <4>1. pc'[t] = "ok" /\ data' = Put(Without(data, id), new, data[id]) /\ id # new
        BY <1>9, <2>1, <2>3, <3>1 DEF MoveDataStep
      <4> QED BY <2>1, <2>3, <3>1, <4>1 DEF DataOf, Put, Without
    <3>2. CASE id \notin DOMAIN data
      BY <1>9, <2>1, <2>3, <3>2 DEF MoveDataStep, DataOf
    <3> QED BY <3>1, <3>2
  <2> QED BY <2>1, <2>2, <2>3
<1>10. CASE RemoveDataStep(t)
  BY <1>10 DEF RemoveDataStep, Local, Removing, Destroys, DataOf, Without
<1>11. CASE StopStep(t)
  BY <1>11 DEF StopStep, Local, Resetting
<1> HIDE <1>1, <1>2
<1>12. CASE StartStep(t) \/ SlugStep(t) \/ MkdirStep(t) \/ ReadStep(t) \/ OpenKeyStep(t)
            \/ WriteKeyStep(t) \/ RemoveConfigStep(t) \/ ResetNextStep(t) \/ UnlinkStep(t)
  BY <1>3, <1>12 DEF StartStep, SlugStep, MkdirStep, ReadStep, OpenKeyStep, WriteKeyStep,
     RemoveConfigStep, ResetNextStep, UnlinkStep
<1> QED BY Effects, <1>4, <1>5, <1>6, <1>7, <1>8, <1>9, <1>10, <1>11, <1>12

(* A request that met no other is atomic: nothing it does is torn or lost by
   the requests and the cycles that run all the while (agents_io.py:118-164,
   266-307; main.py:562-606, 1470-1479). *)
THEOREM RequestsAreAtomic == Spec => AloneIsAtomic
<1> DEFINE Inv == Shape /\ Meetings /\ Undisturbed
<1>1. ASSUME Inv, Next, NEW t \in Requests, alone'[t] PROVE Atomically(t)
  <2>1. Remember
    BY <1>1 DEF Next
  <2>2. CASE Request(t) /\ Active(t)
    <3>1. alone[t]
      BY <1>1, <2>1, <2>2, Remembered
    <3> QED BY <1>1, <2>1, <2>2, <3>1, LastStep DEF Undisturbed
  <2>3. CASE ~Active(t)
    BY <2>3 DEF Atomically, Succeeds, Fails
  <2>4. CASE Active(t) /\ ~Request(t)
    <3>1. pc'[t] = pc[t]
      BY <1>1, <2>4, OthersKept DEF Next, AgentProcess
    <3> QED BY <2>4, <3>1 DEF Atomically, Succeeds, Fails, Active
  <2> QED BY <2>2, <2>3, <2>4
<1>2. Inv /\ [Next]_vars => [\A t \in Requests : alone'[t] => Atomically(t)]_vars
  BY <1>1
<1> QED BY <1>2, UndisturbedHolds, PTL DEF Spec, AloneIsAtomic

-----------------------------------------------------------------------------
LEMMA KeyTypes ==
  ASSUME Shape
  PROVE  /\ Absent \notin Keys /\ Torn \notin Keys /\ Absent # Torn
         /\ \A i \in DOMAIN env : "password" \in DOMAIN env[i] => env[i]["password"][2] \in Keys
         /\ \A t \in Requests :
              "password" \in DOMAIN at[t].lines => at[t].lines["password"][2] \in Keys
<1>1. Absent \notin Keys /\ Torn \notin Keys /\ Absent # Torn
  BY ConstantsAssumption DEF Keys, Absent, Torn, Requests, Old
<1>2. \A p \in Keys \X Keys : p[2] \in Keys
  OBVIOUS
<1>3. \A i \in DOMAIN env : "password" \in DOMAIN env[i] => env[i]["password"] \in Keys \X Keys
  BY DEF Shape, TypeOK, FieldsOK
<1>4. \A t \in Requests :
        "password" \in DOMAIN at[t].lines => at[t].lines["password"] \in Keys \X Keys
  BY DEF Shape, Local, FieldsOK
<1> QED BY <1>1, <1>2, <1>3, <1>4

(* While there is no key there is no password, on the disk or in hand. *)
LEMMA NoKeyNoPassword ==
  ASSUME Shape, Encipherment, ~keyRace, key \in {Absent, Torn}
  PROVE  /\ \A i \in DOMAIN env : "password" \notin DOMAIN env[i]
         /\ \A t \in Requests :
              /\ pc[t] \in InHand => "password" \notin DOMAIN at[t].lines
              /\ ~(pc[t] \in {"truncate", "write"} /\ Secret(t))
<1>1. key \notin Keys
  BY KeyTypes
<1>2. \A t \in Requests : pc[t] \in {"truncate", "write"} /\ Secret(t) => at[t].key \in Keys
  BY DEF Shape, Local
<1> QED BY <1>1, <1>2, KeyTypes DEF Encipherment, Keyed, KeyedHand

(* What another request has in hand stays encrypted with the key. *)
LEMMA OtherKeyed ==
  ASSUME Shape, NEW t \in Requests, NEW u \in Requests \ {t}, Request(t), KeyedHand(u),
         key' = key, pc[t] # "unlink"
  PROVE  KeyedHand(u)'
<1>1. /\ pc'[u] = pc[u] /\ ask'[u] = ask[u] /\ at'[u].lines = at[u].lines /\ at'[u].key = at[u].key
  BY OthersKept DEF SameHand
<1>2. pc[u] = "write_key" /\ at[u].open = KeyFile => at'[u].open = KeyFile
  <2>1. ASSUME at[u].open = KeyFile PROVE at'[u].open = KeyFile
    BY <2>1, Effects, IdFacts DEF StartStep, SlugStep, MkdirStep, ReadStep, LoadKeyStep, OpenKeyStep,
       WriteKeyStep, TruncateStep, WriteStep, CheckStep, MoveConfigStep, MoveDataStep,
       RemoveConfigStep, RemoveDataStep, ResetNextStep, UnlinkStep, StopStep, OthersOpen,
       Unmoved, From, Shape, Local, Renaming, Removing
  <2> QED BY <2>1
<1> QED BY <1>1, <1>2 DEF KeyedHand, Keyed, Secret

(* A step that leaves the key alone. *)
LEMMA KeyStays ==
  ASSUME Shape, NEW t \in Requests, Request(t), Encipherment, ~keyRace,
         ~(OpenKeyStep(t) \/ WriteKeyStep(t) \/ UnlinkStep(t))
  PROVE  key' = key /\ (\A i \in DOMAIN env' : Keyed(env'[i])) /\ KeyedHand(t)'
<1>1. key' = key
  BY Effects DEF StartStep, SlugStep, MkdirStep, ReadStep, LoadKeyStep, TruncateStep, WriteStep,
     CheckStep, MoveConfigStep, MoveDataStep, RemoveConfigStep, RemoveDataStep, ResetNextStep, StopStep
<1>2. (\A i \in DOMAIN env : Keyed(env[i])) /\ KeyedHand(t)
  BY DEF Encipherment
<1>3. \A x : Keyed(x)' <=> Keyed(x')
  BY <1>1 DEF Keyed
<1>4. ASSUME env' = env PROVE \A i \in DOMAIN env' : Keyed(env'[i])
  BY <1>2, <1>4
<1>5. ASSUME pc'[t] \notin InHand PROVE KeyedHand(t)'
  BY <1>5 DEF KeyedHand, InHand, KeySteps
<1>6. CASE ReadStep(t)
  <2>1. Keyed(Lines(at[t].id))
    BY <1>2, EmptyFacts DEF Lines, Keyed
  <2>2. pc'[t] = "load_key" \/ (pc'[t] = "truncate" /\ ~Secret(t))
    BY <1>6 DEF ReadStep
  <2>3. at'[t].lines = Lines(at[t].id) /\ ask'[t] = ask[t] /\ env' = env
    BY <1>6 DEF ReadStep, Hand, From
  <2>4. KeyedHand(t)'
    BY <1>1, <2>1, <2>2, <2>3 DEF KeyedHand, Keyed, Secret
  <2> QED BY <1>1, <1>4, <2>3, <2>4
<1>7. CASE LoadKeyStep(t)
  <2>1. /\ pc[t] = "load_key" /\ at'[t].lines = at[t].lines /\ ask'[t] = ask[t] /\ env' = env
        /\ at'[t].key = key /\ pc'[t] # "write_key" /\ (pc'[t] = "open_key" => key = Absent)
        /\ pc'[t] # "write"
    BY <1>7 DEF LoadKeyStep, Hand, From, Raised
  <2>2. Keyed(at[t].lines)
    BY <1>2, <2>1 DEF KeyedHand, InHand, KeySteps
  <2>3. KeyedHand(t)'
    BY <1>1, <2>1, <2>2 DEF KeyedHand, Keyed
  <2> QED BY <1>1, <1>4, <2>1, <2>3
<1>8. CASE TruncateStep(t)
  <2>1. /\ pc[t] = "truncate" /\ at'[t].lines = at[t].lines /\ ask'[t] = ask[t]
        /\ at'[t].key = at[t].key /\ pc'[t] \in {"write", Raised(t)}
        /\ (env' = env \/ env' = Put(env, at[t].id, Empty))
    BY <1>8 DEF TruncateStep, SameHandOf, Hand, From
  <2>2. Keyed(at[t].lines) /\ (Secret(t) => at[t].key = key)
    BY <1>2, <2>1 DEF KeyedHand, InHand
  <2>3. KeyedHand(t)'
    BY <1>1, <2>1, <2>2 DEF KeyedHand, Keyed, Secret, Raised
  <2>4. \A i \in DOMAIN env' : Keyed(env'[i])
    BY <1>2, <2>1, EmptyFacts DEF Put, Keyed
  <2> QED BY <1>1, <2>3, <2>4
<1>9. CASE WriteStep(t)
  <2>1. /\ pc[t] = "write" /\ pc'[t] \in {Written(t), Raised(t)}
        /\ (env' = env \/ env' = Put(env, at[t].open, Edited(t)))
    BY <1>9 DEF WriteStep, From
  <2>2. Keyed(at[t].lines) /\ (Secret(t) => at[t].key = key)
    BY <1>2, <2>1 DEF KeyedHand, InHand
  <2>3. pc'[t] \notin InHand
    BY <2>1 DEF Written, Raised, InHand, KeySteps
  <2>4. Keyed(Edited(t))
    <3> DEFINE changes == Updates(t)
    <3>1. "password" \in DOMAIN changes => Secret(t) /\ changes["password"] = <<t, at[t].key>>
      <4>1. CASE ask[t].kind = "save"
        BY <4>1 DEF Updates, Encrypted, Secret
      <4>2. CASE ask[t].kind # "save"
        <5>1. DOMAIN changes = {"enabled"}
          <6> DEFINE on == ask[t].kind = "toggle" /\ ask[t].on
          <6>1. changes = Line("enabled", on)
            BY <4>2 DEF Updates
          <6> HIDE DEF on, changes
          <6> QED BY <6>1, LineFacts
        <5> HIDE DEF changes
        <5> QED BY <5>1
      <4> QED BY <4>1, <4>2
    <3>2. Edited(t) = Over(changes, at[t].lines)
      BY DEF Edited
    <3> HIDE DEF changes
    <3> QED BY <2>2, <3>1, <3>2 DEF Keyed, Over
  <2>5. \A i \in DOMAIN env' : Keyed(env'[i])
    <3> DEFINE text == Edited(t)
    <3>1. Keyed(text) /\ (env' = env \/ env' = Put(env, at[t].open, text))
      BY <2>1, <2>4
    <3> HIDE DEF text
    <3> QED BY <1>2, <3>1 DEF Put
  <2> QED BY <1>1, <1>5, <2>3, <2>5
<1>10. CASE MoveConfigStep(t)
  <2>1. pc'[t] \notin InHand
    BY <1>10 DEF MoveConfigStep, InHand, KeySteps
  <2>2. \/ env' = env
        \/ at[t].id \in DOMAIN env /\ env' = Put(Without(env, at[t].id), at[t].new, env[at[t].id])
    BY <1>10 DEF MoveConfigStep
  <2>3. \A i \in DOMAIN env' : \E j \in DOMAIN env : env'[i] = env[j]
    <3> DEFINE id == at[t].id  new == at[t].new  lines == env[id]
    <3>1. CASE id \in DOMAIN env /\ env' = Put(Without(env, id), new, lines)
      <4> HIDE DEF id, new
      <4>1. /\ DOMAIN env' = (DOMAIN env \ {id}) \cup {new} /\ env'[new] = lines
            /\ \A i \in DOMAIN env \ {id, new} : env'[i] = env[i]
        BY <3>1 DEF Put, Without
      <4> QED BY <3>1, <4>1
    <3> QED BY <2>2, <3>1
  <2> QED BY <1>1, <1>2, <1>5, <2>1, <2>3
<1>11. CASE RemoveConfigStep(t)
  BY <1>1, <1>2, <1>5, <1>11 DEF RemoveConfigStep, Without, InHand, KeySteps
<1>12. CASE StartStep(t) \/ SlugStep(t) \/ MkdirStep(t)
  <2>1. pc'[t] \notin InHand
    BY <1>12 DEF StartStep, SlugStep, MkdirStep, First, InHand, KeySteps
  <2>2. env' = env
    BY <1>12 DEF StartStep, SlugStep, MkdirStep
  <2> QED BY <1>1, <1>4, <1>5, <2>1, <2>2
<1>13. CASE CheckStep(t) \/ MoveDataStep(t) \/ RemoveDataStep(t) \/ ResetNextStep(t) \/ StopStep(t)
  <2>1. pc'[t] \notin InHand
    BY <1>13 DEF CheckStep, MoveDataStep, RemoveDataStep, ResetNextStep, StopStep, InHand, KeySteps
  <2>2. env' = env
    BY <1>13 DEF CheckStep, MoveDataStep, RemoveDataStep, ResetNextStep, StopStep
  <2> QED BY <1>1, <1>4, <1>5, <2>1, <2>2
<1> QED BY Effects, <1>6, <1>7, <1>8, <1>9, <1>10, <1>11, <1>12, <1>13

(* A step that makes the key, or takes it away in a reset. *)
LEMMA KeyChanges ==
  ASSUME Shape, Meetings, Undisturbed, Remember, Meetings', Encipherment, ~keyRace, ~keyRace',
         NEW t \in Requests, Request(t),
         OpenKeyStep(t) \/ WriteKeyStep(t) \/ UnlinkStep(t)
  PROVE  /\ \A i \in DOMAIN env' : "password" \notin DOMAIN env'[i]
         /\ \A u \in Requests : KeyedHand(u)'
<1>1. CASE OpenKeyStep(t) \/ WriteKeyStep(t)
  <2>1. pc[t] \in {"open_key", "write_key"} /\ env' = env /\ MakesKey(t)
    BY <1>1 DEF OpenKeyStep, WriteKeyStep, From, MakesKey
  <2>2. KeyedHand(t) /\ key \in {Absent, Torn}
    BY <2>1 DEF Encipherment, KeyedHand
  <2>3. \A i \in DOMAIN env' : "password" \notin DOMAIN env'[i]
    BY <2>1, <2>2, NoKeyNoPassword
  <2>4. ASSUME NEW u \in Requests \ {t} PROVE KeyedHand(u)'
    <3>1. pc'[u] = pc[u] /\ ask'[u] = ask[u] /\ at'[u].lines = at[u].lines
      BY OthersKept DEF SameHand
    <3>2. pc[u] \notin {"open_key", "write_key"}
      BY <2>1 DEF Meetings, MakesKey
    <3>3. /\ pc[u] \in InHand => "password" \notin DOMAIN at[u].lines
          /\ ~(pc[u] \in {"truncate", "write"} /\ Secret(u))
      BY <2>2, NoKeyNoPassword
    <3> QED BY <3>1, <3>2, <3>3 DEF KeyedHand, Keyed, Secret
  <2>5. KeyedHand(t)'
    <3>1. "password" \notin DOMAIN at'[t].lines
      BY <1>1, <2>1, <2>2, NoKeyNoPassword
      DEF OpenKeyStep, WriteKeyStep, SameHandOf, Hand, InHand, KeySteps
    <3>2. \/ pc'[t] = "write_key" /\ key' = Torn /\ at'[t].open = KeyFile
          \/ pc'[t] = "truncate" /\ key' = t /\ at'[t].key = t
      BY <1>1, <2>1, <2>2 DEF OpenKeyStep, WriteKeyStep, SameHandOf, Hand, From, KeyedHand
    <3> QED BY <3>1, <3>2 DEF KeyedHand, Keyed
  <2> QED BY <2>3, <2>4, <2>5
<1>2. CASE UnlinkStep(t)
  <2>1. /\ pc[t] = "unlink" /\ pc'[t] = "stop" /\ ask[t].kind = "reset" /\ env' = env /\ Active(t)
    BY <1>2 DEF UnlinkStep, From, Shape, Local, Resetting, Active
  <2>2. alone[t]
    BY <2>1 DEF Meetings
  <2>3. DOMAIN env' = {}
    BY <2>1, <2>2 DEF Undisturbed, RemovalUndisturbed, Shape, TypeOK
  <2>4. ASSUME NEW u \in Requests \ {t} PROVE KeyedHand(u)'
    <3>1. Touched(u) = {}
      <4>1. Touched(t) = Ids /\ Touched(u) \subseteq Ids
        BY <2>1 DEF Touched
      <4> QED BY <2>2, <4>1 DEF Meetings
    <3>2. pc[u] \notin InHand
      <4>1. ASSUME pc[u] \in InHand PROVE at[u].id \in Ids /\ Active(u)
        BY <4>1 DEF Shape, Local, InHand, Editing, KeySteps, Active
      <4> QED BY <3>1, <4>1, InHandTouched
    <3>3. pc'[u] = pc[u]
      BY OthersKept
    <3> QED BY <3>2, <3>3 DEF KeyedHand, InHand, KeySteps
  <2>5. KeyedHand(t)'
    BY <2>1 DEF KeyedHand, InHand, KeySteps
  <2> QED BY <2>3, <2>4, <2>5
<1> QED BY <1>1, <1>2

LEMMA EnciphermentKept ==
  ASSUME Shape, Meetings, Undisturbed, Encipherment, Next, Meetings'
  PROVE  Encipherment'
<1> SUFFICES ASSUME ~keyRace'
             PROVE  (\A i \in DOMAIN env' : Keyed(env[i])') /\ \A u \in Requests : KeyedHand(u)'
  BY DEF Encipherment
<1>1. Remember /\ ~keyRace
  BY FlagsStay DEF Next
<1>2. \A u \in Requests : KeyedHand(u)
  BY <1>1 DEF Encipherment
<1>3. ASSUME NEW t \in Requests, Request(t), OpenKeyStep(t) \/ WriteKeyStep(t) \/ UnlinkStep(t)
      PROVE  (\A i \in DOMAIN env' : Keyed(env[i])') /\ \A u \in Requests : KeyedHand(u)'
  BY <1>1, <1>3, KeyChanges DEF Keyed
<1>4. ASSUME NEW t \in Requests, Request(t), ~(OpenKeyStep(t) \/ WriteKeyStep(t) \/ UnlinkStep(t))
      PROVE  (\A i \in DOMAIN env' : Keyed(env[i])') /\ \A u \in Requests : KeyedHand(u)'
  <2>1. key' = key /\ (\A i \in DOMAIN env' : Keyed(env'[i])) /\ KeyedHand(t)'
    BY <1>1, <1>4, KeyStays
  <2>2. pc[t] # "unlink"
    BY <1>4, Effects DEF StartStep, SlugStep, MkdirStep, ReadStep, LoadKeyStep, TruncateStep,
       WriteStep, CheckStep, MoveConfigStep, MoveDataStep, RemoveConfigStep, RemoveDataStep,
       ResetNextStep, StopStep, From
  <2>3. \A u \in Requests \ {t} : KeyedHand(u)'
    BY <1>2, <1>4, <2>1, <2>2, OtherKeyed
  <2> QED BY <2>1, <2>3 DEF Keyed
<1>5. CASE AgentProcess
  BY <1>1, <1>5 DEF AgentProcess, Encipherment, Keyed, KeyedHand, Secret
<1> QED BY <1>3, <1>4, <1>5 DEF Next

(* Every password on the disk can be decrypted with the key that is there,
   until two requests make a key at once or a reset meets another request
   (crypto.py:31-52, main.py:1473). *)
THEOREM PasswordsDecryptable == Spec => []Decryptable
<1> DEFINE Inv == Shape /\ Meetings /\ Undisturbed
<1>1. Init => Encipherment
  <2> SUFFICES ASSUME Init PROVE (\A i \in DOMAIN env : Keyed(env[i])) /\ \A t \in Requests : KeyedHand(t)
    BY DEF Encipherment
  <2>1. \A t \in Requests : KeyedHand(t)
    BY DEF Init, KeyedHand, InHand, KeySteps
  <2>2. CASE env = Empty
    BY <2>1, <2>2, EmptyFacts
  <2>3. CASE env = Put(Empty, <<FirstName, 1>>, Configured) /\ key = Old
    <3>1. Keyed(Configured)
      <4> DEFINE x == Line("user", Old)  y == Line("password", <<Old, Old>>)  z == Line("enabled", TRUE)
      <4>1. DOMAIN x = {"user"}
        BY LineFacts
      <4>2. "password" \in DOMAIN y /\ y["password"] = <<Old, Old>>
        BY LineFacts
      <4>3. Configured = Over(x, Over(y, z))
        BY DEF Configured
      <4> HIDE DEF x, y, z
      <4>4. Configured["password"] = <<Old, Old>>
        BY <4>1, <4>2, <4>3 DEF Over
      <4> QED BY <2>3, <4>4 DEF Keyed
    <3>2. DOMAIN env = {<<FirstName, 1>>} /\ env[<<FirstName, 1>>] = Configured
      BY <2>3, EmptyFacts DEF Put
    <3> QED BY <2>1, <3>1, <3>2
  <2> QED BY <2>1, <2>2, <2>3 DEF Init
<1>2. ASSUME Encipherment, UNCHANGED vars PROVE Encipherment'
  BY <1>2 DEF vars, files, history, Encipherment, Keyed, KeyedHand, Secret
<1>3. Inv /\ Inv' /\ Encipherment /\ [Next]_vars => Encipherment'
  BY <1>2, EnciphermentKept
<1>4. Encipherment => Decryptable
  BY DEF Encipherment, Decryptable, Keyed
<1> QED BY <1>1, <1>3, <1>4, UndisturbedHolds, PTL DEF Spec

-----------------------------------------------------------------------------
(* Who moves or removes an agent has it alone. *)
LEMMA MoverAlone ==
  ASSUME Shape, Meetings, ~spoilt, NEW t \in Requests, Moves(t)
  PROVE  /\ alone[t] /\ quiet[t]
         /\ \A v \in Requests \ {t} :
              Active(v) => /\ at[v].id \in Ids => at[v].id \notin Touched(t)
                           /\ at[v].new \in Ids => at[v].new \notin Touched(t)
         /\ proc.step \in Serving => proc.id \notin Touched(t)
<1>1. alone[t] /\ quiet[t]
  BY DEF Meetings
<1>2. ASSUME NEW v \in Requests \ {t}, Active(v), NEW i \in {at[v].id, at[v].new} \cap Ids
      PROVE  i \notin Touched(t)
  <2>1. i \in Touched(v)
    BY <1>2, InHandTouched
  <2> QED BY <1>1, <2>1 DEF Meetings
<1>3. proc.step \in Serving => proc.id \notin Touched(t)
  BY <1>1 DEF Meetings, Served, Serving
<1> QED BY <1>1, <1>2, <1>3

LEMMA AtMoved ==
  ASSUME Shape, Meetings, ~spoilt, NEW t \in Requests, Moves(t),
         NEW u, NEW i \in Touched(t), At(u, i)
  PROVE  OnDisk(u, i) \/ (Holds(t, u) /\ at[t].id = i)
<1>1. i \in Ids
  BY DEF Touched
<1>2. ASSUME NEW v \in Requests \ {t}, Has(v, u, i) PROVE FALSE
  <2>1. Active(v)
    BY <1>2 DEF Has, Holds, Brings, InHand, KeySteps, Active
  <2> QED BY <1>1, <1>2, <2>1, MoverAlone DEF Has
<1>3. ~Polls(u, i)
  BY MoverAlone DEF Polls, Serving
<1>4. Has(t, u, i) => Holds(t, u) /\ at[t].id = i
  BY DEF Has, Brings, Moves
<1> QED BY <1>2, <1>3, <1>4 DEF At

LEMMA OthersHas ==
  ASSUME Shape, NEW t \in Requests, Request(t), NEW v \in Requests \ {t}, NEW u, NEW i
  PROVE  (Has(v, u, i)' <=> Has(v, u, i)) /\ (Between(v, i)' <=> Between(v, i))
<1>1. /\ pc'[v] = pc[v] /\ ask'[v] = ask[v] /\ at'[v].id = at[v].id /\ at'[v].new = at[v].new
      /\ at'[v].lines = at[v].lines
  BY OthersKept DEF SameHand
<1> QED BY <1>1 DEF Has, Holds, Brings, Active, Between

(* An account gets to a place only from the same place, but for the request
   that brings it and for a move. *)
LEMMA OwnHas ==
  ASSUME Shape, NEW t \in Requests, Request(t), ~StartStep(t), ~MoveConfigStep(t), NEW u, NEW i,
         Has(t, u, i)'
  PROVE  Has(t, u, i) \/ OnDisk(u, i)
<1> USE DEF From, SameHandOf, Hand
<1>1. CASE SlugStep(t)
  BY <1>1 DEF SlugStep, Has, Holds, Brings, Active, InHand, KeySteps, Shape, Local
<1>2. CASE ReadStep(t)
  <2>1. /\ pc[t] = "read" /\ ask'[t] = ask[t] /\ at'[t].id = at[t].id
        /\ at'[t].lines = Lines(at[t].id)
    BY <1>2 DEF ReadStep
  <2>2. at'[t].id = i /\ (Holds(t, u)' \/ (t = u /\ Brings(t)'))
    BY DEF Has
  <2>3. CASE t = u /\ Brings(t)'
    BY <2>1, <2>2, <2>3 DEF Has, Brings, Active
  <2>4. CASE Holds(t, u)'
    BY <2>1, <2>2, <2>4, EmptyFacts DEF Holds, Lines, OnDisk
  <2> QED BY <2>2, <2>3, <2>4
<1>3. CASE MkdirStep(t) \/ CheckStep(t) \/ MoveDataStep(t) \/ RemoveConfigStep(t)
           \/ RemoveDataStep(t) \/ ResetNextStep(t) \/ UnlinkStep(t) \/ StopStep(t)
  <2>1. /\ pc[t] \notin {"idle", "ok", "failed"} /\ pc'[t] \notin InHand /\ ask'[t] = ask[t]
        /\ at'[t].id = at[t].id \/ ask[t].kind = "reset"
    BY <1>3 DEF MkdirStep, CheckStep, MoveDataStep, RemoveConfigStep, RemoveDataStep,
       ResetNextStep, UnlinkStep, StopStep, InHand, KeySteps, Shape, Local, Resetting
  <2> QED BY <2>1 DEF Has, Holds, Brings, Active
<1>4. CASE LoadKeyStep(t) \/ OpenKeyStep(t) \/ WriteKeyStep(t) \/ TruncateStep(t) \/ WriteStep(t)
  <2>1. /\ pc[t] \in InHand /\ ask'[t] = ask[t] /\ at'[t].id = at[t].id
        /\ at'[t].lines = at[t].lines
    BY <1>4 DEF LoadKeyStep, OpenKeyStep, WriteKeyStep, TruncateStep, WriteStep, InHand, KeySteps
  <2> QED BY <2>1 DEF Has, Holds, Brings, Active, InHand, KeySteps
<1> HIDE DEF From, SameHandOf, Hand
<1> QED BY Effects, <1>1, <1>2, <1>3, <1>4

LEMMA UserWritten ==
  ASSUME NEW t \in Requests, "user" \in DOMAIN Edited(t)
  PROVE  \/ Edited(t)["user"] = t /\ ask[t].kind = "save" /\ "user" \in ask[t].fields
         \/ "user" \in DOMAIN at[t].lines /\ Edited(t)["user"] = at[t].lines["user"]
<1> DEFINE changes == Updates(t)
<1>1. "user" \in DOMAIN changes =>
        ask[t].kind = "save" /\ "user" \in ask[t].fields /\ changes["user"] = t
  <2>1. CASE ask[t].kind = "save"
    BY <2>1 DEF Updates
  <2>2. CASE ask[t].kind # "save"
    <3>1. DOMAIN changes = {"enabled"}
      <4> DEFINE on == ask[t].kind = "toggle" /\ ask[t].on
      <4>1. changes = Line("enabled", on)
        BY <2>2 DEF Updates
      <4> HIDE DEF on, changes
      <4> QED BY <4>1, LineFacts
    <3> HIDE DEF changes
    <3> QED BY <3>1
  <2> QED BY <2>1, <2>2
<1>2. Edited(t) = Over(changes, at[t].lines)
  BY DEF Edited
<1> HIDE DEF changes
<1> QED BY <1>1, <1>2 DEF Over

LEMMA DiskAt ==
  ASSUME Shape, NEW t \in Requests, Request(t), ~MoveConfigStep(t),
         pc[t] = "write" => at[t].open = at[t].id, NEW u, NEW i, OnDisk(u, i)'
  PROVE  OnDisk(u, i) \/ Has(t, u, i)
<1>1. CASE env' = env
  BY <1>1 DEF OnDisk
<1>2. CASE TruncateStep(t)
  <2>1. env' = env \/ env' = Put(env, at[t].id, Empty)
    BY <1>2 DEF TruncateStep
  <2> QED BY <2>1, EmptyFacts DEF OnDisk, Put
<1>3. CASE RemoveConfigStep(t)
  BY <1>3 DEF RemoveConfigStep, OnDisk, Without
<1>4. CASE WriteStep(t)
  <2> DEFINE text == Edited(t)  id == at[t].id
  <2>1. pc[t] = "write" /\ (env' = env \/ env' = Put(env, id, text))
    BY <1>4 DEF WriteStep, From
  <2>2. ASSUME env' = Put(env, id, text), i = id PROVE Has(t, u, i)
    <3> HIDE DEF text
    <3>1. "user" \in DOMAIN text /\ text["user"] = u
      BY <2>2 DEF OnDisk, Put
    <3> QED BY <2>1, <2>2, <3>1, UserWritten DEF text, Has, Holds, Brings, Active, InHand
  <2> HIDE DEF text, id
  <2>3. ASSUME env' = Put(env, id, text), i # id PROVE OnDisk(u, i)
    BY <2>3 DEF OnDisk, Put
  <2> QED BY <1>1, <2>1, <2>2, <2>3
<1> QED BY Effects, <1>1, <1>2, <1>3, <1>4 DEF StartStep, SlugStep, MkdirStep, ReadStep,
   LoadKeyStep, OpenKeyStep, WriteKeyStep, CheckStep, MoveDataStep, RemoveDataStep,
   ResetNextStep, UnlinkStep, StopStep

LEMMA PollsKept ==
  ASSUME Shape, NEW t \in Requests, Request(t), NEW u, NEW i, Polls(u, i)'
  PROVE  Polls(u, i)
BY RequestKeeps DEF Polls

LEMMA AtShrinks ==
  ASSUME Shape, NEW t \in Requests, Request(t), ~StartStep(t), ~MoveConfigStep(t),
         pc[t] = "write" => at[t].open = at[t].id, NEW u, NEW i, At(u, i)'
  PROVE  At(u, i)
<1>1. ASSUME OnDisk(u, i)' PROVE At(u, i)
  BY <1>1, DiskAt DEF At
<1>2. ASSUME NEW v \in Requests, Has(v, u, i)' PROVE At(u, i)
  BY <1>2, OwnHas, OthersHas DEF At
<1>3. ASSUME Polls(u, i)' PROVE At(u, i)
  BY <1>3, PollsKept DEF At
<1> QED BY <1>1, <1>2, <1>3 DEF At

LEMMA StartAt ==
  ASSUME Shape, NEW t \in Requests, Request(t), StartStep(t), NEW u, NEW i, At(u, i)'
  PROVE  At(u, i) \/ (u = t /\ i = at'[t].id)
<1>1. pc'[t] \notin InHand /\ env' = env
  BY DEF StartStep, First, InHand, KeySteps
<1>2. ASSUME NEW v \in Requests \ {t}, Has(v, u, i)' PROVE At(u, i)
  BY <1>2, OthersHas DEF At
<1>3. Has(t, u, i)' => u = t /\ i = at'[t].id
  BY <1>1 DEF Has, Holds
<1>4. OnDisk(u, i)' => OnDisk(u, i)
  BY <1>1 DEF OnDisk
<1> QED BY <1>2, <1>3, <1>4, PollsKept DEF At

(* A move takes what is at the old id to the new one, where nothing was. *)
LEMMA MoveConfigAt ==
  ASSUME Shape, Meetings, Undisturbed, ~spoilt, NEW t \in Requests, Request(t), MoveConfigStep(t),
         NEW u, NEW i \in Ids, At(u, i)'
  PROVE  \/ pc'[t] = "move_data" /\ i = at[t].new /\ At(u, at[t].id)
         \/ At(u, i) /\ (pc'[t] = "move_data" => i \notin {at[t].id, at[t].new})
<1> DEFINE id == at[t].id  new == at[t].new
<1>1. /\ pc[t] = "move_config" /\ ask[t].kind = "rename" /\ ask'[t] = ask[t] /\ Moves(t)
      /\ id \in Ids /\ new \in Ids /\ pc'[t] \notin InHand
  BY DEF MoveConfigStep, From, Shape, Local, Renaming, Moves, Active, InHand, KeySteps
<1>2. id \in Touched(t) /\ new \in Touched(t)
  BY <1>1, InHandTouched DEF Moves
<1>3. new \notin dirs /\ DOMAIN env \subseteq dirs
  BY <1>1, MoverAlone DEF Undisturbed, RenameUndisturbed, Shape, TypeOK
<1>4. CASE OnDisk(u, i)'
  <2>1. CASE env' = env /\ ~(id \in DOMAIN env /\ pc'[t] = "move_data")
    <3>1. OnDisk(u, i)
      BY <1>4, <2>1 DEF OnDisk
    <3>2. pc'[t] = "move_data" => i \notin {id, new}
      BY <1>3, <2>1, <3>1 DEF OnDisk
    <3> QED BY <3>1, <3>2 DEF At
  <2>2. CASE pc'[t] = "move_data" /\ id \in DOMAIN env
             /\ env' = Put(Without(env, id), new, env[id])
    <3> HIDE DEF id, new
    <3>1. /\ DOMAIN env' = (DOMAIN env \ {id}) \cup {new} /\ env'[new] = env[id]
          /\ \A j \in DOMAIN env \ {id, new} : env'[j] = env[j]
      BY <2>2 DEF Put, Without
    <3>2. CASE i = new
      BY <1>4, <2>2, <3>1, <3>2 DEF OnDisk, At, id, new
    <3>3. CASE i # new
      <4>1. i \in DOMAIN env \ {id, new}
        BY <1>4, <3>1, <3>3 DEF OnDisk
      <4> QED BY <1>4, <3>1, <4>1 DEF OnDisk, At, id, new
    <3> QED BY <3>2, <3>3
  <2> QED BY <1>3, <2>1, <2>2 DEF MoveConfigStep
<1>5. ASSUME NEW v \in Requests, Has(v, u, i)' PROVE At(u, i) /\ i \notin {id, new}
  <2>1. CASE v = t
    BY <1>1, <1>5, <2>1 DEF Has, Holds, Brings
  <2>2. CASE v # t
    <3>1. Has(v, u, i)
      BY <1>5, <2>2, OthersHas
    <3>2. Active(v) /\ at[v].id = i
      BY <3>1 DEF Has, Holds, Brings, InHand, KeySteps, Active
    <3> QED BY <1>1, <1>2, <2>2, <3>1, <3>2, MoverAlone DEF At
  <2> QED BY <2>1, <2>2
<1>6. CASE Polls(u, i)'
  <2>1. Polls(u, i)
    BY <1>6, PollsKept
  <2> QED BY <1>1, <1>2, <2>1, MoverAlone DEF Polls, At, Serving
<1> QED BY <1>4, <1>5, <1>6 DEF At

LEMMA WritesIntoItsFile ==
  ASSUME Shape, Meetings, ~spoilt, NEW t \in Requests, Request(t),
         \A v \in Requests : pc[v] = "write" => at[v].open = at[v].id, NEW v \in Requests
  PROVE  pc'[v] = "write" => at'[v].open = at'[v].id
<1>1. CASE v = t
  BY <1>1, Effects DEF StartStep, SlugStep, MkdirStep, ReadStep, LoadKeyStep, OpenKeyStep,
     WriteKeyStep, TruncateStep, WriteStep, CheckStep, MoveConfigStep, MoveDataStep,
     RemoveConfigStep, RemoveDataStep, ResetNextStep, UnlinkStep, StopStep, SameHandOf, Hand,
     First, Raised, Written
<1>2. CASE v # t /\ pc[v] = "write"
  <2>1. at[v].id \in Ids /\ Active(v) /\ at[v].open = at[v].id /\ at'[v].id = at[v].id
    BY <1>2, OthersKept DEF Shape, Local, Editing, Active, SameHand
  <2>2. CASE MoveConfigStep(t) \/ RemoveConfigStep(t)
    <3>1. Moves(t) /\ at[t].id \in Ids
      BY <2>2 DEF MoveConfigStep, RemoveConfigStep, From, Moves, Active, Shape, Local, Renaming,
         Removing, Destroys
    <3>2. at[t].id \in Touched(t)
      BY <3>1, InHandTouched DEF Moves
    <3>3. at[v].id # at[t].id
      BY <1>2, <2>1, <3>1, <3>2, MoverAlone
    <3> QED BY <1>2, <2>1, <3>3, OthersKept, IdFacts
  <2>3. CASE UnlinkStep(t)
    BY <2>1, <2>3, IdFacts DEF UnlinkStep
  <2>4. CASE OthersOpen(t)
    BY <1>2, <2>1, <2>4 DEF OthersOpen
  <2> QED BY Effects, <2>2, <2>3, <2>4 DEF StartStep, SlugStep, MkdirStep, ReadStep, LoadKeyStep,
     OpenKeyStep, WriteKeyStep, TruncateStep, WriteStep, CheckStep, MoveDataStep, RemoveDataStep,
     ResetNextStep, StopStep
<1>3. CASE v # t /\ pc[v] # "write"
  BY <1>3, OthersKept
<1> QED BY <1>1, <1>2, <1>3

LEMMA PlacesKept ==
  ASSUME Shape, Meetings, Undisturbed, ~spoilt, NEW t \in Requests, Request(t), Places
  PROVE  Places'
<1>1. \A v \in Requests : pc'[v] = "write" => at'[v].open = at'[v].id
  BY WritesIntoItsFile DEF Places
<1>2. pc'[t] # "idle" /\ drafts' = drafts
  BY Effects, RequestKeeps DEF StartStep, SlugStep, MkdirStep, ReadStep, LoadKeyStep, OpenKeyStep,
     WriteKeyStep, TruncateStep, WriteStep, CheckStep, MoveConfigStep, MoveDataStep,
     RemoveConfigStep, RemoveDataStep, ResetNextStep, UnlinkStep, StopStep, First, Raised, Written
<1>3. \A v \in Requests : v \in Keys /\ (v # t => pc'[v] = pc[v])
  BY OthersKept DEF Keys
<1>4. ASSUME \A u \in Keys : \A i \in Ids : At(u, i)' => At(u, i) PROVE Places'
  BY <1>1, <1>2, <1>3, <1>4 DEF Places
<1>5. CASE StartStep(t)
  <2>1. pc[t] = "idle" /\ \A i \in Ids : ~At(t, i)
    BY <1>5 DEF StartStep, Places
  <2>2. \A u \in Keys : \A i \in Ids : At(u, i)' => At(u, i) \/ (u = t /\ i = at'[t].id)
    BY <1>5, StartAt
  <2>3. \A u \in Keys : \A i, j \in Ids : At(u, i)' /\ At(u, j)' => i = j
    BY <2>1, <2>2 DEF Places
  <2>4. \A v \in Requests : pc'[v] = "idle" => drafts'[v] = 0 /\ \A i \in Ids : ~At(v, i)'
    BY <1>2, <1>3, <2>2 DEF Places
  <2> QED BY <1>1, <2>3, <2>4 DEF Places
<1>6. CASE MoveConfigStep(t)
  <2> DEFINE id == at[t].id  new == at[t].new
  <2>1. \A u \in Keys : \A i \in Ids : At(u, i)' =>
          \/ pc'[t] = "move_data" /\ i = new /\ At(u, id)
          \/ At(u, i) /\ (pc'[t] = "move_data" => i \notin {id, new})
    BY <1>6, MoveConfigAt
  <2>2. id \in Ids
    BY <1>6 DEF MoveConfigStep, From, Shape, Local, Renaming
  <2> HIDE DEF id, new
  <2>3. \A u \in Keys : \A i, j \in Ids : At(u, i)' /\ At(u, j)' => i = j
    <3> SUFFICES ASSUME NEW u \in Keys, NEW i \in Ids, NEW j \in Ids, At(u, i)', At(u, j)'
                 PROVE  i = j
      OBVIOUS
    <3> QED BY <2>1, <2>2 DEF Places
  <2>4. \A v \in Requests : pc'[v] = "idle" => drafts'[v] = 0 /\ \A i \in Ids : ~At(v, i)'
    <3> SUFFICES ASSUME NEW v \in Requests, pc'[v] = "idle"
                 PROVE  drafts'[v] = 0 /\ \A i \in Ids : ~At(v, i)'
      OBVIOUS
    <3>1. drafts[v] = 0 /\ \A i \in Ids : ~At(v, i)
      BY <1>2, <1>3 DEF Places
    <3> QED BY <1>2, <1>3, <2>1, <2>2, <3>1
  <2> QED BY <1>1, <2>3, <2>4 DEF Places
<1>7. CASE ~StartStep(t) /\ ~MoveConfigStep(t)
  <2>1. pc[t] = "write" => at[t].open = at[t].id
    BY DEF Places
  <2> QED BY <1>4, <1>7, <2>1, AtShrinks
<1> QED BY <1>5, <1>6, <1>7

(* The records of the accounts, through a step that moves none ... *)
LEMMA RecordsStay ==
  ASSUME Records, drafts' = drafts, data' = data, proc' = proc,
         \A v \in Requests, i \in Ids :
           (Between(v, i)' <=> Between(v, i)) /\ (Between(v, i) => at'[v].id = at[v].id),
         \A u \in Keys, i \in Ids : drafts[u] > 0 /\ At(u, i)' => At(u, i)
  PROVE  Records'
<1> SUFFICES ASSUME NEW u \in Keys, NEW i \in Ids, drafts[u] > 0, At(u, i)'
             PROVE  Done(i)' \/ Marking(u, i)'
  BY DEF Records
<1>1. Done(i) \/ Marking(u, i)
  BY DEF Records
<1>2. \A h \in Ids : HomeOf(i, h)' => HomeOf(i, h)
  BY DEF HomeOf
<1>3. \A h : DataOf(h)' = DataOf(h)
  BY DEF DataOf
<1>4. Marking(u, i) => Marking(u, i)'
  BY DEF Marking, DataOf
<1> QED BY <1>1, <1>2, <1>3, <1>4 DEF Done

(* ... the first half of a rename ... *)
LEMMA MoveConfigRecords ==
  ASSUME Shape, Meetings, Undisturbed, ~spoilt, NEW t \in Requests, Request(t),
         MoveConfigStep(t), Records
  PROVE  Records'
<1> DEFINE id == at[t].id  new == at[t].new
<1> SUFFICES ASSUME NEW u \in Keys, NEW i \in Ids, drafts'[u] > 0, At(u, i)'
             PROVE  Done(i)' \/ Marking(u, i)'
  BY DEF Records
<1>1. /\ pc[t] = "move_config" /\ Moves(t) /\ id \in Ids /\ new \in Ids
      /\ data' = data /\ proc' = proc /\ drafts' = drafts
      /\ at'[t].id = id /\ at'[t].new = new
  BY DEF MoveConfigStep, From, SameHandOf, Hand, Shape, Local, Renaming, Moves, Active
<1>2. id \in Touched(t) /\ new \in Touched(t)
  BY <1>1, InHandTouched DEF Moves
<1>3. \A h : DataOf(h)' = DataOf(h)
  BY <1>1 DEF DataOf
<1>4. \A v \in Requests \ {t} : /\ Between(v, i)' <=> Between(v, i)
                                /\ at'[v].id = at[v].id
  BY OthersHas, OthersKept DEF SameHand
<1>5. CASE pc'[t] = "move_data" /\ i = new /\ At(u, id)
  <2>1. \A v \in Requests : ~Between(v, id)
    <3>1. ~Between(t, id)
      BY <1>1 DEF Between
    <3>2. ASSUME NEW v \in Requests \ {t} PROVE ~Between(v, id)
      BY <1>1, <1>2, MoverAlone DEF Between, Active
    <3> QED BY <3>1, <3>2
  <2>2. ~Marking(u, id)
    BY <1>1, <1>2, MoverAlone DEF Marking, Serving
  <2>3. DataOf(id) = "done"
    <3>1. Done(id)
      BY <1>1, <1>5, <2>2 DEF Records
    <3> QED BY <1>1, <2>1, <3>1 DEF Done, HomeOf
  <2>4. \A v \in Requests \ {t} : ~Between(v, i)'
    BY <1>1, <1>2, <1>4, <1>5, MoverAlone DEF Between, Active
  <2>5. Between(t, i)'
    BY <1>1, <1>5 DEF Between
  <2>6. ASSUME NEW h \in Ids, HomeOf(i, h)' PROVE h = id
    BY <1>1, <2>4, <2>5, <2>6 DEF HomeOf
  <2> QED BY <1>3, <2>3, <2>6 DEF Done
<1>6. CASE At(u, i) /\ (pc'[t] = "move_data" => i \notin {id, new})
  <2>1. ~Between(t, i)' /\ ~Between(t, i)
    BY <1>1, <1>6 DEF Between
  <2>2. Done(i) \/ Marking(u, i)
    BY <1>1, <1>6 DEF Records
  <2>3. \A h \in Ids : HomeOf(i, h)' => HomeOf(i, h)
    BY <1>4, <2>1 DEF HomeOf
  <2>4. Marking(u, i) => Marking(u, i)'
    BY <1>1 DEF Marking, DataOf
  <2> QED BY <1>3, <2>2, <2>3, <2>4 DEF Done
<1> QED BY <1>5, <1>6, MoveConfigAt

(* ... the second half, and the removal of a record. *)
LEMMA MovedData ==
  ASSUME Shape, Meetings, Undisturbed, ~spoilt, NEW t \in Requests, Request(t), Places, Records,
         MoveDataStep(t) \/ RemoveDataStep(t)
  PROVE  Records'
<1> DEFINE id == at[t].id  new == at[t].new
<1> SUFFICES ASSUME NEW u \in Keys, NEW i \in Ids, drafts'[u] > 0, At(u, i)'
             PROVE  Done(i)' \/ Marking(u, i)'
  BY DEF Records
<1>1. /\ pc[t] \in {"move_data", "remove_data"} /\ Moves(t) /\ id \in Ids
      /\ proc' = proc /\ drafts' = drafts /\ pc'[t] # "move_data"
      /\ pc[t] = "move_data" => new \in Ids
  BY DEF MoveDataStep, RemoveDataStep, From, Shape, Local, Renaming, Removing, Moves, Active,
     Destroys
<1>2. id \in Touched(t) /\ (pc[t] = "move_data" => new \in Touched(t))
  BY <1>1, InHandTouched DEF Moves
<1>3. /\ id \notin DOMAIN env
      /\ pc[t] = "move_data" => new \notin DOMAIN data
  BY <1>1, MoverAlone DEF Undisturbed, RenameUndisturbed, RemovalUndisturbed, Shape, TypeOK,
     Local, Renaming
<1>4. At(u, i)
  BY <1>1, AtShrinks DEF StartStep, MoveConfigStep, From
<1>5. i # id
  <2>1. ASSUME i = id PROVE FALSE
    BY <1>1, <1>2, <1>3, <1>4, <2>1, AtMoved DEF OnDisk, Holds, InHand, KeySteps
  <2> QED BY <2>1
<1>6. Done(i) \/ Marking(u, i)
  BY <1>1, <1>4 DEF Records
<1>7. \A v \in Requests \ {t} : /\ Between(v, i)' <=> Between(v, i)
                                /\ at'[v].id = at[v].id
                                /\ Between(v, i) => at[v].id # id /\ at[v].id # new
  <2>1. \A v \in Requests \ {t} : (Between(v, i)' <=> Between(v, i)) /\ at'[v].id = at[v].id
    BY OthersHas, OthersKept DEF SameHand
  <2>2. ASSUME NEW v \in Requests \ {t}, Between(v, i) PROVE at[v].id # id /\ at[v].id # new
    <3>1. Active(v) /\ at[v].id \in Ids
      BY <2>2 DEF Between, Active, Shape, Local, Renaming
    <3>2. at[v].id \notin Touched(t)
      BY <1>1, <3>1, MoverAlone
    <3>3. new \in Ids => new \in Touched(t)
      BY <1>1, InHandTouched DEF Moves
    <3> QED BY <1>2, <3>1, <3>2, <3>3
  <2> QED BY <2>1, <2>2
<1>8. ~Between(t, i)'
  BY <1>1 DEF Between
<1>9. ASSUME NEW h \in Ids, h # id, pc[t] = "move_data" => h # new PROVE DataOf(h)' = DataOf(h)
  <2>1. CASE MoveDataStep(t)
    BY <1>9, <2>1 DEF MoveDataStep, From, DataOf, Put, Without
  <2>2. CASE RemoveDataStep(t)
    BY <1>9, <2>2 DEF RemoveDataStep, DataOf, Without
  <2> QED BY <2>1, <2>2
<1>10. CASE pc[t] = "move_data" /\ i = new
  <2>1. Between(t, i)
    BY <1>10 DEF Between
  <2>2. ~Marking(u, i)
    BY <1>1, <1>2, <1>10, MoverAlone DEF Marking, Serving
  <2>3. DataOf(id) = "done"
    BY <1>1, <1>6, <2>1, <2>2 DEF Done, HomeOf
  <2>4. DataOf(i)' = "done"
    <3>1. MoveDataStep(t)
      BY <1>10 DEF RemoveDataStep, From
    <3>2. id \in DOMAIN data
      BY <2>3 DEF DataOf
    <3>3. data' = Put(Without(data, id), new, data[id])
      BY <1>3, <1>10, <3>1, <3>2 DEF MoveDataStep
    <3> QED BY <1>10, <2>3, <3>2, <3>3 DEF DataOf, Put
  <2>5. ASSUME NEW v \in Requests \ {t} PROVE ~Between(v, i)'
    <3>1. ~Between(v, i)
      BY <1>1, <1>2, <1>10, MoverAlone DEF Between, Active
    <3> QED BY <1>7, <3>1
  <2>6. \A h \in Ids : HomeOf(i, h)' => h = i
    BY <1>8, <2>5 DEF HomeOf
  <2> QED BY <2>4, <2>6 DEF Done
<1>11. CASE ~(pc[t] = "move_data" /\ i = new)
  <2>1. ~Between(t, i)
    BY <1>11 DEF Between
  <2>2. \A h \in Ids : HomeOf(i, h)' =>
          HomeOf(i, h) /\ h # id /\ (pc[t] = "move_data" => h # new)
    BY <1>5, <1>7, <1>8, <1>11, <2>1 DEF HomeOf
  <2>3. Done(i) => Done(i)'
    <3> SUFFICES ASSUME Done(i), NEW h \in Ids, HomeOf(i, h)' PROVE DataOf(h)' = "done"
      BY DEF Done
    <3> QED BY <1>9, <2>2 DEF Done
  <2>4. Marking(u, i) => Marking(u, i)'
    <3>1. DataOf(i)' = DataOf(i)
      BY <1>5, <1>9, <1>11
    <3> QED BY <1>1, <3>1 DEF Marking
  <2> QED BY <1>6, <2>3, <2>4
<1> QED BY <1>10, <1>11

LEMMA RecordsKept ==
  ASSUME Shape, Meetings, Undisturbed, ~spoilt, NEW t \in Requests, Request(t), Places, Records,
         proc'.step # "removed"
  PROVE  Records'
<1>1. CASE MoveConfigStep(t)
  BY <1>1, MoveConfigRecords
<1>2. CASE MoveDataStep(t) \/ RemoveDataStep(t)
  BY <1>2, MovedData
<1>3. CASE ~MoveConfigStep(t) /\ ~MoveDataStep(t) /\ ~RemoveDataStep(t)
  <2>1. /\ drafts' = drafts /\ data' = data /\ proc' = proc
        /\ pc[t] # "move_data" /\ pc'[t] # "move_data"
    BY <1>3, Effects DEF StartStep, SlugStep, MkdirStep, ReadStep, LoadKeyStep, OpenKeyStep,
       WriteKeyStep, TruncateStep, WriteStep, CheckStep, RemoveConfigStep, ResetNextStep,
       UnlinkStep, StopStep, First, Raised, Written, From, Shape
  <2>2. \A v \in Requests, i \in Ids :
          (Between(v, i)' <=> Between(v, i)) /\ (Between(v, i) => at'[v].id = at[v].id)
    <3>1. \A i \in Ids : ~Between(t, i)' /\ ~Between(t, i)
      BY <2>1 DEF Between
    <3>2. \A v \in Requests \ {t}, i \in Ids :
            (Between(v, i)' <=> Between(v, i)) /\ at'[v].id = at[v].id
      BY OthersHas, OthersKept DEF SameHand
    <3> QED BY <3>1, <3>2
  <2>3. ASSUME NEW u \in Keys, NEW i \in Ids, drafts[u] > 0, At(u, i)' PROVE At(u, i)
    <3>1. CASE StartStep(t)
      <4>1. u # t
        BY <2>3, <3>1 DEF StartStep, Places
      <4> QED BY <2>3, <3>1, <4>1, StartAt
    <3>2. CASE ~StartStep(t)
      <4>1. pc[t] = "write" => at[t].open = at[t].id
        BY DEF Places
      <4> QED BY <1>3, <2>3, <3>2, <4>1, AtShrinks
    <3> QED BY <3>1, <3>2
  <2> QED BY <2>1, <2>2, <2>3, RecordsStay
<1> QED BY <1>1, <1>2, <1>3

(* The agent process: one draft, then the record of it. *)
LEMMA ProcessDrafting ==
  ASSUME Shape, Meetings, ~spoilt, AgentProcess, Places, DraftedOnce, Records
  PROVE  Places' /\ DraftedOnce' /\ Records'
<1>1. UNCHANGED <<dirs, env, key, pc, ask, at>> /\ drafts \in [Keys -> Nat]
  BY DEF AgentProcess, Shape
<1>2. ASSUME NEW u, NEW i PROVE At(u, i)' => At(u, i)
  <2>1. OnDisk(u, i)' => OnDisk(u, i)
    BY <1>1 DEF OnDisk
  <2>2. \A t \in Requests : Has(t, u, i)' => Has(t, u, i)
    BY <1>1 DEF Has, Holds, Brings, Active
  <2>3. Polls(u, i)' => Polls(u, i) \/ OnDisk(u, i)
    <3>1. CASE Load
      <4>1. PICK j \in proc.todo :
              proc' = [step |-> IF ~Readable(Lines(j)) THEN "status"
                                ELSE IF Enabled(Lines(j)) THEN "init" ELSE "next",
                       todo |-> proc.todo \ {j}, id |-> j,
                       user |-> IF Readable(Lines(j)) THEN Lines(j)["user"] ELSE Old]
        BY <3>1 DEF Load
      <4>2. proc'.step = "init" => Readable(Lines(j)) /\ proc'.user = Lines(j)["user"]
        BY <4>1
      <4>3. proc'.step \notin {"poll", "mark"} /\ proc'.id = j
        BY <4>1
      <4>4. Readable(Lines(j)) => OnDisk(Lines(j)["user"], j)
        BY EmptyFacts DEF Readable, Lines, OnDisk
      <4> QED BY <4>2, <4>3, <4>4 DEF Polls
    <3>2. CASE ~Load
      <4>1. proc \in [step: Serving \cup {"idle", "next", "removed"}, todo: SUBSET Ids,
                      id: Some, user: Keys]
        BY DEF Shape
      <4> QED BY <3>2, <4>1 DEF AgentProcess, Discover, EndCycle, InitDb, Poll, MarkProcessed,
                 WriteStatus, Step, Polls, Serving
    <3> QED BY <3>1, <3>2
  <2> QED BY <2>1, <2>2, <2>3 DEF At
<1>3. \A i, h : HomeOf(i, h)' <=> HomeOf(i, h)
  BY <1>1 DEF HomeOf, Between
<1>4. ASSUME proc.step \in Serving PROVE \A h \in Ids : HomeOf(proc.id, h) => h = proc.id
  <2>1. ASSUME NEW v \in Requests, Between(v, proc.id) PROVE FALSE
    <3>1. Moves(v) /\ at[v].new \in Ids /\ at[v].new = proc.id
      BY <2>1 DEF Between, Moves, Active, Shape, Local, Renaming
    <3>2. proc.id \in Touched(v)
      BY <3>1, InHandTouched DEF Moves
    <3> QED BY <1>4, <3>1, <3>2, MoverAlone
  <2> QED BY <2>1 DEF HomeOf
<1>5. proc.step \in Serving => proc.id \in Ids /\ proc.user \in Keys
  BY DEF Shape
<1>6. CASE Poll /\ drafts' # drafts
  <2> DEFINE u0 == proc.user  i0 == proc.id
  <2>1. /\ proc.step = "poll" /\ data' = data /\ DataOf(i0) = "empty"
        /\ drafts' = [drafts EXCEPT ![u0] = drafts[u0] + 1]
        /\ proc' = [proc EXCEPT !.step = "mark"]
    BY <1>6 DEF Poll, Step
  <2>2. i0 \in Ids /\ u0 \in Keys /\ At(u0, i0)
    BY <1>5, <2>1 DEF Serving, At, Polls
  <2>3. drafts[u0] = 0
    <3>1. CASE drafts[u0] > 0
      <4>1. Done(i0)
        BY <2>1, <2>2, <3>1 DEF Records, Marking
      <4>2. \A v \in Requests : ~Between(v, i0)
        <5>1. ASSUME NEW v \in Requests, Between(v, i0) PROVE FALSE
          <6>1. Moves(v) /\ at[v].new \in Ids /\ at[v].new = i0
            BY <5>1 DEF Between, Moves, Active, Shape, Local, Renaming
          <6>2. i0 \in Touched(v)
            BY <6>1, InHandTouched DEF Moves
          <6> QED BY <2>1, <6>1, <6>2, MoverAlone DEF Serving
        <5> QED BY <5>1
      <4>3. HomeOf(i0, i0)
        BY <4>2 DEF HomeOf
      <4> QED BY <2>1, <2>2, <4>1, <4>3 DEF Done
    <3>2. drafts[u0] \in Nat
      BY <1>1, <2>2
    <3> QED BY <3>1, <3>2
  <2>4. DOMAIN drafts' = Keys /\ drafts'[u0] = 1 /\ \A u \in Keys \ {u0} : drafts'[u] = drafts[u]
    BY <1>1, <2>1, <2>2, <2>3
  <2>5. proc'.step = "mark" /\ proc'.user = u0 /\ proc'.id = i0
    BY <2>1 DEF Shape
  <2>6. DraftedOnce'
    BY <1>1, <2>4 DEF DraftedOnce
  <2>7. \A v \in Requests : pc[v] = "idle" => v # u0
    BY <2>2 DEF Places
  <2>8. Places'
    BY <1>1, <1>2, <2>4, <2>7 DEF Places, Keys
  <2>9. Records'
    <3> SUFFICES ASSUME NEW u \in Keys, NEW i \in Ids, drafts'[u] > 0, At(u, i)'
                 PROVE  Done(i)' \/ Marking(u, i)'
      BY DEF Records
    <3>1. At(u, i)
      BY <1>2
    <3>2. CASE u = u0
      <4>1. i = i0
        BY <2>2, <3>1, <3>2 DEF Places
      <4> QED BY <2>1, <2>5, <3>2, <4>1 DEF Marking, DataOf
    <3>3. CASE u # u0
      <4>1. Done(i)
        BY <2>1, <2>4, <3>1, <3>3 DEF Records, Marking
      <4> QED BY <1>3, <2>1, <4>1 DEF Done, DataOf
    <3> QED BY <3>2, <3>3
  <2> QED BY <2>6, <2>8, <2>9
<1>7. CASE drafts' = drafts
  <2>1. Places'
    BY <1>1, <1>2, <1>7 DEF Places, Keys
  <2>2. DraftedOnce'
    BY <1>7, FlagsStay DEF DraftedOnce
  <2>3. \A h : DataOf(h) = "done" => DataOf(h)' = "done"
    BY DEF AgentProcess, Discover, Load, EndCycle, InitDb, Poll, MarkProcessed, WriteStatus,
       DataOf, Put
  <2>4. Records'
    <3> SUFFICES ASSUME NEW u \in Keys, NEW i \in Ids, drafts[u] > 0, At(u, i)'
                 PROVE  Done(i)'
      BY <1>7 DEF Records
    <3>1. At(u, i)
      BY <1>2
    <3>2. CASE Done(i)
      BY <1>3, <2>3, <3>2 DEF Done
    <3>3. CASE Marking(u, i)
      <4>1. MarkProcessed /\ i = proc.id /\ DataOf(i) = "empty" /\ proc.step \in Serving
        BY <3>3 DEF Marking, Serving, AgentProcess, Discover, Load, EndCycle, InitDb, Poll,
           WriteStatus, Step
      <4>2. DataOf(i)' = "done"
        BY <4>1 DEF MarkProcessed, DataOf
      <4> QED BY <1>3, <1>4, <4>1, <4>2 DEF Done
    <3> QED BY <3>1, <3>2, <3>3 DEF Records
  <2> QED BY <2>1, <2>2, <2>4
<1> QED BY <1>6, <1>7 DEF AgentProcess, Discover, Load, EndCycle, InitDb, MarkProcessed, WriteStatus

LEMMA DraftingKept ==
  ASSUME Shape, Meetings, Undisturbed, Drafting, Next
  PROVE  Drafting'
<1> SUFFICES ASSUME ~spoilt'
             PROVE  Places' /\ DraftedOnce' /\ (proc'.step # "removed" => Records')
  BY DEF Drafting
<1>1. ~spoilt /\ Remember
  BY FlagsStay DEF Next
<1>2. Places /\ DraftedOnce /\ (proc.step # "removed" => Records)
  BY <1>1 DEF Drafting
<1>3. CASE AgentProcess
  <2>1. proc.step # "removed"
    BY <1>3 DEF AgentProcess, Discover, Load, EndCycle, InitDb, Poll, MarkProcessed,
       WriteStatus, Step
  <2> QED BY <1>1, <1>2, <1>3, <2>1, ProcessDrafting
<1>4. ASSUME NEW t \in Requests, Request(t)
      PROVE  Places' /\ DraftedOnce' /\ (proc'.step # "removed" => Records')
  <2>1. Places'
    BY <1>1, <1>2, <1>4, PlacesKept
  <2>2. DraftedOnce'
    BY <1>1, <1>2, <1>4, RequestKeeps DEF DraftedOnce
  <2>3. proc'.step # "removed" => proc.step # "removed"
    BY <1>4, RequestKeeps
  <2> QED BY <1>1, <1>2, <1>4, <2>1, <2>2, <2>3, RecordsKept
<1> QED BY <1>3, <1>4 DEF Next

(* The mail of an account gets one draft, whatever its agent is called and
   however often it is renamed, as long as nobody moves or removes an agent that
   another one has in hand (agents_io.py:281-285). *)
THEOREM OneDraftPerMail == Spec => []DraftedOnce
<1> DEFINE Inv == Shape /\ Meetings /\ Undisturbed
<1>1. Init => Drafting
  <2> SUFFICES ASSUME Init PROVE Places /\ DraftedOnce /\ Records
    BY DEF Drafting
  <2>1. \A t \in Requests : pc[t] = "idle" /\ ask[t].kind = "none"
    BY DEF Init
  <2>2. proc.step = "idle" /\ DOMAIN drafts = Keys /\ \A u \in Keys : drafts[u] = 0
    BY DEF Init, Keys
  <2>3. \A u, i : At(u, i) => OnDisk(u, i)
    BY <2>1, <2>2 DEF At, Has, Holds, Brings, InHand, KeySteps, Active, Polls
  <2>4. \A u, i : OnDisk(u, i) => i = <<FirstName, 1>> /\ u = Old
    <3>1. CASE env = Empty
      BY <3>1, EmptyFacts DEF OnDisk
    <3>2. CASE env = Put(Empty, <<FirstName, 1>>, Configured)
      <4>1. DOMAIN env = {<<FirstName, 1>>} /\ env[<<FirstName, 1>>] = Configured
        BY <3>2, EmptyFacts DEF Put
      <4>2. Configured["user"] = Old
        <5> DEFINE x == Line("user", Old)
        <5>1. "user" \in DOMAIN x /\ x["user"] = Old
          BY LineFacts
        <5>2. \E y : Configured = Over(x, y)
          BY DEF Configured
        <5> HIDE DEF x
        <5> QED BY <5>1, <5>2 DEF Over
      <4> QED BY <4>1, <4>2 DEF OnDisk
    <3> QED BY <3>1, <3>2 DEF Init
  <2>5. Old \notin Requests /\ Requests \subseteq Keys
    BY ConstantsAssumption DEF Old, Requests, Keys
  <2>6. Places
    BY <2>1, <2>2, <2>3, <2>4, <2>5 DEF Places
  <2>7. DraftedOnce /\ Records
    BY <2>2 DEF DraftedOnce, Records
  <2> QED BY <2>6, <2>7
<1>2. ASSUME Drafting, UNCHANGED vars PROVE Drafting'
  <2>1. UNCHANGED <<env, data, pc, ask, at, proc, drafts, spoilt>>
    BY <1>2 DEF vars, files, server, history
  <2>2. \A u, i : At(u, i)' <=> At(u, i)
    BY <2>1 DEF At, OnDisk, Has, Holds, Brings, Active, Polls
  <2>3. \A u, i : (Done(i)' <=> Done(i)) /\ (Marking(u, i)' <=> Marking(u, i))
    BY <2>1 DEF Done, HomeOf, Between, DataOf, Marking
  <2> QED BY <1>2, <2>1, <2>2, <2>3 DEF Drafting, Places, Records, DraftedOnce
<1>3. Inv /\ Drafting /\ [Next]_vars => Drafting'
  BY <1>2, DraftingKept
<1>4. Drafting => DraftedOnce
  BY DEF Drafting, DraftedOnce
<1> QED BY <1>1, <1>3, <1>4, UndisturbedHolds, PTL DEF Spec
=============================================================================
