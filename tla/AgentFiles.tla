----------------------------- MODULE AgentFiles -----------------------------
(***************************************************************************)
(* The files of the agents: webui/src/agents_io.py (write_env, slugify,    *)
(* rename_agent, delete_agent), webui/src/crypto.py (_load_or_create_key)  *)
(* and the handlers of webui/src/main.py that call them.  The handlers run *)
(* in a thread pool and take no lock; each file operation is a step.  The  *)
(* agent process reads the same files cycle by cycle and writes the data   *)
(* directories (agent/src/main.py, state.py, status_writer.py).            *)
(*                                                                         *)
(* An id is a name and a number, <<name, 1>> the bare slug, <<name, 2>> the *)
(* one with the suffix -2, and so on.  A value is the request that sent it. *)
(* An .env is a function from the fields it has a line for.  Each agent's  *)
(* mailbox holds one mail that wants a draft.                              *)
(*                                                                         *)
(* A write of the text of one .env is one step after the opening one: that *)
(* two such writes into one file may leave the end of the longer is not    *)
(* modelled.  context.md and the style files are left out.                 *)
(***************************************************************************)
EXTENDS Integers, FiniteSets

CONSTANTS
  N,          \* requests 1..N, each sent at most once
  Names,      \* names the operator gives to agents
  FirstName,  \* name of the agent there may be at the start
  Asks,       \* what a request may ask for, of Ask
  MaxCycles   \* bound: number of cycles of the agent process

Requests == 1..N
Ids == Names \X (1..(N + 1))
NoId == <<"", 0>>
KeyFile == <<"key", 0>>   \* as the file a request has open
Old == 0                  \* the writer of what is there at the start
Absent == -2              \* of the key file
Torn == -1                \* the key file is open for its first write

Ask == [kind: {"create"}, name: Names]
       \cup [kind: {"save"}, id: Ids, fields: SUBSET {"user", "password"}]
       \cup [kind: {"toggle"}, id: Ids, on: BOOLEAN]
       \cup [kind: {"rename"}, id: Ids, name: Names]
       \cup [kind: {"delete"}, id: Ids]
       \cup [kind: {"reset"}]

ASSUME ConstantsAssumption ==
  /\ N \in Nat /\ MaxCycles \in Nat
  /\ FirstName \in Names
  /\ Asks \subseteq Ask

VARIABLES
  dirs,     \* ids with a directory under /config/agents
  env,      \* id -> lines of its .env, for ids that have one
  data,     \* id -> its data directory: nodb, empty, done
  key,      \* .secret_key: Absent, Torn, or the request that made it
  pc,       \* request -> step
  ask,      \* request -> what it asks for
  at,       \* request -> local variables of its thread
  proc,     \* the agent process: step, ids to do, id and account in hand
  cycles,   \* counter of the bound
  drafts,   \* account -> drafts of its mail
  before,   \* history: request -> its agent when it began
  alone,    \* history: request -> no other request has met it on an id
  quiet,    \* history: request -> the agent process has not met it on an id
  keyRace,  \* history: two requests made a key, or a reset was not alone
  spoilt    \* history: a directory was moved or removed under someone's feet

files == <<dirs, env, data, key>>
server == <<proc, cycles, drafts>>
history == <<before, alone, quiet, keyRace, spoilt>>
vars == <<files, pc, ask, at, server, history>>

\* Functions: without a point, with one more or changed, one over another.
Empty == [x \in {} |-> x]
Without(f, x) == [y \in DOMAIN f \ {x} |-> f[y]]
Put(f, x, v) == [y \in DOMAIN f \cup {x} |-> IF y = x THEN v ELSE f[y]]
Over(new, old) ==
  [x \in DOMAIN new \cup DOMAIN old |-> IF x \in DOMAIN new THEN new[x] ELSE old[x]]

Line(field, value) == Put(Empty, field, value)
Lines(id) == IF id \in DOMAIN env THEN env[id] ELSE Empty
DataOf(id) == IF id \in DOMAIN data THEN data[id] ELSE "none"
NotSeen == [lines |-> Empty, data |-> "none"]
Configured == Over(Line("user", Old), Over(Line("password", <<Old, Old>>), Line("enabled", TRUE)))

\* A fresh installation, or one agent that is configured and enabled.
Init ==
  /\ \/ dirs = {} /\ env = Empty /\ key = Absent
     \/ /\ dirs = {<<FirstName, 1>>}
        /\ env = Put(Empty, <<FirstName, 1>>, Configured)
        /\ key = Old
  /\ data = Empty
  /\ pc = [t \in Requests |-> "idle"]
  /\ ask = [t \in Requests |-> [kind |-> "none"]]
  /\ at = [t \in Requests |-> [id |-> NoId, new |-> NoId, lines |-> Empty, key |-> Absent,
                               open |-> NoId, todo |-> {}]]
  /\ proc = [step |-> "idle", todo |-> {}, id |-> NoId, user |-> Old]
  /\ cycles = 0
  /\ drafts = [u \in {Old} \cup Requests |-> 0]
  /\ before = [t \in Requests |-> NotSeen]
  /\ alone = [t \in Requests |-> TRUE]
  /\ quiet = [t \in Requests |-> TRUE]
  /\ keyRace = FALSE
  /\ spoilt = FALSE

Goto(t, from, to) == pc[t] = from /\ pc' = [pc EXCEPT ![t] = to]

(***************************************************************************)
(* The handlers: create_agent, save, agent_flag_toggle,                    *)
(* rename_agent_endpoint, delete_agent_endpoint, reset_all_endpoint.       *)
(***************************************************************************)

First(kind) ==
  IF kind \in {"create", "rename"} THEN "slug" ELSE IF kind = "reset" THEN "next" ELSE "mkdir"

\* Requests are numbered as they arrive.
Start(t) ==
  /\ \A u \in 1..(t - 1) : pc[u] # "idle"
  /\ \E a \in Asks :
       /\ Goto(t, "idle", First(a.kind))
       /\ ask' = [ask EXCEPT ![t] = a]
       /\ at' = [at EXCEPT ![t].id = IF a.kind \in {"create", "reset"} THEN NoId ELSE a.id,
                           ![t].todo = IF a.kind = "reset" THEN dirs ELSE {}]
  /\ UNCHANGED <<files, server>>

\* slugify: the first number that is not taken.
FreeId(name, id) ==
  \E n \in 1..(N + 1) :
    id = <<name, n>> /\ id \notin dirs /\ \A k \in 1..(n - 1) : <<name, k>> \in dirs

Slug(t) ==
  /\ pc[t] = "slug"
  /\ \E id \in Ids :
       /\ FreeId(ask[t].name, id)
       /\ IF ask[t].kind = "create"
          THEN Goto(t, "slug", "mkdir") /\ at' = [at EXCEPT ![t].id = id]
          ELSE Goto(t, "slug", "check") /\ at' = [at EXCEPT ![t].new = id]
  /\ UNCHANGED <<files, ask>>

(***************************************************************************)
(* write_env.                                                              *)
(***************************************************************************)

\* delete_agent and the reset go on when disabling the agent fails.
Destroys(t) == ask[t].kind \in {"delete", "reset"}
Raised(t) == IF Destroys(t) THEN "remove_config" ELSE "failed"
Written(t) == IF Destroys(t) THEN "remove_config" ELSE "ok"

Mkdir(t) ==
  /\ Goto(t, "mkdir", "read")
  /\ dirs' = dirs \cup {at[t].id}
  /\ UNCHANGED <<env, data, key, ask, at>>

Secret(t) == ask[t].kind = "save" /\ "password" \in ask[t].fields

Read(t) ==
  /\ Goto(t, "read", IF Secret(t) THEN "load_key" ELSE "truncate")
  /\ at' = [at EXCEPT ![t].lines = Lines(at[t].id)]
  /\ UNCHANGED <<files, ask>>

(* Mutant: a new key for every value.                                      *)
LoadKeyNever(t) ==
  /\ Goto(t, "load_key", "open_key")
  /\ UNCHANGED <<files, ask, at>>

\* Fernet refuses an empty key.
LoadKey(t) ==
  /\ \/ key = Absent /\ Goto(t, "load_key", "open_key")
     \/ key = Torn /\ Goto(t, "load_key", Raised(t))
     \/ key \notin {Absent, Torn} /\ Goto(t, "load_key", "truncate")
  /\ at' = [at EXCEPT ![t].key = key]
  /\ UNCHANGED <<files, ask>>

\* write_bytes empties the file, also one another request has just written.
OpenKey(t) ==
  /\ Goto(t, "open_key", "write_key")
  /\ key' = Torn
  /\ at' = [at EXCEPT ![t].open = KeyFile]
  /\ UNCHANGED <<dirs, env, data, ask>>

WriteKey(t) ==
  /\ Goto(t, "write_key", "truncate")
  /\ key' = IF at[t].open = KeyFile THEN t ELSE key
  /\ at' = [at EXCEPT ![t].open = NoId, ![t].key = t]
  /\ UNCHANGED <<dirs, env, data, ask>>

(* Mutant: a value without a key, in plain text.                           *)
EncryptedNot(t) == <<t, Absent>>

Encrypted(t) == <<t, at[t].key>>

Updates(t) ==
  IF ask[t].kind = "save"
  THEN [f \in ask[t].fields |-> IF f = "user" THEN t ELSE Encrypted(t)]
  ELSE Line("enabled", ask[t].kind = "toggle" /\ ask[t].on)

(* Mutant: the lines that are not updated are dropped.                     *)
EditedOnly(t) == Updates(t)

Edited(t) == Over(Updates(t), at[t].lines)

\* write_text opens the file, which fails where the directory is gone.
Truncate(t) ==
  /\ IF at[t].id \in dirs
     THEN /\ Goto(t, "truncate", "write")
          /\ env' = Put(env, at[t].id, Empty)
          /\ at' = [at EXCEPT ![t].open = at[t].id]
     ELSE /\ Goto(t, "truncate", Raised(t))
          /\ UNCHANGED <<env, at>>
  /\ UNCHANGED <<dirs, data, key, ask>>

\* The text goes to the file that was opened, wherever it is now; chmod and
\* chown want it in its old place.
Write(t) ==
  LET file == at[t].open
  IN  /\ Goto(t, "write", IF at[t].id \in DOMAIN env THEN Written(t) ELSE Raised(t))
      /\ env' = IF file = NoId THEN env ELSE Put(env, file, Edited(t))
      /\ at' = [at EXCEPT ![t].open = NoId]
      /\ UNCHANGED <<dirs, data, key, ask>>

(***************************************************************************)
(* rename_agent.                                                           *)
(***************************************************************************)

Check(t) ==
  /\ Goto(t, "check", IF at[t].new \in dirs \cup DOMAIN data THEN "failed" ELSE "move_config")
  /\ UNCHANGED <<files, ask, at>>

\* The directory moves with the files in it, also those a request has open.
\* rename() replaces an empty directory and refuses any other.
MoveConfig(t) ==
  LET id == at[t].id  new == at[t].new
  IN  /\ IF id \in dirs /\ new \in DOMAIN env
         THEN Goto(t, "move_config", "failed")
         ELSE Goto(t, "move_config", "move_data")
      /\ IF id \in dirs /\ new \notin DOMAIN env
         THEN /\ dirs' = (dirs \ {id}) \cup {new}
              /\ env' = IF id \in DOMAIN env THEN Put(Without(env, id), new, env[id]) ELSE env
              /\ at' = [u \in Requests |->
                         [at[u] EXCEPT !.open = IF @ = id THEN new ELSE @]]
         ELSE UNCHANGED <<dirs, env, at>>
      /\ UNCHANGED <<data, key, ask>>

(* Mutant: the record stays under the old id.                              *)
MoveDataNot(t) ==
  /\ Goto(t, "move_data", "ok")
  /\ UNCHANGED <<files, ask, at>>

\* A data directory is never empty: who makes one puts a file into it.
MoveData(t) ==
  LET id == at[t].id  new == at[t].new
  IN  /\ IF id \in DOMAIN data /\ new \in DOMAIN data
         THEN Goto(t, "move_data", "failed") /\ UNCHANGED data
         ELSE /\ Goto(t, "move_data", "ok")
              /\ data' = IF id \in DOMAIN data THEN Put(Without(data, id), new, data[id]) ELSE data
      /\ UNCHANGED <<dirs, env, key, ask, at>>

(***************************************************************************)
(* delete_agent and the reset of everything.                               *)
(***************************************************************************)

RemoveConfig(t) ==
  LET id == at[t].id
  IN  /\ Goto(t, "remove_config", "remove_data")
      /\ dirs' = dirs \ {id}
      /\ env' = Without(env, id)
      /\ at' = [u \in Requests |-> [at[u] EXCEPT !.open = IF @ = id THEN NoId ELSE @]]
      /\ UNCHANGED <<data, key, ask>>

RemoveData(t) ==
  /\ Goto(t, "remove_data", IF ask[t].kind = "reset" THEN "next" ELSE "ok")
  /\ data' = Without(data, at[t].id)
  /\ UNCHANGED <<dirs, env, key, ask, at>>

ResetNext(t) ==
  IF at[t].todo = {}
  THEN Goto(t, "next", "unlink") /\ UNCHANGED <<files, ask, at>>
  ELSE \E id \in at[t].todo :
         /\ Goto(t, "next", "mkdir")
         /\ at' = [at EXCEPT ![t].id = id, ![t].todo = @ \ {id}]
         /\ UNCHANGED <<files, ask>>

Unlink(t) ==
  /\ Goto(t, "unlink", "stop")
  /\ key' = Absent
  /\ at' = [u \in Requests |-> [at[u] EXCEPT !.open = IF @ = KeyFile THEN NoId ELSE @]]
  /\ UNCHANGED <<dirs, env, data, ask>>

\* The agent container is stopped and removed.
StopAgent(t) ==
  /\ Goto(t, "stop", "ok")
  /\ proc' = [proc EXCEPT !.step = "removed"]
  /\ UNCHANGED <<files, ask, at, cycles, drafts>>

Request(t) ==
  \/ /\ \/ Slug(t) \/ Mkdir(t) \/ Read(t) \/ LoadKey(t) \/ OpenKey(t) \/ WriteKey(t)
        \/ Truncate(t) \/ Write(t) \/ Check(t) \/ MoveConfig(t) \/ MoveData(t)
        \/ RemoveConfig(t) \/ RemoveData(t) \/ ResetNext(t) \/ Unlink(t)
     /\ UNCHANGED server
  \/ Start(t)
  \/ StopAgent(t)

(***************************************************************************)
(* The agent process.                                                      *)
(***************************************************************************)

Step(from, to) == proc.step = from /\ proc' = [proc EXCEPT !.step = to]

Discover ==
  /\ proc.step = "idle" /\ cycles < MaxCycles
  /\ proc' = [proc EXCEPT !.step = "next", !.todo = dirs]
  /\ cycles' = cycles + 1
  /\ UNCHANGED <<data, drafts>>

Readable(lines) ==
  {"user", "password"} \subseteq DOMAIN lines /\ lines["password"][2] = key
Enabled(lines) == "enabled" \in DOMAIN lines /\ lines["enabled"]

\* load_agent_config: an error is reported, a stopped agent is skipped.
Load ==
  /\ proc.step = "next"
  /\ \E id \in proc.todo :
       LET lines == Lines(id)
       IN proc' = [step |-> IF ~Readable(lines) THEN "status"
                            ELSE IF Enabled(lines) THEN "init" ELSE "next",
                   todo |-> proc.todo \ {id}, id |-> id,
                   user |-> IF Readable(lines) THEN lines["user"] ELSE Old]
  /\ UNCHANGED <<data, cycles, drafts>>

EndCycle ==
  /\ proc.todo = {} /\ Step("next", "idle")
  /\ UNCHANGED <<data, cycles, drafts>>

InitDb ==
  /\ Step("init", "poll")
  /\ data' = IF DataOf(proc.id) \in {"none", "nodb"} THEN Put(data, proc.id, "empty") ELSE data
  /\ UNCHANGED <<cycles, drafts>>

\* _poll_once: without its tables the poll fails; the mail is known, or gets a
\* draft.
Poll ==
  /\ IF DataOf(proc.id) = "empty"
     THEN Step("poll", "mark") /\ drafts' = [drafts EXCEPT ![proc.user] = @ + 1]
     ELSE Step("poll", "status") /\ UNCHANGED drafts
  /\ UNCHANGED <<data, cycles>>

MarkProcessed ==
  /\ Step("mark", "status")
  /\ data' = IF DataOf(proc.id) = "empty" THEN [data EXCEPT ![proc.id] = "done"] ELSE data
  /\ UNCHANGED <<cycles, drafts>>

\* write_status makes the directory when it is gone.
WriteStatus ==
  /\ Step("status", "next")
  /\ data' = IF DataOf(proc.id) = "none" THEN Put(data, proc.id, "nodb") ELSE data
  /\ UNCHANGED <<cycles, drafts>>

AgentProcess ==
  /\ \/ Discover \/ Load \/ EndCycle \/ InitDb \/ Poll \/ MarkProcessed \/ WriteStatus
  /\ UNCHANGED <<dirs, env, key, pc, ask, at>>

-----------------------------------------------------------------------------
(***************************************************************************)
(* History: who met whom.                                                  *)
(***************************************************************************)

Active(t) == pc[t] \notin {"idle", "ok", "failed"}

\* The agents a request has in hand; the file it has open may have been moved.
Touched(t) ==
  IF ~Active(t) THEN {}
  ELSE IF ask[t].kind = "reset" THEN Ids ELSE {at[t].id, at[t].new, at[t].open} \cap Ids
Served == IF proc.step \in {"init", "poll", "mark", "status"} THEN {proc.id} ELSE {}
MakesKey(t) == pc[t] \in {"open_key", "write_key"}
Moves(t) == Active(t) /\ ask[t].kind \in {"rename", "delete", "reset"}

\* What is remembered of a request is forgotten one step after its end.
Remember ==
  /\ before' = [t \in Requests |->
        IF Active(t) THEN before[t]
        ELSE IF Active(t)' THEN [lines |-> Lines(at'[t].id), data |-> DataOf(at'[t].id)]
        ELSE NotSeen]
  /\ alone' = [t \in Requests |->
        /\ Active(t) => alone[t]
        /\ \A u \in Requests \ {t} : Touched(t)' \cap Touched(u)' = {}]
  /\ quiet' = [t \in Requests |->
        /\ Active(t) => quiet[t]
        /\ Touched(t)' \cap (Served \cup Served') = {}]
  /\ keyRace' = (keyRace \/ \E t, u \in Requests :
                   \/ t # u /\ MakesKey(t)' /\ MakesKey(u)'
                   \/ ask'[t].kind = "reset" /\ ~alone'[t])
  /\ spoilt' = (spoilt \/ \E t \in Requests : Moves(t)' /\ ~(alone'[t] /\ quiet'[t]))

Next ==
  /\ \/ \E t \in Requests : Request(t)
     \/ AgentProcess
  /\ Remember

Spec == Init /\ [][Next]_vars

-----------------------------------------------------------------------------

Keys == {Old} \cup Requests
FieldsOK(lines) ==
  /\ DOMAIN lines \subseteq {"user", "password", "enabled"}
  /\ "user" \in DOMAIN lines => lines["user"] \in Keys
  /\ "password" \in DOMAIN lines => lines["password"] \in Keys \X Keys
  /\ "enabled" \in DOMAIN lines => lines["enabled"] \in BOOLEAN

\* Types. An .env is in a directory, and no password is there unencrypted
\* (agents_io.py:127-133, SEC-02).
TypeOK ==
  /\ dirs \subseteq Ids
  /\ DOMAIN env \subseteq dirs
  /\ \A id \in DOMAIN env : FieldsOK(env[id])
  /\ DOMAIN data \subseteq Ids
  /\ \A id \in DOMAIN data : data[id] \in {"nodb", "empty", "done"}
  /\ key \in {Absent, Torn} \cup Keys
  /\ \A t \in Requests : /\ at[t].open \in dirs \cup {NoId, KeyFile}
                         /\ ask[t] \in Asks \cup {[kind |-> "none"]}
  /\ proc.todo \subseteq Ids
  /\ alone \in [Requests -> BOOLEAN] /\ quiet \in [Requests -> BOOLEAN]
  /\ keyRace \in BOOLEAN /\ spoilt \in BOOLEAN

Succeeds(t) == Active(t) /\ pc'[t] = "ok"
Fails(t) == Active(t) /\ pc'[t] = "failed"

\* What it means for a step that ends a request which met no other.
Atomically(t) ==
  LET id == at[t].id  new == at[t].new  was == before[t]  kind == ask[t].kind
  IN  /\ Succeeds(t) /\ kind = "create" => Lines(id)' = Line("enabled", FALSE)
      /\ Succeeds(t) /\ kind \in {"save", "toggle"} =>
           Lines(id)' = Over(Updates(t), was.lines)
      /\ Succeeds(t) /\ kind = "rename" =>
           /\ id \notin dirs' /\ Lines(new)' = was.lines
           /\ quiet'[t] => DataOf(new)' = was.data /\ DataOf(id)' = "none"
      /\ Succeeds(t) /\ kind = "delete" =>
           id \notin dirs' /\ (quiet'[t] => DataOf(id)' = "none")
      /\ Succeeds(t) /\ kind = "reset" => dirs' = {} /\ key' = Absent
      /\ Fails(t) /\ quiet'[t] =>
           Lines(id)' = was.lines /\ (kind = "rename" => DataOf(id)' = was.data)

\* A request that met no other on its agents is atomic, although none of them
\* takes a lock and requests on other agents and the agent process run all the
\* while: when it has succeeded its agent is the one before with the change, and
\* when it has failed the agent is as before.  Moving and removing data also needs
\* that the agent process did not meet it (agents_io.py:118-164, 266-307;
\* main.py:562-606, 1470-1479).
AloneIsAtomic == [][\A t \in Requests : alone'[t] => Atomically(t)]_vars

\* What was encrypted can be decrypted, with whatever key a request found or
\* made, until two requests make one at once or a reset meets another request
\* (crypto.py:31-52, main.py:1473).
Decryptable ==
  ~keyRace => \A id \in DOMAIN env :
                "password" \in DOMAIN env[id] => env[id]["password"][2] = key

\* The mail of an account gets one draft, whatever the agents are called and how
\* often they are renamed, as long as nobody moves or removes an agent that the
\* agent process or another request has in hand (agents_io.py:281-285).
DraftedOnce == ~spoilt => \A u \in DOMAIN drafts : drafts[u] <= 1
=============================================================================
