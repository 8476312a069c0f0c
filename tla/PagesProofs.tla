---------------------------- MODULE PagesProofs ----------------------------
(***************************************************************************)
(* The two pages of the WebUI whose handlers work for a long time: the      *)
(* settings page (SavePage) and the chat (ChatStream over TagStream).       *)
(*                                                                         *)
(* SavePage, for any number of saves, any forms, any accepted credentials   *)
(* and any recognised keys.  StoredWasProbed speaks of the .env; it is      *)
(* inductive once it is known what a save that is about to write has had    *)
(* accepted (ProbeBacksWrite).  OwnFollowsUser needs that a save between its *)
(* look at the .env and its write still has the own address in hand that    *)
(* fits (OwnDecided).                                                      *)
(*                                                                         *)
(* TagStream, for every answer, every way a provider cuts it into chunks    *)
(* and every threshold; and the whole chat as an implementation of it,      *)
(* whatever the network and the client do.                                 *)
(*                                                                         *)
(* ChatStream, for every message, every answer and every way the network    *)
(* cuts the bytes.  Where the stream's cuts fall, putting the originals     *)
(* back piece by piece is putting them back at once (PieceSeam, from        *)
(* PutAllCat); what the server has written, what is on the wire, what is in *)
(* the buffer and what is shown together say what has left the generator    *)
(* (Flow), and every line the parser reads takes it from one stage of a     *)
(* frame to the next (FlowReads).  Induction over a text is induction over  *)
(* the set of its lengths (NatSetInduction).                                *)
(***************************************************************************)
EXTENDS SavePage, ChatStream, SequenceTheorems,
        WellFoundedInduction, TLAPS

(* The fields a request has at each point. *)
FieldsOf(r) ==
  /\ "pc" \in DOMAIN r
  /\ r.pc \in {"style", "check", "probe", "write"} =>
       {"form", "before"} \subseteq DOMAIN r /\ r.form \in Forms
  /\ r.pc \in {"probe", "write"} => "own" \in DOMAIN r

Shape ==
  /\ DOMAIN env = {"user", "password", "own", "key", "adapt"}
  /\ env.user # Alias
  /\ DOMAIN req = Saves
  /\ \A s \in Saves : FieldsOf(req[s])

(* A save that is about to store mail credentials has had the pair they make
   with the .env it read accepted. *)
ProbeBacksWrite ==
  \A s \in Saves :
    req[s].pc = "write" /\ ImapChanged(req[s].form) => ProbePair(req[s]) \in probed

(* The own address a save may store: its login, unless the operator set one. *)
Decided(r) == IF alias \/ r.form.user = None THEN None ELSE r.form.user

(* A save that has looked at the .env still has the fitting address in hand. *)
OwnDecided ==
  ~crossed => \A s \in Saves : req[s].pc \in {"probe", "write"} => req[s].own = Decided(req[s])

SaveInv ==
  Shape /\ ProbeBacksWrite /\ OwnDecided /\ (crossed => alias)
    /\ StoredWasProbed /\ OwnFollowsUser

(* What speaks of the .env holds where the fields it speaks of are the same. *)
LEMMA SameStore ==
  ASSUME StoredWasProbed, OwnFollowsUser,
         env'.user = env.user, env'.password = env.password, env'.own = env.own,
         probed \subseteq probed', UNCHANGED <<stale, alias, crossed>>
  PROVE  StoredWasProbed' /\ OwnFollowsUser'
<1>1. Stripped(env)' = Stripped(env)
  BY DEF Stripped
<1>2. StoredWasProbed'
  BY <1>1 DEF StoredWasProbed
<1>3. OwnFollowsUser'
  BY DEF OwnFollowsUser
<1> QED BY <1>2, <1>3

(* The invariant holds of an empty agent and of one set up before. *)
LEMMA SaveInitInv == Init => SaveInv
<1> SUFFICES ASSUME Init PROVE SaveInv
  OBVIOUS
<1>1. /\ DOMAIN env = {"user", "password", "own", "key", "adapt"}
      /\ exists = (Pair(env) # <<None, None>>)
  BY DEF Init
<1>2. \A s \in Saves : req[s] = Idle /\ req[s].pc = "idle" /\ "pc" \in DOMAIN req[s]
  BY DEF Init, Idle
<1>3. DOMAIN req = Saves
  BY DEF Init
<1>4. StoredWasProbed
  <2>1. CASE exists
    BY <2>1 DEF Init, StoredWasProbed
  <2>2. CASE ~exists
    BY <1>1, <2>2 DEF StoredWasProbed, Pair
  <2> QED BY <2>1, <2>2
<1>5. env.user # Alias /\ (env.own = Alias \/ env.own \in {None, env.user})
  BY AliasAssumption DEF Init
<1>6. Shape
  BY <1>1, <1>2, <1>3, <1>5 DEF Shape, FieldsOf
<1>7. OwnFollowsUser /\ (crossed => alias)
  BY <1>5 DEF Init, OwnFollowsUser
<1>8. ProbeBacksWrite /\ OwnDecided
  BY <1>2 DEF ProbeBacksWrite, OwnDecided
<1> QED BY <1>4, <1>6, <1>7, <1>8 DEF SaveInv

(* A step after which only request s has changed, into a request that backs its
   write and has decided on the fitting address, and env and probed have not,
   keeps the invariant. *)
LEMMA OneRequestMoves ==
  ASSUME SaveInv, NEW s \in Saves, NEW r,
         req' = [req EXCEPT ![s] = r], FieldsOf(r),
         r.pc = "write" /\ ImapChanged(r.form) => ProbePair(r) \in probed',
         ~crossed /\ r.pc \in {"probe", "write"} => r.own = Decided(r),
         env'.user = env.user, env'.password = env.password, env'.own = env.own,
         DOMAIN env' = DOMAIN env,
         UNCHANGED <<stale, alias, crossed>>, probed \subseteq probed'
  PROVE  SaveInv'
<1>1. \A o \in Saves : req'[o] = IF o = s THEN r ELSE req[o]
  BY DEF SaveInv, Shape
<1>2. Shape'
  <2>1. DOMAIN req' = Saves
    BY DEF SaveInv, Shape
  <2>2. \A o \in Saves : FieldsOf(req'[o])
    BY <1>1 DEF SaveInv, Shape
  <2> QED BY <2>1, <2>2 DEF SaveInv, Shape
<1>3. ProbeBacksWrite'
  <2> SUFFICES ASSUME NEW o \in Saves, req'[o].pc = "write", ImapChanged(req'[o].form)
               PROVE  ProbePair(req'[o]) \in probed'
    BY DEF ProbeBacksWrite
  <2> QED BY <1>1 DEF SaveInv, ProbeBacksWrite
<1>4. OwnDecided'
  <2> SUFFICES ASSUME ~crossed, NEW o \in Saves, req'[o].pc \in {"probe", "write"}
               PROVE  req'[o].own = Decided(req'[o])
    BY DEF OwnDecided, Decided
  <2> QED BY <1>1 DEF SaveInv, OwnDecided
<1>5. StoredWasProbed' /\ OwnFollowsUser'
  BY SameStore DEF SaveInv
<1> QED BY <1>2, <1>3, <1>4, <1>5 DEF SaveInv

LEMMA BeginKeeps ==
  ASSUME SaveInv, NEW s \in Saves, NEW f \in Forms, Begin(s, f)
  PROVE  SaveInv'
<1> DEFINE r == [pc |-> "style", form |-> f, before |-> env]
<1>1. /\ req' = req \/ req' = [req EXCEPT ![s] = r]
      /\ UNCHANGED <<env, probed, stale, alias, crossed>>
  BY DEF Begin
<1>2. FieldsOf(r) /\ r.pc = "style"
  BY DEF FieldsOf
<1> HIDE DEF r
<1>3. CASE req' = req
  <2>1. StoredWasProbed' /\ OwnFollowsUser'
    BY <1>1, SameStore DEF SaveInv
  <2> QED BY <1>1, <1>3, <2>1
        DEF SaveInv, Shape, FieldsOf, ProbeBacksWrite, OwnDecided, Decided
<1>4. CASE req' = [req EXCEPT ![s] = r]
  BY <1>1, <1>2, <1>4, OneRequestMoves
<1> QED BY <1>1, <1>3, <1>4

(* The style section leaves the credentials alone. *)
LEMMA StyleSectionKeeps ==
  ASSUME SaveInv, NEW s \in Saves, StyleSection(s)
  PROVE  SaveInv'
<1> DEFINE f == req[s].form
           r == IF AgentFields(f) THEN [req[s] EXCEPT !.pc = "check"] ELSE Idle
<1>1. /\ req[s].pc = "style"
      /\ env' = [env EXCEPT !.adapt = Or(f.adapt, @)]
      /\ req' = [req EXCEPT ![s] = r]
      /\ UNCHANGED <<probed, stale, alias, crossed>>
  BY DEF StyleSection
<1>2. FieldsOf(r) /\ r.pc \in {"check", "idle"}
  BY <1>1 DEF SaveInv, Shape, FieldsOf, Idle
<1>3. /\ env'.user = env.user /\ env'.password = env.password /\ env'.own = env.own
      /\ DOMAIN env' = DOMAIN env
  BY <1>1 DEF SaveInv, Shape
<1> HIDE DEF r
<1> QED BY <1>1, <1>2, <1>3, OneRequestMoves

(* A save looks at the .env: without an address of the operator's the own one is
   the login or missing, so that the new login is taken; with one it is not. *)
LEMMA CheckKeeps ==
  ASSUME SaveInv, NEW s \in Saves, Check(s)
  PROVE  SaveInv'
<1> DEFINE own == IF env.own \in {None, env.user} THEN req[s].form.user ELSE None
           r == [pc |-> "probe", form |-> req[s].form, before |-> req[s].before, own |-> own]
<1>1. /\ req[s].pc = "check" /\ req' = [req EXCEPT ![s] = r]
      /\ UNCHANGED <<env, probed, stale, alias, crossed>>
  BY DEF Check
<1>2. FieldsOf(r) /\ r.pc = "probe" /\ r.own = own /\ r.form = req[s].form
  BY <1>1 DEF SaveInv, Shape, FieldsOf
<1>3. ~crossed => own = Decided(r)
  <2>1. CASE alias /\ ~crossed
    BY <1>2, <2>1, AliasAssumption DEF SaveInv, Shape, OwnFollowsUser, Decided
  <2>2. CASE ~alias /\ ~crossed
    BY <1>2, <2>2 DEF SaveInv, OwnFollowsUser, Decided
  <2> QED BY <2>1, <2>2
<1> HIDE DEF r, own
<1> QED BY <1>1, <1>2, <1>3, OneRequestMoves

(* The pair a save stores is the one it had accepted, unless the .env has
   changed since it was read, which stale records; with the login goes the own
   address it has decided on. *)
LEMMA WriteKeeps ==
  ASSUME SaveInv, NEW s \in Saves, Write(s)
  PROVE  SaveInv'
<1> DEFINE f == req[s].form
<1>1. /\ req[s].pc = "write" /\ f \in Forms
      /\ env' = [env EXCEPT !.user = Or(f.user, @), !.password = Or(f.password, @),
                            !.key = Or(f.key, @), !.own = Or(req[s].own, @)]
      /\ req' = [req EXCEPT ![s] = [req[s] EXCEPT !.pc = "auto"]]
      /\ UNCHANGED <<probed, alias, crossed>>
  BY DEF Write, SaveInv, Shape, FieldsOf
<1>2. stale' = (stale \/ (ImapChanged(f) /\ Pair(env) # Pair(req[s].before)))
  BY DEF Write
<1>3. \A o \in Saves : req'[o] = IF o = s THEN [req[s] EXCEPT !.pc = "auto"] ELSE req[o]
  BY <1>1 DEF SaveInv, Shape
<1>4. req'[s].pc = "auto" /\ "pc" \in DOMAIN req'[s]
  BY <1>1, <1>3 DEF SaveInv, Shape, FieldsOf
<1>5. /\ env'.user = Or(f.user, env.user) /\ env'.password = Or(f.password, env.password)
      /\ env'.own = Or(req[s].own, env.own) /\ DOMAIN env' = DOMAIN env
  BY <1>1 DEF SaveInv, Shape
<1>6. Shape'
  <2>1. DOMAIN req' = Saves
    BY <1>1 DEF SaveInv, Shape
  <2>2. \A o \in Saves : FieldsOf(req'[o])
    BY <1>3, <1>4 DEF SaveInv, Shape, FieldsOf
  <2>3. env'.user # Alias
    BY <1>1, <1>5, AliasAssumption DEF SaveInv, Shape, Or
  <2> QED BY <1>5, <2>1, <2>2, <2>3 DEF SaveInv, Shape
<1>7. ProbeBacksWrite'
  <2> SUFFICES ASSUME NEW o \in Saves, req'[o].pc = "write", ImapChanged(req'[o].form)
               PROVE  ProbePair(req'[o]) \in probed'
    BY DEF ProbeBacksWrite
  <2>1. req'[o] = req[o]
    BY <1>3, <1>4
  <2> QED BY <1>1, <2>1 DEF SaveInv, ProbeBacksWrite
<1>8. OwnDecided'
  <2> SUFFICES ASSUME ~crossed, NEW o \in Saves, req'[o].pc \in {"probe", "write"}
               PROVE  req'[o].own = Decided(req'[o])
    BY <1>1 DEF OwnDecided, Decided
  <2>1. req'[o] = req[o]
    BY <1>3, <1>4
  <2> QED BY <2>1 DEF SaveInv, OwnDecided
<1>9. StoredWasProbed'
  <2> SUFFICES ASSUME ~stale', env'.user # None, env'.password # None
               PROVE  Stripped(env)' \in probed
    BY <1>1 DEF StoredWasProbed
  <2>1. ~stale /\ ~(ImapChanged(f) /\ Pair(env) # Pair(req[s].before))
    BY <1>2
  <2>2. CASE ImapChanged(f)
    <3>1. Pair(env) = Pair(req[s].before)
      BY <2>1, <2>2
    <3>2. env.user = req[s].before.user /\ env.password = req[s].before.password
      BY <3>1 DEF Pair
    <3>3. Stripped(env)' = ProbePair(req[s])
      BY <1>5, <3>2 DEF Stripped, ProbePair
    <3> QED BY <1>1, <2>2, <3>3 DEF SaveInv, ProbeBacksWrite
  <2>3. CASE ~ImapChanged(f)
    <3>1. env'.user = env.user /\ env'.password = env.password
      BY <1>5, <2>3 DEF ImapChanged, Or
    <3>2. Stripped(env)' = Stripped(env)
      BY <3>1 DEF Stripped
    <3> QED BY <2>1, <3>1, <3>2 DEF SaveInv, StoredWasProbed
  <2> QED BY <2>2, <2>3
<1>10. OwnFollowsUser'
  <2> SUFFICES ASSUME ~crossed
               PROVE  IF alias THEN env'.own = Alias ELSE env'.own \in {None, env'.user}
    BY <1>1 DEF OwnFollowsUser
  <2>1. req[s].own = IF alias \/ f.user = None THEN None ELSE f.user
    BY <1>1 DEF SaveInv, OwnDecided, Decided
  <2>2. CASE alias
    BY <1>5, <2>1, <2>2 DEF SaveInv, OwnFollowsUser, Or
  <2>3. CASE ~alias
    BY <1>5, <2>1, <2>3 DEF SaveInv, OwnFollowsUser, Or
  <2> QED BY <2>2, <2>3
<1> QED BY <1>1, <1>6, <1>7, <1>8, <1>9, <1>10 DEF SaveInv

(* The operator enters an address: a save that looked before and changes the
   login would store the other one, which crossed records. *)
LEMMA EditOwnKeeps ==
  ASSUME SaveInv, EditOwn
  PROVE  SaveInv'
<1>1. /\ env' = [env EXCEPT !.own = Alias] /\ ~alias /\ alias' = TRUE
      /\ UNCHANGED <<req, probed, stale>>
  BY DEF EditOwn
<1>2. crossed' = \E s \in Saves : req[s].pc \in {"probe", "write"} /\ req[s].form.user # None
  BY DEF EditOwn
<1>3. /\ env'.user = env.user /\ env'.password = env.password /\ env'.own = Alias
      /\ DOMAIN env' = DOMAIN env
  BY <1>1 DEF SaveInv, Shape
<1>4. Shape'
  BY <1>1, <1>3 DEF SaveInv, Shape
<1>5. ProbeBacksWrite'
  BY <1>1 DEF SaveInv, ProbeBacksWrite
<1>6. OwnDecided'
  <2> SUFFICES ASSUME ~crossed', NEW o \in Saves, req[o].pc \in {"probe", "write"}
               PROVE  req[o].own = None
    BY <1>1 DEF OwnDecided, Decided
  <2>1. req[o].form.user = None
    BY <1>2
  <2>2. ~crossed
    BY <1>1 DEF SaveInv
  <2> QED BY <2>1, <2>2 DEF SaveInv, OwnDecided, Decided
<1>7. StoredWasProbed'
  <2>1. Stripped(env)' = Stripped(env)
    BY <1>3 DEF Stripped
  <2> QED BY <1>1, <1>3, <2>1 DEF SaveInv, StoredWasProbed
<1>8. OwnFollowsUser'
  BY <1>1, <1>3 DEF OwnFollowsUser
<1> QED BY <1>1, <1>4, <1>5, <1>6, <1>7, <1>8 DEF SaveInv

(* Every step keeps the invariant. *)
LEMMA SaveStepInv == SaveInv /\ [Next]_vars => SaveInv'
<1> SUFFICES ASSUME SaveInv, [Next]_vars PROVE SaveInv'
  OBVIOUS
<1>0. Idle.pc = "idle" /\ FieldsOf(Idle)
  BY DEF Idle, FieldsOf
<1>1. ASSUME NEW s \in Saves, NEW f \in Forms, Begin(s, f) PROVE SaveInv'
  BY <1>1, BeginKeeps
<1>2. ASSUME NEW s \in Saves, StyleSection(s) PROVE SaveInv'
  BY <1>2, StyleSectionKeeps
<1>3. ASSUME NEW s \in Saves, Refuse(s) \/ ProbeFails(s) \/ Extracted(s) PROVE SaveInv'
  <2>1. /\ req' = [req EXCEPT ![s] = Idle]
        /\ UNCHANGED <<env, probed, stale, alias, crossed>>
    BY <1>3 DEF Refuse, ProbeFails, Extracted, Answered
  <2> QED BY <1>0, <2>1, OneRequestMoves
<1>4. ASSUME NEW s \in Saves, Check(s) PROVE SaveInv'
  BY <1>4, CheckKeeps
<1>5. ASSUME NEW s \in Saves, Probe(s) PROVE SaveInv'
  <2> DEFINE r == [req[s] EXCEPT !.pc = "write"]
  <2>1. /\ req[s].pc = "probe" /\ req' = [req EXCEPT ![s] = r]
        /\ probed' = IF ImapChanged(req[s].form)
                     THEN probed \cup {ProbePair(req[s])} ELSE probed
        /\ UNCHANGED <<env, stale, alias, crossed>>
    BY <1>5 DEF Probe
  <2>2. /\ FieldsOf(r) /\ r.pc = "write" /\ r.own = req[s].own
        /\ r.form = req[s].form /\ r.before = req[s].before
    BY <2>1 DEF SaveInv, Shape, FieldsOf
  <2>3. ImapChanged(r.form) => ProbePair(r) \in probed'
    BY <2>1, <2>2 DEF ProbePair
  <2>4. probed \subseteq probed'
    BY <2>1
  <2>5. ~crossed => r.own = Decided(r)
    BY <2>1, <2>2 DEF SaveInv, OwnDecided, Decided
  <2> HIDE DEF r
  <2> QED BY <2>1, <2>2, <2>3, <2>4, <2>5, OneRequestMoves
<1>6. ASSUME NEW s \in Saves, Write(s) PROVE SaveInv'
  BY <1>6, WriteKeeps
<1>7. ASSUME NEW s \in Saves, AutoExtract(s) \/ Relearn(s) PROVE SaveInv'
  <2>1. PICK r \in {Extracting, Idle} :
          /\ req' = [req EXCEPT ![s] = r]
          /\ UNCHANGED <<env, probed, stale, alias, crossed>>
    BY <1>7 DEF AutoExtract, Relearn
  <2>2. FieldsOf(r) /\ r.pc \in {"extract", "idle"}
    BY <1>0, <2>1 DEF FieldsOf, Extracting
  <2> QED BY <2>1, <2>2, OneRequestMoves
<1>8. CASE EditOwn
  BY <1>8, EditOwnKeeps
<1>9. CASE Restart
  <2>1. /\ req' = [s \in Saves |-> Idle]
        /\ UNCHANGED <<env, probed, stale, alias, crossed>>
    BY <1>9 DEF Restart
  <2>2. StoredWasProbed' /\ OwnFollowsUser'
    BY <2>1, SameStore DEF SaveInv
  <2> QED BY <1>0, <2>1, <2>2
        DEF SaveInv, Shape, ProbeBacksWrite, OwnDecided, Decided
<1>10. CASE UNCHANGED vars
  <2>1. UNCHANGED <<env, req, probed, stale, alias, crossed>>
    BY <1>10 DEF vars
  <2>2. StoredWasProbed' /\ OwnFollowsUser'
    BY <2>1, SameStore DEF SaveInv
  <2> QED BY <2>1, <2>2 DEF SaveInv, Shape, ProbeBacksWrite, OwnDecided, Decided
<1> QED BY <1>1, <1>2, <1>3, <1>4, <1>5, <1>6, <1>7, <1>8, <1>9, <1>10 DEF Next

(* The invariant holds in every reachable state. *)
THEOREM SaveSafe == Spec => []SaveInv
BY SaveInitInv, SaveStepInv, PTL DEF Spec

(* An agent's mail credentials are, but for blanks around them, a pair the mail
   server has accepted unless two saves of credentials overlapped: main.save,
   main.py:1281-1415, and validate_conn.py:43-44. *)
THEOREM CredentialsWereProbed == Spec => []StoredWasProbed
<1>1. SaveInv => StoredWasProbed
  BY DEF SaveInv
<1> QED BY <1>1, SaveSafe, PTL

(* The own address follows the login and never replaces one the operator has
   set, through any overlap of saves, unless it was entered within one: main.save,
   main.py:1326-1345 and 1413-1415. *)
THEOREM OwnAddressIsKept == Spec => []OwnFollowsUser
<1>1. SaveInv => OwnFollowsUser
  BY DEF SaveInv
<1> QED BY <1>1, SaveSafe, PTL

-----------------------------------------------------------------------------
(* The initial states satisfy the invariant. *)
LEMMA StreamInitInv == StreamInit => StreamInv
<1> SUFFICES ASSUME StreamInit PROVE StreamInv
  OBVIOUS
<1>1. Len(text) \in Nat
  BY ConstantsAssumption DEF StreamInit
<1>2. StreamTypeOK
  BY <1>1 DEF StreamInit, StreamTypeOK
<1>3. BufferIsHeld
  BY DEF StreamInit, BufferIsHeld
<1>4. NoTagTorn
  BY <1>1 DEF StreamInit, NoTagTorn
<1> QED
  BY <1>2, <1>3, <1>4 DEF StreamInv

(* A position that is not inside any placeholder that is being cut: what
   each new cut of a step has to be. *)
Whole(c) == \A a, b \in 1..Len(text) : (a < b /\ Tag(a, b)) => ~(a <= c /\ c < b)

(* A step that adds only such cuts keeps NoTagTorn. *)
LEMMA NewCutsWhole ==
  ASSUME StreamInv, UNCHANGED text, \A c \in cuts' : c \in cuts \/ Whole(c)
  PROVE  NoTagTorn'
BY DEF StreamInv, NoTagTorn, Whole, Tag, Bracket

(* The place before the last open bracket of the buffer is whole. *)
LEMMA BeforeOpenIsWhole ==
  ASSUME StreamInv, NEW n \in 1..Len(text), NEW i \in 1..n, OpenAt(i, n)
  PROVE  Whole(i - 1)
<1>1. Len(text) \in Nat /\ text[i] = "["
  BY ConstantsAssumption DEF StreamInv, StreamTypeOK, OpenAt
<1> SUFFICES ASSUME NEW a \in 1..Len(text), NEW b \in 1..Len(text),
                    a < b, Tag(a, b), a <= i - 1, i - 1 < b
             PROVE  FALSE
  BY DEF Whole
<1>2. i # b
  BY <1>1 DEF Tag
<1>3. i \in a + 1 .. b - 1
  BY <1>1, <1>2
<1> QED
  BY <1>1, <1>3 DEF Tag, Bracket

(* The end of a chunk is whole when no bracket is open there. *)
LEMMA ClosedIsWhole ==
  ASSUME StreamInv, NEW n \in 1..Len(text), sent <= n,
         ~ \E i \in 1..n : OpenAt(i, n)
  PROVE  Whole(n)
<1>1. Len(text) \in Nat /\ sent \in Nat /\ sent \in cuts
  BY ConstantsAssumption DEF StreamInv, StreamTypeOK, BufferIsHeld
<1> SUFFICES ASSUME NEW a \in 1..Len(text), NEW b \in 1..Len(text),
                    a < b, Tag(a, b), a <= n, n < b
             PROVE  FALSE
  BY DEF Whole
<1>2. \A k \in a + 1 .. n : ~Bracket(k)
  BY <1>1 DEF Tag
<1>3. ~(a <= sent)
  BY <1>1 DEF StreamInv, NoTagTorn
<1>4. OpenAt(a, n)
  BY <1>1, <1>2, <1>3 DEF OpenAt, Tag
<1> QED
  BY <1>1, <1>4

(* The end of a chunk is whole when more is held back than a placeholder
   can be long. *)
LEMMA LongIsWhole ==
  ASSUME StreamInv, NEW n \in 1..Len(text), NEW i \in 1..n,
         OpenAt(i, n), n - i + 1 > Threshold
  PROVE  Whole(n)
<1>1. Len(text) \in Nat /\ Threshold \in Nat
  BY ConstantsAssumption DEF StreamInv, StreamTypeOK
<1> SUFFICES ASSUME NEW a \in 1..Len(text), NEW b \in 1..Len(text),
                    a < b, Tag(a, b), a <= n, n < b
             PROVE  FALSE
  BY DEF Whole
<1>2. CASE a < i
  <2>1. i \in a + 1 .. b - 1
    BY <1>1, <1>2
  <2> QED
    BY <2>1 DEF Tag, Bracket, OpenAt
<1>3. CASE a = i
  BY <1>1, <1>3 DEF Tag
<1>4. CASE a > i
  <2>1. a \in i + 1 .. n
    BY <1>1, <1>4
  <2> QED
    BY <2>1 DEF Tag, Bracket, OpenAt
<1> QED
  BY <1>1, <1>2, <1>3, <1>4

(* Every step keeps the invariant. *)
LEMMA StreamStepInv == StreamInv /\ [StreamNext]_streamVars => StreamInv'
<1> SUFFICES ASSUME StreamInv, [StreamNext]_streamVars PROVE StreamInv'
  OBVIOUS
<1>0. /\ Len(text) \in Nat /\ read \in 0..Len(text) /\ sent \in 0..read
      /\ cuts \subseteq 0..Len(text) /\ sent \in cuts /\ Threshold \in Nat
      /\ \A c \in cuts : c <= sent
  BY ConstantsAssumption DEF StreamInv, StreamTypeOK, BufferIsHeld
<1>1. ASSUME NEW n \in 1..Len(text), Deliver(n) PROVE StreamInv'
  <2>1. sent <= n /\ n \in Nat
    BY <1>0, <1>1 DEF Deliver, Receive
  <2>2. NoTagTorn'
    BY <1>1, <2>1, ClosedIsWhole, NewCutsWhole DEF Deliver
  <2>3. StreamTypeOK'
    BY <1>0, <1>1, <2>1 DEF StreamInv, StreamTypeOK, Deliver, Receive
  <2>4. BufferIsHeld'
    BY <1>0, <1>1, <2>1 DEF BufferIsHeld, Deliver, Receive
  <2> QED
    BY <2>2, <2>3, <2>4 DEF StreamInv
<1>2. ASSUME NEW n \in 1..Len(text), NEW i \in 1..n, Hold(i, n) PROVE StreamInv'
  <2>1. OpenAt(i, n) /\ i \in sent + 1 .. n /\ i - 1 \in Nat
    BY <1>0, <1>2 DEF Hold, OpenAt
  <2>2. NoTagTorn'
    <3>1. cuts' = cuts \cup {i - 1} /\ UNCHANGED text
      BY <1>2 DEF Hold
    <3>2. \A c \in {i - 1} : Whole(c)
      BY <2>1, BeforeOpenIsWhole
    <3> QED
      BY <3>1, <3>2, NewCutsWhole
  <2>3. StreamTypeOK'
    BY <1>0, <1>2, <2>1 DEF StreamInv, StreamTypeOK, Hold, Receive
  <2>4. BufferIsHeld'
    BY <1>0, <1>2, <2>1 DEF BufferIsHeld, Hold, Receive, OpenAt, Bracket
  <2> QED
    BY <2>2, <2>3, <2>4 DEF StreamInv
<1>3. ASSUME NEW n \in 1..Len(text), NEW i \in 1..n, GiveUp(i, n) PROVE StreamInv'
  <2>1. OpenAt(i, n) /\ i \in sent + 1 .. n /\ i - 1 \in Nat /\ n \in Nat
    BY <1>0, <1>3 DEF GiveUp, OpenAt
  <2>2. NoTagTorn'
    <3>1. cuts' = cuts \cup {i - 1, n} /\ UNCHANGED text
      BY <1>3 DEF GiveUp
    <3>2. Whole(i - 1)
      BY <2>1, BeforeOpenIsWhole
    <3>3. Whole(n)
      BY <1>3, <2>1, LongIsWhole DEF GiveUp
    <3> QED
      BY <3>1, <3>2, <3>3, NewCutsWhole
  <2>3. StreamTypeOK'
    BY <1>0, <1>3, <2>1 DEF StreamInv, StreamTypeOK, GiveUp, Receive
  <2>4. BufferIsHeld'
    BY <1>0, <1>3, <2>1 DEF BufferIsHeld, GiveUp, Receive
  <2> QED
    BY <2>2, <2>3, <2>4 DEF StreamInv
<1>4. CASE Exhausted
  <2>1. \A c \in {read} : Whole(c)
    BY <1>0, <1>4 DEF Exhausted, Whole
  <2>2. NoTagTorn'
    BY <1>4, <2>1, NewCutsWhole DEF Exhausted
  <2>3. StreamTypeOK'
    BY <1>0, <1>4 DEF StreamInv, StreamTypeOK, Exhausted
  <2>4. BufferIsHeld'
    BY <1>0, <1>4 DEF BufferIsHeld, Exhausted
  <2> QED
    BY <2>2, <2>3, <2>4 DEF StreamInv
<1>5. CASE DeliverBlock
  <2>1. \A c \in {Len(text)} : Whole(c)
    BY <1>0 DEF Whole
  <2>2. NoTagTorn'
    BY <1>5, <2>1, NewCutsWhole DEF DeliverBlock
  <2>3. StreamTypeOK'
    <3>1. Len(text) \in 0..Len(text) /\ Len(text) \in Nat
      BY <1>0
    <3> QED
      BY <1>0, <1>5, <3>1 DEF StreamInv, StreamTypeOK, DeliverBlock
  <2>4. BufferIsHeld'
    BY <1>0, <1>5 DEF BufferIsHeld, DeliverBlock
  <2> QED
    BY <2>2, <2>3, <2>4 DEF StreamInv
<1>6. CASE ProviderFails
  BY <1>6 DEF ProviderFails, StreamInv, StreamTypeOK, BufferIsHeld, NoTagTorn,
     OpenAt, Tag, Bracket
<1>7. CASE UNCHANGED streamVars
  BY <1>7 DEF streamVars, StreamInv, StreamTypeOK, BufferIsHeld, NoTagTorn,
     OpenAt, Tag, Bracket
<1> QED
  BY <1>1, <1>2, <1>3, <1>4, <1>5, <1>6, <1>7 DEF StreamNext

(* The inductive invariant holds in every reachable state. *)
THEOREM StreamSafe == StreamSpec => []StreamInv
<1> QED
  BY StreamInitInv, StreamStepInv, PTL DEF StreamSpec

(* No piece ends inside a placeholder, for every answer, every chunking and
   every threshold: chat.deanonymize_stream. *)
THEOREM TagsStayWhole == StreamSpec => []NoTagTorn
<1>1. StreamInv => NoTagTorn
  BY DEF StreamInv
<1> QED
  BY <1>1, StreamSafe, PTL

(* What the network, the client and the parser do never touches the generator. *)
LEMMA ChatStepIsStream == [ChatNext]_allVars => [StreamNext]_streamVars
<1> SUFFICES ASSUME [ChatNext]_allVars PROVE [StreamNext]_streamVars
  OBVIOUS
<1>1. CASE Generate
  BY <1>1 DEF Generate, StreamNext
<1>2. CASE Arrive \/ ReadLine \/ Close \/ Break
  BY <1>2 DEF Arrive, ReadLine, Close, Break
<1>3. CASE UNCHANGED allVars
  BY <1>3 DEF allVars
<1> QED
  BY <1>1, <1>2, <1>3 DEF ChatNext

(* The chat implements the stream: each of its paths, streamed or with tools, is
   one of the stream's: chat_send over deanonymize_stream. *)
THEOREM ChatImplementsStream == ChatSpec => StreamSpec
<1>1. ChatInit => StreamInit
  BY DEF ChatInit
<1> QED
  BY <1>1, ChatStepIsStream, PTL DEF ChatSpec, StreamSpec

(* No piece of an answer that is sent to a client ends inside a placeholder. *)
THEOREM ChatKeepsTagsWhole == ChatSpec => []NoTagTorn
<1> QED
  BY ChatImplementsStream, TagsStayWhole

-----------------------------------------------------------------------------
(* What FlattenSeq of the community modules computes. *)
(* Induction over a set of numbers: the library's induction theorems take an
   operator, which no installed prover can instantiate; a set is enough here. *)
LEMMA NatSetInduction ==
  ASSUME NEW S, 0 \in S, \A n \in Nat : n \in S => n + 1 \in S
  PROVE  Nat \subseteq S
<1> DEFINE T == Nat \ S
<1> SUFFICES ASSUME T # {} PROVE FALSE
  OBVIOUS
<1>1. PICK x \in T : \A y \in T : ~ (<<y, x>> \in OpToRel(<, Nat))
  <2>1. T \subseteq Nat
    OBVIOUS
  <2> HIDE DEF T
  <2> QED BY <2>1, NatLessThanWellFounded, WFMin
<1>2. x \in Nat /\ x # 0 /\ x - 1 \in Nat
  OBVIOUS
<1>3. <<x - 1, x>> \in OpToRel(<, Nat)
  BY <1>2 DEF OpToRel
<1>4. x - 1 \in S
  BY <1>1, <1>2, <1>3
<1> QED BY <1>2, <1>4

(* What FlattenSeq computes with. *)
Flattened(ss, f) ==
  f = [i \in 1..Len(ss) |-> IF i = 1 THEN ss[i] ELSE f[i - 1] \o ss[i]]

(* One more sequence continues the table of partial results. *)
LEMMA FlattenedMore ==
  ASSUME NEW T, NEW ss \in Seq(Seq(T)), NEW s \in Seq(T),
         NEW f \in [1..Len(ss) -> Seq(T)], Flattened(ss, f)
  PROVE  \E g \in [1..Len(ss) + 1 -> Seq(T)] :
            /\ Flattened(Append(ss, s), g)
            /\ g[Len(ss) + 1] = IF ss = <<>> THEN s ELSE f[Len(ss)] \o s
<1> DEFINE n == Len(ss)
           e == IF n = 0 THEN s ELSE f[n] \o s
           g == [k \in 1..n + 1 |-> IF k = n + 1 THEN e ELSE f[k]]
<1>0. n \in Nat /\ (n = 0 <=> ss = <<>>)
  OBVIOUS
<1>1. e \in Seq(T)
  <2>1. n # 0 => n \in 1..Len(ss)
    BY <1>0
  <2>2. n # 0 => f[n] \in Seq(T)
    BY <2>1
  <2> QED BY <2>2, ConcatProperties
<1>2. g \in [1..n + 1 -> Seq(T)]
  BY <1>0, <1>1
<1>3. /\ Len(Append(ss, s)) = n + 1 /\ Append(ss, s)[n + 1] = s
      /\ \A i \in 1..n : Append(ss, s)[i] = ss[i]
  BY AppendProperties
<1>4. ASSUME NEW i \in 1..n + 1
      PROVE  g[i] = IF i = 1 THEN Append(ss, s)[i] ELSE g[i - 1] \o Append(ss, s)[i]
  <2>1. CASE i = n + 1
    <3>1. g[i] = e
      BY <2>1
    <3>2. i # 1 => g[i - 1] = f[n]
      BY <1>0, <2>1
    <3> HIDE DEF g
    <3> QED BY <1>0, <1>3, <2>1, <3>1, <3>2
  <2>2. CASE i # n + 1
    <3>1. i \in 1..n /\ (i # 1 => i - 1 \in 1..n)
      BY <1>0, <2>2
    <3>2. f[i] = IF i = 1 THEN ss[i] ELSE f[i - 1] \o ss[i]
      BY <3>1 DEF Flattened
    <3>3. g[i] = f[i] /\ (i # 1 => g[i - 1] = f[i - 1])
      BY <1>0, <3>1
    <3> HIDE DEF g
    <3> QED BY <1>3, <3>1, <3>2, <3>3
  <2> QED BY <2>1, <2>2
<1>5. g = [i \in 1..n + 1 |-> g[i]] /\ g[n + 1] = e
  BY <1>0
<1> HIDE DEF g
<1>6. Flattened(Append(ss, s), g)
  BY <1>3, <1>4, <1>5 DEF Flattened
<1> QED BY <1>0, <1>2, <1>5, <1>6

(* There is such a table for every sequence of sequences. *)
LEMMA FlattenedExists ==
  ASSUME NEW T
  PROVE  \A ss \in Seq(Seq(T)) : \E f \in [1..Len(ss) -> Seq(T)] : Flattened(ss, f)
<1> DEFINE S == {n \in Nat : \A ss \in Seq(Seq(T)) : Len(ss) = n =>
                    \E f \in [1..n -> Seq(T)] : Flattened(ss, f)}
<1>1. 0 \in S
  <2> SUFFICES ASSUME NEW ss \in Seq(Seq(T)), Len(ss) = 0
               PROVE  \E f \in [1..0 -> Seq(T)] : Flattened(ss, f)
    OBVIOUS
  <2>1. [k \in 1..0 |-> <<>>] \in [1..0 -> Seq(T)]
    OBVIOUS
  <2>2. Flattened(ss, [k \in 1..0 |-> <<>>])
    BY DEF Flattened
  <2> QED BY <2>1, <2>2
<1>2. ASSUME NEW n \in Nat, n \in S PROVE n + 1 \in S
  <2> SUFFICES ASSUME NEW ss \in Seq(Seq(T)), Len(ss) = n + 1
               PROVE  \E f \in [1..n + 1 -> Seq(T)] : Flattened(ss, f)
    OBVIOUS
  <2>0. ss # <<>>
    BY EmptySeq
  <2>1. PICK tt \in Seq(Seq(T)), s \in Seq(T) : ss = Append(tt, s)
    BY <2>0, SequenceEmptyOrAppend
  <2>2. Len(tt) = n
    BY <2>1, AppendProperties
  <2>3. PICK f \in [1..n -> Seq(T)] : Flattened(tt, f)
    BY <1>2, <2>2
  <2> QED BY <2>1, <2>2, <2>3, FlattenedMore
<1>3. Nat \subseteq S
  <2> HIDE DEF S
  <2> QED BY <1>1, <1>2, NatSetInduction
<1> QED BY <1>3

(* The table determines itself. *)
LEMMA FlattenedUnique ==
  ASSUME NEW T, NEW ss \in Seq(Seq(T)), NEW f, NEW g,
         Flattened(ss, f), Flattened(ss, g)
  PROVE  f = g
<1> DEFINE S == {n \in Nat : n + 1 \in 1..Len(ss) => f[n + 1] = g[n + 1]}
<1>0. \A i \in 1..Len(ss) :
        /\ f[i] = IF i = 1 THEN ss[i] ELSE f[i - 1] \o ss[i]
        /\ g[i] = IF i = 1 THEN ss[i] ELSE g[i - 1] \o ss[i]
  <2>1. \A i \in 1..Len(ss) : f[i] = IF i = 1 THEN ss[i] ELSE f[i - 1] \o ss[i]
    BY DEF Flattened
  <2>2. \A i \in 1..Len(ss) : g[i] = IF i = 1 THEN ss[i] ELSE g[i - 1] \o ss[i]
    BY DEF Flattened
  <2> QED BY <2>1, <2>2
<1>1. 0 \in S
  BY <1>0
<1>2. ASSUME NEW n \in Nat, n \in S PROVE n + 1 \in S
  <2> SUFFICES ASSUME n + 2 \in 1..Len(ss) PROVE f[n + 2] = g[n + 2]
    OBVIOUS
  <2>1. n + 1 \in 1..Len(ss) /\ n + 2 # 1 /\ n + 2 - 1 = n + 1
    BY LenProperties
  <2>2. f[n + 1] = g[n + 1]
    BY <1>2, <2>1
  <2> QED BY <1>0, <2>1, <2>2
<1>3. Nat \subseteq S
  <2> HIDE DEF S
  <2> QED BY <1>1, <1>2, NatSetInduction
<1>4. ASSUME NEW i \in 1..Len(ss) PROVE f[i] = g[i]
  <2>1. i - 1 \in Nat /\ i - 1 + 1 = i
    BY LenProperties
  <2>2. i - 1 \in S
    BY <1>3, <2>1
  <2> QED BY <2>1, <2>2
<1>5. f = [i \in 1..Len(ss) |-> f[i]] /\ g = [i \in 1..Len(ss) |-> g[i]]
  BY DEF Flattened
<1> QED BY <1>4, <1>5

(* FlattenSeq is the last element of such a function. *)
LEMMA FlattenIs ==
  ASSUME NEW T, NEW ss \in Seq(Seq(T)), ss # <<>>, NEW f, Flattened(ss, f)
  PROVE  FlattenSeq(ss) = f[Len(ss)]
<1> DEFINE F == CHOOSE h : Flattened(ss, h)
<1>1. Flattened(ss, F)
  OBVIOUS
<1>2. F = f
  <2> HIDE DEF F
  <2> QED BY <1>1, FlattenedUnique
<1>3. FlattenSeq(ss) = F[Len(ss)]
  <2>1. Len(ss) # 0
    BY EmptySeq
  <2> QED BY <2>1 DEF FlattenSeq, Flattened
<1> QED BY <1>2, <1>3

(* FlattenSeq of nothing, its type, one more element, one element, and two
   sequences one after the other. *)
LEMMA FlattenEmpty == FlattenSeq(<<>>) = <<>>
BY DEF FlattenSeq

(* FlattenSeq of strings is a string. *)
LEMMA FlattenType ==
  ASSUME NEW T, NEW ss \in Seq(Seq(T))
  PROVE  FlattenSeq(ss) \in Seq(T)
<1>1. PICK f \in [1..Len(ss) -> Seq(T)] : Flattened(ss, f)
  BY FlattenedExists
<1>2. CASE ss # <<>>
  <2>1. Len(ss) \in 1..Len(ss)
    BY <1>2, EmptySeq
  <2>2. FlattenSeq(ss) = f[Len(ss)]
    BY <1>1, <1>2, FlattenIs
  <2> QED BY <2>1, <2>2
<1> QED BY <1>2, FlattenEmpty

(* One more string to flatten. *)
LEMMA FlattenAppend ==
  ASSUME NEW T, NEW ss \in Seq(Seq(T)), NEW s \in Seq(T)
  PROVE  FlattenSeq(Append(ss, s)) = FlattenSeq(ss) \o s
<1>1. PICK f \in [1..Len(ss) -> Seq(T)] : Flattened(ss, f)
  BY FlattenedExists
<1>2. PICK g \in [1..Len(ss) + 1 -> Seq(T)] :
            /\ Flattened(Append(ss, s), g)
            /\ g[Len(ss) + 1] = IF ss = <<>> THEN s ELSE f[Len(ss)] \o s
  BY <1>1, FlattenedMore
<1>3. /\ Append(ss, s) \in Seq(Seq(T)) /\ Append(ss, s) # <<>>
      /\ Len(Append(ss, s)) = Len(ss) + 1
  BY AppendProperties
<1>4. FlattenSeq(Append(ss, s)) = g[Len(ss) + 1]
  BY <1>2, <1>3, FlattenIs
<1>5. CASE ss = <<>>
  BY <1>2, <1>4, <1>5, FlattenEmpty, ConcatEmptySeq
<1>6. CASE ss # <<>>
  BY <1>1, <1>2, <1>4, <1>6, FlattenIs
<1> QED BY <1>5, <1>6

(* A single string stays as it is. *)
LEMMA FlattenOne ==
  ASSUME NEW T, NEW s \in Seq(T)
  PROVE  FlattenSeq(<<s>>) = s
<1>1. <<s>> = Append(<<>>, s) /\ <<>> \in Seq(Seq(T))
  OBVIOUS
<1>2. FlattenSeq(Append(<<>>, s)) = FlattenSeq(<<>>) \o s
  BY <1>1, FlattenAppend
<1> QED BY <1>1, <1>2, FlattenEmpty, ConcatEmptySeq

(* Concatenation is associative. *)
LEMMA Assoc ==
  ASSUME NEW T, NEW x \in Seq(T), NEW y \in Seq(T), NEW z \in Seq(T)
  PROVE  (x \o y) \o z = x \o (y \o z)
BY ConcatAssociative

(* FlattenSeq distributes over concatenation. *)
LEMMA FlattenConcat ==
  ASSUME NEW T, NEW a \in Seq(Seq(T)), NEW b \in Seq(Seq(T))
  PROVE  FlattenSeq(a \o b) = FlattenSeq(a) \o FlattenSeq(b)
<1> DEFINE S == {n \in Nat : \A c \in Seq(Seq(T)) : Len(c) = n =>
                    FlattenSeq(a \o c) = FlattenSeq(a) \o FlattenSeq(c)}
<1>1. 0 \in S
  <2> SUFFICES ASSUME NEW c \in Seq(Seq(T)), Len(c) = 0
               PROVE  FlattenSeq(a \o c) = FlattenSeq(a) \o FlattenSeq(c)
    OBVIOUS
  <2>1. c = <<>> /\ a \o c = a
    BY EmptySeq, ConcatEmptySeq
  <2> QED BY <2>1, FlattenEmpty, FlattenType, ConcatEmptySeq
<1>2. ASSUME NEW n \in Nat, n \in S PROVE n + 1 \in S
  <2> SUFFICES ASSUME NEW c \in Seq(Seq(T)), Len(c) = n + 1
               PROVE  FlattenSeq(a \o c) = FlattenSeq(a) \o FlattenSeq(c)
    OBVIOUS
  <2>0. c # <<>>
    BY EmptySeq
  <2>1. PICK d \in Seq(Seq(T)), s \in Seq(T) : c = Append(d, s)
    BY <2>0, SequenceEmptyOrAppend
  <2>2. Len(d) = n
    BY <2>1, AppendProperties
  <2>3. FlattenSeq(a \o d) = FlattenSeq(a) \o FlattenSeq(d)
    BY <1>2, <2>2
  <2>4. a \o c = Append(a \o d, s) /\ a \o d \in Seq(Seq(T))
    <3>1. c = d \o <<s>> /\ <<s>> \in Seq(Seq(T))
      BY <2>1, AppendIsConcat
    <3>2. a \o d \in Seq(Seq(T)) /\ Append(a \o d, s) = (a \o d) \o <<s>>
      BY ConcatProperties, AppendIsConcat
    <3>3. (a \o d) \o <<s>> = a \o (d \o <<s>>)
      <4>1. a \in Seq(Seq(T)) /\ d \in Seq(Seq(T))
        OBVIOUS
      <4> QED BY ONLY <3>1, <4>1, Assoc
    <3> QED BY ONLY <3>1, <3>2, <3>3
  <2>5. FlattenSeq(a \o c) = (FlattenSeq(a) \o FlattenSeq(d)) \o s
    BY <2>3, <2>4, FlattenAppend
  <2>6. FlattenSeq(c) = FlattenSeq(d) \o s
    BY <2>1, FlattenAppend
  <2>7. FlattenSeq(a) \in Seq(T) /\ FlattenSeq(d) \in Seq(T) /\ s \in Seq(T)
    BY FlattenType
  <2>8. (FlattenSeq(a) \o FlattenSeq(d)) \o s = FlattenSeq(a) \o (FlattenSeq(d) \o s)
    BY ONLY <2>7, Assoc
  <2> QED BY <2>5, <2>6, <2>8
<1>3. Nat \subseteq S
  <2> HIDE DEF S
  <2> QED BY <1>1, <1>2, NatSetInduction
<1>4. Len(b) \in S
  BY <1>3, LenProperties
<1> QED BY <1>4

-----------------------------------------------------------------------------
(* Strings, and replacing each character by a string. *)
(* Sequences over T and their concatenation, taken as they are: what is needed
   of them below are these laws. *)
Str(T) == Seq(T)

a ++ b == a \o b

(* The empty string. *)
LEMMA StrEmpty == ASSUME NEW T PROVE <<>> \in Str(T)
BY DEF Str

(* A string of one character. *)
LEMMA StrOne == ASSUME NEW T, NEW x \in T PROVE <<x>> \in Str(T)
BY DEF Str

(* Two strings make a string. *)
LEMMA CatType ==
  ASSUME NEW T, NEW a \in Str(T), NEW b \in Str(T)
  PROVE  a ++ b \in Str(T)
BY ConcatProperties DEF Str, ++

(* ++ is associative. *)
LEMMA CatAssoc ==
  ASSUME NEW T, NEW a \in Str(T), NEW b \in Str(T), NEW c \in Str(T)
  PROVE  (a ++ b) ++ c = a ++ (b ++ c)
BY Assoc DEF Str, ++

(* The empty string is neutral. *)
LEMMA CatEmpty ==
  ASSUME NEW T, NEW a \in Str(T)
  PROVE  a ++ <<>> = a /\ <<>> ++ a = a
BY ConcatEmptySeq DEF Str, ++

(* The characters of two strings one after the other. *)
LEMMA CatAt ==
  ASSUME NEW T, NEW a \in Str(T), NEW b \in Str(T)
  PROVE  /\ Len(a) \in Nat /\ Len(b) \in Nat /\ Len(a ++ b) = Len(a) + Len(b)
         /\ \A i \in 1..Len(a) + Len(b) :
              (a ++ b)[i] = IF i <= Len(a) THEN a[i] ELSE b[i - Len(a)]
BY ConcatProperties, LenProperties DEF Str, ++

(* Strings with the same characters are equal. *)
LEMMA StrEqual ==
  ASSUME NEW T, NEW a \in Str(T), NEW b \in Str(T), Len(a) = Len(b),
         \A i \in 1..Len(a) : a[i] = b[i]
  PROVE  a = b
BY SeqEqual DEF Str

(* A string has a length and characters of its set. *)
LEMMA StrLen ==
  ASSUME NEW T, NEW a \in Str(T)
  PROVE  Len(a) \in Nat /\ (Len(a) = 0 <=> a = <<>>) /\ \A i \in 1..Len(a) : a[i] \in T
BY DEF Str

(* A sequence cut at n. *)
LEMMA CutAt ==
  ASSUME NEW T, NEW s \in Str(T), NEW n \in 0..Len(s)
  PROVE  /\ SubSeq(s, 1, n) \in Str(T) /\ SubSeq(s, n + 1, Len(s)) \in Str(T)
         /\ Len(SubSeq(s, 1, n)) = n /\ Len(SubSeq(s, n + 1, Len(s))) = Len(s) - n
         /\ s = SubSeq(s, 1, n) ++ SubSeq(s, n + 1, Len(s))
<1>1. Len(s) \in Nat /\ s \in Seq(T)
  BY StrLen DEF Str
<1>2. SubSeq(s, 1, n) \in Seq(T) /\ SubSeq(s, n + 1, Len(s)) \in Seq(T)
  BY <1>1, SubSeqProperties
<1>3. Len(SubSeq(s, 1, n)) = n /\ Len(SubSeq(s, n + 1, Len(s))) = Len(s) - n
  BY <1>1, SubSeqProperties
<1>4. SubSeq(s, 1, n) \o SubSeq(s, n + 1, Len(s)) = SubSeq(s, 1, Len(s))
  <2>1. 1 \in 1..Len(s) + 1 /\ n \in 1 - 1 .. Len(s) /\ Len(s) \in n .. Len(s)
    BY <1>1
  <2> QED BY <1>1, <2>1, ConcatAdjacentSubSeq
<1> QED BY <1>1, <1>2, <1>3, <1>4, SubSeqFull DEF Str, ++

(* Each element replaced by a sequence of its own. *)
Codes(U, T) == [U -> Seq(T)]

Each(f, s) == FlattenSeq([k \in 1..Len(s) |-> f[s[k]]])

(* Replacing every character by a string yields a string. *)
LEMMA EachTyped ==
  ASSUME NEW T, NEW U, NEW f \in Codes(U, T), NEW s \in Seq(U)
  PROVE  /\ [k \in 1..Len(s) |-> f[s[k]]] \in Seq(Seq(T))
         /\ Each(f, s) \in Seq(T)
<1>1. [k \in 1..Len(s) |-> f[s[k]]] \in Seq(Seq(T))
  <2>1. Len(s) \in Nat /\ \A k \in 1..Len(s) : f[s[k]] \in Seq(T)
    BY DEF Codes
  <2> QED BY <2>1
<1> QED BY <1>1, FlattenType DEF Each

(* Each of nothing is nothing. *)
LEMMA EachEmpty == ASSUME NEW f PROVE Each(f, <<>>) = <<>>
BY FlattenEmpty DEF Each

(* Each of one character is its code. *)
LEMMA EachOne ==
  ASSUME NEW T, NEW U, NEW f \in Codes(U, T), NEW x \in U
  PROVE  Each(f, <<x>>) = f[x]
<1>1. [k \in 1..Len(<<x>>) |-> f[<<x>>[k]]] = <<f[x]>>
  OBVIOUS
<1>2. f[x] \in Seq(T)
  BY DEF Codes
<1> QED BY <1>1, <1>2, FlattenOne DEF Each

(* Each works character by character. *)
LEMMA EachConcatenated ==
  ASSUME NEW T, NEW U, NEW f \in Codes(U, T)
  PROVE  \A a, b \in Seq(U) : Each(f, a \o b) = Each(f, a) \o Each(f, b)
<1> TAKE a, b \in Seq(U)
<1> DEFINE A == [k \in 1..Len(a) |-> f[a[k]]]
           B == [k \in 1..Len(b) |-> f[b[k]]]
           C == [k \in 1..Len(a \o b) |-> f[(a \o b)[k]]]
<1>1. A \in Seq(Seq(T)) /\ B \in Seq(Seq(T)) /\ C \in Seq(Seq(T))
  <2>1. a \o b \in Seq(U)
    BY ConcatProperties
  <2> QED BY <2>1, EachTyped
<1>2. Len(A) = Len(a) /\ Len(B) = Len(b) /\ Len(C) = Len(A) + Len(B)
  BY ConcatProperties
<1>3. \A i \in 1..Len(C) : C[i] = (A \o B)[i]
  <2> TAKE i \in 1..Len(C)
  <2>1. C[i] = f[(a \o b)[i]]
    BY <1>2, ConcatProperties
  <2>2. CASE i <= Len(a)
    <3>1. (a \o b)[i] = a[i] /\ A[i] = f[a[i]]
      BY <1>2, <2>2, ConcatProperties
    <3> HIDE DEF A, B, C
    <3>2. (A \o B)[i] = A[i]
      BY <1>1, <1>2, <2>2, ConcatProperties
    <3> QED BY <2>1, <3>1, <3>2
  <2>3. CASE i > Len(a)
    <3>1. (a \o b)[i] = b[i - Len(a)] /\ B[i - Len(a)] = f[b[i - Len(a)]]
      BY <1>2, <2>3, ConcatProperties
    <3>2. i \in 1..Len(A) + Len(B) /\ ~(i <= Len(A))
      BY <1>2, <2>3, LenProperties
    <3> HIDE DEF A, B, C
    <3>3. (A \o B)[i] = B[i - Len(A)]
      BY ONLY <1>1, <3>2, ConcatProperties
    <3> QED BY <1>2, <2>1, <3>1, <3>3
  <2>4. Len(a) \in Nat /\ i \in Nat
    BY <1>2, LenProperties
  <2> QED BY <2>2, <2>3, <2>4
<1>4. C = A \o B
  <2> HIDE DEF A, B, C
  <2>1. A \o B \in Seq(Seq(T)) /\ Len(A \o B) = Len(A) + Len(B)
    BY ONLY <1>1, ConcatProperties
  <2> QED BY ONLY <1>1, <1>2, <1>3, <2>1, SeqEqual
<1> HIDE DEF A, B, C
<1>5. FlattenSeq(C) = FlattenSeq(A) \o FlattenSeq(B)
  BY <1>1, <1>4, FlattenConcat
<1> QED BY <1>5 DEF Each, A, B, C

(* The same with ++. *)
LEMMA EachCat ==
  ASSUME NEW T, NEW U, NEW f \in Codes(U, T), NEW a \in Str(U), NEW b \in Str(U)
  PROVE  Each(f, a ++ b) = Each(f, a) ++ Each(f, b)
BY EachConcatenated DEF Str, ++

(* The same with Str. *)
LEMMA EachType ==
  ASSUME NEW T, NEW U, NEW f \in Codes(U, T), NEW s \in Str(U)
  PROVE  Each(f, s) \in Str(T)
BY EachTyped DEF Str

(* A function that keeps each element keeps the sequence. *)
LEMMA EachSame ==
  ASSUME NEW T, NEW f \in Codes(T, T), NEW s \in Seq(T),
         \A k \in 1..Len(s) : f[s[k]] = <<s[k]>>
  PROVE  Each(f, s) = s
<1> DEFINE S == {n \in Nat : n <= Len(s) => Each(f, SubSeq(s, 1, n)) = SubSeq(s, 1, n)}
<1>1. 0 \in S
  <2>1. SubSeq(s, 1, 0) = <<>>
    BY SubSeqEmpty
  <2> QED BY <2>1, EachEmpty
<1>2. ASSUME NEW n \in Nat, n \in S PROVE n + 1 \in S
  <2> SUFFICES ASSUME n + 1 <= Len(s)
               PROVE  Each(f, SubSeq(s, 1, n + 1)) = SubSeq(s, 1, n + 1)
    OBVIOUS
  <2>1. SubSeq(s, 1, n + 1) = SubSeq(s, 1, n) \o <<s[n + 1]>>
    BY LenProperties, SubSeqRecursiveSecond
  <2>2. SubSeq(s, 1, n) \in Seq(T) /\ s[n + 1] \in T /\ <<s[n + 1]>> \in Seq(T)
    BY LenProperties, SubSeqProperties
  <2>3. Each(f, SubSeq(s, 1, n)) = SubSeq(s, 1, n)
    BY <1>2, LenProperties
  <2>4. Each(f, <<s[n + 1]>>) = <<s[n + 1]>>
    <3>1. f[s[n + 1]] = <<s[n + 1]>>
      BY LenProperties
    <3> QED BY <2>2, <3>1, EachOne
  <2>5. Each(f, SubSeq(s, 1, n) \o <<s[n + 1]>>) = Each(f, SubSeq(s, 1, n)) \o Each(f, <<s[n + 1]>>)
    <3>1. \A x, y \in Seq(T) : Each(f, x \o y) = Each(f, x) \o Each(f, y)
      BY EachConcatenated
    <3> QED BY ONLY <2>2, <3>1
  <2> QED BY <2>1, <2>3, <2>4, <2>5
<1>3. Nat \subseteq S
  <2> HIDE DEF S
  <2> QED BY <1>1, <1>2, NatSetInduction
<1>4. Len(s) \in S
  BY <1>3, LenProperties
<1>5. Each(f, SubSeq(s, 1, Len(s))) = SubSeq(s, 1, Len(s))
  BY <1>4, LenProperties
<1> QED BY <1>5, SubSeqFull

(* A sequence with one element everywhere. *)
LEMMA SameSeq ==
  ASSUME NEW n \in Nat, NEW S, NEW e \in S
  PROVE  [k \in 1..n |-> e] \in Seq(S)
OBVIOUS

(* A function that drops each element leaves nothing. *)
LEMMA EachNothing ==
  ASSUME NEW f, NEW U, NEW s \in Seq(U), \A k \in 1..Len(s) : f[s[k]] = <<>>
  PROVE  Each(f, s) = <<>>
<1>1. [k \in 1..Len(s) |-> f[s[k]]] \in Seq(Seq({}))
  <2>1. Len(s) \in Nat /\ <<>> \in Seq({})
    BY LenProperties, EmptySeq
  <2>2. [k \in 1..Len(s) |-> f[s[k]]] = [k \in 1..Len(s) |-> <<>>]
    OBVIOUS
  <2>3. [k \in 1..Len(s) |-> <<>>] \in Seq(Seq({}))
    BY ONLY <2>1, SameSeq
  <2> QED BY <2>2, <2>3
<1>2. Each(f, s) \in Seq({})
  BY <1>1, FlattenType DEF Each
<1> QED BY <1>2

(* The least of a set of numbers. *)
LEMMA MinIs ==
  ASSUME NEW S \in SUBSET Nat, S # {}
  PROVE  Min(S) \in S /\ \A y \in S : Min(S) <= y
<1>1. PICK x \in S : \A y \in S : ~ (<<y, x>> \in OpToRel(<, Nat))
  BY NatLessThanWellFounded, WFMin
<1>2. ASSUME NEW y \in S PROVE x <= y
  <2>1. x \in Nat /\ y \in Nat /\ ~(<<y, x>> \in OpToRel(<, Nat))
    BY <1>1
  <2> QED BY <2>1 DEF OpToRel
<1> QED BY <1>2 DEF Min

-----------------------------------------------------------------------------
(* What chat_send writes: data lines. *)
(* A text of one line. *)
NoBreak(s) == \A k \in 1..Len(s) : s[k] # "\n"

(* What frames are written with. *)
Framing == {"data:", "event:", "tool", "done", "error", " ", "\n", "label", "failure"}

(* The characters of the framing, one by one. *)
LEMMA FramingIn ==
  ASSUME NEW T, Framing \subseteq T
  PROVE  /\ "data:" \in T /\ "event:" \in T /\ " " \in T /\ "\n" \in T
         /\ "tool" \in T /\ "done" \in T /\ "error" \in T
         /\ "label" \in T /\ "failure" \in T
BY DEF Framing

(* Two characters are two strings of one. *)
LEMMA TwoAreCat ==
  ASSUME NEW T, NEW x \in T, NEW y \in T
  PROVE  <<x, y>> \in Str(T) /\ <<x, y>> = <<x>> ++ <<y>>
<1>1. <<x>> \in Seq(T)
  OBVIOUS
<1>2. Append(<<x>>, y) \in Seq(T)
  BY <1>1, AppendProperties
<1>3. Append(<<x>>, y) = <<x>> \o <<y>>
  BY <1>1, AppendIsConcat
<1>4. <<x, y>> = Append(<<x>>, y)
  OBVIOUS
<1> QED BY ONLY <1>2, <1>3, <1>4 DEF Str, ++

(* Three characters are a string of one and one of two. *)
LEMMA ThreeAreCat ==
  ASSUME NEW T, NEW x \in T, NEW y \in T, NEW z \in T
  PROVE  <<x, y, z>> \in Str(T) /\ <<x, y, z>> = <<x>> ++ <<y, z>>
<1>1. <<x, y>> \in Seq(T) /\ <<x, y>> = <<x>> ++ <<y>> /\ <<y, z>> = <<y>> ++ <<z>>
  BY TwoAreCat DEF Str
<1>2. Append(<<x, y>>, z) \in Seq(T)
  BY <1>1, AppendProperties
<1>3. Append(<<x, y>>, z) = <<x, y>> \o <<z>>
  BY <1>1, AppendIsConcat
<1>4. <<x, y, z>> = Append(<<x, y>>, z)
  OBVIOUS
<1>5. <<x, y, z>> \in Str(T) /\ <<x, y, z>> = <<x, y>> ++ <<z>>
  BY ONLY <1>2, <1>3, <1>4 DEF Str, ++
<1>6. (<<x>> ++ <<y>>) ++ <<z>> = <<x>> ++ (<<y>> ++ <<z>>)
  BY StrOne, CatAssoc
<1> QED BY ONLY <1>1, <1>5, <1>6

(* A line break, and the field name of a data line. *)
Break1 == <<"\n">>
DataField == <<"data:", " ">>

(* The fixed parts of a frame are strings. *)
LEMMA FieldsTyped ==
  ASSUME NEW T, Framing \subseteq T
  PROVE  /\ Break1 \in Str(T) /\ DataField \in Str(T)
         /\ <<"\n", "\n">> = Break1 ++ Break1
         /\ <<"\n", "data:", " ">> = Break1 ++ DataField
<1>1. "data:" \in T /\ " " \in T /\ "\n" \in T
  BY FramingIn
<1> QED BY <1>1, StrOne, TwoAreCat, ThreeAreCat DEF Break1, DataField

(* What Encoded writes for a character. *)
EncodedCode(T) == [c \in T |-> IF c = "\n" THEN <<"\n", "data:", " ">> ELSE <<c>>]

(* Encoded replaces character by character. *)
LEMMA EncodedIs ==
  ASSUME NEW T, Framing \subseteq T
  PROVE  /\ EncodedCode(T) \in Codes(T, T)
         /\ \A s \in Str(T) : Encoded(s) = Each(EncodedCode(T), s) /\ Encoded(s) \in Str(T)
<1>1. EncodedCode(T) \in Codes(T, T)
  <2>1. <<"\n", "data:", " ">> \in Seq(T)
    BY FieldsTyped, CatType DEF Str
  <2>2. \A c \in T : <<c>> \in Seq(T)
    OBVIOUS
  <2> QED BY <2>1, <2>2 DEF EncodedCode, Codes
<1>2. ASSUME NEW s \in Str(T) PROVE Encoded(s) = Each(EncodedCode(T), s)
  <2>1. \A k \in 1..Len(s) : s[k] \in T
    BY StrLen
  <2>2. \A k \in 1..Len(s) : EncodedCode(T)[s[k]] =
          IF s[k] = "\n" THEN <<"\n", "data:", " ">> ELSE <<s[k]>>
    BY <2>1 DEF EncodedCode
  <2> QED BY <2>2 DEF Encoded, Each
<1> QED BY <1>1, <1>2, EachType

(* A text without a line break is its own encoding. *)
LEMMA EncodedLine ==
  ASSUME NEW T, Framing \subseteq T, NEW u \in Str(T), NoBreak(u)
  PROVE  Encoded(u) = u
<1>1. \A k \in 1..Len(u) : EncodedCode(T)[u[k]] = <<u[k]>>
  BY StrLen DEF EncodedCode, NoBreak
<1>2. Each(EncodedCode(T), u) = u
  BY <1>1, EncodedIs, EachSame DEF Str
<1> QED BY <1>2, EncodedIs

(* The encoding of a text, up to its first line break and after it. *)
LEMMA EncodedBreak ==
  ASSUME NEW T, Framing \subseteq T, NEW u \in Str(T), NoBreak(u), NEW v \in Str(T)
  PROVE  Encoded(u ++ (Break1 ++ v)) = u ++ ((Break1 ++ DataField) ++ Encoded(v))
<1> DEFINE f == EncodedCode(T)
<1>1. f \in Codes(T, T) /\ Break1 \in Str(T) /\ DataField \in Str(T)
  BY EncodedIs, FieldsTyped
<1>2. Each(f, Break1) = Break1 ++ DataField
  <2>1. \A c \in T : Each(f, <<c>>) = f[c]
    BY <1>1, EachOne
  <2>2. "\n" \in T /\ f["\n"] = <<"\n", "data:", " ">>
    BY FramingIn DEF EncodedCode
  <2> HIDE DEF f
  <2>3. Each(f, <<"\n">>) = <<"\n", "data:", " ">>
    BY ONLY <2>1, <2>2
  <2> QED BY <2>3, FieldsTyped DEF Break1
<1>3. Break1 ++ v \in Str(T) /\ u ++ (Break1 ++ v) \in Str(T)
  BY <1>1, CatType
<1>4. Encoded(u ++ (Break1 ++ v)) = Each(f, u ++ (Break1 ++ v)) /\ Encoded(v) = Each(f, v)
      /\ Each(f, u) = u
  BY <1>3, EncodedIs, EncodedLine
<1> HIDE DEF f
<1>5. Each(f, u ++ (Break1 ++ v)) = Each(f, u) ++ (Each(f, Break1) ++ Each(f, v))
  BY <1>1, <1>3, EachCat
<1> QED BY <1>2, <1>4, <1>5

(* The frame of a text without a line break has one data line. *)
LEMMA FrameLine ==
  ASSUME NEW T, Framing \subseteq T, NEW u \in Str(T), NoBreak(u)
  PROVE  DataFrame(u) = (DataField ++ u) ++ (Break1 ++ Break1)
<1>1. DataFrame(u) = (DataField ++ Encoded(u)) ++ <<"\n", "\n">>
  BY DEF DataFrame, DataField, ++
<1> QED BY <1>1, FieldsTyped, EncodedLine

(* The frame of a text with a line break: its first data line, and the frame of
   what follows. *)
LEMMA FrameBreak ==
  ASSUME NEW T, Framing \subseteq T, NEW u \in Str(T), NoBreak(u), NEW v \in Str(T)
  PROVE  DataFrame(u ++ (Break1 ++ v)) = (DataField ++ u) ++ (Break1 ++ DataFrame(v))
<1> DEFINE s == u ++ (Break1 ++ v)
<1>1. /\ Break1 \in Str(T) /\ DataField \in Str(T) /\ Encoded(v) \in Str(T)
      /\ Break1 ++ Break1 \in Str(T)
  BY FieldsTyped, EncodedIs, CatType
<1>2. \A t : DataFrame(t) = (DataField ++ Encoded(t)) ++ <<"\n", "\n">>
  BY DEF DataFrame, DataField, ++
<1>3. DataFrame(v) = (DataField ++ Encoded(v)) ++ (Break1 ++ Break1)
  BY <1>2, FieldsTyped
<1>4. DataFrame(s) = (DataField ++ (u ++ ((Break1 ++ DataField) ++ Encoded(v)))) ++ (Break1 ++ Break1)
  BY <1>2, FieldsTyped, EncodedBreak
<1> HIDE DEF s
<1>5. (DataField ++ (u ++ ((Break1 ++ DataField) ++ Encoded(v)))) ++ (Break1 ++ Break1)
      = (DataField ++ u) ++ (Break1 ++ ((DataField ++ Encoded(v)) ++ (Break1 ++ Break1)))
  BY <1>1, CatType, CatAssoc
<1> QED BY <1>3, <1>4, <1>5 DEF s

(* A frame is a string. *)
LEMMA FrameTyped ==
  ASSUME NEW T, Framing \subseteq T, NEW v \in Str(T)
  PROVE  DataFrame(v) \in Str(T)
<1>1. DataFrame(v) = (DataField ++ Encoded(v)) ++ <<"\n", "\n">>
  BY DEF DataFrame, DataField, ++
<1>2. <<"\n", "\n">> \in Str(T) /\ DataField \in Str(T) /\ Encoded(v) \in Str(T)
  BY FieldsTyped, EncodedIs, CatType
<1> QED BY <1>1, <1>2, CatType

-----------------------------------------------------------------------------
(* Frames and the events they carry. *)
(* The events of a response, with texts over T. *)
Kinds == {"message", "tool", "done", "error"}
Events(T) == [event : Kinds, data : Str(T)]

(* The line that names the kind of an event, and the bytes of an event. *)
EventLine(kind) == <<"event:", kind>>

EventBytes(e) ==
  IF e.event = "message" THEN DataFrame(e.data)
  ELSE EventLine(e.event) ++ (Break1 ++ DataFrame(e.data))

(* What an event is written as, and what it says. *)
BytesCode(T) == [e \in Events(T) |-> EventBytes(e)]

SaidCode(T) == [e \in Events(T) |-> IF e.event = "message" THEN e.data ELSE <<>>]

(* The event line of a frame is a string. *)
LEMMA EventLineTyped ==
  ASSUME NEW T, Framing \subseteq T, NEW k \in Kinds, k # "message"
  PROVE  /\ EventLine(k) \in Str(T)
         /\ <<"event:", k, "\n">> = EventLine(k) ++ Break1
<1>1. "event:" \in T /\ k \in T /\ "\n" \in T
  BY FramingIn DEF Kinds
<1>2. <<"event:", k, "\n">> = <<"event:">> ++ <<k, "\n">>
  BY <1>1, ThreeAreCat
<1>3. <<k, "\n">> = <<k>> ++ <<"\n">> /\ EventLine(k) = <<"event:">> ++ <<k>> /\ EventLine(k) \in Str(T)
  BY <1>1, TwoAreCat DEF EventLine
<1>4. (<<"event:">> ++ <<k>>) ++ <<"\n">> = <<"event:">> ++ (<<k>> ++ <<"\n">>)
  BY <1>1, StrOne, CatAssoc
<1> QED BY ONLY <1>2, <1>3, <1>4 DEF Break1

(* EventBytes is what Bytes writes for one event. *)
LEMMA EventBytesTyped ==
  ASSUME NEW T, Framing \subseteq T, NEW e \in Events(T)
  PROVE  /\ EventBytes(e) \in Str(T)
         /\ (IF e.event = "message" THEN <<>> ELSE <<"event:", e.event, "\n">>) \o DataFrame(e.data)
            = EventBytes(e)
<1>1. e.event \in Kinds /\ e.data \in Str(T) /\ DataFrame(e.data) \in Str(T) /\ Break1 \in Str(T)
  BY FrameTyped, FieldsTyped DEF Events
<1>2. CASE e.event = "message"
  BY <1>1, <1>2, CatEmpty DEF EventBytes, ++
<1>3. CASE e.event # "message"
  <2>1. /\ EventLine(e.event) \in Str(T)
        /\ <<"event:", e.event, "\n">> = EventLine(e.event) ++ Break1
    BY <1>1, <1>3, EventLineTyped
  <2>2. (EventLine(e.event) ++ Break1) ++ DataFrame(e.data)
        = EventLine(e.event) ++ (Break1 ++ DataFrame(e.data))
    BY <1>1, <2>1, CatAssoc
  <2>3. EventLine(e.event) ++ (Break1 ++ DataFrame(e.data)) \in Str(T)
    BY <1>1, <2>1, CatType
  <2>4. EventBytes(e) = EventLine(e.event) ++ (Break1 ++ DataFrame(e.data))
    BY <1>3 DEF EventBytes
  <2>5. (IF e.event = "message" THEN <<>> ELSE <<"event:", e.event, "\n">>) \o DataFrame(e.data)
        = (EventLine(e.event) ++ Break1) ++ DataFrame(e.data)
    BY <1>3, <2>1 DEF ++
  <2> QED BY ONLY <2>2, <2>3, <2>4, <2>5
<1> QED BY <1>2, <1>3

(* Bytes writes event by event. *)
LEMMA BytesIs ==
  ASSUME NEW T, Framing \subseteq T
  PROVE  /\ BytesCode(T) \in Codes(Events(T), T)
         /\ \A es \in Str(Events(T)) : Bytes(es) = Each(BytesCode(T), es) /\ Bytes(es) \in Str(T)
<1>1. BytesCode(T) \in Codes(Events(T), T)
  <2>1. \A e \in Events(T) : EventBytes(e) \in Seq(T)
    BY EventBytesTyped DEF Str
  <2> QED BY <2>1 DEF BytesCode, Codes
<1>2. ASSUME NEW es \in Str(Events(T)) PROVE Bytes(es) = Each(BytesCode(T), es)
  <2>1. \A k \in 1..Len(es) : es[k] \in Events(T)
    BY StrLen
  <2>2. \A k \in 1..Len(es) : BytesCode(T)[es[k]] =
          (IF es[k].event = "message" THEN <<>> ELSE <<"event:", es[k].event, "\n">>)
             \o DataFrame(es[k].data)
    BY <2>1, EventBytesTyped DEF BytesCode
  <2> QED BY <2>2 DEF Bytes, Each
<1> QED BY <1>1, <1>2, EachType

(* What the events say is said event by event. *)
LEMMA SaidIs ==
  ASSUME NEW T
  PROVE  SaidCode(T) \in Codes(Events(T), T)
BY StrEmpty DEF SaidCode, Codes, Events, Str

(* A sequence that is not empty has a first element. *)
LEMMA FirstOf ==
  ASSUME NEW T, NEW s \in Str(T), s # <<>>
  PROVE  \E x \in T, r \in Str(T) : s = <<x>> ++ r
<1>1. Len(s) \in Nat /\ Len(s) # 0 /\ s[1] \in T
  BY StrLen
<1>2. 1 \in 0..Len(s)
  BY <1>1
<1>3. /\ SubSeq(s, 1, 1) \in Str(T) /\ SubSeq(s, 1 + 1, Len(s)) \in Str(T)
      /\ s = SubSeq(s, 1, 1) ++ SubSeq(s, 1 + 1, Len(s))
  BY <1>2, CutAt
<1>4. SubSeq(s, 1, 1) = <<s[1]>>
  <2>1. Len(SubSeq(s, 1, 1)) = 1
    BY <1>2, CutAt
  <2>2. SubSeq(s, 1, 1)[1] = s[1]
    BY <1>1, SubSeqProperties DEF Str
  <2>3. Len(<<s[1]>>) = 1 /\ <<s[1]>>[1] = s[1] /\ <<s[1]>> \in Str(T)
    BY <1>1, StrOne
  <2>4. \A i \in 1..1 : SubSeq(s, 1, 1)[i] = <<s[1]>>[i]
    BY ONLY <2>2, <2>3
  <2>5. SubSeq(s, 1, 1) \in Str(T) /\ Len(SubSeq(s, 1, 1)) = Len(<<s[1]>>)
    BY ONLY <1>3, <2>1, <2>3
  <2> HIDE DEF Str
  <2> QED BY <2>1, <2>3, <2>4, <2>5, StrEqual
<1> QED BY <1>1, <1>3, <1>4

(* The bytes of one event and of those after it. *)
LEMMA BytesFirst ==
  ASSUME NEW T, Framing \subseteq T, NEW e \in Events(T), NEW es \in Str(Events(T))
  PROVE  /\ Bytes(<<e>> ++ es) = EventBytes(e) ++ Bytes(es)
         /\ Each(SaidCode(T), <<e>> ++ es)
            = (IF e.event = "message" THEN e.data ELSE <<>>) ++ Each(SaidCode(T), es)
<1>1. <<e>> \in Str(Events(T)) /\ <<e>> ++ es \in Str(Events(T))
  BY StrOne, CatType
<1>2. Bytes(<<e>> ++ es) = Each(BytesCode(T), <<e>>) ++ Bytes(es)
  BY <1>1, BytesIs, EachCat
<1>3. Each(BytesCode(T), <<e>>) = EventBytes(e)
  BY BytesIs, EachOne DEF BytesCode
<1>4. Each(SaidCode(T), <<e>>) = IF e.event = "message" THEN e.data ELSE <<>>
  BY SaidIs, EachOne DEF SaidCode
<1>5. Each(SaidCode(T), <<e>> ++ es) = Each(SaidCode(T), <<e>>) ++ Each(SaidCode(T), es)
  BY <1>1, SaidIs, EachCat
<1> QED BY <1>2, <1>3, <1>4, <1>5

(* The first line of what has arrived is the first line of all that is due. *)
LEMMA FirstLine ==
  ASSUME NEW T, NEW buf \in Str(T), NEW rest \in Str(T),
         NEW u \in Str(T), NEW v \in Str(T), NoBreak(u), Break1 \in Str(T),
         buf ++ rest = u ++ (Break1 ++ v),
         {k \in 1..Len(buf) : buf[k] = "\n"} # {}
  PROVE  LET end == Min({k \in 1..Len(buf) : buf[k] = "\n"})
         IN  /\ SubSeq(buf, 1, end - 1) = u
             /\ SubSeq(buf, end + 1, Len(buf)) \in Str(T)
             /\ SubSeq(buf, end + 1, Len(buf)) ++ rest = v
<1> DEFINE E == {k \in 1..Len(buf) : buf[k] = "\n"}
           end == Min(E)
           all == u ++ (Break1 ++ v)
           tail == SubSeq(buf, end + 1, Len(buf))
           n == Len(u)
<1>1. /\ Len(buf) \in Nat /\ Len(rest) \in Nat /\ n \in Nat /\ Len(v) \in Nat
      /\ Len(Break1) = 1 /\ Break1[1] = "\n"
  BY StrLen DEF Break1
<1>2. end \in E /\ \A k \in E : end <= k
  <2>1. E \in SUBSET Nat /\ E # {}
    BY <1>1
  <2> HIDE DEF E
  <2> QED BY ONLY <2>1, MinIs DEF end
<1>3. /\ \A i \in 1..Len(buf) : all[i] = buf[i]
      /\ \A i \in 1..Len(rest) : all[Len(buf) + i] = rest[i]
      /\ Len(all) = Len(buf) + Len(rest)
  <2>1. /\ Len(buf ++ rest) = Len(buf) + Len(rest)
        /\ \A i \in 1..Len(buf) + Len(rest) :
              (buf ++ rest)[i] = IF i <= Len(buf) THEN buf[i] ELSE rest[i - Len(buf)]
    BY CatAt
  <2>2. all = buf ++ rest
    OBVIOUS
  <2> HIDE DEF all
  <2>3. /\ Len(all) = Len(buf) + Len(rest)
        /\ \A i \in 1..Len(buf) + Len(rest) :
              all[i] = IF i <= Len(buf) THEN buf[i] ELSE rest[i - Len(buf)]
    BY ONLY <2>1, <2>2
  <2> QED BY ONLY <1>1, <2>3
<1>4. /\ \A i \in 1..n : all[i] = u[i]
      /\ all[n + 1] = "\n"
      /\ \A i \in 1..Len(v) : all[n + 1 + i] = v[i]
      /\ Len(all) = n + 1 + Len(v)
  <2>1. Break1 ++ v \in Str(T) /\ Len(Break1 ++ v) = 1 + Len(v)
    BY <1>1, CatType, CatAt
  <2>2. \A i \in 1..1 + Len(v) : (Break1 ++ v)[i] = IF i <= 1 THEN Break1[i] ELSE v[i - 1]
    <3>1. \A i \in 1..Len(Break1) + Len(v) :
            (Break1 ++ v)[i] = IF i <= Len(Break1) THEN Break1[i] ELSE v[i - Len(Break1)]
      BY CatAt
    <3> QED BY ONLY <1>1, <3>1
  <2>3. /\ Len(all) = n + (1 + Len(v))
        /\ \A i \in 1..n + (1 + Len(v)) :
              all[i] = IF i <= n THEN u[i] ELSE (Break1 ++ v)[i - n]
    BY <2>1, CatAt
  <2> HIDE DEF all, n
  <2>4. \A i \in 1..n : all[i] = u[i]
    BY ONLY <1>1, <2>3
  <2>5. all[n + 1] = "\n"
    <3>1. n + 1 \in 1..n + (1 + Len(v)) /\ ~(n + 1 <= n) /\ n + 1 - n = 1 /\ 1 \in 1..1 + Len(v)
      BY ONLY <1>1
    <3> QED BY ONLY <1>1, <2>2, <2>3, <3>1
  <2>6. ASSUME NEW i \in 1..Len(v) PROVE all[n + 1 + i] = v[i]
    <3>1. /\ n + 1 + i \in 1..n + (1 + Len(v)) /\ ~(n + 1 + i <= n)
          /\ n + 1 + i - n = 1 + i /\ 1 + i \in 1..1 + Len(v) /\ ~(1 + i <= 1) /\ 1 + i - 1 = i
      BY ONLY <1>1
    <3> DEFINE j == n + 1 + i
    <3>2. j \in 1..n + (1 + Len(v)) /\ ~(j <= n) /\ j - n = 1 + i
      BY ONLY <1>1, <3>1
    <3> HIDE DEF j
    <3>4. all[j] = (Break1 ++ v)[j - n]
      BY ONLY <2>3, <3>2
    <3>5. all[n + 1 + i] = (Break1 ++ v)[1 + i]
      BY ONLY <3>2, <3>4 DEF j
    <3>3. (Break1 ++ v)[1 + i] = v[i]
      BY ONLY <2>2, <3>1
    <3> QED BY ONLY <3>3, <3>5
  <2> QED BY ONLY <1>1, <2>3, <2>4, <2>5, <2>6
<1> HIDE DEF all
<1>5. end = n + 1
  <2>1. end \in 1..Len(buf) /\ all[end] = "\n"
    BY <1>2, <1>3
  <2>2. ~(end <= n)
    BY <1>1, <1>4, <2>1 DEF NoBreak
  <2>3. n + 1 \in E
    BY <1>1, <1>3, <1>4, <2>1, <2>2
  <2> HIDE DEF end, E
  <2> QED BY <1>1, <1>2, <2>1, <2>2, <2>3
<1>6. n + 1 <= Len(buf)
  BY <1>2, <1>5
<1> HIDE DEF end, E
<1>7. SubSeq(buf, 1, end - 1) = u
  <2>1. n \in 0..Len(buf) /\ end - 1 = n
    BY <1>1, <1>5, <1>6
  <2>2. SubSeq(buf, 1, n) \in Str(T) /\ Len(SubSeq(buf, 1, n)) = n
    BY <2>1, CutAt
  <2>3. \A i \in 1..n : SubSeq(buf, 1, n)[i] = u[i]
    <3> TAKE i \in 1..n
    <3>1. SubSeq(buf, 1, n)[i] = buf[i]
      BY <1>1, <1>6
    <3>2. i \in 1..Len(buf)
      BY <1>1, <1>6
    <3> QED BY <1>3, <1>4, <3>1, <3>2
  <2> QED BY <2>1, <2>2, <2>3, StrEqual
<1>8. tail \in Str(T) /\ Len(tail) = Len(buf) - (n + 1)
  <2>1. n + 1 \in 0..Len(buf)
    BY <1>1, <1>6
  <2> QED BY <1>5, <2>1, CutAt
<1>9. tail ++ rest = v
  <2>1. tail ++ rest \in Str(T) /\ Len(tail ++ rest) = Len(v)
    <3>1. tail ++ rest \in Str(T) /\ Len(tail ++ rest) = Len(tail) + Len(rest)
      BY <1>8, CatType, CatAt
    <3> HIDE DEF tail, n
    <3>3. /\ Len(buf) \in Nat /\ Len(rest) \in Nat /\ n \in Nat /\ Len(v) \in Nat
          /\ Len(all) = Len(buf) + Len(rest) /\ Len(all) = n + 1 + Len(v)
          /\ Len(tail) = Len(buf) - (n + 1)
      BY <1>1, <1>3, <1>4, <1>8
    <3>2. Len(tail) + Len(rest) = Len(v)
      BY ONLY <3>3
    <3> QED BY ONLY <3>1, <3>2
  <2>2. \A i \in 1..Len(tail) : tail[i] = buf[n + 1 + i]
    BY <1>1, <1>5, <1>6, <1>8
  <2>3. \A i \in 1..Len(v) : (tail ++ rest)[i] = v[i]
    <3> TAKE i \in 1..Len(v)
    <3> HIDE DEF tail
    <3>1. i \in 1..Len(tail) + Len(rest) /\ Len(tail) \in Nat
      BY <1>1, <1>3, <1>4, <1>6, <1>8
    <3>2. (tail ++ rest)[i] = IF i <= Len(tail) THEN tail[i] ELSE rest[i - Len(tail)]
      BY <1>8, <3>1, CatAt
    <3>3. v[i] = all[n + 1 + i]
      BY <1>4
    <3>4. CASE i <= Len(tail)
      <4>1. i \in 1..Len(tail) /\ n + 1 + i \in 1..Len(buf)
        BY <1>1, <1>6, <1>8, <3>1, <3>4
      <4> QED BY <1>3, <2>2, <3>2, <3>3, <3>4, <4>1
    <3>5. CASE ~(i <= Len(tail))
      <4>1. i - Len(tail) \in 1..Len(rest) /\ Len(buf) + (i - Len(tail)) = n + 1 + i
        BY <1>1, <1>6, <1>8, <3>1, <3>5
      <4> QED BY <1>3, <3>2, <3>3, <3>5, <4>1
    <3> QED BY <3>4, <3>5
  <2> HIDE DEF tail
  <2> QED BY <2>1, <2>3, StrEqual
<1> QED BY <1>7, <1>8, <1>9 DEF end, E

-----------------------------------------------------------------------------
(* Where two texts meet: no placeholder across the seam. *)
(* What stands at the two ends of a sequence. *)
Ends(s, y) == Len(s) >= 1 /\ s[Len(s)] = y
EndsWith(s, x, y) == Len(s) >= 2 /\ s[Len(s) - 1] = x /\ s[Len(s)] = y
Starts(s, x) == Len(s) >= 1 /\ s[1] = x
StartsWith(s, x, y) == Len(s) >= 2 /\ s[1] = x /\ s[2] = y

(* No placeholder with an inside of N lies across the end of a. *)
SafeSeam(N, a, b) ==
  \A x \in N :
    /\ ~(Ends(a, "[") /\ StartsWith(b, x, "]"))
    /\ ~(EndsWith(a, "[", x) /\ Starts(b, "]"))

(* An entry of the table whose original does not become a placeholder. *)
Entry(T, N, e) ==
  /\ e.tag = <<"[", e.tag[2], "]">> /\ e.tag[2] \in N
  /\ e.original \in Str(T) /\ e.original # <<>>
  /\ e.original[1] \notin N \cup {"]"}

(* An original that ends in no open placeholder. *)
Closed(N, e) ==
  /\ ~Ends(e.original, "[")
  /\ \A x \in N : ~EndsWith(e.original, "[", x)

(* The insides of placeholders are no brackets. *)
NoBrackets(N) == "[" \notin N /\ "]" \notin N

(* The lengths of two strings and of both. *)
LEMMA LengthTyped ==
  ASSUME NEW T, NEW a \in Str(T), NEW b \in Str(T)
  PROVE  /\ Len(a) \in Nat /\ Len(b) \in Nat /\ a ++ b \in Str(T)
         /\ Len(a ++ b) = Len(a) + Len(b)
BY CatAt, CatType

(* The characters of the first of two strings. *)
LEMMA CatLeft ==
  ASSUME NEW T, NEW a \in Str(T), NEW b \in Str(T), NEW i \in 1..Len(a)
  PROVE  (a ++ b)[i] = a[i]
<1>1. Len(a) \in Nat /\ Len(b) \in Nat
  BY StrLen
<1>2. i \in 1..Len(a) + Len(b) /\ i <= Len(a)
  BY <1>1
<1> QED BY <1>2, CatAt

(* The characters of the second. *)
LEMMA CatRight ==
  ASSUME NEW T, NEW a \in Str(T), NEW b \in Str(T), NEW i \in 1..Len(b)
  PROVE  (a ++ b)[Len(a) + i] = b[i]
<1>1. Len(a) \in Nat /\ Len(b) \in Nat
  BY StrLen
<1> DEFINE j == Len(a) + i
<1>2. j \in 1..Len(a) + Len(b) /\ ~(j <= Len(a)) /\ j - Len(a) = i
  BY <1>1
<1> HIDE DEF j
<1>3. (a ++ b)[j] = b[i]
  BY <1>2, CatAt
<1> QED BY <1>3 DEF j

(* How two strings end. *)
LEMMA EndsCat ==
  ASSUME NEW T, NEW a \in Str(T), NEW b \in Str(T), b # <<>>, NEW x, NEW y
  PROVE  /\ Ends(a ++ b, y) <=> Ends(b, y)
         /\ Len(b) >= 2 => (EndsWith(a ++ b, x, y) <=> EndsWith(b, x, y))
         /\ Len(b) = 1 => (EndsWith(a ++ b, x, y) <=> Ends(a, x) /\ b[1] = y)
<1>1. Len(a) \in Nat /\ Len(b) \in Nat /\ Len(b) >= 1 /\ Len(a ++ b) = Len(a) + Len(b)
  BY LengthTyped, StrLen
<1>2. (a ++ b)[Len(a ++ b)] = b[Len(b)]
  <2>1. Len(b) \in 1..Len(b)
    BY <1>1
  <2> QED BY <1>1, <2>1, CatRight
<1>3. ASSUME Len(b) >= 2 PROVE (a ++ b)[Len(a ++ b) - 1] = b[Len(b) - 1]
  <2>1. Len(b) - 1 \in 1..Len(b) /\ Len(a ++ b) - 1 = Len(a) + (Len(b) - 1)
    BY <1>1, <1>3
  <2>2. (a ++ b)[Len(a) + (Len(b) - 1)] = b[Len(b) - 1]
    BY <2>1, CatRight
  <2> QED BY <2>1, <2>2
<1>4. ASSUME Len(b) = 1, Len(a) >= 1 PROVE (a ++ b)[Len(a ++ b) - 1] = a[Len(a)]
  <2>1. Len(a) \in 1..Len(a) /\ Len(a ++ b) - 1 = Len(a)
    BY <1>1, <1>4
  <2> QED BY <2>1, CatLeft
<1>5. Ends(a ++ b, y) <=> Ends(b, y)
  BY <1>1, <1>2 DEF Ends
<1>6. Len(b) >= 2 => (EndsWith(a ++ b, x, y) <=> EndsWith(b, x, y))
  BY <1>1, <1>2, <1>3 DEF EndsWith
<1>7. Len(b) = 1 => (EndsWith(a ++ b, x, y) <=> Ends(a, x) /\ b[1] = y)
  BY <1>1, <1>2, <1>4 DEF EndsWith, Ends
<1> QED BY <1>5, <1>6, <1>7

(* How two strings start. *)
LEMMA StartsCat ==
  ASSUME NEW T, NEW a \in Str(T), NEW b \in Str(T), a # <<>>, NEW x, NEW y
  PROVE  /\ Starts(a ++ b, x) <=> Starts(a, x)
         /\ Len(a) = 1 => (StartsWith(a ++ b, x, y) <=> a[1] = x /\ Starts(b, y))
<1>1. Len(a) \in Nat /\ Len(b) \in Nat /\ Len(a) >= 1 /\ Len(a ++ b) = Len(a) + Len(b)
  BY LengthTyped, StrLen
<1>2. (a ++ b)[1] = a[1]
  <2>1. 1 \in 1..Len(a)
    BY <1>1
  <2> QED BY <2>1, CatLeft
<1>3. ASSUME Len(a) = 1, Len(b) >= 1 PROVE (a ++ b)[2] = b[1]
  <2>1. 1 \in 1..Len(b) /\ Len(a) + 1 = 2
    BY <1>1, <1>3
  <2>2. (a ++ b)[Len(a) + 1] = b[1]
    BY <2>1, CatRight
  <2> QED BY <2>1, <2>2
<1>4. Starts(a ++ b, x) <=> Starts(a, x)
  BY <1>1, <1>2 DEF Starts
<1>5. Len(a) = 1 => (StartsWith(a ++ b, x, y) <=> a[1] = x /\ Starts(b, y))
  BY <1>1, <1>2, <1>3 DEF StartsWith, Starts
<1> QED BY <1>4, <1>5

(* A placeholder at i, character by character. *)
LEMMA TagAtIs ==
  ASSUME NEW T, NEW s \in Str(T), NEW i \in Int, NEW e, e.tag = <<"[", e.tag[2], "]">>
  PROVE  TagAt(e, s, i) <=> /\ i >= 1 /\ i + 2 <= Len(s)
                            /\ s[i] = "[" /\ s[i + 1] = e.tag[2] /\ s[i + 2] = "]"
<1>1. Len(s) \in Nat /\ s \in Seq(T)
  BY StrLen DEF Str
<1>2. i \in 1..Len(s) - 2 <=> i >= 1 /\ i + 2 <= Len(s)
  BY <1>1
<1>3. ASSUME i >= 1, i + 2 <= Len(s)
      PROVE  SubSeq(s, i, i + 2) = e.tag
               <=> s[i] = "[" /\ s[i + 1] = e.tag[2] /\ s[i + 2] = "]"
  <2> DEFINE q == SubSeq(s, i, i + 2)
             x == e.tag[2]
  <2>1. q \in Seq(T) /\ Len(q) = 3
    BY <1>1, <1>3, SubSeqProperties
  <2>2. q[1] = s[i] /\ q[2] = s[i + 1] /\ q[3] = s[i + 2]
    <3>1. \A k \in 1..3 : q[k] = s[i + k - 1]
      BY <1>1, <1>3, SubSeqProperties
    <3> QED BY <3>1
  <2> HIDE DEF q, x
  <2>3. q = <<"[", x, "]">> <=> q[1] = "[" /\ q[2] = x /\ q[3] = "]"
    <3>1. q = <<"[", x, "]">> => q[1] = "[" /\ q[2] = x /\ q[3] = "]"
      OBVIOUS
    <3>2. ASSUME q[1] = "[", q[2] = x, q[3] = "]" PROVE q = <<"[", x, "]">>
      BY <2>1, <3>2
    <3> QED BY <3>1, <3>2
  <2>4. e.tag = <<"[", x, "]">>
    BY DEF x
  <2> QED BY ONLY <2>2, <2>3, <2>4 DEF q, x
<1> QED BY <1>2, <1>3 DEF TagAt

-----------------------------------------------------------------------------
(* str.replace of one placeholder. *)
(* What replace writes for the character at i. *)
PutAt(e, s, i) ==
  IF TagAt(e, s, i) THEN e.original
  ELSE IF TagAt(e, s, i - 1) \/ TagAt(e, s, i - 2) THEN <<>>
  ELSE <<s[i]>>

(* What replace writes for every character. *)
PutParts(e, s) == [i \in 1..Len(s) |-> PutAt(e, s, i)]

(* Put flattens its parts. *)
LEMMA PutIs == ASSUME NEW e, NEW s PROVE Put(e, s) = FlattenSeq(PutParts(e, s))
BY DEF Put, PutParts, PutAt

(* Each part of Put is a string. *)
LEMMA PutPartsTyped ==
  ASSUME NEW T, NEW s \in Str(T), NEW e, e.original \in Str(T)
  PROVE  PutParts(e, s) \in Seq(Seq(T)) /\ Len(PutParts(e, s)) = Len(s)
<1>1. Len(s) \in Nat
  BY StrLen
<1>2. ASSUME NEW i \in 1..Len(s) PROVE PutAt(e, s, i) \in Seq(T)
  <2>1. s[i] \in T /\ e.original \in Seq(T)
    BY StrLen DEF Str
  <2> QED BY <2>1 DEF PutAt
<1>3. PutParts(e, s) \in [1..Len(s) -> Seq(T)]
  BY <1>2 DEF PutParts
<1> QED BY <1>1, <1>3

(* Put of a string is a string. *)
LEMMA PutTyped ==
  ASSUME NEW T, NEW s \in Str(T), NEW e, e.original \in Str(T)
  PROVE  Put(e, s) \in Str(T)
BY PutPartsTyped, PutIs, FlattenType DEF Str

(* There is no placeholder in the empty text. *)
LEMMA PutEmpty == ASSUME NEW e PROVE Put(e, <<>>) = <<>>
<1>1. PutParts(e, <<>>) = <<>>
  BY DEF PutParts
<1> QED BY <1>1, PutIs, FlattenEmpty

(* A placeholder lies in a ++ b where it lies in a or in b. *)
LEMMA TagInCat ==
  ASSUME NEW T, NEW N, NEW e, Entry(T, N, e), NEW a \in Str(T), NEW b \in Str(T),
         SafeSeam(N, a, b), NEW i \in Int
  PROVE  TagAt(e, a ++ b, i) <=> TagAt(e, a, i) \/ TagAt(e, b, i - Len(a))
<1> DEFINE s == a ++ b
           x == e.tag[2]
<1>1. /\ Len(a) \in Nat /\ Len(b) \in Nat /\ s \in Str(T) /\ Len(s) = Len(a) + Len(b)
      /\ e.tag = <<"[", x, "]">> /\ x \in N /\ i - Len(a) \in Int
  <2>1. /\ Len(a) \in Nat /\ Len(b) \in Nat /\ s \in Str(T) /\ Len(s) = Len(a) + Len(b)
    BY LengthTyped
  <2>2. e.tag = <<"[", x, "]">> /\ x \in N
    BY DEF Entry
  <2>3. i - Len(a) \in Int
    BY <2>1
  <2> QED BY ONLY <2>1, <2>2, <2>3
<1>2. \A k \in 1..Len(a) : s[k] = a[k]
  BY CatLeft
<1>3. \A k \in 1..Len(b) : s[Len(a) + k] = b[k]
  BY CatRight
<1>4. TagAt(e, s, i) <=> i >= 1 /\ i + 2 <= Len(s) /\ s[i] = "[" /\ s[i + 1] = x /\ s[i + 2] = "]"
  BY <1>1, TagAtIs
<1>5. TagAt(e, a, i) <=> i >= 1 /\ i + 2 <= Len(a) /\ a[i] = "[" /\ a[i + 1] = x /\ a[i + 2] = "]"
  BY <1>1, TagAtIs
<1> DEFINE j == i - Len(a)
<1>6. TagAt(e, b, j) <=> j >= 1 /\ j + 2 <= Len(b) /\ b[j] = "[" /\ b[j + 1] = x /\ b[j + 2] = "]"
  BY <1>1, TagAtIs
<1> HIDE DEF s, x
<1>7. CASE i + 2 <= Len(a)
  <2>1. i >= 1 => i \in 1..Len(a) /\ i + 1 \in 1..Len(a) /\ i + 2 \in 1..Len(a)
    BY <1>1, <1>7
  <2>2. ~(j >= 1) /\ i + 2 <= Len(s)
    BY <1>1, <1>7
  <2> HIDE DEF j
  <2> QED BY <1>2, <1>4, <1>5, <1>6, <1>7, <2>1, <2>2 DEF s, j
<1>8. CASE i > Len(a)
  <2>1. /\ i = Len(a) + j /\ i + 1 = Len(a) + (j + 1) /\ i + 2 = Len(a) + (j + 2)
        /\ i >= 1 /\ j >= 1 /\ (i + 2 <= Len(s) <=> j + 2 <= Len(b)) /\ ~(i + 2 <= Len(a))
    BY <1>1, <1>8
  <2>2. j + 2 <= Len(b) => j \in 1..Len(b) /\ j + 1 \in 1..Len(b) /\ j + 2 \in 1..Len(b)
    BY <1>1, <1>8
  <2>3. j + 2 <= Len(b) => s[i] = b[j] /\ s[i + 1] = b[j + 1] /\ s[i + 2] = b[j + 2]
    BY <1>3, <2>1, <2>2
  <2> HIDE DEF j
  <2> QED BY <1>4, <1>5, <1>6, <2>1, <2>3 DEF s, j
<1>9. CASE i = Len(a)
  <2>1. ~(i + 2 <= Len(a)) /\ ~(j >= 1)
    BY <1>1, <1>9
  <2>2. ~TagAt(e, s, i)
    <3> SUFFICES ASSUME TagAt(e, s, i) PROVE FALSE
      OBVIOUS
    <3>1. 1 \in 1..Len(b) /\ 2 \in 1..Len(b) /\ i \in 1..Len(a) /\ Len(b) >= 2 /\ Len(a) >= 1
      BY <1>1, <1>4, <1>9
    <3>2. a[Len(a)] = "[" /\ b[1] = x /\ b[2] = "]"
      BY <1>2, <1>3, <1>4, <1>9, <3>1
    <3>3. Ends(a, "[") /\ StartsWith(b, x, "]")
      BY <3>1, <3>2 DEF Ends, StartsWith
    <3> QED BY <1>1, <3>3 DEF SafeSeam
  <2> HIDE DEF j
  <2> QED BY <1>5, <1>6, <2>1, <2>2 DEF s, j
<1>10. CASE i + 1 = Len(a)
  <2>1. ~(i + 2 <= Len(a)) /\ ~(j >= 1)
    BY <1>1, <1>10
  <2>2. ~TagAt(e, s, i)
    <3> SUFFICES ASSUME TagAt(e, s, i) PROVE FALSE
      OBVIOUS
    <3>1. /\ 1 \in 1..Len(b) /\ i \in 1..Len(a) /\ i + 1 \in 1..Len(a) /\ Len(b) >= 1 /\ Len(a) >= 2
          /\ i = Len(a) - 1 /\ i + 2 = Len(a) + 1
      BY <1>1, <1>4, <1>10
    <3>2. a[Len(a) - 1] = "[" /\ a[Len(a)] = x /\ b[1] = "]"
      BY <1>2, <1>3, <1>4, <1>10, <3>1
    <3>3. EndsWith(a, "[", x) /\ Starts(b, "]")
      BY <3>1, <3>2 DEF EndsWith, Starts
    <3> QED BY <1>1, <3>3 DEF SafeSeam
  <2> HIDE DEF j
  <2> QED BY <1>5, <1>6, <2>1, <2>2 DEF s, j
<1> QED BY <1>1, <1>7, <1>8, <1>9, <1>10 DEF s

(* Put works on both sides of a safe seam by itself. *)
LEMMA PutCat ==
  ASSUME NEW T, NEW N, NEW e, Entry(T, N, e), NEW a \in Str(T), NEW b \in Str(T),
         SafeSeam(N, a, b)
  PROVE  Put(e, a ++ b) = Put(e, a) ++ Put(e, b)
<1> DEFINE A == PutParts(e, a)
           B == PutParts(e, b)
           C == PutParts(e, a ++ b)
<1>1. /\ Len(a) \in Nat /\ Len(b) \in Nat /\ Len(a ++ b) = Len(a) + Len(b)
      /\ a ++ b \in Str(T) /\ e.original \in Str(T)
  BY LengthTyped DEF Entry
<1>2. /\ A \in Seq(Seq(T)) /\ Len(A) = Len(a) /\ B \in Seq(Seq(T)) /\ Len(B) = Len(b)
      /\ C \in Seq(Seq(T)) /\ Len(C) = Len(a) + Len(b)
  BY <1>1, PutPartsTyped
<1>3. \A i \in Int : TagAt(e, a ++ b, i) <=> TagAt(e, a, i) \/ TagAt(e, b, i - Len(a))
  BY TagInCat
<1>4. \A i \in Int : TagAt(e, a, i) => i >= 1 /\ i + 2 <= Len(a)
  BY <1>1 DEF TagAt
<1>5. \A i \in Int : TagAt(e, b, i) => i >= 1
  BY <1>1 DEF TagAt
<1>6. ASSUME NEW i \in 1..Len(a) PROVE C[i] = A[i]
  <2>1. i \in Int /\ i - 1 \in Int /\ i - 2 \in Int /\ i \in 1..Len(a ++ b) /\ (a ++ b)[i] = a[i]
    BY <1>1, CatLeft
  <2>2. /\ ~(i - Len(a) >= 1) /\ ~(i - 1 - Len(a) >= 1) /\ ~(i - 2 - Len(a) >= 1)
        /\ i - Len(a) \in Int /\ i - 1 - Len(a) \in Int /\ i - 2 - Len(a) \in Int
    BY <1>1
  <2>3. /\ TagAt(e, a ++ b, i) <=> TagAt(e, a, i)
        /\ TagAt(e, a ++ b, i - 1) <=> TagAt(e, a, i - 1)
        /\ TagAt(e, a ++ b, i - 2) <=> TagAt(e, a, i - 2)
    BY ONLY <1>3, <1>5, <2>1, <2>2
  <2>4. PutAt(e, a ++ b, i) = PutAt(e, a, i)
    BY <2>1, <2>3 DEF PutAt
  <2> QED BY <2>1, <2>4 DEF PutParts
<1>7. ASSUME NEW k \in 1..Len(b) PROVE C[Len(a) + k] = B[k]
  <2> DEFINE i == Len(a) + k
  <2>1. i \in Int /\ i - 1 \in Int /\ i - 2 \in Int /\ i \in 1..Len(a ++ b)
        /\ k \in Int /\ k - 1 \in Int /\ k - 2 \in Int
        /\ i - Len(a) = k /\ i - 1 - Len(a) = k - 1 /\ i - 2 - Len(a) = k - 2
    BY <1>1
  <2>2. ~(i + 2 <= Len(a)) /\ ~(i - 1 + 2 <= Len(a)) /\ ~(i - 2 + 2 <= Len(a))
    BY <1>1
  <2>3. (a ++ b)[i] = b[k]
    BY CatRight
  <2> HIDE DEF i
  <2>4. /\ TagAt(e, a ++ b, i) <=> TagAt(e, b, k)
        /\ TagAt(e, a ++ b, i - 1) <=> TagAt(e, b, k - 1)
        /\ TagAt(e, a ++ b, i - 2) <=> TagAt(e, b, k - 2)
    BY ONLY <1>3, <1>4, <2>1, <2>2
  <2>5. PutAt(e, a ++ b, i) = PutAt(e, b, k)
    BY <2>3, <2>4 DEF PutAt
  <2>6. C[i] = B[k]
    BY <2>1, <2>5 DEF PutParts
  <2> QED BY <2>6 DEF i
<1> HIDE DEF A, B, C
<1>8. /\ A ++ B \in Str(Seq(T)) /\ Len(A ++ B) = Len(A) + Len(B)
      /\ \A i \in 1..Len(A) + Len(B) : (A ++ B)[i] = IF i <= Len(A) THEN A[i] ELSE B[i - Len(A)]
  <2>1. A \in Str(Seq(T)) /\ B \in Str(Seq(T))
    BY <1>2 DEF Str
  <2> QED BY <2>1, CatAt, CatType
<1>9. C = A ++ B
  <2>1. ASSUME NEW i \in 1..Len(C) PROVE C[i] = (A ++ B)[i]
    <3>1. CASE i <= Len(a)
      <4>1. i \in 1..Len(a) /\ i \in 1..Len(A) + Len(B) /\ i <= Len(A)
        BY <1>1, <1>2, <3>1
      <4>2. (A ++ B)[i] = A[i]
        BY <1>8, <4>1
      <4> QED BY <1>6, <4>1, <4>2
    <3>2. CASE ~(i <= Len(a))
      <4> DEFINE k == i - Len(a)
      <4>1. k \in 1..Len(b) /\ Len(a) + k = i
        BY <1>1, <1>2, <3>2
      <4> HIDE DEF k
      <4>2. C[i] = B[k]
        BY <1>7, <4>1
      <4>3. (A ++ B)[i] = B[k]
        BY <1>2, <1>8, <3>2 DEF k
      <4> QED BY <4>2, <4>3
    <3> QED BY <3>1, <3>2
  <2>2. C \in Str(Seq(T)) /\ Len(C) = Len(A ++ B)
    BY <1>2, <1>8 DEF Str
  <2> QED BY <1>8, <2>1, <2>2, StrEqual
<1>10. FlattenSeq(C) = FlattenSeq(A) \o FlattenSeq(B)
  BY <1>2, <1>9, FlattenConcat DEF ++
<1> QED BY <1>10, PutIs DEF A, B, C, ++

(* The last element and what is before it; the first and what is after it. *)
LEMMA LastOf ==
  ASSUME NEW T, NEW s \in Str(T), s # <<>>
  PROVE  \E r \in Str(T), y \in T : s = r ++ <<y>> /\ Len(r) = Len(s) - 1
<1>1. Len(s) \in Nat /\ Len(s) >= 1 /\ s[Len(s)] \in T
  BY StrLen
<1> DEFINE n == Len(s) - 1
           r == SubSeq(s, 1, n)
           q == SubSeq(s, n + 1, Len(s))
<1>2. n \in 0..Len(s) /\ Len(s) - n = 1
  BY <1>1
<1> HIDE DEF n
<1>3. r \in Str(T) /\ q \in Str(T) /\ s = r ++ q /\ Len(r) = n /\ Len(q) = Len(s) - n
  BY <1>2, CutAt
<1> HIDE DEF r, q
<1>4. PICK y \in T, z \in Str(T) : q = <<y>> ++ z
  <2>1. q # <<>>
    BY <1>2, <1>3, StrLen
  <2>2. q \in Str(T)
    BY <1>3
  <2> QED BY ONLY <2>1, <2>2, FirstOf
<1>5. Len(<<y>> ++ z) = Len(<<y>>) + Len(z) /\ Len(<<y>>) = 1 /\ Len(z) \in Nat
  BY StrOne, CatAt
<1>6. Len(z) = 0
  BY <1>2, <1>3, <1>4, <1>5
<1>7. q = <<y>>
  <2>1. z = <<>>
    BY <1>6, StrLen
  <2> QED BY <1>4, <2>1, StrOne, CatEmpty
<1> QED BY <1>3, <1>7 DEF n

(* A placeholder becomes its original. *)
LEMMA PutTag ==
  ASSUME NEW T, NEW N, NEW e, Entry(T, N, e), e.tag \in Str(T), NoBrackets(N)
  PROVE  Put(e, e.tag) = e.original
<1> DEFINE t == e.tag
           x == e.tag[2]
<1>1. t = <<"[", x, "]">> /\ e.original \in Str(T)
  BY DEF Entry
<1>2. Len(t) = 3 /\ t[1] = "[" /\ t[2] = x /\ t[3] = "]"
  BY <1>1
<1> HIDE DEF t, x
<1>3. ASSUME NEW i \in Int PROVE TagAt(e, t, i) <=> i = 1
  <2>1. e.tag = <<"[", e.tag[2], "]">>
    BY DEF Entry
  <2>2. TagAt(e, t, i) <=> /\ i >= 1 /\ i + 2 <= Len(t)
                            /\ t[i] = "[" /\ t[i + 1] = e.tag[2] /\ t[i + 2] = "]"
    BY <2>1, TagAtIs DEF t
  <2> QED BY <1>2, <2>2 DEF x
<1>4. PutParts(e, t) = <<e.original, <<>>, <<>>>>
  <2>1. PutAt(e, t, 1) = e.original /\ PutAt(e, t, 2) = <<>> /\ PutAt(e, t, 3) = <<>>
    BY <1>3 DEF PutAt
  <2> QED BY <1>2, <2>1 DEF PutParts
<1>5. FlattenSeq(<<e.original, <<>>, <<>>>>) = e.original
  <2>1. e.original \in Seq(T) /\ <<>> \in Seq(T)
    BY <1>1 DEF Str
  <2>2. /\ <<e.original>> \in Seq(Seq(T)) /\ <<e.original, <<>>>> \in Seq(Seq(T))
        /\ <<e.original, <<>>>> = Append(<<e.original>>, <<>>)
        /\ <<e.original, <<>>, <<>>>> = Append(<<e.original, <<>>>>, <<>>)
    BY <2>1
  <2>3. FlattenSeq(<<e.original, <<>>>>) = FlattenSeq(<<e.original>>) \o <<>>
    BY <2>1, <2>2, FlattenAppend
  <2>4. FlattenSeq(<<e.original, <<>>, <<>>>>) = FlattenSeq(<<e.original, <<>>>>) \o <<>>
    BY <2>1, <2>2, FlattenAppend
  <2>5. FlattenSeq(<<e.original>>) = e.original
    BY <2>1, FlattenOne
  <2>6. e.original \o <<>> = e.original
    BY <2>1, ConcatEmptySeq
  <2> QED BY ONLY <2>3, <2>4, <2>5, <2>6
<1> QED BY <1>4, <1>5, PutIs DEF t

(* A single character stays. *)
LEMMA PutOther ==
  ASSUME NEW T, NEW e, e.tag = <<"[", e.tag[2], "]">>, NEW y \in T
  PROVE  Put(e, <<y>>) = <<y>>
<1>1. <<y>> \in Str(T) /\ Len(<<y>>) = 1 /\ <<y>>[1] = y
  BY StrOne
<1>2. \A i \in Int : ~TagAt(e, <<y>>, i)
  BY <1>1 DEF TagAt
<1>3. PutAt(e, <<y>>, 1) = <<y>>
  BY <1>1, <1>2 DEF PutAt
<1>4. PutParts(e, <<y>>) = << <<y>> >>
  BY <1>1, <1>3 DEF PutParts
<1>5. FlattenSeq(<< <<y>> >>) = <<y>>
  BY <1>1, FlattenOne DEF Str
<1> QED BY <1>4, <1>5, PutIs

(* A placeholder at the end, or a character that is kept. *)
LEMMA PutRight ==
  ASSUME NEW T, NEW N, NEW e, Entry(T, N, e), NoBrackets(N), NEW s \in Str(T), s # <<>>
  PROVE  \/ \E r \in Str(T) : /\ s = r ++ e.tag /\ e.tag \in Str(T)
                              /\ Put(e, s) = Put(e, r) ++ e.original
         \/ \E r \in Str(T), y \in T : s = r ++ <<y>> /\ Put(e, s) = Put(e, r) ++ <<y>>
<1>1. Len(s) \in Nat /\ Len(s) >= 1
  BY StrLen
<1>2. e.tag = <<"[", e.tag[2], "]">> /\ e.tag[2] \in N
  BY DEF Entry
<1>3. Len(e.tag) = 3 /\ e.tag[1] = "[" /\ e.tag[3] = "]"
  <2> DEFINE x == e.tag[2]
             t == <<"[", x, "]">>
  <2>1. e.tag = t
    BY <1>2
  <2> HIDE DEF x
  <2>2. Len(t) = 3 /\ t[1] = "[" /\ t[3] = "]"
    OBVIOUS
  <2> HIDE DEF t
  <2> QED BY ONLY <2>1, <2>2
<1>4. CASE TagAt(e, s, Len(s) - 2)
  <2> DEFINE n == Len(s) - 3
             r == SubSeq(s, 1, n)
             q == SubSeq(s, n + 1, Len(s))
  <2>1. n \in 0..Len(s) /\ n + 1 = Len(s) - 2 /\ Len(s) = Len(s) - 2 + 2
    BY <1>1, <1>4 DEF TagAt
  <2>2. q = e.tag
    BY <1>4, <2>1 DEF TagAt
  <2> HIDE DEF n
  <2>3. r \in Str(T) /\ q \in Str(T) /\ s = r ++ q
    BY <2>1, CutAt
  <2> HIDE DEF r, q
  <2>4. SafeSeam(N, r, q)
    <3>1. Len(q) = 3 /\ q[1] = "[" /\ "[" \notin N
      BY <1>3, <2>2 DEF NoBrackets
    <3> QED BY <3>1 DEF SafeSeam, StartsWith, Starts
  <2>5. Put(e, r ++ q) = Put(e, r) ++ Put(e, q)
    BY <2>3, <2>4, PutCat
  <2>6. Put(e, q) = e.original
    BY <2>2, <2>3, PutTag
  <2> QED BY <2>2, <2>3, <2>5, <2>6
<1>5. CASE ~TagAt(e, s, Len(s) - 2)
  <2>1. PICK r \in Str(T), y \in T : s = r ++ <<y>> /\ Len(r) = Len(s) - 1
    BY LastOf
  <2>2. <<y>> \in Str(T) /\ Len(<<y>>) = 1 /\ Len(r) \in Nat
    BY <2>1, StrOne, StrLen
  <2>3. e.original # <<>>
    BY DEF Entry
  <2>4. Put(e, s) = Put(e, r) ++ <<y>>
    <3> DEFINE P == SafeSeam({e.tag[2]}, r, <<y>>)
    <3>1. P
      <4>1. ~StartsWith(<<y>>, e.tag[2], "]")
        BY <2>2 DEF StartsWith
      <4>2. ASSUME EndsWith(r, "[", e.tag[2]), Starts(<<y>>, "]") PROVE FALSE
        <5>1. /\ Len(r) >= 2 /\ r[Len(r) - 1] = "[" /\ r[Len(r)] = e.tag[2] /\ y = "]"
          BY <4>2, <2>2 DEF EndsWith, Starts
        <5>2. /\ Len(r) - 1 \in 1..Len(r) /\ Len(r) \in 1..Len(r) /\ 1 \in 1..Len(<<y>>)
          BY <2>2, <5>1
        <5>3. s[Len(r) - 1] = "[" /\ s[Len(r)] = e.tag[2]
          <6>1. /\ (r ++ <<y>>)[Len(r) - 1] = r[Len(r) - 1]
                /\ (r ++ <<y>>)[Len(r)] = r[Len(r)]
            BY <2>2, <5>2, CatLeft
          <6> QED BY <2>1, <5>1, <6>1
        <5>4. s[Len(r) + 1] = "]"
          <6>1. (r ++ <<y>>)[Len(r) + 1] = <<y>>[1]
            BY <2>2, <5>2, CatRight
          <6> QED BY <2>1, <5>1, <6>1
        <5> DEFINE i == Len(s) - 2
        <5>5. i = Len(r) - 1 /\ i + 1 = Len(r) /\ i + 2 = Len(r) + 1 /\ i \in Int
              /\ i >= 1 /\ i + 2 <= Len(s)
          BY <1>1, <2>1, <2>2, <5>1
        <5> HIDE DEF i
        <5>6. s[i] = "[" /\ s[i + 1] = e.tag[2] /\ s[i + 2] = "]"
          BY <5>3, <5>4, <5>5
        <5>7. TagAt(e, s, i)
          BY <1>2, <5>5, <5>6, TagAtIs
        <5> QED BY <1>5, <5>7 DEF i
      <4> QED BY <4>1, <4>2 DEF SafeSeam
    <3>2. Entry(T, {e.tag[2]} , e) \/ e.original[1] = e.tag[2]
      BY DEF Entry
    <3>3. e.original[1] # e.tag[2]
      BY DEF Entry
    <3>4. Entry(T, {e.tag[2]} , e)
      BY <3>2, <3>3
    <3> HIDE DEF P
    <3>5. Put(e, r ++ <<y>>) = Put(e, r) ++ Put(e, <<y>>)
      BY <2>2, <3>1, <3>4, PutCat DEF P
    <3>6. Put(e, <<y>>) = <<y>>
      BY <1>2, PutOther
    <3> QED BY <2>1, <3>5, <3>6
  <2> QED BY <2>1, <2>4
<1> QED BY <1>4, <1>5

(* A placeholder at the start, or a character that is kept. *)
LEMMA PutLeft ==
  ASSUME NEW T, NEW N, NEW e, Entry(T, N, e), NoBrackets(N), NEW s \in Str(T), s # <<>>
  PROVE  \/ \E r \in Str(T) : s = e.tag ++ r /\ Put(e, s) = e.original ++ Put(e, r)
         \/ \E r \in Str(T), y \in T : s = <<y>> ++ r /\ Put(e, s) = <<y>> ++ Put(e, r)
<1>1. Len(s) \in Nat /\ Len(s) >= 1
  BY StrLen
<1>2. e.tag = <<"[", e.tag[2], "]">> /\ e.tag[2] \in N
  BY DEF Entry
<1>3. Len(e.tag) = 3 /\ e.tag[1] = "[" /\ e.tag[3] = "]"
  <2> DEFINE x == e.tag[2]
             t == <<"[", x, "]">>
  <2>1. e.tag = t
    BY <1>2
  <2> HIDE DEF x
  <2>2. Len(t) = 3 /\ t[1] = "[" /\ t[3] = "]"
    OBVIOUS
  <2> HIDE DEF t
  <2> QED BY ONLY <2>1, <2>2
<1>4. CASE TagAt(e, s, 1)
  <2> DEFINE q == SubSeq(s, 1, 3)
             r == SubSeq(s, 3 + 1, Len(s))
  <2>1. 3 \in 0..Len(s)
    BY <1>1, <1>4 DEF TagAt
  <2>2. q = e.tag
    BY <1>4 DEF TagAt
  <2>3. r \in Str(T) /\ q \in Str(T) /\ s = q ++ r
    BY <2>1, CutAt
  <2> HIDE DEF r, q
  <2>4. SafeSeam(N, q, r)
    <3>1. Len(q) = 3 /\ q[3] = "]" /\ "]" \notin N
      BY <1>3, <2>2 DEF NoBrackets
    <3> QED BY <3>1 DEF SafeSeam, EndsWith, Ends
  <2>5. Put(e, q ++ r) = Put(e, q) ++ Put(e, r)
    BY <2>3, <2>4, PutCat
  <2>6. Put(e, q) = e.original
    BY <2>2, <2>3, PutTag
  <2> QED BY <2>2, <2>3, <2>5, <2>6
<1>5. CASE ~TagAt(e, s, 1)
  <2>1. PICK y \in T, r \in Str(T) : s = <<y>> ++ r
    BY FirstOf
  <2>2. <<y>> \in Str(T) /\ Len(<<y>>) = 1 /\ <<y>>[1] = y /\ Len(r) \in Nat
    BY StrOne, StrLen
  <2>3. Put(e, s) = <<y>> ++ Put(e, r)
    <3> DEFINE P == SafeSeam({e.tag[2]}, <<y>>, r)
    <3>1. P
      <4>1. ~EndsWith(<<y>>, "[", e.tag[2])
        BY <2>2 DEF EndsWith
      <4>2. ASSUME Ends(<<y>>, "["), StartsWith(r, e.tag[2], "]") PROVE FALSE
        <5>1. y = "[" /\ Len(r) >= 2 /\ r[1] = e.tag[2] /\ r[2] = "]"
          BY <4>2, <2>2 DEF StartsWith, Ends
        <5>2. 1 \in 1..Len(<<y>>) /\ 1 \in 1..Len(r) /\ 2 \in 1..Len(r)
          BY <2>2, <5>1
        <5>3. s[1] = y
          BY <2>1, <2>2, <5>2, CatLeft
        <5>4. (<<y>> ++ r)[Len(<<y>>) + 1] = r[1] /\ (<<y>> ++ r)[Len(<<y>>) + 2] = r[2]
          <6> DEFINE w == <<y>>
          <6>2. w \in Str(T)
            BY <2>2
          <6> HIDE DEF w
          <6>3. \A i \in 1..Len(r) : (w ++ r)[Len(w) + i] = r[i]
            BY <6>2, CatRight
          <6>1. \A i \in 1..Len(r) : (<<y>> ++ r)[Len(<<y>>) + i] = r[i]
            BY <6>3 DEF w
          <6> QED BY <5>2, <6>1
        <5>5. s[2] = e.tag[2] /\ s[3] = "]"
          <6>1. Len(<<y>>) + 1 = 2 /\ Len(<<y>>) + 2 = 3
            BY <2>2
          <6> QED BY <2>1, <5>1, <5>4, <6>1
        <5>6. Len(s) = 1 + Len(r)
          BY <2>1, <2>2, CatAt
        <5>7. 1 \in Int /\ 1 >= 1 /\ 1 + 2 <= Len(s) /\ 1 + 1 = 2 /\ 1 + 2 = 3
          BY <2>2, <5>1, <5>6
        <5>8. TagAt(e, s, 1)
          BY <1>2, <5>1, <5>3, <5>5, <5>7, TagAtIs
        <5> QED BY <1>5, <5>8
      <4> QED BY <4>1, <4>2 DEF SafeSeam
    <3>2. Entry(T, {e.tag[2]} , e)
      BY DEF Entry
    <3> HIDE DEF P
    <3>5. Put(e, <<y>> ++ r) = Put(e, <<y>>) ++ Put(e, r)
      BY <2>2, <3>1, <3>2, PutCat DEF P
    <3>6. Put(e, <<y>>) = <<y>>
      BY <1>2, PutOther
    <3> QED BY <2>1, <3>5, <3>6
  <2> QED BY <2>1, <2>3
<1> QED BY <1>4, <1>5

(* What opens a placeholder at an end of the result opened it before. *)
LEMMA PutStarts ==
  ASSUME NEW T, NEW N, NEW e, Entry(T, N, e), NoBrackets(N), NEW s \in Str(T)
  PROVE  /\ Starts(Put(e, s), "]") => Starts(s, "]")
         /\ \A x \in N : StartsWith(Put(e, s), x, "]") => StartsWith(s, x, "]")
<1>1. /\ e.original \in Str(T) /\ e.original # <<>> /\ e.original[1] # "]"
      /\ \A x \in N : e.original[1] # x
  BY DEF Entry
<1>2. \A r \in Str(T) : Starts(Put(e, r), "]") => Starts(r, "]")
  <2> SUFFICES ASSUME NEW r \in Str(T), Starts(Put(e, r), "]") PROVE Starts(r, "]")
    OBVIOUS
  <2>1. r # <<>>
    <3>1. ~Starts(<<>>, "]")
      BY DEF Starts
    <3> QED BY <3>1, PutEmpty
  <2>2. ASSUME NEW q \in Str(T), Put(e, r) = e.original ++ Put(e, q) PROVE FALSE
    <3>1. Put(e, q) \in Str(T)
      BY <1>1, PutTyped
    <3>2. Starts(e.original ++ Put(e, q), "]") <=> Starts(e.original, "]")
      BY <1>1, <3>1, StartsCat
    <3> QED BY <1>1, <2>2, <3>2 DEF Starts
  <2>3. ASSUME NEW q \in Str(T), NEW y \in T, r = <<y>> ++ q, Put(e, r) = <<y>> ++ Put(e, q)
        PROVE  Starts(r, "]")
    <3>1. Put(e, q) \in Str(T) /\ <<y>> \in Str(T) /\ <<y>> # <<>>
      BY <1>1, PutTyped, StrOne
    <3>2. Starts(<<y>> ++ Put(e, q), "]") <=> Starts(<<y>>, "]")
      BY <3>1, StartsCat
    <3>3. Starts(<<y>> ++ q, "]") <=> Starts(<<y>>, "]")
      BY <3>1, StartsCat
    <3> QED BY <2>3, <3>2, <3>3
  <2>4. \/ \E q \in Str(T) : r = e.tag ++ q /\ Put(e, r) = e.original ++ Put(e, q)
        \/ \E q \in Str(T), y \in T : r = <<y>> ++ q /\ Put(e, r) = <<y>> ++ Put(e, q)
    BY <2>1, PutLeft
  <2> QED BY <2>2, <2>3, <2>4
<1>3. ASSUME NEW x \in N, StartsWith(Put(e, s), x, "]") PROVE StartsWith(s, x, "]")
  <2>1. s # <<>>
    <3>1. ~StartsWith(<<>>, x, "]")
      BY DEF StartsWith
    <3> QED BY <1>3, <3>1, PutEmpty
  <2>2. ASSUME NEW q \in Str(T), Put(e, s) = e.original ++ Put(e, q) PROVE FALSE
    <3>1. Put(e, q) \in Str(T) /\ Starts(Put(e, s), x)
      BY <1>1, <1>3, PutTyped DEF StartsWith, Starts
    <3>2. Starts(e.original ++ Put(e, q), x) <=> Starts(e.original, x)
      BY <1>1, <3>1, StartsCat
    <3> QED BY <1>1, <2>2, <3>1, <3>2 DEF Starts
  <2>3. ASSUME NEW q \in Str(T), NEW y \in T, s = <<y>> ++ q, Put(e, s) = <<y>> ++ Put(e, q)
        PROVE  StartsWith(s, x, "]")
    <3>1. Put(e, q) \in Str(T) /\ <<y>> \in Str(T) /\ <<y>> # <<>> /\ Len(<<y>>) = 1
      BY <1>1, PutTyped, StrOne
    <3>2. StartsWith(<<y>> ++ Put(e, q), x, "]") <=> <<y>>[1] = x /\ Starts(Put(e, q), "]")
      BY <3>1, StartsCat
    <3>3. StartsWith(<<y>> ++ q, x, "]") <=> <<y>>[1] = x /\ Starts(q, "]")
      BY <3>1, StartsCat
    <3> QED BY <1>2, <1>3, <2>3, <3>2, <3>3
  <2>4. \/ \E q \in Str(T) : s = e.tag ++ q /\ Put(e, s) = e.original ++ Put(e, q)
        \/ \E q \in Str(T), y \in T : s = <<y>> ++ q /\ Put(e, s) = <<y>> ++ Put(e, q)
    BY <2>1, PutLeft
  <2> QED BY <2>2, <2>3, <2>4
<1> QED BY <1>2, <1>3

(* What opens a placeholder at the end of the result opened it before, unless an
   original ends so. *)
LEMMA PutEnds ==
  ASSUME NEW T, NEW N, NEW e, Entry(T, N, e), Closed(N, e), NoBrackets(N), NEW s \in Str(T)
  PROVE  /\ Ends(Put(e, s), "[") => Ends(s, "[")
         /\ \A x \in N : EndsWith(Put(e, s), "[", x) => EndsWith(s, "[", x)
<1>1. /\ e.original \in Str(T) /\ e.original # <<>>
      /\ \A x \in N : e.original[1] # x
  BY DEF Entry
<1>2. \A r \in Str(T) : Ends(Put(e, r), "[") => Ends(r, "[")
  <2> SUFFICES ASSUME NEW r \in Str(T), Ends(Put(e, r), "[") PROVE Ends(r, "[")
    OBVIOUS
  <2>1. r # <<>>
    <3>1. ~Ends(<<>>, "[")
      BY DEF Ends
    <3> QED BY <3>1, PutEmpty
  <2>2. ASSUME NEW q \in Str(T), Put(e, r) = Put(e, q) ++ e.original PROVE FALSE
    <3>1. Put(e, q) \in Str(T)
      BY <1>1, PutTyped
    <3>2. Ends(Put(e, q) ++ e.original, "[") <=> Ends(e.original, "[")
      BY <1>1, <3>1, EndsCat
    <3> QED BY <2>2, <3>2 DEF Closed
  <2>3. ASSUME NEW q \in Str(T), NEW y \in T, r = q ++ <<y>>, Put(e, r) = Put(e, q) ++ <<y>>
        PROVE  Ends(r, "[")
    <3>1. Put(e, q) \in Str(T) /\ <<y>> \in Str(T) /\ <<y>> # <<>>
      BY <1>1, PutTyped, StrOne
    <3>2. Ends(Put(e, q) ++ <<y>>, "[") <=> Ends(<<y>>, "[")
      BY <3>1, EndsCat
    <3>3. Ends(q ++ <<y>>, "[") <=> Ends(<<y>>, "[")
      BY <3>1, EndsCat
    <3> QED BY <2>3, <3>2, <3>3
  <2>4. \/ \E q \in Str(T) : r = q ++ e.tag /\ Put(e, r) = Put(e, q) ++ e.original
        \/ \E q \in Str(T), y \in T : r = q ++ <<y>> /\ Put(e, r) = Put(e, q) ++ <<y>>
    BY <2>1, PutRight
  <2> QED BY <2>2, <2>3, <2>4
<1>3. ASSUME NEW x \in N, EndsWith(Put(e, s), "[", x) PROVE EndsWith(s, "[", x)
  <2>1. s # <<>>
    <3>1. ~EndsWith(<<>>, "[", x)
      BY DEF EndsWith
    <3> QED BY <1>3, <3>1, PutEmpty
  <2>2. ASSUME NEW q \in Str(T), Put(e, s) = Put(e, q) ++ e.original PROVE FALSE
    <3> DEFINE a == Put(e, q)
               o == e.original
    <3>1. a \in Str(T) /\ o \in Str(T) /\ o # <<>> /\ Len(o) \in Nat /\ Len(o) >= 1
      BY <1>1, PutTyped, StrLen
    <3>2. o[1] # x /\ ~EndsWith(o, "[", x) /\ EndsWith(a ++ o, "[", x)
      BY <1>1, <1>3, <2>2 DEF Closed
    <3> HIDE DEF a, o
    <3>3. /\ Len(o) >= 2 => (EndsWith(a ++ o, "[", x) <=> EndsWith(o, "[", x))
          /\ Len(o) = 1 => (EndsWith(a ++ o, "[", x) <=> Ends(a, "[") /\ o[1] = x)
      BY <3>1, EndsCat
    <3> QED BY ONLY <3>1, <3>2, <3>3
  <2>3. ASSUME NEW q \in Str(T), NEW y \in T, s = q ++ <<y>>, Put(e, s) = Put(e, q) ++ <<y>>
        PROVE  EndsWith(s, "[", x)
    <3>1. Put(e, q) \in Str(T) /\ <<y>> \in Str(T) /\ <<y>> # <<>> /\ Len(<<y>>) = 1
      BY <1>1, PutTyped, StrOne
    <3>2. EndsWith(Put(e, q) ++ <<y>>, "[", x) <=> Ends(Put(e, q), "[") /\ <<y>>[1] = x
      BY <3>1, EndsCat
    <3>3. EndsWith(q ++ <<y>>, "[", x) <=> Ends(q, "[") /\ <<y>>[1] = x
      BY <3>1, EndsCat
    <3> QED BY <1>2, <1>3, <2>3, <3>2, <3>3
  <2>4. \/ \E q \in Str(T) : s = q ++ e.tag /\ Put(e, s) = Put(e, q) ++ e.original
        \/ \E q \in Str(T), y \in T : s = q ++ <<y>> /\ Put(e, s) = Put(e, q) ++ <<y>>
    BY <2>1, PutRight
  <2> QED BY <2>2, <2>3, <2>4
<1> QED BY <1>2, <1>3

(* A safe seam stays safe. *)
LEMMA PutSafe ==
  ASSUME NEW T, NEW N, NEW e, Entry(T, N, e), Closed(N, e), NoBrackets(N),
         NEW a \in Str(T), NEW b \in Str(T), SafeSeam(N, a, b)
  PROVE  SafeSeam(N, Put(e, a), Put(e, b))
BY PutStarts, PutEnds DEF SafeSeam

-----------------------------------------------------------------------------
(* Every placeholder of the table, one after the other. *)
(* The results of the replacements, one after the other. *)
Puts(entries, s, g) ==
  g = [k \in 0..Len(entries) |-> IF k = 0 THEN s ELSE Put(entries[k], g[k - 1])]

(* PutAll is the last of its texts. *)
LEMMA PutAllIs ==
  ASSUME NEW U, NEW entries \in Str(U), NEW s
  PROVE  \E g : Puts(entries, s, g) /\ PutAll(entries, s) = g[Len(entries)]
<1> DEFINE F(n, f) == f = [k \in 0..n |-> IF k = 0 THEN s ELSE Put(entries[k], f[k - 1])]
           S == {n \in Nat : \E f : F(n, f)}
<1>1. 0 \in S
  <2> DEFINE f == [k \in 0..0 |-> s]
  <2>1. F(0, f)
    OBVIOUS
  <2> QED BY <2>1
<1>2. ASSUME NEW n \in Nat, n \in S PROVE n + 1 \in S
  <2>1. PICK f : F(n, f)
    BY <1>2
  <2> DEFINE g == [k \in 0..n + 1 |-> IF k = n + 1 THEN Put(entries[k], f[n]) ELSE f[k]]
             h == [k \in 0..n + 1 |-> IF k = 0 THEN s ELSE Put(entries[k], g[k - 1])]
  <2>2. ASSUME NEW k \in 0..n + 1 PROVE g[k] = h[k]
    <3>1. CASE k = n + 1
      <4>1. k # 0 /\ k - 1 = n /\ n \in 0..n + 1 /\ n # n + 1
        BY <3>1
      <4>2. g[k - 1] = f[n]
        BY <4>1
      <4> QED BY <3>1, <4>1, <4>2
    <3>2. CASE k # n + 1 /\ k # 0
      <4>1. k \in 0..n /\ k - 1 \in 0..n + 1 /\ k - 1 # n + 1
        BY <3>2
      <4>2. f[k] = Put(entries[k], f[k - 1])
        BY <2>1, <3>2, <4>1
      <4>3. g[k] = f[k] /\ g[k - 1] = f[k - 1]
        BY <3>2, <4>1
      <4> QED BY <3>2, <4>2, <4>3
    <3>3. CASE k = 0
      <4>1. k # n + 1 /\ k \in 0..n
        BY <3>3
      <4>2. f[k] = s
        BY <2>1, <3>3, <4>1
      <4> QED BY <3>3, <4>1, <4>2
    <3> QED BY <3>1, <3>2, <3>3
  <2>3. g = h
    BY <2>2
  <2>4. F(n + 1, g)
    BY <2>3
  <2> HIDE DEF F, g, h
  <2> QED BY <2>4
<1> HIDE DEF F
<1>3. Nat \subseteq S
  <2> HIDE DEF S
  <2> QED BY <1>1, <1>2, NatSetInduction
<1>4. Len(entries) \in Nat
  BY StrLen
<1>5. PICK f : F(Len(entries), f)
  BY <1>3, <1>4
<1> DEFINE put == CHOOSE h : F(Len(entries), h)
<1>6. F(Len(entries), put)
  BY <1>5
<1>7. PutAll(entries, s) = put[Len(entries)]
  BY DEF PutAll, F
<1>8. Puts(entries, s, put)
  BY <1>6 DEF Puts, F
<1> QED BY <1>7, <1>8

(* One entry of the table after the other. *)
LEMMA PutsAt ==
  ASSUME NEW U, NEW entries \in Str(U), NEW s, NEW g, Puts(entries, s, g)
  PROVE  /\ g[0] = s
         /\ \A k \in Nat : k + 1 <= Len(entries) =>
              g[k + 1] = Put(entries[k + 1], g[k]) /\ entries[k + 1] \in U
<1>1. Len(entries) \in Nat /\ \A k \in 1..Len(entries) : entries[k] \in U
  BY StrLen
<1>2. \A k \in 0..Len(entries) : g[k] = IF k = 0 THEN s ELSE Put(entries[k], g[k - 1])
  BY DEF Puts
<1>3. g[0] = s
  BY <1>1, <1>2
<1>4. ASSUME NEW k \in Nat, k + 1 <= Len(entries)
      PROVE  g[k + 1] = Put(entries[k + 1], g[k]) /\ entries[k + 1] \in U
  <2>1. k + 1 \in 0..Len(entries) /\ k + 1 # 0 /\ k + 1 - 1 = k /\ k + 1 \in 1..Len(entries)
    BY <1>1, <1>4
  <2> DEFINE j == k + 1
  <2>2. g[j] = Put(entries[j], g[j - 1]) /\ entries[j] \in U
    BY <1>1, <1>2, <2>1
  <2> QED BY <2>1, <2>2
<1> QED BY <1>3, <1>4

(* PutAll of a string is a string. *)
LEMMA PutAllTyped ==
  ASSUME NEW T, NEW U, NEW entries \in Str(U), \A e \in U : e.original \in Str(T),
         NEW s \in Str(T)
  PROVE  PutAll(entries, s) \in Str(T)
<1>1. PICK g : Puts(entries, s, g) /\ PutAll(entries, s) = g[Len(entries)]
  BY PutAllIs
<1>2. /\ g[0] = s
      /\ \A k \in Nat : k + 1 <= Len(entries) =>
           g[k + 1] = Put(entries[k + 1], g[k]) /\ entries[k + 1] \in U
  BY <1>1, PutsAt
<1> DEFINE S == {k \in Nat : k <= Len(entries) => g[k] \in Str(T)}
<1>3. Len(entries) \in Nat
  BY StrLen
<1>4. 0 \in S
  BY <1>2
<1>5. ASSUME NEW k \in Nat, k \in S PROVE k + 1 \in S
  <2> SUFFICES ASSUME k + 1 <= Len(entries) PROVE g[k + 1] \in Str(T)
    OBVIOUS
  <2>1. g[k] \in Str(T)
    BY <1>3, <1>5
  <2>2. g[k + 1] = Put(entries[k + 1], g[k]) /\ entries[k + 1] \in U
    BY <1>2
  <2>3. entries[k + 1].original \in Str(T)
    BY <2>2
  <2> QED BY <2>1, <2>2, <2>3, PutTyped
<1> HIDE DEF S
<1>6. Nat \subseteq S
  BY <1>4, <1>5, NatSetInduction
<1> QED BY <1>1, <1>3, <1>6 DEF S

(* PutAll of nothing is nothing. *)
LEMMA PutAllEmpty ==
  ASSUME NEW U, NEW entries \in Str(U)
  PROVE  PutAll(entries, <<>>) = <<>>
<1>1. PICK g : Puts(entries, <<>>, g) /\ PutAll(entries, <<>>) = g[Len(entries)]
  BY PutAllIs
<1>2. /\ g[0] = <<>>
      /\ \A k \in Nat : k + 1 <= Len(entries) =>
           g[k + 1] = Put(entries[k + 1], g[k]) /\ entries[k + 1] \in U
  BY <1>1, PutsAt
<1> DEFINE S == {k \in Nat : k <= Len(entries) => g[k] = <<>>}
<1>3. Len(entries) \in Nat
  BY StrLen
<1>4. 0 \in S
  BY <1>2
<1>5. ASSUME NEW k \in Nat, k \in S PROVE k + 1 \in S
  <2> SUFFICES ASSUME k + 1 <= Len(entries) PROVE g[k + 1] = <<>>
    OBVIOUS
  <2>1. g[k] = <<>>
    BY <1>3, <1>5
  <2>2. g[k + 1] = Put(entries[k + 1], g[k])
    BY <1>2
  <2> QED BY <2>1, <2>2, PutEmpty
<1> HIDE DEF S
<1>6. Nat \subseteq S
  BY <1>4, <1>5, NatSetInduction
<1> QED BY <1>1, <1>3, <1>6 DEF S

(* All replacements work on both sides of a safe seam by themselves. *)
LEMMA PutAllCat ==
  ASSUME NEW T, NEW U, NEW N, NoBrackets(N), NEW entries \in Str(U),
         \A e \in U : Entry(T, N, e) /\ Closed(N, e),
         NEW a \in Str(T), NEW b \in Str(T), SafeSeam(N, a, b)
  PROVE  PutAll(entries, a ++ b) = PutAll(entries, a) ++ PutAll(entries, b)
<1>1. PICK f : Puts(entries, a, f) /\ PutAll(entries, a) = f[Len(entries)]
  BY PutAllIs
<1>2. PICK g : Puts(entries, b, g) /\ PutAll(entries, b) = g[Len(entries)]
  BY PutAllIs
<1>3. PICK h : Puts(entries, a ++ b, h) /\ PutAll(entries, a ++ b) = h[Len(entries)]
  BY PutAllIs
<1>4. /\ f[0] = a
      /\ \A k \in Nat : k + 1 <= Len(entries) =>
           f[k + 1] = Put(entries[k + 1], f[k]) /\ entries[k + 1] \in U
  BY <1>1, PutsAt
<1>5. /\ g[0] = b
      /\ \A k \in Nat : k + 1 <= Len(entries) =>
           g[k + 1] = Put(entries[k + 1], g[k]) /\ entries[k + 1] \in U
  BY <1>2, PutsAt
<1>6. /\ h[0] = a ++ b
      /\ \A k \in Nat : k + 1 <= Len(entries) =>
           h[k + 1] = Put(entries[k + 1], h[k]) /\ entries[k + 1] \in U
  BY <1>3, PutsAt
<1> DEFINE S == {k \in Nat : k <= Len(entries) =>
                   /\ f[k] \in Str(T) /\ g[k] \in Str(T) /\ h[k] = f[k] ++ g[k]
                   /\ SafeSeam(N, f[k], g[k])}
<1>7. Len(entries) \in Nat
  BY StrLen
<1>8. 0 \in S
  BY <1>4, <1>5, <1>6
<1>9. ASSUME NEW k \in Nat, k \in S PROVE k + 1 \in S
  <2> SUFFICES ASSUME k + 1 <= Len(entries)
               PROVE  /\ f[k + 1] \in Str(T) /\ g[k + 1] \in Str(T)
                      /\ h[k + 1] = f[k + 1] ++ g[k + 1]
                      /\ SafeSeam(N, f[k + 1], g[k + 1])
    OBVIOUS
  <2> DEFINE e == entries[k + 1]
  <2>1. f[k] \in Str(T) /\ g[k] \in Str(T) /\ h[k] = f[k] ++ g[k] /\ SafeSeam(N, f[k], g[k])
    BY <1>7, <1>9
  <2>2. f[k + 1] = Put(e, f[k]) /\ g[k + 1] = Put(e, g[k]) /\ h[k + 1] = Put(e, h[k]) /\ e \in U
    BY <1>4, <1>5, <1>6
  <2> HIDE DEF e
  <2>3. Entry(T, N, e) /\ Closed(N, e)
    BY <2>2
  <2>4. e.original \in Str(T)
    BY <2>3 DEF Entry
  <2>5. Put(e, f[k]) \in Str(T) /\ Put(e, g[k]) \in Str(T)
    BY <2>1, <2>4, PutTyped
  <2>6. Put(e, f[k] ++ g[k]) = Put(e, f[k]) ++ Put(e, g[k])
    BY <2>1, <2>3, PutCat
  <2>7. SafeSeam(N, Put(e, f[k]), Put(e, g[k]))
    BY <2>1, <2>3, PutSafe
  <2> QED BY ONLY <2>1, <2>2, <2>5, <2>6, <2>7
<1> HIDE DEF S
<1>10. Nat \subseteq S
  BY <1>8, <1>9, NatSetInduction
<1>11. Len(entries) \in S
  BY <1>7, <1>10
<1> QED BY <1>1, <1>2, <1>3, <1>11 DEF S

-----------------------------------------------------------------------------
(* The table that anonymize builds. *)
(* What a pattern can find, and the rows of a table. *)
Finds(T) == {o \in Seq(T) : o # <<>> /\ o[1] \in Addresses \cup {Link}}

(* The rows of a table with such originals. *)
Rows(O) == {[kind |-> k, tag |-> TagFor(k, n), original |-> o] :
              k \in {"EMAIL", "URL"}, n \in Nat, o \in O}

(* What a pattern finds lies in the text and starts with an address or a link. *)
LEMMA FoundSpans ==
  ASSUME NEW kind, NEW T, NEW s \in Seq(T), NEW p \in Found(kind, s)
  PROVE  /\ p[1] \in 1..Len(s) /\ p[2] \in 1..Len(s) /\ p[1] <= p[2]
         /\ s[p[1]] \in Addresses \cup {Link}
<1>1. CASE kind = "EMAIL"
  <2>1. PICK i \in 1..Len(s) : s[i] \in Addresses /\ p = <<i, i>>
    BY <1>1 DEF Found
  <2>2. p[1] = i /\ p[2] = i
    BY <2>1
  <2> QED BY <2>1, <2>2
<1>2. CASE kind # "EMAIL"
  <2>1. p \in (1..Len(s)) \X (1..Len(s)) /\ p[1] <= p[2] /\ s[p[1]] = Link
    BY <1>2 DEF Found
  <2>2. p[1] \in 1..Len(s) /\ p[2] \in 1..Len(s)
    BY <2>1
  <2> QED BY <2>1, <2>2
<1> QED BY <1>1, <1>2

(* One pattern: the text stays a text, the new rows hold what it found. *)
LEMMA PassTyped ==
  ASSUME NEW kind \in {"EMAIL", "URL"}, NEW T, NEW a, a.text \in Seq(T),
         a.table \in Str(Rows(Finds(T)))
  PROVE  \E V : /\ T \subseteq V /\ Pass(a, kind).text \in Seq(V)
                /\ Pass(a, kind).table \in Str(Rows(Finds(V)))
<1> DEFINE s         == a.text
           spans     == Found(kind, s)
           starts    == {p[1] : p \in spans}
           At(i)     == SubSeq(s, i, (CHOOSE p \in spans : p[1] = i)[2])
           part(i)   == IF i \in starts /\ \A j \in starts : j < i => At(j) # At(i)
                        THEN <<At(i)>> ELSE <<>>
           parts     == [i \in 1..Len(s) |-> part(i)]
           originals == FlattenSeq(parts)
           TagOf(o)  == TagFor(kind, CHOOSE n \in 1..Len(originals) : originals[n] = o)
           piece(i)  == IF i \in starts THEN TagOf(At(i))
                        ELSE IF \E p \in spans : p[1] < i /\ i <= p[2] THEN <<>>
                        ELSE <<s[i]>>
           pieces    == [i \in 1..Len(s) |-> piece(i)]
           rows      == [n \in 1..Len(originals) |->
                          [kind |-> kind, tag |-> TagFor(kind, n), original |-> originals[n]]]
           V         == T \cup UNION {ToSet(TagOf(At(i))) : i \in 1..Len(s)}
<1>1. Pass(a, kind).text = FlattenSeq(pieces) /\ Pass(a, kind).table = a.table \o rows
  BY DEF Pass
<1>2. ASSUME NEW i \in starts PROVE At(i) \in Finds(T) /\ i \in 1..Len(s)
  <2> DEFINE p == CHOOSE p \in spans : p[1] = i
  <2>1. p \in spans /\ p[1] = i
    BY <1>2
  <2> HIDE DEF p
  <2>2. p[1] \in 1..Len(s) /\ p[2] \in 1..Len(s) /\ p[1] <= p[2] /\ s[p[1]] \in Addresses \cup {Link}
    <3> HIDE DEF s
    <3>1. s \in Seq(T)
      BY DEF s
    <3> QED BY <2>1, <3>1, FoundSpans
  <2> DEFINE o == SubSeq(s, i, p[2])
  <2>3. o \in Seq(T) /\ Len(o) = p[2] - i + 1 /\ o[1] = s[i]
    BY <2>1, <2>2, SubSeqProperties
  <2>4. o # <<>>
    BY <2>1, <2>2, <2>3
  <2>5. At(i) = o
    BY DEF p
  <2> QED BY <2>1, <2>2, <2>3, <2>4, <2>5 DEF Finds
<1>3. originals \in Seq(Finds(T))
  <2>1. ASSUME NEW i \in 1..Len(s) PROVE part(i) \in Seq(Finds(T))
    <3>1. CASE i \in starts /\ \A j \in starts : j < i => At(j) # At(i)
      <4>1. part(i) = <<At(i)>> /\ At(i) \in Finds(T)
        BY <1>2, <3>1
      <4> HIDE DEF part, At
      <4> QED BY <4>1
    <3>2. CASE ~(i \in starts /\ \A j \in starts : j < i => At(j) # At(i))
      <4>1. part(i) = <<>>
        BY <3>2
      <4> HIDE DEF part
      <4> QED BY <4>1
    <3> QED BY <3>1, <3>2
  <2>2. Len(s) \in Nat
    BY LenProperties
  <2>3. parts \in Seq(Seq(Finds(T)))
    <3> HIDE DEF part, s
    <3> QED BY <2>1, <2>2
  <2> HIDE DEF parts
  <2> QED BY <2>3, FlattenType
<1>4. rows \in Str(Rows(Finds(T)))
  <2> HIDE DEF originals
  <2>1. Len(originals) \in Nat /\ \A n \in 1..Len(originals) : originals[n] \in Finds(T)
    BY <1>3
  <2>2. ASSUME NEW n \in 1..Len(originals)
        PROVE [kind |-> kind, tag |-> TagFor(kind, n), original |-> originals[n]] \in Rows(Finds(T))
    BY <2>1 DEF Rows
  <2> HIDE DEF Rows, Finds
  <2> QED BY <2>1, <2>2 DEF Str
<1>5. Pass(a, kind).table \in Str(Rows(Finds(T)))
  <2> HIDE DEF rows
  <2>1. a.table ++ rows \in Str(Rows(Finds(T)))
    BY <1>4, CatType
  <2> QED BY <1>1, <2>1 DEF ++
<1>6. T \subseteq V
  OBVIOUS
<1>7. FlattenSeq(pieces) \in Seq(V)
  <2>1. ASSUME NEW i \in 1..Len(s) PROVE piece(i) \in Seq(V)
    <3>1. CASE i \in starts
      <4> DEFINE t == TagOf(At(i))
                 y == t[2]
      <4>1. piece(i) = t /\ ToSet(t) \subseteq V
        <5>1. piece(i) = t
          <6> HIDE DEF TagOf
          <6> QED BY <3>1
        <5>2. ToSet(t) \subseteq V
          <6> HIDE DEF TagOf, At, s
          <6> QED OBVIOUS
        <5> QED BY <5>1, <5>2
      <4>2. t = <<"[", y, "]">>
        <5> DEFINE n == CHOOSE n \in 1..Len(originals) : originals[n] = At(i)
                   z == Name(kind, n)
        <5>1. t = <<"[", z, "]">>
          BY DEF TagFor
        <5> HIDE DEF z, t
        <5>2. t[2] = z
          BY <5>1
        <5> QED BY <5>1, <5>2
      <4> HIDE DEF t, y, V, piece
      <4>3. t[1] \in ToSet(t) /\ t[2] \in ToSet(t) /\ t[3] \in ToSet(t)
        BY <4>2 DEF ToSet
      <4>4. "[" \in V /\ y \in V /\ "]" \in V
        BY <4>1, <4>2, <4>3
      <4>5. <<"[", y, "]">> \in Seq(V)
        BY <4>4
      <4> QED BY <4>1, <4>2, <4>5
    <3>2. CASE i \notin starts
      <4>1. piece(i) = <<>> \/ piece(i) = <<s[i]>>
        BY <3>2
      <4>2. s[i] \in T
        OBVIOUS
      <4>3. s[i] \in V
        BY <4>2
      <4> DEFINE c == s[i]
      <4> HIDE DEF V, piece, c
      <4>4. <<c>> \in Seq(V) /\ <<>> \in Seq(V)
        BY <4>3 DEF c
      <4> QED BY <4>1, <4>4 DEF c
    <3> QED BY <3>1, <3>2
  <2>2. Len(s) \in Nat
    BY LenProperties
  <2> HIDE DEF piece, V, s
  <2>4. pieces \in Seq(Seq(V))
    BY <2>1, <2>2
  <2> HIDE DEF pieces
  <2> QED BY <2>4, FlattenType
<1>8. Rows(Finds(T)) \subseteq Rows(Finds(V))
  <2>1. Finds(T) \subseteq Finds(V)
    <3> HIDE DEF V
    <3>1. Seq(T) \subseteq Seq(V)
      BY <1>6
    <3> QED BY <3>1 DEF Finds
  <2> HIDE DEF V
  <2> QED BY <2>1 DEF Rows
<1>9. Pass(a, kind).table \in Str(Rows(Finds(V)))
  <2> HIDE DEF V
  <2> QED BY <1>5, <1>8 DEF Str
<1> HIDE DEF V, pieces
<1> QED BY <1>1, <1>6, <1>7, <1>9

(* The two passes of anonymize yield a text and a table. *)
LEMMA AnonymizeTyped ==
  ASSUME NEW T, NEW m \in Seq(T)
  PROVE  \E V : Anonymize(m).table \in Str(Rows(Finds(V)))
<1> DEFINE a == [text |-> m, table |-> <<>>]
           b == Pass(a, "EMAIL")
<1>1. a.text \in Seq(T) /\ a.table \in Str(Rows(Finds(T)))
  BY StrEmpty
<1> HIDE DEF a
<1>2. PICK W : b.text \in Seq(W) /\ b.table \in Str(Rows(Finds(W)))
  BY <1>1, PassTyped
<1> HIDE DEF b
<1>3. PICK V : Pass(b, "URL").table \in Str(Rows(Finds(V)))
  BY <1>2, PassTyped
<1> QED BY <1>3 DEF Anonymize, a, b

(* What every table holds. *)
LEMMA TableRows ==
  ASSUME NEW x \in Exchanges, NEW e \in ToSet(Anonymize(x[1]).table)
  PROVE  /\ e.tag = <<"[", e.tag[2], "]">> /\ e.tag[2] \notin {"[", "]", Link} \cup Addresses
         /\ e.original \in Seq(ToSet(e.original)) /\ e.original # <<>>
         /\ e.original[1] \in Addresses \cup {Link}
         /\ e.kind \in {"EMAIL", "URL"}
<1> DEFINE t == Anonymize(x[1]).table
<1>1. x[1] \in Seq(Chars)
  BY ChatAssumption
<1>2. PICK V : t \in Str(Rows(Finds(V)))
  BY <1>1, AnonymizeTyped
<1> HIDE DEF t
<1>3. e \in Rows(Finds(V))
  <2>1. PICK i \in DOMAIN t : e = t[i]
    BY DEF ToSet, t
  <2> QED BY <1>2, <2>1 DEF Str
<1>4. PICK k \in {"EMAIL", "URL"}, n \in Nat, o \in Finds(V) :
        e = [kind |-> k, tag |-> TagFor(k, n), original |-> o]
  BY <1>3 DEF Rows
<1>5. e.tag = <<"[", e.tag[2], "]">>
  BY <1>4 DEF TagFor
<1>6. o \in Seq(ToSet(o))
  <2>1. o \in Seq(V)
    BY DEF Finds
  <2>2. \A i \in 1..Len(o) : o[i] \in ToSet(o)
    BY <2>1 DEF ToSet
  <2> QED BY <2>1, <2>2
<1>7. e.tag[2] \notin White \cup {"[", "]", Link} \cup Addresses
  BY ChatAssumption
<1> QED BY <1>4, <1>5, <1>6, <1>7 DEF Finds

(* The table of this request, the insides of its placeholders, and that none of
   its originals becomes one. *)
TableOK == <<mail, text>> \in Exchanges /\ table = Anonymize(mail).table

Names == {e.tag[2] : e \in ToSet(table)}

Clean == \A e \in ToSet(table) : ~EndsOpen(e.original)

(* The rows of the table: no original is empty, none starts like a placeholder
   goes on, and each placeholder is a bracketed name. *)
LEMMA TableIs ==
  ASSUME TableOK
  PROVE  /\ table \in Str(ToSet(table)) /\ text \in Texts
         /\ NoBrackets(Names)
         /\ \A e \in ToSet(table) : /\ e.original \in Str(ToSet(e.original))
                                    /\ e.original # <<>>
                                    /\ e.tag = <<"[", e.tag[2], "]">> /\ e.tag[2] \in Names
                                    /\ e.original[1] \notin Names \cup {"]"}
<1> DEFINE x == <<mail, text>>
<1>1. x \in Exchanges /\ x[1] = mail /\ x[2] = text /\ table = Anonymize(x[1]).table
  BY DEF TableOK
<1> HIDE DEF x
<1>2. mail \in Seq(Chars) /\ text \in Texts
  BY <1>1, ChatAssumption
<1>3. table \in Str(ToSet(table))
  <2>1. PICK V : table \in Str(Rows(Finds(V)))
    BY <1>1, <1>2, AnonymizeTyped
  <2>2. \A i \in 1..Len(table) : table[i] \in ToSet(table)
    BY <2>1 DEF ToSet, Str
  <2> QED BY <2>1, <2>2 DEF Str
<1>4. ASSUME NEW e \in ToSet(table)
      PROVE  /\ e.tag = <<"[", e.tag[2], "]">> /\ e.tag[2] \notin {"[", "]", Link} \cup Addresses
             /\ e.original \in Str(ToSet(e.original)) /\ e.original # <<>>
             /\ e.original[1] \in Addresses \cup {Link}
             /\ e.tag[2] \in Names
  <2>1. e \in ToSet(Anonymize(x[1]).table)
    BY <1>1
  <2> QED BY <1>1, <2>1, TableRows DEF Names, Str
<1>5. NoBrackets(Names) /\ \A y \in Names : y \notin {Link} \cup Addresses
  BY <1>4 DEF NoBrackets, Names
<1>6. "]" \notin {Link} \cup Addresses
  <2>1. (White \cup {"[", "]"}) \cap ({Link} \cup Addresses) = {}
    BY ChatAssumption
  <2> QED BY <2>1
<1>7. \A e \in ToSet(table) : e.original[1] \notin Names \cup {"]"}
  BY <1>4, <1>5, <1>6
<1> QED BY <1>2, <1>3, <1>4, <1>5, <1>7

(* The answer, the originals and the framing are strings of Symbols. *)
LEMMA SymbolsHold ==
  ASSUME TableOK
  PROVE  /\ Framing \subseteq Symbols /\ text \in Str(Symbols)
         /\ \A e \in ToSet(table) : Entry(Symbols, Names, e)
<1>1. Framing \subseteq Symbols /\ Chars \subseteq Symbols
  <2> DEFINE B == UNION {ToSet(e.original) : e \in ToSet(table)}
  <2>1. Symbols = Chars \cup Framing \cup B
    BY DEF Symbols, Framing
  <2> HIDE DEF B
  <2> QED BY <2>1
<1>2. text \in Str(Symbols)
  <2>1. text \in Seq(Chars)
    BY TableIs, ConstantsAssumption
  <2> HIDE DEF Symbols
  <2> QED BY <1>1, <2>1 DEF Str
<1>3. ASSUME NEW e \in ToSet(table) PROVE e.original \in Str(Symbols)
  <2>1. ToSet(e.original) \subseteq Symbols
    BY DEF Symbols
  <2>2. e.original \in Seq(ToSet(e.original))
    BY TableIs DEF Str
  <2> HIDE DEF Symbols
  <2> QED BY <2>1, <2>2 DEF Str
<1> QED BY <1>1, <1>2, <1>3, TableIs DEF Entry

(* The order in which the originals are put back. *)
LEMMA LongestFirstTyped ==
  ASSUME TableOK
  PROVE  LongestFirst \in Str(ToSet(table))
<1> DEFINE R == ToSet(table)
<1>1. table \in Seq(R) /\ Len(table) \in Nat
  BY TableIs, StrLen DEF Str
<1> HIDE DEF R
<1>2. ASSUME NEW kind PROVE OfKind(kind) \in Str(R)
  <2> DEFINE q(k) == IF table[k].kind = kind THEN <<table[k]>> ELSE <<>>
             p == [k \in 1..Len(table) |-> q(k)]
  <2>1. ASSUME NEW k \in 1..Len(table) PROVE q(k) \in Seq(R)
    <3>1. table[k] \in R
      BY <1>1
    <3> QED BY <3>1
  <2> HIDE DEF q
  <2>2. p \in Seq(Seq(R))
    BY <1>1, <2>1
  <2> HIDE DEF p
  <2>3. FlattenSeq(p) \in Seq(R)
    BY <2>2, FlattenType
  <2> QED BY <2>3 DEF OfKind, p, q, Str
<1>3. OfKind("EMAIL") ++ OfKind("URL") \in Str(R)
  BY <1>2, CatType
<1> QED BY <1>3 DEF LongestFirst, ++, R

(* Deanonymize of a string is a string. *)
LEMMA DeanonymizeTyped ==
  ASSUME TableOK, NEW s \in Str(Symbols)
  PROVE  Deanonymize(s) \in Str(Symbols)
<1>1. \A e \in ToSet(table) : e.original \in Str(Symbols)
  BY SymbolsHold DEF Entry
<1> QED BY <1>1, LongestFirstTyped, PutAllTyped DEF Deanonymize

(* Deanonymize of nothing is nothing. *)
LEMMA DeanonymizeEmpty ==
  ASSUME TableOK
  PROVE  Deanonymize(<<>>) = <<>>
BY LongestFirstTyped, PutAllEmpty DEF Deanonymize

(* An original that ends in no open placeholder keeps to itself. *)
LEMMA CleanIsClosed ==
  ASSUME TableOK, Clean, NEW e \in ToSet(table)
  PROVE  Closed(Names, e)
<1>1. e.original # <<>> /\ Len(e.original) \in Nat
  BY TableIs, StrLen
<1> QED BY <1>1 DEF Closed, Clean, EndsOpen, Ends, EndsWith, Names

(* Deanonymize of two pieces, where no placeholder is torn. *)
LEMMA DeanonymizeCat ==
  ASSUME TableOK, Clean, NEW a \in Str(Symbols), NEW b \in Str(Symbols),
         SafeSeam(Names, a, b)
  PROVE  Deanonymize(a ++ b) = Deanonymize(a) ++ Deanonymize(b)
<1>1. \A e \in ToSet(table) : Entry(Symbols, Names, e) /\ Closed(Names, e)
  BY SymbolsHold, CleanIsClosed
<1>2. NoBrackets(Names)
  BY TableIs
<1> QED BY <1>1, <1>2, LongestFirstTyped, PutAllCat DEF Deanonymize

(* A piece of the answer that ends where no placeholder is torn. *)
LEMMA PieceSeam ==
  ASSUME TableOK, Clean, NEW c \in 0..Len(text), NEW m \in c..Len(text),
         \A a, b \in 1..Len(text) : (a < b /\ Tag(a, b)) => ~(a <= c /\ c < b)
  PROVE  Deanonymize(SubSeq(text, 1, m))
         = Deanonymize(SubSeq(text, 1, c)) ++ Deanonymize(SubSeq(text, c + 1, m))
<1> DEFINE a == SubSeq(text, 1, c)
           s == SubSeq(text, 1, m)
           b == SubSeq(text, c + 1, m)
<1>1. text \in Str(Symbols) /\ Len(text) \in Nat /\ Threshold \in Nat /\ Threshold >= 2
  BY SymbolsHold, StrLen, ChatAssumption, ConstantsAssumption
<1>2. s \in Str(Symbols) /\ Len(s) = m /\ \A i \in 1..m : s[i] = text[i]
  <2>1. m \in 0..Len(text)
    BY <1>1
  <2>2. \A i \in 1..m : s[i] = text[i]
    BY <1>1, SubSeqProperties DEF Str
  <2> QED BY <1>1, <2>1, <2>2, CutAt
<1>3. a \in Str(Symbols) /\ b \in Str(Symbols) /\ s = a ++ b /\ Len(a) = c /\ Len(b) = m - c
  <2>1. c \in 0..Len(s)
    BY <1>1, <1>2
  <2>2. SubSeq(s, 1, c) = a /\ SubSeq(s, c + 1, Len(s)) = b
    <3>1. text \in Seq(Symbols)
      BY <1>1 DEF Str
    <3>2. SubSeq(s, 1, c) = a
      BY <1>1, <1>2, <3>1
    <3>3. SubSeq(s, c + 1, m) = b
      BY <1>1, <1>2, <3>1
    <3> QED BY <1>2, <3>2, <3>3
  <2> HIDE DEF a, b, s
  <2>3. /\ SubSeq(s, 1, c) \in Str(Symbols) /\ SubSeq(s, c + 1, Len(s)) \in Str(Symbols)
        /\ Len(SubSeq(s, 1, c)) = c /\ Len(SubSeq(s, c + 1, Len(s))) = Len(s) - c
        /\ s = SubSeq(s, 1, c) ++ SubSeq(s, c + 1, Len(s))
    BY <1>2, <2>1, CutAt
  <2> QED BY ONLY <1>2, <2>2, <2>3
<1>4. SafeSeam(Names, a, b)
  <2>1. \A i \in 1..c : a[i] = text[i]
    BY <1>1, SubSeqProperties DEF Str
  <2>2. \A i \in 1..m - c : b[i] = text[c + i]
    <3>1. \A i \in 1..m - c : b[i] = text[c + 1 + i - 1]
      BY <1>1, SubSeqProperties DEF Str
    <3> QED BY <1>1, <3>1
  <2>3. "[" \notin Names /\ "]" \notin Names
    BY TableIs DEF NoBrackets
  <2> HIDE DEF a, b
  <2>4. ASSUME NEW x \in Names, Ends(a, "["), StartsWith(b, x, "]") PROVE FALSE
    <3>1. /\ c >= 1 /\ m - c >= 2 /\ text[c] = "[" /\ text[c + 1] = x /\ text[c + 2] = "]"
          /\ x # "[" /\ x # "]"
      BY <1>1, <1>3, <2>1, <2>2, <2>3, <2>4 DEF Ends, StartsWith
    <3>2. Tag(c, c + 2) /\ c \in 1..Len(text) /\ c + 2 \in 1..Len(text) /\ c < c + 2
      BY <1>1, <3>1 DEF Tag, Bracket
    <3> QED BY <1>1, <3>2
  <2>5. ASSUME NEW x \in Names, EndsWith(a, "[", x), Starts(b, "]") PROVE FALSE
    <3>1. /\ c >= 2 /\ m - c >= 1 /\ text[c - 1] = "[" /\ text[c] = x /\ text[c + 1] = "]"
          /\ x # "[" /\ x # "]"
      BY <1>1, <1>3, <2>1, <2>2, <2>3, <2>5 DEF EndsWith, Starts
    <3>2. /\ Tag(c - 1, c + 1) /\ c - 1 \in 1..Len(text) /\ c + 1 \in 1..Len(text)
          /\ c - 1 < c + 1 /\ c - 1 <= c /\ c < c + 1
      BY <1>1, <3>1 DEF Tag, Bracket
    <3> QED BY <1>1, <3>2
  <2> QED BY <2>4, <2>5 DEF SafeSeam
<1> HIDE DEF a, b, s
<1>5. Deanonymize(s) = Deanonymize(a) ++ Deanonymize(b)
  BY <1>3, <1>4, DeanonymizeCat
<1> QED BY <1>5 DEF a, b, s

-----------------------------------------------------------------------------
(* How the add-in's text is compared. *)
(* Compared, for a client c. *)
CompareBy(c, s) == IF c = "browser" THEN s ELSE WithoutSpaces(s)

(* What WithoutSpaces writes for a character. *)
BareCode(T) == [x \in T |-> IF x = " " THEN <<>> ELSE <<x>>]

(* WithoutSpaces drops character by character. *)
LEMMA BareIs ==
  ASSUME NEW T
  PROVE  /\ BareCode(T) \in Codes(T, T)
         /\ \A s \in Str(T) : WithoutSpaces(s) = Each(BareCode(T), s)
<1>1. BareCode(T) \in Codes(T, T)
  <2>1. \A x \in T : (IF x = " " THEN <<>> ELSE <<x>>) \in Seq(T)
    <3> TAKE x \in T
    <3>1. <<x>> \in Seq(T) /\ <<>> \in Seq(T)
      OBVIOUS
    <3> QED BY <3>1
  <2> QED BY <2>1 DEF BareCode, Codes
<1>2. ASSUME NEW s \in Str(T) PROVE WithoutSpaces(s) = Each(BareCode(T), s)
  <2>1. \A k \in 1..Len(s) : s[k] \in T
    BY StrLen
  <2>2. \A k \in 1..Len(s) : BareCode(T)[s[k]] = IF s[k] = " " THEN <<>> ELSE <<s[k]>>
    BY <2>1 DEF BareCode
  <2> QED BY <2>2 DEF WithoutSpaces, Each
<1> QED BY <1>1, <1>2

(* Texts are compared piece by piece. *)
LEMMA CompareCat ==
  ASSUME NEW T, NEW c, NEW a \in Str(T), NEW b \in Str(T)
  PROVE  /\ CompareBy(c, a) \in Str(T)
         /\ CompareBy(c, a ++ b) = CompareBy(c, a) ++ CompareBy(c, b)
<1>1. a ++ b \in Str(T)
  BY CatType
<1>2. WithoutSpaces(a ++ b) = WithoutSpaces(a) ++ WithoutSpaces(b)
  BY <1>1, BareIs, EachCat
<1>3. WithoutSpaces(a) \in Str(T)
  BY BareIs, EachType
<1> QED BY <1>2, <1>3 DEF CompareBy

(* The first character of a string and the rest. *)
LEMMA HeadTail ==
  ASSUME NEW T, NEW x \in T, NEW u \in Str(T)
  PROVE  /\ <<x>> ++ u # <<>> /\ Head(<<x>> ++ u) = x /\ Tail(<<x>> ++ u) = u
         /\ <<x>> ++ u \in Str(T)
<1> DEFINE w == <<x>>
           s == w ++ u
<1>1. w \in Str(T) /\ Len(w) = 1 /\ w[1] = x
  BY StrOne
<1> HIDE DEF w
<1>2. s \in Str(T) /\ Len(s) = 1 + Len(u) /\ Len(u) \in Nat
  BY <1>1, LengthTyped
<1>3. s[1] = x
  <2>1. 1 \in 1..Len(w)
    BY <1>1
  <2> QED BY <1>1, <2>1, CatLeft
<1>4. \A i \in 1..Len(u) : s[1 + i] = u[i]
  <2>1. \A i \in 1..Len(u) : s[Len(w) + i] = u[i]
    BY <1>1, CatRight
  <2> QED BY <1>1, <2>1
<1> HIDE DEF s
<1>5. s # <<>> /\ s \in Seq(T)
  BY <1>2, StrLen DEF Str
<1>6. Head(s) = x
  BY <1>3, <1>5
<1>7. Tail(s) \in Seq(T) /\ Len(Tail(s)) = Len(u) /\ \A i \in 1..Len(u) : Tail(s)[i] = s[1 + i]
  BY <1>2, <1>5, HeadTailProperties
<1>8. Tail(s) = u
  <2>1. Tail(s) \in Str(T)
    BY <1>7 DEF Str
  <2> QED BY <1>4, <1>7, <2>1, StrEqual
<1> QED BY <1>2, <1>5, <1>6, <1>8 DEF s, w

(* TrimStart drops nothing but spaces. *)
LEMMA TrimmedSame ==
  ASSUME NEW T, NEW s \in Str(T)
  PROVE  TrimStart(s) \in Str(T) /\ WithoutSpaces(TrimStart(s)) = WithoutSpaces(s)
<1> DEFINE word == {k \in 1..Len(s) : s[k] # " "}
           f == BareCode(T)
<1>1. /\ Len(s) \in Nat /\ f \in Codes(T, T) /\ \A q \in Str(T) : WithoutSpaces(q) = Each(f, q)
      /\ \A k \in 1..Len(s) : s[k] \in T
  BY BareIs, StrLen
<1>0. Len(s) \in Nat
  BY <1>1
<1> HIDE DEF f
<1>2. CASE word = {}
  <2>1. TrimStart(s) = <<>>
    BY <1>2 DEF TrimStart
  <2>2. \A k \in 1..Len(s) : f[s[k]] = <<>>
    BY <1>1, <1>2 DEF BareCode, f
  <2>3. Each(f, s) = <<>>
    BY <2>2, EachNothing DEF Str
  <2> QED BY <1>1, <2>1, <2>3, StrEmpty, EachEmpty
<1>3. CASE word # {}
  <2> DEFINE m == Min(word)
             n == m - 1
             a == SubSeq(s, 1, n)
             b == SubSeq(s, n + 1, Len(s))
  <2>1. m \in word /\ \A k \in word : m <= k
    <3>2. 1..Len(s) \subseteq Nat
      BY <1>0
    <3>3. word \subseteq 1..Len(s)
      OBVIOUS
    <3>1. word \in SUBSET Nat
      BY <3>2, <3>3
    <3> HIDE DEF word
    <3> QED BY <1>3, <3>1, MinIs
  <2>3. TrimStart(s) = SubSeq(s, m, Len(s))
    BY <1>3 DEF TrimStart
  <2>10. m \in 1..Len(s) /\ \A k \in 1..Len(s) : s[k] # " " => m <= k
    BY <2>1
  <2> HIDE DEF m, word
  <2>12. m \in 1..Len(s)
    BY ONLY <2>10
  <2>2. n \in 0..Len(s) /\ n + 1 = m
    BY ONLY <1>0, <2>12
  <2>4. ASSUME NEW k \in 1..n PROVE s[k] = " "
    <3>1. k \in 1..Len(s) /\ ~(m <= k)
      BY <1>0, <2>2, <2>12
    <3> QED BY ONLY <2>10, <3>1
  <2> HIDE DEF n
  <2>5. a \in Str(T) /\ b \in Str(T) /\ s = a ++ b /\ Len(a) = n
    BY <2>2, CutAt
  <2>6. \A k \in 1..n : a[k] = s[k]
    BY <2>2, SubSeqProperties DEF Str
  <2> HIDE DEF a, b
  <2>7. Each(f, a) = <<>>
    <3>1. \A k \in 1..Len(a) : a[k] = " " /\ a[k] \in T
      BY <2>4, <2>5, <2>6, StrLen
    <3>2. \A k \in 1..Len(a) : f[a[k]] = <<>>
      BY <3>1 DEF BareCode, f
    <3> QED BY <2>5, <3>2, EachNothing DEF Str
  <2>8. Each(f, a ++ b) = Each(f, a) ++ Each(f, b) /\ Each(f, b) \in Str(T)
    BY <1>1, <2>5, EachCat, EachType
  <2>9. Each(f, s) = Each(f, b)
    BY <2>5, <2>7, <2>8, CatEmpty
  <2>11. TrimStart(s) = b
    BY <2>2, <2>3 DEF b
  <2> QED BY <1>1, <2>11, <2>5, <2>9
<1> QED BY <1>2, <1>3

(* What the client takes of a data line. *)
LEMMA ValueOfLine ==
  ASSUME NEW T, " " \in T, NEW u \in Str(T)
  PROVE  /\ Value(<<" ">> ++ u) \in Str(T)
         /\ CompareBy(client, Value(<<" ">> ++ u)) = CompareBy(client, u)
<1> DEFINE y == " "
           w == <<y>>
           s == w ++ u
           f == BareCode(T)
<1>6. y \in T
  OBVIOUS
<1>1. s # <<>> /\ Head(s) = " " /\ Tail(s) = u /\ s \in Str(T) /\ w \in Str(T)
  BY HeadTail, StrOne
<1>0. f \in Codes(T, T) /\ \A q \in Str(T) : WithoutSpaces(q) = Each(f, q)
  BY BareIs
<1>2. WithoutSpaces(s) = WithoutSpaces(u)
  <2>3. Each(f, w) = <<>>
    <3>1. Each(f, w) = f[y]
      <4> HIDE DEF f, y
      <4>1. f \in Codes(T, T)
        BY <1>0
      <4> QED BY ONLY <4>1, <1>6, EachOne DEF w
    <3> QED BY <3>1 DEF BareCode
  <2> HIDE DEF f, w
  <2>1. w \in Str(T) /\ u \in Str(T) /\ f \in Codes(T, T)
    BY <1>0, <1>1
  <2>2. Each(f, w ++ u) = Each(f, w) ++ Each(f, u)
    BY ONLY <2>1, EachCat
  <2>4. Each(f, u) \in Str(T)
    BY <1>0, EachType
  <2>5. WithoutSpaces(w ++ u) = Each(f, w ++ u) /\ WithoutSpaces(u) = Each(f, u)
    BY <1>0, <1>1
  <2> QED BY <2>2, <2>3, <2>4, <2>5, CatEmpty
<1> HIDE DEF s
<1>3. ASSUME client = "browser"
      PROVE Value(s) \in Str(T) /\ CompareBy(client, Value(s)) = CompareBy(client, u)
  BY <1>1, <1>3 DEF Value, DropSpace, CompareBy
<1>4. ASSUME client # "browser"
      PROVE Value(s) \in Str(T) /\ CompareBy(client, Value(s)) = CompareBy(client, u)
  BY <1>1, <1>2, <1>4, TrimmedSame DEF Value, CompareBy
<1>5. Value(s) \in Str(T) /\ CompareBy(client, Value(s)) = CompareBy(client, u)
  BY <1>3, <1>4
<1> QED BY <1>5 DEF s

(* Up to its first line break. *)
LEMMA FirstBreak ==
  ASSUME NEW T, "\n" \in T, NEW t \in Str(T), ~NoBreak(t)
  PROVE  \E u, v \in Str(T) : NoBreak(u) /\ t = u ++ (Break1 ++ v)
<1> DEFINE E == {k \in 1..Len(t) : t[k] = "\n"}
           m == Min(E)
           n == m - 1
           u == SubSeq(t, 1, n)
           q == SubSeq(t, n + 1, Len(t))
<1>1. Len(t) \in Nat /\ E # {} /\ E \in SUBSET Nat
  BY StrLen DEF NoBreak
<1>2. m \in E /\ \A k \in E : m <= k
  <2> HIDE DEF E
  <2> QED BY <1>1, MinIs
<1>3. m \in 1..Len(t) /\ t[m] = "\n" /\ \A k \in 1..Len(t) : t[k] = "\n" => m <= k
  BY <1>2
<1> HIDE DEF m, E
<1>4. n \in 0..Len(t) /\ n + 1 = m /\ \A k \in 1..n : k \in 1..Len(t) /\ ~(m <= k)
  BY <1>1, <1>3
<1> HIDE DEF n
<1>5. u \in Str(T) /\ q \in Str(T) /\ t = u ++ q /\ Len(u) = n /\ Len(q) = Len(t) - n
  BY <1>4, CutAt
<1>6. \A k \in 1..n : u[k] = t[k]
  BY <1>4, SubSeqProperties DEF Str
<1> HIDE DEF u, q
<1>7. NoBreak(u)
  BY <1>3, <1>4, <1>5, <1>6 DEF NoBreak
<1>8. Len(q) >= 1 /\ q # <<>>
  BY <1>1, <1>3, <1>4, <1>5, StrLen
<1>9. PICK y \in T, v \in Str(T) : q = <<y>> ++ v
  <2>1. q \in Str(T)
    BY <1>5
  <2> QED BY ONLY <1>8, <2>1, FirstOf
<1>10. y = "\n"
  <2>1. 1 \in 1..Len(q) /\ Len(u) + 1 = m
    BY <1>3, <1>4, <1>5, <1>8
  <2>2. (u ++ q)[Len(u) + 1] = q[1]
    BY <1>5, <2>1, CatRight
  <2>3. q[1] = y
    <3>1. Head(q) = y
      BY <1>9, HeadTail
    <3> QED BY <3>1
  <2> QED BY <1>3, <1>5, <2>1, <2>2, <2>3
<1> QED BY <1>5, <1>7, <1>9, <1>10 DEF Break1

-----------------------------------------------------------------------------
(* The bytes on their way: what is due, and what it will show. *)
(* The pages with texts over T. *)
Pages(T) == [buf : Str(T), event : Kinds, filled : BOOLEAN, data : Str(T),
             shown : Str(T), failed : BOOLEAN]

(* The text of some events, and whether one reports a failure. *)
Said(T, es) == Each(SaidCode(T), es)
Errs(es) == \E k \in 1..Len(es) : es[k].event = "error"

(* What of the event in hand is known before its next data line. *)
Before(p) == IF p.filled THEN p.data ++ Break1 ELSE <<>>

(* Where the client is in the bytes that are due: before an event, before a data
   line, or at the end of a frame; es are the events after it, x the text that the
   event in hand will add. *)
Between(p, due, es, x) ==
  p.event = "message" /\ ~p.filled /\ p.data = <<>> /\ due = Bytes(es) /\ x = <<>>

InFrame(T, p, due, es, x) ==
  \E t \in Str(T) : /\ due = DataFrame(t) ++ Bytes(es)
                    /\ x = IF p.event = "message" THEN Before(p) ++ t ELSE <<>>

FrameRead(p, due, es, x) ==
  p.filled /\ due = Break1 ++ Bytes(es) /\ x = IF p.event = "message" THEN p.data ELSE <<>>

Stage(T, p, due, es, x) ==
  Between(p, due, es, x) \/ InFrame(T, p, due, es, x) \/ FrameRead(p, due, es, x)

(* The text shown, the event in hand and the events due say g, as far as it is
   sure; after a bad end a failure was or will be reported. *)
Agrees(T, c, p, es, x, g, sure, bad) ==
  /\ sure => CompareBy(c, (p.shown ++ x) ++ Said(T, es)) = CompareBy(c, g)
  /\ bad => p.failed \/ p.event = "error" \/ Errs(es)

Flow(T, c, p, w, g, sure, bad) ==
  \E es \in Str(Events(T)), x \in Str(T) :
    Stage(T, p, p.buf ++ w, es, x) /\ Agrees(T, c, p, es, x, g, sure, bad)

(* The fields of a page. *)
LEMMA PageFields ==
  ASSUME NEW T, NEW p \in Pages(T)
  PROVE  /\ p.buf \in Str(T) /\ p.event \in Kinds /\ p.filled \in BOOLEAN
         /\ p.data \in Str(T) /\ p.shown \in Str(T) /\ p.failed \in BOOLEAN
BY DEF Pages

(* Two sequences of events report a failure if one of them does. *)
LEMMA ErrsCat ==
  ASSUME NEW U, NEW a \in Str(U), NEW b \in Str(U)
  PROVE  Errs(a ++ b) <=> Errs(a) \/ Errs(b)
<1>1. Len(a) \in Nat /\ Len(b) \in Nat /\ Len(a ++ b) = Len(a) + Len(b)
  BY LengthTyped
<1>2. ASSUME NEW k \in 1..Len(a), a[k].event = "error" PROVE Errs(a ++ b)
  <2>1. (a ++ b)[k] = a[k] /\ k \in 1..Len(a ++ b)
    BY <1>1, CatLeft
  <2> QED BY <1>2, <2>1 DEF Errs
<1>3. ASSUME NEW k \in 1..Len(b), b[k].event = "error" PROVE Errs(a ++ b)
  <2>1. (a ++ b)[Len(a) + k] = b[k] /\ Len(a) + k \in 1..Len(a ++ b)
    BY <1>1, CatRight
  <2> QED BY <1>3, <2>1 DEF Errs
<1>4. ASSUME NEW i \in 1..Len(a ++ b), (a ++ b)[i].event = "error" PROVE Errs(a) \/ Errs(b)
  <2>1. (a ++ b)[i] = IF i <= Len(a) THEN a[i] ELSE b[i - Len(a)]
    BY <1>1, CatAt
  <2>2. CASE i <= Len(a)
    BY <1>1, <1>4, <2>1, <2>2 DEF Errs
  <2>3. CASE ~(i <= Len(a))
    <3>1. i - Len(a) \in 1..Len(b)
      BY <1>1, <2>3
    <3> QED BY <1>4, <2>1, <2>3, <3>1 DEF Errs
  <2> QED BY <2>2, <2>3
<1> QED BY <1>2, <1>3, <1>4 DEF Errs

(* Two sequences of events, what they say and their bytes. *)
LEMMA SaidCat ==
  ASSUME NEW T, Framing \subseteq T, NEW a \in Str(Events(T)), NEW b \in Str(Events(T))
  PROVE  /\ a ++ b \in Str(Events(T))
         /\ Said(T, a) \in Str(T) /\ Said(T, a ++ b) = Said(T, a) ++ Said(T, b)
         /\ Bytes(a) \in Str(T) /\ Bytes(a ++ b) = Bytes(a) ++ Bytes(b)
<1>1. a ++ b \in Str(Events(T))
  BY CatType
<1>2. Said(T, a) \in Str(T) /\ Said(T, a ++ b) = Said(T, a) ++ Said(T, b)
  BY SaidIs, EachType, EachCat DEF Said
<1>3. Bytes(a) = Each(BytesCode(T), a) /\ Bytes(b) = Each(BytesCode(T), b) /\ Bytes(a) \in Str(T)
  BY BytesIs
<1>4. Bytes(a ++ b) = Each(BytesCode(T), a ++ b)
  BY <1>1, BytesIs
<1>5. Each(BytesCode(T), a ++ b) = Each(BytesCode(T), a) ++ Each(BytesCode(T), b)
  BY BytesIs, EachCat
<1> QED BY <1>1, <1>2, <1>3, <1>4, <1>5

(* The server writes more events. *)
LEMMA FlowMore ==
  ASSUME NEW T, Framing \subseteq T, NEW c, NEW p \in Pages(T), NEW w \in Str(T),
         NEW g \in Str(T), NEW sure, NEW bad, Flow(T, c, p, w, g, sure, bad),
         NEW news \in Str(Events(T)), NEW sure2, NEW bad2,
         sure2 => sure, bad2 => bad \/ Errs(news)
  PROVE  Flow(T, c, p, w ++ Bytes(news), g ++ Said(T, news), sure2, bad2)
<1>1. PICK es \in Str(Events(T)), x \in Str(T) :
        Stage(T, p, p.buf ++ w, es, x) /\ Agrees(T, c, p, es, x, g, sure, bad)
  BY DEF Flow
<1> DEFINE all == es ++ news
           b == Bytes(news)
           n == Said(T, news)
           due == p.buf ++ w
           more == p.buf ++ (w ++ b)
<1>2. /\ all \in Str(Events(T)) /\ Said(T, es) \in Str(T) /\ n \in Str(T)
      /\ Said(T, all) = Said(T, es) ++ n
      /\ Bytes(es) \in Str(T) /\ b \in Str(T) /\ Bytes(all) = Bytes(es) ++ b
  BY SaidCat
<1>3. p.buf \in Str(T) /\ p.shown \in Str(T)
  BY PageFields
<1> HIDE DEF all, b, n
<1>4. due \in Str(T) /\ more = due ++ b
  <2> DEFINE u == p.buf
  <2>1. u \in Str(T) /\ b \in Str(T) /\ w \in Str(T)
    BY <1>2, <1>3
  <2> HIDE DEF u
  <2>2. u ++ w \in Str(T) /\ u ++ (w ++ b) = (u ++ w) ++ b
    BY ONLY <2>1, CatType, CatAssoc
  <2> QED BY <2>2 DEF u
<1> HIDE DEF due, more
<1>5. Stage(T, p, more, all, x)
  <2>1. CASE Between(p, due, es, x)
    <3>1. Between(p, more, all, x)
      BY <1>2, <1>4, <2>1 DEF Between
    <3> QED BY <3>1 DEF Stage
  <2>2. CASE InFrame(T, p, due, es, x)
    <3>1. PICK t \in Str(T) : /\ due = DataFrame(t) ++ Bytes(es)
                              /\ x = IF p.event = "message" THEN Before(p) ++ t ELSE <<>>
      BY <2>2 DEF InFrame
    <3>2. DataFrame(t) \in Str(T)
      BY FrameTyped
    <3>3. (DataFrame(t) ++ Bytes(es)) ++ b = DataFrame(t) ++ (Bytes(es) ++ b)
      BY <1>2, <3>2, CatAssoc
    <3>4. more = DataFrame(t) ++ Bytes(all)
      BY <1>2, <1>4, <3>1, <3>3
    <3>5. InFrame(T, p, more, all, x)
      BY <3>1, <3>4 DEF InFrame
    <3> QED BY <3>5 DEF Stage
  <2>3. CASE FrameRead(p, due, es, x)
    <3>1. Break1 \in Str(T)
      BY FieldsTyped
    <3>2. (Break1 ++ Bytes(es)) ++ b = Break1 ++ (Bytes(es) ++ b)
      BY <1>2, <3>1, CatAssoc
    <3>3. FrameRead(p, more, all, x)
      BY <1>2, <1>4, <2>3, <3>2 DEF FrameRead
    <3> QED BY <3>3 DEF Stage
  <2> QED BY <1>1, <2>1, <2>2, <2>3 DEF Stage, due
<1>6. Agrees(T, c, p, all, x, g ++ n, sure2, bad2)
  <2>1. ASSUME sure2
        PROVE  CompareBy(c, (p.shown ++ x) ++ Said(T, all)) = CompareBy(c, g ++ n)
    <3> DEFINE s == p.shown ++ x
               y == Said(T, es)
    <3>1. CompareBy(c, s ++ y) = CompareBy(c, g)
      BY <1>1, <2>1 DEF Agrees
    <3>2. s \in Str(T) /\ y \in Str(T)
      BY <1>2, <1>3, CatType
    <3> HIDE DEF s, y
    <3>3. s ++ y \in Str(T) /\ s ++ (y ++ n) = (s ++ y) ++ n
      BY <1>2, <3>2, CatType, CatAssoc
    <3>4. CompareBy(c, (s ++ y) ++ n) = CompareBy(c, s ++ y) ++ CompareBy(c, n)
      BY <1>2, <3>3, CompareCat
    <3>5. CompareBy(c, g ++ n) = CompareBy(c, g) ++ CompareBy(c, n)
      BY <1>2, CompareCat
    <3>6. (p.shown ++ x) ++ Said(T, all) = s ++ (y ++ n)
      BY <1>2 DEF s, y
    <3> QED BY ONLY <3>1, <3>3, <3>4, <3>5, <3>6
  <2>2. ASSUME bad2 PROVE p.failed \/ p.event = "error" \/ Errs(all)
    <3>1. Errs(all) <=> Errs(es) \/ Errs(news)
      BY ErrsCat DEF all
    <3> QED BY <1>1, <2>2, <3>1 DEF Agrees
  <2> QED BY <2>1, <2>2 DEF Agrees
<1>7. Flow(T, c, p, w ++ b, g ++ n, sure2, bad2)
  BY <1>2, <1>5, <1>6 DEF Flow, more
<1> QED BY <1>7 DEF b, n

(* The network moves bytes from the wire to the buffer. *)
LEMMA FlowArrives ==
  ASSUME NEW T, NEW c, NEW p \in Pages(T), NEW w \in Str(T), NEW g, NEW sure, NEW bad,
         Flow(T, c, p, w, g, sure, bad), NEW n \in 0..Len(w)
  PROVE  LET q == [p EXCEPT !.buf = @ \o SubSeq(w, 1, n)]
         IN  /\ q \in Pages(T) /\ SubSeq(w, n + 1, Len(w)) \in Str(T)
             /\ Flow(T, c, q, SubSeq(w, n + 1, Len(w)), g, sure, bad)
<1> DEFINE a == SubSeq(w, 1, n)
           b == SubSeq(w, n + 1, Len(w))
           q == [p EXCEPT !.buf = @ \o a]
<1>1. a \in Str(T) /\ b \in Str(T) /\ w = a ++ b /\ p.buf \in Str(T)
  BY CutAt, PageFields
<1> HIDE DEF a, b
<1>2. p.buf ++ a \in Str(T) /\ (p.buf ++ a) ++ b = p.buf ++ w
  <2> DEFINE u == p.buf
  <2>1. u \in Str(T) /\ a \in Str(T) /\ b \in Str(T)
    BY <1>1
  <2> HIDE DEF u
  <2>2. u ++ a \in Str(T) /\ (u ++ a) ++ b = u ++ (a ++ b)
    BY ONLY <2>1, CatType, CatAssoc
  <2> QED BY <1>1, <2>2 DEF u
<1>3. /\ q \in Pages(T) /\ q.buf = p.buf ++ a /\ q.event = p.event /\ q.filled = p.filled
      /\ q.data = p.data /\ q.shown = p.shown /\ q.failed = p.failed
  BY <1>2 DEF Pages, ++
<1> HIDE DEF q
<1>4. Flow(T, c, q, b, g, sure, bad)
  <2>1. PICK es \in Str(Events(T)), x \in Str(T) :
          Stage(T, p, p.buf ++ w, es, x) /\ Agrees(T, c, p, es, x, g, sure, bad)
    BY DEF Flow
  <2>2. q.buf ++ b = p.buf ++ w
    BY <1>2, <1>3
  <2> DEFINE due == p.buf ++ w
  <2> HIDE DEF due
  <2>3. Before(q) = Before(p)
    BY <1>3 DEF Before
  <2>4. Stage(T, q, due, es, x)
    BY <1>3, <2>1, <2>3 DEF Stage, Between, InFrame, FrameRead, due
  <2>5. Agrees(T, c, q, es, x, g, sure, bad)
    BY <1>3, <2>1 DEF Agrees
  <2> QED BY <2>2, <2>4, <2>5 DEF Flow, due
<1> QED BY <1>1, <1>3, <1>4 DEF q, a, b

-----------------------------------------------------------------------------
(* One line of the parser. *)
(* Where the lines in the buffer end. *)
LineEndsOf(p) == {k \in 1..Len(p.buf) : p.buf[k] = "\n"}

(* The page after one line has been read. *)
NextPage(p) ==
  Feed([p EXCEPT !.buf = SubSeq(@, Min(LineEndsOf(p)) + 1, Len(@))],
       SubSeq(p.buf, 1, Min(LineEndsOf(p)) - 1))

(* The first complete line in the buffer is the first line of what is due. *)
LEMMA LineRead ==
  ASSUME NEW T, Framing \subseteq T, NEW p \in Pages(T), NEW w \in Str(T),
         NEW u \in Str(T), NEW v \in Str(T), NoBreak(u), LineEndsOf(p) # {},
         p.buf ++ w = u ++ (Break1 ++ v)
  PROVE  \E q \in Pages(T) :
            /\ q.buf ++ w = v /\ NextPage(p) = Feed(q, u)
            /\ q.event = p.event /\ q.filled = p.filled /\ q.data = p.data
            /\ q.shown = p.shown /\ q.failed = p.failed
<1> DEFINE buf == p.buf
           end == Min({k \in 1..Len(buf) : buf[k] = "\n"})
           r == SubSeq(buf, end + 1, Len(buf))
           q == [p EXCEPT !.buf = r]
<1>1. buf \in Str(T) /\ Break1 \in Str(T)
  BY PageFields, FieldsTyped
<1>2. SubSeq(buf, 1, end - 1) = u /\ r \in Str(T) /\ r ++ w = v
  <2>1. buf ++ w = u ++ (Break1 ++ v) /\ {k \in 1..Len(buf) : buf[k] = "\n"} # {}
    BY DEF LineEndsOf
  <2> HIDE DEF buf
  <2> QED BY <1>1, <2>1, FirstLine
<1>3. NextPage(p) = Feed(q, SubSeq(buf, 1, end - 1))
  BY DEF NextPage, LineEndsOf
<1> HIDE DEF r, buf, end
<1>4. /\ q \in Pages(T) /\ q.buf = r /\ q.event = p.event /\ q.filled = p.filled
      /\ q.data = p.data /\ q.shown = p.shown /\ q.failed = p.failed
  BY <1>2 DEF Pages
<1> HIDE DEF q
<1> QED BY <1>2, <1>3, <1>4

(* The parser at a data line: SseLineParser.Feed, parseSseBlock. *)
LEMMA FeedData ==
  ASSUME NEW T, Framing \subseteq T, NEW q \in Pages(T), NEW u \in Str(T)
  PROVE  \E r \in Pages(T), y \in Str(T) :
            /\ r = Feed(q, DataField ++ u)
            /\ r.buf = q.buf /\ r.event = q.event /\ r.filled /\ r.data = Before(q) ++ y
            /\ r.shown = q.shown /\ r.failed = q.failed
            /\ CompareBy(client, y) = CompareBy(client, u)
<1> DEFINE line == DataField ++ u
           s == <<" ">> ++ u
           y == Value(s)
<1>1. "data:" \in T /\ " " \in T /\ "\n" \in T
  BY FramingIn
<1>2. s \in Str(T) /\ <<" ">> \in Str(T) /\ <<"data:">> \in Str(T)
  BY <1>1, HeadTail, StrOne
<1>3. line = <<"data:">> ++ s
  <2>1. DataField = <<"data:">> ++ <<" ">>
    BY <1>1, TwoAreCat DEF DataField
  <2> DEFINE a == <<"data:">>
             b == <<" ">>
  <2>3. a \in Str(T) /\ b \in Str(T)
    BY <1>2
  <2> HIDE DEF a, b
  <2>2. (a ++ b) ++ u = a ++ (b ++ u)
    BY ONLY <2>3, CatAssoc
  <2> QED BY <2>1, <2>2 DEF a, b
<1>4. y \in Str(T) /\ CompareBy(client, y) = CompareBy(client, u)
  BY <1>1, ValueOfLine
<1> HIDE DEF s, y
<1>5. line # <<>> /\ Head(line) = "data:" /\ Tail(line) = s
  <2> HIDE DEF line
  <2> DEFINE c == "data:"
  <2>1. c \in T /\ s \in Str(T) /\ line = <<c>> ++ s
    BY <1>1, <1>2, <1>3
  <2> HIDE DEF c
  <2>2. /\ <<c>> ++ s # <<>> /\ Head(<<c>> ++ s) = c /\ Tail(<<c>> ++ s) = s
    BY ONLY <2>1, HeadTail
  <2> QED BY <2>1, <2>2 DEF c
<1> HIDE DEF line
<1>6. Before(q) \in Str(T) /\ Before(q) ++ y \in Str(T)
  <2>1. q.data \in Str(T) /\ Break1 \in Str(T)
    BY PageFields, FieldsTyped
  <2>2. q.data ++ Break1 \in Str(T)
    BY <2>1, CatType
  <2>3. Before(q) \in Str(T)
    BY <2>2, StrEmpty DEF Before
  <2> QED BY <1>4, <2>3, CatType
<1> DEFINE d == Before(q) ++ y
           r == [q EXCEPT !.filled = TRUE, !.data = d]
<1>7. Feed(q, line) = r
  <2>1. (IF q.filled THEN q.data \o <<"\n">> ELSE <<>>) \o Value(Tail(line)) = d
    BY <1>5 DEF Before, ++, Break1, y
  <2> HIDE DEF d
  <2> QED BY <1>5, <2>1 DEF Feed
<1> HIDE DEF d
<1>8. /\ r \in Pages(T) /\ r.buf = q.buf /\ r.event = q.event /\ r.filled /\ r.data = d
      /\ r.shown = q.shown /\ r.failed = q.failed
  BY <1>6 DEF Pages, d
<1> HIDE DEF r
<1> QED BY <1>4, <1>7, <1>8 DEF d, line

(* The parser at an event line. *)
LEMMA FeedEvent ==
  ASSUME NEW T, NEW q \in Pages(T), NEW k \in Kinds
  PROVE  \E r \in Pages(T) :
            /\ r = Feed(q, EventLine(k))
            /\ r.buf = q.buf /\ r.event = k /\ r.filled = q.filled /\ r.data = q.data
            /\ r.shown = q.shown /\ r.failed = q.failed
<1> DEFINE r == [q EXCEPT !.event = k]
<1>1. EventLine(k) # <<>> /\ Head(EventLine(k)) = "event:" /\ EventLine(k)[2] = k
  BY DEF EventLine
<1>2. Feed(q, EventLine(k)) = r
  BY <1>1 DEF Feed
<1>3. /\ r \in Pages(T) /\ r.buf = q.buf /\ r.event = k /\ r.filled = q.filled
      /\ r.data = q.data /\ r.shown = q.shown /\ r.failed = q.failed
  BY DEF Pages
<1> HIDE DEF r
<1> QED BY <1>2, <1>3

(* The parser at the end of a frame. *)
LEMMA CompletePage ==
  ASSUME NEW T, NEW q \in Pages(T)
  PROVE  \E r \in Pages(T) :
            /\ r = CompleteFrame(q)
            /\ r.buf = q.buf /\ r.event = "message" /\ ~r.filled /\ r.data = <<>>
            /\ r.shown = q.shown ++ (IF q.event = "message" THEN q.data ELSE <<>>)
            /\ (r.failed <=> q.failed \/ q.event = "error")
<1>0. q.event \in Kinds /\ q.shown \in Str(T) /\ q.data \in Str(T) /\ q.failed \in BOOLEAN
  BY PageFields
<1> DEFINE e == q.event
           x == q.shown ++ (IF e = "message" THEN q.data ELSE <<>>)
           f == IF e = "error" THEN TRUE ELSE q.failed
           r == [q EXCEPT !.event = "message", !.filled = FALSE, !.data = <<>>,
                          !.shown = x, !.failed = f]
<1>1. x \in Str(T) /\ q.shown ++ <<>> = q.shown
  BY <1>0, StrEmpty, CatType, CatEmpty
<1>2. f \in BOOLEAN /\ (f <=> q.failed \/ e = "error")
  BY <1>0
<1>3. CompleteFrame(q) = r
  <2>1. CASE e = "message"
    <3>1. x = q.shown ++ q.data /\ f = q.failed
      BY <2>1
    <3> HIDE DEF x, f
    <3>2. Show(q) = [q EXCEPT !.shown = x]
      BY <2>1, <3>1 DEF Show, ++
    <3> QED BY <3>1, <3>2 DEF CompleteFrame, Pages
  <2>2. CASE e = "error"
    <3>1. x = q.shown /\ f = TRUE
      BY <1>1, <2>2
    <3> HIDE DEF x, f
    <3>2. Show(q) = [q EXCEPT !.failed = f]
      BY <2>2, <3>1 DEF Show
    <3> QED BY <3>1, <3>2 DEF CompleteFrame, Pages
  <2>3. CASE e \in {"tool", "done"}
    <3>1. x = q.shown /\ f = q.failed
      BY <1>1, <2>3
    <3> HIDE DEF x, f
    <3>2. Show(q) = q
      BY <2>3 DEF Show
    <3> QED BY <3>1, <3>2 DEF CompleteFrame, Pages
  <2> QED BY <1>0, <2>1, <2>2, <2>3 DEF Kinds
<1> HIDE DEF x, f
<1>4. /\ r \in Pages(T) /\ r.buf = q.buf /\ r.event = "message" /\ ~r.filled /\ r.data = <<>>
      /\ r.shown = x /\ r.failed = f
  BY <1>1, <1>2, StrEmpty DEF Pages, Kinds
<1> HIDE DEF r
<1> QED BY <1>2, <1>3, <1>4 DEF x

(* A client inside a frame reads one of its data lines. *)
LEMMA ReadsData ==
  ASSUME NEW T, Framing \subseteq T, NEW p \in Pages(T), NEW w \in Str(T),
         NEW g, NEW sure, NEW bad, LineEndsOf(p) # {},
         NEW es \in Str(Events(T)), NEW x \in Str(T),
         InFrame(T, p, p.buf ++ w, es, x), Agrees(T, client, p, es, x, g, sure, bad)
  PROVE  NextPage(p) \in Pages(T) /\ Flow(T, client, NextPage(p), w, g, sure, bad)
<1>1. PICK t \in Str(T) : /\ p.buf ++ w = DataFrame(t) ++ Bytes(es)
                          /\ x = IF p.event = "message" THEN Before(p) ++ t ELSE <<>>
  BY DEF InFrame
<1>2. /\ Break1 \in Str(T) /\ DataField \in Str(T) /\ "\n" \in T
      /\ Bytes(es) \in Str(T) /\ Said(T, es) \in Str(T)
  BY FieldsTyped, FramingIn, SaidCat
<1>3. p.shown \in Str(T) /\ p.data \in Str(T) /\ Before(p) \in Str(T)
  <2>1. p.shown \in Str(T) /\ p.data \in Str(T)
    BY PageFields
  <2>2. p.data ++ Break1 \in Str(T)
    BY <1>2, <2>1, CatType
  <2> QED BY <2>1, <2>2, StrEmpty DEF Before
(* A line of the frame that says u: what is read of it compares equal to u. *)
<1>4. ASSUME NEW u \in Str(T), NoBreak(u), NEW v \in Str(T),
             p.buf ++ w = (DataField ++ u) ++ (Break1 ++ v)
      PROVE  \E r \in Pages(T), y \in Str(T) :
               /\ r = NextPage(p) /\ r.buf ++ w = v
               /\ r.event = p.event /\ r.filled /\ r.data = Before(p) ++ y
               /\ r.shown = p.shown /\ r.failed = p.failed
               /\ CompareBy(client, y) = CompareBy(client, u)
  <2>1. DataField ++ u \in Str(T) /\ NoBreak(DataField ++ u)
    <3>1. Len(DataField) = 2 /\ DataField[1] # "\n" /\ DataField[2] # "\n"
      BY DEF DataField
    <3>2. DataField ++ u \in Str(T) /\ Len(u) \in Nat /\ Len(DataField ++ u) = 2 + Len(u)
      BY <1>2, <3>1, LengthTyped
    <3>3. \A i \in 1..Len(DataField) + Len(u) :
            (DataField ++ u)[i] = IF i <= Len(DataField) THEN DataField[i] ELSE u[i - Len(DataField)]
      BY <1>2, CatAt
    <3>4. ASSUME NEW i \in 1..Len(DataField ++ u) PROVE (DataField ++ u)[i] # "\n"
      <4>1. CASE i <= 2
        <5>1. i = 1 \/ i = 2
          BY <3>2, <4>1
        <5> QED BY <3>1, <3>2, <3>3, <4>1, <5>1
      <4>2. CASE ~(i <= 2)
        <5>1. i - 2 \in 1..Len(u)
          BY <3>2, <4>2
        <5>2. u[i - 2] # "\n"
          BY <1>4, <5>1 DEF NoBreak
        <5> QED BY <3>1, <3>2, <3>3, <4>2, <5>2
      <4> QED BY <4>1, <4>2
    <3> QED BY <3>2, <3>4 DEF NoBreak
  <2>2. PICK q \in Pages(T) :
            /\ q.buf ++ w = v /\ NextPage(p) = Feed(q, DataField ++ u)
            /\ q.event = p.event /\ q.filled = p.filled /\ q.data = p.data
            /\ q.shown = p.shown /\ q.failed = p.failed
    BY <1>4, <2>1, LineRead
  <2>3. PICK r \in Pages(T), y \in Str(T) :
            /\ r = Feed(q, DataField ++ u)
            /\ r.buf = q.buf /\ r.event = q.event /\ r.filled /\ r.data = Before(q) ++ y
            /\ r.shown = q.shown /\ r.failed = q.failed
            /\ CompareBy(client, y) = CompareBy(client, u)
    <3>1. Framing \subseteq T
      OBVIOUS
    <3>2. \A a \in Pages(T), b \in Str(T) : \E r \in Pages(T), y \in Str(T) :
            /\ r = Feed(a, DataField ++ b)
            /\ r.buf = a.buf /\ r.event = a.event /\ r.filled /\ r.data = Before(a) ++ y
            /\ r.shown = a.shown /\ r.failed = a.failed
            /\ CompareBy(client, y) = CompareBy(client, b)
      BY ONLY <3>1, FeedData
    <3> QED BY ONLY <3>2
  <2>4. Before(q) = Before(p)
    BY <2>2 DEF Before
  <2> QED BY <2>2, <2>3, <2>4
(* Said with y in place of u it still agrees. *)
<1>5. ASSUME NEW u \in Str(T), NEW y \in Str(T), CompareBy(client, y) = CompareBy(client, u),
             NEW v \in Str(T), NEW r \in Pages(T), NEW z, t = u ++ v,
             z = IF p.event = "message" THEN (Before(p) ++ y) ++ v ELSE <<>>,
             r.event = p.event, r.shown = p.shown, r.failed = p.failed
      PROVE  z \in Str(T) /\ Agrees(T, client, r, es, z, g, sure, bad)
  <2> DEFINE h == p.shown
             b == Before(p)
             k == Said(T, es)
             C(s) == CompareBy(client, s)
  <2>1. h \in Str(T) /\ b \in Str(T) /\ k \in Str(T) /\ r.shown = h
    BY <1>2, <1>3, <1>5
  <2>2. sure => C((h ++ x) ++ k) = C(g)
    BY DEF Agrees
  <2>3. CASE p.event = "message"
    <3>1. x = b ++ (u ++ v) /\ z = (b ++ y) ++ v
      BY <1>1, <1>5, <2>3
    <3> HIDE DEF h, b, k
    <3>2. z \in Str(T)
      BY <2>1, <3>1, CatType
    <3>3. (h ++ x) ++ k = (h ++ b) ++ (u ++ (v ++ k))
      <4>1. v ++ k \in Str(T) /\ u ++ v \in Str(T) /\ h ++ b \in Str(T) /\ u ++ (v ++ k) \in Str(T)
        BY <2>1, CatType
      <4>2. (u ++ v) ++ k = u ++ (v ++ k)
        BY <2>1, CatAssoc
      <4>3. h ++ (b ++ (u ++ v)) = (h ++ b) ++ (u ++ v)
        BY <2>1, <4>1, CatAssoc
      <4>4. ((h ++ b) ++ (u ++ v)) ++ k = (h ++ b) ++ ((u ++ v) ++ k)
        BY <2>1, <4>1, CatAssoc
      <4> QED BY ONLY <3>1, <4>2, <4>3, <4>4
    <3>4. (h ++ z) ++ k = (h ++ b) ++ (y ++ (v ++ k))
      <4>1. v ++ k \in Str(T) /\ y ++ v \in Str(T) /\ h ++ b \in Str(T) /\ y ++ (v ++ k) \in Str(T)
        BY <2>1, CatType
      <4>2. (y ++ v) ++ k = y ++ (v ++ k)
        BY <2>1, CatAssoc
      <4>5. (b ++ y) ++ v = b ++ (y ++ v)
        BY <2>1, CatAssoc
      <4>3. h ++ (b ++ (y ++ v)) = (h ++ b) ++ (y ++ v)
        BY <2>1, <4>1, CatAssoc
      <4>4. ((h ++ b) ++ (y ++ v)) ++ k = (h ++ b) ++ ((y ++ v) ++ k)
        BY <2>1, <4>1, CatAssoc
      <4> QED BY ONLY <3>1, <4>2, <4>3, <4>4, <4>5
    <3>5. C((h ++ b) ++ (u ++ (v ++ k))) = C((h ++ b) ++ (y ++ (v ++ k)))
      <4> DEFINE m == h ++ b
                 n == v ++ k
      <4>1. m \in Str(T) /\ n \in Str(T)
        BY <2>1, CatType
      <4> HIDE DEF m, n
      <4>2. u ++ n \in Str(T) /\ y ++ n \in Str(T)
        BY <4>1, CatType
      <4>3. C(m ++ (u ++ n)) = C(m) ++ C(u ++ n) /\ C(m ++ (y ++ n)) = C(m) ++ C(y ++ n)
        BY <4>1, <4>2, CompareCat
      <4>4. C(u ++ n) = C(u) ++ C(n) /\ C(y ++ n) = C(y) ++ C(n)
        BY <4>1, CompareCat
      <4>5. C(m ++ (u ++ n)) = C(m ++ (y ++ n))
        BY ONLY <4>3, <4>4, <1>5
      <4> QED BY <4>5 DEF m, n
    <3>6. sure => C((h ++ z) ++ k) = C(g)
      BY ONLY <2>2, <3>3, <3>4, <3>5
    <3>7. bad => r.failed \/ r.event = "error" \/ Errs(es)
      BY <1>5 DEF Agrees
    <3> QED BY <2>1, <3>2, <3>6, <3>7 DEF Agrees, k
  <2>4. CASE p.event # "message"
    <3>1. z = x
      BY <1>1, <1>5, <2>4
    <3> QED BY <1>5, <2>1, <2>2, <3>1 DEF Agrees
  <2> QED BY <2>3, <2>4
<1>6. CASE ~NoBreak(t)
  <2>1. PICK u, v \in Str(T) : NoBreak(u) /\ t = u ++ (Break1 ++ v)
    BY <1>2, <1>6, FirstBreak
  <2>2. DataFrame(v) \in Str(T) /\ DataFrame(t) = (DataField ++ u) ++ (Break1 ++ DataFrame(v))
    BY <2>1, FrameTyped, FrameBreak
  <2>3. p.buf ++ w = (DataField ++ u) ++ (Break1 ++ (DataFrame(v) ++ Bytes(es)))
    <3> DEFINE a == DataField ++ u
               b == DataFrame(v)
               c == Bytes(es)
               d == Break1
    <3>1. a \in Str(T) /\ b \in Str(T) /\ c \in Str(T) /\ d \in Str(T)
      BY <1>2, <2>2, CatType
    <3> HIDE DEF a, b, c, d
    <3>2. d ++ b \in Str(T)
      BY <3>1, CatType
    <3>3. (a ++ (d ++ b)) ++ c = a ++ ((d ++ b) ++ c)
      BY <3>1, <3>2, CatAssoc
    <3>4. (d ++ b) ++ c = d ++ (b ++ c)
      BY <3>1, CatAssoc
    <3>5. p.buf ++ w = (a ++ (d ++ b)) ++ c
      BY <1>1, <2>2 DEF a, b, c, d
    <3>6. p.buf ++ w = a ++ (d ++ (b ++ c))
      BY ONLY <3>3, <3>4, <3>5
    <3> QED BY <3>6 DEF a, b, c, d
  <2>4. DataFrame(v) ++ Bytes(es) \in Str(T)
    BY <1>2, <2>2, CatType
  <2>5. PICK r \in Pages(T), y \in Str(T) :
               /\ r = NextPage(p) /\ r.buf ++ w = DataFrame(v) ++ Bytes(es)
               /\ r.event = p.event /\ r.filled /\ r.data = Before(p) ++ y
               /\ r.shown = p.shown /\ r.failed = p.failed
               /\ CompareBy(client, y) = CompareBy(client, u)
    BY <1>4, <2>1, <2>3, <2>4
  <2> DEFINE z == IF p.event = "message" THEN (Before(p) ++ y) ++ (Break1 ++ v) ELSE <<>>
  <2>6. z \in Str(T) /\ Agrees(T, client, r, es, z, g, sure, bad)
    <3>1. Break1 ++ v \in Str(T)
      BY <1>2, CatType
    <3> QED BY <1>5, <2>1, <2>5, <3>1
  <2>7. z = IF r.event = "message" THEN Before(r) ++ v ELSE <<>>
    <3>1. Before(r) = (Before(p) ++ y) ++ Break1
      BY <2>5 DEF Before
    <3>2. Before(p) ++ y \in Str(T)
      BY <1>3, CatType
    <3>3. ((Before(p) ++ y) ++ Break1) ++ v = (Before(p) ++ y) ++ (Break1 ++ v)
      BY <1>2, <3>2, CatAssoc
    <3> QED BY <2>5, <3>1, <3>3
  <2> HIDE DEF z
  <2>8. Stage(T, r, r.buf ++ w, es, z)
    BY <2>5, <2>7 DEF Stage, InFrame
  <2>9. Flow(T, client, r, w, g, sure, bad)
    BY <2>6, <2>8 DEF Flow
  <2> QED BY <2>5, <2>9
<1>7. CASE NoBreak(t)
  <2>1. DataFrame(t) = (DataField ++ t) ++ (Break1 ++ Break1)
    BY <1>7, FrameLine
  <2>3. p.buf ++ w = (DataField ++ t) ++ (Break1 ++ (Break1 ++ Bytes(es)))
    <3> DEFINE a == DataField ++ t
               c == Bytes(es)
               d == Break1
    <3>1. a \in Str(T) /\ c \in Str(T) /\ d \in Str(T)
      BY <1>2, CatType
    <3> HIDE DEF a, c, d
    <3>2. d ++ d \in Str(T)
      BY <3>1, CatType
    <3>3. (a ++ (d ++ d)) ++ c = a ++ ((d ++ d) ++ c)
      BY <3>1, <3>2, CatAssoc
    <3>4. (d ++ d) ++ c = d ++ (d ++ c)
      BY <3>1, CatAssoc
    <3>5. p.buf ++ w = (a ++ (d ++ d)) ++ c
      BY <1>1, <2>1 DEF a, c, d
    <3>6. p.buf ++ w = a ++ (d ++ (d ++ c))
      BY ONLY <3>3, <3>4, <3>5
    <3> QED BY <3>6 DEF a, c, d
  <2>4. Break1 ++ Bytes(es) \in Str(T)
    BY <1>2, CatType
  <2>5. PICK r \in Pages(T), y \in Str(T) :
               /\ r = NextPage(p) /\ r.buf ++ w = Break1 ++ Bytes(es)
               /\ r.event = p.event /\ r.filled /\ r.data = Before(p) ++ y
               /\ r.shown = p.shown /\ r.failed = p.failed
               /\ CompareBy(client, y) = CompareBy(client, t)
    BY <1>4, <1>7, <2>3, <2>4
  <2> DEFINE z == IF p.event = "message" THEN (Before(p) ++ y) ++ <<>> ELSE <<>>
  <2>6. z \in Str(T) /\ Agrees(T, client, r, es, z, g, sure, bad)
    <3>1. <<>> \in Str(T) /\ t = t ++ <<>>
      BY StrEmpty, CatEmpty
    <3> QED BY <1>5, <2>5, <3>1
  <2>7. z = IF r.event = "message" THEN r.data ELSE <<>>
    <3>1. Before(p) ++ y \in Str(T)
      BY <1>3, CatType
    <3>2. (Before(p) ++ y) ++ <<>> = Before(p) ++ y
      BY <3>1, CatEmpty
    <3> QED BY <2>5, <3>2
  <2> HIDE DEF z
  <2>8. Stage(T, r, r.buf ++ w, es, z)
    BY <2>5, <2>7 DEF Stage, FrameRead
  <2>9. Flow(T, client, r, w, g, sure, bad)
    BY <2>6, <2>8 DEF Flow
  <2> QED BY <2>5, <2>9
<1> QED BY <1>6, <1>7

(* A client at the end of a frame reads its blank line: the event is complete. *)
LEMMA ReadsBlank ==
  ASSUME NEW T, Framing \subseteq T, NEW p \in Pages(T), NEW w \in Str(T),
         NEW g, NEW sure, NEW bad, LineEndsOf(p) # {},
         NEW es \in Str(Events(T)), NEW x \in Str(T),
         FrameRead(p, p.buf ++ w, es, x), Agrees(T, client, p, es, x, g, sure, bad)
  PROVE  NextPage(p) \in Pages(T) /\ Flow(T, client, NextPage(p), w, g, sure, bad)
<1>1. /\ Break1 \in Str(T) /\ Bytes(es) \in Str(T) /\ <<>> \in Str(T)
      /\ Break1 ++ Bytes(es) \in Str(T) /\ p.shown \in Str(T)
  BY FieldsTyped, SaidCat, StrEmpty, CatType, PageFields
<1>2. p.buf ++ w = <<>> ++ (Break1 ++ Bytes(es)) /\ NoBreak(<<>>)
  BY <1>1, CatEmpty DEF FrameRead, NoBreak
<1>3. PICK q \in Pages(T) :
            /\ q.buf ++ w = Bytes(es) /\ NextPage(p) = Feed(q, <<>>)
            /\ q.event = p.event /\ q.filled = p.filled /\ q.data = p.data
            /\ q.shown = p.shown /\ q.failed = p.failed
  BY <1>1, <1>2, LineRead
<1>4. PICK r \in Pages(T) :
            /\ r = CompleteFrame(q)
            /\ r.buf = q.buf /\ r.event = "message" /\ ~r.filled /\ r.data = <<>>
            /\ r.shown = q.shown ++ (IF q.event = "message" THEN q.data ELSE <<>>)
            /\ (r.failed <=> q.failed \/ q.event = "error")
  BY CompletePage
<1>5. NextPage(p) = r
  BY <1>3, <1>4 DEF Feed
<1>6. Stage(T, r, r.buf ++ w, es, <<>>)
  BY <1>3, <1>4 DEF Stage, Between
<1>7. r.shown = p.shown ++ x
  BY <1>3, <1>4 DEF FrameRead
<1>8. r.shown ++ <<>> = p.shown ++ x
  <2>1. p.shown ++ x \in Str(T)
    BY <1>1, CatType
  <2> QED BY <1>7, <2>1, CatEmpty
<1>9. Agrees(T, client, r, es, <<>>, g, sure, bad)
  BY <1>3, <1>4, <1>8 DEF Agrees
<1>10. Flow(T, client, r, w, g, sure, bad)
  BY <1>1, <1>6, <1>9 DEF Flow
<1> QED BY <1>5, <1>10

(* A client between two events reads the first line of the next. *)
LEMMA ReadsFirst ==
  ASSUME NEW T, Framing \subseteq T, NEW p \in Pages(T), NEW w \in Str(T),
         NEW g, NEW sure, NEW bad, LineEndsOf(p) # {},
         NEW es \in Str(Events(T)), NEW x \in Str(T),
         Between(p, p.buf ++ w, es, x), Agrees(T, client, p, es, x, g, sure, bad)
  PROVE  NextPage(p) \in Pages(T) /\ Flow(T, client, NextPage(p), w, g, sure, bad)
<1>1. p.buf \in Str(T) /\ p.shown \in Str(T) /\ Break1 \in Str(T) /\ <<>> \in Str(T)
  BY PageFields, FieldsTyped, StrEmpty
<1>2. /\ p.event = "message" /\ ~p.filled /\ p.data = <<>> /\ p.buf ++ w = Bytes(es) /\ x = <<>>
  BY DEF Between
<1>3. es # <<>>
  <2> SUFFICES ASSUME es = <<>> PROVE FALSE
    OBVIOUS
  <2>1. Bytes(es) = <<>>
    BY BytesIs, EachEmpty
  <2>2. Len(p.buf ++ w) = Len(p.buf) + Len(w) /\ Len(p.buf) \in Nat /\ Len(w) \in Nat
    BY <1>1, LengthTyped
  <2>3. Len(p.buf) = 0
    BY <1>2, <2>1, <2>2
  <2> QED BY <2>3 DEF LineEndsOf
<1>4. PICK e \in Events(T), fs \in Str(Events(T)) : es = <<e>> ++ fs
  BY <1>3, FirstOf
<1>5. /\ Bytes(es) = EventBytes(e) ++ Bytes(fs)
      /\ Said(T, es) = (IF e.event = "message" THEN e.data ELSE <<>>) ++ Said(T, fs)
  BY <1>4, BytesFirst DEF Said
<1>6. e.event \in Kinds /\ e.data \in Str(T)
  BY DEF Events
<1>7. Bytes(fs) \in Str(T) /\ Said(T, fs) \in Str(T) /\ DataFrame(e.data) \in Str(T)
  BY <1>6, SaidCat, FrameTyped
<1>8. Errs(es) => e.event = "error" \/ Errs(fs)
  <2>1. <<e>> \in Str(Events(T))
    BY StrOne
  <2>2. Errs(es) <=> Errs(<<e>>) \/ Errs(fs)
    BY <1>4, <2>1, ErrsCat
  <2>3. Errs(<<e>>) => e.event = "error"
    BY DEF Errs
  <2> QED BY <2>2, <2>3
<1>9. sure => CompareBy(client, p.shown ++ Said(T, es)) = CompareBy(client, g)
  <2>1. p.shown ++ x = p.shown
    BY <1>1, <1>2, CatEmpty
  <2> QED BY <2>1 DEF Agrees
<1>10. CASE e.event = "message"
  <2> DEFINE z == Before(p) ++ e.data
  <2>1. z = e.data /\ z \in Str(T)
    BY <1>2, <1>6, CatEmpty DEF Before
  <2>2. InFrame(T, p, p.buf ++ w, fs, z)
    BY <1>2, <1>5, <1>6, <1>10 DEF InFrame, EventBytes
  <2> HIDE DEF z
  <2>3. Agrees(T, client, p, fs, z, g, sure, bad)
    <3>1. (p.shown ++ z) ++ Said(T, fs) = p.shown ++ (z ++ Said(T, fs))
      <4> DEFINE h == p.shown
                 k == Said(T, fs)
      <4>1. h \in Str(T) /\ k \in Str(T)
        BY <1>1, <1>7
      <4> HIDE DEF h, k
      <4>2. (h ++ z) ++ k = h ++ (z ++ k)
        BY <2>1, <4>1, CatAssoc
      <4> QED BY <4>2 DEF h, k
    <3>2. Said(T, es) = z ++ Said(T, fs)
      BY <1>5, <1>10, <2>1
    <3>3. sure => CompareBy(client, (p.shown ++ z) ++ Said(T, fs)) = CompareBy(client, g)
      BY <1>9, <3>1, <3>2
    <3>4. bad => p.failed \/ p.event = "error" \/ Errs(fs)
      BY <1>8, <1>10 DEF Agrees
    <3> QED BY <3>3, <3>4 DEF Agrees
  <2> QED BY <2>1, <2>2, <2>3, ReadsData
<1>11. CASE e.event # "message"
  <2> DEFINE k == e.event
             d == DataFrame(e.data)
             b == Bytes(fs)
             l == EventLine(k)
  <2>1. l \in Str(T) /\ NoBreak(l) /\ d \in Str(T) /\ b \in Str(T)
    <3>1. l \in Str(T)
      BY <1>6, <1>11, EventLineTyped
    <3>2. Len(l) = 2 /\ l[1] # "\n" /\ l[2] # "\n"
      BY <1>6 DEF EventLine, Kinds
    <3> QED BY <1>7, <3>1, <3>2 DEF NoBreak
  <2>2. p.buf ++ w = (l ++ (Break1 ++ d)) ++ b
    BY <1>2, <1>5, <1>11 DEF EventBytes
  <2> HIDE DEF l, d, b
  <2>3. (l ++ (Break1 ++ d)) ++ b = l ++ (Break1 ++ (d ++ b)) /\ d ++ b \in Str(T)
    <3> DEFINE n == Break1
    <3>0. n \in Str(T)
      BY <1>1
    <3> HIDE DEF n
    <3>1. n ++ d \in Str(T) /\ d ++ b \in Str(T)
      BY <2>1, <3>0, CatType
    <3>2. (l ++ (n ++ d)) ++ b = l ++ ((n ++ d) ++ b)
      BY <2>1, <3>1, CatAssoc
    <3>3. (n ++ d) ++ b = n ++ (d ++ b)
      BY <2>1, <3>0, CatAssoc
    <3> QED BY <3>1, <3>2, <3>3 DEF n
  <2>4. PICK q \in Pages(T) :
            /\ q.buf ++ w = d ++ b /\ NextPage(p) = Feed(q, l)
            /\ q.event = p.event /\ q.filled = p.filled /\ q.data = p.data
            /\ q.shown = p.shown /\ q.failed = p.failed
    BY <2>1, <2>2, <2>3, LineRead
  <2>5. PICK r \in Pages(T) :
            /\ r = Feed(q, l)
            /\ r.buf = q.buf /\ r.event = k /\ r.filled = q.filled /\ r.data = q.data
            /\ r.shown = q.shown /\ r.failed = q.failed
    BY <1>6, FeedEvent DEF l
  <2>6. Stage(T, r, r.buf ++ w, fs, <<>>)
    <3>1. InFrame(T, r, r.buf ++ w, fs, <<>>)
      BY <1>6, <1>11, <2>4, <2>5 DEF InFrame, d, b
    <3> QED BY <3>1 DEF Stage
  <2>7. Agrees(T, client, r, fs, <<>>, g, sure, bad)
    <3>1. r.shown ++ <<>> = p.shown
      BY <1>1, <2>4, <2>5, CatEmpty
    <3>2. Said(T, es) = Said(T, fs)
      BY <1>5, <1>7, <1>11, CatEmpty
    <3>3. sure => CompareBy(client, (r.shown ++ <<>>) ++ Said(T, fs)) = CompareBy(client, g)
      BY <1>9, <3>1, <3>2
    <3>4. bad => r.failed \/ r.event = "error" \/ Errs(fs)
      BY <1>2, <1>8, <2>4, <2>5 DEF Agrees
    <3> QED BY <3>3, <3>4 DEF Agrees
  <2>8. Flow(T, client, r, w, g, sure, bad)
    BY <1>1, <2>6, <2>7 DEF Flow
  <2> QED BY <2>4, <2>5, <2>8
<1> QED BY <1>10, <1>11

(* A line that the client reads takes it from one stage to the next: ReadLine. *)
LEMMA FlowReads ==
  ASSUME NEW T, Framing \subseteq T, NEW p \in Pages(T), NEW w \in Str(T),
         NEW g, NEW sure, NEW bad, LineEndsOf(p) # {},
         Flow(T, client, p, w, g, sure, bad)
  PROVE  NextPage(p) \in Pages(T) /\ Flow(T, client, NextPage(p), w, g, sure, bad)
<1>1. PICK es \in Str(Events(T)), x \in Str(T) :
        Stage(T, p, p.buf ++ w, es, x) /\ Agrees(T, client, p, es, x, g, sure, bad)
  BY DEF Flow
<1>2. CASE Between(p, p.buf ++ w, es, x)
  BY <1>1, <1>2, ReadsFirst
<1>3. CASE InFrame(T, p, p.buf ++ w, es, x)
  BY <1>1, <1>3, ReadsData
<1>4. CASE FrameRead(p, p.buf ++ w, es, x)
  BY <1>1, <1>4, ReadsBlank
<1> QED BY <1>1, <1>2, <1>3, <1>4 DEF Stage

(* Two line breaks in a row. *)
LEMMA BreaksAt ==
  ASSUME NEW T, NEW a \in Str(T), NEW b \in Str(T), NEW i \in Str(T),
         Len(i) = 1, i[1] = "\n"
  PROVE  LET s == a ++ ((i ++ i) ++ b)
         IN  /\ s[Len(a) + 1] = "\n" /\ s[Len(a) + 2] = "\n"
             /\ Len(a) + 1 \in 1..Len(s) /\ Len(a) + 2 \in 1..Len(s)
<1> DEFINE d == i ++ i
           q == d ++ b
           s == a ++ q
<1>2. d \in Str(T) /\ Len(d) = 2 /\ d[1] = "\n" /\ d[2] = "\n"
  <2>1. d \in Str(T) /\ Len(d) = 2
    <3>1. d \in Str(T)
      BY CatType
    <3>2. Len(d) = Len(i) + Len(i)
      BY ONLY LengthTyped
    <3> QED BY <3>1, <3>2
  <2>2. 1 \in 1..Len(i) /\ Len(i) + 1 = 2
    OBVIOUS
  <2>3. d[1] = i[1]
    BY <2>2, CatLeft
  <2>4. d[Len(i) + 1] = i[1]
    <3>1. 1 \in 1..Len(i)
      BY <2>2
    <3> DEFINE k == 1
    <3>2. k \in 1..Len(i)
      BY <3>1
    <3> HIDE DEF k
    <3>3. d[Len(i) + k] = i[k]
      BY ONLY <3>2, CatRight
    <3> QED BY <3>3 DEF k
  <2> QED BY <2>1, <2>2, <2>3, <2>4
<1> HIDE DEF d
<1>3. q \in Str(T) /\ Len(q) = 2 + Len(b) /\ Len(b) \in Nat /\ q[1] = "\n" /\ q[2] = "\n"
  <2>1. q \in Str(T) /\ Len(q) = 2 + Len(b) /\ Len(b) \in Nat
    BY <1>2, LengthTyped
  <2>2. 1 \in 1..Len(d) /\ 2 \in 1..Len(d)
    BY <1>2
  <2>3. q[1] = d[1] /\ q[2] = d[2]
    BY <1>2, <2>2, CatLeft
  <2> QED BY <1>2, <2>1, <2>3
<1> HIDE DEF q
<1>4. Len(s) = Len(a) + Len(q) /\ Len(a) \in Nat
  BY <1>3, LengthTyped
<1>5. 1 \in 1..Len(q) /\ 2 \in 1..Len(q)
  BY <1>3
<1>6. s[Len(a) + 1] = q[1] /\ s[Len(a) + 2] = q[2]
  BY <1>3, <1>5, CatRight
<1>7. Len(a) + 1 \in 1..Len(s) /\ Len(a) + 2 \in 1..Len(s)
  BY <1>3, <1>4
<1>8. s[Len(a) + 1] = "\n" /\ s[Len(a) + 2] = "\n"
  BY <1>3, <1>6
<1> QED BY <1>7, <1>8 DEF s, q, d

(* A frame ends with two line breaks. *)
LEMMA FrameEnds ==
  ASSUME NEW T, Framing \subseteq T, NEW t \in Str(T), NEW b \in Str(T), NEW s,
         s = DataFrame(t) ++ b
  PROVE  \E k \in 1..Len(s) : k + 1 \in 1..Len(s) /\ s[k] = "\n" /\ s[k + 1] = "\n"
<1> DEFINE a == DataField ++ Encoded(t)
           d == Break1 ++ Break1
<1>1. DataFrame(t) = a ++ d
  <2>1. DataFrame(t) = (DataField ++ Encoded(t)) ++ <<"\n", "\n">>
    BY DEF DataFrame, DataField, ++
  <2> QED BY <2>1, FieldsTyped
<1>2. a \in Str(T) /\ Break1 \in Str(T) /\ d \in Str(T)
  <2>1. DataField \in Str(T) /\ Encoded(t) \in Str(T) /\ Break1 \in Str(T)
    BY FieldsTyped, EncodedIs
  <2> QED BY <2>1, CatType
<1> HIDE DEF a
<1>3. s = a ++ (d ++ b)
  <2> HIDE DEF d
  <2> QED BY <1>1, <1>2, CatAssoc
<1>4. /\ s[Len(a) + 1] = "\n" /\ s[Len(a) + 2] = "\n"
      /\ Len(a) + 1 \in 1..Len(s) /\ Len(a) + 2 \in 1..Len(s)
  <2> DEFINE i == Break1
  <2>1. Len(i) = 1 /\ i[1] = "\n"
    BY DEF Break1
  <2>2. i \in Str(T) /\ s = a ++ ((i ++ i) ++ b)
    BY <1>2, <1>3
  <2> HIDE DEF i
  <2>3. LET z == a ++ ((i ++ i) ++ b)
        IN  /\ z[Len(a) + 1] = "\n" /\ z[Len(a) + 2] = "\n"
            /\ Len(a) + 1 \in 1..Len(z) /\ Len(a) + 2 \in 1..Len(z)
    BY ONLY <1>2, <2>1, <2>2, BreaksAt
  <2> QED BY <2>2, <2>3
<1>5. Len(a) \in Nat
  BY <1>2, StrLen
<1> DEFINE k == Len(a) + 1
<1>6. k + 1 = Len(a) + 2
  BY <1>5
<1>7. k \in 1..Len(s) /\ k + 1 \in 1..Len(s) /\ s[k] = "\n" /\ s[k + 1] = "\n"
  BY <1>4, <1>6
<1> HIDE DEF k
<1> QED BY <1>7

(* All is received, and nothing of it is left to read. *)
LEMMA FlowEnds ==
  ASSUME NEW T, Framing \subseteq T, NEW c, NEW p \in Pages(T), NEW g, NEW sure, NEW bad,
         Flow(T, c, p, <<>>, g, sure, bad),
         \/ LineEndsOf(p) = {}
         \/ /\ p.event = "message" /\ ~p.filled
            /\ \A k \in LineEndsOf(p) : k + 1 \notin LineEndsOf(p)
  PROVE  /\ p.buf = <<>> /\ p.event = "message" /\ ~p.filled /\ p.data = <<>>
         /\ sure => CompareBy(c, p.shown) = CompareBy(c, g)
         /\ bad => p.failed
<1>1. PICK es \in Str(Events(T)), x \in Str(T) :
        Stage(T, p, p.buf ++ <<>>, es, x) /\ Agrees(T, c, p, es, x, g, sure, bad)
  BY DEF Flow
<1>2. p.buf \in Str(T) /\ p.shown \in Str(T) /\ p.buf ++ <<>> = p.buf /\ Bytes(es) \in Str(T)
      /\ Break1 \in Str(T)
  BY PageFields, CatEmpty, SaidCat, FieldsTyped
<1>3. ASSUME NEW k \in 1..Len(p.buf), k + 1 \in 1..Len(p.buf),
             p.buf[k] = "\n", p.buf[k + 1] = "\n"
      PROVE  FALSE
  BY <1>3 DEF LineEndsOf
<1>4. ~InFrame(T, p, p.buf, es, x)
  <2> SUFFICES ASSUME InFrame(T, p, p.buf, es, x) PROVE FALSE
    OBVIOUS
  <2>1. PICK t \in Str(T) : p.buf = DataFrame(t) ++ Bytes(es)
    BY DEF InFrame
  <2> DEFINE s == p.buf
  <2>2. \E k \in 1..Len(s) : k + 1 \in 1..Len(s) /\ s[k] = "\n" /\ s[k + 1] = "\n"
    <3>1. s = DataFrame(t) ++ Bytes(es)
      BY <2>1
    <3> HIDE DEF s
    <3> DEFINE b == Bytes(es)
    <3>2. Framing \subseteq T /\ b \in Str(T) /\ s = DataFrame(t) ++ b
      BY <1>2, <3>1
    <3> HIDE DEF b
    <3> QED BY ONLY <3>2, FrameEnds
  <2> QED BY <1>3, <2>2
<1>5. ~FrameRead(p, p.buf, es, x)
  <2> SUFFICES ASSUME FrameRead(p, p.buf, es, x) PROVE FALSE
    OBVIOUS
  <2>1. p.filled /\ p.buf = Break1 ++ Bytes(es)
    BY DEF FrameRead
  <2>2. Len(Break1) = 1 /\ Break1[1] = "\n" /\ 1 \in 1..Len(Break1)
    BY DEF Break1
  <2>3. p.buf[1] = "\n"
    <3>1. (Break1 ++ Bytes(es))[1] = Break1[1]
      BY <1>2, <2>2, CatLeft
    <3> QED BY <2>1, <2>2, <3>1
  <2>4. 1 \in 1..Len(p.buf)
    <3>1. /\ Len(Break1 ++ Bytes(es)) = Len(Break1) + Len(Bytes(es)) /\ Len(Bytes(es)) \in Nat
      BY <1>2, LengthTyped
    <3> QED BY <2>1, <2>2, <3>1
  <2> QED BY <2>1, <2>3, <2>4 DEF LineEndsOf
<1>6. Between(p, p.buf, es, x)
  BY <1>1, <1>2, <1>4, <1>5 DEF Stage
<1>7. es = <<>>
  <2> SUFFICES ASSUME es # <<>> PROVE FALSE
    OBVIOUS
  <2>1. PICK e \in Events(T), fs \in Str(Events(T)) : es = <<e>> ++ fs
    BY FirstOf
  <2>2. e.event \in Kinds /\ e.data \in Str(T) /\ Bytes(fs) \in Str(T) /\ DataFrame(e.data) \in Str(T)
    <3>1. e.event \in Kinds /\ e.data \in Str(T)
      BY DEF Events
    <3> QED BY <3>1, SaidCat, FrameTyped
  <2>3. p.buf = EventBytes(e) ++ Bytes(fs)
    BY <1>6, <2>1, BytesFirst DEF Between
  <2>4. CASE e.event = "message"
    <3> DEFINE s == p.buf
    <3>1. s = DataFrame(e.data) ++ Bytes(fs)
      BY <2>3, <2>4 DEF EventBytes
    <3>0. Framing \subseteq T /\ e.data \in Str(T) /\ Bytes(fs) \in Str(T)
      BY <2>2
    <3> HIDE DEF s
    <3> DEFINE t == e.data
               b == Bytes(fs)
    <3>3. t \in Str(T) /\ b \in Str(T) /\ s = DataFrame(t) ++ b
      BY <3>0, <3>1
    <3> HIDE DEF t, b
    <3>2. \E k \in 1..Len(s) : k + 1 \in 1..Len(s) /\ s[k] = "\n" /\ s[k + 1] = "\n"
      BY ONLY <3>0, <3>3, FrameEnds
    <3> QED BY <1>3, <3>2 DEF s
  <2>5. CASE e.event # "message"
    <3> DEFINE s == p.buf
               l == EventLine(e.event)
               d == DataFrame(e.data)
               b == Bytes(fs)
               m == l ++ Break1
               n == d ++ b
    <3>1. l \in Str(T) /\ d \in Str(T) /\ b \in Str(T)
      BY <2>2, <2>5, EventLineTyped
    <3>2. s = (l ++ (Break1 ++ d)) ++ b
      BY <2>3, <2>5 DEF EventBytes
    <3> HIDE DEF l
    <3>3. s = m ++ n
      <4> DEFINE i == Break1
      <4> HIDE DEF d, b, i, s
      <4>1. i \in Str(T)
        BY <1>2 DEF i
      <4>2. i ++ d \in Str(T) /\ l ++ (i ++ d) = (l ++ i) ++ d /\ l ++ i \in Str(T)
        BY <3>1, <4>1, CatType, CatAssoc
      <4>3. ((l ++ i) ++ d) ++ b = (l ++ i) ++ (d ++ b)
        BY <3>1, <4>2, CatAssoc
      <4>4. s = (l ++ (i ++ d)) ++ b
        BY <3>2 DEF i
      <4>5. s = (l ++ i) ++ (d ++ b)
        BY ONLY <4>2, <4>3, <4>4
      <4> QED BY <4>5 DEF i
    <3>4. m \in Str(T) /\ Len(m) \in Nat
      BY <1>2, <3>1, CatType, StrLen
    <3>5. \E k \in 1..Len(n) : k + 1 \in 1..Len(n) /\ n[k] = "\n" /\ n[k + 1] = "\n"
      <4> DEFINE t == e.data
      <4>1. Framing \subseteq T /\ t \in Str(T) /\ b \in Str(T) /\ n = DataFrame(t) ++ b
        BY <2>2
      <4> HIDE DEF n, t, b
      <4> QED BY ONLY <4>1, FrameEnds
    <3>6. PICK k \in 1..Len(n) : k + 1 \in 1..Len(n) /\ n[k] = "\n" /\ n[k + 1] = "\n"
      BY <3>5
    <3>7. n \in Str(T) /\ Len(n) \in Nat
      BY <3>1, CatType, StrLen
    <3> HIDE DEF m, n, s, d, b
    <3>8. s[Len(m) + k] = "\n" /\ s[Len(m) + (k + 1)] = "\n" /\ Len(s) = Len(m) + Len(n)
      <4>1. (m ++ n)[Len(m) + k] = n[k] /\ (m ++ n)[Len(m) + (k + 1)] = n[k + 1]
        BY ONLY <3>4, <3>6, <3>7, CatRight
      <4>2. Len(m ++ n) = Len(m) + Len(n)
        BY ONLY <3>4, <3>7, LengthTyped
      <4> QED BY <3>3, <3>6, <4>1, <4>2
    <3> DEFINE j == Len(m) + k
    <3>9. j \in 1..Len(s) /\ j + 1 \in 1..Len(s) /\ j + 1 = Len(m) + (k + 1)
      BY <3>4, <3>6, <3>7, <3>8
    <3> HIDE DEF j
    <3>10. s[j] = "\n" /\ s[j + 1] = "\n"
      BY <3>8, <3>9 DEF j
    <3> QED BY <1>3, <3>9, <3>10 DEF s
  <2> QED BY <2>4, <2>5
<1>8. p.buf = <<>> /\ Said(T, es) = <<>> /\ ~Errs(es) /\ x = <<>>
  <2>1. Bytes(es) = <<>>
    BY <1>7, BytesIs, EachEmpty
  <2>2. Said(T, es) = <<>>
    BY <1>7, EachEmpty DEF Said
  <2>3. ~Errs(es)
    BY <1>7 DEF Errs
  <2> QED BY <1>6, <2>1, <2>2, <2>3 DEF Between
<1>9. (p.shown ++ x) ++ Said(T, es) = p.shown
  BY <1>2, <1>8, CatEmpty
<1> QED BY <1>1, <1>6, <1>8, <1>9 DEF Between, Agrees

-----------------------------------------------------------------------------
(* What a step of the generator says. *)
(* One event. *)
LEMMA OneEvent ==
  ASSUME NEW T, NEW k \in Kinds, NEW d \in Str(T)
  PROVE  /\ <<Event(k, d)>> \in Str(Events(T))
         /\ Said(T, <<Event(k, d)>>) = IF k = "message" THEN d ELSE <<>>
         /\ Errs(<<Event(k, d)>>) <=> k = "error"
<1> DEFINE e == Event(k, d)
<1>1. e \in Events(T) /\ e.event = k /\ e.data = d
  BY DEF Event, Events
<1> HIDE DEF e
<1>2. <<e>> \in Str(Events(T)) /\ Len(<<e>>) = 1 /\ <<e>>[1] = e
  BY <1>1, StrOne
<1>3. Said(T, <<e>>) = SaidCode(T)[e]
  BY <1>1, SaidIs, EachOne DEF Said
<1>4. SaidCode(T)[e] = IF k = "message" THEN d ELSE <<>>
  BY <1>1 DEF SaidCode
<1>5. Errs(<<e>>) <=> k = "error"
  BY <1>1, <1>2 DEF Errs
<1> QED BY <1>2, <1>3, <1>4, <1>5 DEF e

(* No event says nothing. *)
LEMMA NoEvent ==
  ASSUME NEW T
  PROVE  <<>> \in Str(Events(T)) /\ Said(T, <<>>) = <<>> /\ ~Errs(<<>>)
<1>1. Said(T, <<>>) = <<>>
  BY EachEmpty DEF Said
<1> QED BY <1>1, StrEmpty DEF Errs

(* A piece of the answer is one event with its text, or none. *)
LEMMA PieceIs ==
  ASSUME TableOK, NEW from \in 0..Len(text), NEW to \in from..Len(text)
  PROVE  /\ Piece(from, to) \in Str(Events(Symbols))
         /\ Said(Symbols, Piece(from, to)) = Deanonymize(SubSeq(text, from + 1, to))
<1>1. text \in Seq(Symbols) /\ Len(text) \in Nat
  BY SymbolsHold, StrLen DEF Str
<1> DEFINE s == SubSeq(text, from + 1, to)
<1>2. s \in Str(Symbols)
  BY <1>1, SubSeqProperties DEF Str
<1>3. Deanonymize(s) \in Str(Symbols)
  BY <1>2, DeanonymizeTyped
<1>4. CASE from = to
  <2>1. s = <<>>
    BY <1>1, <1>4, SubSeqEmpty
  <2>2. Piece(from, to) = <<>>
    BY <1>4 DEF Piece
  <2> QED BY <2>1, <2>2, DeanonymizeEmpty, NoEvent
<1>5. CASE from # to
  <2> DEFINE d == Deanonymize(s)
             k == "message"
  <2>1. Piece(from, to) = <<Event(k, d)>>
    BY <1>5 DEF Piece
  <2>2. d \in Str(Symbols) /\ k \in Kinds /\ k = "message"
    BY <1>3 DEF Kinds
  <2> HIDE DEF d, k
  <2>3. <<Event(k, d)>> \in Str(Events(Symbols)) /\ Said(Symbols, <<Event(k, d)>>) = d
    BY <2>2, OneEvent
  <2> QED BY <2>1, <2>3 DEF d
<1> QED BY <1>4, <1>5

(* What the table makes of the text that has left the generator. *)
Goal == PutAll(LongestFirst, SubSeq(text, 1, sent))

(* The events of a step say what the step has added to it. *)
LEMMA PiecesSay ==
  ASSUME TableOK, UNCHANGED <<text, table>>, StreamInv, StreamInv', cuts \subseteq cuts'
  PROVE  /\ Pieces \in Str(Events(Symbols)) /\ Said(Symbols, Pieces) \in Str(Symbols)
         /\ Goal \in Str(Symbols)
         /\ Clean => Goal' = Goal ++ Said(Symbols, Pieces)
<1>1. /\ Len(text) \in Nat /\ sent \in 0..Len(text) /\ sent' \in 0..Len(text)
      /\ sent \in cuts' /\ sent' \in cuts' /\ cuts' \subseteq 0..Len(text)
      /\ \A c \in cuts' : c <= sent'
  BY ConstantsAssumption DEF StreamInv, StreamTypeOK, BufferIsHeld
<1>2. \A c \in cuts' : \A a, b \in 1..Len(text) : (a < b /\ Tag(a, b)) => ~(a <= c /\ c < b)
  BY DEF StreamInv, NoTagTorn, Tag, Bracket
<1> DEFINE first == Min({c \in cuts' : sent < c} \cup {sent'})
<1>3. first \in cuts' /\ sent <= first /\ first <= sent'
  <2> DEFINE S == {c \in cuts' : sent < c} \cup {sent'}
  <2>2. \A y \in S : y \in cuts' /\ sent <= y
    BY <1>1
  <2>1. S \in SUBSET Nat /\ S # {} /\ sent' \in S
    <3>1. \A y \in S : y \in Nat
      BY <1>1, <2>2
    <3>2. sent' \in S
      OBVIOUS
    <3> HIDE DEF S
    <3> QED BY <3>1, <3>2
  <2> HIDE DEF S
  <2>3. Min(S) \in S /\ \A y \in S : Min(S) <= y
    BY <2>1, MinIs
  <2>4. Min(S) \in cuts' /\ sent <= Min(S) /\ Min(S) <= sent'
    BY <2>1, <2>2, <2>3
  <2> QED BY <2>4 DEF S
<1> HIDE DEF first
<1>4. /\ first \in 0..Len(text) /\ first \in sent..Len(text)
      /\ sent' \in first..Len(text)
  BY <1>1, <1>3
<1> DEFINE P == Piece(sent, first)
           Q == Piece(first, sent')
           x == Deanonymize(SubSeq(text, sent + 1, first))
           y == Deanonymize(SubSeq(text, first + 1, sent'))
<1>5. Pieces = P ++ Q
  BY DEF Pieces, first, ++
<1>6. P \in Str(Events(Symbols)) /\ Said(Symbols, P) = x
  BY <1>1, <1>4, PieceIs
<1>7. Q \in Str(Events(Symbols)) /\ Said(Symbols, Q) = y
  <2> DEFINE to == sent'
  <2>1. to \in first..Len(text)
    BY <1>4
  <2> HIDE DEF to
  <2>2. /\ Piece(first, to) \in Str(Events(Symbols))
        /\ Said(Symbols, Piece(first, to)) = Deanonymize(SubSeq(text, first + 1, to))
    BY <1>4, <2>1, PieceIs
  <2> QED BY <2>2 DEF to
<1> HIDE DEF P, Q
<1>8. /\ P ++ Q \in Str(Events(Symbols))
      /\ Said(Symbols, P) \in Str(Symbols) /\ Said(Symbols, Q) \in Str(Symbols)
      /\ Said(Symbols, P ++ Q) = Said(Symbols, P) ++ Said(Symbols, Q)
      /\ Said(Symbols, P ++ Q) \in Str(Symbols)
  <2>1. Framing \subseteq Symbols
    BY SymbolsHold
  <2>2. /\ P ++ Q \in Str(Events(Symbols))
        /\ Said(Symbols, P) \in Str(Symbols) /\ Said(Symbols, Q) \in Str(Symbols)
        /\ Said(Symbols, P ++ Q) = Said(Symbols, P) ++ Said(Symbols, Q)
    BY <1>6, <1>7, <2>1, SaidCat
  <2> QED BY <2>2, CatType
<1>9. Goal = Deanonymize(SubSeq(text, 1, sent)) /\ Goal \in Str(Symbols)
  <2>1. SubSeq(text, 1, sent) \in Str(Symbols)
    BY <1>1, SymbolsHold, CutAt
  <2>2. Goal = Deanonymize(SubSeq(text, 1, sent))
    BY DEF Goal, Deanonymize
  <2> QED BY <2>1, <2>2, DeanonymizeTyped
<1>10. Goal' = Deanonymize(SubSeq(text, 1, sent'))
  <2>1. LongestFirst' = LongestFirst
    BY DEF LongestFirst, OfKind
  <2>2. Goal' = PutAll(LongestFirst', SubSeq(text', 1, sent'))
    BY DEF Goal
  <2> QED BY <2>1, <2>2 DEF Deanonymize
<1>11. ASSUME Clean PROVE Goal' = Goal ++ Said(Symbols, Pieces)
  <2> DEFINE to == sent'
             z == Deanonymize(SubSeq(text, 1, first))
  <2>1. to \in first..Len(text) /\ Goal' = Deanonymize(SubSeq(text, 1, to))
        /\ y = Deanonymize(SubSeq(text, first + 1, to))
    BY <1>4, <1>10
  <2> HIDE DEF to, x, y
  <2>2. Deanonymize(SubSeq(text, 1, to)) = z ++ Deanonymize(SubSeq(text, first + 1, to))
    BY <1>2, <1>3, <1>4, <1>11, <2>1, PieceSeam
  <2>3. z = Deanonymize(SubSeq(text, 1, sent)) ++ x
    BY <1>1, <1>2, <1>4, <1>11, PieceSeam DEF x
  <2> HIDE DEF z
  <2>4. Goal' = (Goal ++ x) ++ y
    BY <1>9, <2>1, <2>2, <2>3
  <2>5. (Goal ++ x) ++ y = Goal ++ (x ++ y)
    BY <1>6, <1>7, <1>8, <1>9, CatAssoc
  <2> QED BY <1>5, <1>6, <1>7, <1>8, <2>4, <2>5
<1> QED BY <1>5, <1>8, <1>9, <1>11

(* How the response ends. *)
LEMMA EndingIs ==
  ASSUME NEW T, Framing \subseteq T
  PROVE  /\ Ending \in Str(Events(T))
         /\ ~(phase' \notin {"open", "ended"} /\ path # "stream") => Said(T, Ending) = <<>>
         /\ phase' \notin {"open", "ended"} /\ path = "stream" => Errs(Ending)
<1>1. <<>> \in Str(T) /\ <<"failure">> \in Str(T)
  BY FramingIn, StrEmpty, StrOne
<1>2. {"message", "done", "error"} \subseteq Kinds
  BY DEF Kinds
<1> DEFINE done == <<Event("done", <<>>)>>
           error == <<Event("error", <<"failure">>)>>
           told == <<Event("message", <<"failure">>)>>
<1>3. done \in Str(Events(T)) /\ Said(T, done) = <<>>
  <2> DEFINE k == "done"
  <2>1. k \in Kinds /\ k # "message"
    BY <1>2
  <2> HIDE DEF k
  <2>2. <<Event(k, <<>>)>> \in Str(Events(T)) /\ Said(T, <<Event(k, <<>>)>>) = <<>>
    BY <1>1, <2>1, OneEvent
  <2> QED BY <2>2 DEF k
<1>4. error \in Str(Events(T)) /\ Said(T, error) = <<>> /\ Errs(error)
  <2> DEFINE k == "error"
             d == <<"failure">>
  <2>1. k \in Kinds /\ k # "message" /\ k = "error" /\ d \in Str(T)
    BY <1>1, <1>2
  <2> HIDE DEF k, d
  <2>2. <<Event(k, d)>> \in Str(Events(T)) /\ Said(T, <<Event(k, d)>>) = <<>> /\ Errs(<<Event(k, d)>>)
    BY <2>1, OneEvent
  <2> QED BY <2>2 DEF k, d
<1>5. told \in Str(Events(T))
  <2> DEFINE k == "message"
             d == <<"failure">>
  <2>1. k \in Kinds /\ d \in Str(T)
    BY <1>1, <1>2
  <2> HIDE DEF k, d
  <2>2. <<Event(k, d)>> \in Str(Events(T))
    BY <2>1, OneEvent
  <2> QED BY <2>2 DEF k, d
<1>6. <<Event("message", <<"failure">>), Event("done", <<>>)>> \in Str(Events(T))
  <2> DEFINE a == Event("message", <<"failure">>)
             b == Event("done", <<>>)
  <2>1. a \in Events(T) /\ b \in Events(T)
    BY <1>1, <1>2 DEF Event, Events
  <2> HIDE DEF a, b
  <2>2. <<a, b>> \in Str(Events(T))
    BY <2>1, TwoAreCat
  <2> QED BY <2>2 DEF a, b
<1>7. <<>> \in Str(Events(T)) /\ Said(T, <<>>) = <<>>
  BY NoEvent
<1> DEFINE both == <<Event("message", <<"failure">>), Event("done", <<>>)>>
<1>8. Ending = IF phase' = "open" THEN <<>> ELSE IF phase' = "ended" THEN done
               ELSE IF path = "stream" THEN error ELSE both
  BY DEF Ending
<1> HIDE DEF done, error, told, both
<1>9. both \in Str(Events(T))
  BY <1>6 DEF both
<1> QED BY <1>3, <1>4, <1>7, <1>8, <1>9

(* Only as far as it is sure matters what the text should be. *)
LEMMA FlowGoal ==
  ASSUME NEW T, NEW c, NEW p, NEW w, NEW g, NEW h, NEW sure, NEW bad,
         Flow(T, c, p, w, g, sure, bad), sure => g = h
  PROVE  Flow(T, c, p, w, h, sure, bad)
<1>1. PICK es \in Str(Events(T)), x \in Str(T) :
        Stage(T, p, p.buf ++ w, es, x) /\ Agrees(T, c, p, es, x, g, sure, bad)
  BY DEF Flow
<1>2. Agrees(T, c, p, es, x, h, sure, bad)
  BY <1>1 DEF Agrees
<1> QED BY <1>1, <1>2 DEF Flow

-----------------------------------------------------------------------------
(* The invariant of the chat. *)
(* Whether what the client shows is known, and whether it must hear of a failure. *)
Sure == Clean /\ ~(phase = "failed" /\ path = "tools")
Bad == phase = "failed" /\ path = "stream"

FlowHere == Flow(Symbols, client, page, wire, Goal, Sure, Bad)

ChatShape ==
  /\ TableOK
  /\ path \in {"stream", "tools"} /\ client \in {"browser", "addin"}
  /\ link \in {"up", "closed", "cut"}
  /\ page \in Pages(Symbols) /\ wire \in Str(Symbols)
  /\ phase = "ended" => sent = Len(text)

InFlight == link = "up" => history = <<>> /\ FlowHere

Reset == link = "cut" => history = <<>>

Kept ==
  link = "closed" =>
    /\ phase # "open" /\ history \in {<<>>, <<page.shown>>}
    /\ history # <<>> /\ Sure =>
         phase = "ended" /\ CompareBy(client, page.shown) = CompareBy(client, Deanonymize(text))

ChatInv == StreamInv /\ ChatShape /\ InFlight /\ Reset /\ Kept

(* What depends only on the message, the answer and the table. *)
LEMMA SameTable ==
  ASSUME UNCHANGED <<mail, text, table>>
  PROVE  /\ TableOK' <=> TableOK
         /\ Symbols' = Symbols
         /\ Clean' <=> Clean
         /\ LongestFirst' = LongestFirst
BY DEF TableOK, Symbols, Clean, EndsOpen, LongestFirst, OfKind

(* What depends on the generator. *)
LEMMA SameGoal ==
  ASSUME UNCHANGED <<mail, text, table, sent, phase, path>>
  PROVE  Goal' = Goal /\ (Sure' <=> Sure) /\ (Bad' <=> Bad)
<1>1. Goal' = PutAll(LongestFirst', SubSeq(text', 1, sent'))
  BY DEF Goal
<1>2. Goal' = Goal
  BY <1>1, SameTable DEF Goal
<1>3. (Sure' <=> Sure) /\ (Bad' <=> Bad)
  BY SameTable DEF Sure, Bad
<1> QED BY <1>2, <1>3

(* The generator stands still, and so does what it has to say. *)
LEMMA StreamStays ==
  ASSUME StreamInv, UNCHANGED streamVars
  PROVE  StreamInv'
BY StreamStepInv

(* A step of the client. *)
LEMMA ClientMoves ==
  ASSUME ChatInv, UNCHANGED <<streamVars, mail, table, path, client, link, history>>, link = "up",
         page' \in Pages(Symbols), wire' \in Str(Symbols),
         Flow(Symbols, client, page', wire', Goal, Sure, Bad)
  PROVE  ChatInv'
<1>1. UNCHANGED <<mail, text, table, sent, phase, path>> /\ UNCHANGED streamVars
  BY DEF streamVars
<1>2. Symbols' = Symbols /\ Goal' = Goal /\ (Sure' <=> Sure) /\ (Bad' <=> Bad) /\ (TableOK' <=> TableOK)
  BY <1>1, SameTable, SameGoal
<1>3. StreamInv'
  BY <1>1, StreamStays DEF ChatInv
<1>4. ChatShape'
  BY <1>1, <1>2 DEF ChatInv, ChatShape
<1>5. FlowHere'
  <2>1. Sure' \in BOOLEAN /\ Sure \in BOOLEAN /\ Bad' \in BOOLEAN /\ Bad \in BOOLEAN
    BY DEF Sure, Bad, Clean
  <2>2. Sure' = Sure /\ Bad' = Bad
    BY <1>2, <2>1
  <2> QED BY <1>2, <2>2 DEF FlowHere
<1>6. InFlight' /\ Reset' /\ Kept'
  BY <1>5 DEF ChatInv, InFlight, Reset, Kept
<1> QED BY <1>3, <1>4, <1>6 DEF ChatInv

(* Bytes that arrive, cut anywhere. *)
LEMMA ArriveKeeps ==
  ASSUME ChatInv, Arrive
  PROVE  ChatInv'
<1>1. PICK n \in Sizes :
        /\ n <= Len(wire) /\ wire' = SubSeq(wire, n + 1, Len(wire))
        /\ page' = [page EXCEPT !.buf = @ \o SubSeq(wire, 1, n)]
  BY DEF Arrive
<1>2. n \in 0..Len(wire)
  <2>1. n \in Nat /\ Len(wire) \in Nat
    BY ChatAssumption, StrLen DEF ChatInv, ChatShape
  <2> QED BY <1>1, <2>1
<1>3. /\ link = "up" /\ UNCHANGED <<streamVars, mail, table, path, client, link, history>>
      /\ FlowHere /\ page \in Pages(Symbols) /\ wire \in Str(Symbols)
  BY DEF Arrive, ChatInv, InFlight, ChatShape
<1>4. LET q == [page EXCEPT !.buf = @ \o SubSeq(wire, 1, n)]
      IN  /\ q \in Pages(Symbols) /\ SubSeq(wire, n + 1, Len(wire)) \in Str(Symbols)
          /\ Flow(Symbols, client, q, SubSeq(wire, n + 1, Len(wire)), Goal, Sure, Bad)
  <2>1. Flow(Symbols, client, page, wire, Goal, Sure, Bad)
    BY <1>3 DEF FlowHere
  <2> QED BY <1>2, <1>3, <2>1, FlowArrives
<1>5. /\ page' \in Pages(Symbols) /\ wire' \in Str(Symbols)
      /\ Flow(Symbols, client, page', wire', Goal, Sure, Bad)
  BY <1>1, <1>4
<1> QED BY <1>3, <1>5, ClientMoves

(* A line that is read. *)
LEMMA ReadLineKeeps ==
  ASSUME ChatInv, ReadLine
  PROVE  ChatInv'
<1>1. /\ link = "up" /\ UNCHANGED <<streamVars, mail, table, path, client, wire, link, history>>
      /\ FlowHere /\ page \in Pages(Symbols) /\ wire \in Str(Symbols) /\ TableOK
  BY DEF ReadLine, ChatInv, InFlight, ChatShape
<1>2. LineEndsOf(page) # {} /\ page' = NextPage(page)
  BY DEF ReadLine, Readable, LineEnds, LineEndsOf, NextPage
<1>3. Framing \subseteq Symbols
  BY <1>1, SymbolsHold
<1>4. Flow(Symbols, client, page, wire, Goal, Sure, Bad)
  BY <1>1 DEF FlowHere
<1>5. NextPage(page) \in Pages(Symbols) /\ Flow(Symbols, client, NextPage(page), wire, Goal, Sure, Bad)
  BY <1>1, <1>2, <1>3, <1>4, FlowReads
<1>6. wire' = wire
  BY <1>1
<1> QED BY <1>1, <1>2, <1>5, <1>6, ClientMoves

(* A step of the generator: its pieces say what it has added, and its ending
   reports a failure of the stream. *)
LEMMA GenerateKeeps ==
  ASSUME ChatInv, Generate
  PROVE  ChatInv'
<1>1. /\ phase = "open" /\ cuts \subseteq cuts' /\ text' = text
      /\ phase' \in {"open", "ended", "failed"} /\ (phase' = "ended" => sent' = Len(text))
      /\ UNCHANGED <<mail, table, path, client, link, page, history>>
      /\ wire' = wire \o Bytes(Pieces \o Ending)
  <2>1. UNCHANGED <<mail, table, path, client, link, page, history>>
    BY DEF Generate
  <2>2. wire' = wire \o Bytes(Pieces \o Ending)
    BY DEF Generate
  <2>3. CASE Exhausted
    BY <2>1, <2>2, <2>3 DEF Exhausted
  <2>4. ASSUME NEW n \in 1..Len(text), Deliver(n) \/ \E i \in 1..n : Hold(i, n) \/ GiveUp(i, n)
        PROVE  phase = "open" /\ cuts \subseteq cuts' /\ text' = text /\ phase' = "open"
    BY <2>4 DEF Deliver, Hold, GiveUp, Receive
  <2>5. CASE DeliverBlock
    BY <2>1, <2>2, <2>5 DEF DeliverBlock
  <2>6. CASE ProviderFails
    BY <2>1, <2>2, <2>6 DEF ProviderFails
  <2>7. \/ Exhausted \/ DeliverBlock \/ ProviderFails
        \/ \E n \in 1..Len(text) : Deliver(n) \/ \E i \in 1..n : Hold(i, n) \/ GiveUp(i, n)
    BY DEF Generate
  <2> QED BY <2>1, <2>2, <2>3, <2>4, <2>5, <2>6, <2>7
<1>2. link = "up"
  BY <1>1 DEF ChatInv, ChatShape, Kept, Generate
<1>3. StreamInv /\ StreamInv' /\ TableOK /\ FlowHere /\ history = <<>>
  <2>1. [ChatNext]_allVars
    BY DEF ChatNext
  <2>2. StreamInv'
    BY <2>1, ChatStepIsStream, StreamStepInv DEF ChatInv
  <2> QED BY <1>2, <2>2 DEF ChatInv, ChatShape, InFlight
<1>4. /\ Symbols' = Symbols /\ (Clean' <=> Clean) /\ (TableOK' <=> TableOK)
  BY <1>1, SameTable
<1>5. Framing \subseteq Symbols /\ page \in Pages(Symbols) /\ wire \in Str(Symbols)
  BY <1>3, SymbolsHold DEF ChatInv, ChatShape
<1>6. /\ Pieces \in Str(Events(Symbols)) /\ Said(Symbols, Pieces) \in Str(Symbols)
      /\ Goal \in Str(Symbols)
      /\ Clean => Goal' = Goal ++ Said(Symbols, Pieces)
  BY <1>1, <1>3, PiecesSay
<1>7. /\ Ending \in Str(Events(Symbols))
      /\ Sure' => Said(Symbols, Ending) = <<>>
      /\ Bad' => Errs(Ending)
  BY <1>1, <1>5, EndingIs DEF Sure, Bad, ChatInv, ChatShape
<1> DEFINE news == Pieces ++ Ending
           w == wire ++ Bytes(news)
           g == Goal ++ Said(Symbols, news)
<1>8. /\ news \in Str(Events(Symbols)) /\ Bytes(news) \in Str(Symbols) /\ w \in Str(Symbols)
      /\ Said(Symbols, news) = Said(Symbols, Pieces) ++ Said(Symbols, Ending)
      /\ (Bad' => Errs(news))
  <2>1. Errs(news) <=> Errs(Pieces) \/ Errs(Ending)
    BY <1>6, <1>7, ErrsCat
  <2>2. /\ news \in Str(Events(Symbols))
        /\ Said(Symbols, news) = Said(Symbols, Pieces) ++ Said(Symbols, Ending)
    BY <1>5, <1>6, <1>7, SaidCat
  <2> HIDE DEF news
  <2>3. Bytes(news) \in Str(Symbols)
    BY <1>5, <2>2, BytesIs
  <2>4. w \in Str(Symbols)
    BY <1>5, <2>3, CatType
  <2> QED BY <1>7, <2>1, <2>2, <2>3, <2>4
<1>9. wire' = w
  BY <1>1 DEF ++
<1>10. ASSUME Sure' PROVE Sure /\ g = Goal'
  <2>1. Clean /\ Sure
    BY <1>1, <1>4, <1>10 DEF Sure
  <2>2. Said(Symbols, news) = Said(Symbols, Pieces)
    BY <1>6, <1>7, <1>8, <1>10, CatEmpty
  <2> QED BY <1>6, <2>1, <2>2
<1> HIDE DEF news
<1>11. Flow(Symbols, client, page, w, g, Sure', Bad')
  <2>1. Flow(Symbols, client, page, wire, Goal, Sure, Bad)
    BY <1>3 DEF FlowHere
  <2> DEFINE sure2 == Sure'
             bad2 == Bad'
  <2>2. (sure2 => Sure) /\ (bad2 => Bad \/ Errs(news))
    BY <1>8, <1>10
  <2> HIDE DEF sure2, bad2
  <2>3. Flow(Symbols, client, page, w, g, sure2, bad2)
    BY <1>5, <1>6, <1>8, <2>1, <2>2, FlowMore
  <2> QED BY <2>3 DEF sure2, bad2
<1>12. Flow(Symbols, client, page, w, Goal', Sure', Bad')
  <2> DEFINE sure2 == Sure'
             bad2 == Bad'
             h == Goal'
  <2>1. Flow(Symbols, client, page, w, g, sure2, bad2) /\ (sure2 => g = h)
    BY <1>10, <1>11
  <2> HIDE DEF sure2, bad2, h, g, w
  <2>2. Flow(Symbols, client, page, w, h, sure2, bad2)
    BY <2>1, FlowGoal
  <2> QED BY <2>2 DEF sure2, bad2, h
<1>13. FlowHere'
  <2> HIDE DEF w
  <2> QED BY <1>1, <1>4, <1>9, <1>12 DEF FlowHere
<1>14. ChatShape'
  BY <1>1, <1>4, <1>8, <1>9 DEF ChatInv, ChatShape
<1>15. InFlight' /\ Reset' /\ Kept'
  BY <1>1, <1>2, <1>3, <1>13 DEF InFlight, Reset, Kept
<1> QED BY <1>3, <1>14, <1>15 DEF ChatInv

(* The end of the response: what is shown is all that was said. *)
LEMMA CloseKeeps ==
  ASSUME ChatInv, Close
  PROVE  ChatInv'
<1>1. /\ link = "up" /\ link' = "closed" /\ phase # "open" /\ wire = <<>> /\ ~Readable
      /\ page' = IF client = "addin" THEN CompleteFrame(Feed(page, page.buf)) ELSE page
      /\ history' = IF page'.failed THEN history ELSE Append(history, page'.shown)
      /\ UNCHANGED <<streamVars, mail, table, path, client, wire>>
  BY DEF Close
<1>2. /\ FlowHere /\ history = <<>> /\ page \in Pages(Symbols) /\ TableOK /\ StreamInv
      /\ wire \in Str(Symbols) /\ path \in {"stream", "tools"} /\ client \in {"browser", "addin"}
      /\ phase = "ended" => sent = Len(text)
  BY <1>1 DEF ChatInv, InFlight, ChatShape
<1>3. Framing \subseteq Symbols /\ text \in Str(Symbols)
  BY <1>2, SymbolsHold
<1>4. /\ page.buf = <<>> /\ page.event = "message" /\ ~page.filled /\ page.data = <<>>
      /\ Sure => CompareBy(client, page.shown) = CompareBy(client, Goal)
      /\ Bad => page.failed
  <2>1. Flow(Symbols, client, page, <<>>, Goal, Sure, Bad)
    BY <1>1, <1>2 DEF FlowHere
  <2>2. \/ LineEndsOf(page) = {}
        \/ /\ page.event = "message" /\ ~page.filled
           /\ \A k \in LineEndsOf(page) : k + 1 \notin LineEndsOf(page)
    BY <1>1, <1>2 DEF Readable, LineEnds, LineEndsOf
  <2> QED BY <1>2, <1>3, <2>1, <2>2, FlowEnds
<1>5. page' \in Pages(Symbols) /\ page'.shown = page.shown /\ (page'.failed <=> page.failed)
  <2>1. CASE client = "browser"
    BY <1>1, <1>2, <2>1
  <2>2. CASE client = "addin"
    <3>1. PICK r \in Pages(Symbols) :
            /\ r = CompleteFrame(page)
            /\ r.buf = page.buf /\ r.event = "message" /\ ~r.filled /\ r.data = <<>>
            /\ r.shown = page.shown ++ (IF page.event = "message" THEN page.data ELSE <<>>)
            /\ (r.failed <=> page.failed \/ page.event = "error")
      BY <1>2, CompletePage
    <3>2. PICK q \in Pages(Symbols) :
            /\ q = CompleteFrame(r)
            /\ q.buf = r.buf /\ q.event = "message" /\ ~q.filled /\ q.data = <<>>
            /\ q.shown = r.shown ++ (IF r.event = "message" THEN r.data ELSE <<>>)
            /\ (q.failed <=> r.failed \/ r.event = "error")
      BY <3>1, CompletePage
    <3>3. page.shown ++ <<>> = page.shown
      BY <1>2, PageFields, CatEmpty
    <3>4. q.shown = page.shown /\ (q.failed <=> page.failed)
      BY <1>4, <3>1, <3>2, <3>3
    <3>5. Feed(page, page.buf) = r
      BY <1>4, <3>1 DEF Feed
    <3>6. page' = q
      BY <1>1, <2>2, <3>2, <3>5
    <3> QED BY <3>4, <3>6
  <2> QED BY <1>2, <2>1, <2>2
<1>6. UNCHANGED <<mail, text, table, sent, phase, path>> /\ UNCHANGED streamVars
  BY <1>1 DEF streamVars
<1>7. Symbols' = Symbols /\ Goal' = Goal /\ (Sure' <=> Sure) /\ (TableOK' <=> TableOK)
      /\ LongestFirst' = LongestFirst
  BY <1>6, SameTable, SameGoal
<1>8. StreamInv' /\ ChatShape'
  BY <1>1, <1>2, <1>5, <1>6, <1>7, StreamStays DEF ChatShape
<1>9. history' \in {<<>>, <<page.shown>>} /\ (history' # <<>> => ~page.failed)
  BY <1>1, <1>2, <1>5
<1>10. ASSUME history' # <<>>, Sure
       PROVE  /\ phase = "ended"
              /\ CompareBy(client, page.shown) = CompareBy(client, Deanonymize(text))
  <2>1. phase = "ended"
    <3>1. ~Bad
      BY <1>4, <1>9, <1>10
    <3>2. phase \in {"open", "ended", "failed"}
      BY <1>2 DEF StreamInv, StreamTypeOK
    <3> QED BY <1>1, <1>2, <1>10, <3>1, <3>2 DEF Sure, Bad
  <2>2. SubSeq(text, 1, sent) = text
    BY <1>2, <1>3, <2>1 DEF Str
  <2>3. Goal = Deanonymize(text)
    BY <2>2 DEF Goal, Deanonymize
  <2> QED BY <1>4, <1>10, <2>1, <2>3
<1>11. Kept'
  <2>1. /\ phase' # "open" /\ history' \in {<<>>, <<page'.shown>>}
        /\ phase' = phase /\ client' = client /\ text' = text
    BY <1>1, <1>5, <1>6, <1>9
  <2>2. Deanonymize(text)' = Deanonymize(text)
    BY <1>6, <1>7 DEF Deanonymize
  <2>3. ASSUME history' # <<>>, Sure'
        PROVE  /\ phase' = "ended"
               /\ CompareBy(client', page'.shown) = CompareBy(client', Deanonymize(text)')
    BY <1>5, <1>7, <1>10, <2>1, <2>2, <2>3
  <2> QED BY <2>1, <2>3 DEF Kept
<1>12. InFlight' /\ Reset'
  BY <1>1 DEF InFlight, Reset
<1> QED BY <1>8, <1>11, <1>12 DEF ChatInv

(* An empty page. *)
LEMMA NewPageIs ==
  ASSUME NEW T
  PROVE  NewPage \in Pages(T) /\ NewPage.buf = <<>> /\ NewPage.shown = <<>>
BY StrEmpty DEF NewPage, Pages, Kinds

(* A connection that breaks leaves nothing. *)
LEMMA BreakKeeps ==
  ASSUME ChatInv, Break
  PROVE  ChatInv'
<1>1. /\ link = "up" /\ link' = "cut" /\ wire' = <<>> /\ page' = NewPage /\ history' = history
      /\ UNCHANGED <<streamVars, mail, table, path, client>> /\ history = <<>>
  BY DEF Break, ChatInv, InFlight
<1>2. UNCHANGED <<mail, text, table, sent, phase, path, client>> /\ UNCHANGED streamVars
  BY <1>1 DEF streamVars
<1>3. Symbols' = Symbols /\ (TableOK' <=> TableOK)
  BY <1>2, SameTable
<1>4. StreamInv' /\ ChatShape'
  BY <1>1, <1>2, <1>3, StreamStays, NewPageIs, StrEmpty DEF ChatInv, ChatShape
<1>5. InFlight' /\ Reset' /\ Kept'
  BY <1>1 DEF InFlight, Reset, Kept
<1> QED BY <1>4, <1>5 DEF ChatInv

(* The initial states satisfy the invariant. *)
LEMMA ChatInitInv == ChatInit => ChatInv
<1> SUFFICES ASSUME ChatInit PROVE ChatInv
  OBVIOUS
<1>1. /\ table = Anonymize(mail).table /\ link = "up" /\ page = NewPage /\ history = <<>>
      /\ path \in {"stream", "tools"} /\ client \in {"browser", "addin"}
      /\ wire = (IF path = "tools" THEN Bytes(<<Event("tool", <<"label">>)>>) ELSE <<>>)
      /\ phase = "open" /\ sent = 0 /\ StreamInit
  BY DEF ChatInit, StreamInit
<1>2. TableOK
  <2>1. PICK x \in Exchanges : mail = x[1] /\ text = x[2]
    BY DEF ChatInit
  <2>2. x \in Seq(Chars) \X Texts
    BY ChatAssumption
  <2>3. <<mail, text>> = x
    BY <2>1, <2>2
  <2> QED BY <1>1, <2>3 DEF TableOK
<1>3. StreamInv
  BY <1>1, StreamInitInv
<1>4. Framing \subseteq Symbols
  BY <1>2, SymbolsHold
<1> DEFINE label == <<"label">>
           es == IF path = "tools" THEN <<Event("tool", label)>> ELSE <<>>
<1>5. label \in Str(Symbols)
  BY <1>4, FramingIn, StrOne
<1>6. es \in Str(Events(Symbols)) /\ Said(Symbols, es) = <<>>
  <2> DEFINE k == "tool"
  <2>1. k \in Kinds /\ k # "message"
    BY DEF Kinds
  <2> HIDE DEF k, label
  <2>2. <<Event(k, label)>> \in Str(Events(Symbols)) /\ Said(Symbols, <<Event(k, label)>>) = <<>>
    BY <1>5, <2>1, OneEvent
  <2>3. <<>> \in Str(Events(Symbols)) /\ Said(Symbols, <<>>) = <<>>
    BY NoEvent
  <2> QED BY <2>2, <2>3 DEF k
<1>7. wire = Bytes(es)
  <2>1. Bytes(<<>>) = <<>>
    <3>1. <<>> \in Str(Events(Symbols))
      BY NoEvent
    <3>2. Bytes(<<>>) = Each(BytesCode(Symbols), <<>>)
      BY <1>4, <3>1, BytesIs
    <3> QED BY <3>2, EachEmpty
  <2> QED BY <1>1, <2>1
<1> HIDE DEF es
<1>8. wire \in Str(Symbols)
  BY <1>4, <1>6, <1>7, BytesIs
<1>9. ChatShape
  BY <1>1, <1>2, <1>8, NewPageIs DEF ChatShape
<1>10. Goal = <<>>
  <2>1. SubSeq(text, 1, 0) = <<>>
    BY SubSeqEmpty
  <2> QED BY <1>1, <1>2, <2>1, DeanonymizeEmpty DEF Goal, Deanonymize
<1>11. Flow(Symbols, client, page, wire, Goal, Sure, Bad)
  <2>1. page.buf ++ wire = wire /\ (page.shown ++ <<>>) ++ Said(Symbols, es) = <<>>
    <3>1. page.buf = <<>> /\ page.shown = <<>> /\ <<>> ++ wire = wire
      BY <1>1, <1>8, NewPageIs, CatEmpty
    <3>2. <<>> ++ <<>> = <<>>
      BY DEF ++
    <3> QED BY <1>6, <3>1, <3>2
  <2>2. Between(page, page.buf ++ wire, es, <<>>)
    BY <1>1, <1>7, <2>1 DEF Between, NewPage
  <2>3. Agrees(Symbols, client, page, es, <<>>, Goal, Sure, Bad)
    BY <1>1, <1>10, <2>1 DEF Agrees, Bad
  <2>4. <<>> \in Str(Symbols)
    BY StrEmpty
  <2> QED BY <1>6, <2>2, <2>3, <2>4 DEF Flow, Stage
<1>12. InFlight /\ Reset /\ Kept
  BY <1>1, <1>11 DEF InFlight, Reset, Kept, FlowHere
<1> QED BY <1>3, <1>9, <1>12 DEF ChatInv

(* The invariant is inductive. *)
LEMMA ChatStepInv == ChatInv /\ [ChatNext]_allVars => ChatInv'
<1> SUFFICES ASSUME ChatInv, [ChatNext]_allVars PROVE ChatInv'
  OBVIOUS
<1>1. CASE Generate
  BY <1>1, GenerateKeeps
<1>2. CASE Arrive
  BY <1>2, ArriveKeeps
<1>3. CASE ReadLine
  BY <1>3, ReadLineKeeps
<1>4. CASE Close
  BY <1>4, CloseKeeps
<1>5. CASE Break
  BY <1>5, BreakKeeps
<1>6. CASE UNCHANGED allVars
  <2>1. UNCHANGED <<streamVars, mail, table, path, client, wire, link, page, history>>
    BY <1>6 DEF allVars, chatVars
  <2>2. CASE link = "up"
    <3>1. /\ page \in Pages(Symbols) /\ wire \in Str(Symbols)
          /\ Flow(Symbols, client, page, wire, Goal, Sure, Bad)
      BY <2>2 DEF ChatInv, ChatShape, InFlight, FlowHere
    <3>2. page' = page /\ wire' = wire
      BY <2>1
    <3> QED BY <2>1, <2>2, <3>1, <3>2, ClientMoves
  <2>3. CASE link # "up"
    <3>1. UNCHANGED <<mail, text, table, sent, phase, path, client>> /\ UNCHANGED streamVars
      BY <2>1 DEF streamVars
    <3>2. Symbols' = Symbols /\ (TableOK' <=> TableOK) /\ (Sure' <=> Sure)
          /\ LongestFirst' = LongestFirst
      BY <3>1, SameTable, SameGoal
    <3>3. Deanonymize(text)' = Deanonymize(text)
      BY <3>1, <3>2 DEF Deanonymize
    <3>4. StreamInv' /\ ChatShape'
      BY <2>1, <3>1, <3>2, StreamStays DEF ChatInv, ChatShape
    <3>5. InFlight' /\ Reset' /\ Kept'
      BY <2>1, <2>3, <3>1, <3>2, <3>3 DEF ChatInv, InFlight, Reset, Kept
    <3> QED BY <3>4, <3>5 DEF ChatInv
  <2> QED BY <2>2, <2>3
<1> QED BY <1>1, <1>2, <1>3, <1>4, <1>5, <1>6 DEF ChatNext

(* The chat keeps its invariant. *)
THEOREM ChatSafe == ChatSpec => []ChatInv
BY ChatInitInv, ChatStepInv, PTL DEF ChatSpec

(* The variables of the chat keep their types, for every exchange of a message
   and an answer: main.chat_send, pii.Anonymizer. *)
THEOREM ChatTyped == ChatSpec => []ChatTypeOK
<1>1. ASSUME ChatInv PROVE ChatTypeOK
  <2>1. StreamTypeOK /\ <<mail, text>> \in Exchanges
    BY <1>1 DEF ChatInv, StreamInv, ChatShape, TableOK
  <2>2. /\ path \in {"stream", "tools"} /\ client \in {"browser", "addin"}
        /\ link \in {"up", "closed", "cut"} /\ wire \in Seq(Symbols)
        /\ page \in Pages(Symbols) /\ TableOK
    BY <1>1 DEF ChatInv, ChatShape, Str
  <2>3. Kinds \subseteq Symbols \cup {"message"}
    BY <2>2, SymbolsHold, FramingIn DEF Kinds
  <2>4. page \in [buf : Seq(Symbols), event : Symbols \cup {"message"}, filled : BOOLEAN,
                  data : Seq(Symbols), shown : Seq(Symbols), failed : BOOLEAN]
    <3> HIDE DEF Symbols
    <3> QED BY <2>2, <2>3 DEF Pages, Str
  <2>5. history \in {<<>>, <<page.shown>>}
    BY <1>1, <2>2 DEF ChatInv, InFlight, Reset, Kept
  <2> QED BY <2>1, <2>2, <2>4, <2>5 DEF ChatTypeOK
<1> QED BY <1>1, ChatSafe, PTL

(* What the client keeps as the model's answer is the whole answer with the
   originals put back, however the provider cuts its chunks and the network the
   bytes, for the browser's parser and the add-in's: chat.deanonymize_stream,
   main.chat_send, static/chat.js, SseLineParser.Feed. *)
THEOREM AnswerReadWhole == ChatSpec => []OperatorReadsAnswer
<1>1. ASSUME ChatInv PROVE OperatorReadsAnswer
  <2> SUFFICES ASSUME history # <<>>, ~(phase = "failed" /\ path = "tools"),
                      \A e \in ToSet(table) : ~EndsOpen(e.original)
               PROVE  phase = "ended" /\ Compared(history[1]) = Compared(Deanonymize(text))
    BY DEF OperatorReadsAnswer
  <2>1. link = "closed"
    BY <1>1 DEF ChatInv, ChatShape, InFlight, Reset
  <2>2. Sure
    BY DEF Sure, Clean
  <2>3. /\ history = <<page.shown>> /\ phase = "ended"
        /\ CompareBy(client, page.shown) = CompareBy(client, Deanonymize(text))
    BY <1>1, <2>1, <2>2 DEF ChatInv, Kept
  <2>4. history[1] = page.shown
    BY <2>3
  <2> QED BY <2>3, <2>4 DEF Compared, CompareBy
<1> QED BY <1>1, ChatSafe, PTL
-----------------------------------------------------------------------------
(* The matches of a pattern in a text: in two strings one after the other they are
   those of each, where no match goes over the cut. *)

(* From a to b there is a link in s. *)
LinkAt(s, a, b) ==
  /\ a <= b /\ s[a] = Link
  /\ \A k \in a..b : s[k] \notin White
  /\ b = Len(s) \/ s[b + 1] \in White
  /\ \A k \in 1..a - 1 : s[k] = Link => \E w \in k..a : s[w] \in White

(* What the pattern of a kind matches from a to b. *)
Match(kind, s, a, b) ==
  /\ a \in 1..Len(s) /\ b \in 1..Len(s)
  /\ IF kind = "EMAIL" THEN a = b /\ s[a] \in Addresses ELSE LinkAt(s, a, b)

(* What Found holds, with its two numbers by name. *)
LEMMA FoundIs ==
  ASSUME NEW kind, NEW s, NEW a, NEW b
  PROVE  <<a, b>> \in Found(kind, s) <=> Match(kind, s, a, b)
<1>1. CASE kind = "EMAIL"
  BY <1>1 DEF Found, Match
<1>2. CASE kind # "EMAIL"
  <2> DEFINE D == (1..Len(s)) \X (1..Len(s))
             p == <<a, b>>
  <2>1. p[1] = a /\ p[2] = b
    OBVIOUS
  <2>2. p \in Found(kind, s) <=> p \in D /\ LinkAt(s, p[1], p[2])
    <3> HIDE DEF p
    <3> QED BY <1>2 DEF Found, LinkAt
  <2>3. p \in D <=> a \in 1..Len(s) /\ b \in 1..Len(s)
    OBVIOUS
  <2> HIDE DEF p, D
  <2> QED BY <1>2, <2>1, <2>2, <2>3 DEF Match, p
<1> QED BY <1>1, <1>2

(* Every element of Found is a pair of numbers, and a match from one to the other. *)
LEMMA FoundPair ==
  ASSUME NEW kind, NEW s, NEW p \in Found(kind, s)
  PROVE  p = <<p[1], p[2]>> /\ Match(kind, s, p[1], p[2])
<1>1. p = <<p[1], p[2]>>
  <2>1. CASE kind = "EMAIL"
    BY <2>1 DEF Found
  <2>2. CASE kind # "EMAIL"
    <3>1. p \in (1..Len(s)) \X (1..Len(s))
      BY <2>2 DEF Found
    <3> QED BY <3>1
  <2> QED BY <2>1, <2>2
<1> QED BY <1>1, FoundIs

(* Matches that start together end together. *)
LEMMA MatchOne ==
  ASSUME NEW kind, NEW T, NEW s \in Str(T), NEW a, NEW b, NEW c,
         Match(kind, s, a, b), Match(kind, s, a, c)
  PROVE  b = c
<1>1. Len(s) \in Nat
  BY StrLen
<1>2. CASE kind = "EMAIL"
  BY <1>2 DEF Match
<1>3. CASE kind # "EMAIL"
  <2>1. /\ a \in 1..Len(s) /\ b \in 1..Len(s) /\ c \in 1..Len(s)
        /\ LinkAt(s, a, b) /\ LinkAt(s, a, c)
    BY <1>3 DEF Match
  <2>2. ASSUME NEW x \in 1..Len(s), NEW y \in 1..Len(s), LinkAt(s, a, x), LinkAt(s, a, y), x < y
        PROVE  FALSE
    <3>1. x + 1 \in a..y /\ x # Len(s)
      BY <1>1, <2>1, <2>2 DEF LinkAt
    <3> QED BY <2>2, <3>1 DEF LinkAt
  <2> QED BY <1>1, <2>1, <2>2
<1> QED BY <1>2, <1>3

(* No match of the kind lies across the end of y. *)
Apart(kind, y, r) ==
  \/ kind = "EMAIL"
  \/ \A k \in 1..Len(y) : y[k] # Link
  \/ (\A k \in 1..Len(y) : y[k] \notin White) /\ (r = <<>> \/ r[1] \in White)

(* The matches in the first of two strings are those of both that start in it. *)
LEMMA MatchLeft ==
  ASSUME NEW kind, NEW T, NEW y \in Str(T), NEW r \in Str(T), Apart(kind, y, r),
         NEW a \in Int, NEW b \in Int, a <= Len(y)
  PROVE  Match(kind, y ++ r, a, b) <=> Match(kind, y, a, b)
<1> DEFINE s == y ++ r
           n == Len(y)
<1>1. /\ n \in Nat /\ Len(r) \in Nat /\ Len(s) = n + Len(r)
      /\ \A i \in 1..n : s[i] = y[i]
  BY LengthTyped, CatLeft
<1>2. Len(r) >= 1 => s[n + 1] = r[1]
  <2>1. Len(r) >= 1 => 1 \in 1..Len(r)
    BY <1>1
  <2> QED BY <2>1, CatRight
<1>3. r = <<>> <=> Len(r) = 0
  BY StrLen
<1> HIDE DEF s, n
<1>4. CASE kind = "EMAIL"
  BY <1>1, <1>4 DEF Match, s, n
<1>5. CASE kind # "EMAIL" /\ ~(a \in 1..n /\ b >= a)
  <2>1. ~Match(kind, y, a, b) /\ ~Match(kind, s, a, b)
    BY <1>1, <1>5 DEF Match, LinkAt, n
  <2> QED BY <2>1 DEF s
<1>6. CASE kind # "EMAIL" /\ a \in 1..n /\ b >= a /\ y[a] # Link
  <2>1. ~Match(kind, y, a, b) /\ ~Match(kind, s, a, b)
    BY <1>1, <1>6 DEF Match, LinkAt, n
  <2> QED BY <2>1 DEF s
<1>7. CASE kind # "EMAIL" /\ a \in 1..n /\ b >= a /\ y[a] = Link
  <2>1. (\A k \in 1..n : y[k] \notin White) /\ (Len(r) = 0 \/ r[1] \in White)
    BY <1>3, <1>7 DEF Apart, n
  <2>2. (\A k \in 1..n : s[k] \notin White) /\ (Len(r) = 0 \/ s[n + 1] \in White)
    BY <1>1, <1>2, <2>1
  <2>3. LinkAt(s, a, b) /\ b \in 1..Len(s) => b \in 1..n
    <3>1. SUFFICES ASSUME LinkAt(s, a, b), b \in 1..Len(s), b > n PROVE FALSE
      BY <1>1
    <3>2. n + 1 \in a..b /\ Len(r) # 0
      BY <1>1, <1>7, <3>1
    <3> QED BY <2>2, <3>1, <3>2 DEF LinkAt
  <2>4. ASSUME b \in 1..n PROVE LinkAt(s, a, b) <=> LinkAt(y, a, b)
    <3>1. s[a] = y[a] /\ \A k \in a..b : s[k] = y[k]
      BY <1>1, <1>7, <2>4
    <3>2. \A k \in 1..a : s[k] = y[k]
      BY <1>1, <1>7
    <3>3. (\A k \in 1..a - 1 : s[k] = Link => \E w \in k..a : s[w] \in White)
          <=> \A k \in 1..a - 1 : y[k] = Link => \E w \in k..a : y[w] \in White
      <4>1. \A k \in 1..a - 1 : \A w \in k..a : w \in 1..a /\ k \in 1..a
        BY <1>7
      <4> QED BY <3>2, <4>1
    <3>4. b = Len(s) \/ s[b + 1] \in White <=> b = n \/ y[b + 1] \in White
      <4>1. CASE b = n
        BY <1>1, <2>2, <4>1
      <4>2. CASE b # n
        <5>1. b + 1 \in 1..n /\ b # Len(s)
          BY <1>1, <2>4, <4>2
        <5> QED BY <1>1, <4>2, <5>1
      <4> QED BY <4>1, <4>2
    <3> QED BY <3>1, <3>3, <3>4 DEF LinkAt, n
  <2>5. Match(kind, s, a, b) <=> b \in 1..n /\ LinkAt(s, a, b)
    <3>1. a \in 1..Len(s) /\ (b \in 1..n => b \in 1..Len(s))
      BY <1>1, <1>7
    <3> QED BY <1>7, <2>3, <3>1 DEF Match
  <2>6. Match(kind, y, a, b) <=> b \in 1..n /\ LinkAt(y, a, b)
    BY <1>7 DEF Match, n
  <2> QED BY <2>4, <2>5, <2>6 DEF s
<1> QED BY <1>1, <1>4, <1>5, <1>6, <1>7

(* The matches in the second of two strings are those of both that start after
   the first. *)
LEMMA MatchRight ==
  ASSUME NEW kind, NEW T, NEW y \in Str(T), NEW r \in Str(T), Apart(kind, y, r),
         NEW a \in Nat \ {0}, NEW b \in Nat \ {0}
  PROVE  Match(kind, y ++ r, Len(y) + a, Len(y) + b) <=> Match(kind, r, a, b)
<1> DEFINE s == y ++ r
           n == Len(y)
<1>1. /\ n \in Nat /\ Len(r) \in Nat /\ Len(s) = n + Len(r)
      /\ \A i \in 1..n : s[i] = y[i]
      /\ \A i \in 1..Len(r) : s[n + i] = r[i]
  BY LengthTyped, CatLeft, CatRight
<1>2. r = <<>> <=> Len(r) = 0
  BY StrLen
<1> HIDE DEF s, n
<1>3. (n + a \in 1..Len(s) <=> a \in 1..Len(r)) /\ (n + b \in 1..Len(s) <=> b \in 1..Len(r))
  BY <1>1
<1>4. CASE ~(a \in 1..Len(r) /\ b \in 1..Len(r))
  BY <1>3, <1>4 DEF Match, s, n
<1>5. CASE kind = "EMAIL" /\ a \in 1..Len(r) /\ b \in 1..Len(r)
  <2>1. s[n + a] = r[a] /\ (n + a = n + b <=> a = b)
    BY <1>1, <1>5
  <2> QED BY <1>3, <1>5, <2>1 DEF Match, s, n
<1>6. CASE kind # "EMAIL" /\ a \in 1..Len(r) /\ b \in 1..Len(r)
  <2>1. \A k \in a..b : s[n + k] = r[k]
    BY <1>1, <1>6
  <2>2. (\A k \in n + a..n + b : s[k] \notin White) <=> \A k \in a..b : r[k] \notin White
    <3>1. ASSUME \A k \in n + a..n + b : s[k] \notin White, NEW k \in a..b PROVE r[k] \notin White
      <4>1. n + k \in n + a..n + b
        BY <1>1, <1>6
      <4> QED BY <2>1, <3>1, <4>1
    <3>2. ASSUME \A k \in a..b : r[k] \notin White, NEW k \in n + a..n + b PROVE s[k] \notin White
      <4>1. k - n \in a..b /\ n + (k - n) = k
        BY <1>1, <1>6
      <4> QED BY <2>1, <3>2, <4>1
    <3> QED BY <3>1, <3>2
  <2>3. n + b = Len(s) \/ s[n + b + 1] \in White <=> b = Len(r) \/ r[b + 1] \in White
    <3>1. CASE b = Len(r)
      BY <1>1, <3>1
    <3>2. CASE b # Len(r)
      <4>1. b + 1 \in 1..Len(r) /\ n + (b + 1) = n + b + 1 /\ n + b # Len(s)
        BY <1>1, <1>6, <3>2
      <4>2. s[n + (b + 1)] = r[b + 1]
        BY <1>1, <4>1
      <4> QED BY <3>2, <4>1, <4>2
    <3> QED BY <3>1, <3>2
  <2>4. (\A k \in 1..(n + a) - 1 : s[k] = Link => \E w \in k..n + a : s[w] \in White)
        <=> \A k \in 1..a - 1 : r[k] = Link => \E w \in k..a : r[w] \in White
    <3>1. ASSUME \A k \in 1..(n + a) - 1 : s[k] = Link => \E w \in k..n + a : s[w] \in White,
                 NEW k \in 1..a - 1, r[k] = Link
          PROVE  \E w \in k..a : r[w] \in White
      <4>1. n + k \in 1..(n + a) - 1 /\ k \in 1..Len(r)
        BY <1>1, <1>6
      <4>2. PICK w \in n + k..n + a : s[w] \in White
        BY <1>1, <3>1, <4>1
      <4>3. w - n \in k..a /\ w - n \in 1..Len(r) /\ n + (w - n) = w
        BY <1>1, <1>6, <4>2
      <4> QED BY <1>1, <4>2, <4>3
    <3>2. ASSUME \A k \in 1..a - 1 : r[k] = Link => \E w \in k..a : r[w] \in White,
                 NEW k \in 1..(n + a) - 1, s[k] = Link
          PROVE  \E w \in k..n + a : s[w] \in White
      <4>1. CASE k > n
        <5>1. k - n \in 1..a - 1 /\ k - n \in 1..Len(r) /\ n + (k - n) = k
          BY <1>1, <1>6, <4>1
        <5>2. PICK w \in k - n..a : r[w] \in White
          BY <1>1, <3>2, <5>1
        <5>3. n + w \in k..n + a /\ w \in 1..Len(r)
          BY <1>1, <1>6, <5>1, <5>2
        <5> QED BY <1>1, <5>2, <5>3
      <4>2. CASE k <= n
        <5>1. k \in 1..n /\ y[k] = Link
          BY <1>1, <3>2, <4>2
        <5>2. r = <<>> \/ r[1] \in White
          BY <1>6, <5>1 DEF Apart, n
        <5>3. Len(r) # 0 /\ 1 \in 1..Len(r) /\ n + 1 \in k..n + a
          BY <1>1, <1>6, <4>2
        <5> QED BY <1>1, <1>2, <5>2, <5>3
      <4> QED BY <1>1, <4>1, <4>2
    <3> QED BY <3>1, <3>2
  <2>5. s[n + a] = r[a] /\ (n + a <= n + b <=> a <= b)
    BY <1>1, <1>6
  <2>6. LinkAt(s, n + a, n + b) <=> LinkAt(r, a, b)
    <3> DEFINE A == n + a
               B == n + b
    <3>1. (\A k \in A..B : s[k] \notin White) <=> \A k \in a..b : r[k] \notin White
      BY ONLY <2>2 DEF A, B
    <3>2. B = Len(s) \/ s[B + 1] \in White <=> b = Len(r) \/ r[b + 1] \in White
      BY ONLY <2>3 DEF B
    <3>3. (\A k \in 1..A - 1 : s[k] = Link => \E w \in k..A : s[w] \in White)
          <=> \A k \in 1..a - 1 : r[k] = Link => \E w \in k..a : r[w] \in White
      BY ONLY <2>4 DEF A
    <3>4. s[A] = r[a] /\ (A <= B <=> a <= b)
      BY ONLY <2>5 DEF A, B
    <3> HIDE DEF A, B
    <3>5. LinkAt(s, A, B) <=> LinkAt(r, a, b)
      BY ONLY <3>1, <3>2, <3>3, <3>4 DEF LinkAt
    <3> QED BY <3>5 DEF A, B
  <2> QED BY <1>3, <1>6, <2>6 DEF Match, s, n
<1> QED BY <1>4, <1>5, <1>6

-----------------------------------------------------------------------------
(* A pass in terms of what it makes of each character. *)

(* Where the matches of a kind start, what they are, and what they cover. *)
Starting(kind, s) == {p[1] : p \in Found(kind, s)}
(* What is matched at i, and whether i is inside of a match that starts earlier. *)
Span(kind, s, i) == SubSeq(s, i, (CHOOSE p \in Found(kind, s) : p[1] = i)[2])
Covered(kind, s, i) == \E p \in Found(kind, s) : p[1] < i /\ i <= p[2]

(* A start is the start of a match, and its text the text of the match. *)
LEMMA SpanIs ==
  ASSUME NEW kind, NEW T, NEW s \in Str(T), NEW i
  PROVE  /\ i \in Starting(kind, s) <=> \E b \in Int : Match(kind, s, i, b)
         /\ \A b : Match(kind, s, i, b) => Span(kind, s, i) = SubSeq(s, i, b)
         /\ Covered(kind, s, i) <=> \E a, b \in Int : Match(kind, s, a, b) /\ a < i /\ i <= b
<1>1. ASSUME NEW p \in Found(kind, s) PROVE Match(kind, s, p[1], p[2]) /\ p[1] \in Int /\ p[2] \in Int
  BY FoundPair DEF Match
<1>2. ASSUME NEW a, NEW b, Match(kind, s, a, b)
      PROVE  \E p \in Found(kind, s) : p[1] = a /\ p[2] = b
  <2> DEFINE p == <<a, b>>
  <2>1. p \in Found(kind, s) /\ p[1] = a /\ p[2] = b
    BY <1>2, FoundIs
  <2> QED BY <2>1
<1>3. i \in Starting(kind, s) <=> \E b \in Int : Match(kind, s, i, b)
  BY <1>1, <1>2 DEF Starting
<1>4. ASSUME NEW b, Match(kind, s, i, b) PROVE Span(kind, s, i) = SubSeq(s, i, b)
  <2> DEFINE q == CHOOSE p \in Found(kind, s) : p[1] = i
  <2>1. \E p \in Found(kind, s) : p[1] = i
    BY <1>2, <1>4
  <2>2. q \in Found(kind, s) /\ q[1] = i
    BY <2>1
  <2>3. Span(kind, s, i) = SubSeq(s, i, q[2])
    BY DEF Span
  <2> HIDE DEF q
  <2>4. Match(kind, s, i, q[2])
    BY <1>1, <2>2
  <2>5. q[2] = b
    BY <1>4, <2>4, MatchOne
  <2> QED BY <2>3, <2>5
<1>5. Covered(kind, s, i) <=> \E a, b \in Int : Match(kind, s, a, b) /\ a < i /\ i <= b
  <2>1. ASSUME Covered(kind, s, i)
        PROVE \E a, b \in Int : Match(kind, s, a, b) /\ a < i /\ i <= b
    <3>1. PICK p \in Found(kind, s) : p[1] < i /\ i <= p[2]
      BY <2>1 DEF Covered
    <3> QED BY <1>1, <3>1
  <2>2. ASSUME NEW a \in Int, NEW b \in Int, Match(kind, s, a, b), a < i, i <= b
        PROVE Covered(kind, s, i)
    <3>1. PICK p \in Found(kind, s) : p[1] = a /\ p[2] = b
      BY <1>2, <2>2
    <3> QED BY <2>2, <3>1 DEF Covered
  <2> QED BY <2>1, <2>2
<1> QED BY <1>3, <1>4, <1>5

(* A part of one of two strings is that part of both. *)
LEMMA CutCat ==
  ASSUME NEW T, NEW y \in Str(T), NEW r \in Str(T), NEW a \in Nat \ {0}, NEW b \in Nat
  PROVE  /\ b <= Len(y) => SubSeq(y ++ r, a, b) = SubSeq(y, a, b)
         /\ b <= Len(r) => SubSeq(y ++ r, Len(y) + a, Len(y) + b) = SubSeq(r, a, b)
<1> DEFINE s == y ++ r
           n == Len(y)
<1>1. /\ n \in Nat /\ Len(r) \in Nat /\ Len(s) = n + Len(r) /\ s \in Seq(T)
      /\ y \in Seq(T) /\ r \in Seq(T)
      /\ \A i \in 1..n : s[i] = y[i]
      /\ \A i \in 1..Len(r) : s[n + i] = r[i]
  <2>1. s \in Seq(T) /\ y \in Seq(T) /\ r \in Seq(T)
    BY CatType DEF Str
  <2>2. n \in Nat /\ Len(r) \in Nat /\ Len(s) = n + Len(r)
    BY LengthTyped
  <2>3. (\A i \in 1..n : s[i] = y[i]) /\ \A i \in 1..Len(r) : s[n + i] = r[i]
    BY CatLeft, CatRight
  <2> QED BY ONLY <2>1, <2>2, <2>3
<1> HIDE DEF s, n
<1>2. ASSUME b <= n PROVE SubSeq(s, a, b) = SubSeq(y, a, b)
  <2>1. b <= Len(y)
    BY <1>2 DEF n
  <2>2. \A i \in 1..b - a + 1 : (a + i) - 1 \in 1..n
    BY <1>1, <1>2
  <2>3. SubSeq(s, a, b) = [i \in 1..b - a + 1 |-> s[(a + i) - 1]]
    BY <1>1
  <2>4. SubSeq(y, a, b) = [i \in 1..b - a + 1 |-> y[(a + i) - 1]]
    BY <1>1
  <2> QED BY <1>1, <2>2, <2>3, <2>4
<1>3. ASSUME b <= Len(r) PROVE SubSeq(s, n + a, n + b) = SubSeq(r, a, b)
  <2>1. \A i \in 1..b - a + 1 : (a + i) - 1 \in 1..Len(r) /\ (n + a + i) - 1 = n + ((a + i) - 1)
    BY <1>1, <1>3
  <2>2. (n + b) - (n + a) + 1 = b - a + 1
    BY <1>1
  <2>3. SubSeq(s, n + a, n + b) = [i \in 1..(n + b) - (n + a) + 1 |-> s[(n + a + i) - 1]]
    BY <1>1
  <2>4. SubSeq(r, a, b) = [i \in 1..b - a + 1 |-> r[(a + i) - 1]]
    BY <1>1
  <2>5. \A i \in 1..b - a + 1 : s[(n + a + i) - 1] = r[(a + i) - 1]
    BY <1>1, <2>1
  <2> QED BY ONLY <2>2, <2>3, <2>4, <2>5
<1> QED BY <1>2, <1>3 DEF s, n

(* What a pass writes at i, and all of it. *)
Mark(kind, os, o) == TagFor(kind, CHOOSE n \in 1..Len(os) : os[n] = o)

(* What the text has in the place of character i after a pass, and the text after it. *)
Part(kind, os, s, i) ==
  IF i \in Starting(kind, s) THEN Mark(kind, os, Span(kind, s, i))
  ELSE IF Covered(kind, s, i) THEN <<>>
  ELSE <<s[i]>>

Marked(kind, os, s) == FlattenSeq([i \in 1..Len(s) |-> Part(kind, os, s, i)])

(* At i an original is found for the first time; the originals of s in that order. *)
FirstFound(kind, s, i) ==
  i \in Starting(kind, s) /\ \A j \in Starting(kind, s) : j < i => Span(kind, s, j) # Span(kind, s, i)

Originals(kind, s) ==
  FlattenSeq([i \in 1..Len(s) |-> IF FirstFound(kind, s, i) THEN <<Span(kind, s, i)>> ELSE <<>>])

(* The row of the table of the n-th original. *)
Row(kind, os, n) == [kind |-> kind, tag |-> TagFor(kind, n), original |-> os[n]]

(* A pass is Marked, and its table has a row for each of the Originals. *)
LEMMA PassIs ==
  ASSUME NEW a, NEW kind
  PROVE  LET os == Originals(kind, a.text)
         IN  /\ Pass(a, kind).text = Marked(kind, os, a.text)
             /\ Pass(a, kind).table = a.table \o [n \in 1..Len(os) |-> Row(kind, os, n)]
BY DEF Pass, Originals, Marked, Part, Mark, FirstFound, Covered, Starting, Span, Row

(* What a pass writes on both sides. *)
LEMMA PartLeft ==
  ASSUME NEW kind, NEW os, NEW T, NEW y \in Str(T), NEW r \in Str(T), Apart(kind, y, r),
         NEW i \in 1..Len(y)
  PROVE  Part(kind, os, y ++ r, i) = Part(kind, os, y, i)
<1> DEFINE s == y ++ r
<1>1. Len(y) \in Nat /\ s \in Str(T) /\ s[i] = y[i]
  BY LengthTyped, CatLeft
<1>2. ASSUME NEW a \in Int, NEW b \in Int, a <= i PROVE Match(kind, s, a, b) <=> Match(kind, y, a, b)
  BY <1>1, <1>2, MatchLeft
<1>3. i \in Starting(kind, s) <=> i \in Starting(kind, y)
  <2>1. i \in Int /\ i <= i
    BY <1>1
  <2> QED BY <1>1, <1>2, <2>1, SpanIs
<1>4. ASSUME i \in Starting(kind, y) PROVE Span(kind, s, i) = Span(kind, y, i)
  <2>1. PICK b \in Int : Match(kind, y, i, b)
    BY <1>4, SpanIs
  <2>2. Match(kind, s, i, b)
    BY <1>1, <1>2, <2>1
  <2>3. b \in Nat /\ b <= Len(y) /\ i \in Nat \ {0}
    BY <1>1, <2>1 DEF Match
  <2>4. SubSeq(s, i, b) = SubSeq(y, i, b)
    BY <2>3, CutCat
  <2>5. Span(kind, s, i) = SubSeq(s, i, b)
    BY <1>1, <2>2, SpanIs
  <2>6. Span(kind, y, i) = SubSeq(y, i, b)
    BY <2>1, SpanIs
  <2> QED BY <2>4, <2>5, <2>6
<1>5. Covered(kind, s, i) <=> Covered(kind, y, i)
  <2>1. \A a, b \in Int : a < i => (Match(kind, s, a, b) <=> Match(kind, y, a, b))
    BY <1>1, <1>2
  <2> HIDE DEF s
  <2>2. Covered(kind, s, i) <=> \E a, b \in Int : Match(kind, s, a, b) /\ a < i /\ i <= b
    BY <1>1, SpanIs
  <2>3. Covered(kind, y, i) <=> \E a, b \in Int : Match(kind, y, a, b) /\ a < i /\ i <= b
    BY SpanIs
  <2> QED BY <2>1, <2>2, <2>3
<1> QED BY <1>1, <1>3, <1>4, <1>5 DEF Part

(* What a pass makes of the second of two strings. *)
LEMMA PartRight ==
  ASSUME NEW kind, NEW os, NEW T, NEW y \in Str(T), NEW r \in Str(T), Apart(kind, y, r),
         NEW i \in 1..Len(r)
  PROVE  Part(kind, os, y ++ r, Len(y) + i) = Part(kind, os, r, i)
<1> DEFINE s == y ++ r
           n == Len(y)
<1>1. n \in Nat /\ Len(r) \in Nat /\ s \in Str(T) /\ s[n + i] = r[i] /\ Len(s) = n + Len(r)
  BY LengthTyped, CatRight
<1>2. ASSUME NEW a \in Nat \ {0}, NEW b \in Nat \ {0}
      PROVE  Match(kind, s, n + a, n + b) <=> Match(kind, r, a, b)
  BY <1>2, MatchRight
<1>3. ASSUME NEW a \in Int, NEW b \in Int, Match(kind, s, a, b), b > n
      PROVE  a - n \in Nat \ {0} /\ b - n \in Nat \ {0} /\ Match(kind, r, a - n, b - n)
  <2>1. a \in 1..Len(s) /\ b \in 1..Len(s) /\ a <= b
    BY <1>3 DEF Match, LinkAt
  <2>2. a > n
    <3>1. SUFFICES ASSUME a <= n PROVE FALSE
      BY <1>1
    <3>2. Match(kind, y, a, b)
      BY <1>3, <3>1, MatchLeft
    <3>3. b \in 1..n
      BY <3>2 DEF Match
    <3> QED BY <1>1, <1>3, <3>3
  <2>3. a - n \in Nat \ {0} /\ b - n \in Nat \ {0} /\ n + (a - n) = a /\ n + (b - n) = b
    BY <1>1, <1>3, <2>2
  <2> HIDE DEF s, n
  <2> QED BY <1>2, <1>3, <2>3
<1> HIDE DEF s, n
<1>4. ASSUME NEW b \in Int, Match(kind, r, i, b)
      PROVE  /\ Match(kind, s, n + i, n + b) /\ n + b \in Int
             /\ Span(kind, s, n + i) = Span(kind, r, i)
  <2>1. b \in Nat \ {0} /\ b <= Len(r) /\ i \in Nat \ {0}
    BY <1>1, <1>4 DEF Match
  <2>2. Match(kind, s, n + i, n + b) /\ n + b \in Int
    BY <1>1, <1>2, <1>4, <2>1
  <2>3. SubSeq(s, n + i, n + b) = SubSeq(r, i, b)
    BY <2>1, CutCat DEF s, n
  <2>4. Span(kind, s, n + i) = SubSeq(s, n + i, n + b)
    BY <1>1, <2>2, SpanIs
  <2>5. Span(kind, r, i) = SubSeq(r, i, b)
    BY <1>4, SpanIs
  <2> QED BY <2>2, <2>3, <2>4, <2>5
<1>5. n + i \in Starting(kind, s) <=> i \in Starting(kind, r)
  <2>1. ASSUME n + i \in Starting(kind, s) PROVE i \in Starting(kind, r)
    <3>1. PICK b \in Int : Match(kind, s, n + i, b)
      BY <1>1, <2>1, SpanIs
    <3>2. n + i \in Int /\ b > n
      BY <1>1, <3>1 DEF Match, LinkAt
    <3>3. Match(kind, r, (n + i) - n, b - n) /\ b - n \in Int
      BY <1>3, <3>1, <3>2
    <3>4. (n + i) - n = i
      BY <1>1
    <3>5. Match(kind, r, i, b - n)
      BY <3>3, <3>4
    <3> QED BY <3>3, <3>5, SpanIs
  <2>2. ASSUME i \in Starting(kind, r) PROVE n + i \in Starting(kind, s)
    <3>1. PICK b \in Int : Match(kind, r, i, b)
      BY <2>2, SpanIs
    <3> QED BY <1>1, <1>4, <3>1, SpanIs
  <2> QED BY <2>1, <2>2
<1>6. i \in Starting(kind, r) => Span(kind, s, n + i) = Span(kind, r, i)
  BY <1>4, SpanIs
<1>7. Covered(kind, s, n + i) <=> Covered(kind, r, i)
  <2>1. ASSUME Covered(kind, s, n + i) PROVE Covered(kind, r, i)
    <3>1. PICK a \in Int, b \in Int : Match(kind, s, a, b) /\ a < n + i /\ n + i <= b
      BY <1>1, <2>1, SpanIs
    <3>2. b > n /\ a - n < i /\ i <= b - n /\ a - n \in Int /\ b - n \in Int
      BY <1>1, <3>1
    <3>3. Match(kind, r, a - n, b - n)
      BY <1>3, <3>1, <3>2
    <3> QED BY <3>2, <3>3, SpanIs
  <2>2. ASSUME Covered(kind, r, i) PROVE Covered(kind, s, n + i)
    <3>1. PICK a \in Int, b \in Int : Match(kind, r, a, b) /\ a < i /\ i <= b
      BY <2>2, SpanIs
    <3>2. a \in Nat \ {0} /\ b \in Nat \ {0}
      BY <3>1 DEF Match
    <3>3. Match(kind, s, n + a, n + b) /\ n + a < n + i /\ n + i <= n + b
      BY <1>1, <1>2, <3>1, <3>2
    <3>4. n + a \in Int /\ n + b \in Int
      BY <1>1
    <3> QED BY <1>1, <3>3, <3>4, SpanIs
  <2> QED BY <2>1, <2>2
<1>8. Part(kind, os, s, n + i) = Part(kind, os, r, i)
  BY <1>1, <1>5, <1>6, <1>7 DEF Part
<1> QED BY <1>8 DEF s, n

-----------------------------------------------------------------------------
(* The originals of a pass. *)

(* What stands in one of two strings stands in both. *)
LEMMA InCat ==
  ASSUME NEW T, NEW a \in Str(T), NEW b \in Str(T)
  PROVE  ToSet(a ++ b) = ToSet(a) \cup ToSet(b)
<1> DEFINE s == a ++ b
<1>1. Len(a) \in Nat /\ Len(b) \in Nat /\ Len(s) = Len(a) + Len(b) /\ s \in Str(T)
  BY LengthTyped
<1>2. (\A i \in 1..Len(a) : s[i] = a[i]) /\ \A i \in 1..Len(b) : s[Len(a) + i] = b[i]
  BY CatLeft, CatRight
<1>3. \A i \in 1..Len(s) : s[i] = IF i <= Len(a) THEN a[i] ELSE b[i - Len(a)]
  BY <1>1, CatAt
<1>4. DOMAIN a = 1..Len(a) /\ DOMAIN b = 1..Len(b) /\ DOMAIN s = 1..Len(s)
  BY <1>1 DEF Str
<1> HIDE DEF s
<1>5. ASSUME NEW x \in ToSet(a) PROVE x \in ToSet(s)
  <2>1. PICK i \in 1..Len(a) : x = a[i]
    BY <1>4 DEF ToSet
  <2>2. i \in 1..Len(s) /\ x = s[i]
    BY <1>1, <1>2, <2>1
  <2> QED BY <1>4, <2>2 DEF ToSet
<1>6. ASSUME NEW x \in ToSet(b) PROVE x \in ToSet(s)
  <2>1. PICK i \in 1..Len(b) : x = b[i]
    BY <1>4 DEF ToSet
  <2>2. Len(a) + i \in 1..Len(s) /\ x = s[Len(a) + i]
    BY <1>1, <1>2, <2>1
  <2> QED BY <1>4, <2>2 DEF ToSet
<1>7. ASSUME NEW x \in ToSet(s) PROVE x \in ToSet(a) \cup ToSet(b)
  <2>1. PICK i \in 1..Len(s) : x = s[i]
    BY <1>4 DEF ToSet
  <2>2. CASE i <= Len(a)
    <3>1. i \in 1..Len(a) /\ x = a[i]
      BY <1>1, <1>3, <2>1, <2>2
    <3> QED BY <1>4, <3>1 DEF ToSet
  <2>3. CASE i > Len(a)
    <3>1. i - Len(a) \in 1..Len(b) /\ x = b[i - Len(a)]
      BY <1>1, <1>3, <2>1, <2>3
    <3> QED BY <1>4, <3>1 DEF ToSet
  <2> QED BY <1>1, <2>1, <2>2, <2>3
<1>8. ToSet(s) = ToSet(a) \cup ToSet(b)
  BY <1>5, <1>6, <1>7
<1> QED BY <1>8 DEF s

(* FlattenSeq loses nothing. *)
LEMMA FlattenHas ==
  ASSUME NEW T, NEW ss \in Seq(Seq(T)), NEW k \in 1..Len(ss), NEW x \in ToSet(ss[k])
  PROVE  x \in ToSet(FlattenSeq(ss))
<1> DEFINE U == Seq(T)
           a == SubSeq(ss, 1, k)
           b == SubSeq(ss, k + 1, Len(ss))
<1>1. /\ a \in Str(U) /\ b \in Str(U) /\ ss = a ++ b /\ Len(a) = k /\ k \in Nat /\ k >= 1
      /\ \A i \in 1..k : a[i] = ss[i]
  <2>1. ss \in Str(U) /\ Len(ss) \in Nat
    BY DEF Str
  <2>2. k \in 0..Len(ss) /\ k \in Nat /\ k >= 1
    BY <2>1
  <2>3. a \in Str(U) /\ b \in Str(U) /\ ss = a ++ b /\ Len(a) = k
    BY <2>1, <2>2, CutAt
  <2>4. \A i \in 1..k : (a ++ b)[i] = a[i]
    BY <2>3, CatLeft
  <2> QED BY <2>2, <2>3, <2>4
<1> HIDE DEF a, b, U
<1>2. PICK r \in Str(U), z \in U : a = r ++ <<z>> /\ Len(r) = Len(a) - 1
  <2>1. a # <<>>
    BY <1>1
  <2> QED BY <1>1, <2>1, LastOf
<1>3. z = ss[k]
  <2> DEFINE l == <<z>>
  <2>1. l \in Str(U) /\ Len(l) = 1 /\ l[1] = z
    BY StrOne
  <2> HIDE DEF l
  <2>2. (r ++ l)[Len(r) + 1] = l[1]
    <3>1. 1 \in 1..Len(l)
      BY <2>1
    <3>2. \A i \in 1..Len(l) : (r ++ l)[Len(r) + i] = l[i]
      BY <2>1, CatRight
    <3> QED BY ONLY <3>1, <3>2
  <2>3. Len(r) + 1 = k
    BY <1>1, <1>2
  <2>4. a = r ++ l
    BY <1>2 DEF l
  <2>5. k \in 1..k
    BY <1>1
  <2> QED BY <1>1, <2>1, <2>2, <2>3, <2>4, <2>5
<1>4. FlattenSeq(ss) = FlattenSeq(a) ++ FlattenSeq(b)
  BY <1>1, FlattenConcat DEF Str, ++, U
<1>5. FlattenSeq(a) = FlattenSeq(r) ++ z
  <2> DEFINE l == <<z>>
  <2>1. l \in Seq(Seq(T)) /\ FlattenSeq(l) = z
    BY FlattenOne DEF U
  <2> HIDE DEF l
  <2>2. r \in Seq(Seq(T))
    BY DEF Str, U
  <2>3. FlattenSeq(r \o l) = FlattenSeq(r) \o FlattenSeq(l)
    BY <2>1, <2>2, FlattenConcat
  <2> QED BY <1>2, <2>1, <2>3 DEF ++, l
<1>6. FlattenSeq(r) \in Str(T) /\ z \in Str(T) /\ FlattenSeq(a) \in Str(T) /\ FlattenSeq(b) \in Str(T)
  BY <1>1, FlattenType DEF Str, U
<1>7. ToSet(FlattenSeq(a)) = ToSet(FlattenSeq(r)) \cup ToSet(z)
  BY <1>5, <1>6, InCat
<1>8. ToSet(FlattenSeq(ss)) = ToSet(FlattenSeq(a)) \cup ToSet(FlattenSeq(b))
  BY <1>4, <1>6, InCat
<1> QED BY <1>3, <1>7, <1>8

(* The numbered originals are what the matches of the kind say. *)
LEMMA OriginalsFrom ==
  ASSUME NEW kind, NEW T, NEW s \in Str(T)
  PROVE  Originals(kind, s) \in Str({Span(kind, s, i) : i \in Starting(kind, s)})
<1> DEFINE O == {Span(kind, s, i) : i \in Starting(kind, s)}
           q(i) == IF FirstFound(kind, s, i) THEN <<Span(kind, s, i)>> ELSE <<>>
           p == [i \in 1..Len(s) |-> q(i)]
<1>1. ASSUME NEW i PROVE q(i) \in Seq(O)
  <2>1. CASE FirstFound(kind, s, i)
    <3> DEFINE o == Span(kind, s, i)
    <3>1. o \in O
      BY <2>1 DEF FirstFound
    <3>2. q(i) = <<o>>
      BY <2>1
    <3> HIDE DEF o, O, q
    <3> QED BY <3>1, <3>2
  <2>2. CASE ~FirstFound(kind, s, i)
    <3>1. q(i) = <<>>
      BY <2>2
    <3> HIDE DEF O, q
    <3> QED BY <3>1
  <2> QED BY <2>1, <2>2
<1>2. Len(s) \in Nat
  BY StrLen
<1> HIDE DEF q, O
<1>3. p \in Seq(Seq(O))
  BY <1>1, <1>2
<1> HIDE DEF p
<1>4. FlattenSeq(p) \in Seq(O)
  BY <1>3, FlattenType
<1> QED BY <1>4 DEF Originals, p, q, O, Str

(* Every match of a kind says one of these texts. *)
Known(kind, os, s) ==
  \A a, b \in Int : Match(kind, s, a, b) => SubSeq(s, a, b) \in ToSet(os)

(* Everything that a pass matches is one of its originals. *)
LEMMA OriginalsAll ==
  ASSUME NEW kind, NEW T, NEW s \in Str(T)
  PROVE  Known(kind, Originals(kind, s), s)
<1> SUFFICES ASSUME NEW a \in Int, NEW b \in Int, Match(kind, s, a, b)
             PROVE  SubSeq(s, a, b) \in ToSet(Originals(kind, s))
  BY DEF Known
<1> DEFINE o == SubSeq(s, a, b)
           J == {j \in 1..Len(s) : j \in Starting(kind, s) /\ Span(kind, s, j) = o}
           j == Min(J)
           O == {Span(kind, s, i) : i \in Starting(kind, s)}
           q(i) == IF FirstFound(kind, s, i) THEN <<Span(kind, s, i)>> ELSE <<>>
           p == [i \in 1..Len(s) |-> q(i)]
<1>1. a \in J /\ J \in SUBSET Nat /\ J # {}
  <2>1. a \in Starting(kind, s) /\ Span(kind, s, a) = o /\ a \in 1..Len(s)
    <3>1. a \in 1..Len(s)
      BY DEF Match
    <3>2. a \in Starting(kind, s) /\ Span(kind, s, a) = o
      BY SpanIs
    <3> QED BY <3>1, <3>2
  <2> QED BY <2>1
<1>2. j \in J /\ \A i \in J : j <= i
  <2> HIDE DEF J
  <2> QED BY <1>1, MinIs
<1> HIDE DEF j
<1>3. j \in 1..Len(s) /\ j \in Starting(kind, s) /\ Span(kind, s, j) = o
  BY <1>2
<1>4. FirstFound(kind, s, j)
  <2>1. ASSUME NEW i \in Starting(kind, s), i < j, Span(kind, s, i) = o PROVE FALSE
    <3>1. i \in 1..Len(s)
      BY <2>1, SpanIs DEF Match
    <3>2. i \in J
      BY <2>1, <3>1
    <3> QED BY <1>2, <1>3, <2>1, <3>1, <3>2
  <2> HIDE DEF o
  <2> QED BY <1>3, <2>1 DEF FirstFound
<1>5. p \in Seq(Seq(O))
  <2>1. ASSUME NEW i PROVE q(i) \in Seq(O)
    <3>1. CASE FirstFound(kind, s, i)
      <4> DEFINE x == Span(kind, s, i)
      <4>1. x \in O
        BY <3>1 DEF FirstFound
      <4>2. q(i) = <<x>>
        BY <3>1
      <4> HIDE DEF x, O, q
      <4> QED BY <4>1, <4>2
    <3>2. CASE ~FirstFound(kind, s, i)
      <4>1. q(i) = <<>>
        BY <3>2
      <4> HIDE DEF O, q
      <4> QED BY <4>1
    <3> QED BY <3>1, <3>2
  <2>2. Len(s) \in Nat
    BY StrLen
  <2> HIDE DEF q, O
  <2> QED BY <2>1, <2>2
<1>6. j \in 1..Len(p) /\ o \in ToSet(p[j])
  <2>1. q(j) = <<o>>
    BY <1>3, <1>4
  <2>2. Len(p) = Len(s) /\ p[j] = q(j)
    <3>1. Len(s) \in Nat
      BY StrLen
    <3> HIDE DEF q
    <3> QED BY <1>3, <3>1
  <2>3. o \in ToSet(<<o>>)
    <3> HIDE DEF o
    <3>1. <<o>>[1] = o /\ 1 \in DOMAIN <<o>>
      OBVIOUS
    <3> QED BY <3>1 DEF ToSet
  <2> HIDE DEF p, q, o
  <2> QED BY <1>3, <2>1, <2>2, <2>3
<1>7. Originals(kind, s) = FlattenSeq(p)
  BY DEF Originals
<1> HIDE DEF p, o, O
<1> QED BY <1>5, <1>6, <1>7, FlattenHas DEF o

-----------------------------------------------------------------------------
(* A pass over two strings, over a string without a match, and over a match. *)

(* The characters a pass may write. *)
Glyphs == {"[", "]"} \cup {Name(k, n) : k \in {"EMAIL", "URL"}, n \in Nat}

(* The placeholder of an original is the one of its number. *)
LEMMA MarkIs ==
  ASSUME NEW kind \in {"EMAIL", "URL"}, NEW O, NEW os \in Str(O), NEW W, Glyphs \subseteq W,
         NEW o \in ToSet(os)
  PROVE  /\ Mark(kind, os, o) \in Str(W)
         /\ \E n \in 1..Len(os) : os[n] = o /\ Mark(kind, os, o) = TagFor(kind, n)
<1> DEFINE n == CHOOSE n \in 1..Len(os) : os[n] = o
<1>1. n \in 1..Len(os) /\ os[n] = o /\ Mark(kind, os, o) = TagFor(kind, n)
  <2>1. \E k \in 1..Len(os) : os[k] = o
    BY StrLen DEF ToSet, Str
  <2> QED BY <2>1 DEF Mark
<1> HIDE DEF n
<1>2. n \in Nat
  BY <1>1, StrLen
<1>3. TagFor(kind, n) \in Str(W)
  <2> DEFINE x == Name(kind, n)
             y == "["
             z == "]"
  <2>1. x \in W /\ y \in W /\ z \in W
    BY <1>2 DEF Glyphs
  <2>2. TagFor(kind, n) = <<y, x, z>>
    BY DEF TagFor
  <2> HIDE DEF x, y, z
  <2>3. <<y, x, z>> \in Seq(W)
    BY <2>1
  <2> QED BY <2>2, <2>3 DEF Str
<1> QED BY <1>1, <1>3

(* What a pass writes is text. *)
LEMMA PartTyped ==
  ASSUME NEW kind \in {"EMAIL", "URL"}, NEW O, NEW os \in Str(O), NEW W, Glyphs \subseteq W,
         NEW s \in Str(W), Known(kind, os, s), NEW i \in 1..Len(s)
  PROVE  Part(kind, os, s, i) \in Seq(W)
<1>1. CASE i \in Starting(kind, s)
  <2>1. PICK b \in Int : Match(kind, s, i, b)
    BY <1>1, SpanIs
  <2>2. Span(kind, s, i) \in ToSet(os)
    <3>1. i \in Int
      BY <2>1 DEF Match
    <3>2. Span(kind, s, i) = SubSeq(s, i, b)
      <4>1. \A c : Match(kind, s, i, c) => Span(kind, s, i) = SubSeq(s, i, c)
        BY SpanIs
      <4> QED BY ONLY <2>1, <4>1
    <3>3. SubSeq(s, i, b) \in ToSet(os)
      BY <2>1, <3>1 DEF Known
    <3> QED BY <3>2, <3>3
  <2>3. Mark(kind, os, Span(kind, s, i)) \in Str(W)
    BY <2>2, MarkIs
  <2> QED BY <1>1, <2>3 DEF Part, Str
<1>2. CASE i \notin Starting(kind, s)
  <2> DEFINE c == s[i]
  <2>1. c \in W
    BY StrLen
  <2>2. Part(kind, os, s, i) \in {<<>>, <<c>>}
    BY <1>2 DEF Part
  <2> HIDE DEF c
  <2>3. <<>> \in Seq(W) /\ <<c>> \in Seq(W)
    BY <2>1
  <2> QED BY ONLY <2>2, <2>3
<1> QED BY <1>1, <1>2

(* A pass makes a string of the characters of s and of placeholders. *)
LEMMA MarkedTyped ==
  ASSUME NEW kind \in {"EMAIL", "URL"}, NEW O, NEW os \in Str(O), NEW W, Glyphs \subseteq W,
         NEW s \in Str(W), Known(kind, os, s)
  PROVE  /\ [i \in 1..Len(s) |-> Part(kind, os, s, i)] \in Seq(Seq(W))
         /\ Marked(kind, os, s) \in Str(W)
<1> DEFINE p == [i \in 1..Len(s) |-> Part(kind, os, s, i)]
<1>1. Len(s) \in Nat /\ \A i \in 1..Len(s) : Part(kind, os, s, i) \in Seq(W)
  BY StrLen, PartTyped
<1>2. p \in Seq(Seq(W))
  BY ONLY <1>1
<1> HIDE DEF p
<1>3. FlattenSeq(p) \in Seq(W)
  BY <1>2, FlattenType
<1> QED BY <1>2, <1>3 DEF Marked, p, Str

(* The texts of both sides are known. *)
LEMMA KnownCat ==
  ASSUME NEW kind, NEW os, NEW T, NEW y \in Str(T), NEW r \in Str(T), Apart(kind, y, r),
         Known(kind, os, y ++ r)
  PROVE  Known(kind, os, y) /\ Known(kind, os, r)
<1>1. Len(y) \in Nat /\ Len(r) \in Nat
  BY StrLen
<1>2. ASSUME NEW a \in Int, NEW b \in Int, Match(kind, y, a, b) PROVE SubSeq(y, a, b) \in ToSet(os)
  <2>1. a \in Nat \ {0} /\ b \in Nat /\ a <= Len(y) /\ b <= Len(y)
    BY <1>1, <1>2 DEF Match
  <2>2. Match(kind, y ++ r, a, b)
    BY <1>2, <2>1, MatchLeft
  <2>3. SubSeq(y ++ r, a, b) = SubSeq(y, a, b)
    BY <2>1, CutCat
  <2> QED BY <2>2, <2>3 DEF Known
<1>3. ASSUME NEW a \in Int, NEW b \in Int, Match(kind, r, a, b) PROVE SubSeq(r, a, b) \in ToSet(os)
  <2>1. a \in Nat \ {0} /\ b \in Nat \ {0} /\ b \in Nat /\ b <= Len(r)
    BY <1>1, <1>3 DEF Match
  <2>2. Match(kind, y ++ r, Len(y) + a, Len(y) + b)
    BY <1>3, <2>1, MatchRight
  <2>3. SubSeq(y ++ r, Len(y) + a, Len(y) + b) = SubSeq(r, a, b)
    <3>1. a \in Nat \ {0} /\ b \in Nat
      BY <2>1
    <3>2. b <= Len(r) => SubSeq(y ++ r, Len(y) + a, Len(y) + b) = SubSeq(r, a, b)
      BY ONLY <3>1, y \in Str(T), r \in Str(T), CutCat
    <3> QED BY <2>1, <3>2
  <2>4. Len(y) + a \in Int /\ Len(y) + b \in Int
    BY <1>1, <2>1
  <2> QED BY <2>2, <2>3, <2>4 DEF Known
<1> QED BY <1>2, <1>3 DEF Known

(* A pass works on both sides by itself. *)
LEMMA MarkedCat ==
  ASSUME NEW kind \in {"EMAIL", "URL"}, NEW O, NEW os \in Str(O), NEW W, Glyphs \subseteq W,
         NEW y \in Str(W), NEW r \in Str(W), Apart(kind, y, r), Known(kind, os, y ++ r)
  PROVE  Marked(kind, os, y ++ r) = Marked(kind, os, y) ++ Marked(kind, os, r)
<1> DEFINE s == y ++ r
           n == Len(y)
           l == Len(r)
           ps == [i \in 1..Len(s) |-> Part(kind, os, s, i)]
           py == [i \in 1..n |-> Part(kind, os, y, i)]
           pr == [i \in 1..l |-> Part(kind, os, r, i)]
<1>1. n \in Nat /\ l \in Nat /\ s \in Str(W) /\ Len(s) = n + l
  BY LengthTyped
<1>2. Known(kind, os, y) /\ Known(kind, os, r)
  BY KnownCat
<1>3. ps \in Seq(Seq(W)) /\ py \in Seq(Seq(W)) /\ pr \in Seq(Seq(W))
  <2> HIDE DEF s, ps, py, pr
  <2>1. ps \in Seq(Seq(W))
    BY <1>1, MarkedTyped DEF ps, s
  <2>2. py \in Seq(Seq(W))
    BY <1>2, MarkedTyped DEF py
  <2>3. pr \in Seq(Seq(W))
    BY <1>2, MarkedTyped DEF pr
  <2> QED BY ONLY <2>1, <2>2, <2>3
<1>4. \A i \in 1..n : Part(kind, os, s, i) = Part(kind, os, y, i)
  BY PartLeft
<1>5. \A i \in 1..l : Part(kind, os, s, n + i) = Part(kind, os, r, i)
  <2>1. \A i \in 1..Len(r) : Part(kind, os, y ++ r, Len(y) + i) = Part(kind, os, r, i)
    BY ONLY y \in Str(W), r \in Str(W), Apart(kind, y, r), PartRight
  <2> QED BY ONLY <2>1 DEF s, n, l
<1>6. ps = py \o pr
  <2>1. Len(ps) = n + l /\ Len(py) = n /\ Len(pr) = l
    BY ONLY <1>1
  <2>2. \A i \in 1..n + l : ps[i] = Part(kind, os, s, i)
    BY ONLY <1>1
  <2>3. \A i \in 1..n : py[i] = Part(kind, os, s, i)
    BY ONLY <1>4
  <2>4. \A i \in 1..l : pr[i] = Part(kind, os, s, n + i)
    BY ONLY <1>5
  <2> DEFINE Q == Seq(W)
  <2>5. ps \in Str(Q) /\ py \in Str(Q) /\ pr \in Str(Q)
    BY ONLY <1>3 DEF Str
  <2> HIDE DEF ps, py, pr, Q, s, n, l
  <2>6. py ++ pr \in Str(Q) /\ Len(py ++ pr) = n + l
    BY <2>1, <2>5, LengthTyped
  <2>7. ASSUME NEW i \in 1..n + l PROVE (py ++ pr)[i] = ps[i]
    <3>1. (py ++ pr)[i] = IF i <= n THEN py[i] ELSE pr[i - n]
      BY <2>1, <2>5, CatAt
    <3>2. CASE i <= n
      <4>1. i \in 1..n
        BY <1>1, <3>2
      <4> QED BY ONLY <3>1, <3>2, <4>1, <2>2, <2>3, i \in 1..n + l
    <3>3. CASE ~(i <= n)
      <4>1. i - n \in 1..l /\ n + (i - n) = i
        BY <1>1, <3>3
      <4> QED BY ONLY <3>1, <3>3, <4>1, <2>2, <2>4, i \in 1..n + l
    <3> QED BY <3>2, <3>3
  <2>8. py ++ pr = ps
    BY <2>1, <2>5, <2>6, <2>7, StrEqual
  <2> QED BY ONLY <2>8 DEF ++
<1>7. Marked(kind, os, s) = FlattenSeq(ps) /\ Marked(kind, os, y) = FlattenSeq(py)
      /\ Marked(kind, os, r) = FlattenSeq(pr)
  BY DEF Marked
<1> HIDE DEF ps, py, pr, s
<1>8. FlattenSeq(ps) = FlattenSeq(py) \o FlattenSeq(pr)
  BY <1>3, <1>6, FlattenConcat
<1> QED BY ONLY <1>7, <1>8 DEF ++, s

(* A pass that finds nothing leaves the text as it is. *)
LEMMA MarkedNone ==
  ASSUME NEW kind, NEW os, NEW W, NEW s \in Str(W), \A a, b \in Int : ~Match(kind, s, a, b)
  PROVE  Marked(kind, os, s) = s
<1> DEFINE f == [c \in W |-> <<c>>]
<1>1. \A i \in 1..Len(s) : Part(kind, os, s, i) = <<s[i]>>
  <2>1. \A i \in 1..Len(s) : i \notin Starting(kind, s) /\ ~Covered(kind, s, i)
    BY SpanIs
  <2> QED BY <2>1 DEF Part
<1>2. \A i \in 1..Len(s) : s[i] \in W /\ f[s[i]] = <<s[i]>>
  BY StrLen
<1>3. f \in Codes(W, W)
  BY DEF Codes
<1> HIDE DEF f
<1>4. Marked(kind, os, s) = Each(f, s)
  BY <1>1, <1>2 DEF Marked, Each
<1>5. Each(f, s) = s
  BY <1>2, <1>3, EachSame DEF Str
<1> QED BY <1>4, <1>5

(* A pass that finds the whole text writes its placeholder. *)
LEMMA MarkedAll ==
  ASSUME NEW kind \in {"EMAIL", "URL"}, NEW O, NEW os \in Str(O), NEW W, Glyphs \subseteq W,
         NEW s \in Str(W), Known(kind, os, s), Match(kind, s, 1, Len(s)),
         \A a, b \in Int : Match(kind, s, a, b) => a = 1
  PROVE  Marked(kind, os, s) = Mark(kind, os, s) /\ s \in ToSet(os)
<1> DEFINE x == Mark(kind, os, s)
<1>1. Len(s) \in Nat /\ Len(s) >= 1 /\ s \in Seq(W)
  BY StrLen DEF Match, Str
<1>2. SubSeq(s, 1, Len(s)) = s
  BY <1>1, SubSeqFull
<1>3. s \in ToSet(os) /\ x \in Seq(W)
  <2>1. s \in ToSet(os)
    <3>1. 1 \in Int /\ Len(s) \in Int
      BY <1>1
    <3> QED BY <1>2, <3>1 DEF Known
  <2> QED BY <2>1, MarkIs DEF Str
<1>4. Part(kind, os, s, 1) = x
  <2>1. 1 \in Starting(kind, s) /\ Span(kind, s, 1) = s
    <3>1. Len(s) \in Int /\ 1 \in Int
      BY <1>1
    <3>2. 1 \in Starting(kind, s)
      BY <3>1, SpanIs
    <3>3. Span(kind, s, 1) = SubSeq(s, 1, Len(s))
      BY SpanIs
    <3> QED BY <1>2, <3>2, <3>3
  <2> QED BY <2>1 DEF Part
<1>5. ASSUME NEW i \in 1..Len(s), i # 1 PROVE Part(kind, os, s, i) = <<>>
  <2>1. i \notin Starting(kind, s)
    BY <1>1, <1>5, SpanIs
  <2>2. Covered(kind, s, i)
    <3>1. 1 \in Int /\ Len(s) \in Int /\ 1 < i /\ i <= Len(s)
      BY <1>1, <1>5
    <3> QED BY <3>1, SpanIs
  <2> QED BY <2>1, <2>2 DEF Part
<1> DEFINE p == [i \in 1..Len(s) |-> Part(kind, os, s, i)]
           e == [i \in 1..Len(s) - 1 |-> <<>>]
           l == <<x>>
<1>6. l \in Seq(Seq(W)) /\ FlattenSeq(l) = x
  <2> HIDE DEF x
  <2> QED BY <1>3, FlattenOne
<1>7. e \in Seq(Seq(W)) /\ FlattenSeq(e) = <<>>
  <2> DEFINE f == [c \in W |-> <<>>]
             t == SubSeq(s, 2, Len(s))
  <2>1. t \in Seq(W) /\ Len(t) = Len(s) - 1
    <3>1. 1 \in 0..Len(s) /\ 1 + 1 = 2
      BY <1>1
    <3>2. SubSeq(s, 1 + 1, Len(s)) \in Str(W) /\ Len(SubSeq(s, 1 + 1, Len(s))) = Len(s) - 1
      BY <3>1, CutAt
    <3> QED BY <3>1, <3>2 DEF Str
  <2> HIDE DEF t
  <2>2. \A k \in 1..Len(t) : f[t[k]] = <<>>
    BY <2>1
  <2> HIDE DEF f
  <2>3. Each(f, t) = <<>>
    BY <2>1, <2>2, EachNothing
  <2>4. e = [k \in 1..Len(t) |-> f[t[k]]]
    BY <2>1, <2>2
  <2>5. e \in Seq(Seq(W))
    <3>1. Len(s) - 1 \in Nat /\ <<>> \in Seq(W)
      BY <1>1
    <3> QED BY <3>1, SameSeq
  <2> QED BY <2>3, <2>4, <2>5 DEF Each
<1>8. p = l \o e
  <2>1. Len(l) = 1 /\ l[1] = x /\ Len(e) = Len(s) - 1 /\ \A i \in 1..Len(s) - 1 : e[i] = <<>>
    BY <1>1
  <2>2. \A i \in 1..Len(s) : p[i] = IF i = 1 THEN x ELSE <<>>
    BY <1>4, <1>5
  <2>3. Len(p) = Len(s)
    BY <1>1
  <2> DEFINE Q == Seq(W)
  <2>4. l \in Str(Q) /\ e \in Str(Q)
    BY <1>6, <1>7 DEF Str
  <2>5. p \in Str(Q)
    BY <1>1, MarkedTyped DEF Str
  <2> HIDE DEF l, e, p, x, Q
  <2>6. l ++ e \in Str(Q) /\ Len(l ++ e) = Len(s)
    <3>1. l ++ e \in Str(Q) /\ Len(l ++ e) = Len(l) + Len(e)
      BY <2>4, LengthTyped
    <3> QED BY ONLY <1>1, <2>1, <3>1
  <2>7. ASSUME NEW i \in 1..Len(s) PROVE (l ++ e)[i] = p[i]
    <3>1. (l ++ e)[i] = IF i <= 1 THEN l[i] ELSE e[i - 1]
      <4>1. \A j \in 1..Len(l) + Len(e) :
              (l ++ e)[j] = IF j <= Len(l) THEN l[j] ELSE e[j - Len(l)]
        BY <2>4, CatAt
      <4>2. i \in 1..Len(l) + Len(e)
        BY <1>1, <2>1
      <4> QED BY ONLY <2>1, <4>1, <4>2
    <3>2. CASE i = 1
      BY <2>1, <2>2, <3>1, <3>2
    <3>3. CASE i # 1
      <4>1. ~(i <= 1) /\ i - 1 \in 1..Len(s) - 1
        BY <1>1, <3>3
      <4> QED BY <2>1, <2>2, <3>1, <3>3, <4>1
    <3> QED BY <3>2, <3>3
  <2>8. l ++ e = p
    BY <2>3, <2>5, <2>6, <2>7, StrEqual
  <2> QED BY ONLY <2>8 DEF ++
<1>9. Marked(kind, os, s) = FlattenSeq(p)
  BY DEF Marked
<1> HIDE DEF p, l, e, x
<1>10. FlattenSeq(p) = x \o <<>>
  BY <1>6, <1>7, <1>8, FlattenConcat
<1>11. x \o <<>> = x
  BY <1>3
<1> QED BY ONLY <1>3, <1>9, <1>10, <1>11 DEF x

-----------------------------------------------------------------------------
(* The two passes over the message and the table they leave. *)

(* The addresses of a message, the text without them, and the links of that. *)
Mails(m) == Originals("EMAIL", m)
Tagged(m) == Marked("EMAIL", Mails(m), m)
Urls(m) == Originals("URL", Tagged(m))

(* The rows of a kind, one for each of its originals. *)
RowsOf(kind, os) == [n \in 1..Len(os) |-> Row(kind, os, n)]

(* What the two patterns make of a message, one after the other. *)
LEMMA AnonymizeIs ==
  ASSUME NEW m
  PROVE  /\ Anonymize(m).text = Marked("URL", Urls(m), Tagged(m))
         /\ Anonymize(m).table
            = (<<>> \o RowsOf("EMAIL", Mails(m))) \o RowsOf("URL", Urls(m))
<1> DEFINE a == [text |-> m, table |-> <<>>]
           b == Pass(a, "EMAIL")
           c == Pass(b, "URL")
<1>1. a.text = m /\ a.table = <<>>
  OBVIOUS
<1> HIDE DEF a
<1>2. b.text = Tagged(m) /\ b.table = <<>> \o RowsOf("EMAIL", Mails(m))
  BY <1>1, PassIs DEF Tagged, Mails, RowsOf
<1> HIDE DEF b
<1>3. c.text = Marked("URL", Urls(m), b.text) /\ c.table = b.table \o RowsOf("URL", Urls(m))
  BY <1>2, PassIs DEF Urls, RowsOf
<1>4. Anonymize(m) = c
  BY DEF Anonymize, a, b
<1> HIDE DEF c
<1> QED BY ONLY <1>2, <1>3, <1>4

(* Messages are texts; Chars, what a pass writes and what the chat knows. *)
Letters == Symbols \cup Glyphs

(* The types of what the two passes over the message work with. *)
LEMMA MailTyped ==
  ASSUME TableOK
  PROVE  /\ mail \in Str(Letters) /\ Known("EMAIL", Mails(mail), mail)
         /\ \E O : Mails(mail) \in Str(O)
         /\ Tagged(mail) \in Str(Letters) /\ Known("URL", Urls(mail), Tagged(mail))
         /\ \E O : Urls(mail) \in Str(O)
<1>1. mail \in Str(Letters)
  <2>1. mail \in Seq(Chars)
    <3> DEFINE x == <<mail, text>>
    <3>1. x \in Exchanges /\ x[1] = mail
      BY DEF TableOK
    <3> HIDE DEF x
    <3> QED BY <3>1, ChatAssumption
  <2>2. Chars \subseteq Letters
    BY DEF Letters, Symbols
  <2> HIDE DEF Letters
  <2> QED BY <2>1, <2>2 DEF Str
<1>2. Glyphs \subseteq Letters
  BY DEF Letters
<1>3. PICK O : Mails(mail) \in Str(O)
  BY <1>1, OriginalsFrom DEF Mails
<1>4. Known("EMAIL", Mails(mail), mail)
  BY <1>1, OriginalsAll DEF Mails
<1>5. Tagged(mail) \in Str(Letters)
  BY <1>1, <1>2, <1>3, <1>4, MarkedTyped DEF Tagged
<1>6. \E U : Urls(mail) \in Str(U)
  BY <1>5, OriginalsFrom DEF Urls
<1>7. Known("URL", Urls(mail), Tagged(mail))
  BY <1>5, OriginalsAll DEF Urls
<1> QED BY <1>1, <1>3, <1>4, <1>5, <1>6, <1>7

(* The rows of the table, and that it is no shorter than either part. *)
LEMMA TableHas ==
  ASSUME TableOK
  PROVE  /\ \A n \in 1..Len(Mails(mail)) : Row("EMAIL", Mails(mail), n) \in ToSet(table)
         /\ \A n \in 1..Len(Urls(mail)) : Row("URL", Urls(mail), n) \in ToSet(table)
         /\ \A e \in ToSet(table) :
              \/ \E n \in 1..Len(table) :
                   n \in 1..Len(Mails(mail)) /\ e = Row("EMAIL", Mails(mail), n)
              \/ \E n \in 1..Len(table) :
                   n \in 1..Len(Urls(mail)) /\ e = Row("URL", Urls(mail), n)
<1> DEFINE a == Mails(mail)
           b == Urls(mail)
           p == RowsOf("EMAIL", a)
           q == RowsOf("URL", b)
           R == {Row("EMAIL", a, n) : n \in 1..Len(a)} \cup {Row("URL", b, n) : n \in 1..Len(b)}
<1>1. Len(a) \in Nat /\ Len(b) \in Nat
  BY MailTyped, StrLen
<1>2. p \in Str(R) /\ Len(p) = Len(a) /\ \A n \in 1..Len(a) : p[n] = Row("EMAIL", a, n)
  <2> DEFINE f(n) == Row("EMAIL", a, n)
  <2>1. p = [n \in 1..Len(a) |-> f(n)] /\ \A n \in 1..Len(a) : f(n) \in R
    BY DEF RowsOf
  <2> HIDE DEF f, R, p, a
  <2>2. p \in Seq(R) /\ Len(p) = Len(a)
    BY <1>1, <2>1
  <2> QED BY <2>1, <2>2 DEF Str, f
<1>3. q \in Str(R) /\ Len(q) = Len(b) /\ \A n \in 1..Len(b) : q[n] = Row("URL", b, n)
  <2> DEFINE f(n) == Row("URL", b, n)
  <2>1. q = [n \in 1..Len(b) |-> f(n)] /\ \A n \in 1..Len(b) : f(n) \in R
    BY DEF RowsOf
  <2> HIDE DEF f, R, q, b
  <2>2. q \in Seq(R) /\ Len(q) = Len(b)
    BY <1>1, <2>1
  <2> QED BY <2>1, <2>2 DEF Str, f
<1> HIDE DEF a, b, p, q, R
<1>4. table = p ++ q
  <2>1. table = (<<>> \o p) \o q
    BY AnonymizeIs DEF TableOK, p, q, a, b
  <2>2. <<>> ++ p = p
    BY <1>2, CatEmpty
  <2> QED BY ONLY <2>1, <2>2 DEF ++
<1>5. ToSet(table) = ToSet(p) \cup ToSet(q) /\ Len(table) = Len(a) + Len(b)
  <2>1. p \in Str(R) /\ q \in Str(R)
    BY <1>2, <1>3
  <2>2. ToSet(p ++ q) = ToSet(p) \cup ToSet(q) /\ Len(p ++ q) = Len(p) + Len(q)
    BY ONLY <2>1, InCat, LengthTyped
  <2> QED BY ONLY <1>2, <1>3, <1>4, <2>2
<1>6. /\ \A n \in 1..Len(a) : Row("EMAIL", a, n) \in ToSet(p)
      /\ \A e \in ToSet(p) : \E n \in 1..Len(a) : e = Row("EMAIL", a, n)
  <2>1. DOMAIN p = 1..Len(a)
    BY <1>2 DEF Str
  <2> QED BY <1>2, <2>1 DEF ToSet
<1>7. /\ \A n \in 1..Len(b) : Row("URL", b, n) \in ToSet(q)
      /\ \A e \in ToSet(q) : \E n \in 1..Len(b) : e = Row("URL", b, n)
  <2>1. DOMAIN q = 1..Len(b)
    BY <1>3 DEF Str
  <2> QED BY <1>3, <2>1 DEF ToSet
<1>8. (\A n \in 1..Len(a) : n \in 1..Len(table)) /\ \A n \in 1..Len(b) : n \in 1..Len(table)
  BY <1>1, <1>5
<1>9. ASSUME NEW e \in ToSet(table)
      PROVE \/ \E n \in 1..Len(table) : n \in 1..Len(a) /\ e = Row("EMAIL", a, n)
            \/ \E n \in 1..Len(table) : n \in 1..Len(b) /\ e = Row("URL", b, n)
  <2>1. CASE e \in ToSet(p)
    BY <1>6, <1>8, <2>1
  <2>2. CASE e \in ToSet(q)
    BY <1>7, <1>8, <2>2
  <2> QED BY <1>5, <2>1, <2>2
<1> QED BY <1>5, <1>6, <1>7, <1>9 DEF a, b

(* No two rows share a placeholder. *)
LEMMA TagsDiffer ==
  ASSUME TableOK, NEW e \in ToSet(table), NEW f \in ToSet(table), e.tag = f.tag
  PROVE  e = f
<1> DEFINE x == <<mail, text>>
<1>1. x \in Exchanges /\ table = Anonymize(x[1]).table
  BY DEF TableOK
<1> HIDE DEF x
<1>2. ASSUME NEW i \in 1..Len(table), NEW j \in 1..Len(table), NEW k \in {"EMAIL", "URL"},
             NEW l \in {"EMAIL", "URL"}, TagFor(k, i) = TagFor(l, j)
      PROVE  k = l /\ i = j
  <2> DEFINE u == Name(k, i)
             v == Name(l, j)
  <2>1. TagFor(k, i) = <<"[", u, "]">> /\ TagFor(l, j) = <<"[", v, "]">>
    BY DEF TagFor
  <2> HIDE DEF u, v
  <2>2. u = v
    <3>1. <<"[", u, "]">>[2] = u /\ <<"[", v, "]">>[2] = v
      OBVIOUS
    <3> QED BY ONLY <1>2, <2>1, <3>1
  <2> QED BY <1>1, <2>2, ChatAssumption DEF u, v
<1>3. PICK i \in 1..Len(table), k \in {"EMAIL", "URL"} :
        e = Row(k, IF k = "EMAIL" THEN Mails(mail) ELSE Urls(mail), i)
  BY TableHas
<1>4. PICK j \in 1..Len(table), l \in {"EMAIL", "URL"} :
        f = Row(l, IF l = "EMAIL" THEN Mails(mail) ELSE Urls(mail), j)
  BY TableHas
<1>5. e.tag = TagFor(k, i) /\ f.tag = TagFor(l, j)
  BY <1>3, <1>4 DEF Row
<1> QED BY <1>2, <1>3, <1>4, <1>5

(* Every row of the table is put back. *)
LEMMA LongestFirstAll ==
  ASSUME TableOK, NEW e \in ToSet(table)
  PROVE  e \in ToSet(LongestFirst)
<1> DEFINE R == ToSet(table)
           q(kind, k) == IF table[k].kind = kind THEN <<table[k]>> ELSE <<>>
           p(kind) == [k \in 1..Len(table) |-> q(kind, k)]
<1>1. table \in Seq(R) /\ Len(table) \in Nat /\ DOMAIN table = 1..Len(table)
  BY TableIs, StrLen DEF Str
<1> HIDE DEF R
<1>2. ASSUME NEW kind PROVE p(kind) \in Seq(Seq(R)) /\ OfKind(kind) = FlattenSeq(p(kind))
  <2>1. ASSUME NEW k \in 1..Len(table) PROVE q(kind, k) \in Seq(R)
    <3>1. table[k] \in R
      BY <1>1
    <3> QED BY <3>1
  <2>2. OfKind(kind) = FlattenSeq(p(kind))
    BY DEF OfKind
  <2> HIDE DEF q
  <2>3. p(kind) \in Seq(Seq(R))
    BY <1>1, <2>1
  <2> QED BY <2>2, <2>3
<1>3. ASSUME NEW kind PROVE OfKind(kind) \in Str(R)
  <2> HIDE DEF p
  <2> QED BY <1>2, FlattenType DEF Str
<1>4. PICK k \in 1..Len(table) : e = table[k]
  BY <1>1 DEF ToSet, R
<1>5. e.kind \in {"EMAIL", "URL"}
  <2> DEFINE x == <<mail, text>>
  <2>1. x \in Exchanges /\ table = Anonymize(x[1]).table
    BY DEF TableOK
  <2> HIDE DEF x
  <2> QED BY <2>1, TableRows
<1>6. e \in ToSet(OfKind(e.kind))
  <2> DEFINE c == e.kind
             l == <<e>>
  <2>1. q(c, k) = l
    BY <1>4
  <2>2. Len(p(c)) = Len(table) /\ p(c)[k] = q(c, k)
    <3> HIDE DEF q
    <3> QED BY <1>1
  <2>3. e \in ToSet(l)
    <3>1. l[1] = e /\ 1 \in DOMAIN l
      OBVIOUS
    <3> QED BY <3>1 DEF ToSet
  <2>4. p(c) \in Seq(Seq(R)) /\ OfKind(c) = FlattenSeq(p(c))
    BY <1>2
  <2> DEFINE pc == p(c)
  <2> HIDE DEF p, q, l, c
  <2>5. pc \in Seq(Seq(R)) /\ k \in 1..Len(pc) /\ e \in ToSet(pc[k]) /\ OfKind(c) = FlattenSeq(pc)
    BY <1>4, <2>1, <2>2, <2>3, <2>4
  <2> HIDE DEF pc
  <2>6. e \in ToSet(FlattenSeq(pc))
    BY <2>5, FlattenHas
  <2> QED BY <2>5, <2>6 DEF c
<1>7. LongestFirst = OfKind("EMAIL") ++ OfKind("URL")
  BY DEF LongestFirst, ++
<1>8. ToSet(LongestFirst) = ToSet(OfKind("EMAIL")) \cup ToSet(OfKind("URL"))
  BY <1>3, <1>7, InCat
<1> QED BY <1>5, <1>6, <1>8

-----------------------------------------------------------------------------
(* Putting the originals back, placeholder by placeholder. *)

(* A text without the placeholder stays as it is. *)
LEMMA PutNone ==
  ASSUME NEW T, NEW s \in Str(T), NEW e, \A i \in Int : ~TagAt(e, s, i)
  PROVE  Put(e, s) = s
<1> DEFINE f == [c \in T |-> <<c>>]
<1>1. Len(s) \in Nat /\ \A i \in 1..Len(s) : s[i] \in T /\ f[s[i]] = <<s[i]>>
  BY StrLen
<1>2. \A i \in 1..Len(s) : PutAt(e, s, i) = <<s[i]>>
  <2>1. \A i \in 1..Len(s) : i \in Int /\ i - 1 \in Int /\ i - 2 \in Int
    BY <1>1
  <2> HIDE DEF f
  <2> QED BY <2>1 DEF PutAt
<1>3. f \in Codes(T, T)
  BY DEF Codes
<1> HIDE DEF f
<1>4. PutParts(e, s) = [i \in 1..Len(s) |-> f[s[i]]]
  BY <1>1, <1>2 DEF PutParts
<1>5. Put(e, s) = Each(f, s)
  BY <1>4, PutIs DEF Each
<1>6. Each(f, s) = s
  BY <1>1, <1>3, EachSame DEF Str
<1> QED BY <1>5, <1>6

(* Nothing is put into a string without an open bracket. *)
LEMMA PutOpenless ==
  ASSUME NEW T, NEW s \in Str(T), NEW e, e.tag = <<"[", e.tag[2], "]">>,
         \A k \in 1..Len(s) : s[k] # "["
  PROVE  Put(e, s) = s
<1>1. ASSUME NEW i \in Int, TagAt(e, s, i) PROVE FALSE
  <2>1. i >= 1 /\ i + 2 <= Len(s) /\ s[i] = "["
    BY <1>1, TagAtIs
  <2>2. i \in 1..Len(s)
    BY <2>1, StrLen
  <2> QED BY <2>1, <2>2
<1> QED BY <1>1, PutNone

(* Another placeholder stays as it is. *)
LEMMA PutOtherTag ==
  ASSUME NEW T, NEW e, e.tag = <<"[", e.tag[2], "]">>, e.tag \in Str(T),
         NEW f, f.tag = <<"[", f.tag[2], "]">>, e.tag # f.tag
  PROVE  Put(f, e.tag) = e.tag
<1> DEFINE t == e.tag
           x == e.tag[2]
           y == f.tag[2]
           u == <<"[", x, "]">>
<1>1. t = u /\ x # y /\ t \in Str(T)
  OBVIOUS
<1>2. Len(u) = 3 /\ u[2] = x
  <2> HIDE DEF x
  <2> QED OBVIOUS
<1> HIDE DEF t, x, u
<1>3. ASSUME NEW i \in Int, TagAt(f, t, i) PROVE FALSE
  <2>1. i >= 1 /\ i + 2 <= Len(t) /\ t[i + 1] = y
    BY <1>1, <1>3, TagAtIs
  <2>2. i = 1
    BY <1>1, <1>2, <2>1
  <2>3. t[2] = y
    BY <2>1, <2>2
  <2> QED BY <1>1, <1>2, <2>3
<1>4. Put(f, t) = t
  BY <1>1, <1>3, PutNone
<1> QED BY <1>4 DEF t

(* All replacements leave a text that each of them leaves. *)
LEMMA PutAllNone ==
  ASSUME NEW U, NEW entries \in Str(U), NEW s, \A e \in U : Put(e, s) = s
  PROVE  PutAll(entries, s) = s
<1>1. PICK g : Puts(entries, s, g) /\ PutAll(entries, s) = g[Len(entries)]
  BY PutAllIs
<1> DEFINE S == {k \in Nat : k <= Len(entries) => g[k] = s}
<1>2. 0 \in S
  BY <1>1, PutsAt
<1>3. ASSUME NEW k \in Nat, k \in S PROVE k + 1 \in S
  <2>1. SUFFICES ASSUME k + 1 <= Len(entries) PROVE g[k + 1] = s
    BY <1>3
  <2>2. g[k + 1] = Put(entries[k + 1], g[k]) /\ entries[k + 1] \in U
    BY <1>1, <2>1, PutsAt
  <2>3. g[k] = s
    BY <1>3, <2>1, StrLen
  <2> QED BY <2>2, <2>3
<1>4. Nat \subseteq S
  <2> HIDE DEF S
  <2> QED BY <1>2, <1>3, NatSetInduction
<1>5. Len(entries) \in Nat
  BY StrLen
<1> QED BY <1>1, <1>4, <1>5

(* All replacements turn a placeholder into its original. *)
LEMMA PutAllTag ==
  ASSUME NEW U, NEW entries \in Str(U), NEW e \in ToSet(entries),
         Put(e, e.tag) = e.original,
         \A f \in U : f # e => Put(f, e.tag) = e.tag,
         \A f \in U : Put(f, e.original) = e.original
  PROVE  PutAll(entries, e.tag) = e.original
<1>1. PICK g : Puts(entries, e.tag, g) /\ PutAll(entries, e.tag) = g[Len(entries)]
  BY PutAllIs
<1>2. Len(entries) \in Nat
  BY StrLen
<1>3. PICK j \in 1..Len(entries) : e = entries[j]
  BY DEF ToSet, Str
<1> DEFINE S == {k \in Nat : k <= Len(entries) =>
                   g[k] = e.original \/ (g[k] = e.tag /\ k < j)}
<1>4. 0 \in S
  BY <1>1, <1>3, PutsAt
<1>5. ASSUME NEW k \in Nat, k \in S PROVE k + 1 \in S
  <2>1. SUFFICES ASSUME k + 1 <= Len(entries)
                 PROVE g[k + 1] = e.original \/ (g[k + 1] = e.tag /\ k + 1 < j)
    BY <1>5
  <2>2. g[k + 1] = Put(entries[k + 1], g[k]) /\ entries[k + 1] \in U
    BY <1>1, <2>1, PutsAt
  <2>3. g[k] = e.original \/ (g[k] = e.tag /\ k < j)
    BY <1>2, <1>5, <2>1
  <2>4. CASE g[k] = e.original
    BY <2>2, <2>4
  <2>5. CASE g[k] = e.tag /\ k < j
    <3>1. CASE entries[k + 1] = e
      BY <2>2, <2>5, <3>1
    <3>2. CASE entries[k + 1] # e
      <4>1. g[k + 1] = e.tag
        BY <2>2, <2>5, <3>2
      <4>2. k + 1 # j
        BY <1>3, <3>2
      <4> QED BY <2>5, <4>1, <4>2
    <3> QED BY <3>1, <3>2
  <2> QED BY <2>3, <2>4, <2>5
<1>6. Nat \subseteq S
  <2> HIDE DEF S
  <2> QED BY <1>4, <1>5, NatSetInduction
<1>7. g[Len(entries)] = e.original
  BY <1>2, <1>3, <1>6
<1> QED BY <1>1, <1>7

(* Originals without brackets: what is put back. *)
Bracketless(s) == \A k \in 1..Len(s) : s[k] \notin {"[", "]"}

(* Deanonymize leaves a character that is no bracket, and what follows is its own. *)
LEMMA DeanonymizeOther ==
  ASSUME TableOK, NEW s \in Str(Letters), Bracketless(s)
  PROVE  Deanonymize(s) = s
<1>1. \A e \in ToSet(table) : Put(e, s) = s
  <2>1. \A e \in ToSet(table) : e.tag = <<"[", e.tag[2], "]">>
    BY TableIs
  <2>2. \A k \in 1..Len(s) : s[k] # "["
    BY DEF Bracketless
  <2> QED BY <2>1, <2>2, PutOpenless
<1> QED BY <1>1, LongestFirstTyped, PutAllNone DEF Deanonymize

(* Deanonymize puts the original in the place of a placeholder at the start, and
   what follows is its own. *)
LEMMA DeanonymizeTag ==
  ASSUME TableOK, \A f \in ToSet(table) : Bracketless(f.original), NEW e \in ToSet(table)
  PROVE  Deanonymize(e.tag) = e.original
<1>1. /\ NoBrackets(Names)
      /\ \A f \in ToSet(table) : f.tag = <<"[", f.tag[2], "]">> /\ f.tag[2] \in Names
  BY TableIs
<1>2. \A f \in ToSet(table) : Entry(Symbols, Names, f)
  BY SymbolsHold
<1> DEFINE W == Symbols \cup {"[", "]"} \cup Names
<1>3. Symbols \subseteq W
  OBVIOUS
<1>4. e.tag \in Str(W)
  <2> DEFINE x == e.tag[2]
             b == "["
             c == "]"
  <2>1. e.tag = <<b, x, c>> /\ b \in W /\ x \in W /\ c \in W
    BY <1>1
  <2> HIDE DEF x, b, c, W
  <2>2. <<b, x, c>> \in Seq(W)
    BY <2>1
  <2> QED BY <2>1, <2>2 DEF Str
<1> HIDE DEF W
<1>5. ASSUME NEW f \in ToSet(table) PROVE Entry(W, Names, f) /\ f.original \in Str(W)
  <2>1. f.original \in Str(W)
    BY <1>2, <1>3 DEF Entry, Str
  <2> QED BY <1>2, <2>1 DEF Entry
<1>6. Put(e, e.tag) = e.original
  BY <1>1, <1>4, <1>5, PutTag
<1>7. ASSUME NEW f \in ToSet(table), f # e PROVE Put(f, e.tag) = e.tag
  <2>1. f.tag # e.tag
    BY <1>7, TagsDiffer
  <2> QED BY <1>1, <1>4, <2>1, PutOtherTag
<1>8. ASSUME NEW f \in ToSet(table) PROVE Put(f, e.original) = e.original
  <2>1. \A k \in 1..Len(e.original) : e.original[k] # "["
    BY DEF Bracketless
  <2> QED BY <1>1, <1>5, <2>1, PutOpenless
<1>9. e \in ToSet(LongestFirst)
  BY LongestFirstAll
<1> QED BY <1>6, <1>7, <1>8, <1>9, LongestFirstTyped, PutAllTag DEF Deanonymize

-----------------------------------------------------------------------------
(* A message without addresses in links is cut into units: an address, another
   character, or a link up to white space. *)

(* Plain, as a statement about matches. *)
LEMMA PlainIs ==
  ASSUME NEW T, NEW s \in Str(T)
  PROVE  Plain(s) <=> /\ Bracketless(s)
                      /\ \A a, b \in Int : Match("URL", s, a, b) =>
                           \A k \in a..b : s[k] \notin Addresses
<1>1. DOMAIN s = 1..Len(s)
  BY DEF Str
<1>2. (\A p \in Found("URL", s) : \A k \in p[1]..p[2] : s[k] \notin Addresses)
      <=> \A a, b \in Int : Match("URL", s, a, b) => \A k \in a..b : s[k] \notin Addresses
  <2>1. ASSUME NEW p \in Found("URL", s)
        PROVE p[1] \in Int /\ p[2] \in Int /\ Match("URL", s, p[1], p[2])
    BY FoundPair DEF Match
  <2>2. ASSUME NEW a \in Int, NEW b \in Int, Match("URL", s, a, b)
        PROVE \E p \in Found("URL", s) : p[1] = a /\ p[2] = b
    <3> DEFINE p == <<a, b>>
    <3>1. p \in Found("URL", s) /\ p[1] = a /\ p[2] = b
      BY <2>2, FoundIs
    <3> QED BY <3>1
  <2>3. ASSUME \A p \in Found("URL", s) : \A k \in p[1]..p[2] : s[k] \notin Addresses,
               NEW a \in Int, NEW b \in Int, Match("URL", s, a, b), NEW k \in a..b
        PROVE  s[k] \notin Addresses
    <3>1. PICK p \in Found("URL", s) : p[1] = a /\ p[2] = b
      BY <2>2, <2>3
    <3> QED BY <2>3, <3>1
  <2> QED BY <2>1, <2>3
<1> QED BY <1>1, <1>2 DEF Plain, Bracketless

(* What follows is plain as well. *)
LEMMA PlainRight ==
  ASSUME NEW T, NEW y \in Str(T), NEW z \in Str(T), Apart("URL", y, z), Plain(y ++ z)
  PROVE  Plain(z) /\ Bracketless(y)
<1> DEFINE s == y ++ z
           n == Len(y)
<1>1. /\ n \in Nat /\ Len(z) \in Nat /\ Len(s) = n + Len(z) /\ s \in Str(T)
      /\ \A i \in 1..n : s[i] = y[i]
      /\ \A i \in 1..Len(z) : s[n + i] = z[i]
  <2>1. n \in Nat /\ Len(z) \in Nat /\ Len(s) = n + Len(z) /\ s \in Str(T)
    BY LengthTyped
  <2>2. (\A i \in 1..n : s[i] = y[i]) /\ \A i \in 1..Len(z) : s[n + i] = z[i]
    BY CatLeft, CatRight
  <2> QED BY ONLY <2>1, <2>2
<1>2. /\ Bracketless(s)
      /\ \A a, b \in Int : Match("URL", s, a, b) => \A k \in a..b : s[k] \notin Addresses
  BY <1>1, PlainIs
<1> HIDE DEF s
<1>3. Bracketless(y)
  BY <1>1, <1>2 DEF Bracketless
<1>4. Bracketless(z)
  <2>1. \A i \in 1..Len(z) : n + i \in 1..Len(s)
    BY <1>1
  <2> QED BY <1>1, <1>2, <2>1 DEF Bracketless
<1>5. ASSUME NEW a \in Int, NEW b \in Int, Match("URL", z, a, b), NEW k \in a..b
      PROVE z[k] \notin Addresses
  <2>1. a \in Nat \ {0} /\ b \in Nat \ {0} /\ b <= Len(z) /\ k \in 1..Len(z)
    BY <1>1, <1>5 DEF Match
  <2>2. Match("URL", s, n + a, n + b)
    BY <1>5, <2>1, MatchRight DEF s
  <2>3. n + a \in Int /\ n + b \in Int /\ n + k \in n + a..n + b
    BY <1>1, <1>5, <2>1
  <2> HIDE DEF n
  <2>4. s[n + k] \notin Addresses
    BY <1>2, <2>2, <2>3
  <2> QED BY <1>1, <2>1, <2>4
<1> QED BY <1>3, <1>4, <1>5, PlainIs

(* s is a first unit y, which is an address, another character or a link that ends
   before white space, and a plain rest. *)
Unit(T, y, z) ==
  \/ \E c \in T : y = <<c>> /\ c # Link
  \/ /\ y[1] = Link /\ (z = <<>> \/ z[1] \in White)
     /\ \A k \in 1..Len(y) : y[k] \notin White \cup Addresses

(* A cut of s into a unit and the rest. *)
Fronted(T, s, y, z) ==
  /\ s = y ++ z /\ y # <<>> /\ Len(z) < Len(s)
  /\ Plain(z) /\ Bracketless(y) /\ Unit(T, y, z)

(* Every plain string that is not empty starts with a unit. *)
LEMMA FirstUnit ==
  ASSUME NEW T, NEW s \in Str(T), s # <<>>, Plain(s)
  PROVE  \E y, z \in Str(T) : Fronted(T, s, y, z)
<1>1. Len(s) \in Nat /\ Len(s) >= 1 /\ \A i \in 1..Len(s) : s[i] \in T
  BY StrLen
<1>2. ASSUME NEW e \in 1..Len(s)
      PROVE  \E y, z \in Str(T) :
               /\ s = y ++ z /\ y # <<>> /\ Len(z) < Len(s) /\ Len(y) = e /\ Len(z) = Len(s) - e
               /\ \A i \in 1..e : y[i] = s[i]
               /\ e < Len(s) => z[1] = s[e + 1]
  <2> DEFINE y == SubSeq(s, 1, e)
             z == SubSeq(s, e + 1, Len(s))
  <2>1. y \in Str(T) /\ z \in Str(T) /\ s = y ++ z /\ Len(y) = e /\ Len(z) = Len(s) - e
    <3>1. e \in 0..Len(s)
      BY <1>1
    <3> QED BY <3>1, CutAt
  <2> HIDE DEF y, z
  <2>2. \A i \in 1..Len(y) : (y ++ z)[i] = y[i]
    BY <2>1, CatLeft
  <2>3. \A i \in 1..Len(z) : (y ++ z)[Len(y) + i] = z[i]
    BY <2>1, CatRight
  <2>4. y # <<>> /\ Len(z) < Len(s)
    BY <1>1, <2>1, StrLen
  <2>5. \A i \in 1..e : y[i] = s[i]
    BY ONLY <2>1, <2>2
  <2>6. e < Len(s) => z[1] = s[e + 1]
    <3>1. e < Len(s) => 1 \in 1..Len(z)
      BY <1>1, <2>1
    <3> QED BY ONLY <2>1, <2>3, <3>1
  <2> QED BY <2>1, <2>4, <2>5, <2>6
<1>3. CASE s[1] # Link
  <2>1. 1 \in 1..Len(s)
    BY <1>1
  <2>2. PICK y \in Str(T), z \in Str(T) :
          /\ s = y ++ z /\ y # <<>> /\ Len(z) < Len(s) /\ Len(y) = 1
          /\ \A i \in 1..1 : y[i] = s[i]
    BY <1>2, <2>1
  <2>3. \A k \in 1..Len(y) : y[k] # Link
    BY <1>3, <2>2
  <2>4. Plain(z) /\ Bracketless(y)
    BY <2>2, <2>3, PlainRight DEF Apart
  <2>5. y = <<s[1]>> /\ s[1] \in T
    <3>1. y[1] = s[1] /\ y \in Seq(T)
      BY <2>2 DEF Str
    <3> QED BY <1>1, <2>1, <2>2, <3>1
  <2>6. Fronted(T, s, y, z)
    BY <1>3, <2>2, <2>4, <2>5 DEF Fronted, Unit
  <2> QED BY <2>2, <2>6
<1>4. CASE s[1] = Link
  <2> DEFINE E == {k \in 1..Len(s) : k = Len(s) \/ s[k + 1] \in White}
             e == Min(E)
  <2>1. E \in SUBSET Nat /\ E # {}
    <3>1. Len(s) \in E
      BY <1>1
    <3> QED BY <3>1
  <2>2. e \in E /\ \A k \in E : e <= k
    <3> HIDE DEF E
    <3> QED BY <2>1, MinIs
  <2> HIDE DEF e, E
  <2>3. e \in 1..Len(s) /\ (e = Len(s) \/ s[e + 1] \in White)
    BY <2>2 DEF E
  <2>4. ASSUME NEW k \in 1..e PROVE s[k] \notin White
    <3>1. CASE k = 1
      BY <1>4, <3>1, ChatAssumption
    <3>2. CASE k # 1
      <4>1. k - 1 \in 1..Len(s) /\ k - 1 < e /\ (k - 1) + 1 = k
        BY <1>1, <2>3, <3>2
      <4>2. k - 1 \notin E
        <5>1. ~(e <= k - 1)
          BY <1>1, <2>3, <4>1
        <5> QED BY ONLY <2>2, <5>1
      <4>3. s[(k - 1) + 1] \notin White
        BY <4>1, <4>2 DEF E
      <4> QED BY <4>1, <4>3
    <3> QED BY <3>1, <3>2
  <2>5. Match("URL", s, 1, e)
    <3>1. 1 \in 1..Len(s) /\ 1 <= e /\ \A k \in 1..1 - 1 : FALSE
      BY <1>1, <2>3
    <3> QED BY <1>4, <2>3, <2>4, <3>1 DEF Match, LinkAt
  <2>6. \A k \in 1..e : s[k] \notin Addresses
    <3>1. 1 \in Int /\ e \in Int
      BY <1>1, <2>3
    <3> QED BY <2>5, <3>1, PlainIs
  <2>7. PICK y \in Str(T), z \in Str(T) :
          /\ s = y ++ z /\ y # <<>> /\ Len(z) < Len(s) /\ Len(y) = e /\ Len(z) = Len(s) - e
          /\ \A i \in 1..e : y[i] = s[i]
          /\ e < Len(s) => z[1] = s[e + 1]
    BY <1>2, <2>3
  <2>8. z = <<>> \/ z[1] \in White
    <3>1. CASE e = Len(s)
      <4>1. Len(z) = 0
        BY <1>1, <2>7, <3>1
      <4> QED BY <4>1, StrLen
    <3>2. CASE e # Len(s)
      BY <1>1, <2>3, <2>7, <3>2
    <3> QED BY <3>1, <3>2
  <2>9. \A k \in 1..Len(y) : y[k] \notin White \cup Addresses
    BY <2>4, <2>6, <2>7
  <2>10. Plain(z) /\ Bracketless(y)
    BY <2>7, <2>8, <2>9, PlainRight DEF Apart
  <2>11. y[1] = Link
    BY <1>1, <1>4, <2>3, <2>7
  <2>12. Fronted(T, s, y, z)
    BY <2>7, <2>8, <2>9, <2>10, <2>11 DEF Fronted, Unit
  <2> QED BY <2>7, <2>12
<1> QED BY <1>3, <1>4

-----------------------------------------------------------------------------
(* What the two passes make of one unit. *)

(* u is the one character of y, or the placeholder that stands for y. *)
Turns(y, u) ==
  \/ u = y /\ Len(y) = 1
  \/ \E e \in ToSet(table) : u = e.tag /\ e.original = y

(* There is no link in y. *)
Linkless(y) == \A k \in 1..Len(y) : y[k] # Link

(* y is a link and nothing else. *)
OneLink(y) ==
  /\ Match("URL", y, 1, Len(y))
  /\ \A a, b \in Int : Match("URL", y, a, b) => a = 1
  /\ \A k \in 1..Len(y) : y[k] \notin White

(* The placeholder of a known text is that of a row with it. *)
LEMMA MarkRow ==
  ASSUME TableOK, NEW y
  PROVE  /\ y \in ToSet(Mails(mail)) => Turns(y, Mark("EMAIL", Mails(mail), y))
         /\ y \in ToSet(Urls(mail)) => Turns(y, Mark("URL", Urls(mail), y))
<1>1. ASSUME y \in ToSet(Mails(mail)) PROVE Turns(y, Mark("EMAIL", Mails(mail), y))
  <2>1. PICK O : Mails(mail) \in Str(O)
    BY MailTyped
  <2>2. PICK n \in 1..Len(Mails(mail)) :
          Mails(mail)[n] = y /\ Mark("EMAIL", Mails(mail), y) = TagFor("EMAIL", n)
    BY <1>1, <2>1, MarkIs
  <2> DEFINE e == Row("EMAIL", Mails(mail), n)
  <2>3. e \in ToSet(table)
    BY <2>2, TableHas
  <2>4. e.tag = TagFor("EMAIL", n) /\ e.original = y
    BY <2>2 DEF Row
  <2> HIDE DEF e
  <2> QED BY <2>2, <2>3, <2>4 DEF Turns
<1>2. ASSUME y \in ToSet(Urls(mail)) PROVE Turns(y, Mark("URL", Urls(mail), y))
  <2>1. PICK O : Urls(mail) \in Str(O)
    BY MailTyped
  <2>2. PICK n \in 1..Len(Urls(mail)) :
          Urls(mail)[n] = y /\ Mark("URL", Urls(mail), y) = TagFor("URL", n)
    BY <1>2, <2>1, MarkIs
  <2> DEFINE e == Row("URL", Urls(mail), n)
  <2>3. e \in ToSet(table)
    BY <2>2, TableHas
  <2>4. e.tag = TagFor("URL", n) /\ e.original = y
    BY <2>2 DEF Row
  <2> HIDE DEF e
  <2> QED BY <2>2, <2>3, <2>4 DEF Turns
<1> QED BY <1>1, <1>2

(* There is no link in a placeholder. *)
LEMMA TagLinkless ==
  ASSUME TableOK, NEW e \in ToSet(table)
  PROVE  Linkless(e.tag)
<1> DEFINE x == <<mail, text>>
           y == e.tag[2]
           b == "["
           c == "]"
<1>1. x \in Exchanges /\ table = Anonymize(x[1]).table
  BY DEF TableOK
<1> HIDE DEF x
<1>2. e.tag = <<b, y, c>> /\ y # Link
  BY <1>1, TableRows
<1>3. b # Link /\ c # Link
  BY ChatAssumption
<1> HIDE DEF y, b, c
<1>4. Len(<<b, y, c>>) = 3 /\ \A k \in 1..3 : <<b, y, c>>[k] \in {b, y, c}
  OBVIOUS
<1> QED BY <1>2, <1>3, <1>4 DEF Linkless

(* What the two passes make of a unit. *)
LEMMA UnitPasses ==
  ASSUME TableOK, NEW y \in Str(Letters), NEW z, y # <<>>, Unit(Letters, y, z),
         Known("EMAIL", Mails(mail), y)
  PROVE  LET y1 == Marked("EMAIL", Mails(mail), y)
         IN  /\ y1 \in Str(Letters)
             /\ \/ Linkless(y1) /\ Turns(y, y1)
                \/ y1 = y /\ OneLink(y) /\ (z = <<>> \/ z[1] \in White)
<1> DEFINE y1 == Marked("EMAIL", Mails(mail), y)
<1>1. PICK O : Mails(mail) \in Str(O)
  BY MailTyped
<1>2. Glyphs \subseteq Letters
  BY DEF Letters
<1>3. y1 \in Str(Letters)
  BY <1>1, <1>2, MarkedTyped
<1>4. Len(y) \in Nat /\ Len(y) >= 1
  BY StrLen
<1>5. ASSUME \A k \in 1..Len(y) : y[k] \notin Addresses PROVE y1 = y
  <2>1. \A a, b \in Int : ~Match("EMAIL", y, a, b)
    BY <1>5 DEF Match
  <2> QED BY <2>1, MarkedNone
<1>6. ASSUME NEW c \in Letters, y = <<c>>, c # Link, c \notin Addresses
      PROVE  Linkless(y1) /\ Turns(y, y1)
  <2>1. Len(y) = 1 /\ y[1] = c
    BY <1>6
  <2>2. y1 = y
    BY <1>5, <1>6, <2>1
  <2> QED BY <1>6, <2>1, <2>2 DEF Linkless, Turns
<1>7. ASSUME NEW c \in Letters, y = <<c>>, c \in Addresses
      PROVE  Linkless(y1) /\ Turns(y, y1)
  <2>1. Len(y) = 1 /\ y[1] = c
    BY <1>7
  <2>2. Match("EMAIL", y, 1, Len(y)) /\ \A a, b \in Int : Match("EMAIL", y, a, b) => a = 1
    BY <1>7, <2>1 DEF Match
  <2>3. y1 = Mark("EMAIL", Mails(mail), y) /\ y \in ToSet(Mails(mail))
    BY <1>1, <1>2, <2>2, MarkedAll
  <2>4. Turns(y, y1)
    BY <2>3, MarkRow
  <2>5. CASE y1 = y
    <3>1. c # Link
      BY <1>7, ChatAssumption
    <3> QED BY <2>1, <2>4, <2>5, <3>1 DEF Linkless
  <2>6. CASE y1 # y
    <3>1. PICK e \in ToSet(table) : y1 = e.tag
      BY <2>4, <2>6 DEF Turns
    <3> QED BY <2>4, <3>1, TagLinkless
  <2> QED BY <2>5, <2>6
<1>8. ASSUME y[1] = Link, z = <<>> \/ z[1] \in White,
             \A k \in 1..Len(y) : y[k] \notin White \cup Addresses
      PROVE  y1 = y /\ OneLink(y)
  <2>1. y1 = y
    BY <1>5, <1>8
  <2>2. \A k \in 1..Len(y) : y[k] \notin White
    BY <1>8
  <2>3. Match("URL", y, 1, Len(y))
    <3>1. 1 \in 1..Len(y) /\ Len(y) \in 1..Len(y) /\ 1 <= Len(y) /\ \A k \in 1..1 - 1 : FALSE
      BY <1>4
    <3> QED BY <1>8, <2>2, <3>1 DEF Match, LinkAt
  <2>4. ASSUME NEW a \in Int, NEW b \in Int, Match("URL", y, a, b), a # 1 PROVE FALSE
    <3>1. a \in 1..Len(y) /\ \A k \in 1..a - 1 : y[k] = Link => \E w \in k..a : y[w] \in White
      BY <2>4 DEF Match, LinkAt
    <3>2. 1 \in 1..a - 1
      BY <1>4, <2>4, <3>1
    <3>3. PICK w \in 1..a : y[w] \in White
      BY <1>8, <3>1, <3>2
    <3>4. w \in 1..Len(y)
      BY <1>4, <3>1
    <3> QED BY <2>2, <3>3, <3>4
  <2> QED BY <2>1, <2>2, <2>3, <2>4 DEF OneLink
<1> HIDE DEF y1
<1>9. CASE \E c \in Letters : y = <<c>> /\ c # Link
  BY <1>3, <1>6, <1>7, <1>9 DEF y1
<1>10. CASE ~(\E c \in Letters : y = <<c>> /\ c # Link)
  <2>1. /\ y[1] = Link /\ (z = <<>> \/ z[1] \in White)
        /\ \A k \in 1..Len(y) : y[k] \notin White \cup Addresses
    BY <1>10 DEF Unit
  <2> QED BY <1>3, <1>8, <2>1 DEF y1
<1> QED BY <1>9, <1>10

(* White space stays white space. *)
LEMMA WhiteStays ==
  ASSUME TableOK, NEW z \in Str(Letters), Known("EMAIL", Mails(mail), z),
         z = <<>> \/ z[1] \in White
  PROVE  LET t == Marked("EMAIL", Mails(mail), z) IN t = <<>> \/ t[1] \in White
<1> DEFINE os == Mails(mail)
           t == Marked("EMAIL", os, z)
<1>1. PICK O : os \in Str(O)
  BY MailTyped
<1>2. Glyphs \subseteq Letters
  BY DEF Letters
<1>3. CASE z = <<>>
  <2>1. \A a, b \in Int : ~Match("EMAIL", z, a, b)
    BY <1>3 DEF Match
  <2>2. t = z
    BY <2>1, MarkedNone
  <2> QED BY <1>3, <2>2
<1>4. CASE z # <<>>
  <2>1. PICK c \in Letters, r \in Str(Letters) : z = <<c>> ++ r
    BY <1>4, FirstOf
  <2> DEFINE l == <<c>>
  <2>2. l \in Str(Letters) /\ Len(l) = 1 /\ l[1] = c
    BY StrOne
  <2>3. z = l ++ r
    BY <2>1
  <2> HIDE DEF l, os
  <2>4. z[1] = c
    <3>1. 1 \in 1..Len(l)
      BY <2>2
    <3>2. \A i \in 1..Len(l) : (l ++ r)[i] = l[i]
      BY <2>2, CatLeft
    <3> QED BY ONLY <2>2, <2>3, <3>1, <3>2
  <2>5. c \notin Addresses
    BY <1>4, <2>4, ChatAssumption
  <2>6. Apart("EMAIL", l, r)
    BY DEF Apart
  <2>7. t = Marked("EMAIL", os, l) ++ Marked("EMAIL", os, r)
    <3>1. Known("EMAIL", os, l ++ r)
      BY <2>3 DEF os
    <3> QED BY <1>1, <1>2, <2>2, <2>3, <2>6, <3>1, MarkedCat
  <2>8. Marked("EMAIL", os, l) = l
    <3>1. \A a, b \in Int : ~Match("EMAIL", l, a, b)
      BY <2>2, <2>5 DEF Match
    <3> QED BY <2>2, <3>1, MarkedNone
  <2>9. Marked("EMAIL", os, r) \in Str(Letters)
    <3>1. Known("EMAIL", os, l ++ r)
      BY <2>3 DEF os
    <3>2. Known("EMAIL", os, r)
      BY <2>2, <2>6, <3>1, KnownCat
    <3> QED BY <1>1, <1>2, <3>2, MarkedTyped
  <2> DEFINE v == Marked("EMAIL", os, r)
  <2> HIDE DEF v
  <2>10. (l ++ v)[1] = l[1]
    <3>1. 1 \in 1..Len(l) /\ v \in Str(Letters)
      BY <2>2, <2>9 DEF v
    <3>2. \A i \in 1..Len(l) : (l ++ v)[i] = l[i]
      BY <2>2, <3>1, CatLeft
    <3> QED BY ONLY <3>1, <3>2
  <2>11. t[1] = c
    <3>1. t = l ++ v
      BY ONLY <2>7, <2>8 DEF v
    <3> QED BY ONLY <2>2, <2>10, <3>1
  <2> QED BY <1>4, <2>4, <2>11 DEF os
<1> QED BY <1>3, <1>4

-----------------------------------------------------------------------------
(* The passes go through the message unit by unit. *)

(* The first pass of this message, for any part of it. *)
First(s) == Marked("EMAIL", Mails(mail), s)
Second(s) == Marked("URL", Urls(mail), s)

(* A part of the message whose addresses are known. *)
Piecemeal(s) == s \in Str(Letters) /\ Plain(s) /\ Known("EMAIL", Mails(mail), s)

(* s is a unit y and a rest z, and the passes work on each by itself. *)
Chopped(s, y, z) ==
  /\ s = y ++ z /\ Len(z) < Len(s) /\ Piecemeal(z) /\ y \in Str(Letters) /\ Bracketless(y)
  /\ First(s) = First(y) ++ First(z)
  /\ First(y) \in Str(Letters) /\ First(z) \in Str(Letters)
  /\ Apart("URL", First(y), First(z))
  /\ \/ Linkless(First(y)) /\ Turns(y, First(y))
     \/ First(y) = y /\ OneLink(y)

(* A piecemeal string that is not empty is chopped into a unit and a piecemeal rest. *)
LEMMA Chop ==
  ASSUME TableOK, NEW s, Piecemeal(s), s # <<>>
  PROVE  \E y, z : Chopped(s, y, z)
<1>1. s \in Str(Letters) /\ Plain(s) /\ Known("EMAIL", Mails(mail), s)
  BY DEF Piecemeal
<1>2. PICK y \in Str(Letters), z \in Str(Letters) : Fronted(Letters, s, y, z)
  BY <1>1, FirstUnit
<1>3. /\ s = y ++ z /\ y # <<>> /\ Len(z) < Len(s)
      /\ Plain(z) /\ Bracketless(y) /\ Unit(Letters, y, z)
  BY <1>2 DEF Fronted
<1>4. Apart("EMAIL", y, z)
  BY DEF Apart
<1>5. Known("EMAIL", Mails(mail), y) /\ Known("EMAIL", Mails(mail), z)
  BY <1>1, <1>3, <1>4, KnownCat
<1>6. PICK O : Mails(mail) \in Str(O)
  BY MailTyped
<1>7. Glyphs \subseteq Letters
  BY DEF Letters
<1>8. First(s) = First(y) ++ First(z)
  <2>1. Known("EMAIL", Mails(mail), y ++ z)
    BY <1>1, <1>3
  <2>2. Marked("EMAIL", Mails(mail), y ++ z)
        = Marked("EMAIL", Mails(mail), y) ++ Marked("EMAIL", Mails(mail), z)
    BY <1>4, <1>6, <1>7, <2>1, MarkedCat
  <2> QED BY ONLY <1>3, <2>2 DEF First
<1>9. First(z) \in Str(Letters)
  BY <1>5, <1>6, <1>7, MarkedTyped DEF First
<1>10. /\ First(y) \in Str(Letters)
       /\ \/ Linkless(First(y)) /\ Turns(y, First(y))
          \/ First(y) = y /\ OneLink(y) /\ (z = <<>> \/ z[1] \in White)
  BY <1>3, <1>5, UnitPasses DEF First
<1>11. Apart("URL", First(y), First(z))
  <2>1. CASE Linkless(First(y))
    BY <2>1 DEF Apart, Linkless
  <2>2. CASE First(y) = y /\ OneLink(y) /\ (z = <<>> \/ z[1] \in White)
    <3>1. First(z) = <<>> \/ First(z)[1] \in White
      BY <1>5, <2>2, WhiteStays DEF First
    <3> QED BY <2>2, <3>1 DEF Apart, OneLink
  <2> QED BY <1>10, <2>1, <2>2
<1>12. Chopped(s, y, z)
  BY <1>3, <1>5, <1>8, <1>9, <1>10, <1>11 DEF Chopped, Piecemeal
<1> QED BY <1>12

(* No part of a plain message becomes a link with a bracket. *)
LinksBracketless(s) ==
  \A a, b \in Int : Match("URL", First(s), a, b) => Bracketless(SubSeq(First(s), a, b))

(* The first pass over nothing. *)
LEMMA FirstEmpty == First(<<>>) = <<>>
<1> DEFINE s == <<>>
           T == {}
<1>1. s \in Str(T) /\ Len(s) = 0
  BY StrEmpty
<1> HIDE DEF s, T
<1>2. \A a, b \in Int : ~Match("EMAIL", s, a, b)
  BY <1>1 DEF Match
<1>3. Marked("EMAIL", Mails(mail), s) = s
  BY <1>1, <1>2, MarkedNone
<1> QED BY <1>3 DEF First, s

(* After the first pass every link of a plain message is still without brackets. *)
LEMMA LinksClean ==
  ASSUME TableOK
  PROVE  \A s : Piecemeal(s) => LinksBracketless(s)
<1> DEFINE S == {n \in Nat : \A s \in Str(Letters) :
                   Len(s) <= n /\ Piecemeal(s) => LinksBracketless(s)}
<1>1. 0 \in S
  <2>1. ASSUME NEW s \in Str(Letters), Len(s) <= 0 PROVE LinksBracketless(s)
    <3>1. s = <<>>
      BY <2>1, StrLen
    <3>2. First(s) = <<>>
      BY <3>1, FirstEmpty
    <3> QED BY <3>2 DEF LinksBracketless, Match
  <2> QED BY <2>1
<1>2. ASSUME NEW n \in Nat, n \in S PROVE n + 1 \in S
  <2>1. ASSUME NEW s \in Str(Letters), Len(s) <= n + 1, Piecemeal(s), s # <<>>
        PROVE  LinksBracketless(s)
    <3>1. PICK y, z : Chopped(s, y, z)
      BY <2>1, Chop
    <3> DEFINE t == First(s)
               p == First(y)
               q == First(z)
    <3>2. LinksBracketless(z)
      <4>1. Piecemeal(z) /\ z \in Str(Letters) /\ Len(z) < Len(s)
        BY <3>1 DEF Chopped, Piecemeal
      <4>2. Len(z) <= n
        <5>1. Len(z) \in Nat /\ Len(s) \in Nat
          BY <4>1, StrLen
        <5> QED BY <2>1, <4>1, <5>1
      <4> QED BY <1>2, <4>1, <4>2
    <3>3. /\ t = p ++ q /\ p \in Str(Letters) /\ q \in Str(Letters) /\ Apart("URL", p, q)
          /\ Bracketless(y) /\ y \in Str(Letters)
          /\ Linkless(p) \/ (p = y /\ OneLink(y))
      BY <3>1 DEF Chopped
    <3> HIDE DEF p, q, t, S
    <3>4. Len(p) \in Nat /\ Len(q) \in Nat /\ Len(t) = Len(p) + Len(q)
      BY <3>3, LengthTyped
    <3>5. ASSUME NEW a \in Int, NEW b \in Int, Match("URL", t, a, b)
          PROVE  Bracketless(SubSeq(t, a, b))
      <4>1. a \in 1..Len(t) /\ b \in 1..Len(t) /\ a <= b
        BY <3>5 DEF Match, LinkAt
      <4>2. CASE a <= Len(p)
        <5>1. Match("URL", p, a, b)
          BY <3>3, <3>5, <4>2, MatchLeft
        <5>2. ~Linkless(p)
          BY <5>1 DEF Linkless, Match, LinkAt
        <5>3. p = y /\ OneLink(y)
          BY <3>3, <5>2
        <5>4. a = 1 /\ b = Len(y)
          <6>1. a = 1
            BY <5>1, <5>3 DEF OneLink
          <6>2. Match("URL", y, 1, Len(y)) /\ Match("URL", y, 1, b)
            BY <5>1, <5>3, <6>1 DEF OneLink
          <6> QED BY <3>3, <6>1, <6>2, MatchOne
        <5>5. SubSeq(t, a, b) = SubSeq(p, a, b)
          <6>1. a \in Nat \ {0} /\ b \in Nat /\ b <= Len(p)
            BY <3>4, <4>1, <5>3, <5>4
          <6> QED BY <3>3, <6>1, CutCat
        <5>6. SubSeq(y, 1, Len(y)) = y
          BY <3>3, SubSeqFull DEF Str
        <5> QED BY <3>3, <5>3, <5>4, <5>5, <5>6
      <4>3. CASE a > Len(p)
        <5> DEFINE c == a - Len(p)
                   d == b - Len(p)
        <5>1. c \in Nat \ {0} /\ d \in Nat \ {0} /\ d \in Nat /\ d <= Len(q) /\ c \in Int /\ d \in Int
          BY <3>4, <4>1, <4>3
        <5>2. a = Len(p) + c /\ b = Len(p) + d
          BY <3>4
        <5> HIDE DEF c, d
        <5>3. Match("URL", p ++ q, Len(p) + c, Len(p) + d)
          BY ONLY <3>3, <3>5, <5>2
        <5>4. Match("URL", q, c, d)
          BY <3>3, <5>1, <5>3, MatchRight
        <5>5. SubSeq(p ++ q, Len(p) + c, Len(p) + d) = SubSeq(q, c, d)
          BY ONLY <3>3, <5>1, CutCat
        <5>6. Bracketless(SubSeq(q, c, d))
          BY <3>2, <5>1, <5>4 DEF LinksBracketless, q
        <5> QED BY ONLY <3>3, <5>2, <5>5, <5>6
      <4> QED BY <3>4, <4>1, <4>2, <4>3
    <3> QED BY <3>5 DEF LinksBracketless, t
  <2>2. ASSUME NEW s \in Str(Letters), Len(s) <= n + 1, Piecemeal(s) PROVE LinksBracketless(s)
    <3>1. CASE s = <<>>
      <4>1. Len(s) <= n
        BY <3>1
      <4> QED BY <1>2, <2>2, <4>1
    <3>2. CASE s # <<>>
      BY <2>1, <2>2, <3>2
    <3> QED BY <3>1, <3>2
  <2> QED BY <2>2
<1>3. Nat \subseteq S
  <2> HIDE DEF S
  <2> QED BY <1>1, <1>2, NatSetInduction
<1>4. ASSUME NEW s, Piecemeal(s) PROVE LinksBracketless(s)
  <2>1. s \in Str(Letters) /\ Len(s) \in Nat /\ Len(s) <= Len(s)
    BY <1>4, StrLen DEF Piecemeal
  <2>2. Len(s) \in S
    BY <1>3, <2>1
  <2> QED BY <1>4, <2>1, <2>2
<1> QED BY <1>4

-----------------------------------------------------------------------------
(* Deanonymize undoes the passes, unit by unit. *)

(* A part of a text without brackets has none. *)
LEMMA PartBracketless ==
  ASSUME NEW T, NEW s \in Str(T), Bracketless(s), NEW a \in 1..Len(s), NEW b \in 1..Len(s)
  PROVE  Bracketless(SubSeq(s, a, b))
<1>1. s \in Seq(T) /\ Len(s) \in Nat
  BY StrLen DEF Str
<1>2. SubSeq(s, a, b) = [k \in 1..b - a + 1 |-> s[(a + k) - 1]]
  BY <1>1
<1> DEFINE o == SubSeq(s, a, b)
<1>3. ASSUME NEW k \in 1..Len(o) PROVE o[k] \notin {"[", "]"}
  <2>1. Len(o) = IF a <= b THEN b - a + 1 ELSE 0
    BY <1>1
  <2>2. k \in 1..b - a + 1 /\ (a + k) - 1 \in 1..Len(s)
    BY <1>1, <2>1
  <2>3. o[k] = s[(a + k) - 1]
    BY <1>2, <2>2
  <2> HIDE DEF o
  <2> QED BY <2>2, <2>3 DEF Bracketless
<1> HIDE DEF o
<1>4. Bracketless(o)
  BY <1>3 DEF Bracketless
<1> QED BY <1>4 DEF o

(* The originals of a plain message hold no bracket. *)
LEMMA OriginalsClean ==
  ASSUME TableOK, Plain(mail)
  PROVE  /\ \A e \in ToSet(table) : Bracketless(e.original)
         /\ Piecemeal(mail) /\ Clean
<1>1. mail \in Str(Letters) /\ Known("EMAIL", Mails(mail), mail) /\ Tagged(mail) \in Str(Letters)
  BY MailTyped
<1>2. Piecemeal(mail) /\ Bracketless(mail)
  BY <1>1, PlainIs DEF Piecemeal
<1>3. LinksBracketless(mail)
  BY <1>2, LinksClean
<1>4. ASSUME NEW n \in 1..Len(Mails(mail)) PROVE Bracketless(Mails(mail)[n])
  <2> DEFINE O == {Span("EMAIL", mail, i) : i \in Starting("EMAIL", mail)}
             os == Mails(mail)
  <2>1. os \in Str(O)
    BY <1>1, OriginalsFrom DEF Mails
  <2> HIDE DEF O, os
  <2>2. os[n] \in O
    BY <1>4, <2>1, StrLen DEF os
  <2>3. PICK i \in Starting("EMAIL", mail) : os[n] = Span("EMAIL", mail, i)
    BY <2>2 DEF O
  <2>4. PICK b \in Int : Match("EMAIL", mail, i, b)
    BY <1>1, SpanIs
  <2>5. Span("EMAIL", mail, i) = SubSeq(mail, i, b)
    BY <1>1, <2>4, SpanIs
  <2>6. i \in 1..Len(mail) /\ b \in 1..Len(mail)
    BY <2>4 DEF Match
  <2>7. Bracketless(SubSeq(mail, i, b))
    BY <1>1, <1>2, <2>6, PartBracketless
  <2> QED BY <2>3, <2>5, <2>7 DEF os
<1>5. ASSUME NEW n \in 1..Len(Urls(mail)) PROVE Bracketless(Urls(mail)[n])
  <2> DEFINE t == Tagged(mail)
             O == {Span("URL", t, i) : i \in Starting("URL", t)}
             os == Urls(mail)
  <2>1. os \in Str(O)
    BY <1>1, OriginalsFrom DEF Urls
  <2> HIDE DEF O, os
  <2>2. os[n] \in O
    BY <1>5, <2>1, StrLen DEF os
  <2>3. PICK i \in Starting("URL", t) : os[n] = Span("URL", t, i)
    BY <2>2 DEF O
  <2>4. PICK b \in Int : Match("URL", t, i, b)
    BY <1>1, SpanIs
  <2>5. Span("URL", t, i) = SubSeq(t, i, b)
    BY <1>1, <2>4, SpanIs
  <2>6. i \in Int /\ t = First(mail)
    BY <2>4 DEF Match, First, Tagged
  <2>7. Bracketless(SubSeq(t, i, b))
    BY <1>3, <2>4, <2>6 DEF LinksBracketless
  <2> QED BY <2>3, <2>5, <2>7 DEF os
<1>6. ASSUME NEW e \in ToSet(table) PROVE Bracketless(e.original)
  <2>1. CASE \E n \in 1..Len(table) : n \in 1..Len(Mails(mail)) /\ e = Row("EMAIL", Mails(mail), n)
    BY <1>4, <2>1 DEF Row
  <2>2. CASE \E n \in 1..Len(table) : n \in 1..Len(Urls(mail)) /\ e = Row("URL", Urls(mail), n)
    BY <1>5, <2>2 DEF Row
  <2> QED BY <2>1, <2>2, TableHas
<1>7. Clean
  <2>1. ASSUME NEW e \in ToSet(table) PROVE ~EndsOpen(e.original)
    <3> DEFINE o == e.original
    <3>1. o \in Str(ToSet(o)) /\ o # <<>>
      BY TableIs
    <3>2. Len(o) \in Nat /\ Len(o) >= 1
      BY <3>1, StrLen
    <3>3. Bracketless(o)
      BY <1>6
    <3> HIDE DEF o
    <3>4. o[Len(o)] # "[" /\ (Len(o) > 1 => o[Len(o) - 1] # "[")
      <4>1. Len(o) \in 1..Len(o) /\ (Len(o) > 1 => Len(o) - 1 \in 1..Len(o))
        BY <3>2
      <4> QED BY <3>3, <4>1 DEF Bracketless
    <3> QED BY <3>4 DEF EndsOpen, o
  <2> QED BY <2>1 DEF Clean
<1> QED BY <1>2, <1>6, <1>7

(* What a unit became is put back, and no placeholder lies across its end. *)
LEMMA UnitBack ==
  ASSUME TableOK, \A e \in ToSet(table) : Bracketless(e.original),
         NEW y \in Str(Letters), Bracketless(y), NEW u, Turns(y, u)
  PROVE  Deanonymize(u) = y /\ \A v : SafeSeam(Names, u, v)
<1>1. CASE u = y /\ Len(y) = 1
  <2>1. u[1] \notin {"[", "]"} /\ Len(u) = 1
    BY <1>1 DEF Bracketless
  <2>2. \A v : SafeSeam(Names, u, v)
    BY <2>1 DEF SafeSeam, Ends, EndsWith
  <2> QED BY <1>1, <2>2, DeanonymizeOther
<1>2. CASE \E e \in ToSet(table) : u = e.tag /\ e.original = y
  <2>1. PICK e \in ToSet(table) : u = e.tag /\ e.original = y
    BY <1>2
  <2> DEFINE x == e.tag[2]
  <2>2. u = <<"[", x, "]">> /\ "]" \notin Names
    BY <2>1, TableIs DEF NoBrackets
  <2> HIDE DEF x
  <2>3. Len(u) = 3 /\ u[3] = "]"
    BY <2>2
  <2>4. \A v : SafeSeam(Names, u, v)
    BY <2>2, <2>3 DEF SafeSeam, Ends, EndsWith
  <2> QED BY <2>1, <2>4, DeanonymizeTag
<1> QED BY <1>1, <1>2 DEF Turns

(* Deanonymize of two texts of what a pass may write. *)
LEMMA LettersCat ==
  ASSUME TableOK, Clean, NEW a \in Str(Letters), NEW b \in Str(Letters), SafeSeam(Names, a, b)
  PROVE  Deanonymize(a ++ b) = Deanonymize(a) ++ Deanonymize(b)
<1>1. ASSUME NEW e \in ToSet(table) PROVE Entry(Letters, Names, e) /\ Closed(Names, e)
  <2>1. Entry(Symbols, Names, e) /\ Closed(Names, e)
    BY SymbolsHold, CleanIsClosed
  <2>2. Symbols \subseteq Letters
    BY DEF Letters
  <2>3. e.original \in Str(Letters)
    <3> HIDE DEF Letters
    <3> QED BY <2>1, <2>2 DEF Entry, Str
  <2> QED BY <2>1, <2>3 DEF Entry
<1>2. NoBrackets(Names)
  BY TableIs
<1> QED BY <1>1, <1>2, LongestFirstTyped, PutAllCat DEF Deanonymize

(* Putting the originals back undoes the two passes. *)
LEMMA PassesUndone ==
  ASSUME TableOK, Plain(mail)
  PROVE  \A s : Piecemeal(s) /\ Known("URL", Urls(mail), First(s)) => Deanonymize(Second(First(s))) = s
<1> DEFINE Back(s) == Piecemeal(s) /\ Known("URL", Urls(mail), First(s)) => Deanonymize(Second(First(s))) = s
           S == {n \in Nat : \A s \in Str(Letters) : Len(s) <= n => Back(s)}
<1>1. Back(<<>>)
  <2> DEFINE e == <<>>
  <2>1. e \in Str(Letters) /\ Len(e) = 0 /\ First(e) = e
    BY StrEmpty, FirstEmpty
  <2>2. \A a, b \in Int : ~Match("URL", e, a, b)
    BY <2>1 DEF Match
  <2>3. Deanonymize(e) = e
    BY DeanonymizeEmpty
  <2> HIDE DEF e
  <2>4. Second(e) = e
    BY <2>1, <2>2, MarkedNone DEF Second
  <2>5. Back(e)
    BY <2>1, <2>3, <2>4
  <2> QED BY ONLY <2>5 DEF e
<1>2. /\ \A e \in ToSet(table) : Bracketless(e.original)
      /\ Clean
  BY OriginalsClean
<1>3. PICK O : Urls(mail) \in Str(O)
  BY MailTyped
<1>4. Glyphs \subseteq Letters
  BY DEF Letters
<1>5. ASSUME NEW n \in Nat, n \in S PROVE n + 1 \in S
  <2>1. ASSUME NEW s \in Str(Letters), Len(s) <= n + 1, Piecemeal(s), s # <<>>,
               Known("URL", Urls(mail), First(s))
        PROVE  Deanonymize(Second(First(s))) = s
    <3>1. PICK y, z : Chopped(s, y, z)
      BY <2>1, Chop
    <3> DEFINE p == First(y)
               q == First(z)
               u == Second(p)
               v == Second(q)
    <3>2. /\ s = y ++ z /\ Len(z) < Len(s) /\ Piecemeal(z) /\ Bracketless(y) /\ y \in Str(Letters)
          /\ First(s) = p ++ q /\ p \in Str(Letters) /\ q \in Str(Letters) /\ Apart("URL", p, q)
          /\ (Linkless(p) /\ Turns(y, p)) \/ (p = y /\ OneLink(y))
      BY <3>1 DEF Chopped
    <3> HIDE DEF p, q
    <3>3. Known("URL", Urls(mail), p ++ q)
      BY <2>1, <3>2
    <3>4. Known("URL", Urls(mail), p) /\ Known("URL", Urls(mail), q)
      BY <3>2, <3>3, KnownCat
    <3>5. Deanonymize(v) = z
      <4>1. z \in Str(Letters) /\ Len(z) <= n
        <5>1. z \in Str(Letters)
          BY <3>2 DEF Piecemeal
        <5>2. Len(z) \in Nat /\ Len(s) \in Nat
          BY <5>1, StrLen
        <5> QED BY ONLY <2>1, <3>2, <5>1, <5>2, n \in Nat
      <4>2. Back(z)
        BY <1>5, <4>1
      <4> QED BY <3>2, <3>4, <4>2 DEF q
    <3>6. Second(p ++ q) = u ++ v
      BY <1>3, <1>4, <3>2, <3>3, MarkedCat DEF Second
    <3>7. u \in Str(Letters) /\ v \in Str(Letters)
      BY <1>3, <1>4, <3>2, <3>4, MarkedTyped DEF Second
    <3>8. Turns(y, u)
      <4>1. CASE Linkless(p) /\ Turns(y, p)
        <5>1. \A a, b \in Int : ~Match("URL", p, a, b)
          BY <4>1 DEF Match, LinkAt, Linkless
        <5>2. u = p
          BY <3>2, <5>1, MarkedNone DEF Second
        <5> QED BY <4>1, <5>2
      <4>2. CASE p = y /\ OneLink(y)
        <5>1. Match("URL", p, 1, Len(p)) /\ \A a, b \in Int : Match("URL", p, a, b) => a = 1
          BY <4>2 DEF OneLink
        <5>2. u = Mark("URL", Urls(mail), p) /\ p \in ToSet(Urls(mail))
          BY <1>3, <1>4, <3>2, <3>4, <5>1, MarkedAll DEF Second
        <5> QED BY <4>2, <5>2, MarkRow
      <4> QED BY <3>2, <4>1, <4>2
    <3> HIDE DEF u, v, S
    <3>9. Deanonymize(u) = y /\ SafeSeam(Names, u, v)
      BY <1>2, <3>2, <3>8, UnitBack
    <3>10. Deanonymize(u ++ v) = Deanonymize(u) ++ Deanonymize(v)
      BY <1>2, <3>7, <3>9, LettersCat
    <3> QED BY ONLY <3>2, <3>5, <3>6, <3>9, <3>10
  <2>2. ASSUME NEW s \in Str(Letters), Len(s) <= n + 1 PROVE Back(s)
    <3>1. CASE s = <<>>
      BY <1>1, <3>1
    <3>2. CASE s # <<>>
      BY <2>1, <2>2, <3>2
    <3> QED BY <3>1, <3>2
  <2> HIDE DEF Back
  <2> QED BY <2>2
<1>6. 0 \in S
  <2>1. \A s \in Str(Letters) : Len(s) <= 0 => s = <<>>
    BY StrLen
  <2> HIDE DEF Back
  <2> QED BY <1>1, <2>1
<1>7. Nat \subseteq S
  <2> HIDE DEF S
  <2> QED BY <1>5, <1>6, NatSetInduction
<1>8. ASSUME NEW s, Piecemeal(s) PROVE Back(s)
  <2>1. s \in Str(Letters) /\ Len(s) \in Nat /\ Len(s) <= Len(s)
    BY <1>8, StrLen DEF Piecemeal
  <2>2. Len(s) \in S
    BY <1>7, <2>1
  <2> HIDE DEF Back
  <2> QED BY <2>1, <2>2
<1> QED BY <1>8

(* A plain message that comes back is itself. *)
LEMMA MessageBack ==
  ASSUME TableOK, Plain(mail), text = Anonymize(mail).text
  PROVE  Deanonymize(text) = mail /\ Clean
<1>1. Piecemeal(mail) /\ Clean
  BY OriginalsClean
<1>2. Known("URL", Urls(mail), First(mail))
  BY MailTyped DEF First, Tagged
<1>3. text = Second(First(mail))
  BY AnonymizeIs DEF First, Second, Tagged
<1> QED BY <1>1, <1>2, <1>3, PassesUndone

(* Where the model quotes the pseudonymised message, the operator of the browser
   reads the message as it was written, if it has no brackets and no address
   inside of a link: pii.Anonymizer.anonymize and deanonymize.  What the add-in
   keeps of it is compared without leading spaces and says less. *)
THEOREM QuoteIsRead == ChatSpec => []QuoteReadsBack
<1>1. ASSUME ChatInv PROVE QuoteReadsBack
  <2> SUFFICES ASSUME history # <<>>, phase = "ended", client = "browser",
                      text = Anonymize(mail).text, Plain(mail)
               PROVE  history = <<mail>>
    BY DEF QuoteReadsBack, Quoted
  <2>1. link = "closed" /\ TableOK
    BY <1>1 DEF ChatInv, ChatShape, InFlight, Reset
  <2>2. Deanonymize(text) = mail /\ Clean
    BY <2>1, MessageBack
  <2>3. Sure
    BY <2>2 DEF Sure
  <2>4. /\ history = <<page.shown>>
        /\ CompareBy(client, page.shown) = CompareBy(client, Deanonymize(text))
    BY <1>1, <2>1, <2>3 DEF ChatInv, Kept
  <2> QED BY <2>2, <2>4 DEF CompareBy
<1> QED BY <1>1, ChatSafe, PTL
=============================================================================
