-------------------------- MODULE TrashMoveProofs --------------------------
(***************************************************************************)
(* TrashMove's four safety properties for every mailbox, every set of       *)
(* servers, any number of failing commands and of actions of other clients. *)
(*                                                                         *)
(* The mailbox part of the invariant says what may lie in the source folder *)
(* (Folder) and that whatever our connection has marked for deletion is     *)
(* the target's and safe elsewhere (OurMarksAreSafe); Placed carries this   *)
(* from the command that copies, or the search that proves the arrival, to  *)
(* the one that deletes.  CleanupIsTarget ties the list of uids that is     *)
(* worked off to the mail.  Course follows a call nobody disturbs, for      *)
(* SuccessIsReal.                                                           *)
(***************************************************************************)
EXTENDS TrashMove, TLAPS

Folder ==
  /\ \A i \in source : i.uid \in {Uid, FreshUid} \/ i.kin => i.mail = Target
  /\ \A i, j \in source : i.uid = j.uid => i.mail = j.mail

OurMarksAreSafe ==
  \A i \in source : i.mark = "us" => i.mail = Target /\ i.mail \in trash \cup elsewhere

Placed ==
  (pc = "store" /\ UidStillThere) \/ pc \in {"erase", "sweep", "target"} =>
    Target \in trash \cup elsewhere

CleanupIsTarget == \A i \in source : i.uid \in cleanup => i.mail = Target

(* An edit that has not stored the new version has not touched the old one. *)
Untouched ==
  /\ OfTarget # {} \/ Target \in elsewhere
  /\ \A i \in source : i.mark # "us"

NotBegun ==
  /\ pc \in {"verify", "append"} => ~newVersion
  /\ tool = "edit" /\ ~newVersion => pc \in {"verify", "append", "done"} /\ Untouched

(* A call that meets no failure and no other client. *)
Course ==
  Undisturbed =>
    /\ pc \in {"verify", "append", "detect", "id", "move"} => UidStillThere
    /\ pc \notin {"verify", "append", "detect", "id"} => idKnown \/ result = "error"
    /\ pc \in {"store", "expunge", "erase", "sweep", "target", "recheck"} => Target \in trash
    /\ pc \in {"residual", "present"} => Target \in trash \/ OfTarget # {}
    /\ pc = "present" => cleanup = {i.uid : i \in OfTarget}
    /\ result = "moved" => Target \in trash /\ OfTarget = {}

MoveInv ==
  /\ TypeOK
  /\ Folder /\ OurMarksAreSafe /\ Placed /\ CleanupIsTarget
  /\ NotBegun /\ Course
  /\ NothingLost /\ ErasureIsTargeted

(* The message apart from who marked it. *)
Same(i, j) == i.uid = j.uid /\ i.mail = j.mail /\ i.kin = j.kin

LEMMA MarkFacts ==
  ASSUME source \subseteq Message, NEW S \in SUBSET source,
         NEW who \in {"us", "other"},
         source' = (source \ S) \cup {Marked(i, who) : i \in S}
  PROVE  /\ source' \subseteq Message
         /\ \A j \in source' : \E i \in source : Same(i, j) /\ (j = i \/ (i \in S /\ j.mark = who))
         /\ \A i \in source : \E j \in source' : Same(i, j)
<1>1. ASSUME NEW i \in Message
      PROVE  Marked(i, who) \in Message /\ Same(i, Marked(i, who)) /\ Marked(i, who).mark = who
  BY <1>1 DEF Message, Marked, Same
<1>2. \A i \in source : i \in Message /\ Same(i, i)
  BY DEF Same
<1> QED BY <1>1, <1>2

LEMMA LeftBehindFacts ==
  ASSUME source \subseteq Message
  PROVE  /\ LeftBehind \subseteq Message
         /\ \A j \in LeftBehind : /\ j.uid = FreshUid /\ j.mark = "nobody"
                                  /\ \E i \in Here(Uid) : i.mail = j.mail /\ i.kin = j.kin
<1> DEFINE Left(i) == [i EXCEPT !.uid = FreshUid, !.mark = "nobody"]
<1>1. ASSUME NEW i \in Message
      PROVE  /\ Left(i) \in Message /\ Left(i).uid = FreshUid /\ Left(i).mark = "nobody"
             /\ i.mail = Left(i).mail /\ i.kin = Left(i).kin
  BY <1>1 DEF Message, Uids
<1>2. Here(Uid) \subseteq Message
  BY DEF Here
<1>3. LeftBehind \subseteq {Left(i) : i \in Here(Uid)}
  BY DEF LeftBehind
<1> HIDE DEF Left
<1> QED BY <1>1, <1>2, <1>3

LEMMA MoveInit == Init => MoveInv
<1> SUFFICES ASSUME Init PROVE MoveInv
  OBVIOUS
<1> DEFINE original == [uid |-> Uid, mail |-> Target, kin |-> TRUE, mark |-> "nobody"]
<1>1. /\ source \subseteq Message
      /\ \A i \in source : i.kin = (i.uid = Uid)
      /\ original \in source
      /\ \A i, j \in source : i.uid = j.uid => i = j
      /\ \A i \in source : i.uid # FreshUid /\ i.mark # "us"
      /\ Mails \subseteq {i.mail : i \in source}
  BY ConstantsAssumption DEF Init
<1>2. original.uid = Uid /\ original.mail = Target
  OBVIOUS
<1>3. Folder
  BY <1>1, <1>2 DEF Folder
<1>4. UidStillThere /\ OfTarget # {}
  BY <1>1, <1>2 DEF UidStillThere, Here, OfTarget
<1>5. NothingLost
  BY <1>1 DEF NothingLost
<1>6. TypeOK
  <2>1. result = "none" /\ pc = "verify" /\ ~idKnown /\ ~newVersion
    BY DEF Init
  <2>2. /\ result \in {"none", "moved", "error"}
        /\ (result = "none") = (pc # "done")
        /\ pc \in {"verify", "append", "detect", "id", "move", "store", "expunge",
                   "residual", "present", "arrival", "erase", "sweep", "target", "recheck", "done"}
    BY <2>1
  <2>3. idKnown \in BOOLEAN /\ newVersion \in BOOLEAN
    BY DEF Init
  <2>4. /\ trash \subseteq Mails /\ elsewhere \subseteq Mails /\ erased \subseteq Message
        /\ server \in Servers /\ hasId \in WithId /\ tool \in {"move", "edit"}
        /\ cleanup \subseteq Uids /\ aim \in Uids
    BY DEF Init, Uids
  <2>5. others \in 0..MaxOthers /\ faults \in 0..MaxFaults
    BY ConstantsAssumption DEF Init
  <2> QED BY <1>1, <2>2, <2>3, <2>4, <2>5 DEF TypeOK
<1> QED
  BY <1>1, <1>3, <1>4, <1>5, <1>6
  DEF Init, MoveInv, OurMarksAreSafe, Placed, CleanupIsTarget,
      NotBegun, Untouched, Course, ErasureIsTargeted

-----------------------------------------------------------------------------
Points == {"verify", "append", "detect", "id", "move", "store", "expunge",
           "residual", "present", "arrival", "erase", "sweep", "target", "recheck"}

(* The part of TypeOK about the position in the call. *)
Position ==
  /\ pc \in Points \cup {"done"}
  /\ result \in {"none", "moved", "error"}
  /\ (result = "none") = (pc # "done")

LEMMA GotoIsTyped ==
  ASSUME Position, pc # "done", NEW l \in Points, Goto(l)
  PROVE  Position'
<1>1. pc' = l /\ l # "done" /\ result' = result /\ result = "none"
  BY DEF Goto, Points, Position
<1> QED BY <1>1 DEF Position

LEMMA FinishIsTyped ==
  ASSUME NEW r \in {"moved", "error"}, Finish(r)
  PROVE  Position'
<1>1. pc' = "done" /\ result' = r /\ r # "none"
  BY DEF Finish
<1> QED BY <1>1 DEF Position

LEMMA PositionStep ==
  ASSUME Position, [Next]_vars
  PROVE  Position'
<1>1. ASSUME pc # "done", NEW l \in Points, Goto(l) PROVE Position'
  BY <1>1, GotoIsTyped
<1>2. ASSUME NEW r \in {"moved", "error"}, Finish(r) PROVE Position'
  BY <1>2, FinishIsTyped
<1>3. CASE UNCHANGED <<pc, result>>
  BY <1>3 DEF Position
<1>4. CASE Verify
  BY <1>1, <1>2, <1>4 DEF Verify, Points
<1>5. CASE AppendNew \/ AppendFails
  BY <1>1, <1>2, <1>5 DEF AppendNew, AppendFails, Points
<1>6. CASE DetectTrash \/ TrashNotFound \/ SecureId
  BY <1>1, <1>2, <1>6 DEF DetectTrash, TrashNotFound, SecureId, Points
<1>7. CASE MoveCommand \/ CopyCommand \/ StoreCommand \/ ExpungeCommand
  BY <1>1, <1>7 DEF MoveCommand, CopyCommand, StoreCommand, ExpungeCommand, Points
<1>8. CASE FindResidual \/ CheckSource
  BY <1>1, <1>2, <1>8 DEF FindResidual, CheckSource, Points
<1>9. CASE ProveArrival \/ ArrivalUnproven
  BY <1>1, <1>2, <1>9 DEF ProveArrival, ArrivalUnproven, Points
<1>10. CASE EraseStore \/ EraseSweep \/ EraseTargeted \/ Recheck \/ CommandFails
  BY <1>1, <1>2, <1>10 DEF EraseStore, EraseSweep, EraseTargeted, Recheck, CommandFails, Points
<1> QED
  BY <1>3, <1>4, <1>5, <1>6, <1>7, <1>8, <1>9, <1>10 DEF Next, OtherClient, vars

(* What each kind of step leaves of the mailbox. *)
LEMMA MailboxStep ==
  ASSUME TypeOK, [Next]_vars
  PROVE  /\ source' \subseteq Message /\ erased' \subseteq Message
         /\ trash' \subseteq Mails /\ elsewhere' \subseteq Mails
<1> USE DEF TypeOK
<1>1. Target \in Mails /\ \A i \in source : i.mail \in Mails
  BY ConstantsAssumption DEF Message
<1>2. LeftBehind \subseteq Message
  BY LeftBehindFacts
<1>3. CASE UNCHANGED mailbox
  BY <1>3 DEF mailbox
<1>4. CASE MoveCommand \/ CopyCommand
  BY <1>1, <1>2, <1>4 DEF MoveCommand, CopyCommand, Copied
<1>5. CASE StoreCommand
  <2>1. source' \subseteq Message
    BY <1>5, MarkFacts DEF StoreCommand, Here
  <2> QED BY <1>5, <2>1 DEF StoreCommand
<1>6. CASE ExpungeCommand \/ EraseSweep \/ EraseTargeted
  <2>1. UNCHANGED <<trash, elsewhere>> /\ \E gone \in SUBSET source : Expunge(gone)
    BY <1>6 DEF ExpungeCommand, EraseSweep, EraseTargeted, Swept, Marks
  <2> QED BY <2>1 DEF Expunge
<1>7. CASE EraseStore
  <2> PICK u \in cleanup :
        source' = (source \ Here(u)) \cup {Marked(i, "us") : i \in Here(u)}
    BY <1>7 DEF EraseStore
  <2>1. Here(u) \subseteq source
    BY DEF Here
  <2>2. source' \subseteq Message
    BY <2>1, MarkFacts
  <2> QED BY <1>7, <2>2 DEF EraseStore
<1>8. CASE OtherClient
  <2>1. ASSUME NEW i \in source, TakeAway(i) \/ FlagDeleted(i)
        PROVE  source' \subseteq Message /\ elsewhere' \subseteq Mails
               /\ UNCHANGED <<trash, erased>>
    <3>1. CASE TakeAway(i)
      BY <1>1, <3>1 DEF TakeAway
    <3>2. CASE FlagDeleted(i)
      <4>1. source' = (source \ {i}) \cup {Marked(k, "other") : k \in {i}}
        BY <3>2 DEF FlagDeleted
      <4> QED BY <3>2, <4>1, MarkFacts DEF FlagDeleted
    <3> QED BY <2>1, <3>1, <3>2
  <2>2. ASSUME Compact
        PROVE  source' \subseteq Message /\ elsewhere' \subseteq Mails
               /\ UNCHANGED <<trash, erased>>
    BY <1>1, <2>2 DEF Compact
  <2> QED BY <1>8, <2>1, <2>2 DEF OtherClient, EmptyTrash
<1> QED
  BY <1>3, <1>4, <1>5, <1>6, <1>7, <1>8
  DEF Next, vars, Verify, AppendNew, AppendFails, DetectTrash, TrashNotFound, SecureId,
      FindResidual, CheckSource, ProveArrival, ArrivalUnproven, Recheck, CommandFails

LEMMA CountersStep ==
  ASSUME TypeOK, [Next]_vars
  PROVE  others' \in 0..MaxOthers /\ faults' \in 0..MaxFaults
<1>1. others \in 0..MaxOthers /\ faults \in 0..MaxFaults
      /\ MaxOthers \in Nat /\ MaxFaults \in Nat
  BY ConstantsAssumption DEF TypeOK
<1>2. UNCHANGED faults \/ (faults < MaxFaults /\ faults' = faults + 1)
  BY DEF Next, vars, Fault, Verify, AppendNew, AppendFails, DetectTrash, TrashNotFound,
         SecureId, MoveCommand, CopyCommand, StoreCommand, ExpungeCommand, FindResidual,
         CheckSource, ProveArrival, ArrivalUnproven, EraseStore, EraseSweep, EraseTargeted, Expunge, Recheck,
         CommandFails, OtherClient
<1>3. UNCHANGED others \/ (others < MaxOthers /\ others' = others + 1)
  BY DEF Next, vars, Verify, AppendNew, AppendFails, DetectTrash, TrashNotFound,
         SecureId, MoveCommand, CopyCommand, StoreCommand, ExpungeCommand, FindResidual,
         CheckSource, ProveArrival, ArrivalUnproven, EraseStore, EraseSweep, EraseTargeted, Expunge, Recheck,
         CommandFails, OtherClient
<1> QED BY <1>1, <1>2, <1>3

(* The call's own memory. *)
LEMMA MemoryStep ==
  ASSUME TypeOK, [Next]_vars
  PROVE  /\ UNCHANGED world /\ cleanup' \subseteq Uids /\ aim' \in Uids
         /\ idKnown' \in BOOLEAN /\ newVersion' \in BOOLEAN
<1>1. UNCHANGED world
  BY DEF Next, vars, Verify, AppendNew, AppendFails, DetectTrash, TrashNotFound,
         SecureId, MoveCommand, CopyCommand, StoreCommand, ExpungeCommand, FindResidual,
         CheckSource, ProveArrival, ArrivalUnproven, EraseStore, EraseSweep, EraseTargeted, Expunge, Recheck,
         CommandFails, OtherClient
<1>2. \A i \in source : i.uid \in Uids
  BY DEF TypeOK, Message
<1>3. cleanup' \subseteq Uids
  <2>1. CASE UNCHANGED cleanup
    BY <2>1 DEF TypeOK
  <2>2. CASE FindResidual
    BY <1>2, <2>2 DEF FindResidual, ResidualUids, OfTarget
  <2>3. CASE CheckSource
    BY <1>2, <2>3 DEF CheckSource, Here, TypeOK
  <2>4. CASE EraseStore
    BY <2>4 DEF EraseStore, TypeOK
  <2> QED
    BY <2>1, <2>2, <2>3, <2>4
    DEF Next, vars, Verify, AppendNew, AppendFails, DetectTrash, TrashNotFound,
        SecureId, MoveCommand, CopyCommand, StoreCommand, ExpungeCommand,
        ProveArrival, ArrivalUnproven, EraseSweep, EraseTargeted, Recheck, CommandFails,
        OtherClient
<1>4. idKnown' \in BOOLEAN
  <2>1. CASE UNCHANGED idKnown
    BY <2>1 DEF TypeOK
  <2>2. CASE SecureId
    BY <2>2 DEF SecureId
  <2> QED
    BY <2>1, <2>2
    DEF Next, vars, Verify, AppendNew, AppendFails, DetectTrash, TrashNotFound,
        MoveCommand, CopyCommand, StoreCommand, ExpungeCommand, FindResidual, CheckSource,
        ProveArrival, ArrivalUnproven, EraseStore, EraseSweep, EraseTargeted, Expunge, Recheck,
         CommandFails, OtherClient
<1>5. newVersion' \in BOOLEAN
  <2>1. CASE UNCHANGED newVersion
    BY <2>1 DEF TypeOK
  <2>2. CASE AppendNew \/ AppendFails
    BY <2>2 DEF AppendNew, AppendFails
  <2> QED
    BY <2>1, <2>2
    DEF Next, vars, Verify, DetectTrash, TrashNotFound, SecureId,
        MoveCommand, CopyCommand, StoreCommand, ExpungeCommand, FindResidual, CheckSource,
        ProveArrival, ArrivalUnproven, EraseStore, EraseSweep, EraseTargeted, Expunge, Recheck,
         CommandFails, OtherClient
<1>6. aim' \in Uids
  <2>1. CASE UNCHANGED aim
    BY <2>1 DEF TypeOK
  <2>2. CASE EraseStore
    BY <2>2 DEF EraseStore, TypeOK
  <2> QED
    BY <2>1, <2>2
    DEF Next, vars, Verify, AppendNew, AppendFails, DetectTrash, TrashNotFound, SecureId,
        MoveCommand, CopyCommand, StoreCommand, ExpungeCommand, FindResidual, CheckSource,
        ProveArrival, ArrivalUnproven, EraseSweep, EraseTargeted, Recheck, CommandFails,
        OtherClient
<1> QED BY <1>1, <1>3, <1>4, <1>5, <1>6

LEMMA TypeStep == TypeOK /\ [Next]_vars => TypeOK'
<1> SUFFICES ASSUME TypeOK, [Next]_vars PROVE TypeOK'
  OBVIOUS
<1>1. Position'
  <2>1. Position
    BY DEF TypeOK, Position, Points
  <2> QED BY <2>1, PositionStep
<1>2. /\ server' \in Servers /\ hasId' \in WithId /\ tool' \in {"move", "edit"}
      /\ cleanup' \subseteq Uids /\ aim' \in Uids /\ idKnown' \in BOOLEAN /\ newVersion' \in BOOLEAN
  BY MemoryStep DEF TypeOK, world
<1>3. /\ source' \subseteq Message /\ erased' \subseteq Message
      /\ trash' \subseteq Mails /\ elsewhere' \subseteq Mails
  BY MailboxStep
<1>4. others' \in 0..MaxOthers /\ faults' \in 0..MaxFaults
  BY CountersStep
<1> QED BY <1>1, <1>2, <1>3, <1>4 DEF TypeOK, Position, Points

-----------------------------------------------------------------------------
Safe == trash \cup elsewhere

(* What every step observes: mails that are safe stay so, what is new in the
   source folder is a copy of the target, what leaves it is safe or was marked
   by another client, what we mark is the target's and what we expunge is that or
   was marked by another client. *)
Effect ==
  /\ Safe \subseteq Safe'
  /\ erased \subseteq erased'
  /\ \A j \in source' : \E i \in source :
       \/ Same(i, j)
       \/ j.uid = FreshUid /\ i.mail = Target /\ j.mail = Target
  /\ \A j \in source' : j.mark = "us" => j \in source \/ (j.mail = Target /\ Target \in Safe')
  /\ \A i \in source : \/ \E j \in source' : j.mail = i.mail
                       \/ i.mail \in Safe'
                       \/ i \in erased' /\ i.mark = "other"
  /\ \A i \in erased' : i \in erased \/ i.mail = Target \/ i.mark = "other"

LEMMA QuietEffect == UNCHANGED mailbox => Effect
BY DEF mailbox, Effect, Safe, Same

LEMMA UidIsTarget ==
  ASSUME Folder, NEW i \in Here(Uid)
  PROVE  i \in source /\ i.mail = Target
BY DEF Folder, Here

LEMMA MoveEffect ==
  ASSUME MoveInv, MoveCommand \/ CopyCommand
  PROVE  Effect
<1> USE DEF MoveInv
<1>1. source \subseteq Message
  BY DEF TypeOK
<1>2. \A j \in LeftBehind : /\ j.uid = FreshUid /\ j.mark = "nobody" /\ j.mail = Target
                            /\ \E i \in source : i.mail = Target
  BY <1>1, LeftBehindFacts, UidIsTarget
<1>3. /\ source' \subseteq source \cup LeftBehind
      /\ trash \subseteq trash' /\ UNCHANGED <<elsewhere, erased>>
      /\ \A i \in source \ source' : i \in Here(Uid) /\ Target \in trash'
  BY DEF MoveCommand, CopyCommand, Copied, UidStillThere
<1>4. Safe \subseteq Safe'
  BY <1>3 DEF Safe
<1>5. \A i \in source \ source' : i.mail \in Safe'
  BY <1>3, UidIsTarget DEF Safe
<1>6. \A j \in source' : j \in source \/ j \in LeftBehind
  BY <1>3
<1> QED BY <1>2, <1>3, <1>4, <1>5, <1>6 DEF Effect, Same

LEMMA StoreEffect ==
  ASSUME MoveInv, StoreCommand
  PROVE  Effect
<1> USE DEF MoveInv
<1>1. /\ source \subseteq Message /\ Here(Uid) \in SUBSET source
      /\ source' = (source \ Here(Uid)) \cup {Marked(i, "us") : i \in Here(Uid)}
      /\ UNCHANGED <<trash, elsewhere, erased>> /\ pc = "store"
  BY DEF TypeOK, Here, StoreCommand
<1>2. /\ \A j \in source' : \E i \in source :
           Same(i, j) /\ (j = i \/ (i \in Here(Uid) /\ j.mark = "us"))
      /\ \A i \in source : \E j \in source' : Same(i, j)
  BY <1>1, MarkFacts
<1>3. Here(Uid) # {} => Target \in Safe'
  BY <1>1 DEF Placed, UidStillThere, Safe
<1>4. \A j \in source' : j.mark = "us" => j \in source \/ (j.mail = Target /\ Target \in Safe')
  BY <1>2, <1>3, UidIsTarget DEF Same
<1> QED BY <1>1, <1>2, <1>4 DEF Effect, Same, Safe

(* An EXPUNGE takes marked messages: ours are the target's and safe. *)
LEMMA ExpungeEffect ==
  ASSUME MoveInv, ExpungeCommand \/ EraseSweep \/ EraseTargeted
  PROVE  Effect
<1> USE DEF MoveInv
<1>1. /\ UNCHANGED <<trash, elsewhere>>
      /\ \E gone \in SUBSET Marks : Expunge(gone)
  BY DEF ExpungeCommand, EraseSweep, EraseTargeted, Swept
<1>2. PICK gone \in SUBSET Marks : source' = source \ gone /\ erased' = erased \cup gone
  BY <1>1 DEF Expunge
<1>3. \A i \in gone : i \in source /\ i.mark \in {"us", "other"}
  BY <1>2 DEF TypeOK, Message, Marks
<1>4. \A i \in gone : \/ i.mail = Target /\ i.mail \in Safe'
                      \/ i \in erased' /\ i.mark = "other"
  BY <1>1, <1>2, <1>3 DEF OurMarksAreSafe, Safe
<1> QED BY <1>1, <1>2, <1>4 DEF Effect, Same, Safe

LEMMA EraseEffect ==
  ASSUME MoveInv, EraseStore
  PROVE  Effect
<1> USE DEF MoveInv
<1> PICK u \in cleanup :
      source' = (source \ Here(u)) \cup {Marked(i, "us") : i \in Here(u)}
  BY DEF EraseStore
<1>1. /\ UNCHANGED <<trash, elsewhere, erased>> /\ pc = "erase"
  BY DEF EraseStore
<1>2. Safe' = Safe /\ Target \in Safe
  BY <1>1 DEF Placed, Safe
<1>3. /\ Here(u) \in SUBSET source
      /\ \A i \in Here(u) : i.mail = Target
  BY DEF Here, CleanupIsTarget
<1>4. /\ \A j \in source' : \E i \in source :
           Same(i, j) /\ (j = i \/ (i \in Here(u) /\ j.mark = "us"))
      /\ \A i \in source : \E j \in source' : Same(i, j)
  BY <1>3, MarkFacts DEF TypeOK
<1>5. \A j \in source' : j \in source \/ (j.mail = Target /\ Target \in Safe')
  BY <1>2, <1>3, <1>4 DEF Same
<1> QED BY <1>1, <1>2, <1>4, <1>5 DEF Effect, Same

LEMMA OthersEffect ==
  ASSUME MoveInv, OtherClient
  PROVE  Effect
<1> USE DEF MoveInv
<1>1. ASSUME NEW i \in source, TakeAway(i) PROVE Effect
  BY <1>1 DEF TakeAway, Effect, Same, Safe
<1>2. ASSUME NEW i \in source, FlagDeleted(i) PROVE Effect
  <2>1. /\ source' = (source \ {i}) \cup {Marked(k, "other") : k \in {i}}
        /\ UNCHANGED <<trash, elsewhere, erased>>
    BY <1>2 DEF FlagDeleted
  <2>2. /\ \A j \in source' : \E k \in source :
             Same(k, j) /\ (j = k \/ (k \in {i} /\ j.mark = "other"))
        /\ \A k \in source : \E j \in source' : Same(k, j)
    BY <2>1, MarkFacts DEF TypeOK
  <2> QED BY <2>1, <2>2 DEF Effect, Same, Safe
<1>3. ASSUME Compact PROVE Effect
  <2>1. \A i \in source : i.mark \in {"nobody", "us", "other"}
    BY DEF TypeOK, Message
  <2>2. \A i \in source \ source' : i.mail \in Safe'
    BY <1>3, <2>1 DEF Compact, OurMarksAreSafe, Safe
  <2>3. Safe \subseteq Safe' /\ source' \subseteq source /\ erased' = erased
    BY <1>3 DEF Compact, Safe
  <2> QED BY <2>2, <2>3 DEF Effect, Same
<1>4. ASSUME EmptyTrash PROVE Effect
  BY <1>4 DEF EmptyTrash, Effect, Same, Safe
<1> QED BY <1>1, <1>2, <1>3, <1>4 DEF OtherClient

LEMMA EveryEffect ==
  ASSUME MoveInv, [Next]_vars
  PROVE  Effect
<1>1. CASE UNCHANGED mailbox
  BY <1>1, QuietEffect
<1> QED
  BY <1>1, MoveEffect, StoreEffect, ExpungeEffect, EraseEffect, OthersEffect
  DEF Next, vars, Verify, AppendNew, AppendFails, DetectTrash, TrashNotFound, SecureId,
      FindResidual, CheckSource, ProveArrival, ArrivalUnproven, Recheck, CommandFails

-----------------------------------------------------------------------------
LEMMA MailboxInvStep ==
  ASSUME MoveInv, [Next]_vars
  PROVE  /\ Folder' /\ OurMarksAreSafe' /\ CleanupIsTarget'
         /\ NothingLost' /\ ErasureIsTargeted'
<1> USE DEF MoveInv
<1>1. Effect
  BY EveryEffect
<1>2. UNCHANGED server
  BY MemoryStep DEF world
<1>3. ASSUME NEW j \in source'
      PROVE  \E i \in source :
               \/ Same(i, j)
               \/ j.uid = FreshUid /\ i.mail = Target /\ j.mail = Target
  BY <1>1 DEF Effect
<1>4. Folder'
  <2>1. \A j \in source' : j.uid \in {Uid, FreshUid} => j.mail = Target
    BY <1>3 DEF Folder, Same
  <2>2. \A j, k \in source' : j.uid = k.uid => j.mail = k.mail
    BY <1>3, <2>1 DEF Folder, Same
  <2>3. \A j \in source' : j.kin => j.mail = Target
    BY <1>3 DEF Folder, Same
  <2> QED BY <2>1, <2>2, <2>3 DEF Folder
<1>5. OurMarksAreSafe'
  BY <1>1 DEF Effect, OurMarksAreSafe, Safe
<1>6. NothingLost'
  <2> SUFFICES ASSUME NEW m \in Mails
               PROVE  \/ m \in Safe'
                      \/ \E i \in source' : i.mail = m
                      \/ \E i \in erased' : i.mail = m /\ i.mark = "other"
    BY DEF NothingLost, Safe
  <2>1. \/ m \in Safe
        \/ \E i \in source : i.mail = m
        \/ \E i \in erased : i.mail = m /\ i.mark = "other"
    BY DEF NothingLost, Safe
  <2> QED BY <1>1, <2>1 DEF Effect
<1>7. ErasureIsTargeted'
  BY <1>1, <1>2 DEF Effect, ErasureIsTargeted
<1>8. CleanupIsTarget'
  <2>1. CASE cleanup' \subseteq cleanup
    BY <1>3, <2>1 DEF CleanupIsTarget, Same
  <2>2. CASE FindResidual
    <3>1. source' = source /\ cleanup' \subseteq {i.uid : i \in OfTarget}
      BY <2>2 DEF FindResidual, ResidualUids, mailbox
    <3> QED BY <3>1 DEF CleanupIsTarget, OfTarget, Folder
  <2>3. CASE CheckSource
    <3>1. source' = source /\ cleanup' = cleanup \cup {i.uid : i \in Here(Uid)}
      BY <2>3 DEF CheckSource, mailbox
    <3> QED BY <3>1 DEF CleanupIsTarget, Here, Folder
  <2> QED
    BY <2>1, <2>2, <2>3
    DEF Next, vars, Verify, AppendNew, AppendFails, DetectTrash, TrashNotFound, SecureId,
        MoveCommand, CopyCommand, StoreCommand, ExpungeCommand, ProveArrival,
        ArrivalUnproven, EraseStore, EraseSweep, EraseTargeted, Expunge, Recheck,
         CommandFails, OtherClient
<1> QED BY <1>4, <1>5, <1>6, <1>7, <1>8

LEMMA PlacedStep ==
  ASSUME MoveInv, [Next]_vars
  PROVE  Placed'
<1> USE DEF MoveInv
<1>1. Effect /\ UNCHANGED server
  BY EveryEffect, MemoryStep DEF world
<1>2. FreshUid # Uid
  BY ConstantsAssumption
<1>3. UidStillThere' => UidStillThere
  BY <1>1, <1>2 DEF Effect, Same, UidStillThere, Here
<1>4. Target \in Safe => Target \in Safe'
  BY <1>1 DEF Effect
<1>5. CASE UNCHANGED pc
  BY <1>1, <1>3, <1>4, <1>5 DEF Placed, Safe
<1>6. CASE CopyCommand
  <2>1. pc' = "store" /\ ~server.move /\ trash' = Copied
    BY <1>6 DEF CopyCommand, Goto
  <2>2. UidStillThere' => Target \in trash'
    BY <1>3, <2>1 DEF Copied
  <2> QED BY <1>1, <2>1, <2>2 DEF Placed
<1>7. CASE StoreCommand
  <2>1. pc = "store" /\ pc' = "expunge"
    BY <1>7 DEF StoreCommand, Goto
  <2> QED BY <1>1, <2>1 DEF Placed
<1>8. CASE ProveArrival
  <2>1. (pc' = "erase" /\ Target \in trash) \/ pc' = "done"
    BY <1>8 DEF ProveArrival, Goto, Finish
  <2>2. UNCHANGED trash
    BY <1>8 DEF ProveArrival, mailbox
  <2> QED BY <2>1, <2>2 DEF Placed
<1>9. CASE EraseStore \/ EraseSweep \/ EraseTargeted
  <2>1. pc \in {"erase", "sweep", "target"} /\ pc' # "store"
    BY <1>9 DEF EraseStore, EraseSweep, EraseTargeted, Goto
  <2> QED BY <1>4, <2>1 DEF Placed, Safe
<1>10. CASE pc' \notin {"store", "erase", "sweep", "target"}
  BY <1>10 DEF Placed
<1>11. CASE Verify \/ AppendNew \/ AppendFails \/ DetectTrash \/ TrashNotFound \/ SecureId
  BY <1>10, <1>11
  DEF Verify, AppendNew, AppendFails, DetectTrash, TrashNotFound, SecureId, Goto, Finish
<1>12. CASE MoveCommand \/ ExpungeCommand \/ FindResidual \/ CheckSource
  BY <1>10, <1>12 DEF MoveCommand, ExpungeCommand, FindResidual, CheckSource, Goto, Finish
<1>13. CASE ArrivalUnproven \/ Recheck \/ CommandFails
  BY <1>10, <1>13 DEF ArrivalUnproven, Recheck, CommandFails, Finish
<1> QED
  BY <1>5, <1>6, <1>7, <1>8, <1>9, <1>11, <1>12, <1>13 DEF Next, vars, OtherClient

(* Other clients take the old draft elsewhere or leave it in the folder. *)
LEMMA OthersLeaveUntouched ==
  ASSUME TypeOK, Untouched, OtherClient
  PROVE  Untouched'
<1> USE DEF Untouched, OfTarget
<1>1. ASSUME NEW i \in source, TakeAway(i) PROVE Untouched'
  BY <1>1 DEF TakeAway
<1>2. ASSUME NEW i \in source, FlagDeleted(i) PROVE Untouched'
  <2>1. /\ source' = (source \ {i}) \cup {Marked(k, "other") : k \in {i}}
        /\ UNCHANGED elsewhere
        /\ source \subseteq Message /\ {i} \in SUBSET source
    BY <1>2 DEF FlagDeleted, TypeOK
  <2>2. /\ \A j \in source' : \E k \in source :
             Same(k, j) /\ (j = k \/ (k \in {i} /\ j.mark = "other"))
        /\ \A k \in source : \E j \in source' : Same(k, j)
    BY <2>1, MarkFacts
  <2> QED BY <2>1, <2>2 DEF Same
<1>3. ASSUME Compact PROVE Untouched'
  <2>1. \A i \in source : i.mark \in {"nobody", "other"}
    BY DEF TypeOK, Message
  <2> QED BY <1>3, <2>1 DEF Compact
<1>4. ASSUME EmptyTrash PROVE Untouched'
  BY <1>4 DEF EmptyTrash
<1> QED BY <1>1, <1>2, <1>3, <1>4 DEF OtherClient

LEMMA NotBegunStep ==
  ASSUME MoveInv, [Next]_vars
  PROVE  NotBegun'
<1> USE DEF MoveInv
<1>1. UNCHANGED tool
  BY MemoryStep DEF world
<1>2. UNCHANGED mailbox /\ Untouched => Untouched'
  BY DEF mailbox, Untouched, OfTarget
<1>3. CASE OtherClient
  BY <1>1, <1>3, OthersLeaveUntouched DEF NotBegun, OtherClient
<1>4. CASE UNCHANGED vars
  BY <1>1, <1>2, <1>4 DEF NotBegun, vars
<1>5. CASE Verify
  <2>1. /\ pc = "verify" /\ UNCHANGED <<mailbox, newVersion>>
        /\ pc' \in {"append", "detect", "done"} /\ (tool = "edit" => pc' # "detect")
    BY <1>5 DEF Verify, Goto, Finish
  <2> QED BY <1>1, <1>2, <2>1 DEF NotBegun
<1>6. CASE AppendNew
  BY <1>6 DEF AppendNew, Goto, NotBegun
<1>7. CASE AppendFails
  BY <1>1, <1>2, <1>7 DEF AppendFails, Finish, NotBegun
<1>8. CASE CommandFails
  BY <1>1, <1>2, <1>8 DEF CommandFails, Finish, NotBegun
<1>9. CASE pc \notin {"verify", "append", "done"} /\ pc' \notin {"verify", "append"}
           /\ UNCHANGED newVersion
  BY <1>1, <1>9 DEF NotBegun
<1>10. CASE DetectTrash \/ TrashNotFound \/ SecureId
  BY <1>9, <1>10 DEF DetectTrash, TrashNotFound, SecureId, Goto, Finish
<1>11. CASE MoveCommand \/ CopyCommand \/ StoreCommand \/ ExpungeCommand
  BY <1>9, <1>11 DEF MoveCommand, CopyCommand, StoreCommand, ExpungeCommand, Goto
<1>12. CASE FindResidual \/ CheckSource \/ ProveArrival \/ ArrivalUnproven
  BY <1>9, <1>12 DEF FindResidual, CheckSource, ProveArrival, ArrivalUnproven, Goto, Finish
<1>13. CASE EraseStore \/ EraseSweep \/ EraseTargeted \/ Recheck
  BY <1>9, <1>13 DEF EraseStore, EraseSweep, EraseTargeted, Recheck, Goto, Finish
<1> QED
  BY <1>3, <1>4, <1>5, <1>6, <1>7, <1>8, <1>10, <1>11, <1>12, <1>13 DEF Next

-----------------------------------------------------------------------------
(* A step that leaves the call undisturbed is no failure and nobody else's. *)
LEMMA UndisturbedStep ==
  ASSUME TypeOK, [Next]_vars, Undisturbed'
  PROVE  Undisturbed /\ ~Fault /\ ~OtherClient
<1>1. others \in Nat /\ faults \in Nat
  BY ConstantsAssumption DEF TypeOK
<1>2. others' \in {others, others + 1} /\ faults' \in {faults, faults + 1}
  BY DEF Next, vars, Fault, Verify, AppendNew, AppendFails, DetectTrash, TrashNotFound,
         SecureId, MoveCommand, CopyCommand, StoreCommand, ExpungeCommand, FindResidual,
         CheckSource, ProveArrival, ArrivalUnproven, EraseStore, EraseSweep, EraseTargeted, Expunge, Recheck,
         CommandFails, OtherClient
<1>3. UNCHANGED hasId
  BY MemoryStep DEF world
<1> QED BY <1>1, <1>2, <1>3 DEF Undisturbed, Fault, OtherClient

LEMMA CourseStep ==
  ASSUME MoveInv, [Next]_vars
  PROVE  Course'
<1> SUFFICES ASSUME Undisturbed' PROVE Course'
  BY DEF Course
<1> USE DEF MoveInv, Goto, Finish
<1>1. Undisturbed /\ ~Fault /\ ~OtherClient
  BY UndisturbedStep
<1>2. /\ pc \in {"verify", "append", "detect", "id", "move"} => UidStillThere
      /\ pc \notin {"verify", "append", "detect", "id"} => idKnown \/ result = "error"
      /\ pc \in {"store", "expunge", "erase", "sweep", "target", "recheck"} => Target \in trash
      /\ pc \in {"residual", "present"} => Target \in trash \/ OfTarget # {}
      /\ pc = "present" => cleanup = {i.uid : i \in OfTarget}
      /\ result = "moved" => Target \in trash /\ OfTarget = {}
  BY <1>1 DEF Course
<1>3. pc # "done" => result = "none"
  BY DEF TypeOK
<1>4. UidStillThere => OfTarget # {}
  BY UidIsTarget DEF UidStillThere, OfTarget
<1>5. UNCHANGED mailbox => UNCHANGED <<trash, UidStillThere, OfTarget>>
  BY DEF mailbox, UidStillThere, Here, OfTarget
<1>6. CASE UNCHANGED vars
  BY <1>2, <1>5, <1>6 DEF Course, vars
<1>7. CASE Verify \/ AppendNew
  BY <1>2, <1>3, <1>5, <1>7 DEF Verify, AppendNew, Course
<1>8. CASE DetectTrash \/ TrashNotFound
  BY <1>2, <1>3, <1>5, <1>8 DEF DetectTrash, TrashNotFound, Course
<1>9. CASE SecureId
  BY <1>1, <1>2, <1>3, <1>5, <1>9 DEF SecureId, Course, Undisturbed
<1>10. CASE MoveCommand
  <2>1. pc = "move" /\ pc' = "residual" /\ UNCHANGED <<idKnown, result>> /\ result = "none"
    BY <1>3, <1>10 DEF MoveCommand
  <2>2. CASE UNCHANGED source
    BY <1>2, <1>4, <2>1, <2>2 DEF Course, OfTarget
  <2>3. CASE trash' = Copied
    BY <1>2, <2>1, <2>3 DEF Course, Copied
  <2> QED BY <1>10, <2>2, <2>3 DEF MoveCommand
<1>11. CASE CopyCommand
  BY <1>2, <1>3, <1>11 DEF CopyCommand, Copied, Course
<1>12. CASE StoreCommand \/ ExpungeCommand
  BY <1>2, <1>3, <1>12 DEF StoreCommand, ExpungeCommand, Expunge, Course
<1>13. CASE FindResidual
  BY <1>1, <1>2, <1>3, <1>5, <1>13 DEF FindResidual, ResidualUids, Course
<1>14. CASE CheckSource
  <2>1. /\ pc = "present" /\ UNCHANGED <<mailbox, idKnown>>
        /\ cleanup' = cleanup \cup {i.uid : i \in Here(Uid)}
        /\ (cleanup' = {} /\ pc' = "done") \/ (pc' = "arrival" /\ UNCHANGED result)
    BY <1>14 DEF CheckSource
  <2>2. cleanup' = {} => OfTarget = {}
    BY <1>2, <2>1
  <2> QED BY <1>2, <1>3, <1>5, <2>1, <2>2 DEF Course
<1>15. CASE ProveArrival
  BY <1>2, <1>3, <1>5, <1>15 DEF ProveArrival, Course
<1>16. CASE EraseStore \/ EraseSweep \/ EraseTargeted
  BY <1>2, <1>3, <1>16 DEF EraseStore, EraseSweep, EraseTargeted, Expunge, Course
<1>17. CASE Recheck
  <2>1. pc = "recheck" /\ UNCHANGED <<mailbox, idKnown>> /\ pc' = "done"
        /\ result' \in {"moved", "error"} /\ (result' = "moved" => ResidualUids = {})
    BY <1>1, <1>17 DEF Recheck
  <2>2. result' = "moved" => OfTarget = {}
    BY <1>2, <1>3, <2>1 DEF ResidualUids
  <2> QED BY <1>2, <1>3, <1>5, <2>1, <2>2 DEF Course
<1> QED
  BY <1>1, <1>6, <1>7, <1>8, <1>9, <1>10, <1>11, <1>12, <1>13, <1>14, <1>15, <1>16, <1>17
  DEF Next, AppendFails, ArrivalUnproven, CommandFails

-----------------------------------------------------------------------------
LEMMA MoveStep == MoveInv /\ [Next]_vars => MoveInv'
BY TypeStep, MailboxInvStep, PlacedStep, NotBegunStep, CourseStep DEF MoveInv

(* Every state of a call to _move_to_trash satisfies the invariant. *)
THEOREM MoveSafe == Spec => []MoveInv
BY MoveInit, MoveStep, PTL DEF Spec

(* The call's variables keep their types. *)
THEOREM TypeCorrect == Spec => []TypeOK
<1>1. MoveInv => TypeOK
  BY DEF MoveInv
<1> QED BY <1>1, MoveSafe, PTL

(* _move_to_trash loses no mail of the folder: it is in the folder or in the
   trash, unless another client took it or marked it for deletion. *)
THEOREM NothingIsLost == Spec => []NothingLost
<1>1. MoveInv => NothingLost
  BY DEF MoveInv
<1> QED BY <1>1, MoveSafe, PTL

(* entwurf_bearbeiten has stored the new version before the old draft goes. *)
THEOREM NewVersionFirst == Spec => []NewBeforeOld
<1>1. MoveInv => NewBeforeOld
  BY DEF MoveInv, NotBegun, Untouched, NewBeforeOld
<1> QED BY <1>1, MoveSafe, PTL

(* "moved", in a call nobody disturbs, means that nothing is left behind. *)
THEOREM SuccessesAreReal == Spec => []SuccessIsReal
<1>1. MoveInv => SuccessIsReal
  BY DEF MoveInv, Course, Folder, OfTarget, SuccessIsReal
<1> QED BY <1>1, MoveSafe, PTL

(* The connection expunges only messages of the moved mail and messages other
   clients have marked: the fallback of _move_to_trash. *)
THEOREM ErasuresAreTargeted == Spec => []ErasureIsTargeted
<1>1. MoveInv => ErasureIsTargeted
  BY DEF MoveInv
<1> QED BY <1>1, MoveSafe, PTL
=============================================================================
