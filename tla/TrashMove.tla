------------------------------ MODULE TrashMove ------------------------------
(***************************************************************************)
(* Moving one mail or draft to the trash from the chat:                    *)
(* webui/src/chat_tools.py, _move_to_trash with its lookups, called by     *)
(* mail_in_papierkorb and entwurf_in_papierkorb (tool "move") and by       *)
(* entwurf_bearbeiten (tool "edit"), which first appends the new version.  *)
(* Whether the call may move at all is decided before (module ConfirmGate).*)
(*                                                                         *)
(* External: what the IMAP server and imap-tools' MailBox.move make of     *)
(* MOVE, COPY, STORE and EXPUNGE, as the comments of chat_tools.py tell it *)
(* (servers that leave a copy behind, or give it a new uid), and the other *)
(* mail clients of the same mailbox.                                       *)
(***************************************************************************)
EXTENDS Naturals, FiniteSets

CONSTANTS
  Mails,      \* mails, told apart by Message-ID
  Target,     \* the mail to move
  Uid,        \* its uid in the source folder
  OtherUids,  \* uids of the other messages in the folder
  FreshUid,   \* the uid a server may give to a copy it leaves behind
  Folders,    \* possible contents of the source folder
  WithId,     \* whether the target has a Message-ID header: a set of Booleans
  Servers,    \* kinds of servers
  MaxOthers,  \* bound: number of actions of other clients
  MaxFaults   \* bound: number of failed commands

Uids == OtherUids \cup {Uid, FreshUid}
(* kin: the target message or a copy of it the server made.                *)
(* mark: who set the \Deleted flag.                                        *)
Message == [uid: Uids, mail: Mails, kin: BOOLEAN, mark: {"nobody", "us", "other"}]

(* move, uidplus: capabilities.  leaves: what a move leaves in the source: *)
(* nothing, the same message, a copy with a new uid; "ignored": MOVE is    *)
(* answered OK and has no effect.  erases: the EXPUNGEs of the fallback     *)
(* have an effect.  trash: a trash folder is found.                        *)
Server == [move: BOOLEAN, uidplus: BOOLEAN, erases: BOOLEAN, trash: BOOLEAN,
           leaves: {"nothing", "same", "new", "ignored"}]

ASSUME ConstantsAssumption ==
  /\ Target \in Mails
  /\ Uid \notin OtherUids /\ FreshUid \notin OtherUids \cup {Uid}
  /\ \A f \in Folders :
       /\ f \subseteq Message
       /\ \A i \in f : i.kin = (i.uid = Uid)
       /\ [uid |-> Uid, mail |-> Target, kin |-> TRUE, mark |-> "nobody"] \in f
       /\ \A i, j \in f : i.uid = j.uid => i = j
       /\ \A i \in f : i.uid # FreshUid /\ i.mark # "us"
       /\ Mails \subseteq {i.mail : i \in f}
  /\ WithId \subseteq BOOLEAN
  /\ Servers \subseteq Server
  /\ \A s \in Servers : s.leaves = "ignored" => s.move
  /\ MaxOthers \in Nat /\ MaxFaults \in Nat

VARIABLES
  source, trash,     \* messages in the source folder, mails in the trash
  elsewhere,         \* mails other clients took out of source or trash
  erased,            \* history: messages our connection expunged
  server, hasId, tool,
  pc, idKnown, newVersion, result,
  cleanup, aim,      \* uids to clean up, the one in hand
  others, faults

mailbox == <<source, trash, elsewhere, erased>>
world == <<server, hasId, tool>>
vars == <<mailbox, world, pc, idKnown, cleanup, aim, newVersion, result, others, faults>>

TypeOK ==
  /\ source \subseteq Message
  /\ trash \subseteq Mails /\ elsewhere \subseteq Mails
  /\ erased \subseteq Message
  /\ server \in Servers /\ hasId \in WithId /\ tool \in {"move", "edit"}
  /\ pc \in {"verify", "append", "detect", "id", "move", "store", "expunge",
             "residual", "present", "arrival", "erase", "sweep", "target", "recheck", "done"}
  /\ idKnown \in BOOLEAN /\ newVersion \in BOOLEAN
  /\ cleanup \subseteq Uids /\ aim \in Uids
  /\ result \in {"none", "moved", "error"}
  /\ (result = "none") = (pc # "done")
  /\ others \in 0..MaxOthers /\ faults \in 0..MaxFaults

Init ==
  /\ source \in Folders
  /\ trash = {} /\ elsewhere = {} /\ erased = {}
  /\ server \in Servers /\ hasId \in WithId /\ tool \in {"move", "edit"}
  /\ pc = "verify" /\ idKnown = FALSE /\ cleanup = {} /\ aim = Uid /\ newVersion = FALSE
  /\ result = "none"
  /\ others = 0 /\ faults = 0

-----------------------------------------------------------------------------
Fault == faults < MaxFaults /\ faults' = faults + 1
Goto(l) == pc' = l /\ UNCHANGED result
Finish(r) == pc' = "done" /\ result' = r

Here(u) == {i \in source : i.uid = u}
OfTarget == {i \in source : i.mail = Target}
Marked(i, who) == [i EXCEPT !.mark = who]

(* _uids_of_message_id_in_folder: every message with this Message-ID,      *)
(* nothing without one.                                                    *)
ResidualUids == IF idKnown THEN {i.uid : i \in OfTarget} ELSE {}
(* _uid_still_in_folder                                                    *)
UidStillThere == Here(Uid) # {}

(* The uid is fetched before anything else is done.                        *)
Verify ==
  /\ pc = "verify"
  /\ IF UidStillThere THEN Goto(IF tool = "edit" THEN "append" ELSE "detect")
                      ELSE Finish("error")
  /\ UNCHANGED <<mailbox, world, idKnown, cleanup, aim, newVersion, others, faults>>

(* entwurf_bearbeiten: the new version first.                              *)
AppendNew ==
  /\ pc = "append"
  /\ newVersion' = TRUE
  /\ Goto("detect")
  /\ UNCHANGED <<mailbox, world, idKnown, cleanup, aim, others, faults>>

(* Mutant: a failed APPEND is only logged.                                 *)
AppendFailsLogged ==
  /\ pc = "append"
  /\ Fault
  /\ newVersion' \in BOOLEAN
  /\ Goto("detect")
  /\ UNCHANGED <<mailbox, world, idKnown, cleanup, aim, others>>

(* An APPEND that raised may have been stored all the same.                *)
AppendFails ==
  /\ pc = "append"
  /\ Fault
  /\ newVersion' \in BOOLEAN
  /\ Finish("error")
  /\ UNCHANGED <<mailbox, world, idKnown, cleanup, aim, others>>

DetectTrash ==
  /\ pc = "detect"
  /\ server.trash
  /\ Goto("id")
  /\ UNCHANGED <<mailbox, world, idKnown, cleanup, aim, newVersion, others, faults>>

(* No trash folder, or the listing failed: never guessed.                  *)
TrashNotFound ==
  /\ pc = "detect"
  /\ \/ ~server.trash /\ UNCHANGED faults
     \/ Fault
  /\ Finish("error")
  /\ UNCHANGED <<mailbox, world, idKnown, cleanup, aim, newVersion, others>>

(* The Message-ID is secured before the move; a failed fetch is ignored.   *)
SecureId ==
  /\ pc = "id"
  /\ \/ idKnown' = (hasId /\ UidStillThere) /\ UNCHANGED faults
     \/ Fault /\ idKnown' = FALSE
  /\ Goto("move")
  /\ UNCHANGED <<mailbox, world, cleanup, aim, newVersion, others>>

-----------------------------------------------------------------------------
(* MailBox.move: MOVE where the server has it, else COPY, STORE \Deleted   *)
(* and an EXPUNGE of the whole folder.  A uid that is no longer there is   *)
(* no error.                                                               *)
Copied == IF UidStillThere THEN trash \cup {Target} ELSE trash
LeftBehind ==
  IF server.leaves = "new"
  THEN {[i EXCEPT !.uid = FreshUid, !.mark = "nobody"] : i \in Here(Uid)}
  ELSE {}

MoveCommand ==
  /\ pc = "move"
  /\ server.move
  /\ IF server.leaves = "ignored" THEN UNCHANGED <<source, trash>>
     ELSE /\ trash' = Copied
          /\ source' = IF server.leaves = "same" THEN source
                       ELSE (source \ Here(Uid)) \cup LeftBehind
  /\ Goto("residual")
  /\ UNCHANGED <<elsewhere, erased, world, idKnown, cleanup, aim, newVersion, others, faults>>

CopyCommand ==
  /\ pc = "move"
  /\ ~server.move
  /\ trash' = Copied
  /\ source' = source \cup LeftBehind
  /\ Goto("store")
  /\ UNCHANGED <<elsewhere, erased, world, idKnown, cleanup, aim, newVersion, others, faults>>

StoreCommand ==
  /\ pc = "store"
  /\ source' = (source \ Here(Uid)) \cup {Marked(i, "us") : i \in Here(Uid)}
  /\ Goto("expunge")
  /\ UNCHANGED <<trash, elsewhere, erased, world, idKnown, cleanup, aim, newVersion, others, faults>>

(* What an EXPUNGE of the folder takes: all that is marked, by whomever.    *)
Marks == {i \in source : i.mark # "nobody"}
Swept == IF ~server.move /\ server.leaves = "same" THEN {} ELSE Marks
Expunge(gone) == source' = source \ gone /\ erased' = erased \cup gone

ExpungeCommand ==
  /\ pc = "expunge"
  /\ Expunge(Swept)
  /\ Goto("residual")
  /\ UNCHANGED <<trash, elsewhere, world, idKnown, cleanup, aim, newVersion, others, faults>>

-----------------------------------------------------------------------------
(* Mutant: the source is searched by uid alone (the original bug).         *)
FindResidualByUid ==
  /\ pc = "residual"
  /\ cleanup' = {}
  /\ Goto("present")
  /\ UNCHANGED <<mailbox, world, idKnown, aim, newVersion, others, faults>>

(* Mutant: the search finds messages with other Message-IDs, too.          *)
FindResidualLoose ==
  /\ pc = "residual"
  /\ cleanup' = IF idKnown /\ OfTarget # {} THEN {i.uid : i \in source} ELSE {}
  /\ Goto("present")
  /\ UNCHANGED <<mailbox, world, idKnown, aim, newVersion, others, faults>>

(* After the move: is the mail gone from the source, by Message-ID (a      *)
(* failed search finds nothing) and by uid?                                *)
FindResidual ==
  /\ pc = "residual"
  /\ \/ cleanup' = ResidualUids /\ UNCHANGED faults
     \/ Fault /\ cleanup' = {}
  /\ Goto("present")
  /\ UNCHANGED <<mailbox, world, idKnown, aim, newVersion, others>>

(* Mutant: nothing is reported when there is nothing to clean up.          *)
CheckSourceMute ==
  /\ pc = "present"
  /\ cleanup' = cleanup \cup {i.uid : i \in Here(Uid)}
  /\ Goto(IF cleanup' = {} THEN "done" ELSE "arrival")
  /\ UNCHANGED <<mailbox, world, idKnown, aim, newVersion, others, faults>>

CheckSource ==
  /\ pc = "present"
  /\ cleanup' = cleanup \cup {i.uid : i \in Here(Uid)}
  /\ IF cleanup' = {} THEN Finish("moved") ELSE Goto("arrival")
  /\ UNCHANGED <<mailbox, world, idKnown, aim, newVersion, others, faults>>

(* Mutant: deletion without the proof of arrival.                          *)
ProveArrivalSkipped ==
  /\ pc = "arrival"
  /\ IF server.uidplus THEN Goto("erase") ELSE Finish("error")
  /\ UNCHANGED <<mailbox, world, idKnown, cleanup, aim, newVersion, others, faults>>

(* No deletion without the proof that the copy has arrived (a failed       *)
(* search proves nothing), none without UIDPLUS.                           *)
ProveArrival ==
  /\ pc = "arrival"
  /\ IF idKnown /\ Target \in trash /\ server.uidplus
     THEN Goto("erase") ELSE Finish("error")
  /\ UNCHANGED <<mailbox, world, idKnown, cleanup, aim, newVersion, others, faults>>

ArrivalUnproven ==
  /\ pc = "arrival"
  /\ Fault
  /\ Finish("error")
  /\ UNCHANGED <<mailbox, world, idKnown, cleanup, aim, newVersion, others>>

(* uid by uid: imap-tools' flag(), which is a STORE and then an EXPUNGE of  *)
(* the whole folder, and after it the UID EXPUNGE.                         *)
EraseStore ==
  /\ pc = "erase"
  /\ \E u \in cleanup :
       /\ cleanup' = cleanup \ {u} /\ aim' = u
       /\ source' = (source \ Here(u)) \cup {Marked(i, "us") : i \in Here(u)}
  /\ Goto("sweep")
  /\ UNCHANGED <<trash, elsewhere, erased, world, idKnown, newVersion, others, faults>>

EraseSweep ==
  /\ pc = "sweep"
  /\ Expunge(IF server.erases THEN Swept ELSE {})
  /\ Goto("target")
  /\ UNCHANGED <<trash, elsewhere, world, idKnown, cleanup, aim, newVersion, others, faults>>

EraseTargeted ==
  /\ pc = "target"
  /\ Expunge(IF server.erases THEN Here(aim) \cap Marks ELSE {})
  /\ Goto(IF cleanup = {} THEN "recheck" ELSE "erase")
  /\ UNCHANGED <<trash, elsewhere, world, idKnown, cleanup, aim, newVersion, others, faults>>

(* Still there by uid, or by Message-ID unless that search fails.          *)
Recheck ==
  /\ pc = "recheck"
  /\ \/ /\ Finish(IF UidStillThere \/ ResidualUids # {} THEN "error" ELSE "moved")
        /\ UNCHANGED faults
     \/ Fault /\ Finish(IF UidStillThere THEN "error" ELSE "moved")
  /\ UNCHANGED <<mailbox, world, idKnown, cleanup, aim, newVersion, others>>

(* Any other command that raises ends the tool call with an error.         *)
CommandFails ==
  /\ pc \in {"verify", "move", "store", "expunge", "present", "erase", "sweep", "target",
            "recheck"}
  /\ Fault
  /\ Finish("error")
  /\ UNCHANGED <<mailbox, world, idKnown, cleanup, aim, newVersion, others>>

-----------------------------------------------------------------------------
(* Another client moves a message away, flags one, expunges what is        *)
(* flagged, or empties the trash.                                          *)
TakeAway(i) ==
  /\ source' = source \ {i}
  /\ elsewhere' = elsewhere \cup {i.mail}
  /\ UNCHANGED <<trash, erased>>
FlagDeleted(i) ==
  /\ i.mark = "nobody"
  /\ source' = (source \ {i}) \cup {Marked(i, "other")}
  /\ UNCHANGED <<trash, elsewhere, erased>>
Compact ==
  /\ source' = {i \in source : i.mark = "nobody"}
  /\ elsewhere' = elsewhere \cup {i.mail : i \in {j \in source : j.mark = "other"}}
  /\ UNCHANGED <<trash, erased>>
EmptyTrash == trash' = {} /\ elsewhere' = elsewhere \cup trash /\ UNCHANGED <<source, erased>>

OtherClient ==
  /\ pc # "done"
  /\ others < MaxOthers
  /\ others' = others + 1
  /\ \/ \E i \in source : TakeAway(i) \/ FlagDeleted(i)
     \/ Compact
     \/ EmptyTrash
  /\ UNCHANGED <<world, pc, idKnown, cleanup, aim, newVersion, result, faults>>

Next ==
  \/ Verify \/ AppendNew \/ AppendFails \/ DetectTrash \/ TrashNotFound \/ SecureId
  \/ MoveCommand \/ CopyCommand \/ StoreCommand \/ ExpungeCommand
  \/ FindResidual \/ CheckSource \/ ProveArrival \/ ArrivalUnproven
  \/ EraseStore \/ EraseSweep \/ EraseTargeted \/ Recheck \/ CommandFails
  \/ OtherClient

Spec == Init /\ [][Next]_vars

-----------------------------------------------------------------------------
(***************************************************************************)
(* Properties                                                              *)
(***************************************************************************)

(* No silent loss (T-09-13): however the server answers, wherever the call *)
(* breaks off and whatever other clients do meanwhile, every mail of the   *)
(* folder is still in it or in the trash, unless another client took it    *)
(* away or itself marked it for deletion.                                  *)
NothingLost ==
  \A m \in Mails :
    \/ m \in trash \cup elsewhere
    \/ \E i \in source : i.mail = m
    \/ \E i \in erased : i.mail = m /\ i.mark = "other"

(* entwurf_bearbeiten: the old draft never disappears before the new       *)
(* version is stored, unless another client removes it.                    *)
NewBeforeOld ==
  tool = "edit" /\ OfTarget = {} /\ Target \notin elsewhere
  /\ ~(\E i \in erased : i.mail = Target /\ i.mark = "other")
    => newVersion

(* No silent success: where the mail has a Message-ID, every command works *)
(* and nobody else touches the folder, "moved" is not reported while the   *)
(* message, or a copy of it the server left under a new uid, is still in   *)
(* the source folder -- on every kind of server.                           *)
Undisturbed == hasId /\ others = 0 /\ faults = 0
SuccessIsReal ==
  result = "moved" /\ Undisturbed =>
    Target \in trash /\ ~\E i \in source : i.kin

(* The deletion is targeted: on every kind of server, whatever happens     *)
(* between finding the uids and working them off, the connection expunges  *)
(* nothing but messages with the Message-ID of the mail that was moved and *)
(* messages other clients have marked themselves.                          *)
ErasureIsTargeted == \A i \in erased : i.mail = Target \/ i.mark = "other"

(* What the docstring of _move_to_trash and the error text of the fallback *)
(* promise: STORE and UID EXPUNGE of exactly these uids instead of an      *)
(* EXPUNGE of the whole folder, so messages other clients have marked      *)
(* \Deleted are not expunged along the way.                                *)
ForeignKept == \A i \in erased : i.mark = "other" => i.mail = Target
=============================================================================
