--------------------------- MODULE MailPollProofs ---------------------------
(***************************************************************************)
(* Proofs about one agent's mail loop (module MailPoll), for any number of *)
(* mails, Message-IDs, days and failures.                                  *)
(*                                                                         *)
(* DraftsAccounted is not inductive by itself: to see that APPEND and      *)
(* mark_processed keep the balance one needs that the current mail has no  *)
(* row yet (CurIsOpen), and to see that one needs the types.               *)
(***************************************************************************)
EXTENDS MailPoll, TLAPS

IInv == TypeOK /\ CurIsOpen /\ DraftsAccounted

(* TypeOK in five parts, by the kind of value: no prover is good at all.   *)
Flags == folder \in BOOLEAN /\ selected \in BOOLEAN
Numbers == today \in Nat /\ firstRun \in Int /\ since \in Int /\ faults \in Nat
Mailbox ==
  arrived \in 0..NumMails /\ inbox \subseteq 1..arrived /\ day \in [Mails -> Nat]
Books ==
  /\ drafts \in [Ids -> Nat] /\ gaps \in [Ids -> Nat]
  /\ processed \in [Ids -> Verdicts]
Control == pc \in Points /\ queue \subseteq Mails /\ cur \in Mails \cup {NoMail}

(* The invariant holds when the agent starts on an empty state.db.         *)
LEMMA InitIInv == Init => IInv
<1> USE ConstantsAssumption DEF Mails
<1>1. SUFFICES ASSUME Init PROVE IInv
  OBVIOUS
<1>2. Flags
  BY <1>1 DEF Init, Flags
<1>3. Numbers /\ Mailbox
  BY <1>1 DEF Init, Numbers, Mailbox, NoDay
<1>4. Books
  BY <1>1 DEF Init, Books, Verdicts
<1>5. Control
  BY <1>1 DEF Init, Control, NoMail, Points
<1>6. CurIsOpen
  BY <1>1 DEF Init, CurIsOpen, InProcessOne
<1>7. DraftsAccounted
  BY <1>1 DEF Init, DraftsAccounted, Recorded, Unrecorded
<1> QED
  BY <1>2, <1>3, <1>4, <1>5, <1>6, <1>7
  DEF IInv, TypeOK, Flags, Numbers, Mailbox, Books, Control

LEMMA FlagsStep == Flags /\ [Next]_vars => Flags'
BY DEF Flags, Next, Progress, Failure, Environment, vars, env, db, loop, Goto, Caught, Aborted,
   ComputeSince, Connect, PollDone, NextMail, FetchAborts, Classify, LlmFails,
   MarkIgnored, History, Generate, Append, AppendMissingFolder, CreateFolder,
   AppendFails, MarkReplied, Restart, ConnectFails, LookupFails, AppendAnswerLost,
   MarkFails, Crash, Deliver, RemoveMail, RemoveDraftsFolder, DayPasses

LEMMA NumbersStep == Numbers /\ [Next]_vars => Numbers'
<1> USE ConstantsAssumption DEF Numbers, Fault
<1>1. CASE Environment \/ UNCHANGED vars
  BY <1>1 DEF Environment, Deliver, RemoveMail, RemoveDraftsFolder, DayPasses, vars, env,
     db, loop
<1>2. CASE Failure
  BY <1>2 DEF Failure, ConnectFails, LookupFails, AppendAnswerLost, MarkFails, Crash,
     env, db, Caught, Aborted
<1>3. CASE Progress
  BY <1>3 DEF Progress, ComputeSince, Connect, PollDone, NextMail, FetchAborts, Classify,
     LlmFails, MarkIgnored, History, Generate, Append, AppendMissingFolder, CreateFolder,
     AppendFails, MarkReplied, Restart, env, db, Goto, Caught, Aborted
<1> QED
  BY <1>1, <1>2, <1>3 DEF Next

(* The agent never touches the INBOX.                                      *)
LEMMA InboxIsExternal == Progress \/ Failure => UNCHANGED env
BY DEF Progress, Failure, ComputeSince, Connect, PollDone, NextMail, FetchAborts, Classify,
   LlmFails, MarkIgnored, History, Generate, Append, AppendMissingFolder, CreateFolder,
   AppendFails, MarkReplied, Restart, ConnectFails, LookupFails, AppendAnswerLost,
   MarkFails, Crash

LEMMA MailboxStep == Numbers /\ Mailbox /\ [Next]_vars => Mailbox'
<1> USE ConstantsAssumption DEF Numbers, Mailbox, Mails, env
<1>1. SUFFICES ASSUME Numbers, Mailbox, [Next]_vars PROVE Mailbox'
  OBVIOUS
<1>2. CASE Deliver
  BY <1>1, <1>2 DEF Deliver
<1>3. CASE RemoveMail
  BY <1>1, <1>3 DEF RemoveMail
<1>4. CASE RemoveDraftsFolder \/ DayPasses
  BY <1>1, <1>4 DEF RemoveDraftsFolder, DayPasses
<1>5. CASE UNCHANGED env
  BY <1>1, <1>5
<1> QED
  BY <1>1, <1>2, <1>3, <1>4, <1>5, InboxIsExternal DEF Next, Environment, vars

(* While a mail is processed it has a Message-ID, so the functions on Ids  *)
(* are only updated inside their domain.                                   *)
LEMMA BooksStep == Books /\ CurIsOpen /\ [Next]_vars => Books'
BY ConstantsAssumption
DEF Books, CurIsOpen, InProcessOne, Verdicts, LostAppend,
   Next, Progress, Failure, Environment, vars, env, db, loop, Goto, Caught, Aborted,
   ComputeSince, Connect, PollDone, NextMail, FetchAborts, Classify, LlmFails,
   MarkIgnored, History, Generate, Append, AppendMissingFolder, CreateFolder,
   AppendFails, MarkReplied, Restart, ConnectFails, LookupFails, AppendAnswerLost,
   MarkFails, Crash, Deliver, RemoveMail, RemoveDraftsFolder, DayPasses

LEMMA InboxMails == Mailbox => inbox \subseteq Mails
BY ConstantsAssumption DEF Mailbox, Mails

LEMMA ControlStep == inbox \subseteq Mails /\ Control /\ [Next]_vars => Control'
<1> SUFFICES ASSUME inbox \subseteq Mails, Control, [Next]_vars PROVE Control'
  OBVIOUS
<1>1. pc' \in Points
  BY DEF Control, Points,
   Next, Progress, Failure, Environment, vars, env, db, loop, Goto, Caught, Aborted,
   ComputeSince, Connect, PollDone, NextMail, FetchAborts, Classify, LlmFails,
   MarkIgnored, History, Generate, Append, AppendMissingFolder, CreateFolder,
   AppendFails, MarkReplied, Restart, ConnectFails, LookupFails, AppendAnswerLost,
   MarkFails, Crash, Deliver, RemoveMail, RemoveDraftsFolder, DayPasses
<1>2. queue' \subseteq Mails
  BY DEF Control,
   Next, Progress, Failure, Environment, vars, env, db, loop, Goto, Caught, Aborted,
   ComputeSince, Connect, PollDone, NextMail, FetchAborts, Classify, LlmFails,
   MarkIgnored, History, Generate, Append, AppendMissingFolder, CreateFolder,
   AppendFails, MarkReplied, Restart, ConnectFails, LookupFails, AppendAnswerLost,
   MarkFails, Crash, Deliver, RemoveMail, RemoveDraftsFolder, DayPasses
<1>3. cur' \in Mails \cup {NoMail}
  BY DEF Control,
   Next, Progress, Failure, Environment, vars, env, db, loop, Goto, Caught, Aborted,
   ComputeSince, Connect, PollDone, NextMail, FetchAborts, Classify, LlmFails,
   MarkIgnored, History, Generate, Append, AppendMissingFolder, CreateFolder,
   AppendFails, MarkReplied, Restart, ConnectFails, LookupFails, AppendAnswerLost,
   MarkFails, Crash, Deliver, RemoveMail, RemoveDraftsFolder, DayPasses
<1> QED
  BY <1>1, <1>2, <1>3 DEF Control

(* TypeOK is inductive given that the current mail has a Message-ID.       *)
LEMMA TypeStep == IInv /\ [Next]_vars => TypeOK'
<1> SUFFICES ASSUME IInv, [Next]_vars PROVE TypeOK'
  OBVIOUS
<1>1. Flags /\ Numbers /\ Mailbox /\ Books /\ Control /\ CurIsOpen
  BY DEF IInv, TypeOK, Flags, Numbers, Mailbox, Books, Control
<1>2. Flags' /\ Numbers' /\ Mailbox' /\ Books' /\ Control'
  BY <1>1, FlagsStep, NumbersStep, MailboxStep, BooksStep, InboxMails, ControlStep
<1> QED
  BY <1>2 DEF TypeOK, Flags, Numbers, Mailbox, Books, Control

(* CurIsOpen: only NextMail picks a mail, after looking it up, and the row *)
(* is only written by the step that ends the mail.                         *)
LEMMA CurStep == IInv /\ [Next]_vars => CurIsOpen'
<1> USE ConstantsAssumption
<1> SUFFICES ASSUME IInv, [Next]_vars PROVE CurIsOpen'
  OBVIOUS
<1> USE DEF IInv, CurIsOpen, CurId, InProcessOne, env, db, loop, Goto, Caught,
            Aborted
<1>1. CASE ComputeSince \/ Connect \/ PollDone \/ FetchAborts \/ ConnectFails
  BY <1>1 DEF ComputeSince, Connect, PollDone, FetchAborts, ConnectFails
<1>2. CASE NextMail \/ LookupFails
  BY <1>2 DEF NextMail, LookupFails, IsHead, Skippable
<1>3. CASE Classify \/ LlmFails \/ History \/ Generate
  BY <1>3 DEF Classify, LlmFails, History, Generate
<1>4. CASE MarkIgnored \/ MarkReplied \/ MarkFails
  BY <1>4 DEF MarkIgnored, MarkReplied, MarkFails
<1>5. CASE Append \/ AppendMissingFolder \/ CreateFolder \/ AppendFails
           \/ AppendAnswerLost
  BY <1>5 DEF Append, AppendMissingFolder, CreateFolder, AppendFails,
              AppendAnswerLost
<1>6. CASE Crash \/ Restart
  BY <1>6 DEF Crash, Restart
<1>7. CASE Environment
  BY <1>7 DEF Environment, Deliver, RemoveMail, RemoveDraftsFolder, DayPasses
<1>8. CASE UNCHANGED vars
  BY <1>8 DEF vars
<1> QED
  BY <1>1, <1>2, <1>3, <1>4, <1>5, <1>6, <1>7, <1>8 DEF Next, Progress, Failure

(* The balance of drafts: only APPEND, the recording of its success and    *)
(* the interruptions between the two touch it.                             *)
LEMMA AccountStep == IInv /\ [Next]_vars => DraftsAccounted'
<1> USE ConstantsAssumption
<1> SUFFICES ASSUME IInv, [Next]_vars, NEW i \in Ids
             PROVE drafts'[i] = gaps'[i] + Recorded(i)' + Unrecorded(i)'
  BY DEF DraftsAccounted
<1>0. /\ drafts[i] = gaps[i] + Recorded(i) + Unrecorded(i)
      /\ drafts \in [Ids -> Nat] /\ gaps \in [Ids -> Nat]
      /\ processed \in [Ids -> Verdicts]
      /\ drafts[i] \in Nat /\ gaps[i] \in Nat
  BY DEF IInv, DraftsAccounted, TypeOK
<1>00. pc \in InProcessOne => CurId \in Ids /\ processed[CurId] = "open"
  BY DEF IInv, CurIsOpen
<1> USE <1>0, <1>00 DEF Recorded, Unrecorded, CurId, InProcessOne, env, db, loop,
        Goto, Caught, Aborted
<1>1. CASE ComputeSince \/ Connect \/ PollDone \/ FetchAborts \/ ConnectFails
  BY <1>1 DEF ComputeSince, Connect, PollDone, FetchAborts, ConnectFails
<1>2. CASE NextMail \/ LookupFails
  BY <1>2 DEF NextMail, LookupFails
<1>3. CASE Classify \/ LlmFails \/ History \/ Generate
  BY <1>3 DEF Classify, LlmFails, History, Generate
<1>4. CASE MarkIgnored
  BY <1>4 DEF MarkIgnored
<1>5. CASE MarkReplied
  BY <1>5 DEF MarkReplied
<1>6. CASE Append
  BY <1>6 DEF Append
<1>7. CASE AppendMissingFolder \/ CreateFolder \/ AppendFails
  BY <1>7 DEF AppendMissingFolder, CreateFolder, AppendFails
<1>8. CASE AppendAnswerLost
  BY <1>8 DEF AppendAnswerLost
<1>9. CASE MarkFails
  BY <1>9 DEF MarkFails, LostAppend
<1>10. CASE Crash
  BY <1>10 DEF Crash, LostAppend
<1>11. CASE Restart
  BY <1>11 DEF Restart
<1>12. CASE Environment
  BY <1>12 DEF Environment, Deliver, RemoveMail, RemoveDraftsFolder, DayPasses
<1>13. CASE UNCHANGED vars
  BY <1>13 DEF vars
<1> QED
  BY <1>1, <1>2, <1>3, <1>4, <1>5, <1>6, <1>7, <1>8, <1>9, <1>10, <1>11, <1>12,
     <1>13 DEF Next, Progress, Failure

(* The inductive invariant holds in every reachable state.                 *)
THEOREM Inductive == Spec => []IInv
<1>1. IInv /\ [Next]_vars => IInv'
  BY TypeStep, CurStep, AccountStep DEF IInv
<1> QED
  BY <1>1, InitIInv, PTL DEF Spec

(* Type correctness of the mail loop.                                      *)
THEOREM TypeCorrect == Spec => []TypeOK
<1>1. IInv => TypeOK
  BY DEF IInv
<1> QED
  BY <1>1, Inductive, PTL

(* Every draft the loop ever appended is either the one recorded answer of *)
(* its mail, the one not yet recorded, or the trace of an interruption     *)
(* between APPEND and mark_processed: without such interruptions no mail   *)
(* has two drafts.                                                         *)
THEOREM DraftsAreAccounted == Spec => []DraftsAccounted
<1>1. IInv => DraftsAccounted
  BY DEF IInv
<1> QED
  BY <1>1, Inductive, PTL

(* The loop implements the abstract ledger: drafts go only to mails        *)
(* without verdict, an answered mail has a draft, verdicts are final.      *)
THEOREM LoopImplementsLedger == Spec => ImplementsLedger
<1>1. Init => Ledger!Init
  BY DEF Init, Ledger!Init
<1>2. IInv /\ [Next]_vars => [Ledger!Next]_<<processed, drafts>>
  <2> SUFFICES ASSUME IInv, [Next]_vars
               PROVE  Ledger!Next \/ UNCHANGED <<processed, drafts>>
    OBVIOUS
  <2>0. pc \in InProcessOne => CurId \in Ids /\ processed[CurId] = "open"
    BY DEF IInv, CurIsOpen
  <2>1. CASE Append \/ AppendAnswerLost
    <3>1. Ledger!AddDraft(CurId)
      BY <2>0, <2>1 DEF Append, AppendAnswerLost, Ledger!AddDraft, InProcessOne, db
    <3> QED
      BY <2>0, <2>1, <3>1 DEF Ledger!Next, Append, AppendAnswerLost, InProcessOne
  <2>2. CASE MarkIgnored
    <3>1. Ledger!Ignored(CurId)
      BY <2>0, <2>2 DEF MarkIgnored, Ledger!Ignored, InProcessOne
    <3> QED
      BY <2>0, <2>2, <3>1 DEF Ledger!Next, MarkIgnored, InProcessOne
  <2>3. CASE MarkReplied
    <3>1. CurId \in Ids /\ processed[CurId] = "open"
      BY <2>0, <2>3 DEF MarkReplied, InProcessOne
    <3>2. drafts[CurId] > 0
      BY <2>3, <3>1 DEF MarkReplied, IInv, DraftsAccounted, Recorded, Unrecorded,
                        TypeOK
    <3>3. Ledger!Answered(CurId)
      BY <2>3, <3>1, <3>2 DEF MarkReplied, Ledger!Answered
    <3> QED
      BY <3>1, <3>3 DEF Ledger!Next
  <2>4. CASE ~(Append \/ AppendAnswerLost \/ MarkIgnored \/ MarkReplied)
    BY <2>4 DEF Next, Progress, Failure, Environment, vars, env, db, loop,
       ComputeSince, Connect, PollDone, NextMail, FetchAborts, Classify, LlmFails,
       History, Generate, AppendMissingFolder, CreateFolder, AppendFails, Restart,
       ConnectFails, LookupFails, MarkFails, Crash, Deliver, RemoveMail,
       RemoveDraftsFolder, DayPasses
  <2> QED
    BY <2>1, <2>2, <2>3, <2>4
<1> QED
  BY <1>1, <1>2, Inductive, PTL DEF Spec, ImplementsLedger, Ledger!Spec
=============================================================================
