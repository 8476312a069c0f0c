------------------------------ MODULE MailPoll ------------------------------
(***************************************************************************)
(* One agent's mail loop: agent/src/main.py (_compute_since, _process_one, *)
(* _poll_once) with the modules it calls: state.py (the SQLite file that   *)
(* remembers decided mails), imap_client.py (INBOX fetch, thread history,  *)
(* APPEND to Drafts), classify.py and generate.py (two LLM calls).         *)
(*                                                                         *)
(* The loop is sequential; what makes it hard is that the decision about a *)
(* mail is spread over two stores that share no transaction.  The draft is *)
(* appended on the IMAP server first and the Message-ID is written to the  *)
(* SQLite file second, and the container may be killed, the database may   *)
(* refuse, or the server's answer may be lost between the two.             *)
(*                                                                         *)
(* Mails are the UIDs 1..NumMails of the INBOX in order of arrival.  Days  *)
(* are natural numbers: the IMAP SINCE criterion has day granularity.      *)
(***************************************************************************)
EXTENDS Integers, FiniteSets

CONSTANTS
  NumMails,   \* how many mails ever arrive
  Ids,        \* Message-IDs
  NoId,       \* the mail has no usable Message-ID header
  MsgId,      \* UID -> Message-ID (two mails may carry the same one)
  Own,        \* UIDs sent by the agent's own address
  Poison,     \* UIDs for which the LLM call or the draft building always fails
  Backfill,   \* BACKFILL_DAYS
  MaxDay,     \* bound: last day of the model
  MaxFaults   \* bound: number of failures and crashes

Mails == 1..NumMails
NoMail == 0
NoDay == 0 - 1

ASSUME ConstantsAssumption ==
  /\ NumMails \in Nat
  /\ NoId \notin Ids
  /\ MsgId \in [Mails -> Ids \cup {NoId}]
  /\ Own \subseteq Mails
  /\ Poison \subseteq Mails
  /\ Backfill \in Nat
  /\ MaxDay \in Nat
  /\ MaxFaults \in Nat

VARIABLES
  (* the world *)
  today,        \* the current day
  arrived,      \* UIDs 1..arrived have been delivered
  inbox,        \* UIDs still in the INBOX
  day,          \* UID -> INTERNALDATE
  folder,       \* does the Drafts folder exist on the server?
  drafts,       \* history: Message-ID -> number of drafts ever appended
  (* state.db, survives crashes *)
  firstRun,     \* date of first_run_at minus one hour, or NoDay
  processed,    \* Message-ID -> "open" (no row), "ignored" or "reply_needed"
  (* the process *)
  pc,           \* control point of the loop
  since,        \* lower bound of the running poll
  queue,        \* UIDs the fetch generator has still to yield
  selected,     \* is the INBOX the selected folder of the connection?
  cur,          \* the mail being processed
  (* observation *)
  gaps,         \* history: Message-ID -> appends that were never recorded
  faults        \* failures so far

env == <<today, arrived, inbox, day>>
db == <<firstRun, processed>>
loop == <<pc, since, queue, selected, cur>>
vars == <<env, folder, drafts, db, loop, gaps, faults>>

Verdicts == {"open", "ignored", "reply_needed"}
Points == {"down", "idle", "connect", "next", "classify", "ignore", "history",
           "generate", "append", "create", "retry", "mark"}
InProcessOne == {"classify", "ignore", "history", "generate", "append",
                 "create", "retry", "mark"}

TypeOK ==
  /\ today \in Nat
  /\ arrived \in 0..NumMails
  /\ inbox \subseteq 1..arrived
  /\ day \in [Mails -> Nat]
  /\ folder \in BOOLEAN
  /\ drafts \in [Ids -> Nat]
  /\ firstRun \in Int
  /\ processed \in [Ids -> Verdicts]
  /\ pc \in Points
  /\ since \in Int
  /\ queue \subseteq Mails
  /\ selected \in BOOLEAN
  /\ cur \in Mails \cup {NoMail}
  /\ gaps \in [Ids -> Nat]
  /\ faults \in Nat

Init ==
  /\ today = 1
  /\ arrived = 0
  /\ inbox = {}
  /\ day = [m \in Mails |-> 0]
  /\ folder \in BOOLEAN
  /\ drafts = [i \in Ids |-> 0]
  /\ firstRun = NoDay
  /\ processed = [i \in Ids |-> "open"]
  /\ pc = "idle"
  /\ since = 0
  /\ queue = {}
  /\ selected = FALSE
  /\ cur = NoMail
  /\ gaps = [i \in Ids |-> 0]
  /\ faults = 0

-----------------------------------------------------------------------------
(* The UID the fetch generator asks for next: it goes upwards.             *)
IsHead(m) == m \in queue /\ \A n \in queue : m <= n
CurId == MsgId[cur]

Fault == faults < MaxFaults /\ faults' = faults + 1

(* An exception inside the try of _poll_once: logged, the loop goes on.    *)
Caught == pc' = "next" /\ cur' = NoMail /\ UNCHANGED <<since, queue, selected>>

(* An exception outside it: the poll is over, _run_cycle reports it.       *)
Aborted ==
  /\ pc' = "idle"
  /\ queue' = {}
  /\ selected' = FALSE
  /\ cur' = NoMail
  /\ UNCHANGED since

Goto(p) == pc' = p /\ UNCHANGED <<since, queue, selected, cur>>

-----------------------------------------------------------------------------
(* Mutant of ComputeSince: the window forgets first_run_at and only looks  *)
(* back BACKFILL_DAYS.                                                     *)
ComputeSinceSliding ==
  /\ pc = "idle"
  /\ IF firstRun = NoDay THEN firstRun' = today ELSE UNCHANGED firstRun
  /\ since' = today - Backfill
  /\ pc' = "connect"
  /\ UNCHANGED <<env, folder, drafts, processed, queue, selected, cur, gaps, faults>>

(* _compute_since: the first poll writes first_run_at.  One hour before it *)
(* is the same or the previous calendar day.                               *)
ComputeSince ==
  /\ pc = "idle"
  /\ IF firstRun = NoDay THEN firstRun' \in {today - 1, today}
                         ELSE UNCHANGED firstRun
  /\ since' = IF firstRun' < today - Backfill THEN firstRun' ELSE today - Backfill
  /\ pc' = "connect"
  /\ UNCHANGED <<env, folder, drafts, processed, queue, selected, cur, gaps, faults>>

(* Login, SELECT INBOX and UID SEARCH SINCE: the UIDs are fixed here, the  *)
(* mails themselves are fetched one by one while the loop runs.            *)
Connect ==
  /\ pc = "connect"
  /\ queue' = {m \in inbox : day[m] >= since}
  /\ selected' = TRUE
  /\ pc' = "next"
  /\ UNCHANGED <<env, folder, drafts, db, since, cur, gaps, faults>>

ConnectFails ==
  /\ pc = "connect"
  /\ Fault
  /\ Aborted
  /\ UNCHANGED <<env, folder, drafts, db, gaps>>

PollDone ==
  /\ pc = "next"
  /\ queue = {}
  /\ Aborted
  /\ UNCHANGED <<env, folder, drafts, db, gaps, faults>>

(* Mutant of Skippable: the is_processed check is gone.                    *)
SkippableNoLookup(m) == m \notin inbox \/ m \in Own \/ MsgId[m] = NoId

(* The generator yields nothing for a mail that was removed meanwhile and  *)
(* for one from the own address; _process_one returns early without a      *)
(* Message-ID and for one that is already in the database.                 *)
Skippable(m) ==
  \/ m \notin inbox
  \/ m \in Own
  \/ MsgId[m] = NoId
  \/ processed[MsgId[m]] # "open"

NextMail ==
  /\ pc = "next"
  /\ selected
  /\ \E m \in Mails :
       /\ IsHead(m)
       /\ queue' = queue \ {m}
       /\ IF Skippable(m) THEN UNCHANGED <<pc, cur>>
                          ELSE pc' = "classify" /\ cur' = m
  /\ UNCHANGED <<env, folder, drafts, db, since, selected, gaps, faults>>

(* FETCH fails: the connection is lost, or an earlier history lookup left  *)
(* no folder selected.  The generator raises outside the per-mail try.     *)
FetchAborts ==
  /\ pc = "next"
  /\ queue # {}
  /\ \/ selected /\ Fault
     \/ ~selected /\ UNCHANGED faults
  /\ Aborted
  /\ UNCHANGED <<env, folder, drafts, db, gaps>>

(* is_processed itself fails (database locked): this mail is skipped.      *)
LookupFails ==
  /\ pc = "next"
  /\ selected
  /\ Fault
  /\ \E m \in Mails :
       /\ IsHead(m)
       /\ m \in inbox \ Own
       /\ MsgId[m] # NoId
       /\ queue' = queue \ {m}
  /\ UNCHANGED <<env, folder, drafts, db, pc, since, selected, cur, gaps>>

Classify ==
  /\ pc = "classify"
  /\ cur \notin Poison
  /\ Goto("ignore") \/ Goto("history")
  /\ UNCHANGED <<env, folder, drafts, db, gaps, faults>>

(* classify_email, generate_draft_text or build_reply_draft raises.        *)
LlmFails ==
  /\ pc \in {"classify", "generate"}
  /\ \/ cur \in Poison /\ UNCHANGED faults
     \/ cur \notin Poison /\ Fault
  /\ Caught
  /\ UNCHANGED <<env, folder, drafts, db, gaps>>

(* Mutant of MarkIgnored: the LLM's label is stored instead of "ignored".  *)
MarkIgnoredRawLabel ==
  /\ pc = "ignore"
  /\ processed' = [processed EXCEPT ![CurId] = "IGNORE"]
  /\ Caught
  /\ UNCHANGED <<env, folder, drafts, firstRun, gaps, faults>>

MarkIgnored ==
  /\ pc = "ignore"
  /\ processed' = [processed EXCEPT ![CurId] = "ignored"]
  /\ Caught
  /\ UNCHANGED <<env, folder, drafts, firstRun, gaps, faults>>

(* fetch_thread_history / fetch_sender_history swallow every error; only   *)
(* the final SELECT INBOX matters to the outer generator.                  *)
History ==
  /\ pc = "history"
  /\ \/ UNCHANGED <<selected, faults>>
     \/ selected' = FALSE /\ Fault
  /\ pc' = "generate"
  /\ UNCHANGED <<env, folder, drafts, db, since, queue, cur, gaps>>

Generate ==
  /\ pc = "generate"
  /\ cur \notin Poison
  /\ Goto("append")
  /\ UNCHANGED <<env, folder, drafts, db, gaps, faults>>

(* append_to_drafts, first attempt and the retry after CREATE.             *)
Append ==
  /\ pc \in {"append", "retry"}
  /\ folder
  /\ drafts' = [drafts EXCEPT ![CurId] = @ + 1]
  /\ Goto("mark")
  /\ UNCHANGED <<env, folder, db, gaps, faults>>

(* Mutant of AppendMissingFolder: the missing folder is swallowed and the  *)
(* mail is marked as answered.                                             *)
AppendMissingFolderSwallowed ==
  /\ pc = "append"
  /\ ~folder
  /\ Goto("mark")
  /\ UNCHANGED <<env, folder, drafts, db, gaps, faults>>

AppendMissingFolder ==
  /\ pc = "append"
  /\ ~folder
  /\ Goto("create")
  /\ UNCHANGED <<env, folder, drafts, db, gaps, faults>>

CreateFolder ==
  /\ pc = "create"
  /\ folder' = TRUE
  /\ Goto("retry")
  /\ UNCHANGED <<env, drafts, db, gaps, faults>>

(* Quota, a failing CREATE, a folder removed again before the retry.       *)
AppendFails ==
  /\ pc \in {"append", "create", "retry"}
  /\ \/ Fault
     \/ pc = "retry" /\ ~folder /\ UNCHANGED faults
  /\ Caught
  /\ UNCHANGED <<env, folder, drafts, db, gaps>>

(* The server stored the draft but its answer did not arrive (timeout).    *)
AppendAnswerLost ==
  /\ pc \in {"append", "retry"}
  /\ folder
  /\ Fault
  /\ drafts' = [drafts EXCEPT ![CurId] = @ + 1]
  /\ gaps' = [gaps EXCEPT ![CurId] = @ + 1]
  /\ Caught
  /\ UNCHANGED <<env, folder, db>>

MarkReplied ==
  /\ pc = "mark"
  /\ processed' = [processed EXCEPT ![CurId] = "reply_needed"]
  /\ Caught
  /\ UNCHANGED <<env, folder, drafts, firstRun, gaps, faults>>

LostAppend == IF pc = "mark" THEN [gaps EXCEPT ![CurId] = @ + 1] ELSE gaps

(* mark_processed raises (disk full, database locked).                     *)
MarkFails ==
  /\ pc \in {"ignore", "mark"}
  /\ Fault
  /\ gaps' = LostAppend
  /\ Caught
  /\ UNCHANGED <<env, folder, drafts, db>>

(* The container is killed (docker stop after its grace period, OOM, host  *)
(* reboot) and comes up again under restart: unless-stopped.               *)
Crash ==
  /\ pc # "down"
  /\ Fault
  /\ gaps' = LostAppend
  /\ pc' = "down"
  /\ queue' = {}
  /\ selected' = FALSE
  /\ cur' = NoMail
  /\ UNCHANGED <<env, folder, drafts, db, since>>

Restart ==
  /\ pc = "down"
  /\ Goto("idle")
  /\ UNCHANGED <<env, folder, drafts, db, gaps, faults>>

-----------------------------------------------------------------------------
(* The mail server and its user.                                           *)
Deliver ==
  /\ arrived < NumMails
  /\ arrived' = arrived + 1
  /\ inbox' = inbox \cup {arrived'}
  /\ day' = [day EXCEPT ![arrived'] = today]
  /\ UNCHANGED <<today, folder, drafts, db, loop, gaps, faults>>

RemoveMail ==
  /\ \E m \in inbox : inbox' = inbox \ {m}
  /\ UNCHANGED <<today, arrived, day, folder, drafts, db, loop, gaps, faults>>

RemoveDraftsFolder ==
  /\ folder
  /\ Fault
  /\ folder' = FALSE
  /\ UNCHANGED <<env, drafts, db, loop, gaps>>

DayPasses ==
  /\ today < MaxDay
  /\ today' = today + 1
  /\ UNCHANGED <<arrived, inbox, day, folder, drafts, db, loop, gaps, faults>>

(* What the process does by itself when nothing fails.  FetchAborts and    *)
(* LlmFails belong here too where no fault is involved: they are the       *)
(* code's only step in those states.                                       *)
Progress ==
  \/ ComputeSince \/ Connect \/ PollDone \/ NextMail \/ FetchAborts
  \/ Classify \/ LlmFails \/ MarkIgnored \/ History \/ Generate
  \/ Append \/ AppendMissingFolder \/ CreateFolder \/ AppendFails \/ MarkReplied
  \/ Restart

Failure ==
  ConnectFails \/ LookupFails \/ AppendAnswerLost \/ MarkFails \/ Crash

Environment == Deliver \/ RemoveMail \/ RemoveDraftsFolder \/ DayPasses

Next == Progress \/ Failure \/ Environment

Spec == Init /\ [][Next]_vars

(* The process is scheduled by the operating system and restarted by       *)
(* Docker; nothing is assumed of the mail server's user or of failures,    *)
(* which are bounded by MaxFaults.                                         *)
FairSpec == Spec /\ WF_vars(Progress)

-----------------------------------------------------------------------------
(***************************************************************************)
(* Properties                                                              *)
(***************************************************************************)

(* Every draft on the server is accounted for: a mail has one draft for    *)
(* its "reply_needed" row, one while the loop stands between APPEND and    *)
(* mark_processed, and one for each earlier time the loop was interrupted  *)
(* exactly there (killed, database error, answer lost).  So a mail has at  *)
(* most one draft unless such an interruption happened, and a mail noted   *)
(* as answered really has its draft.  (_poll_once appends before it marks; *)
(* .planning/PROJECT.md says the database prevents double drafts: this is  *)
(* how far it does.)                                                       *)
Recorded(i) == IF processed[i] = "reply_needed" THEN 1 ELSE 0
Unrecorded(i) == IF pc = "mark" /\ CurId = i THEN 1 ELSE 0
DraftsAccounted ==
  \A i \in Ids : drafts[i] = gaps[i] + Recorded(i) + Unrecorded(i)

(* The mail being processed has a Message-ID and no row yet: the check at  *)
(* the top of _process_one still holds when its draft is appended, however *)
(* many mails with the same Message-ID the poll has gone through.          *)
CurIsOpen ==
  pc \in InProcessOne =>
    /\ cur \in Mails
    /\ CurId \in Ids
    /\ processed[CurId] = "open"

(* The abstract ledger of module MailLedger: drafts are added only to a    *)
(* mail without verdict, "reply_needed" is only written once a draft       *)
(* exists, and a verdict is final.  processed and drafts implement it.     *)
Ledger == INSTANCE MailLedger WITH verdict <- processed, drafts <- drafts
ImplementsLedger == Ledger!Spec

(* No mail is lost: one that arrived on or after the day the agent first   *)
(* ran and stays in the INBOX gets a verdict, however long the agent was   *)
(* down, whatever failed on the way, and although an older mail may fail   *)
(* on every attempt.                                                       *)
Answerable(m) ==
  /\ m \in inbox \ (Own \cup Poison)
  /\ MsgId[m] # NoId
  /\ firstRun # NoDay
  /\ day[m] >= firstRun
Decided(m) == MsgId[m] # NoId /\ processed[MsgId[m]] # "open"
EveryMailDecided == \A m \in Mails : Answerable(m) ~> (Decided(m) \/ m \notin inbox)
=============================================================================
