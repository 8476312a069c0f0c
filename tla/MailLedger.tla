----------------------------- MODULE MailLedger -----------------------------
(***************************************************************************)
(* What the agent promises about the mails of one mailbox, whatever        *)
(* happens to its process: each Message-ID has a verdict that is given at  *)
(* most once, and a draft is only ever added to a mail that has none yet.  *)
(* module MailPoll implements this; the verdict is the row in state.db     *)
(* (agent/src/state.py) and the drafts are on the IMAP server, so a draft  *)
(* and its verdict cannot appear in one step: AddDraft may be repeated     *)
(* until Answered records one of them.                                     *)
(***************************************************************************)
EXTENDS Naturals

CONSTANTS Ids
VARIABLES verdict, drafts

Init ==
  /\ verdict = [i \in Ids |-> "open"]
  /\ drafts = [i \in Ids |-> 0]

(* The answer is on the server, not yet in the database.                   *)
AddDraft(i) ==
  /\ verdict[i] = "open"
  /\ drafts' = [drafts EXCEPT ![i] = @ + 1]
  /\ UNCHANGED verdict

(* No answer is needed.                                                    *)
Ignored(i) ==
  /\ verdict[i] = "open"
  /\ verdict' = [verdict EXCEPT ![i] = "ignored"]
  /\ UNCHANGED drafts

(* An answer exists and is recorded.                                       *)
Answered(i) ==
  /\ verdict[i] = "open"
  /\ drafts[i] > 0
  /\ verdict' = [verdict EXCEPT ![i] = "reply_needed"]
  /\ UNCHANGED drafts

Next == \E i \in Ids : AddDraft(i) \/ Ignored(i) \/ Answered(i)

Spec == Init /\ [][Next]_<<verdict, drafts>>
=============================================================================
