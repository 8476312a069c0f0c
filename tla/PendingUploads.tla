--------------------------- MODULE PendingUploads ---------------------------
(***************************************************************************)
(* Attachments of one chat page: static/chat.js uploads a file and          *)
(* remembers its metadata, main.chat_upload writes it to a temporary file   *)
(* and chat_tools keeps one reference per chat session, which the tool      *)
(* entwurf_mit_anhang consumes when the model calls it.  The page's reset   *)
(* begins a new session.  Uploads are not serialised with each other, with  *)
(* a running answer or with a reset, and an answer goes on in the server    *)
(* when the page has already lost it.                                       *)
(*                                                                         *)
(* The page, the store and the temporary files are three memories of what   *)
(* "the attachment" is; a file is named by its number, and so is a session. *)
(***************************************************************************)
EXTENDS Integers, FiniteSets

CONSTANTS
  Files,      \* bound: the files the operator chooses, a set of numbers
  Turns,      \* bound: answers the server works on at a time
  NoFile,
  UploadTtl,  \* _PENDING_UPLOAD_TTL_SECONDS
  MaxSends,   \* bound: messages sent
  MaxResets   \* bound: new sessions of the page

ASSUME UploadAssumption ==
  /\ Files \subseteq Nat /\ IsFiniteSet(Files) /\ NoFile \notin Files
  /\ UploadTtl \in Nat /\ MaxResets \in Nat

VARIABLES
  session,     \* sessionId of the page
  sess,        \* Files -> the session its upload was begun in
  job,         \* Files -> "new", "writing", "registered", "done"
  tmp,         \* the temporary files that exist
  pending,     \* _pending_uploads, session -> file, time; or NoFile
  attachment,  \* pendingAttachment of the page
  sending,     \* the page's fetch: the turn it waits for, or "no"
  turn,        \* Turns -> what the server does for it
  drafts,      \* the drafts with an attachment, as records
  order,       \* history: the files in the order of their registration
  lost,        \* history: files whose reference was dropped
  sends        \* history: how many messages were sent

uploadVars == <<session, sess, job, tmp, pending, attachment, sending, turn, drafts,
                order, lost, sends>>

Sessions == 0..MaxResets

NoTurn == [pc |-> "free", sess |-> 0, told |-> NoFile, file |-> NoFile]

NoEntry == [file |-> NoFile, at |-> 0]

UploadInit ==
  /\ session = 0 /\ sess = [f \in Files |-> 0]
  /\ job = [f \in Files |-> "new"]
  /\ tmp = {} /\ pending = [s \in Sessions |-> NoEntry] /\ attachment = NoFile
  /\ sending = "no" /\ turn = [t \in Turns |-> NoTurn]
  /\ drafts = {} /\ order = [f \in Files |-> 0] /\ lost = {} /\ sends = 0

-----------------------------------------------------------------------------
(* The operator chooses a file; the request carries the session of this moment,
   and chat_upload creates the temporary file. *)
Choose(f) ==
  /\ job[f] = "new"
  /\ sess' = [sess EXCEPT ![f] = session]
  /\ job' = [job EXCEPT ![f] = "writing"]
  /\ tmp' = tmp \cup {f}
  /\ UNCHANGED <<session, pending, attachment, sending, turn, drafts, order, lost, sends>>

(* Too large, or the body breaks off: 413 or 400, the file is removed. *)
UploadFails(f) ==
  /\ job[f] = "writing"
  /\ job' = [job EXCEPT ![f] = "done"]
  /\ tmp' = tmp \ {f}
  /\ UNCHANGED <<session, sess, pending, attachment, sending, turn, drafts, order, lost,
                 sends>>

(* Mutant: an existing reference is kept. *)
RegisterFirst(f, now) ==
  /\ job[f] = "writing"
  /\ job' = [job EXCEPT ![f] = "registered"]
  /\ pending' = IF pending[sess[f]].file # NoFile THEN pending
                ELSE [pending EXCEPT ![sess[f]] = [file |-> f, at |-> now]]
  /\ order' = [order EXCEPT ![f] = 1 + Cardinality({g \in Files : order[g] > 0})]
  /\ lost' = lost \cup ({pending[sess[f]].file} \ {NoFile})
  /\ UNCHANGED <<session, sess, tmp, attachment, sending, turn, drafts, sends>>

(* register_pending_upload: the entry of the session is overwritten. *)
Register(f, now) ==
  /\ job[f] = "writing"
  /\ job' = [job EXCEPT ![f] = "registered"]
  /\ pending' = [pending EXCEPT ![sess[f]] = [file |-> f, at |-> now]]
  /\ order' = [order EXCEPT ![f] = 1 + Cardinality({g \in Files : order[g] > 0})]
  /\ lost' = lost \cup ({pending[sess[f]].file} \ {NoFile})
  /\ UNCHANGED <<session, sess, tmp, attachment, sending, turn, drafts, sends>>

(* The answer of the upload reaches the page, or does not; the page takes it
   for its attachment in whichever session it is by now. *)
UploadAnswered(f) ==
  /\ job[f] = "registered"
  /\ job' = [job EXCEPT ![f] = "done"]
  /\ attachment' \in {attachment, f}
  /\ UNCHANGED <<session, sess, tmp, pending, sending, turn, drafts, order, lost, sends>>

-----------------------------------------------------------------------------
(* resetHistory: a new session, without an attachment; what the page has under
   way goes on. *)
ResetHistory ==
  /\ session < MaxResets
  /\ session' = session + 1
  /\ attachment' = NoFile
  /\ UNCHANGED <<sess, job, tmp, pending, sending, turn, drafts, order, lost, sends>>

(* sendMessage: the session and the metadata the page holds travel with the
   message. *)
Send(t) ==
  /\ sending = "no" /\ turn[t].pc = "free" /\ sends < MaxSends
  /\ sends' = sends + 1
  /\ sending' = t
  /\ turn' = [turn EXCEPT ![t] =
                [pc |-> "posted", sess |-> session, told |-> attachment, file |-> NoFile]]
  /\ UNCHANGED <<session, sess, job, tmp, pending, attachment, drafts, order, lost>>

(* A status other than 200 (no password, limit, configuration): nothing has run. *)
SendRefused(t) ==
  /\ sending = t /\ turn[t].pc = "posted"
  /\ sending' = "no"
  /\ turn' = [turn EXCEPT ![t] = NoTurn]
  /\ UNCHANGED <<session, sess, job, tmp, pending, attachment, drafts, order, lost, sends>>

(* chat_send returns the streaming response and the generator starts. *)
TurnStarts(t) ==
  /\ turn[t].pc = "posted"
  /\ turn' = [turn EXCEPT ![t].pc = "model"]
  /\ UNCHANGED <<session, sess, job, tmp, pending, attachment, sending, drafts, order,
                 lost, sends>>

(* The response begins: the page forgets its attachment, whichever it is by
   now.  The answer may still be read for a while: "reading". *)
SendAccepted(t) ==
  /\ sending = t /\ turn[t].pc # "posted"
  /\ sending' = "reading"
  /\ attachment' = IF turn[t].told # NoFile THEN NoFile ELSE attachment
  /\ UNCHANGED <<session, sess, job, tmp, pending, turn, drafts, order, lost, sends>>

(* The page is through with the answer, or has lost the connection. *)
PageReady ==
  /\ sending # "no"
  /\ sending' = "no"
  /\ UNCHANGED <<session, sess, job, tmp, pending, attachment, turn, drafts, order, lost,
                 sends>>

-----------------------------------------------------------------------------
(* Mutant: the entry stays in the store. *)
ConsumeKeeps(t, now) ==
  LET s == turn[t].sess
      entry == pending[s]
  IN  /\ turn[t].pc = "model" /\ entry.file # NoFile
      /\ UNCHANGED pending
      /\ IF now - entry.at > UploadTtl
         THEN lost' = lost \cup {entry.file} /\ UNCHANGED turn
         ELSE /\ turn' = [turn EXCEPT ![t].pc = "draft", ![t].file = entry.file]
              /\ UNCHANGED lost
      /\ UNCHANGED <<session, sess, job, tmp, attachment, sending, drafts, order, sends>>

(* entwurf_mit_anhang with a text: _consume_pending_upload pops the entry of the
   answer's session; an expired one is dropped and its file stays. *)
Consume(t, now) ==
  LET s == turn[t].sess
      entry == pending[s]
  IN  /\ turn[t].pc = "model" /\ entry.file # NoFile
      /\ pending' = [pending EXCEPT ![s] = NoEntry]
      /\ IF now - entry.at > UploadTtl
         THEN lost' = lost \cup {entry.file} /\ UNCHANGED turn
         ELSE /\ turn' = [turn EXCEPT ![t].pc = "draft", ![t].file = entry.file]
              /\ UNCHANGED lost
      /\ UNCHANGED <<session, sess, job, tmp, attachment, sending, drafts, order, sends>>

(* The size check, the reading of the file, the mailbox and the APPEND, whose
   answer may be lost; the file is removed in each case. *)
Draft(t) ==
  /\ turn[t].pc = "draft"
  /\ \/ /\ turn[t].file \in tmp
        /\ drafts' = drafts \cup {[file |-> turn[t].file, told |-> turn[t].told,
                                    sess |-> turn[t].sess]}
     \/ UNCHANGED drafts
  /\ tmp' = tmp \ {turn[t].file}
  /\ turn' = [turn EXCEPT ![t].pc = "model", ![t].file = NoFile]
  /\ UNCHANGED <<session, sess, job, pending, attachment, sending, order, lost, sends>>

(* The model's answer is complete. *)
TurnEnds(t) ==
  /\ turn[t].pc = "model" /\ sending # t
  /\ turn' = [turn EXCEPT ![t] = NoTurn]
  /\ UNCHANGED <<session, sess, job, tmp, pending, attachment, sending, drafts, order,
                 lost, sends>>

(* A restart: the store and the work in progress are gone, the files are not. *)
UploadRestart ==
  /\ pending' = [s \in Sessions |-> NoEntry]
  /\ turn' = [t \in Turns |-> NoTurn]
  /\ sending' = "no"
  /\ job' = [f \in Files |-> IF job[f] = "new" THEN "new" ELSE "done"]
  /\ lost' = lost \cup tmp
  /\ UNCHANGED <<session, sess, tmp, attachment, drafts, order, sends>>

UploadNext(now) ==
  \/ \E f \in Files :
       Choose(f) \/ UploadFails(f) \/ Register(f, now) \/ UploadAnswered(f)
  \/ \E t \in Turns :
       \/ Send(t) \/ SendRefused(t) \/ TurnStarts(t) \/ SendAccepted(t)
       \/ Consume(t, now) \/ Draft(t) \/ TurnEnds(t)
  \/ ResetHistory \/ PageReady

-----------------------------------------------------------------------------
(* Safety: a temporary file is being written, referenced by the session, in
   the hands of one answer, or one whose reference was overwritten, expired or
   lost in a restart; a file reaches at most one draft.  So nothing else leaks
   and nothing is attached twice, however uploads and answers interleave:
   main.py:1163-1195, chat_tools.py:1529-1560, 1405-1408. *)
UploadsAccounted ==
  /\ \A f \in tmp :
       \/ job[f] = "writing"
       \/ \E s \in Sessions : pending[s].file = f
       \/ \E t \in Turns : turn[t].file = f
       \/ f \in lost
  /\ \A t, u \in Turns : turn[t].file # NoFile /\ turn[t].file = turn[u].file => t = u
  /\ \A d, e \in drafts : d.file = e.file => d = e
  /\ \A d \in drafts : d.file \notin tmp

(* Safety: the file in a draft was uploaded in the session the answer belongs
   to, and unless the page told the model of a file of another session, it is
   that file or one the operator uploaded after it, never an older one:
   chat_tools.py:1529-1560 with chat.js:53-85 and 129-134. *)
NeverAnOlderFile ==
  \A d \in drafts :
    /\ sess[d.file] = d.sess
    /\ d.told # NoFile /\ sess[d.told] = d.sess => order[d.file] >= order[d.told]

(* Refuted: what a message tells of is never stale, as chat.js:215-220 has it
   ("ein zweiter Send darf nie veraltete Metadaten ... mitschicken"), read with
   the reset: the answer of an upload begun before resetHistory becomes the
   attachment of the new session, which holds another file. *)
ToldIsOfThisSession ==
  \A d \in drafts : d.told # NoFile => order[d.file] >= order[d.told]
=============================================================================
