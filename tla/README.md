# Vizpatch in TLA+

Vizpatch is an e-mail agent: a background process polls IMAP mailboxes, asks a
language model whether a mail needs an answer and puts a draft answer into the
Drafts folder; a web interface configures it and offers a chat whose tools
search, edit and move mails. This directory models the parts of it that are
concurrent, that can fail half way, or whose order of steps matters.

Paths below are relative to `src/`.

## 1. Inventory

Processes. The *agent* container (`agent/src`, uid 1000, `/config` read-only)
is one single-threaded Python process that serves all agents in turn. The
*WebUI* container (`webui/src`, root) is one FastAPI process whose handlers run
in a thread pool. They share two directories and nothing else: `/config`
(settings, one directory per agent, the Fernet key) and `/data` (per agent
`state.db` and `agent_status.json`). Both are restarted by Docker
(`restart: unless-stopped`) and may be killed at any moment: SIGTERM is only
looked at between two agents and while sleeping, and `docker stop` kills after
its grace period.

| Component | State | Operations | What is hard | What makes it correct |
|---|---|---|---|---|
| Mail loop (`main._poll_once`, `state`, `imap_client`, `classify`, `generate`, `draft`) | `state.db` (verdict per Message-ID, first run), drafts on the server | fetch, classify, history, generate, append, record | two stores without a common transaction; kill, lost answer, full disk between them; one generator shares its connection with history lookups | drafts accounted for, verdicts final, no mail forgotten |
| Agent cycle (`main`, `config`, `provider_config`, `status_writer`) | process memory (provider table, folder cache), status files | wait, discover, load, resolve folder, poll, report | state shared between agents; files rewritten underneath | isolation, true status, settings take effect, shutdown obeyed |
| Trash moves (`chat_tools._move_to_trash`, callers) | the mailbox | move, verify, clean up, edit a draft | servers that half-execute, other clients, no transaction | nothing lost, no silent success, only the target erased |
| Confirmation (`chat_tools`, `static/chat.js`) | authorized sessions in memory, conversation in the browser, tokens (stateless) | ask, confirm, move | an untrusted caller (the model), overlapping requests, expiry, restart | no move before a user turn |
| Agent files (`agents_io`) | `/config/agents/*`, `/data/agents/*` | save, create, rename, delete | unlocked read-modify-write in a thread pool; a second process reads and writes meanwhile | no lost update, no resurrected agent, readers see whole files |
| Root settings (`config_io`, `main` /setup, /password, /settings, /reset) | `/config/.env` | four writers | the same read-modify-write; an emptied file reads as "no password" | an acknowledged change stays |
| Settings page (`main.save`, `/style/relearn`, `validate_conn`, `style_extract`) | an agent's `.env`, `context.md`, `style.md` | check, probe, write, learn | half a minute of network calls between reading the `.env` and merging into it | what is stored was tried; the operator's own address stays |
| Secret key (`crypto`, twice) | `/config/.secret_key` | load or create | check-then-write in two processes | what was encrypted can be decrypted |
| Migration (`migration`) | root layout, agent layout | one run at start | crash between two steps | settings and state arrive, once |
| Pseudonymisation (`pii`, `chat.deanonymize_stream`) | the tag table of a request | tag, untag, untag a stream | nested values, tags torn across chunks | untag inverts tag, no torn tag leaves |
| Login (`auth`) | failures, lockouts, sessions | login, lockout, logout | check, verification and count are three critical sections; the add-in's route verifies the same password beside them | the limits of attempts hold |
| Chat transport (`main._sse_data_frame`, `chat.js`, `SseLineParser.cs`, `ChatClient.cs`) | a stream, the client's history | frame, parse, keep | chunk borders of the provider and of the network, line breaks, broken streams | the history holds whole answers |
| Attachments (`register_pending_upload`, `entwurf_mit_anhang`, `chat.js`) | the page's attachment, the pending reference, temporary files | upload, send, consume | three memories of "the attachment"; overwritten and expired references, answers that go on when the page has given up, uploads that outlive a reset of the page | used once, accounted for, never an older one |
| Status display, Docker control, LLM adapters, add-in forms, scripts | - | reads and calls of services | - | - |

`PROJECT.json` lists these parts with their modelling status and every hazard at
its line.

## 2. Modules

### MailPoll, MailLedger (the mail loop)

`MailLedger` is the promise: a Message-ID gets a verdict at most once, a draft
is only added to a mail without verdict, and the verdict "reply_needed" only to
a mail with a draft. `MailPoll` is the code: one action per effect of
`_poll_once` and `_process_one`, with a program counter.

| State | In the code |
|---|---|
| `firstRun`, `processed` | tables `meta` and `processed_emails` of `state.db` |
| `drafts`, `folder` | the Drafts folder on the IMAP server (`drafts` counts appends, also of drafts the user removes later) |
| `pc`, `since`, `queue`, `selected`, `cur` | the position in the loop, the UIDs the fetch generator has still to ask for, whether the INBOX is selected on its connection |
| `gaps` | history: how often the loop was interrupted after an append and before its record |

A mail is a UID; `MsgId` gives its Message-ID, so that two mails may have the
same one. The label of the language model, the bodies and the drafts' content
are nondeterministic or left out. Every call that may raise has an action for
it: inside the per-mail `try` the loop goes on (`Caught`), outside the poll is
over (`Aborted`). `Crash` may happen at every point.

### AgentCycle (the process over all agents)

One action per iteration step of `_wait_for_agents` and `_run_cycle`; a poll of
an agent is a single step that succeeds or fails. The configuration file is
abstracted to its condition (loadable, incomplete, undecryptable, malformed,
agent absent), which of them the agents start from is the constant `Initial`,
the enabled flag, the explicit folder and the account; its mtime
is a counter. `table` is `STATIC_PROVIDERS` as it is in the process's memory,
`cache` is `_drafts_cache`, `status` the status files. The WebUI's saves and
deletes are environment actions and single steps.

Two functions swallow their failures, and the model has both outcomes.
`detect_drafts_folder` catches a LIST that fails and returns nothing, which
`_resolve_drafts_folder` takes for a server without a flagged folder: `ListFails`
caches the fallback, and the entry remembers it (`refused`). `write_status` only
logs a write that fails: `WriteStatus` then leaves the old file or a truncated
one, which the WebUI reads as no status, and takes the agent out of `written`, the
agents whose latest write took effect. `losses` counts these failures beside
`faults`, under the one bound `MaxFaults`.

### TrashMove (moving one mail to the trash)

One tool call against one mailbox. A server is a record of what it can do
(MOVE, UIDPLUS, a trash folder) and of what it leaves in the source folder
after a move: nothing, the same message, a copy with a new uid, or everything
(MOVE answered OK without effect) - the behaviours the comments of
`_move_to_trash` name. `MailBox.move` of imap-tools is modelled from its use:
MOVE, or COPY, STORE, EXPUNGE; its `flag()`, which the clean-up calls, is a STORE
and then an EXPUNGE of the whole folder, so that each uid of the clean-up takes
three commands (`EraseStore`, `EraseSweep`, `EraseTargeted`). Other clients of the
mailbox move, mark, expunge and empty the trash between any two commands, any
command may raise.

### ConfirmGate (when a chat may move)

Requests of several sessions in any overlap. The language model may call the
tools with any target and any token it knows: those in the conversation text
and those its own tool calls returned. What the browser keeps of an answer is
its text; the constant `Quotes` says whether the model may have quoted tokens
in it. Time runs in windows of 600 s.

### AgentFiles (the files of the agents)

Requests `1..N` in threads of the WebUI, each creating, saving, enabling,
renaming, deleting or resetting, one action per file operation; `at[t]` holds the
thread's local variables, among them the lines it has read and the file it has
open (`open` follows a file whose directory is renamed, as a descriptor does). An
`.env` is a function from the fields it holds to their values; `Put`, `Over` and
`Without` are what `write_env` does to its list of lines.
`dirs` and `env` are the directories and `.env` files of `/config/agents`, `data`
the data directories, `key` the Fernet key. The agent process is the loop of
`_run_cycle` with the steps that touch these files; its mail loop is reduced to
"draft, then record" of one mail per mailbox. Values are named by the request
that sent them, so that a property can tell whose value is where.

The history variables say who met whom: `alone[t]` that no other request was
under way on an agent of `t`, `quiet[t]` that the agent process had none of them
in hand. What a request has in hand (`Touched`) includes the file it has open: with
three requests, one may rename an agent and be done while a second holds the `.env`
open that now lies under the new id, and a third that edits the new id meets the
second there. They are conditions of the properties because the code has no lock:
without them TLC finds a lost update, a password under a replaced key and a
second draft after a rename.

### Migration (the start of the WebUI)

One action per effect of `docker-entrypoint.sh` and `migrate()`; the write of the
root `.env` is two, because `write_text` empties the file first. `old` is the
layout found at the very first start, so that the properties can say what must
still be there. The lines of an `.env` are the three groups `migrate()` tells
apart. `Crash` may happen at every step and stands for a kill, a power cut and
an exception (`set -e` ends the container); `torn` remembers one after the
directory was made, when the next start takes the migration for done. The agent
process is two actions that may come at any time: `Refuse` (it cannot load the
configuration and writes a status file, whose directory it makes) and `Poll` (it
can, and creates a record of its own if there is none).

### TagStream, ChatStream (an answer on its way to the operator)

`TagStream` is `deanonymize_stream` alone: an answer is a sequence of
characters, a chunk may end at each of them, and the buffer of the code is
`sent+1 .. read`. It knows brackets and lengths and nothing else. `ChatStream`
extends it to the whole way: `Anonymizer` with the patterns for addresses and
links, the pieces with the originals put back, the SSE frames of
`_sse_data_frame`, a network that cuts the bytes anywhere, the parsers of `chat.js`
and of the Outlook add-in, and what the client keeps as history. A word, an
address, a field name and the inside of a placeholder count as one character each,
so a placeholder is three long and `Threshold` is 3 in the run where the code has
20. The tool loop delivers a text block as one piece, the fallback streams; both
may fail, and the connection may break at any byte.

`wire` holds the bytes the client has not received, `page` what it has received and
not read (`buf`), the state of its parser (`event`, `filled`, `data`) and the text
on the screen (`shown`, `failed`). `Arrive` moves some bytes, `ReadLine` feeds one
line to the parser: the add-in reads on at a complete line, the browser at a
complete block (`Readable`). `Bytes` is the response of a sequence of events,
`DataFrame` and `Encoded` are `_sse_data_frame`, which continues a line break with
another data line.

The pass over the text is `Pass`: it numbers the distinct originals of one
pattern and replaces them left to right; `Anonymize` runs EMAIL before URL on the
already tagged text, which is where nested placeholders come from. `Put` is one
`replace(tag, original)`, `Deanonymize` all of them, the longest placeholders first,
as the code sorts them (`LongestFirst`). The agent's
`pii.py` is byte-identical to the WebUI's.

### WebLogin, PendingUploads, WebUI (the memory of the WebUI process)

`WebLogin` has the lockout, the sessions and the root `.env` with its four
writers. A request is a thread with a program counter: the lockout check, the
verification and the record of a failure are three steps, and a write of the file
is read, truncate, write. `env.torn` is the emptied file, which reads as "no
password", so that `/setup` is open while another request writes. Wrong guesses are
numbered in the order of their verification: `wrong` gives each its moment, and
`failures` is `_login_failures` with the number of the guess each entry stands for.
`VerifyAddin` is `/addin/verify-password`, which needs no session and knows no
lockout; `addin` is the window of its limiter, which opens with a call, and `asked`
gives each wrong guess there its moment. The limiter's count and the verification
are one step. `/password` and `/reset` verify the password, too, need a session, and
answer a wrong one without counting it.

`PendingUploads` has the three memories of an attachment: the page's
(`attachment`), the process's (`pending`) and the disk's (`tmp`). Uploads run
beside answers, an answer goes on when the page has given up waiting, and the
tool consumes whatever reference is there when the model calls it. The store has
one entry per chat session: an upload and an answer keep the session they were
begun in (`sess`), while `ResetHistory` gives the page a new one, and the page takes
the answer of an upload for its attachment in whichever session it is by then.

`WebUI` composes the two: one clock for lockout, window and expiry, one restart
that empties both tables, and what a page needs for its requests (`enforce_auth`,
`require_setup`): an upload a live session, a message only that a password is set.
Requests of the account and of the chat interleave.

### SavePage (saving the settings page)

One request is a sequence of steps over the agent's files: creation of the
agent, consent, style section, check of the key, the live probes, the merge into
the `.env`, and the extraction of the style that follows when the credentials
become complete. The probes and the extraction are calls of services that take
seconds; what the request read of the `.env` at its start (`before`) is what it
probes with, and what it writes is merged into the file as it is then. Whether the
own address follows the login is decided from a second reading, before the probes.
`check_imap` strips what it tries, the merge does not: `Strip` is a parameter, and
the form of the run has a password with a blank. The operator may enter another own
address into the file at any time (`EditOwn`).
`/style/relearn` is the same extraction without its condition. How one file is
written is `AgentFiles`' subject.

## 3. Runs

| Run | Checks | Bounds and why they suffice |
|---|---|---|
| `poll` | types, `DraftsAccounted`, refinement of `MailLedger`, `EveryMailDecided` under `FairSpec` | four mails: one without Message-ID that fails for ever, one of the agent's own, two with one Message-ID; two failures, so that a retry after an interruption can be interrupted again; two days with `BACKFILL_DAYS` 0, so that only `first_run_at` reaches back |
| `cycle` | types, `CacheHoldsDetection`, `CacheFollowsEnv`, `StatusTellsOutcome`, `HealthyAgentsServed`, `ExplicitFolderTakesEffect`, `ShutdownObeyed` under `FairSpec` | two agents at one provider (what they share is per provider); an account whose server flags a folder, one whose server does not and one whose server never answers; one save, one failure, which may be a failed LIST or a lost status write |
| `cycle_shared` | `ConfigIsOwn` (violated) | the smallest instance that shows it |
| `trash` | types, `NothingLost`, `NewBeforeOld`, `SuccessIsReal`, `ErasureIsTargeted` | every server record, with and without MOVE, a folder with and without a twin of the target, with and without Message-ID, two actions of other clients, one failing command |
| `confirm` | types, `TokenNeedsUserTurn`, `SessionMoveWasConfirmed` | a session with and one without id, two targets, two requests that may overlap, three windows with a time to live of one, one restart or change of the setting |
| `files` | types, `AloneIsAtomic`, `Decryptable`, `DraftedOnce` | two requests, so that every pair of kinds overlaps in every order; agents of two names and a second one of the same name; a fresh installation (no key yet) and a configured agent; two cycles of the agent process, one before or during and one after a rename |
| `startup` | types, `SettingsSurvive`, `MigratedWhenServing`, `NoPhantomAgent` | all 64 layouts; two crashes, so that a start after an interrupted one can be interrupted too |
| `startup_takeover` | `TakenOver` (violated) | the same |
| `chat` | types (`ChatTypeOK`), `NoTagTorn`, `OperatorReadsAnswer`, `QuoteReadsBack` | messages with a repeated and with two addresses, a link, a link that holds an address, a line break; answers that quote the message, hold a bracket open for longer than a placeholder, have empty lines and leading spaces, or stop inside a placeholder; provider chunks of every length, network chunks of 1, 6 and 11 characters, which end at every place of a frame |
| `chat_untag` | `AnonymizeIsReversible` (violated) | a link that holds an address |
| `web` | `GuessesBounded`, `PasswordSticks`, `UploadsAccounted`, `NeverAnOlderFile` | two threads in each of four kinds of traffic (logins; the add-in's guesses; writers of the root `.env` with logout; chat with logout); two failures allowed, two calls of the limiter in a period of two ticks, window and lockout of two ticks and four ticks of time, so that a lockout can expire and a window slide; three writes, so that one follows an overlap; two files, two answers, two messages, one reset of the page, a reference that lives one tick; one restart |
| `save` | `StoredWasProbed`, `OwnFollowsUser` | two requests at a time, any number in sequence; seven forms: everything at once, one credential at a time (one password with a blank), style and switch, a key that is refused with a consent that is missing, a text over 64 KB; a new agent and ones whose own address is the login, missing, or the operator's |

Deadlock is checked except for `TrashMove`, `ConfirmGate`, `AgentFiles`,
`Migration`, `ChatStream` and `WebUI`: a tool call or an answer ends, a user may
stop sending messages or requests, a bounded clock stops, and a WebUI that serves
has nothing left to do in a model of its start.

Eight more configurations lie beside the listed ones. TLC refutes the property in
each of them with the same modules; they are kept for whoever changes that code:

| Configuration | Property it refutes | What it shows |
|---|---|---|
| `MCAgentCycleHeartbeat.cfg` | `HeartbeatKept` | each cycle takes back the heartbeat before it polls |
| `MCAgentCycleBadNumber.cfg` | `BrokenNeighbourHarmless` | a malformed number in one `.env` keeps the whole process in a restart loop |
| `MCAgentCycleListing.cfg` | `FallbackIsReal` | a LIST that fails once within a probe decides the folder until the next save |
| `MCAgentCycleUnwritten.cfg` | `AlwaysTold` | a status write that fails leaves a failed processing shown as the last success |
| `MCTrashMoveForeign.cfg` | `ForeignKept` | also on servers with MOVE and UIDPLUS: the clean-up's `flag()` expunges other clients' marked messages, which the docstring of `_move_to_trash` rules out |
| `MCWebUITold.cfg` | `ToldIsOfThisSession` | the answer of an upload begun before a reset of the page becomes the attachment of the new session, which holds another file |
| `MCSavePageBlanks.cfg` | `StoredAsProbed` | a password pasted with a blank is tried without it and stored with it, and the agent logs in with what is stored (`agent/src/config.py:188`) |
| `MCConfirmGateAnswer.cfg` | `AnswerIsRedeemable` | the confirmation token does not survive the browser's round trip by itself |

### Fairness

`MailPoll!FairSpec` and `AgentCycle!FairSpec` have weak fairness of the steps the
process takes by itself, including the restart by Docker: the process is
scheduled, and every network call returns or times out (`IMAP_TIMEOUT_SECONDS`).
Nothing is assumed of users, mail servers or failures; failures and saves are
bounded (`MaxFaults`, `MaxSaves`), so the liveness properties say what holds once
they stop, at whatever moment they occurred. Where failing is the only step the
code has (a mail that never works, a dead server, a folder that is not
selected), that step is part of `Progress`.

### What the violated runs show

* `cycle_shared`: the explicit Drafts folder of one agent leaks into others of the
  same provider through the shared dictionary of `provider_config.py`.
* `startup_takeover`: nothing `migrate()` leaves behind is given to the agent
  user: the `.env` it cannot read stops its wait loop with a `PermissionError`, and
  once the operator has saved the agent, which repairs that, the data directory of
  root still keeps SQLite from recording a mail.
* `chat_untag`: an address inside a link is tagged first, the link with the tag in
  it second; putting back the longest placeholder first puts the address back before
  the link, and the link comes back with `[EMAIL_1]` in it.

Each is a finding in `PROJECT.json` with the documented promise it contradicts.

### What the passing properties exclude

Some properties hold only in the form stated, because the code leaves a window
that the form names:

* `DraftsAccounted` does not say that a mail has one draft: it may have one more
  for every kill, database error or lost answer between APPEND and
  `mark_processed` (`gaps`).
* `CacheFollowsEnv` excludes cache entries filled when a save came between the
  loading of the `.env` and its `stat()`: such an entry keeps the old account's
  folder under the new mtime until the next save.
* `CacheHoldsDetection` excludes a fallback cached after a LIST the server failed
  (`refused`): the code cannot tell it from a server that flags no folder
  (`imap_client.py:76-78`).
* `StatusTellsOutcome` speaks of status files whose latest write took effect
  (`written`): a write that fails is only logged, and the file tells of an older
  processing (`status_writer.py:45-50`).
* `HealthyAgentsServed` excludes malformed numbers (see `MCAgentCycleBadNumber.cfg`).
* `SuccessIsReal` is limited to mails with a Message-ID: without one a copy the
  server leaves under a new uid is not found and "moved" is reported.
* `ErasureIsTargeted` speaks of the Message-ID, not of the message: a second
  delivery of the same mail in the source folder is expunged along with it
  (`NothingLost` shows that the mail itself is then in the trash). And it allows
  messages other clients have marked for deletion: each EXPUNGE of the whole folder
  takes them along, in `move()` without MOVE and in every clean-up
  (`MCTrashMoveForeign.cfg`).
* `AloneIsAtomic` excludes requests that overlap on one agent (the later write
  takes back the earlier one, two agents may be created with one id) and, for the
  data, an agent that is being served: its poll may make the data directory anew,
  so that a rename moves the configuration and leaves the record behind.
* `Decryptable` excludes two first saves at once and a reset that meets a save.
* `MigratedWhenServing` excludes starts that died after `mkdir agents/default`:
  the next start takes them for migrated, the rest stays where it was
  (`SettingsSurvive`), and the WebUI may have lost its login settings to the
  backup.
* `OperatorReadsAnswer` compares the add-in's text word by word: `TrimStart` drops
  leading spaces of a line (`SseLineParser.cs:48`, fixed by its test). It excludes a
  failed call of the model in the tool loop, which is reported as text and enters
  the history, although `chat.js:277-279` says that the history holds complete
  answers only. And it excludes messages with a link that ends in an open placeholder
  (`EndsOpen`; the pattern of `pii.py:66` lets a link end in "["): what follows the
  link may complete a placeholder in the answer as a whole and not in the pieces.
  `ChatAssumption` says what the alphabet leaves out: addresses, the start of a link,
  white space and brackets are different characters, none of them is the inside of a
  placeholder (a kind and a number), different kinds or numbers make different insides,
  and what is held back is at least as long as a placeholder less its last character.
* `QuoteReadsBack` excludes messages with brackets and links that hold an address
  (`chat_untag`).
* `GuessesBounded` has two bounds. At `/login` it allows one guess more per thread
  than the limit: every thread that has passed the check may still fail after the
  lockout began. The add-in's route knows no lockout; its limiter counts in windows
  that open with a call, so that a period may hold twice the limiter's number.
  `/password`, which has no limit, and `/reset`, whose limiter is not modelled, are not
  counted: both need a session.
* `PasswordSticks` excludes writers of the root `.env` that overlap, and a restart
  between emptying and writing the file.
* `UploadsAccounted` lists what stays on the disk: files whose reference was
  overwritten by a second upload, expired, or was lost in a restart, although the
  docstring of `entwurf_mit_anhang` says that the file is removed in every outcome.
* `NeverAnOlderFile` allows a newer one: a file uploaded while an answer is under way
  may be attached in place of the one the model was told of. And it compares files of
  one session: after a reset of the page the model may be told of a file of the
  session before, and the draft gets that of its own (`MCWebUITold.cfg`).
* `StoredWasProbed` excludes a save of credentials that overlapped another (`stale`):
  each probes its own mix of form and old `.env`, and the merge stores a third. And it
  compares without surrounding blanks (`MCSavePageBlanks.cfg`).
* `OwnFollowsUser` excludes an address the operator enters while a save that changes
  the login is at its probes (`crossed`): that save stores the login over it.

Seen while modelling, and not expressed as a property: a `style.md` the operator saves
while an automatic extraction is under way is replaced by what was learned
(`main.py:1434-1442`, looked for before the call of the model and written after it); the
message "nichts
geschrieben" of `/save` (`main.py:1374-1377`) comes when the agent, the consent and the
style section are already written; `chat.js:215` says the attachment is reset
whatever the outcome, but a refused request keeps it; `entwurf_mit_anhang` is missing
in `_ANON_AWARE_TOOLS`; a uid may be given to another mail within the life of a token
that names it (`chat_tools.py:1587`); `_authorize_session` iterates a dictionary other
threads insert into (`chat_tools.py:1665`).

## 4. Proofs

`MailPollProofs` proves for every mailbox, every number of mails, days and
failures, from `ConstantsAssumption` alone:

* `TypeCorrect`: `Spec => []TypeOK`
* `DraftsAreAccounted`: `Spec => []DraftsAccounted`
* `LoopImplementsLedger`: `Spec => ImplementsLedger`

The invariant `IInv` is `TypeOK /\ CurIsOpen /\ DraftsAccounted`. `DraftsAccounted`
alone is not inductive: that recording a verdict adds exactly one recorded draft
needs that the mail had none before, which is `CurIsOpen`; this in turn is kept
because only the mail in hand gets a verdict while it is in hand. Each action
has one step. The refinement uses `IInv` at both ends of a step: an append is
`AddDraft` because the mail is open, a record is `Answered` because
`DraftsAccounted` gives it a draft, everything else stutters.

`ConfirmGateProofs` proves for every set of sessions, targets and requests, every
number of windows and restarts, and whatever the model may quote:

* `TypeCorrect`: `Spec => []TypeOK`
* `TokensNeedUserTurns`: `Spec => []TokenNeedsUserTurn`
* `SessionMovesWereConfirmed`: `Spec => []SessionMoveWasConfirmed`

The invariant says where tokens can be. A token a conversation quotes, or one a
running request started with, was asked for in an earlier request of the same
session (`QuotedWasAsked`, `KnownWasAsked`); it opens the gate only there, since
the tool loop strips what the running request itself has been given. An entry of
`_authorized_move_sessions` is as old as a confirmed move of its session
(`AuthorizationIsConfirmation`), because both are written in one step. The last
step of each action that moves a mail combines the two.

`MigrationProofs` proves for every set of layouts and any number of crashes:

* `TypeCorrect`: `Spec => []TypeOK`
* `NothingIsLost`: `Spec => []SettingsSurvive`
* `MigrationCompletes`: `Spec => []MigratedWhenServing`
* `NoPhantom`: `Spec => []NoPhantomAgent`

Its invariant follows the program counter: until `agents/` exists the root files
are as they were (`Untouched`), when it is created the backup is complete
(`BackedUp`), and from then on each step of a run that is not torn moves what is
still there (`Read`) and establishes one fact no later step disturbs (`Moved`).

`AgentCycleProofs` proves for every set of agents and accounts and any number of
saves, failures and kills:

* `TypeCorrect`: `Spec => []TypeOK`
* `DetectionIsCached`: `Spec => []CacheHoldsDetection`
* `StatusIsTrue`: `Spec => []StatusTellsOutcome`
* `CacheIsCurrent`: `Spec => []CacheFollowsEnv`
* `ExplicitFolderIsUsed`: `Spec => []SavedFolderIsUsed`

The invariant adds what the step in hand has read (`InHand`) and
`OneAccountPerVersion`: an `.env` of one mtime has one account, in the file, in the
configuration read from it and in a cache entry, because every save makes a new
mtime and the cache is never ahead of the file. That is why an mtime can stand for
the account, and where it fails (a save between reading and `stat()`) is the
exception the property names. `SavedFolderIsUsed` is the safety half of
`ExplicitFolderTakesEffect`: a poll of an `.env` that was not saved since it was read
uses the folder set in it (`ExplicitInHand`); that such a poll comes is left to TLC.

`TrashMoveProofs` proves for every folder, every set of server kinds and any number of
failing commands and of actions of other clients:

* `TypeCorrect`: `Spec => []TypeOK`
* `NothingIsLost`: `Spec => []NothingLost`
* `NewVersionFirst`: `Spec => []NewBeforeOld`
* `SuccessesAreReal`: `Spec => []SuccessIsReal`
* `ErasuresAreTargeted`: `Spec => []ErasureIsTargeted`, on every kind of server

`Effect` says once what any step may do to the mailbox: safe mails stay safe, a new
message is a copy of the target, a message that leaves the source is safe or was
marked by another client. It needs that our own marks and deletions only touch what
is already safe (`OurMarksAreSafe`, `Placed`, `CleanupIsTarget`), and gives these
back for the next state together with the two safety properties. `NotBegun` (an edit without
its new version has not touched the old one) and `Course` (the call nobody disturbs,
from point to point) are independent of it.

`AgentFilesProofs` proves for every set of names, any number of requests (TLC has
two) and any number of cycles of the agent process:

* `FilesTypeOK`: `Spec => []TypeOK`
* `RequestsAreAtomic`: `Spec => AloneIsAtomic`
* `PasswordsDecryptable`: `Spec => []Decryptable`
* `OneDraftPerMail`: `Spec => []DraftedOnce`

Nothing is locked, so the argument is one of distance. `Shape` gives each request the
types of its step (`Local`). `Meetings` says what the history variables mean in a
state: a request that is `alone` shares no agent with another one now. `Undisturbed`
says, step by step, what such a request finds: the lines it has read are still those
on the disk, the id it has chosen is still free, what it has moved stays where it put
it. A step of one request then leaves the others' parts of `Undisturbed` alone because
their agents are disjoint (`Elsewhere`, `KeyKept`), and the agent process because it
only touches the data directory of the agent it serves (`ProcessFrame`), which is
where `quiet` is needed. `Effects` states once, flatly, what each action does; every
proof uses it.

`Decryptable` needs that no one has a password in hand that another key encrypted
(`Keyed`, `KeyedHand`): the key changes only when there is no password anywhere
(`KeyChanges`), because a reset that met nobody has removed all agents, and because a
key that is missing or not yet written leaves no password (`NoKeyNoPassword`). `DraftedOnce`
follows an account through the files: it occurs at one id at most, on the disk or in
a hand (`Places`), and a mailbox that has a draft has its record where the agent is, or,
between the two moves of a rename, where it was (`Records`, `HomeOf`).

`PagesProofs` proves about the two long handlers of the WebUI, the settings page and
the chat.

* `CredentialsWereProbed`: `Spec => []StoredWasProbed` and `OwnAddressIsKept`:
  `Spec => []OwnFollowsUser`, for any number of requests, any forms, any server and any
  `Strip`, from `AliasAssumption`: the pair a request is about to write is the one it
  probed, merged with what it read, and the file still holds that unless `stale`
  (`ProbeBacksWrite`); between its look at the `.env` and its write a request has the
  fitting own address in hand, its login or none, whatever other requests have stored
  since (`OwnDecided`).
* `TagsStayWhole`: `StreamSpec => []NoTagTorn`, for every answer, every cut into chunks
  and every threshold. The lemma is `BufferIsHeld`: what is held back begins with an
  open bracket and everything before it has been delivered at a recorded cut. A tag
  that crossed a cut would have its bracket held back; a buffer that is given up is
  longer than any tag.
* `ChatImplementsStream`: `ChatSpec => StreamSpec`, so that what is proved of the stream
  alone holds in the chat with its two loops, its network and its clients:
  `ChatKeepsTagsWhole`: `ChatSpec => []NoTagTorn`.
* `AnswerReadWhole`: `ChatSpec => []OperatorReadsAnswer` and `ChatTyped`:
  `ChatSpec => []ChatTypeOK`, from `ChatAssumption`, for every message, answer, cut of
  the provider and of the network. What the operator reads does not depend on where
  anything was cut.
* `QuoteIsRead`: `ChatSpec => []QuoteReadsBack`. `Anonymize` loses nothing of a message
  without brackets and without addresses in its links, however many addresses and links
  it has and however often each of them occurs.

`AnswerReadWhole` needs three arguments. *The pieces*: to put the originals back into `a \o b`
is to put them back into `a` and into `b` where no placeholder lies across the seam and
none can arise there (`PutCat`, `PutAllCat`, `SafeSeam`); a cut of the generator is such
a seam because of `TagsStayWhole` (`PieceSeam`). *The bytes*: `FirstLine` says what the
first line of a response is, and that the rest of the response, less that line, is
again the rest of one. *The parser*: the strengthening `Flow` relates, at every moment,
the text on the screen, the state of the parser, its buffer and `wire` to the pieces
that have left the generator: shown text, the pending data line and what is still to be
read make up the pieces' text (`Between`, `InFrame`). `FlowReads` shows it for one line,
`ChatStepInv` for a step; `ChatInv` is the whole invariant. It quantifies over
sequences of events, an infinite set, so that TLC checks what it implies and not itself.
The folds over texts are reasoned about by induction over a set of lengths
(`NatSetInduction`, from the well-foundedness of `<` on `Nat`), which needs no operator
for a parameter: `FlattenAppend` and `FlattenConcat` follow, and everything else from
those.

`QuoteIsRead` follows from `Kept` (what is shown is `Deanonymize(text)`) and
`MessageBack`: `Deanonymize(Anonymize(m).text) = m`. The message is cut into units, each
an address, another character, or a link up to white space (`FirstUnit`); `Plain` is what
makes such a cut possible. No match of either pattern goes over the end of a unit
(`Apart`), so each pass, and then `Deanonymize`, works unit by unit (`MarkedCat`, `Chop`,
`UnitBack`), and an induction over the length puts the message together again
(`PassesUndone`). What is undone for one unit needs that every match is in the table
(`OriginalsAll`), that no two rows share a placeholder (`TagsDiffer`), and that no
original holds a bracket (`OriginalsClean`), so that nothing put back can become part of
a placeholder that is put back later. The last is what fails for an address in a link
(`chat_untag`).

`WebUIProofs` proves about the composition, for any number of threads, files, answers
and restarts:

* `GuessesStayBounded`: `Spec => []GuessesBounded`
* `RootSettingsStick`: `Spec => []PasswordSticks`
* `NoUploadIsMislaid`: `Spec => []UploadsAccounted`
* `AttachmentIsFresh`: `Spec => []NeverAnOlderFile`

For the guesses, every wrong guess of the current window that came after the last
lockout began is either in `failures` or in the hands of a thread that has yet to
record it (`Counted`); `failures` holds fewer entries than the limit, so a login is let
in only while the guesses of the window and the threads before their verification
together stay under the bound (`Bounded`). A window is not longer than a lockout, so a
lockout that has ended leaves no guess of before it in the window. At the add-in's
route every wrong guess of the limiter's open window is among its hits, and a period
reaches into two windows at most (`TwoWindows`).

For the settings, unless writers overlapped there is at most one and it holds the
acknowledged content with its own key changed (`OneWriter`). For the uploads, a file
is in one hand at a time (`OneHand`), and the registered reference is the latest
registration of its session, at least as new as what the page and every answer know of
that session (`Latest`).

Only model-checked: all liveness and `ENABLED` (outside the prover's reach), that is
`EveryMailDecided`, `HealthyAgentsServed`, `ExplicitFolderTakesEffect` and
`ShutdownObeyed`.

## 5. Not modelled, and the plan

Not modelled: the wording of prompts and mails; how a prompt is put together and cut to
its budget (`chat.py`), which keeps no state; the patterns for telephone numbers,
accounts and the like, and regular expressions as such; the adapters of the language
models; reading of status files and Docker calls of the dashboard; the forms of the
add-in; scripts and templates. `context.md` and `style.md` are in `SavePage` and not in
`AgentFiles`, the drafts folder of the settings page is in `AgentCycle` (as a save)
and not in `SavePage`.

What would be worth adding next:

1. The budget of the history and the overlap of nested patterns beyond EMAIL and
   URL, as operators against a reference definition.
2. The tool loop's time limit and the limit of its rounds, composed with
   `ConfirmGate`.
