------------------------------ MODULE SavePage ------------------------------
(***************************************************************************)
(* The settings page of an agent: main.save, which checks the submitted     *)
(* credentials live before it stores them and learns the writing style when *)
(* they become complete, and main.style_relearn; with validate_conn.py,     *)
(* llm_detect.py and style_extract.py as they are called from there.        *)
(*                                                                         *)
(* A save reads the agent's .env once, works for up to half a minute with   *)
(* what it read (two probes, then a call of the model) and writes at        *)
(* several places on the way; each save runs in a thread of its own and     *)
(* nothing keeps two of them apart.  How a single file is written is        *)
(* AgentFiles' subject; here each write is one step.                        *)
(***************************************************************************)
EXTENDS FiniteSets

CONSTANTS
  Saves,       \* bound: requests in progress at a time
  Forms,       \* bound: what the operator submits
  None,        \* a field that is empty or was not submitted
  Accepted,    \* the pairs <<user, password>> the mail server accepts
  Recognised,  \* the API keys whose prefix llm_detect knows
  Alias,       \* an own address the operator has set, other than the login
  Strip(_)     \* str.strip: a field without the blanks around it

(* The operator's address is neither missing nor a login. *)
ASSUME AliasAssumption ==
  /\ Alias # None
  /\ \A f \in Forms : f.user # Alias
  /\ \A p \in Accepted : p[1] # Alias

VARIABLES
  exists,    \* the agent's directory
  consent,   \* PRIVACY_CONSENT_ACCEPTED of the root .env
  env,       \* the agent's .env: user, password, own, key, adapt
  context,   \* context.md
  style,     \* style.md: None, "hand" (the operator's), "learned"
  req,       \* what each request is doing
  probed,    \* history: pairs the mail server has accepted in a probe
  stale,     \* history: a save stored credentials over another save's
  alias,     \* history: the operator has set an own address
  crossed    \* history: and did so while a save stood between look and write

vars == <<exists, consent, env, context, style, req, probed, stale, alias, crossed>>

Idle == [pc |-> "idle"]

Pair(e) == <<e.user, e.password>>
Stripped(e) == <<Strip(e.user), Strip(e.password)>>
Complete(e) == e.user # None /\ e.password # None /\ e.key # None
Or(a, b) == IF a # None THEN a ELSE b

Init ==
  /\ env \in {[user |-> None, password |-> None, own |-> None, key |-> None, adapt |-> None]}
        \cup {[user |-> p[1], password |-> p[2], own |-> o, key |-> k, adapt |-> None] :
                p \in Accepted, o \in {None, Alias}, k \in Recognised}
        \cup {[user |-> p[1], password |-> p[2], own |-> p[1], key |-> k, adapt |-> None] :
                p \in Accepted, k \in Recognised}
  /\ exists = (Pair(env) # <<None, None>>) /\ consent = exists
  /\ context = None /\ style \in {None, "hand"}
  /\ req = [s \in Saves |-> Idle]
  /\ probed = IF exists THEN {Stripped(env)} ELSE {}
  /\ stale = FALSE
  /\ alias = (env.own = Alias) /\ crossed = FALSE

ConsentRelevant(f) == {f.user, f.password, f.key, f.context} # {None}
AgentFields(f)     == ConsentRelevant(f)
ImapChanged(f)     == f.user # None \/ f.password # None

Answered(s) == req' = [req EXCEPT ![s] = Idle]

-----------------------------------------------------------------------------
(* The agent of a first save is created before anything is checked; a text
   over 64 KB or a missing consent ends the save.  The agent's .env is read
   here and never again before the write. *)
Begin(s, f) ==
  /\ req[s] = Idle
  /\ exists' = TRUE
  /\ LET refused == f.big \/ (ConsentRelevant(f) /\ ~consent /\ ~f.consent)
     IN  IF refused
         THEN UNCHANGED <<consent, req, alias, crossed>>
         ELSE /\ consent' = (consent \/ ConsentRelevant(f))
              /\ req' = [req EXCEPT ![s] =
                           [pc |-> "style", form |-> f, before |-> env]]
  /\ UNCHANGED <<env, context, style, probed, stale, alias, crossed>>

(* The style section is stored before the credentials are checked. *)
StyleSection(s) ==
  /\ req[s].pc = "style"
  /\ LET f == req[s].form
     IN  /\ style' = Or(f.style, style)
         /\ env' = [env EXCEPT !.adapt = Or(f.adapt, @)]
         /\ req' = [req EXCEPT ![s] =
                      IF AgentFields(f) THEN [req[s] EXCEPT !.pc = "check"] ELSE Idle]
  /\ UNCHANGED <<exists, consent, context, probed, stale, alias, crossed>>

(* The key's prefix must be known, and some key must be there in the end. *)
Refuse(s) ==
  /\ req[s].pc = "check"
  /\ LET key == Or(req[s].form.key, req[s].before.key)
     IN  key \notin Recognised
  /\ Answered(s)
  /\ UNCHANGED <<exists, consent, env, context, style, probed, stale, alias, crossed>>

(* Mutant: the .env of the start of the request is taken for the present one. *)
CheckOld(s) ==
  /\ req[s].pc = "check"
  /\ Or(req[s].form.key, req[s].before.key) \in Recognised
  /\ LET e == req[s].before
     IN  req' = [req EXCEPT ![s] =
                   [pc |-> "probe", form |-> req[s].form, before |-> e,
                    own |-> IF e.own \in {None, e.user} THEN req[s].form.user ELSE None]]
  /\ UNCHANGED <<exists, consent, env, context, style, probed, stale, alias, crossed>>

(* OWN_EMAIL_ADDRESS follows IMAP_USER unless it was set to something else:
   for this the .env is read anew. *)
Check(s) ==
  /\ req[s].pc = "check"
  /\ Or(req[s].form.key, req[s].before.key) \in Recognised
  /\ req' = [req EXCEPT ![s] =
               [pc |-> "probe", form |-> req[s].form, before |-> req[s].before,
                own |-> IF env.own \in {None, env.user} THEN req[s].form.user ELSE None]]
  /\ UNCHANGED <<exists, consent, env, context, style, probed, stale, alias, crossed>>

(* What check_imap logs in with: the form over the .env read at the start, each
   field without the blanks around it. *)
ProbePair(r) ==
  <<Strip(Or(r.form.user, r.before.user)), Strip(Or(r.form.password, r.before.password))>>

(* Mutant: a new password alone is not probed. *)
ProbeUserOnly(s) ==
  /\ req[s].pc = "probe"
  /\ req[s].form.user # None => ProbePair(req[s]) \in Accepted
  /\ probed' = IF req[s].form.user # None THEN probed \cup {ProbePair(req[s])} ELSE probed
  /\ req' = [req EXCEPT ![s].pc = "write"]
  /\ UNCHANGED <<exists, consent, env, context, style, stale, alias, crossed>>

(* check_imap for changed credentials and check_llm for a new key succeed. *)
Probe(s) ==
  /\ req[s].pc = "probe"
  /\ ImapChanged(req[s].form) => ProbePair(req[s]) \in Accepted
  /\ probed' = IF ImapChanged(req[s].form) THEN probed \cup {ProbePair(req[s])} ELSE probed
  /\ req' = [req EXCEPT ![s].pc = "write"]
  /\ UNCHANGED <<exists, consent, env, context, style, stale, alias, crossed>>

(* A probe is refused, or a server cannot be reached: "nicht gespeichert". *)
ProbeFails(s) ==
  /\ req[s].pc = "probe"
  /\ ImapChanged(req[s].form) \/ req[s].form.key # None
  /\ Answered(s)
  /\ UNCHANGED <<exists, consent, env, context, style, probed, stale, alias, crossed>>

(* write_env merges the submitted fields into the .env as it is now, blanks
   included. *)
Write(s) ==
  /\ req[s].pc = "write"
  /\ LET f == req[s].form
     IN  /\ env' = [env EXCEPT !.user = Or(f.user, @), !.password = Or(f.password, @),
                               !.key = Or(f.key, @), !.own = Or(req[s].own, @)]
         /\ context' = Or(f.context, context)
         /\ stale' = (stale \/ (ImapChanged(f) /\ Pair(env) # Pair(req[s].before)))
  /\ req' = [req EXCEPT ![s].pc = "auto"]
  /\ UNCHANGED <<exists, consent, style, probed, alias, crossed>>

(* The save has completed the credentials, and there is no style.md. *)
AutoWanted(s) ==
  ~Complete(req[s].before) /\ Complete(env) /\ env.adapt # "off" /\ style = None

Extracting == [pc |-> "extract"]

AutoExtract(s) ==
  /\ req[s].pc = "auto"
  /\ req' = [req EXCEPT ![s] = IF AutoWanted(s) THEN Extracting ELSE Idle]
  /\ UNCHANGED <<exists, consent, env, context, style, probed, stale, alias, crossed>>

(* style_relearn: the operator asks for a new style.md. *)
Relearn(s) ==
  /\ req[s] = Idle /\ exists /\ env.key # None
  /\ req' = [req EXCEPT ![s] = Extracting]
  /\ UNCHANGED <<exists, consent, env, context, style, probed, stale, alias, crossed>>

(* extract_style reads the sent mails and asks the model; style.md is written
   when it succeeds, and stays when it does not. *)
Extracted(s) ==
  /\ req[s].pc = "extract"
  /\ style' \in {style, "learned"}
  /\ Answered(s)
  /\ UNCHANGED <<exists, consent, env, context, probed, stale, alias, crossed>>

(* The operator enters another own address into the agent's .env (nano .env,
   agent/README.md:30). *)
EditOwn ==
  /\ Pair(env) # <<None, None>> /\ ~alias
  /\ env' = [env EXCEPT !.own = Alias]
  /\ alias' = TRUE
  /\ crossed' = \E s \in Saves : req[s].pc \in {"probe", "write"} /\ req[s].form.user # None
  /\ UNCHANGED <<exists, consent, context, style, req, probed, stale>>

(* The container restarts: saves end where they are. *)
Restart ==
  /\ req' = [s \in Saves |-> Idle]
  /\ UNCHANGED <<exists, consent, env, context, style, probed, stale, alias, crossed>>

Next ==
  \/ \E s \in Saves :
       \/ \E f \in Forms : Begin(s, f)
       \/ StyleSection(s) \/ Refuse(s) \/ Check(s) \/ Probe(s) \/ ProbeFails(s)
       \/ Write(s) \/ AutoExtract(s) \/ Relearn(s) \/ Extracted(s)
  \/ EditOwn \/ Restart

Spec == Init /\ [][Next]_vars

-----------------------------------------------------------------------------
(* Safety: the mail credentials of an agent are, but for blanks around them, a
   pair the mail server has accepted, unless a save wrote over credentials
   another save had stored since it read them: main.py:1281-1289 against
   1413-1415. *)
StoredWasProbed ==
  ~stale /\ env.user # None /\ env.password # None => Stripped(env) \in probed

(* Safety: through overlapping saves and restarts the agent's own address stays
   its login (a missing one counts as the login, agent/src/config.py:203), and one
   the operator has set stays as it is, unless it was entered while a save that
   changes the login stood between its look at the .env and its write:
   main.py:1336-1345 against 1413-1415. *)
OwnFollowsUser ==
  ~crossed => IF alias THEN env.own = Alias ELSE env.own \in {None, env.user}

(* What validate_conn.py:3-5 promises ("kein kaputter Agent"), and what is not so:
   the pair as it is stored, which the agent logs in with, has been accepted.  A
   password with a blank around it is tried without it. *)
StoredAsProbed ==
  ~stale /\ env.user # None /\ env.password # None => Pair(env) \in probed
=============================================================================
