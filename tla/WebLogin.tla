------------------------------ MODULE WebLogin ------------------------------
(***************************************************************************)
(* The login of the WebUI: auth.py (lockout, sessions, stored password),    *)
(* the routes /setup, /login, /logout, /password, /reset and                *)
(* /addin/verify-password of main.py, and config_io.py, which keeps the     *)
(* password and the global settings in the root .env.  FastAPI runs each    *)
(* of these handlers in a thread of its own; nothing but the single         *)
(* accesses to the in-memory stores is locked, and the file is read,        *)
(* truncated and written by hand.                                           *)
(***************************************************************************)
EXTENDS Integers, Sequences, FiniteSets

CONSTANTS
  Slots,        \* bound: requests in progress at a time
  Traffic,      \* bound: the sets of request kinds that arrive in one behaviour
  Passwords,
  None,         \* no password, no settings, no session
  MaxFailures,  \* _LOGIN_MAX_FAILURES
  Window,       \* _LOGIN_WINDOW_SEC
  Lockout,      \* _LOGIN_LOCKOUT_SEC
  AddinLimit,   \* calls of /addin/verify-password per ...
  AddinPeriod,  \* ... this time ("10/minute")
  MaxTime,      \* bound: last moment of the model
  MaxSessions,  \* bound: sessions alive at a time
  MaxWrites     \* bound: acknowledged writes of the root .env

ASSUME LoginAssumption ==
  /\ None \notin Passwords
  /\ MaxFailures \in Nat \ {0}
  /\ Window \in Nat \ {0} /\ Lockout \in Nat /\ Lockout >= Window
  /\ AddinLimit \in Nat \ {0} /\ AddinPeriod \in Nat \ {0}
  /\ MaxTime \in Nat /\ IsFiniteSet(Slots)

VARIABLES
  traffic,    \* the kinds of requests of this behaviour
  clock,
  env,        \* the root .env: password, settings; torn while truncated
  failures,   \* _login_failures of one client address: guess -> moment recorded
  lockout,    \* _login_lockouts of that address; 0: no entry
  addin,      \* the limiter's window of that address for the add-in's route
  sessions,   \* how many sessions are alive
  req,        \* what each thread is doing
  wrong,      \* history: the moments of the wrong guesses at /login
  asked,      \* history: the moments of the wrong guesses at the add-in's route
  acked,      \* history: what the last acknowledged writes left in the .env
  writes,     \* history: how many writes were acknowledged
  dirty       \* history: root writers overlapped, or a restart met one

loginVars == <<traffic, clock, env, failures, lockout, addin, sessions, req, wrong,
               asked, acked, writes, dirty>>

Blank == [password |-> None, settings |-> None]
Idle  == [pc |-> "idle"]

(* The limiter has seen no call. *)
NoCalls == [since |-> 0, hits |-> 0]

Moments == 0..MaxTime

LoginInit ==
  /\ traffic \in Traffic
  /\ clock = 0
  /\ \E p \in Passwords \cup {None} : acked = [Blank EXCEPT !.password = p]
  /\ env = [torn |-> FALSE, file |-> acked]
  /\ failures = <<>> /\ lockout = 0 /\ addin = NoCalls /\ sessions \in 0..1
  /\ req = [s \in Slots |-> Idle]
  /\ wrong = <<>> /\ asked = <<>>
  /\ writes = 0 /\ dirty = FALSE

(* What a reader of the file sees: nothing while it is truncated. *)
Seen == IF env.torn THEN Blank ELSE env.file

(* verify_password: a request whose password is not the stored one fails. *)
Verified(p) == Seen.password # None /\ p = Seen.password

Arrives(s, kind) == req[s] = Idle /\ kind \in traffic

(* enforce_auth: a password is set and the request carries a live session. *)
Gate(s, kind) == Arrives(s, kind) /\ Seen.password # None /\ sessions > 0

-----------------------------------------------------------------------------
(* login_post up to the lockout check; an expired entry is dropped. *)
Login(s, p) ==
  /\ Arrives(s, "login")
  /\ Seen.password # None
  /\ clock >= lockout
  /\ lockout' = 0
  /\ req' = [req EXCEPT ![s] = [pc |-> "verify", given |-> p]]
  /\ UNCHANGED <<traffic, clock, env, failures, addin, sessions, wrong,
                 asked, acked, writes, dirty>>

(* verify_password, then create_session. *)
VerifyLogin(s) ==
  /\ req[s].pc = "verify"
  /\ IF Verified(req[s].given)
     THEN /\ sessions' = IF sessions < MaxSessions THEN sessions + 1 ELSE sessions
          /\ req' = [req EXCEPT ![s] = Idle]
          /\ UNCHANGED wrong
     ELSE /\ wrong' = Append(wrong, clock)
          /\ req' = [req EXCEPT ![s] = [pc |-> "record", guess |-> Len(wrong) + 1]]
          /\ UNCHANGED sessions
  /\ UNCHANGED <<traffic, clock, env, failures, lockout, addin, asked, acked, writes, dirty>>

(* The guesses whose moment is in the window that ends at t. *)
InWindow(moments, t) == {g \in DOMAIN moments : moments[g] <= t /\ t - moments[g] < Window}

(* Mutant: one failure more than allowed before the lockout. *)
RecordLate(s) ==
  /\ req[s].pc = "record"
  /\ LET new == req[s].guess
         recent == InWindow(failures, clock) \cup {new}
     IN  IF Cardinality(recent) > MaxFailures
         THEN lockout' = clock + Lockout /\ failures' = <<>>
         ELSE /\ failures' = [g \in recent |-> IF g = new THEN clock ELSE failures[g]]
              /\ UNCHANGED lockout
  /\ req' = [req EXCEPT ![s] = Idle]
  /\ UNCHANGED <<traffic, clock, env, addin, sessions, wrong, asked, acked, writes, dirty>>

(* _record_login_failure. *)
Record(s) ==
  /\ req[s].pc = "record"
  /\ LET new == req[s].guess
         recent == InWindow(failures, clock) \cup {new}
     IN  IF Cardinality(recent) >= MaxFailures
         THEN lockout' = clock + Lockout /\ failures' = <<>>
         ELSE /\ failures' = [g \in recent |-> IF g = new THEN clock ELSE failures[g]]
              /\ UNCHANGED lockout
  /\ req' = [req EXCEPT ![s] = Idle]
  /\ UNCHANGED <<traffic, clock, env, addin, sessions, wrong, asked, acked, writes, dirty>>

(* addin_verify_password, exempt from the session and from the lockout.  The
   limiter counts the calls of an address in a window that opens with the first
   of them; a refused call changes nothing more.  p is what strip() leaves. *)
VerifyAddin(p) ==
  /\ "addin" \in traffic /\ Seen.password # None
  /\ LET open == addin.hits > 0 /\ clock - addin.since < AddinPeriod
     IN  /\ open => addin.hits < AddinLimit
         /\ addin' = IF open THEN [addin EXCEPT !.hits = @ + 1]
                     ELSE [since |-> clock, hits |-> 1]
  /\ asked' = IF Verified(p) THEN asked ELSE Append(asked, clock)
  /\ UNCHANGED <<traffic, clock, env, failures, lockout, sessions, req, wrong,
                 acked, writes, dirty>>

(* The guesses whose moment is in the limiter's period that ends at t. *)
InPeriod(moments, t) ==
  {g \in DOMAIN moments : moments[g] <= t /\ t - moments[g] < AddinPeriod}

(* logout_post: destroy_session. *)
Logout ==
  /\ "logout" \in traffic /\ sessions > 0
  /\ sessions' = sessions - 1
  /\ UNCHANGED <<traffic, clock, env, failures, lockout, addin, req, wrong,
                 asked, acked, writes, dirty>>

-----------------------------------------------------------------------------
Writing(s) == req[s].pc \in {"read", "truncate", "write"}

(* A handler has decided to write key := value, and comes to config_io. *)
StartWrite(s, route, key, value) ==
  /\ writes < MaxWrites
  /\ req' = [req EXCEPT ![s] =
               [pc |-> "read", route |-> route, key |-> key, value |-> value]]
  /\ dirty' = (dirty \/ \E o \in Slots : Writing(o))
  /\ UNCHANGED <<traffic, clock, env, failures, lockout, addin, sessions, wrong,
                 asked, acked, writes>>

(* setup_post: only while no password is set. *)
Setup(s, p) ==
  /\ Arrives(s, "setup") /\ Seen.password = None
  /\ StartWrite(s, "setup", "password", p)

(* password_post: a wrong password is answered, and neither counted nor delayed. *)
ChangePassword(s, old, new) ==
  /\ Gate(s, "password")
  /\ IF Verified(old) THEN StartWrite(s, "password", "password", new)
                      ELSE UNCHANGED loginVars

(* save: consent and autostart. *)
SaveSettings(s) ==
  /\ Gate(s, "settings")
  /\ StartWrite(s, "save", "settings", "on")

(* reset_all_endpoint, whose limiter only refuses more: a wrong password is
   answered.  The agents' part is AgentFiles' and Migration's. *)
Reset(s, p) ==
  /\ Gate(s, "reset")
  /\ IF Verified(p) THEN StartWrite(s, "reset", "all", None) ELSE UNCHANGED loginVars

(* write_env reads the lines of the file; reset_all does not look at it. *)
ReadRoot(s) ==
  /\ req[s].pc = "read"
  /\ LET r == req[s]
     IN  req' = [req EXCEPT ![s] =
           [pc |-> "truncate", route |-> r.route, key |-> r.key, new |->
              IF r.key = "all" THEN Blank ELSE [Seen EXCEPT ![r.key] = r.value]]]
  /\ UNCHANGED <<traffic, clock, env, failures, lockout, addin, sessions, wrong,
                 asked, acked, writes, dirty>>

(* write_text opens the file, which empties it ... *)
Truncate(s) ==
  /\ req[s].pc = "truncate"
  /\ env' = [env EXCEPT !.torn = TRUE]
  /\ req' = [req EXCEPT ![s].pc = "write"]
  /\ UNCHANGED <<traffic, clock, failures, lockout, addin, sessions, wrong,
                 asked, acked, writes, dirty>>

(* Mutant: the file is written with the updated key alone. *)
WriteRootAlone(s) ==
  /\ req[s].pc = "write"
  /\ LET r == req[s]
     IN  /\ env' = [torn |-> FALSE, file |->
                      IF r.key = "all" THEN Blank ELSE [Blank EXCEPT ![r.key] = r.new[r.key]]]
         /\ acked' = IF r.key = "all" THEN Blank ELSE [acked EXCEPT ![r.key] = r.new[r.key]]
         /\ sessions' = IF r.route = "setup" /\ sessions < MaxSessions
                      THEN sessions + 1 ELSE sessions
  /\ writes' = writes + 1
  /\ req' = [req EXCEPT ![s] = Idle]
  /\ UNCHANGED <<traffic, clock, failures, lockout, addin, wrong, asked, dirty>>

(* ... and writes the lines.  setup_post then opens a session. *)
WriteRoot(s) ==
  /\ req[s].pc = "write"
  /\ LET r == req[s]
     IN  /\ env' = [torn |-> FALSE, file |-> r.new]
         /\ acked' = IF r.key = "all" THEN Blank ELSE [acked EXCEPT ![r.key] = r.new[r.key]]
         /\ sessions' = IF r.route = "setup" /\ sessions < MaxSessions
                      THEN sessions + 1 ELSE sessions
  /\ writes' = writes + 1
  /\ req' = [req EXCEPT ![s] = Idle]
  /\ UNCHANGED <<traffic, clock, failures, lockout, addin, wrong, asked, dirty>>

-----------------------------------------------------------------------------
(* A restart of the container: the memory is gone, the file stays as it is. *)
LoginRestart ==
  /\ failures' = <<>> /\ lockout' = 0 /\ addin' = NoCalls /\ sessions' = 0
  /\ req' = [s \in Slots |-> Idle]
  /\ wrong' = <<>> /\ asked' = <<>>
  /\ env' = [torn |-> FALSE, file |-> Seen]
  /\ dirty' = (dirty \/ env.torn)
  /\ UNCHANGED <<traffic, clock, acked, writes>>

LoginNext ==
  \/ Logout
  \/ \E p \in Passwords : VerifyAddin(p)
  \/ \E s \in Slots :
    \/ VerifyLogin(s) \/ Record(s) \/ ReadRoot(s) \/ Truncate(s) \/ WriteRoot(s)
    \/ SaveSettings(s)
    \/ \E p \in Passwords :
         \/ Login(s, p) \/ Setup(s, p) \/ Reset(s, p)
         \/ \E q \in Passwords : ChangePassword(s, p, q)

(* Safety: what one address can try without a session.  At /login, however the
   checks, verifications and records of parallel requests interleave, a window
   holds no more wrong guesses than the failures allowed plus the requests that
   were past the check when the lockout began: auth.py:65-91, main.py:324-328.
   The add-in's route verifies the same password outside the lockout; there any
   period holds at most twice the limiter's number, because the limiter's
   windows open with a call and not with the period: main.py:940-955. *)
GuessesBounded ==
  \A t \in Moments :
    /\ Cardinality(InWindow(wrong, t)) <= MaxFailures + Cardinality(Slots) - 1
    /\ Cardinality(InPeriod(asked, t)) <= 2 * AddinLimit

(* Safety: at rest the root .env holds for each key what was last acknowledged,
   unless two writers overlapped or a restart fell into a write (write_env
   reads, truncates and writes without a lock): config_io.py:36-81. *)
PasswordSticks ==
  ~dirty /\ (\A s \in Slots : ~Writing(s)) => env = [torn |-> FALSE, file |-> acked]
=============================================================================
