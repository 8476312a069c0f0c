---------------------------- MODULE WebUIProofs ----------------------------
(***************************************************************************)
(* The composed WebUI process, for any number of threads, passwords, files, *)
(* answers and restarts.                                                   *)
(*                                                                         *)
(* PasswordSticks speaks of the moments of rest; it is inductive once it is *)
(* known that, unless writers have overlapped, there is one writer at most  *)
(* and what it is about to write is the acknowledged content with its own   *)
(* key changed (OneWriter).  The attachments need to know where the number  *)
(* of a file can be: nowhere before its upload is registered (Unknown), in  *)
(* one hand at a time (OneHand), and the reference in the store is the      *)
(* latest registration (Latest).                                           *)
(* GuessesBounded counts, at /login (see before Verifying) and at the add-in's  *)
(* route (TwoWindows).                                                     *)
(***************************************************************************)
EXTENDS WebUI, FiniteSetTheorems, TLAPS

Settled == env = [torn |-> FALSE, file |-> acked]

Keys == {"password", "settings"}

(* The lines a writer will write. *)
Intended(s) ==
  \/ req[s].key = "all" /\ req[s].new = Blank
  \/ req[s].key \in Keys /\ req[s].new = [acked EXCEPT ![req[s].key] = req[s].new[req[s].key]]

OneWriter ==
  ~dirty =>
    /\ \A s, o \in Slots : Writing(s) /\ Writing(o) => s = o
    /\ (\A s \in Slots : ~Writing(s)) => Settled
    /\ \A s \in Slots :
         /\ req[s].pc = "read" => Settled /\ req[s].key \in Keys \cup {"all"}
         /\ req[s].pc = "truncate" => Settled /\ Intended(s)
         /\ req[s].pc = "write" => env.torn = TRUE /\ env.file = acked /\ Intended(s)

LoginInv ==
  /\ DOMAIN acked = Keys
  /\ DOMAIN req = Slots
  /\ OneWriter

LEMMA LoginInitInv == LoginInit => LoginInv
<1> SUFFICES ASSUME LoginInit PROVE LoginInv
  OBVIOUS
<1>1. DOMAIN acked = Keys
  BY DEF LoginInit, Blank, Keys
<1>2. /\ DOMAIN req = Slots
      /\ \A s \in Slots : req[s].pc = "idle"
  BY DEF LoginInit, Idle
<1>3. Settled
  BY DEF LoginInit, Settled
<1> QED BY <1>1, <1>2, <1>3 DEF LoginInv, OneWriter, Writing

(* A request that is not a writer, before and after. *)
LEMMA NoWriter ==
  ASSUME LoginInv, NEW s \in Slots, ~Writing(s), NEW r, r.pc \notin {"read", "truncate", "write"},
         req' = [req EXCEPT ![s] = r], UNCHANGED <<env, acked, dirty>>
  PROVE  LoginInv'
<1>1. /\ req'[s] = r /\ ~Writing(s)'
      /\ \A o \in Slots \ {s} : req'[o] = req[o]
  BY DEF LoginInv, Writing
<1>2. DOMAIN req' = Slots
  BY DEF LoginInv
<1>3. \A o \in Slots : Writing(o)' => o # s /\ Writing(o) /\ req'[o] = req[o]
  BY <1>1 DEF Writing
<1>4. \A o \in Slots : Writing(o) => Writing(o)'
  BY <1>1 DEF Writing
<1>5. \A o \in Slots : req'[o] = req[o] => (Intended(o)' <=> Intended(o))
  BY DEF Intended
<1> QED
  BY <1>1, <1>2, <1>3, <1>4, <1>5 DEF LoginInv, OneWriter, Writing, Settled

LEMMA StartKeeps ==
  ASSUME LoginInv, NEW s \in Slots, ~Writing(s), NEW route, NEW key \in Keys \cup {"all"},
         NEW value, StartWrite(s, route, key, value)
  PROVE  LoginInv'
<1>1. /\ req'[s] = [pc |-> "read", route |-> route, key |-> key, value |-> value]
      /\ \A o \in Slots \ {s} : req'[o] = req[o]
      /\ DOMAIN req' = Slots
  BY DEF StartWrite, LoginInv
<1>2. req'[s].pc = "read" /\ req'[s].key = key
  BY <1>1
<1>3. UNCHANGED <<env, acked>>
  BY DEF StartWrite
<1>4. ASSUME ~dirty'
      PROVE  /\ ~dirty /\ Settled
             /\ \A o \in Slots \ {s} : req'[o].pc \notin {"read", "truncate", "write"}
  <2>1. ~dirty /\ \A o \in Slots : ~Writing(o)
    BY <1>4 DEF StartWrite
  <2> QED BY <1>1, <2>1 DEF LoginInv, OneWriter, Writing
<1>5. OneWriter'
  BY <1>2, <1>3, <1>4 DEF OneWriter, Writing, Settled
<1> QED BY <1>1, <1>3, <1>5 DEF LoginInv

(* A writer goes on alone: the others are as they were, and none of them writes. *)
LEMMA OthersAreIdle ==
  ASSUME LoginInv, NEW s \in Slots, Writing(s), ~dirty, NEW r, req' = [req EXCEPT ![s] = r]
  PROVE  \A o \in Slots \ {s} : req'[o].pc \notin {"read", "truncate", "write"}
BY DEF LoginInv, OneWriter, Writing

LEMMA LoginStutter == LoginInv /\ UNCHANGED loginVars => LoginInv'
BY DEF loginVars, LoginInv, OneWriter, Writing, Settled, Intended

LEMMA LoginStep == LoginInv /\ LoginNext => LoginInv'
<1> SUFFICES ASSUME LoginInv, LoginNext PROVE LoginInv'
  OBVIOUS
<1>1. CASE Logout
  BY <1>1 DEF Logout, LoginInv, OneWriter, Writing, Settled, Intended
<1>2. ASSUME NEW s \in Slots, VerifyLogin(s) PROVE LoginInv'
  <2>1. PICK r \in {Idle, [pc |-> "record", guess |-> Len(wrong) + 1]} : req' = [req EXCEPT ![s] = r]
    BY <1>2 DEF VerifyLogin
  <2>2. r.pc \notin {"read", "truncate", "write"}
    BY <2>1 DEF Idle
  <2> QED BY <1>2, <2>1, <2>2, NoWriter DEF VerifyLogin, Writing
<1>3. ASSUME NEW s \in Slots, Record(s) PROVE LoginInv'
  <2>1. Idle.pc \notin {"read", "truncate", "write"}
    BY DEF Idle
  <2> QED BY <1>3, <2>1, NoWriter DEF Record, Writing
<1>4. ASSUME NEW s \in Slots, NEW p, Login(s, p) PROVE LoginInv'
  <2>1. ~Writing(s)
    BY <1>4 DEF Login, Arrives, Idle, Writing
  <2> DEFINE r == [pc |-> "verify", given |-> p]
  <2>2. r.pc \notin {"read", "truncate", "write"}
    OBVIOUS
  <2>3. req' = [req EXCEPT ![s] = r] /\ UNCHANGED <<env, acked, dirty>>
    BY <1>4 DEF Login
  <2> QED BY <2>1, <2>2, <2>3, NoWriter
<1>5. ASSUME NEW s \in Slots, NEW k, Arrives(s, k) PROVE ~Writing(s)
  BY <1>5 DEF Arrives, Idle, Writing
<1>6. ASSUME NEW s \in Slots, NEW p, NEW q,
             Setup(s, p) \/ ChangePassword(s, p, q) \/ SaveSettings(s) \/ Reset(s, p)
      PROVE  LoginInv'
  <2>1. ~Writing(s)
    BY <1>5, <1>6 DEF Setup, ChangePassword, SaveSettings, Reset, Gate
  <2>2. CASE UNCHANGED loginVars
    BY <2>2, LoginStutter
  <2>3. CASE ~UNCHANGED loginVars
    <3>1. \E route, value : \E key \in Keys \cup {"all"} : StartWrite(s, route, key, value)
      BY <1>6, <2>3 DEF Setup, ChangePassword, SaveSettings, Reset, Keys
    <3> QED BY <2>1, <3>1, StartKeeps
  <2> QED BY <2>2, <2>3
<1>7. ASSUME NEW s \in Slots, ReadRoot(s) PROVE LoginInv'
  <2> DEFINE r == [pc |-> "truncate", route |-> req[s].route, key |-> req[s].key, new |->
                     IF req[s].key = "all" THEN Blank
                     ELSE [Seen EXCEPT ![req[s].key] = req[s].value]]
  <2>1. req' = [req EXCEPT ![s] = r] /\ UNCHANGED <<env, acked, dirty>>
    BY <1>7 DEF ReadRoot
  <2>2. req'[s] = r /\ DOMAIN req' = Slots /\ Writing(s) /\ req[s].pc = "read"
    BY <1>7, <2>1 DEF LoginInv, ReadRoot, Writing
  <2>3. ASSUME ~dirty PROVE OneWriter'
    <3>1. Settled /\ req[s].key \in Keys \cup {"all"}
      BY <2>2, <2>3 DEF LoginInv, OneWriter
    <3>2. Seen = acked
      BY <3>1 DEF Settled, Seen
    <3>3. \A o \in Slots \ {s} : req'[o].pc \notin {"read", "truncate", "write"}
      BY <2>1, <2>2, <2>3, OthersAreIdle
    <3>4. r.pc = "truncate" /\ r.key = req[s].key
      OBVIOUS
    <3>5. r.new = IF r.key = "all" THEN Blank ELSE [acked EXCEPT ![r.key] = req[s].value]
      BY <3>2
    <3>6. r.key \in Keys => r.new = [acked EXCEPT ![r.key] = r.new[r.key]]
      BY <3>5 DEF LoginInv, Keys
    <3>7. Intended(s)'
      BY <2>1, <2>2, <3>1, <3>4, <3>5, <3>6 DEF Intended
    <3>8. Settled'
      BY <2>1, <3>1 DEF Settled
    <3> QED BY <2>2, <3>3, <3>4, <3>7, <3>8 DEF OneWriter, Writing
  <2>4. dirty => OneWriter'
    BY <2>1 DEF OneWriter
  <2> QED BY <2>1, <2>2, <2>3, <2>4 DEF LoginInv
<1>8. ASSUME NEW s \in Slots, Truncate(s) PROVE LoginInv'
  <2>1. /\ req' = [req EXCEPT ![s].pc = "write"]
        /\ env' = [env EXCEPT !.torn = TRUE] /\ UNCHANGED <<acked, dirty>>
    BY <1>8 DEF Truncate
  <2> DEFINE r == [req[s] EXCEPT !.pc = "write"]
  <2>2. req' = [req EXCEPT ![s] = r] /\ req'[s] = r /\ DOMAIN req' = Slots
    BY <2>1 DEF LoginInv
  <2>3. Writing(s) /\ req[s].pc = "truncate"
    BY <1>8 DEF Truncate, Writing
  <2>4. ASSUME ~dirty PROVE OneWriter'
    <3>1. Settled /\ Intended(s)
      BY <2>3, <2>4 DEF LoginInv, OneWriter
    <3>2. \A o \in Slots \ {s} : req'[o].pc \notin {"read", "truncate", "write"}
      BY <2>2, <2>3, <2>4, OthersAreIdle
    <3>3. env'.torn = TRUE /\ env'.file = acked
      BY <2>1, <3>1 DEF Settled
    <3>4. r.key = req[s].key /\ r.new = req[s].new
      OBVIOUS
    <3>5. Intended(s)'
      BY <2>1, <2>2, <3>1, <3>4 DEF Intended
    <3>6. req'[s].pc = "write"
      BY <2>2
    <3> QED BY <2>1, <2>2, <3>2, <3>3, <3>5, <3>6 DEF OneWriter, Writing
  <2>5. dirty => OneWriter'
    BY <2>1 DEF OneWriter
  <2> QED BY <2>1, <2>2, <2>4, <2>5 DEF LoginInv
<1>9. ASSUME NEW s \in Slots, WriteRoot(s) PROVE LoginInv'
  <2>1. /\ req' = [req EXCEPT ![s] = Idle] /\ req'[s] = Idle /\ DOMAIN req' = Slots
        /\ env' = [torn |-> FALSE, file |-> req[s].new]
        /\ acked' = IF req[s].key = "all" THEN Blank
                    ELSE [acked EXCEPT ![req[s].key] = req[s].new[req[s].key]]
        /\ UNCHANGED dirty
    BY <1>9 DEF WriteRoot, LoginInv
  <2>2. Writing(s) /\ req[s].pc = "write"
    BY <1>9 DEF WriteRoot, Writing
  <2>3. DOMAIN acked' = Keys
    BY <2>1 DEF LoginInv, Blank, Keys
  <2>4. ASSUME ~dirty PROVE OneWriter'
    <3>1. Intended(s)
      BY <2>2, <2>4 DEF LoginInv, OneWriter
    <3>2. Settled'
      BY <2>1, <3>1 DEF Settled, Intended, Keys
    <3>3. \A o \in Slots \ {s} : req'[o].pc \notin {"read", "truncate", "write"}
      BY <2>1, <2>2, <2>4, OthersAreIdle
    <3>4. Idle.pc = "idle"
      BY DEF Idle
    <3> QED BY <2>1, <3>2, <3>3, <3>4 DEF OneWriter, Writing
  <2>5. dirty => OneWriter'
    BY <2>1 DEF OneWriter
  <2> QED BY <2>1, <2>3, <2>4, <2>5 DEF LoginInv
<1>10. ASSUME NEW p, VerifyAddin(p) PROVE LoginInv'
  <2>1. UNCHANGED <<env, req, acked, dirty>>
    BY <1>10 DEF VerifyAddin
  <2> QED BY <2>1 DEF LoginInv, OneWriter, Writing, Settled, Intended
<1> QED
  BY <1>1, <1>2, <1>3, <1>4, <1>6, <1>7, <1>8, <1>9, <1>10 DEF LoginNext

LEMMA LoginRestartStep == LoginInv /\ LoginRestart => LoginInv'
<1> SUFFICES ASSUME LoginInv, LoginRestart PROVE LoginInv'
  OBVIOUS
<1>1. DOMAIN req' = Slots /\ \A s \in Slots : req'[s].pc = "idle"
  BY DEF LoginRestart, Idle
<1>2. DOMAIN acked' = Keys
  BY DEF LoginRestart, LoginInv
<1>3. ASSUME ~dirty' PROVE Settled'
  <2>1. ~dirty /\ ~env.torn
    BY <1>3 DEF LoginRestart
  <2>2. Settled
    BY <2>1 DEF LoginInv, OneWriter, Writing
  <2> QED BY <2>1, <2>2 DEF LoginRestart, Settled, Seen
<1> QED BY <1>1, <1>2, <1>3 DEF LoginInv, OneWriter, Writing

-----------------------------------------------------------------------------
(***************************************************************************)
(* The guesses of one address.  Every wrong guess of the running window is  *)
(* still counted, by an entry of the list of failures or by a thread about  *)
(* to enter it, unless it belongs to a lockout (Counted); hence a login is   *)
(* let in only while the guesses of the window and the threads between      *)
(* check and verification stay under the bound (Bounded).                   *)
(***************************************************************************)
Verifying == {s \in Slots : req[s].pc = "verify"}
Recording == {s \in Slots : req[s].pc = "record"}

Recent == InWindow(wrong, clock)

GuessTypes ==
  /\ clock \in Moments /\ lockout \in Nat
  /\ wrong \in Seq(Moments)
  /\ \A g \in DOMAIN wrong : wrong[g] <= clock
  /\ IsFiniteSet(DOMAIN failures)
  /\ \A g \in DOMAIN failures : failures[g] \in Moments /\ failures[g] <= clock
  /\ DOMAIN req = Slots

Counted ==
  \A g \in Recent : wrong[g] > lockout - Lockout =>
    \/ g \in DOMAIN failures /\ failures[g] >= wrong[g]
    \/ \E s \in Recording : req[s].guess = g

Bounded ==
  Cardinality(Recent) + Cardinality(Verifying) <= MaxFailures + Cardinality(Slots) - 1

LoginGuesses ==
  \A t \in Moments :
    Cardinality(InWindow(wrong, t)) <= MaxFailures + Cardinality(Slots) - 1

GuessInv ==
  /\ GuessTypes
  /\ Cardinality(DOMAIN failures) < MaxFailures
  /\ Counted /\ Bounded /\ LoginGuesses

(* The sets that are counted are finite. *)
LEMMA CountedSets ==
  ASSUME GuessTypes
  PROVE  /\ \A t : IsFiniteSet(InWindow(wrong, t)) /\ Cardinality(InWindow(wrong, t)) \in Nat
         /\ IsFiniteSet(Verifying) /\ Cardinality(Verifying) \in Nat
         /\ IsFiniteSet(Recording) /\ Cardinality(Recording) \in Nat
         /\ Cardinality(DOMAIN failures) \in Nat
         /\ Cardinality(Slots) \in Nat /\ MaxFailures \in Nat
         /\ Cardinality(Verifying) + Cardinality(Recording) <= Cardinality(Slots)
<1>1. IsFiniteSet(DOMAIN wrong)
  <2>1. DOMAIN wrong = 1..Len(wrong) /\ Len(wrong) \in Nat
    BY DEF GuessTypes
  <2> QED BY <2>1, FS_Interval
<1>2. ASSUME NEW t PROVE IsFiniteSet(InWindow(wrong, t)) /\ Cardinality(InWindow(wrong, t)) \in Nat
  <2>1. InWindow(wrong, t) \in SUBSET DOMAIN wrong
    BY DEF InWindow
  <2> QED BY <1>1, <2>1, FS_Subset, FS_CardinalityType
<1>3. /\ Verifying \in SUBSET Slots /\ Recording \in SUBSET Slots
      /\ Verifying \cup Recording \in SUBSET Slots
      /\ Verifying \cap Recording = {}
  BY DEF Verifying, Recording
<1>4. /\ IsFiniteSet(Verifying) /\ Cardinality(Verifying) \in Nat
      /\ IsFiniteSet(Recording) /\ Cardinality(Recording) \in Nat
      /\ Cardinality(Slots) \in Nat
      /\ Cardinality(Verifying \cup Recording) <= Cardinality(Slots)
  BY <1>3, FS_Subset, FS_CardinalityType, LoginAssumption
<1>5. Cardinality(Verifying \cup Recording) = Cardinality(Verifying) + Cardinality(Recording)
  <2>1. Cardinality(Verifying \cap Recording) = 0
    BY <1>3, FS_EmptySet
  <2>2. Cardinality(Verifying \cup Recording)
          = Cardinality(Verifying) + Cardinality(Recording) - Cardinality(Verifying \cap Recording)
    BY <1>4, FS_Union
  <2> QED BY <1>4, <2>1, <2>2
<1>6. Cardinality(DOMAIN failures) \in Nat
  BY FS_CardinalityType DEF GuessTypes
<1> QED BY <1>2, <1>4, <1>5, <1>6, LoginAssumption

(* The bound of one window that did not grow. *)
LEMMA WindowShrinks ==
  ASSUME GuessInv, NEW S, S \subseteq Recent
  PROVE  /\ Cardinality(S) \in Nat /\ Cardinality(S) <= Cardinality(Recent)
         /\ Cardinality(S) <= MaxFailures + Cardinality(Slots) - 1
<1>1. S \in SUBSET Recent
  OBVIOUS
<1>2. /\ IsFiniteSet(Recent) /\ Cardinality(Recent) \in Nat
      /\ Cardinality(Verifying) \in Nat /\ Cardinality(Slots) \in Nat /\ MaxFailures \in Nat
  BY CountedSets DEF GuessInv, Recent
<1>3. Cardinality(S) \in Nat /\ Cardinality(S) <= Cardinality(Recent)
  BY <1>1, <1>2, FS_Subset, FS_CardinalityType
<1> QED BY <1>2, <1>3 DEF GuessInv, Bounded

LEMMA GuessInitInv == LoginInit => GuessInv
<1> SUFFICES ASSUME LoginInit PROVE GuessInv
  OBVIOUS
<1>1. /\ clock = 0 /\ failures = <<>> /\ lockout = 0 /\ wrong = <<>>
      /\ req = [s \in Slots |-> Idle]
  BY DEF LoginInit
<1>2. DOMAIN wrong = {} /\ DOMAIN failures = {} /\ \A t : InWindow(wrong, t) = {}
  BY <1>1 DEF InWindow
<1>3. Verifying = {}
  BY <1>1 DEF Verifying, Idle
<1>4. GuessTypes
  BY <1>1, <1>2, FS_EmptySet, LoginAssumption DEF GuessTypes, Moments
<1>5. Cardinality(Slots) \in Nat
  BY FS_CardinalityType, LoginAssumption
<1>6. Recent = {} /\ Cardinality({}) = 0
  BY <1>2, FS_EmptySet DEF Recent
<1>7. 0 + 0 <= MaxFailures + Cardinality(Slots) - 1 /\ 0 < MaxFailures
  BY <1>5, LoginAssumption
<1>8. LoginGuesses
  <2> SUFFICES ASSUME NEW t \in Moments
               PROVE  Cardinality(InWindow(wrong, t)) <= MaxFailures + Cardinality(Slots) - 1
    BY DEF LoginGuesses
  <2>1. InWindow(wrong, t) = {}
    BY <1>2
  <2> QED BY <1>6, <1>7, <2>1
<1>9. Counted
  BY <1>6 DEF Counted
<1>10. Bounded
  BY <1>3, <1>6, <1>7 DEF Bounded
<1> QED
  BY <1>2, <1>4, <1>6, <1>7, <1>8, <1>9, <1>10 DEF GuessInv

(* A restart forgets the guesses together with the failures. *)
LEMMA GuessRestartStep == GuessInv /\ LoginRestart => GuessInv'
<1> SUFFICES ASSUME GuessInv, LoginRestart PROVE GuessInv'
  OBVIOUS
<1>1. /\ clock' = clock /\ failures' = <<>> /\ lockout' = 0 /\ wrong' = <<>>
      /\ req' = [s \in Slots |-> Idle]
  BY DEF LoginRestart
<1>2. DOMAIN wrong' = {} /\ DOMAIN failures' = {} /\ \A t : InWindow(wrong, t)' = {}
  BY <1>1 DEF InWindow
<1>3. Verifying' = {} /\ Recent' = {}
  BY <1>1, <1>2 DEF Verifying, Idle, Recent, InWindow
<1>4. GuessTypes'
  BY <1>1, <1>2, FS_EmptySet, LoginAssumption DEF GuessInv, GuessTypes, Moments
<1>5. Cardinality(Slots) \in Nat
  BY FS_CardinalityType, LoginAssumption
<1>6. LoginGuesses'
  <2> SUFFICES ASSUME NEW t \in Moments
               PROVE  Cardinality(InWindow(wrong', t)) <= MaxFailures + Cardinality(Slots) - 1
    BY DEF LoginGuesses
  <2>1. InWindow(wrong', t) = {}
    BY <1>2 DEF InWindow
  <2> QED BY <1>5, <2>1, FS_EmptySet, LoginAssumption
<1> QED
  BY <1>2, <1>3, <1>4, <1>5, <1>6, FS_EmptySet, LoginAssumption DEF GuessInv, Counted, Bounded

(* Threads that neither enter nor leave the verification and the record. *)
LEMMA GuessesUntouched ==
  ASSUME GuessInv, UNCHANGED <<clock, failures, lockout, wrong>>, DOMAIN req' = Slots,
         \A s \in Slots : /\ req'[s].pc = "verify" => req[s].pc = "verify"
                          /\ req[s].pc = "record" => req'[s] = req[s]
  PROVE  GuessInv'
<1>1. GuessTypes' /\ Recent' = Recent
  BY DEF GuessInv, GuessTypes, Recent, InWindow
<1>2. Verifying' \in SUBSET Verifying
  BY DEF Verifying
<1>3. Counted'
  BY <1>1 DEF GuessInv, Counted, Recording
<1>4. Bounded'
  <2>1. Cardinality(Verifying') \in Nat /\ Cardinality(Verifying') <= Cardinality(Verifying)
    BY <1>2, CountedSets, FS_Subset, FS_CardinalityType DEF GuessInv
  <2> QED BY <1>1, <2>1, CountedSets DEF GuessInv, Bounded, Recent
<1>5. LoginGuesses'
  BY DEF GuessInv, LoginGuesses, InWindow
<1> QED BY <1>1, <1>3, <1>4, <1>5 DEF GuessInv

(* A login is let in: the lockout is over, so the whole window is counted. *)
LEMMA LetIn ==
  ASSUME GuessInv, NEW s \in Slots, NEW p, Login(s, p)
  PROVE  GuessInv'
<1> DEFINE r == [pc |-> "verify", given |-> p]
<1>1. /\ clock >= lockout /\ lockout' = 0
      /\ req[s].pc = "idle" /\ req' = [req EXCEPT ![s] = r]
      /\ UNCHANGED <<clock, failures, wrong>>
  BY DEF Login, Arrives, Idle
<1>2. GuessTypes
  BY DEF GuessInv
<1>3. /\ req'[s] = r /\ DOMAIN req' = Slots
      /\ \A o \in Slots \ {s} : req'[o] = req[o]
  BY <1>1, <1>2 DEF GuessTypes
<1>4. GuessTypes' /\ Recent' = Recent
  BY <1>1, <1>2, <1>3 DEF GuessTypes, Recent, InWindow
<1>5. Recording' = Recording /\ \A o \in Recording : req'[o] = req[o]
  BY <1>1, <1>3 DEF Recording
<1>6. ASSUME NEW g \in Recent
      PROVE  \/ g \in DOMAIN failures /\ failures[g] >= wrong[g]
             \/ g \in {req[o].guess : o \in Recording}
  <2>1. clock - wrong[g] < Window /\ wrong[g] \in Nat /\ clock \in Nat /\ lockout \in Nat
    BY <1>2, LoginAssumption DEF GuessTypes, Recent, InWindow, Moments
  <2>2. wrong[g] > lockout - Lockout
    BY <1>1, <2>1, LoginAssumption
  <2> QED BY <2>2 DEF GuessInv, Counted
<1>7. Counted'
  BY <1>1, <1>4, <1>5, <1>6 DEF Counted
<1>8. Cardinality(Recent) <= Cardinality(DOMAIN failures) + Cardinality(Recording)
  <2> DEFINE G == {req[o].guess : o \in Recording}
             f == [o \in Recording |-> req[o].guess]
  <2>1. f \in Surjection(Recording, G)
    BY DEF Surjection
  <2>2. IsFiniteSet(Recording) /\ Cardinality(Recording) \in Nat /\ IsFiniteSet(DOMAIN failures)
    BY <1>2, CountedSets DEF GuessTypes
  <2>3. IsFiniteSet(G) /\ Cardinality(G) <= Cardinality(Recording) /\ Cardinality(G) \in Nat
    <3> HIDE DEF f, G
    <3> QED BY <2>1, <2>2, FS_Surjection, FS_CardinalityType
  <2> HIDE DEF G
  <2> DEFINE U == DOMAIN failures \cup G
  <2>4. Recent \in SUBSET U
    BY <1>6 DEF G
  <2>5. IsFiniteSet(U) /\ Cardinality(U) = Cardinality(DOMAIN failures) + Cardinality(G)
                                            - Cardinality(DOMAIN failures \cap G)
    BY <2>2, <2>3, FS_Union
  <2>6. Cardinality(DOMAIN failures \cap G) \in Nat
    BY <2>2, FS_Intersection, FS_CardinalityType
  <2>7. Cardinality(Recent) <= Cardinality(U) /\ Cardinality(U) \in Nat
    <3> HIDE DEF U
    <3> QED BY <2>4, <2>5, FS_Subset, FS_CardinalityType
  <2>8. Cardinality(Recent) \in Nat /\ Cardinality(DOMAIN failures) \in Nat
    BY <1>2, CountedSets DEF Recent
  <2> HIDE DEF U
  <2> QED BY <2>2, <2>3, <2>5, <2>6, <2>7, <2>8
<1>9. Bounded'
  <2>1. GuessTypes'
    BY <1>4
  <2>2. Cardinality(Verifying') + Cardinality(Recording) <= Cardinality(Slots)
    <3>1. /\ Verifying' \in SUBSET Slots /\ Recording \in SUBSET Slots
          /\ Verifying' \cup Recording \in SUBSET Slots
          /\ Verifying' \cap Recording = {}
      BY <1>5 DEF Verifying, Recording
    <3> HIDE DEF r
    <3>2. IsFiniteSet(Verifying') /\ IsFiniteSet(Recording) /\ IsFiniteSet(Slots)
      BY <3>1, FS_Subset, LoginAssumption
    <3>3. Cardinality(Verifying' \cup Recording) <= Cardinality(Slots)
      BY <3>1, FS_Subset, LoginAssumption
    <3>4. Cardinality(Verifying' \cup Recording)
            = Cardinality(Verifying') + Cardinality(Recording) - 0
      BY <3>1, <3>2, FS_Union, FS_EmptySet
    <3>5. Cardinality(Verifying') \in Nat /\ Cardinality(Recording) \in Nat
      BY <3>2, FS_CardinalityType
    <3> QED BY <3>3, <3>4, <3>5
  <2>3. /\ Cardinality(Recent) \in Nat /\ Cardinality(Recording) \in Nat
        /\ Cardinality(DOMAIN failures) \in Nat
        /\ Cardinality(Slots) \in Nat /\ MaxFailures \in Nat
    BY <1>2, CountedSets DEF Recent
  <2>4. Cardinality(Verifying') \in Nat
    <3>1. Verifying' \in SUBSET Slots
      BY DEF Verifying
    <3> QED BY <3>1, FS_Subset, FS_CardinalityType, LoginAssumption
  <2>5. Cardinality(DOMAIN failures) <= MaxFailures - 1
    BY <2>3 DEF GuessInv
  <2> QED BY <1>4, <1>8, <2>2, <2>3, <2>4, <2>5 DEF Bounded
<1>10. LoginGuesses'
  BY <1>1 DEF GuessInv, LoginGuesses, InWindow
<1> QED BY <1>1, <1>4, <1>7, <1>9, <1>10 DEF GuessInv

(* A wrong guess: one thread less to come, one guess more in the window. *)
LEMMA GuessedWrong ==
  ASSUME GuessInv, NEW s \in Slots, VerifyLogin(s)
  PROVE  GuessInv'
<1>1. req[s].pc = "verify" /\ UNCHANGED <<clock, failures, lockout>>
  BY DEF VerifyLogin
<1>2. GuessTypes
  BY DEF GuessInv
<1>3. CASE req' = [req EXCEPT ![s] = Idle] /\ UNCHANGED wrong
  BY <1>1, <1>2, <1>3, GuessesUntouched DEF GuessTypes, Idle
<1>4. CASE /\ wrong' = Append(wrong, clock)
           /\ req' = [req EXCEPT ![s] = [pc |-> "record", guess |-> Len(wrong) + 1]]
  <2> DEFINE n == Len(wrong) + 1
  <2>1. /\ Len(wrong) \in Nat /\ DOMAIN wrong = 1..Len(wrong)
        /\ wrong' \in Seq(Moments) /\ DOMAIN wrong' = DOMAIN wrong \cup {n}
        /\ n \notin DOMAIN wrong /\ wrong'[n] = clock
        /\ \A g \in DOMAIN wrong : wrong'[g] = wrong[g]
    BY <1>2, <1>4 DEF GuessTypes
  <2>2. /\ req'[s].pc = "record" /\ req'[s].guess = n /\ DOMAIN req' = Slots
        /\ \A o \in Slots \ {s} : req'[o] = req[o]
    BY <1>2, <1>4 DEF GuessTypes
  <2>3. GuessTypes'
    BY <1>1, <1>2, <2>1, <2>2 DEF GuessTypes, Moments
  <2> HIDE DEF n
  <2>4. Recent' = Recent \cup {n} /\ n \notin Recent
    BY <1>1, <1>2, <2>1, LoginAssumption DEF Recent, InWindow, GuessTypes, Moments
  <2>5. Verifying' = Verifying \ {s} /\ s \in Verifying
    BY <1>1, <2>2 DEF Verifying
  <2>6. Bounded'
    <3>1. Cardinality(Recent') = Cardinality(Recent) + 1
      BY <1>2, <2>4, CountedSets, FS_AddElement DEF Recent
    <3>2. Cardinality(Verifying') = Cardinality(Verifying) - 1
      BY <1>2, <2>5, CountedSets, FS_RemoveElement
    <3> QED BY <1>2, <3>1, <3>2, CountedSets DEF GuessInv, Bounded, Recent
  <2>7. Counted'
    <3> SUFFICES ASSUME NEW g \in Recent', wrong'[g] > lockout - Lockout
                 PROVE  \/ g \in DOMAIN failures /\ failures[g] >= wrong'[g]
                        \/ \E o \in Recording' : req'[o].guess = g
      BY <1>1 DEF Counted
    <3>1. CASE g = n
      BY <2>2, <3>1 DEF Recording
    <3>2. CASE g \in Recent
      <4>1. wrong'[g] = wrong[g]
        BY <2>1, <3>2 DEF Recent, InWindow
      <4>2. \A o \in Recording : o \in Recording' /\ req'[o] = req[o]
        BY <1>1, <2>2 DEF Recording
      <4> QED BY <3>2, <4>1, <4>2 DEF GuessInv, Counted
    <3> QED BY <2>4, <3>1, <3>2
  <2>8. LoginGuesses'
    <3> SUFFICES ASSUME NEW t \in Moments
                 PROVE  Cardinality(InWindow(wrong', t)) <= MaxFailures + Cardinality(Slots) - 1
      BY DEF LoginGuesses
    <3>1. CASE t < clock
      <4>1. InWindow(wrong', t) = InWindow(wrong, t)
        BY <1>2, <2>1, <3>1 DEF InWindow, GuessTypes, Moments
      <4> QED BY <4>1 DEF GuessInv, LoginGuesses
    <3>2. CASE t >= clock
      <4>1. InWindow(wrong', t) \in SUBSET Recent'
        BY <1>1, <1>2, <2>1, <2>3, <3>2, LoginAssumption DEF InWindow, Recent, GuessTypes, Moments
      <4>2. /\ IsFiniteSet(Recent) /\ Cardinality(Recent) \in Nat
            /\ Cardinality(Slots) \in Nat /\ MaxFailures \in Nat
        BY <1>2, CountedSets DEF Recent
      <4>3. IsFiniteSet(Recent') /\ Cardinality(Recent') \in Nat
        BY <2>4, <4>2, FS_AddElement, FS_CardinalityType
      <4>4. /\ Cardinality(InWindow(wrong', t)) <= Cardinality(Recent')
            /\ Cardinality(InWindow(wrong', t)) \in Nat
        BY <4>1, <4>3, FS_Subset, FS_CardinalityType
      <4>5. Cardinality(Verifying') \in Nat
        <5>1. Verifying' \in SUBSET Slots
          BY DEF Verifying
        <5> QED BY <5>1, FS_Subset, FS_CardinalityType, LoginAssumption
      <4> QED BY <2>6, <4>2, <4>3, <4>4, <4>5 DEF Bounded
    <3> QED BY <1>2, <3>1, <3>2 DEF GuessTypes, Moments
  <2> QED BY <1>1, <2>3, <2>6, <2>7, <2>8 DEF GuessInv
<1> QED BY <1>3, <1>4 DEF VerifyLogin

(* A failure is recorded: the thread's guess becomes an entry, or the lockout
   begins and takes the entries with it. *)
LEMMA Recorded ==
  ASSUME GuessInv, NEW s \in Slots, Record(s)
  PROVE  GuessInv'
<1> DEFINE new == req[s].guess
           recent == InWindow(failures, clock) \cup {new}
<1>1. /\ req[s].pc = "record" /\ req' = [req EXCEPT ![s] = Idle]
      /\ UNCHANGED <<clock, wrong>>
  BY DEF Record
<1>2. GuessTypes
  BY DEF GuessInv
<1>3. /\ req'[s].pc = "idle" /\ DOMAIN req' = Slots
      /\ \A o \in Slots \ {s} : req'[o] = req[o]
  BY <1>1, <1>2 DEF GuessTypes, Idle
<1>4. Recent' = Recent /\ Verifying' = Verifying
  BY <1>1, <1>3 DEF Recent, InWindow, Verifying
<1>5. Bounded' /\ LoginGuesses'
  BY <1>1, <1>4 DEF GuessInv, Bounded, LoginGuesses, InWindow
<1>6. IsFiniteSet(recent) /\ Cardinality(recent) \in Nat
  <2>1. InWindow(failures, clock) \in SUBSET DOMAIN failures
    BY DEF InWindow
  <2>2. IsFiniteSet(InWindow(failures, clock))
    BY <1>2, <2>1, FS_Subset DEF GuessTypes
  <2> QED BY <2>2, FS_AddElement, FS_CardinalityType
<1>7. CASE lockout' = clock + Lockout /\ failures' = <<>>
  <2>1. DOMAIN failures' = {}
    BY <1>7
  <2>2. GuessTypes'
    BY <1>1, <1>2, <1>3, <1>7, <2>1, FS_EmptySet, LoginAssumption DEF GuessTypes, Moments
  <2>3. Counted'
    <3> SUFFICES ASSUME NEW g \in Recent PROVE ~(wrong[g] > lockout' - Lockout)
      BY <1>1, <1>4 DEF Counted
    <3>1. wrong[g] <= clock /\ wrong[g] \in Nat /\ clock \in Nat
      BY <1>2, LoginAssumption DEF GuessTypes, Recent, InWindow, Moments
    <3> QED BY <1>7, <3>1, LoginAssumption
  <2>4. Cardinality(DOMAIN failures') < MaxFailures
    BY <2>1, FS_EmptySet, LoginAssumption
  <2> QED BY <1>5, <2>2, <2>3, <2>4 DEF GuessInv
<1>8. CASE /\ Cardinality(recent) < MaxFailures /\ lockout' = lockout
           /\ failures' = [g \in recent |-> IF g = new THEN clock ELSE failures[g]]
  <2>1. DOMAIN failures' = recent
    BY <1>8
  <2>2. \A g \in recent : failures'[g] \in Moments /\ failures'[g] <= clock
    BY <1>2, <1>8 DEF GuessTypes, InWindow, Moments
  <2>3. GuessTypes'
    BY <1>1, <1>2, <1>3, <1>6, <1>8, <2>1, <2>2 DEF GuessTypes
  <2>4. Counted'
    <3> SUFFICES ASSUME NEW g \in Recent, wrong[g] > lockout - Lockout
                 PROVE  \/ g \in recent /\ failures'[g] >= wrong[g]
                        \/ \E o \in Recording' : req'[o].guess = g
      BY <1>1, <1>4, <1>8, <2>1 DEF Counted
    <3>1. wrong[g] <= clock /\ wrong[g] \in Nat /\ clock \in Nat /\ clock - wrong[g] < Window
      BY <1>2, LoginAssumption DEF GuessTypes, Recent, InWindow, Moments
    <3>2. CASE g = new
      BY <1>8, <3>1, <3>2
    <3>3. CASE g # new /\ g \in DOMAIN failures /\ failures[g] >= wrong[g]
      <4>1. failures[g] \in Nat /\ failures[g] <= clock
        BY <1>2, <3>3 DEF GuessTypes, Moments
      <4>2. g \in InWindow(failures, clock)
        BY <3>1, <3>3, <4>1, LoginAssumption DEF InWindow
      <4> QED BY <1>8, <3>3, <4>2
    <3>4. ASSUME NEW o \in Recording, req[o].guess = g, g # new
          PROVE  \E u \in Recording' : req'[u].guess = g
      <4>1. o # s
        BY <3>4
      <4> QED BY <1>3, <3>4, <4>1 DEF Recording
    <3> QED BY <3>2, <3>3, <3>4 DEF GuessInv, Counted
  <2> QED BY <1>5, <1>8, <2>1, <2>3, <2>4 DEF GuessInv
<1>9. ~(Cardinality(recent) >= MaxFailures) => Cardinality(recent) < MaxFailures
  <2> HIDE DEF recent
  <2> QED BY <1>6, LoginAssumption
<1> QED BY <1>7, <1>8, <1>9 DEF Record

LEMMA GuessStutter == GuessInv /\ UNCHANGED loginVars => GuessInv'
<1> SUFFICES ASSUME GuessInv, UNCHANGED loginVars PROVE GuessInv'
  OBVIOUS
<1>1. UNCHANGED <<clock, failures, lockout, wrong, req>>
  BY DEF loginVars
<1>2. DOMAIN req = Slots
  BY DEF GuessInv, GuessTypes
<1> QED BY <1>1, <1>2, GuessesUntouched

LEMMA GuessStep == GuessInv /\ LoginNext => GuessInv'
<1> SUFFICES ASSUME GuessInv, LoginNext PROVE GuessInv'
  OBVIOUS
<1>1. DOMAIN req = Slots
  BY DEF GuessInv, GuessTypes
<1>2. CASE Logout
  BY <1>1, <1>2, GuessesUntouched DEF Logout
<1>3. ASSUME NEW s \in Slots, VerifyLogin(s) \/ Record(s) PROVE GuessInv'
  BY <1>3, GuessedWrong, Recorded
<1>4. ASSUME NEW s \in Slots, NEW p, Login(s, p) PROVE GuessInv'
  BY <1>4, LetIn
<1>5. ASSUME NEW s \in Slots, NEW route, NEW key, NEW value,
             Idle = req[s], StartWrite(s, route, key, value)
      PROVE  GuessInv'
  BY <1>1, <1>5, GuessesUntouched DEF StartWrite, Idle
<1>6. ASSUME NEW s \in Slots, NEW p, NEW q,
             Setup(s, p) \/ ChangePassword(s, p, q) \/ SaveSettings(s) \/ Reset(s, p)
      PROVE  GuessInv'
  <2>1. CASE UNCHANGED loginVars
    BY <2>1, GuessStutter
  <2>2. CASE ~UNCHANGED loginVars
    BY <1>5, <1>6, <2>2 DEF Setup, ChangePassword, SaveSettings, Reset, Gate, Arrives
  <2> QED BY <2>1, <2>2
<1>7. ASSUME NEW s \in Slots, ReadRoot(s) \/ Truncate(s) \/ WriteRoot(s) PROVE GuessInv'
  <2>1. PICK r : req' = [req EXCEPT ![s] = r] /\ r.pc \in {"truncate", "write", "idle"}
    <3>1. CASE ReadRoot(s)
      <4> DEFINE r == [pc |-> "truncate", route |-> req[s].route, key |-> req[s].key, new |->
                         IF req[s].key = "all" THEN Blank
                         ELSE [Seen EXCEPT ![req[s].key] = req[s].value]]
      <4>1. req' = [req EXCEPT ![s] = r]
        BY <3>1 DEF ReadRoot
      <4>2. r.pc = "truncate"
        OBVIOUS
      <4> HIDE DEF r
      <4> QED BY <4>1, <4>2
    <3>2. CASE Truncate(s)
      <4>1. req' = [req EXCEPT ![s] = [req[s] EXCEPT !.pc = "write"]]
        BY <3>2 DEF Truncate
      <4>2. [req[s] EXCEPT !.pc = "write"].pc = "write"
        BY <3>2 DEF Truncate
      <4> QED BY <4>1, <4>2
    <3>3. CASE WriteRoot(s)
      <4>1. req' = [req EXCEPT ![s] = Idle]
        BY <3>3 DEF WriteRoot
      <4>2. Idle.pc = "idle"
        BY DEF Idle
      <4> QED BY <4>1, <4>2
    <3> QED BY <1>7, <3>1, <3>2, <3>3
  <2>2. req[s].pc \in {"read", "truncate", "write"} /\ UNCHANGED <<clock, failures, lockout, wrong>>
    BY <1>7 DEF ReadRoot, Truncate, WriteRoot
  <2> QED BY <1>1, <2>1, <2>2, GuessesUntouched
<1>8. ASSUME NEW p, VerifyAddin(p) PROVE GuessInv'
  BY <1>1, <1>8, GuessesUntouched DEF VerifyAddin
<1> QED BY <1>2, <1>3, <1>4, <1>6, <1>7, <1>8 DEF LoginNext

(* Time passes: guesses leave the window, none enters it. *)
LEMMA GuessTick == GuessInv /\ Tick => GuessInv'
<1> SUFFICES ASSUME GuessInv, Tick PROVE GuessInv'
  OBVIOUS
<1>1. /\ clock < MaxTime /\ clock' = clock + 1
      /\ UNCHANGED <<failures, lockout, req, wrong>>
  BY DEF Tick
<1>2. GuessTypes
  BY DEF GuessInv
<1>3. GuessTypes' /\ Recent' \subseteq Recent
  BY <1>1, <1>2, LoginAssumption DEF GuessTypes, Moments, Recent, InWindow
<1>4. Verifying' = Verifying /\ Recording' = Recording
  BY <1>1 DEF Verifying, Recording
<1>5. Counted'
  BY <1>1, <1>3, <1>4 DEF GuessInv, Counted
<1>6. Cardinality(Recent') \in Nat /\ Cardinality(Recent') <= Cardinality(Recent)
  BY <1>3, WindowShrinks
<1>7. Bounded'
  BY <1>2, <1>4, <1>6, CountedSets DEF GuessInv, Bounded, Recent
<1>8. LoginGuesses'
  BY <1>1 DEF GuessInv, LoginGuesses, InWindow
<1> QED BY <1>1, <1>3, <1>5, <1>7, <1>8 DEF GuessInv

-----------------------------------------------------------------------------
(***************************************************************************)
(* The guesses at the add-in's route.  A window of the limiter opens when   *)
(* the one before is over, so a period of its length meets two of them at   *)
(* most: the running one (NowAsked) and the one before (JustAsked).         *)
(***************************************************************************)
NowAsked  == {g \in DOMAIN asked : asked[g] >= addin.since}
JustAsked ==
  {g \in DOMAIN asked : asked[g] < addin.since /\ addin.since - asked[g] < AddinPeriod}

AddinGuesses == \A t \in Moments : Cardinality(InPeriod(asked, t)) <= 2 * AddinLimit

AddinTypes ==
  /\ clock \in Moments
  /\ addin \in [since: Moments, hits: 0..AddinLimit] /\ addin.since <= clock
  /\ asked \in Seq(Moments)
  /\ \A g \in DOMAIN asked : asked[g] <= clock /\ asked[g] - addin.since < AddinPeriod

AddinInv ==
  /\ AddinTypes
  /\ addin.hits = 0 => DOMAIN asked = {}
  /\ Cardinality(NowAsked) <= addin.hits
  /\ Cardinality(JustAsked) <= AddinLimit
  /\ AddinGuesses

LEMMA AskedSets ==
  ASSUME AddinTypes
  PROVE  /\ \A S : S \subseteq DOMAIN asked => IsFiniteSet(S) /\ Cardinality(S) \in Nat
         /\ NowAsked \subseteq DOMAIN asked /\ JustAsked \subseteq DOMAIN asked
<1>1. DOMAIN asked = 1..Len(asked) /\ Len(asked) \in Nat
  BY DEF AddinTypes
<1>2. IsFiniteSet(DOMAIN asked)
  BY <1>1, FS_Interval
<1>3. ASSUME NEW S, S \subseteq DOMAIN asked PROVE IsFiniteSet(S) /\ Cardinality(S) \in Nat
  <2>1. S \in SUBSET DOMAIN asked
    BY <1>3
  <2> QED BY <1>2, <2>1, FS_Subset, FS_CardinalityType
<1> QED BY <1>3 DEF NowAsked, JustAsked

(* A period that ends in the running window or later meets two windows only. *)
LEMMA TwoWindows ==
  ASSUME NEW moments \in Seq(Moments), NEW since \in Nat, NEW t \in Moments, t >= since,
         NEW now, now = {g \in DOMAIN moments : moments[g] >= since},
         NEW just, just = {g \in DOMAIN moments : /\ moments[g] < since
                                                 /\ since - moments[g] < AddinPeriod},
         Cardinality(now) <= AddinLimit, Cardinality(just) <= AddinLimit
  PROVE  Cardinality(InPeriod(moments, t)) <= 2 * AddinLimit
<1> DEFINE U == now \cup just
           D == DOMAIN moments
<1>1. IsFiniteSet(D)
  <2>1. D = 1..Len(moments) /\ Len(moments) \in Nat
    OBVIOUS
  <2> QED BY <2>1, FS_Interval
<1>2. U \in SUBSET D /\ now \in SUBSET D /\ just \in SUBSET D
  OBVIOUS
<1>3. ASSUME NEW g \in InPeriod(moments, t) PROVE g \in U
  <2>1. /\ g \in D /\ moments[g] \in Nat /\ t - moments[g] < AddinPeriod
        /\ t \in Nat /\ since <= t
    BY <1>3, LoginAssumption DEF InPeriod, Moments
  <2> QED BY <2>1, LoginAssumption
<1> HIDE DEF D
<1>4. /\ IsFiniteSet(now) /\ Cardinality(now) \in Nat
      /\ IsFiniteSet(just) /\ Cardinality(just) \in Nat
      /\ IsFiniteSet(U) /\ Cardinality(U) \in Nat
  BY <1>1, <1>2, FS_Subset, FS_CardinalityType
<1>5. Cardinality(U) = Cardinality(now) + Cardinality(just) - Cardinality(now \cap just)
  BY <1>4, FS_Union
<1>6. Cardinality(now \cap just) \in Nat
  BY <1>4, FS_Intersection, FS_CardinalityType
<1> HIDE DEF U
<1>7. InPeriod(moments, t) \in SUBSET U
  BY <1>3
<1>8. /\ Cardinality(InPeriod(moments, t)) \in Nat
      /\ Cardinality(InPeriod(moments, t)) <= Cardinality(U)
  BY <1>4, <1>7, FS_Subset, FS_CardinalityType
<1> QED BY <1>4, <1>5, <1>6, <1>8, LoginAssumption

LEMMA NothingAsked ==
  ASSUME asked = <<>>, addin = NoCalls, clock \in Moments
  PROVE  AddinInv
<1>1. DOMAIN asked = {} /\ asked \in Seq(Moments)
  OBVIOUS
<1>2. AddinTypes
  BY <1>1, LoginAssumption DEF AddinTypes, NoCalls, Moments
<1>3. NowAsked = {} /\ JustAsked = {} /\ \A t : InPeriod(asked, t) = {}
  BY <1>1 DEF NowAsked, JustAsked, InPeriod
<1>4. Cardinality({}) = 0
  BY FS_EmptySet
<1>5. AddinGuesses
  <2> SUFFICES ASSUME NEW t \in Moments PROVE Cardinality(InPeriod(asked, t)) <= 2 * AddinLimit
    BY DEF AddinGuesses
  <2>1. InPeriod(asked, t) = {}
    BY <1>3
  <2>2. 0 <= 2 * AddinLimit
    BY LoginAssumption
  <2> QED BY ONLY <1>4, <2>1, <2>2
<1> QED BY <1>1, <1>2, <1>3, <1>4, <1>5, LoginAssumption DEF AddinInv, NoCalls

(* The same after a restart. *)
LEMMA NothingAskedYet ==
  ASSUME asked' = <<>>, addin' = NoCalls, clock' \in Moments
  PROVE  AddinInv'
<1>1. DOMAIN asked' = {} /\ asked' \in Seq(Moments)
  OBVIOUS
<1>2. AddinTypes'
  BY <1>1, LoginAssumption DEF AddinTypes, NoCalls, Moments
<1>3. NowAsked' = {} /\ JustAsked' = {} /\ \A t : InPeriod(asked', t) = {}
  BY <1>1 DEF NowAsked, JustAsked, InPeriod
<1>4. Cardinality({}) = 0
  BY FS_EmptySet
<1>5. AddinGuesses'
  <2> SUFFICES ASSUME NEW t \in Moments PROVE Cardinality(InPeriod(asked', t)) <= 2 * AddinLimit
    BY DEF AddinGuesses
  <2>1. InPeriod(asked', t) = {}
    BY <1>3
  <2>2. 0 <= 2 * AddinLimit
    BY LoginAssumption
  <2> QED BY ONLY <1>4, <2>1, <2>2
<1> QED BY <1>1, <1>2, <1>3, <1>4, <1>5, LoginAssumption DEF AddinInv, NoCalls

LEMMA AddinStutter == AddinInv /\ UNCHANGED <<clock, addin, asked>> => AddinInv'
BY DEF AddinInv, AddinTypes, NowAsked, JustAsked, AddinGuesses, InPeriod

LEMMA AddinTick == AddinInv /\ Tick => AddinInv'
<1> SUFFICES ASSUME AddinInv, Tick PROVE AddinInv'
  OBVIOUS
<1>1. clock < MaxTime /\ clock' = clock + 1 /\ UNCHANGED <<addin, asked>>
  BY DEF Tick
<1>2. NowAsked' = NowAsked /\ JustAsked' = JustAsked /\ AddinGuesses'
  BY <1>1 DEF NowAsked, JustAsked, AddinInv, AddinGuesses, InPeriod
<1>3. AddinTypes'
  BY <1>1, LoginAssumption DEF AddinInv, AddinTypes, Moments
<1> QED BY <1>1, <1>2, <1>3 DEF AddinInv

(* A call the limiter lets through, in the running window or in a new one. *)
LEMMA AddinAsked ==
  ASSUME AddinInv, NEW p, VerifyAddin(p)
  PROVE  AddinInv'
<1> DEFINE open == addin.hits > 0 /\ clock - addin.since < AddinPeriod
           n == Len(asked) + 1
<1>1. /\ open => addin.hits < AddinLimit
      /\ addin' = IF open THEN [addin EXCEPT !.hits = @ + 1] ELSE [since |-> clock, hits |-> 1]
      /\ asked' = asked \/ asked' = Append(asked, clock)
      /\ clock' = clock
  BY DEF VerifyAddin
<1>2. /\ AddinTypes /\ clock \in Nat /\ addin.since \in Nat /\ addin.hits \in Nat
      /\ addin.since <= clock /\ AddinPeriod \in Nat \ {0} /\ AddinLimit \in Nat \ {0}
      /\ \A g \in DOMAIN asked : asked[g] \in Nat /\ asked[g] <= clock
  BY LoginAssumption DEF AddinInv, AddinTypes, Moments
<1>3. /\ asked' \in Seq(Moments) /\ n \notin DOMAIN asked
      /\ DOMAIN asked' \subseteq DOMAIN asked \cup {n} /\ DOMAIN asked \subseteq DOMAIN asked'
      /\ \A g \in DOMAIN asked : asked'[g] = asked[g]
      /\ n \in DOMAIN asked' => asked'[n] = clock
  <2>1. /\ Len(asked) \in Nat /\ DOMAIN asked = 1..Len(asked)
        /\ asked \in Seq(Moments) /\ clock \in Moments
    BY <1>2 DEF AddinTypes
  <2>2. CASE asked' = asked
    BY <2>1, <2>2
  <2>3. CASE asked' = Append(asked, clock)
    BY <2>1, <2>3
  <2> QED BY <1>1, <2>2, <2>3
<1> HIDE DEF n
<1>4. /\ addin' \in [since: Moments, hits: 1..AddinLimit] /\ addin'.since <= clock
      /\ \A g \in DOMAIN asked' : asked'[g] <= clock /\ asked'[g] - addin'.since < AddinPeriod
  <2>1. CASE open
    <3>1. addin' = [since |-> addin.since, hits |-> addin.hits + 1]
      BY <1>1, <1>2, <2>1 DEF AddinTypes
    <3>2. addin.since \in Moments /\ addin.hits + 1 \in 1..AddinLimit
      BY <1>1, <1>2, <2>1 DEF AddinTypes
    <3>3. addin' \in [since: Moments, hits: 1..AddinLimit]
      BY <3>1, <3>2
    <3>4. ASSUME NEW g \in DOMAIN asked'
          PROVE  asked'[g] <= clock /\ asked'[g] - addin.since < AddinPeriod
      <4>1. CASE g \in DOMAIN asked
        BY <1>2, <1>3, <4>1 DEF AddinTypes
      <4>2. CASE g = n
        BY <1>2, <1>3, <2>1, <3>4, <4>2
      <4> QED BY <1>3, <3>4, <4>1, <4>2
    <3> QED BY <1>2, <3>1, <3>3, <3>4
  <2>2. CASE ~open
    <3>1. addin' = [since |-> clock, hits |-> 1]
      BY <1>1, <2>2
    <3>2. clock \in Moments /\ 1 \in 1..AddinLimit
      BY <1>2 DEF AddinTypes
    <3>3. ASSUME NEW g \in DOMAIN asked'
          PROVE  asked'[g] <= clock /\ asked'[g] - clock < AddinPeriod
      BY <1>2, <1>3, <3>3
    <3> QED BY <1>2, <3>1, <3>2, <3>3
  <2> QED BY <2>1, <2>2
<1>5. AddinTypes'
  BY <1>1, <1>2, <1>3, <1>4 DEF AddinTypes
<1>6. /\ \A S : S \subseteq DOMAIN asked => IsFiniteSet(S) /\ Cardinality(S) \in Nat
      /\ NowAsked \subseteq DOMAIN asked /\ JustAsked \subseteq DOMAIN asked
  BY <1>2, AskedSets
<1>7. Cardinality(NowAsked') <= addin'.hits /\ Cardinality(JustAsked') <= AddinLimit
  <2>1. CASE open
    <3>1. addin'.since = addin.since /\ addin'.hits = addin.hits + 1
      BY <1>1, <1>2, <2>1 DEF AddinTypes
    <3>2. NowAsked' \in SUBSET (NowAsked \cup {n}) /\ n \notin NowAsked
      BY <1>3, <1>6, <3>1 DEF NowAsked
    <3>3. /\ IsFiniteSet(NowAsked \cup {n}) /\ Cardinality(NowAsked) \in Nat
          /\ Cardinality(NowAsked \cup {n}) = Cardinality(NowAsked) + 1
      BY <1>6, <3>2, FS_AddElement
    <3>4. Cardinality(NowAsked') \in Nat /\ Cardinality(NowAsked') <= Cardinality(NowAsked) + 1
      BY <3>2, <3>3, FS_Subset, FS_CardinalityType
    <3>5. JustAsked' \subseteq JustAsked
      BY <1>2, <1>3, <3>1 DEF JustAsked
    <3>6. Cardinality(JustAsked') <= Cardinality(JustAsked) /\ Cardinality(JustAsked') \in Nat
      <4>1. JustAsked' \in SUBSET JustAsked /\ IsFiniteSet(JustAsked)
        BY <1>6, <3>5
      <4> QED BY <4>1, FS_Subset, FS_CardinalityType
    <3>7. Cardinality(JustAsked) \in Nat
      BY <1>6
    <3> QED BY <1>2, <3>1, <3>3, <3>4, <3>6, <3>7 DEF AddinInv
  <2>2. CASE ~open
    <3>1. addin'.since = clock /\ addin'.hits = 1
      BY <1>1, <2>2
    <3>2. \A g \in DOMAIN asked : asked[g] < clock /\ addin.since + AddinPeriod <= clock
      BY <1>2, <2>2 DEF AddinInv, AddinTypes
    <3>3. NowAsked' \in SUBSET {n}
      BY <1>2, <1>3, <3>1, <3>2 DEF NowAsked
    <3>4. IsFiniteSet({n}) /\ Cardinality({n}) = 1
      BY FS_Singleton
    <3>5. Cardinality(NowAsked') <= 1
      BY <3>3, <3>4, FS_Subset
    <3>6. ASSUME NEW g \in JustAsked' PROVE g \in NowAsked
      <4>1. g \in DOMAIN asked' /\ asked'[g] < clock /\ clock - asked'[g] < AddinPeriod
        BY <3>1, <3>6 DEF JustAsked
      <4>2. g \in DOMAIN asked /\ asked'[g] = asked[g]
        BY <1>2, <1>3, <4>1
      <4>3. addin.since + AddinPeriod <= clock
        BY <3>2, <4>2
      <4> QED BY <1>2, <4>1, <4>2, <4>3 DEF NowAsked
    <3>7. JustAsked' \in SUBSET NowAsked /\ IsFiniteSet(NowAsked) /\ Cardinality(NowAsked) \in Nat
      BY <1>6, <3>6
    <3>8. Cardinality(JustAsked') <= Cardinality(NowAsked) /\ Cardinality(JustAsked') \in Nat
      BY <3>7, FS_Subset, FS_CardinalityType
    <3>9. addin.hits <= AddinLimit
      BY <1>2 DEF AddinTypes
    <3> QED BY <1>2, <3>1, <3>5, <3>7, <3>8, <3>9 DEF AddinInv
  <2> QED BY <2>1, <2>2
<1>8. AddinGuesses'
  <2> SUFFICES ASSUME NEW t \in Moments
               PROVE  Cardinality(InPeriod(asked', t)) <= 2 * AddinLimit
    BY DEF AddinGuesses
  <2>1. CASE t < clock
    <3>1. InPeriod(asked', t) = InPeriod(asked, t)
      BY <1>2, <1>3, <2>1, LoginAssumption DEF InPeriod, Moments
    <3> QED BY <3>1 DEF AddinInv, AddinGuesses
  <2>2. CASE t >= clock
    <3>1. /\ asked' \in Seq(Moments) /\ addin'.since \in Nat /\ t >= addin'.since
          /\ addin'.hits \in Nat /\ addin'.hits <= AddinLimit
      BY <1>2, <1>3, <1>4, <2>2, LoginAssumption DEF Moments
    <3>2. Cardinality(NowAsked') \in Nat /\ Cardinality(NowAsked') <= AddinLimit
      <4>1. IsFiniteSet(DOMAIN asked')
        <5>1. DOMAIN asked' = 1..Len(asked') /\ Len(asked') \in Nat
          BY <3>1
        <5> QED BY <5>1, FS_Interval
      <4>2. NowAsked' \in SUBSET DOMAIN asked'
        BY DEF NowAsked
      <4>3. Cardinality(NowAsked') \in Nat
        BY <4>1, <4>2, FS_Subset, FS_CardinalityType
      <4> QED BY <1>2, <1>7, <3>1, <4>3
    <3> QED BY <1>7, <3>1, <3>2, TwoWindows DEF NowAsked, JustAsked
  <2> QED BY <1>2, <2>1, <2>2, LoginAssumption DEF Moments
<1>9. addin'.hits # 0
  BY <1>4
<1> QED BY <1>5, <1>7, <1>8, <1>9 DEF AddinInv

LEMMA AddinStep == AddinInv /\ LoginNext => AddinInv'
<1> SUFFICES ASSUME AddinInv, LoginNext PROVE AddinInv'
  OBVIOUS
<1>1. CASE \E p \in Passwords : VerifyAddin(p)
  BY <1>1, AddinAsked
<1>2. CASE ~ \E p \in Passwords : VerifyAddin(p)
  <2>1. UNCHANGED <<clock, addin, asked>>
    BY <1>2
    DEF LoginNext, Logout, VerifyLogin, Record, ReadRoot, Truncate, WriteRoot, SaveSettings,
        Login, Setup, Reset, ChangePassword, StartWrite, loginVars
  <2> QED BY <2>1, AddinStutter
<1> QED BY <1>1, <1>2

-----------------------------------------------------------------------------
Some == Files \cup {NoFile}

TurnType ==
  [pc: {"free", "posted", "model", "draft"}, sess: Sessions, told: Some, file: Some]

UploadTypes ==
  /\ session \in Sessions /\ sess \in [Files -> Sessions]
  /\ job \in [Files -> {"new", "writing", "registered", "done"}]
  /\ tmp \subseteq Files
  /\ DOMAIN pending = Sessions /\ \A s \in Sessions : pending[s].file \in Some
  /\ attachment \in Some
  /\ turn \in [Turns -> TurnType]
  /\ drafts \subseteq [file: Files, told: Some, sess: Sessions]
  /\ order \in [Files -> Nat]

(* Before its registration a file is known to the upload alone. *)
Unknown ==
  \A f \in Files : job[f] \in {"new", "writing"} =>
    /\ \A s \in Sessions : pending[s].file # f
    /\ attachment # f /\ order[f] = 0
    /\ \A t \in Turns : turn[t].file # f /\ turn[t].told # f
    /\ \A d \in drafts : d.file # f /\ d.told # f

(* The store and the answers never hold the same file, and each holds files of
   its own session. *)
OneHand ==
  /\ \A t \in Turns : turn[t].pc # "draft" => turn[t].file = NoFile
  /\ \A t \in Turns : turn[t].file # NoFile =>
       /\ sess[turn[t].file] = turn[t].sess
       /\ \A s \in Sessions : turn[t].file # pending[s].file
  /\ \A s \in Sessions : pending[s].file # NoFile => sess[pending[s].file] = s

Registered == {f \in Files : order[f] > 0}

(* The numbers of the registrations, and that the store holds the last one of
   each session. *)
Latest ==
  /\ \A f \in Files : order[f] <= Cardinality(Registered)
  /\ \A s \in Sessions : pending[s].file # NoFile =>
       \A f \in Files : sess[f] = s => order[f] <= order[pending[s].file]
  /\ \A t \in Turns :
       turn[t].file # NoFile /\ turn[t].told # NoFile /\ sess[turn[t].told] = turn[t].sess
         => order[turn[t].told] <= order[turn[t].file]

UploadInv ==
  /\ UploadTypes /\ Unknown /\ OneHand /\ Latest
  /\ UploadsAccounted /\ NeverAnOlderFile

LEMMA UploadInitInv == UploadInit => UploadInv
<1> SUFFICES ASSUME UploadInit PROVE UploadInv
  OBVIOUS
<1> USE UploadAssumption
<1>1. 0 \in Sessions
  BY DEF Sessions
<1>2. /\ NoTurn.pc = "free" /\ NoTurn.file = NoFile /\ NoTurn.told = NoFile /\ NoTurn \in TurnType
      /\ NoEntry.file = NoFile
  BY <1>1 DEF NoTurn, NoEntry, TurnType, Some
<1>3. /\ \A t \in Turns : turn[t].file = NoFile /\ turn[t].told = NoFile
      /\ \A s \in Sessions : pending[s].file = NoFile
      /\ DOMAIN pending = Sessions
  BY <1>2 DEF UploadInit
<1>4. UploadTypes
  BY <1>1, <1>2, <1>3 DEF UploadInit, UploadTypes, Some
<1>5. \A f \in Files : order[f] = 0
  BY DEF UploadInit
<1>6. Registered = {}
  <2> SUFFICES ASSUME NEW f \in Files, order[f] > 0 PROVE FALSE
    BY DEF Registered
  <2> QED BY <1>5
<1>7. Latest
  BY <1>3, <1>5, <1>6, FS_EmptySet DEF Latest
<1>8. Unknown /\ OneHand
  BY <1>3, <1>5 DEF UploadInit, Unknown, OneHand
<1>9. UploadsAccounted /\ NeverAnOlderFile
  BY <1>3 DEF UploadInit, UploadsAccounted, NeverAnOlderFile
<1> QED BY <1>4, <1>7, <1>8, <1>9 DEF UploadInv

(* Steps of the page and of the upload that touch neither the store nor the
   numbers of the files. *)
LEMMA PageKeeps ==
  ASSUME UploadInv,
         \/ \E f \in Files : Choose(f) \/ UploadFails(f) \/ UploadAnswered(f)
         \/ ResetHistory \/ PageReady
  PROVE  UploadInv'
<1> USE UploadAssumption DEF UploadInv
<1>1. UNCHANGED <<pending, turn, drafts, order>> /\ lost' = lost
  BY DEF Choose, UploadFails, UploadAnswered, ResetHistory, PageReady
<1>2. ASSUME sess' = sess PROVE Latest' /\ OneHand' /\ NeverAnOlderFile'
  BY <1>1, <1>2 DEF Latest, Registered, OneHand, NeverAnOlderFile
<1>3. CASE PageReady
  BY <1>1, <1>2, <1>3 DEF PageReady, UploadTypes, Unknown, UploadsAccounted
<1>4. CASE ResetHistory
  <2>1. /\ session' \in Sessions /\ attachment' = NoFile
        /\ UNCHANGED <<sess, job, tmp>>
    BY <1>4 DEF ResetHistory, UploadTypes, Sessions
  <2>2. UploadTypes'
    BY <1>1, <2>1 DEF UploadTypes, Some
  <2>3. Unknown' /\ UploadsAccounted'
    BY <1>1, <2>1 DEF Unknown, UploadsAccounted
  <2> QED BY <1>2, <2>1, <2>2, <2>3
<1>5. ASSUME NEW f \in Files, Choose(f) PROVE UploadInv'
  <2>1. /\ job' = [job EXCEPT ![f] = "writing"] /\ job[f] = "new" /\ tmp' = tmp \cup {f}
        /\ sess' = [sess EXCEPT ![f] = session] /\ UNCHANGED <<session, attachment>>
    BY <1>5 DEF Choose
  <2>2. UploadTypes'
    BY <1>1, <1>5, <2>1 DEF UploadTypes
  <2>3. Unknown'
    BY <1>1, <1>5, <2>1 DEF Unknown, UploadTypes
  <2>4. UploadsAccounted'
    BY <1>1, <1>5, <2>1 DEF UploadsAccounted, Unknown, UploadTypes
  <2>5. /\ order[f] = 0 /\ \A s \in Sessions : pending[s].file # f
        /\ \A t \in Turns : turn[t].file # f /\ turn[t].told # f
        /\ \A d \in drafts : d.file # f /\ d.told # f
    BY <1>5, <2>1 DEF Unknown
  <2>6. \A g : g # f /\ g \in Files => sess'[g] = sess[g]
    BY <1>5, <2>1 DEF UploadTypes
  <2>7. OneHand'
    <3>1. ASSUME NEW t \in Turns, turn[t].file # NoFile
          PROVE  sess'[turn[t].file] = turn[t].sess
      <4>1. turn[t].file \in Files
        BY <3>1 DEF UploadTypes, TurnType, Some
      <4> QED BY <2>5, <2>6, <3>1, <4>1 DEF OneHand
    <3>2. ASSUME NEW s \in Sessions, pending[s].file # NoFile
          PROVE  sess'[pending[s].file] = s
      <4>1. pending[s].file \in Files
        BY <3>2 DEF UploadTypes, Some
      <4> QED BY <2>5, <2>6, <3>2, <4>1 DEF OneHand
    <3> QED BY <1>1, <3>1, <3>2 DEF OneHand
  <2>8. Latest'
    <3>1. ASSUME NEW s \in Sessions, pending[s].file # NoFile, NEW g \in Files, sess'[g] = s
          PROVE  order[g] <= order[pending[s].file]
      <4>1. pending[s].file \in Files /\ order[pending[s].file] \in Nat
        BY <3>1 DEF UploadTypes, Some
      <4>2. CASE g = f
        BY <2>5, <4>1, <4>2
      <4>3. CASE g # f
        BY <2>6, <3>1, <4>3 DEF Latest
      <4> QED BY <4>2, <4>3
    <3>2. ASSUME NEW t \in Turns, turn[t].file # NoFile, turn[t].told # NoFile,
                 sess'[turn[t].told] = turn[t].sess
          PROVE  order[turn[t].told] <= order[turn[t].file]
      <4>1. turn[t].told \in Files
        BY <3>2 DEF UploadTypes, TurnType, Some
      <4> QED BY <2>5, <2>6, <3>2, <4>1 DEF Latest
    <3> QED BY <1>1, <3>1, <3>2 DEF Latest, Registered
  <2>9. NeverAnOlderFile'
    <3> SUFFICES ASSUME NEW d \in drafts
                 PROVE  /\ sess'[d.file] = d.sess
                        /\ d.told # NoFile /\ sess'[d.told] = d.sess
                             => order[d.file] >= order[d.told]
      BY <1>1 DEF NeverAnOlderFile
    <3>1. d.file \in Files /\ d.told \in Some /\ d.file # f /\ d.told # f
      BY <2>5 DEF UploadTypes
    <3> QED BY <2>6, <3>1 DEF NeverAnOlderFile, Some
  <2> QED BY <2>2, <2>3, <2>4, <2>7, <2>8, <2>9
<1>6. ASSUME NEW f \in Files, UploadFails(f) PROVE UploadInv'
  <2>1. /\ job' = [job EXCEPT ![f] = "done"] /\ job[f] = "writing" /\ tmp' = tmp \ {f}
        /\ UNCHANGED <<session, sess, attachment>>
    BY <1>6 DEF UploadFails
  <2>2. UploadTypes'
    BY <1>1, <2>1 DEF UploadTypes
  <2>3. Unknown'
    BY <1>1, <2>1 DEF Unknown, UploadTypes
  <2>4. UploadsAccounted'
    BY <1>1, <2>1 DEF UploadsAccounted, UploadTypes
  <2> QED BY <1>2, <2>1, <2>2, <2>3, <2>4
<1>7. ASSUME NEW f \in Files, UploadAnswered(f) PROVE UploadInv'
  <2>1. /\ job' = [job EXCEPT ![f] = "done"] /\ job[f] = "registered"
        /\ tmp' = tmp /\ attachment' \in {attachment, f}
        /\ UNCHANGED <<session, sess>>
    BY <1>7 DEF UploadAnswered
  <2>2. UploadTypes'
    BY <1>1, <2>1 DEF UploadTypes, Some
  <2>3. Unknown'
    BY <1>1, <2>1 DEF Unknown, UploadTypes
  <2>4. UploadsAccounted'
    BY <1>1, <2>1 DEF UploadsAccounted, UploadTypes
  <2> QED BY <1>2, <2>1, <2>2, <2>3, <2>4
<1> QED BY <1>3, <1>4, <1>5, <1>6, <1>7

(* A registration: the file gets the next number and the store of its session. *)
LEMMA RegisterKeeps ==
  ASSUME UploadInv, NEW f \in Files, NEW now, Register(f, now)
  PROVE  UploadInv'
<1> USE UploadAssumption DEF UploadInv
<1> DEFINE own == sess[f]
<1>1. /\ job[f] = "writing" /\ job' = [job EXCEPT ![f] = "registered"]
      /\ pending' = [pending EXCEPT ![own] = [file |-> f, at |-> now]]
      /\ order' = [order EXCEPT ![f] = 1 + Cardinality(Registered)]
      /\ lost' = lost \cup ({pending[own].file} \ {NoFile})
      /\ UNCHANGED <<session, sess, tmp, attachment, sending, turn, drafts, sends>>
  BY DEF Register, Registered
<1>2. own \in Sessions
  BY DEF UploadTypes
<1> HIDE DEF own
<1>3. /\ pending'[own].file = f /\ DOMAIN pending' = Sessions
      /\ \A s \in Sessions \ {own} : pending'[s] = pending[s]
  BY <1>1, <1>2 DEF UploadTypes
<1>4. /\ order[f] = 0 /\ \A s \in Sessions : pending[s].file # f
      /\ \A t \in Turns : turn[t].file # f /\ turn[t].told # f
      /\ \A d \in drafts : d.file # f /\ d.told # f
  BY <1>1 DEF Unknown
<1>5. IsFiniteSet(Registered) /\ Cardinality(Registered) \in Nat
  <2>1. Registered \subseteq Files
    BY DEF Registered
  <2> QED BY <2>1, FS_Subset, FS_CardinalityType
<1>6. /\ order'[f] = 1 + Cardinality(Registered)
      /\ \A g \in Files \ {f} : order'[g] = order[g]
  BY <1>1 DEF UploadTypes
<1>7. UploadTypes'
  <2>1. \A s \in Sessions : pending'[s].file \in Some
    BY <1>3 DEF UploadTypes, Some
  <2> QED BY <1>1, <1>3, <1>5, <2>1 DEF UploadTypes
<1>8. Registered' = Registered \cup {f} /\ f \notin Registered
  <2>1. order'[f] > 0 /\ ~(order[f] > 0)
    BY <1>4, <1>5, <1>6
  <2>2. \A g \in Files \ {f} : order'[g] > 0 <=> order[g] > 0
    BY <1>6
  <2> QED BY <2>1, <2>2 DEF Registered
<1>9. Cardinality(Registered') = Cardinality(Registered) + 1
  BY <1>5, <1>8, FS_AddElement
<1>10. \A g \in Files : order[g] <= Cardinality(Registered) /\ order[g] \in Nat
  BY DEF Latest, UploadTypes
<1>11. \A g \in Files : order'[g] <= order'[f]
  BY <1>5, <1>6, <1>10
<1>12. Latest'
  <2>1. \A g \in Files : order'[g] <= Cardinality(Registered')
    <3> SUFFICES ASSUME NEW g \in Files PROVE order'[g] <= Cardinality(Registered) + 1
      BY <1>9
    <3>1. CASE g = f
      BY <1>5, <1>6, <3>1
    <3>2. CASE g # f
      BY <1>5, <1>6, <1>10, <3>2
    <3> QED BY <3>1, <3>2
  <2>2. ASSUME NEW s \in Sessions, pending'[s].file # NoFile, NEW g \in Files, sess[g] = s
        PROVE  order'[g] <= order'[pending'[s].file]
    <3>1. CASE s = own
      BY <1>3, <1>11, <3>1
    <3>2. CASE s # own
      <4>1. pending'[s] = pending[s] /\ pending[s].file \in Files \ {f} /\ g # f
        BY <1>3, <1>4, <2>2, <3>2 DEF UploadTypes, Some, own
      <4> QED BY <1>6, <2>2, <4>1 DEF Latest
    <3> QED BY <3>1, <3>2
  <2>3. ASSUME NEW t \in Turns, turn[t].file # NoFile, turn[t].told # NoFile,
               sess[turn[t].told] = turn[t].sess
        PROVE  order'[turn[t].told] <= order'[turn[t].file]
    <3>1. turn[t].told \in Files \ {f} /\ turn[t].file \in Files \ {f}
      BY <1>4, <2>3 DEF UploadTypes, TurnType, Some
    <3> QED BY <1>6, <2>3, <3>1 DEF Latest
  <2> QED BY <1>1, <2>1, <2>2, <2>3 DEF Latest
<1>13. NeverAnOlderFile'
  <2> SUFFICES ASSUME NEW d \in drafts
               PROVE  /\ sess[d.file] = d.sess
                      /\ d.told # NoFile /\ sess[d.told] = d.sess
                           => order'[d.file] >= order'[d.told]
    BY <1>1 DEF NeverAnOlderFile
  <2>1. d.file \in Files \ {f} /\ d.told \in Some \ {f}
    BY <1>4 DEF UploadTypes
  <2> QED BY <1>6, <2>1 DEF NeverAnOlderFile, Some
<1>14. Unknown'
  <2> SUFFICES ASSUME NEW g \in Files, job'[g] \in {"new", "writing"}
               PROVE  /\ \A s \in Sessions : pending'[s].file # g
                      /\ attachment # g /\ order'[g] = 0
                      /\ \A t \in Turns : turn[t].file # g /\ turn[t].told # g
                      /\ \A d \in drafts : d.file # g /\ d.told # g
    BY <1>1 DEF Unknown
  <2>1. g # f /\ job[g] \in {"new", "writing"}
    BY <1>1 DEF UploadTypes
  <2> QED BY <1>3, <1>6, <2>1 DEF Unknown
<1>15. OneHand'
  <2>1. ASSUME NEW t \in Turns, turn[t].file # NoFile
        PROVE  \A s \in Sessions : turn[t].file # pending'[s].file
    BY <1>3, <1>4, <2>1 DEF OneHand
  <2>2. ASSUME NEW s \in Sessions, pending'[s].file # NoFile
        PROVE  sess[pending'[s].file] = s
    BY <1>3, <2>2 DEF OneHand, own
  <2> QED BY <1>1, <2>1, <2>2 DEF OneHand
<1>16. UploadsAccounted'
  <2>1. ASSUME NEW g \in tmp
        PROVE  \/ job'[g] = "writing"
               \/ \E s \in Sessions : pending'[s].file = g
               \/ \E t \in Turns : turn[t].file = g
               \/ g \in lost'
    <3>1. CASE g = f
      BY <1>2, <1>3, <3>1
    <3>2. CASE g # f /\ job[g] = "writing"
      BY <1>1, <3>2 DEF UploadTypes
    <3>3. ASSUME NEW s \in Sessions, pending[s].file = g
          PROVE  g \in lost' \/ \E o \in Sessions : pending'[o].file = g
      <4>1. g # NoFile
        BY <2>1 DEF UploadTypes
      <4> QED BY <1>1, <1>3, <3>3, <4>1
    <3>4. lost \subseteq lost'
      BY <1>1
    <3> QED BY <2>1, <3>1, <3>2, <3>3, <3>4 DEF UploadsAccounted
  <2> QED BY <1>1, <2>1 DEF UploadsAccounted
<1> QED BY <1>7, <1>12, <1>13, <1>14, <1>15, <1>16

(* Steps of an answer that has no file in hand and takes none. *)
LEMMA TurnKeeps ==
  ASSUME UploadInv, NEW t \in Turns, turn[t].pc # "draft", NEW r,
         r \in [pc: {"free", "posted", "model"}, sess: Sessions,
                told: {NoFile, attachment, turn[t].told}, file: {NoFile}],
         turn' = [turn EXCEPT ![t] = r],
         UNCHANGED <<session, sess, job, tmp, pending, attachment, drafts, order, lost>>
  PROVE  UploadInv'
<1> USE UploadAssumption DEF UploadInv
<1>1. /\ r.file = NoFile /\ r.told \in {NoFile, attachment, turn[t].told}
      /\ r.pc \in {"free", "posted", "model"}
  OBVIOUS
<1>2. turn[t].told \in Some /\ attachment \in Some /\ turn[t].file = NoFile
  BY DEF UploadTypes, TurnType, OneHand
<1>3. r \in TurnType
  BY <1>2 DEF Some, TurnType
<1>4. UploadTypes'
  BY <1>2, <1>3 DEF UploadTypes, Some
<1>5. /\ turn'[t] = r
      /\ \A u \in Turns \ {t} : turn'[u] = turn[u]
  BY DEF UploadTypes
<1>6. Unknown'
  <2> SUFFICES ASSUME NEW f \in Files, job[f] \in {"new", "writing"}, NEW u \in Turns
               PROVE  turn'[u].file # f /\ turn'[u].told # f
    BY DEF Unknown
  <2>1. attachment # f /\ turn[u].file # f /\ turn[u].told # f /\ turn[t].told # f /\ NoFile # f
    BY DEF Unknown
  <2>2. CASE u = t
    BY <1>1, <1>5, <2>1, <2>2
  <2>3. CASE u # t
    BY <1>5, <2>1, <2>3
  <2> QED BY <2>2, <2>3
<1>7. OneHand' /\ Latest'
  BY <1>1, <1>2, <1>5 DEF OneHand, Latest, Registered
<1>8. UploadsAccounted' /\ NeverAnOlderFile'
  BY <1>1, <1>2, <1>5 DEF UploadsAccounted, NeverAnOlderFile
<1> QED BY <1>4, <1>6, <1>7, <1>8

(* The answer takes the reference of its session, or drops an expired one. *)
LEMMA ConsumptionKeeps ==
  ASSUME UploadInv, NEW t \in Turns, NEW now, Consume(t, now)
  PROVE  UploadInv'
<1> USE UploadAssumption DEF UploadInv
<1> DEFINE own == turn[t].sess
           f == pending[own].file
<1>1. /\ turn[t].pc = "model" /\ f # NoFile
      /\ pending' = [pending EXCEPT ![own] = NoEntry]
      /\ UNCHANGED <<session, sess, job, tmp, attachment, drafts, order>>
      /\ \/ lost' = lost \cup {f} /\ UNCHANGED turn
         \/ turn' = [turn EXCEPT ![t].pc = "draft", ![t].file = f] /\ UNCHANGED lost
  BY DEF Consume
<1>2. own \in Sessions
  BY DEF UploadTypes, TurnType
<1>3. f \in Files
  BY <1>1, <1>2 DEF UploadTypes, Some
<1>4. sess[f] = own
  BY <1>1, <1>2 DEF OneHand
<1>5. turn[t].file = NoFile /\ \A u \in Turns : turn[u].file # f
  BY <1>1, <1>2 DEF OneHand
<1>6. order[f] \in Nat /\ \A g \in Files : sess[g] = own => order[g] <= order[f]
  BY <1>1, <1>2, <1>3 DEF Latest, UploadTypes
<1>7. \A g \in Files : job[g] \in {"new", "writing"} => g # f
  BY <1>2 DEF Unknown
<1>8. \A s \in Sessions \ {own} : pending[s].file # f
  BY <1>1, <1>4 DEF OneHand
<1>9. /\ DOMAIN pending' = Sessions /\ pending'[own].file = NoFile
      /\ \A s \in Sessions \ {own} : pending'[s] = pending[s]
  BY <1>1, <1>2 DEF UploadTypes, NoEntry
<1>10. \A s \in Sessions : pending'[s].file \in {NoFile, pending[s].file} /\ pending'[s].file # f
  BY <1>1, <1>8, <1>9
<1> HIDE DEF f
<1>11. \A g \in tmp : g # f /\ (\E s \in Sessions : pending[s].file = g)
                        => \E s \in Sessions : pending'[s].file = g
  <2> SUFFICES ASSUME NEW g \in tmp, g # f, NEW s \in Sessions, pending[s].file = g
               PROVE  pending'[s].file = g
    OBVIOUS
  <2>1. s # own
    BY DEF f
  <2> QED BY <1>9, <2>1
<1> HIDE DEF own
<1>12. CASE lost' = lost \cup {f} /\ UNCHANGED turn
  <2>1. UploadTypes'
    BY <1>1, <1>9, <1>10, <1>12 DEF UploadTypes, Some
  <2>2. Unknown'
    BY <1>1, <1>10, <1>12 DEF Unknown
  <2>3. OneHand'
    BY <1>1, <1>10, <1>12 DEF OneHand
  <2>4. Latest'
    BY <1>1, <1>10, <1>12 DEF Latest, Registered
  <2>5. NeverAnOlderFile'
    BY <1>1 DEF NeverAnOlderFile
  <2>6. UploadsAccounted'
    BY <1>1, <1>11, <1>12 DEF UploadsAccounted
  <2> QED BY <2>1, <2>2, <2>3, <2>4, <2>5, <2>6
<1>13. CASE turn' = [turn EXCEPT ![t].pc = "draft", ![t].file = f] /\ UNCHANGED lost
  <2>1. /\ turn'[t].pc = "draft" /\ turn'[t].file = f /\ turn'[t].told = turn[t].told
        /\ turn'[t].sess = turn[t].sess
        /\ \A u \in Turns \ {t} : turn'[u] = turn[u]
    BY <1>13 DEF UploadTypes, TurnType
  <2>2. UploadTypes'
    <3> PICK g \in Some : turn' = [turn EXCEPT ![t].pc = "draft", ![t].file = g]
      BY <1>3, <1>13 DEF Some
    <3>1. turn' \in [Turns -> TurnType]
      BY DEF UploadTypes, TurnType
    <3> QED BY <1>1, <1>9, <1>10, <1>13, <3>1 DEF UploadTypes, Some
  <2>3. Unknown'
    <3> SUFFICES ASSUME NEW g \in Files, job[g] \in {"new", "writing"}
                 PROVE  /\ \A u \in Turns : turn'[u].file # g /\ turn'[u].told # g
                        /\ \A s \in Sessions : pending'[s].file # g
      BY <1>1 DEF Unknown
    <3>1. f # g /\ \A u \in Turns : turn[u].file # g /\ turn[u].told # g
      BY <1>7 DEF Unknown
    <3>2. \A u \in Turns : turn'[u].file # g /\ turn'[u].told # g
      BY <2>1, <3>1
    <3>3. NoFile # g /\ \A s \in Sessions : pending[s].file # g
      BY DEF Unknown
    <3> QED BY <1>10, <3>2, <3>3
  <2>4. OneHand'
    <3>1. ASSUME NEW u \in Turns PROVE turn'[u].pc # "draft" => turn'[u].file = NoFile
      BY <2>1 DEF OneHand
    <3>2. ASSUME NEW u \in Turns, turn'[u].file # NoFile
          PROVE  /\ sess[turn'[u].file] = turn'[u].sess
                 /\ \A s \in Sessions : turn'[u].file # pending'[s].file
      <4>1. CASE u = t
        BY <1>4, <1>10, <2>1, <4>1 DEF own
      <4>2. CASE u # t
        BY <1>10, <2>1, <3>2, <4>2 DEF OneHand
      <4> QED BY <4>1, <4>2
    <3>3. \A s \in Sessions : pending'[s].file # NoFile => sess[pending'[s].file] = s
      BY <1>10 DEF OneHand
    <3> QED BY <1>1, <3>1, <3>2, <3>3 DEF OneHand
  <2>5. Latest'
    <3>1. ASSUME NEW u \in Turns, turn'[u].file # NoFile, turn'[u].told # NoFile,
                 sess[turn'[u].told] = turn'[u].sess
          PROVE  order[turn'[u].told] <= order[turn'[u].file]
      <4>1. CASE u = t
        <5>1. turn[t].told \in Files /\ sess[turn[t].told] = own
          BY <2>1, <3>1, <4>1 DEF UploadTypes, TurnType, Some, own
        <5> QED BY <1>6, <2>1, <4>1, <5>1
      <4>2. CASE u # t
        BY <2>1, <3>1, <4>2 DEF Latest
      <4> QED BY <4>1, <4>2
    <3>2. ASSUME NEW s \in Sessions, pending'[s].file # NoFile
          PROVE  \A g \in Files : sess[g] = s => order[g] <= order[pending'[s].file]
      BY <1>10, <3>2 DEF Latest
    <3> QED BY <1>1, <3>1, <3>2 DEF Latest, Registered
  <2>6. UploadsAccounted'
    <3>1. ASSUME NEW g \in tmp
          PROVE  \/ job[g] = "writing" \/ g \in lost
                 \/ \E s \in Sessions : pending'[s].file = g
                 \/ \E u \in Turns : turn'[u].file = g
      <4>1. CASE g = f
        BY <2>1, <4>1
      <4>2. CASE g # f
        <5>1. g # NoFile
          BY <3>1 DEF UploadTypes
        <5>2. \A u \in Turns : turn[u].file = g => turn'[u].file = g
          BY <1>5, <2>1, <5>1
        <5> QED BY <1>11, <3>1, <4>2, <5>2 DEF UploadsAccounted
      <4> QED BY <4>1, <4>2
    <3>2. \A u, v \in Turns : turn'[u].file # NoFile /\ turn'[u].file = turn'[v].file => u = v
      BY <1>5, <2>1 DEF UploadsAccounted
    <3> QED BY <1>1, <1>13, <3>1, <3>2 DEF UploadsAccounted
  <2>7. NeverAnOlderFile'
    BY <1>1 DEF NeverAnOlderFile
  <2> QED BY <2>2, <2>3, <2>4, <2>5, <2>6, <2>7
<1> QED BY <1>1, <1>12, <1>13

(* The draft, and the end of the temporary file. *)
LEMMA DraftKeeps ==
  ASSUME UploadInv, NEW t \in Turns, Draft(t)
  PROVE  UploadInv'
<1> USE UploadAssumption DEF UploadInv
<1> DEFINE f == turn[t].file
           d == [file |-> f, told |-> turn[t].told, sess |-> turn[t].sess]
<1>1. /\ turn' = [turn EXCEPT ![t].pc = "model", ![t].file = NoFile]
      /\ tmp' = tmp \ {f}
      /\ UNCHANGED <<session, sess, job, pending, attachment, order, lost>>
  BY DEF Draft
<1>2. \/ f \in tmp /\ drafts' = drafts \cup {d}
      \/ drafts' = drafts
  BY DEF Draft
<1>3. /\ turn'[t].pc = "model" /\ turn'[t].file = NoFile /\ turn'[t].told = turn[t].told
      /\ turn'[t].sess = turn[t].sess
      /\ \A u \in Turns \ {t} : turn'[u] = turn[u]
  BY <1>1 DEF UploadTypes, TurnType
<1>4. f \in Some /\ turn[t].told \in Some /\ turn[t].sess \in Sessions
  BY DEF UploadTypes, TurnType
<1>5. f \in tmp => f \in Files /\ f # NoFile
  BY DEF UploadTypes
<1>6. UploadTypes'
  <2>1. turn' \in [Turns -> TurnType]
    <3>1. PICK none \in Some : none = NoFile
      BY DEF Some
    <3>2. turn' = [turn EXCEPT ![t].pc = "model", ![t].file = none]
      BY <1>1, <3>1
    <3> QED BY <3>2 DEF UploadTypes, TurnType
  <2>2. drafts' \subseteq [file: Files, told: Some, sess: Sessions]
    BY <1>2, <1>4, <1>5 DEF UploadTypes
  <2> QED BY <1>1, <2>1, <2>2 DEF UploadTypes
<1>7. Unknown'
  <2> SUFFICES ASSUME NEW g \in Files, job[g] \in {"new", "writing"}
               PROVE  /\ \A u \in Turns : turn'[u].file # g /\ turn'[u].told # g
                      /\ \A e \in drafts' : e.file # g /\ e.told # g
    BY <1>1 DEF Unknown
  <2>1. \A u \in Turns : turn'[u].file # g /\ turn'[u].told # g
    BY <1>3 DEF Unknown
  <2>2. d.file # g /\ d.told # g
    BY DEF Unknown
  <2>3. \A e \in drafts : e.file # g /\ e.told # g
    BY DEF Unknown
  <2> HIDE DEF d
  <2> QED BY <1>2, <2>1, <2>2, <2>3
<1>8. OneHand'
  <2>1. ASSUME NEW u \in Turns, turn'[u].file # NoFile
        PROVE  u # t /\ turn'[u] = turn[u]
    BY <1>3, <2>1
  <2>2. \A u \in Turns : turn'[u].pc # "draft" => turn'[u].file = NoFile
    BY <1>3 DEF OneHand
  <2> HIDE DEF f
  <2>3. UNCHANGED <<sess, pending>>
    BY <1>1
  <2> QED BY <2>1, <2>2, <2>3 DEF OneHand
<1>9. Latest'
  <2>1. ASSUME NEW u \in Turns, turn'[u].file # NoFile
        PROVE  turn'[u] = turn[u]
    BY <1>3, <2>1
  <2> HIDE DEF f
  <2> QED BY <1>1, <2>1 DEF Latest, Registered
<1>10. UploadsAccounted'
  <2>1. ASSUME NEW g \in tmp'
        PROVE  \/ job'[g] = "writing" \/ (\E s \in Sessions : pending'[s].file = g)
               \/ \E u \in Turns : turn'[u].file = g
               \/ g \in lost'
    BY <1>1, <1>3, <2>1 DEF UploadsAccounted
  <2>2. \A u, v \in Turns : turn'[u].file # NoFile /\ turn'[u].file = turn'[v].file => u = v
    BY <1>3 DEF UploadsAccounted
  <2>3. d.file = f
    OBVIOUS
  <2>4. \A e \in drafts : f \in tmp => e.file # f
    BY DEF UploadsAccounted
  <2>5. \A e \in drafts' : e.file \notin tmp'
    BY <1>1, <1>2, <2>3 DEF UploadsAccounted
  <2>6. \A e, g \in drafts' : e.file = g.file => e = g
    BY <1>2, <2>3, <2>4 DEF UploadsAccounted
  <2> QED BY <2>1, <2>2, <2>5, <2>6 DEF UploadsAccounted
<1>11. NeverAnOlderFile'
  <2>1. ASSUME f \in tmp
        PROVE  /\ sess[d.file] = d.sess
               /\ d.told # NoFile /\ sess[d.told] = d.sess => order[d.file] >= order[d.told]
    <3>1. f # NoFile /\ sess[f] = turn[t].sess
      BY <1>5, <2>1 DEF OneHand
    <3>2. ASSUME turn[t].told # NoFile, sess[turn[t].told] = turn[t].sess
          PROVE  order[turn[t].told] <= order[f] /\ order[f] \in Nat /\ order[turn[t].told] \in Nat
      BY <1>4, <1>5, <2>1, <3>1, <3>2 DEF Latest, UploadTypes, Some
    <3> HIDE DEF f
    <3> QED BY <3>1, <3>2
  <2> HIDE DEF d
  <2> QED BY <1>1, <1>2, <2>1 DEF NeverAnOlderFile
<1> QED BY <1>6, <1>7, <1>8, <1>9, <1>10, <1>11

LEMMA UploadStep ==
  ASSUME UploadInv, NEW now, UploadNext(now)
  PROVE  UploadInv'
<1>1. CASE \/ \E f \in Files : Choose(f) \/ UploadFails(f) \/ UploadAnswered(f)
           \/ ResetHistory \/ PageReady
  BY <1>1, PageKeeps
<1>2. ASSUME NEW f \in Files, Register(f, now) PROVE UploadInv'
  BY <1>2, RegisterKeeps
<1>3. ASSUME NEW t \in Turns, Consume(t, now) PROVE UploadInv'
  BY <1>3, ConsumptionKeeps
<1>4. ASSUME NEW t \in Turns, Draft(t) PROVE UploadInv'
  BY <1>4, DraftKeeps
<1>5. ASSUME NEW t \in Turns,
             \/ Send(t) \/ SendRefused(t) \/ TurnStarts(t) \/ TurnEnds(t)
      PROVE  UploadInv'
  <2>1. turn[t] \in TurnType /\ DOMAIN turn = Turns /\ session \in Sessions /\ 0 \in Sessions
    BY UploadAssumption DEF UploadInv, UploadTypes, Sessions
  <2>2. turn[t].pc # "draft" /\ turn[t].file = NoFile
    BY <1>5 DEF Send, SendRefused, TurnStarts, TurnEnds, UploadInv, OneHand
  <2>3. UNCHANGED <<session, sess, job, tmp, pending, attachment, drafts, order, lost>>
    BY <1>5 DEF Send, SendRefused, TurnStarts, TurnEnds
  <2>4. CASE Send(t)
    <3> DEFINE r == [pc |-> "posted", sess |-> session, told |-> attachment, file |-> NoFile]
    <3>1. r \in [pc: {"free", "posted", "model"}, sess: Sessions,
                 told: {NoFile, attachment, turn[t].told}, file: {NoFile}]
      BY <2>1
    <3>2. turn' = [turn EXCEPT ![t] = r]
      BY <2>4 DEF Send
    <3> HIDE DEF r
    <3> QED BY <2>2, <2>3, <3>1, <3>2, TurnKeeps
  <2>5. CASE SendRefused(t) \/ TurnEnds(t)
    <3>1. turn' = [turn EXCEPT ![t] = NoTurn]
      BY <2>5 DEF SendRefused, TurnEnds
    <3>2. NoTurn \in [pc: {"free", "posted", "model"}, sess: Sessions,
                      told: {NoFile, attachment, turn[t].told}, file: {NoFile}]
      BY <2>1 DEF NoTurn
    <3> QED BY <2>2, <2>3, <3>1, <3>2, TurnKeeps
  <2>6. CASE TurnStarts(t)
    <3> DEFINE r == [turn[t] EXCEPT !.pc = "model"]
    <3>1. r \in [pc: {"free", "posted", "model"}, sess: Sessions,
                 told: {NoFile, attachment, turn[t].told}, file: {NoFile}]
      BY <2>1, <2>2 DEF TurnType
    <3>2. turn' = [turn EXCEPT ![t] = r]
      BY <2>1, <2>6 DEF TurnStarts
    <3> HIDE DEF r
    <3> QED BY <2>2, <2>3, <3>1, <3>2, TurnKeeps
  <2> QED BY <1>5, <2>4, <2>5, <2>6
<1>6. ASSUME NEW t \in Turns, SendAccepted(t) PROVE UploadInv'
  <2>1. /\ attachment' \in {attachment, NoFile}
        /\ UNCHANGED <<session, sess, job, tmp, pending, turn, drafts, order, lost>>
    BY <1>6 DEF SendAccepted
  <2> QED
    BY <2>1, UploadAssumption
    DEF UploadInv, UploadTypes, Some, Unknown, OneHand, Latest, Registered,
        UploadsAccounted, NeverAnOlderFile
<1> QED BY <1>1, <1>2, <1>3, <1>4, <1>5, <1>6 DEF UploadNext

LEMMA UploadRestartStep == UploadInv /\ UploadRestart => UploadInv'
<1> SUFFICES ASSUME UploadInv, UploadRestart PROVE UploadInv'
  OBVIOUS
<1> USE UploadAssumption DEF UploadInv
<1>1. /\ turn' = [t \in Turns |-> NoTurn] /\ lost' = lost \cup tmp
      /\ job' = [f \in Files |-> IF job[f] = "new" THEN "new" ELSE "done"]
      /\ UNCHANGED <<session, sess, tmp, attachment, drafts, order>>
  BY DEF UploadRestart
<1>2. DOMAIN pending' = Sessions /\ \A s \in Sessions : pending'[s].file = NoFile
  BY DEF UploadRestart, NoEntry
<1>3. /\ NoTurn.file = NoFile /\ NoTurn.told = NoFile
      /\ NoTurn \in TurnType
  BY UploadAssumption DEF NoTurn, Some, TurnType, Sessions
<1>4. \A t \in Turns : turn'[t].file = NoFile /\ turn'[t].told = NoFile
  BY <1>1, <1>3
<1>5. UploadTypes'
  BY <1>1, <1>2, <1>3 DEF UploadTypes, Some
<1>6. Unknown' /\ OneHand' /\ Latest'
  BY <1>1, <1>2, <1>4 DEF Unknown, OneHand, Latest, Registered
<1>7. UploadsAccounted' /\ NeverAnOlderFile'
  BY <1>1, <1>2, <1>4 DEF UploadsAccounted, NeverAnOlderFile
<1> QED BY <1>5, <1>6, <1>7

-----------------------------------------------------------------------------
LEMMA UploadStutter == UploadInv /\ UNCHANGED uploadVars => UploadInv'
BY DEF uploadVars, UploadInv, UploadTypes, Unknown, OneHand, Latest, Registered,
       UploadsAccounted, NeverAnOlderFile

(* Logins, the add-in's guesses and attachments are independent but for the
   clock, the page's need of a password and a restart. *)
THEOREM WebUISafe == Spec => [](LoginInv /\ GuessInv /\ AddinInv /\ UploadInv)
<1> DEFINE Inv == LoginInv /\ GuessInv /\ AddinInv /\ UploadInv
<1>1. Init => Inv
  <2>1. LoginInit => AddinInv
    <3>1. LoginInit => asked = <<>> /\ addin = NoCalls /\ clock \in Moments
      BY LoginAssumption DEF LoginInit, Moments
    <3> QED BY <3>1, NothingAsked
  <2> QED BY <2>1, LoginInitInv, GuessInitInv, UploadInitInv DEF Init
<1>2. Inv /\ [Next]_vars => Inv'
  <2> SUFFICES ASSUME LoginInv, GuessInv, AddinInv, UploadInv, [Next]_vars
               PROVE  LoginInv' /\ GuessInv' /\ AddinInv' /\ UploadInv'
    OBVIOUS
  <2>0. UNCHANGED loginVars => AddinInv'
    <3>1. UNCHANGED loginVars => UNCHANGED <<clock, addin, asked>>
      BY DEF loginVars
    <3> QED BY <3>1, AddinStutter
  <2>1. CASE Account
    BY <2>1, LoginStep, GuessStep, AddinStep, UploadStutter DEF Account
  <2>2. CASE Chat
    BY <2>0, <2>2, UploadStep, LoginStutter, GuessStutter DEF Chat
  <2>3. CASE Tick
    <3>1. LoginInv'
      BY <2>3 DEF Tick, LoginInv, OneWriter, Writing, Settled, Intended
    <3> QED BY <2>3, <3>1, GuessTick, AddinTick, UploadStutter DEF Tick
  <2>4. CASE Restart
    <3>1. AddinInv'
      <4>1. /\ asked' = <<>> /\ addin' = NoCalls /\ clock' \in Moments
        BY <2>4 DEF Restart, LoginRestart, AddinInv, AddinTypes
      <4> QED BY <4>1, NothingAskedYet
    <3> QED BY <2>4, <3>1, LoginRestartStep, GuessRestartStep, UploadRestartStep DEF Restart
  <2>5. CASE UNCHANGED vars
    BY <2>0, <2>5, LoginStutter, GuessStutter, UploadStutter DEF vars
  <2> QED BY <2>1, <2>2, <2>3, <2>4, <2>5 DEF Next
<1> QED BY <1>1, <1>2, PTL DEF Spec

(* What one address can guess without a session: at /login no more within any
   window than the failures allowed plus the other threads, in any interleaving
   of _check_login_lockout, verify_password and _record_login_failure; at
   addin_verify_password no more within any period than twice its limit. *)
THEOREM GuessesStayBounded == Spec => []GuessesBounded
<1>1. GuessInv /\ AddinInv => GuessesBounded
  BY DEF GuessInv, AddinInv, LoginGuesses, AddinGuesses, GuessesBounded
<1> QED BY <1>1, WebUISafe, PTL

(* The root .env keeps what was acknowledged: config_io.write_env and
   reset_all under the four handlers that call them. *)
THEOREM RootSettingsStick == Spec => []PasswordSticks
<1>1. LoginInv => PasswordSticks
  BY DEF LoginInv, OneWriter, PasswordSticks, Settled
<1> QED BY <1>1, WebUISafe, PTL

(* No temporary file is forgotten unaccounted, and none is attached twice:
   register_pending_upload, _consume_pending_upload, entwurf_mit_anhang. *)
THEOREM NoUploadIsMislaid == Spec => []UploadsAccounted
<1>1. UploadInv => UploadsAccounted
  BY DEF UploadInv
<1> QED BY <1>1, WebUISafe, PTL

(* A draft never carries a file of another session, nor one older than the one
   its answer was told of in its session: register_pending_upload and
   _consume_pending_upload under the page's uploads, messages and resets. *)
THEOREM AttachmentIsFresh == Spec => []NeverAnOlderFile
<1>1. UploadInv => NeverAnOlderFile
  BY DEF UploadInv
<1> QED BY <1>1, WebUISafe, PTL
=============================================================================
