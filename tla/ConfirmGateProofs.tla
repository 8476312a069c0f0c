------------------------- MODULE ConfirmGateProofs -------------------------
(***************************************************************************)
(* Proofs about the confirmation of moves (module ConfirmGate), for any    *)
(* number of sessions, targets, requests, windows and events.              *)
(*                                                                         *)
(* Neither property is inductive.  That a token needs a user turn rests on *)
(* where the tokens in a conversation can come from: the tool calls of     *)
(* earlier requests of that session (QuotedWasAsked, KnownWasAsked).  That *)
(* a session move was confirmed rests on what an authorization records     *)
(* (AuthorizationIsConfirmation).                                          *)
(***************************************************************************)
EXTENDS ConfirmGate, TLAPS

Request == [session: Sessions \cup {NoSession}, running: BOOLEAN,
            known: SUBSET Token, issued: SUBSET Token]

Started ==
  \A r \in Requests :
    IF r <= started THEN req[r].session \in Sessions ELSE ~req[r].running

(* Token tok was issued in one of the first n requests, one of session s.  *)
IssuedBy(n, s, tok) == \E q \in 1..n : req[q].session = s /\ tok \in req[q].issued

QuotedWasAsked == \A s \in Sessions : \A tok \in quoted[s] : IssuedBy(started, s, tok)
KnownWasAsked ==
  \A r \in 1..started : \A tok \in req[r].known : IssuedBy(r - 1, req[r].session, tok)

AuthorizationIsConfirmation ==
  \A s \in Sessions :
    authorizedAt[s] # Never => s # Anonymous /\ confirmedAt[s] = authorizedAt[s]

IInv ==
  /\ TypeOK
  /\ Started
  /\ QuotedWasAsked
  /\ KnownWasAsked
  /\ AuthorizationIsConfirmation
  /\ TokenNeedsUserTurn
  /\ SessionMoveWasConfirmed

(* The invariant holds when nothing has been asked yet.                    *)
LEMMA InitIInv == Init => IInv
<1> USE ConstantsAssumption
<1>1. SUFFICES ASSUME Init PROVE IInv
  OBVIOUS
<1>2. TypeOK
  BY <1>1 DEF Init, TypeOK, Clock, Requests, NoRequest, NoMove, Never, Token
<1>3. Started
  BY <1>1 DEF Init, Started, Requests, NoRequest
<1>4. QuotedWasAsked /\ KnownWasAsked
  BY <1>1 DEF Init, QuotedWasAsked, KnownWasAsked
<1>5. AuthorizationIsConfirmation
  BY <1>1 DEF Init, AuthorizationIsConfirmation
<1>6. TokenNeedsUserTurn /\ SessionMoveWasConfirmed
  BY <1>1 DEF Init, TokenNeedsUserTurn, SessionMoveWasConfirmed, NoMove
<1> QED
  BY <1>2, <1>3, <1>4, <1>5, <1>6 DEF IInv

-----------------------------------------------------------------------------
(* Types, one step per action.                                             *)
LEMMA EndedIsRequest ==
  ASSUME NEW x \in Request
  PROVE  [x EXCEPT !.running = FALSE] \in Request
BY DEF Request

LEMMA TypeStep == TypeOK /\ Started /\ [Next]_vars => TypeOK'
<1> USE ConstantsAssumption
<1>1. SUFFICES ASSUME TypeOK, Started, [Next]_vars PROVE TypeOK'
  OBVIOUS
<1>0. req \in [Requests -> Request]
  BY <1>1 DEF TypeOK, Request
<1>2. ASSUME NEW s \in Sessions, SendMessage(s) PROVE TypeOK'
  <2>1. started + 1 \in Requests
    BY <1>1, <1>2 DEF TypeOK, SendMessage, Requests
  <2>2. quoted[s] \in SUBSET Token
    BY <1>1 DEF TypeOK
  <2>3. req' \in [Requests -> Request]
    BY <1>1, <1>2, <2>1, <2>2 DEF TypeOK, SendMessage, Request
  <2> QED
    BY <1>1, <1>2, <2>3 DEF TypeOK, SendMessage, NoMove, Request
<1>3. ASSUME NEW r \in Requests, NEW t \in Targets, NEW tok, Ask(r, t, tok)
      PROVE TypeOK'
  <2>1. Issued(t) \in Token
    BY <1>1 DEF TypeOK, Issued, Token
  <2>2. req' \in [Requests -> Request]
    BY <1>1, <1>3, <2>1 DEF TypeOK, Ask, Request
  <2> QED
    BY <1>1, <1>3, <2>2 DEF TypeOK, Ask, NoMove, Request
<1>4. ASSUME NEW r \in Requests, NEW t \in Targets, NEW tok, Move(r, t, tok)
      PROVE TypeOK'
  <2>1. req[r].session \in Sessions \cup {NoSession}
    BY <1>1 DEF TypeOK
  <2>2. confirmedAt' \in [Sessions -> Clock \cup {Never}]
    BY <1>1, <1>4 DEF TypeOK, Move
  <2>3. authorizedAt' \in [Sessions -> Clock \cup {Never}]
    BY <1>1, <1>4 DEF TypeOK, Move, Authorize
  <2>4. moved' \in [request: 0..MaxRequests, session: Sessions \cup {NoSession},
                    target: Targets \cup {"none"}, how: {"none", "off", "session", "token"}]
    BY <1>1, <1>4, <2>1 DEF TypeOK, Move, NoMove, Requests
  <2> QED
    BY <1>1, <1>4, <2>2, <2>3, <2>4 DEF TypeOK, Move
<1>5. ASSUME NEW r \in Requests, EndRequest(r) PROVE TypeOK'
  <2>1. req' \in [Requests -> Request]
    <3>1. [req[r] EXCEPT !.running = FALSE] \in Request
      BY <1>0, EndedIsRequest
    <3>2. req' = [req EXCEPT ![r] = [req[r] EXCEPT !.running = FALSE]]
      BY <1>0, <1>5 DEF EndRequest
    <3> QED
      BY <1>0, <3>1, <3>2
  <2>2. quoted' \in [Sessions -> SUBSET Token]
    <3>1. req[r].issued \in SUBSET Token
      BY <1>0 DEF Request
    <3> QED
      BY <1>1, <1>5, <3>1 DEF TypeOK, EndRequest
  <2> QED
    BY <1>1, <1>5, <2>1, <2>2 DEF TypeOK, EndRequest, NoMove, Request
<1>6. CASE Tick
  BY <1>1, <1>6 DEF TypeOK, Tick, Clock, NoMove
<1>7. CASE Restart
  <2>1. req' \in [Requests -> Request]
    <3>1. \A r \in Requests : [req[r] EXCEPT !.running = FALSE] \in Request
      <4> TAKE r \in Requests
      <4>1. req[r] \in Request
        BY <1>0
      <4> QED
        BY <4>1, EndedIsRequest
    <3>2. req' = [r \in Requests |-> [req[r] EXCEPT !.running = FALSE]]
      BY <1>7 DEF Restart
    <3> QED
      BY <3>1, <3>2
  <2>2. /\ authorizedAt' \in [Sessions -> Clock \cup {Never}]
        /\ confirmedAt' \in [Sessions -> Clock \cup {Never}]
    BY <1>7 DEF Restart
  <2>3. events' \in 0..MaxEvents
    BY <1>1, <1>7 DEF TypeOK, Restart, Event
  <2>4. moved' \in [request: 0..MaxRequests, session: Sessions \cup {NoSession},
                    target: Targets \cup {"none"}, how: {"none", "off", "session", "token"}]
    BY <1>7 DEF Restart, NoMove
  <2> QED
    BY <1>1, <1>7, <2>1, <2>2, <2>3, <2>4 DEF TypeOK, Restart, Request
<1>8. CASE SaveSetting
  BY <1>1, <1>8 DEF TypeOK, SaveSetting, Event, NoMove
<1>9. CASE UNCHANGED vars
  BY <1>1, <1>9 DEF TypeOK, vars
<1> QED
  BY <1>1, <1>2, <1>3, <1>4, <1>5, <1>6, <1>7, <1>8, <1>9 DEF Next

LEMMA KnownStays ==
  TypeOK /\ [Next]_vars => \A r \in 1..started : req'[r].known = req[r].known
<1> USE ConstantsAssumption DEF Requests
<1>1. SUFFICES ASSUME TypeOK, [Next]_vars, NEW r \in 1..started
               PROVE  req'[r].known = req[r].known
  OBVIOUS
<1>2. ASSUME NEW s \in Sessions, SendMessage(s) PROVE req'[r].known = req[r].known
  BY <1>1, <1>2 DEF TypeOK, SendMessage
<1>3. ASSUME NEW q \in Requests, NEW t \in Targets, NEW tok, Ask(q, t, tok)
      PROVE req'[r].known = req[r].known
  BY <1>1, <1>3 DEF TypeOK, Ask
<1>4. ASSUME NEW q \in Requests, EndRequest(q) PROVE req'[r].known = req[r].known
  BY <1>1, <1>4 DEF TypeOK, EndRequest
<1>5. CASE Restart
  BY <1>1, <1>5 DEF TypeOK, Restart
<1>6. CASE UNCHANGED req
  BY <1>6
<1> QED
  BY <1>1, <1>2, <1>3, <1>4, <1>5, <1>6 DEF Next, Move, Tick, SaveSetting, vars

(* What a tool call has issued stays issued, and a request stays in its    *)
(* session: the record of what was asked only grows.                       *)
Grows ==
  /\ started <= started'
  /\ \A r \in 1..started : /\ req'[r].session = req[r].session
                           /\ req[r].issued \subseteq req'[r].issued

LEMMA RequestsGrow == TypeOK /\ [Next]_vars => Grows
<1> USE ConstantsAssumption DEF Requests
<1>1. SUFFICES ASSUME TypeOK, [Next]_vars PROVE Grows
  OBVIOUS
<1>2. ASSUME NEW s \in Sessions, SendMessage(s) PROVE Grows
  BY <1>1, <1>2 DEF TypeOK, SendMessage, Grows
<1>3. ASSUME NEW r \in Requests, NEW t \in Targets, NEW tok, Ask(r, t, tok)
      PROVE Grows
  BY <1>1, <1>3 DEF TypeOK, Ask, Grows
<1>4. ASSUME NEW r \in Requests, NEW t \in Targets, NEW tok, Move(r, t, tok)
      PROVE Grows
  BY <1>1, <1>4 DEF TypeOK, Move, Grows
<1>5. ASSUME NEW r \in Requests, EndRequest(r) PROVE Grows
  BY <1>1, <1>5 DEF TypeOK, EndRequest, Grows
<1>6. CASE Tick
  BY <1>1, <1>6 DEF TypeOK, Tick, Grows
<1>7. CASE Restart
  BY <1>1, <1>7 DEF TypeOK, Restart, Grows
<1>8. CASE SaveSetting \/ UNCHANGED vars
  BY <1>1, <1>8 DEF TypeOK, SaveSetting, vars, Grows
<1> QED
  BY <1>1, <1>2, <1>3, <1>4, <1>5, <1>6, <1>7, <1>8 DEF Next
-----------------------------------------------------------------------------
(* Requests are numbered in the order they start; the others are blank.    *)
RunningIsStarted(r) == req[r].running => r <= started /\ req[r].session \in Sessions

LEMMA RunningStarted == Started => \A r \in Requests : RunningIsStarted(r)
BY DEF Started, RunningIsStarted

LEMMA StartedStep == TypeOK /\ Started /\ [Next]_vars => Started'
<1> USE ConstantsAssumption
<1>1. SUFFICES ASSUME TypeOK, Started, [Next]_vars PROVE Started'
  OBVIOUS
<1>2. started \in Nat /\ Requests \subseteq Nat /\ req = [r \in Requests |-> req[r]]
  BY <1>1 DEF TypeOK, Requests
<1>3. ASSUME NEW s \in Sessions, SendMessage(s) PROVE Started'
  BY <1>1, <1>2, <1>3 DEF SendMessage, Started, Requests
<1>4. ASSUME NEW r \in Requests, NEW t \in Targets, NEW tok, Ask(r, t, tok)
      PROVE Started'
  <2>1. r <= started /\ started' = started
    BY <1>1, <1>4, RunningStarted DEF RunningIsStarted, Ask
  <2>2. req'[r].session = req[r].session
    BY <1>1, <1>4 DEF TypeOK, Ask
  <2>3. \A q \in Requests \ {r} : req'[q] = req[q]
    BY <1>2, <1>4 DEF Ask
  <2> QED
    BY <1>1, <2>1, <2>2, <2>3 DEF Started
<1>5. ASSUME NEW r \in Requests, EndRequest(r) PROVE Started'
  <2>1. r <= started /\ started' = started
    BY <1>1, <1>5, RunningStarted DEF RunningIsStarted, EndRequest
  <2>2. req'[r].session = req[r].session
    BY <1>1, <1>5 DEF TypeOK, EndRequest
  <2>3. \A q \in Requests \ {r} : req'[q] = req[q]
    BY <1>2, <1>5 DEF EndRequest
  <2> QED
    BY <1>1, <2>1, <2>2, <2>3 DEF Started
<1>6. CASE UNCHANGED <<req, started>>
  BY <1>1, <1>6 DEF Started
<1>7. CASE Restart
  <2>1. started' = started
    BY <1>7 DEF Restart
  <2>2. \A q \in Requests : req'[q].session = req[q].session
    BY <1>1, <1>7 DEF TypeOK, Restart
  <2>3. \A q \in Requests : ~req'[q].running
    BY <1>1, <1>7 DEF TypeOK, Restart
  <2> QED
    BY <1>1, <2>1, <2>2, <2>3 DEF Started
<1> QED
  BY <1>1, <1>3, <1>4, <1>5, <1>6, <1>7 DEF Next, Move, Tick, SaveSetting, vars

(* What was issued by earlier requests stays so.                           *)
LEMMA IssuedStays ==
  ASSUME Grows, started \in Nat, started' \in Nat,
         NEW n \in 0..started, NEW s, NEW tok, IssuedBy(n, s, tok)
  PROVE  IssuedBy(n, s, tok)'
BY DEF Grows, IssuedBy

(* The browser's text only holds tokens of that session's requests.        *)
LEMMA QuotedStep ==
  TypeOK /\ TypeOK' /\ Started /\ QuotedWasAsked /\ [Next]_vars => QuotedWasAsked'
<1> USE ConstantsAssumption
<1>1. SUFFICES ASSUME TypeOK, TypeOK', Started, QuotedWasAsked, [Next]_vars,
                      NEW s \in Sessions, NEW tok \in quoted'[s]
               PROVE  IssuedBy(started, s, tok)'
  BY DEF QuotedWasAsked
<1>2. Grows /\ started \in Nat /\ started' \in Nat
  BY <1>1, RequestsGrow DEF TypeOK
<1>3. CASE tok \in quoted[s]
  <2>1. IssuedBy(started, s, tok)
    BY <1>1, <1>3 DEF QuotedWasAsked
  <2> QED
    BY <1>2, <2>1 DEF Grows, IssuedBy
<1>4. CASE tok \notin quoted[s]
  <2>0. PICK r \in Requests : EndRequest(r)
    BY <1>1, <1>4 DEF Next, SendMessage, Ask, Move, Tick, Restart, SaveSetting, vars
  <2>1. EndRequest(r) /\ req[r].session = s /\ tok \in req[r].issued
    BY <1>1, <1>4, <2>0 DEF TypeOK, EndRequest
  <2>2. r \in 1..started
    BY <1>1, <1>2, <2>1, RunningStarted DEF RunningIsStarted, EndRequest, Requests
  <2> QED
    BY <1>2, <2>1, <2>2 DEF Grows, IssuedBy
<1> QED
  BY <1>3, <1>4

(* So a request starts out with tokens of earlier requests only.           *)
LEMMA KnownStep ==
  TypeOK /\ TypeOK' /\ QuotedWasAsked /\ KnownWasAsked /\ [Next]_vars => KnownWasAsked'
<1> USE ConstantsAssumption
<1>1. SUFFICES ASSUME TypeOK, TypeOK', QuotedWasAsked, KnownWasAsked, [Next]_vars,
                      NEW r \in 1..started', NEW tok \in req'[r].known
               PROVE  IssuedBy(r - 1, req[r].session, tok)'
  BY DEF KnownWasAsked
<1>2. Grows /\ started \in Nat /\ started' \in Nat /\ started' \in 0..MaxRequests
  BY <1>1, RequestsGrow DEF TypeOK
<1>3. CASE r \in 1..started
  <2>1. req'[r].session = req[r].session
    BY <1>2, <1>3 DEF Grows
  <2>2. req'[r].known = req[r].known
    BY <1>1, <1>2, <1>3, KnownStays
  <2>3. IssuedBy(r - 1, req[r].session, tok)
    BY <1>1, <1>3, <2>2 DEF KnownWasAsked
  <2> QED
    BY <1>2, <1>3, <2>1, <2>3 DEF Grows, IssuedBy
<1>4. CASE r \notin 1..started
  <2>1. PICK s \in Sessions : SendMessage(s)
    BY <1>1, <1>2, <1>4
    DEF Next, Ask, Move, EndRequest, Tick, Restart, SaveSetting, vars
  <2>2. r = started + 1 /\ r \in Requests
    BY <1>1, <1>2, <1>4, <2>1 DEF SendMessage, Requests
  <2>3. req'[r].session = s /\ req'[r].known = quoted[s]
    BY <1>1, <2>1, <2>2 DEF SendMessage, TypeOK
  <2>4. IssuedBy(started, s, tok)
    BY <1>1, <2>3 DEF QuotedWasAsked
  <2> QED
    BY <1>2, <2>2, <2>3, <2>4 DEF Grows, IssuedBy
<1> QED
  BY <1>3, <1>4

(* An authorization is written together with the record of the             *)
(* confirmation, and never for the empty session id.                       *)
LEMMA AuthorizationStep ==
  TypeOK /\ Started /\ AuthorizationIsConfirmation /\ [Next]_vars
    => AuthorizationIsConfirmation'
<1> USE ConstantsAssumption
<1>1. SUFFICES ASSUME TypeOK, Started, AuthorizationIsConfirmation, [Next]_vars
               PROVE  AuthorizationIsConfirmation'
  OBVIOUS
<1>2. ASSUME NEW r \in Requests, NEW t \in Targets, NEW tok, Move(r, t, tok)
      PROVE AuthorizationIsConfirmation'
  <2>1. req[r].session \in Sessions
    BY <1>1, <1>2, RunningStarted DEF RunningIsStarted, Move
  <2> QED
    BY <1>1, <1>2, <2>1 DEF TypeOK, Move, Authorize, AuthorizationIsConfirmation
<1>3. CASE Restart
  BY <1>1, <1>3 DEF Restart, AuthorizationIsConfirmation
<1>4. CASE UNCHANGED <<authorizedAt, confirmedAt>>
  BY <1>1, <1>4 DEF AuthorizationIsConfirmation
<1> QED
  BY <1>1, <1>2, <1>3, <1>4 DEF Next, SendMessage, Ask, EndRequest, Tick, SaveSetting, vars
-----------------------------------------------------------------------------
(* The two promises.                                                       *)
LEMMA TokenStep ==
  /\ TypeOK /\ TypeOK' /\ Started /\ KnownWasAsked /\ TokenNeedsUserTurn /\ [Next]_vars
  => TokenNeedsUserTurn'
<1> USE ConstantsAssumption
<1>1. SUFFICES ASSUME TypeOK, TypeOK', Started, KnownWasAsked, TokenNeedsUserTurn,
                      [Next]_vars, moved'.how = "token"
               PROVE  TokenNeedsUserTurn'
  BY DEF TokenNeedsUserTurn
<1>2. ASSUME NEW r \in Requests, NEW t \in Targets, NEW tok \in KnownTokens(r),
             Move(r, t, tok)
      PROVE  TokenNeedsUserTurn'
  <2>1. /\ moved'.request = r /\ moved'.session = req[r].session /\ moved'.target = t
        /\ TokenOpens(Effective(r, tok), t)
        /\ req' = req /\ clock' = clock
    BY <1>1, <1>2 DEF Move, NoMove
  <2>2. r \in 1..started
    BY <1>1, <1>2, RunningStarted DEF RunningIsStarted, Move, Requests, TypeOK
  <2>3. tok \in req[r].known /\ TokenOpens(tok, t)
    BY <2>1, <1>2 DEF KnownTokens, Effective, TokenOpens, NoToken
  <2>4. PICK q \in 1..(r - 1) : req[q].session = req[r].session /\ tok \in req[q].issued
    BY <1>1, <2>2, <2>3 DEF KnownWasAsked, IssuedBy
  <2>5. q \in Requests /\ tok \in Token
    BY <1>1, <2>2, <2>4 DEF TypeOK, Requests
  <2>6. tok = [target |-> t, window |-> tok.window] /\ tok.window \in {clock, clock - 1}
    BY <2>3, <2>5 DEF Token, TokenOpens
  <2>7. Asked(q, t, tok.window)
    BY <2>4, <2>6 DEF Asked
  <2> QED
    BY <2>1, <2>4, <2>6, <2>7 DEF TokenNeedsUserTurn, Asked
<1>3. CASE UNCHANGED vars
  BY <1>1, <1>3 DEF TokenNeedsUserTurn, Asked, vars
<1>4. CASE moved' = NoMove
  BY <1>1, <1>4 DEF NoMove
<1> QED
  BY <1>1, <1>2, <1>3, <1>4
  DEF Next, SendMessage, Ask, EndRequest, Tick, Restart, SaveSetting

LEMMA SessionStep ==
  /\ TypeOK /\ Started
  /\ AuthorizationIsConfirmation /\ SessionMoveWasConfirmed /\ [Next]_vars
  => SessionMoveWasConfirmed'
<1> USE ConstantsAssumption
<1>1. SUFFICES ASSUME TypeOK, Started, AuthorizationIsConfirmation,
                      SessionMoveWasConfirmed, [Next]_vars, moved'.how = "session"
               PROVE  SessionMoveWasConfirmed'
  BY DEF SessionMoveWasConfirmed
<1>2. ASSUME NEW r \in Requests, NEW t \in Targets, NEW tok, Move(r, t, tok)
      PROVE  SessionMoveWasConfirmed'
  <2>1. /\ moved'.session = req[r].session /\ Authorized(req[r].session)
        /\ clock' = clock /\ confirmedAt' = confirmedAt
    BY <1>1, <1>2 DEF Move, NoMove
  <2>2. req[r].session \in Sessions
    BY <1>1, <1>2, RunningStarted DEF RunningIsStarted, Move
  <2> QED
    BY <1>1, <2>1, <2>2 DEF Authorized, AuthorizationIsConfirmation, SessionMoveWasConfirmed
<1>3. CASE UNCHANGED vars
  BY <1>1, <1>3 DEF SessionMoveWasConfirmed, vars
<1>4. CASE moved' = NoMove
  BY <1>1, <1>4 DEF NoMove
<1> QED
  BY <1>1, <1>2, <1>3, <1>4
  DEF Next, SendMessage, Ask, EndRequest, Tick, Restart, SaveSetting

LEMMA IInvStep == IInv /\ [Next]_vars => IInv'
<1>1. SUFFICES ASSUME IInv, [Next]_vars PROVE IInv'
  OBVIOUS
<1>2. TypeOK' /\ Started'
  BY <1>1, TypeStep, StartedStep DEF IInv
<1>3. QuotedWasAsked' /\ KnownWasAsked'
  BY <1>1, <1>2, QuotedStep, KnownStep DEF IInv
<1>4. AuthorizationIsConfirmation'
  BY <1>1, AuthorizationStep DEF IInv
<1>5. TokenNeedsUserTurn' /\ SessionMoveWasConfirmed'
  BY <1>1, <1>2, TokenStep, SessionStep DEF IInv
<1> QED
  BY <1>2, <1>3, <1>4, <1>5 DEF IInv

(* The inductive invariant holds in every reachable state.                 *)
THEOREM Inductive == Spec => []IInv
BY InitIInv, IInvStep, PTL DEF Spec

(* Type correctness of the gate.                                           *)
THEOREM TypeCorrect == Spec => []TypeOK
<1>1. IInv => TypeOK
  BY DEF IInv
<1> QED
  BY <1>1, Inductive, PTL

(* However many requests of however many sessions overlap and whatever the *)
(* language model calls in them: a token only opens the gate in a later    *)
(* turn of the session in which the user was asked about that target.      *)
THEOREM TokensNeedUserTurns == Spec => []TokenNeedsUserTurn
<1>1. IInv => TokenNeedsUserTurn
  BY DEF IInv
<1> QED
  BY <1>1, Inductive, PTL

(* A move without a question is made only in a session with an id, in      *)
(* which a move was confirmed in this process at most a TTL ago.           *)
THEOREM SessionMovesWereConfirmed == Spec => []SessionMoveWasConfirmed
<1>1. IInv => SessionMoveWasConfirmed
  BY DEF IInv
<1> QED
  BY <1>1, Inductive, PTL
=============================================================================
