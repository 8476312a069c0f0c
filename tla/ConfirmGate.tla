----------------------------- MODULE ConfirmGate -----------------------------
(***************************************************************************)
(* When a chat may move mails to the trash: webui/src/chat_tools.py, the   *)
(* gate of mail_in_papierkorb and entwurf_in_papierkorb (confirmation      *)
(* token, session authorization, ENABLE_TRASH_CONFIRMATION) and the tool   *)
(* loop of one /chat/send request, which refuses tokens it has itself      *)
(* issued.  The move as such is module TrashMove.                          *)
(*                                                                         *)
(* A request is one user turn.  The language model is external: in a       *)
(* request it calls the tools with any target and any token it knows, the  *)
(* ones in the conversation text the browser sent along and the ones the   *)
(* tools returned in this request.  static/chat.js keeps the text of the   *)
(* answers only; a token is in it if the model quoted it.                  *)
(*                                                                         *)
(* A target stands for (agent, tool, uid, folder), a session for (agent,   *)
(* session id).  Time is counted in windows of 600 seconds.                *)
(***************************************************************************)
EXTENDS Naturals

CONSTANTS
  Sessions,     \* chat sessions
  Anonymous,    \* the session with the empty id
  Targets,
  Quotes,       \* whether the model may quote a token in its answer
  Ttl,          \* _SESSION_AUTHORIZATION_TTL_SECONDS, in windows
  MaxRequests,  \* bound: number of requests
  MaxClock,     \* bound: number of windows
  MaxEvents     \* bound: number of restarts and changes of the setting

Requests == 1..MaxRequests
Clock == 0..MaxClock
Token == [target: Targets, window: Clock]
NoToken == [target |-> "none", window |-> 0]
Never == MaxClock + 1
NoSession == "none"

ASSUME ConstantsAssumption ==
  /\ Anonymous \in Sessions /\ NoSession \notin Sessions
  /\ "none" \notin Targets
  /\ Quotes \in BOOLEAN
  /\ Ttl \in Nat /\ MaxRequests \in Nat /\ MaxClock \in Nat /\ MaxEvents \in Nat

VARIABLES
  clock,
  gate,         \* ENABLE_TRASH_CONFIRMATION of the agent
  authorizedAt, \* _authorized_move_sessions (process memory)
  req,          \* request -> its session, whether it runs, and the tokens
                \* known from the conversation and issued by its tool calls
  started,      \* number of requests so far
  quoted,       \* session -> tokens in the text of its conversation (browser)
  confirmedAt,  \* history: session -> latest opening of the token gate
  moved,        \* history: the move just made, and what opened the gate
  events

vars == <<clock, gate, authorizedAt, req, started, quoted, confirmedAt, moved, events>>

NoRequest == [session |-> NoSession, running |-> FALSE, known |-> {}, issued |-> {}]
NoMove == [request |-> 0, session |-> NoSession, target |-> "none", how |-> "none"]

TypeOK ==
  /\ clock \in Clock
  /\ gate \in BOOLEAN
  /\ authorizedAt \in [Sessions -> Clock \cup {Never}]
  /\ req \in [Requests -> [session: Sessions \cup {NoSession}, running: BOOLEAN,
                           known: SUBSET Token, issued: SUBSET Token]]
  /\ started \in 0..MaxRequests
  /\ quoted \in [Sessions -> SUBSET Token]
  /\ confirmedAt \in [Sessions -> Clock \cup {Never}]
  /\ moved \in [request: 0..MaxRequests, session: Sessions \cup {NoSession},
                target: Targets \cup {"none"}, how: {"none", "off", "session", "token"}]
  /\ events \in 0..MaxEvents

Init ==
  /\ clock = 0
  /\ gate \in BOOLEAN
  /\ authorizedAt = [s \in Sessions |-> Never]
  /\ req = [r \in Requests |-> NoRequest]
  /\ started = 0
  /\ quoted = [s \in Sessions |-> {}]
  /\ confirmedAt = [s \in Sessions |-> Never]
  /\ moved = NoMove
  /\ events = 0

-----------------------------------------------------------------------------
(* Mutant: an authorization never expires.                                 *)
AuthorizedForEver(s) == s # Anonymous /\ authorizedAt[s] # Never

(* _session_authorized                                                     *)
Authorized(s) ==
  /\ s # Anonymous
  /\ authorizedAt[s] # Never
  /\ clock - authorizedAt[s] <= Ttl

(* _authorize_session: expired entries of all sessions are dropped.        *)
Authorize(s) ==
  authorizedAt' =
    IF s = Anonymous THEN authorizedAt
    ELSE [x \in Sessions |->
            IF x = s THEN clock
            ELSE IF authorizedAt[x] # Never /\ clock - authorizedAt[x] > Ttl THEN Never
            ELSE authorizedAt[x]]

(* Mutant: issued for the next window, to live across the boundary.        *)
IssuedNext(t) == [target |-> t, window |-> clock + 1]

(* _confirmation_token, for the current window.                            *)
Issued(t) == [target |-> t, window |-> clock]

(* _confirmation_ok: the token of the current or the previous window.      *)
TokenOpens(tok, t) == tok.target = t /\ tok.window \in {clock, clock - 1}

(* Mutant: before CR-03, every token counted.                              *)
EffectiveAll(r, tok) == tok

(* The tool loop takes out a token that was issued in this very request.   *)
Effective(r, tok) == IF tok \in req[r].issued THEN NoToken ELSE tok

KnownTokens(r) == {NoToken} \cup req[r].known \cup req[r].issued

-----------------------------------------------------------------------------
(* The user sends a message; the browser sends the conversation along.     *)
SendMessage(s) ==
  /\ started < MaxRequests
  /\ started' = started + 1
  /\ req' = [req EXCEPT ![started + 1] =
               [session |-> s, running |-> TRUE, known |-> quoted[s], issued |-> {}]]
  /\ moved' = NoMove
  /\ UNCHANGED <<clock, gate, authorizedAt, quoted, confirmedAt, events>>

(* A tool call with a closed gate: nothing is moved, the target is         *)
(* described and the current token returned (unless the mail is not found, *)
(* which changes nothing).                                                 *)
Ask(r, t, tok) ==
  /\ req[r].running
  /\ gate /\ ~Authorized(req[r].session)
  /\ ~TokenOpens(Effective(r, tok), t)
  /\ req' = [req EXCEPT ![r].issued = @ \cup {Issued(t)}]
  /\ moved' = NoMove
  /\ UNCHANGED <<clock, gate, authorizedAt, started, quoted, confirmedAt, events>>

(* A tool call with an open gate.  The token gate authorizes the session   *)
(* before the mail is looked up and moved: that may still fail.            *)
Move(r, t, tok) ==
  /\ req[r].running
  /\ LET s == req[r].session
         how == IF ~gate THEN "off" ELSE IF Authorized(s) THEN "session" ELSE "token" IN
       /\ how = "token" => TokenOpens(Effective(r, tok), t)
       /\ IF how = "token"
          THEN Authorize(s) /\ confirmedAt' = [confirmedAt EXCEPT ![s] = clock]
          ELSE UNCHANGED <<authorizedAt, confirmedAt>>
       /\ \/ moved' = [request |-> r, session |-> s, target |-> t, how |-> how]
          \/ moved' = NoMove
  /\ UNCHANGED <<clock, gate, req, started, quoted, events>>

(* The answer is complete: the browser appends its text.  Quoting all the  *)
(* tokens is what leaves the model most to do.                             *)
EndRequest(r) ==
  /\ req[r].running
  /\ req' = [req EXCEPT ![r].running = FALSE]
  /\ quoted' = IF Quotes THEN [quoted EXCEPT ![req[r].session] = @ \cup req[r].issued]
                         ELSE quoted
  /\ moved' = NoMove
  /\ UNCHANGED <<clock, gate, authorizedAt, started, confirmedAt, events>>

Tick ==
  /\ clock < MaxClock
  /\ clock' = clock + 1
  /\ moved' = NoMove
  /\ UNCHANGED <<gate, authorizedAt, req, started, quoted, confirmedAt, events>>

Event == events < MaxEvents /\ events' = events + 1

(* The WebUI restarts: the authorizations are gone, streams break off (the *)
(* browser keeps nothing of them), the token secret is on disk.            *)
Restart ==
  /\ Event
  /\ authorizedAt' = [s \in Sessions |-> Never]
  /\ req' = [r \in Requests |-> [req[r] EXCEPT !.running = FALSE]]
  /\ confirmedAt' = [s \in Sessions |-> Never]
  /\ moved' = NoMove
  /\ UNCHANGED <<clock, gate, started, quoted>>

SaveSetting ==
  /\ Event
  /\ gate' = ~gate
  /\ moved' = NoMove
  /\ UNCHANGED <<clock, authorizedAt, req, started, quoted, confirmedAt>>

Next ==
  \/ \E s \in Sessions : SendMessage(s)
  \/ \E r \in Requests, t \in Targets : \E tok \in KnownTokens(r) : Ask(r, t, tok)
  \/ \E r \in Requests, t \in Targets : \E tok \in KnownTokens(r) : Move(r, t, tok)
  \/ \E r \in Requests : EndRequest(r)
  \/ Tick \/ Restart \/ SaveSetting

Spec == Init /\ [][Next]_vars

-----------------------------------------------------------------------------
(***************************************************************************)
(* Properties                                                              *)
(***************************************************************************)

(* What the user was asked to confirm, and in which request.               *)
Asked(r, t, w) == [target |-> t, window |-> w] \in req[r].issued

(* Review note CR-03: a token opens the gate only in a later user turn of  *)
(* the same session than the one in which the user was asked about this    *)
(* very target, and at most one window later (WR-01) -- whatever the model *)
(* calls, also when requests of a session overlap, the process restarts or *)
(* the setting is changed in between.                                      *)
TokenNeedsUserTurn ==
  moved.how = "token" =>
    \E r \in 1..(moved.request - 1) : \E w \in {clock, clock - 1} :
      req[r].session = moved.session /\ Asked(r, moved.target, w)

(* A move without a question: only in a session with an id in which the    *)
(* user has confirmed a move before, in the life of this process and not   *)
(* longer than the TTL ago.                                                *)
SessionMoveWasConfirmed ==
  moved.how = "session" =>
    LET s == moved.session IN
      s # Anonymous /\ confirmedAt[s] # Never /\ clock - confirmedAt[s] <= Ttl

(* The two-step flow of the tool description: the user is asked, says yes, *)
(* and the tool is called again with the token.  So in the turn right      *)
(* after the question the model still knows a token for that target.       *)
FollowsUp(r) ==
  req[r].running /\ ~req[r - 1].running /\ req[r].session = req[r - 1].session
AnswerIsRedeemable ==
  \A r \in 2..MaxRequests, t \in Targets :
    FollowsUp(r) /\ Asked(r - 1, t, clock) => \E tok \in req[r].known : TokenOpens(tok, t)
=============================================================================
