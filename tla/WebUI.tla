------------------------------- MODULE WebUI -------------------------------
(***************************************************************************)
(* The WebUI process: logins and root settings (WebLogin) and attachments   *)
(* (PendingUploads) live in the memory of one process, share its clock and  *)
(* are lost together when the container restarts.                           *)
(***************************************************************************)
EXTENDS WebLogin, PendingUploads

CONSTANT MaxRestarts   \* bound: restarts of the container

VARIABLE restarts

vars == <<loginVars, uploadVars, restarts>>

Init == LoginInit /\ UploadInit /\ restarts = 0

Tick ==
  /\ clock < MaxTime
  /\ clock' = clock + 1
  /\ UNCHANGED <<traffic, env, failures, lockout, addin, sessions, req, wrong, asked,
                 acked, writes, dirty, uploadVars, restarts>>

(* enforce_auth and require_setup: an upload needs a session, a message only
   that a password is set, and what has been accepted goes on without either. *)
Chat ==
  /\ "chat" \in traffic
  /\ UploadNext(clock)
  /\ (\E f \in Files : job[f] = "new" /\ job'[f] # "new")
       => sessions > 0 /\ Seen.password # None
  /\ (\E t \in Turns : turn[t].pc = "posted" /\ turn'[t].pc = "model")
       => Seen.password # None
  /\ UNCHANGED <<loginVars, restarts>>

Account ==
  /\ LoginNext
  /\ UNCHANGED <<uploadVars, restarts>>

Restart ==
  /\ restarts < MaxRestarts
  /\ restarts' = restarts + 1
  /\ LoginRestart /\ UploadRestart

Next == Account \/ Chat \/ Tick \/ Restart

Spec == Init /\ [][Next]_vars
=============================================================================
