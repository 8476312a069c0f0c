---------------------------- MODULE MCConfirmGate ----------------------------
(* One session with an id and the empty one, two targets, three turns.     *)
EXTENDS ConfirmGate
=============================================================================
