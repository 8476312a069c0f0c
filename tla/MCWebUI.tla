------------------------------ MODULE MCWebUI ------------------------------
EXTENDS WebUI, TLC

(* Repeated logins; repeated guesses at the add-in's route, which shares with
   them no more than the password; the writers of the root .env; a chat page
   that may lose its session. *)
MCTraffic ==
  { {"login"}, {"addin"},
    {"setup", "password", "settings", "reset", "logout"},
    {"chat", "logout"} }

(* The threads of the server are interchangeable, and so are the passwords. *)
Alike == Permutations(Slots) \cup Permutations(Turns) \cup Permutations(Passwords)

(* The chat alone, for the statements it refutes. *)
MCChat == { {"chat"} }
=============================================================================
