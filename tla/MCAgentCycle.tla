---------------------------- MODULE MCAgentCycle ----------------------------
(* Two agents whose accounts are at the same provider.  The server of "x"  *)
(* flags no Drafts folder, the one of "y" does, the one of "z" is dead.    *)
EXTENDS AgentCycle

MCAccounts == {"x", "y", "z"}
MCProvider == [n \in MCAccounts |-> "gmx"]
MCFolders == {"Entwuerfe", "Ablage"}
MCDefault == [p \in {"gmx", "host"} |-> "Entwuerfe"]
MCSpecial == [n \in MCAccounts |-> IF n = "y" THEN "Ablage" ELSE "none"]

MCFile(c, e, n) ==
  [cond |-> c, enabled |-> e, explicit |-> "none", account |-> n, mtime |-> 1]
MCGood == {MCFile("ok", TRUE, n) : n \in MCAccounts}
MCInitial ==
  MCGood \cup {MCFile("ok", FALSE, "x"), MCFile("absent", FALSE, "x"),
              MCFile("undecryptable", TRUE, "x"), MCFile("malformed", TRUE, "x")}
MCInitialNumber == MCGood \cup {MCFile("malformed", TRUE, "x")}
=============================================================================
