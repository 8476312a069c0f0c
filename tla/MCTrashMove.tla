----------------------------- MODULE MCTrashMove -----------------------------
(* A folder with the target, one other mail, and possibly a second message *)
(* with the target's Message-ID (the same mail delivered twice).           *)
EXTENDS TrashMove

MCMails == {"m", "o"}
MCInstance(u, n) == [uid |-> u, mail |-> n, kin |-> (u = 1), mark |-> "nobody"]
MCPlain == {MCInstance(1, "m"), MCInstance(2, "o")}
MCTwins == MCPlain \cup {MCInstance(3, "m")}
MCFolders == {MCPlain, MCTwins}
MCPlainOnly == {MCPlain}
(* Servers for which the code promises a targeted deletion. *)
MCServersTargeted == {s \in Server : s.move /\ s.uidplus}
MCServers == {s \in Server : s.leaves = "ignored" => s.move}
=============================================================================
