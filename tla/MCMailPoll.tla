----------------------------- MODULE MCMailPoll -----------------------------
(* A mailbox of four mails: 1 fails on every attempt, 2 is from the own    *)
(* address and has no Message-ID, 3 and 4 carry the same Message-ID (a     *)
(* copy, a redelivery).                                                    *)
EXTENDS MailPoll

MCIds == {"a", "b"}
MCMsgId == <<"b", "none", "a", "a">>
=============================================================================
