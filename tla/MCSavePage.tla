----------------------------- MODULE MCSavePage -----------------------------
EXTENDS SavePage, TLC

Empty == [user |-> None, password |-> None, key |-> None, context |-> None,
          style |-> None, adapt |-> None, big |-> FALSE, consent |-> TRUE]

(* The whole page, its sections, one credential at a time, and what is refused. *)
MCForms ==
  { [Empty EXCEPT !.user = "u1", !.password = "p1", !.key = "k1", !.context = "c"],
    [Empty EXCEPT !.user = "u2"],
    [Empty EXCEPT !.password = "p2 "],
    [Empty EXCEPT !.key = "k1"],
    [Empty EXCEPT !.key = "nonsense", !.consent = FALSE],
    [Empty EXCEPT !.style = "hand", !.adapt = "off"],
    [Empty EXCEPT !.context = "c", !.big = TRUE] }

(* The second login knows the second password only. *)
MCAccepted == {<<"u1", "p1">>, <<"u1", "p2">>, <<"u2", "p2">>}

MCStrip(x) == IF x = "p2 " THEN "p2" ELSE x

Threads == Permutations(Saves)
=============================================================================
