---------------------------- MODULE MCChatStream ----------------------------
(* Messages with a repeated address, two addresses, a link, a link that holds
   an address, a line break; answers that name placeholders, hold a bracket
   open for longer than any placeholder, or stop inside one. *)
EXTENDS ChatStream

E(n) == TagFor("EMAIL", n)

MCMails ==
  { <<"w", " ", "@1", " ", "@2", "\n", "@1">>,
    <<"@1", "www", "w", " ", "www">>,
    <<"www", "@2">> }

MCAnswers ==
  { E(1) \o <<" ", "w">> \o E(2),
    <<"w", "[", "w", " ", "w", " ">> \o E(1),
    <<"w", "\n", "\n", " ", " ", "w">>,
    <<"w", "[", "EMAIL_1">> }

MCExchanges ==
  { <<m, Anonymize(m).text>> : m \in MCMails } \cup
  { <<<<"@1", "@2">>, a>> : a \in MCAnswers }

MCTexts == { x[2] : x \in MCExchanges }

MCChars == UNION {ToSet(x[1]) \cup ToSet(x[2]) : x \in MCExchanges}
=============================================================================
