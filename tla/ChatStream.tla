----------------------------- MODULE ChatStream -----------------------------
(***************************************************************************)
(* One exchange of the chat, from the operator's message to what the        *)
(* operator reads: pii.Anonymizer replaces addresses and links by           *)
(* placeholders, the model answers, chat.deanonymize_stream or the tool     *)
(* loop puts the originals back piece by piece (TagStream), main.chat_send  *)
(* writes each piece as an SSE frame, the network delivers the bytes in     *)
(* chunks of its own, and static/chat.js or the Outlook add-in parses them, *)
(* shows the text and keeps it as history for the next request.             *)
(*                                                                         *)
(* Text is a sequence of characters; a word, an address, a field name of a  *)
(* frame and the inside of a placeholder each count as one.                 *)
(***************************************************************************)
EXTENDS TagStream, SequencesExt

CONSTANTS
  Exchanges,  \* pairs of a message and the model's answer to it
  Sizes,      \* bound: how many characters the network may deliver at once
  Addresses,  \* the characters that stand for an e-mail address
  Link        \* the character a link starts with; it ends before white space

VARIABLES
  mail,     \* the message of the operator
  table,    \* the placeholders of this request's Anonymizer, oldest first
  path,     \* "stream" (_run_fallback_chat) or "tools" (_run_anthropic_tool_loop)
  client,   \* "browser" or "addin"
  link,     \* "up", "closed" by the server, "cut"
  wire,     \* what of the response of chat_send has not reached the client
  page,     \* what the client has received and not read, its parser, the text
  history   \* the client's history: sequence of answers

chatVars == <<mail, table, path, client, wire, link, page, history>>
allVars == <<streamVars, chatVars>>

-----------------------------------------------------------------------------
White == {" ", "\n"}

(* What the pattern of a kind matches. *)
Found(kind, s) ==
  IF kind = "EMAIL"
  THEN {<<i, i>> : i \in {k \in 1..Len(s) : s[k] \in Addresses}}
  ELSE {p \in (1..Len(s)) \X (1..Len(s)) :
          /\ p[1] <= p[2] /\ s[p[1]] = Link
          /\ \A k \in p[1]..p[2] : s[k] \notin White
          /\ p[2] = Len(s) \/ s[p[2] + 1] \in White
          /\ \A k \in 1..p[1] - 1 :
               s[k] = Link => \E w \in k..p[1] : s[w] \in White}

(* Mutant: every placeholder of a kind has the same number. *)
TagForKind(kind, n) == <<"[", kind \o "_1", "]">>

Name(kind, n) == kind \o "_" \o ToString(n)

TagFor(kind, n) == <<"[", Name(kind, n), "]">>

(* One pattern of anonymize: each original gets a number of its kind where it
   is found first, and its placeholder takes its place wherever it is found. *)
Pass(a, kind) ==
  LET s         == a.text
      spans     == Found(kind, s)
      starts    == {p[1] : p \in spans}
      At(i)     == SubSeq(s, i, (CHOOSE p \in spans : p[1] = i)[2])
      originals == FlattenSeq([i \in 1..Len(s) |->
                     IF i \in starts /\ \A j \in starts : j < i => At(j) # At(i)
                     THEN <<At(i)>> ELSE <<>>])
      TagOf(o)  == TagFor(kind, CHOOSE n \in 1..Len(originals) : originals[n] = o)
  IN  [text  |-> FlattenSeq([i \in 1..Len(s) |->
                   IF i \in starts THEN TagOf(At(i))
                   ELSE IF \E p \in spans : p[1] < i /\ i <= p[2] THEN <<>>
                   ELSE <<s[i]>>]),
       table |-> a.table \o [n \in 1..Len(originals) |->
                   [kind |-> kind, tag |-> TagFor(kind, n), original |-> originals[n]]]]

(* EMAIL runs before URL. *)
Anonymize(m) == Pass(Pass([text |-> m, table |-> <<>>], "EMAIL"), "URL")

OfKind(kind) ==
  FlattenSeq([k \in 1..Len(table) |->
    IF table[k].kind = kind THEN <<table[k]>> ELSE <<>>])

(* Longest placeholder first: [EMAIL_n] before [URL_n], of fewer than 1000 links;
   within a kind the order makes no difference. *)
LongestFirst == OfKind("EMAIL") \o OfKind("URL")

TagAt(e, s, i) == i \in 1..Len(s) - 2 /\ SubSeq(s, i, i + 2) = e.tag

(* replace(tag, original). *)
Put(e, s) ==
  FlattenSeq([i \in 1..Len(s) |->
    IF TagAt(e, s, i) THEN e.original
    ELSE IF TagAt(e, s, i - 1) \/ TagAt(e, s, i - 2) THEN <<>>
    ELSE <<s[i]>>])

PutAll(entries, s) ==
  LET put[k \in 0..Len(entries)] ==
        IF k = 0 THEN s ELSE Put(entries[k], put[k - 1])
  IN  put[Len(entries)]

Deanonymize(s) == PutAll(LongestFirst, s)

(* Addresses, the start of a link, white space and brackets are different things,
   and none of them is the inside of a placeholder, which names a kind and a number;
   no placeholder is longer than what is held back. *)
ASSUME ChatAssumption ==
  /\ Exchanges \subseteq Seq(Chars) \X Texts
  /\ Sizes \subseteq Nat \ {0}
  /\ Threshold >= 2
  /\ Link \notin Addresses
  /\ (White \cup {"[", "]"}) \cap ({Link} \cup Addresses) = {}
  /\ \A x \in Exchanges :
       LET rows == Anonymize(x[1]).table
       IN  /\ \A e \in ToSet(rows) :
                e.tag[2] \notin White \cup {"[", "]", Link} \cup Addresses
           /\ \A i, j \in 1..Len(rows), k, l \in {"EMAIL", "URL"} :
                Name(k, i) = Name(l, j) => k = l /\ i = j

-----------------------------------------------------------------------------
Event(kind, s) == [event |-> kind, data |-> s]

(* Mutant: a piece with line breaks is written as one data line. *)
EncodedRaw(s) == s

(* _sse_data_frame: a line break continues with another data line. *)
Encoded(s) ==
  FlattenSeq([k \in 1..Len(s) |->
    IF s[k] = "\n" THEN <<"\n", "data:", " ">> ELSE <<s[k]>>])

DataFrame(s) == <<"data:", " ">> \o Encoded(s) \o <<"\n", "\n">>

(* The bytes of a sequence of events. *)
Bytes(events) ==
  FlattenSeq([k \in 1..Len(events) |->
    (IF events[k].event = "message" THEN <<>> ELSE <<"event:", events[k].event, "\n">>)
      \o DataFrame(events[k].data)])

Piece(from, to) ==
  IF from = to THEN <<>>
  ELSE <<Event("message", Deanonymize(SubSeq(text, from + 1, to)))>>

(* What a step of the generator delivers: up to its first new cut, and from
   there to the last. *)
Pieces ==
  LET first == Min({c \in cuts' : sent < c} \cup {sent'})
  IN  Piece(sent, first) \o Piece(first, sent')

(* How the response ends.  The tool loop reports a failed call of the model as
   text and ends regularly; a stream that raises ends with an error. *)
Ending ==
  IF phase' = "open" THEN <<>>
  ELSE IF phase' = "ended" THEN <<Event("done", <<>>)>>
  ELSE IF path = "stream" THEN <<Event("error", <<"failure">>)>>
  ELSE <<Event("message", <<"failure">>), Event("done", <<>>)>>

-----------------------------------------------------------------------------
DropSpace(s) == IF s # <<>> /\ Head(s) = " " THEN Tail(s) ELSE s

TrimStart(s) ==
  LET word == {k \in 1..Len(s) : s[k] # " "}
  IN  IF word = {} THEN <<>> ELSE SubSeq(s, Min(word), Len(s))

(* The value of a data line. *)
Value(s) == IF client = "browser" THEN DropSpace(s) ELSE TrimStart(s)

(* What the page does with the event that is complete: chat.js sendMessage,
   ChatView.SendAsync. *)
Show(p) ==
  IF p.event = "error" THEN [p EXCEPT !.failed = TRUE]
  ELSE IF p.event \in {"tool", "done"} THEN p
  ELSE [p EXCEPT !.shown = @ \o p.data]

CompleteFrame(p) ==
  [Show(p) EXCEPT !.event = "message", !.filled = FALSE, !.data = <<>>]

(* SseLineParser.Feed; the loop of parseSseBlock. *)
Feed(p, line) ==
  IF line = <<>> THEN CompleteFrame(p)
  ELSE IF Head(line) = "event:" THEN [p EXCEPT !.event = line[2]]
  ELSE IF Head(line) = "data:"
  THEN [p EXCEPT !.filled = TRUE,
                 !.data = (IF p.filled THEN @ \o <<"\n">> ELSE <<>>) \o Value(Tail(line))]
  ELSE p

NewPage == [buf |-> <<>>, event |-> "message", filled |-> FALSE, data |-> <<>>,
            shown |-> <<>>, failed |-> FALSE]

LineEnds == {k \in 1..Len(page.buf) : page.buf[k] = "\n"}

(* The add-in reads on at a complete line, the browser at a complete block. *)
Readable ==
  /\ LineEnds # {}
  /\ \/ client = "addin"
     \/ page.event # "message" \/ page.filled
     \/ \E k \in LineEnds : k + 1 \in LineEnds

ChatInit ==
  /\ \E x \in Exchanges : mail = x[1] /\ text = x[2]
  /\ StreamInit
  /\ table = Anonymize(mail).table
  /\ path \in {"stream", "tools"} /\ client \in {"browser", "addin"}
  /\ wire = (IF path = "tools" THEN Bytes(<<Event("tool", <<"label">>)>>) ELSE <<>>)
  /\ link = "up" /\ page = NewPage /\ history = <<>>

(* The generator of chat_send: _run_fallback_chat or the tool loop. *)
Generate ==
  /\ link # "cut"
  /\ \/ /\ path = "stream"
        /\ \/ Exhausted
           \/ \E n \in 1..Len(text) :
                Deliver(n) \/ \E i \in 1..n : Hold(i, n) \/ GiveUp(i, n)
     \/ path = "tools" /\ DeliverBlock
     \/ ProviderFails
  /\ wire' = wire \o Bytes(Pieces \o Ending)
  /\ UNCHANGED <<mail, table, path, client, link, page, history>>

(* The next bytes of the response reach the client, cut anywhere. *)
Arrive ==
  /\ link = "up" /\ ~Readable
  /\ \E n \in Sizes :
       /\ n <= Len(wire)
       /\ wire' = SubSeq(wire, n + 1, Len(wire))
       /\ page' = [page EXCEPT !.buf = @ \o SubSeq(wire, 1, n)]
  /\ UNCHANGED <<streamVars, mail, table, path, client, link, history>>

(* One line of what has arrived. *)
ReadLine ==
  /\ link = "up" /\ Readable
  /\ LET end == Min(LineEnds)
     IN  page' = Feed([page EXCEPT !.buf = SubSeq(@, end + 1, Len(@))],
                      SubSeq(page.buf, 1, end - 1))
  /\ UNCHANGED <<streamVars, mail, table, path, client, wire, link, history>>

(* The server has ended the response and the client has read all of it. *)
Close ==
  /\ link = "up" /\ phase # "open" /\ wire = <<>> /\ ~Readable
  /\ link' = "closed"
  /\ page' = IF client = "addin" THEN CompleteFrame(Feed(page, page.buf)) ELSE page
  /\ history' = IF page'.failed THEN history ELSE Append(history, page'.shown)
  /\ UNCHANGED <<streamVars, mail, table, path, client, wire>>

(* The connection breaks, or the add-in's operator resets the chat: the text
   received so far is dropped. *)
Break ==
  /\ link = "up"
  /\ link' = "cut" /\ wire' = <<>> /\ page' = NewPage
  /\ UNCHANGED <<streamVars, mail, table, path, client, history>>

ChatNext == Generate \/ Arrive \/ ReadLine \/ Close \/ Break

ChatSpec == ChatInit /\ [][ChatNext]_allVars

-----------------------------------------------------------------------------
(* What an answer and its frames are made of. *)
Symbols ==
  Chars \cup
  {"data:", "event:", "tool", "done", "error", " ", "\n", "label", "failure"} \cup
  UNION {ToSet(e.original) : e \in ToSet(table)}

ChatTypeOK ==
  /\ StreamTypeOK
  /\ <<mail, text>> \in Exchanges
  /\ path \in {"stream", "tools"} /\ client \in {"browser", "addin"}
  /\ link \in {"up", "closed", "cut"}
  /\ wire \in Seq(Symbols)
  /\ page \in [buf : Seq(Symbols), event : Symbols \cup {"message"}, filled : BOOLEAN,
                data : Seq(Symbols), shown : Seq(Symbols), failed : BOOLEAN]
  /\ history \in {<<>>, <<page.shown>>}

WithoutSpaces(s) ==
  FlattenSeq([k \in 1..Len(s) |-> IF s[k] = " " THEN <<>> ELSE <<s[k]>>])

(* The add-in drops spaces at the start of a line of a frame
   (SseLineParser.cs:48), so its text is compared without spaces. *)
Compared(s) == IF client = "browser" THEN s ELSE WithoutSpaces(s)

(* An original that could become a placeholder with what follows it. *)
EndsOpen(s) ==
  \/ s[Len(s)] = "["
  \/ /\ Len(s) > 1 /\ s[Len(s) - 1] = "["
     /\ \E e \in ToSet(table) : s[Len(s)] = e.tag[2]

(* Safety: what the client keeps as the model's answer, and sends as history
   with the next request, is the whole answer with the originals put back,
   whatever the chunks of the provider and of the network; a broken stream
   leaves nothing.  Of a message with a link that ends in an open placeholder
   nothing is said: whether the text after it completes the placeholder depends
   on the chunks. *)
OperatorReadsAnswer ==
  /\ history # <<>>
  /\ ~(phase = "failed" /\ path = "tools")
  /\ \A e \in ToSet(table) : ~EndsOpen(e.original)
  => phase = "ended" /\ Compared(history[1]) = Compared(Deanonymize(text))

(* Nothing in the message looks like a placeholder or hides an address. *)
Plain(m) ==
  /\ \A k \in DOMAIN m : m[k] \notin {"[", "]"}
  /\ \A p \in Found("URL", m) : \A k \in p[1]..p[2] : m[k] \notin Addresses

Quoted(Good(_)) ==
  history # <<>> /\ phase = "ended" /\ client = "browser"
    /\ text = Anonymize(mail).text /\ Good(mail) => history = <<mail>>

(* Safety: a model that quotes the message back is read as the message
   itself, when no link in it holds an address: pii.Anonymizer. *)
QuoteReadsBack == Quoted(Plain)

(* What agent/tests/test_pii.py:44 and the docstring of deanonymize say of every
   text ("Ersetzt Tags zurück durch die Originalwerte"). *)
AnonymizeIsReversible == Quoted(LAMBDA m : \A k \in DOMAIN m : m[k] \notin {"[", "]"})
=============================================================================
