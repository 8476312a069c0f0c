------------------------------ MODULE TagStream ------------------------------
(***************************************************************************)
(* deanonymize_stream of webui/src/chat.py.  A provider streams an answer   *)
(* in chunks that end anywhere, also inside a placeholder such as           *)
(* [EMAIL_1]; each piece that leaves the generator has its placeholders     *)
(* replaced on its own, so a piece must never end inside one.  The answer   *)
(* is a sequence of characters, the buffer of the code is sent+1 .. read.   *)
(***************************************************************************)
EXTENDS Integers, Sequences

CONSTANTS
  Chars,      \* what an answer is made of, with "[" and "]" among it
  Texts,      \* the answers
  Threshold   \* _STREAM_BUFFER_FLUSH_THRESHOLD

ASSUME ConstantsAssumption ==
  /\ Texts \subseteq Seq(Chars)
  /\ Threshold \in Nat

VARIABLES
  text,    \* the answer of the provider
  read,    \* how many of its characters the generator has received
  sent,    \* how many it has delivered
  cuts,    \* the positions where a delivered piece ended
  phase    \* "open", "ended", "failed"

streamVars == <<text, read, sent, cuts, phase>>

StreamTypeOK ==
  /\ text \in Texts
  /\ read \in 0..Len(text)
  /\ sent \in 0..read
  /\ cuts \subseteq 0..Len(text)
  /\ phase \in {"open", "ended", "failed"}

StreamInit ==
  /\ text \in Texts
  /\ read = 0 /\ sent = 0 /\ cuts = {0} /\ phase = "open"

Bracket(k) == text[k] \in {"[", "]"}

(* rfind("[") > rfind("]"), with the last "[" of the buffer at i. *)
OpenAt(i, n) ==
  /\ i \in sent + 1 .. n
  /\ text[i] = "["
  /\ \A k \in i + 1 .. n : ~Bracket(k)

(* The next chunk arrives and ends at n. *)
Receive(n) ==
  /\ phase = "open"
  /\ n \in read + 1 .. Len(text)
  /\ read' = n

(* No open bracket: the whole buffer leaves. *)
Deliver(n) ==
  /\ Receive(n)
  /\ ~ \E i \in 1..n : OpenAt(i, n)
  /\ sent' = n
  /\ cuts' = cuts \cup {n}
  /\ UNCHANGED <<text, phase>>

(* Mutant: the buffer keeps one character too many. *)
HoldOneMore(i, n) ==
  /\ Receive(n)
  /\ OpenAt(i, n)
  /\ n - i + 1 <= Threshold
  /\ sent' = i - 2
  /\ cuts' = cuts \cup {i - 1}
  /\ UNCHANGED <<text, phase>>

(* An open bracket: what is before it leaves, the rest is held back. *)
Hold(i, n) ==
  /\ Receive(n)
  /\ OpenAt(i, n)
  /\ n - i + 1 <= Threshold
  /\ sent' = i - 1
  /\ cuts' = cuts \cup {i - 1}
  /\ UNCHANGED <<text, phase>>

(* Mutant: what is held back leaves with the next chunk. *)
GiveUpEarly(i, n) ==
  /\ Receive(n)
  /\ OpenAt(i, n)
  /\ n - i + 1 > 1
  /\ sent' = n
  /\ cuts' = cuts \cup {i - 1, n}
  /\ UNCHANGED <<text, phase>>

(* More is held back than any placeholder is long: it leaves as well. *)
GiveUp(i, n) ==
  /\ Receive(n)
  /\ OpenAt(i, n)
  /\ n - i + 1 > Threshold
  /\ sent' = n
  /\ cuts' = cuts \cup {i - 1, n}
  /\ UNCHANGED <<text, phase>>

(* The iterator is exhausted and the rest is flushed. *)
Exhausted ==
  /\ phase = "open" /\ read = Len(text)
  /\ phase' = "ended"
  /\ sent' = read
  /\ cuts' = cuts \cup {read}
  /\ UNCHANGED <<text, read>>

(* The tool loop receives a text block as a whole and delivers it as one piece. *)
DeliverBlock ==
  /\ phase = "open" /\ read = 0
  /\ phase' = "ended"
  /\ read' = Len(text) /\ sent' = Len(text)
  /\ cuts' = cuts \cup {Len(text)}
  /\ UNCHANGED text

(* The provider's stream raises: what is held back is lost. *)
ProviderFails ==
  /\ phase = "open"
  /\ phase' = "failed"
  /\ UNCHANGED <<text, read, sent, cuts>>

StreamNext ==
  \/ \E n \in 1..Len(text) :
       Deliver(n) \/ \E i \in 1..n : Hold(i, n) \/ GiveUp(i, n)
  \/ Exhausted
  \/ DeliverBlock
  \/ ProviderFails

StreamSpec == StreamInit /\ [][StreamNext]_streamVars

-----------------------------------------------------------------------------
(* A bracketed run at a .. b that is not longer than a placeholder can be. *)
Tag(a, b) ==
  /\ text[a] = "[" /\ text[b] = "]"
  /\ \A k \in a + 1 .. b - 1 : ~Bracket(k)
  /\ b - a <= Threshold

(* Safety: no piece ends inside a placeholder, wherever the provider cuts
   its chunks: chat.py:318-331. *)
NoTagTorn ==
  \A a, b \in 1..Len(text) :
    (a < b /\ Tag(a, b)) => \A c \in cuts : ~(a <= c /\ c < b)

(* What makes it inductive: the buffer is empty or starts with an open
   bracket, and everything delivered ended at a recorded cut. *)
BufferIsHeld ==
  /\ sent \in cuts
  /\ \A c \in cuts : c <= sent
  /\ sent < read => OpenAt(sent + 1, read)

StreamInv == StreamTypeOK /\ BufferIsHeld /\ NoTagTorn
=============================================================================
