------------------------------ MODULE Framing -------------------------------
(***************************************************************************)
(* Framing of one reply (bm-driver framing.rs, with the read loop of       *)
(* engine.rs exchange_inner): what an instrument sends arrives in chunks   *)
(* cut anywhere, and may stop anywhere.  A byte is its code, the byte of a *)
(* digit the digit.                                                        *)
(***************************************************************************)
EXTENDS Integers, Sequences, SequencesExt

CONSTANTS
  Framings,  \* [reply, n, mode, terminator, skip, strip] of commands: Reply and RxFraming
  Streams,   \* what the instrument may send in answer
  PrefixMax  \* BLOCK_PREFIX_MAX (64 in the code)

Byte == 0..255
RxFraming ==
  [reply : {"none", "bytes", "block", "line"}, n : Nat, mode : {"terminator", "idle", "message", "fixed"},
   terminator : Seq(Byte), skip : SUBSET Byte, strip : SUBSET Byte]
ASSUME FramingAssumption == Framings \subseteq RxFraming /\ Streams \subseteq Seq(Byte) /\ PrefixMax \in Nat

VARIABLES
  rx,      \* the framing of the command
  stream,  \* what the instrument sends
  read,    \* how much of it was read
  buf,     \* Framer.buf
  framed   \* how it ended, with the reply and the bytes after it

framingVars == <<rx, stream, read, buf, framed>>

Hash == 35  \* '#'

Ended(end, reply, leftover) == [end |-> end, reply |-> reply, leftover |-> leftover]
Unfinished == Ended("none", <<>>, <<>>)
BadFrame == Ended("framing", <<>>, <<>>)

FramingInit ==
  /\ rx \in Framings /\ stream \in Streams
  /\ read = 0 /\ buf = <<>> /\ framed = Unfinished

From(s, i) == SubSeq(s, i, Len(s))
IsNoise(b) == b \in rx.skip
Strip(s) == SubSeq(s, 1, SelectLastInSeq(s, LAMBDA b : b \notin rx.strip))

\* From the first byte that is not noise.
Begins(s) == SelectInSeq(s, LAMBDA b : ~IsNoise(b))
Heard(s) == IF Begins(s) = 0 THEN <<>> ELSE From(s, Begins(s))

\* Slip: every chunk may start with noise.
FedEach(chunk) == buf \o Heard(chunk)

\* push: noise is skipped until the reply has started, in whatever chunk that is.
Fed(chunk) == IF buf # <<>> THEN buf \o chunk ELSE Heard(chunk)

Split(b, n, skip) == Ended("reply", Strip(SubSeq(b, 1, n)), From(b, n + skip + 1))

\* find: where w is in b.
Places(w, b) == {i \in 1..(Len(b) - Len(w) + 1) : SubSeq(b, i, i + Len(w) - 1) = w}

Line(b) ==
  CASE rx.mode = "terminator" ->
         LET at == IF rx.terminator = <<>> THEN {} ELSE Places(rx.terminator, b)
         IN  IF at = {} THEN Unfinished ELSE Split(b, Min(at) - 1, Len(rx.terminator))
    [] rx.mode = "message" -> Split(b, Len(b), 0)
    [] rx.mode = "idle" -> Unfinished
    [] rx.mode = "fixed" -> BadFrame

\* A text prefix is dropped once the block's header is there.
HashAt(s) == SelectInSeq(s, LAMBDA b : b = Hash)
Drained(b) == IF rx.reply = "block" /\ HashAt(b) \in 1..(PrefixMax + 1) THEN From(b, HashAt(b)) ELSE b

\* parse: the number so far, digit by digit.
Decimal(digits) ==
  LET value[i \in 0..Len(digits)] == IF i = 0 THEN 0 ELSE 10 * value[i - 1] + digits[i]
  IN  value[Len(digits)]

\* #<n><n digits><payload>; a sign before the digits is left out.
Block(b) ==
  LET n == b[2]
      digits == SubSeq(b, 3, 2 + n)
      total == 2 + n + Decimal(digits)
  IN  IF b[1] # Hash THEN IF Len(b) > PrefixMax THEN BadFrame ELSE Unfinished
      ELSE IF Len(b) < 2 THEN Unfinished
      ELSE IF n \notin 1..9 THEN BadFrame
      ELSE IF Len(b) < 2 + n THEN Unfinished
      ELSE IF \E i \in DOMAIN digits : digits[i] \notin 0..9 THEN BadFrame
      ELSE IF Len(b) < total THEN Unfinished
      ELSE Ended("reply", SubSeq(b, 3 + n, total), From(b, total + 1))

Completed(b) ==
  CASE b = <<>> -> Unfinished
    [] b # <<>> /\ rx.reply = "none" -> BadFrame
    [] b # <<>> /\ rx.reply = "bytes" -> IF Len(b) >= rx.n THEN Split(b, rx.n, 0) ELSE Unfinished
    [] b # <<>> /\ rx.reply = "block" -> Block(b)
    [] b # <<>> /\ rx.reply = "line" -> Line(b)

\* A chunk of any size is read.
Push ==
  /\ framed = Unfinished
  /\ \E n \in (read + 1)..Len(stream) :
       LET b == Drained(Fed(SubSeq(stream, read + 1, n))) IN
       /\ read' = n /\ buf' = b /\ framed' = Completed(b)
  /\ UNCHANGED <<rx, stream>>

\* The line went idle or the reply timed out.
FramerFinish ==
  /\ framed = Unfinished
  /\ framed' = IF rx.reply = "line" /\ rx.mode \in {"idle", "message"}
               THEN Ended("reply", Strip(buf), <<>>) ELSE Ended("timeout", <<>>, <<>>)
  /\ UNCHANGED <<rx, stream, read, buf>>

FramingNext == Push \/ FramerFinish

FramingSpec == FramingInit /\ [][FramingNext]_framingVars

-----------------------------------------------------------------------------
(* What a reply is, whatever the chunks were: a reference that looks at    *)
(* the bytes as a whole, and writes a block instead of parsing it.         *)

\* A number is written with n digits by dividing it by ten again and again: what is left
\* of it before digit i is written, and in the end nothing.
Quotients(number, n) ==
  LET left[i \in 0..n] == IF i = n THEN number ELSE left[i + 1] \div 10
  IN  left
WrittenAs(number, n) == [i \in 1..n |-> Quotients(number, n)[i] % 10]

IsBlock(s, prefix, n, payload) ==
  /\ Hash \notin ToSet(prefix)
  /\ Quotients(Len(payload), n)[0] = 0
  /\ s = prefix \o <<Hash, n>> \o WrittenAs(Len(payload), n) \o payload

\* The reply that s is, all of it, as a set.
Content(s) ==
  CASE rx.reply = "bytes" -> {Strip(t) : t \in {s} \cap [1..rx.n -> ToSet(s)]}
    [] rx.reply = "block" ->
         {From(s, i) : i \in {j \in 1..(Len(s) + 1) : \E p \in 0..PrefixMax \cap 0..Len(s), n \in 1..9 :
                               IsBlock(s, SubSeq(s, 1, p), n, From(s, j))}}
    [] rx.reply = "line" /\ rx.mode = "terminator" /\ rx.terminator # <<>> ->
         {Strip(SubSeq(s, 1, i - 1)) : i \in {j \in Places(rx.terminator, s) :
                                              /\ From(s, j) = rx.terminator
                                              /\ Places(rx.terminator, s) = {j}}}
    [] rx.reply = "line" /\ rx.mode \in {"idle", "message"} -> {Strip(s)}
    [] OTHER -> {}

\* The reply is what the bytes say, however they were cut: complete, stripped, and the bytes
\* after it kept apart; and a reply that is there is never given up as late or malformed.
\* (A message is one read; a line that ends with silence is what came before it.)
RepliesWhole ==
  LET body == Heard(SubSeq(stream, 1, read))
      taken == SubSeq(body, 1, Len(body) - Len(framed.leftover))
      Unheard(s) == \A k \in 1..Len(s) : Content(SubSeq(s, 1, k)) = {}
  IN  /\ framed.end = "reply" => body = taken \o framed.leftover /\ framed.reply \in Content(taken)
      /\ framed.end = "timeout" => Unheard(body)
      /\ framed.end = "framing" => Unheard(Heard(stream))
=============================================================================
