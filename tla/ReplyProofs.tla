----------------------------- MODULE ReplyProofs -----------------------------
(***************************************************************************)
(* Proofs about modules Reader and Reply, for all replies, all streams of  *)
(* them and every way they come in: what a call holds in memory is bounded *)
(* whatever the other end writes, what the reader returns is what was      *)
(* meant, and what it refuses was not in order.                            *)
(*                                                                         *)
(* The argument for the last two is a ledger of the stream (Framing).  At  *)
(* each level, the stream itself and every array being filled, there are   *)
(* the replies still to be read there (Placed); the first of the innermost *)
(* level is the one at hand, and what the reader holds of it is, with what *)
(* is still to come, what was written for it and behind it (Reading).      *)
(***************************************************************************)
EXTENDS Reply, Inductions

-----------------------------------------------------------------------------
(* What a call holds in memory.                                            *)

\* What the reader holds of the stream is sequences of symbols, and the buffer is a
\* buffer: without it a fragment could be of any length.
Buffered ==
  /\ wire \in Seq(STRING) /\ buf \in Seq(STRING) /\ line \in Seq(STRING)
  /\ Len(buf) <= BufSize

\* Only a call that has failed keeps a line above the limit, and that line is the one
\* before the last fragment and a buffer (resp.go:184-188).
LineHeld ==
  /\ pc # "failed" => Len(line) <= MaxLine
  /\ Len(line) <= MaxLine + BufSize

\* What is read and what is missing of a bulk string are together what its length
\* prefix said, with the CR LF.
BulkHeld ==
  pc = "bulk" =>
    /\ need \in Nat /\ val.v \in Seq(STRING)
    /\ Len(val.v) + need <= MaxBulk + 2

Held == Buffered /\ LineHeld /\ BulkHeld

-----------------------------------------------------------------------------
LEMMA NumberOfIsInteger ==
  ASSUME NEW text, IsNumber(text)
  PROVE  NumberOf(text) \in Numbers
<1> QED
  BY Zenon DEF IsNumber, NumberOf

LEMMA LineEndFirst ==
  ASSUME buf \in Seq(STRING), HasLine
  PROVE  /\ LineEnd \in 1..Len(buf) /\ buf[LineEnd] = "LF"
         /\ \A j \in 1..(LineEnd - 1) : buf[j] # "LF"
<1> DEFINE T == {k \in Nat : k \in DOMAIN buf /\ buf[k] = "LF"}
<1>1. T \in SUBSET Nat /\ T # {}
  BY DEF HasLine
<1>2. PICK i \in T : \A m \in T : i <= m
  BY <1>1, LeastOf
<1>3. i \in DOMAIN buf /\ buf[i] = "LF" /\ \A j \in 1..(i - 1) : buf[j] # "LF"
  BY <1>2
<1> DEFINE P(k) == buf[k] = "LF" /\ \A j \in 1..(k - 1) : buf[j] # "LF"
<1>4. LineEnd = CHOOSE k \in DOMAIN buf : P(k)
  BY DEF LineEnd
<1> HIDE DEF P
<1>5. \E k \in DOMAIN buf : P(k)
  BY <1>3 DEF P
<1>6. LineEnd \in DOMAIN buf /\ P(LineEnd)
  BY <1>4, <1>5, Zenon
<1>7. DOMAIN buf = 1..Len(buf)
  BY LenProperties
<1> QED
  BY <1>6, <1>7, Zenon DEF P

-----------------------------------------------------------------------------
\* What a value read, an error or an array leaves behind is no bulk string.
LEMMA GiveHolds == ASSUME NEW v, Give(v) PROVE BulkHeld'
<1> QED
  BY DEF Give, BulkHeld

LEMMA GiveErrorHolds == ASSUME NEW text, GiveError(text) PROVE BulkHeld'
<1> QED
  BY GiveHolds DEF GiveError, BulkHeld

LEMMA ArrayHolds == ASSUME NEW n \in Int, Array(n) PROVE BulkHeld'
<1> QED
  BY GiveHolds DEF Array, BulkHeld

\* A length prefix is compared with the limit before anything is held for it.
LEMMA BulkHolds == ASSUME NEW n \in Int, Bulk(n) PROVE BulkHeld'
<1>1. CASE n < 0
  BY <1>1, GiveHolds DEF Bulk
<1>2. CASE n >= 0 /\ n > MaxBulk
  BY <1>2 DEF Bulk, BulkHeld
<1>3. CASE n >= 0 /\ ~(n > MaxBulk)
  <2>1. pc' = "bulk" /\ need' = n + 2 /\ val' = StrValue(<<>>)
    BY <1>3 DEF Bulk
  <2>2. n \in 0..MaxBulk
    BY <1>3, LimitsAssumption
  <2>3. val'.v \in Seq(STRING)
    BY <2>1 DEF StrValue
  <2>4. Len(val'.v) = 0
    BY <2>1 DEF StrValue
  <2>5. need' \in Nat /\ 0 + need' <= MaxBulk + 2
    BY <2>1, <2>2, LimitsAssumption
  <2> QED
    BY <2>3, <2>4, <2>5, Zenon DEF BulkHeld
<1> QED
  BY <1>1, <1>2, <1>3

LEMMA DispatchHolds == ASSUME NEW text, Dispatch(text) PROVE BulkHeld'
<1> DEFINE body == Tail(text)
           first(c) == text # <<>> /\ text[1] = c
           gone == pc' = "failed" /\ UNCHANGED <<need, val, frames, results>>
<1>1. gone => BulkHeld'
  BY DEF BulkHeld
<1>2. \/ Give(StrValue(body))
      \/ GiveError(body)
      \/ IsNumber(body) /\ Give(NumValue(NumberOf(body)))
      \/ IsNumber(body) /\ Bulk(NumberOf(body))
      \/ IsNumber(body) /\ Array(NumberOf(body))
      \/ gone
  BY Zenon DEF Dispatch
<1>3. IsNumber(body) => NumberOf(body) \in Int
  BY NumberOfIsInteger, NumbersAssumption
<1> QED
  BY <1>1, <1>2, <1>3, GiveHolds, GiveErrorHolds, BulkHolds, ArrayHolds

-----------------------------------------------------------------------------
LEMMA InitHolds == Init => Held
<1> SUFFICES ASSUME Init PROVE Held
  OBVIOUS
<1>1. buf = <<>> /\ line = <<>> /\ pc = "idle" /\ wire \in Seq(STRING)
  BY StreamsAssumption DEF Init
<1>2. <<>> \in Seq(STRING) /\ Len(<<>>) = 0
  OBVIOUS
<1> QED
  BY <1>1, <1>2, LimitsAssumption DEF Held, Buffered, LineHeld, BulkHeld

LEMMA ReceiveHolds == Held /\ Receive => Held'
<1> SUFFICES ASSUME Held, Receive PROVE Held'
  OBVIOUS
<1>1. PICK n \in 1..Len(wire) : /\ Len(buf) + n <= BufSize
                               /\ buf' = buf \o SubSeq(wire, 1, n)
                               /\ wire' = SubSeq(wire, n + 1, Len(wire))
  BY DEF Receive
<1>2. UNCHANGED <<pc, line, need, val>>
  BY DEF Receive
<1>3. SubSeq(wire, 1, n) \in Seq(STRING) /\ Len(SubSeq(wire, 1, n)) = n /\ wire' \in Seq(STRING)
  BY <1>1, SubSeqProperties DEF Held, Buffered
<1>4. buf' \in Seq(STRING) /\ Len(buf') = Len(buf) + n
  BY <1>1, <1>3 DEF Held, Buffered
<1> QED
  BY <1>1, <1>2, <1>3, <1>4 DEF Held, Buffered, LineHeld, BulkHeld

\* A part of a line is a buffer, and the line was within the limit before it.
LEMMA FragmentHolds == Held /\ Fragment => Held'
<1> SUFFICES ASSUME Held, Fragment PROVE Held'
  OBVIOUS
<1>1. pc = "line" /\ Len(buf) = BufSize /\ line' = line \o buf /\ buf' = <<>>
  BY DEF Fragment
<1>2. line' \in Seq(STRING) /\ Len(line') = Len(line) + BufSize
  BY <1>1, ConcatProperties DEF Held, Buffered
<1>3. Len(line) <= MaxLine
  BY <1>1 DEF Held, LineHeld
<1>4. buf' \in Seq(STRING) /\ Len(buf') <= BufSize
  BY <1>1, LimitsAssumption
<1>5. Len(line') <= MaxLine + BufSize
  BY <1>2, <1>3, LimitsAssumption DEF Held, Buffered
<1>6. CASE Len(line') > MaxLine
  <2>1. pc' = "failed" /\ wire' = wire
    BY <1>6 DEF Fragment, Fatal
  <2> QED
    BY <2>1, <1>2, <1>4, <1>5 DEF Held, Buffered, LineHeld, BulkHeld
<1>7. CASE ~(Len(line') > MaxLine)
  <2>1. pc' = "line" /\ wire' = wire
    BY <1>1, <1>7 DEF Fragment
  <2>2. Len(line') <= MaxLine
    BY <1>2, <1>7, LimitsAssumption DEF Held, Buffered
  <2> QED
    BY <2>1, <2>2, <1>2, <1>4, <1>5 DEF Held, Buffered, LineHeld, BulkHeld
<1> QED
  BY <1>6, <1>7

LEMMA LineHolds == Held /\ Line => Held'
<1> SUFFICES ASSUME Held, Line PROVE Held'
  OBVIOUS
<1> DEFINE whole == line \o SubSeq(buf, 1, LineEnd)
           n == Len(whole)
<1>1. HasLine /\ line' = <<>> /\ wire' = wire /\ buf' = SubSeq(buf, LineEnd + 1, Len(buf))
  BY DEF Line
<1>2. LineEnd \in 1..Len(buf)
  BY <1>1, LineEndFirst DEF Held, Buffered
<1>3. buf' \in Seq(STRING) /\ Len(buf') <= BufSize
  BY <1>1, <1>2, SubSeqProperties, LimitsAssumption DEF Held, Buffered
<1>4. BulkHeld'
  <2>1. CASE Dispatch(SubSeq(whole, 1, n - 2))
    BY <2>1, DispatchHolds
  <2>2. CASE pc' = "failed"
    BY <2>2 DEF BulkHeld
  <2> QED
    BY <2>1, <2>2, Zenon DEF Line
<1>5. line' \in Seq(STRING) /\ Len(line') = 0
  BY <1>1
<1> QED
  BY <1>1, <1>3, <1>4, <1>5, LimitsAssumption DEF Held, Buffered, LineHeld

\* What io.ReadFull takes is no more than is missing.
LEMMA PayloadHolds == Held /\ Payload => Held'
<1> SUFFICES ASSUME Held, Payload PROVE Held'
  OBVIOUS
<1> DEFINE n == IF Len(buf) < need THEN Len(buf) ELSE need
<1>1. /\ pc = "bulk" /\ need > 0
      /\ val' = StrValue(val.v \o SubSeq(buf, 1, n))
      /\ buf' = SubSeq(buf, n + 1, Len(buf))
      /\ need' = need - n
      /\ UNCHANGED <<wire, pc, line>>
  BY DEF Payload
<1>2. n \in 0..Len(buf) /\ n <= need /\ need \in Nat
  BY <1>1 DEF Held, Buffered, BulkHeld
<1> HIDE DEF n
<1>3. SubSeq(buf, 1, n) \in Seq(STRING) /\ Len(SubSeq(buf, 1, n)) = n
  BY <1>2, SubSeqProperties DEF Held, Buffered
<1>4. buf' \in Seq(STRING) /\ Len(buf') <= BufSize
  BY <1>1, <1>2, SubSeqProperties, LimitsAssumption DEF Held, Buffered
<1>5. val'.v = val.v \o SubSeq(buf, 1, n)
  BY <1>1 DEF StrValue
<1>6. val.v \in Seq(STRING) /\ Len(val.v) + need <= MaxBulk + 2
  BY <1>1, Zenon DEF Held, BulkHeld
<1>7. val'.v \in Seq(STRING) /\ Len(val'.v) = Len(val.v) + Len(SubSeq(buf, 1, n))
  BY <1>3, <1>5, <1>6, ConcatProperties, Zenon
<1>8. need' \in Nat /\ Len(val'.v) + need' <= MaxBulk + 2
  <2> DEFINE taken == Len(val.v)
  <2>1. Len(val'.v) = taken + n /\ taken + need <= MaxBulk + 2 /\ taken \in Nat
    BY <1>3, <1>6, <1>7, LenProperties, Zenon
  <2> HIDE DEF taken
  <2> QED
    BY <1>1, <1>2, <2>1, LimitsAssumption
<1> QED
  BY <1>1, <1>4, <1>7, <1>8 DEF Held, Buffered, LineHeld, BulkHeld

LEMMA StepHolds == Held /\ [Next]_vars => Held'
<1> SUFFICES ASSUME Held, [Next]_vars PROVE Held'
  OBVIOUS
<1> DEFINE Same == UNCHANGED <<wire, buf, line>> /\ (pc' # "failed" => pc # "failed") /\ pc' # "bulk"
<1>1. Same => Held'
  BY DEF Held, Buffered, LineHeld, BulkHeld
<1>2. CASE Call
  BY <1>2, LimitsAssumption DEF Call, Held, Buffered, LineHeld, BulkHeld
<1>3. CASE ReadFails
  <2>1. Same
    BY <1>3 DEF ReadFails, Fatal
  <2> QED
    BY <1>1, <2>1
<1>4. CASE PayloadDone
  <2>1. Same
    BY <1>4, Zenon DEF PayloadDone
  <2> QED
    BY <1>1, <2>1
<1>5. CASE GiveElement
  <2>1. Same
    BY <1>5 DEF GiveElement
  <2> QED
    BY <1>1, <2>1
<1>6. CASE GiveResult
  <2>1. Same
    BY <1>6 DEF GiveResult
  <2> QED
    BY <1>1, <2>1
<1>7. CASE UNCHANGED vars
  BY <1>7 DEF vars, Held, Buffered, LineHeld, BulkHeld
<1> QED
  BY <1>2, <1>3, <1>4, <1>5, <1>6, <1>7, ReceiveHolds, FragmentHolds, LineHolds, PayloadHolds
     DEF Next, ReadReply

-----------------------------------------------------------------------------
\* Whatever the other end writes, and however it arrives, the line being read is no
\* longer than its limit and a buffer, and the bulk string being read no larger than
\* its own limit and a CR LF (readLine and the '$' of ReadReply, resp.go:121-135 and
\* 166-194).  Of the arrays around them nothing is said (resp.go:150).
THEOREM LineAndBulkBoundedHolds == Spec => []LineAndBulkBounded
<1>1. Held => LineAndBulkBounded
  BY DEF Held, LineHeld, BulkHeld, LineAndBulkBounded
<1> QED
  BY <1>1, InitHolds, StepHolds, PTL DEF Spec

-----------------------------------------------------------------------------
(* What is written and meant.                                              *)

\* The provers do not know that a literal is a string.
Marks == {"+", "-", ":", "$", "*", "CR", "LF"}
Symbol == STRING \cup Marks
Symbols == Seq(Symbol)

\* What may be read: the replies, and the arguments of commands.
Wide == Replies \cup {Str(text) : text \in {x \in Seq(STRING) : Len(x) \in Numbers}}

\* Garbage may be anything: of a stream that has some nothing can be said.
NoGarbage == \A r \in Replies : r.t # "garbage"

\* Within a line.
NoEnd(text) == \A i \in DOMAIN text : text[i] # "LF"

Kinds == {"str", "int", "nil", "nilarr", "err", "simple", "arr", "command"}

\* What is written is of symbols.
LEMMA StringsAreSymbols == \A s \in Seq(STRING) : s \in Symbols
<1>1. STRING \subseteq Symbol
  BY DEF Symbol
<1> QED
  BY <1>1, SeqMonotonic DEF Symbols

\* A number is one symbol, and is read back as itself.
LEMMA SymIs ==
  ASSUME NEW n \in Numbers
  PROVE  /\ Sym(n) \in Symbols /\ Len(Sym(n)) = 1 /\ NoEnd(Sym(n))
         /\ Sym(n) # <<>> /\ IsNumber(Sym(n)) /\ NumberOf(Sym(n)) = n
<1>1. Sym(n)[1] \in STRING \ {"CR", "LF"}
  BY NumbersAssumption
<1> DEFINE s == ToString(n)
<1>2. Sym(n) = <<s>>
  BY DEF Sym
<1> HIDE DEF s
<1>3. s \in Symbol /\ s # "LF"
  BY <1>1, <1>2 DEF Symbol
<1>4. Sym(n) \in Symbols /\ Len(Sym(n)) = 1 /\ NoEnd(Sym(n)) /\ Sym(n) # <<>>
  BY <1>2, <1>3 DEF Symbols, NoEnd
<1>5. IsNumber(Sym(n))
  BY Zenon DEF IsNumber
<1>6. NumberOf(Sym(n)) \in Numbers /\ Sym(NumberOf(Sym(n))) = Sym(n)
  BY Zenon DEF NumberOf
<1>7. NumberOf(Sym(n)) = n
  BY <1>6, NumbersAssumption, Zenon
<1> QED
  BY <1>4, <1>5, <1>7

LEMMA PairIs ==
  ASSUME NEW S, NEW a \in S, NEW b \in S
  PROVE  <<a, b>> \in Seq(S) /\ Len(<<a, b>>) = 2
<1> QED
  OBVIOUS

LEMMA CRLFIs == CRLF \in Symbols /\ Len(CRLF) = 2 /\ CRLF[1] = "CR" /\ CRLF[2] = "LF"
<1>1. "CR" \in Symbol /\ "LF" \in Symbol
  BY DEF Symbol, Marks
<1>2. <<"CR", "LF">> \in Seq(Symbol) /\ Len(<<"CR", "LF">>) = 2
  BY <1>1, PairIs, Zenon
<1> QED
  BY <1>2 DEF CRLF, Symbols

\* Joining, of symbols: the facts the steps below need of it.
LEMMA Joined ==
  /\ \A a, b \in Symbols : a \o b \in Symbols /\ Len(a \o b) = Len(a) + Len(b)
  /\ \A a, b, c \in Symbols : (a \o b) \o c = a \o (b \o c)
  /\ \A a \in Symbols : a \o <<>> = a /\ <<>> \o a = a
  /\ <<>> \in Symbols
<1>1. \A a, b \in Symbols : a \o b \in Symbols /\ Len(a \o b) = Len(a) + Len(b)
  BY ConcatProperties DEF Symbols
<1>2. \A a, b, c \in Symbols : (a \o b) \o c = a \o (b \o c)
  BY ConcatAssociative DEF Symbols
<1>3. \A a \in Symbols : a \o <<>> = a /\ <<>> \o a = a
  BY ConcatEmptySeq DEF Symbols
<1>4. <<>> \in Symbols
  BY EmptySeq DEF Symbols
<1> QED
  BY <1>1, <1>2, <1>3, <1>4, Zenon

\* The same of symbols.
LEMMA Grouped ==
  \A a, b, c \in Symbols : Groups(a, b, c)
<1> QED
  BY Regroup DEF Symbols

LEMMA JoinedAt ==
  \A a, b \in Symbols :
    /\ Len(a) \in Nat /\ DOMAIN a = 1..Len(a)
    /\ \A i \in 1..Len(a) : (a \o b)[i] = a[i]
    /\ \A i \in 1..Len(b) : (a \o b)[Len(a) + i] = b[i]
<1> TAKE a \in Symbols, b \in Symbols
<1>1. /\ Len(a) \in Nat /\ DOMAIN a = 1..Len(a) /\ Len(b) \in Nat
      /\ \A i \in 1 .. Len(a) + Len(b) : (a \o b)[i] = IF i <= Len(a) THEN a[i] ELSE b[i - Len(a)]
  BY ConcatProperties, LenProperties DEF Symbols
<1> DEFINE w == a \o b
<1> HIDE DEF w
<1>2. ASSUME NEW i \in 1..Len(b) PROVE w[Len(a) + i] = b[i]
  <2>1. Len(a) + i \in 1..Len(a) + Len(b) /\ ~(Len(a) + i <= Len(a)) /\ (Len(a) + i) - Len(a) = i
    BY <1>1
  <2> QED
    BY <1>1, <2>1 DEF w
<1>3. ASSUME NEW i \in 1..Len(a) PROVE w[i] = a[i]
  BY <1>1 DEF w
<1> QED
  BY <1>1, <1>2, <1>3 DEF w

\* What a prefix begins is a line.
LEMMA PrefixIs ==
  ASSUME NEW c \in Symbol, c # "LF", NEW n \in Numbers
  PROVE  /\ <<c>> \o Sym(n) \in Symbols /\ NoEnd(<<c>> \o Sym(n))
         /\ Prefix(c, n) = (<<c>> \o Sym(n)) \o CRLF
         /\ Prefix(c, n) \in Symbols
<1>1. Sym(n) \in Symbols /\ Len(Sym(n)) = 1 /\ NoEnd(Sym(n))
  BY SymIs
<1>2. <<c>> \in Symbols /\ Len(<<c>>) = 1
  BY DEF Symbols
<1> DEFINE s == Sym(n)
<1> HIDE DEF s
<1>3. <<c>> \o s \in Symbols /\ NoEnd(<<c>> \o s)
  <2> DEFINE o == <<c>>
  <2>1. o \in Symbols /\ s \in Symbols /\ Len(o) = 1 /\ Len(s) = 1 /\ s[1] # "LF"
    BY <1>1, <1>2 DEF s, NoEnd
  <2>2. o[1] # "LF"
    OBVIOUS
  <2> HIDE DEF o
  <2>3. o \o s \in Symbols /\ Len(o \o s) = 2 /\ (o \o s)[1] = o[1] /\ (o \o s)[2] = s[1]
    BY <2>1, ConcatProperties DEF Symbols
  <2> QED
    BY <2>1, <2>2, <2>3 DEF NoEnd, Symbols, o
<1>4. (<<c>> \o s) \o CRLF \in Symbols
  BY <1>3, CRLFIs, ConcatProperties DEF Symbols
<1> QED
  BY <1>3, <1>4 DEF Prefix, s

\* Text behind a type is a line.
LEMMA LineTextIs ==
  ASSUME NEW c \in Symbol, c # "LF", NEW text, LineText(text)
  PROVE  <<c>> \o text \in Symbols /\ NoEnd(<<c>> \o text) /\ Len(<<c>> \o text) = Len(text) + 1
<1>1. text \in Symbols /\ \A i \in DOMAIN text : text[i] # "LF"
  BY StringsAreSymbols DEF LineText
<1>2. <<c>> \in Symbols /\ Len(<<c>>) = 1
  BY DEF Symbols
<1> QED
  BY <1>1, <1>2, ConcatProperties DEF Symbols, NoEnd

\* What a bulk string is.
LEMMA StrIs ==
  ASSUME NEW text, BulkText(text)
  PROVE  /\ Str(text).t = "str" /\ Str(text).v = text /\ Str(text).means = StrValue(text)
         /\ Str(text).symbols \in Symbols /\ (Str(text).fine <=> Len(text) <= MaxBulk)
         /\ Str(text).symbols = Prefix("$", Len(text)) \o (text \o CRLF)
         /\ text \o CRLF \in Symbols
         /\ Str(text) \in Wide
<1>1. Str(text).t = "str" /\ Str(text).v = text /\ Str(text).means = StrValue(text)
      /\ (Str(text).fine <=> Len(text) <= MaxBulk)
      /\ Str(text).symbols = (Prefix("$", Len(text)) \o text) \o CRLF
  BY DEF Str
<1> DEFINE p == Prefix("$", Len(text))
<1>2. p \in Symbols /\ text \in Symbols
  <2>1. "$" \in Symbol /\ "$" # "LF"
    BY DEF Symbol, Marks
  <2> QED
    BY <2>1, PrefixIs, StringsAreSymbols DEF BulkText
<1> HIDE DEF p
<1>3. (p \o text) \o CRLF = p \o (text \o CRLF) /\ text \o CRLF \in Symbols /\ p \o (text \o CRLF) \in Symbols
  BY <1>2, CRLFIs, Joined, Zenon
<1>4. Str(text) \in Wide
  BY DEF Wide, BulkText
<1> QED
  BY <1>1, <1>3, <1>4 DEF p

\* Whatever may be read is what a constructor made.
LEMMA WideMade ==
  ASSUME NEW r \in Wide
  PROVE  Made(r) /\ r.symbols \in Symbols
<1>1. CASE r \in Replies
  <2>1. Made(r)
    BY <1>1, RepliesAssumption
  <2>2. r.symbols \in Symbols
    BY <1>1, RepliesAssumption, StringsAreSymbols
  <2> QED
    BY <2>1, <2>2
<1>2. CASE r \notin Replies
  <2>1. PICK text : BulkText(text) /\ r = Str(text)
    BY <1>2 DEF Wide, BulkText
  <2>2. r.t = "str" /\ r.v = text /\ r.symbols \in Symbols
    BY <2>1, StrIs
  <2>3. BulkText(r.v) /\ r = Str(r.v)
    BY <2>1, <2>2
  <2> QED
    BY <2>2, <2>3 DEF Made
<1> QED
  BY <1>1, <1>2

-----------------------------------------------------------------------------
(* Several replies, one behind the other.                                  *)

\* What is written for each of them.
LEMMA SymbolsOf ==
  ASSUME NEW s \in Seq(Wide)
  PROVE  /\ [i \in DOMAIN s |-> s[i].symbols] \in Seq(Symbols)
         /\ Len([i \in DOMAIN s |-> s[i].symbols]) = Len(s)
<1>1. Len(s) \in Nat /\ DOMAIN s = 1..Len(s) /\ \A i \in 1..Len(s) : s[i] \in Wide
  BY LenProperties, ElementOfSeq
<1>2. \A i \in 1..Len(s) : s[i].symbols \in Symbols
  BY <1>1, WideMade
<1> HIDE DEF Symbols
<1> QED
  BY <1>1, <1>2

LEMMA WrittenTyped == \A s \in Seq(Wide) : WrittenAll(s) \in Symbols
<1> TAKE s \in Seq(Wide)
<1>1. [i \in DOMAIN s |-> s[i].symbols] \in Seq(Seq(Symbol))
  BY SymbolsOf DEF Symbols
<1> QED
  BY <1>1, FlatTyped, Zenon DEF WrittenAll, Symbols

LEMMA WrittenEmpty == WrittenAll(<<>>) = <<>>
<1>1. [i \in DOMAIN <<>> |-> <<>>[i].symbols] = <<>>
  OBVIOUS
<1> QED
  BY <1>1, FlatEmpty DEF WrittenAll

\* The first of them is written before the others.
LEMMA WrittenHead ==
  ASSUME NEW s \in Seq(Wide), s # <<>>
  PROVE  /\ Head(s) \in Wide /\ Tail(s) \in Seq(Wide)
         /\ WrittenAll(s) = Head(s).symbols \o WrittenAll(Tail(s))
<1>1. Head(s) \in Wide /\ Tail(s) \in Seq(Wide)
  BY HeadTailProperties
<1> DEFINE ss == [i \in DOMAIN s |-> s[i].symbols]
           tt == [i \in DOMAIN Tail(s) |-> Tail(s)[i].symbols]
<1>2. ss \in Seq(Symbols) /\ Len(ss) = Len(s) /\ tt \in Seq(Symbols) /\ Len(tt) = Len(Tail(s))
  BY <1>1, SymbolsOf
<1>3. Len(s) \in Nat /\ Len(s) # 0 /\ DOMAIN s = 1..Len(s) /\ Len(Tail(s)) = Len(s) - 1
  BY LenProperties, EmptySeq, HeadTailProperties
<1>4. ss # <<>> /\ Len(Tail(ss)) = Len(ss) - 1 /\ Tail(ss) \in Seq(Symbols)
  <2>1. Len(ss) # 0
    BY <1>2, <1>3
  <2>2. ss # <<>>
    BY <2>1
  <2> QED
    BY <1>2, <2>2, HeadTailProperties
<1>5. Head(ss) = Head(s).symbols
  BY <1>2, <1>3, <1>4
<1>6. Tail(ss) = tt
  <2>1. \A i \in 1..Len(s) - 1 : Tail(s)[i] = s[i + 1] /\ Tail(ss)[i] = ss[i + 1]
    BY <1>2, <1>3, <1>4, HeadTailProperties
  <2>2. \A i \in 1..Len(s) - 1 : i + 1 \in DOMAIN s /\ i \in DOMAIN Tail(s)
    BY <1>1, <1>3, LenProperties
  <2>3. \A i \in 1..Len(s) - 1 : Tail(ss)[i] = tt[i]
    BY <2>1, <2>2
  <2> QED
    BY <1>2, <1>3, <1>4, <2>3, SeqEqual
<1>7. FlattenSeq(ss) = Head(ss) \o FlattenSeq(Tail(ss))
  BY <1>2, <1>4, FlatHead, Zenon DEF Symbols
<1> QED
  BY <1>1, <1>5, <1>6, <1>7, Zenon DEF WrittenAll

-----------------------------------------------------------------------------
(* Commands: what Do writes is the array of its arguments.                 *)

\* The recursion of AppendCommand up to a place, from a buffer that has the prefix.
BulksUpTo(b, args, n, f) ==
  f = [k \in 0..n |-> IF k = 0 THEN b ELSE AppendBulk(f[k - 1], ArgString(args[k]))]

LEMMA BulksExist ==
  ASSUME NEW b, NEW args
  PROVE  \A n \in Nat : \E f : BulksUpTo(b, args, n, f)
<1> DEFINE T == {n \in Nat : \E f : BulksUpTo(b, args, n, f)}
<1>1. 0 \in T
  <2> DEFINE f == [k \in 0..0 |-> b]
  <2>1. BulksUpTo(b, args, 0, f)
    BY DEF BulksUpTo
  <2> QED
    BY <2>1
<1>2. ASSUME NEW n \in Nat, n \in T PROVE n + 1 \in T
  <2>1. PICK f : BulksUpTo(b, args, n, f)
    BY <1>2
  <2> DEFINE last == AppendBulk(f[n], ArgString(args[n + 1]))
             g == [k \in 0..n + 1 |-> IF k = n + 1 THEN last ELSE f[k]]
  <2>2. \A k \in 0..n : f[k] = IF k = 0 THEN b ELSE AppendBulk(f[k - 1], ArgString(args[k]))
    BY <2>1 DEF BulksUpTo
  <2> HIDE DEF last
  <2>3. (\A k \in 0..n : g[k] = f[k]) /\ g[n + 1] = last
    OBVIOUS
  <2>4. \A k \in 0..n + 1 : g[k] = IF k = 0 THEN b ELSE AppendBulk(g[k - 1], ArgString(args[k]))
    <3> TAKE k \in 0..n + 1
    <3>1. CASE k = n + 1
      <4>1. n \in 0..n /\ k - 1 = n /\ k # 0
        BY <3>1
      <4> QED
        BY <2>3, <3>1, <4>1 DEF last
    <3>2. CASE k \in 0..n
      <4>1. k # 0 => k - 1 \in 0..n
        BY <3>2
      <4> QED
        BY <2>2, <2>3, <3>2, <4>1
    <3> QED
      BY <3>1, <3>2
  <2>5. BulksUpTo(b, args, n + 1, g)
    BY <2>4 DEF BulksUpTo
  <2> QED
    BY <2>5
<1> HIDE DEF T
<1>3. \A n \in Nat : n \in T
  BY <1>1, <1>2, NatSet
<1> QED
  BY <1>3 DEF T

\* After k arguments the buffer has the first k bulk strings.
LEMMA BulksAre ==
  ASSUME NEW b \in Symbols, NEW args, Len(args) \in Nat, DOMAIN args = 1..Len(args),
         \A i \in 1..Len(args) : BulkText(ArgString(args[i])),
         NEW f, BulksUpTo(b, args, Len(args), f)
  PROVE  f[Len(args)] = b \o WrittenAll(Strs(args))
<1> DEFINE n == Len(args)
           First(k) == [i \in 1..k |-> Str(ArgString(args[i]))]
           T == {k \in Nat : k <= n => f[k] = b \o WrittenAll(First(k))}
<1>1. \A k \in 0..n : f[k] = IF k = 0 THEN b ELSE AppendBulk(f[k - 1], ArgString(args[k]))
  BY DEF BulksUpTo
<1>2. 0 \in T
  <2>1. First(0) = <<>>
    OBVIOUS
  <2>2. f[0] = b
    BY <1>1
  <2> QED
    BY <2>1, <2>2, WrittenEmpty, Joined
<1>3. ASSUME NEW k \in Nat, k \in T PROVE k + 1 \in T
  <2> SUFFICES ASSUME k + 1 <= n PROVE f[k + 1] = b \o WrittenAll(First(k + 1))
    OBVIOUS
  <2> DEFINE text == ArgString(args[k + 1])
             ss == [i \in 1..k |-> Str(ArgString(args[i])).symbols]
  <2>1. k + 1 \in 1..n /\ k + 1 \in 0..n /\ (k + 1) - 1 = k /\ k + 1 # 0
    OBVIOUS
  <2>2. \A i \in 1..k + 1 : Str(ArgString(args[i])) \in Wide /\ Str(ArgString(args[i])).symbols \in Symbols
    BY StrIs
  <2>3. First(k) \in Seq(Wide) /\ ss \in Seq(Symbols)
    BY <2>2
  <2>4. WrittenAll(First(k)) = FlattenSeq(ss)
    <3>1. [i \in DOMAIN First(k) |-> First(k)[i].symbols] = ss
      OBVIOUS
    <3> QED
      BY <3>1, Zenon DEF WrittenAll
  <2>5. WrittenAll(First(k + 1)) = FlattenSeq(Append(ss, Str(text).symbols))
    <3>1. [i \in DOMAIN First(k + 1) |-> First(k + 1)[i].symbols] = Append(ss, Str(text).symbols)
      OBVIOUS
    <3> QED
      BY <3>1, Zenon DEF WrittenAll
  <2>6. WrittenAll(First(k + 1)) = WrittenAll(First(k)) \o Str(text).symbols
    <3>1. FlattenSeq(Append(ss, Str(text).symbols))
            = IF ss = <<>> THEN Str(text).symbols ELSE FlattenSeq(ss) \o Str(text).symbols
      <4> DEFINE e == Str(text).symbols
      <4>1. ss \in Seq(Seq(Symbol)) /\ e \in Seq(Symbol)
        BY <2>1, <2>2, <2>3 DEF Symbols
      <4> HIDE DEF e, ss
      <4>2. FlattenSeq(Append(ss, e)) = IF ss = <<>> THEN e ELSE FlattenSeq(ss) \o e
        BY <4>1, FlatAppend
      <4> QED
        BY <4>2 DEF e
    <3>2. <<>> \o Str(text).symbols = Str(text).symbols
      BY <2>1, <2>2, Joined
    <3> QED
      BY <2>4, <2>5, <3>1, <3>2, FlatEmpty
  <2>7. f[k + 1] = AppendBulk(f[k], text)
    BY <1>1, <2>1
  <2>8. f[k] = b \o WrittenAll(First(k))
    BY <1>3
  <2> DEFINE w == WrittenAll(First(k))
             p == Prefix("$", Len(text))
  <2>9. w \in Symbols /\ p \in Symbols /\ text \in Symbols
    <3>1. "$" \in Symbol /\ "$" # "LF" /\ Len(text) \in Numbers /\ text \in Seq(STRING)
      BY <2>1 DEF Symbol, Marks, BulkText
    <3> QED
      BY <2>3, <3>1, WrittenTyped, PrefixIs, StringsAreSymbols
  <2>10. AppendBulk(b \o w, text) = (((b \o w) \o p) \o text) \o CRLF /\ Str(text).symbols = (p \o text) \o CRLF
    BY DEF AppendBulk, Str
  <2> HIDE DEF w, p, text
  <2>11. (((b \o w) \o p) \o text) \o CRLF = b \o (w \o ((p \o text) \o CRLF))
    <3>1. b \o w \in Symbols /\ p \o text \in Symbols /\ (p \o text) \o CRLF \in Symbols
      BY <2>9, Joined, CRLFIs, Zenon
    <3>2. ((b \o w) \o p) \o text = (b \o w) \o (p \o text)
      <4>1. Groups(b \o w, p, text)
        BY <2>9, <3>1, Grouped, Zenon
      <4> QED
        BY <4>1 DEF Groups
    <3>3. ((b \o w) \o (p \o text)) \o CRLF = (b \o w) \o ((p \o text) \o CRLF)
      <4>1. Groups(b \o w, p \o text, CRLF)
        BY <2>9, <3>1, Grouped, CRLFIs, Zenon
      <4> QED
        BY <4>1 DEF Groups
    <3>4. (b \o w) \o ((p \o text) \o CRLF) = b \o (w \o ((p \o text) \o CRLF))
      <4> DEFINE z == (p \o text) \o CRLF
      <4>1. z \in Symbols
        BY <3>1
      <4> HIDE DEF z
      <4>2. (b \o w) \o z = b \o (w \o z)
        <5>1. Groups(b, w, z)
          BY <2>9, <4>1, Grouped, Zenon
        <5> QED
          BY <5>1 DEF Groups
      <4> QED
        BY <4>2 DEF z
    <3> QED
      BY <3>2, <3>3, <3>4
  <2> QED
    BY <2>6, <2>7, <2>8, <2>10, <2>11 DEF w
<1> HIDE DEF T
<1>4. \A k \in Nat : k \in T
  BY <1>2, <1>3, NatSet
<1>5. First(n) = Strs(args)
  BY DEF Strs
<1>6. n \in T
  BY <1>4
<1>7. n <= n
  OBVIOUS
<1>8. f[n] = b \o WrittenAll(First(n))
  BY <1>6, <1>7, Zenon DEF T
<1> QED
  BY <1>5, <1>8

\* A command is the array of its arguments, whatever the buffer held (conn.go:54).
LEMMA DoIs ==
  ASSUME NEW wbuf, NEW args, args \in Seq(Range(args)), Len(args) \in Numbers,
         \A i \in 1..Len(args) : BulkText(ArgString(args[i]))
  PROVE  Do(wbuf, args) = Prefix("*", Len(args)) \o WrittenAll(Strs(args))
<1>1. Len(args) \in Nat /\ DOMAIN args = 1..Len(args)
  BY LenProperties
<1> DEFINE n == Len(args)
           b == Prefix("*", n)
<1>2. b \in Symbols
  <2>1. "*" \in Symbol /\ "*" # "LF"
    BY DEF Symbol, Marks
  <2> QED
    BY <2>1, PrefixIs
<1>3. SubSeq(wbuf, 1, 0) = <<>>
  BY SubSeqEmpty
<1>4. \E f : BulksUpTo(b, args, n, f)
  BY <1>1, BulksExist
<1> DEFINE f == CHOOSE f : BulksUpTo(b, args, n, f)
<1>5. BulksUpTo(b, args, n, f)
  BY <1>4
<1>6. AppendCommand(<<>>, args) = f[n]
  <2>1. <<>> \o b = b
    BY <1>2, Joined
  <2> QED
    BY <2>1 DEF AppendCommand, BulksUpTo
<1> HIDE DEF f, b
<1>7. f[n] = b \o WrittenAll(Strs(args))
  BY <1>1, <1>2, <1>5, BulksAre
<1> QED
  BY <1>3, <1>6, <1>7 DEF Do, b

-----------------------------------------------------------------------------
(* The lines of replies.                                                   *)

\* What the array of an array, or of a command, holds.
Kids(r) == IF r.t = "arr" THEN r.of ELSE Strs(r.args)

\* The line a reply begins with, and what comes behind it.
LineOf(r) ==
  CASE r.t = "str" -> <<"$">> \o Sym(Len(r.v))
    [] r.t = "int" -> <<":">> \o Sym(r.n)
    [] r.t = "nil" -> <<"$">> \o Sym(-1)
    [] r.t = "nilarr" -> <<"*">> \o Sym(-1)
    [] r.t = "err" -> <<"-">> \o r.v
    [] r.t = "simple" -> <<"+">> \o r.v
    [] r.t \in {"arr", "command"} -> <<"*">> \o Sym(Len(Kids(r)))

BodyOf(r) ==
  CASE r.t = "str" -> r.v \o CRLF
    [] r.t \in {"arr", "command"} -> WrittenAll(Kids(r))
    [] OTHER -> <<>>

AllFine(s) == \A i \in DOMAIN s : FinePart(s[i])

\* An array and a command are what their parts are.
LEMMA KidsAre ==
  ASSUME NEW r \in Wide, r.t \in {"arr", "command"}
  PROVE  /\ Kids(r) \in Seq(Wide) /\ Len(Kids(r)) \in Numbers
         /\ r.symbols = Prefix("*", Len(Kids(r))) \o WrittenAll(Kids(r))
         /\ r.means = ArrValue(Means(Kids(r)))
         /\ (r.fine <=> AllFine(Kids(r)))
<1>1. Made(r)
  BY WideMade
<1>2. CASE r.t = "arr"
  <2>1. r.of \in Seq(Replies) /\ Len(r.of) \in Numbers /\ r = Arr(r.of)
    BY <1>1, <1>2 DEF Made
  <2>2. r.of \in Seq(Wide)
    <3>1. Replies \subseteq Wide
      BY DEF Wide
    <3> QED
      BY <2>1, <3>1, SeqMonotonic
  <2>3. /\ Arr(r.of).symbols = Prefix("*", Len(r.of)) \o WrittenAll(r.of)
        /\ Arr(r.of).means = ArrValue(Means(r.of))
        /\ (Arr(r.of).fine <=> AllFine(r.of))
    BY DEF Arr, AllFine
  <2>4. Kids(r) = r.of
    BY <1>2 DEF Kids
  <2> QED
    BY <2>1, <2>2, <2>3, <2>4
<1>3. CASE r.t = "command"
  <2>1. /\ r.args \in Seq(Range(r.args)) /\ Len(r.args) \in Numbers
        /\ \A i \in DOMAIN r.args : BulkText(ArgString(r.args[i]))
        /\ r = Command(r.wbuf, r.args)
    BY <1>1, <1>3 DEF Made
  <2>2. Len(r.args) \in Nat /\ DOMAIN r.args = 1..Len(r.args)
    BY <2>1, LenProperties
  <2> DEFINE s == Strs(r.args)
  <2>3. \A i \in 1..Len(r.args) : s[i] \in Wide /\ s[i].t = "str"
    BY <2>1, <2>2, StrIs DEF Strs
  <2>4. s \in Seq(Wide) /\ Len(s) = Len(r.args) /\ DOMAIN s = DOMAIN r.args
    <3> DEFINE n == Len(r.args)
    <3>1. s = [i \in 1..n |-> s[i]]
      BY <2>2 DEF Strs
    <3> HIDE DEF s
    <3>2. s \in [1..n -> Wide]
      BY <2>3, <3>1
    <3> QED
      BY <2>2, <3>2
  <2>5. Do(r.wbuf, r.args) = Prefix("*", Len(r.args)) \o WrittenAll(s)
    BY <2>1, <2>2, DoIs
  <2>6. /\ Command(r.wbuf, r.args).symbols = Do(r.wbuf, r.args)
        /\ Command(r.wbuf, r.args).means = ArrValue(Means(s))
        /\ (Command(r.wbuf, r.args).fine <=> \A i \in DOMAIN r.args : s[i].fine)
    BY DEF Command
  <2>7. AllFine(s) <=> \A i \in DOMAIN r.args : s[i].fine
    BY <2>2, <2>3, <2>4 DEF AllFine, FinePart
  <2>8. Kids(r) = s
    BY <1>3 DEF Kids
  <2> HIDE DEF s
  <2> QED
    BY <2>1, <2>4, <2>5, <2>6, <2>7, <2>8
<1> QED
  BY <1>2, <1>3

\* Without garbage these are all the kinds.
LEMMA KindIs == ASSUME NoGarbage, NEW r \in Wide PROVE r.t \in Kinds
<1>1. Made(r)
  BY WideMade
<1>2. r.t # "garbage"
  <2>1. CASE r \in Replies
    BY <2>1 DEF NoGarbage
  <2>2. CASE r \notin Replies
    <3>1. PICK text : BulkText(text) /\ r = Str(text)
      BY <2>2 DEF Wide, BulkText
    <3> QED
      BY <3>1, StrIs
  <2> QED
    BY <2>1, <2>2
<1> QED
  BY <1>1, <1>2 DEF Made, Kinds

\* A reply is a line and what that line announces.
LEMMA LineIs ==
  ASSUME NoGarbage, NEW r \in Wide
  PROVE  /\ LineOf(r) \in Symbols /\ NoEnd(LineOf(r)) /\ BodyOf(r) \in Symbols
         /\ r.symbols = (LineOf(r) \o CRLF) \o BodyOf(r)
<1>1. Made(r) /\ r.t \in Kinds
  BY WideMade, KindIs
<1>2. \A c \in Marks : c \in Symbol
  BY DEF Symbol
<1>3. "$" \in Marks /\ ":" \in Marks /\ "*" \in Marks /\ "+" \in Marks /\ "-" \in Marks
  BY DEF Marks
<1> DEFINE Plain(x) == x \in Symbols /\ NoEnd(x) /\ (x \o CRLF) \o <<>> = x \o CRLF
<1>4. \A x \in Symbols : (x \o CRLF) \o <<>> = x \o CRLF
  BY Joined, CRLFIs, Zenon
<1>5. ASSUME NEW c \in Marks \ {"CR", "LF"}, NEW n \in Numbers
      PROVE  Plain(<<c>> \o Sym(n)) /\ Prefix(c, n) = (<<c>> \o Sym(n)) \o CRLF
  BY <1>2, <1>4, PrefixIs
<1>6. ASSUME NEW c \in Marks \ {"CR", "LF"}, NEW text, LineText(text)
      PROVE  Plain(<<c>> \o text)
  <2>1. <<c>> \o text \in Symbols /\ NoEnd(<<c>> \o text)
    BY <1>2, <1>6, LineTextIs
  <2> QED
    BY <1>4, <2>1
<1>7. CASE r.t = "str"
  <2>1. BulkText(r.v) /\ r = Str(r.v)
    BY <1>1, <1>7 DEF Made
  <2>2. Len(r.v) \in Numbers
    BY <2>1 DEF BulkText
  <2>3. r.symbols = Prefix("$", Len(r.v)) \o (r.v \o CRLF) /\ r.v \o CRLF \in Symbols
    BY <2>1, StrIs
  <2>4. LineOf(r) = <<"$">> \o Sym(Len(r.v)) /\ BodyOf(r) = r.v \o CRLF
    BY <1>7 DEF LineOf, BodyOf
  <2> QED
    BY <1>3, <1>5, <2>2, <2>3, <2>4
<1>8. CASE r.t \in {"arr", "command"}
  <2>1. Kids(r) \in Seq(Wide) /\ Len(Kids(r)) \in Numbers
        /\ r.symbols = Prefix("*", Len(Kids(r))) \o WrittenAll(Kids(r))
    BY <1>8, KidsAre
  <2>2. LineOf(r) = <<"*">> \o Sym(Len(Kids(r))) /\ BodyOf(r) = WrittenAll(Kids(r))
    BY <1>8 DEF LineOf, BodyOf
  <2>3. WrittenAll(Kids(r)) \in Symbols
    BY <2>1, WrittenTyped
  <2> QED
    BY <1>3, <1>5, <2>1, <2>2, <2>3
<1>9. CASE r.t \notin {"str", "arr", "command"}
  <2>1. BodyOf(r) = <<>> /\ <<>> \in Symbols
    BY <1>9, Joined DEF BodyOf
  <2>2. CASE r.t = "int"
    <3>1. r.n \in Numbers /\ r.symbols = Prefix(":", r.n) /\ LineOf(r) = <<":">> \o Sym(r.n)
      <4>1. r.n \in Numbers /\ r = Num(r.n)
        BY <1>1, <2>2 DEF Made
      <4>2. Num(r.n).symbols = Prefix(":", r.n)
        BY DEF Num
      <4> QED
        BY <2>2, <4>1, <4>2 DEF LineOf
    <3> QED
      BY <1>3, <1>5, <2>1, <3>1
  <2>3. CASE r.t = "nil"
    <3>1. r.symbols = Prefix("$", -1) /\ LineOf(r) = <<"$">> \o Sym(-1)
      BY <1>1, <2>3 DEF Made, Nil, LineOf
    <3> QED
      BY <1>3, <1>5, <2>1, <3>1, NumbersAssumption
  <2>4. CASE r.t = "nilarr"
    <3>1. r.symbols = Prefix("*", -1) /\ LineOf(r) = <<"*">> \o Sym(-1)
      BY <1>1, <2>4 DEF Made, NilArr, LineOf
    <3> QED
      BY <1>3, <1>5, <2>1, <3>1, NumbersAssumption
  <2>5. CASE r.t = "err"
    <3>1. LineText(r.v) /\ r = Err(r.v)
      BY <1>1, <2>5 DEF Made
    <3>2. Err(r.v).symbols = (<<"-">> \o r.v) \o CRLF /\ LineOf(r) = <<"-">> \o r.v
      BY <2>5 DEF Err, LineOf
    <3> QED
      BY <1>3, <1>6, <2>1, <3>1, <3>2
  <2>6. CASE r.t = "simple"
    <3>1. LineText(r.v) /\ r = Simple(r.v)
      BY <1>1, <2>6 DEF Made
    <3>2. Simple(r.v).symbols = (<<"+">> \o r.v) \o CRLF /\ LineOf(r) = <<"+">> \o r.v
      BY <2>6 DEF Simple, LineOf
    <3> QED
      BY <1>3, <1>6, <2>1, <3>1, <3>2
  <2> QED
    BY <1>1, <1>9, <2>2, <2>3, <2>4, <2>5, <2>6 DEF Kinds
<1> QED
  BY <1>7, <1>8, <1>9

\* A line above the limit is of a reply that is.
LEMMA LongLine ==
  ASSUME NoGarbage, NEW r \in Wide, Len(LineOf(r)) + 2 > MaxLine
  PROVE  ~r.fine
<1>1. Made(r) /\ r.t \in Kinds
  BY WideMade, KindIs
<1>2. \A n \in Numbers : \A c \in Symbol : Len(<<c>> \o Sym(n)) = 2
  <2> TAKE n \in Numbers
  <2> TAKE c \in Symbol
  <2>1. <<c>> \in Symbols /\ Len(<<c>>) = 1
    BY DEF Symbols
  <2>2. Sym(n) \in Symbols /\ Len(Sym(n)) = 1
    BY SymIs
  <2>3. Len(<<c>> \o Sym(n)) = Len(<<c>>) + Len(Sym(n))
    BY <2>1, <2>2, Joined, Zenon
  <2> QED
    BY <2>1, <2>2, <2>3
<1>3. ~(2 + 2 > MaxLine)
  BY LimitsAssumption
<1>4. "$" \in Symbol /\ ":" \in Symbol /\ "*" \in Symbol /\ "+" \in Symbol /\ "-" \in Symbol /\ -1 \in Numbers
  BY NumbersAssumption DEF Symbol, Marks
<1>5. \A n \in Numbers : LineOf(r) \notin {<<"$">> \o Sym(n), <<":">> \o Sym(n), <<"*">> \o Sym(n)}
  BY <1>2, <1>3, <1>4
<1>6. ~(r.t = "str")
  <2> SUFFICES ASSUME r.t = "str" PROVE FALSE
    OBVIOUS
  <2>1. Len(r.v) \in Numbers
    BY <1>1 DEF Made, BulkText
  <2> QED
    BY <1>5, <2>1 DEF LineOf
<1>7. ~(r.t = "int")
  <2> SUFFICES ASSUME r.t = "int" PROVE FALSE
    OBVIOUS
  <2>1. r.n \in Numbers
    BY <1>1 DEF Made
  <2> QED
    BY <1>5, <2>1 DEF LineOf
<1>8. ~(r.t \in {"nil", "nilarr"})
  BY <1>4, <1>5 DEF LineOf
<1>9. ~(r.t \in {"arr", "command"})
  <2> SUFFICES ASSUME r.t \in {"arr", "command"} PROVE FALSE
    OBVIOUS
  <2>1. Len(Kids(r)) \in Numbers
    BY KidsAre
  <2> QED
    BY <1>5, <2>1 DEF LineOf
<1>10. CASE r.t = "err"
  <2>1. LineText(r.v) /\ r = Err(r.v)
    BY <1>1, <1>10 DEF Made
  <2>2. LineOf(r) = <<"-">> \o r.v /\ Len(LineOf(r)) = Len(r.v) + 1
    BY <1>4, <1>10, <2>1, LineTextIs DEF LineOf
  <2>3. Err(r.v).fine <=> FineLine(r.v)
    BY DEF Err
  <2>4. Len(r.v) \in Nat
    BY <2>1, LenProperties DEF LineText
  <2> QED
    BY <2>1, <2>2, <2>3, <2>4, LimitsAssumption DEF FineLine
<1>11. CASE r.t = "simple"
  <2>1. LineText(r.v) /\ r = Simple(r.v)
    BY <1>1, <1>11 DEF Made
  <2>2. LineOf(r) = <<"+">> \o r.v /\ Len(LineOf(r)) = Len(r.v) + 1
    BY <1>4, <1>11, <2>1, LineTextIs DEF LineOf
  <2>3. Simple(r.v).fine <=> FineLine(r.v)
    BY DEF Simple
  <2>4. Len(r.v) \in Nat
    BY <2>1, LenProperties DEF LineText
  <2> QED
    BY <2>1, <2>2, <2>3, <2>4, LimitsAssumption DEF FineLine
<1> QED
  BY <1>1, <1>6, <1>7, <1>8, <1>9, <1>10, <1>11 DEF Kinds

-----------------------------------------------------------------------------
(* Sequences cut at one place.                                             *)

\* The first line of a text is found wherever it is cut.
LEMMA FirstEnd ==
  ASSUME NEW x \in Symbols, NEW y \in Symbols, NEW u \in Symbols, NEW v \in Symbols,
         NoEnd(x), NoEnd(y), (x \o <<"LF">>) \o u = (y \o <<"LF">>) \o v
  PROVE  x = y /\ u = v
<1> DEFINE e == <<"LF">>
<1>1. e \in Symbols /\ Len(e) = 1 /\ e[1] = "LF"
  <2>1. "LF" \in Symbol
    BY DEF Symbol, Marks
  <2> QED
    BY <2>1 DEF Symbols
<1> HIDE DEF e
<1> DEFINE s == (x \o e) \o u
<1>2. s = (y \o e) \o v
  BY DEF e
<1>3. ASSUME NEW a \in Symbols, NEW b \in Symbols, NoEnd(a)
      PROVE  LET w == (a \o e) \o b IN
             /\ w \in Symbols /\ Len(w) = Len(a) + 1 + Len(b) /\ Len(a) \in Nat /\ Len(b) \in Nat
             /\ w[Len(a) + 1] = "LF" /\ \A i \in 1..Len(a) : w[i] # "LF"
             /\ \A i \in 1..Len(a) : w[i] = a[i]
             /\ \A i \in 1..Len(b) : w[Len(a) + 1 + i] = b[i]
  <2> DEFINE c == a \o e
  <2>0. Len(c) = Len(a) + Len(e)
    BY <1>1, Joined, Zenon
  <2>1. /\ c \in Symbols /\ Len(c) = Len(a) + 1 /\ Len(a) \in Nat /\ Len(b) \in Nat
        /\ DOMAIN a = 1..Len(a)
        /\ (\A i \in 1..Len(a) : c[i] = a[i])
        /\ \A i \in 1..Len(e) : c[Len(a) + i] = e[i]
    BY <1>1, <2>0, Joined, JoinedAt, Zenon
  <2>2. c[Len(a) + 1] = "LF"
    BY <1>1, <2>1
  <2> HIDE DEF c
  <2>3. /\ c \o b \in Symbols /\ Len(c \o b) = Len(c) + Len(b)
        /\ (\A i \in 1..Len(c) : (c \o b)[i] = c[i])
        /\ \A i \in 1..Len(b) : (c \o b)[Len(c) + i] = b[i]
    BY <2>1, Joined, JoinedAt, Zenon
  <2>4. Len(a) + 1 \in 1..Len(c) /\ \A i \in 1..Len(a) : i \in 1..Len(c)
    BY <2>1
  <2>5. \A i \in 1..Len(a) : a[i] # "LF"
    BY <1>3, <2>1 DEF NoEnd
  <2> DEFINE w == c \o b
  <2> HIDE DEF w
  <2>6. /\ w \in Symbols /\ Len(w) = Len(a) + 1 + Len(b)
        /\ w[Len(a) + 1] = "LF" /\ (\A i \in 1..Len(a) : w[i] # "LF")
        /\ (\A i \in 1..Len(a) : w[i] = a[i])
        /\ \A i \in 1..Len(b) : w[Len(a) + 1 + i] = b[i]
    BY <2>1, <2>2, <2>3, <2>4, <2>5 DEF w
  <2> QED
    BY <2>1, <2>6, Zenon DEF w, c
<1>4. /\ Len(s) = Len(x) + 1 + Len(u) /\ Len(x) \in Nat /\ Len(u) \in Nat
      /\ s[Len(x) + 1] = "LF" /\ (\A i \in 1..Len(x) : s[i] # "LF")
      /\ (\A i \in 1..Len(x) : s[i] = x[i])
      /\ \A i \in 1..Len(u) : s[Len(x) + 1 + i] = u[i]
  BY <1>3, Zenon
<1>5. /\ Len(s) = Len(y) + 1 + Len(v) /\ Len(y) \in Nat /\ Len(v) \in Nat
      /\ s[Len(y) + 1] = "LF" /\ (\A i \in 1..Len(y) : s[i] # "LF")
      /\ (\A i \in 1..Len(y) : s[i] = y[i])
      /\ \A i \in 1..Len(v) : s[Len(y) + 1 + i] = v[i]
  <2> DEFINE w == (y \o e) \o v
  <2>1. /\ Len(w) = Len(y) + 1 + Len(v) /\ Len(y) \in Nat /\ Len(v) \in Nat
        /\ w[Len(y) + 1] = "LF" /\ (\A i \in 1..Len(y) : w[i] # "LF")
        /\ (\A i \in 1..Len(y) : w[i] = y[i])
        /\ \A i \in 1..Len(v) : w[Len(y) + 1 + i] = v[i]
    BY <1>3, Zenon
  <2> HIDE DEF w, s
  <2>2. s = w
    BY <1>2 DEF w
  <2> QED
    BY <2>1, <2>2, Zenon
<1> HIDE DEF s
<1>6. Len(x) = Len(y)
  <2>1. ~(Len(x) < Len(y))
    <3> SUFFICES ASSUME Len(x) < Len(y) PROVE FALSE
      OBVIOUS
    <3>1. Len(x) + 1 \in 1..Len(y)
      BY <1>4, <1>5
    <3> QED
      BY <1>4, <1>5, <3>1
  <2>2. ~(Len(y) < Len(x))
    <3> SUFFICES ASSUME Len(y) < Len(x) PROVE FALSE
      OBVIOUS
    <3>1. Len(y) + 1 \in 1..Len(x)
      BY <1>4, <1>5
    <3> QED
      BY <1>4, <1>5, <3>1
  <2> QED
    BY <1>4, <1>5, <2>1, <2>2
<1>7. Len(u) = Len(v)
  BY <1>4, <1>5, <1>6
<1>8. x = y
  BY <1>4, <1>5, <1>6, SeqEqual DEF Symbols
<1>9. \A i \in 1..Len(u) : u[i] = v[i]
  BY <1>4, <1>5, <1>6, <1>7
<1>10. u = v
  BY <1>7, <1>9, SeqEqual DEF Symbols
<1> QED
  BY <1>8, <1>10

\* Two ways to cut a text at the same place.
LEMMA SameCut ==
  ASSUME NEW x \in Symbols, NEW y \in Symbols, NEW u \in Symbols, NEW v \in Symbols,
         Len(x) = Len(y), x \o u = y \o v
  PROVE  x = y /\ u = v
<1>1. Len(x) \in Nat /\ Len(x \o u) = Len(x) + Len(u) /\ Len(y \o v) = Len(y) + Len(v)
      /\ Len(u) \in Nat /\ Len(v) \in Nat
  BY Joined, JoinedAt, Zenon
<1>2. Len(u) = Len(v)
  BY <1>1
<1> DEFINE w == x \o u
           z == y \o v
<1>3. (\A i \in 1..Len(x) : w[i] = x[i]) /\ \A i \in 1..Len(u) : w[Len(x) + i] = u[i]
  BY JoinedAt, Zenon
<1>4. (\A i \in 1..Len(y) : z[i] = y[i]) /\ \A i \in 1..Len(v) : z[Len(y) + i] = v[i]
  BY JoinedAt, Zenon
<1> HIDE DEF w, z
<1>5. w = z
  BY DEF w, z
<1>6. \A i \in 1..Len(x) : x[i] = y[i]
  BY <1>3, <1>4, <1>5
<1>7. \A i \in 1..Len(u) : u[i] = v[i]
  BY <1>2, <1>3, <1>4, <1>5
<1> QED
  BY <1>2, <1>6, <1>7, SeqEqual DEF Symbols

-----------------------------------------------------------------------------
(* Where the reader is: the arrays being filled, and what is behind each.  *)

Vals == {r.means : r \in Wide}
Frame == [left : Nat, vals : Seq(Vals)]

\* The types.
Typed ==
  /\ sent \in Seq(Replies) /\ results \in Seq(Vals) /\ Len(results) <= Len(sent)
  /\ frames \in Seq(Frame)
  /\ pc \in {"idle", "line", "bulk", "give", "failed"}
  /\ pc # "idle" => Len(results) < Len(sent)

\* The replies to be read at each level, that of the level at work first: of the
\* array of a level these complete what its frame has.  It is fine if they are, and
\* if one is not the reply of the call is not.
Link(todo, k) ==
  LET outer == Head(todo[k - 1]) IN
  /\ Len(todo[k]) = frames[k].left
  /\ outer.means = ArrValue(frames[k].vals \o Means(todo[k]))
  /\ outer.t # "err"
  /\ AllFine(todo[k]) => outer.fine
  /\ ~AllFine(todo[k]) => ~Rest[1].fine

\* What is written behind the reply at work of each level.
Placed(todo, behind) ==
  /\ todo \in [0..Len(frames) -> Seq(Wide) \ {<<>>}]
  /\ behind \in [0..Len(frames) -> Symbols]
  /\ todo[0] = Rest
  /\ behind[0] = WrittenAll(Tail(Rest))
  /\ \A k \in 1..Len(frames) :
       Link(todo, k) /\ behind[k] = WrittenAll(Tail(todo[k])) \o behind[k - 1]

\* The reply r is being read, and b is written behind it.
At(r, b) ==
  \E todo, behind : /\ Placed(todo, behind)
                    /\ r = Head(todo[Len(frames)]) /\ b = behind[Len(frames)]

\* What has not been returned.
LEMMA RestIs ==
  ASSUME Typed
  PROVE  /\ Rest \in Seq(Wide) /\ Len(Rest) = Len(sent) - Len(results)
         /\ Len(results) \in Nat /\ Len(sent) \in Nat
<1>1. Len(results) \in Nat /\ Len(sent) \in Nat /\ Len(results) <= Len(sent)
  BY LenProperties DEF Typed
<1>2. \A i \in Len(results) + 1..Len(sent) : sent[i] \in Wide
  <2>1. \A i \in 1..Len(sent) : sent[i] \in Replies
    BY ElementOfSeq DEF Typed
  <2> QED
    BY <1>1, <2>1 DEF Wide
<1> DEFINE m == Len(results) + 1
           n == Len(sent)
<1>3. m \in Int /\ n \in Int /\ \A i \in m..n : sent[i] \in Wide
  BY <1>1, <1>2
<1>4. Len(Rest) = IF m <= n THEN n - m + 1 ELSE 0
  BY <1>3, SubSeqProperties DEF Rest
<1>5. Rest \in Seq(Wide)
  BY <1>3, SubSeqProperties DEF Rest
<1> QED
  BY <1>1, <1>4, <1>5

\* The reply at hand is one that may be read, and what is wrong with it is wrong with
\* the reply of the call.
LEMMA AtIs ==
  ASSUME Typed, NEW r, NEW b, At(r, b)
  PROVE  /\ r \in Wide /\ b \in Symbols /\ Rest # <<>>
         /\ (~r.fine \/ (frames # <<>> /\ r.t = "err")) => ~Rest[1].fine
         /\ frames = <<>> => r = Rest[1] /\ b = WrittenAll(Tail(Rest))
<1> DEFINE n == Len(frames)
<1>1. n \in Nat /\ (frames = <<>> <=> n = 0)
  BY LenProperties, EmptySeq DEF Typed
<1> HIDE DEF n
<1>2. PICK todo, behind : Placed(todo, behind) /\ r = Head(todo[n]) /\ b = behind[n]
  BY Zenon DEF At, n
<1>3. /\ todo[n] \in Seq(Wide) /\ todo[n] # <<>> /\ b \in Symbols
      /\ todo[0] = Rest /\ todo[0] # <<>> /\ behind[0] = WrittenAll(Tail(Rest))
  <2>1. /\ todo \in [0..n -> Seq(Wide) \ {<<>>}] /\ behind \in [0..n -> Symbols]
        /\ todo[0] = Rest /\ behind[0] = WrittenAll(Tail(Rest))
    BY <1>2 DEF Placed, n
  <2>2. 0 \in 0..n /\ n \in 0..n
    BY <1>1
  <2> QED
    BY <1>2, <2>1, <2>2
<1>4. r \in Wide
  BY <1>2, <1>3, HeadTailProperties
<1>5. n = 0 => r = Rest[1] /\ b = WrittenAll(Tail(Rest))
  BY <1>2, <1>3
<1>6. ASSUME n # 0, ~FinePart(r) PROVE ~Rest[1].fine
  <2>1. n \in 1..n
    BY <1>1, <1>6
  <2>2. Link(todo, n)
    BY <1>2, <2>1 DEF Placed, n
  <2>3. 1 \in DOMAIN todo[n] /\ r = todo[n][1]
    BY <1>2, <1>3, LenProperties, EmptySeq
  <2>4. ~AllFine(todo[n])
    BY <1>6, <2>3 DEF AllFine
  <2> QED
    BY <2>2, <2>4 DEF Link
<1> QED
  BY <1>1, <1>3, <1>4, <1>5, <1>6 DEF FinePart

\* Where the reader is depends on nothing else.
LEMMA AtSame ==
  ASSUME NEW r, NEW b, At(r, b), UNCHANGED <<sent, frames, results>>
  PROVE  At(r, b)'
<1>1. PICK todo, behind : /\ Placed(todo, behind)
                         /\ r = Head(todo[Len(frames)]) /\ b = behind[Len(frames)]
  BY Zenon DEF At
<1>2. Rest' = Rest /\ frames' = frames
  BY DEF Rest
<1>3. \A k : Link(todo, k) <=> Link(todo, k)'
  BY <1>2 DEF Link
<1>4. Placed(todo, behind)'
  BY <1>1, <1>2, <1>3 DEF Placed
<1> QED
  BY <1>1, <1>2, <1>4, Zenon DEF At

\* The first level.
LEMMA AtStart ==
  ASSUME Typed, frames = <<>>, Rest # <<>>
  PROVE  At(Head(Rest), WrittenAll(Tail(Rest)))
<1> DEFINE todo == [k \in 0..0 |-> Rest]
           behind == [k \in 0..0 |-> WrittenAll(Tail(Rest))]
<1>1. Rest \in Seq(Wide) /\ WrittenAll(Tail(Rest)) \in Symbols
  BY RestIs, WrittenHead, WrittenTyped
<1>2. Len(frames) = 0
  BY EmptySeq
<1>3. todo \in [0..0 -> Seq(Wide) \ {<<>>}] /\ behind \in [0..0 -> Symbols]
      /\ todo[0] = Rest /\ behind[0] = WrittenAll(Tail(Rest))
  BY <1>1
<1> HIDE DEF todo, behind
<1>4. Placed(todo, behind)
  BY <1>2, <1>3 DEF Placed
<1> QED
  BY <1>2, <1>3, <1>4, Zenon DEF At

\* Into an array.
LEMMA AtPush ==
  ASSUME Typed, NEW r, NEW b, At(r, b), r.t \in {"arr", "command"}, Kids(r) # <<>>,
         frames' = Append(frames, [left |-> Len(Kids(r)), vals |-> <<>>]),
         UNCHANGED <<sent, results>>
  PROVE  At(Head(Kids(r)), WrittenAll(Tail(Kids(r))) \o b)'
<1> DEFINE kids == Kids(r)
           next == WrittenAll(Tail(kids)) \o b
<1>1. PICK n \in Nat : n = Len(frames)
  BY LenProperties DEF Typed
<1>2. r \in Wide /\ b \in Symbols /\ (~r.fine => ~Rest[1].fine)
  BY AtIs
<1>3. kids \in Seq(Wide) /\ r.means = ArrValue(Means(kids)) /\ (r.fine <=> AllFine(kids)) /\ kids # <<>>
  BY <1>2, KidsAre
<1>4. next \in Symbols
  <2>1. WrittenAll(Tail(kids)) \in Symbols
    BY <1>3, WrittenHead, WrittenTyped
  <2> QED
    BY <1>2, <2>1, Joined
<1>5. Len(frames') = n + 1 /\ (\A k \in 1..n : frames'[k] = frames[k])
      /\ frames'[n + 1] = [left |-> Len(kids), vals |-> <<>>]
  <2>1. [left |-> Len(kids), vals |-> <<>>] \in Frame
    BY <1>3, LenProperties, EmptySeq DEF Frame
  <2> QED
    BY <1>1, <2>1, AppendProperties DEF Typed
<1>6. PICK todo, behind : Placed(todo, behind) /\ r = Head(todo[n]) /\ b = behind[n]
  BY <1>1, Zenon DEF At
<1> HIDE DEF kids, next
<1> DEFINE more0 == [k \in 0..n + 1 |-> IF k = n + 1 THEN kids ELSE todo[k]]
           rest0 == [k \in 0..n + 1 |-> IF k = n + 1 THEN next ELSE behind[k]]
<1>7. /\ todo \in [0..n -> Seq(Wide) \ {<<>>}] /\ behind \in [0..n -> Symbols]
      /\ todo[0] = Rest /\ behind[0] = WrittenAll(Tail(Rest))
      /\ \A k \in 1..n : Link(todo, k) /\ behind[k] = WrittenAll(Tail(todo[k])) \o behind[k - 1]
  BY <1>1, <1>6 DEF Placed
<1>8. PICK more, rest :
      /\ more \in [0..n + 1 -> Seq(Wide) \ {<<>>}] /\ rest \in [0..n + 1 -> Symbols]
      /\ (\A k \in 0..n : more[k] = todo[k] /\ rest[k] = behind[k])
      /\ more[n + 1] = kids /\ rest[n + 1] = next
  <2>1. /\ more0 \in [0..n + 1 -> Seq(Wide) \ {<<>>}] /\ rest0 \in [0..n + 1 -> Symbols]
        /\ (\A k \in 0..n : more0[k] = todo[k] /\ rest0[k] = behind[k])
        /\ more0[n + 1] = kids /\ rest0[n + 1] = next
    BY <1>3, <1>4, <1>7
  <2> HIDE DEF more0, rest0
  <2> QED
    BY <2>1
<1>9. Rest' = Rest
  BY DEF Rest
<1>10. ASSUME NEW k \in 1..n PROVE Link(more, k)' /\ rest[k] = WrittenAll(Tail(more[k])) \o rest[k - 1]
  <2>1. k \in 0..n /\ k - 1 \in 0..n
    BY <1>1
  <2>2. Link(todo, k) /\ behind[k] = WrittenAll(Tail(todo[k])) \o behind[k - 1]
    BY <1>7
  <2>3. more[k] = todo[k] /\ more[k - 1] = todo[k - 1] /\ rest[k] = behind[k] /\ rest[k - 1] = behind[k - 1]
    BY <1>8, <2>1
  <2>4. frames'[k] = frames[k]
    BY <1>5
  <2> QED
    BY <1>9, <2>2, <2>3, <2>4 DEF Link
<1>11. Link(more, n + 1)' /\ rest[n + 1] = WrittenAll(Tail(more[n + 1])) \o rest[n]
  <2>1. (n + 1) - 1 = n /\ n \in 0..n
    BY <1>1
  <2>2. more[n] = todo[n] /\ rest[n] = b
    BY <1>6, <1>8, <2>1
  <2>3. <<>> \o Means(kids) = Means(kids)
    <3>1. Len(kids) \in Nat /\ DOMAIN kids = 1..Len(kids) /\ \A i \in 1..Len(kids) : kids[i].means \in Vals
      BY <1>3, LenProperties, ElementOfSeq DEF Vals
    <3>2. Means(kids) \in Seq(Vals)
      BY <3>1 DEF Means
    <3> QED
      BY <3>2, ConcatEmptySeq
  <2>4. r.t # "err"
    OBVIOUS
  <2>5. Head(more[(n + 1) - 1]) = r /\ more[n + 1] = kids /\ frames'[n + 1].vals = <<>> /\ frames'[n + 1].left = Len(kids)
    BY <1>5, <1>6, <1>8, <2>1, <2>2
  <2>6. Link(more, n + 1)'
    BY <1>2, <1>3, <1>9, <2>3, <2>4, <2>5 DEF Link
  <2> QED
    BY <1>8, <2>2, <2>6 DEF next
<1>12. Placed(more, rest)'
  <2> DEFINE Joins(k) == Link(more, k)' /\ rest[k] = WrittenAll(Tail(more[k])) \o rest[k - 1]
  <2>0. Joins(n + 1) /\ \A k \in 1..n : Joins(k)
    <3>1. (n + 1) - 1 = n
      BY <1>1
    <3> QED
      BY <1>10, <1>11, <3>1
  <2> HIDE DEF Joins
  <2>1. \A k \in 1..n + 1 : Joins(k)
    <3>1. \A k \in 1..n + 1 : k \in 1..n \/ k = n + 1
      BY <1>1
    <3> QED
      BY <2>0, <3>1
  <2> USE DEF Joins
  <2>2. 0 \in 0..n
    BY <1>1
  <2>3. more[0] = Rest' /\ rest[0] = WrittenAll(Tail(Rest'))
    BY <1>7, <1>8, <1>9, <2>2
  <2> QED
    BY <1>5, <1>8, <2>1, <2>3 DEF Placed
<1>13. Head(kids) = Head(more[Len(frames')]) /\ next = rest[Len(frames')]
  BY <1>5, <1>8
<1> QED
  BY <1>12, <1>13, Zenon DEF At, kids, next

\* The values of several replies, and whether they are fine, from those of the first.
LEMMA MeansIs ==
  ASSUME NEW s \in Seq(Wide), s # <<>>
  PROVE  /\ Means(s) \in Seq(Vals) /\ Means(Tail(s)) \in Seq(Vals) /\ Head(s).means \in Vals
         /\ Means(s) = <<Head(s).means>> \o Means(Tail(s))
         /\ FinePart(Head(s)) /\ AllFine(Tail(s)) => AllFine(s)
         /\ AllFine(s) => AllFine(Tail(s))
<1> DEFINE n == Len(s)
           t == Tail(s)
<1>1. /\ n \in Nat /\ n # 0 /\ DOMAIN s = 1..n /\ Head(s) = s[1] /\ \A i \in 1..n : s[i] \in Wide
      /\ t \in Seq(Wide) /\ Len(t) = n - 1 /\ DOMAIN t = 1..n - 1 /\ \A i \in 1..n - 1 : t[i] = s[i + 1]
  BY LenProperties, EmptySeq, HeadTailProperties, ElementOfSeq
<1>2. \A i \in 1..n - 1 : t[i] \in Wide
  BY <1>1, ElementOfSeq
<1> HIDE DEF n, t
<1>3. \A i \in 1..n : s[i].means \in Vals
  BY <1>1 DEF Vals
<1>4. \A i \in 1..n - 1 : t[i].means \in Vals
  BY <1>2 DEF Vals
<1>5. Means(s) \in Seq(Vals) /\ Len(Means(s)) = n /\ \A i \in 1..n : Means(s)[i] = s[i].means
  BY <1>1, <1>3 DEF Means
<1>6. Means(t) \in Seq(Vals) /\ Len(Means(t)) = n - 1 /\ \A i \in 1..n - 1 : Means(t)[i] = t[i].means
  BY <1>1, <1>4 DEF Means
<1>7. Head(s).means \in Vals
  BY <1>1, <1>3
<1> DEFINE w == <<Head(s).means>> \o Means(t)
<1>8. w \in Seq(Vals) /\ Len(w) = n /\ w[1] = Head(s).means /\ \A i \in 1..n - 1 : w[i + 1] = Means(t)[i]
  <2>1. <<Head(s).means>> \in Seq(Vals) /\ Len(<<Head(s).means>>) = 1 /\ <<Head(s).means>>[1] = Head(s).means
    BY <1>7
  <2> DEFINE o == <<Head(s).means>>
  <2> HIDE DEF o
  <2>2. /\ o \o Means(t) \in Seq(Vals) /\ Len(o \o Means(t)) = 1 + (n - 1)
        /\ \A i \in 1..1 + (n - 1) : (o \o Means(t))[i] = IF i <= 1 THEN o[i] ELSE Means(t)[i - 1]
    BY <1>6, <2>1, ConcatProperties DEF o
  <2> DEFINE z == o \o Means(t)
  <2> HIDE DEF z
  <2>3. z \in Seq(Vals) /\ Len(z) = n /\ z[1] = o[1] /\ \A i \in 1..n - 1 : z[i + 1] = Means(t)[i]
    BY <1>1, <2>2 DEF z
  <2> QED
    BY <2>1, <2>3 DEF z, o
<1> HIDE DEF w
<1>9. Means(s) = w
  <2>1. \A i \in 1..n : Means(s)[i] = w[i]
    <3> TAKE i \in 1..n
    <3>1. CASE i = 1
      <4>1. 1 \in 1..n
        BY <1>1
      <4>2. Means(s)[1] = s[1].means
        BY <1>5, <4>1, Zenon
      <4>3. w[1] = s[1].means
        BY <1>1, <1>8, Zenon
      <4>4. Means(s)[1] = w[1]
        BY <4>2, <4>3
      <4> QED
        BY <3>1, <4>4
    <3>2. CASE i # 1
      <4>1. PICK j \in 1..n - 1 : i = j + 1
        <5>1. i - 1 \in 1..n - 1 /\ i = (i - 1) + 1
          BY <1>1, <3>2
        <5> QED
          BY <5>1
      <4>2. Means(s)[i] = s[i].means
        BY <1>5, Zenon
      <4>3. s[i] = t[j] /\ w[i] = Means(t)[j] /\ Means(t)[j] = t[j].means
        BY <1>1, <1>6, <1>8, <4>1, Zenon
      <4> QED
        BY <4>2, <4>3, Zenon
    <3> QED
      BY <3>1, <3>2
  <2> QED
    BY <1>5, <1>8, <2>1, SeqEqual
<1>10. FinePart(Head(s)) /\ AllFine(t) => AllFine(s)
  <2> SUFFICES ASSUME FinePart(Head(s)), AllFine(t), NEW i \in 1..n PROVE FinePart(s[i])
    BY <1>1 DEF AllFine
  <2>1. CASE i = 1
    BY <1>1, <2>1
  <2>2. CASE i # 1
    <3>1. i - 1 \in 1..n - 1 /\ (i - 1) + 1 = i
      BY <1>1, <2>2
    <3> QED
      BY <1>1, <3>1 DEF AllFine
  <2> QED
    BY <2>1, <2>2
<1>11. AllFine(s) => AllFine(t)
  <2> SUFFICES ASSUME AllFine(s), NEW i \in 1..n - 1 PROVE FinePart(t[i])
    BY <1>1 DEF AllFine
  <2>1. i + 1 \in 1..n
    BY <1>1
  <2> QED
    BY <1>1, <2>1 DEF AllFine
<1> QED
  BY <1>5, <1>6, <1>7, <1>9, <1>10, <1>11 DEF t, w

\* What a level and its frame have to do with the one around it, the reply at work
\* once it has been read.
LEMMA LevelIs ==
  ASSUME Typed, frames # <<>>, NEW todo, NEW behind, Placed(todo, behind)
  PROVE  LET n == Len(frames) IN LET s == todo[n] IN
         /\ n \in Nat \ {0} /\ Top = frames[n] /\ Top.vals \in Seq(Vals)
         /\ s \in Seq(Wide) /\ s # <<>> /\ Len(s) = Top.left /\ Len(Tail(s)) = Top.left - 1
         /\ todo[n - 1] \in Seq(Wide) /\ todo[n - 1] # <<>> /\ behind[n - 1] \in Symbols
         /\ Head(todo[n - 1]).means = ArrValue(Append(Top.vals, Head(s).means) \o Means(Tail(s)))
         /\ Head(todo[n - 1]).t # "err"
         /\ FinePart(Head(s)) /\ AllFine(Tail(s)) => Head(todo[n - 1]).fine
         /\ ~AllFine(Tail(s)) => ~Rest[1].fine
         /\ behind[n] = WrittenAll(Tail(s)) \o behind[n - 1]
<1> DEFINE n == Len(frames)
           s == todo[n]
           h == Head(s).means
           outer == Head(todo[n - 1])
<1>1. n \in Nat \ {0} /\ Top = frames[n] /\ Top.vals \in Seq(Vals)
  <2>1. n \in Nat \ {0}
    BY LenProperties, EmptySeq DEF Typed
  <2>2. frames[n] \in Frame
    BY <2>1, ElementOfSeq DEF Typed
  <2> QED
    BY <2>1, <2>2 DEF Top, Frame
<1>2. n \in 0..n /\ n - 1 \in 0..n /\ n \in 1..n
  BY <1>1
<1>3. s \in Seq(Wide) /\ s # <<>> /\ todo[n - 1] \in Seq(Wide) /\ todo[n - 1] # <<>> /\ behind[n - 1] \in Symbols
  BY <1>2 DEF Placed
<1>4. Link(todo, n) /\ behind[n] = WrittenAll(Tail(s)) \o behind[n - 1]
  BY <1>2 DEF Placed
<1>5. /\ Len(s) = Top.left /\ outer.means = ArrValue(Top.vals \o Means(s)) /\ outer.t # "err"
      /\ (AllFine(s) => outer.fine) /\ (~AllFine(s) => ~Rest[1].fine)
  BY <1>1, <1>4 DEF Link
<1>6. Len(Tail(s)) = Top.left - 1
  BY <1>3, <1>5, HeadTailProperties
<1> HIDE DEF n, s, outer
<1>7. /\ Means(Tail(s)) \in Seq(Vals) /\ h \in Vals /\ Means(s) = <<h>> \o Means(Tail(s))
      /\ (FinePart(Head(s)) /\ AllFine(Tail(s)) => AllFine(s)) /\ (AllFine(s) => AllFine(Tail(s)))
  BY <1>3, MeansIs
<1> HIDE DEF h
<1>8. Top.vals \o (<<h>> \o Means(Tail(s))) = Append(Top.vals, h) \o Means(Tail(s))
  <2>1. <<h>> \in Seq(Vals)
    BY <1>7
  <2>2. \A a, b, c \in Seq(Vals) : (a \o b) \o c = a \o (b \o c)
    BY ConcatAssociative
  <2>4. (Top.vals \o <<h>>) \o Means(Tail(s)) = Top.vals \o (<<h>> \o Means(Tail(s)))
    BY <1>1, <1>7, <2>1, <2>2, Zenon
  <2>3. Append(Top.vals, h) = Top.vals \o <<h>>
    BY <1>1, <1>7, AppendIsConcat
  <2> QED
    BY <2>3, <2>4, Zenon
<1>9. outer.means = ArrValue(Append(Top.vals, h) \o Means(Tail(s)))
  BY <1>5, <1>7, <1>8
<1> QED
  BY <1>1, <1>3, <1>4, <1>5, <1>6, <1>7, <1>9, Zenon DEF n, s, h, outer

\* On to the next of an array.
LEMMA AtNext ==
  ASSUME Typed, frames # <<>>, NEW r, NEW b, At(r, b), FinePart(r), Top.left # 1,
         frames' = [frames EXCEPT ![Len(frames)] =
                      [left |-> Top.left - 1, vals |-> Append(Top.vals, r.means)]],
         UNCHANGED <<sent, results>>
  PROVE  \E q \in Wide, c \in Symbols : At(q, c)' /\ b = q.symbols \o c
<1>1. PICK n \in Nat : n = Len(frames)
  BY LenProperties DEF Typed
<1>2. PICK todo, behind : Placed(todo, behind) /\ r = Head(todo[n]) /\ b = behind[n]
  BY <1>1, Zenon DEF At
<1>3. PICK s, c, out, top : s = todo[n] /\ c = behind[n - 1] /\ out = Head(todo[n - 1]) /\ top = Top
  OBVIOUS
<1>4. /\ n \in Nat \ {0} /\ top = frames[n] /\ top.vals \in Seq(Vals)
      /\ s \in Seq(Wide) /\ s # <<>> /\ Len(s) = top.left /\ Len(Tail(s)) = top.left - 1
      /\ c \in Symbols
      /\ out.means = ArrValue(Append(top.vals, Head(s).means) \o Means(Tail(s)))
      /\ out.t # "err"
      /\ (FinePart(Head(s)) /\ AllFine(Tail(s)) => out.fine)
      /\ (~AllFine(Tail(s)) => ~Rest[1].fine)
      /\ b = WrittenAll(Tail(s)) \o c
  BY <1>1, <1>2, <1>3, LevelIs, Zenon
<1>5. PICK t : t = Tail(s)
  OBVIOUS
<1>6. /\ t \in Seq(Wide) /\ t # <<>> /\ Head(t) \in Wide /\ WrittenAll(Tail(t)) \in Symbols
      /\ WrittenAll(t) = Head(t).symbols \o WrittenAll(Tail(t)) /\ Head(t).symbols \in Symbols
  <2>1. t \in Seq(Wide) /\ Len(s) \in Nat
    BY <1>4, <1>5, HeadTailProperties, LenProperties
  <2>2. Len(t) # 0
    <3>1. top.left # 1
      BY <1>3
    <3>2. Len(s) # 1 /\ Len(t) = Len(s) - 1
      BY <1>4, <1>5, <3>1
    <3> QED
      BY <2>1, <3>2
  <2>3. t # <<>>
    BY <2>2, EmptySeq
  <2> QED
    BY <2>1, <2>3, WrittenHead, WrittenTyped, WideMade
<1>7. PICK d : d = WrittenAll(Tail(t)) \o c
  OBVIOUS
<1>8. d \in Symbols /\ b = Head(t).symbols \o d
  <2>1. b = (Head(t).symbols \o WrittenAll(Tail(t))) \o c
    BY <1>4, <1>5, <1>6, Zenon
  <2> QED
    BY <1>4, <1>6, <1>7, <2>1, Joined, Zenon
<1>9. /\ todo \in [0..n -> Seq(Wide) \ {<<>>}] /\ behind \in [0..n -> Symbols]
      /\ todo[0] = Rest /\ behind[0] = WrittenAll(Tail(Rest))
      /\ \A k \in 1..n : Link(todo, k) /\ behind[k] = WrittenAll(Tail(todo[k])) \o behind[k - 1]
  BY <1>1, <1>2 DEF Placed
<1>10. PICK more, rest :
      /\ more \in [0..n -> Seq(Wide) \ {<<>>}] /\ rest \in [0..n -> Symbols]
      /\ (\A k \in 0..n - 1 : more[k] = todo[k] /\ rest[k] = behind[k])
      /\ more[n] = t /\ rest[n] = d
  <2> DEFINE more0 == [k \in 0..n |-> IF k = n THEN t ELSE todo[k]]
             rest0 == [k \in 0..n |-> IF k = n THEN d ELSE behind[k]]
  <2>1. /\ more0 \in [0..n -> Seq(Wide) \ {<<>>}] /\ rest0 \in [0..n -> Symbols]
        /\ (\A k \in 0..n - 1 : more0[k] = todo[k] /\ rest0[k] = behind[k])
        /\ more0[n] = t /\ rest0[n] = d
    BY <1>6, <1>8, <1>9
  <2> HIDE DEF more0, rest0
  <2> QED
    BY <2>1
<1>11. Rest' = Rest
  BY DEF Rest
<1>12. Len(frames') = n /\ (\A k \in 1..n - 1 : frames'[k] = frames[k])
       /\ frames'[n] = [left |-> top.left - 1, vals |-> Append(top.vals, r.means)]
  <2>1. DOMAIN frames = 1..n /\ n \in 1..n
    BY <1>1, <1>4, LenProperties DEF Typed
  <2>2. Len(frames') = n
    BY <1>1, <2>1
  <2> QED
    BY <1>1, <1>3, <2>1, <2>2
<1> DEFINE Joins(k) == Link(more, k)' /\ rest[k] = WrittenAll(Tail(more[k])) \o rest[k - 1]
<1>13. ASSUME NEW k \in 1..n - 1 PROVE Joins(k)
  <2>1. k \in 0..n - 1 /\ k - 1 \in 0..n - 1 /\ k \in 1..n
    BY <1>1
  <2>2. Link(todo, k) /\ behind[k] = WrittenAll(Tail(todo[k])) \o behind[k - 1]
    BY <1>9, <2>1
  <2>3. more[k] = todo[k] /\ more[k - 1] = todo[k - 1] /\ rest[k] = behind[k] /\ rest[k - 1] = behind[k - 1]
    BY <1>10, <2>1
  <2>4. frames'[k] = frames[k]
    BY <1>12
  <2> QED
    BY <1>11, <2>2, <2>3, <2>4 DEF Link
<1>14. Joins(n)
  <2>1. n - 1 \in 0..n - 1
    BY <1>4
  <2>2. Head(more[n - 1]) = out /\ rest[n - 1] = c /\ more[n] = t /\ rest[n] = d
    BY <1>3, <1>10, <2>1
  <2>3. frames'[n].left = Len(t) /\ frames'[n].vals = Append(top.vals, r.means)
    <3>2. PICK x, y, f : x = top.left - 1 /\ y = Append(top.vals, r.means) /\ f = frames'[n]
      OBVIOUS
    <3>3. f = [left |-> x, vals |-> y]
      BY <1>12, <3>2
    <3>4. f.left = x /\ f.vals = y
      BY <3>3
    <3>1. frames'[n].left = top.left - 1 /\ frames'[n].vals = Append(top.vals, r.means)
      BY <3>2, <3>4, Zenon
    <3> QED
      BY <1>4, <1>5, <3>1, Zenon
  <2>4. Head(s) = r
    BY <1>2, <1>3
  <2>5. Link(more, n)'
    BY <1>4, <1>5, <1>11, <2>2, <2>3, <2>4 DEF Link
  <2> QED
    BY <1>7, <2>2, <2>5
<1> HIDE DEF Joins
<1>15. \A k \in 1..n : Joins(k)
  <2>1. \A k \in 1..n : k \in 1..n - 1 \/ k = n
    BY <1>4
  <2> QED
    BY <1>13, <1>14, <2>1
<1>16. Placed(more, rest)'
  <2>1. 0 \in 0..n - 1
    BY <1>4
  <2>2. more[0] = Rest' /\ rest[0] = WrittenAll(Tail(Rest'))
    BY <1>9, <1>10, <1>11, <2>1
  <2> QED
    BY <1>10, <1>12, <1>15, <2>2 DEF Placed, Joins
<1>17. At(Head(t), d)'
  <2>1. Head(t) = Head(more[Len(frames')]) /\ d = rest[Len(frames')]
    BY <1>10, <1>12
  <2> QED
    BY <1>16, <2>1, Zenon DEF At
<1> QED
  BY <1>6, <1>8, <1>17

\* The end of an array.
LEMMA AtPop ==
  ASSUME Typed, frames # <<>>, NEW r, NEW b, At(r, b), FinePart(r), Top.left = 1,
         frames' = Front(frames), UNCHANGED <<sent, results>>
  PROVE  \E q : /\ At(q, b)' /\ FinePart(q)
                /\ q.means = ArrValue(Append(Top.vals, r.means))
<1>1. PICK n \in Nat : n = Len(frames)
  BY LenProperties DEF Typed
<1>2. PICK todo, behind : Placed(todo, behind) /\ r = Head(todo[n]) /\ b = behind[n]
  BY <1>1, Zenon DEF At
<1>3. PICK s, c, out, top : s = todo[n] /\ c = behind[n - 1] /\ out = Head(todo[n - 1]) /\ top = Top
  OBVIOUS
<1>4. /\ n \in Nat \ {0} /\ top = frames[n] /\ top.vals \in Seq(Vals)
      /\ s \in Seq(Wide) /\ s # <<>> /\ Len(s) = top.left /\ Len(Tail(s)) = top.left - 1
      /\ c \in Symbols
      /\ out.means = ArrValue(Append(top.vals, Head(s).means) \o Means(Tail(s)))
      /\ out.t # "err"
      /\ (FinePart(Head(s)) /\ AllFine(Tail(s)) => out.fine)
      /\ (~AllFine(Tail(s)) => ~Rest[1].fine)
      /\ b = WrittenAll(Tail(s)) \o c
  BY <1>1, <1>2, <1>3, LevelIs, Zenon
<1>5. Tail(s) = <<>>
  <2>0. Tail(s) \in Seq(Wide) /\ top.left = 1
    BY <1>3, <1>4, HeadTailProperties
  <2>1. Tail(s) \in Seq(Wide) /\ Len(Tail(s)) = 0
    BY <1>4, <2>0
  <2> QED
    BY <2>1, EmptySeq
<1>6. b = c
  BY <1>4, <1>5, WrittenEmpty, Joined
<1>7. out.fine
  BY <1>2, <1>3, <1>4, <1>5 DEF AllFine
<1>8. out.means = ArrValue(Append(top.vals, r.means))
  <2>1. Means(<<>>) = <<>>
    BY DEF Means
  <2>2. r.means \in Vals /\ Head(s) = r
    BY <1>2, <1>3, <1>4, HeadTailProperties DEF Vals
  <2>3. Append(top.vals, r.means) \o <<>> = Append(top.vals, r.means)
    BY <1>4, <2>2, AppendProperties, ConcatEmptySeq
  <2> QED
    BY <1>4, <1>5, <2>1, <2>2, <2>3
<1>9. /\ todo \in [0..n -> Seq(Wide) \ {<<>>}] /\ behind \in [0..n -> Symbols]
      /\ todo[0] = Rest /\ behind[0] = WrittenAll(Tail(Rest))
      /\ \A k \in 1..n : Link(todo, k) /\ behind[k] = WrittenAll(Tail(todo[k])) \o behind[k - 1]
  BY <1>1, <1>2 DEF Placed
<1>10. PICK more, rest :
      /\ more \in [0..n - 1 -> Seq(Wide) \ {<<>>}] /\ rest \in [0..n - 1 -> Symbols]
      /\ (\A k \in 0..n - 1 : more[k] = todo[k] /\ rest[k] = behind[k])
  <2> DEFINE more0 == [k \in 0..n - 1 |-> todo[k]]
             rest0 == [k \in 0..n - 1 |-> behind[k]]
  <2>1. \A k \in 0..n - 1 : k \in 0..n
    BY <1>4
  <2>2. /\ more0 \in [0..n - 1 -> Seq(Wide) \ {<<>>}] /\ rest0 \in [0..n - 1 -> Symbols]
        /\ (\A k \in 0..n - 1 : more0[k] = todo[k] /\ rest0[k] = behind[k])
    BY <1>9, <2>1
  <2> HIDE DEF more0, rest0
  <2> QED
    BY <2>2
<1>11. Rest' = Rest
  BY DEF Rest
<1>12. Len(frames') = n - 1 /\ (\A k \in 1..n - 1 : frames'[k] = frames[k])
  <2>1. frames' = SubSeq(frames, 1, n - 1)
    BY <1>1 DEF Front
  <2>2. \A i \in 1..n - 1 : frames[i] \in Frame
    BY <1>1, <1>4, ElementOfSeq DEF Typed
  <2>3. 1 \in Int /\ n - 1 \in Int /\ (n - 1) - 1 + 1 = n - 1
    BY <1>4
  <2>4. /\ Len(SubSeq(frames, 1, n - 1)) = IF 1 <= n - 1 THEN (n - 1) - 1 + 1 ELSE 0
        /\ \A i \in 1..(n - 1) - 1 + 1 : SubSeq(frames, 1, n - 1)[i] = frames[1 + i - 1]
    BY <2>2, <2>3, SubSeqProperties
  <2> QED
    BY <1>4, <2>1, <2>3, <2>4
<1>13. ASSUME NEW k \in 1..n - 1 PROVE Link(more, k)' /\ rest[k] = WrittenAll(Tail(more[k])) \o rest[k - 1]
  <2>1. k \in 0..n - 1 /\ k - 1 \in 0..n - 1 /\ k \in 1..n
    BY <1>1
  <2>2. Link(todo, k) /\ behind[k] = WrittenAll(Tail(todo[k])) \o behind[k - 1]
    BY <1>9, <2>1
  <2>3. more[k] = todo[k] /\ more[k - 1] = todo[k - 1] /\ rest[k] = behind[k] /\ rest[k - 1] = behind[k - 1]
    BY <1>10, <2>1
  <2>4. frames'[k] = frames[k]
    BY <1>12
  <2> QED
    BY <1>11, <2>2, <2>3, <2>4 DEF Link
<1>14. Placed(more, rest)'
  <2>1. 0 \in 0..n - 1
    BY <1>4
  <2>2. more[0] = Rest' /\ rest[0] = WrittenAll(Tail(Rest'))
    BY <1>9, <1>10, <1>11, <2>1
  <2> QED
    BY <1>10, <1>12, <1>13, <2>2 DEF Placed
<1>15. At(out, c)'
  <2>1. n - 1 \in 0..n - 1
    BY <1>4
  <2>2. out = Head(more[Len(frames')]) /\ c = rest[Len(frames')]
    BY <1>3, <1>10, <1>12, <2>1
  <2> QED
    BY <1>14, <2>2, Zenon DEF At
<1> QED
  BY <1>3, <1>4, <1>6, <1>7, <1>8, <1>15 DEF FinePart

-----------------------------------------------------------------------------
(* The stream and the line at hand.                                        *)

\* A text is what is before a place and what is behind it.
LEMMA SplitAt ==
  ASSUME NEW s \in Symbols, NEW n \in 0..Len(s)
  PROVE  /\ SubSeq(s, 1, n) \in Symbols /\ SubSeq(s, n + 1, Len(s)) \in Symbols
         /\ Len(SubSeq(s, 1, n)) = n
         /\ \A i \in 1..n : SubSeq(s, 1, n)[i] = s[i]
         /\ s = SubSeq(s, 1, n) \o SubSeq(s, n + 1, Len(s))
<1>1. Len(s) \in Nat /\ \A i \in 1..Len(s) : s[i] \in Symbol
  BY LenProperties, ElementOfSeq DEF Symbols
<1>2. /\ SubSeq(s, 1, n) \in Symbols /\ Len(SubSeq(s, 1, n)) = n
      /\ \A i \in 1..n : SubSeq(s, 1, n)[i] = s[i]
  <2>1. 1 \in Int /\ n \in Int /\ \A i \in 1..n : s[i] \in Symbol
    BY <1>1
  <2>2. /\ SubSeq(s, 1, n) \in Seq(Symbol)
        /\ Len(SubSeq(s, 1, n)) = IF 1 <= n THEN n - 1 + 1 ELSE 0
        /\ \A i \in 1..n - 1 + 1 : SubSeq(s, 1, n)[i] = s[1 + i - 1]
    BY <2>1, SubSeqProperties
  <2> QED
    BY <1>1, <2>2 DEF Symbols
<1>3. SubSeq(s, n + 1, Len(s)) \in Symbols
  <2>1. n + 1 \in Int /\ Len(s) \in Int /\ \A i \in n + 1..Len(s) : s[i] \in Symbol
    BY <1>1
  <2> QED
    BY <2>1, SubSeqProperties DEF Symbols
<1>4. SubSeq(s, 1, n) \o SubSeq(s, n + 1, Len(s)) = SubSeq(s, 1, Len(s))
  <2>1. 1 \in 1..Len(s) + 1 /\ n \in 1 - 1..Len(s) /\ Len(s) \in n..Len(s)
    BY <1>1
  <2> QED
    BY <1>1, <2>1, ConcatAdjacentSubSeq DEF Symbols
<1>5. SubSeq(s, 1, Len(s)) = s
  BY SubSeqFull DEF Symbols
<1> QED
  BY <1>2, <1>3, <1>4, <1>5

\* What the reader holds is of symbols.
LEMMA HeldSymbols ==
  ASSUME Held
  PROVE  buf \in Symbols /\ wire \in Symbols /\ line \in Symbols /\ buf \o wire \in Symbols
<1>1. buf \in Symbols /\ wire \in Symbols /\ line \in Symbols
  BY StringsAreSymbols DEF Held, Buffered
<1> QED
  BY <1>1, Joined, Zenon

\* What comes in is what was on its way.
LEMMA ReceiveKeeps ==
  ASSUME Held, Receive PROVE buf' \o wire' = buf \o wire
<1>1. PICK n \in 1..Len(wire) : /\ buf' = buf \o SubSeq(wire, 1, n)
                               /\ wire' = SubSeq(wire, n + 1, Len(wire))
  BY DEF Receive
<1>2. buf \in Symbols /\ wire \in Symbols
  BY HeldSymbols
<1>3. n \in 0..Len(wire)
  BY <1>1
<1>4. PICK x, y : x = SubSeq(wire, 1, n) /\ y = SubSeq(wire, n + 1, Len(wire))
  OBVIOUS
<1>5. x \in Symbols /\ y \in Symbols /\ wire = x \o y
  BY <1>2, <1>3, <1>4, SplitAt
<1>6. (buf \o x) \o y = buf \o (x \o y)
  <2>1. Groups(buf, x, y)
    BY <1>2, <1>5, Grouped, Zenon
  <2> QED
    BY <2>1 DEF Groups
<1> QED
  BY <1>1, <1>4, <1>5, <1>6, Zenon

\* A text without a line end that begins what a line begins is no longer than it.
LEMMA NoEndShort ==
  ASSUME NEW x \in Symbols, NEW u \in Symbols, NEW y \in Symbols, NEW v \in Symbols,
         NoEnd(x), x \o u = (y \o CRLF) \o v
  PROVE  Len(x) < Len(y) + 2
<1> DEFINE c == y \o CRLF
           w == c \o v
           z == x \o u
<1>1. c \in Symbols /\ Len(c) = Len(y) + Len(CRLF) /\ Len(y) \in Nat /\ Len(x) \in Nat
      /\ \A i \in 1..Len(CRLF) : c[Len(y) + i] = CRLF[i]
  BY CRLFIs, Joined, JoinedAt, Zenon
<1>2. \A i \in 1..Len(c) : w[i] = c[i]
  BY <1>1, JoinedAt, Zenon
<1>3. DOMAIN x = 1..Len(x) /\ \A i \in 1..Len(x) : z[i] = x[i]
  BY JoinedAt, Zenon
<1>4. c[Len(y) + 2] = "LF" /\ Len(c) = Len(y) + 2
  BY <1>1, CRLFIs
<1> HIDE DEF c, w, z
<1>5. w = z
  BY DEF w, z, c
<1> SUFFICES ASSUME ~(Len(x) < Len(y) + 2) PROVE FALSE
  OBVIOUS
<1>6. Len(y) + 2 \in 1..Len(x) /\ Len(y) + 2 \in 1..Len(c)
  BY <1>1, <1>4
<1>7. x[Len(y) + 2] = "LF"
  BY <1>2, <1>3, <1>4, <1>5, <1>6
<1> QED
  BY <1>3, <1>6, <1>7 DEF NoEnd

LEMMA NoEndJoin ==
  ASSUME NEW x \in Symbols, NEW y \in Symbols, NoEnd(x), NoEnd(y)
  PROVE  NoEnd(x \o y)
<1> DEFINE w == x \o y
<1>1. /\ w \in Symbols /\ Len(w) = Len(x) + Len(y)
      /\ (\A i \in 1..Len(x) : w[i] = x[i]) /\ \A i \in 1..Len(y) : w[Len(x) + i] = y[i]
      /\ Len(x) \in Nat /\ Len(y) \in Nat /\ DOMAIN x = 1..Len(x) /\ DOMAIN y = 1..Len(y)
  BY Joined, JoinedAt, Zenon
<1>2. DOMAIN w = 1..Len(w)
  BY <1>1, JoinedAt, Zenon
<1> HIDE DEF w
<1>3. ASSUME NEW i \in 1..Len(w) PROVE w[i] # "LF"
  <2>1. CASE i \in 1..Len(x)
    BY <1>1, <2>1 DEF NoEnd
  <2>2. CASE i \notin 1..Len(x)
    <3>1. i - Len(x) \in 1..Len(y) /\ i = Len(x) + (i - Len(x))
      BY <1>1, <2>2
    <3>2. w[i] = y[i - Len(x)]
      BY <1>1, <3>1
    <3> QED
      BY <1>1, <3>1, <3>2 DEF NoEnd
  <2> QED
    BY <2>1, <2>2
<1> QED
  BY <1>2, <1>3 DEF NoEnd, w

LEMMA NoneYet == ASSUME ~HasLine PROVE NoEnd(buf)
<1> QED
  BY DEF HasLine, NoEnd

\* The buffer is cut behind its first line end.
LEMMA LineEndCuts ==
  ASSUME Held, HasLine
  PROVE  \E f \in Symbols :
           /\ NoEnd(f) /\ SubSeq(buf, 1, LineEnd) = f \o <<"LF">>
           /\ SubSeq(buf, LineEnd + 1, Len(buf)) \in Symbols
           /\ buf = (f \o <<"LF">>) \o SubSeq(buf, LineEnd + 1, Len(buf))
<1>1. buf \in Symbols /\ buf \in Seq(STRING)
  BY HeldSymbols DEF Held, Buffered
<1>2. PICK e : e = LineEnd
  OBVIOUS
<1>3. e \in 1..Len(buf) /\ buf[e] = "LF" /\ \A j \in 1..(e - 1) : buf[j] # "LF"
  BY <1>1, <1>2, LineEndFirst
<1>4. Len(buf) \in Nat
  BY <1>1, LenProperties
<1> DEFINE f == SubSeq(buf, 1, e - 1)
<1>5. e - 1 \in 0..Len(buf) /\ e \in 0..Len(buf)
  BY <1>3, <1>4
<1>6. f \in Symbols /\ Len(f) = e - 1 /\ \A i \in 1..e - 1 : f[i] = buf[i]
  BY <1>1, <1>5, SplitAt
<1>7. NoEnd(f)
  <2>1. DOMAIN f = 1..e - 1
    BY <1>6, JoinedAt
  <2> HIDE DEF f
  <2> QED
    BY <1>3, <1>6, <2>1 DEF NoEnd
<1>8. SubSeq(buf, 1, e) = f \o <<buf[e]>>
  <2>1. 1 \in 1..Len(buf) /\ e \in 1..Len(buf)
    BY <1>3, <1>4
  <2> QED
    BY <1>1, <2>1, SubSeqRecursiveSecond
<1>9. SubSeq(buf, e + 1, Len(buf)) \in Symbols /\ buf = SubSeq(buf, 1, e) \o SubSeq(buf, e + 1, Len(buf))
  BY <1>1, <1>5, SplitAt
<1> HIDE DEF f
<1> QED
  BY <1>2, <1>3, <1>6, <1>7, <1>8, <1>9

-----------------------------------------------------------------------------
(* What a line begins.                                                     *)

\* The connection is given up.
Gone == pc' = "failed" /\ UNCHANGED <<need, val, frames, results>>

\* The switch, type by type.
LEMMA DispatchCases ==
  ASSUME NEW c, NEW text, text # <<>>, text[1] = c, Dispatch(text)
  PROVE  /\ c = "+" => Give(StrValue(Tail(text)))
         /\ c = "-" => GiveError(Tail(text))
         /\ c = ":" /\ IsNumber(Tail(text)) => Give(NumValue(NumberOf(Tail(text))))
         /\ c = "$" /\ IsNumber(Tail(text)) => Bulk(NumberOf(Tail(text)))
         /\ c = "*" /\ IsNumber(Tail(text)) => Array(NumberOf(Tail(text)))
<1>1. CASE c = "+"
  BY <1>1 DEF Dispatch
<1>2. CASE c = "-"
  BY <1>2 DEF Dispatch
<1>3. CASE c = ":"
  BY <1>3 DEF Dispatch
<1>4. CASE c = "$"
  BY <1>4 DEF Dispatch
<1>5. CASE c = "*"
  BY <1>5 DEF Dispatch
<1> QED
  BY <1>1, <1>2, <1>3, <1>4, <1>5

\* A line of a type and a number.
LEMMA CountedLine ==
  ASSUME NEW c \in Marks, NEW n \in Numbers, Dispatch(<<c>> \o Sym(n))
  PROVE  /\ c = ":" => Give(NumValue(n))
         /\ c = "$" => Bulk(n)
         /\ c = "*" => Array(n)
<1> DEFINE text == <<c>> \o Sym(n)
<1>1. Sym(n) \in Symbols /\ IsNumber(Sym(n)) /\ NumberOf(Sym(n)) = n
  BY SymIs
<1>2. c \in Symbol
  BY DEF Symbol
<1>3. text # <<>> /\ text[1] = c /\ Tail(text) = Sym(n)
  BY <1>1, <1>2, FirstOf DEF Symbols
<1>4. Dispatch(text)
  OBVIOUS
<1> HIDE DEF text
<1>5. /\ c = ":" => Give(NumValue(NumberOf(Tail(text))))
      /\ c = "$" => Bulk(NumberOf(Tail(text)))
      /\ c = "*" => Array(NumberOf(Tail(text)))
  BY <1>1, <1>3, <1>4, DispatchCases, Zenon
<1> QED
  BY <1>1, <1>3, <1>5, Zenon

\* A line of a type and text.
LEMMA TextLine ==
  ASSUME NEW c \in Marks, NEW x, LineText(x), Dispatch(<<c>> \o x)
  PROVE  /\ c = "+" => Give(StrValue(x))
         /\ c = "-" => GiveError(x)
<1> DEFINE text == <<c>> \o x
<1>1. x \in Symbols
  BY StringsAreSymbols DEF LineText
<1>2. c \in Symbol
  BY DEF Symbol
<1>3. text # <<>> /\ text[1] = c /\ Tail(text) = x
  BY <1>1, <1>2, FirstOf DEF Symbols
<1>4. Dispatch(text)
  OBVIOUS
<1> HIDE DEF text
<1>5. /\ c = "+" => Give(StrValue(Tail(text)))
      /\ c = "-" => GiveError(Tail(text))
  BY <1>3, <1>4, DispatchCases, Zenon
<1> QED
  BY <1>3, <1>5, Zenon

\* What becomes of a reply whose line has been read.
Refused(r) == pc' = "failed" /\ (~r.fine \/ (frames # <<>> /\ r.t = "err")) /\ UNCHANGED <<frames, results>>
Whole(r) == /\ pc' = "give" /\ val' = r.means /\ r.fine /\ (frames = <<>> \/ r.t # "err")
            /\ BodyOf(r) = <<>> /\ UNCHANGED <<frames, results>>
Announced(r) == /\ pc' = "bulk" /\ val' = StrValue(<<>>) /\ r.t = "str" /\ r.fine
                /\ BodyOf(r) = r.v \o CRLF /\ need' = Len(r.v) + 2 /\ UNCHANGED <<frames, results>>
Opened(r) == /\ pc' = "line" /\ r.t \in {"arr", "command"} /\ Kids(r) # <<>>
             /\ BodyOf(r) = WrittenAll(Kids(r))
             /\ frames' = Append(frames, [left |-> Len(Kids(r)), vals |-> <<>>])
             /\ UNCHANGED results

\* A line of a reply that is short enough has one of these outcomes.
LEMMA DispatchIs ==
  ASSUME NoGarbage, NEW r \in Wide, Len(LineOf(r)) + 2 <= MaxLine, Dispatch(LineOf(r))
  PROVE  Refused(r) \/ Whole(r) \/ Announced(r) \/ Opened(r)
<1>1. Made(r) /\ r.t \in Kinds
  BY WideMade, KindIs
<1>2. "$" \in Marks /\ ":" \in Marks /\ "*" \in Marks /\ "+" \in Marks /\ "-" \in Marks
  BY DEF Marks
<1>3. CASE r.t = "str"
  <2>1. BulkText(r.v) /\ r = Str(r.v)
    BY <1>1, <1>3 DEF Made
  <2>2. Len(r.v) \in Numbers /\ Len(r.v) \in Nat /\ (r.fine <=> Len(r.v) <= MaxBulk)
    BY <2>1, StrIs, LenProperties DEF BulkText
  <2>3. Dispatch(<<"$">> \o Sym(Len(r.v))) /\ BodyOf(r) = r.v \o CRLF
    BY <1>3 DEF LineOf, BodyOf
  <2>4. Bulk(Len(r.v))
    BY <1>2, <2>2, <2>3, CountedLine
  <2>5. CASE Len(r.v) > MaxBulk
    BY <2>2, <2>4, <2>5, LimitsAssumption DEF Bulk, Refused
  <2>6. CASE ~(Len(r.v) > MaxBulk)
    BY <1>3, <2>2, <2>3, <2>4, <2>6, LimitsAssumption DEF Bulk, Announced
  <2> QED
    BY <2>5, <2>6
<1>4. CASE r.t = "int"
  <2>1. r.n \in Numbers /\ r = Num(r.n)
    BY <1>1, <1>4 DEF Made
  <2>2. Num(r.n).means = NumValue(r.n) /\ Num(r.n).fine
    BY DEF Num
  <2>3. Dispatch(<<":">> \o Sym(r.n)) /\ BodyOf(r) = <<>>
    BY <1>4 DEF LineOf, BodyOf
  <2>4. Give(NumValue(r.n))
    BY <1>2, <2>1, <2>3, CountedLine
  <2> QED
    BY <1>4, <2>1, <2>2, <2>3, <2>4 DEF Give, Whole
<1>5. CASE r.t = "nil"
  <2>1. r.means = NilValue /\ r.fine
    BY <1>1, <1>5 DEF Made, Nil
  <2>2. Dispatch(<<"$">> \o Sym(-1)) /\ BodyOf(r) = <<>>
    BY <1>5 DEF LineOf, BodyOf
  <2>3. Bulk(-1)
    BY <1>2, <2>2, CountedLine, NumbersAssumption
  <2> QED
    BY <1>5, <2>1, <2>2, <2>3 DEF Bulk, Give, Whole
<1>6. CASE r.t = "nilarr"
  <2>1. r.means = NilValue /\ r.fine
    BY <1>1, <1>6 DEF Made, NilArr
  <2>2. Dispatch(<<"*">> \o Sym(-1)) /\ BodyOf(r) = <<>>
    BY <1>6 DEF LineOf, BodyOf
  <2>3. Array(-1)
    BY <1>2, <2>2, CountedLine, NumbersAssumption
  <2> QED
    BY <1>6, <2>1, <2>2, <2>3 DEF Array, Give, Whole
<1>7. CASE r.t = "err"
  <2>1. LineText(r.v) /\ r = Err(r.v)
    BY <1>1, <1>7 DEF Made
  <2>2. Err(r.v).means = ErrValue(r.v) /\ (Err(r.v).fine <=> FineLine(r.v))
    BY DEF Err
  <2>3. Dispatch(<<"-">> \o r.v) /\ BodyOf(r) = <<>> /\ LineOf(r) = <<"-">> \o r.v
    BY <1>7 DEF LineOf, BodyOf
  <2>4. GiveError(r.v)
    BY <1>2, <2>1, <2>3, TextLine
  <2>5. r.fine
    <3>1. Len(LineOf(r)) = Len(r.v) + 1
      BY <1>2, <2>1, <2>3, LineTextIs DEF Symbol
    <3>2. Len(r.v) \in Nat
      BY <2>1, LenProperties DEF LineText
    <3> QED
      BY <2>1, <2>2, <3>1, <3>2, LimitsAssumption DEF FineLine
  <2>6. CASE frames = <<>>
    BY <1>7, <2>1, <2>2, <2>3, <2>4, <2>5, <2>6 DEF GiveError, Give, Whole
  <2>7. CASE frames # <<>>
    BY <1>7, <2>4, <2>7 DEF GiveError, Refused
  <2> QED
    BY <2>6, <2>7
<1>8. CASE r.t = "simple"
  <2>1. LineText(r.v) /\ r = Simple(r.v)
    BY <1>1, <1>8 DEF Made
  <2>2. Simple(r.v).means = StrValue(r.v) /\ (Simple(r.v).fine <=> FineLine(r.v))
    BY DEF Simple
  <2>3. Dispatch(<<"+">> \o r.v) /\ BodyOf(r) = <<>> /\ LineOf(r) = <<"+">> \o r.v
    BY <1>8 DEF LineOf, BodyOf
  <2>4. Give(StrValue(r.v))
    BY <1>2, <2>1, <2>3, TextLine
  <2>5. r.fine
    <3>1. Len(LineOf(r)) = Len(r.v) + 1
      BY <1>2, <2>1, <2>3, LineTextIs DEF Symbol
    <3>2. Len(r.v) \in Nat
      BY <2>1, LenProperties DEF LineText
    <3> QED
      BY <2>1, <2>2, <3>1, <3>2, LimitsAssumption DEF FineLine
  <2> QED
    BY <1>8, <2>1, <2>2, <2>3, <2>4, <2>5 DEF Give, Whole
<1>9. CASE r.t \in {"arr", "command"}
  <2>1. /\ Kids(r) \in Seq(Wide) /\ Len(Kids(r)) \in Numbers /\ Len(Kids(r)) \in Nat
        /\ (Len(Kids(r)) = 0 <=> Kids(r) = <<>>)
        /\ r.means = ArrValue(Means(Kids(r))) /\ (r.fine <=> AllFine(Kids(r)))
    BY <1>9, KidsAre, LenProperties, EmptySeq
  <2>2. Dispatch(<<"*">> \o Sym(Len(Kids(r)))) /\ BodyOf(r) = WrittenAll(Kids(r))
    BY <1>9 DEF LineOf, BodyOf
  <2>3. Array(Len(Kids(r)))
    BY <1>2, <2>1, <2>2, CountedLine
  <2>4. CASE Kids(r) = <<>>
    <3>1. Give(ArrValue(<<>>))
      BY <2>1, <2>3, <2>4 DEF Array
    <3>2. Means(<<>>) = <<>> /\ AllFine(<<>>)
      BY DEF Means, AllFine
    <3>3. BodyOf(r) = <<>>
      BY <2>2, <2>4, WrittenEmpty
    <3> QED
      BY <1>9, <2>1, <2>4, <3>1, <3>2, <3>3 DEF Give, Whole
  <2>5. CASE Kids(r) # <<>>
    <3>1. /\ frames' = Append(frames, [left |-> Len(Kids(r)), vals |-> <<>>])
          /\ pc' = "line" /\ UNCHANGED results
      BY <2>1, <2>3, <2>5 DEF Array
    <3> QED
      BY <1>9, <2>2, <2>5, <3>1 DEF Opened
  <2> QED
    BY <2>4, <2>5
<1> QED
  BY <1>1, <1>3, <1>4, <1>5, <1>6, <1>7, <1>8, <1>9 DEF Kinds

-----------------------------------------------------------------------------
\* How far the reply r is read: what the reader holds of it, and what is still in the
\* stream of it and behind it, are together what was written.
Reading(r, b) ==
  /\ pc = "line" => NoEnd(line) /\ line \o (buf \o wire) = r.symbols \o b
  /\ pc = "bulk" => /\ r.t = "str" /\ r.fine /\ line = <<>>
                    /\ val.v \o (buf \o wire) = (r.v \o CRLF) \o b
                    /\ Len(val.v) + need = Len(r.v) + 2
  /\ pc = "give" => /\ val = r.means /\ r.fine /\ (frames = <<>> \/ r.t # "err")
                    /\ line = <<>> /\ buf \o wire = b

\* The ledger: what was returned was meant and in order, and what was not is still in
\* the stream, from the reply at hand on.
Framing ==
  /\ Typed
  /\ \A i \in DOMAIN results : results[i] = sent[i].means /\ sent[i].fine
  /\ pc = "idle" => frames = <<>> /\ buf \o wire = WrittenAll(Rest)
  /\ pc = "failed" => ~Rest[1].fine
  /\ pc \in {"line", "bulk", "give"} => \E r, b : At(r, b) /\ Reading(r, b)

\* The stream is all that is sent.
LEMMA FramingInit == Init => Framing
<1> SUFFICES ASSUME Init PROVE Framing
  OBVIOUS
<1>1. PICK stream \in Streams : sent = stream.replies /\ wire = stream.symbols
  BY DEF Init
<1>2. buf = <<>> /\ pc = "idle" /\ frames = <<>> /\ results = <<>>
  BY DEF Init
<1>3. sent \in Seq(Replies) /\ wire = WrittenAll(sent)
  BY <1>1, RepliesAssumption
<1>4. Typed
  BY <1>2, <1>3, LenProperties, EmptySeq DEF Typed
<1>5. Rest = sent
  <2>1. Len(results) = 0 /\ Len(results) + 1 = 1
    BY <1>2, EmptySeq
  <2> QED
    BY <1>3, <2>1, SubSeqFull DEF Rest
<1>6. buf \o wire = WrittenAll(Rest)
  <2>1. wire \in Seq(STRING)
    BY <1>1, StreamsAssumption
  <2> QED
    BY <1>2, <1>3, <1>5, <2>1, ConcatEmptySeq
<1> QED
  BY <1>2, <1>4, <1>6 DEF Framing

\* A call begins at the first of what is left.
LEMMA FramingCall == Framing /\ Held /\ Call => Framing'
<1> SUFFICES ASSUME Framing, Held, Call PROVE Framing'
  OBVIOUS
<1>1. pc = "idle" /\ Len(results) < Len(sent) /\ pc' = "line" /\ line' = <<>>
      /\ UNCHANGED <<sent, wire, buf, frames, results>>
  BY DEF Call
<1>2. Typed /\ frames = <<>> /\ buf \o wire = WrittenAll(Rest)
  BY <1>1 DEF Framing
<1>3. Rest \in Seq(Wide) /\ Rest # <<>>
  <2>1. Rest \in Seq(Wide) /\ Len(Rest) # 0
    BY <1>1, <1>2, RestIs
  <2> QED
    BY <2>1, EmptySeq
<1>4. At(Head(Rest), WrittenAll(Tail(Rest)))
  BY <1>2, <1>3, AtStart
<1>5. PICK r, b : r = Head(Rest) /\ b = WrittenAll(Tail(Rest))
  OBVIOUS
<1>6. At(r, b)'
  BY <1>1, <1>4, <1>5, AtSame
<1>7. buf \o wire = r.symbols \o b
  BY <1>2, <1>3, <1>5, WrittenHead
<1>8. <<>> \o (buf \o wire) = buf \o wire
  BY HeldSymbols, Joined, Zenon
<1>9. NoEnd(<<>>)
  BY DEF NoEnd
<1>10. Reading(r, b)'
  <2>1. line' \o (buf' \o wire') = r.symbols \o b
    BY <1>1, <1>7, <1>8
  <2> QED
    BY <1>1, <1>9, <2>1 DEF Reading
<1>11. Typed'
  BY <1>1, <1>2 DEF Typed
<1>12. (\A i \in DOMAIN results : results[i] = sent[i].means /\ sent[i].fine)'
  BY <1>1 DEF Framing
<1> QED
  BY <1>1, <1>6, <1>10, <1>11, <1>12 DEF Framing

\* A step within a call that leaves the arrays and the results alone, and goes on with
\* the reply at hand.
LEMMA FramingOn ==
  ASSUME Framing, pc \in {"line", "bulk", "give"}, pc' \in {"line", "bulk", "give"},
         UNCHANGED <<sent, frames, results>>,
         \A r, b : At(r, b) /\ Reading(r, b) => Reading(r, b)'
  PROVE  Framing'
<1>1. PICK r, b : At(r, b) /\ Reading(r, b)
  BY DEF Framing
<1>2. At(r, b)'
  BY <1>1, AtSame
<1>3. Reading(r, b)'
  BY <1>1
<1>4. Typed'
  BY DEF Framing, Typed
<1>5. (\A i \in DOMAIN results : results[i] = sent[i].means /\ sent[i].fine)'
  BY DEF Framing
<1> QED
  BY <1>2, <1>3, <1>4, <1>5 DEF Framing

\* A call that ends the connection, on a reply that is not fine.
LEMMA FramingFails ==
  ASSUME Framing, pc \in {"line", "bulk", "give"}, pc' = "failed",
         UNCHANGED <<sent, frames, results>>, ~Rest[1].fine
  PROVE  Framing'
<1>1. Typed'
  BY DEF Framing, Typed
<1>2. (\A i \in DOMAIN results : results[i] = sent[i].means /\ sent[i].fine)'
  BY DEF Framing
<1>3. Rest' = Rest
  BY DEF Rest
<1> QED
  BY <1>1, <1>2, <1>3 DEF Framing

\* What comes in was in the stream before.
LEMMA FramingReceive == Framing /\ Held /\ Receive => Framing'
<1> SUFFICES ASSUME Framing, Held, Receive PROVE Framing'
  OBVIOUS
<1>1. pc \in {"line", "bulk"} /\ UNCHANGED <<sent, pc, line, need, val, frames, results>>
  BY DEF Receive, Wants
<1>2. buf' \o wire' = buf \o wire
  BY ReceiveKeeps
<1>3. \A r, b : Reading(r, b) => Reading(r, b)'
  BY <1>1, <1>2 DEF Reading
<1> QED
  BY <1>1, <1>3, FramingOn

\* What stands in the stream of a reply at the start of its line.
LEMMA LineAhead ==
  ASSUME NoGarbage, Framing, Held, pc = "line", NEW r, NEW b, At(r, b), Reading(r, b)
  PROVE  /\ r \in Wide /\ b \in Symbols /\ LineOf(r) \in Symbols /\ NoEnd(LineOf(r))
         /\ BodyOf(r) \in Symbols /\ BodyOf(r) \o b \in Symbols /\ Len(LineOf(r)) \in Nat
         /\ NoEnd(line) /\ line \o (buf \o wire) = (LineOf(r) \o CRLF) \o (BodyOf(r) \o b)
<1>1. r \in Wide /\ b \in Symbols
  BY AtIs DEF Framing
<1>2. NoEnd(line) /\ line \o (buf \o wire) = r.symbols \o b
  BY DEF Reading
<1>3. /\ LineOf(r) \in Symbols /\ NoEnd(LineOf(r)) /\ BodyOf(r) \in Symbols
      /\ r.symbols = (LineOf(r) \o CRLF) \o BodyOf(r)
  BY <1>1, LineIs
<1>4. PICK x, y : x = LineOf(r) \o CRLF /\ y = BodyOf(r)
  OBVIOUS
<1>5. x \in Symbols /\ y \in Symbols /\ (x \o y) \o b = x \o (y \o b) /\ y \o b \in Symbols
  <2>1. x \in Symbols
    BY <1>3, <1>4, CRLFIs, Joined, Zenon
  <2>2. y \in Symbols
    BY <1>3, <1>4
  <2> QED
    BY <1>1, <2>1, <2>2, Joined, Zenon
<1>6. Len(LineOf(r)) \in Nat
  BY <1>3, JoinedAt, Zenon
<1> QED
  BY <1>1, <1>2, <1>3, <1>4, <1>5, <1>6, Zenon

\* The stream does not end within a reply.
LEMMA FramingReadFails == NoGarbage /\ Framing /\ Held => ~ReadFails
<1> SUFFICES ASSUME NoGarbage, Framing, Held, ReadFails PROVE FALSE
  OBVIOUS
<1>1. wire = <<>> /\ Wants
  BY DEF ReadFails
<1>2. pc \in {"line", "bulk"}
  BY <1>1 DEF Wants
<1>3. PICK r, b : At(r, b) /\ Reading(r, b)
  BY <1>2 DEF Framing
<1>4. buf \in Symbols /\ line \in Symbols /\ buf \o wire = buf
  BY <1>1, HeldSymbols, Joined, Zenon
<1>5. CASE pc = "line"
  <2>1. NoEnd(buf)
    BY <1>1, <1>5, NoneYet DEF Wants
  <2>2. /\ r \in Wide /\ LineOf(r) \in Symbols /\ BodyOf(r) \o b \in Symbols /\ Len(LineOf(r)) \in Nat
        /\ NoEnd(line) /\ line \o (buf \o wire) = (LineOf(r) \o CRLF) \o (BodyOf(r) \o b)
    BY <1>3, <1>5, LineAhead, Zenon
  <2>3. PICK x, y, v : x = line \o buf /\ y = LineOf(r) /\ v = BodyOf(r) \o b
    OBVIOUS
  <2>4. x \in Symbols /\ NoEnd(x) /\ y \in Symbols /\ v \in Symbols
    BY <1>4, <2>1, <2>2, <2>3, NoEndJoin, Joined, Zenon
  <2>5. x = (y \o CRLF) \o v /\ x \o <<>> = x /\ <<>> \in Symbols
    BY <1>4, <2>2, <2>3, <2>4, Joined, Zenon
  <2>6. Len(x) < Len(y) + 2
    BY <2>4, <2>5, NoEndShort
  <2>7. Len(x) = Len(y \o CRLF) + Len(v) /\ Len(y \o CRLF) = Len(y) + Len(CRLF)
        /\ Len(v) \in Nat /\ Len(y) \in Nat
    BY <2>4, <2>5, CRLFIs, Joined, JoinedAt, Zenon
  <2> QED
    BY <2>6, <2>7, CRLFIs
<1>6. CASE pc = "bulk"
  <2>1. buf = <<>> /\ need > 0
    BY <1>1, <1>6 DEF Wants
  <2>2. /\ r.t = "str" /\ val.v \o (buf \o wire) = (r.v \o CRLF) \o b
        /\ Len(val.v) + need = Len(r.v) + 2
    BY <1>3, <1>6 DEF Reading
  <2>3. r \in Wide /\ b \in Symbols
    BY <1>3, AtIs DEF Framing
  <2>4. r.v \in Symbols
    BY <2>2, <2>3, WideMade, StringsAreSymbols DEF Made, BulkText
  <2>5. val.v \in Symbols /\ need \in Nat
    BY <1>6, StringsAreSymbols DEF Held, BulkHeld
  <2>6. val.v \o (buf \o wire) = val.v
    BY <1>4, <2>1, <2>5, Joined, Zenon
  <2>7. Len(val.v) = Len(r.v \o CRLF) + Len(b) /\ Len(r.v \o CRLF) = Len(r.v) + Len(CRLF)
        /\ Len(b) \in Nat /\ Len(r.v) \in Nat
    <3>1. Len(b) \in Nat /\ Len(r.v) \in Nat
      BY <2>3, <2>4, JoinedAt, Zenon
    <3>2. r.v \o CRLF \in Symbols /\ Len(r.v \o CRLF) = Len(r.v) + Len(CRLF)
      BY <2>4, CRLFIs, Joined, Zenon
    <3>3. Len((r.v \o CRLF) \o b) = Len(r.v \o CRLF) + Len(b)
      BY <2>3, <3>2, Joined, Zenon
    <3> QED
      BY <2>2, <2>6, <3>1, <3>2, <3>3, Zenon
  <2> QED
    BY <2>1, <2>2, <2>5, <2>7, CRLFIs
<1> QED
  BY <1>2, <1>5, <1>6

\* A full buffer without a line end is part of the line, or the line is too long.
LEMMA FramingFragment == NoGarbage /\ Framing /\ Held /\ Fragment => Framing'
<1> SUFFICES ASSUME NoGarbage, Framing, Held, Fragment PROVE Framing'
  OBVIOUS
<1>1. pc = "line" /\ ~HasLine /\ line' = line \o buf /\ buf' = <<>>
  BY DEF Fragment
<1>2. buf \in Symbols /\ line \in Symbols /\ wire \in Symbols /\ NoEnd(buf)
  BY <1>1, HeldSymbols, NoneYet
<1>3. wire' = wire /\ UNCHANGED <<sent, frames, results>>
  BY DEF Fragment, Fatal
<1>4. ASSUME NEW r, NEW b, At(r, b), Reading(r, b)
      PROVE  /\ NoEnd(line') /\ line' \in Symbols
             /\ line' \o (buf' \o wire') = r.symbols \o b
             /\ Len(line') < Len(LineOf(r)) + 2 /\ r \in Wide /\ Len(LineOf(r)) \in Nat
  <2>1. NoEnd(line) /\ line \o (buf \o wire) = r.symbols \o b
    BY <1>1, <1>4 DEF Reading
  <2>2. /\ r \in Wide /\ LineOf(r) \in Symbols /\ BodyOf(r) \o b \in Symbols /\ Len(LineOf(r)) \in Nat
        /\ line \o (buf \o wire) = (LineOf(r) \o CRLF) \o (BodyOf(r) \o b)
    BY <1>1, <1>4, LineAhead, Zenon
  <2>3. (line \o buf) \o wire = line \o (buf \o wire) /\ <<>> \o wire = wire /\ line \o buf \in Symbols
    BY <1>2, Joined, Zenon
  <2>4. NoEnd(line \o buf)
    BY <1>2, <2>1, NoEndJoin
  <2>5. Len(line \o buf) < Len(LineOf(r)) + 2
    <3>1. PICK x, y, v : x = line \o buf /\ y = LineOf(r) /\ v = BodyOf(r) \o b
      OBVIOUS
    <3>2. x \o wire = (y \o CRLF) \o v
      BY <2>2, <2>3, <3>1, Zenon
    <3>3. Len(x) < Len(y) + 2
      BY <1>2, <2>2, <2>3, <2>4, <3>1, <3>2, NoEndShort
    <3> QED
      BY <3>1, <3>3
  <2> QED
    BY <1>1, <1>3, <2>1, <2>2, <2>3, <2>4, <2>5, Zenon
<1>5. CASE Len(line') > MaxLine
  <2>1. PICK r, b : At(r, b) /\ Reading(r, b)
    BY <1>1 DEF Framing
  <2>2. Len(line') < Len(LineOf(r)) + 2 /\ r \in Wide /\ Len(LineOf(r)) \in Nat /\ line' \in Symbols
    BY <1>4, <2>1
  <2>3. Len(LineOf(r)) + 2 > MaxLine
    <3>1. Len(line') \in Nat
      BY <2>2, JoinedAt
    <3> QED
      BY <1>5, <2>2, <3>1, LimitsAssumption
  <2>4. ~Rest[1].fine
    BY <2>1, <2>2, <2>3, LongLine, AtIs DEF Framing
  <2>5. pc' = "failed"
    BY <1>5 DEF Fragment, Fatal
  <2> QED
    BY <1>1, <1>3, <2>4, <2>5, FramingFails
<1>6. CASE ~(Len(line') > MaxLine)
  <2>1. pc' = "line"
    BY <1>1, <1>6 DEF Fragment
  <2>2. \A r, b : At(r, b) /\ Reading(r, b) => Reading(r, b)'
    BY <1>4, <2>1 DEF Reading
  <2> QED
    BY <1>1, <1>3, <2>1, <2>2, FramingOn
<1> QED
  BY <1>5, <1>6

\* The reader takes the line of the reply at hand off the stream, and no more.
LEMMA LineTaken ==
  ASSUME NoGarbage, Framing, Held, Line, NEW r, NEW b, At(r, b), Reading(r, b)
  PROVE  /\ r \in Wide /\ b \in Symbols /\ LineOf(r) \in Symbols
         /\ line \o SubSeq(buf, 1, LineEnd) = LineOf(r) \o CRLF
         /\ buf' \o wire' = BodyOf(r) \o b /\ buf' \in Symbols /\ wire' \in Symbols
<1>1. pc = "line" /\ HasLine /\ buf' = SubSeq(buf, LineEnd + 1, Len(buf)) /\ wire' = wire
  BY DEF Line
<1>2. PICK f \in Symbols :
        /\ NoEnd(f) /\ SubSeq(buf, 1, LineEnd) = f \o <<"LF">>
        /\ buf' \in Symbols /\ buf = (f \o <<"LF">>) \o buf'
  BY <1>1, LineEndCuts
<1>3. PICK l, y, v, u : l = line /\ y = LineOf(r) /\ v = BodyOf(r) \o b /\ u = buf'
  OBVIOUS
<1>4. PICK e, k : e = <<"LF">> /\ k = <<"CR">>
  OBVIOUS
<1>5. e \in Symbols /\ k \in Symbols /\ k \o e = CRLF /\ NoEnd(k)
  <2>1. "LF" \in Symbol /\ "CR" \in Symbol
    BY DEF Symbol, Marks
  <2>2. e \in Symbols /\ k \in Symbols /\ NoEnd(k)
    BY <1>4, <2>1 DEF Symbols, NoEnd
  <2>3. Len(k) = 1 /\ k[1] = "CR" /\ Len(e) = 1 /\ e[1] = "LF"
    BY <1>4
  <2> DEFINE w == k \o e
  <2>4. w \in Symbols /\ Len(w) = Len(k) + Len(e)
        /\ (\A i \in 1..Len(k) : w[i] = k[i]) /\ \A i \in 1..Len(e) : w[Len(k) + i] = e[i]
    BY <2>2, Joined, JoinedAt, Zenon
  <2> HIDE DEF w
  <2>5. Len(w) = 2 /\ w[1] = "CR" /\ w[2] = "LF"
    BY <2>3, <2>4
  <2>6. Len(CRLF) = Len(w) /\ \A i \in 1..Len(w) : w[i] = CRLF[i]
    BY <2>5, CRLFIs
  <2>7. w = CRLF
    BY <2>4, <2>6, CRLFIs, SeqEqual DEF Symbols
  <2> QED
    BY <2>2, <2>7 DEF w
<1>6. /\ r \in Wide /\ b \in Symbols /\ y \in Symbols /\ NoEnd(y) /\ v \in Symbols /\ NoEnd(l)
      /\ l \o (buf \o wire) = (y \o CRLF) \o v
  BY <1>1, <1>3, LineAhead, Zenon
<1>7. l \in Symbols /\ u \in Symbols /\ wire \in Symbols
  BY <1>2, <1>3, HeldSymbols
<1>8. l \o (buf \o wire) = ((l \o f) \o e) \o (u \o wire)
  <2>1. f \o e \in Symbols /\ u \o wire \in Symbols
    BY <1>2, <1>5, <1>7, Joined, Zenon
  <2>2. ((f \o e) \o u) \o wire = (f \o e) \o (u \o wire)
    <3>1. Groups(f \o e, u, wire)
      BY <1>7, <2>1, Grouped, Zenon
    <3> QED
      BY <3>1 DEF Groups
  <2>3. l \o ((f \o e) \o (u \o wire)) = (l \o (f \o e)) \o (u \o wire)
    <3>1. Groups(l, f \o e, u \o wire)
      BY <1>7, <2>1, Grouped, Zenon
    <3> QED
      BY <3>1 DEF Groups
  <2>4. l \o (f \o e) = (l \o f) \o e
    <3>1. Groups(l, f, e)
      BY <1>2, <1>5, <1>7, Grouped, Zenon
    <3> QED
      BY <3>1 DEF Groups
  <2> QED
    BY <1>2, <1>3, <1>4, <2>2, <2>3, <2>4, Zenon
<1>9. (y \o CRLF) \o v = ((y \o k) \o e) \o v
  <2>1. y \o (k \o e) = (y \o k) \o e
    <3>1. Groups(y, k, e)
      BY <1>5, <1>6, Grouped, Zenon
    <3> QED
      BY <3>1 DEF Groups
  <2> QED
    BY <1>5, <2>1, Zenon
<1>10. l \o f \in Symbols /\ y \o k \in Symbols /\ u \o wire \in Symbols
       /\ NoEnd(l \o f) /\ NoEnd(y \o k)
  <2>1. l \o f \in Symbols /\ y \o k \in Symbols /\ u \o wire \in Symbols
    BY <1>2, <1>5, <1>6, <1>7, Joined, Zenon
  <2>2. NoEnd(l \o f)
    BY <1>2, <1>6, <1>7, NoEndJoin
  <2>3. NoEnd(y \o k)
    BY <1>5, <1>6, NoEndJoin
  <2> QED
    BY <2>1, <2>2, <2>3
<1>11. PICK p, q, z : p = l \o f /\ q = y \o k /\ z = u \o wire
  OBVIOUS
<1>12. p \in Symbols /\ q \in Symbols /\ z \in Symbols /\ NoEnd(p) /\ NoEnd(q)
       /\ (p \o <<"LF">>) \o z = (q \o <<"LF">>) \o v
  BY <1>4, <1>6, <1>8, <1>9, <1>10, <1>11, Zenon
<1>13. p = q /\ z = v
  <2> DEFINE o == <<"LF">>
  <2>1. \A a, c, g, h \in Symbols :
          NoEnd(a) /\ NoEnd(c) /\ (a \o o) \o g = (c \o o) \o h => a = c /\ g = h
    BY FirstEnd
  <2>2. v \in Symbols /\ (p \o o) \o z = (q \o o) \o v
    BY <1>6, <1>12
  <2> HIDE DEF o
  <2> QED
    BY <1>12, <2>1, <2>2, Zenon
<1>14. l \o (f \o e) = (l \o f) \o e /\ y \o (k \o e) = (y \o k) \o e
  <2>1. l \o (f \o e) = (l \o f) \o e
    <3>1. Groups(l, f, e)
      BY <1>2, <1>5, <1>7, Grouped, Zenon
    <3> QED
      BY <3>1 DEF Groups
  <2>2. y \o (k \o e) = (y \o k) \o e
    <3>1. Groups(y, k, e)
      BY <1>5, <1>6, Grouped, Zenon
    <3> QED
      BY <3>1 DEF Groups
  <2> QED
    BY <2>1, <2>2
<1>15. line \o SubSeq(buf, 1, LineEnd) = LineOf(r) \o CRLF
  BY <1>2, <1>3, <1>4, <1>5, <1>11, <1>13, <1>14, Zenon
<1>16. buf' \o wire' = BodyOf(r) \o b
  BY <1>1, <1>3, <1>11, <1>13, Zenon
<1> QED
  BY <1>1, <1>2, <1>3, <1>6, <1>7, <1>15, <1>16, Zenon

\* And gives its text to the switch, or refuses one that is too long.
LEMMA LineGoes ==
  ASSUME NoGarbage, Framing, Held, Line, NEW r, NEW b, At(r, b), Reading(r, b)
  PROVE  Refused(r) \/ Whole(r) \/ Announced(r) \/ Opened(r)
<1>1. r \in Wide /\ LineOf(r) \in Symbols /\ line \o SubSeq(buf, 1, LineEnd) = LineOf(r) \o CRLF
  BY LineTaken
<1>2. PICK x, w, n : x = LineOf(r) /\ w = line \o SubSeq(buf, 1, LineEnd) /\ n = Len(w)
  OBVIOUS
<1>3. w = x \o CRLF /\ x \in Symbols
  BY <1>1, <1>2, Zenon
<1>4. IF n > MaxLine \/ n < 2 \/ w[n - 1] # "CR" THEN Gone ELSE Dispatch(SubSeq(w, 1, n - 2))
  BY <1>2 DEF Line, Gone
<1>5. w \in Symbols /\ Len(w) = Len(x) + Len(CRLF) /\ Len(x) \in Nat
      /\ \A i \in 1..Len(CRLF) : w[Len(x) + i] = CRLF[i]
  <2>1. CRLF \in Symbols
    BY CRLFIs
  <2>2. Len(x) \in Nat /\ \A i \in 1..Len(CRLF) : (x \o CRLF)[Len(x) + i] = CRLF[i]
    BY <1>3, <2>1, JoinedAt, Zenon
  <2>3. x \o CRLF \in Symbols /\ Len(x \o CRLF) = Len(x) + Len(CRLF)
    BY <1>3, <2>1, Joined, Zenon
  <2> QED
    BY <1>3, <2>2, <2>3, Zenon
<1>6. n = Len(x) + 2 /\ w[n - 1] = "CR" /\ Len(x) \in Nat /\ Len(w) = n
  <2>1. Len(CRLF) = 2 /\ CRLF[1] = "CR"
    BY CRLFIs
  <2>2. n = Len(x) + 2 /\ n - 1 = Len(x) + 1 /\ 1 \in 1..Len(CRLF)
    <3>1. PICK m, c : m = Len(x) /\ c = Len(CRLF)
      OBVIOUS
    <3>2. n = m + c /\ m \in Nat /\ c = 2
      BY <1>2, <1>5, <2>1, <3>1, Zenon
    <3>3. n = m + 2 /\ n - 1 = m + 1 /\ 1 \in 1..c
      BY <3>2
    <3> QED
      BY <3>1, <3>3, Zenon
  <2> QED
    BY <1>2, <1>5, <2>1, <2>2, Zenon
<1>7. SubSeq(w, 1, n - 2) = x
  <2>1. n - 2 \in 0..Len(w) /\ n - 2 = Len(x)
    BY <1>6
  <2>2. /\ SubSeq(w, 1, n - 2) \in Symbols /\ Len(SubSeq(w, 1, n - 2)) = n - 2
        /\ w = SubSeq(w, 1, n - 2) \o SubSeq(w, (n - 2) + 1, Len(w))
        /\ SubSeq(w, (n - 2) + 1, Len(w)) \in Symbols
    BY <1>5, <2>1, SplitAt
  <2>3. PICK a, c : a = SubSeq(w, 1, n - 2) /\ c = SubSeq(w, (n - 2) + 1, Len(w))
    OBVIOUS
  <2>4. a \in Symbols /\ c \in Symbols /\ Len(a) = Len(x) /\ a \o c = x \o CRLF
    BY <1>3, <2>1, <2>2, <2>3
  <2>5. a = x
    BY <1>3, <2>4, CRLFIs, SameCut
  <2> QED
    BY <2>3, <2>5
<1>8. CASE n > MaxLine
  <2>1. Gone /\ ~r.fine
    BY <1>1, <1>2, <1>4, <1>6, <1>8, LongLine
  <2> QED
    BY <2>1 DEF Gone, Refused
<1>9. CASE ~(n > MaxLine)
  <2>1. Dispatch(LineOf(r))
    <3>2. ~(n < 2)
      BY <1>6
    <3>3. Dispatch(x)
      BY <1>4, <1>6, <1>7, <1>9, <3>2, Zenon
    <3> QED
      BY <1>2, <3>3, Zenon
  <2>2. Len(LineOf(r)) + 2 <= MaxLine
    <3>1. Len(x) + 2 <= MaxLine
      BY <1>6, <1>9, LimitsAssumption
    <3> QED
      BY <1>2, <3>1, Zenon
  <2> QED
    BY <1>1, <2>1, <2>2, DispatchIs
<1> QED
  BY <1>8, <1>9

\* A line ends: the reply is refused, is a value, announces a bulk string or opens an
\* array.
LEMMA FramingLine == NoGarbage /\ Framing /\ Held /\ Line => Framing'
<1> SUFFICES ASSUME NoGarbage, Framing, Held, Line PROVE Framing'
  OBVIOUS
<1>1. pc = "line" /\ line' = <<>> /\ sent' = sent
  BY DEF Line
<1>2. PICK r, b : At(r, b) /\ Reading(r, b)
  BY <1>1 DEF Framing
<1>3. r \in Wide /\ b \in Symbols /\ buf' \o wire' = BodyOf(r) \o b
  BY <1>2, LineTaken
<1>4. Refused(r) \/ Whole(r) \/ Announced(r) \/ Opened(r)
  BY <1>2, LineGoes
<1>5. ASSUME UNCHANGED results PROVE (\A i \in DOMAIN results : results[i] = sent[i].means /\ sent[i].fine)'
  BY <1>1, <1>5 DEF Framing
<1>6. CASE Refused(r)
  <2>1. ~Rest[1].fine
    BY <1>2, <1>6, AtIs DEF Refused, Framing
  <2> QED
    BY <1>1, <1>6, <2>1, FramingFails DEF Refused
<1>7. CASE Whole(r)
  <2>1. At(r, b)'
    BY <1>1, <1>2, <1>7, AtSame DEF Whole
  <2>2. buf' \o wire' = b
    BY <1>3, <1>7, Joined, Zenon DEF Whole
  <2>3. Reading(r, b)'
    BY <1>1, <1>7, <2>2 DEF Whole, Reading
  <2>4. Typed'
    BY <1>1, <1>7 DEF Whole, Framing, Typed
  <2> QED
    BY <1>5, <1>7, <2>1, <2>3, <2>4 DEF Whole, Framing
<1>8. CASE Announced(r)
  <2>1. At(r, b)'
    BY <1>1, <1>2, <1>8, AtSame DEF Announced
  <2>2. val'.v = <<>> /\ need' = Len(r.v) + 2
    BY <1>8 DEF Announced, StrValue
  <2>3. r.v \in Symbols /\ Len(r.v) \in Nat
    <3>1. BulkText(r.v)
      BY <1>3, <1>8, WideMade DEF Announced, Made
    <3> QED
      BY <3>1, StringsAreSymbols, LenProperties DEF BulkText
  <2>4. <<>> \o (buf' \o wire') = (r.v \o CRLF) \o b
    <3>1. r.v \o CRLF \in Symbols
      BY <2>3, CRLFIs, Joined, Zenon
    <3>2. (r.v \o CRLF) \o b \in Symbols
      BY <1>3, <3>1, Joined, Zenon
    <3>3. buf' \o wire' = (r.v \o CRLF) \o b
      BY <1>3, <1>8 DEF Announced
    <3> QED
      BY <3>2, <3>3, Joined, Zenon
  <2>5. Len(<<>>) = 0
    OBVIOUS
  <2>6. val'.v \o (buf' \o wire') = (r.v \o CRLF) \o b /\ Len(val'.v) + need' = Len(r.v) + 2
    <3>1. Len(val'.v) = 0
      BY <2>2, <2>5, Zenon
    <3>2. Len(val'.v) + need' = Len(r.v) + 2
      BY <2>2, <2>3, <3>1
    <3> QED
      BY <2>2, <2>4, <3>2, Zenon
  <2>7. Reading(r, b)'
    BY <1>1, <1>8, <2>6 DEF Announced, Reading
  <2>8. Typed'
    BY <1>1, <1>8 DEF Announced, Framing, Typed
  <2> QED
    BY <1>5, <1>8, <2>1, <2>7, <2>8 DEF Announced, Framing
<1>9. CASE Opened(r)
  <2>1. PICK q, c : q = Head(Kids(r)) /\ c = WrittenAll(Tail(Kids(r))) \o b
    OBVIOUS
  <2>2. /\ r.t \in {"arr", "command"} /\ Kids(r) # <<>> /\ BodyOf(r) = WrittenAll(Kids(r))
        /\ frames' = Append(frames, [left |-> Len(Kids(r)), vals |-> <<>>])
        /\ UNCHANGED <<sent, results>> /\ pc' = "line"
    BY <1>1, <1>9 DEF Opened
  <2>3. At(q, c)'
    BY <1>2, <2>1, <2>2, AtPush DEF Framing
  <2>4. Kids(r) \in Seq(Wide)
    BY <1>3, <2>2, KidsAre
  <2>5. /\ q \in Wide /\ WrittenAll(Kids(r)) = q.symbols \o WrittenAll(Tail(Kids(r)))
        /\ q.symbols \in Symbols /\ WrittenAll(Tail(Kids(r))) \in Symbols
    BY <2>1, <2>2, <2>4, WrittenHead, WrittenTyped, WideMade
  <2>6. buf' \o wire' = q.symbols \o c /\ q.symbols \o c \in Symbols
    <3>1. PICK x, y : x = q.symbols /\ y = WrittenAll(Tail(Kids(r)))
      OBVIOUS
    <3>2. (x \o y) \o b = x \o (y \o b)
      BY <1>3, <2>5, <3>1, Joined, Zenon
    <3>3. y \o b \in Symbols
      BY <1>3, <2>5, <3>1, Joined, Zenon
    <3>4. x \o (y \o b) \in Symbols
      BY <2>5, <3>1, <3>3, Joined, Zenon
    <3> QED
      BY <1>3, <2>1, <2>2, <2>5, <3>1, <3>2, <3>4, Zenon
  <2>7. <<>> \o (buf' \o wire') = q.symbols \o c
    BY <2>6, Joined, Zenon
  <2>8. Reading(q, c)'
    <3>1. NoEnd(<<>>)
      BY DEF NoEnd
    <3> QED
      BY <1>1, <2>2, <2>7, <3>1 DEF Reading
  <2>9. Typed'
    <3>1. [left |-> Len(Kids(r)), vals |-> <<>>] \in Frame
      BY <2>4, LenProperties, EmptySeq DEF Frame
    <3>2. frames' \in Seq(Frame)
      BY <2>2, <3>1, AppendProperties DEF Framing, Typed
    <3> QED
      BY <1>1, <2>2, <3>2 DEF Framing, Typed
  <2> QED
    BY <1>5, <2>2, <2>3, <2>8, <2>9 DEF Framing
<1> QED
  BY <1>4, <1>6, <1>7, <1>8, <1>9

\* What io.ReadFull takes moves from the buffer to the value.
LEMMA FramingPayload == Framing /\ Held /\ Held' /\ Payload => Framing'
<1> SUFFICES ASSUME Framing, Held, Held', Payload PROVE Framing'
  OBVIOUS
<1> DEFINE taken == IF Len(buf) < need THEN Len(buf) ELSE need
<1>1. /\ pc = "bulk" /\ need > 0 /\ UNCHANGED <<sent, wire, pc, line, frames, results>>
      /\ val' = StrValue(val.v \o SubSeq(buf, 1, taken))
      /\ buf' = SubSeq(buf, taken + 1, Len(buf))
      /\ need' = need - taken
  BY DEF Payload
<1>2. buf \in Symbols /\ wire \in Symbols /\ val.v \in Symbols /\ need \in Nat
  BY <1>1, HeldSymbols, StringsAreSymbols DEF Held, BulkHeld
<1>3. taken \in 0..Len(buf) /\ taken <= need
  <2>1. Len(buf) \in Nat
    BY <1>2, JoinedAt
  <2> QED
    BY <1>2, <2>1
<1>4. PICK n, x, y : n = taken /\ x = SubSeq(buf, 1, n) /\ y = SubSeq(buf, n + 1, Len(buf))
  OBVIOUS
<1> HIDE DEF taken
<1>5. x \in Symbols /\ y \in Symbols /\ Len(x) = n /\ buf = x \o y
  BY <1>2, <1>3, <1>4, SplitAt
<1>6. val'.v = val.v \o x /\ buf' = y /\ need' = need - n /\ n <= need /\ n \in Nat
  <2>1. Len(buf) \in Nat
    BY <1>2, JoinedAt
  <2>2. n \in Nat /\ n <= need
    BY <1>3, <1>4, <2>1
  <2>3. val' = StrValue(val.v \o x) /\ buf' = y /\ need' = need - n
    BY <1>1, <1>4, Zenon
  <2>4. \A text : StrValue(text).v = text
    BY DEF StrValue
  <2> QED
    BY <2>2, <2>3, <2>4, Zenon
<1>7. val'.v \o (buf' \o wire') = val.v \o (buf \o wire)
  <2>1. PICK g : g = val.v
    OBVIOUS
  <2>2. (g \o x) \o (y \o wire) = g \o (x \o (y \o wire))
    <3>1. y \o wire \in Symbols
      BY <1>2, <1>5, Joined, Zenon
    <3>2. g \in Symbols
      BY <1>2, <2>1
    <3>3. Groups(g, x, y \o wire)
      BY <1>5, <3>1, <3>2, Grouped, Zenon
    <3> QED
      BY <3>3 DEF Groups
  <2>3. (x \o y) \o wire = x \o (y \o wire)
    <3>1. Groups(x, y, wire)
      BY <1>2, <1>5, Grouped, Zenon
    <3> QED
      BY <3>1 DEF Groups
  <2> QED
    BY <1>1, <1>5, <1>6, <2>1, <2>2, <2>3, Zenon
<1>8. Len(val'.v) + need' = Len(val.v) + need
  <2>1. Len(val'.v) = Len(val.v) + Len(x) /\ Len(val.v) \in Nat
    BY <1>2, <1>5, <1>6, Joined, JoinedAt, Zenon
  <2>2. PICK g : g = Len(val.v)
    OBVIOUS
  <2>3. g \in Nat /\ Len(val'.v) = g + n
    BY <1>5, <2>1, <2>2, Zenon
  <2>4. Len(val'.v) + need' = g + need
    BY <1>2, <1>6, <2>3
  <2> QED
    BY <2>2, <2>4, Zenon
<1>9. \A r, b : At(r, b) /\ Reading(r, b) => Reading(r, b)'
  BY <1>1, <1>7, <1>8 DEF Reading
<1> QED
  BY <1>1, <1>9, FramingOn

\* The bytes behind a bulk string are its CR LF, and what is kept is the string.
LEMMA FramingPayloadDone == Framing /\ Held /\ PayloadDone => Framing'
<1> SUFFICES ASSUME Framing, Held, PayloadDone PROVE Framing'
  OBVIOUS
<1>1. pc = "bulk" /\ need = 0 /\ UNCHANGED <<sent, wire, buf, line, frames, results>>
  BY DEF PayloadDone
<1>2. buf \o wire \in Symbols /\ val.v \in Symbols
  BY <1>1, HeldSymbols, StringsAreSymbols DEF Held, BulkHeld
<1>3. ASSUME NEW r, NEW b, At(r, b), Reading(r, b)
      PROVE  pc' = "give" /\ Reading(r, b)'
  <2>1. /\ r.t = "str" /\ r.fine /\ line = <<>> /\ val.v \o (buf \o wire) = (r.v \o CRLF) \o b
        /\ Len(val.v) + need = Len(r.v) + 2
    BY <1>1, <1>3 DEF Reading
  <2>2. r \in Wide /\ b \in Symbols
    BY <1>3, AtIs DEF Framing
  <2>3. BulkText(r.v) /\ r.means = StrValue(r.v)
    <3>1. BulkText(r.v) /\ r = Str(r.v)
      BY <2>1, <2>2, WideMade DEF Made
    <3> QED
      BY <3>1, StrIs
  <2>4. PICK g, x, c, n : g = val.v /\ x = r.v /\ c = x \o CRLF /\ n = Len(g)
    OBVIOUS
  <2>5. x \in Symbols
    BY <2>3, <2>4, StringsAreSymbols DEF BulkText
  <2>6. c \in Symbols /\ Len(c) = Len(x) + Len(CRLF) /\ Len(x) \in Nat
    BY <2>4, <2>5, CRLFIs, Joined, JoinedAt, Zenon
  <2>7. n \in Nat /\ n = Len(x) + 2 /\ Len(c) = n
    <3>1. Len(CRLF) = 2
      BY CRLFIs
    <3>2. Len(g) \in Nat /\ Len(g) + 0 = Len(x) + 2
      BY <1>1, <1>2, <2>1, <2>4, JoinedAt
    <3> QED
      BY <2>4, <2>6, <3>1, <3>2
  <2>8. g = c /\ buf \o wire = b
    <3>1. g \in Symbols /\ Len(g) = Len(c) /\ g \o (buf \o wire) = c \o b
      BY <1>2, <2>1, <2>4, <2>7
    <3> QED
      BY <1>2, <2>2, <2>6, <3>1, SameCut
  <2>9. SubSeq(g, 1, n - 2) = x /\ SubSeq(g, n - 1, n) = CRLF
    <3>1. n - 2 \in 0..Len(g) /\ (n - 2) + 1 = n - 1 /\ n - 2 = Len(x)
      BY <2>4, <2>6, <2>7
    <3>2. PICK i, j : i = SubSeq(g, 1, n - 2) /\ j = SubSeq(g, n - 1, n)
      OBVIOUS
    <3>3. i \in Symbols /\ j \in Symbols /\ Len(i) = n - 2 /\ g = i \o j
      <4>1. /\ SubSeq(g, 1, n - 2) \in Symbols /\ SubSeq(g, (n - 2) + 1, Len(g)) \in Symbols
            /\ Len(SubSeq(g, 1, n - 2)) = n - 2
            /\ g = SubSeq(g, 1, n - 2) \o SubSeq(g, (n - 2) + 1, Len(g))
        BY <1>2, <2>4, <3>1, SplitAt
      <4> QED
        BY <2>4, <3>1, <3>2, <4>1, Zenon
    <3>4. i \o j = x \o CRLF /\ Len(i) = Len(x)
      BY <2>4, <2>8, <3>1, <3>3
    <3>5. i = x /\ j = CRLF
      BY <2>5, <3>3, <3>4, CRLFIs, SameCut
    <3> QED
      BY <3>2, <3>5
  <2>10. pc' = "give" /\ val' = StrValue(x)
    BY <2>4, <2>9, Zenon DEF PayloadDone
  <2> QED
    BY <1>1, <2>1, <2>3, <2>4, <2>8, <2>10 DEF Reading
<1>4. PICK r, b : At(r, b) /\ Reading(r, b)
  BY <1>1 DEF Framing
<1>5. pc' = "give"
  BY <1>3, <1>4
<1> QED
  BY <1>1, <1>3, <1>5, FramingOn

\* A value goes into its array: the next of it is at hand, or the array is a value.
LEMMA FramingElement == Framing /\ GiveElement => Framing'
<1> SUFFICES ASSUME Framing, GiveElement PROVE Framing'
  OBVIOUS
<1>1. pc = "give" /\ frames # <<>> /\ UNCHANGED <<sent, wire, buf, line, results>>
  BY DEF GiveElement
<1>2. PICK r, b : At(r, b) /\ Reading(r, b)
  BY <1>1 DEF Framing
<1>3. val = r.means /\ FinePart(r) /\ line = <<>> /\ buf \o wire = b
  BY <1>1, <1>2 DEF Reading, FinePart
<1>4. Typed /\ r \in Wide
  BY <1>2, AtIs DEF Framing
<1>5. (\A i \in DOMAIN results : results[i] = sent[i].means /\ sent[i].fine)'
  BY <1>1 DEF Framing
<1>6. CASE Top.left = 1
  <2>1. val' = ArrValue(Append(Top.vals, r.means)) /\ frames' = Front(frames) /\ pc' = "give"
    BY <1>1, <1>3, <1>6 DEF GiveElement
  <2>2. PICK q : At(q, b)' /\ FinePart(q) /\ q.means = ArrValue(Append(Top.vals, r.means))
    BY <1>1, <1>2, <1>3, <1>4, <1>6, <2>1, AtPop
  <2>3. Reading(q, b)'
    BY <1>1, <1>3, <2>1, <2>2 DEF Reading, FinePart
  <2>4. Typed'
    <3>1. frames \in Seq(Frame) /\ Len(frames) \in Nat /\ \A i \in 1..Len(frames) : frames[i] \in Frame
      BY <1>4, LenProperties, ElementOfSeq DEF Typed
    <3>2. SubSeq(frames, 1, Len(frames) - 1) \in Seq(Frame)
      <4>1. 1 \in Int /\ Len(frames) - 1 \in Int /\ \A i \in 1..Len(frames) - 1 : frames[i] \in Frame
        BY <3>1
      <4> QED
        BY <4>1, SubSeqProperties
    <3>3. frames' \in Seq(Frame)
      BY <2>1, <3>2 DEF Front
    <3> QED
      BY <1>1, <1>4, <2>1, <3>3 DEF Typed
  <2> QED
    BY <1>5, <2>1, <2>2, <2>3, <2>4 DEF Framing
<1>7. CASE Top.left # 1
  <2>1. pc' = "line" /\ frames' = [frames EXCEPT ![Len(frames)] =
                                     [left |-> Top.left - 1, vals |-> Append(Top.vals, r.means)]]
    BY <1>1, <1>3, <1>7 DEF GiveElement
  <2>2. PICK q \in Wide, c \in Symbols : At(q, c)' /\ b = q.symbols \o c
    BY <1>1, <1>2, <1>3, <1>4, <1>7, <2>1, AtNext
  <2>3. <<>> \o (buf' \o wire') = q.symbols \o c
    <3>1. q.symbols \in Symbols
      BY WideMade
    <3>2. q.symbols \o c \in Symbols
      BY <3>1, Joined, Zenon
    <3> QED
      BY <1>1, <1>3, <2>2, <3>2, Joined, Zenon
  <2>4. Reading(q, c)'
    <3>1. NoEnd(<<>>)
      BY DEF NoEnd
    <3> QED
      BY <1>1, <1>3, <2>1, <2>3, <3>1 DEF Reading
  <2>5. Typed'
    <3>1. PICK todo, behind : Placed(todo, behind) /\ r = Head(todo[Len(frames)])
      BY <1>2, Zenon DEF At
    <3>2. PICK m, n, top : m = Len(todo[n]) /\ n = Len(frames) /\ top = Top
      OBVIOUS
    <3>3. /\ n \in Nat \ {0} /\ top.vals \in Seq(Vals) /\ todo[n] \in Seq(Wide) /\ todo[n] # <<>>
          /\ Len(todo[n]) = top.left
      BY <1>1, <1>4, <3>1, <3>2, LevelIs, Zenon
    <3>4. top.left - 1 \in Nat
      BY <3>3, LenProperties, EmptySeq
    <3>5. r.means \in Vals
      BY <1>4 DEF Vals
    <3>6. [left |-> top.left - 1, vals |-> Append(top.vals, r.means)] \in Frame
      BY <3>3, <3>4, <3>5, AppendProperties DEF Frame
    <3>7. frames' \in Seq(Frame)
      BY <1>4, <2>1, <3>2, <3>3, <3>6, ExceptSeq DEF Typed
    <3> QED
      BY <1>1, <1>4, <2>1, <3>7 DEF Typed
  <2> QED
    BY <1>5, <2>1, <2>2, <2>4, <2>5 DEF Framing
<1> QED
  BY <1>6, <1>7

\* A value is returned, and the stream is at the start of the next reply.
LEMMA FramingResult == Framing /\ GiveResult => Framing'
<1> SUFFICES ASSUME Framing, GiveResult PROVE Framing'
  OBVIOUS
<1>1. pc = "give" /\ frames = <<>> /\ UNCHANGED <<sent, wire, buf, frames>>
      /\ results' = Append(results, val) /\ pc' = "idle"
  BY DEF GiveResult
<1>2. PICK r, b : At(r, b) /\ Reading(r, b)
  BY <1>1 DEF Framing
<1>3. val = r.means /\ r.fine /\ buf \o wire = b
  BY <1>1, <1>2 DEF Reading
<1>4. Typed /\ r \in Wide /\ Rest # <<>> /\ r = Rest[1] /\ b = WrittenAll(Tail(Rest))
  BY <1>1, <1>2, AtIs DEF Framing
<1>5. PICK m, n : m = Len(results) /\ n = Len(sent)
  OBVIOUS
<1>6. m \in Nat /\ n \in Nat /\ m < n /\ results \in Seq(Vals) /\ sent \in Seq(Replies)
  BY <1>1, <1>4, <1>5, LenProperties DEF Typed
<1>7. val \in Vals
  BY <1>3, <1>4 DEF Vals
<1>8. results' \in Seq(Vals) /\ Len(results') = m + 1 /\ results'[m + 1] = val
      /\ \A i \in 1..m : results'[i] = results[i]
  BY <1>1, <1>5, <1>6, <1>7, AppendProperties
<1>9. Rest = <<sent[m + 1]>> \o SubSeq(sent, m + 2, n)
  <2>1. m + 1 \in 1..Len(sent) /\ n \in m + 1..Len(sent) /\ (m + 1) + 1 = m + 2
    BY <1>5, <1>6
  <2> QED
    BY <1>5, <1>6, <2>1, SubSeqRecursiveFirst DEF Rest
<1>10. Rest[1] = sent[m + 1] /\ Rest' = Tail(Rest)
  <2>1. PICK o, x : o = sent[m + 1] /\ x = SubSeq(sent, m + 2, n)
    OBVIOUS
  <2>2. o \in Replies /\ x \in Seq(Replies)
    <3>1. \A i \in 1..n : sent[i] \in Replies
      BY <1>5, <1>6, ElementOfSeq
    <3>2. m + 1 \in 1..n /\ m + 2 \in Int /\ n \in Int /\ \A i \in m + 2..n : sent[i] \in Replies
      BY <1>6, <3>1
    <3> QED
      BY <2>1, <3>1, <3>2, SubSeqProperties
  <2>3. Rest = <<o>> \o x
    BY <1>9, <2>1
  <2>4. (<<o>> \o x)[1] = o /\ Tail(<<o>> \o x) = x
    BY <2>2, FirstOf
  <2>5. Rest' = x
    BY <1>1, <1>5, <1>6, <1>8, <2>1 DEF Rest
  <2> QED
    BY <2>1, <2>3, <2>4, <2>5
<1>11. Typed'
  BY <1>1, <1>4, <1>5, <1>6, <1>8 DEF Typed
<1>12. (\A i \in DOMAIN results : results[i] = sent[i].means /\ sent[i].fine)'
  <2> SUFFICES ASSUME NEW i \in DOMAIN results' PROVE results'[i] = sent[i].means /\ sent[i].fine
    BY <1>1
  <2>1. i \in 1..m + 1
    BY <1>8, LenProperties
  <2>2. CASE i \in 1..m
    <3>1. i \in DOMAIN results /\ results'[i] = results[i]
      BY <1>5, <1>6, <1>8, <2>2, LenProperties
    <3> QED
      BY <3>1 DEF Framing
  <2>3. CASE i \notin 1..m
    <3>1. i = m + 1
      BY <1>6, <2>1, <2>3
    <3> QED
      BY <1>3, <1>4, <1>8, <1>10, <3>1
  <2> QED
    BY <2>2, <2>3
<1>13. frames' = <<>> /\ buf' \o wire' = WrittenAll(Rest')
  BY <1>1, <1>3, <1>4, <1>10
<1> QED
  BY <1>1, <1>11, <1>12, <1>13 DEF Framing

\* Every step keeps the ledger.
LEMMA FramingStep == NoGarbage /\ Framing /\ Held /\ Held' /\ [Next]_vars => Framing'
<1> SUFFICES ASSUME NoGarbage, Framing, Held, Held', [Next]_vars PROVE Framing'
  OBVIOUS
<1>1. CASE UNCHANGED vars
  <2>1. UNCHANGED <<sent, wire, buf, pc, line, need, val, frames, results>>
    BY <1>1 DEF vars
  <2>2. CASE pc \in {"line", "bulk", "give"}
    <3>1. \A r, b : Reading(r, b) => Reading(r, b)'
      BY <2>1 DEF Reading
    <3> QED
      BY <2>1, <2>2, <3>1, FramingOn
  <2>3. CASE pc \notin {"line", "bulk", "give"}
    <3>1. Typed'
      BY <2>1 DEF Framing, Typed
    <3>2. Rest' = Rest
      BY <2>1 DEF Rest
    <3> QED
      BY <2>1, <2>3, <3>1, <3>2 DEF Framing
  <2> QED
    BY <2>2, <2>3
<1> QED
  BY <1>1, FramingCall, FramingReceive, FramingReadFails, FramingFragment, FramingLine,
     FramingPayload, FramingPayloadDone, FramingElement, FramingResult DEF Next, ReadReply

-----------------------------------------------------------------------------
\* Between calls the reader is at the start of a reply, and every value returned is the
\* one meant, for all replies in order or not, in pieces of any size, and for commands
\* whatever the buffer of the connection held (ReadReply, resp.go:110-197; conn.go:54).
THEOREM FramedHolds == ASSUME NoGarbage PROVE Spec => []Framed
<1>1. Framing => Framed
  BY DEF Framing, Framed
<1>2. Init => Framing /\ Held
  BY InitHolds, FramingInit
<1>3. (Framing /\ Held) /\ [Next]_vars => (Framing /\ Held)'
  BY StepHolds, FramingStep
<1> QED
  BY <1>1, <1>2, <1>3, PTL DEF Spec

\* A call that ends the connection was at a reply outside the limits or with an error in
\* an array, and what was returned was in order (resp.go:110-164).
THEOREM RefusedForCauseHolds == ASSUME NoGarbage PROVE Spec => []RefusedForCause
<1>1. Framing => RefusedForCause
  BY DEF Framing, RefusedForCause
<1>2. Init => Framing /\ Held
  BY InitHolds, FramingInit
<1>3. (Framing /\ Held) /\ [Next]_vars => (Framing /\ Held)'
  BY StepHolds, FramingStep
<1> QED
  BY <1>1, <1>2, <1>3, PTL DEF Spec

==============================================================================
