------------------------------- MODULE Reader -------------------------------
(***************************************************************************)
(* ReadReply of internal/resp/resp.go over a bufio.Reader: the network     *)
(* delivers what the other end writes in pieces of any size, and the       *)
(* reader takes one reply at a time off the stream.  The other end reads   *)
(* commands by the same grammar (readCommand of tile38_test.go uses        *)
(* ReadReply for it), so a stream may also be of commands.                 *)
(*                                                                         *)
(* The stream is a sequence of symbols: a type character, CR, LF, a number *)
(* (one symbol, whatever its digits) or a character of text.  Text is a    *)
(* sequence of symbols.  The calls of ReadReply within an array are a      *)
(* stack of arrays to fill.  What is sent, and how it is written, is left  *)
(* to module Reply.                                                        *)
(***************************************************************************)
EXTENDS Command

CONSTANTS
  Streams,  \* what the other end may send, and write for it: [replies, symbols]
  BufSize,  \* the buffer of the bufio.Reader
  MaxLine,  \* maxLineLen
  MaxBulk,  \* maxBulkLen
  Numbers   \* those a symbol may stand for

ASSUME LimitsAssumption ==
  BufSize \in Nat \ {0} /\ MaxLine \in Nat \ 0..4 /\ MaxBulk \in Nat

\* Each is written in its own way, and none as the end of a line.
ASSUME NumbersAssumption ==
  /\ -1 \in Numbers /\ Numbers \subseteq Int
  /\ \A m, n \in Numbers : Sym(m) = Sym(n) => m = n
  /\ \A n \in Numbers : Sym(n)[1] \in STRING \ {"CR", "LF"}

ASSUME StreamsAssumption ==
  \A stream \in Streams : stream.symbols \in Seq(STRING)

VARIABLES
  sent,     \* the replies the server writes on this connection
  wire,     \* symbols on their way
  buf,      \* the reader's buffer
  pc,       \* idle, line, bulk, give; failed once a call failed for good
  line,     \* the fragments of a line
  need,     \* symbols missing of a bulk string with its CR LF
  val,      \* a value read and not yet put where it belongs
  frames,   \* the arrays being filled, innermost last: [left, vals]
  results   \* what the calls returned

vars == <<sent, wire, buf, pc, line, need, val, frames, results>>

-----------------------------------------------------------------------------
(* The values ReadReply returns.                                           *)

StrValue(text) == [t |-> "str", v |-> text]
NumValue(n) == [t |-> "int", n |-> n]
ArrValue(vals) == [t |-> "arr", of |-> vals]
NilValue == [t |-> "nil"]
ErrValue(text) == [t |-> "err", v |-> text]

NumberOf(text) == CHOOSE n \in Numbers : Sym(n) = text
IsNumber(text) == \E n \in Numbers : Sym(n) = text

-----------------------------------------------------------------------------
Init ==
  /\ \E stream \in Streams : sent = stream.replies /\ wire = stream.symbols
  /\ buf = <<>> /\ pc = "idle" /\ line = <<>> /\ need = 0
  /\ val = NilValue /\ frames = <<>> /\ results = <<>>

\* After an error that is not an Error no further reply is asked for (Pool has
\* what Conn does with an Error inside an array).
Call ==
  /\ pc = "idle" /\ Len(results) < Len(sent)
  /\ pc' = "line" /\ line' = <<>>
  /\ UNCHANGED <<sent, wire, buf, need, val, frames, results>>

HasLine == \E i \in DOMAIN buf : buf[i] = "LF"
LineEnd == CHOOSE i \in DOMAIN buf : buf[i] = "LF" /\ \A j \in 1..(i - 1) : buf[j] # "LF"

\* The reader asks the network when what it holds does not do.
Wants == \/ pc = "line" /\ ~HasLine /\ Len(buf) < BufSize
         \/ pc = "bulk" /\ buf = <<>> /\ need > 0

Receive ==
  /\ Wants
  /\ \E n \in 1..Len(wire) :
       /\ Len(buf) + n <= BufSize
       /\ buf' = buf \o SubSeq(wire, 1, n)
       /\ wire' = SubSeq(wire, n + 1, Len(wire))
  /\ UNCHANGED <<sent, pc, line, need, val, frames, results>>

Fatal == pc' = "failed" /\ UNCHANGED <<sent, wire, need, val, frames, results>>

\* The connection ends, or its deadline passes.
ReadFails ==
  /\ Wants /\ wire = <<>>
  /\ Fatal /\ UNCHANGED <<buf, line>>

FragmentEndless ==  \* mutant: the parts of a line are not counted
  /\ pc = "line" /\ ~HasLine /\ Len(buf) = BufSize
  /\ line' = line \o buf /\ buf' = <<>>
  /\ UNCHANGED <<sent, wire, pc, need, val, frames, results>>

FragmentWaits == FALSE  \* mutant: a full buffer without a line end is waited on

\* ReadSlice fills the buffer without finding a line end: the line goes on.
Fragment ==
  /\ pc = "line" /\ ~HasLine /\ Len(buf) = BufSize
  /\ line' = line \o buf /\ buf' = <<>>
  /\ IF Len(line') > MaxLine THEN Fatal
     ELSE UNCHANGED <<sent, wire, pc, need, val, frames, results>>

Give(v) == pc' = "give" /\ val' = v /\ UNCHANGED <<need, frames, results>>

\* An error at the outermost level is a reply; within an array it is the end.
GiveError(text) ==
  IF frames = <<>> THEN Give(ErrValue(text))
  ELSE pc' = "failed" /\ UNCHANGED <<need, val, frames, results>>

BulkBelow(n) ==  \* mutant: a bulk string of the largest size is refused
  IF n < 0 THEN Give(NilValue)
  ELSE IF n >= MaxBulk THEN pc' = "failed" /\ UNCHANGED <<need, val, frames, results>>
  ELSE pc' = "bulk" /\ need' = n + 2 /\ val' = StrValue(<<>>) /\ UNCHANGED <<frames, results>>

BulkEndless(n) ==  \* mutant: a length prefix is believed
  IF n < 0 THEN Give(NilValue)
  ELSE pc' = "bulk" /\ need' = n + 2 /\ val' = StrValue(<<>>) /\ UNCHANGED <<frames, results>>

Bulk(n) ==
  IF n < 0 THEN Give(NilValue)
  ELSE IF n > MaxBulk THEN pc' = "failed" /\ UNCHANGED <<need, val, frames, results>>
  ELSE pc' = "bulk" /\ need' = n + 2 /\ val' = StrValue(<<>>) /\ UNCHANGED <<frames, results>>

Array(n) ==
  IF n < 0 THEN Give(NilValue)
  ELSE IF n = 0 THEN Give(ArrValue(<<>>))
  ELSE /\ frames' = Append(frames, [left |-> n, vals |-> <<>>])
       /\ pc' = "line"
       /\ UNCHANGED <<need, val, results>>

\* What a line without its CR LF begins.
Dispatch(text) ==
  LET body == Tail(text)
      Counted(F(_)) == IF IsNumber(body) THEN F(NumberOf(body))
                      ELSE pc' = "failed" /\ UNCHANGED <<need, val, frames, results>> IN
  CASE text # <<>> /\ text[1] = "+" -> Give(StrValue(body))
    [] text # <<>> /\ text[1] = "-" -> GiveError(body)
    [] text # <<>> /\ text[1] = ":" -> Counted(LAMBDA n : Give(NumValue(n)))
    [] text # <<>> /\ text[1] = "$" -> Counted(Bulk)
    [] text # <<>> /\ text[1] = "*" -> Counted(Array)
    [] OTHER -> pc' = "failed" /\ UNCHANGED <<need, val, frames, results>>

\* The last fragment of a line, and the switch on its type.
Line ==
  /\ pc = "line" /\ HasLine
  /\ LET whole == line \o SubSeq(buf, 1, LineEnd)
         n == Len(whole) IN
     /\ line' = <<>>
     /\ IF n > MaxLine \/ n < 2 \/ whole[n - 1] # "CR"
        THEN pc' = "failed" /\ UNCHANGED <<need, val, frames, results>>
        ELSE Dispatch(SubSeq(whole, 1, n - 2))
  /\ buf' = SubSeq(buf, LineEnd + 1, Len(buf))
  /\ UNCHANGED <<sent, wire>>

\* io.ReadFull takes what is in the buffer, then asks for more.
Payload ==
  /\ pc = "bulk" /\ buf # <<>> /\ need > 0
  /\ LET n == IF Len(buf) < need THEN Len(buf) ELSE need IN
     /\ val' = StrValue(val.v \o SubSeq(buf, 1, n))
     /\ buf' = SubSeq(buf, n + 1, Len(buf))
     /\ need' = need - n
  /\ UNCHANGED <<sent, wire, pc, line, frames, results>>

PayloadUnchecked ==  \* mutant: what follows a bulk string is not looked at
  /\ pc = "bulk" /\ need = 0
  /\ pc' = "give" /\ val' = StrValue(SubSeq(val.v, 1, Len(val.v) - 2))
  /\ UNCHANGED <<sent, wire, buf, line, need, frames, results>>

\* A payload that is not CRLF-terminated is the end of the connection.
PayloadDone ==
  /\ pc = "bulk" /\ need = 0
  /\ LET n == Len(val.v) IN
     IF SubSeq(val.v, n - 1, n) = CRLF
     THEN pc' = "give" /\ val' = StrValue(SubSeq(val.v, 1, n - 2))
     ELSE pc' = "failed" /\ UNCHANGED val
  /\ UNCHANGED <<sent, wire, buf, line, need, frames, results>>

Top == frames[Len(frames)]

\* An element of an array: the next is read, or the array is a value itself.
GiveElement ==
  /\ pc = "give" /\ frames # <<>>
  /\ LET vals == Append(Top.vals, val) IN
     IF Top.left = 1
     THEN /\ val' = ArrValue(vals) /\ frames' = Front(frames)
          /\ UNCHANGED pc
     ELSE /\ frames' = [frames EXCEPT ![Len(frames)] = [left |-> Top.left - 1, vals |-> vals]]
          /\ pc' = "line" /\ UNCHANGED val
  /\ UNCHANGED <<sent, wire, buf, line, need, results>>

GiveResult ==
  /\ pc = "give" /\ frames = <<>>
  /\ results' = Append(results, val)
  /\ pc' = "idle" /\ val' = NilValue
  /\ UNCHANGED <<sent, wire, buf, line, need, frames>>

ReadReply == \/ ReadFails \/ Fragment \/ Line \/ Payload \/ PayloadDone
             \/ GiveElement \/ GiveResult

Next == Call \/ Receive \/ ReadReply

Spec == Init /\ [][Next]_vars

\* What was written arrives, or the connection ends (the deadline of a call or
\* the peer's close), and the goroutine that reads runs.
FairSpec == Spec /\ WF_vars(Receive) /\ WF_vars(ReadReply)

-----------------------------------------------------------------------------
\* What is held of one line, and what is held or made room for of one bulk string,
\* stay within their limits however the bytes come in: a stream without line ends
\* fills a bounded line (resp.go:166-170, 176-194), and a bulk length above the limit
\* is refused before anything is held for it (resp.go:121-135).  Arrays are not
\* counted: nothing bounds the elements an array header makes room for (resp.go:150).
LineAndBulkBounded ==
  /\ Len(line) <= MaxLine + BufSize
  /\ pc = "bulk" => Len(val.v) + need <= MaxBulk + 2

\* A call returns once what it reads has arrived or the connection has ended.
Answered == pc # "idle" ~> pc \in {"idle", "failed"}
=============================================================================
