------------------------------- MODULE Reply -------------------------------
(***************************************************************************)
(* What a server, or a client, writes on a connection, and what the reader *)
(* of module Reader is to make of it.  A reply is what it is (t, and with  *)
(* it a text v, a number n, the parts of an array or the arguments of a    *)
(* command), the symbols it is written with, what it means, the value of   *)
(* module Reader, and whether it is fine: within the limits, and in order. *)
(***************************************************************************)
EXTENDS Reader

CONSTANT Replies  \* what is sent, and all that stands in the arrays of it

-----------------------------------------------------------------------------
(* A server's replies, beginning with the values ReadReply has for them.   *)

Str(text) == [t |-> "str", v |-> text, symbols |-> Prefix("$", Len(text)) \o text \o CRLF,
              means |-> StrValue(text), fine |-> Len(text) <= MaxBulk]
Num(n) == [t |-> "int", n |-> n, symbols |-> Prefix(":", n), means |-> NumValue(n), fine |-> TRUE]
Nil == [t |-> "nil", symbols |-> Prefix("$", -1), means |-> NilValue, fine |-> TRUE]
\* The nil of an array, where Nil is that of a bulk string.
NilArr == [t |-> "nilarr", symbols |-> Prefix("*", -1), means |-> NilValue, fine |-> TRUE]

FineLine(text) == Len(text) + 3 <= MaxLine
Err(text) == [t |-> "err", v |-> text, symbols |-> <<"-">> \o text \o CRLF,
              means |-> ErrValue(text), fine |-> FineLine(text)]
\* A simple string, where Str is a bulk string.
Simple(text) == [t |-> "simple", v |-> text, symbols |-> <<"+">> \o text \o CRLF,
                 means |-> StrValue(text), fine |-> FineLine(text)]

WrittenAll(replies) == FlattenSeq([i \in DOMAIN replies |-> replies[i].symbols])
Means(replies) == [i \in DOMAIN replies |-> replies[i].means]
\* No error stands in an array.
FinePart(r) == r.fine /\ r.t # "err"

Arr(of) == [t |-> "arr", of |-> of, symbols |-> Prefix("*", Len(of)) \o WrittenAll(of),
            means |-> ArrValue(Means(of)), fine |-> \A i \in DOMAIN of : FinePart(of[i])]

\* Written, but nothing a reply may be.
Garbage(text) == [t |-> "garbage", v |-> text, symbols |-> text, means |-> NilValue, fine |-> FALSE]

\* A command, on a connection that has kept the buffer wbuf: all its arguments.
Strs(args) == [i \in DOMAIN args |-> Str(ArgString(args[i]))]
Command(wbuf, args) ==
  [t |-> "command", wbuf |-> wbuf, args |-> args, symbols |-> Do(wbuf, args),
   means |-> ArrValue(Means(Strs(args))), fine |-> \A i \in DOMAIN args : Strs(args)[i].fine]

\* What the other end sends, and its symbols.
Sending(replies) == [replies |-> replies, symbols |-> WrittenAll(replies)]

-----------------------------------------------------------------------------
\* Text of a line, and text whose length is one of the numbers.
LineText(text) == text \in Seq(STRING) /\ \A i \in DOMAIN text : text[i] # "LF"
BulkText(text) == text \in Seq(STRING) /\ Len(text) \in Numbers

\* A reply is one that a constructor made, of texts of the kind it is for.
Made(r) ==
  CASE r.t = "str" -> BulkText(r.v) /\ r = Str(r.v)
    [] r.t = "int" -> r.n \in Numbers /\ r = Num(r.n)
    [] r.t = "nil" -> r = Nil
    [] r.t = "nilarr" -> r = NilArr
    [] r.t = "err" -> LineText(r.v) /\ r = Err(r.v)
    [] r.t = "simple" -> LineText(r.v) /\ r = Simple(r.v)
    [] r.t = "arr" -> r.of \in Seq(Replies) /\ Len(r.of) \in Numbers /\ r = Arr(r.of)
    [] r.t = "command" -> /\ r.args \in Seq(Range(r.args)) /\ Len(r.args) \in Numbers
                          /\ \A i \in DOMAIN r.args : BulkText(ArgString(r.args[i]))
                          /\ r = Command(r.wbuf, r.args)
    [] r.t = "garbage" -> r = Garbage(r.v)
    [] OTHER -> FALSE

ASSUME RepliesAssumption ==
  /\ \A r \in Replies : Made(r) /\ r.symbols \in Seq(STRING)
  /\ \A stream \in Streams : /\ stream.replies \in Seq(Replies)
                             /\ stream.symbols = WrittenAll(stream.replies)

-----------------------------------------------------------------------------
Rest == SubSeq(sent, Len(results) + 1, Len(sent))

\* Between calls the reader is at the start of a reply, and what it has returned is
\* what the server meant, whatever pieces it came in (resp.go:136-140, 178-197); of a
\* command that is all its arguments and nothing of the one before it, whose buffer it
\* was written in (conn.go:54).
Framed ==
  /\ pc = "idle" => buf \o wire = WrittenAll(Rest)
  /\ \A i \in DOMAIN results : results[i] = sent[i].means

\* A reply is refused only for what it is: one in order, within the limits, is
\* returned, and everything else is the end of the connection (resp.go:110-164).
RefusedForCause ==
  /\ pc = "failed" => ~Rest[1].fine
  /\ \A i \in DOMAIN results : sent[i].fine
=============================================================================
