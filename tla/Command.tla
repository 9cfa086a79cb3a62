------------------------------ MODULE Command ------------------------------
(***************************************************************************)
(* AppendCommand of internal/resp/resp.go and the use Conn.Do makes of it: *)
(* what a command is on the wire.  The stream is the one of module Reply:  *)
(* a number is one symbol, text a sequence of symbols.  An argument is of  *)
(* the kind "text" (string, []byte and json.RawMessage), "number", "bool", *)
(* "nil", or "other", which has no text.                                   *)
(***************************************************************************)
EXTENDS Integers, SequencesExt, TLC

CONSTANT MaxRetained  \* maxRetainedBuf

ASSUME CommandAssumption == MaxRetained \in Nat

CRLF == <<"CR", "LF">>
Sym(n) == <<ToString(n)>>

Encodable(args) == \A i \in DOMAIN args : args[i].kind # "other"

ArgString(arg) ==
  CASE arg.kind = "text" -> arg.v
    [] arg.kind = "number" -> Sym(arg.n)
    [] arg.kind = "bool" -> IF arg.yes THEN <<"true">> ELSE <<"false">>
    [] arg.kind = "nil" -> <<>>

\* A line that announces a number: of symbols, or of parts.
Prefix(type, n) == <<type>> \o Sym(n) \o CRLF

AppendLine(b, s) ==  \* mutant: an argument ends at the end of its line
  b \o <<"+">> \o s \o CRLF
AppendBulk(b, s) == b \o Prefix("$", Len(s)) \o s \o CRLF

AppendCommand(b, args) ==
  LET after[k \in 0..Len(args)] ==
        IF k = 0 THEN b \o Prefix("*", Len(args))
        ELSE AppendBulk(after[k - 1], ArgString(args[k]))
  IN after[Len(args)]

DoAppends(wbuf, args) ==  \* mutant: the buffer is not cut back to nothing
  AppendCommand(wbuf, args)

\* What Do writes on a connection that has kept the buffer wbuf.
Do(wbuf, args) == AppendCommand(SubSeq(wbuf, 1, 0), args)

\* The buffer it then keeps: the old one when the command cannot be encoded, none
\* when the new one's capacity, at least its length, is above the limit.
Retained(wbuf, args) ==
  IF ~Encodable(args) THEN {wbuf}
  ELSE {<<>>} \cup {b \in {Do(wbuf, args)} : Len(b) <= MaxRetained}
=============================================================================
