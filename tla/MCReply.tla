------------------------------ MODULE MCReply ------------------------------
(* A bounded instance of Reply, Values and Answers.                         *)
EXTENDS Answers

Bare == [id |-> <<"a">>, lat |-> 1, lon |-> 2, z |-> 0, fields |-> {}, dist |-> 9]
Full == [Bare EXCEPT !.z = 3, !.fields = {<<<<"f">>, <<"4">>>>}]
High == [Bare EXCEPT !.z = 3]
Tagged == [Bare EXCEPT !.fields = {<<<<"f">>, <<"4">>>>, <<<<"g">>, <<"5">>>>}]
SomeObjects == {Bare, Full, High, Tagged}

PageStreams == {<<PageOf(f, p, c)>> : f \in Outputs, p \in Pages, c \in Cursors}

\* Text of n characters.
X(n) == [i \in 1..n |-> "x"]

\* The lines are at most 7 symbols and the bulk strings 4 characters, and some
\* of these are one above.  A bulk string may hold a line end.
Flat == {Simple(X(0)), Simple(X(4)), Simple(X(5)), Err(X(3)), Err(X(5)), Num(-1), Num(0),
         Nil, Str(X(0)), Str(X(4)), Str(X(5)), Str(CRLF), Str(<<"x", "LF">>), Arr(<<>>), NilArr}
Nested == {Arr(<<Nil, Arr(<<>>), Arr(<<Num(1), Str(X(1))>>), Simple(X(1))>>),
           Arr(<<Num(1), Err(X(1)), Num(2)>>)}
\* No type, no reply; no number; no CR; a bulk string longer than it says; a line
\* without an end; an array that breaks off.
Broken == {Garbage(<<"?">> \o CRLF), Garbage(CRLF), Garbage(<<":", "x">> \o CRLF),
           Garbage(<<"+", "LF">>), Garbage(<<"$", "1">> \o CRLF \o X(2) \o CRLF),
           Garbage(X(12)), Garbage(<<"*", "2">> \o CRLF \o <<":", "1">> \o CRLF)}

ReplyStreams == {<<r>> : r \in Broken} \cup
                {<<r, q>> : r \in Flat \cup Nested, q \in {Err(X(1)), Str(X(1)), Arr(<<Num(1)>>)}}

\* Fields at the edges of three bits, and none a number.
WithField(text) == [Bare EXCEPT !.fields = {<<<<"f">>, text>>}]
Edges == {WithField(Sym(n)) : n \in {-5, -4, 3, 4, 7, 8}} \cup {WithField(<<"1.5">>)}
Maybe(objects) == {{}} \cup {{o} : o \in objects}

Gone == [exists |-> FALSE]
Counted(n) == [exists |-> TRUE, counters |-> [c \in Counters |-> IF c = "num_points" THEN n + 1 ELSE n]]
Hook1 == [name |-> <<"h">>, key |-> <<"k">>, endpoints |-> <<<<"e">>, <<"e2">>>>,
          command |-> <<<<"NEARBY">>, <<"k">>>>, meta |-> {}]
Hook2 == [Hook1 EXCEPT !.endpoints = <<>>, !.meta = {<<<<"m">>, <<"1">>>>}]

Getting == [cmd : {"GET"}, format : {"POINT", "BOUNDS", "OBJECT"}, of : Maybe({Bare, Full}),
            withFields : BOOLEAN]
           \cup [cmd : {"GET"}, format : {"POINT"}, of : Maybe(Edges), withFields : {TRUE}]
SomeLists == {<<>>, <<<<"k">>>>, <<<<"k">>, <<"j">>>>}
SomeQuestions ==
  Getting
  \cup [cmd : {"EXISTS"}, yes : BOOLEAN] \cup [cmd : {"CLIP"}, yes : BOOLEAN, text : {<<"g">>}]
  \cup [cmd : {"TTL"}, of : Maybe({Bare}), left : {{}, {0}, {5}}]
  \cup [cmd : {"COUNT"}, n : {0, 12}, typed : BOOLEAN]
  \cup [cmd : {"BOUNDS", "JGET"}, of : Maybe({Full})]
  \cup [cmd : {"FGET"}, text : {<<"4">>, <<>>}] \cup [cmd : {"KEYS"}, list : SomeLists]
  \cup [cmd : {"SERVER"}, text : {<<"x">>}, n : {12}, typed : BOOLEAN]
  \cup [cmd : {"CONFIG"}, name : {<<"p">>}, text : {<<>>, <<"v">>, <<"p">>}]
  \cup [cmd : {"STATS"}, keys : {<<<<"a">>, <<"b">>>>}, typed : BOOLEAN,
        stats : {<<Counted(1), Counted(2)>>, <<Gone, Counted(2)>>, <<Counted(1), Gone>>}]
  \cup [cmd : {"HOOKS"}, list : {<<>>, <<Hook1>>, <<Hook2, Hook1>>}] \cup {[cmd |-> "STATUS"]}

\* One handle, used twice.
Twice == {[cmd |-> "GET", format |-> "POINT", of |-> of, withFields |-> TRUE] :
            of \in Maybe({Bare, Full, Tagged})}
AnswerStreams == {<<ReplyTo(q)>> : q \in SomeQuestions}
                 \cup {<<ReplyTo(q), ReplyTo(r)>> : q \in Twice, r \in Twice}

\* Two commands on a connection, arguments that hold a line end among theirs, the
\* second in the buffer of the first or of one that could not be encoded after it.
Arguments(s) == {[kind |-> "text", v |-> v] : v \in s}
SomeArgs == Arguments({<<>>, X(4), CRLF})
            \cup {[kind |-> "number", n |-> -1], [kind |-> "bool", yes |-> TRUE], [kind |-> "nil"]}
SomeCommands == {<<>>} \cup {<<a, b>> : a \in Arguments({X(1)}), b \in SomeArgs}
Refused == <<[kind |-> "text", v |-> X(1)], [kind |-> "other"]>>
CommandStreams ==
  UNION {{<<Command(<<>>, c), Command(kept, d)>> :
            kept \in UNION {Retained(k, Refused) : k \in Retained(<<>>, c)}} :
         c \in SomeCommands, d \in SomeCommands}

SomeNumbers == -9..99
SomeStreams == {Sending(replies) :
                  replies \in PageStreams \cup ReplyStreams \cup AnswerStreams \cup CommandStreams}

RECURSIVE Parts(_)
Parts(r) == {r} \cup (IF r.t = "arr" THEN UNION {Parts(p) : p \in Range(r.of)} ELSE {})
SomeReplies == UNION {UNION {Parts(r) : r \in Range(stream.replies)} : stream \in SomeStreams}
=============================================================================
