------------------------------ MODULE Answers ------------------------------
(***************************************************************************)
(* What the commands make of one reply each: GET with and without the      *)
(* envelope of its fields, the reads of management.go, server.go and       *)
(* json.go, and FieldOf over the fields that came.                         *)
(***************************************************************************)
EXTENDS Values

CONSTANTS
  Questions,  \* what is asked, and what is the case: [cmd, ...]
  Sizes       \* how many values the integers of a width have

IDNotFound == [error |-> "id not found"]
KeyNotFound == [error |-> "key not found"]
ServerError == [error |-> "server error"]

IsText(v) == v.t \in {"str", "int"}  \* toString, whose text is that of FieldString

-----------------------------------------------------------------------------
(* GET.  A handle keeps the fields of the last reply that had any to keep. *)

Miss(error, fields) == [error |-> error.error, fields |-> fields]

GetExecKeeps(withFields, fields, reply) ==  \* mutant: no cmd.fields = nil
  IF reply.t = "err" THEN Miss(ServerError, fields)
  ELSE IF reply.t = "nil" THEN Miss(IDNotFound, fields)
  ELSE IF ~withFields THEN [value |-> reply, fields |-> fields]
  ELSE IF ~IsArr(reply, 1) THEN Miss(Unexpected, fields)
  ELSE [value |-> reply.of[1],
        fields |-> IF Len(reply.of) > 1 THEN ParseFields(reply.of[2]) ELSE fields]

GetExec(withFields, fields, reply) ==
  IF reply.t = "err" THEN Miss(ServerError, fields)
  ELSE IF reply.t = "nil" THEN Miss(IDNotFound, fields)
  ELSE IF ~withFields THEN [value |-> reply, fields |-> fields]
  ELSE IF ~IsArr(reply, 1) THEN Miss(Unexpected, fields)
  ELSE [value |-> reply.of[1],
        fields |-> IF Len(reply.of) > 1 THEN ParseFields(reply.of[2]) ELSE {}]

\* The terminals: PointZ, Bounds, and Object, Hash and A5, whose value is text.
GetTerminal(format, value) ==
  CASE format = "POINT" -> ParseCoords(value)
    [] format = "BOUNDS" -> ParseBounds(value, FALSE)
    [] format = "OBJECT" -> IF value.t = "str" THEN [text |-> value.v] ELSE Unexpected

\* The fields of a handle after the first k replies it was given.
GetFields(withFields) ==
  LET after[k \in 0..Len(results)] ==
        IF k = 0 THEN {} ELSE GetExec(withFields, after[k - 1], results[k]).fields
  IN after

-----------------------------------------------------------------------------
(* The other reads.                                                        *)

\* EXISTS, FEXISTS and TEST.
Flag(v) == IF IsNum(v) THEN [yes |-> AsNum(v) = 1] ELSE Unexpected

Clip(reply) ==
  IF ~IsArr(reply, 2) THEN Unexpected
  ELSE IF ~IsNum(reply.of[1]) \/ ~IsText(reply.of[2]) THEN Unexpected
  ELSE [yes |-> AsNum(reply.of[1]) = 1, text |-> FieldString(reply.of[2])]

\* Seconds; no expiry is no number of them, and a miss comes as one.
TTL(reply) == CASE ~IsNum(reply) -> Unexpected
                [] IsNum(reply) /\ AsNum(reply) = -2 -> IDNotFound
                [] IsNum(reply) /\ AsNum(reply) = -1 -> [forever |-> TRUE]
                [] OTHER -> [left |-> AsNum(reply)]

Count(reply) == IF IsNum(reply) THEN [n |-> AsNum(reply)] ELSE Unexpected

Bounds(reply) == IF reply.t = "nil" THEN KeyNotFound ELSE ParseBounds(reply, TRUE)

JGet(reply) == CASE reply.t = "nil" -> IDNotFound
                 [] reply.t = "str" -> [text |-> reply.v]
                 [] OTHER -> Unexpected

FGet(reply) == IF IsText(reply) THEN [text |-> FieldString(reply)] ELSE Unexpected

StringSlice(v) ==
  IF ~IsArr(v, 0) THEN Unexpected
  ELSE IF \E i \in DOMAIN v.of : v.of[i].t # "str" THEN Unexpected
  ELSE [list |-> [i \in DOMAIN v.of |-> v.of[i].v]]

\* The value behind the first name that is key; names are every other element.
LookupKV(v, key) ==
  LET last == IF IsArr(v, 2) THEN Len(v.of) - 1 ELSE 0
      at == {i \in 1..last : i % 2 = 1 /\ v.of[i] = StrValue(key)} IN
  IF at = {} THEN Unexpected ELSE [found |-> v.of[(CHOOSE i \in at : \A j \in at : i <= j) + 1]]

DBSize(reply) ==
  LET field == LookupKV(reply, <<"num_objects">>) IN
  IF Failed(field) THEN field ELSE Count(field.found)

ConfigGet(name, reply) ==
  LET value == LookupKV(reply, name) IN IF Failed(value) THEN value ELSE FGet(value.found)

Counters == {"in_memory_size", "num_objects", "num_points", "num_strings"}

\* One collection; a null is one that is not there.
Stats1(item) ==
  IF item.t = "nil" THEN [exists |-> FALSE]
  ELSE LET read == [c \in Counters |-> LookupKV(item, <<c>>)] IN
       IF \E c \in Counters : Failed(read[c]) THEN Unexpected
       ELSE IF \E c \in Counters : ~IsNum(read[c].found) THEN Unexpected
       ELSE [exists |-> TRUE, counters |-> [c \in Counters |-> AsNum(read[c].found)]]

StatsPresent(keys, reply) ==  \* mutant: continue before out = append(out, stats)
  IF ~IsArr(reply, 0) THEN Unexpected
  ELSE LET there == SelectSeq(reply.of, LAMBDA item : item.t # "nil") IN
       [list |-> [i \in DOMAIN there |->
          [key |-> IF i <= Len(keys) THEN keys[i] ELSE <<>>, stats |-> Stats1(there[i])]]]

\* One for each key asked for, by place.
Stats(keys, reply) ==
  IF ~IsArr(reply, 0) THEN Unexpected
  ELSE LET read == [i \in DOMAIN reply.of |-> Stats1(reply.of[i])] IN
       IF \E i \in DOMAIN read : Failed(read[i]) THEN Unexpected
       ELSE [list |-> [i \in DOMAIN read |->
               [key |-> IF i <= Len(keys) THEN keys[i] ELSE <<>>, stats |-> read[i]]]]

\* Lists that do not decode are no lists, as with fields.
Hooks(reply) ==
  LET ListAt(d, i) == IF Len(d.of) < i THEN <<>>
                      ELSE LET s == StringSlice(d.of[i]) IN IF Failed(s) THEN <<>> ELSE s.list
      Hook(d) == [name |-> d.of[1].v,
                  key |-> IF d.of[2].t = "str" THEN d.of[2].v ELSE <<>>,
                  endpoints |-> ListAt(d, 3), command |-> ListAt(d, 4),
                  meta |-> IF Len(d.of) > 4 THEN ParseFields(d.of[5]) ELSE {}] IN
  IF ~IsArr(reply, 0) THEN Unexpected
  ELSE IF \E i \in DOMAIN reply.of : ~HasId(reply.of[i], 2) THEN Unexpected
  ELSE [list |-> [i \in DOMAIN reply.of |-> Hook(reply.of[i])]]

\* A command that answers with a status takes whatever is no error.
Answer(q, reply) ==
  IF reply.t = "err" THEN ServerError
  ELSE CASE q.cmd = "GET" ->
              LET e == GetExec(q.withFields, {}, reply) IN
              IF Failed(e) THEN [error |-> e.error] ELSE GetTerminal(q.format, e.value)
         [] q.cmd = "EXISTS" -> Flag(reply)
         [] q.cmd = "CLIP" -> Clip(reply)
         [] q.cmd = "TTL" -> TTL(reply)
         [] q.cmd = "COUNT" -> Count(reply)
         [] q.cmd = "BOUNDS" -> Bounds(reply)
         [] q.cmd = "JGET" -> JGet(reply)
         [] q.cmd = "FGET" -> FGet(reply)
         [] q.cmd = "KEYS" -> StringSlice(reply)
         [] q.cmd = "SERVER" -> DBSize(reply)
         [] q.cmd = "CONFIG" -> ConfigGet(q.name, reply)
         [] q.cmd = "STATS" -> Stats(q.keys, reply)
         [] q.cmd = "HOOKS" -> Hooks(reply)
         [] q.cmd = "STATUS" -> [done |-> TRUE]

-----------------------------------------------------------------------------
(* FieldOf: the text of a field as a value of the type asked for.          *)

IntegerTypes == [of : {"int", "uint"}, size : Sizes]
Types == IntegerTypes \cup {[of |-> "string"]}

ValuesOf(type) == IF type.of = "int" THEN -(type.size \div 2)..type.size \div 2 - 1
                                     ELSE 0..type.size - 1

ASSUME SizesAssumption ==
  /\ \A size \in Sizes : size \in Nat \ {0} /\ size % 2 = 0
  /\ \A type \in IntegerTypes : ValuesOf(type) \subseteq Numbers

\* SetInt and SetUint keep the bits there is room for.
LowBits(type, n) == CHOOSE m \in ValuesOf(type) : (n - m) % type.size = 0

FieldOfWide(type, fields, name) ==  \* mutant: ParseInt(raw, 10, 64)
  LET raw == {f[2] : f \in {g \in fields : g[1] = name}} IN
  IF raw = {} THEN [ok |-> FALSE]
  ELSE LET text == CHOOSE t \in raw : TRUE IN
       IF type.of = "string" THEN [ok |-> TRUE, text |-> text]
       ELSE IF IsNumber(text) THEN [ok |-> TRUE, n |-> LowBits(type, NumberOf(text))]
       ELSE [ok |-> FALSE]

\* ParseInt and ParseUint take the width of the type, so that what does not fit is
\* no number; a miss has the zero value.
FieldOf(type, fields, name) ==
  LET raw == {f[2] : f \in {g \in fields : g[1] = name}} IN
  IF raw = {} THEN [ok |-> FALSE]
  ELSE LET text == CHOOSE t \in raw : TRUE IN
       IF type.of = "string" THEN [ok |-> TRUE, text |-> text]
       ELSE IF IsNumber(text) /\ NumberOf(text) \in ValuesOf(type)
            THEN [ok |-> TRUE, n |-> LowBits(type, NumberOf(text))]
       ELSE [ok |-> FALSE]

-----------------------------------------------------------------------------
(* Tile38's side: what is the case, and the reply that says so, numbers as *)
(* integers or as text.  No object is no element of "of".                  *)

AsReply(n, typed) == IF typed THEN Num(n) ELSE Text(n)
Yes(q) == Num(IF q.yes THEN 1 ELSE 0)
The(set) == CHOOSE x \in set : TRUE
Words(list) == Arr([i \in DOMAIN list |-> Str(list[i])])

GetValue(format, o) ==
  CASE format = "POINT" -> Coords(o) [] format = "BOUNDS" -> Corners(o)
    [] format = "OBJECT" -> Str(o.id)

GetReply(q) ==
  IF q.of = {} THEN Nil
  ELSE LET o == The(q.of) IN
       IF q.withFields THEN Arr(<<GetValue(q.format, o)>> \o FieldsPart(o))
       ELSE GetValue(q.format, o)

StatsReply(q) ==
  Arr([i \in DOMAIN q.stats |->
    IF ~q.stats[i].exists THEN Nil
    ELSE Arr(FlattenSeq([c \in DOMAIN SetToSeq(Counters) |->
           LET name == SetToSeq(Counters)[c] IN
           <<Str(<<name>>), AsReply(q.stats[i].counters[name], q.typed)>>]))])

ReplyTo(q) ==
  CASE q.cmd = "GET" -> GetReply(q)
    [] q.cmd = "EXISTS" -> Yes(q)
    [] q.cmd = "CLIP" -> Arr(<<Yes(q), Str(q.text)>>)
    [] q.cmd = "TTL" -> Num(IF q.of = {} THEN -2 ELSE IF q.left = {} THEN -1 ELSE The(q.left))
    [] q.cmd = "COUNT" -> AsReply(q.n, q.typed)
    [] q.cmd = "BOUNDS" ->
         IF q.of = {} THEN Nil
         ELSE LET o == The(q.of) IN
              Arr(<<Arr(<<Text(o.lon), Text(o.lat)>>), Arr(<<Text(o.z), Text(o.lat)>>)>>)
    [] q.cmd = "JGET" -> IF q.of = {} THEN Nil ELSE Str(The(q.of).id)
    [] q.cmd = "FGET" -> Str(q.text)
    [] q.cmd = "KEYS" -> Words(q.list)
    [] q.cmd = "SERVER" -> Arr(<<Str(<<"id">>), Str(q.text), Str(<<"num_objects">>), AsReply(q.n, q.typed)>>)
    [] q.cmd = "CONFIG" -> Words(<<q.name, q.text>>)
    [] q.cmd = "STATS" -> StatsReply(q)
    [] q.cmd = "HOOKS" ->
         Arr([i \in DOMAIN q.list |->
           LET h == q.list[i] IN
           Arr(<<Str(h.name), Str(h.key), Words(h.endpoints), Words(h.command)>>
               \o (IF h.meta = {} THEN <<>> ELSE FieldsPart([fields |-> h.meta])))])
    [] q.cmd = "STATUS" -> Simple(<<"OK">>)

Truth(q) ==
  CASE q.cmd = "GET" ->
         IF q.of = {} THEN IDNotFound
         ELSE LET o == The(q.of) IN
              IF q.format = "POINT" THEN Shown("POINTS", o).at
              ELSE IF q.format = "BOUNDS" THEN Shown("BOUNDS", o).box ELSE [text |-> o.id]
    [] q.cmd = "EXISTS" -> [yes |-> q.yes]
    [] q.cmd = "CLIP" -> [yes |-> q.yes, text |-> q.text]
    [] q.cmd = "TTL" -> IF q.of = {} THEN IDNotFound
                        ELSE IF q.left = {} THEN [forever |-> TRUE] ELSE [left |-> The(q.left)]
    [] q.cmd \in {"COUNT", "SERVER"} -> [n |-> q.n]
    [] q.cmd = "BOUNDS" -> IF q.of = {} THEN KeyNotFound ELSE Shown("BOUNDS", The(q.of)).box
    [] q.cmd = "JGET" -> IF q.of = {} THEN IDNotFound ELSE [text |-> The(q.of).id]
    [] q.cmd \in {"FGET", "CONFIG"} -> [text |-> q.text]
    [] q.cmd \in {"KEYS", "HOOKS"} -> [list |-> q.list]
    [] q.cmd = "STATS" ->
         [list |-> [i \in DOMAIN q.keys |-> [key |-> q.keys[i], stats |-> q.stats[i]]]]
    [] q.cmd = "STATUS" -> [done |-> TRUE]

\* A question is one of these, about what there may be.
Texts == Seq(STRING)
Lists == Seq(Texts)
Asked(q) ==
  CASE q.cmd = "GET" -> /\ q.format \in {"POINT", "BOUNDS", "OBJECT"} /\ q.withFields \in BOOLEAN
                        /\ \A o \in q.of : IsObject(o)
    [] q.cmd \in {"EXISTS", "CLIP"} -> q.yes \in BOOLEAN
    [] q.cmd = "TTL" -> q.left \subseteq Nat
    [] q.cmd \in {"COUNT", "SERVER"} -> q.n \in Numbers /\ q.typed \in BOOLEAN
    [] q.cmd \in {"BOUNDS", "JGET"} -> \A o \in q.of : IsObject(o)
    [] q.cmd \in {"FGET", "CONFIG", "STATUS"} -> TRUE
    [] q.cmd = "KEYS" -> q.list \in Lists
    [] q.cmd = "STATS" ->
         /\ q.stats \in Seq([exists : {FALSE}] \cup [exists : {TRUE}, counters : [Counters -> Numbers]])
         /\ q.keys \in Lists /\ Len(q.keys) = Len(q.stats) /\ q.typed \in BOOLEAN
    [] q.cmd = "HOOKS" ->
         /\ q.list \in Seq([name : Texts, key : Texts, endpoints : Lists, command : Lists,
                            meta : SUBSET (Texts \X Texts)])
         /\ \A i \in DOMAIN q.list : IsFields(q.list[i].meta)
    [] OTHER -> FALSE

ASSUME QuestionsAssumption == \A q \in Questions : Asked(q)

-----------------------------------------------------------------------------
Printed(got) == IF "text" \in DOMAIN got THEN got.text ELSE Sym(got.n)

\* The GETs with fields that reply k answers.
Gets(k) == {q \in Questions : q.cmd = "GET" /\ q.withFields /\ q.of # {} /\ sent[k] = ReplyTo(q)}

\* A command returns what is the case: a miss is told from a value however the
\* server reports it, null, -2 or an envelope, corners have their latitude first
\* though BOUNDS has it last, and a counter is that of the collection asked for
\* (management.go:95-118, builders.go:535-569, parse.go:312-315, server.go:128-130).
AnswerDecoded ==
  pc = "idle" /\ Len(results) = 1 =>
    \A q \in Questions : sent[1] = ReplyTo(q) => Answer(q, results[1]) = Truth(q)

\* The fields of a handle are those of the last object it read, with none left of
\* the one before, however often it is used (builders.go:531-533).  One that is read
\* as a type is the value the server has or a miss, never another value, and a miss
\* only when no value of the type is written that way (types.go:72-75).
FieldsExact ==
  pc = "idle" =>
    \A k \in DOMAIN results : \A q \in Gets(k) :
      LET fields == GetFields(TRUE)[k] IN
      /\ fields = The(q.of).fields
      /\ \A type \in Types, f \in fields :
           LET got == FieldOf(type, fields, f[1]) IN
           IF got.ok THEN Printed(got) = f[2]
           ELSE type.of # "string" /\ \A n \in ValuesOf(type) : Sym(n) # f[2]
=============================================================================
