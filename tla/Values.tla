------------------------------- MODULE Values -------------------------------
(***************************************************************************)
(* The parsers of parse.go: from a decoded reply (module Reply) to the     *)
(* results a search returns.  A result is a record; a reply of another     *)
(* shape is Unexpected.                                                    *)
(***************************************************************************)
EXTENDS Reply

CONSTANT Objects  \* objects in the collection: [id, lat, lon, z, fields, dist]

\* Names and texts, each name once.
IsFields(fields) ==
  /\ IsFiniteSet(fields) /\ fields \subseteq Seq(STRING) \X Seq(STRING)
  /\ \A f, g \in fields : f[1] = g[1] => f = g

IsObject(o) == {o.lat, o.lon, o.z, o.dist} \subseteq Numbers /\ IsFields(o.fields)

ASSUME ObjectsAssumption == \A o \in Objects : IsObject(o)

Unexpected == [error |-> "unexpected"]
Failed(x) == "error" \in DOMAIN x

IsArr(v, n) == v.t = "arr" /\ Len(v.of) >= n

\* toInt64 and toFloat64: an integer reply, or a bulk string that reads as one.
IsNum(v) == v.t = "int" \/ (v.t = "str" /\ IsNumber(v.v))
AsNum(v) == IF v.t = "int" THEN v.n ELSE NumberOf(v.v)

\* The cursor and the items.
SearchReply(reply) ==
  IF ~IsArr(reply, 2) THEN Unexpected
  ELSE IF ~IsNum(reply.of[1]) \/ ~IsArr(reply.of[2], 0) THEN Unexpected
  ELSE IF AsNum(reply.of[1]) < 0 THEN Unexpected
  ELSE [cursor |-> AsNum(reply.of[1]), items |-> reply.of[2].of]

FieldString(v) == CASE v.t = "str" -> v.v [] v.t = "int" -> Sym(v.n) [] OTHER -> <<>>

\* Pairs of name and value; what is no list of pairs is no fields, not an error.
ParseFields(v) ==
  IF ~IsArr(v, 1) \/ Len(v.of) % 2 # 0 THEN {}
  ELSE LET names == {i \in DOMAIN v.of : i % 2 = 1} IN
       IF \E i \in names : v.of[i].t # "str" THEN {}
       ELSE {<<v.of[i].v, FieldString(v.of[i + 1])>> : i \in names}

\* The fields of an item of n parts or more, which come third.
FieldsOf(item, n) == IF Len(item.of) >= n THEN ParseFields(item.of[3]) ELSE {}

\* A third ordinate that is not there is zero.
ParseCoords(v) ==
  IF ~IsArr(v, 2) THEN Unexpected
  ELSE IF \E i \in 1..3 : i <= Len(v.of) /\ ~IsNum(v.of[i]) THEN Unexpected
  ELSE [lat |-> AsNum(v.of[1]), lon |-> AsNum(v.of[2]),
        z |-> IF Len(v.of) > 2 THEN AsNum(v.of[3]) ELSE 0]

HasId(item, n) == IsArr(item, n) /\ item.of[1].t = "str"

ParseId(item) == IF item.t = "str" THEN [id |-> item.v] ELSE Unexpected

ParsePoint(item) ==
  IF ~HasId(item, 2) THEN Unexpected
  ELSE IF Failed(ParseCoords(item.of[2])) THEN Unexpected
  ELSE [id |-> item.of[1].v, at |-> ParseCoords(item.of[2]), fields |-> FieldsOf(item, 3)]

ParseDistanceThird(item) ==  \* mutant: the distance is looked for at a fixed place
  IF ~HasId(item, 3) THEN Unexpected
  ELSE IF Failed(ParseCoords(item.of[2])) \/ ~IsNum(item.of[3]) THEN Unexpected
  ELSE [id |-> item.of[1].v, at |-> ParseCoords(item.of[2]), fields |-> FieldsOf(item, 4),
        dist |-> AsNum(item.of[3])]

\* The distance is at the end, behind fields that may not be there.
ParseDistance(item) ==
  IF ~HasId(item, 3) THEN Unexpected
  ELSE IF Failed(ParseCoords(item.of[2])) \/ ~IsNum(Last(item.of)) THEN Unexpected
  ELSE [id |-> item.of[1].v, at |-> ParseCoords(item.of[2]), fields |-> FieldsOf(item, 4),
        dist |-> AsNum(Last(item.of))]

\* OBJECTS, STRINGS, HASHES; A5 is the same and drops the fields.
ParseStringItem(item) ==
  IF ~HasId(item, 2) THEN Unexpected
  ELSE IF item.of[2].t # "str" THEN Unexpected
  ELSE [id |-> item.of[1].v, text |-> item.of[2].v, fields |-> FieldsOf(item, 3)]

ParseA5(item) ==
  LET r == ParseStringItem(item) IN
  IF Failed(r) THEN r ELSE [id |-> r.id, text |-> r.text]

\* Two corners, latitude first except in the reply to BOUNDS key.
ParseBounds(reply, lonFirst) ==
  LET Corner(v) == IF ~IsArr(v, 2) THEN Unexpected
                   ELSE IF ~IsNum(v.of[1]) \/ ~IsNum(v.of[2]) THEN Unexpected
                   ELSE LET a == AsNum(v.of[1])
                            b == AsNum(v.of[2]) IN
                        [at |-> IF lonFirst THEN <<b, a>> ELSE <<a, b>>] IN
  IF ~IsArr(reply, 2) THEN Unexpected
  ELSE IF Failed(Corner(reply.of[1])) \/ Failed(Corner(reply.of[2])) THEN Unexpected
  ELSE [sw |-> Corner(reply.of[1]).at, ne |-> Corner(reply.of[2]).at]

ParseRect(item) ==
  IF ~HasId(item, 2) THEN Unexpected
  ELSE LET box == ParseBounds(item.of[2], FALSE) IN
       IF Failed(box) THEN Unexpected
       ELSE [id |-> item.of[1].v, box |-> box, fields |-> FieldsOf(item, 3)]

ParseItem(format, item) ==
  CASE format = "IDS" -> ParseId(item)
    [] format = "POINTS" -> ParsePoint(item)
    [] format = "DISTANCE" -> ParseDistance(item)
    [] format = "OBJECTS" -> ParseStringItem(item)
    [] format = "A5" -> ParseA5(item)
    [] format = "BOUNDS" -> ParseRect(item)

\* The decoder each output format carries; an item that fails fails them all.
Decode(format, reply) ==
  LET page == SearchReply(reply) IN
  IF Failed(page) THEN page
  ELSE LET read == [i \in DOMAIN page.items |-> ParseItem(format, page.items[i])] IN
       IF \E i \in DOMAIN read : Failed(read[i]) THEN Unexpected
       ELSE [page EXCEPT !.items = read]

-----------------------------------------------------------------------------
(* Tile38's side, as the comments of parse.go have it: coordinates and       *)
(* distances are bulk strings, a zero z and an empty list of fields are left *)
(* out, and A5 has no fields.                                                *)

Text(n) == Str(Sym(n))
Coords(o) == Arr(<<Text(o.lat), Text(o.lon)>> \o (IF o.z = 0 THEN <<>> ELSE <<Text(o.z)>>))
FieldsPart(o) == IF o.fields = {} THEN <<>>
                 ELSE <<Arr(FlattenSeq([i \in DOMAIN SetToSeq(o.fields) |->
                          LET f == SetToSeq(o.fields)[i] IN <<Str(f[1]), Str(f[2])>>]))>>
Corners(o) == Arr(<<Arr(<<Text(o.lat), Text(o.lon)>>), Arr(<<Text(o.lat), Text(o.z)>>)>>)

Item(format, o) ==
  CASE format = "IDS" -> Str(o.id)
    [] format = "POINTS" -> Arr(<<Str(o.id), Coords(o)>> \o FieldsPart(o))
    [] format = "DISTANCE" -> Arr(<<Str(o.id), Coords(o)>> \o FieldsPart(o) \o <<Text(o.dist)>>)
    [] format = "OBJECTS" -> Arr(<<Str(o.id), Str(o.id)>> \o FieldsPart(o))
    [] format = "A5" -> Arr(<<Str(o.id), Str(o.id)>>)
    [] format = "BOUNDS" -> Arr(<<Str(o.id), Corners(o)>> \o FieldsPart(o))

PageOf(format, objects, cursor) ==
  Arr(<<Num(cursor), Arr([i \in DOMAIN objects |-> Item(format, objects[i])])>>)

\* What a caller should see of an object.
Shown(format, o) ==
  CASE format = "IDS" -> [id |-> o.id]
    [] format = "POINTS" -> [id |-> o.id, at |-> [lat |-> o.lat, lon |-> o.lon, z |-> o.z],
                             fields |-> o.fields]
    [] format = "DISTANCE" -> [id |-> o.id, at |-> [lat |-> o.lat, lon |-> o.lon, z |-> o.z],
                               fields |-> o.fields, dist |-> o.dist]
    [] format = "OBJECTS" -> [id |-> o.id, text |-> o.id, fields |-> o.fields]
    [] format = "A5" -> [id |-> o.id, text |-> o.id]
    [] format = "BOUNDS" -> [id |-> o.id, fields |-> o.fields,
                             box |-> [sw |-> <<o.lat, o.lon>>, ne |-> <<o.lat, o.z>>]]

Outputs == {"IDS", "POINTS", "DISTANCE", "OBJECTS", "A5", "BOUNDS"}
Pages == UNION {[1..n -> Objects] : n \in 0..2}
Cursors == {0, 7}

\* Whatever is left out of an item, its place, its fields and its distance come to
\* the caller as the server has them, and the cursor with them, however the reply
\* was cut up (parse.go:34-36, 56-59, 89-92, 227-239).
PageDecoded ==
  pc = "idle" /\ Len(results) = 1 =>
    \A f \in Outputs, p \in Pages, c \in Cursors :
      sent[1] = PageOf(f, p, c) =>
        Decode(f, results[1]) = [cursor |-> c, items |-> [i \in DOMAIN p |-> Shown(f, p[i])]]
=============================================================================
