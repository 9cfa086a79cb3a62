------------------------------ MODULE Builders ------------------------------
(***************************************************************************)
(* How the builders of builders.go, intersects.go, channel.go and          *)
(* geometry.go assemble the commands NEARBY, WITHIN, INTERSECTS, SCAN,     *)
(* SEARCH, SETHOOK, SETCHAN, TEST, SET and FSET, whatever order their      *)
(* methods are chained in, across format switches, and how a Pipeline      *)
(* queues SETs and flushes them.                                           *)
(*                                                                         *)
(* A command is a sequence of clauses, a clause the keyword and its        *)
(* operands.  Clauses that may be repeated are appended to a Go slice      *)
(* (args) and everything else is kept in a slot that the next call         *)
(* overwrites.  A slice is a place in an array that others may refer to,   *)
(* those in the queue of a pipeline among them.                            *)
(***************************************************************************)
EXTENDS Naturals, SequencesExt, FiniteSets

CONSTANTS
  Handles,  \* the builder values a program holds
  Arrays,   \* backing arrays of the args slices
  Unset,    \* the zero value of a slot
  Used,     \* bound: the filters, areas and formats the program uses
  Targets,  \* the endpoints it gives a hook: a sequence of [url, meant]
  MaxEndpoints,  \* bound: the endpoints of a hook
  MaxCalls  \* bound: methods chained, over all handles

ASSUME BuildersAssumption ==
  /\ MaxCalls \in Nat /\ MaxEndpoints \in Nat
  /\ IsFiniteSet(Handles) /\ IsFiniteSet(Arrays)
  /\ Cardinality(Arrays) > Cardinality(Handles) + MaxCalls \div 2

VARIABLES
  verb,   \* which builder a handle is, Unset before it exists
  slot,   \* what overwrites: [Handles -> [Slots -> value]]
  args,   \* what accumulates: a slice, [at, len]
  mem,    \* the arrays
  cap,    \* their capacities
  calls,  \* methods called so far
  added,  \* filters among them
  queue,  \* the slices a pipeline has queued
  \* history: the clauses each handle was asked to add, as a format switch copies them
  asked,
  \* history: the commands as they were when queued, and those handed to the pool
  queued, handed

pipeVars == <<queue, queued, handed>>
vars == <<verb, slot, args, mem, cap, calls, added, asked, pipeVars>>

Url == INSTANCE Endpoint

ASSUME TargetsAssumption == \A t \in DOMAIN Targets : Url!Addresses(Targets[t])

\* What the constructors write themselves is text, which TLC knows and the provers do not.
ASSUME LiteralsAssumption == {":", ",", "4222", "token"} \subseteq STRING

Spatial == {"NEARBY", "WITHIN", "INTERSECTS"}
Plain == {"SCAN", "SEARCH"}
Hooks == {"SETHOOK", "SETCHAN"}
\* A SET of a Client, and one of a Pipeline.
Objects == {"SET", "FSET", "PSET"}
Verbs == Spatial \cup Plain \cup Hooks \cup Objects \cup {"TEST"}

-----------------------------------------------------------------------------
(* Which methods a builder type has: its slots and the areas, formats and   *)
(* filters it offers.                                                       *)

QuerySlots == {"limit", "cursor", "nofields"}
FenceSlots == {"detect", "commands", "distance"}

NearbyOffers ==
  [slots |-> QuerySlots \cup FenceSlots \cup {"sparse", "radius", "nodwell"},
   areas |-> {"POINT", "ROAM"},
   filters |-> {"WHERE", "MATCH", "WHEREIN", "WHEREEVAL", "WHEREEVALSHA"}]

NearbyFormats == {"IDS", "POINTS", "DISTANCE", "OBJECTS", "BOUNDS", "HASHES", "A5"}

ScanOffers ==
  [slots |-> QuerySlots \cup {"order"}, areas |-> {},
   filters |-> {"WHERE", "MATCH", "WHEREIN", "WHEREEVAL", "WHEREEVALSHA"}]

ScanFormats == {"IDS", "POINTS", "OBJECTS", "BOUNDS", "HASHES", "A5"}

SearchOffers ==
  [slots |-> QuerySlots \cup {"order"}, areas |-> {},
   filters |-> {"WHERE", "MATCH", "WHEREIN", "WHEREEVAL", "WHEREEVALSHA"}]

SearchFormats == {"IDS", "STRINGS"}

WithinOffers ==
  [slots |-> QuerySlots \cup FenceSlots \cup {"sparse", "clip"},
   areas |-> {"GET", "OBJECT", "BOUNDS", "CIRCLE", "A5", "SECTOR", "HASH", "QUADKEY", "TILE"},
   filters |-> {"WHERE", "MATCH", "WHEREIN", "WHEREEVAL", "WHEREEVALSHA", "BUFFER"}]

WithinFormats == {"IDS", "POINTS", "OBJECTS", "BOUNDS", "HASHES", "A5"}

IntersectsOffers ==
  [slots |-> QuerySlots \cup FenceSlots \cup {"sparse", "clip"},
   areas |-> {"GET", "OBJECT", "BOUNDS", "CIRCLE", "A5", "SECTOR", "HASH", "QUADKEY", "TILE"},
   filters |-> {"WHERE", "MATCH", "WHEREIN", "WHEREEVAL", "WHEREEVALSHA", "BUFFER"}]

IntersectsFormats == {"IDS", "POINTS", "OBJECTS", "BOUNDS", "HASHES", "A5"}

ChanOffers ==
  [slots |-> FenceSlots \cup {"nodwell", "radius", "ex", "trigger"},
   areas |-> {"ROAM", "BOUNDS", "CIRCLE", "POINT", "OBJECT", "SECTOR", "HASH", "QUADKEY", "GET"},
   filters |-> {"WHERE", "META"}]

HookOffers == [ChanOffers EXCEPT !.filters = @ \cup {"MATCH", "ENDPOINT"}]

\* Everything a SET is given is appended, in the order of the calls.
SetOffers == [slots |-> {}, areas |-> {},
              filters |-> {"EX", "NX", "XX", "FIELD", "POINT", "OBJECT", "BOUNDS", "HASH", "STRING"}]
FSetOffers == [slots |-> {}, areas |-> {}, filters |-> {"FIELD"}]
PipelineSetOffers == [slots |-> {}, areas |-> {}, filters |-> {"EX", "FIELD", "POINT"}]

TestOffers ==
  [slots |-> {}, filters |-> {},
   areas |-> {"POINT", "BOUNDS", "CIRCLE", "SECTOR", "OBJECT", "GET", "HASH", "QUADKEY", "TILE"}]

Offers(v) == CASE v = "NEARBY" -> NearbyOffers
               [] v = "WITHIN" -> WithinOffers
               [] v = "INTERSECTS" -> IntersectsOffers
               [] v = "SCAN" -> ScanOffers
               [] v = "SEARCH" -> SearchOffers
               [] v = "SETHOOK" -> HookOffers
               [] v = "SETCHAN" -> ChanOffers
               [] v = "SET" -> SetOffers
               [] v = "FSET" -> FSetOffers
               [] v = "PSET" -> PipelineSetOffers
               [] v = "TEST" -> TestOffers

Formats(v) == CASE v = "NEARBY" -> NearbyFormats
                [] v = "WITHIN" -> WithinFormats
                [] v = "INTERSECTS" -> IntersectsFormats
                [] v = "SCAN" -> ScanFormats
                [] v = "SEARCH" -> SearchFormats
                [] OTHER -> {}

Slots == {"limit", "cursor", "sparse", "order", "nofields", "clip", "detect", "commands",
          "distance", "nodwell", "ex", "trigger", "radius", "area", "format", "first"}

\* What a slot may hold; a number stands for any number.
Holds(v, s) ==
  CASE s = "order" -> {"ASC", "DESC"}
    [] s = "trigger" -> Spatial
    [] s = "area" -> Offers(v).areas \cap Used
    [] s = "format" -> Formats(v) \cap Used
    [] OTHER -> {"x"}

ASSUME UnsetAssumption ==
  Unset \notin Verbs /\ \A v \in Verbs, s \in Slots : Unset \notin Holds(v, s)

-----------------------------------------------------------------------------
(* Slices.  Appending writes into the array when there is room after the    *)
(* slice, over what may be there, and otherwise copies to a larger one,     *)
(* whose size is up to the runtime.                                         *)

Contents(s) == SubSeq(mem[s.at], 1, s.len)
Held(handles) == {args[h].at : h \in {x \in handles : verb[x] # Unset}}
Queued(q) == {q[i].at : i \in DOMAIN q}

\* A new array: one nobody refers to, whichever.
Fresh == CHOOSE a \in Arrays : a \notin Held(Handles) \cup Queued(queue)

\* An array that only h had, and h leaves.
Garbage(a, h) == a \notin Held(Handles \ {h}) \cup Queued(queue)

CloneShares(to, s) ==  \* mutant: the header is copied, the array shared
  /\ args' = [args EXCEPT ![to] = s]
  /\ UNCHANGED <<mem, cap>>

\* slices.Clone: an array of one's own.
Clone(to, s) ==
  \E n \in {s.len, s.len + 1} :
    /\ args' = [args EXCEPT ![to] = [at |-> Fresh, len |-> s.len]]
    /\ mem' = [mem EXCEPT ![Fresh] = Contents(s)]
    /\ cap' = [cap EXCEPT ![Fresh] = n]

AppendTo(h, clause) ==
  LET s == args[h] IN
  IF s.len < cap[s.at]
  THEN /\ mem' = [mem EXCEPT ![s.at] = SubSeq(@, 1, s.len) \o <<clause>>
                                         \o SubSeq(@, s.len + 2, Len(@))]
       /\ args' = [args EXCEPT ![h].len = @ + 1]
       /\ UNCHANGED cap
  ELSE \E n \in {s.len + 1, s.len + 2} :
       /\ args' = [args EXCEPT ![h] = [at |-> Fresh, len |-> s.len + 1]]
       /\ mem' = [x \in Arrays |-> IF x = Fresh THEN Append(Contents(s), clause)
                                   ELSE IF Garbage(x, h) THEN <<>> ELSE mem[x]]
       /\ cap' = [x \in Arrays |-> IF x = Fresh THEN n ELSE IF Garbage(x, h) THEN 0 ELSE cap[x]]

\* The clauses with these keywords.
Only(clauses, words) ==
  LET kept[i \in 0..Len(clauses)] ==
        IF i = 0 THEN <<>>
        ELSE IF clauses[i][1] \in words THEN Append(kept[i - 1], clauses[i]) ELSE kept[i - 1] IN
  kept[Len(clauses)]

-----------------------------------------------------------------------------
(* The methods.                                                             *)

NoSlots == [s \in Slots |-> Unset]

\* What Nearby, Within, Intersects, Scan, Search, SetHook, SetChan, Set, FSet and
\* Test of Client begin with.
Begun(v) ==
  CASE v \in Spatial \cup Plain -> {[NoSlots EXCEPT !["format"] = "IDS"]}
    [] v = "TEST" -> {[NoSlots EXCEPT !["first"] = a] : a \in Holds(v, "area")}
    [] OTHER -> {NoSlots}

Init ==
  \E h \in Handles, v \in Verbs : \E begun \in Begun(v) :
    /\ verb = [x \in Handles |-> IF x = h THEN v ELSE Unset]
    /\ slot = [x \in Handles |-> IF x = h THEN begun ELSE NoSlots]
    /\ args = [x \in Handles |-> [at |-> CHOOSE a \in Arrays : TRUE, len |-> 0]]
    /\ mem = [x \in Arrays |-> <<>>]
    /\ cap = [x \in Arrays |-> 0]
    /\ calls = 0
    /\ added = 0
    /\ asked = [x \in Handles |-> <<>>]
    /\ queue = <<>> /\ queued = <<>> /\ handed = <<>>

Calls(h) == verb[h] # Unset /\ calls < MaxCalls /\ calls' = calls + 1

SetAppends(h) ==  \* mutant: Limit appended like a filter
  /\ Calls(h)
  /\ "limit" \in Offers(verb[h]).slots
  /\ AppendTo(h, <<"LIMIT", "x">>)
  /\ UNCHANGED <<verb, slot, added, asked, pipeVars>>

\* Limit, Cursor, Asc, Detect, Distance, Radius, EX, Nearby and the like.
Set(h) ==
  /\ Calls(h)
  /\ \E s \in Offers(verb[h]).slots : \E v \in Holds(verb[h], s) :
       slot' = [slot EXCEPT ![h][s] = v]
  /\ UNCHANGED <<verb, args, mem, cap, added, asked, pipeVars>>

\* Point, Roam, Bounds, Circle, ...
Area(h) ==
  /\ Calls(h) /\ verb[h] # "TEST"
  /\ \E a \in Holds(verb[h], "area") : slot' = [slot EXCEPT ![h]["area"] = a]
  /\ UNCHANGED <<verb, args, mem, cap, added, asked, pipeVars>>

\* Within and Intersects of a TEST.
Compare(h) ==
  /\ Calls(h) /\ verb[h] = "TEST"
  /\ \E a \in Holds("TEST", "area"), relation \in {"WITHIN", "INTERSECTS"} :
       slot' = [slot EXCEPT ![h]["area"] = a, ![h]["trigger"] = relation]
  /\ UNCHANGED <<verb, args, mem, cap, added, asked, pipeVars>>

\* What Add(h) may append for a word; the number tells calls apart.
Clauses(h, w) ==
  IF w # "ENDPOINT" THEN {<<w, added + 1>>}
  ELSE IF Len(Only(asked[h], {w})) = MaxEndpoints THEN {}
  ELSE {<<w, added + 1, t>> : t \in DOMAIN Targets}

\* Where, Match, WhereIn, Buffer, Meta, EndpointURL, Field, ...; an EX of no seconds
\* is none.
Add(h) ==
  /\ Calls(h)
  /\ \E w \in Offers(verb[h]).filters \cap Used : \E clause \in Clauses(h, w) :
       /\ AppendTo(h, clause)
       /\ asked' = [asked EXCEPT ![h] = Append(@, clause)]
  /\ added' = added + 1
  /\ UNCHANGED <<verb, slot, pipeVars>>

\* IDs, Points, Objects, ...: a builder of another type over a clone.
Switch(h, to) ==
  /\ Calls(h) /\ verb[to] = Unset
  /\ \E f \in Formats(verb[h]) \cap Used : slot' = [slot EXCEPT ![to] = [slot[h] EXCEPT !["format"] = f]]
  /\ Clone(to, args[h])
  /\ verb' = [verb EXCEPT ![to] = verb[h]]
  /\ asked' = [asked EXCEPT ![to] = asked[h]]
  /\ UNCHANGED <<added, pipeVars>>

-----------------------------------------------------------------------------
(* The pipeline that PSET handles are of.                                   *)

\* Pipeline.Set.
PipelineSet(h) ==
  /\ verb[h] = Unset /\ \E g \in Handles : verb[g] = "PSET" /\ Calls(g)
  /\ verb' = [verb EXCEPT ![h] = "PSET"]
  /\ args' = [args EXCEPT ![h] = [at |-> Fresh, len |-> 0]]
  /\ UNCHANGED <<slot, mem, cap, added, asked, pipeVars>>

QueueReuses(h) ==  \* mutant: the handle goes on in the array it has queued
  /\ verb[h] = "PSET" /\ Calls(h)
  /\ queue' = Append(queue, args[h]) /\ queued' = Append(queued, Contents(args[h]))
  /\ args' = [args EXCEPT ![h].len = 0] /\ asked' = [asked EXCEPT ![h] = <<>>]
  /\ UNCHANGED <<verb, slot, mem, cap, added, handed>>

\* The slice is queued, not what it holds; the handle may go on.
Queue(h) ==
  /\ verb[h] = "PSET" /\ Calls(h)
  /\ queue' = Append(queue, args[h]) /\ queued' = Append(queued, Contents(args[h]))
  /\ UNCHANGED <<verb, slot, args, mem, cap, added, asked, handed>>

\* DoPipeline (module Pool) is handed the queue, which is empty by then.
Flush(h) ==
  /\ verb[h] = "PSET" /\ queue # <<>> /\ Calls(h)
  /\ handed' = handed \o [i \in DOMAIN queue |-> Contents(queue[i])]
  /\ queue' = <<>>
  /\ mem' = [a \in Arrays |-> IF a \in Held(Handles) THEN mem[a] ELSE <<>>]
  /\ cap' = [a \in Arrays |-> IF a \in Held(Handles) THEN cap[a] ELSE 0]
  /\ UNCHANGED <<verb, slot, args, added, asked, queued>>

Next == \E h \in Handles : \/ Set(h) \/ Area(h) \/ Compare(h) \/ Add(h)
                           \/ \E to \in Handles : Switch(h, to)
                           \/ PipelineSet(h) \/ Queue(h) \/ Flush(h)

Spec == Init /\ [][Next]_vars

-----------------------------------------------------------------------------
(* The commands the terminals send.                                        *)

\* A clause if the slot is set: its keyword, with the operand or alone.
With(o, s, word) == IF o[s] = Unset THEN <<>> ELSE << <<word, o[s]>> >>
Flag(o, s, word) == IF o[s] = Unset THEN <<>> ELSE << <<word>> >>
Bare(o, s) == IF o[s] = Unset THEN <<>> ELSE << <<o[s]>> >>

\* searchOpts.tokens
OptionTokens(o) ==
  With(o, "cursor", "CURSOR") \o With(o, "limit", "LIMIT") \o With(o, "sparse", "SPARSE")
  \o Bare(o, "order") \o Flag(o, "nofields", "NOFIELDS") \o Flag(o, "clip", "CLIP")

FenceOptsKeep(o) == o  \* mutant: the cursor is not dropped
FenceOpts(o) == [o EXCEPT !["cursor"] = Unset]

FenceTokens(o) ==
  Flag(o, "distance", "DISTANCE") \o << <<"FENCE">> >> \o Flag(o, "nodwell", "NODWELL")
  \o With(o, "detect", "DETECT") \o With(o, "commands", "COMMANDS")

\* DISTANCE comes before POINTS, HASHES and A5 carry a number, STRINGS is silence.
FormatTokens(f) ==
  CASE f = "DISTANCE" -> << <<"DISTANCE">>, <<"POINTS">> >>
    [] f \in {"HASHES", "A5"} -> << <<f, "x">> >>
    [] f = "STRINGS" -> <<>>
    [] OTHER -> << <<f>> >>

\* How many operands an area has.
Operands(a) == CASE a \in {"OBJECT", "A5", "HASH", "QUADKEY"} -> 1
                 [] a \in {"GET", "POINT"} -> 2
                 [] a \in {"ROAM", "CIRCLE", "TILE"} -> 3
                 [] a = "BOUNDS" -> 4
                 [] a = "SECTOR" -> 5

AreaClause(a, n) == << <<a>> \o [i \in 1..n |-> "x"] >>

PointGeometryAlways(h) ==  \* mutant: the radius goes onto any area
  LET a == slot[h]["area"] IN
  IF a = Unset THEN <<>>
  ELSE AreaClause(a, Operands(a) + (IF slot[h]["radius"] # Unset THEN 1 ELSE 0))

PointGeometry(h) ==
  LET a == slot[h]["area"] IN
  IF a = Unset THEN <<>>
  ELSE AreaClause(a, Operands(a) + (IF a = "POINT" /\ slot[h]["radius"] # Unset THEN 1 ELSE 0))

BuildSearch(head, options, fence, format, area) == head \o options \o fence \o format \o area

SearchHead(h) == << <<verb[h]>> >> \o Contents(args[h])

ExecArgs(h) == BuildSearch(SearchHead(h), OptionTokens(slot[h]), <<>>,
                           FormatTokens(slot[h]["format"]), PointGeometry(h))
CountArgs(h) == BuildSearch(SearchHead(h), OptionTokens(slot[h]), <<>>, << <<"COUNT">> >>,
                            PointGeometry(h))
FenceArgs(h) == BuildSearch(SearchHead(h), OptionTokens(FenceOpts(slot[h])), FenceTokens(slot[h]),
                            <<>>, PointGeometry(h))

\* The fields meta, endpoints and args of a fenceState, which no other builder
\* shares, are one slice here.
Collected(h, words) == Only(Contents(args[h]), words)

\* The operand of SETHOOK, strings.Join of the endpoints: by their numbers in
\* Targets, and as the text it is.
Endpoints(h) ==
  LET given == Collected(h, {"ENDPOINT"}) IN [i \in DOMAIN given |-> given[i][3]]
EndpointArgument(to) == Url!JoinWith([i \in DOMAIN to |-> Targets[to[i]].url], ",")

HookHead(h) == << IF verb[h] = "SETHOOK" THEN <<verb[h], Endpoints(h)>> ELSE <<verb[h]>> >>
               \o Collected(h, {"META"}) \o With(slot[h], "ex", "EX")

BuildFence(h) ==
  BuildSearch(HookHead(h) \o Bare(slot[h], "trigger") \o Collected(h, {"WHERE", "MATCH"}), <<>>,
              FenceTokens(slot[h]), <<>>, PointGeometry(h))

\* TEST with its areas in their places, whenever they were given.
TestArgs(h, clip) ==
  << <<"TEST">> \o AreaClause(slot[h]["first"], Operands(slot[h]["first"]))[1] >>
  \o << <<slot[h]["trigger"]>> >> \o (IF clip THEN << <<"CLIP">> >> ELSE <<>>)
  \o AreaClause(slot[h]["area"], Operands(slot[h]["area"]))

\* SET, FSET and a SET that is queued.
SetArgs(h) == << <<verb[h]>> >> \o Contents(args[h])

\* Everything a handle could send now, but a TEST whose relation is not given yet.
Queries(h) == IF verb[h] \in Spatial \cup Plain THEN {ExecArgs(h), CountArgs(h)} ELSE {}
Tests(h) == IF verb[h] = "TEST" /\ slot[h]["trigger"] # Unset
            THEN {TestArgs(h, clip) : clip \in BOOLEAN} ELSE {}
Writes(h) == IF verb[h] \in Objects THEN {SetArgs(h)} ELSE {}
Fences(h) == IF verb[h] \in Hooks THEN {BuildFence(h)}
             ELSE IF verb[h] \in Spatial THEN {FenceArgs(h)} ELSE {}
Sendable(h) == IF verb[h] = Unset THEN {} ELSE Queries(h) \cup Fences(h) \cup Tests(h)

-----------------------------------------------------------------------------
(* What Tile38 reads, as the comments of builders.go tell it.              *)

Filters == {"WHERE", "MATCH", "WHEREIN", "WHEREEVAL", "WHEREEVALSHA", "BUFFER"}
Options == {"CURSOR", "LIMIT", "SPARSE", "ASC", "DESC", "NOFIELDS", "CLIP"}
FenceWords == {"NODWELL", "DETECT", "COMMANDS"}
Outputs == {"IDS", "POINTS", "OBJECTS", "BOUNDS", "HASHES", "A5", "COUNT"}

\* Options and filters come in any order, within the order of these stages.
Stages ==
  <<Hooks \cup {"TEST"}, {"META", "EX"}, Spatial \cup Plain, Filters \cup Options, {"DISTANCE"},
    {"FENCE"}, FenceWords, Outputs>>
Stage(word) == CHOOSE k \in DOMAIN Stages : word \in Stages[k]

Repeatable == Filters \cup {"META"}

\* The area comes last; BOUNDS and A5 are an area there and an output before.
Body(h, cmd) == IF slot[h]["area"] = Unset THEN cmd ELSE Front(cmd)
Says(h, cmd) == {Body(h, cmd)[i][1] : i \in DOMAIN Body(h, cmd)}

-----------------------------------------------------------------------------
\* Each terminal sends the filters its own chain asked for, all of them, in order,
\* and no other's, and a SET everything it was given: "two typed handles never
\* mutate one another" (builders.go:150-153, 168-178, 352-353).
OwnFilters ==
  /\ \A h \in Handles : \A cmd \in Writes(h) : Tail(cmd) = asked[h]
  /\ \A h \in Handles : \A cmd \in Sendable(h) :
       \A words \in {Filters, {"META"}} : Only(Body(h, cmd), words) = Only(asked[h], words)

\* Whatever order the methods are chained in, and however often, the clauses come
\* in the order the parser wants, and none twice that it takes once
\* (builders.go:74-78, 134-137).
OnceInOrder ==
  \A h \in Handles : \A cmd \in Sendable(h) :
    LET body == Body(h, cmd) IN
    \A i, j \in DOMAIN body : i < j =>
      /\ Stage(body[i][1]) <= Stage(body[j][1])
      /\ body[i][1] = body[j][1] => body[i][1] \in Repeatable

\* A fence has no cursor and no output format; a query has no part of a fence,
\* and a distance only as part of its output (builders.go:88-90, 328-331).
FenceOrQuery ==
  \A h \in Handles :
    /\ \A cmd \in Fences(h) : /\ "FENCE" \in Says(h, cmd)
                              /\ Says(h, cmd) \cap (Outputs \cup {"CURSOR"}) = {}
    /\ \A cmd \in Queries(h) :
         /\ Says(h, cmd) \cap (FenceWords \cup {"FENCE"}) = {}
         /\ "DISTANCE" \in Says(h, cmd) => "POINTS" \in Says(h, cmd)

\* The area a command ends with has the operands its keyword takes: the radius of
\* a POINT is not added to an area that replaced it (builders.go:304-306).
AreaWhole ==
  \A h \in Handles : \A cmd \in Sendable(h) :
    slot[h]["area"] # Unset =>
      LET area == Last(cmd)
          n == Len(area) - 1 IN
      \/ n = Operands(area[1])
      \/ area[1] = "POINT" /\ n = 3

\* What is queued is handed to the pool as it was when it was queued, in order and
\* once, whatever its handle and others do afterwards: no batch is sent twice, one
\* that failed among them, and none takes over a filter added since
\* (builders.go:1713-1747, 1786-1789).
PipelineExact == handed \o [i \in DOMAIN queue |-> Contents(queue[i])] = queued

\* Tile38 takes the one argument of SETHOOK apart into the endpoints the hook was
\* given, each with the host, path and options that were meant: the commas of a
\* broker list, and what a path or an option has of separators, come through
\* (builders.go:1679-1691, endpoint.go:50-53, 158-160, 381-383).
EndpointsArrive ==
  \A h \in Handles : verb[h] = "SETHOOK" =>
    LET want == Only(asked[h], {"ENDPOINT"}) IN
    want = <<>> \/ Url!Received(EndpointArgument(BuildFence(h)[1][2])) = [i \in DOMAIN want |-> Targets[want[i][3]].meant]
=============================================================================
