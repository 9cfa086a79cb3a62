------------------------------- MODULE Search -------------------------------
(***************************************************************************)
(* Paging in the search builders of tile38.go (builders.go): Do, Iter,     *)
(* NextCursor, Cursor, Limit and the format switches, for one goroutine    *)
(* that holds several builders.  The five verbs share this code through    *)
(* searchState, searchDo and searchIter.                                   *)
(*                                                                         *)
(* Iter calls back into its caller: between two results the body of the    *)
(* range runs, which may use any builder, range over another one, or leave.*)
(* The ranges under way form a stack.  The objects of the collection are   *)
(* 1, 2, ... in the order the server scans them.                           *)
(***************************************************************************)
EXTENDS Integers, Sequences, FiniteSets

CONSTANTS
  Builders,   \* the builder values a program holds
  States,     \* searchState objects; a builder points to one
  Cap,        \* results in a page without LIMIT; 100 in Tile38
  Cursors,    \* arguments of Cursor
  Limits,     \* arguments of Limit
  Unset,      \* the nil pointer of an option
  MaxSize,    \* bound: objects in the collection
  MaxDepth,   \* bound: ranges within ranges
  Reentrant   \* whether the body of a range uses the builder it ranges over

ASSUME SearchAssumption ==
  /\ Cap \in Nat \ {0} /\ Cursors \subseteq Nat /\ Limits \subseteq Nat /\ Unset \notin Nat
  /\ MaxSize \in Nat /\ MaxDepth \in Nat /\ Reentrant \in BOOLEAN
  /\ Cardinality(States) >= Cardinality(Builders)

VARIABLES
  ref,     \* the searchState of each builder, Unset before it exists
  cursor,  \* opts.cursor of each searchState
  limit,   \* opts.limit
  out,     \* cursorOut
  stack,   \* the ranges under way, innermost last
  size,    \* the collection
  \* history: the cursor its caller gave each builder
  mine

optVars == <<ref, limit, mine>>
vars == <<optVars, cursor, out, stack, size>>

\* A range: its searchState, what searchIter keeps on its stack, the rest of the
\* page, and, as history, the object it yielded last, the pages it asked for (2
\* standing for more), the size of the collection when it began, the cursor its
\* caller had set.
Frames == [s : States, start : Nat \cup {Unset}, bounded : BOOLEAN,
           phase : {"fetch", "items", "body", "error"},
           items : Seq(Nat), last : Nat, pages : 0..2,
           size0 : Nat, asked : Cursors \cup {Unset}]

Top == stack[Len(stack)]
Within(phase) == stack # <<>> /\ Top.phase = phase
Below == SubSeq(stack, 1, Len(stack) - 1)

Ranged == {stack[i].s : i \in DOMAIN stack}

\* The caller has control: outside all ranges, or in the body of the innermost.
CallerRuns == stack # <<>> => Top.phase \in {"body", "error"}
May(b) == /\ CallerRuns /\ ref[b] # Unset
          /\ Reentrant \/ ref[b] \notin Ranged

\* One builder, fresh from Scan or another verb; more come of format switches.
Init ==
  /\ \E b \in Builders, s \in States :
       ref = [x \in Builders |-> IF x = b THEN s ELSE Unset]
  /\ cursor = [s \in States |-> Unset]
  /\ limit = [s \in States |-> Unset]
  /\ out = [s \in States |-> 0]
  /\ stack = <<>>
  /\ size \in 0..MaxSize
  /\ mine = [b \in Builders |-> Unset]

-----------------------------------------------------------------------------
(* A page.                                                                 *)

Offset(n) == IF n = Unset THEN 0 ELSE n

\* The objects from the cursor on, up to LIMIT (none, says the client, when it is
\* zero) or the cap, and the cursor to resume at: 0 unless the scan stopped at the
\* limit, which it also does when the last object is the last the limit allows.
Replies(s) ==
  LET from == Offset(cursor[s])
      n == IF limit[s] \in {Unset, 0} THEN Cap ELSE limit[s]
      to == IF from + n <= size THEN from + n ELSE size
      resumeAt == IF from + n < size THEN {to}
                  ELSE IF from + n = size THEN {0, to} ELSE {0} IN
  [items : {[i \in 1..(to - from) |-> from + i]}, next : resumeAt]

\* searchDo records the cursor of a reply it could decode and of no other.
Receives(s, reply) == out' = [out EXCEPT ![s] = reply.next]

\* Do.  One that fails leaves the builder as it was.
Do(b) ==
  /\ May(b)
  /\ \E reply \in Replies(ref[b]) : Receives(ref[b], reply)
  /\ UNCHANGED <<optVars, cursor, stack, size>>

-----------------------------------------------------------------------------
(* Options and format switches.                                            *)

Cursor(b) ==
  /\ May(b)
  /\ \E n \in Cursors : /\ cursor' = [cursor EXCEPT ![ref[b]] = n]
                        /\ mine' = [mine EXCEPT ![b] = n]
  /\ UNCHANGED <<ref, limit, out, stack, size>>

Limit(b) ==
  /\ May(b)
  /\ \E n \in Limits : limit' = [limit EXCEPT ![ref[b]] = n]
  /\ UNCHANGED <<ref, cursor, mine, out, stack, size>>

Unused == States \ ({ref[b] : b \in Builders} \cup Ranged)

SwitchShares(b, to) ==  \* mutant: re-wrapped without a clone
  /\ May(b) /\ ref[to] = Unset
  /\ ref' = [ref EXCEPT ![to] = ref[b]]
  /\ mine' = [mine EXCEPT ![to] = mine[b]]
  /\ UNCHANGED <<cursor, limit, out, stack, size>>

\* IDs, Points, Objects and the other output formats hand back a builder with a
\* searchState of its own, a copy of this one as it is now.
Switch(b, to) ==
  /\ May(b) /\ ref[to] = Unset
  /\ \E s \in Unused :
       /\ ref' = [ref EXCEPT ![to] = s]
       /\ cursor' = [cursor EXCEPT ![s] = cursor[ref[b]]]
       /\ limit' = [limit EXCEPT ![s] = limit[ref[b]]]
       /\ out' = [out EXCEPT ![s] = out[ref[b]]]
  /\ mine' = [mine EXCEPT ![to] = mine[b]]
  /\ UNCHANGED <<stack, size>>

-----------------------------------------------------------------------------
(* Iter.                                                                   *)

\* An explicit Limit or Cursor bounds the range to one page.
BoundedByLimitOnly(s) == limit[s] # Unset  \* mutant: Cursor forgotten
Bounded(s) == limit[s] # Unset \/ cursor[s] # Unset

BeginIter(b) ==
  /\ May(b) /\ Len(stack) < MaxDepth
  /\ LET s == ref[b] IN
     stack' = Append(stack,
       [s |-> s, start |-> cursor[s], bounded |-> Bounded(s), phase |-> "fetch",
        items |-> <<>>, last |-> Offset(cursor[s]), pages |-> 0,
        size0 |-> size, asked |-> mine[b]])
  /\ UNCHANGED <<optVars, cursor, out, size>>

MorePages == IF Top.pages = 0 THEN 1 ELSE 2

SetTop(f) == stack' = [stack EXCEPT ![Len(stack)] = f]

Fetch ==
  /\ Within("fetch")
  /\ \E reply \in Replies(Top.s) :
       /\ Receives(Top.s, reply)
       /\ SetTop([Top EXCEPT !.phase = "items", !.items = reply.items, !.pages = MorePages])
  /\ UNCHANGED <<optVars, cursor, size>>

\* A page that cannot be had is yielded as an error, after which nothing more is.
FetchFail ==
  /\ Within("fetch")
  /\ SetTop([Top EXCEPT !.phase = "error", !.pages = MorePages])
  /\ UNCHANGED <<optVars, cursor, out, size>>

Yield ==
  /\ Within("items") /\ Top.items # <<>>
  /\ SetTop([Top EXCEPT !.phase = "body", !.items = Tail(@),
                        !.last = Head(Top.items)])
  /\ UNCHANGED <<optVars, cursor, out, size>>

Continue ==
  /\ Within("body")
  /\ SetTop([Top EXCEPT !.phase = "items"])
  /\ UNCHANGED <<optVars, cursor, out, size>>

EndsAtSecondPage == Bounded(Top.s) \/ out[Top.s] = 0  \* mutant: asked too late
LastPage == Top.bounded \/ out[Top.s] = 0

NextPageStays ==  \* mutant: the cursor is not moved on
  /\ Within("items") /\ Top.items = <<>> /\ ~LastPage
  /\ SetTop([Top EXCEPT !.phase = "fetch"])
  /\ UNCHANGED <<optVars, cursor, out, size>>

NextPage ==
  /\ Within("items") /\ Top.items = <<>> /\ ~LastPage
  /\ cursor' = [cursor EXCEPT ![Top.s] = out[Top.s]]
  /\ SetTop([Top EXCEPT !.phase = "fetch"])
  /\ UNCHANGED <<optVars, out, size>>

\* The deferred function puts the cursor back, however the range ends.
Restore == /\ cursor' = [cursor EXCEPT ![Top.s] = Top.start]
           /\ stack' = Below

Finish ==
  /\ Within("items") /\ Top.items = <<>> /\ LastPage
  /\ Restore
  /\ UNCHANGED <<optVars, out, size>>

BreakAsIs ==  \* mutant: the cursor is put back only when a range runs out
  /\ Within("body")
  /\ stack' = Below
  /\ UNCHANGED <<optVars, cursor, out, size>>

Break ==
  /\ Within("body")
  /\ Restore
  /\ UNCHANGED <<optVars, out, size>>

GiveUp ==
  /\ Within("error")
  /\ Restore
  /\ UNCHANGED <<optVars, out, size>>

\* Another client adds an object behind the ones there are.
Grow == size < MaxSize /\ size' = size + 1
        /\ UNCHANGED <<optVars, cursor, out, stack>>

-----------------------------------------------------------------------------
Iterate == Fetch \/ FetchFail \/ Yield \/ Continue \/ NextPage \/ Finish \/ GiveUp

Next == \/ \E b \in Builders : \/ Do(b) \/ Cursor(b) \/ Limit(b) \/ BeginIter(b)
                               \/ \E to \in Builders : Switch(b, to)
        \/ Iterate \/ Break \/ Grow

Spec == Init /\ [][Next]_vars

\* Every command comes back (CallReturns of module Pool), and the program does
\* not stay for ever in the body of a range, whatever ranges it starts there.
FairSpec ==
  Spec /\ \A depth \in 1..MaxDepth : SF_vars(Len(stack) = depth /\ Iterate)

-----------------------------------------------------------------------------
\* A range yields the objects of the scan in order, none twice and none left out:
\* what it has ready follows on what it yielded last, across page boundaries and
\* whatever other builders the body uses
\* (README.md:186, builders.go:254-255).
YieldsInOrder ==
  \A i \in DOMAIN stack :
    \A k \in DOMAIN stack[i].items : stack[i].items[k] = stack[i].last + k

\* The innermost range ends: by itself in phase "items", by a break in "body".
Ends == Len(stack') < Len(stack)

\* A range without bound that runs out has yielded every object there was when
\* it began: "the hundred-result cap never truncates what the caller sees"
\* (builders.go:994-996).  One with a bound of its caller's, a Limit or a Cursor,
\* is one page (builders.go:257-258).
YieldsWhole ==
  [][Ends /\ Within("items") =>
       IF Top.bounded \/ Top.asked # Unset THEN Top.pages = 1 ELSE Top.last >= Top.size0]_vars

\* Between ranges a builder has the cursor its caller gave it, however its last
\* range ended and whatever was done with others, those switched from it included (builders.go:150-153,
\* 260-262).
CursorIsCallers ==
  \A b \in Builders :
    ref[b] # Unset /\ ref[b] \notin Ranged => cursor[ref[b]] = mine[b]

\* A range that its body does not leave ends by itself: it asks for no page
\* twice, and whatever ranges its body starts it comes to an end.
RangeEnds == stack # <<>> ~> stack = <<>>

\* "a second Iter on the same builder starts over rather than resuming
\* mid-scan" (builders.go:260-261), also one inside the first: when the caller
\* never gave the builder a cursor, the two start at the same place.
SecondIterStartsOver ==
  \A i, j \in DOMAIN stack :
    i < j /\ stack[i].s = stack[j].s /\ stack[j].asked = Unset =>
      stack[j].start = stack[i].start

\* "Limit caps the number of results. Zero means no limit."
\* (builders.go:873): a range with Limit(0) yields what one without yields.
ZeroIsNoLimit ==
  [][/\ Ends /\ Within("items")
     /\ Top.asked = Unset /\ limit[Top.s] = 0 => Top.last >= Top.size0]_vars
=============================================================================
