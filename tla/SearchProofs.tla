---------------------------- MODULE SearchProofs ----------------------------
(***************************************************************************)
(* Proofs about Search, for any number of builders and objects, pages of   *)
(* any size and ranges of any depth, as long as no range's body uses the   *)
(* builder it ranges over.                                                 *)
(***************************************************************************)
EXTENDS Search, SequenceTheorems, TLAPS

TypeOK ==
  /\ ref \in [Builders -> States \cup {Unset}]
  /\ cursor \in [States -> Nat \cup {Unset}]
  /\ limit \in [States -> Nat \cup {Unset}]
  /\ out \in [States -> Nat]
  /\ stack \in Seq(Frames)
  /\ size \in Nat
  /\ mine \in [Builders -> Cursors \cup {Unset}]

\* What a range has ready follows on what it yielded; the server's cursor stands
\* behind it, or says that it was the rest of the collection; and a bounded range
\* asks once.
Sound(f) ==
  /\ f.size0 <= size
  /\ f.asked # Unset => f.bounded
  /\ \A k \in 1..Len(f.items) : f.items[k] = f.last + k
  /\ f.phase = "fetch" => /\ f.items = <<>> /\ f.last = Offset(cursor[f.s])
                          /\ f.bounded => f.pages = 0
  /\ f.phase \in {"items", "body"} =>
       /\ f.bounded => f.pages = 1
       /\ IF out[f.s] = 0 THEN f.last + Len(f.items) >= f.size0
                          ELSE f.last + Len(f.items) = out[f.s]

\* No two builders and no two ranges share a searchState, and a range will put back
\* the cursor its builder's caller set.
Apart ==
  /\ \A b, c \in Builders : ref[b] # Unset /\ ref[b] = ref[c] => b = c
  /\ \A i, j \in 1..Len(stack) : stack[i].s = stack[j].s => i = j
  /\ \A b \in Builders, i \in 1..Len(stack) :
       ref[b] # Unset /\ stack[i].s = ref[b] => stack[i].start = mine[b]

Paging == /\ \A i \in 1..Len(stack) : Sound(stack[i])
          /\ Apart
          /\ CursorIsCallers

-----------------------------------------------------------------------------
(* The stack.                                                              *)

LEMMA TopIsFrame ==
  ASSUME stack \in Seq(Frames), stack # <<>>
  PROVE  /\ Len(stack) \in Nat /\ Len(stack) \in 1..Len(stack)
         /\ Top = stack[Len(stack)] /\ Top \in Frames
BY EmptySeq, LenProperties, ElementOfSeq DEF Top

\* The innermost range moves.
LEMMA SetTopIs ==
  ASSUME stack \in Seq(Frames), stack # <<>>, NEW f \in Frames, SetTop(f)
  PROVE  /\ stack' \in Seq(Frames) /\ Len(stack') = Len(stack)
         /\ stack'[Len(stack)] = f
         /\ \A i \in 1..(Len(stack) - 1) : stack'[i] = stack[i]
<1>1. Len(stack) \in Nat /\ DOMAIN stack = 1..Len(stack) /\ Len(stack) \in 1..Len(stack)
  BY TopIsFrame, LenProperties
<1>2. stack' \in Seq(Frames) /\ Len(stack') = Len(stack)
  BY <1>1, ExceptSeq DEF SetTop
<1>3. /\ stack'[Len(stack)] = f
      /\ \A i \in (1..Len(stack)) \ {Len(stack)} : stack'[i] = stack[i]
  BY <1>1 DEF SetTop
<1>4. 1..(Len(stack) - 1) \subseteq (1..Len(stack)) \ {Len(stack)}
  BY <1>1
<1> QED
  BY <1>2, <1>3, <1>4

\* It ends.
LEMMA BelowIs ==
  ASSUME stack \in Seq(Frames), stack # <<>>
  PROVE  /\ Below \in Seq(Frames) /\ Len(Below) = Len(stack) - 1
         /\ \A i \in 1..(Len(stack) - 1) : Below[i] = stack[i]
<1> DEFINE n == Len(stack) - 1
<1>1. n \in Nat /\ n <= Len(stack) /\ Len(stack) \in Nat
  BY TopIsFrame
<1>2. \A i \in 1..n : stack[i] \in Frames
  BY <1>1, ElementOfSeq
<1> HIDE DEF n
<1>3. /\ SubSeq(stack, 1, n) \in Seq(Frames) /\ Len(SubSeq(stack, 1, n)) = n
      /\ \A i \in 1..n : SubSeq(stack, 1, n)[i] = stack[i]
  BY <1>1, <1>2, SubSeqProperties
<1> QED
  BY <1>3 DEF Below, n

LEMMA RangedIs ==
  ASSUME stack \in Seq(Frames)
  PROVE  Ranged = {stack[i].s : i \in 1..Len(stack)}
BY LenProperties DEF Ranged

-----------------------------------------------------------------------------
(* A page.                                                                 *)

\* What the server may answer to a search from the cursor on.
LEMMA PageFollows ==
  ASSUME TypeOK, NEW s \in States, NEW reply \in Replies(s)
  PROVE  LET from == Offset(cursor[s]) IN
         /\ from \in Nat
         /\ reply.items \in Seq(Nat) /\ reply.next \in Nat
         /\ \A k \in 1..Len(reply.items) : reply.items[k] = from + k
         /\ IF reply.next = 0 THEN from + Len(reply.items) >= size
                              ELSE from + Len(reply.items) = reply.next
<1> DEFINE from == Offset(cursor[s])
           n == IF limit[s] \in {Unset, 0} THEN Cap ELSE limit[s]
           to == IF from + n <= size THEN from + n ELSE size
           resumeAt == IF from + n < size THEN {to}
                       ELSE IF from + n = size THEN {0, to} ELSE {0}
           page == [i \in 1..(to - from) |-> from + i]
<1>1. from \in Nat /\ size \in Nat /\ n \in Nat \ {0}
  BY SearchAssumption DEF TypeOK, Offset
<1>2. reply.items = page /\ reply.next \in resumeAt
  BY DEF Replies
<1>3. to \in Nat
  BY <1>1
<1> HIDE DEF from, n
<1>4. PICK m \in Nat : 1..(to - from) = 1..m /\ from + m >= to /\ (from <= to => m = to - from)
  <2>1. CASE from <= to
    <3>1. to - from \in Nat /\ from + (to - from) >= to
      BY <1>1, <1>3, <2>1
    <3> QED
      BY <3>1
  <2>2. CASE from > to
    <3>1. 1..(to - from) = 1..0 /\ from + 0 >= to
      BY <1>1, <1>3, <2>2
    <3> QED
      BY <1>1, <1>3, <2>2, <3>1
  <2> QED
    BY <1>1, <1>3, <2>1, <2>2
<1> HIDE DEF to
<1>5. page = [i \in 1..m |-> from + i]
  BY <1>4
<1> HIDE DEF page
<1>6. page \in [1..m -> Nat] /\ \A k \in 1..m : page[k] = from + k
  BY <1>1, <1>5
<1>7. page \in Seq(Nat) /\ Len(page) = m
  BY <1>6, SeqDef, LenProperties
<1>8. IF reply.next = 0 THEN from + m >= size ELSE from + m = reply.next
  BY <1>1, <1>2, <1>3, <1>4 DEF to
<1>9. reply.next \in Nat
  BY <1>2, <1>3
<1> QED
  BY <1>1, <1>2, <1>6, <1>7, <1>8, <1>9 DEF from

-----------------------------------------------------------------------------
(* Types.                                                                  *)

LEMMA TypeInit == Init => TypeOK
BY EmptySeq DEF Init, TypeOK

LEMMA BuilderIsTyped ==
  ASSUME TypeOK, NEW b \in Builders, May(b)
  PROVE  ref[b] \in States
BY DEF TypeOK, May

\* The frames the innermost range goes through.
LEMMA FetchedIsFrame ==
  ASSUME NEW f \in Frames, NEW q \in Seq(Nat), NEW g \in 0..2
  PROVE  [f EXCEPT !.phase = "items", !.items = q, !.pages = g] \in Frames
BY DEF Frames

LEMMA FailedIsFrame ==
  ASSUME NEW f \in Frames, NEW g \in 0..2
  PROVE  [f EXCEPT !.phase = "error", !.pages = g] \in Frames
BY DEF Frames

LEMMA PhaseIsFrame ==
  ASSUME NEW f \in Frames, NEW phase \in {"fetch", "items", "body", "error"}
  PROVE  [f EXCEPT !.phase = phase] \in Frames
BY DEF Frames

LEMMA YieldingIsFrame ==
  ASSUME NEW f \in Frames, NEW q \in Seq(Nat), NEW n \in Nat
  PROVE  [f EXCEPT !.phase = "body", !.items = q, !.last = n] \in Frames
BY DEF Frames

LEMMA NewIsFrame ==
  ASSUME NEW s \in States, NEW c \in Nat \cup {Unset}, NEW b \in BOOLEAN,
         NEW n \in Nat, NEW z \in Nat, NEW a \in Cursors \cup {Unset}
  PROVE  [s |-> s, start |-> c, bounded |-> b, phase |-> "fetch", items |-> <<>>,
          last |-> n, pages |-> 0, size0 |-> z, asked |-> a] \in Frames
<1>1. <<>> \in Seq(Nat)
  BY EmptySeq
<1> QED
  BY <1>1 DEF Frames

LEMMA MorePagesIs ==
  /\ MorePages \in 0..2
  /\ Top.pages = 0 => MorePages = 1
BY DEF MorePages

\* What a range's items are after one is yielded.
LEMMA YieldIs ==
  ASSUME NEW f \in Frames, f.items # <<>>
  PROVE  /\ Len(f.items) \in Nat \ {0} /\ Head(f.items) = f.items[1] /\ f.items[1] \in Nat
         /\ Tail(f.items) \in Seq(Nat) /\ Len(Tail(f.items)) = Len(f.items) - 1
         /\ \A k \in 1..(Len(f.items) - 1) : Tail(f.items)[k] = f.items[k + 1]
<1>1. f.items \in Seq(Nat)
  BY DEF Frames
<1> QED
  BY <1>1, EmptySeq, LenProperties, ElementOfSeq, HeadTailProperties

LEMMA TypeStep == TypeOK /\ [Next]_vars => TypeOK'
<1> SUFFICES ASSUME TypeOK, [Next]_vars PROVE TypeOK'
  OBVIOUS
<1> USE DEF optVars
<1>0. stack \in Seq(Frames)
  BY DEF TypeOK
<1>1. ASSUME NEW b \in Builders, Do(b) PROVE TypeOK'
  <2>1. PICK reply \in Replies(ref[b]) : out' = [out EXCEPT ![ref[b]] = reply.next]
    BY <1>1 DEF Do, Receives
  <2>2. reply.next \in Nat
    BY <1>1, BuilderIsTyped, PageFollows DEF Do
  <2> QED
    BY <1>1, <2>1, <2>2 DEF Do, TypeOK
<1>2. ASSUME NEW b \in Builders, Cursor(b) \/ Limit(b) PROVE TypeOK'
  BY ZenonT(30), <1>2, SearchAssumption DEF Cursor, Limit, TypeOK
<1>3. ASSUME NEW b \in Builders, NEW to \in Builders, Switch(b, to) PROVE TypeOK'
  <2>1. ref[b] \in States
    BY <1>3, BuilderIsTyped DEF Switch
  <2> QED
    BY <1>3, <2>1 DEF Switch, Unused, TypeOK
<1>4. ASSUME NEW b \in Builders, BeginIter(b) PROVE TypeOK'
  <2>1. ref[b] \in States
    BY <1>4, BuilderIsTyped DEF BeginIter
  <2> DEFINE c == cursor[ref[b]]
             k == Bounded(ref[b])
             f == [s |-> ref[b], start |-> c, bounded |-> k, phase |-> "fetch",
                   items |-> <<>>, last |-> Offset(c),
                   pages |-> 0, size0 |-> size, asked |-> mine[b]]
  <2>2. k \in BOOLEAN
    BY DEF Bounded
  <2>3. /\ c \in Nat \cup {Unset} /\ Offset(c) \in Nat
        /\ mine[b] \in Cursors \cup {Unset} /\ size \in Nat
    BY <2>1 DEF TypeOK, Offset
  <2>4. stack' = Append(stack, f)
    BY <1>4 DEF BeginIter
  <2> HIDE DEF c, k
  <2>f. f \in Frames
    BY <2>1, <2>2, <2>3, NewIsFrame
  <2> HIDE DEF f
  <2>5. stack' \in Seq(Frames)
    BY <1>0, <2>4, <2>f, AppendProperties
  <2> QED
    BY <1>4, <2>5 DEF BeginIter, TypeOK
<1>5. CASE Fetch
  <2>0. stack # <<>> /\ Top \in Frames
    BY <1>0, <1>5, TopIsFrame DEF Fetch, Within
  <2>1. PICK reply \in Replies(Top.s) :
          /\ out' = [out EXCEPT ![Top.s] = reply.next]
          /\ SetTop([Top EXCEPT !.phase = "items", !.items = reply.items,
                                !.pages = MorePages])
    BY <1>5 DEF Fetch, Receives
  <2>2. reply.next \in Nat /\ reply.items \in Seq(Nat) /\ Top.s \in States
    BY <2>0, PageFollows DEF Frames
  <2>3. [Top EXCEPT !.phase = "items", !.items = reply.items, !.pages = MorePages] \in Frames
    BY <2>0, <2>2, FetchedIsFrame, MorePagesIs, Zenon
  <2>4. stack' \in Seq(Frames)
    BY <1>0, <2>0, <2>1, <2>3, SetTopIs
  <2> QED
    BY <1>5, <2>1, <2>2, <2>4 DEF Fetch, TypeOK
<1>6. CASE FetchFail \/ Continue \/ NextPage
  <2>0. stack # <<>> /\ Top \in Frames /\ Top.s \in States
    BY <1>0, <1>6, TopIsFrame DEF FetchFail, Continue, NextPage, Within, Frames
  <2>a. [Top EXCEPT !.phase = "error", !.pages = MorePages] \in Frames
    BY <2>0, FailedIsFrame, MorePagesIs, Zenon
  <2>b. /\ [Top EXCEPT !.phase = "items"] \in Frames
        /\ [Top EXCEPT !.phase = "fetch"] \in Frames
    BY <2>0, PhaseIsFrame
  <2>1. stack' \in Seq(Frames)
    BY <1>0, <1>6, <2>0, <2>a, <2>b, SetTopIs DEF FetchFail, Continue, NextPage
  <2>2. cursor' \in [States -> Nat \cup {Unset}]
    BY <1>6, <2>0 DEF FetchFail, Continue, NextPage, TypeOK
  <2> QED
    BY <1>6, <2>1, <2>2 DEF FetchFail, Continue, NextPage, TypeOK
<1>7. CASE Yield
  <2>0. stack # <<>> /\ Top \in Frames /\ Top.items # <<>>
    BY <1>0, <1>7, TopIsFrame DEF Yield, Within
  <2>1. Tail(Top.items) \in Seq(Nat) /\ Head(Top.items) \in Nat
    BY <2>0, YieldIs
  <2>2. SetTop([Top EXCEPT !.phase = "body", !.items = Tail(Top.items),
                           !.last = Head(Top.items)])
    BY <1>7, <2>0 DEF Yield, Frames
  <2>3. [Top EXCEPT !.phase = "body", !.items = Tail(Top.items), !.last = Head(Top.items)]
          \in Frames
    BY <2>0, <2>1, YieldingIsFrame, Zenon
  <2>4. stack' \in Seq(Frames)
    BY <1>0, <2>0, <2>2, <2>3, SetTopIs
  <2> QED
    BY <1>7, <2>4 DEF Yield, TypeOK
<1>8. CASE Finish \/ Break \/ GiveUp
  <2>0. stack # <<>> /\ Top \in Frames
    BY <1>0, <1>8, TopIsFrame DEF Finish, Break, GiveUp, Within
  <2>1. stack' \in Seq(Frames) /\ cursor' = [cursor EXCEPT ![Top.s] = Top.start]
    BY <1>0, <1>8, <2>0, BelowIs DEF Finish, Break, GiveUp, Restore
  <2>2. cursor' \in [States -> Nat \cup {Unset}]
    BY <2>0, <2>1 DEF TypeOK, Frames
  <2> QED
    BY <1>8, <2>1, <2>2 DEF Finish, Break, GiveUp, TypeOK
<1>9. CASE Grow \/ UNCHANGED vars
  BY <1>9 DEF Grow, vars, TypeOK
<1> QED
  BY <1>1, <1>2, <1>3, <1>4, <1>5, <1>6, <1>7, <1>8, <1>9 DEF Next, Iterate

-----------------------------------------------------------------------------
(* Paging.                                                                 *)

LEMMA PagingInit == Init => Paging
<1> SUFFICES ASSUME Init PROVE Paging
  OBVIOUS
<1>1. Len(stack) = 0
  BY EmptySeq DEF Init
<1> QED
  BY <1>1 DEF Init, Paging, Apart, CursorIsCallers

\* The caller does something outside the ranges under way.
LEMMA PagingOutside ==
  ASSUME TypeOK, Paging, UNCHANGED stack, size' \in Nat, size <= size',
         \A s \in Ranged : cursor'[s] = cursor[s] /\ out'[s] = out[s],
         Apart', CursorIsCallers'
  PROVE  Paging'
<1>1. \A i \in 1..Len(stack) : stack[i] \in Frames /\ stack[i].s \in Ranged
  BY RangedIs, ElementOfSeq DEF TypeOK
<1>2. ASSUME NEW i \in 1..Len(stack) PROVE Sound(stack[i])'
  <2>1. Sound(stack[i]) /\ stack[i] \in Frames
    BY <1>1 DEF Paging
  <2>2. cursor'[stack[i].s] = cursor[stack[i].s] /\ out'[stack[i].s] = out[stack[i].s]
    BY <1>1
  <2>3. stack[i].size0 \in Nat /\ size \in Nat
    BY <2>1 DEF Frames, TypeOK
  <2>4. stack[i].size0 <= size'
    BY <2>1, <2>3 DEF Sound
  <2> QED
    BY <2>1, <2>2, <2>4 DEF Sound
<1> QED
  BY <1>2 DEF Paging

\* The innermost range moves, and with it no searchState but its own.
LEMMA PagingMove ==
  ASSUME TypeOK, Paging, stack # <<>>, NEW f \in Frames, SetTop(f),
         f.s = Top.s, f.start = Top.start, UNCHANGED <<ref, mine, size>>,
         \A s \in States \ {Top.s} : cursor'[s] = cursor[s] /\ out'[s] = out[s],
         Sound(f)'
  PROVE  Paging'
<1>1. /\ stack \in Seq(Frames) /\ Len(stack) \in Nat /\ Len(stack) \in 1..Len(stack)
      /\ Top = stack[Len(stack)] /\ Top \in Frames
  BY TopIsFrame DEF TypeOK
<1>2. /\ stack' \in Seq(Frames) /\ Len(stack') = Len(stack) /\ stack'[Len(stack)] = f
      /\ \A i \in 1..(Len(stack) - 1) : stack'[i] = stack[i]
  BY <1>1, SetTopIs
<1>3. \A i \in 1..Len(stack) : i = Len(stack) \/ i \in 1..(Len(stack) - 1)
  BY <1>1
<1>4. \A i \in 1..Len(stack) : /\ stack'[i].s = stack[i].s
                               /\ stack'[i].start = stack[i].start
  BY <1>1, <1>2, <1>3
<1>5. ASSUME NEW i \in 1..(Len(stack) - 1) PROVE Sound(stack[i])'
  <2>1. i \in 1..Len(stack) /\ i # Len(stack)
    BY <1>1
  <2>2. stack[i] \in Frames /\ Sound(stack[i])
    BY <1>1, <2>1, ElementOfSeq DEF Paging
  <2>3. stack[i].s \in States \ {Top.s}
    BY <1>1, <2>1, <2>2 DEF Paging, Apart, Frames
  <2>4. stack'[i] = stack[i]
    BY <1>2
  <2> QED
    BY <2>2, <2>3, <2>4 DEF Sound
<1>6. \A i \in 1..Len(stack') : Sound(stack[i])'
  BY <1>2, <1>3, <1>5
<1>7. Apart'
  BY <1>2, <1>4 DEF Paging, Apart
<1>8. Ranged' = Ranged /\ Top.s \in Ranged
  <2>1. Ranged' = {stack'[i].s : i \in 1..Len(stack')}
    BY <1>2, LenProperties DEF Ranged
  <2> QED
    BY <1>1, <1>2, <1>4, <2>1, RangedIs
<1>9. CursorIsCallers'
  BY <1>8 DEF Paging, CursorIsCallers, TypeOK
<1> QED
  BY <1>6, <1>7, <1>9 DEF Paging

\* It ends, and puts back the cursor its builder's caller set.
LEMMA PagingPop ==
  ASSUME TypeOK, Paging, stack # <<>>, Restore, UNCHANGED <<ref, mine, size, out>>
  PROVE  Paging'
<1>1. /\ stack \in Seq(Frames) /\ Len(stack) \in Nat /\ Len(stack) \in 1..Len(stack)
      /\ Top = stack[Len(stack)] /\ Top \in Frames
  BY TopIsFrame DEF TypeOK
<1>2. /\ stack' \in Seq(Frames) /\ Len(stack') = Len(stack) - 1
      /\ \A i \in 1..(Len(stack) - 1) : stack'[i] = stack[i]
      /\ cursor' = [cursor EXCEPT ![Top.s] = Top.start]
  BY <1>1, BelowIs DEF Restore
<1>3. \A i \in 1..Len(stack') : /\ i \in 1..Len(stack) /\ i # Len(stack)
                                /\ stack'[i] = stack[i]
  BY <1>1, <1>2
<1>4. ASSUME NEW i \in 1..Len(stack') PROVE Sound(stack[i])'
  <2>1. stack'[i] = stack[i] /\ stack[i] \in Frames /\ Sound(stack[i])
    BY <1>1, <1>3, ElementOfSeq DEF Paging
  <2>2. stack[i].s \in States \ {Top.s}
    BY <1>1, <1>3, <2>1 DEF Paging, Apart, Frames
  <2>3. cursor'[stack[i].s] = cursor[stack[i].s]
    BY <1>2, <2>2 DEF TypeOK
  <2> QED
    BY <2>1, <2>3 DEF Sound
<1>5. Apart'
  BY SMTT(30), <1>3 DEF Paging, Apart
<1>6. Ranged \subseteq Ranged' \cup {Top.s}
  <2>1. Ranged' = {stack'[i].s : i \in 1..Len(stack')}
    BY <1>2, LenProperties DEF Ranged
  <2>2. \A i \in 1..Len(stack) : i = Len(stack) \/ i \in 1..Len(stack')
    BY <1>1, <1>2
  <2> QED
    BY <1>1, <1>2, <2>1, <2>2, RangedIs
<1>7. ASSUME NEW b \in Builders, ref[b] # Unset, ref[b] \notin Ranged'
      PROVE  cursor'[ref[b]] = mine[b]
  <2>1. ref[b] \in States
    BY <1>7 DEF TypeOK
  <2>2. CASE ref[b] = Top.s
    <3>1. Top.start = mine[b]
      BY <1>1, <1>7, <2>2 DEF Paging, Apart
    <3> QED
      BY <1>2, <2>1, <2>2, <3>1 DEF TypeOK
  <2>3. CASE ref[b] # Top.s
    <3>1. cursor[ref[b]] = mine[b]
      BY <1>6, <1>7, <2>3 DEF Paging, CursorIsCallers
    <3> QED
      BY <1>2, <2>1, <2>3, <3>1 DEF TypeOK
  <2> QED
    BY <2>2, <2>3
<1>8. CursorIsCallers'
  BY <1>7 DEF CursorIsCallers
<1> QED
  BY <1>4, <1>5, <1>8 DEF Paging

\* A new range, on a builder that is not ranged over.
LEMMA PagingBegin ==
  ASSUME TypeOK, Paging, NEW b \in Builders, ref[b] \notin Ranged, BeginIter(b),
         stack' \in Seq(Frames)
  PROVE  Paging'
<1> DEFINE n == Len(stack)
<1>1. /\ UNCHANGED <<ref, limit, mine, cursor, out, size>>
      /\ ref[b] \in States /\ ref[b] # Unset
  BY BuilderIsTyped DEF BeginIter, May, optVars
<1>2. stack \in Seq(Frames) /\ n \in Nat
  BY LenProperties DEF TypeOK
<1>4. cursor[ref[b]] = mine[b]
  BY <1>1 DEF Paging, CursorIsCallers
<1>a. PICK s0 \in States : s0 = ref[b]
  BY <1>1
<1>b. PICK f : /\ stack' = Append(stack, f)
               /\ f = [s |-> s0, start |-> cursor[s0], bounded |-> Bounded(s0),
                       phase |-> "fetch", items |-> <<>>, last |-> Offset(cursor[s0]),
                       pages |-> 0, size0 |-> size, asked |-> mine[b]]
  BY <1>a DEF BeginIter
<1>6. /\ f.s = s0 /\ f.start = mine[b] /\ f.phase = "fetch" /\ f.items = <<>>
      /\ f.last = Offset(cursor[s0]) /\ f.pages = 0 /\ f.size0 = size
      /\ f.asked # Unset => f.bounded
  <2>1. mine[b] # Unset => Bounded(s0)
    BY <1>4, <1>a DEF Bounded
  <2> QED
    BY <1>4, <1>a, <1>b, <2>1
<1>3. /\ Len(stack') = n + 1 /\ stack'[n + 1] = f
      /\ \A i \in 1..n : stack'[i] = stack[i]
  BY <1>2, <1>b, AppendProperties, LenProperties
<1>5. Sound(f)'
  <2>1. size \in Nat /\ Len(<<>>) = 0
    BY EmptySeq DEF TypeOK
  <2>2. Len(f.items) = 0
    BY <1>6, <2>1
  <2>3. \A k \in 1..Len(f.items) : f.items[k] = f.last + k
    BY <2>2
  <2>4. f.size0 <= size'
    BY <1>1, <1>6, <2>1
  <2> QED
    BY <1>1, <1>6, <2>3, <2>4 DEF Sound, Offset
<1> HIDE DEF n
<1>7. \A i \in 1..(n + 1) : i \in 1..n \/ i = n + 1
  BY <1>2
<1>8. ASSUME NEW i \in 1..n PROVE Sound(stack[i])'
  <2>1. Sound(stack[i]) /\ stack'[i] = stack[i]
    BY <1>3 DEF Paging, n
  <2> QED
    BY <1>1, <2>1 DEF Sound
<1>9. \A i \in 1..Len(stack') : Sound(stack[i])'
  BY <1>3, <1>5, <1>7, <1>8
<1>10. \A i \in 1..n : stack[i].s # s0
  BY <1>2, <1>a, RangedIs DEF n
<1>11. Apart'
  <2>1. \A i, j \in 1..(n + 1) : stack'[i].s = stack'[j].s => i = j
    BY <1>3, <1>6, <1>7, <1>10 DEF Paging, Apart, n
  <2>2. \A c \in Builders, i \in 1..(n + 1) :
          ref[c] # Unset /\ stack'[i].s = ref[c] => stack'[i].start = mine[c]
    BY <1>1, <1>3, <1>6, <1>7, <1>a DEF Paging, Apart, n
  <2> QED
    BY <1>1, <1>3, <2>1, <2>2 DEF Paging, Apart
<1>12. Ranged \subseteq Ranged'
  <2>1. Ranged' = {stack'[i].s : i \in 1..Len(stack')}
    BY LenProperties DEF Ranged
  <2>2. \A i \in 1..n : i \in 1..(n + 1)
    BY <1>2
  <2> QED
    BY <1>2, <1>3, <2>1, <2>2, RangedIs DEF n
<1>13. CursorIsCallers'
  BY <1>1, <1>12 DEF Paging, CursorIsCallers
<1> QED
  BY <1>9, <1>11, <1>13 DEF Paging

\* A builder its caller may use has a searchState of its own, in no range.
LEMMA MayIs ==
  ASSUME Reentrant = FALSE, TypeOK, NEW b \in Builders, May(b)
  PROVE  ref[b] \in States /\ ref[b] \notin Ranged
BY DEF May, TypeOK

LEMMA CallerStep ==
  ASSUME Reentrant = FALSE, TypeOK, Paging, NEW b \in Builders, Do(b) \/ Cursor(b) \/ Limit(b)
  PROVE  Paging'
<1>1. ref[b] \in States /\ ref[b] \notin Ranged
  BY MayIs DEF Do, Cursor, Limit
<1>2. UNCHANGED <<ref, stack, size>> /\ size \in Nat
  BY DEF Do, Cursor, Limit, optVars, TypeOK
<1>3. \A s \in Ranged : cursor'[s] = cursor[s] /\ out'[s] = out[s]
  <2>1. Ranged \subseteq States
    <3>1. \A i \in 1..Len(stack) : stack[i] \in Frames
      BY ElementOfSeq DEF TypeOK
    <3>2. \A i \in 1..Len(stack) : stack[i].s \in States
      BY <3>1 DEF Frames
    <3> QED
      BY SMTT(30), <3>2, RangedIs DEF TypeOK
  <2>2. \E n : cursor' = cursor \/ cursor' = [cursor EXCEPT ![ref[b]] = n]
    BY DEF Do, Cursor, Limit
  <2>3. \E n : out' = out \/ out' = [out EXCEPT ![ref[b]] = n]
    BY DEF Do, Cursor, Limit, Receives
  <2> QED
    BY <1>1, <2>1, <2>2, <2>3 DEF TypeOK
<1>4. Ranged' = Ranged
  BY <1>2 DEF Ranged
<1>5. \A i \in 1..Len(stack) : stack[i].s # ref[b]
  BY <1>1, RangedIs DEF TypeOK
<1>6. \A c \in Builders : c # b => mine'[c] = mine[c]
  BY DEF Do, Cursor, Limit, optVars, TypeOK
<1>7. Apart'
  BY <1>2, <1>5, <1>6 DEF Paging, Apart
<1>8. CursorIsCallers'
  <2>1. ASSUME NEW c \in Builders, ref[c] # Unset, ref[c] \notin Ranged
        PROVE  cursor'[ref[c]] = mine'[c]
    <3>1. ref[c] \in States /\ cursor[ref[c]] = mine[c] /\ (c # b => ref[c] # ref[b])
      BY <2>1 DEF TypeOK, Paging, Apart, CursorIsCallers
    <3> QED
      BY <1>1, <3>1 DEF Do, Cursor, Limit, optVars, TypeOK
  <2> QED
    BY <1>2, <1>4, <2>1 DEF CursorIsCallers
<1> QED
  BY <1>2, <1>3, <1>7, <1>8, PagingOutside

\* The copy a format switch takes is of a builder between its ranges.
LEMMA SwitchStep ==
  ASSUME Reentrant = FALSE, TypeOK, Paging,
         NEW b \in Builders, NEW to \in Builders, Switch(b, to)
  PROVE  Paging'
<1>1. ref[b] \in States /\ ref[b] \notin Ranged /\ ref[b] # Unset
  BY MayIs DEF Switch, May
<1>2. PICK s \in Unused : /\ ref' = [ref EXCEPT ![to] = s]
                          /\ cursor' = [cursor EXCEPT ![s] = cursor[ref[b]]]
                          /\ out' = [out EXCEPT ![s] = out[ref[b]]]
  BY DEF Switch
<1>3. s \in States /\ s \notin Ranged /\ \A c \in Builders : ref[c] # s
  BY <1>2 DEF Unused
<1>4. /\ UNCHANGED <<stack, size>> /\ size \in Nat
      /\ mine' = [mine EXCEPT ![to] = mine[b]] /\ ref[to] = Unset
  BY DEF Switch, TypeOK
<1>5. \A r \in Ranged : cursor'[r] = cursor[r] /\ out'[r] = out[r]
  BY <1>2, <1>3 DEF TypeOK
<1>6. /\ ref'[to] = s /\ mine'[to] = mine[b]
      /\ \A c \in Builders : c # to => ref'[c] = ref[c] /\ mine'[c] = mine[c]
  BY <1>2, <1>4 DEF TypeOK
<1>7. \A i \in 1..Len(stack) : stack[i].s # s
  BY <1>3, RangedIs DEF TypeOK
<1>8. Apart'
  <2>1. \A c, d \in Builders : ref'[c] # Unset /\ ref'[c] = ref'[d] => c = d
    BY <1>3, <1>6 DEF Paging, Apart
  <2>2. \A c \in Builders, i \in 1..Len(stack) :
          ref'[c] # Unset /\ stack[i].s = ref'[c] => stack[i].start = mine'[c]
    BY <1>6, <1>7 DEF Paging, Apart
  <2> QED
    BY <1>4, <2>1, <2>2 DEF Paging, Apart
<1>9. CursorIsCallers'
  <2>1. ASSUME NEW c \in Builders, ref'[c] # Unset, ref'[c] \notin Ranged
        PROVE  cursor'[ref'[c]] = mine'[c]
    <3>1. cursor[ref[b]] = mine[b]
      BY <1>1 DEF Paging, CursorIsCallers
    <3>2. CASE c = to
      BY <1>2, <1>3, <1>6, <3>1, <3>2 DEF TypeOK
    <3>3. CASE c # to
      <4>1. ref'[c] = ref[c] /\ mine'[c] = mine[c] /\ ref[c] # s
        BY <1>3, <1>6, <3>3
      <4>2. cursor[ref[c]] = mine[c] /\ ref[c] \in States
        BY <2>1, <4>1 DEF Paging, CursorIsCallers, TypeOK
      <4> QED
        BY <1>2, <4>1, <4>2 DEF TypeOK
    <3> QED
      BY <3>2, <3>3
  <2>2. Ranged' = Ranged
    BY <1>4 DEF Ranged
  <2> QED
    BY <2>1, <2>2 DEF CursorIsCallers
<1> QED
  BY <1>4, <1>5, <1>8, <1>9, PagingOutside

\* A page comes, or none does.
LEMMA FetchStep ==
  ASSUME TypeOK, Paging, Fetch \/ FetchFail
  PROVE  Paging'
<1>1. /\ stack # <<>> /\ Top \in Frames /\ Top.phase = "fetch" /\ Sound(Top) /\ Top.s \in States
      /\ UNCHANGED <<ref, mine, cursor, size>>
  <2>1. stack # <<>> /\ Top.phase = "fetch" /\ UNCHANGED <<ref, mine, cursor, size>>
    BY DEF Fetch, FetchFail, Within, optVars
  <2>2. Top \in Frames /\ Sound(Top)
    BY <2>1, TopIsFrame DEF TypeOK, Paging
  <2> QED
    BY <2>1, <2>2 DEF Frames
<1>2. PICK t \in Frames : t = Top
  BY <1>1
<1>3. CASE Fetch
  <2>1. PICK reply \in Replies(t.s) :
          /\ out' = [out EXCEPT ![t.s] = reply.next]
          /\ SetTop([t EXCEPT !.phase = "items", !.items = reply.items, !.pages = MorePages])
    BY <1>2, <1>3 DEF Fetch, Receives
  <2>2. /\ reply.items \in Seq(Nat) /\ reply.next \in Nat
        /\ \A k \in 1..Len(reply.items) : reply.items[k] = Offset(cursor[t.s]) + k
        /\ IF reply.next = 0 THEN Offset(cursor[t.s]) + Len(reply.items) >= size
                             ELSE Offset(cursor[t.s]) + Len(reply.items) = reply.next
    BY <1>1, <1>2, PageFollows
  <2>3. PICK g \in 0..2 : g = MorePages /\ (t.pages = 0 => g = 1)
    BY <1>2, MorePagesIs
  <2>4. PICK f \in Frames : f = [t EXCEPT !.phase = "items", !.items = reply.items, !.pages = g]
    BY <2>2, FetchedIsFrame
  <2>5. /\ f.s = t.s /\ f.start = t.start /\ f.phase = "items" /\ f.items = reply.items
        /\ f.last = t.last /\ f.pages = g /\ f.size0 = t.size0 /\ f.asked = t.asked
        /\ f.bounded = t.bounded
    BY <2>4 DEF Frames
  <2>6. SetTop(f)
    BY <2>1, <2>3, <2>4
  <2>7. /\ t.size0 <= size /\ t.last = Offset(cursor[t.s]) /\ (t.asked # Unset => t.bounded)
        /\ (t.bounded => t.pages = 0)
    BY <1>1, <1>2 DEF Sound
  <2>8. out'[f.s] = reply.next
    BY <1>1, <1>2, <2>1, <2>5 DEF TypeOK
  <2>9. t.size0 \in Nat /\ size \in Nat /\ Offset(cursor[t.s]) \in Nat /\ Len(reply.items) \in Nat
    BY <1>1, <1>2, <2>2, LenProperties DEF TypeOK, Frames, Offset
  <2>10. IF reply.next = 0 THEN f.last + Len(f.items) >= f.size0
                           ELSE f.last + Len(f.items) = reply.next
    BY <2>2, <2>5, <2>7, <2>9
  <2>11. Sound(f)'
    BY <1>1, <2>2, <2>3, <2>5, <2>7, <2>8, <2>10 DEF Sound
  <2>12. \A s \in States \ {Top.s} : cursor'[s] = cursor[s] /\ out'[s] = out[s]
    BY <1>1, <1>2, <2>1 DEF TypeOK
  <2> QED
    BY <1>1, <1>2, <2>5, <2>6, <2>11, <2>12, PagingMove
<1>4. CASE FetchFail
  <2>1. PICK g \in 0..2 : g = MorePages
    BY MorePagesIs
  <2>2. PICK f \in Frames : f = [t EXCEPT !.phase = "error", !.pages = g]
    BY FailedIsFrame
  <2>3. /\ f.s = t.s /\ f.start = t.start /\ f.phase = "error" /\ f.items = t.items
        /\ f.last = t.last /\ f.size0 = t.size0 /\ f.asked = t.asked /\ f.bounded = t.bounded
    BY <2>2 DEF Frames
  <2>4. SetTop(f) /\ UNCHANGED out
    BY <1>2, <1>4, <2>1, <2>2 DEF FetchFail
  <2>5. Sound(f)'
    BY <1>1, <1>2, <2>3 DEF Sound
  <2> QED
    BY <1>1, <1>2, <2>3, <2>4, <2>5, PagingMove
<1> QED
  BY <1>3, <1>4

LEMMA OneOn ==
  ASSUME NEW a \in Nat, NEW m \in Nat
  PROVE  (a + 1) + (m - 1) = a + m /\ a + (m + 1) = (a + 1) + m
OBVIOUS

\* A result goes to the body and its object into the history.
LEMMA YieldStep ==
  ASSUME TypeOK, Paging, Yield
  PROVE  Paging'
<1>1. /\ stack # <<>> /\ Top \in Frames /\ Top.phase = "items" /\ Sound(Top)
      /\ Top.items # <<>> /\ UNCHANGED <<ref, mine, cursor, out, size>>
  <2>1. /\ stack # <<>> /\ Top.phase = "items" /\ Top.items # <<>>
        /\ UNCHANGED <<ref, mine, cursor, out, size>>
    BY DEF Yield, Within, optVars
  <2> QED
    BY <2>1, TopIsFrame DEF TypeOK, Paging
<1>2. PICK t \in Frames : t = Top
  BY <1>1
<1>3. PICK q \in Seq(Nat), n \in Nat : q = Tail(t.items) /\ n = Head(t.items)
  BY <1>1, <1>2, YieldIs
<1>4. /\ Len(t.items) \in Nat \ {0} /\ n = t.items[1] /\ Len(q) = Len(t.items) - 1
      /\ \A k \in 1..Len(q) : q[k] = t.items[k + 1]
  BY <1>1, <1>2, <1>3, YieldIs
<1>5. PICK f \in Frames : f = [t EXCEPT !.phase = "body", !.items = q, !.last = n]
  BY YieldingIsFrame
<1>6. /\ f.s = t.s /\ f.start = t.start /\ f.phase = "body" /\ f.items = q /\ f.last = n
      /\ f.pages = t.pages /\ f.size0 = t.size0 /\ f.asked = t.asked /\ f.bounded = t.bounded
  BY <1>5 DEF Frames
<1>7. SetTop(f)
  BY <1>2, <1>3, <1>5 DEF Yield, Frames
<1>8. /\ t.size0 <= size /\ (t.asked # Unset => t.bounded) /\ (t.bounded => t.pages = 1)
      /\ \A k \in 1..Len(t.items) : t.items[k] = t.last + k
      /\ IF out[t.s] = 0 THEN t.last + Len(t.items) >= t.size0
                         ELSE t.last + Len(t.items) = out[t.s]
  BY <1>1, <1>2 DEF Sound
<1>9. t.last \in Nat /\ n = t.last + 1 /\ n + Len(q) = t.last + Len(t.items)
  <2>1. t.last \in Nat
    BY DEF Frames
  <2>2. 1 \in 1..Len(t.items)
    BY <1>4
  <2>3. n = t.last + 1
    BY <1>4, <1>8, <2>2
  <2>4. Len(q) = Len(t.items) - 1 /\ Len(t.items) \in Nat
    BY <1>4
  <2>5. n + Len(q) = (t.last + 1) + (Len(t.items) - 1)
    BY <2>3, <2>4, Zenon
  <2>6. (t.last + 1) + (Len(t.items) - 1) = t.last + Len(t.items)
    BY <2>1, <2>4, OneOn
  <2> QED
    BY <2>1, <2>3, <2>5, <2>6, Zenon
<1>10. \A k \in 1..Len(q) : q[k] = n + k
  <2>1. ASSUME NEW k \in 1..Len(q) PROVE q[k] = n + k
    <3>1. k + 1 \in 1..Len(t.items) /\ k \in Nat
      BY <1>4
    <3>2. q[k] = t.last + (k + 1)
      BY <1>4, <1>8, <3>1
    <3> QED
      BY <1>9, <3>1, <3>2, OneOn
  <2> QED
    BY <2>1
<1>11. Sound(f)'
  BY <1>1, <1>6, <1>8, <1>9, <1>10 DEF Sound
<1> QED
  BY <1>1, <1>2, <1>6, <1>7, <1>11, PagingMove

\* The body is left for the next result, or the page for the next page.
LEMMA GoOnStep ==
  ASSUME TypeOK, Paging, Continue \/ NextPage
  PROVE  Paging'
<1>1. stack # <<>> /\ Top \in Frames /\ Sound(Top) /\ UNCHANGED <<ref, mine, out, size>>
  <2>1. stack # <<>> /\ UNCHANGED <<ref, mine, out, size>>
    BY DEF Continue, NextPage, Within, optVars
  <2> QED
    BY <2>1, TopIsFrame DEF TypeOK, Paging
<1>2. PICK t \in Frames : t = Top
  BY <1>1
<1>3. CASE Continue
  <2>1. PICK f \in Frames : f = [t EXCEPT !.phase = "items"]
    BY PhaseIsFrame
  <2>2. /\ f.s = t.s /\ f.start = t.start /\ f.phase = "items" /\ f.items = t.items
        /\ f.last = t.last /\ f.pages = t.pages /\ f.size0 = t.size0 /\ f.asked = t.asked
        /\ f.bounded = t.bounded
    BY <2>1 DEF Frames
  <2>3. SetTop(f) /\ UNCHANGED cursor /\ t.phase = "body"
    BY <1>2, <1>3, <2>1 DEF Continue, Within
  <2>4. Sound(f)'
    BY <1>1, <1>2, <2>2, <2>3 DEF Sound
  <2> QED
    BY <1>1, <1>2, <2>2, <2>3, <2>4, PagingMove
<1>4. CASE NextPage
  <2>1. PICK f \in Frames : f = [t EXCEPT !.phase = "fetch"]
    BY PhaseIsFrame
  <2>2. /\ f.s = t.s /\ f.start = t.start /\ f.phase = "fetch" /\ f.items = t.items
        /\ f.last = t.last /\ f.pages = t.pages /\ f.size0 = t.size0 /\ f.asked = t.asked
        /\ f.bounded = t.bounded
    BY <2>1 DEF Frames
  <2>3. /\ SetTop(f) /\ t.phase = "items" /\ t.items = <<>> /\ ~t.bounded /\ out[t.s] # 0
        /\ cursor' = [cursor EXCEPT ![t.s] = out[t.s]]
    BY <1>2, <1>4, <2>1 DEF NextPage, Within, LastPage
  <2>4. t.s \in States /\ t.last \in Nat /\ Len(t.items) = 0
    BY <2>3, EmptySeq DEF Frames
  <2>5. t.last = out[t.s] /\ cursor'[t.s] = t.last /\ out[t.s] # Unset
    BY <1>1, <1>2, <2>3, <2>4, SearchAssumption DEF Sound, TypeOK
  <2>6. Sound(f)'
    BY <1>1, <1>2, <2>2, <2>3, <2>4, <2>5 DEF Sound, Offset
  <2>7. \A s \in States \ {Top.s} : cursor'[s] = cursor[s] /\ out'[s] = out[s]
    BY <1>1, <1>2, <2>3 DEF TypeOK
  <2> QED
    BY <1>1, <1>2, <2>2, <2>3, <2>6, <2>7, PagingMove
<1> QED
  BY <1>3, <1>4

LEMMA PagingStep ==
  ASSUME Reentrant = FALSE
  PROVE  TypeOK /\ Paging /\ [Next]_vars => Paging'
<1> SUFFICES ASSUME TypeOK, Paging, [Next]_vars PROVE Paging'
  OBVIOUS
<1>1. ASSUME NEW b \in Builders, BeginIter(b) PROVE Paging'
  <2>1. stack' \in Seq(Frames)
    BY TypeStep DEF TypeOK
  <2>2. ref[b] \notin Ranged
    BY <1>1, MayIs DEF BeginIter
  <2> QED
    BY <1>1, <2>1, <2>2, PagingBegin
<1>2. CASE Finish \/ Break \/ GiveUp
  BY <1>2, PagingPop DEF Finish, Break, GiveUp, Within, optVars
<1>3. CASE Grow \/ UNCHANGED vars
  <2>1. UNCHANGED <<stack, ref, mine, cursor, out>>
    BY <1>3 DEF Grow, vars, optVars
  <2>2. size' \in Nat /\ size <= size'
    BY <1>3 DEF Grow, vars, TypeOK
  <2>3. Apart' /\ CursorIsCallers'
    BY <2>1 DEF Paging, Apart, CursorIsCallers, Ranged
  <2> QED
    BY <2>1, <2>2, <2>3, PagingOutside
<1> QED
  BY <1>1, <1>2, <1>3, CallerStep, SwitchStep, FetchStep, YieldStep, GoOnStep DEF Next, Iterate

-----------------------------------------------------------------------------
(* The theorems.                                                           *)

\* All variables are of their types.
THEOREM TypeCorrect == Spec => []TypeOK
BY TypeInit, TypeStep, PTL DEF Spec

\* What every reachable state has, when no body uses the builder it ranges over.
THEOREM PagingHolds ==
  ASSUME Reentrant = FALSE
  PROVE  Spec => []Paging
BY PagingInit, PagingStep, TypeCorrect, PTL DEF Spec

\* Between ranges a builder has the cursor its caller gave it, however its last
\* range ended: searchIter puts it back in a deferred function and a format
\* switch copies the state (builders.go:150-153, 260-266).
COROLLARY CursorsKept ==
  ASSUME Reentrant = FALSE
  PROVE  Spec => []CursorIsCallers
<1>1. Paging => CursorIsCallers
  BY DEF Paging
<1> QED
  BY <1>1, PagingHolds, PTL

\* A range yields the objects in order, none twice and none left out, across its
\* pages (builders.go:254-293).
COROLLARY InOrder ==
  ASSUME Reentrant = FALSE
  PROVE  Spec => []YieldsInOrder
<1>1. TypeOK /\ Paging => YieldsInOrder
  <2> SUFFICES ASSUME TypeOK, Paging, NEW i \in DOMAIN stack, NEW k \in DOMAIN stack[i].items
               PROVE  stack[i].items[k] = stack[i].last + k
    BY DEF YieldsInOrder
  <2>1. stack[i] \in Frames /\ Sound(stack[i])
    BY LenProperties, ElementOfSeq DEF TypeOK, Paging
  <2>2. DOMAIN stack[i].items = 1..Len(stack[i].items)
    BY <2>1, LenProperties DEF Frames
  <2> QED
    BY <2>1, <2>2 DEF Sound
<1> QED
  BY <1>1, TypeCorrect, PagingHolds, PTL

\* A range that runs out has yielded every object there was when it began, or, when
\* its caller bounded it, one page (builders.go:257-258, 994-996).
THEOREM WholeYielded ==
  ASSUME Reentrant = FALSE
  PROVE  Spec => YieldsWhole
<1> DEFINE Whole == IF Top.bounded \/ Top.asked # Unset THEN Top.pages = 1
                                                         ELSE Top.last >= Top.size0
<1>1. TypeOK /\ Paging /\ [Next]_vars => [Ends /\ Within("items") => Whole]_vars
  <2> SUFFICES ASSUME TypeOK, Paging, Next, Ends, Within("items") PROVE Whole
    OBVIOUS
  <2>1. stack # <<>> /\ Top \in Frames /\ Sound(Top) /\ Top.phase = "items"
    BY TopIsFrame DEF TypeOK, Paging, Within
  <2>2. stack' # stack /\ Len(stack) \in Nat
    BY LenProperties DEF Ends, TypeOK
  <2>3. Finish
    <3>1. ASSUME NEW f, SetTop(f) PROVE FALSE
      <4>1. Len(stack') = Len(stack)
        BY <3>1, ExceptSeq, LenProperties DEF SetTop, TypeOK
      <4> QED
        BY <2>2, <4>1 DEF Ends
    <3>2. ASSUME NEW b \in Builders, BeginIter(b) PROVE FALSE
      BY <2>1, <3>2 DEF BeginIter, May, CallerRuns
    <3>3. \A b \in Builders : ~Do(b) /\ ~Cursor(b) /\ ~Limit(b)
      BY <2>2 DEF Do, Cursor, Limit
    <3>4. \A b \in Builders, to \in Builders : ~Switch(b, to)
      BY <2>2 DEF Switch
    <3>5. ~Fetch /\ ~FetchFail /\ ~Continue /\ ~NextPage /\ ~Yield
      BY <3>1, Zenon DEF Fetch, FetchFail, Continue, NextPage, Yield
    <3>6. ~Break /\ ~GiveUp
      BY <2>1 DEF Break, GiveUp, Within
    <3>7. ~Grow
      BY <2>2 DEF Grow
    <3> QED
      BY <3>2, <3>3, <3>4, <3>5, <3>6, <3>7 DEF Next, Iterate
  <2>4. Top.items = <<>> /\ Len(Top.items) = 0 /\ (Top.bounded \/ out[Top.s] = 0)
    BY <2>3, EmptySeq DEF Finish, LastPage
  <2>5. Top.last \in Nat
    BY <2>1 DEF Frames
  <2> QED
    BY <2>1, <2>4, <2>5 DEF Sound
<1> QED
  BY <1>1, TypeCorrect, PagingHolds, PTL DEF Spec, YieldsWhole
=============================================================================
