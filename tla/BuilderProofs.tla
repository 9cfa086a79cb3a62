--------------------------- MODULE BuilderProofs ---------------------------
(***************************************************************************)
(* Proofs about Builders, for any number of handles, arrays and calls, and *)
(* about the URLs of Endpoint, for any hosts, paths and options.           *)
(***************************************************************************)
EXTENDS Builders, FiniteSetTheorems, Inductions

\* What a program gives a filter, an endpoint, which is one of Targets, or a field.
FilterWords == UNION {Offers(v).filters : v \in Verbs}
Clause == {<<w, n>> : w \in FilterWords \ {"ENDPOINT"}, n \in Nat}
          \cup {<<w, n, t>> : w \in FilterWords, n \in Nat, t \in DOMAIN Targets}
Slice == [at : Arrays, len : Nat]

\* The heap the slices lie in.
HeapOK ==
  /\ verb \in [Handles -> Verbs \cup {Unset}]
  /\ args \in [Handles -> Slice]
  /\ mem \in [Arrays -> Seq(Clause)]
  /\ asked \in [Handles -> Seq(Clause)]
  /\ queue \in Seq(Slice)
  /\ queued \in Seq(Seq(Clause)) /\ handed \in Seq(Seq(Clause))
  /\ calls \in Nat /\ added \in Nat

Exists(h) == verb[h] # Unset

\* No two handles append to one array.
Apart == \A h, g \in Handles : Exists(h) /\ Exists(g) /\ h # g => args[h].at # args[g].at

\* The array of a handle holds what it was asked to add, and nothing behind it.
Whole ==
  \A h \in Handles : IF Exists(h) THEN mem[args[h].at] = asked[h] /\ args[h].len = Len(asked[h])
                     ELSE asked[h] = <<>>

\* An array nobody refers to is empty.
Clean == \A a \in Arrays : a \notin Held(Handles) \cup Queued(queue) => mem[a] = <<>>

\* A queued slice lies within its array.
Short == \A i \in DOMAIN queue : queue[i].len <= Len(mem[queue[i].at])

\* An array is queued by a call and left by another, so there is always a fresh one.
Room == Cardinality(Queued(queue)) + Cardinality(Queued(queue) \ Held(Handles)) <= calls

Separation == HeapOK /\ Apart /\ Whole /\ Clean /\ Short /\ Room

-----------------------------------------------------------------------------
(* Lemmas about sets, sequences and the operators of Builders.             *)

LEMMA HeldIsFinite ==
  ASSUME HeapOK, NEW H \in SUBSET Handles
  PROVE  IsFiniteSet(Held(H)) /\ Cardinality(Held(H)) <= Cardinality(Handles) /\ Held(H) \subseteq Arrays
<1> DEFINE D == {x \in H : verb[x] # Unset}
           f == [x \in D |-> args[x].at]
<1>1. IsFiniteSet(D) /\ Cardinality(D) <= Cardinality(Handles)
  <2>1. D \in SUBSET Handles
    OBVIOUS
  <2> QED
    BY <2>1, BuildersAssumption, FS_Subset
<1>2. f \in Surjection(D, Held(H))
  BY DEF Surjection, Held
<1>3. IsFiniteSet(Held(H)) /\ Cardinality(Held(H)) <= Cardinality(D)
  BY <1>1, <1>2, FS_Surjection
<1>4. Cardinality(Held(H)) \in Nat /\ Cardinality(D) \in Nat /\ Cardinality(Handles) \in Nat
  BY <1>1, <1>3, BuildersAssumption, FS_CardinalityType
<1>5. Held(H) \subseteq Arrays
  BY DEF Held, HeapOK, Slice
<1> QED
  BY <1>1, <1>3, <1>4, <1>5

LEMMA QueuedIsFinite ==
  ASSUME NEW q \in Seq(Slice)
  PROVE  IsFiniteSet(Queued(q)) /\ Queued(q) \subseteq Arrays
<1> DEFINE f == [i \in DOMAIN q |-> q[i].at]
<1>1. DOMAIN q = 1..Len(q) /\ Len(q) \in Nat /\ q \in [1..Len(q) -> Slice]
  BY LenProperties
<1>2. IsFiniteSet(DOMAIN q)
  BY <1>1, FS_Interval
<1>3. f \in Surjection(DOMAIN q, Queued(q))
  BY DEF Surjection, Queued
<1>4. IsFiniteSet(Queued(q))
  BY <1>2, <1>3, FS_Surjection
<1> QED
  BY <1>1, <1>4 DEF Queued, Slice

LEMMA OneMore ==
  ASSUME NEW S, IsFiniteSet(S), NEW x, NEW T \in SUBSET (S \cup {x})
  PROVE  /\ IsFiniteSet(T) /\ Cardinality(T) \in Nat /\ Cardinality(S) \in Nat
         /\ Cardinality(T) <= Cardinality(S) + 1
<1>1. IsFiniteSet(S \cup {x}) /\ Cardinality(S \cup {x}) <= Cardinality(S) + 1
      /\ Cardinality(S) \in Nat
  BY FS_AddElement, FS_CardinalityType
<1>2. IsFiniteSet(T) /\ Cardinality(T) <= Cardinality(S \cup {x})
  BY <1>1, FS_Subset
<1>3. Cardinality(T) \in Nat /\ Cardinality(S \cup {x}) \in Nat
  BY <1>1, <1>2, FS_CardinalityType
<1> QED
  BY <1>1, <1>2, <1>3

\* While calls are left there is an array nobody refers to.
LEMMA FreshIsFree ==
  ASSUME HeapOK, Room, calls < MaxCalls
  PROVE  Fresh \in Arrays /\ Fresh \notin Held(Handles) /\ Fresh \notin Queued(queue)
<1> DEFINE H == Held(Handles)
           Q == Queued(queue)
<1>1. IsFiniteSet(H) /\ Cardinality(H) <= Cardinality(Handles) /\ H \subseteq Arrays
  BY HeldIsFinite
<1>2. IsFiniteSet(Q) /\ Q \subseteq Arrays
  BY QueuedIsFinite DEF HeapOK
<1> HIDE DEF H, Q
<1>3. IsFiniteSet(Q \ H) /\ Cardinality(Q \ H) \in Nat /\ Cardinality(Q \ H) <= Cardinality(Q)
  <2>1. Q \ H \in SUBSET Q
    OBVIOUS
  <2> QED
    BY <1>2, <2>1, FS_Subset, FS_CardinalityType
<1>4. Cardinality(Q) \in Nat /\ Cardinality(H) \in Nat /\ Cardinality(Handles) \in Nat
      /\ Cardinality(Arrays) \in Nat
  BY <1>1, <1>2, BuildersAssumption, FS_CardinalityType
<1>5. Cardinality(Q) + Cardinality(Q \ H) <= calls /\ calls \in Nat
  BY DEF H, Q, Room, HeapOK
<1>6. Cardinality(Q \ H) <= MaxCalls \div 2
  BY <1>3, <1>4, <1>5, BuildersAssumption
<1>7. Cardinality(H \cup (Q \ H)) <= Cardinality(H) + Cardinality(Q \ H)
  <2>1. H \cap (Q \ H) = {}
    OBVIOUS
  <2> QED
    BY <1>1, <1>3, <1>4, <2>1, FS_Union, FS_EmptySet
<1>8. IsFiniteSet(H \cup (Q \ H)) /\ Cardinality(H \cup (Q \ H)) \in Nat
  BY <1>1, <1>3, FS_Union, FS_CardinalityType
<1>9. Cardinality(H \cup (Q \ H)) < Cardinality(Arrays)
  <2>1. MaxCalls \div 2 \in Nat /\ Cardinality(Arrays) > Cardinality(Handles) + MaxCalls \div 2
    BY BuildersAssumption
  <2> QED
    BY <1>1, <1>3, <1>4, <1>6, <1>7, <1>8, <2>1
<1>10. \E a \in Arrays : a \notin H \cup Q
  <2>1. SUFFICES ASSUME Arrays \subseteq H \cup Q PROVE FALSE
    OBVIOUS
  <2>2. Arrays \in SUBSET (H \cup (Q \ H))
    BY <2>1
  <2>3. Cardinality(Arrays) <= Cardinality(H \cup (Q \ H))
    BY <1>8, <2>2, FS_Subset
  <2> QED
    BY <1>4, <1>8, <1>9, <2>3
<1> QED
  BY <1>10 DEF Fresh, H, Q

\* What of two sequences that agree at its places lies between them is the same.
LEMMA SameSlice ==
  ASSUME NEW S, NEW s \in Seq(S), NEW t \in Seq(S), NEW n \in Nat, n <= Len(s), n <= Len(t),
         \A i \in 1..n : s[i] = t[i]
  PROVE  SubSeq(s, 1, n) = SubSeq(t, 1, n)
<1>1. /\ Len(s) \in Nat /\ Len(t) \in Nat
      /\ \A i \in 1..n : s[i] \in S /\ t[i] \in S
  BY LenProperties, ElementOfSeq
<1>2. /\ SubSeq(s, 1, n) \in Seq(S) /\ SubSeq(t, 1, n) \in Seq(S)
      /\ Len(SubSeq(s, 1, n)) = n /\ Len(SubSeq(t, 1, n)) = n
  BY <1>1, SubSeqProperties
<1>3. \A i \in 1..n : SubSeq(s, 1, n)[i] = s[i] /\ SubSeq(t, 1, n)[i] = t[i]
  BY <1>1, SubSeqProperties
<1> QED
  BY <1>2, <1>3, SeqEqual

\* In an array without a tail, appending in place is appending.
LEMMA InPlace ==
  ASSUME NEW S, NEW s \in Seq(S), NEW e \in S
  PROVE  SubSeq(s, 1, Len(s)) \o <<e>> \o SubSeq(s, Len(s) + 2, Len(s)) = Append(s, e)
<1>1. Len(s) \in Nat /\ SubSeq(s, 1, Len(s)) = s /\ SubSeq(s, Len(s) + 2, Len(s)) = <<>>
  BY LenProperties, SubSeqFull, SubSeqEmpty
<1>2. Append(s, e) = s \o <<e>> /\ Append(s, e) \in Seq(S)
  BY AppendProperties, AppendIsConcat
<1> QED
  BY <1>1, <1>2, ConcatEmptySeq

-----------------------------------------------------------------------------
(* What the operations on slices do to the heap.                           *)

\* The array a handle appends to afterwards, its own or a fresh one, holds one
\* clause more; the others keep what they held, or are empty and nobody's.
Appended(h, clause, a) ==
  /\ a \in Arrays /\ (a = args[h].at \/ a \notin Held(Handles) \cup Queued(queue))
  /\ args' = [args EXCEPT ![h] = [at |-> a, len |-> args[h].len + 1]]
  /\ mem' \in [Arrays -> Seq(Clause)] /\ mem'[a] = Append(asked[h], clause)
  /\ \A x \in Arrays \ {a} :
       IF x \in Held(Handles \ {h}) \cup Queued(queue) THEN mem'[x] = mem[x] ELSE mem'[x] = <<>>

LEMMA AppendToAppends ==
  ASSUME Separation, calls < MaxCalls, NEW h \in Handles, Exists(h),
         NEW clause \in Clause, AppendTo(h, clause)
  PROVE  \E a \in Arrays : Appended(h, clause, a)
<1> DEFINE s == args[h]
           b == s.at
<1>1. /\ s \in Slice /\ b \in Arrays /\ s.len \in Nat
      /\ mem[b] = asked[h] /\ s.len = Len(asked[h]) /\ asked[h] \in Seq(Clause)
  BY DEF Separation, HeapOK, Whole, Exists, Slice
<1>2. Append(asked[h], clause) \in Seq(Clause)
  BY <1>1, AppendProperties
<1>3. \A x \in Arrays : x \in Held(Handles) <=> x \in Held(Handles \ {h}) \/ x = b
  BY DEF Held, Exists
<1>4. CASE s.len < cap[b]
  <2>1. /\ mem' = [mem EXCEPT ![b] = SubSeq(mem[b], 1, s.len) \o <<clause>>
                                      \o SubSeq(mem[b], s.len + 2, Len(mem[b]))]
        /\ args' = [args EXCEPT ![h].len = args[h].len + 1]
    BY <1>4 DEF AppendTo
  <2>2. mem' = [mem EXCEPT ![b] = Append(asked[h], clause)]
    BY <1>1, <2>1, InPlace
  <2>3. args' = [args EXCEPT ![h] = [at |-> b, len |-> s.len + 1]]
    <3>1. [s EXCEPT !.len = s.len + 1] = [at |-> b, len |-> s.len + 1]
      BY <1>1 DEF Slice
    <3>2. args' = [args EXCEPT ![h] = [s EXCEPT !.len = s.len + 1]]
      BY <2>1
    <3> QED
      BY <3>1, <3>2
  <2>4. /\ mem' \in [Arrays -> Seq(Clause)] /\ mem'[b] = Append(asked[h], clause)
        /\ \A x \in Arrays \ {b} : mem'[x] = mem[x]
    BY <1>1, <1>2, <2>2 DEF Separation, HeapOK
  <2>5. \A x \in Arrays \ {b} : x \notin Held(Handles \ {h}) \cup Queued(queue) => mem[x] = <<>>
    BY <1>3 DEF Separation, Clean
  <2> QED
    BY <1>1, <2>3, <2>4, <2>5 DEF Appended
<1>5. CASE ~(s.len < cap[b])
  <2> DEFINE f == Fresh
  <2>1. f \in Arrays /\ f \notin Held(Handles) /\ f \notin Queued(queue)
    BY FreshIsFree DEF Separation
  <2>2. /\ args' = [args EXCEPT ![h] = [at |-> f, len |-> s.len + 1]]
        /\ mem' = [x \in Arrays |-> IF x = f THEN Append(Contents(s), clause)
                                    ELSE IF Garbage(x, h) THEN <<>> ELSE mem[x]]
    BY <1>5 DEF AppendTo
  <2>3. Contents(s) = asked[h]
    BY <1>1, SubSeqFull DEF Contents
  <2> HIDE DEF f
  <2>4. /\ mem'[f] = Append(asked[h], clause)
        /\ \A x \in Arrays \ {f} : mem'[x] = IF Garbage(x, h) THEN <<>> ELSE mem[x]
    BY <2>1, <2>2, <2>3
  <2>5. mem' \in [Arrays -> Seq(Clause)]
    BY <1>2, <2>2, <2>3, EmptySeq DEF Separation, HeapOK
  <2> QED
    BY <2>1, <2>2, <2>4, <2>5 DEF Appended, Garbage
<1> QED
  BY <1>4, <1>5

\* A clone is a fresh array with the same clauses.
LEMMA CloneIsApart ==
  ASSUME Separation, calls < MaxCalls, NEW h \in Handles, Exists(h), NEW to \in Handles,
         Clone(to, args[h])
  PROVE  \E a \in Arrays : /\ a \notin Held(Handles) \cup Queued(queue)
                           /\ args' = [args EXCEPT ![to] = [at |-> a, len |-> args[h].len]]
                           /\ mem' = [mem EXCEPT ![a] = asked[h]]
<1>1. args[h] \in Slice /\ mem[args[h].at] = asked[h] /\ args[h].len = Len(asked[h])
      /\ asked[h] \in Seq(Clause)
  BY DEF Separation, HeapOK, Whole, Exists
<1>2. Contents(args[h]) = asked[h]
  BY <1>1, SubSeqFull DEF Contents
<1>3. Fresh \in Arrays /\ Fresh \notin Held(Handles) /\ Fresh \notin Queued(queue)
  BY FreshIsFree DEF Separation
<1> QED
  BY <1>2, <1>3 DEF Clone

\* What the queued slices hold stays as it is.
SameQueued == queue' = queue /\ \A i \in DOMAIN queue : Contents(queue[i])' = Contents(queue[i])

LEMMA RoomIsTyped ==
  ASSUME HeapOK
  PROVE  /\ IsFiniteSet(Queued(queue)) /\ IsFiniteSet(Queued(queue) \ Held(Handles))
         /\ Cardinality(Queued(queue)) \in Nat /\ Cardinality(Queued(queue) \ Held(Handles)) \in Nat
<1>1. IsFiniteSet(Queued(queue))
  BY QueuedIsFinite DEF HeapOK
<1>2. IsFiniteSet(Queued(queue) \ Held(Handles))
  <2>1. Queued(queue) \ Held(Handles) \in SUBSET Queued(queue)
    OBVIOUS
  <2> QED
    BY <1>1, <2>1, FS_Subset
<1> QED
  BY <1>1, <1>2, FS_CardinalityType

\* A slice in the queue is typed, and so is its array.
LEMMA QueuedSlice ==
  ASSUME HeapOK, NEW i \in DOMAIN queue
  PROVE  queue[i] \in Slice /\ queue[i].at \in Arrays /\ queue[i].len \in Nat
         /\ queue[i].at \in Queued(queue)
<1>1. queue \in [1..Len(queue) -> Slice] /\ DOMAIN queue = 1..Len(queue)
  BY LenProperties DEF HeapOK
<1>2. queue[i] \in Slice /\ queue[i].at \in Queued(queue)
  BY <1>1 DEF Queued
<1> QED
  BY <1>2 DEF Slice

\* A call that touches no slice.
LEMMA SlotsOnly ==
  ASSUME Separation, UNCHANGED <<verb, args, mem, asked, queue, queued, handed>>,
         calls' = calls + 1, added' = added
  PROVE  Separation' /\ SameQueued
<1>1. HeapOK' /\ Apart' /\ Whole' /\ Clean' /\ Short'
  BY DEF Separation, HeapOK, Apart, Whole, Clean, Short, Exists, Held, Queued
<1>2. Room'
  <2>1. Queued(queue)' = Queued(queue) /\ Held(Handles)' = Held(Handles)
    BY DEF Queued, Held
  <2> QED
    BY <2>1, RoomIsTyped DEF Separation, Room, HeapOK
<1>3. SameQueued
  BY DEF SameQueued, Contents
<1> QED
  BY <1>1, <1>2, <1>3 DEF Separation

LEMMA AddSeparates ==
  ASSUME Separation, NEW h \in Handles, Add(h)
  PROVE  Separation' /\ SameQueued /\ \E clause \in Clause : asked' = [asked EXCEPT ![h] = Append(@, clause)]
<1>1. /\ Exists(h) /\ calls < MaxCalls /\ calls' = calls + 1 /\ added' = added + 1
      /\ verb' = verb /\ queue' = queue /\ queued' = queued /\ handed' = handed
  BY DEF Add, Calls, Exists, pipeVars
<1>2. PICK clause \in Clause : /\ AppendTo(h, clause)
                               /\ asked' = [asked EXCEPT ![h] = Append(@, clause)]
  <2>1. PICK w \in Offers(verb[h]).filters : \E clause \in Clauses(h, w) :
          AppendTo(h, clause) /\ asked' = [asked EXCEPT ![h] = Append(@, clause)]
    BY DEF Add
  <2>2. w \in FilterWords
    <3>1. verb[h] \in Verbs
      BY <1>1 DEF Separation, HeapOK, Exists
    <3> QED
      BY <3>1 DEF FilterWords
  <2>3. \A clause \in Clauses(h, w) : clause \in Clause
    <3>1. added + 1 \in Nat
      BY DEF Separation, HeapOK
    <3> QED
      BY <2>2, <3>1 DEF Clauses, Clause
  <2> QED
    BY <2>1, <2>3
<1>3. PICK a \in Arrays : Appended(h, clause, a)
  BY <1>1, <1>2, AppendToAppends
<1> DEFINE b == args[h].at
<1>4. /\ args \in [Handles -> Slice] /\ args[h] \in Slice /\ b \in Arrays /\ asked[h] \in Seq(Clause)
      /\ mem[b] = asked[h] /\ args[h].len = Len(asked[h]) /\ Len(asked[h]) \in Nat
  BY <1>1, LenProperties DEF Separation, HeapOK, Whole, Slice
<1>5. Append(asked[h], clause) \in Seq(Clause) /\ Len(Append(asked[h], clause)) = Len(asked[h]) + 1
      /\ \A i \in 1..Len(asked[h]) : Append(asked[h], clause)[i] = asked[h][i]
  BY <1>4, AppendProperties
<1>6. /\ args' \in [Handles -> Slice] /\ args'[h].at = a /\ args'[h].len = Len(asked[h]) + 1
      /\ \A g \in Handles \ {h} : args'[g] = args[g]
  BY <1>3, <1>4 DEF Appended, Slice
<1>7. asked' \in [Handles -> Seq(Clause)] /\ asked'[h] = Append(asked[h], clause)
      /\ \A g \in Handles \ {h} : asked'[g] = asked[g]
  BY <1>2, <1>5 DEF Separation, HeapOK
<1>8. \A g \in Handles \ {h} : Exists(g) => /\ args[g].at \in Held(Handles \ {h}) /\ args[g].at # a
                                            /\ args[g].at \in Arrays /\ args[g].at # b
  BY <1>1, <1>3, <1>4 DEF Appended, Separation, Apart, Held, Exists, Slice
<1>9. \A i \in DOMAIN queue : queue[i].at = a => a = b
  BY <1>3, QueuedSlice DEF Appended, Separation
<1>10. HeapOK'
  BY <1>1, <1>3, <1>6, <1>7 DEF Appended, Separation, HeapOK
<1>11. Apart'
  BY <1>1, <1>6, <1>8 DEF Separation, Apart, Exists
<1>12. Whole'
  <2>1. \A g \in Handles \ {h} : Exists(g) => mem'[args[g].at] = mem[args[g].at]
    BY <1>3, <1>8 DEF Appended
  <2>2. mem'[a] = Append(asked[h], clause)
    BY <1>3 DEF Appended
  <2>3. Exists(h) /\ mem'[args'[h].at] = asked'[h] /\ args'[h].len = Len(asked'[h])
    BY <1>1, <1>5, <1>6, <1>7, <2>2
  <2>4. ASSUME NEW g \in Handles \ {h}
        PROVE  IF Exists(g)' THEN mem'[args'[g].at] = asked'[g] /\ args'[g].len = Len(asked'[g])
               ELSE asked'[g] = <<>>
    <3>1. args'[g] = args[g] /\ asked'[g] = asked[g] /\ (Exists(g)' <=> Exists(g))
      BY <1>1, <1>6, <1>7 DEF Exists
    <3> QED
      BY <2>1, <3>1 DEF Separation, Whole
  <2> QED
    BY <1>1, <2>3, <2>4 DEF Whole, Exists
<1>13. Held(Handles)' = Held(Handles \ {h}) \cup {a} /\ Queued(queue)' = Queued(queue)
  BY <1>1, <1>6 DEF Held, Queued, Exists
<1>14. Clean'
  BY <1>3, <1>13 DEF Clean, Appended
<1>15. \A i \in DOMAIN queue : /\ queue[i].len <= Len(mem'[queue[i].at])
                               /\ \A j \in 1..queue[i].len : mem'[queue[i].at][j] = mem[queue[i].at][j]
  <2> TAKE i \in DOMAIN queue
  <2>1. queue[i].at \in Queued(queue) /\ queue[i].at \in Arrays /\ queue[i].len \in Nat
        /\ queue[i].len <= Len(mem[queue[i].at])
    BY QueuedSlice DEF Separation, Short
  <2>2. CASE queue[i].at = a
    <3>1. mem[queue[i].at] = asked[h] /\ mem'[queue[i].at] = Append(asked[h], clause)
      BY <1>3, <1>4, <1>9, <2>2 DEF Appended
    <3> QED
      BY <1>4, <1>5, <2>1, <3>1
  <2>3. CASE queue[i].at # a
    BY <1>3, <2>1, <2>3 DEF Appended
  <2> QED
    BY <2>2, <2>3
<1>16. Short'
  BY <1>1, <1>15 DEF Short
<1>17. Room'
  <2> DEFINE Q == Queued(queue)
             B == Q \ Held(Handles)
             A == Q \ Held(Handles)'
  <2>1. \A x : x \in Held(Handles) => x \in Held(Handles \ {h}) \/ x = b
    BY DEF Held
  <2>2. A \in SUBSET (B \cup {b})
    BY <1>13, <2>1
  <2>3. IsFiniteSet(B) /\ Cardinality(B) \in Nat /\ Cardinality(Q) \in Nat
    BY RoomIsTyped DEF Separation
  <2> HIDE DEF A, B
  <2>4. Cardinality(A) \in Nat /\ Cardinality(A) <= Cardinality(B) + 1
    BY <2>2, <2>3, OneMore
  <2>5. Cardinality(Q) + Cardinality(B) <= calls /\ calls \in Nat
    BY DEF B, Separation, Room, HeapOK
  <2>6. Cardinality(Q) + Cardinality(A) <= calls + 1
    BY <2>3, <2>4, <2>5
  <2> QED
    BY <1>1, <1>13, <2>6 DEF A, Room
<1>18. SameQueued
  <2> SUFFICES ASSUME NEW i \in DOMAIN queue PROVE Contents(queue[i])' = Contents(queue[i])
    BY <1>1 DEF SameQueued
  <2>1. queue[i].at \in Arrays /\ queue[i].len \in Nat /\ queue[i].len <= Len(mem[queue[i].at])
    BY QueuedSlice DEF Separation, Short
  <2>2. mem[queue[i].at] \in Seq(Clause) /\ mem'[queue[i].at] \in Seq(Clause)
    BY <1>10, <2>1 DEF Separation, HeapOK
  <2>3. SubSeq(mem'[queue[i].at], 1, queue[i].len) = SubSeq(mem[queue[i].at], 1, queue[i].len)
    BY <1>15, <2>1, <2>2, SameSlice
  <2> QED
    BY <1>1, <2>3 DEF Contents
<1> QED
  BY <1>2, <1>10, <1>11, <1>12, <1>14, <1>16, <1>17, <1>18 DEF Separation

\* A handle begins in an array nobody refers to.
LEMMA NewHandleSeparates ==
  ASSUME Separation, NEW h \in Handles, ~Exists(h), NEW v \in Verbs, v # Unset,
         NEW s \in Seq(Clause), NEW a \in Arrays, a \notin Held(Handles) \cup Queued(queue),
         verb' = [verb EXCEPT ![h] = v], asked' = [asked EXCEPT ![h] = s],
         args' = [args EXCEPT ![h] = [at |-> a, len |-> Len(s)]], mem' = [mem EXCEPT ![a] = s],
         calls' = calls + 1, added' = added, UNCHANGED pipeVars
  PROVE  Separation' /\ SameQueued
<1>1. queue' = queue /\ queued' = queued /\ handed' = handed
  BY DEF pipeVars
<1>2. /\ args \in [Handles -> Slice] /\ verb \in [Handles -> Verbs \cup {Unset}]
      /\ mem \in [Arrays -> Seq(Clause)] /\ asked \in [Handles -> Seq(Clause)] /\ Len(s) \in Nat
  BY LenProperties DEF Separation, HeapOK
<1>3. HeapOK'
  <2>1. [at |-> a, len |-> Len(s)] \in Slice
    BY <1>2 DEF Slice
  <2> QED
    BY <1>1, <1>2, <2>1 DEF Separation, HeapOK
<1>4. /\ args'[h].at = a /\ args'[h].len = Len(s) /\ mem'[a] = s /\ asked'[h] = s /\ verb'[h] = v
      /\ \A g \in Handles \ {h} : args'[g] = args[g] /\ asked'[g] = asked[g] /\ verb'[g] = verb[g]
      /\ \A x \in Arrays \ {a} : mem'[x] = mem[x]
  BY <1>2
<1>5. \A g \in Handles : Exists(g) => g # h /\ args[g].at \in Held(Handles) /\ args[g].at # a
                                      /\ args[g].at \in Arrays
  BY <1>2 DEF Held, Exists, Slice
<1>6. Apart'
  BY <1>4, <1>5 DEF Separation, Apart, Exists
<1>7. Whole'
  BY <1>4, <1>5 DEF Separation, Whole, Exists
<1>8. Held(Handles)' = Held(Handles) \cup {a} /\ Queued(queue)' = Queued(queue)
  BY <1>1, <1>4 DEF Held, Queued, Exists
<1>9. Clean'
  BY <1>4, <1>8 DEF Separation, Clean
<1>10. \A i \in DOMAIN queue : mem'[queue[i].at] = mem[queue[i].at]
  BY <1>4, QueuedSlice DEF Separation
<1>11. Short'
  BY <1>1, <1>10 DEF Separation, Short
<1>12. Room'
  <2>1. Queued(queue) \ (Held(Handles) \cup {a}) = Queued(queue) \ Held(Handles)
    OBVIOUS
  <2> QED
    <3>1. Cardinality(Queued(queue)') + Cardinality(Queued(queue)' \ Held(Handles)') <= calls
      BY <1>8, <2>1 DEF Separation, Room
    <3>2. /\ Cardinality(Queued(queue)') \in Nat /\ calls \in Nat
          /\ Cardinality(Queued(queue)' \ Held(Handles)') \in Nat
      BY <1>8, <2>1, RoomIsTyped DEF Separation, HeapOK
    <3>3. Cardinality(Queued(queue)') + Cardinality(Queued(queue)' \ Held(Handles)') <= calls + 1
      BY <3>1, <3>2
    <3> QED
      BY <3>3 DEF Room
<1>13. SameQueued
  BY <1>1, <1>10 DEF SameQueued, Contents
<1> QED
  BY <1>3, <1>6, <1>7, <1>9, <1>11, <1>12, <1>13 DEF Separation

LEMMA SwitchSeparates ==
  ASSUME Separation, NEW h \in Handles, NEW to \in Handles, Switch(h, to)
  PROVE  Separation' /\ SameQueued
<1>1. /\ Exists(h) /\ ~Exists(to) /\ calls < MaxCalls /\ calls' = calls + 1 /\ added' = added
      /\ Clone(to, args[h]) /\ UNCHANGED pipeVars
      /\ verb' = [verb EXCEPT ![to] = verb[h]] /\ asked' = [asked EXCEPT ![to] = asked[h]]
  BY DEF Switch, Calls, Exists
<1>2. /\ verb[h] \in Verbs /\ verb[h] # Unset /\ asked[h] \in Seq(Clause)
      /\ args[h].len = Len(asked[h])
  BY <1>1 DEF Separation, HeapOK, Whole, Exists
<1>3. PICK a \in Arrays : /\ a \notin Held(Handles) \cup Queued(queue)
                          /\ args' = [args EXCEPT ![to] = [at |-> a, len |-> args[h].len]]
                          /\ mem' = [mem EXCEPT ![a] = asked[h]]
  BY <1>1, CloneIsApart
<1> QED
  BY <1>1, <1>2, <1>3, NewHandleSeparates

LEMMA PipelineSetSeparates ==
  ASSUME Separation, NEW h \in Handles, PipelineSet(h)
  PROVE  Separation' /\ SameQueued
<1>1. /\ ~Exists(h) /\ calls < MaxCalls /\ calls' = calls + 1 /\ added' = added
      /\ verb' = [verb EXCEPT ![h] = "PSET"] /\ asked' = asked /\ mem' = mem
      /\ args' = [args EXCEPT ![h] = [at |-> Fresh, len |-> 0]] /\ UNCHANGED pipeVars
      /\ "PSET" # Unset
  BY DEF PipelineSet, Calls, Exists
<1>2. PICK a \in Arrays : a = Fresh /\ a \notin Held(Handles) \cup Queued(queue)
  BY <1>1, FreshIsFree DEF Separation
<1>3. mem[a] = <<>> /\ asked[h] = <<>> /\ <<>> \in Seq(Clause) /\ Len(<<>>) = 0
  BY <1>1, <1>2, EmptySeq DEF Separation, Clean, Whole
<1>4. mem' = [mem EXCEPT ![a] = <<>>] /\ asked' = [asked EXCEPT ![h] = <<>>]
  BY <1>1, <1>3 DEF Separation, HeapOK
<1>5. "PSET" \in Verbs
  BY DEF Verbs, Objects
<1> QED
  BY <1>1, <1>2, <1>3, <1>4, <1>5, NewHandleSeparates

\* A slice is queued beside its handle: the array is shared, what is before its end
\* no longer written.
LEMMA QueueSeparates ==
  ASSUME Separation, NEW h \in Handles, Queue(h)
  PROVE  /\ Separation' /\ queue' = Append(queue, args[h]) /\ queued' = Append(queued, asked[h])
         /\ handed' = handed /\ args[h] \in Slice /\ Contents(args[h]) = asked[h] /\ mem' = mem
<1>1. /\ Exists(h) /\ calls' = calls + 1 /\ UNCHANGED <<verb, args, mem, added, asked, handed>>
      /\ queue' = Append(queue, args[h]) /\ queued' = Append(queued, Contents(args[h]))
  BY DEF Queue, Calls, Exists
<1>2. /\ args[h] \in Slice /\ mem[args[h].at] = asked[h] /\ args[h].len = Len(asked[h])
      /\ asked[h] \in Seq(Clause) /\ args[h].at \in Held(Handles) /\ Len(asked[h]) \in Nat
  BY <1>1, LenProperties DEF Separation, HeapOK, Whole, Held, Exists
<1>3. Contents(args[h]) = asked[h]
  BY <1>2, SubSeqFull DEF Contents
<1>4. /\ queue \in Seq(Slice) /\ queue' \in Seq(Slice) /\ DOMAIN queue = 1..Len(queue)
      /\ DOMAIN queue' = 1..Len(queue) + 1 /\ Len(queue) \in Nat
      /\ queue'[Len(queue) + 1] = args[h] /\ \A i \in DOMAIN queue : queue'[i] = queue[i]
  BY <1>1, <1>2, AppendProperties, LenProperties DEF Separation, HeapOK
<1>5. HeapOK'
  <2>1. queued' \in Seq(Seq(Clause))
    BY <1>1, <1>2, <1>3, AppendProperties DEF Separation, HeapOK
  <2> QED
    BY <1>1, <1>4, <2>1 DEF Separation, HeapOK
<1>6. Queued(queue)' = Queued(queue) \cup {args[h].at} /\ Held(Handles)' = Held(Handles)
  <2>1. DOMAIN queue' = DOMAIN queue \cup {Len(queue) + 1}
    BY <1>4
  <2>2. Held(Handles)' = Held(Handles)
    BY <1>1 DEF Held
  <2> QED
    BY <1>4, <2>1, <2>2 DEF Queued
<1>7. Apart' /\ Whole'
  BY <1>1 DEF Separation, Apart, Whole, Exists
<1>8. Clean'
  BY <1>1, <1>6 DEF Separation, Clean
<1>9. Short'
  <2> SUFFICES ASSUME NEW i \in DOMAIN queue' PROVE queue'[i].len <= Len(mem[queue'[i].at])
    BY <1>1 DEF Short
  <2>1. CASE i \in DOMAIN queue
    BY <1>4, <2>1 DEF Separation, Short
  <2>2. CASE i = Len(queue) + 1
    BY <1>2, <1>4, <2>2
  <2> QED
    BY <1>4, <2>1, <2>2
<1>10. Room'
  <2> DEFINE Q == Queued(queue)
             H == Held(Handles)
  <2>1. (Q \cup {args[h].at}) \ H = Q \ H
    BY <1>2
  <2>2. IsFiniteSet(Q) /\ Cardinality(Q) \in Nat /\ Cardinality(Q \ H) \in Nat
    BY RoomIsTyped DEF Separation
  <2>3. Cardinality(Q) + Cardinality(Q \ H) <= calls /\ calls \in Nat
    BY DEF Separation, Room, HeapOK
  <2> HIDE DEF Q, H
  <2>4. Cardinality(Q \cup {args[h].at}) <= Cardinality(Q) + 1 /\ Cardinality(Q \cup {args[h].at}) \in Nat
    BY <2>2, OneMore
  <2>5. Cardinality(Q \cup {args[h].at}) + Cardinality((Q \cup {args[h].at}) \ H) <= calls + 1
    <3>1. Cardinality((Q \cup {args[h].at}) \ H) = Cardinality(Q \ H)
      BY <2>1
    <3> QED
      BY <2>2, <2>3, <2>4, <3>1
  <2> QED
    BY <1>1, <1>6, <2>5 DEF Room, Q, H
<1> QED
  BY <1>1, <1>2, <1>3, <1>5, <1>7, <1>8, <1>9, <1>10 DEF Separation

\* What a flush hands to the pool: the commands of the queue.
Batch == [i \in DOMAIN queue |-> Contents(queue[i])]

LEMMA BatchIsTyped ==
  ASSUME HeapOK, Short
  PROVE  Batch \in Seq(Seq(Clause)) /\ Len(Batch) = Len(queue) /\ DOMAIN Batch = DOMAIN queue
<1>1. DOMAIN queue = 1..Len(queue) /\ Len(queue) \in Nat
  BY LenProperties DEF HeapOK
<1>2. ASSUME NEW i \in DOMAIN queue PROVE Contents(queue[i]) \in Seq(Clause)
  <2>1. /\ queue[i].at \in Arrays /\ queue[i].len \in Nat
        /\ queue[i].len <= Len(mem[queue[i].at]) /\ mem[queue[i].at] \in Seq(Clause)
    BY QueuedSlice DEF Short, HeapOK
  <2>2. \A j \in 1..queue[i].len : mem[queue[i].at][j] \in Clause
    <3>1. Len(mem[queue[i].at]) \in Nat
      BY <2>1, LenProperties
    <3> QED
      BY <2>1, <3>1, ElementOfSeq
  <2> QED
    BY <2>1, <2>2, SubSeqProperties DEF Contents
<1>3. Batch \in [1..Len(queue) -> Seq(Clause)]
  BY <1>1, <1>2 DEF Batch
<1>4. Batch \in Seq(Seq(Clause))
  BY <1>1, <1>3, SeqDef
<1> QED
  BY <1>1, <1>3, <1>4, LenProperties DEF Batch

LEMMA FlushSeparates ==
  ASSUME Separation, NEW h \in Handles, Flush(h)
  PROVE  Separation' /\ queue' = <<>> /\ handed' = handed \o Batch /\ queued' = queued
<1>1. /\ calls' = calls + 1 /\ UNCHANGED <<verb, args, added, asked, queued>>
      /\ handed' = handed \o Batch /\ queue' = <<>>
      /\ mem' = [a \in Arrays |-> IF a \in Held(Handles) THEN mem[a] ELSE <<>>]
  BY DEF Flush, Calls, Exists, Batch
<1>2. HeapOK'
  <2>1. mem' \in [Arrays -> Seq(Clause)]
    BY <1>1, EmptySeq DEF Separation, HeapOK
  <2>2. handed' \in Seq(Seq(Clause))
    BY <1>1, BatchIsTyped, ConcatProperties DEF Separation, HeapOK
  <2> QED
    BY <1>1, <2>1, <2>2, EmptySeq DEF Separation, HeapOK
<1>3. \A g \in Handles : Exists(g) => args[g].at \in Held(Handles) /\ args[g].at \in Arrays
  BY DEF Held, Exists, Separation, HeapOK, Slice
<1>4. Apart' /\ Whole'
  BY <1>1, <1>3 DEF Separation, Apart, Whole, Exists
<1>5. Held(Handles)' = Held(Handles) /\ Queued(queue)' = {} /\ DOMAIN queue' = {}
  BY <1>1 DEF Held, Queued
<1>6. Clean' /\ Short'
  BY <1>1, <1>5 DEF Clean, Short
<1>7. Room'
  <2>1. {} \ Held(Handles) = {} /\ Cardinality({}) = 0
    BY FS_EmptySet
  <2>2. Cardinality(Queued(queue)') + Cardinality(Queued(queue)' \ Held(Handles)') = 0
    BY <1>5, <2>1
  <2> QED
    BY <1>1, <2>2 DEF Room, Separation, HeapOK
<1> QED
  BY <1>1, <1>2, <1>4, <1>6, <1>7 DEF Separation

-----------------------------------------------------------------------------
(* Separation, and what follows for a pipeline.                            *)

LEMMA SeparationInit == Init => Separation /\ PipelineExact
<1> SUFFICES ASSUME Init PROVE Separation /\ PipelineExact
  OBVIOUS
<1>1. PICK h \in Handles, v \in Verbs : verb = [x \in Handles |-> IF x = h THEN v ELSE Unset]
  BY DEF Init
<1>2. (CHOOSE a \in Arrays : TRUE) \in Arrays
  <2>1. Cardinality(Handles) \in Nat /\ Cardinality(Arrays) \in Nat /\ MaxCalls \div 2 \in Nat
    BY BuildersAssumption, FS_CardinalityType
  <2>2. Arrays # {}
    BY <2>1, BuildersAssumption, FS_EmptySet
  <2> QED
    BY <2>2
<1>3. /\ args = [x \in Handles |-> [at |-> CHOOSE a \in Arrays : TRUE, len |-> 0]]
      /\ mem = [x \in Arrays |-> <<>>] /\ calls = 0 /\ added = 0
      /\ asked = [x \in Handles |-> <<>>] /\ queue = <<>> /\ queued = <<>> /\ handed = <<>>
  BY DEF Init
<1>4. HeapOK
  <2>1. [at |-> CHOOSE a \in Arrays : TRUE, len |-> 0] \in Slice
    BY <1>2 DEF Slice
  <2> QED
    BY <1>1, <1>3, <2>1, EmptySeq DEF HeapOK
<1>5. Apart
  BY <1>1 DEF Apart, Exists
<1>6. Whole /\ Clean
  <2>1. Len(<<>>) = 0
    BY EmptySeq
  <2> QED
    BY <1>2, <1>3, <2>1 DEF Whole, Clean
<1>7. DOMAIN queue = {} /\ Queued(queue) = {}
  BY <1>3 DEF Queued
<1>8. Short
  BY <1>7 DEF Short
<1>9. Room
  <2>1. {} \ Held(Handles) = {} /\ Cardinality({}) = 0
    BY FS_EmptySet
  <2>2. Cardinality(Queued(queue)) + Cardinality(Queued(queue) \ Held(Handles)) = 0
    BY <1>7, <2>1
  <2> QED
    BY <1>3, <2>2 DEF Room
<1>10. PipelineExact
  <2>1. Batch = <<>>
    BY <1>7, <1>3 DEF Batch
  <2> QED
    BY <1>3, <2>1 DEF PipelineExact, Batch
<1> QED
  BY <1>4, <1>5, <1>6, <1>8, <1>9, <1>10 DEF Separation

LEMMA SameBatch ==
  ASSUME PipelineExact, SameQueued, handed' = handed, queued' = queued
  PROVE  PipelineExact'
<1>1. [i \in DOMAIN queue |-> Contents(queue[i])]' = [i \in DOMAIN queue |-> Contents(queue[i])]
  BY DEF SameQueued
<1> QED
  BY <1>1 DEF PipelineExact

LEMMA SeparationStep ==
  ASSUME Separation, PipelineExact, [Next]_vars
  PROVE  Separation' /\ PipelineExact'
<1>1. CASE UNCHANGED vars
  <2>1. HeapOK' /\ Apart' /\ Whole' /\ Clean' /\ Short' /\ Room'
    BY <1>1 DEF Separation, HeapOK, Apart, Whole, Clean, Short, Room, Exists, Held, Queued, vars, pipeVars
  <2>2. PipelineExact'
    BY <1>1 DEF PipelineExact, Contents, vars, pipeVars
  <2> QED
    BY <2>1, <2>2 DEF Separation
<1>2. ASSUME NEW h \in Handles, Set(h) \/ Area(h) \/ Compare(h)
      PROVE  Separation' /\ PipelineExact'
  <2>1. /\ UNCHANGED <<verb, args, mem, asked, queue, queued, handed>>
        /\ calls' = calls + 1 /\ added' = added
    BY <1>2 DEF Set, Area, Compare, Calls, pipeVars
  <2> QED
    BY <2>1, SlotsOnly, SameBatch
<1>3. ASSUME NEW h \in Handles, Add(h) PROVE Separation' /\ PipelineExact'
  BY <1>3, AddSeparates, SameBatch DEF Add, pipeVars
<1>4. ASSUME NEW h \in Handles, NEW to \in Handles, Switch(h, to)
      PROVE  Separation' /\ PipelineExact'
  BY <1>4, SwitchSeparates, SameBatch DEF Switch, pipeVars
<1>5. ASSUME NEW h \in Handles, PipelineSet(h) PROVE Separation' /\ PipelineExact'
  BY <1>5, PipelineSetSeparates, SameBatch DEF PipelineSet, pipeVars
<1>6. ASSUME NEW h \in Handles, Queue(h) PROVE Separation' /\ PipelineExact'
  <2>1. /\ Separation' /\ queue' = Append(queue, args[h]) /\ queued' = Append(queued, asked[h])
        /\ handed' = handed /\ args[h] \in Slice /\ Contents(args[h]) = asked[h] /\ mem' = mem
    BY <1>6, QueueSeparates
  <2>2. /\ Batch \in Seq(Seq(Clause)) /\ Len(Batch) = Len(queue) /\ DOMAIN Batch = DOMAIN queue
        /\ Batch' \in Seq(Seq(Clause)) /\ Len(Batch') = Len(queue')
    <3>1. Batch \in Seq(Seq(Clause)) /\ Len(Batch) = Len(queue) /\ DOMAIN Batch = DOMAIN queue
      BY BatchIsTyped DEF Separation
    <3>2. (HeapOK /\ Short => Batch \in Seq(Seq(Clause)) /\ Len(Batch) = Len(queue))'
      BY BatchIsTyped, PTL
    <3> QED
      BY <2>1, <3>1, <3>2 DEF Separation
  <2>3. /\ queue \in Seq(Slice) /\ Len(queue) \in Nat /\ DOMAIN queue = 1..Len(queue)
        /\ Len(queue') = Len(queue) + 1 /\ DOMAIN queue' = 1..Len(queue) + 1
        /\ queue'[Len(queue) + 1] = args[h] /\ \A i \in 1..Len(queue) : queue'[i] = queue[i]
    BY <2>1, AppendProperties, LenProperties DEF Separation, HeapOK
  <2>4. asked[h] \in Seq(Clause)
    BY DEF Separation, HeapOK
  <2>5. Batch' = Append(Batch, asked[h])
    <3>1. Append(Batch, asked[h]) \in Seq(Seq(Clause)) /\ Len(Append(Batch, asked[h])) = Len(queue) + 1
          /\ Append(Batch, asked[h])[Len(queue) + 1] = asked[h]
          /\ \A i \in 1..Len(queue) : Append(Batch, asked[h])[i] = Batch[i]
      BY <2>2, <2>4, AppendProperties
    <3>2. \A s : Contents(s)' = Contents(s)
      BY <2>1 DEF Contents
    <3>3. \A i \in 1..Len(queue) + 1 : Batch'[i] = Contents(queue'[i])
      BY <2>3, <3>2 DEF Batch
    <3>4. \A i \in 1..Len(queue) : Batch[i] = Contents(queue[i])
      BY <2>3 DEF Batch
    <3>5. \A i \in 1..Len(queue) + 1 : Batch'[i] = Append(Batch, asked[h])[i]
      BY <2>1, <2>3, <3>1, <3>3, <3>4
    <3> QED
      BY <2>2, <2>3, <3>1, <3>5, SeqEqual
  <2>6. handed \o Append(Batch, asked[h]) = Append(handed \o Batch, asked[h])
    <3>1. /\ Append(Batch, asked[h]) = Batch \o <<asked[h]>> /\ <<asked[h]>> \in Seq(Seq(Clause))
          /\ handed \in Seq(Seq(Clause)) /\ handed \o Batch \in Seq(Seq(Clause))
      BY <2>2, <2>4, AppendIsConcat, ConcatProperties DEF Separation, HeapOK
    <3>2. Append(handed \o Batch, asked[h]) = (handed \o Batch) \o <<asked[h]>>
      BY <3>1, <2>4, AppendIsConcat
    <3> QED
      BY <2>2, <3>1, <3>2, ConcatAssociative
  <2>7. handed \o Batch = queued
    BY DEF PipelineExact, Batch
  <2>8. handed' \o Batch' = queued'
    BY <2>1, <2>5, <2>6, <2>7
  <2> QED
    BY <2>1, <2>8 DEF PipelineExact, Batch
<1>7. ASSUME NEW h \in Handles, Flush(h) PROVE Separation' /\ PipelineExact'
  <2>1. Separation' /\ queue' = <<>> /\ handed' = handed \o Batch /\ queued' = queued
    BY <1>7, FlushSeparates
  <2>2. Batch' = <<>>
    BY <2>1 DEF Batch
  <2>3. handed \o Batch = queued /\ handed \o Batch \in Seq(Seq(Clause))
    BY BatchIsTyped, ConcatProperties DEF PipelineExact, Batch, Separation, HeapOK
  <2>4. handed' \o Batch' = queued'
    BY <2>1, <2>2, <2>3, ConcatEmptySeq
  <2> QED
    BY <2>1, <2>4 DEF PipelineExact, Batch
<1> QED
  BY <1>1, <1>2, <1>3, <1>4, <1>5, <1>6, <1>7 DEF Next

\* No two handles share an array, each holds what it was asked to add, and what is
\* queued lies in arrays that nobody overwrites.
THEOREM SeparationHolds == Spec => []Separation
<1>1. Init => Separation /\ PipelineExact
  BY SeparationInit
<1>2. Separation /\ PipelineExact /\ [Next]_vars => Separation' /\ PipelineExact'
  BY SeparationStep
<1> QED
  BY <1>1, <1>2, PTL DEF Spec

\* A pipeline hands over every command as it was when it was queued, in order and
\* once (builders.go, Pipeline).
THEOREM PipelineIsExact == Spec => []PipelineExact
<1>1. Init => Separation /\ PipelineExact
  BY SeparationInit
<1>2. Separation /\ PipelineExact /\ [Next]_vars => Separation' /\ PipelineExact'
  BY SeparationStep
<1> QED
  BY <1>1, <1>2, PTL DEF Spec

-----------------------------------------------------------------------------
(* The clauses of some words.                                              *)

\* One step of the recursion, and its first steps.
Kept(s, words, f, i) == IF s[i][1] \in words THEN Append(f[i - 1], s[i]) ELSE f[i - 1]
KeptUpTo(s, words, n, f) ==
  f = [i \in 0..n |-> IF i = 0 THEN <<>> ELSE Kept(s, words, f, i)]

LEMMA KeptEquation ==
  ASSUME NEW s, NEW words, NEW n \in Nat, NEW f, KeptUpTo(s, words, n, f)
  PROVE  f[0] = <<>> /\ \A i \in 1..n : f[i] = Kept(s, words, f, i)
<1>1. \A i \in 0..n : f[i] = IF i = 0 THEN <<>> ELSE Kept(s, words, f, i)
  BY DEF KeptUpTo
<1>2. 0 \in 0..n /\ \A i \in 1..n : i \in 0..n /\ i # 0
  OBVIOUS
<1> QED
  BY <1>1, <1>2

\* The recursion of Only defines a function.
LEMMA KeptExists ==
  ASSUME NEW s, NEW words
  PROVE  \A n \in Nat : \E f : KeptUpTo(s, words, n, f)
<1> DEFINE T == {n \in Nat : \E f : KeptUpTo(s, words, n, f)}
<1>1. 0 \in T
  <2> DEFINE f == [i \in 0..0 |-> <<>>]
  <2>1. KeptUpTo(s, words, 0, f)
    BY DEF KeptUpTo
  <2> QED
    BY <2>1
<1>2. ASSUME NEW n \in Nat, n \in T PROVE n + 1 \in T
  <2>1. PICK f : KeptUpTo(s, words, n, f)
    BY <1>2
  <2> DEFINE last == Kept(s, words, f, n + 1)
             g == [i \in 0..n + 1 |-> IF i = n + 1 THEN last ELSE f[i]]
  <2>2. \A i \in 0..n : g[i] = f[i]
    OBVIOUS
  <2>3. f[0] = <<>> /\ \A i \in 1..n : f[i] = Kept(s, words, f, i)
    BY <2>1, KeptEquation
  <2>5. g[n + 1] = last
    OBVIOUS
  <2>6. \A i \in 1..n : i \in 0..n /\ i - 1 \in 0..n /\ i # n + 1
    OBVIOUS
  <2>7. \A i \in 0..n + 1 : g[i] = IF i = 0 THEN <<>> ELSE Kept(s, words, g, i)
    <3> TAKE i \in 0..n + 1
    <3>1. CASE i = 0
      BY <2>2, <2>3, <3>1
    <3>2. CASE i \in 1..n
      BY <2>2, <2>3, <2>6, <3>2 DEF Kept
    <3>3. CASE i = n + 1
      BY <2>2, <2>5, <3>3 DEF Kept
    <3> QED
      BY <3>1, <3>2, <3>3
  <2>8. KeptUpTo(s, words, n + 1, g)
    BY <2>7 DEF KeptUpTo
  <2> QED
    BY <2>8
<1> HIDE DEF T
<1>3. \A n \in Nat : n \in T
  BY <1>1, <1>2, NatSet
<1> QED
  BY <1>3 DEF T

LEMMA OnlyIsKept ==
  ASSUME NEW S, NEW s \in Seq(S), NEW words
  PROVE  \E f : KeptUpTo(s, words, Len(s), f) /\ Only(s, words) = f[Len(s)]
<1>1. \E f : KeptUpTo(s, words, Len(s), f)
  BY KeptExists, LenProperties
<1> DEFINE f == CHOOSE f : KeptUpTo(s, words, Len(s), f)
<1>2. KeptUpTo(s, words, Len(s), f)
  BY <1>1
<1>3. Only(s, words) = f[Len(s)]
  BY DEF Only, KeptUpTo, Kept
<1> QED
  BY <1>2, <1>3

\* Where two sequences agree their recursions do.
LEMMA KeptAgree ==
  ASSUME NEW s, NEW t, NEW words, NEW n \in Nat, NEW f, NEW g,
         KeptUpTo(s, words, n, f), KeptUpTo(t, words, n + 1, g), \A i \in 1..n : s[i] = t[i]
  PROVE  f[n] = g[n]
<1> DEFINE T == {i \in Nat : i <= n => f[i] = g[i]}
<1>1. f[0] = <<>> /\ \A i \in 1..n : f[i] = Kept(s, words, f, i)
  BY KeptEquation
<1>2. g[0] = <<>> /\ \A i \in 1..n + 1 : g[i] = Kept(t, words, g, i)
  <2>1. n + 1 \in Nat
    OBVIOUS
  <2> QED
    BY <2>1, KeptEquation
<1>3. 0 \in T
  BY <1>1, <1>2
<1>4. ASSUME NEW i \in Nat, i \in T PROVE i + 1 \in T
  <2> SUFFICES ASSUME i + 1 <= n PROVE f[i + 1] = g[i + 1]
    OBVIOUS
  <2>1. f[i] = g[i] /\ s[i + 1] = t[i + 1] /\ i + 1 \in 1..n /\ i + 1 \in 1..n + 1 /\ (i + 1) - 1 = i
    BY <1>4
  <2>2. f[i + 1] = Kept(s, words, f, i + 1) /\ g[i + 1] = Kept(t, words, g, i + 1)
    BY <2>1, <1>1, <1>2
  <2> QED
    BY <2>1, <2>2 DEF Kept
<1> HIDE DEF T
<1>5. \A i \in Nat : i \in T
  BY <1>3, <1>4, NatSet
<1> QED
  BY <1>5 DEF T

LEMMA OnlyEmpty == \A words : Only(<<>>, words) = <<>>
<1> TAKE words
<1>1. <<>> \in Seq({}) /\ Len(<<>>) = 0
  BY EmptySeq
<1>2. PICK f : KeptUpTo(<<>>, words, 0, f) /\ Only(<<>>, words) = f[0]
  BY <1>1, OnlyIsKept
<1> QED
  BY <1>2 DEF KeptUpTo

LEMMA OnlyAppend ==
  ASSUME NEW S, NEW s \in Seq(S), NEW e \in S, NEW words
  PROVE  Only(Append(s, e), words) = IF e[1] \in words THEN Append(Only(s, words), e) ELSE Only(s, words)
<1> DEFINE t == Append(s, e)
           n == Len(s)
<1>1. n \in Nat /\ t \in Seq(S) /\ Len(t) = n + 1 /\ t[n + 1] = e /\ \A i \in 1..n : s[i] = t[i]
  BY AppendProperties, LenProperties
<1> HIDE DEF t, n
<1>2. PICK f : KeptUpTo(s, words, n, f) /\ Only(s, words) = f[n]
  BY OnlyIsKept DEF n
<1>3. PICK g : KeptUpTo(t, words, n + 1, g) /\ Only(t, words) = g[n + 1]
  BY <1>1, OnlyIsKept
<1>4. f[n] = g[n]
  BY <1>1, <1>2, <1>3, KeptAgree
<1>5. g[n + 1] = IF t[n + 1][1] \in words THEN Append(g[n], t[n + 1]) ELSE g[n]
  <2>1. n + 1 \in Nat /\ n + 1 \in 1..n + 1 /\ (n + 1) - 1 = n
    BY <1>1
  <2>2. \A i \in 1..n + 1 : g[i] = Kept(t, words, g, i)
    BY <1>3, <2>1, KeptEquation
  <2> QED
    BY <2>1, <2>2 DEF Kept
<1> QED
  BY <1>1, <1>2, <1>3, <1>4, <1>5 DEF t

\* It keeps members with one of the words.
LEMMA OnlyMembers ==
  ASSUME NEW S, NEW words
  PROVE  \A s \in Seq(S) : Only(s, words) \in Seq({c \in S : c[1] \in words})
<1> DEFINE K == Seq({c \in S : c[1] \in words})
           T == {s \in Seq(S) : Only(s, words) \in K}
<1>1. <<>> \in T
  BY OnlyEmpty, EmptySeq
<1>2. ASSUME NEW s \in Seq(S), NEW e \in S, s \in T PROVE Append(s, e) \in T
  <2>1. Only(s, words) \in K /\ Append(s, e) \in Seq(S)
    BY <1>2, AppendProperties
  <2>2. e[1] \in words => Append(Only(s, words), e) \in K
    <3>1. e[1] \in words => e \in {c \in S : c[1] \in words}
      OBVIOUS
    <3> QED
      BY <2>1, <3>1, AppendProperties
  <2> HIDE DEF K
  <2>3. Only(Append(s, e), words) = IF e[1] \in words THEN Append(Only(s, words), e) ELSE Only(s, words)
    BY OnlyAppend
  <2>4. Only(Append(s, e), words) \in K
    BY <2>1, <2>2, <2>3
  <2> QED
    BY <2>1, <2>4
<1> HIDE DEF T
<1>3. \A s \in Seq(S) : s \in T
  BY <1>1, <1>2, SeqSet
<1> QED
  BY <1>3 DEF T

LEMMA OnlyIsTyped ==
  ASSUME NEW S, NEW s \in Seq(S), NEW words
  PROVE  Only(s, words) \in Seq(S)
<1>1. Only(s, words) \in Seq({c \in S : c[1] \in words})
  BY OnlyMembers
<1>2. {c \in S : c[1] \in words} \subseteq S
  OBVIOUS
<1> QED
  BY <1>1, <1>2, SeqMonotonic

LEMMA OnlyConcat ==
  ASSUME NEW S, NEW s \in Seq(S), NEW words
  PROVE  \A t \in Seq(S) : Only(s \o t, words) = Only(s, words) \o Only(t, words)
<1> DEFINE T == {t \in Seq(S) : Only(s \o t, words) = Only(s, words) \o Only(t, words)}
<1>1. Only(s, words) \in Seq(S)
  BY OnlyIsTyped
<1>2. <<>> \in T
  BY <1>1, OnlyEmpty, EmptySeq, ConcatEmptySeq
<1>3. ASSUME NEW t \in Seq(S), NEW e \in S, t \in T PROVE Append(t, e) \in T
  <2>1. s \o t \in Seq(S) /\ Append(t, e) \in Seq(S) /\ <<e>> \in Seq(S) /\ Only(t, words) \in Seq(S)
    BY ConcatProperties, AppendProperties, OnlyIsTyped
  <2>2. s \o Append(t, e) = Append(s \o t, e)
    BY <2>1, AppendIsConcat, ConcatAssociative
  <2>3. Only(s, words) \o Append(Only(t, words), e) = Append(Only(s, words) \o Only(t, words), e)
    <3>1. Only(s, words) \o Only(t, words) \in Seq(S)
      BY <1>1, <2>1, ConcatProperties
    <3> QED
      BY <1>1, <2>1, <3>1, AppendIsConcat, ConcatAssociative, SMTT(30)
  <2>4. Only(Append(s \o t, e), words)
          = IF e[1] \in words THEN Append(Only(s \o t, words), e) ELSE Only(s \o t, words)
    BY ZenonT(40), <2>1, OnlyAppend
  <2>5. Only(Append(t, e), words) = IF e[1] \in words THEN Append(Only(t, words), e) ELSE Only(t, words)
    BY OnlyAppend
  <2> QED
    BY <1>3, <2>1, <2>2, <2>3, <2>4, <2>5
<1> HIDE DEF T
<1>4. \A t \in Seq(S) : t \in T
  BY <1>2, <1>3, SeqSet
<1> QED
  BY <1>4 DEF T

\* All of them, none of them, and some of some.
LEMMA OnlyAll ==
  ASSUME NEW S, NEW words, \A c \in S : c[1] \in words
  PROVE  \A s \in Seq(S) : Only(s, words) = s
<1> DEFINE T == {s \in Seq(S) : Only(s, words) = s}
<1>1. <<>> \in T
  BY OnlyEmpty, EmptySeq
<1>2. ASSUME NEW s \in Seq(S), NEW e \in S, s \in T PROVE Append(s, e) \in T
  BY <1>2, OnlyAppend, AppendProperties
<1> HIDE DEF T
<1>3. \A s \in Seq(S) : s \in T
  BY <1>1, <1>2, SeqSet
<1> QED
  BY <1>3 DEF T

LEMMA OnlyNone ==
  ASSUME NEW S, NEW words, \A c \in S : c[1] \notin words
  PROVE  \A s \in Seq(S) : Only(s, words) = <<>>
<1> DEFINE T == {s \in Seq(S) : Only(s, words) = <<>>}
<1>1. <<>> \in T
  BY OnlyEmpty, EmptySeq
<1>2. ASSUME NEW s \in Seq(S), NEW e \in S, s \in T PROVE Append(s, e) \in T
  BY <1>2, OnlyAppend, AppendProperties
<1> HIDE DEF T
<1>3. \A s \in Seq(S) : s \in T
  BY <1>1, <1>2, SeqSet
<1> QED
  BY <1>3 DEF T

LEMMA OnlyOnly ==
  ASSUME NEW S, NEW v, NEW w, w \subseteq v
  PROVE  \A s \in Seq(S) : Only(Only(s, v), w) = Only(s, w)
<1> DEFINE T == {s \in Seq(S) : Only(Only(s, v), w) = Only(s, w)}
<1>1. <<>> \in T
  BY OnlyEmpty, EmptySeq
<1>2. ASSUME NEW s \in Seq(S), NEW e \in S, s \in T PROVE Append(s, e) \in T
  <2>1. Only(s, v) \in Seq(S) /\ Append(s, e) \in Seq(S)
    BY OnlyIsTyped, AppendProperties
  <2>2. Only(Append(Only(s, v), e), w)
          = IF e[1] \in w THEN Append(Only(Only(s, v), w), e) ELSE Only(Only(s, v), w)
    BY <2>1, OnlyAppend
  <2>3. /\ Only(Append(s, e), v) = IF e[1] \in v THEN Append(Only(s, v), e) ELSE Only(s, v)
        /\ Only(Append(s, e), w) = IF e[1] \in w THEN Append(Only(s, w), e) ELSE Only(s, w)
    BY OnlyAppend
  <2> QED
    BY <1>2, <2>1, <2>2, <2>3
<1> HIDE DEF T
<1>3. \A s \in Seq(S) : s \in T
  BY <1>1, <1>2, SeqSet
<1> QED
  BY <1>3 DEF T

LEMMA OnlySame ==
  ASSUME NEW S, NEW v, NEW w, \A c \in S : c[1] \in v <=> c[1] \in w
  PROVE  \A s \in Seq(S) : Only(s, v) = Only(s, w)
<1> DEFINE T == {s \in Seq(S) : Only(s, v) = Only(s, w)}
<1>1. <<>> \in T
  BY OnlyEmpty, EmptySeq
<1>2. ASSUME NEW s \in Seq(S), NEW e \in S, s \in T PROVE Append(s, e) \in T
  <2>1. /\ Only(Append(s, e), v) = IF e[1] \in v THEN Append(Only(s, v), e) ELSE Only(s, v)
        /\ Only(Append(s, e), w) = IF e[1] \in w THEN Append(Only(s, w), e) ELSE Only(s, w)
    BY OnlyAppend
  <2> QED
    BY <1>2, <2>1, AppendProperties, SMTT(30)
<1> HIDE DEF T
<1>3. \A s \in Seq(S) : s \in T
  BY <1>1, <1>2, SeqSet
<1> QED
  BY <1>3 DEF T

-----------------------------------------------------------------------------
(* What the slots of a handle hold.                                        *)

Areas == {"POINT", "ROAM", "GET", "OBJECT", "BOUNDS", "CIRCLE", "A5", "SECTOR", "HASH", "QUADKEY", "TILE"}
AllFormats == {"IDS", "POINTS", "DISTANCE", "OBJECTS", "BOUNDS", "HASHES", "A5", "STRINGS"}
SlotValue == {"x", "ASC", "DESC", Unset} \cup Spatial \cup Areas \cup AllFormats

Filled(o, v) ==
  /\ o \in [Slots -> SlotValue]
  /\ o["area"] \in Offers(v).areas \cup {Unset}
  /\ o["order"] \in {"ASC", "DESC", Unset}
  /\ v \in Spatial \cup Plain => o["format"] \in Formats(v)
  /\ v # "TEST" => o["trigger"] \in Spatial \cup {Unset}
  /\ v = "TEST" => /\ o["first"] \in TestOffers.areas
                   /\ o["trigger"] # Unset => /\ o["trigger"] \in {"WITHIN", "INTERSECTS"}
                                              /\ o["area"] # Unset

\* A handle was asked only what its builder offers.
Offered(v) == {c \in Clause : c[1] \in Offers(v).filters}

Slotted ==
  /\ verb \in [Handles -> Verbs \cup {Unset}]
  /\ slot \in [Handles -> [Slots -> SlotValue]]
  /\ \A h \in Handles : IF Exists(h) THEN Filled(slot[h], verb[h]) /\ asked[h] \in Seq(Offered(verb[h]))
                         ELSE slot[h] = NoSlots /\ asked[h] = <<>>

LEMMA OffersAre ==
  /\ Offers("NEARBY") = NearbyOffers /\ Offers("WITHIN") = WithinOffers
  /\ Offers("INTERSECTS") = IntersectsOffers /\ Offers("SCAN") = ScanOffers
  /\ Offers("SEARCH") = SearchOffers /\ Offers("SETHOOK") = HookOffers
  /\ Offers("SETCHAN") = ChanOffers /\ Offers("SET") = SetOffers /\ Offers("FSET") = FSetOffers
  /\ Offers("PSET") = PipelineSetOffers /\ Offers("TEST") = TestOffers
BY Zenon DEF Offers

LEMMA HoldsAre ==
  ASSUME NEW v
  PROVE  /\ Holds(v, "order") = {"ASC", "DESC"} /\ Holds(v, "trigger") = Spatial
         /\ Holds(v, "area") = Offers(v).areas \cap Used
         /\ Holds(v, "format") = Formats(v) \cap Used
         /\ \A s : s \notin {"order", "trigger", "area", "format"} => Holds(v, s) = {"x"}
BY Zenon DEF Holds

LEMMA FormatsAre ==
  /\ Formats("NEARBY") = NearbyFormats /\ Formats("WITHIN") = WithinFormats
  /\ Formats("INTERSECTS") = IntersectsFormats /\ Formats("SCAN") = ScanFormats
  /\ Formats("SEARCH") = SearchFormats
BY Zenon DEF Formats

\* Which slots a method may set, and to what.
LEMMA SlotsOffered ==
  ASSUME NEW v \in Verbs, NEW s \in Offers(v).slots, NEW x \in Holds(v, s)
  PROVE  /\ s \in Slots \ {"area", "format", "first"} /\ x \in SlotValue /\ v # "TEST"
         /\ s = "order" => x \in {"ASC", "DESC"}
         /\ s = "trigger" => x \in Spatial
<1>1. s \in Slots \ {"area", "format", "first"} /\ v # "TEST"
  BY OffersAre
     DEF Verbs, Spatial, Plain, Hooks, Objects, Slots, NearbyOffers, WithinOffers, IntersectsOffers,
         ScanOffers, SearchOffers, HookOffers, ChanOffers, SetOffers, FSetOffers, PipelineSetOffers,
         TestOffers, QuerySlots, FenceSlots
<1>2. CASE s = "order"
  <2>1. x \in {"ASC", "DESC"}
    BY <1>2, HoldsAre
  <2> QED
    BY <1>1, <1>2, <2>1 DEF SlotValue
<1>3. CASE s = "trigger"
  <2>1. x \in Spatial
    BY <1>3, HoldsAre
  <2> QED
    BY <1>1, <1>3, <2>1 DEF SlotValue
<1>4. CASE s \notin {"order", "trigger"}
  <2>1. s \notin {"order", "trigger", "area", "format"}
    BY <1>1, <1>4
  <2>2. x = "x"
    BY <2>1, HoldsAre
  <2> QED
    BY <1>1, <1>4, <2>2 DEF SlotValue
<1> QED
  BY <1>2, <1>3, <1>4

LEMMA AreasOffered ==
  ASSUME NEW v \in Verbs
  PROVE  Offers(v).areas \subseteq Areas
<1>1. /\ ChanOffers.areas \subseteq Areas /\ NearbyOffers.areas \subseteq Areas
      /\ WithinOffers.areas \subseteq Areas /\ IntersectsOffers.areas \subseteq Areas
      /\ TestOffers.areas \subseteq Areas
  BY DEF Areas, NearbyOffers, WithinOffers, IntersectsOffers, ChanOffers, TestOffers
<1>2. /\ ScanOffers.areas = {} /\ SearchOffers.areas = {} /\ SetOffers.areas = {}
      /\ FSetOffers.areas = {} /\ PipelineSetOffers.areas = {}
  BY DEF ScanOffers, SearchOffers, SetOffers, FSetOffers, PipelineSetOffers
<1>3. HookOffers.areas = ChanOffers.areas
  BY DEF HookOffers, ChanOffers
<1> QED
  BY <1>1, <1>2, <1>3, OffersAre DEF Verbs, Spatial, Plain, Hooks, Objects

LEMMA NoSlotsFilled ==
  ASSUME NEW v \in Verbs
  PROVE  /\ NoSlots \in [Slots -> SlotValue] /\ "format" \in Slots /\ "first" \in Slots
         /\ NoSlots["area"] = Unset /\ NoSlots["order"] = Unset /\ NoSlots["trigger"] = Unset
         /\ v \notin Spatial \cup Plain /\ v # "TEST" => Filled(NoSlots, v)
<1>1. NoSlots \in [Slots -> SlotValue]
  BY DEF NoSlots, SlotValue
<1>2. NoSlots["area"] = Unset /\ NoSlots["order"] = Unset /\ NoSlots["trigger"] = Unset
      /\ "format" \in Slots /\ "first" \in Slots
  BY DEF NoSlots, Slots
<1> QED
  BY <1>1, <1>2 DEF Filled

LEMMA SlottedInit == Init => Slotted
<1> SUFFICES ASSUME Init PROVE Slotted
  OBVIOUS
<1>1. PICK h \in Handles, v \in Verbs : \E begun \in Begun(v) :
        /\ verb = [x \in Handles |-> IF x = h THEN v ELSE Unset]
        /\ slot = [x \in Handles |-> IF x = h THEN begun ELSE NoSlots]
  BY DEF Init
<1>2. PICK begun \in Begun(v) :
        /\ verb = [x \in Handles |-> IF x = h THEN v ELSE Unset]
        /\ slot = [x \in Handles |-> IF x = h THEN begun ELSE NoSlots]
  BY <1>1
<1>3. NoSlots \in [Slots -> SlotValue]
  BY NoSlotsFilled
<1>4. Filled(begun, v)
  <2>1. CASE v \in Spatial \cup Plain
    <3>1. begun = [NoSlots EXCEPT !["format"] = "IDS"]
      <4>1. v # "TEST"
        BY <2>1 DEF Spatial, Plain
      <4>2. Begun(v) = {[NoSlots EXCEPT !["format"] = "IDS"]}
        BY <2>1, <4>1, Zenon DEF Begun
      <4> QED
        BY <4>2
    <3>2. "IDS" \in Formats(v) /\ v # "TEST"
      BY <2>1, FormatsAre DEF Spatial, Plain, NearbyFormats, WithinFormats, IntersectsFormats, ScanFormats,
                              SearchFormats
    <3>3. begun \in [Slots -> SlotValue]
      BY <3>1, <1>3 DEF SlotValue, AllFormats
    <3>4. begun["format"] = "IDS" /\ begun["area"] = Unset /\ begun["order"] = Unset
          /\ begun["trigger"] = Unset
      BY <3>1, NoSlotsFilled DEF NoSlots, Slots
    <3> QED
      BY <3>2, <3>3, <3>4 DEF Filled
  <2>2. CASE v = "TEST"
    <3>1. "TEST" \notin Spatial \cup Plain
      BY DEF Spatial, Plain
    <3>2. Begun("TEST") = {[NoSlots EXCEPT !["first"] = a] : a \in Holds("TEST", "area")}
      BY <3>1, Zenon DEF Begun
    <3>3. PICK a \in Holds("TEST", "area") : begun = [NoSlots EXCEPT !["first"] = a]
      BY <2>2, <3>2
    <3>4. Holds("TEST", "area") = TestOffers.areas \cap Used
      BY HoldsAre, OffersAre, Zenon
    <3>5. a \in TestOffers.areas
      BY <3>4
    <3>6. a \in SlotValue
      BY <3>5 DEF TestOffers, SlotValue, Areas
    <3>7. begun \in [Slots -> SlotValue] /\ begun["first"] = a
      BY <3>3, <3>6, <1>3, NoSlotsFilled
    <3>8. begun["area"] = Unset /\ begun["order"] = Unset /\ begun["trigger"] = Unset
      BY <3>3, NoSlotsFilled DEF NoSlots, Slots
    <3> QED
      BY <2>2, <3>1, <3>5, <3>7, <3>8 DEF Filled
  <2>3. CASE v \notin Spatial \cup Plain /\ v # "TEST"
    <3>1. begun = NoSlots
      BY <1>2, <2>3, Zenon DEF Begun
    <3> QED
      BY <2>3, <3>1, NoSlotsFilled
  <2> QED
    BY <2>1, <2>2, <2>3
<1>5. begun \in [Slots -> SlotValue]
  BY <1>4 DEF Filled
<1>6. \A x \in Handles : asked[x] = <<>>
  BY DEF Init
<1>7. v # Unset
  BY UnsetAssumption
<1> QED
  BY <1>2, <1>3, <1>4, <1>5, <1>6, <1>7, EmptySeq DEF Slotted, Exists

\* What the methods do to the slots.
LEMMA SetFills ==
  ASSUME NEW v \in Verbs, NEW o, Filled(o, v), NEW s \in Offers(v).slots, NEW x \in Holds(v, s)
  PROVE  Filled([o EXCEPT ![s] = x], v)
<1>1. /\ s \in Slots \ {"area", "format", "first"} /\ x \in SlotValue /\ v # "TEST"
      /\ s = "order" => x \in {"ASC", "DESC"}
      /\ s = "trigger" => x \in Spatial
  BY SlotsOffered
<1>2. {"area", "order", "format", "trigger", "first"} \subseteq Slots
  BY DEF Slots
<1>3. o \in [Slots -> SlotValue]
  BY DEF Filled
<1> QED
  BY <1>1, <1>2, <1>3 DEF Filled

LEMMA AreaFills ==
  ASSUME NEW v \in Verbs, NEW o, Filled(o, v), NEW a \in Holds(v, "area")
  PROVE  /\ v # "TEST" => Filled([o EXCEPT !["area"] = a], v)
         /\ \A t \in {"WITHIN", "INTERSECTS"} :
              v = "TEST" => Filled([o EXCEPT !["area"] = a, !["trigger"] = t], v)
<1>1. {"area", "order", "format", "trigger", "first"} \subseteq Slots
  BY DEF Slots
<1>2. a \in Offers(v).areas
  BY HoldsAre
<1>3. a \in SlotValue /\ {"WITHIN", "INTERSECTS"} \subseteq SlotValue
  BY <1>2, AreasOffered DEF SlotValue, Spatial
<1>4. a # Unset
  BY <1>1, UnsetAssumption
<1>5. o \in [Slots -> SlotValue]
  BY DEF Filled
<1>6. "TEST" \notin Spatial \cup Plain
  BY DEF Spatial, Plain
<1> QED
  BY <1>1, <1>2, <1>3, <1>4, <1>5, <1>6 DEF Filled

LEMMA FormatFills ==
  ASSUME NEW v \in Verbs, NEW o, Filled(o, v), NEW f \in Formats(v)
  PROVE  Filled([o EXCEPT !["format"] = f], v)
<1>1. {"area", "order", "format", "trigger", "first"} \subseteq Slots
  BY DEF Slots
<1>2. f \in AllFormats
  <2>1. v \in Spatial \cup Plain
    <3>1. v \notin Spatial \cup Plain => Formats(v) = {}
      <4>1. v \notin Spatial \cup Plain
              => v # "NEARBY" /\ v # "WITHIN" /\ v # "INTERSECTS" /\ v # "SCAN" /\ v # "SEARCH"
        BY DEF Spatial, Plain
      <4> QED
        BY <4>1, Zenon DEF Formats
    <3> QED
      BY <3>1
  <2> QED
    BY <2>1, FormatsAre DEF Spatial, Plain, AllFormats, NearbyFormats, WithinFormats, IntersectsFormats,
                            ScanFormats, SearchFormats
<1>3. f \in SlotValue /\ o \in [Slots -> SlotValue]
  BY <1>2 DEF SlotValue, Filled
<1> QED
  BY <1>1, <1>3 DEF Filled

\* The clauses a method appends are its builder's.
LEMMA ClausesAreOffered ==
  ASSUME HeapOK, NEW h \in Handles, Exists(h), NEW w \in Offers(verb[h]).filters, NEW c \in Clauses(h, w)
  PROVE  c \in Offered(verb[h])
<1>1. verb[h] \in Verbs /\ w \in FilterWords /\ added + 1 \in Nat
  BY DEF HeapOK, Exists, FilterWords
<1>2. \/ w # "ENDPOINT" /\ c = <<w, added + 1>>
      \/ \E t \in DOMAIN Targets : c = <<w, added + 1, t>>
  BY DEF Clauses
<1>3. c \in Clause /\ c[1] = w
  BY <1>1, <1>2 DEF Clause
<1> QED
  BY <1>3 DEF Offered

\* A step that changes one handle to one that is right keeps the others right.
Right(h) == IF Exists(h) THEN Filled(slot[h], verb[h]) /\ asked[h] \in Seq(Offered(verb[h]))
            ELSE slot[h] = NoSlots /\ asked[h] = <<>>

LEMMA OthersStayRight ==
  ASSUME Slotted, NEW h \in Handles, verb' \in [Handles -> Verbs \cup {Unset}],
         slot' \in [Handles -> [Slots -> SlotValue]], Right(h)',
         \A x \in Handles \ {h} : verb'[x] = verb[x] /\ slot'[x] = slot[x] /\ asked'[x] = asked[x]
  PROVE  Slotted'
BY DEF Slotted, Right, Exists

LEMMA SlottedStep ==
  ASSUME HeapOK, Slotted, [Next]_vars
  PROVE  Slotted'
<1> USE DEF Exists
<1>1. /\ verb \in [Handles -> Verbs \cup {Unset}] /\ slot \in [Handles -> [Slots -> SlotValue]]
      /\ \A h \in Handles : Right(h)
  BY DEF Slotted, Right
<1>2. ASSUME NEW h \in Handles, Set(h) PROVE Slotted'
  <2>1. Exists(h) /\ UNCHANGED <<verb, asked>> /\ verb[h] \in Verbs
    BY <1>1, <1>2 DEF Set, Calls
  <2>2. PICK s \in Offers(verb[h]).slots : \E x \in Holds(verb[h], s) : slot' = [slot EXCEPT ![h][s] = x]
    BY <1>2 DEF Set
  <2>3. PICK x \in Holds(verb[h], s) : slot' = [slot EXCEPT ![h][s] = x]
    BY <2>2
  <2>4. Filled([slot[h] EXCEPT ![s] = x], verb[h])
    BY <1>1, <2>1, SetFills DEF Right
  <2>5. slot' = [slot EXCEPT ![h] = [slot[h] EXCEPT ![s] = x]]
    BY <2>3
  <2>6. [slot[h] EXCEPT ![s] = x] \in [Slots -> SlotValue]
    BY <2>4 DEF Filled
  <2>7. /\ slot' \in [Handles -> [Slots -> SlotValue]] /\ slot'[h] = [slot[h] EXCEPT ![s] = x]
        /\ \A y \in Handles \ {h} : slot'[y] = slot[y]
    BY <1>1, <2>5, <2>6
  <2>8. Right(h)'
    BY <1>1, <2>1, <2>4, <2>7 DEF Right
  <2> QED
    BY <1>1, <2>1, <2>7, <2>8, OthersStayRight
<1>3. ASSUME NEW h \in Handles, Area(h) PROVE Slotted'
  <2>1. Exists(h) /\ UNCHANGED <<verb, asked>> /\ verb[h] \in Verbs /\ verb[h] # "TEST"
    BY <1>1, <1>3 DEF Area, Calls
  <2>2. PICK a \in Holds(verb[h], "area") : slot' = [slot EXCEPT ![h]["area"] = a]
    BY <1>3 DEF Area
  <2>4. Filled([slot[h] EXCEPT !["area"] = a], verb[h])
    BY <1>1, <2>1, AreaFills DEF Right
  <2>5. slot' = [slot EXCEPT ![h] = [slot[h] EXCEPT !["area"] = a]]
    BY <2>2
  <2>6. [slot[h] EXCEPT !["area"] = a] \in [Slots -> SlotValue]
    BY <2>4 DEF Filled
  <2>7. /\ slot' \in [Handles -> [Slots -> SlotValue]] /\ slot'[h] = [slot[h] EXCEPT !["area"] = a]
        /\ \A y \in Handles \ {h} : slot'[y] = slot[y]
    BY <1>1, <2>5, <2>6
  <2>8. Right(h)'
    BY <1>1, <2>1, <2>4, <2>7 DEF Right
  <2> QED
    BY <1>1, <2>1, <2>7, <2>8, OthersStayRight
<1>4. ASSUME NEW h \in Handles, Compare(h) PROVE Slotted'
  <2>1. Exists(h) /\ UNCHANGED <<verb, asked>> /\ verb[h] \in Verbs /\ verb[h] = "TEST"
    BY <1>1, <1>4 DEF Compare, Calls
  <2>2. PICK a \in Holds("TEST", "area"), t \in {"WITHIN", "INTERSECTS"} :
          slot' = [slot EXCEPT ![h]["area"] = a, ![h]["trigger"] = t]
    BY <1>4 DEF Compare
  <2> DEFINE o == [slot[h] EXCEPT !["area"] = a, !["trigger"] = t]
  <2>4. Filled(o, verb[h])
    <3>1. \A u \in {"WITHIN", "INTERSECTS"} :
            Filled([slot[h] EXCEPT !["area"] = a, !["trigger"] = u], verb[h])
      BY <1>1, <2>1, AreaFills DEF Right
    <3> QED
      BY <3>1
  <2>5. slot' = [slot EXCEPT ![h] = o]
    BY <2>2, <1>1
  <2>6. o \in [Slots -> SlotValue]
    BY <2>4 DEF Filled
  <2> HIDE DEF o
  <2>7. /\ slot' \in [Handles -> [Slots -> SlotValue]] /\ slot'[h] = o
        /\ \A y \in Handles \ {h} : slot'[y] = slot[y]
    BY <1>1, <2>5, <2>6
  <2>8. Right(h)'
    BY <1>1, <2>1, <2>4, <2>7 DEF Right
  <2> QED
    BY <1>1, <2>1, <2>7, <2>8, OthersStayRight
<1>5. ASSUME NEW h \in Handles, Add(h) PROVE Slotted'
  <2>1. Exists(h) /\ UNCHANGED <<verb, slot>> /\ verb[h] \in Verbs
    BY <1>1, <1>5 DEF Add, Calls
  <2>2. PICK w \in Offers(verb[h]).filters \cap Used : \E c \in Clauses(h, w) :
          asked' = [asked EXCEPT ![h] = Append(asked[h], c)]
    BY <1>5 DEF Add
  <2>3. PICK c \in Clauses(h, w) : asked' = [asked EXCEPT ![h] = Append(asked[h], c)]
    BY <2>2
  <2>4. c \in Offered(verb[h])
    BY <2>1, ClausesAreOffered
  <2>5. /\ asked'[h] = Append(asked[h], c)
        /\ \A x \in Handles \ {h} : asked'[x] = asked[x]
    BY <2>3 DEF HeapOK
  <2>6. Append(asked[h], c) \in Seq(Offered(verb[h]))
    BY <1>1, <2>1, <2>4, AppendProperties DEF Right
  <2>7. Right(h)'
    BY <1>1, <2>1, <2>5, <2>6 DEF Right
  <2> QED
    BY <1>1, <2>1, <2>5, <2>7, OthersStayRight
<1>6. ASSUME NEW h \in Handles, NEW to \in Handles, Switch(h, to) PROVE Slotted'
  <2>1. /\ Exists(h) /\ verb[h] \in Verbs
        /\ verb' = [verb EXCEPT ![to] = verb[h]] /\ asked' = [asked EXCEPT ![to] = asked[h]]
    BY <1>1, <1>6 DEF Switch, Calls
  <2>2. PICK f \in Formats(verb[h]) \cap Used : slot' = [slot EXCEPT ![to] = [slot[h] EXCEPT !["format"] = f]]
    BY <1>6 DEF Switch
  <2> DEFINE o == [slot[h] EXCEPT !["format"] = f]
  <2>3. Filled(o, verb[h])
    BY <1>1, <2>1, FormatFills DEF Right
  <2>4. o \in [Slots -> SlotValue]
    BY <2>3 DEF Filled
  <2>5. slot' = [slot EXCEPT ![to] = o]
    BY <2>2
  <2> HIDE DEF o
  <2>6. /\ slot' \in [Handles -> [Slots -> SlotValue]] /\ slot'[to] = o
        /\ verb' \in [Handles -> Verbs \cup {Unset}] /\ verb'[to] = verb[h] /\ asked'[to] = asked[h]
        /\ \A y \in Handles \ {to} : verb'[y] = verb[y] /\ slot'[y] = slot[y] /\ asked'[y] = asked[y]
    BY <1>1, <2>1, <2>4, <2>5 DEF HeapOK
  <2>7. Right(to)'
    BY <1>1, <2>1, <2>3, <2>6 DEF Right
  <2> QED
    BY <2>6, <2>7, OthersStayRight
<1>7. ASSUME NEW h \in Handles, PipelineSet(h) PROVE Slotted'
  <2>1. verb[h] = Unset /\ verb' = [verb EXCEPT ![h] = "PSET"] /\ UNCHANGED <<slot, asked>>
    BY <1>7 DEF PipelineSet
  <2>2. slot[h] = NoSlots /\ asked[h] = <<>>
    BY <1>1, <2>1 DEF Right
  <2>3. "PSET" \in Verbs /\ "PSET" \notin Spatial \cup Plain /\ "PSET" # "TEST"
    BY DEF Verbs, Objects, Spatial, Plain
  <2>4. Filled(NoSlots, "PSET") /\ "PSET" # Unset
    BY <2>3, NoSlotsFilled, UnsetAssumption
  <2>5. /\ verb' \in [Handles -> Verbs \cup {Unset}] /\ verb'[h] = "PSET"
        /\ \A y \in Handles \ {h} : verb'[y] = verb[y]
    BY <1>1, <2>1, <2>3
  <2>6. Right(h)'
    BY <2>1, <2>2, <2>4, <2>5, EmptySeq DEF Right
  <2> QED
    BY <1>1, <2>1, <2>5, <2>6, OthersStayRight
<1>8. ASSUME UNCHANGED <<verb, slot, asked>> PROVE Slotted'
  BY <1>8 DEF Slotted
<1>9. \A h \in Handles : Queue(h) \/ Flush(h) => UNCHANGED <<verb, slot, asked>>
  BY DEF Queue, Flush
<1>10. UNCHANGED vars => UNCHANGED <<verb, slot, asked>>
  BY DEF vars
<1> QED
  BY <1>2, <1>3, <1>4, <1>5, <1>6, <1>7, <1>8, <1>9, <1>10 DEF Next

-----------------------------------------------------------------------------
(* Sequences of clauses in the order of the stages.                        *)

IsSeq(s) == \E S : s \in Seq(S)
Words(s) == {s[i][1] : i \in DOMAIN s}

\* What may follow what.
Before(u, w) == Stage(u) <= Stage(w) /\ (u = w => u \in Repeatable)
Ordered(s) == \A i, j \in DOMAIN s : i < j => Before(s[i][1], s[j][1])

\* A part of a command, with these words.
Goes(s, W) == IsSeq(s) /\ Words(s) \subseteq W /\ Ordered(s)

LEMMA StagesAre == \A k \in 1..8 : \A w \in Stages[k] : Stage(w) = k
<1>1. DOMAIN Stages = 1..8
  BY DEF Stages
<1>2. \A k, m \in 1..8 : k # m => Stages[k] \cap Stages[m] = {}
  BY DEF Stages, Hooks, Spatial, Plain, Filters, Options, FenceWords, Outputs
<1> QED
  BY <1>1, <1>2 DEF Stage

LEMMA StageOf ==
  /\ \A w \in Hooks \cup {"TEST"} : Stage(w) = 1
  /\ \A w \in {"META", "EX"} : Stage(w) = 2
  /\ \A w \in Spatial \cup Plain : Stage(w) = 3
  /\ \A w \in Filters \cup Options : Stage(w) = 4
  /\ Stage("DISTANCE") = 5 /\ Stage("FENCE") = 6
  /\ \A w \in FenceWords : Stage(w) = 7
  /\ \A w \in Outputs : Stage(w) = 8
<1>1. /\ Stages[1] = Hooks \cup {"TEST"} /\ Stages[2] = {"META", "EX"} /\ Stages[3] = Spatial \cup Plain
      /\ Stages[4] = Filters \cup Options /\ Stages[5] = {"DISTANCE"} /\ Stages[6] = {"FENCE"}
      /\ Stages[7] = FenceWords /\ Stages[8] = Outputs
  BY DEF Stages
<1>2. \A k \in 1..8 : \A w \in Stages[k] : Stage(w) = k
  BY StagesAre
<1>3. \A k \in {1, 2, 3, 4, 5, 6, 7, 8} : k \in 1..8
  OBVIOUS
<1> QED
  BY <1>1, <1>2, <1>3

LEMMA NoneGoes == \A W : Goes(<<>>, W) /\ Words(<<>>) = {}
<1>1. IsSeq(<<>>)
  BY EmptySeq DEF IsSeq
<1>2. DOMAIN <<>> = {}
  OBVIOUS
<1> QED
  BY <1>1, <1>2 DEF Goes, Words, Ordered

LEMMA OneGoes == \A c, W : c[1] \in W => Goes(<<c>>, W) /\ Words(<<c>>) = {c[1]}
<1> TAKE c, W
<1> HAVE c[1] \in W
<1>1. <<c>> \in Seq({c})
  OBVIOUS
<1>2. DOMAIN <<c>> = {1} /\ <<c>>[1] = c
  OBVIOUS
<1>3. IsSeq(<<c>>)
  BY <1>1 DEF IsSeq
<1>4. Words(<<c>>) = {c[1]}
  BY <1>2 DEF Words
<1>5. Ordered(<<c>>)
  BY <1>2 DEF Ordered
<1> QED
  BY <1>3, <1>4, <1>5 DEF Goes

LEMMA BothAreSeqs ==
  ASSUME NEW s, NEW t, IsSeq(s), IsSeq(t)
  PROVE  \E S : s \in Seq(S) /\ t \in Seq(S)
<1>1. PICK U, V : s \in Seq(U) /\ t \in Seq(V)
  BY DEF IsSeq
<1>2. s \in Seq(U \cup V) /\ t \in Seq(U \cup V)
  BY <1>1, SeqMonotonic
<1> QED
  BY <1>2

LEMMA OnlyBoth ==
  ASSUME NEW s, NEW t, IsSeq(s), IsSeq(t), NEW words
  PROVE  Only(s \o t, words) = Only(s, words) \o Only(t, words)
<1>1. PICK S : s \in Seq(S) /\ t \in Seq(S)
  BY BothAreSeqs
<1> QED
  BY <1>1, OnlyConcat

LEMMA Concatenated ==
  ASSUME NEW s, NEW t, IsSeq(s), IsSeq(t)
  PROVE  IsSeq(s \o t) /\ Words(s \o t) = Words(s) \cup Words(t)
<1>1. PICK S : s \in Seq(S) /\ t \in Seq(S)
  BY BothAreSeqs
<1>2. /\ s \o t \in Seq(S) /\ Len(s) \in Nat /\ Len(t) \in Nat /\ Len(s \o t) = Len(s) + Len(t)
      /\ \A i \in 1..Len(s) + Len(t) : (s \o t)[i] = IF i <= Len(s) THEN s[i] ELSE t[i - Len(s)]
  BY <1>1, ConcatProperties, LenProperties
<1>3. DOMAIN s = 1..Len(s) /\ DOMAIN t = 1..Len(t) /\ DOMAIN (s \o t) = 1..Len(s) + Len(t)
  BY <1>1, <1>2, LenProperties
<1>4. Words(s \o t) \subseteq Words(s) \cup Words(t)
  <2> SUFFICES ASSUME NEW i \in 1..Len(s) + Len(t) PROVE (s \o t)[i][1] \in Words(s) \cup Words(t)
    BY <1>3 DEF Words
  <2>1. CASE i <= Len(s)
    BY <1>2, <1>3, <2>1 DEF Words
  <2>2. CASE ~(i <= Len(s))
    <3>1. i - Len(s) \in DOMAIN t /\ (s \o t)[i] = t[i - Len(s)]
      BY <1>2, <1>3, <2>2
    <3> QED
      BY <3>1 DEF Words
  <2> QED
    BY <2>1, <2>2
<1>5. Words(s) \subseteq Words(s \o t)
  <2> SUFFICES ASSUME NEW i \in 1..Len(s) PROVE s[i][1] \in Words(s \o t)
    BY <1>3 DEF Words
  <2>1. i \in DOMAIN (s \o t) /\ (s \o t)[i] = s[i]
    BY <1>2, <1>3
  <2> QED
    BY <2>1 DEF Words
<1>6. Words(t) \subseteq Words(s \o t)
  <2> SUFFICES ASSUME NEW i \in 1..Len(t) PROVE t[i][1] \in Words(s \o t)
    BY <1>3 DEF Words
  <2>1. i + Len(s) \in 1..Len(s) + Len(t) /\ ~(i + Len(s) <= Len(s)) /\ (i + Len(s)) - Len(s) = i
    BY <1>2
  <2>2. i + Len(s) \in DOMAIN (s \o t) /\ (s \o t)[i + Len(s)] = t[i]
    BY <1>2, <1>3, <2>1
  <2> QED
    BY <2>2 DEF Words
<1> QED
  BY <1>1, <1>2, <1>4, <1>5, <1>6 DEF IsSeq

LEMMA BothGo ==
  ASSUME NEW s, NEW t, NEW U, NEW W, Goes(s, U), Goes(t, W), \A u \in U, w \in W : Before(u, w)
  PROVE  Goes(s \o t, U \cup W)
<1>1. IsSeq(s) /\ IsSeq(t) /\ Words(s) \subseteq U /\ Words(t) \subseteq W /\ Ordered(s) /\ Ordered(t)
  BY DEF Goes
<1>2. IsSeq(s \o t) /\ Words(s \o t) = Words(s) \cup Words(t)
  BY <1>1, Concatenated
<1>3. PICK S : s \in Seq(S) /\ t \in Seq(S)
  BY <1>1, BothAreSeqs
<1>4. /\ s \o t \in Seq(S) /\ Len(s) \in Nat /\ Len(t) \in Nat /\ Len(s \o t) = Len(s) + Len(t)
      /\ \A i \in 1..Len(s) + Len(t) : (s \o t)[i] = IF i <= Len(s) THEN s[i] ELSE t[i - Len(s)]
  BY <1>3, ConcatProperties, LenProperties
<1>5. DOMAIN s = 1..Len(s) /\ DOMAIN t = 1..Len(t) /\ DOMAIN (s \o t) = 1..Len(s) + Len(t)
  BY <1>3, <1>4, LenProperties
<1>6. Ordered(s \o t)
  <2> SUFFICES ASSUME NEW i \in 1..Len(s) + Len(t), NEW j \in 1..Len(s) + Len(t), i < j
               PROVE  Before((s \o t)[i][1], (s \o t)[j][1])
    BY <1>5 DEF Ordered
  <2>1. CASE j <= Len(s)
    <3>1. i \in DOMAIN s /\ j \in DOMAIN s /\ (s \o t)[i] = s[i] /\ (s \o t)[j] = s[j]
      BY <1>4, <1>5, <2>1
    <3> QED
      BY <1>1, <3>1 DEF Ordered
  <2>2. CASE i <= Len(s) /\ ~(j <= Len(s))
    <3>1. i \in DOMAIN s /\ j - Len(s) \in DOMAIN t /\ (s \o t)[i] = s[i] /\ (s \o t)[j] = t[j - Len(s)]
      BY <1>4, <1>5, <2>2
    <3>2. s[i][1] \in U /\ t[j - Len(s)][1] \in W
      BY <1>1, <3>1 DEF Words
    <3> QED
      BY <3>1, <3>2
  <2>3. CASE ~(i <= Len(s))
    <3>1. /\ i - Len(s) \in DOMAIN t /\ j - Len(s) \in DOMAIN t /\ i - Len(s) < j - Len(s)
          /\ (s \o t)[i] = t[i - Len(s)] /\ (s \o t)[j] = t[j - Len(s)]
      BY <1>4, <1>5, <2>3
    <3> QED
      BY <1>1, <3>1 DEF Ordered
  <2> QED
    BY <2>1, <2>2, <2>3
<1> QED
  BY <1>1, <1>2, <1>6 DEF Goes

LEMMA WordsIn ==
  ASSUME NEW s, NEW W, IsSeq(s), Words(s) \subseteq W
  PROVE  \E S : s \in Seq(S) /\ \A c \in S : c[1] \in W
<1>1. PICK S : s \in Seq(S)
  BY DEF IsSeq
<1> DEFINE R == {c \in S : c[1] \in W}
<1>2. Len(s) \in Nat /\ DOMAIN s = 1..Len(s) /\ s \in [1..Len(s) -> S]
  BY <1>1, LenProperties
<1>3. \A i \in 1..Len(s) : s[i] \in R
  BY <1>2 DEF Words
<1>4. s \in [1..Len(s) -> R]
  BY <1>2, <1>3
<1>5. s \in Seq(R)
  BY <1>2, <1>4, SeqDef
<1> QED
  BY <1>5

\* A part without the words says none of them, and one of them only says all.
LEMMA Silent ==
  ASSUME NEW s, NEW W, NEW words, Goes(s, W), W \cap words = {}
  PROVE  Only(s, words) = <<>>
<1>1. PICK S : s \in Seq(S) /\ \A c \in S : c[1] \in W
  BY WordsIn DEF Goes
<1>2. \A c \in S : c[1] \notin words
  BY <1>1
<1> QED
  BY <1>1, <1>2, OnlyNone

LEMMA Loud ==
  ASSUME NEW s, NEW W, NEW words, Goes(s, W), W \subseteq words
  PROVE  Only(s, words) = s
<1>1. PICK S : s \in Seq(S) /\ \A c \in S : c[1] \in W
  BY WordsIn DEF Goes
<1>2. \A c \in S : c[1] \in words
  BY <1>1
<1> QED
  BY <1>1, <1>2, OnlyAll

-----------------------------------------------------------------------------
(* The parts of the commands.                                              *)

LEMMA WithGoes ==
  ASSUME NEW o, NEW s, NEW word
  PROVE  /\ Goes(With(o, s, word), IF o[s] = Unset THEN {} ELSE {word})
         /\ Goes(With(o, s, word), {word}) /\ Goes(Flag(o, s, word), {word})
<1>1. CASE o[s] = Unset
  BY <1>1, NoneGoes DEF With, Flag
<1>2. CASE o[s] # Unset
  <2>1. With(o, s, word) = << <<word, o[s]>> >> /\ Flag(o, s, word) = << <<word>> >>
    BY <1>2 DEF With, Flag
  <2>2. <<word, o[s]>>[1] = word /\ <<word>>[1] = word
    OBVIOUS
  <2>3. Goes(<< <<word, o[s]>> >>, {word}) /\ Goes(<< <<word>> >>, {word})
    BY <2>2, OneGoes
  <2> QED
    BY <1>2, <2>1, <2>3
<1> QED
  BY <1>1, <1>2

LEMMA BareGoes ==
  ASSUME NEW o, NEW s, NEW W, o[s] \in W \cup {Unset}
  PROVE  Goes(Bare(o, s), W)
<1>1. CASE o[s] = Unset
  BY <1>1, NoneGoes DEF Bare
<1>2. CASE o[s] # Unset
  <2>1. Bare(o, s) = << <<o[s]>> >>
    BY <1>2 DEF Bare
  <2>2. <<o[s]>>[1] = o[s] /\ o[s] \in W
    BY <1>2
  <2>3. Goes(<< <<o[s]>> >>, W)
    BY <2>2, OneGoes
  <2> QED
    BY <2>1, <2>3
<1> QED
  BY <1>1, <1>2

LEMMA GoesWider ==
  ASSUME NEW s, NEW U, NEW W, Goes(s, U), U \subseteq W
  PROVE  Goes(s, W)
BY DEF Goes

\* Within a stage, different words come in any order.
LEMMA OptionsGo ==
  ASSUME NEW o, o["order"] \in {"ASC", "DESC", Unset}
  PROVE  Goes(OptionTokens(o), IF o["cursor"] = Unset THEN Options \ {"CURSOR"} ELSE Options)
<1> DEFINE C == IF o["cursor"] = Unset THEN {} ELSE {"CURSOR"}
           p1 == With(o, "cursor", "CURSOR")
           p2 == With(o, "limit", "LIMIT")
           p3 == With(o, "sparse", "SPARSE")
           p4 == Bare(o, "order")
           p5 == Flag(o, "nofields", "NOFIELDS")
           p6 == Flag(o, "clip", "CLIP")
<1>1. /\ Goes(p1, C) /\ Goes(p2, {"LIMIT"}) /\ Goes(p3, {"SPARSE"}) /\ Goes(p4, {"ASC", "DESC"})
      /\ Goes(p5, {"NOFIELDS"}) /\ Goes(p6, {"CLIP"})
  <2>1. Goes(p1, C)
    BY WithGoes
  <2>2. Goes(p2, {"LIMIT"}) /\ Goes(p3, {"SPARSE"})
    BY WithGoes
  <2>3. Goes(p5, {"NOFIELDS"}) /\ Goes(p6, {"CLIP"})
    BY WithGoes
  <2>4. Goes(p4, {"ASC", "DESC"})
    BY BareGoes
  <2> QED
    BY <2>1, <2>2, <2>3, <2>4
<1>2. OptionTokens(o) = p1 \o p2 \o p3 \o p4 \o p5 \o p6
  BY DEF OptionTokens
<1>3. C \subseteq {"CURSOR"}
  OBVIOUS
<1>4. \A u, w \in Options : u # w => Before(u, w)
  BY StageOf DEF Before
<1> HIDE DEF C, p1, p2, p3, p4, p5, p6
<1>5. Goes(p1 \o p2, C \cup {"LIMIT"})
  <2>1. \A u \in C, w \in {"LIMIT"} : Before(u, w)
    BY <1>3, <1>4 DEF Options
  <2> QED
    BY <1>1, <2>1, BothGo
<1>6. Goes(p1 \o p2 \o p3, C \cup {"LIMIT"} \cup {"SPARSE"})
  <2>1. \A u \in C \cup {"LIMIT"}, w \in {"SPARSE"} : Before(u, w)
    BY <1>3, <1>4 DEF Options
  <2> QED
    BY <1>1, <1>5, <2>1, BothGo
<1>7. Goes(p1 \o p2 \o p3 \o p4, C \cup {"LIMIT"} \cup {"SPARSE"} \cup {"ASC", "DESC"})
  <2>1. \A u \in C \cup {"LIMIT"} \cup {"SPARSE"}, w \in {"ASC", "DESC"} : Before(u, w)
    BY <1>3, <1>4 DEF Options
  <2> QED
    BY <1>1, <1>6, <2>1, BothGo
<1>8. Goes(p1 \o p2 \o p3 \o p4 \o p5, C \cup {"LIMIT"} \cup {"SPARSE"} \cup {"ASC", "DESC"} \cup {"NOFIELDS"})
  <2>1. \A u \in C \cup {"LIMIT"} \cup {"SPARSE"} \cup {"ASC", "DESC"}, w \in {"NOFIELDS"} : Before(u, w)
    BY <1>3, <1>4 DEF Options
  <2> QED
    BY <1>1, <1>7, <2>1, BothGo
<1>9. Goes(p1 \o p2 \o p3 \o p4 \o p5 \o p6,
           C \cup {"LIMIT"} \cup {"SPARSE"} \cup {"ASC", "DESC"} \cup {"NOFIELDS"} \cup {"CLIP"})
  <2>1. \A u \in C \cup {"LIMIT"} \cup {"SPARSE"} \cup {"ASC", "DESC"} \cup {"NOFIELDS"}, w \in {"CLIP"} :
          Before(u, w)
    BY <1>3, <1>4 DEF Options
  <2> QED
    BY <1>1, <1>8, <2>1, BothGo
<1>10. C \cup {"LIMIT"} \cup {"SPARSE"} \cup {"ASC", "DESC"} \cup {"NOFIELDS"} \cup {"CLIP"}
         \subseteq IF o["cursor"] = Unset THEN Options \ {"CURSOR"} ELSE Options
  BY DEF C, Options
<1> QED
  BY <1>2, <1>9, <1>10, GoesWider

FenceSays == {"DISTANCE", "FENCE", "NODWELL", "DETECT", "COMMANDS"}

LEMMA FenceGoes ==
  ASSUME NEW o
  PROVE  Goes(FenceTokens(o), FenceSays) /\ "FENCE" \in Words(FenceTokens(o))
<1> DEFINE p1 == Flag(o, "distance", "DISTANCE")
           p2 == << <<"FENCE">> >>
           p3 == Flag(o, "nodwell", "NODWELL")
           p4 == With(o, "detect", "DETECT")
           p5 == With(o, "commands", "COMMANDS")
<1>1. /\ Goes(p1, {"DISTANCE"}) /\ Goes(p2, {"FENCE"}) /\ Goes(p3, {"NODWELL"}) /\ Goes(p4, {"DETECT"})
      /\ Goes(p5, {"COMMANDS"}) /\ Words(p2) = {"FENCE"}
  <2>1. <<"FENCE">>[1] = "FENCE"
    OBVIOUS
  <2>2. Goes(p2, {"FENCE"}) /\ Words(p2) = {"FENCE"}
    BY <2>1, OneGoes
  <2>3. Goes(p1, {"DISTANCE"}) /\ Goes(p3, {"NODWELL"})
    BY WithGoes
  <2>4. Goes(p4, {"DETECT"}) /\ Goes(p5, {"COMMANDS"})
    BY WithGoes
  <2> QED
    BY <2>2, <2>3, <2>4
<1>2. FenceTokens(o) = p1 \o p2 \o p3 \o p4 \o p5
  BY DEF FenceTokens
<1>3. /\ Stage("DISTANCE") = 5 /\ Stage("FENCE") = 6
      /\ Stage("NODWELL") = 7 /\ Stage("DETECT") = 7 /\ Stage("COMMANDS") = 7
  BY StageOf DEF FenceWords
<1> HIDE DEF p1, p2, p3, p4, p5
<1>5. Goes(p1 \o p2, {"DISTANCE", "FENCE"})
  <2>1. \A u \in {"DISTANCE"}, w \in {"FENCE"} : Before(u, w)
    BY <1>3 DEF Before
  <2>2. {"DISTANCE"} \cup {"FENCE"} = {"DISTANCE", "FENCE"}
    OBVIOUS
  <2> QED
    BY <1>1, <2>1, <2>2, BothGo
<1>6. Goes(p1 \o p2 \o p3, {"DISTANCE", "FENCE", "NODWELL"})
  <2>1. \A u \in {"DISTANCE", "FENCE"}, w \in {"NODWELL"} : Before(u, w)
    BY <1>3 DEF Before
  <2>2. {"DISTANCE", "FENCE"} \cup {"NODWELL"} = {"DISTANCE", "FENCE", "NODWELL"}
    OBVIOUS
  <2> QED
    BY <1>1, <1>5, <2>1, <2>2, BothGo
<1>7. Goes(p1 \o p2 \o p3 \o p4, {"DISTANCE", "FENCE", "NODWELL", "DETECT"})
  <2>1. \A u \in {"DISTANCE", "FENCE", "NODWELL"}, w \in {"DETECT"} : Before(u, w)
    BY <1>3 DEF Before
  <2>2. {"DISTANCE", "FENCE", "NODWELL"} \cup {"DETECT"} = {"DISTANCE", "FENCE", "NODWELL", "DETECT"}
    OBVIOUS
  <2> QED
    BY <1>1, <1>6, <2>1, <2>2, BothGo
<1>8. Goes(p1 \o p2 \o p3 \o p4 \o p5, FenceSays)
  <2>1. \A u \in {"DISTANCE", "FENCE", "NODWELL", "DETECT"}, w \in {"COMMANDS"} : Before(u, w)
    BY <1>3 DEF Before
  <2>2. {"DISTANCE", "FENCE", "NODWELL", "DETECT"} \cup {"COMMANDS"} = FenceSays
    BY DEF FenceSays
  <2> QED
    BY <1>1, <1>7, <2>1, <2>2, BothGo
<1>9. "FENCE" \in Words(p1 \o p2 \o p3 \o p4 \o p5)
  <2>1. "FENCE" \in Words(p1 \o p2)
    BY <1>1, Concatenated DEF Goes
  <2>2. "FENCE" \in Words(p1 \o p2 \o p3)
    BY <1>1, <1>5, <2>1, Concatenated DEF Goes
  <2>3. "FENCE" \in Words(p1 \o p2 \o p3 \o p4)
    BY <1>1, <1>6, <2>2, Concatenated DEF Goes
  <2> QED
    BY <1>1, <1>7, <2>3, Concatenated DEF Goes
<1> QED
  BY <1>2, <1>8, <1>9

LEMMA TwoClauses == \A a, b : <<a>> \o <<b>> = <<a, b>>
<1> TAKE a, b
<1>1. <<a>> \in Seq({a, b}) /\ <<b>> \in Seq({a, b}) /\ <<a, b>> \in Seq({a, b})
  OBVIOUS
<1>2. /\ <<a>> \o <<b>> \in Seq({a, b}) /\ Len(<<a>> \o <<b>>) = Len(<<a>>) + Len(<<b>>)
      /\ \A i \in 1..Len(<<a>>) + Len(<<b>>) :
           (<<a>> \o <<b>>)[i] = IF i <= Len(<<a>>) THEN <<a>>[i] ELSE <<b>>[i - Len(<<a>>)]
  BY <1>1, ConcatProperties, Zenon
<1>3. /\ Len(<<a>>) = 1 /\ Len(<<b>>) = 1 /\ <<a>>[1] = a /\ <<b>>[1] = b
      /\ Len(<<a, b>>) = 2 /\ <<a, b>>[1] = a /\ <<a, b>>[2] = b
  OBVIOUS
<1> DEFINE s == <<a>> \o <<b>>
           t == <<a, b>>
<1>4. Len(s) = 2 /\ s[1] = a /\ s[2] = b
  BY <1>2, <1>3
<1>5. \A i \in 1..Len(s) : s[i] = t[i]
  BY <1>3, <1>4
<1> QED
  BY <1>1, <1>2, <1>3, <1>4, <1>5, SeqEqual, Zenon

LEMMA FormatsRender ==
  /\ FormatTokens("DISTANCE") = << <<"DISTANCE">>, <<"POINTS">> >>
  /\ \A f \in {"HASHES", "A5"} : FormatTokens(f) = << <<f, "x">> >>
  /\ FormatTokens("STRINGS") = <<>>
  /\ \A f : f \notin {"HASHES", "A5", "DISTANCE", "STRINGS"} => FormatTokens(f) = << <<f>> >>
<1>1. FormatTokens("DISTANCE") = << <<"DISTANCE">>, <<"POINTS">> >>
  BY Zenon DEF FormatTokens
<1>2. \A f \in {"HASHES", "A5"} : FormatTokens(f) = << <<f, "x">> >>
  <2>1. \A f \in {"HASHES", "A5"} : f # "DISTANCE"
    OBVIOUS
  <2> QED
    BY <2>1, Zenon DEF FormatTokens
<1>3. FormatTokens("STRINGS") = <<>>
  <2>1. "STRINGS" \notin {"HASHES", "A5"} /\ "STRINGS" # "DISTANCE"
    OBVIOUS
  <2> QED
    BY <2>1, Zenon DEF FormatTokens
<1>4. \A f : f \notin {"HASHES", "A5", "DISTANCE", "STRINGS"} => FormatTokens(f) = << <<f>> >>
  <2>1. \A f : f \notin {"HASHES", "A5", "DISTANCE", "STRINGS"}
                 => f \notin {"HASHES", "A5"} /\ f # "DISTANCE" /\ f # "STRINGS"
    OBVIOUS
  <2> QED
    BY <2>1, Zenon DEF FormatTokens
<1> QED
  BY <1>1, <1>2, <1>3, <1>4

\* A distance only with its points.
LEMMA FormatGoes ==
  ASSUME NEW f \in AllFormats
  PROVE  /\ Goes(FormatTokens(f), {"DISTANCE"} \cup Outputs)
         /\ "DISTANCE" \in Words(FormatTokens(f)) => "POINTS" \in Words(FormatTokens(f))
<1>1. CASE f = "DISTANCE"
  <2> DEFINE p1 == << <<"DISTANCE">> >>
             p2 == << <<"POINTS">> >>
  <2>1. <<"DISTANCE">>[1] = "DISTANCE" /\ <<"POINTS">>[1] = "POINTS"
    OBVIOUS
  <2>2. Goes(p1, {"DISTANCE"}) /\ Goes(p2, {"POINTS"}) /\ Words(p2) = {"POINTS"}
    BY <2>1, OneGoes
  <2>3. \A u \in {"DISTANCE"}, w \in {"POINTS"} : Before(u, w)
    BY StageOf DEF Before, Outputs
  <2>4. p1 \o p2 = << <<"DISTANCE">>, <<"POINTS">> >>
    BY TwoClauses
  <2>5. Goes(p1 \o p2, {"DISTANCE"} \cup {"POINTS"})
    BY <2>2, <2>3, BothGo
  <2>6. "POINTS" \in Words(p1 \o p2)
    BY <2>2, Concatenated DEF Goes
  <2>7. FormatTokens(f) = p1 \o p2
    BY <1>1, <2>4, FormatsRender
  <2>8. {"DISTANCE"} \cup {"POINTS"} \subseteq {"DISTANCE"} \cup Outputs
    BY DEF Outputs
  <2> QED
    BY <2>5, <2>6, <2>7, <2>8, GoesWider
<1>2. CASE f = "STRINGS"
  BY <1>2, FormatsRender, NoneGoes
<1>3. CASE f \notin {"DISTANCE", "STRINGS"}
  <2>1. f \in Outputs
    BY <1>3 DEF AllFormats, Outputs
  <2>2. PICK c : FormatTokens(f) = <<c>> /\ c[1] = f
    <3>1. <<f>>[1] = f /\ <<f, "x">>[1] = f
      OBVIOUS
    <3>2. f \in {"HASHES", "A5"} \/ f \notin {"HASHES", "A5", "DISTANCE", "STRINGS"}
      BY <1>3
    <3> QED
      BY <3>1, <3>2, FormatsRender
  <2>3. Goes(<<c>>, {"DISTANCE"} \cup Outputs) /\ Words(<<c>>) = {f}
    BY <2>1, <2>2, OneGoes
  <2> QED
    BY <1>3, <2>2, <2>3
<1> QED
  BY <1>1, <1>2, <1>3

-----------------------------------------------------------------------------
(* The commands.                                                           *)

\* What comes after or before clauses and says none of the words.
LEMMA SilentAfter ==
  ASSUME NEW s, IsSeq(s), NEW t, NEW W, Goes(t, W), NEW words, W \cap words = {}
  PROVE  Only(s \o t, words) = Only(s, words)
<1>1. Only(s \o t, words) = Only(s, words) \o Only(t, words)
  BY OnlyBoth DEF Goes
<1>2. Only(s \o t, words) = Only(s, words) \o <<>>
  BY <1>1, Silent
<1>3. PICK S : s \in Seq(S)
  BY DEF IsSeq
<1>4. Only(s, words) \in Seq(S)
  BY <1>3, OnlyIsTyped
<1> QED
  BY <1>2, <1>4, ConcatEmptySeq

LEMMA SilentBefore ==
  ASSUME NEW s, NEW t, IsSeq(t), NEW W, Goes(s, W), NEW words, W \cap words = {}
  PROVE  Only(s \o t, words) = Only(t, words)
<1>1. Only(s \o t, words) = Only(s, words) \o Only(t, words)
  BY OnlyBoth DEF Goes
<1>2. Only(s \o t, words) = <<>> \o Only(t, words)
  BY <1>1, Silent
<1>3. PICK S : t \in Seq(S)
  BY DEF IsSeq
<1>4. Only(t, words) \in Seq(S)
  BY <1>3, OnlyIsTyped
<1> QED
  BY <1>2, <1>4, ConcatEmptySeq

\* A part that has the filters a handle was asked for.
Tells(h, s) == \A words \in {Filters, {"META"}} : Only(s, words) = Only(asked[h], words)

LEMMA TellsMore ==
  ASSUME NEW h, NEW s, IsSeq(s), Tells(h, s), NEW t, NEW W, Goes(t, W),
         W \cap Filters = {}, "META" \notin W
  PROVE  Tells(h, s \o t) /\ IsSeq(s \o t)
<1>1. Only(s \o t, Filters) = Only(s, Filters)
  BY SilentAfter
<1>2. W \cap {"META"} = {}
  OBVIOUS
<1>3. Only(s \o t, {"META"}) = Only(s, {"META"})
  BY <1>2, SilentAfter
<1>4. IsSeq(s \o t)
  BY Concatenated DEF Goes
<1> QED
  BY <1>1, <1>3, <1>4 DEF Tells

LEMMA EmptyAfter ==
  ASSUME NEW s, IsSeq(s)
  PROVE  s \o <<>> = s
BY ConcatEmptySeq DEF IsSeq

LEMMA FiltersOffered ==
  /\ \A v \in Spatial \cup Plain : Offers(v).filters \subseteq Filters
  /\ \A v \in Hooks : Offers(v).filters \subseteq {"WHERE", "META", "MATCH", "ENDPOINT"}
  /\ Offers("TEST").filters = {}
<1>1. /\ NearbyOffers.filters \subseteq Filters /\ WithinOffers.filters \subseteq Filters
      /\ IntersectsOffers.filters \subseteq Filters /\ ScanOffers.filters \subseteq Filters
      /\ SearchOffers.filters \subseteq Filters /\ TestOffers.filters = {}
      /\ ChanOffers.filters = {"WHERE", "META"}
  BY DEF NearbyOffers, WithinOffers, IntersectsOffers, ScanOffers, SearchOffers, TestOffers, ChanOffers, Filters
<1>2. HookOffers.filters = {"WHERE", "META"} \cup {"MATCH", "ENDPOINT"}
  BY DEF HookOffers, ChanOffers
<1> QED
  BY <1>1, <1>2, OffersAre DEF Spatial, Plain, Hooks

\* A handle that exists, as the invariants have it.
LEMMA HandleIs ==
  ASSUME HeapOK, Whole, Slotted, NEW h \in Handles, Exists(h)
  PROVE  /\ verb[h] \in Verbs /\ Filled(slot[h], verb[h]) /\ asked[h] \in Seq(Offered(verb[h]))
         /\ Contents(args[h]) = asked[h] /\ IsSeq(asked[h])
         /\ Words(asked[h]) \subseteq Offers(verb[h]).filters
<1>1. /\ verb[h] \in Verbs /\ Filled(slot[h], verb[h]) /\ asked[h] \in Seq(Offered(verb[h]))
      /\ mem[args[h].at] = asked[h] /\ args[h].len = Len(asked[h])
  BY DEF Slotted, Whole, Exists
<1>2. Contents(args[h]) = asked[h]
  BY <1>1, SubSeqFull DEF Contents
<1>3. Words(asked[h]) \subseteq Offers(verb[h]).filters
  <2>1. \A i \in DOMAIN asked[h] : asked[h][i] \in Offered(verb[h])
    BY <1>1, LenProperties
  <2> QED
    BY <2>1 DEF Words, Offered
<1> QED
  BY <1>1, <1>2, <1>3 DEF IsSeq

LEMMA SearchHeadGoes ==
  ASSUME HeapOK, Whole, Slotted, NEW h \in Handles, verb[h] \in Spatial \cup Plain
  PROVE  /\ Goes(SearchHead(h), {verb[h]} \cup Filters)
         /\ Tells(h, SearchHead(h))
<1> DEFINE p == << <<verb[h]>> >>
<1>1. Exists(h)
  BY UnsetAssumption DEF Exists, Verbs
<1>2. /\ Contents(args[h]) = asked[h] /\ IsSeq(asked[h]) /\ Words(asked[h]) \subseteq Filters
  BY <1>1, HandleIs, FiltersOffered
<1>3. SearchHead(h) = p \o asked[h]
  BY <1>2 DEF SearchHead
<1>4. Goes(p, {verb[h]})
  <2>1. <<verb[h]>>[1] = verb[h]
    OBVIOUS
  <2> QED
    BY <2>1, OneGoes
<1>5. Goes(asked[h], Filters)
  <2>1. \A u, w \in Filters : Before(u, w)
    BY StageOf DEF Before, Repeatable
  <2> QED
    BY <1>2, <2>1 DEF Goes, Ordered, Words
<1>6. \A u \in {verb[h]}, w \in Filters : Before(u, w)
  <2>1. Stage(verb[h]) = 3 /\ \A w \in Filters : Stage(w) = 4
    BY StageOf
  <2> QED
    BY <2>1 DEF Before
<1> HIDE DEF p
<1>7. Goes(p \o asked[h], {verb[h]} \cup Filters)
  BY <1>4, <1>5, <1>6, BothGo
<1>8. {verb[h]} \cap Filters = {} /\ {verb[h]} \cap {"META"} = {}
  BY DEF Spatial, Plain, Filters
<1>9. Tells(h, p \o asked[h])
  <2>1. \A words : {verb[h]} \cap words = {} => Only(p \o asked[h], words) = Only(asked[h], words)
    BY <1>2, <1>4, SilentBefore
  <2> QED
    BY <1>8, <2>1 DEF Tells
<1> QED
  BY <1>3, <1>7, <1>9

LEMMA QueryStemGoes ==
  ASSUME HeapOK, Whole, Slotted, NEW h \in Handles, verb[h] \in Spatial \cup Plain,
         NEW fmt, Goes(fmt, {"DISTANCE"} \cup Outputs),
         "DISTANCE" \in Words(fmt) => "POINTS" \in Words(fmt)
  PROVE  LET stem == SearchHead(h) \o OptionTokens(slot[h]) \o <<>> \o fmt IN
         /\ Ordered(stem) /\ IsSeq(stem) /\ Tells(h, stem)
         /\ Words(stem) \cap (FenceWords \cup {"FENCE"}) = {}
         /\ "DISTANCE" \in Words(stem) => "POINTS" \in Words(stem)
<1> DEFINE s1 == SearchHead(h)
           s2 == OptionTokens(slot[h])
           W2 == {verb[h]} \cup Filters \cup Options
           W3 == W2 \cup ({"DISTANCE"} \cup Outputs)
<1>1. Goes(s1, {verb[h]} \cup Filters) /\ Tells(h, s1)
  BY SearchHeadGoes
<1>2. Goes(s2, Options)
  <2>1. Exists(h)
    BY UnsetAssumption DEF Exists, Verbs
  <2>2. slot[h]["order"] \in {"ASC", "DESC", Unset}
    BY <2>1, HandleIs DEF Filled
  <2>3. Goes(s2, IF slot[h]["cursor"] = Unset THEN Options \ {"CURSOR"} ELSE Options)
    BY <2>2, OptionsGo
  <2> QED
    BY <2>3, GoesWider
<1>3. /\ Stage(verb[h]) = 3 /\ \A w \in Filters \cup Options : Stage(w) = 4
      /\ Stage("DISTANCE") = 5 /\ \A w \in Outputs : Stage(w) = 8
  BY StageOf
<1>4. Filters \cap Options = {} /\ "META" \notin Options
  BY DEF Filters, Options
<1>5. \A u \in {verb[h]} \cup Filters, w \in Options : Before(u, w)
  BY <1>3, <1>4 DEF Before
<1>6. \A u \in W2, w \in {"DISTANCE"} \cup Outputs : Before(u, w)
  <2>1. \A u \in W2 : Stage(u) \in 3..4
    BY <1>3
  <2>2. \A w \in {"DISTANCE"} \cup Outputs : Stage(w) \in {5, 8}
    BY <1>3
  <2> QED
    BY <2>1, <2>2 DEF Before
<1>7. W3 \cap (FenceWords \cup {"FENCE"}) = {} /\ "DISTANCE" \notin W2
  BY DEF Spatial, Plain, Filters, Options, Outputs, FenceWords
<1>8. ({"DISTANCE"} \cup Outputs) \cap Filters = {} /\ "META" \notin {"DISTANCE"} \cup Outputs
  BY DEF Filters, Outputs
<1> HIDE DEF s1, s2
<1>9. Goes(s1 \o s2, W2) /\ IsSeq(s1 \o s2) /\ Tells(h, s1 \o s2)
  <2>1. Goes(s1 \o s2, W2)
    BY <1>1, <1>2, <1>5, BothGo
  <2>2. Tells(h, s1 \o s2)
    BY <1>1, <1>2, <1>4, TellsMore DEF Goes
  <2> QED
    BY <2>1, <2>2 DEF Goes
<1>10. s1 \o s2 \o <<>> = s1 \o s2
  BY <1>9, EmptyAfter
<1> DEFINE s3 == s1 \o s2
<1> HIDE DEF s3, W2
<1>11. Goes(s3 \o fmt, W3) /\ IsSeq(s3 \o fmt) /\ Tells(h, s3 \o fmt)
  <2>1. Goes(s3, W2) /\ IsSeq(s3) /\ Tells(h, s3)
    BY <1>9 DEF s3
  <2>2. Goes(s3 \o fmt, W3)
    BY <1>6, <2>1, BothGo
  <2>3. Tells(h, s3 \o fmt)
    BY <1>8, <2>1, TellsMore
  <2> QED
    BY <2>2, <2>3 DEF Goes
<1>12. Words(s3 \o fmt) = Words(s3) \cup Words(fmt) /\ Words(s3) \subseteq W2
  BY <1>9, Concatenated DEF Goes, s3
<1>13. /\ Ordered(s3 \o fmt) /\ Words(s3 \o fmt) \cap (FenceWords \cup {"FENCE"}) = {}
       /\ "DISTANCE" \in Words(s3 \o fmt) => "POINTS" \in Words(s3 \o fmt)
  BY <1>7, <1>11, <1>12 DEF Goes
<1>14. SearchHead(h) \o OptionTokens(slot[h]) \o <<>> \o fmt = s3 \o fmt
  BY <1>10 DEF s1, s2, s3
<1> QED
  BY <1>11, <1>13, <1>14

LEMMA FenceStemGoes ==
  ASSUME HeapOK, Whole, Slotted, NEW h \in Handles, verb[h] \in Spatial
  PROVE  LET stem == SearchHead(h) \o OptionTokens(FenceOpts(slot[h])) \o FenceTokens(slot[h]) \o <<>> IN
         /\ Ordered(stem) /\ IsSeq(stem) /\ Tells(h, stem)
         /\ "FENCE" \in Words(stem) /\ Words(stem) \cap (Outputs \cup {"CURSOR"}) = {}
<1> DEFINE s1 == SearchHead(h)
           o == FenceOpts(slot[h])
           s2 == OptionTokens(o)
           s3 == FenceTokens(slot[h])
           O == Options \ {"CURSOR"}
           W2 == {verb[h]} \cup Filters \cup O
           W3 == W2 \cup FenceSays
<1>1. Goes(s1, {verb[h]} \cup Filters) /\ Tells(h, s1)
  BY SearchHeadGoes
<1>2. Goes(s2, O)
  <2>1. Exists(h)
    BY UnsetAssumption DEF Exists, Verbs
  <2>2. slot[h]["order"] \in {"ASC", "DESC", Unset} /\ slot[h] \in [Slots -> SlotValue]
    BY <2>1, HandleIs DEF Filled
  <2>3. o["order"] = slot[h]["order"] /\ o["cursor"] = Unset
    BY <2>2 DEF FenceOpts, Slots
  <2> HIDE DEF o
  <2>4. Goes(s2, IF o["cursor"] = Unset THEN Options \ {"CURSOR"} ELSE Options)
    BY <2>2, <2>3, OptionsGo
  <2> QED
    BY <2>3, <2>4
<1>3. Goes(s3, FenceSays) /\ "FENCE" \in Words(s3)
  BY FenceGoes
<1>4. Filters \cap O = {} /\ "META" \notin O
  BY DEF Filters, Options
<1>5. /\ \A u \in {verb[h]} \cup Filters, w \in O : Before(u, w)
      /\ \A u \in W2, w \in FenceSays : Before(u, w)
  <2>1. Stage(verb[h]) = 3 /\ \A w \in Filters \cup Options : Stage(w) = 4
    BY StageOf
  <2>2. \A w \in FenceSays : Stage(w) \in 5..7
    BY StageOf DEF FenceSays, FenceWords
  <2>3. \A u \in W2 : Stage(u) \in 3..4
    BY <2>1
  <2> QED
    BY <1>4, <2>1, <2>2, <2>3 DEF Before
<1>6. W3 \cap (Outputs \cup {"CURSOR"}) = {}
  BY DEF Spatial, Filters, Options, Outputs, FenceSays
<1>7. FenceSays \cap Filters = {} /\ "META" \notin FenceSays
  BY DEF Filters, FenceSays
<1> HIDE DEF s1, s2, s3, O
<1>8. Goes(s1 \o s2, W2) /\ Tells(h, s1 \o s2) /\ IsSeq(s1 \o s2)
  <2>1. Goes(s1 \o s2, W2)
    BY <1>1, <1>2, <1>5, BothGo
  <2>2. Tells(h, s1 \o s2)
    BY <1>1, <1>2, <1>4, TellsMore DEF Goes
  <2> QED
    BY <2>1, <2>2 DEF Goes
<1> DEFINE s4 == s1 \o s2
<1> HIDE DEF s4, W2
<1>9. Goes(s4 \o s3, W3) /\ Tells(h, s4 \o s3) /\ IsSeq(s4 \o s3)
  <2>1. Goes(s4, W2) /\ Tells(h, s4) /\ IsSeq(s4)
    BY <1>8 DEF s4
  <2>2. Goes(s4 \o s3, W3)
    BY <1>3, <1>5, <2>1, BothGo
  <2>3. Tells(h, s4 \o s3)
    BY <1>3, <1>7, <2>1, TellsMore
  <2> QED
    BY <2>2, <2>3 DEF Goes
<1>10. "FENCE" \in Words(s4 \o s3)
  BY <1>3, <1>8, Concatenated DEF Goes, s4
<1>11. Ordered(s4 \o s3) /\ Words(s4 \o s3) \cap (Outputs \cup {"CURSOR"}) = {}
  BY <1>6, <1>9 DEF Goes
<1>12. s4 \o s3 \o <<>> = s4 \o s3
  BY <1>9, EmptyAfter
<1>13. SearchHead(h) \o OptionTokens(FenceOpts(slot[h])) \o FenceTokens(slot[h]) \o <<>> = s4 \o s3
  BY <1>12 DEF s1, s2, s3, s4
<1> QED
  BY <1>9, <1>10, <1>11, <1>13

\* What a hook collects is as it was asked.
LEMMA CollectedGoes ==
  ASSUME NEW S, NEW s \in Seq(S), NEW W, \A u, w \in W : Before(u, w)
  PROVE  Goes(Only(s, W), W)
<1> DEFINE t == Only(s, W)
<1>1. t \in Seq({c \in S : c[1] \in W})
  BY OnlyMembers
<1> HIDE DEF t
<1>2. \A i \in DOMAIN t : t[i][1] \in W
  BY <1>1, LenProperties
<1> QED
  BY <1>1, <1>2 DEF Goes, IsSeq, Words, Ordered, t

LEMMA HookStemGoes ==
  ASSUME HeapOK, Whole, Slotted, NEW h \in Handles, verb[h] \in Hooks
  PROVE  LET stem == HookHead(h) \o Bare(slot[h], "trigger") \o Collected(h, {"WHERE", "MATCH"}) \o <<>>
                       \o FenceTokens(slot[h]) \o <<>> IN
         /\ Ordered(stem) /\ IsSeq(stem) /\ Tells(h, stem)
         /\ "FENCE" \in Words(stem) /\ Words(stem) \cap (Outputs \cup {"CURSOR"}) = {}
<1> DEFINE first == IF verb[h] = "SETHOOK" THEN <<verb[h], Endpoints(h)>> ELSE <<verb[h]>>
           p == <<first>>
           M == Collected(h, {"META"})
           X == With(slot[h], "ex", "EX")
           B == Bare(slot[h], "trigger")
           F == Collected(h, {"WHERE", "MATCH"})
           T == FenceTokens(slot[h])
           H == Offered(verb[h])
           W2 == {verb[h]} \cup {"META"} \cup {"EX"}
           W3 == W2 \cup Spatial
           W4 == W3 \cup {"WHERE", "MATCH"}
<1>1. Exists(h) /\ verb[h] # "TEST" /\ verb[h] \in Verbs
  BY UnsetAssumption DEF Exists, Verbs, Hooks
<1>2. /\ Filled(slot[h], verb[h]) /\ asked[h] \in Seq(H) /\ Contents(args[h]) = asked[h]
      /\ \A c \in H : c[1] \in {"WHERE", "META", "MATCH", "ENDPOINT"}
  BY <1>1, HandleIs, FiltersOffered DEF Offered
<1>3. M = Only(asked[h], {"META"}) /\ F = Only(asked[h], {"WHERE", "MATCH"})
  BY <1>2 DEF Collected
<1>4. /\ Stage(verb[h]) = 1 /\ Stage("META") = 2 /\ Stage("EX") = 2 /\ \A w \in Spatial : Stage(w) = 3
      /\ Stage("WHERE") = 4 /\ Stage("MATCH") = 4 /\ \A w \in FenceSays : Stage(w) \in 5..7
  BY StageOf DEF FenceSays, FenceWords, Filters
<1>5. /\ Goes(p, {verb[h]}) /\ Goes(M, {"META"}) /\ Goes(X, {"EX"}) /\ Goes(B, Spatial)
      /\ Goes(F, {"WHERE", "MATCH"}) /\ Goes(T, FenceSays) /\ "FENCE" \in Words(T)
  <2>1. Goes(p, {verb[h]})
    <3>1. first[1] = verb[h]
      <4>1. <<verb[h], Endpoints(h)>>[1] = verb[h] /\ <<verb[h]>>[1] = verb[h]
        OBVIOUS
      <4> QED
        BY <4>1
    <3> HIDE DEF first
    <3> QED
      BY <3>1, OneGoes
  <2>2. Goes(M, {"META"})
    <3> DEFINE W == {"META"}
    <3>1. \A u, w \in W : Before(u, w)
      BY <1>4 DEF Before, Repeatable
    <3> HIDE DEF W, H
    <3>2. Goes(Only(asked[h], W), W)
      BY <1>2, <3>1, CollectedGoes
    <3> QED
      BY <1>3, <3>2 DEF W
  <2>3. Goes(F, {"WHERE", "MATCH"})
    <3>1. \A u, w \in {"WHERE", "MATCH"} : Before(u, w)
      BY <1>4 DEF Before, Repeatable, Filters
    <3> QED
      BY <1>2, <1>3, <3>1, CollectedGoes
  <2>4. Goes(B, Spatial)
    BY <1>1, <1>2, BareGoes DEF Filled
  <2>5. Goes(X, {"EX"}) /\ Goes(T, FenceSays) /\ "FENCE" \in Words(T)
    BY WithGoes, FenceGoes
  <2> QED
    BY <2>1, <2>2, <2>3, <2>4, <2>5
<1>6. /\ Only(M, {"META"}) = Only(asked[h], {"META"})
      /\ Only(F, Filters) = Only(asked[h], Filters)
  <2>1. Only(M, {"META"}) = Only(asked[h], {"META"})
    BY <1>2, <1>3, OnlyOnly
  <2>2. Only(F, Filters) = F
    <3>1. {"WHERE", "MATCH"} \subseteq Filters
      BY DEF Filters
    <3> QED
      BY <1>5, <3>1, Loud
  <2>3. Only(asked[h], {"WHERE", "MATCH"}) = Only(asked[h], Filters)
    <3>1. \A c \in H : c[1] \in {"WHERE", "MATCH"} <=> c[1] \in Filters
      BY <1>2 DEF Filters
    <3> QED
      BY <1>2, <3>1, OnlySame
  <2> QED
    BY <1>3, <2>1, <2>2, <2>3
<1>7. /\ verb[h] # "META" /\ verb[h] # "EX" /\ W3 \cap Filters = {}
      /\ "META" \notin {verb[h]} /\ "META" \notin {"EX"} /\ "META" \notin Spatial
      /\ "META" \notin {"WHERE", "MATCH"} /\ "META" \notin FenceSays /\ FenceSays \cap Filters = {}
      /\ (W4 \cup FenceSays) \cap (Outputs \cup {"CURSOR"}) = {}
  BY DEF Hooks, Spatial, Filters, FenceSays, Outputs
<1>8. /\ \A u \in {verb[h]}, w \in {"META"} : Before(u, w)
      /\ \A u \in {verb[h]} \cup {"META"}, w \in {"EX"} : Before(u, w)
      /\ \A u \in W2, w \in Spatial : Before(u, w)
      /\ \A u \in W3, w \in {"WHERE", "MATCH"} : Before(u, w)
      /\ \A u \in W4, w \in FenceSays : Before(u, w)
  <2>1. \A u \in W2 : Stage(u) \in 1..2
    BY <1>4
  <2>2. \A u \in W3 : Stage(u) \in 1..3
    BY <1>4, <2>1
  <2>3. \A u \in W4 : Stage(u) \in 1..4
    BY <1>4, <2>2
  <2> HIDE DEF W2, W3, W4
  <2>4. \A u \in {verb[h]}, w \in {"META"} : Before(u, w)
    BY <1>4, <1>7 DEF Before
  <2>5. \A u \in {verb[h]} \cup {"META"}, w \in {"EX"} : Before(u, w)
    <3>1. \A u \in {verb[h]} \cup {"META"} : Stage(u) <= 2 /\ u # "EX"
      BY <1>4, <1>7
    <3> QED
      BY <1>4, <3>1 DEF Before
  <2>6. \A u \in W2, w \in Spatial : Before(u, w)
    BY <1>4, <2>1 DEF Before
  <2>7. \A u \in W3, w \in {"WHERE", "MATCH"} : Before(u, w)
    BY <1>4, <2>2 DEF Before
  <2>8. \A u \in W4, w \in FenceSays : Before(u, w)
    BY <1>4, <2>3 DEF Before
  <2> QED
    BY <2>4, <2>5, <2>6, <2>7, <2>8
<1> HIDE DEF p, M, X, B, F, T, H
<1> DEFINE s1 == p \o M
           s2 == s1 \o X
           s3 == s2 \o B
           s4 == s3 \o F
           s5 == s4 \o T
<1>9. Goes(s1, {verb[h]} \cup {"META"}) /\ Only(s1, {"META"}) = Only(asked[h], {"META"})
  <2>1. Goes(p \o M, {verb[h]} \cup {"META"})
    BY <1>5, <1>8, BothGo
  <2>2. \A words : {verb[h]} \cap words = {} => Only(p \o M, words) = Only(M, words)
    BY <1>5, SilentBefore DEF Goes
  <2>3. {verb[h]} \cap {"META"} = {}
    BY <1>7
  <2> QED
    BY <1>6, <2>1, <2>2, <2>3
<1> HIDE DEF s1
<1>10. Goes(s2, W2) /\ Only(s2, {"META"}) = Only(asked[h], {"META"})
  <2>1. Goes(s1 \o X, W2)
    BY <1>5, <1>8, <1>9, BothGo
  <2>2. \A words : {"EX"} \cap words = {} => Only(s1 \o X, words) = Only(s1, words)
    BY ZenonT(40), <1>5, <1>9, SilentAfter DEF Goes
  <2>3. Only(s1 \o X, {"META"}) = Only(s1, {"META"})
    BY <1>7, <2>2
  <2> QED
    BY <1>9, <2>1, <2>3
<1> HIDE DEF s2, W2
<1>11. Goes(s3, W3) /\ Only(s3, {"META"}) = Only(asked[h], {"META"})
  <2>1. Goes(s2 \o B, W3)
    BY <1>5, <1>8, <1>10, BothGo
  <2>2. \A words : Spatial \cap words = {} => Only(s2 \o B, words) = Only(s2, words)
    BY ZenonT(40), <1>5, <1>10, SilentAfter DEF Goes
  <2>3. Only(s2 \o B, {"META"}) = Only(s2, {"META"})
    BY <1>7, <2>2
  <2> QED
    BY <1>10, <2>1, <2>3
<1> HIDE DEF s3, W3
<1>12. Goes(s4, W4) /\ Tells(h, s4)
  <2>1. Goes(s3 \o F, W4)
    BY <1>5, <1>8, <1>11, BothGo
  <2>2. \A words : {"WHERE", "MATCH"} \cap words = {} => Only(s3 \o F, words) = Only(s3, words)
    BY ZenonT(40), <1>5, <1>11, SilentAfter DEF Goes
  <2>3. Only(s3 \o F, {"META"}) = Only(s3, {"META"})
    BY <1>7, <2>2
  <2>4. Only(s3 \o F, Filters) = Only(F, Filters)
    BY <1>5, <1>7, <1>11, SilentBefore DEF Goes
  <2> QED
    BY <1>6, <1>11, <2>1, <2>3, <2>4 DEF Tells
<1> HIDE DEF s4, W4
<1>13. Goes(s5, W4 \cup FenceSays) /\ Tells(h, s5) /\ "FENCE" \in Words(s5)
  <2>1. Goes(s4 \o T, W4 \cup FenceSays)
    BY <1>5, <1>8, <1>12, BothGo
  <2>2. Tells(h, s4 \o T)
    BY <1>5, <1>7, <1>12, TellsMore DEF Goes
  <2>3. "FENCE" \in Words(s4 \o T)
    BY <1>5, <1>12, Concatenated DEF Goes
  <2> QED
    BY <2>1, <2>2, <2>3
<1> HIDE DEF s5
<1>14. /\ IsSeq(s5) /\ Ordered(s5) /\ Words(s5) \cap (Outputs \cup {"CURSOR"}) = {}
  BY <1>7, <1>13 DEF Goes
<1>15. HookHead(h) \o Bare(slot[h], "trigger") \o Collected(h, {"WHERE", "MATCH"}) \o <<>>
         \o FenceTokens(slot[h]) \o <<>> = s5
  <2>1. HookHead(h) \o Bare(slot[h], "trigger") \o Collected(h, {"WHERE", "MATCH"}) = s4
    BY DEF HookHead, p, M, X, B, F, s1, s2, s3, s4
  <2>2. s4 \o <<>> = s4
    BY <1>12, EmptyAfter DEF Goes
  <2>3. s5 \o <<>> = s5
    BY <1>14, EmptyAfter
  <2>4. s4 \o FenceTokens(slot[h]) = s5
    BY DEF T, s5
  <2> QED
    BY <2>1, <2>2, <2>3, <2>4
<1> QED
  BY <1>13, <1>14, <1>15

-----------------------------------------------------------------------------
(* Areas.                                                                  *)

LEMMA OperandsAre ==
  /\ \A a \in {"OBJECT", "A5", "HASH", "QUADKEY"} : Operands(a) = 1
  /\ \A a \in {"GET", "POINT"} : Operands(a) = 2
  /\ \A a \in {"ROAM", "CIRCLE", "TILE"} : Operands(a) = 3
  /\ Operands("BOUNDS") = 4 /\ Operands("SECTOR") = 5
<1>1. \A a \in {"OBJECT", "A5", "HASH", "QUADKEY"} : Operands(a) = 1
  BY Zenon DEF Operands
<1>2. \A a \in {"GET", "POINT"} : Operands(a) = 2
  <2>1. \A a \in {"GET", "POINT"} : a \notin {"OBJECT", "A5", "HASH", "QUADKEY"}
    OBVIOUS
  <2> QED
    BY <2>1, Zenon DEF Operands
<1>3. \A a \in {"ROAM", "CIRCLE", "TILE"} : Operands(a) = 3
  <2>1. \A a \in {"ROAM", "CIRCLE", "TILE"} :
          a \notin {"OBJECT", "A5", "HASH", "QUADKEY"} /\ a \notin {"GET", "POINT"}
    OBVIOUS
  <2> QED
    BY <2>1, Zenon DEF Operands
<1>4. Operands("BOUNDS") = 4 /\ Operands("SECTOR") = 5
  <2>1. \A a \in {"BOUNDS", "SECTOR"} :
          a \notin {"OBJECT", "A5", "HASH", "QUADKEY"} /\ a \notin {"GET", "POINT"}
          /\ a \notin {"ROAM", "CIRCLE", "TILE"}
    OBVIOUS
  <2> QED
    BY <2>1, Zenon DEF Operands
<1> QED
  BY <1>1, <1>2, <1>3, <1>4

LEMMA OperandsCount == \A a \in Areas : Operands(a) \in Nat
BY OperandsAre DEF Areas

\* An area with the operands its keyword takes.
Placed(h, place) ==
  IF slot[h]["area"] = Unset THEN place = <<>>
  ELSE \E n \in Nat : /\ place = AreaClause(slot[h]["area"], n)
                      /\ \/ n = Operands(slot[h]["area"])
                         \/ slot[h]["area"] = "POINT" /\ n = 3

LEMMA AreaIsPlaced ==
  ASSUME NEW h, slot[h]["area"] \in Areas \cup {Unset}
  PROVE  Placed(h, PointGeometry(h))
<1> DEFINE a == slot[h]["area"]
<1>1. CASE a = Unset
  BY <1>1 DEF Placed, PointGeometry
<1>2. CASE a # Unset
  <2>1. a \in Areas /\ Operands(a) \in Nat /\ (a = "POINT" => Operands(a) = 2)
    BY <1>2, OperandsCount, OperandsAre
  <2>2. CASE a = "POINT" /\ slot[h]["radius"] # Unset
    <3>1. PointGeometry(h) = AreaClause(a, Operands(a) + 1)
      BY <1>2, <2>2 DEF PointGeometry
    <3>2. Operands(a) + 1 = 3
      BY <2>1, <2>2
    <3> QED
      BY <1>2, <2>2, <3>1, <3>2 DEF Placed
  <2>3. CASE ~(a = "POINT" /\ slot[h]["radius"] # Unset)
    <3>1. PointGeometry(h) = AreaClause(a, Operands(a) + 0)
      BY <1>2, <2>3 DEF PointGeometry
    <3>2. Operands(a) + 0 = Operands(a)
      BY <2>1
    <3> QED
      BY <1>2, <2>1, <3>1, <3>2 DEF Placed
  <2> QED
    BY <2>2, <2>3
<1> QED
  BY <1>1, <1>2

\* An area clause is its keyword and so many operands.
LEMMA AreaClauseIs ==
  ASSUME NEW a, NEW n \in Nat
  PROVE  /\ AreaClause(a, n) = <<AreaClause(a, n)[1]>>
         /\ IsSeq(AreaClause(a, n)[1])
         /\ AreaClause(a, n)[1][1] = a /\ Len(AreaClause(a, n)[1]) = n + 1
<1> DEFINE xs == [i \in 1..n |-> "x"]
           c == <<a>> \o xs
           S == {a, "x"}
<1>1. AreaClause(a, n) = <<c>> /\ <<c>>[1] = c
  BY DEF AreaClause
<1>2. xs \in Seq(S) /\ Len(xs) = n
  <2>1. xs \in [1..n -> S] /\ DOMAIN xs = 1..n
    OBVIOUS
  <2> HIDE DEF xs
  <2>2. xs \in Seq(S)
    BY <2>1, SeqDef
  <2> QED
    BY <2>1, <2>2, LenProperties
<1>3. <<a>> \in Seq(S) /\ Len(<<a>>) = 1 /\ <<a>>[1] = a
  OBVIOUS
<1>4. c \in Seq(S) /\ Len(c) = n + 1 /\ c[1] = a
  BY <1>2, <1>3, ConcatProperties
<1> QED
  BY <1>1, <1>4 DEF IsSeq

LEMMA TestStemGoes ==
  ASSUME HeapOK, Whole, Slotted, NEW h \in Handles, verb[h] = "TEST", slot[h]["trigger"] # Unset,
         NEW clip \in BOOLEAN
  PROVE  LET stem == << <<"TEST">> \o AreaClause(slot[h]["first"], Operands(slot[h]["first"]))[1] >>
                       \o << <<slot[h]["trigger"]>> >> \o (IF clip THEN << <<"CLIP">> >> ELSE <<>>) IN
         Ordered(stem) /\ IsSeq(stem) /\ Tells(h, stem)
<1> DEFINE a == slot[h]["first"]
           t == slot[h]["trigger"]
           first == <<"TEST">> \o AreaClause(a, Operands(a))[1]
           p1 == <<first>>
           p2 == << <<t>> >>
           p3 == IF clip THEN << <<"CLIP">> >> ELSE <<>>
           R == {"WITHIN", "INTERSECTS"}
           W == {"TEST"} \cup R \cup {"CLIP"}
<1>1. Exists(h) /\ verb[h] = "TEST" /\ "TEST" \in Verbs
  BY UnsetAssumption DEF Exists, Verbs
<1>2. a \in Areas /\ t \in R /\ asked[h] \in Seq(Offered("TEST"))
  <2>1. Filled(slot[h], "TEST") /\ asked[h] \in Seq(Offered("TEST"))
    BY <1>1, HandleIs
  <2>2. TestOffers.areas \subseteq Areas
    BY <1>1, AreasOffered, OffersAre
  <2> QED
    BY <2>1, <2>2 DEF Filled
<1>3. first[1] = "TEST"
  <2> DEFINE c == AreaClause(a, Operands(a))[1]
  <2>1. IsSeq(c) /\ IsSeq(<<"TEST">>)
    <3>1. IsSeq(c)
      BY <1>2, OperandsCount, AreaClauseIs
    <3>2. <<"TEST">> \in Seq({"TEST"})
      OBVIOUS
    <3> QED
      BY <3>1, <3>2 DEF IsSeq
  <2> HIDE DEF c
  <2>2. PICK S : <<"TEST">> \in Seq(S) /\ c \in Seq(S)
    BY <2>1, BothAreSeqs
  <2>3. Len(<<"TEST">>) = 1 /\ <<"TEST">>[1] = "TEST" /\ Len(c) \in Nat
    BY <2>2, LenProperties
  <2>4. (<<"TEST">> \o c)[1] = "TEST"
    BY <2>2, <2>3, ConcatProperties
  <2> QED
    BY <2>4 DEF c
<1>4. Goes(p1, {"TEST"}) /\ Goes(p2, R) /\ Goes(p3, {"CLIP"})
  <2>1. Goes(p1, {"TEST"})
    <3> HIDE DEF first
    <3> QED
      BY <1>3, OneGoes
  <2>2. Goes(p2, R)
    <3>1. <<t>>[1] = t
      OBVIOUS
    <3> QED
      BY <1>2, <3>1, OneGoes
  <2>3. Goes(p3, {"CLIP"})
    <3>1. <<"CLIP">>[1] = "CLIP"
      OBVIOUS
    <3>2. Goes(<< <<"CLIP">> >>, {"CLIP"})
      BY <3>1, OneGoes
    <3> QED
      BY <3>2, NoneGoes
  <2> QED
    BY <2>1, <2>2, <2>3
<1>5. /\ \A u \in {"TEST"}, w \in R : Before(u, w)
      /\ \A u \in {"TEST"} \cup R, w \in {"CLIP"} : Before(u, w)
  <2>1. Stage("TEST") = 1 /\ Stage("WITHIN") = 3 /\ Stage("INTERSECTS") = 3 /\ Stage("CLIP") = 4
    BY StageOf DEF Spatial, Options
  <2> QED
    BY <2>1 DEF Before
<1> HIDE DEF p1, p2, p3
<1>6. Goes(p1 \o p2, {"TEST"} \cup R)
  BY <1>4, <1>5, BothGo
<1> DEFINE s == p1 \o p2
<1> HIDE DEF s
<1>7. Goes(s \o p3, W)
  <2>1. Goes(s, {"TEST"} \cup R)
    BY <1>6 DEF s
  <2> HIDE DEF R
  <2> QED
    BY <1>4, <1>5, <2>1, BothGo
<1>8. Tells(h, s \o p3)
  <2>1. \A words : W \cap words = {} => Only(s \o p3, words) = <<>>
    BY <1>7, Silent
  <2>2. \A words : Only(asked[h], words) = <<>>
    <3>1. \A words : \A c \in Offered("TEST") : c[1] \notin words
      BY FiltersOffered DEF Offered
    <3> QED
      BY <1>2, <3>1, OnlyNone
  <2>3. W \cap Filters = {} /\ W \cap {"META"} = {}
    BY DEF Filters
  <2> HIDE DEF W
  <2>4. Only(s \o p3, Filters) = <<>> /\ Only(s \o p3, {"META"}) = <<>>
    BY <2>1, <2>3
  <2>5. Only(asked[h], Filters) = <<>> /\ Only(asked[h], {"META"}) = <<>>
    BY <2>2
  <2> QED
    BY <2>4, <2>5 DEF Tells
<1> QED
  BY <1>7, <1>8 DEF Goes, p1, p2, p3, s

\* A command is its stem and the place it ends with.
Reads(h, cmd, stem) ==
  /\ IsSeq(stem) /\ Ordered(stem) /\ Tells(h, stem)
  /\ \E place : Placed(h, place) /\ cmd = stem \o place

LEMMA BodyIsStem ==
  ASSUME NEW h \in Handles, slot[h]["area"] \in Areas \cup {Unset}, NEW cmd, NEW stem, Reads(h, cmd, stem)
  PROVE  /\ Body(h, cmd) = stem
         /\ slot[h]["area"] # Unset =>
              \E n \in Nat : /\ Last(cmd)[1] = slot[h]["area"] /\ Len(Last(cmd)) = n + 1
                             /\ \/ n = Operands(slot[h]["area"])
                                \/ slot[h]["area"] = "POINT" /\ n = 3
<1>1. PICK place : Placed(h, place) /\ cmd = stem \o place
  BY DEF Reads
<1>2. IsSeq(stem)
  BY DEF Reads
<1>3. CASE slot[h]["area"] = Unset
  BY <1>1, <1>2, <1>3, EmptyAfter DEF Placed, Body
<1>4. CASE slot[h]["area"] # Unset
  <2>1. PICK n \in Nat : /\ place = AreaClause(slot[h]["area"], n)
                         /\ \/ n = Operands(slot[h]["area"])
                            \/ slot[h]["area"] = "POINT" /\ n = 3
    BY <1>1, <1>4 DEF Placed
  <2> DEFINE c == AreaClause(slot[h]["area"], n)[1]
  <2>2. place = <<c>> /\ c[1] = slot[h]["area"] /\ Len(c) = n + 1
    BY <2>1, AreaClauseIs
  <2> HIDE DEF c
  <2>3. PICK S : stem \in Seq(S) /\ <<c>> \in Seq(S)
    <3>1. <<c>> \in Seq({c})
      OBVIOUS
    <3>2. IsSeq(<<c>>)
      BY <3>1 DEF IsSeq
    <3> QED
      BY <1>2, <3>2, BothAreSeqs
  <2>4. c \in S
    <3>1. <<c>>[1] = c /\ 1 \in 1..Len(<<c>>)
      OBVIOUS
    <3> QED
      BY <2>3, <3>1, ElementOfSeq
  <2>5. cmd = Append(stem, c)
    BY <1>1, <2>2, <2>3, <2>4, AppendIsConcat
  <2>6. Len(cmd) = Len(stem) + 1 /\ cmd[Len(cmd)] = c /\ Len(stem) \in Nat /\ cmd \in Seq(S)
        /\ \A i \in 1..Len(stem) : cmd[i] = stem[i]
    BY <2>3, <2>4, <2>5, AppendProperties, LenProperties
  <2>7. Last(cmd) = c
    BY <2>6 DEF Last
  <2>8. Front(cmd) = stem
    <3>1. Front(cmd) = SubSeq(cmd, 1, Len(stem))
      BY <2>6 DEF Front
    <3>2. SubSeq(cmd, 1, Len(stem)) = SubSeq(stem, 1, Len(stem))
      BY <2>3, <2>6, SameSlice
    <3>3. SubSeq(stem, 1, Len(stem)) = stem
      BY <2>3, SubSeqFull
    <3> QED
      BY <3>1, <3>2, <3>3
  <2> QED
    BY <1>4, <2>1, <2>2, <2>7, <2>8 DEF Body
<1> QED
  BY <1>3, <1>4

\* Every command a handle could send has a stem, and what it says.
LEMMA QueriesRead ==
  ASSUME HeapOK, Whole, Slotted, NEW h \in Handles, NEW cmd \in Queries(h)
  PROVE  /\ Exists(h)
         /\ \E stem : /\ Reads(h, cmd, stem)
                      /\ Words(stem) \cap (FenceWords \cup {"FENCE"}) = {}
                      /\ "DISTANCE" \in Words(stem) => "POINTS" \in Words(stem)
<1>1. verb[h] \in Spatial \cup Plain /\ cmd \in {ExecArgs(h), CountArgs(h)}
  BY DEF Queries
<1>2. Exists(h) /\ verb[h] \in Verbs
  BY <1>1, UnsetAssumption DEF Exists, Verbs
<1>3. /\ slot[h]["format"] \in Formats(verb[h])
      /\ slot[h]["area"] \in Areas \cup {Unset}
  BY <1>1, <1>2, HandleIs, AreasOffered DEF Filled
<1>4. Placed(h, PointGeometry(h))
  BY <1>3, AreaIsPlaced
<1>5. ASSUME NEW fmt, Goes(fmt, {"DISTANCE"} \cup Outputs),
             "DISTANCE" \in Words(fmt) => "POINTS" \in Words(fmt),
             cmd = SearchHead(h) \o OptionTokens(slot[h]) \o <<>> \o fmt \o PointGeometry(h)
      PROVE  \E stem : /\ Reads(h, cmd, stem)
                       /\ Words(stem) \cap (FenceWords \cup {"FENCE"}) = {}
                       /\ "DISTANCE" \in Words(stem) => "POINTS" \in Words(stem)
  <2> DEFINE stem == SearchHead(h) \o OptionTokens(slot[h]) \o <<>> \o fmt
  <2>1. /\ Ordered(stem) /\ IsSeq(stem) /\ Tells(h, stem)
        /\ Words(stem) \cap (FenceWords \cup {"FENCE"}) = {}
        /\ "DISTANCE" \in Words(stem) => "POINTS" \in Words(stem)
    BY <1>1, <1>5, QueryStemGoes
  <2>2. cmd = stem \o PointGeometry(h)
    BY <1>5
  <2> HIDE DEF stem
  <2> QED
    BY <1>4, <2>1, <2>2 DEF Reads
<1>6. CASE cmd = ExecArgs(h)
  <2>1. slot[h]["format"] \in AllFormats
    BY <1>1, <1>3, FormatsAre DEF Spatial, Plain, AllFormats, NearbyFormats, WithinFormats, IntersectsFormats,
                                  ScanFormats, SearchFormats
  <2>2. cmd = SearchHead(h) \o OptionTokens(slot[h]) \o <<>> \o FormatTokens(slot[h]["format"])
                \o PointGeometry(h)
    BY <1>6 DEF ExecArgs, BuildSearch
  <2> QED
    BY <1>2, <1>5, <2>1, <2>2, FormatGoes
<1>7. CASE cmd = CountArgs(h)
  <2>1. <<"COUNT">>[1] = "COUNT" /\ "COUNT" \in {"DISTANCE"} \cup Outputs
    BY DEF Outputs
  <2>2. Goes(<< <<"COUNT">> >>, {"DISTANCE"} \cup Outputs) /\ Words(<< <<"COUNT">> >>) = {"COUNT"}
    BY <2>1, OneGoes
  <2>3. cmd = SearchHead(h) \o OptionTokens(slot[h]) \o <<>> \o << <<"COUNT">> >> \o PointGeometry(h)
    BY <1>7 DEF CountArgs, BuildSearch
  <2> QED
    BY <1>2, <1>5, <2>2, <2>3
<1> QED
  BY <1>1, <1>6, <1>7

LEMMA FencesRead ==
  ASSUME HeapOK, Whole, Slotted, NEW h \in Handles, NEW cmd \in Fences(h)
  PROVE  /\ Exists(h)
         /\ \E stem : /\ Reads(h, cmd, stem)
                      /\ "FENCE" \in Words(stem) /\ Words(stem) \cap (Outputs \cup {"CURSOR"}) = {}
<1>1. \/ verb[h] \in Hooks /\ cmd = BuildFence(h)
      \/ verb[h] \in Spatial /\ cmd = FenceArgs(h)
  BY DEF Fences
<1>2. Exists(h) /\ verb[h] \in Verbs
  BY <1>1, UnsetAssumption DEF Exists, Verbs
<1>3. slot[h]["area"] \in Areas \cup {Unset}
  BY <1>2, HandleIs, AreasOffered DEF Filled
<1>4. Placed(h, PointGeometry(h))
  BY <1>3, AreaIsPlaced
<1>5. CASE verb[h] \in Hooks /\ cmd = BuildFence(h)
  <2> DEFINE stem == HookHead(h) \o Bare(slot[h], "trigger") \o Collected(h, {"WHERE", "MATCH"}) \o <<>>
                       \o FenceTokens(slot[h]) \o <<>>
  <2>1. /\ Ordered(stem) /\ IsSeq(stem) /\ Tells(h, stem)
        /\ "FENCE" \in Words(stem) /\ Words(stem) \cap (Outputs \cup {"CURSOR"}) = {}
    BY <1>5, HookStemGoes
  <2>2. cmd = stem \o PointGeometry(h)
    BY <1>5 DEF BuildFence, BuildSearch
  <2> HIDE DEF stem
  <2> QED
    BY <1>2, <1>4, <2>1, <2>2 DEF Reads
<1>6. CASE verb[h] \in Spatial /\ cmd = FenceArgs(h)
  <2> DEFINE stem == SearchHead(h) \o OptionTokens(FenceOpts(slot[h])) \o FenceTokens(slot[h]) \o <<>>
  <2>1. /\ Ordered(stem) /\ IsSeq(stem) /\ Tells(h, stem)
        /\ "FENCE" \in Words(stem) /\ Words(stem) \cap (Outputs \cup {"CURSOR"}) = {}
    BY <1>6, FenceStemGoes
  <2>2. cmd = stem \o PointGeometry(h)
    BY <1>6 DEF FenceArgs, BuildSearch
  <2> HIDE DEF stem
  <2> QED
    BY <1>2, <1>4, <2>1, <2>2 DEF Reads
<1> QED
  BY <1>1, <1>5, <1>6

LEMMA TestsRead ==
  ASSUME HeapOK, Whole, Slotted, NEW h \in Handles, NEW cmd \in Tests(h)
  PROVE  Exists(h) /\ \E stem : Reads(h, cmd, stem)
<1>1. verb[h] = "TEST" /\ slot[h]["trigger"] # Unset /\ cmd \in {TestArgs(h, clip) : clip \in BOOLEAN}
  BY DEF Tests
<1>2. PICK clip \in BOOLEAN : cmd = TestArgs(h, clip)
  BY <1>1
<1>3. Exists(h) /\ "TEST" \in Verbs
  BY <1>1, UnsetAssumption DEF Exists, Verbs
<1>4. slot[h]["area"] \in Areas /\ slot[h]["area"] # Unset
  <2>1. Filled(slot[h], "TEST") /\ Offers("TEST").areas \subseteq Areas
    BY <1>1, <1>3, HandleIs, AreasOffered
  <2> QED
    BY <1>1, <2>1 DEF Filled
<1> DEFINE stem == << <<"TEST">> \o AreaClause(slot[h]["first"], Operands(slot[h]["first"]))[1] >>
                     \o << <<slot[h]["trigger"]>> >> \o (IF clip THEN << <<"CLIP">> >> ELSE <<>>)
           place == AreaClause(slot[h]["area"], Operands(slot[h]["area"]))
<1>5. Ordered(stem) /\ IsSeq(stem) /\ Tells(h, stem)
  BY <1>1, TestStemGoes
<1>6. cmd = stem \o place
  BY <1>2 DEF TestArgs
<1>7. Placed(h, place)
  BY <1>4, OperandsCount DEF Placed
<1> HIDE DEF stem, place
<1> QED
  BY <1>3, <1>5, <1>6, <1>7 DEF Reads

-----------------------------------------------------------------------------
(* Texts, joined and cut.                                                  *)

\* What Endpoint takes from the library is what the lemmas are about.
LEMMA SameFlat == \A ss : Url!FlattenSeq(ss) = FlattenSeq(ss)
BY Zenon DEF Url!FlattenSeq, FlattenSeq

LEMMA SameSize == \A T : Url!Cardinality(T) = Cardinality(T)
BY Zenon DEF Url!Cardinality, Cardinality

LEMMA SameFinite == \A T : Url!IsFiniteSet(T) = IsFiniteSet(T)
BY Zenon DEF Url!IsFiniteSet, IsFiniteSet

LEMMA SameEnds == \A s : Url!Front(s) = Front(s) /\ Url!Last(s) = Last(s)
BY Zenon DEF Url!Front, Front, Url!Last, Last

\* Where the parts of a text end: p[k] is the place after part k.
Laid(text, parts, sep, p) ==
  LET n == Len(parts) IN
  /\ p \in [0..n -> Nat] /\ p[0] = 0 /\ p[n] = Len(text) + 1
  /\ \A k \in 1..n : p[k] = p[k - 1] + 1 + Len(parts[k])
  /\ \A k \in 1..n : \A i \in 1..Len(parts[k]) : text[p[k - 1] + i] = parts[k][i]
  /\ \A k \in 1..n : k < n => text[p[k]] = sep

LEMMA JoinNoneIs == \A sep : Url!JoinWith(<<>>, sep) = <<>>
<1>1. ASSUME NEW sep PROVE Url!JoinWith(<<>>, sep) = <<>>
  <2>1. [i \in DOMAIN <<>> |-> (IF i = 1 THEN <<>> ELSE <<sep>>) \o <<>>[i]] = <<>>
    OBVIOUS
  <2> QED
    BY <2>1, FlatEmpty, SameFlat DEF Url!JoinWith
<1> QED
  BY <1>1

\* What one part more does to a join.
LEMMA JoinMore ==
  ASSUME NEW S, NEW sep \in S, NEW parts \in Seq(Seq(S)), NEW e \in Seq(S)
  PROVE  /\ Url!JoinWith(parts, sep) \in Seq(S)
         /\ Url!JoinWith(Append(parts, e), sep) =
              IF parts = <<>> THEN e ELSE Url!JoinWith(parts, sep) \o (<<sep>> \o e)
<1> DEFINE Piece(s, i) == (IF i = 1 THEN <<>> ELSE <<sep>>) \o s[i]
           more == Append(parts, e)
           ss == [i \in DOMAIN parts |-> Piece(parts, i)]
           tt == [i \in DOMAIN more |-> Piece(more, i)]
           last == (IF parts = <<>> THEN <<>> ELSE <<sep>>) \o e
           n == Len(parts)
<1>1. n \in Nat /\ DOMAIN parts = 1..n /\ DOMAIN more = 1..n + 1 /\ more[n + 1] = e
      /\ \A i \in 1..n : more[i] = parts[i] /\ parts[i] \in Seq(S)
  BY AppendProperties, LenProperties
<1>2. <<>> \in Seq(S) /\ <<sep>> \in Seq(S)
  OBVIOUS
<1>3. \A i \in 1..n : Piece(parts, i) \in Seq(S)
  BY <1>1, <1>2, ConcatProperties
<1>4. ss \in Seq(Seq(S)) /\ Len(ss) = n /\ \A i \in 1..n : ss[i] = Piece(parts, i)
  <2> HIDE DEF Piece
  <2> QED
    BY <1>1, <1>3
<1>5. last \in Seq(S)
  BY <1>2, ConcatProperties
<1>6. tt = Append(ss, last)
  <2>1. parts = <<>> <=> n = 0
    BY EmptySeq
  <2>2. Piece(more, n + 1) = last
    BY <1>1, <2>1
  <2>3. \A i \in 1..n : Piece(more, i) = Piece(parts, i)
    BY <1>1
  <2> HIDE DEF Piece, last
  <2>4. tt = [i \in 1..n + 1 |-> Piece(more, i)]
    BY <1>1
  <2>5. Append(ss, last) \in Seq(Seq(S)) /\ Len(Append(ss, last)) = n + 1
        /\ Append(ss, last)[n + 1] = last /\ \A i \in 1..n : Append(ss, last)[i] = ss[i]
    BY <1>4, <1>5, AppendProperties
  <2>6. Append(ss, last) = [i \in 1..n + 1 |-> Append(ss, last)[i]]
    BY <2>5, LenProperties
  <2>7. \A i \in 1..n + 1 : Append(ss, last)[i] = Piece(more, i)
    BY <1>1, <1>4, <2>2, <2>3, <2>5
  <2> QED
    BY <2>4, <2>6, <2>7
<1>7. Url!JoinWith(parts, sep) = FlattenSeq(ss) /\ Url!JoinWith(more, sep) = FlattenSeq(tt)
  BY SameFlat, Zenon DEF Url!JoinWith
<1>8. ss = <<>> <=> parts = <<>>
  BY <1>4, EmptySeq
<1> HIDE DEF ss, tt, Piece
<1>9. FlattenSeq(ss) \in Seq(S)
  BY <1>4, FlatTyped
<1>10. FlattenSeq(tt) = IF ss = <<>> THEN last ELSE FlattenSeq(ss) \o last
  BY <1>4, <1>5, <1>6, FlatAppend
<1>11. <<>> \o e = e
  BY ConcatEmptySeq
<1> QED
  BY <1>7, <1>8, <1>9, <1>10, <1>11

Grows(p, n) == \A j, k \in 0..n : j < k => p[j] < p[k]

LEMMA LaidGrows ==
  ASSUME NEW S, NEW text, NEW parts \in Seq(Seq(S)), NEW sep, NEW p, Laid(text, parts, sep, p)
  PROVE  Grows(p, Len(parts))
<1> DEFINE n == Len(parts)
           T == {k \in Nat : k <= n => \A j \in 0..k : j < k => p[j] < p[k]}
<1>1. n \in Nat /\ p \in [0..n -> Nat] /\ \A k \in 1..n : p[k] = p[k - 1] + 1 + Len(parts[k])
  BY LenProperties DEF Laid
<1>2. \A k \in 1..n : Len(parts[k]) \in Nat
  BY LenProperties
<1> HIDE DEF n
<1>3. 0 \in T
  OBVIOUS
<1>4. ASSUME NEW k \in Nat, k \in T PROVE k + 1 \in T
  <2> SUFFICES ASSUME k + 1 <= n, NEW j \in 0..k + 1, j < k + 1 PROVE p[j] < p[k + 1]
    OBVIOUS
  <2>1. k + 1 \in 1..n /\ (k + 1) - 1 = k
    OBVIOUS
  <2>2. p[k + 1] = p[k] + 1 + Len(parts[k + 1]) /\ Len(parts[k + 1]) \in Nat
    BY <1>1, <1>2, <2>1
  <2>3. p[k] \in Nat /\ p[j] \in Nat
    BY <1>1
  <2>4. p[k] < p[k + 1]
    BY <2>2, <2>3
  <2>5. j = k \/ p[j] < p[k]
    <3>1. k <= n /\ (j = k \/ (j \in 0..k /\ j < k))
      BY <1>1
    <3> QED
      BY <1>4, <3>1
  <2> QED
    BY <2>2, <2>3, <2>4, <2>5
<1>5. \A k \in Nat : k \in T
  <2> HIDE DEF T
  <2> QED
    BY <1>3, <1>4, NatSet
<1> QED
  BY <1>1, <1>5 DEF Grows, n

LEMMA Fits ==
  \A a, b, l, i, t \in Nat : b = a + 1 + l /\ b <= t + 1 /\ 1 <= i /\ i <= l => 1 <= a + i /\ a + i <= t
OBVIOUS

LEMMA Within ==
  \A a, b, l, i \in Nat : b = a + 1 + l /\ a < i /\ i < b => i - a \in 1..l /\ a + (i - a) = i
OBVIOUS

\* A part more lies after the others.
LEMMA LaidMore ==
  ASSUME NEW S, NEW sep \in S, NEW parts \in Seq(Seq(S)), NEW text \in Seq(S), NEW e \in Seq(S), NEW p,
         Laid(text, parts, sep, p)
  PROVE  \E q : Laid(text \o (<<sep>> \o e), Append(parts, e), sep, q)
<1> DEFINE n == Len(parts)
           more == Append(parts, e)
           u == <<sep>> \o e
           whole == text \o u
           q == [k \in 0..n + 1 |-> IF k <= n THEN p[k] ELSE p[n] + 1 + Len(e)]
<1>1. n \in Nat /\ more \in Seq(Seq(S)) /\ Len(more) = n + 1 /\ more[n + 1] = e
      /\ \A i \in 1..n : more[i] = parts[i]
  BY AppendProperties, LenProperties
<1>2. Len(u) = 1 + Len(e) /\ u[1] = sep /\ u \in Seq(S) /\ Len(e) \in Nat /\ \A i \in 1..Len(e) : u[1 + i] = e[i]
  <2>1. <<sep>> \in Seq(S) /\ Len(<<sep>>) = 1 /\ <<sep>>[1] = sep
    OBVIOUS
  <2>2. Len(e) \in Nat
    BY LenProperties
  <2>3. Len(u) = 1 + Len(e) /\ u \in Seq(S)
        /\ \A i \in 1..Len(u) : u[i] = IF i <= 1 THEN <<sep>>[i] ELSE e[i - 1]
    BY <2>1, ConcatProperties
  <2> QED
    BY <2>1, <2>2, <2>3
<1>3. Len(text) \in Nat /\ Len(whole) = Len(text) + Len(u) /\ whole \in Seq(S)
      /\ \A i \in 1..Len(whole) : whole[i] = IF i <= Len(text) THEN text[i] ELSE u[i - Len(text)]
  BY <1>2, ConcatProperties, LenProperties
<1>4. /\ p \in [0..n -> Nat] /\ p[0] = 0 /\ p[n] = Len(text) + 1
      /\ \A k \in 1..n : p[k] = p[k - 1] + 1 + Len(parts[k])
      /\ \A k \in 1..n : \A i \in 1..Len(parts[k]) : text[p[k - 1] + i] = parts[k][i]
      /\ \A k \in 1..n : k < n => text[p[k]] = sep
  BY DEF Laid
<1>5. Grows(p, n)
  BY LaidGrows
<1>6. \A k \in 1..n : Len(parts[k]) \in Nat
  BY LenProperties
<1> HIDE DEF n, more, u, whole
<1>7. \A k \in 0..n : p[k] <= p[n] /\ p[k] \in Nat
  <2> SUFFICES ASSUME NEW k \in 0..n PROVE p[k] <= p[n] /\ p[k] \in Nat
    OBVIOUS
  <2>1. p[k] \in Nat /\ p[n] \in Nat /\ n \in 0..n /\ (k = n \/ k < n)
    BY <1>1, <1>4
  <2>2. k = n \/ p[k] < p[n]
    BY <1>5, <2>1 DEF Grows
  <2> QED
    BY <2>1, <2>2
<1>8. /\ q \in [0..n + 1 -> Nat] /\ q[n + 1] = p[n] + 1 + Len(e) /\ \A k \in 0..n : q[k] = p[k]
  BY <1>1, <1>2, <1>4
<1> HIDE DEF q
<1>9. q[0] = 0 /\ q[n + 1] = Len(whole) + 1
  BY <1>1, <1>2, <1>3, <1>4, <1>8
<1>10. ASSUME NEW k \in 1..n + 1 PROVE q[k] = q[k - 1] + 1 + Len(more[k])
  <2>1. CASE k = n + 1
    BY <1>1, <1>8, <2>1
  <2>2. CASE k # n + 1
    <3>1. k \in 1..n /\ k - 1 \in 0..n /\ k \in 0..n
      BY <1>1, <2>2
    <3> QED
      BY <1>1, <1>4, <1>8, <3>1
  <2> QED
    BY <2>1, <2>2
<1>11. ASSUME NEW k \in 1..n + 1, NEW i \in 1..Len(more[k]) PROVE whole[q[k - 1] + i] = more[k][i]
  <2>1. CASE k = n + 1
    <3>1. q[k - 1] = Len(text) + 1 /\ more[k] = e
      BY <1>1, <1>4, <1>8, <2>1
    <3>2. Len(text) + 1 + i \in 1..Len(whole) /\ ~(Len(text) + 1 + i <= Len(text))
          /\ Len(text) + 1 + i - Len(text) = 1 + i
      BY <1>2, <1>3, <3>1
    <3>3. whole[Len(text) + 1 + i] = u[1 + i]
      BY <1>3, <3>2
    <3> QED
      BY <1>2, <3>1, <3>3
  <2>2. CASE k # n + 1
    <3>1. k \in 1..n /\ k - 1 \in 0..n /\ k \in 0..n /\ more[k] = parts[k]
      BY <1>1, <2>2
    <3>2. q[k - 1] = p[k - 1] /\ p[k] = p[k - 1] + 1 + Len(parts[k]) /\ p[k - 1] \in Nat /\ p[k] <= p[n]
      BY <1>4, <1>7, <1>8, <3>1
    <3>3. p[k - 1] + i \in 1..Len(text)
      <4>1. i \in 1..Len(parts[k]) /\ Len(parts[k]) \in Nat /\ p[k] \in Nat
        BY <1>6, <1>7, <3>1
      <4>2. p[k] <= Len(text) + 1
        BY <1>4, <3>2
      <4>3. Len(text) \in Nat /\ p[k - 1] \in Nat /\ p[k] = p[k - 1] + 1 + Len(parts[k])
        BY <1>3, <3>2
      <4>4. 1 <= i /\ i <= Len(parts[k]) /\ i \in Nat
        BY <4>1
      <4>5. p[k - 1] + i <= Len(text) /\ 1 <= p[k - 1] + i
        BY <4>1, <4>2, <4>3, <4>4, Fits
      <4> QED
        BY <4>3, <4>4, <4>5
    <3>4. p[k - 1] + i \in 1..Len(whole)
      BY <1>2, <1>3, <3>3
    <3>5. whole[p[k - 1] + i] = text[p[k - 1] + i]
      BY <1>3, <3>3, <3>4
    <3> QED
      BY <1>4, <3>1, <3>2, <3>5
  <2> QED
    BY <2>1, <2>2
<1>12. ASSUME NEW k \in 1..n + 1, k < n + 1 PROVE whole[q[k]] = sep
  <2>1. k \in 1..n /\ k \in 0..n /\ q[k] = p[k]
    BY <1>1, <1>8, <1>12
  <2>2. CASE k = n
    <3>1. q[k] = Len(text) + 1 /\ Len(text) + 1 \in 1..Len(whole)
          /\ ~(Len(text) + 1 <= Len(text)) /\ Len(text) + 1 - Len(text) = 1
      BY <1>2, <1>3, <1>4, <2>1, <2>2
    <3>2. whole[Len(text) + 1] = u[1]
      BY <1>3, <3>1
    <3> QED
      BY <1>2, <3>1, <3>2
  <2>3. CASE k # n
    <3>1. k < n /\ p[k] < p[n] /\ p[0] < p[k]
      BY <1>1, <1>5, <2>1, <2>3 DEF Grows
    <3>2. p[k] \in 1..Len(text) /\ p[k] \in 1..Len(whole) /\ p[k] <= Len(text)
      BY <1>2, <1>3, <1>4, <1>7, <2>1, <3>1
    <3>3. whole[p[k]] = text[p[k]]
      BY <1>3, <3>2
    <3>4. text[p[k]] = sep
      BY <1>4, <2>1, <3>1
    <3> QED
      BY <2>1, <3>3, <3>4
  <2> QED
    BY <2>2, <2>3
<1>13. Laid(whole, more, sep, q)
  BY <1>1, <1>8, <1>9, <1>10, <1>11, <1>12 DEF Laid
<1> QED
  BY <1>13 DEF whole, more, u

LEMMA JoinIsLaid ==
  ASSUME NEW S, NEW sep \in S
  PROVE  \A parts \in Seq(Seq(S)) : parts # <<>> => \E p : Laid(Url!JoinWith(parts, sep), parts, sep, p)
<1> DEFINE T == {parts \in Seq(Seq(S)) : parts # <<>> => \E p : Laid(Url!JoinWith(parts, sep), parts, sep, p)}
<1>1. <<>> \in T
  BY EmptySeq
<1>2. ASSUME NEW parts \in Seq(Seq(S)), NEW e \in Seq(S), parts \in T PROVE Append(parts, e) \in T
  <2>1. Append(parts, e) \in Seq(Seq(S))
    BY AppendProperties
  <2>2. CASE parts = <<>>
    <3> DEFINE one == Append(parts, e)
               p == [k \in 0..1 |-> IF k = 0 THEN 0 ELSE Len(e) + 1]
    <3>1. Url!JoinWith(one, sep) = e
      BY <2>2, JoinMore
    <3>2. Len(one) = 1 /\ one[1] = e /\ Len(e) \in Nat
      BY <2>2, AppendProperties, LenProperties
    <3> HIDE DEF one
    <3>3. p \in [0..1 -> Nat] /\ p[0] = 0 /\ p[1] = Len(e) + 1
      BY <3>2
    <3> HIDE DEF p
    <3>4. Laid(e, one, sep, p)
      BY <3>2, <3>3 DEF Laid
    <3> QED
      BY <2>1, <3>1, <3>4 DEF one
  <2>3. CASE parts # <<>>
    <3>1. PICK p : Laid(Url!JoinWith(parts, sep), parts, sep, p)
      BY <1>2, <2>3
    <3>2. Url!JoinWith(parts, sep) \in Seq(S)
          /\ Url!JoinWith(Append(parts, e), sep) = Url!JoinWith(parts, sep) \o (<<sep>> \o e)
      BY <2>3, JoinMore
    <3>3. \E q : Laid(Url!JoinWith(parts, sep) \o (<<sep>> \o e), Append(parts, e), sep, q)
      BY <3>1, <3>2, LaidMore
    <3> QED
      BY <2>1, <3>2, <3>3
  <2> QED
    BY <2>2, <2>3
<1> HIDE DEF T
<1>3. \A parts \in Seq(Seq(S)) : parts \in T
  BY <1>1, <1>2, SeqSet
<1> QED
  BY <1>3 DEF T

\* How many places come before the k-th.
LEMMA Counted ==
  ASSUME NEW n \in Nat, NEW p \in [0..n -> Nat], Grows(p, n)
  PROVE  LET at == {p[k] : k \in 0..n} IN
         /\ \A k \in 0..n : Cardinality({j \in at : j < p[k]}) = k
         /\ Cardinality(at) = n + 1
<1> DEFINE at == {p[k] : k \in 0..n}
           To(k) == {p[j] : j \in 0..k - 1}
<1>1. ASSUME NEW k \in 0..n + 1 PROVE Cardinality(To(k)) = k
  <2> DEFINE f == [i \in 1..k |-> p[i - 1]]
  <2>1. \A i \in 1..k : i - 1 \in 0..k - 1 /\ i - 1 \in 0..n
    OBVIOUS
  <2>2. f \in [1..k -> To(k)] /\ \A i \in 1..k : f[i] = p[i - 1]
    BY <2>1
  <2>3. \A i, j \in 1..k : f[i] = f[j] => i = j
    <3> SUFFICES ASSUME NEW i \in 1..k, NEW j \in 1..k, f[i] = f[j], i < j \/ j < i PROVE FALSE
      OBVIOUS
    <3>1. p[i - 1] = p[j - 1]
      BY <2>2
    <3>2. p[i - 1] < p[j - 1] \/ p[j - 1] < p[i - 1]
      <4>1. i - 1 < j - 1 \/ j - 1 < i - 1
        OBVIOUS
      <4> QED
        BY <2>1, <4>1 DEF Grows
    <3>3. p[i - 1] \in Nat /\ p[j - 1] \in Nat
      BY <2>1
    <3> QED
      BY <3>1, <3>2, <3>3
  <2>4. \A x \in To(k) : \E i \in 1..k : f[i] = x
    <3> SUFFICES ASSUME NEW j \in 0..k - 1 PROVE \E i \in 1..k : f[i] = p[j]
      OBVIOUS
    <3>1. j + 1 \in 1..k /\ (j + 1) - 1 = j
      OBVIOUS
    <3> QED
      BY <2>2, <3>1
  <2> HIDE DEF f
  <2>5. ExistsBijection(1..k, To(k))
    <3>1. f \in Injection(1..k, To(k))
      BY <2>2, <2>3 DEF Injection, IsInjective
    <3> HIDE DEF To
    <3>2. f \in Surjection(1..k, To(k))
      BY <2>2, <2>4 DEF Surjection
    <3> QED
      BY <3>1, <3>2 DEF ExistsBijection, Bijection
  <2>6. k \in Nat
    OBVIOUS
  <2> QED
    BY <2>5, <2>6, FS_CountingElements
<1>2. ASSUME NEW k \in 0..n PROVE {j \in at : j < p[k]} = To(k)
  <2>1. ASSUME NEW j \in 0..n PROVE p[j] < p[k] <=> j < k
    <3>1. p[j] \in Nat /\ p[k] \in Nat /\ (j = k \/ j < k \/ k < j)
      OBVIOUS
    <3>2. (j < k => p[j] < p[k]) /\ (k < j => p[k] < p[j])
      BY DEF Grows
    <3> QED
      BY <3>1, <3>2
  <2>2. \A j \in 0..n : j < k <=> j \in 0..k - 1
    OBVIOUS
  <2>3. \A j \in 0..k - 1 : j \in 0..n
    OBVIOUS
  <2> QED
    BY <2>1, <2>2, <2>3
<1>3. at = To(n + 1)
  OBVIOUS
<1> HIDE DEF at, To
<1>4. \A k \in 0..n : k \in 0..n + 1
  OBVIOUS
<1>5. n + 1 \in 0..n + 1
  OBVIOUS
<1> QED
  BY <1>1, <1>2, <1>3, <1>4, <1>5 DEF at

\* The places between the parts.
Between(p, n) == {p[k] : k \in 1..n - 1}

LEMMA CutIsParts ==
  ASSUME NEW S, NEW text \in Seq(S), NEW parts \in Seq(Seq(S)), parts # <<>>, NEW sep, NEW p,
         Laid(text, parts, sep, p)
  PROVE  Url!CutAt(text, Between(p, Len(parts))) = parts
<1> DEFINE n == Len(parts)
           at == {0, Len(text) + 1} \cup Between(p, n)
           Nth(k) == CHOOSE i \in at : Url!Cardinality({j \in at : j < i}) = k - 1
           cut == [k \in 1..n |-> SubSeq(text, p[k - 1] + 1, p[k] - 1)]
<1>1. n \in Nat /\ n # 0 /\ parts = [k \in 1..n |-> parts[k]] /\ \A k \in 1..n : parts[k] \in Seq(S)
  BY LenProperties, EmptySeq
<1>2. /\ p \in [0..n -> Nat] /\ p[0] = 0 /\ p[n] = Len(text) + 1
      /\ \A k \in 1..n : p[k] = p[k - 1] + 1 + Len(parts[k])
      /\ \A k \in 1..n : \A i \in 1..Len(parts[k]) : text[p[k - 1] + i] = parts[k][i]
  BY DEF Laid
<1>3. Grows(p, n)
  BY LaidGrows
<1> HIDE DEF n
<1>4. at = {p[k] : k \in 0..n}
  <2>1. \A k \in 0..n : k = 0 \/ k = n \/ k \in 1..n - 1
    BY <1>1
  <2>2. 0 \in 0..n /\ n \in 0..n /\ \A k \in 1..n - 1 : k \in 0..n
    BY <1>1
  <2> QED
    BY <1>2, <2>1, <2>2 DEF Between
<1>5. Cardinality(at) = n + 1 /\ \A k \in 0..n : Cardinality({j \in at : j < p[k]}) = k
  <2> DEFINE laid == {p[k] : k \in 0..n}
  <2>1. Cardinality(laid) = n + 1 /\ \A k \in 0..n : Cardinality({j \in laid : j < p[k]}) = k
    BY <1>1, <1>2, <1>3, Counted
  <2>2. at = laid
    BY <1>4
  <2> HIDE DEF at, laid
  <2> QED
    BY <2>1, <2>2
<1>6. ASSUME NEW k \in 1..n + 1 PROVE Nth(k) = p[k - 1]
  <2>1. k - 1 \in 0..n /\ at = {p[j] : j \in 0..n}
    <3>1. k - 1 \in 0..n
      BY <1>1
    <3> HIDE DEF at
    <3> QED
      BY <1>4, <3>1
  <2> HIDE DEF at
  <2>2. p[k - 1] \in at /\ \A i \in at : \E m \in 0..n : i = p[m]
    BY <2>1
  <2>3. \A m \in 0..n : Url!Cardinality({j \in at : j < p[m]}) = m
    BY <1>5, SameSize
  <2>4. Url!Cardinality({j \in at : j < p[k - 1]}) = k - 1
    BY <2>1, <2>3
  <2>5. \A i \in at : Url!Cardinality({j \in at : j < i}) = k - 1 => i = p[k - 1]
    <3> SUFFICES ASSUME NEW m \in 0..n, Url!Cardinality({j \in at : j < p[m]}) = k - 1 PROVE m = k - 1
      BY <2>2
    <3> QED
      BY <2>3
  <2> QED
    BY <2>2, <2>4, <2>5
<1>7. ASSUME NEW k \in 1..n
      PROVE  SubSeq(text, p[k - 1] + 1, p[k] - 1) = parts[k]
  <2> DEFINE a == p[k - 1]
             b == p[k]
             l == Len(parts[k])
             x == SubSeq(text, a + 1, b - 1)
  <2>1. a \in Nat /\ b \in Nat /\ l \in Nat /\ b = a + 1 + l /\ parts[k] \in Seq(S)
    BY <1>1, <1>2, LenProperties
  <2>2. \A i \in 1..l : text[a + i] = parts[k][i] /\ parts[k][i] \in S
    <3>1. \A i \in 1..l : text[a + i] = parts[k][i]
      BY <1>2
    <3>2. \A i \in 1..l : parts[k][i] \in S
      BY <2>1
    <3> QED
      BY <3>1, <3>2
  <2> HIDE DEF a, b, l
  <2>3. \A i \in a + 1..b - 1 : i - a \in 1..l /\ a + (i - a) = i
    BY <2>1
  <2>4. \A i \in a + 1..b - 1 : text[i] \in S
    BY <2>2, <2>3
  <2>5. a + 1 \in Int /\ b - 1 \in Int /\ b - 1 - (a + 1) + 1 = l /\ (a + 1 <= b - 1 \/ l = 0)
    BY <2>1
  <2>6. x \in Seq(S) /\ Len(x) = (IF a + 1 <= b - 1 THEN b - 1 - (a + 1) + 1 ELSE 0)
        /\ \A i \in 1..b - 1 - (a + 1) + 1 : x[i] = text[a + 1 + i - 1]
    BY <2>4, <2>5, SubSeqProperties
  <2> HIDE DEF x
  <2>7. Len(x) = l
    BY <2>1, <2>5, <2>6
  <2>8. \A i \in 1..l : x[i] = parts[k][i]
    <3>1. \A i \in 1..l : a + 1 + i - 1 = a + i
      BY <2>1
    <3> QED
      BY <2>2, <2>5, <2>6, <3>1
  <2>9. x = parts[k]
    BY <2>1, <2>6, <2>7, <2>8, SeqEqual DEF l
  <2> QED
    BY <2>9 DEF x, a, b
<1>8. [k \in 1..Url!Cardinality(at) - 1 |-> SubSeq(text, Nth(k) + 1, Nth(k + 1) - 1)] = parts
  <2>1. Url!Cardinality(at) - 1 = n
    BY <1>1, <1>5, SameSize
  <2>2. \A k \in 1..n : k \in 1..n + 1 /\ k + 1 \in 1..n + 1 /\ (k + 1) - 1 = k
    BY <1>1
  <2>3. \A k \in 1..n : Nth(k) = p[k - 1] /\ Nth(k + 1) = p[k]
    BY <1>6, <2>2
  <2> HIDE DEF at, Nth
  <2>4. \A k \in 1..n : SubSeq(text, Nth(k) + 1, Nth(k + 1) - 1) = parts[k]
    BY <1>7, <2>3
  <2>5. [k \in 1..n |-> SubSeq(text, Nth(k) + 1, Nth(k + 1) - 1)] = [k \in 1..n |-> parts[k]]
    BY <2>4
  <2> QED
    BY <1>1, <2>1, <2>5
<1>9. parts \o <<>> = parts
  BY ConcatEmptySeq
<1>10. Url!CutAt(text, Between(p, n)) =
         Url!Once([k \in 1..Url!Cardinality(at) - 1 |-> SubSeq(text, Nth(k) + 1, Nth(k + 1) - 1)])
  BY Zenon DEF Url!CutAt
<1> QED
  BY <1>8, <1>9, <1>10 DEF Url!Once, n

\* The part a symbol is of, or ends.
Lies(i, k, parts, p) ==
  /\ p[k - 1] < i /\ i <= p[k]
  /\ IF i = p[k] THEN k < Len(parts) ELSE i - p[k - 1] \in 1..Len(parts[k])

LEMMA PlaceOf ==
  ASSUME NEW S, NEW text \in Seq(S), NEW parts \in Seq(Seq(S)), parts # <<>>, NEW sep, NEW p,
         Laid(text, parts, sep, p), NEW i \in 1..Len(text)
  PROVE  \E k \in 1..Len(parts) : Lies(i, k, parts, p)
<1> DEFINE n == Len(parts)
           T == {k \in 0..n : i <= p[k]}
<1>1. n \in Nat /\ n # 0 /\ Len(text) \in Nat
  BY LenProperties, EmptySeq
<1>2. /\ p \in [0..n -> Nat] /\ p[0] = 0 /\ p[n] = Len(text) + 1
      /\ \A k \in 1..n : p[k] = p[k - 1] + 1 + Len(parts[k])
  BY DEF Laid
<1>3. \A k \in 1..n : Len(parts[k]) \in Nat
  BY LenProperties
<1> HIDE DEF n
<1>4. n \in T /\ T \in SUBSET Nat
  BY <1>1, <1>2
<1>5. PICK k \in T : \A m \in T : k <= m
  <2> HIDE DEF T
  <2> QED
    BY <1>4, LeastOf
<1>6. k \in 0..n /\ i <= p[k] /\ k # 0
  BY <1>2, <1>5
<1>7. k \in 1..n /\ k - 1 \in 0..n
  BY <1>1, <1>6
<1>8. p[k - 1] < i
  <2>1. k - 1 \notin T
    BY <1>5, <1>7
  <2>2. p[k - 1] \in Nat /\ ~(i <= p[k - 1])
    BY <1>2, <1>7, <2>1
  <2> QED
    BY <2>2
<1>9. i = p[k] => k < n
  BY <1>1, <1>2, <1>7
<1>10. i # p[k] => i - p[k - 1] \in 1..Len(parts[k])
  <2>1. p[k] = p[k - 1] + 1 + Len(parts[k]) /\ Len(parts[k]) \in Nat /\ p[k - 1] \in Nat /\ p[k] \in Nat
    BY <1>2, <1>3, <1>7
  <2>2. \A a, b, l \in Nat : b = a + 1 + l /\ a < i /\ i <= b /\ i # b => i - a \in 1..l
    OBVIOUS
  <2> QED
    BY <1>6, <1>8, <2>1, <2>2
<1> QED
  BY <1>6, <1>7, <1>8, <1>9, <1>10 DEF Lies, n

\* A symbol within a part, as the text has it.
LEMMA InPart ==
  ASSUME NEW S, NEW text \in Seq(S), NEW parts \in Seq(Seq(S)), NEW sep, NEW p, Laid(text, parts, sep, p),
         NEW k \in 1..Len(parts), NEW i \in Nat, Lies(i, k, parts, p)
  PROVE  /\ p[k - 1] \in Nat /\ p[k] \in Nat /\ p[k] = p[k - 1] + 1 + Len(parts[k]) /\ Len(parts[k]) \in Nat
         /\ i = p[k] => text[i] = sep
         /\ i # p[k] => text[i] = parts[k][i - p[k - 1]]
<1> DEFINE n == Len(parts)
<1>1. k - 1 \in 0..n /\ k \in 0..n /\ k \in 1..n
  BY LenProperties
<1>2. /\ p \in [0..n -> Nat]
      /\ \A m \in 1..n : p[m] = p[m - 1] + 1 + Len(parts[m])
      /\ \A m \in 1..n : \A j \in 1..Len(parts[m]) : text[p[m - 1] + j] = parts[m][j]
      /\ \A m \in 1..n : m < n => text[p[m]] = sep
  BY DEF Laid
<1>3. Len(parts[k]) \in Nat
  BY LenProperties
<1> HIDE DEF n
<1>4. p[k - 1] \in Nat /\ p[k] \in Nat /\ p[k] = p[k - 1] + 1 + Len(parts[k])
  BY <1>1, <1>2
<1>5. i = p[k] => text[i] = sep
  BY <1>1, <1>2 DEF Lies, n
<1>6. i # p[k] => text[i] = parts[k][i - p[k - 1]]
  <2> SUFFICES ASSUME i # p[k] PROVE text[i] = parts[k][i - p[k - 1]]
    OBVIOUS
  <2>1. i - p[k - 1] \in 1..Len(parts[k])
    BY DEF Lies
  <2>2. p[k - 1] + (i - p[k - 1]) = i
    BY <1>4
  <2>3. text[p[k - 1] + (i - p[k - 1])] = parts[k][i - p[k - 1]]
    BY <1>1, <1>2, <2>1
  <2> QED
    BY <2>2, <2>3
<1> QED
  BY <1>3, <1>4, <1>5, <1>6

\* No part has the symbol they are joined with.
Lacks(text, x) == \A i \in DOMAIN text : text[i] # x
Free(parts, sep) == \A k \in DOMAIN parts : Lacks(parts[k], sep)

\* What is joined comes apart again.
LEMMA SplitJoin ==
  ASSUME NEW S, NEW sep \in S, NEW parts \in Seq(Seq(S)), parts # <<>>, Free(parts, sep)
  PROVE  Url!Split(Url!JoinWith(parts, sep), sep) = parts
<1> DEFINE n == Len(parts)
           text == Url!JoinWith(parts, sep)
<1>1. text \in Seq(S)
  <2>1. <<>> \in Seq(S)
    OBVIOUS
  <2> QED
    BY <2>1, JoinMore
<1>2. PICK p : Laid(text, parts, sep, p)
  BY JoinIsLaid
<1> HIDE DEF text
<1>3. n \in Nat /\ DOMAIN parts = 1..n /\ \A k \in 1..n : DOMAIN parts[k] = 1..Len(parts[k])
  BY LenProperties
<1>4. Len(text) \in Nat /\ DOMAIN text = 1..Len(text)
  BY <1>1, LenProperties
<1>5. /\ p \in [0..n -> Nat] /\ p[0] = 0 /\ p[n] = Len(text) + 1
      /\ \A k \in 1..n : k < n => text[p[k]] = sep
  BY <1>2 DEF Laid
<1>6. Grows(p, n)
  BY <1>2, LaidGrows
<1>7. ASSUME NEW i \in 1..Len(text), text[i] = sep PROVE i \in Between(p, n)
  <2>1. PICK k \in 1..n : Lies(i, k, parts, p)
    BY <1>1, <1>2, PlaceOf
  <2>2. i # p[k] => text[i] = parts[k][i - p[k - 1]]
    BY <1>1, <1>2, <2>1, InPart
  <2>3. i # p[k] => i - p[k - 1] \in 1..Len(parts[k])
    BY <2>1 DEF Lies
  <2>4. i = p[k]
    BY <1>3, <1>7, <2>2, <2>3 DEF Free, Lacks
  <2>5. k < n
    BY <2>1, <2>4 DEF Lies
  <2> HIDE DEF n
  <2> QED
    BY <1>3, <2>4, <2>5 DEF Between
<1>8. ASSUME NEW k \in 1..n - 1 PROVE p[k] \in 1..Len(text) /\ text[p[k]] = sep
  <2> HIDE DEF n
  <2>1. k \in 1..n /\ k \in 0..n /\ k < n /\ 0 < k /\ n \in 0..n /\ 0 \in 0..n
    BY <1>3
  <2>2. p[0] < p[k] /\ p[k] < p[n] /\ p[k] \in Nat
    BY <1>5, <1>6, <2>1 DEF Grows
  <2> QED
    BY <1>4, <1>5, <2>1, <2>2
<1>9. {i \in DOMAIN text : text[i] = sep} = Between(p, n)
  <2> HIDE DEF n
  <2> QED
    BY <1>4, <1>7, <1>8 DEF Between
<1>10. Url!CutAt(text, Between(p, n)) = parts
  BY <1>1, <1>2, CutIsParts
<1> QED
  BY <1>9, <1>10 DEF Url!Split, text

LEMMA LacksBoth ==
  ASSUME NEW S, NEW a \in Seq(S), NEW b \in Seq(S), NEW x, Lacks(a, x), Lacks(b, x)
  PROVE  Lacks(a \o b, x)
<1>1. Len(a) \in Nat /\ Len(b) \in Nat /\ DOMAIN a = 1..Len(a) /\ DOMAIN b = 1..Len(b)
  BY LenProperties
<1> DEFINE c == a \o b
<1>2. c \in Seq(S) /\ Len(c) = Len(a) + Len(b)
      /\ \A i \in 1..Len(c) : c[i] = IF i <= Len(a) THEN a[i] ELSE b[i - Len(a)]
  BY ConcatProperties
<1> HIDE DEF c
<1>3. DOMAIN c = 1..Len(a) + Len(b)
  BY <1>2, LenProperties
<1>4. \A i \in 1..Len(a) + Len(b) : IF i <= Len(a) THEN i \in 1..Len(a) ELSE i - Len(a) \in 1..Len(b)
  BY <1>1
<1> QED
  BY <1>1, <1>2, <1>3, <1>4 DEF Lacks, c

\* A join has what its parts have, and what they are joined with.
LEMMA JoinLacks ==
  ASSUME NEW S, NEW sep \in S, NEW x, x # sep
  PROVE  \A parts \in Seq(Seq(S)) : Free(parts, x) => Lacks(Url!JoinWith(parts, sep), x)
<1> DEFINE T == {parts \in Seq(Seq(S)) : Free(parts, x) => Lacks(Url!JoinWith(parts, sep), x)}
<1>1. <<>> \in T
  <2>1. Lacks(<<>>, x)
    BY DEF Lacks
  <2>2. <<>> \in Seq(Seq(S))
    BY EmptySeq
  <2> QED
    BY <2>1, <2>2, JoinNoneIs
<1>2. ASSUME NEW parts \in Seq(Seq(S)), NEW e \in Seq(S), parts \in T PROVE Append(parts, e) \in T
  <2> DEFINE more == Append(parts, e)
             n == Len(parts)
  <2>1. more \in Seq(Seq(S)) /\ Len(more) = n + 1 /\ more[n + 1] = e /\ n \in Nat
        /\ \A i \in 1..n : more[i] = parts[i]
    BY AppendProperties, LenProperties
  <2>2. DOMAIN more = 1..n + 1 /\ DOMAIN parts = 1..n
    BY <2>1, LenProperties
  <2> SUFFICES ASSUME Free(more, x) PROVE Lacks(Url!JoinWith(more, sep), x)
    BY <2>1
  <2>3. Free(parts, x) /\ Lacks(e, x)
    <3> HIDE DEF more, n
    <3>1. \A k \in 1..n : k \in 1..n + 1
      BY <2>1
    <3>2. n + 1 \in 1..n + 1
      BY <2>1
    <3> QED
      BY <2>1, <2>2, <3>1, <3>2 DEF Free
  <2>4. Lacks(Url!JoinWith(parts, sep), x)
    BY <1>2, <2>3
  <2>5. Url!JoinWith(parts, sep) \in Seq(S)
        /\ Url!JoinWith(more, sep) = IF parts = <<>> THEN e ELSE Url!JoinWith(parts, sep) \o (<<sep>> \o e)
    BY JoinMore
  <2>6. <<sep>> \in Seq(S) /\ <<sep>> \o e \in Seq(S) /\ Lacks(<<sep>>, x)
    <3>1. <<sep>> \in Seq(S) /\ Lacks(<<sep>>, x)
      BY DEF Lacks
    <3> QED
      BY <3>1, ConcatProperties
  <2>7. Lacks(<<sep>> \o e, x)
    BY <2>3, <2>6, LacksBoth
  <2>8. Lacks(Url!JoinWith(parts, sep) \o (<<sep>> \o e), x)
    BY <2>4, <2>5, <2>6, <2>7, LacksBoth
  <2> QED
    BY <2>3, <2>5, <2>8
<1> HIDE DEF T
<1>3. \A parts \in Seq(Seq(S)) : parts \in T
  BY <1>1, <1>2, SeqSet
<1> QED
  BY <1>3 DEF T

LEMMA JoinTyped ==
  ASSUME NEW S, NEW sep \in S, NEW parts \in Seq(Seq(S))
  PROVE  Url!JoinWith(parts, sep) \in Seq(S)
<1>1. <<>> \in Seq(S)
  OBVIOUS
<1> QED
  BY <1>1, JoinMore

LEMMA JoinOne ==
  ASSUME NEW S, NEW sep \in S, NEW e \in Seq(S)
  PROVE  Url!JoinWith(<<e>>, sep) = e
<1>1. <<>> \in Seq(Seq(S)) /\ Append(<<>>, e) = <<e>>
  OBVIOUS
<1> QED
  BY <1>1, JoinMore

LEMMA JoinTwo ==
  ASSUME NEW S, NEW sep \in S, NEW d \in Seq(S), NEW e \in Seq(S)
  PROVE  Url!JoinWith(<<d, e>>, sep) = d \o (<<sep>> \o e)
<1> DEFINE one == <<d>>
<1>1. one \in Seq(Seq(S)) /\ Append(one, e) = <<d, e>>
  <2>1. one \in Seq(Seq(S))
    OBVIOUS
  <2>2. Append(one, e) = <<d, e>>
    <3> DEFINE both == <<d, e>>
    <3>1. Len(one) = 1 /\ one[1] = d
      OBVIOUS
    <3>2. both \in Seq(Seq(S)) /\ Len(both) = 2 /\ both[1] = d /\ both[2] = e
      OBVIOUS
    <3> HIDE DEF one, both
    <3>3. /\ Append(one, e) \in Seq(Seq(S)) /\ Len(Append(one, e)) = 2
          /\ Append(one, e)[1] = d /\ Append(one, e)[2] = e
      <4>1. Append(one, e) \in Seq(Seq(S)) /\ Len(Append(one, e)) = Len(one) + 1
            /\ Append(one, e)[Len(one) + 1] = e /\ \A i \in 1..Len(one) : Append(one, e)[i] = one[i]
        BY <2>1, AppendProperties
      <4>2. 1 + 1 = 2 /\ 1 \in 1..1
        OBVIOUS
      <4> QED
        BY <3>1, <4>1, <4>2
    <3> DEFINE T == Seq(S)
               more == Append(one, e)
    <3>4. more \in Seq(T) /\ both \in Seq(T) /\ Len(more) = Len(both) /\ \A i \in 1..Len(more) : more[i] = both[i]
      <4>1. \A i \in 1..2 : i = 1 \/ i = 2
        OBVIOUS
      <4> QED
        BY <3>2, <3>3, <4>1
    <3> HIDE DEF T, more
    <3>5. more = both
      BY <3>4, SeqEqual
    <3> QED
      BY <3>5 DEF more, both
  <2> QED
    BY <2>1, <2>2
<1>2. one # <<>>
  OBVIOUS
<1>3. Url!JoinWith(one, sep) = d
  BY JoinOne
<1> HIDE DEF one
<1>4. Url!JoinWith(Append(one, e), sep) = Url!JoinWith(one, sep) \o (<<sep>> \o e)
  BY <1>1, <1>2, JoinMore
<1> QED
  BY <1>1, <1>3, <1>4

\* Every text is a join of parts without the symbol.
LEMMA JoinOf ==
  ASSUME NEW S, NEW sep \in S
  PROVE  \A text \in Seq(S) :
           \E parts \in Seq(Seq(S)) : parts # <<>> /\ Free(parts, sep) /\ Url!JoinWith(parts, sep) = text
<1> DEFINE T == {text \in Seq(S) : \E parts \in Seq(Seq(S)) :
                   parts # <<>> /\ Free(parts, sep) /\ Url!JoinWith(parts, sep) = text}
<1>1. <<>> \in T
  <2>1. <<>> \in Seq(S) /\ << <<>> >> \in Seq(Seq(S)) /\ << <<>> >> # <<>>
    OBVIOUS
  <2>2. Free(<< <<>> >>, sep)
    BY DEF Free, Lacks
  <2>3. Url!JoinWith(<< <<>> >>, sep) = <<>>
    BY <2>1, JoinOne
  <2> QED
    BY <2>1, <2>2, <2>3
<1>2. ASSUME NEW text \in Seq(S), NEW c \in S, text \in T PROVE Append(text, c) \in T
  <2>1. PICK parts \in Seq(Seq(S)) : parts # <<>> /\ Free(parts, sep) /\ Url!JoinWith(parts, sep) = text
    BY <1>2
  <2>2. Append(text, c) \in Seq(S) /\ Append(text, c) = text \o <<c>>
    BY AppendProperties, AppendIsConcat
  <2>3. CASE c = sep
    <3> DEFINE none == <<>>
               more == Append(parts, none)
    <3>1. none \in Seq(S) /\ <<sep>> \o none = <<sep>> /\ Lacks(none, sep)
      BY ConcatEmptySeq DEF Lacks
    <3> HIDE DEF none
    <3>2. more \in Seq(Seq(S)) /\ Len(more) = Len(parts) + 1 /\ Len(parts) \in Nat /\ more[Len(parts) + 1] = none
          /\ \A i \in 1..Len(parts) : more[i] = parts[i]
      BY <3>1, AppendProperties, LenProperties
    <3>3. DOMAIN more = 1..Len(parts) + 1 /\ DOMAIN parts = 1..Len(parts) /\ more # <<>>
      <4> HIDE DEF more
      <4>1. Len(more) # 0
        BY <3>2
      <4> QED
        BY <3>2, <4>1, LenProperties, EmptySeq
    <3>4. Url!JoinWith(more, sep) = text \o <<sep>>
      <4>1. Url!JoinWith(more, sep) = IF parts = <<>> THEN none ELSE Url!JoinWith(parts, sep) \o (<<sep>> \o none)
        BY <3>1, JoinMore, ZenonT(30)
      <4> QED
        BY <2>1, <3>1, <4>1
    <3> HIDE DEF more
    <3>5. Free(more, sep)
      <4>1. \A k \in 1..Len(parts) + 1 : k = Len(parts) + 1 \/ k \in 1..Len(parts)
        BY <3>2
      <4>2. \A i \in 1..Len(parts) : Lacks(parts[i], sep)
        BY <2>1, <3>3 DEF Free
      <4>3. \A i \in 1..Len(parts) + 1 : Lacks(more[i], sep)
        BY <3>1, <3>2, <4>1, <4>2
      <4> QED
        BY <3>3, <4>3 DEF Free
    <3> QED
      BY <2>2, <2>3, <3>2, <3>3, <3>4, <3>5
  <2>4. CASE c # sep
    <3>1. PICK front \in Seq(Seq(S)), last \in Seq(S) : parts = Append(front, last)
      BY <2>1, SequenceEmptyOrAppend
    <3> DEFINE longer == Append(last, c)
               more == Append(front, longer)
               n == Len(front)
    <3>2. longer \in Seq(S) /\ longer = last \o <<c>> /\ <<c>> \in Seq(S)
      BY AppendProperties, AppendIsConcat
    <3>3. n \in Nat /\ Len(parts) = n + 1 /\ parts[n + 1] = last /\ \A i \in 1..n : parts[i] = front[i]
      BY <3>1, AppendProperties, LenProperties
    <3>4. more \in Seq(Seq(S)) /\ Len(more) = n + 1 /\ more[n + 1] = longer /\ \A i \in 1..n : more[i] = front[i]
      BY <3>2, AppendProperties, LenProperties
    <3>5. Url!JoinWith(front, sep) \in Seq(S)
          /\ text = IF front = <<>> THEN last ELSE Url!JoinWith(front, sep) \o (<<sep>> \o last)
      BY <2>1, <3>1, JoinMore, ZenonT(30)
    <3>6. Url!JoinWith(more, sep) = IF front = <<>> THEN longer ELSE Url!JoinWith(front, sep) \o (<<sep>> \o longer)
      <4> HIDE DEF longer
      <4>1. longer \in Seq(S) /\ front \in Seq(Seq(S))
        BY <3>2
      <4>2. Url!JoinWith(Append(front, longer), sep) =
              IF front = <<>> THEN longer ELSE Url!JoinWith(front, sep) \o (<<sep>> \o longer)
        BY ONLY <4>1, sep \in S, JoinMore
      <4> QED
        BY <4>2
    <3> HIDE DEF more, longer, n
    <3>7. DOMAIN more = 1..n + 1 /\ DOMAIN parts = 1..n + 1 /\ more # <<>> /\ n + 1 \in 1..n + 1
          /\ \A k \in 1..n + 1 : k = n + 1 \/ k \in 1..n
      <4>1. n + 1 \in 1..n + 1 /\ n + 1 # 0 /\ \A k \in 1..n + 1 : k = n + 1 \/ k \in 1..n
        BY <3>3
      <4>2. DOMAIN more = 1..n + 1 /\ more # <<>>
        BY <3>4, <4>1, LenProperties, EmptySeq
      <4>3. DOMAIN parts = 1..n + 1
        BY <2>1, <3>3, LenProperties
      <4> QED
        BY <4>1, <4>2, <4>3
    <3>8. Free(more, sep)
      <4>1. Lacks(last, sep)
        BY <2>1, <3>3, <3>7 DEF Free
      <4>2. Lacks(<<c>>, sep)
        BY <2>4 DEF Lacks
      <4>3. Lacks(longer, sep)
        BY <3>2, <4>1, <4>2, LacksBoth
      <4>4. \A i \in 1..n : Lacks(more[i], sep)
        <5>1. \A i \in 1..n : i \in 1..n + 1 /\ more[i] = parts[i]
          BY <3>3, <3>4
        <5> QED
          BY <2>1, <3>7, <5>1 DEF Free
      <4> QED
        BY <3>4, <3>7, <4>3, <4>4 DEF Free
    <3>9. Url!JoinWith(more, sep) = text \o <<c>>
      <4>1. CASE front = <<>>
        BY <3>2, <3>5, <3>6, <4>1
      <4>2. CASE front # <<>>
        <5> DEFINE j == Url!JoinWith(front, sep)
        <5>1. <<sep>> \in Seq(S) /\ <<sep>> \o last \in Seq(S)
          <6>1. <<sep>> \in Seq(S)
            OBVIOUS
          <6> QED
            BY <6>1, ConcatProperties
        <5>2. j \in Seq(S) /\ text = j \o (<<sep>> \o last) /\ Url!JoinWith(more, sep) = j \o (<<sep>> \o longer)
          BY <3>5, <3>6, <4>2
        <5> HIDE DEF j
        <5>3. Groups(j, <<sep>> \o last, <<c>>) /\ Groups(<<sep>>, last, <<c>>)
          BY <3>2, <5>1, <5>2, Regroup, Zenon
        <5>4. (j \o (<<sep>> \o last)) \o <<c>> = j \o ((<<sep>> \o last) \o <<c>>)
          BY <5>3, Zenon DEF Groups
        <5>5. (<<sep>> \o last) \o <<c>> = <<sep>> \o (last \o <<c>>)
          BY <5>3, Zenon DEF Groups
        <5> QED
          BY <3>2, <5>2, <5>4, <5>5, Zenon
      <4> QED
        BY <4>1, <4>2
    <3> QED
      BY <2>2, <3>4, <3>7, <3>8, <3>9
  <2> QED
    BY <2>3, <2>4
<1> HIDE DEF T
<1>3. \A text \in Seq(S) : text \in T
  BY <1>1, <1>2, SeqSet
<1> QED
  BY <1>3 DEF T

\* What a text is of: the provers do not take a string for a member of STRING.
Escapes == {"%2F", "%26", "%2C", "%3F", "%3D", "%3A", "%3A%2F%2F", "+", "%2B", "%25"}
HubMarks == {";", "Endpoint=", "SharedAccessKeyName=", "SharedAccessKey=", "EntityPath="}
Symbol == STRING \cup Url!Separators \cup Url!Schemes \cup Escapes \cup HubMarks

LEMMA MarksAreSymbols ==
  "," \in Symbol /\ "/" \in Symbol /\ "?" \in Symbol /\ "&" \in Symbol /\ "=" \in Symbol /\ "://" \in Symbol
BY DEF Symbol, Url!Separators

\* A mark, and never one behind a separator.
OneMark(part, mark, sep) ==
  /\ \E s \in DOMAIN part : part[s] = mark
  /\ \A s, c \in DOMAIN part : part[s] = mark /\ part[c] = sep => s < c

Marked(parts, mark, sep) == \A k \in DOMAIN parts : OneMark(parts[k], mark, sep)

\* Separators that a mark follows before the next one ...
Ends(text, mark, sep) ==
  LET commas == {i \in DOMAIN text : text[i] = sep}
      schemes == {i \in DOMAIN text : text[i] = mark} IN
  {c \in commas : \E s \in schemes : s > c /\ ~\E d \in commas : c < d /\ d < s}

\* ... are those between the parts.
LEMMA MarkedEnds ==
  ASSUME NEW S, NEW sep \in S, NEW mark, mark # sep, NEW parts \in Seq(Seq(S)), parts # <<>>,
         NEW text \in Seq(S), NEW p, Laid(text, parts, sep, p), Marked(parts, mark, sep)
  PROVE  Ends(text, mark, sep) = Between(p, Len(parts))
<1> DEFINE n == Len(parts)
           commas == {i \in DOMAIN text : text[i] = sep}
           schemes == {i \in DOMAIN text : text[i] = mark}
           ends == {c \in commas : \E s \in schemes : s > c /\ ~\E d \in commas : c < d /\ d < s}
<1>1. text \in Seq(S)
  OBVIOUS
<1>2. Laid(text, parts, sep, p)
  OBVIOUS
<1>3. n \in Nat /\ DOMAIN parts = 1..n /\ \A k \in 1..n : DOMAIN parts[k] = 1..Len(parts[k]) /\ Len(parts[k]) \in Nat
  BY LenProperties
<1>4. Len(text) \in Nat /\ DOMAIN text = 1..Len(text)
  BY <1>1, LenProperties
<1>5. /\ p \in [0..n -> Nat] /\ p[0] = 0 /\ p[n] = Len(text) + 1
      /\ \A k \in 1..n : p[k] = p[k - 1] + 1 + Len(parts[k])
      /\ \A k \in 1..n : \A i \in 1..Len(parts[k]) : text[p[k - 1] + i] = parts[k][i]
      /\ \A k \in 1..n : k < n => text[p[k]] = sep
  BY <1>2 DEF Laid
<1>6. Grows(p, n)
  BY <1>2, LaidGrows
<1> HIDE DEF n
<1>7. ASSUME NEW k \in 1..n
      PROVE  /\ \E s \in 1..Len(parts[k]) : parts[k][s] = mark
             /\ \A s, c \in 1..Len(parts[k]) : parts[k][s] = mark /\ parts[k][c] = sep => s < c
  BY <1>3 DEF OneMark, Marked
<1>8. ASSUME NEW i \in 1..Len(text)
      PROVE  \E k \in 1..n : Lies(i, k, parts, p) /\ (i = p[k] => k < n) /\ (i # p[k] => i - p[k - 1] \in 1..Len(parts[k]))
                              /\ (i # p[k] => text[i] = parts[k][i - p[k - 1]])
  <2>1. PICK k \in 1..n : Lies(i, k, parts, p)
    BY <1>1, <1>2, PlaceOf DEF n
  <2>2. i # p[k] => text[i] = parts[k][i - p[k - 1]]
    <3>1. i \in Nat
      BY <1>4
    <3> QED
      BY <1>1, <1>2, <2>1, <3>1, InPart DEF n
  <2> QED
    BY <2>1, <2>2 DEF Lies, n
<1>9. ASSUME NEW k \in 1..n - 1 PROVE p[k] \in ends
  <2>1. k \in 1..n /\ k \in 0..n /\ k < n /\ 0 < k /\ n \in 0..n /\ 0 \in 0..n /\ k + 1 \in 1..n /\ (k + 1) - 1 = k
        /\ k + 1 \in 0..n
    BY <1>3
  <2>2. p[0] < p[k] /\ p[k] < p[n] /\ p[k] \in Nat /\ p[k + 1] <= p[n] /\ p[k + 1] \in Nat
    <3>1. k + 1 = n \/ k + 1 < n
      BY <2>1
    <3>2. p[0] < p[k] /\ p[k] < p[n] /\ (k + 1 < n => p[k + 1] < p[n])
      BY <1>6, <2>1 DEF Grows
    <3>3. p[k] \in Nat /\ p[k + 1] \in Nat /\ p[n] \in Nat
      BY <1>5, <2>1
    <3> QED
      BY <3>1, <3>2, <3>3
  <2>3. p[k] \in 1..Len(text) /\ text[p[k]] = sep
    <3>1. text[p[k]] = sep /\ p[0] = 0 /\ p[n] = Len(text) + 1
      BY <1>5, <2>1
    <3> QED
      <4>1. k \in Nat /\ p[k] \in Nat /\ 0 < p[k] /\ p[k] < Len(text) + 1
        BY <2>1, <2>2, <3>1
      <4> QED
        BY <1>4, <3>1, <4>1
  <2>4. PICK s \in 1..Len(parts[k + 1]) : parts[k + 1][s] = mark
    BY <1>7, <2>1
  <2> DEFINE l == Len(parts[k + 1])
             t == p[k] + s
  <2>5. p[k + 1] = p[k] + 1 + l /\ l \in Nat /\ \A i \in 1..l : text[p[k] + i] = parts[k + 1][i]
    BY <1>3, <1>5, <2>1
  <2>6. s \in Nat /\ 1 <= s /\ s <= l
    BY <2>5
  <2>7. t \in 1..Len(text) /\ text[t] = mark /\ t > p[k]
    <3> HIDE DEF l
    <3>1. p[k + 1] <= Len(text) + 1
      BY <1>5, <2>2
    <3>2. 1 <= p[k] + s /\ p[k] + s <= Len(text)
      BY <1>4, <2>2, <2>5, <2>6, <3>1, Fits
    <3>3. text[p[k] + s] = mark
      BY <2>4, <2>5, <2>6
    <3> QED
      BY <1>4, <2>2, <2>6, <3>2, <3>3
  <2>8. ASSUME NEW d \in 1..Len(text), text[d] = sep, p[k] < d, d < t PROVE FALSE
    <3>1. d - p[k] \in 1..l /\ p[k] + (d - p[k]) = d /\ d - p[k] < s
      <4>1. d \in Nat /\ d < p[k + 1]
        <5>1. d \in Nat /\ p[k] + s < p[k + 1]
          <6> HIDE DEF l
          <6> QED
            BY <1>4, <2>2, <2>5, <2>6, SMTT(30)
        <5>2. d < p[k] + s
          BY <2>8
        <5> QED
          BY <2>2, <2>6, <5>1, <5>2
      <4>2. p[k + 1] = p[k] + 1 + l /\ l \in Nat /\ p[k] \in Nat /\ p[k + 1] \in Nat
        BY <2>2, <2>5
      <4> HIDE DEF l
      <4>3. d - p[k] \in 1..l /\ p[k] + (d - p[k]) = d
        <5>1. p[k] < d
          BY <2>8
        <5> QED
          <6> DEFINE a == p[k]
                     b == p[k + 1]
          <6>1. a \in Nat /\ b \in Nat /\ l \in Nat /\ d \in Nat /\ b = a + 1 + l /\ a < d /\ d < b
            BY <4>1, <4>2, <5>1
          <6> HIDE DEF a, b
          <6>2. d - a \in 1..l /\ a + (d - a) = d
            BY <6>1, Within
          <6> QED
            BY <6>2 DEF a
      <4>4. d < p[k] + s
        BY <2>8
      <4>5. d - p[k] < s
        BY <2>6, <4>1, <4>2, <4>4, SMTT(30)
      <4> QED
        BY <4>3, <4>5
    <3>2. parts[k + 1][d - p[k]] = sep
      BY <2>5, <2>8, <3>1
    <3>3. s < d - p[k]
      BY <1>7, <2>1, <2>4, <3>1, <3>2
    <3> QED
      BY <2>2, <2>6, <3>1, <3>3
  <2> HIDE DEF t
  <2> QED
    BY <1>4, <2>3, <2>7, <2>8
<1>10. ASSUME NEW c \in 1..Len(text), NEW s \in 1..Len(text), text[c] = sep, text[s] = mark, s > c,
              ~\E d \in 1..Len(text) : text[d] = sep /\ c < d /\ d < s
       PROVE  c \in Between(p, n)
  <2>1. PICK k \in 1..n : /\ Lies(c, k, parts, p) /\ (c = p[k] => k < n)
                          /\ (c # p[k] => c - p[k - 1] \in 1..Len(parts[k]))
                          /\ (c # p[k] => text[c] = parts[k][c - p[k - 1]])
    BY <1>8
  <2>2. CASE c = p[k]
    <3>1. k \in 1..n - 1
      BY <1>3, <2>1, <2>2
    <3> QED
      BY <2>2, <3>1 DEF Between
  <2>3. CASE c # p[k]
    <3> DEFINE a == p[k - 1]
               b == p[k]
               l == Len(parts[k])
    <3>1. a \in Nat /\ b \in Nat /\ l \in Nat /\ b = a + 1 + l
      <4>1. k \in 0..n /\ k - 1 \in 0..n
        BY <1>3
      <4> QED
        BY <1>3, <1>5, <4>1
    <3>2. c - a \in 1..l /\ parts[k][c - a] = sep
      BY <1>10, <2>1, <2>3
    <3>3. \A i \in 1..l : text[a + i] = parts[k][i]
      BY <1>5
    <3>4. k < n => b \in 1..Len(text) /\ text[b] = sep
      <4> SUFFICES ASSUME k < n PROVE b \in 1..Len(text) /\ text[b] = sep
        OBVIOUS
      <4>1. k \in 0..n /\ n \in 0..n /\ 0 \in 0..n /\ 0 < k
        BY <1>3
      <4>2. p[0] < p[k] /\ p[k] < p[n]
        BY <1>6, <4>1 DEF Grows
      <4>3. text[b] = sep
        BY <1>5
      <4>4. p[0] = 0 /\ p[n] = Len(text) + 1
        BY <1>5
      <4> QED
        <5>1. 0 < b /\ b < Len(text) + 1
          BY <4>2, <4>4
        <5> QED
          BY <1>4, <3>1, <4>3, <5>1, SMTT(30)
    <3>5. k = n => b = Len(text) + 1
      BY <1>5
    <3>6. \A x, y \in 1..l : parts[k][x] = mark /\ parts[k][y] = sep => x < y
      BY <1>7
    <3> HIDE DEF a, b, l
    <3>7. CASE s < b
      <4>1. s - a \in 1..l /\ a + (s - a) = s
        <5>1. c \in Nat /\ s \in Nat /\ a < c /\ c < s
          <6>1. c \in Nat /\ s \in Nat /\ 1 <= c - a
            BY <1>4, <3>1, <3>2
          <6> QED
            BY <1>10, <3>1, <6>1
        <5>2. a < s
          BY <3>1, <5>1
        <5> QED
          BY <3>1, <3>7, <5>1, <5>2, Within
      <4>2. parts[k][s - a] = mark
        BY <1>10, <3>3, <4>1
      <4>3. s - a < c - a
        BY <3>2, <3>6, <4>1, <4>2
      <4> QED
        <5>1. c \in Nat /\ s \in Nat /\ c < s
          BY <1>4, <1>10
        <5> QED
          BY <3>1, <4>3, <5>1
    <3>8. CASE ~(s < b)
      <4>1. k < n
        BY <1>3, <1>4, <3>5, <3>8
      <4>2. text[b] = sep /\ b \in 1..Len(text) /\ b # s
        BY <1>10, <3>4, <4>1
      <4>3. c < b /\ b < s
        <5>1. c \in Nat /\ s \in Nat
          BY <1>4
        <5>2. c - a <= l
          BY <3>1, <3>2
        <5> QED
          BY <3>1, <3>8, <4>2, <5>1, <5>2
      <4> QED
        BY <1>10, <4>2, <4>3
    <3> QED
      BY <3>7, <3>8
  <2> QED
    BY <2>2, <2>3
<1>11. ends = Between(p, n)
  <2>1. ends \subseteq Between(p, n)
    BY <1>4, <1>10
  <2>2. Between(p, n) \subseteq ends
    <3> HIDE DEF ends
    <3> QED
      BY <1>9 DEF Between
  <2> QED
    BY <2>1, <2>2
<1> HIDE DEF ends
<1> QED
  BY <1>11 DEF ends, n, Ends

\* Endpoints of one scheme each come apart where they were joined.
LEMMA ReceivedJoin ==
  ASSUME NEW urls \in Seq(Seq(Symbol)), urls # <<>>, \A k \in DOMAIN urls : Url!OneScheme(urls[k])
  PROVE  Url!Received(Url!JoinWith(urls, ",")) = [k \in DOMAIN urls |-> Url!Read(urls[k])]
<1> DEFINE text == Url!JoinWith(urls, ",")
           ends == Ends(text, "://", ",")
<1>1. text \in Seq(Symbol)
  <2>1. <<>> \in Seq(Symbol)
    OBVIOUS
  <2> QED
    BY <2>1, MarksAreSymbols, JoinMore
<1> HIDE DEF text
<1>2. PICK p : Laid(text, urls, ",", p)
  BY MarksAreSymbols, JoinIsLaid DEF text
<1>3. Marked(urls, "://", ",")
  BY DEF Marked, OneMark, Url!OneScheme
<1>4. ends = Between(p, Len(urls))
  <2> DEFINE comma == ","
             scheme == "://"
  <2>1. comma \in Symbol /\ scheme # comma
    BY MarksAreSymbols
  <2>2. Laid(text, urls, comma, p) /\ Marked(urls, scheme, comma)
    BY <1>2, <1>3
  <2>3. ends = Ends(text, scheme, comma)
    OBVIOUS
  <2> HIDE DEF comma, scheme, ends
  <2> QED
    BY <1>1, <2>1, <2>2, <2>3, MarkedEnds
<1>5. Url!CutAt(text, Between(p, Len(urls))) = urls
  BY <1>1, <1>2, CutIsParts
<1>6. Url!Received(text) = [k \in DOMAIN Url!CutAt(text, ends) |-> Url!Read(Url!CutAt(text, ends)[k])]
  BY Zenon DEF Url!Received, Ends
<1> HIDE DEF ends
<1> QED
  BY <1>4, <1>5, <1>6 DEF text

-----------------------------------------------------------------------------
(* What is escaped is read as it was.                                      *)

Decoded(e) ==
  CASE e = "%2F" -> "/" [] e = "%26" -> "&" [] e = "%2C" -> "," [] e = "%3F" -> "?" [] e = "%3D" -> "="
    [] e = "%3A" -> ":" [] e = "%3A%2F%2F" -> "://" [] e = "+" -> " " [] e = "%2B" -> "+" [] e = "%25" -> "%"

LEMMA CodeIs ==
  /\ DOMAIN Url!Code = Url!Unsafe
  /\ \A c \in Url!Unsafe : Url!Code[c] \in Escapes /\ Decoded(Url!Code[c]) = c
<1>1. DOMAIN Url!Code = Url!Unsafe
  BY DEF Url!Code
<1>2. ASSUME NEW c \in Url!Unsafe PROVE Url!Code[c] \in Escapes /\ Decoded(Url!Code[c]) = c
  <2>1. c \in {"/", "&", ",", "?", "=", ":", "://", " ", "+", "%"}
    BY DEF Url!Unsafe
  <2>2. CASE c = "/" BY <2>2 DEF Url!Code, Escapes, Decoded
  <2>3. CASE c = "&" BY <2>3 DEF Url!Code, Escapes, Decoded
  <2>4. CASE c = "," BY <2>4 DEF Url!Code, Escapes, Decoded
  <2>5. CASE c = "?" BY <2>5 DEF Url!Code, Escapes, Decoded
  <2>6. CASE c = "=" BY <2>6 DEF Url!Code, Escapes, Decoded
  <2>7. CASE c = ":" BY <2>7 DEF Url!Code, Escapes, Decoded
  <2>8. CASE c = "://" BY <2>8 DEF Url!Code, Escapes, Decoded
  <2>9. CASE c = " " BY <2>9 DEF Url!Code, Escapes, Decoded
  <2>10. CASE c = "+" BY <2>10 DEF Url!Code, Escapes, Decoded
  <2>11. CASE c = "%" BY <2>11 DEF Url!Code, Escapes, Decoded
  <2> QED
    BY <2>1, <2>2, <2>3, <2>4, <2>5, <2>6, <2>7, <2>8, <2>9, <2>10, <2>11
<1> QED
  BY <1>1, <1>2

LEMMA PlainIs ==
  /\ DOMAIN Url!Plain = {Url!Code[c] : c \in Url!Unsafe}
  /\ \A c \in Url!Unsafe : Url!Plain[Url!Code[c]] = c
<1>1. DOMAIN Url!Plain = {Url!Code[c] : c \in Url!Unsafe}
  BY DEF Url!Plain
<1>2. ASSUME NEW c \in Url!Unsafe PROVE Url!Plain[Url!Code[c]] = c
  <2> DEFINE e == Url!Code[c]
             x == CHOOSE d \in Url!Unsafe : Url!Code[d] = e
  <2>1. e \in {Url!Code[d] : d \in Url!Unsafe} /\ \E d \in Url!Unsafe : Url!Code[d] = e
    OBVIOUS
  <2>2. Url!Plain[e] = x
    BY <2>1 DEF Url!Plain
  <2>3. x \in Url!Unsafe /\ Url!Code[x] = e
    BY <2>1
  <2> HIDE DEF x
  <2>4. x = c
    BY <2>3, CodeIs
  <2> QED
    BY <2>2, <2>4
<1> QED
  BY <1>1, <1>2

LEMMA ThroughIs ==
  ASSUME NEW S, NEW table, NEW text \in Seq(STRING),
         \A i \in DOMAIN text : (IF text[i] \in DOMAIN table THEN table[text[i]] ELSE text[i]) \in S
  PROVE  /\ Url!Through(table, text) \in Seq(S) /\ Len(Url!Through(table, text)) = Len(text)
         /\ \A i \in 1..Len(text) :
              Url!Through(table, text)[i] = IF text[i] \in DOMAIN table THEN table[text[i]] ELSE text[i]
<1> DEFINE Put(c) == IF c \in DOMAIN table THEN table[c] ELSE c
           seq == [i \in DOMAIN text |-> Put(text[i])]
<1>1. DOMAIN text = 1..Len(text) /\ Len(text) \in Nat
  BY LenProperties
<1>2. \A i \in 1..Len(text) : Put(text[i]) \in S
  BY <1>1
<1>3. seq \in Seq(S) /\ Len(seq) = Len(text) /\ \A i \in 1..Len(text) : seq[i] = Put(text[i])
  <2> HIDE DEF Put
  <2> QED
    BY <1>1, <1>2
<1>4. Url!Through(table, text) = seq \o <<>>
  BY Zenon DEF Url!Through, Url!Once
<1> HIDE DEF seq
<1>5. seq \o <<>> = seq
  BY <1>3, ConcatEmptySeq
<1> QED
  BY <1>3, <1>4, <1>5

\* Nothing of an escaped text separates anything.
Escaped(text) == text \in Seq(Symbol) /\ \A i \in DOMAIN text : text[i] \notin Url!Separators

LEMMA EscapeIs ==
  ASSUME NEW text, Url!Sayable(text)
  PROVE  Escaped(Url!Escape(text)) /\ Url!Unescape(Url!Escape(text)) = text
<1> DEFINE e == Url!Escape(text)
           n == Len(text)
           Put(c) == IF c \in Url!Unsafe THEN Url!Code[c] ELSE c
<1>1. text \in Seq(STRING) /\ n \in Nat /\ DOMAIN text = 1..n
      /\ \A i \in 1..n : text[i] \in STRING /\ text[i] \notin DOMAIN Url!Plain \ Url!Unsafe
  <2>1. text \in Seq(STRING) /\ \A i \in DOMAIN text : text[i] \notin DOMAIN Url!Plain \ Url!Unsafe
    BY DEF Url!Sayable, Url!Without
  <2> QED
    BY <2>1, LenProperties
<1>2. \A i \in 1..n : Put(text[i]) \in Symbol
  BY <1>1, CodeIs DEF Symbol
<1>3. e \in Seq(Symbol) /\ Len(e) = n /\ \A i \in 1..n : e[i] = Put(text[i])
  <2>1. \A i \in DOMAIN text :
          (IF text[i] \in DOMAIN Url!Code THEN Url!Code[text[i]] ELSE text[i]) \in Symbol
    BY <1>1, <1>2, CodeIs
  <2>2. /\ Url!Through(Url!Code, text) \in Seq(Symbol) /\ Len(Url!Through(Url!Code, text)) = Len(text)
        /\ \A i \in 1..Len(text) : Url!Through(Url!Code, text)[i] =
              IF text[i] \in DOMAIN Url!Code THEN Url!Code[text[i]] ELSE text[i]
    BY <1>1, <2>1, ThroughIs, SMTT(30)
  <2> QED
    BY <2>2, CodeIs DEF Url!Escape
<1>4. ASSUME NEW i \in 1..n PROVE e[i] \notin Url!Separators
  <2>1. \A x \in Escapes : x \notin Url!Separators
    BY DEF Escapes, Url!Separators
  <2>2. \A x \in Url!Separators : x \in Url!Unsafe
    BY DEF Url!Separators, Url!Unsafe
  <2> QED
    BY <1>3, <2>1, <2>2, CodeIs
<1> HIDE DEF e, n
<1>5. Escaped(e)
  <2>1. DOMAIN e = 1..n
    BY <1>3, LenProperties
  <2> QED
    BY <1>3, <1>4, <2>1 DEF Escaped
<1>6. ASSUME NEW i \in 1..n
      PROVE  (IF e[i] \in DOMAIN Url!Plain THEN Url!Plain[e[i]] ELSE e[i]) = text[i]
  <2>1. e[i] = Put(text[i])
    BY <1>3
  <2>2. CASE text[i] \in Url!Unsafe
    BY <2>1, <2>2, PlainIs
  <2>3. CASE text[i] \notin Url!Unsafe
    BY <1>1, <2>1, <2>3
  <2> QED
    BY <2>2, <2>3
<1>7. Url!Unescape(e) = text
  <2> DEFINE back == [i \in DOMAIN e |-> IF e[i] \in DOMAIN Url!Plain THEN Url!Plain[e[i]] ELSE e[i]]
  <2>1. DOMAIN e = 1..n
    BY <1>3, LenProperties
  <2>2. text = [i \in 1..n |-> text[i]]
    BY <1>1 DEF n
  <2>3. back = [i \in 1..n |-> text[i]]
    BY <1>6, <2>1
  <2>4. Url!Unescape(e) = back \o <<>>
    BY Zenon DEF Url!Unescape, Url!Through, Url!Once
  <2> HIDE DEF back
  <2>5. text \o <<>> = text
    BY <1>1, ConcatEmptySeq
  <2> QED
    BY <2>2, <2>3, <2>4, <2>5
<1> QED
  BY <1>5, <1>7 DEF e

-----------------------------------------------------------------------------
(* Gives.                                                                *)

\* What is left of a set as its elements are taken.
Left(T, n, f) ==
  f = [k \in 0..n |-> IF k = 0 THEN T ELSE LET rest == f[k - 1] IN rest \ {CHOOSE x \in rest : TRUE}]

LEMMA LeftExists ==
  ASSUME NEW T
  PROVE  \A n \in Nat : \E f : Left(T, n, f)
<1> DEFINE U == {n \in Nat : \E f : Left(T, n, f)}
           Less(rest) == rest \ {CHOOSE x \in rest : TRUE}
<1>1. 0 \in U
  <2> DEFINE f == [k \in 0..0 |-> T]
  <2>1. Left(T, 0, f)
    BY DEF Left
  <2> QED
    BY <2>1
<1>2. ASSUME NEW n \in Nat, n \in U PROVE n + 1 \in U
  <2>1. PICK f : Left(T, n, f)
    BY <1>2
  <2> DEFINE g == [k \in 0..n + 1 |-> IF k <= n THEN f[k] ELSE Less(f[n])]
  <2>2. \A k \in 0..n : f[k] = IF k = 0 THEN T ELSE Less(f[k - 1])
    BY <2>1 DEF Left
  <2> HIDE DEF Less
  <2>3. \A k \in 0..n : g[k] = f[k]
    OBVIOUS
  <2>4. g[n + 1] = Less(f[n])
    OBVIOUS
  <2>5. ASSUME NEW k \in 0..n + 1 PROVE g[k] = IF k = 0 THEN T ELSE Less(g[k - 1])
    <3>1. CASE k \in 0..n
      <4>1. k = 0 \/ k - 1 \in 0..n
        BY <3>1
      <4> HIDE DEF g
      <4> QED
        BY <2>2, <2>3, <3>1, <4>1
    <3>2. CASE k \notin 0..n
      <4>1. k = n + 1 /\ k # 0 /\ k - 1 = n /\ n \in 0..n
        BY <3>2
      <4> HIDE DEF g
      <4> QED
        BY <2>3, <2>4, <4>1
    <3> QED
      BY <3>1, <3>2
  <2>6. g = [k \in 0..n + 1 |-> g[k]]
    OBVIOUS
  <2> HIDE DEF g
  <2>7. g = [k \in 0..n + 1 |-> IF k = 0 THEN T ELSE Less(g[k - 1])]
    BY <2>5, <2>6
  <2>8. Left(T, n + 1, g)
    BY <2>7 DEF Left, Less
  <2> QED
    BY <2>8
<1> HIDE DEF U
<1>3. \A n \in Nat : n \in U
  BY <1>1, <1>2, NatSet
<1> QED
  BY <1>3 DEF U

LEMMA ListedIs ==
  ASSUME NEW T, IsFiniteSet(T)
  PROVE  \E n \in Nat : /\ n = Cardinality(T) /\ Url!Listed(T) \in [1..n -> T]
                        /\ \A i, j \in 1..n : Url!Listed(T)[i] = Url!Listed(T)[j] => i = j
                        /\ \A x \in T : \E i \in 1..n : Url!Listed(T)[i] = x
<1> DEFINE n == Cardinality(T)
           f == CHOOSE f : Left(T, n, f)
           Less(rest) == rest \ {CHOOSE x \in rest : TRUE}
           names == [k \in 1..n |-> CHOOSE x \in f[k - 1] : TRUE]
<1>1. n \in Nat
  BY FS_CardinalityType
<1>2. Url!Listed(T) = names
  <2> DEFINE Names(m) == [k \in 1..m |-> CHOOSE x \in (CHOOSE g : Left(T, m, g))[k - 1] : TRUE]
  <2>1. Url!Listed(T) = Names(Url!Cardinality(T))
    BY Zenon DEF Url!Listed, Left
  <2>2. names = Names(Cardinality(T))
    BY Zenon
  <2> HIDE DEF Names, names
  <2> QED
    BY <2>1, <2>2, SameSize
<1>3. Left(T, n, f)
  BY <1>1, LeftExists
<1> HIDE DEF f, n
<1>4. \A k \in 0..n : f[k] = IF k = 0 THEN T ELSE Less(f[k - 1])
  BY <1>3 DEF Left
<1>5. \A k \in 1..n : names[k] = CHOOSE x \in f[k - 1] : TRUE
  OBVIOUS
<1> DEFINE Counts(k) == IsFiniteSet(f[k]) /\ Cardinality(f[k]) = n - k /\ f[k] \subseteq T
           U == {k \in Nat : k <= n => Counts(k)}
<1>6. f[0] = T /\ \A k \in 1..n : f[k] = f[k - 1] \ {names[k]}
  <2>1. 0 \in 0..n
    BY <1>1
  <2>2. \A k \in 1..n : k \in 0..n /\ k # 0
    BY <1>1
  <2> QED
    BY <1>4, <1>5, <2>1, <2>2
<1> HIDE DEF names
<1>7. ASSUME NEW k \in 1..n, Counts(k - 1) PROVE names[k] \in f[k - 1] /\ Counts(k)
  <2>1. n - (k - 1) # 0 /\ n - (k - 1) - 1 = n - k
    BY <1>1
  <2>2. f[k - 1] # {}
    BY <1>7, <2>1, FS_EmptySet
  <2>3. names[k] \in f[k - 1]
    BY <1>5, <2>2
  <2>4. IsFiniteSet(f[k - 1] \ {names[k]}) /\ Cardinality(f[k - 1] \ {names[k]}) = n - (k - 1) - 1
    BY <1>7, <2>3, FS_RemoveElement, ZenonT(30)
  <2> QED
    BY <1>6, <1>7, <2>1, <2>3, <2>4
<1>8. \A k \in Nat : k \in U
  <2>1. 0 \in U
    BY <1>1, <1>6 DEF n
  <2>2. ASSUME NEW k \in Nat, k \in U PROVE k + 1 \in U
    <3> SUFFICES ASSUME k + 1 <= n PROVE Counts(k + 1)
      OBVIOUS
    <3>1. k + 1 \in 1..n /\ (k + 1) - 1 = k
      BY <1>1
    <3>2. Counts(k)
      BY <1>1, <2>2
    <3> HIDE DEF Counts
    <3>3. Counts((k + 1) - 1)
      BY <3>1, <3>2
    <3> QED
      BY <1>7, <3>1, <3>3
  <2> HIDE DEF U
  <2> QED
    BY <2>1, <2>2, NatSet
<1>9. \A k \in 0..n : Counts(k)
  <2> HIDE DEF Counts
  <2> QED
    BY <1>1, <1>8
<1>10. ASSUME NEW k \in 1..n PROVE names[k] \in f[k - 1] /\ names[k] \notin f[k] /\ names[k] \in T
  <2>1. k - 1 \in 0..n
    BY <1>1
  <2>2. Counts(k - 1)
    BY <1>9, <2>1
  <2>3. names[k] \in f[k - 1]
    <3> HIDE DEF Counts
    <3> QED
      BY <1>7, <2>2
  <2> QED
    BY <1>6, <2>2, <2>3
<1>11. \A j \in 0..n : \A k \in 0..n : j <= k => f[k] \subseteq f[j]
  <2> TAKE j \in 0..n
  <2> DEFINE V == {k \in Nat : k \in 0..n /\ j <= k => f[k] \subseteq f[j]}
  <2>1. 0 \in V
    BY <1>1
  <2>2. ASSUME NEW k \in Nat, k \in V PROVE k + 1 \in V
    <3> SUFFICES ASSUME k + 1 \in 0..n, j <= k + 1 PROVE f[k + 1] \subseteq f[j]
      OBVIOUS
    <3>1. j = k + 1 \/ j <= k
      BY <1>1
    <3>2. k \in 0..n /\ k + 1 \in 1..n /\ (k + 1) - 1 = k
      BY <1>1
    <3>3. f[k + 1] \subseteq f[k]
      BY <1>6, <3>2
    <3> QED
      BY <2>2, <3>1, <3>2, <3>3
  <2> HIDE DEF V
  <2>3. \A k \in Nat : k \in V
    BY <2>1, <2>2, NatSet
  <2> QED
    BY <1>1, <2>3 DEF V
<1>12. ASSUME NEW i \in 1..n, NEW j \in 1..n, i < j PROVE names[i] # names[j]
  <2>1. i \in 0..n /\ j - 1 \in 0..n /\ i <= j - 1
    BY <1>1, <1>12
  <2>2. f[j - 1] \subseteq f[i]
    BY <1>11, <2>1
  <2> QED
    BY <1>10, <2>2
<1>13. \A i, j \in 1..n : names[i] = names[j] => i = j
  <2>1. \A i, j \in 1..n : i = j \/ i < j \/ j < i
    BY <1>1
  <2> QED
    BY <1>12, <2>1
<1>14. ASSUME NEW x \in T PROVE \E i \in 1..n : names[i] = x
  <2> DEFINE G == {k \in 0..n : x \notin f[k]}
  <2>1. n \in G
    <3>1. n \in 0..n
      BY <1>1
    <3>2. Counts(n)
      BY <1>9, <3>1
    <3>3. Cardinality(f[n]) = 0 /\ IsFiniteSet(f[n])
      BY <1>1, <3>2
    <3>4. f[n] = {}
      BY <3>3, FS_EmptySet
    <3> QED
      BY <3>1, <3>4
  <2>2. G \in SUBSET Nat
    BY <1>1
  <2>3. PICK k \in G : \A m \in G : k <= m
    <3> HIDE DEF G
    <3> QED
      BY <2>1, <2>2, LeastOf
  <2>4. k \in 0..n /\ x \notin f[k] /\ k # 0
    BY <1>6, <2>3
  <2>5. k \in 1..n /\ k - 1 \in 0..n /\ ~(k <= k - 1)
    BY <1>1, <2>4
  <2>6. x \in f[k - 1]
    BY <2>3, <2>5
  <2> QED
    BY <1>6, <2>4, <2>5, <2>6
<1>15. names \in [1..n -> T]
  <2>1. names = [k \in 1..n |-> names[k]]
    BY DEF names
  <2> QED
    BY <1>10, <2>1
<1> QED
  BY <1>1, <1>2, <1>13, <1>14, <1>15 DEF n

\* The text of one option.
Piece(q, name) == <<name, "=">> \o Url!Escape(q[name])

LEMMA PieceIs ==
  ASSUME NEW name \in STRING, name \notin Url!Separators, NEW q, Url!Sayable(q[name])
  PROVE  /\ Piece(q, name) \in Seq(Symbol) /\ Piece(q, name) # <<>>
         /\ \A x \in Url!Separators : x # "=" => Lacks(Piece(q, name), x)
         /\ Url!Split(Piece(q, name), "=") = << <<name>>, Url!Escape(q[name]) >>
<1> DEFINE e == Url!Escape(q[name])
           equals == "="
           one == <<name>>
           both == <<one, e>>
<1>1. e \in Seq(Symbol) /\ \A x \in Url!Separators : Lacks(e, x)
  BY EscapeIs DEF Escaped, Lacks
<1>2. name \in Symbol /\ equals \in Symbol /\ equals \in Url!Separators
  BY DEF Symbol, Url!Separators
<1>3. <<name, "=">> = one \o <<equals>>
  OBVIOUS
<1>4. <<equals>> \in Seq(Symbol) /\ one \in Seq(Symbol)
  BY <1>2
<1>5. \A x \in Url!Separators : Lacks(one, x) /\ (x # equals => Lacks(<<equals>>, x))
  BY DEF Lacks
<1>6. Len(one) = 1 /\ Len(<<equals>>) = 1
  OBVIOUS
<1>7. both \in Seq(Seq(Symbol)) /\ Len(both) = 2 /\ both[1] = one /\ both[2] = e
  <2> HIDE DEF one, e
  <2> QED
    BY <1>1, <1>4
<1>8. Piece(q, name) = (one \o <<equals>>) \o e
  BY <1>3 DEF Piece
<1> HIDE DEF e, one, equals
<1>9. (one \o <<equals>>) \o e = one \o (<<equals>> \o e)
  <2>1. Groups(one, <<equals>>, e)
    BY <1>1, <1>4, Regroup, Zenon
  <2> QED
    BY <2>1, Zenon DEF Groups
<1>10. one \o <<equals>> \in Seq(Symbol) /\ Len(one \o <<equals>>) = 2
  BY <1>4, <1>6, ConcatProperties
<1>11. Piece(q, name) \in Seq(Symbol) /\ Piece(q, name) # <<>>
  <2>1. (one \o <<equals>>) \o e \in Seq(Symbol) /\ Len((one \o <<equals>>) \o e) = 2 + Len(e) /\ Len(e) \in Nat
    BY <1>1, <1>10, ConcatProperties, LenProperties
  <2> QED
    BY <1>8, <2>1, EmptySeq
<1>12. \A x \in Url!Separators : x # equals => Lacks(Piece(q, name), x)
  <2> SUFFICES ASSUME NEW x \in Url!Separators, x # equals PROVE Lacks(Piece(q, name), x)
    OBVIOUS
  <2>1. Lacks(one, x) /\ Lacks(<<equals>>, x) /\ Lacks(e, x)
    BY <1>1, <1>5
  <2>2. Lacks(one \o <<equals>>, x)
    BY <1>4, <2>1, LacksBoth
  <2>3. Lacks((one \o <<equals>>) \o e, x)
    BY <1>1, <1>10, <2>1, <2>2, LacksBoth
  <2> QED
    BY <1>8, <2>3
<1>13. Url!JoinWith(both, equals) = Piece(q, name)
  BY <1>1, <1>2, <1>4, <1>8, <1>9, JoinTwo
<1>14. Free(both, equals)
  <2>1. DOMAIN both = 1..2 /\ \A i \in 1..2 : i = 1 \/ i = 2
    BY <1>7, LenProperties
  <2>2. Lacks(one, equals) /\ Lacks(e, equals)
    BY <1>1, <1>2, <1>5
  <2> HIDE DEF both
  <2> QED
    BY <1>7, <2>1, <2>2 DEF Free
<1>15. Url!Split(Piece(q, name), equals) = both
  <2>1. both # <<>>
    BY <1>7, EmptySeq
  <2> HIDE DEF both
  <2> QED
    BY <1>2, <1>7, <1>13, <1>14, <2>1, SplitJoin
<1> QED
  BY <1>11, <1>12, <1>15 DEF both, one, e, equals

\* The options of a URL, in the order Listed has them.
LEMMA EncodeIs ==
  ASSUME NEW q, Url!Asks(q), DOMAIN q # {}
  PROVE  \E n \in Nat, names \in Seq(DOMAIN q), pieces \in Seq(Seq(Symbol)) :
           /\ n # 0 /\ Len(names) = n /\ Len(pieces) = n
           /\ \A i, j \in 1..n : names[i] = names[j] => i = j
           /\ \A x \in DOMAIN q : \E i \in 1..n : names[i] = x
           /\ \A i \in 1..n : pieces[i] = Piece(q, names[i])
           /\ Url!Encode(q) = Url!JoinWith(pieces, "&")
<1> DEFINE T == DOMAIN q
           listed == Url!Listed(T)
<1>1. IsFiniteSet(T) /\ \A name \in T : name \in STRING /\ name \notin Url!Separators /\ Url!Sayable(q[name])
  BY SameFinite DEF Url!Asks
<1>2. PICK n \in Nat : /\ n = Cardinality(T) /\ listed \in [1..n -> T]
                       /\ \A i, j \in 1..n : listed[i] = listed[j] => i = j
                       /\ \A x \in T : \E i \in 1..n : listed[i] = x
  BY <1>1, ListedIs
<1>3. n # 0
  <2>1. PICK x \in T : TRUE
    OBVIOUS
  <2>2. PICK i \in 1..n : listed[i] = x
    BY <1>2, <2>1
  <2> QED
    BY <2>2
<1>4. listed \in Seq(T) /\ Len(listed) = n
  <2> HIDE DEF listed
  <2> QED
    BY <1>2
<1>5. Url!Once(listed) = listed
  <2> HIDE DEF listed
  <2> QED
    BY <1>4, ConcatEmptySeq DEF Url!Once
<1> DEFINE pieces == [i \in DOMAIN listed |-> <<listed[i], "=">> \o Url!Escape(q[listed[i]])]
<1>6. Url!Encode(q) = Url!JoinWith(pieces, "&")
  <2> DEFINE Joined(names) == Url!JoinWith([i \in DOMAIN names |-> <<names[i], "=">> \o Url!Escape(q[names[i]])], "&")
  <2>1. Url!Encode(q) = Joined(Url!Once(listed))
    BY Zenon DEF Url!Encode
  <2>2. Joined(listed) = Url!JoinWith(pieces, "&")
    BY Zenon
  <2> HIDE DEF Joined, pieces, listed
  <2> QED
    BY <1>5, <2>1, <2>2
<1> HIDE DEF listed
<1>7. DOMAIN listed = 1..n /\ \A i \in 1..n : listed[i] \in T
  BY <1>2
<1>8. \A i \in 1..n : pieces[i] = Piece(q, listed[i]) /\ Piece(q, listed[i]) \in Seq(Symbol)
  <2>1. \A i \in 1..n : Piece(q, listed[i]) \in Seq(Symbol)
    BY <1>1, <1>7, PieceIs
  <2> QED
    BY <1>7, <2>1 DEF Piece
<1>9. pieces \in Seq(Seq(Symbol)) /\ Len(pieces) = n
  <2>1. DOMAIN pieces = 1..n /\ pieces = [i \in 1..n |-> pieces[i]]
    BY <1>7
  <2> HIDE DEF pieces
  <2> QED
    BY <1>8, <2>1
<1> HIDE DEF pieces
<1> QED
  BY <1>2, <1>3, <1>4, <1>6, <1>8, <1>9, ZenonT(30)

\* What Tile38 makes of one.
Pair(halves) == << IF halves[1] = <<>> THEN "" ELSE halves[1][1],
                   Url!Unescape(Url!JoinWith(Tail(halves), "=")) >>

LEMMA PairIs ==
  ASSUME NEW name, NEW v, Url!Sayable(v)
  PROVE  Pair(<< <<name>>, Url!Escape(v) >>) = <<name, v>>
<1> DEFINE e == Url!Escape(v)
           one == <<name>>
           halves == <<one, e>>
<1>1. e \in Seq(Symbol) /\ Url!Unescape(e) = v
  BY EscapeIs DEF Escaped
<1>2. one # <<>> /\ one[1] = name
  OBVIOUS
<1> HIDE DEF e, one
<1>3. halves[1] = one /\ Tail(halves) = <<e>>
  OBVIOUS
<1>4. Url!JoinWith(<<e>>, "=") = e
  BY <1>1, MarksAreSymbols, JoinOne
<1> QED
  BY <1>1, <1>2, <1>3, <1>4 DEF Pair, e, one

\* The options that distinct names give are those of each name.
Enumerates(names, n, T) ==
  /\ names \in Seq(T) /\ Len(names) = n
  /\ \A i, j \in 1..n : names[i] = names[j] => i = j
  /\ \A x \in T : \E i \in 1..n : names[i] = x

Gives(opts, n, names, q) == DOMAIN opts = 1..n /\ \A i \in 1..n : opts[i] = <<names[i], q[names[i]]>>

LEMMA ValuesAre ==
  ASSUME NEW q, q = [x \in DOMAIN q |-> q[x]], NEW n \in Nat, NEW names, Enumerates(names, n, DOMAIN q),
         NEW opts, Gives(opts, n, names, q)
  PROVE  Url!Values(opts) = q
<1> DEFINE At(x) == CHOOSE i \in DOMAIN opts :
                        opts[i][1] = x /\ \A j \in DOMAIN opts : opts[j][1] = x => j <= i
<1>0. /\ names \in Seq(DOMAIN q) /\ Len(names) = n
      /\ \A i, j \in 1..n : names[i] = names[j] => i = j
      /\ \A x \in DOMAIN q : \E i \in 1..n : names[i] = x
      /\ DOMAIN opts = 1..n /\ \A i \in 1..n : opts[i] = <<names[i], q[names[i]]>>
  BY DEF Enumerates, Gives
<1>1. \A i \in 1..n : opts[i][1] = names[i] /\ opts[i][2] = q[names[i]] /\ names[i] \in DOMAIN q
  <2>1. \A i \in 1..n : names[i] \in DOMAIN q
    BY <1>0, ElementOfSeq
  <2> QED
    BY <1>0, <2>1
<1>2. {opts[i][1] : i \in DOMAIN opts} = DOMAIN q
  <2> DEFINE First(i) == opts[i][1]
  <2>1. \A i \in DOMAIN opts : First(i) \in DOMAIN q
    BY <1>0, <1>1
  <2>2. \A x \in DOMAIN q : \E i \in DOMAIN opts : First(i) = x
    BY <1>0, <1>1
  <2> HIDE DEF First
  <2>3. {First(i) : i \in DOMAIN opts} = DOMAIN q
    BY <2>1, <2>2
  <2> QED
    BY <2>3 DEF First
<1>3. ASSUME NEW x \in DOMAIN q PROVE opts[At(x)][2] = q[x]
  <2>1. PICK i \in 1..n : names[i] = x
    BY <1>0
  <2>2. \A j \in 1..n : opts[j][1] = x => j = i
    BY <1>0, <1>1, <2>1
  <2>3. i \in DOMAIN opts /\ opts[i][1] = x /\ \A j \in DOMAIN opts : opts[j][1] = x => j <= i
    BY <1>0, <1>1, <2>1, <2>2
  <2>4. At(x) \in 1..n /\ opts[At(x)][1] = x
    BY <1>0, <2>3
  <2> HIDE DEF At
  <2>5. At(x) = i
    BY <2>2, <2>4
  <2> QED
    BY <1>1, <2>1, <2>5
<1>4. Url!Values(opts) = [x \in {opts[i][1] : i \in DOMAIN opts} |-> opts[At(x)][2]]
  BY Zenon DEF Url!Values
<1> HIDE DEF At
<1> QED
  BY <1>2, <1>3, <1>4

\* The options of a URL are read as they were meant.
LEMMA QueryIs ==
  ASSUME NEW q, Url!Asks(q), DOMAIN q # {}
  PROVE  /\ Url!Encode(q) \in Seq(Symbol) /\ Url!ReadQuery(Url!Encode(q)) = q
         /\ \A x \in Url!Separators : x # "=" /\ x # "&" => Lacks(Url!Encode(q), x)
<1> DEFINE amp == "&"
<1>1. PICK n \in Nat, names \in Seq(DOMAIN q), pieces \in Seq(Seq(Symbol)) :
           /\ n # 0 /\ Len(names) = n /\ Len(pieces) = n
           /\ \A i, j \in 1..n : names[i] = names[j] => i = j
           /\ \A x \in DOMAIN q : \E i \in 1..n : names[i] = x
           /\ \A i \in 1..n : pieces[i] = Piece(q, names[i])
           /\ Url!Encode(q) = Url!JoinWith(pieces, amp)
  BY EncodeIs
<1>2. \A name \in DOMAIN q : name \in STRING /\ name \notin Url!Separators /\ Url!Sayable(q[name])
  BY DEF Url!Asks
<1>3. amp \in Symbol /\ amp \in Url!Separators /\ amp # "="
  BY DEF Symbol, Url!Separators
<1> DEFINE text == Url!Encode(q)
<1>4. DOMAIN pieces = 1..n /\ pieces # <<>> /\ \A i \in 1..n : names[i] \in DOMAIN q
  BY <1>1, LenProperties, EmptySeq, ElementOfSeq
<1>5. \A i \in 1..n : /\ pieces[i] # <<>> /\ \A x \in Url!Separators : x # "=" => Lacks(pieces[i], x)
                      /\ Url!Split(pieces[i], "=") = << <<names[i]>>, Url!Escape(q[names[i]]) >>
  <2> SUFFICES ASSUME NEW i \in 1..n
               PROVE  /\ pieces[i] # <<>> /\ \A x \in Url!Separators : x # "=" => Lacks(pieces[i], x)
                      /\ Url!Split(pieces[i], "=") = << <<names[i]>>, Url!Escape(q[names[i]]) >>
    OBVIOUS
  <2> DEFINE name == names[i]
  <2>1. pieces[i] = Piece(q, name) /\ name \in STRING /\ name \notin Url!Separators /\ Url!Sayable(q[name])
    BY <1>1, <1>2, <1>4
  <2> HIDE DEF name
  <2>2. /\ Piece(q, name) # <<>> /\ \A x \in Url!Separators : x # "=" => Lacks(Piece(q, name), x)
        /\ Url!Split(Piece(q, name), "=") = << <<name>>, Url!Escape(q[name]) >>
    BY <2>1, PieceIs
  <2> QED
    BY <2>1, <2>2 DEF name
<1> HIDE DEF amp
<1>6. text \in Seq(Symbol)
  BY <1>1, <1>3, JoinTyped
<1>7. \A x \in Url!Separators : x # "=" /\ x # amp => Lacks(text, x)
  <2> SUFFICES ASSUME NEW x \in Url!Separators, x # "=", x # amp PROVE Lacks(text, x)
    OBVIOUS
  <2>1. Free(pieces, x)
    BY <1>4, <1>5 DEF Free
  <2> QED
    BY <1>1, <1>3, <2>1, JoinLacks
<1>8. Free(pieces, amp)
  BY <1>3, <1>4, <1>5 DEF Free
<1>9. Url!Split(text, amp) = pieces
  BY <1>1, <1>3, <1>4, <1>8, SplitJoin
<1>10. text # <<>>
  <2>1. ASSUME text = <<>> PROVE FALSE
    <3> DEFINE none == <<>>
    <3>1. none \in Seq(Symbol) /\ Free(<<none>>, amp) /\ <<none>> \in Seq(Seq(Symbol)) /\ <<none>> # <<>>
      BY DEF Free, Lacks
    <3>2. Url!JoinWith(<<none>>, amp) = none
      BY <1>3, <3>1, JoinOne
    <3>3. text = none
      BY <2>1
    <3>4. <<none>>[1] = none /\ 1 \in 1..n
      BY <1>1
    <3> HIDE DEF none, text
    <3>5. Url!Split(none, amp) = <<none>>
      BY <1>3, <3>1, <3>2, SplitJoin
    <3>6. pieces = <<none>>
      BY <1>9, <3>3, <3>5
    <3>7. pieces[1] = none
      BY <3>4, <3>6
    <3> QED
      BY <1>5, <3>4, <3>7 DEF none
  <2> QED
    BY <2>1
<1> DEFINE opts == [i \in DOMAIN pieces |-> Pair(Url!Split(pieces[i], "="))]
<1>11. Url!ReadQuery(text) = Url!Values(Url!Once(opts))
  <2> DEFINE Made(given) == Url!Values(Url!Once([i \in DOMAIN given |-> Pair(Url!Split(given[i], "="))]))
  <2>1. Url!ReadQuery(text) = Made(Url!Split(text, "&"))
    <3> HIDE DEF text
    <3> QED
      BY <1>10, Zenon DEF Url!ReadQuery, Pair
  <2>2. Made(pieces) = Url!Values(Url!Once(opts))
    BY Zenon
  <2> HIDE DEF Made, opts, text
  <2> QED
    BY <1>9, <2>1, <2>2 DEF amp
<1>12. DOMAIN opts = 1..n /\ \A i \in 1..n : opts[i] = <<names[i], q[names[i]]>>
  <2>1. \A i \in 1..n : Pair(<< <<names[i]>>, Url!Escape(q[names[i]]) >>) = <<names[i], q[names[i]]>>
    BY <1>2, <1>4, PairIs
  <2>2. \A i \in 1..n : Pair(Url!Split(pieces[i], "=")) = <<names[i], q[names[i]]>>
    BY <1>5, <2>1
  <2> QED
    BY <1>4, <2>2
<1>13. Url!Once(opts) = opts
  <2> DEFINE Q == {opts[i] : i \in 1..n}
  <2>1. opts = [i \in 1..n |-> opts[i]]
    BY <1>4
  <2> HIDE DEF opts
  <2>2. \A i \in 1..n : opts[i] \in Q
    OBVIOUS
  <2> HIDE DEF Q
  <2>3. opts \in [1..n -> Q]
    BY <2>1, <2>2
  <2>4. opts \in Seq(Q)
    BY <2>3
  <2> QED
    BY <2>4, ConcatEmptySeq DEF Url!Once
<1>14. q = [x \in DOMAIN q |-> q[x]]
  BY DEF Url!Asks
<1>15. Url!Values(opts) = q
  <2>1. Enumerates(names, n, DOMAIN q)
    BY <1>1 DEF Enumerates
  <2>2. Gives(opts, n, names, q)
    BY <1>12 DEF Gives
  <2> HIDE DEF opts
  <2> QED
    BY <1>14, <2>1, <2>2, ValuesAre
<1> QED
  BY <1>6, <1>7, <1>11, <1>13, <1>15 DEF amp

\* The host and the path of what comes before the options.
Places(host, path) == [host |-> host, path |-> path]

LEMMA PartsNone ==
  ASSUME NEW scheme, scheme \notin {"mqtt", "mqtts", "amqp", "amqps"},
         NEW host \in Seq(Symbol), Lacks(host, "/")
  PROVE  Url!Parts(scheme, host) = Places(host, <<>>)
<1> DEFINE slash == "/"
           one == <<host>>
           PartsOf(all) == [host |-> all[1], path |-> IF Len(all) > 1 THEN Url!Unescape(all[2]) ELSE <<>>]
<1>1. slash \in Symbol
  BY MarksAreSymbols
<1>2. one \in Seq(Seq(Symbol)) /\ Len(one) = 1 /\ one[1] = host
  OBVIOUS
<1>3. Free(one, slash) /\ one # <<>>
  <2>1. Free(one, slash)
    BY DEF Free
  <2>2. one # <<>>
    OBVIOUS
  <2> QED
    BY <2>1, <2>2
<1>4. Url!JoinWith(one, slash) = host
  BY <1>1, JoinOne
<1> HIDE DEF slash, one
<1>5. Url!Split(host, slash) = one
  BY <1>1, <1>2, <1>3, <1>4, SplitJoin
<1>6. Url!Parts(scheme, host) = PartsOf(Url!Split(host, "/"))
  BY Zenon DEF Url!Parts
<1>7. Url!Parts(scheme, host) = PartsOf(one)
  <2> HIDE DEF PartsOf
  <2> QED
    BY <1>5, <1>6 DEF slash
<1> QED
  BY <1>2, <1>7 DEF Places

LEMMA PartsOne ==
  ASSUME NEW scheme, NEW host \in Seq(Symbol), NEW path, Url!Sayable(path),
         scheme \in {"amqp", "amqps"} \/ Lacks(host, "/")
  PROVE  Url!Parts(scheme, host \o (<<"/">> \o Url!Escape(path))) = Places(host, path)
<1> DEFINE slash == "/"
           e == Url!Escape(path)
           before == host \o (<<slash>> \o e)
<1>1. slash \in Symbol /\ slash \in Url!Separators
  BY MarksAreSymbols DEF Url!Separators
<1>2. e \in Seq(Symbol) /\ Url!Unescape(e) = path /\ Lacks(e, slash)
  BY <1>1, EscapeIs DEF Escaped, Lacks
<1> HIDE DEF slash, e
<1>3. ASSUME NEW hosts \in Seq(Seq(Symbol)), hosts # <<>>, Free(hosts, slash), Url!JoinWith(hosts, slash) = host
      PROVE  Url!Split(before, slash) = Append(hosts, e)
  <2> DEFINE all == Append(hosts, e)
             n == Len(hosts)
  <2>1. all \in Seq(Seq(Symbol)) /\ Len(all) = n + 1 /\ all[n + 1] = e /\ n \in Nat
        /\ \A i \in 1..n : all[i] = hosts[i]
    BY <1>2, AppendProperties, LenProperties
  <2>2. Url!JoinWith(all, slash) = before
    BY <1>1, <1>2, <1>3, JoinMore, ZenonT(30)
  <2> HIDE DEF all, n
  <2>3. DOMAIN all = 1..n + 1 /\ all # <<>> /\ \A i \in 1..n + 1 : i = n + 1 \/ i \in 1..n
    BY <2>1, LenProperties, EmptySeq
  <2>4. \A i \in 1..n : Lacks(hosts[i], slash)
    BY <1>3, LenProperties DEF Free, n
  <2>5. \A i \in 1..n + 1 : Lacks(all[i], slash)
    BY <1>2, <2>1, <2>3, <2>4
  <2>6. Free(all, slash)
    BY <2>3, <2>5 DEF Free
  <2>7. Url!Split(Url!JoinWith(all, slash), slash) = all
    BY <1>1, <2>1, <2>3, <2>6, SplitJoin
  <2> QED
    BY <2>2, <2>7 DEF all
<1>4. CASE scheme \in {"amqp", "amqps"}
  <2>1. PICK hosts \in Seq(Seq(Symbol)) : hosts # <<>> /\ Free(hosts, slash) /\ Url!JoinWith(hosts, slash) = host
    BY <1>1, JoinOf
  <2> DEFINE all == Append(hosts, e)
             n == Len(hosts)
             PartsOf(s) == [host |-> Url!JoinWith(Url!Front(s), "/"), path |-> Url!Unescape(Url!Last(s))]
  <2>2. Url!Split(before, slash) = all
    BY <1>3, <2>1
  <2>3. all \in Seq(Seq(Symbol)) /\ Len(all) = n + 1 /\ all[n + 1] = e /\ n \in Nat /\ n # 0
        /\ \A i \in 1..n : all[i] = hosts[i]
    BY <1>2, <2>1, AppendProperties, LenProperties, EmptySeq
  <2> HIDE DEF n, all
  <2>4. Front(all) = hosts /\ Last(all) = e
    <3>1. Last(all) = e
      BY <2>3 DEF Last
    <3>2. Front(all) = SubSeq(all, 1, n)
      BY <2>3 DEF Front
    <3>3. SubSeq(all, 1, n) = hosts
      <4> DEFINE x == SubSeq(all, 1, n)
      <4>1. \A i \in 1..n : all[i] \in Seq(Symbol)
        BY <2>3, ElementOfSeq DEF n
      <4>2. x \in Seq(Seq(Symbol)) /\ Len(x) = n /\ \A i \in 1..n : x[i] = all[i]
        <5>1. x \in Seq(Seq(Symbol)) /\ Len(x) = (IF 1 <= n THEN n - 1 + 1 ELSE 0)
              /\ \A i \in 1..n - 1 + 1 : x[i] = all[1 + i - 1]
          BY <2>3, <4>1, SubSeqProperties
        <5>2. n - 1 + 1 = n /\ 1 <= n /\ \A i \in 1..n : 1 + i - 1 = i
          BY <2>3
        <5> HIDE DEF x
        <5> QED
          BY <5>1, <5>2
      <4> HIDE DEF x
      <4>3. \A i \in 1..Len(x) : x[i] = hosts[i]
        BY <2>3, <4>2
      <4>4. x = hosts
        BY <4>2, <4>3, SeqEqual DEF n
      <4> QED
        BY <4>4 DEF x
    <3> QED
      BY <3>1, <3>2, <3>3
  <2>5. Len(Url!Split(before, slash)) > 1
    BY <2>2, <2>3
  <2>6. Url!Parts(scheme, before) = PartsOf(Url!Split(before, slash))
    <3>1. scheme \notin {"mqtt", "mqtts"}
      BY <1>4
    <3> HIDE DEF before
    <3> QED
      BY <1>4, <2>5, <3>1, Zenon DEF Url!Parts, slash
  <2>7. Url!Parts(scheme, before) = PartsOf(all)
    <3> HIDE DEF PartsOf, before
    <3> QED
      BY <2>2, <2>6
  <2>8. PartsOf(all) = Places(host, path)
    BY <1>2, <2>1, <2>4, SameEnds DEF Places, slash
  <2> QED
    BY <2>7, <2>8 DEF slash, e
<1>5. CASE scheme \notin {"amqp", "amqps"}
  <2> DEFINE one == <<host>>
             all == <<host, e>>
  <2>1. one \in Seq(Seq(Symbol)) /\ Len(one) = 1 /\ one[1] = host
    OBVIOUS
  <2>2. Free(one, slash) /\ one # <<>>
    <3>1. Free(one, slash)
      BY <1>5 DEF Free, slash
    <3>2. one # <<>>
      OBVIOUS
    <3> QED
      BY <3>1, <3>2
  <2>3. Url!JoinWith(one, slash) = host
    BY <1>1, JoinOne
  <2>4. Append(one, e) = all
    <3> DEFINE more == Append(one, e)
               T == Seq(Symbol)
    <3>1. all \in Seq(T) /\ Len(all) = 2 /\ all[1] = host /\ all[2] = e
      BY <1>2
    <3> HIDE DEF one, all
    <3>2. more \in Seq(T) /\ Len(more) = Len(one) + 1 /\ more[Len(one) + 1] = e
          /\ \A i \in 1..Len(one) : more[i] = one[i]
      <4>1. one \in Seq(T) /\ e \in T
        BY <1>2, <2>1
      <4> HIDE DEF T
      <4> QED
        BY <4>1, AppendProperties
    <3> HIDE DEF more
    <3>3. 1 + 1 = 2 /\ 1 \in 1..1 /\ \A i \in 1..2 : i = 1 \/ i = 2
      OBVIOUS
    <3>4. Len(more) = 2 /\ more[1] = host /\ more[2] = e
      BY <2>1, <3>2, <3>3
    <3>5. \A i \in 1..Len(more) : more[i] = all[i]
      BY <3>1, <3>3, <3>4
    <3> HIDE DEF T
    <3>6. more = all
      BY <3>1, <3>2, <3>4, <3>5, SeqEqual
    <3> QED
      BY <3>6 DEF more
  <2>5. all[1] = host /\ all[2] = e /\ Len(all) = 2 /\ Tail(all) = <<e>>
    OBVIOUS
  <2> HIDE DEF one, all
  <2>6. Url!Split(before, slash) = all
    BY <1>3, <2>1, <2>2, <2>3, <2>4
  <2>7. Url!JoinWith(Tail(all), "/") = e
    BY <1>1, <1>2, <2>5, JoinOne DEF slash
  <2>8. CASE scheme \in {"mqtt", "mqtts"}
    <3> DEFINE PartsOf(s) == [host |-> s[1], path |-> Url!Unescape(Url!JoinWith(Tail(s), "/"))]
    <3> HIDE DEF before
    <3>1. Url!Parts(scheme, before) = PartsOf(Url!Split(before, slash))
      BY <2>8, Zenon DEF Url!Parts, slash
    <3>2. PartsOf(all) = Places(host, path)
      BY <1>2, <2>5, <2>7 DEF Places
    <3> HIDE DEF PartsOf
    <3>3. Url!Parts(scheme, before) = Places(host, path)
      BY <2>6, <3>1, <3>2
    <3> QED
      BY <3>3 DEF before, slash, e
  <2>9. CASE scheme \notin {"mqtt", "mqtts"}
    <3> DEFINE PartsOf(s) == [host |-> s[1], path |-> IF Len(s) > 1 THEN Url!Unescape(s[2]) ELSE <<>>]
    <3> HIDE DEF before
    <3>1. Url!Parts(scheme, before) = PartsOf(Url!Split(before, slash))
      BY <1>5, <2>9, Zenon DEF Url!Parts, slash
    <3>2. PartsOf(all) = Places(host, path)
      BY <1>2, <2>5 DEF Places
    <3> HIDE DEF PartsOf
    <3>3. Url!Parts(scheme, before) = Places(host, path)
      BY <2>6, <3>1, <3>2
    <3> QED
      BY <3>3 DEF before, slash, e
  <2> QED
    BY <2>8, <2>9
<1> QED
  BY <1>4, <1>5

\* The options of a URL, behind their mark.
QueryText(q) == IF DOMAIN q = {} THEN <<>> ELSE <<"?">> \o Url!Encode(q)

LEMMA QueryTextIs ==
  ASSUME NEW q, Url!Asks(q), NEW before \in Seq(Symbol), Lacks(before, "?")
  PROVE  /\ QueryText(q) \in Seq(Symbol) /\ Lacks(QueryText(q), "://")
         /\ \E halves : /\ Url!Split(before \o QueryText(q), "?") = halves /\ halves[1] = before
                        /\ Url!ReadQuery(Url!JoinWith(Tail(halves), "?")) = q
<1> DEFINE mark == "?"
           scheme == "://"
<1>1. mark \in Symbol /\ scheme \in Url!Separators /\ mark \in Url!Separators /\ mark # scheme
      /\ mark # "=" /\ mark # "&" /\ scheme # "=" /\ scheme # "&"
  BY MarksAreSymbols DEF Url!Separators
<1> HIDE DEF mark, scheme
<1>2. CASE DOMAIN q = {}
  <2> DEFINE one == <<before>>
  <2>1. QueryText(q) = <<>>
    BY <1>2 DEF QueryText
  <2>2. before \o QueryText(q) = before
    BY <2>1, ConcatEmptySeq
  <2>3. one \in Seq(Seq(Symbol)) /\ one[1] = before /\ Tail(one) = <<>>
    OBVIOUS
  <2>4. Free(one, mark) /\ one # <<>>
    <3>1. Free(one, mark)
      BY DEF Free, mark
    <3>2. one # <<>>
      OBVIOUS
    <3> QED
      BY <3>1, <3>2
  <2>5. Url!JoinWith(one, mark) = before
    BY <1>1, JoinOne
  <2> HIDE DEF one
  <2>6. Url!Split(before, mark) = one
    BY <1>1, <2>3, <2>4, <2>5, SplitJoin
  <2>7. q = [x \in {} |-> <<>>]
    BY <1>2 DEF Url!Asks
  <2>8. Url!ReadQuery(<<>>) = q
    BY <2>7 DEF Url!ReadQuery, Url!NoValues
  <2>9. Url!ReadQuery(Url!JoinWith(Tail(one), mark)) = q
    BY <2>3, <2>8, JoinNoneIs
  <2>10. <<>> \in Seq(Symbol) /\ Lacks(<<>>, scheme)
    BY DEF Lacks
  <2> QED
    BY <2>1, <2>2, <2>3, <2>6, <2>9, <2>10 DEF mark, scheme
<1>3. CASE DOMAIN q # {}
  <2> DEFINE text == Url!Encode(q)
             both == <<before, text>>
  <2>1. text \in Seq(Symbol) /\ Url!ReadQuery(text) = q /\ Lacks(text, mark) /\ Lacks(text, scheme)
    BY <1>1, <1>3, QueryIs
  <2>2. QueryText(q) = <<mark>> \o text
    BY <1>3 DEF QueryText, mark
  <2> HIDE DEF text
  <2>3. both \in Seq(Seq(Symbol)) /\ Len(both) = 2 /\ both[1] = before /\ both[2] = text /\ Tail(both) = <<text>>
    BY <2>1
  <2>4. both # <<>>
    OBVIOUS
  <2>5. Url!JoinWith(both, mark) = before \o (<<mark>> \o text)
    BY <1>1, <2>1, JoinTwo
  <2> HIDE DEF both
  <2>6. Free(both, mark)
    <3>1. DOMAIN both = 1..2 /\ \A i \in 1..2 : i = 1 \/ i = 2
      BY <2>3, LenProperties
    <3> QED
      BY <2>1, <2>3, <3>1 DEF Free, mark
  <2>7. Url!Split(before \o QueryText(q), mark) = both
    BY <1>1, <2>2, <2>3, <2>4, <2>5, <2>6, SplitJoin
  <2>8. Url!JoinWith(Tail(both), mark) = text
    BY <1>1, <2>1, <2>3, JoinOne
  <2>9. <<mark>> \in Seq(Symbol) /\ Lacks(<<mark>>, scheme)
    BY <1>1 DEF Lacks
  <2>10. QueryText(q) \in Seq(Symbol) /\ Lacks(QueryText(q), scheme)
    BY <2>1, <2>2, <2>9, ConcatProperties, LacksBoth
  <2> QED
    BY <2>1, <2>3, <2>7, <2>8, <2>10 DEF mark, scheme
<1> QED
  BY <1>2, <1>3

\* What comes before the options: the host, and the path it may have.
Address(host, segments) ==
  host \o Url!FlattenSeq([i \in DOMAIN segments |-> <<"/">> \o Url!Escape(segments[i])])

LEMMA AddressIs ==
  ASSUME NEW scheme, NEW host \in Seq(Symbol), NEW path, Url!Sayable(path), NEW segments \in {<<>>, <<path>>},
         host # <<>>, Lacks(host, "?"), Lacks(host, "://"),
         scheme \in {"amqp", "amqps"} \/ Lacks(host, "/"),
         segments = <<>> => path = <<>> /\ scheme \notin {"mqtt", "mqtts", "amqp", "amqps"}
  PROVE  /\ Address(host, segments) \in Seq(Symbol) /\ Address(host, segments) # <<>>
         /\ Lacks(Address(host, segments), "?") /\ Lacks(Address(host, segments), "://")
         /\ Url!Parts(scheme, Address(host, segments)) = Places(host, path)
<1> DEFINE flat == Url!FlattenSeq([i \in DOMAIN segments |-> <<"/">> \o Url!Escape(segments[i])])
<1>1. CASE segments = <<>>
  <2>1. [i \in DOMAIN segments |-> <<"/">> \o Url!Escape(segments[i])] = <<>>
    BY <1>1
  <2>2. flat = <<>>
    BY <2>1, FlatEmpty, SameFlat
  <2> HIDE DEF flat
  <2>3. host \o flat = host
    BY <2>2, ConcatEmptySeq
  <2>4. Address(host, segments) = host
    BY <2>3 DEF Address, flat
  <2>5. Url!Parts(scheme, host) = Places(host, <<>>)
    BY <1>1, PartsNone
  <2> QED
    BY <1>1, <2>4, <2>5
<1>2. CASE segments = <<path>>
  <2> DEFINE slash == "/"
             mark == "?"
             opens == "://"
             e == Url!Escape(path)
             after == <<slash>> \o e
             before == host \o after
  <2>1. e \in Seq(Symbol) /\ \A x \in Url!Separators : Lacks(e, x)
    BY EscapeIs DEF Escaped, Lacks
  <2>2. slash \in Symbol /\ mark \in Url!Separators /\ opens \in Url!Separators /\ mark # slash /\ opens # slash
    BY MarksAreSymbols DEF Url!Separators
  <2>3. [i \in DOMAIN segments |-> <<"/">> \o Url!Escape(segments[i])] = <<after>>
    BY <1>2
  <2> HIDE DEF slash, mark, opens, e
  <2>4. <<slash>> \in Seq(Symbol) /\ Lacks(<<slash>>, mark) /\ Lacks(<<slash>>, opens)
    BY <2>2 DEF Lacks
  <2>5. after \in Seq(Symbol) /\ Lacks(after, mark) /\ Lacks(after, opens)
    <3>1. Lacks(e, mark) /\ Lacks(e, opens)
      BY <2>1, <2>2
    <3> QED
      BY <2>1, <2>4, <3>1, ConcatProperties, LacksBoth
  <2> HIDE DEF after
  <2>6. flat = after
    <3>1. FlattenSeq(<<after>>) = after
      <4> DEFINE none == <<>>
      <4>1. none \in Seq(Seq(Symbol)) /\ Append(none, after) = <<after>>
        OBVIOUS
      <4> QED
        BY <2>5, <4>1, FlatAppend
    <3> QED
      BY <2>3, <3>1, SameFlat
  <2>7. Address(host, segments) = before
    BY <2>6 DEF Address
  <2>8. before \in Seq(Symbol) /\ Len(before) = Len(host) + Len(after)
    BY <2>5, ConcatProperties
  <2>9. before # <<>>
    <3>1. Len(host) # 0 /\ Len(host) \in Nat /\ Len(after) \in Nat
      BY <2>5, LenProperties, EmptySeq
    <3> HIDE DEF before
    <3> QED
      BY <2>8, <3>1, EmptySeq
  <2>10. Lacks(before, mark) /\ Lacks(before, opens)
    BY <2>5, LacksBoth DEF mark, opens
  <2>11. Url!Parts(scheme, before) = Places(host, path)
    BY PartsOne DEF after, slash, e
  <2> HIDE DEF before
  <2> QED
    BY <2>7, <2>8, <2>9, <2>10, <2>11 DEF mark, opens
<1> QED
  BY <1>1, <1>2

LEMMA WordsAreSymbols == \A text \in Seq(STRING) : text \in Seq(Symbol)
<1>1. STRING \subseteq Symbol
  BY DEF Symbol
<1> QED
  BY <1>1, SeqMonotonic

\* What follows a scheme and its mark.
LEMMA Opened ==
  ASSUME NEW S, NEW scheme \in S, NEW mark \in S, NEW rest \in Seq(S), NEW url, url = <<scheme, mark>> \o rest
  PROVE  /\ url \in Seq(S) /\ Len(url) = Len(rest) + 2 /\ url[1] = scheme /\ url[2] = mark
         /\ \A i \in 1..Len(rest) : url[i + 2] = rest[i]
         /\ SubSeq(url, 3, Len(url)) = rest
<1> DEFINE n == Len(rest)
           open == <<scheme, mark>>
           x == SubSeq(url, 3, Len(url))
<1>1. open \in Seq(S) /\ Len(open) = 2 /\ open[1] = scheme /\ open[2] = mark
  OBVIOUS
<1>2. n \in Nat
  BY LenProperties
<1> HIDE DEF open
<1>3. url \in Seq(S) /\ Len(url) = 2 + n /\ \A i \in 1..2 + n : url[i] = IF i <= 2 THEN open[i] ELSE rest[i - 2]
  <2>1. open \o rest \in Seq(S) /\ Len(open \o rest) = Len(open) + n
        /\ \A i \in 1..Len(open) + n : (open \o rest)[i] = IF i <= Len(open) THEN open[i] ELSE rest[i - Len(open)]
    BY <1>1, ConcatProperties
  <2> HIDE DEF n
  <2> QED
    BY <1>1, <2>1 DEF open
<1> HIDE DEF n
<1>4. url[1] = scheme /\ url[2] = mark
  <2>1. 1 \in 1..2 + n /\ 2 \in 1..2 + n
    BY <1>2
  <2> QED
    BY <1>1, <1>3, <2>1
<1>5. \A i \in 1..n : url[i + 2] = rest[i]
  <2>1. \A i \in 1..n : i + 2 \in 1..2 + n /\ ~(i + 2 <= 2) /\ i + 2 - 2 = i
    BY <1>2
  <2> QED
    BY <1>3, <2>1
<1>6. x = rest
  <2>1. \A i \in 3..2 + n : i \in 1..Len(url)
    BY <1>2, <1>3
  <2>2. \A i \in 3..Len(url) : url[i] \in S
    BY <1>3, <2>1, ElementOfSeq
  <2>3. x \in Seq(S) /\ Len(x) = (IF 3 <= Len(url) THEN Len(url) - 3 + 1 ELSE 0)
        /\ \A i \in 1..Len(url) - 3 + 1 : x[i] = url[3 + i - 1]
    BY <1>2, <1>3, <2>2, SubSeqProperties
  <2> HIDE DEF x
  <2>4. Len(x) = n /\ Len(url) - 3 + 1 = n /\ \A i \in 1..n : 3 + i - 1 = i + 2
    BY <1>2, <1>3, <2>3
  <2>5. \A i \in 1..Len(x) : x[i] = rest[i]
    BY <1>5, <2>3, <2>4
  <2> QED
    BY <2>3, <2>4, <2>5, SeqEqual DEF n
<1> QED
  BY <1>2, <1>3, <1>4, <1>5, <1>6 DEF n, x

\* A URL that a constructor built is read as it was meant.
LEMMA BuiltIs ==
  ASSUME NEW url, NEW m, Url!Built(url, m)
  PROVE  url \in Seq(Symbol) /\ Url!OneScheme(url) /\ Url!Read(url) = m
<1> DEFINE scheme == m.scheme
           host == m.host
           path == m.path
           q == m.query
           mark == "://"
<1>1. PICK segments \in {<<>>, <<path>>} :
        /\ segments = <<>> => path = <<>>
        /\ url = Url!Build(scheme, host, q, segments)
  BY DEF Url!Built
<1>2. /\ scheme \in Url!Schemes /\ m = [scheme |-> scheme, host |-> host, path |-> path, query |-> q]
      /\ Url!Dials(m) /\ Url!Sayable(path) /\ Url!Asks(q) /\ ~Url!Refuses(m)
  BY DEF Url!Built
<1>3. /\ host \in Seq(Symbol) /\ host # <<>> /\ Lacks(host, "?") /\ Lacks(host, "://")
      /\ scheme \in {"amqp", "amqps"} \/ Lacks(host, "/")
  <2>1. /\ host \in Seq(STRING) /\ host # <<>>
        /\ \A i \in DOMAIN host :
             host[i] \notin IF scheme \in {"amqp", "amqps"} THEN {"?", "://"} ELSE {"?", "://", "/"}
    BY <1>2 DEF Url!Dials, Url!Without
  <2> HIDE DEF host, scheme
  <2> QED
    BY <2>1, WordsAreSymbols DEF Lacks
<1>4. segments = <<>> => path = <<>> /\ scheme \notin {"mqtt", "mqtts", "amqp", "amqps"}
  BY <1>1, <1>2 DEF Url!Refuses
<1>5. /\ scheme \in Symbol /\ mark \in Symbol
      /\ scheme \notin {"Endpoint=", "http", "://", ","} /\ mark \notin {","}
  BY <1>2 DEF Symbol, Url!Schemes, Url!Separators
<1> DEFINE before == Address(host, segments)
           text == QueryText(q)
           rest == before \o text
<1> HIDE DEF scheme, host, path, q
<1>6. /\ before \in Seq(Symbol) /\ before # <<>> /\ Lacks(before, "?") /\ Lacks(before, "://")
      /\ Url!Parts(scheme, before) = Places(host, path)
  BY <1>1, <1>2, <1>3, <1>4, AddressIs, ZenonT(30)
<1> HIDE DEF before
<1>7. /\ text \in Seq(Symbol) /\ Lacks(text, "://")
  BY <1>2, <1>6, QueryTextIs
<1>8. PICK halves : /\ Url!Split(rest, "?") = halves /\ halves[1] = before
                    /\ Url!ReadQuery(Url!JoinWith(Tail(halves), "?")) = q
  BY <1>2, <1>6, QueryTextIs
<1>9. url = <<scheme, "://">> \o rest
  <2> DEFINE flat == Url!FlattenSeq([i \in DOMAIN segments |-> <<"/">> \o Url!Escape(segments[i])])
             open == <<scheme, "://">>
  <2>1. url = ((open \o host) \o flat) \o text
    BY <1>1, Zenon DEF Url!Build, QueryText
  <2>2. before = host \o flat
    BY Zenon DEF before, Address
  <2>3. open \in Seq(Symbol)
    <3>1. scheme \in Symbol /\ mark \in Symbol
      BY <1>5
    <3> HIDE DEF mark
    <3>2. <<scheme, mark>> \in Seq(Symbol)
      BY <3>1
    <3> QED
      BY <3>2 DEF mark
  <2>4. flat \in Seq(Symbol)
    <3> DEFINE Part(e) == <<"/">> \o e
               parts == [i \in DOMAIN segments |-> <<"/">> \o Url!Escape(segments[i])]
    <3>1. Url!Escape(path) \in Seq(Symbol)
      BY <1>2, EscapeIs DEF Escaped
    <3>2. <<"/">> \in Seq(Symbol)
      <4> DEFINE slash == "/"
      <4>1. slash \in Symbol
        BY MarksAreSymbols
      <4> HIDE DEF slash
      <4>2. <<slash>> \in Seq(Symbol)
        BY <4>1
      <4> QED
        BY <4>2 DEF slash
    <3>3. <<"/">> \o Url!Escape(path) \in Seq(Symbol)
      BY <3>1, <3>2, ConcatProperties
    <3>4. parts \in Seq(Seq(Symbol))
      <4>1. CASE segments = <<>>
        <5>1. parts = <<>>
          BY <4>1
        <5> HIDE DEF parts
        <5> QED
          BY <5>1
      <4>2. CASE segments = <<path>>
        <5>1. parts = << <<"/">> \o Url!Escape(path) >>
          BY <4>2
        <5> HIDE DEF parts
        <5> DEFINE y == <<"/">> \o Url!Escape(path)
        <5>2. y \in Seq(Symbol) /\ parts = <<y>>
          BY <3>3, <5>1
        <5> HIDE DEF y
        <5> QED
          BY <5>2
      <4> QED
        BY <4>1, <4>2
    <3> HIDE DEF parts
    <3>5. FlattenSeq(parts) \in Seq(Symbol)
      BY <3>4, FlatTyped
    <3> QED
      BY <3>5, SameFlat DEF parts
  <2> HIDE DEF open, flat, text
  <2>5. Groups(open, host, flat) /\ Groups(open, before, text)
    BY <1>3, <1>6, <1>7, <2>3, <2>4, Regroup, Zenon
  <2>6. (open \o host) \o flat = open \o before
    BY <2>2, <2>5, Zenon DEF Groups
  <2>7. (open \o before) \o text = open \o rest
    BY <2>5, Zenon DEF Groups
  <2> QED
    BY <2>1, <2>6, <2>7 DEF open
<1>10. rest \in Seq(Symbol) /\ Len(rest) \in Nat /\ Len(rest) # 0 /\ Lacks(rest, "://")
  <2>1. rest \in Seq(Symbol) /\ Len(rest) = Len(before) + Len(text)
    BY <1>6, <1>7, ConcatProperties
  <2>2. Len(before) \in Nat /\ Len(before) # 0 /\ Len(text) \in Nat
    BY <1>6, <1>7, LenProperties, EmptySeq
  <2>3. Lacks(rest, "://")
    BY <1>6, <1>7, LacksBoth
  <2> QED
    BY <2>1, <2>2, <2>3
<1> HIDE DEF rest, text
<1>11. /\ url \in Seq(Symbol) /\ Len(url) = Len(rest) + 2 /\ url[1] = scheme /\ url[2] = mark
       /\ \A i \in 1..Len(rest) : url[i + 2] = rest[i]
       /\ SubSeq(url, 3, Len(url)) = rest
  <2>1. url = <<scheme, mark>> \o rest
    BY <1>9
  <2>2. scheme \in Symbol /\ mark \in Symbol
    BY <1>5
  <2>3. rest \in Seq(Symbol)
    BY <1>10
  <2> HIDE DEF mark
  <2> QED
    BY <2>1, <2>2, <2>3, Opened
<1>12. DOMAIN url = 1..Len(rest) + 2 /\ DOMAIN rest = 1..Len(rest)
  BY <1>10, <1>11, LenProperties
<1>13. Url!OneScheme(url)
  <2>1. 2 \in DOMAIN url
    BY <1>10, <1>12
  <2>2. ASSUME NEW s \in DOMAIN url, url[s] = "://" PROVE s = 2
    <3> SUFFICES ASSUME s # 2 PROVE FALSE
      OBVIOUS
    <3>1. s # 1
      BY <1>5, <1>11, <2>2
    <3>2. s - 2 \in 1..Len(rest) /\ (s - 2) + 2 = s
      BY <1>10, <1>12, <3>1
    <3>3. rest[s - 2] = "://"
      BY <1>11, <2>2, <3>2
    <3> QED
      BY <1>10, <1>12, <3>2, <3>3 DEF Lacks
  <2>3. ASSUME NEW c \in DOMAIN url, url[c] = "," PROVE 2 < c
    <3>1. c # 1 /\ c # 2
      BY <1>5, <1>11, <2>3
    <3> QED
      BY <1>10, <1>12, <3>1
  <2> QED
    BY <1>11, <2>1, <2>2, <2>3 DEF Url!OneScheme
<1>14. Url!Read(url) = m
  <2> DEFINE Made(halves_, parts_) == [scheme |-> url[1], host |-> parts_.host, path |-> parts_.path,
                                       query |-> Url!ReadQuery(Url!JoinWith(Tail(halves_), "?"))]
             Answer(r) == IF Url!Refuses(r) THEN Url!Invalid ELSE r
  <2>1. url # <<>> /\ ~(Len(url) < 3)
    <3>1. Len(url) # 0 /\ ~(Len(url) < 3)
      BY <1>10, <1>11
    <3> QED
      BY <1>11, <3>1, EmptySeq
  <2>2. url[1] # "Endpoint=" /\ url[1] # "http" /\ url[2] = "://"
    BY <1>5, <1>11
  <2>3. Url!Read(url) =
          Answer(Made(Url!Split(SubSeq(url, 3, Len(url)), "?"),
                      Url!Parts(url[1], Url!Split(SubSeq(url, 3, Len(url)), "?")[1])))
    BY <2>1, <2>2, Zenon DEF Url!Read
  <2>4. Made(halves, Places(host, path)) = m
    BY <1>2, <1>8, <1>11 DEF Places
  <2> HIDE DEF Made, Answer
  <2>5. Url!Read(url) = Answer(m)
    BY <1>6, <1>8, <1>11, <2>3, <2>4
  <2> QED
    BY <1>2, <2>5 DEF Answer
<1> QED
  BY <1>11, <1>13, <1>14

\* One part more, with its name before it.
LEMMA Chained ==
  ASSUME NEW S, NEW sep \in S, NEW name \in S, NEW x \in Seq(S), NEW y \in Seq(S)
  PROVE  (x \o <<sep, name>>) \o y = x \o (<<sep>> \o (<<name>> \o y))
<1> DEFINE a == <<sep>>
           b == <<name>>
           ab == <<sep, name>>
<1>1. /\ a \in Seq(S) /\ b \in Seq(S) /\ ab \in Seq(S) /\ Len(a) = 1 /\ Len(b) = 1 /\ Len(ab) = 2
      /\ a[1] = sep /\ b[1] = name /\ ab[1] = sep /\ ab[2] = name
  OBVIOUS
<1> HIDE DEF a, b, ab
<1>2. a \in Seq(S) /\ b \in Seq(S)
  BY <1>1
<1>3. ab \in Seq(S)
  BY <1>1
<1>4. ab = a \o b
  <2>1. a \o b \in Seq(S) /\ Len(a \o b) = Len(a) + Len(b)
        /\ \A i \in 1..Len(a) + Len(b) : (a \o b)[i] = IF i <= Len(a) THEN a[i] ELSE b[i - Len(a)]
    BY <1>2, ConcatProperties
  <2> DEFINE c == a \o b
  <2> HIDE DEF c
  <2>2. c \in Seq(S) /\ Len(c) = 2 /\ \A i \in 1..2 : c[i] = IF i <= 1 THEN a[i] ELSE b[i - 1]
    BY <1>1, <2>1 DEF c
  <2>3. \A i \in 1..2 : c[i] = ab[i]
    BY <1>1, <2>2
  <2>4. c = ab
    BY <1>1, <2>2, <2>3, SeqEqual
  <2> QED
    BY <2>4 DEF c
<1>5. Groups(x, ab, y) /\ Groups(a, b, y)
  BY <1>2, <1>3, Regroup, Zenon
<1>6. (x \o ab) \o y = x \o (ab \o y) /\ (a \o b) \o y = a \o (b \o y)
  BY <1>5, Zenon DEF Groups
<1> QED
  BY <1>4, <1>6, Zenon DEF a, b, ab

\* The last of several parts.
LEMMA JoinNext ==
  ASSUME NEW S, NEW sep \in S, NEW n \in Nat, n # 0, NEW f, \A i \in 1..n + 1 : f[i] \in Seq(S)
  PROVE  /\ Url!JoinWith([i \in 1..n |-> f[i]], sep) \in Seq(S)
         /\ Url!JoinWith([i \in 1..n + 1 |-> f[i]], sep) =
              Url!JoinWith([i \in 1..n |-> f[i]], sep) \o (<<sep>> \o f[n + 1])
<1> DEFINE T == Seq(S)
           less == [i \in 1..n |-> f[i]]
           more == [i \in 1..n + 1 |-> f[i]]
           e == f[n + 1]
<1>1. less \in Seq(T) /\ more \in Seq(T) /\ Len(less) = n /\ Len(more) = n + 1 /\ e \in T
      /\ (\A i \in 1..n : less[i] = f[i]) /\ \A i \in 1..n + 1 : more[i] = f[i]
  <2>1. (\A i \in 1..n + 1 : f[i] \in T) /\ n + 1 \in 1..n + 1 /\ \A i \in 1..n : i \in 1..n + 1
    OBVIOUS
  <2> HIDE DEF T
  <2> QED
    BY <2>1
<1> HIDE DEF less, more
<1>2. Append(less, e) = more
  <2> DEFINE x == Append(less, e)
  <2> HIDE DEF T, e
  <2>1. x \in Seq(T) /\ Len(x) = n + 1 /\ x[n + 1] = e /\ \A i \in 1..n : x[i] = less[i]
    BY <1>1, AppendProperties
  <2> HIDE DEF x
  <2>2. \A i \in 1..n + 1 : x[i] = more[i]
    <3>1. \A i \in 1..n + 1 : i = n + 1 \/ i \in 1..n
      OBVIOUS
    <3>2. more[n + 1] = e /\ \A i \in 1..n : more[i] = f[i]
      BY <1>1 DEF e
    <3> QED
      BY <1>1, <2>1, <3>1, <3>2
  <2>3. x = more
    BY <1>1, <2>1, <2>2, SeqEqual
  <2> QED
    BY <2>3 DEF x
<1>3. less # <<>>
  <2>1. Len(less) # 0
    BY <1>1
  <2> QED
    BY <2>1, <1>1, EmptySeq
<1>4. Url!JoinWith(less, sep) \in Seq(S)
  BY <1>1, JoinTyped
<1>5. Url!JoinWith(Append(less, e), sep) = Url!JoinWith(less, sep) \o (<<sep>> \o e)
  <2> HIDE DEF e
  <2> QED
    BY <1>1, <1>3, JoinMore
<1> QED
  BY <1>2, <1>4, <1>5 DEF less, more

LEMMA HubIs ==
  ASSUME NEW url, NEW m, Url!BuiltHub(url, m)
  PROVE  url \in Seq(Symbol) /\ Url!OneScheme(url) /\ Url!Read(url) = m
<1> DEFINE p == m.parts
           names == Url!HubParts
           sep == ";"
           f == [i \in 1..4 |-> <<names[i]>> \o p[i]]
<1>1. /\ url \in Seq(STRING) /\ Url!OneScheme(url) /\ m = [scheme |-> "eventhub", parts |-> p]
      /\ p \in Seq(Seq(STRING)) /\ Len(p) = 4 /\ url = Url!EventHub(p[1], p[2], p[3], p[4])
      /\ \A i \in 1..4 : Url!Without(p[i], {sep})
  BY DEF Url!BuiltHub
<1>2. sep \in Symbol /\ \A i \in 1..4 : names[i] \in Symbol /\ names[i] # sep
  <2>1. \A i \in 1..4 : i = 1 \/ i = 2 \/ i = 3 \/ i = 4
    OBVIOUS
  <2> QED
    BY <2>1 DEF Url!HubParts, Symbol, HubMarks
<1>3. \A i \in 1..4 : p[i] \in Seq(Symbol) /\ Lacks(p[i], sep)
  BY <1>1, WordsAreSymbols DEF Url!Without, Lacks
<1> HIDE DEF p, names, sep
<1>4. \A i \in 1..4 : /\ f[i] = <<names[i]>> \o p[i] /\ f[i] \in Seq(Symbol) /\ Lacks(f[i], sep)
                      /\ f[i] # <<>> /\ f[i][1] = names[i] /\ Tail(f[i]) = p[i]
  <2> SUFFICES ASSUME NEW i \in 1..4
               PROVE  /\ f[i] = <<names[i]>> \o p[i] /\ f[i] \in Seq(Symbol) /\ Lacks(f[i], sep)
                      /\ f[i] # <<>> /\ f[i][1] = names[i] /\ Tail(f[i]) = p[i]
    OBVIOUS
  <2> DEFINE name == names[i]
             x == p[i]
             one == <<name>>
  <2>1. name \in Symbol /\ name # sep /\ x \in Seq(Symbol) /\ Lacks(x, sep)
    BY <1>2, <1>3
  <2>2. f[i] = one \o x
    OBVIOUS
  <2> HIDE DEF name, x
  <2>3. one \in Seq(Symbol) /\ Lacks(one, sep)
    BY <2>1 DEF Lacks
  <2>4. one \o x # <<>> /\ (one \o x)[1] = name /\ Tail(one \o x) = x
    BY <2>1, FirstOf
  <2> HIDE DEF one
  <2>5. one \o x \in Seq(Symbol) /\ Lacks(one \o x, sep)
    BY <2>1, <2>3, ConcatProperties, LacksBoth
  <2> QED
    BY <2>2, <2>4, <2>5 DEF one, name, x
<1> DEFINE To(n) == [i \in 1..n |-> f[i]]
           Joined(n) == Url!JoinWith(To(n), sep)
<1>5. Joined(1) = f[1]
  <2>1. To(1) = <<f[1]>> /\ f[1] \in Seq(Symbol)
    BY <1>4
  <2> HIDE DEF f
  <2> QED
    BY <1>2, <2>1, JoinOne
<1>6. \A n \in {1, 2, 3} : Joined(n) \in Seq(Symbol) /\ Joined(n + 1) = Joined(n) \o (<<sep>> \o f[n + 1])
  <2> HIDE DEF f
  <2> SUFFICES ASSUME NEW n \in {1, 2, 3}
               PROVE  Joined(n) \in Seq(Symbol) /\ Joined(n + 1) = Joined(n) \o (<<sep>> \o f[n + 1])
    OBVIOUS
  <2>1. n \in Nat /\ n # 0 /\ \A i \in 1..n + 1 : f[i] \in Seq(Symbol)
    <3>1. n \in Nat /\ n # 0 /\ \A i \in 1..n + 1 : i \in 1..4
      OBVIOUS
    <3> QED
      BY <1>4, <3>1
  <2> QED
    BY <1>2, <2>1, JoinNext
<1> HIDE DEF Joined
<1>7. url = Joined(4)
  <2> DEFINE G(j, n) == (j \o <<sep, names[n]>>) \o p[n]
  <2>1. url = G(G(G(<<names[1]>> \o p[1], 2), 3), 4)
    <3>1. names[1] = "Endpoint=" /\ names[2] = "SharedAccessKeyName=" /\ names[3] = "SharedAccessKey="
          /\ names[4] = "EntityPath="
      BY DEF names, Url!HubParts
    <3> QED
      BY <1>1, <3>1, Zenon DEF Url!EventHub, sep
  <2>2. \A n \in {1, 2, 3} : G(Joined(n), n + 1) = Joined(n + 1)
    <3> SUFFICES ASSUME NEW n \in {1, 2, 3} PROVE G(Joined(n), n + 1) = Joined(n + 1)
      OBVIOUS
    <3>1. n + 1 \in 1..4
      OBVIOUS
    <3>2. Joined(n) \in Seq(Symbol) /\ names[n + 1] \in Symbol /\ p[n + 1] \in Seq(Symbol)
      BY <1>2, <1>3, <1>6, <3>1
    <3>3. G(Joined(n), n + 1) = Joined(n) \o (<<sep>> \o (<<names[n + 1]>> \o p[n + 1]))
      <4> DEFINE name == names[n + 1]
                 y == p[n + 1]
                 j == Joined(n)
      <4>1. j \in Seq(Symbol) /\ name \in Symbol /\ y \in Seq(Symbol)
        BY <3>2
      <4> HIDE DEF name, y, j
      <4>2. (j \o <<sep, name>>) \o y = j \o (<<sep>> \o (<<name>> \o y))
        BY <1>2, <4>1, Chained, SMTT(30)
      <4> QED
        BY <4>2 DEF name, y, j
    <3>4. f[n + 1] = <<names[n + 1]>> \o p[n + 1]
      BY <1>4, <3>1
    <3> HIDE DEF f
    <3> QED
      BY <1>6, <3>3, <3>4
  <2>3. G(Joined(1), 2) = Joined(2) /\ G(Joined(2), 3) = Joined(3) /\ G(Joined(3), 4) = Joined(4)
    <3> HIDE DEF G
    <3>1. 1 + 1 = 2 /\ 2 + 1 = 3 /\ 3 + 1 = 4
      OBVIOUS
    <3> QED
      BY <2>2, <3>1
  <2>4. Joined(1) = <<names[1]>> \o p[1]
    BY <1>4, <1>5
  <2> HIDE DEF G
  <2> QED
    BY <2>1, <2>3, <2>4
<1>8. f \in Seq(Seq(Symbol)) /\ Len(f) = 4 /\ To(4) = f
  <2> DEFINE T == Seq(Symbol)
  <2>1. \A i \in 1..4 : f[i] \in T
    BY <1>4
  <2>2. DOMAIN f = 1..4 /\ f = [i \in 1..4 |-> f[i]]
    OBVIOUS
  <2> HIDE DEF f, T
  <2>3. f \in [1..4 -> T]
    BY <2>1, <2>2
  <2> QED
    BY <2>2, <2>3 DEF T
<1> HIDE DEF f
<1>9. Url!Split(url, sep) = f
  <2>1. Free(f, sep) /\ f # <<>>
    <3>1. DOMAIN f = 1..4
      BY <1>8, LenProperties
    <3>2. Len(f) # 0
      BY <1>8
    <3> QED
      BY <1>4, <1>8, <3>1, <3>2, EmptySeq DEF Free
  <2>2. url = Url!JoinWith(f, sep)
    BY <1>7, <1>8 DEF Joined
  <2> QED
    BY <1>2, <1>8, <2>1, <2>2, SplitJoin
<1>10. Url!ReadHub(url) = m
  <2> DEFINE Made(s) == IF Len(s) = 4 /\ \A i \in 1..4 : s[i] # <<>> /\ s[i][1] = Url!HubParts[i]
                        THEN [scheme |-> "eventhub", parts |-> [i \in 1..4 |-> Tail(s[i])]] ELSE Url!Invalid
  <2>1. Url!ReadHub(url) = Made(Url!Split(url, sep))
    BY Zenon DEF Url!ReadHub, sep
  <2>2. p = [i \in 1..4 |-> p[i]]
    BY <1>1, LenProperties
  <2>3. [i \in 1..4 |-> Tail(f[i])] = p
    BY <1>4, <2>2
  <2>4. Made(f) = m
    BY <1>1, <1>4, <1>8, <2>3 DEF names
  <2> HIDE DEF Made
  <2> QED
    BY <1>9, <2>1, <2>4
<1>11. url # <<>> /\ url[1] = "Endpoint="
  <2>1. Url!Split(<<>>, sep) # f
    <3> DEFINE none == <<>>
    <3>1. none \in Seq(Symbol) /\ <<none>> \in Seq(Seq(Symbol)) /\ Free(<<none>>, sep)
      BY DEF Free, Lacks
    <3>2. <<none>> # <<>> /\ Len(<<none>>) = 1
      OBVIOUS
    <3>3. Url!JoinWith(<<none>>, sep) = none
      BY <1>2, <3>1, JoinOne
    <3> DEFINE one == <<none>>
    <3> HIDE DEF none, one
    <3>4. Url!Split(none, sep) = one
      BY <1>2, <3>1, <3>2, <3>3, SplitJoin DEF one
    <3>5. Len(one) = 1
      BY <3>2 DEF one
    <3>6. one # f
      <4>1. Len(f) = 4 /\ 4 # 1
        BY <1>8
      <4> QED
        BY <3>5, <4>1
    <3> QED
      BY <3>4, <3>6 DEF none
  <2>2. url # <<>>
    BY <1>9, <2>1
  <2> DEFINE a == <<names[1]>> \o p[1]
  <2>3. url[1] = names[1]
    <3> DEFINE Starts(j) == j \in Seq(Symbol) /\ Len(j) # 0 /\ j[1] = names[1]
    <3>1. Starts(f[1])
      BY <1>4, EmptySeq
    <3>2. ASSUME NEW n \in {1, 2, 3}, Starts(Joined(n)) PROVE Starts(Joined(n + 1))
      <4> DEFINE j == Joined(n)
                 e == <<sep>> \o f[n + 1]
      <4>1. n + 1 \in 1..4 /\ <<sep>> \in Seq(Symbol)
        BY <1>2
      <4>2. e \in Seq(Symbol) /\ j \in Seq(Symbol) /\ Joined(n + 1) = j \o e /\ Len(j) # 0 /\ j[1] = names[1]
        BY <1>4, <1>6, <3>2, <4>1, ConcatProperties
      <4> HIDE DEF j, e
      <4>3. j \o e \in Seq(Symbol) /\ Len(j \o e) = Len(j) + Len(e) /\ Len(j) \in Nat /\ Len(e) \in Nat
            /\ \A i \in 1..Len(j) + Len(e) : (j \o e)[i] = IF i <= Len(j) THEN j[i] ELSE e[i - Len(j)]
        BY <4>2, ConcatProperties, LenProperties
      <4>4. 1 \in 1..Len(j) + Len(e) /\ 1 <= Len(j)
        BY <4>2, <4>3
      <4> QED
        <5> DEFINE w == j \o e
        <5>1. w \in Seq(Symbol) /\ Len(w) # 0 /\ w[1] = j[1]
          <6>1. w[1] = IF 1 <= Len(j) THEN j[1] ELSE e[1 - Len(j)]
            BY <4>3, <4>4
          <6>2. Len(j) + Len(e) # 0
            BY <4>2, <4>3
          <6> QED
            BY <4>3, <4>4, <6>1, <6>2
        <5> HIDE DEF w
        <5>2. Joined(n + 1) = w
          BY <4>2 DEF w
        <5> QED
          BY <4>2, <5>1, <5>2
    <3>3. Starts(Joined(1)) /\ (Starts(Joined(1)) => Starts(Joined(2))) /\ (Starts(Joined(2)) => Starts(Joined(3)))
          /\ (Starts(Joined(3)) => Starts(Joined(4)))
      <4> HIDE DEF Starts
      <4>1. 1 + 1 = 2 /\ 2 + 1 = 3 /\ 3 + 1 = 4
        OBVIOUS
      <4> QED
        BY <1>5, <3>1, <3>2, <4>1
    <3> QED
      BY <1>7, <3>3
  <2> QED
    BY <2>2, <2>3 DEF names, Url!HubParts
<1> QED
  BY <1>1, <1>10, <1>11, WordsAreSymbols DEF Url!Read

LEMMA WholeIs ==
  ASSUME NEW url, NEW m, Url!GivenWhole(url, m)
  PROVE  url \in Seq(Symbol) /\ Url!OneScheme(url) /\ Url!Read(url) = m
<1>1. /\ url \in Seq(STRING) /\ Url!OneScheme(url) /\ Len(url) >= 3 /\ url[1] = "http" /\ url[2] = "://"
      /\ m = [scheme |-> "http", url |-> url]
  BY DEF Url!GivenWhole
<1>2. url # <<>> /\ ~(Len(url) < 3) /\ url[1] # "Endpoint="
  <2>1. Len(url) \in Nat /\ Len(<<>>) = 0
    BY <1>1, LenProperties
  <2> QED
    BY <1>1, <2>1
<1> QED
  BY <1>1, <1>2, WordsAreSymbols DEF Url!Read

\* Whatever text a path and the value of an option are, what a constructor builds of
\* them names its scheme once, before any comma, and Tile38 reads it as it was meant
\* (endpoint.go, build and the constructors).
THEOREM AddressedIs ==
  ASSUME NEW target, Url!Addresses(target)
  PROVE  target.url \in Seq(Symbol) /\ Url!OneScheme(target.url) /\ Url!Read(target.url) = target.meant
BY BuiltIs, HubIs, WholeIs DEF Url!Addresses

-----------------------------------------------------------------------------
(* What the constructors build.                                            *)

\* What a program gives a constructor: a host, a text that may be any, and options, of
\* which the one that Tile38 reads as a number is made by MQTTRetained.
Hostly(host) == host # <<>> /\ Url!Without(host, {"?", "://", "/"})
Text(text) == text # <<>> /\ Url!Sayable(text)
Given(opts) ==
  /\ opts \in Seq(STRING \X Seq(STRING))
  /\ \A i \in DOMAIN opts : /\ opts[i][1] \notin Url!Separators /\ Url!Sayable(opts[i][2])
                            /\ opts[i][1] = "retained" => opts[i] = Url!Retained
To(url, scheme, host, path, query) ==
  [url |-> url, meant |-> [scheme |-> scheme, host |-> host, path |-> path, query |-> query]]
Retains(q) == "retained" \in DOMAIN q => q["retained"] = <<"1">>

\* A set of numbers that is not empty, of n or fewer, has a greatest one.
LEMMA LatestOf ==
  ASSUME NEW n \in Nat, NEW T \in SUBSET (1..n), T # {}
  PROVE  \E i \in T : \A j \in T : j <= i
<1> DEFINE U == {n - i : i \in T}
<1>1. \A i \in T : i \in Nat /\ n - i \in Nat
  OBVIOUS
<1>2. U \in SUBSET Nat /\ U # {}
  BY <1>1
<1>3. PICK u \in U : \A v \in U : u <= v
  BY <1>2, LeastOf
<1>4. PICK i \in T : u = n - i
  BY <1>3
<1>5. \A j \in T : n - i <= n - j
  BY <1>3, <1>4
<1>6. \A j \in T : j <= i
  BY <1>1, <1>5
<1> QED
  BY <1>6

\* Options make a query: of each name the text given last.
LEMMA ValuesAsk ==
  ASSUME NEW opts, Given(opts)
  PROVE  Url!Asks(Url!Values(opts)) /\ Retains(Url!Values(opts))
<1> DEFINE At(x) == CHOOSE i \in DOMAIN opts :
                        opts[i][1] = x /\ \A j \in DOMAIN opts : opts[j][1] = x => j <= i
           n == Len(opts)
           names == {opts[i][1] : i \in DOMAIN opts}
           q == Url!Values(opts)
<1>1. opts \in Seq(STRING \X Seq(STRING)) /\ n \in Nat /\ DOMAIN opts = 1..n
  BY LenProperties DEF Given
<1>2. \A i \in 1..n : /\ opts[i][1] \in STRING \ Url!Separators /\ Url!Sayable(opts[i][2])
                      /\ opts[i][2] \in Seq(STRING)
                      /\ opts[i][1] = "retained" => opts[i][2] = <<"1">>
  <2>1. \A i \in 1..n : opts[i] \in STRING \X Seq(STRING)
    BY <1>1, ElementOfSeq
  <2>2. Url!Retained[2] = <<"1">>
    BY DEF Url!Retained
  <2> QED
    BY <1>1, <2>1, <2>2 DEF Given
<1>3. q = [x \in names |-> opts[At(x)][2]]
  BY Zenon DEF Url!Values
<1> HIDE DEF q, n
<1>4. ASSUME NEW x \in names PROVE At(x) \in 1..n /\ opts[At(x)][1] = x
  <2> DEFINE T == {i \in 1..n : opts[i][1] = x}
  <2>1. T \in SUBSET (1..n) /\ T # {}
    BY <1>1
  <2>2. PICK i \in T : \A j \in T : j <= i
    BY <1>1, <2>1, LatestOf
  <2>3. i \in DOMAIN opts /\ opts[i][1] = x /\ \A j \in DOMAIN opts : opts[j][1] = x => j <= i
    BY <1>1, <2>2
  <2> QED
    BY <1>1, <2>3
<1> HIDE DEF At
<1>5. IsFiniteSet(names)
  <2> DEFINE f == [i \in 1..n |-> opts[i][1]]
  <2>1. f \in Surjection(1..n, names)
    BY <1>1 DEF Surjection
  <2>2. IsFiniteSet(1..n)
    BY <1>1, FS_Interval
  <2> QED
    BY <2>1, <2>2, FS_Surjection
<1>6. \A x \in names : x \in STRING \ Url!Separators
  BY <1>1, <1>2
<1> HIDE DEF names
<1>7. DOMAIN q = names /\ \A x \in names : q[x] \in Seq(STRING) /\ Url!Sayable(q[x])
  BY <1>2, <1>3, <1>4
<1>8. q \in [DOMAIN q -> Seq(STRING)]
  BY <1>3, <1>7
<1>9. Url!Asks(q)
  BY <1>5, <1>6, <1>7, <1>8, SameFinite DEF Url!Asks
<1>10. Retains(q)
  BY <1>2, <1>3, <1>4, <1>7 DEF Retains
<1> QED
  BY <1>9, <1>10 DEF q

\* A host that two parts with a colon make.
LEMMA TwoParts ==
  ASSUME NEW a \in Seq(STRING), NEW b \in Seq(STRING), Lacks(a, ":"), Lacks(b, ":")
  PROVE  Len(Url!Split(a \o (<<":">> \o b), ":")) = 2
<1> DEFINE colon == ":"
           parts == <<a, b>>
<1>1. colon \in STRING
  BY LiteralsAssumption
<1>2. parts \in Seq(Seq(STRING)) /\ parts # <<>> /\ Len(parts) = 2
  <2> DEFINE T == Seq(STRING)
  <2>1. a \in T /\ b \in T
    OBVIOUS
  <2> HIDE DEF T
  <2>2. parts \in Seq(T) /\ parts # <<>> /\ Len(parts) = 2
    BY <2>1
  <2> QED
    BY <2>2 DEF T
<1>3. Free(parts, colon)
  <2>1. Lacks(a, colon) /\ Lacks(b, colon)
    OBVIOUS
  <2> HIDE DEF colon
  <2> QED
    BY <2>1 DEF Free
<1> HIDE DEF colon
<1>4. Url!JoinWith(parts, colon) = a \o (<<colon>> \o b)
  BY <1>1, JoinTwo
<1> HIDE DEF parts
<1>5. Url!Split(Url!JoinWith(parts, colon), colon) = parts
  BY <1>1, <1>2, <1>3, SplitJoin
<1> QED
  BY <1>2, <1>4, <1>5 DEF colon

\* What Build makes of the parts is an address of them.
LEMMA BuildAddresses ==
  ASSUME NEW scheme \in Url!Schemes, NEW host, NEW path, NEW q, NEW segments \in {<<>>, <<path>>},
         segments = <<>> => path = <<>>,
         Url!Dials([scheme |-> scheme, host |-> host, path |-> path, query |-> q]),
         Url!Sayable(path), Url!Asks(q),
         ~Url!Refuses([scheme |-> scheme, host |-> host, path |-> path, query |-> q])
  PROVE  Url!Addresses(To(Url!Build(scheme, host, q, segments), scheme, host, path, q))
<1> DEFINE m == [scheme |-> scheme, host |-> host, path |-> path, query |-> q]
           url == Url!Build(scheme, host, q, segments)
<1>1. m.scheme = scheme /\ m.host = host /\ m.path = path /\ m.query = q
      /\ m = [scheme |-> m.scheme, host |-> m.host, path |-> m.path, query |-> m.query]
  OBVIOUS
<1>2. Url!Dials(m) /\ ~Url!Refuses(m)
  OBVIOUS
<1>3. \E s \in {<<>>, <<m.path>>} :
        (s = <<>> => m.path = <<>>) /\ url = Url!Build(m.scheme, m.host, m.query, s)
  <2>1. segments \in {<<>>, <<m.path>>} /\ (segments = <<>> => m.path = <<>>)
    BY <1>1
  <2>2. url = Url!Build(m.scheme, m.host, m.query, segments)
    BY <1>1
  <2> HIDE DEF m, url
  <2> QED
    BY <2>1, <2>2
<1>4. To(url, scheme, host, path, q).url = url /\ To(url, scheme, host, path, q).meant = m
  BY DEF To
<1> HIDE DEF m, url
<1>5. Url!Built(url, m)
  BY <1>1, <1>2, <1>3 DEF Url!Built
<1> QED
  BY <1>4, <1>5 DEF Url!Addresses, url

\* None of the documented failures is met.
LEMMA NotRefused ==
  ASSUME NEW scheme \in Url!Schemes, NEW host, NEW path, NEW q, Retains(q),
         scheme \in {"nats", "sqs", "pubsub"} => Len(Url!Split(host, ":")) = 2,
         path # <<>> \/ scheme \in {"local", "grpc", "pubsub"},
         scheme = "cf-queue" => "token" \in DOMAIN q
  PROVE  ~Url!Refuses([scheme |-> scheme, host |-> host, path |-> path, query |-> q])
<1> DEFINE m == [scheme |-> scheme, host |-> host, path |-> path, query |-> q]
<1>1. m.scheme = scheme /\ m.host = host /\ m.path = path /\ m.query = q
  OBVIOUS
<1> HIDE DEF m
<1> SUFFICES ~Url!Refuses(m)
  BY DEF m
<1>2. ~("retained" \in DOMAIN m.query /\ m.query["retained"] \notin {<<"0">>, <<"1">>})
  BY <1>1 DEF Retains
<1>3. ~(m.scheme \in {"nats", "sqs", "pubsub"} /\ Len(Url!Split(m.host, ":")) # 2)
  BY <1>1
<1>4. ~(m.scheme \in {"disque", "kafka", "amqp", "amqps", "mqtt", "mqtts", "cf-queue"} /\ m.path = <<>>)
  BY <1>1
<1>5. ~(m.scheme = "cf-queue" /\ "token" \notin DOMAIN m.query)
  BY <1>1
<1> QED
  BY <1>2, <1>3, <1>4, <1>5, Zenon DEF Url!Refuses

\* Of a host that is one.
LEMMA OneHost ==
  ASSUME NEW scheme \in Url!Schemes \ {"nats", "sqs", "pubsub", "cf-queue"}, NEW host, Hostly(host),
         NEW path, NEW q, Url!Asks(q), Retains(q), NEW segments \in {<<>>, <<path>>},
         IF segments = <<>> THEN path = <<>> /\ scheme \in {"local", "grpc"} ELSE Text(path)
  PROVE  Url!Addresses(To(Url!Build(scheme, host, q, segments), scheme, host, path, q))
<1> DEFINE m == [scheme |-> scheme, host |-> host, path |-> path, query |-> q]
<1>1. Url!Dials(m)
  <2>1. m.host = host /\ m.scheme = scheme
    OBVIOUS
  <2> HIDE DEF m
  <2> QED
    BY <2>1 DEF Url!Dials, Url!Without, Hostly
<1>2. Url!Sayable(path)
  <2>1. Url!Sayable(<<>>)
    BY DEF Url!Sayable, Url!Without
  <2> QED
    BY <2>1 DEF Text
<1>3. ~Url!Refuses(m)
  BY NotRefused DEF Text
<1> HIDE DEF m
<1> QED
  BY <1>1, <1>2, <1>3, BuildAddresses DEF m

\* No option makes no query.
LEMMA NoQuery == Url!Asks(Url!NoValues) /\ Retains(Url!NoValues)
<1> DEFINE q == Url!NoValues
<1>1. DOMAIN q = {} /\ q \in [{} -> Seq(STRING)]
  BY DEF Url!NoValues
<1> HIDE DEF q
<1>2. IsFiniteSet(DOMAIN q)
  BY <1>1, FS_EmptySet
<1>3. Url!Asks(q)
  BY <1>1, <1>2, SameFinite DEF Url!Asks
<1> QED
  BY <1>1, <1>3 DEF Retains, q

\* Of a host, a path and a number of options.
LEMMA HostAddresses ==
  ASSUME NEW host, Hostly(host), NEW text, Text(text), NEW opts, Given(opts)
  PROVE  /\ Url!Addresses(To(Url!Local(host), "local", host, <<>>, Url!NoValues))
         /\ Url!Addresses(To(Url!GRPC(host), "grpc", host, <<>>, Url!NoValues))
         /\ Url!Addresses(To(Url!Redis(host, text), "redis", host, text, Url!NoValues))
         /\ Url!Addresses(To(Url!Disque(host, text, opts), "disque", host, text, Url!Values(opts)))
         /\ Url!Addresses(To(Url!MQTT(host, text, opts), "mqtt", host, text, Url!Values(opts)))
         /\ Url!Addresses(To(Url!MQTTS(host, text, opts), "mqtts", host, text, Url!Values(opts)))
<1> DEFINE Of(scheme, q) == Url!Addresses(To(Url!Build(scheme, host, q, <<text>>), scheme, host, text, q))
           At(scheme) == Url!Addresses(To(Url!Build(scheme, host, Url!NoValues, <<>>), scheme, host, <<>>, Url!NoValues))
<1>1. ASSUME NEW scheme \in {"redis", "disque", "mqtt", "mqtts"}, NEW q, Url!Asks(q), Retains(q) PROVE Of(scheme, q)
  <2>1. scheme \in Url!Schemes \ {"nats", "sqs", "pubsub", "cf-queue"}
    BY DEF Url!Schemes
  <2>2. <<text>> \in {<<>>, <<text>>} /\ <<text>> # <<>>
    OBVIOUS
  <2> QED
    BY <1>1, <2>1, <2>2, OneHost
<1>2. ASSUME NEW scheme \in {"local", "grpc"} PROVE At(scheme)
  <2>1. scheme \in Url!Schemes \ {"nats", "sqs", "pubsub", "cf-queue"}
    BY DEF Url!Schemes
  <2>2. <<>> \in {<<>>, << <<>> >>}
    OBVIOUS
  <2> QED
    BY <2>1, <2>2, NoQuery, OneHost
<1> HIDE DEF Of, At
<1>3. At("local") /\ At("grpc")
  BY <1>2
<1>4. Of("redis", Url!NoValues)
  BY <1>1, NoQuery
<1>5. Of("disque", Url!Values(opts)) /\ Of("mqtt", Url!Values(opts)) /\ Of("mqtts", Url!Values(opts))
  BY <1>1, ValuesAsk
<1> QED
  BY <1>3, <1>4, <1>5, Zenon DEF Of, At, Url!Local, Url!GRPC, Url!Redis, Url!Disque, Url!MQTT, Url!MQTTS

\* Of a broker with what it needs in front of the queue, a vhost among it.
LEMMA BrokerAddresses ==
  ASSUME NEW host, host # <<>>, Url!Without(host, {"?", "://"}), NEW text, Text(text), NEW opts, Given(opts)
  PROVE  /\ Url!Addresses(To(Url!AMQP(host, text, opts), "amqp", host, text, Url!Values(opts)))
         /\ Url!Addresses(To(Url!AMQPS(host, text, opts), "amqps", host, text, Url!Values(opts)))
<1> DEFINE q == Url!Values(opts)
           Of(scheme) == Url!Addresses(To(Url!Build(scheme, host, q, <<text>>), scheme, host, text, q))
<1>1. Url!Asks(q) /\ Retains(q)
  BY ValuesAsk
<1> HIDE DEF q
<1>2. ASSUME NEW scheme \in {"amqp", "amqps"} PROVE Of(scheme)
  <2> DEFINE m == [scheme |-> scheme, host |-> host, path |-> text, query |-> q]
  <2>1. m.host = host /\ m.scheme = scheme
    OBVIOUS
  <2>2. Url!Dials(m)
    <3> HIDE DEF m
    <3> QED
      BY <2>1 DEF Url!Dials
  <2>3. scheme \in Url!Schemes /\ scheme \notin {"nats", "sqs", "pubsub", "cf-queue"}
    BY DEF Url!Schemes
  <2>4. <<text>> \in {<<>>, <<text>>} /\ <<text>> # <<>>
    OBVIOUS
  <2>5. text # <<>> /\ Url!Sayable(text)
    BY DEF Text
  <2>6. ~Url!Refuses(m)
    BY <1>1, <2>3, <2>5, NotRefused
  <2> HIDE DEF m
  <2> QED
    BY <1>1, <2>2, <2>3, <2>4, <2>5, <2>6, BuildAddresses DEF m
<1> HIDE DEF Of
<1>3. Of("amqp") /\ Of("amqps")
  BY <1>2
<1> QED
  BY <1>3, Zenon DEF Of, q, Url!AMQP, Url!AMQPS

\* Hosts with commas between them are a host.
LEMMA HostsJoined ==
  ASSUME NEW brokers \in Seq(Seq(STRING)), brokers # <<>>, \A i \in DOMAIN brokers : Hostly(brokers[i])
  PROVE  Hostly(Url!JoinWith(brokers, ","))
<1> DEFINE comma == ","
           host == Url!JoinWith(brokers, comma)
           n == Len(brokers)
<1>1. comma \in STRING /\ comma \notin {"?", "://", "/"}
  BY LiteralsAssumption
<1>2. n \in Nat /\ n # 0 /\ DOMAIN brokers = 1..n
  BY LenProperties, EmptySeq
<1> HIDE DEF comma, n
<1>3. host \in Seq(STRING)
  BY <1>1, JoinTyped
<1>4. ASSUME NEW x \in {"?", "://", "/"} PROVE Lacks(host, x)
  <2>1. Free(brokers, x)
    BY DEF Free, Lacks, Hostly, Url!Without
  <2> QED
    BY <1>1, <2>1, JoinLacks
<1>5. Url!Without(host, {"?", "://", "/"})
  BY <1>3, <1>4 DEF Url!Without, Lacks
<1>6. host # <<>>
  <2>1. PICK p : Laid(host, brokers, comma, p)
    BY <1>1, JoinIsLaid
  <2>2. Grows(p, n)
    BY <2>1, LaidGrows DEF n
  <2>3. /\ p \in [0..n -> Nat] /\ p[0] = 0 /\ p[n] = Len(host) + 1
        /\ \A k \in 1..n : p[k] = p[k - 1] + 1 + Len(brokers[k])
    BY <2>1 DEF Laid, n
  <2>4. 1 \in 1..n /\ 1 \in 0..n /\ n \in 0..n /\ 1 - 1 = 0 /\ (n = 1 \/ 1 < n)
    BY <1>2
  <2>5. p[1] <= p[n] /\ p[1] \in Nat /\ p[n] \in Nat
    <3>1. p[1] \in Nat /\ p[n] \in Nat
      BY <2>3, <2>4
    <3>2. 1 < n => p[1] < p[n]
      BY <2>2, <2>4 DEF Grows
    <3> QED
      BY <2>4, <3>1, <3>2
  <2>6. Len(brokers[1]) \in Nat \ {0}
    <3>1. brokers[1] \in Seq(STRING) /\ brokers[1] # <<>>
      BY <1>2, <2>4, ElementOfSeq DEF Hostly, n
    <3> QED
      BY <3>1, LenProperties, EmptySeq
  <2>7. p[1] = 1 + Len(brokers[1])
    BY <2>3, <2>4, <2>6
  <2>8. Len(host) # 0
    <3>1. Len(host) \in Nat
      BY <1>3, LenProperties
    <3> QED
      BY <2>3, <2>5, <2>6, <2>7, <3>1
  <2> HIDE DEF host
  <2> QED
    BY <2>8, <1>3, EmptySeq
<1> QED
  BY <1>5, <1>6 DEF Hostly, comma

\* Of brokers, which are one host to Tile38.
LEMMA BrokersAddress ==
  ASSUME NEW brokers \in Seq(Seq(STRING)), brokers # <<>>, \A i \in DOMAIN brokers : Hostly(brokers[i]),
         NEW text, Text(text), NEW opts, Given(opts)
  PROVE  Url!Addresses(To(Url!Kafka(brokers, text, opts), "kafka", Url!JoinWith(brokers, ","), text,
                          Url!Values(opts)))
<1> DEFINE host == Url!JoinWith(brokers, ",")
           q == Url!Values(opts)
           kafka == "kafka"
<1>1. Hostly(host) /\ Url!Asks(q) /\ Retains(q)
  BY HostsJoined, ValuesAsk
<1>2. kafka \in Url!Schemes \ {"nats", "sqs", "pubsub", "cf-queue"}
  BY DEF Url!Schemes
<1>3. <<text>> \in {<<>>, <<text>>} /\ <<text>> # <<>>
  OBVIOUS
<1> HIDE DEF host, q, kafka
<1>4. Url!Addresses(To(Url!Build(kafka, host, q, <<text>>), kafka, host, text, q))
  BY <1>1, <1>2, <1>3, OneHost
<1> QED
  BY <1>4, Zenon DEF host, q, kafka, Url!Kafka

\* What is without a colon or what else ends a host.
Part(text) == text # <<>> /\ Url!Without(text, {"?", "://", "/", ":"})

\* Two parts are a host, and come apart at the colon.
LEMMA PartsMake ==
  ASSUME NEW a, Part(a), NEW b, Part(b)
  PROVE  LET host == a \o (<<":">> \o b) IN Hostly(host) /\ Len(Url!Split(host, ":")) = 2
<1> DEFINE colon == ":"
           tail == <<colon>> \o b
           host == a \o tail
<1>1. colon \in STRING /\ colon \notin {"?", "://", "/"}
  BY LiteralsAssumption
<1>2. a \in Seq(STRING) /\ b \in Seq(STRING) /\ a # <<>>
      /\ \A x \in {"?", "://", "/", colon} : Lacks(a, x) /\ Lacks(b, x)
  BY DEF Part, Url!Without, Lacks
<1>3. Len(Url!Split(host, colon)) = 2
  BY <1>2, TwoParts
<1> HIDE DEF colon
<1>4. <<colon>> \in Seq(STRING) /\ \A x \in {"?", "://", "/"} : Lacks(<<colon>>, x)
  <2>1. <<colon>> \in Seq(STRING) /\ \A i \in DOMAIN <<colon>> : <<colon>>[i] = colon
    BY <1>1
  <2> QED
    BY <1>1, <2>1 DEF Lacks
<1>5. tail \in Seq(STRING) /\ \A x \in {"?", "://", "/"} : Lacks(tail, x)
  BY <1>2, <1>4, LacksBoth, ConcatProperties
<1> HIDE DEF tail
<1>6. host \in Seq(STRING) /\ \A x \in {"?", "://", "/"} : Lacks(host, x)
  BY <1>2, <1>5, LacksBoth, ConcatProperties
<1>7. host # <<>>
  <2>1. Len(a) # 0 /\ Len(a) \in Nat /\ Len(tail) \in Nat /\ Len(host) = Len(a) + Len(tail)
    BY <1>2, <1>5, LenProperties, EmptySeq, ConcatProperties
  <2>2. Len(host) # 0
    BY <2>1
  <2> HIDE DEF host
  <2> QED
    BY <1>6, <2>2, EmptySeq
<1> HIDE DEF host
<1>8. Hostly(host)
  BY <1>6, <1>7 DEF Hostly, Url!Without, Lacks
<1> QED
  BY <1>3, <1>8 DEF host, tail, colon

\* Texts of one and of two words.
LEMMA OneWord ==
  ASSUME NEW S, NEW x \in S
  PROVE  /\ <<x>> \in Seq(S) /\ <<x>> # <<>> /\ Len(<<x>>) = 1 /\ DOMAIN <<x>> = 1..1 /\ <<x>>[1] = x
         /\ \A i \in DOMAIN <<x>> : <<x>>[i] = x
<1>1. \A i \in 1..1 : i = 1
  OBVIOUS
<1>2. <<x>> \in Seq(S) /\ <<x>> # <<>> /\ Len(<<x>>) = 1 /\ <<x>>[1] = x
  OBVIOUS
<1>3. DOMAIN <<x>> = 1..1
  OBVIOUS
<1> QED
  BY <1>1, <1>2, <1>3

LEMMA TwoWords ==
  ASSUME NEW S, NEW x \in S, NEW y \in S
  PROVE  <<x>> \o <<y>> = <<x, y>>
<1> DEFINE one == <<x>>
           other == <<y>>
           both == <<x, y>>
           joined == one \o other
<1>1. one \in Seq(S) /\ Len(one) = 1 /\ one[1] = x /\ other \in Seq(S) /\ Len(other) = 1 /\ other[1] = y
  BY OneWord
<1>2. both \in Seq(S) /\ Len(both) = 2 /\ both[1] = x /\ both[2] = y
  OBVIOUS
<1>3. 1 + 1 = 2 /\ 1 \in 1..2 /\ 2 \in 1..2 /\ 1 <= 1 /\ ~(2 <= 1) /\ 2 - 1 = 1 /\ \A i \in 1..2 : i = 1 \/ i = 2
  OBVIOUS
<1> HIDE DEF one, other, both
<1>4. joined \in Seq(S) /\ Len(joined) = Len(one) + Len(other)
      /\ \A i \in 1..Len(one) + Len(other) : joined[i] = IF i <= Len(one) THEN one[i] ELSE other[i - Len(one)]
  BY <1>1, ConcatProperties
<1>5. Len(joined) = 2 /\ joined[1] = x /\ joined[2] = y
  BY <1>1, <1>3, <1>4
<1>6. Len(joined) = Len(both) /\ \A i \in 1..Len(joined) : joined[i] = both[i]
  BY <1>2, <1>3, <1>5
<1> HIDE DEF joined
<1>7. joined = both
  BY <1>2, <1>4, <1>6, SeqEqual
<1> QED
  BY <1>7 DEF joined, one, other, both

\* Of what Tile38 takes for two parts with a colon between them.
LEMMA PartsAddress ==
  ASSUME NEW a, Part(a), NEW b, Part(b), NEW text, Text(text), NEW opts, Given(opts)
  PROVE  LET both == a \o (<<":">> \o b)
             q == Url!Values(opts) IN
         /\ Url!Addresses(To(Url!NATS(both, text, opts), "nats", both, text, q))
         /\ Url!Addresses(To(Url!NATS(a, text, opts), "nats", a \o <<":", "4222">>, text, q))
         /\ Url!Addresses(To(Url!SQS(a, b, text, opts), "sqs", both, text, q))
         /\ Url!Addresses(To(Url!PubSub(a, b, opts), "pubsub", both, <<>>, q))
<1> DEFINE both == a \o (<<":">> \o b)
           port == <<"4222">>
           named == a \o (<<":">> \o port)
           q == Url!Values(opts)
           Two(host) == Hostly(host) /\ Len(Url!Split(host, ":")) = 2
           Of(scheme, host, path, segments) ==
             Url!Addresses(To(Url!Build(scheme, host, q, segments), scheme, host, path, q))
<1>1. Url!Asks(q) /\ Retains(q)
  BY ValuesAsk
<1>2. Part(port)
  <2> DEFINE number == "4222"
  <2>1. number \in STRING /\ number \notin {"?", "://", "/", ":"}
    BY LiteralsAssumption
  <2>2. port = <<number>>
    OBVIOUS
  <2> HIDE DEF number, port
  <2>3. /\ port \in Seq(STRING) /\ port # <<>> /\ \A i \in DOMAIN port : port[i] = number
    BY ONLY <2>1, <2>2, OneWord
  <2> QED
    BY <2>1, <2>3 DEF Part, Url!Without
<1>3. Two(both) /\ Two(named)
  <2> HIDE DEF port
  <2> QED
    BY <1>2, PartsMake
<1>4. text # <<>> /\ Url!Sayable(text) /\ Url!Sayable(<<>>)
  BY DEF Text, Url!Sayable, Url!Without
<1> HIDE DEF q, Two
<1>5. ASSUME NEW scheme \in {"nats", "sqs", "pubsub"}, NEW host, Two(host), NEW path, NEW segments \in {<<>>, <<path>>},
             IF segments = <<>> THEN path = <<>> /\ scheme = "pubsub" ELSE path = text
      PROVE  Of(scheme, host, path, segments)
  <2> DEFINE m == [scheme |-> scheme, host |-> host, path |-> path, query |-> q]
  <2>1. m.host = host /\ m.scheme = scheme
    OBVIOUS
  <2>2. Url!Dials(m)
    <3> HIDE DEF m
    <3> QED
      BY <1>5, <2>1 DEF Url!Dials, Url!Without, Two, Hostly
  <2>3. scheme \in Url!Schemes /\ scheme # "cf-queue"
    BY DEF Url!Schemes
  <2>4. Url!Sayable(path) /\ (path # <<>> \/ scheme = "pubsub")
    BY <1>4, <1>5
  <2>5. ~Url!Refuses(m)
    BY <1>1, <1>5, <2>3, <2>4, NotRefused DEF Two
  <2> HIDE DEF m
  <2> QED
    BY <1>1, <1>5, <2>2, <2>3, <2>4, <2>5, BuildAddresses DEF m
<1>6. <<text>> \in {<<>>, <<text>>} /\ <<text>> # <<>>
  OBVIOUS
<1>7. <<>> \in {<<>>, << <<>> >>}
  OBVIOUS
<1> HIDE DEF Of, both, named, port
<1>8. Of("nats", both, text, <<text>>) /\ Of("nats", named, text, <<text>>) /\ Of("sqs", both, text, <<text>>)
  BY <1>3, <1>5, <1>6
<1>9. Of("pubsub", both, <<>>, <<>>)
  BY <1>3, <1>5, <1>7
<1>10. Url!Contains(both, ":") /\ ~Url!Contains(a, ":")
  <2> DEFINE colon == ":"
             tail == <<colon>> \o b
  <2>1. a \in Seq(STRING) /\ b \in Seq(STRING) /\ colon \in STRING /\ \A i \in DOMAIN a : a[i] # colon
    BY LiteralsAssumption DEF Part, Url!Without
  <2>2. both = a \o tail
    BY DEF both
  <2> HIDE DEF colon
  <2>3. tail \in Seq(STRING) /\ tail[1] = colon /\ Len(tail) = 1 + Len(b) /\ Len(b) \in Nat /\ Len(a) \in Nat
        /\ DOMAIN a = 1..Len(a)
    <3> DEFINE one == <<colon>>
    <3>1. one \in Seq(STRING) /\ Len(one) = 1 /\ one[1] = colon
      BY <2>1, OneWord
    <3>2. Len(b) \in Nat /\ Len(a) \in Nat /\ DOMAIN a = 1..Len(a)
      BY <2>1, LenProperties
    <3> HIDE DEF one
    <3>3. one \o b \in Seq(STRING) /\ Len(one \o b) = Len(one) + Len(b)
          /\ \A i \in 1..Len(one) + Len(b) : (one \o b)[i] = IF i <= Len(one) THEN one[i] ELSE b[i - Len(one)]
      BY <2>1, <3>1, ConcatProperties
    <3>4. 1 \in 1..Len(one) + Len(b) /\ 1 <= Len(one)
      BY <3>1, <3>2
    <3> QED
      BY <3>1, <3>2, <3>3, <3>4 DEF one
  <2> HIDE DEF tail
  <2>4. Len(both) = Len(a) + Len(tail) /\ \A i \in 1..Len(a) + Len(tail) : both[i] = IF i <= Len(a) THEN a[i] ELSE tail[i - Len(a)]
    BY <2>1, <2>2, <2>3, ConcatProperties
  <2>5. Len(a) + 1 \in 1..Len(a) + Len(tail) /\ ~(Len(a) + 1 <= Len(a)) /\ (Len(a) + 1) - Len(a) = 1
    BY <2>3
  <2>6. both[Len(a) + 1] = colon
    BY <2>3, <2>4, <2>5
  <2>7. Url!Contains(both, colon)
    BY <2>4, <2>5, <2>6 DEF Url!Contains
  <2>8. ~Url!Contains(a, colon)
    BY <2>1, <2>3 DEF Url!Contains
  <2> QED
    BY <2>7, <2>8 DEF colon
<1>11. a \o <<":", "4222">> = named /\ (a \o <<":">>) \o b = both
  <2>1. a \in Seq(STRING) /\ b \in Seq(STRING)
    BY DEF Part, Url!Without
  <2>2. ":" \in STRING /\ "4222" \in STRING
    BY LiteralsAssumption
  <2>3. <<":">> \in Seq(STRING)
    BY ONLY <2>2, OneWord
  <2>4. (a \o <<":">>) \o b = a \o (<<":">> \o b)
    BY <2>1, <2>3, ConcatAssociative
  <2>5. <<":">> \o <<"4222">> = <<":", "4222">>
    BY ONLY <2>2, TwoWords
  <2> QED
    BY <2>4, <2>5, Zenon DEF both, named, port
<1>12. Url!NATS(both, text, opts) = Url!Build("nats", both, q, <<text>>)
  BY <1>10, Zenon DEF Url!NATS, q
<1>13. Url!NATS(a, text, opts) = Url!Build("nats", a \o <<":", "4222">>, q, <<text>>)
  BY <1>10, Zenon DEF Url!NATS, q
<1>14. Url!SQS(a, b, text, opts) = Url!Build("sqs", (a \o <<":">>) \o b, q, <<text>>)
  BY Zenon DEF Url!SQS, q
<1>15. Url!PubSub(a, b, opts) = Url!Build("pubsub", (a \o <<":">>) \o b, q, <<>>)
  BY Zenon DEF Url!PubSub, q
<1> QED
  BY <1>8, <1>9, <1>11, <1>12, <1>13, <1>14, <1>15, Zenon DEF Of, both, q

\* Of an account and a token.
LEMMA TokenAddresses ==
  ASSUME NEW account, Hostly(account), NEW queueId, Text(queueId), NEW apiToken, Url!Sayable(apiToken)
  PROVE  Url!Addresses(To(Url!CFQueue(account, queueId, apiToken), "cf-queue", account, queueId,
                          [name \in {"token"} |-> apiToken]))
<1> DEFINE token == "token"
           q == [name \in {token} |-> apiToken]
           scheme == "cf-queue"
           m == [scheme |-> scheme, host |-> account, path |-> queueId, query |-> q]
<1>1. token \in STRING \ Url!Separators /\ token # "retained"
  BY LiteralsAssumption DEF Url!Separators
<1>2. scheme \in Url!Schemes /\ scheme \notin {"nats", "sqs", "pubsub", "local", "grpc", "amqp", "amqps"}
  BY DEF Url!Schemes
<1>3. DOMAIN q = {token} /\ q[token] = apiToken /\ apiToken \in Seq(STRING)
  BY DEF Url!Sayable, Url!Without
<1>4. m.host = account /\ m.scheme = scheme
  OBVIOUS
<1>5. q \in [DOMAIN q -> Seq(STRING)]
  BY <1>3
<1>6. IsFiniteSet({token})
  BY FS_Singleton
<1> HIDE DEF q
<1>7. Url!Asks(q) /\ Retains(q)
  <2> HIDE DEF token
  <2> QED
    BY <1>1, <1>3, <1>5, <1>6, SameFinite DEF Url!Asks, Retains
<1>8. ~Url!Refuses(m)
  BY <1>2, <1>3, <1>7, NotRefused DEF Text
<1>9. Url!Dials(m)
  <2> HIDE DEF m, scheme
  <2> QED
    BY <1>2, <1>4 DEF Url!Dials, Hostly
<1>10. <<queueId>> \in {<<>>, <<queueId>>} /\ <<queueId>> # <<>> /\ Url!Sayable(queueId)
  BY DEF Text
<1> HIDE DEF m, scheme
<1>11. Url!Addresses(To(Url!Build(scheme, account, q, <<queueId>>), scheme, account, queueId, q))
  BY <1>2, <1>7, <1>8, <1>9, <1>10, BuildAddresses DEF m
<1> QED
  BY <1>11, Zenon DEF q, token, scheme, Url!CFQueue

\* Tile38 takes the URL for one endpoint, and reads it as these parts.
Reaches(url, scheme, host, path, query) ==
  Url!OneScheme(url) /\ Url!Read(url) = [scheme |-> scheme, host |-> host, path |-> path, query |-> query]

LEMMA ReachesIs ==
  \A url, scheme, host, path, query :
    Url!Addresses(To(url, scheme, host, path, query)) => Reaches(url, scheme, host, path, query)
<1> SUFFICES ASSUME NEW url, NEW scheme, NEW host, NEW path, NEW query,
                    Url!Addresses(To(url, scheme, host, path, query))
             PROVE  Reaches(url, scheme, host, path, query)
  OBVIOUS
<1> DEFINE target == To(url, scheme, host, path, query)
<1>1. target.url = url /\ target.meant = [scheme |-> scheme, host |-> host, path |-> path, query |-> query]
  BY DEF To
<1> HIDE DEF target
<1>2. Url!Addresses(target)
  BY DEF target
<1> QED
  BY <1>1, <1>2, AddressedIs DEF Reaches

\* Tile38 takes from the URL of each constructor the host, the path and the options the
\* constructor was given, whatever text they are, and refuses none of them: a NATS host has
\* a port, a retained message is said with a number (endpoint.go, Local to CFQueue).
THEOREM ConstructorsReach ==
  ASSUME NEW text, Text(text), NEW opts, Given(opts)
  PROVE  /\ \A host : Hostly(host) =>
              /\ Reaches(Url!Local(host), "local", host, <<>>, Url!NoValues)
              /\ Reaches(Url!GRPC(host), "grpc", host, <<>>, Url!NoValues)
              /\ Reaches(Url!Redis(host, text), "redis", host, text, Url!NoValues)
              /\ Reaches(Url!Disque(host, text, opts), "disque", host, text, Url!Values(opts))
              /\ Reaches(Url!MQTT(host, text, opts), "mqtt", host, text, Url!Values(opts))
              /\ Reaches(Url!MQTTS(host, text, opts), "mqtts", host, text, Url!Values(opts))
              /\ \A token : Url!Sayable(token) =>
                   Reaches(Url!CFQueue(host, text, token), "cf-queue", host, text, [name \in {"token"} |-> token])
         /\ \A host : host # <<>> /\ Url!Without(host, {"?", "://"}) =>
              /\ Reaches(Url!AMQP(host, text, opts), "amqp", host, text, Url!Values(opts))
              /\ Reaches(Url!AMQPS(host, text, opts), "amqps", host, text, Url!Values(opts))
         /\ \A brokers \in Seq(Seq(STRING)) :
              brokers # <<>> /\ (\A i \in DOMAIN brokers : Hostly(brokers[i])) =>
                Reaches(Url!Kafka(brokers, text, opts), "kafka", Url!JoinWith(brokers, ","), text, Url!Values(opts))
         /\ \A a, b : Part(a) /\ Part(b) =>
              LET both == a \o (<<":">> \o b) IN
              /\ Reaches(Url!NATS(both, text, opts), "nats", both, text, Url!Values(opts))
              /\ Reaches(Url!NATS(a, text, opts), "nats", a \o <<":", "4222">>, text, Url!Values(opts))
              /\ Reaches(Url!SQS(a, b, text, opts), "sqs", both, text, Url!Values(opts))
              /\ Reaches(Url!PubSub(a, b, opts), "pubsub", both, <<>>, Url!Values(opts))
<1>1. ASSUME NEW host, Hostly(host)
      PROVE  /\ Reaches(Url!Local(host), "local", host, <<>>, Url!NoValues)
             /\ Reaches(Url!GRPC(host), "grpc", host, <<>>, Url!NoValues)
             /\ Reaches(Url!Redis(host, text), "redis", host, text, Url!NoValues)
             /\ Reaches(Url!Disque(host, text, opts), "disque", host, text, Url!Values(opts))
             /\ Reaches(Url!MQTT(host, text, opts), "mqtt", host, text, Url!Values(opts))
             /\ Reaches(Url!MQTTS(host, text, opts), "mqtts", host, text, Url!Values(opts))
  BY <1>1, HostAddresses, ReachesIs
<1>2. ASSUME NEW host, Hostly(host), NEW token, Url!Sayable(token)
      PROVE  Reaches(Url!CFQueue(host, text, token), "cf-queue", host, text, [name \in {"token"} |-> token])
  BY <1>2, TokenAddresses, ReachesIs
<1>3. ASSUME NEW host, host # <<>>, Url!Without(host, {"?", "://"})
      PROVE  /\ Reaches(Url!AMQP(host, text, opts), "amqp", host, text, Url!Values(opts))
             /\ Reaches(Url!AMQPS(host, text, opts), "amqps", host, text, Url!Values(opts))
  BY <1>3, BrokerAddresses, ReachesIs
<1>4. ASSUME NEW brokers \in Seq(Seq(STRING)), brokers # <<>>, \A i \in DOMAIN brokers : Hostly(brokers[i])
      PROVE  Reaches(Url!Kafka(brokers, text, opts), "kafka", Url!JoinWith(brokers, ","), text, Url!Values(opts))
  BY <1>4, BrokersAddress, ReachesIs
<1>5. ASSUME NEW a, NEW b, Part(a), Part(b)
      PROVE  LET both == a \o (<<":">> \o b) IN
             /\ Reaches(Url!NATS(both, text, opts), "nats", both, text, Url!Values(opts))
             /\ Reaches(Url!NATS(a, text, opts), "nats", a \o <<":", "4222">>, text, Url!Values(opts))
             /\ Reaches(Url!SQS(a, b, text, opts), "sqs", both, text, Url!Values(opts))
             /\ Reaches(Url!PubSub(a, b, opts), "pubsub", both, <<>>, Url!Values(opts))
  BY <1>5, PartsAddress, ReachesIs
<1> QED
  BY <1>1, <1>2, <1>3, <1>4, <1>5, Zenon

-----------------------------------------------------------------------------
(* What every command is.                                                  *)

Assembled == Separation /\ PipelineExact /\ Slotted

LEMMA AssembledAlways == Spec => []Assembled
<1>1. Init => Assembled
  BY SeparationInit, SlottedInit DEF Assembled
<1>2. Assembled /\ [Next]_vars => Assembled'
  BY SeparationStep, SlottedStep DEF Assembled, Separation
<1> QED
  BY <1>1, <1>2, PTL DEF Spec

LEMMA SendableReads ==
  ASSUME Assembled, NEW h \in Handles, NEW cmd \in Sendable(h)
  PROVE  /\ Exists(h) /\ slot[h]["area"] \in Areas \cup {Unset}
         /\ Reads(h, cmd, Body(h, cmd))
<1>1. HeapOK /\ Whole /\ Slotted
  BY DEF Assembled, Separation
<1>2. cmd \in Queries(h) \cup Fences(h) \cup Tests(h)
  BY DEF Sendable
<1>3. Exists(h) /\ \E stem : Reads(h, cmd, stem)
  BY <1>1, <1>2, QueriesRead, FencesRead, TestsRead
<1>4. slot[h]["area"] \in Areas \cup {Unset}
  BY <1>1, <1>3, HandleIs, AreasOffered DEF Filled
<1> QED
  BY <1>3, <1>4, BodyIsStem

\* Every terminal sends the filters its own chain asked for, all of them and in
\* order, and a SET everything it was given (builders.go, the clones of the
\* format switches).
THEOREM OwnFiltersHolds == Spec => []OwnFilters
<1>1. Assembled => OwnFilters
  <2> SUFFICES ASSUME Assembled PROVE OwnFilters
    OBVIOUS
  <2>1. ASSUME NEW h \in Handles, NEW cmd \in Writes(h) PROVE Tail(cmd) = asked[h]
    <3>1. verb[h] \in Objects /\ cmd = SetArgs(h)
      BY <2>1 DEF Writes
    <3>2. Exists(h)
      BY <3>1, UnsetAssumption DEF Exists, Verbs
    <3>3. asked[h] \in Seq(Offered(verb[h])) /\ Contents(args[h]) = asked[h]
      BY <3>2, HandleIs DEF Assembled, Separation
    <3> DEFINE c == <<verb[h]>>
    <3>4. cmd = <<c>> \o asked[h]
      BY <3>1, <3>3 DEF SetArgs
    <3> HIDE DEF c
    <3>5. <<c>> \o asked[h] \in Seq({c} \cup Offered(verb[h])) /\ Tail(<<c>> \o asked[h]) = asked[h]
      <4> DEFINE S == {c} \cup Offered(verb[h])
                 s == asked[h]
                 w == <<c>> \o s
      <4>1. <<c>> \in Seq(S) /\ Len(<<c>>) = 1
        OBVIOUS
      <4>2. s \in Seq(S)
        BY <3>3, SeqMonotonic
      <4> HIDE DEF S, s
      <4>3. /\ w \in Seq(S) /\ Len(w) = Len(s) + 1 /\ Len(s) \in Nat /\ w # <<>>
            /\ \A i \in 1..Len(s) : w[i + 1] = s[i]
        BY <4>1, <4>2, ConcatProperties, LenProperties
      <4> HIDE DEF w
      <4>4. Tail(w) \in Seq(S) /\ Len(Tail(w)) = Len(s) /\ \A i \in 1..Len(s) : Tail(w)[i] = s[i]
        BY <4>3, HeadTailProperties
      <4>5. Tail(w) = s
        BY <4>2, <4>4, SeqEqual
      <4> QED
        BY <4>3, <4>5 DEF s, S, w
    <3> QED
      BY <3>4, <3>5
  <2>2. ASSUME NEW h \in Handles, NEW cmd \in Sendable(h), NEW words \in {Filters, {"META"}}
        PROVE  Only(Body(h, cmd), words) = Only(asked[h], words)
    BY <2>2, SendableReads DEF Reads, Tells
  <2> QED
    BY <2>1, <2>2 DEF OwnFilters
<1> QED
  BY <1>1, AssembledAlways, PTL

\* The clauses come in the order the parser wants, and none twice that it takes
\* once (builders.go, buildSearch and searchOpts.tokens).
THEOREM OnceInOrderHolds == Spec => []OnceInOrder
<1>1. Assembled => OnceInOrder
  <2> SUFFICES ASSUME Assembled, NEW h \in Handles, NEW cmd \in Sendable(h)
               PROVE  Ordered(Body(h, cmd))
    BY DEF OnceInOrder, Ordered, Before
  <2> QED
    BY SendableReads DEF Reads
<1> QED
  BY <1>1, AssembledAlways, PTL

\* A fence has neither cursor nor output format, a query nothing of a fence and a
\* distance only with its points (builders.go, fenceOpts and formatTokens).
THEOREM FenceOrQueryHolds == Spec => []FenceOrQuery
<1>1. Assembled => FenceOrQuery
  <2> SUFFICES ASSUME Assembled, NEW h \in Handles
               PROVE  /\ \A cmd \in Fences(h) : /\ "FENCE" \in Says(h, cmd)
                                                /\ Says(h, cmd) \cap (Outputs \cup {"CURSOR"}) = {}
                      /\ \A cmd \in Queries(h) :
                           /\ Says(h, cmd) \cap (FenceWords \cup {"FENCE"}) = {}
                           /\ "DISTANCE" \in Says(h, cmd) => "POINTS" \in Says(h, cmd)
    BY DEF FenceOrQuery
  <2>1. HeapOK /\ Whole /\ Slotted
    BY DEF Assembled, Separation
  <2>2. Exists(h) => slot[h]["area"] \in Areas \cup {Unset}
    BY <2>1, HandleIs, AreasOffered DEF Filled
  <2>3. \A cmd : Says(h, cmd) = Words(Body(h, cmd))
    BY DEF Says, Words
  <2>4. ASSUME NEW cmd \in Fences(h)
        PROVE  "FENCE" \in Says(h, cmd) /\ Says(h, cmd) \cap (Outputs \cup {"CURSOR"}) = {}
    BY <2>1, <2>2, <2>3, FencesRead, BodyIsStem
  <2>5. ASSUME NEW cmd \in Queries(h)
        PROVE  /\ Says(h, cmd) \cap (FenceWords \cup {"FENCE"}) = {}
               /\ "DISTANCE" \in Says(h, cmd) => "POINTS" \in Says(h, cmd)
    BY <2>1, <2>2, <2>3, QueriesRead, BodyIsStem
  <2> QED
    BY <2>4, <2>5
<1> QED
  BY <1>1, AssembledAlways, PTL

\* A command ends with an area that has the operands its keyword takes, whichever
\* area and radius were given before (builders.go, pointGeometry).
THEOREM AreaWholeHolds == Spec => []AreaWhole
<1>1. Assembled => AreaWhole
  <2> SUFFICES ASSUME Assembled, NEW h \in Handles, NEW cmd \in Sendable(h), slot[h]["area"] # Unset
               PROVE  \/ Len(Last(cmd)) - 1 = Operands(Last(cmd)[1])
                      \/ Last(cmd)[1] = "POINT" /\ Len(Last(cmd)) - 1 = 3
    BY Zenon DEF AreaWhole
  <2>1. \E n \in Nat : /\ Last(cmd)[1] = slot[h]["area"] /\ Len(Last(cmd)) = n + 1
                       /\ \/ n = Operands(slot[h]["area"])
                          \/ slot[h]["area"] = "POINT" /\ n = 3
    BY SendableReads, BodyIsStem
  <2> QED
    BY <2>1
<1> QED
  BY <1>1, AssembledAlways, PTL

-----------------------------------------------------------------------------
(* The endpoints of a hook.                                                *)

\* What a command goes on with does not change what it begins with.
Begins(s, o) == IsSeq(s) /\ s # <<>> /\ s[1] = o

LEMMA BeginsStill ==
  ASSUME NEW s, NEW o, Begins(s, o), NEW t, IsSeq(t)
  PROVE  Begins(s \o t, o)
<1>1. PICK S : s \in Seq(S) /\ t \in Seq(S)
  BY BothAreSeqs DEF Begins
<1>2. Len(s) # 0 /\ Len(s) \in Nat /\ Len(t) \in Nat /\ s[1] = o
  BY <1>1, LenProperties, EmptySeq DEF Begins
<1> DEFINE w == s \o t
<1>3. w \in Seq(S) /\ Len(w) = Len(s) + Len(t)
      /\ \A i \in 1..Len(s) + Len(t) : w[i] = IF i <= Len(s) THEN s[i] ELSE t[i - Len(s)]
  BY <1>1, ConcatProperties
<1> HIDE DEF w
<1>4. 1 \in 1..Len(s) + Len(t) /\ 1 <= Len(s) /\ Len(w) # 0
  BY <1>2, <1>3
<1>5. w[1] = o
  BY <1>2, <1>3, <1>4
<1>6. w # <<>>
  BY <1>3, <1>4, EmptySeq
<1> QED
  BY <1>3, <1>5, <1>6 DEF Begins, IsSeq, w

\* A hook begins with its endpoints.
LEMMA HookBegins ==
  ASSUME HeapOK, Whole, Slotted, NEW h \in Handles, verb[h] = "SETHOOK"
  PROVE  BuildFence(h)[1] = <<verb[h], Endpoints(h)>>
<1> DEFINE o == <<verb[h], Endpoints(h)>>
           p == <<o>>
           M == Collected(h, {"META"})
           X == With(slot[h], "ex", "EX")
           B == Bare(slot[h], "trigger")
           F == Collected(h, {"WHERE", "MATCH"})
           T == FenceTokens(slot[h])
           G == PointGeometry(h)
<1>1. Exists(h) /\ verb[h] \in Hooks /\ verb[h] # "TEST"
  BY UnsetAssumption DEF Exists, Verbs, Hooks
<1>2. asked[h] \in Seq(Offered(verb[h])) /\ Contents(args[h]) = asked[h] /\ Filled(slot[h], verb[h])
  BY <1>1, HandleIs
<1>3. IsSeq(M) /\ IsSeq(F)
  BY <1>2, OnlyIsTyped DEF Collected, IsSeq
<1>4. IsSeq(X) /\ IsSeq(B) /\ IsSeq(T)
  <2>1. Goes(X, {"EX"}) /\ Goes(T, FenceSays) /\ Goes(B, Spatial)
    BY <1>1, <1>2, WithGoes, FenceGoes, BareGoes DEF Filled
  <2> QED
    BY <2>1 DEF Goes
<1>5. IsSeq(G)
  <2>1. G = <<>> \/ \E n : G = AreaClause(slot[h]["area"], n)
    BY Zenon DEF PointGeometry
  <2>2. \A n : \E a : AreaClause(slot[h]["area"], n) = <<a>>
    BY Zenon DEF AreaClause
  <2>3. <<>> \in Seq({}) /\ \A a : <<a>> \in Seq({a})
    OBVIOUS
  <2>4. G = <<>> \/ \E a : G = <<a>>
    <3> HIDE DEF G
    <3> QED
      BY <2>1, <2>2, Zenon
  <2> HIDE DEF G
  <2>5. \E S : G \in Seq(S)
    <3>1. CASE G = <<>>
      BY <2>3, <3>1
    <3>2. CASE \E a : G = <<a>>
      BY <2>3, <3>2, Zenon
    <3> QED
      BY <2>4, <3>1, <3>2
  <2> QED
    BY <2>5 DEF IsSeq
<1>6. IsSeq(<<>>)
  BY EmptySeq DEF IsSeq
<1>7. HookHead(h) = p \o M \o X
  BY DEF HookHead
<1>8. BuildFence(h) = ((((HookHead(h) \o B \o F) \o <<>>) \o T) \o <<>>) \o G
  BY Zenon DEF BuildFence, BuildSearch
<1>9. Begins(p, o)
  <2>1. \A a : <<a>> \in Seq({a}) /\ <<a>> # <<>> /\ <<a>>[1] = a
    OBVIOUS
  <2> HIDE DEF o
  <2> QED
    BY <2>1 DEF Begins, IsSeq
<1> HIDE DEF o, p, M, X, B, F, T, G
<1>10. Begins(p \o M \o X, o)
  BY <1>3, <1>4, <1>9, BeginsStill
<1>11. Begins((p \o M \o X) \o B \o F, o)
  BY <1>3, <1>4, <1>10, BeginsStill
<1>12. Begins((((p \o M \o X) \o B \o F) \o <<>>) \o T, o)
  BY <1>4, <1>6, <1>11, BeginsStill
<1>13. Begins((((((p \o M \o X) \o B \o F) \o <<>>) \o T) \o <<>>) \o G, o)
  BY <1>5, <1>6, <1>12, BeginsStill
<1> QED
  BY <1>7, <1>8, <1>13 DEF Begins, o

\* Tile38 takes the one argument of SETHOOK apart into the endpoints the hook was
\* given, each as it was meant (builders.go, buildFence; endpoint.go, build).
THEOREM EndpointsArriveHolds == Spec => []EndpointsArrive
<1>1. Assembled => EndpointsArrive
  <2> SUFFICES ASSUME Assembled, NEW h \in Handles, verb[h] = "SETHOOK",
                      Only(asked[h], {"ENDPOINT"}) # <<>>
               PROVE  Url!Received(EndpointArgument(BuildFence(h)[1][2]))
                        = [i \in DOMAIN Only(asked[h], {"ENDPOINT"}) |->
                            Targets[Only(asked[h], {"ENDPOINT"})[i][3]].meant]
    BY Zenon DEF EndpointsArrive
  <2> DEFINE want == Only(asked[h], {"ENDPOINT"})
             n == Len(want)
             target(i) == Targets[want[i][3]]
             urls == [i \in 1..n |-> target(i).url]
  <2>1. HeapOK /\ Whole /\ Slotted
    BY DEF Assembled, Separation
  <2>2. asked[h] \in Seq(Offered(verb[h])) /\ Contents(args[h]) = asked[h]
    BY <2>1, HandleIs, UnsetAssumption DEF Exists, Verbs, Hooks
  <2>3. want \in Seq({c \in Offered(verb[h]) : c[1] \in {"ENDPOINT"}})
    BY <2>2, OnlyMembers
  <2>4. Collected(h, {"ENDPOINT"}) = want
    BY <2>2 DEF Collected
  <2> HIDE DEF want, n
  <2>5. n \in Nat /\ DOMAIN want = 1..n /\ n # 0
    BY <2>3, LenProperties, EmptySeq DEF want, n
  <2>6. \A i \in 1..n : want[i] \in Clause /\ want[i][1] = "ENDPOINT"
    BY <2>3, ElementOfSeq DEF Offered, n
  <2>7. \A i \in 1..n : want[i][3] \in DOMAIN Targets
    BY <2>6 DEF Clause
  <2>8. \A i \in 1..n : /\ target(i).url \in Seq(Symbol) /\ Url!OneScheme(target(i).url)
                        /\ Url!Read(target(i).url) = target(i).meant
    BY <2>7, TargetsAssumption, AddressedIs
  <2> HIDE DEF target
  <2>9. urls \in Seq(Seq(Symbol)) /\ urls # <<>> /\ DOMAIN urls = 1..n
    <3>1. urls \in [1..n -> Seq(Symbol)]
      BY <2>8
    <3>2. urls \in Seq(Seq(Symbol)) /\ Len(urls) = n
      BY <2>5, <3>1
    <3> HIDE DEF urls
    <3> QED
      BY <2>5, <3>2, LenProperties, EmptySeq
  <2>10. \A k \in DOMAIN urls : Url!OneScheme(urls[k])
    BY <2>8, <2>9
  <2>11. EndpointArgument(BuildFence(h)[1][2]) = Url!JoinWith(urls, ",")
    <3> DEFINE to == [i \in 1..n |-> want[i][3]]
    <3>1. Endpoints(h) = to
      BY <2>4, <2>5 DEF Endpoints
    <3>2. BuildFence(h)[1][2] = Endpoints(h)
      <4>1. <<verb[h], Endpoints(h)>>[2] = Endpoints(h)
        OBVIOUS
      <4> QED
        BY <2>1, <4>1, HookBegins
    <3>3. [i \in DOMAIN to |-> Targets[to[i]].url] = urls
      BY DEF target
    <3>4. EndpointArgument(to) = Url!JoinWith([i \in DOMAIN to |-> Targets[to[i]].url], ",")
      BY Zenon DEF EndpointArgument
    <3> HIDE DEF to, urls
    <3> QED
      BY <3>1, <3>2, <3>3, <3>4
  <2>12. Url!Received(Url!JoinWith(urls, ",")) = [k \in DOMAIN urls |-> Url!Read(urls[k])]
    <3> HIDE DEF urls
    <3> QED
      BY <2>9, <2>10, ReceivedJoin
  <2>13. [k \in DOMAIN urls |-> Url!Read(urls[k])] = [i \in 1..n |-> target(i).meant]
    BY <2>8, <2>9
  <2> QED
    BY <2>5, <2>11, <2>12, <2>13 DEF want, target
<1> QED
  BY <1>1, AssembledAlways, PTL
=============================================================================
