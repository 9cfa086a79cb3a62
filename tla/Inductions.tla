----------------------------- MODULE Inductions -----------------------------
(***************************************************************************)
(* Induction over numbers and over sequences, stated with sets: what holds *)
(* of zero (of the empty sequence) and of the next number (of a sequence   *)
(* with one element more) holds of all.  They follow from the order of the *)
(* naturals being well-founded.  With them: what FlattenSeq joins.         *)
(***************************************************************************)
EXTENDS Integers, SequencesExt, SequenceTheorems, FiniteSetTheorems, WellFoundedInduction, NaturalsInduction, TLAPS

Below == {p \in Nat \X Nat : p[1] < p[2]}

LEMMA BelowIsWellFounded == IsWellFoundedOn(Below, Nat)
<1>1. OpToRel(<, Nat) = Below
  BY DEF OpToRel, Below
<1> QED
  BY <1>1, NatLessThanWellFounded

\* A set of numbers that is not empty has a least one.
LEMMA LeastOf ==
  ASSUME NEW T \in SUBSET Nat, T # {}
  PROVE  \E n \in T : \A m \in T : n <= m
<1>1. PICK n \in T : \A m \in T : ~(<<m, n>> \in Below)
  BY BelowIsWellFounded, WFMin
<1>2. \A m \in Nat : ~(<<m, n>> \in Below) => n <= m
  BY <1>1 DEF Below
<1> QED
  BY <1>1, <1>2

\* Induction over the naturals.
LEMMA NatSet ==
  ASSUME NEW T, 0 \in T, \A n \in Nat : n \in T => n + 1 \in T
  PROVE  \A n \in Nat : n \in T
<1> SUFFICES ASSUME NEW k \in Nat, k \notin T PROVE FALSE
  OBVIOUS
<1> DEFINE U == {n \in Nat : n \notin T}
<1>1. PICK n \in U : \A m \in U : n <= m
  <2>1. U \in SUBSET Nat /\ U # {}
    OBVIOUS
  <2> QED
    BY <2>1, LeastOf
<1>2. n # 0 /\ n \in Nat
  OBVIOUS
<1>3. n - 1 \in Nat /\ ~(n <= n - 1) /\ (n - 1) + 1 = n
  BY <1>2
<1>4. n - 1 \in T
  BY <1>1, <1>3
<1> QED
  BY <1>3, <1>4

\* Induction over the sequences of a set.
LEMMA SeqSet ==
  ASSUME NEW S, NEW T, <<>> \in T, \A s \in Seq(S), e \in S : s \in T => Append(s, e) \in T
  PROVE  \A s \in Seq(S) : s \in T
<1> DEFINE U == {n \in Nat : \A s \in Seq(S) : Len(s) = n => s \in T}
<1>1. 0 \in U
  <2>1. \A s \in Seq(S) : Len(s) = 0 => s = <<>>
    BY EmptySeq
  <2> QED
    BY <2>1
<1>2. ASSUME NEW n \in Nat, n \in U PROVE n + 1 \in U
  <2> SUFFICES ASSUME NEW s \in Seq(S), Len(s) = n + 1 PROVE s \in T
    OBVIOUS
  <2>1. s # <<>>
    BY EmptySeq
  <2>2. PICK t \in Seq(S), e \in S : s = Append(t, e)
    BY <2>1, SequenceEmptyOrAppend
  <2>3. Len(t) \in Nat /\ Len(s) = Len(t) + 1
    BY <2>2, AppendProperties, LenProperties
  <2>4. t \in T
    BY <1>2, <2>3
  <2> QED
    BY <2>2, <2>4
<1> HIDE DEF U
<1>3. \A n \in Nat : n \in U
  BY <1>1, <1>2, NatSet
<1> USE DEF U
<1> QED
  BY <1>3, LenProperties

-----------------------------------------------------------------------------
(* What FlattenSeq gives.                                                  *)

\* The recursion of FlattenSeq up to a place.
FlatUpTo(ss, n, f) == f = [i \in 1..n |-> IF i = 1 THEN ss[i] ELSE f[i - 1] \o ss[i]]

\* There is such a recursion for every length.
LEMMA FlatExists ==
  ASSUME NEW ss
  PROVE  \A n \in Nat : \E f : FlatUpTo(ss, n, f)
<1> DEFINE T == {n \in Nat : \E f : FlatUpTo(ss, n, f)}
<1>1. 0 \in T
  <2> DEFINE f == [i \in 1..0 |-> <<>>]
  <2>1. FlatUpTo(ss, 0, f)
    BY DEF FlatUpTo
  <2> QED
    BY <2>1
<1>2. ASSUME NEW n \in Nat, n \in T PROVE n + 1 \in T
  <2>1. PICK f : FlatUpTo(ss, n, f)
    BY <1>2
  <2> DEFINE last == IF n = 0 THEN ss[1] ELSE f[n] \o ss[n + 1]
             g == [i \in 1..n + 1 |-> IF i = n + 1 THEN last ELSE f[i]]
  <2>2. \A i \in 1..n : f[i] = IF i = 1 THEN ss[i] ELSE f[i - 1] \o ss[i]
    BY <2>1 DEF FlatUpTo
  <2>3. \A i \in 1..n : g[i] = f[i]
    OBVIOUS
  <2>4. \A i \in 1..n + 1 : g[i] = IF i = 1 THEN ss[i] ELSE g[i - 1] \o ss[i]
    <3> TAKE i \in 1..n + 1
    <3>1. CASE i = n + 1
      <4>1. n # 0 => n \in 1..n
        OBVIOUS
      <4>2. g[i] = last /\ (i = 1 <=> n = 0) /\ i - 1 = n
        BY <3>1
      <4> QED
        BY <2>3, <3>1, <4>1, <4>2
    <3>2. CASE i \in 1..n
      <4>1. i # 1 => i - 1 \in 1..n
        BY <3>2
      <4> QED
        BY <2>2, <2>3, <3>2, <4>1
    <3> QED
      BY <3>1, <3>2
  <2>5. FlatUpTo(ss, n + 1, g)
    BY <2>4 DEF FlatUpTo
  <2> QED
    BY <2>5
<1> HIDE DEF T
<1>3. \A n \in Nat : n \in T
  BY <1>1, <1>2, NatSet
<1> QED
  BY <1>3 DEF T

\* FlattenSeq takes its last value.
LEMMA FlatIs ==
  ASSUME NEW S, NEW ss \in Seq(S), Len(ss) # 0
  PROVE  \E f : FlatUpTo(ss, Len(ss), f) /\ FlattenSeq(ss) = f[Len(ss)]
<1>1. \E f : FlatUpTo(ss, Len(ss), f)
  BY FlatExists, LenProperties
<1> DEFINE f == CHOOSE f : FlatUpTo(ss, Len(ss), f)
<1>2. FlatUpTo(ss, Len(ss), f)
  BY <1>1
<1>3. FlattenSeq(ss) = f[Len(ss)]
  BY DEF FlattenSeq, FlatUpTo
<1> QED
  BY <1>2, <1>3

\* Where two sequences agree their recursions do.
LEMMA FlatAgree ==
  ASSUME NEW ss, NEW tt, NEW n \in Nat, NEW f, NEW g,
         FlatUpTo(ss, n, f), FlatUpTo(tt, n + 1, g), \A i \in 1..n : ss[i] = tt[i]
  PROVE  n # 0 => f[n] = g[n]
<1> DEFINE T == {i \in Nat : i \in 1..n => f[i] = g[i]}
<1>1. \A i \in 1..n : f[i] = IF i = 1 THEN ss[i] ELSE f[i - 1] \o ss[i]
  BY DEF FlatUpTo
<1>2. \A i \in 1..n + 1 : g[i] = IF i = 1 THEN tt[i] ELSE g[i - 1] \o tt[i]
  BY DEF FlatUpTo
<1>3. 0 \in T
  OBVIOUS
<1>4. ASSUME NEW i \in Nat, i \in T PROVE i + 1 \in T
  <2> SUFFICES ASSUME i + 1 \in 1..n PROVE f[i + 1] = g[i + 1]
    OBVIOUS
  <2>1. i + 1 \in 1..n + 1 /\ (i + 1) - 1 = i /\ (i + 1 # 1 => i \in 1..n)
    OBVIOUS
  <2>2. i + 1 # 1 => f[i] = g[i]
    BY <1>4, <2>1
  <2>3. ss[i + 1] = tt[i + 1]
    OBVIOUS
  <2> QED
    BY <1>1, <1>2, <2>1, <2>2, <2>3
<1> HIDE DEF T
<1>5. \A i \in Nat : i \in T
  BY <1>3, <1>4, NatSet
<1>6. n # 0 => n \in 1..n
  OBVIOUS
<1> QED
  BY <1>5, <1>6 DEF T

LEMMA FlatEmpty == FlattenSeq(<<>>) = <<>>
<1>1. Len(<<>>) = 0
  OBVIOUS
<1> QED
  BY <1>1 DEF FlattenSeq

\* One sequence more is joined at the end ...
LEMMA FlatAppend ==
  ASSUME NEW S, NEW ss \in Seq(Seq(S)), NEW e \in Seq(S)
  PROVE  FlattenSeq(Append(ss, e)) = IF ss = <<>> THEN e ELSE FlattenSeq(ss) \o e
<1> DEFINE tt == Append(ss, e)
           n == Len(ss)
<1>1. n \in Nat /\ tt \in Seq(Seq(S)) /\ Len(tt) = n + 1 /\ tt[n + 1] = e /\ \A i \in 1..n : ss[i] = tt[i]
  BY AppendProperties, LenProperties
<1> HIDE DEF tt, n
<1>2. PICK g : FlatUpTo(tt, n + 1, g) /\ FlattenSeq(tt) = g[n + 1]
  <2>1. Len(tt) # 0
    BY <1>1
  <2> QED
    BY <1>1, <2>1, FlatIs
<1>3. g[n + 1] = IF n + 1 = 1 THEN tt[n + 1] ELSE g[n] \o tt[n + 1]
  <2>1. \A i \in 1..n + 1 : g[i] = IF i = 1 THEN tt[i] ELSE g[i - 1] \o tt[i]
    BY <1>2 DEF FlatUpTo
  <2>2. n + 1 \in 1..n + 1 /\ (n + 1) - 1 = n
    BY <1>1
  <2> QED
    BY <2>1, <2>2
<1>4. CASE ss = <<>>
  <2>1. n = 0
    BY <1>4, EmptySeq DEF n
  <2> QED
    BY <1>1, <1>2, <1>3, <1>4, <2>1 DEF tt
<1>5. CASE ss # <<>>
  <2>1. n # 0 /\ n \in 1..n
    BY <1>1, <1>5, EmptySeq DEF n
  <2>2. PICK f : FlatUpTo(ss, n, f) /\ FlattenSeq(ss) = f[n]
    BY <2>1, FlatIs DEF n
  <2>3. f[n] = g[n]
    BY <1>1, <1>2, <2>1, <2>2, FlatAgree
  <2> QED
    BY <1>1, <1>2, <1>3, <1>5, <2>1, <2>2, <2>3 DEF tt
<1> QED
  BY <1>4, <1>5

LEMMA FlatTyped ==
  ASSUME NEW S
  PROVE  \A ss \in Seq(Seq(S)) : FlattenSeq(ss) \in Seq(S)
<1> DEFINE T == {ss \in Seq(Seq(S)) : FlattenSeq(ss) \in Seq(S)}
<1>1. <<>> \in T
  BY FlatEmpty, EmptySeq
<1>2. ASSUME NEW ss \in Seq(Seq(S)), NEW e \in Seq(S), ss \in T PROVE Append(ss, e) \in T
  <2>1. Append(ss, e) \in Seq(Seq(S)) /\ FlattenSeq(ss) \o e \in Seq(S)
    BY <1>2, AppendProperties, ConcatProperties
  <2>2. FlattenSeq(Append(ss, e)) \in {e, FlattenSeq(ss) \o e}
    BY FlatAppend
  <2> QED
    BY <2>1, <2>2
<1> HIDE DEF T
<1>3. \A ss \in Seq(Seq(S)) : ss \in T
  BY <1>1, <1>2, SeqSet
<1> QED
  BY <1>3 DEF T

\* A sequence with one element before it.
LEMMA FirstOf ==
  ASSUME NEW S, NEW o \in S, NEW x \in Seq(S)
  PROVE  <<o>> \o x # <<>> /\ (<<o>> \o x)[1] = o /\ Tail(<<o>> \o x) = x
<1>1. <<o>> \in Seq(S) /\ Len(<<o>>) = 1 /\ <<o>>[1] = o
  OBVIOUS
<1> DEFINE a == <<o>>
<1> HIDE DEF a
<1>2. a \in Seq(S) /\ Len(a) = 1 /\ a[1] = o /\ Len(x) \in Nat
  BY <1>1, LenProperties DEF a
<1> DEFINE w == a \o x
<1>3. w \in Seq(S) /\ Len(w) = Len(a) + Len(x)
      /\ \A i \in 1..Len(a) + Len(x) : w[i] = IF i <= Len(a) THEN a[i] ELSE x[i - Len(a)]
  BY <1>2, ConcatProperties
<1> HIDE DEF w
<1>4. w # <<>> /\ w[1] = o
  BY <1>2, <1>3, EmptySeq
<1>5. Tail(w) \in Seq(S) /\ Len(Tail(w)) = Len(x) /\ \A i \in 1..Len(x) : Tail(w)[i] = w[i + 1]
  BY <1>2, <1>3, <1>4, HeadTailProperties
<1>6. \A i \in 1..Len(x) : Tail(w)[i] = x[i]
  BY <1>2, <1>3, <1>5
<1>7. Tail(w) = x
  BY <1>5, <1>6, SeqEqual
<1> QED
  BY <1>4, <1>7 DEF w, a

\* It makes no difference which two of three texts are joined first.
Groups(a, b, c) == (a \o b) \o c = a \o (b \o c)

LEMMA Regroup ==
  ASSUME NEW S
  PROVE  \A a, b, c \in Seq(S) : Groups(a, b, c)
<1> QED
  BY ConcatAssociative DEF Groups

\* What a join of several texts begins with is the first of them.
LEMMA FlatHead ==
  ASSUME NEW S
  PROVE  \A ss \in Seq(Seq(S)) : ss # <<>> => FlattenSeq(ss) = Head(ss) \o FlattenSeq(Tail(ss))
<1> DEFINE T == {ss \in Seq(Seq(S)) : ss # <<>> => FlattenSeq(ss) = Head(ss) \o FlattenSeq(Tail(ss))}
<1>1. <<>> \in T
  BY EmptySeq
<1>2. ASSUME NEW ss \in Seq(Seq(S)), NEW e \in Seq(S), ss \in T PROVE Append(ss, e) \in T
  <2>1. Append(ss, e) \in Seq(Seq(S))
    BY AppendProperties
  <2>2. CASE ss = <<>>
    <3>1. Head(Append(ss, e)) = e /\ Tail(Append(ss, e)) = <<>>
      BY <2>2, HeadTailAppend
    <3>2. FlattenSeq(Append(ss, e)) = e
      BY <2>2, FlatAppend
    <3> QED
      BY <2>1, <3>1, <3>2, FlatEmpty, ConcatEmptySeq
  <2>3. CASE ss # <<>>
    <3>1. Head(Append(ss, e)) = Head(ss) /\ Tail(Append(ss, e)) = Append(Tail(ss), e)
      BY <2>3, HeadTailAppend
    <3>2. Head(ss) \in Seq(S) /\ Tail(ss) \in Seq(Seq(S)) /\ FlattenSeq(Tail(ss)) \in Seq(S)
      BY <2>3, HeadTailProperties, FlatTyped
    <3>3. FlattenSeq(Append(ss, e)) = (Head(ss) \o FlattenSeq(Tail(ss))) \o e
      BY <1>2, <2>3, FlatAppend
    <3>4. (Head(ss) \o FlattenSeq(Tail(ss))) \o e = Head(ss) \o (FlattenSeq(Tail(ss)) \o e)
      <4>1. Groups(Head(ss), FlattenSeq(Tail(ss)), e)
        BY <3>2, Regroup, Zenon
      <4> QED
        BY <4>1 DEF Groups
    <3>5. FlattenSeq(Append(Tail(ss), e)) = FlattenSeq(Tail(ss)) \o e
      <4>1. FlattenSeq(Append(Tail(ss), e)) = IF Tail(ss) = <<>> THEN e ELSE FlattenSeq(Tail(ss)) \o e
        BY <3>2, FlatAppend
      <4>2. <<>> \o e = e
        BY ConcatEmptySeq
      <4> QED
        BY <4>1, <4>2, FlatEmpty
    <3> QED
      BY <2>1, <3>1, <3>3, <3>4, <3>5
  <2> QED
    BY <2>2, <2>3
<1> HIDE DEF T
<1>3. \A ss \in Seq(Seq(S)) : ss \in T
  BY <1>1, <1>2, SeqSet
<1> QED
  BY <1>3 DEF T

\* The first of each pair at the odd places, the second behind it.
IsPairs(w, S, k, a, b) ==
  /\ w \in Seq(S) /\ Len(w) = 2 * k
  /\ \A i \in 1..k : w[2 * i - 1] = a[i] /\ w[2 * i] = b[i]

PairsTo(k, a, b) == [i \in 1..k |-> <<a[i], b[i]>>]

LEMMA PairsMore ==
  ASSUME NEW S, NEW k \in Nat, NEW a, NEW b, NEW u, NEW e \in Seq(S),
         IsPairs(u, S, k, a, b), Len(e) = 2, e[1] = a[k + 1], e[2] = b[k + 1]
  PROVE  IsPairs(u \o e, S, k + 1, a, b)
<1> DEFINE m == 2 * k
           w == u \o e
<1>1. m \in Nat /\ u \in Seq(S) /\ Len(u) = m /\ \A i \in 1..k : u[2 * i - 1] = a[i] /\ u[2 * i] = b[i]
  BY DEF IsPairs
<1>2. /\ w \in Seq(S) /\ Len(w) = Len(u) + Len(e)
      /\ \A i \in 1..Len(u) + Len(e) : w[i] = IF i <= Len(u) THEN u[i] ELSE e[i - Len(u)]
  <2> HIDE DEF m
  <2> QED
    BY <1>1, ConcatProperties
<1> HIDE DEF w
<1>3. Len(w) = m + 2 /\ \A i \in 1..m + 2 : w[i] = IF i <= m THEN u[i] ELSE e[i - m]
  <2> HIDE DEF m
  <2> QED
    BY <1>1, <1>2
<1>4. ASSUME NEW i \in 1..k + 1 PROVE w[2 * i - 1] = a[i] /\ w[2 * i] = b[i]
  <2>1. CASE i \in 1..k
    <3>1. 2 * i - 1 \in 1..m + 2 /\ 2 * i \in 1..m + 2 /\ 2 * i - 1 <= m /\ 2 * i <= m
      BY <2>1
    <3> HIDE DEF m
    <3> QED
      BY <1>1, <1>3, <2>1, <3>1
  <2>2. CASE i = k + 1
    <3>1. /\ 2 * i - 1 \in 1..m + 2 /\ 2 * i \in 1..m + 2 /\ ~(2 * i - 1 <= m) /\ ~(2 * i <= m)
          /\ 2 * i - 1 - m = 1 /\ 2 * i - m = 2
      BY <2>2
    <3> HIDE DEF m
    <3> QED
      BY <1>3, <2>2, <3>1
  <2> QED
    BY <2>1, <2>2
<1> QED
  BY <1>2, <1>3, <1>4 DEF IsPairs, w

LEMMA PairsFlat ==
  ASSUME NEW S, NEW n \in Nat, NEW a \in [1..n -> S], NEW b \in [1..n -> S]
  PROVE  IsPairs(FlattenSeq([i \in 1..n |-> <<a[i], b[i]>>]), S, n, a, b)
<1> DEFINE T == {k \in Nat : k <= n => IsPairs(FlattenSeq(PairsTo(k, a, b)), S, k, a, b)}
<1>1. 0 \in T
  <2>1. PairsTo(0, a, b) = <<>>
    BY DEF PairsTo
  <2>2. FlattenSeq(PairsTo(0, a, b)) = <<>>
    BY <2>1, FlatEmpty
  <2>3. <<>> \in Seq(S) /\ Len(<<>>) = 0
    BY EmptySeq
  <2>4. IsPairs(<<>>, S, 0, a, b)
    BY <2>3 DEF IsPairs
  <2> QED
    BY <2>2, <2>4
<1>2. ASSUME NEW k \in Nat, k \in T PROVE k + 1 \in T
  <2> SUFFICES ASSUME k + 1 <= n PROVE IsPairs(FlattenSeq(PairsTo(k + 1, a, b)), S, k + 1, a, b)
    OBVIOUS
  <2> DEFINE ss == PairsTo(k, a, b)
             e == <<a[k + 1], b[k + 1]>>
  <2>1. IsPairs(FlattenSeq(ss), S, k, a, b)
    BY <1>2
  <2>2. a[k + 1] \in S /\ b[k + 1] \in S
    OBVIOUS
  <2>3. e \in Seq(S) /\ Len(e) = 2 /\ e[1] = a[k + 1] /\ e[2] = b[k + 1]
    BY <2>2
  <2>4. ss \in Seq(Seq(S)) /\ Len(ss) = k
    <3>1. \A i \in 1..k : a[i] \in S /\ b[i] \in S
      OBVIOUS
    <3>2. \A i \in 1..k : <<a[i], b[i]>> \in Seq(S)
      BY <3>1
    <3> QED
      BY <3>2 DEF PairsTo
  <2>5. Append(ss, e) = PairsTo(k + 1, a, b)
    <3>1. Append(ss, e) \in Seq(Seq(S)) /\ Len(Append(ss, e)) = k + 1
          /\ (\A i \in 1..k : Append(ss, e)[i] = ss[i]) /\ Append(ss, e)[k + 1] = e
      BY <2>3, <2>4, AppendProperties
    <3>2. DOMAIN Append(ss, e) = 1..k + 1
      BY <3>1, LenProperties
    <3>3. \A i \in 1..k + 1 : Append(ss, e)[i] = <<a[i], b[i]>>
      <4> TAKE i \in 1..k + 1
      <4>1. i \in 1..k \/ i = k + 1
        OBVIOUS
      <4> QED
        BY <3>1, <4>1 DEF PairsTo
    <3> QED
      BY <3>1, <3>2, <3>3 DEF PairsTo
  <2> HIDE DEF ss, e
  <2>7. FlattenSeq(PairsTo(k + 1, a, b)) = FlattenSeq(ss) \o e
    <3>1. FlattenSeq(Append(ss, e)) = IF ss = <<>> THEN e ELSE FlattenSeq(ss) \o e
      BY <2>3, <2>4, FlatAppend
    <3>2. <<>> \o e = e
      BY <2>3, ConcatEmptySeq
    <3> QED
      BY <2>5, <3>1, <3>2, FlatEmpty
  <2>8. IsPairs(FlattenSeq(ss) \o e, S, k + 1, a, b)
    BY <2>1, <2>3, PairsMore
  <2> QED
    BY <2>7, <2>8
<1> HIDE DEF T
<1>3. \A k \in Nat : k \in T
  BY <1>1, <1>2, NatSet
<1>4. IsPairs(FlattenSeq(PairsTo(n, a, b)), S, n, a, b)
  BY <1>3 DEF T
<1> QED
  BY <1>4 DEF PairsTo

\* A finite set as a sequence has every element once.
LEMMA SetToSeqIs ==
  ASSUME NEW S, IsFiniteSet(S)
  PROVE  \E n \in Nat : /\ n = Cardinality(S) /\ SetToSeq(S) \in [1..n -> S]
                        /\ \A i, j \in 1..n : SetToSeq(S)[i] = SetToSeq(S)[j] => i = j
                        /\ \A x \in S : \E i \in 1..n : SetToSeq(S)[i] = x
<1> DEFINE n == Cardinality(S)
<1>1. n \in Nat /\ ExistsBijection(1..n, S)
  BY FS_CardinalityType
<1>2. \E f \in [1..n -> S] : IsInjective(f)
  BY <1>1 DEF ExistsBijection, Bijection, Injection
<1>3. SetToSeq(S) \in [1..n -> S] /\ IsInjective(SetToSeq(S))
  BY <1>2 DEF SetToSeq
<1> DEFINE s == SetToSeq(S)
<1>4. s \in Injection(1..n, S)
  BY <1>3 DEF Injection
<1> HIDE DEF s
<1>5. IsFiniteSet(1..n) /\ Cardinality(1..n) = n
  <2>1. 1 \in Int /\ n \in Int /\ (IF 1 > n THEN 0 ELSE n - 1 + 1) = n
    BY <1>1
  <2> QED
    BY <2>1, FS_Interval
<1>6. s \in Surjection(1..n, S)
  BY <1>4, <1>5, FS_Injection
<1> QED
  BY <1>1, <1>3, <1>6 DEF s, Surjection, IsInjective
=============================================================================
