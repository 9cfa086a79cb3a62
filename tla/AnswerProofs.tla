---------------------------- MODULE AnswerProofs ----------------------------
(***************************************************************************)
(* Proofs about modules Values and Answers, for all objects, questions and *)
(* replies: what the parsers make of a reply is what the server says.      *)
(***************************************************************************)
EXTENDS Answers, ReplyProofs

-----------------------------------------------------------------------------
(* What the replies of a server mean.                                      *)

LEMMA MeansOf ==
  ASSUME NEW n \in Nat, NEW s, DOMAIN s = 1..n
  PROVE  Means(s) = [i \in 1..n |-> s[i].means] /\ Len(Means(s)) = n
<1>1. Means(s) = [i \in 1..n |-> s[i].means]
  BY DEF Means
<1> DEFINE R == {s[i].means : i \in 1..n}
<1>2. Means(s) \in [1..n -> R]
  BY <1>1
<1> QED
  BY <1>1, <1>2

LEMMA MeansFew ==
  /\ \A a : Means(<<a>>) = <<a.means>>
  /\ \A a, b : Means(<<a, b>>) = <<a.means, b.means>>
  /\ \A a, b, c : Means(<<a, b, c>>) = <<a.means, b.means, c.means>>
  /\ \A a, b, c, d : Means(<<a, b, c, d>>) = <<a.means, b.means, c.means, d.means>>
  /\ \A a, b, c, d, e :
       Means(<<a, b, c, d, e>>) = <<a.means, b.means, c.means, d.means, e.means>>
<1> QED
  BY DEF Means

\* Texts of a few parts, joined.
LEMMA JoinNone ==
  /\ \A a : <<a>> \o <<>> = <<a>>
  /\ \A a, b : <<a, b>> \o <<>> = <<a, b>>
  /\ \A a, b, c, d : <<a, b, c, d>> \o <<>> = <<a, b, c, d>>
<1>1. ASSUME NEW a, NEW b, NEW c, NEW d
      PROVE  <<a>> \o <<>> = <<a>> /\ <<a, b>> \o <<>> = <<a, b>> /\ <<a, b, c, d>> \o <<>> = <<a, b, c, d>>
  <2> DEFINE S == {a, b, c, d}
  <2>1. <<a>> \in Seq(S) /\ <<a, b>> \in Seq(S) /\ <<a, b, c, d>> \in Seq(S)
    OBVIOUS
  <2> QED
    BY <2>1, ConcatEmptySeq
<1> QED
  BY <1>1

Extends(w, s, e) ==
  Len(w) = Len(s) + 1 /\ (\A i \in 1..Len(s) : w[i] = s[i]) /\ w[Len(s) + 1] = e

LEMMA JoinOne ==
  ASSUME NEW S, NEW s \in Seq(S), NEW e \in S, NEW w \in Seq(S), Extends(w, s, e)
  PROVE  s \o <<e>> = w
<1>1. /\ Append(s, e) \in Seq(S) /\ Len(Append(s, e)) = Len(s) + 1
      /\ \A i \in 1..Len(s) : Append(s, e)[i] = s[i]
      /\ Append(s, e)[Len(s) + 1] = e
  BY AppendProperties
<1>2. Len(s) \in Nat
  BY LenProperties
<1>3. Len(w) = Len(s) + 1 /\ \A i \in 1..Len(w) : w[i] = Append(s, e)[i]
  BY <1>1, <1>2 DEF Extends
<1>4. w = Append(s, e)
  BY <1>1, <1>3, SeqEqual
<1> QED
  BY <1>4, AppendIsConcat

LEMMA JoinFew ==
  /\ \A a, b : <<a>> \o <<b>> = <<a, b>>
  /\ \A a, b, c : <<a, b>> \o <<c>> = <<a, b, c>>
  /\ \A a, b, c, d : <<a, b, c>> \o <<d>> = <<a, b, c, d>>
  /\ \A a, b, c, d, e : <<a, b, c, d>> \o <<e>> = <<a, b, c, d, e>>
<1>1. ASSUME NEW a, NEW b PROVE <<a>> \o <<b>> = <<a, b>>
  <2> DEFINE S == {a, b}
             w == <<a, b>>
  <2>1. <<a>> \in Seq(S) /\ w \in Seq(S) /\ Len(<<a>>) = 1 /\ Len(w) = 2
    OBVIOUS
  <2>2. w[2] = b /\ \A i \in 1..1 : w[i] = <<a>>[i]
    OBVIOUS
  <2> HIDE DEF w
  <2>3. Extends(w, <<a>>, b) /\ b \in S
    BY <2>1, <2>2 DEF Extends
  <2>4. <<a>> \o <<b>> = w
    BY <2>1, <2>3, JoinOne
  <2> QED
    BY <2>4 DEF w
<1>2. ASSUME NEW a, NEW b, NEW c PROVE <<a, b>> \o <<c>> = <<a, b, c>>
  <2> DEFINE S == {a, b, c}
             s == <<a, b>>
             w == <<a, b, c>>
  <2>1. s \in Seq(S) /\ w \in Seq(S) /\ Len(s) = 2 /\ Len(w) = 3
    OBVIOUS
  <2>2. w[3] = c /\ \A i \in 1..2 : w[i] = s[i]
    OBVIOUS
  <2> HIDE DEF s, w
  <2>3. Extends(w, s, c) /\ c \in S
    BY <2>1, <2>2 DEF Extends
  <2>4. s \o <<c>> = w
    BY <2>1, <2>3, JoinOne
  <2> QED
    BY <2>4 DEF s, w
<1>3. ASSUME NEW a, NEW b, NEW c, NEW d PROVE <<a, b, c>> \o <<d>> = <<a, b, c, d>>
  <2> DEFINE S == {a, b, c, d}
             s == <<a, b, c>>
             w == <<a, b, c, d>>
  <2>1. s \in Seq(S) /\ w \in Seq(S) /\ Len(s) = 3 /\ Len(w) = 4
    OBVIOUS
  <2>2. w[4] = d /\ \A i \in 1..3 : w[i] = s[i]
    OBVIOUS
  <2> HIDE DEF s, w
  <2>3. Extends(w, s, d) /\ d \in S
    BY <2>1, <2>2 DEF Extends
  <2>4. s \o <<d>> = w
    BY <2>1, <2>3, JoinOne
  <2> QED
    BY <2>4 DEF s, w
<1>4. ASSUME NEW a, NEW b, NEW c, NEW d, NEW e
      PROVE  <<a, b, c, d>> \o <<e>> = <<a, b, c, d, e>>
  <2> DEFINE S == {a, b, c, d, e}
             s == <<a, b, c, d>>
             w == <<a, b, c, d, e>>
  <2>1. s \in Seq(S) /\ w \in Seq(S) /\ Len(s) = 4 /\ Len(w) = 5
    OBVIOUS
  <2>2. w[5] = e /\ \A i \in 1..4 : w[i] = s[i]
    OBVIOUS
  <2> HIDE DEF s, w
  <2>3. Extends(w, s, e) /\ e \in S
    BY <2>1, <2>2 DEF Extends
  <2>4. s \o <<e>> = w
    BY <2>1, <2>3, JoinOne
  <2> QED
    BY <2>4 DEF s, w
<1> QED
  BY <1>1, <1>2, <1>3, <1>4

\* Numbers, as integers or as text.
LEMMA NumIs ==
  ASSUME NEW n \in Numbers
  PROVE  /\ IsNum(Text(n).means) /\ AsNum(Text(n).means) = n
         /\ \A typed : IsNum(AsReply(n, typed).means) /\ AsNum(AsReply(n, typed).means) = n
<1>1. IsNumber(Sym(n)) /\ NumberOf(Sym(n)) = n
  BY SymIs
<1> QED
  BY <1>1 DEF IsNum, AsNum, Text, AsReply, Str, Num, StrValue, NumValue

\* Pairs of names and texts, parsed.
Every(q, n, F) == q \in [1..n -> F] /\ \A x \in F : \E i \in 1..n : q[i] = x
Names(v, n, q) ==
  /\ DOMAIN v = 1..2 * n /\ Len(v) = 2 * n
  /\ \A i \in 1..n : /\ v[2 * i - 1] = StrValue(q[i][1]) /\ v[2 * i] = StrValue(q[i][2])
                     /\ q[i] = <<q[i][1], q[i][2]>>

LEMMA PairsParsed ==
  ASSUME NEW n \in Nat, n # 0, NEW v, NEW F, NEW q, Every(q, n, F), Names(v, n, q)
  PROVE  ParseFields(ArrValue(v)) = F
<1> DEFINE names == {i \in DOMAIN v : i % 2 = 1}
<1>1. \A i \in 1..n : 2 * i - 1 \in names
  BY DEF Names
<1>2. \A i \in names : \E j \in 1..n : i = 2 * j - 1
  <2> TAKE i \in names
  <2>1. i \in 1..2 * n /\ i % 2 = 1
    BY DEF Names
  <2> DEFINE h == i \div 2
  <2>2. h \in Int /\ i = 2 * h + 1
    BY <2>1
  <2> HIDE DEF h
  <2>3. h + 1 \in 1..n /\ i = 2 * (h + 1) - 1
    BY <2>1, <2>2
  <2> QED
    BY <2>3
<1> HIDE DEF names
<1>3. \A j \in 1..n : /\ v[2 * j - 1].t = "str" /\ v[2 * j - 1].v = q[j][1]
                      /\ FieldString(v[2 * j - 1 + 1]) = q[j][2]
  <2> TAKE j \in 1..n
  <2>1. v[2 * j - 1] = StrValue(q[j][1]) /\ v[2 * j] = StrValue(q[j][2]) /\ 2 * j - 1 + 1 = 2 * j
    BY DEF Names
  <2>2. FieldString(v[2 * j]) = q[j][2]
    <3> DEFINE x == v[2 * j]
    <3>1. x.t = "str" /\ x.v = q[j][2]
      BY <2>1 DEF StrValue
    <3> HIDE DEF x
    <3> QED
      BY <3>1 DEF FieldString, x
  <2> QED
    BY <2>1, <2>2 DEF StrValue
<1> DEFINE P(i) == <<v[i].v, FieldString(v[i + 1])>>
           parsed == {P(i) : i \in names}
<1>4. \A i \in names : v[i].t = "str" /\ P(i) \in F
  <2> TAKE i \in names
  <2>1. PICK j \in 1..n : i = 2 * j - 1
    BY <1>2
  <2>2. v[i].t = "str" /\ P(i) = q[j]
    BY <1>3, <2>1 DEF Names
  <2>3. q[j] \in F
    BY DEF Every
  <2> QED
    BY <2>2, <2>3
<1>5. \A x \in F : \E i \in names : x = P(i)
  <2> TAKE x \in F
  <2>1. PICK j \in 1..n : q[j] = x
    BY DEF Every
  <2>2. 2 * j - 1 \in names /\ P(2 * j - 1) = q[j]
    BY <1>1, <1>3 DEF Names
  <2> QED
    BY <2>1, <2>2
<1> HIDE DEF P
<1>6. parsed = F
  BY <1>4, <1>5
<1>7. ParseFields(ArrValue(v)) = parsed
  <2> DEFINE r == ArrValue(v)
             m == 2 * n
  <2>1. r.of = v /\ r.t = "arr"
    BY DEF ArrValue
  <2>2. Len(v) = m /\ m >= 1 /\ m % 2 = 0 /\ m \in Nat
    BY DEF Names
  <2>3. \A i \in names : v[i].t = "str"
    BY <1>4
  <2> HIDE DEF r, m
  <2>4. IsArr(r, 1) /\ Len(r.of) % 2 = 0
    BY <2>1, <2>2 DEF IsArr
  <2>5. ~\E i \in names : r.of[i].t # "str"
    BY <2>1, <2>3
  <2>6. names = {i \in DOMAIN r.of : i % 2 = 1}
    BY <2>1 DEF names
  <2>7. ParseFields(r) = {<<r.of[i].v, FieldString(r.of[i + 1])>> : i \in names}
    BY <2>4, <2>5, <2>6, Zenon DEF ParseFields
  <2> QED
    BY <2>1, <2>7 DEF P, r
<1> QED
  BY <1>6, <1>7

\* The fields of an object, which are not there when it has none.
LEMMA FieldsRead ==
  ASSUME NEW o, IsFields(o.fields), o.fields # {}
  PROVE  \E p : FieldsPart(o) = <<p>> /\ ParseFields(p.means) = o.fields
<1> DEFINE F == o.fields
           S == {Str(t) : t \in Seq(STRING)}
           q == SetToSeq(F)
<1>1. IsFiniteSet(F) /\ F \subseteq Seq(STRING) \X Seq(STRING) /\ F # {}
  BY DEF IsFields
<1>2. \E n \in Nat : /\ n = Cardinality(F) /\ q \in [1..n -> F]
                     /\ \A i, j \in 1..n : q[i] = q[j] => i = j
                     /\ \A x \in F : \E i \in 1..n : q[i] = x
  <2> HIDE DEF F
  <2> QED
    BY <1>1, SetToSeqIs
<1> HIDE DEF q, F
<1>3. PICK n \in Nat : Every(q, n, F)
  BY <1>2 DEF Every
<1>4. n # 0 /\ DOMAIN q = 1..n
  BY <1>1, <1>3 DEF Every
<1>5. \A i \in 1..n : q[i] = <<q[i][1], q[i][2]>> /\ q[i][1] \in Seq(STRING) /\ q[i][2] \in Seq(STRING)
  <2> TAKE i \in 1..n
  <2>1. q[i] \in Seq(STRING) \X Seq(STRING)
    BY <1>1, <1>3 DEF Every
  <2> QED
    BY <2>1
<1> DEFINE a == [i \in 1..n |-> Str(q[i][1])]
           b == [i \in 1..n |-> Str(q[i][2])]
           w == FlattenSeq([i \in 1..n |-> <<a[i], b[i]>>])
<1>6. a \in [1..n -> S] /\ b \in [1..n -> S]
  BY <1>5
<1>7. IsPairs(w, S, n, a, b)
  <2> HIDE DEF a, b, S
  <2> QED
    BY <1>6, PairsFlat
<1>8. FieldsPart(o) = <<Arr(w)>>
  <2>1. [i \in DOMAIN q |-> LET f == q[i] IN <<Str(f[1]), Str(f[2])>>] = [i \in 1..n |-> <<a[i], b[i]>>]
    BY <1>4
  <2> QED
    BY <1>1, <2>1 DEF FieldsPart, q, F
<1> HIDE DEF w
<1> DEFINE v == Means(w)
<1>9. /\ Len(w) = 2 * n /\ DOMAIN w = 1..2 * n
      /\ \A i \in 1..n : w[2 * i - 1] = Str(q[i][1]) /\ w[2 * i] = Str(q[i][2])
  <2>1. /\ w \in Seq(S) /\ Len(w) = 2 * n
        /\ \A i \in 1..n : w[2 * i - 1] = a[i] /\ w[2 * i] = b[i]
    BY <1>7 DEF IsPairs
  <2> HIDE DEF S
  <2>2. DOMAIN w = 1..2 * n
    BY <2>1, LenProperties
  <2> QED
    BY <2>1, <2>2
<1>10. v = [i \in 1..2 * n |-> w[i].means] /\ Len(v) = 2 * n
  <2> DEFINE m == 2 * n
  <2>1. m \in Nat /\ DOMAIN w = 1..m
    BY <1>9
  <2> HIDE DEF m
  <2>2. v = [i \in 1..m |-> w[i].means] /\ Len(v) = m
    BY <2>1, MeansOf
  <2> QED
    BY <2>2 DEF m
<1>11. \A i \in 1..n : v[2 * i - 1] = StrValue(q[i][1]) /\ v[2 * i] = StrValue(q[i][2])
  <2> TAKE i \in 1..n
  <2>1. 2 * i - 1 \in 1..2 * n /\ 2 * i \in 1..2 * n
    OBVIOUS
  <2>2. w[2 * i - 1] = Str(q[i][1]) /\ w[2 * i] = Str(q[i][2])
    BY <1>9
  <2>3. v[2 * i - 1] = Str(q[i][1]).means /\ v[2 * i] = Str(q[i][2]).means
    BY <1>10, <2>1, <2>2
  <2> QED
    BY <2>3 DEF Str
<1>12. DOMAIN v = 1..2 * n
  BY <1>10
<1> HIDE DEF v
<1>13. ParseFields(ArrValue(v)) = F
  <2>1. Names(v, n, q)
    BY <1>5, <1>10, <1>11, <1>12 DEF Names
  <2> QED
    BY <1>3, <1>4, <2>1, PairsParsed
<1>14. Arr(w).means = ArrValue(v)
  BY DEF Arr, v
<1> QED
  BY <1>8, <1>13, <1>14 DEF F

-----------------------------------------------------------------------------
(* Items of a page.                                                        *)

\* What an array of a few parts means.
LEMMA ArrFew ==
  /\ \A a : Arr(<<a>>).means = ArrValue(<<a.means>>)
  /\ \A a, b : Arr(<<a, b>>).means = ArrValue(<<a.means, b.means>>)
  /\ \A a, b, c : Arr(<<a, b, c>>).means = ArrValue(<<a.means, b.means, c.means>>)
  /\ \A a, b, c, d : Arr(<<a, b, c, d>>).means = ArrValue(<<a.means, b.means, c.means, d.means>>)
<1>1. \A of : Arr(of).means = ArrValue(Means(of))
  BY DEF Arr
<1> QED
  BY <1>1, MeansFew

LEMMA ArrIs ==
  \A s : /\ ArrValue(s).t = "arr" /\ ArrValue(s).of = s
         /\ \A n \in Nat : IsArr(ArrValue(s), n) <=> Len(s) >= n
<1> QED
  BY DEF ArrValue, IsArr

\* An item has its fields third, when it has any, with and without a distance behind.
PlainItem(item, o, a, b) ==
  /\ \E s : item = ArrValue(s) /\ Len(s) \in {2, 3} /\ s[1] = a.means /\ s[2] = b.means
  /\ FieldsOf(item, 3) = o.fields
FarItem(item, o, a, b, c) ==
  /\ \E s : /\ item = ArrValue(s) /\ Len(s) \in {3, 4} /\ s[1] = a.means /\ s[2] = b.means
            /\ Last(s) = c.means
  /\ FieldsOf(item, 4) = o.fields

LEMMA FieldsThird ==
  ASSUME NEW o, IsFields(o.fields), NEW a, NEW b
  PROVE  /\ PlainItem(Arr(<<a, b>> \o FieldsPart(o)).means, o, a, b)
         /\ \A c : FarItem(Arr(<<a, b>> \o FieldsPart(o) \o <<c>>).means, o, a, b, c)
<1> SUFFICES ASSUME NEW c
    PROVE  /\ PlainItem(Arr(<<a, b>> \o FieldsPart(o)).means, o, a, b)
           /\ FarItem(Arr(<<a, b>> \o FieldsPart(o) \o <<c>>).means, o, a, b, c)
  OBVIOUS
<1>1. CASE o.fields = {}
  <2>1. FieldsPart(o) = <<>>
    BY <1>1 DEF FieldsPart
  <2>2. <<a, b>> \o FieldsPart(o) = <<a, b>>
    BY <2>1, JoinNone
  <2>9. <<a, b>> \o FieldsPart(o) \o <<c>> = <<a, b, c>>
    BY <2>2, JoinFew
  <2> DEFINE s == <<a.means, b.means>>
             t == <<a.means, b.means, c.means>>
  <2>3. Arr(<<a, b>>).means = ArrValue(s) /\ Arr(<<a, b, c>>).means = ArrValue(t)
    BY ArrFew
  <2>4. Len(s) = 2 /\ s[1] = a.means /\ s[2] = b.means
    OBVIOUS
  <2>5. Len(t) = 3 /\ t[1] = a.means /\ t[2] = b.means /\ Last(t) = c.means
    BY DEF Last
  <2> HIDE DEF s, t
  <2>6. FieldsOf(ArrValue(s), 3) = {} /\ FieldsOf(ArrValue(t), 4) = {}
    <3>1. ArrValue(s).of = s /\ ArrValue(t).of = t
      BY ArrIs
    <3>2. ~(Len(s) >= 3) /\ ~(Len(t) >= 4)
      BY <2>4, <2>5
    <3> QED
      BY <3>1, <3>2, Zenon DEF FieldsOf
  <2>7. Len(s) \in {2, 3} /\ Len(t) \in {3, 4}
    BY <2>4, <2>5
  <2> QED
    BY <1>1, <2>2, <2>3, <2>4, <2>5, <2>6, <2>7, <2>9 DEF PlainItem, FarItem
<1>2. CASE o.fields # {}
  <2>1. PICK p : FieldsPart(o) = <<p>> /\ ParseFields(p.means) = o.fields
    BY <1>2, FieldsRead
  <2>2. <<a, b>> \o FieldsPart(o) = <<a, b, p>>
    BY <2>1, JoinFew
  <2>9. <<a, b>> \o FieldsPart(o) \o <<c>> = <<a, b, p, c>>
    <3>1. <<a, b, p>> \o <<c>> = <<a, b, p, c>>
      BY JoinFew
    <3> QED
      BY <2>2, <3>1, Zenon
  <2> DEFINE s == <<a.means, b.means, p.means>>
             t == <<a.means, b.means, p.means, c.means>>
  <2>3. Arr(<<a, b, p>>).means = ArrValue(s) /\ Arr(<<a, b, p, c>>).means = ArrValue(t)
    BY ArrFew
  <2>4. Len(s) = 3 /\ s[1] = a.means /\ s[2] = b.means /\ s[3] = p.means
    OBVIOUS
  <2>5. Len(t) = 4 /\ t[1] = a.means /\ t[2] = b.means /\ t[3] = p.means /\ Last(t) = c.means
    BY DEF Last
  <2> HIDE DEF s, t
  <2>6. FieldsOf(ArrValue(s), 3) = o.fields /\ FieldsOf(ArrValue(t), 4) = o.fields
    <3>1. ArrValue(s).of = s /\ ArrValue(t).of = t
      BY ArrIs
    <3>2. Len(s) >= 3 /\ Len(t) >= 4
      BY <2>4, <2>5
    <3> QED
      BY <2>1, <2>4, <2>5, <3>1, <3>2, Zenon DEF FieldsOf
  <2>7. Len(s) \in {2, 3} /\ Len(t) \in {3, 4}
    BY <2>4, <2>5
  <2> QED
    BY <2>2, <2>3, <2>4, <2>5, <2>6, <2>7, <2>9 DEF PlainItem, FarItem
<1> QED
  BY <1>1, <1>2

\* Coordinates, of which a zero z is not written.
LEMMA CoordsRead ==
  ASSUME NEW o, IsObject(o)
  PROVE  /\ ParseCoords(Coords(o).means) = [lat |-> o.lat, lon |-> o.lon, z |-> o.z]
         /\ ~Failed(ParseCoords(Coords(o).means))
<1>1. o.lat \in Numbers /\ o.lon \in Numbers /\ o.z \in Numbers
  BY DEF IsObject
<1> DEFINE a == Text(o.lat).means
           b == Text(o.lon).means
           c == Text(o.z).means
<1>2. IsNum(a) /\ AsNum(a) = o.lat /\ IsNum(b) /\ AsNum(b) = o.lon /\ IsNum(c) /\ AsNum(c) = o.z
  BY <1>1, NumIs
<1>3. CASE o.z = 0
  <2>1. Coords(o).means = ArrValue(<<a, b>>)
    BY <1>3, JoinNone, ArrFew DEF Coords
  <2> DEFINE s == <<a, b>>
  <2>2. Len(s) = 2 /\ s[1] = a /\ s[2] = b
    OBVIOUS
  <2> HIDE DEF s, a, b, c
  <2>3. ~\E i \in 1..3 : i <= Len(ArrValue(s).of) /\ ~IsNum(ArrValue(s).of[i])
    <3>1. \A i \in 1..3 : i <= 2 => i = 1 \/ i = 2
      OBVIOUS
    <3> QED
      BY <1>2, <2>2, <3>1, ArrIs
  <2>4. ParseCoords(ArrValue(s)) = [lat |-> AsNum(a), lon |-> AsNum(b), z |-> 0]
    <3> DEFINE r == ArrValue(s)
    <3>1. r.of = s /\ IsArr(r, 2)
      BY <2>2, ArrIs
    <3>2. ~\E i \in 1..3 : i <= Len(r.of) /\ ~IsNum(r.of[i])
      BY <2>3
    <3> HIDE DEF r
    <3>3. ParseCoords(r) = [lat |-> AsNum(r.of[1]), lon |-> AsNum(r.of[2]),
                            z |-> IF Len(r.of) > 2 THEN AsNum(r.of[3]) ELSE 0]
      BY <3>1, <3>2, Zenon DEF ParseCoords
    <3> QED
      BY <2>2, <3>1, <3>3 DEF r
  <2> QED
    BY <1>2, <1>3, <2>1, <2>4 DEF Failed, s
<1>4. CASE o.z # 0
  <2>1. Coords(o).means = ArrValue(<<a, b, c>>)
    <3>1. Coords(o) = Arr(<<Text(o.lat), Text(o.lon), Text(o.z)>>)
      BY <1>4, JoinFew DEF Coords
    <3> QED
      BY <3>1, ArrFew
  <2> DEFINE s == <<a, b, c>>
  <2>2. Len(s) = 3 /\ s[1] = a /\ s[2] = b /\ s[3] = c
    OBVIOUS
  <2> HIDE DEF s, a, b, c
  <2>3. ~\E i \in 1..3 : i <= Len(ArrValue(s).of) /\ ~IsNum(ArrValue(s).of[i])
    <3>1. \A i \in 1..3 : i = 1 \/ i = 2 \/ i = 3
      OBVIOUS
    <3> QED
      BY <1>2, <2>2, <3>1, ArrIs
  <2>4. ParseCoords(ArrValue(s)) = [lat |-> AsNum(a), lon |-> AsNum(b), z |-> AsNum(c)]
    <3> DEFINE r == ArrValue(s)
    <3>1. r.of = s /\ IsArr(r, 2)
      BY <2>2, ArrIs
    <3>2. ~\E i \in 1..3 : i <= Len(r.of) /\ ~IsNum(r.of[i])
      BY <2>3
    <3> HIDE DEF r
    <3>3. ParseCoords(r) = [lat |-> AsNum(r.of[1]), lon |-> AsNum(r.of[2]),
                            z |-> IF Len(r.of) > 2 THEN AsNum(r.of[3]) ELSE 0]
      BY <3>1, <3>2, Zenon DEF ParseCoords
    <3> QED
      BY <2>2, <3>1, <3>3 DEF r
  <2> QED
    BY <1>2, <2>1, <2>4 DEF Failed, s
<1> QED
  BY <1>3, <1>4

Box(a, b, c, d) == Arr(<<Arr(<<Text(a), Text(b)>>), Arr(<<Text(c), Text(d)>>)>>).means

BoxRead(a, b, c, d) ==
  /\ ParseBounds(Box(a, b, c, d), FALSE) = [sw |-> <<a, b>>, ne |-> <<c, d>>]
  /\ ParseBounds(Box(a, b, c, d), TRUE) = [sw |-> <<b, a>>, ne |-> <<d, c>>]
  /\ ~Failed(ParseBounds(Box(a, b, c, d), FALSE)) /\ ~Failed(ParseBounds(Box(a, b, c, d), TRUE))

\* Two corners, whichever comes first.
LEMMA CornersRead ==
  ASSUME NEW a \in Numbers, NEW b \in Numbers, NEW c \in Numbers, NEW d \in Numbers
  PROVE  BoxRead(a, b, c, d)
<1> DEFINE p == Text(a).means
           q == Text(b).means
           r == Text(c).means
           s == Text(d).means
           pq == ArrValue(<<p, q>>)
           rs == ArrValue(<<r, s>>)
           box == Box(a, b, c, d)
<1>1. /\ IsNum(p) /\ AsNum(p) = a /\ IsNum(q) /\ AsNum(q) = b
      /\ IsNum(r) /\ AsNum(r) = c /\ IsNum(s) /\ AsNum(s) = d
  BY NumIs
<1>2. box = ArrValue(<<pq, rs>>)
  BY ArrFew DEF Box
<1>3. /\ pq.of[1] = p /\ pq.of[2] = q /\ IsArr(pq, 2)
      /\ rs.of[1] = r /\ rs.of[2] = s /\ IsArr(rs, 2)
  <2> HIDE DEF p, q, r, s
  <2>1. Len(<<p, q>>) = 2 /\ Len(<<r, s>>) = 2
    OBVIOUS
  <2>2. pq.of = <<p, q>> /\ rs.of = <<r, s>> /\ IsArr(pq, 2) /\ IsArr(rs, 2)
    BY <2>1 DEF ArrValue, IsArr
  <2> QED
    BY <2>2
<1> HIDE DEF pq, rs, p, q, r, s
<1>4. box.of[1] = pq /\ box.of[2] = rs /\ IsArr(box, 2)
  <2>1. Len(<<pq, rs>>) = 2
    OBVIOUS
  <2>2. box.of = <<pq, rs>> /\ IsArr(box, 2)
    <3>1. ArrValue(<<pq, rs>>).of = <<pq, rs>> /\ IsArr(ArrValue(<<pq, rs>>), 2)
      BY <2>1 DEF ArrValue, IsArr
    <3> QED
      BY <1>2, <3>1
  <2> QED
    BY <2>2
<1> HIDE DEF box
<1> QED
  BY <1>1, <1>3, <1>4 DEF BoxRead, ParseBounds, Failed, box, Unexpected

\* An item is what a caller should see of the object.
LEMMA ItemRead ==
  ASSUME NEW f \in Outputs, NEW o, IsObject(o)
  PROVE  /\ ParseItem(f, Item(f, o).means) = Shown(f, o)
         /\ ~Failed(ParseItem(f, Item(f, o).means))
<1> DEFINE id == Str(o.id)
           far == Text(o.dist)
           P(b) == Arr(<<id, b>> \o FieldsPart(o)).means
           D(b) == Arr(<<id, b>> \o FieldsPart(o) \o <<far>>).means
<1>1. id.means.t = "str" /\ id.means.v = o.id
  BY DEF Str, StrValue
<1>2. \A b : /\ P(b).t = "arr" /\ Len(P(b).of) \in {2, 3} /\ P(b).of[1] = id.means /\ P(b).of[2] = b.means
             /\ FieldsOf(P(b), 3) = o.fields
  <2> TAKE b
  <2>1. IsFields(o.fields)
    BY DEF IsObject
  <2>4. PlainItem(P(b), o, id, b)
    BY <2>1, FieldsThird
  <2>2. FieldsOf(P(b), 3) = o.fields
    BY <2>4 DEF PlainItem
  <2>3. PICK s : P(b) = ArrValue(s) /\ Len(s) \in {2, 3} /\ s[1] = id.means /\ s[2] = b.means
    BY <2>4 DEF PlainItem
  <2> QED
    BY <2>2, <2>3, ArrIs
<1>3. \A b : /\ D(b).t = "arr" /\ Len(D(b).of) \in {3, 4} /\ D(b).of[1] = id.means /\ D(b).of[2] = b.means
             /\ Last(D(b).of) = far.means /\ FieldsOf(D(b), 4) = o.fields
  <2> TAKE b
  <2>1. IsFields(o.fields)
    BY DEF IsObject
  <2>4. FarItem(D(b), o, id, b, far)
    BY <2>1, FieldsThird
  <2>2. FieldsOf(D(b), 4) = o.fields
    BY <2>4 DEF FarItem
  <2>3. PICK s : /\ D(b) = ArrValue(s) /\ Len(s) \in {3, 4} /\ s[1] = id.means /\ s[2] = b.means
                 /\ Last(s) = far.means
    BY <2>4 DEF FarItem
  <2> QED
    BY <2>2, <2>3, ArrIs
<1>4. IsNum(far.means) /\ AsNum(far.means) = o.dist
  BY NumIs DEF IsObject
<1>5. \A b : HasId(P(b), 2) /\ HasId(D(b), 3)
  <2> TAKE b
  <2>1. P(b).t = "arr" /\ Len(P(b).of) \in {2, 3} /\ P(b).of[1] = id.means
    BY <1>2
  <2>2. D(b).t = "arr" /\ Len(D(b).of) \in {3, 4} /\ D(b).of[1] = id.means
    BY <1>3
  <2> HIDE DEF P, D, id
  <2> DEFINE x == P(b)
             y == D(b)
  <2>3. Len(x.of) >= 2 /\ Len(y.of) >= 3
    <3>1. (\A k \in {2, 3} : k >= 2) /\ \A k \in {3, 4} : k >= 3
      OBVIOUS
    <3> QED
      BY <2>1, <2>2, <3>1, Zenon
  <2>4. x.of[1].t = "str" /\ y.of[1].t = "str"
    BY <1>1, <2>1, <2>2
  <2>5. x.t = "arr" /\ y.t = "arr"
    BY <2>1, <2>2
  <2> HIDE DEF x, y
  <2>6. HasId(x, 2) /\ HasId(y, 3)
    BY <2>3, <2>4, <2>5, Zenon DEF HasId, IsArr
  <2> QED
    BY <2>6 DEF x, y
<1>6. /\ ParseCoords(Coords(o).means) = [lat |-> o.lat, lon |-> o.lon, z |-> o.z]
      /\ ~Failed(ParseCoords(Coords(o).means))
  BY CoordsRead
<1>7. ParseBounds(Corners(o).means, FALSE) = [sw |-> <<o.lat, o.lon>>, ne |-> <<o.lat, o.z>>]
      /\ ~Failed(ParseBounds(Corners(o).means, FALSE))
  <2>1. o.lat \in Numbers /\ o.lon \in Numbers /\ o.z \in Numbers
    BY DEF IsObject
  <2>2. Corners(o).means = Box(o.lat, o.lon, o.lat, o.z)
    BY Zenon DEF Corners, Box
  <2>3. BoxRead(o.lat, o.lon, o.lat, o.z)
    BY <2>1, CornersRead
  <2> QED
    BY <2>2, <2>3, Zenon DEF BoxRead
<1>8. Item("POINTS", o).means = P(Coords(o)) /\ Item("DISTANCE", o).means = D(Coords(o))
      /\ Item("OBJECTS", o).means = P(id) /\ Item("BOUNDS", o).means = P(Corners(o))
      /\ Item("IDS", o).means = id.means
      /\ Item("A5", o).means = ArrValue(<<id.means, id.means>>)
  BY ArrFew DEF Item
<1> HIDE DEF P, D, id, far
<1>9. CASE f = "IDS"
  <2>1. ParseId(id.means) = [id |-> o.id]
    BY <1>1 DEF ParseId
  <2> QED
    BY <1>8, <1>9, <2>1 DEF ParseItem, Shown, Failed
<1>10. CASE f = "POINTS"
  <2>1. ParsePoint(P(Coords(o))) = [id |-> o.id, at |-> [lat |-> o.lat, lon |-> o.lon, z |-> o.z],
                                    fields |-> o.fields]
    BY <1>1, <1>2, <1>5, <1>6 DEF ParsePoint
  <2> QED
    BY <1>8, <1>10, <2>1 DEF ParseItem, Shown, Failed
<1>11. CASE f = "DISTANCE"
  <2>1. ParseDistance(D(Coords(o))) =
          [id |-> o.id, at |-> [lat |-> o.lat, lon |-> o.lon, z |-> o.z],
           fields |-> o.fields, dist |-> o.dist]
    BY <1>1, <1>3, <1>4, <1>5, <1>6 DEF ParseDistance
  <2> QED
    BY <1>8, <1>11, <2>1 DEF ParseItem, Shown, Failed
<1>12. CASE f = "OBJECTS"
  <2>1. ParseStringItem(P(id)) = [id |-> o.id, text |-> o.id, fields |-> o.fields]
    BY <1>1, <1>2, <1>5 DEF ParseStringItem
  <2> QED
    BY <1>8, <1>12, <2>1 DEF ParseItem, Shown, Failed
<1>13. CASE f = "A5"
  <2> DEFINE s == <<id.means, id.means>>
             r == ArrValue(s)
  <2>1. Len(s) = 2 /\ s[1] = id.means /\ s[2] = id.means
    OBVIOUS
  <2>2. r.t = "arr" /\ r.of = s
    BY ArrIs
  <2> HIDE DEF s, r
  <2>3. HasId(r, 2)
    <3>1. r.of[1].t = "str"
      BY <1>1, <2>1, <2>2, Zenon
    <3>2. Len(r.of) = 2
      BY <2>1, <2>2, Zenon
    <3> QED
      <4>1. Len(r.of) >= 2
        BY <3>2
      <4> QED
        BY <2>2, <3>1, <4>1, Zenon DEF HasId, IsArr
  <2>4. ParseStringItem(r) = [id |-> o.id, text |-> o.id, fields |-> FieldsOf(r, 3)]
    BY <1>1, <2>1, <2>2, <2>3 DEF ParseStringItem
  <2>5. ParseA5(r) = [id |-> o.id, text |-> o.id]
    BY <2>4 DEF ParseA5, Failed
  <2> QED
    BY <1>8, <1>13, <2>5 DEF ParseItem, Shown, Failed, r, s
<1>14. CASE f = "BOUNDS"
  <2>1. ParseRect(P(Corners(o))) =
          [id |-> o.id, fields |-> o.fields,
           box |-> [sw |-> <<o.lat, o.lon>>, ne |-> <<o.lat, o.z>>]]
    BY <1>1, <1>2, <1>5, <1>7 DEF ParseRect
  <2> QED
    BY <1>8, <1>14, <2>1 DEF ParseItem, Shown, Failed
<1> QED
  BY <1>9, <1>10, <1>11, <1>12, <1>13, <1>14 DEF Outputs

-----------------------------------------------------------------------------
(* Pages.                                                                  *)

\* A page is its cursor, and what a caller should see of its objects, in their order.
LEMMA PageRead ==
  ASSUME NEW f \in Outputs, NEW c \in Nat, NEW n \in Nat, NEW p, DOMAIN p = 1..n,
         \A i \in 1..n : IsObject(p[i])
  PROVE  Decode(f, PageOf(f, p, c).means) = [cursor |-> c, items |-> [i \in DOMAIN p |-> Shown(f, p[i])]]
<1> DEFINE its == [i \in DOMAIN p |-> Item(f, p[i])]
           ms == Means(its)
           v == Num(c).means
           r == PageOf(f, p, c).means
<1>1. ms = [i \in 1..n |-> Item(f, p[i]).means] /\ Len(ms) = n
  <2>1. DOMAIN its = 1..n /\ \A i \in 1..n : its[i] = Item(f, p[i])
    OBVIOUS
  <2> HIDE DEF its
  <2>2. ms = [i \in 1..n |-> its[i].means] /\ Len(ms) = n
    BY <2>1, MeansOf
  <2> QED
    BY <2>1, <2>2
<1>2. r = ArrValue(<<v, ArrValue(ms)>>)
  <2>1. Arr(its).means = ArrValue(ms)
    BY DEF Arr
  <2>2. PageOf(f, p, c) = Arr(<<Num(c), Arr(its)>>)
    BY DEF PageOf
  <2> QED
    BY <2>1, <2>2, ArrFew
<1>3. IsNum(v) /\ AsNum(v) = c
  BY DEF IsNum, AsNum, Num, NumValue
<1> DEFINE a == ArrValue(ms)
           s == <<v, a>>
<1>4. a.of = ms /\ IsArr(a, 0)
  <2>1. Len(ms) >= 0
    BY <1>1
  <2> QED
    BY <2>1, ArrIs
<1>5. Len(s) = 2 /\ s[1] = v /\ s[2] = a
  OBVIOUS
<1>6. r.of = s /\ IsArr(r, 2)
  <2> HIDE DEF s, r
  <2>1. r = ArrValue(s)
    BY <1>2 DEF s
  <2> QED
    BY <1>5, <2>1, ArrIs
<1> HIDE DEF r, s, a, v, ms
<1> DEFINE page == [cursor |-> c, items |-> ms]
<1>7. SearchReply(r) = page
  <2>1. IsArr(r, 2) /\ IsNum(r.of[1]) /\ IsArr(r.of[2], 0) /\ AsNum(r.of[1]) = c /\ r.of[2].of = ms
    BY <1>3, <1>4, <1>5, <1>6
  <2>2. ~(AsNum(r.of[1]) < 0)
    BY <2>1
  <2> QED
    BY <2>1, <2>2, Zenon DEF SearchReply
<1> DEFINE read == [i \in DOMAIN page.items |-> ParseItem(f, page.items[i])]
           seen == [i \in DOMAIN p |-> Shown(f, p[i])]
<1>8. DOMAIN read = 1..n /\ \A i \in 1..n : read[i] = Shown(f, p[i]) /\ ~Failed(read[i])
  <2>1. page.items = ms
    OBVIOUS
  <2>2. DOMAIN read = 1..n /\ \A i \in 1..n : read[i] = ParseItem(f, ms[i])
    BY <1>1, <2>1
  <2> HIDE DEF read, page
  <2>3. ASSUME NEW i \in 1..n PROVE read[i] = Shown(f, p[i]) /\ ~Failed(read[i])
    <3>1. ms[i] = Item(f, p[i]).means /\ IsObject(p[i])
      BY <1>1
    <3> QED
      BY <2>2, <3>1, ItemRead
  <2> QED
    BY <2>2, <2>3
<1>9. read = seen
  <2>1. read = [i \in 1..n |-> read[i]]
    BY <1>8
  <2> HIDE DEF read
  <2> QED
    BY <1>8, <2>1
<1>10. ~Failed(page)
  BY DEF Failed
<1>11. ~\E i \in DOMAIN read : Failed(read[i])
  BY <1>8
<1>12. Decode(f, r) = [page EXCEPT !.items = read]
  <2> HIDE DEF page
  <2> QED
    BY <1>7, <1>10, <1>11, Zenon DEF Decode
<1>13. [page EXCEPT !.items = read] = [cursor |-> c, items |-> read]
  <2> HIDE DEF read
  <2> QED
    OBVIOUS
<1> QED
  BY <1>9, <1>12, <1>13 DEF r

\* Every page comes as it is: each object, its place, its fields and its distance, and
\* the cursor, whichever of them the server leaves out (parse.go:34-36, 56-59, 89-92).
THEOREM PageDecodedHolds == ASSUME NoGarbage PROVE Spec => []PageDecoded
<1>1. Framed => PageDecoded
  <2> SUFFICES ASSUME Framed, Len(results) = 1, NEW f \in Outputs, NEW p \in Pages, NEW c \in Cursors,
                      sent[1] = PageOf(f, p, c)
               PROVE  Decode(f, results[1]) = [cursor |-> c, items |-> [i \in DOMAIN p |-> Shown(f, p[i])]]
    BY DEF PageDecoded
  <2>1. results[1] = PageOf(f, p, c).means
    BY DEF Framed
  <2>2. PICK n \in 0..2 : p \in [1..n -> Objects]
    BY DEF Pages
  <2>3. n \in Nat /\ c \in Nat /\ DOMAIN p = 1..n /\ \A i \in 1..n : IsObject(p[i])
    BY <2>2, ObjectsAssumption DEF Cursors
  <2> QED
    BY <2>1, <2>3, PageRead
<1> QED
  BY <1>1, FramedHolds, PTL

-----------------------------------------------------------------------------
(* Answers, a command at a time.                                           *)

Right(q) == Answer(q, ReplyTo(q).means) = Truth(q)

LEMMA TheIs == \A S : S # {} => The(S) \in S
<1> QED
  BY DEF The

LEMMA FewMore ==
  ASSUME NEW o, IsFields(o.fields), NEW a
  PROVE  LET r == Arr(<<a>> \o FieldsPart(o)).means IN
         \E s : /\ r = ArrValue(s) /\ Len(s) >= 1 /\ s[1] = a.means
                /\ (IF Len(s) > 1 THEN ParseFields(s[2]) ELSE {}) = o.fields
<1>1. CASE o.fields = {}
  <2>1. <<a>> \o FieldsPart(o) = <<a>>
    BY <1>1, JoinNone DEF FieldsPart
  <2>2. Arr(<<a>>).means = ArrValue(<<a.means>>)
    BY ArrFew
  <2> DEFINE s == <<a.means>>
  <2>3. Len(s) = 1 /\ s[1] = a.means
    OBVIOUS
  <2> HIDE DEF s
  <2>4. Len(s) >= 1 /\ ~(Len(s) > 1)
    BY <2>3
  <2> QED
    BY <1>1, <2>1, <2>2, <2>3, <2>4, Zenon DEF s
<1>2. CASE o.fields # {}
  <2>1. PICK p : FieldsPart(o) = <<p>> /\ ParseFields(p.means) = o.fields
    BY <1>2, FieldsRead
  <2>2. <<a>> \o FieldsPart(o) = <<a, p>>
    BY <2>1, JoinFew
  <2>3. Arr(<<a, p>>).means = ArrValue(<<a.means, p.means>>)
    BY ArrFew
  <2> DEFINE s == <<a.means, p.means>>
  <2>4. Len(s) = 2 /\ s[1] = a.means /\ s[2] = p.means
    OBVIOUS
  <2> HIDE DEF s
  <2>5. Len(s) >= 1 /\ Len(s) > 1
    BY <2>4
  <2> QED
    BY <2>1, <2>2, <2>3, <2>4, <2>5, Zenon DEF s
<1> QED
  BY <1>1, <1>2

\* The value of an object, in each format.
LEMMA GetValueRead ==
  ASSUME NEW o, IsObject(o), NEW format \in {"POINT", "BOUNDS", "OBJECT"}
  PROVE  /\ GetTerminal(format, GetValue(format, o).means) =
              IF format = "POINT" THEN Shown("POINTS", o).at
              ELSE IF format = "BOUNDS" THEN Shown("BOUNDS", o).box ELSE [text |-> o.id]
         /\ GetValue(format, o).means.t \in {"arr", "str"}
<1>1. CASE format = "POINT"
  <2>1. ParseCoords(Coords(o).means) = [lat |-> o.lat, lon |-> o.lon, z |-> o.z]
    BY CoordsRead
  <2>2. Coords(o).means.t = "arr"
    BY DEF Coords, Arr, ArrValue
  <2>3. Shown("POINTS", o).at = [lat |-> o.lat, lon |-> o.lon, z |-> o.z]
    BY DEF Shown
  <2> QED
    BY <1>1, <2>1, <2>2, <2>3 DEF GetTerminal, GetValue
<1>2. CASE format = "BOUNDS"
  <2>1. ParseBounds(Corners(o).means, FALSE) = [sw |-> <<o.lat, o.lon>>, ne |-> <<o.lat, o.z>>]
    <3>1. o.lat \in Numbers /\ o.lon \in Numbers /\ o.z \in Numbers
      BY DEF IsObject
    <3>2. Corners(o).means = Box(o.lat, o.lon, o.lat, o.z)
      BY Zenon DEF Corners, Box
    <3>3. BoxRead(o.lat, o.lon, o.lat, o.z)
      BY <3>1, CornersRead
    <3> QED
      BY <3>2, <3>3, Zenon DEF BoxRead
  <2>2. Corners(o).means.t = "arr"
    BY DEF Corners, Arr, ArrValue
  <2>3. Shown("BOUNDS", o).box = [sw |-> <<o.lat, o.lon>>, ne |-> <<o.lat, o.z>>]
    BY DEF Shown
  <2> QED
    BY <1>2, <2>1, <2>2, <2>3 DEF GetTerminal, GetValue
<1>3. CASE format = "OBJECT"
  <2>1. Str(o.id).means.t = "str" /\ Str(o.id).means.v = o.id
    BY DEF Str, StrValue
  <2> QED
    BY <1>3, <2>1 DEF GetTerminal, GetValue
<1> QED
  BY <1>1, <1>2, <1>3

LEMMA GetRead == ASSUME NEW q, Asked(q), q.cmd = "GET" PROVE Right(q)
<1>1. /\ q.format \in {"POINT", "BOUNDS", "OBJECT"} /\ q.withFields \in BOOLEAN
      /\ \A o \in q.of : IsObject(o)
  BY DEF Asked
<1> DEFINE r == GetReply(q).means
           e == GetExec(q.withFields, {}, r)
<1>2. ReplyTo(q).means = r
  BY DEF ReplyTo
<1>3. r.t # "err" => Answer(q, r) = IF Failed(e) THEN [error |-> e.error] ELSE GetTerminal(q.format, e.value)
  <2> HIDE DEF r, e
  <2> QED
    BY DEF Answer, e
<1>4. CASE q.of = {}
  <2>1. r.t = "nil"
    BY <1>4 DEF GetReply, Nil, NilValue
  <2> HIDE DEF r
  <2>2. e = [error |-> "id not found", fields |-> {}]
    BY <2>1 DEF GetExec, Miss, IDNotFound
  <2> HIDE DEF e
  <2>3. Failed(e) /\ e.error = "id not found"
    BY <2>2 DEF Failed
  <2>4. Truth(q) = IDNotFound
    BY <1>4 DEF Truth
  <2> QED
    BY <1>2, <1>3, <2>1, <2>3, <2>4 DEF Right, IDNotFound
<1>5. CASE q.of # {}
  <2> DEFINE o == The(q.of)
             v == GetValue(q.format, o).means
  <2>1. IsObject(o)
    BY <1>1, <1>5, TheIs
  <2>2. GetTerminal(q.format, v) = Truth(q)
    <3>1. Truth(q) = IF q.format = "POINT" THEN Shown("POINTS", o).at
                     ELSE IF q.format = "BOUNDS" THEN Shown("BOUNDS", o).box ELSE [text |-> o.id]
      BY <1>5 DEF Truth
    <3> HIDE DEF o
    <3> QED
      BY <1>1, <2>1, <3>1, GetValueRead
  <2>3. v.t \in {"arr", "str"}
    <3> HIDE DEF o
    <3> QED
      BY <1>1, <2>1, GetValueRead
  <2>4. ~Failed(e) /\ e.value = v /\ r.t # "err"
    <3>1. CASE q.withFields
      <4> DEFINE x == GetValue(q.format, o)
      <4>1. r = Arr(<<x>> \o FieldsPart(o)).means
        BY <1>5, <3>1 DEF GetReply
      <4>2. IsFields(o.fields)
        BY <2>1 DEF IsObject
      <4>3. PICK s : r = ArrValue(s) /\ Len(s) >= 1 /\ s[1] = v
        <5> HIDE DEF o, x
        <5> QED
          BY <4>1, <4>2, FewMore DEF x
      <4>4. r.t = "arr" /\ r.of = s /\ IsArr(r, 1)
        BY <4>3, ArrIs
      <4> HIDE DEF r, v
      <4>5. e = [value |-> v, fields |-> IF Len(r.of) > 1 THEN ParseFields(r.of[2]) ELSE {}]
        BY <3>1, <4>3, <4>4 DEF GetExec
      <4> HIDE DEF e
      <4> QED
        BY <4>4, <4>5 DEF Failed
    <3>2. CASE ~q.withFields
      <4>1. r = v
        BY <1>5, <3>2 DEF GetReply
      <4> HIDE DEF r, v
      <4>2. e = [value |-> v, fields |-> {}]
        BY <2>3, <3>2, <4>1 DEF GetExec
      <4> HIDE DEF e
      <4> QED
        BY <2>3, <4>1, <4>2 DEF Failed
    <3> QED
      BY <3>1, <3>2
  <2> HIDE DEF r, e, v
  <2> QED
    BY <1>2, <1>3, <2>2, <2>4 DEF Right
<1> QED
  BY <1>4, <1>5

LEMMA YesRead ==
  ASSUME NEW q, q.yes \in BOOLEAN
  PROVE  /\ Yes(q).means.t = "int" /\ IsNum(Yes(q).means)
         /\ (AsNum(Yes(q).means) = 1) = q.yes
<1> QED
  BY DEF Yes, Num, NumValue, IsNum, AsNum

LEMMA ExistsRead == ASSUME NEW q, Asked(q), q.cmd = "EXISTS" PROVE Right(q)
<1> DEFINE r == Yes(q).means
<1>1. r.t = "int" /\ IsNum(r) /\ (AsNum(r) = 1) = q.yes
  BY YesRead DEF Asked
<1>2. ReplyTo(q).means = r /\ Truth(q) = [yes |-> q.yes]
  BY DEF ReplyTo, Truth
<1> HIDE DEF r
<1>3. Answer(q, r) = [yes |-> AsNum(r) = 1]
  BY <1>1 DEF Answer, Flag
<1> QED
  BY <1>1, <1>2, <1>3 DEF Right

LEMMA ClipRead == ASSUME NEW q, Asked(q), q.cmd = "CLIP" PROVE Right(q)
<1> DEFINE a == Yes(q).means
           b == Str(q.text).means
           s == <<a, b>>
           r == Arr(<<Yes(q), Str(q.text)>>).means
<1>1. a.t = "int" /\ IsNum(a) /\ (AsNum(a) = 1) = q.yes
  BY YesRead DEF Asked
<1>2. IsText(b) /\ FieldString(b) = q.text
  <2>1. b.t = "str" /\ b.v = q.text
    BY DEF Str, StrValue
  <2> HIDE DEF b
  <2> QED
    BY <2>1 DEF IsText, FieldString
<1>3. ReplyTo(q).means = r /\ Truth(q) = [yes |-> q.yes, text |-> q.text]
  BY DEF ReplyTo, Truth
<1>4. r = ArrValue(s)
  BY ArrFew
<1> HIDE DEF a, b
<1>5. Len(s) = 2 /\ s[1] = a /\ s[2] = b
  OBVIOUS
<1> HIDE DEF s, r
<1>6. r.t = "arr" /\ r.of = s /\ IsArr(r, 2)
  <2>1. r.t = "arr" /\ r.of = s
    BY <1>4, ArrIs
  <2>2. Len(r.of) = 2
    BY <1>5, <2>1, Zenon
  <2>3. Len(r.of) >= 2
    BY <2>2
  <2> QED
    BY <2>1, <2>3, Zenon DEF IsArr
<1>7. Answer(q, r) = [yes |-> AsNum(a) = 1, text |-> q.text]
  BY <1>1, <1>2, <1>5, <1>6 DEF Answer, Clip
<1> QED
  BY <1>1, <1>3, <1>7 DEF Right

LEMMA TTLRead == ASSUME NEW q, Asked(q), q.cmd = "TTL" PROVE Right(q)
<1> DEFINE n == IF q.of = {} THEN -2 ELSE IF q.left = {} THEN -1 ELSE The(q.left)
           r == Num(n).means
<1>1. ReplyTo(q).means = r
  BY DEF ReplyTo
<1>2. r.t = "int" /\ IsNum(r) /\ AsNum(r) = n
  BY DEF Num, NumValue, IsNum, AsNum
<1>3. q.left # {} => The(q.left) \in Nat
  BY TheIs DEF Asked
<1>4. Truth(q) = IF q.of = {} THEN IDNotFound
                 ELSE IF q.left = {} THEN [forever |-> TRUE] ELSE [left |-> The(q.left)]
  BY DEF Truth
<1>5. Answer(q, r) = IF n = -2 THEN IDNotFound ELSE IF n = -1 THEN [forever |-> TRUE] ELSE [left |-> n]
  <2> HIDE DEF r, n
  <2>1. Answer(q, r) = TTL(r)
    BY <1>2 DEF Answer
  <2> QED
    BY <1>2, <2>1 DEF TTL
<1> QED
  BY <1>1, <1>3, <1>4, <1>5 DEF Right

LEMMA CountRead ==
  ASSUME NEW n \in Numbers, NEW typed \in BOOLEAN
  PROVE  LET r == AsReply(n, typed).means IN
         Count(r) = [n |-> n] /\ r.t \in {"int", "str"} /\ IsNum(r) /\ AsNum(r) = n
<1> DEFINE r == AsReply(n, typed).means
<1>1. IsNum(r) /\ AsNum(r) = n
  BY NumIs
<1>2. r.t \in {"int", "str"}
  BY DEF AsReply, Num, NumValue, Text, Str, StrValue
<1> HIDE DEF r
<1>3. Count(r) = [n |-> n]
  BY <1>1 DEF Count
<1> QED
  BY <1>1, <1>2, <1>3 DEF r

LEMMA CountedRead == ASSUME NEW q, Asked(q), q.cmd = "COUNT" PROVE Right(q)
<1> DEFINE r == AsReply(q.n, q.typed).means
<1>1. Count(r) = [n |-> q.n] /\ r.t \in {"int", "str"}
  BY CountRead DEF Asked
<1>2. ReplyTo(q).means = r /\ Truth(q) = [n |-> q.n]
  BY DEF ReplyTo, Truth
<1> HIDE DEF r
<1>3. Answer(q, r) = Count(r)
  BY <1>1 DEF Answer
<1> QED
  BY <1>1, <1>2, <1>3 DEF Right

LEMMA BoundsRead == ASSUME NEW q, Asked(q), q.cmd = "BOUNDS" PROVE Right(q)
<1>1. CASE q.of = {}
  <2>1. ReplyTo(q).means = NilValue /\ Truth(q) = KeyNotFound
    BY <1>1 DEF ReplyTo, Truth, Nil
  <2>2. Answer(q, NilValue) = KeyNotFound
    BY DEF Answer, Bounds, NilValue
  <2> QED
    BY <2>1, <2>2 DEF Right
<1>2. CASE q.of # {}
  <2> DEFINE o == The(q.of)
             s == Arr(<<Arr(<<Text(o.lon), Text(o.lat)>>), Arr(<<Text(o.z), Text(o.lat)>>)>>)
             r == s.means
  <2>1. o.lat \in Numbers /\ o.lon \in Numbers /\ o.z \in Numbers
    BY <1>2, TheIs DEF Asked, IsObject
  <2>2. ReplyTo(q).means = r /\ Truth(q) = Shown("BOUNDS", o).box
    <3> HIDE DEF o
    <3> QED
      BY <1>2 DEF ReplyTo, Truth, o
  <2> HIDE DEF o
  <2>3. ParseBounds(r, TRUE) = [sw |-> <<o.lat, o.lon>>, ne |-> <<o.lat, o.z>>]
    <3>1. BoxRead(o.lon, o.lat, o.z, o.lat)
      BY <2>1, CornersRead
    <3> QED
      BY <3>1, Zenon DEF BoxRead, Box
  <2>4. Shown("BOUNDS", o).box = [sw |-> <<o.lat, o.lon>>, ne |-> <<o.lat, o.z>>]
    BY DEF Shown
  <2>5. r.t = "arr"
    BY DEF Arr, ArrValue
  <2> HIDE DEF r
  <2>6. Answer(q, r) = ParseBounds(r, TRUE)
    BY <2>5 DEF Answer, Bounds
  <2> QED
    BY <2>2, <2>3, <2>4, <2>6 DEF Right
<1> QED
  BY <1>1, <1>2

\* Text comes as a bulk string.
LEMMA TextRead == \A text : LET r == Str(text).means IN r.t = "str" /\ r.v = text /\ FGet(r) = [text |-> text]
<1> SUFFICES ASSUME NEW text, NEW r, r = Str(text).means
    PROVE r.t = "str" /\ r.v = text /\ FGet(r) = [text |-> text]
  OBVIOUS
<1>1. r.t = "str" /\ r.v = text
  BY DEF Str, StrValue
<1>2. FieldString(r) = text
  BY <1>1 DEF FieldString
<1> QED
  BY <1>1, <1>2 DEF FGet, IsText

LEMMA JGetRead == ASSUME NEW q, Asked(q), q.cmd = "JGET" PROVE Right(q)
<1>1. CASE q.of = {}
  <2>1. ReplyTo(q).means = NilValue /\ Truth(q) = IDNotFound
    BY <1>1 DEF ReplyTo, Truth, Nil
  <2>2. Answer(q, NilValue) = IDNotFound
    BY DEF Answer, JGet, NilValue
  <2> QED
    BY <2>1, <2>2 DEF Right
<1>2. CASE q.of # {}
  <2> DEFINE r == Str(The(q.of).id).means
  <2>1. ReplyTo(q).means = r /\ Truth(q) = [text |-> The(q.of).id]
    BY <1>2 DEF ReplyTo, Truth
  <2>2. r.t = "str" /\ r.v = The(q.of).id
    BY TextRead
  <2> HIDE DEF r
  <2>3. Answer(q, r) = [text |-> The(q.of).id]
    BY <2>2 DEF Answer, JGet
  <2> QED
    BY <2>1, <2>3 DEF Right
<1> QED
  BY <1>1, <1>2

LEMMA FGetRead == ASSUME NEW q, Asked(q), q.cmd = "FGET" PROVE Right(q)
<1> DEFINE r == Str(q.text).means
<1>1. ReplyTo(q).means = r /\ Truth(q) = [text |-> q.text]
  BY DEF ReplyTo, Truth
<1>2. r.t = "str" /\ FGet(r) = [text |-> q.text]
  BY TextRead
<1> HIDE DEF r
<1>3. Answer(q, r) = FGet(r)
  BY <1>2 DEF Answer
<1> QED
  BY <1>1, <1>2, <1>3 DEF Right

LEMMA StatusRead == ASSUME NEW q, Asked(q), q.cmd = "STATUS" PROVE Right(q)
<1>1. ReplyTo(q).means.t = "str" /\ Truth(q) = [done |-> TRUE]
  BY DEF ReplyTo, Truth, Simple, StrValue
<1> DEFINE r == ReplyTo(q).means
<1> HIDE DEF r
<1>2. Answer(q, r) = [done |-> TRUE]
  BY <1>1 DEF Answer, r
<1> QED
  BY <1>1, <1>2 DEF Right, r

LEMMA StrMeans == \A t : Str(t).means = StrValue(t) /\ StrValue(t).v = t /\ StrValue(t).t = "str"
<1> QED
  BY DEF Str, StrValue

\* Lists of text.
LEMMA WordsRead ==
  ASSUME NEW list \in Lists
  PROVE  LET r == Words(list).means IN
         /\ r.t = "arr" /\ StringSlice(r) = [list |-> list]
         /\ Len(r.of) = Len(list) /\ DOMAIN r.of = DOMAIN list
         /\ \A i \in DOMAIN list : r.of[i] = StrValue(list[i])
<1> DEFINE n == Len(list)
           strs == [i \in DOMAIN list |-> Str(list[i])]
           v == Means(strs)
           r == Words(list).means
<1>1. n \in Nat /\ DOMAIN list = 1..n /\ list = [i \in 1..n |-> list[i]]
  BY DEF Lists
<1> HIDE DEF n
<1>2. DOMAIN strs = 1..n /\ \A i \in 1..n : strs[i] = Str(list[i])
  BY <1>1
<1>3. r = ArrValue(v)
  BY DEF Words, Arr
<1> HIDE DEF strs
<1>4. v = [i \in 1..n |-> strs[i].means] /\ Len(v) = n
  BY <1>1, <1>2, MeansOf
<1>5. \A i \in 1..n : v[i] = StrValue(list[i])
  BY <1>2, <1>4, StrMeans
<1>6. DOMAIN v = 1..n
  BY <1>4
<1> HIDE DEF v, r
<1>7. r.t = "arr" /\ r.of = v
  BY <1>3, ArrIs
<1>8. IsArr(r, 0)
  BY <1>1, <1>4, <1>7 DEF IsArr
<1>9. ~\E i \in DOMAIN r.of : r.of[i].t # "str"
  BY <1>5, <1>6, <1>7 DEF StrValue
<1>10. StringSlice(r) = [list |-> [i \in DOMAIN r.of |-> r.of[i].v]]
  BY <1>8, <1>9, Zenon DEF StringSlice
<1>11. [i \in DOMAIN r.of |-> r.of[i].v] = [i \in 1..n |-> list[i]]
  <2>1. \A i \in 1..n : r.of[i].v = list[i]
    BY <1>5, <1>7, StrMeans
  <2> QED
    BY <1>6, <1>7, <2>1
<1>12. DOMAIN r.of = DOMAIN list /\ Len(r.of) = n /\ \A i \in DOMAIN list : r.of[i] = StrValue(list[i])
  BY <1>1, <1>4, <1>5, <1>6, <1>7
<1>13. StringSlice(r) = [list |-> list]
  BY <1>1, <1>10, <1>11
<1> QED
  BY <1>7, <1>12, <1>13 DEF r, n

LEMMA KeysRead == ASSUME NEW q, Asked(q), q.cmd = "KEYS" PROVE Right(q)
<1> DEFINE r == Words(q.list).means
<1>1. r.t = "arr" /\ StringSlice(r) = [list |-> q.list]
  BY WordsRead DEF Asked
<1>2. ReplyTo(q).means = r /\ Truth(q) = [list |-> q.list]
  BY DEF ReplyTo, Truth
<1> HIDE DEF r
<1>3. Answer(q, r) = StringSlice(r)
  BY <1>1 DEF Answer
<1> QED
  BY <1>1, <1>2, <1>3 DEF Right

\* What is behind a name is found there, if the name is not at an odd place before.
LEMMA KeyFound ==
  ASSUME NEW s, NEW n \in Nat, Len(s) = n, NEW k \in 1..n - 1, k % 2 = 1, NEW key,
         s[k] = StrValue(key), \A i \in 1..k - 1 : i % 2 = 1 => s[i] # StrValue(key)
  PROVE  LookupKV(ArrValue(s), key) = [found |-> s[k + 1]]
<1> DEFINE v == ArrValue(s)
           at == {i \in 1..n - 1 : i % 2 = 1 /\ v.of[i] = StrValue(key)}
           first == CHOOSE i \in at : \A j \in at : i <= j
<1>1. v.t = "arr" /\ v.of = s
  BY ArrIs
<1>2. IsArr(v, 2)
  <2>1. n >= 2
    OBVIOUS
  <2> HIDE DEF v
  <2> QED
    BY <1>1, <2>1 DEF IsArr
<1> HIDE DEF v
<1>3. k \in at /\ \A j \in at : k <= j
  <2>1. k \in at
    BY <1>1
  <2>2. ASSUME NEW j \in at PROVE k <= j
    <3>1. j \in 1..n - 1 /\ j % 2 = 1 /\ s[j] = StrValue(key)
      BY <1>1
    <3>2. ~(j \in 1..k - 1)
      BY <3>1
    <3> QED
      BY <3>1, <3>2
  <2> QED
    BY <2>1, <2>2
<1>4. at \subseteq Int
  OBVIOUS
<1> HIDE DEF at
<1>5. first = k
  <2>1. first \in at /\ \A j \in at : first <= j
    BY <1>3
  <2> HIDE DEF first
  <2>2. first <= k /\ k <= first /\ first \in Int /\ k \in Int
    BY <1>3, <1>4, <2>1
  <2> QED
    BY <2>2
<1>6. at # {}
  BY <1>3
<1>7. LookupKV(v, key) = [found |-> v.of[first + 1]]
  <2> DEFINE last == IF IsArr(v, 2) THEN Len(v.of) - 1 ELSE 0
  <2>1. last = n - 1
    BY <1>1, <1>2
  <2>2. at = {i \in 1..last : i % 2 = 1 /\ v.of[i] = StrValue(key)}
    BY <2>1 DEF at
  <2> HIDE DEF last
  <2> QED
    BY <1>6, <2>2, Zenon DEF LookupKV, last
<1> QED
  BY <1>1, <1>5, <1>7 DEF v

LEMMA ServerRead == ASSUME NEW q, Asked(q), q.cmd = "SERVER" PROVE Right(q)
<1> DEFINE v == AsReply(q.n, q.typed)
           a == Str(<<"id">>)
           b == Str(<<"num_objects">>)
           t == Str(q.text)
           s == <<a.means, t.means, b.means, v.means>>
           r == Arr(<<a, t, b, v>>).means
<1>1. ReplyTo(q).means = r /\ Truth(q) = [n |-> q.n]
  BY DEF ReplyTo, Truth
<1>2. Count(v.means) = [n |-> q.n]
  BY CountRead DEF Asked
<1>3. a.means = StrValue(<<"id">>) /\ b.means = StrValue(<<"num_objects">>)
  BY DEF Str
<1>4. r = ArrValue(s)
  BY ArrFew
<1> HIDE DEF v, a, b, t
<1>5. Len(s) = 4 /\ s[1] = a.means /\ s[3] = b.means /\ s[4] = v.means
  OBVIOUS
<1> HIDE DEF s, r
<1>6. StrValue(<<"id">>) # StrValue(<<"num_objects">>)
  BY DEF StrValue
<1>7. LookupKV(ArrValue(s), <<"num_objects">>) = [found |-> s[3 + 1]]
  <2>1. \A i \in 1..3 - 1 : i % 2 = 1 => s[i] # StrValue(<<"num_objects">>)
    <3>1. \A i \in 1..3 - 1 : i % 2 = 1 => i = 1
      OBVIOUS
    <3> QED
      BY <1>3, <1>5, <1>6, <3>1
  <2>2. 3 \in 1..4 - 1 /\ 3 % 2 = 1 /\ 4 \in Nat
    OBVIOUS
  <2>3. s[3] = StrValue(<<"num_objects">>)
    BY <1>3, <1>5
  <2> QED
    BY <1>5, <2>1, <2>2, <2>3, KeyFound
<1>8. LookupKV(r, <<"num_objects">>) = [found |-> v.means]
  BY <1>4, <1>5, <1>7
<1>9. r.t = "arr"
  BY <1>4, ArrIs
<1>10. DBSize(r) = Count(v.means)
  BY <1>8 DEF DBSize, Failed
<1>11. Answer(q, r) = DBSize(r)
  BY <1>9 DEF Answer
<1> QED
  BY <1>1, <1>2, <1>10, <1>11 DEF Right

LEMMA ConfigRead == ASSUME NEW q, Asked(q), q.cmd = "CONFIG" PROVE Right(q)
<1> DEFINE a == Str(q.name)
           b == Str(q.text)
           list == <<q.name, q.text>>
           s == <<a.means, b.means>>
           r == Words(list).means
<1>1. ReplyTo(q).means = r /\ Truth(q) = [text |-> q.text]
  BY DEF ReplyTo, Truth
<1>2. FGet(b.means) = [text |-> q.text] /\ a.means = StrValue(q.name)
  BY TextRead DEF Str
<1>3. r = ArrValue(s)
  <2>1. [i \in DOMAIN list |-> Str(list[i])] = <<a, b>>
    OBVIOUS
  <2> QED
    BY <2>1, ArrFew DEF Words
<1> HIDE DEF a, b, r
<1>4. Len(s) = 2 /\ s[1] = a.means /\ s[2] = b.means
  OBVIOUS
<1> HIDE DEF s
<1>5. LookupKV(ArrValue(s), q.name) = [found |-> s[1 + 1]]
  <2>1. 1 \in 1..2 - 1 /\ 1 % 2 = 1 /\ 2 \in Nat
    OBVIOUS
  <2>2. \A i \in 1..1 - 1 : i % 2 = 1 => s[i] # StrValue(q.name)
    OBVIOUS
  <2> QED
    BY <1>2, <1>4, <2>1, <2>2, KeyFound
<1>6. LookupKV(r, q.name) = [found |-> b.means]
  BY <1>3, <1>4, <1>5
<1>7. r.t = "arr"
  BY <1>3, ArrIs
<1>8. ConfigGet(q.name, r) = FGet(b.means)
  BY <1>6 DEF ConfigGet, Failed
<1>9. Answer(q, r) = ConfigGet(q.name, r)
  BY <1>7 DEF Answer
<1> QED
  BY <1>1, <1>2, <1>8, <1>9 DEF Right

Stat == [exists : {FALSE}] \cup [exists : {TRUE}, counters : [Counters -> Numbers]]
StatReply(stat, typed) ==
  IF ~stat.exists THEN Nil
  ELSE Arr(FlattenSeq([c \in DOMAIN SetToSeq(Counters) |->
         LET name == SetToSeq(Counters)[c] IN <<Str(<<name>>), AsReply(stat.counters[name], typed)>>]))

LEMMA CountersAre ==
  \E n \in Nat : /\ SetToSeq(Counters) \in [1..n -> Counters]
                 /\ \A i, j \in 1..n : SetToSeq(Counters)[i] = SetToSeq(Counters)[j] => i = j
                 /\ \A c \in Counters : \E i \in 1..n : SetToSeq(Counters)[i] = c
<1>1. IsFiniteSet({"in_memory_size"})
  BY FS_Singleton
<1>2. IsFiniteSet({"in_memory_size"} \cup {"num_objects"})
  BY <1>1, FS_AddElement
<1>3. IsFiniteSet({"in_memory_size"} \cup {"num_objects"} \cup {"num_points"})
  BY <1>2, FS_AddElement
<1>4. IsFiniteSet({"in_memory_size"} \cup {"num_objects"} \cup {"num_points"} \cup {"num_strings"})
  BY <1>3, FS_AddElement
<1>5. Counters = {"in_memory_size"} \cup {"num_objects"} \cup {"num_points"} \cup {"num_strings"}
  BY DEF Counters
<1>6. IsFiniteSet(Counters)
  BY <1>4, <1>5
<1> QED
  BY <1>6, SetToSeqIs

\* The counters of one collection, under their names.
LEMMA CountersRead ==
  ASSUME NEW stat, stat.counters \in [Counters -> Numbers], stat.exists = TRUE, NEW typed \in BOOLEAN
  PROVE  /\ StatReply(stat, typed).means.t = "arr"
         /\ Stats1(StatReply(stat, typed).means) = [exists |-> TRUE, counters |-> stat.counters]
<1> DEFINE q == SetToSeq(Counters)
           N(c) == AsReply(stat.counters[c], typed)
<1>1. PICK n \in Nat : /\ q \in [1..n -> Counters]
                       /\ \A i, j \in 1..n : q[i] = q[j] => i = j
                       /\ \A c \in Counters : \E i \in 1..n : q[i] = c
  BY CountersAre
<1> DEFINE a == [i \in 1..n |-> Str(<<q[i]>>)]
           b == [i \in 1..n |-> N(q[i])]
           S == {a[i] : i \in 1..n} \cup {b[i] : i \in 1..n}
           w == FlattenSeq([i \in 1..n |-> <<a[i], b[i]>>])
           v == Means(w)
           r == ArrValue(v)
<1>2. StatReply(stat, typed) = Arr(w)
  <2>1. DOMAIN q = 1..n
    BY <1>1
  <2>2. [c \in DOMAIN q |-> LET name == q[c] IN <<Str(<<name>>), AsReply(stat.counters[name], typed)>>]
          = [i \in 1..n |-> <<a[i], b[i]>>]
    <3> HIDE DEF q
    <3> QED
      BY <2>1
  <2> QED
    BY <2>2 DEF StatReply
<1>3. StatReply(stat, typed).means = r
  <2> HIDE DEF w
  <2> QED
    BY <1>2 DEF Arr
<1>4. IsPairs(w, S, n, a, b)
  <2>1. a \in [1..n -> S] /\ b \in [1..n -> S]
    <3>1. \A i \in 1..n : a[i] \in S /\ b[i] \in S
      OBVIOUS
    <3> HIDE DEF S
    <3> QED
      BY <3>1
  <2> HIDE DEF a, b, S
  <2> QED
    BY <2>1, PairsFlat
<1> HIDE DEF w, q, N
<1>5. /\ Len(w) = 2 * n /\ DOMAIN w = 1..2 * n
      /\ \A i \in 1..n : w[2 * i - 1] = Str(<<q[i]>>) /\ w[2 * i] = N(q[i])
  <2>1. w \in Seq(S) /\ Len(w) = 2 * n /\ \A i \in 1..n : w[2 * i - 1] = a[i] /\ w[2 * i] = b[i]
    BY <1>4 DEF IsPairs
  <2> HIDE DEF S
  <2>2. DOMAIN w = 1..2 * n
    BY <2>1, LenProperties
  <2> QED
    BY <2>1, <2>2
<1> HIDE DEF a, b, S
<1>6. v = [i \in 1..2 * n |-> w[i].means] /\ Len(v) = 2 * n
  <2> DEFINE m == 2 * n
  <2>1. m \in Nat /\ DOMAIN w = 1..m
    BY <1>5
  <2> HIDE DEF m
  <2>2. v = [i \in 1..m |-> w[i].means] /\ Len(v) = m
    BY <2>1, MeansOf
  <2> QED
    BY <2>2 DEF m
<1>7. \A i \in 1..n : v[2 * i - 1] = StrValue(<<q[i]>>) /\ v[2 * i] = N(q[i]).means
  <2> TAKE i \in 1..n
  <2>1. 2 * i - 1 \in 1..2 * n /\ 2 * i \in 1..2 * n
    OBVIOUS
  <2>2. v[2 * i - 1] = Str(<<q[i]>>).means /\ v[2 * i] = N(q[i]).means
    BY <1>5, <1>6, <2>1
  <2> QED
    BY <2>2, StrMeans
<1>8. r.t = "arr"
  BY ArrIs
<1> HIDE DEF v
<1>9. ASSUME NEW c \in Counters PROVE LookupKV(r, <<c>>) = [found |-> N(c).means]
  <2>1. PICK j \in 1..n : q[j] = c
    BY <1>1
  <2> DEFINE k == 2 * j - 1
             m == 2 * n
  <2>2. m \in Nat /\ k \in 1..m - 1 /\ k % 2 = 1 /\ k + 1 = 2 * j
    OBVIOUS
  <2>3. ASSUME NEW i \in 1..k - 1, i % 2 = 1 PROVE v[i] # StrValue(<<c>>)
    <3> DEFINE h == i \div 2
    <3>1. h \in Int /\ i = 2 * h + 1
      BY <2>3
    <3> HIDE DEF h
    <3>2. h + 1 \in 1..n /\ i = 2 * (h + 1) - 1 /\ h + 1 # j
      BY <3>1
    <3>3. v[i] = StrValue(<<q[h + 1]>>)
      BY <1>7, <3>2
    <3>4. q[h + 1] # c
      BY <1>1, <2>1, <3>2
    <3>5. StrValue(<<q[h + 1]>>).v # StrValue(<<c>>).v
      BY <3>4, StrMeans
    <3> QED
      BY <3>3, <3>5
  <2>4. v[k] = StrValue(<<c>>) /\ v[k + 1] = N(c).means
    BY <1>7, <2>1, <2>2
  <2>5. Len(v) = m
    BY <1>6
  <2> HIDE DEF k, m, r
  <2>6. LookupKV(ArrValue(v), <<c>>) = [found |-> v[k + 1]]
    BY <2>2, <2>3, <2>4, <2>5, KeyFound
  <2> QED
    BY <2>4, <2>6 DEF r
<1>10. ASSUME NEW c \in Counters PROVE IsNum(N(c).means) /\ AsNum(N(c).means) = stat.counters[c]
  BY NumIs DEF N
<1> DEFINE read == [c \in Counters |-> LookupKV(r, <<c>>)]
<1> HIDE DEF r
<1>11. \A c \in Counters : /\ ~Failed(read[c]) /\ IsNum(read[c].found)
                           /\ AsNum(read[c].found) = stat.counters[c]
  <2> TAKE c \in Counters
  <2>1. read[c] = [found |-> N(c).means]
    BY <1>9
  <2> HIDE DEF read
  <2> QED
    BY <1>10, <2>1 DEF Failed
<1>12. Stats1(r) = [exists |-> TRUE, counters |-> [c \in Counters |-> AsNum(read[c].found)]]
  <2>1. r.t # "nil"
    BY <1>8
  <2> QED
    BY <1>11, <2>1, Zenon DEF Stats1
<1>13. [c \in Counters |-> AsNum(read[c].found)] = stat.counters
  <2> HIDE DEF read
  <2> QED
    BY <1>11
<1> QED
  BY <1>3, <1>8, <1>12, <1>13

\* A collection, which may not be there.
LEMMA StatRead ==
  ASSUME NEW stat \in Stat, NEW typed \in BOOLEAN
  PROVE  Stats1(StatReply(stat, typed).means) = stat /\ ~Failed(stat)
<1>1. CASE stat \in [exists : {FALSE}]
  <2>1. stat = [exists |-> FALSE]
    BY <1>1
  <2>2. StatReply(stat, typed).means = NilValue
    BY <2>1 DEF StatReply, Nil
  <2>3. Stats1(NilValue) = [exists |-> FALSE]
    BY DEF Stats1, NilValue
  <2> QED
    BY <2>1, <2>2, <2>3 DEF Failed
<1>2. CASE stat \in [exists : {TRUE}, counters : [Counters -> Numbers]]
  <2>1. stat.exists = TRUE /\ stat.counters \in [Counters -> Numbers]
        /\ stat = [exists |-> TRUE, counters |-> stat.counters]
    BY <1>2
  <2>2. Stats1(StatReply(stat, typed).means) = [exists |-> TRUE, counters |-> stat.counters]
    BY <2>1, CountersRead
  <2>3. ~Failed(stat)
    BY <1>2 DEF Failed
  <2> QED
    BY <2>1, <2>2, <2>3
<1> QED
  BY <1>1, <1>2 DEF Stat

LEMMA StatsRead == ASSUME NEW q, Asked(q), q.cmd = "STATS" PROVE Right(q)
<1> DEFINE n == Len(q.stats)
           its == [i \in DOMAIN q.stats |-> StatReply(q.stats[i], q.typed)]
           ms == Means(its)
           r == ArrValue(ms)
           keys == q.keys
<1>1. /\ q.stats \in Seq(Stat) /\ q.keys \in Seq(Texts) /\ Len(q.keys) = n /\ q.typed \in BOOLEAN
  BY DEF Asked, Stat, Lists
<1>2. n \in Nat /\ DOMAIN q.stats = 1..n /\ DOMAIN keys = 1..n /\ \A i \in 1..n : q.stats[i] \in Stat
  <2> HIDE DEF n
  <2>1. n \in Nat /\ DOMAIN q.stats = 1..n /\ \A i \in 1..n : q.stats[i] \in Stat
    BY <1>1, LenProperties, ElementOfSeq DEF n
  <2>2. DOMAIN keys = 1..n
    BY <1>1, LenProperties
  <2> QED
    BY <2>1, <2>2
<1>3. ReplyTo(q).means = r
  <2>1. ReplyTo(q) = StatsReply(q)
    BY DEF ReplyTo
  <2>2. StatsReply(q) = Arr(its)
    BY DEF StatsReply, StatReply
  <2> QED
    BY <2>1, <2>2 DEF Arr
<1>4. Truth(q) = [list |-> [i \in 1..n |-> [key |-> q.keys[i], stats |-> q.stats[i]]]]
  BY <1>2 DEF Truth
<1> HIDE DEF n
<1>5. DOMAIN its = 1..n /\ \A i \in 1..n : its[i] = StatReply(q.stats[i], q.typed)
  BY <1>2
<1> HIDE DEF its
<1>6. ms = [i \in 1..n |-> its[i].means] /\ Len(ms) = n
  BY <1>2, <1>5, MeansOf
<1> HIDE DEF ms
<1>7. r.t = "arr" /\ r.of = ms
  BY ArrIs
<1> HIDE DEF r
<1>8. IsArr(r, 0)
  BY <1>2, <1>6, <1>7 DEF IsArr
<1>9. DOMAIN ms = 1..n /\ \A i \in 1..n : Stats1(ms[i]) = q.stats[i] /\ ~Failed(q.stats[i])
  <2>1. DOMAIN ms = 1..n /\ \A i \in 1..n : ms[i] = StatReply(q.stats[i], q.typed).means
    BY <1>5, <1>6
  <2> QED
    BY <1>1, <1>2, <2>1, StatRead
<1> DEFINE read == [i \in DOMAIN r.of |-> Stats1(r.of[i])]
           list == [i \in DOMAIN read |->
                      [key |-> IF i <= Len(keys) THEN keys[i] ELSE <<>>, stats |-> read[i]]]
<1>10. DOMAIN read = 1..n /\ \A i \in 1..n : read[i] = q.stats[i] /\ ~Failed(read[i])
  BY <1>7, <1>9
<1>11. Stats(keys, r) = [list |-> list]
  <2>1. ~\E i \in DOMAIN read : Failed(read[i])
    BY <1>10
  <2> HIDE DEF keys
  <2> QED
    BY <1>8, <2>1, Zenon DEF Stats
<1> HIDE DEF read
<1>12. list = [i \in 1..n |-> [key |-> q.keys[i], stats |-> q.stats[i]]]
  <2>1. \A i \in 1..n : i <= Len(keys)
    BY <1>1, <1>2
  <2> QED
    BY <1>10, <2>1
<1>13. Answer(q, r) = Stats(keys, r)
  BY <1>7 DEF Answer
<1> QED
  BY <1>3, <1>4, <1>11, <1>12, <1>13 DEF Right

-----------------------------------------------------------------------------
HookReply(h) ==
  Arr(<<Str(h.name), Str(h.key), Words(h.endpoints), Words(h.command)>>
      \o (IF h.meta = {} THEN <<>> ELSE FieldsPart([fields |-> h.meta])))

\* Lists that do not decode are none.
ListAt(d, i) == IF Len(d.of) < i THEN <<>>
                ELSE LET s == StringSlice(d.of[i]) IN IF Failed(s) THEN <<>> ELSE s.list
HookOf(d) == [name |-> d.of[1].v,
              key |-> IF d.of[2].t = "str" THEN d.of[2].v ELSE <<>>,
              endpoints |-> ListAt(d, 3), command |-> ListAt(d, 4),
              meta |-> IF Len(d.of) > 4 THEN ParseFields(d.of[5]) ELSE {}]
IsHook(h) == /\ h \in [name : Texts, key : Texts, endpoints : Lists, command : Lists,
                       meta : SUBSET (Texts \X Texts)]
             /\ IsFields(h.meta)

LEMMA HookRead ==
  ASSUME NEW h, IsHook(h)
  PROVE  HookOf(HookReply(h).means) = h /\ HasId(HookReply(h).means, 2)
<1> DEFINE a == Str(h.name)
           b == Str(h.key)
           c == Words(h.endpoints)
           d == Words(h.command)
           r == HookReply(h).means
<1>1. PICK s : /\ r = ArrValue(s) /\ Len(s) >= 2 /\ Len(s) >= 4 /\ s[1] = a.means /\ s[2] = b.means /\ s[3] = c.means
               /\ s[4] = d.means /\ (IF Len(s) > 4 THEN ParseFields(s[5]) ELSE {}) = h.meta
  <2> HIDE DEF a, b, c, d
  <2>1. CASE h.meta = {}
    <3>1. HookReply(h) = Arr(<<a, b, c, d>>)
      BY <2>1, JoinNone DEF HookReply, a, b, c, d
    <3>2. Arr(<<a, b, c, d>>).means = ArrValue(<<a.means, b.means, c.means, d.means>>)
      BY ArrFew
    <3> DEFINE s == <<a.means, b.means, c.means, d.means>>
    <3>3. Len(s) = 4 /\ s[1] = a.means /\ s[2] = b.means /\ s[3] = c.means /\ s[4] = d.means
      OBVIOUS
    <3> HIDE DEF s, r
    <3>4. Len(s) >= 2 /\ Len(s) >= 4 /\ ~(Len(s) > 4)
      BY <3>3
    <3>5. r = ArrValue(s)
      BY <3>1, <3>2 DEF r, s
    <3> QED
      BY <2>1, <3>3, <3>4, <3>5, Zenon
  <2>2. CASE h.meta # {}
    <3> DEFINE o == [fields |-> h.meta]
    <3>1. o.fields = h.meta /\ IsFields(o.fields)
      BY DEF IsHook
    <3> HIDE DEF o
    <3>2. PICK p : FieldsPart(o) = <<p>> /\ ParseFields(p.means) = h.meta
      BY <2>2, <3>1, FieldsRead
    <3>3. HookReply(h) = Arr(<<a, b, c, d>> \o FieldsPart(o))
      BY <2>2 DEF HookReply, a, b, c, d, o
    <3>4. HookReply(h) = Arr(<<a, b, c, d, p>>)
      <4>1. <<a, b, c, d>> \o <<p>> = <<a, b, c, d, p>>
        BY JoinFew
      <4> QED
        BY <3>2, <3>3, <4>1, Zenon
    <3> DEFINE s == <<a.means, b.means, c.means, d.means, p.means>>
    <3>5. Arr(<<a, b, c, d, p>>).means = ArrValue(s)
      <4>1. Means(<<a, b, c, d, p>>) = s
        BY MeansFew
      <4> QED
        BY <4>1 DEF Arr
    <3>6. /\ Len(s) = 5 /\ s[1] = a.means /\ s[2] = b.means /\ s[3] = c.means /\ s[4] = d.means
          /\ s[5] = p.means
      OBVIOUS
    <3> HIDE DEF s, r
    <3>7. Len(s) >= 2 /\ Len(s) >= 4 /\ Len(s) > 4
      BY <3>6
    <3>8. r = ArrValue(s)
      BY <3>4, <3>5 DEF r
    <3> QED
      BY <3>2, <3>6, <3>7, <3>8, Zenon
  <2> QED
    BY <2>1, <2>2
<1>2. a.means.t = "str" /\ a.means.v = h.name /\ b.means.t = "str" /\ b.means.v = h.key
  BY TextRead
<1>3. StringSlice(c.means) = [list |-> h.endpoints] /\ StringSlice(d.means) = [list |-> h.command]
  BY WordsRead DEF IsHook
<1> HIDE DEF a, b, c, d, r
<1>4. r.t = "arr" /\ r.of = s
  BY <1>1, ArrIs
<1>5. HasId(r, 2)
  BY <1>1, <1>2, <1>4, Zenon DEF HasId, IsArr
<1>6. ListAt(r, 3) = h.endpoints /\ ListAt(r, 4) = h.command
  <2>1. ~(Len(r.of) < 3) /\ ~(Len(r.of) < 4)
    BY <1>1, <1>4
  <2>2. r.of[3] = c.means /\ r.of[4] = d.means
    BY <1>1, <1>4
  <2>3. ~Failed([list |-> h.endpoints]) /\ ~Failed([list |-> h.command])
    BY DEF Failed
  <2> QED
    BY <1>3, <2>1, <2>2, <2>3 DEF ListAt
<1>7. HookOf(r) = [name |-> h.name, key |-> h.key, endpoints |-> h.endpoints,
                   command |-> h.command, meta |-> h.meta]
  <2>1. r.of[1].v = h.name /\ r.of[2].t = "str" /\ r.of[2].v = h.key
    BY <1>1, <1>2, <1>4
  <2>2. (IF Len(r.of) > 4 THEN ParseFields(r.of[5]) ELSE {}) = h.meta
    BY <1>1, <1>4, Zenon
  <2> QED
    BY <1>6, <2>1, <2>2, Zenon DEF HookOf
<1>8. h = [name |-> h.name, key |-> h.key, endpoints |-> h.endpoints,
           command |-> h.command, meta |-> h.meta]
  BY DEF IsHook
<1> QED
  BY <1>5, <1>7, <1>8 DEF r

LEMMA HooksRead == ASSUME NEW q, Asked(q), q.cmd = "HOOKS" PROVE Right(q)
<1> DEFINE n == Len(q.list)
           its == [i \in DOMAIN q.list |-> HookReply(q.list[i])]
           ms == Means(its)
           r == ArrValue(ms)
<1>1. /\ n \in Nat /\ DOMAIN q.list = 1..n /\ q.list = [i \in 1..n |-> q.list[i]]
      /\ \A i \in 1..n : IsHook(q.list[i])
  <2> DEFINE H == [name : Texts, key : Texts, endpoints : Lists, command : Lists,
                   meta : SUBSET (Texts \X Texts)]
             list == q.list
  <2>1. list \in Seq(H) /\ \A i \in DOMAIN list : IsFields(list[i].meta)
    BY DEF Asked
  <2> HIDE DEF list
  <2>2. n = Len(list) /\ list \in Seq(H)
    BY <2>1 DEF list
  <2> HIDE DEF H
  <2>3. n \in Nat /\ DOMAIN list = 1..n /\ list = [i \in 1..n |-> list[i]] /\ \A i \in 1..n : list[i] \in H
    BY <2>2
  <2> QED
    BY <2>1, <2>3 DEF list, IsHook, H
<1>2. ReplyTo(q).means = r /\ Truth(q) = [list |-> q.list]
  <2>1. ReplyTo(q) = Arr(its)
    BY DEF ReplyTo, HookReply
  <2> QED
    BY <2>1 DEF Truth, Arr
<1> HIDE DEF n
<1>3. DOMAIN its = 1..n /\ \A i \in 1..n : its[i] = HookReply(q.list[i])
  BY <1>1
<1> HIDE DEF its
<1>4. ms = [i \in 1..n |-> its[i].means] /\ Len(ms) = n
  BY <1>1, <1>3, MeansOf
<1> HIDE DEF ms
<1>5. r.t = "arr" /\ r.of = ms
  BY ArrIs
<1> HIDE DEF r
<1>6. DOMAIN ms = 1..n /\ \A i \in 1..n : HookOf(ms[i]) = q.list[i] /\ HasId(ms[i], 2)
  BY <1>1, <1>3, <1>4, HookRead
<1>7. IsArr(r, 0)
  BY <1>1, <1>4, <1>5 DEF IsArr
<1>8. ~\E i \in DOMAIN r.of : ~HasId(r.of[i], 2)
  BY <1>5, <1>6
<1>9. Hooks(r) = [list |-> [i \in DOMAIN r.of |-> HookOf(r.of[i])]]
  BY <1>7, <1>8, Zenon DEF Hooks, HookOf, ListAt
<1>10. [i \in DOMAIN r.of |-> HookOf(r.of[i])] = q.list
  <2>1. [i \in DOMAIN r.of |-> HookOf(r.of[i])] = [i \in 1..n |-> q.list[i]]
    BY <1>5, <1>6
  <2> QED
    BY <1>1, <2>1
<1>11. Answer(q, r) = Hooks(r)
  BY <1>5 DEF Answer
<1> QED
  BY <1>2, <1>9, <1>10, <1>11 DEF Right

\* Whatever command it is, what it returns is what is the case.
LEMMA AnswerRead == ASSUME NEW q, Asked(q) PROVE Right(q)
<1>1. q.cmd \in {"GET", "EXISTS", "CLIP", "TTL", "COUNT", "SERVER", "BOUNDS", "JGET", "FGET",
                 "CONFIG", "STATUS", "KEYS", "STATS", "HOOKS"}
  BY DEF Asked
<1> QED
  BY <1>1, GetRead, ExistsRead, ClipRead, TTLRead, CountedRead, ServerRead, BoundsRead, JGetRead,
     FGetRead, ConfigRead, StatusRead, KeysRead, StatsRead, HooksRead

\* Of every question the answer is what is the case: a miss is told from a value however
\* it is reported, a counter is that of its collection, a list is whole and in its order
\* (management.go:95-118, builders.go:535-569, parse.go:312-315, server.go:128-130).
THEOREM AnswerDecodedHolds == ASSUME NoGarbage PROVE Spec => []AnswerDecoded
<1>1. Framed => AnswerDecoded
  <2> SUFFICES ASSUME Framed, Len(results) = 1, NEW q \in Questions, sent[1] = ReplyTo(q)
               PROVE  Answer(q, results[1]) = Truth(q)
    BY DEF AnswerDecoded
  <2>1. results[1] = ReplyTo(q).means
    BY DEF Framed
  <2> QED
    BY <2>1, AnswerRead, QuestionsAssumption DEF Right
<1> QED
  BY <1>1, FramedHolds, PTL

-----------------------------------------------------------------------------
(* The fields of a handle.                                                 *)

\* Within the integers of a width no two have the same low bits.
LEMMA LowBitsIs == ASSUME NEW type \in IntegerTypes, NEW n \in ValuesOf(type) PROVE LowBits(type, n) = n
<1> DEFINE size == type.size
           half == size \div 2
<1>1. size \in Nat \ {0} /\ size % 2 = 0 /\ type.of \in {"int", "uint"}
  BY SizesAssumption DEF IntegerTypes
<1> HIDE DEF size
<1>2. size = 2 * half /\ half \in Int
  BY <1>1
<1> HIDE DEF half
<1>3. ValuesOf(type) = (-half)..half - 1 \/ ValuesOf(type) = 0..size - 1
  BY <1>1 DEF ValuesOf, size, half
<1>4. \A m \in ValuesOf(type) : m \in Int /\ n \in Int /\ -size < n - m /\ n - m < size
  BY <1>1, <1>2, <1>3
<1>5. ASSUME NEW m \in ValuesOf(type), (n - m) % size = 0 PROVE m = n
  <2> DEFINE d == n - m
             h == d \div size
  <2>1. d \in Int /\ -size < d /\ d < size /\ d % size = 0
    BY <1>4, <1>5
  <2> HIDE DEF d
  <2>2. h \in Int /\ d = size * h
    BY <1>1, <2>1
  <2> HIDE DEF h
  <2>3. ~(h >= 1) /\ ~(h <= -1)
    BY <1>1, <2>1, <2>2
  <2>4. d = 0
    BY <1>1, <2>2, <2>3
  <2> QED
    BY <1>4, <2>4 DEF d
<1>6. (n - n) % size = 0
  BY <1>1, <1>4
<1> DEFINE R(m) == (n - m) % size = 0
<1>7. LowBits(type, n) = CHOOSE m \in ValuesOf(type) : R(m)
  BY DEF LowBits, size
<1>8. R(n) /\ \A m \in ValuesOf(type) : R(m) => m = n
  BY <1>5, <1>6
<1> HIDE DEF R
<1> QED
  BY <1>7, <1>8

\* A field read as a type is its text again or, when no value of the type is written so,
\* none.
LEMMA FieldRead ==
  ASSUME NEW fields, IsFields(fields), NEW type \in Types, NEW f \in fields
  PROVE  LET got == FieldOf(type, fields, f[1]) IN
         IF got.ok THEN Printed(got) = f[2]
         ELSE type.of # "string" /\ \A n \in ValuesOf(type) : Sym(n) # f[2]
<1> DEFINE raw == {g[2] : g \in {h \in fields : h[1] = f[1]}}
           text == CHOOSE t \in raw : TRUE
           got == FieldOf(type, fields, f[1])
<1>1. raw = {f[2]}
  BY DEF IsFields
<1>2. text = f[2] /\ raw # {}
  <2> HIDE DEF raw
  <2> QED
    BY <1>1
<1>3. got = IF type.of = "string" THEN [ok |-> TRUE, text |-> text]
            ELSE IF IsNumber(text) /\ NumberOf(text) \in ValuesOf(type)
                 THEN [ok |-> TRUE, n |-> LowBits(type, NumberOf(text))]
            ELSE [ok |-> FALSE]
  BY <1>2, Zenon DEF FieldOf
<1> HIDE DEF got, text, raw
<1>4. CASE type.of = "string"
  <2>1. got = [ok |-> TRUE, text |-> f[2]]
    BY <1>2, <1>3, <1>4
  <2>2. got.ok /\ Printed(got) = f[2]
    BY <2>1 DEF Printed
  <2> QED
    BY <2>2 DEF got
<1>5. CASE type.of # "string"
  <2>1. type \in IntegerTypes
    BY <1>5 DEF Types
  <2>2. CASE IsNumber(f[2]) /\ NumberOf(f[2]) \in ValuesOf(type)
    <3> DEFINE n == NumberOf(f[2])
    <3>1. Sym(n) = f[2]
      BY <2>2, Zenon DEF IsNumber, NumberOf
    <3> HIDE DEF n
    <3>2. LowBits(type, n) = n
      BY <2>1, <2>2, LowBitsIs DEF n
    <3>3. got = [ok |-> TRUE, n |-> n]
      BY <1>2, <1>3, <1>5, <2>2, <3>2 DEF n
    <3>4. got.ok /\ Printed(got) = Sym(n)
      BY <3>3 DEF Printed
    <3> QED
      BY <3>1, <3>4 DEF got
  <2>3. CASE ~(IsNumber(f[2]) /\ NumberOf(f[2]) \in ValuesOf(type))
    <3>1. got = [ok |-> FALSE]
      BY <1>2, <1>3, <1>5, <2>3
    <3>2. ~got.ok
      BY <3>1
    <3>3. ASSUME NEW n \in ValuesOf(type), Sym(n) = f[2] PROVE FALSE
      <4>1. n \in Numbers
        BY <2>1, SizesAssumption
      <4> QED
        BY <2>3, <3>3, <4>1, SymIs
    <3> QED
      BY <1>5, <3>2, <3>3 DEF got
  <2> QED
    BY <2>2, <2>3
<1> QED
  BY <1>4, <1>5

\* The fields after each of the replies rs.
KeptUpTo(rs, n, f) ==
  f = [k \in 0..n |-> IF k = 0 THEN {} ELSE GetExec(TRUE, f[k - 1], rs[k]).fields]

LEMMA KeptExists ==
  ASSUME NEW rs
  PROVE  \A n \in Nat : \E f : KeptUpTo(rs, n, f)
<1> DEFINE T == {n \in Nat : \E f : KeptUpTo(rs, n, f)}
<1>1. 0 \in T
  <2> DEFINE f == [k \in 0..0 |-> {}]
  <2>1. KeptUpTo(rs, 0, f)
    BY DEF KeptUpTo
  <2> QED
    BY <2>1
<1>2. ASSUME NEW n \in Nat, n \in T PROVE n + 1 \in T
  <2>1. PICK f : KeptUpTo(rs, n, f)
    BY <1>2
  <2> DEFINE last == GetExec(TRUE, f[n], rs[n + 1]).fields
             g == [k \in 0..n + 1 |-> IF k = n + 1 THEN last ELSE f[k]]
  <2>2. \A k \in 0..n : f[k] = IF k = 0 THEN {} ELSE GetExec(TRUE, f[k - 1], rs[k]).fields
    BY <2>1 DEF KeptUpTo
  <2> HIDE DEF last
  <2>3. (\A k \in 0..n : g[k] = f[k]) /\ g[n + 1] = last
    OBVIOUS
  <2>4. \A k \in 0..n + 1 : g[k] = IF k = 0 THEN {} ELSE GetExec(TRUE, g[k - 1], rs[k]).fields
    <3> TAKE k \in 0..n + 1
    <3>1. CASE k = n + 1
      <4>1. n \in 0..n /\ k - 1 = n /\ k # 0
        BY <3>1
      <4> QED
        BY <2>3, <3>1, <4>1 DEF last
    <3>2. CASE k \in 0..n
      <4>1. k # 0 => k - 1 \in 0..n
        BY <3>2
      <4> QED
        BY <2>2, <2>3, <3>2, <4>1
    <3>3. k = n + 1 \/ k \in 0..n
      OBVIOUS
    <3> HIDE DEF g
    <3> QED
      BY <3>1, <3>2, <3>3, Zenon
  <2>5. KeptUpTo(rs, n + 1, g)
    BY <2>4 DEF KeptUpTo
  <2> QED
    BY <2>5
<1> HIDE DEF T
<1>3. \A n \in Nat : n \in T
  BY <1>1, <1>2, NatSet
<1> QED
  BY <1>3 DEF T

\* What a handle keeps of the reply to a GET with fields is the fields of the object,
\* whatever it had before.
LEMMA FieldsKept ==
  ASSUME NEW q, Asked(q), q.cmd = "GET", q.withFields, q.of # {}, NEW before
  PROVE  GetExec(TRUE, before, ReplyTo(q).means).fields = The(q.of).fields
<1> DEFINE o == The(q.of)
           x == GetValue(q.format, o)
           r == ReplyTo(q).means
<1>1. IsFields(o.fields)
  BY TheIs DEF Asked, IsObject
<1>2. r = Arr(<<x>> \o FieldsPart(o)).means
  BY DEF ReplyTo, GetReply
<1> HIDE DEF o, x, r
<1>3. PICK s : /\ r = ArrValue(s) /\ Len(s) >= 1
               /\ (IF Len(s) > 1 THEN ParseFields(s[2]) ELSE {}) = o.fields
  BY <1>1, <1>2, FewMore
<1>4. r.t = "arr" /\ r.of = s
  BY <1>3, ArrIs
<1>5. IsArr(r, 1)
  BY <1>3, <1>4, Zenon DEF IsArr
<1> DEFINE kept == IF Len(r.of) > 1 THEN ParseFields(r.of[2]) ELSE {}
<1>6. GetExec(TRUE, before, r) = [value |-> r.of[1], fields |-> kept]
  BY <1>4, <1>5 DEF GetExec
<1>7. kept = o.fields
  BY <1>3, <1>4, Zenon
<1> DEFINE e == GetExec(TRUE, before, r)
<1> HIDE DEF kept, e
<1>8. e = [value |-> r.of[1], fields |-> kept]
  BY <1>6 DEF e
<1>9. e.fields = o.fields
  BY <1>7, <1>8
<1> QED
  BY <1>9 DEF o, r, e

\* A handle has the fields of the last object it read and no others, and one read as a
\* type is that of the server or a miss (builders.go:531-533, types.go:72-75).
THEOREM FieldsExactHolds == ASSUME NoGarbage PROVE Spec => []FieldsExact
<1>1. Framing => FieldsExact
  <2> SUFFICES ASSUME Framing, NEW k \in DOMAIN results, NEW q \in Gets(k)
               PROVE  LET fields == GetFields(TRUE)[k] IN
                      /\ fields = The(q.of).fields
                      /\ \A type \in Types, f \in fields :
                           LET got == FieldOf(type, fields, f[1]) IN
                           IF got.ok THEN Printed(got) = f[2]
                           ELSE type.of # "string" /\ \A n \in ValuesOf(type) : Sym(n) # f[2]
    BY DEF FieldsExact
  <2> DEFINE m == Len(results)
             g == GetFields(TRUE)
  <2>1. results[k] = sent[k].means /\ m \in Nat /\ DOMAIN results = 1..m
    BY LenProperties DEF Framing, Typed
  <2>2. q \in Questions /\ q.cmd = "GET" /\ q.withFields /\ q.of # {} /\ sent[k] = ReplyTo(q)
    BY DEF Gets
  <2>3. Asked(q)
    BY <2>2, QuestionsAssumption
  <2> HIDE DEF m
  <2>4. \E f : KeptUpTo(results, m, f)
    BY <2>1, KeptExists
  <2>5. g = CHOOSE f : KeptUpTo(results, m, f)
    BY DEF GetFields, KeptUpTo, m
  <2> HIDE DEF g
  <2>6. KeptUpTo(results, m, g)
    BY <2>4, <2>5
  <2>7. g[k] = GetExec(TRUE, g[k - 1], results[k]).fields
    <3>1. k \in 0..m /\ k # 0
      BY <2>1
    <3> DEFINE N(j) == IF j = 0 THEN {} ELSE GetExec(TRUE, g[j - 1], results[j]).fields
    <3>2. g = [j \in 0..m |-> N(j)]
      BY <2>6 DEF KeptUpTo
    <3> HIDE DEF N
    <3>3. g[k] = N(k)
      BY <3>1, <3>2
    <3> QED
      BY <3>1, <3>3 DEF N
  <2>8. g[k] = The(q.of).fields
    BY <2>1, <2>2, <2>3, <2>7, FieldsKept
  <2>9. IsFields(g[k])
    BY <2>2, <2>3, <2>8, TheIs DEF Asked, IsObject
  <2> QED
    BY <2>8, <2>9, FieldRead DEF g
<1>2. Init => Framing /\ Held
  BY InitHolds, FramingInit
<1>3. (Framing /\ Held) /\ [Next]_vars => (Framing /\ Held)'
  BY StepHolds, FramingStep
<1> QED
  BY <1>1, <1>2, <1>3, PTL DEF Spec

==============================================================================
