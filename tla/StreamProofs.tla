---------------------------- MODULE StreamProofs ----------------------------
(***************************************************************************)
(* Proofs about Stream, for any number of goroutines that close it and of  *)
(* messages the server sends.                                              *)
(***************************************************************************)
EXTENDS Stream, SequenceTheorems, TLAPS

Places == {"out", "dial", "ack", "failed", "idle", "reading", "broken", "cause"}

TypeOK ==
  /\ pc \in Places
  /\ last \in {"none", "event", "decode", "unexpected", "eof", "ctx", "disconnected"}
  /\ closed \in BOOLEAN /\ lost \in BOOLEAN
  /\ once \in {"new", "running", "done"}
  /\ watch \in {"off", "armed", "fired"}
  /\ ctx \in {"live", "done"}
  /\ cpc \in [Closers -> {"out", "stop", "shut", "returned"}]
  /\ sock \in {"none", "open", "hungup", "closed"}
  /\ dl \in {"none", "set", "past"}
  /\ wire \in Seq(Messages) /\ buf \in Seq(Messages)
  /\ pushed \in Nat /\ sent \in Nat /\ seen \in Nat

-----------------------------------------------------------------------------
(* Why a stream ends.                                                      *)

\* A message that cannot be read comes from a server that broke the protocol.
Broken(m) == m.kind \in {"err", "garbage"}

\* Before the stream is open nobody watches or closes it, and a call that fails
\* has closed what it dialled.
Unopened ==
  /\ pc \in {"out", "dial"} => sock = "none"
  /\ pc = "ack" => sock \in {"open", "hungup"}
  /\ pc = "failed" => sock \in {"none", "closed"}
  /\ ~Opened => watch = "off" /\ once = "new" /\ ~closed /\ \A q \in Closers : cpc[q] = "out"

\* Once it is, whatever ends it has a cause that is on record.
Causes ==
  /\ Opened => dl = "none"
  /\ Opened /\ sock = "closed" => closed \/ ctx = "done"
  /\ sock = "hungup" => lost
  /\ \A i \in 1..Len(wire) : Broken(wire[i]) => lost
  /\ \A i \in 1..Len(buf) : Broken(buf[i]) => lost
  /\ watch = "fired" => ctx = "done"
  /\ pc = "broken" => closed \/ ctx = "done" \/ lost
  /\ pc = "cause" => ctx = "done" \/ lost

\* How far Close has come.
Closure ==
  /\ once = "new" => \A q \in Closers : cpc[q] = "out"
  /\ \A q \in Closers : /\ cpc[q] # "out" => closed
                        /\ cpc[q] = "shut" => watch # "armed"
                        /\ cpc[q] = "returned" => once = "done"
  /\ once = "done" => closed /\ sock = "closed" /\ watch # "armed"

Ending == Unopened /\ Causes /\ Closure /\ ReasonIsTrue

-----------------------------------------------------------------------------
(* What is on its way.                                                     *)

IsEvent(m) == m.kind \in EventKinds

\* The events of q come after event number from and end at number to at the latest,
\* in order and without a gap between them.
Consecutive(q, from, to) ==
  \A i \in 1..Len(q) : IsEvent(q[i]) =>
    /\ from < q[i].id /\ q[i].id <= to
    /\ \A j \in 1..(i - 1) : IsEvent(q[j]) => q[j].id < q[i].id
    /\ from + 1 < q[i].id =>
         \E j \in 1..(i - 1) : IsEvent(q[j]) /\ q[j].id + 1 = q[i].id

\* ... and reach it.
Whole(q, from, to) == from = to \/ \E i \in 1..Len(q) : IsEvent(q[i]) /\ q[i].id = to

Queue == buf \o wire

\* The events the server has sent since the last one Next handed out are in the
\* reader or on the wire, all of them while the connection stands.
InOrder == /\ seen <= sent
           /\ Consecutive(Queue, seen, sent)
           /\ sock \in {"none", "open"} => Whole(Queue, seen, sent)

-----------------------------------------------------------------------------
(* Types.                                                                  *)

\* The first message, and what is behind it.
LEMMA Behind ==
  ASSUME NEW S, NEW q \in Seq(S), q # <<>>
  PROVE  /\ Len(q) \in Nat /\ Len(q) >= 1 /\ Head(q) = q[1] /\ q[1] \in S
         /\ Tail(q) \in Seq(S) /\ Len(Tail(q)) = Len(q) - 1
         /\ \A i \in 1..(Len(q) - 1) : Tail(q)[i] = q[i + 1]
BY EmptySeq, LenProperties, ElementOfSeq, HeadTailProperties

\* A part of what is on the wire.
LEMMA Part ==
  ASSUME NEW S, NEW q \in Seq(S), NEW m \in 1..(Len(q) + 1), NEW n \in (m - 1)..Len(q)
  PROVE  /\ SubSeq(q, m, n) \in Seq(S)
         /\ Len(SubSeq(q, m, n)) = n - m + 1
         /\ \A i \in 1..(n - m + 1) : SubSeq(q, m, n)[i] = q[m + i - 1]
<1>1. Len(q) \in Nat
  BY LenProperties
<1>2. \A i \in m..n : q[i] \in S
  BY <1>1, ElementOfSeq
<1> QED
  BY <1>1, <1>2, SubSeqProperties

LEMMA TypeInit == Init => TypeOK
<1>1. <<>> \in Seq(Messages)
  BY EmptySeq
<1>2. Init => /\ wire \in Seq(Messages) /\ buf \in Seq(Messages)
              /\ closed \in BOOLEAN /\ lost \in BOOLEAN
  BY <1>1 DEF Init
<1> QED
  BY <1>2 DEF Init, TypeOK, Places

LEMMA TypeStep == TypeOK /\ [Next]_vars => TypeOK'
<1> SUFFICES ASSUME TypeOK, [Next]_vars PROVE TypeOK'
  OBVIOUS
<1> USE DEF TypeOK, Places, Returns, CloseSocket, readVars, closeVars, connVars, serverVars
<1>1. CASE OpenRefused \/ Open \/ DialOk \/ DialFail
  BY <1>1 DEF OpenRefused, Open, DialOk, DialFail, HandshakeDeadline
<1>2. CASE AckOk
  BY <1>2, Behind DEF AckOk, NewStream, StreamDeadline
<1>3. CASE AckFail \/ AckWrong
  BY <1>3, EmptySeq DEF AckFail, AckWrong
<1>4. CASE Fill
  <2>1. PICK k \in 1..Len(wire) : /\ buf' = SubSeq(wire, 1, k)
                                  /\ wire' = SubSeq(wire, k + 1, Len(wire))
    BY <1>4 DEF Fill
  <2>2. Len(wire) \in Nat
    BY LenProperties
  <2>3. buf' \in Seq(Messages) /\ wire' \in Seq(Messages)
    BY <2>1, <2>2, Part
  <2> QED
    BY <1>4, <2>3 DEF Fill
<1>5. CASE NextCall \/ NextClosed \/ NextDone
  BY <1>5 DEF NextCall, NextClosed, NextDone
<1>6. CASE NextEvent
  <2>1. buf # <<>> /\ seen' = Head(buf).id /\ buf' = Tail(buf)
    BY <1>6 DEF NextEvent
  <2>2. buf' \in Seq(Messages) /\ Head(buf) \in Messages
    BY <2>1, Behind
  <2>3. seen' \in Nat
    BY <2>1, <2>2 DEF Messages
  <2> QED
    BY <1>6, <2>2, <2>3 DEF NextEvent
<1>7. CASE NextSkip \/ NextUnexpected \/ NextBroken
  BY <1>7, Behind DEF NextSkip, NextUnexpected, NextBroken
<1>8. ASSUME NEW q \in Closers, Closing(q) PROVE TypeOK'
  BY <1>8, EmptySeq DEF Closing, CloseEnter, CloseStop, CloseShut, CloseAgain
<1>9. CASE Cancel \/ FireWatch \/ RunWatch \/ ClosePool \/ Expire
  BY <1>9, EmptySeq DEF Cancel, FireWatch, RunWatch, ClosePool, Expire
<1>10. CASE Serve
  <2>1. PICK kind \in IF pushed = 0 THEN Acks ELSE Pushes, n \in Nat :
          wire' = Append(wire, [kind |-> kind, id |-> n])
    BY <1>10 DEF Serve
  <2>2. [kind |-> kind, id |-> n] \in Messages
    BY StreamAssumption DEF Messages
  <2>3. wire' \in Seq(Messages)
    BY <2>1, <2>2, AppendProperties
  <2> QED
    BY <1>10, <2>3 DEF Serve
<1>11. CASE Hangup
  <2>1. PICK k \in 0..Len(wire) : wire' = SubSeq(wire, 1, k)
    BY <1>11 DEF Hangup
  <2>2. Len(wire) \in Nat
    BY LenProperties
  <2>3. wire' \in Seq(Messages)
    BY <2>1, <2>2, Part
  <2> QED
    BY <1>11, <2>3 DEF Hangup
<1>12. CASE UNCHANGED vars
  BY <1>12 DEF vars
<1> QED
  BY <1>1, <1>2, <1>3, <1>4, <1>5, <1>6, <1>7, <1>8, <1>9, <1>10, <1>11, <1>12
  DEF Next, Opening, Reading

\* At any number of closers and messages, every variable keeps its type.
THEOREM TypeCorrect == Spec => []TypeOK
BY TypeInit, TypeStep, PTL DEF Spec

-----------------------------------------------------------------------------
(* Why a stream ends.                                                      *)

LEMMA EndingInit == Init => Ending
BY EmptySeq DEF Init, Ending, Unopened, Causes, Closure, ReasonIsTrue, Opened

\* Taking the first message off the reader leaves no new one in it.
LEMMA CausesTail ==
  ASSUME TypeOK, Causes, buf # <<>>
  PROVE  /\ Broken(Head(buf)) => lost
         /\ \A i \in 1..Len(Tail(buf)) : Broken(Tail(buf)[i]) => lost
<1>1. /\ Len(buf) \in Nat /\ Len(buf) >= 1 /\ Head(buf) = buf[1]
      /\ Len(Tail(buf)) = Len(buf) - 1
      /\ \A i \in 1..(Len(buf) - 1) : Tail(buf)[i] = buf[i + 1]
  BY Behind DEF TypeOK
<1> QED
  BY <1>1 DEF Causes

LEMMA EndingStep == TypeOK /\ Ending /\ [Next]_vars => Ending'
<1> SUFFICES ASSUME TypeOK, Ending, [Next]_vars PROVE Ending'
  OBVIOUS
<1> USE DEF Ending, Unopened, Causes, Closure, ReasonIsTrue, Opened, Places,
            Returns, CloseSocket, readVars, closeVars, connVars, serverVars
<1>0. /\ pc \in Places /\ cpc \in [Closers -> {"out", "stop", "shut", "returned"}]
      /\ wire \in Seq(Messages) /\ buf \in Seq(Messages)
      /\ sock \in {"none", "open", "hungup", "closed"}
      /\ watch \in {"off", "armed", "fired"} /\ ctx \in {"live", "done"}
      /\ once \in {"new", "running", "done"} /\ closed \in BOOLEAN /\ lost \in BOOLEAN
  BY DEF TypeOK
<1>e. Len(<<>>) = 0
  BY EmptySeq
<1>1. CASE OpenRefused \/ Open \/ DialOk \/ DialFail
  BY <1>0, <1>1 DEF OpenRefused, Open, DialOk, DialFail, HandshakeDeadline
<1>2. CASE AckOk
  BY <1>0, <1>2, CausesTail DEF AckOk, NewStream, StreamDeadline
<1>3. CASE AckFail \/ AckWrong
  BY <1>0, <1>e, <1>3 DEF AckFail, AckWrong
<1>4. CASE Fill
  <2>1. PICK k \in 1..Len(wire) : /\ buf' = SubSeq(wire, 1, k)
                                  /\ wire' = SubSeq(wire, k + 1, Len(wire))
    BY <1>4 DEF Fill
  <2>2. /\ \A i \in 1..Len(buf') : \E j \in 1..Len(wire) : buf'[i] = wire[j]
        /\ \A i \in 1..Len(wire') : \E j \in 1..Len(wire) : wire'[i] = wire[j]
    <3>1. Len(wire) \in Nat
      BY <1>0, LenProperties
    <3>2. Len(buf') = k /\ \A i \in 1..k : buf'[i] = wire[i]
      BY <1>0, <2>1, <3>1, Part
    <3>3. /\ Len(wire') = Len(wire) - k
          /\ \A i \in 1..(Len(wire) - k) : wire'[i] = wire[k + i]
      BY <1>0, <2>1, <3>1, Part
    <3>4. ASSUME NEW i \in 1..Len(buf') PROVE \E j \in 1..Len(wire) : buf'[i] = wire[j]
      <4>1. i \in 1..Len(wire) /\ buf'[i] = wire[i]
        BY <3>1, <3>2
      <4> QED
        BY <4>1
    <3>5. ASSUME NEW i \in 1..Len(wire') PROVE \E j \in 1..Len(wire) : wire'[i] = wire[j]
      <4>1. k + i \in 1..Len(wire) /\ wire'[i] = wire[k + i]
        BY <3>1, <3>3
      <4> QED
        BY <4>1
    <3> QED
      BY <3>4, <3>5
  <2>3. UNCHANGED <<readVars, closeVars, watch, ctx, sock, dl, lost>>
    BY <1>4 DEF Fill
  <2>4. /\ \A i \in 1..Len(wire') : Broken(wire'[i]) => lost'
        /\ \A i \in 1..Len(buf') : Broken(buf'[i]) => lost'
    BY <2>2, <2>3
  <2> QED
    BY <2>3, <2>4
<1>5. CASE NextCall \/ NextClosed \/ NextDone
  BY <1>0, <1>5 DEF NextCall, NextClosed, NextDone
<1>6. CASE NextEvent \/ NextSkip \/ NextUnexpected
  BY SMTT(30), <1>0, <1>6, CausesTail DEF NextEvent, NextSkip, NextUnexpected
<1>7. CASE NextBroken
  <2>1. closed \/ ctx = "done" \/ lost
    BY <1>0, <1>7, CausesTail DEF NextBroken, ReadFails, Broken
  <2> QED
    BY <1>0, <1>7, <2>1, CausesTail DEF NextBroken
<1>8. ASSUME NEW q \in Closers, CloseEnter(q) \/ CloseStop(q) \/ CloseAgain(q) PROVE Ending'
  BY <1>0, <1>8 DEF CloseEnter, CloseStop, CloseAgain
<1>9. ASSUME NEW q \in Closers, CloseShut(q) PROVE Ending'
  BY <1>0, <1>e, <1>9 DEF CloseShut
<1>10. CASE Cancel \/ FireWatch \/ ClosePool \/ Expire
  BY <1>0, <1>10 DEF Cancel, FireWatch, ClosePool, Expire
<1>11. CASE RunWatch
  BY <1>0, <1>e, <1>11 DEF RunWatch
<1>12. CASE Serve
  <2>1. PICK kind \in IF pushed = 0 THEN Acks ELSE Pushes, n \in Nat :
          /\ wire' = Append(wire, [kind |-> kind, id |-> n])
          /\ lost' = (lost \/ kind \in {"err", "garbage"})
    BY <1>12 DEF Serve, TypeOK
  <2>2. Len(wire) \in Nat
    BY <1>0, LenProperties
  <2>3. /\ Len(wire') = Len(wire) + 1
        /\ \A i \in 1..Len(wire) : wire'[i] = wire[i]
        /\ wire'[Len(wire) + 1].kind = kind
    BY <1>0, <2>1, <2>2, AppendProperties
  <2>4. \A i \in 1..Len(wire') : Broken(wire'[i]) => lost'
    <3> SUFFICES ASSUME NEW i \in 1..Len(wire'), Broken(wire'[i]) PROVE lost'
      OBVIOUS
    <3>1. CASE i \in 1..Len(wire)
      BY <2>1, <2>3, <3>1
    <3>2. CASE i = Len(wire) + 1
      BY <2>1, <2>3, <3>2 DEF Broken
    <3> QED
      BY <2>2, <2>3, <3>1, <3>2
  <2> QED
    BY <1>0, <1>12, <2>1, <2>4 DEF Serve
<1>13. CASE Hangup
  <2>1. lost' /\ sock' = "hungup" /\ sock = "open"
    BY <1>13 DEF Hangup
  <2> QED
    BY <1>0, <1>13, <2>1 DEF Hangup
<1>14. CASE UNCHANGED vars
  BY <1>14 DEF vars
<1> QED
  BY <1>1, <1>2, <1>3, <1>4, <1>5, <1>6, <1>7, <1>8, <1>9, <1>10, <1>11, <1>12, <1>13,
     <1>14 DEF Next, Opening, Reading, Closing

\* At any number of closers and messages: Next reports a disconnection only if the
\* server broke the connection or the protocol, the end of the stream only after
\* Close, the context's error only when it is done (stream.go:40-59).
THEOREM ReasonsHold == Spec => []ReasonIsTrue
<1>1. TypeOK /\ Ending /\ [Next]_vars => TypeOK' /\ Ending'
  BY TypeStep, EndingStep
<1>2. Ending => ReasonIsTrue
  BY DEF Ending
<1> QED
  BY <1>1, <1>2, TypeInit, EndingInit, PTL DEF Spec

\* However many goroutines call Close, one that returns has released the connection
\* and the context's reference to the stream, and so has an opening that failed
\* (stream.go:78-88, 127-129, 142-145, 174-177).
THEOREM CloseReleases == Spec => []CloseMeansReleased
<1>1. TypeOK /\ Ending /\ [Next]_vars => TypeOK' /\ Ending'
  BY TypeStep, EndingStep
<1>2. Ending => CloseMeansReleased
  BY DEF Ending, Unopened, Closure, CloseMeansReleased, Opened
<1> QED
  BY <1>1, <1>2, TypeInit, EndingInit, PTL DEF Spec

-----------------------------------------------------------------------------
(* What is on its way.                                                     *)

LEMMA IdsAreNumbers ==
  ASSUME NEW q \in Seq(Messages), NEW i \in 1..Len(q)
  PROVE  q[i].id \in Nat
<1>1. q[i] \in Messages
  BY ElementOfSeq
<1> QED
  BY <1>1 DEF Messages

\* Messages taken away at the end leave no gap.
LEMMA ConsecutivePrefix ==
  ASSUME NEW q \in Seq(Messages), NEW r \in Seq(Messages), NEW from \in Nat, NEW to \in Nat,
         Consecutive(q, from, to),
         Len(r) <= Len(q), \A i \in 1..Len(r) : r[i] = q[i]
  PROVE  Consecutive(r, from, to)
<1>1. Len(q) \in Nat /\ Len(r) \in Nat
  BY LenProperties
<1> SUFFICES ASSUME NEW i \in 1..Len(r), IsEvent(r[i])
             PROVE  /\ from < r[i].id /\ r[i].id <= to
                    /\ \A j \in 1..(i - 1) : IsEvent(r[j]) => r[j].id < r[i].id
                    /\ from + 1 < r[i].id =>
                         \E j \in 1..(i - 1) : IsEvent(r[j]) /\ r[j].id + 1 = r[i].id
  BY DEF Consecutive
<1>2. i \in 1..Len(q) /\ r[i] = q[i] /\ \A j \in 1..(i - 1) : r[j] = q[j]
  BY <1>1
<1> QED
  BY <1>2 DEF Consecutive

\* The first message, when it is an event, is the one after the last handed out.
LEMMA ConsecutiveHead ==
  ASSUME NEW q \in Seq(Messages), NEW from \in Nat, NEW to \in Nat,
         Consecutive(q, from, to), q # <<>>, IsEvent(q[1])
  PROVE  q[1].id = from + 1 /\ from < to
<1>1. Len(q) \in Nat /\ 1 \in 1..Len(q) /\ q[1] \in Messages
  BY Behind
<1>2. q[1].id \in Nat
  BY <1>1 DEF Messages
<1>3. from < q[1].id /\ q[1].id <= to /\ ~(from + 1 < q[1].id)
  BY <1>1 DEF Consecutive
<1> QED
  BY <1>2, <1>3

\* What is behind the first message.
LEMMA ConsecutiveTail ==
  ASSUME NEW q \in Seq(Messages), NEW r \in Seq(Messages), NEW from \in Nat, NEW to \in Nat,
         Consecutive(q, from, to), q # <<>>, Len(r) = Len(q) - 1,
         \A i \in 1..Len(r) : r[i] = q[i + 1],
         NEW next, next = IF IsEvent(q[1]) THEN from + 1 ELSE from
  PROVE  Consecutive(r, next, to)
<1>1. Len(q) \in Nat \ {0} /\ Len(r) \in Nat
  BY Behind
<1> SUFFICES ASSUME NEW i \in 1..Len(r), IsEvent(r[i])
             PROVE  /\ next < r[i].id /\ r[i].id <= to
                    /\ \A j \in 1..(i - 1) : IsEvent(r[j]) => r[j].id < r[i].id
                    /\ next + 1 < r[i].id =>
                         \E j \in 1..(i - 1) : IsEvent(r[j]) /\ r[j].id + 1 = r[i].id
  BY DEF Consecutive
<1>2. /\ i + 1 \in 1..Len(q) /\ r[i] = q[i + 1] /\ i \in Nat
      /\ r[i] \in Messages
  BY <1>1, ElementOfSeq
<1>3. r[i].id \in Nat
  BY <1>2 DEF Messages
<1>4. /\ from < r[i].id /\ r[i].id <= to
      /\ \A j \in 1..i : IsEvent(q[j]) => q[j].id < r[i].id
      /\ from + 1 < r[i].id =>
           \E j \in 1..i : IsEvent(q[j]) /\ q[j].id + 1 = r[i].id
  <2>1. (i + 1) - 1 = i
    BY <1>2
  <2> QED
    BY <1>2, <2>1 DEF Consecutive
<1>5. IsEvent(q[1]) => q[1].id = from + 1
  BY ConsecutiveHead
<1>6. next < r[i].id /\ r[i].id <= to
  BY <1>2, <1>3, <1>4, <1>5
<1>7. \A j \in 1..(i - 1) : IsEvent(r[j]) => r[j].id < r[i].id
  <2> SUFFICES ASSUME NEW j \in 1..(i - 1), IsEvent(r[j]) PROVE r[j].id < r[i].id
    OBVIOUS
  <2>1. j + 1 \in 1..i /\ r[j] = q[j + 1]
    BY <1>1, <1>2
  <2> QED
    BY <1>4, <2>1
<1>8. ASSUME next + 1 < r[i].id
      PROVE  \E j \in 1..(i - 1) : IsEvent(r[j]) /\ r[j].id + 1 = r[i].id
  <2>1. PICK j \in 1..i : IsEvent(q[j]) /\ q[j].id + 1 = r[i].id
    BY <1>3, <1>4, <1>8
  <2>2. j # 1
    BY <1>3, <1>5, <1>8, <2>1
  <2>3. j - 1 \in 1..(i - 1) /\ r[j - 1] = q[j]
    BY <1>1, <1>2, <2>2
  <2> QED
    BY <2>1, <2>3
<1> QED
  BY <1>6, <1>7, <1>8

LEMMA WholeTail ==
  ASSUME NEW q \in Seq(Messages), NEW r \in Seq(Messages), NEW from \in Nat, NEW to \in Nat,
         Consecutive(q, from, to), Whole(q, from, to), q # <<>>, Len(r) = Len(q) - 1,
         \A i \in 1..Len(r) : r[i] = q[i + 1],
         NEW next, next = IF IsEvent(q[1]) THEN from + 1 ELSE from
  PROVE  Whole(r, next, to)
<1>1. Len(q) \in Nat \ {0} /\ Len(r) \in Nat
  BY Behind
<1>2. IsEvent(q[1]) => q[1].id = from + 1 /\ from < to
  BY ConsecutiveHead
<1>3. CASE from = to
  BY <1>2, <1>3 DEF Whole
<1>4. ASSUME NEW i \in 1..Len(q), IsEvent(q[i]), q[i].id = to
      PROVE  Whole(r, next, to)
  <2>1. CASE i = 1
    BY <1>2, <1>4, <2>1 DEF Whole
  <2>2. CASE i # 1
    <3>1. i - 1 \in 1..Len(r) /\ r[i - 1] = q[i]
      BY <1>1, <2>2
    <3> QED
      BY <1>4, <3>1 DEF Whole
  <2> QED
    BY <2>1, <2>2
<1> QED
  BY <1>3, <1>4 DEF Whole

\* One more message at the end.
LEMMA ConsecutiveAppend ==
  ASSUME NEW q \in Seq(Messages), NEW r \in Seq(Messages), NEW from \in Nat, NEW to \in Nat,
         from <= to, Consecutive(q, from, to), Whole(q, from, to),
         NEW m \in Messages, Len(r) = Len(q) + 1, r[Len(q) + 1] = m,
         \A i \in 1..Len(q) : r[i] = q[i],
         NEW last1 \in Nat, last1 = IF IsEvent(m) THEN to + 1 ELSE to,
         IsEvent(m) => m.id = to + 1
  PROVE  Consecutive(r, from, last1) /\ Whole(r, from, last1)
<1>1. Len(q) \in Nat /\ Len(r) \in Nat
  BY LenProperties
<1>2. ASSUME NEW i \in 1..Len(r), IsEvent(r[i])
      PROVE  /\ from < r[i].id /\ r[i].id <= last1
             /\ \A j \in 1..(i - 1) : IsEvent(r[j]) => r[j].id < r[i].id
             /\ from + 1 < r[i].id =>
                  \E j \in 1..(i - 1) : IsEvent(r[j]) /\ r[j].id + 1 = r[i].id
  <2>1. CASE i \in 1..Len(q)
    <3>1. r[i] = q[i] /\ \A j \in 1..(i - 1) : r[j] = q[j]
      BY <1>1, <2>1
    <3>2. q[i].id \in Nat
      BY <2>1, IdsAreNumbers
    <3>3. q[i].id <= to
      BY <1>2, <2>1, <3>1 DEF Consecutive
    <3> QED
      BY SMTT(30), <1>2, <2>1, <3>1, <3>2, <3>3 DEF Consecutive
  <2>2. CASE i = Len(q) + 1
    <3>1. r[i] = m /\ m.id = to + 1 /\ last1 = to + 1
      BY <1>2, <2>2
    <3>2. ASSUME NEW j \in 1..(i - 1), IsEvent(r[j]) PROVE r[j].id < r[i].id
      <4>1. j \in 1..Len(q) /\ r[j] = q[j]
        BY <1>1, <2>2
      <4>2. q[j].id <= to /\ q[j].id \in Nat
        BY <3>2, <4>1, IdsAreNumbers DEF Consecutive
      <4> QED
        BY <3>1, <4>1, <4>2
    <3>3. ASSUME from + 1 < r[i].id
          PROVE  \E j \in 1..(i - 1) : IsEvent(r[j]) /\ r[j].id + 1 = r[i].id
      <4>1. PICK j \in 1..Len(q) : IsEvent(q[j]) /\ q[j].id = to
        BY <3>1, <3>3 DEF Whole
      <4>2. j \in 1..(i - 1) /\ r[j] = q[j]
        BY <1>1, <2>2
      <4> QED
        BY <3>1, <4>1, <4>2
    <3> QED
      BY <3>1, <3>2, <3>3
  <2> QED
    BY SMTT(30), <1>1, <2>1, <2>2
<1>3. Whole(r, from, last1)
  <2>1. CASE IsEvent(m)
    <3>1. Len(q) + 1 \in 1..Len(r)
      BY <1>1
    <3> QED
      BY <2>1, <3>1 DEF Whole
  <2>2. CASE ~IsEvent(m)
    <3>1. \A i \in 1..Len(q) : i \in 1..Len(r)
      BY <1>1
    <3> QED
      BY <2>2, <3>1 DEF Whole
  <2> QED
    BY <2>1, <2>2
<1> QED
  BY <1>2, <1>3 DEF Consecutive

\* The same messages.
LEMMA ConsecutiveSame ==
  ASSUME NEW q \in Seq(Messages), NEW r \in Seq(Messages), NEW from \in Nat, NEW to \in Nat,
         Len(r) = Len(q), \A i \in 1..Len(r) : r[i] = q[i]
  PROVE  /\ Consecutive(q, from, to) => Consecutive(r, from, to)
         /\ Whole(q, from, to) => Whole(r, from, to)
<1>1. Len(q) \in Nat
  BY LenProperties
<1>2. Consecutive(q, from, to) => Consecutive(r, from, to)
  BY <1>1, ConsecutivePrefix
<1>3. Whole(q, from, to) => Whole(r, from, to)
  BY DEF Whole
<1> QED
  BY <1>2, <1>3

LEMMA QueueIs ==
  ASSUME NEW b \in Seq(Messages), NEW w \in Seq(Messages)
  PROVE  /\ b \o w \in Seq(Messages)
         /\ Len(b) \in Nat /\ Len(w) \in Nat /\ Len(b \o w) = Len(b) + Len(w)
         /\ \A i \in 1..Len(b) : (b \o w)[i] = b[i]
         /\ \A i \in (Len(b) + 1)..(Len(b) + Len(w)) : (b \o w)[i] = w[i - Len(b)]
BY ConcatProperties, LenProperties

\* Taking the first message out of the reader.
LEMMA QueueTail ==
  ASSUME NEW b \in Seq(Messages), NEW w \in Seq(Messages), b # <<>>
  PROVE  /\ b \o w # <<>> /\ (b \o w)[1] = Head(b)
         /\ Tail(b) \o w \in Seq(Messages) /\ Len(Tail(b) \o w) = Len(b \o w) - 1
         /\ \A i \in 1..Len(Tail(b) \o w) : (Tail(b) \o w)[i] = (b \o w)[i + 1]
<1> DEFINE t == Tail(b)
<1>1. /\ t \in Seq(Messages) /\ Len(t) = Len(b) - 1 /\ Len(b) \in Nat /\ Len(b) >= 1
      /\ Head(b) = b[1] /\ \A i \in 1..(Len(b) - 1) : t[i] = b[i + 1]
  BY Behind
<1> HIDE DEF t
<1>2. /\ Len(t \o w) = Len(t) + Len(w) /\ Len(w) \in Nat /\ t \o w \in Seq(Messages)
      /\ \A i \in 1..Len(t) : (t \o w)[i] = t[i]
      /\ \A i \in (Len(t) + 1)..(Len(t) + Len(w)) : (t \o w)[i] = w[i - Len(t)]
  BY <1>1, QueueIs
<1>3. /\ Len(b \o w) = Len(b) + Len(w)
      /\ \A i \in 1..Len(b) : (b \o w)[i] = b[i]
      /\ \A i \in (Len(b) + 1)..(Len(b) + Len(w)) : (b \o w)[i] = w[i - Len(b)]
  BY QueueIs
<1>4. ASSUME NEW i \in 1..Len(t \o w) PROVE (t \o w)[i] = (b \o w)[i + 1]
  <2>1. CASE i <= Len(t)
    <3>1. i \in 1..Len(t) /\ i + 1 \in 1..Len(b) /\ i \in 1..(Len(b) - 1)
      BY <1>1, <2>1
    <3> QED
      BY <1>1, <1>2, <1>3, <3>1
  <2>2. CASE i > Len(t)
    <3>1. /\ i \in (Len(t) + 1)..(Len(t) + Len(w))
          /\ i + 1 \in (Len(b) + 1)..(Len(b) + Len(w))
          /\ i - Len(t) = (i + 1) - Len(b)
      BY <1>1, <1>2, <2>2
    <3> QED
      BY <1>2, <1>3, <3>1
  <2> QED
    BY <1>1, <2>1, <2>2
<1>5. b \o w # <<>>
  BY <1>1, <1>2, <1>3, EmptySeq
<1>6. (b \o w)[1] = Head(b)
  BY <1>1, <1>3
<1> QED
  BY <1>1, <1>2, <1>3, <1>4, <1>5, <1>6 DEF t

\* The reader, when empty, takes part of what is on the wire.
LEMMA QueueFill ==
  ASSUME NEW w \in Seq(Messages), NEW b \in Seq(Messages), NEW v \in Seq(Messages),
         NEW k \in 1..Len(w),
         Len(b) = k, \A i \in 1..k : b[i] = w[i],
         Len(v) = Len(w) - k, \A i \in 1..(Len(w) - k) : v[i] = w[k + i]
  PROVE  Len(b \o v) = Len(w) /\ \A i \in 1..Len(w) : (b \o v)[i] = w[i]
<1>0. /\ Len(b \o v) = Len(b) + Len(v) /\ Len(w) \in Nat
      /\ \A i \in 1..Len(b) : (b \o v)[i] = b[i]
      /\ \A i \in (Len(b) + 1)..(Len(b) + Len(v)) : (b \o v)[i] = v[i - Len(b)]
  BY QueueIs, LenProperties
<1>1. /\ Len(w) \in Nat /\ k \in Nat
      /\ Len(b \o v) = k + (Len(w) - k)
      /\ \A i \in 1..k : (b \o v)[i] = b[i]
      /\ \A i \in (k + 1)..(k + (Len(w) - k)) : (b \o v)[i] = v[i - k]
  BY <1>0
<1>2. k + (Len(w) - k) = Len(w)
  BY <1>1
<1>3. ASSUME NEW i \in 1..Len(w) PROVE (b \o v)[i] = w[i]
  <2>1. CASE i \in 1..k
    BY <1>1, <2>1
  <2>2. CASE i \in (k + 1)..Len(w)
    <3>1. i - k \in 1..(Len(w) - k) /\ k + (i - k) = i
      BY <1>1, <2>2
    <3> QED
      BY <1>1, <1>2, <2>2, <3>1
  <2> QED
    BY <1>1, <2>1, <2>2
<1> QED
  BY <1>1, <1>2, <1>3

\* The end of what is on the wire is lost.
LEMMA QueueCut ==
  ASSUME NEW b \in Seq(Messages), NEW w \in Seq(Messages), NEW v \in Seq(Messages),
         Len(v) <= Len(w), \A i \in 1..Len(v) : v[i] = w[i]
  PROVE  /\ b \o v \in Seq(Messages) /\ Len(b \o v) <= Len(b \o w)
         /\ \A i \in 1..Len(b \o v) : (b \o v)[i] = (b \o w)[i]
<1>1. /\ Len(b) \in Nat /\ Len(w) \in Nat /\ Len(v) \in Nat
      /\ b \o v \in Seq(Messages) /\ Len(b \o v) = Len(b) + Len(v)
      /\ Len(b \o w) = Len(b) + Len(w)
      /\ \A i \in 1..Len(b) : (b \o v)[i] = b[i] /\ (b \o w)[i] = b[i]
      /\ \A i \in (Len(b) + 1)..(Len(b) + Len(v)) : (b \o v)[i] = v[i - Len(b)]
      /\ \A i \in (Len(b) + 1)..(Len(b) + Len(w)) : (b \o w)[i] = w[i - Len(b)]
  BY QueueIs
<1>2. ASSUME NEW i \in 1..Len(b \o v) PROVE (b \o v)[i] = (b \o w)[i]
  <2>1. CASE i <= Len(b)
    BY <1>1, <2>1
  <2>2. CASE i > Len(b)
    <3>1. /\ i \in (Len(b) + 1)..(Len(b) + Len(v)) /\ i \in (Len(b) + 1)..(Len(b) + Len(w))
          /\ i - Len(b) \in 1..Len(v)
      BY <1>1, <2>2
    <3> QED
      BY <1>1, <3>1
  <2> QED
    BY <1>1, <2>1, <2>2
<1> QED
  BY <1>1, <1>2

-----------------------------------------------------------------------------
(* Next hands out what the server sends.                                   *)

LEMMA InOrderInit == Init => InOrder
<1> SUFFICES ASSUME Init PROVE InOrder
  OBVIOUS
<1>1. Queue = <<>> /\ Len(Queue) = 0
  BY EmptySeq, ConcatEmptySeq DEF Init, Queue
<1> QED
  BY <1>1 DEF Init, InOrder, Consecutive, Whole

\* A step that leaves the messages and the numbers alone.
LEMMA InOrderFrame ==
  ASSUME InOrder, UNCHANGED <<buf, wire, sent, seen>>,
         sock' \in {"none", "open"} => sock \in {"none", "open"}
  PROVE  InOrder'
<1>1. Queue' = Queue
  BY DEF Queue
<1> QED
  BY <1>1 DEF InOrder

\* A step that drops the end of what is on the wire, with the connection.
LEMMA InOrderCut ==
  ASSUME TypeOK, InOrder, UNCHANGED <<buf, sent, seen>>, wire' \in Seq(Messages),
         Len(wire') <= Len(wire), \A i \in 1..Len(wire') : wire'[i] = wire[i],
         sock' \in {"hungup", "closed"}
  PROVE  InOrder'
<1>1. /\ Queue' \in Seq(Messages) /\ Queue \in Seq(Messages)
      /\ Len(Queue') <= Len(Queue)
      /\ \A i \in 1..Len(Queue') : Queue'[i] = Queue[i]
  BY QueueCut, QueueIs DEF Queue, TypeOK
<1>2. Consecutive(Queue', seen, sent)
  BY <1>1, ConsecutivePrefix DEF InOrder, TypeOK
<1> QED
  BY <1>2 DEF InOrder

\* ... or all of it.
LEMMA InOrderClose ==
  ASSUME TypeOK, InOrder, UNCHANGED <<buf, sent, seen>>, CloseSocket
  PROVE  InOrder'
<1>1. wire' = <<>> /\ wire' \in Seq(Messages) /\ Len(wire') = 0 /\ Len(wire) \in Nat
  BY EmptySeq, LenProperties DEF CloseSocket, TypeOK
<1> QED
  BY <1>1, InOrderCut DEF CloseSocket

\* A step that takes the first message out of the reader, and hands it out if it is
\* an event.
LEMMA InOrderTake ==
  ASSUME TypeOK, InOrder, buf # <<>>, buf' = Tail(buf), UNCHANGED <<wire, sent, sock>>,
         seen' = IF IsEvent(Head(buf)) THEN Head(buf).id ELSE seen
  PROVE  /\ InOrder'
         /\ IsEvent(Head(buf)) => seen < sent /\ seen' = seen + 1
<1>1. /\ Queue \in Seq(Messages) /\ Queue # <<>> /\ Queue[1] = Head(buf)
      /\ Queue' \in Seq(Messages) /\ Len(Queue') = Len(Queue) - 1
      /\ \A i \in 1..Len(Queue') : Queue'[i] = Queue[i + 1]
  BY QueueTail, QueueIs DEF Queue, TypeOK
<1>2. IsEvent(Queue[1]) => Queue[1].id = seen + 1 /\ seen < sent
  BY <1>1, ConsecutiveHead DEF InOrder, TypeOK
<1>3. seen' = IF IsEvent(Queue[1]) THEN seen + 1 ELSE seen
  BY <1>1, <1>2
<1>4. Consecutive(Queue', seen', sent)
  BY <1>1, <1>3, ConsecutiveTail DEF InOrder, TypeOK
<1>5. Whole(Queue, seen, sent) => Whole(Queue', seen', sent)
  BY <1>1, <1>3, WholeTail DEF InOrder, TypeOK
<1>6. seen' <= sent
  BY <1>2, <1>3 DEF InOrder, TypeOK
<1> QED
  BY <1>1, <1>2, <1>4, <1>5, <1>6 DEF InOrder

\* The server sends one more.
LEMMA InOrderServe ==
  ASSUME TypeOK, InOrder, Serve
  PROVE  InOrder' /\ (sent' = sent \/ sent' = sent + 1)
<1>1. PICK kind \in IF pushed = 0 THEN Acks ELSE Pushes :
        LET isEvent == pushed > 0 /\ kind \in EventKinds IN
        /\ sent' = IF isEvent THEN sent + 1 ELSE sent
        /\ wire' = Append(wire, [kind |-> kind, id |-> IF isEvent THEN sent + 1 ELSE 0])
  BY DEF Serve
<1> DEFINE isEvent == pushed > 0 /\ kind \in EventKinds
           m == [kind |-> kind, id |-> IF isEvent THEN sent + 1 ELSE 0]
<1>2. m \in Messages /\ (IsEvent(m) <=> isEvent) /\ (isEvent => m.id = sent + 1)
  <2>1. kind \in AckKinds \cup PushKinds /\ sent \in Nat
    BY StreamAssumption DEF TypeOK
  <2>2. kind \in EventKinds => pushed > 0
    BY StreamAssumption DEF AckKinds, EventKinds, TypeOK
  <2> QED
    BY <2>1, <2>2 DEF Messages, IsEvent
<1>3. sent' = (IF IsEvent(m) THEN sent + 1 ELSE sent) /\ wire' = Append(wire, m)
      /\ UNCHANGED <<buf, seen, sock>> /\ sock = "open"
  BY <1>1, <1>2 DEF Serve, readVars
<1> HIDE DEF isEvent, m
<1>4. /\ wire' \in Seq(Messages) /\ Len(wire') = Len(wire) + 1
      /\ \A i \in 1..Len(wire) : wire'[i] = wire[i]
      /\ wire'[Len(wire) + 1] = m
  BY <1>2, <1>3, AppendProperties DEF TypeOK
<1>5. /\ Queue \in Seq(Messages) /\ Queue' \in Seq(Messages)
      /\ Len(Queue') = Len(Queue) + 1 /\ Queue'[Len(Queue) + 1] = m
      /\ \A i \in 1..Len(Queue) : Queue'[i] = Queue[i]
  <2>1. /\ Queue \in Seq(Messages) /\ Len(Queue) = Len(buf) + Len(wire)
        /\ Len(buf) \in Nat /\ Len(wire) \in Nat
        /\ \A i \in 1..Len(buf) : Queue[i] = buf[i]
        /\ \A i \in (Len(buf) + 1)..(Len(buf) + Len(wire)) : Queue[i] = wire[i - Len(buf)]
    BY QueueIs DEF Queue, TypeOK
  <2>2. /\ Queue' \in Seq(Messages) /\ Len(Queue') = Len(buf) + (Len(wire) + 1)
        /\ \A i \in 1..Len(buf) : Queue'[i] = buf[i]
        /\ \A i \in (Len(buf) + 1)..(Len(buf) + (Len(wire) + 1)) :
             Queue'[i] = wire'[i - Len(buf)]
    <3>1. Queue' = buf \o wire' /\ buf \in Seq(Messages)
      BY <1>3 DEF Queue, TypeOK
    <3>2. /\ buf \o wire' \in Seq(Messages)
          /\ Len(buf \o wire') = Len(buf) + Len(wire')
          /\ \A i \in 1..Len(buf) : (buf \o wire')[i] = buf[i]
          /\ \A i \in (Len(buf) + 1)..(Len(buf) + Len(wire')) :
               (buf \o wire')[i] = wire'[i - Len(buf)]
      BY <1>4, <3>1, QueueIs
    <3> QED
      BY <1>4, <3>1, <3>2
  <2>3. Queue'[Len(Queue) + 1] = m
    <3>1. /\ Len(Queue) + 1 \in (Len(buf) + 1)..(Len(buf) + (Len(wire) + 1))
          /\ (Len(Queue) + 1) - Len(buf) = Len(wire) + 1
      BY <2>1
    <3> QED
      BY <1>4, <2>2, <3>1
  <2>4. ASSUME NEW i \in 1..Len(Queue) PROVE Queue'[i] = Queue[i]
    <3>1. CASE i \in 1..Len(buf)
      BY <2>1, <2>2, <3>1
    <3>2. CASE i \in (Len(buf) + 1)..(Len(buf) + Len(wire))
      <4>1. /\ i \in (Len(buf) + 1)..(Len(buf) + (Len(wire) + 1))
            /\ i - Len(buf) \in 1..Len(wire)
        BY <2>1, <3>2
      <4> QED
        BY <1>4, <2>1, <2>2, <3>2, <4>1
    <3> QED
      BY <2>1, <3>1, <3>2
  <2> QED
    BY <2>1, <2>2, <2>3, <2>4
<1>6. /\ seen \in Nat /\ sent \in Nat /\ sent' \in Nat /\ seen <= sent
      /\ Consecutive(Queue, seen, sent) /\ Whole(Queue, seen, sent)
      /\ IsEvent(m) => m.id = sent + 1
  BY <1>2, <1>3 DEF InOrder, TypeOK
<1>7. Consecutive(Queue', seen, sent') /\ Whole(Queue', seen, sent')
  BY <1>2, <1>3, <1>5, <1>6, ConsecutiveAppend
<1> QED
  BY <1>3, <1>6, <1>7 DEF InOrder

\* Filling the reader moves messages and changes none.
LEMMA InOrderFill ==
  ASSUME TypeOK, InOrder, Fill
  PROVE  InOrder'
<1>1. PICK k \in 1..Len(wire) : /\ buf' = SubSeq(wire, 1, k)
                                /\ wire' = SubSeq(wire, k + 1, Len(wire))
  BY DEF Fill
<1>2. Len(wire) \in Nat
  BY LenProperties DEF TypeOK
<1>3. buf' \in Seq(Messages) /\ Len(buf') = k /\ \A i \in 1..k : buf'[i] = wire[i]
  BY <1>1, <1>2, Part DEF TypeOK
<1>4. /\ wire' \in Seq(Messages) /\ Len(wire') = Len(wire) - k
      /\ \A i \in 1..(Len(wire) - k) : wire'[i] = wire[k + i]
  BY <1>1, <1>2, Part DEF TypeOK
<1>5. Queue = wire
  BY ConcatEmptySeq DEF Fill, Queue, TypeOK
<1>6. /\ Queue \in Seq(Messages) /\ Queue' \in Seq(Messages)
      /\ Len(Queue') = Len(Queue) /\ \A i \in 1..Len(Queue') : Queue'[i] = Queue[i]
  <2>1. buf' \o wire' \in Seq(Messages)
    BY <1>3, <1>4, QueueIs
  <2>2. Len(buf' \o wire') = Len(wire) /\ \A i \in 1..Len(wire) : (buf' \o wire')[i] = wire[i]
    <3>1. PICK w \in Seq(Messages), b \in Seq(Messages), v \in Seq(Messages) :
            w = wire /\ b = buf' /\ v = wire'
      BY <1>3, <1>4 DEF TypeOK
    <3>2. Len(b) = k /\ \A i \in 1..k : b[i] = w[i]
      BY <1>3, <3>1, Zenon
    <3>3. Len(v) = Len(w) - k /\ \A i \in 1..(Len(w) - k) : v[i] = w[k + i]
      BY <1>4, <3>1, Zenon
    <3>4. k \in 1..Len(w)
      BY <3>1
    <3>5. Len(b \o v) = Len(w) /\ \A i \in 1..Len(w) : (b \o v)[i] = w[i]
      BY <3>2, <3>3, <3>4, QueueFill, Zenon
    <3> QED
      BY <3>1, <3>5, Zenon
  <2> QED
    BY <1>5, <2>1, <2>2 DEF Queue, TypeOK
<1>7. UNCHANGED <<sent, seen, sock>>
  BY DEF Fill, readVars, serverVars
<1> QED
  BY <1>6, <1>7, ConsecutiveSame DEF InOrder, TypeOK

LEMMA InOrderStep == TypeOK /\ Ending /\ InOrder /\ [Next]_vars
                       => InOrder' /\ [Log!Next]_(Log!logVars)
<1> SUFFICES ASSUME TypeOK, Ending, InOrder, [Next]_vars
             PROVE  InOrder' /\ (Log!Next \/ UNCHANGED Log!logVars)
  OBVIOUS
<1> USE DEF readVars, closeVars, connVars, serverVars, Log!logVars
<1>1. CASE OpenRefused \/ Open \/ DialOk \/ DialFail
  BY <1>1, InOrderFrame DEF OpenRefused, Open, DialOk, DialFail, Ending, Unopened
<1>2. CASE AckOk
  <2>1. ~IsEvent(Head(buf))
    BY <1>2 DEF AckOk, IsEvent, EventKinds
  <2> QED
    BY <1>2, <2>1, InOrderTake DEF AckOk
<1>3. ASSUME CloseSocket, UNCHANGED <<buf, sent, seen>>
      PROVE  InOrder' /\ (Log!Next \/ UNCHANGED Log!logVars)
  BY <1>3, InOrderClose DEF CloseSocket, Log!Next, Log!Lose
<1>4. CASE AckFail \/ AckWrong \/ RunWatch
  BY <1>3, <1>4 DEF AckFail, AckWrong, RunWatch
<1>5. CASE Fill
  BY <1>5, InOrderFill DEF Fill
<1>6. CASE NextCall \/ NextClosed \/ NextDone
  BY <1>6, InOrderFrame DEF NextCall, NextClosed, NextDone
<1>7. CASE NextEvent
  <2>1. IsEvent(Head(buf)) /\ seen' = Head(buf).id
    BY <1>7 DEF NextEvent, HasPayload, IsEvent
  <2>2. InOrder' /\ seen < sent /\ seen' = seen + 1
    BY <1>7, <2>1, InOrderTake DEF NextEvent
  <2> QED
    BY <1>7, <2>2 DEF NextEvent, Log!Next, Log!Take
<1>8. CASE NextSkip \/ NextUnexpected
  <2>1. ~IsEvent(Head(buf))
    BY <1>8 DEF NextSkip, NextUnexpected, HasPayload, IsEvent, EventKinds
  <2> QED
    BY <1>8, <2>1, InOrderTake DEF NextSkip, NextUnexpected
<1>9. CASE NextBroken
  <2>1. CASE UNCHANGED buf
    BY <1>9, <2>1, InOrderFrame DEF NextBroken
  <2>2. CASE /\ buf # <<>> /\ Head(buf).kind \in {"err", "garbage"}
             /\ buf' = Tail(buf)
    <3>1. ~IsEvent(Head(buf))
      BY <2>2 DEF IsEvent, EventKinds
    <3> QED
      BY <1>9, <2>2, <3>1, InOrderTake DEF NextBroken
  <2> QED
    BY <1>9, <2>1, <2>2 DEF NextBroken
<1>10. ASSUME NEW q \in Closers, Closing(q)
       PROVE  InOrder' /\ (Log!Next \/ UNCHANGED Log!logVars)
  <2>1. CASE CloseEnter(q) \/ CloseStop(q) \/ CloseAgain(q)
    BY <2>1, InOrderFrame DEF CloseEnter, CloseStop, CloseAgain
  <2>2. CASE CloseShut(q)
    BY <1>3, <2>2 DEF CloseShut
  <2> QED
    BY <1>10, <2>1, <2>2 DEF Closing
<1>11. CASE Cancel \/ FireWatch \/ ClosePool \/ Expire
  BY <1>11, InOrderFrame DEF Cancel, FireWatch, ClosePool, Expire
<1>12. CASE Serve
  <2>1. InOrder' /\ (sent' = sent \/ sent' = sent + 1)
    BY <1>12, InOrderServe
  <2>2. UNCHANGED <<seen, sock>> /\ sock = "open"
    BY <1>12 DEF Serve
  <2> QED
    BY <2>1, <2>2 DEF Log!Next, Log!Publish
<1>13. CASE Hangup
  <2>1. PICK k \in 0..Len(wire) : wire' = SubSeq(wire, 1, k)
    BY <1>13 DEF Hangup
  <2>2. Len(wire) \in Nat
    BY LenProperties DEF TypeOK
  <2>3. wire' \in Seq(Messages) /\ Len(wire') = k /\ \A i \in 1..k : wire'[i] = wire[i]
    BY <2>1, <2>2, Part DEF TypeOK
  <2>4. InOrder'
    BY <1>13, <2>2, <2>3, InOrderCut DEF Hangup
  <2> QED
    BY <1>13, <2>4 DEF Hangup, Log!Next, Log!Lose
<1>14. CASE UNCHANGED vars
  BY <1>14, InOrderFrame DEF vars
<1> QED
  BY <1>1, <1>2, <1>4, <1>5, <1>6, <1>7, <1>8, <1>9, <1>10, <1>11, <1>12, <1>13, <1>14
  DEF Next, Opening, Reading

\* At any number of closers and messages, whatever breaks, closes or cancels the
\* stream: Next hands out the server's events in the order they were sent, each once,
\* with none missing in between (stream.go:47-76).
THEOREM LogImplemented == Spec => ImplementsLog
<1>1. Init => TypeOK /\ Ending /\ InOrder /\ Log!Init
  BY TypeInit, EndingInit, InOrderInit DEF Init, Log!Init
<1>2. TypeOK /\ Ending /\ InOrder /\ [Next]_vars
        => /\ (TypeOK /\ Ending /\ InOrder)'
           /\ [Log!Next]_(Log!logVars)
  BY TypeStep, EndingStep, InOrderStep
<1> QED
  BY <1>1, <1>2, PTL DEF Spec, ImplementsLog, Log!Spec
=============================================================================
