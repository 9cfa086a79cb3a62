--------------------------- MODULE ReconnectProofs ---------------------------
(***************************************************************************)
(* Proofs about Reconnect: for any delays, any number of events and any    *)
(* behaviour of the server, the loop keeps what Feed promises.             *)
(***************************************************************************)
EXTENDS Reconnect, Inductions

\* The new delay is one the backoff allows.
LEMMA DelayInRange ==
  ASSUME NEW d \in {0} \cup MinDelay..MaxDelay
  PROVE  Shorter(Longer(2 * d, MinDelay), MaxDelay) \in MinDelay..MaxDelay
BY ReconnectAssumption DEF Shorter, Longer

-----------------------------------------------------------------------------
(* Type correctness.                                                       *)

LEMMA TypeInit == Init => TypeOK
<1> SUFFICES ASSUME Init PROVE TypeOK
  OBVIOUS
<1>1. delay \in {0} \cup MinDelay..MaxDelay /\ fails \in Nat
  BY DEF Init
<1>2. sent \in Nat /\ seen \in 0..sent /\ happened \in Nat /\ sent <= happened
  BY DEF Init
<1>3. over \in BOOLEAN /\ poolClosed \in BOOLEAN
  BY Zenon DEF Init
<1>4. bad \subseteq 1..happened /\ causes \subseteq {"ctx", "rejected", "decode"}
  BY Zenon DEF Init
<1> QED
  BY <1>1, <1>2, <1>3, <1>4 DEF Init, TypeOK, Linked

LEMMA TypeStep == TypeOK /\ [Next]_vars => TypeOK'
<1> SUFFICES ASSUME TypeOK, [Next]_vars PROVE TypeOK'
  OBVIOUS
<1> USE DEF TypeOK, Linked, Return, logVars, worldVars, loopVars
<1>1. CASE Top
  BY <1>1 DEF Top
<1>2. CASE WaitOver
  BY <1>2 DEF WaitOver
<1>3. CASE WaitCancelled
  BY <1>3 DEF WaitCancelled
<1>4. CASE DialOk
  BY <1>4 DEF DialOk
<1>5. CASE OpenFails
  <2>1. delay' \in {0} \cup MinDelay..MaxDelay /\ fails' \in Nat
    BY <1>5, DelayInRange DEF OpenFails
  <2> QED
    BY <1>5, <2>1 DEF OpenFails
<1>6. CASE OpenRejected
  BY <1>6 DEF OpenRejected
<1>7. CASE OpenOk
  <2>1. over' \in BOOLEAN
    BY <1>7, Zenon DEF OpenOk
  <2>2. delay' \in {0} \cup MinDelay..MaxDelay /\ fails' \in Nat
    BY <1>7 DEF OpenOk
  <2>3. sent' \in Nat /\ seen' \in 0..sent' /\ sent' = happened /\ happened' = happened
    BY <1>7 DEF OpenOk
  <2> QED
    BY <1>7, <2>1, <2>2, <2>3 DEF OpenOk
<1>8. CASE NextEvent
  BY <1>8 DEF NextEvent, Log!Take
<1>9. CASE Handle
  BY <1>9 DEF Handle
<1>10. CASE NextFails
  BY <1>10 DEF NextFails
<1>11. CASE Reopen
  BY <1>11 DEF Reopen
<1>12. CASE GiveUp
  BY <1>12 DEF GiveUp
<1>13. CASE Happens
  <2>1. /\ happened' = happened + 1 /\ UNCHANGED <<pc, delay, err, why, fails>>
        /\ UNCHANGED <<ctx, poolClosed, server>>
    BY <1>13 DEF Happens
  <2>2. bad' \subseteq 1..happened' /\ causes' \subseteq {"ctx", "rejected", "decode"}
    <3>1. \/ bad' = bad /\ causes' = causes
          \/ bad' = bad \cup {happened'} /\ causes' = causes \cup {"decode"}
      BY <1>13 DEF Happens
    <3>2. happened' \in 1..happened' /\ 1..happened \subseteq 1..happened'
      BY <2>1
    <3> QED
      BY <3>1, <3>2
  <2>3. over' = over /\ sent' \in Nat /\ seen' \in 0..sent' /\ sent' <= happened'
    BY <1>13, <2>1 DEF Happens, Log!Publish
  <2>4. Linked' /\ ~over' => sent' = happened'
    BY <1>13, <2>1, <2>3 DEF Happens, Log!Publish
  <2>5. over' \in BOOLEAN
    BY <2>3
  <2> QED
    BY <2>1, <2>2, <2>3, <2>4, <2>5
<1>14. CASE Hangup \/ Cut
  BY ZenonT(30), <1>14 DEF Hangup, Cut, Log!Lose
<1>15. CASE Server
  BY <1>15 DEF Server
<1>16. CASE Cancel
  BY <1>16 DEF Cancel
<1>17. CASE ClosePool
  BY <1>17 DEF ClosePool
<1>18. CASE UNCHANGED vars
  BY <1>18 DEF vars
<1> QED
  BY <1>1, <1>2, <1>3, <1>4, <1>5, <1>6, <1>7, <1>8, <1>9, <1>10, <1>11, <1>12, <1>13,
     <1>14, <1>15, <1>16, <1>17, <1>18 DEF Next, Loop

\* In every reachable state of the loop the variables have their types: the delay
\* is none or within the bounds of the backoff (README.md:322), and no stream has
\* handed out what was not sent on it.
THEOREM TypeCorrect == Spec => []TypeOK
<1>1. Init => TypeOK
  BY TypeInit
<1>2. TypeOK /\ [Next]_vars => TypeOK'
  BY TypeStep
<1> QED
  BY <1>1, <1>2, PTL DEF Spec

-----------------------------------------------------------------------------
(* The loop has grounds for what it takes for an end.                      *)

Grounds ==
  /\ ctx = "done" => "ctx" \in causes
  /\ server = "rejecting" => "rejected" \in causes
  /\ bad # {} => "decode" \in causes
  /\ pc = "failed" => err = "disconnected" \/ err \in causes
  /\ pc # "ended" => why = "none"

LEMMA GroundsStep == TypeOK /\ Grounds /\ [Next]_vars => Grounds'
<1> SUFFICES ASSUME TypeOK, Grounds, [Next]_vars PROVE Grounds'
  OBVIOUS
<1> USE DEF Grounds, Return, worldVars, loopVars
<1>1. CASE Top
  BY <1>1 DEF Top
<1>2. CASE WaitOver \/ WaitCancelled
  BY <1>2 DEF WaitOver, WaitCancelled
<1>3. CASE DialOk
  BY <1>3 DEF DialOk
<1>4. CASE OpenFails \/ OpenRejected \/ OpenOk
  BY <1>4 DEF OpenFails, OpenRejected, OpenOk
<1>5. CASE NextEvent
  BY <1>5 DEF NextEvent
<1>6. CASE Handle \/ NextFails
  BY <1>6 DEF Handle, NextFails
<1>7. CASE Reopen \/ GiveUp
  BY <1>7 DEF Reopen, GiveUp
<1>8. CASE Happens
  BY <1>8 DEF Happens
<1>9. CASE Hangup \/ Cut
  BY <1>9 DEF Hangup, Cut
<1>10. CASE Server
  BY <1>10 DEF Server
<1>11. CASE Cancel
  BY <1>11 DEF Cancel
<1>12. CASE ClosePool
  BY <1>12 DEF ClosePool
<1>13. CASE UNCHANGED vars
  BY <1>13 DEF vars
<1> QED
  BY <1>1, <1>2, <1>3, <1>4, <1>5, <1>6, <1>7, <1>8, <1>9, <1>10, <1>11, <1>12, <1>13
     DEF Next, Loop

-----------------------------------------------------------------------------
(* Every step of the loop and of the world around it is a step of Feed, or *)
(* one Feed does not see.                                                  *)

LEMMA FeedInit == Init => Promise!Init
BY DEF Init, Promise!Init, Linked

LEMMA FeedStep ==
  TypeOK /\ Grounds /\ [Next]_vars => [Promise!Next]_(Promise!feedVars)
<1> SUFFICES ASSUME TypeOK, Grounds, Next
             PROVE  Promise!Next \/ UNCHANGED Promise!feedVars
  BY DEF vars, Promise!feedVars, Linked, logVars, worldVars
<1> USE DEF TypeOK, Grounds, Linked, Return, logVars, worldVars, loopVars, Promise!feedVars
<1>1. CASE Top
  BY <1>1 DEF Top, Promise!Next, Promise!End, Promise!Causes
<1>2. CASE WaitOver \/ DialOk \/ OpenFails
  BY <1>2 DEF WaitOver, DialOk, OpenFails
<1>3. CASE WaitCancelled
  BY <1>3 DEF WaitCancelled, Promise!Next, Promise!End, Promise!Causes
<1>4. CASE OpenRejected
  BY <1>4 DEF OpenRejected, Promise!Next, Promise!End, Promise!Causes
<1>5. CASE OpenOk
  BY <1>5 DEF OpenOk, Promise!Next, Promise!Link
<1>6. CASE NextEvent
  BY <1>6 DEF NextEvent, Log!Take, Promise!Next, Promise!Take
<1>7. CASE Handle \/ NextFails
  BY <1>7 DEF Handle, NextFails
<1>8. CASE Reopen
  BY <1>8 DEF Reopen, Promise!Next, Promise!Unlink
<1>9. CASE GiveUp
  BY <1>9 DEF GiveUp, Promise!Next, Promise!End, Promise!Causes
<1>10. CASE Happens
  <2>1. Promise!Happen
    BY <1>10 DEF Happens, Log!Publish, Promise!Happen
  <2> QED
    BY <2>1 DEF Promise!Next
<1>11. CASE Hangup \/ Cut
  BY <1>11 DEF Hangup, Cut, Log!Lose
<1>12. CASE Server
  BY <1>12 DEF Server, Promise!Next, Promise!Arise, Promise!Causes
<1>13. CASE Cancel
  BY <1>13 DEF Cancel, Promise!Next, Promise!Arise, Promise!Causes
<1>14. CASE ClosePool
  BY <1>14 DEF ClosePool
<1> QED
  BY <1>1, <1>2, <1>3, <1>4, <1>5, <1>6, <1>7, <1>8, <1>9, <1>10, <1>11, <1>12, <1>13,
     <1>14 DEF Next, Loop

\* The loop implements Feed: the program is given events in order, none twice and
\* none left out while a connection lasts, and the loop ends only when cancelled,
\* rejected by the server or given a payload it cannot decode (README.md:307-345).
THEOREM FeedImplemented == Spec => ImplementsFeed
<1>1. Init => TypeOK /\ Grounds /\ Promise!Init
  BY TypeInit, FeedInit DEF Init, Grounds
<1>2. TypeOK /\ Grounds /\ [Next]_vars => (TypeOK /\ Grounds)'
  BY TypeStep, GroundsStep
<1>3. TypeOK /\ Grounds /\ [Next]_vars => [Promise!Next]_(Promise!feedVars)
  BY FeedStep
<1> QED
  BY <1>1, <1>2, <1>3, PTL DEF Spec, ImplementsFeed, Promise!Spec
-----------------------------------------------------------------------------
(* The delay of the attempts that failed in a row.                         *)

DoubledUpTo(n, f) == f = [i \in 0..n |-> IF i = 0 THEN MinDelay ELSE 2 * f[i - 1]]

LEMMA DoubledEquation ==
  ASSUME NEW n \in Nat, NEW f, DoubledUpTo(n, f)
  PROVE  f[0] = MinDelay /\ \A i \in 1..n : f[i] = 2 * f[i - 1]
<1>1. \A i \in 0..n : f[i] = IF i = 0 THEN MinDelay ELSE 2 * f[i - 1]
  BY DEF DoubledUpTo
<1>2. 0 \in 0..n /\ \A i \in 1..n : i \in 0..n /\ i # 0
  OBVIOUS
<1> QED
  BY <1>1, <1>2

\* The recursion of Doubled defines a function.
LEMMA DoubledExists == \A n \in Nat : \E f : DoubledUpTo(n, f)
<1> DEFINE T == {n \in Nat : \E f : DoubledUpTo(n, f)}
<1>1. 0 \in T
  <2> DEFINE f == [i \in 0..0 |-> MinDelay]
  <2>1. DoubledUpTo(0, f)
    BY DEF DoubledUpTo
  <2> QED
    BY <2>1
<1>2. ASSUME NEW n \in Nat, n \in T PROVE n + 1 \in T
  <2>1. PICK f : DoubledUpTo(n, f)
    BY <1>2
  <2> DEFINE last == 2 * f[n]
             g == [i \in 0..n + 1 |-> IF i = n + 1 THEN last ELSE f[i]]
  <2>2. \A i \in 0..n : g[i] = f[i]
    OBVIOUS
  <2>3. f[0] = MinDelay /\ \A i \in 1..n : f[i] = 2 * f[i - 1]
    BY <2>1, DoubledEquation
  <2>4. g[n + 1] = last
    OBVIOUS
  <2>5. \A i \in 1..n : i \in 0..n /\ i - 1 \in 0..n /\ i # n + 1
    OBVIOUS
  <2>6. \A i \in 0..n + 1 : g[i] = IF i = 0 THEN MinDelay ELSE 2 * g[i - 1]
    <3> TAKE i \in 0..n + 1
    <3>1. CASE i = 0
      BY <2>2, <2>3, <3>1
    <3>2. CASE i \in 1..n
      BY <2>2, <2>3, <2>5, <3>2
    <3>3. CASE i = n + 1
      BY <2>2, <2>4, <3>3
    <3> QED
      BY <3>1, <3>2, <3>3
  <2>7. DoubledUpTo(n + 1, g)
    BY <2>6 DEF DoubledUpTo
  <2> QED
    BY <2>7
<1> HIDE DEF T
<1>3. \A n \in Nat : n \in T
  BY <1>1, <1>2, NatSet
<1> QED
  BY <1>3 DEF T

LEMMA DoubledIs ==
  ASSUME NEW n \in Nat
  PROVE  \E f : DoubledUpTo(n, f) /\ Doubled(n) = f[n]
<1>1. \E f : DoubledUpTo(n, f)
  BY DoubledExists
<1> DEFINE f == CHOOSE f : DoubledUpTo(n, f)
<1>2. DoubledUpTo(n, f)
  BY <1>1
<1>3. Doubled(n) = f[n]
  BY DEF Doubled, DoubledUpTo
<1> QED
  BY <1>2, <1>3

\* The delays double.
LEMMA DoubledDoubles ==
  /\ Doubled(0) = MinDelay
  /\ \A n \in Nat : Doubled(n + 1) = 2 * Doubled(n)
<1>1. Doubled(0) = MinDelay
  <2>1. PICK f : DoubledUpTo(0, f) /\ Doubled(0) = f[0]
    BY DoubledIs
  <2> QED
    BY <2>1, DoubledEquation
<1>2. ASSUME NEW n \in Nat PROVE Doubled(n + 1) = 2 * Doubled(n)
  <2>1. PICK f : DoubledUpTo(n, f) /\ Doubled(n) = f[n]
    BY DoubledIs
  <2>2. PICK g : DoubledUpTo(n + 1, g) /\ Doubled(n + 1) = g[n + 1]
    <3>1. n + 1 \in Nat
      OBVIOUS
    <3> QED
      BY <3>1, DoubledIs
  <2>3. f[0] = MinDelay /\ \A i \in 1..n : f[i] = 2 * f[i - 1]
    BY <2>1, DoubledEquation
  <2>4. g[0] = MinDelay /\ \A i \in 1..n + 1 : g[i] = 2 * g[i - 1]
    <3>1. n + 1 \in Nat
      OBVIOUS
    <3> QED
      BY <2>2, <3>1, DoubledEquation
  <2> DEFINE T == {i \in Nat : i <= n => f[i] = g[i]}
  <2>5. 0 \in T
    BY <2>3, <2>4
  <2>6. ASSUME NEW i \in Nat, i \in T PROVE i + 1 \in T
    <3> SUFFICES ASSUME i + 1 <= n PROVE f[i + 1] = g[i + 1]
      OBVIOUS
    <3>1. f[i] = g[i] /\ i + 1 \in 1..n /\ i + 1 \in 1..n + 1 /\ (i + 1) - 1 = i
      BY <2>6
    <3> QED
      BY <2>3, <2>4, <3>1
  <2> HIDE DEF T
  <2>7. \A i \in Nat : i \in T
    BY <2>5, <2>6, NatSet
  <2>8. f[n] = g[n]
    BY <2>7 DEF T
  <2>9. n + 1 \in 1..n + 1 /\ (n + 1) - 1 = n
    OBVIOUS
  <2> QED
    BY <2>1, <2>2, <2>4, <2>8, <2>9
<1> QED
  BY <1>1, <1>2

LEMMA DoubledIsTyped == \A n \in Nat : Doubled(n) \in Nat /\ Doubled(n) >= MinDelay
<1> DEFINE T == {n \in Nat : Doubled(n) \in Nat /\ Doubled(n) >= MinDelay}
<1>1. 0 \in T
  BY DoubledDoubles, ReconnectAssumption
<1>2. ASSUME NEW n \in Nat, n \in T PROVE n + 1 \in T
  BY <1>2, DoubledDoubles, ReconnectAssumption
<1> HIDE DEF T
<1>3. \A n \in Nat : n \in T
  BY <1>1, <1>2, NatSet
<1> QED
  BY <1>3 DEF T

\* One more failed attempt: none is counted at the longest delay.
LEMMA FailureDoubles ==
  ASSUME NEW k \in Nat, Backoff(k) # MaxDelay
  PROVE  Shorter(Longer(2 * Backoff(k), MinDelay), MaxDelay) = Backoff(k + 1)
<1>1. CASE k = 0
  <2>1. Backoff(k) = 0 /\ Backoff(k + 1) = Shorter(Doubled(0), MaxDelay)
    BY <1>1 DEF Backoff
  <2> QED
    BY <2>1, DoubledDoubles, ReconnectAssumption DEF Shorter, Longer
<1>2. CASE k # 0
  <2>1. k - 1 \in Nat /\ (k - 1) + 1 = k /\ (k + 1) - 1 = k /\ k + 1 # 0
    BY <1>2
  <2>2. Backoff(k) = Shorter(Doubled(k - 1), MaxDelay) /\ Backoff(k + 1) = Shorter(Doubled(k), MaxDelay)
    BY <1>2, <2>1 DEF Backoff
  <2>3. Doubled(k - 1) \in Nat /\ Doubled(k - 1) >= MinDelay
    BY <2>1, DoubledIsTyped
  <2>4. Doubled(k) = 2 * Doubled(k - 1)
    BY <2>1, DoubledDoubles
  <2> QED
    BY <2>2, <2>3, <2>4, ReconnectAssumption DEF Shorter, Longer
<1> QED
  BY <1>1, <1>2

LEMMA DoublesStep == TypeOK /\ DelayDoubles /\ [Next]_vars => DelayDoubles'
<1> SUFFICES ASSUME TypeOK, DelayDoubles, [Next]_vars PROVE DelayDoubles'
  OBVIOUS
<1> USE DEF DelayDoubles
<1>1. CASE OpenFails
  <2>1. /\ delay' = Shorter(Longer(2 * delay, MinDelay), MaxDelay)
        /\ fails' = IF delay = MaxDelay THEN fails ELSE fails + 1
    BY <1>1 DEF OpenFails
  <2>2. CASE delay = MaxDelay
    <3>1. delay' = MaxDelay
      BY <2>1, <2>2, ReconnectAssumption DEF Shorter, Longer
    <3> QED
      BY <2>1, <2>2, <3>1
  <2>3. CASE delay # MaxDelay
    BY <2>1, <2>3, FailureDoubles DEF TypeOK
  <2> QED
    BY <2>2, <2>3
<1>2. CASE OpenOk
  BY <1>2 DEF OpenOk, Backoff
<1>3. Next => OpenFails \/ OpenOk \/ UNCHANGED <<delay, fails>>
  <2>1. Top \/ WaitOver \/ WaitCancelled \/ DialOk \/ OpenRejected => UNCHANGED <<delay, fails>>
    BY DEF Top, WaitOver, WaitCancelled, DialOk, OpenRejected
  <2>2. NextEvent \/ Handle \/ NextFails \/ Reopen \/ GiveUp => UNCHANGED <<delay, fails>>
    BY DEF NextEvent, Handle, NextFails, Reopen, GiveUp
  <2>3. Happens \/ Hangup \/ Server \/ Cancel \/ Cut \/ ClosePool => UNCHANGED <<delay, fails>>
    BY DEF Happens, Hangup, Server, Cancel, Cut, ClosePool, loopVars
  <2> QED
    BY <2>1, <2>2, <2>3 DEF Next, Loop
<1>4. CASE UNCHANGED <<delay, fails>>
  BY <1>4 DEF Backoff
<1>5. UNCHANGED vars => UNCHANGED <<delay, fails>>
  BY DEF vars
<1> QED
  BY <1>1, <1>2, <1>3, <1>4, <1>5

\* The delay of an attempt is that of the failures in a row before it, doubled from
\* the shortest to the longest (README.md:322).
THEOREM DelayDoublesHolds == Spec => []DelayDoubles
<1>1. Init => TypeOK /\ DelayDoubles
  BY TypeInit DEF Init, DelayDoubles, Backoff
<1>2. TypeOK /\ DelayDoubles /\ [Next]_vars => (TypeOK /\ DelayDoubles)'
  BY TypeStep, DoublesStep
<1> QED
  BY <1>1, <1>2, PTL DEF Spec
=============================================================================
