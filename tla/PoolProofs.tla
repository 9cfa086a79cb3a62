----------------------------- MODULE PoolProofs -----------------------------
(***************************************************************************)
(* Proofs about Pool, for any number of callers and connections.           *)
(***************************************************************************)
EXTENDS Pool, FiniteSetTheorems, SequenceTheorems, TLAPS

-----------------------------------------------------------------------------
(* Lemmas about the operators of Pool.                                     *)

\* A call of known shape: its number of commands is a natural number.
LEMMA RequestIsTyped ==
  ASSUME NEW r \in Requests \cup {NoRequest}
  PROVE  r.n \in Nat /\ r.bad \in BOOLEAN /\ r.deadline \in BOOLEAN
<1>1. CASE r \in Requests
  BY <1>1, InputAssumption DEF RequestType
<1>2. CASE r = NoRequest
  BY <1>2 DEF NoRequest
<1> QED
  BY <1>1, <1>2

\* NewPool always leaves room for at least one idle connection.
LEMMA MaxIdlePositive == MaxIdle \in Nat /\ MaxIdle > 0
BY ConfigAssumption DEF MaxIdle

\* A batch is a sequence of the call's own commands.
LEMMA BatchIsTyped ==
  ASSUME NEW p \in Callers, NEW k \in Nat
  PROVE  /\ Batch(p, k) \in Seq(CmdIds)
         /\ Len(Batch(p, k)) = k
         /\ \A i \in 1..k : Batch(p, k)[i] = Cmd(p, i)
<1>1. Batch(p, k) \in [1..k -> CmdIds]
  BY DEF Batch, Cmd, CmdIds
<1>2. Batch(p, k) \in Seq(CmdIds)
  BY <1>1, SeqDef
<1>3. Len(Batch(p, k)) = k
  BY <1>1, <1>2, LenProperties
<1> QED
  BY <1>2, <1>3 DEF Batch

\* What get hands out and what it leaves in the pool.
LEMMA FrontIsSeq ==
  ASSUME NEW S, NEW s \in Seq(S), s # <<>>
  PROVE  /\ Len(s) \in Nat \ {0} /\ s[Len(s)] \in S
         /\ SubSeq(s, 1, Len(s) - 1) \in Seq(S)
         /\ Len(SubSeq(s, 1, Len(s) - 1)) = Len(s) - 1
         /\ \A i \in 1..(Len(s) - 1) : SubSeq(s, 1, Len(s) - 1)[i] = s[i]
<1>1. Len(s) \in Nat \ {0} /\ \A i \in 1..Len(s) : s[i] \in S
  BY EmptySeq, ElementOfSeq
<1> DEFINE m == Len(s) - 1
<1>2. m \in Nat /\ \A i \in 1..m : s[i] \in S
  BY <1>1
<1> HIDE DEF m
<1>3. /\ SubSeq(s, 1, m) \in Seq(S) /\ Len(SubSeq(s, 1, m)) = m
      /\ \A i \in 1..m : SubSeq(s, 1, m)[i] = s[i]
  BY <1>2, SubSeqProperties
<1> QED
  BY <1>1, <1>3 DEF m

\* Writing a batch keeps the wire well formed: the replies present still answer
\* commands that were sent.
LEMMA WrittenFits ==
  ASSUME TypeOK, NEW p \in Callers, NEW k \in Nat, cur[p] \in Conns,
         pend' = [pend EXCEPT ![cur[p]] = pend[cur[p]] \o Batch(p, k)]
  PROVE  /\ pend' \in [Conns -> Seq(CmdIds)]
         /\ \A c \in Conns : Len(rep[c]) <= Len(pend'[c])
<1>1. /\ pend[cur[p]] \o Batch(p, k) \in Seq(CmdIds)
      /\ Len(pend[cur[p]] \o Batch(p, k)) = Len(pend[cur[p]]) + k
  BY BatchIsTyped, ConcatProperties DEF TypeOK
<1>2. \A c \in Conns : Len(rep[c]) \in Nat /\ Len(pend[c]) \in Nat
  BY LenProperties DEF TypeOK
<1> QED
  BY <1>1, <1>2 DEF TypeOK

\* Taking a command and its reply off the wire keeps it well formed.
LEMMA TailsFit ==
  ASSUME TypeOK, NEW d \in Conns, rep[d] # <<>>,
         pend' = [pend EXCEPT ![d] = Tail(pend[d])],
         rep' = [rep EXCEPT ![d] = Tail(rep[d])]
  PROVE  /\ pend' \in [Conns -> Seq(CmdIds)] /\ rep' \in [Conns -> Seq(Unread)]
         /\ \A c \in Conns : Len(rep'[c]) <= Len(pend'[c])
<1>1. Len(rep[d]) \in Nat \ {0} /\ Len(pend[d]) \in Nat
  BY EmptySeq, LenProperties DEF TypeOK
<1>2. pend[d] # <<>>
  BY <1>1, EmptySeq DEF TypeOK
<1>3. /\ Tail(rep[d]) \in Seq(Unread) /\ Len(Tail(rep[d])) = Len(rep[d]) - 1
      /\ Tail(pend[d]) \in Seq(CmdIds) /\ Len(Tail(pend[d])) = Len(pend[d]) - 1
  BY <1>2, HeadTailProperties DEF TypeOK
<1> QED
  BY <1>1, <1>3 DEF TypeOK

\* What the server executes is of the call the command belongs to.
LEMMA ExecutesIsTyped ==
  ASSUME TypeOK, NEW cmd \in CmdIds, Executes(cmd)
  PROVE  exec' \in [Callers -> Seq(Nat)]
<1>1. cmd[1] \in Callers /\ cmd[2] \in Nat
  BY DEF CmdIds
<1>2. Append(exec[cmd[1]], cmd[2]) \in Seq(Nat)
  BY <1>1, AppendProperties DEF TypeOK
<1> QED
  BY <1>1, <1>2 DEF Executes, TypeOK

\* What is left of a sequence after its first k elements.
LEMMA RestIsSeq ==
  ASSUME NEW S, NEW s \in Seq(S), NEW k \in Nat, k <= Len(s)
  PROVE  /\ SubSeq(s, k + 1, Len(s)) \in Seq(S)
         /\ Len(SubSeq(s, k + 1, Len(s))) = Len(s) - k
         /\ \A i \in 1..(Len(s) - k) : SubSeq(s, k + 1, Len(s))[i] = s[k + i]
<1> DEFINE m == k + 1
           n == Len(s)
<1>1. /\ n \in Nat /\ m \in Int /\ n \in Int /\ \A i \in m..n : s[i] \in S
      /\ n - m + 1 = n - k /\ (m > n => n = k) /\ \A i \in Nat : m + i - 1 = k + i
  BY LenProperties, ElementOfSeq
<1> HIDE DEF m, n
<1>2. /\ SubSeq(s, m, n) \in Seq(S)
      /\ Len(SubSeq(s, m, n)) = IF m <= n THEN n - m + 1 ELSE 0
      /\ \A i \in 1..(n - m + 1) : SubSeq(s, m, n)[i] = s[m + i - 1]
  BY <1>1, SubSeqProperties
<1> DEFINE t == SubSeq(s, m, n)
<1> HIDE DEF t
<1>3. Len(t) = n - k
  BY <1>1, <1>2 DEF t
<1>4. \A i \in 1..(n - k) : t[i] = s[k + i]
  BY <1>1, <1>2 DEF t
<1> QED
  BY <1>2, <1>3, <1>4 DEF t, m, n

\* Returning leaves every local of the call with a value of its type.
LEMMA ForgetIsTyped ==
  ASSUME TypeOK, NEW p \in Callers, Forget(p)
  PROVE  /\ req' \in [Callers -> Requests \cup {NoRequest}]
         /\ ctx' \in [Callers -> {"live", "done"}]
         /\ got' \in [Callers -> Nat]
         /\ err' \in [Callers -> Errors]
         /\ exec' \in [Callers -> Seq(Nat)] /\ behind' \in [Callers -> Seq(CmdIds)]
         /\ late' \in [Callers -> BOOLEAN]
<1>1. <<>> \in Seq(Nat) /\ "nil" \in Errors
  BY EmptySeq DEF Errors
<1>2. /\ req' = req \/ req' = [req EXCEPT ![p] = NoRequest]
      /\ err' = err \/ err' = [err EXCEPT ![p] = "nil"]
      /\ exec' = exec \/ exec' = [exec EXCEPT ![p] = <<>>]
  BY DEF Forget
<1>3. /\ req \in [Callers -> Requests \cup {NoRequest}]
      /\ err \in [Callers -> Errors] /\ exec \in [Callers -> Seq(Nat)]
  BY DEF TypeOK
<1>4. req' \in [Callers -> Requests \cup {NoRequest}]
  BY ONLY <1>2, <1>3
<1>5. err' \in [Callers -> Errors] /\ exec' \in [Callers -> Seq(Nat)]
  BY ONLY <1>1, <1>2, <1>3
<1>6. /\ ctx' \in [Callers -> {"live", "done"}] /\ got' \in [Callers -> Nat]
      /\ behind' \in [Callers -> Seq(CmdIds)] /\ late' \in [Callers -> BOOLEAN]
  BY DEF Forget, TypeOK
<1> QED
  BY <1>4, <1>5, <1>6

\* A connection closed with commands on it leaves those the server has not come to.
LEMMA LeftOnIsTyped ==
  ASSUME TypeOK, NEW c \in Conns
  PROVE  /\ LeftOn(c) \in Seq(CmdIds)
         /\ Len(rep[c]) = Len(pend[c]) => LeftOn(c) = <<>>
         /\ LeftOn(c) # <<>> =>
              /\ Len(LeftOn(c)) = Len(pend[c]) - Len(rep[c])
              /\ \A i \in 1..(Len(pend[c]) - Len(rep[c])) :
                   LeftOn(c)[i] = pend[c][Len(rep[c]) + i]
<1> DEFINE k == Len(rep[c])
           L == SubSeq(pend[c], k + 1, Len(pend[c]))
<1>1. pend[c] \in Seq(CmdIds) /\ k \in Nat /\ k <= Len(pend[c]) /\ Len(pend[c]) \in Nat
  BY LenProperties DEF TypeOK
<1>2. LeftOn(c) = <<>> \/ LeftOn(c) = L
  BY DEF LeftOn
<1> HIDE DEF k
<1>3. /\ L \in Seq(CmdIds) /\ Len(L) = Len(pend[c]) - k
      /\ \A i \in 1..(Len(pend[c]) - k) : L[i] = pend[c][k + i]
  BY <1>1, RestIsSeq
<1> HIDE DEF L
<1>4. k = Len(pend[c]) => L = <<>>
  BY <1>1, <1>3, EmptySeq
<1>5. <<>> \in Seq(CmdIds)
  BY EmptySeq
<1> QED
  BY ONLY <1>2, <1>3, <1>4, <1>5 DEF k

-----------------------------------------------------------------------------
(* Type correctness.                                                       *)

LEMMA TypeInit == Init => TypeOK
<1> SUFFICES ASSUME Init PROVE TypeOK
  OBVIOUS
<1>1. /\ idle \in Seq(Conns) /\ Len(idle) <= MaxIdle
      /\ pend \in [Conns -> Seq(CmdIds)]
      /\ rep \in [Conns -> Seq(Unread)]
      /\ \A c \in Conns : Len(rep[c]) <= Len(pend[c])
  BY MaxIdlePositive, EmptySeq DEF Init
<1>2. /\ pc \in [Callers -> Labels] /\ err \in [Callers -> Errors]
      /\ \A p \in Callers : cur[p] # None <=> pc[p] \in Holding
  BY DEF Init, Labels, Errors, Holding
<1>3. /\ req \in [Callers -> Requests \cup {NoRequest}]
      /\ cur \in [Callers -> Conns \cup {None}]
  BY DEF Init
<1>4. /\ watch \in [Callers -> {"off", "armed", "fired"}]
      /\ \A p \in Callers : watch[p] # "off" => pc[p] \in {"send", "read", "stop"}
      /\ sock \in [Conns -> {"open", "hungup", "closed"}]
      /\ dl \in [Conns -> {"none", "set", "past"}]
      /\ reap \subseteq Conns /\ doomed \subseteq Conns
  BY DEF Init
<1>5. ctx \in [Callers -> {"live", "done"}] /\ late \in [Callers -> BOOLEAN]
  BY Zenon DEF Init
<1>6. /\ got \in [Callers -> Nat] /\ slots \in Int
      /\ exec \in [Callers -> Seq(Nat)] /\ behind \in [Callers -> Seq(CmdIds)]
  BY EmptySeq DEF Init
<1>7. closed \in BOOLEAN
  BY DEF Init
<1> QED
  BY <1>1, <1>2, <1>3, <1>4, <1>5, <1>6, <1>7 DEF TypeOK

LEMMA TypeStep == TypeOK /\ [Next]_vars => TypeOK'
<1> SUFFICES ASSUME TypeOK, [Next]_vars PROVE TypeOK'
  OBVIOUS
<1> USE DEF TypeOK, Goto, Labels, Errors, Holding
<1>1. ASSUME NEW p \in Callers, Begin(p) PROVE TypeOK'
  BY <1>1, EmptySeq DEF Begin, poolVars, connVars, wireVars
<1>2. ASSUME NEW p \in Callers, Acquire(p) PROVE TypeOK'
  <2>1. slots' \in Int
    BY <1>2 DEF Acquire
  <2>2. /\ pc' \in [Callers -> Labels]
        /\ \A q \in Callers : cur[q] # None <=> pc'[q] \in Holding
        /\ \A q \in Callers : watch[q] # "off" => pc'[q] \in {"send", "read", "stop"}
    BY <1>2 DEF Acquire
  <2> QED
    BY <1>2, <2>1, <2>2 DEF Acquire, callVars, connVars, wireVars
<1>3. ASSUME NEW p \in Callers, AcquireDone(p) PROVE TypeOK'
  <2>1. Forget(p)
    BY <1>3 DEF AcquireDone
  <2>2. /\ pc' \in [Callers -> Labels]
        /\ \A q \in Callers : cur[q] # None <=> pc'[q] \in Holding
        /\ \A q \in Callers : watch[q] # "off" => pc'[q] \in {"send", "read", "stop"}
    BY <1>3 DEF AcquireDone
  <2> QED
    BY <1>3, <2>1, <2>2, ForgetIsTyped DEF AcquireDone, poolVars, connVars, wireVars
<1>4. ASSUME NEW p \in Callers, GetClosed(p) PROVE TypeOK'
  BY <1>4 DEF GetClosed, callVars, poolVars, connVars, wireVars
<1>5. ASSUME NEW p \in Callers, GetIdle(p) PROVE TypeOK'
  <2>1. /\ idle # <<>> /\ idle \in Seq(Conns) /\ Len(idle) <= MaxIdle
        /\ idle' = SubSeq(idle, 1, Len(idle) - 1)
    BY <1>5 DEF GetIdle
  <2>2. /\ idle[Len(idle)] \in Conns
        /\ idle' \in Seq(Conns) /\ Len(idle') <= MaxIdle
    BY <2>1, FrontIsSeq, MaxIdlePositive
  <2>3. cur[p]' # None /\ cur' \in [Callers -> Conns \cup {None}]
    BY SMTT(30), <1>5, <2>2, ConfigAssumption DEF GetIdle
  <2>4. /\ \A q \in Callers : cur'[q] # None <=> pc'[q] \in Holding
        /\ \A q \in Callers : watch'[q] # "off" => pc'[q] \in {"send", "read", "stop"}
        /\ pc' \in [Callers -> Labels]
    BY <1>5, <2>3 DEF GetIdle
  <2> QED
    BY <1>5, <2>2, <2>3, <2>4 DEF GetIdle, callVars, connVars, wireVars
<1>6. ASSUME NEW p \in Callers, GetNone(p) PROVE TypeOK'
  BY <1>6 DEF GetNone, callVars, poolVars, connVars, wireVars
<1>7. ASSUME NEW p \in Callers, DialOk(p) PROVE TypeOK'
  BY <1>7, ConfigAssumption DEF DialOk, callVars, poolVars
<1>8. ASSUME NEW p \in Callers, DialFail(p) PROVE TypeOK'
  BY <1>8 DEF DialFail, callVars, poolVars, connVars, wireVars
<1>9. ASSUME NEW p \in Callers, AuthSend(p) PROVE TypeOK'
  <2>1. cur[p] \in Conns /\ Cmd(p, 0) \in CmdIds
    BY <1>9 DEF AuthSend, Cmd, CmdIds
  <2>2. /\ pend' \in [Conns -> Seq(CmdIds)]
        /\ \A c \in Conns : Len(rep[c]) <= Len(pend'[c])
    BY <1>9, <2>1, AppendProperties, LenProperties DEF AuthSend
  <2> QED
    BY SMTT(30), <1>9, <2>1, <2>2 DEF AuthSend, callVars, poolVars, connVars
<1>10. ASSUME NEW p \in Callers, AuthRead(p) PROVE TypeOK'
  <2>1. cur[p] \in Conns /\ rep[cur[p]] # <<>>
    BY <1>10 DEF AuthRead
  <2>2. /\ pend' \in [Conns -> Seq(CmdIds)] /\ rep' \in [Conns -> Seq(Unread)]
        /\ \A c \in Conns : Len(rep'[c]) <= Len(pend'[c])
    BY <1>10, <2>1, TailsFit DEF AuthRead
  <2> QED
    BY <1>10, <2>1, <2>2 DEF AuthRead, callVars, poolVars, connVars
<1>11. ASSUME NEW p \in Callers, AuthFail(p) PROVE TypeOK'
  <2>1. pc[p] \in {"auth", "authread"} /\ pc' = [pc EXCEPT ![p] = "drop"]
    BY <1>11 DEF AuthFail
  <2>2. /\ pc' \in [Callers -> Labels] /\ err' \in [Callers -> Errors]
        /\ \A q \in Callers : cur[q] # None <=> pc'[q] \in Holding
        /\ \A q \in Callers : watch[q] # "off" => pc'[q] \in {"send", "read", "stop"}
    BY <1>11, <2>1 DEF AuthFail
  <2> QED
    BY <1>11, <2>2 DEF AuthFail, callVars, poolVars, connVars, wireVars
<1>12. ASSUME NEW p \in Callers, Arm(p) PROVE TypeOK'
  BY <1>12 DEF Arm, Deadline, callVars, poolVars, wireVars
<1>13. ASSUME NEW p \in Callers, SendOk(p) PROVE TypeOK'
  <2>1. cur[p] \in Conns /\ req[p].n \in Nat
    BY <1>13, RequestIsTyped DEF SendOk
  <2>2. /\ pend' \in [Conns -> Seq(CmdIds)]
        /\ \A c \in Conns : Len(rep[c]) <= Len(pend'[c])
    BY <1>13, <2>1, WrittenFits DEF SendOk
  <2> QED
    BY <1>13, <2>1, <2>2 DEF SendOk, callVars, poolVars, connVars
<1>14. ASSUME NEW p \in Callers, SendFail(p) PROVE TypeOK'
  <2>1. cur[p] \in Conns /\ req[p].n \in Nat
    BY <1>14, RequestIsTyped DEF SendFail
  <2>2. PICK k \in 0..(req[p].n - 1) :
          pend' = [pend EXCEPT ![cur[p]] = pend[cur[p]] \o Batch(p, k)]
    BY <1>14 DEF SendFail
  <2>3. /\ pend' \in [Conns -> Seq(CmdIds)]
        /\ \A c \in Conns : Len(rep[c]) <= Len(pend'[c])
    <3>1. k \in Nat
      BY <2>1
    <3> QED
      BY <2>1, <2>2, <3>1, WrittenFits
  <2> QED
    BY SMTT(30), <1>14, <2>1, <2>3 DEF SendFail, callVars, poolVars, connVars
<1>15. ASSUME NEW p \in Callers, Read(p) PROVE TypeOK'
  <2>1. cur[p] \in Conns /\ rep[cur[p]] # <<>>
    BY <1>15 DEF Read
  <2>2. /\ pend' \in [Conns -> Seq(CmdIds)] /\ rep' \in [Conns -> Seq(Unread)]
        /\ \A c \in Conns : Len(rep'[c]) <= Len(pend'[c])
    <3>1. CASE Head(rep[cur[p]]) = "nested"
      <4>1. /\ pend' = pend
            /\ rep' = [rep EXCEPT ![cur[p]] = <<"rest">> \o Tail(rep[cur[p]])]
        BY <1>15, <3>1 DEF Read, Consume
      <4>2. /\ <<"rest">> \o Tail(rep[cur[p]]) \in Seq(Unread)
            /\ Len(<<"rest">> \o Tail(rep[cur[p]])) = Len(rep[cur[p]])
        <5>1. <<"rest">> \in Seq(Unread) /\ Len(<<"rest">>) = 1
          BY DEF Unread
        <5>2. /\ Tail(rep[cur[p]]) \in Seq(Unread)
              /\ Len(Tail(rep[cur[p]])) = Len(rep[cur[p]]) - 1
          BY <2>1, HeadTailProperties
        <5> QED
          BY <2>1, <5>1, <5>2, ConcatProperties, LenProperties
      <4> QED
        BY <2>1, <4>1, <4>2
    <3>2. CASE Head(rep[cur[p]]) # "nested"
      BY <1>15, <2>1, <3>2, TailsFit DEF Read, Consume
    <3> QED
      BY <3>1, <3>2
  <2>3. pc' \in [Callers -> Labels] /\ err' \in [Callers -> Errors]
    BY <1>15 DEF Read
  <2> QED
    BY SMTT(30), <1>15, <2>1, <2>2, <2>3 DEF Read, poolVars, connVars
<1>16. ASSUME NEW p \in Callers, ReadFail(p) PROVE TypeOK'
  BY <1>16 DEF ReadFail, callVars, poolVars, connVars, wireVars
<1>17. ASSUME NEW p \in Callers, Stop(p) PROVE TypeOK'
  BY <1>17 DEF Stop, Outcome, callVars, poolVars, connVars, wireVars
<1>18. ASSUME NEW p \in Callers, Put(p) PROVE TypeOK'
  BY <1>18, MaxIdlePositive DEF Put, HasRoom, callVars, connVars, wireVars
<1>19. ASSUME NEW p \in Callers, PutRefused(p) PROVE TypeOK'
  BY <1>19 DEF PutRefused, callVars, poolVars, connVars, wireVars
<1>20. ASSUME NEW p \in Callers, Drop(p) PROVE TypeOK'
  <2>1. cur[p] \in Conns
    BY <1>20 DEF Drop
  <2>2. behind' \in [Callers -> Seq(CmdIds)]
    BY <1>20, <2>1, LeftOnIsTyped DEF Drop
  <2> QED
    BY <1>20, <2>1, <2>2, EmptySeq DEF Drop, CloseSocket, poolVars
<1>21. ASSUME NEW p \in Callers, Release(p) PROVE TypeOK'
  <2>1. Forget(p) /\ slots' \in Int
    BY <1>21 DEF Release
  <2>2. /\ pc' \in [Callers -> Labels]
        /\ \A q \in Callers : cur[q] # None <=> pc'[q] \in Holding
        /\ \A q \in Callers : watch[q] # "off" => pc'[q] \in {"send", "read", "stop"}
    BY <1>21 DEF Release
  <2> QED
    BY <1>21, <2>1, <2>2, ForgetIsTyped DEF Release, connVars, wireVars
<1>22. ASSUME NEW p \in Callers, Cancel(p) PROVE TypeOK'
  BY <1>22 DEF Cancel, poolVars, connVars, wireVars
<1>23. ASSUME NEW p \in Callers, FireWatch(p) PROVE TypeOK'
  BY <1>23 DEF FireWatch, callVars, poolVars, wireVars
<1>24. ASSUME NEW c \in Conns, CloseDoomed(c) PROVE TypeOK'
  BY <1>24 DEF CloseDoomed, CloseSocket, callVars, poolVars, wireVars
<1>25. ASSUME NEW c \in Conns, CloseReaped(c) PROVE TypeOK'
  BY <1>25 DEF CloseReaped, CloseSocket, callVars, wireVars
<1>26. ASSUME NEW c \in Conns, Expire(c) PROVE TypeOK'
  BY <1>26 DEF Expire, callVars, poolVars, wireVars
<1>27. ASSUME NEW c \in Conns, Serve(c) PROVE TypeOK'
  <2>1. PICK kind \in Replies \cup {"lost"} :
          rep' = [rep EXCEPT ![c] = Append(rep[c], kind)]
    BY <1>27 DEF Serve
  <2>2. /\ rep' \in [Conns -> Seq(Unread)]
        /\ \A d \in Conns : Len(rep'[d]) <= Len(pend[d])
    BY <1>27, <2>1, InputAssumption, AppendProperties, LenProperties DEF Serve, Unread
  <2>3. exec' \in [Callers -> Seq(Nat)]
    <3> DEFINE k == Len(rep[c]) + 1
    <3>1. k \in 1..Len(pend[c]) /\ pend[c] \in Seq(CmdIds)
      BY <1>27, LenProperties DEF Serve
    <3>2. pend[c][k] \in CmdIds
      BY <3>1, ElementOfSeq
    <3> QED
      BY <1>27, <3>2, ExecutesIsTyped DEF Serve
  <2> QED
    BY <1>27, <2>2, <2>3 DEF Serve, poolVars, connVars
<1>28. ASSUME NEW c \in Conns, Hangup(c) PROVE TypeOK'
  BY <1>28 DEF Hangup, callVars, poolVars, wireVars
<1>29. ASSUME Close PROVE TypeOK'
  BY <1>29, MaxIdlePositive DEF Close, Pooled, callVars, connVars, wireVars
<1>30. ASSUME UNCHANGED vars PROVE TypeOK'
  BY <1>30 DEF vars, callVars, poolVars, connVars, wireVars
<1>31. ASSUME NEW p \in Callers, AuthRefused(p) PROVE TypeOK'
  BY <1>31 DEF AuthRefused, callVars, poolVars, connVars, wireVars
<1>32. ASSUME NEW p \in Callers, ServeLate(p) PROVE TypeOK'
  <2>1. Head(behind[p]) \in CmdIds /\ Tail(behind[p]) \in Seq(CmdIds)
    BY <1>32, HeadTailProperties DEF ServeLate
  <2>2. exec' \in [Callers -> Seq(Nat)]
    BY <1>32, <2>1, ExecutesIsTyped DEF ServeLate
  <2> QED
    BY <1>32, <2>1, <2>2 DEF ServeLate, poolVars, connVars, wireVars
<1>33. ASSUME NEW p \in Callers, LoseLate(p) PROVE TypeOK'
  BY <1>33, EmptySeq DEF LoseLate, poolVars, connVars, wireVars
<1> QED
  BY <1>1, <1>2, <1>3, <1>4, <1>5, <1>6, <1>7, <1>8, <1>9, <1>10, <1>11,
     <1>12, <1>13, <1>14, <1>15, <1>16, <1>17, <1>18, <1>19, <1>20, <1>21,
     <1>22, <1>23, <1>24, <1>25, <1>26, <1>27, <1>28, <1>29, <1>30, <1>31,
     <1>32, <1>33
  DEF Next, Step

\* Every variable keeps its type in every behaviour of the pool.
THEOREM TypeCorrect == Spec => []TypeOK
BY TypeInit, TypeStep, PTL DEF Spec

-----------------------------------------------------------------------------
(* Ownership: where a connection is, and who may still close it.           *)

\* A caller that can give its connection back: it has not decided to close it,
\* and its closing goroutine has not started.
MayReturn(p) == pc[p] \in Holding \ {"drop"} /\ watch[p] # "fired"

\* The inductive invariant behind Exclusive, OpenIsOwned and NoLateClose.  What
\* they lack is the state of a connection in use: until the closing goroutine
\* starts or the call gives up on it, it is open and nobody is about to close it.
Ownership ==
  /\ Exclusive
  /\ OpenIsOwned
  /\ NoLateClose
  /\ \A p \in Callers :
       MayReturn(p) => sock[cur[p]] # "closed" /\ cur[p] \notin doomed
  /\ reap \cap doomed = {}

\* get takes one connection out of the pool, which held it once.
LEMMA PooledFront ==
  ASSUME idle \in Seq(Conns), idle # <<>>,
         \A i, j \in DOMAIN idle : idle[i] = idle[j] => i = j,
         idle' = SubSeq(idle, 1, Len(idle) - 1)
  PROVE  /\ Pooled' = Pooled \ {idle[Len(idle)]} /\ idle[Len(idle)] \in Pooled
         /\ \A i, j \in DOMAIN idle' : idle'[i] = idle'[j] => i = j
<1>1. /\ Len(idle) \in Nat \ {0} /\ DOMAIN idle = 1..Len(idle)
      /\ idle' \in Seq(Conns) /\ Len(idle') = Len(idle) - 1
      /\ \A i \in 1..(Len(idle) - 1) : idle'[i] = idle[i]
  BY FrontIsSeq, LenProperties
<1>2. DOMAIN idle' = 1..(Len(idle) - 1)
  BY <1>1, LenProperties
<1>3. \A i, j \in DOMAIN idle' : idle'[i] = idle'[j] => i = j
  BY <1>1, <1>2
<1>4. idle[Len(idle)] \in Pooled
  BY <1>1 DEF Pooled
<1>5. ASSUME NEW c \in Pooled' PROVE c \in Pooled \ {idle[Len(idle)]}
  <2>1. PICK i \in 1..(Len(idle) - 1) : c = idle'[i]
    BY <1>2, <1>5 DEF Pooled
  <2> QED
    BY <1>1, <2>1 DEF Pooled
<1>6. ASSUME NEW c \in Pooled, c # idle[Len(idle)] PROVE c \in Pooled'
  <2>1. PICK i \in 1..Len(idle) : c = idle[i]
    BY <1>1 DEF Pooled
  <2>2. i \in 1..(Len(idle) - 1)
    BY <1>1, <1>6, <2>1
  <2> QED
    BY <1>1, <1>2, <2>1, <2>2 DEF Pooled
<1> QED
  BY <1>3, <1>4, <1>5, <1>6

\* put adds one connection, which was not there.
LEMMA PooledAppend ==
  ASSUME idle \in Seq(Conns), NEW c \in Conns, c \notin Pooled,
         \A i, j \in DOMAIN idle : idle[i] = idle[j] => i = j,
         idle' = Append(idle, c)
  PROVE  /\ Pooled' = Pooled \cup {c}
         /\ \A i, j \in DOMAIN idle' : idle'[i] = idle'[j] => i = j
<1>1. /\ Len(idle) \in Nat /\ DOMAIN idle = 1..Len(idle)
      /\ idle' \in Seq(Conns) /\ Len(idle') = Len(idle) + 1
      /\ \A i \in 1..Len(idle) : idle'[i] = idle[i]
      /\ idle'[Len(idle) + 1] = c
  BY AppendProperties, LenProperties
<1>2. DOMAIN idle' = 1..(Len(idle) + 1)
  BY <1>1, LenProperties
<1> QED
  BY <1>1, <1>2 DEF Pooled

\* A caller that held nothing now holds one connection more.
LEMMA HeldAdd ==
  ASSUME TypeOK, NEW p \in Callers, NEW c \in Conns, cur[p] = None,
         cur' = [cur EXCEPT ![p] = c]
  PROVE  Held' = Held \cup {c} /\ c # None
<1>1. c # None
  BY ConfigAssumption
<1>2. cur'[p] = c /\ \A q \in Callers : q # p => cur'[q] = cur[q]
  BY DEF TypeOK
<1>3. ASSUME NEW x \in Held' PROVE x \in Held \cup {c}
  BY <1>2, <1>3 DEF Held
<1>4. ASSUME NEW x \in Held PROVE x \in Held'
  BY <1>2, <1>4 DEF Held
<1>5. c \in Held'
  BY <1>1, <1>2 DEF Held
<1> QED
  BY <1>1, <1>3, <1>4, <1>5

\* A step that moves no connection and starts no close keeps Ownership.
LEMMA OwnershipFrame ==
  ASSUME Ownership, UNCHANGED <<cur, idle, reap, sock, doomed>>,
         \A p \in Callers : MayReturn(p)' => MayReturn(p)
  PROVE  Ownership'
<1>1. Pooled' = Pooled /\ Held' = Held
  BY DEF Pooled, Held
<1> QED
  BY <1>1 DEF Ownership, Exclusive, OpenIsOwned, NoLateClose

LEMMA OwnershipInit == Init => Ownership
<1> SUFFICES ASSUME Init PROVE Ownership
  OBVIOUS
<1>1. Pooled = {} /\ DOMAIN idle = {}
  BY DEF Init, Pooled
<1>2. Held = {}
  BY DEF Init, Held
<1> QED
  BY <1>1, <1>2 DEF Init, Ownership, Exclusive, OpenIsOwned, NoLateClose, MayReturn, Holding

LEMMA OwnershipStep == TypeOK /\ Ownership /\ [Next]_vars => Ownership'
<1> SUFFICES ASSUME TypeOK, Ownership, [Next]_vars PROVE Ownership'
  OBVIOUS
<1>1. ASSUME NEW p \in Callers, Begin(p) PROVE Ownership'
  BY <1>1, OwnershipFrame DEF Begin, Goto, TypeOK, MayReturn, Holding, poolVars, connVars
<1>2. ASSUME NEW p \in Callers, Acquire(p) PROVE Ownership'
  BY <1>2, OwnershipFrame DEF Acquire, Goto, TypeOK, MayReturn, Holding, connVars
<1>3. ASSUME NEW p \in Callers, AcquireDone(p) PROVE Ownership'
  BY <1>3, OwnershipFrame DEF AcquireDone, Goto, TypeOK, MayReturn, Holding, poolVars, connVars
<1>4. ASSUME NEW p \in Callers, GetClosed(p) PROVE Ownership'
  BY <1>4, OwnershipFrame DEF GetClosed, Goto, TypeOK, MayReturn, Holding, poolVars, connVars
<1>5. ASSUME NEW p \in Callers, GetNone(p) PROVE Ownership'
  BY <1>5, OwnershipFrame DEF GetNone, Goto, TypeOK, MayReturn, Holding, poolVars, connVars
<1>6. ASSUME NEW p \in Callers, DialFail(p) PROVE Ownership'
  BY <1>6, OwnershipFrame DEF DialFail, Goto, TypeOK, MayReturn, Holding, poolVars, connVars
<1>7. ASSUME NEW p \in Callers, AuthSend(p) PROVE Ownership'
  BY <1>7, OwnershipFrame DEF AuthSend, Goto, TypeOK, MayReturn, Holding, poolVars, connVars
<1>8. ASSUME NEW p \in Callers, AuthRead(p) PROVE Ownership'
  BY <1>8, OwnershipFrame DEF AuthRead, Goto, TypeOK, MayReturn, Holding, poolVars, connVars
<1>9. ASSUME NEW p \in Callers, AuthFail(p) PROVE Ownership'
  BY <1>9, OwnershipFrame DEF AuthFail, Goto, TypeOK, MayReturn, Holding, poolVars, connVars
<1>10. ASSUME NEW p \in Callers, SendOk(p) PROVE Ownership'
  BY <1>10, OwnershipFrame DEF SendOk, Goto, TypeOK, MayReturn, Holding, poolVars, connVars
<1>11. ASSUME NEW p \in Callers, SendFail(p) PROVE Ownership'
  BY <1>11, OwnershipFrame DEF SendFail, Goto, TypeOK, MayReturn, Holding, poolVars, connVars
<1>12. ASSUME NEW p \in Callers, Read(p) PROVE Ownership'
  BY <1>12, OwnershipFrame DEF Read, Goto, TypeOK, MayReturn, Holding, poolVars, connVars
<1>13. ASSUME NEW p \in Callers, ReadFail(p) PROVE Ownership'
  BY <1>13, OwnershipFrame DEF ReadFail, Goto, TypeOK, MayReturn, Holding, poolVars, connVars
<1>14. ASSUME NEW p \in Callers, Stop(p) PROVE Ownership'
  BY <1>14, OwnershipFrame DEF Stop, Goto, TypeOK, MayReturn, Holding, poolVars, connVars, Outcome, Reusable
<1>15. ASSUME NEW p \in Callers, PutRefused(p) PROVE Ownership'
  BY <1>15, OwnershipFrame DEF PutRefused, Goto, TypeOK, MayReturn, Holding, poolVars, connVars
<1>16. ASSUME NEW p \in Callers, Release(p) PROVE Ownership'
  BY <1>16, OwnershipFrame DEF Release, Goto, TypeOK, MayReturn, Holding, connVars
<1>17. ASSUME NEW p \in Callers, Cancel(p) PROVE Ownership'
  BY <1>17, OwnershipFrame DEF Cancel, Goto, TypeOK, MayReturn, Holding, poolVars, connVars
<1>18. ASSUME NEW c \in Conns, Expire(c) PROVE Ownership'
  BY <1>18, OwnershipFrame DEF Expire, MayReturn, poolVars
<1>19. ASSUME NEW c \in Conns, Serve(c) PROVE Ownership'
  BY <1>19, OwnershipFrame DEF Serve, MayReturn, poolVars, connVars
<1>20. ASSUME UNCHANGED vars PROVE Ownership'
  BY <1>20, OwnershipFrame DEF vars, MayReturn, poolVars, connVars
<1>21. ASSUME NEW p \in Callers, GetIdle(p) PROVE Ownership'
  <2> DEFINE c == idle[Len(idle)]
  <2>1. /\ c \in Pooled /\ Pooled' = Pooled \ {c}
        /\ \A i, j \in DOMAIN idle' : idle'[i] = idle'[j] => i = j
    BY <1>21, PooledFront DEF GetIdle, TypeOK, Ownership, Exclusive
  <2>2. c \in Conns /\ c # None
    BY <1>21, FrontIsSeq, ConfigAssumption DEF GetIdle, TypeOK
  <2>3. cur[p] = None /\ cur' = [cur EXCEPT ![p] = c] /\ Held' = Held \cup {c}
    <3>1. cur[p] = None /\ cur' = [cur EXCEPT ![p] = c]
      BY <1>21 DEF GetIdle, Goto, TypeOK, Holding
    <3> QED
      BY <2>2, <3>1, HeldAdd
  <2>4. UNCHANGED <<sock, doomed, reap, watch>> /\ c \notin Held
    BY <1>21, <2>1 DEF GetIdle, connVars, Ownership, Exclusive
  <2>5. Exclusive'
    <3>1. \A q \in Callers : cur[q] # c
      BY <2>2, <2>4 DEF Held
    <3>2. \A q, r \in Callers : cur'[q] = cur'[r] /\ cur'[q] # None => q = r
      BY <2>3, <3>1 DEF TypeOK, Ownership, Exclusive
    <3> QED
      BY <2>1, <2>3, <2>4, <3>2 DEF Ownership, Exclusive
  <2>6. OpenIsOwned' /\ NoLateClose' /\ (reap \cap doomed = {})'
    BY <2>1, <2>3, <2>4 DEF Ownership, OpenIsOwned, NoLateClose
  <2>7. ASSUME NEW q \in Callers, MayReturn(q)'
        PROVE  sock'[cur'[q]] # "closed" /\ cur'[q] \notin doomed'
    <3>1. CASE q = p
      BY <2>1, <2>3, <2>4, <3>1 DEF TypeOK, Ownership, NoLateClose
    <3>2. CASE q # p
      <4>1. MayReturn(q) /\ cur'[q] = cur[q]
        BY <1>21, <2>3, <2>4, <2>7, <3>2 DEF GetIdle, Goto, TypeOK, MayReturn
      <4> QED
        BY <2>4, <4>1 DEF Ownership
    <3> QED
      BY <3>1, <3>2
  <2> QED
    BY <2>5, <2>6, <2>7 DEF Ownership
<1>22. ASSUME NEW p \in Callers, DialOk(p) PROVE Ownership'
  <2>1. PICK c \in Conns : /\ Unused(c)
                           /\ cur' = [cur EXCEPT ![p] = c]
                           /\ sock' = [sock EXCEPT ![c] = "open"]
    BY <1>22 DEF DialOk
  <2>2. Pooled' = Pooled
    BY <1>22 DEF DialOk, poolVars, Pooled
  <2>3. cur[p] = None /\ c # None /\ Held' = Held \cup {c}
    <3>1. cur[p] = None
      BY <1>22 DEF DialOk, Goto, TypeOK, Holding
    <3> QED
      BY <2>1, <3>1, HeldAdd
  <2>4. /\ UNCHANGED <<idle, doomed, reap, watch>>
        /\ c \notin Pooled /\ c \notin reap /\ c \notin doomed /\ \A q \in Callers : cur[q] # c
    BY <1>22, <2>1 DEF DialOk, poolVars, Unused
  <2>5. Exclusive'
    <3>1. \A q, r \in Callers : cur'[q] = cur'[r] /\ cur'[q] # None => q = r
      BY <2>1, <2>3, <2>4 DEF TypeOK, Ownership, Exclusive
    <3> QED
      BY <2>2, <2>3, <2>4, <3>1 DEF Ownership, Exclusive
  <2>6. \A d \in Conns : sock'[d] = IF d = c THEN "open" ELSE sock[d]
    BY <2>1 DEF TypeOK
  <2>7. OpenIsOwned' /\ NoLateClose' /\ (reap \cap doomed = {})'
    <3>1. Pooled \subseteq Conns
      BY ElementOfSeq, LenProperties DEF Pooled, TypeOK
    <3> QED
      BY <2>2, <2>3, <2>4, <2>6, <3>1 DEF Ownership, OpenIsOwned, NoLateClose
  <2>8. ASSUME NEW q \in Callers, MayReturn(q)'
        PROVE  sock'[cur'[q]] # "closed" /\ cur'[q] \notin doomed'
    <3>1. CASE q = p
      BY <2>1, <2>4, <2>6, <3>1 DEF TypeOK
    <3>2. CASE q # p
      <4>1. MayReturn(q) /\ cur'[q] = cur[q] /\ cur[q] \in Conns \ {c}
        BY <1>22, <2>1, <2>4, <2>8, <3>2 DEF DialOk, Goto, TypeOK, MayReturn
      <4> QED
        BY <2>4, <2>6, <4>1 DEF Ownership
    <3> QED
      BY <3>1, <3>2
  <2> QED
    BY <2>5, <2>7, <2>8 DEF Ownership
<1>23. ASSUME NEW p \in Callers, Arm(p) PROVE Ownership'
  <2>1. Pooled' = Pooled /\ Held' = Held
    BY <1>23 DEF Arm, poolVars, Pooled, Held
  <2>2. cur[p] \in Held /\ cur[p] \in Conns
    BY <1>23 DEF Arm, Goto, TypeOK, Holding, Held
  <2> QED
    BY <1>23, <2>1, <2>2 DEF Arm, Goto, TypeOK, Holding, MayReturn, poolVars, Ownership, Exclusive, OpenIsOwned, NoLateClose
<1>24. ASSUME NEW p \in Callers, Put(p) PROVE Ownership'
  <2>1. /\ cur[p] \in Conns /\ cur[p] \in Held /\ cur[p] # None
        /\ cur' = [cur EXCEPT ![p] = None]
    BY <1>24, ConfigAssumption DEF Put, Goto, TypeOK, Holding, Held
  <2>2. /\ Pooled' = Pooled \cup {cur[p]}
        /\ \A i, j \in DOMAIN idle' : idle'[i] = idle'[j] => i = j
    BY <1>24, <2>1, PooledAppend DEF Put, TypeOK, Ownership, Exclusive
  <2>3. Held' = Held \ {cur[p]}
    BY <2>1 DEF Held, TypeOK, Ownership, Exclusive
  <2>4. sock[cur[p]] # "closed" /\ cur[p] \notin doomed
    BY <1>24 DEF Put, Goto, TypeOK, Holding, MayReturn, Ownership
  <2>5. UNCHANGED <<sock, doomed, reap, watch>>
    BY <1>24 DEF Put, connVars
  <2>6. Exclusive'
    BY <2>1, <2>2, <2>3, <2>5 DEF TypeOK, Ownership, Exclusive
  <2>7. OpenIsOwned' /\ NoLateClose' /\ (reap \cap doomed = {})'
    BY <2>2, <2>3, <2>4, <2>5 DEF Ownership, OpenIsOwned, NoLateClose
  <2>8. ASSUME NEW q \in Callers, MayReturn(q)'
        PROVE  sock'[cur'[q]] # "closed" /\ cur'[q] \notin doomed'
    <3>1. q # p /\ MayReturn(q) /\ cur'[q] = cur[q]
      BY <1>24, <2>1, <2>5, <2>8 DEF Put, Goto, TypeOK, MayReturn, Holding
    <3> QED
      BY <2>5, <3>1 DEF Ownership
  <2> QED
    BY <2>6, <2>7, <2>8 DEF Ownership
<1>25. ASSUME NEW p \in Callers, Drop(p) PROVE Ownership'
  <2>1. /\ cur[p] \in Conns /\ cur[p] \in Held /\ cur[p] # None
        /\ cur' = [cur EXCEPT ![p] = None]
    BY <1>25, ConfigAssumption DEF Drop, Goto, TypeOK, Holding, Held
  <2>2. Pooled' = Pooled /\ Held' = Held \ {cur[p]}
    BY <1>25, <2>1 DEF Drop, poolVars, Pooled, Held, TypeOK, Ownership, Exclusive
  <2> QED
    BY <1>25, <2>1, <2>2
    DEF Drop, CloseSocket, Goto, TypeOK, Holding, MayReturn, poolVars, Ownership, Exclusive, OpenIsOwned, NoLateClose
<1>26. ASSUME NEW p \in Callers, FireWatch(p) PROVE Ownership'
  <2>1. Pooled' = Pooled /\ Held' = Held
    BY <1>26 DEF FireWatch, poolVars, Pooled, Held
  <2>2. cur[p] \in Held /\ cur[p] \in Conns
    BY <1>26 DEF FireWatch, TypeOK, Holding, Held
  <2> QED
    BY <1>26, <2>1, <2>2 DEF FireWatch, TypeOK, Holding, MayReturn, poolVars, Ownership, Exclusive, OpenIsOwned, NoLateClose
<1>27. ASSUME NEW c \in Conns, CloseDoomed(c) PROVE Ownership'
  <2>1. Pooled' = Pooled /\ Held' = Held
    BY <1>27 DEF CloseDoomed, poolVars, Pooled, Held
  <2>2. \A p \in Callers : pc[p] \in Holding => cur[p] \in Held
    BY DEF TypeOK, Held
  <2> QED
    BY <1>27, <2>1, <2>2 DEF CloseDoomed, CloseSocket, TypeOK, MayReturn, poolVars, Ownership, Exclusive, OpenIsOwned, NoLateClose
<1>28. ASSUME NEW c \in Conns, CloseReaped(c) PROVE Ownership'
  <2>1. Pooled' = Pooled /\ Held' = Held
    BY <1>28 DEF CloseReaped, poolVars, Pooled, Held
  <2>2. \A p \in Callers : pc[p] \in Holding => cur[p] \in Held
    BY DEF TypeOK, Held
  <2> QED
    BY <1>28, <2>1, <2>2 DEF CloseReaped, CloseSocket, TypeOK, MayReturn, poolVars, Ownership, Exclusive, OpenIsOwned, NoLateClose
<1>29. ASSUME NEW c \in Conns, Hangup(c) PROVE Ownership'
  <2>1. Pooled' = Pooled /\ Held' = Held
    BY <1>29 DEF Hangup, poolVars, Pooled, Held
  <2> QED
    BY <1>29, <2>1 DEF Hangup, TypeOK, Holding, MayReturn, poolVars, Ownership, Exclusive, OpenIsOwned, NoLateClose
<1>30. ASSUME Close PROVE Ownership'
  <2>1. Pooled' = {} /\ DOMAIN idle' = {}
    BY <1>30 DEF Close, Pooled
  <2>2. Held' = Held
    BY <1>30 DEF Close, Held
  <2> QED
    BY <1>30, <2>1, <2>2 DEF Close, connVars, MayReturn, Ownership, Exclusive, OpenIsOwned, NoLateClose
<1>31. ASSUME NEW p \in Callers, AuthRefused(p) PROVE Ownership'
  BY <1>31, OwnershipFrame DEF AuthRefused, Goto, TypeOK, MayReturn, Holding, poolVars, connVars
<1>32. ASSUME NEW p \in Callers, ServeLate(p) \/ LoseLate(p) PROVE Ownership'
  BY <1>32, OwnershipFrame DEF ServeLate, LoseLate, MayReturn, poolVars, connVars
<1> QED
  BY <1>1, <1>2, <1>3, <1>4, <1>5, <1>6, <1>7, <1>8, <1>9, <1>10, <1>11, <1>12, <1>13, <1>14,
     <1>15, <1>16, <1>17, <1>18, <1>19, <1>20, <1>21, <1>22, <1>23, <1>24, <1>25, <1>26, <1>27,
     <1>28, <1>29, <1>30, <1>31, <1>32
  DEF Next, Step

\* At any number of callers and connections: a connection has one owner, no
\* open connection is without one, and no closing goroutine of an earlier call
\* is left to hit a connection in the pool.
THEOREM OwnershipHolds == Spec => [](Exclusive /\ OpenIsOwned /\ NoLateClose)
<1>1. Init => TypeOK /\ Ownership
  BY TypeInit, OwnershipInit
<1>2. TypeOK /\ Ownership /\ [Next]_vars => TypeOK' /\ Ownership'
  BY TypeStep, OwnershipStep
<1>3. Ownership => Exclusive /\ OpenIsOwned /\ NoLateClose
  BY DEF Ownership
<1> QED
  BY <1>1, <1>2, <1>3, PTL DEF Spec

\* No socket is leaked, at any number of callers and connections (conn.go:186, 220).
COROLLARY NothingLeaks == Spec => []OpenIsOwned
BY OwnershipHolds, PTL

\* No connection in the pool is closed, or will be by the closing goroutine of a
\* call that has ended (conn.go:248-252, 295-298).
COROLLARY NothingClosedLate == Spec => []NoLateClose
BY OwnershipHolds, PTL

-----------------------------------------------------------------------------
(* The wire: what is on its way on a connection belongs to the call that    *)
(* holds it, and the commands the server has answered are accounted for.    *)

Succeeded(p) == err[p] \in {"nil", "server"}

\* What is on the connection of a call: nothing but the AUTH of its handshake ...
OwesAuth(p) ==
  exec[p] = <<>> /\ \A i \in DOMAIN pend[cur[p]] : pend[cur[p]][i] = Cmd(p, 0)

\* ... or the commands of the call whose answers it has not read, in order, of
\* which the server has run those it has answered.
OwesReplies(p) ==
  LET c == cur[p] IN
  /\ \A i \in DOMAIN pend[c] : pend[c][i] = Cmd(p, got[p] + i)
  /\ Len(exec[p]) = got[p] + Len(rep[c])
  /\ got[p] + Len(pend[c]) <= req[p].n

Owed(p) == OwesAuth(p) \/ OwesReplies(p)

\* What a call leaves behind is what the server has not run of it, in order.
LeftBehind(p) ==
  /\ \A i \in DOMAIN behind[p] : behind[p][i] = Cmd(p, Len(exec[p]) + i)
  /\ Len(exec[p]) + Len(behind[p]) <= req[p].n

InDoubt(p) == err[p] \in {"fatal", "ctx"}

\* Where the call p is, what it has read, and what is still on its way.
Account(p) ==
  LET c == cur[p] IN
  /\ pc[p] \in {"acquire", "get", "dial", "auth", "authread", "arm", "send"}
       => got[p] = 0 /\ exec[p] = <<>> /\ err[p] = "nil"
  /\ pc[p] = "ready" =>
       /\ got[p] = 0
       /\ req[p] = NoRequest => exec[p] = <<>> /\ behind[p] = <<>>
       /\ req[p] # NoRequest => InDoubt(p)
  /\ pc[p] # "ready" => req[p] \in Requests
  /\ pc[p] \in {"auth", "arm", "send", "put"} => pend[c] = <<>>
  /\ pc[p] = "authread" => Len(pend[c]) = 1 /\ pend[c][1] = Cmd(p, 0)
  /\ pc[p] = "read" => OwesReplies(p) /\ Len(pend[c]) = req[p].n - got[p]
  /\ pc[p] \in {"stop", "put", "drop"} => Owed(p)
  /\ pc[p] = "stop" /\ Succeeded(p) => pend[c] = <<>>
  /\ pc[p] = "drop" /\ Succeeded(p) => Len(pend[c]) = Len(rep[c])
  /\ pc[p] \in {"stop", "put", "drop", "release"} =>
       /\ err[p] = "nil" => Len(exec[p]) = req[p].n
       /\ err[p] = "server" => Len(exec[p]) \in {0, req[p].n}
  /\ pc[p] = "put" => Succeeded(p)
  /\ err[p] = "closed" => pc[p] = "release" /\ exec[p] = <<>>
  /\ behind[p] # <<>> => pc[p] \in {"release", "ready"} /\ InDoubt(p) /\ LeftBehind(p)

Accounts ==
  /\ \A p \in Callers : Account(p)
  /\ \A c \in Conns \ Held : pend[c] = <<>>
  /\ rep \in [Conns -> Seq(Replies \cup {"lost"})]

\* A step leaves the call q alone, and the connection it holds with it.
Untouched(q) ==
  /\ pc'[q] = pc[q] /\ req'[q] = req[q] /\ got'[q] = got[q]
  /\ err'[q] = err[q] /\ exec'[q] = exec[q] /\ cur'[q] = cur[q]
  /\ behind'[q] = behind[q]
  /\ pc[q] \in Holding => /\ pend'[cur[q]] = pend[cur[q]]
                          /\ rep'[cur[q]] = rep[cur[q]]

LEMMA AccountKept ==
  ASSUME NEW q \in Callers, Account(q), Untouched(q)
  PROVE  Account(q)'
<1>1. OwesAuth(q) /\ pc[q] \in Holding => OwesAuth(q)'
  BY DEF Untouched, OwesAuth, Cmd
<1>2. OwesReplies(q) /\ pc[q] \in Holding => OwesReplies(q)'
  BY DEF Untouched, OwesReplies, Cmd
<1>3. LeftBehind(q) => LeftBehind(q)'
  BY DEF Untouched, LeftBehind, Cmd
<1>4. InDoubt(q)' = InDoubt(q) /\ Succeeded(q)' = Succeeded(q)
  BY DEF Untouched, InDoubt, Succeeded
<1>5. Owed(q) /\ pc[q] \in Holding => Owed(q)'
  BY <1>1, <1>2 DEF Owed
<1> QED
  BY <1>2, <1>3, <1>4, <1>5 DEF Untouched, Account, Holding, Cmd

\* A step that touches no call.
LEMMA AccountsKept ==
  ASSUME Accounts, \A q \in Callers : Untouched(q), UNCHANGED <<cur, wireVars>>
  PROVE  Accounts'
<1>1. Held' = Held
  BY DEF Held
<1> QED
  BY <1>1, AccountKept DEF Accounts, wireVars

\* A step of one call that reads and writes nothing.
LEMMA AccountsOffWire ==
  ASSUME Accounts, NEW p \in Callers, Account(p)',
         \A q \in Callers \ {p} : Untouched(q),
         Held \subseteq Held', UNCHANGED wireVars
  PROVE  Accounts'
BY AccountKept DEF Accounts, wireVars

\* A step of one call that reads or writes on the connection it holds.
LEMMA AccountsOnWire ==
  ASSUME TypeOK, Ownership, Accounts, NEW p \in Callers, pc[p] \in Holding,
         Account(p)', UNCHANGED cur,
         \A q \in Callers \ {p} :
            /\ pc'[q] = pc[q] /\ req'[q] = req[q] /\ got'[q] = got[q]
            /\ err'[q] = err[q] /\ exec'[q] = exec[q] /\ behind'[q] = behind[q],
         \A c \in Conns \ {cur[p]} : pend'[c] = pend[c] /\ rep'[c] = rep[c],
         rep' \in [Conns -> Seq(Replies \cup {"lost"})]
  PROVE  Accounts'
<1>1. Held' = Held /\ cur[p] \in Held
  BY DEF Held, TypeOK
<1>2. \A q \in Callers \ {p} : Untouched(q)
  BY DEF Untouched, TypeOK, Ownership, Exclusive
<1> QED
  BY <1>1, <1>2, AccountKept DEF Accounts

\* A sequence without elements is empty, and so are the replies to it.
LEMMA NothingPending ==
  ASSUME TypeOK, NEW c \in Conns
  PROVE  /\ Len(pend[c]) \in Nat /\ Len(rep[c]) \in Nat
         /\ DOMAIN pend[c] = 1..Len(pend[c])
         /\ pend[c] = <<>> <=> Len(pend[c]) = 0
         /\ pend[c] = <<>> => rep[c] = <<>> /\ Len(rep[c]) = 0
<1>1. pend[c] \in Seq(CmdIds) /\ rep[c] \in Seq(Unread) /\ Len(rep[c]) <= Len(pend[c])
  BY DEF TypeOK
<1> QED
  BY <1>1, LenProperties, EmptySeq

\* A call that is reading is owed what it has not read.
LEMMA ReadingIsOwed ==
  ASSUME NEW p \in Callers, Account(p), pc[p] = "read"
  PROVE  Owed(p)
BY DEF Account, Owed

\* Taking the first command and its reply off the wire.
LEMMA TailsShrink ==
  ASSUME TypeOK, NEW c \in Conns, rep[c] # <<>>
  PROVE  /\ Len(rep[c]) \in Nat \ {0} /\ Len(pend[c]) \in Nat \ {0}
         /\ Len(Tail(rep[c])) = Len(rep[c]) - 1
         /\ Len(Tail(pend[c])) = Len(pend[c]) - 1
         /\ Len(pend[c]) = 1 => Tail(pend[c]) = <<>>
         /\ \A i \in DOMAIN Tail(pend[c]) :
              /\ i \in Nat /\ i + 1 \in DOMAIN pend[c]
              /\ Tail(pend[c])[i] = pend[c][i + 1]
<1>1. /\ Len(rep[c]) \in Nat \ {0} /\ Len(pend[c]) \in Nat \ {0}
      /\ pend[c] # <<>> /\ DOMAIN pend[c] = 1..Len(pend[c])
  BY NothingPending, EmptySeq DEF TypeOK
<1>2. Len(Tail(rep[c])) = Len(rep[c]) - 1
  BY HeadTailProperties DEF TypeOK
<1>3. /\ Tail(pend[c]) \in Seq(CmdIds) /\ Len(Tail(pend[c])) = Len(pend[c]) - 1
      /\ \A i \in 1..Len(Tail(pend[c])) : Tail(pend[c])[i] = pend[c][i + 1]
  BY <1>1, HeadTailProperties DEF TypeOK
<1>4. DOMAIN Tail(pend[c]) = 1..(Len(pend[c]) - 1)
  BY <1>3, LenProperties
<1>5. Len(pend[c]) = 1 => Tail(pend[c]) = <<>>
  <2> DEFINE t == Tail(pend[c])
  <2> SUFFICES ASSUME Len(pend[c]) = 1 PROVE t = <<>>
    OBVIOUS
  <2>1. t \in Seq(CmdIds) /\ Len(t) = 0
    BY <1>3
  <2> HIDE DEF t
  <2> QED
    BY <2>1, EmptySeq
<1> QED
  BY <1>1, <1>2, <1>3, <1>4, <1>5

\* The command behind the one just answered.
LEMMA NextInLine == \A g, i \in Nat : g + (i + 1) = (g + 1) + i
OBVIOUS

\* What a call that has read g of n replies, with r more at hand, has after one more.
LEMMA OneRead ==
  \A g, n, r \in Nat : /\ g + r = (g + 1) + (r - 1)
                       /\ (n - g) - 1 = n - (g + 1)
                       /\ (g + 1) + (n - (g + 1)) <= n
OBVIOUS

\* A call that has read g of n replies, of l commands on their way r answered.
LEMMA RestOfCall ==
  \A g, l, n, r \in Nat : g + l <= n => (g + r) + (l - r) <= n
OBVIOUS

\* A call that has read g of n replies: the server comes to one command more.
LEMMA OneServed ==
  \A g, l, n, r \in Nat : r < l /\ g + l <= n => g + (r + 1) = (g + r) + 1 /\ g + r < n
OBVIOUS

\* A call of which e of n commands have run and b are left behind: one more runs.
LEMMA OneServedLate ==
  \A b, e, n \in Nat : e + b <= n => /\ (e + 1) + (b - 1) <= n
                                     /\ (b # 0 => e < n)
OBVIOUS

\* The commands behind those the server has come to.
LEMMA PastTheAnswered == \A n, r \in Nat : \A i \in 1..(n - r) : r + i \in 1..n
OBVIOUS

LEMMA AccountsInit == Init => Accounts
<1> SUFFICES ASSUME Init PROVE Accounts
  OBVIOUS
<1>1. rep \in [Conns -> Seq(Replies \cup {"lost"})] /\ \A c \in Conns : pend[c] = <<>>
  BY EmptySeq DEF Init
<1>2. ASSUME NEW p \in Callers PROVE Account(p)
  BY <1>2 DEF Init, Account
<1> QED
  BY <1>1, <1>2 DEF Accounts

\* The server comes to an AUTH ...
ServesAuth(p) == exec' = exec /\ (pc[p] = "authread" \/ OwesAuth(p))

\* ... or to the next command of a call that is under way.
ServesNext(p) ==
  /\ OwesReplies(p) /\ pc[p] # "authread"
  /\ Len(exec[p]) < req[p].n
  /\ exec' = [exec EXCEPT ![p] = Append(exec[p], Len(exec[p]) + 1)]

Serves(p, c) ==
  /\ cur[p] = c /\ pc[p] \in {"authread", "read", "stop", "drop"}
  /\ pc[p] \in {"stop", "drop"} => ~Succeeded(p)
  /\ ServesAuth(p) \/ ServesNext(p)

\* What the server executes is on a connection some call holds.
LEMMA ServesACall ==
  ASSUME TypeOK, Accounts, NEW c \in Conns, Serve(c)
  PROVE  \E p \in Callers : Serves(p, c)
<1> DEFINE k == Len(rep[c]) + 1
<1>1. /\ k \in DOMAIN pend[c] /\ pend[c] # <<>> /\ Len(rep[c]) < Len(pend[c])
      /\ Len(rep[c]) \in Nat /\ Len(pend[c]) \in Nat /\ k \in Nat \ {0}
      /\ Executes(pend[c][k])
  BY NothingPending DEF Serve
<1>2. c \in Held
  BY <1>1 DEF Accounts
<1>3. PICK p \in Callers : cur[p] = c /\ pc[p] \in Holding
  BY <1>2, ConfigAssumption DEF Held, TypeOK
<1>4. Account(p) /\ pc[p] \in {"authread", "read", "stop", "drop"}
  BY <1>1, <1>3 DEF Accounts, Account, Holding
<1>5. pc[p] \in {"stop", "drop"} => ~Succeeded(p)
  BY <1>1, <1>3, <1>4 DEF Account
<1>6. ASSUME pend[c][k] = Cmd(p, 0) PROVE exec' = exec
  BY <1>1, <1>6 DEF Executes, Cmd
<1>7. CASE pc[p] = "authread"
  <2>1. pend[c][k] = Cmd(p, 0)
    BY <1>1, <1>3, <1>4, <1>7 DEF Account
  <2>2. ServesAuth(p)
    BY <1>6, <1>7, <2>1 DEF ServesAuth
  <2> QED
    BY <1>3, <1>4, <1>5, <2>2 DEF Serves
<1>8. CASE pc[p] # "authread" /\ OwesAuth(p)
  <2>1. pend[c][k] = Cmd(p, 0)
    BY <1>1, <1>3, <1>8 DEF OwesAuth
  <2>2. ServesAuth(p)
    BY <1>6, <1>8, <2>1 DEF ServesAuth
  <2> QED
    BY <1>3, <1>4, <1>5, <2>2 DEF Serves
<1>9. CASE pc[p] # "authread" /\ OwesReplies(p)
  <2>1. /\ pend[c][k] = <<p, got[p] + k>> /\ Len(exec[p]) = got[p] + Len(rep[c])
        /\ got[p] + Len(pend[c]) <= req[p].n
        /\ got[p] \in Nat /\ req[p].n \in Nat
    BY <1>1, <1>3, <1>9, RequestIsTyped DEF OwesReplies, Cmd, TypeOK
  <2>2. got[p] + k = Len(exec[p]) + 1 /\ Len(exec[p]) < req[p].n
    <3> DEFINE g == got[p]
               l == Len(pend[c])
               n == req[p].n
               r == Len(rep[c])
    <3>1. g \in Nat /\ l \in Nat /\ n \in Nat /\ r \in Nat /\ r < l /\ g + l <= n
      BY <1>1, <2>1
    <3>2. Len(exec[p]) = g + r /\ g + k = g + (r + 1)
      BY <2>1
    <3> HIDE DEF g, l, n, r, k
    <3>3. g + (r + 1) = (g + r) + 1 /\ g + r < n
      BY <3>1, OneServed
    <3>4. g + k = Len(exec[p]) + 1 /\ Len(exec[p]) < n
      BY <3>2, <3>3
    <3> QED
      BY <3>4 DEF g, n
  <2>3. pend[c][k][1] = p /\ pend[c][k][2] = Len(exec[p]) + 1 /\ Len(exec[p]) + 1 # 0
    BY <1>1, <2>1, <2>2
  <2>4. ServesNext(p)
    BY <1>1, <1>9, <2>2, <2>3 DEF ServesNext, Executes
  <2> QED
    BY <1>3, <1>4, <1>5, <2>4 DEF Serves
<1> QED
  BY <1>4, <1>7, <1>8, <1>9, ReadingIsOwed DEF Account, Owed

\* The server comes to what a call has left behind: its next command.
LEMMA ServesLate ==
  ASSUME TypeOK, Accounts, NEW p \in Callers, ServeLate(p)
  PROVE  /\ Len(exec[p]) < req[p].n
         /\ exec' = [exec EXCEPT ![p] = Append(exec[p], Len(exec[p]) + 1)]
         /\ Len(Append(exec[p], Len(exec[p]) + 1)) = Len(exec[p]) + 1
         /\ Len(Tail(behind[p])) = Len(behind[p]) - 1
         /\ Len(exec[p]) \in Nat /\ Len(behind[p]) \in Nat \ {0}
         /\ \A i \in DOMAIN Tail(behind[p]) :
              /\ i \in Nat /\ i + 1 \in DOMAIN behind[p]
              /\ Tail(behind[p])[i] = behind[p][i + 1]
<1>1. /\ behind[p] \in Seq(CmdIds) /\ exec[p] \in Seq(Nat) /\ behind[p] # <<>>
      /\ Executes(Head(behind[p])) /\ LeftBehind(p)
  BY DEF ServeLate, TypeOK, Accounts, Account
<1>2. /\ Len(behind[p]) \in Nat \ {0} /\ DOMAIN behind[p] = 1..Len(behind[p])
      /\ Len(exec[p]) \in Nat
  BY <1>1, LenProperties, EmptySeq
<1>3. Head(behind[p]) = behind[p][1] /\ 1 \in DOMAIN behind[p]
  BY <1>1, <1>2
<1>4. Head(behind[p]) = <<p, Len(exec[p]) + 1>>
  BY <1>1, <1>3 DEF LeftBehind, Cmd
<1>5. exec' = [exec EXCEPT ![p] = Append(exec[p], Len(exec[p]) + 1)]
  <2> DEFINE cmd == Head(behind[p])
  <2>1. cmd[1] = p /\ cmd[2] = Len(exec[p]) + 1 /\ cmd[2] # 0
    BY <1>2, <1>4
  <2>2. Executes(cmd)
    BY <1>1
  <2> HIDE DEF cmd
  <2> QED
    BY <2>1, <2>2 DEF Executes
<1>6. Len(exec[p]) < req[p].n
  <2>1. Len(exec[p]) + Len(behind[p]) <= req[p].n /\ req[p].n \in Nat
    BY <1>1, RequestIsTyped DEF LeftBehind, TypeOK
  <2> QED
    <3> DEFINE e == Len(exec[p])
               b == Len(behind[p])
               n == req[p].n
    <3>1. e \in Nat /\ b \in Nat /\ b # 0 /\ n \in Nat /\ e + b <= n
      BY <1>2, <2>1
    <3> HIDE DEF e, b, n
    <3>2. e < n
      BY <3>1, OneServedLate
    <3> QED
      BY <3>2 DEF e, n
<1>7. Len(Append(exec[p], Len(exec[p]) + 1)) = Len(exec[p]) + 1
  BY <1>1, <1>2, AppendProperties
<1>8. /\ Tail(behind[p]) \in Seq(CmdIds) /\ Len(Tail(behind[p])) = Len(behind[p]) - 1
      /\ \A i \in 1..Len(Tail(behind[p])) : Tail(behind[p])[i] = behind[p][i + 1]
  BY <1>1, HeadTailProperties
<1>9. DOMAIN Tail(behind[p]) = 1..(Len(behind[p]) - 1)
  BY <1>8, LenProperties
<1> QED
  BY <1>2, <1>5, <1>6, <1>7, <1>8, <1>9

LEMMA AccountsStep ==
  ASSUME "nested" \notin Replies
  PROVE  TypeOK /\ TypeOK' /\ Ownership /\ Accounts /\ [Next]_vars => Accounts'
<1> SUFFICES ASSUME TypeOK, TypeOK', Ownership, Accounts, [Next]_vars PROVE Accounts'
  OBVIOUS
<1> USE DEF Goto
<1>1. ASSUME NEW p \in Callers, Cancel(p) PROVE Accounts'
  BY <1>1, AccountsKept DEF Cancel, Untouched, wireVars
<1>2. ASSUME NEW p \in Callers, FireWatch(p) PROVE Accounts'
  BY <1>2, AccountsKept DEF FireWatch, Untouched, callVars, wireVars
<1>3. ASSUME NEW c \in Conns, CloseDoomed(c) PROVE Accounts'
  BY <1>3, AccountsKept DEF CloseDoomed, Untouched, callVars, wireVars
<1>4. ASSUME NEW c \in Conns, CloseReaped(c) PROVE Accounts'
  BY <1>4, AccountsKept DEF CloseReaped, Untouched, callVars, wireVars
<1>5. ASSUME NEW c \in Conns, Expire(c) PROVE Accounts'
  BY <1>5, AccountsKept DEF Expire, Untouched, callVars, wireVars
<1>6. ASSUME NEW c \in Conns, Hangup(c) PROVE Accounts'
  BY <1>6, AccountsKept DEF Hangup, Untouched, callVars, wireVars
<1>7. ASSUME Close PROVE Accounts'
  BY <1>7, AccountsKept DEF Close, Untouched, callVars, wireVars
<1>8. ASSUME UNCHANGED vars PROVE Accounts'
  BY <1>8, AccountsKept DEF vars, Untouched, callVars, wireVars
<1>9. ASSUME NEW p \in Callers, Begin(p) PROVE Accounts'
  <2>1. Held \subseteq Held'
    BY <1>9 DEF Begin, Held
  <2>2. \A q \in Callers \ {p} : Untouched(q)
    BY <1>9 DEF Begin, Untouched, TypeOK, poolVars, wireVars
  <2>3. Account(p)'
    BY <1>9 DEF Begin, TypeOK, Accounts, Account
  <2> QED
    BY <1>9, <2>1, <2>2, <2>3, AccountsOffWire DEF Begin, wireVars
<1>10. ASSUME NEW p \in Callers, Acquire(p) PROVE Accounts'
  <2>1. Held \subseteq Held'
    BY <1>10 DEF Acquire, Held
  <2>2. \A q \in Callers \ {p} : Untouched(q)
    BY <1>10 DEF Acquire, Untouched, TypeOK, callVars, wireVars
  <2>3. Account(p)'
    BY <1>10 DEF Acquire, TypeOK, Accounts, Account, callVars
  <2> QED
    BY <1>10, <2>1, <2>2, <2>3, AccountsOffWire DEF Acquire, wireVars
<1>11. ASSUME NEW p \in Callers, AcquireDone(p) PROVE Accounts'
  <2>1. Held \subseteq Held'
    BY <1>11 DEF AcquireDone, Held
  <2>2. \A q \in Callers \ {p} : Untouched(q)
    BY <1>11 DEF AcquireDone, Untouched, TypeOK, Forget, wireVars, poolVars
  <2>3. Account(p)'
    <3>1. pc[p] = "acquire" /\ pc'[p] = "ready" /\ Account(p)
      BY <1>11 DEF AcquireDone, TypeOK, Accounts
    <3>2. behind[p] = <<>> /\ behind'[p] = <<>>
      BY <1>11, <3>1 DEF AcquireDone, Forget, Account
    <3>3. req'[p] = NoRequest /\ err'[p] = "nil" /\ got'[p] = 0 /\ exec'[p] = <<>>
      BY <1>11, <3>2 DEF AcquireDone, Forget, TypeOK
    <3> QED
      BY <3>1, <3>2, <3>3 DEF Account
  <2> QED
    BY <1>11, <2>1, <2>2, <2>3, AccountsOffWire DEF AcquireDone, wireVars
<1>12. ASSUME NEW p \in Callers, GetClosed(p) PROVE Accounts'
  <2>1. Held \subseteq Held'
    BY <1>12 DEF GetClosed, Held
  <2>2. \A q \in Callers \ {p} : Untouched(q)
    BY <1>12 DEF GetClosed, Untouched, TypeOK, callVars, wireVars
  <2>3. Account(p)'
    BY <1>12 DEF GetClosed, TypeOK, Accounts, Account, InDoubt, callVars
  <2> QED
    BY <1>12, <2>1, <2>2, <2>3, AccountsOffWire DEF GetClosed, wireVars
<1>13. ASSUME NEW p \in Callers, GetIdle(p) PROVE Accounts'
  <2>1. /\ Held \subseteq Held'
        /\ idle[Len(idle)] \in Conns /\ idle[Len(idle)] \notin Held
    <3>1. cur[p] = None
      BY <1>13 DEF GetIdle, TypeOK, Holding
    <3>2. idle[Len(idle)] \in Pooled /\ idle[Len(idle)] \in Conns
      BY <1>13, PooledFront, FrontIsSeq DEF GetIdle, TypeOK, Ownership, Exclusive
    <3>3. cur' = [cur EXCEPT ![p] = idle[Len(idle)]]
      BY <1>13 DEF GetIdle
    <3>4. Held' = Held \cup {idle[Len(idle)]}
      BY <3>1, <3>2, <3>3, HeldAdd
    <3> QED
      BY <3>2, <3>4 DEF Ownership, Exclusive
  <2>2. \A q \in Callers \ {p} : Untouched(q)
    BY <1>13 DEF GetIdle, Untouched, TypeOK, callVars, wireVars
  <2>3. cur'[p] = idle[Len(idle)] /\ pend[cur'[p]] = <<>>
    <3>1. cur'[p] = idle[Len(idle)]
      BY <1>13 DEF GetIdle, TypeOK
    <3> QED
      BY <2>1, <3>1 DEF Accounts
  <2>4. Account(p)'
    <3>1. pc'[p] = "arm" /\ pc[p] = "get" /\ Account(p)
      BY <1>13 DEF GetIdle, TypeOK, Accounts
    <3>2. pend'[cur'[p]] = <<>>
      BY <1>13, <2>3 DEF GetIdle, wireVars
    <3>3. UNCHANGED <<req, got, exec, err, behind>>
      BY <1>13 DEF GetIdle, callVars
    <3> QED
      BY <3>1, <3>2, <3>3 DEF Account
  <2> QED
    BY <1>13, <2>1, <2>2, <2>4, AccountsOffWire DEF GetIdle, wireVars
<1>14. ASSUME NEW p \in Callers, GetNone(p) PROVE Accounts'
  <2>1. Held \subseteq Held'
    BY <1>14 DEF GetNone, Held
  <2>2. \A q \in Callers \ {p} : Untouched(q)
    BY <1>14 DEF GetNone, Untouched, TypeOK, callVars, wireVars
  <2>3. Account(p)'
    BY <1>14 DEF GetNone, TypeOK, Accounts, Account, callVars
  <2> QED
    BY <1>14, <2>1, <2>2, <2>3, AccountsOffWire DEF GetNone, wireVars
<1>15. ASSUME NEW p \in Callers, DialFail(p) PROVE Accounts'
  <2>1. Held \subseteq Held'
    BY <1>15 DEF DialFail, Held
  <2>2. \A q \in Callers \ {p} : Untouched(q)
    BY <1>15 DEF DialFail, Untouched, TypeOK, callVars, wireVars
  <2>3. Account(p)'
    BY <1>15 DEF DialFail, TypeOK, Accounts, Account, InDoubt, callVars
  <2> QED
    BY <1>15, <2>1, <2>2, <2>3, AccountsOffWire DEF DialFail, wireVars
<1>16. ASSUME NEW p \in Callers, AuthFail(p) PROVE Accounts'
  <2>1. Held \subseteq Held'
    BY <1>16 DEF AuthFail, Held
  <2>2. \A q \in Callers \ {p} : Untouched(q)
    BY <1>16 DEF AuthFail, Untouched, TypeOK, callVars, wireVars
  <2>3. Account(p)'
    <3>1. /\ cur[p] \in Conns /\ pc[p] \in {"auth", "authread"} /\ pc'[p] = "drop"
          /\ err'[p] = "fatal" /\ Account(p)
      BY <1>16 DEF AuthFail, TypeOK, Holding, Accounts
    <3>2. OwesAuth(p)
      BY <3>1, NothingPending DEF Account, OwesAuth
    <3>3. UNCHANGED <<cur, req, got, exec, behind, pend, rep>>
      BY <1>16 DEF AuthFail, callVars, wireVars
    <3>4. Owed(p)'
      BY <3>2, <3>3 DEF Owed, OwesAuth, Cmd
    <3> QED
      BY <3>1, <3>3, <3>4 DEF Account, Succeeded
  <2> QED
    BY <1>16, <2>1, <2>2, <2>3, AccountsOffWire DEF AuthFail, wireVars
<1>17. ASSUME NEW p \in Callers, Arm(p) PROVE Accounts'
  <2>1. Held \subseteq Held'
    BY <1>17 DEF Arm, Held
  <2>2. \A q \in Callers \ {p} : Untouched(q)
    BY <1>17 DEF Arm, Untouched, TypeOK, callVars, wireVars
  <2>3. Account(p)'
    BY <1>17 DEF Arm, TypeOK, Accounts, Account, callVars, wireVars
  <2> QED
    BY <1>17, <2>1, <2>2, <2>3, AccountsOffWire DEF Arm, wireVars
<1>18. ASSUME NEW p \in Callers, ReadFail(p) PROVE Accounts'
  <2>1. Held \subseteq Held'
    BY <1>18 DEF ReadFail, Held
  <2>2. \A q \in Callers \ {p} : Untouched(q)
    BY <1>18 DEF ReadFail, Untouched, TypeOK, callVars, wireVars
  <2>3. Owed(p)
    BY <1>18, ReadingIsOwed DEF ReadFail, Accounts
  <2>4. /\ UNCHANGED <<cur, req, got, exec, behind, pend, rep>>
        /\ pc[p] = "read" /\ pc'[p] = "stop" /\ err'[p] = "fatal"
    BY <1>18 DEF ReadFail, TypeOK, callVars, wireVars
  <2>6. Owed(p)'
    BY <2>3, <2>4 DEF Owed, OwesAuth, OwesReplies, Cmd
  <2>5. Account(p)'
    BY <2>4, <2>6 DEF Accounts, Account, Succeeded
  <2> QED
    BY <1>18, <2>1, <2>2, <2>5, AccountsOffWire DEF ReadFail, wireVars
<1>19. ASSUME NEW p \in Callers, Stop(p) PROVE Accounts'
  <2>1. Held \subseteq Held'
    BY <1>19 DEF Stop, Held
  <2>2. \A q \in Callers \ {p} : Untouched(q)
    BY <1>19 DEF Stop, Untouched, TypeOK, callVars, wireVars
  <2>3. Account(p)'
    <3>1. /\ UNCHANGED <<cur, req, got, exec, behind, pend, rep>>
          /\ pc[p] = "stop" /\ Account(p) /\ cur[p] \in Conns
          /\ err'[p] \in {"ctx", err[p]} /\ err[p] \in Errors
          /\ pc'[p] = IF err'[p] \in {"nil", "server"} THEN "put" ELSE "drop"
      BY <1>19 DEF Stop, Outcome, Reusable, TypeOK, Holding, Accounts, callVars, wireVars
    <3>2. Owed(p)'
      BY <3>1 DEF Account, Owed, OwesAuth, OwesReplies, Cmd
    <3> QED
      BY <3>1, <3>2 DEF Account, Succeeded, Errors
  <2> QED
    BY <1>19, <2>1, <2>2, <2>3, AccountsOffWire DEF Stop, wireVars
<1>20. ASSUME NEW p \in Callers, PutRefused(p) PROVE Accounts'
  <2>1. Held \subseteq Held'
    BY <1>20 DEF PutRefused, Held
  <2>2. \A q \in Callers \ {p} : Untouched(q)
    BY <1>20 DEF PutRefused, Untouched, TypeOK, callVars, wireVars
  <2>3. Account(p)'
    <3>1. /\ UNCHANGED <<cur, req, got, err, exec, behind, pend, rep>>
          /\ pc[p] = "put" /\ pc'[p] = "drop" /\ Account(p) /\ cur[p] \in Conns
      BY <1>20 DEF PutRefused, TypeOK, Holding, Accounts, callVars, wireVars
    <3>2. Owed(p)'
      BY <3>1 DEF Account, Owed, OwesAuth, OwesReplies, Cmd
    <3>3. Len(pend[cur[p]]) = Len(rep[cur[p]])
      BY <3>1, NothingPending DEF Account
    <3> QED
      BY <3>1, <3>2, <3>3 DEF Account
  <2> QED
    BY <1>20, <2>1, <2>2, <2>3, AccountsOffWire DEF PutRefused, wireVars
<1>21. ASSUME NEW p \in Callers, Release(p) PROVE Accounts'
  <2>1. Held \subseteq Held'
    BY <1>21 DEF Release, Held
  <2>2. \A q \in Callers \ {p} : Untouched(q)
    BY <1>21 DEF Release, Untouched, TypeOK, Forget, wireVars, poolVars
  <2>3. Account(p)'
    <3>1. /\ pc[p] = "release" /\ pc'[p] = "ready" /\ Account(p) /\ got'[p] = 0
          /\ behind'[p] = behind[p]
      BY <1>21 DEF Release, Forget, TypeOK, Accounts
    <3>2. CASE behind[p] = <<>>
      <4>1. req'[p] = NoRequest /\ err'[p] = "nil" /\ exec'[p] = <<>>
        BY <1>21, <3>2 DEF Release, Forget, TypeOK
      <4> QED
        BY <3>1, <3>2, <4>1 DEF Account
    <3>3. CASE behind[p] # <<>>
      <4>1. UNCHANGED <<req, err, exec>>
        BY <1>21, <3>3 DEF Release, Forget
      <4>2. InDoubt(p)' /\ LeftBehind(p)'
        BY <3>1, <3>3, <4>1 DEF Account, InDoubt, LeftBehind, Cmd
      <4>3. req[p] # NoRequest
        BY <3>1, InputAssumption DEF Account, RequestType, NoRequest
      <4> QED
        BY <3>1, <4>1, <4>2, <4>3 DEF Account, InDoubt
    <3> QED
      BY <3>2, <3>3
  <2> QED
    BY <1>21, <2>1, <2>2, <2>3, AccountsOffWire DEF Release, wireVars
<1>22. ASSUME NEW p \in Callers, Put(p) PROVE Accounts'
  <2>1. /\ cur[p] \in Conns /\ cur[p] \in Held /\ pend[cur[p]] = <<>>
        /\ pc[p] = "put" /\ pc'[p] = "release" /\ Account(p)
    <3>1. pc[p] = "put" /\ pc'[p] = "release" /\ Account(p)
      BY <1>22 DEF Put, TypeOK, Accounts
    <3>2. cur[p] \in Conns /\ cur[p] \in Held
      BY <3>1 DEF TypeOK, Holding, Held
    <3> QED
      BY <3>1, <3>2 DEF Account
  <2>2. /\ UNCHANGED <<req, got, err, exec, behind, pend, rep>>
        /\ cur' = [cur EXCEPT ![p] = None]
    BY <1>22 DEF Put, callVars, wireVars
  <2>3. \A q \in Callers \ {p} : Untouched(q)
    BY <1>22 DEF Put, Untouched, TypeOK, callVars, wireVars
  <2>4. Account(p)'
    BY <2>1, <2>2 DEF Account
  <2>5. Held \subseteq Held' \cup {cur[p]}
    BY <2>2 DEF Held, TypeOK
  <2> QED
    BY <2>1, <2>2, <2>3, <2>4, <2>5, AccountKept DEF Accounts
<1>23. ASSUME NEW p \in Callers, DialOk(p) PROVE Accounts'
  <2>1. PICK c \in Conns : /\ Unused(c)
                           /\ cur' = [cur EXCEPT ![p] = c]
                           /\ pend' = [pend EXCEPT ![c] = <<>>]
                           /\ rep' = [rep EXCEPT ![c] = <<>>]
    BY <1>23 DEF DialOk
  <2>2. /\ pc[p] = "dial" /\ pc'[p] \in {"auth", "arm"} /\ Account(p) /\ cur[p] = None
        /\ UNCHANGED <<req, got, err, exec, behind>>
    <3>1. pc[p] = "dial" /\ UNCHANGED <<req, got, err, exec, behind>>
      BY <1>23 DEF DialOk, callVars
    <3>2. pc' = [pc EXCEPT ![p] = IF Password THEN "auth" ELSE "arm"]
      BY <1>23 DEF DialOk
    <3>3. cur[p] = None
      BY <3>1 DEF TypeOK, Holding
    <3> QED
      BY <3>1, <3>2, <3>3 DEF TypeOK, Accounts
  <2>3. \A q \in Callers \ {p} : Untouched(q)
    BY <1>23, <2>1 DEF DialOk, Untouched, Unused, TypeOK, callVars
  <2>4. cur'[p] = c /\ pend'[c] = <<>>
    BY <2>1 DEF TypeOK
  <2>5. Account(p)'
    BY <2>2, <2>4 DEF Account
  <2>6. rep' \in [Conns -> Seq(Replies \cup {"lost"})]
    BY <2>1, EmptySeq DEF Accounts
  <2>7. Held' = Held \cup {c}
    BY <2>1, <2>2, HeldAdd
  <2>8. \A d \in Conns \ Held' : pend'[d] = <<>>
    BY <2>1, <2>7 DEF Accounts, TypeOK
  <2> QED
    BY <2>3, <2>5, <2>6, <2>8, AccountKept DEF Accounts
<1>24. ASSUME NEW p \in Callers, AuthSend(p) PROVE Accounts'
  <2>1. cur[p] \in Conns /\ pend[cur[p]] = <<>> /\ pc[p] = "auth" /\ Account(p)
    BY <1>24 DEF AuthSend, TypeOK, Holding, Accounts, Account
  <2>2. /\ Len(pend'[cur[p]]) = 1 /\ pend'[cur[p]][1] = Cmd(p, 0)
        /\ \A d \in Conns \ {cur[p]} : pend'[d] = pend[d]
    BY <1>24, <2>1 DEF AuthSend, TypeOK
  <2>3. /\ pc' = [pc EXCEPT ![p] = "authread"]
        /\ UNCHANGED <<cur, req, got, err, exec, behind, rep>>
    BY <1>24 DEF AuthSend, callVars
  <2>4. Account(p)'
    BY <2>1, <2>2, <2>3 DEF TypeOK, Account, Cmd
  <2> QED
    BY <2>1, <2>2, <2>3, <2>4, AccountsOnWire DEF TypeOK, Holding, Accounts
<1>25. ASSUME NEW p \in Callers, AuthRead(p) PROVE Accounts'
  <2>1. /\ cur[p] \in Conns /\ Len(pend[cur[p]]) = 1 /\ rep[cur[p]] # <<>>
        /\ pc[p] = "authread" /\ Account(p)
    <3>1. pc[p] = "authread" /\ Account(p) /\ rep[cur[p]] # <<>>
      BY <1>25 DEF AuthRead, Accounts
    <3> QED
      BY <3>1 DEF TypeOK, Holding, Account
  <2>2. Tail(pend[cur[p]]) = <<>>
    BY <2>1, TailsShrink
  <2>3. /\ pend'[cur[p]] = <<>> /\ rep' \in [Conns -> Seq(Replies \cup {"lost"})]
        /\ \A d \in Conns \ {cur[p]} : pend'[d] = pend[d] /\ rep'[d] = rep[d]
    <3> DEFINE S == Replies \cup {"lost"}
    <3> HIDE DEF S
    <3>1. rep \in [Conns -> Seq(S)] /\ pend \in [Conns -> Seq(CmdIds)]
      BY DEF Accounts, TypeOK, S
    <3>2. /\ pend' = [pend EXCEPT ![cur[p]] = Tail(pend[cur[p]])]
          /\ rep' = [rep EXCEPT ![cur[p]] = Tail(rep[cur[p]])]
      BY <1>25 DEF AuthRead
    <3>3. Tail(rep[cur[p]]) \in Seq(S)
      BY <2>1, <3>1, HeadTailProperties
    <3>4. rep' \in [Conns -> Seq(S)]
      BY <3>1, <3>2, <3>3
    <3> QED
      BY <2>1, <2>2, <3>1, <3>2, <3>4 DEF S
  <2>4. /\ pc' = [pc EXCEPT ![p] = "arm"]
        /\ UNCHANGED <<cur, req, got, err, exec, behind>>
    BY <1>25 DEF AuthRead, callVars
  <2>5. Account(p)'
    BY <2>1, <2>3, <2>4 DEF TypeOK, Account
  <2> QED
    BY <2>1, <2>3, <2>4, <2>5, AccountsOnWire DEF TypeOK, Holding, Accounts
<1>26. ASSUME NEW p \in Callers, SendOk(p) PROVE Accounts'
  <2> DEFINE c == cur[p]
             s == Batch(p, req[p].n)
  <2>1. /\ c \in Conns /\ pend[c] = <<>> /\ rep[c] = <<>> /\ Len(rep[c]) = 0
        /\ got[p] = 0 /\ exec[p] = <<>> /\ req[p].n \in Nat /\ err[p] = "nil"
        /\ req[p] \in Requests /\ pc[p] = "send" /\ behind[p] = <<>>
    BY <1>26, NothingPending, RequestIsTyped DEF SendOk, TypeOK, Holding, Accounts, Account
  <2>2. /\ s \in Seq(CmdIds) /\ Len(s) = req[p].n /\ DOMAIN s = 1..req[p].n
        /\ \A i \in 1..req[p].n : s[i] = Cmd(p, i)
    BY <2>1, BatchIsTyped, LenProperties
  <2>3. pend' = [pend EXCEPT ![c] = s]
    BY <1>26, <2>1, <2>2, ConcatEmptySeq DEF SendOk
  <2> HIDE DEF s
  <2>4. pend'[c] = s
    BY <2>1, <2>3 DEF TypeOK
  <2>5. /\ pc' = [pc EXCEPT ![p] = "read"]
        /\ UNCHANGED <<cur, req, got, err, exec, behind, rep>>
    BY <1>26 DEF SendOk, callVars
  <2>6. OwesReplies(p)'
    BY <2>1, <2>2, <2>4, <2>5 DEF OwesReplies, Cmd
  <2>7. Account(p)'
    BY <2>1, <2>2, <2>4, <2>5, <2>6 DEF TypeOK, Account
  <2> QED
    BY <2>1, <2>3, <2>5, <2>7, AccountsOnWire DEF TypeOK, Holding, Accounts
<1>27. ASSUME NEW p \in Callers, SendFail(p) PROVE Accounts'
  <2> DEFINE c == cur[p]
  <2>1. /\ c \in Conns /\ pend[c] = <<>> /\ rep[c] = <<>> /\ Len(rep[c]) = 0
        /\ got[p] = 0 /\ exec[p] = <<>> /\ req[p].n \in Nat /\ req[p] \in Requests
        /\ pc[p] = "send" /\ behind[p] = <<>>
    BY <1>27, NothingPending, RequestIsTyped DEF SendFail, TypeOK, Holding, Accounts, Account
  <2>2. PICK k \in 0..(req[p].n - 1) : pend' = [pend EXCEPT ![c] = pend[c] \o Batch(p, k)]
    BY <1>27 DEF SendFail
  <2> DEFINE s == Batch(p, k)
  <2>3. k \in Nat /\ k <= req[p].n
    BY <2>1
  <2>4. /\ s \in Seq(CmdIds) /\ Len(s) = k /\ DOMAIN s = 1..k
        /\ \A i \in 1..k : s[i] = Cmd(p, i)
    BY <2>3, BatchIsTyped, LenProperties
  <2>5. pend' = [pend EXCEPT ![c] = s]
    BY <2>1, <2>2, <2>4, ConcatEmptySeq
  <2> HIDE DEF s
  <2>6. pend'[c] = s
    BY <2>1, <2>5 DEF TypeOK
  <2>7. /\ pc' = [pc EXCEPT ![p] = "stop"] /\ err' = [err EXCEPT ![p] = "fatal"]
        /\ UNCHANGED <<cur, req, got, exec, behind, rep>>
    BY <1>27 DEF SendFail, callVars
  <2>8. OwesReplies(p)'
    BY <2>1, <2>3, <2>4, <2>6, <2>7 DEF OwesReplies, Cmd
  <2>9. Account(p)'
    BY <2>1, <2>7, <2>8 DEF TypeOK, Account, Owed, Succeeded
  <2> QED
    BY <2>1, <2>5, <2>7, <2>9, AccountsOnWire DEF TypeOK, Holding, Accounts
<1>28. ASSUME NEW p \in Callers, Read(p) PROVE Accounts'
  <2> DEFINE c == cur[p]
  <2>1. /\ c \in Conns /\ rep[c] # <<>> /\ req[p].n \in Nat /\ got[p] \in Nat
        /\ Account(p) /\ pc[p] = "read" /\ req[p] \in Requests /\ behind[p] = <<>>
    <3>1. pc[p] = "read" /\ rep[c] # <<>> /\ Account(p)
      BY <1>28 DEF Read, Accounts
    <3>2. c \in Conns /\ req[p].n \in Nat /\ got[p] \in Nat
      BY <3>1, RequestIsTyped DEF TypeOK, Holding
    <3>3. req[p] \in Requests /\ behind[p] = <<>>
      BY <3>1 DEF Account
    <3> QED
      BY <3>1, <3>2, <3>3
  <2>2. Head(rep[c]) # "nested"
    BY <2>1, HeadTailProperties DEF Accounts
  <2>3. /\ pend' = [pend EXCEPT ![c] = Tail(pend[c])]
        /\ rep' = [rep EXCEPT ![c] = Tail(rep[c])]
        /\ got' = [got EXCEPT ![p] = got[p] + 1]
        /\ UNCHANGED <<cur, req, exec, behind>>
    BY <1>28, <2>2 DEF Read, Consume
  <2>4. /\ rep' \in [Conns -> Seq(Replies \cup {"lost"})]
        /\ pend'[c] = Tail(pend[c]) /\ rep'[c] = Tail(rep[c]) /\ got'[p] = got[p] + 1
    <3> DEFINE S == Replies \cup {"lost"}
    <3> HIDE DEF S
    <3>1. rep \in [Conns -> Seq(S)]
      BY DEF Accounts, S
    <3>2. rep' \in [Conns -> Seq(S)] /\ rep'[c] = Tail(rep[c])
      BY <2>1, <2>3, <3>1, HeadTailProperties
    <3>3. pend'[c] = Tail(pend[c]) /\ got'[p] = got[p] + 1
      BY <2>1, <2>3 DEF TypeOK
    <3> QED
      BY <3>2, <3>3 DEF S
  <2>5. /\ Len(rep'[c]) = Len(rep[c]) - 1 /\ Len(pend'[c]) = Len(pend[c]) - 1
        /\ \A i \in DOMAIN pend'[c] : i \in Nat /\ pend'[c][i] = pend[c][i + 1]
                                                /\ i + 1 \in DOMAIN pend[c]
        /\ Len(rep[c]) \in Nat \ {0} /\ Len(pend[c]) \in Nat
    BY <2>1, <2>4, TailsShrink
  <2>6. /\ Len(exec[p]) = got[p] + Len(rep[c]) /\ Len(pend[c]) = req[p].n - got[p]
        /\ \A i \in DOMAIN pend[c] : pend[c][i] = Cmd(p, got[p] + i)
    BY <2>1 DEF Account, OwesReplies
  <2>7. OwesReplies(p)' /\ Len(pend'[c]) = req'[p].n - got'[p]
    <3>1. /\ Len(exec'[p]) = got'[p] + Len(rep'[c]) /\ Len(pend'[c]) = req'[p].n - got'[p]
          /\ got'[p] + Len(pend'[c]) <= req'[p].n
      <4>1. /\ req'[p].n = req[p].n /\ exec'[p] = exec[p] /\ got'[p] = got[p] + 1
            /\ Len(rep'[c]) = Len(rep[c]) - 1 /\ Len(pend'[c]) = Len(pend[c]) - 1
            /\ Len(exec[p]) = got[p] + Len(rep[c]) /\ Len(pend[c]) = req[p].n - got[p]
            /\ got[p] \in Nat /\ req[p].n \in Nat /\ Len(rep[c]) \in Nat
        BY <2>1, <2>3, <2>4, <2>5, <2>6
      <4> DEFINE g == got[p]
                 n == req[p].n
                 r == Len(rep[c])
      <4>2. g \in Nat /\ n \in Nat /\ r \in Nat
        BY <4>1
      <4> HIDE DEF g, n, r
      <4>3. /\ g + r = (g + 1) + (r - 1) /\ (n - g) - 1 = n - (g + 1)
            /\ (g + 1) + (n - (g + 1)) <= n
        BY <4>2, OneRead
      <4>4. /\ Len(exec'[p]) = g + r /\ got'[p] = g + 1 /\ Len(rep'[c]) = r - 1
            /\ Len(pend'[c]) = (n - g) - 1 /\ req'[p].n = n
        BY <4>1 DEF g, n, r
      <4> QED
        BY ONLY <4>3, <4>4
    <3>2. ASSUME NEW i \in DOMAIN pend'[c] PROVE pend'[c][i] = Cmd(p, got'[p] + i)
      <4>1. i \in Nat /\ pend'[c][i] = Cmd(p, got[p] + (i + 1))
        BY <2>5, <2>6
      <4>2. got[p] + (i + 1) = (got[p] + 1) + i
        BY <2>1, <4>1, NextInLine
      <4>3. got[p] + (i + 1) = got'[p] + i
        BY <2>4, <4>2
      <4> QED
        BY <4>1, <4>3
    <3> QED
      BY <2>3, <3>1, <3>2 DEF OwesReplies, Cmd
  <2>8. err'[p] \in {"nil", "server", "fatal", "ctx"}
    BY <1>28, <2>1 DEF Read, TypeOK, Account, Errors
  <2>9. Account(p)'
    <3>1. CASE Drained(p)
      <4>1. pc'[p] = "stop" /\ got'[p] = req'[p].n /\ Len(pend[c]) = 1
        <5>1. got[p] + 1 = req[p].n
          BY <3>1 DEF Drained
        <5>2. pc'[p] = "stop"
          BY <1>28, <3>1 DEF Read, TypeOK
        <5>3. req'[p].n = req[p].n
          BY <2>3
        <5> QED
          BY ONLY <2>1, <2>4, <2>6, <5>1, <5>2, <5>3
      <4>2. pend'[c] = <<>>
        BY <2>1, <2>4, <4>1, TailsShrink
      <4>3. Len(exec'[p]) = req'[p].n
        <5>1. Len(rep[c]) = 1
          BY <2>1, <2>5, <4>1 DEF TypeOK
        <5> QED
          BY <2>3, <2>4, <2>6, <4>1, <5>1
      <4> QED
        BY <2>1, <2>3, <2>7, <2>8, <4>1, <4>2, <4>3 DEF Account, Owed
    <3>2. CASE ~Drained(p)
      <4>1. pc'[p] = "read"
        BY <1>28, <3>2 DEF Read, TypeOK
      <4> QED
        BY <2>1, <2>3, <2>7, <2>8, <4>1 DEF Account
    <3> QED
      BY <3>1, <3>2
  <2> QED
    BY <1>28, <2>1, <2>3, <2>4, <2>9, AccountsOnWire DEF Read, TypeOK, Holding, poolVars
<1>29. ASSUME NEW p \in Callers, Drop(p) PROVE Accounts'
  <2> DEFINE c == cur[p]
  <2>1. /\ c \in Conns /\ c \in Held /\ pc[p] = "drop" /\ pc'[p] = "release" /\ Account(p)
    BY <1>29 DEF Drop, TypeOK, Holding, Held, Accounts
  <2>2. /\ UNCHANGED <<req, got, err, exec>> /\ behind'[p] = LeftOn(c)
        /\ cur' = [cur EXCEPT ![p] = None]
        /\ pend' = [pend EXCEPT ![c] = <<>>] /\ rep' = [rep EXCEPT ![c] = <<>>]
    BY <1>29 DEF Drop, TypeOK
  <2>3. \A q \in Callers \ {p} : Untouched(q)
    BY <1>29, <2>1 DEF Drop, Untouched, TypeOK, Ownership, Exclusive
  <2>4. behind'[p] # <<>> => InDoubt(p)' /\ LeftBehind(p)'
    <3> SUFFICES ASSUME behind'[p] # <<>> PROVE InDoubt(p)' /\ LeftBehind(p)'
      OBVIOUS
    <3>1. /\ LeftOn(c) # <<>> /\ Len(pend[c]) # Len(rep[c])
          /\ LeftOn(c) \in Seq(CmdIds)
          /\ Len(LeftOn(c)) = Len(pend[c]) - Len(rep[c])
          /\ \A i \in 1..(Len(pend[c]) - Len(rep[c])) :
               LeftOn(c)[i] = pend[c][Len(rep[c]) + i]
      BY <2>1, <2>2, LeftOnIsTyped
    <3>2. InDoubt(p)'
      BY <2>1, <2>2, <3>1 DEF Account, Succeeded, InDoubt, Errors, TypeOK
    <3>3. /\ Len(pend[c]) \in Nat /\ Len(rep[c]) \in Nat /\ DOMAIN pend[c] = 1..Len(pend[c])
          /\ got[p] \in Nat /\ req[p].n \in Nat
      BY <2>1, NothingPending, RequestIsTyped DEF TypeOK
    <3>4. OwesReplies(p)
      <4>1. ~OwesAuth(p)
        <5> SUFFICES ASSUME OwesAuth(p) PROVE LeftOn(c) = <<>>
          BY <3>1
        <5>1. CASE pend[c] = <<>>
          BY <2>1, <3>1, <5>1, NothingPending
        <5>2. CASE pend[c] # <<>>
          <6>1. Head(pend[c]) = pend[c][1] /\ 1 \in DOMAIN pend[c]
            BY <2>1, <3>3, <5>2, NothingPending
          <6>2. Head(pend[c])[2] = 0
            BY <6>1 DEF OwesAuth, Cmd
          <6> QED
            BY <5>2, <6>2 DEF LeftOn
        <5> QED
          BY <5>1, <5>2
      <4> QED
        BY <2>1, <4>1 DEF Account, Owed
    <3>5. DOMAIN LeftOn(c) = 1..(Len(pend[c]) - Len(rep[c]))
      BY <3>1, LenProperties
    <3>6. ASSUME NEW i \in DOMAIN LeftOn(c)
          PROVE  LeftOn(c)[i] = Cmd(p, Len(exec[p]) + i)
      <4>1. LeftOn(c)[i] = pend[c][Len(rep[c]) + i] /\ Len(rep[c]) + i \in DOMAIN pend[c]
        BY <3>1, <3>3, <3>5, PastTheAnswered
      <4>2. LeftOn(c)[i] = Cmd(p, got[p] + (Len(rep[c]) + i))
        BY <3>4, <4>1 DEF OwesReplies
      <4>3. got[p] + (Len(rep[c]) + i) = Len(exec[p]) + i
        BY <3>3, <3>4, <3>5 DEF OwesReplies
      <4> QED
        BY <4>2, <4>3
    <3>7. Len(exec[p]) + Len(LeftOn(c)) <= req[p].n
      <4>1. /\ Len(exec[p]) = got[p] + Len(rep[c])
            /\ got[p] + Len(pend[c]) <= req[p].n
        BY <3>4 DEF OwesReplies
      <4>2. Len(LeftOn(c)) = Len(pend[c]) - Len(rep[c])
        BY <3>1
      <4> QED
        BY ONLY <3>3, <4>1, <4>2, RestOfCall
    <3> QED
      BY <2>2, <3>2, <3>6, <3>7 DEF LeftBehind, Cmd
  <2>5. Account(p)'
    BY <2>1, <2>2, <2>4 DEF Account
  <2>6. rep' \in [Conns -> Seq(Replies \cup {"lost"})]
    BY <2>2, EmptySeq DEF Accounts
  <2>7. \A d \in Conns \ Held' : pend'[d] = <<>>
    <3>1. Held \subseteq Held' \cup {c}
      BY <2>2 DEF Held, TypeOK
    <3> QED
      BY <2>1, <2>2, <3>1 DEF Accounts, TypeOK
  <2> QED
    BY <2>3, <2>5, <2>6, <2>7, AccountKept DEF Accounts
<1>30. ASSUME NEW c \in Conns, Serve(c) PROVE Accounts'
  <2>1. PICK p \in Callers : Serves(p, c)
    BY <1>30, ServesACall
  <2>2. /\ cur[p] = c /\ pc[p] \in {"authread", "read", "stop", "drop"} /\ pc[p] \in Holding
        /\ Account(p) /\ (pc[p] \in {"stop", "drop"} => ~Succeeded(p)) /\ behind[p] = <<>>
    BY <2>1 DEF Serves, Accounts, Account, Holding
  <2>3. PICK kind \in Replies \cup {"lost"} : rep' = [rep EXCEPT ![c] = Append(rep[c], kind)]
    BY <1>30 DEF Serve
  <2>4. /\ rep' \in [Conns -> Seq(Replies \cup {"lost"})] /\ Len(rep'[c]) = Len(rep[c]) + 1
        /\ \A d \in Conns \ {c} : rep'[d] = rep[d]
    <3> DEFINE S == Replies \cup {"lost"}
    <3> HIDE DEF S
    <3>1. rep \in [Conns -> Seq(S)] /\ kind \in S
      BY DEF Accounts, S
    <3>2. Append(rep[c], kind) \in Seq(S) /\ Len(Append(rep[c], kind)) = Len(rep[c]) + 1
      BY <3>1, AppendProperties
    <3> QED
      BY <2>3, <3>1, <3>2 DEF S
  <2>5. UNCHANGED <<pc, cur, err, req, got, behind, pend>>
    BY <1>30 DEF Serve
  <2>6. CASE ServesAuth(p)
    <3>1. exec' = exec /\ (pc[p] # "authread" => OwesAuth(p)')
      BY <2>2, <2>5, <2>6 DEF ServesAuth, OwesAuth, Cmd
    <3>2. Account(p)'
      <4>1. CASE pc[p] = "authread"
        BY <2>2, <2>5, <3>1, <4>1 DEF Account, Cmd, Succeeded
      <4>2. CASE pc[p] # "authread" /\ pc[p] # "read"
        <5>1. Owed(p)' /\ ~Succeeded(p) /\ ~Succeeded(p)'
          BY <2>2, <2>5, <3>1, <4>2 DEF Owed, Succeeded
        <5> QED
          BY <2>2, <2>5, <3>1, <4>2, <5>1 DEF Account, Succeeded
      <4>3. CASE pc[p] = "read"
        <5>1. DOMAIN pend[c] = {}
          BY <2>2, <2>6, <4>3 DEF Account, OwesReplies, ServesAuth, OwesAuth, Cmd, TypeOK
        <5> QED
          BY <1>30, <5>1, NothingPending DEF Serve
      <4> QED
        BY <4>1, <4>2, <4>3
    <3> QED
      BY <2>2, <2>4, <2>5, <3>1, <3>2, AccountsOnWire
  <2>7. CASE ServesNext(p)
    <3>1. /\ exec' = [exec EXCEPT ![p] = Append(exec[p], Len(exec[p]) + 1)]
          /\ OwesReplies(p) /\ pc[p] # "authread"
      BY <2>7 DEF ServesNext
    <3>2. Len(exec'[p]) = Len(exec[p]) + 1 /\ Len(exec[p]) \in Nat
      <4>1. exec[p] \in Seq(Nat) /\ Len(exec[p]) \in Nat
        BY LenProperties DEF TypeOK
      <4>2. exec'[p] = Append(exec[p], Len(exec[p]) + 1)
        BY <3>1 DEF TypeOK
      <4> QED
        BY <4>1, <4>2, AppendProperties
    <3>3. OwesReplies(p)'
      <4>1. Len(exec'[p]) = got[p] + Len(rep'[c])
        <5>1. /\ Len(exec[p]) = got[p] + Len(rep[c]) /\ got[p] \in Nat
              /\ Len(rep[c]) \in Nat
          BY <2>2, <3>1, NothingPending DEF OwesReplies, TypeOK
        <5> DEFINE e == Len(exec[p])
                   g == got[p]
                   r == Len(rep[c])
        <5>2. /\ e = g + r /\ g \in Nat /\ r \in Nat
              /\ Len(exec'[p]) = e + 1 /\ Len(rep'[c]) = r + 1
          BY <2>4, <3>2, <5>1
        <5> HIDE DEF e, g, r
        <5>3. Len(exec'[p]) = g + Len(rep'[c])
          BY <5>2
        <5> QED
          BY <5>3 DEF g
      <4> QED
        BY <2>2, <2>5, <3>1, <4>1 DEF OwesReplies, Cmd
    <3>4. Account(p)'
      BY <2>2, <2>5, <3>1, <3>3 DEF Account, Owed, Succeeded
    <3>5. \A q \in Callers \ {p} : exec'[q] = exec[q]
      BY <3>1 DEF TypeOK
    <3> QED
      BY <2>2, <2>4, <2>5, <3>4, <3>5, AccountsOnWire
  <2> QED
    BY <2>1, <2>6, <2>7 DEF Serves
<1>31. ASSUME NEW p \in Callers, AuthRefused(p) PROVE Accounts'
  <2>1. /\ pc[p] = "authread" /\ pc'[p] = "drop" /\ err'[p] = "server"
        /\ Account(p) /\ cur[p] \in Conns /\ rep[cur[p]] # <<>>
    BY <1>31 DEF AuthRefused, TypeOK, Holding, Accounts
  <2>2. UNCHANGED <<cur, req, got, exec, behind, pend, rep>>
    BY <1>31 DEF AuthRefused, callVars, wireVars
  <2>3. \A q \in Callers \ {p} : Untouched(q)
    BY <1>31 DEF AuthRefused, Untouched, TypeOK, callVars, wireVars
  <2>4. /\ Len(pend[cur[p]]) = 1 /\ pend[cur[p]][1] = Cmd(p, 0) /\ exec[p] = <<>>
        /\ DOMAIN pend[cur[p]] = 1..1
    BY <2>1, NothingPending DEF Account
  <2>5. Len(pend[cur[p]]) = Len(rep[cur[p]])
    <3>1. Len(rep[cur[p]]) \in Nat \ {0}
      BY <2>1, TailsShrink
    <3>2. Len(rep[cur[p]]) <= Len(pend[cur[p]])
      BY <2>1 DEF TypeOK
    <3> DEFINE r == Len(rep[cur[p]])
    <3>3. r \in Nat \ {0} /\ r <= 1
      BY <2>4, <3>1, <3>2
    <3> HIDE DEF r
    <3>4. r = 1
      BY <3>3
    <3> QED
      BY <2>4, <3>4 DEF r
  <2>6. Owed(p)'
    BY <2>2, <2>4 DEF Owed, OwesAuth, Cmd
  <2>7. Account(p)'
    BY <2>1, <2>2, <2>4, <2>5, <2>6 DEF Account
  <2>8. Held \subseteq Held'
    BY <2>2 DEF Held
  <2> QED
    BY <2>2, <2>3, <2>7, <2>8, AccountsOffWire DEF wireVars
<1>32. ASSUME NEW p \in Callers, ServeLate(p) PROVE Accounts'
  <2>1. /\ UNCHANGED <<pc, cur, err, req, got, pend, rep>> /\ Account(p) /\ behind[p] # <<>>
        /\ behind' = [behind EXCEPT ![p] = Tail(behind[p])]
    BY <1>32 DEF ServeLate, Accounts, wireVars
  <2>2. /\ exec' = [exec EXCEPT ![p] = Append(exec[p], Len(exec[p]) + 1)]
        /\ Len(Append(exec[p], Len(exec[p]) + 1)) = Len(exec[p]) + 1
        /\ Len(Tail(behind[p])) = Len(behind[p]) - 1
        /\ Len(exec[p]) \in Nat /\ Len(behind[p]) \in Nat \ {0}
        /\ \A i \in DOMAIN Tail(behind[p]) :
             /\ i \in Nat /\ i + 1 \in DOMAIN behind[p]
             /\ Tail(behind[p])[i] = behind[p][i + 1]
    BY <1>32, ServesLate
  <2>3. /\ exec'[p] = Append(exec[p], Len(exec[p]) + 1) /\ behind'[p] = Tail(behind[p])
        /\ \A q \in Callers \ {p} : exec'[q] = exec[q] /\ behind'[q] = behind[q]
    BY <2>1, <2>2 DEF TypeOK
  <2>4. \A q \in Callers \ {p} : Untouched(q)
    BY <2>1, <2>3 DEF Untouched
  <2>5. LeftBehind(p)'
    <3>1. LeftBehind(p) /\ req[p].n \in Nat
      BY <2>1, RequestIsTyped DEF Account, TypeOK
    <3>2. ASSUME NEW i \in DOMAIN behind'[p] PROVE behind'[p][i] = Cmd(p, Len(exec'[p]) + i)
      <4>1. i \in Nat /\ behind'[p][i] = Cmd(p, Len(exec[p]) + (i + 1))
        BY <2>2, <2>3, <3>1 DEF LeftBehind
      <4>2. Len(exec[p]) + (i + 1) = (Len(exec[p]) + 1) + i
        BY <2>2, <4>1, NextInLine
      <4> QED
        BY <2>2, <2>3, <4>1, <4>2
    <3>3. Len(exec'[p]) + Len(behind'[p]) <= req[p].n
      <4>1. Len(exec[p]) + Len(behind[p]) <= req[p].n
        BY <3>1 DEF LeftBehind
      <4>2. Len(exec'[p]) = Len(exec[p]) + 1 /\ Len(behind'[p]) = Len(behind[p]) - 1
        BY <2>2, <2>3
      <4>3. Len(exec[p]) \in Nat /\ Len(behind[p]) \in Nat
        BY <2>2
      <4> QED
        <5> DEFINE e == Len(exec[p])
                   b == Len(behind[p])
                   n == req[p].n
        <5>1. e \in Nat /\ b \in Nat /\ n \in Nat /\ e + b <= n
          BY <3>1, <4>1, <4>3
        <5>2. Len(exec'[p]) = e + 1 /\ Len(behind'[p]) = b - 1
          BY <4>2
        <5> HIDE DEF e, b, n
        <5>3. (e + 1) + (b - 1) <= n
          BY <5>1, OneServedLate
        <5>4. Len(exec'[p]) + Len(behind'[p]) <= n
          BY <5>2, <5>3
        <5> QED
          BY <5>4 DEF n
    <3> QED
      BY <2>1, <3>2, <3>3 DEF LeftBehind, Cmd
  <2>6. Account(p)'
    <3>1. /\ pc[p] \in {"release", "ready"} /\ InDoubt(p) /\ InDoubt(p)'
          /\ (pc[p] = "ready" => req[p] # NoRequest)
      BY <2>1 DEF Account, InDoubt
    <3> QED
      BY <2>1, <2>5, <3>1 DEF Account, InDoubt
  <2>7. Held \subseteq Held'
    BY <2>1 DEF Held
  <2> QED
    BY <2>1, <2>4, <2>6, <2>7, AccountsOffWire DEF wireVars
<1>33. ASSUME NEW p \in Callers, LoseLate(p) PROVE Accounts'
  <2>1. /\ UNCHANGED <<pc, cur, err, req, got, exec, pend, rep>> /\ Account(p)
        /\ behind' = [behind EXCEPT ![p] = <<>>] /\ behind[p] # <<>>
    BY <1>33 DEF LoseLate, Accounts, wireVars
  <2>2. behind'[p] = <<>> /\ \A q \in Callers \ {p} : Untouched(q)
    BY <2>1 DEF Untouched, TypeOK
  <2>3. pc[p] \in {"release", "ready"} /\ InDoubt(p)' = InDoubt(p)
    BY <2>1 DEF Account, InDoubt
  <2>4. Account(p)'
    BY <2>1, <2>2, <2>3 DEF Account
  <2>5. Held \subseteq Held'
    BY <2>1 DEF Held
  <2> QED
    BY <2>1, <2>2, <2>4, <2>5, AccountsOffWire DEF wireVars
<1> QED
  BY <1>1, <1>2, <1>3, <1>4, <1>5, <1>6, <1>7, <1>8, <1>9, <1>10,
     <1>11, <1>12, <1>13, <1>14, <1>15, <1>16, <1>17, <1>18, <1>19, <1>20,
     <1>21, <1>22, <1>23, <1>24, <1>25, <1>26, <1>27, <1>28, <1>29, <1>30,
     <1>31, <1>32, <1>33
  DEF Next, Step

\* At any number of callers, connections, idle slots and batch sizes, as long as
\* no reply is an array with an error in it: nothing is left unread on a
\* connection in the pool, and a call reads the answers to its own commands.
THEOREM RepliesMatch ==
  ASSUME "nested" \notin Replies
  PROVE  Spec => [](PooledIsQuiet /\ OwnReplies)
<1>1. Init => TypeOK /\ Ownership /\ Accounts
  BY TypeInit, OwnershipInit, AccountsInit
<1>2. TypeOK /\ Ownership /\ Accounts /\ [Next]_vars
        => TypeOK' /\ Ownership' /\ Accounts'
  BY TypeStep, OwnershipStep, AccountsStep
<1>3. TypeOK /\ Ownership /\ Accounts => PooledIsQuiet /\ OwnReplies
  <2> SUFFICES ASSUME TypeOK, Ownership, Accounts PROVE PooledIsQuiet /\ OwnReplies
    OBVIOUS
  <2>1. Pooled \subseteq Conns \ Held
    BY ElementOfSeq, LenProperties DEF Pooled, TypeOK, Ownership, Exclusive
  <2>2. PooledIsQuiet
    BY <2>1, NothingPending DEF PooledIsQuiet, Accounts
  <2>3. OwnReplies
    BY DEF OwnReplies, Accounts, Account, OwesReplies
  <2> QED
    BY <2>2, <2>3
<1> QED
  BY <1>1, <1>2, <1>3, PTL DEF Spec

\* Unless a reply is an array with an error in it, a connection in the pool has no
\* command on its way and no reply unread (conn.go:231-235).
COROLLARY PoolStaysQuiet ==
  ASSUME "nested" \notin Replies
  PROVE  Spec => []PooledIsQuiet
BY RepliesMatch, PTL

-----------------------------------------------------------------------------
(* The slots.                                                              *)

Outside == {"ready", "acquire"}

\* A step of one call that neither enters nor leaves the calls under way.
LEMMA SameCallsInFlight ==
  ASSUME TypeOK, NEW p \in Callers, NEW l, pc' = [pc EXCEPT ![p] = l],
         pc[p] \in Outside <=> l \in Outside
  PROVE  InFlight' = InFlight
BY DEF TypeOK, InFlight, Outside

LEMMA InFlightIsFinite ==
  /\ IsFiniteSet(InFlight)
  /\ Cardinality(InFlight) \in Nat
BY ConfigAssumption, FS_Subset, FS_CardinalityType DEF InFlight

\* Acquire and Release are the only steps that take and give back a slot, and
\* they enter and leave the calls under way.
LEMMA SlotsStep == TypeOK /\ SlotsExact /\ [Next]_vars => SlotsExact'
<1> SUFFICES ASSUME TypeOK, SlotsExact, [Next]_vars PROVE SlotsExact'
  OBVIOUS
<1>1. ASSUME InFlight' = InFlight, slots' = slots PROVE SlotsExact'
  BY <1>1 DEF SlotsExact, Limited
<1>2. ASSUME NEW p \in Callers, Acquire(p) PROVE SlotsExact'
  <2>1. InFlight' = InFlight \cup {p} /\ p \notin InFlight
    BY <1>2 DEF Acquire, Goto, InFlight, TypeOK
  <2>2. Cardinality(InFlight') = Cardinality(InFlight) + 1
    BY <2>1, InFlightIsFinite, FS_AddElement
  <2> QED
    BY <1>2, <2>2, InFlightIsFinite, ConfigAssumption DEF Acquire, SlotsExact, Limited
<1>3. ASSUME NEW p \in Callers, Release(p) PROVE SlotsExact'
  <2>1. InFlight' = InFlight \ {p} /\ p \in InFlight
    BY <1>3 DEF Release, Goto, InFlight, TypeOK
  <2>2. Cardinality(InFlight') = Cardinality(InFlight) - 1
    BY <2>1, InFlightIsFinite, FS_RemoveElement
  <2> QED
    BY <1>3, <2>2, InFlightIsFinite, ConfigAssumption DEF Release, SlotsExact, Limited
<1>4. ASSUME NEW p \in Callers, Step(p), ~Release(p) PROVE SlotsExact'
  <2>1. slots' = slots
    BY <1>4 DEF Step, AcquireDone, GetClosed, GetIdle, GetNone, DialOk, DialFail, AuthSend,
       AuthRead, AuthRefused, AuthFail, Arm, SendOk, SendFail, Read, ReadFail, Stop, Put, PutRefused,
       Drop, poolVars
  <2>2. pc' = [pc EXCEPT ![p] = pc'[p]]
    BY <1>4 DEF Step, AcquireDone, GetClosed, GetIdle, GetNone, DialOk, DialFail, AuthSend,
       AuthRead, AuthRefused, AuthFail, Arm, SendOk, SendFail, Read, ReadFail, Stop, Put, PutRefused,
       Drop, Goto, TypeOK
  <2>3. pc[p] \in Outside <=> pc'[p] \in Outside
    BY ZenonT(30), <1>4 DEF Step, AcquireDone, GetClosed, GetIdle, GetNone, DialOk, DialFail, AuthSend,
       AuthRead, AuthRefused, AuthFail, Arm, SendOk, SendFail, Read, ReadFail, Stop, Put, PutRefused,
       Drop, Goto, TypeOK, Outside
  <2> QED
    BY <1>1, <2>1, <2>2, <2>3, SameCallsInFlight
<1>5. ASSUME NEW p \in Callers, Begin(p) PROVE SlotsExact'
  BY <1>1, <1>5, SameCallsInFlight DEF Begin, Goto, Outside, poolVars
<1>6. ASSUME UNCHANGED pc, UNCHANGED slots PROVE SlotsExact'
  BY <1>1, <1>6 DEF InFlight
<1> QED
  BY <1>2, <1>3, <1>4, <1>5, <1>6
  DEF Next, Cancel, FireWatch, ServeLate, LoseLate, CloseDoomed, CloseReaped, Expire, Serve, Hangup, Close,
      vars, poolVars

LEMMA SlotsInit == Init => SlotsExact
<1> SUFFICES ASSUME Init PROVE SlotsExact
  OBVIOUS
<1>1. InFlight = {}
  BY DEF Init, InFlight
<1> QED
  BY <1>1, FS_EmptySet, ConfigAssumption DEF Init, SlotsExact, Limited

\* Whatever happens in a call, it has given back its slot when it returns, and no
\* more than MaxActive calls are under way.
THEOREM SlotsHold == Spec => []SlotsExact
<1>1. TypeOK /\ SlotsExact /\ [Next]_vars => TypeOK' /\ SlotsExact'
  BY TypeStep, SlotsStep
<1> QED
  BY <1>1, TypeInit, SlotsInit, PTL DEF Spec
-----------------------------------------------------------------------------
(* The deadlines.                                                          *)

Using == {"send", "read"}

\* A step that leaves every deadline and every call that uses one as they are.
LEMMA DeadlineFrame ==
  ASSUME DeadlineIsOwn, UNCHANGED <<cur, sock, dl>>,
         \A p \in Callers : pc'[p] \in Using => pc[p] \in Using /\ req'[p] = req[p]
  PROVE  DeadlineIsOwn'
BY DEF DeadlineIsOwn, Using

\* Connections in use are exclusive, so that nobody sets the deadline of another.
LEMMA DeadlineStep == TypeOK /\ Ownership /\ DeadlineIsOwn /\ [Next]_vars => DeadlineIsOwn'
<1> SUFFICES ASSUME TypeOK, Ownership, DeadlineIsOwn, [Next]_vars PROVE DeadlineIsOwn'
  OBVIOUS
<1> USE DEF Goto, Using
<1>1. ASSUME NEW p \in Callers, Begin(p) \/ Acquire(p) PROVE DeadlineIsOwn'
  BY <1>1, DeadlineFrame DEF Begin, Acquire, TypeOK, callVars, connVars
<1>2. ASSUME NEW p \in Callers, AcquireDone(p) \/ Release(p) PROVE DeadlineIsOwn'
  BY <1>2, DeadlineFrame DEF AcquireDone, Release, Forget, TypeOK, connVars
<1>3. ASSUME NEW p \in Callers, GetClosed(p) \/ GetNone(p) \/ DialFail(p) PROVE DeadlineIsOwn'
  BY <1>3, DeadlineFrame DEF GetClosed, GetNone, DialFail, TypeOK, callVars, connVars
<1>4. ASSUME NEW p \in Callers, AuthSend(p) \/ AuthRead(p) \/ AuthRefused(p) \/ AuthFail(p)
      PROVE  DeadlineIsOwn'
  BY <1>4, DeadlineFrame DEF AuthSend, AuthRead, AuthRefused, AuthFail, TypeOK, callVars, connVars
<1>5. ASSUME NEW p \in Callers, SendOk(p) \/ SendFail(p) \/ Read(p) \/ ReadFail(p)
      PROVE DeadlineIsOwn'
  BY <1>5, DeadlineFrame DEF SendOk, SendFail, Read, ReadFail, TypeOK, callVars, connVars
<1>6. ASSUME NEW p \in Callers, Stop(p) \/ PutRefused(p) PROVE DeadlineIsOwn'
  BY <1>6, DeadlineFrame DEF Stop, PutRefused, TypeOK, callVars, connVars
<1>7. ASSUME NEW p \in Callers, Cancel(p) \/ FireWatch(p) PROVE DeadlineIsOwn'
  BY <1>7, DeadlineFrame DEF Cancel, FireWatch, callVars, connVars
<1>8. ASSUME NEW p \in Callers, GetIdle(p) \/ Put(p) PROVE DeadlineIsOwn'
  <2>1. UNCHANGED <<sock, dl, req>>
    BY <1>8 DEF GetIdle, Put, callVars, connVars
  <2>2. ASSUME NEW q \in Callers, pc'[q] \in Using
        PROVE  pc[q] \in Using /\ cur'[q] = cur[q]
    BY <1>8, <2>2 DEF GetIdle, Put, TypeOK
  <2> QED
    BY <2>1, <2>2 DEF DeadlineIsOwn
<1>9. ASSUME NEW p \in Callers, DialOk(p) PROVE DeadlineIsOwn'
  <2> PICK c \in Conns : /\ Unused(c) /\ pc[p] = "dial" /\ cur' = [cur EXCEPT ![p] = c]
                         /\ pc' = [pc EXCEPT ![p] = IF Password THEN "auth" ELSE "arm"]
                         /\ sock' = [sock EXCEPT ![c] = "open"]
                         /\ \A d \in Conns \ {c} : dl'[d] = dl[d]
                         /\ req' = req
    BY <1>9 DEF DialOk, TypeOK, callVars
  <2>1. pc'[p] \notin Using
    BY DEF TypeOK
  <2>2. ASSUME NEW q \in Callers \ {p}, pc[q] \in Using
        PROVE  cur'[q] = cur[q] /\ cur[q] \in Conns \ {c}
    BY <2>2 DEF Unused, TypeOK, Holding
  <2> QED
    BY <2>1, <2>2 DEF TypeOK, DeadlineIsOwn
<1>10. ASSUME NEW p \in Callers, Arm(p) PROVE DeadlineIsOwn'
  <2>1. cur[p] \in Conns /\ cur[p] # None /\ \A q \in Callers \ {p} : cur[q] # cur[p]
    BY <1>10 DEF Arm, TypeOK, Holding, Ownership, Exclusive
  <2>2. /\ dl'[cur[p]] = Deadline(p) /\ \A d \in Conns \ {cur[p]} : dl'[d] = dl[d]
        /\ pc'[p] = "send" /\ \A q \in Callers \ {p} : pc'[q] = pc[q]
        /\ UNCHANGED <<cur, sock, req>>
    BY <1>10, <2>1 DEF Arm, TypeOK, callVars
  <2>3. ASSUME NEW q \in Callers \ {p}, pc[q] \in Using PROVE cur[q] \in Conns \ {cur[p]}
    BY <2>1, <2>3 DEF TypeOK, Holding
  <2> QED
    BY <2>1, <2>2, <2>3 DEF DeadlineIsOwn, Deadline
<1>11. ASSUME NEW p \in Callers, Drop(p) PROVE DeadlineIsOwn'
  <2>1. cur[p] \in Conns /\ \A q \in Callers \ {p} : cur[q] # cur[p]
    BY <1>11 DEF Drop, TypeOK, Holding, Ownership, Exclusive
  <2>2. ASSUME NEW q \in Callers, pc'[q] \in Using
        PROVE  /\ q # p /\ pc[q] \in Using /\ cur'[q] = cur[q] /\ req'[q] = req[q]
               /\ cur[q] \in Conns \ {cur[p]}
    BY <1>11, <2>1, <2>2 DEF Drop, TypeOK, Holding, callVars
  <2>3. \A d \in Conns \ {cur[p]} : dl'[d] = dl[d] /\ sock'[d] = sock[d]
    BY <1>11 DEF Drop, CloseSocket, TypeOK
  <2> QED
    BY <2>2, <2>3 DEF DeadlineIsOwn
<1>12. ASSUME NEW c \in Conns, CloseDoomed(c) \/ CloseReaped(c) PROVE DeadlineIsOwn'
  <2>1. /\ UNCHANGED <<pc, cur, req>> /\ sock'[c] = "closed"
        /\ \A d \in Conns \ {c} : dl'[d] = dl[d] /\ sock'[d] = sock[d]
    BY <1>12 DEF CloseDoomed, CloseReaped, CloseSocket, TypeOK, callVars
  <2>2. \A q \in Callers : pc[q] \in Using => cur[q] \in Conns
    BY DEF TypeOK, Holding
  <2> QED
    BY <2>1, <2>2 DEF DeadlineIsOwn
<1>13. ASSUME NEW c \in Conns, Expire(c) \/ Hangup(c) PROVE DeadlineIsOwn'
  <2>1. /\ UNCHANGED <<pc, cur, req>>
        /\ \A d \in Conns : /\ dl'[d] = "none" <=> dl[d] = "none"
                            /\ sock'[d] = "closed" <=> sock[d] = "closed"
    BY <1>13 DEF Expire, Hangup, TypeOK, callVars
  <2>2. \A q \in Callers : pc[q] \in Using => cur[q] \in Conns
    BY DEF TypeOK, Holding
  <2> QED
    BY <2>1, <2>2 DEF DeadlineIsOwn
<1>14. ASSUME NEW c \in Conns, Serve(c) PROVE DeadlineIsOwn'
  BY <1>14, DeadlineFrame DEF Serve, connVars
<1>15. CASE Close \/ UNCHANGED vars
  BY <1>15, DeadlineFrame DEF Close, vars, callVars, connVars
<1>16. ASSUME NEW p \in Callers, ServeLate(p) \/ LoseLate(p) PROVE DeadlineIsOwn'
  BY <1>16, DeadlineFrame DEF ServeLate, LoseLate, connVars
<1> QED
  BY <1>1, <1>2, <1>3, <1>4, <1>5, <1>6, <1>7, <1>8, <1>9, <1>10, <1>11, <1>12, <1>13, <1>14,
     <1>15, <1>16 DEF Next, Step

\* At any number of callers and connections, with or without AUTH: a call runs under
\* the deadline of its own context and configuration, and under none if it has none,
\* whatever deadline its connection had before (conn.go:79-91).
THEOREM DeadlinesAreOwn == Spec => []DeadlineIsOwn
<1>1. Init => DeadlineIsOwn
  BY DEF Init, DeadlineIsOwn
<1>2. TypeOK /\ Ownership /\ DeadlineIsOwn /\ [Next]_vars
        => TypeOK' /\ Ownership' /\ DeadlineIsOwn'
  BY TypeStep, OwnershipStep, DeadlineStep
<1> QED
  BY <1>1, <1>2, TypeInit, OwnershipInit, PTL DEF Spec

-----------------------------------------------------------------------------
(* Close.                                                                  *)

\* A call that begins after Close gets no further than get.
Turned(p) == /\ closed
             /\ \/ pc[p] \in {"acquire", "get"}
                \/ pc[p] = "release" /\ err[p] = "closed"

Finality == /\ closed => idle = <<>>
            /\ \A p \in Callers : late[p] => Turned(p)

\* A step of one call that leaves it turned away, or that it did not begin late.
LEMMA FinalityFrame ==
  ASSUME Finality, closed' = closed, closed => idle' = idle, NEW p \in Callers,
         \A q \in Callers \ {p} : (late'[q] => late[q]) /\ pc'[q] = pc[q] /\ err'[q] = err[q],
         late'[p] => Turned(p)'
  PROVE  Finality'
BY DEF Finality, Turned

LEMMA FinalityStep == TypeOK /\ Finality /\ [Next]_vars => Finality'
<1> SUFFICES ASSUME TypeOK, Finality, [Next]_vars PROVE Finality'
  OBVIOUS
<1>1. /\ pc \in [Callers -> Labels]
      /\ err \in [Callers -> Errors]
      /\ late \in [Callers -> BOOLEAN]
  BY DEF TypeOK
<1>2. ASSUME NEW p \in Callers, Begin(p) PROVE Finality'
  <2>1. /\ UNCHANGED <<closed, idle>> /\ late' = [late EXCEPT ![p] = closed]
        /\ err' = [err EXCEPT ![p] = "nil"]
    BY <1>2 DEF Begin, poolVars
  <2>2. pc' = [pc EXCEPT ![p] = "acquire"]
    BY <1>2 DEF Begin, Goto
  <2> QED
    BY <1>1, <2>1, <2>2, FinalityFrame DEF Turned
<1>3. ASSUME NEW p \in Callers, Acquire(p) \/ GetClosed(p) PROVE Finality'
  <2>1. /\ UNCHANGED <<closed, idle, late>>
        /\ pc' = [pc EXCEPT ![p] = pc'[p]] /\ err' = [err EXCEPT ![p] = err'[p]]
    BY <1>1, <1>3 DEF Acquire, GetClosed, Goto, callVars, poolVars
  <2>2. \/ pc[p] = "acquire" /\ pc'[p] = "get"
        \/ pc'[p] = "release" /\ err'[p] = "closed" /\ closed
    BY <1>1, <1>3 DEF Acquire, GetClosed, Goto
  <2> QED
    BY <1>1, <2>1, <2>2, FinalityFrame DEF Finality, Turned
<1>4. ASSUME NEW p \in Callers, AcquireDone(p) \/ Release(p) PROVE Finality'
  <2>1. UNCHANGED <<closed, idle>> /\ late' = [late EXCEPT ![p] = FALSE]
    BY <1>4 DEF AcquireDone, Release, Forget, poolVars
  <2>2. pc' = [pc EXCEPT ![p] = pc'[p]] /\ err' = [err EXCEPT ![p] = err'[p]]
    BY <1>1, <1>4 DEF AcquireDone, Release, Forget, Goto
  <2> QED
    BY <1>1, <2>1, <2>2, FinalityFrame
\* Everything past get: the call did not begin late.
<1>5. ASSUME NEW p \in Callers, Step(p),
             ~AcquireDone(p), ~Release(p), ~GetClosed(p)
      PROVE  Finality'
  <2>1. closed' = closed /\ late' = late
    BY <1>5 DEF Step, GetIdle, GetNone, DialOk, DialFail, AuthSend, AuthRead, AuthRefused, AuthFail, Arm,
       SendOk, SendFail, Read, ReadFail, Stop, Put, PutRefused, Drop, callVars, poolVars
  <2>2. closed => idle' = idle
    BY <1>5 DEF Step, GetIdle, GetNone, DialOk, DialFail, AuthSend, AuthRead, AuthRefused, AuthFail, Arm,
       SendOk, SendFail, Read, ReadFail, Stop, Put, PutRefused, Drop, HasRoom, poolVars
  <2>3. pc' = [pc EXCEPT ![p] = pc'[p]] /\ err' = [err EXCEPT ![p] = err'[p]]
    BY <1>1, <1>5 DEF Step, GetIdle, GetNone, DialOk, DialFail, AuthSend, AuthRead, AuthRefused, AuthFail,
       Arm, SendOk, SendFail, Read, ReadFail, Stop, Put, PutRefused, Drop, Goto
  <2>4. pc[p] \notin {"acquire", "release"} /\ (pc[p] = "get" => ~closed)
    BY <1>5 DEF Step, GetIdle, GetNone, DialOk, DialFail, AuthSend, AuthRead, AuthRefused, AuthFail, Arm,
       SendOk, SendFail, Read, ReadFail, Stop, Put, PutRefused, Drop, Goto
  <2>5. ~late[p]
    BY <2>4 DEF Finality, Turned
  <2> QED
    BY <1>1, <2>1, <2>2, <2>3, <2>5, FinalityFrame
<1>6. ASSUME UNCHANGED <<pc, err, late, closed, idle>> PROVE Finality'
  BY <1>6 DEF Finality, Turned
<1>7. ASSUME NEW p \in Callers, Cancel(p) \/ FireWatch(p) \/ ServeLate(p) \/ LoseLate(p)
      PROVE  Finality'
  BY <1>6, <1>7 DEF Cancel, FireWatch, ServeLate, LoseLate, poolVars, callVars
<1>8. ASSUME NEW c \in Conns,
             CloseDoomed(c) \/ CloseReaped(c) \/ Expire(c) \/ Serve(c) \/ Hangup(c)
      PROVE  Finality'
  BY <1>6, <1>8 DEF CloseDoomed, CloseReaped, Expire, Serve, Hangup, poolVars, callVars
<1>9. CASE Close
  BY <1>9 DEF Close, callVars, Finality, Turned
<1>10. CASE UNCHANGED vars
  BY <1>6, <1>10 DEF vars, poolVars, callVars
<1> QED
  BY <1>2, <1>3, <1>4, <1>5, <1>7, <1>8, <1>9, <1>10 DEF Next

\* Once the pool is closed it stays empty, whatever calls were under way, and a call
\* that begins afterwards never has a connection and nothing of it is run
\* (conn.go:24, 196-201, 212-215).
THEOREM CloseIsFinal ==
  ASSUME "nested" \notin Replies
  PROVE  Spec => []ClosedIsFinal
<1>1. Init => TypeOK /\ Ownership /\ Accounts /\ Finality
  <2>1. Init => Finality
    BY DEF Init, Finality
  <2> QED
    BY <2>1, TypeInit, OwnershipInit, AccountsInit
<1>2. TypeOK /\ Ownership /\ Accounts /\ Finality /\ [Next]_vars
        => TypeOK' /\ Ownership' /\ Accounts' /\ Finality'
  BY TypeStep, OwnershipStep, AccountsStep, FinalityStep
<1>3. TypeOK /\ Accounts /\ Finality => ClosedIsFinal
  BY DEF TypeOK, Holding, Accounts, Account, Finality, Turned, ClosedIsFinal
<1> QED
  BY <1>1, <1>2, <1>3, PTL DEF Spec

-----------------------------------------------------------------------------
(* Pool implements CommandService, for any number of callers and           *)
(* connections.  Every step of a call is a step of the service, or one its *)
(* callers do not see; what makes it so is the accounting above.           *)

\* The stage of a call at the place l of the code, or of none with commands about.
StageAt(l, left) == CASE l = "ready" -> IF left THEN "abandoned" ELSE "ready"
                      [] l = "acquire" -> "waiting"
                      [] l = "release" -> "decided"
                      [] OTHER -> "admitted"

\* The outcome e shows from the decision on, to the return or past it.
VerdictAt(l, left, e) == IF l = "release" \/ (l = "ready" /\ left) THEN e ELSE "none"

Kept(p) == req[p] # NoRequest

LEMMA StagesMap ==
  ASSUME NEW p \in Callers
  PROVE  /\ Stage[p] = StageAt(pc[p], Kept(p))
         /\ Size[p] = req[p].n
         /\ Verdict[p] = VerdictAt(pc[p], Kept(p), err[p])
BY DEF Stage, StageAt, Size, Verdict, VerdictAt, Kept, Abandoned

\* One call moves: what the service sees of it changes as the call does.
LEMMA CallMoves ==
  ASSUME TypeOK, NEW p \in Callers, pc' = [pc EXCEPT ![p] = pc'[p]],
         req' = [req EXCEPT ![p] = req'[p]], err' = [err EXCEPT ![p] = err'[p]]
  PROVE  /\ Stage' = [Stage EXCEPT ![p] = StageAt(pc'[p], Kept(p)')]
         /\ Size' = [Size EXCEPT ![p] = req'[p].n]
         /\ Verdict' = [Verdict EXCEPT ![p] = VerdictAt(pc'[p], Kept(p)', err'[p])]
<1>1. \A q \in Callers \ {p} : pc'[q] = pc[q] /\ req'[q] = req[q] /\ err'[q] = err[q]
  BY DEF TypeOK
<1>2. Stage' = [Stage EXCEPT ![p] = StageAt(pc'[p], Kept(p)')]
  BY <1>1 DEF Stage, StageAt, Kept, Abandoned
<1>3. Size' = [Size EXCEPT ![p] = req'[p].n]
  BY <1>1 DEF Size
<1>4. Verdict' = [Verdict EXCEPT ![p] = VerdictAt(pc'[p], Kept(p)', err'[p])]
  BY <1>1 DEF Verdict, VerdictAt, Kept, Abandoned
<1> QED
  BY <1>2, <1>3, <1>4

\* A step of a call between get and release that decides nothing is not seen.
LEMMA Unseen ==
  ASSUME TypeOK, NEW p \in Callers, NEW l, pc' = [pc EXCEPT ![p] = l],
         err' = [err EXCEPT ![p] = err'[p]], UNCHANGED <<req, exec>>,
         {pc[p], l} \cap {"ready", "acquire", "release"} = {}
  PROVE  UNCHANGED Service!vars
<1>1. Verdict' = Verdict
  BY DEF TypeOK, Verdict, Abandoned
<1>2. Stage' = Stage
  BY DEF TypeOK, Stage, Abandoned
<1>3. Size' = Size
  BY DEF Size
<1> QED
  BY <1>1, <1>2, <1>3 DEF Service!vars

\* The calls under way are those the service has let through.
LEMMA SameInFlight == Service!InFlight = InFlight
BY StagesMap DEF Service!InFlight, InFlight, StageAt

LEMMA SameCount == Service!Cardinality(Service!InFlight) = Cardinality(InFlight)
BY SameInFlight DEF Service!Cardinality, Cardinality

\* A call decides: it leaves its connection, or never had one.
LEMMA Decides ==
  ASSUME TypeOK, NEW p \in Callers, pc' = [pc EXCEPT ![p] = "release"],
         err' = [err EXCEPT ![p] = err'[p]], UNCHANGED <<req, exec>>,
         pc[p] \notin {"ready", "acquire", "release"},
         err'[p] \in Service!Results,
         err'[p] = "nil" => Len(exec[p]) = req[p].n,
         err'[p] = "server" => Len(exec[p]) \in {0, req[p].n},
         err'[p] = "closed" => exec[p] = <<>>
  PROVE  Service!Decide(p, err'[p])
<1>1. pc'[p] = "release" /\ req' = [req EXCEPT ![p] = req'[p]]
  BY DEF TypeOK
<1>2. /\ Stage' = [Stage EXCEPT ![p] = "decided"]
      /\ Verdict' = [Verdict EXCEPT ![p] = err'[p]]
  BY <1>1, CallMoves DEF StageAt, VerdictAt
<1>3. Size' = Size /\ Size[p] = req[p].n /\ Stage[p] = "admitted"
  BY StagesMap DEF Size, StageAt
<1> QED
  BY <1>2, <1>3 DEF Service!Decide

\* A call ends, waiting for its slot or decided, and leaves nothing behind ...
LEMMA Returns ==
  ASSUME TypeOK, NEW p \in Callers, pc' = [pc EXCEPT ![p] = "ready"], Forget(p),
         pc[p] \in {"acquire", "release"}, behind[p] = <<>>
  PROVE  Service!Return(p)
<1>1. /\ req' = [req EXCEPT ![p] = NoRequest] /\ err' = [err EXCEPT ![p] = "nil"]
      /\ exec' = [exec EXCEPT ![p] = <<>>]
  BY DEF Forget
<1>2. pc'[p] = "ready" /\ req'[p] = NoRequest /\ err'[p] = "nil" /\ ~Kept(p)'
  BY <1>1 DEF TypeOK, Kept
<1>3. /\ Stage' = [Stage EXCEPT ![p] = "ready"]
      /\ Size' = [Size EXCEPT ![p] = 0]
      /\ Verdict' = [Verdict EXCEPT ![p] = "none"]
  <2>1. NoRequest.n = 0
    BY DEF NoRequest
  <2> QED
    BY <1>1, <1>2, <2>1, CallMoves DEF StageAt, VerdictAt
<1>4. Stage[p] \in {"waiting", "decided"}
  BY StagesMap DEF StageAt
<1> QED
  BY <1>1, <1>3, <1>4 DEF Service!Return

\* ... or with commands the server may still come to.
LEMMA Abandons ==
  ASSUME TypeOK, Accounts, NEW p \in Callers, pc' = [pc EXCEPT ![p] = "ready"], Forget(p),
         pc[p] = "release", behind[p] # <<>>
  PROVE  Service!Abandon(p)
<1>1. UNCHANGED <<req, err, exec>>
  BY DEF Forget
<1>2. InDoubt(p) /\ req[p] \in Requests
  BY DEF Accounts, Account
<1>3. Kept(p) /\ Kept(p)'
  BY <1>1, <1>2, InputAssumption DEF Kept, RequestType, NoRequest
<1>4. /\ pc'[p] = "ready" /\ req' = [req EXCEPT ![p] = req'[p]]
      /\ err' = [err EXCEPT ![p] = err'[p]] /\ err'[p] = err[p] /\ req'[p] = req[p]
  BY <1>1 DEF TypeOK
<1>5. Stage[p] = "decided" /\ Verdict[p] = err[p] /\ Size[p] = req[p].n
  BY StagesMap DEF StageAt, VerdictAt
<1>6. Stage' = [Stage EXCEPT ![p] = "abandoned"]
  BY <1>3, <1>4, CallMoves DEF StageAt
<1>7. Size' = Size
  BY <1>1 DEF Size
<1>8. Verdict' = Verdict
  <2>1. Verdict' = [Verdict EXCEPT ![p] = err[p]]
    BY <1>3, <1>4, CallMoves DEF VerdictAt
  <2> QED
    BY <1>5, <2>1 DEF Verdict
<1> QED
  BY <1>1, <1>2, <1>5, <1>6, <1>7, <1>8 DEF Service!Abandon, Service!InDoubt, InDoubt

-----------------------------------------------------------------------------
(* The server.                                                             *)

\* What the server answers is the AUTH of a handshake, or the next command of a
\* call that is under way ...
LEMMA ServeExecutes ==
  ASSUME TypeOK, Accounts, NEW c \in Conns, Serve(c)
  PROVE  \/ UNCHANGED Service!vars
         \/ \E p \in Callers : Service!Execute(p)
<1>1. PICK p \in Callers : Serves(p, c)
  BY ServesACall
<1>2. UNCHANGED <<Stage, Size, Verdict>>
  BY DEF Serve, Stage, Size, Verdict, Abandoned
<1>3. CASE ServesAuth(p)
  BY <1>2, <1>3 DEF ServesAuth, Service!vars
<1>4. CASE ServesNext(p)
  <2>1. Stage[p] = "admitted" /\ Size[p] = req[p].n
    BY <1>1, StagesMap DEF Serves, StageAt
  <2> QED
    BY <1>2, <1>4, <2>1 DEF ServesNext, Service!Execute
<1> QED
  BY <1>1, <1>3, <1>4 DEF Serves

\* ... or of one that was given up in doubt.
LEMMA ServeLateExecutes ==
  ASSUME TypeOK, Accounts, NEW p \in Callers, ServeLate(p)
  PROVE  Service!Execute(p)
<1>1. /\ Len(exec[p]) < req[p].n
      /\ exec' = [exec EXCEPT ![p] = Append(exec[p], Len(exec[p]) + 1)]
  BY ServesLate
<1>2. UNCHANGED <<Stage, Size, Verdict>>
  BY DEF ServeLate, Stage, Size, Verdict, Abandoned
<1>3. /\ pc[p] \in {"release", "ready"} /\ InDoubt(p)
      /\ pc[p] = "ready" => Kept(p)
  BY DEF ServeLate, Accounts, Account, Kept
<1>4. Verdict[p] = err[p] /\ Size[p] = req[p].n
  BY <1>3, StagesMap DEF VerdictAt
<1> QED
  BY <1>1, <1>2, <1>3, <1>4 DEF Service!Execute, Service!InDoubt, InDoubt

-----------------------------------------------------------------------------
(* Every step.                                                             *)

LEMMA ServiceInit == Init => Service!Init
<1> SUFFICES ASSUME Init PROVE Service!Init
  OBVIOUS
<1> QED
  BY DEF Init, NoRequest, Service!Init, Stage, Size, Verdict, Abandoned

LEMMA ServiceStep ==
  TypeOK /\ Ownership /\ Accounts /\ SlotsExact /\ [Next]_vars
    => [Service!Next]_(Service!vars)
<1> SUFFICES ASSUME TypeOK, Ownership, Accounts, SlotsExact, [Next]_vars
             PROVE  Service!Next \/ UNCHANGED Service!vars
  OBVIOUS
<1> USE DEF Goto
<1>0. err \in [Callers -> Errors] /\ pc \in [Callers -> Labels]
  BY DEF TypeOK
<1>1. ASSUME NEW p \in Callers, Begin(p) PROVE Service!Next
  <2> PICK r \in Requests : /\ pc[p] = "ready" /\ pc' = [pc EXCEPT ![p] = "acquire"]
                            /\ req' = [req EXCEPT ![p] = r]
                            /\ err' = [err EXCEPT ![p] = "nil"]
                            /\ exec' = [exec EXCEPT ![p] = <<>>]
    BY <1>1 DEF Begin
  <2>1. Stage[p] \in {"ready", "abandoned"}
    BY StagesMap DEF StageAt
  <2>2. pc'[p] = "acquire" /\ req'[p] = r /\ err'[p] = "nil"
    BY DEF TypeOK
  <2>3. /\ Stage' = [Stage EXCEPT ![p] = "waiting"]
        /\ Size' = [Size EXCEPT ![p] = r.n]
        /\ Verdict' = [Verdict EXCEPT ![p] = "none"]
    BY <2>2, CallMoves DEF StageAt, VerdictAt
  <2> QED
    BY <2>1, <2>3 DEF Service!Next, Service!Issue
<1>2. ASSUME NEW p \in Callers, Acquire(p) PROVE Service!Next
  <2>1. /\ pc[p] = "acquire" /\ pc' = [pc EXCEPT ![p] = "get"]
        /\ UNCHANGED <<req, err, exec>>
    BY <1>2 DEF Acquire, callVars
  <2>2. Stage[p] = "waiting" /\ Verdict[p] = "none"
    BY <2>1, StagesMap DEF StageAt, VerdictAt
  <2>3. /\ pc'[p] = "get" /\ req' = [req EXCEPT ![p] = req'[p]]
        /\ err' = [err EXCEPT ![p] = err'[p]]
    BY <2>1 DEF TypeOK
  <2>4. Stage' = [Stage EXCEPT ![p] = "admitted"]
    BY <2>1, <2>3, CallMoves DEF StageAt
  <2>5. Size' = Size
    BY <2>1 DEF Size
  <2>6. Verdict' = Verdict
    BY <2>1 DEF Verdict, Abandoned, TypeOK
  <2>7. (IF Limited THEN CfgMaxActive ELSE 0) > 0
          => Service!Cardinality(Service!InFlight) < (IF Limited THEN CfgMaxActive ELSE 0)
    BY <1>2, SameCount DEF Acquire, SlotsExact
  <2>8. Service!Admit(p)
    BY <2>1, <2>2, <2>4, <2>5, <2>6, <2>7 DEF Service!Admit
  <2> QED
    BY <2>8 DEF Service!Next
<1>3. ASSUME NEW p \in Callers, AcquireDone(p) \/ Release(p) PROVE Service!Next
  <2>1. pc' = [pc EXCEPT ![p] = "ready"] /\ Forget(p) /\ pc[p] \in {"acquire", "release"}
    BY <1>3 DEF AcquireDone, Release
  <2>2. CASE behind[p] = <<>>
    BY <2>1, <2>2, Returns DEF Service!Next
  <2>3. CASE behind[p] # <<>>
    <3>1. pc[p] = "release"
      BY <2>1, <2>3 DEF Accounts, Account
    <3> QED
      BY <2>1, <2>3, <3>1, Abandons DEF Service!Next
  <2> QED
    BY <2>2, <2>3
<1>4. ASSUME NEW p \in Callers, GetClosed(p) \/ DialFail(p) PROVE Service!Next
  <2>1. err' = [err EXCEPT ![p] = err'[p]] /\ err'[p] \in {"closed", "fatal"}
    BY <1>0, <1>4 DEF GetClosed, DialFail
  <2>2. exec[p] = <<>>
    BY <1>4 DEF GetClosed, DialFail, Accounts, Account
  <2>3. Service!Decide(p, err'[p])
    BY <1>4, <2>1, <2>2, Decides DEF GetClosed, DialFail, callVars, Service!Results
  <2> QED
    BY <2>1, <2>3 DEF Service!Next, Service!Results
<1>5. ASSUME NEW p \in Callers, Put(p) \/ Drop(p) PROVE Service!Next
  <2>1. /\ pc[p] \in {"put", "drop"} /\ pc' = [pc EXCEPT ![p] = "release"]
        /\ UNCHANGED <<req, err, exec>>
    BY <1>5 DEF Put, Drop, callVars
  <2>2. /\ err[p] \in Errors \ {"closed"}
        /\ err[p] = "nil" => Len(exec[p]) = req[p].n
        /\ err[p] = "server" => Len(exec[p]) \in {0, req[p].n}
    BY <1>0, <2>1 DEF Accounts, Account
  <2>3. err'[p] \in Service!Results /\ err'[p] # "closed" /\ err' = [err EXCEPT ![p] = err'[p]]
    BY <1>0, <2>1, <2>2 DEF Service!Results, Errors
  <2>4. Service!Decide(p, err'[p])
    BY <2>1, <2>2, <2>3, Decides
  <2> QED
    BY <2>3, <2>4 DEF Service!Next
<1>6. ASSUME NEW p \in Callers,
             \/ GetIdle(p) \/ GetNone(p) \/ DialOk(p) \/ AuthSend(p)
             \/ AuthRead(p) \/ AuthRefused(p) \/ AuthFail(p)
      PROVE  UNCHANGED Service!vars
  <2>1. /\ pc' = [pc EXCEPT ![p] = pc'[p]] /\ err' = [err EXCEPT ![p] = err'[p]]
        /\ UNCHANGED <<req, exec>>
        /\ {pc[p], pc'[p]} \cap {"ready", "acquire", "release"} = {}
    BY <1>0, <1>6
    DEF GetIdle, GetNone, DialOk, AuthSend, AuthRead, AuthRefused, AuthFail, callVars
  <2> QED
    BY <2>1, Unseen
<1>7. ASSUME NEW p \in Callers,
             \/ Arm(p) \/ SendOk(p) \/ SendFail(p) \/ Read(p) \/ ReadFail(p)
             \/ Stop(p) \/ PutRefused(p)
      PROVE  UNCHANGED Service!vars
  <2>1. /\ pc' = [pc EXCEPT ![p] = pc'[p]] /\ err' = [err EXCEPT ![p] = err'[p]]
        /\ UNCHANGED <<req, exec>>
        /\ {pc[p], pc'[p]} \cap {"ready", "acquire", "release"} = {}
    BY <1>0, <1>7 DEF Arm, SendOk, SendFail, Read, ReadFail, Stop, PutRefused, callVars
  <2> QED
    BY <2>1, Unseen
<1>8. ASSUME UNCHANGED <<pc, err, req, exec>> PROVE UNCHANGED Service!vars
  BY <1>8 DEF Service!vars, Stage, Size, Verdict, Abandoned
<1>9. ASSUME NEW p \in Callers, Cancel(p) \/ FireWatch(p) \/ LoseLate(p)
      PROVE  UNCHANGED Service!vars
  BY <1>8, <1>9 DEF Cancel, FireWatch, LoseLate, callVars
<1>10. ASSUME NEW c \in Conns, CloseDoomed(c) \/ CloseReaped(c) \/ Expire(c) \/ Hangup(c)
       PROVE  UNCHANGED Service!vars
  BY <1>8, <1>10 DEF CloseDoomed, CloseReaped, Expire, Hangup, callVars
<1>11. CASE Close \/ UNCHANGED vars
  BY <1>8, <1>11 DEF Close, vars, callVars
<1>12. ASSUME NEW c \in Conns, Serve(c) PROVE Service!Next \/ UNCHANGED Service!vars
  BY <1>12, ServeExecutes DEF Service!Next
<1>13. ASSUME NEW p \in Callers, ServeLate(p) PROVE Service!Next
  BY <1>13, ServeLateExecutes DEF Service!Next
<1> QED
  BY <1>1, <1>2, <1>3, <1>4, <1>5, <1>6, <1>7, <1>9, <1>10, <1>11, <1>12, <1>13 DEF Next, Step

\* Unless a reply is an array with an error in it, the pool implements
\* CommandService: a call's commands run in order and at most once each, all of them
\* if it returns a reply, all or none if it returns a server error (none when it was
\* the handshake that the server refused, conn.go:185-187), none if it returns
\* ErrClosed, and after its return only if its connection broke or its context ended
\* (conn.go:234-238, 250-252, 296-303); no more than MaxActive calls are let through
\* (conn.go:132-148).
THEOREM ServiceImplemented ==
  ASSUME "nested" \notin Replies
  PROVE  Spec => ImplementsService
<1> DEFINE Inv == TypeOK /\ Ownership /\ Accounts /\ SlotsExact
<1>1. Init => Inv /\ Service!Init
  BY TypeInit, OwnershipInit, AccountsInit, SlotsInit, ServiceInit
<1>2. Inv /\ [Next]_vars => Inv'
  BY TypeStep, OwnershipStep, AccountsStep, SlotsStep
<1>3. Inv /\ [Next]_vars => [Service!Next]_(Service!vars)
  BY ServiceStep
<1> QED
  BY <1>1, <1>2, <1>3, PTL DEF Spec, ImplementsService, Service!Spec
=============================================================================
