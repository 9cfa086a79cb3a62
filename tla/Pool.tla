-------------------------------- MODULE Pool --------------------------------
(***************************************************************************)
(* The request/response transport of tile38.go: internal/conn/conn.go.     *)
(*                                                                         *)
(* Callers are goroutines inside Pool.Do or Pool.DoPipeline; each carries  *)
(* the locals of its current call.  A connection carries the state of its  *)
(* socket, the deadline set on it, and what is on its way: the commands    *)
(* written but not yet answered to the caller (pend, oldest first) and the *)
(* replies the server has produced for the first of them (rep).  What the  *)
(* server has of a call when its connection is closed stays with it, and   *)
(* may be executed after the call has returned (behind).                   *)
(*                                                                         *)
(* One step of a caller is what it does between two points at which        *)
(* another goroutine, the server or a timer can be observed: a critical    *)
(* section of Pool.mu, a channel operation on Pool.sem, a socket call, or  *)
(* a call to the function context.AfterFunc returned.                      *)
(***************************************************************************)
EXTENDS Integers, Sequences, FiniteSets

CONSTANTS
  Callers,       \* goroutines issuing commands on one pool, one after the other;
                 \* a new one only when the server has nothing left of the last
  Conns,         \* connection identities; a closed one is used again by Dial
  None,          \* "this caller holds no connection"
  CfgMaxIdle,    \* Config.MaxIdle, before NewPool normalises it
  CfgMaxActive,  \* Config.MaxActive
  CfgTimeout,    \* Config.Timeout by sign: negative, 0 (unset) or positive
  Password,      \* whether Config.Password is set
  Requests,      \* the calls a caller may issue
  Replies        \* the kinds of reply the server may send

\* A call: its number of commands, whether one of its arguments cannot be
\* encoded, whether its context carries a deadline.
RequestType == [n : Nat \ {0}, bad : BOOLEAN, deadline : BOOLEAN]

\* What a reply is to ReadReply: a value, "-ERR ...", an array with an error
\* in it, or bytes that are no reply at all.
ReplyKinds == {"ok", "err", "nested", "bad"}

\* ... "rest" is what remains of an array ReadReply gave up on, and "lost" a
\* reply that was sent on a connection which is no longer open.
Unread == ReplyKinds \cup {"rest", "lost"}

ASSUME ConfigAssumption ==
  /\ CfgMaxIdle \in Int /\ CfgMaxActive \in Int /\ CfgTimeout \in Int
  /\ Password \in BOOLEAN
  /\ IsFiniteSet(Callers)
  /\ None \notin Conns

ASSUME InputAssumption ==
  /\ Requests \subseteq RequestType
  /\ Replies \subseteq ReplyKinds

\* NewPool's normalisation of its Config.
MaxIdle == IF CfgMaxIdle <= 0 THEN 8 ELSE CfgMaxIdle
HasTimeoutUnlessUnset == CfgTimeout > 0  \* mutant: an unset timeout is none
HasTimeout == CfgTimeout >= 0
Limited == CfgMaxActive > 0

VARIABLES
  \* the callers: where each is, its call, whether its context is done, its
  \* AfterFunc, its connection, the replies it has read, its error
  pc, req, ctx, watch, cur, got, err,
  \* the pool: slots in use, idle connections, Close called, connections Close
  \* took out and has still to close
  slots, idle, closed, reap,
  \* the connections: socket, deadline, commands and replies on their way,
  \* connections a closing goroutine is about to close
  sock, dl, pend, rep, doomed,
  \* what the server has of a call whose connection this side has closed
  behind,
  \* history: the commands of the call the server has executed, in the order it
  \* did, and whether the call began after Close
  exec, late

callVars == <<req, ctx, got, exec, late, behind>>
poolVars == <<slots, idle, closed, reap>>
connVars == <<sock, dl, doomed>>
wireVars == <<pend, rep>>
vars == <<pc, cur, watch, err, callVars, poolVars, connVars, wireVars>>

Labels == {"ready", "acquire", "get", "dial", "auth", "authread", "arm",
           "send", "read", "stop", "put", "drop", "release"}

\* The error of a call: none, a server error, anything that breaks the
\* connection, the context's error, ErrClosed.
Errors == {"nil", "server", "fatal", "ctx", "closed"}

NoRequest == [n |-> 0, bad |-> FALSE, deadline |-> FALSE]

\* The connections get may hand out.
Pooled == {idle[i] : i \in DOMAIN idle}

\* The i-th command of the call p is in; 0 is the AUTH of its Dial.
Cmd(p, i) == <<p, i>>
CmdIds == Callers \X Nat

\* The server executes a command.
Executes(cmd) ==
  exec' = IF cmd[2] = 0 THEN exec
          ELSE [exec EXCEPT ![cmd[1]] = Append(exec[cmd[1]], cmd[2])]

Goto(p, from, to) == pc[p] = from /\ pc' = [pc EXCEPT ![p] = to]

\* A socket call may fail once either side has closed, or the deadline passed.
MayFail(c) == sock[c] # "open" \/ dl[c] = "past"

\* A connection identity nothing refers to any more.
Unused(c) == /\ sock[c] = "closed"
             /\ c \notin Pooled \cup reap \cup doomed
             /\ \A q \in Callers : cur[q] # c

\* nc.Close: what is on the wire stays readable only as far as the caller's
\* buffer already holds it, and no deadline applies any more.
CloseSocket(c) == /\ sock' = [sock EXCEPT ![c] = "closed"]
                  /\ dl' = [dl EXCEPT ![c] = "none"]

\* The commands of a call that are written on its connection and that the server
\* has not come to.  What becomes of an AUTH, which is none of them, is not followed.
LeftOn(c) == IF pend[c] # <<>> /\ Head(pend[c])[2] = 0 THEN <<>>
             ELSE SubSeq(pend[c], Len(rep[c]) + 1, Len(pend[c]))

Init ==
  /\ pc = [p \in Callers |-> "ready"]
  /\ req = [p \in Callers |-> NoRequest]
  /\ ctx = [p \in Callers |-> "live"]
  /\ watch = [p \in Callers |-> "off"]
  /\ cur = [p \in Callers |-> None]
  /\ got = [p \in Callers |-> 0]
  /\ err = [p \in Callers |-> "nil"]
  /\ exec = [p \in Callers |-> <<>>]
  /\ behind = [p \in Callers |-> <<>>]
  /\ late = [p \in Callers |-> FALSE]
  /\ slots = 0 /\ idle = <<>> /\ closed = FALSE /\ reap = {}
  /\ sock = [c \in Conns |-> "closed"]
  /\ dl = [c \in Conns |-> "none"]
  /\ pend = [c \in Conns |-> <<>>]
  /\ rep = [c \in Conns |-> <<>>]
  /\ doomed = {}

-----------------------------------------------------------------------------
(* One call, step by step.                                                 *)

\* A caller enters Do or DoPipeline with a fresh context.  DoPipeline encodes
\* its batch before anything else, so a batch that cannot be encoded ends
\* there; Do encodes its one command on the connection (SendFail).
Begin(p) ==
  \E r \in Requests :
    /\ r.bad => r.n = 1
    /\ behind[p] = <<>>
    /\ Goto(p, "ready", "acquire")
    /\ req' = [req EXCEPT ![p] = r]
    /\ err' = [err EXCEPT ![p] = "nil"]
    /\ exec' = [exec EXCEPT ![p] = <<>>]
    /\ late' = [late EXCEPT ![p] = closed]
    /\ UNCHANGED <<cur, watch, ctx, got, behind, poolVars, connVars, wireVars>>

\* The call returns, and its locals are forgotten.  What it was is kept, as
\* history, when it has left commands behind.
Forget(p) ==
  /\ ctx' = [ctx EXCEPT ![p] = "live"]
  /\ got' = [got EXCEPT ![p] = 0]
  /\ late' = [late EXCEPT ![p] = FALSE]
  /\ IF behind[p] # <<>> THEN UNCHANGED <<req, err, exec>>
     ELSE /\ req' = [req EXCEPT ![p] = NoRequest]
          /\ err' = [err EXCEPT ![p] = "nil"]
          /\ exec' = [exec EXCEPT ![p] = <<>>]
  /\ UNCHANGED behind

\* acquire: the select takes a slot, or sees the context done.  When both are
\* possible Go picks either.
Acquire(p) ==
  /\ Goto(p, "acquire", "get")
  /\ Limited => slots < CfgMaxActive
  /\ slots' = IF Limited THEN slots + 1 ELSE slots
  /\ UNCHANGED <<cur, watch, err, idle, closed, reap, callVars, connVars, wireVars>>

AcquireDone(p) ==
  /\ Goto(p, "acquire", "ready")
  /\ Limited /\ ctx[p] = "done"
  /\ Forget(p)
  /\ UNCHANGED <<cur, watch, poolVars, connVars, wireVars>>

\* get, one critical section: the pool is closed, or hands out its most
\* recently used connection, or has none and leaves the caller to dial.
GetClosedKeepsSlot(p) ==  \* mutant: the early return skips release
  /\ Goto(p, "get", "ready")
  /\ closed
  /\ Forget(p)
  /\ UNCHANGED <<cur, watch, poolVars, connVars, wireVars>>

GetClosed(p) ==
  /\ Goto(p, "get", "release")
  /\ closed
  /\ err' = [err EXCEPT ![p] = "closed"]
  /\ UNCHANGED <<cur, watch, callVars, poolVars, connVars, wireVars>>

GetIdleCopies(p) ==  \* mutant: the connection handed out stays in the list
  /\ Goto(p, "get", "arm")
  /\ ~closed /\ idle # <<>>
  /\ cur' = [cur EXCEPT ![p] = idle[Len(idle)]]
  /\ UNCHANGED <<watch, err, poolVars, callVars, connVars, wireVars>>

GetIdle(p) ==
  /\ Goto(p, "get", "arm")
  /\ ~closed /\ idle # <<>>
  /\ cur' = [cur EXCEPT ![p] = idle[Len(idle)]]
  /\ idle' = SubSeq(idle, 1, Len(idle) - 1)
  /\ UNCHANGED <<watch, err, slots, closed, reap, callVars, connVars, wireVars>>

GetNone(p) ==
  /\ Goto(p, "get", "dial")
  /\ ~closed /\ idle = <<>>
  /\ UNCHANGED <<cur, watch, err, callVars, poolVars, connVars, wireVars>>

\* Dial, with no lock held: the pool may close meanwhile.  A password adds an
\* AUTH round trip under its own deadline, which no cancellation interrupts.
DialOk(p) ==
  \E c \in Conns :
    /\ Goto(p, "dial", IF Password THEN "auth" ELSE "arm")
    /\ Unused(c) /\ ctx[p] = "live"
    /\ cur' = [cur EXCEPT ![p] = c]
    /\ sock' = [sock EXCEPT ![c] = "open"]
    /\ dl' = [dl EXCEPT ![c] = IF Password THEN "set" ELSE "none"]
    /\ pend' = [pend EXCEPT ![c] = <<>>]
    /\ rep' = [rep EXCEPT ![c] = <<>>]
    /\ UNCHANGED <<watch, err, doomed, callVars, poolVars>>

DialFail(p) ==
  /\ Goto(p, "dial", "release")
  /\ err' = [err EXCEPT ![p] = "fatal"]
  /\ UNCHANGED <<cur, watch, callVars, poolVars, connVars, wireVars>>

\* The first k commands of the call have been written to its connection.
Batch(p, k) == [i \in 1..k |-> Cmd(p, i)]

CanWrite(c) == sock[c] # "closed" /\ dl[c] # "past"

AuthSend(p) ==
  LET c == cur[p] IN
  /\ Goto(p, "auth", "authread")
  /\ CanWrite(c)
  /\ pend' = [pend EXCEPT ![c] = Append(pend[c], Cmd(p, 0))]
  /\ UNCHANGED <<cur, watch, err, rep, callVars, poolVars, connVars>>

AuthRead(p) ==
  LET c == cur[p] IN
  /\ Goto(p, "authread", "arm")
  /\ rep[c] # <<>> /\ Head(rep[c]) = "ok"
  /\ pend' = [pend EXCEPT ![c] = Tail(pend[c])]
  /\ rep' = [rep EXCEPT ![c] = Tail(rep[c])]
  /\ UNCHANGED <<cur, watch, err, callVars, poolVars, connVars>>

\* isServerError unwraps: an error inside an array counts as a server error.
IsServerError(kind) == kind \in {"err", "nested"}

\* Any failure of the handshake makes Dial close the connection and the call
\* return without giving it to the pool.  The server's refusal is wrapped, so it
\* stays a server error to who asks.
AuthRefused(p) ==
  LET c == cur[p] IN
  /\ Goto(p, "authread", "drop")
  /\ rep[c] # <<>> /\ IsServerError(Head(rep[c]))
  /\ err' = [err EXCEPT ![p] = "server"]
  /\ UNCHANGED <<cur, watch, callVars, poolVars, connVars, wireVars>>

AuthFail(p) ==
  LET c == cur[p] IN
  /\ \/ Goto(p, "auth", "drop") /\ MayFail(c)
     \/ /\ Goto(p, "authread", "drop")
        /\ MayFail(c) \/ (rep[c] # <<>> /\ Head(rep[c]) = "bad")
  /\ err' = [err EXCEPT ![p] = "fatal"]
  /\ UNCHANGED <<cur, watch, callVars, poolVars, connVars, wireVars>>

\* Mutant: without a deadline of its own, the call leaves the old one on.
DeadlineKept(p) == IF HasTimeout \/ req[p].deadline THEN "set" ELSE dl[cur[p]]

\* SetDeadline replaces whatever deadline the connection had.
Deadline(p) == IF HasTimeout \/ req[p].deadline THEN "set" ELSE "none"

ArmUnwatched(p) ==  \* mutant: no AfterFunc
  LET c == cur[p] IN
  /\ Goto(p, "arm", "send")
  /\ dl' = [dl EXCEPT ![c] = Deadline(p)]
  /\ UNCHANGED <<cur, watch, err, sock, doomed, callVars, poolVars, wireVars>>

\* roundtrip and DoPipeline: the call's deadline, and AfterFunc, which starts
\* the closing goroutine at once when the context is already done.
Arm(p) ==
  LET c == cur[p] IN
  /\ Goto(p, "arm", "send")
  /\ dl' = [dl EXCEPT ![c] = Deadline(p)]
  /\ watch' = [watch EXCEPT ![p] = IF ctx[p] = "done" THEN "fired" ELSE "armed"]
  /\ doomed' = IF ctx[p] = "done" THEN doomed \cup {c} ELSE doomed
  /\ UNCHANGED <<cur, err, sock, callVars, poolVars, wireVars>>

\* The whole batch goes out in one Write.
SendOk(p) ==
  LET c == cur[p] IN
  /\ Goto(p, "send", "read")
  /\ ~req[p].bad /\ CanWrite(c)
  /\ pend' = [pend EXCEPT ![c] = pend[c] \o Batch(p, req[p].n)]
  /\ UNCHANGED <<cur, watch, err, rep, callVars, poolVars, connVars>>

\* An argument Do cannot encode, or a Write that fails after delivering the
\* first k commands of the batch.
SendFail(p) ==
  LET c == cur[p] IN
  /\ Goto(p, "send", "stop")
  /\ \E k \in 0..(req[p].n - 1) :
       /\ IF req[p].bad THEN k = 0 ELSE MayFail(c)
       /\ pend' = [pend EXCEPT ![c] = pend[c] \o Batch(p, k)]
  /\ err' = [err EXCEPT ![p] = "fatal"]
  /\ UNCHANGED <<cur, watch, rep, callVars, poolVars, connVars>>

\* ReadReply takes one reply off the connection.  It gives up on an array at
\* the error inside it and leaves the rest of that array where it is.
Consume(c) ==
  IF Head(rep[c]) = "nested"
  THEN /\ rep' = [rep EXCEPT ![c] = <<"rest">> \o Tail(rep[c])]
       /\ UNCHANGED pend
  ELSE /\ rep' = [rep EXCEPT ![c] = Tail(rep[c])]
       /\ pend' = [pend EXCEPT ![c] = Tail(pend[c])]

\* DoPipeline reads one reply for every command, rejected ones included.
DrainedAtError(p) ==  \* mutant: the first rejection ends the loop
  got[p] + 1 = req[p].n \/ IsServerError(Head(rep[cur[p]]))
Drained(p) == got[p] + 1 = req[p].n

Read(p) ==
  LET c == cur[p]
      kind == Head(rep[c]) IN
  /\ pc[p] = "read" /\ rep[c] # <<>> /\ kind \notin {"bad", "lost"}
  /\ Goto(p, "read", IF Drained(p) THEN "stop" ELSE "read")
  /\ Consume(c)
  /\ got' = [got EXCEPT ![p] = got[p] + 1]
  /\ err' = [err EXCEPT ![p] =
               IF IsServerError(kind) /\ err[p] = "nil" THEN "server" ELSE err[p]]
  /\ UNCHANGED <<cur, watch, req, ctx, exec, late, behind, poolVars, connVars>>

ReadFailRetries(p) ==  \* mutant: the retry conn.go:193-195 speaks of
  LET c == cur[p] IN
  /\ Goto(p, "read", "get")
  /\ MayFail(c)
  /\ CloseSocket(c)
  /\ behind' = [behind EXCEPT ![p] = LeftOn(c)]
  /\ pend' = [pend EXCEPT ![c] = <<>>]
  /\ rep' = [rep EXCEPT ![c] = <<>>]
  /\ cur' = [cur EXCEPT ![p] = None]
  /\ watch' = [watch EXCEPT ![p] = "off"]
  /\ UNCHANGED <<err, doomed, req, ctx, got, exec, late, poolVars>>

ReadFail(p) ==
  LET c == cur[p] IN
  /\ Goto(p, "read", "stop")
  /\ MayFail(c) \/ (rep[c] # <<>> /\ Head(rep[c]) = "bad")
  /\ err' = [err EXCEPT ![p] = "fatal"]
  /\ UNCHANGED <<cur, watch, callVars, poolVars, connVars, wireVars>>

\* stop() disarms the closing goroutine, or reports that it has started: then
\* the call fails with the context's error whatever the reply was.
OutcomeIgnoresStop(p) == err[p]  \* mutant: what stop() says is ignored
Outcome(p) == IF watch[p] = "fired" THEN "ctx" ELSE err[p]

\* Only a reply or a server error leaves the connection in a known state.
ReusableAfterError(e) == e # "ctx"  \* mutant: isServerError not asked
Reusable(e) == e \in {"nil", "server"}

Stop(p) ==
  /\ Goto(p, "stop", IF Reusable(Outcome(p)) THEN "put" ELSE "drop")
  /\ err' = [err EXCEPT ![p] = Outcome(p)]
  /\ watch' = [watch EXCEPT ![p] = "off"]
  /\ UNCHANGED <<cur, callVars, poolVars, connVars, wireVars>>

\* put: a closed or full pool closes the connection instead, outside the lock.
HasRoomOneMore == ~closed /\ Len(idle) <= MaxIdle  \* mutant: off by one
HasRoomWhenClosed == Len(idle) < MaxIdle  \* mutant: closed not looked at
HasRoom == ~closed /\ Len(idle) < MaxIdle

Put(p) ==
  /\ Goto(p, "put", "release")
  /\ HasRoom
  /\ idle' = Append(idle, cur[p])
  /\ cur' = [cur EXCEPT ![p] = None]
  /\ UNCHANGED <<watch, err, slots, closed, reap, callVars, connVars, wireVars>>

PutRefusedLeaks(p) ==  \* mutant: put returns without closing
  /\ Goto(p, "put", "release")
  /\ ~HasRoom
  /\ cur' = [cur EXCEPT ![p] = None]
  /\ UNCHANGED <<watch, err, callVars, poolVars, connVars, wireVars>>

PutRefused(p) ==
  /\ Goto(p, "put", "drop")
  /\ ~HasRoom
  /\ UNCHANGED <<cur, watch, err, callVars, poolVars, connVars, wireVars>>

\* The caller closes its connection.  The replies on the wire concern nobody; the
\* commands the server has not come to are left behind.
Drop(p) ==
  LET c == cur[p] IN
  /\ Goto(p, "drop", "release")
  /\ CloseSocket(c)
  /\ behind' = [behind EXCEPT ![p] = LeftOn(c)]
  /\ pend' = [pend EXCEPT ![c] = <<>>]
  /\ rep' = [rep EXCEPT ![c] = <<>>]
  /\ cur' = [cur EXCEPT ![p] = None]
  /\ UNCHANGED <<watch, err, doomed, req, ctx, got, exec, late, poolVars>>

\* The deferred release, then the return to the caller.
Release(p) ==
  /\ Goto(p, "release", "ready")
  /\ slots' = IF Limited THEN slots - 1 ELSE slots
  /\ Forget(p)
  /\ UNCHANGED <<cur, watch, idle, closed, reap, connVars, wireVars>>

-----------------------------------------------------------------------------
(* Contexts, timers, Pool.Close and the server.                            *)

\* A context is cancelled, or its own deadline passes, at any time.
Cancel(p) ==
  /\ pc[p] # "ready" /\ ctx[p] = "live"
  /\ ctx' = [ctx EXCEPT ![p] = "done"]
  /\ UNCHANGED <<pc, cur, watch, err, req, got, exec, late, behind,
                 poolVars, connVars, wireVars>>

\* AfterFunc starts the function in a goroutine of its own ...
FireWatch(p) ==
  /\ watch[p] = "armed" /\ ctx[p] = "done"
  /\ watch' = [watch EXCEPT ![p] = "fired"]
  /\ doomed' = doomed \cup {cur[p]}
  /\ UNCHANGED <<pc, cur, err, sock, dl, callVars, poolVars, wireVars>>

\* ... which closes the connection when it gets to run, however late.
CloseDoomed(c) ==
  /\ c \in doomed
  /\ doomed' = doomed \ {c}
  /\ CloseSocket(c)
  /\ UNCHANGED <<pc, cur, watch, err, callVars, poolVars, wireVars>>

\* Pool.Close empties the pool under the lock (a second Close finds nothing),
\* then closes what it took, one connection at a time.
CloseForgets ==  \* mutant: the list is dropped, its connections stay open
  /\ ~closed
  /\ closed' = TRUE
  /\ idle' = <<>>
  /\ UNCHANGED <<pc, cur, watch, err, slots, reap, callVars, connVars, wireVars>>

Close ==
  /\ ~closed
  /\ closed' = TRUE
  /\ idle' = <<>>
  /\ reap' = reap \cup Pooled
  /\ UNCHANGED <<pc, cur, watch, err, slots, callVars, connVars, wireVars>>

CloseReaped(c) ==
  /\ c \in reap
  /\ reap' = reap \ {c}
  /\ CloseSocket(c)
  /\ UNCHANGED <<pc, cur, watch, err, slots, idle, closed, doomed,
                 callVars, wireVars>>

\* The deadline of a connection passes, in use or idle.
Expire(c) ==
  /\ dl[c] = "set"
  /\ dl' = [dl EXCEPT ![c] = "past"]
  /\ UNCHANGED <<pc, cur, watch, err, sock, doomed, callVars, poolVars, wireVars>>

\* The server executes the oldest command it has not come to and answers it, also
\* when the connection the command came on is open no more.
Serve(c) ==
  LET k == Len(rep[c]) + 1 IN
  /\ k <= Len(pend[c])
  /\ \E kind \in IF sock[c] = "open" THEN Replies ELSE {"lost"} :
       rep' = [rep EXCEPT ![c] = Append(rep[c], kind)]
  /\ Executes(pend[c][k])
  /\ UNCHANGED <<pc, cur, watch, err, req, ctx, got, late, behind, pend,
                 poolVars, connVars>>

\* The server goes on with what a call has left behind, while the call returns
\* and after it has ...
ServeLate(p) ==
  /\ behind[p] # <<>>
  /\ Executes(Head(behind[p]))
  /\ behind' = [behind EXCEPT ![p] = Tail(behind[p])]
  /\ UNCHANGED <<pc, cur, watch, err, req, ctx, got, late,
                 poolVars, connVars, wireVars>>

\* ... or never reads the rest.
LoseLate(p) ==
  /\ behind[p] # <<>>
  /\ behind' = [behind EXCEPT ![p] = <<>>]
  /\ UNCHANGED <<pc, cur, watch, err, req, ctx, got, exec, late,
                 poolVars, connVars, wireVars>>

\* The server closes the connection, or the network loses it.
Hangup(c) ==
  /\ sock[c] = "open"
  /\ sock' = [sock EXCEPT ![c] = "hungup"]
  /\ UNCHANGED <<pc, cur, watch, err, dl, doomed, callVars, poolVars, wireVars>>

-----------------------------------------------------------------------------
\* The steps a call takes on its own once it has begun, waiting for a slot
\* apart.
Step(p) == \/ AcquireDone(p) \/ GetClosed(p) \/ GetIdle(p) \/ GetNone(p)
           \/ DialOk(p) \/ DialFail(p)
           \/ AuthSend(p) \/ AuthRead(p) \/ AuthRefused(p) \/ AuthFail(p)
           \/ Arm(p) \/ SendOk(p) \/ SendFail(p) \/ Read(p) \/ ReadFail(p)
           \/ Stop(p) \/ Put(p) \/ PutRefused(p) \/ Drop(p) \/ Release(p)

Next ==
  \/ \E p \in Callers :
       \/ Begin(p) \/ Acquire(p) \/ Step(p) \/ Cancel(p) \/ FireWatch(p)
       \/ ServeLate(p) \/ LoseLate(p)
  \/ \E c \in Conns : \/ CloseDoomed(c) \/ CloseReaped(c) \/ Expire(c)
                      \/ Serve(c) \/ Hangup(c)
  \/ Close

Spec == Init /\ [][Next]_vars

\* Goroutines that can run do run, and timers fire.  A goroutine blocked on
\* the slot channel is served in its turn, since the runtime queues senders.
\* Nothing is assumed of the server, of contexts or of Close.
Fairness ==
  /\ \A p \in Callers : /\ WF_vars(Step(p))
                        /\ SF_vars(Acquire(p))
                        /\ WF_vars(FireWatch(p))
  /\ \A c \in Conns : /\ WF_vars(CloseDoomed(c))
                      /\ WF_vars(CloseReaped(c))
                      /\ WF_vars(Expire(c))

FairSpec == Spec /\ Fairness

-----------------------------------------------------------------------------
(* Safety.                                                                 *)

Held == {cur[p] : p \in Callers} \ {None}
InFlight == {p \in Callers : pc[p] \notin {"ready", "acquire"}}
Holding == {"auth", "authread", "arm", "send", "read", "stop", "put", "drop"}

\* Every variable has its type, a caller holds a connection exactly between get
\* and put or Close and is watched by AfterFunc only while it uses it, the pool
\* keeps at most MaxIdle connections (conn.go:214), and the server answers no more than it was asked.
TypeOK ==
  /\ pc \in [Callers -> Labels]
  /\ req \in [Callers -> Requests \cup {NoRequest}]
  /\ ctx \in [Callers -> {"live", "done"}]
  /\ watch \in [Callers -> {"off", "armed", "fired"}]
  /\ cur \in [Callers -> Conns \cup {None}]
  /\ \A p \in Callers : cur[p] # None <=> pc[p] \in Holding
  /\ \A p \in Callers : watch[p] # "off" => pc[p] \in {"send", "read", "stop"}
  /\ got \in [Callers -> Nat]
  /\ err \in [Callers -> Errors]
  /\ exec \in [Callers -> Seq(Nat)] /\ behind \in [Callers -> Seq(CmdIds)]
  /\ late \in [Callers -> BOOLEAN]
  /\ slots \in Int
  /\ idle \in Seq(Conns) /\ Len(idle) <= MaxIdle
  /\ closed \in BOOLEAN
  /\ reap \subseteq Conns /\ doomed \subseteq Conns
  /\ sock \in [Conns -> {"open", "hungup", "closed"}]
  /\ dl \in [Conns -> {"none", "set", "past"}]
  /\ pend \in [Conns -> Seq(CmdIds)]
  /\ rep \in [Conns -> Seq(Unread)]
  /\ \A c \in Conns : Len(rep[c]) <= Len(pend[c])

\* A connection is in one place at a time: with one caller, or once in the
\* pool, or being closed by Close.  Two goroutines never share a socket and
\* its bufio.Reader (conn.go:196-221, 152-161).
Exclusive ==
  /\ \A i, j \in DOMAIN idle : idle[i] = idle[j] => i = j
  /\ \A p, q \in Callers : cur[p] = cur[q] /\ cur[p] # None => p = q
  /\ Pooled \cap Held = {} /\ reap \cap (Pooled \cup Held) = {}

\* No socket is leaked: an open connection is in the pool, with a caller or
\* with Close, each of which will close it or pass it on (conn.go:186, 220).
OpenIsOwned ==
  \A c \in Conns : sock[c] # "closed" => c \in Pooled \cup Held \cup reap

\* The closing goroutine of a finished call never touches a connection that
\* went back to the pool: once stop() has returned true it will not run
\* (conn.go:248-252, 295-298).
NoLateClose == \A c \in Pooled : sock[c] # "closed" /\ c \notin doomed

\* A connection in the pool has no command on its way and no reply unread, so
\* the next call cannot read an answer meant for an earlier one
\* (conn.go:231-235: "drop it instead of poisoning the pool").
PooledIsQuiet == \A c \in Pooled : pend[c] = <<>> /\ rep[c] = <<>>

\* "An error nested in an array leaves the stream mid-value, so it is fatal to
\* the connection rather than an Error" (resp.go:154-155): a connection in the
\* pool is never in the middle of a reply.
NestedErrorIsFatal ==
  \A c \in Pooled : rep[c] # <<>> => Head(rep[c]) # "rest"

\* What a call is waiting to read is the answers to its own commands, to all
\* those it has not read the answer of, in order.
OwnReplies ==
  \A p \in Callers : pc[p] = "read" =>
    LET c == cur[p] IN
    /\ Len(pend[c]) = req[p].n - got[p]
    /\ \A i \in DOMAIN pend[c] : pend[c][i] = Cmd(p, got[p] + i)

\* Every call gives back the slot it took, on every path, and never more than
\* MaxActive calls are past acquire (conn.go:132-148, 228, 270).
SlotsExact == Limited => /\ slots = Cardinality(InFlight)
                         /\ slots <= CfgMaxActive

\* The deadline a call runs under is its own: none is left over from AUTH or
\* from the call that used the connection before (conn.go:79-90, 247, 275).
DeadlineIsOwn ==
  \A p \in Callers :
    pc[p] \in {"send", "read"} /\ sock[cur[p]] # "closed" =>
      (dl[cur[p]] = "none" <=> ~HasTimeout /\ ~req[p].deadline)

\* "ErrClosed is returned when a command is issued on a closed pool"
\* (conn.go:24): a call that begins after Close gets no connection, and no call
\* that was under way puts one into the closed pool.
ClosedIsFinal == /\ closed => idle = <<>>
                 /\ \A p \in Callers : late[p] => cur[p] = None /\ exec[p] = <<>>

-----------------------------------------------------------------------------
(* Liveness, under FairSpec.                                               *)

\* With a timeout every call returns, whatever the server does (conn.go:111-113:
\* without one "a wedged server hangs the caller forever").
CallReturns == \A p \in Callers : pc[p] # "ready" ~> pc[p] = "ready"

\* A call whose context is done returns, with no timeout configured and a
\* server that answers nothing (conn.go:244-245).
CancelReturns == \A p \in Callers : ctx[p] = "done" ~> pc[p] = "ready"

\* Once the pool is closed and the calls under way have ended, every connection
\* is closed and stays closed.
ClosedDrains == closed ~> [](\A c \in Conns : sock[c] = "closed")

-----------------------------------------------------------------------------
(* What callers see.                                                       *)

\* A call that has returned and left commands behind.
Abandoned(p) == pc[p] = "ready" /\ req[p] # NoRequest

Stage == [p \in Callers |-> CASE pc[p] = "ready" -> IF Abandoned(p) THEN "abandoned" ELSE "ready"
                              [] pc[p] = "acquire" -> "waiting"
                              [] pc[p] = "release" -> "decided"
                              [] OTHER -> "admitted"]
Size == [p \in Callers |-> req[p].n]
Verdict == [p \in Callers |->
              IF pc[p] = "release" \/ Abandoned(p) THEN err[p] ELSE "none"]

Service == INSTANCE CommandService WITH
  Limit <- IF Limited THEN CfgMaxActive ELSE 0,
  Sizes <- {r.n : r \in Requests},
  state <- Stage,
  size <- Size,
  ran <- exec,
  result <- Verdict

\* The pool implements CommandService: commands of a call run in order and at most
\* once each; all of them when it returns a reply; all or, the handshake refused
\* (conn.go:185-187), none when it returns a server error; none when it returns
\* ErrClosed; and after its return only when the connection broke or the context
\* ended (conn.go:234-238, 250-252, 296-303).
ImplementsService == Service!Spec
=============================================================================
