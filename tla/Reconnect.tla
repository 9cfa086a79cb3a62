------------------------------ MODULE Reconnect ------------------------------
(***************************************************************************)
(* The loop that keeps a live fence open (README.md:307-339, compiled as   *)
(* ExampleStream_reconnect): Fence, Next until the stream fails, again,    *)
(* with a delay that doubles from one failed attempt to the next.  It is   *)
(* composed with streams as EventLog has them, which module Stream is      *)
(* shown to implement, against a server that goes down, comes back and may *)
(* reject the fence.                                                       *)
(***************************************************************************)
EXTENDS Naturals

CONSTANTS
  MinDelay, MaxDelay,  \* of the backoff, in milliseconds
  MaxEvents            \* bound: events in the fenced area

ASSUME ReconnectAssumption ==
  /\ MinDelay \in Nat \ {0} /\ MaxDelay \in Nat /\ MinDelay <= MaxDelay
  /\ MaxEvents \in Nat

VARIABLES
  \* the loop: where it is, the delay, the error of the last Next, what ended it
  pc, delay, err, why,
  \* the stream: events sent on it, the last one Next handed out, whether it is over
  sent, seen, over,
  \* the context, whether Client.Close was called, the server
  ctx, poolClosed, server,
  \* events so far, and those whose payload does not decode
  happened, bad,
  \* history: attempts that failed since the last success, up to the longest delay;
  \* what has happened that may end the loop
  fails, causes

logVars == <<sent, seen, over>>
worldVars == <<ctx, poolClosed, server, happened, bad, causes>>
vars == <<pc, delay, err, why, logVars, worldVars, fails>>

Log == INSTANCE EventLog

Init ==
  /\ pc = "top" /\ delay = 0 /\ err = "none" /\ why = "none"
  /\ sent = 0 /\ seen = 0 /\ over = FALSE
  /\ ctx = "live" /\ poolClosed = FALSE /\ server \in {"up", "down"}
  /\ happened = 0 /\ bad = {}
  /\ fails = 0 /\ causes = {}

-----------------------------------------------------------------------------
(* Opening.                                                                *)

Return(cause) == pc' = "ended" /\ why' = cause

TopSleeps ==  \* mutant: time.Sleep instead of the select
  /\ pc = "top"
  /\ pc' = IF delay = 0 THEN "dial" ELSE "wait"
  /\ UNCHANGED <<delay, err, why, logVars, worldVars, fails>>

\* No delay, no look at the context.  A timer that has just been started is not
\* ready, so that a context that has ended ends the loop here.
Top ==
  /\ pc = "top"
  /\ IF delay = 0 THEN pc' = "dial" /\ UNCHANGED why
     ELSE IF ctx = "done" THEN Return("ctx")
     ELSE pc' = "wait" /\ UNCHANGED why
  /\ UNCHANGED <<delay, err, logVars, worldVars, fails>>

WaitNotOver == FALSE  \* mutant: the select has no timer

\* select takes either of two that are ready.
WaitOver ==
  /\ pc = "wait"
  /\ pc' = "dial"
  /\ UNCHANGED <<delay, err, why, logVars, worldVars, fails>>

WaitCancelled ==
  /\ pc = "wait" /\ ctx = "done"
  /\ Return("ctx")
  /\ UNCHANGED <<delay, err, logVars, worldVars, fails>>

\* Fence connects first: not with a context that has ended, nor after Client.Close.
DialOk ==
  /\ pc = "dial" /\ ctx = "live" /\ ~poolClosed /\ server # "down"
  /\ pc' = "ack"
  /\ UNCHANGED <<delay, err, why, logVars, worldVars, fails>>

Shorter(a, b) == IF a <= b THEN a ELSE b
Longer(a, b) == IF a >= b THEN a ELSE b

OpenFailsUncapped ==  \* mutant: the delay has no end
  /\ \/ pc = "dial" /\ (ctx = "done" \/ poolClosed \/ server = "down")
     \/ pc = "ack" /\ server = "down"
  /\ pc' = "top"
  /\ delay' = Longer(2 * delay, MinDelay)
  /\ fails' = IF delay = MaxDelay THEN fails ELSE fails + 1
  /\ UNCHANGED <<err, why, logVars, worldVars>>

\* Any error but a ServerError, ErrClosed included.
OpenFails ==
  /\ \/ pc = "dial" /\ (ctx = "done" \/ poolClosed \/ server = "down")
     \/ pc = "ack" /\ server = "down"
  /\ pc' = "top"
  /\ delay' = Shorter(Longer(2 * delay, MinDelay), MaxDelay)
  /\ fails' = IF delay = MaxDelay THEN fails ELSE fails + 1
  /\ UNCHANGED <<err, why, logVars, worldVars>>

OpenRejected ==
  /\ pc = "ack" /\ server = "rejecting"
  /\ Return("rejected")
  /\ UNCHANGED <<delay, err, logVars, worldVars, fails>>

OpenOkKeepsDelay ==  \* mutant: the delay is not reset
  /\ pc = "ack" /\ server = "up"
  /\ pc' = "next"
  /\ fails' = 0
  /\ sent' = happened /\ seen' = happened /\ over' = FALSE
  /\ UNCHANGED <<delay, err, why, worldVars>>

\* The server sends what happens from now on.
OpenOk ==
  /\ pc = "ack" /\ server = "up"
  /\ pc' = "next"
  /\ delay' = 0 /\ fails' = 0
  /\ sent' = happened /\ seen' = happened /\ over' = FALSE
  /\ UNCHANGED <<err, why, worldVars>>

-----------------------------------------------------------------------------
(* Reading.                                                                *)

Linked == pc \in {"next", "handle", "failed"}

NextEvent ==
  /\ pc = "next" /\ Log!Take
  /\ IF seen' \in bad THEN pc' = "failed" /\ err' = "decode"
     ELSE pc' = "handle" /\ UNCHANGED err
  /\ UNCHANGED <<delay, why, worldVars, fails>>

\* The program's handle(ev).
Handle ==
  /\ pc = "handle"
  /\ pc' = "next"
  /\ UNCHANGED <<delay, err, why, logVars, worldVars, fails>>

\* A stream that is over may still have events in its reader.
NextFails ==
  /\ pc = "next" /\ over
  /\ pc' = "failed"
  /\ err' = IF ctx = "done" THEN "ctx" ELSE "disconnected"
  /\ UNCHANGED <<delay, why, logVars, worldVars, fails>>

Reopen ==
  /\ pc = "failed" /\ err = "disconnected"
  /\ pc' = "top"
  /\ UNCHANGED <<delay, err, why, logVars, worldVars, fails>>

GiveUpAlways ==  \* mutant: a dropped connection ends the loop
  /\ pc = "failed"
  /\ Return(err)
  /\ UNCHANGED <<delay, err, logVars, worldVars, fails>>

GiveUp ==
  /\ pc = "failed" /\ err # "disconnected"
  /\ Return(err)
  /\ UNCHANGED <<delay, err, logVars, worldVars, fails>>

-----------------------------------------------------------------------------
(* The server, the network, the program.                                   *)

loopVars == <<pc, delay, err, why, fails>>

\* An event, sent when a stream is open.
Happens ==
  /\ happened < MaxEvents
  /\ happened' = happened + 1
  /\ \/ UNCHANGED <<bad, causes>>
     \/ bad' = bad \cup {happened'} /\ causes' = causes \cup {"decode"}
  /\ IF Linked /\ ~over THEN Log!Publish ELSE UNCHANGED logVars
  /\ UNCHANGED <<loopVars, ctx, poolClosed, server>>

Hangup == Linked /\ Log!Lose /\ UNCHANGED <<loopVars, worldVars>>

Server ==
  /\ server' \in {"up", "down", "rejecting"} \ {server}
  /\ causes' = IF server' = "rejecting" THEN causes \cup {"rejected"} ELSE causes
  /\ UNCHANGED <<loopVars, logVars, ctx, poolClosed, happened, bad>>

Cancel ==
  /\ ctx = "live"
  /\ ctx' = "done" /\ causes' = causes \cup {"ctx"}
  /\ UNCHANGED <<loopVars, logVars, poolClosed, server, happened, bad>>

\* The AfterFunc of the stream closes its connection.
Cut == Linked /\ ctx = "done" /\ Log!Lose /\ UNCHANGED <<loopVars, worldVars>>

ClosePool ==
  /\ ~poolClosed
  /\ poolClosed' = TRUE
  /\ UNCHANGED <<loopVars, logVars, ctx, server, happened, bad, causes>>

-----------------------------------------------------------------------------
Loop == \/ Top \/ WaitOver \/ WaitCancelled \/ DialOk \/ OpenFails \/ OpenRejected \/ OpenOk
        \/ NextEvent \/ Handle \/ NextFails \/ Reopen \/ GiveUp

Next == Loop \/ Happens \/ Hangup \/ Server \/ Cancel \/ Cut \/ ClosePool

Spec == Init /\ [][Next]_vars

\* The goroutine runs, its timer fires, Fence returns (OpenReturns of Stream), a
\* cancelled stream ends (NextUnblocks), and the program's handle returns.
FairSpec == Spec /\ WF_vars(Loop) /\ WF_vars(Cut)

-----------------------------------------------------------------------------
\* Every variable has its type; no stream hands out what was not sent on it, and
\* while it is not over what happens is sent.
TypeOK ==
  /\ pc \in {"top", "wait", "dial", "ack", "next", "handle", "failed", "ended"}
  /\ delay \in {0} \cup MinDelay..MaxDelay /\ fails \in Nat
  /\ err \in {"none", "disconnected", "ctx", "decode"}
  /\ why \in {"none", "ctx", "rejected", "decode"}
  /\ sent \in Nat /\ seen \in 0..sent /\ over \in BOOLEAN
  /\ ctx \in {"live", "done"} /\ poolClosed \in BOOLEAN
  /\ server \in {"up", "down", "rejecting"}
  /\ happened \in Nat /\ sent <= happened /\ (Linked /\ ~over => sent = happened)
  /\ bad \subseteq 1..happened /\ causes \subseteq {"ctx", "rejected", "decode"}

\* The delay is that of the attempts that failed in a row: none after a stream
\* that was open, then MinDelay, doubled each time, to MaxDelay and no further.
Doubled(k) == LET d[i \in 0..k] == IF i = 0 THEN MinDelay ELSE 2 * d[i - 1] IN d[k]
Backoff(k) == IF k = 0 THEN 0 ELSE Shorter(Doubled(k - 1), MaxDelay)
DelayDoubles == delay = Backoff(fails)

\* The program is given the events in order and none twice, with none left out
\* but between connections, and the loop ends for a cause only: cancelled, rejected
\* by the server, or a payload it cannot decode (README.md:323-335,
\* example_test.go:19-29).  A drop, a server that is down and a closed client are
\* none.
Promise == INSTANCE Feed WITH linked <- Linked
ImplementsFeed == Promise!Spec

\* A loop whose context has ended returns, from every point of it
\* (README.md:311-315).
CancelEnds == ctx = "done" ~> pc = "ended"

\* A server that stays up is found again, however long it was down and whatever it
\* drops afterwards.
Connected == Linked /\ ~over
Reopens ==
  <>[](server = "up" /\ ~poolClosed) => (pc = "top" ~> pc = "ended" \/ Connected)
=============================================================================
