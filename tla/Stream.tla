------------------------------- MODULE Stream -------------------------------
(***************************************************************************)
(* A geofence stream of tile38.go (stream.go): its opening, by Fence,      *)
(* Subscribe or PSubscribe, one goroutine that calls Next, others that call*)
(* Close, and the context it was opened with.                              *)
(*                                                                         *)
(* A message is in one of two places: on the wire, where it is lost with   *)
(* the connection, or in the bufio.Reader of the Conn, where it stays      *)
(* readable after the connection is closed.  Events are numbered in the    *)
(* order the server sends them.                                            *)
(***************************************************************************)
EXTENDS Naturals, Sequences

CONSTANTS
  Closers,  \* goroutines that may call Close
  Acks,     \* what the server may answer to the opening command
  Pushes,   \* what it may send afterwards
  MaxPush   \* bound: messages the server sends

\* Answers to the command: the acknowledgement it calls for, another value, an
\* error, or bytes that are no reply.
AckKinds == {"ok", "wrong", "err", "garbage"}

\* A live fence sends bulk strings, channels send "message" and "pmessage"
\* pushes; "badjson" is one whose payload does not decode.  "note" is a further
\* acknowledgement or a PONG, "other" an integer or a nil.
EventKinds == {"bulk", "message", "pmessage", "badjson"}
PushKinds == EventKinds \cup {"note", "other", "err", "garbage"}

ASSUME StreamAssumption ==
  /\ Acks \subseteq AckKinds /\ Pushes \subseteq PushKinds
  /\ MaxPush \in Nat

VARIABLES
  \* the goroutine that opens the stream and calls Next: where it is, what Next
  \* last returned
  pc, last,
  \* the Stream: its closed flag, its sync.Once, its AfterFunc; its context
  closed, once, watch, ctx,
  \* the goroutines that call Close
  cpc,
  \* the connection: socket, deadline, messages on the wire and in the reader
  sock, dl, wire, buf,
  \* the client's pool has been closed
  poolClosed,
  \* history: messages and events the server has sent, the number of the last
  \* event Next returned, whether the server broke the connection or the protocol
  pushed, sent, seen, lost

readVars == <<pc, last, seen>>
closeVars == <<closed, once, cpc>>
connVars == <<sock, dl, wire, buf>>
serverVars == <<pushed, sent, lost>>
vars == <<readVars, closeVars, watch, ctx, connVars, poolClosed, serverVars>>

Messages == [kind : AckKinds \cup PushKinds, id : Nat]

Init ==
  /\ pc = "out" /\ last = "none"
  /\ closed = FALSE /\ once = "new" /\ watch = "off" /\ ctx = "live"
  /\ cpc = [q \in Closers |-> "out"]
  /\ sock = "none" /\ dl = "none" /\ wire = <<>> /\ buf = <<>>
  /\ poolClosed = FALSE
  /\ pushed = 0 /\ sent = 0 /\ seen = 0 /\ lost = FALSE

\* nc.Close: what has not reached the reader is gone.
CloseSocket == sock' = "closed" /\ dl' = "none" /\ wire' = <<>>

-----------------------------------------------------------------------------
(* Opening.                                                                *)

\* openStream: ErrClosed from a closed client.
OpenRefused ==
  /\ pc = "out" /\ poolClosed
  /\ pc' = "failed"
  /\ UNCHANGED <<last, seen, closeVars, watch, ctx, connVars, poolClosed,
                 serverVars>>

Open ==
  /\ pc = "out" /\ ~poolClosed
  /\ pc' = "dial"
  /\ UNCHANGED <<last, seen, closeVars, watch, ctx, connVars, poolClosed,
                 serverVars>>

NoHandshakeDeadline == "none"  \* mutant: no SetDeadline before the command
HandshakeDeadline == "set"

\* Pool.Dial (module Pool goes through it, AUTH included), then the deadline for
\* the acknowledgement.
DialOk ==
  /\ pc = "dial" /\ ctx = "live"
  /\ pc' = "ack"
  /\ sock' = "open"
  /\ dl' = HandshakeDeadline
  /\ UNCHANGED <<last, seen, closeVars, watch, ctx, wire, buf, poolClosed,
                 serverVars>>

DialFail ==
  /\ pc = "dial"
  /\ pc' = "failed"
  /\ UNCHANGED <<last, seen, closeVars, watch, ctx, connVars, poolClosed,
                 serverVars>>

\* A bufio.Reader with nothing buffered takes what has arrived, as much of it as
\* one Read returns.  The deadline applies to arrived data too.
Fill ==
  /\ pc \in {"ack", "reading"}
  /\ buf = <<>> /\ wire # <<>> /\ dl # "past"
  /\ \E k \in 1..Len(wire) : /\ buf' = SubSeq(wire, 1, k)
                             /\ wire' = SubSeq(wire, k + 1, Len(wire))
  /\ UNCHANGED <<readVars, closeVars, watch, ctx, sock, dl, poolClosed, serverVars>>

\* The Read fails: closed here, hung up with nothing left, or out of time.
ReadFails == /\ buf = <<>>
             /\ \/ sock = "closed"
                \/ sock = "hungup" /\ wire = <<>>
                \/ dl = "past"

StreamDeadlineKept == dl  \* mutant: the handshake deadline stays on
StreamDeadline == "none"

NewStreamUnwatched == watch' = "off"  \* mutant: no AfterFunc

\* newStream: AfterFunc starts its goroutine at once on a finished context.
NewStream == watch' = IF ctx = "done" THEN "fired" ELSE "armed"

\* The acknowledgement: +OK for a fence, an array for a subscription.
AckOk ==
  /\ pc = "ack" /\ buf # <<>> /\ Head(buf).kind = "ok"
  /\ pc' = "idle"
  /\ buf' = Tail(buf)
  /\ dl' = StreamDeadline
  /\ NewStream
  /\ UNCHANGED <<last, seen, closeVars, ctx, sock, wire, poolClosed,
                 serverVars>>

\* openStream gives up on a refusal, on garbage and on a failed read or write ...
AckFail ==
  /\ pc = "ack"
  /\ ReadFails \/ (buf # <<>> /\ Head(buf).kind \in {"err", "garbage"})
  /\ pc' = "failed"
  /\ CloseSocket
  /\ UNCHANGED <<last, seen, closeVars, watch, ctx, buf, poolClosed,
                 serverVars>>

\* ... and its callers on a reply that is no acknowledgement.
AckWrongLeaks ==  \* mutant: fenceStream forgets to close
  /\ pc = "ack" /\ buf # <<>> /\ Head(buf).kind = "wrong"
  /\ pc' = "failed"
  /\ UNCHANGED <<last, seen, closeVars, watch, ctx, connVars, poolClosed,
                 serverVars>>

AckWrong ==
  /\ pc = "ack" /\ buf # <<>> /\ Head(buf).kind = "wrong"
  /\ pc' = "failed"
  /\ CloseSocket
  /\ UNCHANGED <<last, seen, closeVars, watch, ctx, buf, poolClosed,
                 serverVars>>

-----------------------------------------------------------------------------
(* Next.                                                                   *)

NextCall ==
  /\ pc = "idle"
  /\ pc' = "reading"
  /\ UNCHANGED <<last, seen, closeVars, watch, ctx, connVars, poolClosed, serverVars>>

Returns(result) == pc' = "idle" /\ last' = result

\* pubsubPayload finds a payload in both kinds of push; a bulk string is one.
HasPayloadNoPattern(kind) == kind \in EventKinds \ {"pmessage"}  \* mutant
HasPayload(kind) == kind \in EventKinds

\* A payload is decoded and returned, with or without success.
NextEvent ==
  /\ pc = "reading" /\ buf # <<>>
  /\ LET m == Head(buf) IN
     /\ HasPayload(m.kind)
     /\ Returns(IF m.kind = "badjson" THEN "decode" ELSE "event")
     /\ seen' = m.id
  /\ buf' = Tail(buf)
  /\ UNCHANGED <<closeVars, watch, ctx, sock, dl, wire, poolClosed, serverVars>>

\* The loop goes on past acknowledgements and PONGs: any array without a payload.
NextSkip ==
  /\ pc = "reading" /\ buf # <<>>
  /\ LET kind == Head(buf).kind IN
     kind \in {"note", "message", "pmessage"} /\ ~HasPayload(kind)
  /\ buf' = Tail(buf)
  /\ UNCHANGED <<readVars, closeVars, watch, ctx, sock, dl, wire, poolClosed,
                 serverVars>>

NextUnexpected ==
  /\ pc = "reading" /\ buf # <<>> /\ Head(buf).kind = "other"
  /\ Returns("unexpected")
  /\ buf' = Tail(buf)
  /\ UNCHANGED <<seen, closeVars, watch, ctx, sock, dl, wire, poolClosed,
                 serverVars>>

\* ReadReply returned an error.  Why is asked only now, in two steps, while
\* others may close the stream or cancel the context.
NextBroken ==
  /\ pc = "reading"
  /\ \/ ReadFails /\ UNCHANGED buf
     \/ /\ buf # <<>> /\ Head(buf).kind \in {"err", "garbage"}
        /\ buf' = Tail(buf)
  /\ pc' = "broken"
  /\ UNCHANGED <<last, seen, closeVars, watch, ctx, sock, dl, wire,
                 poolClosed, serverVars>>

NextClosed ==
  /\ pc = "broken"
  /\ IF closed THEN Returns("eof") ELSE pc' = "cause" /\ UNCHANGED last
  /\ UNCHANGED <<seen, closeVars, watch, ctx, connVars, poolClosed, serverVars>>

NextDone ==
  /\ pc = "cause"
  /\ Returns(IF ctx = "done" THEN "ctx" ELSE "disconnected")
  /\ UNCHANGED <<seen, closeVars, watch, ctx, connVars, poolClosed, serverVars>>

-----------------------------------------------------------------------------
(* Close, the context, the server.                                         *)

Opened == pc \in {"idle", "reading", "broken", "cause"}

CloseEnterSilent(q) ==  \* mutant: the flag is not stored
  /\ Opened /\ cpc[q] = "out" /\ once = "new"
  /\ once' = "running"
  /\ cpc' = [cpc EXCEPT ![q] = "stop"]
  /\ UNCHANGED <<readVars, closed, watch, ctx, connVars, poolClosed, serverVars>>

\* The first Close runs the body of once.Do: the flag, stop(), the connection.
CloseEnter(q) ==
  /\ Opened /\ cpc[q] = "out" /\ once = "new"
  /\ once' = "running"
  /\ closed' = TRUE
  /\ cpc' = [cpc EXCEPT ![q] = "stop"]
  /\ UNCHANGED <<readVars, watch, ctx, connVars, poolClosed, serverVars>>

\* stop() forgets an AfterFunc that has not started and nothing else.
CloseStop(q) ==
  /\ cpc[q] = "stop"
  /\ cpc' = [cpc EXCEPT ![q] = "shut"]
  /\ watch' = IF watch = "armed" THEN "off" ELSE watch
  /\ UNCHANGED <<readVars, closed, once, ctx, connVars, poolClosed, serverVars>>

CloseShut(q) ==
  /\ cpc[q] = "shut"
  /\ cpc' = [cpc EXCEPT ![q] = "returned"]
  /\ once' = "done"
  /\ CloseSocket
  /\ UNCHANGED <<readVars, closed, watch, ctx, buf, poolClosed, serverVars>>

CloseAgainAtOnce(q) ==  \* mutant: a flag swapped atomically instead of a Once
  /\ cpc[q] = "out" /\ closed
  /\ cpc' = [cpc EXCEPT ![q] = "returned"]
  /\ UNCHANGED <<readVars, closed, once, watch, ctx, connVars, poolClosed, serverVars>>

\* Any other Close waits in once.Do until the first is through.
CloseAgain(q) ==
  /\ cpc[q] = "out" /\ once = "done"
  /\ cpc' = [cpc EXCEPT ![q] = "returned"]
  /\ UNCHANGED <<readVars, closed, once, watch, ctx, connVars, poolClosed, serverVars>>

Cancel ==
  /\ ctx = "live"
  /\ ctx' = "done"
  /\ UNCHANGED <<readVars, closeVars, watch, connVars, poolClosed, serverVars>>

\* AfterFunc starts its goroutine, which closes the connection.
FireWatch ==
  /\ watch = "armed" /\ ctx = "done"
  /\ watch' = "fired"
  /\ UNCHANGED <<readVars, closeVars, ctx, connVars, poolClosed, serverVars>>

RunWatch ==
  /\ watch = "fired"
  /\ watch' = "off"
  /\ CloseSocket
  /\ UNCHANGED <<readVars, closeVars, ctx, buf, poolClosed, serverVars>>

\* Client.Close marks the pool; a stream's connection does not belong to it.
ClosePool ==
  /\ ~poolClosed
  /\ poolClosed' = TRUE
  /\ UNCHANGED <<readVars, closeVars, watch, ctx, connVars, serverVars>>

Expire ==
  /\ dl = "set"
  /\ dl' = "past"
  /\ UNCHANGED <<readVars, closeVars, watch, ctx, sock, wire, buf, poolClosed,
                 serverVars>>

\* The server answers the command, then pushes what it likes; the first bytes
\* it sends are the answer.
Serve ==
  /\ sock = "open" /\ pushed < MaxPush
  /\ \E kind \in IF pushed = 0 THEN Acks ELSE Pushes :
       LET isEvent == pushed > 0 /\ kind \in EventKinds IN
       /\ sent' = IF isEvent THEN sent + 1 ELSE sent
       /\ wire' = Append(wire, [kind |-> kind, id |-> IF isEvent THEN sent + 1 ELSE 0])
       /\ lost' = (lost \/ kind \in {"err", "garbage"})
  /\ pushed' = pushed + 1
  /\ UNCHANGED <<readVars, closeVars, watch, ctx, sock, dl, buf, poolClosed>>

\* The connection breaks, and what has not arrived by then never does.
Hangup ==
  /\ sock = "open"
  /\ sock' = "hungup"
  /\ lost' = TRUE
  /\ \E k \in 0..Len(wire) : wire' = SubSeq(wire, 1, k)
  /\ UNCHANGED <<readVars, closeVars, watch, ctx, dl, buf, poolClosed, pushed, sent>>

-----------------------------------------------------------------------------
Opening == OpenRefused \/ Open \/ DialOk \/ DialFail \/ AckOk \/ AckFail \/ AckWrong
Reading == NextEvent \/ NextSkip \/ NextUnexpected \/ NextBroken \/ NextClosed \/ NextDone
Closing(q) == CloseEnter(q) \/ CloseStop(q) \/ CloseShut(q) \/ CloseAgain(q)

Next == \/ Opening \/ Fill \/ NextCall \/ Reading
        \/ \E q \in Closers : Closing(q)
        \/ Cancel \/ FireWatch \/ RunWatch \/ ClosePool \/ Expire \/ Serve \/ Hangup

Spec == Init /\ [][Next]_vars

\* The goroutine inside Fence or Next runs, a Close that has begun runs, the
\* AfterFunc runs and timers fire.  Nobody has to call Next, Close or cancel,
\* and the server owes nothing.
Fairness ==
  /\ WF_vars(Opening \/ Fill \/ Reading)
  /\ \A q \in Closers : WF_vars(CloseStop(q) \/ CloseShut(q))
  /\ WF_vars(FireWatch) /\ WF_vars(RunWatch) /\ WF_vars(Expire)

FairSpec == Spec /\ Fairness

-----------------------------------------------------------------------------
\* Next tells its reader the truth about why it stopped: a disconnection is the
\* server's doing, never this side's Close, cancellation or deadline, so that a
\* loop that reopens on ErrDisconnected does not undo a Close, and a quiet
\* stream has no deadline (stream.go:21-23, 40-42, 51-59, README.md:292-297).
ReasonIsTrue ==
  /\ last = "disconnected" => lost
  /\ last = "eof" => closed
  /\ last = "ctx" => ctx = "done"

\* A Close that has returned, the first or a later one, has released the
\* connection and the context's reference to the stream (stream.go:78-88), and a
\* Fence or Subscribe that failed leaves neither (stream.go:127-129, 142-145,
\* 174-177).
CloseMeansReleased ==
  /\ (\E q \in Closers : cpc[q] = "returned") => sock = "closed" /\ watch # "armed"
  /\ pc = "failed" => sock \in {"none", "closed"} /\ watch = "off"

\* Fence and Subscribe return, also from a server that accepts the connection
\* and never answers (stream.go:121-125).
OpenReturns == pc \in {"dial", "ack"} ~> pc \notin {"dial", "ack"}

\* Close and the end of the context both unblock a Next that is waiting
\* (stream.go:78-79, 22-23).
NextUnblocks == pc = "reading" /\ (closed \/ ctx = "done") ~> pc = "idle"

\* Next hands out the server's events in order and without gaps.
Log == INSTANCE EventLog WITH over <- sock \in {"hungup", "closed"}
ImplementsLog == Log!Spec

\* "Any other error wraps ErrDisconnected: the connection failed"
\* (stream.go:41-42).
OtherErrorsAreDisconnections == last \in {"decode", "unexpected"} => lost
=============================================================================
