------------------------------ MODULE EventLog ------------------------------
(***************************************************************************)
(* What a Stream promises its reader: the events the server sends, each    *)
(* once and in order, with nothing missing in between.  What is lost is    *)
(* lost at the end, with the connection; README.md: "Reopening is not      *)
(* resuming".                                                              *)
(***************************************************************************)
EXTENDS Naturals

VARIABLES
  sent,  \* events the server has sent on this connection
  seen,  \* the number of the last event Next handed out
  over   \* the connection is gone

logVars == <<sent, seen, over>>

Init == sent = 0 /\ seen = 0 /\ over = FALSE

\* The server sends the next event.
Publish == ~over /\ sent' = sent + 1 /\ UNCHANGED <<seen, over>>

\* Next hands out the event after the last one, also one that was received
\* before the connection went away.
Take == seen < sent /\ seen' = seen + 1 /\ UNCHANGED <<sent, over>>

Lose == ~over /\ over' = TRUE /\ UNCHANGED <<sent, seen>>

Next == Publish \/ Take \/ Lose

Spec == Init /\ [][Next]_logVars
=============================================================================
