-------------------------------- MODULE Feed --------------------------------
(***************************************************************************)
(* What the reconnect loop of the README promises the program around it:   *)
(* events in order and none twice, with gaps only from one connection to   *)
(* the next ("Reopening is not resuming"), and no end without a cause.     *)
(***************************************************************************)
EXTENDS Naturals

VARIABLES
  happened,  \* events in the fenced area so far
  seen,      \* the number of the last event the program was given
  linked,    \* a fence is open
  causes,    \* what has happened that may end the loop
  why        \* what ended it, or "none"

feedVars == <<happened, seen, linked, causes, why>>

Causes == {"ctx", "rejected", "decode"}

Init == happened = 0 /\ seen = 0 /\ linked = FALSE /\ causes = {} /\ why = "none"

\* An event, which may be one the client cannot decode.
Happen == /\ happened' = happened + 1
          /\ causes' \in {causes, causes \cup {"decode"}}
          /\ UNCHANGED <<seen, linked, why>>

\* The context ends, the server rejects the fence.
Arise(c) == causes' = causes \cup {c} /\ UNCHANGED <<happened, seen, linked, why>>

\* While a fence is open no event is left out.
Take == /\ linked /\ seen < happened /\ why = "none"
        /\ seen' = seen + 1
        /\ UNCHANGED <<happened, linked, causes, why>>

\* What happened before a fence is open is gone.
Link == /\ ~linked /\ why = "none"
        /\ linked' = TRUE /\ seen' = happened
        /\ UNCHANGED <<happened, causes, why>>

Unlink == linked /\ linked' = FALSE /\ UNCHANGED <<happened, seen, causes, why>>

End(c) == /\ why = "none" /\ c \in causes
          /\ why' = c /\ linked' = FALSE
          /\ UNCHANGED <<happened, seen, causes>>

Next == Happen \/ Take \/ Link \/ Unlink \/ \E c \in Causes : Arise(c) \/ End(c)

Spec == Init /\ [][Next]_feedVars
=============================================================================
