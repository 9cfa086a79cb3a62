--------------------------- MODULE CommandService ---------------------------
(***************************************************************************)
(* What the pool promises its callers, with no connection in sight.        *)
(*                                                                         *)
(* A call is admitted once fewer than Limit calls are (Limit = 0: always), *)
(* the server executes its commands one after the other and none twice,    *)
(* its outcome is decided, and it returns.  A reply means every command    *)
(* ran.  A server error means that all of them ran, or none, when it was   *)
(* the handshake the server refused: the caller is not told which.         *)
(* ErrClosed, or a call that was never admitted, means that none did.      *)
(*                                                                         *)
(* After a broken connection or a cancelled context any number of them may *)
(* have run, and the rest may run yet, after the call has returned.  After *)
(* any other outcome nothing more of it runs.                              *)
(***************************************************************************)
EXTENDS Integers, Sequences, FiniteSets

CONSTANTS
  Callers,  \* who issues calls
  Limit,    \* how many calls may be in flight, 0 for any number
  Sizes     \* how many commands a call may have

VARIABLES
  state,   \* "ready" (not in a call), "waiting", "admitted", "decided", or
           \* "abandoned": not in a call, with the last one's commands about
  size,    \* the number of commands of the call, 0 without one
  ran,     \* which of them the server has executed, in the order it did
  result   \* the outcome of the call once it is decided, else "none"

vars == <<state, size, ran, result>>

Results == {"nil", "server", "fatal", "ctx", "closed"}

\* The outcomes that do not tell what became of the commands.
InDoubt(r) == r \in {"fatal", "ctx"}

\* The calls that have been let through and have not returned.
InFlight == {p \in Callers : state[p] \in {"admitted", "decided"}}

Init == /\ state = [p \in Callers |-> "ready"]
        /\ size = [p \in Callers |-> 0]
        /\ ran = [p \in Callers |-> <<>>]
        /\ result = [p \in Callers |-> "none"]

Issue(p) == /\ state[p] \in {"ready", "abandoned"}
            /\ state' = [state EXCEPT ![p] = "waiting"]
            /\ \E n \in Sizes : size' = [size EXCEPT ![p] = n]
            /\ ran' = [ran EXCEPT ![p] = <<>>]
            /\ result' = [result EXCEPT ![p] = "none"]

Admit(p) == /\ state[p] = "waiting"
            /\ Limit > 0 => Cardinality(InFlight) < Limit
            /\ state' = [state EXCEPT ![p] = "admitted"]
            /\ UNCHANGED <<size, ran, result>>

\* The next command of the call, while it is under way or was left in doubt.
Execute(p) == /\ state[p] = "admitted" \/ InDoubt(result[p])
              /\ Len(ran[p]) < size[p]
              /\ ran' = [ran EXCEPT ![p] = Append(ran[p], Len(ran[p]) + 1)]
              /\ UNCHANGED <<state, size, result>>

Decide(p, r) == /\ state[p] = "admitted"
                /\ r = "nil" => Len(ran[p]) = size[p]
                /\ r = "server" => Len(ran[p]) \in {0, size[p]}
                /\ r = "closed" => ran[p] = <<>>
                /\ state' = [state EXCEPT ![p] = "decided"]
                /\ result' = [result EXCEPT ![p] = r]
                /\ UNCHANGED <<size, ran>>

\* A call that is still waiting gives up when its context is done.
Return(p) == /\ state[p] \in {"waiting", "decided"}
             /\ state' = [state EXCEPT ![p] = "ready"]
             /\ size' = [size EXCEPT ![p] = 0]
             /\ ran' = [ran EXCEPT ![p] = <<>>]
             /\ result' = [result EXCEPT ![p] = "none"]

\* A call returns in doubt, and leaves commands behind.
Abandon(p) == /\ state[p] = "decided" /\ InDoubt(result[p])
              /\ state' = [state EXCEPT ![p] = "abandoned"]
              /\ UNCHANGED <<size, ran, result>>

Next == \E p \in Callers :
          \/ Issue(p) \/ Admit(p) \/ Execute(p) \/ Return(p) \/ Abandon(p)
          \/ \E r \in Results : Decide(p, r)

Spec == Init /\ [][Next]_vars
=============================================================================
