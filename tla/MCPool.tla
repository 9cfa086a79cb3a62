------------------------------- MODULE MCPool -------------------------------
EXTENDS Pool, TLC

Single   == [n |-> 1, bad |-> FALSE, deadline |-> FALSE]
Broken   == [Single EXCEPT !.bad = TRUE]
Timed    == [Single EXCEPT !.deadline = TRUE]
Pipeline == [Single EXCEPT !.n = 2]

\* A command, and one with an argument that has no encoding.
DoRequests == {Single, Broken}
PlainRequests == {Single}
\* A command whose context has a deadline, and a batch of two without.
BatchRequests == {Timed, Pipeline}

\* WithTimeout(-1): no timeout, rely on the context alone.
OptOut == -1

FlatReplies == {"ok", "err", "bad"}
TwoReplies == {"ok", "err"}
OneReply == {"ok"}
NestedReplies == {"ok", "nested"}

Symmetry == Permutations(Callers) \cup Permutations(Conns)
=============================================================================
