------------------------------ MODULE MCStream ------------------------------
(* Bounded instances of Stream.                                             *)
EXTENDS Stream, TLC

\* What a pattern subscription may receive, and a live fence.
ChannelPushes == {"message", "pmessage", "note", "other", "err"}
FencePushes == {"bulk", "badjson"}

GoodAck == {"ok"}
=============================================================================
