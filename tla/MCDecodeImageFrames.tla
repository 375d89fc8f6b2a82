------------------------ MODULE MCDecodeImageFrames ------------------------
(* Values of DecodeImageFrames' constant for TLC. *)
EXTENDS DecodeImageFrames

P(k, m) == [kind |-> k, meta |-> m]

\* a frame ahead of any metadata; metadata repeated with each key frame (as
\* rtm_source does), and changed
Stream == <<P("delta", 0), P("metadata", 1), P("key", 1), P("delta", 1), P("delta", 1),
            P("metadata", 1), P("key", 1), P("delta", 1),
            P("metadata", 2), P("key", 2), P("delta", 2), P("delta", 2)>>
Short == <<P("metadata", 1), P("key", 1), P("delta", 1), P("delta", 1), P("delta", 1),
            P("key", 1), P("delta", 1)>>

Clean == [packets |-> Stream, demand |-> 100, lag |-> 2, faults |-> {}]
Takes == [packets |-> Short, demand |-> 3, lag |-> 2, faults |-> {"refused"}]
Fails == [packets |-> Short, demand |-> 100, lag |-> 1,
          faults |-> {"refused", "receive", "flush", "source", "cancel"}]
\* metadata that cannot be used, first and later
Odd == [packets |-> <<P("metadata", 0), P("key", 0)>>, demand |-> 100, lag |-> 1, faults |-> {}]
Spoilt == [packets |-> <<P("metadata", 1), P("key", 1), P("delta", 1), P("metadata", 0), P("key", 0)>>,
           demand |-> 100, lag |-> 1, faults |-> {"refused"}]
SomeUses == {Clean, Takes, Fails, Odd, Spoilt}
=============================================================================
