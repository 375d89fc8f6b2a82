---------------------------- MODULE MCRtmClient ----------------------------
(* Values of RtmClient's constants for TLC. *)
EXTENDS RtmClient

World(subs, calls, faults, breaks, ids) ==
  [subs |-> subs, calls |-> calls, faults |-> faults, breaks |-> breaks, ids |-> ids]

\* requests and their answers; connections lost under subscriptions, and under
\* some that are given up, with calls that come while the client is stopping and
\* after it; every fault
Four ==
  {World(Subs, {"publish", "subscribe", "unsubscribe", "stop"}, {}, 0, 3),
   World(Subs, {"publish", "subscribe"}, {}, 2, 3),
   World(Subs, {"subscribe", "unsubscribe", "stop", "late calls"}, {}, 1, 3)}
  \cup {World({s}, {"publish", "subscribe", "unsubscribe", "stop", "late calls"},
              {"refusals", "garbage", "early answers", "freed reads"}, 1, 2) :
         s \in {CHOOSE s \in Subs : TRUE}}
=============================================================================
