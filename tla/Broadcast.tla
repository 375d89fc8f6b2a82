----------------------------- MODULE Broadcast -----------------------------
(***************************************************************************)
(* Both ends of a stream on RTM: the publisher tool until it exits         *)
(* (Publisher), and what a viewer makes of a stream that goes on (Viewer). *)
(***************************************************************************)
EXTENDS MCPublisher

CONSTANTS Period, Group, Streams, Breaks, Ahead   \* see Viewer

ASSUME BroadcastAssumption ==
  /\ Period \in Nat /\ Group \in Nat \ {0} /\ Streams \in Nat \ {0} /\ Breaks \in Nat
  /\ Ahead \in Nat \ {0}

VARIABLES
  end,      \* "publisher" or "viewer", chosen once
  stream, element, ago, nextKey, outbox, unheard, kept, metadata, frames, codec, primed,
  steady, breaks

V == INSTANCE Viewer

viewerVars == <<stream, element, ago, nextKey, outbox, unheard, kept, metadata, frames, codec,
                primed, steady, breaks>>
broadcastVars == <<vars, end, viewerVars>>

BroadcastInit ==
  /\ Init /\ V!Init /\ end \in {"publisher", "viewer"}
  /\ end = "viewer" => input = (CHOOSE i \in Inputs : TRUE)

PublisherSide == end = "publisher" /\ Next /\ UNCHANGED <<end, viewerVars>>
ViewerSide(Action) == end = "viewer" /\ Action /\ UNCHANGED <<end, vars>>

BroadcastNext == PublisherSide \/ ViewerSide(V!Step)

\* Publisher's fairness; for the viewer, a source that goes on, a service that answers
\* subscriptions, and a decoder that is called for each channel's messages
BroadcastSpec ==
  /\ BroadcastInit /\ [][BroadcastNext]_broadcastVars
  /\ WF_broadcastVars(PublisherSide /\ Worker) /\ WF_broadcastVars(PublisherSide /\ Loop)
  /\ WF_broadcastVars(PublisherSide /\ \E ok \in BOOLEAN : Serve(ok))
  /\ WF_broadcastVars(ViewerSide(V!Source)) /\ WF_broadcastVars(ViewerSide(V!Joins))
  /\ WF_broadcastVars(ViewerSide(V!TakeMetadata)) /\ WF_broadcastVars(ViewerSide(V!TakeFrame))

(***************************************************************************)
(* Properties                                                              *)
(***************************************************************************)
\* What the server gets, and what a viewer then knows.
BroadcastSafety ==
  /\ Safety
  /\ V!Safety

\* The tool exits, and a viewer sees a stream that goes on.
BroadcastEnding ==
  /\ end = "publisher" => Ending
  /\ end = "viewer" => V!SeesTheStream
=============================================================================
