---------------------------- MODULE MCPublisher ----------------------------
(* Values of Publisher's constants for TLC. *)
EXTENDS Publisher

\* metadata, a frame of two chunks, a frame of one, new metadata, a frame of two
FivePackets == <<0, 2, 1, 0, 2>>
ThreePackets == <<0, 2, 1>>
=============================================================================
