------------------------------- MODULE Stream -------------------------------
(***************************************************************************)
(* What every stream promises its subscriber (streams.h, after Reactive    *)
(* Streams): it delivers no more than was requested, it ends once, by      *)
(* completion, by an error or because it was cancelled, and after that it  *)
(* is silent.  The stages implement it, each with its own demand.          *)
(***************************************************************************)
EXTENDS Naturals

VARIABLES
  asked,     \* what the subscriber has requested, in all
  given,     \* what it was delivered
  ended      \* it has been told of the end, or has cancelled

vars == <<asked, given, ended>>

Init == asked = 0 /\ given = 0 /\ ended = FALSE

Request == ~ended /\ asked' > asked /\ UNCHANGED <<given, ended>>

OnNext == ~ended /\ given < asked /\ given' = given + 1 /\ UNCHANGED <<asked, ended>>

End == ~ended /\ ended' = TRUE /\ UNCHANGED <<asked, given>>

Next == Request \/ OnNext \/ End

Spec == Init /\ [][Next]_vars
=============================================================================
