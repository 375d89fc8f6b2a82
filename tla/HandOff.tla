------------------------------ MODULE HandOff ------------------------------
(***************************************************************************)
(* What a stage that moves elements from one thread to another promises    *)
(* its subscriber: elements come out in the order in which they were       *)
(* accepted, none twice, in batches of any size, and after the outcome     *)
(* (completion or error) nothing comes out any more.  It does not promise  *)
(* that everything accepted comes out.                                     *)
(***************************************************************************)
EXTENDS Naturals, Sequences

CONSTANT Element

VARIABLES
  accepted,   \* every element the stage took from its upstream, in order
  handed,     \* every element it gave to its subscriber, in order
  outcome     \* "none", or how the stream ended for the subscriber

vars == <<accepted, handed, outcome>>

Outcomes == {"none", "complete", "error"}

Init ==
  /\ accepted = <<>>
  /\ handed = <<>>
  /\ outcome = "none"

Accept ==
  /\ \E x \in Element : accepted' = Append(accepted, x)
  /\ UNCHANGED <<handed, outcome>>

HandOver ==
  /\ outcome = "none"
  /\ \E n \in (Len(handed) + 1)..Len(accepted) : handed' = SubSeq(accepted, 1, n)
  /\ UNCHANGED <<accepted, outcome>>

Close ==
  /\ outcome = "none"
  /\ outcome' \in Outcomes \ {"none"}
  /\ UNCHANGED <<accepted, handed>>

Next == Accept \/ HandOver \/ Close

Spec == Init /\ [][Next]_vars
=============================================================================
