------------------------------- MODULE Delay -------------------------------
(***************************************************************************)
(* streams::asio::delay (delay_op), which interval() and the replay source *)
(* use: elements wait in _buffer and are handed on one by one, each after  *)
(* the delay computed for it.  Everything runs on the asio loop thread;    *)
(* calls nest: the sink requests and cancels from inside on_next, and the  *)
(* source may answer a request from inside request().                      *)
(***************************************************************************)
EXTENDS Integers, Sequences

CONSTANTS
  Items,       \* bound: elements the source has, 1..Items
  LowWatermark,  \* _buffer_low_watermark (20 in the code)
  Demands,     \* how sinks request: of "all", "eagerly", "lazily"
  Infinity     \* the demand of a sink that requests everything at once

ASSUME DelayAssumption ==
  /\ Items \in Nat \ {0} /\ LowWatermark \in Nat \ {0}
  /\ Infinity \in Nat /\ Infinity > Items + LowWatermark
  /\ Demands \subseteq {"all", "eagerly", "lazily"}

VARIABLES
  buffer, active, cancelled, error, sinkNeeds, waiting,   \* delay_op::instance
  timer,      \* "off", "set"
  delivering, \* on_timer is inside _sink.on_next; the front is still in the buffer
  source,     \* [next, open]: the source and what it still has
  asked,      \* what the sink asked for so far
  received,   \* what the sink got
  demand,     \* how the sink requests
  ended,      \* "no", "complete", "error" or "cancelled": what became of the stage
  failed      \* "" or the CHECK that failed

vars == <<buffer, active, cancelled, error, sinkNeeds, waiting, timer, delivering,
          source, asked, received, demand, ended, failed>>

Alive == ended = "no" /\ failed = ""
Stage == <<buffer, active, cancelled, error, sinkNeeds, waiting, timer, delivering>>

TypeOK ==
  /\ buffer \in Seq(1..Items) /\ received \in Seq(1..Items)
  /\ active \in BOOLEAN /\ cancelled \in BOOLEAN /\ error \in BOOLEAN /\ delivering \in BOOLEAN
  /\ sinkNeeds \in 0..2 * Infinity /\ waiting \in 0..LowWatermark /\ asked \in Nat
  /\ timer \in {"off", "set"} /\ ended \in {"no", "complete", "error", "cancelled"}

Least(a, b) == IF a < b THEN a ELSE b

\* slips: the elements on their way are not counted; the watermark is ignored
Wanted_Buffered(needs, n, w) ==
  IF needs = 0 \/ n >= LowWatermark THEN 0 ELSE Least(LowWatermark - n, needs)
Wanted_Everything(needs, n, w) == needs

\* maybe_request: how much it requests upstream
Wanted(needs, n, w) ==
  IF needs = 0 \/ n + w >= LowWatermark THEN 0 ELSE Least(LowWatermark - n - w, needs)

\* on_subscribe; a sink that wants everything says so at once
Init ==
  /\ buffer = <<>> /\ active = TRUE /\ cancelled = FALSE /\ error = FALSE
  /\ sinkNeeds = 0 /\ waiting = 0 /\ timer = "off" /\ delivering = FALSE
  /\ source = [next |-> 1, open |-> TRUE] /\ asked = 0 /\ demand \in Demands
  /\ received = <<>> /\ ended = "no" /\ failed = ""

(***************************************************************************)
(* The sink                                                                *)
(***************************************************************************)
\* everything at the start (threaded_worker); or one more element, as soon as
\* on_next has it (flat_map of ready results) or at any later time
MayRequest(n) ==
  IF demand = "all" THEN asked = 0 /\ n = Infinity ELSE n = 1 /\ asked = Len(received)

\* an eager sink does not return from on_next before it has asked for more
Satisfied == demand = "eagerly" /\ delivering /\ ~cancelled => asked > Len(received)

\* slip: the demand is cut to what is requested upstream
Needs_Capped(n) == Least(LowWatermark, sinkNeeds + n)

Needs(n) == sinkNeeds + n

Request(n) ==
  /\ Alive /\ ~cancelled /\ MayRequest(n)
  /\ asked' = asked + n
  /\ IF active
     THEN LET more == Wanted(Needs(n), Len(buffer), waiting)
          IN  sinkNeeds' = Needs(n) /\ waiting' = waiting + more
     ELSE UNCHANGED <<sinkNeeds, waiting>>
  /\ UNCHANGED <<demand, buffer, active, cancelled, error, timer, delivering, source, received, ended, failed>>

\* slip: deletion is left to on_timer, which nothing may call
Disposed_Later == FALSE

\* cancel deletes the stage unless on_timer is to do it
Disposed == buffer = <<>>

Cancel ==
  /\ Alive /\ ~cancelled
  /\ source' = [source EXCEPT !.open = @ /\ ~active]
  /\ active' = FALSE /\ cancelled' = TRUE
  /\ ended' = IF Disposed THEN "cancelled" ELSE ended
  /\ UNCHANGED <<demand, buffer, error, sinkNeeds, waiting, timer, delivering, asked, received, failed>>

(***************************************************************************)
(* The source, which sends what was requested, on its own or from request  *)
(***************************************************************************)
\* slip: the newest element goes first
Buffered_Front(t) == <<t>> \o buffer

Buffered(t) == Append(buffer, t)

\* the first element starts the timer; a delay of zero is a timer that is due
OnNext ==
  /\ Alive /\ Satisfied /\ source.open /\ waiting > 0 /\ source.next <= Items
  /\ source' = [source EXCEPT !.next = @ + 1]
  /\ waiting' = waiting - 1
  /\ buffer' = Buffered(source.next)
  /\ timer' = IF buffer = <<>> THEN "set" ELSE timer
  /\ UNCHANGED <<demand, active, cancelled, error, sinkNeeds, delivering, asked, received, ended, failed>>

\* slip: the end overtakes an element that is being delivered
EndsNow_NoTimer == timer = "off"

EndsNow == buffer = <<>>

OnEnd(how) ==
  /\ Alive /\ Satisfied /\ source.open
  /\ source' = [source EXCEPT !.open = FALSE]
  /\ IF EndsNow THEN ended' = how /\ UNCHANGED <<active, error>>
     ELSE active' = FALSE /\ error' = (how = "error") /\ UNCHANGED ended
  /\ UNCHANGED <<demand, buffer, cancelled, sinkNeeds, waiting, timer, delivering, asked, received, failed>>

(***************************************************************************)
(* on_timer, up to and from the return of _sink.on_next                    *)
(***************************************************************************)
OnTimer ==
  /\ Alive /\ timer = "set" /\ ~delivering
  /\ timer' = "off"
  /\ IF cancelled THEN ended' = "cancelled" /\ UNCHANGED <<sinkNeeds, delivering, received, failed>>
     ELSE IF sinkNeeds = 0
     THEN failed' = "_sink_needs > 0" /\ UNCHANGED <<sinkNeeds, delivering, received, ended>>
     ELSE /\ sinkNeeds' = sinkNeeds - 1
          /\ received' = Append(received, Head(buffer))
          /\ delivering' = TRUE
          /\ UNCHANGED <<ended, failed>>
  /\ UNCHANGED <<demand, buffer, active, cancelled, error, waiting, source, asked>>

\* slip: the end of the source is forgotten
Outcome_Complete == "complete"

Outcome == IF error THEN "error" ELSE "complete"

AfterOnNext ==
  /\ Alive /\ delivering /\ Satisfied
  /\ delivering' = FALSE
  /\ buffer' = Tail(buffer)
  /\ IF cancelled THEN ended' = "cancelled" /\ UNCHANGED <<timer, waiting>>
     ELSE IF Len(buffer) > 1 THEN timer' = "set" /\ UNCHANGED <<ended, waiting>>
     ELSE IF active
     THEN waiting' = waiting + Wanted(sinkNeeds, 0, waiting) /\ UNCHANGED <<ended, timer>>
     ELSE ended' = Outcome /\ UNCHANGED <<timer, waiting>>
  /\ UNCHANGED <<demand, active, cancelled, error, sinkNeeds, source, asked, received, failed>>

Ends == {"complete", "error"}
Next ==
  \/ \E n \in {1, Infinity} : Request(n)
  \/ Cancel \/ OnNext \/ OnTimer \/ AfterOnNext
  \/ \E how \in Ends : OnEnd(how)

Spec == Init /\ [][Next]_vars

\* the sink requests, the source answers a request, the loop runs its timer
FairSpec ==
  /\ Spec /\ WF_vars(OnTimer) /\ WF_vars(AfterOnNext)
  /\ WF_vars(OnNext \/ \E how \in Ends : OnEnd(how))
  /\ WF_vars(\E n \in {1, Infinity} : Request(n))

(***************************************************************************)
(* Properties                                                              *)
(***************************************************************************)
\* With a sink that wants everything on_timer never finds the demand exhausted:
\* CHECK_GT(_sink_needs, 0).
DemandLasts == demand = "all" => failed # "_sink_needs > 0"

\* The buffer and what was requested never exceed the low watermark, so that
\* a fast source cannot fill memory (maybe_request).
BoundedAhead == Len(buffer) + waiting <= LowWatermark

\* The elements reach the sink in order, without a gap and without a repeat,
\* and every element sent is with the sink or in the buffer.
Complete ==
  Alive => received \o (IF delivering THEN Tail(buffer) ELSE buffer) = [k \in 1..source.next - 1 |-> k]

\* The sink sees the end of its source only behind the last element sent.
EndIsLast == ended \in Ends => received = [k \in 1..source.next - 1 |-> k]

\* The stage ends as its source does, however much was still in the buffer.
EndsAsItsSource == [][ended = "no" /\ ended' = "complete" => ~error']_vars

P == INSTANCE Stream WITH given <- Len(received), ended <- ended # "no" \/ cancelled

\* Whatever waits in the buffer, the sink gets what it asked for and no more, and
\* nothing behind the end.
KeepsPromise == P!Spec

\* Whatever the order of ends, cancels and timers, a stage whose source ended
\* or whose sink cancelled is deleted, once (a stage that ended takes no step).
AlwaysDeleted == (~source.open \/ cancelled) ~> (ended # "no" \/ failed # "")

\* The stage delays, and does nothing else.
Safety ==
  /\ TypeOK
  /\ BoundedAhead
  /\ Complete
  /\ EndIsLast

\* However the stage ends, it ends as it should.
Ending ==
  /\ KeepsPromise
  /\ EndsAsItsSource
  /\ AlwaysDeleted
=============================================================================
