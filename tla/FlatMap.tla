------------------------------- MODULE FlatMap -------------------------------
(***************************************************************************)
(* streams::flat_map (flat_map_op over drain_source_impl), and with it     *)
(* flatten, concat and repeat_if: each packet of the outer source becomes  *)
(* a source of its own, whose elements go to the sink before the next      *)
(* packet is asked for.  On one thread, with nested calls: `stack' holds   *)
(* the activations that others can act in.  A source that is called sends  *)
(* from inside request() or later; the sink requests and cancels from      *)
(* inside on_next.                                                         *)
(***************************************************************************)
EXTENDS Integers, Sequences

CONSTANTS
  Packets,   \* bound: packets of the outer source
  Elements,  \* bound: elements one packet turns into
  Demands,   \* of "all": INT_MAX at once (process, threaded_worker); "one": one at a
             \* time (rtm_sink); "two": two requests of one on their way at once
  Cancels,   \* by demand, from on_next: "never", "settled" (nothing is outstanding: take), "any"
  Eager      \* by demand: which sources end, from inside a call, without having been asked for
             \* more, as the outer one does behind take and the inner one if it is empty

ASSUME FlatMapAssumption ==
  /\ Packets \in Nat \ {0} /\ Elements \in Nat \ {0}
  /\ Demands \subseteq {"all", "one", "two"}
  /\ Cancels \in [Demands -> {"never", "settled", "any"}]
  /\ Eager \in [Demands -> SUBSET {"outer", "inner"}]

VARIABLES
  requested, delivered, inDrain, die, drainRequested,   \* drain_source_impl
  source, sourceComplete, requestedNext,                \* flat_map_op::instance
  fwdSub, waiting,   \* whether there is a fwd_sub, its _waiting_from_upstream
  deleted,           \* the instance is gone
  demand,            \* how the sink requests
  outer, inner,      \* the sources: [open, owed, left]
  stack, outcome, failed

drainVars == <<requested, delivered, inDrain, die, drainRequested>>
flatVars == <<source, sourceComplete, requestedNext, fwdSub, waiting, deleted>>
vars == <<drainVars, flatVars, demand, outer, inner, stack, outcome, failed>>

Infinity == Packets * Elements + 1   \* INT_MAX
Frames == {"loop", "asks outer", "asks inner",   \* drain, and what it is calling
           "subscribes", "sink"}                 \* fwd_sub::on_subscribe, deliver_on_next

TypeOK ==
  /\ requested \in 0..Infinity + 1 /\ delivered \in 0..Packets * Elements
  /\ inDrain \in BOOLEAN /\ die \in BOOLEAN /\ drainRequested \in BOOLEAN
  /\ source \in BOOLEAN /\ sourceComplete \in BOOLEAN /\ requestedNext \in BOOLEAN
  /\ fwdSub \in BOOLEAN /\ waiting \in 0..Infinity /\ deleted \in BOOLEAN
  /\ outer \in [open : BOOLEAN, owed : 0..1, left : 0..Packets]
  /\ inner \in [open : BOOLEAN, owed : 0..Infinity, left : 0..Elements]
  /\ stack \in Seq(Frames) /\ outcome \in {"none", "complete", "error", "cancelled"}

Needs == requested - delivered
Running == failed = ""
Top == stack[Len(stack)]
Below == SubSeq(stack, 1, Len(stack) - 1)
Fails(check) == failed' = check

Ends(which, owed) == owed > 0 \/ stack = <<>> \/ which \in Eager[demand]

Init ==
  /\ requested = 0 /\ delivered = 0 /\ inDrain = FALSE /\ die = FALSE /\ drainRequested = FALSE
  /\ source = TRUE /\ sourceComplete = FALSE /\ requestedNext = FALSE
  /\ fwdSub = FALSE /\ waiting = 0 /\ deleted = FALSE
  /\ outer = [open |-> TRUE, owed |-> 0, left |-> Packets]
  /\ inner = [open |-> FALSE, owed |-> 0, left |-> 0]
  /\ stack = <<>> /\ outcome = "none" /\ failed = ""
  /\ demand \in Demands

(***************************************************************************)
(* drain_source_impl                                                       *)
(***************************************************************************)
\* slip: a drain that is needed while one runs is forgotten
Remembered_Not == drainRequested

Remembered == TRUE

\* drain(): one at a time, the one that runs is told to go round again
Drain(frames) ==
  IF inDrain
  THEN drainRequested' = Remembered /\ stack' = frames /\ UNCHANGED inDrain
  ELSE inDrain' = TRUE /\ stack' = Append(frames, "loop") /\ UNCHANGED drainRequested

\* slip: the source is left running
Released_Inner == inner' = [inner EXCEPT !.open = @ /\ ~fwdSub'] /\ UNCHANGED outer

\* ~instance cancels what is still there
Released ==
  /\ inner' = [inner EXCEPT !.open = @ /\ ~fwdSub]
  /\ outer' = [outer EXCEPT !.open = @ /\ ~source]

\* slip: deleted while drain is running
DiesNow_Always == TRUE

\* who ends it deletes it, unless drain() is running, which will
DiesNow == ~inDrain

\* deliver_on_complete, deliver_on_error and cancel
End(how) ==
  /\ outcome' = how
  /\ IF DiesNow THEN deleted' = TRUE /\ UNCHANGED die
     ELSE die' = TRUE /\ UNCHANGED deleted

\* on the way out of drain()
ExitDrain ==
  /\ stack' = Below /\ inDrain' = die
  /\ deleted' = die
  /\ IF die THEN Released ELSE UNCHANGED <<inner, outer>>

(***************************************************************************)
(* The sink                                                                *)
(***************************************************************************)
SinkMayAct == Running /\ outcome = "none" /\ (stack # <<>> => Top = "sink")

MayRequest(n) ==
  CASE demand = "all" -> n = Infinity /\ requested = 0
    [] demand = "one" -> n = 1 /\ Needs = 0
    [] demand = "two" -> n = 1 /\ Needs < 2

Request(n) ==
  /\ SinkMayAct /\ MayRequest(n)
  /\ requested' = requested + n
  /\ Drain(stack)
  /\ UNCHANGED <<demand, delivered, die, flatVars, outer, inner, outcome, failed>>

Cancel ==
  /\ SinkMayAct
  /\ stack # <<>> => Cancels[demand] = "any" \/ (Cancels[demand] = "settled" /\ Needs = 0)
  /\ End("cancelled")
  /\ IF deleted' THEN Released ELSE UNCHANGED <<inner, outer>>
  /\ UNCHANGED <<demand, requested, delivered, inDrain, drainRequested, source, sourceComplete,
                 requestedNext, fwdSub, waiting, stack, failed>>

SinkReturns ==
  /\ Running /\ stack # <<>> /\ Top = "sink"
  /\ stack' = Below
  /\ UNCHANGED <<demand, drainVars, flatVars, outer, inner, outcome, failed>>

(***************************************************************************)
(* The source of one packet, through fwd_sub                               *)
(***************************************************************************)
InnerMayAct ==
  Running /\ inner.open /\ (stack # <<>> => Top \in {"subscribes", "asks inner"})

InnerNext ==
  /\ InnerMayAct /\ inner.owed > 0 /\ inner.left > 0
  /\ inner' = [inner EXCEPT !.owed = @ - 1, !.left = @ - 1]
  /\ IF waiting = 0 \/ die
     THEN Fails(IF die THEN "!_die" ELSE "_waiting_from_upstream > 0")
          /\ UNCHANGED <<waiting, delivered, stack>>
     ELSE /\ waiting' = waiting - 1
          /\ delivered' = delivered + 1
          /\ stack' = Append(stack, "sink")
          /\ UNCHANGED failed
  /\ UNCHANGED <<demand, requested, inDrain, die, drainRequested, source, sourceComplete, requestedNext,
                 fwdSub, deleted, outer, outcome>>

\* slip: drain_impl takes it from there only when somebody asks
CompleteDrains_Not == UNCHANGED <<drainRequested, inDrain, stack>>

CompleteDrains == Drain(stack)

\* current_result_complete
InnerComplete ==
  /\ InnerMayAct /\ Ends("inner", inner.owed)
  /\ inner' = [inner EXCEPT !.open = FALSE]
  /\ fwdSub' = FALSE /\ waiting' = 0
  /\ CompleteDrains
  /\ UNCHANGED <<demand, requested, delivered, die, source, sourceComplete, requestedNext, deleted,
                 outer, outcome, failed>>

\* current_result_error
InnerError ==
  /\ InnerMayAct /\ Ends("inner", inner.owed)
  /\ inner' = [inner EXCEPT !.open = FALSE]
  /\ fwdSub' = FALSE /\ waiting' = 0
  /\ IF die THEN Fails("!_die") /\ UNCHANGED <<die, deleted, outcome>> ELSE End("error") /\ UNCHANGED failed
  /\ outer' = [outer EXCEPT !.open = @ /\ ~deleted']
  /\ UNCHANGED <<demand, requested, delivered, inDrain, drainRequested, source, sourceComplete,
                 requestedNext, stack>>

(***************************************************************************)
(* The outer source                                                        *)
(***************************************************************************)
OuterMayAct == Running /\ outer.open /\ (stack # <<>> => Top = "asks outer")

\* on_next, and fwd_sub::on_subscribe, which asks for all the sink needs
OnNext(n) ==
  /\ OuterMayAct /\ outer.owed > 0 /\ outer.left > 0
  /\ outer' = [outer EXCEPT !.owed = @ - 1, !.left = @ - 1]
  /\ IF fwdSub THEN Fails("!_fwd_sub") /\ UNCHANGED <<requestedNext, fwdSub, waiting, inner, stack>>
     ELSE IF Needs = 0
     THEN Fails("n > 0") /\ UNCHANGED <<requestedNext, fwdSub, waiting, inner, stack>>
     ELSE /\ requestedNext' = FALSE /\ fwdSub' = TRUE
          /\ waiting' = Needs
          /\ inner' = [open |-> TRUE, owed |-> Needs, left |-> n]
          /\ stack' = Append(stack, "subscribes")
          /\ UNCHANGED failed
  /\ UNCHANGED <<demand, drainVars, source, sourceComplete, deleted, outcome>>

\* slip: the packet that is being flattened is cut off
MayComplete_Now == TRUE

MayComplete == ~fwdSub

OnComplete ==
  /\ OuterMayAct /\ Ends("outer", outer.owed)
  /\ outer' = [outer EXCEPT !.open = FALSE]
  /\ source' = FALSE /\ sourceComplete' = TRUE
  /\ IF ~MayComplete THEN Drain(stack) /\ UNCHANGED <<die, deleted, outcome, failed>>
     ELSE /\ IF die THEN Fails("!_die") /\ UNCHANGED <<die, deleted, outcome>>
             ELSE End("complete") /\ UNCHANGED failed
          /\ UNCHANGED <<drainRequested, inDrain, stack>>
  /\ inner' = [inner EXCEPT !.open = @ /\ ~deleted']
  /\ UNCHANGED <<demand, requested, delivered, requestedNext, fwdSub, waiting>>

OnError ==
  /\ OuterMayAct /\ Ends("outer", outer.owed)
  /\ outer' = [outer EXCEPT !.open = FALSE]
  /\ source' = FALSE
  /\ IF die THEN Fails("!_die") /\ UNCHANGED <<die, deleted, outcome>> ELSE End("error") /\ UNCHANGED failed
  /\ inner' = [inner EXCEPT !.open = @ /\ ~deleted']
  /\ UNCHANGED <<demand, requested, delivered, inDrain, drainRequested, sourceComplete, requestedNext,
                 fwdSub, waiting, stack>>

(***************************************************************************)
(* The loop of drain(), with drain_impl in it                              *)
(***************************************************************************)
InLoop(pc) == Running /\ stack # <<>> /\ Top = pc
Goes == Needs > 0 /\ ~die

\* slip: what was asked for before is asked for again
AsksInner_Again == TRUE

AsksInner == waiting = 0

DrainInner ==
  /\ InLoop("loop") /\ Goes /\ fwdSub /\ AsksInner
  /\ drainRequested' = FALSE
  /\ waiting' = waiting + Needs
  /\ inner' = [inner EXCEPT !.owed = @ + Needs]
  /\ stack' = Append(Below, "asks inner")
  /\ UNCHANGED <<demand, requested, delivered, inDrain, die, source, sourceComplete, requestedNext, fwdSub,
                 deleted, outer, outcome, failed>>

\* slip: a packet that is on its way is asked for again
OneByOne_Not == FALSE

OneByOne == requestedNext

DrainOuter ==
  /\ InLoop("loop") /\ Goes /\ ~fwdSub /\ ~OneByOne /\ ~sourceComplete
  /\ drainRequested' = FALSE /\ requestedNext' = TRUE
  /\ outer' = [outer EXCEPT !.owed = @ + 1]
  /\ stack' = Append(Below, "asks outer")
  /\ UNCHANGED <<demand, requested, delivered, inDrain, die, source, sourceComplete, fwdSub, waiting, deleted,
                 inner, outcome, failed>>

\* the end of the outer source, told inside the loop: drain() deletes
DrainComplete ==
  /\ InLoop("loop") /\ Goes /\ ~fwdSub /\ ~requestedNext /\ sourceComplete
  /\ outcome' = "complete" /\ die' = TRUE /\ drainRequested' = FALSE
  /\ UNCHANGED <<demand, requested, delivered, inDrain, flatVars, outer, inner, stack, failed>>

\* nothing to do, or nothing to do but wait
DrainEnds ==
  /\ InLoop("loop")
  /\ \/ ~Goes /\ UNCHANGED drainRequested
     \/ Goes /\ (IF fwdSub THEN ~AsksInner ELSE OneByOne) /\ drainRequested' = FALSE
  /\ ExitDrain
  /\ UNCHANGED <<demand, requested, delivered, die, source, sourceComplete, requestedNext, fwdSub, waiting,
                 outcome, failed>>

OuterReturns ==
  /\ InLoop("asks outer")
  /\ stack' = Append(Below, "loop")
  /\ UNCHANGED <<demand, drainVars, flatVars, outer, inner, outcome, failed>>

InnerReturns ==
  /\ InLoop("asks inner")
  /\ IF drainRequested THEN stack' = Append(Below, "loop") /\ UNCHANGED <<inDrain, deleted, inner, outer>>
     ELSE ExitDrain
  /\ UNCHANGED <<demand, requested, delivered, die, drainRequested, source, sourceComplete, requestedNext,
                 fwdSub, waiting, outcome, failed>>

Subscribed ==
  /\ InLoop("subscribes")
  /\ stack' = Below
  /\ UNCHANGED <<demand, drainVars, flatVars, outer, inner, outcome, failed>>

Runs ==
  \/ SinkReturns \/ DrainInner \/ DrainOuter \/ DrainComplete \/ DrainEnds
  \/ OuterReturns \/ InnerReturns \/ Subscribed
Outer == (\E n \in 0..Elements : OnNext(n)) \/ OnComplete \/ OnError
Inner == InnerNext \/ InnerComplete \/ InnerError
SinkRequests == \E n \in {1, Infinity} : Request(n)

Next == Runs \/ Outer \/ Inner \/ SinkRequests \/ Cancel

Spec == Init /\ [][Next]_vars

(***************************************************************************)
(* Properties                                                              *)
(***************************************************************************)
\* No CHECK of flat_map or drain_source_impl fails: a packet arrives only when
\* the last one is done, an element only when it was asked for, and nothing
\* is delivered by an object that is to be deleted.
NoCheckFails == Running

\* A sink whose demand is not met is waiting for something: the elements of the
\* packet at hand, or the next packet; it is never forgotten between calls.
DemandIsPassedOn ==
  Running /\ stack = <<>> /\ outcome = "none" /\ Needs > 0 =>
    IF fwdSub THEN waiting > 0 /\ inner.owed = waiting ELSE outer.owed > 0

\* The sink is told that the stream is complete only when the outer source and
\* the source of the last packet have both completed of themselves.
CompleteIsLast == outcome = "complete" => sourceComplete /\ ~fwdSub

\* Once deleted, drain() is not running and no source can call: nothing on the
\* stack will touch the object.
DeletedIsUnused ==
  deleted => ~inner.open /\ ~outer.open /\ \A k \in DOMAIN stack : stack[k] \in {"sink", "subscribes"}

P == INSTANCE Stream WITH asked <- requested, given <- delivered, ended <- outcome # "none"

\* However the packets fall apart, the sink gets what it asked for and no more, and
\* nothing behind the end.
KeepsPromise == P!Spec

\* A stage that has ended, from inside whatever nesting of calls, is deleted.
EndedIsDeleted == (outcome # "none") ~> (deleted \/ ~Running)

\* If the sources run dry the sink hears of it, provided it goes on asking.
EndIsTold == (~outer.open /\ ~inner.open) ~> (outcome # "none" \/ ~Running)

\* What flat_map promises its sink, and its own memory, in every state.
Safety ==
  /\ TypeOK
  /\ NoCheckFails
  /\ CompleteIsLast
  /\ DeletedIsUnused

\* However flat_map ends, the sink hears of it and the object goes away.
Ending ==
  /\ KeepsPromise
  /\ EndIsTold
  /\ EndedIsDeleted
=============================================================================
