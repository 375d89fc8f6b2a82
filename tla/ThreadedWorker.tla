--------------------------- MODULE ThreadedWorker ---------------------------
(***************************************************************************)
(* streams::threaded_worker: the stage that takes elements on the thread   *)
(* of its source, queues them, and delivers them in batches on a thread of *)
(* its own, together with the drain loop it inherits (drain_source_impl).  *)
(*                                                                         *)
(* Threads: the source's thread calls on_next, on_error, on_complete; the  *)
(* worker runs worker_thread_loop; the "requester" is the thread that      *)
(* subscribed, when the sink requests from there; the "canceller" is a     *)
(* thread that calls cancel() on its own, as signal_breaker does.          *)
(* One step is one atomic access, or one critical section of _mutex.       *)
(***************************************************************************)
EXTENDS Integers, Sequences

CONSTANTS
  Items,             \* bound: elements the source may send, 1..Items
  MaxQueuedFrames,   \* _max_queued_frames (at least Items: no limit)
  MaxRequested,      \* bound: demand the sink ever signals
  RequestsFrom,      \* threads on which the sink calls request()
  CancelsFrom        \* threads on which the sink calls cancel()

ASSUME BoundsAssumption ==
  /\ Items \in Nat \ {0}
  /\ MaxQueuedFrames \in Nat \ {0}
  /\ MaxRequested \in Nat \ {0}

ASSUME ThreadsAssumption ==
  /\ RequestsFrom \subseteq {"worker", "requester"}
  /\ CancelsFrom \subseteq {"worker", "canceller"}

VARIABLES
  \* threaded_worker_op::instance::source
  buffer, upstream, ended, cancelled, active, ready,
  \* drain_source_impl
  requested, delivered, inDrain, die, drainRequested,
  \* the threads: where each one is, and the batch in drain_impl's hands
  pc, tmp,
  \* what happened so far
  sent, accepted, received, terminal, destroyed, failed

stage    == <<buffer, upstream, ended, cancelled, active, ready>>
drainer  == <<requested, delivered, inDrain, die, drainRequested>>
history  == <<sent, accepted, received, terminal, destroyed, failed>>
vars     == <<stage, drainer, pc, tmp, history>>

Threads == {"worker", "requester", "canceller"}
Drainers == {"worker", "requester"}
Ends == {"none", "complete", "error"}

Labels == {"start", "while", "lock", "wait", "drain", "enter", "loop", "swap",
           "deliver", "react", "after", "exit", "clear", "finish", "terminal",
           "delete", "idle", "cancel", "mark", "stop", "done"}

FlagsOK ==
  /\ cancelled \in BOOLEAN /\ active \in BOOLEAN /\ ready \in BOOLEAN
  /\ inDrain \in BOOLEAN /\ die \in BOOLEAN /\ drainRequested \in BOOLEAN
  /\ destroyed \in BOOLEAN

DataOK ==
  /\ buffer \in Seq(1..Items) /\ tmp \in Seq(1..Items)
  /\ accepted \in Seq(1..Items) /\ received \in Seq(1..Items)
  /\ upstream \in {"unsubscribed", "active", "ended", "cancelled"}
  /\ ended \in Ends /\ terminal \in Ends
  /\ requested \in Nat /\ delivered \in Nat /\ sent \in 0..Items
  /\ pc \in [Threads -> Labels]
  /\ failed \in {"no", "die", "demand", "unreachable", "active", "deleted"}

TypeOK == FlagsOK /\ DataOK

Init ==
  /\ buffer = <<>> /\ upstream = "unsubscribed" /\ ended = "none"
  /\ cancelled = FALSE /\ active = TRUE /\ ready = FALSE
  /\ requested = 0 /\ delivered = 0
  /\ inDrain = FALSE /\ die = FALSE /\ drainRequested = FALSE
  /\ pc = [t \in Threads |-> IF t = "worker" THEN "start" ELSE "idle"]
  /\ tmp = <<>>
  /\ sent = 0 /\ accepted = <<>> /\ received = <<>>
  /\ terminal = "none" /\ destroyed = FALSE /\ failed = "no"

-----------------------------------------------------------------------------
(* Plausible slips in the operators below; the runs must tell them apart.  *)

Incoming_MovedFrom == 0
NotifyWorker_Forgotten == UNCHANGED pc
DieOrMark_Forgets ==
  IF inDrain THEN UNCHANGED <<die, active>> ELSE active' = FALSE /\ UNCHANGED die
AfterLoop_Silent == "delete"
SwappedIn_Copy == buffer
MayDrain_OffByOne == requested - delivered >= 0 /\ ~die

-----------------------------------------------------------------------------
(* Shorthands.  A failed CHECK ends the process: no step is taken then.    *)

Running == failed = "no"

At(t, label) == Running /\ pc[t] = label

GoTo(t, label) == pc' = [pc EXCEPT ![t] = label]

Abort(check) == failed' = check

\* drain_source_impl::needs
needs == requested - delivered

\* on_next's argument, and its test that drops it
Incoming == sent + 1
QueueIsFull == Len(buffer) >= MaxQueuedFrames

\* _on_send.notify_one(): the worker, if parked, goes for the mutex again
NotifyWorker ==
  IF pc["worker"] = "wait" THEN GoTo("worker", "lock") ELSE UNCHANGED pc

\* the end of cancel, deliver_on_complete, deliver_on_error: die(), which here
\* clears _thread_should_be_active, at once or when the drain loop exits
DieOrMark ==
  IF inDrain THEN die' = TRUE /\ UNCHANGED active
             ELSE active' = FALSE /\ UNCHANGED die

-----------------------------------------------------------------------------
(* The source's side.                                                      *)

\* the constructor saw _worker_thread_ready and subscribes to the source
Subscribe ==
  /\ Running /\ ready /\ upstream = "unsubscribed"
  /\ upstream' = "active"
  /\ UNCHANGED <<buffer, ended, cancelled, active, ready, drainer, pc, tmp, history>>

OnNext ==
  /\ Running /\ upstream = "active" /\ sent < Items
  /\ sent' = sent + 1
  /\ IF QueueIsFull
       THEN UNCHANGED <<buffer, accepted, pc>>
       ELSE /\ buffer' = Append(buffer, Incoming)
            /\ accepted' = Append(accepted, sent + 1)
            /\ NotifyWorker
  /\ UNCHANGED <<upstream, ended, cancelled, active, ready, drainer, tmp,
                 received, terminal, destroyed, failed>>

\* on_complete and on_error
OnEnd(end) ==
  /\ Running /\ upstream = "active"
  /\ upstream' = "ended"
  /\ ended' = end
  /\ active' = FALSE
  /\ NotifyWorker
  /\ UNCHANGED <<buffer, cancelled, ready, drainer, tmp, history>>

-----------------------------------------------------------------------------
(* worker_thread_loop.                                                     *)

\* deliver_on_subscribe: the sink may request at once; the buffer is empty
DeliverOnSubscribe ==
  /\ At("worker", "start")
  /\ \E n \in 0..MaxRequested :
        /\ "worker" \in RequestsFrom \/ n = 0
        /\ requested' = requested + n
  /\ GoTo("worker", "while")
  /\ UNCHANGED <<stage, delivered, inDrain, die, drainRequested, tmp, history>>

TestActive ==
  /\ At("worker", "while")
  /\ GoTo("worker", IF active THEN "lock" ELSE "finish")
  /\ UNCHANGED <<stage, drainer, tmp, history>>

\* the critical section: wait for an element, leave the loop, or drain
LockAndWait ==
  /\ At("worker", "lock")
  /\ ready' = TRUE
  /\ GoTo("worker", IF buffer # <<>> /\ (active \/ ended # "none") THEN "drain"
                    ELSE IF active /\ buffer = <<>> THEN "wait" ELSE "finish")
  /\ UNCHANGED <<buffer, upstream, ended, cancelled, active, drainer, tmp, history>>

\* a condition variable may return without having been notified
SpuriousWakeup ==
  /\ At("worker", "wait")
  /\ GoTo("worker", "lock")
  /\ UNCHANGED <<stage, drainer, tmp, history>>

\* if (!_cancelled) the sink is told
AfterLoop == IF cancelled THEN "delete" ELSE "terminal"

Finish ==
  /\ At("worker", "finish")
  /\ IF ~cancelled /\ ended = "none"
       THEN Abort("unreachable") /\ UNCHANGED pc
       ELSE GoTo("worker", AfterLoop) /\ UNCHANGED failed
  /\ UNCHANGED <<stage, drainer, tmp, sent, accepted, received, terminal, destroyed>>

\* deliver_on_complete or deliver_on_error, with the die() that follows
DeliverTerminal ==
  /\ At("worker", "terminal")
  /\ IF die
       THEN Abort("die") /\ UNCHANGED <<active, die, terminal, pc>>
       ELSE terminal' = ended /\ DieOrMark /\ GoTo("worker", "delete") /\ UNCHANGED failed
  /\ UNCHANGED <<buffer, upstream, ended, cancelled, ready, requested, delivered,
                 inDrain, drainRequested, tmp, sent, accepted, received, destroyed>>

\* delete this: the destructor cancels an upstream that is still there
Delete ==
  /\ At("worker", "delete")
  /\ IF active
       THEN Abort("active") /\ UNCHANGED <<upstream, destroyed, pc>>
       ELSE /\ upstream' = IF upstream = "active" THEN "cancelled" ELSE upstream
            /\ destroyed' = TRUE
            /\ GoTo("worker", "done")
            /\ UNCHANGED failed
  /\ UNCHANGED <<buffer, ended, cancelled, active, ready, drainer, tmp,
                 sent, accepted, received, terminal>>

-----------------------------------------------------------------------------
(* drain_source_impl::drain, on the worker and on a requesting thread.  A  *)
(* requester that comes here after `delete this` touches a dead object.    *)

Return(t) == IF t = "worker" THEN "while" ELSE "done"

TouchDeleted(t) ==
  /\ Running /\ destroyed
  /\ t = "requester" /\ pc[t] \notin {"idle", "done"}
  /\ Abort("deleted")
  /\ UNCHANGED <<stage, drainer, pc, tmp, sent, accepted, received, terminal, destroyed>>

InDrain(t, label) == At(t, label) /\ ~destroyed

\* `if (_in_drain.load())`, apart from the assignment that follows
TestInDrain(t) ==
  /\ InDrain(t, "drain")
  /\ IF inDrain THEN drainRequested' = TRUE /\ GoTo(t, Return(t))
                ELSE GoTo(t, "enter") /\ UNCHANGED drainRequested
  /\ UNCHANGED <<stage, requested, delivered, inDrain, die, tmp, history>>

EnterDrain(t) ==
  /\ InDrain(t, "enter")
  /\ inDrain' = TRUE
  /\ GoTo(t, "loop")
  /\ UNCHANGED <<stage, requested, delivered, die, drainRequested, tmp, history>>

MayDrain == needs > 0 /\ ~die

DrainLoop(t) ==
  /\ InDrain(t, "loop")
  /\ IF MayDrain THEN drainRequested' = FALSE /\ GoTo(t, "swap")
                 ELSE GoTo(t, "exit") /\ UNCHANGED drainRequested
  /\ UNCHANGED <<stage, requested, delivered, inDrain, die, tmp, history>>

\* what _buffer.swap(tmp) leaves in _buffer
SwappedIn == <<>>

\* drain_impl up to deliver_on_next: off the worker thread it does nothing
DrainImpl(t) ==
  /\ InDrain(t, "swap")
  /\ IF t # "worker" \/ buffer = <<>>
       THEN GoTo(t, "after") /\ UNCHANGED <<buffer, tmp>>
       ELSE GoTo(t, "deliver") /\ tmp' = buffer /\ buffer' = SwappedIn
  /\ UNCHANGED <<upstream, ended, cancelled, active, ready, drainer, history>>

\* deliver_on_next, up to the sink's reaction inside its on_next
DeliverOnNext ==
  /\ At("worker", "deliver")
  /\ delivered' = delivered + 1
  /\ IF die \/ delivered + 1 > requested
       THEN /\ Abort(IF die THEN "die" ELSE "demand")
            /\ UNCHANGED <<received, tmp, pc>>
       ELSE /\ received' = received \o tmp
            /\ tmp' = <<>>
            /\ GoTo("worker", "react")
            /\ UNCHANGED failed
  /\ UNCHANGED <<stage, requested, inDrain, die, drainRequested,
                 sent, accepted, terminal, destroyed>>

SinkReturns ==
  /\ At("worker", "react")
  /\ GoTo("worker", "after")
  /\ UNCHANGED <<stage, drainer, tmp, history>>

\* the sink requests inside on_next: the drain it is called from goes on
SinkRequests ==
  /\ At("worker", "react") /\ "worker" \in RequestsFrom
  /\ IF die
       THEN Abort("die") /\ UNCHANGED <<requested, drainRequested, pc>>
       ELSE /\ \E n \in 1..(MaxRequested - requested) : requested' = requested + n
            /\ drainRequested' = TRUE
            /\ GoTo("worker", "after")
            /\ UNCHANGED failed
  /\ UNCHANGED <<stage, delivered, inDrain, die, tmp,
                 sent, accepted, received, terminal, destroyed>>

\* the sink cancels inside on_next
SinkCancels ==
  /\ At("worker", "react") /\ "worker" \in CancelsFrom /\ ~cancelled
  /\ cancelled' = TRUE
  /\ DieOrMark
  /\ GoTo("worker", "after")
  /\ UNCHANGED <<buffer, upstream, ended, ready, requested, delivered, inDrain,
                 drainRequested, tmp, history>>

AfterDrainImpl(t) ==
  /\ InDrain(t, "after")
  /\ GoTo(t, IF drainRequested THEN "loop" ELSE "exit")
  /\ UNCHANGED <<stage, drainer, tmp, history>>

\* exit_drain: either die(), or clear _in_drain in a second access
ExitDrain(t) ==
  /\ InDrain(t, "exit")
  /\ IF die THEN active' = FALSE /\ GoTo(t, Return(t))
            ELSE GoTo(t, "clear") /\ UNCHANGED active
  /\ UNCHANGED <<buffer, upstream, ended, cancelled, ready, drainer, tmp, history>>

ClearInDrain(t) ==
  /\ InDrain(t, "clear")
  /\ inDrain' = FALSE
  /\ GoTo(t, Return(t))
  /\ UNCHANGED <<stage, requested, delivered, die, drainRequested, tmp, history>>

-----------------------------------------------------------------------------
(* The other threads.                                                      *)

\* the subscribing thread requests everything, once the stage is connected
Request ==
  /\ At("requester", "idle") /\ "requester" \in RequestsFrom
  /\ upstream # "unsubscribed" /\ terminal = "none" /\ ~cancelled
  /\ requested' = requested + MaxRequested
  /\ GoTo("requester", "drain")
  /\ UNCHANGED <<stage, delivered, inDrain, die, drainRequested, tmp, history>>

\* cancel() from a thread that is not the worker, while the stream is open
Cancel ==
  /\ At("canceller", "idle") /\ "canceller" \in CancelsFrom
  /\ upstream # "unsubscribed" /\ terminal = "none"
  /\ cancelled' = TRUE
  /\ GoTo("canceller", "cancel")
  /\ UNCHANGED <<buffer, upstream, ended, active, ready, drainer, tmp, history>>

\* drain_source_impl::cancel: CHECK(!_die), then the test of _in_drain
CancelTest ==
  /\ At("canceller", "cancel")
  /\ IF destroyed \/ die
       THEN Abort(IF destroyed THEN "deleted" ELSE "die") /\ UNCHANGED pc
       ELSE GoTo("canceller", IF inDrain THEN "mark" ELSE "stop") /\ UNCHANGED failed
  /\ UNCHANGED <<stage, drainer, tmp, sent, accepted, received, terminal, destroyed>>

CancelMark ==
  /\ At("canceller", "mark")
  /\ IF destroyed THEN Abort("deleted") /\ UNCHANGED <<die, pc>>
                  ELSE die' = TRUE /\ GoTo("canceller", "done") /\ UNCHANGED failed
  /\ UNCHANGED <<stage, requested, delivered, inDrain, drainRequested, tmp,
                 sent, accepted, received, terminal, destroyed>>

\* die(): the flag alone, neither the mutex nor the condition variable
CancelStop ==
  /\ At("canceller", "stop")
  /\ IF destroyed THEN Abort("deleted") /\ UNCHANGED <<active, pc>>
                  ELSE active' = FALSE /\ GoTo("canceller", "done") /\ UNCHANGED failed
  /\ UNCHANGED <<buffer, upstream, ended, cancelled, ready, drainer, tmp,
                 sent, accepted, received, terminal, destroyed>>

-----------------------------------------------------------------------------
Source == OnNext \/ \E end \in {"complete", "error"} : OnEnd(end)

Drain(t) ==
  \/ TestInDrain(t) \/ EnterDrain(t) \/ DrainLoop(t) \/ DrainImpl(t)
  \/ AfterDrainImpl(t) \/ ExitDrain(t) \/ ClearInDrain(t) \/ TouchDeleted(t)

InSink == SinkReturns \/ SinkRequests \/ SinkCancels

Worker ==
  \/ DeliverOnSubscribe \/ TestActive \/ LockAndWait \/ Finish
  \/ DeliverTerminal \/ Delete \/ DeliverOnNext \/ InSink \/ Drain("worker")

Requester == Request \/ Drain("requester")

Canceller == Cancel \/ CancelTest \/ CancelMark \/ CancelStop

Next == Subscribe \/ Source \/ Worker \/ SpuriousWakeup \/ Requester \/ Canceller

Spec == Init /\ [][Next]_vars

\* Threads that have begun keep being scheduled; nobody has to send, to
\* request or to cancel anything.
Fairness ==
  /\ WF_vars(Subscribe) /\ WF_vars(Worker)
  /\ WF_vars(Drain("requester"))
  /\ WF_vars(CancelTest \/ CancelMark \/ CancelStop)

FairSpec == Spec /\ Fairness

-----------------------------------------------------------------------------
(* Properties.                                                             *)

\* Every accepted element is in exactly one place, in order: already with
\* the sink, in the batch drain_impl swapped out, or in _buffer.  The swap and
\* the two threads at _buffer neither lose, repeat nor reorder one.
Conservation == accepted = received \o tmp \o buffer

\* The sink gets no more batches than it asked for (CHECK in deliver_on_next),
\* the branch marked ABORT "unreachable code" is, and ~source finds
\* _thread_should_be_active false, whoever cancels and whenever.
OwnChecksHold ==
  /\ delivered <= requested
  /\ failed \notin {"demand", "unreachable", "active"}

\* The outcome the sink sees is its source's, and the stage goes away only
\* after it told the sink, or after the stream was cancelled.
OutcomeIsUpstreams ==
  /\ terminal \in {"none", ended}
  /\ destroyed => cancelled \/ (terminal = ended /\ ended # "none")

\* Why those hold: the demand read at the head of the drain loop is still
\* there when the batch is delivered, and the worker leaves its loop only after
\* _thread_should_be_active was cleared, which someone cancelling or the end of
\* the source did.
DemandAhead ==
  /\ delivered <= requested
  /\ Running /\ pc["worker"] \in {"swap", "deliver"} => delivered < requested

Leaving == pc["worker"] \in {"finish", "terminal", "delete", "done"}
Told == pc["worker"] \in {"delete", "done"}

ReasonToStop ==
  /\ ~active \/ die => cancelled \/ ended # "none"
  /\ pc["canceller"] # "idle" => cancelled
  /\ Leaving => ~active
  /\ failed \notin {"demand", "unreachable", "active"}

OneOutcome ==
  /\ upstream \in {"unsubscribed", "active"} => ended = "none"
  /\ pc["worker"] = "terminal" => ended # "none"
  /\ IF Told THEN cancelled \/ (terminal = ended /\ ended # "none") ELSE terminal = "none"
  /\ terminal \in {"none", ended}
  /\ destroyed => pc["worker"] = "done"
  /\ pc["worker"] = "deliver" <=> tmp # <<>>

Inductive == Conservation /\ DemandAhead /\ ReasonToStop /\ OneOutcome

\* As long as the stage is used from the worker's thread only, no CHECK fails.
UncancelledFromOutside == pc["canceller"] = "idle"
UsedFromInside == UncancelledFromOutside /\ pc["requester"] = "idle"
NoCheckFails == UsedFromInside => failed = "no"

\* After a cancel() inside on_next the sink is not called any more, so that it
\* may be deleted (streams.h: "kept alive until on_error/on_complete or cancel()
\* call"), also while another thread requests.
SilentAfterCancel ==
  [][cancelled /\ UncancelledFromOutside => UNCHANGED <<received, terminal>>]_vars

\* Seen from outside, the stage is an ordered hand-off between two threads.
Abstract == INSTANCE HandOff
              WITH Element <- 1..Items, handed <- received, outcome <- terminal
ImplementsHandOff == Abstract!Spec

Over == destroyed \/ ~Running

\* Once the source ended, the worker leaves its loop and the stage is deleted,
\* whether or not the sink has demand left, unless another thread interferes.
EndedStageIsDeleted == (ended # "none") ~> (Over \/ ~UsedFromInside)

\* Once the sink cancels the stream, the stage is deleted, also while another
\* thread requests, unless another thread cancels too.
CancelledStageIsDeleted == cancelled ~> (Over \/ ~UncancelledFromOutside)

\* An element in the queue of a sink that has asked for everything reaches it,
\* unless the stream ends or is cancelled first.  (While request() is still
\* draining, the two drain loops may keep each other from delivering.)
QueuedIsHandedOver ==
  \A i \in 1..Items :
    (pc["requester"] = "done" /\ \E k \in DOMAIN buffer : buffer[k] = i) ~>
      (\/ \E k \in DOMAIN received : received[k] = i
       \/ ended # "none" \/ cancelled \/ ~Running)

\* test/streams_test.cpp, threaded_worker: every element the source sent comes
\* out before the completion does, to a sink that has demand for it.
AllHandedOverAtCompletion ==
  terminal = "complete" /\ needs > 0 => received = accepted

\* What the stage promises its sink in every state, whoever requests and cancels.
Safety ==
  /\ TypeOK
  /\ Conservation
  /\ OwnChecksHold
  /\ OutcomeIsUpstreams

\* Either way the stage goes away.
StageIsDeleted ==
  /\ EndedStageIsDeleted
  /\ CancelledStageIsDeleted
=============================================================================
