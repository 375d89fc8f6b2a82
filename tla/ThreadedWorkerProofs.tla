------------------------ MODULE ThreadedWorkerProofs ------------------------
(***************************************************************************)
(* Theorems about ThreadedWorker for every number of items, queue limit,   *)
(* demand, and choice of the threads that request and cancel.              *)
(***************************************************************************)
EXTENDS ThreadedWorker, SequenceTheorems, TLAPS

-----------------------------------------------------------------------------
(* Lemmas on sequences.                                                    *)

\* A concatenation begins with its first operand (the sink's elements are the
\* first of the accepted ones).
LEMMA PrefixOfConcat ==
  ASSUME NEW S, NEW a \in Seq(S), NEW b \in Seq(S)
  PROVE  SubSeq(a \o b, 1, Len(a)) = a
<1>1. CASE a = <<>>
  BY <1>1, SubSeqEmpty
<1>2. CASE a # <<>>
  <2>1. Len(a) \in 1..Len(a) /\ 1 \in 1..Len(a)
    BY <1>2, EmptySeq, LenProperties
  <2>2. SubSeq(a \o b, 1, Len(a)) = SubSeq(a, 1, Len(a))
    BY <2>1, SubSeqOfConcat1
  <2> QED  BY <2>2, SubSeqFull
<1> QED  BY <1>1, <1>2

-----------------------------------------------------------------------------
(* Type correctness.                                                       *)

\* Every step keeps the flags of the stage and of the drain loop Boolean.
LEMMA FlagsStep == TypeOK /\ [Next]_vars => FlagsOK'
<1> SUFFICES ASSUME FlagsOK, [Next]_vars PROVE FlagsOK'
  BY DEF TypeOK
<1> USE DEF FlagsOK, stage, drainer, history
<1>1. CASE Subscribe \/ Source
  BY <1>1 DEF Subscribe, Source, OnNext, OnEnd
<1>2. CASE DeliverOnSubscribe \/ TestActive \/ LockAndWait \/ SpuriousWakeup
  BY <1>2 DEF DeliverOnSubscribe, TestActive, LockAndWait, SpuriousWakeup
<1>3. CASE Finish \/ DeliverTerminal \/ Delete
  BY <1>3 DEF Finish, DeliverTerminal, DieOrMark, Delete
<1>4. CASE DeliverOnNext \/ InSink
  BY <1>4 DEF DeliverOnNext, InSink, SinkReturns, SinkRequests, SinkCancels, DieOrMark
<1>5. ASSUME NEW t \in Drainers, Drain(t) PROVE FlagsOK'
  BY <1>5 DEF Drain, TestInDrain, EnterDrain, DrainLoop,
              DrainImpl, AfterDrainImpl, ExitDrain, ClearInDrain, TouchDeleted
<1>6. CASE Request \/ Canceller
  BY <1>6 DEF Request, Canceller, Cancel, CancelTest, CancelMark, CancelStop
<1>7. CASE UNCHANGED vars
  BY <1>7 DEF vars
<1> QED
  BY <1>1, <1>2, <1>3, <1>4, <1>5, <1>6, <1>7 DEF Next, Worker, Requester, Drainers

\* Every step keeps queues, counters, outcomes and thread positions typed.
LEMMA DataStep == TypeOK /\ [Next]_vars => DataOK'
<1> SUFFICES ASSUME DataOK, [Next]_vars PROVE DataOK'
  BY DEF TypeOK
<1> USE BoundsAssumption DEF DataOK, At, GoTo, Abort, Threads,
        Labels, Ends, stage, drainer, history
<1>1. CASE Subscribe
  BY <1>1 DEF Subscribe
<1>2. CASE OnNext
  <2>1. buffer' \in Seq(1..Items) /\ accepted' \in Seq(1..Items)
    <3>1. sent + 1 \in 1..Items
      BY <1>2 DEF OnNext
    <3>2. Append(buffer, sent + 1) \in Seq(1..Items) /\ Append(accepted, sent + 1) \in Seq(1..Items)
      BY <3>1, AppendProperties
    <3> QED  BY <1>2, <3>2 DEF OnNext, Incoming
  <2>2. pc' \in [Threads -> Labels]
    BY <1>2 DEF OnNext, NotifyWorker
  <2>3. sent' \in 0..Items
    BY <1>2 DEF OnNext
  <2> QED  BY <1>2, <2>1, <2>2, <2>3 DEF OnNext
<1>3. ASSUME NEW end \in {"complete", "error"}, OnEnd(end) PROVE DataOK'
  BY <1>3 DEF OnEnd, NotifyWorker
<1>4. CASE DeliverOnSubscribe \/ TestActive \/ LockAndWait \/ SpuriousWakeup
  <2>1. CASE DeliverOnSubscribe  BY <2>1 DEF DeliverOnSubscribe
  <2>2. CASE TestActive  BY <2>2 DEF TestActive
  <2>3. CASE LockAndWait  BY <2>3 DEF LockAndWait
  <2>4. CASE SpuriousWakeup  BY <2>4 DEF SpuriousWakeup
  <2> QED  BY <1>4, <2>1, <2>2, <2>3, <2>4
<1>5. CASE Finish \/ DeliverTerminal \/ Delete
  <2>1. CASE Finish
    BY <2>1 DEF Finish, AfterLoop
  <2>2. CASE DeliverTerminal
    BY <2>2 DEF DeliverTerminal
  <2>3. CASE Delete
    BY <2>3 DEF Delete
  <2> QED  BY <1>5, <2>1, <2>2, <2>3
<1>6. CASE DeliverOnNext
  <2>1. received \o tmp \in Seq(1..Items)
    BY ConcatProperties
  <2>2. received' \in {received, received \o tmp} /\ tmp' \in {tmp, <<>>}
    BY <1>6 DEF DeliverOnNext
  <2>3. pc' \in [Threads -> Labels] /\ delivered' \in Nat
    BY <1>6 DEF DeliverOnNext
  <2>4. <<>> \in Seq(1..Items)
    OBVIOUS
  <2> QED  BY <1>6, <2>1, <2>2, <2>3, <2>4 DEF DeliverOnNext
<1>7. CASE InSink
  <2>1. CASE SinkReturns \/ SinkCancels
    BY <2>1 DEF SinkReturns, SinkCancels
  <2>2. CASE SinkRequests
    <3>1. requested' \in Nat
      BY <2>2 DEF SinkRequests
    <3>2. pc' \in [Threads -> Labels]
      BY <2>2 DEF SinkRequests
    <3> QED  BY <2>2, <3>1, <3>2 DEF SinkRequests
  <2> QED  BY <1>7, <2>1, <2>2 DEF InSink
<1>8. ASSUME NEW t \in Drainers, Drain(t) PROVE DataOK'
  <2> USE DEF Drainers, InDrain, Return
  <2>1. CASE TestInDrain(t) \/ EnterDrain(t) \/ DrainLoop(t)
    <3>1. CASE TestInDrain(t)
      BY <3>1 DEF TestInDrain
    <3>2. CASE EnterDrain(t)
      BY <3>2 DEF EnterDrain
    <3>3. CASE DrainLoop(t)
      <4>1. CASE MayDrain
        BY <3>3, <4>1 DEF DrainLoop
      <4>2. CASE ~MayDrain
        BY <3>3, <4>2 DEF DrainLoop
      <4> QED  BY <4>1, <4>2
    <3> QED  BY <2>1, <3>1, <3>2, <3>3
  <2>2. CASE DrainImpl(t)
    <3>1. pc' \in [Threads -> Labels]
      BY <2>2 DEF DrainImpl
    <3>2. buffer' \in {buffer, <<>>} /\ tmp' \in {tmp, buffer}
      BY <2>2 DEF DrainImpl, SwappedIn
    <3>3. buffer' \in Seq(1..Items) /\ tmp' \in Seq(1..Items)
      BY <3>2, EmptySeq, Zenon
    <3> QED  BY <2>2, <3>1, <3>3 DEF DrainImpl
  <2>3. CASE AfterDrainImpl(t)
    <3>1. pc' = [pc EXCEPT ![t] = "loop"] \/ pc' = [pc EXCEPT ![t] = "exit"]
      BY <2>3, Zenon DEF AfterDrainImpl
    <3>2. pc' \in [Threads -> Labels]
      BY <3>1
    <3> QED  BY <2>3, <3>2 DEF AfterDrainImpl
  <2>5. CASE ExitDrain(t) \/ ClearInDrain(t)
    BY <2>5 DEF ExitDrain, ClearInDrain
  <2>4. CASE TouchDeleted(t)
    BY <2>4 DEF TouchDeleted
  <2> QED  BY <1>8, <2>1, <2>2, <2>3, <2>4, <2>5 DEF Drain
<1>9. CASE Request
  BY <1>9 DEF Request
<1>10. CASE Canceller
  BY <1>10 DEF Canceller, Cancel, CancelTest, CancelMark, CancelStop
<1>11. CASE UNCHANGED vars
  BY <1>11 DEF vars
<1> QED
  BY <1>1, <1>2, <1>3, <1>4, <1>5, <1>6, <1>7, <1>8, <1>9, <1>10, <1>11
     DEF Next, Source, Worker, Requester, Drainers

\* The state of the stage and of its threads always has its type.
THEOREM TypeCorrect == Spec => []TypeOK
<1>1. Init => FlagsOK
  BY DEF Init, FlagsOK
<1>2. Init => DataOK
  BY BoundsAssumption DEF Init, DataOK, Threads, Labels, Ends
<1> QED  BY <1>1, <1>2, FlagsStep, DataStep, PTL DEF Spec, TypeOK

-----------------------------------------------------------------------------
(* The elements: nothing is lost, repeated or reordered inside the stage.  *)

\* The steps other than these three leave every queue alone.
OtherStep ==
  \/ Subscribe \/ (\E end \in {"complete", "error"} : OnEnd(end))
  \/ DeliverOnSubscribe \/ TestActive \/ LockAndWait \/ SpuriousWakeup
  \/ Finish \/ DeliverTerminal \/ Delete \/ InSink \/ Request \/ Canceller
  \/ \E t \in Drainers : \/ TestInDrain(t) \/ EnterDrain(t) \/ DrainLoop(t)
                         \/ AfterDrainImpl(t) \/ ExitDrain(t) \/ ClearInDrain(t)
                         \/ TouchDeleted(t)
  \/ UNCHANGED vars

\* The steps of the specification, sorted by what they do to the queues.
LEMMA StepKinds ==
  [Next]_vars => OnNext \/ DeliverOnNext \/ (\E t \in Drainers : DrainImpl(t)) \/ OtherStep
BY DEF Next, Source, Worker, Requester, Drain, Drainers, OtherStep

\* The other steps touch no queue and no history of elements.
LEMMA OthersKeepQueues == OtherStep => UNCHANGED <<accepted, received, tmp, buffer>>
<1> USE DEF stage, history
<1>1. ASSUME NEW end, OnEnd(end) PROVE UNCHANGED <<accepted, received, tmp, buffer>>
  BY <1>1 DEF OnEnd
<1>2. ASSUME NEW t \in Drainers,
             TestInDrain(t) \/ EnterDrain(t) \/ DrainLoop(t) \/ AfterDrainImpl(t)
               \/ ExitDrain(t) \/ ClearInDrain(t) \/ TouchDeleted(t)
      PROVE  UNCHANGED <<accepted, received, tmp, buffer>>
  BY <1>2 DEF TestInDrain, EnterDrain, DrainLoop, AfterDrainImpl, ExitDrain, ClearInDrain,
              TouchDeleted
<1>3. CASE Subscribe \/ DeliverOnSubscribe \/ TestActive \/ LockAndWait \/ SpuriousWakeup
  BY <1>3 DEF Subscribe, DeliverOnSubscribe, TestActive, LockAndWait, SpuriousWakeup
<1>4. CASE Finish \/ DeliverTerminal \/ Delete \/ InSink \/ Request
  BY <1>4 DEF Finish, DeliverTerminal, Delete, InSink, SinkReturns, SinkRequests,
              SinkCancels, Request
<1>5. CASE Canceller
  BY <1>5 DEF Canceller, Cancel, CancelTest, CancelMark, CancelStop
<1>6. CASE UNCHANGED vars
  BY <1>6 DEF vars
<1> QED  BY <1>1, <1>2, <1>3, <1>4, <1>5, <1>6 DEF OtherStep

\* on_next, the swap and the delivery keep every element in one place.
LEMMA ConservationStep ==
  TypeOK /\ OneOutcome /\ Conservation /\ [Next]_vars => Conservation'
<1> SUFFICES ASSUME DataOK, OneOutcome, Conservation, [Next]_vars PROVE Conservation'
  BY DEF TypeOK
<1> DEFINE E == 1..Items
<1>0. buffer \in Seq(E) /\ tmp \in Seq(E) /\ received \in Seq(E) /\ <<>> \in Seq(E)
  BY EmptySeq DEF DataOK
<1>1. CASE OnNext
  <2>1. sent + 1 \in E
    BY <1>1, BoundsAssumption DEF OnNext, DataOK
  <2>2. \/ accepted' = accepted \o <<sent + 1>> /\ buffer' = buffer \o <<sent + 1>>
        \/ UNCHANGED <<accepted, buffer>>
    <3>1. accepted \in Seq(E)
      BY DEF DataOK
    <3>2. /\ Append(accepted, sent + 1) = accepted \o <<sent + 1>>
          /\ Append(buffer, sent + 1) = buffer \o <<sent + 1>>
      BY <1>0, <2>1, <3>1, AppendIsConcat
    <3> QED  BY <1>1, <3>2 DEF OnNext, Incoming
  <2>3. UNCHANGED <<received, tmp>>
    BY <1>1 DEF OnNext
  <2>4. ((received \o tmp) \o buffer) \o <<sent + 1>> = (received \o tmp) \o (buffer \o <<sent + 1>>)
    <3>1. <<sent + 1>> \in Seq(E) /\ received \o tmp \in Seq(E)
      BY <1>0, <2>1, ConcatProperties
    <3>2. \A s, t, u \in Seq(E) : (s \o t) \o u = s \o (t \o u)
      BY ConcatAssociative
    <3> QED  BY <1>0, <3>1, <3>2
  <2> QED  BY <2>2, <2>3, <2>4 DEF Conservation
<1>2. CASE DeliverOnNext
  <2>1. CASE UNCHANGED <<received, tmp>>
    BY <1>2, <2>1 DEF DeliverOnNext, Conservation, stage
  <2>2. CASE received' = received \o tmp /\ tmp' = <<>>
    <3>1. (received \o tmp) \o <<>> = received \o tmp
      BY <1>0, ConcatProperties, ConcatEmptySeq
    <3> QED  BY <1>2, <2>2, <3>1 DEF DeliverOnNext, Conservation, stage
  <2>3. UNCHANGED <<received, tmp>> \/ (received' = received \o tmp /\ tmp' = <<>>)
    BY <1>2, Zenon DEF DeliverOnNext
  <2> QED  BY <2>1, <2>2, <2>3
<1>3. ASSUME NEW t \in Drainers, DrainImpl(t) PROVE Conservation'
  <2>1. UNCHANGED <<accepted, received>>
    BY <1>3 DEF DrainImpl, history
  <2>2. CASE UNCHANGED <<buffer, tmp>>
    BY <2>1, <2>2 DEF Conservation
  <2>3. CASE t = "worker" /\ tmp' = buffer /\ buffer' = <<>>
    <3>1. tmp = <<>>
      BY <1>3, <2>3 DEF DrainImpl, InDrain, At, OneOutcome
    <3>2. received \o <<>> = received /\ (received \o buffer) \o <<>> = received \o buffer
      BY <1>0, ConcatProperties, ConcatEmptySeq
    <3> QED  BY <2>1, <2>3, <3>1, <3>2 DEF Conservation
  <2> QED  BY <1>3, <2>2, <2>3 DEF DrainImpl, SwappedIn
<1>4. CASE OtherStep
  BY <1>4, OthersKeepQueues DEF Conservation
<1> QED  BY <1>1, <1>2, <1>3, <1>4, StepKinds

-----------------------------------------------------------------------------
(* Demand.                                                                 *)

\* What a step does to the counters: only a request raises `requested`, only
\* a delivery raises `delivered`.
LEMMA DemandStep == TypeOK /\ DemandAhead /\ [Next]_vars => DemandAhead'
<1> SUFFICES ASSUME DataOK, DemandAhead, [Next]_vars PROVE DemandAhead'
  BY DEF TypeOK
<1> USE DEF DataOK, DemandAhead, At, GoTo, Running, Threads, Drainers, stage, drainer, history
<1>1. CASE DeliverOnNext
  <2>1. delivered' = delivered + 1 /\ requested' = requested /\ delivered < requested
    BY <1>1 DEF DeliverOnNext
  <2>2. failed' # "no" \/ pc' = [pc EXCEPT !["worker"] = "react"]
    BY <1>1, Zenon DEF DeliverOnNext, Abort
  <2>3. failed' = "no" => pc'["worker"] = "react"
    BY <2>2
  <2> QED  BY <2>1, <2>3
<1>2. CASE SinkRequests
  <2>1. requested' \in Nat /\ requested' >= requested /\ delivered' = delivered
    BY <1>2, BoundsAssumption DEF SinkRequests
  <2>2. failed' = "no" => pc'["worker"] = "after"
    BY <1>2 DEF SinkRequests, Abort
  <2> QED  BY <2>1, <2>2
<1>3. CASE Request
  BY <1>3, BoundsAssumption DEF Request
<1>4. CASE DeliverOnSubscribe
  BY <1>4, BoundsAssumption DEF DeliverOnSubscribe
<1>5. ASSUME NEW t \in Drainers, DrainLoop(t) PROVE DemandAhead'
  <2>1. UNCHANGED <<requested, delivered, failed>>
    BY <1>5 DEF DrainLoop
  <2>2. CASE MayDrain
    BY <1>5, <2>1, <2>2 DEF DrainLoop, MayDrain, needs
  <2>3. CASE ~MayDrain
    <3>1. pc' = [pc EXCEPT ![t] = "exit"]
      BY <1>5, <2>3 DEF DrainLoop
    <3>2. pc'["worker"] \in {pc["worker"], "exit"}
      BY <3>1
    <3> QED  BY <2>1, <3>2
  <2> QED  BY <2>2, <2>3
<1>6. ASSUME UNCHANGED <<requested, delivered>>,
             pc'["worker"] \in {"swap", "deliver"} => pc["worker"] \in {"swap", "deliver"},
             failed' = "no" => failed = "no"
      PROVE  DemandAhead'
  BY <1>6
<1>7. CASE UNCHANGED vars
  BY <1>7, <1>6 DEF vars
<1>8. CASE Subscribe \/ Source
  BY <1>8, <1>6 DEF Subscribe, Source, OnNext, OnEnd, NotifyWorker
<1>9. CASE TestActive \/ LockAndWait \/ SpuriousWakeup
  BY <1>9, <1>6 DEF TestActive, LockAndWait, SpuriousWakeup
<1>10. CASE Finish \/ DeliverTerminal \/ Delete
  BY <1>10, <1>6 DEF Finish, AfterLoop, DeliverTerminal, Delete, Abort
<1>11. CASE SinkReturns \/ SinkCancels \/ Canceller
  BY <1>11, <1>6 DEF SinkReturns, SinkCancels, Canceller, Cancel, CancelTest, CancelMark,
                     CancelStop, Abort
<1>12. ASSUME NEW t \in Drainers, TestInDrain(t) \/ EnterDrain(t) \/ DrainImpl(t)
       PROVE  DemandAhead'
  BY <1>12, <1>6 DEF InDrain, Return, TestInDrain, EnterDrain, DrainImpl
<1>13. ASSUME NEW t \in Drainers,
              AfterDrainImpl(t) \/ ExitDrain(t) \/ ClearInDrain(t) \/ TouchDeleted(t)
       PROVE  DemandAhead'
  BY <1>13, <1>6 DEF InDrain, Return, AfterDrainImpl, ExitDrain, ClearInDrain, TouchDeleted, Abort
<1> QED
  BY <1>1, <1>2, <1>3, <1>4, <1>5, <1>7, <1>8, <1>9, <1>10, <1>11, <1>12, <1>13
     DEF Next, Worker, Requester, InSink, Drain

-----------------------------------------------------------------------------
(* Why the worker stops.                                                   *)

\* _thread_should_be_active is cleared by cancellation or by the source's end
\* only, and the worker leaves its loop only after that.
LEMMA ReasonStep ==
  TypeOK /\ DemandAhead /\ OneOutcome /\ ReasonToStop /\ [Next]_vars => ReasonToStop'
<1> SUFFICES ASSUME FlagsOK, DataOK, DemandAhead, OneOutcome, ReasonToStop, [Next]_vars
             PROVE  ReasonToStop'
  BY DEF TypeOK
<1> USE DEF DataOK, ReasonToStop, Leaving, At, GoTo, Abort, Running, Threads, Drainers,
            stage, drainer, history
<1>1. CASE Subscribe \/ OnNext
  BY <1>1 DEF Subscribe, OnNext, NotifyWorker
<1>2. ASSUME NEW end \in {"complete", "error"}, OnEnd(end) PROVE ReasonToStop'
  BY <1>2 DEF OnEnd, NotifyWorker
<1>3. CASE DeliverOnSubscribe \/ TestActive \/ SpuriousWakeup
  BY <1>3 DEF DeliverOnSubscribe, TestActive, SpuriousWakeup
<1>4. CASE LockAndWait
  BY <1>4 DEF LockAndWait
<1>5. CASE Finish
  BY <1>5 DEF Finish, AfterLoop
<1>6. CASE DeliverTerminal
  BY <1>6 DEF DeliverTerminal, DieOrMark, OneOutcome
<1>7. CASE Delete
  BY <1>7 DEF Delete
<1>8. CASE DeliverOnNext
  BY <1>8 DEF DeliverOnNext, DemandAhead
<1>9. CASE InSink
  BY <1>9 DEF InSink, SinkReturns, SinkRequests, SinkCancels, DieOrMark
<1>10. CASE Request \/ Canceller
  BY <1>10 DEF Request, Canceller, Cancel, CancelTest, CancelMark, CancelStop
<1>11. ASSUME NEW t \in Drainers, TestInDrain(t) \/ EnterDrain(t) \/ DrainLoop(t) \/ DrainImpl(t)
       PROVE  ReasonToStop'
  BY <1>11 DEF InDrain, Return, TestInDrain, EnterDrain, DrainLoop, DrainImpl
<1>12. ASSUME NEW t \in Drainers,
              AfterDrainImpl(t) \/ ExitDrain(t) \/ ClearInDrain(t) \/ TouchDeleted(t)
       PROVE  ReasonToStop'
  BY <1>12 DEF InDrain, Return, AfterDrainImpl, ExitDrain, ClearInDrain, TouchDeleted
<1>13. CASE UNCHANGED vars
  BY <1>13 DEF vars
<1> QED
  BY <1>1, <1>2, <1>3, <1>4, <1>5, <1>6, <1>7, <1>8, <1>9, <1>10, <1>11, <1>12, <1>13
     DEF Next, Source, Worker, Requester, Drain

\* The sink is told once, what the source said, before the stage is deleted.
LEMMA OutcomeStep ==
  TypeOK /\ ReasonToStop /\ OneOutcome /\ [Next]_vars => OneOutcome'
<1> SUFFICES ASSUME FlagsOK, DataOK, OneOutcome, ReasonToStop, [Next]_vars
             PROVE  OneOutcome'
  BY DEF TypeOK
<1> USE DEF DataOK, OneOutcome, Told, At, GoTo, Abort, Running, Threads, Drainers,
            stage, drainer, history
<1>1. CASE Subscribe \/ OnNext
  <2>1. CASE Subscribe
    BY <2>1 DEF Subscribe
  <2>2. CASE OnNext
    <3>1. UNCHANGED <<upstream, ended, cancelled, tmp, terminal, destroyed>>
      BY <2>2 DEF OnNext
    <3>2. pc' = pc \/ (pc["worker"] = "wait" /\ pc' = [pc EXCEPT !["worker"] = "lock"])
      BY <2>2 DEF OnNext, NotifyWorker
    <3> QED  BY <3>1, <3>2
  <2> QED  BY <1>1, <2>1, <2>2
<1>2. ASSUME NEW end \in {"complete", "error"}, OnEnd(end) PROVE OneOutcome'
  BY <1>2 DEF OnEnd, NotifyWorker
<1>3. CASE DeliverOnSubscribe \/ TestActive \/ SpuriousWakeup
  BY <1>3 DEF DeliverOnSubscribe, TestActive, SpuriousWakeup
<1>4. CASE LockAndWait
  BY <1>4 DEF LockAndWait
<1>5. CASE Finish
  BY <1>5 DEF Finish, AfterLoop
<1>6. CASE DeliverTerminal
  BY <1>6 DEF DeliverTerminal
<1>7. CASE Delete
  BY <1>7 DEF Delete
<1>8. CASE DeliverOnNext
  BY <1>8 DEF DeliverOnNext
<1>9. CASE InSink
  BY <1>9 DEF InSink, SinkReturns, SinkRequests, SinkCancels
<1>10. CASE Request \/ Canceller
  BY <1>10 DEF Request, Canceller, Cancel, CancelTest, CancelMark, CancelStop
<1>11. ASSUME NEW t \in Drainers, TestInDrain(t) \/ EnterDrain(t) \/ DrainLoop(t)
       PROVE  OneOutcome'
  BY <1>11 DEF InDrain, Return, TestInDrain, EnterDrain, DrainLoop
<1>12. ASSUME NEW t \in Drainers, DrainImpl(t) PROVE OneOutcome'
  <2>1. UNCHANGED <<upstream, ended, cancelled, terminal, destroyed>>
    BY <1>12 DEF DrainImpl
  <2>2. CASE pc' = [pc EXCEPT ![t] = "after"] /\ tmp' = tmp
    BY <1>12, <2>1, <2>2 DEF DrainImpl, InDrain
  <2>3. CASE t = "worker" /\ buffer # <<>> /\ pc' = [pc EXCEPT ![t] = "deliver"] /\ tmp' = buffer
    BY <1>12, <2>1, <2>3 DEF DrainImpl, InDrain
  <2> QED  BY <1>12, <2>2, <2>3 DEF DrainImpl
<1>13. ASSUME NEW t \in Drainers,
              AfterDrainImpl(t) \/ ExitDrain(t) \/ ClearInDrain(t) \/ TouchDeleted(t)
       PROVE  OneOutcome'
  BY <1>13 DEF InDrain, Return, AfterDrainImpl, ExitDrain, ClearInDrain, TouchDeleted
<1>14. CASE UNCHANGED vars
  BY <1>14 DEF vars
<1> QED
  BY <1>1, <1>2, <1>3, <1>4, <1>5, <1>6, <1>7, <1>8, <1>9, <1>10, <1>11, <1>12, <1>13, <1>14
     DEF Next, Source, Worker, Requester, Drain

-----------------------------------------------------------------------------
(* The theorems.                                                           *)

\* The inductive invariant: conservation needs the batch to be in hand exactly
\* at "deliver"; the stage's own CHECKs need the demand and the stop reasons.
THEOREM InductiveInvariant == Spec => []Inductive
<1>1. Init => Conservation
  <2>1. <<>> \o <<>> = <<>>
    BY EmptySeq, ConcatEmptySeq
  <2> QED  BY <2>1 DEF Init, Conservation
<1>2. Init => DemandAhead
  <2> SUFFICES ASSUME Init PROVE DemandAhead
    OBVIOUS
  <2>1. requested = 0 /\ delivered = 0
    BY DEF Init
  <2>2. pc["worker"] = "start"
    BY DEF Init, Threads
  <2> QED  BY <2>1, <2>2 DEF DemandAhead
<1>3. Init => ReasonToStop
  <2> SUFFICES ASSUME Init PROVE ReasonToStop
    OBVIOUS
  <2>1. pc["worker"] = "start" /\ pc["canceller"] = "idle" /\ failed = "no"
    BY DEF Init, Threads
  <2>2. active /\ ~die
    BY DEF Init
  <2> QED  BY <2>1, <2>2 DEF ReasonToStop, Leaving
<1>6. Init => OneOutcome
  <2> SUFFICES ASSUME Init PROVE OneOutcome
    OBVIOUS
  <2>1. pc["worker"] = "start" /\ ~Told
    BY DEF Init, Told, Threads
  <2>2. tmp = <<>> /\ ended = "none" /\ terminal = "none" /\ destroyed = FALSE
    BY DEF Init
  <2> QED  BY <2>1, <2>2 DEF OneOutcome
<1>4. TypeOK /\ Inductive /\ [Next]_vars => Inductive'
  BY ConservationStep, DemandStep, ReasonStep, OutcomeStep DEF Inductive
<1>5. Init => Inductive
  BY <1>1, <1>2, <1>3, <1>6 DEF Inductive
<1> QED  BY <1>4, <1>5, TypeCorrect, PTL DEF Spec

\* Every accepted element is with the sink, in the batch, or queued, in order.
THEOREM Conserved == Spec => []Conservation
<1>1. Inductive => Conservation
  BY DEF Inductive
<1> QED  BY <1>1, InductiveInvariant, PTL

\* Demand is respected, and "unreachable code" is not reached.
THEOREM ChecksHold == Spec => []OwnChecksHold
<1>1. Inductive => OwnChecksHold
  BY DEF Inductive, DemandAhead, ReasonToStop, OwnChecksHold
<1> QED  BY <1>1, InductiveInvariant, PTL

\* The sink sees its source's outcome, and no deletion goes unannounced.
THEOREM RightOutcome == Spec => []OutcomeIsUpstreams
<1>1. Inductive => OutcomeIsUpstreams
  BY DEF Inductive, OneOutcome, OutcomeIsUpstreams, Told
<1> QED  BY <1>1, InductiveInvariant, PTL

\* Together: what the stage promises its sink in every state.
THEOREM Safe == Spec => []Safety
<1>1. TypeOK /\ Conservation /\ OwnChecksHold /\ OutcomeIsUpstreams => Safety
  BY DEF Safety
<1> QED  BY <1>1, TypeCorrect, Conserved, ChecksHold, RightOutcome, PTL

-----------------------------------------------------------------------------
(* The worker and the thread that requests, in one drain loop.             *)

Looping == {"loop", "swap", "deliver", "react", "after", "exit", "clear"}

\* _in_drain is cleared under the worker's feet only by a requester that does not come back, and
\* what the requester asked for before that is in drainRequested.
OneLoop ==
  /\ pc["worker"] \in Looping /\ ~inDrain => pc["requester"] = "done"
  /\ pc["worker"] \in {"swap", "deliver", "react"} /\ drainRequested => inDrain /\ pc["requester"] = "done"

\* Where a sink that cancelled inside on_next leaves the worker: it is marked to die, or the
\* requesting thread, which is gone, has cleared _in_drain, and the worker stops for good.
Stopping ==
  IF die
  THEN /\ pc["worker"] \in {"after", "loop", "exit", "while", "finish", "delete", "done"}
       /\ pc["worker"] = "while" => ~active
  ELSE /\ pc["worker"] \in {"after", "exit", "clear", "while", "finish", "delete", "done"}
       /\ ~active /\ ~drainRequested /\ pc["requester"] = "done"

StopsForGood ==
  UncancelledFromOutside => IF cancelled THEN Stopping ELSE die => Told

\* The steps outside the drain loop and outside the sink's reactions, for the lemmas below.
Outer ==
  \/ Subscribe \/ OnNext \/ (\E end \in {"complete", "error"} : OnEnd(end))
  \/ DeliverOnSubscribe \/ TestActive \/ LockAndWait \/ SpuriousWakeup
  \/ Finish \/ DeliverTerminal \/ Delete \/ Request \/ Canceller
  \/ UNCHANGED vars

\* A step outside the drain loop does not put the worker or the requester into it.
LEMMA OuterKeepsLoop ==
  ASSUME TypeOK, Outer
  PROVE  /\ UNCHANGED <<inDrain, drainRequested>>
         /\ pc'["worker"] \notin Looping \/ pc'["worker"] = pc["worker"]
         /\ pc["requester"] = "done" => pc'["requester"] = "done"
<1> USE DEF DataOK, At, GoTo, Threads, Looping, stage, drainer, history
<1>0. pc \in [Threads -> Labels]
  BY DEF TypeOK
<1>1. CASE Subscribe \/ UNCHANGED vars
  BY <1>0, <1>1 DEF Subscribe, vars
<1>2. CASE OnNext
  BY <1>0, <1>2 DEF OnNext, NotifyWorker
<1>3. ASSUME NEW end, OnEnd(end)
      PROVE  /\ UNCHANGED <<inDrain, drainRequested>>
             /\ pc'["worker"] \notin Looping \/ pc'["worker"] = pc["worker"]
             /\ pc["requester"] = "done" => pc'["requester"] = "done"
  BY <1>0, <1>3 DEF OnEnd, NotifyWorker
<1>4. CASE DeliverOnSubscribe \/ TestActive \/ SpuriousWakeup
  BY <1>0, <1>4 DEF DeliverOnSubscribe, TestActive, SpuriousWakeup
<1>5. CASE LockAndWait
  BY <1>0, <1>5 DEF LockAndWait
<1>6. CASE Finish \/ DeliverTerminal \/ Delete
  BY <1>0, <1>6 DEF Finish, AfterLoop, DeliverTerminal, Delete
<1>7. CASE Request \/ Canceller
  BY <1>0, <1>7 DEF Request, Canceller, Cancel, CancelTest, CancelMark, CancelStop
<1> QED  BY <1>1, <1>2, <1>3, <1>4, <1>5, <1>6, <1>7 DEF Outer

\* Every step of the specification is an outer one, one of the drain loop, or the sink's.
LEMMA LoopKinds ==
  [Next]_vars => \/ Outer \/ DeliverOnNext \/ InSink
                 \/ \E t \in Drainers : \/ TestInDrain(t) \/ EnterDrain(t) \/ DrainLoop(t)
                                        \/ DrainImpl(t) \/ AfterDrainImpl(t) \/ ExitDrain(t)
                                        \/ ClearInDrain(t) \/ TouchDeleted(t)
BY DEF Next, Source, Worker, Requester, Drain, Drainers, Outer

\* The two drain loops: whoever clears _in_drain has left, or does not come back.
LEMMA LoopStep == TypeOK /\ OneLoop /\ [Next]_vars => OneLoop'
<1> SUFFICES ASSUME TypeOK, OneLoop, [Next]_vars PROVE OneLoop'
  OBVIOUS
<1> USE DEF OneLoop, At, GoTo, Threads, Drainers, Looping, stage, drainer, history
<1>0. pc \in [Threads -> Labels] /\ inDrain \in BOOLEAN /\ drainRequested \in BOOLEAN
  BY DEF TypeOK, FlagsOK, DataOK
<1>1. CASE Outer
  <2>1. /\ UNCHANGED <<inDrain, drainRequested>>
        /\ pc'["worker"] \notin Looping \/ pc'["worker"] = pc["worker"]
        /\ pc["requester"] = "done" => pc'["requester"] = "done"
    BY <1>1, OuterKeepsLoop
  <2> QED  BY <2>1
<1>2. CASE DeliverOnNext
  BY <1>0, <1>2 DEF DeliverOnNext
<1>3. CASE InSink
  BY <1>0, <1>3 DEF InSink, SinkReturns, SinkRequests, SinkCancels
<1>4. ASSUME NEW t \in Drainers, TestInDrain(t) \/ EnterDrain(t) PROVE OneLoop'
  BY <1>0, <1>4 DEF TestInDrain, EnterDrain, InDrain, Return
<1>5. ASSUME NEW t \in Drainers, DrainLoop(t) \/ DrainImpl(t) PROVE OneLoop'
  BY <1>0, <1>5 DEF DrainLoop, DrainImpl, InDrain
<1>6. ASSUME NEW t \in Drainers, AfterDrainImpl(t) \/ ExitDrain(t) \/ ClearInDrain(t) \/ TouchDeleted(t)
      PROVE  OneLoop'
  BY <1>0, <1>6 DEF AfterDrainImpl, ExitDrain, ClearInDrain, TouchDeleted, InDrain, Return
<1> QED  BY <1>1, <1>2, <1>3, <1>4, <1>5, <1>6, LoopKinds

\* After the sink's cancel the worker only goes towards its end.
LEMMA StoppingStep == TypeOK /\ OneLoop /\ StopsForGood /\ [Next]_vars => StopsForGood'
<1> SUFFICES ASSUME TypeOK, OneLoop, StopsForGood, [Next]_vars, UncancelledFromOutside'
             PROVE  StopsForGood'
  BY Zenon DEF StopsForGood
<1> USE DEF At, GoTo, Threads, Drainers, Told, stage, drainer, history
<1>0. /\ pc \in [Threads -> Labels] /\ inDrain \in BOOLEAN /\ drainRequested \in BOOLEAN
      /\ die \in BOOLEAN /\ active \in BOOLEAN /\ cancelled \in BOOLEAN
  BY DEF TypeOK, FlagsOK, DataOK
<1>1. CASE Outer /\ ~Canceller /\ ~DeliverTerminal
  <2>1. CASE Subscribe \/ UNCHANGED vars
    BY <1>0, <2>1 DEF Subscribe, vars, StopsForGood, Stopping, UncancelledFromOutside
  <2>2. CASE OnNext
    BY <1>0, <2>2 DEF OnNext, NotifyWorker, StopsForGood, Stopping, UncancelledFromOutside
  <2>3. ASSUME NEW end, OnEnd(end) PROVE StopsForGood'
    BY <1>0, <2>3 DEF OnEnd, NotifyWorker, StopsForGood, Stopping, UncancelledFromOutside
  <2>4. CASE DeliverOnSubscribe \/ TestActive \/ SpuriousWakeup
    BY <1>0, <2>4 DEF DeliverOnSubscribe, TestActive, SpuriousWakeup, StopsForGood, Stopping,
                      UncancelledFromOutside
  <2>5. CASE LockAndWait
    BY <1>0, <2>5 DEF LockAndWait, StopsForGood, Stopping, UncancelledFromOutside
  <2>6. CASE Finish \/ Delete
    BY <1>0, <2>6 DEF Finish, AfterLoop, Delete, StopsForGood, Stopping, UncancelledFromOutside
  <2>7. CASE Request
    BY <1>0, <2>7 DEF Request, StopsForGood, Stopping, UncancelledFromOutside
  <2> QED  BY <1>1, <2>1, <2>2, <2>3, <2>4, <2>5, <2>6, <2>7 DEF Outer
<1>2. CASE DeliverTerminal
  BY <1>0, <1>2 DEF DeliverTerminal, DieOrMark, StopsForGood, Stopping, UncancelledFromOutside
<1>3. CASE Canceller
  BY <1>0, <1>3 DEF Canceller, Cancel, CancelTest, CancelMark, CancelStop, UncancelledFromOutside
<1>4. CASE DeliverOnNext
  BY <1>0, <1>4 DEF DeliverOnNext, StopsForGood, Stopping, UncancelledFromOutside
<1>5. CASE SinkReturns \/ SinkRequests
  BY <1>0, <1>5 DEF SinkReturns, SinkRequests, StopsForGood, Stopping, UncancelledFromOutside
<1>6. CASE SinkCancels
  <2>1. ~die /\ (~inDrain => ~drainRequested /\ pc["requester"] = "done")
    BY <1>0, <1>6 DEF SinkCancels, OneLoop, Looping, StopsForGood, UncancelledFromOutside
  <2> QED
    BY <1>0, <1>6, <2>1 DEF SinkCancels, DieOrMark, StopsForGood, Stopping, UncancelledFromOutside
<1>7. ASSUME NEW t \in Drainers, TestInDrain(t) \/ EnterDrain(t) PROVE StopsForGood'
  BY <1>0, <1>7 DEF TestInDrain, EnterDrain, InDrain, Return, StopsForGood, Stopping,
                    UncancelledFromOutside
<1>8. ASSUME NEW t \in Drainers, DrainLoop(t) PROVE StopsForGood'
  <2>1. die => ~MayDrain
    BY DEF MayDrain
  <2> QED  BY <1>0, <1>8, <2>1 DEF DrainLoop, InDrain, StopsForGood, Stopping, UncancelledFromOutside
<1>9. ASSUME NEW t \in Drainers, DrainImpl(t) PROVE StopsForGood'
  BY <1>0, <1>9 DEF DrainImpl, InDrain, StopsForGood, Stopping, UncancelledFromOutside
<1>10. ASSUME NEW t \in Drainers, AfterDrainImpl(t) \/ ClearInDrain(t) \/ TouchDeleted(t)
       PROVE  StopsForGood'
  BY <1>0, <1>10 DEF AfterDrainImpl, ClearInDrain, TouchDeleted, InDrain, Return, StopsForGood,
                     Stopping, UncancelledFromOutside
<1>11. ASSUME NEW t \in Drainers, ExitDrain(t) PROVE StopsForGood'
  BY <1>0, <1>11 DEF ExitDrain, InDrain, Return, StopsForGood, Stopping, UncancelledFromOutside
<1> QED
  BY <1>1, <1>2, <1>3, <1>4, <1>5, <1>6, <1>7, <1>8, <1>9, <1>10, <1>11, LoopKinds DEF InSink

\* On the worker's thread alone no CHECK finds a stage that dies, or a deleted one.
LEMMA NoCheckStep ==
  TypeOK /\ StopsForGood /\ NoCheckFails /\ Inductive' /\ [Next]_vars => NoCheckFails'
<1> SUFFICES ASSUME TypeOK, StopsForGood, NoCheckFails, Inductive', [Next]_vars, UsedFromInside'
             PROVE  failed' = "no"
  BY Zenon DEF NoCheckFails
<1> USE DEF At, GoTo, Abort, Threads, Drainers, stage, drainer, history
<1>0. pc \in [Threads -> Labels]
  BY DEF TypeOK, DataOK
<1>1. failed' \notin {"demand", "unreachable", "active"}
  BY DEF Inductive, ReasonToStop
<1>2. SUFFICES ASSUME UsedFromInside, failed = "no", failed' # "no" PROVE FALSE
  <2>1. UsedFromInside
    <3>1. CASE Outer
      BY <1>0, <3>1 DEF Outer, Subscribe, OnNext, OnEnd, NotifyWorker, DeliverOnSubscribe,
         TestActive, LockAndWait, SpuriousWakeup, Finish, DeliverTerminal, Delete, Request,
         Canceller, Cancel, CancelTest, CancelMark, CancelStop, vars, UsedFromInside,
         UncancelledFromOutside
    <3>2. CASE DeliverOnNext \/ InSink
      BY <1>0, <3>2 DEF DeliverOnNext, InSink, SinkReturns, SinkRequests, SinkCancels,
         UsedFromInside, UncancelledFromOutside
    <3>3. ASSUME NEW t \in Drainers,
                 TestInDrain(t) \/ EnterDrain(t) \/ DrainLoop(t) \/ DrainImpl(t)
          PROVE  UsedFromInside
      BY <1>0, <3>3 DEF TestInDrain, EnterDrain, DrainLoop, DrainImpl, InDrain, Return,
         UsedFromInside, UncancelledFromOutside
    <3>4. ASSUME NEW t \in Drainers,
                 AfterDrainImpl(t) \/ ExitDrain(t) \/ ClearInDrain(t) \/ TouchDeleted(t)
          PROVE  UsedFromInside
      BY <1>0, <3>4 DEF AfterDrainImpl, ExitDrain, ClearInDrain, TouchDeleted, InDrain, Return,
         UsedFromInside, UncancelledFromOutside
    <3> QED  BY <3>1, <3>2, <3>3, <3>4, LoopKinds
  <2> QED  BY <2>1 DEF NoCheckFails
<1>3. pc["worker"] \in {"terminal", "deliver", "react"} => ~die
  BY <1>2 DEF StopsForGood, Stopping, UsedFromInside, Told
<1>4. pc["requester"] = "idle" /\ pc["canceller"] = "idle"
  BY <1>2 DEF UsedFromInside, UncancelledFromOutside
<1>5. ~Outer
  BY <1>1, <1>2, <1>3, <1>4 DEF Outer, Subscribe, OnNext, OnEnd, DeliverOnSubscribe,
     TestActive, LockAndWait, SpuriousWakeup, Finish, DeliverTerminal, Delete, Request,
     Canceller, Cancel, CancelTest, CancelMark, CancelStop, vars
<1>6. ~DeliverOnNext /\ ~InSink
  BY <1>1, <1>2, <1>3 DEF DeliverOnNext, InSink, SinkReturns, SinkRequests, SinkCancels
<1>7. ASSUME NEW t \in Drainers,
             \/ TestInDrain(t) \/ EnterDrain(t) \/ DrainLoop(t) \/ DrainImpl(t)
             \/ AfterDrainImpl(t) \/ ExitDrain(t) \/ ClearInDrain(t) \/ TouchDeleted(t)
      PROVE  FALSE
  BY <1>2, <1>4, <1>7 DEF TestInDrain, EnterDrain, DrainLoop, DrainImpl, AfterDrainImpl,
     ExitDrain, ClearInDrain, TouchDeleted
<1> QED  BY <1>5, <1>6, <1>7, LoopKinds

\* All three hold in every state.
LEMMA LoopInvariant == Spec => [](OneLoop /\ StopsForGood /\ NoCheckFails)
<1>1. Init => OneLoop /\ StopsForGood /\ NoCheckFails
  <2> SUFFICES ASSUME Init PROVE OneLoop /\ StopsForGood /\ NoCheckFails
    OBVIOUS
  <2>1. pc["worker"] = "start" /\ ~cancelled /\ ~die /\ failed = "no"
    BY DEF Init, Threads
  <2> QED  BY <2>1 DEF OneLoop, Looping, StopsForGood, NoCheckFails
<1> QED  BY <1>1, LoopStep, StoppingStep, NoCheckStep, TypeCorrect, InductiveInvariant, PTL DEF Spec

\* A stage that is requested from and cancelled on its worker's thread only never fails a CHECK.
THEOREM ChecksHoldInside == Spec => []NoCheckFails
BY LoopInvariant, PTL

\* The step of the next theorem: the batch and the outcome go out at two places of the worker's
\* loop that a cancelled one does not reach.
LEMMA SilentStep ==
  TypeOK /\ StopsForGood /\ [Next]_vars =>
    (cancelled /\ UncancelledFromOutside => UNCHANGED <<received, terminal>>)
<1> SUFFICES ASSUME TypeOK, StopsForGood, [Next]_vars, cancelled, UncancelledFromOutside
             PROVE  UNCHANGED <<received, terminal>>
  OBVIOUS
<1>1. pc["worker"] \notin {"deliver", "terminal"}
  BY DEF StopsForGood, Stopping
<1>2. ~DeliverOnNext /\ ~DeliverTerminal
  BY <1>1 DEF DeliverOnNext, DeliverTerminal, At
<1>3. CASE OnNext
  BY <1>3 DEF OnNext
<1>4. ASSUME NEW t \in Drainers, DrainImpl(t) PROVE UNCHANGED <<received, terminal>>
  BY <1>4 DEF DrainImpl, history
<1>5. CASE OtherStep
  <2>1. UNCHANGED received
    BY <1>5, OthersKeepQueues
  <2>2. UNCHANGED terminal
    BY <1>2, <1>5 DEF OtherStep, Subscribe, OnEnd, DeliverOnSubscribe, TestActive, LockAndWait,
         SpuriousWakeup, Finish, Delete, InSink, SinkReturns, SinkRequests, SinkCancels,
         Request, Canceller, Cancel, CancelTest, CancelMark, CancelStop, TestInDrain,
         EnterDrain, DrainLoop, AfterDrainImpl, ExitDrain, ClearInDrain, TouchDeleted,
         history, vars
  <2> QED  BY <2>1, <2>2
<1> QED  BY <1>2, <1>3, <1>4, <1>5, StepKinds

\* After a cancel() inside on_next the sink is not called any more, also while another thread
\* runs the same drain loop.
THEOREM Silent == Spec => SilentAfterCancel
BY SilentStep, LoopInvariant, TypeCorrect, PTL DEF Spec, SilentAfterCancel

-----------------------------------------------------------------------------
(* Refinement.                                                             *)

\* Each step of the stage is a step of the ordered hand-off, or none.
LEMMA StepRefines == TypeOK /\ Inductive /\ [Next]_vars => [Abstract!Next]_(Abstract!vars)
<1> SUFFICES ASSUME TypeOK, Inductive, [Next]_vars
             PROVE  [Abstract!Next]_(Abstract!vars)
  OBVIOUS
<1> DEFINE E == 1..Items
<1>0. /\ buffer \in Seq(E) /\ tmp \in Seq(E) /\ received \in Seq(E)
      /\ accepted = (received \o tmp) \o buffer
  BY DEF TypeOK, DataOK, Inductive, Conservation
<1>1. CASE OnNext
  <2>1. sent + 1 \in E
    BY <1>1, BoundsAssumption DEF OnNext, TypeOK, DataOK
  <2>2. accepted' = accepted \/ accepted' = Append(accepted, sent + 1)
    BY <1>1, Zenon DEF OnNext
  <2>3. UNCHANGED <<received, terminal>>
    BY <1>1 DEF OnNext
  <2> QED  BY <2>1, <2>2, <2>3 DEF Abstract!Next, Abstract!Accept, Abstract!vars
<1>2. CASE DeliverOnNext
  <2>1. terminal = "none" /\ UNCHANGED <<accepted, terminal>> /\ tmp # <<>>
    BY <1>2 DEF DeliverOnNext, Inductive, OneOutcome, Told, At
  <2>2. received' = received \/ received' = received \o tmp
    BY <1>2, Zenon DEF DeliverOnNext
  <2>3. CASE received' = received \o tmp
    <3> DEFINE n == Len(received \o tmp)
    <3>1. received \o tmp \in Seq(E)
      BY <1>0, ConcatProperties
    <3>2. received' = SubSeq(accepted, 1, n)
      BY <1>0, <2>3, <3>1, PrefixOfConcat
    <3>3. n \in Len(received) + 1..Len(accepted)
      BY <1>0, <2>1, <3>1, ConcatProperties, EmptySeq, LenProperties
    <3> QED
      BY <2>1, <3>2, <3>3 DEF Abstract!Next, Abstract!HandOver
  <2> QED  BY <2>1, <2>2, <2>3 DEF Abstract!vars
<1>3. ASSUME NEW t \in Drainers, DrainImpl(t) PROVE UNCHANGED Abstract!vars
  BY <1>3 DEF DrainImpl, history, Abstract!vars
<1>4. CASE DeliverTerminal
  <2>1. terminal = "none" /\ ended \in {"complete", "error"}
    BY <1>4 DEF DeliverTerminal, At, TypeOK, DataOK, Inductive, OneOutcome, Told, Ends
  <2>2. terminal' = terminal \/ terminal' = ended
    BY <1>4, Zenon DEF DeliverTerminal
  <2>3. UNCHANGED <<accepted, received>>
    BY <1>4 DEF DeliverTerminal
  <2> QED  BY <2>1, <2>2, <2>3
           DEF Abstract!Next, Abstract!Close, Abstract!Outcomes, Abstract!vars
<1>5. CASE OtherStep /\ ~DeliverTerminal
  <2>1. UNCHANGED <<accepted, received>>
    BY <1>5, OthersKeepQueues
  <2>2. UNCHANGED terminal
    BY <1>5 DEF OtherStep, Subscribe, OnEnd, DeliverOnSubscribe, TestActive, LockAndWait,
         SpuriousWakeup, Finish, Delete, InSink, SinkReturns, SinkRequests, SinkCancels,
         Request, Canceller, Cancel, CancelTest, CancelMark, CancelStop, TestInDrain,
         EnterDrain, DrainLoop, AfterDrainImpl, ExitDrain, ClearInDrain, TouchDeleted,
         history, vars
  <2> QED  BY <2>1, <2>2 DEF Abstract!vars
<1> QED  BY <1>1, <1>2, <1>3, <1>4, <1>5, StepKinds

\* threaded_worker implements an ordered hand-off between two threads.
THEOREM Refinement == Spec => ImplementsHandOff
<1>1. Init => Abstract!Init
  BY DEF Init, Abstract!Init
<1> QED  BY <1>1, StepRefines, TypeCorrect, InductiveInvariant, PTL DEF Spec, Abstract!Spec, ImplementsHandOff
=============================================================================
