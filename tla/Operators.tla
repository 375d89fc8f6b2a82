----------------------------- MODULE Operators -----------------------------
(***************************************************************************)
(* The operators that pass elements on one by one: map, take, take_while,  *)
(* do_finally and asio::timeout, between a source and a sink on one        *)
(* thread.  `calls' holds the activations in which others can act: the     *)
(* operator is inside its source's request(), or inside its sink's         *)
(* on_next(), from where the sink requests and cancels.                    *)
(*                                                                         *)
(* A source that is drained (drain_source_impl) only notes a request that  *)
(* comes amid its delivery, another answers there too; an empty one ends   *)
(* when it is subscribed to, and its cancel() does nothing.                *)
(***************************************************************************)
EXTENDS Naturals, Sequences

CONSTANTS
  Operations,   \* of "map", "take", "take_while", "do_finally" and "timeout"
  Limits,       \* the counts given to take
  Supply        \* bound: elements of the source

VARIABLES
  op, limit,
  upstream,   \* the source: [kind, open, owed, left], kind "drained", "answers" or "empty"
  wants,      \* how the sink requests: "all" at once, or "one" at a time
  asked, given,   \* by the sink, and to it
  taken, forwarded,   \* _received and _requested of take
  calls,      \* of "asks" and "sink"
  end,        \* "", "complete", "error", "timeout" or "cancelled"
  gone,       \* the operator has deleted itself
  inside,     \* history: it did so inside the sink's on_next
  ran,        \* how often do_finally's function ran
  alarm,      \* timeout: the timer is set
  expired,    \* its handlers that are queued
  freed       \* what a deleted operator was used by: "", "returns", "timer" or "source"

opVars == <<op, limit, wants>>
timerVars == <<alarm, expired>>
vars == <<opVars, upstream, asked, given, taken, forwarded, calls, end, gone, inside, ran,
          timerVars, freed>>

Everything == Supply + 1      \* INT_MAX

TypeOK ==
  /\ op \in Operations /\ limit \in Limits /\ wants \in {"all", "one"}
  /\ upstream \in [kind : {"drained", "answers", "empty"}, open : BOOLEAN,
                   owed : 0..Everything, left : 0..Supply]
  /\ asked \in 0..Everything /\ given \in 0..Supply /\ taken \in 0..Supply
  /\ forwarded \in 0..Everything /\ calls \in Seq({"asks", "sink"})
  /\ end \in {"", "complete", "error", "timeout", "cancelled"} /\ gone \in BOOLEAN
  /\ inside \in BOOLEAN /\ ran \in 0..2 /\ alarm \in BOOLEAN /\ expired \in 0..2
  /\ freed \in {"", "returns", "timer", "source"}

Init ==
  /\ op \in Operations /\ limit \in Limits /\ wants \in {"all", "one"}
  /\ \E kind \in {"drained", "answers", "empty"} :
       upstream = [kind |-> kind, open |-> TRUE, owed |-> 0,
                   left |-> IF kind = "empty" THEN 0 ELSE Supply]
  /\ asked = 0 /\ given = 0 /\ taken = 0 /\ forwarded = 0 /\ calls = <<>>
  /\ end = "" /\ gone = FALSE /\ inside = FALSE /\ ran = 0
  /\ alarm = FALSE /\ expired = 0 /\ freed = ""

Runs == freed = ""
Top == calls[Len(calls)]
Below == SubSeq(calls, 1, Len(calls) - 1)
InSink == \E k \in 1..Len(calls) : calls[k] = "sink"

\* slip: the function of do_finally is forgotten when the sink cancels
Finally_NotCancelled(how) == IF op = "do_finally" /\ how # "cancelled" THEN ran + 1 ELSE ran

Finally(how) == IF op = "do_finally" THEN ran + 1 ELSE ran

\* the operator tells its sink of the end, or is cancelled by it, and deletes itself
Ends(how) ==
  /\ end' = how /\ gone' = TRUE /\ inside' = InSink
  /\ ran' = Finally(how)

Stays == UNCHANGED <<end, gone, inside, ran>>

\* slip: the source is left running
CancelSource_Not == upstream
CancelSource == [upstream EXCEPT !.open = @ /\ upstream.kind = "empty"]

\* arm_timer: a wait there is gets cancelled, a handler that is queued does not
Armed == op = "timeout"

(***************************************************************************)
(* The sink                                                                *)
(***************************************************************************)
SinkMayAct == Runs /\ end = "" /\ (calls # <<>> => Top = "sink")

MayRequest(n) ==
  IF wants = "all" THEN asked = 0 /\ n = Everything ELSE n = 1 /\ asked = given

\* slip: take does not reckon with what it has requested before
Forwards_All(n) == IF op = "take" /\ n > limit THEN limit ELSE n

\* how much of a request goes to the source
Forwards(n) ==
  IF op = "take" /\ n > limit - forwarded THEN limit - forwarded ELSE n

Request(n) ==
  /\ SinkMayAct /\ MayRequest(n)
  /\ asked' = asked + n
  /\ forwarded' = forwarded + Forwards(n)
  /\ upstream' = [upstream EXCEPT !.owed = IF upstream.kind = "empty" THEN 0 ELSE @ + Forwards(n)]
  /\ calls' = IF Forwards(n) > 0 THEN Append(calls, "asks") ELSE calls
  /\ alarm' = Armed
  /\ Stays /\ UNCHANGED <<opVars, given, taken, expired, freed>>

Cancel ==
  /\ SinkMayAct
  /\ upstream' = CancelSource /\ Ends("cancelled")
  /\ alarm' = FALSE
  /\ UNCHANGED <<opVars, asked, given, taken, forwarded, calls, expired, freed>>

\* slip: the sink gets one element more
Enough_Later == taken + 1 > limit

Enough == taken + 1 = limit

\* The sink's on_next returns to the operator.  take and timeout go on with what
\* may have been deleted.
SinkReturns ==
  /\ Runs /\ calls # <<>> /\ Top = "sink" /\ calls' = Below
  /\ freed' = IF gone /\ op \in {"take", "timeout"} THEN "returns" ELSE ""
  /\ IF op = "take" /\ ~gone
     THEN /\ taken' = taken + 1
          /\ IF Enough THEN upstream' = CancelSource /\ Ends("complete") ELSE Stays /\ UNCHANGED upstream
     ELSE Stays /\ UNCHANGED <<taken, upstream>>
  /\ alarm' = (~gone /\ Armed)
  /\ UNCHANGED <<opVars, asked, given, forwarded, expired>>

(***************************************************************************)
(* The source                                                              *)
(***************************************************************************)
SourceMayAct ==
  /\ Runs /\ upstream.open
  /\ IF calls = <<>> THEN TRUE
     ELSE Top = "asks" /\ upstream.kind # "empty" /\ (upstream.kind = "drained" => Len(calls) = 1)

OnNext ==
  /\ SourceMayAct /\ upstream.owed > 0 /\ upstream.left > 0
  /\ upstream' = [upstream EXCEPT !.owed = @ - 1, !.left = @ - 1]
  /\ given' = given + 1 /\ calls' = Append(calls, "sink")
  /\ Stays /\ UNCHANGED <<opVars, asked, taken, forwarded, timerVars, freed>>

\* the predicate of take_while says no
Refused ==
  /\ SourceMayAct /\ upstream.owed > 0 /\ upstream.left > 0 /\ op = "take_while"
  /\ upstream' = [CancelSource EXCEPT !.owed = @ - 1, !.left = @ - 1]
  /\ Ends("complete")
  /\ UNCHANGED <<opVars, asked, given, taken, forwarded, calls, timerVars, freed>>

OnEnd(how) ==
  /\ SourceMayAct
  /\ upstream' = [upstream EXCEPT !.open = FALSE]
  /\ IF gone THEN freed' = "source" /\ Stays ELSE Ends(how) /\ UNCHANGED freed
  /\ alarm' = FALSE
  /\ UNCHANGED <<opVars, asked, given, taken, forwarded, calls, expired>>

RequestReturns ==
  /\ Runs /\ calls # <<>> /\ Top = "asks" /\ calls' = Below
  /\ Stays /\ UNCHANGED <<opVars, upstream, asked, given, taken, forwarded, timerVars, freed>>

(***************************************************************************)
(* The timer, between other handlers of the loop                           *)
(***************************************************************************)
\* an empty source is still in subscribe()
Subscribing == upstream.kind = "empty" /\ upstream.open

Expire ==
  /\ Runs /\ calls = <<>> /\ ~Subscribing /\ alarm /\ expired < 2
  /\ alarm' = FALSE /\ expired' = expired + 1
  /\ Stays /\ UNCHANGED <<opVars, upstream, asked, given, taken, forwarded, calls, freed>>

\* a handler that was queued runs, whatever has come meanwhile
OnTimer ==
  /\ Runs /\ calls = <<>> /\ expired > 0
  /\ expired' = expired - 1 /\ alarm' = FALSE
  /\ IF gone THEN freed' = "timer" /\ Stays /\ UNCHANGED upstream
     ELSE upstream' = CancelSource /\ Ends("timeout") /\ UNCHANGED freed
  /\ UNCHANGED <<opVars, asked, given, taken, forwarded, calls>>

\* when a source has to answer: timeout is for one that does not
Served == Subscribing \/ (upstream.owed > 0 /\ op # "timeout")

Ask == \E n \in {1, Everything} : Request(n)
Answer == OnNext \/ Refused \/ \E how \in {"complete", "error"} : OnEnd(how)
Returns == SinkReturns \/ RequestReturns
Timer == Expire \/ OnTimer

Next == Ask \/ Cancel \/ Returns \/ Answer \/ Timer

(***************************************************************************)
(* Properties                                                              *)
(***************************************************************************)
P == INSTANCE Stream WITH ended <- end # ""

\* However the calls nest, and whoever ends it, an operator delivers what was
\* asked for and no more, and nothing behind an end.
KeepsPromise == P!Spec

\* take asks its source for no more than the sink may get: what comes before it is
\* decoded for nothing otherwise.
LimitHolds == op = "take" => forwarded <= limit /\ given <= limit

\* An operator that is gone has left no source running (an empty one does not run).
NothingLeftRunning == gone => ~upstream.open \/ upstream.kind = "empty"

\* do_finally runs its function with the end, whichever it is, and once.
FinallyOnce == ran = IF op = "do_finally" /\ end # "" THEN 1 ELSE 0

\* A deleted operator is used only by take and timeout, if their sink ended the
\* stream from inside on_next, by a handler of timeout's timer that was queued, and by
\* an empty source that was cancelled.
FreedAsKnown ==
  /\ freed = "returns" => op \in {"take", "timeout"} /\ inside
  /\ freed = "timer" => op = "timeout"
  /\ freed = "source" => upstream.kind = "empty" /\ end = "cancelled"

\* What holds in every state of an operator.
Safety ==
  /\ TypeOK
  /\ LimitHolds
  /\ NothingLeftRunning
  /\ FinallyOnce
  /\ FreedAsKnown
=============================================================================
