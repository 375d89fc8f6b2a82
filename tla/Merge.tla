-------------------------------- MODULE Merge --------------------------------
(***************************************************************************)
(* streams::publishers::merge (merge_publisher), which rtm_source uses to  *)
(* put the metadata and the frames of a channel into one stream.  All of   *)
(* it runs on one thread, but its methods nest: the sink requests and      *)
(* cancels from inside on_next, a source answers from inside request().    *)
(* `stack' holds the activations of on_next and request that are under way *)
(* (_call_stack_depth is its length); on_error, on_complete and cancel     *)
(* call nothing that calls back, and are one step each.                    *)
(***************************************************************************)
EXTENDS Integers, Sequences, FiniteSets

CONSTANTS
  N,         \* number of upstreams
  Items,     \* bound: elements sent by all sources together
  Demands,   \* how sinks request: "all", once Infinity; "one", one element at a time
  Infinity,
  SyncErrors \* a source may fail from inside request()

ASSUME MergeAssumption ==
  /\ N \in Nat \ {0} /\ Items \in Nat /\ Infinity \in Nat /\ Infinity > Items
  /\ Demands \subseteq {"all", "one"} /\ SyncErrors \in BOOLEAN

Up == 1..N

VARIABLES
  upstream,  \* [Up -> ...]: "active"; "complete", "error", "cancelled": (nullptr, nullptr)
  owed,      \* [Up -> Nat]: requested from the source and not sent yet
  items,     \* _items, each with the number it was sent as
  needed,    \* _items_needed
  sink,      \* _sink # nullptr
  stack,     \* activations, the outermost first
  deleted,   \* the downstream object is gone
  demand,    \* how the sink requests
  sent, received, asked, outcome   \* what the sources sent; what the sink saw and asked for

vars == <<upstream, owed, items, needed, sink, stack, deleted, demand, sent, received, asked, outcome>>

Ops == {"on_next", "request"}
\* "drain": at the head of the loop over _items; "sink": inside _sink->on_next;
\* "ask": about to ask upstream `u'; "up": inside its request(n)
Frames == [op : Ops, n : Nat, pc : {"drain", "sink", "ask", "up"}, u : 1..N + 1]

TypeOK ==
  /\ upstream \in [Up -> {"active", "complete", "error", "cancelled"}]
  /\ owed \in [Up -> 0..N * (Infinity + Items)]
  /\ items \in Seq(1..Items) /\ received \in Seq(1..Items) /\ sent \in 0..Items
  /\ needed \in 0..Infinity + 1 /\ asked \in 0..Infinity + Items + 1
  /\ sink \in BOOLEAN /\ deleted \in BOOLEAN
  /\ stack \in Seq(Frames) /\ demand \in Demands
  /\ outcome \in {"none", "complete", "error", "cancelled"}

Active == {u \in Up : upstream[u] = "active"}
Top == stack[Len(stack)]
Below == SubSeq(stack, 1, Len(stack) - 1)
Becomes(frame) == stack' = Append(Below, frame)

\* who may act: the sink while nothing runs or inside its on_next, a source while
\* nothing runs or inside its request()
SinkMayAct == ~deleted /\ sink /\ (stack # <<>> => Top.pc = "sink")
SourceMayAct(u) ==
  ~deleted /\ upstream[u] = "active" /\ (stack # <<>> => Top.pc = "up" /\ Top.u = u)

\* every upstream has subscribed, the sink has its subscription
Init ==
  /\ upstream = [u \in Up |-> "active"] /\ owed = [u \in Up |-> 0]
  /\ items = <<>> /\ needed = 0 /\ sink = TRUE /\ stack = <<>> /\ deleted = FALSE
  /\ sent = 0 /\ received = <<>> /\ asked = 0 /\ outcome = "none"
  /\ demand \in Demands

\* slip: what is still queued is forgotten
IsComplete_Eager(up, queue) == \A u \in Up : up[u] # "active"

IsComplete(up, queue) == (\A u \in Up : up[u] # "active") /\ queue = <<>>

\* slip: the depth of nested calls is ignored
Deletes_AnyDepth(depth) == TRUE

\* slip: the call that asks still counts itself
Deletes_Counting(depth) == depth + 1 = 0

\* destroy_if_possible deletes in the outermost call only
Deletes(depth) == depth = 0

\* slip: the sink hears of it twice
Tells_Again == TRUE

Tells == sink

\* destroy_if_possible, on the way out of a call at this depth
Destroy(how, depth) ==
  /\ outcome' = IF Tells THEN how ELSE outcome
  /\ sink' = FALSE
  /\ deleted' = Deletes(depth)

\* on the way out of on_next, request and on_complete
DestroyIfComplete(up, queue, depth) ==
  IF IsComplete(up, queue) THEN Destroy("complete", depth)
  ELSE UNCHANGED <<outcome, sink, deleted>>

(***************************************************************************)
(* The sources                                                             *)
(***************************************************************************)
\* slip: the newest goes first
Queued_Front(x) == <<x>> \o items

Queued(x) == Append(items, x)

OnNext(u) ==
  /\ SourceMayAct(u) /\ owed[u] > 0 /\ sent < Items
  /\ sent' = sent + 1
  /\ owed' = [owed EXCEPT ![u] = @ - 1]
  /\ items' = Queued(sent + 1)
  /\ stack' = Append(stack, [op |-> "on_next", n |-> 0, pc |-> "drain", u |-> 1])
  /\ UNCHANGED <<demand, upstream, needed, sink, deleted, received, asked, outcome>>

\* slip: the other upstreams are left running
Stopped_Alone(u, how) == [upstream EXCEPT ![u] = how]

\* on_error disables the upstream that failed and cancels the others
Stopped(u, how) == [v \in Up |-> IF v = u THEN how
                               ELSE IF upstream[v] = "active" THEN "cancelled" ELSE upstream[v]]

OnError(u) ==
  /\ SourceMayAct(u) /\ (stack # <<>> => SyncErrors)
  /\ upstream' = Stopped(u, "error")
  /\ Destroy("error", Len(stack))
  /\ UNCHANGED <<demand, owed, items, needed, stack, sent, received, asked>>

OnComplete(u) ==
  /\ SourceMayAct(u)
  /\ upstream' = [upstream EXCEPT ![u] = "complete"]
  /\ DestroyIfComplete(upstream', items, Len(stack))
  /\ UNCHANGED <<demand, owed, items, needed, stack, sent, received, asked>>

(***************************************************************************)
(* The sink                                                                *)
(***************************************************************************)
MayRequest(n) ==
  IF demand = "all" THEN n = Infinity /\ asked = 0 ELSE n = 1 /\ asked = Len(received)

Request(n) ==
  /\ SinkMayAct /\ MayRequest(n)
  /\ asked' = asked + n
  /\ needed' = needed + n
  /\ stack' = Append(stack, [op |-> "request", n |-> n, pc |-> "drain", u |-> 1])
  /\ UNCHANGED <<demand, upstream, owed, items, sink, deleted, sent, received, outcome>>

Cancel ==
  /\ SinkMayAct
  /\ upstream' = [u \in Up |-> IF upstream[u] = "active" THEN "cancelled" ELSE upstream[u]]
  /\ outcome' = "cancelled" /\ sink' = FALSE /\ deleted' = Deletes(Len(stack))
  /\ UNCHANGED <<demand, owed, items, needed, stack, sent, received, asked>>

SinkReturns ==
  /\ stack # <<>> /\ Top.pc = "sink"
  /\ Becomes([Top EXCEPT !.pc = "drain"])
  /\ UNCHANGED <<demand, upstream, owed, items, needed, sink, deleted, sent, received, asked, outcome>>

(***************************************************************************)
(* The body of on_next and request                                         *)
(***************************************************************************)
\* slip: nobody asked
Drains_Always == items # <<>>

\* slip: on_next only queues, request serves
Drains_Later == Top.op = "request" /\ needed > 0 /\ items # <<>>

Drains == needed > 0 /\ items # <<>>

Drain ==
  /\ stack # <<>> /\ Top.pc = "drain" /\ Drains
  /\ items' = Tail(items) /\ needed' = needed - 1
  /\ received' = IF sink THEN Append(received, Head(items)) ELSE received
  /\ Becomes([Top EXCEPT !.n = @ - (IF @ > 0 THEN 1 ELSE 0),
                         !.pc = IF sink THEN "sink" ELSE "drain"])
  /\ UNCHANGED <<demand, upstream, owed, sink, deleted, sent, asked, outcome>>

\* request goes on to the upstreams with what it could not serve
Drained ==
  /\ stack # <<>> /\ Top.pc = "drain" /\ ~Drains
  /\ IF Top.op = "request" /\ Top.n > 0
     THEN Becomes([Top EXCEPT !.pc = "ask"]) /\ UNCHANGED <<sink, deleted, outcome>>
     ELSE stack' = Below /\ DestroyIfComplete(upstream, items, Len(Below))
  /\ UNCHANGED <<demand, upstream, owed, items, needed, sent, received, asked>>

\* slip: one upstream is asked for all of it
AsksToo_First(u) == upstream[u] = "active" /\ u = 1

AsksToo(u) == upstream[u] = "active"

\* every upstream is asked for all of it ("TODO: avoid potential over-demanding")
Ask ==
  /\ stack # <<>> /\ Top.pc = "ask" /\ Top.u \in Up
  /\ IF AsksToo(Top.u)
     THEN owed' = [owed EXCEPT ![Top.u] = @ + Top.n] /\ Becomes([Top EXCEPT !.pc = "up"])
     ELSE Becomes([Top EXCEPT !.u = @ + 1]) /\ UNCHANGED owed
  /\ UNCHANGED <<demand, upstream, items, needed, sink, deleted, sent, received, asked, outcome>>

SourceReturns ==
  /\ stack # <<>> /\ Top.pc = "up"
  /\ Becomes([Top EXCEPT !.pc = "ask", !.u = @ + 1])
  /\ UNCHANGED <<demand, upstream, owed, items, needed, sink, deleted, sent, received, asked, outcome>>

AllAsked ==
  /\ stack # <<>> /\ Top.pc = "ask" /\ Top.u > N
  /\ stack' = Below /\ DestroyIfComplete(upstream, items, Len(Below))
  /\ UNCHANGED <<demand, upstream, owed, items, needed, sent, received, asked>>

Runs == SinkReturns \/ Drain \/ Drained \/ Ask \/ SourceReturns \/ AllAsked
Source(u) == OnNext(u) \/ OnError(u) \/ OnComplete(u)
SinkRequests == \E n \in {1, Infinity} : Request(n)

Next == Runs \/ (\E u \in Up : Source(u)) \/ SinkRequests \/ Cancel

Spec == Init /\ [][Next]_vars

\* calls return, the sink goes on asking, a source that is asked sends or ends
FairSpec ==
  Spec /\ WF_vars(Runs) /\ WF_vars(SinkRequests) /\ \A u \in Up : WF_vars(Source(u))

(***************************************************************************)
(* Properties                                                              *)
(***************************************************************************)
\* However calls nest, every element is handed on once, in the order in which
\* the sources sent them, and never more than the sink asked for.
InOrder ==
  /\ sink => received \o items = [k \in 1..sent |-> k]
  /\ Len(received) <= asked

\* Demand is never lost: when no call is under way, an unserved request has
\* reached every source that can still serve it, and nothing is held back.
DemandReachesSources ==
  stack = <<>> /\ sink /\ needed > 0 =>
    items = <<>> /\ \A u \in Active : owed[u] >= needed

\* Over-demanding is bounded: what is queued is at most what the other sources
\* were asked for besides (request), and what is about to be handed on.
BoundedQueue == Len(items) <= (N - 1) * asked + needed

\* The merged stream completes only behind the last element of every source,
\* and fails if one of them failed.
CompleteMeansAll ==
  /\ outcome = "complete" => Len(received) = sent /\ \A u \in Up : upstream[u] = "complete"
  /\ (\E u \in Up : upstream[u] = "error") => outcome = "error"

\* Whoever ends it, the object goes away while none of its methods runs and no
\* source can call it again.
DeletedIsUnused == deleted => stack = <<>> /\ Active = {}

\* The sink is told how it ended once.
ToldOnce == [][outcome # "none" => outcome' = outcome]_vars

\* Once no source is left, the sink is told, however much is still queued.
EndIsTold == (Active = {}) ~> (outcome # "none")

\* A merge whose sink asked for everything is deleted once it ended.  Another one that
\* is cancelled inside on_next while elements are queued is not: on_next and
\* request delete only what IsComplete, and the queue stays.
EndedIsDeleted ==
  demand = "all" /\ (outcome = "error" \/ outcome = "cancelled" \/ Active = {}) ~> deleted

\* What merge promises its sink, and its own memory, in every state.
Safety ==
  /\ TypeOK
  /\ InOrder
  /\ BoundedQueue
  /\ CompleteMeansAll
  /\ DeletedIsUnused

P == INSTANCE Stream WITH given <- Len(received), ended <- outcome # "none"

\* Although the sources together send more than was asked for, the sink gets what it
\* asked for and no more, and nothing behind the end.
KeepsPromise == P!Spec

\* However merge ends, the sink hears of it once and the object goes away.
Ending ==
  /\ KeepsPromise
  /\ ToldOnce
  /\ EndIsTold
  /\ EndedIsDeleted
=============================================================================
