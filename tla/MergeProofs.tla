----------------------------- MODULE MergeProofs -----------------------------
(***************************************************************************)
(* Theorems about Merge for every number of sources and elements, every    *)
(* demand, and sources that may or may not fail from inside request().     *)
(***************************************************************************)
EXTENDS Merge, SequenceTheorems, WellFoundedInduction, TLAPS

-----------------------------------------------------------------------------
(* The invariant.                                                          *)

\* The kinds of values, and what the body of a method relies on: only request
\* goes on to the upstreams, and it is inside one it has asked.
Types ==
  /\ upstream \in [Up -> {"active", "complete", "error", "cancelled"}]
  /\ owed \in [Up -> Nat]
  /\ items \in Seq(1..Items) /\ received \in Seq(1..Items) /\ sent \in 0..Items
  /\ needed \in Nat /\ asked \in Nat /\ sink \in BOOLEAN /\ deleted \in BOOLEAN
  /\ stack \in Seq(Frames) /\ demand \in Demands
  /\ outcome \in {"none", "complete", "error", "cancelled"}

\* Only the innermost activation is at work; the others wait in a call.
Nesting ==
  /\ \A k \in 1..Len(stack) - 1 : stack[k].pc \in {"sink", "up"}
  /\ \A k \in 1..Len(stack) :
       /\ stack[k].pc = "up" => stack[k].u \in Up
       /\ stack[k].pc \in {"ask", "up"} => stack[k].op = "request"
       /\ demand = "all" /\ stack[k].op = "request" => stack[k].pc # "sink"
       /\ demand = "all" /\ stack[k].op = "request" /\ stack[k].pc = "drain" => items = <<>>

\* The sink is there exactly as long as it was not told of the end, and whoever
\* ended the stream stopped its sources.
Outcomes ==
  /\ sink <=> outcome = "none"
  /\ sink => \A u \in Up : upstream[u] \in {"active", "complete"}
  /\ ~sink => Active = {}
  /\ outcome = "complete" => Len(received) = sent /\ \A u \in Up : upstream[u] = "complete"
  /\ (\E u \in Up : upstream[u] = "error") => outcome = "error"
  /\ deleted => stack = <<>> /\ ~sink

\* _items_needed is what was asked for and not handed on.
Demand ==
  /\ needed + Len(received) <= asked /\ Len(received) <= sent
  /\ sink => needed + Len(received) = asked /\ Len(received) + Len(items) = sent
  /\ demand = "one" => asked <= Len(received) + 1
  /\ demand = "all" => asked \in {0, Infinity}
  /\ asked = 0 => stack = <<>> /\ sent = 0

\* What is needed and there is about to be handed on.
Served ==
  /\ sink /\ needed > 0 /\ items # <<>> => stack # <<>> /\ Top.pc = "drain"
  /\ sink /\ demand = "all" => Len(items) <= 1

\* activation f of request has still to ask upstream u
WillAsk(f, u) == f.op = "request" /\ IF f.pc = "up" THEN f.u < u ELSE f.u <= u

\* What is needed was asked of every source, is about to be, or has come.
Reaches ==
  sink /\ needed > 0 => \A u \in Active :
    \/ owed[u] + Len(items) >= needed
    \/ \E k \in 1..Len(stack) : WillAsk(stack[k], u) /\ stack[k].n >= needed

\* w bounds, for upstream u, what the activations up to each one will ask of it
Claims(w, u) ==
  /\ w \in [0..Len(stack) -> Nat]
  /\ \A k \in 1..Len(stack) :
       w[k] >= w[k - 1] + (IF WillAsk(stack[k], u) THEN stack[k].n ELSE 0)

\* No source owes, has sent or is going to be asked for more than the sink asked
\* for: s counts what the first sources have sent.
Shared(s) ==
  /\ s \in [0..N -> Nat] /\ s[0] = 0 /\ s[N] = sent
  /\ \A u \in Up : s[u - 1] <= s[u]
  /\ \A u \in Up : \E w : /\ Claims(w, u)
                          /\ s[u] + owed[u] + w[Len(stack)] <= s[u - 1] + asked

Shares == \E s : Shared(s)

-----------------------------------------------------------------------------
(* Lemmas.                                                                 *)

\* Every non-empty set of numbers has a least element: the induction that the
\* count of the sources needs.
LEMMA LeastNumber ==
  ASSUME NEW T \in SUBSET Nat, T # {}
  PROVE  \E x \in T : \A y \in T : x <= y
<1>1. PICK x \in T : \A y \in T : ~(<<y, x>> \in OpToRel(<, Nat))
  BY NatLessThanWellFounded, WFMin, Zenon
<1>2. \A y \in T : ~(y < x)
  BY <1>1 DEF OpToRel
<1> QED  BY <1>2

\* A sequence without its last element.
LEMMA Front ==
  ASSUME NEW S, NEW s \in Seq(S), s # <<>>
  PROVE  /\ SubSeq(s, 1, Len(s) - 1) \in Seq(S) /\ Len(SubSeq(s, 1, Len(s) - 1)) = Len(s) - 1
         /\ \A k \in 1..Len(s) - 1 : SubSeq(s, 1, Len(s) - 1)[k] = s[k]
<1> DEFINE n == Len(s) - 1
<1>1. n \in Nat /\ \A k \in 1..n : s[k] \in S
  BY EmptySeq, ElementOfSeq
<1> HIDE DEF n
<1>2. /\ SubSeq(s, 1, n) \in Seq(S) /\ Len(SubSeq(s, 1, n)) = IF 1 <= n THEN n - 1 + 1 ELSE 0
      /\ \A k \in 1..n - 1 + 1 : SubSeq(s, 1, n)[k] = s[1 + k - 1]
  BY <1>1, SubSeqProperties
<1>3. Len(SubSeq(s, 1, n)) = n /\ \A k \in 1..n : SubSeq(s, 1, n)[k] = s[k]
  BY <1>1, <1>2
<1> QED  BY <1>2, <1>3 DEF n

\* A call that is entered goes on top of the stack (on_next, request).
LEMMA Pushed ==
  ASSUME stack \in Seq(Frames), NEW f \in Frames, stack' = Append(stack, f)
  PROVE  /\ stack' \in Seq(Frames) /\ Len(stack') = Len(stack) + 1 /\ stack' # <<>>
         /\ \A k \in 1..Len(stack) : stack'[k] = stack[k]
         /\ stack'[Len(stack')] = f
BY AppendProperties

\* What an activation does changes the innermost one only.
LEMMA Replaced ==
  ASSUME stack \in Seq(Frames), stack # <<>>, NEW f \in Frames, Becomes(f)
  PROVE  /\ stack' \in Seq(Frames) /\ Len(stack') = Len(stack) /\ stack' # <<>>
         /\ \A k \in 1..Len(stack) - 1 : stack'[k] = stack[k]
         /\ stack'[Len(stack')] = f
<1>1. Len(stack) \in Nat \ {0}
  BY EmptySeq
<1>2. Below \in Seq(Frames) /\ Len(Below) = Len(stack) - 1
      /\ \A k \in 1..Len(stack) - 1 : Below[k] = stack[k]
  BY Front DEF Below
<1> QED  BY <1>1, <1>2, AppendProperties DEF Becomes

\* A call that returns leaves the stack as it found it.
LEMMA Popped ==
  ASSUME stack \in Seq(Frames), stack # <<>>, stack' = Below
  PROVE  /\ stack' \in Seq(Frames) /\ Len(stack') = Len(stack) - 1
         /\ \A k \in 1..Len(stack') : stack'[k] = stack[k]
         /\ stack' = <<>> <=> Len(stack) = 1
<1>1. Len(stack) \in Nat \ {0}
  BY EmptySeq
<1>3. stack' \in Seq(Frames) /\ Len(stack') = Len(stack) - 1
      /\ \A k \in 1..Len(stack) - 1 : stack'[k] = stack[k]
  BY Front DEF Below
<1> QED  BY <1>1, <1>3, EmptySeq

\* The innermost activation is one of Frames.
LEMMA TopIsFrame ==
  ASSUME stack \in Seq(Frames), stack # <<>>
  PROVE  Top \in Frames /\ Len(stack) \in Nat \ {0} /\ Top = stack[Len(stack)]
BY EmptySeq, ElementOfSeq DEF Top

\* An activation that counts or moves on is one still.
LEMMA Changed ==
  ASSUME NEW f \in Frames, NEW n \in Nat, NEW u \in 1..N + 1, NEW pc \in {"drain", "sink", "ask", "up"}
  PROVE  /\ [f EXCEPT !.pc = pc] \in Frames
         /\ [f EXCEPT !.u = u] \in Frames
         /\ [f EXCEPT !.n = n, !.pc = pc] \in Frames
         /\ [f EXCEPT !.pc = pc, !.u = u] \in Frames
BY DEF Frames

\* What a method does on its way out to the flags of the object.
LEMMA WayOut ==
  ASSUME NEW up, NEW queue, NEW depth, DestroyIfComplete(up, queue, depth)
  PROVE  \/ UNCHANGED <<outcome, sink, deleted>>
         \/ /\ IsComplete(up, queue) /\ sink' = FALSE /\ deleted' = (depth = 0)
            /\ outcome' = IF sink THEN "complete" ELSE outcome
BY DEF DestroyIfComplete, Destroy, Tells, Deletes

-----------------------------------------------------------------------------
(* Type correctness.                                                       *)

\* Every step leaves a stack of activations.
LEMMA StackStep == Types /\ Nesting /\ [Next]_vars => stack' \in Seq(Frames)
<1> SUFFICES ASSUME Types, Nesting, [Next]_vars PROVE stack' \in Seq(Frames)
  OBVIOUS
<1> USE MergeAssumption DEF Types
<1>1. CASE UNCHANGED stack
  BY <1>1
<1>2. ASSUME NEW u \in Up, OnNext(u) PROVE stack' \in Seq(Frames)
  <2>1. [op |-> "on_next", n |-> 0, pc |-> "drain", u |-> 1] \in Frames
    BY DEF Frames, Ops
  <2> QED  BY <1>2, <2>1, Pushed DEF OnNext
<1>3. ASSUME NEW n \in {1, Infinity}, Request(n) PROVE stack' \in Seq(Frames)
  <2>1. [op |-> "request", n |-> n, pc |-> "drain", u |-> 1] \in Frames
    BY DEF Frames, Ops
  <2> QED  BY <1>3, <2>1, Pushed DEF Request
<1>4. CASE Runs
  <2>1. stack # <<>>
    BY <1>4 DEF Runs, SinkReturns, Drain, Drained, Ask, SourceReturns, AllAsked
  <2>2. Top \in Frames
    BY <2>1, TopIsFrame
  <2>3. stack' = Below \/ \E f \in Frames : Becomes(f)
    <3>1. CASE SinkReturns
      <4>1. [Top EXCEPT !.pc = "drain"] \in Frames
        BY <2>2 DEF Frames
      <4> QED  BY <3>1, <4>1 DEF SinkReturns
    <3>2. CASE Drain
      <4>1. [Top EXCEPT !.n = @ - (IF @ > 0 THEN 1 ELSE 0),
                        !.pc = IF sink THEN "sink" ELSE "drain"] \in Frames
        <5>1. Top.n - (IF Top.n > 0 THEN 1 ELSE 0) \in Nat /\ Top.u \in 1..N + 1
          BY <2>2 DEF Frames
        <5>2. (IF sink THEN "sink" ELSE "drain") \in {"drain", "sink", "ask", "up"}
          OBVIOUS
        <5> QED  BY <2>2, <5>1, <5>2, Changed
      <4> QED  BY <3>2, <4>1 DEF Drain
    <3>3. CASE Drained
      <4>1. [Top EXCEPT !.pc = "ask"] \in Frames
        BY <2>2 DEF Frames
      <4> QED  BY <3>3, <4>1 DEF Drained
    <3>4. CASE Ask
      <4>0. Top.u \in Up
        BY <3>4 DEF Ask
      <4>1. Top.n \in Nat /\ Top.u + 1 \in 1..N + 1
        BY <2>2, <4>0 DEF Frames, Up
      <4>2. /\ [Top EXCEPT !.pc = "up"] \in Frames
            /\ [Top EXCEPT !.u = @ + 1] \in Frames
        BY <2>2, <4>1, Changed
      <4> QED  BY <3>4, <4>2 DEF Ask
    <3>5. CASE SourceReturns
      <4>1. Top.u \in Up
        BY <2>1, <3>5, TopIsFrame DEF SourceReturns, Nesting
      <4>2. Top.n \in Nat /\ Top.u + 1 \in 1..N + 1
        BY <2>2, <4>1 DEF Frames, Up
      <4>3. [Top EXCEPT !.pc = "ask", !.u = @ + 1] \in Frames
        BY <2>2, <4>2, Changed
      <4> QED  BY <3>5, <4>3 DEF SourceReturns
    <3>6. CASE AllAsked
      BY <3>6 DEF AllAsked
    <3> QED  BY <1>4, <3>1, <3>2, <3>3, <3>4, <3>5, <3>6 DEF Runs
  <2> QED  BY <2>1, <2>3, Replaced, Popped
<1> QED
  BY <1>1, <1>2, <1>3, <1>4 DEF Next, Source, OnError, OnComplete, SinkRequests, Cancel, vars

\* Every step keeps the kinds of values.
LEMMA TypesStep == Types /\ Nesting /\ [Next]_vars => Types'
<1> SUFFICES ASSUME Types, Nesting, [Next]_vars PROVE Types'
  OBVIOUS
<1> USE MergeAssumption DEF Types
<1>1. stack' \in Seq(Frames)
  BY StackStep
<1>2. ASSUME NEW u \in Up, OnNext(u) PROVE Types'
  <2>1. sent + 1 \in 1..Items
    BY <1>2 DEF OnNext
  <2>2. Append(items, sent + 1) \in Seq(1..Items)
    BY <2>1, AppendProperties
  <2> QED  BY <1>1, <1>2, <2>1, <2>2 DEF OnNext, Queued
<1>3. ASSUME NEW u \in Up, OnError(u) PROVE Types'
  BY <1>1, <1>3 DEF OnError, Stopped, Destroy, Deletes, Tells
<1>4. ASSUME NEW u \in Up, OnComplete(u) PROVE Types'
  BY <1>1, <1>4, WayOut DEF OnComplete
<1>5. ASSUME NEW n \in {1, Infinity}, Request(n) PROVE Types'
  BY <1>1, <1>5 DEF Request
<1>6. CASE Cancel
  BY <1>1, <1>6 DEF Cancel, Deletes
<1>7. CASE SinkReturns \/ SourceReturns
  BY <1>1, <1>7 DEF SinkReturns, SourceReturns
<1>8. CASE Drain
  <2>1. Head(items) \in 1..Items /\ Tail(items) \in Seq(1..Items)
    BY <1>8, HeadTailProperties DEF Drain, Drains
  <2>2. Append(received, Head(items)) \in Seq(1..Items)
    BY <2>1, AppendProperties
  <2>3. received' = received \/ received' = Append(received, Head(items))
    BY <1>8 DEF Drain
  <2>4. items' = Tail(items) /\ needed' = needed - 1 /\ needed > 0
        /\ UNCHANGED <<demand, upstream, owed, sink, deleted, sent, asked, outcome>>
    BY <1>8 DEF Drain, Drains
  <2>5. received' \in Seq(1..Items)
    BY <2>2, <2>3, Zenon
  <2>6. needed' \in Nat
    BY <2>4
  <2> QED  BY <1>1, <2>1, <2>4, <2>5, <2>6
<1>9. CASE Drained
  BY <1>1, <1>9, WayOut DEF Drained
<1>10. CASE Ask
  <2>1. Top \in Frames
    BY <1>10, TopIsFrame DEF Ask
  <2>2. Top.n \in Nat
    BY <2>1 DEF Frames
  <2>3. owed' = owed \/ owed' = [owed EXCEPT ![Top.u] = @ + Top.n]
    BY <1>10 DEF Ask
  <2>4. owed' \in [Up -> Nat]
    <3>1. Top.u \in Up
      BY <1>10 DEF Ask
    <3>2. owed[Top.u] + Top.n \in Nat
      BY <2>2, <3>1
    <3> QED  BY <2>3, <3>2
  <2> QED  BY <1>1, <1>10, <2>4 DEF Ask
<1>11. CASE AllAsked
  BY <1>1, <1>11, WayOut DEF AllAsked
<1>12. CASE UNCHANGED vars
  BY <1>12 DEF vars
<1> QED
  BY <1>2, <1>3, <1>4, <1>5, <1>6, <1>7, <1>8, <1>9, <1>10, <1>11, <1>12
     DEF Next, Runs, Source, SinkRequests

-----------------------------------------------------------------------------
(* The stack of activations.                                               *)

\* The innermost activation has these fields now, the others are as they were.
TopIs(op, n, pc, u) ==
  /\ Len(stack') = Len(stack) /\ stack # <<>> /\ stack' # <<>> /\ Len(stack) \in Nat \ {0}
  /\ \A k \in 1..Len(stack) - 1 : stack'[k] = stack[k]
  /\ LET f == stack'[Len(stack)] IN f.op = op /\ f.n = n /\ f.pc = pc /\ f.u = u

\* The innermost activation has returned.
Returned ==
  /\ Len(stack') = Len(stack) - 1 /\ stack # <<>> /\ Len(stack) \in Nat \ {0}
  /\ \A k \in 1..Len(stack') : stack'[k] = stack[k]
  /\ stack' = <<>> <=> Len(stack) = 1

\* One more is under way, of these fields.
Entered(op, n) ==
  /\ Len(stack') = Len(stack) + 1 /\ stack' # <<>> /\ Len(stack) \in Nat
  /\ \A k \in 1..Len(stack) : stack'[k] = stack[k]
  /\ LET f == stack'[Len(stack')] IN f.op = op /\ f.n = n /\ f.pc = "drain" /\ f.u = 1

\* What the steps of on_next and request do to the stack.
LEMMA Activation ==
  ASSUME Types
  PROVE  /\ SinkReturns => TopIs(Top.op, Top.n, "drain", Top.u)
         /\ Drain => TopIs(Top.op, Top.n - (IF Top.n > 0 THEN 1 ELSE 0),
                           IF sink THEN "sink" ELSE "drain", Top.u)
         /\ Drained => IF Top.op = "request" /\ Top.n > 0
                       THEN TopIs(Top.op, Top.n, "ask", Top.u) ELSE Returned
         /\ Ask => IF AsksToo(Top.u) THEN TopIs(Top.op, Top.n, "up", Top.u)
                   ELSE TopIs(Top.op, Top.n, "ask", Top.u + 1)
         /\ SourceReturns => TopIs(Top.op, Top.n, "ask", Top.u + 1)
         /\ AllAsked => Returned
<1>1. ASSUME stack # <<>> PROVE Top \in Frames /\ Len(stack) \in Nat \ {0}
  BY <1>1, TopIsFrame DEF Types
<1>2. ASSUME NEW f, Becomes(f), stack # <<>>
      PROVE  /\ Len(stack') = Len(stack) /\ stack' # <<>> /\ stack'[Len(stack)] = f
             /\ \A k \in 1..Len(stack) - 1 : stack'[k] = stack[k]
  <2>1. stack \in Seq(Frames \cup {f}) /\ f \in Frames \cup {f}
    BY SeqMonotonic DEF Types
  <2>2. Below \in Seq(Frames \cup {f}) /\ Len(Below) = Len(stack) - 1
        /\ \A k \in 1..Len(stack) - 1 : Below[k] = stack[k]
    BY <1>2, <2>1, Front DEF Below
  <2> QED  BY <1>1, <1>2, <2>1, <2>2, AppendProperties DEF Becomes
<1>3. ASSUME stack # <<>>, stack' = Below PROVE Returned
  BY <1>3, <1>1, Popped DEF Types, Returned
<1>4. SinkReturns => TopIs(Top.op, Top.n, "drain", Top.u)
  <2> SUFFICES ASSUME SinkReturns PROVE TopIs(Top.op, Top.n, "drain", Top.u)
    OBVIOUS
  <2> DEFINE f == [Top EXCEPT !.pc = "drain"]
  <2>1. f.op = Top.op /\ f.n = Top.n /\ f.pc = "drain" /\ f.u = Top.u
    BY <1>1 DEF SinkReturns, Frames
  <2>2. Becomes(f) /\ stack # <<>>
    BY DEF SinkReturns
  <2> QED  BY <1>1, <1>2, <2>1, <2>2 DEF TopIs
<1>5. Drain => TopIs(Top.op, Top.n - (IF Top.n > 0 THEN 1 ELSE 0),
                     IF sink THEN "sink" ELSE "drain", Top.u)
  <2> SUFFICES ASSUME Drain
               PROVE  TopIs(Top.op, Top.n - (IF Top.n > 0 THEN 1 ELSE 0),
                            IF sink THEN "sink" ELSE "drain", Top.u)
    OBVIOUS
  <2> DEFINE f == [Top EXCEPT !.n = @ - (IF @ > 0 THEN 1 ELSE 0),
                              !.pc = IF sink THEN "sink" ELSE "drain"]
  <2>1. f.op = Top.op /\ f.n = Top.n - (IF Top.n > 0 THEN 1 ELSE 0)
        /\ f.pc = (IF sink THEN "sink" ELSE "drain") /\ f.u = Top.u
    BY <1>1 DEF Drain, Frames
  <2>2. Becomes(f) /\ stack # <<>>
    BY DEF Drain
  <2> QED  BY <1>1, <1>2, <2>1, <2>2 DEF TopIs
<1>6. Drained => IF Top.op = "request" /\ Top.n > 0
                 THEN TopIs(Top.op, Top.n, "ask", Top.u) ELSE Returned
  <2> SUFFICES ASSUME Drained, Top.op = "request" /\ Top.n > 0
               PROVE  TopIs(Top.op, Top.n, "ask", Top.u)
    BY <1>3 DEF Drained
  <2> DEFINE f == [Top EXCEPT !.pc = "ask"]
  <2>1. f.op = Top.op /\ f.n = Top.n /\ f.pc = "ask" /\ f.u = Top.u
    BY <1>1 DEF Drained, Frames
  <2>2. Becomes(f) /\ stack # <<>>
    BY DEF Drained
  <2> QED  BY <1>1, <1>2, <2>1, <2>2 DEF TopIs
<1>7. Ask => IF AsksToo(Top.u) THEN TopIs(Top.op, Top.n, "up", Top.u)
             ELSE TopIs(Top.op, Top.n, "ask", Top.u + 1)
  <2> SUFFICES ASSUME Ask
               PROVE  IF AsksToo(Top.u) THEN TopIs(Top.op, Top.n, "up", Top.u)
                      ELSE TopIs(Top.op, Top.n, "ask", Top.u + 1)
    OBVIOUS
  <2> DEFINE f == [Top EXCEPT !.pc = "up"]
             g == [Top EXCEPT !.u = @ + 1]
  <2>1. /\ f.op = Top.op /\ f.n = Top.n /\ f.pc = "up" /\ f.u = Top.u
        /\ g.op = Top.op /\ g.n = Top.n /\ g.pc = "ask" /\ g.u = Top.u + 1
    BY <1>1 DEF Ask, Frames
  <2>2. stack # <<>> /\ IF AsksToo(Top.u) THEN Becomes(f) ELSE Becomes(g)
    BY DEF Ask
  <2> HIDE DEF f, g
  <2> QED  BY <1>1, <1>2, <2>1, <2>2 DEF TopIs
<1>8. SourceReturns => TopIs(Top.op, Top.n, "ask", Top.u + 1)
  <2> SUFFICES ASSUME SourceReturns PROVE TopIs(Top.op, Top.n, "ask", Top.u + 1)
    OBVIOUS
  <2> DEFINE f == [Top EXCEPT !.pc = "ask", !.u = @ + 1]
  <2>1. f.op = Top.op /\ f.n = Top.n /\ f.pc = "ask" /\ f.u = Top.u + 1
    BY <1>1 DEF SourceReturns, Frames
  <2>2. Becomes(f) /\ stack # <<>>
    BY DEF SourceReturns
  <2> QED  BY <1>1, <1>2, <2>1, <2>2 DEF TopIs
<1>9. AllAsked => Returned
  BY <1>3 DEF AllAsked
<1> QED  BY <1>4, <1>5, <1>6, <1>7, <1>8, <1>9

\* What a call from outside does to the stack.
LEMMA Entering ==
  ASSUME Types
  PROVE  /\ \A u \in Up : OnNext(u) => Entered("on_next", 0)
         /\ \A n \in {1, Infinity} : Request(n) => Entered("request", n)
<1> USE MergeAssumption
<1>1. ASSUME NEW op \in Ops, NEW n \in Nat,
             stack' = Append(stack, [op |-> op, n |-> n, pc |-> "drain", u |-> 1])
      PROVE  Entered(op, n)
  <2> DEFINE f == [op |-> op, n |-> n, pc |-> "drain", u |-> 1]
  <2>1. f \in Frames /\ f.op = op /\ f.n = n /\ f.pc = "drain" /\ f.u = 1
    BY DEF Frames
  <2>2. Len(stack) \in Nat
    BY LenProperties DEF Types
  <2> HIDE DEF f
  <2>3. stack' = Append(stack, f)
    BY <1>1 DEF f
  <2> QED  BY <2>1, <2>2, <2>3, Pushed DEF Types, Entered
<1> QED  BY <1>1 DEF OnNext, Request, Ops

\* The steps of the specification, sorted by who takes them.
LEMMA StepKinds ==
  [Next]_vars =>
    \/ \E u \in Up : OnNext(u) \/ OnError(u) \/ OnComplete(u)
    \/ \E n \in {1, Infinity} : Request(n)
    \/ Cancel \/ SinkReturns \/ Drain \/ Drained \/ Ask \/ SourceReturns \/ AllAsked
    \/ UNCHANGED vars
BY DEF Next, Runs, Source, SinkRequests

-----------------------------------------------------------------------------
(* Safety of the object and of its counters.                               *)

\* Every step leaves at most the innermost activation at work.
LEMMA NestingStep == Types /\ Nesting /\ Demand /\ [Next]_vars => Nesting'
<1> SUFFICES ASSUME Types, Nesting, Demand, [Next]_vars PROVE Nesting'
  OBVIOUS
<1>0. Len(stack) \in Nat /\ (stack # <<>> => Len(stack) # 0) /\ Top = stack[Len(stack)]
  BY EmptySeq, LenProperties DEF Types, Top
<1>1. ASSUME NEW u \in Up, OnNext(u) PROVE Nesting'
  <2>1. Entered("on_next", 0) /\ demand' = demand /\ (stack # <<>> => Top.pc = "up")
    BY <1>1, Entering DEF OnNext, SourceMayAct
  <2> QED  BY <1>0, <2>1 DEF Entered, Nesting
<1>2. ASSUME NEW n \in {1, Infinity}, Request(n) PROVE Nesting'
  <2>1. Entered("request", n) /\ demand' = demand /\ items' = items
        /\ (stack # <<>> => Top.pc = "sink")
    BY <1>2, Entering DEF Request, SinkMayAct
  <2>2. demand = "all" => items = <<>>
    <3>1. demand = "all" => sink /\ sent = 0
      BY <1>2 DEF Request, MayRequest, SinkMayAct, Demand
    <3>2. Len(items) \in Nat /\ Len(received) \in Nat /\ (items # <<>> => Len(items) # 0)
      BY EmptySeq, LenProperties DEF Types
    <3> QED  BY <3>1, <3>2 DEF Demand
  <2> QED  BY <1>0, <2>1, <2>2 DEF Entered, Nesting, Up, MergeAssumption
<1>3. CASE Drain
  <2>1. Top.pc = "drain" /\ items # <<>> /\ demand' = demand
    BY <1>3 DEF Drain, Drains
  <2>2. ~(demand = "all" /\ Top.op = "request")
    BY <1>0, <1>3, <2>1 DEF Nesting, Drain
  <2>3. TopIs(Top.op, Top.n - (IF Top.n > 0 THEN 1 ELSE 0), IF sink THEN "sink" ELSE "drain", Top.u)
    BY <1>3, Activation
  <2>4. \A k \in 1..Len(stack) - 1 : stack'[k] = stack[k] /\ stack[k].pc \in {"sink", "up"}
    BY <2>3 DEF TopIs, Nesting
  <2>5. stack'[Len(stack)].op = Top.op /\ stack'[Len(stack)].pc \in {"sink", "drain"}
    BY <2>3 DEF TopIs
  <2>6. Len(stack') = Len(stack)
    BY <2>3 DEF TopIs
  <2> QED  BY <1>0, <2>1, <2>2, <2>4, <2>5, <2>6 DEF Nesting
<1>4. CASE SinkReturns
  <2>1. TopIs(Top.op, Top.n, "drain", Top.u) /\ demand' = demand /\ Top.pc = "sink" /\ stack # <<>>
    BY <1>4, Activation DEF SinkReturns
  <2>2. ~(demand = "all" /\ Top.op = "request")
    BY <1>0, <2>1 DEF Nesting
  <2> QED  BY <1>0, <2>1, <2>2 DEF TopIs, Nesting
<1>5. CASE Drained
  <2>1. demand' = demand /\ items' = items
    BY <1>5 DEF Drained
  <2>2. (Top.op = "request" /\ TopIs(Top.op, Top.n, "ask", Top.u)) \/ Returned
    BY <1>5, Activation
  <2>3. CASE Top.op = "request" /\ TopIs(Top.op, Top.n, "ask", Top.u)
    BY <1>0, <2>1, <2>3 DEF TopIs, Nesting
  <2>4. CASE Returned
    BY <1>0, <2>1, <2>4 DEF Returned, Nesting
  <2> QED  BY <2>2, <2>3, <2>4
<1>6. CASE Ask
  <2>0. Top.pc = "ask" /\ stack # <<>>
    BY <1>6 DEF Ask
  <2>1. demand' = demand /\ items' = items /\ Top.u \in Up /\ Top.op = "request"
    BY <1>0, <1>6, <2>0 DEF Ask, Nesting
  <2>2. \/ TopIs(Top.op, Top.n, "up", Top.u) \/ TopIs(Top.op, Top.n, "ask", Top.u + 1)
    BY <1>6, Activation
  <2>3. CASE TopIs(Top.op, Top.n, "up", Top.u)
    BY <1>0, <2>1, <2>3 DEF TopIs, Nesting
  <2>4. CASE TopIs(Top.op, Top.n, "ask", Top.u + 1)
    BY <1>0, <2>1, <2>4 DEF TopIs, Nesting
  <2> QED  BY <2>2, <2>3, <2>4
<1>7. CASE SourceReturns
  <2>1. TopIs(Top.op, Top.n, "ask", Top.u + 1) /\ demand' = demand /\ Top.pc = "up" /\ stack # <<>>
    BY <1>7, Activation DEF SourceReturns
  <2>2. Top.op = "request"
    BY <1>0, <2>1 DEF Nesting
  <2> QED  BY <1>0, <2>1, <2>2 DEF TopIs, Nesting
<1>8. CASE AllAsked
  <2>1. Returned /\ demand' = demand /\ items' = items
    BY <1>8, Activation DEF AllAsked
  <2> QED  BY <1>0, <2>1, SMTT(60) DEF Returned, Nesting
<1>9. CASE UNCHANGED <<stack, items, demand>>
  BY <1>9 DEF Nesting
<1> QED
  BY <1>1, <1>2, <1>3, <1>4, <1>5, <1>6, <1>7, <1>8, <1>9, StepKinds
     DEF OnError, OnComplete, Cancel, vars

\* The sink hears how it ended once, what the sources said, and the object is
\* deleted when it has ended and none of its methods runs.
LEMMA OutcomesStep == Types /\ Demand /\ Outcomes /\ [Next]_vars => Outcomes'
<1> SUFFICES ASSUME Types, Demand, Outcomes, [Next]_vars PROVE Outcomes'
  OBVIOUS
<1> USE DEF Outcomes, Active
<1>0. Len(stack) \in Nat /\ (Len(stack) = 0 => stack = <<>>)
  BY EmptySeq, LenProperties DEF Types
<1>1. ASSUME NEW u \in Up, OnNext(u) PROVE Outcomes'
  BY <1>1 DEF OnNext, SourceMayAct
<1>2. ASSUME NEW u \in Up, OnError(u) PROVE Outcomes'
  <2>1. upstream' = [v \in Up |-> IF v = u THEN "error"
                                  ELSE IF upstream[v] = "active" THEN "cancelled" ELSE upstream[v]]
        /\ sink' = FALSE /\ deleted' = (Len(stack) = 0) /\ stack' = stack
        /\ outcome' = IF sink THEN "error" ELSE outcome
    BY <1>2 DEF OnError, Stopped, Destroy, Deletes, Tells
  <2>2. sink
    BY <1>2 DEF OnError, SourceMayAct
  <2>3. Active' = {}
    BY <2>1 DEF Types
  <2>4. outcome' = "error"
    BY <2>1, <2>2
  <2> QED  BY <1>0, <2>1, <2>3, <2>4
<1>3. ASSUME NEW u \in Up, OnComplete(u) PROVE Outcomes'
  <2>1. upstream' = [upstream EXCEPT ![u] = "complete"] /\ UNCHANGED <<stack, received, sent, items>>
        /\ sink /\ ~deleted
    BY <1>3 DEF OnComplete, SourceMayAct
  <2>2. \/ UNCHANGED <<outcome, sink, deleted>>
        \/ /\ IsComplete(upstream', items) /\ sink' = FALSE /\ deleted' = (Len(stack) = 0)
           /\ outcome' = "complete"
    BY <1>3, <2>1 DEF OnComplete, DestroyIfComplete, Destroy, Tells, Deletes
  <2>3. \A v \in Up : upstream'[v] \in {"active", "complete"}
    BY <2>1 DEF Types
  <2>4. CASE UNCHANGED <<outcome, sink, deleted>>
    BY <2>1, <2>3, <2>4
  <2>5. CASE IsComplete(upstream', items) /\ sink' = FALSE /\ deleted' = (Len(stack) = 0)
             /\ outcome' = "complete"
    <3>1. \A v \in Up : upstream'[v] = "complete"
      BY <2>3, <2>5 DEF IsComplete
    <3>2. Len(received) = sent
      BY <2>1, <2>5, EmptySeq, LenProperties DEF IsComplete, Demand, Types
    <3> QED  BY <1>0, <2>1, <2>5, <3>1, <3>2
  <2> QED  BY <2>2, <2>4, <2>5
<1>4. ASSUME NEW n \in {1, Infinity}, Request(n) PROVE Outcomes'
  BY <1>4 DEF Request, SinkMayAct
<1>5. CASE Cancel
  <2>1. upstream' = [u \in Up |-> IF upstream[u] = "active" THEN "cancelled" ELSE upstream[u]]
        /\ sink /\ sink' = FALSE /\ outcome' = "cancelled" /\ deleted' = (Len(stack) = 0)
        /\ UNCHANGED <<stack, received, sent>>
    BY <1>5 DEF Cancel, Deletes, SinkMayAct
  <2>2. \A u \in Up : upstream'[u] \notin {"active", "error"}
    BY <2>1 DEF Types
  <2> QED  BY <1>0, <2>1, <2>2
<1>6. CASE SinkReturns \/ Ask \/ SourceReturns
  BY <1>6 DEF SinkReturns, Ask, SourceReturns
<1>7. CASE Drain
  BY <1>7 DEF Drain
<1>8. CASE Drained \/ AllAsked
  <2>1. UNCHANGED <<upstream, received, sent>> /\ ~deleted /\ stack # <<>>
    BY <1>8 DEF Drained, AllAsked
  <2>2. CASE UNCHANGED <<outcome, sink, deleted>>
    BY <2>1, <2>2
  <2>3. CASE stack' = Below /\ DestroyIfComplete(upstream, items, Len(Below))
    <3>1. Len(stack') = 0 => stack' = <<>>
      BY <2>1, <2>3, Popped, EmptySeq DEF Types
    <3>2. CASE /\ IsComplete(upstream, items) /\ sink' = FALSE /\ deleted' = (Len(Below) = 0)
               /\ outcome' = IF sink THEN "complete" ELSE outcome
      <4>1. sink => \A u \in Up : upstream[u] = "complete"
        BY <3>2 DEF IsComplete
      <4>2. sink => Len(received) = sent
        BY <3>2, EmptySeq, LenProperties DEF IsComplete, Demand, Types
      <4>3. Active' = {}
        BY <2>1, <3>2 DEF IsComplete
      <4> QED  BY <2>1, <2>3, <3>1, <3>2, <4>1, <4>2, <4>3
    <3>3. \/ UNCHANGED <<outcome, sink, deleted>>
          \/ /\ IsComplete(upstream, items) /\ sink' = FALSE /\ deleted' = (Len(Below) = 0)
             /\ outcome' = IF sink THEN "complete" ELSE outcome
      BY <2>3 DEF DestroyIfComplete, Destroy, Tells, Deletes
    <3> QED  BY <2>2, <3>2, <3>3
  <2> QED  BY <1>8, <2>2, <2>3 DEF Drained, AllAsked
<1>9. CASE UNCHANGED vars
  BY <1>9 DEF vars
<1> QED  BY <1>1, <1>2, <1>3, <1>4, <1>5, <1>6, <1>7, <1>8, <1>9, StepKinds

\* No source owes more than the sink asked for.
LEMMA OwedBound == Types /\ Shares => \A u \in Up : owed[u] <= asked
<1> SUFFICES ASSUME Types, Shares, NEW u \in Up PROVE owed[u] <= asked
  OBVIOUS
<1>1. PICK s : Shared(s)
  BY DEF Shares
<1>2. PICK w : Claims(w, u) /\ s[u] + owed[u] + w[Len(stack)] <= s[u - 1] + asked
  BY <1>1 DEF Shared
<1>3. w[Len(stack)] \in Nat
  BY <1>2, LenProperties DEF Claims, Types
<1>4. s[u - 1] <= s[u] /\ s[u - 1] \in Nat /\ s[u] \in Nat
  BY <1>1, MergeAssumption DEF Shared, Up
<1>5. owed[u] \in Nat /\ asked \in Nat
  BY DEF Types
<1> QED  BY <1>2, <1>3, <1>4, <1>5

\* The length of what is queued and of what was handed on, after each step.
LEMMA Lengths ==
  ASSUME Types
  PROVE  /\ Len(items) \in Nat /\ Len(received) \in Nat /\ (items = <<>> <=> Len(items) = 0)
         /\ \A u \in Up : OnNext(u) => Len(items') = Len(items) + 1
         /\ Drain => Len(items') = Len(items) - 1 /\ Len(items) > 0
         /\ Drain => Len(received') = Len(received) + (IF sink THEN 1 ELSE 0)
<1>1. Len(items) \in Nat /\ Len(received) \in Nat /\ (items = <<>> <=> Len(items) = 0)
  BY EmptySeq, LenProperties DEF Types
<1>2. ASSUME NEW u \in Up, OnNext(u) PROVE Len(items') = Len(items) + 1
  <2>1. sent + 1 \in 1..Items
    BY <1>2, MergeAssumption DEF Types, OnNext
  <2> QED  BY <1>2, <2>1, AppendProperties DEF Types, OnNext, Queued
<1>3. Drain => Len(items') = Len(items) - 1 /\ Len(items) > 0
  BY <1>1, HeadTailProperties DEF Types, Drain, Drains
<1>4. Drain => Len(received') = Len(received) + (IF sink THEN 1 ELSE 0)
  <2>1. Drain => Head(items) \in 1..Items
    BY HeadTailProperties DEF Types, Drain, Drains
  <2>2. Drain => Len(Append(received, Head(items))) = Len(received) + 1
    BY <2>1, AppendProperties DEF Types
  <2> QED  BY <1>1, <2>2 DEF Drain
<1> QED  BY <1>1, <1>2, <1>3, <1>4

\* Every step keeps the account of what was asked for, needed, sent and handed on.
LEMMA DemandStep == Types /\ Shares /\ Outcomes /\ Demand /\ [Next]_vars => Demand'
<1> SUFFICES ASSUME Types, Shares, Outcomes, Demand, [Next]_vars PROVE Demand'
  OBVIOUS
<1> USE MergeAssumption DEF Demand
<1>0. /\ Len(items) \in Nat /\ Len(received) \in Nat /\ asked \in Nat /\ needed \in Nat
      /\ sent \in Nat /\ demand \in {"all", "one"} /\ sink \in BOOLEAN
  BY Lengths DEF Types
<1>1. ASSUME NEW u \in Up, OnNext(u) PROVE Demand'
  <2>1. asked # 0
    <3>1. owed[u] > 0 /\ owed[u] <= asked /\ owed[u] \in Nat
      BY <1>1, OwedBound DEF OnNext, Types
    <3> QED  BY <1>0, <3>1
  <2>2. Len(items') = Len(items) + 1 /\ sent' = sent + 1
        /\ UNCHANGED <<needed, received, asked, sink, demand>>
    BY <1>1, Lengths DEF OnNext
  <2> QED  BY <1>0, <2>1, <2>2
<1>2. ASSUME NEW n \in {1, Infinity}, Request(n) PROVE Demand'
  <2>1. /\ asked' = asked + n /\ needed' = needed + n /\ n \in Nat /\ n > 0
        /\ UNCHANGED <<items, received, sent, sink, demand>>
    BY <1>2 DEF Request
  <2>2. IF demand = "all" THEN n = Infinity /\ asked = 0 ELSE n = 1 /\ asked = Len(received)
    BY <1>2 DEF Request, MayRequest
  <2> QED  BY <1>0, <2>1, <2>2
<1>3. CASE Drain
  <2>1. /\ Len(items') = Len(items) - 1 /\ needed' = needed - 1 /\ stack # <<>>
        /\ Len(received') = Len(received) + (IF sink THEN 1 ELSE 0) /\ Len(items) > 0
        /\ UNCHANGED <<sent, asked, sink, demand>>
    BY <1>3, Lengths DEF Drain
  <2> QED  BY <1>0, <2>1
<1>4. CASE /\ UNCHANGED <<items, needed, received, asked, sent, demand>>
           /\ sink' => sink
           /\ stack = <<>> => stack' = <<>>
  BY <1>0, <1>4
<1>5. \A u \in Up : OnError(u) \/ OnComplete(u) => sink /\ stack' = stack
  BY DEF OnError, OnComplete, SourceMayAct, Outcomes, Active
<1>6. CASE \E u \in Up : OnError(u) \/ OnComplete(u)
  BY <1>4, <1>5, <1>6 DEF OnError, OnComplete
<1>7. CASE Cancel
  BY <1>4, <1>7 DEF Cancel, SinkMayAct
<1>8. CASE SinkReturns \/ Ask \/ SourceReturns
  BY <1>4, <1>8 DEF SinkReturns, Ask, SourceReturns
<1>9. CASE Drained \/ AllAsked
  <2>1. sink' => sink
    BY <1>9, <1>0 DEF Drained, AllAsked, DestroyIfComplete, Destroy
  <2> QED  BY <1>4, <1>9, <2>1 DEF Drained, AllAsked
<1>10. CASE UNCHANGED vars
  BY <1>4, <1>10 DEF vars
<1> QED  BY <1>1, <1>2, <1>3, <1>6, <1>7, <1>8, <1>9, <1>10, StepKinds

\* Queued elements that are needed are handed on before anything else happens.
LEMMA ServedStep == Types /\ Shares /\ Demand /\ Served /\ [Next]_vars => Served'
<1> SUFFICES ASSUME Types, Shares, Demand, Served, [Next]_vars PROVE Served'
  OBVIOUS
<1> USE MergeAssumption DEF Served
<1>0. /\ Len(items) \in Nat /\ Len(received) \in Nat /\ asked \in Nat /\ needed \in Nat
      /\ sent \in 0..Items /\ demand \in {"all", "one"} /\ sink \in BOOLEAN
      /\ (items = <<>> <=> Len(items) = 0)
  BY Lengths DEF Types
<1>00. Top = stack[Len(stack)] /\ Top' = stack'[Len(stack')]
  BY DEF Top
<1>1. ASSUME NEW u \in Up, OnNext(u) PROVE Served'
  <2>1. Entered("on_next", 0) /\ UNCHANGED <<needed, sink, demand>>
    BY <1>1, Entering DEF OnNext
  <2>2. stack' # <<>> /\ Top'.pc = "drain"
    BY <1>00, <2>1 DEF Entered
  <2>3. sink /\ demand = "all" => Len(items') <= 1
    <3>0. Len(items') = Len(items) + 1
      BY <1>1, Lengths
    <3>1. SUFFICES ASSUME sink, demand = "all" PROVE Len(items) = 0
      BY <1>0, <3>0
    <3>2. asked = Infinity
      <4>1. owed[u] > 0 /\ owed[u] <= asked /\ owed[u] \in Nat
        BY <1>1, OwedBound DEF OnNext, Types
      <4> QED  BY <1>0, <3>1, <4>1 DEF Demand
    <3>3. needed > 0
      BY <1>0, <3>1, <3>2 DEF Demand
    <3>4. stack # <<>> => Top.pc = "up"
      BY <1>1 DEF OnNext, SourceMayAct
    <3> QED  BY <1>0, <3>1, <3>3, <3>4
  <2> QED  BY <2>1, <2>2, <2>3
<1>2. ASSUME NEW n \in {1, Infinity}, Request(n) PROVE Served'
  <2>1. Entered("request", n) /\ UNCHANGED <<items, sink, demand>>
    BY <1>2, Entering DEF Request
  <2>2. stack' # <<>> /\ Top'.pc = "drain"
    BY <1>00, <2>1 DEF Entered
  <2> QED  BY <2>1, <2>2
<1>3. CASE Drain
  <2>1. /\ Len(items') = Len(items) - 1 /\ needed' = needed - 1 /\ needed > 0
        /\ UNCHANGED <<sink, demand>>
    BY <1>3, Lengths DEF Drain, Drains
  <2>2. sink => items' = <<>> \/ needed' = 0
    <3>1. SUFFICES ASSUME sink PROVE items' = <<>> \/ needed' = 0
      OBVIOUS
    <3>2. CASE demand = "all"
      <4>1. Len(items') = 0
        BY <1>0, <2>1, <3>1, <3>2, <1>3, Lengths
      <4>2. items' \in Seq(1..Items)
        BY <1>3, HeadTailProperties DEF Drain, Drains, Types
      <4> QED  BY <4>1, <4>2, EmptySeq
    <3>3. CASE demand = "one"
      <4>1. needed <= 1
        BY <1>0, <3>1, <3>3 DEF Demand
      <4> QED  BY <1>0, <2>1, <4>1
    <3> QED  BY <1>0, <3>2, <3>3
  <2> QED  BY <1>0, <2>1, <2>2
<1>4. CASE SinkReturns
  <2>1. UNCHANGED <<items, needed, sink, demand>> /\ Top.pc = "sink" /\ stack # <<>>
    BY <1>4 DEF SinkReturns
  <2> QED  BY <2>1
<1>5. CASE UNCHANGED <<items, needed, sink, demand, stack>>
  BY <1>5, <1>00
<1>6. CASE UNCHANGED <<items, demand>> /\ sink' = FALSE
  BY <1>6
<1>7. CASE /\ UNCHANGED <<items, needed, demand>> /\ stack # <<>> /\ (sink' => sink)
           /\ Top.pc # "drain" \/ needed = 0 \/ items = <<>>
  BY <1>0, <1>7
<1>8. ASSUME NEW u \in Up, OnError(u) \/ OnComplete(u) PROVE Served'
  BY <1>5, <1>6, <1>8 DEF OnError, OnComplete, DestroyIfComplete, Destroy
<1>9. CASE Cancel
  BY <1>6, <1>9 DEF Cancel
<1>10. CASE Drained
  <2>1. needed = 0 \/ items = <<>>
    BY <1>0, <1>10 DEF Drained, Drains
  <2>2. sink' => sink
    BY <1>0, <1>10 DEF Drained, DestroyIfComplete, Destroy
  <2> QED  BY <1>7, <1>10, <2>1, <2>2 DEF Drained
<1>11. CASE Ask \/ SourceReturns
  BY <1>7, <1>11 DEF Ask, SourceReturns
<1>12. CASE AllAsked
  <2>1. sink' => sink
    BY <1>0, <1>12 DEF AllAsked, DestroyIfComplete, Destroy
  <2> QED  BY <1>7, <1>12, <2>1 DEF AllAsked
<1>13. CASE UNCHANGED vars
  BY <1>5, <1>13 DEF vars
<1> QED
  BY <1>1, <1>2, <1>3, <1>4, <1>8, <1>9, <1>10, <1>11, <1>12, <1>13, StepKinds

-----------------------------------------------------------------------------
(* Demand that is not lost.                                                *)

\* The sink never comes back, and no upstream becomes active again.
LEMMA NoReturn ==
  ASSUME Types, Outcomes, [Next]_vars
  PROVE  (sink' => sink) /\ Active' \subseteq Active
<1> USE DEF Types, Active
<1>1. ASSUME NEW u \in Up, OnNext(u) \/ OnError(u) \/ OnComplete(u)
      PROVE  (sink' => sink) /\ Active' \subseteq Active
  <2>1. sink
    BY <1>1 DEF OnNext, OnError, OnComplete, SourceMayAct, Outcomes
  <2>2. \/ upstream' = upstream
        \/ upstream' = [upstream EXCEPT ![u] = "complete"]
        \/ upstream' = [v \in Up |-> IF v = u THEN "error"
                                     ELSE IF upstream[v] = "active" THEN "cancelled" ELSE upstream[v]]
    BY <1>1 DEF OnNext, OnError, OnComplete, Stopped
  <2> QED  BY <2>1, <2>2
<1>2. ASSUME NEW n \in {1, Infinity}, Request(n) PROVE (sink' => sink) /\ Active' \subseteq Active
  BY <1>2 DEF Request
<1>3. CASE Cancel
  BY <1>3 DEF Cancel
<1>4. CASE SinkReturns \/ Drain \/ Ask \/ SourceReturns
  BY <1>4 DEF SinkReturns, Drain, Ask, SourceReturns
<1>5. CASE Drained \/ AllAsked
  BY <1>5 DEF Drained, AllAsked, DestroyIfComplete, Destroy
<1>6. CASE UNCHANGED vars
  BY <1>6 DEF vars
<1> QED  BY <1>1, <1>2, <1>3, <1>4, <1>5, <1>6, StepKinds

\* Whom an activation has still to ask, by where it is.
LEMMA WillAskNext ==
  ASSUME NEW f, NEW g, f.op = g.op, f.u \in Nat, NEW v \in Nat,
         f.pc \in {"drain", "sink", "ask", "up"}
  PROVE  /\ f.pc # "up" /\ g.pc # "up" /\ g.u = f.u => (WillAsk(g, v) <=> WillAsk(f, v))
         /\ f.pc = "ask" /\ g.pc = "up" /\ g.u = f.u
              => (WillAsk(g, v) <=> WillAsk(f, v) /\ v # f.u)
         /\ f.pc = "ask" /\ g.pc = "ask" /\ g.u = f.u + 1
              => (WillAsk(g, v) <=> WillAsk(f, v) /\ v # f.u)
         /\ f.pc = "up" /\ g.pc = "ask" /\ g.u = f.u + 1 => (WillAsk(g, v) <=> WillAsk(f, v))
BY DEF WillAsk

\* The fields of the innermost activation are numbers and places.
LEMMA TopFields ==
  ASSUME Types, stack # <<>>
  PROVE  /\ Top.u \in 1..N + 1 /\ Top.n \in Nat /\ Top.pc \in {"drain", "sink", "ask", "up"}
         /\ Top = stack[Len(stack)] /\ Len(stack) \in Nat \ {0} /\ Len(stack) \in 1..Len(stack)
         /\ 1..Len(stack) = (1..Len(stack) - 1) \cup {Len(stack)}
<1>1. Top \in Frames /\ Len(stack) \in Nat \ {0} /\ Top = stack[Len(stack)]
  BY TopIsFrame DEF Types
<1>2. Len(stack) \in 1..Len(stack) /\ 1..Len(stack) = (1..Len(stack) - 1) \cup {Len(stack)}
  BY <1>1
<1>3. Top.u \in 1..N + 1 /\ Top.n \in Nat /\ Top.pc \in {"drain", "sink", "ask", "up"}
  BY <1>1 DEF Frames
<1> QED  BY <1>1, <1>2, <1>3

\* Every step keeps what is needed within what each source owes, has sent, or is
\* going to be asked for.
LEMMA ReachesStep ==
  Types /\ Nesting /\ Outcomes /\ Demand /\ Served /\ Reaches /\ [Next]_vars => Reaches'
<1> SUFFICES ASSUME Types, Nesting, Outcomes, Demand, Served, Reaches, [Next]_vars,
                    sink', needed' > 0, NEW v \in Active'
             PROVE  \/ owed'[v] + Len(items') >= needed'
                    \/ \E k \in 1..Len(stack') : WillAsk(stack'[k], v) /\ stack'[k].n >= needed'
  BY DEF Reaches
<1> DEFINE Covered == \/ owed[v] + Len(items) >= needed
                      \/ \E k \in 1..Len(stack) : WillAsk(stack[k], v) /\ stack[k].n >= needed
           Goal == \/ owed'[v] + Len(items') >= needed'
                   \/ \E k \in 1..Len(stack') : WillAsk(stack'[k], v) /\ stack'[k].n >= needed'
<1>a. sink /\ v \in Active /\ v \in Up /\ upstream[v] = "active" /\ v \in Nat
  BY NoReturn, MergeAssumption DEF Active, Up
<1>0. /\ sink /\ v \in Active /\ v \in Up /\ upstream[v] = "active" /\ v \in Nat
      /\ Len(items) \in Nat /\ Len(received) \in Nat /\ asked \in Nat /\ needed \in Nat
      /\ owed[v] \in Nat /\ demand \in {"all", "one"} /\ Len(stack) \in Nat
      /\ (items = <<>> <=> Len(items) = 0)
  BY <1>a, Lengths, LenProperties, MergeAssumption DEF Types
<1>00. needed > 0 => Covered
  BY <1>0 DEF Reaches
<1> SUFFICES Goal
  OBVIOUS
<1> HIDE DEF Goal, Covered
<1>1. ASSUME NEW u \in Up, OnNext(u) PROVE Goal
  <2>1. Entered("on_next", 0) /\ needed' = needed /\ Len(items') = Len(items) + 1
        /\ owed' = [owed EXCEPT ![u] = @ - 1]
    BY <1>1, Entering, Lengths DEF OnNext
  <2>2. owed'[v] >= owed[v] - 1 /\ owed'[v] \in Int
    BY <1>0, <2>1 DEF Types
  <2>3. CASE owed[v] + Len(items) >= needed
    BY <1>0, <2>1, <2>2, <2>3 DEF Goal
  <2>4. ASSUME NEW k \in 1..Len(stack), WillAsk(stack[k], v), stack[k].n >= needed PROVE Goal
    <3>1. k \in 1..Len(stack') /\ stack'[k] = stack[k]
      BY <2>1, <1>0 DEF Entered
    <3> QED  BY <2>1, <2>4, <3>1 DEF Goal
  <2> QED  BY <1>00, <2>1, <2>3, <2>4 DEF Covered
<1>2. ASSUME NEW n \in {1, Infinity}, Request(n) PROVE Goal
  <2>1. Entered("request", n) /\ needed' = needed + n /\ MayRequest(n)
    BY <1>2, Entering DEF Request
  <2>2. needed = 0
    BY <1>0, <2>1 DEF MayRequest, Demand
  <2>3. Len(stack') \in 1..Len(stack') /\ stack'[Len(stack')].n = n
        /\ WillAsk(stack'[Len(stack')], v)
    BY <1>0, <2>1 DEF Entered, WillAsk, Up
  <2>4. n \in Nat
    BY MergeAssumption
  <2> QED  BY <2>1, <2>2, <2>3, <2>4 DEF Goal
<1>3. CASE Drain
  <2>1. /\ needed' = needed - 1 /\ Len(items') = Len(items) - 1 /\ owed' = owed /\ stack # <<>>
        /\ TopIs(Top.op, Top.n - (IF Top.n > 0 THEN 1 ELSE 0), "sink", Top.u) /\ items # <<>>
        /\ Top.pc = "drain"
    BY <1>0, <1>3, Activation, Lengths DEF Drain, Drains
  <2>2. demand = "all"
    BY <1>0, <2>1 DEF Demand
  <2>3. Top.op # "request"
    BY <2>1, <2>2, TopFields DEF Nesting
  <2>4. CASE owed[v] + Len(items) >= needed
    BY <1>0, <2>1, <2>4 DEF Goal
  <2>5. ASSUME NEW k \in 1..Len(stack), WillAsk(stack[k], v), stack[k].n >= needed PROVE Goal
    <3>1. k # Len(stack)
      BY <2>1, <2>3, <2>5, TopFields DEF WillAsk
    <3>2. k \in 1..Len(stack') /\ stack'[k] = stack[k]
      BY <1>0, <2>1, <3>1 DEF TopIs
    <3>3. stack[k].n \in Nat
      <4>1. stack[k] \in Frames
        BY <2>5, ElementOfSeq DEF Types
      <4> QED  BY <4>1 DEF Frames
    <3> QED  BY <1>0, <2>1, <2>5, <3>2, <3>3 DEF Goal
  <2>6. Covered
    BY <1>00, <1>0, <2>1
  <2> QED  BY <2>4, <2>5, <2>6 DEF Covered
<1>4. ASSUME NEW pc, NEW u, stack # <<>>, owed' = owed, items' = items, needed' = needed,
             TopIs(Top.op, Top.n, pc, u),
             \/ Top.pc # "up" /\ pc # "up" /\ u = Top.u
             \/ Top.pc = "ask" /\ pc = "ask" /\ u = Top.u + 1 /\ v # Top.u
             \/ Top.pc = "up" /\ pc = "ask" /\ u = Top.u + 1
      PROVE  Goal
  <2>2. CASE owed[v] + Len(items) >= needed
    BY <1>4, <2>2 DEF Goal
  <2>3. ASSUME NEW k \in 1..Len(stack), WillAsk(stack[k], v), stack[k].n >= needed PROVE Goal
    <3>1. Len(stack') = Len(stack)
      BY <1>4 DEF TopIs
    <3>2. CASE k # Len(stack)
      <4>1. stack'[k] = stack[k]
        BY <1>0, <1>4, <3>2 DEF TopIs
      <4> QED  BY <1>4, <2>3, <3>1, <4>1 DEF Goal
    <3>3. CASE k = Len(stack)
      <4> DEFINE g == stack'[Len(stack)]
      <4>1. g.op = Top.op /\ g.n = Top.n /\ g.pc = pc /\ g.u = u
        BY <1>4 DEF TopIs
      <4>2. Top = stack[k] /\ Top.u \in Nat /\ Top.pc \in {"drain", "sink", "ask", "up"}
        BY <1>4, <3>3, TopFields, MergeAssumption
      <4> HIDE DEF g
      <4>3. WillAsk(g, v)
        BY <1>0, <1>4, <2>3, <4>1, <4>2, WillAskNext
      <4> QED  BY <1>4, <2>3, <3>1, <3>3, <4>1, <4>2, <4>3 DEF Goal, g
    <3> QED  BY <3>2, <3>3
  <2> QED  BY <1>00, <1>4, <2>2, <2>3 DEF Covered
<1>5. CASE SinkReturns
  <2>1. TopIs(Top.op, Top.n, "drain", Top.u) /\ Top.pc = "sink"
    BY <1>5, Activation DEF SinkReturns
  <2>2. stack # <<>> /\ owed' = owed /\ items' = items /\ needed' = needed
    BY <1>5 DEF SinkReturns
  <2> QED  BY <1>4, <2>1, <2>2
<1>6. ASSUME Returned, owed' = owed, items' = items, needed' = needed,
             WillAsk(Top, v) => Top.n = 0
      PROVE  Goal
  <2>1. CASE owed[v] + Len(items) >= needed
    BY <1>6, <2>1 DEF Goal
  <2>2. ASSUME NEW k \in 1..Len(stack), WillAsk(stack[k], v), stack[k].n >= needed PROVE Goal
    <3>1. k # Len(stack)
      BY <1>0, <1>6, <2>2, TopFields DEF Returned
    <3>2. k \in 1..Len(stack') /\ stack'[k] = stack[k]
      BY <1>0, <1>6, <3>1 DEF Returned
    <3> QED  BY <1>6, <2>2, <3>2 DEF Goal
  <2> QED  BY <1>00, <1>6, <2>1, <2>2 DEF Covered
<1>7. CASE Drained
  <2>1. owed' = owed /\ items' = items /\ needed' = needed /\ Top.pc = "drain" /\ stack # <<>>
    BY <1>7 DEF Drained
  <2>2. CASE Top.op = "request" /\ Top.n > 0
    <3>1. TopIs(Top.op, Top.n, "ask", Top.u)
      BY <1>7, <2>2, Activation
    <3> QED  BY <1>4, <2>1, <3>1
  <2>3. CASE ~(Top.op = "request" /\ Top.n > 0)
    <3>1. Returned
      BY <1>7, <2>3, Activation
    <3>2. WillAsk(Top, v) => Top.n = 0
      BY <2>1, <2>3, TopFields DEF WillAsk
    <3> QED  BY <1>6, <2>1, <3>1, <3>2
  <2> QED  BY <2>2, <2>3
<1>8. CASE Ask
  <2>1. items' = items /\ needed' = needed /\ Top.pc = "ask" /\ stack # <<>> /\ Top.u \in Up
    BY <1>8 DEF Ask
  <2>2. CASE AsksToo(Top.u)
    <3>1. TopIs(Top.op, Top.n, "up", Top.u) /\ owed' = [owed EXCEPT ![Top.u] = @ + Top.n]
      BY <1>8, <2>2, Activation DEF Ask
    <3>2. Top.n \in Nat /\ Top.u \in Nat /\ owed[Top.u] \in Nat
      BY <2>1, TopFields, MergeAssumption DEF Types
    <3>3. owed'[v] >= owed[v] /\ owed'[v] \in Nat /\ (v = Top.u => owed'[v] >= Top.n)
      BY <1>0, <3>1, <3>2 DEF Types
    <3>4. CASE owed[v] + Len(items) >= needed
      BY <1>0, <2>1, <3>3, <3>4 DEF Goal
    <3>5. ASSUME NEW k \in 1..Len(stack), WillAsk(stack[k], v), stack[k].n >= needed PROVE Goal
      <4>1. Len(stack') = Len(stack)
        BY <3>1 DEF TopIs
      <4>2. CASE k # Len(stack)
        <5>1. stack'[k] = stack[k]
          BY <1>0, <3>1, <4>2 DEF TopIs
        <5> QED  BY <2>1, <3>5, <4>1, <5>1 DEF Goal
      <4>3. CASE k = Len(stack) /\ v = Top.u
        <5>1. Top.n >= needed
          BY <2>1, <3>5, <4>3, TopFields
        <5> QED  BY <1>0, <2>1, <3>2, <3>3, <4>3, <5>1 DEF Goal
      <4>4. CASE k = Len(stack) /\ v # Top.u
        <5> DEFINE g == stack'[Len(stack)]
        <5>1. g.op = Top.op /\ g.n = Top.n /\ g.pc = "up" /\ g.u = Top.u
          BY <3>1 DEF TopIs
        <5>2. Top = stack[k] /\ Top.pc \in {"drain", "sink", "ask", "up"}
          BY <2>1, <4>4, TopFields
        <5> HIDE DEF g
        <5>3. WillAsk(g, v)
          BY <1>0, <2>1, <3>2, <3>5, <4>4, <5>1, <5>2, WillAskNext
        <5> QED  BY <2>1, <3>5, <4>1, <4>4, <5>1, <5>2, <5>3 DEF Goal, g
      <4> QED  BY <4>2, <4>3, <4>4
    <3> QED  BY <1>00, <2>1, <3>4, <3>5 DEF Covered
  <2>3. CASE ~AsksToo(Top.u)
    <3>1. TopIs(Top.op, Top.n, "ask", Top.u + 1) /\ owed' = owed
      BY <1>8, <2>3, Activation DEF Ask
    <3>2. v # Top.u
      BY <1>0, <2>3 DEF AsksToo
    <3> QED  BY <1>4, <2>1, <3>1, <3>2
  <2> QED  BY <2>2, <2>3
<1>9. CASE SourceReturns
  <2>1. TopIs(Top.op, Top.n, "ask", Top.u + 1) /\ Top.pc = "up" /\ stack # <<>>
        /\ owed' = owed /\ items' = items /\ needed' = needed
    BY <1>9, Activation DEF SourceReturns
  <2> QED  BY <1>4, <2>1
<1>10. CASE AllAsked
  <2>1. Returned /\ owed' = owed /\ items' = items /\ needed' = needed
    BY <1>10, Activation DEF AllAsked
  <2>2. ~WillAsk(Top, v)
    <3>1. Top.pc = "ask" /\ Top.u > N /\ stack # <<>> /\ v <= N
      BY <1>0, <1>10, MergeAssumption DEF AllAsked, Up
    <3>2. Top.u \in Nat
      BY <3>1, TopFields, MergeAssumption
    <3> QED  BY <1>0, <3>1, <3>2, MergeAssumption DEF WillAsk
  <2> QED  BY <1>6, <2>1, <2>2
<1>11. CASE UNCHANGED <<owed, items, needed, stack>>
  BY <1>00, <1>11 DEF Goal, Covered
<1>12. ASSUME NEW u \in Up, OnError(u) \/ OnComplete(u) PROVE Goal
  BY <1>11, <1>12 DEF OnError, OnComplete
<1>13. CASE Cancel \/ UNCHANGED vars
  BY <1>11, <1>13 DEF Cancel, vars
<1> QED
  BY <1>1, <1>2, <1>3, <1>5, <1>7, <1>8, <1>9, <1>10, <1>12, <1>13, StepKinds

-----------------------------------------------------------------------------
(* Demand that is bounded.                                                 *)

\* Claims on a source after a call is entered: request adds what it will ask for.
LEMMA ClaimsEntered ==
  ASSUME Types, NEW v \in Up, NEW op, NEW n \in Nat, Entered(op, n), NEW w, Claims(w, v)
  PROVE  \E x : Claims(x, v)' /\ x[Len(stack')] = w[Len(stack)] + (IF op = "request" THEN n ELSE 0)
<1> DEFINE d == IF op = "request" THEN n ELSE 0
           m == Len(stack)
<1>0. PICK x : x = [k \in 0..m + 1 |-> IF k = m + 1 THEN w[m] + d ELSE w[k]]
  OBVIOUS
<1>1. m \in Nat /\ Len(stack') = m + 1 /\ d \in Nat /\ v \in Nat /\ v >= 1
  BY MergeAssumption DEF Entered, Up
<1>2. w \in [0..m -> Nat]
  BY DEF Claims
<1>3. x \in [0..m + 1 -> Nat] /\ x[m + 1] = w[m] + d /\ \A k \in 0..m : x[k] = w[k]
  BY <1>0, <1>1, <1>2
<1>4. ASSUME NEW k \in 1..m + 1
      PROVE  x[k] >= x[k - 1] + (IF WillAsk(stack'[k], v) THEN stack'[k].n ELSE 0)
  <2>1. CASE k \in 1..m
    <3>1. stack'[k] = stack[k]
      BY <2>1 DEF Entered
    <3>2. x[k] = w[k] /\ x[k - 1] = w[k - 1]
      BY <1>1, <1>3, <2>1
    <3>3. w[k] >= w[k - 1] + (IF WillAsk(stack[k], v) THEN stack[k].n ELSE 0)
      BY <2>1 DEF Claims
    <3> QED  BY <3>1, <3>2, <3>3
  <2>2. CASE k = m + 1
    <3>1. (IF WillAsk(stack'[k], v) THEN stack'[k].n ELSE 0) = d
      BY <1>1, <2>2 DEF Entered, WillAsk
    <3>2. x[k] = w[m] + d /\ x[k - 1] = w[m] /\ w[m] \in Nat
      BY <1>1, <1>2, <1>3, <2>2
    <3> QED  BY <1>1, <3>1, <3>2
  <2> QED  BY <1>1, <2>1, <2>2
<1> HIDE DEF d, m
<1>5. Claims(x, v)'
  BY <1>1, <1>3, <1>4 DEF Claims
<1> QED  BY <1>1, <1>3, <1>5 DEF d, m

\* ... and after the innermost activation moved on: what it asked for now is no
\* longer claimed.
LEMMA ClaimsTop ==
  ASSUME Types, NEW v \in Up, NEW op, NEW n \in Nat, NEW pc, NEW u, TopIs(op, n, pc, u),
         NEW w, Claims(w, v), NEW d \in Nat,
         WillAsk(stack'[Len(stack)], v) => WillAsk(Top, v) /\ n <= Top.n /\ d = 0,
         d # 0 => WillAsk(Top, v) /\ d = Top.n
  PROVE  \E x : Claims(x, v)' /\ x[Len(stack')] + d <= w[Len(stack)]
<1> DEFINE m == Len(stack)
<1>0. PICK x : x = [w EXCEPT ![m] = @ - d]
  OBVIOUS
<1>1. m \in Nat \ {0} /\ Len(stack') = m /\ stack # <<>> /\ stack'[m].n = n
  BY DEF TopIs
<1>2. w \in [0..m -> Nat] /\ m \in 1..m /\ m - 1 \in 0..m
  BY <1>1 DEF Claims
<1>3. Top = stack[m] /\ Top.n \in Nat
  BY <1>1, TopFields
<1>4. w[m] >= w[m - 1] + (IF WillAsk(Top, v) THEN Top.n ELSE 0) /\ w[m - 1] \in Nat /\ w[m] \in Nat
  BY <1>2, <1>3 DEF Claims
<1>5. w[m] - d \in Nat /\ w[m] - d >= w[m - 1]
  BY <1>3, <1>4
<1>6. x \in [0..m -> Nat] /\ x[m] = w[m] - d /\ \A k \in 0..m - 1 : x[k] = w[k]
  BY <1>0, <1>1, <1>2, <1>5
<1>7. ASSUME NEW k \in 1..m
      PROVE  x[k] >= x[k - 1] + (IF WillAsk(stack'[k], v) THEN stack'[k].n ELSE 0)
  <2>1. CASE k # m
    <3>1. stack'[k] = stack[k]
      BY <1>1, <2>1 DEF TopIs
    <3>2. x[k] = w[k] /\ x[k - 1] = w[k - 1]
      BY <1>1, <1>6, <2>1
    <3>3. w[k] >= w[k - 1] + (IF WillAsk(stack[k], v) THEN stack[k].n ELSE 0)
      BY DEF Claims
    <3> QED  BY <3>1, <3>2, <3>3
  <2>2. CASE k = m
    <3>1. x[k] = w[m] - d /\ x[k - 1] = w[m - 1]
      BY <1>1, <1>6, <2>2
    <3>2. CASE WillAsk(stack'[m], v)
      BY <1>1, <1>3, <1>4, <2>2, <3>1, <3>2
    <3>3. CASE ~WillAsk(stack'[m], v)
      BY <1>4, <1>5, <2>2, <3>1, <3>3
    <3> QED  BY <3>2, <3>3
  <2> QED  BY <2>1, <2>2
<1> HIDE DEF m
<1>8. Claims(x, v)'
  BY <1>1, <1>6, <1>7 DEF Claims
<1>9. x[m] + d <= w[m]
  BY <1>4, <1>6
<1> QED  BY <1>1, <1>8, <1>9 DEF m

\* ... and after a call returned.
LEMMA ClaimsReturned ==
  ASSUME Types, NEW v \in Up, Returned, NEW w, Claims(w, v)
  PROVE  \E x : Claims(x, v)' /\ x[Len(stack')] <= w[Len(stack)]
<1> DEFINE m == Len(stack)
<1>0. PICK x : x = [k \in 0..m - 1 |-> w[k]]
  OBVIOUS
<1>1. m \in Nat \ {0} /\ Len(stack') = m - 1 /\ stack # <<>>
  BY DEF Returned
<1>2. w \in [0..m -> Nat] /\ m \in 1..m
  BY <1>1 DEF Claims
<1>3. Top = stack[m] /\ Top.n \in Nat
  BY <1>1, TopFields
<1>4. w[m] >= w[m - 1] + (IF WillAsk(Top, v) THEN Top.n ELSE 0) /\ w[m - 1] \in Nat /\ w[m] \in Nat
  BY <1>1, <1>2, <1>3 DEF Claims
<1>5. x \in [0..m - 1 -> Nat] /\ \A k \in 0..m - 1 : x[k] = w[k]
  BY <1>0, <1>1, <1>2
<1>6. ASSUME NEW k \in 1..m - 1
      PROVE  x[k] >= x[k - 1] + (IF WillAsk(stack'[k], v) THEN stack'[k].n ELSE 0)
  <2>1. stack'[k] = stack[k]
    BY <1>1 DEF Returned
  <2>2. x[k] = w[k] /\ x[k - 1] = w[k - 1]
    BY <1>1, <1>5
  <2>3. w[k] >= w[k - 1] + (IF WillAsk(stack[k], v) THEN stack[k].n ELSE 0)
    BY <1>1 DEF Claims
  <2> QED  BY <2>1, <2>2, <2>3
<1>8. x[m - 1] <= w[m]
  BY <1>1, <1>3, <1>4, <1>5
<1> HIDE DEF m
<1>7. Claims(x, v)'
  BY <1>1, <1>5, <1>6 DEF Claims
<1> QED  BY <1>1, <1>7, <1>8 DEF m

\* Every step keeps what each source owes, has sent and will be asked for within
\* what the sink asked for.
LEMMA SharesStep == Types /\ Nesting /\ Shares /\ [Next]_vars => Shares'
<1> SUFFICES ASSUME Types, Nesting, Shares, [Next]_vars PROVE Shares'
  OBVIOUS
<1> USE MergeAssumption
<1>0. PICK s : Shared(s)
  BY DEF Shares
<1>a. /\ s \in [0..N -> Nat] /\ s[0] = 0 /\ s[N] = sent /\ asked \in Nat /\ sent \in Nat
      /\ \A v \in Up : v \in 1..N /\ s[v - 1] <= s[v] /\ owed[v] \in Nat
      /\ \A w, v : Claims(w, v) => w[Len(stack)] \in Nat
  <2>1. Len(stack) \in Nat
    BY LenProperties DEF Types
  <2>2. \A w, v : Claims(w, v) => w[Len(stack)] \in Nat
    BY <2>1 DEF Claims
  <2>3. s \in [0..N -> Nat] /\ s[0] = 0 /\ s[N] = sent /\ \A v \in Up : s[v - 1] <= s[v]
    BY <1>0 DEF Shared
  <2>4. asked \in Nat /\ sent \in Nat /\ \A v \in Up : v \in 1..N /\ owed[v] \in Nat
    BY DEF Types, Up
  <2> QED  BY <2>2, <2>3, <2>4
<1>b. ASSUME NEW v \in Up
      PROVE  \E w : Claims(w, v) /\ s[v] + owed[v] + w[Len(stack)] <= s[v - 1] + asked
  BY <1>0 DEF Shared
<1>1. ASSUME NEW u \in Up, OnNext(u) PROVE Shares'
  <2>1. Entered("on_next", 0) /\ sent' = sent + 1 /\ asked' = asked /\ owed[u] > 0
        /\ owed' = [owed EXCEPT ![u] = @ - 1]
    BY <1>1, Entering DEF OnNext
  <2>2. PICK t : t = [k \in 0..N |-> IF k >= u THEN s[k] + 1 ELSE s[k]]
    OBVIOUS
  <2>3. t \in [0..N -> Nat] /\ t[0] = 0 /\ t[N] = sent'
    BY <1>a, <2>1, <2>2
  <2>4. ASSUME NEW v \in Up
        PROVE  t[v - 1] <= t[v] /\ t[v] + owed'[v] + s[v - 1] <= s[v] + owed[v] + t[v - 1]
               /\ t[v] \in Nat /\ t[v - 1] \in Nat /\ owed'[v] \in Nat
    <3>1. v \in 1..N /\ v - 1 \in 0..N /\ s[v] \in Nat /\ s[v - 1] \in Nat /\ u \in 1..N
      BY <1>a
    <3>0. owed[v] \in Nat /\ owed[u] \in Nat /\ s[v - 1] <= s[v]
      BY <1>a
    <3>2. CASE v = u
      <4>1. t[v] = s[v] + 1 /\ t[v - 1] = s[v - 1] /\ owed'[v] = owed[v] - 1
        BY <2>1, <2>2, <3>1, <3>2 DEF Types
      <4> QED  BY <2>1, <3>0, <3>1, <3>2, <4>1
    <3>3. CASE v < u
      <4>1. t[v] = s[v] /\ t[v - 1] = s[v - 1] /\ owed'[v] = owed[v]
        BY <2>1, <2>2, <3>1, <3>3 DEF Types
      <4> QED  BY <3>0, <3>1, <4>1
    <3>4. CASE v > u
      <4>1. t[v] = s[v] + 1 /\ t[v - 1] = s[v - 1] + 1 /\ owed'[v] = owed[v]
        BY <2>1, <2>2, <3>1, <3>4 DEF Types
      <4> QED  BY <3>0, <3>1, <4>1
    <3> QED  BY <3>1, <3>2, <3>3, <3>4
  <2>5. ASSUME NEW v \in Up
        PROVE  \E x : Claims(x, v)' /\ t[v] + owed'[v] + x[Len(stack')] <= t[v - 1] + asked'
    <3>1. PICK w : Claims(w, v) /\ s[v] + owed[v] + w[Len(stack)] <= s[v - 1] + asked
      BY <1>b
    <3>2. PICK x : Claims(x, v)' /\ x[Len(stack')] = w[Len(stack)] + 0
      BY <2>1, <3>1, ClaimsEntered
    <3>3. PICK m : m = Len(stack)
      OBVIOUS
    <3>4. /\ w[m] \in Nat /\ s[v] \in Nat /\ s[v - 1] \in Nat /\ owed[v] \in Nat /\ asked \in Nat
          /\ s[v] + owed[v] + w[m] <= s[v - 1] + asked
      BY <1>a, <3>1, <3>3
    <3>5. t[v] + owed'[v] + s[v - 1] <= s[v] + owed[v] + t[v - 1]
          /\ t[v] \in Nat /\ t[v - 1] \in Nat /\ owed'[v] \in Nat
      BY <2>4
    <3>6. t[v] + owed'[v] + w[m] <= t[v - 1] + asked
      BY <3>4, <3>5
    <3>7. x[Len(stack')] = w[m] /\ asked' = asked
      BY <2>1, <3>2, <3>3, <3>4
    <3> QED  BY <3>2, <3>6, <3>7
  <2>6. Shared(t)'
    BY <2>3, <2>4, <2>5 DEF Shared
  <2> QED  BY <2>6 DEF Shares
<1>2. ASSUME sent' = sent,
             \A v \in Up : \A w : Claims(w, v) =>
               \E x : /\ Claims(x, v)'
                      /\ owed'[v] + x[Len(stack')] + asked <= owed[v] + w[Len(stack)] + asked'
                      /\ x[Len(stack')] \in Nat,
             owed' \in [Up -> Nat], asked' \in Nat
      PROVE  Shares'
  <2>1. ASSUME NEW v \in Up
        PROVE  \E x : Claims(x, v)' /\ s[v] + owed'[v] + x[Len(stack')] <= s[v - 1] + asked'
    <3>1. PICK w : Claims(w, v) /\ s[v] + owed[v] + w[Len(stack)] <= s[v - 1] + asked
      BY <1>b
    <3>2. PICK x : /\ Claims(x, v)'
                   /\ owed'[v] + x[Len(stack')] + asked <= owed[v] + w[Len(stack)] + asked'
                   /\ x[Len(stack')] \in Nat
      BY <1>2, <3>1
    <3>3. /\ w[Len(stack)] \in Nat /\ s[v] \in Nat /\ s[v - 1] \in Nat /\ owed'[v] \in Nat
          /\ owed[v] \in Nat /\ asked \in Nat /\ asked' \in Nat
      <4>1. s[v] \in Nat /\ s[v - 1] \in Nat  BY <1>a
      <4>2. owed'[v] \in Nat /\ asked' \in Nat  BY <1>2
      <4>3. w[Len(stack)] \in Nat /\ owed[v] \in Nat /\ asked \in Nat  BY <1>a, <3>1
      <4> QED  BY <4>1, <4>2, <4>3
    <3>4. s[v] + owed'[v] + x[Len(stack')] <= s[v - 1] + asked'
      <4>1. \A a, b, c, d, e, f, g, h \in Nat :
              a + b + c <= d + e /\ f + g + e <= b + c + h => a + f + g <= d + h
        OBVIOUS
      <4> QED  BY <3>1, <3>2, <3>3, <4>1, Zenon
    <3> QED  BY <3>2, <3>4
  <2>2. Shared(s)'
    BY <1>a, <1>2, <2>1 DEF Shared
  <2> QED  BY <2>2 DEF Shares
<1>3. ASSUME NEW x, NEW v, Claims(x, v)' PROVE x[Len(stack')] \in Nat
  <2>1. Len(stack') \in Nat
    BY StackStep, LenProperties
  <2> QED  BY <1>3, <2>1 DEF Claims
<1>4. owed' \in [Up -> Nat] /\ asked' \in Nat
  BY TypesStep DEF Types
<1>5. ASSUME NEW n \in {1, Infinity}, Request(n) PROVE Shares'
  <2>1. Entered("request", n) /\ sent' = sent /\ asked' = asked + n /\ owed' = owed /\ n \in Nat
    BY <1>5, Entering DEF Request
  <2>2. ASSUME NEW v \in Up, NEW w, Claims(w, v)
        PROVE  \E x : /\ Claims(x, v)'
                      /\ owed'[v] + x[Len(stack')] + asked <= owed[v] + w[Len(stack)] + asked'
                      /\ x[Len(stack')] \in Nat
    <3>1. PICK x : Claims(x, v)' /\ x[Len(stack')] = w[Len(stack)] + n
      BY <2>1, <2>2, ClaimsEntered
    <3>2. w[Len(stack)] \in Nat /\ owed[v] \in Nat /\ asked \in Nat
      BY <1>a, <2>2
    <3>3. owed'[v] + x[Len(stack')] + asked <= owed[v] + w[Len(stack)] + asked'
      BY <2>1, <3>1, <3>2
    <3> QED  BY <1>3, <3>1, <3>3
  <2> QED  BY <1>2, <1>4, <2>1, <2>2
<1>6. ASSUME NEW op, NEW n \in Nat, NEW pc, NEW u, TopIs(op, n, pc, u), n <= Top.n,
             sent' = sent, asked' = asked, owed' = owed,
             \A v \in Up : WillAsk(stack'[Len(stack)], v) => WillAsk(Top, v)
      PROVE  Shares'
  <2>1. ASSUME NEW v \in Up, NEW w, Claims(w, v)
        PROVE  \E x : /\ Claims(x, v)'
                      /\ owed'[v] + x[Len(stack')] + asked <= owed[v] + w[Len(stack)] + asked'
                      /\ x[Len(stack')] \in Nat
    <3>1. PICK x : Claims(x, v)' /\ x[Len(stack')] + 0 <= w[Len(stack)]
      BY <1>6, <2>1, ClaimsTop
    <3>2. w[Len(stack)] \in Nat /\ owed[v] \in Nat /\ asked \in Nat
      BY <1>a, <2>1
    <3>3. x[Len(stack')] \in Nat /\ x[Len(stack')] <= w[Len(stack)]
      BY <1>3, <3>1, <3>2
    <3> QED  BY <1>6, <3>1, <3>2, <3>3
  <2> QED  BY <1>2, <1>4, <1>6, <2>1
<1>7. ASSUME Returned, sent' = sent, asked' = asked, owed' = owed PROVE Shares'
  <2>1. ASSUME NEW v \in Up, NEW w, Claims(w, v)
        PROVE  \E x : /\ Claims(x, v)'
                      /\ owed'[v] + x[Len(stack')] + asked <= owed[v] + w[Len(stack)] + asked'
                      /\ x[Len(stack')] \in Nat
    <3>1. PICK x : Claims(x, v)' /\ x[Len(stack')] <= w[Len(stack)]
      BY <1>7, <2>1, ClaimsReturned
    <3>2. w[Len(stack)] \in Nat /\ owed[v] \in Nat /\ asked \in Nat
      BY <1>a, <2>1
    <3>3. x[Len(stack')] \in Nat /\ x[Len(stack')] <= w[Len(stack)]
      BY <1>3, <3>1, <3>2
    <3> QED  BY <1>7, <3>1, <3>2, <3>3
  <2> QED  BY <1>2, <1>4, <1>7, <2>1
<1>8. ASSUME UNCHANGED <<stack, sent, asked, owed>> PROVE Shares'
  BY <1>8 DEF Shares, Shared, Claims
<1>9. CASE SinkReturns
  <2>1. TopIs(Top.op, Top.n, "drain", Top.u) /\ Top.pc = "sink" /\ stack # <<>>
        /\ UNCHANGED <<sent, asked, owed>>
    BY <1>9, Activation DEF SinkReturns
  <2>2. \A v \in Up : WillAsk(stack'[Len(stack)], v) => WillAsk(Top, v)
    BY <2>1 DEF TopIs, WillAsk
  <2> QED  BY <1>6, <2>1, <2>2, TopFields
<1>10. CASE Drain
  <2>1. /\ TopIs(Top.op, Top.n - (IF Top.n > 0 THEN 1 ELSE 0), IF sink THEN "sink" ELSE "drain", Top.u)
        /\ Top.pc = "drain" /\ stack # <<>> /\ UNCHANGED <<sent, asked, owed>>
    BY <1>10, Activation DEF Drain
  <2>2. \A v \in Up : WillAsk(stack'[Len(stack)], v) => WillAsk(Top, v)
    BY <2>1 DEF TopIs, WillAsk
  <2>3. Top.n - (IF Top.n > 0 THEN 1 ELSE 0) \in Nat
        /\ Top.n - (IF Top.n > 0 THEN 1 ELSE 0) <= Top.n
    BY <2>1, TopFields
  <2> QED  BY <1>6, <2>1, <2>2, <2>3
<1>11. CASE Drained
  <2>1. Top.pc = "drain" /\ stack # <<>> /\ UNCHANGED <<sent, asked, owed>>
    BY <1>11 DEF Drained
  <2>2. CASE TopIs(Top.op, Top.n, "ask", Top.u)
    <3>1. \A v \in Up : WillAsk(stack'[Len(stack)], v) => WillAsk(Top, v)
      BY <2>1, <2>2 DEF TopIs, WillAsk
    <3> QED  BY <1>6, <2>1, <2>2, <3>1, TopFields
  <2>3. CASE Returned
    BY <1>7, <2>1, <2>3
  <2> QED  BY <1>11, <2>2, <2>3, Activation
<1>12. CASE Ask
  <2>1. Top.pc = "ask" /\ stack # <<>> /\ Top.u \in Up /\ UNCHANGED <<sent, asked>>
    BY <1>12 DEF Ask
  <2>0. Top.n \in Nat /\ Top.u \in Nat
    BY <2>1, TopFields
  <2>2. CASE ~AsksToo(Top.u)
    <3>1. TopIs(Top.op, Top.n, "ask", Top.u + 1) /\ owed' = owed
      BY <1>12, <2>2, Activation DEF Ask
    <3>2. \A v \in Up : WillAsk(stack'[Len(stack)], v) => WillAsk(Top, v)
      BY <2>0, <2>1, <3>1 DEF TopIs, WillAsk, Up
    <3> QED  BY <1>6, <2>0, <2>1, <3>1, <3>2
  <2>3. CASE AsksToo(Top.u)
    <3>1. TopIs(Top.op, Top.n, "up", Top.u) /\ owed' = [owed EXCEPT ![Top.u] = @ + Top.n]
      BY <1>12, <2>3, Activation DEF Ask
    <3>2. Top.op = "request"
      BY <2>1, TopFields DEF Nesting
    <3>3. ASSUME NEW v \in Up, NEW w, Claims(w, v)
          PROVE  \E x : /\ Claims(x, v)'
                        /\ owed'[v] + x[Len(stack')] + asked <= owed[v] + w[Len(stack)] + asked'
                        /\ x[Len(stack')] \in Nat
      <4>1. stack'[Len(stack)].op = Top.op /\ stack'[Len(stack)].pc = "up"
            /\ stack'[Len(stack)].u = Top.u
        BY <3>1 DEF TopIs
      <4>2. CASE v = Top.u
        <5>1. WillAsk(Top, v) /\ ~WillAsk(stack'[Len(stack)], v)
          BY <2>0, <2>1, <3>2, <4>1, <4>2 DEF WillAsk
        <5>2. PICK x : Claims(x, v)' /\ x[Len(stack')] + Top.n <= w[Len(stack)]
          BY <2>0, <3>1, <3>3, <5>1, ClaimsTop
        <5>3. owed'[v] = owed[v] + Top.n
          BY <3>1, <4>2 DEF Types
        <5>4. x[Len(stack')] \in Nat
          BY <1>3, <5>2
        <5>5. w[Len(stack)] \in Nat /\ owed[v] \in Nat /\ asked \in Nat /\ asked' = asked
          BY <1>a, <2>1, <3>3
        <5>6. \A a, b, c, d, e \in Nat : a + e <= b => (c + e) + a + d <= c + b + d
          OBVIOUS
        <5>7. owed'[v] + x[Len(stack')] + asked <= owed[v] + w[Len(stack)] + asked'
          BY <2>0, <5>2, <5>3, <5>4, <5>5, <5>6, Zenon
        <5> QED  BY <5>2, <5>4, <5>7
      <4>3. CASE v # Top.u
        <5>1. WillAsk(stack'[Len(stack)], v) => WillAsk(Top, v)
          BY <1>a, <2>0, <2>1, <4>1, <4>3 DEF WillAsk
        <5>2. PICK x : Claims(x, v)' /\ x[Len(stack')] + 0 <= w[Len(stack)]
          BY <2>0, <3>1, <3>3, <5>1, ClaimsTop
        <5>3. owed'[v] = owed[v]
          BY <3>1, <4>3 DEF Types
        <5>4. w[Len(stack)] \in Nat /\ owed[v] \in Nat /\ asked \in Nat /\ asked' = asked
          BY <1>a, <2>1, <3>3
        <5>5. x[Len(stack')] \in Nat /\ x[Len(stack')] <= w[Len(stack)]
          BY <1>3, <5>2, <5>4
        <5> QED  BY <5>2, <5>3, <5>4, <5>5
      <4> QED  BY <4>2, <4>3
    <3> QED  BY <1>2, <1>4, <2>1, <3>3
  <2> QED  BY <2>2, <2>3
<1>13. CASE SourceReturns
  <2>1. TopIs(Top.op, Top.n, "ask", Top.u + 1) /\ Top.pc = "up" /\ stack # <<>>
        /\ UNCHANGED <<sent, asked, owed>>
    BY <1>13, Activation DEF SourceReturns
  <2>2. Top.n \in Nat /\ Top.u \in Nat
    BY <2>1, TopFields
  <2>3. \A v \in Up : WillAsk(stack'[Len(stack)], v) => WillAsk(Top, v)
    BY <2>1, <2>2 DEF TopIs, WillAsk, Up
  <2> QED  BY <1>6, <2>1, <2>2, <2>3
<1>14. CASE AllAsked
  BY <1>7, <1>14, Activation DEF AllAsked
<1>15. ASSUME NEW u \in Up, OnError(u) \/ OnComplete(u) PROVE Shares'
  BY <1>8, <1>15 DEF OnError, OnComplete
<1>16. CASE Cancel \/ UNCHANGED vars
  BY <1>8, <1>16 DEF Cancel, vars
<1> QED
  BY <1>1, <1>5, <1>9, <1>10, <1>11, <1>12, <1>13, <1>14, <1>15, <1>16, StepKinds

\* All sources together have sent no more than the sink asked for, once for each.
LEMMA SentBound == Types /\ Shares => sent <= N * asked
<1> SUFFICES ASSUME Types, Shares PROVE sent <= N * asked
  OBVIOUS
<1> USE MergeAssumption
<1>0. PICK s : Shared(s)
  BY DEF Shares
<1>1. s \in [0..N -> Nat] /\ s[0] = 0 /\ s[N] = sent /\ asked \in Nat /\ N \in Nat
  BY <1>0 DEF Shared, Types
<1>2. ASSUME NEW v \in 1..N PROVE s[v] <= s[v - 1] + asked
  <2>1. v \in Up
    BY DEF Up
  <2>2. PICK w : Claims(w, v) /\ s[v] + owed[v] + w[Len(stack)] <= s[v - 1] + asked
    BY <1>0, <2>1 DEF Shared
  <2>3. w[Len(stack)] \in Nat
    BY <2>2, LenProperties DEF Claims, Types
  <2>4. owed[v] \in Nat /\ s[v] \in Nat /\ s[v - 1] \in Nat
    BY <1>1, <2>1 DEF Types
  <2> QED  BY <1>1, <2>2, <2>3, <2>4, SMTT(60)
<1> DEFINE T == {k \in 0..N : ~(s[k] <= k * asked)}
<1>3. CASE T = {}
  <2>1. N \notin T /\ N \in 0..N
    BY <1>1, <1>3
  <2> QED  BY <1>1, <2>1
<1>4. CASE T # {}
  <2>1. T \in SUBSET Nat
    BY <1>1
  <2>2. PICK k \in T : \A y \in T : k <= y
    BY <1>4, <2>1, LeastNumber
  <2> HIDE DEF T
  <2>3. k \in 0..N /\ ~(s[k] <= k * asked)
    BY <2>2 DEF T
  <2>4. k # 0
    BY <1>1, <2>3
  <2>5. k - 1 \in 0..N /\ k - 1 \notin T /\ k \in 1..N
    BY <1>1, <2>2, <2>3, <2>4
  <2>6. s[k - 1] <= (k - 1) * asked /\ s[k] <= s[k - 1] + asked
    BY <1>2, <2>5 DEF T
  <2>7. (k - 1) * asked + asked = k * asked
    BY <1>1, <2>5
  <2>8. s[k] \in Nat /\ s[k - 1] \in Nat /\ k * asked \in Int /\ (k - 1) * asked \in Int
    BY <1>1, <2>5
  <2> QED  BY <1>1, <2>3, <2>6, <2>7, <2>8
<1> QED  BY <1>3, <1>4

\* What is queued never exceeds what the sources were asked for besides, and what is
\* about to be handed on.
LEMMA BoundedStep ==
  Types /\ Outcomes /\ Demand /\ BoundedQueue /\ [Next]_vars /\ (Types /\ Demand /\ Shares)'
    => BoundedQueue'
<1> SUFFICES ASSUME Types, Outcomes, Demand, BoundedQueue, [Next]_vars, Types', Demand', Shares'
             PROVE  BoundedQueue'
  OBVIOUS
<1> USE MergeAssumption
<1>0. /\ Len(items) \in Nat /\ Len(items') \in Nat /\ Len(received') \in Nat
      /\ asked \in Nat /\ asked' \in Nat /\ needed \in Nat /\ needed' \in Nat /\ sent' \in Nat
  BY LenProperties DEF Types
<1>1. CASE sink'
  <2>1. sent' <= N * asked'
    <3>1. (Types /\ Shares => sent <= N * asked)'
      BY SentBound, PTL
    <3> QED  BY <3>1
  <2>2. PICK i \in Nat, r \in Nat, a \in Nat, b \in Nat, n \in Nat :
          i = Len(items') /\ r = Len(received') /\ a = asked' /\ b = needed' /\ n = sent'
    BY <1>0
  <2>3. b + r = a /\ r + i = n
    BY <1>1, <2>2 DEF Demand
  <2>4. n <= N * a
    BY <2>1, <2>2
  <2>5. i <= (N - 1) * a + b
    <3>1. \A v, w, x, y, z, q \in Nat : v + w = x /\ w + y = z /\ z <= q * x => y <= (q - 1) * x + v
      OBVIOUS
    <3> QED  BY <2>3, <2>4, <3>1
  <2> QED  BY <2>2, <2>5 DEF BoundedQueue
<1>2. CASE ~sink'
  <2>1. CASE UNCHANGED <<items, asked, needed>>
    BY <2>1 DEF BoundedQueue
  <2>2. CASE Drain
    <3>1. Len(items') = Len(items) - 1 /\ needed' = needed - 1 /\ asked' = asked
      BY <2>2, Lengths DEF Drain
    <3>2. (N - 1) * asked \in Int
      BY <1>0
    <3> QED  BY <1>0, <3>1, <3>2 DEF BoundedQueue
  <2>3. ASSUME NEW u \in Up, OnNext(u) PROVE FALSE
    BY <1>2, <2>3 DEF OnNext, SourceMayAct, Outcomes, Active
  <2>4. ASSUME NEW n \in {1, Infinity}, Request(n) PROVE FALSE
    BY <1>2, <2>4 DEF Request, SinkMayAct
  <2> QED
    BY <2>1, <2>2, <2>3, <2>4, StepKinds
       DEF OnError, OnComplete, Cancel, SinkReturns, Drained, Ask, SourceReturns, AllAsked, vars
<1> QED  BY <1>1, <1>2

-----------------------------------------------------------------------------
(* The elements.                                                           *)

\* Appending the next number to the first numbers, or moving a number from one
\* queue to another, keeps them in order.
LEMMA NextNumber ==
  ASSUME NEW n \in Nat, NEW a \in Seq(Nat), NEW b \in Seq(Nat), a \o b = [k \in 1..n |-> k]
  PROVE  /\ a \o Append(b, n + 1) = [k \in 1..n + 1 |-> k]
         /\ b # <<>> => Append(a, Head(b)) \o Tail(b) = [k \in 1..n |-> k]
<1>0. Len(a) \in Nat /\ Len(b) \in Nat /\ Len(a \o b) = Len(a) + Len(b) /\ a \o b \in Seq(Nat)
      /\ \A i \in 1..Len(a) + Len(b) : (a \o b)[i] = IF i <= Len(a) THEN a[i] ELSE b[i - Len(a)]
  <2>1. Len(a) \in Nat /\ Len(b) \in Nat
    BY LenProperties
  <2>2. /\ Len(a \o b) = Len(a) + Len(b) /\ a \o b \in Seq(Nat)
        /\ \A i \in 1..Len(a) + Len(b) : (a \o b)[i] = IF i <= Len(a) THEN a[i] ELSE b[i - Len(a)]
    BY ConcatProperties, ZenonT(60)
  <2> QED  BY <2>1, <2>2
<1>1. Len(a) + Len(b) = n
  <2>1. DOMAIN (a \o b) = 1..Len(a) + Len(b)
    BY <1>0, LenProperties
  <2>2. 1..Len(a) + Len(b) = 1..n
    BY <2>1
  <2> QED  BY <1>0, <2>2
<1>2. a \o Append(b, n + 1) = [k \in 1..n + 1 |-> k]
  <2> DEFINE c == Append(b, n + 1)
             f == [k \in 1..n + 1 |-> k]
  <2>1. c \in Seq(Nat) /\ Len(c) = Len(b) + 1 /\ c[Len(b) + 1] = n + 1
        /\ \A i \in 1..Len(b) : c[i] = b[i]
    BY AppendProperties
  <2>2. a \o c \in Seq(Nat) /\ Len(a \o c) = n + 1
        /\ \A i \in 1..n + 1 : (a \o c)[i] = IF i <= Len(a) THEN a[i] ELSE c[i - Len(a)]
    <3> HIDE DEF c
    <3> QED  BY <1>0, <1>1, <2>1, ConcatProperties
  <2>3. f \in Seq(Nat) /\ Len(f) = n + 1 /\ \A i \in 1..n + 1 : f[i] = i
    OBVIOUS
  <2>4. ASSUME NEW i \in 1..n + 1 PROVE (a \o c)[i] = i
    <3> HIDE DEF c
    <3>1. CASE i <= n
      <4>1. (a \o b)[i] = i
        BY <3>1
      <4>2. i \in 1..Len(a) + Len(b)
        BY <1>0, <1>1, <3>1
      <4>3. CASE i <= Len(a)
        BY <1>0, <2>2, <4>1, <4>2, <4>3
      <4>4. CASE ~(i <= Len(a))
        <5>1. i - Len(a) \in 1..Len(b)
          BY <1>0, <4>2, <4>4
        <5>2. c[i - Len(a)] = b[i - Len(a)] /\ (a \o b)[i] = b[i - Len(a)]
          BY <1>0, <2>1, <4>2, <4>4, <5>1
        <5> QED  BY <2>2, <4>1, <4>4, <5>2
      <4> QED  BY <4>3, <4>4
    <3>2. CASE i = n + 1
      BY <1>0, <1>1, <2>1, <2>2, <3>2
    <3>3. i <= n \/ i = n + 1
      OBVIOUS
    <3> QED  BY <3>1, <3>2, <3>3
  <2> HIDE DEF c, f
  <2>5. a \o c = f
    BY <2>2, <2>3, <2>4, SeqEqual
  <2> QED  BY <2>5 DEF c, f
<1>3. ASSUME b # <<>> PROVE Append(a, Head(b)) \o Tail(b) = a \o b
  <2>1. b = <<Head(b)>> \o Tail(b) /\ Head(b) \in Nat /\ Tail(b) \in Seq(Nat)
    <3>1. Len(b) \in 1..Len(b) /\ 1 \in 1..Len(b)
      BY <1>3, EmptySeq
    <3>2. SubSeq(b, 1, Len(b)) = <<b[1]>> \o SubSeq(b, 2, Len(b))
      BY <3>1, SubSeqRecursiveFirst
    <3>3. SubSeq(b, 1, Len(b)) = b /\ Tail(b) = SubSeq(b, 2, Len(b))
      BY <1>3, SubSeqFull, TailIsSubSeq
    <3>4. Head(b) = b[1] /\ Head(b) \in Nat /\ Tail(b) \in Seq(Nat)
      BY <1>3, HeadTailProperties
    <3> QED  BY <3>2, <3>3, <3>4
  <2>2. Append(a, Head(b)) = a \o <<Head(b)>>
    BY <2>1, AppendIsConcat
  <2>3. <<Head(b)>> \in Seq(Nat)
    BY <2>1
  <2>4. (a \o <<Head(b)>>) \o Tail(b) = a \o (<<Head(b)>> \o Tail(b))
    BY <2>1, <2>3, ConcatAssociative
  <2> QED  BY <2>1, <2>2, <2>4
<1> QED  BY <1>2, <1>3

\* Every step keeps the elements in the order in which they were sent.
LEMMA InOrderStep ==
  Types /\ Outcomes /\ InOrder /\ [Next]_vars /\ (Types /\ Demand)' => InOrder'
<1> SUFFICES ASSUME Types, Outcomes, InOrder, [Next]_vars, Types', Demand' PROVE InOrder'
  OBVIOUS
<1>1. Len(received') <= asked'
  <2>1. PICK i \in Nat, a \in Nat, b \in Nat : i = Len(received') /\ a = asked' /\ b = needed'
    BY LenProperties DEF Types
  <2>2. b + i <= a
    BY <2>1 DEF Demand
  <2>3. i <= a
    BY <2>2
  <2> QED  BY <2>1, <2>3
<1>2. SUFFICES ASSUME sink' PROVE received' \o items' = [k \in 1..sent' |-> k]
  BY <1>1 DEF InOrder
<1>3. sink
  BY <1>2, NoReturn
<1>4. received \o items = [k \in 1..sent |-> k]
  BY <1>3 DEF InOrder
<1>5. received \in Seq(Nat) /\ items \in Seq(Nat) /\ sent \in Nat
  <2>1. 1..Items \subseteq Nat
    OBVIOUS
  <2>2. received \in Seq(1..Items) /\ items \in Seq(1..Items) /\ sent \in Nat
    BY MergeAssumption DEF Types
  <2> QED  BY <2>1, <2>2, SeqMonotonic
<1>6. ASSUME NEW u \in Up, OnNext(u) PROVE received' \o items' = [k \in 1..sent' |-> k]
  <2>1. received' = received /\ items' = Append(items, sent + 1) /\ sent' = sent + 1
    BY <1>6 DEF OnNext, Queued
  <2>2. received \o Append(items, sent + 1) = [k \in 1..sent + 1 |-> k]
    BY <1>4, <1>5, NextNumber
  <2> QED  BY <2>1, <2>2
<1>7. CASE Drain
  <2>1. /\ received' = Append(received, Head(items)) /\ items' = Tail(items) /\ sent' = sent
        /\ items # <<>>
    BY <1>3, <1>7 DEF Drain, Drains
  <2>2. Append(received, Head(items)) \o Tail(items) = [k \in 1..sent |-> k]
    BY <1>4, <1>5, <2>1, NextNumber, ZenonT(60)
  <2> QED  BY <2>1, <2>2
<1>8. CASE UNCHANGED <<received, items, sent>>
  BY <1>4, <1>8
<1> QED
  BY <1>6, <1>7, <1>8, StepKinds
     DEF OnError, OnComplete, Request, Cancel, SinkReturns, Drained, Ask, SourceReturns, AllAsked, vars

-----------------------------------------------------------------------------
(* The theorems.                                                           *)

\* The inductive invariant.  The properties do not carry themselves: that demand
\* is not lost rests on which activation has still to ask whom, and the bound of
\* the queue on what each source has sent.
Inductive ==
  /\ Types /\ Nesting /\ Outcomes /\ Demand /\ Served /\ Reaches /\ Shares
  /\ InOrder /\ BoundedQueue

\* When merge has its sink and its upstreams, the invariant holds.
LEMMA InitInductive == Init => Inductive
<1> SUFFICES ASSUME Init PROVE Inductive
  OBVIOUS
<1> USE MergeAssumption DEF Init
<1>1. Len(stack) = 0 /\ Len(items) = 0 /\ Len(received) = 0 /\ stack \in Seq(Frames)
      /\ items \in Seq(1..Items) /\ received \in Seq(1..Items)
  BY EmptySeq
<1>2. Types
  <2>1. /\ upstream \in [Up -> {"active", "complete", "error", "cancelled"}]
        /\ owed \in [Up -> Nat]
    OBVIOUS
  <2>2. /\ sent \in 0..Items /\ needed \in Nat /\ asked \in Nat
        /\ outcome \in {"none", "complete", "error", "cancelled"}
    OBVIOUS
  <2>3. sink \in BOOLEAN /\ deleted \in BOOLEAN /\ demand \in Demands
    BY Zenon
  <2> QED  BY <1>1, <2>1, <2>2, <2>3 DEF Types
<1>3. Nesting /\ Outcomes /\ Demand /\ Served /\ Reaches
  BY <1>1 DEF Nesting, Outcomes, Demand, Served, Reaches
<1>4. Shares
  <2>1. PICK s, w : s = [k \in 0..N |-> 0] /\ w = [k \in {0} |-> 0]
    OBVIOUS
  <2>2. \A v \in Up : Claims(w, v)
    BY <1>1, <2>1 DEF Claims
  <2>3. \A v \in Up : v \in 1..N /\ s[v] = 0 /\ s[v - 1] = 0 /\ owed[v] = 0 /\ w[Len(stack)] = 0
    BY <1>1, <2>1 DEF Up
  <2>4. s \in [0..N -> Nat] /\ s[0] = 0 /\ s[N] = sent
    BY <2>1
  <2>5. \A v \in Up : s[v - 1] <= s[v] /\ s[v] + owed[v] + w[Len(stack)] <= s[v - 1] + asked
    BY <2>3
  <2> QED  BY <2>2, <2>4, <2>5 DEF Shares, Shared
<1>5. received \o items = [k \in 1..sent |-> k]
  <2>1. received \o items = <<>>
    BY <1>1, ConcatEmptySeq
  <2>2. [k \in 1..sent |-> k] = <<>>
    OBVIOUS
  <2> QED  BY <2>1, <2>2
<1>6. InOrder /\ BoundedQueue
  BY <1>1, <1>5 DEF InOrder, BoundedQueue
<1> QED  BY <1>2, <1>3, <1>4, <1>6 DEF Inductive

\* Every step of a source, of the sink and of merge itself keeps it.
LEMMA StepInductive == Inductive /\ [Next]_vars => Inductive'
<1> SUFFICES ASSUME Inductive, [Next]_vars PROVE Inductive'
  OBVIOUS
<1>1. Types' /\ Nesting' /\ Outcomes' /\ Demand' /\ Shares'
  BY TypesStep, NestingStep, OutcomesStep, DemandStep, SharesStep DEF Inductive
<1>2. Served' /\ Reaches' /\ InOrder' /\ BoundedQueue'
  BY <1>1, ServedStep, ReachesStep, InOrderStep, BoundedStep DEF Inductive
<1> QED  BY <1>1, <1>2 DEF Inductive

\* Merge never leaves the invariant.
THEOREM InductiveInvariant == Spec => []Inductive
BY InitInductive, StepInductive, PTL DEF Spec

\* No source owes more, and no more is needed, than a sink may ask for.
LEMMA Bounds == Inductive => TypeOK
<1> SUFFICES ASSUME Inductive PROVE TypeOK
  OBVIOUS
<1> USE MergeAssumption DEF Inductive
<1>1. PICK i \in Nat, a \in Nat, b \in Nat, n \in Nat :
        i = Len(received) /\ a = asked /\ b = needed /\ n = sent /\ n <= Items
  BY LenProperties DEF Types
<1>2. b + i <= a /\ i <= n /\ (a <= i + 1 \/ a \in {0, Infinity})
  BY <1>1 DEF Demand, Types
<1>3. a <= Infinity /\ b <= Infinity
  BY <1>1, <1>2
<1>4. ASSUME NEW u \in Up PROVE owed[u] \in 0..N * (Infinity + Items)
  <2>1. PICK o \in Nat : o = owed[u]
    BY DEF Types
  <2>2. o <= a
    BY <1>1, <2>1, OwedBound
  <2>3. \A x, y, z \in Nat : x # 0 => y <= x * (y + z) /\ x * (y + z) \in Nat
    OBVIOUS
  <2>4. Infinity <= N * (Infinity + Items) /\ N * (Infinity + Items) \in Nat
    BY <2>3
  <2>5. o \in 0..N * (Infinity + Items)
    BY <1>3, <2>2, <2>4
  <2> QED  BY <2>1, <2>5
<1>5. owed \in [Up -> 0..N * (Infinity + Items)]
  BY <1>4 DEF Types
<1>6. needed \in 0..Infinity + 1 /\ asked \in 0..Infinity + Items + 1
  BY <1>1, <1>3
<1> QED  BY <1>5, <1>6 DEF TypeOK, Types

\* What merge promises its sink, and its own memory, holds in every state of every
\* instance: elements in order and never more than asked for, a bounded queue, a
\* completion behind the last element of every source, and no call to a deleted object.
THEOREM Safe == Spec => []Safety
<1>1. Inductive => CompleteMeansAll /\ DeletedIsUnused
  BY DEF Inductive, Outcomes, CompleteMeansAll, DeletedIsUnused
<1>2. Inductive => InOrder /\ BoundedQueue
  BY DEF Inductive
<1>3. Inductive => Safety
  BY <1>1, <1>2, Bounds DEF Safety
<1> QED  BY <1>3, InductiveInvariant, PTL

\* However calls nest, a request that no call under way can serve any more has
\* reached every source that is still active, in full.
THEOREM DemandIsNotLost == Spec => []DemandReachesSources
<1>1. ASSUME Inductive, stack = <<>>, sink, needed > 0
      PROVE  items = <<>> /\ \A u \in Active : owed[u] >= needed
  <2>1. items = <<>> /\ Len(items) = 0 /\ Len(stack) = 0
    BY <1>1, EmptySeq DEF Inductive, Served
  <2>2. ASSUME NEW u \in Active PROVE owed[u] >= needed
    <3>1. owed[u] + Len(items) >= needed
      BY <1>1, <2>1 DEF Inductive, Reaches
    <3>2. owed[u] \in Nat
      BY <1>1 DEF Inductive, Types, Active
    <3> QED  BY <2>1, <3>1, <3>2
  <2> QED  BY <2>1, <2>2
<1>2. Inductive => DemandReachesSources
  BY <1>1 DEF DemandReachesSources
<1> QED  BY <1>2, InductiveInvariant, PTL

\* The sink hears of the end once (_sink is a nullptr from then on).
THEOREM EndsOnce == Spec => ToldOnce
<1>1. Inductive /\ [Next]_vars => [outcome # "none" => outcome' = outcome]_vars
  <2> SUFFICES ASSUME Inductive, [Next]_vars, outcome # "none" PROVE outcome' = outcome
    OBVIOUS
  <2>1. ~sink /\ Active = {}
    BY DEF Inductive, Outcomes
  <2>2. ASSUME NEW u \in Up, OnNext(u) \/ OnError(u) \/ OnComplete(u) PROVE FALSE
    BY <2>1, <2>2 DEF OnNext, OnError, OnComplete, SourceMayAct, Active
  <2>3. ASSUME NEW n \in {1, Infinity}, Request(n) PROVE FALSE
    BY <2>1, <2>3 DEF Request, SinkMayAct
  <2>4. ~Cancel
    BY <2>1 DEF Cancel, SinkMayAct
  <2>5. CASE SinkReturns \/ Drain \/ Ask \/ SourceReturns
    BY <2>5 DEF SinkReturns, Drain, Ask, SourceReturns
  <2>6. CASE Drained \/ AllAsked
    BY <2>1, <2>6 DEF Drained, AllAsked, DestroyIfComplete, Destroy, Tells
  <2>7. CASE UNCHANGED vars
    BY <2>7 DEF vars
  <2> QED  BY <2>2, <2>3, <2>4, <2>5, <2>6, <2>7, StepKinds
<1> QED  BY <1>1, InductiveInvariant, PTL DEF Spec, ToldOnce

\* What the sink sees is a stream: what it is handed it has asked for, the end comes
\* once, and behind the end comes nothing.
THEOREM ImplementsStream == Spec => KeepsPromise
<1>1. Init => P!Init
  <2> SUFFICES ASSUME Init PROVE P!Init
    OBVIOUS
  <2>1. asked = 0 /\ Len(received) = 0 /\ outcome = "none"
    BY EmptySeq DEF Init
  <2> QED  BY <2>1 DEF P!Init
<1>2. Inductive /\ [Next]_vars => [P!Next]_<<asked, Len(received), outcome # "none">>
  <2> SUFFICES ASSUME Inductive, [Next]_vars
               PROVE  P!Next \/ UNCHANGED <<asked, Len(received), outcome # "none">>
    OBVIOUS
  <2>0. /\ Types /\ Outcomes /\ Demand /\ Len(received) \in Nat /\ asked \in Nat /\ needed \in Nat
        /\ sink \in BOOLEAN /\ (sink <=> outcome = "none")
    BY Lengths DEF Inductive, Types, Outcomes
  <2>1. CASE sink /\ outcome' # "none" /\ UNCHANGED <<asked, received>>
    BY <2>0, <2>1 DEF P!Next, P!End
  <2>2. ASSUME NEW u \in Up, OnNext(u) PROVE UNCHANGED <<asked, received, outcome>>
    BY <2>2 DEF OnNext
  <2>3. ASSUME NEW u \in Up, OnError(u) PROVE UNCHANGED <<asked, received>> /\ sink /\ outcome' # "none"
    <3>1. sink
      BY <2>0, <2>3 DEF OnError, SourceMayAct, Outcomes, Active
    <3> QED  BY <2>3, <3>1 DEF OnError, Destroy, Tells
  <2>4. ASSUME NEW u \in Up, OnComplete(u) \/ Drained \/ AllAsked
        PROVE  UNCHANGED <<asked, received>> /\ (outcome' = outcome \/ (sink /\ outcome' # "none"))
    <3>1. UNCHANGED <<asked, received>>
      BY <2>4 DEF OnComplete, Drained, AllAsked
    <3>2. outcome' = outcome \/ outcome' = IF sink THEN "complete" ELSE outcome
      BY <2>4 DEF OnComplete, Drained, AllAsked, DestroyIfComplete, Destroy, Tells
    <3>3. outcome' = outcome \/ (sink /\ outcome' = "complete")
      BY <2>0, <3>2
    <3> QED  BY <3>1, <3>3
  <2>5. ASSUME NEW n \in {1, Infinity}, Request(n) PROVE P!Next
    <3>1. sink /\ asked' = asked + n /\ n \in Nat /\ n > 0 /\ UNCHANGED <<received, outcome>>
      BY <2>5, MergeAssumption DEF Request, SinkMayAct
    <3> QED  BY <2>0, <3>1 DEF P!Next, P!Request
  <2>6. Cancel => UNCHANGED <<asked, received>> /\ sink /\ outcome' # "none"
    BY DEF Cancel, SinkMayAct
  <2>7. CASE Drain
    <3>1. Len(received') = Len(received) + (IF sink THEN 1 ELSE 0) /\ UNCHANGED <<asked, outcome>>
      BY <2>0, <2>7, Lengths DEF Drain
    <3>2. sink => Len(received) < asked
      BY <2>0, <2>7 DEF Demand, Drain, Drains
    <3> QED  BY <2>0, <3>1, <3>2 DEF P!Next, P!OnNext
  <2>8. CASE UNCHANGED <<asked, received, outcome>>
    BY <2>8
  <2>9. SinkReturns \/ Ask \/ SourceReturns \/ UNCHANGED vars => UNCHANGED <<asked, received, outcome>>
    BY DEF SinkReturns, Ask, SourceReturns, vars
  <2>10. 1 \in Up
    BY MergeAssumption DEF Up
  <2> QED  BY <2>1, <2>2, <2>3, <2>4, <2>5, <2>6, <2>7, <2>8, <2>9, <2>10, StepKinds
<1> QED  BY <1>1, <1>2, InductiveInvariant, PTL DEF Spec, KeepsPromise, P!Spec, P!vars

=============================================================================
