---------------------------- MODULE StagesProofs ----------------------------
(***************************************************************************)
(* Theorems about flat_map and the operators (Stages), for any number of   *)
(* packets and elements, limits and nesting of the calls.                  *)
(***************************************************************************)
EXTENDS Stages, SequenceTheorems, TLAPS

-----------------------------------------------------------------------------
(* The stack of flat_map.                                                  *)

Drains == {"loop", "asks outer", "asks inner"}
Draining(s) == \E k \in 1..Len(s) : s[k] \in Drains
AsksOfInner(s) == \E k \in 1..Len(s) : s[k] = "asks inner"

\* What is called from where: drain() runs once, and its loop calls nobody itself.
Nested(s) ==
  /\ \A k \in 1..Len(s) : s[k] = "loop" => k = Len(s)
  /\ \A i, j \in 1..Len(s) : s[i] \in Drains /\ s[j] \in Drains => i = j
  /\ \A k \in 2..Len(s) : s[k] = "sink" => s[k - 1] \in {"subscribes", "asks inner"}
  /\ \A k \in 2..Len(s) : s[k] = "subscribes" => s[k - 1] = "asks outer"

-----------------------------------------------------------------------------
(* The invariant of flat_map.                                              *)

\* Surroundings in which no CHECK fails: the sink never has two requests on their way, a
\* source ends inside a call only if it was asked for something, but for an empty inner one if
\* nobody cancels there, and who asked for everything does not cancel inside on_next.
Tame(d) ==
  /\ d # "two" /\ "outer" \notin Eager[d]
  /\ Cancels[d] = "any" => d = "one"
  /\ "inner" \in Eager[d] => Cancels[d] = "never" \/ d = "all"

Flags ==
  /\ inDrain \in BOOLEAN /\ die \in BOOLEAN /\ drainRequested \in BOOLEAN
  /\ source \in BOOLEAN /\ sourceComplete \in BOOLEAN /\ requestedNext \in BOOLEAN
  /\ fwdSub \in BOOLEAN /\ deleted \in BOOLEAN /\ demand \in Demands /\ demand \in {"all", "one"}
  /\ outcome \in {"none", "complete", "error", "cancelled"} /\ stack \in Seq(Frames)
  /\ outer.open \in BOOLEAN /\ inner.open \in BOOLEAN

\* What is still to come, of this packet and of those behind it.
Stock ==
  /\ outer \in [open : BOOLEAN, owed : 0..1, left : 0..Packets]
  /\ inner \in [open : BOOLEAN, owed : Nat, left : 0..Elements]
  /\ delivered + inner.left + outer.left * Elements <= Packets * Elements

Numbers ==
  /\ requested \in Nat /\ delivered \in Nat /\ waiting \in Nat /\ delivered <= requested
  /\ demand = "one" => requested <= delivered + 1
  /\ demand = "all" => requested = 0 \/ requested = Infinity

\* Who is there: the sources the instance points to are open, drain() runs if it is on
\* the stack, and who died in it is deleted behind it.
Alive ==
  ~deleted =>
    /\ inDrain <=> Draining(stack)
    /\ inner.open <=> fwdSub
    /\ outer.open <=> source
    /\ die <=> outcome # "none"
    /\ die => inDrain

Gone == deleted => ~Draining(stack) /\ ~inner.open /\ ~outer.open /\ outcome # "none"

Completes ==
  /\ sourceComplete => ~source /\ ~outer.open
  /\ outcome = "complete" => sourceComplete /\ ~fwdSub

\* What the sources were asked for is what is still wanted from them.
Owed ==
  /\ ~deleted /\ fwdSub => inner.owed = waiting /\ waiting <= Needs /\ requested > 0 /\ ~requestedNext
  /\ ~deleted /\ fwdSub /\ demand = "all" => waiting = Needs
  /\ outer.owed > 0 => requestedNext /\ ~fwdSub /\ Needs > 0
  /\ ~deleted /\ ~die /\ requestedNext /\ ~fwdSub => outer.owed > 0

\* No source calls the sink or ends behind a death.
Dying ==
  /\ ~deleted /\ die /\ outer.open => outer.owed = 0
  /\ ~deleted /\ die /\ fwdSub => waiting = 0 /\ "inner" \notin Eager[demand]
  /\ ~deleted /\ inDrain /\ stack # <<>> /\ Top = "sink" => fwdSub /\ (demand = "one" => waiting = 0)
  /\ stack # <<>> /\ demand = "all" => requested = Infinity

\* The demand is known: to a source when drain() is not running, or to a drain() that asks
\* the inner one and will not go round again.
Passed ==
  /\ ~deleted /\ ~die /\ AsksOfInner(stack) /\ ~drainRequested => fwdSub /\ waiting = Needs
  /\ ~deleted /\ ~die /\ ~inDrain /\ Needs > 0 => IF fwdSub THEN waiting > 0 ELSE outer.owed > 0

FlatMapInv ==
  Flags /\ Stock /\ Numbers /\ Nested(stack) /\ Alive /\ Gone /\ Completes /\ Owed /\ Dying /\ Passed /\ failed = ""

-----------------------------------------------------------------------------
(* Calls and returns.                                                      *)

\* Whether f can be called from the top of s.
MayCall(s, f) ==
  /\ s # <<>> => s[Len(s)] # "loop"
  /\ f \in Drains => ~Draining(s)
  /\ f = "sink" /\ s # <<>> => s[Len(s)] \in {"subscribes", "asks inner"}
  /\ f = "subscribes" /\ s # <<>> => s[Len(s)] = "asks outer"

LEMMA Calls ==
  ASSUME NEW s \in Seq(Frames), Nested(s), NEW f \in Frames, MayCall(s, f)
  PROVE  /\ Append(s, f) \in Seq(Frames) /\ Nested(Append(s, f)) /\ Append(s, f) # <<>>
         /\ Append(s, f)[Len(Append(s, f))] = f
         /\ Draining(Append(s, f)) <=> Draining(s) \/ f \in Drains
         /\ AsksOfInner(Append(s, f)) <=> AsksOfInner(s) \/ f = "asks inner"
<1> DEFINE t == Append(s, f)
<1>1. /\ Len(s) \in Nat /\ Len(t) = Len(s) + 1 /\ t[Len(s) + 1] = f /\ t \in Seq(Frames)
      /\ \A k \in 1..Len(s) : t[k] = s[k]
  OBVIOUS
<1>2. s # <<>> => Len(s) > 0
  OBVIOUS
<1>3. \A k \in 1..Len(t) : k \in 1..Len(s) \/ k = Len(s) + 1
  BY <1>1
<1>4. \A k \in 1..Len(s) : k \in 1..Len(t) /\ s # <<>>
  BY <1>1
<1>5. Len(s) + 1 \in 1..Len(t)
  BY <1>1
<1>6. t # <<>>
  BY <1>1
<1> HIDE DEF t
<1>7. Draining(t) <=> Draining(s) \/ f \in Drains
  BY <1>1, <1>3, <1>4, <1>5 DEF Draining
<1>8. AsksOfInner(t) <=> AsksOfInner(s) \/ f = "asks inner"
  BY <1>1, <1>3, <1>4, <1>5 DEF AsksOfInner
<1>9. \A k \in 1..Len(t) : t[k] = "loop" => k = Len(t)
  <2> SUFFICES ASSUME NEW k \in 1..Len(s), s[k] = "loop" PROVE FALSE
    BY <1>1, <1>3
  <2> QED  BY <1>4 DEF Nested, MayCall
<1>10. \A i, j \in 1..Len(t) : t[i] \in Drains /\ t[j] \in Drains => i = j
  <2> SUFFICES ASSUME NEW i \in 1..Len(t), NEW j \in 1..Len(t), t[i] \in Drains, t[j] \in Drains PROVE i = j
    OBVIOUS
  <2>1. CASE i \in 1..Len(s) /\ j \in 1..Len(s)
    BY <1>1, <2>1 DEF Nested
  <2>2. CASE i = Len(s) + 1 /\ j \in 1..Len(s)
    BY <1>1, <2>2 DEF MayCall, Draining
  <2>3. CASE j = Len(s) + 1 /\ i \in 1..Len(s)
    BY <1>1, <2>3 DEF MayCall, Draining
  <2> QED  BY <1>3, <2>1, <2>2, <2>3
<1>11. \A k \in 2..Len(t) : k - 1 \in 1..Len(s) /\ (k \in 2..Len(s) \/ (k = Len(s) + 1 /\ k - 1 = Len(s) /\ s # <<>>))
  BY <1>1, <1>2
<1>12. \A k \in 2..Len(t) : t[k] = "sink" => t[k - 1] \in {"subscribes", "asks inner"}
  <2> SUFFICES ASSUME NEW k \in 2..Len(t), t[k] = "sink" PROVE t[k - 1] \in {"subscribes", "asks inner"}
    OBVIOUS
  <2>1. t[k - 1] = s[k - 1]
    BY <1>1, <1>11
  <2>2. CASE k \in 2..Len(s)
    <3>1. t[k] = s[k]
      BY <1>1, <2>2
    <3> QED  BY <2>1, <2>2, <3>1 DEF Nested
  <2>3. CASE k = Len(s) + 1 /\ k - 1 = Len(s) /\ s # <<>>
    BY <1>1, <2>1, <2>3 DEF MayCall
  <2> QED  BY <1>11, <2>2, <2>3
<1>13. \A k \in 2..Len(t) : t[k] = "subscribes" => t[k - 1] = "asks outer"
  <2> SUFFICES ASSUME NEW k \in 2..Len(t), t[k] = "subscribes" PROVE t[k - 1] = "asks outer"
    OBVIOUS
  <2>1. t[k - 1] = s[k - 1]
    BY <1>1, <1>11
  <2>2. CASE k \in 2..Len(s)
    <3>1. t[k] = s[k]
      BY <1>1, <2>2
    <3> QED  BY <2>1, <2>2, <3>1 DEF Nested
  <2>3. CASE k = Len(s) + 1 /\ k - 1 = Len(s) /\ s # <<>>
    BY <1>1, <2>1, <2>3 DEF MayCall
  <2> QED  BY <1>11, <2>2, <2>3
<1> QED  BY <1>1, <1>6, <1>7, <1>8, <1>9, <1>10, <1>12, <1>13 DEF Nested, t

\* What is left of a sequence without its last element.
LEMMA Front ==
  ASSUME NEW S, NEW s \in Seq(S), s # <<>>
  PROVE  /\ SubSeq(s, 1, Len(s) - 1) \in Seq(S) /\ Len(SubSeq(s, 1, Len(s) - 1)) = Len(s) - 1
         /\ \A k \in 1..Len(s) - 1 : SubSeq(s, 1, Len(s) - 1)[k] = s[k]
<1> DEFINE n == Len(s) - 1
<1>1. n \in Nat /\ \A k \in 1..n : s[k] \in S
  BY EmptySeq, ElementOfSeq
<1> HIDE DEF n
<1>2. /\ SubSeq(s, 1, n) \in Seq(S) /\ Len(SubSeq(s, 1, n)) = IF 1 <= n THEN n - 1 + 1 ELSE 0
      /\ \A k \in 1..n - 1 + 1 : SubSeq(s, 1, n)[k] = s[1 + k - 1]
  BY <1>1, SubSeqProperties
<1>3. Len(SubSeq(s, 1, n)) = n /\ \A k \in 1..n : SubSeq(s, 1, n)[k] = s[k]
  BY <1>1, <1>2
<1> QED  BY <1>2, <1>3 DEF n

\* What is left when the top of s returns.
LEMMA Popped ==
  ASSUME NEW s \in Seq(Frames), Nested(s), s # <<>>
  PROVE  LET t == SubSeq(s, 1, Len(s) - 1)
             f == s[Len(s)]
         IN  /\ t \in Seq(Frames) /\ Nested(t) /\ f \in Frames
             /\ t # <<>> => t[Len(t)] \in Frames \ {"loop"}
             /\ Draining(s) <=> Draining(t) \/ f \in Drains
             /\ f \in Drains => ~Draining(t)
             /\ AsksOfInner(s) <=> AsksOfInner(t) \/ f = "asks inner"
             /\ f = "sink" /\ t # <<>> => t[Len(t)] \in {"subscribes", "asks inner"}
             /\ f = "subscribes" /\ t # <<>> => t[Len(t)] = "asks outer"
<1> DEFINE t == SubSeq(s, 1, Len(s) - 1)
<1> DEFINE f == s[Len(s)]
<1>1. /\ Len(s) \in Nat /\ Len(s) > 0 /\ Len(t) = Len(s) - 1 /\ t \in Seq(Frames) /\ f \in Frames
      /\ \A k \in 1..Len(s) - 1 : t[k] = s[k]
  <2>1. Len(s) \in Nat /\ Len(s) > 0
    OBVIOUS
  <2>2. f \in Frames
    BY <2>1
  <2> QED  BY <2>1, <2>2, Front
<1>2. t # <<>> => Len(t) > 0
  BY <1>1
<1> HIDE DEF t
<1>3. \A k \in 1..Len(s) : k \in 1..Len(t) \/ k = Len(s)
  BY <1>1
<1>4. \A k \in 1..Len(t) : k \in 1..Len(s) /\ t[k] = s[k] /\ k # Len(s)
  BY <1>1
<1>5. Len(s) \in 1..Len(s)
  BY <1>1
<1>6. Draining(s) <=> Draining(t) \/ f \in Drains
  BY <1>3, <1>4, <1>5 DEF Draining
<1>7. AsksOfInner(s) <=> AsksOfInner(t) \/ f = "asks inner"
  BY <1>3, <1>4, <1>5 DEF AsksOfInner
<1>8. f \in Drains => ~Draining(t)
  BY <1>4, <1>5 DEF Draining, Nested
<1>9. \A k \in 2..Len(t) : k - 1 \in 1..Len(t) /\ k \in 2..Len(s) /\ k \in 1..Len(t)
  BY <1>1
<1>10. Nested(t)
  <2>1. \A k \in 1..Len(t) : t[k] = "loop" => k = Len(t)
    BY <1>4 DEF Nested
  <2>2. \A i, j \in 1..Len(t) : t[i] \in Drains /\ t[j] \in Drains => i = j
    BY <1>4 DEF Nested
  <2>3. \A k \in 2..Len(t) : t[k] = "sink" => t[k - 1] \in {"subscribes", "asks inner"}
    BY <1>4, <1>9 DEF Nested
  <2>4. \A k \in 2..Len(t) : t[k] = "subscribes" => t[k - 1] = "asks outer"
    BY <1>4, <1>9 DEF Nested
  <2> QED  BY <2>1, <2>2, <2>3, <2>4 DEF Nested
<1>11. ASSUME t # <<>>
       PROVE  /\ t[Len(t)] \in Frames \ {"loop"}
              /\ f = "sink" => t[Len(t)] \in {"subscribes", "asks inner"}
              /\ f = "subscribes" => t[Len(t)] = "asks outer"
  <2>1. Len(t) \in 1..Len(t) /\ Len(s) \in 2..Len(s) /\ Len(s) - 1 = Len(t)
    BY <1>1, <1>2, <1>11
  <2>2. t[Len(t)] = s[Len(s) - 1] /\ t[Len(t)] \in Frames /\ Len(t) \in 1..Len(s) /\ Len(t) # Len(s)
    BY <1>1, <1>4, <2>1
  <2> QED  BY <2>1, <2>2 DEF Nested
<1> QED  BY <1>1, <1>6, <1>7, <1>8, <1>10, <1>11 DEF t

-----------------------------------------------------------------------------
(* The steps of flat_map.                                                  *)

\* The number of elements that are left is never more than what the packets can bring.
LEMMA Endless ==
  ASSUME Stock, delivered \in Nat
  PROVE  Infinity \in Nat /\ Infinity > 0 /\ delivered < Infinity
<1>1. Packets \in Nat \ {0} /\ Elements \in Nat \ {0}
  BY FlatMapAssumption
<1> DEFINE all == Packets * Elements
<1>2. all \in Nat
  BY <1>1
<1>3. outer.left \in Nat /\ inner.left \in Nat
  BY <1>1 DEF Stock
<1>4. outer.left * Elements \in Nat
  BY <1>1, <1>3
<1>5. delivered + inner.left + outer.left * Elements <= all
  BY DEF Stock
<1> DEFINE rest == outer.left * Elements
<1> HIDE DEF all, rest
<1>6. rest \in Nat /\ delivered + inner.left + rest <= all
  BY <1>4, <1>5 DEF rest
<1>7. delivered <= all
  BY <1>2, <1>3, <1>6
<1>8. all + 1 \in Nat /\ all + 1 > 0 /\ delivered < all + 1
  BY <1>2, <1>7
<1> QED  BY <1>8 DEF Infinity, all

\* The demand of the sink, in numbers.
LEMMA Counts ==
  ASSUME FlatMapInv
  PROVE  /\ Infinity \in Nat /\ Infinity > 0 /\ delivered < Infinity
         /\ requested \in Nat /\ delivered \in Nat /\ waiting \in Nat /\ delivered <= requested
         /\ Needs \in Nat /\ Needs = requested - delivered
         /\ demand \in {"all", "one"}
         /\ demand = "one" => requested <= delivered + 1
         /\ demand = "all" => requested = 0 \/ requested = Infinity
<1>1. Stock /\ Numbers /\ demand \in {"all", "one"}
  BY DEF FlatMapInv, Flags
<1>2. /\ requested \in Nat /\ delivered \in Nat /\ waiting \in Nat /\ delivered <= requested
      /\ demand = "one" => requested <= delivered + 1
      /\ demand = "all" => requested = 0 \/ requested = Infinity
  BY <1>1, Zenon DEF Numbers
<1>3. Infinity \in Nat /\ Infinity > 0 /\ delivered < Infinity
  BY <1>1, <1>2, Endless
<1>4. Needs \in Nat /\ Needs = requested - delivered
  BY <1>2 DEF Needs
<1> QED  BY <1>1, <1>2, <1>3, <1>4

\* What the sources still have.
LEMMA Stocks ==
  ASSUME FlatMapInv
  PROVE  /\ inner \in [open : BOOLEAN, owed : Nat, left : 0..Elements]
         /\ outer \in [open : BOOLEAN, owed : 0..1, left : 0..Packets]
         /\ inner.owed \in Nat /\ inner.left \in Nat /\ outer.owed \in 0..1 /\ outer.left \in Nat
         /\ Packets \in Nat /\ Elements \in Nat /\ outer.left * Elements \in Nat /\ Packets * Elements \in Nat
         /\ delivered + inner.left + outer.left * Elements <= Packets * Elements
<1>1. Packets \in Nat /\ Elements \in Nat
  BY FlatMapAssumption
<1>2. /\ inner \in [open : BOOLEAN, owed : Nat, left : 0..Elements]
      /\ outer \in [open : BOOLEAN, owed : 0..1, left : 0..Packets]
      /\ delivered + inner.left + outer.left * Elements <= Packets * Elements
  BY DEF FlatMapInv, Stock
<1>3. inner.owed \in Nat /\ inner.left \in 0..Elements /\ outer.owed \in 0..1 /\ outer.left \in 0..Packets
  BY <1>2
<1>4. inner.left \in Nat /\ outer.left \in Nat
  BY <1>1, <1>3
<1>5. outer.left * Elements \in Nat /\ Packets * Elements \in Nat
  BY <1>1, <1>4
<1> QED  BY <1>1, <1>2, <1>3, <1>4, <1>5

\* The flags are what they are when nothing but the calls and the counts changes.
LEMMA FlagsStay ==
  ASSUME Flags, stack' \in Seq(Frames),
         UNCHANGED <<inDrain, die, drainRequested, source, sourceComplete, requestedNext,
                     fwdSub, deleted, demand, outcome>>,
         outer'.open = outer.open, inner'.open = inner.open
  PROVE  Flags'
<1>1. /\ inDrain' \in BOOLEAN /\ die' \in BOOLEAN /\ drainRequested' \in BOOLEAN
      /\ source' \in BOOLEAN /\ sourceComplete' \in BOOLEAN /\ requestedNext' \in BOOLEAN
      /\ fwdSub' \in BOOLEAN /\ deleted' \in BOOLEAN
  BY Zenon DEF Flags
<1>2. outer'.open \in BOOLEAN /\ inner'.open \in BOOLEAN
  BY Zenon DEF Flags
<1>3. demand' \in Demands /\ demand' \in {"all", "one"}
  BY Zenon DEF Flags
<1>4. outcome' \in {"none", "complete", "error", "cancelled"}
  BY Zenon DEF Flags
<1> QED  BY <1>1, <1>2, <1>3, <1>4, Zenon DEF Flags

\* Who returns without having been drained leaves everything as it is.
LEMMA ReturnKept ==
  ASSUME FlatMapInv, SinkReturns \/ Subscribed
  PROVE  FlatMapInv'
<1>1. /\ stack # <<>> /\ Top \in {"sink", "subscribes"} /\ stack' = Below
      /\ UNCHANGED <<demand, drainVars, flatVars, outer, inner, outcome, failed>>
  BY DEF SinkReturns, Subscribed, InLoop
<1>2. stack \in Seq(Frames) /\ Nested(stack)
  BY DEF FlatMapInv, Flags
<1>3. /\ stack' \in Seq(Frames) /\ Nested(stack') /\ (Draining(stack') <=> Draining(stack))
      /\ AsksOfInner(stack') <=> AsksOfInner(stack)
      /\ stack' # <<>> => Top' # "sink"
  BY <1>1, <1>2, Popped DEF Top, Below, Drains
<1>4. Flags'
  <2>1. Flags  BY DEF FlatMapInv
  <2>2. UNCHANGED <<inDrain, die, drainRequested, source, sourceComplete, requestedNext,
               fwdSub, deleted, demand, outcome>>
    BY <1>1 DEF drainVars, flatVars
  <2>3. outer'.open = outer.open /\ inner'.open = inner.open  BY <1>1
  <2> QED  BY <2>1, <2>2, <2>3, <1>3, FlagsStay
<1>11. Stock' /\ Numbers'
  BY <1>1 DEF FlatMapInv, Stock, Numbers, drainVars, flatVars, Infinity
<1>5. Alive' /\ Gone' /\ Completes'
  BY <1>1, <1>3 DEF FlatMapInv, Alive, Gone, Completes, drainVars, flatVars
<1>6. Owed' /\ Dying' /\ Passed'
  BY <1>1, <1>3 DEF FlatMapInv, Owed, Dying, Passed, Needs, drainVars, flatVars
<1> QED  BY <1>1, <1>3, <1>4, <1>11, <1>5, <1>6 DEF FlatMapInv

\* One drain() gives way to what it calls, or to its loop.
LEMMA Turns ==
  ASSUME NEW s \in Seq(Frames), Nested(s), s # <<>>, s[Len(s)] \in Drains, NEW f \in Drains
  PROVE  LET t == Append(SubSeq(s, 1, Len(s) - 1), f)
         IN  /\ t \in Seq(Frames) /\ Nested(t) /\ Draining(t) /\ t # <<>> /\ t[Len(t)] = f
             /\ AsksOfInner(t) <=> f = "asks inner"
<1> DEFINE r == SubSeq(s, 1, Len(s) - 1)
<1>1. /\ r \in Seq(Frames) /\ Nested(r) /\ ~Draining(r)
      /\ r # <<>> => r[Len(r)] \in Frames \ {"loop"}
  BY Popped
<1> HIDE DEF r
<1>2. f \in Frames /\ f # "sink" /\ f # "subscribes"
  BY DEF Drains, Frames
<1>3. MayCall(r, f)
  BY <1>1, <1>2 DEF MayCall
<1>4. ~AsksOfInner(r)
  BY <1>1 DEF AsksOfInner, Draining, Drains
<1>5. /\ Append(r, f) \in Seq(Frames) /\ Nested(Append(r, f)) /\ Append(r, f) # <<>>
      /\ Append(r, f)[Len(Append(r, f))] = f
      /\ Draining(Append(r, f)) <=> Draining(r) \/ f \in Drains
      /\ AsksOfInner(Append(r, f)) <=> AsksOfInner(r) \/ f = "asks inner"
  BY <1>1, <1>2, <1>3, Calls
<1> QED  BY <1>4, <1>5 DEF r

\* drain() runs, now or soon: what is new is not forgotten.
Drained ==
  /\ stack \in Seq(Frames) /\ Nested(stack) /\ inDrain = TRUE /\ Draining(stack) /\ stack # <<>>
  /\ drainRequested \in BOOLEAN
  /\ AsksOfInner(stack) => drainRequested

LEMMA DrainRuns ==
  ASSUME stack \in Seq(Frames), Nested(stack), inDrain \in BOOLEAN, drainRequested \in BOOLEAN,
         inDrain <=> Draining(stack), stack # <<>> => Top # "loop", Drain(stack)
  PROVE  Drained' /\ ((inDrain /\ stack' = stack) \/ Top' = "loop")
<1>1. CASE inDrain
  <2>1. drainRequested' = TRUE /\ stack' = stack /\ inDrain' = TRUE
    BY <1>1 DEF Drain, Remembered
  <2>2. stack # <<>>
    BY <1>1 DEF Draining
  <2> QED  BY <1>1, <2>1, <2>2 DEF Drained
<1>2. CASE ~inDrain
  <2>1. inDrain' = TRUE /\ stack' = Append(stack, "loop") /\ drainRequested' = drainRequested
    BY <1>2 DEF Drain
  <2>2. "loop" \in Frames /\ "loop" \in Drains /\ MayCall(stack, "loop")
    BY <1>2 DEF Frames, Drains, MayCall, Top
  <2>3. ~AsksOfInner(stack)
    BY <1>2 DEF AsksOfInner, Draining, Drains
  <2>4. /\ stack' \in Seq(Frames) /\ Nested(stack') /\ Draining(stack') /\ stack' # <<>>
        /\ ~AsksOfInner(stack') /\ Top' = "loop"
    BY <2>1, <2>2, <2>3, Calls DEF Top
  <2> QED  BY <2>1, <2>4 DEF Drained
<1> QED  BY <1>1, <1>2

\* The sink asks for more.
LEMMA RequestKept ==
  ASSUME FlatMapInv, NEW n \in {1, Infinity}, Request(n)
  PROVE  FlatMapInv'
<1>1. /\ requested' = requested + n /\ Drain(stack) /\ outcome = "none" /\ (stack # <<>> => Top = "sink")
      /\ UNCHANGED <<demand, delivered, die, flatVars, outer, inner, outcome, failed>>
  BY DEF Request, SinkMayAct
<1>2. /\ Infinity \in Nat /\ Infinity > 0 /\ delivered < Infinity
      /\ requested \in Nat /\ delivered \in Nat /\ waiting \in Nat /\ delivered <= requested
      /\ Needs \in Nat /\ Needs = requested - delivered
      /\ demand \in {"all", "one"}
  BY Counts
<1>3. ~deleted /\ ~die
  BY <1>1 DEF FlatMapInv, Alive, Gone
<1>4. /\ demand = "one" => n = 1 /\ Needs = 0
      /\ demand = "all" => n = Infinity /\ requested = 0
  BY <1>2 DEF Request, MayRequest
<1>5. /\ stack \in Seq(Frames) /\ Nested(stack) /\ inDrain \in BOOLEAN /\ drainRequested \in BOOLEAN
      /\ inDrain <=> Draining(stack)
  BY <1>3 DEF FlatMapInv, Flags, Alive
<1>6. Drained' /\ ((inDrain /\ stack' = stack) \/ Top' = "loop")
  BY <1>1, <1>5, DrainRuns
<1>7. Flags'
  BY <1>1, <1>6 DEF FlatMapInv, Flags, Drained, flatVars
<1>8. /\ n \in Nat /\ requested' = requested + n /\ delivered' = delivered /\ demand' = demand
      /\ waiting' = waiting /\ Needs' = requested' - delivered'
  BY <1>1, <1>2, <1>4 DEF Needs, flatVars
<1>9. /\ requested' \in Nat /\ delivered' <= requested' /\ Needs' \in Nat /\ Needs <= Needs' /\ Needs' > 0
      /\ requested' > 0
      /\ demand' = "one" => requested' <= delivered' + 1
      /\ demand' = "all" => requested = 0 /\ requested' = Infinity
  BY <1>2, <1>4, <1>8
<1>10. Stock' /\ Numbers'
  <2>1. Stock'
    BY <1>1 DEF FlatMapInv, Stock
  <2> QED  BY <1>2, <1>8, <1>9, <2>1 DEF Numbers, Infinity
<1>11. Alive' /\ Gone' /\ Completes'
  BY <1>1, <1>3, <1>6 DEF FlatMapInv, Alive, Gone, Completes, Drained, flatVars
<1>12. Owed'
  <2>1. fwdSub => waiting <= Needs /\ requested > 0 /\ inner.owed = waiting /\ ~requestedNext
    BY <1>3 DEF FlatMapInv, Owed
  <2>2. fwdSub => demand # "all" /\ waiting' <= Needs'
    BY <1>2, <1>8, <1>9, <2>1
  <2> QED  BY <1>1, <1>3, <1>9, <2>1, <2>2 DEF FlatMapInv, Owed, flatVars
<1>13. Dying'
  BY <1>1, <1>3, <1>6, <1>9 DEF FlatMapInv, Dying, flatVars
<1>14. Passed'
  BY <1>6 DEF Passed, Drained
<1> QED  BY <1>1, <1>6, <1>7, <1>10, <1>11, <1>12, <1>13, <1>14 DEF FlatMapInv, Drained

\* The sink cancels.
LEMMA CancelKept ==
  ASSUME FlatMapInv, Tame(demand), Cancel
  PROVE  FlatMapInv'
<1>1. /\ End("cancelled") /\ outcome = "none" /\ (stack # <<>> => Top = "sink")
      /\ IF deleted' THEN Released ELSE UNCHANGED <<inner, outer>>
      /\ stack # <<>> => Cancels[demand] = "any" \/ (Cancels[demand] = "settled" /\ Needs = 0)
      /\ UNCHANGED <<demand, requested, delivered, inDrain, drainRequested, source, sourceComplete,
                     requestedNext, fwdSub, waiting, stack, failed>>
  BY DEF Cancel, SinkMayAct
<1>2. /\ Infinity \in Nat /\ Infinity > 0 /\ delivered < Infinity
      /\ requested \in Nat /\ delivered \in Nat /\ waiting \in Nat /\ delivered <= requested
      /\ Needs \in Nat /\ Needs = requested - delivered /\ demand \in {"all", "one"}
  BY Counts
<1>3. ~deleted /\ ~die /\ (inDrain <=> Draining(stack)) /\ (inner.open <=> fwdSub) /\ (outer.open <=> source)
      /\ inDrain \in BOOLEAN /\ deleted = FALSE /\ die = FALSE
  BY <1>1 DEF FlatMapInv, Alive, Gone, Flags
<1>4. /\ outcome' = "cancelled" /\ (deleted' <=> ~inDrain) /\ (die' <=> inDrain)
      /\ deleted' \in BOOLEAN /\ die' \in BOOLEAN
  <2>1. End("cancelled")
    BY <1>1
  <2> QED  BY <1>3, <2>1 DEF End, DiesNow
<1>5. \/ inDrain /\ inner' = inner /\ outer' = outer
      \/ /\ ~inDrain /\ inner'.open = FALSE /\ outer'.open = FALSE
         /\ inner'.owed = inner.owed /\ outer'.owed = outer.owed
         /\ inner'.left = inner.left /\ outer'.left = outer.left
  <2>1. CASE inDrain
    <3>1. inner' = inner /\ outer' = outer
      BY <1>1, <1>4, <2>1, Zenon
    <3> QED  BY <2>1, <3>1
  <2>2. CASE ~inDrain
    <3>1. Released
      BY <1>1, <1>4, <2>2
    <3>2. /\ inner \in [open : BOOLEAN, owed : Nat, left : 0..Elements]
          /\ outer \in [open : BOOLEAN, owed : 0..1, left : 0..Packets]
      BY DEF FlatMapInv, Stock
    <3>3. inner'.open = FALSE /\ outer'.open = FALSE
      BY <1>1, <1>3, <3>1, <3>2, Zenon DEF Released
    <3>4. /\ inner'.owed = inner.owed /\ inner'.left = inner.left
      BY <3>1, <3>2 DEF Released
    <3>5. outer'.owed = outer.owed /\ outer'.left = outer.left
      BY <3>1, <3>2 DEF Released
    <3> QED  BY <2>2, <3>3, <3>4, <3>5
  <2> QED  BY <1>3, <2>1, <2>2
<1>6. Stock'
  <2>1. CASE inner' = inner /\ outer' = outer
    BY <1>1, <2>1 DEF FlatMapInv, Stock
  <2>2. CASE ~inDrain
    <3>1. Released /\ delivered' = delivered
      BY <1>1, <1>4, <2>2
    <3>2. /\ inner \in [open : BOOLEAN, owed : Nat, left : 0..Elements]
          /\ outer \in [open : BOOLEAN, owed : 0..1, left : 0..Packets]
          /\ delivered + inner.left + outer.left * Elements <= Packets * Elements
      BY DEF FlatMapInv, Stock
    <3>3. /\ inner' \in [open : BOOLEAN, owed : Nat, left : 0..Elements]
          /\ outer' \in [open : BOOLEAN, owed : 0..1, left : 0..Packets]
      BY <3>1, <3>2, Zenon DEF Released
    <3>4. delivered' + inner'.left + outer'.left * Elements <= Packets * Elements
      BY <1>5, <2>2, <3>1, <3>2
    <3> QED  BY <3>3, <3>4 DEF Stock
  <2> QED  BY <1>5, <2>1, <2>2
<1>7. Flags'
  BY <1>1, <1>4, <1>5 DEF FlatMapInv, Flags
<1>8. Numbers'
  BY <1>1, <1>6 DEF FlatMapInv, Numbers, Infinity
<1>9. Needs' = Needs
  BY <1>1 DEF Needs
<1>10. Alive' /\ Gone' /\ Completes'
  BY <1>1, <1>3, <1>4, <1>5 DEF FlatMapInv, Alive, Gone, Completes
<1>11. Owed'
  BY <1>1, <1>3, <1>4, <1>5, <1>9 DEF FlatMapInv, Owed
<1>12. ASSUME inDrain PROVE /\ fwdSub /\ outer.owed = 0 /\ waiting = 0 /\ "inner" \notin Eager[demand]
  <2>1. stack # <<>> /\ Top = "sink"
    BY <1>1, <1>3, <1>12 DEF Draining
  <2>2. fwdSub /\ (demand = "one" => waiting = 0) /\ waiting <= Needs /\ (demand = "all" => requested = Infinity)
    BY <1>3, <1>12, <2>1 DEF FlatMapInv, Dying, Owed
  <2>3. outer.owed = 0
    <3>1. ~(outer.owed > 0)
      BY <2>2 DEF FlatMapInv, Owed
    <3>2. outer.owed \in 0..1
      BY Stocks
    <3> QED  BY <3>1, <3>2
  <2>4. demand = "all" => Needs # 0
    BY <1>2, <2>2
  <2>5. demand = "one" /\ Cancels[demand] # "never"
    BY <1>1, <1>2, <2>1, <2>4 DEF Tame
  <2> QED  BY <2>2, <2>3, <2>5 DEF Tame
<1>13. Dying'
  BY <1>1, <1>4, <1>5, <1>12 DEF FlatMapInv, Dying
<1>14. Passed'
  BY <1>3, <1>4 DEF Passed
<1> QED  BY <1>1, <1>6, <1>7, <1>8, <1>10, <1>11, <1>13, <1>14 DEF FlatMapInv

\* What is known when the source of a packet calls.
LEMMA InnerIsThere ==
  ASSUME FlatMapInv, InnerMayAct
  PROVE  /\ ~deleted /\ fwdSub /\ inner.owed = waiting /\ waiting <= Needs /\ requested > 0 /\ ~requestedNext
         /\ outer.owed = 0 /\ (outer.open <=> source) /\ (inDrain <=> Draining(stack)) /\ (die <=> outcome # "none")
         /\ die => waiting = 0 /\ "inner" \notin Eager[demand] /\ stack # <<>>
         /\ demand = "all" => waiting = Needs /\ requested = Infinity
         /\ stack # <<>> => Top \in {"subscribes", "asks inner"}
         /\ inDrain \in BOOLEAN /\ die \in BOOLEAN /\ drainRequested \in BOOLEAN
         /\ stack \in Seq(Frames) /\ Nested(stack)
<1>1. ~deleted /\ inner.open /\ (stack # <<>> => Top \in {"subscribes", "asks inner"})
  BY DEF FlatMapInv, InnerMayAct, Gone
<1>2. fwdSub /\ (outer.open <=> source) /\ (inDrain <=> Draining(stack)) /\ (die <=> outcome # "none") /\ (die => inDrain)
  BY <1>1 DEF FlatMapInv, Alive
<1>3. /\ inner.owed = waiting /\ waiting <= Needs /\ requested > 0 /\ ~requestedNext
      /\ demand = "all" => waiting = Needs
  BY <1>1, <1>2 DEF FlatMapInv, Owed
<1>4. outer.owed = 0
  <2>1. outer.owed \in 0..1 /\ ~(outer.owed > 0)
    BY <1>2 DEF FlatMapInv, Owed, Stock
  <2> QED  BY <2>1
<1>5. die => waiting = 0 /\ "inner" \notin Eager[demand] /\ stack # <<>>
  <2>1. die => waiting = 0 /\ "inner" \notin Eager[demand]
    BY <1>1, <1>2 DEF FlatMapInv, Dying
  <2>2. Draining(stack) => stack # <<>>
    BY DEF Draining
  <2> QED  BY <1>2, <2>1, <2>2
<1>6. demand = "all" => requested = Infinity
  BY <1>3, Counts
<1>7. inDrain \in BOOLEAN /\ die \in BOOLEAN /\ drainRequested \in BOOLEAN /\ stack \in Seq(Frames) /\ Nested(stack)
  BY DEF FlatMapInv, Flags
<1> QED  BY <1>1, <1>2, <1>3, <1>4, <1>5, <1>6, <1>7

\* An element of the packet goes to the sink.
LEMMA InnerNextKept ==
  ASSUME FlatMapInv, InnerNext
  PROVE  FlatMapInv'
<1>1. /\ InnerMayAct /\ inner.owed > 0 /\ inner.left > 0
      /\ inner' = [inner EXCEPT !.owed = @ - 1, !.left = @ - 1]
      /\ IF waiting = 0 \/ die
         THEN Fails(IF die THEN "!_die" ELSE "_waiting_from_upstream > 0")
              /\ UNCHANGED <<waiting, delivered, stack>>
         ELSE waiting' = waiting - 1 /\ delivered' = delivered + 1 /\ stack' = Append(stack, "sink") /\ UNCHANGED failed
      /\ UNCHANGED <<demand, requested, inDrain, die, drainRequested, source, sourceComplete, requestedNext,
                     fwdSub, deleted, outer, outcome>>
  BY DEF InnerNext
<1>2. /\ Infinity \in Nat /\ Infinity > 0 /\ delivered < Infinity
      /\ requested \in Nat /\ delivered \in Nat /\ waiting \in Nat /\ delivered <= requested
      /\ Needs \in Nat /\ Needs = requested - delivered /\ demand \in {"all", "one"}
      /\ demand = "one" => requested <= delivered + 1
      /\ demand = "all" => requested = 0 \/ requested = Infinity
  BY Counts
<1>3. /\ ~deleted /\ fwdSub /\ inner.owed = waiting /\ waiting <= Needs /\ requested > 0 /\ ~requestedNext
      /\ outer.owed = 0 /\ (inDrain <=> Draining(stack)) /\ (die <=> outcome # "none")
      /\ die => waiting = 0
      /\ demand = "all" => waiting = Needs /\ requested = Infinity
      /\ stack # <<>> => Top \in {"subscribes", "asks inner"}
      /\ stack \in Seq(Frames) /\ Nested(stack)
  BY <1>1, InnerIsThere
<1>4. waiting > 0 /\ ~die /\ waiting # 0
  <2>1. inner.owed > 0 /\ inner.owed = waiting
    BY <1>1, <1>3
  <2>2. waiting > 0 /\ waiting # 0
    BY <1>2, <2>1
  <2> QED  BY <1>3, <2>2
<1>5. waiting' = waiting - 1 /\ delivered' = delivered + 1 /\ stack' = Append(stack, "sink") /\ failed' = failed
  BY <1>1, <1>4, Zenon
<1>6. /\ stack' \in Seq(Frames) /\ Nested(stack') /\ stack' # <<>> /\ Top' = "sink"
      /\ Draining(stack') <=> Draining(stack)
      /\ AsksOfInner(stack') <=> AsksOfInner(stack)
  <2>1. "sink" \in Frames /\ "sink" \notin Drains /\ MayCall(stack, "sink")
    BY <1>3 DEF Frames, Drains, MayCall, Top
  <2> QED  BY <1>3, <1>5, <2>1, Calls DEF Top
<1>7. /\ inner.owed > 0 /\ inner.left > 0 /\ inner' = [inner EXCEPT !.owed = @ - 1, !.left = @ - 1]
      /\ inner \in [open : BOOLEAN, owed : Nat, left : 0..Elements]
      /\ Elements \in Nat /\ inner.owed \in Nat /\ inner.left \in Nat
  BY <1>1, Stocks
<1>8. /\ inner'.open = inner.open /\ inner'.owed = inner.owed - 1 /\ inner'.left = inner.left - 1
  BY <1>7
<1>9. Stock'
  <2>1. inner' \in [open : BOOLEAN, owed : Nat, left : 0..Elements]
    <3>1. inner.left \in 0..Elements
      BY <1>7
    <3>2. inner.owed - 1 \in Nat /\ inner.left - 1 \in 0..Elements
      BY <1>7, <3>1
    <3> QED  BY <1>7, <3>2, Zenon
  <2>2. delivered + inner.left + outer.left * Elements <= Packets * Elements
    BY DEF FlatMapInv, Stock
  <2>3. outer.left * Elements \in Nat /\ Packets * Elements \in Nat
    BY Stocks
  <2> DEFINE behind == outer.left * Elements
  <2> DEFINE all == Packets * Elements
  <2> HIDE DEF behind, all
  <2>4. delivered' + inner'.left + behind <= all
    <3>1. delivered + inner.left + behind <= all /\ behind \in Nat /\ all \in Nat
      BY <2>2, <2>3 DEF behind, all
    <3> QED  BY <1>2, <1>5, <1>7, <1>8, <3>1
  <2>5. delivered' + inner'.left + outer'.left * Elements <= Packets * Elements
    BY <1>1, <2>4 DEF behind, all
  <2>6. outer' \in [open : BOOLEAN, owed : 0..1, left : 0..Packets]
    BY <1>1 DEF FlatMapInv, Stock
  <2> QED  BY <2>1, <2>5, <2>6 DEF Stock
<1>10. Flags'
  <2>1. Flags  BY DEF FlatMapInv
  <2>2. UNCHANGED <<inDrain, die, drainRequested, source, sourceComplete, requestedNext,
               fwdSub, deleted, demand, outcome>>
    BY <1>1, <1>8
  <2>3. outer'.open = outer.open /\ inner'.open = inner.open  BY <1>1, <1>8
  <2> QED  BY <2>1, <2>2, <2>3, <1>6, FlagsStay
<1>11. Needs' = Needs - 1 /\ requested' = requested /\ demand' = demand
  <2>1. requested' = requested /\ demand' = demand
    BY <1>1
  <2>2. Needs' = requested' - delivered'
    BY DEF Needs
  <2> QED  BY <1>2, <1>5, <2>1, <2>2
<1>12. /\ waiting' \in Nat /\ delivered' \in Nat /\ delivered' <= requested'
       /\ demand' = "one" => requested' <= delivered' + 1 /\ waiting' = 0 /\ Needs' = 0
       /\ demand' = "all" => waiting' = Needs' /\ requested' = Infinity
       /\ waiting' <= Needs' /\ (waiting = Needs => waiting' = Needs') /\ inner'.owed = waiting'
  <2>1. /\ waiting <= Needs /\ inner.owed = waiting /\ (demand = "all" => waiting = Needs /\ requested = Infinity)
    BY <1>3
  <2>2. waiting' = waiting - 1 /\ delivered' = delivered + 1
    BY <1>5
  <2> QED  BY <1>2, <1>4, <1>8, <1>11, <2>1, <2>2
<1>13. Numbers'
  BY <1>2, <1>11, <1>12 DEF Numbers, Infinity
<1>14. Alive' /\ Gone' /\ Completes'
  BY <1>1, <1>3, <1>6, <1>8 DEF FlatMapInv, Alive, Gone, Completes
<1>15. Owed'
  <2>1. outer'.owed = 0 /\ fwdSub' = fwdSub /\ requestedNext' = requestedNext /\ deleted' = deleted
    BY <1>1, <1>3
  <2>2. ~(outer'.owed > 0)
    BY <2>1
  <2> QED  BY <1>3, <1>11, <1>12, <2>1, <2>2 DEF Owed
<1>16. Dying'
  BY <1>1, <1>3, <1>4, <1>12 DEF Dying, Infinity
<1>17. Passed'
  <2>1. AsksOfInner(stack') /\ ~drainRequested' => waiting' = Needs'
    BY <1>1, <1>3, <1>4, <1>6, <1>12 DEF FlatMapInv, Passed
  <2>2. Needs' > 0 => waiting' > 0
    <3>1. demand' = "one" \/ demand' = "all"
      BY <1>2, <1>11
    <3> QED  BY <1>12, <3>1
  <2> QED  BY <1>1, <1>3, <2>1, <2>2 DEF Passed
<1> QED  BY <1>1, <1>5, <1>6, <1>9, <1>10, <1>13, <1>14, <1>15, <1>16, <1>17 DEF FlatMapInv

\* The source of a packet is done, and drain() takes it from there.
LEMMA InnerCompleteKept ==
  ASSUME FlatMapInv, InnerComplete
  PROVE  FlatMapInv'
<1>1. /\ InnerMayAct /\ inner' = [inner EXCEPT !.open = FALSE] /\ fwdSub' = FALSE /\ waiting' = 0 /\ Drain(stack)
      /\ UNCHANGED <<demand, requested, delivered, die, source, sourceComplete, requestedNext, deleted,
                     outer, outcome, failed>>
  BY DEF InnerComplete, CompleteDrains
<1>2. /\ ~deleted /\ fwdSub /\ ~requestedNext /\ requested > 0
      /\ outer.owed = 0 /\ (inDrain <=> Draining(stack)) /\ (die <=> outcome # "none")
      /\ die => waiting = 0 /\ stack # <<>>
      /\ demand = "all" => requested = Infinity
      /\ stack # <<>> => Top \in {"subscribes", "asks inner"}
      /\ inDrain \in BOOLEAN /\ die \in BOOLEAN /\ drainRequested \in BOOLEAN
      /\ stack \in Seq(Frames) /\ Nested(stack)
  BY <1>1, InnerIsThere
<1>3. stack # <<>> => Top # "loop" /\ Top # "sink"
  BY <1>2
<1>4. Drained' /\ ((inDrain /\ stack' = stack) \/ Top' = "loop")
  BY <1>1, <1>2, <1>3, DrainRuns
<1>5. /\ inner \in [open : BOOLEAN, owed : Nat, left : 0..Elements]
      /\ inner' = [inner EXCEPT !.open = FALSE]
  BY <1>1, Stocks
<1>6. /\ inner' \in [open : BOOLEAN, owed : Nat, left : 0..Elements]
      /\ inner'.open = FALSE /\ inner'.left = inner.left
  BY <1>5
<1>7. Stock'
  BY <1>1, <1>6 DEF FlatMapInv, Stock
<1>8. Flags'
  BY <1>1, <1>4, <1>6 DEF FlatMapInv, Flags, Drained
<1>9. Numbers'
  <2>1. waiting' \in Nat
    BY <1>1
  <2> QED  BY <1>1, <2>1 DEF FlatMapInv, Numbers, Infinity
<1>10. Alive' /\ Gone' /\ Completes'
  BY <1>1, <1>2, <1>4, <1>6 DEF FlatMapInv, Alive, Gone, Completes, Drained
<1>11. Owed'
  <2>1. outer'.owed = 0 /\ fwdSub' = FALSE /\ ~requestedNext'
    BY <1>1, <1>2
  <2>2. ~(outer'.owed > 0)
    BY <2>1
  <2> QED  BY <2>1, <2>2 DEF Owed
<1>12. Dying'
  <2>1. stack' # <<>> /\ Top' # "sink"
    BY <1>2, <1>3, <1>4 DEF Top, Drained, Draining
  <2>2. /\ outer'.owed = 0 /\ fwdSub' = FALSE
        /\ demand' = "all" => requested' = Infinity'
    BY <1>1, <1>2 DEF Infinity
  <2> QED  BY <2>1, <2>2 DEF Dying
<1>13. Passed'
  BY <1>4 DEF Passed, Drained
<1> QED  BY <1>1, <1>4, <1>7, <1>8, <1>9, <1>10, <1>11, <1>12, <1>13 DEF FlatMapInv, Drained

\* A source fails, or the outer one completes, and nothing is left to deliver.
EndsNow(how) ==
  /\ outcome' = how /\ how # "none" /\ deleted' = ~inDrain /\ die' = inDrain

LEMMA EndingNow ==
  ASSUME NEW how \in {"complete", "error"}, ~deleted, ~die, deleted \in BOOLEAN, die \in BOOLEAN,
         inDrain \in BOOLEAN, End(how)
  PROVE  EndsNow(how)
BY DEF End, EndsNow, DiesNow

\* The source of a packet fails.
LEMMA InnerErrorKept ==
  ASSUME FlatMapInv, InnerError
  PROVE  FlatMapInv'
<1>1. /\ InnerMayAct /\ Ends("inner", inner.owed) /\ inner' = [inner EXCEPT !.open = FALSE] /\ fwdSub' = FALSE /\ waiting' = 0
      /\ IF die THEN Fails("!_die") /\ UNCHANGED <<die, deleted, outcome>> ELSE End("error") /\ UNCHANGED failed
      /\ outer' = [outer EXCEPT !.open = @ /\ ~deleted']
      /\ UNCHANGED <<demand, requested, delivered, inDrain, drainRequested, source, sourceComplete,
                     requestedNext, stack>>
  BY DEF InnerError
<1>2. /\ ~deleted /\ fwdSub /\ ~requestedNext /\ requested > 0 /\ inner.owed = waiting
      /\ outer.owed = 0 /\ (outer.open <=> source) /\ (inDrain <=> Draining(stack)) /\ (die <=> outcome # "none")
      /\ die => waiting = 0 /\ "inner" \notin Eager[demand] /\ stack # <<>>
      /\ demand = "all" => requested = Infinity
      /\ stack # <<>> => Top \in {"subscribes", "asks inner"}
      /\ inDrain \in BOOLEAN /\ die \in BOOLEAN
  BY <1>1, InnerIsThere
<1>3. ~die
  <2>1. die => ~(inner.owed > 0)
    <3>1. die => inner.owed = 0
      BY <1>2
    <3>2. inner.owed = 0 => ~(inner.owed > 0)
      OBVIOUS
    <3> QED  BY <3>1, <3>2
  <2> QED  BY <1>1, <1>2, <2>1 DEF Ends
<1>4. EndsNow("error") /\ failed' = failed
  <2>1. deleted \in BOOLEAN
    BY DEF FlatMapInv, Flags
  <2>2. End("error") /\ failed' = failed
    BY <1>1, <1>3, Zenon
  <2> QED  BY <1>2, <1>3, <2>1, <2>2, EndingNow
<1>5. /\ inner \in [open : BOOLEAN, owed : Nat, left : 0..Elements]
      /\ inner' = [inner EXCEPT !.open = FALSE]
      /\ outer \in [open : BOOLEAN, owed : 0..1, left : 0..Packets]
      /\ outer' = [outer EXCEPT !.open = @ /\ ~deleted']
  BY <1>1, Stocks
<1>6. /\ inner' \in [open : BOOLEAN, owed : Nat, left : 0..Elements]
      /\ inner'.open = FALSE /\ inner'.left = inner.left
  BY <1>5
<1>7. /\ outer' \in [open : BOOLEAN, owed : 0..1, left : 0..Packets]
      /\ outer'.open <=> outer.open /\ ~deleted'
  BY <1>5, Zenon
<1>8. outer'.owed = outer.owed /\ outer'.left = outer.left
  BY <1>5
<1>9. Stock'
  <2>1. delivered' + inner'.left + outer'.left * Elements <= Packets * Elements
    BY <1>1, <1>6, <1>8 DEF FlatMapInv, Stock
  <2> QED  BY <1>6, <1>7, <2>1 DEF Stock
<1>10. Flags'
  <2>1. inner'.open \in BOOLEAN /\ outer'.open \in BOOLEAN
    BY <1>6, <1>7
  <2> QED  BY <1>1, <1>2, <1>4, <2>1 DEF FlatMapInv, Flags, EndsNow
<1>11. Numbers'
  <2>1. waiting' \in Nat
    BY <1>1
  <2> QED  BY <1>1, <2>1 DEF FlatMapInv, Numbers, Infinity
<1>12. Alive' /\ Gone' /\ Completes'
  BY <1>1, <1>2, <1>4, <1>6, <1>7 DEF FlatMapInv, Alive, Gone, Completes, EndsNow
<1>13. Owed'
  <2>1. outer'.owed = 0 /\ fwdSub' = FALSE /\ ~requestedNext'
    BY <1>1, <1>2, <1>8
  <2>2. ~(outer'.owed > 0)
    BY <2>1
  <2> QED  BY <2>1, <2>2 DEF Owed
<1>14. Dying'
  <2>1. stack' # <<>> => Top' # "sink"
    BY <1>1, <1>2 DEF Top
  <2>2. /\ outer'.owed = 0 /\ fwdSub' = FALSE
        /\ demand' = "all" => requested' = Infinity'
    BY <1>1, <1>2, <1>8 DEF Infinity
  <2> QED  BY <2>1, <2>2 DEF Dying
<1>15. Passed'
  BY <1>1, <1>2, <1>4 DEF Passed, EndsNow
<1> QED  BY <1>1, <1>4, <1>9, <1>10, <1>11, <1>12, <1>13, <1>14, <1>15 DEF FlatMapInv

\* What is known when the outer source calls.
LEMMA OuterIsThere ==
  ASSUME FlatMapInv, OuterMayAct
  PROVE  /\ ~deleted /\ source
         /\ (inDrain <=> Draining(stack)) /\ (inner.open <=> fwdSub) /\ (die <=> outcome # "none")
         /\ outer.owed > 0 => ~fwdSub /\ Needs > 0 /\ ~die
         /\ die => stack # <<>> /\ outer.owed = 0
         /\ ~sourceComplete /\ outcome # "complete"
         /\ stack # <<>> => Top = "asks outer"
         /\ inDrain \in BOOLEAN /\ die \in BOOLEAN /\ drainRequested \in BOOLEAN /\ deleted \in BOOLEAN
         /\ stack \in Seq(Frames) /\ Nested(stack) /\ deleted = FALSE
<1>1. ~deleted /\ outer.open /\ (stack # <<>> => Top = "asks outer")
  BY DEF FlatMapInv, OuterMayAct, Gone
<1>2. /\ source /\ (inDrain <=> Draining(stack)) /\ (inner.open <=> fwdSub) /\ (die <=> outcome # "none")
      /\ die => inDrain
  BY <1>1 DEF FlatMapInv, Alive
<1>3. ~sourceComplete /\ outcome # "complete"
  BY <1>1 DEF FlatMapInv, Completes
<1>4. Draining(stack) => stack # <<>>
  BY DEF Draining
<1>5. die => outer.owed = 0
  BY <1>1 DEF FlatMapInv, Dying
<1>6. outer.owed = 0 => ~(outer.owed > 0)
  OBVIOUS
<1>7. outer.owed > 0 => ~fwdSub /\ Needs > 0
  BY DEF FlatMapInv, Owed
<1>8. /\ inDrain \in BOOLEAN /\ die \in BOOLEAN /\ drainRequested \in BOOLEAN /\ deleted \in BOOLEAN
      /\ stack \in Seq(Frames) /\ Nested(stack)
  BY DEF FlatMapInv, Flags
<1> QED  BY <1>1, <1>2, <1>3, <1>4, <1>5, <1>6, <1>7, <1>8

\* A packet comes, and becomes a source.
LEMMA OnNextKept ==
  ASSUME FlatMapInv, NEW n \in 0..Elements, OnNext(n)
  PROVE  FlatMapInv'
<1>1. /\ OuterMayAct /\ outer.owed > 0 /\ outer.left > 0
      /\ outer' = [outer EXCEPT !.owed = @ - 1, !.left = @ - 1]
      /\ UNCHANGED <<demand, drainVars, source, sourceComplete, deleted, outcome>>
  BY DEF OnNext
<1>2. /\ ~deleted /\ ~fwdSub /\ Needs > 0 /\ ~die /\ (inDrain <=> Draining(stack)) /\ (die <=> outcome # "none")
      /\ outer.open /\ source /\ ~sourceComplete /\ outcome = "none"
      /\ stack # <<>> => Top = "asks outer"
      /\ stack \in Seq(Frames) /\ Nested(stack)
  <2>1. outer.open
    BY <1>1 DEF OuterMayAct
  <2> QED  BY <1>1, <2>1, OuterIsThere
<1>3. /\ Infinity \in Nat /\ requested \in Nat /\ delivered \in Nat /\ waiting \in Nat /\ delivered <= requested
      /\ Needs \in Nat /\ Needs = requested - delivered /\ demand \in {"all", "one"}
      /\ demand = "one" => requested <= delivered + 1
      /\ demand = "all" => requested = 0 \/ requested = Infinity
  BY Counts
<1>4. /\ requestedNext' = FALSE /\ fwdSub' = TRUE /\ waiting' = Needs
      /\ inner' = [open |-> TRUE, owed |-> Needs, left |-> n]
      /\ stack' = Append(stack, "subscribes") /\ failed' = failed
  <2>1. Needs # 0
    <3>1. Needs > 0 /\ Needs \in Nat
      BY <1>2, <1>3
    <3> QED  BY <3>1
  <2> QED  BY <1>2, <2>1, Zenon DEF OnNext
<1>5. /\ stack' \in Seq(Frames) /\ Nested(stack') /\ stack' # <<>> /\ Top' = "subscribes"
      /\ Draining(stack') <=> Draining(stack)
      /\ AsksOfInner(stack') <=> AsksOfInner(stack)
  <2>1. "subscribes" \in Frames /\ "subscribes" \notin Drains /\ MayCall(stack, "subscribes")
    BY <1>2 DEF Frames, Drains, MayCall, Top
  <2> QED  BY <1>2, <1>4, <2>1, Calls DEF Top
<1>6. /\ outer \in [open : BOOLEAN, owed : 0..1, left : 0..Packets] /\ outer.owed > 0 /\ outer.left > 0
      /\ outer.owed \in 0..1 /\ outer.left \in 0..Packets /\ Packets \in Nat /\ Elements \in Nat
      /\ outer' = [outer EXCEPT !.owed = @ - 1, !.left = @ - 1]
      /\ inner.left \in Nat /\ outer.left \in Nat
      /\ delivered + inner.left + outer.left * Elements <= Packets * Elements
  BY <1>1, Stocks
<1>7. outer'.open = outer.open /\ outer'.owed = 0 /\ outer'.left = outer.left - 1
  <2>1. outer.owed - 1 = 0
    BY <1>6
  <2> QED  BY <1>6, <2>1
<1>8. outer' \in [open : BOOLEAN, owed : 0..1, left : 0..Packets]
  <2>1. outer.owed - 1 \in 0..1 /\ outer.left - 1 \in 0..Packets
    BY <1>6
  <2> QED  BY <1>6, <2>1, Zenon
<1>9. inner' \in [open : BOOLEAN, owed : Nat, left : 0..Elements] /\ inner'.open = TRUE /\ inner'.owed = Needs /\ inner'.left = n
  BY <1>3, <1>4
<1>10. delivered' + inner'.left + outer'.left * Elements <= Packets * Elements
  <2> DEFINE all == Packets * Elements
  <2>1. all \in Nat
    BY <1>6
  <2>2. PICK m \in Nat : m = outer.left - 1
    BY <1>6
  <2>3. outer.left * Elements = m * Elements + Elements /\ m * Elements \in Nat
    BY <1>6, <2>2
  <2> DEFINE behind == m * Elements
  <2> HIDE DEF all, behind
  <2>4. /\ delivered + inner.left + (behind + Elements) <= all /\ behind \in Nat
    BY <1>6, <2>3 DEF all, behind
  <2>5. delivered + n + behind <= all
    BY <1>3, <1>6, <2>1, <2>4
  <2>6. delivered' = delivered
    BY <1>1 DEF drainVars
  <2>7. delivered' + inner'.left + behind <= all
    BY <1>9, <2>5, <2>6
  <2> QED  BY <1>7, <2>2, <2>7 DEF all, behind
<1>11. Stock'
  BY <1>8, <1>9, <1>10 DEF Stock
<1>12. Flags'
  BY <1>1, <1>2, <1>4, <1>5, <1>7, <1>9 DEF FlatMapInv, Flags, drainVars
<1>13. Needs' = Needs /\ requested' = requested /\ delivered' = delivered /\ demand' = demand
  BY <1>1 DEF Needs, drainVars
<1>14. Numbers'
  BY <1>3, <1>4, <1>13 DEF Numbers, Infinity
<1>15. Alive' /\ Gone' /\ Completes'
  BY <1>1, <1>2, <1>4, <1>5, <1>7, <1>9 DEF FlatMapInv, Alive, Gone, Completes, drainVars
<1>16. requested > 0 /\ (demand = "all" => requested = Infinity)
  <2>1. Needs > 0
    BY <1>2
  <2> QED  BY <1>3, <2>1
<1>17. Owed'
  <2>1. ~(outer'.owed > 0) /\ Needs <= Needs
    BY <1>3, <1>7
  <2> QED  BY <1>4, <1>9, <1>13, <1>16, <2>1 DEF Owed
<1>18. Dying'
  BY <1>1, <1>2, <1>5, <1>7, <1>13, <1>16 DEF Dying, drainVars, Infinity
<1>19. Passed'
  BY <1>2, <1>4, <1>13 DEF Passed
<1> QED  BY <1>4, <1>5, <1>11, <1>12, <1>14, <1>15, <1>17, <1>18, <1>19 DEF FlatMapInv

\* The outer source is done: so is the sink if no packet is being flattened.
LEMMA OnCompleteKept ==
  ASSUME FlatMapInv, Tame(demand), OnComplete
  PROVE  FlatMapInv'
<1>1. /\ OuterMayAct /\ Ends("outer", outer.owed) /\ outer' = [outer EXCEPT !.open = FALSE]
      /\ source' = FALSE /\ sourceComplete' = TRUE
      /\ IF ~MayComplete THEN Drain(stack) /\ UNCHANGED <<die, deleted, outcome, failed>>
         ELSE /\ IF die THEN Fails("!_die") /\ UNCHANGED <<die, deleted, outcome>>
                 ELSE End("complete") /\ UNCHANGED failed
              /\ UNCHANGED <<drainRequested, inDrain, stack>>
      /\ inner' = [inner EXCEPT !.open = @ /\ ~deleted']
      /\ UNCHANGED <<demand, requested, delivered, requestedNext, fwdSub, waiting>>
  BY DEF OnComplete
<1>2. /\ ~deleted /\ source /\ (inDrain <=> Draining(stack)) /\ (inner.open <=> fwdSub) /\ (die <=> outcome # "none")
      /\ outer.owed > 0 => ~fwdSub /\ Needs > 0 /\ ~die
      /\ die => stack # <<>> /\ outer.owed = 0
      /\ stack # <<>> => Top = "asks outer"
      /\ inDrain \in BOOLEAN /\ die \in BOOLEAN /\ drainRequested \in BOOLEAN /\ deleted \in BOOLEAN
      /\ stack \in Seq(Frames) /\ Nested(stack)
  BY <1>1, OuterIsThere
<1>3. outer.owed > 0 \/ stack = <<>>
  BY <1>1 DEF Ends, Tame
<1>4. ~die /\ outcome = "none"
  BY <1>2, <1>3
<1>5. /\ outer \in [open : BOOLEAN, owed : 0..1, left : 0..Packets] /\ outer' = [outer EXCEPT !.open = FALSE]
      /\ inner \in [open : BOOLEAN, owed : Nat, left : 0..Elements] /\ inner' = [inner EXCEPT !.open = @ /\ ~deleted']
  BY <1>1, Stocks
<1>6. /\ outer' \in [open : BOOLEAN, owed : 0..1, left : 0..Packets] /\ outer'.open = FALSE
      /\ outer'.owed = outer.owed /\ outer'.left = outer.left
  BY <1>5
<1>7. /\ inner' \in [open : BOOLEAN, owed : Nat, left : 0..Elements]
      /\ inner'.open <=> inner.open /\ ~deleted'
  BY <1>5, Zenon
<1>8. inner'.owed = inner.owed /\ inner'.left = inner.left
  BY <1>5
<1>9. Stock'
  <2>1. delivered' + inner'.left + outer'.left * Elements <= Packets * Elements
    BY <1>1, <1>6, <1>8 DEF FlatMapInv, Stock
  <2> QED  BY <1>6, <1>7, <2>1 DEF Stock
<1>10. Numbers'
  BY <1>1 DEF FlatMapInv, Numbers, Infinity
<1>11. inner'.open \in BOOLEAN /\ outer'.open \in BOOLEAN
  BY <1>6, <1>7
<1>12. Needs' = Needs /\ requested' = requested /\ demand' = demand /\ waiting' = waiting
       /\ fwdSub' = fwdSub /\ requestedNext' = requestedNext
  BY <1>1 DEF Needs
<1>13. CASE fwdSub
  <2>1. /\ Drain(stack) /\ die' = die /\ deleted' = deleted /\ outcome' = outcome /\ failed' = failed
    BY <1>1, <1>13, Zenon DEF MayComplete
  <2>2. stack = <<>>
    BY <1>2, <1>3, <1>13
  <2>3. stack # <<>> => Top # "loop"
    BY <2>2
  <2>4. Drained' /\ ((inDrain /\ stack' = stack) \/ Top' = "loop")
    BY <1>2, <2>1, <2>3, DrainRuns
  <2>5. Flags'
    BY <1>1, <1>11, <2>1, <2>4 DEF FlatMapInv, Flags, Drained
  <2>6. Alive' /\ Gone' /\ Completes'
    BY <1>1, <1>2, <1>4, <1>6, <1>7, <2>1, <2>4 DEF FlatMapInv, Alive, Gone, Completes, Drained
  <2>7. Owed'
    BY <1>6, <1>8, <1>12, <2>1, <1>4 DEF FlatMapInv, Owed
  <2>8. requested > 0 /\ (demand = "all" => requested = Infinity)
    <3>1. requested > 0
      BY <1>2, <1>13 DEF FlatMapInv, Owed
    <3> QED  BY <3>1, Counts
  <2>9. Dying'
    <3>1. stack' # <<>> /\ Top' = "loop"
      BY <1>2, <2>2, <2>4 DEF Draining, Drained
    <3> QED  BY <1>4, <1>6, <1>12, <2>1, <2>8, <3>1 DEF Dying, Infinity
  <2>10. Passed'
    BY <2>4 DEF Passed, Drained
  <2> QED  BY <1>1, <1>9, <1>10, <2>1, <2>4, <2>5, <2>6, <2>7, <2>9, <2>10 DEF FlatMapInv, Drained
<1>14. CASE ~fwdSub
  <2>1. /\ End("complete") /\ failed' = failed
        /\ drainRequested' = drainRequested /\ inDrain' = inDrain /\ stack' = stack
    BY <1>1, <1>4, <1>14, Zenon DEF MayComplete
  <2>2. EndsNow("complete")
    BY <1>2, <1>4, <2>1, EndingNow
  <2>3. Flags'
    BY <1>1, <1>2, <1>11, <2>1, <2>2 DEF FlatMapInv, Flags, EndsNow
  <2>4. Alive' /\ Gone' /\ Completes'
    BY <1>1, <1>2, <1>4, <1>6, <1>7, <1>14, <2>1, <2>2 DEF FlatMapInv, Alive, Gone, Completes, EndsNow
  <2>5. Owed'
    BY <1>2, <1>4, <1>6, <1>12, <1>14, <2>2 DEF FlatMapInv, Owed, EndsNow
  <2>6. Dying'
    <3>1. stack' # <<>> => Top' # "sink"
      BY <1>2, <2>1 DEF Top
    <3> QED  BY <1>6, <1>12, <1>14, <2>1, <3>1 DEF FlatMapInv, Dying, Infinity
  <2>7. Passed'
    BY <1>2, <2>1, <2>2 DEF Passed, EndsNow
  <2> QED  BY <1>9, <1>10, <2>1, <2>2, <2>3, <2>4, <2>5, <2>6, <2>7 DEF FlatMapInv
<1> QED  BY <1>13, <1>14

\* The outer source fails.
LEMMA OnErrorKept ==
  ASSUME FlatMapInv, Tame(demand), OnError
  PROVE  FlatMapInv'
<1>1. /\ OuterMayAct /\ Ends("outer", outer.owed) /\ outer' = [outer EXCEPT !.open = FALSE] /\ source' = FALSE
      /\ IF die THEN Fails("!_die") /\ UNCHANGED <<die, deleted, outcome>> ELSE End("error") /\ UNCHANGED failed
      /\ inner' = [inner EXCEPT !.open = @ /\ ~deleted']
      /\ UNCHANGED <<demand, requested, delivered, inDrain, drainRequested, sourceComplete, requestedNext,
                     fwdSub, waiting, stack>>
  BY DEF OnError
<1>2. /\ ~deleted /\ source /\ (inDrain <=> Draining(stack)) /\ (inner.open <=> fwdSub) /\ (die <=> outcome # "none")
      /\ outer.owed > 0 => ~fwdSub /\ Needs > 0 /\ ~die
      /\ die => stack # <<>> /\ outer.owed = 0
      /\ stack # <<>> => Top = "asks outer"
      /\ ~sourceComplete
      /\ inDrain \in BOOLEAN /\ die \in BOOLEAN /\ deleted \in BOOLEAN
  BY <1>1, OuterIsThere
<1>3. outer.owed > 0 \/ stack = <<>>
  BY <1>1 DEF Ends, Tame
<1>4. ~die /\ outcome = "none"
  BY <1>2, <1>3
<1>5. EndsNow("error") /\ failed' = failed
  <2>1. End("error") /\ failed' = failed
    BY <1>1, <1>4, Zenon
  <2> QED  BY <1>2, <1>4, <2>1, EndingNow
<1>6. /\ outer \in [open : BOOLEAN, owed : 0..1, left : 0..Packets] /\ outer' = [outer EXCEPT !.open = FALSE]
      /\ inner \in [open : BOOLEAN, owed : Nat, left : 0..Elements] /\ inner' = [inner EXCEPT !.open = @ /\ ~deleted']
  BY <1>1, Stocks
<1>7. /\ outer' \in [open : BOOLEAN, owed : 0..1, left : 0..Packets] /\ outer'.open = FALSE
      /\ outer'.owed = outer.owed /\ outer'.left = outer.left
  BY <1>6
<1>8. /\ inner' \in [open : BOOLEAN, owed : Nat, left : 0..Elements]
      /\ inner'.open <=> inner.open /\ ~deleted'
  BY <1>6, Zenon
<1>9. inner'.owed = inner.owed /\ inner'.left = inner.left
  BY <1>6
<1>10. Stock'
  <2>1. delivered' + inner'.left + outer'.left * Elements <= Packets * Elements
    BY <1>1, <1>7, <1>9 DEF FlatMapInv, Stock
  <2> QED  BY <1>7, <1>8, <2>1 DEF Stock
<1>11. Numbers'
  BY <1>1 DEF FlatMapInv, Numbers, Infinity
<1>12. inner'.open \in BOOLEAN /\ outer'.open \in BOOLEAN
  BY <1>7, <1>8
<1>13. Needs' = Needs /\ requested' = requested /\ demand' = demand /\ waiting' = waiting
       /\ fwdSub' = fwdSub /\ requestedNext' = requestedNext
  BY <1>1 DEF Needs
<1>14. Flags'
  BY <1>1, <1>2, <1>5, <1>12 DEF FlatMapInv, Flags, EndsNow
<1>15. Alive' /\ Gone' /\ Completes'
  BY <1>1, <1>2, <1>4, <1>5, <1>7, <1>8 DEF FlatMapInv, Alive, Gone, Completes, EndsNow
<1>16. Owed'
  BY <1>2, <1>4, <1>5, <1>7, <1>9, <1>13 DEF FlatMapInv, Owed, EndsNow
<1>17. die' => ~fwdSub
  <2>1. Draining(stack) => stack # <<>>
    BY DEF Draining
  <2>2. die' <=> inDrain
    BY <1>2, <1>5 DEF EndsNow
  <2> QED  BY <1>2, <1>3, <2>1, <2>2
<1>18. Dying'
  <2>1. stack' # <<>> => Top' # "sink"
    BY <1>1, <1>2 DEF Top
  <2>2. stack' # <<>> /\ demand' = "all" => requested' = Infinity'
    BY <1>1 DEF FlatMapInv, Dying, Infinity
  <2>3. outer'.open = FALSE /\ (die' => ~fwdSub')
    BY <1>7, <1>13, <1>17
  <2> QED  BY <2>1, <2>2, <2>3 DEF Dying
<1>19. Passed'
  BY <1>1, <1>2, <1>5 DEF Passed, EndsNow
<1> QED  BY <1>1, <1>5, <1>10, <1>11, <1>14, <1>15, <1>16, <1>18, <1>19 DEF FlatMapInv

-----------------------------------------------------------------------------
(* The loop of drain().                                                    *)

\* What is known in drain(), and of what it turns to.
LEMMA LoopIsThere ==
  ASSUME FlatMapInv, stack # <<>>, Top \in Drains
  PROVE  /\ ~deleted /\ inDrain /\ Draining(stack)
         /\ \A f \in Drains :
              LET t == Append(Below, f)
              IN  /\ t \in Seq(Frames) /\ Nested(t) /\ Draining(t) /\ t # <<>> /\ t[Len(t)] = f
                  /\ AsksOfInner(t) <=> f = "asks inner"
         /\ Below \in Seq(Frames) /\ Nested(Below) /\ ~Draining(Below) /\ ~AsksOfInner(Below)
         /\ AsksOfInner(stack) <=> Top = "asks inner"
<1>1. stack \in Seq(Frames) /\ Nested(stack)
  BY DEF FlatMapInv, Flags
<1>2. /\ Below \in Seq(Frames) /\ Nested(Below) /\ ~Draining(Below) /\ Draining(stack)
      /\ AsksOfInner(stack) <=> AsksOfInner(Below) \/ Top = "asks inner"
  BY <1>1, Popped DEF Below, Top
<1>3. ~AsksOfInner(Below)
  BY <1>2 DEF AsksOfInner, Draining, Drains
<1>4. ~deleted /\ inDrain
  BY <1>2 DEF FlatMapInv, Gone, Alive
<1>5. ASSUME NEW f \in Drains
      PROVE  LET t == Append(Below, f)
             IN  /\ t \in Seq(Frames) /\ Nested(t) /\ Draining(t) /\ t # <<>> /\ t[Len(t)] = f
                 /\ AsksOfInner(t) <=> f = "asks inner"
  BY <1>1, Turns DEF Below, Top
<1> QED  BY <1>2, <1>3, <1>4, <1>5

\* drain() asks the source of the packet.
LEMMA DrainInnerKept ==
  ASSUME FlatMapInv, DrainInner
  PROVE  FlatMapInv'
<1>1. /\ stack # <<>> /\ Top = "loop" /\ Needs > 0 /\ ~die /\ fwdSub /\ waiting = 0
      /\ drainRequested' = FALSE /\ waiting' = waiting + Needs
      /\ inner' = [inner EXCEPT !.owed = @ + Needs]
      /\ stack' = Append(Below, "asks inner")
      /\ UNCHANGED <<demand, requested, delivered, inDrain, die, source, sourceComplete, requestedNext, fwdSub,
                     deleted, outer, outcome, failed>>
  BY DEF DrainInner, InLoop, Goes, AsksInner
<1>2. "loop" \in Drains /\ "asks inner" \in Drains
  BY DEF Drains
<1>3. /\ ~deleted /\ inDrain /\ Draining(stack)
      /\ stack' \in Seq(Frames) /\ Nested(stack') /\ Draining(stack') /\ stack' # <<>> /\ Top' = "asks inner"
      /\ AsksOfInner(stack')
  BY <1>1, <1>2, LoopIsThere DEF Top
<1>4. /\ requested \in Nat /\ delivered \in Nat /\ waiting \in Nat /\ Needs \in Nat
  BY Counts
<1>5. inner.owed = 0 /\ requested > 0 /\ ~requestedNext /\ (demand = "all" => waiting = Needs)
  BY <1>1, <1>3 DEF FlatMapInv, Owed
<1>6. waiting' = Needs /\ waiting' \in Nat /\ Needs # 0
  <2>1. waiting' = waiting + Needs /\ waiting = 0 /\ Needs > 0
    BY <1>1
  <2> QED  BY <1>4, <2>1
<1>7. demand # "all"
  BY <1>1, <1>5, <1>6
<1>8. /\ inner \in [open : BOOLEAN, owed : Nat, left : 0..Elements]
      /\ inner' = [inner EXCEPT !.owed = @ + Needs] /\ inner.owed + Needs = Needs
  <2>1. inner.owed = 0 /\ Needs \in Nat
    BY <1>4, <1>5
  <2>2. inner.owed + Needs = Needs
    BY <2>1
  <2> QED  BY <1>1, <2>2, Stocks
<1>9. /\ inner' \in [open : BOOLEAN, owed : Nat, left : 0..Elements]
      /\ inner'.open = inner.open /\ inner'.left = inner.left /\ inner'.owed = Needs
  BY <1>4, <1>8
<1>10. Stock'
  BY <1>1, <1>9 DEF FlatMapInv, Stock
<1>11. Flags'
  BY <1>1, <1>3, <1>9 DEF FlatMapInv, Flags
<1>12. Numbers'
  BY <1>1, <1>6 DEF FlatMapInv, Numbers, Infinity
<1>13. Alive' /\ Gone' /\ Completes'
  BY <1>1, <1>3, <1>9 DEF FlatMapInv, Alive, Gone, Completes
<1>14. Needs' = Needs /\ Needs <= Needs
  <2>1. Needs' = Needs
    BY <1>1 DEF Needs
  <2>2. Needs <= Needs
    BY <1>4
  <2> QED  BY <2>1, <2>2
<1>15. Owed'
  BY <1>1, <1>3, <1>5, <1>6, <1>7, <1>9, <1>14 DEF FlatMapInv, Owed
<1>16. Dying'
  BY <1>1, <1>3, <1>7 DEF FlatMapInv, Dying
<1>17. Passed'
  BY <1>1, <1>3, <1>6, <1>14 DEF FlatMapInv, Passed
<1> QED  BY <1>1, <1>3, <1>10, <1>11, <1>12, <1>13, <1>15, <1>16, <1>17 DEF FlatMapInv

\* drain() asks for the next packet.
LEMMA DrainOuterKept ==
  ASSUME FlatMapInv, DrainOuter
  PROVE  FlatMapInv'
<1>1. /\ stack # <<>> /\ Top = "loop" /\ Needs > 0 /\ ~die /\ ~fwdSub /\ ~requestedNext /\ ~sourceComplete
      /\ drainRequested' = FALSE /\ requestedNext' = TRUE
      /\ outer' = [outer EXCEPT !.owed = @ + 1]
      /\ stack' = Append(Below, "asks outer")
      /\ UNCHANGED <<demand, requested, delivered, inDrain, die, source, sourceComplete, fwdSub, waiting, deleted,
                     inner, outcome, failed>>
  BY DEF DrainOuter, InLoop, Goes, OneByOne
<1>2. "loop" \in Drains /\ "asks outer" \in Drains
  BY DEF Drains
<1>3. /\ ~deleted /\ inDrain /\ Draining(stack)
      /\ stack' \in Seq(Frames) /\ Nested(stack') /\ Draining(stack') /\ stack' # <<>> /\ Top' = "asks outer"
      /\ ~AsksOfInner(stack')
  BY <1>1, <1>2, LoopIsThere DEF Top
<1>4. outer.owed = 0
  <2>1. ~(outer.owed > 0)
    BY <1>1 DEF FlatMapInv, Owed
  <2>2. outer.owed \in 0..1
    BY Stocks
  <2> QED  BY <2>1, <2>2
<1>5. /\ outer \in [open : BOOLEAN, owed : 0..1, left : 0..Packets]
      /\ outer' = [outer EXCEPT !.owed = @ + 1] /\ outer.owed + 1 = 1
  <2>1. outer.owed + 1 = 1
    BY <1>4
  <2> QED  BY <1>1, <2>1, Stocks
<1>6. /\ outer' \in [open : BOOLEAN, owed : 0..1, left : 0..Packets]
      /\ outer'.open = outer.open /\ outer'.left = outer.left /\ outer'.owed = 1
  BY <1>5
<1>7. Stock'
  BY <1>1, <1>6 DEF FlatMapInv, Stock
<1>8. Flags'
  BY <1>1, <1>3, <1>6 DEF FlatMapInv, Flags
<1>9. Numbers'
  BY <1>1 DEF FlatMapInv, Numbers, Infinity
<1>10. Alive' /\ Gone' /\ Completes'
  BY <1>1, <1>3, <1>6 DEF FlatMapInv, Alive, Gone, Completes
<1>11. Needs' = Needs
  BY <1>1 DEF Needs
<1>12. Owed'
  <2>1. outer'.owed > 0
    BY <1>6
  <2> QED  BY <1>1, <1>11, <2>1 DEF Owed
<1>13. Dying'
  BY <1>1, <1>3 DEF FlatMapInv, Dying, Infinity
<1>14. Passed'
  BY <1>1, <1>3 DEF FlatMapInv, Passed
<1> QED  BY <1>1, <1>3, <1>7, <1>8, <1>9, <1>10, <1>12, <1>13, <1>14 DEF FlatMapInv

\* drain() finds that the outer source has completed.
LEMMA DrainCompleteKept ==
  ASSUME FlatMapInv, DrainComplete
  PROVE  FlatMapInv'
<1>1. /\ stack # <<>> /\ Top = "loop" /\ ~die /\ ~fwdSub /\ sourceComplete
      /\ outcome' = "complete" /\ die' = TRUE /\ drainRequested' = FALSE
      /\ UNCHANGED <<demand, requested, delivered, inDrain, flatVars, outer, inner, stack, failed>>
  BY DEF DrainComplete, InLoop, Goes
<1>2. "loop" \in Drains
  BY DEF Drains
<1>3. ~deleted /\ inDrain
  BY <1>1, <1>2, LoopIsThere
<1>4. Flags' /\ Nested(stack')
  BY <1>1 DEF FlatMapInv, Flags, flatVars
<1>5. Stock' /\ Numbers'
  BY <1>1 DEF FlatMapInv, Stock, Numbers, Infinity, flatVars
<1>6. Alive' /\ Gone' /\ Completes'
  BY <1>1, <1>3 DEF FlatMapInv, Alive, Gone, Completes, flatVars
<1>7. Owed'
  BY <1>1, <1>3 DEF FlatMapInv, Owed, Needs, flatVars
<1>8. Dying' /\ Passed'
  <2>1. ~outer'.open /\ ~fwdSub'
    BY <1>1 DEF FlatMapInv, Completes, flatVars
  <2> QED  BY <1>1, <2>1 DEF FlatMapInv, Dying, Passed, Infinity, flatVars, Top
<1> QED  BY <1>1, <1>4, <1>5, <1>6, <1>7, <1>8 DEF FlatMapInv

\* drain() is left.
LEMMA ExitKept ==
  ASSUME FlatMapInv, stack # <<>>, Top \in Drains, ExitDrain, drainRequested' \in BOOLEAN,
         ~die /\ Needs > 0 => IF fwdSub THEN waiting > 0 ELSE outer.owed > 0,
         UNCHANGED <<demand, requested, delivered, die, source, sourceComplete, requestedNext, fwdSub, waiting,
                     outcome, failed>>
  PROVE  FlatMapInv'
<1>1. /\ stack' = Below /\ inDrain' = die /\ deleted' = die
      /\ IF die THEN Released ELSE UNCHANGED <<inner, outer>>
  BY DEF ExitDrain
<1>2. /\ ~deleted /\ inDrain /\ Draining(stack)
      /\ stack' \in Seq(Frames) /\ Nested(stack') /\ ~Draining(stack') /\ ~AsksOfInner(stack')
  BY <1>1, LoopIsThere
<1>3. /\ (inner.open <=> fwdSub) /\ (outer.open <=> source) /\ (die <=> outcome # "none") /\ die \in BOOLEAN
  BY <1>2 DEF FlatMapInv, Alive, Flags
<1>4. \/ ~die /\ inner' = inner /\ outer' = outer
      \/ die /\ Released
  BY <1>1, <1>3, Zenon
<1>5. /\ inner \in [open : BOOLEAN, owed : Nat, left : 0..Elements]
      /\ outer \in [open : BOOLEAN, owed : 0..1, left : 0..Packets]
  BY Stocks
<1>6. Released => inner'.open = FALSE /\ outer'.open = FALSE
  BY <1>3, <1>5, Zenon DEF Released
<1>7. Released => inner'.owed = inner.owed /\ inner'.left = inner.left
  BY <1>5 DEF Released
<1>8. Released => outer'.owed = outer.owed /\ outer'.left = outer.left
  BY <1>5 DEF Released
<1>9. Released => /\ inner' \in [open : BOOLEAN, owed : Nat, left : 0..Elements]
                  /\ outer' \in [open : BOOLEAN, owed : 0..1, left : 0..Packets]
  BY <1>5, Zenon DEF Released
<1>10. Stock'
  <2>1. CASE inner' = inner /\ outer' = outer
    BY <2>1 DEF FlatMapInv, Stock
  <2>2. CASE Released
    <3>1. delivered' + inner'.left + outer'.left * Elements <= Packets * Elements
      BY <1>7, <1>8, <2>2 DEF FlatMapInv, Stock
    <3> QED  BY <1>9, <2>2, <3>1 DEF Stock
  <2> QED  BY <1>4, <2>1, <2>2
<1>11. Numbers'
  BY DEF FlatMapInv, Numbers, Infinity
<1>12. inner'.open \in BOOLEAN /\ outer'.open \in BOOLEAN
  BY <1>10 DEF Stock
<1>13. Flags'
  BY <1>1, <1>2, <1>3, <1>12 DEF FlatMapInv, Flags
<1>14. Needs' = Needs
  BY DEF Needs
<1>15. stack' # <<>> /\ demand' = "all" => requested' = Infinity'
  BY DEF FlatMapInv, Dying, Infinity
<1>16. CASE ~die
  <2>1. inner' = inner /\ outer' = outer /\ ~deleted' /\ ~inDrain' /\ ~die'
    BY <1>1, <1>4, <1>16
  <2>2. Alive' /\ Gone' /\ Completes'
    BY <1>2, <1>3, <1>16, <2>1 DEF FlatMapInv, Alive, Gone, Completes
  <2>3. Owed'
    BY <1>2, <1>14, <1>16, <2>1 DEF FlatMapInv, Owed
  <2>4. Dying'
    BY <1>15, <2>1 DEF Dying
  <2>5. Passed'
    BY <1>2, <1>14, <1>16, <2>1 DEF Passed
  <2> QED  BY <1>2, <1>10, <1>11, <1>13, <2>2, <2>3, <2>4, <2>5 DEF FlatMapInv
<1>17. CASE die
  <2>1. deleted' /\ inner'.open = FALSE /\ outer'.open = FALSE /\ outer'.owed = outer.owed
    BY <1>1, <1>4, <1>6, <1>8, <1>17
  <2>2. Alive' /\ Gone' /\ Completes'
    BY <1>2, <1>3, <1>17, <2>1 DEF FlatMapInv, Alive, Gone, Completes
  <2>3. Owed'
    BY <1>14, <2>1 DEF FlatMapInv, Owed
  <2>4. Dying' /\ Passed'
    BY <1>15, <2>1 DEF Dying, Passed
  <2> QED  BY <1>2, <1>10, <1>11, <1>13, <2>2, <2>3, <2>4 DEF FlatMapInv
<1> QED  BY <1>3, <1>16, <1>17

\* drain() is left when nothing is to be done, or all has been asked for.
LEMMA DrainEndsKept ==
  ASSUME FlatMapInv, DrainEnds
  PROVE  FlatMapInv'
<1>1. /\ stack # <<>> /\ Top = "loop" /\ ExitDrain
      /\ \/ ~Goes /\ UNCHANGED drainRequested
         \/ Goes /\ (IF fwdSub THEN ~AsksInner ELSE OneByOne) /\ drainRequested' = FALSE
      /\ UNCHANGED <<demand, requested, delivered, die, source, sourceComplete, requestedNext, fwdSub, waiting,
                     outcome, failed>>
  BY DEF DrainEnds, InLoop
<1>2. Top \in Drains
  BY <1>1 DEF Drains
<1>3. ~deleted
  BY <1>1, <1>2, LoopIsThere
<1>4. drainRequested' \in BOOLEAN
  BY <1>1 DEF FlatMapInv, Flags
<1>5. ASSUME ~die, Needs > 0 PROVE IF fwdSub THEN waiting > 0 ELSE outer.owed > 0
  <2>1. IF fwdSub THEN waiting # 0 ELSE requestedNext
    BY <1>1, <1>5, Zenon DEF Goes, AsksInner, OneByOne
  <2>2. CASE fwdSub
    <3>1. waiting \in Nat /\ waiting # 0
      BY <2>1, <2>2, Counts
    <3>2. waiting > 0
      BY <3>1
    <3> QED  BY <2>2, <3>2
  <2>3. CASE ~fwdSub
    BY <1>3, <1>5, <2>1, <2>3 DEF FlatMapInv, Owed
  <2> QED  BY <2>2, <2>3
<1> QED  BY <1>1, <1>2, <1>4, <1>5, ExitKept

\* The source of the packet returns from request(): once more round, or out.
LEMMA InnerReturnsKept ==
  ASSUME FlatMapInv, InnerReturns
  PROVE  FlatMapInv'
<1>1. /\ stack # <<>> /\ Top = "asks inner"
      /\ IF drainRequested THEN stack' = Append(Below, "loop") /\ UNCHANGED <<inDrain, deleted, inner, outer>>
         ELSE ExitDrain
      /\ UNCHANGED <<demand, requested, delivered, die, drainRequested, source, sourceComplete, requestedNext,
                     fwdSub, waiting, outcome, failed>>
  BY DEF InnerReturns, InLoop
<1>2. Top \in Drains
  BY <1>1 DEF Drains
<1>3. ~deleted /\ inDrain /\ AsksOfInner(stack)
  BY <1>1, <1>2, LoopIsThere
<1>4. drainRequested' \in BOOLEAN /\ drainRequested \in BOOLEAN
  BY <1>1 DEF FlatMapInv, Flags
<1>5. CASE drainRequested
  <2>1. stack' = Append(Below, "loop") /\ UNCHANGED <<inDrain, deleted, inner, outer>>
    BY <1>1, <1>5, Zenon
  <2>2. "loop" \in Drains /\ "loop" # "asks inner"
    BY DEF Drains
  <2>3. /\ stack' \in Seq(Frames) /\ Nested(stack') /\ Draining(stack') /\ stack' # <<>> /\ Top' = "loop"
        /\ ~AsksOfInner(stack') /\ Draining(stack)
    BY <1>1, <1>2, <2>1, <2>2, LoopIsThere DEF Top
  <2>4. Flags'
    <3>1. Flags  BY DEF FlatMapInv
    <3>2. UNCHANGED <<inDrain, die, drainRequested, source, sourceComplete, requestedNext,
                 fwdSub, deleted, demand, outcome>>
      BY <1>1, <2>1
    <3>3. outer'.open = outer.open /\ inner'.open = inner.open  BY <1>1, <2>1
    <3> QED  BY <3>1, <3>2, <3>3, <2>3, FlagsStay
  <2>5. Stock' /\ Numbers'
    BY <1>1, <2>1 DEF FlatMapInv, Stock, Numbers, Infinity
  <2>6. Alive' /\ Gone' /\ Completes'
    BY <1>1, <1>3, <2>1, <2>3 DEF FlatMapInv, Alive, Gone, Completes
  <2>7. Owed'
    BY <1>1, <2>1 DEF FlatMapInv, Owed, Needs
  <2>8. Dying'
    BY <1>1, <2>1, <2>3 DEF FlatMapInv, Dying, Infinity
  <2>9. Passed'
    BY <1>3, <2>1, <2>3 DEF Passed
  <2> QED  BY <1>1, <2>3, <2>4, <2>5, <2>6, <2>7, <2>8, <2>9 DEF FlatMapInv
<1>6. CASE ~drainRequested
  <2>1. ExitDrain
    BY <1>1, <1>6, Zenon
  <2>2. ASSUME ~die, Needs > 0 PROVE IF fwdSub THEN waiting > 0 ELSE outer.owed > 0
    <3>1. fwdSub /\ waiting = Needs
      BY <1>3, <1>6, <2>2 DEF FlatMapInv, Passed
    <3> QED  BY <2>2, <3>1
  <2> QED  BY <1>1, <1>2, <1>4, <2>1, <2>2, ExitKept
<1> QED  BY <1>4, <1>5, <1>6

\* The outer source returns from request().
LEMMA OuterReturnsKept ==
  ASSUME FlatMapInv, OuterReturns
  PROVE  FlatMapInv'
<1>1. /\ stack # <<>> /\ Top = "asks outer" /\ stack' = Append(Below, "loop")
      /\ UNCHANGED <<demand, drainVars, flatVars, outer, inner, outcome, failed>>
  BY DEF OuterReturns, InLoop
<1>2. Top \in Drains /\ "loop" \in Drains /\ "loop" # "asks inner"
  BY <1>1 DEF Drains
<1>3. ~deleted /\ inDrain /\ Draining(stack)
      /\ stack' \in Seq(Frames) /\ Nested(stack') /\ Draining(stack') /\ stack' # <<>> /\ Top' = "loop"
      /\ ~AsksOfInner(stack')
  BY <1>1, <1>2, LoopIsThere DEF Top
<1>4. Flags'
  BY <1>1, <1>3 DEF FlatMapInv, Flags, drainVars, flatVars
<1>5. Stock' /\ Numbers'
  BY <1>1 DEF FlatMapInv, Stock, Numbers, Infinity, drainVars, flatVars
<1>6. Alive' /\ Gone' /\ Completes'
  BY <1>1, <1>3 DEF FlatMapInv, Alive, Gone, Completes, drainVars, flatVars
<1>7. Owed'
  BY <1>1 DEF FlatMapInv, Owed, Needs, drainVars, flatVars
<1>8. Dying'
  BY <1>1, <1>3 DEF FlatMapInv, Dying, Infinity, drainVars, flatVars
<1>9. Passed'
  BY <1>1, <1>3 DEF Passed, drainVars
<1> QED  BY <1>1, <1>3, <1>4, <1>5, <1>6, <1>7, <1>8, <1>9 DEF FlatMapInv

-----------------------------------------------------------------------------
(* What flat_map promises.                                                 *)

LEMMA FlatMapBegins ==
  ASSUME Init, \A d \in Demands : Tame(d)
  PROVE  FlatMapInv
<1>1. /\ requested = 0 /\ delivered = 0 /\ inDrain = FALSE /\ die = FALSE /\ drainRequested = FALSE
      /\ source = TRUE /\ sourceComplete = FALSE /\ requestedNext = FALSE
      /\ fwdSub = FALSE /\ waiting = 0 /\ deleted = FALSE
      /\ outer = [open |-> TRUE, owed |-> 0, left |-> Packets]
      /\ inner = [open |-> FALSE, owed |-> 0, left |-> 0]
      /\ stack = <<>> /\ outcome = "none" /\ failed = ""
      /\ demand \in Demands
  BY DEF Init
<1>2. Packets \in Nat /\ Elements \in Nat /\ Demands \subseteq {"all", "one", "two"}
  BY FlatMapAssumption
<1>3. demand \in {"all", "one"}
  BY <1>1, <1>2 DEF Tame
<1>4. stack \in Seq(Frames) /\ Len(stack) = 0
  BY <1>1, EmptySeq
<1>5. Flags
  BY <1>1, <1>3, <1>4 DEF Flags
<1>6. Stock
  <2>1. inner \in [open : BOOLEAN, owed : Nat, left : 0..Elements] /\ inner.left = 0
    <3>1. inner = [open |-> FALSE, owed |-> 0, left |-> 0]
      BY <1>1
    <3>2. 0 \in 0..Elements
      BY <1>2
    <3> QED  BY <3>1, <3>2
  <2>2. outer \in [open : BOOLEAN, owed : 0..1, left : 0..Packets] /\ outer.left = Packets
    <3>1. outer = [open |-> TRUE, owed |-> 0, left |-> Packets]
      BY <1>1
    <3>2. Packets \in 0..Packets
      BY <1>2
    <3> QED  BY <3>1, <3>2
  <2>3. 0 + 0 + Packets * Elements <= Packets * Elements
    <3>1. Packets * Elements \in Nat
      BY <1>2
    <3> DEFINE all == Packets * Elements
    <3> HIDE DEF all
    <3>2. all \in Nat
      BY <3>1 DEF all
    <3>3. 0 + 0 + all <= all
      BY <3>2
    <3> QED  BY <3>3 DEF all
  <2>4. delivered + inner.left + outer.left * Elements <= Packets * Elements
    BY <1>1, <2>1, <2>2, <2>3
  <2> QED  BY <2>1, <2>2, <2>4 DEF Stock
<1>7. Numbers
  <2>1. requested = 0 /\ delivered = 0 /\ waiting = 0
    BY <1>1
  <2> QED  BY <2>1 DEF Numbers
<1>8. Nested(stack) /\ ~Draining(stack) /\ ~AsksOfInner(stack)
  BY <1>4 DEF Nested, Draining, AsksOfInner
<1>9. Alive /\ Gone /\ Completes
  BY <1>1, <1>8 DEF Alive, Gone, Completes
<1>10. ~(outer.owed > 0) /\ ~(Needs > 0)
  <2>1. requested = 0 /\ delivered = 0 /\ outer.owed = 0
    BY <1>1
  <2> QED  BY <2>1 DEF Needs
<1>11. Owed /\ Dying /\ Passed
  BY <1>1, <1>8, <1>10 DEF Owed, Dying, Passed
<1> QED  BY <1>1, <1>5, <1>6, <1>7, <1>8, <1>9, <1>11 DEF FlatMapInv

LEMMA FlatMapStutters ==
  ASSUME FlatMapInv, UNCHANGED vars
  PROVE  FlatMapInv'
<1>1. UNCHANGED <<demand, drainVars, flatVars, outer, inner, stack, outcome, failed>>
  BY DEF vars
<1>2. Flags'
  <2>1. Flags  BY DEF FlatMapInv
  <2>2. UNCHANGED <<inDrain, die, drainRequested, source, sourceComplete, requestedNext,
               fwdSub, deleted, demand, outcome>>
    BY <1>1 DEF drainVars, flatVars
  <2>3. outer'.open = outer.open /\ inner'.open = inner.open  BY <1>1
  <2>4. stack' \in Seq(Frames)  BY <1>1, <2>1 DEF Flags
  <2> QED  BY <2>1, <2>2, <2>3, <2>4, FlagsStay
<1>5. Stock' /\ Numbers'
  BY <1>1 DEF FlatMapInv, Stock, Numbers, Infinity, drainVars, flatVars
<1>3. Nested(stack)' /\ Alive' /\ Gone' /\ Completes' /\ failed' = ""
  BY <1>1 DEF FlatMapInv, Alive, Gone, Completes, drainVars, flatVars
<1>4. Owed' /\ Dying' /\ Passed'
  BY <1>1 DEF FlatMapInv, Owed, Dying, Passed, Needs, Top, Infinity, drainVars, flatVars
<1> QED  BY <1>2, <1>3, <1>4, <1>5 DEF FlatMapInv

\* The steps of flat_map, its sources and its sink, one by one.
LEMMA FlatMapSteps ==
  ASSUME Next
  PROVE  \/ SinkReturns \/ Subscribed \/ DrainInner \/ DrainOuter \/ DrainComplete \/ DrainEnds
         \/ OuterReturns \/ InnerReturns \/ (\E n \in 0..Elements : OnNext(n)) \/ OnComplete \/ OnError
         \/ InnerNext \/ InnerComplete \/ InnerError \/ (\E n \in {1, Infinity} : Request(n)) \/ Cancel
BY DEF Next, Runs, Outer, Inner, SinkRequests

LEMMA FlatMapKept ==
  ASSUME FlatMapInv, \A d \in Demands : Tame(d), Next
  PROVE  FlatMapInv'
<1>1. Tame(demand)
  BY DEF FlatMapInv, Flags
<1> QED  BY <1>1, FlatMapSteps, ReturnKept, DrainInnerKept, DrainOuterKept, DrainCompleteKept, DrainEndsKept,
            OuterReturnsKept, InnerReturnsKept, OnNextKept, OnCompleteKept, OnErrorKept, InnerNextKept,
            InnerCompleteKept, InnerErrorKept, RequestKept, CancelKept

\* What is asked of the sources is bounded, also of those that were left behind.
Bounded == waiting <= requested /\ inner.owed <= requested

LEMMA BoundedKept ==
  ASSUME FlatMapInv, Bounded, Next
  PROVE  Bounded'
<1>1. /\ requested \in Nat /\ delivered \in Nat /\ waiting \in Nat /\ Infinity \in Nat
      /\ Needs \in Nat /\ Needs = requested - delivered
  BY Counts
<1>2. Needs <= requested
  BY <1>1
<1>3. /\ inner.owed \in Nat /\ waiting <= requested /\ inner.owed <= requested
      /\ inner \in [open : BOOLEAN, owed : Nat, left : 0..Elements]
  BY Stocks DEF Bounded
<1>4. CASE requested' = requested /\ waiting' = waiting /\ inner'.owed = inner.owed
  BY <1>3, <1>4 DEF Bounded
<1>5. CASE requested' = requested /\ waiting' = 0 /\ inner'.owed = inner.owed
  BY <1>1, <1>3, <1>5 DEF Bounded
<1>6. CASE requested' = requested /\ waiting' = Needs /\ inner'.owed = Needs
  BY <1>2, <1>6 DEF Bounded
<1>7. ASSUME UNCHANGED <<requested, waiting, inner>> PROVE Bounded'
  BY <1>4, <1>7
<1>8. inner' = [inner EXCEPT !.open = FALSE] => inner'.owed = inner.owed
  BY <1>3
<1>9. inner' = [inner EXCEPT !.open = @ /\ ~deleted'] => inner'.owed = inner.owed
  BY <1>3
<1>10. Released => inner'.owed = inner.owed
  BY <1>3 DEF Released
<1>11. ASSUME ExitDrain, UNCHANGED <<requested, waiting>> PROVE Bounded'
  <2>1. inner' = inner \/ Released
    BY <1>11, Zenon DEF ExitDrain
  <2> QED  BY <1>4, <1>10, <1>11, <2>1
<1>12. ASSUME SinkReturns \/ Subscribed \/ DrainOuter \/ DrainComplete \/ OuterReturns PROVE Bounded'
  BY <1>7, <1>12 DEF SinkReturns, Subscribed, DrainOuter, DrainComplete, OuterReturns, drainVars, flatVars
<1>13. ASSUME DrainInner PROVE Bounded'
  <2>1. /\ waiting = 0 /\ fwdSub /\ waiting' = waiting + Needs /\ requested' = requested
        /\ inner' = [inner EXCEPT !.owed = @ + Needs]
        /\ stack # <<>> /\ Top = "loop"
    BY <1>13 DEF DrainInner, AsksInner, InLoop
  <2>2. ~deleted
    BY <2>1, LoopIsThere DEF Drains
  <2>3. inner.owed = 0
    BY <2>1, <2>2 DEF FlatMapInv, Owed
  <2>4. waiting' = Needs
    BY <1>1, <2>1
  <2>5. inner.owed + Needs = Needs
    BY <1>1, <2>3
  <2>6. inner'.owed = Needs
    BY <1>3, <2>1, <2>5
  <2> QED  BY <1>6, <2>1, <2>4, <2>6
<1>14. ASSUME DrainEnds PROVE Bounded'
  BY <1>11, <1>14 DEF DrainEnds
<1>15. ASSUME InnerReturns PROVE Bounded'
  <2>1. ExitDrain \/ inner' = inner
    BY <1>15, Zenon DEF InnerReturns
  <2>2. requested' = requested /\ waiting' = waiting
    BY <1>15 DEF InnerReturns
  <2> QED  BY <1>7, <1>11, <2>1, <2>2
<1>16. ASSUME NEW n \in 0..Elements, OnNext(n) PROVE Bounded'
  <2>1. requested' = requested
    BY <1>16 DEF OnNext, drainVars
  <2>2. \/ waiting' = waiting /\ inner' = inner
        \/ waiting' = Needs /\ inner' = [open |-> TRUE, owed |-> Needs, left |-> n]
    BY <1>16, Zenon DEF OnNext
  <2> QED  BY <1>6, <1>7, <2>1, <2>2
<1>17. ASSUME OnComplete \/ OnError PROVE Bounded'
  <2>1. /\ requested' = requested /\ waiting' = waiting
        /\ inner' = [inner EXCEPT !.open = @ /\ ~deleted']
    BY <1>17 DEF OnComplete, OnError
  <2> QED  BY <1>4, <1>9, <2>1
<1>18. ASSUME InnerNext PROVE Bounded'
  <2>1. /\ requested' = requested /\ inner.owed > 0
        /\ inner' = [inner EXCEPT !.owed = @ - 1, !.left = @ - 1]
    BY <1>18 DEF InnerNext
  <2>2. waiting' = waiting \/ (waiting' = waiting - 1)
    BY <1>18, Zenon DEF InnerNext
  <2>3. inner'.owed = inner.owed - 1
    BY <1>3, <2>1
  <2>4. waiting' <= requested' /\ inner'.owed <= requested'
    BY <1>1, <1>3, <2>1, <2>2, <2>3
  <2> QED  BY <2>4 DEF Bounded
<1>19. ASSUME InnerComplete \/ InnerError PROVE Bounded'
  <2>1. requested' = requested /\ waiting' = 0 /\ inner' = [inner EXCEPT !.open = FALSE]
    BY <1>19 DEF InnerComplete, InnerError
  <2> QED  BY <1>5, <1>8, <2>1
<1>20. ASSUME NEW n \in {1, Infinity}, Request(n) PROVE Bounded'
  <2>1. requested' = requested + n /\ waiting' = waiting /\ inner' = inner
    BY <1>20 DEF Request, flatVars
  <2>2. n \in Nat
    BY <1>1
  <2>3. waiting <= requested + n /\ inner.owed <= requested + n
    BY <1>1, <1>3, <2>2
  <2> QED  BY <2>1, <2>3 DEF Bounded
<1>21. ASSUME Cancel PROVE Bounded'
  <2>1. /\ requested' = requested /\ waiting' = waiting
        /\ IF deleted' THEN Released ELSE UNCHANGED <<inner, outer>>
    BY <1>21 DEF Cancel
  <2>2. Released \/ inner' = inner
    BY <2>1, Zenon
  <2> QED  BY <1>4, <1>10, <2>1, <2>2
<1> QED  BY FlatMapSteps, <1>12, <1>13, <1>14, <1>15, <1>16, <1>17, <1>18, <1>19, <1>20, <1>21

\* What flat_map promises follows from its invariant, the lengths by what they can bring.
LEMMA FlatMapIsSafe ==
  ASSUME FlatMapInv, Bounded
  PROVE  Safety /\ DemandIsPassedOn
<1>1. /\ Infinity \in Nat /\ delivered < Infinity
      /\ requested \in Nat /\ delivered \in Nat /\ waiting \in Nat /\ delivered <= requested
      /\ Needs \in Nat /\ demand \in {"all", "one"}
      /\ demand = "one" => requested <= delivered + 1
      /\ demand = "all" => requested = 0 \/ requested = Infinity
  BY Counts
<1>2. requested <= Infinity
  BY <1>1
<1>3. /\ inner \in [open : BOOLEAN, owed : Nat, left : 0..Elements]
      /\ outer \in [open : BOOLEAN, owed : 0..1, left : 0..Packets]
      /\ inner.owed \in Nat /\ Packets * Elements \in Nat /\ waiting <= requested /\ inner.owed <= requested
  BY Stocks DEF Bounded
<1>4. requested \in 0..Infinity + 1 /\ waiting \in 0..Infinity /\ inner.owed \in 0..Infinity
  BY <1>1, <1>2, <1>3
<1>5. delivered \in 0..Packets * Elements
  <2> DEFINE all == Packets * Elements
  <2>1. delivered < all + 1 /\ all \in Nat
    BY <1>1, <1>3 DEF Infinity
  <2> HIDE DEF all
  <2>2. delivered \in 0..all
    BY <1>1, <2>1
  <2> QED  BY <2>2 DEF all
<1>6. inner \in [open : BOOLEAN, owed : 0..Infinity, left : 0..Elements]
  BY <1>3, <1>4
<1>7. TypeOK
  BY <1>3, <1>4, <1>5, <1>6 DEF FlatMapInv, Flags, TypeOK
<1>8. NoCheckFails /\ CompleteIsLast
  BY DEF FlatMapInv, Completes, NoCheckFails, Running, CompleteIsLast
<1>9. DeletedIsUnused
  <2> SUFFICES ASSUME deleted PROVE ~inner.open /\ ~outer.open /\ \A k \in DOMAIN stack : stack[k] \in {"sink", "subscribes"}
    BY DEF DeletedIsUnused
  <2>1. ~Draining(stack) /\ ~inner.open /\ ~outer.open
    BY DEF FlatMapInv, Gone
  <2>2. stack \in Seq(Frames)
    BY DEF FlatMapInv, Flags
  <2>3. ASSUME NEW k \in DOMAIN stack PROVE stack[k] \in {"sink", "subscribes"}
    <3>1. k \in 1..Len(stack) /\ stack[k] \in Frames
      BY <2>2, <2>3
    <3>2. stack[k] \notin Drains
      BY <2>1, <3>1 DEF Draining
    <3> QED  BY <3>1, <3>2 DEF Frames, Drains
  <2> QED  BY <2>1, <2>3
<1>10. DemandIsPassedOn
  <2> SUFFICES ASSUME stack = <<>>, outcome = "none", Needs > 0
               PROVE  IF fwdSub THEN waiting > 0 /\ inner.owed = waiting ELSE outer.owed > 0
    BY DEF DemandIsPassedOn
  <2>1. ~deleted
    BY DEF FlatMapInv, Gone
  <2>2. ~Draining(stack)
    BY DEF Draining
  <2>3. ~die /\ ~inDrain
    BY <2>1, <2>2 DEF FlatMapInv, Alive
  <2>4. IF fwdSub THEN waiting > 0 ELSE outer.owed > 0
    BY <2>1, <2>3 DEF FlatMapInv, Passed
  <2>5. fwdSub => inner.owed = waiting
    BY <2>1 DEF FlatMapInv, Owed
  <2> QED  BY <2>4, <2>5
<1> QED  BY <1>7, <1>8, <1>9, <1>10 DEF Safety

\* What the sink sees of a step of flat_map is a step of a stream, or nothing.
LEMMA FlatMapPromises ==
  ASSUME FlatMapInv, Next
  PROVE  [P!Next]_(P!vars)
<1> DEFINE ended == outcome # "none"
<1>1. /\ requested \in Nat /\ delivered \in Nat /\ waiting \in Nat /\ Infinity \in Nat /\ Infinity > 0
      /\ Needs \in Nat /\ Needs = requested - delivered
  BY Counts
<1>2. ASSUME UNCHANGED <<requested, delivered, outcome>> PROVE [P!Next]_(P!vars)
  BY <1>2 DEF P!vars
<1>3. ASSUME UNCHANGED <<requested, delivered>>, outcome = "none", outcome' # "none" PROVE [P!Next]_(P!vars)
  BY <1>3 DEF P!Next, P!End
<1>4. ASSUME NEW n \in {1, Infinity}, Request(n) PROVE [P!Next]_(P!vars)
  <2>1. /\ outcome = "none" /\ requested' = requested + n /\ UNCHANGED <<delivered, outcome>>
    BY <1>4 DEF Request, SinkMayAct
  <2>2. n > 0 /\ n \in Nat
    BY <1>1
  <2>3. requested' > requested
    BY <1>1, <2>1, <2>2
  <2> QED  BY <2>1, <2>3 DEF P!Next, P!Request
<1>5. ASSUME InnerNext PROVE [P!Next]_(P!vars)
  <2>1. InnerMayAct /\ inner.owed > 0 /\ UNCHANGED <<requested, outcome>>
    BY <1>5 DEF InnerNext
  <2>2. /\ inner.owed = waiting /\ waiting <= Needs /\ (die <=> outcome # "none")
        /\ die => waiting = 0
    BY <2>1, InnerIsThere
  <2>3. waiting > 0 /\ waiting # 0 /\ delivered < requested
    <3>1. inner.owed > 0 /\ inner.owed = waiting /\ waiting <= Needs
      BY <2>1, <2>2
    <3> QED  BY <1>1, <3>1
  <2>4. ~die /\ outcome = "none"
    BY <2>2, <2>3
  <2>5. delivered' = delivered + 1
    BY <1>5, <2>3, <2>4, Zenon DEF InnerNext
  <2> QED  BY <2>1, <2>3, <2>4, <2>5 DEF P!Next, P!OnNext
<1>6. ASSUME OnComplete \/ OnError \/ InnerError PROVE [P!Next]_(P!vars)
  <2>1. UNCHANGED <<requested, delivered>>
    BY <1>6 DEF OnComplete, OnError, InnerError
  <2>2. ~deleted
    BY <1>6 DEF OnComplete, OnError, InnerError, OuterMayAct, InnerMayAct, FlatMapInv, Gone
  <2>3. ~die => outcome = "none"
    BY <2>2 DEF FlatMapInv, Alive
  <2>4. outcome' = outcome \/ (~die /\ (outcome' = "complete" \/ outcome' = "error"))
    <3>1. ASSUME OnComplete PROVE outcome' = outcome \/ (~die /\ outcome' = "complete")
      BY <3>1, Zenon DEF OnComplete, End
    <3>2. ASSUME OnError \/ InnerError PROVE outcome' = outcome \/ (~die /\ outcome' = "error")
      BY <3>2, Zenon DEF OnError, InnerError, End
    <3> QED  BY <1>6, <3>1, <3>2
  <2> QED  BY <1>2, <1>3, <2>1, <2>3, <2>4
<1>7. ASSUME Cancel PROVE [P!Next]_(P!vars)
  BY <1>3, <1>7 DEF Cancel, SinkMayAct, End
<1>8. ASSUME DrainComplete PROVE [P!Next]_(P!vars)
  <2>1. /\ stack # <<>> /\ Top = "loop" /\ ~die /\ outcome' = "complete" /\ UNCHANGED <<requested, delivered>>
    BY <1>8 DEF DrainComplete, InLoop, Goes
  <2>2. ~deleted
    BY <2>1, LoopIsThere DEF Drains
  <2>3. outcome = "none"
    BY <2>1, <2>2 DEF FlatMapInv, Alive
  <2> QED  BY <1>3, <2>1, <2>3
<1>9. ASSUME \/ SinkReturns \/ Subscribed \/ DrainInner \/ DrainOuter \/ DrainEnds \/ OuterReturns \/ InnerReturns
             \/ InnerComplete \/ \E n \in 0..Elements : OnNext(n)
      PROVE  [P!Next]_(P!vars)
  BY <1>2, <1>9 DEF SinkReturns, Subscribed, DrainInner, DrainOuter, DrainEnds, OuterReturns, InnerReturns,
     InnerComplete, OnNext, drainVars
<1> QED  BY FlatMapSteps, <1>4, <1>5, <1>6, <1>7, <1>8, <1>9

-----------------------------------------------------------------------------
(* The operators: calls.                                                   *)

Calling == {"asks", "sink"}
Inside(s) == \E k \in 1..Len(s) : s[k] = "sink"

\* The source's request() and the sink's on_next() take turns.
Alternates(s) == \A k \in 2..Len(s) : s[k] # s[k - 1]

\* Twice the sinks there are on s, which takes turns.
Weight(s) ==
  IF s = <<>> THEN 0
  ELSE Len(s) + (IF s[1] = "sink" THEN 1 ELSE 0) - (IF s[Len(s)] = "asks" THEN 1 ELSE 0)

LEMMA CallsOperator ==
  ASSUME NEW s \in Seq(Calling), Alternates(s), NEW f \in Calling, s # <<>> => s[Len(s)] # f
  PROVE  /\ Append(s, f) \in Seq(Calling) /\ Alternates(Append(s, f)) /\ Weight(s) \in Nat
         /\ Inside(Append(s, f)) <=> Inside(s) \/ f = "sink"
         /\ Weight(Append(s, f)) = IF f = "sink" THEN Weight(s) + 2 ELSE Weight(s)
<1> DEFINE t == Append(s, f)
<1>1. /\ Len(s) \in Nat /\ Len(t) = Len(s) + 1 /\ t[Len(s) + 1] = f /\ t \in Seq(Calling) /\ t # <<>>
      /\ \A k \in 1..Len(s) : t[k] = s[k]
  BY AppendProperties
<1>2. s # <<>> => Len(s) > 0
  OBVIOUS
<1>3. s = <<>> => Len(s) = 0
  OBVIOUS
<1>4. \A k \in 1..Len(s) : s[k] \in Calling
  BY ElementOfSeq
<1> HIDE DEF t
<1>5. \A k \in 1..Len(t) : k \in 1..Len(s) \/ k = Len(s) + 1
  BY <1>1
<1>6. Len(s) + 1 \in 1..Len(t) /\ \A k \in 1..Len(s) : k \in 1..Len(t)
  BY <1>1
<1>7. Inside(t) <=> Inside(s) \/ f = "sink"
  BY <1>1, <1>5, <1>6 DEF Inside
<1>8. Alternates(t)
  <2> SUFFICES ASSUME NEW k \in 2..Len(t) PROVE t[k] # t[k - 1]
    BY DEF Alternates
  <2>1. k - 1 \in 1..Len(s) /\ (k \in 2..Len(s) \/ (k = Len(s) + 1 /\ k - 1 = Len(s) /\ s # <<>>))
    BY <1>1, <1>3
  <2>2. t[k - 1] = s[k - 1]
    BY <1>1, <2>1
  <2>3. CASE k \in 2..Len(s)
    <3>1. t[k] = s[k]
      BY <1>1, <2>3
    <3> QED  BY <2>2, <2>3, <3>1 DEF Alternates
  <2>4. CASE k = Len(s) + 1 /\ k - 1 = Len(s) /\ s # <<>>
    BY <1>1, <2>2, <2>4
  <2> QED  BY <2>1, <2>3, <2>4
<1>9. CASE s = <<>>
  <2>1. Len(t) = 1 /\ t[1] = f
    BY <1>1, <1>3, <1>9
  <2>2. Weight(s) = 0
    BY <1>9 DEF Weight
  <2>3. Weight(t) = 1 + (IF f = "sink" THEN 1 ELSE 0) - (IF f = "asks" THEN 1 ELSE 0)
    BY <1>1, <2>1 DEF Weight
  <2>4. Weight(t) = IF f = "sink" THEN Weight(s) + 2 ELSE Weight(s)
    BY <2>2, <2>3 DEF Calling
  <2> QED  BY <1>1, <1>7, <1>8, <2>2, <2>4 DEF t
<1>10. CASE s # <<>>
  <2>1. 1 \in 1..Len(s) /\ Len(s) \in 1..Len(s)
    BY <1>1, <1>2, <1>10
  <2>2. t[1] = s[1] /\ t[Len(t)] = f /\ s[Len(s)] \in Calling /\ s[Len(s)] # f
    BY <1>1, <1>4, <1>10, <2>1
  <2> DEFINE first == IF s[1] = "sink" THEN 1 ELSE 0
  <2>3. first \in 0..1
    OBVIOUS
  <2> HIDE DEF first
  <2>4. Weight(s) = Len(s) + first - (IF s[Len(s)] = "asks" THEN 1 ELSE 0)
    BY <1>10 DEF Weight, first
  <2>5. Weight(t) = Len(s) + 1 + first - (IF f = "asks" THEN 1 ELSE 0)
    BY <1>1, <2>2 DEF Weight, first
  <2>6. Weight(t) = IF f = "sink" THEN Weight(s) + 2 ELSE Weight(s)
    <3>1. CASE f = "sink"
      <4>1. s[Len(s)] = "asks"
        BY <2>2, <3>1 DEF Calling
      <4>2. Weight(s) = Len(s) + first - 1 /\ Weight(t) = Len(s) + 1 + first - 0
        BY <2>4, <2>5, <3>1, <4>1
      <4> QED  BY <1>1, <2>3, <3>1, <4>2
    <3>2. CASE f = "asks"
      <4>1. s[Len(s)] # "asks"
        BY <2>2, <3>2
      <4>2. Weight(s) = Len(s) + first - 0 /\ Weight(t) = Len(s) + 1 + first - 1
        BY <2>4, <2>5, <3>2, <4>1
      <4> QED  BY <1>1, <2>3, <3>2, <4>2
    <3> QED  BY <3>1, <3>2 DEF Calling
  <2>7. Weight(s) \in Nat
    BY <1>1, <1>2, <1>10, <2>3, <2>4
  <2> QED  BY <1>1, <1>7, <1>8, <2>6, <2>7 DEF t
<1> QED  BY <1>9, <1>10

LEMMA ReturnsOperator ==
  ASSUME NEW s \in Seq(Calling), Alternates(s), s # <<>>
  PROVE  LET t == SubSeq(s, 1, Len(s) - 1)
             f == s[Len(s)]
         IN  /\ t \in Seq(Calling) /\ Alternates(t) /\ f \in Calling /\ Weight(t) \in Nat
             /\ Inside(s) <=> Inside(t) \/ f = "sink"
             /\ Weight(s) = IF f = "sink" THEN Weight(t) + 2 ELSE Weight(t)
<1> DEFINE t == SubSeq(s, 1, Len(s) - 1)
<1> DEFINE f == s[Len(s)]
<1>1. Len(s) \in Nat /\ Len(s) > 0
  OBVIOUS
<1>2. f \in Calling
  BY <1>1, ElementOfSeq
<1>3. /\ t \in Seq(Calling) /\ Len(t) = Len(s) - 1
      /\ \A k \in 1..Len(s) - 1 : t[k] = s[k]
  BY Front
<1> HIDE DEF t
<1>4. \A k \in 1..Len(t) : k \in 1..Len(s) - 1 /\ k \in 1..Len(s)
  BY <1>1, <1>3
<1>5. Alternates(t)
  <2> SUFFICES ASSUME NEW k \in 2..Len(t) PROVE t[k] # t[k - 1]
    BY DEF Alternates
  <2>1. k \in 2..Len(s) /\ k \in 1..Len(s) - 1 /\ k - 1 \in 1..Len(s) - 1
    BY <1>1, <1>3
  <2>2. t[k] = s[k] /\ t[k - 1] = s[k - 1]
    BY <1>3, <2>1
  <2> QED  BY <2>1, <2>2 DEF Alternates
<1>6. t # <<>> => t[Len(t)] # f
  <2> SUFFICES ASSUME t # <<>> PROVE t[Len(t)] # f
    OBVIOUS
  <2>1. Len(t) \in Nat /\ Len(t) # 0
    BY <1>3, EmptySeq
  <2>2. Len(t) \in 1..Len(s) - 1 /\ Len(s) \in 2..Len(s) /\ Len(t) = Len(s) - 1
    BY <1>1, <1>3, <2>1
  <2>3. t[Len(t)] = s[Len(s) - 1]
    BY <1>3, <2>2
  <2> QED  BY <2>2, <2>3 DEF Alternates
<1>7. s = Append(t, f)
  <2>1. /\ Append(t, f) \in Seq(Calling) /\ Len(Append(t, f)) = Len(t) + 1 /\ Append(t, f)[Len(t) + 1] = f
        /\ \A k \in 1..Len(t) : Append(t, f)[k] = t[k]
    BY <1>2, <1>3, AppendProperties
  <2>2. Len(Append(t, f)) = Len(s)
    BY <1>1, <1>3, <2>1
  <2>3. ASSUME NEW k \in 1..Len(s) PROVE Append(t, f)[k] = s[k]
    <3>1. (k \in 1..Len(t) /\ k \in 1..Len(s) - 1) \/ (k = Len(t) + 1 /\ k = Len(s))
      BY <1>1, <1>3
    <3> QED  BY <1>3, <2>1, <3>1
  <2> QED  BY <2>1, <2>2, <2>3, SeqEqual
<1>8. /\ Weight(t) \in Nat /\ (Inside(Append(t, f)) <=> Inside(t) \/ f = "sink")
      /\ Weight(Append(t, f)) = IF f = "sink" THEN Weight(t) + 2 ELSE Weight(t)
  BY <1>2, <1>3, <1>5, <1>6, CallsOperator
<1> QED  BY <1>2, <1>3, <1>5, <1>7, <1>8 DEF t

-----------------------------------------------------------------------------
(* The operators: the invariant.                                           *)

Kinds == {"drained", "answers", "empty"}

OpTypes ==
  /\ op \in Operations /\ limit \in Limits /\ wants \in {"all", "one"} /\ calls \in Seq(Calling)
  /\ end \in {"", "complete", "error", "timeout", "cancelled"} /\ gone \in BOOLEAN
  /\ inside \in BOOLEAN /\ alarm \in BOOLEAN /\ expired \in 0..2
  /\ freed \in {"", "returns", "timer", "source"}
  /\ upstream \in [kind : Kinds, open : BOOLEAN, owed : Nat, left : Nat]

\* What was delivered was asked of the source, and what was asked of it the sink wants.
OpCounts ==
  /\ asked \in Nat /\ given \in Nat /\ forwarded \in Nat
  /\ given + upstream.left <= Supply /\ given + upstream.owed <= forwarded /\ forwarded <= asked
  /\ op = "take" => forwarded <= limit
  /\ wants = "all" => asked = 0 \/ asked = O!Everything
  /\ wants = "one" => asked <= given + 1

\* take counts an element when the sink returns, and every sink that has not returned has one.
OpCalls ==
  /\ Alternates(calls) /\ taken \in Nat
  /\ 2 * taken + Weight(calls) <= 2 * given

\* It ends once, with the source, and whoever does it inside the sink's on_next is remembered.
OpEnds ==
  /\ gone <=> end # ""
  /\ ran = IF op = "do_finally" /\ end # "" THEN 1 ELSE 0
  /\ gone => ~upstream.open \/ upstream.kind = "empty"
  /\ gone /\ Inside(calls) => inside
  /\ freed = "returns" => op \in {"take", "timeout"} /\ inside
  /\ freed = "timer" => op = "timeout"
  /\ freed = "source" => upstream.kind = "empty" /\ end = "cancelled"

\* Only timeout has a timer, which does not expire in the subscribe() of an empty source.
OpTimers ==
  /\ alarm => op = "timeout"
  /\ expired > 0 => op = "timeout" /\ ~(upstream.kind = "empty" /\ upstream.open)

\* An empty source sends nothing, and goes on if it is cancelled.
OpEmpty ==
  upstream.kind = "empty" =>
    /\ upstream.owed = 0 /\ ~Inside(calls)
    /\ gone /\ upstream.open => end = "cancelled"

OpInv == OpTypes /\ OpCounts /\ OpCalls /\ OpEnds /\ OpTimers /\ OpEmpty

-----------------------------------------------------------------------------
(* The operators: the steps.                                               *)

LEMMA OpAssumed == Supply \in Nat /\ O!Everything \in Nat /\ O!Everything = Supply + 1 /\ Limits \subseteq Nat
BY StagesAssumption DEF O!Everything

LEMMA SourceCancelled ==
  ASSUME OpInv
  PROVE  /\ O!CancelSource \in [kind : Kinds, open : BOOLEAN, owed : Nat, left : Nat]
         /\ O!CancelSource.open <=> upstream.open /\ upstream.kind = "empty"
         /\ O!CancelSource.kind = upstream.kind /\ O!CancelSource.owed = upstream.owed
         /\ O!CancelSource.left = upstream.left
<1>1. upstream \in [kind : Kinds, open : BOOLEAN, owed : Nat, left : Nat]
  BY DEF OpInv, OpTypes
<1>2. /\ O!CancelSource \in [kind : Kinds, open : BOOLEAN, owed : Nat, left : Nat]
      /\ O!CancelSource.open <=> upstream.open /\ upstream.kind = "empty"
  BY <1>1, Zenon DEF O!CancelSource
<1>3. /\ O!CancelSource.kind = upstream.kind /\ O!CancelSource.owed = upstream.owed
      /\ O!CancelSource.left = upstream.left
  BY <1>1 DEF O!CancelSource
<1> QED  BY <1>2, <1>3

\* What is known of the numbers.
LEMMA OpNumbers ==
  ASSUME OpInv
  PROVE  /\ asked \in Nat /\ given \in Nat /\ forwarded \in Nat /\ taken \in Nat /\ limit \in Nat
         /\ upstream \in [kind : Kinds, open : BOOLEAN, owed : Nat, left : Nat]
         /\ upstream.owed \in Nat /\ upstream.left \in Nat /\ upstream.kind \in Kinds /\ upstream.open \in BOOLEAN
         /\ given + upstream.left <= Supply /\ given + upstream.owed <= forwarded /\ forwarded <= asked
         /\ op = "take" => forwarded <= limit
         /\ wants = "all" => asked = 0 \/ asked = O!Everything
         /\ wants = "one" => asked <= given + 1
         /\ wants \in {"all", "one"} /\ expired \in 0..2
         /\ calls \in Seq(Calling) /\ Alternates(calls) /\ 2 * taken + Weight(calls) <= 2 * given
<1>1. limit \in Nat
  BY OpAssumed DEF OpInv, OpTypes
<1>2. upstream \in [kind : Kinds, open : BOOLEAN, owed : Nat, left : Nat]
  BY DEF OpInv, OpTypes
<1>3. upstream.owed \in Nat /\ upstream.left \in Nat /\ upstream.kind \in Kinds /\ upstream.open \in BOOLEAN
  BY <1>2
<1> QED  BY <1>1, <1>2, <1>3 DEF OpInv, OpTypes, OpCounts, OpCalls

\* It ends: with the source that is left, and what the sink made of it.
LEMMA OpEnding ==
  ASSUME OpInv, ~gone, NEW how \in {"complete", "error", "timeout", "cancelled"}, O!Ends(how),
         calls' = calls, op' = op, freed' \notin {"returns", "timer", "source"}
  PROVE  /\ end' = how /\ gone' = TRUE /\ inside' \in BOOLEAN
         /\ (gone' <=> end' # "") /\ (gone' /\ Inside(calls') => inside')
         /\ ran' = IF op' = "do_finally" /\ end' # "" THEN 1 ELSE 0
         /\ freed' = "returns" => op' \in {"take", "timeout"} /\ inside'
         /\ freed' = "timer" => op' = "timeout"
         /\ freed' = "source" => FALSE
<1>1. end = "" /\ ran = 0
  BY DEF OpInv, OpEnds
<1>2. end' = how /\ gone' = TRUE /\ inside' = O!InSink /\ ran' = IF op = "do_finally" THEN ran + 1 ELSE ran
  BY DEF O!Ends, O!Finally
<1>3. how # "" /\ (inside' <=> Inside(calls)) /\ inside' \in BOOLEAN
  BY <1>2 DEF O!InSink, Inside
<1>4. ran' = IF op' = "do_finally" /\ end' # "" THEN 1 ELSE 0
  <2>1. CASE op = "do_finally"
    <3>1. ran' = ran + 1 /\ end' # "" /\ op' = "do_finally"
      BY <1>2, <1>3, <2>1
    <3>2. ran = 0 /\ ran' = ran + 1
      BY <1>1, <3>1
    <3>3. ran' = 1
      BY <3>2
    <3> QED  BY <3>1, <3>3, Zenon
  <2>2. CASE op # "do_finally"
    <3>1. ran' = ran /\ op' # "do_finally"
      BY <1>2, <2>2
    <3> QED  BY <1>1, <3>1
  <2> QED  BY <2>1, <2>2
<1> QED  BY <1>2, <1>3, <1>4

\* The sink asks, and what of it is not too much goes to the source.
LEMMA OpRequestKept ==
  ASSUME OpInv, NEW n \in {1, O!Everything}, O!Request(n)
  PROVE  OpInv' /\ end = "" /\ end' = "" /\ asked' > asked /\ given' = given
<1>1. /\ freed = "" /\ end = "" /\ (calls # <<>> => O!Top = "sink")
      /\ asked' = asked + n /\ forwarded' = forwarded + O!Forwards(n)
      /\ upstream' = [upstream EXCEPT !.owed = IF upstream.kind = "empty" THEN 0 ELSE @ + O!Forwards(n)]
      /\ calls' = IF O!Forwards(n) > 0 THEN Append(calls, "asks") ELSE calls
      /\ alarm' = (op = "timeout")
      /\ UNCHANGED <<end, gone, inside, ran>> /\ UNCHANGED <<op, limit, wants, given, taken, expired, freed>>
  BY DEF O!Request, O!SinkMayAct, O!Runs, O!Stays, O!opVars, O!Armed
<1>2. /\ asked \in Nat /\ given \in Nat /\ forwarded \in Nat /\ taken \in Nat /\ limit \in Nat
      /\ upstream \in [kind : Kinds, open : BOOLEAN, owed : Nat, left : Nat]
      /\ upstream.owed \in Nat /\ upstream.left \in Nat
      /\ given + upstream.left <= Supply /\ given + upstream.owed <= forwarded /\ forwarded <= asked
      /\ op = "take" => forwarded <= limit
      /\ wants \in {"all", "one"}
      /\ calls \in Seq(Calling) /\ Alternates(calls) /\ 2 * taken + Weight(calls) <= 2 * given
  BY OpNumbers
<1>3. n \in Nat /\ n > 0 /\ Supply \in Nat /\ O!Everything \in Nat
  BY OpAssumed
<1>4. /\ wants = "one" => n = 1 /\ asked = given
      /\ wants = "all" => n = O!Everything /\ asked = 0
  BY <1>2 DEF O!Request, O!MayRequest
<1> DEFINE f == O!Forwards(n)
<1>5. f \in Nat /\ f <= n /\ (op = "take" => forwarded + f <= limit)
  <2>1. CASE op = "take" /\ n > limit - forwarded
    <3>1. f = limit - forwarded
      BY <2>1 DEF O!Forwards
    <3> QED  BY <1>2, <1>3, <2>1, <3>1
  <2>2. CASE ~(op = "take" /\ n > limit - forwarded)
    <3>1. f = n
      BY <2>2 DEF O!Forwards
    <3> QED  BY <1>2, <1>3, <2>2, <3>1
  <2> QED  BY <2>1, <2>2
<1> HIDE DEF f
<1>6. forwarded' = forwarded + f /\ calls' = IF f > 0 THEN Append(calls, "asks") ELSE calls
  BY <1>1 DEF f
<1> DEFINE o == IF upstream.kind = "empty" THEN 0 ELSE upstream.owed + f
<1>7. o \in Nat /\ o <= upstream.owed + f /\ (upstream.kind = "empty" => o = 0)
  BY <1>2, <1>5
<1>8. upstream' = [upstream EXCEPT !.owed = o]
  BY <1>1 DEF f
<1> HIDE DEF o
<1>9. /\ upstream' \in [kind : Kinds, open : BOOLEAN, owed : Nat, left : Nat]
      /\ upstream'.kind = upstream.kind /\ upstream'.open = upstream.open /\ upstream'.left = upstream.left
      /\ upstream'.owed = o
  BY <1>2, <1>7, <1>8
<1>10. /\ calls' \in Seq(Calling) /\ Alternates(calls') /\ Weight(calls') = Weight(calls)
       /\ Inside(calls') <=> Inside(calls)
  <2>1. CASE f > 0
    <3>1. calls' = Append(calls, "asks")
      BY <1>6, <2>1
    <3>2. "asks" \in Calling /\ "asks" # "sink" /\ (calls # <<>> => calls[Len(calls)] # "asks")
      BY <1>1 DEF Calling, O!Top
    <3> QED  BY <1>2, <3>1, <3>2, CallsOperator
  <2>2. CASE ~(f > 0)
    BY <1>2, <1>6, <2>2
  <2> QED  BY <2>1, <2>2
<1>11. OpTypes'
  BY <1>1, <1>9, <1>10 DEF OpInv, OpTypes
<1>12. OpCounts'
  <2>1. /\ asked' \in Nat /\ given' \in Nat /\ forwarded' \in Nat /\ given' = given
        /\ forwarded' <= asked' /\ (op' = "take" => forwarded' <= limit')
    <3>1. /\ asked' = asked + n /\ given' = given /\ forwarded' = forwarded + f /\ op' = op /\ limit' = limit
      BY <1>1, <1>6
    <3> QED  BY <1>2, <1>3, <1>5, <3>1
  <2>2. given' + upstream'.left <= Supply /\ given' + upstream'.owed <= forwarded'
    <3>1. given' = given /\ upstream'.left = upstream.left /\ upstream'.owed = o /\ forwarded' = forwarded + f
      BY <1>1, <1>6, <1>9
    <3> QED  BY <1>2, <1>5, <1>7, <3>1
  <2>3. /\ wants' = "all" => asked' = O!Everything'
        /\ wants' = "one" => asked' <= given' + 1
    <3>1. asked' = asked + n /\ given' = given /\ wants' = wants /\ O!Everything' = O!Everything
      BY <1>1 DEF O!Everything
    <3> QED  BY <1>2, <1>3, <1>4, <3>1
  <2> QED  BY <2>1, <2>2, <2>3 DEF OpCounts
<1>13. OpCalls'
  BY <1>1, <1>2, <1>10 DEF OpCalls
<1>14. OpEnds'
  BY <1>1, <1>9, <1>10 DEF OpInv, OpEnds
<1>15. OpTimers'
  BY <1>1, <1>9 DEF OpInv, OpTimers
<1>16. OpEmpty'
  BY <1>1, <1>7, <1>9, <1>10 DEF OpInv, OpEmpty
<1>17. asked' > asked
  <2>1. asked' = asked + n /\ asked \in Nat
    BY <1>1, <1>2
  <2> QED  BY <1>3, <2>1
<1> QED  BY <1>1, <1>11, <1>12, <1>13, <1>14, <1>15, <1>16, <1>17 DEF OpInv

\* The sink cancels.
LEMMA OpCancelKept ==
  ASSUME OpInv, O!Cancel
  PROVE  OpInv' /\ end = "" /\ end' # "" /\ UNCHANGED <<asked, given>>
<1>1. /\ freed = "" /\ end = "" /\ upstream' = O!CancelSource /\ O!Ends("cancelled") /\ alarm' = FALSE
      /\ UNCHANGED <<op, limit, wants, asked, given, taken, forwarded, calls, expired, freed>>
  BY DEF O!Cancel, O!SinkMayAct, O!Runs, O!opVars
<1>2. ~gone
  BY <1>1 DEF OpInv, OpEnds
<1>3. /\ end' = "cancelled" /\ gone' = TRUE /\ inside' \in BOOLEAN
      /\ (gone' <=> end' # "") /\ (gone' /\ Inside(calls') => inside')
      /\ ran' = IF op' = "do_finally" /\ end' # "" THEN 1 ELSE 0
      /\ freed' = "returns" => op' \in {"take", "timeout"} /\ inside'
      /\ freed' = "timer" => op' = "timeout"
      /\ freed' = "source" => FALSE
  BY <1>1, <1>2, OpEnding
<1>4. /\ upstream' \in [kind : Kinds, open : BOOLEAN, owed : Nat, left : Nat]
      /\ upstream'.open <=> upstream.open /\ upstream.kind = "empty"
      /\ upstream'.kind = upstream.kind /\ upstream'.owed = upstream.owed /\ upstream'.left = upstream.left
  BY <1>1, SourceCancelled
<1>5. OpTypes'
  BY <1>1, <1>3, <1>4 DEF OpInv, OpTypes
<1>6. OpCounts' /\ OpCalls'
  BY <1>1, <1>4 DEF OpInv, OpCounts, OpCalls, O!Everything
<1>7. OpEnds'
  BY <1>3, <1>4 DEF OpEnds
<1>8. OpTimers' /\ OpEmpty'
  BY <1>1, <1>3, <1>4 DEF OpInv, OpTimers, OpEmpty
<1> QED  BY <1>1, <1>3, <1>5, <1>6, <1>7, <1>8 DEF OpInv

\* The sink's on_next returns; take counts what it got, and ends with the last.
LEMMA OpSinkReturnsKept ==
  ASSUME OpInv, O!SinkReturns
  PROVE  OpInv' /\ UNCHANGED <<asked, given>> /\ (end' = end \/ (end = "" /\ end' # ""))
<1>1. /\ freed = "" /\ calls # <<>> /\ calls[Len(calls)] = "sink" /\ calls' = SubSeq(calls, 1, Len(calls) - 1)
      /\ freed' = IF gone /\ op \in {"take", "timeout"} THEN "returns" ELSE ""
      /\ IF op = "take" /\ ~gone
         THEN /\ taken' = taken + 1
              /\ IF O!Enough THEN upstream' = O!CancelSource /\ O!Ends("complete") ELSE O!Stays /\ UNCHANGED upstream
         ELSE O!Stays /\ UNCHANGED <<taken, upstream>>
      /\ alarm' = (~gone /\ op = "timeout")
      /\ UNCHANGED <<op, limit, wants, asked, given, forwarded, expired>>
  BY DEF O!SinkReturns, O!Runs, O!Top, O!Below, O!opVars, O!Armed
<1>2. /\ given \in Nat /\ taken \in Nat
      /\ calls \in Seq(Calling) /\ Alternates(calls) /\ 2 * taken + Weight(calls) <= 2 * given
  BY OpNumbers
<1>3. /\ calls' \in Seq(Calling) /\ Alternates(calls') /\ Weight(calls') \in Nat /\ Weight(calls) = Weight(calls') + 2
      /\ Inside(calls) /\ upstream.kind # "empty"
  <2>1. Inside(calls)
    BY <1>1, <1>2, ReturnsOperator
  <2> QED  BY <1>1, <1>2, <2>1, ReturnsOperator DEF OpInv, OpEmpty
<1>4. Inside(calls') => Inside(calls)
  BY <1>3
<1>5. gone \in BOOLEAN /\ (gone <=> end # "") /\ (gone => inside)
  BY <1>3 DEF OpInv, OpTypes, OpEnds
<1>6. /\ 2 * taken + Weight(calls') <= 2 * given /\ 2 * (taken + 1) + Weight(calls') <= 2 * given
      /\ taken + 1 \in Nat
  BY <1>2, <1>3
<1>7. OpCalls'
  <2>1. taken' = taken \/ taken' = taken + 1
    BY <1>1, Zenon
  <2>2. given' = given
    BY <1>1
  <2> QED  BY <1>2, <1>3, <1>6, <2>1, <2>2 DEF OpCalls
<1>8. CASE op = "take" /\ ~gone /\ O!Enough
  <2>1. upstream' = O!CancelSource /\ O!Ends("complete") /\ freed' = "" /\ alarm' = FALSE
    BY <1>1, <1>8
  <2>2. end = "" /\ ran = 0
    BY <1>5, <1>8 DEF OpInv, OpEnds
  <2>3. /\ end' = "complete" /\ gone' = TRUE /\ inside' = O!InSink /\ ran' = ran /\ inside' = TRUE
    BY <1>3, <1>8, <2>1 DEF O!Ends, O!Finally, O!InSink, Inside
  <2>4. /\ upstream' \in [kind : Kinds, open : BOOLEAN, owed : Nat, left : Nat]
        /\ upstream'.open <=> upstream.open /\ upstream.kind = "empty"
        /\ upstream'.kind = upstream.kind /\ upstream'.owed = upstream.owed /\ upstream'.left = upstream.left
    BY <2>1, SourceCancelled
  <2>5. OpTypes'
    BY <1>1, <1>3, <2>1, <2>3, <2>4 DEF OpInv, OpTypes
  <2>6. OpCounts'
    BY <1>1, <2>4 DEF OpInv, OpCounts, O!Everything
  <2>7. OpEnds'
    BY <1>1, <1>3, <1>8, <2>1, <2>2, <2>3, <2>4 DEF OpEnds
  <2>8. OpTimers' /\ OpEmpty'
    BY <1>1, <1>3, <2>1, <2>4 DEF OpInv, OpTimers, OpEmpty
  <2> QED  BY <1>1, <1>7, <2>2, <2>3, <2>5, <2>6, <2>7, <2>8 DEF OpInv
<1>9. CASE ~(op = "take" /\ ~gone /\ O!Enough)
  <2>1. UNCHANGED <<end, gone, inside, ran, upstream>>
    BY <1>1, <1>9, Zenon DEF O!Stays
  <2>2. OpTypes'
    BY <1>1, <1>3, <1>5, <2>1 DEF OpInv, OpTypes
  <2>3. OpCounts'
    BY <1>1, <2>1 DEF OpInv, OpCounts, O!Everything
  <2>4. OpEnds'
    BY <1>1, <1>4, <1>5, <2>1 DEF OpInv, OpEnds
  <2>5. OpTimers' /\ OpEmpty'
    BY <1>1, <1>3, <2>1 DEF OpInv, OpTimers, OpEmpty
  <2> QED  BY <1>1, <1>7, <2>1, <2>2, <2>3, <2>4, <2>5 DEF OpInv
<1> QED  BY <1>8, <1>9

\* A source that has something to send calls an operator that is there.
LEMMA SourceIsThere ==
  ASSUME OpInv, O!SourceMayAct, upstream.owed > 0
  PROVE  ~gone /\ end = "" /\ upstream.kind # "empty" /\ freed = "" /\ (calls # <<>> => calls[Len(calls)] = "asks")
<1>1. upstream.owed # 0
  BY OpNumbers
<1>2. upstream.kind # "empty"
  BY <1>1 DEF OpInv, OpEmpty
<1>3. freed = "" /\ upstream.open /\ (calls # <<>> => calls[Len(calls)] = "asks")
  BY DEF O!SourceMayAct, O!Runs, O!Top
<1> QED  BY <1>2, <1>3 DEF OpInv, OpEnds

\* An element goes to the sink.
LEMMA OpOnNextKept ==
  ASSUME OpInv, O!OnNext
  PROVE  OpInv' /\ end = "" /\ end' = "" /\ given < asked /\ given' = given + 1 /\ asked' = asked
<1>1. /\ O!SourceMayAct /\ upstream.owed > 0 /\ upstream.left > 0
      /\ upstream' = [upstream EXCEPT !.owed = @ - 1, !.left = @ - 1]
      /\ given' = given + 1 /\ calls' = Append(calls, "sink")
      /\ UNCHANGED <<end, gone, inside, ran>>
      /\ UNCHANGED <<op, limit, wants, asked, taken, forwarded, alarm, expired, freed>>
  BY DEF O!OnNext, O!Stays, O!opVars, O!timerVars
<1>2. ~gone /\ end = "" /\ upstream.kind # "empty" /\ freed = "" /\ (calls # <<>> => calls[Len(calls)] = "asks")
  BY <1>1, SourceIsThere
<1>3. /\ asked \in Nat /\ given \in Nat /\ forwarded \in Nat /\ taken \in Nat
      /\ upstream \in [kind : Kinds, open : BOOLEAN, owed : Nat, left : Nat]
      /\ upstream.owed \in Nat /\ upstream.left \in Nat
      /\ given + upstream.left <= Supply /\ given + upstream.owed <= forwarded /\ forwarded <= asked
      /\ wants = "one" => asked <= given + 1
      /\ calls \in Seq(Calling) /\ Alternates(calls) /\ 2 * taken + Weight(calls) <= 2 * given
  BY OpNumbers
<1>4. upstream.owed - 1 \in Nat /\ upstream.left - 1 \in Nat
  <2>1. upstream.owed > 0 /\ upstream.left > 0
    BY <1>1
  <2> QED  BY <1>3, <2>1
<1>5. /\ upstream' \in [kind : Kinds, open : BOOLEAN, owed : Nat, left : Nat]
      /\ upstream'.kind = upstream.kind /\ upstream'.open = upstream.open
      /\ upstream'.owed = upstream.owed - 1 /\ upstream'.left = upstream.left - 1
  BY <1>1, <1>3, <1>4
<1>6. /\ calls' \in Seq(Calling) /\ Alternates(calls') /\ Weight(calls) \in Nat /\ Weight(calls') = Weight(calls) + 2
  <2>1. "sink" \in Calling /\ (calls # <<>> => calls[Len(calls)] # "sink")
    BY <1>2 DEF Calling
  <2> QED  BY <1>1, <1>3, <2>1, CallsOperator
<1>7. given < asked
  <2>1. upstream.owed > 0
    BY <1>1
  <2> QED  BY <1>3, <2>1
<1>8. OpTypes'
  BY <1>1, <1>5, <1>6 DEF OpInv, OpTypes
<1>9. OpCounts'
  <2>1. /\ given' = given + 1 /\ asked' = asked /\ forwarded' = forwarded /\ wants' = wants /\ limit' = limit /\ op' = op
        /\ O!Everything' = O!Everything
    BY <1>1 DEF O!Everything
  <2>2. /\ given' \in Nat /\ given' + upstream'.left <= Supply /\ given' + upstream'.owed <= forwarded'
        /\ wants' = "one" => asked' <= given' + 1
    <3>1. /\ upstream'.owed = upstream.owed - 1 /\ upstream'.left = upstream.left - 1
          /\ given' = given + 1 /\ forwarded' = forwarded /\ asked' = asked /\ wants' = wants
      BY <1>5, <2>1
    <3>2. given + 1 + (upstream.left - 1) <= Supply /\ given + 1 + (upstream.owed - 1) <= forwarded
      BY <1>3, OpAssumed
    <3>3. given + 1 \in Nat /\ (wants = "one" => asked <= given + 1 + 1)
      BY <1>3
    <3> QED  BY <3>1, <3>2, <3>3, Zenon
  <2> QED  BY <2>1, <2>2 DEF OpInv, OpCounts
<1>10. OpCalls'
  <2>1. taken' = taken /\ given' = given + 1
    BY <1>1
  <2>2. 2 * taken' + Weight(calls') <= 2 * given'
    BY <1>3, <1>6, <2>1
  <2> QED  BY <1>3, <1>6, <2>1, <2>2 DEF OpCalls
<1>11. OpEnds'
  BY <1>1, <1>2 DEF OpInv, OpEnds
<1>12. OpTimers' /\ OpEmpty'
  BY <1>1, <1>2, <1>5 DEF OpInv, OpTimers, OpEmpty
<1>13. end' = "" /\ given' = given + 1 /\ asked' = asked
  BY <1>1, <1>2
<1> QED  BY <1>2, <1>7, <1>8, <1>9, <1>10, <1>11, <1>12, <1>13 DEF OpInv

\* take_while refuses an element, and that is the end.
LEMMA OpRefusedKept ==
  ASSUME OpInv, O!Refused
  PROVE  OpInv' /\ end = "" /\ end' # "" /\ UNCHANGED <<asked, given>>
<1>1. /\ O!SourceMayAct /\ upstream.owed > 0 /\ upstream.left > 0
      /\ upstream' = [O!CancelSource EXCEPT !.owed = @ - 1, !.left = @ - 1] /\ O!Ends("complete")
      /\ UNCHANGED <<op, limit, wants, asked, given, taken, forwarded, calls, alarm, expired, freed>>
  BY DEF O!Refused, O!opVars, O!timerVars
<1>2. ~gone /\ end = "" /\ upstream.kind # "empty" /\ freed = ""
  BY <1>1, SourceIsThere
<1>3. /\ end' = "complete" /\ gone' = TRUE /\ inside' \in BOOLEAN
      /\ (gone' <=> end' # "") /\ (gone' /\ Inside(calls') => inside')
      /\ ran' = IF op' = "do_finally" /\ end' # "" THEN 1 ELSE 0
      /\ freed' = "returns" => op' \in {"take", "timeout"} /\ inside'
      /\ freed' = "timer" => op' = "timeout"
      /\ freed' = "source" => FALSE
  BY <1>1, <1>2, OpEnding
<1>4. /\ given \in Nat /\ forwarded \in Nat /\ upstream.owed \in Nat /\ upstream.left \in Nat
      /\ given + upstream.left <= Supply /\ given + upstream.owed <= forwarded /\ Supply \in Nat
  BY OpNumbers, OpAssumed
<1> DEFINE c == O!CancelSource
<1>5. /\ c \in [kind : Kinds, open : BOOLEAN, owed : Nat, left : Nat]
      /\ ~c.open /\ c.kind = upstream.kind /\ c.owed = upstream.owed /\ c.left = upstream.left
  BY <1>2, SourceCancelled
<1> HIDE DEF c
<1>6. upstream.owed - 1 \in Nat /\ upstream.left - 1 \in Nat /\ upstream.owed > 0 /\ upstream.left > 0
  <2>1. upstream.owed > 0 /\ upstream.left > 0
    BY <1>1
  <2> QED  BY <1>4, <2>1
<1>7. upstream' = [c EXCEPT !.owed = @ - 1, !.left = @ - 1]
  BY <1>1 DEF c
<1>8. /\ upstream' \in [kind : Kinds, open : BOOLEAN, owed : Nat, left : Nat]
      /\ ~upstream'.open /\ upstream'.kind = upstream.kind
      /\ upstream'.owed = upstream.owed - 1 /\ upstream'.left = upstream.left - 1
  BY <1>5, <1>6, <1>7
<1>9. OpTypes'
  BY <1>1, <1>3, <1>8 DEF OpInv, OpTypes
<1>10. OpCounts'
  <2>1. given' = given /\ forwarded' = forwarded
    BY <1>1
  <2>2. given' + upstream'.left <= Supply /\ given' + upstream'.owed <= forwarded'
    BY <1>4, <1>8, <2>1
  <2> QED  BY <1>1, <2>2 DEF OpInv, OpCounts, O!Everything
<1>11. OpCalls'
  BY <1>1 DEF OpInv, OpCalls
<1>12. OpEnds'
  BY <1>3, <1>8 DEF OpEnds
<1>13. OpTimers' /\ OpEmpty'
  BY <1>1, <1>2, <1>8 DEF OpInv, OpTimers, OpEmpty
<1> QED  BY <1>1, <1>2, <1>3, <1>9, <1>10, <1>11, <1>12, <1>13 DEF OpInv

\* The source ends, or tells an operator that is gone if it is empty.
LEMMA OpOnEndKept ==
  ASSUME OpInv, NEW how \in {"complete", "error"}, O!OnEnd(how)
  PROVE  OpInv' /\ UNCHANGED <<asked, given>> /\ (end' = end \/ (end = "" /\ end' # ""))
<1>1. /\ freed = "" /\ upstream.open /\ upstream' = [upstream EXCEPT !.open = FALSE]
      /\ IF gone THEN freed' = "source" /\ O!Stays ELSE O!Ends(how) /\ UNCHANGED freed
      /\ alarm' = FALSE
      /\ UNCHANGED <<op, limit, wants, asked, given, taken, forwarded, calls, expired>>
  BY DEF O!OnEnd, O!SourceMayAct, O!Runs, O!opVars
<1>2. upstream \in [kind : Kinds, open : BOOLEAN, owed : Nat, left : Nat] /\ upstream' = [upstream EXCEPT !.open = FALSE]
  BY <1>1, OpNumbers
<1>3. /\ upstream' \in [kind : Kinds, open : BOOLEAN, owed : Nat, left : Nat] /\ upstream'.open = FALSE
      /\ upstream'.kind = upstream.kind /\ upstream'.owed = upstream.owed /\ upstream'.left = upstream.left
  BY <1>2
<1>4. OpCounts' /\ OpCalls'
  BY <1>1, <1>3 DEF OpInv, OpCounts, OpCalls, O!Everything
<1>5. OpTimers' /\ OpEmpty'
  BY <1>1, <1>3 DEF OpInv, OpTimers, OpEmpty
<1>6. CASE gone
  <2>1. freed' = "source" /\ UNCHANGED <<end, gone, inside, ran>>
    BY <1>1, <1>6, Zenon DEF O!Stays
  <2>2. upstream.kind = "empty" /\ end = "cancelled"
    BY <1>1, <1>6 DEF OpInv, OpEnds, OpEmpty
  <2>3. OpTypes'
    BY <1>1, <1>3, <2>1 DEF OpInv, OpTypes
  <2>4. OpEnds'
    BY <1>1, <1>3, <2>1, <2>2 DEF OpInv, OpEnds
  <2> QED  BY <1>1, <1>4, <1>5, <2>1, <2>3, <2>4 DEF OpInv
<1>7. CASE ~gone
  <2>1. O!Ends(how) /\ freed' = freed
    BY <1>1, <1>7, Zenon
  <2>2. calls' = calls /\ op' = op /\ how \in {"complete", "error", "timeout", "cancelled"}
    BY <1>1
  <2>3. /\ end' = how /\ gone' = TRUE /\ inside' \in BOOLEAN
        /\ (gone' <=> end' # "") /\ (gone' /\ Inside(calls') => inside')
        /\ ran' = IF op' = "do_finally" /\ end' # "" THEN 1 ELSE 0
        /\ freed' = "returns" => op' \in {"take", "timeout"} /\ inside'
        /\ freed' = "timer" => op' = "timeout"
        /\ freed' = "source" => FALSE
    BY <1>1, <1>7, <2>1, <2>2, OpEnding
  <2>4. end = "" /\ end' # ""
    BY <1>7, <2>3 DEF OpInv, OpEnds
  <2>5. OpTypes'
    BY <1>1, <1>3, <2>1, <2>2, <2>3 DEF OpInv, OpTypes
  <2>6. OpEnds'
    BY <1>3, <2>3 DEF OpEnds
  <2> QED  BY <1>1, <1>4, <1>5, <2>4, <2>5, <2>6 DEF OpInv
<1> QED  BY <1>6, <1>7

\* The source's request() returns.
LEMMA OpRequestReturnsKept ==
  ASSUME OpInv, O!RequestReturns
  PROVE  OpInv' /\ UNCHANGED <<asked, given, end>>
<1>1. /\ calls # <<>> /\ calls[Len(calls)] = "asks" /\ calls' = SubSeq(calls, 1, Len(calls) - 1)
      /\ UNCHANGED <<end, gone, inside, ran>>
      /\ UNCHANGED <<op, limit, wants, upstream, asked, given, taken, forwarded, alarm, expired, freed>>
  BY DEF O!RequestReturns, O!Top, O!Below, O!Stays, O!opVars, O!timerVars
<1>2. /\ calls \in Seq(Calling) /\ Alternates(calls) /\ 2 * taken + Weight(calls) <= 2 * given
  BY OpNumbers
<1>3. /\ calls' \in Seq(Calling) /\ Alternates(calls') /\ Weight(calls') = Weight(calls)
      /\ Inside(calls') <=> Inside(calls)
  BY <1>1, <1>2, ReturnsOperator
<1>4. OpTypes'
  BY <1>1, <1>3 DEF OpInv, OpTypes
<1>5. OpCounts'
  BY <1>1 DEF OpInv, OpCounts, O!Everything
<1>6. OpCalls'
  BY <1>1, <1>3 DEF OpInv, OpCalls
<1>7. OpEnds'
  BY <1>1, <1>3 DEF OpInv, OpEnds
<1>8. OpTimers' /\ OpEmpty'
  BY <1>1, <1>3 DEF OpInv, OpTimers, OpEmpty
<1> QED  BY <1>1, <1>4, <1>5, <1>6, <1>7, <1>8 DEF OpInv

\* The timer expires, and its handler waits for its turn.
LEMMA OpExpireKept ==
  ASSUME OpInv, O!Expire
  PROVE  OpInv' /\ UNCHANGED <<asked, given, end>>
<1>1. /\ ~O!Subscribing /\ alarm /\ expired < 2 /\ alarm' = FALSE /\ expired' = expired + 1
      /\ UNCHANGED <<end, gone, inside, ran>>
      /\ UNCHANGED <<op, limit, wants, upstream, asked, given, taken, forwarded, calls, freed>>
  BY DEF O!Expire, O!Stays, O!opVars
<1>2. expired' \in 0..2
  <2>1. expired \in 0..2 /\ expired < 2
    BY <1>1, OpNumbers
  <2>2. expired + 1 \in 0..2
    BY <2>1
  <2> QED  BY <1>1, <2>2
<1>3. OpTypes'
  BY <1>1, <1>2 DEF OpInv, OpTypes
<1>4. OpCounts' /\ OpCalls'
  BY <1>1 DEF OpInv, OpCounts, OpCalls, O!Everything
<1>5. OpEnds'
  BY <1>1 DEF OpInv, OpEnds
<1>6. OpTimers' /\ OpEmpty'
  BY <1>1 DEF OpInv, OpTimers, OpEmpty, O!Subscribing
<1> QED  BY <1>1, <1>3, <1>4, <1>5, <1>6 DEF OpInv

\* A handler of the timer runs, whatever has come meanwhile.
LEMMA OpOnTimerKept ==
  ASSUME OpInv, O!OnTimer
  PROVE  OpInv' /\ UNCHANGED <<asked, given>> /\ (end' = end \/ (end = "" /\ end' # ""))
<1>1. /\ freed = "" /\ expired > 0 /\ expired' = expired - 1 /\ alarm' = FALSE
      /\ IF gone THEN freed' = "timer" /\ O!Stays /\ UNCHANGED upstream
         ELSE upstream' = O!CancelSource /\ O!Ends("timeout") /\ UNCHANGED freed
      /\ UNCHANGED <<op, limit, wants, asked, given, taken, forwarded, calls>>
  BY DEF O!OnTimer, O!Runs, O!opVars
<1>2. op = "timeout" /\ ~(upstream.kind = "empty" /\ upstream.open)
  BY <1>1 DEF OpInv, OpTimers
<1>3. expired' \in 0..2
  <2>1. expired \in 0..2 /\ expired > 0
    BY <1>1, OpNumbers
  <2>2. expired - 1 \in 0..2
    BY <2>1
  <2> QED  BY <1>1, <2>2
<1>4. CASE gone
  <2>1. freed' = "timer" /\ upstream' = upstream /\ UNCHANGED <<end, gone, inside, ran>>
    BY <1>1, <1>4, Zenon DEF O!Stays
  <2>2. OpTypes'
    BY <1>1, <1>3, <2>1 DEF OpInv, OpTypes
  <2>3. OpCounts' /\ OpCalls'
    BY <1>1, <2>1 DEF OpInv, OpCounts, OpCalls, O!Everything
  <2>4. OpEnds'
    BY <1>1, <1>2, <2>1 DEF OpInv, OpEnds
  <2>5. OpTimers' /\ OpEmpty'
    BY <1>1, <1>2, <2>1 DEF OpInv, OpTimers, OpEmpty
  <2> QED  BY <1>1, <2>1, <2>2, <2>3, <2>4, <2>5 DEF OpInv
<1>5. CASE ~gone
  <2>1. upstream' = O!CancelSource /\ O!Ends("timeout") /\ freed' = freed
    BY <1>1, <1>5, Zenon
  <2>2. /\ end' = "timeout" /\ gone' = TRUE /\ inside' \in BOOLEAN
        /\ (gone' <=> end' # "") /\ (gone' /\ Inside(calls') => inside')
        /\ ran' = IF op' = "do_finally" /\ end' # "" THEN 1 ELSE 0
        /\ freed' = "returns" => op' \in {"take", "timeout"} /\ inside'
        /\ freed' = "timer" => op' = "timeout"
        /\ freed' = "source" => FALSE
    BY <1>1, <1>5, <2>1, OpEnding
  <2>3. /\ upstream' \in [kind : Kinds, open : BOOLEAN, owed : Nat, left : Nat]
        /\ ~upstream'.open
        /\ upstream'.kind = upstream.kind /\ upstream'.owed = upstream.owed /\ upstream'.left = upstream.left
    BY <1>2, <2>1, SourceCancelled
  <2>4. end = "" /\ end' # ""
    BY <1>5, <2>2 DEF OpInv, OpEnds
  <2>5. OpTypes'
    BY <1>1, <1>3, <2>1, <2>2, <2>3 DEF OpInv, OpTypes
  <2>6. OpCounts' /\ OpCalls'
    BY <1>1, <2>3 DEF OpInv, OpCounts, OpCalls, O!Everything
  <2>7. OpEnds'
    BY <2>2, <2>3 DEF OpEnds
  <2>8. OpTimers' /\ OpEmpty'
    BY <1>1, <1>2, <2>3 DEF OpInv, OpTimers, OpEmpty
  <2> QED  BY <1>1, <2>4, <2>5, <2>6, <2>7, <2>8 DEF OpInv
<1> QED  BY <1>4, <1>5

-----------------------------------------------------------------------------
(* The theorems about the operators and about the stages.                  *)

LEMMA OpBegins ==
  ASSUME O!Init
  PROVE  OpInv
<1>1. /\ op \in Operations /\ limit \in Limits /\ wants \in {"all", "one"}
      /\ asked = 0 /\ given = 0 /\ taken = 0 /\ forwarded = 0 /\ calls = <<>>
      /\ end = "" /\ gone = FALSE /\ inside = FALSE /\ ran = 0
      /\ alarm = FALSE /\ expired = 0 /\ freed = ""
  BY DEF O!Init
<1>2. PICK kind \in Kinds :
        upstream = [kind |-> kind, open |-> TRUE, owed |-> 0, left |-> IF kind = "empty" THEN 0 ELSE Supply]
  BY DEF O!Init, Kinds
<1>3. /\ upstream \in [kind : Kinds, open : BOOLEAN, owed : Nat, left : Nat]
      /\ upstream.owed = 0 /\ upstream.left \in Nat /\ upstream.left <= Supply
  <2> DEFINE l == IF kind = "empty" THEN 0 ELSE Supply
  <2>1. l \in Nat /\ l <= Supply
    BY OpAssumed
  <2>2. upstream = [kind |-> kind, open |-> TRUE, owed |-> 0, left |-> l]
    BY <1>2
  <2> HIDE DEF l
  <2> QED  BY <2>1, <2>2
<1>4. calls \in Seq(Calling) /\ Len(calls) = 0
  BY <1>1, EmptySeq
<1>5. 0 \in 0..2 /\ ~(expired > 0)
  <2>1. expired = 0
    BY <1>1
  <2> QED  BY <2>1
<1>6. OpTypes
  BY <1>1, <1>3, <1>4, <1>5 DEF OpTypes
<1>7. OpCounts
  <2>1. asked = 0 /\ given = 0 /\ forwarded = 0 /\ limit \in Nat /\ Supply \in Nat
    BY <1>1, OpAssumed
  <2> QED  BY <1>3, <2>1 DEF OpCounts
<1>8. OpCalls
  <2>1. taken = 0 /\ given = 0 /\ Weight(calls) = 0
    BY <1>1 DEF Weight
  <2>2. Alternates(calls)
    BY <1>4 DEF Alternates
  <2> QED  BY <2>1, <2>2 DEF OpCalls
<1>9. ~Inside(calls)
  BY <1>4 DEF Inside
<1>10. OpEnds /\ OpTimers /\ OpEmpty
  BY <1>1, <1>3, <1>5, <1>9 DEF OpEnds, OpTimers, OpEmpty
<1> QED  BY <1>6, <1>7, <1>8, <1>10 DEF OpInv

LEMMA OpStutters ==
  ASSUME OpInv, UNCHANGED operatorVars
  PROVE  OpInv'
<1>1. UNCHANGED <<op, limit, wants, upstream, asked, given, taken, forwarded, calls, end, gone, inside, ran,
                  alarm, expired, freed>>
  BY DEF operatorVars
<1>2. OpTypes'
  BY <1>1 DEF OpInv, OpTypes
<1>3. OpCounts' /\ OpCalls'
  BY <1>1 DEF OpInv, OpCounts, OpCalls, O!Everything
<1>4. OpEnds'
  BY <1>1 DEF OpInv, OpEnds
<1>5. OpTimers' /\ OpEmpty'
  BY <1>1 DEF OpInv, OpTimers, OpEmpty
<1> QED  BY <1>2, <1>3, <1>4, <1>5 DEF OpInv

\* Every step of an operator keeps the invariant, and is for its sink a step of a stream.
LEMMA OpKept ==
  ASSUME OpInv, O!Next
  PROVE  OpInv' /\ [O!P!Next]_(O!P!vars)
<1>1. ASSUME UNCHANGED <<asked, given, end>> PROVE [O!P!Next]_(O!P!vars)
  BY <1>1 DEF O!P!vars
<1>2. ASSUME UNCHANGED <<asked, given>>, end = "" /\ end' # "" PROVE [O!P!Next]_(O!P!vars)
  BY <1>2 DEF O!P!Next, O!P!End
<1>3. ASSUME NEW n \in {1, O!Everything}, O!Request(n) PROVE OpInv' /\ [O!P!Next]_(O!P!vars)
  <2>1. OpInv' /\ end = "" /\ end' = "" /\ asked' > asked /\ given' = given
    BY <1>3, OpRequestKept
  <2> QED  BY <2>1 DEF O!P!Next, O!P!Request
<1>4. ASSUME O!OnNext PROVE OpInv' /\ [O!P!Next]_(O!P!vars)
  <2>1. OpInv' /\ end = "" /\ end' = "" /\ given < asked /\ given' = given + 1 /\ asked' = asked
    BY <1>4, OpOnNextKept
  <2> QED  BY <2>1 DEF O!P!Next, O!P!OnNext
<1>5. ASSUME O!Cancel \/ O!Refused PROVE OpInv' /\ [O!P!Next]_(O!P!vars)
  BY <1>2, <1>5, OpCancelKept, OpRefusedKept
<1>6. ASSUME O!SinkReturns \/ O!OnTimer \/ (\E how \in {"complete", "error"} : O!OnEnd(how))
      PROVE  OpInv' /\ [O!P!Next]_(O!P!vars)
  <2>1. OpInv' /\ UNCHANGED <<asked, given>> /\ (end' = end \/ (end = "" /\ end' # ""))
    BY <1>6, OpSinkReturnsKept, OpOnTimerKept, OpOnEndKept
  <2> QED  BY <1>1, <1>2, <2>1
<1>7. ASSUME O!RequestReturns \/ O!Expire PROVE OpInv' /\ [O!P!Next]_(O!P!vars)
  BY <1>1, <1>7, OpRequestReturnsKept, OpExpireKept
<1> QED  BY <1>3, <1>4, <1>5, <1>6, <1>7 DEF O!Next, O!Ask, O!Returns, O!Answer, O!Timer

\* What an operator promises follows from its invariant.
LEMMA OperatorIsSafe ==
  ASSUME OpInv
  PROVE  O!Safety
<1>1. /\ asked \in Nat /\ given \in Nat /\ forwarded \in Nat /\ taken \in Nat
      /\ upstream \in [kind : Kinds, open : BOOLEAN, owed : Nat, left : Nat]
      /\ upstream.owed \in Nat /\ upstream.left \in Nat
      /\ given + upstream.left <= Supply /\ given + upstream.owed <= forwarded /\ forwarded <= asked
      /\ op = "take" => forwarded <= limit
      /\ wants = "all" => asked = 0 \/ asked = O!Everything
      /\ wants = "one" => asked <= given + 1
      /\ wants \in {"all", "one"} /\ limit \in Nat
      /\ calls \in Seq(Calling) /\ Alternates(calls) /\ 2 * taken + Weight(calls) <= 2 * given
  BY OpNumbers
<1>2. Supply \in Nat /\ O!Everything \in Nat /\ O!Everything = Supply + 1
  BY OpAssumed
<1>3. given <= Supply /\ given <= forwarded /\ upstream.left <= Supply
  BY <1>1, <1>2
<1>4. asked <= O!Everything
  BY <1>1, <1>2, <1>3
<1>5. Weight(calls) \in Nat
  <2>1. CASE calls = <<>>
    BY <2>1 DEF Weight
  <2>2. CASE calls # <<>>
    BY <1>1, <2>2, ReturnsOperator
  <2> QED  BY <2>1, <2>2
<1>6. taken <= given
  BY <1>1, <1>5
<1>7. /\ asked \in 0..O!Everything /\ forwarded \in 0..O!Everything /\ upstream.owed \in 0..O!Everything
      /\ given \in 0..Supply /\ taken \in 0..Supply /\ upstream.left \in 0..Supply
  BY <1>1, <1>2, <1>3, <1>4, <1>6
<1>8. upstream \in [kind : {"drained", "answers", "empty"}, open : BOOLEAN, owed : 0..O!Everything, left : 0..Supply]
  BY <1>1, <1>7 DEF Kinds
<1>9. ran \in 0..2
  <2>1. ran = 0 \/ ran = 1
    BY DEF OpInv, OpEnds
  <2> QED  BY <2>1
<1>10. O!TypeOK
  BY <1>1, <1>7, <1>8, <1>9 DEF OpInv, OpTypes, O!TypeOK, Calling
<1>11. O!LimitHolds
  <2>1. op = "take" => given <= limit
    BY <1>1, <1>3
  <2> QED  BY <1>1, <2>1 DEF O!LimitHolds
<1>12. O!NothingLeftRunning /\ O!FinallyOnce /\ O!FreedAsKnown
  BY DEF OpInv, OpEnds, O!NothingLeftRunning, O!FinallyOnce, O!FreedAsKnown
<1> QED  BY <1>10, <1>11, <1>12 DEF O!Safety

\* The invariants of flat_map and of the operators hold for every source, sink, limit and nesting.
LEMMA StagesInvariant ==
  ASSUME \A d \in Demands : Tame(d)
  PROVE  StagesSpec => [](FlatMapInv /\ Bounded /\ OpInv)
<1>1. StagesInit => FlatMapInv /\ Bounded /\ OpInv
  <2>1. Init => waiting = 0 /\ requested = 0 /\ inner.owed = 0
    <3>1. Init => waiting = 0 /\ requested = 0 /\ inner = [open |-> FALSE, owed |-> 0, left |-> 0]
      BY DEF Init
    <3> QED  BY <3>1
  <2>2. waiting = 0 /\ requested = 0 /\ inner.owed = 0 => Bounded
    BY DEF Bounded
  <2> QED  BY <2>1, <2>2, FlatMapBegins, OpBegins DEF StagesInit
<1>2. FlatMapInv /\ Bounded /\ OpInv /\ [StagesNext]_stageVars => (FlatMapInv /\ Bounded /\ OpInv)'
  <2> SUFFICES ASSUME FlatMapInv, Bounded, OpInv, [StagesNext]_stageVars PROVE (FlatMapInv /\ Bounded /\ OpInv)'
    OBVIOUS
  <2>1. UNCHANGED vars => Bounded'
    BY DEF Bounded, vars, drainVars, flatVars
  <2>2. CASE OfFlatMap(Next)
    BY <2>2, FlatMapKept, BoundedKept, OpStutters DEF OfFlatMap
  <2>3. CASE OfOperator(O!Next)
    BY <2>1, <2>3, FlatMapStutters, OpKept DEF OfOperator
  <2>4. CASE UNCHANGED stageVars
    BY <2>1, <2>4, FlatMapStutters, OpStutters DEF stageVars
  <2> QED  BY <2>2, <2>3, <2>4 DEF StagesNext
<1> QED  BY <1>1, <1>2, PTL DEF StagesSpec

\* What every stage promises in every state: no CHECK of flat_map fails and nothing deleted is used;
\* take keeps its limit, do_finally runs once, an operator that is gone leaves no source running and
\* is used again only where the code is known to (streams_impl.h, asio timeout).
THEOREM StagesAreSafe ==
  ASSUME \A d \in Demands : Tame(d)
  PROVE  StagesSpec => []StagesSafety
<1>1. FlatMapInv /\ Bounded /\ OpInv => StagesSafety
  BY FlatMapIsSafe, OperatorIsSafe DEF StagesSafety
<1> QED  BY <1>1, StagesInvariant, PTL

\* Between the calls the demand of flat_map's sink is at a source.
THEOREM DemandIsKept ==
  ASSUME \A d \in Demands : Tame(d)
  PROVE  StagesSpec => []DemandIsPassedOn
<1>1. FlatMapInv /\ Bounded => DemandIsPassedOn
  BY FlatMapIsSafe
<1> QED  BY <1>1, StagesInvariant, PTL

\* Both implement Stream: whatever the nesting, the sink gets what it asked for and no more, and
\* hears nothing behind the end.
THEOREM StagesImplementStream ==
  ASSUME \A d \in Demands : Tame(d)
  PROVE  StagesSpec => KeepsPromise /\ O!KeepsPromise
<1>1. StagesInit => P!Init /\ O!P!Init
  BY DEF StagesInit, Init, P!Init, O!Init, O!P!Init
<1>2. FlatMapInv /\ OpInv /\ [StagesNext]_stageVars => [P!Next]_(P!vars) /\ [O!P!Next]_(O!P!vars)
  <2> SUFFICES ASSUME FlatMapInv, OpInv, [StagesNext]_stageVars PROVE [P!Next]_(P!vars) /\ [O!P!Next]_(O!P!vars)
    OBVIOUS
  <2>1. UNCHANGED vars => UNCHANGED P!vars
    BY DEF vars, drainVars, P!vars
  <2>2. UNCHANGED operatorVars => UNCHANGED O!P!vars
    BY DEF operatorVars, O!P!vars
  <2>3. CASE OfFlatMap(Next)
    BY <2>2, <2>3, FlatMapPromises DEF OfFlatMap
  <2>4. CASE OfOperator(O!Next)
    BY <2>1, <2>4, OpKept DEF OfOperator
  <2>5. CASE UNCHANGED stageVars
    BY <2>1, <2>2, <2>5 DEF stageVars
  <2> QED  BY <2>3, <2>4, <2>5 DEF StagesNext
<1> QED  BY <1>1, <1>2, StagesInvariant, PTL DEF StagesSpec, KeepsPromise, P!Spec, O!KeepsPromise, O!P!Spec

=============================================================================
