--------------------------- MODULE SourcesProofs ---------------------------
(***************************************************************************)
(* Theorems about Sources, and Delay which it extends, for every length of *)
(* the file, every watermark and every way to request.                     *)
(***************************************************************************)
EXTENDS Sources, SequenceTheorems, TLAPS

-----------------------------------------------------------------------------
(* The invariant of the stage.                                             *)

Types ==
  /\ TypeOK
  /\ source \in [next : 1..Items + 1, open : BOOLEAN]
  /\ demand \in Demands

\* Every element sent is with the sink or in the buffer, and while on_next runs
\* the first of the buffer is both.
Conveyed ==
  /\ Len(received) + Len(buffer) = source.next - 1 + (IF delivering THEN 1 ELSE 0)
  /\ \A k \in 1..Len(received) : received[k] = k
  /\ \A k \in 1..Len(buffer) : buffer[k] = source.next - 1 - Len(buffer) + k

\* The timer runs exactly while something waits that is not being delivered.
Timed ==
  /\ delivering => buffer # <<>> /\ timer = "off"
  /\ Alive => (timer = "set" <=> buffer # <<>> /\ ~delivering)

\* The stage knows of no more demand than there is, of all of it if the sink
\* requested everything, and nothing comes before the first request.
Needed ==
  /\ sinkNeeds + Len(received) <= asked
  /\ demand = "all" => asked \in {0, Infinity} /\ sinkNeeds + Len(received) = asked
  /\ demand # "all" => asked <= Len(received) + 1
  /\ asked = 0 => waiting = 0 /\ buffer = <<>>

\* Who has ended whom: a stage lives on behind the end of its source, or a
\* cancel, for what is in its buffer alone.
Closed ==
  /\ ~active => ~source.open
  /\ cancelled => ~active
  /\ error => ~source.open
  /\ Alive /\ ~source.open => ~active
  /\ Alive /\ ~active => buffer # <<>>
  /\ ended \in Ends => buffer = <<>> /\ ~delivering /\ ~source.open /\ ~cancelled
  /\ ended = "complete" => ~error

Staged == Types /\ Conveyed /\ Timed /\ Needed /\ Closed /\ BoundedAhead

\* what a line that is no JSON object (BadLine) is to the stage
Stumbles ==
  /\ Alive /\ failed' = "line"
  /\ UNCHANGED <<buffer, active, cancelled, error, sinkNeeds, waiting, timer, delivering,
                 source, asked, received, demand, ended>>

(* The invariant of the sources.                                           *)

\* Metadata first, then a frame for every step of _last_pos; a line has no id.
Named ==
  /\ kind \in Frames =>
       /\ Len(content) = IF opened THEN lastPos + 1 ELSE 0
       /\ opened => source.next = lastPos + 2
       /\ ~opened => lastPos = 0 /\ source.next = 1
       /\ \A k \in 1..Len(content) :
            IF k = 1 THEN content[k] = Metadata
            ELSE content[k].id = IF kind = "camera" THEN k - 2 ELSE k - 1
  /\ kind = "replay" => Len(content) = source.next - 1
  /\ kind = "any" => content = <<>>

\* What is read later is from a later place, until a loop begins again.
Rising ==
  kind \in {"file", "replay"} =>
    /\ \A k \in 1..Len(content) : content[k].ts <= place
    /\ \A k \in 2..Len(content) : content[k - 1].ts < content[k].ts

\* A source that completed, and that the sink did not cancel, was read to its end.
ReadThrough ==
  ~source.open /\ ~cancelled /\ ~error /\ ended \in {"no", "complete"} /\ content # <<>> =>
    kind \in {"file", "replay"} /\ place = Length

Inductive == Staged /\ SourcesTypeOK /\ Named /\ Rising /\ ReadThrough

-----------------------------------------------------------------------------
(* Lemmas.                                                                 *)

\* What is appended to a sequence (push) comes last and leaves the rest alone.
LEMMA Appended ==
  ASSUME NEW S, NEW s \in Seq(S), NEW x \in S, NEW n \in Nat, n = Len(s)
  PROVE  /\ Append(s, x) \in Seq(S) /\ Len(Append(s, x)) = n + 1 /\ Append(s, x)[n + 1] = x
         /\ \A k \in 1..n : Append(s, x)[k] = s[k]
BY AppendProperties

\* What leaves a sequence in front (pop) moves the rest up.
LEMMA Popped ==
  ASSUME NEW S, NEW s \in Seq(S), NEW n \in Nat, n = Len(s), s # <<>>
  PROVE  /\ n > 0 /\ Head(s) \in S /\ Head(s) = s[1]
         /\ Tail(s) \in Seq(S) /\ Len(Tail(s)) = n - 1
         /\ \A k \in 1..n - 1 : Tail(s)[k] = s[k + 1]
<1>1. n # 0
  BY EmptySeq
<1> QED  BY <1>1, HeadTailProperties

\* A stage that waits for more than is in its buffer has asked for it: the numbers
\* of a stage are within their bounds.
LEMMA Sizes ==
  ASSUME Types
  PROVE  /\ Len(received) \in Nat /\ Len(buffer) \in Nat /\ (buffer = <<>> <=> Len(buffer) = 0)
         /\ source.next \in 1..Items + 1 /\ sinkNeeds \in Nat /\ waiting \in Nat /\ asked \in Nat
         /\ Items \in Nat /\ LowWatermark \in Nat /\ Infinity \in Nat /\ Infinity > Items + 1
         /\ source.open \in BOOLEAN /\ source.next \in Nat
<1>1. Len(received) \in Nat /\ Len(buffer) \in Nat /\ (buffer = <<>> <=> Len(buffer) = 0)
  BY EmptySeq, LenProperties DEF Types, TypeOK
<1> QED  BY <1>1, DelayAssumption DEF Types, TypeOK

\* maybe_request asks for no more than the sink needs and the watermark allows.
LEMMA WantedBounds ==
  ASSUME NEW needs \in Nat, NEW n \in Nat, NEW w \in Nat
  PROVE  /\ Wanted(needs, n, w) \in Nat /\ Wanted(needs, n, w) <= needs
         /\ n + w <= LowWatermark => n + w + Wanted(needs, n, w) <= LowWatermark
BY DelayAssumption DEF Wanted, Least

\* on_subscribe leaves a stage with nothing in its buffer and no demand.
LEMMA StagedInit == Init => Staged
<1> SUFFICES ASSUME Init PROVE Staged
  OBVIOUS
<1>1. Len(received) = 0 /\ Len(buffer) = 0 /\ source.next = 1 /\ source.open
  BY DEF Init
<1>2. Types
  <2>1. 0 \in 0..2 * Infinity /\ 0 \in 0..LowWatermark /\ 1 \in 1..Items + 1
    BY DelayAssumption
  <2>2. source \in [next : 1..Items + 1, open : BOOLEAN]
    BY <2>1 DEF Init
  <2>3. demand \in Demands
    BY DEF Init
  <2>4. buffer \in Seq(1..Items) /\ received \in Seq(1..Items)
    BY EmptySeq DEF Init
  <2> QED  BY <2>1, <2>2, <2>3, <2>4 DEF Init, Types, TypeOK
<1>3. Conveyed
  <2>1. ~delivering
    BY DEF Init
  <2> QED  BY <1>1, <2>1 DEF Conveyed
<1>4. Timed
  BY DEF Init, Timed, Alive
<1>5. Needed /\ BoundedAhead
  <2>1. Len(received) = 0 /\ Len(buffer) = 0 /\ asked = 0 /\ sinkNeeds = 0 /\ waiting = 0 /\ buffer = <<>>
    BY <1>1 DEF Init
  <2> QED  BY <2>1, DelayAssumption DEF Needed, BoundedAhead
<1>6. Closed
  BY <1>1 DEF Init, Closed, Alive, Ends
<1> QED  BY <1>2, <1>3, <1>4, <1>5, <1>6 DEF Staged

\* The sink's request: what it needs is remembered, what is free is requested.
LEMMA RequestKeeps ==
  ASSUME Staged, NEW n \in {1, Infinity}, Request(n)
  PROVE  Staged'
<1> USE DEF Staged
<1>0. /\ UNCHANGED <<demand, buffer, active, cancelled, error, timer, delivering, source, received, ended, failed>>
      /\ asked' = asked + n /\ n \in Nat /\ n > 0 /\ Alive /\ ~cancelled
  BY Sizes DEF Request
<1>1. /\ sinkNeeds' = IF active THEN sinkNeeds + n ELSE sinkNeeds
      /\ waiting' = IF active THEN waiting + Wanted(sinkNeeds + n, Len(buffer), waiting) ELSE waiting
  BY DEF Request, Needs
<1>2. waiting' \in Nat /\ Len(buffer) + waiting' <= LowWatermark
  <2>1. PICK m \in Nat : m = Len(buffer)
    BY Sizes
  <2>2. PICK w \in Nat : w = waiting
    BY Sizes
  <2>3. PICK s \in Nat : s = sinkNeeds
    BY Sizes
  <2>4. m + w <= LowWatermark
    BY <2>1, <2>2 DEF BoundedAhead
  <2>5. s + n \in Nat
    BY <1>0
  <2>6. Wanted(s + n, m, w) \in Nat /\ m + w + Wanted(s + n, m, w) <= LowWatermark
    BY <2>4, <2>5, WantedBounds
  <2>7. waiting' = w \/ waiting' = w + Wanted(s + n, m, w)
    BY <1>1, <2>1, <2>2, <2>3
  <2>8. PICK v \in Nat : v = Wanted(s + n, m, w)
    BY <2>6
  <2>9. w + v \in Nat /\ m + (w + v) <= LowWatermark
    <3>1. LowWatermark \in Nat /\ m + w + v <= LowWatermark  BY <2>6, <2>8, DelayAssumption
    <3> QED  BY <3>1, SMT
  <2> QED  BY <2>1, <2>4, <2>7, <2>8, <2>9
<1>3. Needed'
  <2>1. demand = "all" => asked = 0 /\ n = Infinity /\ active
    BY <1>0, Sizes DEF Request, MayRequest, Needed, Closed
  <2>2. demand # "all" => n = 1 /\ asked = Len(received)
    BY DEF Request, MayRequest
  <2>3. sinkNeeds' + Len(received) <= asked + n
    BY <1>0, <1>1, Sizes, SMTT(60) DEF Needed
  <2>4. demand = "all" => sinkNeeds' + Len(received) = asked + n
    BY <1>0, <1>1, <2>1, Sizes DEF Needed
  <2> QED  BY <1>0, <2>1, <2>2, <2>3, <2>4, Sizes DEF Needed
<1>4. Types'
  <2>1. asked' <= Infinity \/ asked' <= Len(received) + 1
    BY <1>0, <1>3, Sizes DEF Needed
  <2>2. Len(received) <= Items
    BY Sizes DEF Conveyed, Timed
  <2>3. sinkNeeds' \in Nat /\ asked' \in Nat
    BY <1>0, <1>1, Sizes, SMTT(60)
  <2>4. sinkNeeds' <= asked'
    BY <1>0, <1>3, <2>3, Sizes DEF Needed
  <2>5. sinkNeeds' \in 0..2 * Infinity /\ waiting' \in 0..LowWatermark
    <3>1. PICK a \in Nat : a = asked'
      BY <2>3
    <3>2. a <= 2 * Infinity
      BY <2>1, <2>2, <3>1, Sizes
    <3>3. PICK s \in Nat : s = sinkNeeds'
      BY <2>3
    <3>4. s \in 0..2 * Infinity
      BY <2>4, <3>1, <3>2, <3>3, Sizes
    <3>5. PICK w \in Nat : w = waiting'
      BY <1>2
    <3>6. w \in 0..LowWatermark
      BY <1>2, <3>5, Sizes
    <3> QED  BY <3>3, <3>4, <3>5, <3>6
  <2> QED  BY <1>0, <2>3, <2>5 DEF Types, TypeOK
<1>5. Conveyed' /\ Timed' /\ Closed'
  BY <1>0 DEF Conveyed, Timed, Closed, Alive
<1> QED  BY <1>0, <1>2, <1>3, <1>4, <1>5 DEF BoundedAhead

\* The sink's cancel: it is passed on, and a stage with nothing in its buffer goes.
LEMMA CancelKeeps ==
  ASSUME Staged, Cancel
  PROVE  Staged'
<1> USE DEF Staged
<1>0. /\ UNCHANGED <<demand, buffer, error, sinkNeeds, waiting, timer, delivering, asked, received, failed>>
      /\ active' = FALSE /\ cancelled' = TRUE /\ Alive
      /\ ended' = IF buffer = <<>> THEN "cancelled" ELSE ended
  BY DEF Cancel, Disposed
<1>1. source'.next = source.next /\ source' \in [next : 1..Items + 1, open : BOOLEAN]
      /\ (source'.open <=> source.open /\ ~active)
  BY Zenon DEF Cancel, Types
<1>2. ~source'.open
  BY <1>1 DEF Closed
<1>3. Types'
  BY <1>0, <1>1 DEF Types, TypeOK
<1>4. Conveyed' /\ Timed' /\ Needed' /\ BoundedAhead'
  BY <1>0, <1>1 DEF Conveyed, Timed, Needed, BoundedAhead, Alive
<1>5. Closed'
  BY <1>0, <1>2 DEF Closed, Alive, Ends
<1> QED  BY <1>3, <1>4, <1>5

\* The source's end: it waits behind what is in the buffer.
LEMMA OnEndKeeps ==
  ASSUME Staged, NEW how \in Ends, OnEnd(how)
  PROVE  Staged'
<1> USE DEF Staged
<1>0. /\ UNCHANGED <<demand, buffer, cancelled, sinkNeeds, waiting, timer, delivering, asked, received, failed>>
      /\ Alive /\ source.open
      /\ IF buffer = <<>> THEN ended' = how /\ UNCHANGED <<active, error>>
         ELSE active' = FALSE /\ error' = (how = "error") /\ ended' = ended
  BY DEF OnEnd, EndsNow
<1>1. source'.next = source.next /\ source' \in [next : 1..Items + 1, open : BOOLEAN] /\ ~source'.open
  BY Zenon DEF OnEnd, Types
<1>2. active' \in BOOLEAN /\ error' \in BOOLEAN /\ ended' \in {"no", "complete", "error", "cancelled"}
  BY <1>0 DEF Types, TypeOK, Ends
<1>3. Types'
  BY <1>0, <1>1, <1>2 DEF Types, TypeOK
<1>4. Conveyed' /\ Needed' /\ BoundedAhead'
  BY <1>0, <1>1 DEF Conveyed, Needed, BoundedAhead
<1>5. Timed'
  BY <1>0 DEF Timed, Alive
<1>6. Closed'
  BY <1>0, <1>1 DEF Closed, Timed, Alive, Ends
<1> QED  BY <1>3, <1>4, <1>5, <1>6

\* A CHECK that ends the process stops the stage as it is.
LEMMA StumblesKeeps ==
  ASSUME Staged, Stumbles
  PROVE  Staged'
<1> USE DEF Staged
<1>1. Types'
  BY DEF Types, TypeOK, Stumbles
<1>2. Conveyed' /\ Timed' /\ Needed' /\ Closed' /\ BoundedAhead'
  BY DEF Conveyed, Timed, Needed, Closed, BoundedAhead, Stumbles, Alive
<1> QED  BY <1>1, <1>2

\* An element from the source is last in the buffer, and starts the timer if it is
\* the only one.
LEMMA OnNextKeeps ==
  ASSUME Staged, OnNext
  PROVE  Staged'
<1> USE DEF Staged
<1>0. /\ UNCHANGED <<demand, active, cancelled, error, sinkNeeds, delivering, asked, received, ended, failed>>
      /\ Alive /\ source.open /\ waiting > 0 /\ source.next <= Items
      /\ waiting' = waiting - 1
      /\ buffer' = Append(buffer, source.next)
      /\ timer' = IF buffer = <<>> THEN "set" ELSE timer
  BY DEF OnNext, Buffered
<1>1. source'.next = source.next + 1 /\ source'.open = source.open
      /\ source' = [source EXCEPT !.next = source.next + 1]
  BY DEF OnNext, Types
<1>2. PICK n \in Nat : n = Len(buffer)
  BY Sizes
<1>3. PICK x \in 1..Items : x = source.next
  BY <1>0, Sizes
<1>4. /\ buffer' \in Seq(1..Items) /\ Len(buffer') = n + 1 /\ buffer'[n + 1] = x
      /\ \A k \in 1..n : buffer'[k] = buffer[k]
  BY <1>0, <1>2, <1>3, Appended DEF Types, TypeOK
<1>5. buffer' # <<>>
  BY <1>4, EmptySeq
<1>6. Types'
  <2>1. x + 1 \in 1..Items + 1 /\ waiting' \in 0..LowWatermark
    BY <1>0, Sizes DEF Types, TypeOK
  <2>2. source' \in [next : 1..Items + 1, open : BOOLEAN]
    BY <1>1, <1>3, <2>1 DEF Types
  <2>3. timer' \in {"off", "set"}
    BY <1>0 DEF Types, TypeOK
  <2> QED  BY <1>0, <1>4, <2>1, <2>2, <2>3 DEF Types, TypeOK
<1>7. Conveyed'
  <2>1. Len(received') + Len(buffer') = source'.next - 1 + (IF delivering' THEN 1 ELSE 0)
    <3>1. PICK i \in Nat : i = Len(received)
      BY Sizes
    <3>2. PICK d \in {0, 1} : d = IF delivering THEN 1 ELSE 0
      OBVIOUS
    <3>3. i + n = x - 1 + d
      BY <1>2, <1>3, <3>1, <3>2 DEF Conveyed
    <3>4. i + (n + 1) = x + 1 - 1 + d
      BY <3>3
    <3> QED  BY <1>0, <1>1, <1>3, <1>4, <3>1, <3>2, <3>4
  <2>2. ASSUME NEW k \in 1..n + 1 PROVE buffer'[k] = x + 1 - 1 - (n + 1) + k
    <3>1. k \in 1..n \/ k = n + 1
      OBVIOUS
    <3>2. CASE k = n + 1
      BY <3>2, <1>3, <1>4
    <3>3. CASE k \in 1..n
      <4>1. buffer'[k] = buffer[k] /\ buffer[k] = x - 1 - n + k
        BY <3>3, <1>2, <1>3, <1>4 DEF Conveyed
      <4> QED  BY <3>3, <4>1
    <3> QED  BY <3>1, <3>2, <3>3
  <2>3. \A k \in 1..Len(buffer') : buffer'[k] = source'.next - 1 - Len(buffer') + k
    BY <1>1, <1>3, <1>4, <2>2
  <2> QED  BY <1>0, <2>1, <2>3 DEF Conveyed
<1>8. Timed'
  BY <1>0, <1>5 DEF Timed, Alive
<1>9. Needed'
  BY <1>0, Sizes DEF Needed
<1>10. Closed'
  BY <1>0, <1>1, <1>5 DEF Closed, Alive, Ends
<1>11. BoundedAhead'
  BY <1>0, <1>2, <1>4, Sizes DEF BoundedAhead
<1> QED  BY <1>6, <1>7, <1>8, <1>9, <1>10, <1>11

\* The timer hands the first of the buffer on, against one of the sink's demand.
LEMMA OnTimerKeeps ==
  ASSUME Staged, OnTimer
  PROVE  Staged'
<1> USE DEF Staged
<1>0. /\ UNCHANGED <<demand, buffer, active, cancelled, error, waiting, source, asked>>
      /\ Alive /\ timer = "set" /\ ~delivering /\ timer' = "off"
      /\ buffer # <<>>
  BY DEF OnTimer, Timed
<1>1. CASE cancelled
  <2>1. ended' = "cancelled" /\ UNCHANGED <<sinkNeeds, delivering, received, failed>>
    BY <1>1 DEF OnTimer
  <2>2. Types'
    BY <1>0, <2>1, Zenon DEF Types, TypeOK
  <2> QED  BY <1>0, <2>1, <2>2 DEF Conveyed, Timed, Needed, Closed, BoundedAhead, Alive, Ends
<1>2. CASE ~cancelled /\ sinkNeeds = 0
  <2>1. failed' = "_sink_needs > 0" /\ UNCHANGED <<sinkNeeds, delivering, received, ended>>
    BY <1>2 DEF OnTimer
  <2>2. Types'
    BY <1>0, <2>1, Zenon DEF Types, TypeOK
  <2> QED  BY <1>0, <2>1, <2>2 DEF Conveyed, Timed, Needed, Closed, BoundedAhead, Alive, Ends
<1>3. CASE ~cancelled /\ sinkNeeds # 0
  <2>1. /\ sinkNeeds' = sinkNeeds - 1 /\ received' = Append(received, Head(buffer))
        /\ delivering' = TRUE /\ UNCHANGED <<ended, failed>>
    BY <1>3 DEF OnTimer
  <2>2. PICK n \in Nat : n = Len(received)
    BY Sizes
  <2>3. PICK m \in Nat : m = Len(buffer)
    BY Sizes
  <2>4. m > 0 /\ Head(buffer) \in 1..Items /\ Head(buffer) = buffer[1]
    BY <1>0, <2>3, Popped DEF Types, TypeOK
  <2>5. n + m = source.next - 1
    BY <1>0, <2>2, <2>3, Sizes DEF Conveyed
  <2>6. Head(buffer) = n + 1
    <3>1. buffer[1] = source.next - 1 - m + 1
      BY <2>3, <2>4 DEF Conveyed
    <3> QED  BY <2>4, <2>5, <3>1, Sizes
  <2>7. /\ received' \in Seq(1..Items) /\ Len(received') = n + 1 /\ received'[n + 1] = n + 1
        /\ \A k \in 1..n : received'[k] = received[k]
    BY <2>1, <2>2, <2>4, <2>6, Appended DEF Types, TypeOK
  <2>8. Types'
    <3>1. sinkNeeds' \in 0..2 * Infinity
      BY <1>3, <2>1, Sizes DEF Types, TypeOK
    <3> QED  BY <1>0, <2>1, <2>7, <3>1 DEF Types, TypeOK
  <2>9. Conveyed'
    <3>1. Len(received') + Len(buffer') = source'.next - 1 + (IF delivering' THEN 1 ELSE 0)
      <4>1. (n + 1) + m = source.next - 1 + 1
        BY <2>5, Sizes
      <4> QED  BY <1>0, <2>1, <2>3, <2>7, <4>1
    <3>2. ASSUME NEW k \in 1..n + 1 PROVE received'[k] = k
      <4>1. k \in 1..n \/ k = n + 1
        OBVIOUS
      <4> QED  BY <2>2, <2>7, <4>1 DEF Conveyed
    <3> QED  BY <1>0, <2>7, <3>1, <3>2 DEF Conveyed
  <2>10. Timed' /\ Closed' /\ BoundedAhead'
    BY <1>0, <2>1 DEF Timed, Closed, BoundedAhead, Alive, Ends
  <2>11. Needed'
    <3>1. PICK s \in Nat : s = sinkNeeds
      BY Sizes
    <3>2. s # 0 /\ s - 1 + (n + 1) = s + n
      BY <1>3, <3>1
    <3>3. sinkNeeds' + Len(received') = sinkNeeds + Len(received)
      BY <2>1, <2>2, <2>7, <3>1, <3>2
    <3>4. demand # "all" => asked <= Len(received') + 1
      BY <2>2, <2>7, Sizes DEF Needed
    <3> QED  BY <1>0, <3>3, <3>4 DEF Needed
  <2> QED  BY <2>8, <2>9, <2>10, <2>11
<1> QED  BY <1>1, <1>2, <1>3

\* What was delivered leaves the buffer, and then the timer is set again, more is
\* requested or the stage ends.
LEMMA AfterOnNextKeeps ==
  ASSUME Staged, AfterOnNext
  PROVE  Staged'
<1> USE DEF Staged
<1>0. /\ UNCHANGED <<demand, active, cancelled, error, sinkNeeds, source, asked, received, failed>>
      /\ Alive /\ delivering /\ delivering' = FALSE /\ buffer' = Tail(buffer)
      /\ buffer # <<>> /\ timer = "off"
  BY DEF AfterOnNext, Timed
<1>1. PICK m \in Nat : m = Len(buffer)
  BY Sizes
<1>2. /\ m > 0 /\ buffer' \in Seq(1..Items) /\ Len(buffer') = m - 1
      /\ \A k \in 1..m - 1 : buffer'[k] = buffer[k + 1]
  BY <1>0, <1>1, Popped DEF Types, TypeOK
<1>3. buffer' = <<>> <=> m = 1
  BY <1>2, EmptySeq
<1>4. /\ cancelled => ended' = "cancelled" /\ timer' = timer /\ waiting' = waiting
      /\ ~cancelled /\ m > 1 => timer' = "set" /\ ended' = ended /\ waiting' = waiting
      /\ ~cancelled /\ m = 1 /\ active =>
           waiting' = waiting + Wanted(sinkNeeds, 0, waiting) /\ ended' = ended /\ timer' = timer
      /\ ~cancelled /\ m = 1 /\ ~active => ended' = Outcome /\ timer' = timer /\ waiting' = waiting
  <2>1. (Len(buffer) > 1 <=> m > 1) /\ (m = 1 => ~(m > 1))
    BY <1>1
  <2> QED  BY <2>1 DEF AfterOnNext
<1>5. Outcome \in Ends
  BY DEF Outcome, Ends
<1>6. waiting' \in Nat /\ m - 1 + waiting' <= LowWatermark
  <2>1. 0 + waiting <= LowWatermark /\ m + waiting <= LowWatermark
    BY <1>1, Sizes DEF BoundedAhead
  <2>2. Wanted(sinkNeeds, 0, waiting) \in Nat /\ 0 + waiting + Wanted(sinkNeeds, 0, waiting) <= LowWatermark
    BY <2>1, Sizes, WantedBounds
  <2>3. waiting' = waiting \/ (m = 1 /\ waiting' = waiting + Wanted(sinkNeeds, 0, waiting))
    BY <1>2, <1>4 DEF Types, TypeOK
  <2> QED  BY <1>2, <2>1, <2>2, <2>3, Sizes
<1>7. Types'
  <2>1. ended' \in {"no", "complete", "error", "cancelled"} /\ timer' \in {"off", "set"}
    BY <1>0, <1>2, <1>4, <1>5 DEF Types, TypeOK, Ends
  <2>2. waiting' \in 0..LowWatermark
    BY <1>2, <1>6, Sizes
  <2> QED  BY <1>0, <1>2, <2>1, <2>2 DEF Types, TypeOK
<1>8. Conveyed'
  <2>1. Len(received') + Len(buffer') = source'.next - 1 + (IF delivering' THEN 1 ELSE 0)
    BY <1>0, <1>1, <1>2, Sizes DEF Conveyed
  <2>2. ASSUME NEW k \in 1..m - 1 PROVE buffer'[k] = source.next - 1 - (m - 1) + k
    <3>1. k + 1 \in 1..m /\ buffer'[k] = buffer[k + 1]
      BY <1>2
    <3>2. PICK x \in Nat : x = source.next
      BY Sizes
    <3>3. buffer[k + 1] = x - 1 - m + (k + 1)
      BY <1>1, <3>1, <3>2 DEF Conveyed
    <3>4. x - 1 - m + (k + 1) = x - 1 - (m - 1) + k
      OBVIOUS
    <3> QED  BY <3>1, <3>2, <3>3, <3>4
  <2> QED  BY <1>0, <1>2, <2>1, <2>2 DEF Conveyed
<1>9. Timed'
  <2>1. m = 1 \/ m > 1
    BY <1>2
  <2>2. CASE m = 1
    <3>1. buffer' = <<>> /\ ~(m > 1)
      BY <1>3, <2>2
    <3>2. timer' = "off"
      BY <1>0, <1>4, <2>2, Zenon
    <3> QED  BY <1>0, <3>1, <3>2, Zenon DEF Timed
  <2>3. CASE m > 1
    <3>1. buffer' # <<>>
      BY <1>3, <2>3
    <3>2. cancelled \/ timer' = "set"
      BY <1>4, <2>3
    <3>3. cancelled => ended' # "no"
      BY <1>4
    <3> QED  BY <1>0, <3>1, <3>2, <3>3 DEF Timed, Alive
  <2> QED  BY <2>1, <2>2, <2>3
<1>10. Needed'
  BY <1>0, <1>1, <1>2, <1>4, Sizes DEF Needed
<1>11. Closed'
  <2>1. m = 1 \/ m > 1
    BY <1>2
  <2>2. CASE cancelled
    BY <1>0, <1>4, <2>2 DEF Closed, Alive, Ends
  <2>3. CASE ~cancelled /\ m > 1
    <3>1. buffer' # <<>> /\ ended' = "no"
      BY <1>0, <1>3, <1>4, <2>3 DEF Alive
    <3> QED  BY <1>0, <3>1 DEF Closed, Alive, Ends
  <2>4. CASE ~cancelled /\ m = 1 /\ active
    <3>1. ended' = "no"
      BY <1>0, <1>4, <2>4 DEF Alive
    <3> QED  BY <1>0, <2>4, <3>1 DEF Closed, Alive, Ends
  <2>5. CASE ~cancelled /\ m = 1 /\ ~active
    <3>1. ended' \in Ends /\ ended' # "no" /\ buffer' = <<>>
      BY <1>3, <1>4, <1>5, <2>5 DEF Ends
    <3>2. ended' = "complete" => ~error
      BY <1>4, <2>5 DEF Outcome
    <3>3. ~source.open
      BY <2>5 DEF Closed
    <3> QED  BY <1>0, <2>5, <3>1, <3>2, <3>3 DEF Closed, Alive
  <2> QED  BY <2>1, <2>2, <2>3, <2>4, <2>5
<1>12. BoundedAhead'
  BY <1>2, <1>6 DEF BoundedAhead
<1> QED  BY <1>7, <1>8, <1>9, <1>10, <1>11, <1>12

-----------------------------------------------------------------------------
(* What a step is to the stage.                                            *)

\* Whatever a generator does, the stage sees an element, an end, a process that is
\* aborted, or nothing.
LEMMA StageSteps ==
  ASSUME [SourcesNext]_allVars
  PROVE  \/ \E n \in {1, Infinity} : Request(n)
         \/ Cancel \/ OnNext \/ OnTimer \/ AfterOnNext \/ Stumbles
         \/ \E how \in Ends : OnEnd(how)
         \/ UNCHANGED vars
<1>1. ASSUME GenerateOne PROVE OnNext \/ Stumbles \/ (\E how \in Ends : OnEnd(how)) \/ UNCHANGED vars
  <2>1. "error" \in Ends /\ "complete" \in Ends
    BY DEF Ends
  <2>2. CASE Open \/ ReadFrame \/ ReadLine
    BY <2>2 DEF Open, ReadFrame, ReadLine, Sends
  <2>3. CASE SkipPacket
    BY <2>3 DEF SkipPacket
  <2>4. CASE AtEof
    BY <2>1, <2>4 DEF AtEof
  <2>5. CASE ReadError
    BY <2>1, <2>5 DEF ReadError, ReadErrorEnds
  <2>6. CASE LinesEnd
    BY <2>1, <2>6 DEF LinesEnd
  <2>7. CASE \E how \in Ends : OpenFails(how)
    BY <2>7 DEF OpenFails
  <2>8. CASE BadLine
    BY <2>8 DEF BadLine, Draining, Stumbles
  <2> QED  BY <1>1, <2>2, <2>3, <2>4, <2>5, <2>6, <2>7, <2>8 DEF GenerateOne
<1>2. ASSUME AnySource PROVE OnNext \/ \E how \in Ends : OnEnd(how)
  BY <1>2 DEF AnySource
<1>3. ASSUME InTurn(Ask) PROVE \E n \in {1, Infinity} : Request(n)
  BY <1>3 DEF InTurn, Ask
<1>4. CASE InTurn(Cancel) \/ InTurn(OnTimer) \/ InTurn(AfterOnNext)
  BY <1>4 DEF InTurn
<1>5. CASE UNCHANGED allVars
  BY <1>5 DEF allVars
<1> QED  BY <1>1, <1>2, <1>3, <1>4, <1>5 DEF SourcesNext

\* Every step keeps the invariant of the stage.
LEMMA StepKeepsStaged ==
  ASSUME Staged, [SourcesNext]_allVars
  PROVE  Staged'
<1>1. CASE UNCHANGED vars
  <2>1. Types'
    BY <1>1, Zenon DEF Staged, Types, TypeOK, vars
  <2> QED  BY <1>1, <2>1 DEF Staged, Conveyed, Timed, Needed, Closed, BoundedAhead, Alive, vars
<1> QED  BY <1>1, StageSteps, RequestKeeps, CancelKeeps, OnNextKeeps, OnTimerKeeps, AfterOnNextKeeps,
            StumblesKeeps, OnEndKeeps

\* The invariant of the stage holds, whatever the source.
THEOREM StagedInvariant == SourcesSpec => []Staged
<1>1. SourcesInit => Staged
  BY StagedInit DEF SourcesInit
<1>2. Staged /\ [SourcesNext]_allVars => Staged'
  BY StepKeepsStaged
<1> QED  BY <1>1, <1>2, PTL DEF SourcesSpec

\* on_timer never finds the demand of a sink that wants everything exhausted:
\* its CHECK_GT(_sink_needs, 0) holds.
THEOREM DemandAlwaysLasts == SourcesSpec => []DemandLasts
<1>1. SourcesInit => DemandLasts
  BY DEF SourcesInit, Init, DemandLasts
<1>2. Staged /\ DemandLasts /\ [SourcesNext]_allVars => DemandLasts'
  <2> SUFFICES ASSUME Staged, DemandLasts, [SourcesNext]_allVars PROVE DemandLasts'
    OBVIOUS
  <2>1. CASE OnTimer
    <3>1. buffer # <<>> /\ ~delivering
      BY <2>1 DEF OnTimer, Staged, Timed
    <3>2. PICK n \in Nat : n = Len(received)
      BY Sizes DEF Staged
    <3>3. PICK m \in Nat : m = Len(buffer)
      BY Sizes DEF Staged
    <3>4. n < Infinity
      <4>1. n + m = source.next - 1
        BY <3>1, <3>2, <3>3, Sizes DEF Staged, Conveyed
      <4> QED  BY <4>1, Sizes DEF Staged
    <3>5. demand = "all" => sinkNeeds # 0
      BY <3>1, <3>2, <3>4, Sizes DEF Staged, Needed
    <3>6. demand' = demand
      BY <2>1 DEF OnTimer
    <3>7. sinkNeeds # 0 => failed' = failed
      BY <2>1 DEF OnTimer
    <3> QED  BY <3>5, <3>6, <3>7 DEF DemandLasts
  <2>2. CASE Stumbles
    BY <2>2 DEF Stumbles, DemandLasts
  <2>3. ASSUME NEW n \in {1, Infinity}, Request(n) PROVE UNCHANGED <<demand, failed>>
    BY <2>3 DEF Request
  <2>4. ASSUME NEW how \in Ends, OnEnd(how) PROVE UNCHANGED <<demand, failed>>
    BY <2>4 DEF OnEnd
  <2>5. CASE Cancel \/ OnNext \/ AfterOnNext \/ UNCHANGED vars
    BY <2>5 DEF Cancel, OnNext, AfterOnNext, vars, DemandLasts
  <2>6. UNCHANGED <<demand, failed>> => DemandLasts'
    BY DEF DemandLasts
  <2> QED  BY <2>1, <2>2, <2>3, <2>4, <2>5, <2>6, StageSteps
<1> QED  BY <1>1, <1>2, StagedInvariant, PTL DEF SourcesSpec

\* However a stage completes, its source did not fail.
THEOREM EndsAsTheSource == SourcesSpec => EndsAsItsSource
<1>1. Staged /\ [SourcesNext]_allVars => [ended = "no" /\ ended' = "complete" => ~error']_vars
  <2> SUFFICES ASSUME Staged, [SourcesNext]_allVars, ended = "no", ended' = "complete"
               PROVE  ~error' \/ UNCHANGED vars
    OBVIOUS
  <2>1. ASSUME NEW how \in Ends, OnEnd(how) PROVE ~error'
    <3>1. ~error
      BY <2>1 DEF OnEnd, Staged, Closed
    <3> QED  BY <2>1, <3>1 DEF OnEnd
  <2>2. ASSUME AfterOnNext PROVE ~error'
    <3>1. ended' = "cancelled" \/ ended' = ended \/ ended' = Outcome
      BY <2>2 DEF AfterOnNext
    <3> QED  BY <2>2, <3>1 DEF AfterOnNext, Outcome
  <2>3. ASSUME NEW n \in {1, Infinity}, Request(n) PROVE FALSE
    BY <2>3 DEF Request
  <2>4. ~Cancel /\ ~OnNext /\ ~OnTimer /\ ~Stumbles
    BY DEF Cancel, OnNext, OnTimer, Stumbles
  <2> QED  BY <2>1, <2>2, <2>3, <2>4, StageSteps
<1> QED  BY <1>1, StagedInvariant, PTL DEF SourcesSpec, EndsAsItsSource

\* The stage is a stream: its sink gets what it asked for and no more, hears of one
\* end, and behind the end, or once it cancelled, of nothing.
THEOREM ImplementsStream == SourcesSpec => KeepsPromise
<1>1. SourcesInit => P!Init
  <2> SUFFICES ASSUME SourcesInit PROVE P!Init
    OBVIOUS
  <2>1. asked = 0 /\ Len(received) = 0 /\ (ended # "no" \/ cancelled) = FALSE
    BY EmptySeq DEF SourcesInit, Init
  <2> QED  BY <2>1 DEF P!Init
<1>2. Staged /\ [SourcesNext]_allVars => [P!Next]_<<asked, Len(received), ended # "no" \/ cancelled>>
  <2> SUFFICES ASSUME Staged, [SourcesNext]_allVars
               PROVE  P!Next \/ UNCHANGED <<asked, Len(received), ended # "no" \/ cancelled>>
    OBVIOUS
  <2>1. ASSUME NEW n \in {1, Infinity}, Request(n) PROVE P!Next
    <3>1. ended = "no" /\ ~cancelled /\ asked' = asked + n /\ UNCHANGED <<received, ended, cancelled>>
      BY <2>1 DEF Request, Alive
    <3>2. asked' > asked
      BY <3>1, Sizes DEF Staged
    <3> QED  BY <3>1, <3>2 DEF P!Next, P!Request
  <2>2. CASE Cancel
    <3>1. ended = "no" /\ ~cancelled /\ cancelled' /\ UNCHANGED <<asked, received>>
      BY <2>2 DEF Cancel, Alive
    <3> QED  BY <3>1 DEF P!Next, P!End
  <2>3. CASE OnNext
    BY <2>3 DEF OnNext
  <2>4. CASE OnTimer
    <3>1. CASE UNCHANGED received
      <4>1. UNCHANGED <<asked, cancelled>> /\ ended = "no" /\ (cancelled \/ ended' = ended)
        BY <2>4 DEF OnTimer, Alive
      <4> QED  BY <3>1, <4>1
    <3>2. CASE received' # received
      <4>1. /\ ~cancelled /\ ended = "no" /\ sinkNeeds # 0 /\ UNCHANGED <<asked, cancelled, ended>>
            /\ received' = Append(received, Head(buffer)) /\ buffer # <<>>
        BY <2>4, <3>2 DEF OnTimer, Alive, Staged, Timed
      <4>2. PICK n \in Nat : n = Len(received)
        BY Sizes DEF Staged
      <4>3. Head(buffer) \in 1..Items
        BY <4>1, Popped, Sizes DEF Staged, Types, TypeOK
      <4>4. Len(received') = n + 1
        BY <4>1, <4>2, <4>3, Appended DEF Staged, Types, TypeOK
      <4>5. n < asked
        BY <4>1, <4>2, Sizes DEF Staged, Needed
      <4> QED  BY <4>1, <4>2, <4>4, <4>5 DEF P!Next, P!OnNext
    <3> QED  BY <3>1, <3>2
  <2>5. ASSUME NEW how \in Ends, OnEnd(how)
        PROVE  P!Next \/ UNCHANGED <<asked, Len(received), ended # "no" \/ cancelled>>
    <3>1. /\ ended = "no" /\ UNCHANGED <<asked, received, cancelled>> /\ ~cancelled
          /\ (ended' = how \/ ended' = ended) /\ how # "no"
      BY <2>5 DEF OnEnd, Alive, Ends, Staged, Closed
    <3> QED  BY <3>1 DEF P!Next, P!End
  <2>6. CASE AfterOnNext
    <3>1. /\ ended = "no" /\ UNCHANGED <<asked, received, cancelled>>
          /\ (cancelled \/ ended' = Outcome \/ ended' = ended) /\ Outcome # "no"
      BY <2>6 DEF AfterOnNext, Alive, Outcome
    <3> QED  BY <3>1 DEF P!Next, P!End
  <2>7. CASE Stumbles \/ UNCHANGED vars
    BY <2>7 DEF Stumbles, vars
  <2> QED  BY <2>1, <2>2, <2>3, <2>4, <2>5, <2>6, <2>7, StageSteps
<1> QED  BY <1>1, <1>2, StagedInvariant, PTL DEF SourcesSpec, KeepsPromise, P!Spec, P!vars

-----------------------------------------------------------------------------
(* The sources.                                                            *)

\* A place that the file has not been read to is one that it has.
LEMMA Places ==
  ASSUME SourcesTypeOK
  PROVE  /\ place \in Nat /\ place <= Length /\ Length \in Nat /\ lastPos \in Nat /\ Items > Length + 1
         /\ Len(content) \in Nat /\ (content = <<>> <=> Len(content) = 0)
BY SourcesAssumption, EmptySeq, LenProperties DEF SourcesTypeOK

\* The sources begin with nothing read and nothing sent.
LEMMA SourcesBegin == SourcesInit => SourcesTypeOK /\ Named /\ Rising /\ ReadThrough
<1> SUFFICES ASSUME SourcesInit PROVE SourcesTypeOK /\ Named /\ Rising /\ ReadThrough
  OBVIOUS
<1>1. Len(content) = 0 /\ content = <<>> /\ source.next = 1 /\ source.open
  BY EmptySeq DEF SourcesInit, Init
<1>2. SourcesTypeOK
  <2>1. 0 \in 0..Length /\ 0 \in 0..Items
    BY DelayAssumption, SourcesAssumption
  <2>2. opened \in BOOLEAN
    BY DEF SourcesInit
  <2> QED  BY <2>1, <2>2, EmptySeq DEF SourcesInit, SourcesTypeOK
<1>3. Named
  <2>1. kind \in Frames => ~opened /\ lastPos = 0
    BY DEF SourcesInit, Frames
  <2> QED  BY <1>1, <2>1 DEF Named
<1>4. Rising /\ ReadThrough
  BY <1>1 DEF Rising, ReadThrough
<1> QED  BY <1>2, <1>3, <1>4

\* What is sent, from a place behind the last one, comes last in content.
LEMMA SendsKeeps ==
  ASSUME SourcesTypeOK, Rising, NEW e \in [id : 0..Items + 1, ts : 0..Length],
         NEW n \in Nat, n = Len(content), content' = Append(content, e), kind' = kind,
         place' \in 0..Length,
         kind \in {"file", "replay"} =>
           place <= place' /\ e.ts <= place' /\ (n > 0 => place < e.ts)
  PROVE  /\ content' \in Seq([id : 0..Items + 1, ts : 0..Length])
         /\ Len(content') = n + 1 /\ content'[n + 1] = e /\ content' # <<>>
         /\ \A k \in 1..n : content'[k] = content[k]
         /\ Rising'
<1>1. /\ content' \in Seq([id : 0..Items + 1, ts : 0..Length])
      /\ Len(content') = n + 1 /\ content'[n + 1] = e
      /\ \A k \in 1..n : content'[k] = content[k]
  BY Appended DEF SourcesTypeOK
<1>2. content' # <<>>
  BY <1>1, EmptySeq
<1>3. ASSUME kind \in {"file", "replay"}
      PROVE  /\ \A k \in 1..n + 1 : content'[k].ts <= place'
             /\ \A k \in 2..n + 1 : content'[k - 1].ts < content'[k].ts
  <2>1. /\ \A k \in 1..n : content[k].ts <= place
        /\ \A k \in 2..n : content[k - 1].ts < content[k].ts
    BY <1>3 DEF Rising
  <2>2. PICK p \in Nat : p = place
    BY Places
  <2>3. PICK q \in Nat : q = place'
    BY Places
  <2>4. p <= q /\ e.ts <= q /\ (n > 0 => p < e.ts) /\ e.ts \in Nat
    BY <1>3, <2>2, <2>3, SourcesAssumption
  <2>5. \A k \in 1..n : content[k] \in [id : 0..Items + 1, ts : 0..Length]
    BY ElementOfSeq DEF SourcesTypeOK
  <2>6. \A k \in 1..n : content[k].ts \in Nat /\ content[k].ts <= p
    BY <2>1, <2>2, <2>5, SourcesAssumption
  <2>7. ASSUME NEW k \in 1..n + 1 PROVE content'[k].ts <= q
    <3>1. k \in 1..n \/ k = n + 1
      OBVIOUS
    <3>2. CASE k \in 1..n
      BY <1>1, <2>4, <2>6, <3>2
    <3>3. CASE k = n + 1
      BY <1>1, <2>4, <3>3
    <3> QED  BY <3>1, <3>2, <3>3
  <2>8. ASSUME NEW k \in 2..n + 1 PROVE content'[k - 1].ts < content'[k].ts
    <3>1. (k \in 2..n \/ k = n + 1) /\ k - 1 \in 1..n
      OBVIOUS
    <3>2. CASE k \in 2..n
      <4>1. k \in 1..n
        BY <3>2
      <4> QED  BY <1>1, <2>1, <3>1, <3>2, <4>1
    <3>3. CASE k = n + 1
      <4>1. n > 0 /\ k - 1 = n
        BY <3>1, <3>3
      <4>2. content'[k - 1] = content[n] /\ content[n].ts \in Nat /\ content[n].ts <= p
        BY <1>1, <2>6, <3>1, <4>1
      <4>3. content'[k].ts = e.ts
        BY <1>1, <3>3
      <4> QED  BY <2>4, <4>1, <4>2, <4>3
    <3> QED  BY <3>1, <3>2, <3>3
  <2> QED  BY <2>3, <2>7, <2>8
<1> QED  BY <1>1, <1>2, <1>3 DEF Rising

\* Whatever leaves the generator's state alone keeps what was sent in order; an end
\* comes when the file was read, or is another's.
LEMMA QuietKeeps ==
  ASSUME SourcesTypeOK, Named, Rising, ReadThrough, UNCHANGED sourceVars, source'.next = source.next,
         \/ source'.open = source.open /\ (cancelled => cancelled') /\ error' = error
              /\ (ended' \in {"no", "complete"} => ended \in {"no", "complete"})
         \/ content = <<>> \/ (kind \in {"file", "replay"} /\ place = Length)
         \/ cancelled' \/ ended' = "error" \/ error'
  PROVE  SourcesTypeOK' /\ Named' /\ Rising' /\ ReadThrough'
<1>1. SourcesTypeOK'
  BY DEF SourcesTypeOK, sourceVars
<1>2. Named' /\ Rising'
  BY DEF Named, Rising, sourceVars
<1>3. ReadThrough'
  BY DEF ReadThrough, sourceVars
<1> QED  BY <1>1, <1>2, <1>3

\* What OnNext leaves of the source, and of who ended whom.
LEMMA OnNextMoves ==
  ASSUME Staged, OnNext
  PROVE  /\ source'.next = source.next + 1 /\ source'.open = source.open /\ source.open
         /\ source.next <= Items
BY DEF OnNext, Staged, Types

\* What every way to end leaves of the source.
LEMMA OnEndMoves ==
  ASSUME Staged, NEW how \in Ends, OnEnd(how)
  PROVE  /\ source'.next = source.next
         /\ how = "error" => ended' = "error" \/ error'
BY DEF OnEnd, Staged, Types

\* The first call: metadata is sent, and nothing was sent before.
LEMMA OpenKeeps ==
  ASSUME Staged, SourcesTypeOK, Named, Rising, ReadThrough, Open
  PROVE  SourcesTypeOK' /\ Named' /\ Rising' /\ ReadThrough'
<1>1. /\ kind \in Frames /\ ~opened /\ opened' = TRUE /\ content' = Append(content, Metadata)
      /\ UNCHANGED <<kind, place, lastPos, newline>> /\ OnNext
  BY DEF Open, Sends
<1>2. Len(content) = 0 /\ lastPos = 0 /\ source.next = 1
  BY <1>1 DEF Named
<1>3. Metadata \in [id : 0..Items + 1, ts : 0..Length] /\ Metadata.ts = 0
  <2>1. Items + 1 \in 0..Items + 1 /\ 0 \in 0..Length
    BY DelayAssumption, SourcesAssumption
  <2> QED  BY <2>1 DEF Metadata
<1>4. place \in 0..Length /\ place <= place /\ 0 <= place
  BY Places DEF SourcesTypeOK
<1>5. /\ content' \in Seq([id : 0..Items + 1, ts : 0..Length])
      /\ Len(content') = 0 + 1 /\ content'[0 + 1] = Metadata /\ content' # <<>> /\ Rising'
  BY <1>1, <1>2, <1>3, <1>4, SendsKeeps
<1>6. SourcesTypeOK'
  BY <1>1, <1>5 DEF SourcesTypeOK
<1>7. Named'
  <2>1. source'.next = 2
    BY <1>1, <1>2, OnNextMoves
  <2>2. \A k \in 1..Len(content') : k = 1
    BY <1>5
  <2>3. kind # "replay" /\ kind # "any"
    BY <1>1 DEF Frames
  <2> QED  BY <1>1, <1>2, <1>5, <2>1, <2>2, <2>3 DEF Named
<1>8. ReadThrough'
  BY <1>1, OnNextMoves DEF ReadThrough
<1> QED  BY <1>5, <1>6, <1>7, <1>8

\* A frame: the next id, from a place that was not read before.
LEMMA ReadFrameKeeps ==
  ASSUME Staged, SourcesTypeOK, Named, Rising, ReadThrough, ReadFrame
  PROVE  SourcesTypeOK' /\ Named' /\ Rising' /\ ReadThrough'
<1> DEFINE e == [id |-> FrameId, ts |-> place']
<1>1. /\ kind \in Frames /\ opened /\ ~AtEnd /\ lastPos' = lastPos + 1 /\ place' = Further
      /\ content' = Append(content, e) /\ UNCHANGED <<kind, opened, newline>> /\ OnNext
  BY DEF ReadFrame, Sends
<1>2. PICK l \in Nat : l = lastPos
  BY Places
<1>3. Len(content) = l + 1 /\ source.next = l + 2 /\ l + 2 <= Items
  BY <1>1, <1>2, OnNextMoves DEF Named
<1>4. place' \in 0..Length /\ (kind # "camera" => place' = place + 1)
  BY <1>1, Places DEF AtEnd, Further
<1>5. FrameId = (IF kind = "camera" THEN l ELSE l + 1) /\ FrameId \in 0..Items + 1
  <2>1. l \in 0..Items + 1 /\ l + 1 \in 0..Items + 1
    BY <1>3, DelayAssumption
  <2>2. FrameId = (IF kind = "camera" THEN l ELSE l + 1)
    BY <1>2 DEF FrameId
  <2> QED  BY <2>1, <2>2
<1>6. e \in [id : 0..Items + 1, ts : 0..Length]
  BY <1>4, <1>5
<1>7. e.id = FrameId /\ e.ts = place'
  OBVIOUS
<1>8. kind \in {"file", "replay"} => place <= place' /\ e.ts <= place' /\ (l + 1 > 0 => place < e.ts)
  BY <1>4, <1>7, Places
<1> HIDE DEF e
<1>9. l + 1 \in Nat
  OBVIOUS
<1>10. /\ content' \in Seq([id : 0..Items + 1, ts : 0..Length])
       /\ Len(content') = (l + 1) + 1 /\ content'[(l + 1) + 1] = e /\ content' # <<>> /\ Rising'
       /\ \A k \in 1..l + 1 : content'[k] = content[k]
  BY <1>1, <1>3, <1>4, <1>6, <1>8, <1>9, SendsKeeps
<1>11. SourcesTypeOK'
  <2>1. lastPos' \in 0..Items
    <3>1. l + 1 \in 0..Items
      BY <1>3, DelayAssumption
    <3> QED  BY <1>1, <1>2, <3>1
  <2> QED  BY <1>1, <1>4, <1>10, <2>1 DEF SourcesTypeOK
<1>12. Named'
  <2>1. source'.next = l + 3 /\ lastPos' = l + 1 /\ opened'
    BY <1>1, <1>2, <1>3, OnNextMoves
  <2>2. ASSUME NEW k \in 1..(l + 1) + 1
        PROVE  IF k = 1 THEN content'[k] = Metadata
               ELSE content'[k].id = IF kind = "camera" THEN k - 2 ELSE k - 1
    <3>1. k \in 1..l + 1 \/ (k = l + 2 /\ k # 1)
      OBVIOUS
    <3>2. CASE k \in 1..l + 1
      BY <1>1, <1>3, <1>10, <3>2 DEF Named
    <3>3. CASE k = l + 2 /\ k # 1
      <4>1. content'[k].id = FrameId /\ k - 2 = l /\ k - 1 = l + 1
        BY <1>7, <1>10, <3>3
      <4> QED  BY <1>5, <3>3, <4>1
    <3> QED  BY <3>1, <3>2, <3>3
  <2>3. kind # "replay" /\ kind # "any"
    BY <1>1 DEF Frames
  <2>4. l + 3 = (l + 1) + 2
    OBVIOUS
  <2> QED  BY <1>1, <1>10, <2>1, <2>2, <2>3, <2>4 DEF Named
<1>13. ReadThrough'
  BY <1>1, OnNextMoves DEF ReadThrough
<1> QED  BY <1>10, <1>11, <1>12, <1>13

\* A line of a replay file, from the next place.
LEMMA ReadLineKeeps ==
  ASSUME Staged, SourcesTypeOK, Named, Rising, ReadThrough, ReadLine
  PROVE  SourcesTypeOK' /\ Named' /\ Rising' /\ ReadThrough'
<1> DEFINE e == [id |-> 0, ts |-> place']
<1>1. /\ kind = "replay" /\ place < Length /\ place' = place + 1
      /\ opened' = (place + 1 < Length \/ newline)
      /\ content' = Append(content, e) /\ UNCHANGED <<kind, lastPos, newline>> /\ OnNext
  BY DEF ReadLine, Sends
<1>2. PICK n \in Nat : n = Len(content)
  BY Places
<1>3. place' \in 0..Length
  BY <1>1, Places
<1>4. e \in [id : 0..Items + 1, ts : 0..Length] /\ e.ts = place'
  <2>1. 0 \in 0..Items + 1
    BY DelayAssumption
  <2> QED  BY <1>3, <2>1
<1>5. kind \in {"file", "replay"} => place <= place' /\ e.ts <= place' /\ (n > 0 => place < e.ts)
  BY <1>1, <1>4, Places
<1> HIDE DEF e
<1>6. /\ content' \in Seq([id : 0..Items + 1, ts : 0..Length])
      /\ Len(content') = n + 1 /\ content' # <<>> /\ Rising'
  BY <1>1, <1>2, <1>3, <1>4, <1>5, SendsKeeps
<1>7. SourcesTypeOK'
  <2>1. opened' \in BOOLEAN
    BY <1>1
  <2> QED  BY <1>1, <1>3, <1>6, <2>1 DEF SourcesTypeOK
<1>8. Named'
  <2>1. n = source.next - 1
    BY <1>1, <1>2 DEF Named
  <2>2. n + 1 = source'.next - 1
    <3>1. PICK x \in Nat : x = source.next
      BY Sizes DEF Staged
    <3>2. source'.next = x + 1
      BY <1>1, <3>1, OnNextMoves
    <3>3. n + 1 = x + 1 - 1
      BY <2>1, <3>1
    <3> QED  BY <3>2, <3>3
  <2> QED  BY <1>1, <1>6, <2>2 DEF Named, Frames
<1>9. ReadThrough'
  BY <1>1, OnNextMoves DEF ReadThrough
<1> QED  BY <1>6, <1>7, <1>8, <1>9

\* A packet of another stream, and a loop that begins again: nothing is sent.
LEMMA PlaceMoves ==
  ASSUME Staged, SourcesTypeOK, Named, Rising, ReadThrough,
         SkipPacket \/ (AtEof /\ ~FileEnds)
  PROVE  SourcesTypeOK' /\ Named' /\ Rising' /\ ReadThrough'
<1>1. /\ UNCHANGED vars /\ UNCHANGED <<kind, opened, lastPos, newline, content>> /\ source.open
      /\ (kind = "loop" \/ place' = place + 1) /\ place' \in 0..Length
  <2>1. CASE SkipPacket
    <3>1. place # Length /\ place' = place + 1
      BY <2>1 DEF SkipPacket, AtEnd
    <3> QED  BY <2>1, <3>1, Places DEF SkipPacket, Skipped, Draining
  <2>2. CASE AtEof /\ ~FileEnds
    BY <2>2, Places DEF AtEof, FileEnds, Rewound, Draining
  <2> QED  BY <2>1, <2>2
<1>2. SourcesTypeOK'
  BY <1>1 DEF SourcesTypeOK
<1>3. Named'
  BY <1>1 DEF Named, vars
<1>4. Rising'
  <2>1. CASE kind = "loop"
    BY <1>1, <2>1 DEF Rising
  <2>2. CASE place' = place + 1
    <3>1. \A k \in 1..Len(content) : content[k].ts \in 0..Length
      <4>1. \A k \in 1..Len(content) : content[k] \in [id : 0..Items + 1, ts : 0..Length]
        BY ElementOfSeq DEF SourcesTypeOK
      <4> QED  BY <4>1
    <3>2. \A t \in 0..Length : t <= place => t <= place'
      BY <2>2, Places
    <3> QED  BY <1>1, <3>1, <3>2 DEF Rising
  <2> QED  BY <1>1, <2>1, <2>2
<1>5. ReadThrough'
  BY <1>1 DEF ReadThrough, vars
<1> QED  BY <1>2, <1>3, <1>4, <1>5

\* Every step keeps the invariant of the sources.
LEMMA StepKeepsSources ==
  ASSUME Staged, SourcesTypeOK, Named, Rising, ReadThrough, [SourcesNext]_allVars
  PROVE  SourcesTypeOK' /\ Named' /\ Rising' /\ ReadThrough'
<1> DEFINE Goal == SourcesTypeOK' /\ Named' /\ Rising' /\ ReadThrough'
<1> SUFFICES Goal
  OBVIOUS
<1> HIDE DEF Goal
<1>1. ASSUME UNCHANGED sourceVars, source'.next = source.next,
             \/ source'.open = source.open /\ (cancelled => cancelled') /\ error' = error
                  /\ (ended' \in {"no", "complete"} => ended \in {"no", "complete"})
             \/ content = <<>> \/ (kind \in {"file", "replay"} /\ place = Length)
             \/ cancelled' \/ ended' = "error" \/ error'
      PROVE  Goal
  BY <1>1, QuietKeeps DEF Goal
<1>2. CASE Open \/ ReadFrame \/ ReadLine \/ SkipPacket \/ (AtEof /\ ~FileEnds)
  BY <1>2, OpenKeeps, ReadFrameKeeps, ReadLineKeeps, PlaceMoves DEF Goal
<1>3. CASE AtEof /\ FileEnds
  <2>1. "complete" \in Ends /\ OnEnd("complete") /\ UNCHANGED sourceVars
    BY <1>3 DEF AtEof, Ends, sourceVars
  <2>2. kind = "file" /\ place = Length
    BY <1>3 DEF AtEof, AtEnd, FileEnds, Frames
  <2> QED  BY <1>1, <2>1, <2>2, OnEndMoves
<1>4. CASE ReadError
  <2>1. "error" \in Ends /\ OnEnd("error") /\ UNCHANGED sourceVars
    BY <1>4 DEF ReadError, ReadErrorEnds, Ends
  <2> QED  BY <1>1, <2>1, OnEndMoves
<1>5. CASE LinesEnd
  <2>1. "complete" \in Ends /\ "error" \in Ends
    BY DEF Ends
  <2>2. CASE opened
    <3>1. OnEnd("complete") /\ UNCHANGED sourceVars /\ kind = "replay" /\ place = Length
      BY <1>5, <2>2 DEF LinesEnd
    <3> QED  BY <1>1, <2>1, <3>1, OnEndMoves
  <2>3. CASE ~opened
    <3>1. OnEnd("error") /\ UNCHANGED sourceVars
      BY <1>5, <2>3 DEF LinesEnd
    <3> QED  BY <1>1, <2>1, <3>1, OnEndMoves
  <2> QED  BY <2>2, <2>3
<1>6. ASSUME NEW how \in Ends, OpenFails(how) PROVE Goal
  <2>1. OnEnd(how) /\ UNCHANGED sourceVars /\ kind \in Frames /\ ~opened
    BY <1>6 DEF OpenFails
  <2>2. content = <<>>
    BY <2>1, Places DEF Named
  <2> QED  BY <1>1, <2>1, <2>2, OnEndMoves
<1>7. CASE BadLine
  <2>1. UNCHANGED <<source, cancelled, error, ended>> /\ UNCHANGED sourceVars
    BY <1>7 DEF BadLine
  <2> QED  BY <1>1, <2>1
<1>8. CASE AnySource
  <2>1. UNCHANGED sourceVars /\ kind = "any" /\ content = <<>>
    BY <1>8 DEF AnySource, Named
  <2>2. ASSUME NEW how \in Ends, OnEnd(how) PROVE Goal
    BY <1>1, <2>1, <2>2, OnEndMoves
  <2>3. ASSUME OnNext PROVE Goal
    <3>1. SourcesTypeOK' /\ Rising' /\ ReadThrough'
      BY <2>1 DEF SourcesTypeOK, Rising, ReadThrough, sourceVars
    <3>2. Named'
      BY <2>1 DEF Named, Frames, sourceVars
    <3> QED  BY <3>1, <3>2 DEF Goal
  <2> QED  BY <1>8, <2>2, <2>3 DEF AnySource
<1>9. CASE InTurn(Ask)
  <2>1. PICK n \in {1, Infinity} : Request(n)
    BY <1>9 DEF InTurn, Ask
  <2>2. UNCHANGED <<source, cancelled, error, ended>> /\ UNCHANGED sourceVars
    BY <1>9, <2>1 DEF Request, InTurn
  <2> QED  BY <1>1, <2>2
<1>10. CASE InTurn(Cancel)
  <2>1. cancelled' /\ UNCHANGED sourceVars /\ source'.next = source.next
    BY <1>10 DEF InTurn, Cancel, Staged, Types
  <2> QED  BY <1>1, <2>1
<1>11. CASE InTurn(OnTimer)
  <2>1. UNCHANGED <<source, cancelled, error>> /\ UNCHANGED sourceVars /\ ended \in {"no", "complete"}
    BY <1>11 DEF InTurn, OnTimer, Alive
  <2> QED  BY <1>1, <2>1
<1>12. CASE InTurn(AfterOnNext)
  <2>1. UNCHANGED <<source, cancelled, error>> /\ UNCHANGED sourceVars /\ ended \in {"no", "complete"}
    BY <1>12 DEF InTurn, AfterOnNext, Alive
  <2> QED  BY <1>1, <2>1
<1>13. CASE UNCHANGED allVars
  <2>1. UNCHANGED <<source, cancelled, error, ended>> /\ UNCHANGED sourceVars
    BY <1>13 DEF allVars, vars
  <2> QED  BY <1>1, <2>1
<1> QED  BY <1>2, <1>3, <1>4, <1>5, <1>6, <1>7, <1>8, <1>9, <1>10, <1>11, <1>12, <1>13
         DEF SourcesNext, GenerateOne

\* The inductive invariant holds.
THEOREM InductiveInvariant == SourcesSpec => []Inductive
<1>1. SourcesInit => Inductive
  BY StagedInit, SourcesBegin DEF SourcesInit, Inductive
<1>2. Inductive /\ [SourcesNext]_allVars => Inductive'
  BY StepKeepsStaged, StepKeepsSources DEF Inductive
<1> QED  BY <1>1, <1>2, PTL DEF SourcesSpec

\* The stage delays and does nothing else, whatever the source: it stays within the
\* watermark, loses, repeats and reorders nothing, and the end comes last.
LEMMA DelaySafe == Staged => Safety
<1> SUFFICES ASSUME Staged PROVE Safety
  OBVIOUS
<1>1. PICK n \in Nat : n = Len(received)
  BY Sizes DEF Staged
<1>2. PICK m \in Nat : m = Len(buffer)
  BY Sizes DEF Staged
<1>3. PICK x \in Nat : x = source.next
  BY Sizes DEF Staged
<1>4. received \in Seq(1..Items) /\ buffer \in Seq(1..Items)
  BY DEF Staged, Types, TypeOK
<1>5. (\A k \in 1..n : received[k] = k) /\ \A k \in 1..m : buffer[k] = x - 1 - m + k
  BY <1>1, <1>2, <1>3 DEF Staged, Conveyed
<1>6. Complete
  <2>1. ASSUME NEW rest \in Seq(1..Items), NEW r \in Nat, r = Len(rest), n + r = x - 1,
               \A k \in 1..r : rest[k] = n + k
        PROVE  received \o rest = [k \in 1..x - 1 |-> k]
    <3>1. /\ received \o rest \in Seq(1..Items) /\ Len(received \o rest) = n + r
          /\ \A k \in 1..n + r : (received \o rest)[k] = IF k <= n THEN received[k] ELSE rest[k - n]
      BY <1>1, <1>4, <2>1, ConcatProperties
    <3>2. ASSUME NEW k \in 1..n + r PROVE (received \o rest)[k] = k
      <4>1. (k \in 1..n /\ k <= n) \/ (k - n \in 1..r /\ ~(k <= n) /\ n + (k - n) = k)
        OBVIOUS
      <4> QED  BY <1>5, <2>1, <3>1, <4>1
    <3>3. received \o rest \in [1..n + r -> 1..Items]
      BY <3>1, LenProperties
    <3> QED  BY <2>1, <3>2, <3>3
  <2>2. CASE delivering
    <3>1. buffer # <<>>
      BY <2>2 DEF Staged, Timed
    <3>2. /\ m > 0 /\ Tail(buffer) \in Seq(1..Items) /\ Len(Tail(buffer)) = m - 1
          /\ \A k \in 1..m - 1 : Tail(buffer)[k] = buffer[k + 1]
      BY <1>2, <1>4, <3>1, Popped
    <3>3. n + m = x - 1 + 1
      BY <1>1, <1>2, <1>3, <2>2 DEF Staged, Conveyed
    <3>4. m - 1 \in Nat /\ n + (m - 1) = x - 1
      BY <3>2, <3>3
    <3>5. ASSUME NEW k \in 1..m - 1 PROVE Tail(buffer)[k] = n + k
      <4>1. k + 1 \in 1..m /\ x - 1 - m + (k + 1) = n + k
        BY <3>3
      <4> QED  BY <1>5, <3>2, <4>1
    <3>6. received \o Tail(buffer) = [k \in 1..x - 1 |-> k]
      BY <2>1, <3>2, <3>4, <3>5
    <3> QED  BY <1>3, <2>2, <3>6 DEF Complete
  <2>3. CASE ~delivering
    <3>1. n + m = x - 1 + 0
      BY <1>1, <1>2, <1>3, <2>3 DEF Staged, Conveyed
    <3>2. n + m = x - 1
      BY <3>1
    <3>3. ASSUME NEW k \in 1..m PROVE buffer[k] = n + k
      <4>1. x - 1 - m + k = n + k
        BY <3>2
      <4> QED  BY <1>5, <4>1
    <3>4. received \o buffer = [k \in 1..x - 1 |-> k]
      BY <1>2, <1>4, <2>1, <3>2, <3>3
    <3> QED  BY <1>3, <2>3, <3>4 DEF Complete
  <2> QED  BY <2>2, <2>3
<1>7. EndIsLast
  <2> SUFFICES ASSUME ended \in Ends PROVE received = [k \in 1..x - 1 |-> k]
    BY <1>3 DEF EndIsLast
  <2>1. m = 0 /\ ~delivering
    BY <1>2, Sizes DEF Staged, Closed
  <2>2. n + 0 = x - 1 + 0
    BY <1>1, <1>2, <1>3, <2>1 DEF Staged, Conveyed
  <2>3. n = x - 1
    BY <2>2
  <2>4. received \in [1..n -> 1..Items]
    BY <1>1, <1>4, LenProperties
  <2> QED  BY <1>5, <2>3, <2>4
<1> QED  BY <1>6, <1>7 DEF Safety, Staged, Types

\* Metadata comes first and once, ids go on, a file is played to its end, and what
\* paces the source delays and does nothing else.
THEOREM Safe == SourcesSpec => []SourcesSafety
<1>1. Inductive => MetadataFirst /\ IdsGoOn
  <2> SUFFICES ASSUME Inductive, kind \in Frames PROVE MetadataFirst /\ IdsGoOn
    BY DEF MetadataFirst, IdsGoOn
  <2>1. PICK n \in Nat : n = Len(content)
    BY Places DEF Inductive
  <2>2. \A k \in 1..n : IF k = 1 THEN content[k] = Metadata
                        ELSE content[k].id = IF kind = "camera" THEN k - 2 ELSE k - 1
    BY <2>1 DEF Inductive, Named
  <2>3. n <= Items
    <3>1. PICK l \in Nat : l = lastPos
      BY Places DEF Inductive
    <3>2. n = 0 \/ (n = l + 1 /\ source.next = l + 2)
      BY <2>1, <3>1 DEF Inductive, Named
    <3> QED  BY <3>1, <3>2, Sizes DEF Inductive, Staged
  <2>4. Metadata.id = Items + 1 /\ Items \in Nat
    BY DelayAssumption DEF Metadata
  <2>5. ASSUME NEW k \in 1..n, k # 1 PROVE content[k] # Metadata
    <3>1. k - 2 # Items + 1 /\ k - 1 # Items + 1
      BY <2>3, <2>4
    <3> QED  BY <2>2, <2>4, <2>5, <3>1
  <2>6. MetadataFirst
    BY <2>1, <2>2, <2>5 DEF MetadataFirst
  <2>7. \A k \in 2..n : k \in 1..n /\ k # 1
    OBVIOUS
  <2>8. IdsGoOn
    BY <2>1, <2>2, <2>7 DEF IdsGoOn
  <2> QED  BY <2>6, <2>8
<1>2. Inductive => PlayedToItsEnd
  <2> SUFFICES ASSUME Inductive, ended = "complete", content # <<>>, kind # "any"
               PROVE  /\ kind \in {"file", "replay"} /\ place = Length /\ Len(received) = Len(content)
                      /\ \A k \in 2..Len(content) : content[k - 1].ts < content[k].ts
    BY DEF PlayedToItsEnd
  <2>1. ~source.open /\ ~cancelled /\ ~error /\ buffer = <<>> /\ ~delivering
    BY DEF Inductive, Staged, Closed, Ends
  <2>2. kind \in {"file", "replay"} /\ place = Length
    BY <2>1 DEF Inductive, ReadThrough
  <2>3. \A k \in 2..Len(content) : content[k - 1].ts < content[k].ts
    BY <2>2 DEF Inductive, Rising
  <2>4. PICK n \in Nat : n = Len(content)
    BY Places DEF Inductive
  <2>5. n # 0
    BY <2>4, Places DEF Inductive
  <2>6. n = source.next - 1
    <3>1. CASE kind = "replay"
      BY <2>4, <3>1 DEF Inductive, Named
    <3>2. CASE kind = "file"
      <4>1. PICK l \in Nat : l = lastPos
        BY Places DEF Inductive
      <4>2. n = l + 1 /\ source.next = l + 2
        BY <2>4, <2>5, <3>2, <4>1 DEF Inductive, Named, Frames
      <4> QED  BY <4>2
    <3> QED  BY <2>2, <3>1, <3>2
  <2>7. PICK r \in Nat : r = Len(received)
    BY Sizes DEF Inductive, Staged
  <2>8. r + 0 = source.next - 1 + 0
    <3>1. Len(buffer) = 0
      BY <2>1, EmptySeq
    <3> QED  BY <2>1, <2>7, <3>1 DEF Inductive, Staged, Conveyed
  <2>9. PICK x \in Nat : x = source.next
    BY Sizes DEF Inductive, Staged
  <2>10. r = n
    BY <2>6, <2>8, <2>9
  <2> QED  BY <2>2, <2>3, <2>4, <2>7, <2>10
<1>3. Inductive => SourcesSafety
  BY <1>1, <1>2, DelaySafe DEF Inductive, SourcesSafety
<1> QED  BY <1>3, InductiveInvariant, PTL

=============================================================================
