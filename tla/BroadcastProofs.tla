--------------------------- MODULE BroadcastProofs ---------------------------
(***************************************************************************)
(* Theorems about both ends of a stream and what is between: Publisher for *)
(* every stream of packets, both kinds of input and any combination of     *)
(* faults, Viewer for every period, number of streams and of lost          *)
(* connections, FrameChunks for all sizes and any number of lost chunks.   *)
(***************************************************************************)
EXTENDS Broadcast, FrameChunks, FiniteSetTheorems, SequenceTheorems, TLAPS

-----------------------------------------------------------------------------
(* The invariant of the publisher.                                         *)

Elems(s) == {s[k] : k \in 1..Len(s)}
AckIds == {s[1] : s \in Elems(acks)}

\* s goes up, as relation R sees it
Sorted(s, R) == \A j, k \in 1..Len(s) : j < k => <<s[j], s[k]>> \in R

\* Stop comes last of all
Precedes(i, j) == i # Stop /\ (j = Stop \/ Before(i, j))
Places == Ids \cup {Stop}
Up == {r \in Places \X Places : Precedes(r[1], r[2])}
Apart == {r \in (Ids \X BOOLEAN) \X (Ids \X BOOLEAN) : r[1][1] # r[2][1]}

\* what the thread has posted, in all
Sent == {i \in Ids : Before(i, <<packet, chunk>>)}

\* Where the thread is in the stream: one packet is asked for at a time.
Position ==
  /\ packet <= Len(Packets) => chunk \in 1..Parts(packet)
  /\ packet > Len(Packets) => chunk = 1
  /\ worker = "sending" => packet <= Len(Packets)
  /\ worker = "waiting" \/ Deleted => packet > Len(Packets)
  /\ demand = IF worker = "sending" THEN 0 ELSE 1

\* The count is the number of chunks that were posted and not acknowledged.
Counting == IsFiniteSet(Sent \ acked) /\ inFlight = Cardinality(Sent \ acked)

\* What is further on was posted earlier, and what was acknowledged is not under way.
Order ==
  /\ Sorted(server, Up) /\ Sorted(net, Up) /\ Sorted(tasks, Up) /\ Sorted(acks, Apart)
  /\ Elems(server) \cup Elems(net) \cup AckIds \cup acked \subseteq Sent
  /\ Elems(tasks) \subseteq Sent \cup {Stop}
  /\ \A i \in Elems(server) \cup AckIds \cup acked, j \in Elems(net) \cup Elems(tasks) : Precedes(i, j)
  /\ \A i \in Elems(net), j \in Elems(tasks) : Precedes(i, j)
  /\ AckIds \cap acked = {}

\* The stop is posted last, once the sink has deleted itself.
Stopping ==
  /\ worker \notin {"stopping", "done"} => Stop \notin Elems(tasks) /\ client = "running"
  /\ worker \in {"stopping", "done"} /\ client = "running" => Stop \in Elems(tasks)
  /\ client = "stopped" => tasks = <<>> /\ worker \in {"stopping", "done"}

\* The sink deletes itself when the count is zero or the wait was given up, and
\* nothing is acknowledged before main runs the loop.
Waited ==
  /\ Deleted /\ ~gaveUp => inFlight = 0
  /\ main = "subscribing" => acked = {}
  /\ fate \in {"null", "freed"} => gaveUp

\* The inductive invariant.  That the wait is for all chunks rests on what the count
\* counts, and that no call reaches the deleted sink on where those chunks can be.
Inductive == TypeOK /\ Position /\ Counting /\ Order /\ Stopping /\ Waited

-----------------------------------------------------------------------------
(* Lemmas about queues.                                                    *)

\* What joins a queue is behind all that is in it (post, write).
LEMMA Joins ==
  ASSUME NEW S, NEW s \in Seq(S), NEW x \in S
  PROVE  /\ Append(s, x) \in Seq(S) /\ Elems(Append(s, x)) = Elems(s) \cup {x}
         /\ \A R : Sorted(s, R) /\ (\A y \in Elems(s) : <<y, x>> \in R) => Sorted(Append(s, x), R)
<1>1. PICK n \in Nat : n = Len(s)
  BY LenProperties
<1>2. PICK t \in Seq(S) : t = Append(s, x)
  BY AppendProperties
<1>3. Len(t) = n + 1 /\ t[n + 1] = x /\ \A k \in 1..n : t[k] = s[k]
  BY <1>1, <1>2, AppendProperties
<1>4. \A k \in 1..n + 1 : k \in 1..n \/ k = n + 1
  OBVIOUS
<1>5. n + 1 \in 1..n + 1 /\ \A k \in 1..n : k \in 1..n + 1
  OBVIOUS
<1>6. Elems(t) = Elems(s) \cup {x}
  BY <1>1, <1>3, <1>4, <1>5 DEF Elems
<1>7. ASSUME NEW R, Sorted(s, R), \A y \in Elems(s) : <<y, x>> \in R,
             NEW j \in 1..n + 1, NEW k \in 1..n + 1, j < k
      PROVE  <<t[j], t[k]>> \in R
  <2>1. j \in 1..n
    BY <1>7
  <2>2. CASE k \in 1..n
    BY <1>1, <1>3, <1>7, <2>1, <2>2 DEF Sorted
  <2>3. CASE k = n + 1
    <3>1. s[j] \in Elems(s)
      BY <1>1, <2>1 DEF Elems
    <3> QED  BY <1>3, <1>7, <2>1, <2>3, <3>1
  <2> QED  BY <1>4, <2>2, <2>3
<1> QED  BY <1>2, <1>3, <1>6, <1>7 DEF Sorted

\* What leaves a queue was ahead of all that stays (the loop runs its tasks in order).
LEMMA Leaves ==
  ASSUME NEW S, NEW s \in Seq(S), s # <<>>
  PROVE  /\ Tail(s) \in Seq(S) /\ Head(s) \in S /\ Head(s) = s[1]
         /\ Elems(s) = Elems(Tail(s)) \cup {Head(s)}
         /\ \A R : Sorted(s, R) => /\ Sorted(Tail(s), R)
                                   /\ \A y \in Elems(Tail(s)) : <<Head(s), y>> \in R
<1>1. PICK n \in Nat : n = Len(s) /\ n > 0
  BY EmptySeq
<1>2. PICK t \in Seq(S) : t = Tail(s)
  BY HeadTailProperties
<1>3. Head(s) = s[1] /\ Head(s) \in S
  BY HeadTailProperties
<1>4. Len(t) = n - 1 /\ \A k \in 1..n - 1 : t[k] = s[k + 1]
  BY <1>1, <1>2, HeadTailProperties
<1>5. \A k \in 1..n - 1 : k + 1 \in 1..n /\ 1 < k + 1
  BY <1>1
<1>6. 1 \in 1..n /\ \A k \in 1..n : k = 1 \/ (k - 1 \in 1..n - 1 /\ (k - 1) + 1 = k)
  BY <1>1
<1>7. Elems(s) = Elems(t) \cup {Head(s)}
  <2>1. ASSUME NEW x \in Elems(s) PROVE x \in Elems(t) \cup {Head(s)}
    <3>1. PICK k \in 1..n : x = s[k]
      BY <1>1 DEF Elems
    <3>2. CASE k = 1
      BY <1>3, <3>1, <3>2
    <3>3. CASE k - 1 \in 1..n - 1 /\ (k - 1) + 1 = k
      <4>1. x = t[k - 1]
        BY <1>4, <3>1, <3>3
      <4> QED  BY <1>4, <3>3, <4>1 DEF Elems
    <3> QED  BY <1>6, <3>2, <3>3
  <2>2. ASSUME NEW x \in Elems(t) PROVE x \in Elems(s)
    <3>1. PICK k \in 1..n - 1 : x = t[k]
      BY <1>4 DEF Elems
    <3>2. x = s[k + 1] /\ k + 1 \in 1..n
      BY <1>4, <1>5, <3>1
    <3> QED  BY <1>1, <3>2 DEF Elems
  <2>3. Head(s) \in Elems(s)
    BY <1>1, <1>3, <1>6 DEF Elems
  <2> QED  BY <2>1, <2>2, <2>3
<1>8. ASSUME NEW R, Sorted(s, R)
      PROVE  Sorted(t, R) /\ \A y \in Elems(t) : <<Head(s), y>> \in R
  <2>1. ASSUME NEW j \in 1..n - 1, NEW k \in 1..n - 1, j < k PROVE <<t[j], t[k]>> \in R
    <3>1. j + 1 \in 1..n /\ k + 1 \in 1..n /\ j + 1 < k + 1
      BY <1>5, <2>1
    <3>2. <<s[j + 1], s[k + 1]>> \in R
      BY <1>1, <1>8, <3>1 DEF Sorted
    <3> QED  BY <1>4, <3>2
  <2>2. ASSUME NEW k \in 1..n - 1 PROVE <<Head(s), t[k]>> \in R
    <3>1. <<s[1], s[k + 1]>> \in R
      BY <1>1, <1>5, <1>6, <1>8 DEF Sorted
    <3> QED  BY <1>3, <1>4, <3>1
  <2> QED  BY <1>4, <2>1, <2>2 DEF Sorted, Elems
<1> QED  BY <1>2, <1>3, <1>7, <1>8

\* An empty queue (a connection that was closed) holds nothing.
LEMMA Emptied == Elems(<<>>) = {} /\ \A R : Sorted(<<>>, R)
BY EmptySeq DEF Elems, Sorted

-----------------------------------------------------------------------------
(* Lemmas about chunks.                                                    *)

\* The chunks of a frame are numbered from 1.
LEMMA IdParts ==
  /\ Stop \notin Ids
  /\ \A i \in Ids : /\ i[1] \in 1..Len(Packets) /\ i[2] \in 1..Parts(i[1])
                    /\ i[1] \in Nat /\ i[2] \in Nat /\ i = <<i[1], i[2]>>
  /\ \A p \in 1..Len(Packets) : \A c \in 1..Parts(p) : <<p, c>> \in Ids
  /\ \A p \in 1..Len(Packets) : Parts(p) \in Nat \ {0}
<1>1. Len(Packets) \in Nat /\ \A p \in 1..Len(Packets) : Packets[p] \in Nat
  BY PublisherAssumption, LenProperties, ElementOfSeq
<1>2. \A p \in 1..Len(Packets) : Parts(p) \in Nat \ {0}
  BY <1>1 DEF Parts
<1>3. ASSUME NEW i \in Ids
      PROVE  /\ i[1] \in 1..Len(Packets) /\ i[2] \in 1..Parts(i[1])
             /\ i[1] \in Nat /\ i[2] \in Nat /\ i = <<i[1], i[2]>>
  <2>1. PICK p \in 1..Len(Packets) : i \in {p} \X (1..Parts(p))
    BY DEF Ids
  <2>2. PICK c \in 1..Parts(p) : i = <<p, c>>
    BY <2>1
  <2> QED  BY <1>1, <1>2, <2>2
<1>4. Stop \notin Ids
  <2>1. Stop[1] = 0
    BY DEF Stop
  <2> QED  BY <1>1, <1>3, <2>1
<1>5. \A p \in 1..Len(Packets) : \A c \in 1..Parts(p) : <<p, c>> \in Ids
  BY DEF Ids
<1> QED  BY <1>2, <1>3, <1>4, <1>5

\* A chunk does not precede itself.
LEMMA Irreflexive == \A i \in Places : ~Precedes(i, i)
<1>1. ASSUME NEW i \in Ids PROVE ~Before(i, i) /\ i # Stop
  BY IdParts DEF Before
<1> QED  BY <1>1 DEF Places, Precedes

\* A chunk that is posted comes after all that were posted before it (operator()).
LEMMA SentGrows ==
  ASSUME TypeOK, Position, SendChunk
  PROVE  /\ <<packet, chunk>> \in Ids \ Sent /\ Sent' = Sent \cup {<<packet, chunk>>}
         /\ \A i \in Sent : Before(i, <<packet, chunk>>)
<1>1. packet \in 1..Len(Packets) /\ Len(Packets) \in Nat /\ chunk \in 1..Parts(packet)
  <2>1. worker = "sending"
    BY DEF SendChunk
  <2>2. PICK l \in Nat : l = Len(Packets)
    BY PublisherAssumption, LenProperties
  <2>3. packet \in 1..l + 1 /\ packet <= l
    BY <2>1, <2>2 DEF TypeOK, Position
  <2> QED  BY <2>2, <2>3 DEF Position
<1>2. <<packet, chunk>> \in Ids /\ packet \in Nat /\ chunk \in Nat /\ Parts(packet) \in Nat
  BY <1>1, IdParts
<1>3. <<packet, chunk>> \notin Sent
  BY <1>2 DEF Sent, Before
<1>4. ASSUME NEW i \in Ids
      PROVE  Before(i, <<packet', chunk'>>) <=> Before(i, <<packet, chunk>>) \/ i = <<packet, chunk>>
  <2>1. i[1] \in Nat /\ i[2] \in Nat /\ i[2] \in 1..Parts(i[1]) /\ i = <<i[1], i[2]>>
    BY IdParts
  <2>2. CASE chunk < Parts(packet) /\ packet' = packet /\ chunk' = chunk + 1
    <3>1. i[1] = packet /\ i[2] < chunk + 1 <=> (i[1] = packet /\ i[2] < chunk) \/ (i[1] = packet /\ i[2] = chunk)
      BY <1>2, <2>1
    <3>2. i = <<packet, chunk>> <=> i[1] = packet /\ i[2] = chunk
      BY <2>1
    <3> QED  BY <2>2, <3>1, <3>2 DEF Before
  <2>3. CASE ~(chunk < Parts(packet)) /\ packet' = packet + 1 /\ chunk' = 1
    <3>1. chunk = Parts(packet)
      BY <1>1, <1>2, <2>3
    <3>2. ~(i[1] = packet + 1 /\ i[2] < 1)
      BY <2>1
    <3>3. i[1] = packet => (i[2] < chunk \/ i[2] = chunk)
      BY <1>2, <2>1, <3>1
    <3>4. i[1] < packet + 1 <=> i[1] < packet \/ i[1] = packet
      BY <1>2, <2>1
    <3>5. i = <<packet, chunk>> <=> i[1] = packet /\ i[2] = chunk
      BY <2>1
    <3> QED  BY <2>3, <3>2, <3>3, <3>4, <3>5 DEF Before
  <2> QED  BY <2>2, <2>3 DEF SendChunk
<1>5. Sent' = Sent \cup {<<packet, chunk>>}
  BY <1>2, <1>4 DEF Sent
<1> QED  BY <1>2, <1>3, <1>5 DEF Sent

\* The actions, sorted by the queues they change.
LEMMA StepKinds ==
  [Next]_vars =>
    \/ SendChunk \/ Finally \/ Publish \/ StopClient \/ OnAnswer \/ Restart
    \/ \E ok \in BOOLEAN : Serve(ok)
    \/ Start \/ Read \/ Break \/ OnNext \/ OnComplete \/ Poll \/ GiveUp \/ StopReader \/ OnError
    \/ Subscribed \/ UNCHANGED vars
BY DEF Next, Worker, Loop

\* The other steps touch no queue and no count.
LEMMA Quiet ==
  ASSUME Start \/ Read \/ Break \/ OnNext \/ OnComplete \/ Poll \/ GiveUp \/ StopReader \/ OnError
         \/ Subscribed \/ UNCHANGED vars
  PROVE  UNCHANGED <<packet, chunk, inFlight, tasks, net, acks, client, server, acked>>
BY DEF Start, Read, Break, OnNext, OnComplete, AtComplete, Poll, GiveUp, StopReader, OnError,
       Subscribed, vars, Source, Wire

-----------------------------------------------------------------------------
(* The queues.                                                             *)

QueueTypes ==
  tasks \in Seq(Places) /\ net \in Seq(Ids) /\ acks \in Seq(Ids \X BOOLEAN) /\ server \in Seq(Ids)

\* Posting to the loop keeps the order: a chunk, or the stop (operator(), do_finally).
LEMMA OrderPosted ==
  ASSUME TypeOK, Position, Order, Stopping, SendChunk \/ Finally
  PROVE  Order' /\ QueueTypes'
<1>0. tasks \in Seq(Places) /\ UNCHANGED <<net, acks, server, acked>>
  BY DEF TypeOK, SendChunk, Finally, Wire, Places
<1>1. ASSUME NEW x \in Places, tasks' = Append(tasks, x), \A i \in Sent : Precedes(i, x),
             Stop \notin Elems(tasks), Sent \subseteq Sent', Sent' \cup {Stop} = Sent \cup {x, Stop}
      PROVE  Order' /\ QueueTypes'
  <2>1. tasks' \in Seq(Places) /\ Elems(tasks') = Elems(tasks) \cup {x}
    BY <1>0, <1>1, Joins
  <2>2. \A y \in Elems(tasks) : y \in Sent /\ <<y, x>> \in Up
    BY <1>1 DEF Order, Up, Sent, Places
  <2>3. Sorted(tasks', Up)
    BY <1>0, <1>1, <2>2, Joins DEF Order
  <2>4. \A i \in Elems(server) \cup AckIds \cup acked \cup Elems(net) : i \in Sent /\ Precedes(i, x)
    BY <1>1 DEF Order
  <2>5. Elems(tasks') \subseteq Sent' \cup {Stop}
    BY <1>1, <2>1, <2>2
  <2>6. AckIds' = AckIds
    BY <1>0 DEF AckIds
  <2>7. Order'
    BY <1>0, <1>1, <2>1, <2>3, <2>4, <2>5, <2>6 DEF Order
  <2> QED  BY <1>0, <2>1, <2>7 DEF QueueTypes, TypeOK
<1>2. CASE SendChunk
  <2>1. tasks' = Append(tasks, <<packet, chunk>>) /\ Stop \notin Elems(tasks)
    BY <1>2 DEF SendChunk, Posted, Stopping
  <2>2. \A i \in Sent : Precedes(i, <<packet, chunk>>)
    BY <1>2, SentGrows, IdParts DEF Precedes, Sent
  <2>3. <<packet, chunk>> \in Places /\ Sent \subseteq Sent'
        /\ Sent' \cup {Stop} = Sent \cup {<<packet, chunk>>, Stop}
    BY <1>2, SentGrows DEF Places
  <2> QED  BY <1>1, <2>1, <2>2, <2>3
<1>3. CASE Finally
  <2>1. tasks' = Append(tasks, Stop) /\ Stop \notin Elems(tasks) /\ Sent' = Sent
    BY <1>3 DEF Finally, Stopping, Source, Sent
  <2>2. \A i \in Sent : Precedes(i, Stop)
    BY IdParts DEF Precedes, Sent
  <2> QED  BY <1>1, <2>1, <2>2 DEF Places
<1> QED  BY <1>2, <1>3

\* Running a posted task keeps the order (the client writes in the order of the calls).
LEMMA OrderRun ==
  ASSUME TypeOK, Order, Publish \/ StopClient
  PROVE  Order' /\ QueueTypes'
<1>0. /\ tasks \in Seq(Places) /\ net \in Seq(Ids) /\ acks \in Seq(Ids \X BOOLEAN) /\ server \in Seq(Ids)
      /\ tasks # <<>> /\ tasks' = Tail(tasks) /\ UNCHANGED <<server, acked>> /\ Sent' = Sent
  BY DEF TypeOK, Publish, StopClient, Places, Source, Sent
<1>1. /\ tasks' \in Seq(Places) /\ Elems(tasks) = Elems(tasks') \cup {Head(tasks)}
      /\ Sorted(tasks', Up) /\ \A y \in Elems(tasks') : <<Head(tasks), y>> \in Up
  BY <1>0, Leaves DEF Order
<1>2. CASE UNCHANGED <<net, acks>>
  <2>1. AckIds' = AckIds
    BY <1>2 DEF AckIds
  <2> QED  BY <1>0, <1>1, <1>2, <2>1 DEF Order, QueueTypes
<1>3. CASE net' = <<>> /\ acks' = <<>>
  <2>1. Elems(net') = {} /\ AckIds' = {} /\ Sorted(net', Up) /\ Sorted(acks', Apart)
    BY <1>3, Emptied DEF AckIds
  <2>2. net' \in Seq(Ids) /\ acks' \in Seq(Ids \X BOOLEAN)
    BY <1>3, EmptySeq
  <2> QED  BY <1>0, <1>1, <2>1, <2>2 DEF Order, QueueTypes
<1>4. CASE Head(tasks) # Stop /\ net' = Append(net, Head(tasks)) /\ acks' = acks
  <2>1. Head(tasks) \in Sent /\ Head(tasks) \in Ids
    BY <1>1, <1>4 DEF Order, Sent
  <2>2. \A i \in Elems(server) \cup AckIds \cup acked \cup Elems(net) : i \in Ids /\ Precedes(i, Head(tasks))
    BY <1>1 DEF Order, Sent
  <2>3. net' \in Seq(Ids) /\ Elems(net') = Elems(net) \cup {Head(tasks)}
    BY <1>0, <1>4, <2>1, Joins
  <2>4. Sorted(net', Up)
    <3>1. \A y \in Elems(net) : <<y, Head(tasks)>> \in Up
      BY <2>1, <2>2 DEF Up, Places
    <3> QED  BY <1>0, <1>4, <2>1, <3>1, Joins DEF Order
  <2>5. \A y \in Elems(tasks') : Precedes(Head(tasks), y)
    BY <1>1 DEF Up
  <2>6. AckIds' = AckIds
    BY <1>4 DEF AckIds
  <2>7. Order'
    BY <1>0, <1>1, <1>4, <2>1, <2>2, <2>3, <2>4, <2>5, <2>6 DEF Order
  <2> QED  BY <1>0, <1>1, <1>4, <2>3, <2>7 DEF QueueTypes
<1> QED  BY <1>2, <1>3, <1>4 DEF Publish, StopClient

\* The server's answers keep the order, and no chunk is answered twice.
LEMMA OrderServed ==
  ASSUME TypeOK, Order, NEW ok \in BOOLEAN, Serve(ok)
  PROVE  Order' /\ QueueTypes'
<1> DEFINE h == Head(net)
           a == <<h, ok>>
<1>0. /\ tasks \in Seq(Places) /\ net \in Seq(Ids) /\ acks \in Seq(Ids \X BOOLEAN) /\ server \in Seq(Ids)
      /\ net # <<>> /\ net' = Tail(net) /\ server' = Append(server, h) /\ acks' = Append(acks, a)
      /\ UNCHANGED <<tasks, acked>> /\ Sent' = Sent
  BY DEF TypeOK, Serve, Source, Sent, Places
<1>1. /\ net' \in Seq(Ids) /\ Elems(net) = Elems(net') \cup {h} /\ h \in Ids
      /\ Sorted(net', Up) /\ \A y \in Elems(net') : <<h, y>> \in Up
  BY <1>0, Leaves DEF Order
<1>2. a \in Ids \X BOOLEAN /\ a[1] = h
  BY <1>1
<1> HIDE DEF h, a
<1>3. h \in Sent /\ \A i \in Elems(server) \cup AckIds \cup acked : i \in Ids /\ Precedes(i, h)
  BY <1>1 DEF Order, Sent
<1>4. server' \in Seq(Ids) /\ Elems(server') = Elems(server) \cup {h} /\ Sorted(server', Up)
  <2>1. \A y \in Elems(server) : <<y, h>> \in Up
    BY <1>1, <1>3 DEF Up, Places
  <2> QED  BY <1>0, <1>1, <2>1, Joins DEF Order
<1>5. h \notin AckIds /\ h \notin acked
  BY <1>1, <1>3, Irreflexive DEF Places
<1>6. acks' \in Seq(Ids \X BOOLEAN) /\ Elems(acks') = Elems(acks) \cup {a}
  <2>1. acks \in Seq(Ids \X BOOLEAN) /\ acks' = Append(acks, a)  BY <1>0
  <2> QED  BY <1>2, <2>1, Joins, ZenonT(60)
<1>7. AckIds' = AckIds \cup {h}
  BY <1>2, <1>6 DEF AckIds
<1>8. Sorted(acks', Apart)
  <2>1. ASSUME NEW y \in Elems(acks) PROVE y[1] # h /\ y \in Ids \X BOOLEAN
    <3>1. y[1] \in AckIds
      BY DEF AckIds
    <3>2. PICK k \in 1..Len(acks) : y = acks[k]
      BY DEF Elems
    <3> QED  BY <1>0, <1>5, <3>1, <3>2, ElementOfSeq
  <2>2. \A y \in Elems(acks) : <<y, a>> \in Apart
    BY <1>2, <2>1 DEF Apart
  <2> QED  BY <1>0, <1>2, <2>2, Joins DEF Order
<1>9. \A y \in Elems(net') \cup Elems(tasks') : Precedes(h, y)
  BY <1>0, <1>1 DEF Order, Up
<1>10. Order'
  BY <1>0, <1>1, <1>3, <1>4, <1>5, <1>7, <1>8, <1>9 DEF Order
<1> QED  BY <1>0, <1>1, <1>4, <1>6, <1>10 DEF QueueTypes

\* An answer that is taken is not taken again, and its chunk was posted and not
\* acknowledged.
LEMMA OrderAnswered ==
  ASSUME TypeOK, Order, OnAnswer
  PROVE  Order' /\ QueueTypes' /\ acks[1][1] \in Sent \ acked
<1> DEFINE h == acks[1]
<1>0. /\ tasks \in Seq(Places) /\ net \in Seq(Ids) /\ acks \in Seq(Ids \X BOOLEAN) /\ server \in Seq(Ids)
      /\ acks # <<>> /\ acks' = Tail(acks) /\ UNCHANGED <<tasks, net, server>> /\ Sent' = Sent
      /\ acked' = acked \/ acked' = acked \cup {h[1]}
  BY DEF TypeOK, OnAnswer, Source, Sent, Places
<1>1. /\ acks' \in Seq(Ids \X BOOLEAN) /\ Elems(acks) = Elems(acks') \cup {h} /\ h \in Ids \X BOOLEAN
      /\ Sorted(acks', Apart) /\ \A y \in Elems(acks') : <<h, y>> \in Apart
  BY <1>0, Leaves DEF Order
<1> HIDE DEF h
<1>2. AckIds = AckIds' \cup {h[1]}
  BY <1>1 DEF AckIds
<1>3. h[1] \in Sent \ acked
  BY <1>2 DEF Order
<1>4. h[1] \notin AckIds'
  BY <1>1 DEF AckIds, Apart
<1>5. Order'
  BY <1>0, <1>1, <1>2, <1>3, <1>4 DEF Order
<1> QED  BY <1>0, <1>1, <1>3, <1>5 DEF QueueTypes, h

\* Every step keeps the order and the kinds of values of the queues.
LEMMA OrderStep == TypeOK /\ Position /\ Order /\ Stopping /\ [Next]_vars => Order' /\ QueueTypes'
<1> SUFFICES ASSUME TypeOK, Position, Order, Stopping, [Next]_vars PROVE Order' /\ QueueTypes'
  OBVIOUS
<1>0. tasks \in Seq(Places) /\ net \in Seq(Ids) /\ acks \in Seq(Ids \X BOOLEAN) /\ server \in Seq(Ids)
  BY DEF TypeOK, Places
<1>1. CASE Restart
  <2>1. net' = <<>> /\ acks' = <<>> /\ UNCHANGED <<tasks, server, acked>> /\ Sent' = Sent
    BY <1>1 DEF Restart, Source, Sent
  <2>2. Elems(net') = {} /\ AckIds' = {} /\ Sorted(net', Up) /\ Sorted(acks', Apart)
    BY <2>1, Emptied DEF AckIds
  <2>3. net' \in Seq(Ids) /\ acks' \in Seq(Ids \X BOOLEAN)
    BY <2>1, EmptySeq
  <2> QED  BY <1>0, <2>1, <2>2, <2>3 DEF Order, QueueTypes
<1>2. CASE UNCHANGED <<packet, chunk, inFlight, tasks, net, acks, client, server, acked>>
  <2>1. Sent' = Sent /\ AckIds' = AckIds
    BY <1>2 DEF Sent, AckIds
  <2> QED  BY <1>0, <1>2, <2>1 DEF Order, QueueTypes
<1> QED  BY <1>1, <1>2, OrderPosted, OrderRun, OrderServed, OrderAnswered, StepKinds, Quiet

-----------------------------------------------------------------------------
(* The count, the end and the type invariant.                              *)

\* Every step keeps the count of the chunks that were not acknowledged.
LEMMA CountingStep ==
  TypeOK /\ Position /\ Counting /\ Order /\ [Next]_vars => Counting' /\ inFlight' \in Nat
<1> SUFFICES ASSUME TypeOK, Position, Counting, Order, [Next]_vars PROVE Counting'
  BY FS_CardinalityType DEF Counting
<1>1. CASE SendChunk
  <2> DEFINE cur == <<packet, chunk>>
  <2>1. cur \in Ids \ Sent /\ Sent' = Sent \cup {cur} /\ acked \subseteq Sent
    BY <1>1, SentGrows DEF Order
  <2>2. acked' = acked /\ inFlight' = inFlight + 1
    BY <1>1 DEF SendChunk, Counted
  <2> HIDE DEF cur
  <2>3. Sent' \ acked' = (Sent \ acked) \cup {cur} /\ cur \notin Sent \ acked
    BY <2>1, <2>2
  <2>4. IsFiniteSet((Sent \ acked) \cup {cur})
        /\ Cardinality((Sent \ acked) \cup {cur}) = Cardinality(Sent \ acked) + 1
    BY <2>3, FS_AddElement DEF Counting
  <2> QED  BY <2>2, <2>3, <2>4 DEF Counting
<1>2. CASE OnAnswer
  <2> DEFINE h == acks[1][1]
  <2>1. h \in Sent \ acked
    BY <1>2, OrderAnswered
  <2>2. Sent' = Sent
    BY <1>2 DEF OnAnswer, Source, Sent
  <2>3. \/ acked' = acked /\ inFlight' = inFlight
        \/ acked' = acked \cup {h} /\ inFlight' = inFlight - 1
    BY <1>2 DEF OnAnswer
  <2> HIDE DEF h
  <2>4. CASE acked' = acked \cup {h} /\ inFlight' = inFlight - 1
    <3>1. Sent' \ acked' = (Sent \ acked) \ {h}
      BY <2>2, <2>4
    <3>2. IsFiniteSet((Sent \ acked) \ {h}) /\ Cardinality((Sent \ acked) \ {h}) = Cardinality(Sent \ acked) - 1
      BY <2>1, FS_RemoveElement DEF Counting
    <3> QED  BY <2>4, <3>1, <3>2 DEF Counting
  <2> QED  BY <2>2, <2>3, <2>4 DEF Counting
<1>3. CASE UNCHANGED <<packet, chunk, inFlight, acked>>
  <2>1. Sent' = Sent
    BY <1>3 DEF Sent
  <2> QED  BY <1>3, <2>1 DEF Counting
<1>4. Finally \/ Publish \/ StopClient \/ Restart \/ (\E ok \in BOOLEAN : Serve(ok))
        => UNCHANGED <<packet, chunk, inFlight, acked>>
  BY DEF Finally, Publish, StopClient, Restart, Serve, Source
<1> QED  BY <1>1, <1>2, <1>3, <1>4, StepKinds, Quiet

\* With a count of zero everything that was posted is acknowledged, and nothing is
\* under way.
LEMMA NothingLeft ==
  ASSUME Counting, Order, inFlight = 0
  PROVE  /\ Sent = acked /\ Elems(net) = {} /\ AckIds = {} /\ Elems(tasks) \subseteq {Stop}
<1>1. Sent \ acked = {}
  BY FS_EmptySet DEF Counting
<1>2. Sent = acked
  BY <1>1 DEF Order
<1>3. \A i \in acked, j \in Elems(net) \cup Elems(tasks) : i \in Ids /\ i # j
  BY <1>2, Irreflexive DEF Order, Sent, Places
<1> QED  BY <1>2, <1>3 DEF Order

\* Behind the last packet every chunk of the stream was posted.
LEMMA AllSent ==
  ASSUME TypeOK, packet > Len(Packets)
  PROVE  Sent = Ids
<1>1. PICK l \in Nat : l = Len(Packets)
  BY PublisherAssumption, LenProperties
<1>2. packet \in Nat /\ packet > l
  <2>1. packet \in 1..l + 1
    BY <1>1 DEF TypeOK
  <2> QED  BY <1>1, <2>1
<1>3. \A i \in Ids : i[1] \in Nat /\ i[1] <= l
  BY <1>1, IdParts
<1>4. \A i \in Ids : i[1] < packet
  BY <1>2, <1>3
<1> QED  BY <1>4 DEF Sent, Before

\* Every step keeps the place of the thread in the stream.
LEMMA PositionStep == TypeOK /\ Position /\ [Next]_vars =>
  Position' /\ packet' \in 1..Len(Packets) + 1 /\ chunk' \in Nat /\ demand' \in 0..1
<1> DEFINE Goal == Position' /\ packet' \in 1..Len(Packets) + 1 /\ chunk' \in Nat /\ demand' \in 0..1
<1> SUFFICES ASSUME TypeOK, Position, [Next]_vars PROVE Goal
  OBVIOUS
<1>0. PICK l \in Nat : l = Len(Packets)
  BY PublisherAssumption, LenProperties
<1>1. packet \in 1..l + 1 /\ chunk \in Nat
  BY <1>0 DEF TypeOK
<1>2. CASE SendChunk
  <2>1. packet <= l /\ chunk \in 1..Parts(packet) /\ demand = 0 /\ worker = "sending"
    BY <1>0, <1>2 DEF SendChunk, Position
  <2>2. \A p \in 1..l : Parts(p) \in Nat \ {0}
    BY <1>0, IdParts
  <2>3. CASE chunk < Parts(packet)
    <3>1. UNCHANGED <<worker, packet, demand>> /\ chunk' = chunk + 1
      BY <1>2, <2>3 DEF SendChunk
    <3>2. chunk + 1 \in 1..Parts(packet) /\ chunk + 1 \in Nat
      BY <1>1, <2>1, <2>2, <2>3
    <3> QED  BY <1>0, <1>1, <2>1, <3>1, <3>2 DEF Position, Deleted
  <2>4. CASE ~(chunk < Parts(packet))
    <3>1. worker' \in {"reading", "idle"} /\ packet' = packet + 1 /\ chunk' = 1 /\ demand' = 1
      BY <1>2, <2>1, <2>4 DEF SendChunk, Returned, AskedNext
    <3>2. packet' \in 1..l + 1 /\ (packet' <= l => 1 \in 1..Parts(packet'))
      BY <1>1, <2>1, <2>2, <3>1
    <3> QED  BY <1>0, <3>1, <3>2 DEF Position, Deleted
  <2> QED  BY <2>3, <2>4
<1>3. CASE OnNext
  <2>1. /\ UNCHANGED <<packet, chunk>> /\ worker' = "sending" /\ demand' = 0
        /\ packet <= l /\ demand = 1
    BY <1>0, <1>3 DEF OnNext, Position
  <2> QED  BY <1>0, <1>1, <2>1 DEF Position, Deleted
<1>4. CASE /\ UNCHANGED <<packet, chunk, demand>>
           /\ \/ worker' = worker
              \/ worker' \in {"idle", "spinning"} /\ worker # "sending"
              \/ worker' \in {"waiting", "finally", "stopping", "done"} /\ packet > Len(Packets)
                 /\ worker # "sending"
  <2>1. demand \in 0..1
    BY DEF TypeOK
  <2> QED  BY <1>0, <1>1, <1>4, <2>1 DEF Position, Deleted
<1>5. Start \/ Read \/ Break => UNCHANGED <<packet, chunk, demand>>
        /\ worker' \in {"idle", "spinning"} /\ worker # "sending"
  BY DEF Start, Read, Break, Source
<1>6. OnComplete \/ Poll \/ GiveUp \/ Finally \/ StopReader => UNCHANGED <<packet, chunk, demand>>
        /\ worker' \in {"waiting", "finally", "stopping", "done"} /\ packet > Len(Packets)
        /\ worker # "sending"
  BY DEF OnComplete, Poll, GiveUp, Finally, StopReader, Source, Position, Deleted
<1>7. OnError \/ Subscribed \/ Publish \/ StopClient \/ OnAnswer \/ Restart
        \/ (\E ok \in BOOLEAN : Serve(ok)) \/ UNCHANGED vars
        => UNCHANGED <<packet, chunk, demand, worker>>
  BY DEF OnError, Subscribed, Publish, StopClient, OnAnswer, Restart, Serve, Source, vars
<1> QED  BY <1>2, <1>3, <1>4, <1>5, <1>6, <1>7, StepKinds

\* Every step keeps the stop behind everything that was posted.
LEMMA StoppingStep == TypeOK /\ Position /\ Order /\ Stopping /\ [Next]_vars => Stopping'
<1> SUFFICES ASSUME TypeOK, Position, Order, Stopping, [Next]_vars PROVE Stopping'
  OBVIOUS
<1>0. /\ tasks \in Seq(Places) /\ Sorted(tasks, Up) /\ client \in {"running", "stopped"}
  BY DEF TypeOK, Order, Places
<1>1. CASE SendChunk
  <2> DEFINE cur == <<packet, chunk>>
  <2>1. /\ tasks' = Append(tasks, cur) /\ worker = "sending" /\ client' = client
        /\ worker' \in {"sending", "reading", "idle"}
    BY <1>1 DEF SendChunk, Posted, Returned, Wire
  <2>2. cur \in Places /\ cur # Stop
    BY <1>1, SentGrows, IdParts DEF Places
  <2> HIDE DEF cur
  <2>3. Elems(tasks') = Elems(tasks) \cup {cur}
    BY <1>0, <2>1, <2>2, Joins
  <2>4. Stop \notin Elems(tasks) /\ client = "running"
    BY <2>1 DEF Stopping
  <2> QED  BY <2>1, <2>2, <2>3, <2>4 DEF Stopping
<1>2. CASE Finally
  <2>1. tasks' = Append(tasks, Stop) /\ worker = "finally" /\ worker' = "stopping" /\ client' = client
    BY <1>2 DEF Finally, Wire
  <2>2. Stop \in Elems(tasks')
    BY <1>0, <2>1, Joins DEF Places
  <2>3. client = "running"
    BY <2>1 DEF Stopping
  <2> QED  BY <2>1, <2>2, <2>3 DEF Stopping
<1>3. CASE Publish \/ StopClient
  <2>1. tasks # <<>> /\ tasks' = Tail(tasks) /\ worker' = worker
    BY <1>3 DEF Publish, StopClient
  <2>2. /\ Elems(tasks) = Elems(tasks') \cup {Head(tasks)} /\ tasks' \in Seq(Places)
        /\ \A y \in Elems(tasks') : <<Head(tasks), y>> \in Up
    BY <1>0, <2>1, Leaves
  <2>3. client = "running"
    BY <1>0, <2>1 DEF Stopping
  <2>4. CASE Publish
    <3>1. Head(tasks) # Stop /\ client' = client
      BY <2>4 DEF Publish
    <3> QED  BY <2>1, <2>2, <2>3, <3>1 DEF Stopping
  <2>5. CASE StopClient
    <3>1. Head(tasks) = Stop /\ client' = "stopped"
      BY <2>5 DEF StopClient
    <3>2. Elems(tasks') = {}
      BY <2>2, <3>1 DEF Up, Precedes
    <3>3. tasks' = <<>>
      <4>1. PICK n \in Nat : n = Len(tasks') /\ (tasks' # <<>> => n # 0)
        BY <2>2, EmptySeq, LenProperties
      <4>2. n # 0 => tasks'[1] \in Elems(tasks')
        BY <4>1 DEF Elems
      <4> QED  BY <3>2, <4>1, <4>2
    <3>4. worker \in {"stopping", "done"}
      BY <2>2, <3>1 DEF Stopping
    <3> QED  BY <2>1, <3>1, <3>3, <3>4 DEF Stopping
  <2> QED  BY <1>3, <2>4, <2>5
<1>4. CASE /\ UNCHANGED <<tasks, client>>
           /\ worker' = worker \/ (worker = "stopping" /\ worker' = "done")
                \/ {worker, worker'} \cap {"stopping", "done"} = {}
  BY <1>4 DEF Stopping
<1>5. Start \/ Read \/ Break \/ OnNext \/ OnComplete \/ Poll \/ GiveUp
        => UNCHANGED <<tasks, client>> /\ {worker, worker'} \cap {"stopping", "done"} = {}
  BY DEF Start, Read, Break, OnNext, OnComplete, AtComplete, Poll, GiveUp, Wire
<1>6. OnError \/ Subscribed \/ OnAnswer \/ Restart \/ (\E ok \in BOOLEAN : Serve(ok)) \/ UNCHANGED vars
        => UNCHANGED <<tasks, client, worker>>
  BY DEF OnError, Subscribed, OnAnswer, Restart, Serve, Wire, vars
<1>7. StopReader => UNCHANGED <<tasks, client>> /\ worker = "stopping" /\ worker' = "done"
  BY DEF StopReader, Wire
<1> QED  BY <1>1, <1>2, <1>3, <1>4, <1>5, <1>6, <1>7, StepKinds

\* Every step keeps the wait for the answers ahead of the deletion of the sink.
LEMMA WaitedStep ==
  TypeOK /\ Position /\ Counting /\ Order /\ Waited /\ [Next]_vars => Waited'
<1> SUFFICES ASSUME TypeOK, Position, Counting, Order, Waited, [Next]_vars PROVE Waited'
  OBVIOUS
<1>0. gaveUp \in BOOLEAN /\ tasks \in Seq(Places) /\ acks \in Seq(Ids \X BOOLEAN)
      /\ main \in {"subscribing", "looping"}
  BY DEF TypeOK, Places
<1>1. CASE Poll \/ GiveUp
  <2>1. /\ UNCHANGED <<inFlight, main, acked, fate>> /\ worker = "waiting"
        /\ ((inFlight = 0 /\ gaveUp' = gaveUp) \/ gaveUp' = TRUE)
    BY <1>1 DEF Poll, GiveUp, Published, Source
  <2> QED  BY <1>0, <2>1 DEF Waited
<1>2. CASE SendChunk
  <2>1. worker' \in {"sending", "reading", "idle"} /\ UNCHANGED <<main, acked, fate, gaveUp>>
    BY <1>2 DEF SendChunk, Returned
  <2> QED  BY <2>1 DEF Waited, Deleted
<1>3. CASE Publish
  <2>1. UNCHANGED <<worker, main, acked, inFlight, gaveUp>> /\ tasks # <<>> /\ Head(tasks) # Stop
    BY <1>3 DEF Publish, Source
  <2>2. CASE Deleted
    <3>1. Head(tasks) \in Elems(tasks)
      BY <1>0, <2>1, Leaves
    <3>2. gaveUp
      BY <2>1, <2>2, <3>1, NothingLeft DEF Waited
    <3> QED  BY <2>1, <3>2 DEF Waited, Deleted
  <2>3. CASE ~Deleted
    <3>1. fate' = fate
      BY <1>3, <2>3 DEF Publish
    <3> QED  BY <2>1, <3>1 DEF Waited, Deleted
  <2> QED  BY <2>2, <2>3
<1>4. CASE OnAnswer
  <2>1. UNCHANGED <<worker, main, gaveUp>> /\ acks # <<>> /\ main = "looping"
    BY <1>4 DEF OnAnswer, Source, Looping
  <2>2. CASE Deleted
    <3>1. acks[1][1] \in AckIds
      BY <1>0, <2>1, Leaves DEF AckIds
    <3>2. gaveUp
      BY <2>2, <3>1, NothingLeft DEF Waited
    <3> QED  BY <2>1, <3>2 DEF Waited, Deleted
  <2>3. CASE ~Deleted
    <3>1. fate' = fate \/ fate' = "aborted"
      BY <1>4, <2>3 DEF OnAnswer
    <3> QED  BY <2>1, <2>3, <3>1 DEF Waited, Deleted
  <2> QED  BY <2>2, <2>3
<1>5. CASE StopReader
  <2>1. UNCHANGED <<main, acked, inFlight, gaveUp>> /\ worker = "stopping" /\ worker' = "done"
    BY <1>5 DEF StopReader, Source
  <2>2. CASE input = "url" /\ main = "subscribing" /\ ~gaveUp
    <3>1. inFlight = 0 /\ acked = {} /\ packet > Len(Packets)
      BY <2>1, <2>2 DEF Waited, Position, Deleted
    <3>2. Ids = {}
      BY <3>1, NothingLeft, AllSent
    <3>3. Packets # <<>> /\ Packets \in Seq(Nat)
      BY <2>2, PublisherAssumption DEF TypeOK
    <3>4. 1 \in 1..Len(Packets)
      BY <3>3, EmptySeq
    <3>5. 1 \in 1..Parts(1)
      BY <3>4, IdParts
    <3> QED  BY <3>2, <3>4, <3>5, IdParts
  <2>3. CASE ~(input = "url" /\ main = "subscribing" /\ ~gaveUp)
    <3>1. fate' = fate \/ gaveUp
      BY <1>5, <2>3 DEF StopReader
    <3> QED  BY <2>1, <3>1 DEF Waited, Deleted
  <2> QED  BY <2>2, <2>3
<1>6. CASE Subscribed
  <2>1. main' = "looping" /\ UNCHANGED <<worker, acked, inFlight, gaveUp, fate>>
    BY <1>6 DEF Subscribed
  <2> QED  BY <2>1 DEF Waited, Deleted
<1>7. CASE /\ UNCHANGED <<main, acked, inFlight, gaveUp>> /\ (fate' = fate \/ fate' = "aborted")
           /\ Deleted' => Deleted
  BY <1>7 DEF Waited
<1>8. Start \/ Read \/ Break \/ OnNext \/ OnComplete => UNCHANGED <<main, acked, inFlight, gaveUp, fate>>
        /\ worker' \in {"idle", "spinning", "sending", "waiting"}
  BY DEF Start, Read, Break, OnNext, OnComplete, Source
<1>9. Finally => UNCHANGED <<main, acked, inFlight, gaveUp, fate>> /\ worker = "finally"
  BY DEF Finally, Source
<1>10. OnError \/ StopClient \/ Restart \/ (\E ok \in BOOLEAN : Serve(ok)) \/ UNCHANGED vars
        => UNCHANGED <<main, acked, inFlight, gaveUp, worker>> /\ (fate' = fate \/ fate' = "aborted")
  BY DEF OnError, StopClient, Restart, Serve, Source, vars
<1> QED  BY <1>1, <1>2, <1>3, <1>4, <1>5, <1>6, <1>7, <1>8, <1>9, <1>10, StepKinds DEF Deleted

\* Every step keeps the kinds of values of the flags.
LEMMA FlagTypes ==
  TypeOK /\ [Next]_vars =>
    /\ input' \in Inputs /\ main' \in {"subscribing", "looping"}
    /\ worker' \in {"starting", "reading", "spinning", "idle", "sending", "waiting",
                    "finally", "stopping", "done"}
    /\ client' \in {"running", "stopped"} /\ gaveUp' \in BOOLEAN
    /\ fate' \in {"", "aborted", "freed", "null"}
<1> SUFFICES ASSUME TypeOK, [Next]_vars
             PROVE  /\ input' \in Inputs /\ main' \in {"subscribing", "looping"}
                    /\ worker' \in {"starting", "reading", "spinning", "idle", "sending", "waiting",
                                    "finally", "stopping", "done"}
                    /\ client' \in {"running", "stopped"} /\ gaveUp' \in BOOLEAN
                    /\ fate' \in {"", "aborted", "freed", "null"}
  OBVIOUS
<1> USE DEF Start, Read, Break, OnNext, OnComplete, Poll, GiveUp, StopReader, OnError, Subscribed,
        SendChunk, Returned, Finally, Publish, StopClient, OnAnswer, Restart, Serve, Source, Wire, vars
<1>1. input' = input /\ (main' = main \/ main' = "looping")
  BY StepKinds
<1>2. worker' = worker \/ worker' \in {"starting", "reading", "spinning", "idle", "sending", "waiting",
                                      "finally", "stopping", "done"}
  BY StepKinds
<1>3. client' = client \/ client' = "stopped"
  BY StepKinds
<1>4. gaveUp' = gaveUp \/ gaveUp' = TRUE
  BY StepKinds
<1>5. fate' = fate \/ fate' \in {"aborted", "freed", "null"}
  BY StepKinds
<1> QED  BY <1>1, <1>2, <1>3, <1>4, <1>5 DEF TypeOK

-----------------------------------------------------------------------------
(* The theorems about the publisher.                                       *)

\* A sink that has just asked for its first packet satisfies the invariant.
LEMMA InitInductive == Init => Inductive
<1> SUFFICES ASSUME Init PROVE Inductive
  OBVIOUS
<1>1. /\ packet = 1 /\ chunk = 1 /\ demand = 1 /\ inFlight = 0 /\ tasks = <<>> /\ net = <<>>
      /\ acks = <<>> /\ client = "running" /\ server = <<>> /\ acked = {} /\ gaveUp = FALSE
      /\ fate = "" /\ main = "subscribing" /\ input \in Inputs /\ worker \in {"starting", "idle"}
  BY DEF Init
<1>2. PICK l \in Nat : l = Len(Packets)
  BY PublisherAssumption, LenProperties
<1>3. Sent = {}
  <2> SUFFICES ASSUME NEW i \in Ids PROVE ~Before(i, <<1, 1>>)
    BY <1>1 DEF Sent
  <2>1. i[1] \in 1..l /\ i[2] \in 1..Parts(i[1]) /\ Parts(i[1]) \in Nat
    BY <1>2, IdParts
  <2>2. PICK a \in Nat, b \in Nat : a = i[1] /\ b = i[2] /\ 1 <= a /\ 1 <= b
    BY <2>1
  <2> QED  BY <2>2 DEF Before
<1>4. TypeOK
  <2>1. <<>> \in Seq(Ids \cup {Stop}) /\ <<>> \in Seq(Ids) /\ <<>> \in Seq(Ids \X BOOLEAN)
    BY EmptySeq
  <2>2. 1 \in 1..Len(Packets) + 1 /\ 1 \in Nat /\ 1 \in 0..1 /\ 0 \in Nat
    BY <1>2
  <2>3. /\ main \in {"subscribing", "looping"}
        /\ worker \in {"starting", "reading", "spinning", "idle", "sending", "waiting",
                       "finally", "stopping", "done"}
        /\ client \in {"running", "stopped"} /\ fate \in {"", "aborted", "freed", "null"}
    BY <1>1
  <2>4. gaveUp \in BOOLEAN /\ acked \subseteq Ids
    BY <1>1
  <2>5. packet \in 1..Len(Packets) + 1 /\ chunk \in Nat /\ demand \in 0..1 /\ inFlight \in Nat
    BY <1>1, <2>2, Zenon
  <2> QED  BY <1>1, <2>1, <2>3, <2>4, <2>5 DEF TypeOK
<1>5. Position
  <2>1. 1 <= l => 1 \in 1..Parts(1)
    BY <1>2, IdParts
  <2> QED  BY <1>1, <1>2, <2>1 DEF Position, Deleted
<1>6. Counting
  BY <1>1, <1>3, FS_EmptySet DEF Counting
<1>7. Order
  BY <1>1, <1>3, Emptied DEF Order, AckIds
<1>8. Stopping /\ Waited
  BY <1>1, Emptied DEF Stopping, Waited, Deleted
<1> QED  BY <1>4, <1>5, <1>6, <1>7, <1>8 DEF Inductive

\* Every step of the two threads, of the client and of the server keeps it.
LEMMA StepInductive == Inductive /\ [Next]_vars => Inductive'
<1> SUFFICES ASSUME Inductive, [Next]_vars PROVE Inductive'
  OBVIOUS
<1>0. TypeOK /\ Position /\ Counting /\ Order /\ Stopping /\ Waited
  BY DEF Inductive
<1>1. Order' /\ QueueTypes'
  BY <1>0, OrderStep
<1>2. Counting' /\ inFlight' \in Nat
  BY <1>0, CountingStep
<1>3. Position' /\ packet' \in 1..Len(Packets) + 1 /\ chunk' \in Nat /\ demand' \in 0..1
  BY <1>0, PositionStep
<1>4. Stopping' /\ Waited'
  BY <1>0, StoppingStep, WaitedStep
<1>5. acked' \subseteq Ids
  BY <1>1 DEF Order, Sent
<1>6. TypeOK'
  BY <1>0, <1>1, <1>2, <1>3, <1>5, FlagTypes DEF TypeOK, QueueTypes, Places
<1> QED  BY <1>1, <1>2, <1>3, <1>4, <1>6 DEF Inductive

\* The tool never leaves the invariant.
THEOREM InductiveInvariant == Spec => []Inductive
BY InitInductive, StepInductive, PTL DEF Spec

\* Unless the wait was given up, every chunk of every packet has been acknowledged
\* when the sink deletes itself, and when the client is stopped.
THEOREM AllAcknowledged == Spec => []WaitsForAll
<1>1. Inductive => WaitsForAll
  <2> SUFFICES ASSUME Inductive, Deleted \/ client = "stopped", ~gaveUp PROVE acked = Ids
    BY DEF WaitsForAll
  <2>1. Deleted
    BY DEF Inductive, Stopping, Deleted
  <2>2. inFlight = 0 /\ packet > Len(Packets)
    BY <2>1 DEF Inductive, Waited, Position
  <2> QED  BY <2>2, NothingLeft, AllSent DEF Inductive
<1> QED  BY <1>1, InductiveInvariant, PTL

\* The server gets the chunks in the order of the stream, the stop is the last thing
\* the client is told, and nothing reaches the deleted sink or an unknown reader.
LEMMA InductiveIsSafe == Inductive => Safety
<1>1. Inductive => InOrder
  <2> SUFFICES ASSUME Inductive, NEW i \in 1..Len(server) - 1 PROVE Before(server[i], server[i + 1])
    BY DEF InOrder
  <2>1. PICK n \in Nat : n = Len(server)
    BY LenProperties DEF Inductive, TypeOK
  <2>2. i \in 1..n /\ i + 1 \in 1..n /\ i < i + 1
    BY <2>1
  <2>3. <<server[i], server[i + 1]>> \in Up
    BY <2>1, <2>2 DEF Inductive, Order, Sorted
  <2>4. server[i + 1] # Stop
    <3>1. server[i + 1] \in Ids
      BY <2>1, <2>2, ElementOfSeq DEF Inductive, TypeOK
    <3> QED  BY <3>1, IdParts
  <2> QED  BY <2>3, <2>4 DEF Up, Precedes
<1> QED
  BY <1>1 DEF Inductive, Safety, Stopping, StopIsLast, Waited, NoUseAfterDelete, ReaderIsKnown

\* So for every behaviour of the tool.
THEOREM Safe == Spec => []Safety
BY InductiveIsSafe, InductiveInvariant, PTL

-----------------------------------------------------------------------------
(* The viewer: the invariant.                                              *)

Told == [codec : 0..Streams, is : {"metadata"}]
Shown == [codec : 0..Streams, is : {"key", "delta"}]

ViewerTypes ==
  /\ V!TypeOK
  /\ outbox \in Seq(Told \cup Shown)
  /\ metadata = V!Off \/ metadata \in Seq(Told)
  /\ frames = V!Off \/ frames \in Seq(Shown)

\* No metadata between place j and place k of s, and what was published before place j.
Clear(s, j, k) == \A m \in j + 1..k : s[m].is # "metadata"
Earlier(j, u) == IF j = 0 THEN u ELSE 0

\* In no stretch of queue s, u frames of which went out already, more frames than the period
\* and one, and in the last one no more than one that the count a does not know of.
InTime(s, u, a) ==
  /\ \A j, k \in 0..Len(s) : j <= k /\ Clear(s, j, k) => (k - j) + Earlier(j, u) <= Period + 1
  /\ \A j \in 0..Len(s) : Clear(s, j, Len(s)) => (Len(s) - j) + Earlier(j, u) <= a + 1

Repeats == InTime(outbox, unheard, ago) /\ ago <= Period /\ element = stream

\* The last that a subscribed viewer has to hear, or has heard, are the newest metadata.
Newest ==
  metadata # V!Off /\ kept # 0 =>
    IF metadata = <<>> THEN codec = kept ELSE metadata[Len(metadata)].codec = kept

Undisturbed == steady => primed

\* The inductive invariant: what is to come on each of the channels decides.
ViewerInv == ViewerTypes /\ Repeats /\ Newest /\ Undisturbed

-----------------------------------------------------------------------------
(* The viewer: lemmas about the queue of repeat_if.                        *)

\* A frame that is not due (operator() of repeat_if, which counts it).
LEMMA FrameInTime ==
  ASSUME NEW s \in Seq(Told \cup Shown), NEW u \in Nat, NEW a \in Nat, NEW f \in Shown,
         InTime(s, u, a), a < Period
  PROVE  InTime(Append(s, f), u, a + 1)
<1>0. Period \in Nat
  BY BroadcastAssumption
<1>1. PICK n \in Nat : n = Len(s)
  BY LenProperties
<1>2. PICK t : t = Append(s, f)
  OBVIOUS
<1>3. Len(t) = n + 1 /\ \A m \in 1..n : t[m] = s[m]
  BY <1>1, <1>2, AppendProperties
<1>4. ASSUME NEW j \in 0..n + 1, NEW k \in 0..n + 1, j <= k, Clear(t, j, k), j \in 0..n
      PROVE  Clear(s, j, IF k = n + 1 THEN n ELSE k)
  <2> SUFFICES ASSUME NEW m \in j + 1..(IF k = n + 1 THEN n ELSE k) PROVE s[m].is # "metadata"
    BY DEF Clear
  <2>1. m \in 1..n /\ m \in j + 1..k
    BY <1>4
  <2> QED  BY <1>3, <1>4, <2>1 DEF Clear
<1>5. Earlier(0, u) = u /\ \A j \in 1..n + 1 : Earlier(j, u) = 0
  BY DEF Earlier
<1>6. \A j \in 0..n + 1 : Earlier(j, u) \in Nat
  BY DEF Earlier
<1>7. ASSUME NEW j \in 0..n, Clear(s, j, n) PROVE (n - j) + Earlier(j, u) <= a + 1
  BY <1>1, <1>7 DEF InTime
<1>8. ASSUME NEW j \in 0..n, NEW k \in 0..n, j <= k, Clear(s, j, k)
      PROVE  (k - j) + Earlier(j, u) <= Period + 1
  BY <1>1, <1>8 DEF InTime
<1>9. ASSUME NEW j \in 0..n + 1, NEW k \in 0..n + 1, j <= k, Clear(t, j, k)
      PROVE  /\ (k - j) + Earlier(j, u) <= Period + 1
             /\ k = n + 1 => (k - j) + Earlier(j, u) <= (a + 1) + 1
  <2>1. PICK b \in Nat : b = Earlier(j, u)
    BY <1>6
  <2>2. CASE j = n + 1
    <3>1. b = 0 /\ k = n + 1
      BY <1>5, <1>9, <2>1, <2>2
    <3> QED  BY <1>0, <2>1, <2>2, <3>1
  <2>3. CASE j \in 0..n /\ k \in 0..n
    <3>1. Clear(s, j, k)
      BY <1>4, <1>9, <2>3
    <3> QED  BY <1>8, <1>9, <2>3, <3>1
  <2>4. CASE j \in 0..n /\ k = n + 1
    <3>1. Clear(s, j, n)
      BY <1>4, <1>9, <2>4
    <3>2. (n - j) + b <= a + 1
      BY <1>7, <2>1, <2>4, <3>1
    <3> QED  BY <1>0, <2>1, <2>4, <3>2
  <2> QED  BY <2>2, <2>3, <2>4
<1>10. n + 1 \in 0..n + 1 /\ \A j \in 0..n + 1 : j <= n + 1
  BY <1>1
<1> QED  BY <1>2, <1>3, <1>9, <1>10 DEF InTime

\* Metadata and the frame behind them, when they are due.
LEMMA MetadataInTime ==
  ASSUME NEW s \in Seq(Told \cup Shown), NEW u \in Nat, NEW a \in Nat, NEW c \in Told, NEW f \in Shown,
         InTime(s, u, a)
  PROVE  InTime(s \o <<c, f>>, u, 0)
<1>0. Period \in Nat /\ c.is = "metadata"
  BY BroadcastAssumption DEF Told
<1>1. PICK n \in Nat : n = Len(s)
  BY LenProperties
<1>2. PICK t : t = s \o <<c, f>>
  OBVIOUS
<1>3. Len(t) = n + 2 /\ t[n + 1] = c /\ \A m \in 1..n : t[m] = s[m]
  <2>1. <<c, f>> \in Seq(Told \cup Shown) /\ Len(<<c, f>>) = 2 /\ <<c, f>>[1] = c
    OBVIOUS
  <2> QED  BY <1>1, <1>2, <2>1, ConcatProperties
<1>4. ASSUME NEW j \in 0..n, NEW k \in 0..n, j <= k, Clear(t, j, k)
      PROVE  Clear(s, j, k)
  <2> SUFFICES ASSUME NEW m \in j + 1..k PROVE s[m].is # "metadata"
    BY DEF Clear
  <2>1. m \in 1..n /\ m \in j + 1..k
    BY <1>4
  <2> QED  BY <1>3, <1>4, <2>1 DEF Clear
<1>5. \A j \in 1..n + 2 : Earlier(j, u) = 0
  BY DEF Earlier
<1>8. ASSUME NEW j \in 0..n, NEW k \in 0..n, j <= k, Clear(s, j, k)
      PROVE  (k - j) + Earlier(j, u) <= Period + 1
  BY <1>1, <1>8 DEF InTime
<1>9. ASSUME NEW j \in 0..n + 2, NEW k \in 0..n + 2, j <= k, Clear(t, j, k)
      PROVE  /\ (k - j) + Earlier(j, u) <= Period + 1
             /\ k = n + 2 => (k - j) + Earlier(j, u) <= 0 + 1
  <2>1. CASE j \in {n + 1, n + 2}
    <3>1. Earlier(j, u) = 0
      BY <1>5, <2>1
    <3> QED  BY <1>0, <1>9, <2>1, <3>1
  <2>2. CASE j \in 0..n /\ k \in 0..n
    <3>1. Clear(s, j, k)
      BY <1>4, <1>9, <2>2
    <3> QED  BY <1>8, <1>9, <2>2, <3>1
  <2>3. CASE j \in 0..n /\ k \in {n + 1, n + 2}
    <3>1. n + 1 \in j + 1..k
      BY <2>3
    <3> QED  BY <1>0, <1>3, <1>9, <3>1 DEF Clear
  <2> QED  BY <2>1, <2>2, <2>3
<1>10. n + 2 \in 0..n + 2 /\ \A j \in 0..n + 2 : j <= n + 2
  BY <1>1
<1> QED  BY <1>2, <1>3, <1>9, <1>10 DEF InTime

\* The first message is published: metadata start the count, a frame adds to it.
LEMMA PublishedInTime ==
  ASSUME NEW s \in Seq(Told \cup Shown), s # <<>>, NEW u \in Nat, NEW a \in Nat, InTime(s, u, a)
  PROVE  /\ Head(s).is = "metadata" => InTime(Tail(s), 0, a)
         /\ Head(s).is # "metadata" => u + 1 <= Period + 1 /\ InTime(Tail(s), u + 1, a)
<1>0. Period \in Nat
  BY BroadcastAssumption
<1>1. PICK n \in Nat : n = Len(s) /\ n > 0
  BY EmptySeq, LenProperties
<1>2. PICK t : t = Tail(s)
  OBVIOUS
<1>3. Head(s) = s[1] /\ Len(t) = n - 1 /\ \A m \in 1..n - 1 : t[m] = s[m + 1]
  BY <1>1, <1>2, HeadTailProperties
<1>4. ASSUME NEW j \in 0..n - 1, NEW k \in 0..n - 1, Clear(t, j, k)
      PROVE  Clear(s, j + 1, k + 1)
  <2> SUFFICES ASSUME NEW m \in (j + 1) + 1..k + 1 PROVE s[m].is # "metadata"
    BY DEF Clear
  <2>1. PICK i : i = m - 1 /\ i \in j + 1..k /\ i \in 1..n - 1 /\ i + 1 = m
    BY <1>4
  <2> QED  BY <1>3, <1>4, <2>1 DEF Clear
<1>5. Earlier(0, u) = u /\ Earlier(0, 0) = 0 /\ Earlier(0, u + 1) = u + 1
      /\ \A j \in 1..n : Earlier(j, u) = 0 /\ Earlier(j, u + 1) = 0 /\ Earlier(j, 0) = 0
  BY DEF Earlier
<1>7. ASSUME NEW j \in 0..n, Clear(s, j, n) PROVE (n - j) + Earlier(j, u) <= a + 1
  BY <1>1, <1>7 DEF InTime
<1>8. ASSUME NEW j \in 0..n, NEW k \in 0..n, j <= k, Clear(s, j, k)
      PROVE  (k - j) + Earlier(j, u) <= Period + 1
  BY <1>1, <1>8 DEF InTime
<1>9. ASSUME NEW j \in 0..n - 1, NEW k \in 0..n - 1, j <= k, Clear(t, j, k)
      PROVE  /\ k - j <= Period + 1
             /\ k = n - 1 => k - j <= a + 1
  <2>1. Clear(s, j + 1, k + 1)
    BY <1>4, <1>9
  <2>2. j + 1 \in 0..n /\ k + 1 \in 0..n /\ j + 1 <= k + 1 /\ j + 1 \in 1..n
    BY <1>1, <1>9
  <2>3. ((k + 1) - (j + 1)) + 0 <= Period + 1
    BY <1>5, <1>8, <2>1, <2>2
  <2>4. k = n - 1 => (n - (j + 1)) + 0 <= a + 1
    <3>1. k = n - 1 => k + 1 = n
      BY <1>1
    <3> QED  BY <1>5, <1>7, <2>1, <2>2, <3>1
  <2> QED  BY <1>0, <1>1, <1>9, <2>3, <2>4
<1>10. ASSUME s[1].is # "metadata", NEW k \in 0..n - 1, Clear(t, 0, k)
       PROVE  /\ k + (u + 1) <= Period + 1
              /\ k = n - 1 => k + (u + 1) <= a + 1
  <2>1. Clear(s, 0, k + 1)
    <3> SUFFICES ASSUME NEW m \in 0 + 1..k + 1 PROVE s[m].is # "metadata"
      BY DEF Clear
    <3>1. m = 1 \/ m \in (0 + 1) + 1..k + 1
      BY <1>1
    <3>2. Clear(s, 0 + 1, k + 1)
      BY <1>1, <1>4, <1>10
    <3> QED  BY <1>10, <3>1, <3>2 DEF Clear
  <2>2. 0 \in 0..n /\ k + 1 \in 0..n /\ 0 <= k + 1
    BY <1>1
  <2>3. ((k + 1) - 0) + u <= Period + 1
    BY <1>5, <1>8, <2>1, <2>2
  <2>4. k = n - 1 => (n - 0) + u <= a + 1
    <3>1. k = n - 1 => k + 1 = n
      BY <1>1
    <3> QED  BY <1>5, <1>7, <2>1, <2>2, <3>1
  <2> QED  BY <1>0, <1>1, <2>3, <2>4
<1>11. n - 1 \in 0..n - 1 /\ 0 \in 0..n - 1 /\ n - 1 \in Nat
  BY <1>1
<1>12. CASE s[1].is = "metadata"
  <2>1. ASSUME NEW j \in 0..n - 1 PROVE Earlier(j, 0) = 0
    BY DEF Earlier
  <2>2. ASSUME NEW j \in 0..n - 1, NEW k \in 0..n - 1, j <= k, Clear(t, j, k)
        PROVE  /\ (k - j) + Earlier(j, 0) <= Period + 1
               /\ k = n - 1 => (k - j) + Earlier(j, 0) <= a + 1
    BY <1>9, <2>1, <2>2
  <2>3. \A j \in 0..n - 1 : j <= n - 1
    BY <1>1
  <2>4. InTime(t, 0, a)
    BY <1>3, <1>11, <2>2, <2>3 DEF InTime
  <2> QED  BY <1>2, <1>3, <1>12, <2>4
<1>13. CASE s[1].is # "metadata"
  <2>1. Clear(t, 0, 0)
    BY DEF Clear
  <2>2. u + 1 <= Period + 1
    BY <1>10, <1>11, <1>13, <2>1
  <2>3. ASSUME NEW j \in 0..n - 1, NEW k \in 0..n - 1, j <= k, Clear(t, j, k)
        PROVE  /\ (k - j) + Earlier(j, u + 1) <= Period + 1
               /\ k = n - 1 => (k - j) + Earlier(j, u + 1) <= a + 1
    <3>1. CASE j = 0
      BY <1>5, <1>10, <1>13, <2>3, <3>1
    <3>2. CASE j # 0
      <4>1. Earlier(j, u + 1) = 0
        BY <1>1, <1>5, <3>2
      <4> QED  BY <1>9, <2>3, <4>1
    <3> QED  BY <3>1, <3>2
  <2>4. \A j \in 0..n - 1 : j <= n - 1
    BY <1>1
  <2>5. InTime(t, u + 1, a)
    BY <1>3, <1>11, <2>3, <2>4 DEF InTime
  <2> QED  BY <1>2, <1>3, <1>13, <2>2, <2>5
<1> QED  BY <1>12, <1>13

-----------------------------------------------------------------------------
(* The viewer: the steps.                                                  *)

LEMMA ViewerTypesStep == ViewerInv /\ V!Step => ViewerTypes'
<1> SUFFICES ASSUME ViewerInv, V!Step PROVE ViewerTypes'
  OBVIOUS
<1>0. /\ stream \in 0..Streams /\ element \in 0..Streams /\ element = stream /\ ago \in 0..Period + 1 /\ ago <= Period
      /\ nextKey \in 0..Group - 1 /\ unheard \in 0..Period + 2 /\ unheard <= Period + 1 /\ kept \in 0..Streams
      /\ codec \in 0..Streams /\ primed \in BOOLEAN /\ steady \in BOOLEAN /\ breaks \in 0..Breaks
      /\ outbox \in Seq(Told \cup Shown) /\ (metadata = V!Off \/ metadata \in Seq(Told))
      /\ (frames = V!Off \/ frames \in Seq(Shown))
      /\ Period \in Nat /\ Group \in Nat \ {0} /\ Streams \in Nat \ {0} /\ Breaks \in Nat
  <2>1. unheard <= Period + 1
    <3>1. Clear(outbox, 0, 0) /\ 0 \in 0..Len(outbox) /\ Earlier(0, unheard) = unheard
      BY LenProperties DEF Clear, Earlier, ViewerInv, ViewerTypes
    <3>2. (0 - 0) + Earlier(0, unheard) <= Period + 1
      BY <3>1 DEF InTime, ViewerInv, Repeats
    <3>3. unheard \in Nat
      BY BroadcastAssumption DEF ViewerInv, ViewerTypes, V!TypeOK
    <3> QED  BY <3>1, <3>2, <3>3
  <2> QED  BY <2>1, BroadcastAssumption DEF ViewerInv, ViewerTypes, V!TypeOK, Repeats
<1>1. CASE V!StartStream
  <2>1. stream' = stream + 1 /\ stream' \in 0..Streams /\ element' = stream' /\ ago' = 0 /\ nextKey' = 0
    BY <1>0, <1>1 DEF V!StartStream
  <2>2. outbox' = <<V!Metadata(stream')>> /\ V!Metadata(stream') \in Told
    BY <1>1, <2>1 DEF V!StartStream, V!Metadata, Told
  <2>3. UNCHANGED <<unheard, kept, metadata, frames, codec, primed, steady, breaks>>
    BY <1>1 DEF V!StartStream, V!DecoderVars
  <2>4. <<V!Metadata(stream')>> \in Seq(Told \cup Shown) /\ 0 \in 0..Group - 1 /\ 0 \in 0..Period + 1
    BY <1>0, <2>2
  <2> QED  BY <1>0, <2>1, <2>2, <2>3, <2>4, Zenon DEF ViewerTypes, V!TypeOK
<1>2. CASE V!SendFrame
  <2> DEFINE f == V!Frame(stream, nextKey = 0)
             c == V!Metadata(element)
  <2>1. f \in Shown /\ c \in Told
    BY <1>0 DEF V!Frame, V!Metadata, Shown, Told
  <2>2. outbox \o <<c, f>> \in Seq(Told \cup Shown) /\ Append(outbox, f) \in Seq(Told \cup Shown)
    <3>1. <<c, f>> \in Seq(Told \cup Shown)
      BY <2>1
    <3> QED  BY <1>0, <2>1, <3>1, ConcatProperties, AppendProperties
  <2>3. /\ stream > 0 /\ UNCHANGED <<stream, element, unheard, kept, metadata, frames, codec, primed, steady, breaks>>
        /\ nextKey' = IF nextKey = 0 THEN Group - 1 ELSE nextKey - 1
    BY <1>2 DEF V!SendFrame, V!DecoderVars
  <2>4. \/ V!Due /\ outbox' = outbox \o <<c, f>> /\ ago' = 0
        \/ ~V!Due /\ outbox' = Append(outbox, f) /\ ago' = ago + 1
    BY <1>2, Zenon DEF V!SendFrame, V!WithMetadata
  <2>5. outbox' \in Seq(Told \cup Shown)
    BY <2>2, <2>4, Zenon
  <2>6. ago' \in 0..Period + 1
    BY <1>0, <2>4
  <2>7. nextKey' \in 0..Group - 1
    BY <1>0, <2>3
  <2> QED  BY <1>0, <2>3, <2>5, <2>6, <2>7, Zenon DEF ViewerTypes, V!TypeOK
<1>3. CASE V!Publish
  <2>1. /\ outbox # <<>> /\ outbox' = Tail(outbox)
        /\ UNCHANGED <<stream, element, ago, nextKey, codec, primed, steady, breaks>>
    BY <1>3 DEF V!Publish, V!DecoderVars
  <2>2. PICK p : p = Head(outbox)
    OBVIOUS
  <2>3. outbox' \in Seq(Told \cup Shown) /\ p \in Told \cup Shown
    BY <1>0, <2>1, <2>2, HeadTailProperties
  <2>4. CASE p.is = "metadata"
    <3>1. unheard' = 0 /\ kept' = p.codec /\ metadata' = V!Sent(metadata, p) /\ frames' = frames
      BY <1>3, <2>2, <2>4 DEF V!Publish
    <3>2. p \in Told /\ p.codec \in 0..Streams
      BY <2>3, <2>4 DEF Told, Shown
    <3>3. metadata' = V!Off \/ metadata' \in Seq(Told)
      BY <1>0, <3>1, <3>2, AppendProperties DEF V!Sent
    <3>4. 0 \in 0..Period + 2
      BY <1>0
    <3> QED  BY <1>0, <2>1, <2>3, <3>1, <3>2, <3>3, <3>4, Zenon DEF ViewerTypes, V!TypeOK
  <2>5. CASE p.is # "metadata"
    <3>1. unheard' = V!Counted(unheard) /\ frames' = V!Sent(frames, p) /\ UNCHANGED <<kept, metadata>>
      BY <1>3, <2>2, <2>5 DEF V!Publish
    <3>2. p \in Shown
      BY <2>3, <2>5 DEF Told
    <3>3. frames' = V!Off \/ frames' \in Seq(Shown)
      BY <1>0, <3>1, <3>2, AppendProperties DEF V!Sent
    <3>4. unheard' \in 0..Period + 2
      BY <1>0, <3>1 DEF V!Counted
    <3> QED  BY <1>0, <2>1, <2>3, <3>1, <3>3, <3>4, Zenon DEF ViewerTypes, V!TypeOK
  <2> QED  BY <2>4, <2>5
<1>4. CASE V!Forget
  <2>1. 0 \in 0..Streams
    BY <1>0
  <2> QED  BY <1>0, <1>4, <2>1, Zenon DEF V!Forget, V!PublisherVars, V!DecoderVars, ViewerTypes, V!TypeOK
<1>5. CASE V!JoinMetadata \/ V!JoinFrames
  <2>1. /\ UNCHANGED <<stream, element, ago, nextKey, outbox, unheard, kept, codec, primed, steady, breaks>>
        /\ metadata' \in {metadata, V!History} /\ frames' \in {frames, <<>>}
    BY <1>5 DEF V!JoinMetadata, V!JoinFrames, V!PublisherVars, V!DecoderVars
  <2>2. V!History \in Seq(Told)
    <3>1. V!Metadata(kept) \in Told
      BY <1>0 DEF V!Metadata, Told
    <3> QED  BY <3>1, EmptySeq DEF V!History
  <2>3. <<>> \in Seq(Shown)
    BY EmptySeq
  <2> QED  BY <1>0, <2>1, <2>2, <2>3, Zenon DEF ViewerTypes, V!TypeOK
<1>6. CASE V!LoseConnection
  <2>1. /\ UNCHANGED <<stream, element, ago, nextKey, outbox, unheard, kept, codec, primed>>
        /\ metadata' = V!Off /\ frames' = V!Off /\ steady' = FALSE
    BY <1>6 DEF V!LoseConnection, V!PublisherVars
  <2>2. breaks' \in 0..Breaks
    BY <1>0, <1>6 DEF V!LoseConnection
  <2> QED  BY <1>0, <2>1, <2>2, Zenon DEF ViewerTypes, V!TypeOK
<1>7. CASE V!TakeMetadata
  <2>1. /\ metadata \in Seq(Told) /\ metadata # <<>> /\ metadata' = Tail(metadata)
        /\ UNCHANGED <<stream, element, ago, nextKey, outbox, unheard, kept, frames, breaks>>
    BY <1>0, <1>7 DEF V!TakeMetadata, V!PublisherVars
  <2>2. Head(metadata) \in Told /\ Tail(metadata) \in Seq(Told)
    BY <2>1, HeadTailProperties
  <2>3. Head(metadata).codec \in 0..Streams
    BY <2>2 DEF Told
  <2>4. codec' \in 0..Streams /\ primed' \in BOOLEAN /\ steady' \in BOOLEAN
    BY <1>0, <1>7, <2>3, Zenon DEF V!TakeMetadata, V!DecoderVars
  <2> QED  BY <1>0, <2>1, <2>2, <2>4, Zenon DEF ViewerTypes, V!TypeOK
<1>8. CASE V!TakeFrame
  <2>1. /\ frames \in Seq(Shown) /\ frames # <<>> /\ frames' = Tail(frames)
        /\ UNCHANGED <<stream, element, ago, nextKey, outbox, unheard, kept, metadata, breaks>>
    BY <1>0, <1>8 DEF V!TakeFrame, V!PublisherVars
  <2>2. Tail(frames) \in Seq(Shown)
    BY <2>1, HeadTailProperties
  <2>4. codec' \in 0..Streams /\ primed' \in BOOLEAN /\ steady' \in BOOLEAN
    BY <1>0, <1>8, Zenon DEF V!TakeFrame, V!DecoderVars
  <2> QED  BY <1>0, <2>1, <2>2, <2>4, Zenon DEF ViewerTypes, V!TypeOK
<1> QED  BY <1>1, <1>2, <1>3, <1>4, <1>5, <1>6, <1>7, <1>8 DEF V!Step

\* repeat_if counts the frames that it hands on, and no publish of metadata overtakes one.
LEMMA RepeatsStep == ViewerInv /\ V!Step => Repeats'
<1> SUFFICES ASSUME ViewerInv, V!Step PROVE Repeats'
  OBVIOUS
<1>0. /\ stream \in Nat /\ element = stream /\ ago \in Nat /\ ago <= Period /\ unheard \in Nat
      /\ outbox \in Seq(Told \cup Shown) /\ InTime(outbox, unheard, ago) /\ Period \in Nat
      /\ stream \in 0..Streams /\ unheard \in 0..Period + 2
  BY BroadcastAssumption DEF ViewerInv, ViewerTypes, V!TypeOK, Repeats
<1>1. CASE V!StartStream
  <2>1. /\ element' = stream' /\ ago' = 0 /\ outbox' = <<V!Metadata(stream')>> /\ unheard' = unheard
    BY <1>1 DEF V!StartStream
  <2> DEFINE c == V!Metadata(stream')
  <2>2. c.is = "metadata"
    BY DEF V!Metadata
  <2> HIDE DEF c
  <2>3. Clear(outbox, 0, 0) /\ 0 \in 0..Len(outbox) /\ Earlier(0, unheard) = unheard
    BY <1>0, LenProperties DEF Clear, Earlier
  <2>4. (0 - 0) + Earlier(0, unheard) <= Period + 1
    BY <1>0, <2>3 DEF InTime
  <2>5. ASSUME NEW j \in 0..1, NEW k \in 0..1, j <= k, Clear(<<c>>, j, k)
        PROVE  /\ (k - j) + Earlier(j, unheard) <= Period + 1
               /\ k = 1 => (k - j) + Earlier(j, unheard) <= 0 + 1
    <3>1. ~(j = 0 /\ k = 1)
      <4>1. 1 \in 0 + 1..1 /\ <<c>>[1] = c
        OBVIOUS
      <4> QED  BY <2>2, <2>5, <4>1 DEF Clear
    <3>2. CASE j = 0 /\ k = 0
      BY <1>0, <2>3, <2>4, <3>2
    <3>3. CASE j = 1 /\ k = 1
      BY <1>0, <3>3 DEF Earlier
    <3> QED  BY <2>5, <3>1, <3>2, <3>3
  <2>6. Len(<<c>>) = 1 /\ 1 \in 0..1 /\ \A j \in 0..1 : j <= 1
    OBVIOUS
  <2>7. InTime(<<c>>, unheard, 0)
    BY <2>5, <2>6 DEF InTime
  <2> QED  BY <1>0, <2>1, <2>7 DEF Repeats, c
<1>2. CASE V!SendFrame
  <2> DEFINE f == V!Frame(stream, nextKey = 0)
             c == V!Metadata(element)
  <2>1. f \in Shown /\ c \in Told
    BY <1>0 DEF V!Frame, V!Metadata, Shown, Told
  <2>3. stream > 0 /\ UNCHANGED <<stream, element, unheard>>
    BY <1>2 DEF V!SendFrame
  <2>4. \/ V!Due /\ outbox' = outbox \o <<c, f>> /\ ago' = 0
        \/ ~V!Due /\ outbox' = Append(outbox, f) /\ ago' = ago + 1
    BY <1>2, Zenon DEF V!SendFrame, V!WithMetadata
  <2>5. ~V!Due => ago < Period
    BY <1>0, <2>3 DEF V!Due
  <2> HIDE DEF f, c
  <2>6. CASE ~V!Due /\ outbox' = Append(outbox, f) /\ ago' = ago + 1
    <3>1. InTime(Append(outbox, f), unheard, ago + 1)
      BY <1>0, <2>1, <2>5, <2>6, FrameInTime
    <3>2. ago + 1 <= Period
      BY <1>0, <2>5, <2>6
    <3> QED  BY <1>0, <2>3, <2>6, <3>1, <3>2, Zenon DEF Repeats
  <2>7. CASE outbox' = outbox \o <<c, f>> /\ ago' = 0
    <3>1. InTime(outbox \o <<c, f>>, unheard, 0)
      BY <1>0, <2>1, MetadataInTime
    <3> QED  BY <1>0, <2>3, <2>7, <3>1 DEF Repeats
  <2> QED  BY <2>4, <2>6, <2>7
<1>3. CASE V!Publish
  <2>1. outbox # <<>> /\ outbox' = Tail(outbox) /\ UNCHANGED <<stream, element, ago>>
    BY <1>3 DEF V!Publish
  <2>2. /\ Head(outbox).is = "metadata" => InTime(Tail(outbox), 0, ago)
        /\ Head(outbox).is # "metadata" => unheard + 1 <= Period + 1 /\ InTime(Tail(outbox), unheard + 1, ago)
    BY <1>0, <2>1, PublishedInTime
  <2>3. IF Head(outbox).is = "metadata" THEN unheard' = 0 ELSE unheard' = V!Counted(unheard)
    BY <1>3 DEF V!Publish
  <2>4. unheard + 1 <= Period + 1 => V!Counted(unheard) = unheard + 1
    BY <1>0 DEF V!Counted
  <2> QED  BY <1>0, <2>1, <2>2, <2>3, <2>4, Zenon DEF Repeats
<1>4. CASE ~(V!StartStream \/ V!SendFrame \/ V!Publish)
  <2>1. UNCHANGED <<outbox, unheard, ago, element, stream>>
    BY <1>4 DEF V!Step, V!Forget, V!JoinMetadata, V!JoinFrames, V!LoseConnection, V!TakeMetadata,
       V!TakeFrame, V!PublisherVars
  <2> QED  BY <1>0, <2>1 DEF Repeats
<1> QED  BY <1>1, <1>2, <1>3, <1>4

\* The history comes with the subscription, and what is published later behind it.
LEMMA NewestStep == ViewerInv /\ V!Step => Newest'
<1> SUFFICES ASSUME ViewerInv, V!Step PROVE Newest'
  OBVIOUS
<1>0. /\ kept \in 0..Streams /\ codec \in 0..Streams
      /\ (metadata = V!Off \/ metadata \in Seq(Told)) /\ outbox \in Seq(Told \cup Shown)
  BY DEF ViewerInv, ViewerTypes, V!TypeOK
<1>1. Newest
  BY DEF ViewerInv
<1>2. CASE V!Publish
  <2>1. PICK p : p = Head(outbox)
    OBVIOUS
  <2>2. codec' = codec
    BY <1>2 DEF V!Publish, V!DecoderVars
  <2>3. CASE p.is = "metadata"
    <3>1. kept' = p.codec /\ metadata' = V!Sent(metadata, p)
      BY <1>2, <2>1, <2>3 DEF V!Publish
    <3>2. p \in Told
      <4>1. p \in Told \cup Shown
        BY <1>0, <1>2, <2>1, HeadTailProperties DEF V!Publish
      <4> QED  BY <2>3, <4>1 DEF Shown
    <3>3. CASE metadata = V!Off
      BY <3>1, <3>3 DEF V!Sent, Newest
    <3>4. CASE metadata # V!Off
      <4>1. metadata' = Append(metadata, p) /\ metadata \in Seq(Told)
        BY <1>0, <3>1, <3>4 DEF V!Sent
      <4>2. metadata' # <<>> /\ metadata'[Len(metadata')] = p
        BY <3>2, <4>1, AppendProperties
      <4> QED  BY <3>1, <4>2 DEF Newest
    <3> QED  BY <3>3, <3>4
  <2>4. CASE p.is # "metadata"
    BY <1>1, <1>2, <2>1, <2>2, <2>4 DEF V!Publish, Newest
  <2> QED  BY <2>3, <2>4
<1>3. CASE V!Forget
  BY <1>3 DEF V!Forget, Newest
<1>4. CASE V!JoinMetadata
  <2>1. metadata' = V!History /\ UNCHANGED <<kept, codec>>
    BY <1>4 DEF V!JoinMetadata, V!DecoderVars
  <2>2. CASE kept = 0
    BY <2>1, <2>2 DEF Newest
  <2>3. CASE kept # 0
    <3>1. metadata' = <<V!Metadata(kept)>>
      BY <2>1, <2>3 DEF V!History
    <3>2. metadata' # <<>> /\ metadata'[Len(metadata')].codec = kept
      BY <3>1 DEF V!Metadata
    <3> QED  BY <2>1, <3>2 DEF Newest
  <2> QED  BY <2>2, <2>3
<1>5. CASE V!LoseConnection
  BY <1>5 DEF V!LoseConnection, Newest
<1>6. CASE V!TakeMetadata
  <2>1. metadata \in Seq(Told) /\ metadata # <<>> /\ metadata # V!Off /\ metadata' = Tail(metadata) /\ kept' = kept
    BY <1>0, <1>6 DEF V!TakeMetadata
  <2>2. codec' = Head(metadata).codec
    BY <1>6 DEF V!TakeMetadata, V!SameMetadata, V!DecoderVars
  <2>3. PICK n \in Nat : n = Len(metadata) /\ n > 0
    BY <2>1, EmptySeq, LenProperties
  <2>4. PICK t \in Seq(Told) : t = Tail(metadata)
    BY <2>1, HeadTailProperties
  <2>5. Head(metadata) = metadata[1] /\ Len(t) = n - 1 /\ \A m \in 1..n - 1 : t[m] = metadata[m + 1]
    BY <2>1, <2>3, <2>4, HeadTailProperties
  <2>6. CASE n = 1
    <3>1. t = <<>>
      BY <2>4, <2>5, <2>6, EmptySeq
    <3>2. kept # 0 => codec' = kept
      BY <1>1, <2>1, <2>2, <2>3, <2>5, <2>6 DEF Newest
    <3> QED  BY <2>1, <2>4, <3>1, <3>2 DEF Newest
  <2>7. CASE n # 1
    <3>1. n - 1 \in 1..n - 1 /\ (n - 1) + 1 = n
      BY <2>3, <2>7
    <3>2. t # <<>> /\ t[n - 1] = metadata[n]
      <4>1. t[n - 1] = metadata[(n - 1) + 1]
        BY <2>5, <3>1
      <4>2. Len(t) # 0
        BY <2>3, <2>5, <2>7
      <4> QED  BY <2>4, <3>1, <4>1, <4>2, EmptySeq
    <3> QED  BY <1>1, <2>1, <2>3, <2>4, <2>5, <3>2 DEF Newest
  <2> QED  BY <2>6, <2>7
<1>7. CASE V!StartStream \/ V!SendFrame \/ V!JoinFrames \/ V!TakeFrame
  <2>1. UNCHANGED <<metadata, kept, codec>>
    BY <1>7 DEF V!StartStream, V!SendFrame, V!JoinFrames, V!TakeFrame, V!DecoderVars
  <2> QED  BY <1>1, <2>1 DEF Newest
<1> QED  BY <1>2, <1>3, <1>4, <1>5, <1>6, <1>7 DEF V!Step

\* A picture goes on only from a key frame.
LEMMA UndisturbedStep == ViewerInv /\ V!Step => Undisturbed'
<1> SUFFICES ASSUME ViewerInv, V!Step PROVE Undisturbed'
  OBVIOUS
<1>1. steady => primed
  BY DEF ViewerInv, Undisturbed
<1>2. CASE V!TakeMetadata
  BY <1>1, <1>2, Zenon DEF V!TakeMetadata, V!SameMetadata, V!DecoderVars, Undisturbed
<1>3. CASE V!TakeFrame
  BY <1>1, <1>3, Zenon DEF V!TakeFrame, V!DecoderVars, Undisturbed
<1>4. CASE V!LoseConnection
  BY <1>4 DEF V!LoseConnection, Undisturbed
<1>5. CASE V!StartStream \/ V!SendFrame \/ V!Publish \/ V!Forget \/ V!JoinMetadata \/ V!JoinFrames
  BY <1>1, <1>5 DEF V!StartStream, V!SendFrame, V!Publish, V!Forget, V!JoinMetadata, V!JoinFrames,
     V!DecoderVars, Undisturbed
<1> QED  BY <1>2, <1>3, <1>4, <1>5 DEF V!Step

\* Before the first stream nobody has anything.
LEMMA ViewerInit == V!Init => ViewerInv
<1> SUFFICES ASSUME V!Init PROVE ViewerInv
  OBVIOUS
<1>1. /\ stream = 0 /\ element = 0 /\ ago = 0 /\ nextKey = 0 /\ outbox = <<>> /\ unheard = 0
      /\ kept = 0 /\ metadata = V!Off /\ frames = V!Off
      /\ codec = 0 /\ primed = FALSE /\ steady = FALSE /\ breaks = 0
  BY DEF V!Init
<1>2. 0 \in 0..Streams /\ 0 \in 0..Period + 1 /\ 0 \in 0..Group - 1 /\ 0 \in 0..Period + 2 /\ 0 \in 0..Breaks
  BY BroadcastAssumption
<1>3. <<>> \in Seq(Told \cup Shown) /\ Len(<<>>) = 0
  BY EmptySeq
<1>4. ViewerTypes
  BY <1>1, <1>2, <1>3, Zenon DEF ViewerTypes, V!TypeOK
<1>5. InTime(<<>>, 0, 0)
  BY <1>3, BroadcastAssumption DEF InTime, Earlier
<1>6. Repeats
  BY <1>1, <1>5, BroadcastAssumption DEF Repeats
<1> QED  BY <1>1, <1>4, <1>6 DEF ViewerInv, Newest, Undisturbed

-----------------------------------------------------------------------------
(* Both ends.                                                              *)

\* What the service and the viewer are owed.
LEMMA ViewerIsSafe == ViewerInv => V!Safety
<1> SUFFICES ASSUME ViewerInv PROVE V!Safety
  OBVIOUS
<1>1. V!RepeatedInTime
  <2>1. Clear(outbox, 0, 0) /\ 0 \in 0..Len(outbox) /\ Earlier(0, unheard) = unheard
    BY LenProperties DEF Clear, Earlier, ViewerInv, ViewerTypes
  <2>2. (0 - 0) + Earlier(0, unheard) <= Period + 1
    BY <2>1 DEF InTime, ViewerInv, Repeats
  <2>3. unheard \in Nat
    BY BroadcastAssumption DEF ViewerInv, ViewerTypes, V!TypeOK
  <2> QED  BY <2>1, <2>2, <2>3 DEF V!RepeatedInTime
<1>2. V!KnowsTheNewest
  <2>1. metadata = <<>> => metadata # V!Off
    BY DEF V!Off
  <2> QED  BY <2>1 DEF ViewerInv, Newest, V!KnowsTheNewest
<1> QED
  BY <1>1, <1>2 DEF V!Safety, ViewerInv, ViewerTypes, Undisturbed, V!RepeatsDoNotDisturb

\* Either end keeps both invariants.
THEOREM BothEnds == BroadcastSpec => [](Inductive /\ ViewerInv)
<1>1. BroadcastInit => Inductive /\ ViewerInv
  BY InitInductive, ViewerInit DEF BroadcastInit
<1>2. Inductive /\ ViewerInv /\ [BroadcastNext]_broadcastVars => Inductive' /\ ViewerInv'
  <2> SUFFICES ASSUME Inductive, ViewerInv, [BroadcastNext]_broadcastVars PROVE Inductive' /\ ViewerInv'
    OBVIOUS
  <2>1. CASE UNCHANGED viewerVars /\ [Next]_vars
    <3>1. ViewerInv'
      BY <2>1 DEF viewerVars, ViewerInv, ViewerTypes, V!TypeOK, Repeats, Newest, Undisturbed
    <3> QED  BY <2>1, <3>1, StepInductive
  <2>2. CASE V!Step /\ UNCHANGED vars
    BY <2>2, StepInductive, ViewerTypesStep, RepeatsStep, NewestStep, UndisturbedStep DEF ViewerInv
  <2> QED  BY <2>1, <2>2 DEF BroadcastNext, PublisherSide, ViewerSide, broadcastVars
<1> QED  BY <1>1, <1>2, PTL DEF BroadcastSpec

\* What the server gets is in order and complete, and the viewer hears of the newest stream, in
\* time, and not by losing its picture.
THEOREM BroadcastIsSafe == BroadcastSpec => []BroadcastSafety
<1>1. Inductive /\ ViewerInv => BroadcastSafety
  BY InductiveIsSafe, ViewerIsSafe DEF BroadcastSafety
<1> QED  BY <1>1, BothEnds, PTL

-----------------------------------------------------------------------------
(* The chunks of a frame on their way: FrameChunks for every frame size,   *)
(* chunk size, width of _chunk and number of lost chunks.                  *)

Piece == Nat \X Nat
DataOf(pub, id) == Data(id, pub[id])
ChunksOf(pub, id) == Chunks(pub[id])
ChunkAt(pub, id, c) ==
  [id |-> id, chunk |-> c, chunks |-> ChunksOf(pub, id),
   data |-> ChunkData(DataOf(pub, id), c)]
Intact(pub, d) == d.id \in 1..Len(pub) /\ d.data = DataOf(pub, d.id)

\* the place of a chunk: its frame and its number
PlaceOf(nf) == <<nf.id, nf.chunk>>
Cut(pub, p) == p[1] \in 1..Len(pub) /\ p[2] \in 1..ChunksOf(pub, p[1])
Missing(pub, ch, b, p) ==
  Cut(pub, p) /\ Before(b, p) /\ \A i \in 1..Len(ch) : PlaceOf(ch[i]) # p

Kinds ==
  /\ published \in Seq(Sizes) /\ Len(published) <= Frames /\ lost \in 0..MaxLost
  /\ expected \in 0..ByteRange - 1 /\ current \in 0..Len(published)
  /\ channel \in Seq([id : Nat, chunk : Nat, chunks : Nat, data : Seq(Piece)])
  /\ aggregated \in Seq(Piece) /\ delivered \in Seq([id : Nat, data : Seq(Piece)])

\* Chunks of the frames published, in the order they were cut, all behind place b.
Queued(b) ==
  /\ b[1] <= Len(published)
  /\ \A i \in 1..Len(channel) :
       /\ Cut(published, PlaceOf(channel[i])) /\ channel[i] = ChunkAt(published, channel[i].id, channel[i].chunk)
       /\ Before(b, PlaceOf(channel[i]))
  /\ \A i, j \in 1..Len(channel) : i < j => Before(PlaceOf(channel[i]), PlaceOf(channel[j]))

\* b is the last place taken; a frame that was begun is behind all that are delivered.
Taken(b) ==
  /\ \A k \in 1..Len(delivered) : delivered[k].id <= b[1]
  /\ FramesInOrder
  /\ expected > 1 => current <= b[1] /\ \A k \in 1..Len(delivered) : delivered[k].id < current

\* With one chunk lost at most, no two behind b are missing, and what was gathered
\* is the beginning, up to b, of the frame that b is in.
Whole(b) ==
  /\ lost = 0 => \A p \in Piece : ~Missing(published, channel, b, p)
  /\ \A p, q \in Piece : Missing(published, channel, b, p) /\ Missing(published, channel, b, q) => p = q
  /\ expected = 1 => aggregated = <<>>
  /\ expected > 1 =>
       /\ b = <<current, expected - 1>> /\ Cut(published, b) /\ expected <= ChunksOf(published, current)
       /\ aggregated = SubSeq(DataOf(published, current), 1, (expected - 1) * ChunkSize)
  /\ \A k \in 1..Len(delivered) : Intact(published, delivered[k])

Place == Nat \X (Nat \ {0})
Follows(b) == Queued(b) /\ Taken(b) /\ (lost < 2 => Whole(b))
Carried == Kinds /\ \E b \in Place : Follows(b)

\* Multiplication keeps the order.
LEMMA TimesUp ==
  ASSUME NEW a \in Nat, NEW c \in Nat, a <= c, NEW d \in Nat
  PROVE  a * d <= c * d /\ a * d \in Nat /\ c * d \in Nat
<1>1. PICK e \in Nat : c = a + e
  <2>1. c - a \in Nat /\ c = a + (c - a)  BY SMT
  <2> QED  BY <2>1
<1>2. c * d = a * d + e * d  BY <1>1, SMT
<1>3. e * d \in Nat /\ a * d \in Nat /\ c * d \in Nat  BY <1>1, SMT
<1> QED  BY <1>2, <1>3, SMT

\* Where chunk i of a frame begins and ends (encoded_frame::to_network).
LEMMA ChunkEdges ==
  ASSUME NEW size \in Nat, NEW i \in 1..Chunks(size)
  PROVE  /\ Chunks(size) \in Nat /\ i \in Nat \ {0}
         /\ (i - 1) * ChunkSize \in Nat /\ i * ChunkSize \in Nat
         /\ (i - 1) * ChunkSize < size /\ (i - 1) * ChunkSize < i * ChunkSize
         /\ i < Chunks(size) => i * ChunkSize < size
         /\ i = Chunks(size) => size <= i * ChunkSize
<1> DEFINE n == Chunks(size)
           a == size + ChunkSize - 1
<1>1. ChunkSize \in Nat \ {0}  BY ChunksAssumption
<1>2. a \in Nat  BY <1>1, SMT
<1>3. n \in Nat /\ n * ChunkSize <= a /\ a < (n + 1) * ChunkSize
  <2>1. n = a \div ChunkSize  BY DEF Chunks
  <2> HIDE DEF a, n
  <2> QED  BY <2>1, <1>1, <1>2, SMT
<1>4. i \in Nat \ {0} /\ i <= n
  <2>1. i \in 1..n  OBVIOUS
  <2> HIDE DEF n
  <2> QED  BY <2>1, <1>3, SMT
<1> HIDE DEF n
<1>5. i * ChunkSize <= n * ChunkSize /\ i * ChunkSize \in Nat
  BY <1>1, <1>3, <1>4, TimesUp
<1>6. (i - 1) * ChunkSize = i * ChunkSize - ChunkSize  BY <1>1, <1>4, SMT
<1>7. i < n => (i + 1) * ChunkSize <= n * ChunkSize
  <2>1. HAVE i < n
  <2>2. i + 1 \in Nat /\ i + 1 <= n  BY <2>1, <1>3, <1>4, SMT
  <2> QED  BY <2>2, <1>1, <1>3, TimesUp
<1>8. (i + 1) * ChunkSize = i * ChunkSize + ChunkSize  BY <1>1, <1>4, SMT
<1>9. (i - 1) * ChunkSize \in Nat
  <2>1. i - 1 \in Nat  BY <1>4, SMT
  <2> QED  BY <2>1, <1>1, SMT
<1>10. i = n => (n + 1) * ChunkSize = i * ChunkSize + ChunkSize  BY <1>8
<1>11. n * ChunkSize \in Nat /\ (n + 1) * ChunkSize \in Nat /\ (i + 1) * ChunkSize \in Nat
  BY <1>1, <1>3, <1>4, SMT
<1> DEFINE x == i * ChunkSize
           y == (i - 1) * ChunkSize
           z == n * ChunkSize
           u == (n + 1) * ChunkSize
           v == (i + 1) * ChunkSize
<1>12. /\ x \in Nat /\ y \in Nat /\ z \in Nat /\ u \in Nat /\ v \in Nat
       /\ x <= z /\ y = x - ChunkSize /\ (i < n => v <= z) /\ v = x + ChunkSize
       /\ (i = n => u = x + ChunkSize) /\ z <= a /\ a < u
  BY <1>3, <1>5, <1>6, <1>7, <1>8, <1>9, <1>10, <1>11
<1> HIDE DEF x, y, z, u, v
<1>13. y < size /\ y < x /\ (i < n => x < size) /\ (i = n => size <= x)
  BY <1>12, <1>1, SMT
<1> QED  BY <1>3, <1>4, <1>5, <1>9, <1>13 DEF x, y, n

\* A frame's data.
LEMMA DataKind ==
  ASSUME NEW id \in Nat, NEW size \in Nat
  PROVE  Data(id, size) \in Seq(Piece) /\ Len(Data(id, size)) = size
BY SMT DEF Data, Piece

\* Chunk i put behind the chunks before it: the data up to its end.
LEMMA ChunkGrows ==
  ASSUME NEW id \in Nat, NEW size \in Nat, NEW i \in 1..Chunks(size)
  PROVE  /\ ChunkData(Data(id, size), i) \in Seq(Piece)
         /\ SubSeq(Data(id, size), 1, (i - 1) * ChunkSize) \o ChunkData(Data(id, size), i)
              = IF i = Chunks(size) THEN Data(id, size)
                ELSE SubSeq(Data(id, size), 1, i * ChunkSize)
<1> DEFINE d == Data(id, size)
           x == i * ChunkSize
           y == (i - 1) * ChunkSize
           e == IF x < size THEN x ELSE size
<1>1. d \in Seq(Piece) /\ Len(d) = size  BY DataKind
<1>2. /\ x \in Nat /\ y \in Nat /\ y < size /\ y < x
      /\ i < Chunks(size) => x < size
      /\ i = Chunks(size) => size <= x
      /\ Chunks(size) \in Nat /\ i \in Nat
  BY ChunkEdges
<1>3. i = Chunks(size) \/ i < Chunks(size)  BY <1>2, SMT
<1>4. ChunkData(d, i) = SubSeq(d, y + 1, e)  BY <1>1 DEF ChunkData
<1> HIDE DEF d, x, y
<1>5. e \in Nat /\ y <= e /\ e <= size /\ y + 1 \in 1..size + 1 /\ e \in y..size
  BY <1>2, SMT
<1>6. SubSeq(d, 1, y) \o SubSeq(d, y + 1, e) = SubSeq(d, 1, e)
  <2>1. 1 \in 1..Len(d) + 1 /\ y \in 1 - 1..Len(d) /\ e \in y..Len(d)  BY <1>1, <1>2, <1>5, SMT
  <2> HIDE DEF e
  <2> QED  BY <2>1, <1>1, ConcatAdjacentSubSeq
<1>7. e = IF i = Chunks(size) THEN size ELSE x
  BY <1>2, <1>3, SMT
<1>8. SubSeq(d, 1, size) = d  BY <1>1, SubSeqFull
<1>9. SubSeq(d, y + 1, e) \in Seq(Piece)
  <2>1. \A k \in y + 1..e : d[k] \in Piece
    <3>1. TAKE k \in y + 1..e
    <3>2. k \in 1..Len(d)  BY <1>1, <1>2, <1>5, SMT
    <3> QED  BY <3>2, <1>1
  <2>2. y + 1 \in Int /\ e \in Int  BY <1>2, <1>5, SMT
  <2> HIDE DEF e
  <2> QED  BY <2>1, <2>2, SubSeqProperties
<1> HIDE DEF e
<1>10. ChunkData(d, i) \in Seq(Piece)  BY <1>4, <1>9
<1>11. SubSeq(d, 1, y) \o ChunkData(d, i) = IF i = Chunks(size) THEN d ELSE SubSeq(d, 1, x)
  BY <1>4, <1>6, <1>7, <1>8
<1> QED  BY <1>10, <1>11 DEF d, x, y

\* What place b and the channel say of one chunk.
LEMMA QueuedChunk ==
  ASSUME Kinds, NEW b \in Place, Queued(b), NEW i \in 1..Len(channel)
  PROVE  /\ channel[i].id \in 1..Len(published) /\ published[channel[i].id] \in Nat
         /\ channel[i].chunk \in 1..ChunksOf(published, channel[i].id)
         /\ channel[i] = ChunkAt(published, channel[i].id, channel[i].chunk)
         /\ channel[i].chunks = ChunksOf(published, channel[i].id)
         /\ channel[i].data = ChunkData(DataOf(published, channel[i].id), channel[i].chunk)
         /\ channel[i].id \in Nat /\ channel[i].chunk \in Nat \ {0}
         /\ b[1] \in Nat /\ b[2] \in Nat \ {0}
         /\ Before(b, PlaceOf(channel[i]))
         /\ Before(b, PlaceOf(channel[i])) <=>
              b[1] < channel[i].id \/ (b[1] = channel[i].id /\ b[2] < channel[i].chunk)
<1>1. Cut(published, PlaceOf(channel[i])) /\ channel[i] = ChunkAt(published, channel[i].id, channel[i].chunk)
      /\ Before(b, PlaceOf(channel[i]))
  BY DEF Queued
<1>2. PlaceOf(channel[i])[1] = channel[i].id /\ PlaceOf(channel[i])[2] = channel[i].chunk
  BY DEF PlaceOf
<1>3. channel[i].id \in 1..Len(published) /\ channel[i].chunk \in 1..ChunksOf(published, channel[i].id)
  BY <1>1, <1>2 DEF Cut
<1>4. published \in Seq(Sizes) /\ Sizes \subseteq Nat  BY ChunksAssumption DEF Kinds
<1>5. published[channel[i].id] \in Nat
  <2>1. published[channel[i].id] \in Sizes  BY <1>3, <1>4, ElementOfSeq
  <2> QED  BY <2>1, <1>4
<1>6. channel[i].id \in Nat  BY <1>3, <1>4, SMT
<1>7. channel[i].chunk \in Nat \ {0}
  BY <1>3, <1>5, ChunkEdges DEF ChunksOf
<1>8. channel[i].chunks = ChunksOf(published, channel[i].id)
      /\ channel[i].data = ChunkData(DataOf(published, channel[i].id), channel[i].chunk)
  <2> DEFINE id == channel[i].id
             c == channel[i].chunk
  <2>1. channel[i] = ChunkAt(published, id, c)  BY <1>1
  <2> HIDE DEF id, c
  <2>2. channel[i].chunks = ChunksOf(published, id) /\ channel[i].data = ChunkData(DataOf(published, id), c)
    BY <2>1 DEF ChunkAt
  <2> QED  BY <2>2 DEF id, c
<1>9. b[1] \in Nat /\ b[2] \in Nat \ {0}  BY DEF Place
<1>10. Before(b, PlaceOf(channel[i])) <=>
         b[1] < channel[i].id \/ (b[1] = channel[i].id /\ b[2] < channel[i].chunk)
  BY <1>2 DEF Before
<1> QED  BY <1>1, <1>3, <1>5, <1>6, <1>7, <1>8, <1>9, <1>10

\* The program starts with nothing under way.
LEMMA NothingCarried ==
  ASSUME ChunksInit
  PROVE  Carried
<1> DEFINE b == <<0, 1>>
<1> USE DEF ChunksInit
<1>1. Kinds
  <2>1. \A S : <<>> \in Seq(S)  BY EmptySeq
  <2>2. expected \in 0..ByteRange - 1 /\ lost \in 0..MaxLost /\ current \in 0..Len(published)
        /\ Len(published) <= Frames
    BY ChunksAssumption, SMT
  <2> QED  BY <2>1, <2>2 DEF Kinds
<1>2. Queued(b)  BY SMT DEF Queued, Cut, PlaceOf
<1>3. Taken(b)  BY SMT DEF Taken, FramesInOrder
<1>4. Whole(b)
  <2>1. \A p \in Piece : ~Missing(published, channel, b, p)  BY SMT DEF Missing, Cut
  <2> QED  BY <2>1, SMT DEF Whole
<1>5. b \in Place  BY SMT DEF Place
<1> QED  BY <1>1, <1>2, <1>3, <1>4, <1>5 DEF Carried, Follows

\* What was said of a frame stays when another one is published.
LEMMA FramesStay ==
  ASSUME Kinds, NEW size \in Sizes, published' = Append(published, size)
  PROVE  /\ Len(published) \in Nat /\ Len(published') = Len(published) + 1
         /\ published'[Len(published) + 1] = size /\ size \in Nat
         /\ published' \in Seq(Sizes)
         /\ \A id \in 1..Len(published) :
              /\ id \in 1..Len(published') /\ published'[id] = published[id]
              /\ DataOf(published', id) = DataOf(published, id) /\ ChunksOf(published', id) = ChunksOf(published, id)
<1>1. published \in Seq(Sizes) /\ Sizes \subseteq Nat  BY ChunksAssumption DEF Kinds
<1>2. /\ published' \in Seq(Sizes) /\ Len(published') = Len(published) + 1
      /\ \A id \in 1..Len(published) : published'[id] = published[id]
      /\ published'[Len(published) + 1] = size
  BY <1>1, AppendProperties
<1>3. Len(published) \in Nat  BY <1>1
<1>4. ASSUME NEW id \in 1..Len(published)
      PROVE  /\ id \in 1..Len(published') /\ published'[id] = published[id]
             /\ DataOf(published', id) = DataOf(published, id) /\ ChunksOf(published', id) = ChunksOf(published, id)
  <2>1. published'[id] = published[id]  BY <1>2
  <2>2. id \in 1..Len(published')  BY <1>2, <1>3, SMT
  <2> QED  BY <2>1, <2>2 DEF DataOf, ChunksOf
<1> QED  BY <1>1, <1>2, <1>3, <1>4

\* What encoded_frame::to_network makes of a frame.
LEMMA CutInChunks ==
  ASSUME NEW id \in Nat, NEW size \in Nat
  PROVE  /\ Chunks(size) \in Nat /\ Len(ToNetwork(id, size)) = Chunks(size)
         /\ ToNetwork(id, size) \in Seq([id : Nat, chunk : Nat, chunks : Nat, data : Seq(Piece)])
         /\ \A i \in 1..Chunks(size) :
              ToNetwork(id, size)[i] =
                [id |-> id, chunk |-> i, chunks |-> Chunks(size),
                 data |-> ChunkData(Data(id, size), i)]
<1> DEFINE n == Chunks(size)
           R == [id : Nat, chunk : Nat, chunks : Nat, data : Seq(Piece)]
           r(i) == [id |-> id, chunk |-> i, chunks |-> n,
                    data |-> ChunkData(Data(id, size), i)]
<1>1. n \in Nat
  <2>1. n = (size + ChunkSize - 1) \div ChunkSize  BY DEF Chunks
  <2>2. ChunkSize \in Nat \ {0}  BY ChunksAssumption
  <2> HIDE DEF n
  <2>3. size + ChunkSize - 1 \in Nat  BY <2>2, SMT
  <2> QED  BY <2>1, <2>2, <2>3, SMT
<1>2. ToNetwork(id, size) = [i \in 1..n |-> r(i)]  BY DEF ToNetwork
<1>3. \A i \in 1..n : ChunkData(Data(id, size), i) \in Seq(Piece)
  BY ChunkGrows
<1> HIDE DEF n
<1>4. \A i \in 1..n : r(i) \in R
  <2>1. TAKE i \in 1..n
  <2>2. i \in Nat /\ n \in Nat  BY <1>1, SMT
  <2>3. ChunkData(Data(id, size), i) \in Seq(Piece)  BY <1>3
  <2> QED  BY <2>2, <2>3
<1>5. [i \in 1..n |-> r(i)] \in Seq(R)
  <2> HIDE DEF r, R
  <2> QED  BY <1>1, <1>4, SMT
<1>6. Len([i \in 1..n |-> r(i)]) = n
  <2> HIDE DEF r
  <2> QED  BY <1>1, SMT
<1> QED  BY <1>1, <1>2, <1>5, <1>6 DEF n

\* A frame is cut, and its chunks are put behind the others.
LEMMA PublishCarries ==
  ASSUME Kinds, NEW b \in Place, Follows(b), NEW size \in Sizes, PublishFrame(size)
  PROVE  Kinds' /\ Follows(b)'
<1> DEFINE R == [id : Nat, chunk : Nat, chunks : Nat, data : Seq(Piece)]
           l == Len(published)
           m == Len(channel)
           n == Chunks(size)
           N == ToNetwork(l + 1, size)
<1>1. /\ published' = Append(published, size) /\ channel' = channel \o N /\ l < Frames
      /\ UNCHANGED <<expected, current, aggregated, received, delivered, lost>>
  BY DEF PublishFrame
<1>2. /\ l \in Nat /\ Len(published') = l + 1 /\ published'[l + 1] = size /\ size \in Nat
      /\ published' \in Seq(Sizes)
      /\ \A id \in 1..l :
           /\ id \in 1..Len(published') /\ published'[id] = published[id]
           /\ DataOf(published', id) = DataOf(published, id) /\ ChunksOf(published', id) = ChunksOf(published, id)
  BY <1>1, FramesStay
<1>3. /\ n \in Nat /\ Len(N) = n /\ N \in Seq(R)
      /\ \A i \in 1..n :
           N[i] = [id |-> l + 1, chunk |-> i, chunks |-> n,
                   data |-> ChunkData(Data(l + 1, size), i)]
  <2>1. l + 1 \in Nat  BY <1>2, SMT
  <2> QED  BY <2>1, <1>2, CutInChunks
<1>4. channel \in Seq(R)  BY DEF Kinds
<1> HIDE DEF R, N
<1>5. /\ m \in Nat /\ channel' \in Seq(R) /\ Len(channel') = m + n
      /\ \A i \in 1..m + n : channel'[i] = IF i <= m THEN channel[i] ELSE N[i - m]
  <2>1. /\ channel \o N \in Seq(R) /\ Len(channel \o N) = Len(channel) + Len(N)
        /\ \A i \in 1..Len(channel) + Len(N) :
             (channel \o N)[i] = IF i <= Len(channel) THEN channel[i] ELSE N[i - Len(channel)]
    BY <1>3, <1>4, ConcatProperties
  <2>2. m \in Nat  BY <1>4
  <2> QED  BY <2>1, <2>2, <1>1, <1>3, Zenon
<1>6. ChunksOf(published', l + 1) = n /\ DataOf(published', l + 1) = Data(l + 1, size)
  BY <1>2 DEF ChunksOf, DataOf
<1> HIDE DEF l, m, n
<1>7. \A i \in 1..m : i \in 1..Len(channel') /\ channel'[i] = channel[i]
  BY <1>3, <1>5, SMT
<1>8. \A j \in 1..n : m + j \in 1..Len(channel') /\ channel'[m + j] = N[j]
  BY <1>3, <1>5, SMT
<1>9. \A i \in 1..Len(channel') : i \in 1..m \/ \E j \in 1..n : i = m + j
  <2>1. TAKE i \in 1..Len(channel')
  <2>2. i \in 1..m \/ (i - m \in 1..n /\ i = m + (i - m))  BY <1>3, <1>5, SMT
  <2> QED  BY <2>2
<1>10. \A j \in 1..n : /\ PlaceOf(channel'[m + j]) = <<l + 1, j>>
                       /\ channel'[m + j].id = l + 1 /\ channel'[m + j].chunk = j
                       /\ channel'[m + j] = ChunkAt(published', l + 1, j)
  <2>1. TAKE j \in 1..n
  <2>2. channel'[m + j] = [id |-> l + 1, chunk |-> j, chunks |-> n,
                           data |-> ChunkData(Data(l + 1, size), j)]
    BY <1>3, <1>8
  <2>3. channel'[m + j] = ChunkAt(published', l + 1, j)
    BY <2>2, <1>6 DEF ChunkAt
  <2> QED  BY <2>2, <2>3 DEF PlaceOf
<1>11. Kinds'
  <2>1. /\ lost' = lost /\ expected' = expected /\ current' = current
        /\ aggregated' = aggregated /\ delivered' = delivered
    BY <1>1
  <2>2. /\ lost \in 0..MaxLost /\ expected \in 0..ByteRange - 1 /\ current \in 0..l
        /\ aggregated \in Seq(Piece) /\ delivered \in Seq([id : Nat, data : Seq(Piece)])
    BY DEF Kinds, l
  <2>3. current' \in 0..Len(published') /\ Len(published') <= Frames
    <3>1. Frames \in Nat  BY ChunksAssumption
    <3> QED  BY <3>1, <2>1, <2>2, <1>1, <1>2, SMT
  <2>4. published' \in Seq(Sizes) /\ channel' \in Seq(R)  BY <1>2, <1>5
  <2> QED  BY <2>1, <2>2, <2>3, <2>4 DEF Kinds, R
<1>12. Queued(b) /\ Taken(b) /\ (lost < 2 => Whole(b))  BY DEF Follows
<1>13. \A i \in 1..m : channel[i].id \in 1..l
  BY <1>12, QueuedChunk DEF l, m
<1>14. b[1] \in Nat /\ b[2] \in Nat  BY DEF Place
<1>15. Queued(b)'
  <2>1. b[1] <= Len(published')
    <3>1. b[1] <= l  BY <1>12 DEF Queued, l
    <3> QED  BY <3>1, <1>2, <1>14, SMT
  <2>2. ASSUME NEW i \in 1..Len(channel')
        PROVE  /\ Cut(published', PlaceOf(channel'[i]))
               /\ channel'[i] = ChunkAt(published', channel'[i].id, channel'[i].chunk)
               /\ Before(b, PlaceOf(channel'[i]))
    <3>1. CASE i \in 1..m
      <4>1. channel'[i] = channel[i]  BY <3>1, <1>7
      <4> DEFINE id == channel[i].id
                 c == channel[i].chunk
      <4>2. /\ id \in 1..l /\ c \in 1..ChunksOf(published, id) /\ channel[i] = ChunkAt(published, id, c)
            /\ Before(b, PlaceOf(channel[i]))
        BY <3>1, <1>12, QueuedChunk DEF l, m
      <4>3. PlaceOf(channel[i]) = <<id, c>>  BY DEF PlaceOf
      <4> HIDE DEF id, c
      <4>4. id \in 1..Len(published') /\ DataOf(published', id) = DataOf(published, id) /\ ChunksOf(published', id) = ChunksOf(published, id)
        BY <4>2, <1>2
      <4>5. ChunkAt(published', id, c) = ChunkAt(published, id, c)  BY <4>4 DEF ChunkAt
      <4>6. Cut(published', <<id, c>>)  BY <4>2, <4>4 DEF Cut
      <4> QED  BY <4>1, <4>2, <4>3, <4>5, <4>6 DEF id, c
    <3>2. ASSUME NEW j \in 1..n, i = m + j
          PROVE  /\ Cut(published', PlaceOf(channel'[i]))
                 /\ channel'[i] = ChunkAt(published', channel'[i].id, channel'[i].chunk)
                 /\ Before(b, PlaceOf(channel'[i]))
      <4>1. /\ PlaceOf(channel'[i]) = <<l + 1, j>> /\ channel'[i].id = l + 1
            /\ channel'[i].chunk = j /\ channel'[i] = ChunkAt(published', l + 1, j)
        BY <3>2, <1>10
      <4>2. l + 1 \in 1..Len(published')  BY <1>2, SMT
      <4>3. Cut(published', <<l + 1, j>>)  BY <4>2, <1>6 DEF Cut
      <4>4. Before(b, <<l + 1, j>>)
        <5>1. b[1] <= l  BY <1>12 DEF Queued, l
        <5>2. b[1] < l + 1  BY <5>1, <1>2, <1>14, SMT
        <5> QED  BY <5>2 DEF Before
      <4> QED  BY <4>1, <4>3, <4>4
    <3> QED  BY <3>1, <3>2, <1>9
  <2>3. ASSUME NEW i \in 1..Len(channel'), NEW j \in 1..Len(channel'), i < j
        PROVE  Before(PlaceOf(channel'[i]), PlaceOf(channel'[j]))
    <3>1. CASE i \in 1..m /\ j \in 1..m
      <4>1. Before(PlaceOf(channel[i]), PlaceOf(channel[j]))
        BY <3>1, <2>3, <1>12 DEF Queued, m
      <4> QED  BY <4>1, <3>1, <1>7
    <3>2. ASSUME NEW k \in 1..n, j = m + k, i \in 1..m
          PROVE  Before(PlaceOf(channel'[i]), PlaceOf(channel'[j]))
      <4>1. PlaceOf(channel'[j]) = <<l + 1, k>>  BY <3>2, <1>10
      <4>2. channel'[i] = channel[i] /\ channel[i].id \in 1..l  BY <3>2, <1>7, <1>13
      <4>3. channel[i].id < l + 1  BY <4>2, <1>2, SMT
      <4>4. PlaceOf(channel'[i])[1] = channel[i].id  BY <4>2 DEF PlaceOf
      <4> QED  BY <4>1, <4>3, <4>4 DEF Before
    <3>3. ASSUME NEW k \in 1..n, j = m + k, NEW h \in 1..n, i = m + h
          PROVE  Before(PlaceOf(channel'[i]), PlaceOf(channel'[j]))
      <4>1. PlaceOf(channel'[j]) = <<l + 1, k>> /\ PlaceOf(channel'[i]) = <<l + 1, h>>
        BY <3>3, <1>10
      <4>2. h < k  BY <3>3, <2>3, <1>3, <1>5, SMT
      <4> QED  BY <4>1, <4>2 DEF Before
    <3>4. ~(\E h \in 1..n : i = m + h /\ j \in 1..m)
      BY <2>3, <1>3, <1>5, SMT
    <3> QED  BY <3>1, <3>2, <3>3, <3>4, <1>9
  <2> QED  BY <2>1, <2>2, <2>3 DEF Queued
<1>16. Taken(b)'
  <2>1. /\ expected' = expected /\ current' = current /\ delivered' = delivered  BY <1>1
  <2> QED  BY <2>1, <1>12 DEF Taken, FramesInOrder
<1>17. ASSUME NEW p \in Piece, Missing(published', channel', b, p)
       PROVE  Missing(published, channel, b, p)
  <2>1. /\ p[1] \in 1..Len(published') /\ p[2] \in 1..ChunksOf(published', p[1]) /\ Before(b, p)
        /\ \A i \in 1..Len(channel') : PlaceOf(channel'[i]) # p
    BY <1>17 DEF Missing, Cut
  <2>2. p[1] \in 1..l \/ p[1] = l + 1  BY <2>1, <1>2, SMT
  <2>3. p[1] # l + 1
    <3>1. SUFFICES ASSUME p[1] = l + 1 PROVE FALSE  OBVIOUS
    <3>2. p[2] \in 1..n  BY <3>1, <2>1, <1>6
    <3>3. p = <<l + 1, p[2]>>  BY <3>1 DEF Piece
    <3>4. PlaceOf(channel'[m + p[2]]) = <<l + 1, p[2]>>  BY <3>2, <1>10
    <3> QED  BY <3>2, <3>3, <3>4, <2>1, <1>8
  <2>4. p[1] \in 1..l  BY <2>2, <2>3
  <2>5. Cut(published, p)  BY <2>1, <2>4, <1>2 DEF Cut, l
  <2>6. \A i \in 1..m : PlaceOf(channel[i]) # p
    <3>1. TAKE i \in 1..m
    <3> QED  BY <2>1, <1>7
  <2> QED  BY <2>1, <2>5, <2>6 DEF Missing, m
<1>18. ASSUME lost' < 2
       PROVE  Whole(b)'
  <2>1. /\ lost' = lost /\ expected' = expected /\ current' = current
        /\ aggregated' = aggregated /\ delivered' = delivered
    BY <1>1
  <2>2. Whole(b)  BY <1>12, <1>18, <2>1
  <2>3. lost' = 0 => \A p \in Piece : ~Missing(published', channel', b, p)  BY <2>1, <2>2, <1>17 DEF Whole
  <2>4. \A p, q \in Piece : Missing(published', channel', b, p) /\ Missing(published', channel', b, q) => p = q
    BY <2>2, <1>17 DEF Whole
  <2>5. expected' = 1 => aggregated' = <<>>  BY <2>1, <2>2 DEF Whole
  <2>6. ASSUME expected' > 1
        PROVE  /\ b = <<current', expected' - 1>> /\ Cut(published', b) /\ expected' <= ChunksOf(published', current')
               /\ aggregated' = SubSeq(DataOf(published', current'), 1, (expected' - 1) * ChunkSize)
    <3>1. /\ b = <<current, expected - 1>> /\ Cut(published, b) /\ expected <= ChunksOf(published, current)
          /\ aggregated = SubSeq(DataOf(published, current), 1, (expected - 1) * ChunkSize)
      BY <2>1, <2>2, <2>6 DEF Whole
    <3>2. current \in 1..l
      <4>1. b[1] \in 1..l  BY <3>1 DEF Cut, l
      <4> QED  BY <4>1, <3>1
    <3>3. /\ current \in 1..Len(published') /\ DataOf(published', current) = DataOf(published, current)
          /\ ChunksOf(published', current) = ChunksOf(published, current)
      BY <3>2, <1>2, <2>1
    <3>4. DataOf(published', current') = DataOf(published, current) /\ ChunksOf(published', current') = ChunksOf(published, current)
      BY <3>3, <2>1 DEF DataOf, ChunksOf
    <3>5. Cut(published', b)
      <4>1. b[1] = current /\ b[2] \in 1..ChunksOf(published, b[1])  BY <3>1 DEF Cut
      <4> QED  BY <4>1, <3>3 DEF Cut
    <3> QED  BY <3>1, <3>4, <3>5, <2>1
  <2>7. \A k \in 1..Len(delivered') : Intact(published', delivered'[k])
    <3>1. TAKE k \in 1..Len(delivered')
    <3> DEFINE d == delivered[k]
    <3>2. Intact(published, d) /\ delivered'[k] = d  BY <2>1, <2>2 DEF Whole
    <3> HIDE DEF d
    <3>3. d.id \in 1..l  BY <3>2 DEF Intact, l
    <3>4. d.id \in 1..Len(published') /\ published'[d.id] = published[d.id]  BY <3>3, <1>2
    <3> QED  BY <3>2, <3>4 DEF Intact, DataOf
  <2> QED  BY <2>3, <2>4, <2>5, <2>6, <2>7 DEF Whole
<1> QED  BY <1>11, <1>15, <1>16, <1>18 DEF Follows

\* RemoveAt closes the gap.
LEMMA Removed ==
  ASSUME NEW R, NEW s \in Seq(R), NEW i \in 1..Len(s)
  PROVE  /\ RemoveAt(s, i) \in Seq(R) /\ Len(RemoveAt(s, i)) = Len(s) - 1
         /\ \A k \in 1..Len(s) - 1 : k < i => RemoveAt(s, i)[k] = s[k]
         /\ \A k \in 1..Len(s) - 1 : k >= i => RemoveAt(s, i)[k] = s[k + 1]
<1> DEFINE m == Len(s)
           t == SubSeq(s, 1, i - 1)
           u == SubSeq(s, i + 1, m)
<1>1. m \in Nat /\ i \in 1..m /\ i \in Int  OBVIOUS
<1>2. RemoveAt(s, i) = t \o u  BY DEF RemoveAt
<1>3. \A k \in 1..m : s[k] \in R  BY ElementOfSeq
<1> HIDE DEF m
<1>4. /\ t \in Seq(R) /\ Len(t) = i - 1
      /\ \A k \in 1..i - 1 : t[k] = s[k]
  <2>1. \A k \in 1..i - 1 : s[k] \in R
    <3>1. TAKE k \in 1..i - 1
    <3>2. k \in 1..m  BY <1>1, SMT
    <3> QED  BY <3>2, <1>3
  <2>2. i - 1 \in Int  BY <1>1, SMT
  <2>3. /\ t \in Seq(R) /\ Len(t) = IF 1 <= i - 1 THEN (i - 1) - 1 + 1 ELSE 0
        /\ \A k \in 1..(i - 1) - 1 + 1 : t[k] = s[1 + k - 1]
    BY <2>1, <2>2, SubSeqProperties
  <2> HIDE DEF t
  <2>4. Len(t) = i - 1  BY <2>3, <1>1, SMT
  <2>5. \A k \in 1..i - 1 : t[k] = s[k]
    <3>1. TAKE k \in 1..i - 1
    <3>2. k \in 1..(i - 1) - 1 + 1 /\ 1 + k - 1 = k  BY <1>1, SMT
    <3> QED  BY <2>3, <3>2
  <2> QED  BY <2>3, <2>4, <2>5
<1>5. /\ u \in Seq(R) /\ Len(u) = m - i
      /\ \A k \in 1..m - i : u[k] = s[i + k]
  <2>1. \A k \in i + 1..m : s[k] \in R
    <3>1. TAKE k \in i + 1..m
    <3>2. k \in 1..m  BY <1>1, SMT
    <3> QED  BY <3>2, <1>3
  <2>2. i + 1 \in Int /\ m \in Int  BY <1>1, SMT
  <2>3. /\ u \in Seq(R) /\ Len(u) = IF i + 1 <= m THEN m - (i + 1) + 1 ELSE 0
        /\ \A k \in 1..m - (i + 1) + 1 : u[k] = s[(i + 1) + k - 1]
    BY <2>1, <2>2, SubSeqProperties
  <2> HIDE DEF u
  <2>4. Len(u) = m - i  BY <2>3, <1>1, SMT
  <2>5. \A k \in 1..m - i : u[k] = s[i + k]
    <3>1. TAKE k \in 1..m - i
    <3>2. k \in 1..m - (i + 1) + 1 /\ (i + 1) + k - 1 = i + k  BY <1>1, SMT
    <3> QED  BY <2>3, <3>2
  <2> QED  BY <2>3, <2>4, <2>5
<1> HIDE DEF t, u
<1>6. /\ t \o u \in Seq(R) /\ Len(t \o u) = Len(t) + Len(u)
      /\ \A k \in 1..Len(t) + Len(u) :
           (t \o u)[k] = IF k <= Len(t) THEN t[k] ELSE u[k - Len(t)]
  BY <1>4, <1>5, ConcatProperties
<1>7. Len(t) + Len(u) = m - 1  BY <1>1, <1>4, <1>5, SMT
<1>8. ASSUME NEW k \in 1..m - 1, k < i
      PROVE  (t \o u)[k] = s[k]
  <2>1. k \in 1..Len(t) + Len(u) /\ k <= Len(t) /\ k \in 1..i - 1
    BY <1>1, <1>4, <1>7, <1>8, SMT
  <2> QED  BY <2>1, <1>4, <1>6
<1>9. ASSUME NEW k \in 1..m - 1, k >= i
      PROVE  (t \o u)[k] = s[k + 1]
  <2>1. /\ k \in 1..Len(t) + Len(u) /\ ~(k <= Len(t)) /\ k - Len(t) \in 1..m - i
        /\ i + (k - Len(t)) = k + 1
    BY <1>1, <1>4, <1>7, <1>9, SMT
  <2>2. (t \o u)[k] = u[k - Len(t)]  BY <2>1, <1>6
  <2> QED  BY <2>1, <2>2, <1>5
<1> QED  BY <1>2, <1>6, <1>7, <1>8, <1>9 DEF m

\* The channel loses a chunk: that place is missing now.
LEMMA LoseCarries ==
  ASSUME Kinds, NEW b \in Place, Follows(b), NEW i \in 1..Len(channel), Lose(i)
  PROVE  Kinds' /\ Follows(b)'
<1> DEFINE R == [id : Nat, chunk : Nat, chunks : Nat, data : Seq(Piece)]
           m == Len(channel)
<1>1. /\ lost < MaxLost /\ channel' = RemoveAt(channel, i) /\ lost' = lost + 1
      /\ UNCHANGED <<published, expected, current, aggregated, received, delivered>>
  BY DEF Lose
<1>2. channel \in Seq(R)  BY DEF Kinds
<1> HIDE DEF R
<1>3. /\ channel' \in Seq(R) /\ Len(channel') = m - 1
      /\ \A k \in 1..m - 1 : k < i => channel'[k] = channel[k]
      /\ \A k \in 1..m - 1 : k >= i => channel'[k] = channel[k + 1]
  BY <1>1, <1>2, Removed
<1>4. m \in Nat /\ i \in 1..m  BY <1>2
<1>5. Queued(b) /\ Taken(b) /\ (lost < 2 => Whole(b))  BY DEF Follows
<1>6. lost \in Nat /\ lost \in 0..MaxLost /\ MaxLost \in Nat
  <2>1. lost \in 0..MaxLost /\ MaxLost \in Nat  BY ChunksAssumption DEF Kinds
  <2> QED  BY <2>1, SMT
<1> HIDE DEF m
<1> DEFINE g(k) == IF k < i THEN k ELSE k + 1
<1>7. \A k \in 1..m - 1 : g(k) \in 1..m /\ channel'[k] = channel[g(k)]
  <2>1. TAKE k \in 1..m - 1
  <2>2. k < i \/ k >= i  BY <1>4, SMT
  <2>3. g(k) \in 1..m  BY <1>4, SMT
  <2> QED  BY <2>2, <2>3, <1>3, Zenon
<1>8. \A k, j \in 1..m - 1 : k < j => g(k) < g(j)  BY <1>4, SMT
<1>9. \A k \in 1..m : k = i \/ \E j \in 1..m - 1 : g(j) = k
  <2>1. TAKE k \in 1..m
  <2>2. CASE k < i
    <3>1. k \in 1..m - 1 /\ g(k) = k  BY <2>2, <1>4, SMT
    <3> QED  BY <3>1
  <2>3. CASE k > i
    <3>1. k - 1 \in 1..m - 1 /\ g(k - 1) = k  BY <2>3, <1>4, SMT
    <3> QED  BY <3>1
  <2> QED  BY <2>2, <2>3, <1>4, SMT
<1> HIDE DEF g
<1>10. Kinds'
  <2>1. lost' \in 0..MaxLost  BY <1>1, <1>6, SMT
  <2> QED  BY <2>1, <1>1, <1>3 DEF Kinds, R
<1>11. Queued(b)'
  <2>1. b[1] <= Len(published)  BY <1>5 DEF Queued
  <2>2. \A k \in 1..m :
          /\ Cut(published, PlaceOf(channel[k]))
          /\ channel[k] = ChunkAt(published, channel[k].id, channel[k].chunk)
          /\ Before(b, PlaceOf(channel[k]))
    BY <1>5 DEF Queued, m
  <2>3. \A k, j \in 1..m : k < j => Before(PlaceOf(channel[k]), PlaceOf(channel[j]))
    BY <1>5 DEF Queued, m
  <2>4. \A k \in 1..Len(channel') :
          /\ Cut(published', PlaceOf(channel'[k]))
          /\ channel'[k] = ChunkAt(published', channel'[k].id, channel'[k].chunk)
          /\ Before(b, PlaceOf(channel'[k]))
    <3>1. TAKE k \in 1..Len(channel')
    <3>2. g(k) \in 1..m /\ channel'[k] = channel[g(k)] /\ published' = published
      BY <1>1, <1>3, <1>7
    <3> QED  BY <3>2, <2>2
  <2>5. \A k, j \in 1..Len(channel') : k < j => Before(PlaceOf(channel'[k]), PlaceOf(channel'[j]))
    BY <2>3, <1>3, <1>7, <1>8
  <2> QED  BY <1>1, <2>1, <2>4, <2>5 DEF Queued
<1>12. Taken(b)'
  BY <1>1, <1>5 DEF Taken, FramesInOrder
<1>13. ASSUME NEW p \in Piece, Missing(published', channel', b, p)
       PROVE  Missing(published, channel, b, p) \/ p = PlaceOf(channel[i])
  <2>1. SUFFICES ASSUME p # PlaceOf(channel[i])
                 PROVE  \A k \in 1..m : PlaceOf(channel[k]) # p
    BY <1>1, <1>13 DEF Missing, m
  <2>2. \A j \in 1..m - 1 : PlaceOf(channel[g(j)]) # p
    BY <1>3, <1>7, <1>13 DEF Missing
  <2> QED  BY <2>1, <2>2, <1>9
<1>14. ASSUME lost' < 2
       PROVE  Whole(b)'
  <2>1. lost = 0 /\ lost' # 0 /\ lost < 2  BY <1>1, <1>6, <1>14, SMT
  <2>2. Whole(b)  BY <2>1, <1>5
  <2>3. \A p \in Piece : ~Missing(published, channel, b, p)  BY <2>1, <2>2 DEF Whole
  <2>4. \A p, q \in Piece :
          Missing(published', channel', b, p) /\ Missing(published', channel', b, q) => p = q
    BY <2>3, <1>13
  <2> QED  BY <2>1, <2>2, <2>4, <1>1 DEF Whole
<1> QED  BY <1>10, <1>11, <1>12, <1>14 DEF Follows

\* A chunk is taken from the channel: what was behind it is behind it still.
LEMMA HeadTaken ==
  ASSUME Kinds, NEW b \in Place, Queued(b), channel # <<>>,
         channel' = Tail(channel), published' = published,
         NEW e, e = PlaceOf(channel[1])
  PROVE  /\ 1 \in 1..Len(channel) /\ Head(channel) = channel[1]
         /\ channel' \in Seq([id : Nat, chunk : Nat, chunks : Nat, data : Seq(Piece)])
         /\ e \in Place /\ b[1] <= e[1] /\ Queued(e)'
         /\ \A p \in Piece : Before(p, e) =>
              \A k \in 1..Len(channel) : PlaceOf(channel[k]) # p
         /\ \A p \in Piece : Missing(published', channel', e, p)
                               => Missing(published, channel, b, p)
<1> DEFINE R == [id : Nat, chunk : Nat, chunks : Nat, data : Seq(Piece)]
           m == Len(channel)
           id == channel[1].id
           c == channel[1].chunk
<1>1. channel \in Seq(R)  BY DEF Kinds
<1> HIDE DEF R
<1>2. /\ m \in Nat /\ 1 \in 1..m /\ Head(channel) = channel[1]
  BY <1>1
<1>3. /\ Tail(channel) \in Seq(R) /\ Len(Tail(channel)) = m - 1
      /\ \A k \in 1..Len(Tail(channel)) : Tail(channel)[k] = channel[k + 1]
  BY <1>1, HeadTailProperties
<1> HIDE DEF m
<1>4. \A k \in 1..m - 1 : k + 1 \in 1..m /\ channel'[k] = channel[k + 1] /\ 1 < k + 1
  BY <1>2, <1>3, SMT
<1>5. \A k \in 1..m :
        /\ Cut(published, PlaceOf(channel[k])) /\ Before(b, PlaceOf(channel[k]))
        /\ channel[k] = ChunkAt(published, channel[k].id, channel[k].chunk)
  BY DEF Queued, m
<1>6. \A k, j \in 1..m : k < j => Before(PlaceOf(channel[k]), PlaceOf(channel[j]))
  BY DEF Queued, m
<1>7. /\ id \in 1..Len(published) /\ id \in Nat /\ c \in Nat \ {0}
      /\ b[1] \in Nat /\ b[2] \in Nat \ {0}
      /\ b[1] < id \/ (b[1] = id /\ b[2] < c)
  BY <1>2, QueuedChunk DEF m
<1>8. PlaceOf(channel[1]) = <<id, c>>  BY DEF PlaceOf
<1>9. Len(published) \in Nat  BY DEF Kinds
<1> HIDE DEF id, c
<1>10. <<id, c>> \in Place /\ b[1] <= id /\ id <= Len(published)
  <2>1. b[1] <= id /\ id <= Len(published)  BY <1>7, <1>9, SMT
  <2> QED  BY <2>1, <1>7 DEF Place
<1>11. e \in Place /\ b[1] <= e[1] /\ e[1] <= Len(published)
  BY <1>8, <1>10
<1>12. Queued(e)'
  <2>1. \A k \in 1..Len(channel') :
          /\ Cut(published', PlaceOf(channel'[k])) /\ Before(e, PlaceOf(channel'[k]))
          /\ channel'[k] = ChunkAt(published', channel'[k].id, channel'[k].chunk)
    <3>1. TAKE k \in 1..Len(channel')
    <3>2. k \in 1..m - 1  BY <1>3
    <3>3. k + 1 \in 1..m /\ channel'[k] = channel[k + 1] /\ 1 < k + 1  BY <3>2, <1>4
    <3>4. Before(PlaceOf(channel[1]), PlaceOf(channel[k + 1]))  BY <3>3, <1>2, <1>6
    <3> QED  BY <3>3, <3>4, <1>5
  <2>2. \A k, j \in 1..Len(channel') : k < j => Before(PlaceOf(channel'[k]), PlaceOf(channel'[j]))
    <3>1. \A k, j \in 1..m - 1 : k < j => k + 1 < j + 1  BY <1>2, SMT
    <3> QED  BY <3>1, <1>3, <1>4, <1>6
  <2> QED  BY <2>1, <2>2, <1>11 DEF Queued
<1>13. ASSUME NEW p \in Piece, Before(p, e), NEW k \in 1..m
       PROVE  PlaceOf(channel[k]) # p
  <2>1. k = 1 \/ 1 < k  BY <1>2, SMT
  <2>2. p = e \/ Before(e, PlaceOf(channel[k])) \/ PlaceOf(channel[k]) # p
    BY <2>1, <1>2, <1>6
  <2>3. p[1] \in Nat /\ p[2] \in Nat /\ e[1] \in Nat /\ e[2] \in Nat
    BY <1>11 DEF Piece, Place
  <2>4. ~Before(e, p)
    BY <1>13, <2>3, SMT DEF Before
  <2>5. p # e
    BY <1>13, <2>3, SMT DEF Before
  <2> QED  BY <2>2, <2>4, <2>5
<1>14. ASSUME NEW p \in Piece, Missing(published', channel', e, p)
       PROVE  Missing(published, channel, b, p)
  <2>1. Cut(published, p) /\ Before(e, p) /\ \A k \in 1..m - 1 : PlaceOf(channel'[k]) # p
    BY <1>3, <1>14 DEF Missing
  <2>2. p[1] \in Nat /\ p[2] \in Nat /\ e[1] \in Nat /\ e[2] \in Nat
    BY <1>11 DEF Piece, Place
  <2>3. Before(b, e)  BY <1>2, <1>5
  <2>4. Before(b, p)
    <3>1. (e[1] < p[1] \/ (e[1] = p[1] /\ e[2] < p[2]))
          /\ (b[1] < e[1] \/ (b[1] = e[1] /\ b[2] < e[2]))
      BY <2>1, <2>3 DEF Before
    <3>2. b[1] < p[1] \/ (b[1] = p[1] /\ b[2] < p[2])
      BY <3>1, <2>2, <1>7, SMT
    <3> QED  BY <3>2 DEF Before
  <2>5. e # p  BY <2>1, <2>2, SMT DEF Before
  <2>6. \A k \in 1..m : PlaceOf(channel[k]) # p
    <3>1. TAKE k \in 1..m
    <3>2. k = 1 \/ (k - 1 \in 1..m - 1 /\ (k - 1) + 1 = k)  BY <1>2, SMT
    <3>3. k = 1 \/ channel'[k - 1] = channel[k]  BY <3>2, <1>4
    <3> QED  BY <3>2, <3>3, <2>1, <2>5
  <2> QED  BY <2>1, <2>4, <2>6 DEF Missing, m
<1> QED  BY <1>2, <1>3, <1>11, <1>12, <1>13, <1>14 DEF m, R

\* A chunk with the number that is expected continues the frame that was begun: for one
\* of another frame, the rest of the one and the start of the other would be missing.
LEMMA SameFrame ==
  ASSUME Kinds, NEW b \in Place, Queued(b), Taken(b), Whole(b), channel # <<>>,
         channel[1].chunk = expected,
         NEW id, id = channel[1].id, NEW c, c = channel[1].chunk,
         \A p \in Piece : Before(p, <<id, c>>) =>
           \A k \in 1..Len(channel) : PlaceOf(channel[k]) # p
  PROVE  /\ (IF c = 1 THEN id ELSE current) = id
         /\ aggregated = SubSeq(DataOf(published, id), 1, (c - 1) * ChunkSize)
<1>1. 1 \in 1..Len(channel)
  <2>1. channel \in Seq([id : Nat, chunk : Nat, chunks : Nat, data : Seq(Piece)])  BY DEF Kinds
  <2> QED  BY <2>1
<1>2. /\ id \in 1..Len(published) /\ published[id] \in Nat /\ c \in 1..ChunksOf(published, id)
      /\ id \in Nat /\ c \in Nat \ {0} /\ b[1] \in Nat /\ b[2] \in Nat \ {0}
      /\ b[1] < id \/ (b[1] = id /\ b[2] < c)
  BY <1>1, QueuedChunk
<1>3. c = expected /\ ChunkSize \in Nat \ {0}  BY ChunksAssumption
<1>4. CASE c = 1
  <2>1. aggregated = <<>>  BY <1>3, <1>4 DEF Whole
  <2>2. (c - 1) * ChunkSize = 0  BY <1>3, <1>4, SMT
  <2>3. SubSeq(DataOf(published, id), 1, 0) = <<>>  BY SubSeqEmpty
  <2> QED  BY <1>4, <2>1, <2>2, <2>3
<1>5. CASE c # 1
  <2>1. expected > 1  BY <1>2, <1>3, <1>5, SMT
  <2>2. /\ b = <<current, expected - 1>> /\ Cut(published, b)
        /\ expected <= ChunksOf(published, current)
        /\ aggregated = SubSeq(DataOf(published, current), 1, (expected - 1) * ChunkSize)
    BY <2>1 DEF Whole
  <2>3. current \in 1..Len(published) /\ current = b[1] /\ current \in Nat
    BY <2>2, <1>2 DEF Cut
  <2>4. current = id
    <3>1. SUFFICES ASSUME current # id PROVE FALSE  OBVIOUS
    <3>2. current < id /\ b[2] = c - 1  BY <1>2, <1>3, <2>2, <2>3, <3>1, SMT
    <3> DEFINE p == <<current, c>>
               q == <<id, 1>>
    <3>3. p \in Piece /\ q \in Piece /\ p # q  BY <1>2, <2>3, <3>1 DEF Piece
    <3>4. Before(b, p) /\ Before(p, <<id, c>>)
      <4>1. c - 1 < c  BY <1>2, SMT
      <4> QED  BY <3>2, <4>1, <2>3 DEF Before
    <3>5. Before(b, q) /\ Before(q, <<id, c>>)
      <4>1. 1 < c  BY <2>1, <1>3, SMT
      <4> QED  BY <3>2, <4>1, <2>3 DEF Before
    <3>6. Cut(published, p)
      <4>1. published[current] \in Sizes /\ Sizes \subseteq Nat
        <5>1. published \in Seq(Sizes)  BY DEF Kinds
        <5> QED  BY <5>1, <2>3, ElementOfSeq, ChunksAssumption
      <4>2. ChunksOf(published, current) \in Nat
        BY <4>1, CutInChunks DEF ChunksOf
      <4>3. c \in 1..ChunksOf(published, current)  BY <4>2, <2>2, <1>2, <1>3, SMT
      <4> QED  BY <4>3, <2>3 DEF Cut
    <3>7. Cut(published, q)
      <4>1. ChunksOf(published, id) \in Nat  BY <1>2, CutInChunks DEF ChunksOf
      <4>2. 1 \in 1..ChunksOf(published, id)  BY <4>1, <1>2, SMT
      <4> QED  BY <4>2, <1>2 DEF Cut
    <3> HIDE DEF p, q
    <3>8. Missing(published, channel, b, p) /\ Missing(published, channel, b, q)
      BY <3>3, <3>4, <3>5, <3>6, <3>7 DEF Missing
    <3> QED  BY <3>3, <3>8 DEF Whole
  <2> QED  BY <2>2, <2>4, <1>3, <1>5
<1> QED  BY <1>4, <1>5

\* The next chunk is taken: it is put to its frame, or what was gathered is dropped.
LEMMA ReceiveCarries ==
  ASSUME Kinds, NEW b \in Place, Follows(b), Receive,
         NEW e, e = PlaceOf(channel[1])
  PROVE  Kinds' /\ e \in Place /\ Follows(e)'
<1>1. channel # <<>> /\ channel' = Tail(channel) /\ published' = published /\ lost' = lost
  BY DEF Receive
<1>2. Queued(b) /\ Taken(b) /\ (lost < 2 => Whole(b))  BY DEF Follows
<1>3. /\ 1 \in 1..Len(channel) /\ Head(channel) = channel[1]
      /\ channel' \in Seq([id : Nat, chunk : Nat, chunks : Nat, data : Seq(Piece)])
      /\ e \in Place /\ b[1] <= e[1] /\ Queued(e)'
      /\ \A p \in Piece : Before(p, e) => \A k \in 1..Len(channel) : PlaceOf(channel[k]) # p
      /\ \A p \in Piece : Missing(published', channel', e, p) => Missing(published, channel, b, p)
  BY <1>1, <1>2, HeadTaken
<1>4. PICK nf : nf = channel[1]  OBVIOUS
<1>5. PICK id : id = nf.id  OBVIOUS
<1>6. PICK c : c = nf.chunk  OBVIOUS
<1>7. /\ id \in 1..Len(published) /\ published[id] \in Nat /\ c \in 1..ChunksOf(published, id)
      /\ nf.chunks = ChunksOf(published, id)
      /\ nf.data = ChunkData(DataOf(published, id), c)
      /\ id \in Nat /\ c \in Nat \ {0} /\ b[1] \in Nat /\ b[2] \in Nat \ {0}
      /\ b[1] < id \/ (b[1] = id /\ b[2] < c)
  BY <1>2, <1>3, <1>4, <1>5, <1>6, QueuedChunk
<1>8. e = <<id, c>>  BY <1>4, <1>5, <1>6 DEF PlaceOf
<1>9. /\ nf.data \in Seq(Piece)
      /\ SubSeq(DataOf(published, id), 1, (c - 1) * ChunkSize) \o nf.data
           = IF c = ChunksOf(published, id) THEN DataOf(published, id)
             ELSE SubSeq(DataOf(published, id), 1, c * ChunkSize)
  <2>1. c \in 1..Chunks(published[id])  BY <1>7 DEF ChunksOf
  <2>2. /\ ChunkData(Data(id, published[id]), c) \in Seq(Piece)
        /\ SubSeq(Data(id, published[id]), 1, (c - 1) * ChunkSize)
             \o ChunkData(Data(id, published[id]), c)
             = IF c = Chunks(published[id]) THEN Data(id, published[id])
               ELSE SubSeq(Data(id, published[id]), 1, c * ChunkSize)
    BY <2>1, <1>7, ChunkGrows, ZenonT(60)
  <2>3. DataOf(published, id) = Data(id, published[id])
        /\ ChunksOf(published, id) = Chunks(published[id])
    BY DEF DataOf, ChunksOf
  <2> QED  BY <2>2, <2>3, <1>7
<1>10. /\ published \in Seq(Sizes) /\ Len(published) <= Frames /\ lost \in 0..MaxLost
       /\ expected \in 0..ByteRange - 1 /\ current \in 0..Len(published)
       /\ aggregated \in Seq(Piece) /\ delivered \in Seq([id : Nat, data : Seq(Piece)])
       /\ ByteRange \in Nat \ {0, 1}
  BY ChunksAssumption DEF Kinds
<1>11. Whole(b) => /\ \A p \in Piece : lost' = 0 => ~Missing(published', channel', e, p)
                   /\ \A p, q \in Piece :
                        Missing(published', channel', e, p) /\ Missing(published', channel', e, q)
                          => p = q
  BY <1>1, <1>3 DEF Whole
<1>12. e[1] = id /\ b[1] <= id /\ id <= Len(published) /\ Len(published) \in Nat
  <2>1. Len(published) \in Nat  BY <1>10
  <2> QED  BY <2>1, <1>7, <1>8, SMT
<1>13. /\ \A k \in 1..Len(delivered) : delivered[k].id \in Nat /\ delivered[k].id <= b[1]
       /\ FramesInOrder
       /\ expected > 1 => current <= b[1] /\ \A k \in 1..Len(delivered) : delivered[k].id < current
  <2>1. \A k \in 1..Len(delivered) : delivered[k].id \in Nat
    <3>1. TAKE k \in 1..Len(delivered)
    <3>2. delivered[k] \in [id : Nat, data : Seq(Piece)]  BY <1>10, ElementOfSeq
    <3> QED  BY <3>2
  <2> QED  BY <2>1, <1>2 DEF Taken
<1>14. \A k \in 1..Len(delivered) : delivered[k].id <= id  BY <1>7, <1>12, <1>13, SMT
<1>15. CASE c # expected
  <2>1. expected' = 1 /\ aggregated' = <<>> /\ current' = current /\ delivered' = delivered
    BY <1>3, <1>4, <1>6, <1>15 DEF Receive, Mismatch, Reset
  <2>2. Kinds'
    <3>1. expected' \in 0..ByteRange - 1  BY <2>1, <1>10, SMT
    <3>2. aggregated' \in Seq(Piece)  BY <2>1, EmptySeq
    <3> QED  BY <3>1, <3>2, <2>1, <1>1, <1>3, <1>10 DEF Kinds
  <2>3. Taken(e)'
    <3>1. ~(expected' > 1)  BY <2>1, SMT
    <3> QED  BY <3>1, <2>1, <1>12, <1>13, <1>14 DEF Taken, FramesInOrder
  <2>4. lost' < 2 => Whole(e)'
    <3>1. ~(expected' > 1)  BY <2>1, SMT
    <3> QED  BY <3>1, <2>1, <1>1, <1>2, <1>11 DEF Whole
  <2> QED  BY <2>2, <2>3, <2>4, <1>3 DEF Follows
<1>16. CASE c = expected
  <2> DEFINE cid == IF c = 1 THEN id ELSE current
             all == aggregated \o nf.data
  <2>1. PICK h : h = cid  OBVIOUS
  <2>2. PICK g : g = all  OBVIOUS
  <2>3. /\ current' = h
        /\ IF c = nf.chunks
           THEN expected' = 1 /\ aggregated' = <<>>
                /\ delivered' = Append(delivered, [id |-> h, data |-> g])
           ELSE expected' = (expected + 1) % ByteRange /\ aggregated' = g
                /\ delivered' = delivered
    BY <2>1, <2>2, <1>3, <1>4, <1>5, <1>6, <1>16 DEF Receive, Gather, Reset, NextChunk
  <2>4. /\ h \in Nat /\ h <= Len(published) /\ h <= id
        /\ \A k \in 1..Len(delivered) : delivered[k].id < h
    <3>1. CASE c = 1
      <4>1. h = id  BY <3>1, <2>1
      <4>2. b[1] < id  BY <3>1, <1>7, SMT
      <4>3. \A k \in 1..Len(delivered) : delivered[k].id < id  BY <4>2, <1>7, <1>13, SMT
      <4> QED  BY <4>1, <4>3, <1>7, <1>12
    <3>2. CASE c # 1
      <4>1. h = current  BY <3>2, <2>1
      <4>2. expected > 1  BY <3>2, <1>7, <1>16, SMT
      <4>3. current <= b[1] /\ \A k \in 1..Len(delivered) : delivered[k].id < current
        BY <4>2, <1>13
      <4>4. current \in Nat /\ current <= Len(published)  BY <1>10, <1>12, SMT
      <4>5. current <= id  BY <4>3, <4>4, <1>7, <1>12, SMT
      <4> QED  BY <4>1, <4>3, <4>4, <4>5
    <3> QED  BY <3>1, <3>2
  <2>5. g \in Seq(Piece)
    BY <2>2, <1>9, <1>10, ConcatProperties
  <2>6. lost < 2 => h = id /\ g = (IF c = ChunksOf(published, id) THEN DataOf(published, id)
                                   ELSE SubSeq(DataOf(published, id), 1, c * ChunkSize))
    <3>1. HAVE lost < 2
    <3>2. Whole(b)  BY <3>1, <1>2
    <3>3. /\ (IF c = 1 THEN id ELSE current) = id
          /\ aggregated = SubSeq(DataOf(published, id), 1, (c - 1) * ChunkSize)
      <4>1. channel[1].chunk = expected /\ id = channel[1].id /\ c = channel[1].chunk
        BY <1>4, <1>5, <1>6, <1>16
      <4>2. \A p \in Piece : Before(p, <<id, c>>) =>
              \A k \in 1..Len(channel) : PlaceOf(channel[k]) # p
        BY <1>3, <1>8
      <4> QED  BY <4>1, <4>2, <3>2, <1>1, <1>2, SameFrame
    <3> QED  BY <3>3, <2>1, <2>2, <1>9
  <2>7. CASE c = nf.chunks
    <3> DEFINE f == [id |-> h, data |-> g]
    <3>1. /\ expected' = 1 /\ aggregated' = <<>> /\ delivered' = Append(delivered, f)
      BY <2>3, <2>7
    <3>2. f \in [id : Nat, data : Seq(Piece)] /\ f.id = h /\ f.data = g  BY <2>4, <2>5
    <3> HIDE DEF f
    <3>3. /\ delivered' \in Seq([id : Nat, data : Seq(Piece)])
          /\ Len(delivered') = Len(delivered) + 1 /\ Len(delivered) \in Nat
          /\ \A k \in 1..Len(delivered) : delivered'[k] = delivered[k]
          /\ delivered'[Len(delivered) + 1] = f
      BY <3>1, <3>2, <1>10, AppendProperties
    <3>4. \A k \in 1..Len(delivered') : k \in 1..Len(delivered) \/ k = Len(delivered) + 1
      BY <3>3, SMT
    <3>5. Kinds'
      <4>1. expected' \in 0..ByteRange - 1 /\ current' \in 0..Len(published')
        BY <3>1, <2>3, <2>4, <1>1, <1>10, <1>12, SMT
      <4>2. aggregated' \in Seq(Piece)  BY <3>1, EmptySeq
      <4> QED  BY <4>1, <4>2, <3>3, <1>1, <1>3, <1>10 DEF Kinds
    <3>6. Taken(e)'
      <4>1. ~(expected' > 1)  BY <3>1, SMT
      <4>2. \A k \in 1..Len(delivered') : delivered'[k].id <= e[1]
        BY <3>2, <3>3, <3>4, <2>4, <1>12, <1>14
      <4>3. \A j, k \in 1..Len(delivered') : j < k => delivered'[j].id < delivered'[k].id
        <5>1. TAKE j, k \in 1..Len(delivered')
        <5>2. HAVE j < k
        <5>3. j \in 1..Len(delivered)  BY <5>2, <3>3, SMT
        <5>4. CASE k = Len(delivered) + 1
          BY <5>3, <5>4, <3>2, <3>3, <2>4
        <5>5. CASE k \in 1..Len(delivered)
          BY <5>2, <5>3, <5>5, <3>3, <1>13 DEF FramesInOrder
        <5> QED  BY <5>4, <5>5, <3>4
      <4> QED  BY <4>1, <4>2, <4>3 DEF Taken, FramesInOrder
    <3>7. lost' < 2 => Whole(e)'
      <4>1. HAVE lost' < 2
      <4>2. lost < 2 /\ Whole(b)  BY <4>1, <1>1, <1>2
      <4>3. ~(expected' > 1)  BY <3>1, SMT
      <4>4. Intact(published', f)
        BY <4>2, <3>2, <2>6, <2>7, <1>1, <1>7 DEF Intact
      <4>5. \A k \in 1..Len(delivered) : Intact(published, delivered[k])  BY <4>2 DEF Whole
      <4>6. \A k \in 1..Len(delivered') : Intact(published', delivered'[k])
        BY <4>4, <4>5, <3>3, <3>4, <1>1
      <4> QED  BY <4>2, <4>3, <4>6, <3>1, <1>11 DEF Whole
    <3> QED  BY <3>5, <3>6, <3>7, <1>3 DEF Follows
  <2>8. CASE c # nf.chunks
    <3>1. /\ expected' = (expected + 1) % ByteRange /\ aggregated' = g /\ delivered' = delivered
      BY <2>3, <2>8
    <3>2. expected \in Nat /\ expected + 1 <= ByteRange  BY <1>10, SMT
    <3>3. expected' \in 0..ByteRange - 1 /\ (expected' = expected + 1 \/ expected' = 0)
          /\ expected \in Nat \ {0}
      <4>1. expected + 1 < ByteRange \/ expected + 1 = ByteRange  BY <3>2, <1>10, SMT
      <4>2. expected + 1 < ByteRange => (expected + 1) % ByteRange = expected + 1
        <5>1. \A a \in Nat, d \in Nat \ {0} : a < d => a % d = a  BY SMT
        <5>2. expected + 1 \in Nat  BY <3>2, SMT
        <5> QED  BY <5>1, <5>2, <1>10
      <4>3. ByteRange % ByteRange = 0  BY <1>10, SMT
      <4>4. expected \in Nat \ {0}  BY <1>7, <1>16
      <4>5. expected' = expected + 1 \/ expected' = 0
        BY <4>1, <4>2, <4>3, <3>1
      <4>6. expected + 1 < ByteRange \/ expected' = 0
        BY <4>1, <4>3, <3>1
      <4>7. expected' \in 0..ByteRange - 1
        BY <4>2, <4>6, <3>1, <3>2, <1>10, SMT
      <4> QED  BY <4>4, <4>5, <4>7
    <3>4. Kinds'
      <4>1. current' \in 0..Len(published')  BY <2>3, <2>4, <1>1, <1>12, SMT
      <4> QED  BY <4>1, <3>1, <3>3, <2>5, <1>1, <1>3, <1>10 DEF Kinds
    <3>5. Taken(e)'
      BY <3>1, <2>3, <2>4, <1>12, <1>13, <1>14 DEF Taken, FramesInOrder
    <3>6. ASSUME lost' < 2
          PROVE  Whole(e)'
      <4>1. lost < 2 /\ Whole(b)  BY <3>6, <1>1, <1>2
      <4>2. expected' # 1  BY <3>3, SMT
      <4>3. \A k \in 1..Len(delivered') : Intact(published', delivered'[k])
        BY <4>1, <3>1, <1>1 DEF Whole
      <4>4. ASSUME expected' > 1
            PROVE  /\ e = <<current', expected' - 1>> /\ Cut(published', e)
                   /\ expected' <= ChunksOf(published', current')
                   /\ aggregated' = SubSeq(DataOf(published', current'), 1,
                                           (expected' - 1) * ChunkSize)
        <5>1. expected' = c + 1 /\ expected' - 1 = c
          <6>1. expected' # 0  BY <4>4, SMT
          <6>2. expected' = c + 1  BY <6>1, <3>3, <1>16
          <6> QED  BY <6>2, <1>7, SMT
        <5>2. current' = id /\ aggregated' = SubSeq(DataOf(published, id), 1, c * ChunkSize)
          BY <4>1, <3>1, <2>3, <2>6, <2>8, <1>7
        <5>3. Cut(published, e)  BY <1>7, <1>8 DEF Cut
        <5>4. c + 1 <= ChunksOf(published, id)
          <6>1. ChunksOf(published, id) \in Nat  BY <1>7, CutInChunks DEF ChunksOf
          <6>2. c # ChunksOf(published, id) /\ c \in 1..ChunksOf(published, id)  BY <2>8, <1>7
          <6> QED  BY <6>1, <6>2, <1>7, SMT
        <5> QED  BY <5>1, <5>2, <5>3, <5>4, <1>1, <1>8
      <4> QED  BY <4>1, <4>2, <4>3, <4>4, <1>1, <1>11 DEF Whole
    <3> QED  BY <3>4, <3>5, <3>6, <1>3 DEF Follows
  <2> QED  BY <2>7, <2>8
<1> QED  BY <1>15, <1>16

\* Every step of a frame's way keeps what is carried.
LEMMA StepCarries ==
  ASSUME Carried, [ChunksNext]_chunkVars
  PROVE  Carried'
<1>1. Kinds /\ \E b \in Place : Follows(b)  BY DEF Carried
<1>2. PICK b \in Place : Follows(b)  BY <1>1
<1>3. ASSUME NEW size \in Sizes, PublishFrame(size)
      PROVE  Carried'
  BY <1>1, <1>2, <1>3, PublishCarries DEF Carried
<1>4. ASSUME NEW i \in 1..Len(channel), Lose(i)
      PROVE  Carried'
  BY <1>1, <1>2, <1>4, LoseCarries DEF Carried
<1>5. CASE Receive
  <2>1. PICK e : e = PlaceOf(channel[1])  OBVIOUS
  <2> QED  BY <1>1, <1>2, <1>5, <2>1, ReceiveCarries DEF Carried
<1>6. CASE UNCHANGED chunkVars
  BY <1>6, <1>1, <1>2 DEF Carried, Kinds, Follows, Queued, Taken, Whole, chunkVars, FramesInOrder
<1>7. ChunksNext \/ UNCHANGED chunkVars  OBVIOUS
<1> QED  BY <1>3, <1>4, <1>5, <1>6, <1>7 DEF ChunksNext

\* encoded_frame::to_network and decode_network_stream, for every size of frames and of chunks:
\* what is delivered with one chunk lost at most is a frame as it was published; a chunk
\* count that wraps (uint8_t), and numbers without ids, never mix two frames.
THEOREM NeverSpliced == ChunksSpec => []OneLossNeverSplices
<1>1. ChunksInit => Carried  BY NothingCarried
<1>2. Carried /\ [ChunksNext]_chunkVars => Carried'  BY StepCarries
<1>3. Carried => OneLossNeverSplices
  <2>1. HAVE Carried
  <2>2. Kinds /\ \E b \in Place : Follows(b)  BY <2>1 DEF Carried
  <2>3. PICK b \in Place : Follows(b)  BY <2>2
  <2>4. lost < 2 \/ lost >= 2
    <3>1. lost \in 0..MaxLost /\ MaxLost \in Nat  BY <2>2, ChunksAssumption DEF Kinds
    <3> QED  BY <3>1, SMT
  <2>5. lost < 2 => \A k \in 1..Len(delivered) : IsIntact(delivered[k])
    BY <2>3 DEF Follows, Whole, Intact, IsIntact, DataOf
  <2> QED  BY <2>4, <2>5 DEF OneLossNeverSplices
<1> QED  BY <1>1, <1>2, <1>3, PTL DEF ChunksSpec

\* However many chunks are lost, frames come out in the order of their ids and none twice,
\* and the decoder's numbers stay those of a uint8_t and of a frame that was published.
THEOREM DeliveredInOrder == ChunksSpec => [](ChunksTypeOK /\ FramesInOrder)
<1>1. ChunksInit => Carried  BY NothingCarried
<1>2. Carried /\ [ChunksNext]_chunkVars => Carried'  BY StepCarries
<1>3. Carried => ChunksTypeOK /\ FramesInOrder
  <2>1. HAVE Carried
  <2>2. Kinds /\ \E b \in Place : Follows(b)  BY <2>1 DEF Carried
  <2>3. PICK b \in Place : Queued(b) /\ Taken(b)  BY <2>2 DEF Follows
  <2>4. \A i \in 1..Len(channel) : channel[i].id \in 1..Len(published)
    BY <2>2, <2>3, QueuedChunk
  <2>5. current \in 0..Frames
    <3>1. Len(published) \in Nat /\ Frames \in Nat /\ Len(published) <= Frames
          /\ current \in 0..Len(published)
      BY <2>2, ChunksAssumption DEF Kinds
    <3> QED  BY <3>1, SMT
  <2> QED  BY <2>2, <2>3, <2>4, <2>5 DEF ChunksTypeOK, Kinds, Taken
<1> QED  BY <1>1, <1>2, <1>3, PTL DEF ChunksSpec

-----------------------------------------------------------------------------
(* The chunks: in step behind a last one, and complete without loss.       *)

Arrival == [id : Nat, last : BOOLEAN]

\* The place of the last chunk that arrived, and whether it ended its frame.
LastArrived(b) ==
  IF received = <<>> THEN b[1] = 0
  ELSE /\ Cut(published, b) /\ received[Len(received)].id = b[1]
       /\ received[Len(received)].last <=> b[2] = ChunksOf(published, b[1])

\* Of the frame that b is in b[2] chunks arrived at most; if that many did and it
\* began behind a last chunk, what was gathered is all of it, up to b.
InStepAt(b) ==
  Fits(b[1]) /\ Cardinality(ArrivedAt(b[1])) = b[2] /\ BehindLast(b[1]) =>
    IF b[2] = ChunksOf(published, b[1]) THEN IsDelivered(b[1])
    ELSE /\ expected = b[2] + 1 /\ current = b[1]
         /\ aggregated = SubSeq(DataOf(published, b[1]), 1, b[2] * ChunkSize)

Tally(b) ==
  /\ received \in Seq([id : Nat, last : BOOLEAN])
  /\ \A i \in 1..Len(received) : received[i].id <= b[1]
  /\ LastArrived(b)
  /\ received = <<>> \/ received[Len(received)].last => expected = 1 /\ aggregated = <<>>
  /\ b[1] > 0 => Cardinality(ArrivedAt(b[1])) <= b[2] /\ InStepAt(b)
  /\ \A id \in 1..b[1] - 1 :
       Fits(id) /\ Cardinality(ArrivedAt(id)) = ChunksOf(published, id) /\ BehindLast(id) => IsDelivered(id)

\* Without loss all chunks up to b arrived, each frame's behind a last one; with one
\* lost at most no frame was delivered that _chunk has no numbers for.
Lossless(b) ==
  /\ lost = 0 =>
       /\ \A i \in 2..Len(received) : received[i - 1].last \/ received[i - 1].id = received[i].id
       /\ \A id \in 1..b[1] - 1 : Cardinality(ArrivedAt(id)) = ChunksOf(published, id)
       /\ b[1] > 0 => Cardinality(ArrivedAt(b[1])) = b[2]
  /\ lost < 2 => \A k \in 1..Len(delivered) : Fits(delivered[k].id)

Tallied == Kinds /\ \E b \in Place : Follows(b) /\ Tally(b) /\ Lossless(b)

\* The chunks of frame id among those that arrived.
Among(s, id) == {i \in 1..Len(s) : s[i].id = id}
Behind(s, id) == \A i \in Among(s, id) : i - 1 \in Among(s, id) \/ i = 1 \/ s[i - 1].last

\* One more arrives: there is one chunk more of its frame, and the frames that began behind
\* a last chunk are those that did before, and maybe its own.
OneMore(s, t, l, x) ==
  /\ t \in Seq(Arrival) /\ Len(t) = l + 1 /\ t[l + 1] = x /\ \A i \in 1..l : t[i] = s[i]
  /\ \A id : Among(t, id) = IF x.id = id THEN Among(s, id) \cup {l + 1} ELSE Among(s, id)
  /\ \A id : Cardinality(Among(s, id)) \in Nat
  /\ \A id : Cardinality(Among(t, id)) = Cardinality(Among(s, id)) + IF x.id = id THEN 1 ELSE 0
  /\ \A id : Behind(t, id) => Behind(s, id)

\* What appending does to the chunks of a frame.
LEMMA OneArrived ==
  ASSUME NEW s \in Seq(Arrival), NEW x \in Arrival, NEW t, t = Append(s, x), NEW l \in Nat, l = Len(s)
  PROVE  OneMore(s, t, l, x)
<1>1. /\ t \in Seq(Arrival) /\ Len(t) = l + 1 /\ t[l + 1] = x /\ \A i \in 1..l : t[i] = s[i]
  BY AppendProperties
<1>2. ASSUME NEW id
      PROVE  /\ Among(t, id) = IF x.id = id THEN Among(s, id) \cup {l + 1} ELSE Among(s, id)
             /\ Among(s, id) \subseteq 1..l
  <2>1. \A i : i \in 1..l + 1 <=> i \in 1..l \/ i = l + 1
    OBVIOUS
  <2>2. \A i : i \in Among(t, id) <=> i \in 1..l + 1 /\ t[i].id = id
    BY <1>1, Zenon DEF Among
  <2>3. \A i : i \in Among(s, id) <=> i \in 1..l /\ s[i].id = id
    BY Zenon DEF Among
  <2>4. \A i : i \in Among(t, id) <=> (i \in Among(s, id) \/ (i = l + 1 /\ x.id = id))
    <3>1. TAKE i
    <3>2. CASE i \in 1..l
      <4>1. i # l + 1 /\ i \in 1..l + 1
        BY <3>2
      <4>2. t[i] = s[i]
        BY <1>1, <3>2
      <4> QED  BY <2>2, <2>3, <3>2, <4>1, <4>2, Zenon
    <3>3. CASE i = l + 1
      <4>1. t[i] = x
        BY <1>1, <3>3, Zenon
      <4>2. i \notin 1..l /\ i \in 1..l + 1
        BY <3>3
      <4> QED  BY <2>2, <2>3, <3>3, <4>1, <4>2, Zenon
    <3> QED  BY <2>1, <2>2, <2>3, <3>2, <3>3, Zenon
  <2> QED  BY <2>3, <2>4, Zenon
<1>3. ASSUME NEW id
      PROVE  /\ Cardinality(Among(s, id)) \in Nat
             /\ Cardinality(Among(t, id)) = Cardinality(Among(s, id)) + IF x.id = id THEN 1 ELSE 0
  <2>1. IsFiniteSet(Among(s, id)) /\ Cardinality(Among(s, id)) \in Nat
    <3>1. IsFiniteSet(1..l)
      BY FS_Interval
    <3>2. IsFiniteSet(Among(s, id))
      BY <1>2, <3>1, FS_Subset
    <3> QED  BY <3>2, FS_CardinalityType
  <2>2. l + 1 \notin Among(s, id)
    <3>1. l + 1 \notin 1..l
      OBVIOUS
    <3> QED  BY <1>2, <3>1, Zenon
  <2>3. Cardinality(Among(s, id) \cup {l + 1}) = Cardinality(Among(s, id)) + 1
    BY <2>1, <2>2, FS_AddElement
  <2>4. CASE x.id = id
    BY <1>2, <2>1, <2>3, <2>4, Zenon
  <2>5. CASE x.id # id
    <3>1. Cardinality(Among(t, id)) = Cardinality(Among(s, id))
      BY <1>2, <2>5, Zenon
    <3> QED  BY <2>1, <2>5, <3>1
  <2> QED  BY <2>4, <2>5
<1>4. ASSUME NEW id, Behind(t, id) PROVE Behind(s, id)
  <2>1. ASSUME NEW i \in Among(s, id), i # 1 PROVE i - 1 \in Among(s, id) \/ s[i - 1].last
    <3>1. i \in 1..l /\ i \in Among(t, id)
      BY <1>2, Zenon
    <3>2. i - 1 \in 1..l /\ i - 1 # l + 1
      BY <2>1, <3>1
    <3>3. i - 1 \in Among(t, id) \/ t[i - 1].last
      BY <1>4, <2>1, <3>1, Zenon DEF Behind
    <3> QED  BY <1>1, <1>2, <3>2, <3>3, Zenon
  <2> QED  BY <2>1, Zenon DEF Behind
<1> QED  BY <1>1, <1>2, <1>3, <1>4, Zenon DEF OneMore

\* A frame that none of those that arrived is of.
LEMMA NoneArrived ==
  ASSUME NEW s \in Seq(Arrival), NEW a, \A i \in 1..Len(s) : s[i].id <= a,
         NEW id \in Nat, a \in Nat, a < id
  PROVE  Among(s, id) = {} /\ Cardinality(Among(s, id)) = 0
<1>1. \A i \in 1..Len(s) : s[i].id # id
  BY <1>1
<1>2. Among(s, id) = {}
  BY <1>1, Zenon DEF Among
<1> QED  BY <1>2, FS_EmptySet

\* What was delivered stays delivered.
LEMMA StaysDelivered ==
  ASSUME Kinds, published' = published,
         delivered' = delivered \/ (\E f \in [id : Nat, data : Seq(Piece)] : delivered' = Append(delivered, f)),
         NEW id, IsDelivered(id)
  PROVE  IsDelivered(id)'
<1>1. PICK k \in 1..Len(delivered) : delivered[k].id = id /\ IsIntact(delivered[k])
  BY DEF IsDelivered
<1>2. delivered \in Seq([id : Nat, data : Seq(Piece)])
  BY DEF Kinds
<1>3. k \in 1..Len(delivered') /\ delivered'[k] = delivered[k]
  <2>1. CASE delivered' = delivered
    BY <2>1
  <2>2. ASSUME NEW f \in [id : Nat, data : Seq(Piece)], delivered' = Append(delivered, f)
        PROVE  k \in 1..Len(delivered') /\ delivered'[k] = delivered[k]
    <3>1. Len(delivered') = Len(delivered) + 1 /\ delivered'[k] = delivered[k] /\ Len(delivered) \in Nat
      BY <1>2, <2>2, AppendProperties
    <3> QED  BY <3>1
  <2> QED  BY <2>1, <2>2
<1>4. PICK d : d = delivered[k]
  OBVIOUS
<1>5. d.id = id /\ IsIntact(d)'
  BY <1>1, <1>4 DEF IsIntact
<1> QED  BY <1>3, <1>4, <1>5 DEF IsDelivered

\* What Receive does with chunk c, of n, of frame id: put to what was gathered, or dropped.
Received(id, c, n, data) ==
  /\ received' = Append(received, [id |-> id, last |-> c = n])
  /\ c # expected => expected' = 1 /\ aggregated' = <<>> /\ delivered' = delivered
  /\ c = expected =>
       /\ current' = IF c = 1 THEN id ELSE current
       /\ IF c = n
          THEN /\ expected' = 1 /\ aggregated' = <<>>
               /\ delivered' = Append(delivered, [id |-> IF c = 1 THEN id ELSE current, data |-> aggregated \o data])
          ELSE expected' = NextChunk(expected) /\ aggregated' = aggregated \o data /\ delivered' = delivered

\* The chunk that is taken, and what becomes of the decoder's state.
LEMMA Takes ==
  ASSUME Kinds, NEW b \in Place, Queued(b), Receive, NEW id, id = channel[1].id,
         NEW c, c = channel[1].chunk, NEW n, n = ChunksOf(published, id)
  PROVE  /\ id \in 1..Len(published) /\ id \in Nat \ {0} /\ published[id] \in Nat
         /\ n \in Nat /\ c \in 1..n /\ c \in Nat \ {0} /\ b[1] \in Nat /\ b[2] \in Nat \ {0}
         /\ b[1] < id \/ (b[1] = id /\ b[2] < c)
         /\ PlaceOf(channel[1]) = <<id, c>>
         /\ Received(id, c, n, ChunkData(DataOf(published, id), c))
<1>1. channel # <<>> /\ channel \in Seq([id : Nat, chunk : Nat, chunks : Nat, data : Seq(Piece)])
  BY DEF Receive, Kinds
<1>2. 1 \in 1..Len(channel) /\ Head(channel) = channel[1]
  BY <1>1
<1>3. /\ id \in 1..Len(published) /\ published[id] \in Nat /\ c \in 1..n
      /\ channel[1].chunks = n /\ channel[1].data = ChunkData(DataOf(published, id), c)
      /\ id \in Nat /\ c \in Nat \ {0} /\ b[1] \in Nat /\ b[2] \in Nat \ {0}
      /\ b[1] < id \/ (b[1] = id /\ b[2] < c)
  BY <1>2, QueuedChunk
<1>4. n \in Nat /\ id # 0
  <2>1. PICK size : size = published[id]
    OBVIOUS
  <2>2. id \in Nat /\ size \in Nat /\ c \in 1..n /\ c \in Nat \ {0} /\ id \in 1..Len(published)
    BY <1>3, <2>1
  <2>3. Chunks(size) \in Nat
    BY <2>2, CutInChunks, Zenon
  <2>4. n \in Nat
    BY <2>1, <2>3, Zenon DEF ChunksOf
  <2>5. id # 0
    BY <2>2
  <2> QED  BY <2>4, <2>5
<1>5. received' = Append(received, [id |-> id, last |-> c = n])
  BY <1>2, <1>3 DEF Receive
<1>6. IF c = expected THEN Gather(channel[1]) ELSE Mismatch
  BY <1>2 DEF Receive
<1>7. ASSUME c # expected PROVE expected' = 1 /\ aggregated' = <<>> /\ delivered' = delivered
  BY <1>6, <1>7, Zenon DEF Mismatch, Reset
<1>8. ASSUME c = expected
      PROVE  /\ current' = IF c = 1 THEN id ELSE current
             /\ IF c = n
                THEN /\ expected' = 1 /\ aggregated' = <<>>
                     /\ delivered' = Append(delivered, [id |-> IF c = 1 THEN id ELSE current,
                                                       data |-> aggregated \o ChunkData(DataOf(published, id), c)])
                ELSE /\ expected' = NextChunk(expected) /\ delivered' = delivered
                     /\ aggregated' = aggregated \o ChunkData(DataOf(published, id), c)
  BY <1>3, <1>6, <1>8, Zenon DEF Gather, Reset
<1>9. PlaceOf(channel[1]) = <<id, c>>
  BY DEF PlaceOf
<1> QED  BY <1>3, <1>4, <1>5, <1>7, <1>8, <1>9, Zenon DEF Received

\* A decoder that has all of a frame up to chunk c - 1 has it up to c then, or delivers it.
LEMMA GoesOn ==
  ASSUME Kinds, NEW id \in 1..Len(published), published[id] \in Nat, NEW n \in Nat, n = ChunksOf(published, id),
         NEW c \in 1..n, c \in Nat \ {0}, n <= ByteRange - 1, published' = published,
         Received(id, c, n, ChunkData(DataOf(published, id), c)),
         c = expected, c = 1 \/ current = id,
         aggregated = SubSeq(DataOf(published, id), 1, (c - 1) * ChunkSize)
  PROVE  IF c = n THEN IsDelivered(id)'
         ELSE /\ expected' = c + 1 /\ current' = id
              /\ aggregated' = SubSeq(DataOf(published, id), 1, c * ChunkSize)
<1> DEFINE data == ChunkData(DataOf(published, id), c)
           f == [id |-> id, data |-> aggregated \o data]
<1>1. /\ data \in Seq(Piece)
      /\ aggregated \o data = IF c = n THEN DataOf(published, id) ELSE SubSeq(DataOf(published, id), 1, c * ChunkSize)
  <2>1. id \in Nat /\ c \in 1..Chunks(published[id])
    BY DEF ChunksOf
  <2>2. /\ ChunkData(Data(id, published[id]), c) \in Seq(Piece)
        /\ SubSeq(Data(id, published[id]), 1, (c - 1) * ChunkSize) \o ChunkData(Data(id, published[id]), c)
             = IF c = Chunks(published[id]) THEN Data(id, published[id])
               ELSE SubSeq(Data(id, published[id]), 1, c * ChunkSize)
    BY <2>1, ChunkGrows, ZenonT(60)
  <2> QED  BY <2>2, Zenon DEF DataOf, ChunksOf
<1>2. (IF c = 1 THEN id ELSE current) = id
  OBVIOUS
<1> HIDE DEF data
<1>3. /\ current' = id
      /\ IF c = n THEN delivered' = Append(delivered, f)
         ELSE expected' = NextChunk(expected) /\ aggregated' = aggregated \o data
  BY <1>2, Zenon DEF Received, data
<1>4. CASE c = n
  <2>1. /\ delivered \in Seq([id : Nat, data : Seq(Piece)]) /\ aggregated \in Seq(Piece)
    BY DEF Kinds
  <2>2. f \in [id : Nat, data : Seq(Piece)] /\ f.id = id /\ f.data = DataOf(published, id)
    <3>1. aggregated \o data \in Seq(Piece)
      BY <1>1, <2>1, ConcatProperties
    <3>2. PICK all : all = aggregated \o data
      OBVIOUS
    <3>3. all \in Seq(Piece) /\ all = DataOf(published, id)
      BY <1>1, <1>4, <3>1, <3>2, Zenon
    <3>4. f = [id |-> id, data |-> all] /\ id \in Nat
      BY <3>2
    <3> QED  BY <3>3, <3>4
  <2> HIDE DEF f
  <2>3. Len(delivered) \in Nat /\ Len(delivered') = Len(delivered) + 1 /\ delivered'[Len(delivered) + 1] = f
    BY <1>3, <1>4, <2>1, <2>2, AppendProperties
  <2>4. Len(delivered) + 1 \in 1..Len(delivered')
    BY <2>3
  <2>5. PICK d : d = f
    OBVIOUS
  <2>6. d.id = id /\ IsIntact(d)'
    BY <2>2, <2>5 DEF IsIntact, DataOf
  <2>7. IsDelivered(id)'
    BY <2>3, <2>4, <2>5, <2>6, Zenon DEF IsDelivered
  <2> QED  BY <1>4, <2>7
<1>5. CASE c # n
  <2>1. c + 1 < ByteRange /\ ByteRange \in Nat \ {0}
    BY <1>5, ChunksAssumption
  <2>2. NextChunk(c) = c + 1
    <3>1. \A a \in Nat, d \in Nat \ {0} : a < d => a % d = a
      OBVIOUS
    <3>2. c + 1 \in Nat
      OBVIOUS
    <3> QED  BY <2>1, <3>1, <3>2 DEF NextChunk
  <2>3. expected' = c + 1 /\ aggregated' = SubSeq(DataOf(published, id), 1, c * ChunkSize)
    BY <1>1, <1>3, <1>5, <2>2, Zenon
  <2> QED  BY <1>3, <1>5, <2>3, Zenon
<1> QED  BY <1>4, <1>5

\* The names of the properties and those of the lemmas say the same.
LEMMA ArrivedIs ==
  ASSUME NEW id
  PROVE  /\ ArrivedAt(id) = Among(received, id) /\ (BehindLast(id) <=> Behind(received, id))
         /\ ArrivedAt(id)' = Among(received', id) /\ (BehindLast(id)' <=> Behind(received', id))
BY Zenon DEF ArrivedAt, BehindLast, Among, Behind

\* After a chunk was taken the decoder is in step again, if its frame began behind a last one.
LEMMA InStepStep ==
  ASSUME Kinds, NEW b \in Place, Follows(b), Tally(b), published' = published,
         NEW id \in 1..Len(published), id \in Nat \ {0}, published[id] \in Nat,
         NEW n \in Nat, n = ChunksOf(published, id), NEW c \in 1..n, c \in Nat \ {0},
         b[1] < id \/ (b[1] = id /\ b[2] < c),
         Received(id, c, n, ChunkData(DataOf(published, id), c))
  PROVE  Cardinality(ArrivedAt(id)') <= c /\ InStepAt(<<id, c>>)'
<1> DEFINE l == Len(received)
           x == [id |-> id, last |-> c = n]
           Ready == /\ Cardinality(Among(received', id)) <= c
                    /\ Fits(id) /\ Cardinality(Among(received', id)) = c /\ Behind(received', id) =>
                         /\ c = expected /\ (c = 1 \/ current = id)
                         /\ aggregated = SubSeq(DataOf(published, id), 1, (c - 1) * ChunkSize)
<1>1. received \in Seq(Arrival) /\ x \in Arrival /\ received' = Append(received, x) /\ x.id = id /\ l \in Nat
  BY DEF Tally, Arrival, Received
<1> HIDE DEF x, l
<1>2. OneMore(received, received', l, x)
  BY <1>1, OneArrived DEF l
<1>3. /\ Cardinality(Among(received', id)) = Cardinality(Among(received, id)) + 1
      /\ Cardinality(Among(received, id)) \in Nat
      /\ Behind(received', id) => Behind(received, id)
      /\ Among(received', id) = Among(received, id) \cup {l + 1}
      /\ \A i \in 1..l : received'[i] = received[i]
  BY <1>1, <1>2, Zenon DEF OneMore
<1>4. b[1] \in Nat /\ b[2] \in Nat \ {0}
  BY DEF Place
<1>5. ASSUME b[1] = id PROVE Ready
  <2>1. b[2] < c /\ b[2] < n
    BY <1>4, <1>5
  <2>2. Cardinality(Among(received, id)) <= b[2] /\ InStepAt(b)
    <3>1. b[1] > 0
      BY <1>5
    <3> QED  BY <1>5, <3>1, ArrivedIs, Zenon DEF Tally
  <2>3. Cardinality(Among(received', id)) <= c
    BY <1>3, <1>4, <2>1, <2>2
  <2>4. ASSUME Fits(id), Cardinality(Among(received', id)) = c, Behind(received', id)
        PROVE  /\ c = expected /\ current = id
               /\ aggregated = SubSeq(DataOf(published, id), 1, (c - 1) * ChunkSize)
    <3>1. Cardinality(Among(received, id)) = b[2] /\ c = b[2] + 1 /\ c - 1 = b[2] /\ b[2] # n
      BY <1>3, <1>4, <2>1, <2>2, <2>4
    <3>2. /\ expected = b[2] + 1 /\ current = b[1]
          /\ aggregated = SubSeq(DataOf(published, b[1]), 1, b[2] * ChunkSize)
      BY <1>3, <1>5, <2>2, <2>4, <3>1, ArrivedIs, Zenon DEF InStepAt
    <3> QED  BY <1>5, <3>1, <3>2, Zenon
  <2> QED  BY <2>3, <2>4, Zenon
<1>6. ASSUME b[1] < id PROVE Ready
  <2>1. Among(received, id) = {} /\ Cardinality(Among(received, id)) = 0
    <3>1. \A i \in 1..Len(received) : received[i].id <= b[1]
      BY DEF Tally
    <3> QED  BY <1>1, <1>4, <1>6, <3>1, NoneArrived
  <2>2. Cardinality(Among(received', id)) = 1
    BY <1>3, <2>1
  <2>3. Cardinality(Among(received', id)) <= c
    BY <2>2
  <2>4. ASSUME Cardinality(Among(received', id)) = c, Behind(received', id)
        PROVE  /\ c = 1 /\ c = expected
               /\ aggregated = SubSeq(DataOf(published, id), 1, (c - 1) * ChunkSize)
    <3>1. l + 1 \in Among(received', id) /\ l \notin Among(received', id) /\ (l + 1) - 1 = l
      BY <1>1, <1>3, <2>1
    <3>2. l + 1 = 1 \/ received'[l].last
      BY <2>4, <3>1, Zenon DEF Behind
    <3>3. received = <<>> \/ received[l].last
      <4>1. l # 0 => l \in 1..l
        BY <1>1
      <4>2. l = 0 => received = <<>>
        BY <1>1, EmptySeq DEF l
      <4>3. l + 1 = 1 => l = 0
        BY <1>1
      <4> QED  BY <1>3, <3>2, <4>1, <4>2, <4>3, Zenon
    <3>4. expected = 1 /\ aggregated = <<>>
      BY <3>3 DEF Tally, l
    <3>5. c = 1 /\ (c - 1) * ChunkSize = 0
      BY <2>2, <2>4, ChunksAssumption
    <3>6. SubSeq(DataOf(published, id), 1, 0) = <<>>
      BY SubSeqEmpty
    <3> QED  BY <3>4, <3>5, <3>6, Zenon
  <2> QED  BY <2>3, <2>4, Zenon
<1>7. Ready
  BY <1>5, <1>6, Zenon
<1>8. ASSUME Fits(id), Cardinality(Among(received', id)) = c, Behind(received', id)
      PROVE  IF c = n THEN IsDelivered(id)'
             ELSE /\ expected' = c + 1 /\ current' = id
                  /\ aggregated' = SubSeq(DataOf(published, id), 1, c * ChunkSize)
  <2>1. n <= ByteRange - 1
    BY <1>8, ChunksAssumption DEF Fits, ChunksOf
  <2> QED  BY <1>7, <1>8, <2>1, GoesOn
<1>9. (Fits(id)' <=> Fits(id)) /\ ChunksOf(published', id) = n /\ DataOf(published', id) = DataOf(published, id)
  BY Zenon DEF Fits
<1>10. InStepAt(<<id, c>>)'
  BY <1>8, <1>9, ArrivedIs DEF InStepAt
<1> QED  BY <1>7, <1>10, ArrivedIs

\* Of the frames before that of the chunk that is taken no more chunks come.
LEMMA EarlierStep ==
  ASSUME Kinds, NEW b \in Place, Tally(b), published' = published,
         delivered' = delivered \/ (\E f \in [id : Nat, data : Seq(Piece)] : delivered' = Append(delivered, f)),
         NEW id \in Nat, NEW x \in Arrival, x.id = id, received' = Append(received, x), b[1] <= id,
         NEW i \in 1..id - 1,
         Fits(i)', Cardinality(ArrivedAt(i)') = ChunksOf(published', i), BehindLast(i)'
  PROVE  IsDelivered(i)'
<1>1. received \in Seq(Arrival) /\ Len(received) \in Nat
  BY DEF Tally, Arrival
<1>2. OneMore(received, received', Len(received), x)
  BY <1>1, OneArrived
<1>3. x.id # i /\ i \in Nat /\ i > 0
  OBVIOUS
<1>4. Among(received', i) = Among(received, i) /\ (Behind(received', i) => Behind(received, i))
  BY <1>2, <1>3, Zenon DEF OneMore
<1>5. Fits(i) /\ Cardinality(ArrivedAt(i)) = ChunksOf(published, i) /\ BehindLast(i)
  BY <1>4, ArrivedIs DEF Fits
<1>6. b[1] \in Nat /\ b[2] \in Nat \ {0}
  BY DEF Place
<1>7. CASE i < b[1]
  <2>1. i \in 1..b[1] - 1
    BY <1>3, <1>6, <1>7
  <2>2. IsDelivered(i)
    BY <1>5, <2>1 DEF Tally
  <2> QED  BY <2>2, StaysDelivered
<1>8. CASE i = b[1]
  <2>1. b[1] > 0 /\ Cardinality(ArrivedAt(i)) <= b[2] /\ InStepAt(b)
    BY <1>3, <1>8 DEF Tally
  <2>2. b[2] \in 1..ChunksOf(published, i) /\ i \in 1..Len(published)
    BY <1>3, <1>8 DEF Tally, LastArrived, Cut
  <2>3. ChunksOf(published, i) \in 1..ByteRange - 1
    BY <1>5 DEF Fits, ChunksOf
  <2>4. b[2] = ChunksOf(published, i)
    <3>1. PICK n : n = ChunksOf(published, i)
      OBVIOUS
    <3>2. n \in Nat /\ n <= b[2] /\ b[2] \in 1..n
      BY <1>5, <2>1, <2>2, <2>3, <3>1
    <3>3. b[2] = n
      BY <1>6, <3>2
    <3> QED  BY <3>1, <3>3
  <2>5. IsDelivered(i)
    BY <1>5, <1>8, <2>1, <2>4, Zenon DEF InStepAt
  <2> QED  BY <2>5, StaysDelivered
<1>9. CASE b[1] < i
  <2>1. Cardinality(Among(received, i)) = 0
    <3>1. \A j \in 1..Len(received) : received[j].id <= b[1]
      BY DEF Tally
    <3> QED  BY <1>1, <1>3, <1>6, <1>9, <3>1, NoneArrived
  <2>2. ChunksOf(published, i) \in 1..ByteRange - 1
    BY <1>5 DEF Fits, ChunksOf
  <2>3. FALSE
    BY <1>5, <2>1, <2>2, ArrivedIs
  <2> QED  BY <2>3
<1> QED  BY <1>3, <1>6, <1>7, <1>8, <1>9

\* What is delivered, if anything, is one frame more.
LEMMA OneDelivered ==
  ASSUME Kinds, NEW id \in Nat, NEW c \in Nat, NEW n \in Nat, NEW data \in Seq(Piece), Received(id, c, n, data)
  PROVE  delivered' = delivered \/ (\E f \in [id : Nat, data : Seq(Piece)] : delivered' = Append(delivered, f))
<1>1. current \in Nat /\ aggregated \in Seq(Piece)
  <2>1. current \in 0..Len(published) /\ Len(published) \in Nat /\ aggregated \in Seq(Piece)
    BY DEF Kinds
  <2> QED  BY <2>1
<1>2. aggregated \o data \in Seq(Piece)
  BY <1>1, ConcatProperties
<1>3. PICK all : all = aggregated \o data
  OBVIOUS
<1>4. PICK h : h = IF c = 1 THEN id ELSE current
  OBVIOUS
<1>5. [id |-> h, data |-> all] \in [id : Nat, data : Seq(Piece)]
  BY <1>1, <1>2, <1>3, <1>4
<1> QED  BY <1>3, <1>4, <1>5, Zenon DEF Received

\* The count goes on when a chunk is taken.
LEMMA ReceiveTallies ==
  ASSUME Kinds, NEW b \in Place, Follows(b), Tally(b), Receive, NEW e, e = PlaceOf(channel[1])
  PROVE  Tally(e)'
<1>1. published' = published /\ Queued(b)
  BY DEF Receive, Follows
<1>2. PICK id : id = channel[1].id  OBVIOUS
<1>3. PICK c : c = channel[1].chunk  OBVIOUS
<1>4. PICK n : n = ChunksOf(published, id)  OBVIOUS
<1>5. PICK data : data = ChunkData(DataOf(published, id), c)  OBVIOUS
<1>6. /\ id \in 1..Len(published) /\ id \in Nat \ {0} /\ published[id] \in Nat
      /\ n \in Nat /\ c \in 1..n /\ c \in Nat \ {0} /\ b[1] \in Nat /\ b[2] \in Nat \ {0}
      /\ b[1] < id \/ (b[1] = id /\ b[2] < c)
      /\ PlaceOf(channel[1]) = <<id, c>>
      /\ Received(id, c, n, ChunkData(DataOf(published, id), c))
  BY <1>1, <1>2, <1>3, <1>4, Takes
<1>7. e = <<id, c>> /\ Received(id, c, n, data)
  BY <1>5, <1>6
<1>8. data \in Seq(Piece)
  <2>1. c \in 1..Chunks(published[id])
    BY <1>4, <1>6 DEF ChunksOf
  <2>2. ChunkData(Data(id, published[id]), c) \in Seq(Piece)
    BY <1>6, <2>1, ChunkGrows, ZenonT(60)
  <2> QED  BY <1>5, <2>2 DEF DataOf
<1>9. PICK x : x = [id |-> id, last |-> c = n]
  OBVIOUS
<1>10. PICK l : l = Len(received)
  OBVIOUS
<1>11. /\ received \in Seq(Arrival) /\ l \in Nat /\ x \in Arrival /\ x.id = id /\ (x.last <=> c = n)
       /\ received' = Append(received, x)
  <2>1. received \in Seq(Arrival)
    BY DEF Tally, Arrival
  <2>2. x \in Arrival /\ x.id = id /\ (x.last <=> c = n)
    BY <1>6, <1>9 DEF Arrival
  <2>3. received' = Append(received, x)
    BY <1>7, <1>9, Zenon DEF Received
  <2> QED  BY <1>10, <2>1, <2>2, <2>3, LenProperties
<1>12. /\ received' \in Seq(Arrival) /\ Len(received') = l + 1 /\ received'[l + 1] = x
       /\ \A i \in 1..l : received'[i] = received[i]
  BY <1>10, <1>11, AppendProperties
<1>13. received' # <<>>
  BY <1>11, <1>12, EmptySeq
<1>14. delivered' = delivered \/ (\E f \in [id : Nat, data : Seq(Piece)] : delivered' = Append(delivered, f))
  BY <1>6, <1>7, <1>8, OneDelivered
<1>15. b[1] <= id
  BY <1>6
<1>16. \A i \in 1..Len(received') : received'[i].id <= id
  <2>1. \A i \in 1..l : received[i].id <= b[1] /\ received[i].id \in Nat
    <3>1. \A i \in 1..l : received[i] \in Arrival
      BY <1>10, <1>11, ElementOfSeq
    <3>2. \A y \in Arrival : y.id \in Nat
      BY DEF Arrival
    <3>3. \A i \in 1..l : received[i].id <= b[1]
      BY <1>10, Zenon DEF Tally
    <3> QED  BY <3>1, <3>2, <3>3, Zenon
  <2>2. ASSUME NEW i \in 1..l PROVE received'[i].id <= id
    <3>1. PICK y : y = received[i].id
      OBVIOUS
    <3>2. y <= b[1] /\ y \in Nat
      BY <2>1, <3>1, Zenon
    <3>3. y <= id
      BY <1>6, <1>15, <3>2
    <3> QED  BY <1>12, <3>1, <3>3, Zenon
  <2>3. received'[l + 1].id <= id
    BY <1>6, <1>11, <1>12
  <2>4. \A i \in 1..l + 1 : i \in 1..l \/ i = l + 1
    BY <1>11
  <2> QED  BY <1>12, <2>2, <2>3, <2>4, Zenon
<1>17. LastArrived(e)'
  <2>1. Cut(published', e) /\ e[1] = id /\ e[2] = c
    BY <1>1, <1>4, <1>6, <1>7 DEF Cut
  <2>2. ChunksOf(published', e[1]) = n
    BY <1>1, <1>4, <2>1, Zenon
  <2> QED  BY <1>11, <1>12, <1>13, <2>1, <2>2, Zenon DEF LastArrived
<1>18. received'[Len(received')].last => expected' = 1 /\ aggregated' = <<>>
  <2>1. HAVE received'[Len(received')].last
  <2>2. c = n
    BY <1>11, <1>12, <2>1, Zenon
  <2> QED  BY <1>7, <2>2, Zenon DEF Received
<1>19. Cardinality(ArrivedAt(id)') <= c /\ InStepAt(<<id, c>>)'
  BY <1>1, <1>4, <1>6, InStepStep
<1>20. \A i \in 1..id - 1 :
         Fits(i)' /\ Cardinality(ArrivedAt(i)') = ChunksOf(published', i) /\ BehindLast(i)' => IsDelivered(i)'
  BY <1>1, <1>6, <1>11, <1>14, <1>15, EarlierStep
<1>21. e[1] = id /\ e[2] = c
  BY <1>7
<1>22. received' = <<>> \/ received'[Len(received')].last => expected' = 1 /\ aggregated' = <<>>
  BY <1>13, <1>18, Zenon
<1>23. Cardinality(ArrivedAt(e[1])') <= e[2] /\ InStepAt(e)'
  BY <1>7, <1>19, <1>21, Zenon
<1>24. \A i \in 1..Len(received') : received'[i].id <= e[1]
  BY <1>16, <1>21, Zenon
<1>25. \A i \in 1..e[1] - 1 :
         Fits(i)' /\ Cardinality(ArrivedAt(i)') = ChunksOf(published', i) /\ BehindLast(i)' => IsDelivered(i)'
  BY <1>20, <1>21, Zenon
<1>26. received' \in Seq([id : Nat, last : BOOLEAN])
  BY <1>12, Zenon DEF Arrival
<1> QED  BY <1>17, <1>22, <1>23, <1>24, <1>25, <1>26, Zenon DEF Tally

\* What arrived and what came of it stays as it is while frames are published and chunks lost.
Kept ==
  /\ UNCHANGED <<expected, current, aggregated, received, delivered>>
  /\ \A id \in 1..Len(published) : id \in 1..Len(published') /\ published'[id] = published[id]
  /\ (lost' = 0 => lost = 0) /\ (lost' < 2 => lost < 2)

\* Nothing is said anew of a frame when nothing arrives.
LEMMA KeptFrame ==
  ASSUME Kept, NEW id \in 1..Len(published)
  PROVE  /\ ArrivedAt(id)' = ArrivedAt(id) /\ (BehindLast(id)' <=> BehindLast(id))
         /\ (Fits(id)' <=> Fits(id)) /\ (IsDelivered(id) => IsDelivered(id)')
         /\ ChunksOf(published', id) = ChunksOf(published, id) /\ DataOf(published', id) = DataOf(published, id)
<1>1. received' = received /\ delivered' = delivered /\ published'[id] = published[id]
  BY DEF Kept
<1>2. ArrivedAt(id)' = ArrivedAt(id) /\ (BehindLast(id)' <=> BehindLast(id))
  BY <1>1, Zenon DEF ArrivedAt, BehindLast
<1>3. Fits(id)' <=> Fits(id)
  BY <1>1, Zenon DEF Fits
<1>4. ASSUME IsDelivered(id) PROVE IsDelivered(id)'
  <2>1. PICK k \in 1..Len(delivered) : delivered[k].id = id /\ IsIntact(delivered[k])
    BY <1>4 DEF IsDelivered
  <2>2. PICK d : d = delivered[k]
    OBVIOUS
  <2>3. d.id = id /\ IsIntact(d)'
    BY <1>1, <2>1, <2>2, Zenon DEF IsIntact
  <2> QED  BY <1>1, <2>1, <2>2, <2>3, Zenon DEF IsDelivered
<1> QED  BY <1>1, <1>2, <1>3, <1>4, Zenon DEF ChunksOf, DataOf

\* The count stays as it is when nothing arrives.
LEMMA KeptTallies ==
  ASSUME Kinds, NEW b \in Place, Follows(b), Tally(b), Lossless(b), Kept
  PROVE  Tally(b)' /\ Lossless(b)'
<1>1. b[1] \in Nat /\ b[2] \in Nat \ {0} /\ b[1] <= Len(published) /\ Len(published) \in Nat
  BY DEF Place, Follows, Queued, Kinds
<1>2. /\ b[1] > 0 => b[1] \in 1..Len(published)
      /\ \A id \in 1..b[1] - 1 : id \in 1..Len(published)
  BY <1>1
<1>3. UNCHANGED <<expected, current, aggregated, received, delivered>>
  BY DEF Kept
<1>4. \A id \in 1..Len(published) :
         /\ ArrivedAt(id)' = ArrivedAt(id) /\ (BehindLast(id)' <=> BehindLast(id))
         /\ (Fits(id)' <=> Fits(id)) /\ (IsDelivered(id) => IsDelivered(id)')
         /\ ChunksOf(published', id) = ChunksOf(published, id) /\ DataOf(published', id) = DataOf(published, id)
  BY KeptFrame, Zenon
<1>5. LastArrived(b)'
  <2>1. CASE received = <<>>
    BY <1>3, <2>1 DEF Tally, LastArrived
  <2>2. CASE received # <<>>
    <3>1. /\ b[1] \in 1..Len(published) /\ b[2] \in 1..ChunksOf(published, b[1]) /\ received[Len(received)].id = b[1]
          /\ received[Len(received)].last <=> b[2] = ChunksOf(published, b[1])
      BY <2>2 DEF Tally, LastArrived, Cut
    <3>2. b[1] \in 1..Len(published') /\ ChunksOf(published', b[1]) = ChunksOf(published, b[1])
      BY <1>4, <3>1, Zenon DEF Kept
    <3> QED  BY <1>3, <2>2, <3>1, <3>2, Zenon DEF LastArrived, Cut
  <2> QED  BY <2>1, <2>2
<1>6. ASSUME b[1] > 0 PROVE Cardinality(ArrivedAt(b[1])') <= b[2] /\ InStepAt(b)'
  <2>1. b[1] \in 1..Len(published)
    BY <1>2, <1>6
  <2>2. /\ ArrivedAt(b[1])' = ArrivedAt(b[1]) /\ (BehindLast(b[1])' <=> BehindLast(b[1]))
        /\ (Fits(b[1])' <=> Fits(b[1])) /\ (IsDelivered(b[1]) => IsDelivered(b[1])')
        /\ ChunksOf(published', b[1]) = ChunksOf(published, b[1])
        /\ DataOf(published', b[1]) = DataOf(published, b[1])
    BY <1>4, <2>1, Zenon
  <2>3. Cardinality(ArrivedAt(b[1])) <= b[2] /\ InStepAt(b)
    BY <1>6 DEF Tally
  <2>4. InStepAt(b)'
    BY <1>3, <2>2, <2>3, Zenon DEF InStepAt
  <2> QED  BY <2>2, <2>3, <2>4
<1>7. ASSUME NEW id \in 1..b[1] - 1,
             Fits(id)', Cardinality(ArrivedAt(id)') = ChunksOf(published', id), BehindLast(id)'
      PROVE  IsDelivered(id)'
  <2>1. Fits(id) /\ Cardinality(ArrivedAt(id)) = ChunksOf(published, id) /\ BehindLast(id)
    BY <1>2, <1>4, <1>7, Zenon
  <2>2. IsDelivered(id)
    BY <2>1, Zenon DEF Tally
  <2> QED  BY <1>2, <1>4, <2>2, Zenon
<1>8. /\ received' \in Seq([id : Nat, last : BOOLEAN])
      /\ \A i \in 1..Len(received') : received'[i].id <= b[1]
      /\ received' = <<>> \/ received'[Len(received')].last => expected' = 1 /\ aggregated' = <<>>
  BY <1>3 DEF Tally
<1>9. Tally(b)'
  BY <1>5, <1>6, <1>7, <1>8, Zenon DEF Tally
<1>10. ASSUME lost' = 0
       PROVE  /\ \A i \in 2..Len(received') : received'[i - 1].last \/ received'[i - 1].id = received'[i].id
              /\ \A id \in 1..b[1] - 1 : Cardinality(ArrivedAt(id)') = ChunksOf(published', id)
              /\ b[1] > 0 => Cardinality(ArrivedAt(b[1])') = b[2]
  <2>1. /\ \A i \in 2..Len(received) : received[i - 1].last \/ received[i - 1].id = received[i].id
        /\ \A id \in 1..b[1] - 1 : Cardinality(ArrivedAt(id)) = ChunksOf(published, id)
        /\ b[1] > 0 => Cardinality(ArrivedAt(b[1])) = b[2]
    BY <1>10, Zenon DEF Lossless, Kept
  <2>2. received' = received
    BY <1>3
  <2>3. \A id \in 1..b[1] - 1 : Cardinality(ArrivedAt(id)') = ChunksOf(published', id)
    BY <1>2, <1>4, <2>1, Zenon
  <2>4. b[1] > 0 => Cardinality(ArrivedAt(b[1])') = b[2]
    BY <1>2, <1>4, <2>1, Zenon
  <2> QED  BY <2>1, <2>2, <2>3, <2>4, Zenon
<1>11. ASSUME lost' < 2, NEW k \in 1..Len(delivered') PROVE Fits(delivered[k].id)'
  <2>1. lost < 2 /\ delivered' = delivered
    BY <1>3, <1>11 DEF Kept
  <2>2. PICK d : d = delivered[k].id
    OBVIOUS
  <2>3. d \in 1..Len(published)
    BY <1>11, <2>1, <2>2 DEF Follows, Whole, Intact
  <2>4. Fits(d)
    BY <1>11, <2>1, <2>2, Zenon DEF Lossless
  <2>5. Fits(d)'
    BY <1>4, <2>3, <2>4, Zenon
  <2> QED  BY <2>1, <2>2, <2>5, Zenon DEF Fits
<1>12. Lossless(b)'
  BY <1>10, <1>11, Zenon DEF Lossless
<1> QED  BY <1>9, <1>12

\* Place <<id, c>> is the next behind b that there is a chunk of.
NextBehind(b, id, c, pub) ==
  /\ b[1] = id => c = b[2] + 1
  /\ b[1] < id => /\ c = 1
                  /\ \A i \in 1..id - 1 : b[1] < i => ChunksOf(pub, i) = 0
                  /\ b[1] > 0 => b[2] = ChunksOf(pub, b[1])

\* If no chunk behind b is missing, the one that is taken is the next.
LEMMA NoneMissing ==
  ASSUME Kinds, NEW b \in Place, Queued(b), b[1] > 0 => Cut(published, b),
         \A p \in Piece : ~Missing(published, channel, b, p),
         NEW id \in 1..Len(published), id \in Nat \ {0}, NEW n \in Nat, n = ChunksOf(published, id),
         NEW c \in 1..n, c \in Nat \ {0},
         b[1] < id \/ (b[1] = id /\ b[2] < c),
         \A p \in Piece : Before(p, <<id, c>>) => \A k \in 1..Len(channel) : PlaceOf(channel[k]) # p
  PROVE  NextBehind(b, id, c, published)
<1>1. b[1] \in Nat /\ b[2] \in Nat \ {0} /\ Len(published) \in Nat
  BY DEF Place, Kinds
<1>2. ASSUME NEW i \in 1..Len(published), i \in Nat, NEW j \in 1..ChunksOf(published, i), j \in Nat,
             b[1] < i \/ (b[1] = i /\ b[2] < j), i < id \/ (i = id /\ j < c)
      PROVE  FALSE
  <2>1. PICK p : p = <<i, j>>
    OBVIOUS
  <2>2. p \in Piece /\ Cut(published, p) /\ Before(b, p) /\ Before(p, <<id, c>>)
    BY <1>2, <2>1 DEF Piece, Cut, Before
  <2> QED  BY <2>2, Zenon DEF Missing
<1>3. \A i \in 1..Len(published) : i \in Nat /\ ChunksOf(published, i) \in Nat
  <2>1. TAKE i \in 1..Len(published)
  <2>2. i \in Nat
    BY <1>1
  <2>3. published \in Seq(Sizes) /\ Sizes \subseteq Nat
    BY ChunksAssumption DEF Kinds
  <2>4. published[i] \in Nat
    BY <2>3, ElementOfSeq
  <2> QED  BY <2>2, <2>4, CutInChunks DEF ChunksOf
<1>4. ASSUME b[1] = id PROVE c = b[2] + 1
  <2>1. SUFFICES ASSUME c # b[2] + 1 PROVE FALSE
    OBVIOUS
  <2>2. b[2] + 1 \in 1..n /\ b[2] + 1 \in Nat /\ b[2] < b[2] + 1 /\ b[2] + 1 < c
    BY <1>1, <1>4, <2>1
  <2> QED  BY <1>2, <1>4, <2>2, Zenon
<1>5. ASSUME b[1] < id
      PROVE  /\ c = 1
             /\ \A i \in 1..id - 1 : b[1] < i => ChunksOf(published, i) = 0
             /\ b[1] > 0 => b[2] = ChunksOf(published, b[1])
  <2>1. c = 1
    <3>1. SUFFICES ASSUME c # 1 PROVE FALSE
      OBVIOUS
    <3>2. 1 \in 1..n /\ 1 < c /\ 1 \in Nat
      BY <3>1
    <3> QED  BY <1>2, <1>5, <3>2, Zenon
  <2>2. ASSUME NEW i \in 1..id - 1, b[1] < i PROVE ChunksOf(published, i) = 0
    <3>1. i \in 1..Len(published) /\ i < id
      BY <1>1
    <3>2. PICK m : m = ChunksOf(published, i)
      OBVIOUS
    <3>3. m \in Nat /\ (m # 0 => 1 \in 1..m) /\ 1 \in Nat
      BY <1>3, <3>1, <3>2
    <3> QED  BY <1>2, <1>3, <2>2, <3>1, <3>2, <3>3, Zenon
  <2>3. ASSUME b[1] > 0 PROVE b[2] = ChunksOf(published, b[1])
    <3>1. b[1] \in 1..Len(published) /\ b[2] \in 1..ChunksOf(published, b[1])
      BY <2>3 DEF Cut
    <3>2. PICK m : m = ChunksOf(published, b[1])
      OBVIOUS
    <3>3. m \in Nat /\ (b[2] # m => b[2] + 1 \in 1..m) /\ b[2] + 1 \in Nat /\ b[2] < b[2] + 1
      BY <1>1, <1>3, <3>1, <3>2
    <3> QED  BY <1>1, <1>2, <1>5, <3>1, <3>2, <3>3, Zenon
  <2> QED  BY <2>1, <2>2, <2>3, Zenon
<1> QED  BY <1>4, <1>5, Zenon DEF NextBehind

\* A place of no chunk that arrived is that of none published: b is <<0, _>> then.
LEMMA PlaceArrived ==
  ASSUME NEW b \in Place, Tally(b)
  PROVE  /\ received = <<>> <=> b[1] = 0
         /\ b[1] > 0 => /\ Cut(published, b) /\ received[Len(received)].id = b[1]
                        /\ received[Len(received)].last <=> b[2] = ChunksOf(published, b[1])
<1>1. LastArrived(b) /\ b[1] \in Nat
  BY DEF Tally, Place
<1>2. Cut(published, b) => b[1] # 0
  BY DEF Cut
<1>3. b[1] > 0 <=> b[1] # 0
  BY <1>1
<1> QED  BY <1>1, <1>2, <1>3, Zenon DEF LastArrived

\* While no chunk was lost each one that is taken is the next.
LEMMA ReceiveCounts ==
  ASSUME Kinds, NEW b \in Place, Tally(b), NEW id \in 1..Len(published), id \in Nat \ {0},
         NEW c \in Nat \ {0}, b[1] <= id, NextBehind(b, id, c, published),
         published' = published, NEW x \in Arrival, x.id = id, received' = Append(received, x),
         \A i \in 2..Len(received) : received[i - 1].last \/ received[i - 1].id = received[i].id,
         \A i \in 1..b[1] - 1 : Cardinality(ArrivedAt(i)) = ChunksOf(published, i),
         b[1] > 0 => Cardinality(ArrivedAt(b[1])) = b[2]
  PROVE  /\ \A i \in 2..Len(received') : received'[i - 1].last \/ received'[i - 1].id = received'[i].id
         /\ \A i \in 1..id - 1 : Cardinality(ArrivedAt(i)') = ChunksOf(published', i)
         /\ Cardinality(ArrivedAt(id)') = c
<1>1. received \in Seq(Arrival) /\ Len(received) \in Nat /\ b[1] \in Nat /\ b[2] \in Nat \ {0}
  BY DEF Tally, Arrival, Place
<1>2. PICK l : l = Len(received)
  OBVIOUS
<1>3. OneMore(received, received', l, x) /\ l \in Nat
  BY <1>1, <1>2, OneArrived
<1>4. \A i \in Nat : b[1] < i => Cardinality(Among(received, i)) = 0
  <2>1. \A i \in 1..Len(received) : received[i].id <= b[1]
    BY DEF Tally
  <2> QED  BY <1>1, <2>1, NoneArrived
<1>5. /\ received = <<>> <=> b[1] = 0
      /\ b[1] > 0 => /\ Cut(published, b) /\ received[l].id = b[1]
                     /\ received[l].last <=> b[2] = ChunksOf(published, b[1])
  BY <1>2, PlaceArrived
<1>6. /\ Len(received') = l + 1 /\ received'[l + 1] = x /\ \A i \in 1..l : received'[i] = received[i]
      /\ \A i : Cardinality(Among(received', i)) = Cardinality(Among(received, i)) + IF x.id = i THEN 1 ELSE 0
      /\ \A i : Cardinality(Among(received, i)) \in Nat
  BY <1>3, Zenon DEF OneMore
<1>7. ASSUME NEW i \in 2..Len(received') PROVE received'[i - 1].last \/ received'[i - 1].id = received'[i].id
  <2>1. i \in 2..l \/ i = l + 1
    BY <1>3, <1>6
  <2>2. CASE i \in 2..l
    <3>1. i \in 1..l /\ i - 1 \in 1..l
      BY <1>3, <2>2
    <3>2. received[i - 1].last \/ received[i - 1].id = received[i].id
      BY <1>2, <2>2
    <3> QED  BY <1>6, <3>1, <3>2, Zenon
  <2>3. CASE i = l + 1
    <3>1. l \in 1..l /\ i - 1 = l /\ l # 0
      BY <1>3, <1>6, <2>3
    <3>2. b[1] > 0
      <4>1. received # <<>>
        BY <1>2, <3>1
      <4> QED  BY <1>1, <1>5, <4>1
    <3>3. b[1] = id \/ received[l].last
      <4>1. b[1] = id \/ b[1] < id
        BY <1>1
      <4> QED  BY <1>5, <3>2, <4>1, Zenon DEF NextBehind
    <3>4. received'[l] = received[l] /\ received'[i] = x
      BY <1>6, <2>3, <3>1, Zenon
    <3> QED  BY <1>5, <3>1, <3>2, <3>3, <3>4, Zenon
  <2> QED  BY <2>1, <2>2, <2>3
<1>8. ASSUME NEW i \in 1..id - 1 PROVE Cardinality(ArrivedAt(i)') = ChunksOf(published', i)
  <2>1. i \in Nat /\ i # id /\ i > 0 /\ (i < b[1] \/ i = b[1] \/ b[1] < i)
    BY <1>1
  <2>2. Cardinality(Among(received', i)) = Cardinality(Among(received, i))
    <3>1. Cardinality(Among(received, i)) \in Nat
            /\ Cardinality(Among(received', i)) = Cardinality(Among(received, i)) + 0
      BY <1>6, <2>1, Zenon
    <3> QED  BY <3>1
  <2>3. CASE i < b[1]
    <3>1. i \in 1..b[1] - 1
      BY <1>1, <2>1, <2>3
    <3> QED  BY <2>2, <3>1, ArrivedIs, Zenon
  <2>4. CASE i = b[1]
    <3>1. b[1] > 0 /\ b[1] < id
      BY <1>1, <2>1, <2>4
    <3> QED  BY <2>2, <2>4, <3>1, ArrivedIs, Zenon DEF NextBehind
  <2>5. CASE b[1] < i
    <3>1. b[1] < id
      BY <1>1, <2>5
    <3>2. ChunksOf(published, i) = 0
      BY <2>5, <3>1, Zenon DEF NextBehind
    <3> QED  BY <1>4, <2>1, <2>2, <2>5, <3>2, ArrivedIs, Zenon
  <2> QED  BY <2>1, <2>3, <2>4, <2>5
<1>9. Cardinality(ArrivedAt(id)') = c
  <2>1. Cardinality(Among(received', id)) = Cardinality(Among(received, id)) + 1
    BY <1>6, Zenon
  <2>2. CASE b[1] = id
    <3>1. Cardinality(Among(received, id)) = b[2]
      <4>1. b[1] > 0
        BY <2>2
      <4> QED  BY <2>2, <4>1, ArrivedIs, Zenon
    <3> QED  BY <2>1, <2>2, <3>1, ArrivedIs, Zenon DEF NextBehind
  <2>3. CASE b[1] < id
    <3>1. Cardinality(Among(received, id)) = 0 /\ c = 1
      BY <1>4, <2>3, Zenon DEF NextBehind
    <3> QED  BY <2>1, <3>1, ArrivedIs
  <2> QED  BY <1>1, <2>2, <2>3
<1> QED  BY <1>7, <1>8, <1>9, Zenon

\* With one chunk lost at most, what is delivered has numbers _chunk can hold.
LEMMA DeliversFitting ==
  ASSUME Kinds, NEW b \in Place, Follows(b), Whole(b), \A k \in 1..Len(delivered) : Fits(delivered[k].id),
         channel # <<>>, published' = published, NEW id, id = channel[1].id, NEW c, c = channel[1].chunk,
         id \in Nat, c \in Nat \ {0}, NEW n \in Nat, n = ChunksOf(published, id), c \in 1..n,
         NEW data \in Seq(Piece), Received(id, c, n, data),
         \A p \in Piece : Before(p, <<id, c>>) => \A k \in 1..Len(channel) : PlaceOf(channel[k]) # p
  PROVE  \A k \in 1..Len(delivered') : Fits(delivered'[k].id)
<1>1. CASE delivered' = delivered
  BY <1>1
<1>2. CASE delivered' # delivered
  <2>1. c = expected /\ c = n
    BY <1>2, Zenon DEF Received
  <2>2. (IF c = 1 THEN id ELSE current) = id
    BY <2>1, SameFrame DEF Follows
  <2>3. PICK f : f = [id |-> id, data |-> aggregated \o data]
    OBVIOUS
  <2>4. delivered' = Append(delivered, f)
    BY <2>1, <2>2, <2>3, Zenon DEF Received
  <2>5. aggregated \o data \in Seq(Piece)
    <3>1. aggregated \in Seq(Piece)
      BY DEF Kinds
    <3> QED  BY <3>1, ConcatProperties
  <2>6. f \in [id : Nat, data : Seq(Piece)] /\ f.id = id
    BY <2>3, <2>5
  <2>7. delivered \in Seq([id : Nat, data : Seq(Piece)])
    BY DEF Kinds
  <2>8. /\ Len(delivered) \in Nat /\ Len(delivered') = Len(delivered) + 1
        /\ delivered'[Len(delivered) + 1] = f
        /\ \A k \in 1..Len(delivered) : delivered'[k] = delivered[k]
    BY <2>4, <2>6, <2>7, AppendProperties
  <2>9. Fits(id)
    <3>1. expected \in 0..ByteRange - 1 /\ ByteRange \in Nat
      BY ChunksAssumption DEF Kinds
    <3>2. n \in 1..ByteRange - 1
      BY <2>1, <3>1
    <3> QED  BY <3>2 DEF Fits, ChunksOf
  <2>10. \A k \in 1..Len(delivered') : k \in 1..Len(delivered) \/ k = Len(delivered) + 1
    BY <2>8
  <2> QED  BY <2>6, <2>8, <2>9, <2>10, Zenon
<1> QED  BY <1>1, <1>2

\* Without loss the count of what arrived goes on, too.
LEMMA ReceiveLossless ==
  ASSUME Kinds, NEW b \in Place, Follows(b), Tally(b), Lossless(b), Receive, NEW e, e = PlaceOf(channel[1])
  PROVE  Lossless(e)'
<1>1. published' = published /\ lost' = lost /\ channel' = Tail(channel) /\ channel # <<>>
      /\ Queued(b) /\ (lost < 2 => Whole(b)) /\ lost \in 0..MaxLost
  BY DEF Receive, Follows, Kinds
<1>2. PICK id : id = channel[1].id  OBVIOUS
<1>3. PICK c : c = channel[1].chunk  OBVIOUS
<1>4. PICK n : n = ChunksOf(published, id)  OBVIOUS
<1>5. PICK data : data = ChunkData(DataOf(published, id), c)  OBVIOUS
<1>6. /\ id \in 1..Len(published) /\ id \in Nat \ {0} /\ published[id] \in Nat
      /\ n \in Nat /\ c \in 1..n /\ c \in Nat \ {0} /\ b[1] \in Nat /\ b[2] \in Nat \ {0}
      /\ b[1] < id \/ (b[1] = id /\ b[2] < c)
      /\ PlaceOf(channel[1]) = <<id, c>>
      /\ Received(id, c, n, ChunkData(DataOf(published, id), c))
  BY <1>1, <1>2, <1>3, <1>4, Takes
<1>7. e = <<id, c>> /\ Received(id, c, n, data)
  BY <1>5, <1>6
<1>8. data \in Seq(Piece)
  <2>1. c \in 1..Chunks(published[id])
    BY <1>4, <1>6 DEF ChunksOf
  <2>2. ChunkData(Data(id, published[id]), c) \in Seq(Piece)
    BY <1>6, <2>1, ChunkGrows, ZenonT(60)
  <2> QED  BY <1>5, <2>2 DEF DataOf
<1>9. PICK x : x = [id |-> id, last |-> c = n]
  OBVIOUS
<1>10. x \in Arrival /\ x.id = id /\ received' = Append(received, x)
  <2>1. x \in Arrival /\ x.id = id
    BY <1>6, <1>9 DEF Arrival
  <2> QED  BY <1>7, <1>9, <2>1, Zenon DEF Received
<1>11. \A p \in Piece : Before(p, <<id, c>>) => \A k \in 1..Len(channel) : PlaceOf(channel[k]) # p
  BY <1>1, <1>7, HeadTaken
<1>12. e[1] = id /\ e[2] = c /\ b[1] <= id /\ (b[1] > 0 => Cut(published, b))
  <2>1. b[1] > 0 => Cut(published, b)
    BY PlaceArrived
  <2> QED  BY <1>6, <1>7, <2>1
<1>13. ASSUME lost' = 0
       PROVE  /\ \A i \in 2..Len(received') : received'[i - 1].last \/ received'[i - 1].id = received'[i].id
              /\ \A i \in 1..id - 1 : Cardinality(ArrivedAt(i)') = ChunksOf(published', i)
              /\ Cardinality(ArrivedAt(id)') = c
  <2>1. lost = 0 /\ Whole(b)
    BY <1>1, <1>13
  <2>2. \A p \in Piece : ~Missing(published, channel, b, p)
    BY <2>1, Zenon DEF Whole
  <2>3. NextBehind(b, id, c, published)
    BY <1>1, <1>4, <1>6, <1>11, <1>12, <2>2, NoneMissing
  <2>4. /\ \A i \in 2..Len(received) : received[i - 1].last \/ received[i - 1].id = received[i].id
        /\ \A i \in 1..b[1] - 1 : Cardinality(ArrivedAt(i)) = ChunksOf(published, i)
        /\ b[1] > 0 => Cardinality(ArrivedAt(b[1])) = b[2]
    BY <2>1, Zenon DEF Lossless
  <2> QED  BY <1>1, <1>6, <1>10, <1>12, <2>3, <2>4, ReceiveCounts
<1>14. ASSUME lost' < 2 PROVE \A k \in 1..Len(delivered') : Fits(delivered'[k].id)
  <2>1. Whole(b) /\ \A k \in 1..Len(delivered) : Fits(delivered[k].id)
    BY <1>1, <1>14, Zenon DEF Lossless
  <2> QED  BY <1>1, <1>2, <1>3, <1>4, <1>6, <1>7, <1>8, <1>11, <2>1, DeliversFitting
<1>15. \A d : Fits(d)' <=> Fits(d)
  BY <1>1, Zenon DEF Fits
<1>16. ASSUME lost' < 2, NEW k \in 1..Len(delivered') PROVE Fits(delivered[k].id)'
  <2>1. PICK d : d = delivered'[k].id
    OBVIOUS
  <2>2. Fits(d)'
    BY <1>14, <1>15, <1>16, <2>1, Zenon
  <2> QED  BY <2>1, <2>2, Zenon DEF Fits
<1>17. /\ \A i \in 1..e[1] - 1 : Cardinality(ArrivedAt(i)') = ChunksOf(published', i) \/ lost' # 0
       /\ Cardinality(ArrivedAt(e[1])') = e[2] \/ lost' # 0
  BY <1>12, <1>13, Zenon
<1> QED  BY <1>13, <1>16, <1>17, Zenon DEF Lossless

\* With nothing published nothing arrived.
LEMMA NothingTallied ==
  ASSUME ChunksInit
  PROVE  Tallied
<1> DEFINE b == <<0, 1>>
<1>1. /\ published = <<>> /\ channel = <<>> /\ received = <<>> /\ delivered = <<>> /\ lost = 0
      /\ expected = 1 /\ current = 0 /\ aggregated = <<>>
  BY DEF ChunksInit
<1>2. Kinds
  BY NothingCarried DEF Carried
<1>3. Queued(b) /\ Taken(b)
  BY <1>1 DEF Queued, Taken, FramesInOrder
<1>4. Whole(b)
  <2>1. \A p \in Piece : ~Missing(published, channel, b, p)
    BY <1>1 DEF Missing, Cut
  <2> QED  BY <1>1, <2>1 DEF Whole
<1>5. b \in Place /\ b[1] = 0
  BY DEF Place
<1>6. Tally(b)
  <2>1. received \in Seq([id : Nat, last : BOOLEAN]) /\ Len(received) = 0
    BY <1>1, EmptySeq
  <2>2. LastArrived(b)
    BY <1>1 DEF LastArrived
  <2> QED  BY <1>1, <2>1, <2>2 DEF Tally
<1>7. Lossless(b)
  BY <1>1 DEF Lossless
<1> QED  BY <1>2, <1>3, <1>4, <1>5, <1>6, <1>7, Zenon DEF Tallied, Follows

\* Every step of a frame's way keeps the count.
LEMMA StepTallies ==
  ASSUME Tallied, [ChunksNext]_chunkVars
  PROVE  Tallied'
<1>1. Kinds /\ \E b \in Place : Follows(b) /\ Tally(b) /\ Lossless(b)
  BY DEF Tallied
<1>2. PICK b \in Place : Follows(b) /\ Tally(b) /\ Lossless(b)
  BY <1>1
<1>3. ASSUME NEW size \in Sizes, PublishFrame(size)
      PROVE  Tallied'
  <2>1. Kinds' /\ Follows(b)'
    BY <1>1, <1>2, <1>3, PublishCarries
  <2>2. Kept
    BY <1>1, <1>3, FramesStay DEF PublishFrame, Kept
  <2>3. Tally(b)' /\ Lossless(b)'
    BY <1>1, <1>2, <2>2, KeptTallies
  <2> QED  BY <2>1, <2>3, Zenon DEF Tallied
<1>4. ASSUME NEW i \in 1..Len(channel), Lose(i)
      PROVE  Tallied'
  <2>1. Kinds' /\ Follows(b)'
    BY <1>1, <1>2, <1>4, LoseCarries
  <2>2. Kept
    <3>1. lost \in Nat
      BY <1>1, ChunksAssumption DEF Kinds
    <3>2. lost' = lost + 1 /\ UNCHANGED <<published, expected, current, aggregated, received, delivered>>
      BY <1>4 DEF Lose
    <3>3. (lost' = 0 => lost = 0) /\ (lost' < 2 => lost < 2)
      BY <3>1, <3>2
    <3> QED  BY <3>2, <3>3 DEF Kept
  <2>3. Tally(b)' /\ Lossless(b)'
    BY <1>1, <1>2, <2>2, KeptTallies
  <2> QED  BY <2>1, <2>3, Zenon DEF Tallied
<1>5. CASE Receive
  <2>1. PICK e : e = PlaceOf(channel[1])
    OBVIOUS
  <2>2. Kinds' /\ e \in Place /\ Follows(e)'
    BY <1>1, <1>2, <1>5, <2>1, ReceiveCarries
  <2>3. Tally(e)' /\ Lossless(e)'
    BY <1>1, <1>2, <1>5, <2>1, ReceiveTallies, ReceiveLossless
  <2> QED  BY <2>2, <2>3, Zenon DEF Tallied
<1>6. CASE UNCHANGED chunkVars
  <2>1. UNCHANGED <<published, channel, expected, current, aggregated, received, delivered, lost>>
    BY <1>6 DEF chunkVars
  <2>2. Kinds' /\ Follows(b)'
    BY <1>1, <1>2, <2>1 DEF Kinds, Follows, Queued, Taken, Whole, FramesInOrder
  <2>3. Kept
    BY <2>1 DEF Kept
  <2>4. Tally(b)' /\ Lossless(b)'
    BY <1>1, <1>2, <2>3, KeptTallies
  <2> QED  BY <2>2, <2>4, Zenon DEF Tallied
<1>7. ChunksNext \/ UNCHANGED chunkVars
  OBVIOUS
<1> QED  BY <1>3, <1>4, <1>5, <1>6, <1>7 DEF ChunksNext

\* The count says which frames were delivered.
LEMMA TalliedInStep ==
  ASSUME Tallied
  PROVE  InStepAfterALastChunk
<1>1. PICK b \in Place : Tally(b)
  BY DEF Tallied
<1>2. ASSUME NEW id \in 1..Len(published),
             Fits(id), Cardinality(ArrivedAt(id)) = Chunks(published[id]), BehindLast(id)
      PROVE  IsDelivered(id)
  <2>1. b[1] \in Nat /\ b[2] \in Nat \ {0} /\ Len(published) \in Nat
    BY DEF Place, Tallied, Kinds
  <2>2. id \in Nat \ {0} /\ (id < b[1] \/ id = b[1] \/ b[1] < id)
    BY <2>1
  <2>3. PICK n : n = ChunksOf(published, id)
    OBVIOUS
  <2>4. n \in 1..ByteRange - 1 /\ n \in Nat /\ Cardinality(ArrivedAt(id)) = n
    BY <1>2, <2>3, ChunksAssumption DEF Fits, ChunksOf
  <2>5. CASE id < b[1]
    <3>1. id \in 1..b[1] - 1
      BY <2>1, <2>2, <2>5
    <3> QED  BY <1>1, <1>2, <2>3, <2>4, <3>1, Zenon DEF Tally
  <2>6. CASE id = b[1]
    <3>1. n <= b[2] /\ InStepAt(b)
      <4>1. b[1] > 0
        BY <2>2, <2>6
      <4> QED  BY <1>1, <2>4, <2>6, <4>1, Zenon DEF Tally
    <3>2. b[2] \in 1..n
      <4>1. b[1] > 0
        BY <2>2, <2>6
      <4> QED  BY <1>1, <2>3, <2>6, <4>1, PlaceArrived DEF Cut
    <3>3. b[2] = n
      BY <2>1, <2>4, <3>1, <3>2
    <3> QED  BY <1>2, <2>3, <2>4, <2>6, <3>1, <3>3, Zenon DEF InStepAt
  <2>7. CASE b[1] < id
    <3>1. received \in Seq(Arrival) /\ \A i \in 1..Len(received) : received[i].id <= b[1]
      BY <1>1 DEF Tally, Arrival
    <3>2. Cardinality(Among(received, id)) = 0
      BY <2>1, <2>2, <2>7, <3>1, NoneArrived
    <3> QED  BY <2>4, <3>2, ArrivedIs
  <2> QED  BY <2>2, <2>5, <2>6, <2>7
<1> QED  BY <1>2, Zenon DEF InStepAfterALastChunk

\* Without loss and with nothing on its way all that was cut arrived.
LEMMA TalliedComplete ==
  ASSUME Tallied
  PROVE  LosslessIsComplete
<1>1. PICK b \in Place : Follows(b) /\ Tally(b) /\ Lossless(b)
  BY DEF Tallied
<1>2. SUFFICES ASSUME lost = 0, channel = <<>>
               PROVE  /\ \A id \in 1..Len(published) : Fits(id) => IsDelivered(id)
                      /\ \A k \in 1..Len(delivered) : Fits(delivered[k].id) /\ IsIntact(delivered[k])
  BY Zenon DEF LosslessIsComplete
<1>3. Whole(b) /\ Len(channel) = 0
  BY <1>1, <1>2 DEF Follows
<1>4. b[1] \in Nat /\ b[2] \in Nat \ {0} /\ Len(published) \in Nat
  BY DEF Place, Tallied, Kinds
<1>5. \A p \in Piece : ~(Cut(published, p) /\ Before(b, p))
  BY <1>2, <1>3 DEF Whole, Missing
<1>6. ASSUME NEW id \in 1..Len(published), Fits(id) PROVE IsDelivered(id)
  <2>1. id \in Nat \ {0} /\ (id < b[1] \/ id = b[1] \/ b[1] < id)
    BY <1>4
  <2>2. PICK n : n = ChunksOf(published, id)
    OBVIOUS
  <2>3. n \in 1..ByteRange - 1 /\ n \in Nat /\ n # 0
    BY <1>6, <2>2, ChunksAssumption DEF Fits, ChunksOf
  <2>4. /\ \A i \in 2..Len(received) : received[i - 1].last \/ received[i - 1].id = received[i].id
        /\ \A i \in 1..b[1] - 1 : Cardinality(ArrivedAt(i)) = ChunksOf(published, i)
        /\ b[1] > 0 => Cardinality(ArrivedAt(b[1])) = b[2]
    BY <1>1, <1>2, Zenon DEF Lossless
  <2>5. Cardinality(ArrivedAt(id)) = n
    <3>1. CASE id < b[1]
      <4>1. id \in 1..b[1] - 1
        BY <1>4, <2>1, <3>1
      <4> QED  BY <2>2, <2>4, <4>1, Zenon
    <3>2. CASE id = b[1]
      <4>1. b[1] > 0
        BY <2>1, <3>2
      <4>2. b[2] \in 1..n
        BY <1>1, <2>2, <3>2, <4>1, PlaceArrived DEF Cut
      <4>3. PICK p : p = <<id, b[2] + 1>>
        OBVIOUS
      <4>4. p \in Piece /\ Before(b, p)
        BY <1>4, <2>1, <3>2, <4>3 DEF Piece, Before
      <4>5. b[2] # n => Cut(published, p)
        <5>1. b[2] # n => b[2] + 1 \in 1..n
          BY <1>4, <2>3, <4>2
        <5> QED  BY <2>2, <4>3, <5>1 DEF Cut
      <4>6. b[2] = n
        BY <1>5, <4>4, <4>5, Zenon
      <4> QED  BY <2>4, <3>2, <4>1, <4>6, Zenon
    <3>3. CASE b[1] < id
      <4>1. PICK p : p = <<id, 1>>
        OBVIOUS
      <4>2. p \in Piece /\ Before(b, p) /\ Cut(published, p)
        BY <1>4, <2>1, <2>2, <2>3, <3>3, <4>1 DEF Piece, Before, Cut
      <4> QED  BY <1>5, <4>2, Zenon
    <3> QED  BY <2>1, <3>1, <3>2, <3>3
  <2>6. BehindLast(id)
    <3>1. ASSUME NEW i \in ArrivedAt(id), i # 1 PROVE i - 1 \in ArrivedAt(id) \/ received[i - 1].last
      <4>1. received \in Seq(Arrival)
        BY <1>1 DEF Tally, Arrival
      <4>2. i \in 1..Len(received) /\ received[i].id = id
        BY Zenon DEF ArrivedAt
      <4>3. i \in 2..Len(received) /\ i - 1 \in 1..Len(received)
        BY <3>1, <4>1, <4>2
      <4> QED  BY <2>4, <4>2, <4>3, Zenon DEF ArrivedAt
    <3> QED  BY <3>1, Zenon DEF BehindLast
  <2>7. Cardinality(ArrivedAt(id)) = Chunks(published[id])
    BY <2>2, <2>5 DEF ChunksOf
  <2> QED  BY <1>6, <2>6, <2>7, TalliedInStep, Zenon DEF InStepAfterALastChunk
<1>7. ASSUME NEW k \in 1..Len(delivered) PROVE Fits(delivered[k].id) /\ IsIntact(delivered[k])
  <2>1. Fits(delivered[k].id)
    BY <1>1, <1>2 DEF Lossless
  <2>2. IsIntact(delivered[k])
    BY <1>3 DEF Whole, Intact, IsIntact, DataOf
  <2> QED  BY <2>1, <2>2
<1> QED  BY <1>6, <1>7, Zenon

\* What is counted is always so.
THEOREM AlwaysTallied == ChunksSpec => []Tallied
<1>1. ChunksInit => Tallied
  BY NothingTallied
<1>2. Tallied /\ [ChunksNext]_chunkVars => Tallied'
  BY StepTallies
<1> QED  BY <1>1, <1>2, PTL DEF ChunksSpec

\* Whatever the channel lost before, decode_network_stream is in step again after a last chunk:
\* a frame of at most 255 chunks that all arrive behind one is delivered intact.
THEOREM InStepAgain == ChunksSpec => []InStepAfterALastChunk
<1>1. Tallied => InStepAfterALastChunk
  BY TalliedInStep
<1> QED  BY <1>1, AlwaysTallied, PTL

\* Frames come out in order and none twice and, if nothing is lost, exactly those with data and
\* of at most 255 chunks, each as it was published: a longer one takes no other with it.
THEOREM ChunksAreSafe == ChunksSpec => []ChunksSafety
<1>1. Tallied => LosslessIsComplete
  BY TalliedComplete
<1>2. ChunksTypeOK /\ FramesInOrder /\ LosslessIsComplete => ChunksSafety
  BY DEF ChunksSafety
<1> QED  BY <1>1, <1>2, AlwaysTallied, DeliveredInOrder, PTL
=============================================================================
