----------------------------- MODULE VideoProofs -----------------------------
(***************************************************************************)
(* Theorems about what is done with the frames of a stream.  Of            *)
(* BotInstance, for every number of frames, batch size and number of       *)
(* control messages, in every mode.  Of decode_image_frames and, behind    *)
(* it, encode_vp9, for every stream of packets, demand of the sink, lag of *)
(* either codec and set of faults.                                         *)
(***************************************************************************)
EXTENDS BotInstance, Transcoder, FiniteSetTheorems, SequenceTheorems, TLAPS

-----------------------------------------------------------------------------
(* The bot: the invariant.                                                 *)

\* sequence a says, in the same order, what sequence b says, and about the frame it
\* ought to be about, unless that is one of Halves
Matches(a, b) ==
  /\ Len(a) = Len(b)
  /\ \A k \in 1..Len(b) : /\ a[k].what = b[k].what
                          /\ b[k].id \notin Halves => a[k].id = b[k].id

\* Nothing that was said is lost on its way through the buffer, and outside of a
\* call to the user's callback no frame is current.
Kept == Matches(sent \o messageBuffer, queued) /\ currentFrameId = None

\* The frames of s are in order, none before `first', none behind `last'.
Rising(s, first, last) ==
  /\ \A k \in 1..Len(s) : first <= s[k] /\ s[k] <= last
  /\ \A j, k \in 1..Len(s) : j < k => s[j] < s[k]

EndsWith(s, x) == s # <<>> /\ s[Len(s)] = x

\* img_callback goes through what it selected one by one (a is processed, b is to
\* come), in order, and the newest frame of the multiframe is the last one.
Line(a, b, last) ==
  /\ Rising(a, 1, last) /\ Rising(b, 1, last)
  /\ \A j \in 1..Len(a), k \in 1..Len(b) : a[j] < b[k]
  /\ IF b # <<>> THEN EndsWith(b, last) ELSE last > 0 => EndsWith(a, last)

InStep ==
  /\ at # "callback" => selected = <<>>
  /\ Line(processed, selected, frames.next - 1)

\* Without dropping every frame is there.
Whole ==
  mode = "batch" =>
    /\ Len(processed) + Len(selected) = frames.next - 1
    /\ \A k \in 1..Len(processed) : processed[k] = k
    /\ \A k \in 1..Len(selected) : selected[k] = Len(processed) + k

\* Which commands the callback was given, at each stage of the bot's life.
Told ==
  /\ at = "configure" => told = <<>> /\ processed = <<>> /\ sent = <<>>
  /\ at \in {"idle", "callback", "failed"} => told = <<"configure">>
  /\ at \in {"shutdown", "done"} => told = <<"configure", "shutdown">>
  /\ at = "done" => messageBuffer = <<>>

\* The inductive invariant: order and completeness rest on the frames that are
\* selected and not processed yet, the binding to frames on what is buffered.
Inductive == TypeOK /\ Kept /\ InStep /\ Whole /\ Told

-----------------------------------------------------------------------------
(* Lemmas about sequences.                                                 *)

\* Handing the first element of b on to a (shutdown_stream) moves nothing else.
LEMMA HandedOn ==
  ASSUME NEW S, NEW a \in Seq(S), NEW b \in Seq(S), b # <<>>
  PROVE  Append(a, Head(b)) \o Tail(b) = a \o b
<1>1. b = <<Head(b)>> \o Tail(b) /\ Head(b) \in S /\ Tail(b) \in Seq(S)
  <2>1. Len(b) \in 1..Len(b) /\ 1 \in 1..Len(b)
    BY EmptySeq
  <2>2. SubSeq(b, 1, Len(b)) = <<b[1]>> \o SubSeq(b, 2, Len(b))
    BY <2>1, SubSeqRecursiveFirst
  <2>3. SubSeq(b, 1, Len(b)) = b /\ Tail(b) = SubSeq(b, 2, Len(b))
    BY SubSeqFull, TailIsSubSeq
  <2>4. Head(b) = b[1] /\ Head(b) \in S /\ Tail(b) \in Seq(S)
    BY HeadTailProperties
  <2> QED  BY <2>2, <2>3, <2>4
<1>2. Append(a, Head(b)) = a \o <<Head(b)>>
  BY <1>1, AppendIsConcat
<1>3. <<Head(b)>> \in Seq(S)
  BY <1>1
<1>4. (a \o <<Head(b)>>) \o Tail(b) = a \o (<<Head(b)>> \o Tail(b))
  BY <1>1, <1>3, ConcatAssociative
<1> QED  BY <1>1, <1>2, <1>4

\* What joins the buffer is last of all that was said.
LEMMA Buffered ==
  ASSUME NEW S, NEW a \in Seq(S), NEW b \in Seq(S), NEW m \in S
  PROVE  a \o Append(b, m) = Append(a \o b, m)
<1>1. <<m>> \in Seq(S) /\ a \o b \in Seq(S)
  BY ConcatProperties
<1>2. Append(b, m) = b \o <<m>> /\ Append(a \o b, m) = (a \o b) \o <<m>>
  BY <1>1, AppendIsConcat
<1> QED  BY <1>1, <1>2, ConcatAssociative

\* What is appended to a sequence (push_back) comes last and leaves the rest alone.
LEMMA Appended ==
  ASSUME NEW S, NEW s \in Seq(S), NEW x \in S, NEW n \in Nat, n = Len(s)
  PROVE  /\ Append(s, x) \in Seq(S) /\ Len(Append(s, x)) = n + 1 /\ Append(s, x)[n + 1] = x
         /\ \A k \in 1..n : Append(s, x)[k] = s[k]
BY AppendProperties

\* Of two sequences, one behind the other, each keeps its elements.
LEMMA Joined ==
  ASSUME NEW S, NEW a \in Seq(S), NEW b \in Seq(S), NEW n \in Nat, NEW m \in Nat,
         n = Len(a), m = Len(b)
  PROVE  /\ a \o b \in Seq(S) /\ Len(a \o b) = n + m
         /\ \A k \in 1..n + m : (a \o b)[k] = IF k <= n THEN a[k] ELSE b[k - n]
BY ConcatProperties

\* A message that is bound as it ought to be joins a buffer that is.
LEMMA OneMore ==
  ASSUME NEW a \in Seq(Messages), NEW b \in Seq(Messages), Matches(a, b),
         NEW m \in Messages, NEW w \in Messages,
         m.what = w.what, w.id \notin Halves => m.id = w.id
  PROVE  Matches(Append(a, m), Append(b, w))
<1>1. PICK n \in Nat : n = Len(a)
  BY LenProperties
<1>b. n = Len(b)
  BY <1>1 DEF Matches
<1>2. /\ Len(Append(a, m)) = n + 1 /\ Append(a, m)[n + 1] = m
      /\ \A k \in 1..n : Append(a, m)[k] = a[k]
  BY <1>1, Appended
<1>3. /\ Len(Append(b, w)) = n + 1 /\ Append(b, w)[n + 1] = w
      /\ \A k \in 1..n : Append(b, w)[k] = b[k]
  BY <1>b, Appended
<1>4. ASSUME NEW k \in 1..n + 1
      PROVE  /\ Append(a, m)[k].what = Append(b, w)[k].what
             /\ Append(b, w)[k].id \notin Halves => Append(a, m)[k].id = Append(b, w)[k].id
  <2>1. CASE k \in 1..n
    BY <1>b, <1>2, <1>3, <2>1 DEF Matches
  <2>2. CASE k = n + 1
    BY <1>2, <1>3, <2>2
  <2>3. k \in 1..n \/ k = n + 1
    OBVIOUS
  <2> QED  BY <2>1, <2>2, <2>3, Zenon
<1> QED  BY <1>1, <1>b, <1>2, <1>3, <1>4 DEF Matches

-----------------------------------------------------------------------------
(* The messages.                                                           *)

\* queue_message binds a message to the current frame, or to the frame it names,
\* and to none outside of the callback.
LEMMA Bound ==
  ASSUME NEW id \in Ids, NEW current \in Ids
  PROVE  /\ EffectiveId(id, current) \in Ids
         /\ (IF id = None THEN current ELSE id) \notin Halves
              => EffectiveId(id, current) = IF id = None THEN current ELSE id
BY DEF EffectiveId, None

\* What the callback returns joins the buffer bound as it ought to be.
LEMMA QueueKeeps ==
  ASSUME TypeOK, Kept, NEW answers \in BOOLEAN, NEW what \in {"analysis", "debug", "control"},
         NEW id \in Ids, NEW current \in Ids,
         Queue(answers, what, id, current, IF id = None THEN current ELSE id), sent' = sent
  PROVE  /\ messageBuffer' \in Seq(Messages) /\ queued' \in Seq(Messages)
         /\ Matches(sent \o messageBuffer', queued')
<1> DEFINE m == [what |-> what, id |-> EffectiveId(id, current)]
           w == [what |-> what, id |-> IF id = None THEN current ELSE id]
<1>1. m \in Messages /\ w \in Messages /\ m.what = w.what /\ (w.id \notin Halves => m.id = w.id)
  BY Bound DEF Messages
<1>2. sent \o messageBuffer \in Seq(Messages)
  BY ConcatProperties DEF TypeOK
<1>3. CASE answers
  <2>1. messageBuffer' = Append(messageBuffer, m) /\ queued' = Append(queued, w)
    BY <1>3 DEF Queue
  <2> HIDE DEF m, w
  <2>2. sent \o Append(messageBuffer, m) = Append(sent \o messageBuffer, m)
    BY <1>1, Buffered DEF TypeOK
  <2>3. Matches(Append(sent \o messageBuffer, m), Append(queued, w))
    BY <1>1, <1>2, OneMore DEF TypeOK, Kept
  <2> QED  BY <1>1, <2>1, <2>2, <2>3, AppendProperties DEF TypeOK
<1>4. CASE ~answers
  BY <1>4 DEF Queue, TypeOK, Kept
<1> QED  BY <1>3, <1>4

\* Every step keeps what was said, in order, and bound as it ought to be.
LEMMA KeptStep ==
  TypeOK /\ Kept /\ [Next]_vars =>
    /\ Kept' /\ messageBuffer' \in Seq(Messages) /\ queued' \in Seq(Messages) /\ sent' \in Seq(Messages)
<1> DEFINE Goal == /\ Kept' /\ messageBuffer' \in Seq(Messages) /\ queued' \in Seq(Messages)
                   /\ sent' \in Seq(Messages)
<1> SUFFICES ASSUME TypeOK, Kept, [Next]_vars PROVE Goal
  OBVIOUS
<1> USE BotAssumption
<1>0. /\ sent \in Seq(Messages) /\ messageBuffer \in Seq(Messages) /\ queued \in Seq(Messages)
      /\ currentFrameId = None /\ Matches(sent \o messageBuffer, queued) /\ None \in Ids
  BY DEF TypeOK, Kept, Ids, None
<1>1. ASSUME NEW answers \in BOOLEAN, NEW what \in {"analysis", "debug", "control"},
             NEW id \in Ids, NEW current \in Ids,
             Queue(answers, what, id, current, IF id = None THEN current ELSE id),
             sent' = sent, currentFrameId' = None
      PROVE  Goal
  BY <1>0, <1>1, QueueKeeps DEF Kept
<1>2. CASE Configure \/ Shutdown
  <2>1. PICK answers \in BOOLEAN : Queue(answers, "debug", None, currentFrameId, None)
    BY <1>2 DEF Configure, Shutdown
  <2>2. sent' = sent /\ currentFrameId' = currentFrameId
    BY <1>2 DEF Configure, Shutdown
  <2>3. Queue(answers, "debug", None, None, IF None = None THEN None ELSE None)
    BY <1>0, <2>1
  <2> QED  BY <1>0, <1>1, <2>2, <2>3
<1>3. CASE ProcessFrame
  <2>1. Head(selected) \in Ids
    BY <1>3, HeadTailProperties DEF ProcessFrame, TypeOK
  <2>2. PICK answers \in BOOLEAN, id \in {None} \cup (1..Head(selected)) :
          Queue(answers, "analysis", id, Head(selected), IF id = None THEN Head(selected) ELSE id)
    BY <1>3 DEF ProcessFrame
  <2>3. id \in Ids
    BY <2>1 DEF Ids, None
  <2>4. sent' = sent /\ currentFrameId' = None
    BY <1>3 DEF ProcessFrame, FrameAfter
  <2> QED  BY <1>1, <2>1, <2>2, <2>3, <2>4
<1>4. ASSUME NEW all \in Seq(Messages), Flush(all), queued' \in Seq(Messages),
             Matches(sent \o all, queued'), currentFrameId' = currentFrameId
      PROVE  Goal
  <2>1. sent \o all \in Seq(Messages) /\ <<>> \in Seq(Messages)
    BY <1>0, ConcatProperties, EmptySeq
  <2>2. (sent \o all) \o <<>> = sent \o all
    BY <2>1, ConcatEmptySeq
  <2> QED  BY <1>0, <1>4, <2>1, <2>2 DEF Flush, Kept
<1>5. CASE FramesDone
  <2>1. Flush(messageBuffer) /\ queued' = queued /\ currentFrameId' = currentFrameId
    BY <1>5 DEF FramesDone
  <2> QED  BY <1>0, <1>4, <2>1
<1>6. CASE OnControl
  <2> DEFINE m == [what |-> "control", id |-> EffectiveId(None, currentFrameId)]
             w == [what |-> "control", id |-> None]
  <2>1. /\ currentFrameId' = currentFrameId
        /\ \/ Flush(Append(messageBuffer, m)) /\ queued' = Append(queued, w)
           \/ Flush(messageBuffer) /\ queued' = queued
    BY <1>6 DEF OnControl
  <2>2. m \in Messages /\ w \in Messages /\ m.what = w.what /\ m.id = w.id
    BY <1>0, Bound DEF Messages, EffectiveId
  <2> HIDE DEF m, w
  <2>3. CASE Flush(Append(messageBuffer, m)) /\ queued' = Append(queued, w)
    <3>1. sent \o Append(messageBuffer, m) = Append(sent \o messageBuffer, m)
      BY <1>0, <2>2, Buffered
    <3>2. sent \o messageBuffer \in Seq(Messages)
      BY <1>0, ConcatProperties
    <3>3. Matches(Append(sent \o messageBuffer, m), Append(queued, w))
      BY <1>0, <2>2, <3>2, OneMore
    <3>4. Append(messageBuffer, m) \in Seq(Messages) /\ Append(queued, w) \in Seq(Messages)
      BY <1>0, <2>2, AppendProperties
    <3> QED  BY <1>4, <2>1, <2>3, <3>1, <3>3, <3>4
  <2>4. CASE Flush(messageBuffer) /\ queued' = queued
    BY <1>0, <1>4, <2>1, <2>4
  <2> QED  BY <2>1, <2>3, <2>4
<1>7. CASE SendLast
  <2>1. CASE messageBuffer # <<>> /\ sent' = Append(sent, Head(messageBuffer))
             /\ messageBuffer' = Tail(messageBuffer)
    <3>1. sent' \o messageBuffer' = sent \o messageBuffer
      BY <1>0, <2>1, HandedOn
    <3>2. sent' \in Seq(Messages) /\ messageBuffer' \in Seq(Messages)
      BY <1>0, <2>1, HeadTailProperties, AppendProperties
    <3> QED  BY <1>0, <1>7, <3>1, <3>2 DEF SendLast, Kept
  <2>2. CASE UNCHANGED <<sent, messageBuffer>>
    BY <1>0, <1>7, <2>2 DEF SendLast, Kept
  <2> QED  BY <1>7, <2>1, <2>2 DEF SendLast, LastSent
<1>8. CASE UNCHANGED <<sent, messageBuffer, queued, currentFrameId>>
  BY <1>0, <1>8 DEF Kept
<1>9. (\E n \in 0..BatchSize : OnFrames(n)) \/ OnOtherControl \/ FramesEnd \/ InputFails \/ UNCHANGED vars
        => UNCHANGED <<sent, messageBuffer, queued, currentFrameId>>
  BY DEF OnFrames, OnOtherControl, FramesEnd, InputFails, vars
<1> QED  BY <1>2, <1>3, <1>5, <1>6, <1>7, <1>8, <1>9 DEF Next, Works

-----------------------------------------------------------------------------
(* The frames.                                                             *)

\* A multiframe of n frames keeps at least its newest frame; one frame is kept.
LEMMA Selection ==
  ASSUME NEW first \in Nat \ {0}, NEW n \in Nat \ {0}
  PROVE  LET s == Select([k \in 1..n |-> first + k - 1])
         IN  /\ s \in Seq(first..first + n - 1) /\ s # <<>>
             /\ Rising(s, first, first + n - 1) /\ EndsWith(s, first + n - 1)
             /\ n = 1 => Len(s) = 1 /\ s[1] = first
<1> DEFINE batch == [k \in 1..n |-> first + k - 1]
           last == first + n - 1
<1>1. /\ batch \in Seq(first..last) /\ Len(batch) = n /\ batch # <<>>
      /\ \A k \in 1..n : batch[k] = first + k - 1
  OBVIOUS
<1>2. last \in Nat
  OBVIOUS
<1> HIDE DEF batch
<1>3. CASE Select(batch) = batch
  <2>1. Rising(batch, first, last) /\ EndsWith(batch, last) /\ (n = 1 => batch[1] = first)
    BY <1>1 DEF Rising, EndsWith
  <2> QED  BY <1>1, <1>3, <2>1 DEF batch
<1>4. CASE n > 1 /\ Select(batch) = <<batch[n \div 2], batch[n]>>
  <2>1. PICK h \in Nat : h = n \div 2 /\ 1 <= h /\ h < n
    BY <1>4
  <2>2. PICK s : s = <<batch[h], batch[n]>>
    OBVIOUS
  <2>3. s \in Seq(first..last) /\ Len(s) = 2 /\ s # <<>> /\ s[1] = first + h - 1 /\ s[2] = last
    <3>1. batch[h] = first + h - 1 /\ batch[n] = last
      BY <1>1, <2>1
    <3>2. first + h - 1 \in first..last /\ last \in first..last
      BY <2>1
    <3> QED  BY <2>2, <3>1, <3>2
  <2>4. first <= first + h - 1 /\ first + h - 1 < last
    BY <2>1
  <2>5. Rising(s, first, last) /\ EndsWith(s, last)
    BY <1>2, <2>3, <2>4 DEF Rising, EndsWith
  <2>6. Select(batch) = s /\ n # 1
    BY <1>4, <2>1, <2>2
  <2> QED  BY <2>3, <2>5, <2>6 DEF batch
<1>5. Select(batch) = batch \/ (n > 1 /\ Select(batch) = <<batch[n \div 2], batch[n]>>)
  BY <1>1 DEF Select
<1> QED  BY <1>3, <1>4, <1>5 DEF batch

\* When img_callback has gone through one more frame the line is as it was.
LEMMA Moved ==
  ASSUME NEW a \in Seq(Nat), NEW b \in Seq(Nat), NEW last \in Nat, Line(a, b, last), b # <<>>
  PROVE  /\ Line(Append(a, Head(b)), Tail(b), last)
         /\ Len(Append(a, Head(b))) + Len(Tail(b)) = Len(a) + Len(b)
<1>1. PICK n \in Nat : n = Len(a)
  BY LenProperties
<1>2. PICK m \in Nat : m = Len(b) /\ m > 0
  BY EmptySeq
<1>3. Head(b) = b[1] /\ Head(b) \in Nat /\ \A k \in 1..m : b[k] \in Nat
  BY <1>2, HeadTailProperties, ElementOfSeq
<1>4. PICK c \in Seq(Nat) : c = Append(a, Head(b))
  BY <1>3, AppendProperties
<1>5. Len(c) = n + 1 /\ c[n + 1] = b[1] /\ \A k \in 1..n : c[k] = a[k]
  BY <1>1, <1>3, <1>4, Appended
<1>6. PICK d \in Seq(Nat) : d = Tail(b)
  BY HeadTailProperties
<1>7. Len(d) = m - 1 /\ (\A k \in 1..m - 1 : d[k] = b[k + 1]) /\ (d = <<>> <=> m = 1)
  <2>1. Len(d) = m - 1 /\ \A k \in 1..m - 1 : d[k] = b[k + 1]
    BY <1>2, <1>6, HeadTailProperties
  <2> QED  BY <2>1, EmptySeq
<1>8. /\ \A k \in 1..n : a[k] \in Nat /\ 1 <= a[k] /\ a[k] <= last
      /\ \A k \in 1..m : 1 <= b[k] /\ b[k] <= last
      /\ \A j, k \in 1..n : j < k => a[j] < a[k]
      /\ \A j, k \in 1..m : j < k => b[j] < b[k]
      /\ \A j \in 1..n, k \in 1..m : a[j] < b[k]
      /\ b[m] = last
  BY <1>1, <1>2, ElementOfSeq DEF Line, Rising, EndsWith
<1>9. Rising(c, 1, last)
  <2>1. ASSUME NEW k \in 1..n + 1 PROVE 1 <= c[k] /\ c[k] <= last
    <3>1. 1 \in 1..m /\ (k \in 1..n \/ k = n + 1)
      BY <1>2
    <3> QED  BY <1>5, <1>8, <3>1
  <2>2. ASSUME NEW j \in 1..n + 1, NEW k \in 1..n + 1, j < k PROVE c[j] < c[k]
    <3>1. j \in 1..n /\ 1 \in 1..m /\ (k \in 1..n \/ k = n + 1)
      BY <1>2, <2>2
    <3> QED  BY <1>5, <1>8, <2>2, <3>1
  <2> QED  BY <1>5, <2>1, <2>2 DEF Rising
<1>10. Rising(d, 1, last)
  <2>1. \A k \in 1..m - 1 : k + 1 \in 1..m
    BY <1>2
  <2>2. \A k \in 1..m - 1 : 1 <= d[k] /\ d[k] <= last
    BY <1>7, <1>8, <2>1
  <2>3. \A j, k \in 1..m - 1 : j < k => d[j] < d[k]
    BY <1>7, <1>8, <2>1
  <2> QED  BY <1>7, <2>2, <2>3 DEF Rising
<1>11. ASSUME NEW j \in 1..n + 1, NEW k \in 1..m - 1 PROVE c[j] < d[k]
  <2>1. k + 1 \in 1..m /\ 1 \in 1..m /\ 1 < k + 1
    BY <1>2
  <2>2. d[k] = b[k + 1] /\ b[1] < b[k + 1]
    BY <1>7, <1>8, <2>1
  <2>3. CASE j \in 1..n
    BY <1>5, <1>8, <2>1, <2>2, <2>3
  <2>4. CASE j = n + 1
    BY <1>5, <2>2, <2>4
  <2> QED  BY <2>3, <2>4
<1>12. IF d # <<>> THEN EndsWith(d, last) ELSE EndsWith(c, last)
  <2>1. CASE d # <<>>
    <3>1. m - 1 \in 1..m - 1
      BY <1>2, <1>7, <2>1
    <3> QED  BY <1>7, <1>8, <2>1, <3>1, SMTT(60) DEF EndsWith
  <2>2. CASE d = <<>>
    <3>1. c # <<>>
      <4>1. Len(c) = n + 1 /\ n \in Nat  BY <1>1, <1>5
      <4>2. Len(c) # 0  BY <4>1, SMT
      <4> QED  BY <4>2, EmptySeq
    <3> QED  BY <1>5, <1>7, <1>8, <2>2, <3>1 DEF EndsWith
  <2> QED  BY <2>1, <2>2
<1>13. Line(c, d, last)
  BY <1>5, <1>7, <1>9, <1>10, <1>11, <1>12 DEF Line
<1> QED  BY <1>1, <1>2, <1>4, <1>5, <1>6, <1>7, <1>13

\* Every step keeps the kinds of values of the inputs and of the frames.
LEMMA FrameTypes ==
  TypeOK /\ [Next]_vars =>
    /\ frames' \in [open : BOOLEAN, next : 1..Frames + 1]
    /\ selected' \in Seq(Ids) /\ processed' \in Seq(Ids)
    /\ frames'.next = frames.next \/ \E n \in Nat : OnFrames(n) /\ frames'.next = frames.next + n
<1> SUFFICES ASSUME TypeOK, [Next]_vars
             PROVE  /\ frames' \in [open : BOOLEAN, next : 1..Frames + 1]
                    /\ selected' \in Seq(Ids) /\ processed' \in Seq(Ids)
                    /\ \/ frames'.next = frames.next
                       \/ \E n \in Nat : OnFrames(n) /\ frames'.next = frames.next + n
  OBVIOUS
<1> USE BotAssumption
<1>0. /\ frames \in [open : BOOLEAN, next : 1..Frames + 1]
      /\ selected \in Seq(Ids) /\ processed \in Seq(Ids) /\ Frames \in Nat /\ BatchSize \in Nat
  BY DEF TypeOK
<1>1. ASSUME NEW n \in 0..BatchSize, OnFrames(n)
      PROVE  /\ frames' \in [open : BOOLEAN, next : 1..Frames + 1]
             /\ selected' \in Seq(Ids) /\ processed' \in Seq(Ids)
             /\ n \in Nat /\ frames'.next = frames.next + n
  <2>1. PICK p \in Nat \ {0} : p = frames.next /\ p + n - 1 <= Frames
    BY <1>0, <1>1 DEF OnFrames
  <2>2. frames' = [frames EXCEPT !.next = p + n] /\ processed' = processed
    BY <1>1, <2>1 DEF OnFrames
  <2>3. p + n \in 1..Frames + 1 /\ n \in Nat
    BY <1>0, <2>1
  <2>4. frames' \in [open : BOOLEAN, next : 1..Frames + 1] /\ frames'.next = p + n
    BY <1>0, <2>2, <2>3
  <2>5. CASE n = 0
    BY <1>0, <1>1, <2>1, <2>2, <2>4, <2>5 DEF OnFrames
  <2>6. CASE n # 0
    <3>1. selected' = Select([k \in 1..n |-> p + k - 1])
      BY <1>1, <2>1, <2>6 DEF OnFrames
    <3>2. selected' \in Seq(p..p + n - 1)
      BY <2>6, <3>1, Selection
    <3>3. p..p + n - 1 \subseteq Ids
      BY <1>0, <2>1 DEF Ids
    <3> QED  BY <1>0, <2>1, <2>2, <2>3, <2>4, <3>2, <3>3, SeqMonotonic
  <2> QED  BY <2>5, <2>6
<1>2. CASE ProcessFrame
  BY <1>0, <1>2, HeadTailProperties, AppendProperties DEF ProcessFrame
<1>3. CASE FramesEnd \/ InputFails
  BY <1>0, <1>3 DEF FramesEnd, InputFails
<1>4. CASE UNCHANGED <<frames, selected, processed>>
  BY <1>0, <1>4
<1>5. Configure \/ FramesDone \/ Shutdown \/ SendLast \/ OnControl \/ OnOtherControl \/ UNCHANGED vars
        => UNCHANGED <<frames, selected, processed>>
  BY DEF Configure, FramesDone, Shutdown, SendLast, OnControl, OnOtherControl, vars
<1> QED  BY <1>1, <1>2, <1>3, <1>4, <1>5 DEF Next, Works

\* Every step keeps the frames in order and, in batch mode, complete.
LEMMA InStepStep == TypeOK /\ InStep /\ Whole /\ [Next]_vars => InStep' /\ Whole'
<1> SUFFICES ASSUME TypeOK, InStep, Whole, [Next]_vars PROVE InStep' /\ Whole'
  OBVIOUS
<1>1. PICK p \in Nat : p = frames.next - 1
  BY BotAssumption DEF TypeOK
<1>2. /\ selected \in Seq(Ids) /\ processed \in Seq(Ids)
      /\ selected \in Seq(Nat) /\ processed \in Seq(Nat)
  BY BotAssumption, SeqMonotonic DEF TypeOK, Ids
<1>3. Line(processed, selected, p)
  BY <1>1 DEF InStep
<1>4. ASSUME NEW n \in 0..BatchSize, OnFrames(n) PROVE InStep' /\ Whole'
  <2>1. frames'.next = frames.next + n /\ n \in Nat
    BY <1>4, BotAssumption DEF OnFrames, TypeOK
  <2>2. frames'.next - 1 = p + n /\ frames.next = p + 1
    BY <1>1, <2>1, BotAssumption DEF TypeOK
  <2>3. processed' = processed /\ at = "idle" /\ selected = <<>> /\ mode' = mode
        /\ (mode = "batch" => n <= 1)
    BY <1>4 DEF OnFrames, InStep
  <2>4. CASE n = 0
    <3>1. selected' = selected /\ at' = at /\ p + n = p
      BY <1>4, <2>4 DEF OnFrames
    <3>2. InStep'
      BY <1>3, <2>2, <2>3, <3>1 DEF InStep
    <3>3. Whole'
      BY <1>1, <2>2, <2>3, <3>1 DEF Whole
    <3> QED  BY <3>2, <3>3
  <2>5. CASE n # 0
    <3>1. at' = "callback" /\ selected' = Select([k \in 1..n |-> p + 1 + k - 1])
      BY <1>4, <2>2, <2>5 DEF OnFrames
    <3>2. PICK s : s = selected'
      OBVIOUS
    <3>3. /\ s \in Seq(p + 1..p + 1 + n - 1) /\ s # <<>> /\ Rising(s, p + 1, p + 1 + n - 1)
          /\ EndsWith(s, p + 1 + n - 1) /\ (n = 1 => Len(s) = 1 /\ s[1] = p + 1)
      BY <2>1, <2>5, <3>1, <3>2, Selection
    <3>4. p + 1 + n - 1 = p + n
      BY <2>1
    <3>5. PICK i \in Nat, j \in Nat : i = Len(processed) /\ j = Len(s)
      BY <1>2, <3>3, LenProperties
    <3>6. \A k \in 1..j : s[k] \in Nat /\ p + 1 <= s[k] /\ s[k] <= p + n
      BY <3>3, <3>4, <3>5, ElementOfSeq DEF Rising
    <3>7. \A k \in 1..i : processed[k] \in Nat /\ 1 <= processed[k] /\ processed[k] <= p
      BY <1>2, <1>3, <3>5, ElementOfSeq DEF Line, Rising
    <3>8. Rising(processed, 1, p + n)
      <4>1. \A k \in 1..i : processed[k] <= p + n
        BY <2>1, <3>7
      <4> QED  BY <1>3, <3>5, <3>7, <4>1 DEF Line, Rising
    <3>9. Rising(s, 1, p + n)
      BY <3>3, <3>5, <3>6 DEF Rising
    <3>10. \A k \in 1..i, l \in 1..j : processed[k] < s[l]
      BY <3>6, <3>7
    <3>11. Line(processed, s, p + n)
      BY <3>3, <3>4, <3>5, <3>8, <3>9, <3>10 DEF Line
    <3>12. InStep'
      BY <2>2, <2>3, <3>1, <3>2, <3>11 DEF InStep
    <3>13. ASSUME mode = "batch"
           PROVE  /\ i + j = p + n
                  /\ \A k \in 1..i : processed[k] = k
                  /\ \A k \in 1..j : s[k] = i + k
      <4>1. n = 1 /\ i = p
        <5>1. Len(processed) + Len(selected) = p /\ Len(selected) = 0
          BY <1>1, <2>3, <3>13, EmptySeq DEF Whole
        <5> QED  BY <2>1, <2>3, <2>5, <3>5, <3>13, <5>1
      <4>2. j = 1 /\ s[1] = i + 1
        BY <3>3, <3>5, <4>1
      <4> QED  BY <3>5, <3>13, <4>1, <4>2 DEF Whole
    <3>14. Whole'
      BY <2>2, <2>3, <3>2, <3>5, <3>13 DEF Whole
    <3> QED  BY <3>12, <3>14
  <2> QED  BY <2>4, <2>5
<1>5. CASE ProcessFrame
  <2>1. /\ processed' = Append(processed, Head(selected)) /\ selected' = Tail(selected)
        /\ selected # <<>> /\ at = "callback" /\ UNCHANGED <<frames, mode, at>>
    BY <1>5 DEF ProcessFrame
  <2>2. /\ Line(processed', selected', p)
        /\ Len(processed') + Len(selected') = Len(processed) + Len(selected)
    BY <1>2, <1>3, <2>1, Moved
  <2>3. InStep'
    BY <1>1, <2>1, <2>2 DEF InStep
  <2>4. ASSUME mode = "batch"
        PROVE  /\ \A k \in 1..Len(processed') : processed'[k] = k
               /\ \A k \in 1..Len(selected') : selected'[k] = Len(processed') + k
    <3>1. PICK i \in Nat : i = Len(processed)
      BY <1>2, LenProperties
    <3>2. PICK j \in Nat : j = Len(selected) /\ j > 0
      BY <1>2, <2>1, EmptySeq
    <3>3. \A k \in 1..i : processed[k] = k
      BY <2>4, <3>1 DEF Whole
    <3>4. \A k \in 1..j : selected[k] = i + k
      BY <2>4, <3>1, <3>2 DEF Whole
    <3>5. Head(selected) = i + 1 /\ Head(selected) \in Nat
      <4>1. Head(selected) = selected[1] /\ 1 \in 1..j
        BY <1>2, <2>1, <3>2, HeadTailProperties
      <4> QED  BY <3>4, <4>1
    <3>6. Len(processed') = i + 1 /\ processed'[i + 1] = i + 1 /\ \A k \in 1..i : processed'[k] = k
      BY <1>2, <2>1, <3>1, <3>3, <3>5, Appended
    <3>7. Len(selected') = j - 1 /\ \A k \in 1..j - 1 : selected'[k] = selected[k + 1]
      BY <1>2, <2>1, <3>2, HeadTailProperties
    <3>8. \A k \in 1..j - 1 : k + 1 \in 1..j /\ i + (k + 1) = i + 1 + k
      BY <3>2
    <3>9. \A k \in 1..j - 1 : selected'[k] = i + 1 + k
      BY <3>4, <3>7, <3>8
    <3>10. \A k \in 1..i + 1 : k \in 1..i \/ k = i + 1
      OBVIOUS
    <3> QED  BY <3>6, <3>7, <3>9, <3>10
  <2>5. Whole'
    BY <2>1, <2>2, <2>4 DEF Whole
  <2> QED  BY <2>3, <2>5
<1>6. CASE UNCHANGED <<processed, selected, mode>> /\ frames'.next = frames.next
             /\ (at' # "callback" => at # "callback" \/ selected = <<>>)
  BY <1>6 DEF InStep, Whole
<1>7. CASE FramesEnd \/ InputFails
  <2>1. frames'.next = frames.next
    BY <1>7 DEF FramesEnd, InputFails, TypeOK
  <2> QED  BY <1>6, <1>7, <2>1 DEF FramesEnd, InputFails
<1>8. Configure \/ FramesDone \/ Shutdown \/ SendLast \/ OnControl \/ OnOtherControl \/ UNCHANGED vars
        => UNCHANGED <<processed, selected, mode, frames>>
           /\ (at' # "callback" => at # "callback" \/ selected = <<>>)
  BY DEF Configure, FramesDone, Shutdown, SendLast, OnControl, OnOtherControl, vars
<1> QED  BY <1>4, <1>5, <1>6, <1>7, <1>8 DEF Next, Works

-----------------------------------------------------------------------------
(* The commands, and the type invariant.                                   *)

\* Every step keeps the account of the commands the callback was given.
LEMMA ToldStep == TypeOK /\ Told /\ [Next]_vars => Told' /\ told' \in Seq({"configure", "shutdown"})
<1> SUFFICES ASSUME TypeOK, Told, [Next]_vars PROVE Told' /\ told' \in Seq({"configure", "shutdown"})
  OBVIOUS
<1>0. at \in {"configure", "idle", "callback", "shutdown", "done", "failed"}
      /\ told \in Seq({"configure", "shutdown"})
  BY DEF TypeOK
<1>1. CASE Configure
  <2>1. told' = Append(<<>>, "configure") /\ at' = "idle"
    BY <1>1 DEF Configure, Told
  <2>2. told' = <<"configure">>
    BY <2>1
  <2> QED  BY <2>1, <2>2 DEF Told
<1>2. CASE Shutdown
  <2>1. told' = Append(<<"configure">>, "shutdown")
    BY <1>2 DEF Shutdown, Told
  <2>2. PICK a : a = <<"configure">>
    OBVIOUS
  <2>3. PICK b : b = <<"configure", "shutdown">>
    OBVIOUS
  <2>4. a \in Seq({"configure", "shutdown"}) /\ Len(a) = 1 /\ a[1] = "configure"
    BY <2>2
  <2>5. b \in Seq({"configure", "shutdown"}) /\ Len(b) = 2 /\ b[1] = "configure" /\ b[2] = "shutdown"
    BY <2>3
  <2>6. Append(a, "shutdown") = b
    <3>1. PICK c \in Seq({"configure", "shutdown"}) : c = Append(a, "shutdown")
      BY <2>4, AppendProperties
    <3>2. Len(c) = 2 /\ c[1] = "configure" /\ c[2] = "shutdown"
      <4>1. PICK n \in Nat : n = Len(a)
        BY <2>4
      <4>2. Len(Append(a, "shutdown")) = n + 1 /\ Append(a, "shutdown")[n + 1] = "shutdown"
            /\ \A k \in 1..n : Append(a, "shutdown")[k] = a[k]
        <5>1. a \in Seq({"configure", "shutdown"}) /\ "shutdown" \in {"configure", "shutdown"}
          BY <2>4
        <5> QED  BY <4>1, <5>1, Appended
      <4>3. n + 1 = 2 /\ 1 \in 1..n
        BY <2>4, <4>1
      <4> QED  BY <2>4, <3>1, <4>2, <4>3
    <3>3. \A k \in 1..2 : c[k] = b[k]
      BY <2>5, <3>2
    <3> QED  BY <2>5, <3>1, <3>2, <3>3, SeqEqual
  <2>7. told' = b
    BY <2>1, <2>2, <2>6
  <2> QED  BY <1>2, <2>3, <2>5, <2>7 DEF Told, Shutdown
<1>3. CASE SendLast
  <2>1. at = "shutdown" /\ told' = told /\ (at' = "shutdown" \/ (at' = "done" /\ messageBuffer' = <<>>))
    BY <1>3 DEF SendLast, LastSent
  <2> QED  BY <1>0, <2>1 DEF Told
<1>4. CASE at \in {"idle", "callback"} /\ at' \in {"idle", "callback", "failed"} /\ told' = told
  BY <1>0, <1>4 DEF Told
<1>5. (\E n \in 0..BatchSize : OnFrames(n)) \/ ProcessFrame \/ FramesDone \/ OnControl \/ OnOtherControl
        \/ FramesEnd \/ InputFails => at \in {"idle", "callback"} /\ at' \in {"idle", "callback", "failed"} /\ told' = told
  BY DEF OnFrames, ProcessFrame, FramesDone, OnControl, OnOtherControl, FramesEnd, InputFails
<1>6. CASE UNCHANGED vars
  BY <1>0, <1>6 DEF vars, Told
<1> QED  BY <1>1, <1>2, <1>3, <1>4, <1>5, <1>6 DEF Next, Works

\* Every step keeps the kinds of values of the mode, the strategy and the inputs.
LEMMA OtherTypes ==
  TypeOK /\ [Next]_vars =>
    /\ mode' \in Modes /\ strategy' \in Strategies
    /\ at' \in {"configure", "idle", "callback", "shutdown", "done", "failed"}
    /\ controls' \in [open : BOOLEAN, next : 1..Controls + 1]
<1> SUFFICES ASSUME TypeOK, [Next]_vars
             PROVE  /\ mode' \in Modes /\ strategy' \in Strategies
                    /\ at' \in {"configure", "idle", "callback", "shutdown", "done", "failed"}
                    /\ controls' \in [open : BOOLEAN, next : 1..Controls + 1]
  OBVIOUS
<1>0. /\ mode \in Modes /\ strategy \in Strategies
      /\ at \in {"configure", "idle", "callback", "shutdown", "done", "failed"}
      /\ controls \in [open : BOOLEAN, next : 1..Controls + 1]
  BY DEF TypeOK
<1>1. mode' = mode
  BY DEF Next, Works, Configure, ProcessFrame, FramesDone, Shutdown, SendLast, OnFrames, OnControl,
         OnOtherControl, FramesEnd, InputFails, vars
<1>2. at' \in {"idle", "callback", "shutdown", "done", "failed"} \/ at' = at
  BY DEF Next, Works, Configure, ProcessFrame, FramesDone, Shutdown, SendLast, OnFrames, OnControl,
         OnOtherControl, FramesEnd, InputFails, vars
<1>3. strategy' \in Strategies
  <2>1. strategy' = strategy \/ \E s \in Strategies : strategy' = s
    BY DEF Next, Works, Configure, ProcessFrame, FramesDone, Shutdown, SendLast, OnFrames, OnControl,
           OnOtherControl, FramesEnd, InputFails, Configured, vars
  <2> QED  BY <1>0, <2>1
<1>4. controls' \in [open : BOOLEAN, next : 1..Controls + 1]
  <2>1. CASE OnControl \/ OnOtherControl
    <3>1. controls' = [controls EXCEPT !.next = @ + 1] /\ controls.next <= Controls
      BY <2>1 DEF OnControl, OnOtherControl
    <3> QED  BY <1>0, <3>1, BotAssumption
  <2>2. controls' = controls \/ OnControl \/ OnOtherControl \/ InputFails
    BY DEF Next, Works, Configure, ProcessFrame, FramesDone, Shutdown, SendLast, OnFrames, FramesEnd, vars
  <2>3. InputFails => controls' = [controls EXCEPT !.open = FALSE]
    BY DEF InputFails
  <2> QED  BY <1>0, <2>1, <2>2, <2>3
<1> QED  BY <1>0, <1>1, <1>2, <1>3, <1>4

-----------------------------------------------------------------------------
(* The theorems.                                                           *)

\* A bot that is about to be configured satisfies the invariant.
LEMMA InitInductive == Init => Inductive
<1> SUFFICES ASSUME Init PROVE Inductive
  OBVIOUS
<1>1. /\ sent = <<>> /\ messageBuffer = <<>> /\ queued = <<>> /\ selected = <<>> /\ processed = <<>>
      /\ told = <<>> /\ at = "configure" /\ currentFrameId = None /\ frames = [open |-> TRUE, next |-> 1]
      /\ controls = [open |-> mode = "rtm", next |-> 1] /\ strategy = "as_needed" /\ mode \in Modes
  BY DEF Init
<1>2. Len(<<>>) = 0 /\ <<>> \in Seq(Messages) /\ <<>> \in Seq(Ids)
      /\ <<>> \in Seq({"configure", "shutdown"}) /\ <<>> \o <<>> = <<>>
  BY EmptySeq, ConcatEmptySeq
<1>3. TypeOK
  BY <1>1, <1>2, BotAssumption DEF TypeOK, Ids, None, Strategies
<1>4. Kept
  BY <1>1, <1>2 DEF Kept, Matches
<1>5. InStep
  BY <1>1, <1>2 DEF InStep, Line, Rising
<1>6. Whole
  BY <1>1, <1>2 DEF Whole
<1> QED  BY <1>1, <1>3, <1>4, <1>5, <1>6 DEF Inductive, Told

\* Every callback, input and message that is sent keeps it.
LEMMA StepInductive == Inductive /\ [Next]_vars => Inductive'
<1> SUFFICES ASSUME Inductive, [Next]_vars PROVE Inductive'
  OBVIOUS
<1>1. /\ Kept' /\ messageBuffer' \in Seq(Messages) /\ queued' \in Seq(Messages) /\ sent' \in Seq(Messages)
      /\ InStep' /\ Whole' /\ Told' /\ told' \in Seq({"configure", "shutdown"})
  BY KeptStep, InStepStep, ToldStep DEF Inductive
<1>2. /\ frames' \in [open : BOOLEAN, next : 1..Frames + 1]
      /\ selected' \in Seq(Ids) /\ processed' \in Seq(Ids)
      /\ mode' \in Modes /\ strategy' \in Strategies
      /\ at' \in {"configure", "idle", "callback", "shutdown", "done", "failed"}
      /\ controls' \in [open : BOOLEAN, next : 1..Controls + 1]
  BY FrameTypes, OtherTypes DEF Inductive
<1>3. currentFrameId' \in Ids
  BY <1>1, BotAssumption DEF Kept, None, Ids
<1>4. TypeOK'
  BY <1>1, <1>2, <1>3 DEF TypeOK
<1> QED  BY <1>1, <1>4 DEF Inductive

\* A bot never leaves the invariant.
THEOREM InductiveInvariant == Spec => []Inductive
BY InitInductive, StepInductive, PTL DEF Spec

\* Two sequences that match say the same.
LEMMA SaysTheSame == TypeOK /\ Kept => NothingLost /\ BoundToFrame
<1> SUFFICES ASSUME TypeOK, Kept PROVE NothingLost /\ BoundToFrame
  OBVIOUS
<1> DEFINE Kinds == {"analysis", "debug", "control"}
<1>1. PICK n \in Nat : n = Len(sent)
  BY LenProperties DEF TypeOK
<1>2. PICK m \in Nat : m = Len(messageBuffer)
  BY LenProperties DEF TypeOK
<1>3. PICK all : all = sent \o messageBuffer
  OBVIOUS
<1>4. /\ all \in Seq(Messages) /\ Len(all) = n + m
      /\ \A k \in 1..n + m : all[k] = IF k <= n THEN sent[k] ELSE messageBuffer[k - n]
  BY <1>1, <1>2, <1>3, ConcatProperties DEF TypeOK
<1>5. /\ Len(queued) = n + m
      /\ \A k \in 1..n + m : /\ all[k].what = queued[k].what
                             /\ queued[k].id \notin Halves => all[k].id = queued[k].id
  BY <1>3, <1>4 DEF Kept, Matches
<1>6. ASSUME NEW s \in Seq(Messages)
      PROVE  What(s) \in Seq(Kinds) /\ Len(What(s)) = Len(s) /\ \A k \in 1..Len(s) : What(s)[k] = s[k].what
  <2>1. PICK l \in Nat : l = Len(s) /\ DOMAIN s = 1..l
    BY LenProperties
  <2>2. What(s) = [k \in 1..l |-> s[k].what]
    BY <2>1 DEF What
  <2>3. ASSUME NEW k \in 1..l PROVE s[k].what \in Kinds
    <3>1. s[k] \in Messages
      BY <2>1, LenProperties
    <3> QED  BY <3>1 DEF Messages
  <2> HIDE DEF Kinds
  <2> QED  BY <2>1, <2>2, <2>3
<1> HIDE DEF Kinds
<1>7. PICK a \in Seq(Kinds) : a = What(sent) /\ Len(a) = n /\ \A k \in 1..n : a[k] = sent[k].what
  BY <1>1, <1>6 DEF TypeOK
<1>8. PICK b \in Seq(Kinds) :
        b = What(messageBuffer) /\ Len(b) = m /\ \A k \in 1..m : b[k] = messageBuffer[k].what
  BY <1>2, <1>6 DEF TypeOK
<1>9. PICK c \in Seq(Kinds) : c = What(queued) /\ Len(c) = n + m /\ \A k \in 1..n + m : c[k] = queued[k].what
  <2>1. queued \in Seq(Messages)  BY DEF TypeOK
  <2> QED  BY <1>5, <1>6, <2>1, Zenon
<1>10. /\ a \o b \in Seq(Kinds) /\ Len(a \o b) = n + m
       /\ \A k \in 1..n + m : (a \o b)[k] = IF k <= n THEN a[k] ELSE b[k - n]
  <2>1. n = Len(a) /\ m = Len(b)
    BY <1>7, <1>8
  <2> QED  BY <2>1, Joined
<1>11. ASSUME NEW k \in 1..n + m PROVE (a \o b)[k] = c[k]
  <2>1. CASE k <= n
    <3>1. k \in 1..n
      BY <2>1
    <3>2. all[k] = sent[k] /\ all[k].what = queued[k].what
      BY <1>4, <1>5, <2>1
    <3>3. (a \o b)[k] = a[k] /\ a[k] = sent[k].what /\ c[k] = queued[k].what
      BY <1>7, <1>9, <1>10, <2>1, <3>1
    <3> QED  BY <3>2, <3>3
  <2>2. CASE ~(k <= n)
    <3>1. k - n \in 1..m
      BY <2>2
    <3>2. all[k] = messageBuffer[k - n] /\ all[k].what = queued[k].what
      BY <1>4, <1>5, <2>2
    <3>3. b[k - n] = messageBuffer[k - n].what
      BY <1>8, <3>1
    <3>4. (a \o b)[k] = b[k - n] /\ c[k] = queued[k].what
      BY <1>9, <1>10, <2>2
    <3> QED  BY <3>2, <3>3, <3>4
  <2> QED  BY <2>1, <2>2
<1>12. NothingLost
  BY <1>7, <1>8, <1>9, <1>10, <1>11, SeqEqual DEF NothingLost
<1>13. BoundToFrame
  <2>1. DOMAIN sent = 1..n
    BY <1>1, LenProperties DEF TypeOK
  <2>2. \A k \in 1..n : k \in 1..n + m /\ k <= n
    OBVIOUS
  <2> QED  BY <1>4, <1>5, <2>1, <2>2 DEF BoundToFrame
<1> QED  BY <1>12, <1>13

\* The last frame of every multiframe is processed, none twice and none backwards,
\* whatever the strategy drops and however multiframes come.
THEOREM FreshAlways == Spec => []FreshAndForward
<1>1. Inductive => FreshAndForward
  <2> SUFFICES ASSUME Inductive PROVE FreshAndForward
    OBVIOUS
  <2>1. PICK p \in Nat : p = frames.next - 1 /\ (frames.next > 1 <=> p > 0)
    <3>1. frames.next \in Nat \ {0}
      BY BotAssumption DEF Inductive, TypeOK
    <3> QED  BY <3>1
  <2>2. Line(processed, selected, p) /\ (at = "idle" => selected = <<>>)
    BY <2>1 DEF Inductive, InStep
  <2>3. DOMAIN processed = 1..Len(processed)
    BY LenProperties DEF Inductive, TypeOK
  <2>4. \A j, k \in DOMAIN processed : j < k => processed[j] < processed[k]
    BY <2>2, <2>3 DEF Line, Rising
  <2>5. at = "idle" /\ frames.next > 1 => processed[Len(processed)] = frames.next - 1
    BY <2>1, <2>2 DEF Line, EndsWith
  <2> QED  BY <2>4, <2>5 DEF FreshAndForward
<1> QED  BY <1>1, InductiveInvariant, PTL

\* What the bot says reaches downstream once, in order and bound to the frame it is
\* about, a batch is processed as a whole, and the commands come first and last.
THEOREM Safe == Spec => []Safety
<1>1. Inductive => BatchIsComplete
  <2> SUFFICES ASSUME Inductive, mode = "batch", at # "callback"
               PROVE  processed = [k \in 1..frames.next - 1 |-> k]
    BY DEF BatchIsComplete
  <2>1. PICK p \in Nat : p = frames.next - 1
    BY BotAssumption DEF Inductive, TypeOK
  <2>2. selected = <<>> /\ Len(selected) = 0
    BY EmptySeq DEF Inductive, InStep
  <2>3. PICK i \in Nat : i = Len(processed)
    BY LenProperties DEF Inductive, TypeOK
  <2>4. i = p /\ \A k \in 1..p : processed[k] = k
    BY <2>1, <2>2, <2>3 DEF Inductive, Whole
  <2>5. processed \in [1..p -> Ids]
    BY <2>3, <2>4, LenProperties DEF Inductive, TypeOK
  <2> QED  BY <2>1, <2>4, <2>5
<1>2. Inductive => Ceremonies
  <2> SUFFICES ASSUME Inductive PROVE Ceremonies
    OBVIOUS
  <2>1. Told /\ at \in {"configure", "idle", "callback", "shutdown", "done", "failed"}
    BY DEF Inductive, TypeOK
  <2>2. processed # <<>> \/ sent # <<>> => told = <<"configure">> \/ told = <<"configure", "shutdown">>
    BY <2>1 DEF Told
  <2>3. processed # <<>> \/ sent # <<>> => told # <<>> /\ told[1] = "configure"
    BY <2>2
  <2> QED  BY <2>1, <2>3 DEF Ceremonies, Told
<1>3. Inductive => Safety
  BY <1>1, <1>2, SaysTheSame DEF Inductive, Safety
<1> QED  BY <1>3, InductiveInvariant, PTL

-----------------------------------------------------------------------------
(* The decoder and, behind it, the encoder: the invariants.                *)

\* The stage asks and receives only while the sink wants more; it is flushed behind the
\* last packet.
Draining ==
  /\ pc \in {"askedFirst", "asked", "receive"} => Len(got) < Demand
  /\ flushing => source.next = Len(Packets) + 1
  /\ DeletedIsLeft

\* The ids and the decoder's frames go up, and the id of every frame in the decoder is
\* still to be taken.
Sought ==
  /\ Rising(ids, 1, source.next - 1) /\ Rising(decoder, 1, source.next - 1)
  /\ \A i \in 1..Len(decoder) : \E j \in 1..Len(ids) : ids[j] = decoder[i]

\* No frame has the id of a later one, a key frame its own; ids are given in order.
Given ==
  /\ NeverAhead /\ KeysInStep
  /\ \A i \in 1..Len(got) : got[i][2] < source.next
  /\ \A i, j \in 1..Len(got) : i < j => got[i][2] < got[j][2]
  /\ \A i \in 1..Len(got), j \in 1..Len(ids) : got[i][2] < ids[j]

\* The decoder is the one for the packets that come; there is one once metadata came.
Known ==
  ~die /\ ~deleted =>
    /\ context = MetaBefore(use, source.next)
    /\ (\E m \in 1..source.next - 1 : ~Frame(m)) => context # 0

\* The metadata have changed, and no frame has come since.
Renewing ==
  \E n \in 1..source.next - 1 :
    ChangedAt(use, n) /\ \A k \in n + 1..source.next - 1 : ~Frame(k)

\* Without faults the decoder holds the last frames of _ids; ids that a change of
\* metadata left behind are ahead of a key frame.
Left == Len(ids) - Len(decoder)
Suffix ==
  /\ Left >= 0
  /\ \A i \in 1..Len(decoder) : decoder[i] = ids[Left + i]
  /\ Left > 0 => IF decoder = <<>> THEN die \/ deleted \/ Renewing ELSE Key(decoder[1])

\* ... and a frame that its decoder was fed with is in there until it was delivered.
Delivered(n) == \E i \in 1..Len(got) : got[i][1] = n
Inside(n) == \E i \in 1..Len(decoder) : decoder[i] = n
Due(n, last) ==
  Frame(n) /\ (\E m \in 1..n : ~Frame(m)) /\ ~(\E m \in n + 1..last : ChangedAt(use, m))
Feeding == \A n \in 1..source.next - 1 : Due(n, source.next - 1) => Delivered(n) \/ Inside(n)

DecodeInv ==
  /\ DecodeTypeOK /\ Draining /\ Sought /\ Given /\ Known
  /\ Faults = {} => Suffix /\ Feeding
  /\ IdsInStep /\ CompleteIsFull

-----------------------------------------------------------------------------
(* The decoder: lemmas about sequences and types.                          *)

\* What is left of a sequence when the first k were taken.
LEMMA Dropped ==
  ASSUME NEW S, NEW s \in Seq(S), NEW n \in Nat, n = Len(s), NEW k \in 0..n
  PROVE  /\ SubSeq(s, k + 1, n) \in Seq(S) /\ Len(SubSeq(s, k + 1, n)) = n - k
         /\ \A i \in 1..n - k : SubSeq(s, k + 1, n)[i] = s[k + i] /\ k + i \in 1..n
OBVIOUS

\* A sequence is one over any set its elements are from.
LEMMA TypedElements ==
  ASSUME NEW S, NEW s \in Seq(S), NEW T, \A j \in 1..Len(s) : s[j] \in T
  PROVE  s \in Seq(T)
<1>1. Len(s) \in Nat /\ s = [j \in 1..Len(s) |-> s[j]]
  BY LenProperties
<1> QED  BY <1>1

\* It goes up as before, ...
LEMMA RisingDropped ==
  ASSUME NEW s \in Seq(Nat), NEW n \in Nat, n = Len(s), NEW k \in 0..n,
         NEW a \in Nat, NEW b \in Int, Rising(s, a, b)
  PROVE  Rising(SubSeq(s, k + 1, n), a, b)
<1> DEFINE t == SubSeq(s, k + 1, n)
<1>1. Len(t) = n - k /\ \A i \in 1..n - k : t[i] = s[k + i] /\ k + i \in 1..n
  BY Dropped, SMTT(20)
<1> HIDE DEF t
<1>2. \A i \in 1..Len(t) : a <= t[i] /\ t[i] <= b
  BY <1>1 DEF Rising
<1>3. ASSUME NEW i \in 1..n - k, NEW j \in 1..n - k, i < j PROVE t[i] < t[j]
  <2>1. k + i < k + j
    BY <1>3
  <2> QED  BY <1>1, <2>1 DEF Rising
<1> QED  BY <1>1, <1>2, <1>3, Zenon DEF Rising, t

\* ... and with a larger one behind it.
LEMMA RisingAppended ==
  ASSUME NEW s \in Seq(Nat), NEW a \in Nat, NEW b \in Int, Rising(s, a, b),
         NEW x \in Nat, a <= x, b < x
  PROVE  Rising(Append(s, x), a, x)
<1>1. PICK n \in Nat : n = Len(s)
  BY LenProperties
<1> DEFINE t == Append(s, x)
<1>2. Len(t) = n + 1 /\ t[n + 1] = x /\ \A k \in 1..n : t[k] = s[k] /\ s[k] \in Nat
  BY <1>1, Appended, ElementOfSeq
<1> HIDE DEF t
<1>3. ASSUME NEW k \in 1..n + 1 PROVE a <= t[k] /\ t[k] <= x
  BY <1>1, <1>2 DEF Rising
<1>4. ASSUME NEW j \in 1..n + 1, NEW k \in 1..n + 1, j < k PROVE t[j] < t[k]
  BY <1>1, <1>2, <1>4 DEF Rising
<1> QED  BY <1>2, <1>3, <1>4 DEF Rising, t

\* A wider bound above does as well.
LEMMA RisingWider ==
  ASSUME NEW s \in Seq(Nat), NEW a \in Nat, NEW b \in Int, NEW c \in Int, Rising(s, a, b), b <= c
  PROVE  Rising(s, a, c)
BY ElementOfSeq DEF Rising

\* The empty sequence goes up.
LEMMA RisingEmpty ==
  ASSUME NEW a, NEW b
  PROVE  Rising(<<>>, a, b)
BY DEF Rising

\* The types in the form the proofs use them.
LEMMA DecodeTypes ==
  ASSUME DecodeTypeOK
  PROVE  /\ use \in Uses /\ Len(Packets) \in Nat /\ Numbers = 1..Len(Packets)
         /\ Packets \in Seq([kind : {"metadata", "key", "delta"}, meta : Nat])
         /\ \A n \in Numbers : n \in Nat /\ Packets[n].meta \in Nat /\ Packets[n].kind \in {"metadata", "key", "delta"}
         /\ Demand \in Nat \ {0} /\ Lag \in Nat
         /\ decoder \in Seq(Nat) /\ ids \in Seq(Nat) /\ Len(decoder) \in Nat /\ Len(ids) \in Nat
         /\ source.next \in 1..Len(Packets) + 1 /\ source.asked \in Nat /\ source.open \in BOOLEAN
         /\ got \in Seq(Nat \X Nat) /\ Len(got) \in Nat
<1>1. /\ use \in Uses
      /\ use.packets \in Seq([kind : {"metadata", "key", "delta"}, meta : Nat])
      /\ use.demand \in Nat \ {0} /\ use.lag \in Nat
  BY DecodeAssumption DEF DecodeTypeOK
<1>2. Len(Packets) \in Nat /\ Numbers = 1..Len(Packets)
  BY <1>1, LenProperties DEF Packets, Numbers
<1>3. \A n \in Numbers : n \in Nat /\ Packets[n].meta \in Nat /\ Packets[n].kind \in {"metadata", "key", "delta"}
  <2>1. ASSUME NEW n \in 1..Len(use.packets)
        PROVE  use.packets[n] \in [kind : {"metadata", "key", "delta"}, meta : Nat]
    BY <1>1, ElementOfSeq
  <2>2. ASSUME NEW n \in Numbers
        PROVE  n \in Nat /\ Packets[n] \in [kind : {"metadata", "key", "delta"}, meta : Nat]
    BY <1>2, <2>1 DEF Packets
  <2> QED  BY <2>2
<1>4. Numbers \subseteq Nat
  BY <1>3
<1>5. decoder \in Seq(Nat) /\ ids \in Seq(Nat)
  <2>1. decoder \in Seq(Numbers) /\ ids \in Seq(Numbers)
    BY DEF DecodeTypeOK
  <2> HIDE DEF Numbers
  <2> QED  BY <1>4, <2>1, SeqMonotonic
<1>6. Numbers \X Numbers \subseteq Nat \X Nat
  BY <1>4
<1>7. got \in Seq(Nat \X Nat)
  <2>1. got \in Seq(Numbers \X Numbers)
    BY DEF DecodeTypeOK
  <2> QED  BY <1>6, <2>1, SeqMonotonic
<1>8. Len(decoder) \in Nat /\ Len(ids) \in Nat /\ Len(got) \in Nat
  BY <1>5, <1>7, LenProperties
<1>9. source.next \in 1..Len(Packets) + 1 /\ source.asked \in Nat /\ source.open \in BOOLEAN
  BY DEF DecodeTypeOK
<1> QED  BY <1>1, <1>2, <1>3, <1>5, <1>7, <1>8, <1>9 DEF Packets, Demand, Lag

-----------------------------------------------------------------------------
(* The decoder: types, and where drain() is.                               *)

\* Only two handlers and the decoder's answer move packets, ids or frames; drain() never
\* takes back that the stream has ended.
Still ==
  /\ UNCHANGED <<use, context, decoder, ids, got>> /\ source'.next = source.next
  /\ die => die'
  /\ deleted => deleted'

\* What a step of the decoder may be, as the proofs go through them.
LEMMA DecodeSplit ==
  ASSUME DecodeTypeOK, [DecodeNext]_decodeVars
  PROVE  OnNext \/ OnUnusable \/ (ReceiveFrame /\ ~deleted) \/ Still
<1>1. source = [next |-> source.next, asked |-> source.asked, open |-> source.open]
  BY DEF DecodeTypeOK
<1>2. CASE Loop
  BY <1>1, <1>2 DEF Loop, LeaveDrain, Ask, Codec, Still
<1>3. CASE DrainImplReturns
  BY <1>1, <1>3 DEF DrainImplReturns, LeaveDrain, Codec, Still
<1>4. CASE RequestReturns \/ NotReady
  BY <1>1, <1>4 DEF RequestReturns, NotReady, Ask, Codec, End, Still
<1>5. CASE EndOfStream \/ ReceiveFails \/ SinkReturns
  BY <1>1, <1>5 DEF EndOfStream, ReceiveFails, SinkReturns, EndAs, Codec, End, Still
<1>6. CASE OnComplete \/ OnError
  BY <1>1, <1>6 DEF OnComplete, OnError, EndAs, Codec, End, Still
<1>7. CASE UNCHANGED decodeVars
  BY <1>7 DEF decodeVars, Still
<1> QED  BY <1>2, <1>3, <1>4, <1>5, <1>6, <1>7 DEF DecodeNext, Stage

\* What the sink is told of the end is one of three things.
LEMMA EndTyped ==
  ASSUME DecodeTypeOK, NEW how \in {"complete", "error", "cancelled"}, EndAs(how)
  PROVE  /\ ended' \in {"", "complete", "error", "cancelled"}
         /\ die' \in BOOLEAN /\ deleted' \in BOOLEAN
BY DEF EndAs, DecodeTypeOK

\* Where drain() is, and the flags.
Flags ==
  /\ flushing \in BOOLEAN
  /\ pc \in {"idle", "loop", "askedFirst", "asked", "receive", "sink", "returned"}
  /\ again \in BOOLEAN /\ die \in BOOLEAN /\ deleted \in BOOLEAN
  /\ ended \in {"", "complete", "error", "cancelled"}

\* Flags and the place in drain() stay in their types.
LEMMA FlagsStep ==
  ASSUME DecodeTypeOK, [DecodeNext]_decodeVars
  PROVE  Flags'
<1>0. Flags /\ Asking \in BOOLEAN
  <2>1. Flags
    BY DEF DecodeTypeOK, Flags
  <2>2. Asking \in BOOLEAN
    BY DEF Asking
  <2> QED  BY <2>1, <2>2
<1>1. CASE OnNext
  BY <1>0, <1>1 DEF OnNext, Drained, End, Flags
<1>2. CASE OnUnusable
  BY <1>0, <1>2, EndTyped DEF OnUnusable, Drained, Flags
<1>3. CASE OnComplete
  BY <1>0, <1>3, EndTyped DEF OnComplete, Drained, End, Flags
<1>4. CASE OnError
  BY <1>0, <1>4, EndTyped DEF OnError, Codec, Flags
<1>5. CASE Loop
  BY <1>0, <1>5 DEF Loop, LeaveDrain, Ask, Codec, Flags
<1>6. CASE DrainImplReturns
  BY <1>0, <1>6 DEF DrainImplReturns, LeaveDrain, Codec, Flags
<1>7. CASE RequestReturns
  BY <1>0, <1>7 DEF RequestReturns, Codec, End, Flags
<1>8. CASE NotReady
  BY <1>0, <1>8 DEF NotReady, Ask, Codec, End, Flags
<1>9. CASE EndOfStream \/ ReceiveFails
  BY <1>0, <1>9, EndTyped DEF EndOfStream, ReceiveFails, Codec, Flags
<1>10. CASE SinkReturns
  BY <1>0, <1>10, EndTyped DEF SinkReturns, Codec, End, Flags
<1>11. CASE ReceiveFrame
  BY <1>0, <1>11 DEF ReceiveFrame, End, Flags
<1>12. CASE UNCHANGED decodeVars
  BY <1>0, <1>12 DEF decodeVars, Flags
<1> QED  BY <1>1, <1>2, <1>3, <1>4, <1>5, <1>6, <1>7, <1>8, <1>9, <1>10, <1>11, <1>12
         DEF DecodeNext, Stage

\* The source is asked once more, sends one packet more, or has ended.
LEMMA SourceStep ==
  ASSUME DecodeTypeOK, [DecodeNext]_decodeVars
  PROVE  source' \in [next : 1..Len(Packets) + 1, asked : Nat, open : BOOLEAN]
<1> DEFINE Sources == [next : 1..Len(Packets) + 1, asked : Nat, open : BOOLEAN]
<1> SUFFICES source' \in Sources
  OBVIOUS
<1>0. source \in Sources /\ Len(Packets) \in Nat
  BY DecodeTypes DEF DecodeTypeOK
<1>1. \A open \in BOOLEAN : [source EXCEPT !.open = open] \in Sources
  BY <1>0
<1>2. [source EXCEPT !.asked = @ + 1] \in Sources
  BY <1>0
<1>3. Sends => [next |-> source.next + 1, asked |-> source.asked - 1, open |-> Asking] \in Sources
              /\ [source EXCEPT !.next = source.next + 1, !.asked = @ - 1] \in Sources
  <2> SUFFICES ASSUME Sends PROVE /\ [next |-> source.next + 1, asked |-> source.asked - 1, open |-> Asking] \in Sources
                                  /\ [source EXCEPT !.next = source.next + 1, !.asked = @ - 1] \in Sources
    OBVIOUS
  <2>1. source.next + 1 \in 1..Len(Packets) + 1 /\ source.asked - 1 \in Nat
    BY <1>0 DEF Sends, Numbers
  <2>2. Asking \in BOOLEAN /\ source.open \in BOOLEAN
    BY <1>0 DEF Asking
  <2> QED  BY <1>0, <2>1, <2>2
<1> HIDE DEF Sources
<1>4. CASE OnNext \/ OnUnusable
  BY <1>3, <1>4 DEF OnNext, OnUnusable
<1>5. CASE OnComplete \/ OnError
  BY <1>1, <1>5 DEF OnComplete, OnError
<1>6. CASE Loop
  BY <1>0, <1>1, <1>2, <1>6 DEF Loop, LeaveDrain, Ask
<1>7. CASE DrainImplReturns
  BY <1>0, <1>1, <1>7 DEF DrainImplReturns, LeaveDrain
<1>8. CASE NotReady
  BY <1>2, <1>8 DEF NotReady, Ask
<1>9. CASE UNCHANGED source
  BY <1>0, <1>9
<1>10. RequestReturns \/ EndOfStream \/ ReceiveFails \/ ReceiveFrame \/ SinkReturns \/ UNCHANGED decodeVars
         => UNCHANGED source
  BY DEF RequestReturns, EndOfStream, ReceiveFails, ReceiveFrame, SinkReturns, decodeVars
<1> QED  BY <1>4, <1>5, <1>6, <1>7, <1>8, <1>9, <1>10 DEF DecodeNext, Stage

\* A frame that can be had is the first in the decoder, and its id is in _ids.
LEMMA TakenIs ==
  ASSUME DecodeTypeOK, Sought, decoder # <<>>, NEW n, n = Head(decoder)
  PROVE  /\ n \in Numbers /\ n = decoder[1] /\ n < source.next /\ Len(decoder) > 0
         /\ Taken(n) \in 1..Len(ids) /\ ids[Taken(n)] <= n
         /\ Key(n) => ids[Taken(n)] = n
<1>0. /\ decoder \in Seq(Numbers) /\ ids \in Seq(Nat) /\ Len(ids) \in Nat /\ source.next \in Nat
      /\ Numbers \subseteq Nat
  <2>1. decoder \in Seq(Numbers)
    BY DEF DecodeTypeOK
  <2>2. Len(Packets) \in Nat /\ source.next \in 1..Len(Packets) + 1 /\ Numbers = 1..Len(Packets)
    BY DecodeTypes
  <2>3. ids \in Seq(Nat) /\ Len(ids) \in Nat
    BY DecodeTypes
  <2> QED  BY <2>1, <2>2, <2>3
<1>1. n \in Numbers /\ n = decoder[1] /\ Len(decoder) \in Nat /\ Len(decoder) > 0
  BY <1>0, EmptySeq, HeadTailProperties
<1>2. n < source.next /\ n \in Nat
  BY <1>0, <1>1 DEF Sought, Rising
<1>3. PICK j \in 1..Len(ids) : ids[j] = n
  BY <1>1 DEF Sought
<1>4. ids # <<>> /\ 1 \in 1..Len(ids)
  BY <1>0, <1>3, EmptySeq
<1>5. ids[1] <= n
  BY <1>0, <1>2, <1>3, <1>4, ElementOfSeq DEF Sought, Rising
<1>6. CASE Key(n)
  <2>1. Taken(n) = CHOOSE i \in 1..Len(ids) : ids[i] = n
    BY <1>3, <1>4, <1>6, Zenon DEF Taken
  <2>2. Taken(n) \in 1..Len(ids) /\ ids[Taken(n)] = n
    BY <1>3, <2>1, Zenon
  <2> QED  BY <1>1, <1>2, <2>2
<1>7. CASE ~Key(n)
  <2>1. Taken(n) = 1
    BY <1>4, <1>7, Zenon DEF Taken
  <2> QED  BY <1>1, <1>2, <1>4, <1>5, <1>7, <2>1
<1> QED  BY <1>6, <1>7

\* What ReceiveFrame does to the sequences: the first frame of the decoder, with the id
\* at place k.
LEMMA FrameReceived ==
  ASSUME DecodeTypeOK, Sought, ReceiveFrame, NEW n, n = Head(decoder), NEW k, k = Taken(n)
  PROVE  /\ Len(decoder) > 0 /\ n \in Numbers /\ n = decoder[1] /\ n < source.next
         /\ k \in 1..Len(ids) /\ ids[k] \in Numbers /\ ids[k] <= n /\ (Key(n) => ids[k] = n)
         /\ got' = Append(got, <<n, ids[k]>>)
         /\ ids' = SubSeq(ids, k + 1, Len(ids))
         /\ decoder' = SubSeq(decoder, 2, Len(decoder))
         /\ UNCHANGED <<use, context, flushing, again, source, die, ended, deleted>>
         /\ pc = "receive" /\ pc' = "sink"
<1>1. decoder # <<>>
  <2>1. Lag \in Nat
    BY DecodeTypes
  <2>2. Len(<<>>) > Lag => FALSE
    BY <2>1, EmptySeq
  <2> QED  BY <2>2 DEF ReceiveFrame, Ready
<1>2. /\ Len(decoder) > 0 /\ n \in Numbers /\ n = decoder[1] /\ n < source.next
      /\ k \in 1..Len(ids) /\ ids[k] <= n /\ (Key(n) => ids[k] = n)
  BY <1>1, TakenIs
<1>3. ids[k] \in Numbers
  BY <1>2, ElementOfSeq DEF DecodeTypeOK
<1>4. k # 0
  BY <1>2
<1>5. /\ got' = Append(got, <<n, ids[k]>>)
      /\ ids' = SubSeq(ids, k + 1, Len(ids))
      /\ decoder' = Tail(decoder)
  BY <1>4 DEF ReceiveFrame
<1>6. decoder' = SubSeq(decoder, 2, Len(decoder))
  BY <1>1, <1>5, TailIsSubSeq DEF DecodeTypeOK
<1> QED  BY <1>2, <1>3, <1>5, <1>6 DEF ReceiveFrame, End

\* Types are kept.
LEMMA DecodeTypeStep ==
  ASSUME DecodeTypeOK, Draining, Sought, [DecodeNext]_decodeVars
  PROVE  DecodeTypeOK'
<1>0. /\ context \in Nat /\ decoder \in Seq(Numbers) /\ ids \in Seq(Numbers)
      /\ got \in Seq(Numbers \X Numbers) /\ Len(got) <= Demand
  BY DEF DecodeTypeOK
<1>1. use' = use
  BY DEF DecodeNext, Stage, OnNext, OnUnusable, OnComplete, OnError, Loop, RequestReturns, DrainImplReturns,
         NotReady, EndOfStream, ReceiveFails, ReceiveFrame, SinkReturns, decodeVars
<1>2. Flags' /\ source' \in [next : 1..Len(Packets) + 1, asked : Nat, open : BOOLEAN]
  BY FlagsStep, SourceStep
<1>3. ASSUME context' \in Nat, decoder' \in Seq(Numbers), ids' \in Seq(Numbers),
             got' \in Seq(Numbers \X Numbers), Len(got') <= Demand
      PROVE  DecodeTypeOK'
  <2>1. use' \in Uses /\ Packets' = Packets /\ Numbers' = Numbers /\ Demand' = Demand
    BY <1>1 DEF DecodeTypeOK, Packets, Numbers, Demand
  <2> QED  BY <1>2, <1>3, <2>1 DEF DecodeTypeOK, Flags
<1>4. <<>> \in Seq(Numbers)
  BY EmptySeq
<1>5. CASE OnNext
  <2>1. source.next \in Numbers /\ got' = got
    BY <1>5 DEF OnNext, Sends
  <2>2. Packets[source.next].meta \in Nat
    BY <2>1, DecodeTypes
  <2>3. Append(ids, source.next) \in Seq(Numbers) /\ Append(decoder, source.next) \in Seq(Numbers)
    BY <1>0, <2>1, AppendProperties
  <2>4. context' \in Nat /\ decoder' \in Seq(Numbers) /\ ids' \in Seq(Numbers)
    BY <1>0, <1>4, <1>5, <2>2, <2>3 DEF OnNext, Renewed, Fed
  <2> QED  BY <1>0, <1>3, <2>1, <2>4
<1>6. CASE OnUnusable
  BY <1>0, <1>3, <1>4, <1>6 DEF OnUnusable
<1>7. CASE ReceiveFrame
  <2>1. PICK n : n = Head(decoder)
    OBVIOUS
  <2>2. PICK k : k = Taken(n)
    OBVIOUS
  <2>3. /\ Len(decoder) > 0 /\ n \in Numbers /\ k \in 1..Len(ids) /\ ids[k] \in Numbers
        /\ got' = Append(got, <<n, ids[k]>>)
        /\ ids' = SubSeq(ids, k + 1, Len(ids))
        /\ decoder' = SubSeq(decoder, 2, Len(decoder))
        /\ context' = context
        /\ pc = "receive"
    BY <1>7, <2>1, <2>2, FrameReceived
  <2>4. Len(ids) \in Nat /\ Len(decoder) \in Nat /\ Len(got) \in Nat /\ Demand \in Nat
    BY DecodeTypes
  <2>5. ids' \in Seq(Numbers)
    BY <1>0, <2>3, <2>4, Dropped
  <2>6. decoder' \in Seq(Numbers)
    <3>1. SubSeq(decoder, 1 + 1, Len(decoder)) \in Seq(Numbers)
      BY <1>0, <2>3, <2>4, Dropped
    <3> QED  BY <2>3, <3>1
  <2>7. got' \in Seq(Numbers \X Numbers) /\ Len(got') = Len(got) + 1
    <3>1. <<n, ids[k]>> \in Numbers \X Numbers
      BY <2>3
    <3> QED  BY <1>0, <2>3, <3>1, AppendProperties
  <2>8. Len(got') <= Demand
    BY <2>3, <2>4, <2>7 DEF Draining
  <2> QED  BY <1>0, <1>3, <2>3, <2>5, <2>6, <2>7, <2>8
<1>8. CASE Still
  BY <1>0, <1>3, <1>8 DEF Still
<1> QED  BY <1>5, <1>6, <1>7, <1>8, DecodeSplit

\* No use changes.
LEMMA SameUse ==
  ASSUME [DecodeNext]_decodeVars
  PROVE  /\ use' = use /\ Packets' = Packets /\ Numbers' = Numbers /\ Demand' = Demand /\ Faults' = Faults
         /\ \A n : Key(n)' = Key(n) /\ Frame(n)' = Frame(n) /\ Unusable(n)' = Unusable(n)
<1>1. use' = use
  BY DEF DecodeNext, Stage, OnNext, OnUnusable, OnComplete, OnError, Loop, RequestReturns, DrainImplReturns,
         NotReady, EndOfStream, ReceiveFails, ReceiveFrame, SinkReturns, decodeVars
<1>2. Packets' = Packets
  BY <1>1 DEF Packets
<1> QED  BY <1>1, <1>2 DEF Numbers, Demand, Faults, Key, Frame, Unusable, Packets

\* The sink wants more while the stage asks and receives.
LEMMA WantedStep ==
  ASSUME DecodeTypeOK, Draining, [DecodeNext]_decodeVars
  PROVE  pc' \in {"askedFirst", "asked", "receive"} => Len(got') < Demand'
<1> DEFINE Wanted == pc \in {"askedFirst", "asked", "receive"} => Len(got) < Demand
<1> SUFFICES Wanted'
  OBVIOUS
<1>0. Wanted /\ Demand' = Demand /\ Len(got) \in Nat /\ Demand \in Nat
  BY SameUse, DecodeTypes DEF Draining
<1>1. CASE UNCHANGED <<pc, got>>
  BY <1>0, <1>1
<1>2. CASE pc' \notin {"askedFirst", "asked", "receive"}
  BY <1>2
<1>3. CASE Loop
  <2>1. got' = got
    BY <1>3 DEF Loop
  <2>2. CASE Needs > 0 /\ ~die
    BY <1>0, <2>1, <2>2 DEF Needs
  <2>3. CASE ~(Needs > 0 /\ ~die)
    BY <1>2, <1>3, <2>3 DEF Loop, LeaveDrain
  <2> QED  BY <2>2, <2>3
<1>4. CASE OnNext \/ OnUnusable \/ OnComplete \/ OnError
  BY <1>1, <1>2, <1>4 DEF OnNext, OnUnusable, OnComplete, OnError, Drained, Codec
<1>5. CASE RequestReturns
  BY <1>0, <1>2, <1>5 DEF RequestReturns, Asking
<1>6. CASE NotReady
  BY <1>0, <1>6 DEF NotReady, Ask
<1>7. CASE DrainImplReturns \/ EndOfStream \/ ReceiveFails \/ ReceiveFrame \/ SinkReturns
  BY <1>2, <1>7 DEF DrainImplReturns, LeaveDrain, EndOfStream, ReceiveFails, ReceiveFrame, SinkReturns
<1>8. CASE UNCHANGED decodeVars
  BY <1>1, <1>8 DEF decodeVars
<1> QED  BY <1>3, <1>4, <1>5, <1>6, <1>7, <1>8 DEF DecodeNext, Stage

\* The flush comes behind the last packet.
LEMMA FlushStep ==
  ASSUME DecodeTypeOK, Draining, [DecodeNext]_decodeVars
  PROVE  flushing' => source'.next = Len(Packets') + 1
<1>0. /\ Len(Packets) \in Nat /\ Numbers = 1..Len(Packets) /\ source.next \in 1..Len(Packets) + 1
      /\ Packets' = Packets
      /\ flushing => source.next = Len(Packets) + 1
  BY SameUse, DecodeTypes DEF Draining
<1>1. CASE OnNext \/ OnUnusable
  <2>1. source.next \in Numbers /\ flushing' = flushing
    BY <1>1 DEF OnNext, OnUnusable, Sends
  <2>2. ~flushing
    BY <1>0, <2>1
  <2> QED  BY <2>1, <2>2
<1>2. CASE source'.next = source.next /\ flushing' = flushing
  BY <1>0, <1>2
<1>3. CASE ReceiveFrame
  BY <1>2, <1>3 DEF ReceiveFrame
<1>4. CASE Still /\ source.next = Len(Packets) + 1
  BY <1>0, <1>4 DEF Still
<1>5. CASE OnComplete
  <2>1. source.next \notin Numbers /\ source'.next = source.next
    BY <1>5, DecodeSplit DEF OnComplete, DecodeTypeOK
  <2> QED  BY <1>0, <2>1
<1>6. CASE Still /\ ~OnComplete
  <2>1. flushing' = flushing \/ OnNext \/ OnUnusable \/ ReceiveFrame
    BY <1>6 DEF DecodeNext, Stage, OnError, Loop, RequestReturns, DrainImplReturns,
                NotReady, EndOfStream, ReceiveFails, SinkReturns, Codec, decodeVars
  <2> QED  BY <1>1, <1>2, <1>3, <1>6, <2>1 DEF Still
<1> QED  BY <1>1, <1>3, <1>5, <1>6, DecodeSplit

\* No call goes on in a deleted stage, but on_next with metadata that cannot be used.
LEMMA DeletedStep ==
  ASSUME DecodeTypeOK, Draining, [DecodeNext]_decodeVars
  PROVE  DeletedIsLeft'
<1>0. source.next \in Nat /\ DeletedIsLeft
  BY DecodeTypes DEF Draining
<1>1. CASE ~deleted'
  BY <1>1 DEF DeletedIsLeft
<1>2. CASE pc' = "idle"
  BY <1>2 DEF DeletedIsLeft
<1>3. CASE UNCHANGED decodeVars
  BY <1>0, <1>3 DEF decodeVars, DeletedIsLeft, Unusable, Frame, Packets
<1>4. CASE OnUnusable
  <2>1. Unusable(source.next) /\ source'.next = source.next + 1 /\ source.next \in Numbers
    BY <1>4 DEF OnUnusable, Sends
  <2>2. source'.next - 1 = source.next /\ source'.next > 1
    BY <2>1, DecodeTypes
  <2> QED  BY <2>1, <2>2, SameUse DEF DeletedIsLeft
<1>5. CASE OnNext
  BY <1>1, <1>5 DEF OnNext, Sends, End
<1>6. CASE OnComplete \/ OnError
  <2>1. ~deleted /\ (pc = "idle" => pc' = "idle" \/ deleted' = deleted) /\ (deleted' = deleted \/ pc = "idle")
    BY <1>6 DEF OnComplete, OnError, EndAs, End, Drained
  <2> QED  BY <1>1, <1>2, <2>1
<1>7. CASE Stage
  <2>1. ~deleted
    BY <1>7 DEF Stage
  <2>2. CASE Loop \/ DrainImplReturns
    BY <1>1, <1>2, <2>1, <2>2 DEF Loop, DrainImplReturns, LeaveDrain
  <2>3. CASE EndOfStream \/ ReceiveFails \/ SinkReturns
    BY <1>1, <2>1, <2>3 DEF EndOfStream, ReceiveFails, SinkReturns, EndAs, End
  <2>4. CASE RequestReturns \/ NotReady \/ ReceiveFrame
    BY <1>1, <2>1, <2>4 DEF RequestReturns, NotReady, ReceiveFrame, End
  <2> QED  BY <1>7, <2>2, <2>3, <2>4 DEF Stage
<1> QED  BY <1>3, <1>4, <1>5, <1>6, <1>7 DEF DecodeNext

-----------------------------------------------------------------------------
(* The decoder: ids and frames.                                            *)

\* What a packet does to ids and frames.
LEMMA PacketTaken ==
  ASSUME DecodeTypeOK, OnNext \/ OnUnusable, NEW n, n = source.next
  PROVE  /\ n \in Numbers /\ n \in Nat /\ n >= 1 /\ source'.next = n + 1 /\ UNCHANGED <<use, got>>
         /\ ~die /\ ~deleted
         /\ \/ /\ ids' = ids /\ (Frame(n) => context = 0)
               /\ \/ decoder' = decoder
                  \/ /\ decoder' = <<>> /\ ~Frame(n)
                     /\ Packets[n].meta # context \/ (Packets[n].meta = 0 /\ (die' \/ deleted'))
            \/ /\ Frame(n) /\ context # 0 /\ context' = context
               /\ ids' = Append(ids, n)
               /\ decoder' = Append(decoder, n) \/ (decoder' = decoder /\ Faults # {})
<1>1. n \in Numbers /\ n \in Nat /\ n >= 1 /\ ~die /\ ~deleted
  <2>1. n \in Numbers /\ ~die /\ ~deleted
    BY DEF OnNext, OnUnusable, Sends
  <2>2. Numbers = 1..Len(Packets) /\ Len(Packets) \in Nat
    BY DecodeTypes, Zenon
  <2> QED  BY <2>1, <2>2
<1>2. source'.next = n + 1 /\ UNCHANGED <<use, got>>
  <2>1. source' = [source EXCEPT !.next = n + 1, !.asked = @ - 1]
          \/ source' = [next |-> n + 1, asked |-> source.asked - 1, open |-> Asking]
    BY DEF OnNext, OnUnusable
  <2>2. source \in [next : 1..Len(Packets) + 1, asked : Nat, open : BOOLEAN]
    BY DEF DecodeTypeOK
  <2>3. source'.next = n + 1
    <3>1. n + 1 \in Nat /\ source.asked - 1 \in Int
      <4>1. source.asked \in Nat
        BY DecodeTypes, Zenon
      <4> QED  BY <1>1, <4>1
    <3>2. [source EXCEPT !.next = n + 1, !.asked = @ - 1].next = n + 1
      BY <2>2, <3>1, Zenon
    <3>3. [next |-> n + 1, asked |-> source.asked - 1, open |-> Asking].next = n + 1
      OBVIOUS
    <3>4. CASE source' = [source EXCEPT !.next = n + 1, !.asked = @ - 1]
      BY <3>2, <3>4, Zenon
    <3>5. CASE source' = [next |-> n + 1, asked |-> source.asked - 1, open |-> Asking]
      BY <3>3, <3>5, Zenon
    <3> QED  BY <2>1, <3>4, <3>5, Zenon
  <2>4. UNCHANGED <<use, got>>
    BY DEF OnNext, OnUnusable
  <2> QED  BY <2>3, <2>4
<1>3. CASE OnUnusable
  BY <1>1, <1>2, <1>3 DEF OnUnusable, EndAs, Unusable, Sends
<1>4. CASE OnNext /\ (~Frame(n) \/ context = 0)
  BY <1>1, <1>2, <1>4 DEF OnNext, Renewed
<1>5. CASE OnNext /\ Frame(n) /\ context # 0
  <2>1. Fed(n) /\ context' = context
    BY <1>5 DEF OnNext
  <2> QED  BY <1>1, <1>2, <1>5, <2>1 DEF Fed
<1> QED  BY <1>3, <1>4, <1>5

\* Each frame in the decoder finds its id again.
LEMMA SoughtStep ==
  ASSUME DecodeTypeOK, Sought, [DecodeNext]_decodeVars
  PROVE  Sought'
<1>0. /\ decoder \in Seq(Nat) /\ ids \in Seq(Nat) /\ source.next \in Nat
      /\ Len(decoder) \in Nat /\ Len(ids) \in Nat
  BY DecodeTypes
<1>1. CASE OnNext \/ OnUnusable
  <2>1. PICK n : n = source.next
    OBVIOUS
  <2>2. /\ n \in Nat /\ n >= 1 /\ source'.next = n + 1
        /\ \/ ids' = ids /\ decoder' \in {decoder, <<>>}
           \/ ids' = Append(ids, n) /\ decoder' \in {decoder, Append(decoder, n)}
    BY <1>1, <2>1, PacketTaken
  <2>3. source'.next - 1 = n /\ n - 1 \in Int /\ n - 1 < n /\ n - 1 <= n
    BY <2>2
  <2>4. Rising(ids, 1, n - 1) /\ Rising(decoder, 1, n - 1)
    BY <2>1 DEF Sought
  <2>5. /\ Rising(ids, 1, n) /\ Rising(decoder, 1, n) /\ Rising(<<>>, 1, n)
        /\ Rising(Append(ids, n), 1, n) /\ Rising(Append(decoder, n), 1, n)
    BY <1>0, <2>2, <2>3, <2>4, RisingWider, RisingAppended, RisingEmpty
  <2>6. Rising(ids', 1, source'.next - 1) /\ Rising(decoder', 1, source'.next - 1)
    BY <2>2, <2>3, <2>5, Zenon
  <2>7. \A i \in 1..Len(decoder) : \E j \in 1..Len(ids) : ids[j] = decoder[i]
    BY DEF Sought
  <2>8. \A i \in 1..Len(decoder') : \E j \in 1..Len(ids') : ids'[j] = decoder'[i]
    <3>1. CASE ids' = ids /\ decoder' = decoder
      BY <2>7, <3>1
    <3>2. CASE decoder' = <<>>
      BY <3>2
    <3>3. CASE ids' = Append(ids, n) /\ decoder' \in {decoder, Append(decoder, n)}
      <4>1. /\ Len(ids') = Len(ids) + 1 /\ ids'[Len(ids) + 1] = n
            /\ \A k \in 1..Len(ids) : ids'[k] = ids[k]
        BY <1>0, <2>2, <3>3, Appended
      <4>2. /\ Len(Append(decoder, n)) = Len(decoder) + 1 /\ Append(decoder, n)[Len(decoder) + 1] = n
            /\ \A k \in 1..Len(decoder) : Append(decoder, n)[k] = decoder[k]
        BY <1>0, <2>2, Appended
      <4>3. ASSUME NEW i \in 1..Len(decoder)
            PROVE  \E j \in 1..Len(ids') : ids'[j] = decoder[i]
        <5>1. PICK j \in 1..Len(ids) : ids[j] = decoder[i]
          BY <2>7
        <5>2. j \in 1..Len(ids') /\ ids'[j] = decoder[i]
          BY <1>0, <4>1, <5>1
        <5> QED  BY <5>2
      <4>4. CASE decoder' = decoder
        BY <4>3, <4>4
      <4>5. CASE decoder' = Append(decoder, n)
        <5>1. ASSUME NEW i \in 1..Len(decoder) + 1
              PROVE  \E j \in 1..Len(ids') : ids'[j] = decoder'[i]
          <6>1. CASE i = Len(decoder) + 1
            <7>1. Len(ids) + 1 \in 1..Len(ids') /\ ids'[Len(ids) + 1] = decoder'[i]
              BY <1>0, <4>1, <4>2, <4>5, <6>1
            <7> QED  BY <7>1
          <6>2. CASE i \in 1..Len(decoder)
            BY <4>2, <4>3, <4>5, <6>2
          <6> QED  BY <1>0, <6>1, <6>2
        <5> QED  BY <4>2, <4>5, <5>1
      <4> QED  BY <3>3, <4>4, <4>5
    <3> QED  BY <2>2, <3>1, <3>2, <3>3
  <2> QED  BY <2>6, <2>8 DEF Sought
<1>2. CASE ReceiveFrame
  <2>1. PICK n : n = Head(decoder)
    OBVIOUS
  <2>2. PICK k : k = Taken(n)
    OBVIOUS
  <2>3. /\ Len(decoder) > 0 /\ n = decoder[1] /\ k \in 1..Len(ids) /\ ids[k] <= n
        /\ ids' = SubSeq(ids, k + 1, Len(ids))
        /\ decoder' = SubSeq(decoder, 1 + 1, Len(decoder))
        /\ source' = source
    BY <1>2, <2>1, <2>2, FrameReceived
  <2>4. /\ Rising(ids, 1, source.next - 1) /\ Rising(decoder, 1, source.next - 1)
        /\ \A i \in 1..Len(decoder) : \E j \in 1..Len(ids) : ids[j] = decoder[i]
    BY DEF Sought
  <2>5. source.next - 1 \in Int /\ k \in 0..Len(ids) /\ 1 \in 0..Len(decoder)
    BY <1>0, <2>3
  <2>6. Rising(ids', 1, source'.next - 1) /\ Rising(decoder', 1, source'.next - 1)
    BY <1>0, <2>3, <2>4, <2>5, RisingDropped
  <2>7. /\ Len(ids') = Len(ids) - k
        /\ \A i \in 1..Len(ids) - k : ids'[i] = ids[k + i]
    <3>1. /\ Len(SubSeq(ids, k + 1, Len(ids))) = Len(ids) - k
          /\ \A i \in 1..Len(ids) - k : SubSeq(ids, k + 1, Len(ids))[i] = ids[k + i]
      BY <1>0, <2>5, Dropped
    <3> QED  BY <2>3, <3>1, Zenon
  <2>8. /\ Len(decoder') = Len(decoder) - 1
        /\ \A i \in 1..Len(decoder) - 1 : decoder'[i] = decoder[1 + i] /\ 1 + i \in 1..Len(decoder)
    <3>0. PICK one \in 0..Len(decoder) : one = 1
      BY <2>5
    <3>1. /\ Len(SubSeq(decoder, one + 1, Len(decoder))) = Len(decoder) - one
          /\ \A i \in 1..Len(decoder) - one :
               SubSeq(decoder, one + 1, Len(decoder))[i] = decoder[one + i] /\ one + i \in 1..Len(decoder)
      BY <1>0, Dropped
    <3> QED  BY <2>3, <3>0, <3>1, Zenon
  <2>9. ASSUME NEW i \in 1..Len(decoder')
        PROVE  \E j \in 1..Len(ids') : ids'[j] = decoder'[i]
    <3>1. decoder'[i] = decoder[1 + i] /\ 1 + i \in 1..Len(decoder) /\ i \in Nat /\ 1 \in 1..Len(decoder)
      BY <1>0, <2>3, <2>8
    <3>2. PICK j \in 1..Len(ids) : ids[j] = decoder[1 + i]
      BY <2>4, <3>1
    <3>3. decoder[1] < decoder[1 + i]
      BY <2>4, <2>9, <3>1 DEF Rising
    <3>a. /\ ids[k] \in Nat /\ ids[j] \in Nat /\ n \in Nat /\ n = decoder[1]
          /\ k \in Nat /\ j \in Nat /\ ids[k] <= n /\ decoder[1 + i] = ids[j]
      <4>1. k \in 1..Len(ids) /\ ids[k] <= n /\ n = decoder[1]
        BY <2>3
      <4>2. ids[k] \in Nat /\ ids[j] \in Nat /\ decoder[1] \in Nat
        BY <1>0, <3>1, <3>2, <4>1, ElementOfSeq
      <4> QED  BY <1>0, <3>2, <4>1, <4>2
    <3>4. ids[k] < ids[j]
      BY <3>3, <3>a
    <3>5. k < j
      <4>1. j < k => ids[j] < ids[k]
        BY <2>3, <2>4, <3>2 DEF Rising
      <4> QED  BY <3>4, <3>a, <4>1
    <3>6. j - k \in 1..Len(ids) - k /\ k + (j - k) = j
      BY <1>0, <2>3, <3>2, <3>5
    <3>7. ids'[j - k] = decoder'[i] /\ j - k \in 1..Len(ids')
      BY <2>7, <3>1, <3>2, <3>6
    <3> QED  BY <3>7
  <2> QED  BY <2>6, <2>9 DEF Sought
<1>3. CASE Still
  BY <1>3 DEF Still, Sought
<1> QED  BY <1>1, <1>2, <1>3, DecodeSplit

\* Ids are given in order, none ahead of its frame; a key frame gets its own.
LEMMA GivenStep ==
  ASSUME DecodeTypeOK, Sought, Given, [DecodeNext]_decodeVars
  PROVE  Given'
<1>0. /\ got \in Seq(Nat \X Nat) /\ Len(got) \in Nat /\ ids \in Seq(Nat) /\ Len(ids) \in Nat
      /\ source.next \in Nat /\ \A f : Key(f)' = Key(f)
  BY DecodeTypes, SameUse
<1>1. CASE OnNext \/ OnUnusable
  <2>1. PICK n : n = source.next
    OBVIOUS
  <2>2. /\ n \in Nat /\ source'.next = n + 1 /\ got' = got
        /\ ids' = ids \/ ids' = Append(ids, n)
    BY <1>1, <2>1, PacketTaken
  <2>3. \A i \in 1..Len(got) : got[i][2] \in Nat
    BY <1>0, ElementOfSeq
  <2>4. \A i \in 1..Len(got) : got'[i][2] < source'.next
    BY <2>1, <2>2, <2>3 DEF Given
  <2>5. \A i \in 1..Len(got), j \in 1..Len(ids') : got[i][2] < ids'[j]
    <3>1. CASE ids' = ids
      BY <3>1 DEF Given
    <3>2. CASE ids' = Append(ids, n)
      <4>1. /\ Len(ids') = Len(ids) + 1 /\ ids'[Len(ids) + 1] = n
            /\ \A k \in 1..Len(ids) : ids'[k] = ids[k]
        BY <1>0, <2>2, <3>2, Appended
      <4>2. ASSUME NEW i \in 1..Len(got), NEW j \in 1..Len(ids) + 1
            PROVE  got[i][2] < ids'[j]
        <5>1. CASE j = Len(ids) + 1
          BY <2>1, <4>1, <5>1 DEF Given
        <5>2. CASE j \in 1..Len(ids)
          BY <4>1, <5>2 DEF Given
        <5> QED  BY <1>0, <5>1, <5>2
      <4> QED  BY <4>1, <4>2
    <3> QED  BY <2>2, <3>1, <3>2
  <2> QED  BY <1>0, <2>2, <2>4, <2>5 DEF Given, NeverAhead, KeysInStep
<1>2. CASE ReceiveFrame
  <2>1. PICK n : n = Head(decoder)
    OBVIOUS
  <2>2. PICK k : k = Taken(n)
    OBVIOUS
  <2>3. /\ n \in Numbers /\ n < source.next /\ k \in 1..Len(ids) /\ ids[k] <= n
        /\ Key(n) => ids[k] = n
        /\ got' = Append(got, <<n, ids[k]>>)
        /\ ids' = SubSeq(ids, k + 1, Len(ids))
        /\ source' = source
    BY <1>2, <2>1, <2>2, FrameReceived
  <2>4. PICK e : e = ids[k]
    OBVIOUS
  <2>5. e \in Nat /\ n \in Nat
    BY <1>0, <2>3, <2>4, DecodeTypes, ElementOfSeq
  <2>6. PICK m \in Nat : m = Len(got)
    BY <1>0
  <2>7. PICK x : x = <<n, e>>
    OBVIOUS
  <2>8. x \in Nat \X Nat /\ x[1] = n /\ x[2] = e /\ got' = Append(got, x)
    BY <2>3, <2>4, <2>5, <2>7
  <2>9. Len(got') = m + 1 /\ got'[m + 1] = x /\ \A i \in 1..m : got'[i] = got[i]
    BY <1>0, <2>6, <2>8, Appended
  <2>10. \A i \in 1..m : got[i][1] \in Nat /\ got[i][2] \in Nat
    BY <1>0, <2>6, ElementOfSeq
  <2>11. /\ \A i \in 1..m : got[i][2] <= got[i][1] /\ got[i][2] < source.next /\ got[i][2] < e
         /\ \A i \in 1..m : Key(got[i][1]) => got[i][1] = got[i][2]
         /\ \A i, j \in 1..m : i < j => got[i][2] < got[j][2]
         /\ \A i \in 1..m, j \in 1..Len(ids) : got[i][2] < ids[j]
    BY <2>3, <2>4, <2>6 DEF Given, NeverAhead, KeysInStep
  <2>12. ASSUME NEW i \in 1..m + 1
         PROVE  /\ got'[i][2] <= got'[i][1] /\ got'[i][2] < source'.next
                /\ Key(got'[i][1]) => got'[i][1] = got'[i][2]
    <3>1. CASE i = m + 1
      <4>1. e <= n /\ e < source'.next /\ (Key(n) => n = e)
        BY <1>0, <2>3, <2>4, <2>5
      <4>2. got'[i][1] = n /\ got'[i][2] = e
        BY <2>8, <2>9, <3>1
      <4> QED  BY <4>1, <4>2, Zenon
    <3>2. CASE i \in 1..m
      BY <2>3, <2>9, <2>11, <3>2
    <3> QED  BY <3>1, <3>2
  <2>13. ASSUME NEW i \in 1..m + 1, NEW j \in 1..m + 1, i < j
         PROVE  got'[i][2] < got'[j][2]
    <3>1. CASE j = m + 1
      BY <2>8, <2>9, <2>11, <2>13, <3>1
    <3>2. CASE j \in 1..m
      BY <2>9, <2>11, <2>13, <3>2
    <3> QED  BY <3>1, <3>2
  <2>14. /\ Len(ids') = Len(ids) - k
         /\ \A j \in 1..Len(ids) - k : ids'[j] = ids[k + j] /\ k + j \in 1..Len(ids)
    <3>1. k \in 0..Len(ids)
      BY <1>0, <2>3
    <3>2. /\ Len(SubSeq(ids, k + 1, Len(ids))) = Len(ids) - k
          /\ \A i \in 1..Len(ids) - k : SubSeq(ids, k + 1, Len(ids))[i] = ids[k + i] /\ k + i \in 1..Len(ids)
      BY <1>0, <3>1, Dropped
    <3> QED  BY <2>3, <3>2, Zenon
  <2>15. \A j \in 1..Len(ids') : e < ids'[j]
    <3>1. \A i, j \in 1..Len(ids) : i < j => ids[i] < ids[j]
      BY DEF Sought, Rising
    <3>2. k \in 1..Len(ids)
      BY <2>3
    <3>3. ASSUME NEW j \in 1..Len(ids')
          PROVE  e < ids'[j]
      <4>1. ids'[j] = ids[k + j] /\ k + j \in 1..Len(ids)
        BY <2>14
      <4>2. k < k + j
        BY <1>0, <2>14, <3>2
      <4> QED  BY <2>4, <3>1, <3>2, <4>1, <4>2
    <3> QED  BY <3>3
  <2>16. ASSUME NEW i \in 1..m + 1, NEW j \in 1..Len(ids')
         PROVE  got'[i][2] < ids'[j]
    <3>1. CASE i = m + 1
      BY <2>8, <2>9, <2>15, <3>1
    <3>2. CASE i \in 1..m
      BY <2>9, <2>11, <2>14, <3>2
    <3> QED  BY <3>1, <3>2
  <2> QED  BY <1>0, <2>9, <2>12, <2>13, <2>16 DEF Given, NeverAhead, KeysInStep
<1>3. CASE Still
  BY <1>0, <1>3 DEF Still, Given, NeverAhead, KeysInStep
<1> QED  BY <1>1, <1>2, <1>3, DecodeSplit

\* The decoder fits the packets that come.
LEMMA KnownStep ==
  ASSUME DecodeTypeOK, Known, [DecodeNext]_decodeVars
  PROVE  Known'
<1>0. use \in Uses /\ use' = use /\ source.next \in Nat /\ \A f : Frame(f)' = Frame(f)
  BY DecodeTypes, SameUse
<1>1. CASE OnNext
  <2>1. PICK n : n = source.next
    OBVIOUS
  <2>2. n \in Numbers /\ n \in Nat /\ n >= 1 /\ source'.next = n + 1 /\ ~die /\ ~deleted
    BY <1>1, <2>1, PacketTaken
  <2>3. /\ context = MetaBefore(use, n)
        /\ (\E m \in 1..n - 1 : ~Frame(m)) => context # 0
    BY <2>1, <2>2 DEF Known
  <2>4. MetaBefore(use, n + 1) = Packets[n].meta
    BY <2>2 DEF MetaBefore, Packets
  <2>5. CASE Frame(n)
    <3>1. Packets[n].meta = MetaBefore(use, n)
      BY <1>0, <2>2, <2>5, StreamAssumption DEF Frame, Packets, Numbers
    <3>2. context' = context
      BY <1>1, <2>1, <2>5 DEF OnNext
    <3>3. (\E m \in 1..n : ~Frame(m)) => \E m \in 1..n - 1 : ~Frame(m)
      BY <2>2, <2>5
    <3>4. source'.next - 1 = n
      BY <2>2
    <3> QED  BY <1>0, <2>2, <2>3, <2>4, <3>1, <3>2, <3>3, <3>4 DEF Known
  <2>6. CASE ~Frame(n)
    <3>1. context' = Packets[n].meta /\ context' # 0
      BY <1>1, <2>1, <2>6 DEF OnNext, Renewed, Unusable
    <3> QED  BY <1>0, <2>2, <2>4, <3>1 DEF Known
  <2> QED  BY <2>5, <2>6
<1>2. CASE OnUnusable
  BY <1>2 DEF OnUnusable, EndAs, Known
<1>3. CASE ReceiveFrame
  BY <1>0, <1>3 DEF ReceiveFrame, End, Known
<1>4. CASE Still
  BY <1>0, <1>4 DEF Still, Known
<1> QED  BY <1>1, <1>2, <1>3, <1>4, DecodeSplit

-----------------------------------------------------------------------------
(* The decoder: streams without faults.                                    *)

\* The decoder holds the frames whose ids were queued last.
LEMMA SuffixStep ==
  ASSUME DecodeTypeOK, Sought, Known, Faults = {}, Suffix, IdsInStep, [DecodeNext]_decodeVars
  PROVE  Suffix' /\ IdsInStep'
<1>0. /\ decoder \in Seq(Nat) /\ ids \in Seq(Nat) /\ source.next \in Nat
      /\ Len(decoder) \in Nat /\ Len(ids) \in Nat /\ use \in Uses /\ use' = use
      /\ got \in Seq(Nat \X Nat) /\ Len(got) \in Nat
      /\ \A f : Key(f)' = Key(f) /\ Frame(f)' = Frame(f)
  BY DecodeTypes, SameUse
<1>a. PICK left : left = Len(ids) - Len(decoder)
  OBVIOUS
<1>1. left \in Nat /\ left = Len(ids) - Len(decoder)
  <2>1. Left >= 0
    BY DEF Suffix
  <2> QED  BY <1>0, <1>a, <2>1 DEF Left
<1>2. \A i \in 1..Len(decoder) : decoder[i] = ids[left + i]
  BY <1>1 DEF Suffix, Left
<1>3. left > 0 => IF decoder = <<>> THEN die \/ deleted \/ Renewing ELSE Key(decoder[1])
  BY <1>1 DEF Suffix, Left
<1>4. decoder = <<>> <=> Len(decoder) = 0
  BY <1>0, EmptySeq
<1>5. CASE OnNext \/ OnUnusable
  <2>1. PICK n : n = source.next
    OBVIOUS
  <2>2. n \in Numbers /\ n \in Nat /\ n >= 1 /\ source'.next = n + 1 /\ got' = got /\ ~die /\ ~deleted
    BY <1>5, <2>1, PacketTaken
  <2>3. \/ /\ ids' = ids /\ (Frame(n) => context = 0)
           /\ \/ decoder' = decoder
              \/ /\ decoder' = <<>> /\ ~Frame(n)
                 /\ Packets[n].meta # context \/ (Packets[n].meta = 0 /\ (die' \/ deleted'))
        \/ /\ Frame(n) /\ ids' = Append(ids, n) /\ decoder' = Append(decoder, n)
    BY <1>5, <2>1, PacketTaken
  <2>4. context = MetaBefore(use, n) /\ ((\E m \in 1..n - 1 : ~Frame(m)) => context # 0)
    BY <2>1, <2>2 DEF Known
  <2>5. IdsInStep'
    BY <2>2, SameUse DEF IdsInStep
  <2>6. ASSUME Renewing
        PROVE  /\ ~Frame(n) => Renewing'
               /\ Frame(n) => Key(n) /\ context # 0
    <3>1. PICK w \in 1..n - 1 : ChangedAt(use, w) /\ \A k \in w + 1..n - 1 : ~Frame(k)
      BY <2>1, <2>6 DEF Renewing
    <3>2. w \in Nat /\ w \in 1..n /\ w \in 1..Len(use.packets) /\ n \in 1..Len(use.packets) /\ n \in w + 1..Len(use.packets)
      BY <2>2, DecodeTypes DEF Numbers, Packets
    <3>3. ~Frame(w)
      BY <3>1 DEF ChangedAt, Frame, Packets
    <3>4. ~Frame(n) => Renewing'
      <4>1. ~Frame(n) => \A k \in w + 1..n : ~Frame(k)
        BY <2>2, <3>1, <3>2
      <4>2. source'.next - 1 = n
        BY <2>2
      <4> QED  BY <1>0, <3>1, <3>2, <4>1, <4>2 DEF Renewing
    <3>5. Frame(n) => Key(n)
      <4>1. use.faults = {}
        BY DEF Faults
      <4>2. use.packets[n].kind = "delta" => \E k \in w + 1..n - 1 : use.packets[k].kind = "key"
        BY <1>0, <3>1, <3>2, <4>1, StreamAssumption
      <4>3. \A k \in w + 1..n - 1 : use.packets[k].kind # "key"
        BY <3>1 DEF Frame, Packets
      <4>4. Packets[n].kind \in {"metadata", "key", "delta"}
        BY <2>2, DecodeTypes
      <4> QED  BY <4>2, <4>3, <4>4 DEF Frame, Key, Packets
    <3> QED  BY <2>4, <3>1, <3>3, <3>4, <3>5
  <2>7. CASE ids' = ids /\ decoder' = decoder /\ (Frame(n) => context = 0)
    <3>1. left > 0 => IF decoder' = <<>> THEN die' \/ deleted' \/ Renewing' ELSE Key(decoder'[1])
      BY <1>3, <2>2, <2>6, <2>7, Zenon
    <3> QED  BY <1>0, <1>1, <1>2, <2>5, <2>7, <3>1 DEF Suffix, Left
  <2>8. CASE /\ ids' = ids /\ decoder' = <<>> /\ ~Frame(n)
             /\ Packets[n].meta # context \/ (Packets[n].meta = 0 /\ (die' \/ deleted'))
    <3>1. die' \/ deleted' \/ Renewing'
      <4>1. CASE Packets[n].meta # context
        <5>1. ChangedAt(use, n)
          BY <2>4, <2>8, <4>1 DEF ChangedAt, Frame, Packets
        <5>2. n \in 1..n /\ source'.next - 1 = n /\ \A k \in n + 1..n : FALSE
          BY <2>2
        <5> QED  BY <1>0, <5>1, <5>2 DEF Renewing
      <4> QED  BY <2>8, <4>1
    <3>2. Len(decoder') = 0
      BY <2>8
    <3> QED  BY <1>0, <2>5, <2>8, <3>1, <3>2 DEF Suffix, Left
  <2>9. CASE Frame(n) /\ ids' = Append(ids, n) /\ decoder' = Append(decoder, n)
    <3>1. /\ Len(ids') = Len(ids) + 1 /\ ids'[Len(ids) + 1] = n
          /\ \A k \in 1..Len(ids) : ids'[k] = ids[k]
      BY <1>0, <2>2, <2>9, Appended
    <3>2. /\ Len(decoder') = Len(decoder) + 1 /\ decoder'[Len(decoder) + 1] = n
          /\ \A k \in 1..Len(decoder) : decoder'[k] = decoder[k]
      BY <1>0, <2>2, <2>9, Appended
    <3>3. Len(ids') - Len(decoder') = left
      BY <1>0, <1>1, <3>1, <3>2
    <3>4. ASSUME NEW i \in 1..Len(decoder) + 1
          PROVE  decoder'[i] = ids'[left + i]
      <4>1. CASE i = Len(decoder) + 1
        BY <1>0, <1>1, <3>1, <3>2, <4>1
      <4>2. CASE i \in 1..Len(decoder)
        <5>1. left + i \in 1..Len(ids)
          BY <1>0, <1>1, <4>2
        <5> QED  BY <1>2, <3>1, <3>2, <4>2, <5>1
      <4> QED  BY <1>0, <4>1, <4>2
    <3>5. left > 0 => decoder' # <<>> /\ Key(decoder'[1])
      <4>1. Len(decoder') # 0 /\ decoder' # <<>>
        <5>1. Len(decoder') # 0
          BY <1>0, <3>2
        <5> QED  BY <5>1, EmptySeq
      <4>2. CASE decoder = <<>>
        <5>1. decoder'[1] = n
          BY <1>4, <3>2, <4>2
        <5> QED  BY <1>3, <2>2, <2>6, <2>9, <4>1, <4>2, <5>1, Zenon
      <4>3. CASE decoder # <<>>
        <5>1. decoder'[1] = decoder[1]
          BY <1>0, <1>4, <3>2, <4>3
        <5> QED  BY <1>3, <4>1, <4>3, <5>1
      <4> QED  BY <4>2, <4>3
    <3>6. /\ left >= 0 /\ (left > 0 => IF decoder' = <<>> THEN die' \/ deleted' \/ Renewing' ELSE Key(decoder'[1]))
          /\ \A i \in 1..Len(decoder') : decoder'[i] = ids'[left + i]
      BY <1>1, <3>2, <3>4, <3>5
    <3> QED  BY <1>0, <2>5, <3>3, <3>6 DEF Suffix, Left
  <2> QED  BY <2>3, <2>7, <2>8, <2>9
<1>6. CASE ReceiveFrame
  <2>1. PICK n : n = Head(decoder)
    OBVIOUS
  <2>2. PICK k : k = Taken(n)
    OBVIOUS
  <2>3. /\ Len(decoder) > 0 /\ n = decoder[1] /\ n \in Numbers
        /\ k \in 1..Len(ids) /\ ids[k] \in Numbers /\ ids[k] <= n /\ (Key(n) => ids[k] = n)
        /\ got' = Append(got, <<n, ids[k]>>)
        /\ ids' = SubSeq(ids, k + 1, Len(ids))
        /\ decoder' = SubSeq(decoder, 2, Len(decoder))
    BY <1>6, <2>1, <2>2, FrameReceived
  <2>4. n = ids[left + 1] /\ left + 1 \in 1..Len(ids) /\ n \in Nat /\ ids[k] \in Nat
    <3>1. n \in Nat /\ ids[k] \in Nat
      BY <2>3, DecodeTypes
    <3>2. 1 \in 1..Len(decoder) /\ left + 1 \in 1..Len(ids)
      BY <1>0, <1>1, <2>3
    <3> QED  BY <1>2, <2>3, <3>1, <3>2
  <2>5. \A i, j \in 1..Len(ids) : i < j => ids[i] < ids[j]
    BY DEF Sought, Rising
  <2>6. k = left + 1 /\ ids[k] = n
    <3>1. CASE Key(n)
      BY <2>3, <2>4, <2>5, <3>1
    <3>2. CASE ~Key(n)
      <4>0. decoder # <<>>
        BY <1>4, <2>3
      <4>a. ~(left > 0)
        BY <1>3, <2>3, <3>2, <4>0, Zenon
      <4>1. left = 0
        BY <1>1, <4>a
      <4>2. k = 1
        BY <2>3, <2>4, <2>5, <4>1
      <4> QED  BY <2>4, <4>1, <4>2
    <3> QED  BY <3>1, <3>2
  <2>7. /\ Len(ids') = Len(ids) - k
        /\ \A j \in 1..Len(ids) - k : ids'[j] = ids[k + j]
    <3>1. k \in 0..Len(ids)
      BY <1>0, <2>3
    <3>2. /\ Len(SubSeq(ids, k + 1, Len(ids))) = Len(ids) - k
          /\ \A i \in 1..Len(ids) - k : SubSeq(ids, k + 1, Len(ids))[i] = ids[k + i]
      BY <1>0, <3>1, Dropped
    <3> QED  BY <2>3, <3>2, Zenon
  <2>8. /\ Len(decoder') = Len(decoder) - 1
        /\ \A i \in 1..Len(decoder) - 1 : decoder'[i] = decoder[1 + i] /\ 1 + i \in 1..Len(decoder)
    <3>0. PICK one \in 0..Len(decoder) : one = 1 /\ one + 1 = 2
      BY <1>0, <2>3
    <3>1. /\ Len(SubSeq(decoder, one + 1, Len(decoder))) = Len(decoder) - one
          /\ \A i \in 1..Len(decoder) - one :
               SubSeq(decoder, one + 1, Len(decoder))[i] = decoder[one + i] /\ one + i \in 1..Len(decoder)
      BY <1>0, Dropped
    <3> QED  BY <2>3, <3>0, <3>1, Zenon
  <2>9. Len(ids') - Len(decoder') = 0
    BY <1>0, <1>1, <2>6, <2>7, <2>8
  <2>10. ASSUME NEW i \in 1..Len(decoder')
         PROVE  decoder'[i] = ids'[i]
    <3>1. decoder'[i] = decoder[1 + i] /\ 1 + i \in 1..Len(decoder)
      BY <2>8
    <3>2. decoder[1 + i] = ids[left + (1 + i)]
      BY <1>2, <3>1
    <3>3. i \in 1..Len(ids) - k /\ k + i = left + (1 + i)
      BY <1>0, <1>1, <2>6, <2>8
    <3> QED  BY <2>7, <3>1, <3>2, <3>3
  <2>11. Suffix'
    <3>1. \A i \in 1..Len(decoder') : 0 + i = i
      OBVIOUS
    <3> QED  BY <2>9, <2>10, <3>1 DEF Suffix, Left
  <2>12. IdsInStep'
    <3>1. PICK x : x = <<n, ids[k]>>
      OBVIOUS
    <3>2. x \in Nat \X Nat /\ x[1] = x[2] /\ got' = Append(got, x)
      BY <2>3, <2>4, <2>6, <3>1
    <3>3. /\ Len(got') = Len(got) + 1 /\ got'[Len(got) + 1] = x
          /\ \A i \in 1..Len(got) : got'[i] = got[i]
      BY <1>0, <3>2, Appended
    <3>4. ASSUME NEW i \in 1..Len(got) + 1
          PROVE  got'[i][1] = got'[i][2]
      <4>1. CASE i = Len(got) + 1
        BY <3>2, <3>3, <4>1
      <4>2. CASE i \in 1..Len(got)
        BY <3>3, <4>2 DEF IdsInStep
      <4> QED  BY <1>0, <4>1, <4>2
    <3> QED  BY <3>3, <3>4 DEF IdsInStep
  <2> QED  BY <2>11, <2>12
<1>7. CASE Still
  <2>1. UNCHANGED <<use, decoder, ids, got>> /\ source'.next = source.next /\ (die => die') /\ (deleted => deleted')
    BY <1>7 DEF Still
  <2>2. Renewing => Renewing'
    BY <1>0, <2>1 DEF Renewing
  <2>3. left > 0 => IF decoder' = <<>> THEN die' \/ deleted' \/ Renewing' ELSE Key(decoder'[1])
    BY <1>3, <2>1, <2>2, Zenon
  <2>4. IdsInStep'
    BY <2>1, SameUse DEF IdsInStep
  <2> QED  BY <1>0, <1>1, <1>2, <2>1, <2>3, <2>4 DEF Suffix, Left
<1> QED  BY <1>5, <1>6, <1>7, DecodeSplit

\* A frame that was fed is delivered or inside.
LEMMA FeedingStep ==
  ASSUME DecodeTypeOK, Sought, Known, Faults = {}, Feeding, [DecodeNext]_decodeVars
  PROVE  Feeding'
<1>0. /\ decoder \in Seq(Nat) /\ Len(decoder) \in Nat /\ got \in Seq(Nat \X Nat) /\ Len(got) \in Nat
      /\ use' = use /\ source.next \in Nat
      /\ \A f : Frame(f)' = Frame(f)
  BY DecodeTypes, SameUse
<1>1. CASE OnNext \/ OnUnusable
  <2>1. PICK n : n = source.next
    OBVIOUS
  <2>2. n \in Numbers /\ n \in Nat /\ n >= 1 /\ source'.next = n + 1 /\ got' = got /\ ~die /\ ~deleted
    BY <1>1, <2>1, PacketTaken
  <2>3. \/ /\ ids' = ids /\ (Frame(n) => context = 0)
           /\ \/ decoder' = decoder
              \/ /\ decoder' = <<>> /\ ~Frame(n)
                 /\ Packets[n].meta # context \/ (Packets[n].meta = 0 /\ (die' \/ deleted'))
        \/ /\ Frame(n) /\ ids' = Append(ids, n) /\ decoder' = Append(decoder, n)
    BY <1>1, <2>1, PacketTaken
  <2>4. context = MetaBefore(use, n) /\ ((\E m \in 1..n - 1 : ~Frame(m)) => context # 0)
    BY <2>1, <2>2 DEF Known
  <2>5. \A m : Delivered(m) => Delivered(m)'
    BY <2>2 DEF Delivered
  <2>6. ASSUME NEW m \in 1..n - 1, Due(m, n)
        PROVE  (Delivered(m) \/ Inside(m)) /\ context # 0 /\ ~ChangedAt(use, n)
    <3>1. Due(m, n - 1)
      BY <2>2, <2>6 DEF Due
    <3>2. Delivered(m) \/ Inside(m)
      BY <2>1, <3>1 DEF Feeding
    <3>3. \E i \in 1..n - 1 : ~Frame(i)
      BY <2>2, <2>6 DEF Due
    <3>4. n \in m + 1..n
      BY <2>2
    <3> QED  BY <2>4, <2>6, <3>2, <3>3, <3>4 DEF Due
  <2>7. ASSUME NEW m \in 1..n, Due(m, n)
        PROVE  (Delivered(m) \/ Inside(m))'
    <3>1. CASE m = n
      <4>1. Frame(n) /\ \E i \in 1..n - 1 : ~Frame(i)
        BY <2>2, <2>7, <3>1 DEF Due
      <4>2. decoder' = Append(decoder, n)
        BY <2>3, <2>4, <4>1
      <4>3. Len(decoder') = Len(decoder) + 1 /\ decoder'[Len(decoder) + 1] = n
        BY <1>0, <2>2, <4>2, Appended
      <4>4. Len(decoder) + 1 \in 1..Len(decoder')
        BY <1>0, <4>3
      <4> QED  BY <3>1, <4>3, <4>4 DEF Inside
    <3>2. CASE m \in 1..n - 1
      <4>1. (Delivered(m) \/ Inside(m)) /\ context # 0 /\ ~ChangedAt(use, n)
        BY <2>6, <2>7, <3>2
      <4>2. CASE decoder' = decoder
        BY <2>5, <4>1, <4>2 DEF Inside
      <4>3. CASE decoder' = Append(decoder, n)
        <5>1. /\ Len(decoder') = Len(decoder) + 1
              /\ \A i \in 1..Len(decoder) : decoder'[i] = decoder[i]
          BY <1>0, <2>2, <4>3, Appended
        <5>2. Inside(m) => Inside(m)'
          BY <1>0, <5>1 DEF Inside
        <5> QED  BY <2>5, <4>1, <5>2
      <4>4. CASE ~Frame(n) /\ (Packets[n].meta # context \/ Packets[n].meta = 0)
        <5>1. ChangedAt(use, n)
          BY <2>4, <4>1, <4>4 DEF ChangedAt, Frame, Packets
        <5> QED  BY <4>1, <5>1
      <4> QED  BY <2>3, <4>2, <4>3, <4>4
    <3> QED  BY <2>2, <3>1, <3>2
  <2>8. source'.next - 1 = n
    BY <2>2
  <2> QED  BY <1>0, <2>7, <2>8 DEF Feeding, Due
<1>2. CASE ReceiveFrame
  <2>1. PICK n : n = Head(decoder)
    OBVIOUS
  <2>2. PICK k : k = Taken(n)
    OBVIOUS
  <2>3. /\ Len(decoder) > 0 /\ n = decoder[1] /\ n \in Numbers /\ ids[k] \in Numbers
        /\ got' = Append(got, <<n, ids[k]>>)
        /\ decoder' = SubSeq(decoder, 2, Len(decoder))
        /\ source' = source
    BY <1>2, <2>1, <2>2, FrameReceived
  <2>4. PICK x : x = <<n, ids[k]>>
    OBVIOUS
  <2>5. x \in Nat \X Nat /\ x[1] = n /\ got' = Append(got, x)
    BY <2>3, <2>4, DecodeTypes
  <2>6. /\ Len(got') = Len(got) + 1 /\ got'[Len(got) + 1] = x
        /\ \A i \in 1..Len(got) : got'[i] = got[i]
    BY <1>0, <2>5, Appended
  <2>7. Delivered(n)' /\ \A m : Delivered(m) => Delivered(m)'
    <3>1. Len(got) + 1 \in 1..Len(got') /\ \A i \in 1..Len(got) : i \in 1..Len(got')
      BY <1>0, <2>6
    <3> QED  BY <2>5, <2>6, <3>1 DEF Delivered
  <2>8. /\ Len(decoder') = Len(decoder) - 1
        /\ \A i \in 1..Len(decoder) - 1 : decoder'[i] = decoder[1 + i]
    <3>0. PICK one \in 0..Len(decoder) : one = 1 /\ one + 1 = 2
      BY <1>0, <2>3
    <3>1. /\ Len(SubSeq(decoder, one + 1, Len(decoder))) = Len(decoder) - one
          /\ \A i \in 1..Len(decoder) - one : SubSeq(decoder, one + 1, Len(decoder))[i] = decoder[one + i]
      BY <1>0, Dropped
    <3> QED  BY <2>3, <3>0, <3>1, Zenon
  <2>9. ASSUME NEW m, Inside(m) PROVE m = n \/ Inside(m)'
    <3>1. PICK i \in 1..Len(decoder) : decoder[i] = m
      BY <2>9 DEF Inside
    <3>2. CASE i = 1
      BY <2>3, <3>1, <3>2
    <3>3. CASE i # 1
      <4>1. i - 1 \in 1..Len(decoder) - 1 /\ 1 + (i - 1) = i
        BY <1>0, <3>1, <3>3
      <4>2. i - 1 \in 1..Len(decoder') /\ decoder'[i - 1] = m
        BY <2>8, <3>1, <4>1
      <4> QED  BY <4>2 DEF Inside
    <3> QED  BY <3>2, <3>3
  <2>10. \A m : Delivered(m) \/ Inside(m) => (Delivered(m) \/ Inside(m))'
    BY <2>7, <2>9
  <2> QED  BY <1>0, <2>3, <2>10 DEF Feeding, Due
<1>3. CASE Still
  <2>1. UNCHANGED <<use, decoder, got>> /\ source'.next = source.next
    BY <1>3 DEF Still
  <2> QED  BY <1>0, <2>1 DEF Feeding, Due, Delivered, Inside
<1> QED  BY <1>1, <1>2, <1>3, DecodeSplit

\* How a stream comes to be complete: without a decoder, or when the flushed decoder has
\* nothing left.
LEMMA HowComplete ==
  ASSUME DecodeTypeOK, [DecodeNext]_decodeVars, ended' = "complete"
  PROVE  \/ ended = "complete"
         \/ source.next \notin Numbers /\ ~die /\ ~deleted /\ context = 0 /\ got' = got
         \/ flushing /\ decoder = <<>> /\ got' = got
<1>0. "complete" # "cancelled" /\ "complete" # "error"
  OBVIOUS
<1>1. CASE OnComplete
  BY <1>1 DEF OnComplete, EndAs, End
<1>2. CASE EndOfStream
  BY <1>2 DEF EndOfStream, Ready, Codec
<1>3. CASE OnNext \/ OnUnusable \/ OnError
  BY <1>0, <1>3 DEF OnNext, OnUnusable, OnError, EndAs, End
<1>4. CASE ReceiveFails \/ SinkReturns
  BY <1>0, <1>4 DEF ReceiveFails, SinkReturns, EndAs, End
<1>5. CASE Loop \/ RequestReturns \/ DrainImplReturns \/ NotReady \/ ReceiveFrame \/ UNCHANGED decodeVars
  BY <1>5 DEF Loop, RequestReturns, DrainImplReturns, NotReady, ReceiveFrame, End, decodeVars
<1> QED  BY <1>1, <1>2, <1>3, <1>4, <1>5 DEF DecodeNext, Stage

\* The sink gets more images, and never other ones.
LEMMA GotGrows ==
  ASSUME DecodeTypeOK, Sought, [DecodeNext]_decodeVars
  PROVE  /\ Len(got') \in Nat /\ Len(got) <= Len(got')
         /\ \A i \in 1..Len(got) : got'[i] = got[i]
<1>1. got \in Seq(Nat \X Nat) /\ Len(got) \in Nat
  BY DecodeTypes
<1>2. CASE got' = got
  BY <1>1, <1>2
<1>3. CASE ReceiveFrame
  <2>1. PICK f : f = Head(decoder)
    OBVIOUS
  <2>2. PICK k : k = Taken(f)
    OBVIOUS
  <2>3. f \in Numbers /\ ids[k] \in Numbers /\ got' = Append(got, <<f, ids[k]>>)
    BY <1>3, <2>1, <2>2, FrameReceived
  <2>4. PICK x : x = <<f, ids[k]>>
    OBVIOUS
  <2>5. x \in Nat \X Nat /\ got' = Append(got, x)
    BY <2>3, <2>4, DecodeTypes
  <2>6. Len(got') = Len(got) + 1 /\ \A i \in 1..Len(got) : got'[i] = got[i]
    BY <1>1, <2>5, Appended
  <2> QED  BY <1>1, <2>6
<1>4. OnNext \/ OnUnusable \/ Still => got' = got
  BY DEF OnNext, OnUnusable, Still
<1> QED  BY <1>2, <1>3, <1>4, DecodeSplit

\* A complete stream was delivered in full.
LEMMA CompleteStep ==
  ASSUME DecodeTypeOK, Draining, Sought, Known, Faults = {} => Feeding, CompleteIsFull, [DecodeNext]_decodeVars
  PROVE  CompleteIsFull'
<1> SUFFICES ASSUME ended' = "complete", Faults = {}, NEW n \in Numbers, Due(n, Len(Packets))
             PROVE  Delivered(n)'
  <2>1. Numbers' = Numbers /\ Faults' = Faults /\ Len(Packets)' = Len(Packets) /\ use' = use
    BY SameUse
  <2>2. \A m : Frame(m)' = Frame(m)
    BY SameUse
  <2> QED  BY <2>1, <2>2 DEF CompleteIsFull, Due, Delivered
<1>0. Len(Packets) \in Nat /\ source.next \in 1..Len(Packets) + 1 /\ Numbers = 1..Len(Packets)
  BY DecodeTypes
<1>1. Delivered(n) => Delivered(n)'
  <2>1. /\ Len(got') \in Nat /\ Len(got) <= Len(got') /\ Len(got) \in Nat
        /\ \A i \in 1..Len(got) : got'[i] = got[i]
    BY GotGrows, DecodeTypes
  <2>2. \A i \in 1..Len(got) : i \in 1..Len(got')
    BY <2>1
  <2> QED  BY <2>1, <2>2 DEF Delivered
<1>2. CASE ended = "complete"
  BY <1>1, <1>2 DEF CompleteIsFull, Due, Delivered
<1>3. CASE source.next \notin Numbers /\ ~die /\ ~deleted /\ context = 0
  <2>1. source.next - 1 = Len(Packets)
    BY <1>0, <1>3
  <2>2. \E m \in 1..source.next - 1 : ~Frame(m)
    BY <1>0, <2>1 DEF Due
  <2> QED  BY <1>3, <2>2 DEF Known
<1>4. CASE flushing /\ decoder = <<>>
  <2>1. source.next - 1 = Len(Packets)
    BY <1>0, <1>4 DEF Draining
  <2>2. Delivered(n) \/ Inside(n)
    BY <1>0, <2>1 DEF Feeding
  <2>3. ~Inside(n)
    BY <1>4 DEF Inside
  <2> QED  BY <1>1, <2>2, <2>3
<1> QED  BY <1>2, <1>3, <1>4, HowComplete

-----------------------------------------------------------------------------
(* The decoder: theorems.                                                  *)

\* The constructor and the first drain(): nothing came yet.
LEMMA DecodeInitially ==
  DecodeInit => DecodeInv
<1> SUFFICES ASSUME DecodeInit PROVE DecodeInv
  OBVIOUS
<1>1. /\ use \in Uses
      /\ use.packets \in Seq([kind : {"metadata", "key", "delta"}, meta : Nat])
      /\ use.demand \in Nat \ {0}
  BY DecodeAssumption DEF DecodeInit
<1>2. Len(Packets) \in Nat /\ Demand \in Nat \ {0}
  BY <1>1, LenProperties DEF Packets, Demand
<1>3. Len(<<>>) = 0 /\ \A S : <<>> \in Seq(S)
  BY EmptySeq
<1>4. source.next = 1 /\ source \in [next : 1..Len(Packets) + 1, asked : Nat, open : BOOLEAN]
  <2>1. source = [next |-> 1, asked |-> 0, open |-> TRUE]
    BY DEF DecodeInit
  <2>2. 1 \in 1..Len(Packets) + 1
    BY <1>2
  <2> QED  BY <2>1, <2>2
<1>b. context = 0 /\ decoder = <<>> /\ ids = <<>> /\ got = <<>>
  BY DEF DecodeInit
<1>a. /\ context = 0 /\ decoder = <<>> /\ flushing = FALSE /\ ids = <<>> /\ got = <<>>
      /\ pc = "loop" /\ again = FALSE /\ die = FALSE /\ ended = "" /\ deleted = FALSE
  BY DEF DecodeInit
<1>5. DecodeTypeOK
  <2>1. Len(got) <= Demand
    BY <1>2, <1>3, <1>b
  <2>2. decoder \in Seq(Numbers) /\ ids \in Seq(Numbers) /\ got \in Seq(Numbers \X Numbers)
    BY <1>3, <1>a, Zenon
  <2>3. context \in Nat
    BY <1>a
  <2>4. /\ flushing \in BOOLEAN /\ again \in BOOLEAN /\ die \in BOOLEAN /\ deleted \in BOOLEAN
        /\ pc \in {"idle", "loop", "askedFirst", "asked", "receive", "sink", "returned"}
        /\ ended \in {"", "complete", "error", "cancelled"}
    BY <1>a, Zenon
  <2> QED  BY <1>1, <1>4, <2>1, <2>2, <2>3, <2>4, Zenon DEF DecodeTypeOK
<1>6. Draining
  BY <1>3 DEF DecodeInit, Draining, DeletedIsLeft
<1>7. Sought /\ Given /\ Suffix /\ IdsInStep
  <2>1. Sought
    BY <1>3, <1>a, RisingEmpty DEF Sought
  <2>2. Given /\ IdsInStep
    BY <1>3, <1>b DEF Given, NeverAhead, KeysInStep, IdsInStep
  <2>3. Suffix
    <3>1. Left = 0
      BY <1>3, <1>b DEF Left
    <3> QED  BY <1>3, <1>b, <3>1 DEF Suffix
  <2> QED  BY <2>1, <2>2, <2>3
<1>8. Known
  <2>1. context = MetaBefore(use, source.next)
    BY <1>4, <1>a DEF MetaBefore
  <2>2. \A m \in 1..source.next - 1 : FALSE
    BY <1>4
  <2> QED  BY <2>1, <2>2 DEF Known
<1>9. Feeding
  BY <1>4 DEF Feeding
<1>10. CompleteIsFull
  BY DEF DecodeInit, CompleteIsFull
<1> QED  BY <1>5, <1>6, <1>7, <1>8, <1>9, <1>10 DEF DecodeInv

\* Every step keeps the invariant.
LEMMA DecodeStep ==
  DecodeInv /\ [DecodeNext]_decodeVars => DecodeInv'
<1> SUFFICES ASSUME DecodeInv, [DecodeNext]_decodeVars PROVE DecodeInv'
  OBVIOUS
<1>0. /\ DecodeTypeOK /\ Draining /\ Sought /\ Given /\ Known
      /\ Faults = {} => Suffix /\ Feeding
      /\ IdsInStep /\ CompleteIsFull
  BY DEF DecodeInv
<1>1. DecodeTypeOK'
  BY <1>0, DecodeTypeStep
<1>2. Draining'
  BY <1>0, WantedStep, FlushStep, DeletedStep DEF Draining
<1>3. Sought' /\ Given' /\ Known'
  BY <1>0, SoughtStep, GivenStep, KnownStep
<1>4. Faults' = Faults
  BY SameUse
<1>5. Faults = {} => Suffix' /\ IdsInStep' /\ Feeding'
  BY <1>0, SuffixStep, FeedingStep
<1>6. Faults # {} => IdsInStep'
  BY <1>4 DEF IdsInStep
<1>7. CompleteIsFull'
  BY <1>0, CompleteStep
<1> QED  BY <1>1, <1>2, <1>3, <1>4, <1>5, <1>6, <1>7 DEF DecodeInv

\* Whatever the packets, the faults and the sink: frames have the ids they ought to,
\* a stream that completes was delivered in full, and nothing goes on in a deleted stage.
THEOREM DecodeIsSafe == DecodeSpec => [](DecodeSafety /\ KeysInStep)
<1>1. DecodeSpec => []DecodeInv
  BY DecodeInitially, DecodeStep, PTL DEF DecodeSpec
<1>2. DecodeInv => DecodeSafety /\ KeysInStep
  BY DEF DecodeInv, Given, Draining, DecodeSafety
<1> QED  BY <1>1, <1>2, PTL

-----------------------------------------------------------------------------
(* The encoder behind it: invariant and lemmas.                            *)

Packet == [image : Nat, id : Nat]

\* Images and ids of what was written: the metadata first, none beyond the last image
\* that was sent nor beyond its id.
Ordered(w, last, id) ==
  /\ w # <<>> => w[1].image = 0
  /\ \A j \in 1..Len(w) : w[j].image <= last /\ w[j].id <= id
  /\ \A j, k \in 1..Len(w) : j < k => w[j].image < w[k].image /\ w[j].id <= w[k].id

\* Each packet has the id of an image that the encoder was sent by then, lag images
\* later at most, not counting those it refused.
Ahead(w, g, c) ==
  \A j \in 1..Len(w) : w[j].image > 0 =>
    \E i \in w[j].image..Len(g) : g[i][2] = w[j].id /\ i <= w[j].image + EncoderLag + c

LastId == IF encoded = 0 THEN 0 ELSE got[encoded][2]

Encoding ==
  /\ refused \subseteq 1..encoded
  /\ Ordered(written, encoded, LastId)
  /\ Ahead(written, got, Cardinality(refused))

\* what the codec holds: images in order, behind all that was written, as many as there are
\* behind it or fewer; what is neither written nor refused is held
Behind(h, w, e, c) ==
  /\ Rising(h, 1, e)
  /\ \A j \in 1..Len(h), k \in 1..Len(w) : w[k].image < h[j]
  /\ \A j \in 1..Len(h) : e <= h[j] + (Len(h) - j) + c

Covered(h, w, e, r) ==
  \A i \in 1..e : \/ \E j \in 1..Len(w) : w[j].image = i
                  \/ i \in r
                  \/ \E j \in 1..Len(h) : h[j] = i

Running == encoderTold \notin {"error", "crashed"}

Outcomes == {"", "complete", "error", "crashed"}

Holding ==
  Running =>
    /\ Len(held) <= EncoderLag
    /\ encoded = 0 <=> written = <<>>
    /\ Behind(held, written, encoded, Cardinality(refused))
    /\ Covered(held, written, encoded, refused)

EncoderInv == TranscoderTypeOK /\ Encoding /\ Holding

\* The images that were refused can be counted.
LEMMA RefusedCounted ==
  ASSUME NEW e \in Nat, NEW r \in SUBSET (1..e)
  PROVE  /\ IsFiniteSet(r) /\ Cardinality(r) \in Nat
         /\ Cardinality(r \cup {e + 1}) = Cardinality(r) + 1
<1>1. IsFiniteSet(1..e)
  BY FS_Interval
<1>2. IsFiniteSet(r)
  BY <1>1, FS_Subset
<1>3. Cardinality(r) \in Nat
  BY <1>2, FS_CardinalityType
<1>4. e + 1 \notin r
  OBVIOUS
<1> QED  BY <1>2, <1>3, <1>4, FS_AddElement

\* What the codec holds, and what it refused, when one more image was sent.
Sent(q, s, h, w, e, r, takes) ==
  /\ q \in Seq(Nat) /\ Len(q) <= Len(h) + 1
  /\ s \in SUBSET (1..e + 1) /\ Cardinality(r) <= Cardinality(s)
  /\ Behind(q, w, e + 1, Cardinality(s)) /\ Covered(q, w, e + 1, s)

\* An image joins those the codec holds, or is refused: what is behind stays in order.
LEMMA Queued ==
  ASSUME NEW h \in Seq(Nat), NEW w \in Seq(Packet), NEW e \in Nat, NEW r \in SUBSET (1..e),
         Behind(h, w, e, Cardinality(r)), Covered(h, w, e, r),
         \A j \in 1..Len(w) : w[j].image <= e,
         NEW takes \in BOOLEAN,
         NEW q, q = IF takes THEN Append(h, e + 1) ELSE h,
         NEW s, s = IF takes THEN r ELSE r \cup {e + 1}
  PROVE  Sent(q, s, h, w, e, r, takes)
<1> DEFINE c == Cardinality(r)
<1>1. c \in Nat /\ Cardinality(r \cup {e + 1}) = c + 1
  BY RefusedCounted
<1>2. PICK n \in Nat : n = Len(h)
  BY LenProperties
<1>3. \A j \in 1..n : h[j] \in Nat
  BY <1>2, ElementOfSeq
<1>a. PICK m \in Nat : m = Len(w)
  BY LenProperties
<1>b. \A j \in 1..m : w[j].image \in Nat /\ w[j].image <= e
  <2>1. \A j \in 1..m : w[j] \in Packet
    BY <1>a, ElementOfSeq
  <2> QED  BY <1>a, <2>1 DEF Packet
<1>4. /\ Rising(h, 1, e)
      /\ \A j \in 1..n, k \in 1..m : w[k].image < h[j]
      /\ \A j \in 1..n : e <= h[j] + (n - j) + c
  BY <1>2, <1>a DEF Behind
<1> HIDE DEF c
<1>5. CASE takes
  <2>1. q = Append(h, e + 1) /\ s = r
    BY <1>5
  <2>2. /\ q \in Seq(Nat) /\ Len(q) = n + 1 /\ q[n + 1] = e + 1
        /\ \A k \in 1..n : q[k] = h[k]
    BY <1>2, <2>1, Appended
  <2>3. Rising(q, 1, e + 1)
    BY <1>4, <2>1, RisingAppended
  <2>4. ASSUME NEW j \in 1..n + 1
        PROVE  /\ \A k \in 1..m : w[k].image < q[j]
               /\ e + 1 <= q[j] + ((n + 1) - j) + c
    <3>1. CASE j = n + 1
      <4>1. q[j] = e + 1 /\ (n + 1) - j = 0
        BY <2>2, <3>1
      <4>2. \A k \in 1..m : w[k].image < e + 1
        BY <1>b
      <4>3. e + 1 <= (e + 1) + 0 + c
        BY <1>1
      <4> QED  BY <4>1, <4>2, <4>3, Zenon
    <3>2. CASE j \in 1..n
      <4>1. q[j] = h[j] /\ h[j] \in Nat /\ e <= h[j] + (n - j) + c
        BY <1>3, <1>4, <2>2, <3>2
      <4>2. \A k \in 1..m : w[k].image < q[j]
        BY <1>4, <3>2, <4>1
      <4>3. e + 1 <= h[j] + ((n + 1) - j) + c
        <5>1. \A x \in Nat : e <= x + (n - j) + c => e + 1 <= x + ((n + 1) - j) + c
          BY <1>1, <3>2
        <5> QED  BY <4>1, <5>1, Zenon
      <4> QED  BY <4>1, <4>2, <4>3, Zenon
    <3>3. j = n + 1 \/ j \in 1..n
      OBVIOUS
    <3> QED  BY <3>1, <3>2, <3>3, Zenon
  <2>5. ASSUME NEW i \in 1..e + 1
        PROVE  \/ \E j \in 1..Len(w) : w[j].image = i
               \/ i \in r
               \/ \E j \in 1..n + 1 : q[j] = i
    <3>1. CASE i = e + 1
      BY <2>2, <3>1
    <3>2. CASE i \in 1..e
      BY <1>2, <2>2, <3>2 DEF Covered
    <3>3. i = e + 1 \/ i \in 1..e
      OBVIOUS
    <3> QED  BY <3>1, <3>2, <3>3, Zenon
  <2>6. Behind(q, w, e + 1, c)
    <3>1. Len(q) = n + 1 /\ Len(w) = m
      BY <1>a, <2>2
    <3>2. \A j \in 1..Len(q), k \in 1..Len(w) : w[k].image < q[j]
      BY <2>4, <3>1, Zenon
    <3>3. \A j \in 1..Len(q) : e + 1 <= q[j] + (Len(q) - j) + c
      BY <2>4, <3>1, Zenon
    <3> QED  BY <2>3, <3>2, <3>3, Zenon DEF Behind
  <2>7. Covered(q, w, e + 1, s)
    BY <2>1, <2>2, <2>5 DEF Covered
  <2> QED  BY <1>1, <1>2, <2>1, <2>2, <2>6, <2>7 DEF c, Sent
<1>6. CASE ~takes
  <2>1. q = h /\ s = r \cup {e + 1}
    BY <1>6
  <2>2. Rising(q, 1, e + 1)
    BY <1>4, <2>1, RisingWider
  <2>3. ASSUME NEW j \in 1..n PROVE e + 1 <= h[j] + (n - j) + (c + 1)
    <3>1. \A x \in Nat : e <= x + (n - j) + c => e + 1 <= x + (n - j) + (c + 1)
      BY <1>1
    <3> QED  BY <1>3, <1>4, <3>1, Zenon
  <2>4. Behind(q, w, e + 1, c + 1)
    BY <1>2, <1>4, <1>a, <2>1, <2>2, <2>3 DEF Behind
  <2>5. Covered(q, w, e + 1, s)
    BY <2>1 DEF Covered
  <2>6. q \in Seq(Nat) /\ Len(q) <= Len(h) + 1
    BY <1>2, <2>1
  <2>7. s \in SUBSET (1..e + 1) /\ Cardinality(s) = c + 1 /\ Cardinality(r) = c
    BY <1>1, <2>1 DEF c
  <2>8. Cardinality(r) <= Cardinality(s)
    BY <1>1, <2>7
  <2>9. Behind(q, w, e + 1, Cardinality(s))
    BY <2>4, <2>7, Zenon
  <2> QED  BY <2>5, <2>6, <2>7, <2>8, <2>9, Zenon DEF Sent
<1> QED  BY <1>5, <1>6

\* The packets of the first k images in q, all with one id, behind those in w.
Output(w, q, k, id) == w \o [j \in 1..k |-> [image |-> SubSeq(q, 1, k)[j], id |-> id]]

\* v goes on behind the m packets of w with one for each of the first k images in q.
Continues(v, w, m, q, k, id) ==
  /\ v \in Seq(Packet) /\ Len(v) = m + k
  /\ \A j \in 1..m : v[j] = w[j]
  /\ \A j \in m + 1..m + k : j - m \in 1..k /\ v[j].image = q[j - m] /\ v[j].id = id

\* What Output joins: the packets written before, and one for each image given.
LEMMA OutputIs ==
  ASSUME NEW w \in Seq(Packet), NEW q \in Seq(Nat), NEW k \in 0..Len(q), NEW id \in Nat,
         NEW m \in Nat, m = Len(w), NEW v, v = Output(w, q, k, id)
  PROVE  Continues(v, w, m, q, k, id)
<1> DEFINE new == [j \in 1..k |-> [image |-> SubSeq(q, 1, k)[j], id |-> id]]
<1>1. k \in Nat /\ Len(q) \in Nat
  BY LenProperties
<1>2. \A j \in 1..k : SubSeq(q, 1, k)[j] = q[j] /\ q[j] \in Nat
  BY <1>1, ElementOfSeq
<1>3. \A j \in 1..k : [image |-> SubSeq(q, 1, k)[j], id |-> id] \in Packet
  BY <1>2 DEF Packet
<1>4. new \in Seq(Packet) /\ Len(new) = k
  BY <1>1, <1>3
<1>5. \A j \in 1..k : new[j].image = q[j] /\ new[j].id = id
  BY <1>2
<1> HIDE DEF new
<1>6. v = w \o new
  BY DEF Output, new
<1>7. /\ v \in Seq(Packet) /\ Len(v) = m + k
      /\ \A j \in 1..m + k : v[j] = IF j <= m THEN w[j] ELSE new[j - m]
  <2>1. /\ w \o new \in Seq(Packet) /\ Len(w \o new) = m + k
        /\ \A j \in 1..m + k : (w \o new)[j] = IF j <= m THEN w[j] ELSE new[j - m]
    <3>1. k \in Nat /\ k = Len(new) /\ new \in Seq(Packet)
      BY <1>1, <1>4
    <3> QED  BY <3>1, ConcatProperties
  <2> QED  BY <1>6, <2>1
<1>8. \A j \in 1..m : v[j] = w[j]
  BY <1>1, <1>7
<1>9. ASSUME NEW j \in m + 1..m + k
      PROVE  j - m \in 1..k /\ v[j].image = q[j - m] /\ v[j].id = id
  <2>1. j \in 1..m + k /\ ~(j <= m) /\ j - m \in 1..k
    BY <1>1
  <2>2. v[j] = new[j - m]
    BY <1>7, <2>1
  <2> QED  BY <1>5, <2>1, <2>2
<1> QED  BY <1>7, <1>8, <1>9 DEF Continues

\* They are in order, as those ahead of them, ...
LEMMA OutputOrdered ==
  ASSUME NEW w \in Seq(Packet), NEW q \in Seq(Nat), NEW k \in 0..Len(q), NEW id \in Nat,
         NEW e \in Nat, NEW c, w # <<>>, Ordered(w, e, id), Behind(q, w, e, c)
  PROVE  Ordered(Output(w, q, k, id), e, id)
<1>1. PICK m \in Nat : m = Len(w) /\ m > 0
  BY EmptySeq
<1>2. PICK v : v = Output(w, q, k, id)
  OBVIOUS
<1>3. /\ v \in Seq(Packet) /\ Len(v) = m + k /\ \A j \in 1..m : v[j] = w[j]
      /\ \A j \in m + 1..m + k : j - m \in 1..k /\ v[j].image = q[j - m] /\ v[j].id = id
  <2>1. m \in Nat /\ m = Len(w)
    BY <1>1
  <2>2. Continues(v, w, m, q, k, id)
    BY <1>2, <2>1, OutputIs
  <2> QED  BY <2>2 DEF Continues
<1>4. k \in Nat /\ \A j \in 1..k : j \in 1..Len(q) /\ q[j] \in Nat
  BY LenProperties, ElementOfSeq
<1>5. /\ \A j \in 1..k : q[j] <= e
      /\ \A i, j \in 1..k : i < j => q[i] < q[j]
      /\ \A i \in 1..m, j \in 1..k : w[i].image < q[j]
  BY <1>1, <1>4 DEF Behind, Rising
<1>6. /\ w[1].image = 0
      /\ \A j \in 1..m : w[j].image <= e /\ w[j].id <= id
      /\ \A i, j \in 1..m : i < j => w[i].image < w[j].image /\ w[i].id <= w[j].id
  BY <1>1 DEF Ordered
<1>7. ASSUME NEW j \in 1..m + k, j \notin 1..m
      PROVE  j - m \in 1..k /\ v[j].image = q[j - m] /\ v[j].id = id
  <2>1. j \in m + 1..m + k
    BY <1>1, <1>4, <1>7
  <2> QED  BY <1>3, <2>1
<1>8. ASSUME NEW j \in 1..m + k PROVE v[j].image <= e /\ v[j].id <= id
  <2>1. CASE j \in 1..m
    BY <1>3, <1>6, <2>1
  <2>2. CASE j \notin 1..m
    <3>1. j - m \in 1..k /\ v[j].image = q[j - m] /\ v[j].id = id
      BY <1>7, <2>2
    <3>2. q[j - m] <= e /\ id <= id
      BY <1>5, <3>1
    <3> QED  BY <3>1, <3>2, Zenon
  <2> QED  BY <2>1, <2>2, Zenon
<1>9. ASSUME NEW i \in 1..m + k, NEW j \in 1..m + k, i < j
      PROVE  v[i].image < v[j].image /\ v[i].id <= v[j].id
  <2>1. CASE j \in 1..m
    <3>1. i \in 1..m
      BY <1>9, <2>1
    <3> QED  BY <1>3, <1>6, <1>9, <2>1, <3>1
  <2>2. CASE j \notin 1..m /\ i \in 1..m
    BY <1>3, <1>5, <1>6, <1>7, <2>2
  <2>3. CASE j \notin 1..m /\ i \notin 1..m
    <3>1. i - m < j - m
      BY <1>4, <1>9
    <3>2. j - m \in 1..k /\ v[j].image = q[j - m] /\ v[j].id = id
      BY <1>7, <2>3
    <3>3. i - m \in 1..k /\ v[i].image = q[i - m] /\ v[i].id = id
      BY <1>7, <2>3
    <3>4. q[i - m] < q[j - m]
      BY <1>5, <3>1, <3>2, <3>3
    <3> QED  BY <3>2, <3>3, <3>4
  <2> QED  BY <2>1, <2>2, <2>3
<1>10. v[1].image = 0
  BY <1>1, <1>3, <1>6
<1> QED  BY <1>2, <1>3, <1>8, <1>9, <1>10 DEF Ordered

\* ... and have the id of an image that was sent in time.
LEMMA OutputAhead ==
  ASSUME NEW w \in Seq(Packet), NEW q \in Seq(Nat), NEW k \in 0..Len(q), NEW c \in Nat,
         NEW g \in Seq(Nat \X Nat), NEW e \in 1..Len(g), NEW id \in Nat, id = g[e][2],
         Ahead(w, g, c), Behind(q, w, e, c), Len(q) <= EncoderLag + 1
  PROVE  Ahead(Output(w, q, k, id), g, c)
<1>0. EncoderLag \in Nat
  BY TranscoderAssumption
<1>1. PICK m : m = Len(w)
  OBVIOUS
<1>2. PICK v : v = Output(w, q, k, id)
  OBVIOUS
<1>3. m \in Nat /\ Len(q) \in Nat /\ Len(g) \in Nat /\ k \in Nat
  BY <1>1, LenProperties
<1>4. Continues(v, w, m, q, k, id)
  BY <1>1, <1>2, <1>3, OutputIs
<1>5. ASSUME NEW j \in 1..m + k, v[j].image > 0
      PROVE  \E i \in v[j].image..Len(g) : g[i][2] = v[j].id /\ i <= v[j].image + EncoderLag + c
  <2>1. CASE j \in 1..m
    <3>1. v[j] = w[j]
      BY <1>4, <2>1 DEF Continues
    <3> QED  BY <1>1, <1>5, <2>1, <3>1 DEF Ahead
  <2>2. CASE j \in m + 1..m + k
    <3>1. j - m \in 1..k /\ v[j].image = q[j - m] /\ v[j].id = id
      BY <1>4, <2>2 DEF Continues
    <3>2. PICK p : p = j - m
      OBVIOUS
    <3>3. p \in 1..Len(q) /\ q[p] \in Nat /\ p >= 1
      <4>1. p \in 1..k
        BY <3>1, <3>2
      <4>2. p \in 1..Len(q) /\ p >= 1
        BY <1>3, <4>1
      <4> QED  BY <4>2, ElementOfSeq
    <3>4. q[p] <= e /\ e <= q[p] + (Len(q) - p) + c
      BY <3>3 DEF Behind, Rising
    <3>5. e \in q[p]..Len(g) /\ e <= q[p] + EncoderLag + c
      <4>1. PICK x : x = q[p]
        OBVIOUS
      <4>2. x \in Nat /\ x <= e /\ e <= x + (Len(q) - p) + c
        BY <3>3, <3>4, <4>1
      <4>3. Len(q) - p <= EncoderLag /\ Len(q) - p \in Int /\ e \in Nat /\ e <= Len(g)
        <5>1. PICK y : y = Len(q)
          OBVIOUS
        <5>2. y \in Nat /\ y <= EncoderLag + 1 /\ p \in Nat /\ p >= 1
          BY <1>3, <3>3, <5>1
        <5>3. y - p <= EncoderLag /\ y - p \in Int
          BY <1>0, <5>2
        <5>4. e \in Nat /\ e <= Len(g)
          BY <1>3
        <5> QED  BY <5>1, <5>3, <5>4
      <4>4. e \in x..Len(g) /\ e <= x + EncoderLag + c
        BY <1>0, <1>3, <4>2, <4>3
      <4> QED  BY <4>1, <4>4
    <3>6. g[e][2] = v[j].id /\ v[j].image = q[p]
      BY <3>1, <3>2
    <3> QED  BY <3>5, <3>6
  <2>3. j \in 1..m \/ j \in m + 1..m + k
    BY <1>3
  <2> QED  BY <2>1, <2>2, <2>3, Zenon
<1>6. Len(v) = m + k
  BY <1>4 DEF Continues
<1> QED  BY <1>2, <1>5, <1>6 DEF Ahead

\* What the codec holds when packets of the first k images were received.
HeldBack(h, v, w, q, k, id, e, c, r) ==
  /\ h \in Seq(Nat) /\ Len(h) = Len(q) - k
  /\ Behind(h, v, e, c) /\ Covered(h, v, e, r)

\* The codec keeps the images behind those; nothing is lost between them.
LEMMA StillHeld ==
  ASSUME NEW w \in Seq(Packet), NEW q \in Seq(Nat), NEW k \in 0..Len(q), NEW id \in Nat,
         NEW e \in Nat, NEW c \in Nat, NEW r, Behind(q, w, e, c), Covered(q, w, e, r),
         NEW h, h = SubSeq(q, k + 1, Len(q)), NEW v, v = Output(w, q, k, id)
  PROVE  HeldBack(h, v, w, q, k, id, e, c, r)
<1>1. PICK m : m = Len(w)
  OBVIOUS
<1>2. PICK n : n = Len(q)
  OBVIOUS
<1>3. m \in Nat /\ n \in Nat /\ k \in Nat /\ k <= n
  BY <1>1, <1>2, LenProperties
<1>4. Continues(v, w, m, q, k, id)
  BY <1>1, <1>3, OutputIs
<1>5. /\ h \in Seq(Nat) /\ Len(h) = n - k
      /\ \A j \in 1..n - k : h[j] = q[k + j] /\ k + j \in 1..n
  <2>1. k \in 0..n
    BY <1>2
  <2>2. /\ SubSeq(q, k + 1, n) \in Seq(Nat) /\ Len(SubSeq(q, k + 1, n)) = n - k
        /\ \A j \in 1..n - k : SubSeq(q, k + 1, n)[j] = q[k + j] /\ k + j \in 1..n
    BY <1>2, <1>3, <2>1, Dropped
  <2> QED  BY <1>2, <2>2, Zenon
<1>6. Rising(h, 1, e)
  <2>1. Rising(q, 1, e) /\ e \in Int /\ 1 \in Nat
    BY DEF Behind
  <2> QED  BY <1>2, <1>3, <2>1, RisingDropped
<1>7. /\ \A i, j \in 1..n : i < j => q[i] < q[j]
      /\ \A j \in 1..n, i \in 1..m : w[i].image < q[j]
      /\ \A j \in 1..n : e <= q[j] + (n - j) + c /\ q[j] \in Nat
  BY <1>1, <1>2, ElementOfSeq DEF Behind, Rising
<1>8. ASSUME NEW j \in 1..n - k
      PROVE  /\ \A i \in 1..m + k : v[i].image < h[j]
             /\ e <= h[j] + (n - k - j) + c
  <2>1. h[j] = q[k + j] /\ k + j \in 1..n
    BY <1>5
  <2>2. ASSUME NEW i \in 1..m + k PROVE v[i].image < h[j]
    <3>1. CASE i \in 1..m
      <4>1. v[i] = w[i]
        BY <1>4, <3>1 DEF Continues
      <4> QED  BY <1>7, <2>1, <3>1, <4>1
    <3>2. CASE i \in m + 1..m + k
      <4>1. i - m \in 1..k /\ v[i].image = q[i - m]
        BY <1>4, <3>2 DEF Continues
      <4>2. i - m \in 1..n /\ i - m < k + j
        BY <1>3, <4>1
      <4> QED  BY <1>7, <2>1, <4>1, <4>2
    <3>3. i \in 1..m \/ i \in m + 1..m + k
      BY <1>3
    <3> QED  BY <3>1, <3>2, <3>3
  <2>3. e <= q[k + j] + (n - (k + j)) + c
    BY <1>7, <2>1
  <2>4. n - (k + j) = n - k - j
    BY <1>3
  <2> QED  BY <2>1, <2>2, <2>3, <2>4
<1>9. ASSUME NEW i \in 1..e
      PROVE  \/ \E j \in 1..m + k : v[j].image = i
             \/ i \in r
             \/ \E j \in 1..n - k : h[j] = i
  <2>1. CASE \E j \in 1..m : w[j].image = i
    <3>1. PICK j \in 1..m : w[j].image = i
      BY <2>1
    <3>2. v[j] = w[j] /\ j \in 1..m + k
      BY <1>3, <1>4, <3>1 DEF Continues
    <3> QED  BY <3>1, <3>2
  <2>2. CASE \E j \in 1..n : q[j] = i
    <3>1. PICK j \in 1..n : q[j] = i
      BY <2>2
    <3>2. CASE j <= k
      <4>1. m + j \in m + 1..m + k /\ m + j \in 1..m + k /\ (m + j) - m = j
        BY <1>3, <3>1, <3>2
      <4>2. v[m + j].image = q[j]
        BY <1>4, <4>1 DEF Continues
      <4> QED  BY <3>1, <4>1, <4>2
    <3>3. CASE j > k
      <4>1. j - k \in 1..n - k /\ k + (j - k) = j
        BY <1>3, <3>1, <3>3
      <4>2. h[j - k] = i
        BY <1>5, <3>1, <4>1
      <4> QED  BY <4>1, <4>2
    <3>4. j <= k \/ j > k
      BY <1>3, <3>1
    <3> QED  BY <3>2, <3>3, <3>4
  <2>3. (\E j \in 1..m : w[j].image = i) \/ i \in r \/ \E j \in 1..n : q[j] = i
    BY <1>1, <1>2 DEF Covered
  <2> QED  BY <2>1, <2>2, <2>3
<1>10. Len(v) = m + k
  BY <1>4 DEF Continues
<1>11. Behind(h, v, e, c)
  BY <1>5, <1>6, <1>8, <1>10 DEF Behind
<1>12. Covered(h, v, e, r)
  BY <1>5, <1>9, <1>10 DEF Covered
<1> QED  BY <1>2, <1>5, <1>11, <1>12 DEF HeldBack

\* Bounds may be wider, and what the sink got may grow.
LEMMA OrderedWider ==
  ASSUME NEW w \in Seq(Packet), NEW a \in Nat, NEW b \in Nat, NEW id \in Nat, NEW di \in Nat,
         Ordered(w, a, id), a <= b, id <= di
  PROVE  Ordered(w, b, di)
<1>1. \A j \in 1..Len(w) : w[j] \in Packet
  BY ElementOfSeq
<1>2. \A j \in 1..Len(w) : w[j].image \in Nat /\ w[j].id \in Nat
  BY <1>1 DEF Packet
<1> QED  BY <1>2 DEF Ordered

\* What the sink got may grow, and so may the number of refused images.
LEMMA AheadWider ==
  ASSUME NEW w \in Seq(Packet), NEW g, NEW h, NEW c \in Nat, NEW d \in Nat, c <= d,
         Len(g) \in Nat, Len(h) \in Nat, Len(g) <= Len(h), \A i \in 1..Len(g) : h[i] = g[i],
         Ahead(w, g, c)
  PROVE  Ahead(w, h, d)
<1>0. EncoderLag \in Nat
  BY TranscoderAssumption
<1>1. \A j \in 1..Len(w) : w[j] \in Packet
  BY ElementOfSeq
<1>2. \A j \in 1..Len(w) : w[j].image \in Nat
  BY <1>1 DEF Packet
<1>3. ASSUME NEW j \in 1..Len(w), w[j].image > 0
      PROVE  \E i \in w[j].image..Len(h) : h[i][2] = w[j].id /\ i <= w[j].image + EncoderLag + d
  <2>1. PICK i \in w[j].image..Len(g) : g[i][2] = w[j].id /\ i <= w[j].image + EncoderLag + c
    BY <1>3 DEF Ahead
  <2>2. i \in 1..Len(g) /\ i \in w[j].image..Len(h) /\ i <= w[j].image + EncoderLag + d
    BY <1>0, <1>2, <1>3, <2>1
  <2> QED  BY <2>1, <2>2
<1> QED  BY <1>3 DEF Ahead

-----------------------------------------------------------------------------
(* The encoder: its steps.                                                 *)

\* What was written, where no type names the state.
LEMMA EncoderTypes ==
  ASSUME DecodeTypeOK, Given, EncoderInv
  PROVE  /\ encoded \in Nat /\ encoded <= Len(got) /\ Len(got) \in Nat /\ got \in Seq(Nat \X Nat)
         /\ held \in Seq(Nat) /\ written \in Seq(Packet) /\ Len(held) \in Nat
         /\ refused \in SUBSET (1..encoded) /\ Cardinality(refused) \in Nat
         /\ \A i \in 1..Len(got) : got[i][2] \in Nat /\ got[i][2] <= Len(Packets)
         /\ Len(Packets) \in Nat /\ LastId \in Nat
<1>0. TranscoderTypeOK /\ Encoding
  BY DEF EncoderInv
<1>1. /\ Len(got) \in Nat /\ got \in Seq(Nat \X Nat) /\ Len(Packets) \in Nat /\ source.next \in 1..Len(Packets) + 1
  BY DecodeTypes
<1>2. encoded \in Nat /\ encoded <= Len(got)
  <2>1. encoded \in 0..Len(got)
    BY <1>0, Zenon DEF TranscoderTypeOK
  <2> QED  BY <1>1, <2>1
<1>3. held \in Seq(Nat)
  <2>1. held \in Seq(1..Len(got))
    BY <1>0, Zenon DEF TranscoderTypeOK
  <2>2. 1..Len(got) \subseteq Nat
    BY <1>1
  <2> QED  BY <2>1, <2>2, SeqMonotonic
<1>4. written \in Seq(Packet)
  <2>1. written \in Seq([image : 0..Len(got), id : 0..Len(Packets)])
    BY <1>0 DEF TranscoderTypeOK
  <2>2. [image : 0..Len(got), id : 0..Len(Packets)] \subseteq Packet
    BY <1>1 DEF Packet
  <2> QED  BY <2>1, <2>2, SeqMonotonic
<1>5. refused \in SUBSET (1..encoded) /\ Cardinality(refused) \in Nat
  <2>1. refused \in SUBSET (1..encoded)
    BY <1>0 DEF Encoding
  <2> QED  BY <1>2, <2>1, RefusedCounted
<1>6. ASSUME NEW i \in 1..Len(got) PROVE got[i][2] \in Nat /\ got[i][2] <= Len(Packets)
  <2>1. got[i] \in Nat \X Nat
    BY <1>1, ElementOfSeq
  <2>2. got[i][2] \in Nat
    BY <2>1
  <2>3. got[i][2] < source.next
    BY DEF Given
  <2> QED  BY <1>1, <2>2, <2>3
<1>7. LastId \in Nat
  <2>1. encoded # 0 => encoded \in 1..Len(got)
    BY <1>1, <1>2
  <2> QED  BY <1>6, <2>1 DEF LastId
<1>8. Len(held) \in Nat
  BY <1>3, LenProperties
<1> QED  BY <1>1, <1>2, <1>3, <1>4, <1>5, <1>6, <1>7, <1>8

\* init() writes the metadata ahead of the first packets.
LEMMA Begun ==
  ASSUME DecodeTypeOK, Given, EncoderInv, Running, NEW w, w = written \o Metadata
  PROVE  /\ w \in Seq(Packet) /\ w # <<>>
         /\ Ordered(w, encoded, LastId) /\ Ahead(w, got, Cardinality(refused))
         /\ Behind(held, w, encoded, Cardinality(refused)) /\ Covered(held, w, encoded, refused)
<1>0. /\ encoded \in Nat /\ held \in Seq(Nat) /\ written \in Seq(Packet) /\ LastId \in Nat
  BY EncoderTypes
<1>1. /\ Ordered(written, encoded, LastId) /\ Ahead(written, got, Cardinality(refused))
      /\ encoded = 0 <=> written = <<>>
      /\ Behind(held, written, encoded, Cardinality(refused))
      /\ Covered(held, written, encoded, refused)
  BY DEF EncoderInv, Encoding, Holding
<1>2. CASE encoded # 0
  <2>1. w = written
    BY <1>0, <1>2, ConcatEmptySeq DEF Metadata
  <2> QED  BY <1>0, <1>1, <1>2, <2>1
<1>3. CASE encoded = 0
  <2>1. PICK p : p = [image |-> 0, id |-> 0]
    OBVIOUS
  <2>2. p \in Packet /\ p.image = 0 /\ p.id = 0
    BY <2>1 DEF Packet
  <2>3. w = <<p>>
    <3>1. Metadata = <<p>> /\ written = <<>>
      BY <1>1, <1>3, <2>1 DEF Metadata
    <3>2. <<p>> \in Seq(Packet)
      BY <2>2
    <3> QED  BY <3>1, <3>2, ConcatEmptySeq
  <2>4. w \in Seq(Packet) /\ w # <<>> /\ Len(w) = 1 /\ w[1] = p
    BY <2>2, <2>3
  <2>5. \A j \in 1..Len(w) : j = 1 /\ w[j].image = 0 /\ w[j].id = 0
    BY <2>2, <2>4
  <2>6. Ordered(w, encoded, LastId)
    <3>1. w[1].image = 0
      BY <2>2, <2>4
    <3>2. \A j \in 1..Len(w) : w[j].image <= encoded /\ w[j].id <= LastId
      BY <1>0, <1>3, <2>5
    <3>3. \A j, k \in 1..Len(w) : ~(j < k)
      BY <2>4
    <3> QED  BY <3>1, <3>2, <3>3 DEF Ordered
  <2>7. Ahead(w, got, Cardinality(refused))
    BY <2>5 DEF Ahead
  <2>8. \A j \in 1..Len(held) : FALSE
    <3>1. \A j \in 1..Len(held) : 1 <= held[j] /\ held[j] <= encoded /\ held[j] \in Nat
      BY <1>0, <1>1, ElementOfSeq DEF Behind, Rising
    <3> QED  BY <1>3, <3>1
  <2>9. Behind(held, w, encoded, Cardinality(refused))
    BY <2>8 DEF Behind, Rising
  <2>10. Covered(held, w, encoded, refused)
    BY <1>3 DEF Covered
  <2> QED  BY <2>4, <2>6, <2>7, <2>9, <2>10
<1> QED  BY <1>2, <1>3

\* Within bounds, packets and images have the types they ought to.
LEMMA WrittenTyped ==
  ASSUME NEW v \in Seq(Packet), NEW e \in Nat, NEW id \in Nat, Ordered(v, e, id),
         NEW a \in Nat, e <= a, NEW b \in Nat, id <= b
  PROVE  v \in Seq([image : 0..a, id : 0..b])
<1>1. \A j \in 1..Len(v) : v[j] \in [image : 0..a, id : 0..b]
  <2>1. ASSUME NEW j \in 1..Len(v) PROVE v[j] \in [image : 0..a, id : 0..b]
    <3>1. v[j] \in [image : Nat, id : Nat]
      BY ElementOfSeq DEF Packet
    <3>2. v[j].image <= e /\ v[j].id <= id
      BY DEF Ordered
    <3>3. v[j].image \in 0..a /\ v[j].id \in 0..b
      BY <3>1, <3>2
    <3> QED  BY <3>1, <3>3
  <2> QED  BY <2>1
<1> QED  BY <1>1, TypedElements

\* Images held between the first and the last are positions in what the sink got.
LEMMA HeldTyped ==
  ASSUME NEW h \in Seq(Nat), NEW e \in Nat, Rising(h, 1, e), NEW a \in Nat, e <= a
  PROVE  h \in Seq(1..a)
<1>1. \A j \in 1..Len(h) : h[j] \in 1..a
  BY ElementOfSeq DEF Rising
<1> QED  BY <1>1, TypedElements

\* The image that is sent next: its id is beyond those of the images before.
LEMMA NextId ==
  ASSUME DecodeTypeOK, Given, EncoderInv, encoded < Len(got), NEW e, e = encoded + 1
  PROVE  /\ e \in Nat /\ e \in 1..Len(got) /\ encoded <= e /\ e # 0
         /\ Stamp \in Nat /\ Stamp = got[e][2] /\ Stamp <= Len(Packets) /\ LastId <= Stamp
<1>1. /\ encoded \in Nat /\ Len(got) \in Nat
      /\ \A i \in 1..Len(got) : got[i][2] \in Nat /\ got[i][2] <= Len(Packets)
  BY EncoderTypes
<1>2. e \in Nat /\ e \in 1..Len(got) /\ encoded <= e /\ e # 0
  BY <1>1
<1>3. Stamp \in Nat /\ Stamp = got[e][2] /\ Stamp <= Len(Packets)
  BY <1>1, <1>2 DEF Stamp
<1>4. LastId <= Stamp
  <2>1. CASE encoded = 0
    BY <1>3, <2>1 DEF LastId
  <2>2. CASE encoded # 0
    <3>1. encoded \in 1..Len(got) /\ encoded < e
      BY <1>1, <1>2, <2>2
    <3>2. got[encoded][2] < got[e][2]
      BY <1>2, <3>1 DEF Given
    <3> QED  BY <1>1, <1>2, <1>3, <2>2, <3>1, <3>2 DEF LastId
  <2> QED  BY <2>1, <2>2
<1> QED  BY <1>2, <1>3, <1>4

\* One image sent and k packets received: all is as it should be.
LEMMA EncodeStep ==
  ASSUME DecodeTypeOK, Given, EncoderInv, Running, encoded < Len(got), encoded' = encoded + 1,
         UNCHANGED decodeVars, NEW takes \in BOOLEAN, NEW k \in 0..EncoderLag + 1, Encode(takes, k)
  PROVE  EncoderInv'
<1>0. EncoderLag \in Nat
  BY TranscoderAssumption
<1>1. /\ encoded \in Nat /\ Len(got) \in Nat /\ got \in Seq(Nat \X Nat)
      /\ held \in Seq(Nat) /\ written \in Seq(Packet) /\ Len(held) \in Nat
      /\ refused \in SUBSET (1..encoded) /\ Cardinality(refused) \in Nat
      /\ Len(Packets) \in Nat /\ LastId \in Nat
  BY EncoderTypes
<1>2. PICK e : e = encoded + 1
  OBVIOUS
<1>3. /\ e \in Nat /\ e \in 1..Len(got) /\ encoded <= e /\ e # 0 /\ e <= Len(got)
      /\ Stamp \in Nat /\ Stamp = got[e][2] /\ Stamp <= Len(Packets) /\ LastId <= Stamp
  <2>1. e \in 1..Len(got) => e <= Len(got)
    BY <1>1
  <2> QED  BY <1>2, <2>1, NextId
<1>4. PICK w : w = written \o Metadata
  OBVIOUS
<1>5. /\ w \in Seq(Packet) /\ w # <<>>
      /\ Ordered(w, encoded, LastId) /\ Ahead(w, got, Cardinality(refused))
      /\ Behind(held, w, encoded, Cardinality(refused)) /\ Covered(held, w, encoded, refused)
  BY <1>4, Begun
<1>6. PICK q : q = IF takes THEN Append(held, encoded + 1) ELSE held
  OBVIOUS
<1>7. PICK s : s = IF takes THEN refused ELSE refused \cup {encoded + 1}
  OBVIOUS
<1>8. /\ q \in Seq(Nat) /\ Len(q) <= Len(held) + 1
      /\ s \in SUBSET (1..e) /\ Cardinality(refused) <= Cardinality(s)
      /\ Behind(q, w, e, Cardinality(s)) /\ Covered(q, w, e, s)
  <2>1. \A j \in 1..Len(w) : w[j].image <= encoded
    BY <1>5 DEF Ordered
  <2>2. Sent(q, s, held, w, encoded, refused, takes)
    BY <1>1, <1>5, <1>6, <1>7, <2>1, Queued
  <2> QED  BY <1>2, <2>2 DEF Sent
<1>9. /\ k <= Len(q) /\ Len(q) - k <= EncoderLag
      /\ held' = SubSeq(q, k + 1, Len(q))
      /\ written' = Output(w, q, k, Stamp)
      /\ refused' = s /\ encoderTold' = encoderTold
  BY <1>4, <1>6, <1>7 DEF Encode, Output
<1>10. k \in 0..Len(q) /\ k \in Nat /\ Len(q) \in Nat /\ Cardinality(s) \in Nat /\ IsFiniteSet(s)
  <2>1. Len(q) \in Nat /\ Cardinality(s) \in Nat /\ IsFiniteSet(s)
    BY <1>3, <1>8, LenProperties, RefusedCounted
  <2> QED  BY <1>0, <1>9, <2>1
<1>11. PICK c : c = Cardinality(s)
  OBVIOUS
<1>12. Ordered(w, e, Stamp)
  BY <1>1, <1>3, <1>5, OrderedWider
<1>13. Ordered(written', e, Stamp)
  BY <1>3, <1>5, <1>8, <1>9, <1>10, <1>12, OutputOrdered
<1>14. written' \in Seq(Packet)
  <2>1. Len(w) \in Nat
    BY <1>5, LenProperties
  <2>2. Continues(written', w, Len(w), q, k, Stamp)
    BY <1>3, <1>5, <1>8, <1>9, <1>10, <2>1, OutputIs
  <2> QED  BY <2>2 DEF Continues
<1>15. Ahead(written', got, c)
  <2>1. Ahead(w, got, c)
    <3>1. \A i \in 1..Len(got) : got[i] = got[i]
      OBVIOUS
    <3>2. Len(got) <= Len(got)
      BY <1>1
    <3> QED  BY <1>1, <1>5, <1>8, <1>10, <1>11, <3>1, <3>2, AheadWider
  <2>2. Len(q) <= EncoderLag + 1
    <3>1. Len(held) <= EncoderLag
      BY DEF EncoderInv, Holding
    <3> QED  BY <1>0, <1>1, <1>8, <1>10, <3>1
  <2> QED  BY <1>1, <1>3, <1>5, <1>8, <1>9, <1>10, <1>11, <2>1, <2>2, OutputAhead
<1>16. /\ held' \in Seq(Nat) /\ Len(held') = Len(q) - k
       /\ Behind(held', written', e, c) /\ Covered(held', written', e, s)
  <2>1. Behind(q, w, e, c) /\ Covered(q, w, e, s) /\ c \in Nat
    BY <1>8, <1>10, <1>11
  <2>2. HeldBack(held', written', w, q, k, Stamp, e, c, s)
    BY <1>3, <1>5, <1>8, <1>9, <1>10, <2>1, StillHeld
  <2> QED  BY <2>2 DEF HeldBack
<1>17. got' = got /\ Packets' = Packets
  BY DEF decodeVars, Packets
<1>18. LastId' = Stamp /\ encoded' = e
  BY <1>2, <1>3, <1>17 DEF LastId
<1>19. Encoding'
  BY <1>8, <1>9, <1>11, <1>13, <1>15, <1>17, <1>18 DEF Encoding
<1>20. Holding'
  <2>1. Len(held') <= EncoderLag
    BY <1>9, <1>16
  <2>2. written' # <<>>
    <3>1. written' = <<>> => FALSE
      <4>1. Len(w) \in Nat /\ Len(w) # 0
        BY <1>5, EmptySeq
      <4>2. Continues(written', w, Len(w), q, k, Stamp)
        BY <1>3, <1>5, <1>8, <1>9, <1>10, <4>1, OutputIs
      <4>3. Len(written') # 0
        BY <1>10, <4>1, <4>2 DEF Continues
      <4> QED  BY <4>3, EmptySeq
    <3> QED  BY <3>1
  <2> QED  BY <1>3, <1>9, <1>11, <1>16, <1>18, <2>1, <2>2 DEF Holding
<1>21. TranscoderTypeOK'
  <2>1. encoded' \in 0..Len(got')
    BY <1>1, <1>3, <1>17, <1>18
  <2>2. held' \in Seq(1..Len(got'))
    <3>1. Rising(held', 1, e)
      BY <1>16 DEF Behind
    <3> QED  BY <1>1, <1>3, <1>16, <1>17, <3>1, HeldTyped
  <2>3. refused' \subseteq 1..Len(got')
    BY <1>1, <1>3, <1>8, <1>9, <1>17
  <2>4. written' \in Seq([image : 0..Len(got'), id : 0..Len(Packets')])
    BY <1>1, <1>3, <1>13, <1>14, <1>17, WrittenTyped
  <2>5. encoderTold' \in {"", "complete", "error", "crashed"}
    BY <1>9, Zenon DEF EncoderInv, TranscoderTypeOK
  <2> QED  BY <2>1, <2>2, <2>3, <2>4, <2>5, Zenon DEF TranscoderTypeOK
<1> QED  BY <1>19, <1>20, <1>21 DEF EncoderInv

\* An encoder that failed has written the metadata at most, and counts one image more.
LEMMA FailStep ==
  ASSUME DecodeTypeOK, Given, EncoderInv, Running, encoded < Len(got), encoded' = encoded + 1,
         UNCHANGED decodeVars, ReceivePacketFails \/ OpenFails
  PROVE  EncoderInv'
<1>1. /\ encoded \in Nat /\ Len(got) \in Nat /\ got \in Seq(Nat \X Nat)
      /\ held \in Seq(Nat) /\ written \in Seq(Packet)
      /\ refused \in SUBSET (1..encoded) /\ Cardinality(refused) \in Nat
      /\ Len(Packets) \in Nat /\ LastId \in Nat
  BY EncoderTypes
<1>2. PICK e : e = encoded + 1
  OBVIOUS
<1>3. /\ e \in Nat /\ e \in 1..Len(got) /\ encoded <= e /\ e # 0 /\ e <= Len(got)
      /\ Stamp \in Nat /\ Stamp = got[e][2] /\ Stamp <= Len(Packets) /\ LastId <= Stamp
  <2>1. e \in 1..Len(got) => e <= Len(got)
    BY <1>1
  <2> QED  BY <1>2, <2>1, NextId
<1>4. /\ encoderTold' \in {"error", "crashed"} /\ held' = held /\ refused' = refused
      /\ written' = written \/ written' = written \o Metadata
  BY Zenon DEF ReceivePacketFails, OpenFails
<1>5. /\ written' \in Seq(Packet) /\ Ordered(written', encoded, LastId)
      /\ Ahead(written', got, Cardinality(refused))
  <2>1. CASE written' = written
    BY <1>1, <2>1 DEF EncoderInv, Encoding
  <2>2. CASE written' = written \o Metadata
    BY <2>2, Begun
  <2> QED  BY <1>4, <2>1, <2>2
<1>6. Ordered(written', e, Stamp)
  BY <1>1, <1>3, <1>5, OrderedWider
<1>7. got' = got /\ Packets' = Packets
  BY DEF decodeVars, Packets
<1>8. LastId' = Stamp /\ encoded' = e
  BY <1>2, <1>3, <1>7 DEF LastId
<1>9. Encoding'
  <2>1. refused' \subseteq 1..e
    BY <1>1, <1>3, <1>4
  <2> QED  BY <1>4, <1>5, <1>6, <1>7, <1>8, <2>1 DEF Encoding
<1>10. Holding'
  BY <1>4, Zenon DEF Holding, Running
<1>11. TranscoderTypeOK'
  <2>1. encoded' \in 0..Len(got')
    BY <1>1, <1>3, <1>7, <1>8
  <2>2. held' \in Seq(1..Len(got')) /\ refused' \subseteq 1..Len(got')
    BY <1>4, <1>7, Zenon DEF EncoderInv, TranscoderTypeOK
  <2>3. written' \in Seq([image : 0..Len(got'), id : 0..Len(Packets')])
    BY <1>1, <1>3, <1>5, <1>6, <1>7, WrittenTyped
  <2>4. encoderTold' \in {"", "complete", "error", "crashed"}
    BY <1>4, Zenon
  <2> QED  BY <2>1, <2>2, <2>3, <2>4, Zenon DEF TranscoderTypeOK
<1> QED  BY <1>9, <1>10, <1>11 DEF EncoderInv

\* While the decoder takes a step the encoder's state stays, and stays right.
LEMMA OthersStep ==
  ASSUME DecodeTypeOK, Sought, Given, EncoderInv, [DecodeNext]_decodeVars,
         UNCHANGED <<encoded, held, written, refused>>,
         encoderTold' \in Outcomes, Running' => Running
  PROVE  EncoderInv'
<1>1. /\ encoded \in Nat /\ encoded <= Len(got) /\ Len(got) \in Nat
      /\ written \in Seq(Packet) /\ Cardinality(refused) \in Nat
  BY EncoderTypes
<1>2. /\ Len(got') \in Nat /\ Len(got) <= Len(got')
      /\ \A i \in 1..Len(got) : got'[i] = got[i]
  BY GotGrows
<1>3. Packets' = Packets
  BY SameUse
<1>4. LastId' = LastId
  <2>1. encoded # 0 => encoded \in 1..Len(got)
    BY <1>1
  <2> QED  BY <1>2, <2>1 DEF LastId
<1>5. Encoding'
  <2>1. Ahead(written, got', Cardinality(refused))
    <3>1. Ahead(written, got, Cardinality(refused)) /\ Cardinality(refused) <= Cardinality(refused)
      BY <1>1 DEF EncoderInv, Encoding
    <3> QED  BY <1>1, <1>2, <3>1, AheadWider
  <2> QED  BY <1>4, <2>1 DEF EncoderInv, Encoding
<1>7. Holding'
  BY Zenon DEF EncoderInv, Holding
<1>8. TranscoderTypeOK'
  <2>0. /\ held \in Seq(1..Len(got)) /\ refused \subseteq 1..Len(got)
        /\ written \in Seq([image : 0..Len(got), id : 0..Len(Packets)])
    BY Zenon DEF EncoderInv, TranscoderTypeOK
  <2>1. encoded' \in 0..Len(got')
    BY <1>1, <1>2
  <2>2. 1..Len(got) \subseteq 1..Len(got')
    BY <1>1, <1>2
  <2>3. held' \in Seq(1..Len(got'))
    BY <2>0, <2>2, SeqMonotonic
  <2>4. [image : 0..Len(got), id : 0..Len(Packets)] \subseteq [image : 0..Len(got'), id : 0..Len(Packets)]
    BY <1>1, <1>2
  <2>5. written' \in Seq([image : 0..Len(got'), id : 0..Len(Packets')])
    BY <1>3, <2>0, <2>4, SeqMonotonic
  <2>6. refused' \subseteq 1..Len(got')
    BY <2>0, <2>2
  <2>7. encoderTold' \in {"", "complete", "error", "crashed"}
    BY Zenon DEF Outcomes
  <2> QED  BY <2>1, <2>3, <2>5, <2>6, <2>7, Zenon DEF TranscoderTypeOK
<1> QED  BY <1>5, <1>7, <1>8 DEF EncoderInv

\* Nothing was sent to the encoder yet.
LEMMA EncoderInitially ==
  TranscoderInit => DecodeInv /\ EncoderInv
<1> SUFFICES ASSUME TranscoderInit PROVE DecodeInv /\ EncoderInv
  OBVIOUS
<1>1. DecodeInv
  BY DecodeInitially DEF TranscoderInit
<1>2. encoded = 0 /\ held = <<>> /\ written = <<>> /\ refused = {} /\ got = <<>>
  BY Zenon DEF TranscoderInit, DecodeInit
<1>3. Len(<<>>) = 0 /\ \A S : <<>> \in Seq(S)
  BY EmptySeq
<1>4. TranscoderTypeOK
  <2>1. encoded \in 0..Len(got)
    BY <1>2, <1>3
  <2>2. held \in Seq(1..Len(got)) /\ written \in Seq([image : 0..Len(got), id : 0..Len(Packets)])
    BY <1>2, <1>3, Zenon
  <2>3. refused \subseteq 1..Len(got)
    BY <1>2
  <2>4. encoderTold \in {"", "complete", "error", "crashed"}
    BY Zenon DEF TranscoderInit
  <2> QED  BY <2>1, <2>2, <2>3, <2>4, Zenon DEF TranscoderTypeOK
<1>5. Encoding
  <2>1. \A j \in 1..Len(written) : FALSE
    BY <1>2, <1>3
  <2> QED  BY <1>2, <2>1 DEF Encoding, Ordered, Ahead
<1>6. Holding
  <2>1. \A j \in 1..Len(held) : FALSE
    BY <1>2, <1>3
  <2>2. \A i \in 1..encoded : FALSE
    BY <1>2
  <2>3. Len(held) <= EncoderLag
    BY <1>2, <1>3, TranscoderAssumption
  <2>4. Behind(held, written, encoded, Cardinality(refused)) /\ Covered(held, written, encoded, refused)
    BY <2>1, <2>2, Zenon DEF Behind, Covered, Rising
  <2> QED  BY <1>2, <2>3, <2>4 DEF Holding
<1> QED  BY <1>1, <1>4, <1>5, <1>6 DEF EncoderInv

\* Steps of the decoder, and of the worker's thread with the encoder.
LEMMA TranscoderStep ==
  DecodeInv /\ EncoderInv /\ [TranscoderNext]_<<decodeVars, encoderVars>> => DecodeInv' /\ EncoderInv'
<1> SUFFICES ASSUME DecodeInv, EncoderInv, [TranscoderNext]_<<decodeVars, encoderVars>>
             PROVE  DecodeInv' /\ EncoderInv'
  OBVIOUS
<1>1. [DecodeNext]_decodeVars
  BY DEF TranscoderNext
<1>2. DecodeInv'
  BY <1>1, DecodeStep
<1>3. DecodeTypeOK /\ Sought /\ Given /\ encoderTold \in Outcomes
  BY DEF DecodeInv, EncoderInv, TranscoderTypeOK, Outcomes
<1>4. CASE UNCHANGED encoderVars
  <2>1. UNCHANGED <<encoded, held, written, refused>> /\ encoderTold' = encoderTold
    BY <1>4 DEF encoderVars
  <2>2. encoderTold' \in Outcomes /\ (Running' => Running)
    BY <1>3, <2>1, Zenon DEF Running
  <2> QED  BY <1>1, <1>2, <1>3, <2>1, <2>2, OthersStep
<1>5. CASE OnImageFrame /\ UNCHANGED decodeVars
  <2>1. Running /\ encoded < Len(got) /\ encoded' = encoded + 1
    BY <1>5, Zenon DEF OnImageFrame, Running
  <2>2. CASE \E takes \in BOOLEAN, k \in 0..EncoderLag + 1 : Encode(takes, k)
    <3>1. PICK takes \in BOOLEAN, k \in 0..EncoderLag + 1 : Encode(takes, k)
      BY <2>2
    <3> QED  BY <1>2, <1>3, <1>5, <2>1, <3>1, EncodeStep
  <2>3. CASE ReceivePacketFails \/ OpenFails
    BY <1>2, <1>3, <1>5, <2>1, <2>3, FailStep
  <2> QED  BY <1>5, <2>2, <2>3, Zenon DEF OnImageFrame
<1>6. CASE OnEnd /\ UNCHANGED decodeVars
  <2>1. UNCHANGED <<encoded, held, written, refused>>
    BY <1>6 DEF OnEnd
  <2>2. encoderTold' \in Outcomes
    BY <1>6, Zenon DEF OnEnd, Outcomes
  <2>3. Running' => Running
    BY <1>6, Zenon DEF OnEnd, Running
  <2> QED  BY <1>1, <1>2, <1>3, <2>1, <2>2, <2>3, OthersStep
<1>7. \/ UNCHANGED encoderVars
      \/ OnImageFrame /\ UNCHANGED decodeVars
      \/ OnEnd /\ UNCHANGED decodeVars
  BY DEF TranscoderNext, Transcode
<1> QED  BY <1>2, <1>4, <1>5, <1>6, <1>7

\* An image that is lost though the encoder completed is still in the codec, among the
\* last: EncoderLag of them at most, and those behind it that were refused.
LEMMA LossIsLast ==
  DecodeTypeOK /\ Given /\ EncoderInv => LostAreTheLast
<1> SUFFICES ASSUME DecodeTypeOK, Given, EncoderInv, encoderTold = "complete",
                    NEW i \in 1..Len(got)
             PROVE  Written(i) \/ i \in refused \/ i > encoded - EncoderLag - Cardinality(refused)
  BY Zenon DEF LostAreTheLast
<1>1. /\ encoded \in Nat /\ Cardinality(refused) \in Nat /\ EncoderLag \in Nat
      /\ held \in Seq(Nat) /\ Len(held) \in Nat
  BY EncoderTypes, TranscoderAssumption
<1>2. /\ Len(held) <= EncoderLag
      /\ Behind(held, written, encoded, Cardinality(refused))
      /\ Covered(held, written, encoded, refused)
  <2>1. Running
    BY Zenon DEF Running
  <2> QED  BY <2>1, Zenon DEF EncoderInv, Holding
<1>3. CASE i \in 1..encoded
  <2>1. Written(i) \/ i \in refused \/ \E j \in 1..Len(held) : held[j] = i
    BY <1>2, <1>3, Zenon DEF Covered, Written
  <2>2. ASSUME NEW j \in 1..Len(held), held[j] = i
        PROVE  i > encoded - EncoderLag - Cardinality(refused)
    <3>1. encoded <= held[j] + (Len(held) - j) + Cardinality(refused)
      BY <1>2 DEF Behind
    <3>2. PICK c : c = Cardinality(refused)
      OBVIOUS
    <3>3. PICK n : n = Len(held)
      OBVIOUS
    <3>4. encoded <= i + (n - j) + c /\ j \in 1..n /\ n <= EncoderLag
      BY <1>2, <2>2, <3>1, <3>2, <3>3, Zenon
    <3>5. i > encoded - EncoderLag - c
      BY <1>1, <1>3, <3>2, <3>3, <3>4
    <3> QED  BY <3>2, <3>5
  <2> QED  BY <2>1, <2>2, Zenon
<1>4. CASE i \notin 1..encoded
  <2>1. i > encoded /\ i \in Nat
    <3>1. i \in Nat /\ i >= 1
      BY EncoderTypes
    <3> QED  BY <1>1, <1>4, <3>1
  <2> QED  BY <1>1, <2>1
<1> QED  BY <1>3, <1>4

\* What the invariants say of the packets that were written.
LEMMA TranscoderHolds ==
  DecodeInv /\ EncoderInv => TranscoderSafety /\ KeysInStep
<1> SUFFICES ASSUME DecodeInv, EncoderInv PROVE TranscoderSafety /\ KeysInStep
  OBVIOUS
<1>1. DecodeTypeOK /\ Given /\ Encoding
  BY DEF DecodeInv, EncoderInv
<1>2. DecodeSafety /\ KeysInStep
  BY DEF DecodeInv, Given, Draining, DecodeSafety
<1>3. MetadataThenImages
  BY <1>1 DEF Encoding, Ordered, MetadataThenImages
<1>4. LostAreTheLast
  BY <1>1, LossIsLast
<1>5. IdsAhead
  <2>1. ASSUME NEW j \in 2..Len(written) PROVE written[j - 1].id <= written[j].id
    <3>1. Len(written) \in Nat
      BY <1>1, EncoderTypes
    <3>2. j \in 1..Len(written) /\ j - 1 \in 1..Len(written) /\ j - 1 < j
      BY <3>1
    <3> QED  BY <1>1, <3>2 DEF Encoding, Ordered
  <2> QED  BY <1>1, <2>1 DEF Encoding, Ahead, IdsAhead
<1> QED  BY <1>2, <1>3, <1>4, <1>5 DEF EncoderInv, TranscoderSafety

\* Whatever the codec takes and when its packets come: the metadata and then the images,
\* each once and in order, with the id of one at most EncoderLag later; at the end the
\* last EncoderLag are lost at most, and what the codec refused.
THEOREM TranscoderIsSafe == TranscoderSpec => [](TranscoderSafety /\ KeysInStep)
<1>1. TranscoderSpec => [](DecodeInv /\ EncoderInv)
  BY EncoderInitially, TranscoderStep, PTL DEF TranscoderSpec
<1> QED  BY <1>1, TranscoderHolds, PTL
=============================================================================
