--------------------------- MODULE RecorderProofs ---------------------------
(***************************************************************************)
(* Theorems about Recorder and its VideoFileSink, for every input, every   *)
(* duration of the segments and any number of signals: what a file holds   *)
(* and where it is cut, and in which order the worker, the signal handler  *)
(* and the destructor finish the file, stop the client and leave.          *)
(***************************************************************************)
EXTENDS Recorder, TLAPS

-----------------------------------------------------------------------------
(* The files.                                                              *)

Holds(f, n) == \E i \in 1..Len(f) : f[i].no = n

\* A file of the frames from a key frame to some later one, in which no key frame but
\* the first is a segment's duration past the start.
IsFile(f) == f \in Seq(Frame) /\ f # <<>>
InARow(f) == \A i \in 1..Len(f) : f[i].no = f[1].no + i - 1
Uncut(f) == \A i \in 2..Len(f) : f[i].key => ~Past(f, f[i])
Segment(f) == IsFile(f) /\ InARow(f) /\ Uncut(f) /\ f[1].key

NoZero == \A d \in segment : d > 0

\* The open file goes up to the last frame; what was renamed lies before it, and began
\* earlier, so that its name is another one.
WriterIsLast ==
  /\ \A f, g \in writer : f = g
  /\ \A f \in writer : Last(f).no = frames
  /\ \A s \in saved : \A f \in writer :
       /\ Last(s.frames).no < f[1].no
       /\ NoZero => s.frames[1].ts < f[1].ts
       /\ segment # {}

\* All frames from the first in a file to the last that came are in files.
Whole == begun > 0 /\ NoZero => \A n \in begun..frames : \E f \in Files : Holds(f, n)

CutAtKeys == \A f, g \in Files : g[1].no = Last(f).no + 1 => g[1].key /\ Past(f, g[1])

SegmentsOf ==
  /\ segment \in Durations /\ decoder \in {"none", "fed", "sized"} /\ frames \in Nat /\ begun \in 0..frames
  /\ \A f \in Files : Segment(f) /\ begun > 0 /\ begun <= f[1].no /\ Last(f).no <= frames
  /\ \A s \in saved : s.name = NameOf(s.frames)
  /\ begun > 0 => decoder = "sized"

Filed == SegmentsOf /\ WriterIsLast /\ Whole /\ CutAtKeys

\* A file is open from the first key frame on until the sink is deleted.
Opened == begun > 0 <=> writer # {}

\* What a frame does to the files.
Skips == writer = {} /\ UNCHANGED <<writer, saved, begun>>
Appends(x) ==
  \E w \in writer : /\ ~Due(w, x) /\ writer' = {Append(w, x)} /\ UNCHANGED <<saved, begun>>
Cuts(x) ==
  \E w \in writer :
    /\ Due(w, x) /\ writer' = {<<x>>} /\ UNCHANGED begun
    /\ saved' = {s \in saved : s.name # NameOf(w)} \cup {[name |-> NameOf(w), frames |-> w]}
Starts(x) == writer = {} /\ x.key /\ writer' = {<<x>>} /\ saved' = saved /\ begun' = x.no

\* Append to a file.
LEMMA Appended ==
  ASSUME NEW f, IsFile(f), NEW x \in Frame
  PROVE  /\ IsFile(Append(f, x)) /\ Len(f) \in Nat \ {0} /\ Len(Append(f, x)) = Len(f) + 1
         /\ Append(f, x)[1] = f[1] /\ Last(Append(f, x)) = x
         /\ \A i \in 1..Len(f) : Append(f, x)[i] = f[i]
<1>1. Len(f) \in Nat \ {0} /\ Len(Append(f, x)) = Len(f) + 1
  BY DEF IsFile
<1>2. \A i \in 1..Len(f) : Append(f, x)[i] = f[i]
  BY DEF IsFile
<1>3. Append(f, x)[Len(f) + 1] = x
  BY DEF IsFile
<1>4. Append(f, x) \in Seq(Frame)
  BY DEF IsFile
<1>5. Append(f, x) # <<>>
  BY <1>1, <1>4
<1> QED  BY <1>1, <1>2, <1>3, <1>4, <1>5 DEF IsFile, Last

\* A file that has just been opened.
LEMMA Alone ==
  ASSUME NEW x \in Frame, x.key
  PROVE  Segment(<<x>>) /\ <<x>>[1] = x /\ Last(<<x>>) = x /\ Len(<<x>>) = 1
<1>1. <<x>> \in Seq(Frame) /\ Len(<<x>>) = 1 /\ <<x>>[1] = x
  OBVIOUS
<1>2. x.no \in Nat
  BY DEF Frame
<1>3. InARow(<<x>>)
  BY <1>1, <1>2 DEF InARow
<1>4. Uncut(<<x>>)
  BY <1>1 DEF Uncut
<1> QED  BY <1>1, <1>3, <1>4 DEF Segment, IsFile, Last

\* The ends of a file.
LEMMA EndsOf ==
  ASSUME NEW f, Segment(f)
  PROVE  /\ Len(f) \in Nat \ {0} /\ f[1] \in Frame /\ Last(f) \in Frame
         /\ \A i \in 1..Len(f) : f[i] \in Frame
         /\ f[1].no \in Nat /\ Last(f).no \in Nat /\ f[1].ts \in Nat /\ f[1].no <= Last(f).no
<1>1. Len(f) \in Nat \ {0} /\ \A i \in 1..Len(f) : f[i] \in Frame
  BY DEF Segment, IsFile
<1>2. f[1] \in Frame /\ f[Len(f)] \in Frame
  BY <1>1
<1>3. f[Len(f)].no = f[1].no + Len(f) - 1
  BY <1>1 DEF Segment, InARow
<1> QED  BY <1>1, <1>2, <1>3 DEF Frame, Last

\* A frame that does not cut the file goes on with it.
LEMMA GoesOn ==
  ASSUME NEW f, Segment(f), NEW x \in Frame, x.no = Last(f).no + 1, ~Due(f, x)
  PROVE  /\ Segment(Append(f, x)) /\ Append(f, x)[1] = f[1] /\ Last(Append(f, x)) = x
         /\ Holds(Append(f, x), x.no) /\ \A n : Holds(f, n) => Holds(Append(f, x), n)
<1> DEFINE g == Append(f, x)
<1>1. /\ IsFile(g) /\ Len(f) \in Nat \ {0} /\ Len(g) = Len(f) + 1 /\ g[1] = f[1] /\ Last(g) = x
      /\ \A i \in 1..Len(f) : g[i] = f[i]
  BY Appended DEF Segment
<1>2. g[Len(f) + 1] = x
  BY <1>1 DEF Last
<1>3. f[1].no \in Nat /\ x.no = f[1].no + Len(f)
  <2>1. Last(f).no = f[1].no + Len(f) - 1 /\ f[1].no \in Nat
    BY <1>1, EndsOf DEF Segment, InARow, Last
  <2> QED  BY <1>1, <2>1
<1>4. \A i \in 1..Len(g) : i \in 1..Len(f) \/ i = Len(f) + 1
  BY <1>1
<1> HIDE DEF g
<1>5. InARow(g)
  <2> SUFFICES ASSUME NEW i \in 1..Len(g) PROVE g[i].no = g[1].no + i - 1
    BY DEF InARow
  <2>1. CASE i \in 1..Len(f)
    BY <1>1, <2>1 DEF Segment, InARow
  <2>2. CASE i = Len(f) + 1
    BY <1>1, <1>2, <1>3, <2>2
  <2> QED  BY <1>4, <2>1, <2>2
<1>6. Uncut(g)
  <2> SUFFICES ASSUME NEW i \in 2..Len(g), g[i].key PROVE ~Past(g, g[i])
    BY DEF Uncut
  <2>1. CASE i \in 1..Len(f)
    <3>1. ~Past(f, f[i])
      BY <1>1, <2>1 DEF Segment, Uncut
    <3> QED  BY <1>1, <2>1, <3>1 DEF Past
  <2>2. CASE i = Len(f) + 1
    BY <1>1, <1>2, <2>2 DEF Past, Due
  <2>3. i \in 1..Len(g)
    BY <1>1
  <2> QED  BY <1>4, <2>1, <2>2, <2>3
<1>7. Holds(g, x.no)
  <2>1. Len(f) + 1 \in 1..Len(g)
    BY <1>1
  <2> QED  BY <1>2, <2>1 DEF Holds
<1>8. ASSUME NEW n, Holds(f, n) PROVE Holds(g, n)
  <2>1. PICK i \in 1..Len(f) : f[i].no = n
    BY <1>8 DEF Holds
  <2>2. i \in 1..Len(g) /\ g[i].no = n
    BY <1>1, <2>1
  <2> QED  BY <2>2 DEF Holds
<1> QED  BY <1>1, <1>5, <1>6, <1>7, <1>8 DEF Segment, g

\* What the next frame is: it skips the files, goes on with the open one, cuts it, or
\* starts the first.
Arrives(x, ts, key, told) ==
  /\ x = [no |-> frames + 1, ts |-> ts, key |-> key] /\ x \in Frame /\ SinkFrame(ts, key, told)

LEMMA FrameKinds ==
  ASSUME SegmentsOf, WriterIsLast, Opened, NEW x, NEW ts, NEW key, NEW told, Arrives(x, ts, key, told)
  PROVE  /\ x \in Frame /\ x.no = frames + 1 /\ frames' = frames + 1 /\ segment' = segment
         /\ decoder' \in {"none", "fed", "sized"} /\ (begun' > 0 => decoder' = "sized")
         /\ Skips \/ Appends(x) \/ Cuts(x) \/ Starts(x)
<1> DEFINE sized == decoder = "sized" \/ (decoder = "fed" /\ told)
<1>1. x \in Frame /\ x.no = frames + 1 /\ frames' = frames + 1 /\ segment' = segment /\ begun \in Nat
  BY DEF Arrives, SinkFrame, SegmentsOf
<1>2. decoder' = IF sized THEN "sized" ELSE decoder
  BY DEF Arrives, SinkFrame
<1>3. CASE ~sized
  <2>1. UNCHANGED <<saved, writer, begun>> /\ begun = 0
    BY <1>3 DEF Arrives, SinkFrame, SegmentsOf
  <2>2. Skips
    BY <1>1, <2>1 DEF Skips, Opened
  <2> QED  BY <1>1, <1>2, <1>3, <2>1, <2>2 DEF SegmentsOf
<1>4. CASE sized
  <2>1. /\ saved' = Released({f \in writer : Due(f, x)}) /\ writer' = {Append(f, x) : f \in Target(x)}
        /\ begun' = IF begun = 0 /\ Target(x) # {} THEN x.no ELSE begun
    BY <1>4 DEF Arrives, SinkFrame
  <2>2. CASE writer = {}
    <3>1. saved' = saved
      BY <2>1, <2>2 DEF Released
    <3>2. Target(x) = IF x.key THEN {NewFile} ELSE {}
      BY <2>2 DEF Target, Opens
    <3>3. begun = 0
      BY <1>1, <2>2 DEF Opened
    <3>4. CASE x.key
      <4>1. writer' = {<<x>>}
        BY <2>1, <3>2, <3>4 DEF NewFile
      <4> QED  BY <1>1, <1>2, <1>4, <2>1, <2>2, <3>1, <3>2, <3>3, <3>4, <4>1 DEF Starts
    <3>5. CASE ~x.key
      BY <1>1, <1>2, <1>4, <2>1, <2>2, <3>1, <3>2, <3>5 DEF Skips
    <3> QED  BY <3>4, <3>5
  <2>3. CASE writer # {}
    <3>1. PICK w \in writer : TRUE
      BY <2>3
    <3>2. writer = {w}
      BY <3>1 DEF WriterIsLast
    <3>3. begun # 0
      BY <1>1, <2>3 DEF Opened
    <3>4. CASE Due(w, x)
      <4>1. {f \in writer : Due(f, x)} = {w} /\ {f \in writer : ~Due(f, x)} = {}
        BY <3>2, <3>4
      <4>2. Target(x) = {NewFile}
        BY <3>4, <4>1 DEF Target, Opens, Due
      <4>3. writer' = {<<x>>} /\ begun' = begun
        BY <2>1, <3>3, <4>2 DEF NewFile
      <4>4. saved' = {s \in saved : s.name # NameOf(w)} \cup {[name |-> NameOf(w), frames |-> w]}
        BY <2>1, <4>1 DEF Released
      <4>5. Cuts(x)
        BY <3>1, <3>4, <4>3, <4>4 DEF Cuts
      <4> QED  BY <1>1, <1>2, <1>4, <4>5
    <3>5. CASE ~Due(w, x)
      <4>1. {f \in writer : Due(f, x)} = {} /\ {f \in writer : ~Due(f, x)} = {w}
        BY <3>2, <3>5
      <4>2. Target(x) = {w}
        BY <4>1 DEF Target
      <4>3. writer' = {Append(w, x)} /\ begun' = begun
        BY <2>1, <3>3, <4>2
      <4>4. saved' = saved
        BY <2>1, <4>1 DEF Released
      <4>5. Appends(x)
        BY <3>1, <3>5, <4>3, <4>4 DEF Appends
      <4> QED  BY <1>1, <1>2, <1>4, <4>5
    <3> QED  BY <3>4, <3>5
  <2> QED  BY <2>2, <2>3
<1> QED  BY <1>3, <1>4

\* Nothing opened yet, and the frame opens nothing.
LEMMA SkipsKept ==
  ASSUME Filed, Opened, Skips, frames' = frames + 1, segment' = segment,
         decoder' \in {"none", "fed", "sized"}, begun' > 0 => decoder' = "sized"
  PROVE  Filed' /\ Opened'
<1>1. begun = 0 /\ writer = {} /\ writer' = {} /\ saved' = saved /\ begun' = begun /\ frames \in Nat
  BY DEF Skips, Opened, Filed, SegmentsOf
<1>2. saved = {}
  BY <1>1 DEF Filed, SegmentsOf, Files
<1>3. Files' = {}
  BY <1>1, <1>2 DEF Files
<1>4. SegmentsOf'
  BY <1>1, <1>2, <1>3 DEF Filed, SegmentsOf
<1>5. WriterIsLast' /\ Whole' /\ CutAtKeys'
  BY <1>1, <1>2, <1>3 DEF WriterIsLast, Whole, CutAtKeys
<1> QED  BY <1>1, <1>4, <1>5 DEF Filed, Opened

\* The first frame of the first file.
LEMMA StartsKept ==
  ASSUME Filed, Opened, NEW x \in Frame, Starts(x), x.no = frames + 1, frames' = frames + 1, segment' = segment,
         decoder' \in {"none", "fed", "sized"}, begun' > 0 => decoder' = "sized"
  PROVE  Filed' /\ Opened'
<1>1. begun = 0 /\ writer = {} /\ writer' = {<<x>>} /\ saved' = saved /\ begun' = frames + 1 /\ frames \in Nat /\ x.key
  BY DEF Starts, Opened, Filed, SegmentsOf
<1>2. saved = {}
  BY <1>1 DEF Filed, SegmentsOf, Files
<1>3. Files' = {<<x>>}
  BY <1>1, <1>2 DEF Files
<1>4. Segment(<<x>>) /\ <<x>>[1] = x /\ Last(<<x>>) = x /\ Len(<<x>>) = 1
  BY <1>1, Alone
<1>5. Segment(<<x>>)'
  BY <1>4 DEF Segment, IsFile, InARow, Uncut, Past
<1>6. SegmentsOf'
  BY <1>1, <1>2, <1>3, <1>4, <1>5 DEF Filed, SegmentsOf, Last
<1>7. WriterIsLast'
  BY <1>1, <1>2, <1>4 DEF WriterIsLast, Last
<1>8. Whole'
  <2>1. Holds(<<x>>, frames + 1)
    BY <1>4 DEF Holds
  <2> QED  BY <1>1, <1>3, <2>1 DEF Whole, Holds
<1>9. CutAtKeys'
  <2>1. x.no # x.no + 1
    BY <1>1
  <2> QED  BY <1>3, <1>4, <2>1 DEF CutAtKeys
<1> QED  BY <1>1, <1>6, <1>7, <1>8, <1>9 DEF Filed, Opened

\* A frame behind the last one of the open file.
LEMMA AppendsKept ==
  ASSUME Filed, Opened, NEW x \in Frame, Appends(x), x.no = frames + 1, frames' = frames + 1, segment' = segment,
         decoder' \in {"none", "fed", "sized"}, begun' > 0 => decoder' = "sized"
  PROVE  Filed' /\ Opened'
<1>1. PICK w \in writer : ~Due(w, x) /\ writer' = {Append(w, x)} /\ UNCHANGED <<saved, begun>>
  BY DEF Appends
<1>2. writer = {w} /\ w \in Files /\ Segment(w) /\ begun > 0 /\ begun <= w[1].no /\ Last(w).no = frames
  BY DEF Filed, SegmentsOf, WriterIsLast, Files
<1>3. frames \in Nat /\ begun \in Nat /\ begun <= frames
  BY DEF Filed, SegmentsOf
<1> DEFINE g == Append(w, x)
<1>4. /\ Segment(g) /\ g[1] = w[1] /\ Last(g) = x /\ Holds(g, x.no)
      /\ \A n : Holds(w, n) => Holds(g, n)
  BY <1>1, <1>2, GoesOn
<1>5. writer' = {g} /\ saved' = saved /\ begun' = begun
  BY <1>1
<1>6. /\ w[1].no \in Nat /\ w[1].no <= frames /\ w[1].ts \in Nat
      /\ \A s \in saved : s.frames[1].no \in Nat /\ Last(s.frames).no \in Nat
  BY <1>2, EndsOf DEF Filed, SegmentsOf, Files
<1> HIDE DEF g
<1>7. Files' = {s.frames : s \in saved} \cup {g} /\ Files = {s.frames : s \in saved} \cup {w}
  BY <1>2, <1>5 DEF Files
<1>8. \A f : Segment(f) => Segment(f)'
  BY DEF Segment, IsFile, InARow, Uncut, Past
<1>9. SegmentsOf'
  <2>1. \A f \in Files' : Segment(f)' /\ begun' > 0 /\ begun' <= f[1].no /\ Last(f).no <= frames'
    <3> SUFFICES ASSUME NEW f \in Files' PROVE Segment(f)' /\ begun' > 0 /\ begun' <= f[1].no /\ Last(f).no <= frames'
      OBVIOUS
    <3>1. CASE f = g
      BY <1>2, <1>3, <1>4, <1>5, <1>8, <3>1
    <3>2. CASE f # g
      <4>1. f \in Files /\ \E s \in saved : f = s.frames
        BY <1>7, <3>2
      <4>2. Segment(f) /\ begun > 0 /\ begun <= f[1].no /\ Last(f).no <= frames /\ Last(f).no \in Nat
        BY <1>6, <4>1 DEF Filed, SegmentsOf
      <4> QED  BY <1>3, <1>5, <1>8, <4>2
    <3> QED  BY <3>1, <3>2
  <2>2. \A s \in saved' : s.name = NameOf(s.frames)'
    BY <1>5 DEF Filed, SegmentsOf, NameOf, Last
  <2>3. segment' \in Durations /\ frames' \in Nat /\ begun' \in 0..frames'
    BY <1>3, <1>5 DEF Filed, SegmentsOf
  <2> QED  BY <2>1, <2>2, <2>3 DEF SegmentsOf, Last
<1>10. WriterIsLast'
  BY <1>2, <1>4, <1>5 DEF Filed, WriterIsLast, NoZero, Last
<1>11. Whole'
  <2> SUFFICES ASSUME NoZero, NEW n \in begun..frames + 1 PROVE \E f \in Files' : Holds(f, n)
    BY <1>5 DEF Whole, NoZero, Holds
  <2>1. CASE n = frames + 1
    BY <1>4, <1>7, <2>1
  <2>2. CASE n # frames + 1
    <3>1. n \in begun..frames
      BY <1>3, <2>2
    <3>2. PICK f \in Files : Holds(f, n)
      BY <1>2, <3>1 DEF Filed, Whole
    <3> QED  BY <1>4, <1>7, <3>2
  <2> QED  BY <2>1, <2>2
<1>12. CutAtKeys'
  <2> SUFFICES ASSUME NEW f \in Files', NEW h \in Files', h[1].no = Last(f).no + 1
               PROVE h[1].key /\ Past(f, h[1])
    BY DEF CutAtKeys, Past, Last
  <2>1. CASE f = g
    <3>1. h[1].no = frames + 2
      BY <1>3, <1>4, <2>1
    <3>2. CASE h = g
      BY <1>3, <1>4, <1>6, <3>1, <3>2
    <3>3. CASE h # g
      <4>1. h \in Files
        BY <1>7, <3>3
      <4>2. Segment(h) /\ Last(h).no <= frames
        BY <4>1 DEF Filed, SegmentsOf
      <4>3. h[1].no <= Last(h).no /\ h[1].no \in Nat /\ Last(h).no \in Nat
        BY <4>2, EndsOf
      <4> QED  BY <1>3, <3>1, <4>2, <4>3
    <3> QED  BY <3>2, <3>3
  <2>2. CASE f # g
    <3>1. f \in Files
      BY <1>7, <2>2
    <3>2. CASE h = g
      <4>1. w[1].no = Last(f).no + 1 /\ w \in Files
        BY <1>2, <1>4, <3>2
      <4> QED  BY <1>4, <3>1, <3>2, <4>1 DEF Filed, CutAtKeys
    <3>3. CASE h # g
      BY <1>7, <3>1, <3>3 DEF Filed, CutAtKeys
    <3> QED  BY <3>2, <3>3
  <2> QED  BY <2>1, <2>2
<1>13. Opened'
  BY <1>2, <1>3, <1>5 DEF Opened
<1> QED  BY <1>9, <1>10, <1>11, <1>12, <1>13 DEF Filed

\* What was renamed keeps its name: the next file began later, unless a segment may
\* be of no length at all.
LEMMA NamesDiffer ==
  ASSUME Filed, NoZero, NEW s \in saved, NEW f \in writer
  PROVE  s.name # NameOf(f)
<1>1. segment # {} /\ s.frames[1].ts < f[1].ts
  BY DEF Filed, WriterIsLast
<1>2. s.frames \in Files /\ f \in Files
  BY DEF Files
<1>3. s.frames[1].ts \in Nat /\ f[1].ts \in Nat
  BY <1>2, EndsOf DEF Filed, SegmentsOf
<1>4. s.name = <<s.frames[1].ts, Last(s.frames).ts>> /\ NameOf(f) = <<f[1].ts, Last(f).ts>>
  BY <1>1 DEF Filed, SegmentsOf, NameOf
<1>5. s.frames[1].ts # f[1].ts
  BY <1>1, <1>3
<1> QED  BY <1>4, <1>5

\* A file is cut: it gets its name, and the next one begins with the frame.
LEMMA CutsKept ==
  ASSUME Filed, Opened, NEW x \in Frame, Cuts(x), x.no = frames + 1, frames' = frames + 1, segment' = segment,
         segment \subseteq Nat,
         decoder' \in {"none", "fed", "sized"}, begun' > 0 => decoder' = "sized"
  PROVE  Filed' /\ Opened'
<1>1. PICK w \in writer :
        /\ Due(w, x) /\ writer' = {<<x>>} /\ UNCHANGED begun
        /\ saved' = {s \in saved : s.name # NameOf(w)} \cup {[name |-> NameOf(w), frames |-> w]}
  BY DEF Cuts
<1>2. writer = {w} /\ w \in Files /\ Segment(w) /\ begun > 0 /\ begun <= w[1].no /\ Last(w).no = frames
  BY DEF Filed, SegmentsOf, WriterIsLast, Files
<1>3. frames \in Nat /\ begun \in Nat /\ begun <= frames
  BY DEF Filed, SegmentsOf
<1>4. x.key /\ segment # {} /\ \E d \in segment : x.ts >= w[1].ts + d
  BY <1>1 DEF Due
<1>5. Segment(<<x>>) /\ <<x>>[1] = x /\ Last(<<x>>) = x /\ Len(<<x>>) = 1
  BY <1>4, Alone
<1>6. w[1].no \in Nat /\ w[1].ts \in Nat /\ x.ts \in Nat /\ x.no \in Nat /\ w[1].no <= frames
  BY <1>2, EndsOf DEF Frame
<1> DEFINE g == <<x>>
<1> DEFINE new == [name |-> NameOf(w), frames |-> w]
<1>7. new.name = NameOf(w) /\ new.frames = w
  OBVIOUS
<1>8. /\ writer' = {g} /\ begun' = begun
      /\ saved' \subseteq saved \cup {new} /\ new \in saved'
      /\ \A s \in saved : s.name # NameOf(w) => s \in saved'
  BY <1>1
<1> HIDE DEF g, new
<1>9. \A f \in Files' : f \in Files \/ f = g
  BY <1>2, <1>7, <1>8 DEF Files
<1>10. g \in Files' /\ w \in Files'
  BY <1>7, <1>8 DEF Files
<1>11. \A f : Segment(f) => Segment(f)'
  BY DEF Segment, IsFile, InARow, Uncut, Past
<1>12. \A f \in Files : /\ Segment(f) /\ Last(f).no <= frames /\ Last(f).no \in Nat /\ f[1].no \in Nat
                        /\ f[1].no <= Last(f).no /\ f[1].ts \in Nat
  BY EndsOf DEF Filed, SegmentsOf
<1>13. SegmentsOf'
  <2>1. \A f \in Files' : Segment(f)' /\ begun' > 0 /\ begun' <= f[1].no /\ Last(f).no <= frames'
    <3> SUFFICES ASSUME NEW f \in Files' PROVE Segment(f)' /\ begun' > 0 /\ begun' <= f[1].no /\ Last(f).no <= frames'
      OBVIOUS
    <3>1. CASE f = g
      BY <1>2, <1>3, <1>5, <1>8, <1>11, <3>1 DEF g
    <3>2. CASE f \in Files
      <4>1. begun <= f[1].no
        BY <3>2 DEF Filed, SegmentsOf
      <4> QED  BY <1>2, <1>3, <1>8, <1>11, <1>12, <3>2, <4>1
    <3> QED  BY <1>9, <3>1, <3>2
  <2>2. \A s \in saved' : s.name = NameOf(s.frames)
    BY <1>7, <1>8 DEF Filed, SegmentsOf
  <2>3. \A s \in saved' : s.name = NameOf(s.frames)'
    BY <2>2 DEF NameOf, Last
  <2>4. segment' \in Durations /\ frames' \in Nat /\ begun' \in 0..frames'
    BY <1>3, <1>8 DEF Filed, SegmentsOf
  <2> QED  BY <2>1, <2>3, <2>4 DEF SegmentsOf, Last
<1>14. \A s \in saved : NoZero => s.frames[1].ts < w[1].ts
  BY <1>2 DEF Filed, WriterIsLast
<1>15. NoZero => w[1].ts < x.ts
  <2> SUFFICES ASSUME NoZero PROVE w[1].ts < x.ts
    OBVIOUS
  <2>1. PICK d \in segment : x.ts >= w[1].ts + d
    BY <1>4
  <2>2. d \in Nat /\ d > 0
    BY <2>1 DEF NoZero
  <2> QED  BY <1>6, <2>1, <2>2
<1>16. WriterIsLast'
  <2> SUFFICES ASSUME NEW s \in saved'
               PROVE Last(s.frames).no < x.no /\ (NoZero => s.frames[1].ts < x.ts)
    BY <1>4, <1>5, <1>8 DEF WriterIsLast, NoZero, Last, g
  <2>1. CASE s = new
    BY <1>2, <1>3, <1>7, <1>15, <2>1
  <2>2. CASE s \in saved
    <3>1. s.frames \in Files
      BY <2>2 DEF Files
    <3>2. Last(s.frames).no <= frames /\ Last(s.frames).no \in Nat /\ s.frames[1].ts \in Nat
      BY <1>12, <3>1
    <3> QED  BY <1>3, <1>6, <1>14, <1>15, <2>2, <3>2
  <2> QED  BY <1>8, <2>1, <2>2
<1>17. NoZero => \A s \in saved : s \in saved'
  <2> SUFFICES ASSUME NoZero, NEW s \in saved PROVE s.name # NameOf(w)
    BY <1>8
  <2> QED  BY NamesDiffer
<1>18. Whole'
  <2> SUFFICES ASSUME NoZero, NEW n \in begun..frames + 1 PROVE \E f \in Files' : Holds(f, n)
    BY <1>8 DEF Whole, NoZero, Holds
  <2>1. CASE n = frames + 1
    <3>1. Holds(g, n)
      BY <1>5, <2>1 DEF Holds, g
    <3> QED  BY <1>10, <3>1
  <2>2. CASE n # frames + 1
    <3>1. n \in begun..frames
      BY <1>3, <2>2
    <3>2. PICK f \in Files : Holds(f, n)
      BY <1>2, <3>1 DEF Filed, Whole
    <3>3. f \in Files'
      BY <1>2, <1>10, <1>17, <3>2 DEF Files
    <3> QED  BY <3>2, <3>3
  <2> QED  BY <2>1, <2>2
<1>19. CutAtKeys'
  <2> SUFFICES ASSUME NEW f \in Files', NEW h \in Files', h[1].no = Last(f).no + 1
               PROVE h[1].key /\ Past(f, h[1])
    BY DEF CutAtKeys, Past, Last
  <2>1. CASE f = g
    <3>1. h[1].no = frames + 2
      BY <1>3, <1>5, <2>1 DEF g
    <3>2. h = g \/ (h \in Files /\ h[1].no <= frames /\ h[1].no \in Nat)
      BY <1>3, <1>9, <1>12
    <3>3. g[1].no = frames + 1
      BY <1>5 DEF g
    <3> QED  BY <1>3, <3>1, <3>2, <3>3
  <2>2. CASE f \in Files /\ h = g
    <3>1. h[1] = x
      BY <1>5, <2>2 DEF g
    <3>2. Last(f).no = frames
      BY <1>3, <1>12, <2>2, <3>1
    <3>3. f = w
      <4>1. \A s \in saved : Last(s.frames).no < w[1].no
        BY <1>2 DEF Filed, WriterIsLast
      <4>2. \A s \in saved : s.frames # f
        <5> SUFFICES ASSUME NEW s \in saved, s.frames = f PROVE FALSE
          OBVIOUS
        <5>1. Last(f).no < w[1].no
          BY <4>1
        <5> QED  BY <1>3, <1>6, <3>2, <5>1
      <4> QED  BY <1>2, <2>2, <4>2 DEF Files
    <3> QED  BY <1>4, <3>1, <3>3 DEF Past
  <2>3. CASE f \in Files /\ h \in Files
    BY <2>3 DEF Filed, CutAtKeys
  <2> QED  BY <1>9, <2>1, <2>2, <2>3
<1>20. Opened'
  BY <1>2, <1>3, <1>8 DEF Opened
<1> QED  BY <1>13, <1>16, <1>18, <1>19, <1>20 DEF Filed

\* The destructor of the sink renames the open file.
LEMMA DeleteKept ==
  ASSUME Filed, SinkDelete
  PROVE  Filed' /\ writer' = {}
<1>1. /\ writer' = {} /\ segment' = segment /\ decoder' = decoder /\ frames' = frames /\ begun' = begun
      /\ saved' = {s \in saved : \A f \in writer : s.name # NameOf(f)}
                    \cup {[name |-> NameOf(f), frames |-> f] : f \in writer}
  BY DEF SinkDelete, Released
<1>2. \A f \in Files' : f \in Files
  BY <1>1 DEF Files
<1>3. \A s \in saved' : s \in saved \/ \E f \in writer : s = [name |-> NameOf(f), frames |-> f]
  BY <1>1
<1>4. SegmentsOf'
  <2>1. \A f : Segment(f) => Segment(f)'
    BY <1>1 DEF Segment, IsFile, InARow, Uncut, Past
  <2>2. \A s \in saved' : s.name = NameOf(s.frames)
    BY <1>3 DEF Filed, SegmentsOf
  <2>3. \A s \in saved' : s.name = NameOf(s.frames)'
    BY <1>1, <2>2 DEF NameOf, Last
  <2> QED  BY <1>1, <1>2, <2>1, <2>3 DEF Filed, SegmentsOf, Last
<1>5. WriterIsLast'
  BY <1>1 DEF WriterIsLast
<1>6. Whole'
  <2>1. ASSUME NoZero, NEW f \in Files PROVE f \in Files'
    <3>1. \A s \in saved : s \in saved'
      BY <1>1, <2>1, NamesDiffer
    <3>2. CASE f \in writer
      <4>1. [name |-> NameOf(f), frames |-> f] \in saved'
        BY <1>1, <3>2
      <4>2. [name |-> NameOf(f), frames |-> f].frames = f
        OBVIOUS
      <4> QED  BY <4>1, <4>2 DEF Files
    <3>3. CASE f \notin writer
      <4>1. PICK s \in saved : f = s.frames
        BY <3>3, <2>1 DEF Files
      <4> QED  BY <3>1, <4>1 DEF Files
    <3> QED  BY <3>2, <3>3
  <2> QED  BY <1>1, <2>1 DEF Filed, Whole, NoZero, Holds
<1>7. CutAtKeys'
  BY <1>1, <1>2 DEF Filed, CutAtKeys, Past, Last
<1> QED  BY <1>1, <1>4, <1>5, <1>6, <1>7 DEF Filed

\* A frame comes to a sink that is open.
LEMMA FrameKept ==
  ASSUME Filed, Opened, NEW ts \in Nat, NEW key \in BOOLEAN, NEW told \in BOOLEAN, SinkFrame(ts, key, told)
  PROVE  Filed' /\ Opened'
<1> DEFINE x == [no |-> frames + 1, ts |-> ts, key |-> key]
<1>1. x \in Frame
  BY DEF Filed, SegmentsOf, Frame
<1>2. Arrives(x, ts, key, told)
  BY <1>1 DEF Arrives
<1> HIDE DEF x
<1>3. /\ x.no = frames + 1 /\ frames' = frames + 1 /\ segment' = segment
      /\ decoder' \in {"none", "fed", "sized"} /\ (begun' > 0 => decoder' = "sized")
      /\ Skips \/ Appends(x) \/ Cuts(x) \/ Starts(x)
  BY <1>2, FrameKinds DEF Filed
<1>4. segment \subseteq Nat
  BY VideoFileSinkAssumption DEF Filed, SegmentsOf
<1> QED  BY <1>1, <1>3, <1>4, SkipsKept, AppendsKept, CutsKept, StartsKept, Zenon

\* What the files hold, in the words of the properties.
LEMMA SoundFiles ==
  ASSUME Filed
  PROVE  FilesAreSound /\ SinkTypeOK
<1>1. \A f \in Files : Segment(f) /\ begun <= f[1].no /\ Last(f).no <= frames
  BY DEF Filed, SegmentsOf
<1>2. StartsWithKey
  BY <1>1 DEF StartsWithKey, Segment
<1>3. CutInTime
  BY <1>1 DEF CutInTime, Filed, CutAtKeys, Segment, Uncut
<1>4. ASSUME begun > 0, NoZero PROVE Numbers = begun..frames
  <2>1. ASSUME NEW n \in Numbers PROVE n \in begun..frames
    <3>1. PICK f \in Files : n \in {f[i].no : i \in 1..Len(f)}
      BY <2>1 DEF Numbers
    <3>2. PICK i \in 1..Len(f) : n = f[i].no
      BY <3>1
    <3>3. /\ Segment(f) /\ begun <= f[1].no /\ Last(f).no <= frames /\ Len(f) \in Nat \ {0}
          /\ f[1].no \in Nat /\ Last(f).no \in Nat
      BY <1>1, EndsOf
    <3>4. n = f[1].no + i - 1 /\ Last(f).no = f[1].no + Len(f) - 1
      BY <3>2, <3>3 DEF Segment, InARow, Last
    <3>5. i \in Nat /\ i >= 1 /\ i <= Len(f) /\ begun \in Nat /\ frames \in Nat
      BY <3>2, <3>3 DEF Filed, SegmentsOf
    <3> QED  BY <3>3, <3>4, <3>5
  <2>2. ASSUME NEW n \in begun..frames PROVE n \in Numbers
    <3>1. PICK f \in Files : Holds(f, n)
      BY <1>4, <2>2 DEF Filed, Whole
    <3>2. n \in {f[i].no : i \in 1..Len(f)}
      BY <3>1 DEF Holds
    <3> QED  BY <3>1, <3>2 DEF Numbers
  <2> QED  BY <2>1, <2>2
<1>5. NothingIsLost
  BY <1>4 DEF NothingIsLost, NoZero
<1>6. SinkTypeOK
  <2>1. \A f \in Files : f \in Seq(Frame) /\ f # <<>>
    BY <1>1 DEF Segment, IsFile
  <2> QED  BY <2>1 DEF SinkTypeOK, Files, Filed, SegmentsOf
<1> QED  BY <1>2, <1>3, <1>5, <1>6 DEF FilesAreSound

-----------------------------------------------------------------------------
(* The tool.                                                               *)

Flags ==
  /\ input \in Inputs /\ timeLimit \in TimeLimits
  /\ pc \in [Threads -> Steps] /\ subscription \in BOOLEAN /\ sink \in BOOLEAN
  /\ upstream \in {"open", "cancelled", "ended"} /\ file \in {"open", "closed"}
  /\ expired \in BOOLEAN /\ leaving \in BOOLEAN /\ client \in {"running", "stopped"}
  /\ misused \subseteq {"upstream", "file"} /\ failed \in {"", "connect", "onNext", "onEnd", "stop", "mux"}

Numbered ==
  /\ delivered \in 0..Frames /\ recorded \in Nat
  /\ signals \in 0..Signals /\ requests \in Nat

Typed == Flags /\ Numbered

\* The packet that is on its way.
OnItsWay == IF pc["worker"] \in {"onNext", "record"} THEN 1 ELSE 0

Counted ==
  /\ recorded + OnItsWay <= delivered
  /\ "file" \notin misused => recorded + OnItsWay = delivered

\* Who will still post a request to stop the client: a signal handler, the worker.
HandlerOwes == IF pc["main"] = "idle" \/ leaving THEN 0 ELSE 1
WorkerOwes == IF pc["worker"] = "gone" THEN 0 ELSE 1

Posted ==
  /\ requests + HandlerOwes + WorkerOwes <= signals + 1
  /\ pc["main"] \notin {"onNext", "record", "onEnd"}
  /\ pc["main"] = "gone" => leaving

FilesWait ==
  /\ Filed
  /\ file = "open" => Opened
  /\ file = "closed" => writer = {}

\* Whoever posts a request, or finds the sink gone, comes after the file was closed.
ClosedFirst ==
  ~sink \/ requests > 0 \/ client = "stopped" \/ (\E t \in Threads : pc[t] \in {"drop", "post"})
    => file = "closed"

Stopped == IF client = "stopped" THEN 1 ELSE 0

\* Without a signal the worker stops the stream, and the main thread only leaves.
Calm ==
  signals = 0 =>
    /\ pc["main"] = "idle" \/ leaving
    /\ leaving => client = "stopped"
    /\ requests + Stopped + WorkerOwes = 1
    /\ pc["worker"] \in {"idle", "onNext", "record", "onEnd"} => subscription /\ sink
    /\ pc["worker"] \notin {"drop", "post", "gone"} => file = "open"
    /\ pc["worker"] \in {"post", "gone"} => ~sink
    /\ "file" \notin misused
    /\ input = "channel" => failed \in {"", "mux"}

Tool == Typed /\ Counted /\ Posted /\ FilesWait /\ ClosedFirst /\ Calm

\* The steps of the tool: each is of one thread, or the timer's.
LEMMA ToolSteps ==
  ASSUME [Next]_vars
  PROVE  \/ Deliver \/ Fail \/ OnNext \/ Record \/ OnEnd \/ Signal \/ Expire \/ StopClient \/ Leave
         \/ \E t \in Threads : Cancel(t) \/ Reset(t) \/ Complete(t) \/ Drop(t) \/ Post(t)
         \/ UNCHANGED vars
<1>1. "worker" \in Threads /\ "main" \in Threads
  BY DEF Threads
<1>2. ASSUME NEW t \in Threads, Stopping(t)
      PROVE  \E u \in Threads : Cancel(u) \/ Reset(u) \/ Complete(u) \/ Drop(u) \/ Post(u)
  BY <1>2 DEF Stopping
<1> QED  BY <1>1, <1>2 DEF Next, InVideoStream


\* The numbers that bound the runs of the tool.
LEMMA Bounds == Signals \in Nat /\ Frames \in Nat /\ \A k \in 1..Frames : Times[k] \in Nat
  BY RecorderAssumption DEF Frames

\* A packet for the file is recorded, ends the program, or finds no file.
LEMMA RecordDoes ==
  ASSUME Record
  PROVE  /\ failed = "" /\ pc["worker"] = "record" /\ pc' = [pc EXCEPT !["worker"] = "idle"]
         /\ UNCHANGED <<CommandLine, subscription, sink, upstream, file, delivered, Outside, Loop>>
         /\ \/ /\ sink /\ file = "open" /\ recorded' = recorded + 1 /\ misused' = misused
               /\ failed' \in {failed, "mux"}
            \/ /\ ~(sink /\ file = "open") /\ recorded' = recorded /\ misused' = misused \cup {"file"}
               /\ failed' = failed
<1>1. CASE sink /\ file = "open"
  <2>1. recorded' = recorded + 1 /\ misused' = misused
    BY <1>1 DEF Record
  <2>2. failed' \in {failed, "mux"}
    BY <1>1 DEF Record
  <2> QED  BY <1>1, <2>1, <2>2 DEF Record, At, Go, Runs
<1>2. CASE ~(sink /\ file = "open")
  BY <1>2 DEF Record, At, Go, Runs
<1> QED  BY <1>1, <1>2

\* Where the threads are after a step of one of them.
LEMMA Goes ==
  ASSUME pc \in [Threads -> Steps], NEW t \in Threads, NEW s \in Steps, Go(t, s)
  PROVE  pc'[t] = s /\ \A u \in Threads : u # t => pc'[u] = pc[u]
  BY DEF Go

\* The flags keep their types.
LEMMA FlagsKept ==
  ASSUME Flags, [Next]_vars
  PROVE  Flags'
<1> USE DEF Threads, Steps
<1>1. \/ Deliver \/ Fail \/ OnNext \/ Record \/ OnEnd \/ Signal \/ Expire \/ StopClient \/ Leave
      \/ \E t \in Threads : Cancel(t) \/ Reset(t) \/ Complete(t) \/ Drop(t) \/ Post(t)
      \/ UNCHANGED vars
  BY ToolSteps
<1>2. CASE Deliver
  BY <1>2 DEF Flags, At, Go, Runs, Stream, CommandLine, Counts, Outside, Loop, sinkVars, Deliver
<1>3. CASE Fail
  BY <1>3 DEF Flags, At, Go, Runs, Stream, CommandLine, Counts, Outside, Loop, sinkVars, Fail
<1>4. CASE OnNext
  BY <1>4 DEF Flags, At, Go, Runs, Stream, CommandLine, Counts, Outside, Loop, sinkVars, OnNext, Unusable
<1>5. CASE Record
  BY <1>5 DEF Flags, At, Go, Runs, Stream, CommandLine, Counts, Outside, Loop, sinkVars, Record
<1>6. CASE OnEnd
  BY <1>6 DEF Flags, At, Go, Runs, Stream, CommandLine, Counts, Outside, Loop, sinkVars, OnEnd
<1>7. CASE Signal
  BY <1>7 DEF Flags, At, Go, Runs, Stream, CommandLine, Counts, Outside, Loop, sinkVars, Signal
<1>8. CASE Expire
  BY <1>8 DEF Flags, At, Go, Runs, Stream, CommandLine, Counts, Outside, Loop, sinkVars, Expire
<1>9. CASE StopClient
  BY <1>9 DEF Flags, At, Go, Runs, Stream, CommandLine, Counts, Outside, Loop, sinkVars, StopClient
<1>10. CASE Leave
  BY <1>10 DEF Flags, At, Go, Runs, Stream, CommandLine, Counts, Outside, Loop, sinkVars, Leave
<1>11. ASSUME NEW t \in Threads, Cancel(t) PROVE Flags'
  BY <1>11 DEF Flags, At, Go, Runs, Stream, CommandLine, Counts, Outside, Loop, sinkVars, Cancel
<1>12. ASSUME NEW t \in Threads, Reset(t) PROVE Flags'
  BY <1>12 DEF Flags, At, Go, Runs, Stream, CommandLine, Counts, Outside, Loop, sinkVars, Reset
<1>13. ASSUME NEW t \in Threads, Complete(t) PROVE Flags'
  BY <1>13 DEF Flags, At, Go, Runs, Stream, CommandLine, Counts, Outside, Loop, sinkVars, Complete,
          Completes
<1>14. ASSUME NEW t \in Threads, Drop(t) PROVE Flags'
  BY <1>14 DEF Flags, At, Go, Runs, Stream, CommandLine, Counts, Outside, Loop, sinkVars, Drop, Dropped
<1>15. ASSUME NEW t \in Threads, Post(t) PROVE Flags'
  BY <1>15 DEF Flags, At, Go, Runs, Stream, CommandLine, Counts, Outside, Loop, sinkVars, Post, Requested
<1>16. CASE UNCHANGED vars
  BY <1>16 DEF Flags, At, Go, Runs, Stream, CommandLine, Counts, Outside, Loop, sinkVars, vars
<1> QED  BY <1>1, <1>2, <1>3, <1>4, <1>5, <1>6, <1>7, <1>8, <1>9, <1>10, <1>11, <1>12, <1>13,
        <1>14, <1>15, <1>16, Zenon

\* The counters go one step at a time.
LEMMA NumbersMove ==
  ASSUME [Next]_vars
  PROVE  /\ delivered' = delivered \/ (delivered < Frames /\ delivered' = delivered + 1)
         /\ recorded' = recorded \/ recorded' = recorded + 1
         /\ signals' = signals \/ (signals < Signals /\ signals' = signals + 1)
         /\ requests' = requests \/ requests' = requests + 1 \/ (requests > 0 /\ requests' = requests - 1)
<1>1. \/ Deliver \/ Fail \/ OnNext \/ Record \/ OnEnd \/ Signal \/ Expire \/ StopClient \/ Leave
      \/ \E t \in Threads : Cancel(t) \/ Reset(t) \/ Complete(t) \/ Drop(t) \/ Post(t)
      \/ UNCHANGED vars
  BY ToolSteps
<1>2. CASE Deliver
  BY <1>2, Zenon DEF Deliver, Counts, Outside, Loop
<1>3. CASE Record
  BY <1>3, RecordDoes, Zenon DEF Outside, Loop
<1>4. CASE Fail \/ OnNext \/ OnEnd \/ Expire \/ UNCHANGED vars
  BY <1>4, Zenon DEF Fail, OnNext, OnEnd, Expire, Counts, Outside, Loop, vars
<1>5. CASE Signal \/ StopClient \/ Leave
  BY <1>5, Zenon DEF Signal, StopClient, Leave, Counts, Outside, Loop
<1>6. ASSUME NEW t \in Threads, Cancel(t) \/ Reset(t) \/ Drop(t)
      PROVE  UNCHANGED <<delivered, recorded, signals, requests>>
  BY <1>6, Zenon DEF Cancel, Reset, Drop, Counts, Outside, Loop
<1>7. ASSUME NEW t \in Threads, Complete(t)
      PROVE  UNCHANGED <<delivered, recorded, signals, requests>>
  BY <1>7, Zenon DEF Complete, Counts, Outside, Loop
<1>8. ASSUME NEW t \in Threads, Post(t)
      PROVE  UNCHANGED <<delivered, recorded, signals>> /\ (requests' = requests \/ requests' = requests + 1)
  BY <1>8, Zenon DEF Post, Counts, Outside, Requested
<1> QED  BY <1>1, <1>2, <1>3, <1>4, <1>5, <1>6, <1>7, <1>8, Zenon

\* Every variable keeps its type.
LEMMA TypedKept ==
  ASSUME Typed, [Next]_vars
  PROVE  Typed'
<1>1. Flags'
  BY FlagsKept DEF Typed
<1>2. Numbered'
  BY NumbersMove, Bounds DEF Typed, Numbered
<1> QED  BY <1>1, <1>2 DEF Typed

\* No packet is counted twice, and none is missing.
LEMMA CountedKept ==
  ASSUME Typed, Counted, [Next]_vars
  PROVE  Counted'
<1> USE DEF Threads, Steps
<1>1. \/ Deliver \/ Fail \/ OnNext \/ Record \/ OnEnd \/ Signal \/ Expire \/ StopClient \/ Leave
      \/ \E t \in Threads : Cancel(t) \/ Reset(t) \/ Complete(t) \/ Drop(t) \/ Post(t)
      \/ UNCHANGED vars
  BY ToolSteps
<1>2. CASE Deliver
  <2>1. recorded' = recorded /\ misused' = misused /\ pc["worker"] = "idle"
    BY <1>2 DEF Deliver, At, Stream
  <2>2. \/ delivered' = delivered /\ Go("worker", "onEnd")
        \/ delivered' = delivered + 1 /\ Go("worker", "onNext")
    BY <1>2, Zenon DEF Deliver
  <2>3. \/ delivered' = delivered /\ pc'["worker"] = "onEnd"
        \/ delivered' = delivered + 1 /\ pc'["worker"] = "onNext"
    BY <2>2, Goes DEF Typed, Flags
  <2> QED  BY <2>1, <2>3 DEF Counted, OnItsWay, Typed, Numbered
<1>3. CASE Fail
  BY <1>3 DEF Counted, OnItsWay, Typed, Flags, Numbered, At, Go, Runs, Stream, CommandLine, Counts,
          Outside, Loop, sinkVars, Fail
<1>4. CASE OnNext
  BY <1>4 DEF Counted, OnItsWay, Typed, Flags, Numbered, At, Go, Runs, Stream, CommandLine, Counts,
          Outside, Loop, sinkVars, OnNext, Unusable
<1>5. CASE Record
  <2>1. delivered' = delivered /\ pc["worker"] = "record" /\ pc'["worker"] = "idle"
    BY <1>5, RecordDoes DEF Typed, Flags
  <2>2. (recorded' = recorded + 1 /\ misused' = misused) \/ (recorded' = recorded /\ misused' = misused \cup {"file"})
    BY <1>5, RecordDoes, Zenon
  <2> QED  BY <2>1, <2>2 DEF Counted, OnItsWay, Typed, Numbered
<1>6. CASE OnEnd
  BY <1>6 DEF Counted, OnItsWay, Typed, Flags, Numbered, At, Go, Runs, Stream, CommandLine, Counts,
          Outside, Loop, sinkVars, OnEnd
<1>7. CASE Signal
  BY <1>7, Bounds DEF Counted, OnItsWay, Typed, Flags, Numbered, At, Go, Runs, Stream, CommandLine,
          Counts, Outside, Loop, sinkVars, Signal
<1>8. CASE Expire
  BY <1>8 DEF Counted, OnItsWay, Typed, Flags, Numbered, At, Go, Runs, Stream, CommandLine, Counts,
          Outside, Loop, sinkVars, Expire
<1>9. CASE StopClient
  BY <1>9, Bounds DEF Counted, OnItsWay, Typed, Flags, Numbered, At, Go, Runs, Stream, CommandLine,
          Counts, Outside, Loop, sinkVars, StopClient
<1>10. CASE Leave
  BY <1>10 DEF Counted, OnItsWay, Typed, Flags, Numbered, At, Go, Runs, Stream, CommandLine,
          Counts, Outside, Loop, sinkVars, Leave
<1>11. ASSUME NEW t \in Threads, Cancel(t) PROVE Counted'
  BY <1>11 DEF Counted, OnItsWay, Typed, Flags, Numbered, At, Go, Runs, Stream, CommandLine,
          Counts, Outside, Loop, sinkVars, Cancel
<1>12. ASSUME NEW t \in Threads, Reset(t) PROVE Counted'
  BY <1>12 DEF Counted, OnItsWay, Typed, Flags, Numbered, At, Go, Runs, Stream, CommandLine,
          Counts, Outside, Loop, sinkVars, Reset
<1>13. ASSUME NEW t \in Threads, Complete(t) PROVE Counted'
  BY <1>13 DEF Counted, OnItsWay, Typed, Flags, Numbered, At, Go, Runs, Stream, CommandLine,
          Counts, Outside, Loop, sinkVars, Complete, Completes
<1>14. ASSUME NEW t \in Threads, Drop(t) PROVE Counted'
  BY <1>14 DEF Counted, OnItsWay, Typed, Flags, Numbered, At, Go, Runs, Stream, CommandLine,
          Counts, Outside, Loop, sinkVars, Drop, Dropped
<1>15. ASSUME NEW t \in Threads, Post(t) PROVE Counted'
  BY <1>15 DEF Counted, OnItsWay, Typed, Flags, Numbered, At, Go, Runs, Stream, CommandLine,
          Counts, Outside, Loop, sinkVars, Post, Requested
<1>16. CASE UNCHANGED vars
  BY <1>16 DEF Counted, OnItsWay, Typed, Flags, Numbered, At, Go, Runs, Stream, CommandLine,
          Counts, Outside, Loop, sinkVars, vars
<1> QED  BY <1>1, <1>2, <1>3, <1>4, <1>5, <1>6, <1>7, <1>8, <1>9, <1>10, <1>11, <1>12, <1>13,
        <1>14, <1>15, <1>16, Zenon

\* A signal handler posts one request, the worker one at most.
LEMMA PostedKept ==
  ASSUME Typed, Posted, [Next]_vars
  PROVE  Posted'
<1> USE DEF Threads, Steps
<1>1. \/ Deliver \/ Fail \/ OnNext \/ Record \/ OnEnd \/ Signal \/ Expire \/ StopClient \/ Leave
      \/ \E t \in Threads : Cancel(t) \/ Reset(t) \/ Complete(t) \/ Drop(t) \/ Post(t)
      \/ UNCHANGED vars
  BY ToolSteps
<1>2. CASE Deliver
  BY <1>2 DEF Posted, HandlerOwes, WorkerOwes, Typed, Flags, Numbered, At, Go, Runs, Stream,
          CommandLine, Counts, Outside, Loop, sinkVars, Deliver
<1>3. CASE Fail
  BY <1>3 DEF Posted, HandlerOwes, WorkerOwes, Typed, Flags, Numbered, At, Go, Runs, Stream,
          CommandLine, Counts, Outside, Loop, sinkVars, Fail
<1>4. CASE OnNext
  BY <1>4 DEF Posted, HandlerOwes, WorkerOwes, Typed, Flags, Numbered, At, Go, Runs, Stream,
          CommandLine, Counts, Outside, Loop, sinkVars, OnNext, Unusable
<1>5. CASE Record
  <2>1. /\ pc["worker"] = "record" /\ pc'["worker"] = "idle" /\ pc'["main"] = pc["main"]
        /\ UNCHANGED <<leaving, signals, requests>>
    BY <1>5, RecordDoes DEF Typed, Flags, Outside, Loop
  <2>2. HandlerOwes' = HandlerOwes /\ WorkerOwes' = 1 /\ WorkerOwes = 1
    BY <2>1 DEF HandlerOwes, WorkerOwes
  <2> QED  BY <2>1, <2>2, Zenon DEF Posted
<1>6. CASE OnEnd
  BY <1>6 DEF Posted, HandlerOwes, WorkerOwes, Typed, Flags, Numbered, At, Go, Runs, Stream,
          CommandLine, Counts, Outside, Loop, sinkVars, OnEnd
<1>7. CASE Signal
  <2>1. /\ pc["main"] = "idle" /\ pc'["main"] = "cancel" /\ pc'["worker"] = pc["worker"]
        /\ leaving' = leaving /\ requests' = requests /\ signals' = signals + 1
    BY <1>7, Goes DEF Signal, At, Loop, Typed, Flags
  <2>2. HandlerOwes = 0 /\ (HandlerOwes' = 0 \/ HandlerOwes' = 1) /\ WorkerOwes' = WorkerOwes
    BY <2>1 DEF HandlerOwes, WorkerOwes
  <2>3. WorkerOwes \in Nat
    BY DEF WorkerOwes
  <2>4. requests' + HandlerOwes' + WorkerOwes' <= signals' + 1
    BY <2>1, <2>2, <2>3 DEF Posted, Typed, Numbered
  <2> QED  BY <2>1, <2>4 DEF Posted
<1>8. CASE Expire
  BY <1>8 DEF Posted, HandlerOwes, WorkerOwes, Typed, Flags, Numbered, At, Go, Runs, Stream,
          CommandLine, Counts, Outside, Loop, sinkVars, Expire
<1>9. CASE StopClient
  <2>1. leaving' = leaving /\ signals' = signals /\ requests > 0 /\ requests' = requests - 1 /\ pc' = pc
    BY <1>9, Zenon DEF StopClient, Outside
  <2>2. HandlerOwes' = HandlerOwes /\ WorkerOwes' = WorkerOwes /\ HandlerOwes \in Nat /\ WorkerOwes \in Nat
    BY <2>1 DEF HandlerOwes, WorkerOwes
  <2>3. requests' + HandlerOwes' + WorkerOwes' <= signals' + 1
    BY <2>1, <2>2 DEF Posted, Typed, Numbered
  <2> QED  BY <2>1, <2>3 DEF Posted
<1>10. CASE Leave
  BY <1>10 DEF Posted, HandlerOwes, WorkerOwes, Typed, Flags, Numbered, At, Go, Runs, Stream,
          CommandLine, Counts, Outside, Loop, sinkVars, Leave
<1>11. ASSUME NEW t \in Threads, Cancel(t) PROVE Posted'
  BY <1>11, Bounds DEF Posted, HandlerOwes, WorkerOwes, Typed, Flags, Numbered, At, Go, Runs,
          Stream, CommandLine, Counts, Outside, Loop, sinkVars, Cancel
<1>12. ASSUME NEW t \in Threads, Reset(t) PROVE Posted'
  BY <1>12, Bounds DEF Posted, HandlerOwes, WorkerOwes, Typed, Flags, Numbered, At, Go, Runs,
          Stream, CommandLine, Counts, Outside, Loop, sinkVars, Reset
<1>13. ASSUME NEW t \in Threads, Complete(t) PROVE Posted'
  BY <1>13, Bounds DEF Posted, HandlerOwes, WorkerOwes, Typed, Flags, Numbered, At, Go, Runs,
          Stream, CommandLine, Counts, Outside, Loop, sinkVars, Complete, Completes
<1>14. ASSUME NEW t \in Threads, Drop(t) PROVE Posted'
  BY <1>14, Bounds DEF Posted, HandlerOwes, WorkerOwes, Typed, Flags, Numbered, At, Go, Runs,
          Stream, CommandLine, Counts, Outside, Loop, sinkVars, Drop, Dropped
<1>15. ASSUME NEW t \in Threads, Post(t) PROVE Posted'
  <2>1. pc[t] = "post" /\ leaving' = leaving /\ signals' = signals
    BY <1>15, Zenon DEF Post, At, Outside
  <2>2. CASE t = "main" /\ leaving
    <3>1. Go("main", "gone") /\ requests' = requests
      BY <1>15, <2>2, Zenon DEF Post
    <3>2. pc'["main"] = "gone" /\ pc'["worker"] = pc["worker"]
      BY <3>1, Goes DEF Typed, Flags
    <3>3. HandlerOwes' = HandlerOwes /\ WorkerOwes' = WorkerOwes
      BY <2>1, <2>2, <3>2 DEF HandlerOwes, WorkerOwes
    <3> QED  BY <2>1, <2>2, <3>1, <3>2, <3>3, Zenon DEF Posted
  <2>3. CASE t = "main" /\ ~leaving
    <3>1. Go("main", "idle") /\ requests' = requests + 1
      BY <1>15, <2>3 DEF Post, Requested
    <3>2. pc'["main"] = "idle" /\ pc'["worker"] = pc["worker"]
      BY <3>1, Goes DEF Typed, Flags
    <3>3. HandlerOwes' = 0 /\ HandlerOwes = 1 /\ WorkerOwes' = WorkerOwes /\ WorkerOwes \in Nat
      BY <2>1, <2>3, <3>2 DEF HandlerOwes, WorkerOwes
    <3>4. requests' + HandlerOwes' + WorkerOwes' <= signals' + 1
      BY <2>1, <3>1, <3>3 DEF Posted, Typed, Numbered
    <3> QED  BY <3>2, <3>4 DEF Posted
  <2>4. CASE t = "worker"
    <3>1. Go("worker", "gone") /\ requests' = requests + 1
      BY <1>15, <2>4 DEF Post, Requested
    <3>2. pc'["worker"] = "gone" /\ pc'["main"] = pc["main"]
      BY <3>1, Goes DEF Typed, Flags
    <3>3. HandlerOwes' = HandlerOwes /\ HandlerOwes \in Nat /\ WorkerOwes' = 0 /\ WorkerOwes = 1
      BY <2>1, <2>4, <3>2 DEF HandlerOwes, WorkerOwes
    <3>4. requests' + HandlerOwes' + WorkerOwes' <= signals' + 1
      BY <2>1, <3>1, <3>3 DEF Posted, Typed, Numbered
    <3> QED  BY <2>1, <3>2, <3>4, Zenon DEF Posted
  <2> QED  BY <2>2, <2>3, <2>4
<1>16. CASE UNCHANGED vars
  BY <1>16 DEF Posted, HandlerOwes, WorkerOwes, Typed, Flags, Numbered, At, Go, Runs, Stream,
          CommandLine, Counts, Outside, Loop, sinkVars, vars
<1> QED  BY <1>1, <1>2, <1>3, <1>4, <1>5, <1>6, <1>7, <1>8, <1>9, <1>10, <1>11, <1>12, <1>13,
        <1>14, <1>15, <1>16, Zenon

\* The file is closed before anybody is told that it is.
LEMMA ClosedFirstKept ==
  ASSUME Typed, ClosedFirst, [Next]_vars
  PROVE  ClosedFirst'
<1> USE DEF Threads, Steps
<1>1. \/ Deliver \/ Fail \/ OnNext \/ Record \/ OnEnd \/ Signal \/ Expire \/ StopClient \/ Leave
      \/ \E t \in Threads : Cancel(t) \/ Reset(t) \/ Complete(t) \/ Drop(t) \/ Post(t)
      \/ UNCHANGED vars
  BY ToolSteps
<1>2. CASE Deliver
  BY <1>2 DEF ClosedFirst, Typed, Flags, Numbered, At, Go, Runs, Stream, CommandLine, Counts,
          Outside, Loop, sinkVars, Deliver
<1>3. CASE Fail
  BY <1>3 DEF ClosedFirst, Typed, Flags, Numbered, At, Go, Runs, Stream, CommandLine, Counts,
          Outside, Loop, sinkVars, Fail
<1>4. CASE OnNext
  BY <1>4 DEF ClosedFirst, Typed, Flags, Numbered, At, Go, Runs, Stream, CommandLine, Counts,
          Outside, Loop, sinkVars, OnNext, Unusable
<1>5. CASE Record
  BY <1>5, RecordDoes DEF ClosedFirst, Typed, Flags, Numbered, At, Go, Runs, Stream, CommandLine,
          Counts, Outside, Loop, sinkVars
<1>6. CASE OnEnd
  BY <1>6 DEF ClosedFirst, Typed, Flags, Numbered, At, Go, Runs, Stream, CommandLine, Counts,
          Outside, Loop, sinkVars, OnEnd
<1>7. CASE Signal
  BY <1>7, Bounds DEF ClosedFirst, Typed, Flags, Numbered, At, Go, Runs, Stream, CommandLine,
          Counts, Outside, Loop, sinkVars, Signal
<1>8. CASE Expire
  BY <1>8 DEF ClosedFirst, Typed, Flags, Numbered, At, Go, Runs, Stream, CommandLine, Counts,
          Outside, Loop, sinkVars, Expire
<1>9. CASE StopClient
  BY <1>9, Bounds DEF ClosedFirst, Typed, Flags, Numbered, At, Go, Runs, Stream, CommandLine,
          Counts, Outside, Loop, sinkVars, StopClient
<1>10. CASE Leave
  BY <1>10 DEF ClosedFirst, Typed, Flags, Numbered, At, Go, Runs, Stream, CommandLine, Counts,
          Outside, Loop, sinkVars, Leave
<1>11. ASSUME NEW t \in Threads, Cancel(t) PROVE ClosedFirst'
  BY <1>11 DEF ClosedFirst, Typed, Flags, Numbered, At, Go, Runs, Stream, CommandLine, Counts,
          Outside, Loop, sinkVars, Cancel
<1>12. ASSUME NEW t \in Threads, Reset(t) PROVE ClosedFirst'
  BY <1>12 DEF ClosedFirst, Typed, Flags, Numbered, At, Go, Runs, Stream, CommandLine, Counts,
          Outside, Loop, sinkVars, Reset
<1>13. ASSUME NEW t \in Threads, Complete(t) PROVE ClosedFirst'
  BY <1>13 DEF ClosedFirst, Typed, Flags, Numbered, At, Go, Runs, Stream, CommandLine, Counts,
          Outside, Loop, sinkVars, Complete, Completes
<1>14. ASSUME NEW t \in Threads, Drop(t) PROVE ClosedFirst'
  BY <1>14 DEF ClosedFirst, Typed, Flags, Numbered, At, Go, Runs, Stream, CommandLine, Counts,
          Outside, Loop, sinkVars, Drop, Dropped
<1>15. ASSUME NEW t \in Threads, Post(t) PROVE ClosedFirst'
  BY <1>15 DEF ClosedFirst, Typed, Flags, Numbered, At, Go, Runs, Stream, CommandLine, Counts,
          Outside, Loop, sinkVars, Post, Requested
<1>16. CASE UNCHANGED vars
  BY <1>16 DEF ClosedFirst, Typed, Flags, Numbered, At, Go, Runs, Stream, CommandLine, Counts,
          Outside, Loop, sinkVars, vars
<1> QED  BY <1>1, <1>2, <1>3, <1>4, <1>5, <1>6, <1>7, <1>8, <1>9, <1>10, <1>11, <1>12, <1>13,
        <1>14, <1>15, <1>16, Zenon

\* Without a signal the threads take turns.
LEMMA CalmKept ==
  ASSUME Typed, Posted, ClosedFirst, Calm, [Next]_vars
  PROVE  Calm'
<1> USE DEF Threads, Steps
<1>1. \/ Deliver \/ Fail \/ OnNext \/ Record \/ OnEnd \/ Signal \/ Expire \/ StopClient \/ Leave
      \/ \E t \in Threads : Cancel(t) \/ Reset(t) \/ Complete(t) \/ Drop(t) \/ Post(t)
      \/ UNCHANGED vars
  BY ToolSteps
<1>2. CASE Deliver
  BY <1>2 DEF Calm, Stopped, WorkerOwes, ClosedFirst, Typed, Flags, Numbered, At, Go, Runs, Stream,
          CommandLine, Counts, Outside, Loop, sinkVars, Deliver
<1>3. CASE Fail
  BY <1>3 DEF Calm, Stopped, WorkerOwes, ClosedFirst, Typed, Flags, Numbered, At, Go, Runs, Stream,
          CommandLine, Counts, Outside, Loop, sinkVars, Fail
<1>4. CASE OnNext
  BY <1>4 DEF Calm, Stopped, WorkerOwes, ClosedFirst, Typed, Flags, Numbered, At, Go, Runs, Stream,
          CommandLine, Counts, Outside, Loop, sinkVars, OnNext, Unusable
<1>5. CASE Record
  BY <1>5, RecordDoes DEF Calm, Stopped, WorkerOwes, ClosedFirst, Typed, Flags, Numbered, At, Go,
          Runs, Stream, CommandLine, Counts, Outside, Loop, sinkVars
<1>6. CASE OnEnd
  BY <1>6 DEF Calm, Stopped, WorkerOwes, ClosedFirst, Typed, Flags, Numbered, At, Go, Runs, Stream,
          CommandLine, Counts, Outside, Loop, sinkVars, OnEnd
<1>7. CASE Signal
  <2>1. signals' = signals + 1
    BY <1>7 DEF Signal
  <2>2. signals' # 0
    BY <2>1 DEF Typed, Numbered
  <2> QED  BY <2>2 DEF Calm
<1>8. CASE Expire
  BY <1>8 DEF Calm, Stopped, WorkerOwes, ClosedFirst, Typed, Flags, Numbered, At, Go, Runs, Stream,
          CommandLine, Counts, Outside, Loop, sinkVars, Expire
<1>9. CASE StopClient
  <2>1. /\ UNCHANGED <<leaving, signals, input, pc, subscription, sink, file, misused>> /\ pc["main"] = "idle"
        /\ requests > 0 /\ requests' = requests - 1 /\ failed = ""
        /\ IF client = "running" THEN client' = "stopped" /\ failed' = "" ELSE failed' = "stop" /\ client' = client
    BY <1>9, Zenon DEF StopClient, Outside, Stream, CommandLine, At, Runs
  <2> SUFFICES ASSUME signals = 0 PROVE Calm'
    BY <2>1 DEF Calm
  <2>2. requests + Stopped + WorkerOwes = 1 /\ WorkerOwes \in Nat /\ Stopped \in Nat /\ requests \in Nat
    BY DEF Calm, Stopped, WorkerOwes, Typed, Numbered
  <2>7. requests > 0 /\ requests' = requests - 1
    BY <2>1
  <2>3. client = "running"
    <3> SUFFICES ASSUME client # "running" PROVE FALSE
      OBVIOUS
    <3>1. Stopped = 1
      BY DEF Stopped, Typed, Flags
    <3> QED  BY <2>7, <2>2, <3>1
  <2>4. client' = "stopped" /\ failed' = ""
    BY <2>1, <2>3
  <2>5. Stopped = 0 /\ Stopped' = 1 /\ WorkerOwes' = WorkerOwes
    BY <2>1, <2>3, <2>4 DEF Stopped, WorkerOwes
  <2>6. requests' + Stopped' + WorkerOwes' = 1
    BY <2>7, <2>2, <2>5
  <2> QED  BY <2>1, <2>4, <2>6, Zenon DEF Calm
<1>10. CASE Leave
  BY <1>10 DEF Calm, Stopped, WorkerOwes, ClosedFirst, Typed, Flags, Numbered, At, Go, Runs,
          Stream, CommandLine, Counts, Outside, Loop, sinkVars, Leave
<1>11. ASSUME NEW t \in Threads, Cancel(t) PROVE Calm'
  BY <1>11, Bounds DEF Calm, Stopped, WorkerOwes, ClosedFirst, Typed, Flags, Numbered, At, Go,
          Runs, Stream, CommandLine, Counts, Outside, Loop, sinkVars, Cancel
<1>12. ASSUME NEW t \in Threads, Reset(t) PROVE Calm'
  BY <1>12, Bounds DEF Calm, Stopped, WorkerOwes, ClosedFirst, Typed, Flags, Numbered, At, Go,
          Runs, Stream, CommandLine, Counts, Outside, Loop, sinkVars, Reset
<1>13. ASSUME NEW t \in Threads, Complete(t) PROVE Calm'
  <2>1. /\ UNCHANGED <<leaving, signals, input, subscription, sink, client, requests, failed>> /\ pc[t] = "complete"
        /\ \/ /\ sink /\ Go(t, "drop")
              /\ \/ file = "open" /\ misused' = misused
                 \/ file # "open" /\ misused' = misused \cup {"file"}
           \/ ~sink /\ Go(t, "post") /\ misused' = misused /\ file' = file
    BY <1>13, Zenon DEF Complete, Completes, Outside, Loop, CommandLine, At
  <2> SUFFICES ASSUME signals = 0 PROVE Calm'
    BY <2>1 DEF Calm
  <2>2. CASE t = "main"
    <3>1. leaving /\ client = "stopped"
      BY <2>1, <2>2 DEF Calm
    <3>2. pc["worker"] = "gone"
      <4>1. requests + Stopped + WorkerOwes = 1 /\ requests \in Nat
        BY DEF Calm, Typed, Numbered
      <4>2. Stopped = 1 /\ (WorkerOwes = 0 \/ WorkerOwes = 1)
        BY <3>1 DEF Stopped, WorkerOwes
      <4>3. WorkerOwes # 1
        BY <4>1, <4>2
      <4> QED  BY <4>3 DEF WorkerOwes
    <3>3. ~sink /\ Go("main", "post") /\ misused' = misused /\ file' = file
      BY <2>1, <2>2, <3>2 DEF Calm
    <3>4. pc'["worker"] = pc["worker"]
      BY <3>3, Goes DEF Typed, Flags
    <3>5. Stopped' = Stopped /\ WorkerOwes' = WorkerOwes
      BY <2>1, <3>4 DEF Stopped, WorkerOwes
    <3> QED  BY <2>1, <3>1, <3>3, <3>4, <3>5, Zenon DEF Calm
  <2>3. CASE t = "worker"
    <3>1. file = "open" /\ pc["worker"] = "complete"
      BY <2>1, <2>3 DEF Calm
    <3>2. sink
      BY <3>1 DEF ClosedFirst
    <3>3. Go("worker", "drop") /\ misused' = misused
      BY <2>1, <2>3, <3>1, <3>2
    <3>4. pc'["worker"] = "drop" /\ pc'["main"] = pc["main"]
      BY <3>3, Goes DEF Typed, Flags
    <3>5. Stopped' = Stopped /\ WorkerOwes' = WorkerOwes
      BY <2>1, <3>1, <3>4 DEF Stopped, WorkerOwes
    <3> QED  BY <2>1, <3>3, <3>4, <3>5 DEF Calm
  <2> QED  BY <2>2, <2>3
<1>14. ASSUME NEW t \in Threads, Drop(t) PROVE Calm'
  BY <1>14, Bounds DEF Calm, Stopped, WorkerOwes, ClosedFirst, Typed, Flags, Numbered, At, Go,
          Runs, Stream, CommandLine, Counts, Outside, Loop, sinkVars, Drop, Dropped
<1>15. ASSUME NEW t \in Threads, Post(t) PROVE Calm'
  <2>1. /\ UNCHANGED <<leaving, signals, input, subscription, sink, file, misused, client, failed>> /\ pc[t] = "post"
        /\ \/ t = "main" /\ leaving /\ Go("main", "gone") /\ requests' = requests
           \/ t = "main" /\ ~leaving
           \/ t = "worker" /\ Go("worker", "gone") /\ requests' = requests + 1
    BY <1>15 DEF Post, Requested, Outside, Stream, CommandLine, At
  <2> SUFFICES ASSUME signals = 0 PROVE Calm'
    BY <2>1 DEF Calm
  <2>2. CASE t = "main"
    <3>1. leaving /\ pc["main"] = "post"
      BY <2>1, <2>2 DEF Calm
    <3>2. Go("main", "gone") /\ requests' = requests
      BY <2>1, <2>2, <3>1
    <3>3. pc'["main"] = "gone" /\ pc'["worker"] = pc["worker"]
      BY <3>2, Goes DEF Typed, Flags
    <3>4. Stopped' = Stopped /\ WorkerOwes' = WorkerOwes
      BY <2>1, <3>3 DEF Stopped, WorkerOwes
    <3> QED  BY <2>1, <3>1, <3>2, <3>3, <3>4, Zenon DEF Calm
  <2>3. CASE t = "worker"
    <3>1. Go("worker", "gone") /\ requests' = requests + 1
      BY <2>1, <2>3
    <3>2. pc'["worker"] = "gone" /\ pc'["main"] = pc["main"]
      BY <3>1, Goes DEF Typed, Flags
    <3>3. ~sink
      <4> SUFFICES ASSUME sink PROVE FALSE
        OBVIOUS
      <4> QED  BY <2>1, <2>3 DEF Calm
    <3>4. Stopped' = Stopped /\ WorkerOwes' = 0 /\ WorkerOwes = 1 /\ Stopped \in Nat
      BY <2>1, <2>3, <3>2 DEF Stopped, WorkerOwes
    <3>5. requests + Stopped + WorkerOwes = 1 /\ requests \in Nat
      BY DEF Calm, Typed, Numbered
    <3>6. requests' + Stopped' + WorkerOwes' = 1
      BY <3>1, <3>4, <3>5
    <3> QED  BY <2>1, <3>2, <3>3, <3>6, Zenon DEF Calm
  <2> QED  BY <2>2, <2>3
<1>16. CASE UNCHANGED vars
  BY <1>16 DEF Calm, Stopped, WorkerOwes, ClosedFirst, Typed, Flags, Numbered, At, Go, Runs,
          Stream, CommandLine, Counts, Outside, Loop, sinkVars, vars
<1> QED  BY <1>1, <1>2, <1>3, <1>4, <1>5, <1>6, <1>7, <1>8, <1>9, <1>10, <1>11, <1>12, <1>13,
        <1>14, <1>15, <1>16, Zenon

\* The file is written while it is open, and has its name when it is closed.
LEMMA FilesWaitKept ==
  ASSUME Typed, Counted, FilesWait, [Next]_vars
  PROVE  FilesWait'
<1>1. \/ Deliver \/ Fail \/ OnNext \/ Record \/ OnEnd \/ Signal \/ Expire \/ StopClient \/ Leave
      \/ \E t \in Threads : Cancel(t) \/ Reset(t) \/ Complete(t) \/ Drop(t) \/ Post(t)
      \/ UNCHANGED vars
  BY ToolSteps
<1>2. ASSUME UNCHANGED <<sinkVars, file>> PROVE FilesWait'
  <2>1. Filed'
    BY <1>2 DEF sinkVars, FilesWait, Filed, SegmentsOf, WriterIsLast, Whole, CutAtKeys, Files,
            Segment, IsFile, InARow,
                Uncut, Past, NoZero, NameOf, Last, Holds
  <2> QED  BY <1>2, <2>1 DEF sinkVars, FilesWait, Opened
<1>3. CASE Deliver \/ Fail \/ OnNext \/ OnEnd \/ Signal \/ Expire \/ StopClient \/ Leave \/ UNCHANGED vars
  <2>1. UNCHANGED <<sinkVars, file>>
    BY <1>3, Zenon DEF Deliver, Fail, OnNext, OnEnd, Signal, Expire, StopClient, Leave, Stream, vars
  <2> QED  BY <1>2, <2>1
<1>4. ASSUME NEW t \in Threads, Cancel(t) \/ Reset(t) \/ Drop(t) \/ Post(t) PROVE FilesWait'
  <2>1. UNCHANGED <<sinkVars, file>>
    BY <1>4, Zenon DEF Cancel, Reset, Drop, Post, Stream
  <2> QED  BY <1>2, <2>1
<1>5. ASSUME NEW t \in Threads, Complete(t) PROVE FilesWait'
  <2>1. CASE UNCHANGED <<sinkVars, file>>
    BY <1>2, <2>1
  <2>2. CASE file' = "closed" /\ SinkDelete
    BY <2>2, DeleteKept DEF FilesWait
  <2> QED  BY <1>5, <2>1, <2>2, Zenon DEF Complete
<1>6. CASE Record
  <2>1. file' = file
    BY <1>6, Zenon DEF Record
  <2>2. CASE UNCHANGED sinkVars
    BY <1>2, <2>1, <2>2
  <2>3. CASE file = "open" /\ SinkMetadata
    <3>1. /\ decoder' \in {"none", "fed", "sized"} /\ (begun > 0 => decoder' = "sized")
          /\ UNCHANGED <<segment, writer, saved, frames, begun>>
      BY <2>3 DEF SinkMetadata, FilesWait, Filed, SegmentsOf
    <3>2. SegmentsOf'
      BY <3>1 DEF FilesWait, Filed, SegmentsOf, Files, Segment, IsFile, InARow, Uncut, Past, NameOf, Last
    <3>3. (WriterIsLast /\ Whole /\ CutAtKeys)'
      BY <3>1 DEF FilesWait, Filed, WriterIsLast, Whole, CutAtKeys, Files, Past, NoZero, Last, Holds
    <3> QED  BY <2>1, <2>3, <3>1, <3>2, <3>3 DEF FilesWait, Filed, Opened
  <2>4. ASSUME NEW key \in BOOLEAN, NEW told \in BOOLEAN, file = "open", SinkFrame(Times[delivered], key, told)
        PROVE  FilesWait'
    <3>1. pc["worker"] = "record"
      BY <1>6, RecordDoes
    <3>2. OnItsWay = 1
      BY <3>1 DEF OnItsWay
    <3>3. delivered \in 1..Frames
      BY <3>2, Bounds DEF Counted, Typed, Numbered
    <3>4. Times[delivered] \in Nat
      BY <3>3, Bounds
    <3>5. Filed' /\ Opened'
      BY <2>4, <3>4, FrameKept DEF FilesWait
    <3> QED  BY <2>1, <2>4, <3>5 DEF FilesWait
  <2> QED  BY <1>6, <2>2, <2>3, <2>4, Zenon DEF Record
<1> QED  BY <1>1, <1>3, <1>4, <1>5, <1>6, Zenon

\* The tool begins with no file and both threads idle.
LEMMA InitTool ==
  ASSUME Init
  PROVE  Tool
<1>1. /\ segment \in Durations /\ decoder = "none" /\ writer = {} /\ saved = {} /\ frames = 0 /\ begun = 0
      /\ pc = [t \in Threads |-> "idle"] /\ subscription = TRUE /\ sink = TRUE /\ file = "open"
      /\ delivered = 0 /\ recorded = 0 /\ leaving = FALSE /\ signals = 0 /\ requests = 0 /\ client = "running"
      /\ misused = {} /\ failed = IF input = "channel" THEN "" ELSE "connect"
  BY DEF Init, SinkInit
<1>11. delivered = 0 /\ recorded = 0 /\ signals = 0 /\ requests = 0 /\ misused = {} /\ client = "running"
  BY <1>1
<1>2. Files = {}
  BY <1>1 DEF Files
<1>3. FilesWait
  <2>1. /\ segment \in Durations /\ decoder = "none" /\ writer = {} /\ saved = {} /\ frames = 0 /\ begun = 0
        /\ file = "open"
    BY <1>1
  <2> QED  BY <1>2, <2>1 DEF FilesWait, Filed, SegmentsOf, WriterIsLast, Whole, CutAtKeys, Opened
<1>4. pc["worker"] = "idle" /\ pc["main"] = "idle" /\ pc \in [Threads -> Steps]
  BY <1>1 DEF Threads, Steps
<1>5. Flags
  BY <1>1, <1>4 DEF Init, Flags
<1>6. Numbered
  BY <1>11, Bounds DEF Numbered
<1>7. Counted
  BY <1>4, <1>11 DEF Counted, OnItsWay
<1>8. Posted
  <2>1. HandlerOwes = 0 /\ WorkerOwes = 1
    BY <1>4 DEF HandlerOwes, WorkerOwes
  <2> QED  BY <1>4, <1>11, <2>1 DEF Posted
<1>9. ClosedFirst
  <2>1. ~(requests > 0) /\ ~(client = "stopped")
    BY <1>11
  <2>2. \A t \in Threads : pc[t] \notin {"drop", "post"}
    BY <1>1
  <2> QED  BY <1>1, <2>1, <2>2, Zenon DEF ClosedFirst
<1>10. Calm
  <2>1. Stopped = 0 /\ WorkerOwes = 1
    BY <1>1, <1>4 DEF Stopped, WorkerOwes
  <2>2. requests + Stopped + WorkerOwes = 1
    BY <1>11, <2>1
  <2>3. input = "channel" => failed = ""
    BY <1>1
  <2> QED  BY <1>1, <1>4, <2>2, <2>3 DEF Calm
<1> QED  BY <1>3, <1>5, <1>6, <1>7, <1>8, <1>9, <1>10 DEF Tool, Typed

\* The inductive invariant of the recorder: what its files hold, where each packet is,
\* who has closed the file and who will still ask the client to stop.
THEOREM InductiveInvariant == Spec => []Tool
<1>1. Init => Tool
  BY InitTool
<1>2. Tool /\ [Next]_vars => Tool'
  BY TypedKept, CountedKept, PostedKept, FilesWaitKept, ClosedFirstKept, CalmKept DEF Tool
<1> QED  BY <1>1, <1>2, PTL DEF Spec

\* Whatever the segments' duration, and however the timestamps run: once the first file
\* is open no frame is lost by a cut or a rename, each file starts with a key frame, and
\* is cut at the first key frame that is due (video_file_sink).
THEOREM SegmentsAreSound == Spec => []FilesAreSound
<1>1. Tool => FilesAreSound
  BY SoundFiles DEF Tool, FilesWait
<1> QED  BY <1>1, InductiveInvariant, PTL

\* A packet that was delivered is in the file, on its way, or has stopped the program:
\* video_stream's CHECKs see to it for any number of signals.
THEOREM NoPacketSwallowed == Spec => []NoneSwallowed
<1>1. Tool => NoneSwallowed
  BY DEF Tool, Counted, OnItsWay, NoneSwallowed
<1> QED  BY <1>1, InductiveInvariant, PTL

\* The types; the CHECKs that hold when no signal comes; the file that is finished once,
\* and before the client is stopped, whoever calls stop() first and however often.
THEOREM Safe == Spec => []Safety
<1>1. Tool => TypeOK
  <2> SUFFICES ASSUME Tool PROVE TypeOK
    OBVIOUS
  <2>1. SinkTypeOK
    BY SoundFiles DEF Tool, FilesWait
  <2>2. recorded \in 0..delivered
    <3>1. OnItsWay \in Nat
      BY DEF OnItsWay
    <3> QED  BY <3>1 DEF Tool, Counted, Typed, Numbered
  <2>3. requests \in 0..Signals + 1
    <3>1. HandlerOwes \in Nat /\ WorkerOwes \in Nat
      BY DEF HandlerOwes, WorkerOwes
    <3> QED  BY <3>1, Bounds DEF Tool, Posted, Typed, Numbered
  <2>4. Flags /\ delivered \in 0..Frames /\ signals \in 0..Signals
    BY DEF Tool, Typed, Numbered
  <2> QED  BY <2>1, <2>2, <2>3, <2>4, Zenon DEF TypeOK, Flags
<1>2. Tool => NoCheckFails /\ FileIsFinishedOnce
  BY DEF Tool, Calm, NoCheckFails, FileIsFinishedOnce
<1>3. Tool => FileIsFinished
  BY DEF Tool, ClosedFirst, FilesWait, FileIsFinished
<1> QED  BY <1>1, <1>2, <1>3, InductiveInvariant, PTL DEF Safety

=============================================================================
