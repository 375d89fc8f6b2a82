---------------------------- MODULE VideoFileSink ----------------------------
(***************************************************************************)
(* video_file_sink, the recorder's file: it waits for metadata, feeds its  *)
(* decoder until that tells the size of the image, opens a file under a    *)
(* temporary name at the next key frame, cuts it at the first key frame    *)
(* past the segment's duration and renames it to what it covers.           *)
(*                                                                         *)
(* A frame is its number, its timestamp and whether it is a key frame; the *)
(* libraries' part is the size, which a frame may tell or not, and the     *)
(* muxer, which refuses a timestamp before the last one of its file.       *)
(* A boost::optional is a set of at most one element.                      *)
(***************************************************************************)
EXTENDS Naturals, Sequences

CONSTANT Durations   \* values of --segment-duration: {} when it is not given

ASSUME VideoFileSinkAssumption ==
  \A d \in Durations : d \subseteq Nat /\ \A a, b \in d : a = b

VARIABLES
  segment,   \* _segment_duration
  decoder,   \* "none", "fed", "sized": _decoder and its stream_image_size
  writer,    \* _file_writer: at most one sequence of frames
  saved,     \* the renamed files: their frames by name
  frames,    \* frames seen
  begun      \* history: the frame that opened the first file, 0 before

sinkVars == <<segment, decoder, writer, saved, frames, begun>>

Frame == [no : Nat, ts : Nat, key : BOOLEAN]

SinkTypeOK ==
  /\ segment \in Durations /\ decoder \in {"none", "fed", "sized"} /\ frames \in Nat
  /\ begun \in 0..frames
  /\ \A f \in writer : f \in Seq(Frame) /\ f # <<>>
  /\ \A s \in saved : s.frames \in Seq(Frame) /\ s.frames # <<>>

SinkInit ==
  /\ segment \in Durations
  /\ decoder = "none" /\ writer = {} /\ saved = {} /\ frames = 0 /\ begun = 0

Last(f) == f[Len(f)]

\* slip: every segment gets the one name
NameOf_Plain(f) == <<>>

\* current_filename: the path itself, or with the times of the segment
NameOf(f) == IF segment = {} THEN <<>> ELSE <<f[1].ts, Last(f).ts>>

\* slip: a file that is not finished is not looked for
Released_Not(ws) == saved

\* release_writer: rename replaces a file of that name
Released(ws) ==
  {s \in saved : \A f \in ws : s.name # NameOf(f)}
    \cup {[name |-> NameOf(f), frames |-> f] : f \in ws}

\* slips: cut at any frame; count the duration from the last frame; never cut
Due_Any(f, x) == \E d \in segment : x.ts >= f[1].ts + d
Due_FromLast(f, x) == x.key /\ \E d \in segment : x.ts >= Last(f).ts + d
Due_Never(f, x) == FALSE

Due(f, x) == x.key /\ \E d \in segment : x.ts >= f[1].ts + d

\* slip: a file is opened at any frame
Opens_Any(x) == TRUE

Opens(x) == x.key

\* a video_file_writer that has written its header
NewFile == <<>>

\* the file x is written to, if there is one: the open file unless it is cut,
\* a new one at a key frame
Target(x) ==
  LET open == {f \in writer : ~Due(f, x)} IN
  IF open # {} THEN open ELSE IF Opens(x) THEN {NewFile} ELSE {}

Refused(f, x) == f # <<>> /\ x.ts < Last(f).ts

\* operator()(encoded_metadata): the first is kept
SinkMetadata ==
  /\ decoder' = IF decoder = "none" THEN "fed" ELSE decoder
  /\ UNCHANGED <<segment, writer, saved, frames, begun>>

\* operator()(encoded_frame): told is whether the decoder has the size now
SinkFrame(ts, key, told) ==
  LET x == [no |-> frames + 1, ts |-> ts, key |-> key]
      sized == decoder = "sized" \/ (decoder = "fed" /\ told)
  IN /\ frames' = frames + 1
     /\ decoder' = IF sized THEN "sized" ELSE decoder
     /\ IF sized
        THEN /\ saved' = Released({f \in writer : Due(f, x)})
             /\ writer' = {Append(f, x) : f \in Target(x)}
             /\ begun' = IF begun = 0 /\ Target(x) # {} THEN x.no ELSE begun
        ELSE UNCHANGED <<saved, writer, begun>>
     /\ UNCHANGED segment

\* write_frame CHECKs that the muxer took the frame
SinkAborts(ts, key, told) ==
  (decoder = "sized" \/ (decoder = "fed" /\ told)) /\
    \E f \in Target([no |-> frames + 1, ts |-> ts, key |-> key]) : Refused(f, [ts |-> ts])

\* the constructor and release_writer CHECK what the file system answers
SinkMayAbort(ts, key, told) ==
  LET x == [no |-> frames + 1, ts |-> ts, key |-> key] IN
  (decoder = "sized" \/ (decoder = "fed" /\ told)) /\ NewFile \in Target(x)

\* on_complete: delete this, whose destructor releases the writer
SinkDelete ==
  /\ saved' = Released(writer) /\ writer' = {}
  /\ UNCHANGED <<segment, decoder, frames, begun>>

(***************************************************************************)
(* Properties                                                              *)
(***************************************************************************)
Files == {s.frames : s \in saved} \cup writer
Numbers == UNION {{f[i].no : i \in 1..Len(f)} : f \in Files}

\* Once the first file is open no frame is lost, however the segments are cut
\* and named: the files hold the frames from that one to the last that came.
NothingIsLost ==
  begun > 0 /\ (\A d \in segment : d > 0) => Numbers = begun..frames

\* Every file can be played by itself: it starts with a key frame.
StartsWithKey == \A f \in Files : f[1].key

Past(f, x) == \E d \in segment : x.ts >= f[1].ts + d

\* A file is cut at the first key frame that is a segment's duration past its
\* start, and at no other frame.
CutInTime ==
  /\ \A f \in Files : \A i \in 2..Len(f) : f[i].key => ~Past(f, f[i])
  /\ \A f, g \in Files : g[1].no = Last(f).no + 1 => g[1].key /\ Past(f, g[1])

\* The segments, and the files on the disk.
FilesAreSound ==
  /\ NothingIsLost
  /\ StartsWithKey
  /\ CutInTime
=============================================================================
