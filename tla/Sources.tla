------------------------------ MODULE Sources ------------------------------
(***************************************************************************)
(* The sources of elements that interval() or delay() paces (Delay): the   *)
(* stateful generators of a video file, played once or in a loop, of the   *)
(* camera, and of a replay file's lines; and any other source.  A          *)
(* generator works inside request(): its drain calls generate_one until    *)
(* what was requested is delivered, and nothing else runs meanwhile.       *)
(*                                                                         *)
(* A frame is its id and its place in the file, which its timestamp is     *)
(* computed from; the libraries' part is what a call returns.              *)
(***************************************************************************)
EXTENDS Delay

CONSTANTS
  Kinds,     \* of "file", "loop", "camera", "replay" and "any"
  Length     \* bound: packets, or lines, of a file

ASSUME SourcesAssumption ==
  /\ Kinds \subseteq {"file", "loop", "camera", "replay", "any"}
  /\ Length \in Nat /\ Items > Length + 1

VARIABLES
  kind,
  opened,    \* _fmt_ctx or _format_context is set; the file of lines is good()
  place,     \* packets, or lines, read since the start of the file
  lastPos,   \* _last_pos
  newline,   \* the last line of the replay file ends in a newline
  content    \* history: what the elements sent are

sourceVars == <<kind, opened, place, lastPos, newline, content>>
allVars == <<vars, sourceVars>>

\* metadata has neither an id nor a time
Metadata == [id |-> Items + 1, ts |-> 0]

SourcesTypeOK ==
  /\ kind \in Kinds /\ opened \in BOOLEAN /\ place \in 0..Length /\ newline \in BOOLEAN
  /\ lastPos \in 0..Items /\ content \in Seq([id : 0..Items + 1, ts : 0..Length])

SourcesInit ==
  /\ Init /\ kind \in Kinds /\ newline \in BOOLEAN
  /\ opened \in {FALSE, kind = "replay"}
  /\ place = 0 /\ lastPos = 0 /\ content = <<>>

Generator == kind # "any"
\* inside request(): the drain loop goes on while needs() > 0
Draining == Generator /\ Alive /\ source.open /\ waiting > 0 /\ source.next <= Items

Frames == {"file", "loop", "camera"}
Sends(e) == OnNext /\ content' = Append(content, e)

\* slip: metadata is sent again when a file is played again
Rewound_Forgets == opened' = FALSE

Rewound == UNCHANGED opened

\* generate_one of a file or the camera, the first call: init, then metadata
Open ==
  /\ Draining /\ kind \in Frames /\ ~opened
  /\ opened' = TRUE /\ Sends(Metadata)
  /\ UNCHANGED <<kind, place, lastPos, newline>>

\* init fails; a codec that says "end of file" ends the stream of a file
OpenFails(how) ==
  /\ Draining /\ kind \in Frames /\ ~opened
  /\ how = "complete" => kind # "camera"
  /\ OnEnd(how)
  /\ UNCHANGED sourceVars

\* slip: packets of other streams count
Skipped_Counts == lastPos' = lastPos + 1

Skipped == UNCHANGED lastPos

AtEnd == place = Length /\ kind # "camera"
\* what comes in reach of the camera is not bounded by a file
Further == IF kind = "camera" THEN place ELSE place + 1

\* the camera's id is an interval that begins past the last one, here by its
\* begin; a file's is the number of the frame
FrameId == IF kind = "camera" THEN lastPos ELSE lastPos + 1

ReadFrame ==
  /\ Draining /\ kind \in Frames /\ opened /\ ~AtEnd
  /\ lastPos' = lastPos + 1 /\ place' = Further
  /\ Sends([id |-> FrameId, ts |-> place'])
  /\ UNCHANGED <<kind, opened, newline>>

\* a packet of another stream of the file: nothing is sent, the drain goes on
SkipPacket ==
  /\ Draining /\ kind \in {"file", "loop"} /\ opened /\ ~AtEnd
  /\ place' = place + 1 /\ Skipped
  /\ UNCHANGED <<vars, kind, opened, newline, content>>

\* slip: a file is played in a loop whether asked or not
Ends_Never == kind = "replay"

FileEnds == kind # "loop"

AtEof ==
  /\ Draining /\ opened /\ AtEnd /\ kind \in Frames
  /\ IF FileEnds THEN OnEnd("complete") /\ UNCHANGED <<place, opened>>
     ELSE place' = 0 /\ Rewound /\ UNCHANGED vars
  /\ UNCHANGED <<kind, lastPos, newline, content>>

\* slip: an error is taken for the end of the file
ReadErrorEnds_Complete == OnEnd("complete")

ReadErrorEnds == OnEnd("error")

\* av_read_frame, or the camera's decoder, fails
ReadError ==
  /\ Draining /\ opened /\ kind \in Frames
  /\ ReadErrorEnds
  /\ UNCHANGED sourceVars

\* a line; to read the last one meets the end of the file if no newline ends it
ReadLine ==
  /\ Draining /\ kind = "replay" /\ opened /\ place < Length
  /\ place' = place + 1
  /\ opened' = (place + 1 < Length \/ newline)
  /\ Sends([id |-> 0, ts |-> place'])
  /\ UNCHANGED <<kind, lastPos, newline>>

\* a line that is not a JSON object aborts
BadLine ==
  /\ Draining /\ kind = "replay" /\ opened /\ place < Length /\ failed' = "line"
  /\ UNCHANGED <<buffer, active, cancelled, error, sinkNeeds, waiting, timer, delivering,
                 source, asked, received, demand, ended, sourceVars>>

\* no file, or one whose end was met: "replay file not found"; else the end
LinesEnd ==
  /\ Draining /\ kind = "replay" /\ (opened => place = Length)
  /\ OnEnd(IF opened THEN "complete" ELSE "error")
  /\ UNCHANGED sourceVars

GenerateOne ==
  \/ Open \/ ReadFrame \/ SkipPacket \/ AtEof \/ ReadError \/ ReadLine \/ BadLine \/ LinesEnd
  \/ \E how \in Ends : OpenFails(how)

\* a source that is not a generator sends as Delay lets it
AnySource ==
  /\ kind = "any" /\ UNCHANGED sourceVars
  /\ OnNext \/ \E how \in Ends : OnEnd(how)

\* the sink and the loop, while no generator is at work
InTurn(A) == ~Draining /\ A /\ UNCHANGED sourceVars
Ask == \E n \in {1, Infinity} : Request(n)

SourcesNext ==
  \/ GenerateOne \/ AnySource
  \/ InTurn(Ask) \/ InTurn(Cancel) \/ InTurn(OnTimer) \/ InTurn(AfterOnNext)

SourcesSpec == SourcesInit /\ [][SourcesNext]_allVars

\* the fairness of Delay; a drain goes on
SourcesFairSpec ==
  /\ SourcesSpec /\ WF_allVars(GenerateOne \/ AnySource)
  /\ WF_allVars(InTurn(OnTimer)) /\ WF_allVars(InTurn(AfterOnNext)) /\ WF_allVars(InTurn(Ask))

(***************************************************************************)
(* Properties                                                              *)
(***************************************************************************)
\* The metadata comes before all frames and once, however often the file is
\* played.
MetadataFirst ==
  kind \in Frames => \A k \in 1..Len(content) : (content[k] = Metadata) <=> k = 1

\* The frames' ids go on through the loops of a file, in steps of one, and the
\* camera's intervals follow each other.
IdsGoOn ==
  kind \in Frames =>
    \A k \in 2..Len(content) : content[k].id = IF kind = "camera" THEN k - 2 ELSE k - 1

\* The sink of a file that was played once gets every frame and line, in the
\* order of the file, before it is told that the file is complete.
PlayedToItsEnd ==
  ended = "complete" /\ content # <<>> /\ kind # "any" =>
    /\ kind \in {"file", "replay"} /\ place = Length /\ Len(received) = Len(content)
    /\ \A k \in 2..Len(content) : content[k - 1].ts < content[k].ts

\* A file that is played once ends: no demand is lost between the sink, the
\* buffer and the generator.
FilesEnd == (kind \in {"file", "replay"}) ~> (ended # "no" \/ failed # "")

\* The sources, and what paces them.
SourcesSafety ==
  /\ SourcesTypeOK
  /\ Safety
  /\ MetadataFirst
  /\ IdsGoOn
  /\ PlayedToItsEnd

\* However the source and its stage end, they end as they should.
SourcesEnding ==
  /\ Ending
  /\ FilesEnd
=============================================================================
