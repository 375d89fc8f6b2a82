------------------------------- MODULE Viewer -------------------------------
(***************************************************************************)
(* A stream on its two RTM channels, from the source's repeat_metadata to  *)
(* the decoder of a viewer that comes at any time (rtm_source): the codec  *)
(* goes through the metadata channel, whose last message the service may   *)
(* keep for those who come later, the frames go through the other, and     *)
(* nothing orders the two.  The publisher may be started again with        *)
(* another stream, and the viewer's client may lose its connection and     *)
(* subscribe again.                                                        *)
(*                                                                         *)
(* A packet is the number of its stream's codec and what it is; a frame is *)
(* one message (FrameChunks cuts it).                                      *)
(***************************************************************************)
EXTENDS Naturals, Sequences

CONSTANTS
  Period,    \* frames between two repetitions (6000)
  Group,     \* frames from a key frame to the next
  Streams,   \* bound: streams published one after the other
  Breaks,    \* bound: connections the viewer loses
  Ahead      \* bound: messages that wait in a queue

VARIABLES
  stream,     \* number of the stream that is published
  element,    \* last_element: the codec in the state of repeat_if, 0 if there is none
  ago,        \* n_packets_ago
  nextKey,    \* frames until the next key frame
  outbox,     \* posted publishes of rtm_sink
  unheard,    \* frames published since the metadata last were
  kept,       \* the service's history of the metadata channel, 0 if it keeps none
  metadata,   \* messages on their way to the viewer: "off", or the queue
  frames,
  codec,      \* the decoder's _metadata, 0 before the first
  primed,     \* it has decoded a key frame
  steady,     \* since the last picture nothing but frames and the same metadata came
  breaks      \* connections lost

vars == <<stream, element, ago, nextKey, outbox, unheard, kept, metadata, frames, codec,
          primed, steady, breaks>>
PublisherVars == <<stream, element, ago, nextKey, outbox>>
DecoderVars == <<codec, primed, steady>>

Off == <<[codec |-> 0, is |-> "off"]>>
Metadata(c) == [codec |-> c, is |-> "metadata"]
Frame(c, key) == [codec |-> c, is |-> IF key THEN "key" ELSE "delta"]

Init ==
  /\ stream = 0 /\ element = 0 /\ ago = 0 /\ nextKey = 0 /\ outbox = <<>> /\ unheard = 0
  /\ kept = 0 /\ metadata = Off /\ frames = Off
  /\ codec = 0 /\ primed = FALSE /\ steady = FALSE /\ breaks = 0

TypeOK ==
  /\ stream \in 0..Streams /\ element \in 0..Streams /\ ago \in 0..Period + 1
  /\ nextKey \in 0..Group - 1 /\ unheard \in 0..Period + 2 /\ kept \in 0..Streams
  /\ codec \in 0..Streams /\ primed \in BOOLEAN /\ steady \in BOOLEAN /\ breaks \in 0..Breaks

(***************************************************************************)
(* The publisher                                                           *)
(***************************************************************************)
\* the tool is started, again maybe: a new repeat_if, a new sink; the source's first
\* packet is its metadata, and its first frame a key frame
StartStream ==
  /\ stream < Streams /\ stream' = stream + 1
  /\ element' = stream' /\ ago' = 0 /\ nextKey' = 0
  /\ outbox' = <<Metadata(stream')>>
  /\ UNCHANGED <<unheard, kept, metadata, frames, DecoderVars, breaks>>

\* slips: one frame late; the frame alone
Due_Late == ago > Period
WithMetadata_Not(frame) == <<frame>>

Due == ago >= Period /\ element # 0
WithMetadata(frame) == <<Metadata(element), frame>>

\* repeat_if on a frame
SendFrame ==
  /\ stream > 0 /\ Len(outbox) < Ahead
  /\ LET frame == Frame(stream, nextKey = 0)
     IN  IF Due
         THEN outbox' = outbox \o WithMetadata(frame) /\ ago' = 0
         ELSE outbox' = Append(outbox, frame) /\ ago' = ago + 1
  /\ nextKey' = IF nextKey = 0 THEN Group - 1 ELSE nextKey - 1
  /\ UNCHANGED <<stream, element, unheard, kept, metadata, frames, DecoderVars, breaks>>

Sent(queue, p) == IF queue = Off THEN Off ELSE Append(queue, p)

\* bound: more than the period and one is all that is told apart
Counted(n) == IF n > Period + 1 THEN n ELSE n + 1

\* a publish of rtm_sink runs; metadata and frames have a channel each
Publish ==
  /\ outbox # <<>> /\ outbox' = Tail(outbox)
  /\ LET p == Head(outbox)
     IN  IF p.is = "metadata"
         THEN /\ unheard' = 0 /\ kept' = p.codec
              /\ metadata' = Sent(metadata, p) /\ UNCHANGED frames
         ELSE /\ unheard' = Counted(unheard) /\ frames' = Sent(frames, p)
              /\ UNCHANGED <<kept, metadata>>
  /\ \A queue \in {metadata, frames} : Len(queue) < Ahead
  /\ UNCHANGED <<stream, element, ago, nextKey, DecoderVars, breaks>>

\* the service forgets its history
Forget ==
  /\ kept # 0 /\ kept' = 0
  /\ UNCHANGED <<PublisherVars, unheard, metadata, frames, DecoderVars, breaks>>

(***************************************************************************)
(* The viewer                                                              *)
(***************************************************************************)
\* slip: the metadata are asked for as the frames are
History_None == <<>>

\* metadata_options.history.count = 1
History == IF kept = 0 THEN <<>> ELSE <<Metadata(kept)>>

\* the service answers a subscription of the running client
JoinMetadata ==
  /\ metadata = Off /\ metadata' = History
  /\ UNCHANGED <<PublisherVars, unheard, kept, frames, DecoderVars, breaks>>

JoinFrames ==
  /\ frames = Off /\ frames' = <<>>
  /\ UNCHANGED <<PublisherVars, unheard, kept, metadata, DecoderVars, breaks>>

\* restart(): what was on its way is lost
LoseConnection ==
  /\ breaks < Breaks /\ breaks' = breaks + 1 /\ Off # frames /\ Off # metadata
  /\ metadata' = Off /\ frames' = Off /\ steady' = FALSE
  /\ UNCHANGED <<PublisherVars, unheard, kept, codec, primed>>

\* slip: the same metadata make a new decoder
SameMetadata_Not(p) == FALSE

SameMetadata(p) == p.codec = codec

\* the decoder hears metadata
TakeMetadata ==
  /\ metadata \notin {Off, <<>>} /\ metadata' = Tail(metadata)
  /\ IF SameMetadata(Head(metadata)) THEN UNCHANGED DecoderVars
     ELSE /\ codec' = Head(metadata).codec /\ primed' = FALSE
          /\ steady' = (steady /\ codec' = codec)
  /\ UNCHANGED <<PublisherVars, unheard, kept, frames, breaks>>

\* the decoder hears a frame: dropped without a context; ffmpeg shows a picture from a
\* key frame on, and what it makes of another stream's frame nobody knows
TakeFrame ==
  /\ frames \notin {Off, <<>>} /\ frames' = Tail(frames)
  /\ LET f == Head(frames)
     IN  IF codec = 0 THEN UNCHANGED DecoderVars
         ELSE /\ primed' = (f.codec = codec /\ (primed \/ f.is = "key"))
              /\ steady' = primed' /\ UNCHANGED codec
  /\ UNCHANGED <<PublisherVars, unheard, kept, metadata, breaks>>

Source == SendFrame \/ Publish
Joins == JoinMetadata \/ JoinFrames

Step ==
  \/ StartStream \/ SendFrame \/ Publish \/ Forget
  \/ JoinMetadata \/ JoinFrames \/ LoseConnection \/ TakeMetadata \/ TakeFrame

(***************************************************************************)
(* Properties                                                              *)
(***************************************************************************)
\* From one repetition of the metadata to the next there are no more frames than the
\* period and one, so that whoever the history does not help need not wait longer.
RepeatedInTime == unheard <= Period + 1

\* Once the metadata channel has nothing more for a viewer, its decoder is for the
\* newest stream that the service knows of: its history comes with the subscription,
\* also with that of a client that was restarted.
KnowsTheNewest == metadata = <<>> /\ kept # 0 => codec = kept

\* Metadata that are repeated never interrupt the picture.
RepeatsDoNotDisturb == steady => primed

\* A viewer who stays sees the stream in the end, whenever it came, whatever the
\* order of the two channels and whether or not the service keeps the metadata.
SeesTheStream ==
  \A s \in 1..Streams :
    stream = s ~> (stream # s \/ (steady /\ codec = s))

Safety ==
  /\ TypeOK
  /\ RepeatedInTime
  /\ KnowsTheNewest
  /\ RepeatsDoNotDisturb
=============================================================================
