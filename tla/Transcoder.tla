----------------------------- MODULE Transcoder -----------------------------
(***************************************************************************)
(* encode_vp9 behind decode_image_frames, as the recorder transcodes: a    *)
(* flat_map over the images, with a threaded_worker ahead of it, so that   *)
(* the encoder takes them later and in order.  The codec keeps up to       *)
(* EncoderLag images back and decides when their packets come; an encoder  *)
(* that could not be opened is used all the same.                          *)
(***************************************************************************)
EXTENDS MCDecodeImageFrames, FiniteSets

CONSTANTS
  EncoderLag,   \* lag-in-frames
  CodecFaults   \* of "open", "send" and "receive"

ASSUME TranscoderAssumption ==
  EncoderLag \in Nat /\ CodecFaults \subseteq {"open", "send", "receive"}

VARIABLES
  encoded,      \* how many images encode_frame was called for
  held,         \* in the codec: positions in got
  written,      \* packets: [image, id], image 0 for the metadata
  refused,      \* images that avcodec_send_frame did not take: its result is ignored
  encoderTold   \* "", "complete", "error", or "crashed"

encoderVars == <<encoded, held, written, refused, encoderTold>>

TranscoderTypeOK ==
  /\ encoded \in 0..Len(got) /\ held \in Seq(1..Len(got)) /\ refused \subseteq 1..Len(got)
  /\ written \in Seq([image : 0..Len(got), id : 0..Len(Packets)])
  /\ encoderTold \in {"", "complete", "error", "crashed"}

TranscoderInit ==
  DecodeInit /\ encoded = 0 /\ held = <<>> /\ written = <<>> /\ refused = {} /\ encoderTold = ""

\* slip: init() runs for each image
Metadata_Always == <<[image |-> 0, id |-> 0]>>

\* init() writes the metadata ahead of the first packets
Metadata == IF encoded = 0 THEN <<[image |-> 0, id |-> 0]>> ELSE <<>>

\* slip: a packet has the id of the image that was sent before
Stamp_Before == IF encoded = 0 THEN 0 ELSE got[encoded][2]

\* a packet has the id of the image that was sent last, whichever is in it
Stamp == got[encoded + 1][2]

\* the codec takes the image or not, then gives the packets of the first k it holds; the
\* loop receives them all
Encode(takes, k) ==
  LET queue == IF takes THEN Append(held, encoded + 1) ELSE held
      out   == SubSeq(queue, 1, k)
  IN  /\ k <= Len(queue) /\ Len(queue) - k <= EncoderLag
      /\ held' = SubSeq(queue, k + 1, Len(queue))
      /\ written' = written \o Metadata \o [j \in 1..k |-> [image |-> out[j], id |-> Stamp]]
      /\ refused' = IF takes THEN refused ELSE refused \cup {encoded + 1}
      /\ UNCHANGED encoderTold

\* avcodec_receive_packet fails: the packets of this image are dropped
ReceivePacketFails ==
  "receive" \in CodecFaults /\ written' = written \o Metadata /\ encoderTold' = "error" /\ UNCHANGED <<held, refused>>

\* init() returns an error to send, and encode_frame goes on with a null frame or context
OpenFails ==
  "open" \in CodecFaults /\ encoded = 0 /\ encoderTold' = "crashed" /\ UNCHANGED <<held, written, refused>>

OnImageFrame ==
  /\ encoderTold = "" /\ encoded < Len(got) /\ encoded' = encoded + 1
  /\ \/ \E takes \in BOOLEAN, k \in 0..EncoderLag + 1 : ("send" \in CodecFaults \/ takes) /\ Encode(takes, k)
     \/ ReceivePacketFails
     \/ OpenFails

\* the end comes behind the images; the encoder is deleted with what it holds
OnEnd ==
  /\ encoderTold = "" /\ ended # "" /\ encoded = Len(got)
  /\ encoderTold' = IF ended = "error" THEN "error" ELSE "complete"
  /\ UNCHANGED <<encoded, held, written, refused>>

Transcode == OnImageFrame \/ OnEnd

TranscoderNext == (DecodeNext /\ UNCHANGED encoderVars) \/ (Transcode /\ UNCHANGED decodeVars)

\* calls return, the source answers, and the worker's thread goes on
TranscoderSpec ==
  /\ TranscoderInit /\ [][TranscoderNext]_<<decodeVars, encoderVars>>
  /\ WF_decodeVars(Stage) /\ WF_decodeVars(Answers)
  /\ WF_encoderVars(Transcode)

(***************************************************************************)
(* Properties                                                              *)
(***************************************************************************)
Written(i) == \E j \in 1..Len(written) : written[j].image = i

\* The metadata come first and once; then the images in their order, each at most once.
MetadataThenImages ==
  /\ written # <<>> => written[1].image = 0
  /\ \A j, k \in 1..Len(written) : j < k => written[j].image < written[k].image

\* Nothing is lost but images the codec refused and, since the end does not flush it,
\* the last EncoderLag at most: a second of each transcoded recording.
LostAreTheLast ==
  encoderTold = "complete" => \A i \in 1..Len(got) : Written(i) \/ i \in refused \/ i > encoded - EncoderLag - Cardinality(refused)

\* The id of a packet belongs to its image or to one at most EncoderLag later, and
\* ids never go back.
IdsAhead ==
  /\ \A j \in 1..Len(written) : written[j].image > 0 =>
       \E i \in written[j].image..Len(got) :
         got[i][2] = written[j].id /\ i <= written[j].image + EncoderLag + Cardinality(refused)
  /\ \A j \in 2..Len(written) : written[j - 1].id <= written[j].id

\* Decoder and encoder in every state.
TranscoderSafety ==
  /\ DecodeSafety
  /\ TranscoderTypeOK
  /\ MetadataThenImages
  /\ LostAreTheLast
  /\ IdsAhead

\* The decoder's stream ends, and so does the encoder's unless it could not be opened.
TranscoderEnds ==
  /\ EndsAndIsDeleted
  /\ <>(encoderTold # "")
=============================================================================
