-------------------------------- MODULE Wire --------------------------------
(***************************************************************************)
(* What one message goes through between two programs: to_json, CBOR, the  *)
(* RTM service, JSON again and the parser (data.cpp, rtm_source.cpp), for  *)
(* a network_frame, a network_metadata and a message of a bot.  FrameChunks *)
(* is the same way seen from above: the order and the loss of messages.    *)
(*                                                                         *)
(* The times are floats that nothing here looks at.                        *)
(***************************************************************************)
EXTENDS FrameChunks, Formats, FiniteSets

CONSTANTS
  Packets,    \* what is sent: records with a `kind', "frame", "metadata" or "message"
  Styles      \* how the service may write what it hands on: "same", "chunked", "floats"

VARIABLES
  part,       \* "chunks" (FrameChunks) or "message"
  sent,       \* the packet
  stage,      \* "packet", "json", "cbor", "relayed", "document", "read", or "aborted"
  form,       \* what it is at that stage
  style       \* the service's choice

wireVars == <<sent, stage, form, style>>

Object(f) == Is("object", f)
Whole(i) == Is("int", i)
Text(s) == Is("text", s)
Time == Is("float", 0)

WireTypeOK ==
  /\ part \in {"chunks", "message"} /\ sent \in Packets
  /\ stage \in {"packet", "json", "cbor", "relayed", "document", "read", "aborted"}
  /\ style \in Styles

WireInit ==
  /\ ChunksInit /\ part \in {"chunks", "message"}
  /\ sent \in Packets /\ style \in Styles
  /\ stage = "packet" /\ form = sent
  /\ part = "chunks" =>
       sent = (CHOOSE p \in Packets : TRUE) /\ style = (CHOOSE s \in Styles : TRUE)

(***************************************************************************)
(* The sender                                                              *)
(***************************************************************************)
\* a frame may come from a program that leaves out what is optional
FrameJson(p) ==
  LET required == [b |-> Text(Encode(p.data)), i |-> Is("array", <<Whole(p.id[1]), Whole(p.id[2])>>)]
      optional == [c |-> Whole(p.chunk), l |-> Whole(p.chunks), t |-> Time, dt |-> Time]
      key      == [k |-> Is("bool", TRUE)]
  IN  Object(CASE p.bare -> required
               [] p.key  -> required @@ optional @@ key
               [] OTHER  -> required @@ optional)

\* the additional data is written beside the codec
MetadataJson(p) ==
  LET codec == [codecName |-> Text(p.name), codecData |-> Text(Encode(p.data))]
  IN  Object(IF p.rotated THEN codec @@ [display_rotation |-> Is("float", 90)] ELSE codec)

Moves(from, to) == part = "message" /\ stage = from /\ stage' = to /\ UNCHANGED <<part, chunkVars, sent, style>>


WriteJson ==
  /\ Moves("packet", "json")
  /\ form' = CASE sent.kind = "frame"    -> FrameJson(sent)
               [] sent.kind = "metadata" -> MetadataJson(sent)
               [] OTHER                  -> sent.document

WriteCbor == Moves("json", IF Aborts(ToCbor(form)) THEN "aborted" ELSE "cbor") /\ form' = ToCbor(form)

(***************************************************************************)
(* The service                                                             *)
(***************************************************************************)
Halves(s) == <<SubSeq(s, 1, Len(s) \div 2), SubSeq(s, Len(s) \div 2 + 1, Len(s))>>

RECURSIVE Rewritten(_, _)
Rewritten(x, how) ==
  CASE x.is \in {"text", "bytes"} /\ how = "chunked" -> Is(x.is, Halves(Joined(x.v)))
    [] x.is = "uint" /\ how = "floats"   -> Is("float", x.v)
    [] x.is = "negint" /\ how = "floats" -> Is("float", -1 - x.v)
    [] x.is \in {"array", "object"}      -> Is(x.is, [k \in DOMAIN x.v |-> Rewritten(x.v[k], how)])
    [] OTHER -> x

Relay == Moves("cbor", "relayed") /\ form' = Rewritten(form, style)

(***************************************************************************)
(* The receiver                                                            *)
(***************************************************************************)
ReadCbor ==
  Moves("relayed", IF Aborts(ToJson(form)) THEN "aborted" ELSE "document") /\ form' = ToJson(form)

Has(name) == name \in DOMAIN form.v
At(name) == form.v[name].v
OrElse(name, default) == IF Has(name) THEN At(name) ELSE default

\* slip: a frame without a mark counts as a key frame
KeyFrame_Default == OrElse("k", TRUE)

KeyFrame == OrElse("k", FALSE)

ParsedFrame ==
  [kind |-> "frame", data |-> Decode(At("b")), id |-> <<At("i")[1].v, At("i")[2].v>>,
   chunk |-> OrElse("c", 1), chunks |-> OrElse("l", 1), key |-> KeyFrame]

\* only the codec is read
ParsedMetadata == [kind |-> "metadata", name |-> At("codecName"), data |-> Decode(At("codecData"))]

FrameParses == /\ {"i", "b"} \subseteq DOMAIN form.v /\ form.v["i"].is = "array" /\ form.v["b"].is = "text"
               /\ Has("c") => Has("l") /\ {form.v["c"].is, form.v["l"].is} \subseteq {"int", "float"}
               /\ Has("k") => form.v["k"].is = "bool"
               /\ IsBase64(At("b"))

MetadataParses == /\ {"codecName", "codecData"} \subseteq DOMAIN form.v
                  /\ {form.v["codecName"].is, form.v["codecData"].is} = {"text"}
                  /\ IsBase64(At("codecData"))

Parse ==
  /\ CASE sent.kind = "frame" ->
            Moves("document", IF FrameParses THEN "read" ELSE "aborted")
            /\ form' = IF FrameParses THEN ParsedFrame ELSE form
       [] sent.kind = "metadata" ->
            Moves("document", IF MetadataParses THEN "read" ELSE "aborted")
            /\ form' = IF MetadataParses THEN ParsedMetadata ELSE form
       [] OTHER -> Moves("document", "read") /\ form' = form

WireNext ==
  \/ WriteJson \/ WriteCbor \/ Relay \/ ReadCbor \/ Parse
  \/ part = "chunks" /\ ChunksNext /\ UNCHANGED <<part, wireVars>>

WireSpec == WireInit /\ [][WireNext]_<<chunkVars, part, wireVars>>

(***************************************************************************)
(* Properties                                                              *)
(***************************************************************************)
\* A frame and the codec of its stream arrive as they were sent, whatever their bytes
\* and ids, also from a sender that leaves out the optional fields and through a
\* service that writes strings in pieces or numbers as floats.  The additional data of
\* the metadata, the rotation of the picture, does not arrive.
PacketsArrive ==
  /\ sent.kind \in {"frame", "metadata"} => stage # "aborted"
  /\ stage = "read" /\ sent.kind = "frame" =>
       \A field \in DOMAIN form : form[field] = sent[field]
  /\ stage = "read" /\ sent.kind = "metadata" => form.name = sent.name /\ form.data = sent.data

\* RFC 4648: groups of four, up to two '=' at the end, and no bit set behind the last byte
Canonical(text) ==
  LET pads == Cardinality({k \in 1..Len(text) : text[k] = Pad})
      last == Len(text) - pads
  IN  /\ IsBase64(text) /\ Len(text) % 4 = 0 /\ pads <= 2
      /\ \A k \in 1..last : text[k] # Pad
      /\ last > 0 => text[last] % (2^(pads * (Byte - Group))) = 0

\* texts without NUL, numbers that fit in 64 bits with a sign, and proper base64 in the
\* fields that are taken for binary
RECURSIVE Sound(_)
Sound(d) ==
  /\ d.is = "text" => ~Contains(d.v, Nul)
  /\ d.is = "int" => Signed(d.v) = d.v
  /\ d.is \in {"array", "object"} =>
       \A k \in DOMAIN d.v :
         IF d.is = "object" /\ IsBinary(k, d.v[k])
         THEN Canonical(d.v[k].v)
         ELSE Sound(d.v[k])

\* A bot's message arrives as it was sent if and only if it is sound; a field named
\* "b" or "codecData" that is not base64 ends the program, at the sender.
SoundMessagesArrive ==
  sent.kind = "message" =>
    /\ stage = "read" /\ style # "floats" => (form = sent.document <=> Sound(sent.document))
    /\ stage = "aborted" => ~Sound(sent.document)

\* Chunks, and messages of every kind.
WireSafety ==
  /\ ChunksSafety
  /\ WireTypeOK
  /\ PacketsArrive
  /\ SoundMessagesArrive
=============================================================================
