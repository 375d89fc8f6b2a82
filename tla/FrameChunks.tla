---------------------------- MODULE FrameChunks ----------------------------
(***************************************************************************)
(* A frame on its way through an RTM channel: encoded_frame::to_network    *)
(* cuts its data in chunks, the channel keeps their order and may lose     *)
(* some, decode_network_stream puts frames together again from the chunks  *)
(* that arrive, knowing only the number of the next chunk.                 *)
(***************************************************************************)
EXTENDS Naturals, Sequences, FiniteSets, SequencesExt

CONSTANTS
  Frames,      \* bound: frames published
  Sizes,       \* lengths of their data
  ChunkSize,   \* max_chunk_size
  ByteRange,   \* values of _chunk, a uint8_t
  MaxLost      \* bound: chunks the channel loses

ASSUME ChunksAssumption ==
  /\ Frames \in Nat /\ Sizes \subseteq Nat /\ MaxLost \in Nat
  /\ ChunkSize \in Nat \ {0} /\ ByteRange \in Nat \ {0, 1}

VARIABLES
  published,   \* lengths of the frames published; the position is the id
  channel,     \* network_frames on their way
  expected, current, aggregated,   \* _chunk, _id, _aggregated_data
  received,    \* what arrived, in order
  delivered,   \* frames handed on
  lost         \* chunks lost so far

chunkVars == <<published, channel, expected, current, aggregated, received, delivered, lost>>

Data(id, size) == [k \in 1..size |-> <<id, k>>]

Chunks(size) == (size + ChunkSize - 1) \div ChunkSize

\* slip: substr starts one too early
ChunkData_Overlap(data, i) ==
  SubSeq(data, (IF i = 1 THEN 0 ELSE (i - 1) * ChunkSize - 1) + 1,
         IF i * ChunkSize < Len(data) THEN i * ChunkSize ELSE Len(data))

ChunkData(data, i) ==
  SubSeq(data, (i - 1) * ChunkSize + 1,
         IF i * ChunkSize < Len(data) THEN i * ChunkSize ELSE Len(data))

ToNetwork(id, size) ==
  [i \in 1..Chunks(size) |->
     [id |-> id, chunk |-> i, chunks |-> Chunks(size), data |-> ChunkData(Data(id, size), i)]]

ChunksTypeOK ==
  /\ published \in Seq(Sizes) /\ lost \in 0..MaxLost
  /\ expected \in 0..ByteRange - 1 /\ current \in 0..Frames
  /\ \A i \in 1..Len(channel) : channel[i].id \in 1..Len(published)

ChunksInit ==
  /\ published = <<>> /\ channel = <<>> /\ received = <<>> /\ delivered = <<>> /\ lost = 0
  /\ expected = 1 /\ current = 0 /\ aggregated = <<>>

PublishFrame(size) ==
  /\ Len(published) < Frames
  /\ published' = Append(published, size)
  /\ channel' = channel \o ToNetwork(Len(published) + 1, size)
  /\ UNCHANGED <<expected, current, aggregated, received, delivered, lost>>

Lose(i) ==
  /\ lost < MaxLost
  /\ channel' = RemoveAt(channel, i)
  /\ lost' = lost + 1
  /\ UNCHANGED <<published, expected, current, aggregated, received, delivered>>

Reset == expected' = 1 /\ aggregated' = <<>>

\* slip: a mismatch forgets to clear what was gathered
Mismatch_Keeps == expected' = 1 /\ UNCHANGED <<aggregated, current, delivered>>

\* the chunk itself is dropped too, even if it starts a frame
Mismatch == Reset /\ UNCHANGED <<current, delivered>>

\* slips: a signed byte; a counter that is not reduced
NextChunk_Narrow(c) == (c + 1) % (ByteRange \div 2)
NextChunk_Wide(c) == c + 1

NextChunk(c) == (c + 1) % ByteRange

\* slip: _id is only taken from a frame of several chunks
Gather_StaleId(nf) ==
  LET id   == IF nf.chunk = 1 /\ nf.chunks > 1 THEN nf.id ELSE current
      data == aggregated \o nf.data
  IN  /\ current' = id
      /\ IF nf.chunk = nf.chunks
         THEN Reset /\ delivered' = Append(delivered, [id |-> id, data |-> data])
         ELSE expected' = NextChunk(expected) /\ aggregated' = data /\ UNCHANGED delivered

\* chunk 1 sets the identity of the frame, the last one hands it on
Gather(nf) ==
  LET id   == IF nf.chunk = 1 THEN nf.id ELSE current
      data == aggregated \o nf.data
  IN  /\ current' = id
      /\ IF nf.chunk = nf.chunks
         THEN Reset /\ delivered' = Append(delivered, [id |-> id, data |-> data])
         ELSE expected' = NextChunk(expected) /\ aggregated' = data /\ UNCHANGED delivered

Receive ==
  /\ channel # <<>>
  /\ channel' = Tail(channel)
  /\ received' = Append(received, [id |-> Head(channel).id, last |-> Head(channel).chunk = Head(channel).chunks])
  /\ IF Head(channel).chunk = expected THEN Gather(Head(channel)) ELSE Mismatch
  /\ UNCHANGED <<published, lost>>

ChunksNext ==
  \/ \E size \in Sizes : PublishFrame(size)
  \/ \E i \in 1..Len(channel) : Lose(i)
  \/ Receive

ChunksSpec == ChunksInit /\ [][ChunksNext]_chunkVars

(***************************************************************************)
(* Properties                                                              *)
(***************************************************************************)
IsIntact(d) == d.data = Data(d.id, published[d.id])
Fits(id) == Chunks(published[id]) \in 1..ByteRange - 1
ArrivedAt(id) == {i \in 1..Len(received) : received[i].id = id}
BehindLast(id) == \A i \in ArrivedAt(id) : i - 1 \in ArrivedAt(id) \/ i = 1 \/ received[i - 1].last
IsDelivered(id) == \E k \in 1..Len(delivered) : delivered[k].id = id /\ IsIntact(delivered[k])

\* A frame of at most 255 chunks, all of which arrived, is delivered intact if
\* it arrived first or right behind the last chunk of some frame: whatever was
\* lost before, the decoder is in step again after a last chunk (reset()).
InStepAfterALastChunk ==
  \A id \in 1..Len(published) :
    Fits(id) /\ Cardinality(ArrivedAt(id)) = Chunks(published[id]) /\ BehindLast(id) => IsDelivered(id)

\* The ids of two frames are never mixed in one unless two chunks were lost,
\* the last of one frame and the first of the next: decode_network_stream does
\* not compare ids.
OneLossNeverSplices ==
  \A k \in 1..Len(delivered) : IsIntact(delivered[k]) \/ lost >= 2

\* Frames are delivered in the order of their ids, none of them twice.
FramesInOrder ==
  \A j, k \in 1..Len(delivered) : j < k => delivered[j].id < delivered[k].id

\* Without loss, what comes out is every frame with data and of at most 255
\* chunks; a longer one disappears, but takes no other with it (_chunk wraps).
LosslessIsComplete ==
  lost = 0 /\ channel = <<>> =>
    /\ \A id \in 1..Len(published) : Fits(id) => IsDelivered(id)
    /\ \A k \in 1..Len(delivered) : Fits(delivered[k].id) /\ IsIntact(delivered[k])

\* What comes out is a part of what went in, and all of it without loss.
ChunksSafety ==
  /\ ChunksTypeOK
  /\ FramesInOrder
  /\ LosslessIsComplete
=============================================================================
