-------------------------- MODULE DecodeImageFrames --------------------------
(***************************************************************************)
(* decode_image_frames: image_decoder_op::instance, a drain_source_impl    *)
(* between the encoded packets and the sink.  It asks for one packet       *)
(* whenever the decoder has nothing to give; the source answers inside     *)
(* request() or later.  The ids of the frames take a way of their own,     *)
(* through _ids, past a decoder that keeps some frames back, refuses a     *)
(* packet or swallows one; a key frame finds its id again by its position. *)
(* The sink requests once, in on_subscribe (process, threaded_worker,      *)
(* take), and may cancel from inside on_next (take, take_while).           *)
(***************************************************************************)
EXTENDS Naturals, Sequences

\* the surroundings the stage is checked in: records of
\*   packets   what the source sends: records [kind, meta], kind "metadata", "key", "delta";
\*             metadata with a meta of 0 are for a codec that cannot be opened
\*   demand    INT_MAX, here any number beyond the packets, or the limit of take
\*   lag       frames the decoder keeps back
\*   faults    of "refused" (or swallowed), "receive", "flush", "source", "cancel"
CONSTANT Uses

ASSUME DecodeAssumption ==
  \A u \in Uses :
    /\ u.packets \in Seq([kind : {"metadata", "key", "delta"}, meta : Nat])
    /\ u.demand \in Nat \ {0} /\ u.lag \in Nat
    /\ u.faults \subseteq {"refused", "receive", "flush", "source", "cancel"}

\* A frame belongs to the metadata ahead of it.  A decoder that takes every packet is
\* made for a stream that goes on with a key frame.
MetaBefore(u, n) == IF n = 1 THEN 0 ELSE u.packets[n - 1].meta
ChangedAt(u, n) == u.packets[n].kind = "metadata" /\ u.packets[n].meta # MetaBefore(u, n)

ASSUME StreamAssumption ==
  \A u \in Uses : \A n \in 1..Len(u.packets) :
    /\ u.packets[n].kind # "metadata" => u.packets[n].meta = MetaBefore(u, n)
    /\ u.faults = {} /\ ChangedAt(u, n) =>
         \A m \in n + 1..Len(u.packets) : u.packets[m].kind = "delta" =>
           \E k \in n + 1..m - 1 : u.packets[k].kind = "key"

VARIABLES
  use,       \* one of Uses, chosen once
  context,   \* the metadata the decoder was made for, 0: _context is null
  decoder,   \* frames in the decoder, by the number of their packet
  flushing,  \* avcodec_send_packet(nullptr) was sent
  ids,       \* _ids
  got,       \* what the sink got: <<frame, id>>
  pc,        \* "idle", or where drain() is: "loop", "askedFirst" and "asked" (inside
             \* _source->request(1)), "receive", "sink", "returned"
  again,     \* _drain_requested
  die,       \* _die
  source,    \* [next, asked, open]
  ended,     \* what the sink was told: "", "complete", "error"; or "cancelled"
  deleted

decodeVars == <<use, context, decoder, flushing, ids, got, pc, again, die, source, ended, deleted>>
Codec == <<context, decoder, flushing, ids>>
End == <<die, ended, deleted>>

Packets == use.packets
Demand == use.demand
Lag == use.lag
Faults == use.faults

Numbers == 1..Len(Packets)
Frame(n) == Packets[n].kind # "metadata"
Key(n) == Packets[n].kind = "key"
\* slip: what is being delivered is not counted yet
Needs_Late == Demand - Len(got) + 1

\* needs()
Needs == Demand - Len(got)
Asking == pc \in {"askedFirst", "asked"}

DecodeTypeOK ==
  /\ use \in Uses
  /\ context \in Nat /\ decoder \in Seq(Numbers) /\ flushing \in BOOLEAN /\ ids \in Seq(Numbers)
  /\ got \in Seq(Numbers \X Numbers) /\ Len(got) <= Demand
  /\ pc \in {"idle", "loop", "askedFirst", "asked", "receive", "sink", "returned"}
  /\ again \in BOOLEAN /\ die \in BOOLEAN /\ deleted \in BOOLEAN
  /\ source \in [next : 1..Len(Packets) + 1, asked : Nat, open : BOOLEAN]
  /\ ended \in {"", "complete", "error", "cancelled"}

\* on_subscribe: the sink requests, drain() is entered
DecodeInit ==
  /\ use \in Uses
  /\ context = 0 /\ decoder = <<>> /\ flushing = FALSE /\ ids = <<>> /\ got = <<>>
  /\ pc = "loop" /\ again = FALSE /\ die = FALSE
  /\ source = [next |-> 1, asked |-> 0, open |-> TRUE]
  /\ ended = "" /\ deleted = FALSE

\* slip: the stage is deleted from inside its own drain()
EndAs_AtOnce(how) == ended' = how /\ deleted' = TRUE /\ UNCHANGED die

\* deliver_on_complete, deliver_on_error, cancel: die() at once, or after drain()
EndAs(how) ==
  /\ ended' = how
  /\ IF pc = "idle" THEN deleted' = TRUE /\ UNCHANGED die ELSE die' = TRUE /\ UNCHANGED deleted

(***************************************************************************)
(* The source                                                              *)
(***************************************************************************)
\* operator()(encoded_metadata): a new decoder, unless nothing has changed
Renewed(n) ==
  IF context = Packets[n].meta THEN UNCHANGED <<decoder, context>>
  ELSE decoder' = <<>> /\ context' = Packets[n].meta

\* operator()(encoded_frame): the id is queued before the decoder refuses it
Fed(n) ==
  /\ ids' = Append(ids, n)
  /\ \/ decoder' = Append(decoder, n)
     \/ "refused" \in Faults /\ UNCHANGED decoder

\* slip: the loop is entered only if the decoder had a frame to give
Drained_IfReady ==
  IF pc = "idle" /\ Len(decoder) > Lag THEN pc' = "loop" ELSE pc' = pc

\* on_next goes on with drain(), which enters the loop or notes the request
Drained == IF pc = "idle" THEN pc' = "loop" ELSE pc' = pc

Unusable(n) == ~Frame(n) /\ Packets[n].meta = 0
Sends ==
  /\ (pc = "idle" \/ Asking) /\ source.open /\ ~deleted /\ ~die
  /\ source.asked > 0 /\ source.next \in Numbers

OnNext ==
  /\ Sends /\ ~Unusable(source.next)
  /\ LET n == source.next IN
     /\ source' = [source EXCEPT !.next = n + 1, !.asked = @ - 1]
     /\ IF ~Frame(n) THEN Renewed(n) /\ UNCHANGED ids
        ELSE UNCHANGED context /\ (IF context = 0 THEN UNCHANGED <<ids, decoder>> ELSE Fed(n))
  /\ Drained /\ again' = (again \/ Asking)
  /\ UNCHANGED <<use, flushing, got, End>>

\* metadata that decoder_context finds no decoder for: the sink is told; a stage that is
\* not being drained is deleted with it, and on_next goes on to drain() all the same
OnUnusable ==
  /\ Sends /\ Unusable(source.next)
  /\ context' = 0 /\ decoder' = <<>> /\ EndAs("error")
  /\ source' = [next |-> source.next + 1, asked |-> source.asked - 1, open |-> Asking]
  /\ Drained /\ again' = (again \/ Asking)
  /\ UNCHANGED <<use, flushing, ids, got>>

\* on_complete: the decoder is flushed; without one the stream is complete
OnComplete ==
  /\ (pc = "idle" \/ Asking) /\ source.open /\ ~deleted /\ ~die /\ source.next \notin Numbers
  /\ source' = [source EXCEPT !.open = FALSE]
  /\ IF context = 0 THEN EndAs("complete") /\ UNCHANGED <<flushing, pc, again>>
     ELSE /\ flushing' = TRUE /\ Drained /\ again' = (again \/ Asking)
          /\ UNCHANGED End
  /\ UNCHANGED <<use, context, decoder, ids, got>>

\* on_error, at any time or in answer to a request; or the flush fails
OnError ==
  /\ (pc = "idle" \/ Asking) /\ source.open /\ ~deleted /\ ~die
  /\ \/ "source" \in Faults /\ (pc = "idle" \/ source.asked > 0)
     \/ "flush" \in Faults /\ source.next \notin Numbers /\ context # 0
  /\ source' = [source EXCEPT !.open = FALSE] /\ EndAs("error")
  /\ UNCHANGED <<use, Codec, got, pc, again>>

(***************************************************************************)
(* drain() and drain_impl()                                                *)
(***************************************************************************)
\* slip: the stage is not deleted if its source has ended
LeaveDrain_Ended ==
  IF die /\ source.open
  THEN deleted' = TRUE /\ source' = [source EXCEPT !.open = FALSE] /\ pc' = "idle"
  ELSE pc' = "idle" /\ UNCHANGED <<deleted, source>>

LeaveDrain ==
  IF die THEN deleted' = TRUE /\ source' = [source EXCEPT !.open = FALSE] /\ pc' = "idle"
  ELSE pc' = "idle" /\ UNCHANGED <<deleted, source>>

Ask(step) == pc' = step /\ source' = [source EXCEPT !.asked = @ + 1]

Loop ==
  /\ pc = "loop"
  /\ IF Needs > 0 /\ ~die
     THEN /\ again' = FALSE /\ UNCHANGED deleted
          /\ IF context = 0 THEN Ask("askedFirst") ELSE pc' = "receive" /\ UNCHANGED source
     ELSE LeaveDrain /\ UNCHANGED again
  /\ UNCHANGED <<use, Codec, got, die, ended>>

\* with a context that the answer brought, drain_impl goes on to receive
RequestReturns ==
  /\ Asking
  /\ pc' = IF pc = "askedFirst" /\ context # 0 THEN "receive" ELSE "returned"
  /\ UNCHANGED <<use, Codec, got, again, source, End>>

\* drain_impl returned false
DrainImplReturns ==
  /\ pc = "returned"
  /\ IF again THEN pc' = "loop" /\ UNCHANGED <<deleted, source>> ELSE LeaveDrain
  /\ UNCHANGED <<use, Codec, got, again, die, ended>>

\* slip: the flush is forgotten
Ready_Late == Len(decoder) > Lag

Ready == Len(decoder) > Lag \/ (flushing /\ decoder # <<>>)

NotReady ==
  /\ pc = "receive" /\ ~Ready /\ ~flushing /\ Ask("asked")
  /\ UNCHANGED <<use, Codec, got, again, End>>

EndOfStream ==
  /\ pc = "receive" /\ ~Ready /\ flushing
  /\ EndAs("complete") /\ pc' = "returned"
  /\ UNCHANGED <<use, Codec, got, again, source>>

ReceiveFails ==
  /\ pc = "receive" /\ "receive" \in Faults
  /\ EndAs("error") /\ pc' = "returned"
  /\ UNCHANGED <<use, Codec, got, again, source>>

\* slips: the first id is taken unseen; the search looks at two ids at most; it
\* goes one too far
Taken_Front(n) == IF ids = <<>> THEN 0 ELSE 1
Taken_Second(n) ==
  IF ids = <<>> THEN 0 ELSE IF Key(n) /\ Len(ids) > 1 /\ ids[1] # n THEN 2 ELSE 1
Taken_Past(n) ==
  IF ids = <<>> THEN 0
  ELSE IF Key(n) /\ \E i \in 1..Len(ids) - 1 : ids[i] = n
  THEN 1 + CHOOSE i \in 1..Len(ids) - 1 : ids[i] = n
  ELSE 1

\* how many ids deliver_frame takes: one, for a key frame up to its own
Taken(n) ==
  IF ids = <<>> THEN 0
  ELSE IF ~Key(n) THEN 1
  ELSE IF \E i \in 1..Len(ids) : ids[i] = n THEN CHOOSE i \in 1..Len(ids) : ids[i] = n
  ELSE Len(ids)

ReceiveFrame ==
  /\ pc = "receive" /\ Ready /\ pc' = "sink"
  /\ LET n == Head(decoder)
         k == Taken(n)
     IN  /\ got' = Append(got, <<n, IF k = 0 THEN n ELSE ids[k]>>)
         /\ ids' = SubSeq(ids, k + 1, Len(ids))
         /\ decoder' = Tail(decoder)
  /\ UNCHANGED <<use, context, flushing, again, source, End>>

\* the sink returns, or cancels first, as take does at its limit
SinkReturns ==
  /\ pc = "sink" /\ pc' = "loop"
  /\ \/ Needs > 0 /\ UNCHANGED End
     \/ ("cancel" \in Faults \/ Needs = 0) /\ EndAs("cancelled")
  /\ UNCHANGED <<use, Codec, got, again, source>>

\* what a deleted stage does is undefined: the model ends there
Stage ==
  /\ ~deleted
  /\ \/ Loop \/ RequestReturns \/ DrainImplReturns \/ NotReady \/ EndOfStream
     \/ ReceiveFails \/ ReceiveFrame \/ SinkReturns

DecodeNext == OnNext \/ OnUnusable \/ OnComplete \/ OnError \/ Stage

DecodeSpec == DecodeInit /\ [][DecodeNext]_decodeVars

\* calls return and the source answers
Answers == pc = "idle" /\ (OnNext \/ OnUnusable \/ OnComplete)

(***************************************************************************)
(* Properties                                                              *)
(***************************************************************************)
\* With a decoder that takes every packet a frame has the id of its packet,
\* also after a change of metadata that leaves ids behind in _ids.
IdsInStep == Faults = {} => \A i \in 1..Len(got) : got[i][1] = got[i][2]

\* Whatever the decoder refuses or swallows, a key frame gets its own id, ...
KeysInStep == \A i \in 1..Len(got) : Key(got[i][1]) => got[i][1] = got[i][2]

\* ... and no frame gets the id of a later one.
NeverAhead == \A i \in 1..Len(got) : got[i][2] <= got[i][1]

\* A stream that completes has delivered every frame that its last decoder was
\* fed with: the frames kept back come out at the end.
CompleteIsFull ==
  ended = "complete" /\ Faults = {} =>
    \A n \in Numbers :
      Frame(n) /\ (\E m \in 1..n : ~Frame(m)) /\ ~(\E m \in n + 1..Len(Packets) : ChangedAt(use, m))
      => \E i \in 1..Len(got) : got[i][1] = n

\* Whoever ends the stream, and inside whichever call, no call goes on in a deleted
\* stage; the one exception is on_next with metadata that no decoder can be made for.
DeletedIsLeft ==
  deleted /\ pc # "idle" => source.next > 1 /\ Unusable(source.next - 1)

\* A source that answers every request, at once or later, takes the stream to
\* its end, and the stage is deleted.
EndsAndIsDeleted == <>(ended # "" /\ deleted)

\* Ids and frames in every state.
DecodeSafety ==
  /\ DecodeTypeOK
  /\ IdsInStep
  /\ NeverAhead
  /\ CompleteIsFull
  /\ DeletedIsLeft
=============================================================================
