---------------------------- MODULE BotInstance ----------------------------
(***************************************************************************)
(* A bot at work: bot_instance (run_bot, queue_message, the two operators  *)
(* that serve frames and control messages, configure) under the callbacks  *)
(* that video_bot.cpp wraps around the user's: drop strategies and the     *)
(* current frame.  Its input is the merge of the frames and of the control *)
(* channel; Merge and FlatMap give it one input at a time.                 *)
(***************************************************************************)
EXTENDS Integers, Sequences

CONSTANTS
  Frames,      \* bound: frames of the input
  BatchSize,   \* bound: frames threaded_worker hands on at once
  Controls,    \* bound: control messages
  Halves,      \* frames whose id has a zero in it: the first one of a camera, {0, pos}
  Modes        \* of "file"; "rtm", with a control channel, which does not end with the
               \* frames; "batch", in which every frame is a batch of its own

ASSUME BotAssumption ==
  /\ Frames \in Nat \ {0} /\ BatchSize \in Nat \ {0} /\ Controls \in Nat
  /\ Halves \subseteq 1..Frames /\ Modes \subseteq {"file", "rtm", "batch"}

VARIABLES
  mode,             \* chosen once
  messageBuffer,    \* _message_buffer: [what, id]
  currentFrameId,   \* _current_frame_id, 0 for {0, 0}
  strategy,         \* drop_strategy::select_function
  at,               \* "configure", "idle", "callback", "shutdown", "done"; "failed" by an error
  selected,         \* the frames img_callback has still to go through
  frames, controls, \* the inputs: [open, next]
  queued,           \* all messages queued so far, with the id they ought to have
  processed,        \* frames the user's callback has seen
  sent,             \* messages handed on downstream
  told              \* the commands ctrl_callback was given by the SDK itself

vars == <<mode, messageBuffer, currentFrameId, strategy, at, selected, frames, controls, queued,
          processed, sent, told>>

None == 0           \* frame_id{0, 0}
Strategies == {"as_needed", "never"}
Ids == 0..Frames    \* frames are numbered as they come
Messages == [what : {"analysis", "debug", "control"}, id : Ids]

TypeOK ==
  /\ mode \in Modes
  /\ messageBuffer \in Seq(Messages) /\ queued \in Seq(Messages) /\ sent \in Seq(Messages)
  /\ currentFrameId \in Ids /\ strategy \in Strategies
  /\ at \in {"configure", "idle", "callback", "shutdown", "done", "failed"}
  /\ selected \in Seq(Ids) /\ processed \in Seq(Ids)
  /\ frames \in [open : BOOLEAN, next : 1..Frames + 1]
  /\ controls \in [open : BOOLEAN, next : 1..Controls + 1]
  /\ told \in Seq({"configure", "shutdown"})

Init ==
  /\ mode \in Modes
  /\ messageBuffer = <<>> /\ currentFrameId = None /\ strategy = "as_needed"
  /\ at = "configure" /\ selected = <<>>
  /\ frames = [open |-> TRUE, next |-> 1] /\ controls = [open |-> mode = "rtm", next |-> 1]
  /\ queued = <<>> /\ processed = <<>> /\ sent = <<>> /\ told = <<>>

\* slip: an explicit id is replaced too
EffectiveId_Always(id, current) == current

\* queue_message: a message without an id is bound to the current frame, if both
\* halves of its id are other than zero
EffectiveId(id, current) ==
  IF id = None /\ current \notin Halves \cup {None} THEN current ELSE id

\* what the user's callback returns or sends, none or one message, joins the
\* buffer; `wanted' is the id it ought to have
Queue(answers, what, id, current, wanted) ==
  /\ messageBuffer' = IF answers
       THEN Append(messageBuffer, [what |-> what, id |-> EffectiveId(id, current)])
       ELSE messageBuffer
  /\ queued' = IF answers THEN Append(queued, [what |-> what, id |-> wanted]) ELSE queued

\* slip: the buffer is not cleared
Flush_Not(all) == sent' = sent \o all /\ messageBuffer' = all

\* slip: only the message at hand is taken
Flush_Last(all) ==
  /\ sent' = IF all = <<>> THEN sent ELSE Append(sent, all[Len(all)])
  /\ messageBuffer' = <<>>

\* the whole buffer goes downstream, behind prepare_message_buffer_for_downstream
Flush(all) == sent' = sent \o all /\ messageBuffer' = <<>>

\* slip: a strategy that is not known is taken as it is
Configured_Raw(s) == strategy' \in {s, "unknown"}

\* drop_strategy::update: a configure command without a strategy sets the default
Configured(s) == strategy' = s

Configure ==
  /\ at = "configure"
  /\ at' = "idle"
  /\ told' = Append(told, "configure")
  /\ \E s \in Strategies, answers \in BOOLEAN :
       Configured(s) /\ Queue(answers, "debug", None, currentFrameId, None)
  /\ UNCHANGED <<mode, currentFrameId, selected, frames, controls, processed, sent>>

(***************************************************************************)
(* Frames                                                                  *)
(***************************************************************************)
\* slip: the oldest ones are kept
Select_Oldest(batch) ==
  IF strategy = "as_needed" /\ Len(batch) > 1 THEN <<batch[1], batch[Len(batch) \div 2]>> ELSE batch

\* slip: one frame too few
Select_Fewer(batch) == IF strategy = "as_needed" THEN SubSeq(batch, 2, Len(batch)) ELSE batch

\* drop_strategy_as_needed: the one in the middle and the newest one
Select(batch) ==
  IF strategy = "as_needed" /\ Len(batch) > 1
  THEN <<batch[Len(batch) \div 2], batch[Len(batch)]>>
  ELSE batch

\* a multiframe; one without frames (metadata only) passes through
OnFrames(n) ==
  /\ at = "idle" /\ frames.open /\ frames.next + n - 1 <= Frames
  /\ mode = "batch" => n <= 1
  /\ frames' = [frames EXCEPT !.next = @ + n]
  /\ IF n = 0 THEN UNCHANGED <<at, selected>>
     ELSE at' = "callback" /\ selected' = Select([k \in 1..n |-> frames.next + k - 1])
  /\ UNCHANGED <<mode, messageBuffer, currentFrameId, strategy, controls, queued, processed, sent, told>>

\* slip: the frame stays current
FrameAfter_Kept == Head(selected)

FrameAfter == None

\* process_single_frame: what the user's callback sends is bound to the current
\* frame by default, or to a frame it names
ProcessFrame ==
  /\ at = "callback" /\ selected # <<>>
  /\ \E answers \in BOOLEAN, id \in {None} \cup (1..Head(selected)) :
       Queue(answers, "analysis", id, Head(selected), IF id = None THEN Head(selected) ELSE id)
  /\ currentFrameId' = FrameAfter
  /\ processed' = Append(processed, Head(selected))
  /\ selected' = Tail(selected)
  /\ UNCHANGED <<mode, strategy, at, frames, controls, sent, told>>

FramesDone ==
  /\ at = "callback" /\ selected = <<>>
  /\ Flush(messageBuffer)
  /\ at' = "idle"
  /\ UNCHANGED <<mode, currentFrameId, strategy, selected, frames, controls, queued, processed, told>>

(***************************************************************************)
(* Control messages                                                        *)
(***************************************************************************)
\* one for this bot; a configure command changes the strategy as well
OnControl ==
  /\ at = "idle" /\ controls.open /\ controls.next <= Controls
  /\ controls' = [controls EXCEPT !.next = @ + 1]
  /\ (\E s \in Strategies : Configured(s)) \/ UNCHANGED strategy
  /\ \E answers \in BOOLEAN :
       LET all == IF answers
             THEN Append(messageBuffer, [what |-> "control", id |-> EffectiveId(None, currentFrameId)])
             ELSE messageBuffer
       IN  /\ queued' = IF answers THEN Append(queued, [what |-> "control", id |-> None]) ELSE queued
           /\ Flush(all)
  /\ UNCHANGED <<mode, currentFrameId, at, selected, frames, processed, told>>

\* one for another bot, or one that is not understood
OnOtherControl ==
  /\ at = "idle" /\ controls.open /\ controls.next <= Controls
  /\ controls' = [controls EXCEPT !.next = @ + 1]
  /\ UNCHANGED <<mode, messageBuffer, currentFrameId, strategy, at, selected, frames, queued, processed,
                 sent, told>>

(***************************************************************************)
(* The end of the input                                                    *)
(***************************************************************************)
FramesEnd ==
  /\ at = "idle" /\ frames.open
  /\ frames' = [frames EXCEPT !.open = FALSE]
  /\ UNCHANGED <<mode, messageBuffer, currentFrameId, strategy, at, selected, controls, queued, processed,
                 sent, told>>

\* an error of one input ends the merge at once and passes by run_bot: concat does not
\* go on to shutdown_stream, and what is in the buffer stays there
InputFails ==
  /\ at = "idle" /\ (frames.open \/ controls.open)
  /\ at' = "failed"
  /\ frames' = [frames EXCEPT !.open = FALSE]
  /\ controls' = [controls EXCEPT !.open = FALSE]
  /\ UNCHANGED <<mode, messageBuffer, currentFrameId, strategy, selected, queued, processed, sent, told>>

\* slip: what was said before must have been sent
AllEnded_Quiet == ~frames.open /\ ~controls.open /\ messageBuffer = <<>>

AllEnded == ~frames.open /\ ~controls.open

\* run_bot: behind the last input, concat subscribes to shutdown_stream
Shutdown ==
  /\ at = "idle" /\ AllEnded
  /\ at' = "shutdown"
  /\ told' = Append(told, "shutdown")
  /\ \E answers \in BOOLEAN : Queue(answers, "debug", None, currentFrameId, None)
  /\ UNCHANGED <<mode, currentFrameId, strategy, selected, frames, controls, processed, sent>>

\* slip: only the answer to the shutdown command is sent
LastSent_Early == Len(messageBuffer) <= 1

LastSent == messageBuffer = <<>>

SendLast ==
  /\ at = "shutdown"
  /\ IF LastSent THEN at' = "done" /\ UNCHANGED <<sent, messageBuffer>>
     ELSE sent' = Append(sent, Head(messageBuffer)) /\ messageBuffer' = Tail(messageBuffer) /\ UNCHANGED at
  /\ UNCHANGED <<mode, currentFrameId, strategy, selected, frames, controls, queued, processed, told>>

Works == Configure \/ ProcessFrame \/ FramesDone \/ Shutdown \/ SendLast
Next ==
  \/ Works \/ (\E n \in 0..BatchSize : OnFrames(n)) \/ OnControl \/ OnOtherControl \/ FramesEnd
  \/ InputFails

Spec == Init /\ [][Next]_vars

\* callbacks return
FairSpec == Spec /\ WF_vars(Works)
(***************************************************************************)
(* Properties                                                              *)
(***************************************************************************)
What(s) == [k \in DOMAIN s |-> s[k].what]

\* Whatever the bot says, in its callbacks, when it is configured or shut down,
\* goes downstream once and in order, or is still in the buffer.
NothingLost == What(sent) \o What(messageBuffer) = What(queued)

\* "by default a message is bound to the current frame that is received by the
\* callback function" (video_bot.h), and to no frame outside of it.  The frames
\* of Halves are excepted: queue_message takes their ids for none at all.
BoundToFrame ==
  \A k \in DOMAIN sent : queued[k].id \notin Halves => sent[k].id = queued[k].id

\* However many frames are dropped, the newest one of a multiframe is not, and
\* frames are never processed twice or backwards.
FreshAndForward ==
  /\ \A j, k \in DOMAIN processed : j < k => processed[j] < processed[k]
  /\ at = "idle" /\ frames.next > 1 => processed[Len(processed)] = frames.next - 1

\* In batch mode no frame is dropped (execution_mode::BATCH).
BatchIsComplete ==
  mode = "batch" /\ at # "callback" => processed = [k \in 1..frames.next - 1 |-> k]

\* ctrl_callback is "guaranteed to be invoked during initialization", before any
\* frame, and learns of the shutdown last, when everything else was sent.
Ceremonies ==
  /\ processed # <<>> \/ sent # <<>> => told # <<>> /\ told[1] = "configure"
  /\ at = "done" => told = <<"configure", "shutdown">> /\ messageBuffer = <<>>

\* A bot whose video came to its end is shut down (ShutdownTest), unless a control
\* channel keeps its input open.  One whose video ended with an error is not: merge,
\* flat_map and concat pass the error on, and the bot is told nothing.
BotIsShutDown == ~frames.open /\ at # "failed" /\ mode # "rtm" ~> at = "done"

\* What the bot says and what it is told.
Safety ==
  /\ TypeOK
  /\ NothingLost
  /\ BoundToFrame
  /\ BatchIsComplete
  /\ Ceremonies
=============================================================================
