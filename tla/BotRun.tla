------------------------------- MODULE BotRun -------------------------------
(***************************************************************************)
(* A bot that is not in a pool, from start_bot to the return of main():    *)
(* the asio loop with the timers of the metrics and the RTM client, the    *)
(* thread on which frames reach the bot (the workers upstream of it are    *)
(* one with it here), and the thread that a signal interrupts.  Whoever    *)
(* ends the stream runs the action of do_finally, which stops the rest.    *)
(*                                                                         *)
(* What follows a use of a freed object is undefined: the model ends there.*)
(***************************************************************************)
EXTENDS Naturals, Sequences

CONSTANT Interrupts     \* bound: signals received

VARIABLES
  origin,     \* "none" before start_bot; "channel", "paced" (file, replay, camera), "url"
  rtm,        \* the client: "none", "running", "pending" (PENDING_STOPPED), "stopped"
  update, push,     \* timers of the metrics: "none", "set", "queued", "gone"
  queue,      \* what the loop will run, in order
  video, control,   \* "none", "open", "dropped" (deleted off the loop, its data may still
              \* come), "closed"
  worker,     \* "waits", "inside" (the bot), "leaves", "done"
  stopping,   \* the worker's stage is cancelled
  breaker,    \* signal_breaker: "none", "live", "deleted"
  ending,     \* the action of do_finally: "no", "finished", "posting", "done"
  late,       \* history: stop_metrics found a handler of its timers queued
  caught,     \* signals received
  touched,    \* a freed object was used
  over,       \* "no", "loop" (run() returned), "exited"
  broken      \* "" or the CHECK that failed

timers == <<update, push, late>>
channels == <<video, control>>
stream == <<worker, stopping, breaker, ending>>
end == <<caught, touched, over, broken>>
vars == <<origin, rtm, timers, queue, channels, stream, end>>

Tasks == {"update", "push", "aborted", "metrics", "stop", "closed", "message",
          "drop video", "drop control"}

TypeOK ==
  /\ origin \in {"none", "channel", "paced", "url"}
  /\ rtm \in {"none", "running", "pending", "stopped"}
  /\ update \in {"none", "set", "queued", "gone"} /\ push \in {"none", "set", "queued", "gone"}
  /\ queue \in Seq(Tasks) /\ Len(queue) <= 9
  /\ video \in {"none", "open", "dropped", "closed"}
  /\ control \in {"none", "open", "dropped", "closed"}
  /\ worker \in {"waits", "inside", "leaves", "done"} /\ stopping \in BOOLEAN
  /\ breaker \in {"none", "live", "deleted"}
  /\ ending \in {"no", "finished", "posting", "done"} /\ late \in BOOLEAN
  /\ caught \in 0..Interrupts /\ touched \in BOOLEAN /\ over \in {"no", "loop", "exited"}
  /\ broken \in {"", "publisher", "publish", "stop", "unsubscribe"}

Init ==
  /\ origin = "none" /\ rtm = "none" /\ update = "none" /\ push = "none" /\ queue = <<>>
  /\ video = "none" /\ control = "none" /\ worker = "waits" /\ stopping = FALSE
  /\ breaker = "none" /\ ending = "no" /\ late = FALSE
  /\ caught = 0 /\ touched = FALSE /\ over = "no" /\ broken = ""

Runs == origin # "none" /\ over # "exited" /\ ~touched /\ broken = ""
HasRtm == rtm # "none"

\* init_metrics and expose_metrics: pushing needs the client, or a CHECK fails
StartMetrics(pushes, publisher) ==
  /\ update' = "set" /\ push' = IF pushes /\ publisher THEN "set" ELSE "none"
  /\ broken' = IF pushes /\ ~publisher THEN "publisher" ELSE ""

\* start_bot, with or without a channel to push metrics to: the timers, the
\* stream, subscribed to on the loop
Begin(from, pushes) ==
  /\ origin = "none" /\ origin' = from
  /\ rtm' = IF from = "channel" THEN "running" ELSE "none"
  /\ StartMetrics(pushes, from = "channel")
  /\ video' = "open" /\ control' = IF from = "channel" THEN "open" ELSE "none"
  /\ breaker' = "live"
  /\ UNCHANGED <<queue, worker, stopping, ending, late, caught, touched, over>>

(***************************************************************************)
(* The loop                                                                *)
(***************************************************************************)
Task(task) == Runs /\ over = "no" /\ queue # <<>> /\ Head(queue) = task
Done == queue' = Tail(queue)

Expire ==
  /\ Runs /\ over = "no"
  /\ \/ update = "set" /\ update' = "queued" /\ queue' = Append(queue, "update") /\ UNCHANGED push
     \/ push = "set" /\ push' = "queued" /\ queue' = Append(queue, "push") /\ UNCHANGED update
  /\ UNCHANGED <<origin, rtm, late, channels, stream, end>>

\* update_process_metrics
Update ==
  /\ Task("update") /\ Done /\ update' = "set"
  /\ UNCHANGED <<origin, rtm, push, late, channels, stream, end>>

\* RtmClient: publish CHECKs that the client is not stopped
Published == broken' = IF rtm = "stopped" THEN "publish" ELSE ""

\* push_metrics: the timer is armed again before the CHECK in publish
Push ==
  /\ Task("push") /\ Done /\ push' = "set" /\ Published
  /\ UNCHANGED <<origin, rtm, update, late, channels, stream, caught, touched, over>>

\* metrics::stop cancels the waits there are; a handler that is queued is not
\* recalled
Cancelled(timer) == IF timer = "set" THEN "gone" ELSE timer
Aborted(timer) == IF timer = "set" THEN <<"aborted">> ELSE <<>>

StopMetrics ==
  /\ Task("metrics")
  /\ update' = Cancelled(update) /\ push' = Cancelled(push)
  /\ queue' = Tail(queue) \o Aborted(push) \o Aborted(update)
  /\ late' = ("queued" \in {update, push})
  /\ UNCHANGED <<origin, rtm, channels, stream, end>>

\* the handler of a cancelled wait deletes its timer
DeleteTimer == Task("aborted") /\ Done /\ UNCHANGED <<origin, rtm, timers, channels, stream, end>>

StopClient ==
  /\ Task("stop")
  /\ IF rtm = "running"
     THEN rtm' = "pending" /\ queue' = Append(Tail(queue), "closed") /\ UNCHANGED broken
     ELSE broken' = "stop" /\ Done /\ UNCHANGED rtm
  /\ UNCHANGED <<origin, timers, channels, stream, caught, touched, over>>

Closed ==
  /\ Task("closed") /\ Done /\ rtm' = "stopped"
  /\ UNCHANGED <<origin, timers, channels, stream, end>>

\* what the bot says, posted by sink_impl::on_next
Message ==
  /\ Task("message") /\ Done /\ Published
  /\ UNCHANGED <<origin, rtm, timers, channels, stream, caught, touched, over>>

\* an unsubscription that thread_checking_client has forwarded
Unsubscribe(channel) ==
  /\ Task(channel) /\ Done
  /\ broken' = IF rtm = "stopped" THEN "unsubscribe" ELSE ""
  /\ video' = IF channel = "drop video" THEN "closed" ELSE video
  /\ control' = IF channel = "drop control" THEN "closed" ELSE control
  /\ UNCHANGED <<origin, rtm, timers, stream, caught, touched, over>>

\* slip: the bot's main loop does not look at the timers of the metrics
Busy_NoMetrics == rtm \in {"running", "pending"} \/ (origin = "paced" /\ video = "open")

\* what holds run(), besides what is queued
Busy ==
  \/ update = "set" \/ push = "set"
  \/ rtm \in {"running", "pending"}
  \/ origin = "paced" /\ video = "open"

LoopEnds ==
  /\ Runs /\ over = "no" /\ queue = <<>> /\ ~Busy /\ over' = "loop"
  /\ UNCHANGED <<origin, rtm, timers, queue, channels, stream, caught, touched, broken>>

\* main waits for _finished; what it posts then is not run
Exit ==
  /\ Runs /\ over = "loop" /\ ending # "no" /\ over' = "exited"
  /\ UNCHANGED <<origin, rtm, timers, queue, channels, stream, caught, touched, broken>>

(***************************************************************************)
(* The stream                                                              *)
(***************************************************************************)
\* a message, if there is none on its way (bound)
Said == IF HasRtm /\ "message" \notin {queue[k] : k \in 1..Len(queue)} THEN {<<"message">>} ELSE {}
Says == \E said \in {<<>>} \cup Said : queue' = queue \o said

Reachable == over = "no" /\ (origin = "channel" => rtm = "running")

\* a frame wakes the worker, which finds that it is cancelled or calls the bot;
\* a channel that was deleted off the loop is still called
Frame ==
  /\ Runs /\ Reachable
  /\ \/ video = "dropped" /\ touched' = TRUE /\ UNCHANGED worker
     \/ /\ video = "open" /\ worker = "waits" /\ UNCHANGED touched
        /\ worker' = IF stopping THEN "leaves" ELSE "inside"
  /\ UNCHANGED <<origin, rtm, timers, queue, channels, stopping, breaker, ending, caught, over, broken>>

\* a message of the control channel is handled on the loop
Command ==
  /\ Runs /\ Reachable
  /\ \/ control = "dropped" /\ touched' = TRUE /\ UNCHANGED queue
     \/ control = "open" /\ Says /\ UNCHANGED touched
  /\ UNCHANGED <<origin, rtm, timers, channels, stream, caught, over, broken>>

\* the bot returns through the stages below the breaker, which a signal may
\* have deleted meanwhile
Return ==
  /\ Runs /\ worker = "inside" /\ Says
  /\ worker' = IF stopping THEN "leaves" ELSE "waits"
  /\ touched' \in {FALSE, breaker = "deleted"}
  /\ UNCHANGED <<origin, rtm, timers, channels, stopping, breaker, ending, caught, over, broken>>

\* the worker's stage, cancelled, deletes itself and cancels its source from
\* its thread: a channel's unsubscription is posted; of a paced source the
\* loop may be in the middle
Leave ==
  /\ Runs /\ worker = "leaves" /\ worker' = "done"
  /\ video' = IF origin = "channel" THEN "dropped" ELSE "closed"
  /\ queue' = IF origin = "channel" THEN Append(queue, "drop video") ELSE queue
  /\ touched' \in {FALSE, origin = "paced"}
  /\ UNCHANGED <<origin, rtm, timers, control, stopping, breaker, ending, caught, over, broken>>

\* The source ends, on the worker's thread.  A channel only ends with an error
\* or because a limit cancels it; merge then cancels the control channel if it
\* was an error.
SourceEnds(how) ==
  /\ Runs /\ Reachable /\ video = "open" /\ worker = "waits" /\ ~stopping /\ breaker = "live"
  /\ worker' = "done" /\ breaker' = "deleted" /\ ending' = "finished"
  /\ LET limited == origin = "channel" /\ how = "complete"
         failing == control = "open" /\ how = "error"
     IN  /\ video' = IF limited THEN "dropped" ELSE "closed"
         /\ control' = IF failing THEN "dropped" ELSE control
         /\ queue' = queue \o (IF limited THEN <<"drop video">> ELSE <<>>)
                           \o (IF failing THEN <<"drop control">> ELSE <<>>)
  /\ UNCHANGED <<origin, rtm, timers, stopping, end>>

\* slips: the client is stopped first; it is left running
PostNext_StopFirst ==
  IF ending = "finished" /\ HasRtm THEN queue' = Append(queue, "stop") /\ ending' = "posting"
  ELSE queue' = Append(queue, "metrics") /\ ending' = "done"
PostNext_NoStop ==
  queue' = Append(queue, "metrics") /\ ending' = "done"

\* the action of do_finally, past `_finished = true`
PostNext ==
  IF ending = "finished"
  THEN queue' = Append(queue, "metrics") /\ ending' = IF HasRtm THEN "posting" ELSE "done"
  ELSE queue' = Append(queue, "stop") /\ ending' = "done"

Finally ==
  /\ Runs /\ ending \in {"finished", "posting"} /\ PostNext
  /\ UNCHANGED <<origin, rtm, timers, channels, worker, stopping, breaker, end>>

\* slip: the handler leaves the worker's stage as it is
Signalled_NoCancel == UNCHANGED stopping

\* _source_sub->cancel()
Signalled == stopping' = TRUE

\* signal_breaker's handler, on whatever thread: it stays registered when the
\* breaker is gone
Signal ==
  /\ Runs /\ over = "no" /\ breaker # "none" /\ caught < Interrupts /\ caught' = caught + 1
  /\ IF breaker = "deleted"
     THEN touched' = TRUE /\ UNCHANGED <<stopping, breaker, ending>>
     ELSE /\ breaker' = "deleted" /\ Signalled /\ ending' = "finished" /\ UNCHANGED touched
  /\ UNCHANGED <<origin, rtm, timers, queue, channels, worker, over, broken>>

Loop ==
  \/ Update \/ Push \/ StopMetrics \/ DeleteTimer \/ StopClient \/ Closed \/ Message
  \/ \E channel \in {"drop video", "drop control"} : Unsubscribe(channel)
  \/ LoopEnds

Threads == Return \/ Leave \/ Finally \/ Exit

Step ==
  \/ Loop \/ Threads \/ Expire \/ Frame \/ Command \/ Signal
  \/ \E how \in {"complete", "error"} : SourceEnds(how)

Next == Step \/ \E from \in {"channel", "paced", "url"}, pushes \in BOOLEAN : Begin(from, pushes)

(***************************************************************************)
(* Properties                                                              *)
(***************************************************************************)
\* The loop does not end before the stream has: what the stream's end posts is
\* run, whichever source it was and even if nothing else holds the loop.
LoopOutlivesStream == over # "no" => ending = "done"

\* Without a signal nothing freed is used, but for a channel that was deleted on
\* another thread than the loop's: its data comes until the unsubscription does.
FreedAsKnown == touched /\ caught = 0 => "dropped" \in {video, control}

\* The client is stopped once, behind the metrics and behind every unsubscription
\* and message of a stream that no signal interrupts; only a push whose timer had
\* expired before comes later.
StoppedLast ==
  /\ broken # "stop"
  /\ broken = "publish" => late \/ caught > 0
  /\ broken = "unsubscribe" => caught > 0
  /\ broken = "publisher" => origin # "channel"

\* What must not go wrong while a bot runs.
Safety ==
  /\ TypeOK
  /\ LoopOutlivesStream
  /\ FreedAsKnown
  /\ StoppedLast

\* The stream's end, by its source or by a signal, leads out of main(), unless
\* stop_metrics came too late for a timer, which is then armed for ever.
StreamEndsProgram == (ending # "no") ~> (~Runs \/ late)
=============================================================================
