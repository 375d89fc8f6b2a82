------------------------------ MODULE Recorder ------------------------------
(***************************************************************************)
(* The recorder tool, standalone: video_stream between the threaded worker *)
(* that delivers the packets and the file sink (VideoFileSink);            *)
(* timer_breaker (take_while of a flag that a timer clears) for            *)
(* --time-limit; the main thread, which runs the asio loop with the posted *)
(* requests to stop the client, the signal handler at any point of it, and *)
(* the destructor at the end.                                              *)
(* The packets' way up to video_stream is abstract: it stops delivering    *)
(* some time after cancel(), the delivery under way still comes.           *)
(***************************************************************************)
EXTENDS VideoFileSink

CONSTANTS
  Times,       \* the timestamps of the input's packets, which bound their number
  Inputs,      \* of "channel", "camera" and "url"
  TimeLimits,  \* whether --time-limit is given: TRUE, FALSE or both
  Signals      \* bound: SIGINT, SIGTERM, SIGQUIT received

ASSUME RecorderAssumption ==
  /\ Times \in Seq(Nat) /\ Signals \in Nat /\ TimeLimits \subseteq BOOLEAN
  /\ Inputs \subseteq {"channel", "camera", "url"}

Frames == Len(Times)

VARIABLES
  input, timeLimit,      \* the command line
  pc,            \* where the worker thread is, and the main thread outside its loop
  subscription, sink,   \* video_stream: the optionals are initialized
  upstream,      \* "open", "cancelled", "ended"
  file,          \* the file sink: "open", "closed" (on_complete deletes it)
  delivered, recorded,   \* packets handed to video_stream, and to the file
  expired,       \* the timer of timer_breaker has fired
  leaving,       \* the loop has nothing left to run and main() returns
  signals,       \* signals received
  requests,      \* posted requests to stop the client
  client,        \* "running", "stopped"
  misused,       \* what was called after its end: "upstream", "file"
  failed         \* "" or the CHECK that failed

CommandLine == <<input, timeLimit>>
vars == <<sinkVars, CommandLine, pc, subscription, sink, upstream, file, delivered, recorded, expired,
          leaving, signals, requests, client, misused, failed>>
Stream == <<subscription, sink, upstream, file, misused>>
Outside == <<expired, leaving, signals>>
Counts == <<delivered, recorded>>
Loop == <<requests, client>>

Threads == {"worker", "main"}
Steps == {"idle", "onNext", "record", "onEnd", "cancel", "reset", "complete", "drop", "post", "gone"}

TypeOK ==
  /\ SinkTypeOK
  /\ input \in Inputs /\ timeLimit \in TimeLimits
  /\ pc \in [Threads -> Steps] /\ subscription \in BOOLEAN /\ sink \in BOOLEAN
  /\ upstream \in {"open", "cancelled", "ended"} /\ file \in {"open", "closed"}
  /\ delivered \in 0..Frames /\ recorded \in 0..delivered /\ expired \in BOOLEAN
  /\ leaving \in BOOLEAN
  /\ signals \in 0..Signals /\ requests \in 0..Signals + 1 /\ client \in {"running", "stopped"}
  /\ misused \subseteq {"upstream", "file"} /\ failed \in {"", "connect", "onNext", "onEnd", "stop", "mux"}

Runs == failed = ""
At(t, step) == Runs /\ pc[t] = step
Go(t, step) == pc' = [pc EXCEPT ![t] = step]

\* connect() in the constructor, which is for channels only
Init ==
  /\ SinkInit
  /\ input \in Inputs /\ timeLimit \in TimeLimits
  /\ pc = [t \in Threads |-> "idle"] /\ subscription = TRUE /\ sink = TRUE
  /\ upstream = "open" /\ file = "open" /\ delivered = 0 /\ recorded = 0
  /\ expired = FALSE /\ leaving = FALSE /\ signals = 0 /\ requests = 0 /\ client = "running" /\ misused = {}
  /\ failed = IF input = "channel" THEN "" ELSE "connect"

(***************************************************************************)
(* The worker thread                                                       *)
(***************************************************************************)
\* a packet passes timer_breaker, or the time was over and it ends the stream
Deliver ==
  /\ At("worker", "idle") /\ upstream = "open" /\ delivered < Frames
  /\ IF expired
     THEN upstream' = "ended" /\ Go("worker", "onEnd") /\ UNCHANGED delivered
     ELSE delivered' = delivered + 1 /\ Go("worker", "onNext") /\ UNCHANGED upstream
  /\ UNCHANGED <<sinkVars, CommandLine, subscription, sink, file, misused, recorded, Outside, Loop, failed>>

\* the subscription to the channel fails
Fail ==
  /\ At("worker", "idle") /\ upstream = "open"
  /\ upstream' = "ended" /\ Go("worker", "onEnd")
  /\ UNCHANGED <<sinkVars, CommandLine, subscription, sink, file, misused, Counts, Outside, Loop, failed>>

\* slip: on_next returns when the stream was stopped
Unusable_Return == Go("worker", "idle") /\ failed' = failed

Unusable == failed' = "onNext" /\ UNCHANGED pc

\* on_next: CHECK(_subscription), CHECK(_sink)
OnNext ==
  /\ At("worker", "onNext")
  /\ IF subscription /\ sink THEN Go("worker", "record") /\ UNCHANGED failed ELSE Unusable
  /\ UNCHANGED <<sinkVars, CommandLine, Stream, Counts, Outside, Loop>>

\* _sink->on_next
Record ==
  /\ At("worker", "record") /\ Go("worker", "idle")
  /\ IF sink /\ file = "open"
     THEN /\ recorded' = recorded + 1 /\ UNCHANGED misused
          /\ \/ SinkMetadata /\ UNCHANGED failed
             \/ \E key, told \in BOOLEAN :
                  IF SinkAborts(Times[delivered], key, told)
                  THEN failed' = "mux" /\ UNCHANGED sinkVars
                  ELSE \/ SinkFrame(Times[delivered], key, told) /\ UNCHANGED failed
                       \/ /\ SinkMayAbort(Times[delivered], key, told)
                          /\ failed' = "mux" /\ UNCHANGED sinkVars
     ELSE misused' = misused \cup {"file"} /\ UNCHANGED <<recorded, sinkVars, failed>>
  /\ UNCHANGED <<CommandLine, subscription, sink, upstream, file, delivered, Outside, Loop>>

\* on_complete and on_error: the same CHECKs, then stop()
OnEnd ==
  /\ At("worker", "onEnd")
  /\ IF subscription /\ sink THEN Go("worker", "cancel") /\ UNCHANGED failed
     ELSE failed' = "onEnd" /\ UNCHANGED pc
  /\ UNCHANGED <<sinkVars, CommandLine, Stream, Counts, Outside, Loop>>

(***************************************************************************)
(* stop(), by the worker at the end, the signal handler or the destructor  *)
(***************************************************************************)
Cancel(t) ==
  /\ At(t, "cancel")
  /\ IF subscription
     THEN /\ Go(t, "reset")
          /\ IF upstream = "open" THEN upstream' = "cancelled" /\ UNCHANGED misused
             ELSE misused' = misused \cup {"upstream"} /\ UNCHANGED upstream
     ELSE Go(t, "complete") /\ UNCHANGED <<upstream, misused>>
  /\ UNCHANGED <<sinkVars, CommandLine, subscription, sink, file, Counts, Outside, Loop, failed>>

Reset(t) ==
  /\ At(t, "reset") /\ Go(t, "complete") /\ subscription' = FALSE
  /\ UNCHANGED <<sinkVars, CommandLine, sink, upstream, file, misused, Counts, Outside, Loop, failed>>

\* slip: only a stream that ended by itself completes its sink
Completes_AtEnd(t) == t = "worker" /\ sink

Completes(t) == sink

Complete(t) ==
  /\ At(t, "complete")
  /\ IF Completes(t)
     THEN /\ Go(t, "drop")
          /\ IF file = "open" THEN file' = "closed" /\ SinkDelete /\ UNCHANGED misused
             ELSE misused' = misused \cup {"file"} /\ UNCHANGED <<file, sinkVars>>
     ELSE Go(t, "post") /\ UNCHANGED <<file, misused, sinkVars>>
  /\ UNCHANGED <<CommandLine, subscription, sink, upstream, Counts, Outside, Loop, failed>>

\* slip: _sink keeps the sink that has deleted itself
Dropped_Kept == UNCHANGED sink

Dropped == sink' = FALSE

Drop(t) ==
  /\ At(t, "drop") /\ Go(t, "post") /\ Dropped
  /\ UNCHANGED <<sinkVars, CommandLine, subscription, upstream, file, misused, Counts, Outside, Loop, failed>>

\* slips: only a signal asks, only the end does, stop() and its caller both do
Requested_BySignal(t) == IF t = "main" THEN requests + 1 ELSE requests
Requested_AtEnd(t) == IF t = "worker" THEN requests + 1 ELSE requests
Requested_Twice(t) == requests + 2

Requested(t) == requests + 1

\* the done callback or the handler: request_rtm_client_stop; the destructor
\* returns from stop() and posts nothing
Post(t) ==
  /\ At(t, "post")
  /\ IF t = "main" /\ leaving
     THEN Go(t, "gone") /\ UNCHANGED requests
     ELSE Go(t, IF t = "worker" THEN "gone" ELSE "idle") /\ requests' = Requested(t)
  /\ UNCHANGED <<sinkVars, CommandLine, Stream, Counts, Outside, client, failed>>

(***************************************************************************)
(* Signals, the timer and the loop                                         *)
(***************************************************************************)
Signal ==
  /\ At("main", "idle") /\ signals < Signals
  /\ signals' = signals + 1 /\ Go("main", "cancel")
  /\ UNCHANGED <<sinkVars, CommandLine, Stream, Counts, expired, leaving, Loop, failed>>

Expire ==
  /\ Runs /\ timeLimit /\ ~expired /\ expired' = TRUE
  /\ UNCHANGED <<sinkVars, CommandLine, pc, Stream, Counts, leaving, signals, Loop, failed>>

\* client->stop() CHECKs that the client is running
StopClient ==
  /\ At("main", "idle") /\ requests > 0 /\ requests' = requests - 1
  /\ IF client = "running" THEN client' = "stopped" /\ UNCHANGED failed
     ELSE failed' = "stop" /\ UNCHANGED client
  /\ UNCHANGED <<sinkVars, CommandLine, pc, Stream, Counts, Outside>>

\* the loop returns when the timer is no longer pending; ~video_stream calls stop()
Leave ==
  /\ At("main", "idle") /\ client = "stopped" /\ requests = 0 /\ (timeLimit => expired)
  /\ leaving' = TRUE /\ Go("main", "cancel")
  /\ UNCHANGED <<sinkVars, CommandLine, Stream, Counts, expired, signals, Loop, failed>>

Stopping(t) == Cancel(t) \/ Reset(t) \/ Complete(t) \/ Drop(t) \/ Post(t)
InVideoStream == OnNext \/ Record \/ OnEnd \/ Stopping("worker")

Next ==
  \/ Deliver \/ Fail \/ InVideoStream \/ Stopping("main")
  \/ Signal \/ Expire \/ StopClient \/ Leave

Spec == Init /\ [][Next]_vars

\* calls return, the loop runs and time passes; packets and signals need not come
FairSpec ==
  /\ Spec
  /\ WF_vars(InVideoStream) /\ WF_vars(Stopping("main"))
  /\ WF_vars(Expire) /\ WF_vars(StopClient \/ Leave)

(***************************************************************************)
(* Properties                                                              *)
(***************************************************************************)
\* on_next, on_complete, on_error and the client's stop() find what their
\* CHECKs demand, in a recorder of a channel that no signal interrupts.
NoCheckFails == input = "channel" /\ signals = 0 => failed \in {"", "mux"}

\* A packet that was delivered is in the file, is on its way there, or has
\* stopped the program with a CHECK: none is swallowed silently.  Left out is
\* a sink that was used after it was completed ("file" of misused): a signal's stop()
\* may complete it between on_next's CHECK and its use, or complete it twice.
NoneSwallowed ==
  "file" \notin misused =>
    delivered = recorded + (IF pc["worker"] \in {"onNext", "record"} THEN 1 ELSE 0)

\* The file is finished before the client is stopped and the program exits,
\* and a finished recording leaves no file under its temporary name.
FileIsFinished ==
  /\ client = "stopped" => file = "closed"
  /\ file = "closed" => writer = {}

\* A stream that ends by itself finishes its file once, though the destructor
\* stops it again.
FileIsFinishedOnce == signals = 0 => "file" \notin misused

Exits == pc["main"] = "gone" \/ ~Runs

\* The end of the stream, and a signal, let the tool exit.
EndExits == (pc["worker"] = "onEnd") ~> Exits
SignalExits == (signals > 0) ~> Exits

\* The state of the recording and of its file.
Safety ==
  /\ TypeOK
  /\ NoCheckFails
  /\ FileIsFinishedOnce
  /\ FileIsFinished

\* Either way the tool exits.
Ending ==
  /\ EndExits
  /\ SignalExits
=============================================================================
