------------------------------ MODULE Startup ------------------------------
(***************************************************************************)
(* main() of the four programs up to the asio loop, for every command line *)
(* they can be given, and the life of a pool's node after it.  A program   *)
(* reads its options, makes and starts the RTM client they ask for, and    *)
(* builds its stream, or joins a pool and builds streams as jobs come.     *)
(***************************************************************************)
EXTENDS Pool, CommandLine

VARIABLES
  tool,     \* the program, chosen once
  vm,       \* its command line, chosen once
  phase,    \* "parse", "client", "build", then "stream" (a stream runs), "pool" or "over"
  outcome   \* how a program that is over ended: "" before that, "usage", "start" (the
            \* client cannot be started), "unreachable", "resolution" and "connect"
            \* (assertions), "null" (a call on the client there is not), "loopless" (main
            \* returned before its stream could run), "done"

startVars == <<tool, vm, phase, outcome>>
allVars == <<vars, startVars>>

StartupInit ==
  /\ tool \in Tools
  /\ vm \in SUBSET Options(tool) \cup {{"unknown"}}
  /\ phase = "parse" /\ outcome = ""
  /\ Init /\ program = IF tool = "recorder" THEN "recorder" ELSE "bot"

Ends(how) == phase' = "over" /\ outcome' = how
Goes(on) == phase' = on /\ UNCHANGED outcome

\* the constructor of configuration
Parse ==
  /\ phase = "parse"
  /\ IF Accepted(tool, vm) THEN Goes("client") ELSE Ends("usage")
  /\ UNCHANGED <<tool, vm, vars>>

\* the client, if there is one, is started; the publisher takes it for granted
StartClient ==
  /\ phase = "client"
  /\ IF HasClient(tool, vm) THEN Goes("build") \/ Ends("start")
     ELSE IF tool = "publisher" THEN Ends("null") ELSE Goes("build")
  /\ UNCHANGED <<tool, vm, vars>>

InPool == "pool" \in vm

\* pool_job_controller::start() subscribes first; in batch mode nothing of it is
\* sent, because main returns without a loop
JoinPool ==
  /\ phase = "build" /\ InPool
  /\ IF ~HasClient(tool, vm) THEN Ends("null") /\ UNCHANGED vars
     ELSE IF IsBatch(tool, vm) THEN Ends("loopless") /\ UNCHANGED vars
     ELSE Goes("pool") /\ Join
  /\ UNCHANGED <<tool, vm>>

\* decoded_publisher CHECKs the resolution
Unscalable == "bad resolution" \in vm

\* start_bot reads the configuration first, which may not be JSON; in batch mode
\* the files are processed in the call
BuildBot ==
  /\ phase = "build" /\ ~InPool /\ tool = "bot"
  /\ \/ Given(vm, {"config", "config-file"}) /\ Ends("usage")
     \/ IF Unscalable THEN Ends("resolution")
        ELSE IF Source(vm) = "unreachable" THEN Ends("unreachable")
        ELSE IF ~IsBatch(tool, vm) THEN Goes("stream")
        ELSE Ends(IF Source(vm) \in {"file", "replay"} THEN "done" ELSE "loopless")
  /\ UNCHANGED <<tool, vm, vars>>

\* video_stream::connect
BuildRecorder ==
  /\ phase = "build" /\ ~InPool /\ tool = "recorder"
  /\ IF "input-channel" \notin vm THEN Ends("connect")
     ELSE IF Unscalable THEN Ends("resolution") ELSE Goes("stream")
  /\ UNCHANGED <<tool, vm, vars>>

Build ==
  /\ phase = "build" /\ tool \in {"publisher", "player"}
  /\ IF tool = "player" /\ Unscalable THEN Ends("resolution")
     ELSE IF Source(vm) = "unreachable" THEN Ends("unreachable") ELSE Goes("stream")
  /\ UNCHANGED <<tool, vm, vars>>

InLoop(A) == phase = "pool" /\ A /\ UNCHANGED startVars

Starting == Parse \/ StartClient \/ JoinPool \/ BuildBot \/ BuildRecorder \/ Build

\* but for the jobs that start (Jobs)
StartupNext ==
  \/ Parse \/ StartClient \/ JoinPool \/ BuildBot \/ BuildRecorder \/ Build
  \/ InLoop(Expire) \/ InLoop(Assign) \/ InLoop(OnStopJob) \/ InLoop(Signal)
  \/ InLoop(Heartbeat) \/ InLoop(Shutdown) \/ InLoop(StopClient) \/ InLoop(Closed)
  \/ InLoop(Exit)

(***************************************************************************)
(* Properties                                                              *)
(***************************************************************************)
SourceOptions ==
  {"input-channel", "input-video-file", "input-replay-file", "input-camera", "input-url"}
Named == [channel |-> "input-channel", file |-> "input-video-file",
          replay |-> "input-replay-file", camera |-> "input-camera", url |-> "input-url"]
Started == phase \in {"stream", "pool"}

\* A program that runs with a channel, to read or to write, has a client for it;
\* the publisher's is never missing, and the recorder always has a file.
ClientsForChannels ==
  /\ Started /\ (InPool \/ "channel" \in {Source(vm), Sink(vm)}) => HasClient(tool, vm)
  /\ tool = "publisher" => outcome # "null" /\ (phase = "stream" => Sink(vm) = "channel")
  /\ tool = "recorder" /\ Started => Sink(vm) = "file"

\* Of the sources a command line names a program that runs reads one, and what
\* it ignores is at most a URL beside it, or a replay file beside a video file.
ReadsWhatIsNamed ==
  phase = "stream" =>
    /\ Source(vm) # "unreachable" /\ Named[Source(vm)] \in vm
    /\ (vm \cap SourceOptions) \ {Named[Source(vm)]} \subseteq
         {"input-url"} \cup (IF Source(vm) = "file" THEN {"input-replay-file"} ELSE {})

\* The assertions and the missing client are met by these command lines only:
\* a pool without RTM options, no source (in a reader, not even a part of the RTM
\* options), a recorder that is given no RTM options.
AbortsAsKnown ==
  /\ outcome # "resolution"
  /\ outcome = "null" => InPool /\ ~Given(vm, RtmArgs)
  /\ outcome = "unreachable" =>
       vm \cap SourceOptions = {} /\ (tool # "publisher" => ~Given(vm, RtmArgs))
  /\ outcome = "connect" => ~Given(vm, RtmArgs)

\* What the programs can rely on once they have started.
StartupSafety ==
  /\ Safety
  /\ ClientsForChannels
  /\ ReadsWhatIsNamed
  /\ AbortsAsKnown
=============================================================================
