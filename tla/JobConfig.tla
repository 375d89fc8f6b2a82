----------------------------- MODULE JobConfig -----------------------------
(***************************************************************************)
(* What a node of a pool makes of the jobs it is sent: a job is a JSON     *)
(* object, read into the configurations that the command line is read into *)
(* otherwise, and not validated.  The bot (bot_environment) builds its     *)
(* stream from it; the recorder a recording, in a file that is named after *)
(* the channel.                                                            *)
(*                                                                         *)
(* A job is the set of its keys, and the name of its channel if it has     *)
(* one; a switch is on if its key is there, whatever its value.  "bad      *)
(* resolution" is a resolution that cannot be parsed.                      *)
(***************************************************************************)
EXTENDS Startup, Sequences

CONSTANT Channels   \* names of channels: sequences of letters and slashes

ASSUME ChannelsAssumption == \A name \in Channels : "{slash}" \notin {name[i] : i \in DOMAIN name}

VARIABLES
  work,     \* the streams of the jobs taken: channel, where they read and where they go
  refused   \* the job whose configuration ended the program

jobVars == <<work, refused>>

BotKeys == {"id", "channel", "input-channel", "input_video_file", "input_camera", "batch",
            "bad resolution"}
RecorderKeys == {"channel", "output-channel", "bad resolution"}

KeysOf(t) == IF t = "bot" THEN BotKeys ELSE RecorderKeys

\* what the manager sends
JobsFor(t) == [keys : SUBSET KeysOf(t), channel : Channels]

NoJob == [keys |-> {}, channel |-> <<>>]

\* slip: the keys are taken to be the options
OptionOf_Same(key) == key

\* input_video_config of a JSON object: the option that a key stands for
OptionOf(key) ==
  CASE key = "channel" -> "input-channel"
    [] key = "input_video_file" -> "input-video-file"
    [] key = "input_replay_file" -> "input-replay-file"
    [] key = "input_camera" -> "input-camera"
    [] key = "input_url" -> "input-url"
    [] key \in {"batch", "loop", "bad resolution"} -> key
    [] OTHER -> "other"

AsOptions(job) == {OptionOf(key) : key \in job.keys}

\* bot_configuration and start_bot: the resolution comes before the source, the
\* channels for the bot's messages, whose client a pool's bot always has, after it
FateInBot(job) ==
  IF "id" \notin job.keys THEN "id"
  ELSE IF "bad resolution" \in job.keys THEN "resolution"
  ELSE IF Source(AsOptions(job)) = "unreachable" THEN "unreachable"
  ELSE IF "channel" \notin job.keys THEN "channel" ELSE ""

\* slip: the channel is not asked for
FateInRecorder_AnyChannel(job) == IF "bad resolution" \in job.keys THEN "resolution" ELSE ""

\* recorder_job_controller::add_job and connect
FateInRecorder(job) ==
  IF "channel" \notin job.keys THEN "channel"
  ELSE IF "bad resolution" \in job.keys THEN "resolution" ELSE ""

Fate(job) == IF tool = "bot" THEN FateInBot(job) ELSE FateInRecorder(job)

\* slip: the first slash only
escape_slashes_First(name) ==
  [i \in DOMAIN name |->
     IF name[i] = "/" /\ \A j \in 1..(i - 1) : name[j] # "/" THEN "{slash}" ELSE name[i]]

escape_slashes(name) == [i \in DOMAIN name |-> IF name[i] = "/" THEN "{slash}" ELSE name[i]]

\* the job's copy has the file added; an output channel comes before it
Destination(job) ==
  IF tool = "bot" THEN <<>>
  ELSE IF Sink((job.keys \cap {"output-channel"}) \cup {"output-video-file"}) = "channel"
  THEN <<>> ELSE escape_slashes(job.channel)

\* start_bot, or a new video_stream
StreamOf(job) ==
  [channel |-> job.channel, from |-> Source(AsOptions(job)), to |-> Destination(job)]

JobsInit == work = {} /\ refused = NoJob

\* add_job
TakeJob(job) ==
  /\ InLoop(OnStartJob(Fate(job)))
  /\ work' = IF jobs' > jobs THEN work \cup {StreamOf(job)} ELSE work
  /\ refused' = IF failed' \in Fates \ {""} THEN job ELSE NoJob

(***************************************************************************)
(* Properties                                                              *)
(***************************************************************************)
\* A job that has what its kind of node needs never ends the program: an id and a
\* channel for the bot, a channel for the recorder, and no bad resolution.
RefusedForCause ==
  failed \in Fates \ {""} =>
    \/ "bad resolution" \in refused.keys
    \/ ~((IF tool = "bot" THEN {"id", "channel"} ELSE {"channel"}) \subseteq refused.keys)

\* Whatever else a job names, its stream is read from its channel, the one that the
\* bot's messages go to and the recording is named after.
ReadsItsChannel == \A stream \in work : stream.from = "channel"

\* Each file lies in the recorder's directory, and two channels are never recorded
\* into the same one.
OneFileEach ==
  \A stream, other \in work :
    /\ "/" \notin {stream.to[i] : i \in DOMAIN stream.to}
    /\ stream.to = other.to /\ stream.to # <<>> => stream.channel = other.channel

\* The pool's jobs and the streams they have become.
JobsSafety ==
  /\ RefusedForCause
  /\ ReadsItsChannel
  /\ OneFileEach
=============================================================================
