---------------------------- MODULE CommandLine ----------------------------
(***************************************************************************)
(* What the programs read from their command lines (cli_streams.cpp): the  *)
(* options each one has, which combinations it accepts, whether it gets an *)
(* RTM client, and the source and the sink it builds from them.            *)
(*                                                                         *)
(* A command line is the set of the options that are given; their values   *)
(* do not matter, but for a resolution that cannot be parsed, which is an  *)
(* option of its own here.  "other" is any option that changes nothing of  *)
(* this: --loop, --time-limit, -v and so on.                               *)
(***************************************************************************)
EXTENDS Naturals, FiniteSets

Tools == {"bot", "recorder", "publisher", "player"}

\* cli_options of each program: what it enables
BotCfg ==
  {"rtm input", "file input", "camera input", "url input", "generic", "batch", "pool"}
RecorderCfg == {"rtm input", "camera input", "url input", "file output", "generic", "pool"}
PublisherCfg == {"rtm output", "file input", "camera input", "url input", "generic"}
PlayerCfg == {"rtm input", "file input", "camera input", "url input", "generic"}

Enabled ==
  [bot |-> BotCfg, recorder |-> RecorderCfg, publisher |-> PublisherCfg, player |-> PlayerCfg]

\* the options of a program's own
Custom(t) == {"help", "other"} \cup (IF t = "bot" THEN {"config", "config-file"} ELSE {})

\* to_boost: the options that come with what is enabled
OptionsOf(what) ==
  CASE what = "rtm input" -> {"endpoint", "appkey", "input-channel"}
    [] what = "rtm output" -> {"endpoint", "appkey", "output-channel"}
    [] what = "file input" -> {"input-video-file", "input-replay-file"}
    [] what = "camera input" -> {"input-camera"}
    [] what = "url input" -> {"input-url"}
    [] what = "file output" -> {"output-video-file"}
    [] what = "generic" -> {"bad resolution"}
    [] OTHER -> {what}

Options(t) == UNION {OptionsOf(what) : what \in Enabled[t]} \cup Custom(t)

\* po::variables_map::count of an option that may be given once
Count(vm, option) == IF option \in vm THEN 1 ELSE 0
Given(vm, options) == vm \cap options # {}

RtmArgs == {"endpoint", "appkey", "input-channel", "output-channel"}
FileArgs == {"input-video-file", "input-replay-file"}

\* slip: a client without a channel to read
ValidRtmArgs_NoChannel(t, vm) ==
  /\ {"endpoint", "appkey"} \subseteq vm
  /\ "rtm output" \in Enabled[t] => "output-channel" \in vm

\* validate_rtm_args; --port has a default
ValidRtmArgs(t, vm) ==
  /\ {"endpoint", "appkey"} \subseteq vm
  /\ "rtm input" \in Enabled[t] => Given(vm, {"input-channel", "pool"})
  /\ "rtm output" \in Enabled[t] => "output-channel" \in vm

\* validate_input_file_args
ValidFileArgs(vm) ==
  ~(Count(vm, "input-video-file") > 0 /\ Count(vm, "input-replay-file") > 9)

\* has_input_rtm_args, has_input_file_args, has_input_camera_args
Inputs(t, vm) ==
  Enabled[t] \cap ((IF Given(vm, RtmArgs) THEN {"rtm input"} ELSE {})
    \cup (IF Given(vm, FileArgs) THEN {"file input"} ELSE {})
    \cup (IF "input-camera" \in vm THEN {"camera input"} ELSE {}))

\* has_output_rtm_args, has_output_file_args
Outputs(t, vm) ==
  Enabled[t] \cap ((IF Given(vm, RtmArgs) THEN {"rtm output"} ELSE {})
    \cup (IF "output-video-file" \in vm THEN {"file output"} ELSE {}))

\* slip: several sources may be named
ValidInput_Several(t, vm) ==
  /\ Inputs(t, vm) # {} \/ "url input" \in Enabled[t]
  /\ "rtm input" \in Inputs(t, vm) => ValidRtmArgs(t, vm)
  /\ "file input" \in Inputs(t, vm) => ValidFileArgs(vm)

\* configuration::validate: the input
ValidInput(t, vm) ==
  /\ Cardinality(Inputs(t, vm)) <= 1
  /\ Inputs(t, vm) # {} \/ "url input" \in Enabled[t]
  /\ "rtm input" \in Inputs(t, vm) => ValidRtmArgs(t, vm)
  /\ "file input" \in Inputs(t, vm) => ValidFileArgs(vm)

\* slip: an output need not be given
ValidOutput_Any(t, vm) ==
  /\ Cardinality(Outputs(t, vm)) <= 1
  /\ "rtm output" \in Outputs(t, vm) => ValidRtmArgs(t, vm)

\* configuration::validate: the output
ValidOutput(t, vm) ==
  /\ Cardinality(Outputs(t, vm)) <= 1
  /\ Given(Enabled[t], {"rtm output", "file output"}) => Outputs(t, vm) # {}
  /\ ~("rtm input" \in Inputs(t, vm) /\ "rtm output" \in Outputs(t, vm))
  /\ "rtm output" \in Outputs(t, vm) => ValidRtmArgs(t, vm)

\* slip: a resolution is not looked at
Accepted_AnySize(t, vm) ==
  /\ vm \subseteq Options(t)
  /\ vm # {} /\ "help" \notin vm
  /\ ValidInput(t, vm) /\ ValidOutput(t, vm)
  /\ ~({"config", "config-file"} \subseteq vm)

\* the constructor of configuration, which exits if it does not accept vm
Accepted(t, vm) ==
  /\ vm \subseteq Options(t)
  /\ vm # {} /\ "help" \notin vm
  /\ ValidInput(t, vm) /\ ValidOutput(t, vm) /\ "bad resolution" \notin vm
  /\ ~({"config", "config-file"} \subseteq vm)

\* slip: only a channel tells that there is a client
HasClient_Channel(t, vm) == "input-channel" \in vm \/ "output-channel" \in vm

\* configuration::rtm_client
HasClient(t, vm) == Given(Enabled[t], {"rtm input", "rtm output"}) /\ Given(vm, RtmArgs)

\* slip: the URL comes before the files
Source_UrlFirst(vm) ==
  IF "input-channel" \in vm THEN "channel"
  ELSE IF "input-url" \in vm THEN "url"
  ELSE IF "input-video-file" \in vm THEN "file"
  ELSE IF "input-replay-file" \in vm THEN "replay" ELSE "unreachable"

\* encoded_publisher: the first that is given
Source(vm) ==
  IF "input-channel" \in vm THEN "channel"
  ELSE IF "input-video-file" \in vm THEN "file"
  ELSE IF "input-replay-file" \in vm THEN "replay"
  ELSE IF "input-camera" \in vm THEN "camera"
  ELSE IF "input-url" \in vm THEN "url" ELSE "unreachable"

\* encoded_subscriber
Sink(vm) ==
  IF "output-channel" \in vm THEN "channel"
  ELSE IF "output-video-file" \in vm THEN "file" ELSE "unreachable"

\* configuration::is_batch_mode
IsBatch(t, vm) == {"file input", "batch"} \subseteq Enabled[t] /\ "batch" \in vm
=============================================================================
