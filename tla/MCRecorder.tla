---------------------------- MODULE MCRecorder ----------------------------
(* Values of Recorder's constants for TLC. *)
EXTENDS Recorder

\* packets a tick apart, a pause, and one whose timestamp went back
SixTimes == <<0, 1, 2, 3, 5, 4>>
\* no segments, and segments of two ticks
Options == {{}, {2}}
=============================================================================
