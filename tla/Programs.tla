------------------------------ MODULE Programs ------------------------------
(***************************************************************************)
(* main() of the programs from the command line to the return: Startup,    *)
(* and what follows it when a stream runs, in the bot (BotRun) and in the  *)
(* player (PlayerRun).  The publisher's and the recorder's streams have    *)
(* models of their own (Publisher, Recorder), which end with the program.  *)
(***************************************************************************)
EXTENDS JobConfig

CONSTANTS
  Interrupts,   \* bound: signals that a bot receives
  Surfaces      \* bound: surfaces that wait to be shown

ASSUME ProgramsAssumption == Interrupts \in Nat /\ Surfaces \in Nat \ {0}

VARIABLES
  origin, rtm, update, push, late, queue, video, control, worker, stopping, breaker, ending,
  caught, touched, over, broken,
  feed, main, player, asio, hasCallback, resolved, stored, todoOn, todoResolve, met, reports,
  waiting, posted, dangling, crash

B == INSTANCE BotRun
P == INSTANCE PlayerRun

botVars == <<origin, rtm, update, push, late, queue, video, control, worker, stopping,
             breaker, ending, caught, touched, over, broken>>
playerVars == <<feed, main, player, asio, hasCallback, resolved, stored, todoOn, todoResolve,
                met, reports, waiting, posted, dangling, crash>>
programVars == <<allVars, jobVars, botVars, playerVars>>

ProgramsInit == StartupInit /\ JobsInit /\ B!Init /\ P!Init

\* the source, as far as the end of the stream depends on it
Pace(from) == IF from \in {"channel", "url"} THEN from ELSE "paced"

\* bound: the streams of these command lines are followed, which name one source
\* and no more than they must; one other option is the channel for metrics
Followed == Cardinality(vm \ {"endpoint", "appkey", "other"}) = 1

\* the first handler of the bot's loop, and process() of the player
StreamBegins ==
  /\ phase' = "stream" /\ Followed
  /\ \/ tool = "bot" /\ B!Begin(Pace(Source(vm)), "other" \in vm) /\ UNCHANGED playerVars
     \/ tool = "player" /\ P!Begin(Pace(Source(vm))) /\ UNCHANGED botVars

Start ==
  /\ StartupNext /\ UNCHANGED jobVars
  /\ \/ StreamBegins
     \/ /\ phase' = "stream" => ~Followed \/ tool \notin {"bot", "player"}
        /\ UNCHANGED <<botVars, playerVars>>

\* bound: jobs have any keys where the command line has no more than a pool's node needs
Plain == vm \subseteq {"endpoint", "appkey", "pool", "output-video-file"}
Offered ==
  {job \in JobsFor(tool) : Plain \/ job.keys = {"id", "channel"} \cap KeysOf(tool)}

StartJob == (\E job \in Offered : TakeJob(job)) /\ UNCHANGED <<botVars, playerVars>>

BotStep == B!Step /\ UNCHANGED <<allVars, jobVars, playerVars>>
PlayerStep == P!Step /\ UNCHANGED <<allVars, jobVars, botVars>>

ProgramsNext == Start \/ StartJob \/ BotStep \/ PlayerStep

\* of the signals, frames and windows nothing is assumed, but that a paced
\* source's timer expires; the threads, the loops and main() go on
ProgramsSpec ==
  /\ ProgramsInit /\ [][ProgramsNext]_programVars
  /\ WF_programVars(Starting /\ Start)
  /\ WF_programVars(InLoop(Loop) /\ Start) /\ WF_programVars(InLoop(Expire) /\ Start)
  /\ WF_programVars(B!Loop /\ BotStep) /\ WF_programVars(B!Threads /\ BotStep)
  /\ WF_programVars(B!Expire /\ BotStep) /\ WF_programVars(origin = "paced" /\ B!Frame /\ BotStep)
  /\ WF_programVars(P!MainThread /\ PlayerStep) /\ WF_programVars(P!Worker /\ PlayerStep)
  /\ WF_programVars(P!Asio /\ PlayerStep)

(***************************************************************************)
(* Properties                                                              *)
(***************************************************************************)
\* A bot with a channel for its metrics and no client to push them with is the
\* only one whose stream does not begin.
PushesWithClient == broken = "publisher" => ~HasClient(tool, vm) /\ "other" \in vm

\* What the programs can rely on, from the command line to the end.
ProgramsSafety ==
  /\ StartupSafety
  /\ JobsSafety
  /\ B!Safety
  /\ P!Safety
  /\ PushesWithClient

\* A bot whose stream has ended returns from main(), and the player shows all.
ProgramsEnding ==
  /\ Ending
  /\ B!StreamEndsProgram
  /\ P!Ending
=============================================================================
