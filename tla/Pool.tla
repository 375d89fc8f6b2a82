-------------------------------- MODULE Pool --------------------------------
(***************************************************************************)
(* pool_job_controller in the two programs that join a pool: the bot       *)
(* (bot_environment, one job, the controller deleted by the signal         *)
(* handler) and the recorder (several jobs, the controller on the stack,   *)
(* the client stopped by the signal handler).  A heartbeat timer, commands *)
(* from the pool manager, posted tasks and signals meet on one asio loop;  *)
(* cancelling the timer does not recall a handler that waits its turn.     *)
(***************************************************************************)
EXTENDS Naturals, Sequences

CONSTANTS
  Programs,     \* of "bot" and "recorder"
  MaxStreams,   \* max_streams_capacity of the recorder (5)
  Signals       \* bound: signals received

ASSUME PoolAssumption ==
  /\ Programs \subseteq {"bot", "recorder"} /\ MaxStreams \in Nat \ {0} /\ Signals \in Nat

VARIABLES
  program,      \* chosen once
  controller,   \* "none", "live", "deleted"
  timer,        \* a wait of _hb_timer is pending
  subscribed,   \* to the pool channel
  client,       \* "none", "running", "pending" (PENDING_STOPPED), "stopped"
  tasks,        \* queued in the loop: "beat" (the wait is over), "shutdown", "stop",
                \* "closed" (the read on the closed connection ends)
  jobs,         \* number of jobs taken
  free,         \* the manager: jobs it may still send to this node
  commands,     \* start_job on its way: their number
  noted,        \* the shutdown note was published
  signals,      \* signals received
  freed,        \* something ran on the deleted controller
  exited,       \* main() returned
  failed        \* "" or the CHECK that failed

vars == <<program, controller, timer, subscribed, client, tasks, jobs, free, commands, noted,
          signals, freed, exited, failed>>
Jobs == <<jobs, free, commands>>
Over == <<exited, failed>>

\* _max_streams_capacity
Capacity == IF program = "bot" THEN 1 ELSE MaxStreams

\* what add_job makes of a job: a stream, or the assertion that its configuration fails
Fates == {"", "id", "channel", "resolution", "unreachable"}

TypeOK ==
  /\ program \in Programs
  /\ controller \in {"none", "live", "deleted"} /\ timer \in BOOLEAN
  /\ subscribed \in BOOLEAN /\ client \in {"none", "running", "pending", "stopped"}
  /\ tasks \in Seq({"beat", "shutdown", "stop", "closed"}) /\ jobs \in 0..Capacity
  /\ free \in 0..Capacity /\ commands \in 0..Capacity /\ noted \in BOOLEAN
  /\ signals \in 0..Signals /\ freed \in BOOLEAN /\ exited \in BOOLEAN
  /\ failed \in {"add_job", "remove_job", "stop", "publish", "unsubscribe"} \cup Fates

Runs == failed = "" /\ ~exited

\* slip: the capacity that is announced does not count the jobs
Announced_All == Capacity

\* on_heartbeat: available_capacity
Announced == Capacity - jobs

Init ==
  /\ program \in Programs
  /\ controller = "none" /\ timer = FALSE /\ subscribed = FALSE /\ client = "none"
  /\ tasks = <<>> /\ jobs = 0 /\ free = 0 /\ commands = 0 /\ noted = FALSE
  /\ signals = 0 /\ freed = FALSE /\ exited = FALSE /\ failed = ""

\* the controller is made and started with a client that runs: subscribed, the
\* timer armed, the first heartbeat published
Join ==
  /\ Runs /\ controller = "none" /\ controller' = "live"
  /\ client' = "running" /\ subscribed' = TRUE /\ timer' = TRUE /\ free' = Announced
  /\ UNCHANGED <<program, tasks, jobs, commands, noted, signals, freed, Over>>

(***************************************************************************)
(* Heartbeats                                                              *)
(***************************************************************************)
Expire ==
  /\ Runs /\ timer /\ timer' = FALSE /\ tasks' = Append(tasks, "beat")
  /\ UNCHANGED <<program, controller, subscribed, client, Jobs, noted, signals, freed, Over>>

\* slip: the heartbeat is sent once
Rearmed_Not == timer

Rearmed == TRUE

\* on_heartbeat; the manager takes off what it has sent since
Heartbeat ==
  /\ Runs /\ tasks # <<>> /\ Head(tasks) = "beat" /\ tasks' = Tail(tasks)
  /\ timer' = Rearmed
  /\ freed' = (freed \/ controller = "deleted")
  /\ failed' = IF client = "stopped" THEN "publish" ELSE ""
  /\ IF client = "running"
     THEN free' = IF Announced > commands THEN Announced - commands ELSE 0
     ELSE UNCHANGED free
  /\ UNCHANGED <<program, controller, subscribed, client, jobs, commands, noted, signals, exited>>

(***************************************************************************)
(* Jobs                                                                    *)
(***************************************************************************)
Assign ==
  /\ Runs /\ free > 0 /\ free' = free - 1 /\ commands' = commands + 1
  /\ UNCHANGED <<program, controller, timer, subscribed, client, tasks, jobs, noted, signals, freed, Over>>

\* recorder_job_controller::add_job takes what comes, the bot's CHECKs that it
\* has no job yet
TakesJob == program = "recorder" \/ jobs = 0

\* on_data with start_job for this node: add_job; a command for a node that has left is lost
OnStartJob(fate) ==
  /\ Runs /\ commands > 0 /\ commands' = commands - 1
  /\ IF subscribed /\ client = "running"
     THEN /\ freed' = (freed \/ controller = "deleted")
          /\ failed' = IF TakesJob THEN fate ELSE "add_job"
          /\ jobs' = IF failed' = "" THEN jobs + 1 ELSE jobs
     ELSE UNCHANGED <<jobs, freed, failed>>
  /\ UNCHANGED <<program, controller, timer, subscribed, client, tasks, free, noted, signals, exited>>

\* on_data with stop_job: remove_job, which neither program supports
OnStopJob ==
  /\ Runs /\ jobs > 0 /\ subscribed /\ client = "running"
  /\ failed' = "remove_job" /\ freed' = (freed \/ controller = "deleted")
  /\ UNCHANGED <<program, controller, timer, subscribed, client, tasks, Jobs, noted, signals, exited>>

(***************************************************************************)
(* Leaving                                                                 *)
(***************************************************************************)
\* slips: the recorder stops the client first; it leaves the client running
Posted_StopFirst == <<"stop", "shutdown">>
Posted_AsBot == <<"shutdown">>

Posted == IF program = "bot" THEN <<"shutdown">> ELSE <<"shutdown", "stop">>

\* bot_environment deletes the controller, and with it the timer
Signal ==
  /\ Runs /\ controller # "none" /\ signals < Signals /\ signals' = signals + 1
  /\ tasks' = tasks \o Posted
  /\ IF program = "bot"
     THEN /\ controller' = "deleted" /\ freed' = (freed \/ controller = "deleted")
          /\ timer' = FALSE
     ELSE UNCHANGED <<controller, freed, timer>>
  /\ UNCHANGED <<program, subscribed, client, Jobs, noted, Over>>

\* the task of shutdown(): the note, the timer, the subscription
Shutdown ==
  /\ Runs /\ tasks # <<>> /\ Head(tasks) = "shutdown" /\ tasks' = Tail(tasks)
  /\ freed' = (freed \/ controller = "deleted")
  /\ IF client = "stopped" THEN failed' = "publish" /\ UNCHANGED <<noted, timer, subscribed>>
     ELSE IF client = "running" /\ ~subscribed
     THEN failed' = "unsubscribe" /\ noted' = TRUE /\ timer' = FALSE /\ UNCHANGED subscribed
     ELSE /\ noted' = (noted \/ client = "running") /\ timer' = FALSE
          /\ subscribed' = (subscribed /\ client # "running") /\ UNCHANGED failed
  /\ UNCHANGED <<program, controller, client, Jobs, signals, exited>>

\* request_rtm_client_stop
StopClient ==
  /\ Runs /\ tasks # <<>> /\ Head(tasks) = "stop"
  /\ IF client = "running"
     THEN client' = "pending" /\ tasks' = Append(Tail(tasks), "closed") /\ UNCHANGED failed
     ELSE failed' = "stop" /\ tasks' = Tail(tasks) /\ UNCHANGED client
  /\ UNCHANGED <<program, controller, timer, subscribed, Jobs, noted, signals, freed, exited>>

Closed ==
  /\ Runs /\ tasks # <<>> /\ Head(tasks) = "closed" /\ tasks' = Tail(tasks)
  /\ client' = "stopped"
  /\ UNCHANGED <<program, controller, timer, subscribed, Jobs, noted, signals, freed, Over>>

\* io_service::run() has nothing left to wait for
Exit ==
  /\ Runs /\ client = "stopped" /\ tasks = <<>> /\ ~timer
  /\ exited' = TRUE
  /\ UNCHANGED <<program, controller, timer, subscribed, client, tasks, Jobs, noted, signals, freed, failed>>

Loop == Heartbeat \/ Shutdown \/ StopClient \/ Closed \/ Exit

(***************************************************************************)
(* Properties                                                              *)
(***************************************************************************)
\* A node never gets a job beyond its capacity, so that the bot's CHECK in
\* add_job holds, with a manager that reckons with what it has sent.
NeverOverbooked == jobs + commands + free <= Capacity /\ failed # "add_job"

\* The client is not stopped before the pool has been told.
NotedBeforeStop == client \in {"pending", "stopped"} => noted /\ ~subscribed

\* In a node that has joined heartbeats go on and on until a signal comes.
KeepsBeating ==
  [](controller # "live") \/ <>(signals > 0 \/ ~Runs) \/ []<><<Heartbeat>>_vars

\* In the recorder a signal leads out of the program, by a CHECK at worst.
SignalEnds == (program = "recorder" /\ signals > 0) ~> ~Runs

\* What the pool's manager can rely on.
Safety ==
  /\ TypeOK
  /\ NeverOverbooked
  /\ NotedBeforeStop

\* The node lives as long as it should.
Ending ==
  /\ KeepsBeating
  /\ SignalEnds
=============================================================================
