------------------------------ MODULE PlayerRun ------------------------------
(***************************************************************************)
(* The player, from process() to the return of main(): the worker that     *)
(* pushes surfaces and resolves the deferred of process() at the end, main *)
(* that registers its callback with the deferred, starts the thread of the *)
(* asio loop, shows surfaces and closes, and that loop.                    *)
(*                                                                         *)
(* deferred_impl is not for threads: on() and resolve() write one flag and *)
(* read the other, which a build may do in either order.                   *)
(***************************************************************************)
EXTENDS Naturals

CONSTANTS
  Surfaces      \* bound: surfaces that wait to be shown

VARIABLES
  feed,        \* "none" before process(); "channel", "paced" (file, camera) or "url"
  main,        \* "on", "spawn", "loop", "stopped" (io_service.stop()), "gone"
  player,      \* the worker: "plays", "resolves", "finally", "done"
  hasCallback, resolved,   \* the flags of the deferred
  stored,      \* _resolve_cb is set
  todoOn, todoResolve,     \* what on() and resolve() still have to do
  met,         \* history: one of on() and resolve() took a step amid the other
  reports,     \* how often the callback was called
  waiting,     \* surfaces in the queue
  asio,        \* "none", "runs", "returned"
  posted,      \* the stop of the client
  dangling,    \* a local of main was used after its end
  crash        \* "", "bad function", "resolved" and "thread" (assertions)

deferred == <<hasCallback, resolved, stored, todoOn, todoResolve, met, reports>>
threads == <<main, player, asio>>
vars == <<feed, threads, deferred, waiting, posted, dangling, crash>>

TypeOK ==
  /\ feed \in {"none", "channel", "paced", "url"}
  /\ main \in {"on", "spawn", "loop", "stopped", "gone"}
  /\ player \in {"plays", "resolves", "finally", "done"}
  /\ hasCallback \in BOOLEAN /\ resolved \in BOOLEAN /\ stored \in BOOLEAN /\ met \in BOOLEAN
  /\ todoOn \subseteq {"mark", "test", "store"} /\ todoResolve \subseteq {"mark", "test"}
  /\ reports \in 0..2 /\ waiting \in 0..Surfaces /\ asio \in {"none", "runs", "returned"}
  /\ posted \in BOOLEAN /\ dangling \in BOOLEAN
  /\ crash \in {"", "bad function", "resolved", "thread"}

Init ==
  /\ feed = "none" /\ main = "on" /\ player = "plays" /\ asio = "none"
  /\ hasCallback = FALSE /\ resolved = FALSE /\ stored = FALSE /\ met = FALSE
  /\ todoOn = {"mark", "test"} /\ todoResolve = {} /\ reports = 0
  /\ waiting = 0 /\ posted = FALSE /\ dangling = FALSE /\ crash = ""

Runs == feed # "none" /\ crash = "" /\ ~dangling

\* process(): the player's stages are made and subscribed to
Begin(from) ==
  /\ feed = "none" /\ feed' = from
  /\ UNCHANGED <<threads, deferred, waiting, posted, dangling, crash>>

(***************************************************************************)
(* The deferred                                                            *)
(***************************************************************************)
OnIsAtWork == todoOn \notin {{}, {"mark", "test"}}
ResolveIsAtWork == todoResolve \notin {{}, {"mark", "test"}}

\* on(): marks that there is a callback, then calls or stores it
OnMark ==
  /\ Runs /\ main = "on" /\ "mark" \in todoOn
  /\ hasCallback' = TRUE /\ todoOn' = todoOn \ {"mark"} /\ met' = (met \/ ResolveIsAtWork)
  /\ UNCHANGED <<feed, threads, resolved, stored, todoResolve, reports, waiting, posted, dangling, crash>>

OnTest ==
  /\ Runs /\ main = "on" /\ "test" \in todoOn
  /\ IF resolved THEN reports' = reports + 1 /\ todoOn' = todoOn \ {"test"}
     ELSE todoOn' = (todoOn \ {"test"}) \cup {"store"} /\ UNCHANGED reports
  /\ met' = (met \/ ResolveIsAtWork)
  /\ UNCHANGED <<feed, threads, hasCallback, resolved, stored, todoResolve, waiting, posted, dangling, crash>>

OnStore ==
  /\ Runs /\ main = "on" /\ todoOn = {"store"}
  /\ stored' = TRUE /\ todoOn' = {} /\ met' = (met \/ ResolveIsAtWork)
  /\ UNCHANGED <<feed, threads, hasCallback, resolved, todoResolve, reports, waiting, posted, dangling, crash>>

OnReturns ==
  /\ Runs /\ main = "on" /\ todoOn = {} /\ main' = "spawn"
  /\ UNCHANGED <<feed, player, asio, deferred, waiting, posted, dangling, crash>>

\* slip: resolve() calls what there is without a look at the flag
Calls_Always == TRUE

Calls == hasCallback

\* resolve() and fail()
ResolveMark ==
  /\ Runs /\ player = "resolves" /\ "mark" \in todoResolve
  /\ resolved' = TRUE /\ todoResolve' = todoResolve \ {"mark"} /\ met' = (met \/ OnIsAtWork)
  /\ crash' = IF resolved THEN "resolved" ELSE ""
  /\ UNCHANGED <<feed, threads, hasCallback, stored, todoOn, reports, waiting, posted, dangling>>

ResolveTest ==
  /\ Runs /\ player = "resolves" /\ "test" \in todoResolve
  /\ todoResolve' = todoResolve \ {"test"} /\ met' = (met \/ OnIsAtWork)
  /\ reports' = IF Calls /\ stored THEN reports + 1 ELSE reports
  /\ crash' = IF Calls /\ ~stored THEN "bad function" ELSE ""
  /\ UNCHANGED <<feed, threads, hasCallback, resolved, stored, todoOn, waiting, posted, dangling>>

Resolved ==
  /\ Runs /\ player = "resolves" /\ todoResolve = {} /\ player' = "finally"
  /\ UNCHANGED <<feed, main, asio, deferred, waiting, posted, dangling, crash>>

(***************************************************************************)
(* The stream                                                              *)
(***************************************************************************)
\* the surfaces and their mutex are main's
UsesLocals == dangling' = (main = "gone")

\* frames of a URL come on a thread of its own, others by the loop
Driven == feed = "url" \/ asio = "runs"

PushSurface ==
  /\ Runs /\ player = "plays" /\ Driven /\ waiting < Surfaces
  /\ waiting' = waiting + 1 /\ UsesLocals
  /\ UNCHANGED <<feed, threads, deferred, posted, crash>>

\* a file or a camera that cannot be opened ends the stream while it is built
StreamEnds ==
  /\ Runs /\ player = "plays" /\ (Driven \/ feed = "paced")
  /\ player' = "resolves" /\ todoResolve' = {"mark", "test"}
  /\ UNCHANGED <<feed, main, asio, hasCallback, resolved, stored, todoOn, met, reports,
                 waiting, posted, dangling, crash>>

\* do_finally: the stop of the client is posted, by reference to the client
PostStop ==
  /\ Runs /\ player = "finally" /\ player' = "done" /\ posted' = TRUE /\ UsesLocals
  /\ UNCHANGED <<feed, main, asio, deferred, waiting, crash>>

(***************************************************************************)
(* The loop's thread, and main                                             *)
(***************************************************************************)
\* the client CHECKs that it is on main's thread when it is stopped
RunStop ==
  /\ Runs /\ asio = "runs" /\ main \notin {"stopped", "gone"} /\ posted /\ posted' = FALSE
  /\ crash' = IF feed = "channel" THEN "thread" ELSE ""
  /\ UNCHANGED <<feed, threads, deferred, waiting, dangling>>

\* and when it is restarted because of an error
ClientFails ==
  /\ Runs /\ asio = "runs" /\ main \notin {"stopped", "gone"} /\ feed = "channel"
  /\ crash' = "thread"
  /\ UNCHANGED <<feed, threads, deferred, waiting, posted, dangling>>

\* the loop returns when it is stopped, or has nothing more to do
LoopReturns ==
  /\ Runs /\ asio = "runs"
  /\ main \in {"stopped", "gone"} \/ (feed # "channel" /\ player = "done" /\ ~posted)
  /\ asio' = "returned" /\ dangling' \in {FALSE, main = "gone"}
  /\ UNCHANGED <<feed, main, player, deferred, waiting, posted, crash>>

Spawn ==
  /\ Runs /\ main = "spawn" /\ main' = "loop" /\ asio' = "runs"
  /\ UNCHANGED <<feed, player, deferred, waiting, posted, dangling, crash>>

\* slip: the surface stays in the queue
Rendered_Kept == waiting

Rendered == waiting - 1

Render ==
  /\ Runs /\ main = "loop" /\ waiting > 0 /\ waiting' = Rendered
  /\ UNCHANGED <<feed, threads, deferred, posted, dangling, crash>>

\* SDL_QUIT
Close ==
  /\ Runs /\ main = "loop" /\ main' = "stopped"
  /\ UNCHANGED <<feed, player, asio, deferred, waiting, posted, dangling, crash>>

\* main returns and its locals are no more; the other threads are not joined
Return ==
  /\ Runs /\ main = "stopped" /\ main' = "gone"
  /\ UNCHANGED <<feed, player, asio, deferred, waiting, posted, dangling, crash>>

MainThread == OnMark \/ OnTest \/ OnStore \/ OnReturns \/ Spawn \/ Render \/ Return
Worker == ResolveMark \/ ResolveTest \/ Resolved \/ PostStop
Asio == RunStop \/ LoopReturns

Step == MainThread \/ Worker \/ Asio \/ PushSurface \/ StreamEnds \/ ClientFails \/ Close

Next == Step \/ \E from \in {"channel", "paced", "url"} : Begin(from)

(***************************************************************************)
(* Properties                                                              *)
(***************************************************************************)
\* However on() and resolve() meet, the end of the stream is not reported twice;
\* if they do not meet, once both are through it is reported.
ReportedOnce ==
  /\ reports <= 1
  /\ ~met /\ main # "on" /\ player \in {"finally", "done"} => reports = 1

\* Only if they meet is an empty callback called, and with a channel, whose data
\* waits for the loop's thread, they never do.
EmptyCallAsKnown ==
  /\ crash = "bad function" => met
  /\ feed = "channel" => ~met
  /\ crash # "resolved"

\* Nothing of main's is used by another thread unless the window was closed
\* while a thread was still at work.
DanglesAsKnown == dangling => main = "gone"

Safety ==
  /\ TypeOK
  /\ ReportedOnce
  /\ EmptyCallAsKnown
  /\ DanglesAsKnown

\* What was pushed is shown, as long as the window is open.
AllShown == (player = "done") ~> (waiting = 0 \/ main \in {"stopped", "gone"} \/ ~Runs)

\* With a channel the player does not outlive its stream.
ChannelEndsPlayer == (feed = "channel" /\ player = "done") ~> (main \in {"stopped", "gone"} \/ ~Runs)

\* How the player comes to its end.
Ending ==
  /\ AllShown
  /\ ChannelEndsPlayer
=============================================================================
