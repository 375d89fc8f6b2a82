----------------------------- MODULE Publisher -----------------------------
(***************************************************************************)
(* The publisher tool: source >> do_finally >> rtm_sink.  The sink runs on *)
(* a thread of the source's, the worker of a threaded_worker or the reader *)
(* of url_source, an async generator that main starts and whose result it  *)
(* keeps in _state.  The sink counts each chunk and posts its publish to   *)
(* the asio loop, where the client writes it, the server's answers come    *)
(* back and the count is taken down.  At the end the thread waits for the  *)
(* answers, do_finally posts the stop of the client, and what the source   *)
(* was made of is deleted; the deleted generator stops its reader.         *)
(* The client is what RtmClient shows of it: ordered until a restart,      *)
(* which loses what is in flight without a word to the callbacks.          *)
(***************************************************************************)
EXTENDS Naturals, Sequences

CONSTANTS
  Packets,   \* the source's packets: 0 for metadata, n for a frame of n chunks
  Inputs,    \* the threads of sources: of "worker", "url"
  Faults     \* of "restart", "refused", "late", "error", "broken"

\* a reader hands on the metadata before it reads (url_source_impl::start)
ASSUME PublisherAssumption ==
  /\ Packets \in Seq(Nat) /\ Inputs \subseteq {"worker", "url"}
  /\ "url" \in Inputs => Packets # <<>>
  /\ Faults \subseteq {"restart", "refused", "late", "error", "broken"}

Parts(p) == IF Packets[p] = 0 THEN 1 ELSE Packets[p]
Ids == UNION {{p} \X (1..Parts(p)) : p \in 1..Len(Packets)}

VARIABLES
  input,
  main,      \* "subscribing", "looping"
  worker,    \* "starting", "reading", "spinning", "idle", "sending", "waiting",
             \* "finally", "stopping", "done"
  packet, chunk,   \* the next to be sent
  demand,    \* the sink has asked for a packet
  inFlight,  \* _in_flight
  tasks,     \* posted to the loop: ids to publish, then "stop"
  net, acks, \* the connection, to the server and back
  client,    \* "running", "stopped"
  server,    \* what the server got, in its order
  acked,     \* ids whose on_ok ran
  gaveUp,    \* the 30 seconds were over
  fate       \* "", "aborted"; "freed": a callback or task ran on the deleted sink;
             \* "null": the reader to stop is not known

vars == <<input, main, worker, packet, chunk, demand, inFlight, tasks, net, acks, client,
          server, acked, gaveUp, fate>>
Source == <<input, main, packet, chunk, demand>>
Wire == <<net, acks, client, server>>

Runs == fate = ""
Deleted == worker \in {"finally", "stopping", "done"}
Stop == <<0, 0>>

TypeOK ==
  /\ input \in Inputs /\ main \in {"subscribing", "looping"}
  /\ worker \in {"starting", "reading", "spinning", "idle", "sending", "waiting",
                 "finally", "stopping", "done"}
  /\ packet \in 1..Len(Packets) + 1 /\ chunk \in Nat /\ demand \in 0..1
  /\ inFlight \in Nat /\ tasks \in Seq(Ids \cup {Stop}) /\ net \in Seq(Ids)
  /\ acks \in Seq(Ids \X BOOLEAN) /\ client \in {"running", "stopped"}
  /\ server \in Seq(Ids) /\ acked \subseteq Ids /\ gaveUp \in BOOLEAN
  /\ fate \in {"", "aborted", "freed", "null"}

\* on_subscribe asks for the first packet; a reader's thread starts before main
\* knows of it, a worker's is there
Init ==
  /\ input \in Inputs /\ main = "subscribing"
  /\ worker = (IF input = "url" THEN "starting" ELSE "idle")
  /\ packet = 1 /\ chunk = 1 /\ demand = 1 /\ inFlight = 0
  /\ tasks = <<>> /\ net = <<>> /\ acks = <<>> /\ client = "running"
  /\ server = <<>> /\ acked = {} /\ gaveUp = FALSE /\ fate = ""

(***************************************************************************)
(* The reader of url_source, up to its calls of the sink                   *)
(***************************************************************************)
\* start: the source is open, and the metadata is the first packet
Start ==
  /\ Runs /\ worker = "starting" /\ worker' = "idle"
  /\ UNCHANGED <<Source, inFlight, tasks, Wire, acked, gaveUp, fate>>

\* read_loop: a frame, or the end of the file
Read ==
  /\ Runs /\ worker = "reading" /\ worker' = "idle"
  /\ UNCHANGED <<Source, inFlight, tasks, Wire, acked, gaveUp, fate>>

\* a source that is lost for good: every read fails, and the loop goes on
Break ==
  /\ "broken" \in Faults /\ Runs /\ worker = "reading" /\ worker' = "spinning"
  /\ UNCHANGED <<Source, inFlight, tasks, Wire, acked, gaveUp, fate>>

(***************************************************************************)
(* The thread in the sink                                                  *)
(***************************************************************************)
OnNext ==
  /\ Runs /\ worker = "idle" /\ demand > 0 /\ packet <= Len(Packets)
  /\ demand' = demand - 1 /\ worker' = "sending"
  /\ UNCHANGED <<input, main, packet, chunk, inFlight, tasks, Wire, acked, gaveUp, fate>>

\* slips: a frame counts once however many chunks it has; metadata overtakes
Counted_Frames == IF chunk = 1 THEN inFlight + 1 ELSE inFlight
Posted_Metadata ==
  IF Packets[packet] = 0 THEN <<<<packet, chunk>>>> \o tasks ELSE Append(tasks, <<packet, chunk>>)
\* slip: the sink never asks for the next packet
AskedNext_Not == demand

Counted == inFlight + 1
Posted == Append(tasks, <<packet, chunk>>)
AskedNext == demand + 1

Returned == IF input = "url" THEN "reading" ELSE "idle"

\* operator(): count, then post; after the last chunk on_next requests one more
SendChunk ==
  /\ Runs /\ worker = "sending"
  /\ inFlight' = Counted /\ tasks' = Posted
  /\ IF chunk < Parts(packet)
     THEN chunk' = chunk + 1 /\ UNCHANGED <<worker, packet, demand>>
     ELSE worker' = Returned /\ packet' = packet + 1 /\ chunk' = 1 /\ demand' = AskedNext
  /\ UNCHANGED <<input, main, Wire, acked, gaveUp, fate>>

\* slip: do_finally posts the stop before it hands on_complete down
FinallyFirst_Stop == Append(tasks, Stop)

AtComplete == tasks

OnComplete ==
  /\ Runs /\ worker = "idle" /\ packet > Len(Packets)
  /\ worker' = "waiting" /\ tasks' = AtComplete
  /\ UNCHANGED <<Source, inFlight, Wire, acked, gaveUp, fate>>

\* slip: the count is not looked at
Published_Unasked == TRUE

Published == inFlight = 0

\* on_complete saw the count at zero: delete this
Poll ==
  /\ Runs /\ worker = "waiting" /\ Published
  /\ worker' = "finally"
  /\ UNCHANGED <<Source, inFlight, tasks, Wire, acked, gaveUp, fate>>

\* slip: the sink waits for as long as it takes
Patience_Endless == FALSE

\* 30 seconds pass: either nothing is left that could bring an answer, or the
\* answers are late
Patience == "late" \in Faults \/ (tasks = <<>> /\ net = <<>> /\ acks = <<>>)

GiveUp ==
  /\ Runs /\ worker = "waiting" /\ inFlight > 0 /\ Patience
  /\ worker' = "finally" /\ gaveUp' = TRUE
  /\ UNCHANGED <<Source, inFlight, tasks, Wire, acked, fate>>

Finally ==
  /\ Runs /\ worker = "finally"
  /\ worker' = "stopping" /\ tasks' = Append(tasks, Stop)
  /\ UNCHANGED <<Source, inFlight, Wire, acked, gaveUp, fate>>

\* ~sub of the async generator: stop_fn(_state), on the reader's own thread,
\* which then leaves read_loop and deletes its source
StopReader ==
  /\ Runs /\ worker = "stopping" /\ worker' = "done"
  /\ fate' = IF input = "url" /\ main = "subscribing" THEN "null" ELSE fate
  /\ UNCHANGED <<Source, inFlight, tasks, Wire, acked, gaveUp>>

\* on_error of the stream; of a url it comes from start only
OnError ==
  /\ "error" \in Faults /\ Runs /\ fate' = "aborted"
  /\ worker = (IF input = "url" THEN "starting" ELSE "idle")
  /\ UNCHANGED <<worker, Source, inFlight, tasks, Wire, acked, gaveUp>>

(***************************************************************************)
(* The main thread, which runs the loop                                    *)
(***************************************************************************)
\* subscribe returns: _state is assigned, and io_service.run() begins
Subscribed ==
  /\ Runs /\ main = "subscribing" /\ main' = "looping"
  /\ UNCHANGED <<worker, input, packet, chunk, demand, inFlight, tasks, Wire, acked,
                 gaveUp, fate>>

Looping == Runs /\ main = "looping"

\* a posted publish, through the sink that posted it
Publish ==
  /\ Looping /\ tasks # <<>> /\ Head(tasks) # Stop /\ tasks' = Tail(tasks)
  /\ IF Deleted THEN fate' = "freed" /\ UNCHANGED net
     ELSE IF client = "running" THEN net' = Append(net, Head(tasks)) /\ UNCHANGED fate
     ELSE UNCHANGED <<net, fate>>
  /\ UNCHANGED <<worker, Source, inFlight, acks, client, server, acked, gaveUp>>

\* the stop posted by do_finally: the connection is closed
StopClient ==
  /\ Looping /\ tasks # <<>> /\ Head(tasks) = Stop /\ tasks' = Tail(tasks)
  /\ client' = "stopped" /\ net' = <<>> /\ acks' = <<>>
  /\ UNCHANGED <<worker, Source, inFlight, server, acked, gaveUp, fate>>

\* rtm/publish/ok calls on_ok, rtm/publish/error calls on_error, which aborts
OnAnswer ==
  /\ Looping /\ acks # <<>> /\ acks' = Tail(acks)
  /\ IF Deleted THEN fate' = "freed" /\ UNCHANGED <<inFlight, acked>>
     ELSE IF acks[1][2]
     THEN inFlight' = inFlight - 1 /\ acked' = acked \cup {acks[1][1]} /\ UNCHANGED fate
     ELSE fate' = "aborted" /\ UNCHANGED <<inFlight, acked>>
  /\ UNCHANGED <<worker, Source, tasks, net, client, server, gaveUp>>

\* resilient_client::restart
Restart ==
  /\ "restart" \in Faults /\ Runs /\ client = "running"
  /\ net' = <<>> /\ acks' = <<>>
  /\ UNCHANGED <<worker, Source, inFlight, tasks, client, server, acked, gaveUp, fate>>

(***************************************************************************)
(* The server                                                              *)
(***************************************************************************)
Serve(ok) ==
  /\ Runs /\ net # <<>> /\ (ok \/ "refused" \in Faults)
  /\ net' = Tail(net) /\ server' = Append(server, Head(net))
  /\ acks' = Append(acks, <<Head(net), ok>>)
  /\ UNCHANGED <<worker, Source, inFlight, tasks, client, acked, gaveUp, fate>>

Worker ==
  Start \/ Read \/ OnNext \/ SendChunk \/ OnComplete \/ Poll \/ GiveUp \/ Finally \/ StopReader
Loop == Subscribed \/ Publish \/ StopClient \/ OnAnswer

Next == Worker \/ Break \/ OnError \/ Loop \/ Restart \/ \E ok \in BOOLEAN : Serve(ok)

Spec == Init /\ [][Next]_vars

\* two threads that run, and a server that answers
FairSpec == Spec /\ WF_vars(Worker) /\ WF_vars(Loop) /\ WF_vars(\E ok \in BOOLEAN : Serve(ok))

(***************************************************************************)
(* Properties                                                              *)
(***************************************************************************)
Before(i, j) == i[1] < j[1] \/ (i[1] = j[1] /\ i[2] < j[2])

\* The server gets the chunks of all packets in the order of the stream, the
\* metadata ahead of the frames it is about, whatever a restart loses.
InOrder == \A i \in 1..Len(server) - 1 : Before(server[i], server[i + 1])

\* "Packets were published": unless the wait was given up, every chunk has
\* been acknowledged when the sink deletes itself or the client is stopped.
WaitsForAll == (Deleted \/ client = "stopped") /\ ~gaveUp /\ Runs => acked = Ids

\* When the client is stopped nothing is left to be published.
StopIsLast == client = "stopped" => tasks = <<>> /\ worker \in {"stopping", "done"}

\* ~sub never calls stop on a reader that start_fn has not returned yet: the
\* metadata is in flight until main runs its loop.
ReaderIsKnown == fate = "null" => gaveUp

\* Unless the wait was given up with answers still on their way, neither an
\* answer nor a posted publish ever finds its sink deleted.
NoUseAfterDelete == fate = "freed" => gaveUp

\* The end of the source is followed by the stop of the client, even if
\* answers were lost at a restart: the tool exits.
ToolExits == (worker = "waiting") ~> (client = "stopped" \/ ~Runs)

\* As long as the process lives and the source is not lost, every packet of the
\* source is taken.
AllTaken == <>(packet > Len(Packets) \/ worker = "spinning" \/ ~Runs)

\* What the server and the deleted sink see.
Safety ==
  /\ TypeOK
  /\ InOrder
  /\ StopIsLast
  /\ NoUseAfterDelete
  /\ ReaderIsKnown

\* The source is taken to its end, and the tool to its own.
Ending ==
  /\ AllTaken
  /\ ToolExits
=============================================================================
