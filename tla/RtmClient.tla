----------------------------- MODULE RtmClient -----------------------------
(***************************************************************************)
(* The RTM client (rtm_client.cpp): secure_client, which multiplexes       *)
(* requests, pings and subscriptions over one websocket, inside            *)
(* resilient_client, which replaces it by a new one when it reports an     *)
(* error.  Everything runs on the asio loop thread, so that a step is one  *)
(* handler or one call; what interleaves is the order of the handlers, the *)
(* server and the network.                                                 *)
(***************************************************************************)
EXTENDS Naturals, FiniteSets, Sequences, SequencesExt

CONSTANTS
  Subs,        \* subscription objects of the callers, each on its own channel
  NoSub,       \* stands for "no subscription" in a request
  Worlds,      \* what callers and network do, and for how long
  MaxId,       \* bound of world.ids, the new_request_id() values handed out
  MaxInbox     \* bound: frames on their way before the server streams another

ASSUME ClientAssumption ==
  /\ NoSub \notin Subs
  /\ Worlds \subseteq
       [subs : SUBSET Subs, breaks : Nat, ids : 0..MaxId,
        calls : SUBSET {"publish", "subscribe", "unsubscribe", "stop", "late calls"},
        faults : SUBSET {"refusals", "garbage", "early answers", "freed reads"}]
  /\ MaxId \in Nat /\ MaxInbox \in Nat

VARIABLES
  client,    \* the current secure_client
  started,   \* resilient_client::_started
  listed,    \* resilient_client::_subscriptions, by subscription object
  orphans,   \* handlers of destroyed clients that the loop will still call
  nextId,    \* new_request_id()
  crash,     \* "" or why the process aborted
  held,      \* what the caller did with each subscription object, and whether it was
             \* "recalled": given up, and subscribed to by restart() all the same
  net,       \* the connection and the server behind it
  world      \* the member of Worlds; .breaks: connections that may still be lost

vars == <<client, started, listed, orphans, nextId, crash, held, net, world>>

(***************************************************************************)
(* secure_client                                                           *)
(***************************************************************************)
\* subscribe_request, unsubscribe_request and their like: what of them matters
Request(type, id, s) == [type |-> type, id |-> id, sub |-> s]

ClientStates == {"STOPPED", "RUNNING", "PENDING_STOPPED"}

\* the members of a secure_client as they are constructed
Fresh ==
  [state |-> "STOPPED", subs |-> {}, sent |-> {}, pending |-> <<>>,
   writing |-> "no", reading |-> "off", timer |-> "off", pings |-> {}]

\* drain_requests: one request in flight at a time ("written": its handler is due)
Busy(w) == IF w = "no" THEN "yes" ELSE w

\* _sent_request_infos.emplace, then write(): push and drain_requests
WithRequest(c, r) ==
  [c EXCEPT !.sent = @ \cup {r}, !.pending = Append(@, r), !.writing = Busy(@)]

WithPing(c, id) ==
  [c EXCEPT !.timer = "off", !.pings = @ \cup {id},
            !.pending = Append(@, Request("ping", id, NoSub)), !.writing = Busy(@)]

Erase(c, id) == [c EXCEPT !.sent = {r \in @ : r.id # id}]

\* a slip: on_request_done leaves the next request to the next write()
NextRequest_NoDrain(c) == [c EXCEPT !.pending = Tail(@), !.writing = "no"]

\* the end of on_request_done: pop, clear the flag, drain_requests
NextRequest(c) ==
  [c EXCEPT !.pending = Tail(@), !.writing = IF Len(c.pending) > 1 THEN "yes" ELSE "no"]

\* arm_ping_timer and ask_for_read; on a closed socket a read fails at once
Armed(c) == [c EXCEPT !.timer = "armed"]
AskForRead(c) ==
  [c EXCEPT !.reading = IF c.state = "RUNNING" THEN "asked" ELSE "error"]

\* subscribe/error, unsubscribe/ok and unsubscribe/error end the subscription; its
\* channel is read from the entry just erased, so that the map may not find it
Ends(m) == m.type = "unsubscribe" \/ (m.type = "subscribe" /\ ~m.ok)

\* find_by_sub, find_by_channel, delete_by_channel of subscriptions_map; a channel
\* has one subscription, so that its two maps agree
Knows(c, s) == s \in c.subs

\* process_input: the CHECK it may fail, or ""
Outcomes(c, m) ==
  IF m.type \in {"data", "error"}
  THEN {IF Knows(c, m.sub) THEN "" ELSE "no subscription for pdu"}
  ELSE IF ~\E r \in c.sent : r.id = m.id THEN {"unexpected confirmation"}
  ELSE IF ~Ends(m) THEN {""}
  ELSE {IF Knows(c, m.sub) THEN "" ELSE "failed to delete"}
       \cup (IF "freed reads" \in world.faults THEN {"failed to delete"} ELSE {})

\* slips: publish/ok and publish/error keep the entry; unsubscribe/ok keeps the channel
Processed_Keeps(c, m) ==
  IF Ends(m) THEN [Erase(c, m.id) EXCEPT !.subs = @ \ {m.sub}]
  ELSE IF m.type = "subscribe" THEN Erase(c, m.id) ELSE c
Processed_Forgets(c, m) ==
  IF m.type \in {"data", "error"} THEN c ELSE Erase(c, m.id)

\* process_input: what it leaves of the maps
Processed(c, m) ==
  IF m.type \in {"data", "error"} THEN c
  ELSE [Erase(c, m.id) EXCEPT !.subs = IF Ends(m) THEN @ \ {m.sub} ELSE @]

Pings(c) == {i \in 1..Len(c.pending) : c.pending[i].type = "ping"}

(***************************************************************************)
(* The connection and the server (outside the repository)                  *)
(***************************************************************************)
NewConnection == [up |-> TRUE, requests |-> {}, early |-> FALSE, streaming |-> {}, inbox |-> <<>>]

ToServer(n, r) == [n EXCEPT !.requests = @ \cup {r}]
FromServer(n, m) == [n EXCEPT !.inbox = Append(@, m)]
Message(type, id, s, ok) == [type |-> type, id |-> id, sub |-> s, ok |-> ok]

\* a request written to an open connection; the server's websocket answers pings
Delivered(n, r) ==
  IF r.type = "ping" THEN FromServer(n, Message("pong", r.id, NoSub, TRUE))
  ELSE IF n.early THEN [n EXCEPT !.early = FALSE] ELSE ToServer(n, r)

TypeOK ==
  /\ client.state \in ClientStates
  /\ client.subs \subseteq Subs
  /\ client.reading \in {"off", "asked", "message", "error", "aborted"}
  /\ client.timer \in {"off", "armed", "expired"}
  /\ client.pings \subseteq 1..nextId
  /\ \A r \in client.sent \cup ToSet(client.pending) \cup net.requests :
       /\ r.type \in {"publish", "subscribe", "unsubscribe", "ping"}
       /\ r.id < nextId /\ r.sub \in Subs \cup {NoSub}
  /\ client.writing \in {"no", "yes", "written"}
  /\ started \in BOOLEAN /\ orphans \in Nat /\ listed \in Seq(Subs)
  /\ held \in [Subs -> {"new", "held", "dropped", "recalled"}]

\* secure_client::start on an open connection
Running == AskForRead(Armed([Fresh EXCEPT !.state = "RUNNING"]))

\* resilient_client::start has returned without an error (main() aborts if not)
Init ==
  /\ client = Running /\ started = TRUE /\ listed = <<>> /\ orphans = 0
  /\ nextId = 1 /\ crash = "" /\ world \in Worlds
  /\ held = [s \in Subs |-> "new"]
  /\ net = NewConnection

Alive == crash = ""
Abort(why) ==
  crash' = why /\ UNCHANGED <<client, started, listed, orphans, nextId, held, net, world>>

(***************************************************************************)
(* Calls, forwarded by resilient_client                                    *)
(***************************************************************************)
\* thread_checking_client: a call from another thread is forwarded to the loop,
\* so that every call is a step of the loop
MayCall(what) ==
  /\ Alive /\ what \in world.calls /\ nextId <= world.ids
  /\ client.state = "STOPPED" => "late calls" \in world.calls

\* a slip: two requests share an id
Issue_OldId(c) ==
  IF client.state = "RUNNING" THEN client' = c /\ UNCHANGED <<nextId, crash>>
  ELSE UNCHANGED <<client, nextId, crash>>

\* the first lines of publish, subscribe, unsubscribe: silently ignored while
\* stopping, a failed CHECK once stopped
Issue(c) ==
  IF client.state = "RUNNING"
  THEN client' = c /\ nextId' = nextId + 1 /\ crash' = crash
  ELSE /\ crash' = IF client.state = "STOPPED" THEN "not running" ELSE crash
       /\ UNCHANGED <<client, nextId>>

Publish ==
  /\ MayCall("publish")
  /\ Issue(WithRequest(client, Request("publish", nextId, NoSub)))
  /\ UNCHANGED <<started, listed, orphans, held, net, world>>

\* the list is for restart(), and grows before the client is asked
Listed(s) == Append(listed, s)

Subscribe(s) ==
  /\ MayCall("subscribe") /\ s \in world.subs /\ held[s] = "new"
  /\ held' = [held EXCEPT ![s] = "held"]
  /\ listed' = Listed(s)
  /\ Issue([WithRequest(client, Request("subscribe", nextId, s)) EXCEPT !.subs = @ \cup {s}])
  /\ UNCHANGED <<started, orphans, net, world>>

\* a slip: the last entry goes, whichever it is
RemoveIf_Last(list, s) == Front(list)

\* std::remove_if alone: the k-th kept entry moves to k, and the tail stays
RemoveIf(list, s) ==
  LET kept == {i \in DOMAIN list : list[i] # s}
      To(k) == {i \in kept : Cardinality({j \in kept : j <= i}) = k}
  IN  [k \in DOMAIN list |-> list[IF To(k) = {} THEN k ELSE CHOOSE i \in To(k) : TRUE]]

\* a slip: the channel is forgotten at once, while the server still streams it
Unsubscribed_Now(s) ==
  [WithRequest(client, Request("unsubscribe", nextId, s)) EXCEPT !.subs = @ \ {s}]

\* the entry leaves _channel_subscriptions only when the server has answered
Unsubscribed(s) == WithRequest(client, Request("unsubscribe", nextId, s))

Unsubscribe(s) ==
  /\ MayCall("unsubscribe") /\ held[s] = "held"
  /\ IF client.state = "RUNNING" /\ ~Knows(client, s)
     THEN Abort("didn't find subscription")
     ELSE /\ held' = [held EXCEPT ![s] = "dropped"]
          /\ listed' = RemoveIf(listed, s)
          /\ Issue(Unsubscribed(s))
          /\ UNCHANGED <<started, orphans, net, world>>

\* _started = false; cancel the timer, close the socket: what waits is aborted,
\* a handler that is already due still sees its own result
Stop ==
  /\ Alive /\ "stop" \in world.calls /\ client.state = "RUNNING"
  /\ started' = FALSE
  /\ \E w \in IF client.writing = "yes" THEN {"yes", "written"} ELSE {client.writing} :
     client' = [client EXCEPT !.state = "PENDING_STOPPED", !.writing = w,
                  !.timer = IF @ = "armed" THEN "off" ELSE @,
                  !.reading = IF @ = "asked" THEN "aborted" ELSE @]
  /\ net' = [net EXCEPT !.up = FALSE]
  /\ UNCHANGED <<listed, orphans, nextId, crash, held, world>>

(***************************************************************************)
(* resilient_client::on_error and restart                                  *)
(***************************************************************************)
\* slips: the new client does not read; knows no subscription; asks for none
Restored_Deaf(list, id) == [Running EXCEPT !.reading = "off"]
Restored_Bare(list, id) == Running
Restored_Unasked(list, id) == [Running EXCEPT !.subs = ToSet(list)]

\* the new client with a subscribe request for every listed subscription
Restored(list, id) ==
  LET asked == [i \in 1..Len(list) |-> Request("subscribe", id + i - 1, list[i])]
  IN  [Running EXCEPT !.subs = ToSet(list), !.sent = ToSet(asked),
                      !.pending = asked, !.writing = IF list = <<>> THEN "no" ELSE "yes"]

\* what the list has kept of subscriptions that were given up comes back
Recalled(list) ==
  [s \in Subs |-> IF held[s] = "dropped" /\ s \in ToSet(list) THEN "recalled" ELSE held[s]]

Repeats(list) == Cardinality(ToSet(list)) < Len(list)

\* destroying the old client leaves its write and an expired timer with the
\* loop; on_error after a failed start aborts (bot_environment::on_error)
Orphaned(c) == (IF c.writing = "no" THEN 0 ELSE 1) + (IF c.timer = "expired" THEN 1 ELSE 0)

Restart ==
  \/ Abort("rtm error")
  \/ IF started /\ Repeats(listed) THEN Abort("subscription already exists")
     ELSE /\ client' = IF started THEN Restored(listed, nextId) ELSE Fresh
          /\ nextId' = IF started THEN nextId + Len(listed) ELSE nextId
          /\ net' = NewConnection
          /\ held' = IF started THEN Recalled(listed) ELSE held
          /\ orphans' = orphans + Orphaned(client)
          /\ UNCHANGED <<started, listed, crash, world>>

\* a handler of a destroyed client runs and uses it: undefined behaviour
OrphanRuns == Alive /\ orphans > 0 /\ Abort("destroyed client used")

(***************************************************************************)
(* Handlers of the current client                                          *)
(***************************************************************************)
\* slips: the ping timer is not armed again; or also after a failed ping
AfterRequest_NoArm(c, r, ok) ==
  IF ok THEN NextRequest(c) ELSE NextRequest(Erase(c, r.id))
AfterRequest_ArmAlways(c, r, ok) ==
  IF r.type = "ping" THEN Armed(NextRequest(c))
  ELSE IF ok THEN NextRequest(c) ELSE NextRequest(Erase(c, r.id))

\* handle_write and the ping handler, which hold an entry of _sent_request_infos
\* or the client itself, then the next request
AfterRequest(c, r, ok) ==
  IF ~ok THEN NextRequest(Erase(c, r.id))
  ELSE IF r.type = "ping" THEN Armed(NextRequest(c)) ELSE NextRequest(c)

\* async_write or async_ping ends; a ping that fails while RUNNING reports the
\* error from inside the client that the restart destroys
RequestDone(ok) ==
  /\ Alive /\ client.writing # "no"
  /\ IF ok THEN client.state = "RUNNING" \/ client.writing = "written"
           ELSE ~net.up /\ client.writing = "yes"
  /\ LET r == Head(client.pending) IN
     IF r.type # "ping" /\ r \notin client.sent THEN Abort("erased entry used")
     ELSE IF r.type = "ping" /\ ~ok /\ client.state = "RUNNING" THEN Abort("destroyed client used")
     ELSE /\ client' = AfterRequest(client, r, ok)
          /\ net' = IF ok /\ net.up THEN Delivered(net, r) ELSE net
          /\ UNCHANGED <<started, listed, orphans, nextId, crash, held, world>>

TimerExpires ==
  /\ Alive /\ client.timer = "armed"
  /\ nextId <= IF client.state = "RUNNING" THEN world.ids ELSE world.ids + 3   \* bound
  /\ client' = [client EXCEPT !.timer = "expired"]
  /\ UNCHANGED <<started, listed, orphans, nextId, crash, held, net, world>>

PingTimer ==
  /\ Alive /\ client.timer = "expired"
  /\ client' = WithPing(client, nextId)
  /\ nextId' = nextId + 1
  /\ UNCHANGED <<started, listed, orphans, crash, held, net, world>>

\* the control callback, inside the read operation
Pong ==
  /\ Alive /\ client.reading = "asked" /\ net.inbox # <<>> /\ Head(net.inbox).type = "pong"
  /\ IF Head(net.inbox).id \in client.pings
     THEN /\ client' = [client EXCEPT !.pings = @ \ {Head(net.inbox).id}]
          /\ net' = [net EXCEPT !.inbox = Tail(@)]
          /\ UNCHANGED <<started, listed, orphans, nextId, crash, held, world>>
     ELSE Abort("unexpected pong value")

\* the read operation ends: with a frame, or with an error of the connection
ReadCompletes ==
  /\ Alive /\ client.reading = "asked"
  /\ \/ /\ net.inbox # <<>> /\ Head(net.inbox).type # "pong"
        /\ client' = [client EXCEPT !.reading = "message"]
     \/ /\ ~net.up
        /\ client' = [client EXCEPT !.reading = "error"]
  /\ UNCHANGED <<started, listed, orphans, nextId, crash, held, net, world>>

ReadMessage ==
  /\ Alive /\ client.reading = "message"
  /\ LET m == Head(net.inbox) IN
     IF m.type = "garbage"            \* "Bad data": return
     THEN client' = [client EXCEPT !.reading = "off"] /\ UNCHANGED crash
     ELSE /\ crash' \in Outcomes(client, m)
          /\ client' = IF crash' = "" THEN AskForRead(Processed(client, m)) ELSE client
  /\ net' = [net EXCEPT !.inbox = Tail(@)]
  /\ UNCHANGED <<started, listed, orphans, nextId, held, world>>

ReadAborted ==
  /\ Alive /\ client.reading = "aborted"
  /\ IF client.state = "PENDING_STOPPED"
     THEN /\ client' = [client EXCEPT !.state = "STOPPED", !.reading = "off", !.subs = {}]
          /\ UNCHANGED <<started, listed, orphans, nextId, crash, held, net, world>>
     ELSE Abort("aborted read while not stopping")

ReadFailed ==
  /\ Alive /\ client.reading = "error"
  /\ IF client.state = "RUNNING" THEN Restart
     ELSE /\ client' = [client EXCEPT !.reading = "off"]
          /\ UNCHANGED <<started, listed, orphans, nextId, crash, held, net, world>>

(***************************************************************************)
(* The server and the network                                              *)
(***************************************************************************)
Reachable == Alive /\ net.up /\ Len(net.inbox) < MaxInbox
OnlyNet == UNCHANGED <<client, started, listed, orphans, nextId, crash, held>>

\* the frame is at the server before the handler of its write has run
ArrivesEarly ==
  /\ Reachable /\ "early answers" \in world.faults /\ client.writing = "yes" /\ ~net.early
  /\ Head(client.pending).type # "ping"
  /\ net' = [ToServer(net, Head(client.pending)) EXCEPT !.early = TRUE]
  /\ OnlyNet /\ UNCHANGED world

\* requests on one subscription are answered in order; refused is refused for good
Answer(r) ==
  /\ Alive /\ net.up
  /\ \A q \in net.requests : q.sub = r.sub /\ r.sub # NoSub => q.id >= r.id
  /\ \E ok \in IF r.type = "unsubscribe" THEN {r.sub \in net.streaming}
               ELSE IF "refusals" \in world.faults THEN BOOLEAN ELSE {TRUE} :
       net' = [FromServer(net, Message(r.type, r.id, r.sub, ok))
                 EXCEPT !.requests = @ \ {r},
                        !.streaming = IF r.type = "subscribe" /\ ok THEN @ \cup {r.sub}
                                      ELSE IF r.type = "unsubscribe" THEN @ \ {r.sub} ELSE @]
  /\ OnlyNet /\ UNCHANGED world

Stream(s) ==
  /\ Reachable /\ s \in net.streaming
  /\ \E t \in {"data"} \cup (IF "refusals" \in world.faults THEN {"error"} ELSE {}) :
       net' = FromServer(net, Message(t, 0, s, TRUE))
  /\ OnlyNet /\ UNCHANGED world

Garbage ==
  /\ Reachable /\ "garbage" \in world.faults
  /\ net' = FromServer(net, Message("garbage", 0, NoSub, FALSE))
  /\ OnlyNet /\ UNCHANGED world

Breaks ==
  /\ Alive /\ net.up /\ world.breaks > 0 /\ client.state = "RUNNING"
  /\ net' = [net EXCEPT !.up = FALSE]
  /\ world' = [world EXCEPT !.breaks = @ - 1]
  /\ OnlyNet

Read == Pong \/ ReadCompletes \/ ReadMessage \/ ReadAborted \/ ReadFailed
Write == \E ok \in BOOLEAN : RequestDone(ok)
Server == \E r \in net.requests : Answer(r)

Next ==
  \/ Publish \/ Stop \/ \E s \in Subs : Subscribe(s) \/ Unsubscribe(s) \/ Stream(s)
  \/ Read \/ Write \/ PingTimer \/ TimerExpires \/ OrphanRuns \/ Server
  \/ ArrivesEarly \/ Garbage \/ Breaks

Spec == Init /\ [][Next]_vars

\* asio's loop runs every handler that is due, the server answers what it received
FairSpec == /\ Spec /\ WF_vars(Read) /\ WF_vars(Write) /\ WF_vars(Server)
            /\ WF_vars(PingTimer) /\ WF_vars(TimerExpires)

(***************************************************************************)
(* Properties                                                              *)
(***************************************************************************)
Stops == {"", "rtm error", "destroyed client used"}

\* The server refuses nothing and its answers come after the handler of the
\* write; each message can be parsed.
Faultless == world.faults = {}

\* Without faults no CHECK of the client fails and no erased entry is used: an
\* answer finds its request, data finds its subscription, an answered unsubscribe
\* deletes it once, a pong finds its ping (process_input, on_pong, handle_write).
\* What fails is a call of a client that has stopped, and a restart that finds a
\* subscription twice in the list, which takes one that was given up.
NoCheckFails ==
  Faultless =>
    \/ crash \in Stops
    \/ crash = "not running" /\ client.state = "STOPPED"
    \/ /\ crash = "subscription already exists" /\ Repeats(listed)
       /\ \E s \in Subs : held[s] \in {"dropped", "recalled"}

PendingIds == {client.pending[i].id : i \in {j \in 1..Len(client.pending) : client.pending[j].type # "ping"}}
AnswerIds == {m.id : m \in {n \in ToSet(net.inbox) : n.type \in {"publish", "subscribe", "unsubscribe"}}}
Ids(S) == {r.id : r \in S}

\* Without faults and while the connection is up, _sent_request_infos holds exactly the requests
\* that are still to be written, are at the server, or have an answer on its
\* way: nothing is forgotten and nothing leaks.
Accounted ==
  Faultless /\ Alive /\ net.up /\ client.state = "RUNNING"
    => Ids(client.sent) = PendingIds \cup Ids(net.requests) \cup AnswerIds

\* A running client always has a read outstanding or its handler due: it hears
\* the server and it hears the connection break (ask_for_read), unless it was
\* sent what cannot be parsed.
Listens ==
  "garbage" \notin world.faults /\ Alive /\ client.state = "RUNNING" => client.reading # "off"

\* A running client has its ping timer set or exactly one ping on its way
\* (arm_ping_timer re-arms from the handler of the ping's write).
KeepAlive ==
  Alive /\ client.state = "RUNNING"
    => Cardinality(Pings(client)) = (IF client.timer = "off" THEN 1 ELSE 0)

\* Whatever a caller subscribed to and still holds is in the running client's
\* map, also after the client was replaced (resilient_client::restart), unless
\* the server refuses it.
HeldAreSubscribed ==
  Faultless /\ Alive /\ client.state = "RUNNING" => {s \in Subs : held[s] = "held"} \subseteq client.subs

\* A subscription its caller gave up is in the map only for as long as the
\* unsubscribe request is unanswered, as long as the connection is up (a write that
\* fails forgets its request), unless a restart has recalled it ("restoring
\* subscriptions"), which it does with the given-up ones that the list still has.
GivenUpIsLeaving ==
  Faultless /\ Alive /\ net.up /\ client.state = "RUNNING" =>
    \A s \in client.subs : held[s] = "dropped" =>
      \E r \in client.sent : r.type = "unsubscribe" /\ r.sub = s

Over == crash # "" \/ client.state # "RUNNING"

\* Without faults a request is answered, or the client that made it is gone.
EveryRequestEnds ==
  \A id \in 1..MaxId : (Faultless /\ id \in Ids(client.sent)) ~> (id \notin Ids(client.sent) \/ Over)

\* A subscription that is held is served by the server in the end, also after
\* the connection was lost, unless the client was stopped.
HeldIsServed ==
  \A s \in Subs : (Faultless /\ held[s] = "held") ~> (s \in net.streaming \/ held[s] = "dropped" \/ Over)

\* A stopped client leaves the loop without work, so that io_service.run() in
\* main() returns, even when a ping was written just before stop().
LoopIsReleased ==
  (client.state # "RUNNING") ~>
    \/ crash # ""
    \/ client.reading = "off" /\ client.writing = "no" /\ client.timer = "off"

\* What process_input, restart and the read loop keep up.
Safety ==
  /\ TypeOK
  /\ NoCheckFails
  /\ Listens
  /\ HeldAreSubscribed
  /\ GivenUpIsLeaving
=============================================================================
