-------------------------- MODULE RtmClientProofs --------------------------
(***************************************************************************)
(* Theorems about RtmClient, for every number of subscriptions, requests   *)
(* and lost connections.  What every world keeps up comes first; a world   *)
(* without faults keeps up more, whatever is subscribed to and given up    *)
(* between the connections that are lost.                                  *)
(***************************************************************************)
EXTENDS RtmClient, SequenceTheorems, FiniteSetTheorems, TLAPS

-----------------------------------------------------------------------------
(* What holds in every world.                                              *)

Calls == {"publish", "subscribe", "unsubscribe"}

Requests == [type : Calls \cup {"ping"}, id : Nat, sub : Subs \cup {NoSub}]
Messages ==
  [type : Calls \cup {"ping", "pong", "data", "error", "garbage"}, id : Nat, sub : Subs \cup {NoSub}, ok : BOOLEAN]

Clients ==
  [state : ClientStates, subs : SUBSET Subs, sent : SUBSET Requests, pending : Seq(Requests),
   writing : {"no", "yes", "written"}, reading : {"off", "asked", "message", "error", "aborted"},
   timer : {"off", "armed", "expired"}, pings : SUBSET Nat]

Nets ==
  [up : BOOLEAN, requests : SUBSET Requests, early : BOOLEAN, streaming : SUBSET (Subs \cup {NoSub}), inbox : Seq(Messages)]

AllWorlds ==
  [subs : SUBSET Subs, breaks : Nat, ids : Nat,
   calls : SUBSET {"publish", "subscribe", "unsubscribe", "stop", "late calls"},
   faults : SUBSET {"refusals", "garbage", "early answers", "freed reads"}]

Types ==
  /\ client \in Clients /\ net \in Nets
  /\ started \in BOOLEAN /\ orphans \in Nat /\ listed \in Seq(Subs) /\ nextId \in Nat \ {0}
  /\ held \in [Subs -> {"new", "held", "dropped", "recalled"}]
  /\ world \in AllWorlds

\* Every id was handed out by new_request_id().
Numbered ==
  /\ \A r \in client.sent \cup net.requests : r.id < nextId
  /\ \A i \in 1..Len(client.pending) : client.pending[i].id < nextId
  /\ \A p \in client.pings : 0 < p /\ p < nextId

\* The write loop and the read loop of the client: a handler is due while there is
\* something to write, a message that was read is still there.
Loops ==
  /\ client.writing = "no" <=> client.pending = <<>>
  /\ Alive /\ client.reading = "message" => net.inbox # <<>> /\ net.inbox[1].type # "pong"
  /\ client.state = "STOPPED" => client.reading = "off"
  /\ client.state = "RUNNING" => started /\ client.reading # "aborted"

IsPing(i) == client.pending[i].type = "ping"

\* The timer and the ping that is on its way take turns.
Turns ==
  Alive /\ client.state = "RUNNING" =>
    IF client.timer = "off"
    THEN \E i \in 1..Len(client.pending) : \A j \in 1..Len(client.pending) : IsPing(j) <=> j = i
    ELSE \A j \in 1..Len(client.pending) : ~IsPing(j)

\* Only a server that sends garbage stops a running client from reading.
Hears ==
  "garbage" \notin world.faults =>
    /\ \A i \in 1..Len(net.inbox) : net.inbox[i].type # "garbage"
    /\ Alive /\ client.state = "RUNNING" => client.reading # "off"

Always == Types /\ Numbered /\ Loops /\ Turns /\ Hears

-----------------------------------------------------------------------------
(* What holds without faults: where a request is, and its answer.          *)

Asks(m) == Request(m.type, m.id, m.sub)
IsAnswer(i) == net.inbox[i].type \in Calls
IsPong(i) == net.inbox[i].type = "pong"

\* A request that is still to be written is known and younger than all that was
\* written before.
Queued ==
  /\ \A i \in 1..Len(client.pending) :
       IF IsPing(i) THEN client.pending[i].id \in client.pings ELSE client.pending[i] \in client.sent
  /\ \A i, j \in 1..Len(client.pending) : i < j => client.pending[i].id < client.pending[j].id
  /\ \A r \in net.requests : \A i \in 1..Len(client.pending) : r.id < client.pending[i].id
  /\ \A k \in 1..Len(net.inbox) : \A i \in 1..Len(client.pending) :
       IsAnswer(k) \/ IsPong(k) => net.inbox[k].id < client.pending[i].id

\* A request at the server is known, and so is one whose answer is on its way.
Known ==
  /\ ~net.early
  /\ \A r \in client.sent : r.type # "ping"
  /\ \A q, r \in client.sent : q.id = r.id => q = r
  /\ net.requests \subseteq client.sent
  /\ \A k \in 1..Len(net.inbox) :
       /\ net.inbox[k].type \in Calls \cup {"pong", "data"}
       /\ IsAnswer(k) => Asks(net.inbox[k]) \in client.sent /\ Asks(net.inbox[k]) \notin net.requests
       /\ IsPong(k) => net.inbox[k].id \in client.pings
       /\ net.inbox[k].type = "subscribe" => net.inbox[k].ok

\* No answer, and no pong, comes twice.
Once ==
  \A j, k \in 1..Len(net.inbox) :
    j # k /\ ((IsAnswer(j) /\ IsAnswer(k)) \/ (IsPong(j) /\ IsPong(k))) => net.inbox[j].id # net.inbox[k].id

\* Nothing leaks: a request that is known is somewhere.
Covered ==
  net.up /\ client.state = "RUNNING" =>
    \A r \in client.sent :
      \/ r \in net.requests
      \/ \E i \in 1..Len(client.pending) : client.pending[i] = r
      \/ \E k \in 1..Len(net.inbox) : IsAnswer(k) /\ Asks(net.inbox[k]) = r

Booked == Queued /\ Known /\ Once /\ Covered
Books == Faultless /\ Alive => Booked

-----------------------------------------------------------------------------
(* What holds without faults: who holds what, and what is in the map.      *)

NothingGivenUp == \A s \in Subs : held[s] \in {"new", "held"}

\* What the caller holds is listed, and nothing is that was never asked for; as long
\* as nothing was given up, once.
ListIsHeld ==
  /\ \A s \in Subs : held[s] = "held" => \E i \in 1..Len(listed) : listed[i] = s
  /\ \A i \in 1..Len(listed) : held[listed[i]] # "new"
  /\ NothingGivenUp => \A i, j \in 1..Len(listed) : listed[i] = listed[j] => i = j

\* The map of a running client is what is held, what is leaving, and what was recalled.
\* A write that fails forgets its request, but the connection is lost then.
MapIsHeld ==
  /\ \A s \in Subs : held[s] = "held" => s \in client.subs
  /\ net.up => \A s \in client.subs : held[s] = "dropped" =>
       \E r \in client.sent : r.type = "unsubscribe" /\ r.sub = s

\* A subscription is asked for, then given up once, and known all the while.
Courses ==
  /\ \A r \in client.sent :
       /\ r.type = "publish" => r.sub = NoSub
       /\ r.type # "publish" => r.sub \in Subs /\ held[r.sub] # "new"
       /\ r.type = "unsubscribe" => held[r.sub] = "dropped" /\ r.sub \in client.subs
  /\ \A q, r \in client.sent :
       q.type # "publish" /\ r.type = "unsubscribe" /\ q.sub = r.sub => q = r \/ (q.type = "subscribe" /\ q.id < r.id)
  /\ \A r \in net.requests : r.sub \in Subs => r.sub \in client.subs
  /\ \A i \in 1..Len(client.pending) :
       client.pending[i].sub \in Subs => client.pending[i].sub \in client.subs /\ ~IsPing(i)

Leaves(k, s) == net.inbox[k].type = "unsubscribe" /\ net.inbox[k].sub = s

\* Nothing more is asked of the server, or comes from it, about s.
Silent(s) ==
  /\ s \notin net.streaming
  /\ \A r \in net.requests : r.sub # s
  /\ \A i \in 1..Len(client.pending) : client.pending[i].sub # s

\* Nothing about a subscription comes behind the answer that ends it.
LastOfAll ==
  /\ net.streaming \subseteq client.subs
  /\ \A k \in 1..Len(net.inbox) : \A s \in Subs : Leaves(k, s) => Silent(s)
  /\ \A k \in 1..Len(net.inbox) : net.inbox[k].type = "data" =>
       net.inbox[k].sub \in client.subs /\ \A j \in 1..k - 1 : ~Leaves(j, net.inbox[k].sub)

Tidy == ListIsHeld /\ MapIsHeld /\ Courses /\ LastOfAll

\* What was read is about a subscription that is known, also to a client that was
\* stopped meanwhile.
HeadIsKnown ==
  client.reading = "message" /\ net.inbox[1].type \in {"data", "unsubscribe"} => net.inbox[1].sub \in client.subs

Ordered ==
  /\ HeadIsKnown
  /\ client.state = "RUNNING" => Tidy
  /\ client.reading = "asked" => client.state = "RUNNING"
Subscribed == Faultless /\ Alive => Ordered

-----------------------------------------------------------------------------
(* Lemmas about sequences.                                                 *)

\* What is appended to a sequence (push, a frame on its way) comes last.
LEMMA Appended ==
  ASSUME NEW S, NEW s \in Seq(S), NEW x \in S, NEW n \in Nat, n = Len(s)
  PROVE  /\ Append(s, x) \in Seq(S) /\ Len(Append(s, x)) = n + 1 /\ Append(s, x)[n + 1] = x
         /\ \A k \in 1..n : Append(s, x)[k] = s[k]
         /\ Append(s, x) # <<>>
<1>1. /\ Append(s, x) \in Seq(S) /\ Len(Append(s, x)) = n + 1 /\ Append(s, x)[n + 1] = x
      /\ \A k \in 1..n : Append(s, x)[k] = s[k]
  BY AppendProperties
<1>2. Append(s, x) # <<>>
  BY <1>1, EmptySeq
<1> QED  BY <1>1, <1>2

\* What leaves a sequence in front (pop, a frame that was read) moves the rest up.
LEMMA Popped ==
  ASSUME NEW S, NEW s \in Seq(S), NEW n \in Nat, n = Len(s), s # <<>>
  PROVE  /\ n > 0 /\ Head(s) \in S /\ Head(s) = s[1]
         /\ Tail(s) \in Seq(S) /\ Len(Tail(s)) = n - 1
         /\ \A k \in 1..n - 1 : Tail(s)[k] = s[k + 1]
         /\ (Tail(s) = <<>> <=> n = 1)
<1>1. n # 0
  BY EmptySeq
<1>2. /\ n > 0 /\ Head(s) \in S /\ Head(s) = s[1]
      /\ Tail(s) \in Seq(S) /\ Len(Tail(s)) = n - 1
      /\ \A k \in 1..n - 1 : Tail(s)[k] = s[k + 1]
  BY <1>1, HeadTailProperties
<1>3. PICK t \in Seq(S) : t = Tail(s)
  BY <1>2
<1>4. t = <<>> <=> Len(t) = 0
  BY EmptySeq
<1>5. Len(t) = 0 <=> n = 1
  BY <1>2, <1>3
<1> QED  BY <1>2, <1>3, <1>4, <1>5

-----------------------------------------------------------------------------
(* Lemmas about the parts of a client and of a connection.                 *)

\* A request that is made is known, and last of those to be written.
LEMMA WithRequestMakes ==
  ASSUME NEW c \in Clients, NEW r \in Requests,
         NEW d, d = WithRequest(c, r)
  PROVE  /\ d \in Clients /\ d.sent = c.sent \cup {r} /\ d.pending = Append(c.pending, r)
         /\ d.writing # "no"
         /\ d.state = c.state /\ d.subs = c.subs /\ d.reading = c.reading
         /\ d.timer = c.timer /\ d.pings = c.pings
<1>1. Append(c.pending, r) \in Seq(Requests) /\ c.sent \cup {r} \in SUBSET Requests
  BY AppendProperties DEF Clients
<1>2. Busy(c.writing) \in {"yes", "written"}
  BY DEF Busy, Clients
<1> QED  BY <1>1, <1>2 DEF WithRequest, Clients

\* what the ping handler makes of a client
Pinged(c, i, d) ==
  /\ d \in Clients /\ d.pings = c.pings \cup {i} /\ d.writing # "no" /\ d.timer = "off"
  /\ \E r \in Requests : r.type = "ping" /\ r.id = i /\ r.sub = NoSub /\ d.pending = Append(c.pending, r)
  /\ d.state = c.state /\ d.subs = c.subs /\ d.reading = c.reading /\ d.sent = c.sent

\* A ping joins the requests that are to be written; its timer is off meanwhile.
LEMMA WithPingMakes ==
  ASSUME NEW c \in Clients, NEW i \in Nat
  PROVE  Pinged(c, i, WithPing(c, i))
<1>1. PICK r \in Requests : r = Request("ping", i, NoSub)
  BY DEF Requests, Request, Calls
<1>2. r.type = "ping" /\ r.id = i /\ r.sub = NoSub
  BY <1>1 DEF Request
<1>3. Append(c.pending, r) \in Seq(Requests) /\ c.pings \cup {i} \in SUBSET Nat
  BY AppendProperties DEF Clients
<1>4. Busy(c.writing) \in {"yes", "written"}
  BY DEF Busy, Clients
<1>5. PICK d : d = WithPing(c, i)
  OBVIOUS
<1>6. /\ d \in Clients /\ d.pings = c.pings \cup {i} /\ d.writing # "no" /\ d.timer = "off"
      /\ d.pending = Append(c.pending, r)
      /\ d.state = c.state /\ d.subs = c.subs /\ d.reading = c.reading /\ d.sent = c.sent
  BY <1>1, <1>3, <1>4, <1>5 DEF WithPing, Clients
<1>7. Pinged(c, i, d)
  BY <1>2, <1>6 DEF Pinged
<1> QED  BY <1>5, <1>7

\* An entry is erased from what was sent alone.
LEMMA EraseMakes ==
  ASSUME NEW c \in Clients, NEW i \in Nat,
         NEW d, d = Erase(c, i)
  PROVE  /\ d \in Clients /\ d.sent = {r \in c.sent : r.id # i}
         /\ d.state = c.state /\ d.subs = c.subs /\ d.pending = c.pending /\ d.writing = c.writing
         /\ d.reading = c.reading /\ d.timer = c.timer /\ d.pings = c.pings
BY DEF Erase, Clients

\* on_request_done: the first request leaves, the next is written.
LEMMA NextRequestMakes ==
  ASSUME NEW c \in Clients, c.pending # <<>>,
         NEW d, d = NextRequest(c)
  PROVE  /\ d \in Clients /\ d.pending = Tail(c.pending) /\ (d.writing = "no" <=> d.pending = <<>>)
         /\ d.state = c.state /\ d.subs = c.subs /\ d.sent = c.sent
         /\ d.reading = c.reading /\ d.timer = c.timer /\ d.pings = c.pings
<1>1. PICK q \in Seq(Requests) : q = c.pending /\ q # <<>>
  BY DEF Clients
<1>2. PICK n \in Nat : n = Len(q)
  BY LenProperties
<1>3. Tail(q) \in Seq(Requests) /\ n > 0 /\ (Tail(q) = <<>> <=> n = 1)
  <2>1. q # <<>>
    BY <1>1
  <2> QED  BY <1>2, <2>1, Popped
<1>4. PICK w \in {"yes", "no"} : w = IF n > 1 THEN "yes" ELSE "no"
  OBVIOUS
<1>5. w = "no" <=> Tail(q) = <<>>
  BY <1>3, <1>4
<1>6. NextRequest(c) = [c EXCEPT !.pending = Tail(q), !.writing = w]
  BY <1>1, <1>2, <1>4 DEF NextRequest
<1> QED  BY <1>1, <1>3, <1>5, <1>6 DEF Clients

\* The handler of a write, by what was written and whether that went well.
LEMMA AfterRequestMakes ==
  ASSUME NEW c \in Clients, c.pending # <<>>, NEW r \in Requests, NEW ok \in BOOLEAN,
         NEW d, d = AfterRequest(c, r, ok)
  PROVE  /\ d \in Clients /\ d.pending = Tail(c.pending) /\ (d.writing = "no" <=> d.pending = <<>>)
         /\ d.state = c.state /\ d.subs = c.subs /\ d.reading = c.reading /\ d.pings = c.pings
         /\ (ok => d.sent = c.sent) /\ (~ok => d.sent = {x \in c.sent : x.id # r.id})
         /\ (ok /\ r.type = "ping" => d.timer = "armed") /\ (~(ok /\ r.type = "ping") => d.timer = c.timer)
<1>1. r.id \in Nat
  BY DEF Requests
<1>2. CASE ~ok
  <2>1. PICK e : e = Erase(c, r.id)
    OBVIOUS
  <2>2. /\ e \in Clients /\ e.sent = {x \in c.sent : x.id # r.id}
        /\ e.state = c.state /\ e.subs = c.subs /\ e.pending = c.pending /\ e.writing = c.writing
        /\ e.reading = c.reading /\ e.timer = c.timer /\ e.pings = c.pings
    BY <1>1, <2>1, EraseMakes
  <2>3. d = NextRequest(e)
    BY <1>2, <2>1 DEF AfterRequest
  <2>4. e.pending # <<>>
    BY <2>2
  <2>5. /\ d \in Clients /\ d.pending = Tail(e.pending) /\ (d.writing = "no" <=> d.pending = <<>>)
        /\ d.state = e.state /\ d.subs = e.subs /\ d.sent = e.sent
        /\ d.reading = e.reading /\ d.timer = e.timer /\ d.pings = e.pings
    BY <2>2, <2>3, <2>4, NextRequestMakes
  <2> QED  BY <1>2, <2>2, <2>5
<1>3. CASE ok
  <2>1. PICK e : e = NextRequest(c)
    OBVIOUS
  <2>2. /\ e \in Clients /\ e.pending = Tail(c.pending) /\ (e.writing = "no" <=> e.pending = <<>>)
        /\ e.state = c.state /\ e.subs = c.subs /\ e.sent = c.sent
        /\ e.reading = c.reading /\ e.timer = c.timer /\ e.pings = c.pings
    BY <2>1, NextRequestMakes
  <2>3. CASE r.type = "ping"
    <3>1. d = [e EXCEPT !.timer = "armed"]
      BY <1>3, <2>1, <2>3 DEF AfterRequest, Armed
    <3>2. /\ d \in Clients /\ d.timer = "armed" /\ d.pending = e.pending /\ d.writing = e.writing
          /\ d.state = e.state /\ d.subs = e.subs /\ d.reading = e.reading /\ d.pings = e.pings
          /\ d.sent = e.sent
      BY <2>2, <3>1 DEF Clients
    <3> QED  BY <1>3, <2>2, <2>3, <3>2
  <2>4. CASE r.type # "ping"
    <3>1. d = e
      BY <1>3, <2>1, <2>4 DEF AfterRequest
    <3> QED  BY <1>3, <2>2, <2>4, <3>1
  <2> QED  BY <2>3, <2>4
<1> QED  BY <1>2, <1>3

\* process_input and the next ask_for_read.
LEMMA ProcessedMakes ==
  ASSUME NEW c \in Clients, NEW m \in Messages,
         NEW d, d = AskForRead(Processed(c, m))
  PROVE  /\ d \in Clients
         /\ (c.state = "RUNNING" => d.reading = "asked") /\ (c.state # "RUNNING" => d.reading = "error")
         /\ (m.type \in {"data", "error"} => d.sent = c.sent /\ d.subs = c.subs)
         /\ (m.type \notin {"data", "error"} => d.sent = {r \in c.sent : r.id # m.id})
         /\ (m.type \notin {"data", "error"} /\ Ends(m) => d.subs = c.subs \ {m.sub})
         /\ (~Ends(m) => d.subs = c.subs)
         /\ d.state = c.state /\ d.pending = c.pending /\ d.writing = c.writing
         /\ d.timer = c.timer /\ d.pings = c.pings
<1>1. m.id \in Nat
  BY DEF Messages
<1>2. PICK f : f = Processed(c, m)
  OBVIOUS
<1>3. /\ f \in Clients
      /\ (m.type \in {"data", "error"} => f.sent = c.sent /\ f.subs = c.subs)
      /\ (m.type \notin {"data", "error"} => f.sent = {r \in c.sent : r.id # m.id})
      /\ (m.type \notin {"data", "error"} /\ Ends(m) => f.subs = c.subs \ {m.sub})
      /\ (~Ends(m) => f.subs = c.subs)
      /\ f.state = c.state /\ f.pending = c.pending /\ f.writing = c.writing
      /\ f.timer = c.timer /\ f.pings = c.pings
  <2>1. CASE m.type \in {"data", "error"}
    <3>1. f = c
      BY <1>2, <2>1 DEF Processed
    <3> QED  BY <2>1, <3>1
  <2>2. CASE m.type \notin {"data", "error"}
    <3>1. PICK e : e = Erase(c, m.id)
      OBVIOUS
    <3>2. /\ e \in Clients /\ e.sent = {r \in c.sent : r.id # m.id}
          /\ e.state = c.state /\ e.subs = c.subs /\ e.pending = c.pending /\ e.writing = c.writing
          /\ e.reading = c.reading /\ e.timer = c.timer /\ e.pings = c.pings
      BY <1>1, <3>1, EraseMakes
    <3>3. ASSUME NEW subs \in SUBSET Subs, f = [e EXCEPT !.subs = subs]
          PROVE  /\ f \in Clients /\ f.subs = subs /\ f.sent = e.sent /\ f.state = e.state /\ f.pending = e.pending
                 /\ f.writing = e.writing /\ f.timer = e.timer /\ f.pings = e.pings
      BY <3>2, <3>3 DEF Clients
    <3>4. c.subs \in SUBSET Subs /\ c.subs \ {m.sub} \in SUBSET Subs
      BY DEF Clients
    <3>5. CASE Ends(m)
      <4>1. f = [e EXCEPT !.subs = c.subs \ {m.sub}]
        BY <1>2, <2>2, <3>1, <3>2, <3>5 DEF Processed
      <4> QED  BY <2>2, <3>2, <3>3, <3>4, <3>5, <4>1
    <3>6. CASE ~Ends(m)
      <4>1. f = [e EXCEPT !.subs = c.subs]
        BY <1>2, <2>2, <3>1, <3>2, <3>6 DEF Processed
      <4> QED  BY <2>2, <3>2, <3>3, <3>4, <3>6, <4>1
    <3> QED  BY <3>5, <3>6
  <2> QED  BY <2>1, <2>2
<1>4. PICK x \in {"asked", "error"} : x = IF f.state = "RUNNING" THEN "asked" ELSE "error"
  OBVIOUS
<1>5. d = [f EXCEPT !.reading = x]
  BY <1>2, <1>4 DEF AskForRead
<1>6. /\ d \in Clients /\ d.reading = x /\ d.sent = f.sent /\ d.subs = f.subs /\ d.state = f.state
      /\ d.pending = f.pending /\ d.writing = f.writing /\ d.timer = f.timer /\ d.pings = f.pings
  BY <1>3, <1>5 DEF Clients
<1> QED  BY <1>3, <1>4, <1>6

\* A client that was just started reads, and its ping timer is armed.
LEMMA RunningMakes ==
  ASSUME NEW d, d = Running
  PROVE  /\ d \in Clients /\ d.state = "RUNNING" /\ d.subs = {} /\ d.sent = {} /\ d.pending = <<>>
         /\ d.writing = "no" /\ d.reading = "asked" /\ d.timer = "armed" /\ d.pings = {}
<1>1. PICK a : a = Fresh
  OBVIOUS
<1>2. /\ a \in Clients /\ a.subs = {} /\ a.sent = {} /\ a.pending = <<>>
      /\ a.writing = "no" /\ a.pings = {}
  BY <1>1, EmptySeq DEF Fresh, Clients, ClientStates
<1>3. PICK b : b = [a EXCEPT !.state = "RUNNING"]
  OBVIOUS
<1>4. /\ b \in Clients /\ b.state = "RUNNING" /\ b.subs = {} /\ b.sent = {} /\ b.pending = <<>>
      /\ b.writing = "no" /\ b.pings = {}
  BY <1>2, <1>3 DEF Clients, ClientStates
<1>5. PICK c : c = [b EXCEPT !.timer = "armed"]
  OBVIOUS
<1>6. /\ c \in Clients /\ c.state = "RUNNING" /\ c.subs = {} /\ c.sent = {} /\ c.pending = <<>>
      /\ c.writing = "no" /\ c.pings = {} /\ c.timer = "armed"
  BY <1>4, <1>5 DEF Clients
<1>7. d = AskForRead(c)
  BY <1>1, <1>3, <1>5 DEF Running, Armed
<1>8. d = [c EXCEPT !.reading = "asked"]
  BY <1>6, <1>7 DEF AskForRead
<1> QED  BY <1>6, <1>8 DEF Clients

\* what restart() makes of the list
RestoredAs(list, i, n, d) ==
  /\ d \in Clients /\ d.state = "RUNNING" /\ d.reading = "asked" /\ d.timer = "armed" /\ d.pings = {}
  /\ \A k \in 1..n : list[k] \in d.subs
  /\ \A s \in d.subs : \E k \in 1..n : s = list[k]
  /\ Len(d.pending) = n
  /\ \A k \in 1..n : /\ d.pending[k].type = "subscribe" /\ d.pending[k].id = i + k - 1 /\ d.pending[k].sub = list[k]
                     /\ d.pending[k] \in d.sent
  /\ \A r \in d.sent : \E k \in 1..n : r = d.pending[k]
  /\ (d.writing = "no" <=> d.pending = <<>>)

\* The client that restart() makes knows the listed subscriptions and asks for each.
LEMMA RestoredMakes ==
  ASSUME NEW list \in Seq(Subs), NEW i \in Nat, NEW n \in Nat, n = Len(list)
  PROVE  RestoredAs(list, i, n, Restored(list, i))
<1>0. PICK d : d = Restored(list, i)
  OBVIOUS
<1>1. PICK asked : asked = [k \in 1..n |-> Request("subscribe", i + k - 1, list[k])]
  OBVIOUS
<1>2. ASSUME NEW k \in 1..n PROVE Request("subscribe", i + k - 1, list[k]) \in Requests
  <2>1. list[k] \in Subs /\ i + k - 1 \in Nat
    BY ElementOfSeq
  <2> QED  BY <2>1 DEF Request, Requests, Calls
<1>3. asked \in Seq(Requests) /\ Len(asked) = n
  BY <1>1, <1>2
<1>4. ToSet(asked) = {Request("subscribe", i + k - 1, list[k]) : k \in 1..n} /\ ToSet(asked) \in SUBSET Requests
  <2>1. DOMAIN asked = 1..n
    BY <1>1
  <2> QED  BY <1>1, <1>2, <2>1 DEF ToSet
<1>5. ToSet(list) = {list[k] : k \in 1..n} /\ ToSet(list) \in SUBSET Subs
  <2>1. DOMAIN list = 1..n /\ \A k \in 1..n : list[k] \in Subs
    BY LenProperties, ElementOfSeq
  <2> QED  BY <2>1 DEF ToSet
<1>6. list = <<>> <=> asked = <<>>
  BY <1>3, EmptySeq
<1>7. PICK q : q = Running
  OBVIOUS
<1>8. q \in Clients /\ q.state = "RUNNING" /\ q.reading = "asked" /\ q.timer = "armed" /\ q.pings = {}
  BY <1>7, RunningMakes
<1>9. PICK w \in {"yes", "no"} : w = IF list = <<>> THEN "no" ELSE "yes"
  OBVIOUS
<1>10. PICK subs \in SUBSET Subs : subs = ToSet(list)
  BY <1>5
<1>11. PICK sent \in SUBSET Requests : sent = ToSet(asked)
  BY <1>4
<1>12. d = [q EXCEPT !.subs = subs, !.sent = sent, !.pending = asked, !.writing = w]
  BY <1>0, <1>1, <1>7, <1>9, <1>10, <1>11 DEF Restored
<1>13. /\ d \in Clients /\ d.state = q.state /\ d.reading = q.reading /\ d.timer = q.timer /\ d.pings = q.pings
       /\ d.subs = subs /\ d.sent = sent /\ d.pending = asked /\ d.writing = w
  BY <1>3, <1>8, <1>12 DEF Clients
<1>14. \A k \in 1..n : asked[k] = Request("subscribe", i + k - 1, list[k])
  BY <1>1
<1>15. \A k \in 1..n : asked[k].type = "subscribe" /\ asked[k].id = i + k - 1 /\ asked[k].sub = list[k]
  <2>1. \A j \in Int, s \in Subs : LET r == Request("subscribe", j, s) IN r.type = "subscribe" /\ r.id = j /\ r.sub = s
    BY DEF Request
  <2>2. \A k \in 1..n : i + k - 1 \in Int /\ list[k] \in Subs
    BY ElementOfSeq
  <2> QED  BY <1>14, <2>1, <2>2
<1>16. (\A k \in 1..n : asked[k] \in sent) /\ (\A r \in sent : \E k \in 1..n : r = asked[k])
  BY <1>4, <1>11, <1>14
<1>17. (\A k \in 1..n : list[k] \in subs) /\ (\A s \in subs : \E k \in 1..n : s = list[k])
  BY <1>5, <1>10
<1>18. d.writing = "no" <=> d.pending = <<>>
  BY <1>6, <1>9, <1>13
<1>19. RestoredAs(list, i, n, d)
  BY <1>3, <1>8, <1>13, <1>15, <1>16, <1>17, <1>18 DEF RestoredAs
<1> QED  BY <1>0, <1>19

-----------------------------------------------------------------------------
(* What the steps do.                                                      *)

\* a CHECK that fails, or memory that is used after it was freed
Aborts == crash' # "" /\ UNCHANGED <<client, started, listed, orphans, nextId, held, net, world>>

\* a request is issued by a running client
Pushes(r) ==
  /\ client.state = "RUNNING" /\ r \in Requests /\ r.id = nextId /\ r.type # "ping"
  /\ client' \in Clients /\ client'.sent = client.sent \cup {r} /\ client'.pending = Append(client.pending, r)
  /\ client'.writing # "no" /\ client'.state = client.state /\ client'.reading = client.reading
  /\ client'.timer = client.timer /\ client'.pings = client.pings
  /\ nextId' = nextId + 1 /\ UNCHANGED <<crash, net, world, started, orphans>>

\* a call to a client that is not running
Silences ==
  /\ UNCHANGED <<client, nextId, net, world, started, orphans>>
  /\ client.state # "RUNNING"
  /\ crash' = IF client.state = "STOPPED" THEN "not running" ELSE crash

\* Every call issues a request, is ignored, or fails a CHECK.
LEMMA CallMoves ==
  ASSUME Types
  PROVE  /\ Publish => \/ Silences
                       \/ Pushes(Request("publish", nextId, NoSub)) /\ client'.subs = client.subs
         /\ Publish => UNCHANGED <<listed, held>>
         /\ \A s \in Subs : Subscribe(s) =>
              /\ held[s] = "new" /\ held' = [held EXCEPT ![s] = "held"] /\ listed' = Append(listed, s)
              /\ \/ Silences
                 \/ Pushes(Request("subscribe", nextId, s)) /\ client'.subs = client.subs \cup {s}
         /\ \A s \in Subs : Unsubscribe(s) =>
              \/ Aborts /\ client.state = "RUNNING" /\ held[s] = "held" /\ s \notin client.subs
              \/ /\ held[s] = "held" /\ held' = [held EXCEPT ![s] = "dropped"] /\ listed' = RemoveIf(listed, s)
                 /\ \/ Silences
                    \/ /\ Pushes(Request("unsubscribe", nextId, s)) /\ client'.subs = client.subs
                       /\ s \in client.subs
<1>0. client \in Clients /\ nextId \in Nat
  BY DEF Types
<1>1. ASSUME NEW type \in Calls, NEW s \in Subs \cup {NoSub}
      PROVE  LET r == Request(type, nextId, s)
             IN  r \in Requests /\ r.id = nextId /\ r.type # "ping" /\ r.type = type /\ r.sub = s
  BY <1>0 DEF Request, Requests, Calls
<1>2. ASSUME NEW type \in Calls, NEW s \in Subs \cup {NoSub},
             Issue(WithRequest(client, Request(type, nextId, s))), UNCHANGED <<net, world, started, orphans>>
      PROVE  Silences \/ (Pushes(Request(type, nextId, s)) /\ client'.subs = client.subs)
  <2>1. CASE client.state = "RUNNING"
    <3>1. client' = WithRequest(client, Request(type, nextId, s)) /\ nextId' = nextId + 1 /\ crash' = crash
      BY <1>2, <2>1 DEF Issue
    <3> QED  BY <1>0, <1>1, <1>2, <2>1, <3>1, WithRequestMakes DEF Pushes
  <2>2. CASE client.state # "RUNNING"
    BY <1>2, <2>2 DEF Issue, Silences
  <2> QED  BY <2>1, <2>2
<1>3. "publish" \in Calls /\ "subscribe" \in Calls /\ "unsubscribe" \in Calls
  BY DEF Calls
<1>4. Publish => /\ Silences \/ (Pushes(Request("publish", nextId, NoSub)) /\ client'.subs = client.subs)
                 /\ UNCHANGED <<listed, held>>
  BY <1>2, <1>3 DEF Publish
<1>5. ASSUME NEW s \in Subs, Subscribe(s)
      PROVE  /\ held[s] = "new" /\ held' = [held EXCEPT ![s] = "held"] /\ listed' = Append(listed, s)
             /\ Silences \/ (Pushes(Request("subscribe", nextId, s)) /\ client'.subs = client.subs \cup {s})
  <2>1. PICK d : d = WithRequest(client, Request("subscribe", nextId, s))
    OBVIOUS
  <2>2. Issue([d EXCEPT !.subs = @ \cup {s}]) /\ UNCHANGED <<net, world, started, orphans>>
    BY <1>5, <2>1 DEF Subscribe
  <2>3. CASE client.state = "RUNNING"
    <3>1. client' = [d EXCEPT !.subs = @ \cup {s}] /\ nextId' = nextId + 1 /\ crash' = crash
      BY <2>2, <2>3 DEF Issue
    <3>2. PICK r \in Requests : r = Request("subscribe", nextId, s)
      BY <1>1, <1>3
    <3>3. /\ d \in Clients /\ d.sent = client.sent \cup {r} /\ d.pending = Append(client.pending, r)
          /\ d.writing # "no"
          /\ d.state = client.state /\ d.subs = client.subs /\ d.reading = client.reading
          /\ d.timer = client.timer /\ d.pings = client.pings
      BY <1>0, <2>1, <3>2, WithRequestMakes
    <3>4. /\ client' \in Clients /\ client'.sent = d.sent /\ client'.pending = d.pending
          /\ client'.writing = d.writing /\ client'.state = d.state /\ client'.subs = d.subs \cup {s}
          /\ client'.reading = d.reading /\ client'.timer = d.timer /\ client'.pings = d.pings
      BY <3>1, <3>3 DEF Clients
    <3>5. r.id = nextId /\ r.type # "ping"
      BY <1>1, <1>3, <3>2
    <3>6. Pushes(r) /\ client'.subs = client.subs \cup {s}
      BY <2>2, <2>3, <3>1, <3>3, <3>4, <3>5 DEF Pushes
    <3> QED  BY <1>5, <3>2, <3>6 DEF Subscribe, Listed
  <2>4. CASE client.state # "RUNNING"
    BY <1>5, <2>2, <2>4 DEF Subscribe, Listed, Issue, Silences
  <2> QED  BY <2>3, <2>4
<1>6. ASSUME NEW s \in Subs, Unsubscribe(s)
      PROVE  \/ Aborts /\ client.state = "RUNNING" /\ held[s] = "held" /\ s \notin client.subs
             \/ /\ held[s] = "held" /\ held' = [held EXCEPT ![s] = "dropped"] /\ listed' = RemoveIf(listed, s)
                /\ \/ Silences
                   \/ /\ Pushes(Request("unsubscribe", nextId, s)) /\ client'.subs = client.subs
                      /\ s \in client.subs
  <2>1. CASE client.state = "RUNNING" /\ ~Knows(client, s)
    BY <1>6, <2>1 DEF Unsubscribe, Knows, Abort, Aborts
  <2>2. CASE ~(client.state = "RUNNING" /\ ~Knows(client, s))
    <3>1. /\ held[s] = "held" /\ held' = [held EXCEPT ![s] = "dropped"] /\ listed' = RemoveIf(listed, s)
          /\ Issue(WithRequest(client, Request("unsubscribe", nextId, s)))
          /\ UNCHANGED <<net, world, started, orphans>>
      BY <1>6, <2>2 DEF Unsubscribe, Unsubscribed
    <3>2. client.state = "RUNNING" => s \in client.subs
      BY <2>2 DEF Knows
    <3>3. ~Pushes(Request("unsubscribe", nextId, s)) \/ client.state = "RUNNING"
      BY DEF Pushes
    <3>4. Silences \/ (Pushes(Request("unsubscribe", nextId, s)) /\ client'.subs = client.subs)
      BY <1>2, <1>3, <3>1
    <3> QED  BY <3>1, <3>2, <3>3, <3>4
  <2> QED  BY <2>1, <2>2
<1> QED  BY <1>4, <1>5, <1>6

\* stop: what waits on the socket is aborted, and so is the timer
Stopping ==
  /\ client' \in Clients /\ client.state = "RUNNING" /\ client'.state = "PENDING_STOPPED"
  /\ client'.pending = client.pending /\ (client'.writing = "no" <=> client.writing = "no")
  /\ client'.reading = (IF client.reading = "asked" THEN "aborted" ELSE client.reading)
  /\ client'.sent = client.sent /\ client'.subs = client.subs /\ client'.pings = client.pings
  /\ net' \in Nets /\ ~net'.up /\ net'.requests = net.requests /\ net'.early = net.early
  /\ net'.streaming = net.streaming /\ net'.inbox = net.inbox
  /\ started' = FALSE /\ UNCHANGED <<listed, orphans, nextId, crash, held, world>>

\* A call of stop closes the socket of a running client.
LEMMA StopMoves == Types /\ Stop => Stopping
<1> SUFFICES ASSUME Types, Stop PROVE Stopping
  OBVIOUS
<1>1. PICK w \in IF client.writing = "yes" THEN {"yes", "written"} ELSE {client.writing} :
        client' = [client EXCEPT !.state = "PENDING_STOPPED", !.writing = w,
                     !.timer = IF @ = "armed" THEN "off" ELSE @,
                     !.reading = IF @ = "asked" THEN "aborted" ELSE @]
  BY DEF Stop
<1>2. w \in {"no", "yes", "written"} /\ (w = "no" <=> client.writing = "no")
  BY DEF Types, Clients
<1>3. PICK t \in {"off", "armed", "expired"} : t = IF client.timer = "armed" THEN "off" ELSE client.timer
  BY DEF Types, Clients
<1>4. PICK x \in {"off", "asked", "message", "error", "aborted"} :
        x = IF client.reading = "asked" THEN "aborted" ELSE client.reading
  BY DEF Types, Clients
<1>5. client' = [client EXCEPT !.state = "PENDING_STOPPED", !.writing = w, !.timer = t, !.reading = x]
  BY <1>1, <1>3, <1>4
<1>6. /\ client' \in Clients /\ client'.state = "PENDING_STOPPED"
      /\ client'.pending = client.pending /\ client'.writing = w /\ client'.reading = x
      /\ client'.sent = client.sent /\ client'.subs = client.subs /\ client'.pings = client.pings
  BY <1>2, <1>5 DEF Types, Clients, ClientStates
<1>7. /\ net' \in Nets /\ ~net'.up /\ net'.requests = net.requests /\ net'.early = net.early
      /\ net'.streaming = net.streaming /\ net'.inbox = net.inbox
  BY DEF Stop, Types, Nets
<1> QED  BY <1>2, <1>4, <1>6, <1>7 DEF Stop, Stopping

\* a new client on a new connection
Restarting ==
  /\ started /\ ~Repeats(listed) /\ RestoredAs(listed, nextId, Len(listed), client')
  /\ nextId' = nextId + Len(listed)
  /\ net' = NewConnection /\ held' = Recalled(listed) /\ UNCHANGED <<started, listed, crash, world>>
  /\ orphans' \in Nat

\* A new connection has nothing on its way.
LEMMA NewConnectionMakes ==
  /\ NewConnection \in Nets /\ NewConnection.up /\ NewConnection.requests = {} /\ ~NewConnection.early
  /\ NewConnection.streaming = {} /\ NewConnection.inbox = <<>>
BY EmptySeq DEF NewConnection, Nets

\* the handler of the write of r
Written(r, ok) ==
  /\ client.pending # <<>> /\ r = client.pending[1] /\ r \in Requests
  /\ client' \in Clients /\ client'.pending = Tail(client.pending)
  /\ (client'.writing = "no" <=> client'.pending = <<>>)
  /\ client'.state = client.state /\ client'.subs = client.subs /\ client'.reading = client.reading
  /\ client'.pings = client.pings
  /\ (ok => client'.sent = client.sent) /\ (~ok => client'.sent = {x \in client.sent : x.id # r.id})
  /\ (ok /\ r.type = "ping" => client'.timer = "armed") /\ (~(ok /\ r.type = "ping") => client'.timer = client.timer)
  /\ net' = (IF ok /\ net.up THEN Delivered(net, r) ELSE net)
  /\ ~ok => ~net.up /\ ~(r.type = "ping" /\ client.state = "RUNNING")
  /\ UNCHANGED <<started, listed, orphans, nextId, crash, held, world>>

\* A write ends: its handler runs, or uses what is gone.
LEMMA WriteMoves ==
  ASSUME Types, Loops, NEW ok \in BOOLEAN, RequestDone(ok)
  PROVE  \/ Aborts /\ Alive /\ client.pending # <<>> /\ ~IsPing(1) /\ client.pending[1] \notin client.sent
         \/ Aborts /\ crash' = "destroyed client used"
         \/ \E r \in Requests : Written(r, ok)
<1>1. client.pending # <<>> /\ Alive /\ client \in Clients
  BY DEF RequestDone, Loops, Types
<1>2. PICK q \in Seq(Requests) : q = client.pending
  BY <1>1 DEF Clients
<1>3. PICK n \in Nat : n = Len(q)
  BY LenProperties
<1>4. Head(q) \in Requests /\ Head(q) = q[1]
  <2>1. q # <<>>
    BY <1>1, <1>2
  <2> QED  BY <1>3, <2>1, Popped
<1>5. /\ client.pending[1] \in Requests /\ Head(client.pending) = client.pending[1]
  BY <1>2, <1>4
<1> DEFINE r == client.pending[1]
<1> HIDE DEF r
<1>9. r \in Requests /\ r = client.pending[1] /\ r = Head(client.pending)
  BY <1>5 DEF r
<1>6. CASE r.type # "ping" /\ r \notin client.sent
  <2>1. Aborts
    BY <1>9, <1>6 DEF RequestDone, Abort, Aborts
  <2> QED  BY <1>1, <1>6, <1>9, <2>1 DEF IsPing
<1>7. CASE r.type = "ping" /\ ~ok /\ client.state = "RUNNING"
  BY <1>7, <1>9 DEF RequestDone, Abort, Aborts
<1>8. CASE ~(r.type # "ping" /\ r \notin client.sent) /\ ~(r.type = "ping" /\ ~ok /\ client.state = "RUNNING")
  <2>1. /\ client' = AfterRequest(client, r, ok)
        /\ net' = IF ok /\ net.up THEN Delivered(net, r) ELSE net
        /\ UNCHANGED <<started, listed, orphans, nextId, crash, held, world>>
        /\ ~ok => ~net.up
    BY <1>8, <1>9 DEF RequestDone
  <2>2. /\ client' \in Clients /\ client'.pending = Tail(client.pending)
        /\ (client'.writing = "no" <=> client'.pending = <<>>)
        /\ client'.state = client.state /\ client'.subs = client.subs
        /\ client'.reading = client.reading /\ client'.pings = client.pings
        /\ (ok => client'.sent = client.sent) /\ (~ok => client'.sent = {x \in client.sent : x.id # r.id})
        /\ (ok /\ r.type = "ping" => client'.timer = "armed") /\ (~(ok /\ r.type = "ping") => client'.timer = client.timer)
    <3>1. PICK c \in Clients : c = client
      BY <1>1
    <3>2. c.pending # <<>>
      BY <1>1, <3>1
    <3>3. PICK d : d = AfterRequest(c, r, ok)
      OBVIOUS
    <3>4. /\ d \in Clients /\ d.pending = Tail(c.pending) /\ (d.writing = "no" <=> d.pending = <<>>)
          /\ d.state = c.state /\ d.subs = c.subs /\ d.reading = c.reading /\ d.pings = c.pings
          /\ (ok => d.sent = c.sent) /\ (~ok => d.sent = {x \in c.sent : x.id # r.id})
          /\ (ok /\ r.type = "ping" => d.timer = "armed") /\ (~(ok /\ r.type = "ping") => d.timer = c.timer)
      BY <1>9, <3>2, <3>3, AfterRequestMakes
    <3>5. client' = d
      BY <2>1, <3>1, <3>3
    <3> QED  BY <3>1, <3>4, <3>5
  <2> QED  BY <1>1, <1>8, <1>9, <2>1, <2>2 DEF Written
<1> QED  BY <1>6, <1>7, <1>8

\* what is to be written, and what was, stays
SameRequests ==
  client'.sent = client.sent /\ client'.pending = client.pending /\ client'.writing = client.writing

OnlyClient == UNCHANGED <<started, listed, orphans, nextId, crash, held, net, world>>

\* the first frame on its way is read
Consumes ==
  /\ net.inbox # <<>> /\ net' \in Nets /\ net'.inbox = Tail(net.inbox)
  /\ net'.up = net.up /\ net'.requests = net.requests /\ net'.early = net.early /\ net'.streaming = net.streaming

\* the ping timer expires; its handler writes a ping
Ticks ==
  /\ client' \in Clients /\ SameRequests /\ client'.state = client.state /\ client'.subs = client.subs
  /\ client'.reading = client.reading /\ client'.pings = client.pings
  /\ client.timer = "armed" /\ client'.timer = "expired" /\ OnlyClient
Pinging ==
  /\ client.timer = "expired" /\ Pinged(client, nextId, client') /\ nextId' = nextId + 1
  /\ UNCHANGED <<started, listed, orphans, crash, held, net, world>>

\* The two steps of the ping timer.
LEMMA TimerMoves ==
  ASSUME Types
  PROVE  /\ TimerExpires => Ticks
         /\ PingTimer => Pinging
<1>1. TimerExpires => Ticks
  <2> SUFFICES ASSUME TimerExpires PROVE Ticks
    OBVIOUS
  <2>1. client.timer = "armed" /\ client' = [client EXCEPT !.timer = "expired"] /\ client \in Clients /\ OnlyClient
    BY DEF TimerExpires, Types, OnlyClient
  <2> QED  BY <2>1 DEF Ticks, SameRequests, Clients
<1>2. PingTimer => Pinging
  <2> SUFFICES ASSUME PingTimer PROVE Pinging
    OBVIOUS
  <2>1. client \in Clients /\ nextId \in Nat
    BY DEF Types
  <2>2. Pinged(client, nextId, WithPing(client, nextId))
    BY <2>1, WithPingMakes
  <2> QED  BY <2>2 DEF PingTimer, Pinging
<1> QED  BY <1>1, <1>2

\* a pong is taken inside the read operation; a read ends
Ponged ==
  /\ Alive /\ client.reading = "asked" /\ Consumes /\ net.inbox[1].type = "pong"
  /\ net.inbox[1].id \in client.pings /\ client' \in Clients /\ SameRequests
  /\ client'.state = client.state /\ client'.subs = client.subs /\ client'.reading = client.reading
  /\ client'.timer = client.timer /\ client'.pings = client.pings \ {net.inbox[1].id}
  /\ UNCHANGED <<started, listed, orphans, nextId, crash, held, world>>
ReadEnds ==
  /\ Alive /\ client' \in Clients /\ SameRequests /\ client'.state = client.state /\ client'.subs = client.subs
  /\ client'.timer = client.timer /\ client'.pings = client.pings /\ client.reading = "asked"
  /\ \/ client'.reading = "message" /\ net.inbox # <<>> /\ net.inbox[1].type # "pong"
     \/ client'.reading = "error" /\ ~net.up
  /\ OnlyClient

\* What comes first on its way is a message, and the rest of it a sequence of them.
LEMMA InboxHead ==
  ASSUME Types, net.inbox # <<>>
  PROVE  /\ Head(net.inbox) = net.inbox[1] /\ net.inbox[1] \in Messages /\ Tail(net.inbox) \in Seq(Messages)
         /\ \E n \in Nat : n = Len(net.inbox) /\ n > 0 /\ Len(Tail(net.inbox)) = n - 1
                           /\ \A k \in 1..n - 1 : Tail(net.inbox)[k] = net.inbox[k + 1] /\ k + 1 \in 1..n
<1>1. net.inbox \in Seq(Messages)
  BY DEF Types, Nets
<1>2. Len(net.inbox) \in Nat
  BY <1>1, LenProperties
<1>3. /\ Len(net.inbox) > 0 /\ Head(net.inbox) \in Messages /\ Head(net.inbox) = net.inbox[1]
      /\ Tail(net.inbox) \in Seq(Messages) /\ Len(Tail(net.inbox)) = Len(net.inbox) - 1
      /\ \A k \in 1..Len(net.inbox) - 1 : Tail(net.inbox)[k] = net.inbox[k + 1]
  BY <1>1, <1>2, Popped
<1>4. \A k \in 1..Len(net.inbox) - 1 : k + 1 \in 1..Len(net.inbox)
  BY <1>2
<1> QED  BY <1>2, <1>3, <1>4

\* Reading the first frame leaves the connection as it is.
LEMMA Consumed ==
  ASSUME Types, net.inbox # <<>>, net' = [net EXCEPT !.inbox = Tail(@)]
  PROVE  Consumes
<1>1. net \in Nets /\ Tail(net.inbox) \in Seq(Messages)
  BY InboxHead DEF Types
<1>2. net' = [net EXCEPT !.inbox = Tail(net.inbox)]
  OBVIOUS
<1> QED  BY <1>1, <1>2 DEF Consumes, Nets

\* What the read operation may do on its own.
LEMMA AskedMoves ==
  ASSUME Types
  PROVE  /\ Pong => Ponged \/ (Aborts /\ client.reading = "asked" /\ net.inbox # <<>>
                               /\ net.inbox[1].type = "pong" /\ net.inbox[1].id \notin client.pings)
         /\ ReadCompletes => ReadEnds
<1>1. ASSUME Pong PROVE Ponged \/ (Aborts /\ client.reading = "asked" /\ net.inbox # <<>>
                                   /\ net.inbox[1].type = "pong" /\ net.inbox[1].id \notin client.pings)
  <2>1. /\ Alive /\ client.reading = "asked" /\ net.inbox # <<>> /\ Head(net.inbox) = net.inbox[1]
        /\ net.inbox[1].type = "pong" /\ client \in Clients
    BY <1>1, InboxHead DEF Pong, Types
  <2>2. CASE net.inbox[1].id \in client.pings
    <3>1. /\ client' = [client EXCEPT !.pings = @ \ {net.inbox[1].id}]
          /\ net' = [net EXCEPT !.inbox = Tail(@)]
          /\ UNCHANGED <<started, listed, orphans, nextId, crash, held, world>>
      BY <1>1, <2>1, <2>2 DEF Pong
    <3>2. Consumes
      BY <2>1, <3>1, Consumed
    <3>3. /\ client' \in Clients /\ SameRequests /\ client'.state = client.state /\ client'.subs = client.subs
          /\ client'.reading = client.reading /\ client'.timer = client.timer
          /\ client'.pings = client.pings \ {net.inbox[1].id}
      BY <2>1, <3>1 DEF Clients, SameRequests
    <3> QED  BY <2>1, <2>2, <3>1, <3>2, <3>3 DEF Ponged
  <2>3. CASE net.inbox[1].id \notin client.pings
    BY <1>1, <2>1, <2>3 DEF Pong, Abort, Aborts
  <2> QED  BY <2>2, <2>3
<1>2. ASSUME ReadCompletes PROVE ReadEnds
  <2>1. Alive /\ client.reading = "asked" /\ OnlyClient /\ client \in Clients
    BY <1>2 DEF ReadCompletes, OnlyClient, Types
  <2>2. ASSUME NEW x \in {"message", "error"}, client' = [client EXCEPT !.reading = x]
        PROVE  /\ client' \in Clients /\ SameRequests /\ client'.state = client.state /\ client'.subs = client.subs
               /\ client'.timer = client.timer /\ client'.pings = client.pings /\ client'.reading = x
    BY <2>1, <2>2 DEF Clients, SameRequests
  <2>3. \/ client' = [client EXCEPT !.reading = "message"] /\ net.inbox # <<>> /\ net.inbox[1].type # "pong"
        \/ client' = [client EXCEPT !.reading = "error"] /\ ~net.up
    BY <1>2, InboxHead DEF ReadCompletes
  <2> QED  BY <2>1, <2>2, <2>3 DEF ReadEnds
<1> QED  BY <1>1, <1>2

\* what was read is dropped, is found wrong, or is processed
Drops ==
  /\ client.reading = "message" /\ Consumes /\ net.inbox[1].type = "garbage"
  /\ client' \in Clients /\ SameRequests /\ client'.state = client.state /\ client'.subs = client.subs
  /\ client'.timer = client.timer /\ client'.pings = client.pings /\ client'.reading = "off"
  /\ UNCHANGED <<started, listed, orphans, nextId, crash, held, world>>
Refuses ==
  /\ Alive /\ client.reading = "message" /\ Consumes /\ crash' \in Outcomes(client, net.inbox[1]) /\ crash' # ""
  /\ UNCHANGED <<client, started, listed, orphans, nextId, held, world>>
Handles(m) ==
  /\ Alive /\ client.reading = "message" /\ m = net.inbox[1] /\ m \in Messages /\ m.type # "garbage" /\ Consumes
  /\ client' \in Clients
  /\ (client.state = "RUNNING" => client'.reading = "asked") /\ (client.state # "RUNNING" => client'.reading = "error")
  /\ (m.type \in {"data", "error"} => client'.sent = client.sent /\ client'.subs = client.subs)
  /\ (m.type \notin {"data", "error"} => client'.sent = {r \in client.sent : r.id # m.id})
  /\ (m.type \notin {"data", "error"} /\ Ends(m) => client'.subs = client.subs \ {m.sub})
  /\ (~Ends(m) => client'.subs = client.subs)
  /\ client'.state = client.state /\ client'.pending = client.pending /\ client'.writing = client.writing
  /\ client'.timer = client.timer /\ client'.pings = client.pings
  /\ "" \in Outcomes(client, m)
  /\ UNCHANGED <<started, listed, orphans, nextId, crash, held, world>>

\* What the handler of a read does with a frame.
LEMMA MessageMoves ==
  ASSUME Types, Loops, ReadMessage
  PROVE  Drops \/ Refuses \/ \E m \in Messages : Handles(m)
<1>0. /\ Alive /\ client.reading = "message"
      /\ net' = [net EXCEPT !.inbox = Tail(@)] /\ UNCHANGED <<started, listed, orphans, nextId, held, world>>
  BY Zenon DEF ReadMessage
<1>1. /\ net.inbox # <<>> /\ Head(net.inbox) = net.inbox[1]
      /\ net.inbox[1] \in Messages /\ client \in Clients
  <2>1. net.inbox # <<>> /\ client \in Clients
    BY <1>0, Zenon DEF Loops, Types
  <2> QED  BY <2>1, InboxHead, Zenon
<1>2. Consumes
  BY <1>0, <1>1, Consumed, Zenon
<1>3. CASE net.inbox[1].type = "garbage"
  <2>1. client' = [client EXCEPT !.reading = "off"] /\ crash' = crash
    BY <1>1, <1>3, Zenon DEF ReadMessage
  <2>2. /\ client' \in Clients /\ SameRequests /\ client'.state = client.state /\ client'.subs = client.subs
        /\ client'.timer = client.timer /\ client'.pings = client.pings /\ client'.reading = "off"
    BY <1>1, <2>1 DEF Clients, SameRequests
  <2> QED  BY <1>0, <1>2, <1>3, <2>1, <2>2, Zenon DEF Drops
<1>4. CASE net.inbox[1].type # "garbage"
  <2>1. /\ crash' \in Outcomes(client, net.inbox[1])
        /\ client' = IF crash' = "" THEN AskForRead(Processed(client, net.inbox[1])) ELSE client
    BY <1>1, <1>4, Zenon DEF ReadMessage
  <2>2. CASE crash' # ""
    BY <1>0, <1>2, <2>1, <2>2, Zenon DEF Refuses
  <2>3. CASE crash' = ""
    <3>1. client' = AskForRead(Processed(client, net.inbox[1])) /\ crash' = crash
      BY <1>0, <2>1, <2>3, Zenon DEF Alive
    <3>2. PICK m \in Messages : m = net.inbox[1]
      BY <1>1
    <3>3. PICK c \in Clients : c = client
      BY <1>1
    <3>4. PICK d : d = AskForRead(Processed(c, m))
      OBVIOUS
    <3>5. /\ d \in Clients
          /\ (c.state = "RUNNING" => d.reading = "asked") /\ (c.state # "RUNNING" => d.reading = "error")
          /\ (m.type \in {"data", "error"} => d.sent = c.sent /\ d.subs = c.subs)
          /\ (m.type \notin {"data", "error"} => d.sent = {r \in c.sent : r.id # m.id})
          /\ (m.type \notin {"data", "error"} /\ Ends(m) => d.subs = c.subs \ {m.sub})
          /\ (~Ends(m) => d.subs = c.subs)
          /\ d.state = c.state /\ d.pending = c.pending /\ d.writing = c.writing
          /\ d.timer = c.timer /\ d.pings = c.pings
      BY <3>4, ProcessedMakes
    <3>6. client' = d
      BY <3>1, <3>2, <3>3, <3>4
    <3>7. "" \in Outcomes(client, m)
      BY <2>1, <2>3, <3>2, Zenon
    <3> QED  BY <1>0, <1>2, <1>4, <3>1, <3>2, <3>3, <3>5, <3>6, <3>7, Zenon DEF Handles
  <2> QED  BY <2>2, <2>3, Zenon
<1> QED  BY <1>3, <1>4, Zenon

\* the end of a client that was stopped, and a read that fails meanwhile
Finishes ==
  /\ client.state = "PENDING_STOPPED" /\ client' \in Clients /\ SameRequests /\ client'.state = "STOPPED"
  /\ client'.subs = {} /\ client'.reading = "off" /\ client'.timer = client.timer /\ client'.pings = client.pings
  /\ OnlyClient
FallsSilent ==
  /\ client.state # "RUNNING" /\ client' \in Clients /\ SameRequests /\ client'.state = client.state
  /\ client'.subs = client.subs /\ client'.reading = "off" /\ client'.timer = client.timer
  /\ client'.pings = client.pings /\ OnlyClient

\* What a read that failed, or was aborted, leads to.
LEMMA FailureMoves ==
  ASSUME Types, Loops
  PROVE  /\ ReadAborted => Finishes
         /\ ReadFailed => \/ Aborts /\ crash' \in {"rtm error", "subscription already exists"}
                             /\ (crash' = "rtm error" \/ (started /\ Repeats(listed)))
                             /\ client.state = "RUNNING" /\ client.reading = "error"
                          \/ Restarting /\ client.state = "RUNNING" /\ client.reading = "error"
                          \/ FallsSilent
<1>1. ASSUME ReadAborted PROVE Finishes
  <2>1. client.state = "PENDING_STOPPED" /\ client \in Clients
    BY <1>1 DEF ReadAborted, Loops, Types, Clients, ClientStates
  <2>2. client' = [client EXCEPT !.state = "STOPPED", !.reading = "off", !.subs = {}] /\ OnlyClient
    BY <1>1, <2>1 DEF ReadAborted, OnlyClient
  <2>3. /\ client' \in Clients /\ SameRequests /\ client'.state = "STOPPED"
        /\ client'.subs = {} /\ client'.reading = "off" /\ client'.timer = client.timer /\ client'.pings = client.pings
    BY <2>1, <2>2 DEF Clients, SameRequests, ClientStates
  <2> QED  BY <2>1, <2>2, <2>3 DEF Finishes
<1>2. ASSUME ReadFailed, client.state = "RUNNING"
      PROVE  \/ Aborts /\ crash' \in {"rtm error", "subscription already exists"}
                /\ (crash' = "rtm error" \/ (started /\ Repeats(listed)))
             \/ Restarting
  <2>1. Restart
    BY <1>2 DEF ReadFailed
  <2>2. CASE Abort("rtm error")
    BY <2>2 DEF Abort, Aborts
  <2>3. CASE started /\ Repeats(listed) /\ Abort("subscription already exists")
    BY <2>3 DEF Abort, Aborts
  <2>4. CASE ~Abort("rtm error") /\ ~(started /\ Repeats(listed) /\ Abort("subscription already exists"))
    <3>1. started
      BY <1>2 DEF Loops
    <3>2. ~Repeats(listed)
      BY <2>1, <2>4, <3>1 DEF Restart
    <3>3. /\ client' = Restored(listed, nextId) /\ nextId' = nextId + Len(listed) /\ net' = NewConnection
          /\ held' = Recalled(listed)
          /\ orphans' = orphans + Orphaned(client) /\ UNCHANGED <<started, listed, crash, world>>
      BY <2>1, <2>4, <3>1, <3>2 DEF Restart
    <3>4. Orphaned(client) \in Nat
      BY DEF Orphaned
    <3>5. orphans \in Nat
      BY DEF Types
    <3>6. \A k \in Nat : orphans + k \in Nat
      BY <3>5
    <3>7. orphans' \in Nat
      BY <3>3, <3>4, <3>6
    <3>8. listed \in Seq(Subs) /\ nextId \in Nat /\ Len(listed) \in Nat
      BY LenProperties DEF Types
    <3>9. RestoredAs(listed, nextId, Len(listed), Restored(listed, nextId))
      BY <3>8, RestoredMakes
    <3> QED  BY <3>1, <3>2, <3>3, <3>7, <3>9 DEF Restarting
  <2> QED  BY <2>2, <2>3, <2>4
<1>3. ASSUME ReadFailed, client.state # "RUNNING" PROVE FallsSilent
  <2>1. client' = [client EXCEPT !.reading = "off"] /\ OnlyClient /\ client \in Clients
    BY <1>3 DEF ReadFailed, OnlyClient, Types
  <2> QED  BY <1>3, <2>1 DEF FallsSilent, SameRequests, Clients
<1> QED  BY <1>1, <1>2, <1>3 DEF ReadFailed

\* a message is on its way to the client
Sends(n, m) ==
  /\ m \in Messages /\ n' \in Nets /\ n'.inbox = Append(n.inbox, m) /\ n'.up = n.up /\ n'.early = n.early

\* the connection by what a written request does to it
Takes(r) ==
  /\ net' \in Nets /\ net'.inbox = net.inbox /\ net'.streaming = net.streaming /\ net'.up = net.up
  /\ net'.requests \subseteq net.requests \cup {r}
  /\ ~net.early => net'.requests = net.requests \cup {r} /\ ~net'.early
Echoes(r) ==
  \E m \in Messages :
    /\ Sends(net, m) /\ m.type = "pong" /\ m.id = r.id
    /\ net'.requests = net.requests /\ net'.streaming = net.streaming

\* A request that was written is at the server, which answers a ping by itself.
LEMMA DeliveredMakes ==
  ASSUME net \in Nets, NEW r \in Requests, net' = Delivered(net, r)
  PROVE  (r.type # "ping" => Takes(r)) /\ (r.type = "ping" => Echoes(r))
<1>1. ASSUME r.type = "ping" PROVE Echoes(r)
  <2>1. PICK m : m = Message("pong", r.id, NoSub, TRUE)
    OBVIOUS
  <2>2. m \in Messages /\ m.type = "pong" /\ m.id = r.id
    BY <2>1 DEF Message, Messages, Requests
  <2>3. net' = [net EXCEPT !.inbox = Append(@, m)]
    BY <1>1, <2>1 DEF Delivered, FromServer
  <2>4. Append(net.inbox, m) \in Seq(Messages)
    BY <2>2, AppendProperties DEF Nets
  <2>5. /\ net' \in Nets /\ net'.inbox = Append(net.inbox, m) /\ net'.up = net.up /\ net'.early = net.early
        /\ net'.requests = net.requests /\ net'.streaming = net.streaming
    BY <2>3, <2>4 DEF Nets
  <2> QED  BY <2>2, <2>5 DEF Sends, Echoes
<1>2. ASSUME r.type # "ping" PROVE Takes(r)
  <2>1. CASE net.early
    <3>1. net' = [net EXCEPT !.early = FALSE]
      BY <1>2, <2>1 DEF Delivered
    <3> QED  BY <2>1, <3>1 DEF Takes, Nets
  <2>2. CASE ~net.early
    <3>1. net' = [net EXCEPT !.requests = @ \cup {r}]
      BY <1>2, <2>2 DEF Delivered, ToServer
    <3> QED  BY <2>2, <3>1 DEF Takes, Nets
  <2> QED  BY <2>1, <2>2
<1> QED  BY <1>1, <1>2

\* the steps of the server and of the network
Hastens ==
  /\ "early answers" \in world.faults /\ client.writing # "no"
  /\ net' \in Nets /\ net'.inbox = net.inbox /\ net'.up = net.up
  /\ \E r \in Requests : r = client.pending[1] /\ net'.requests = net.requests \cup {r}
  /\ OnlyNet /\ UNCHANGED world
Answers(r, m) ==
  /\ net.up /\ r \in net.requests /\ Sends(net, m) /\ m.type = r.type /\ m.id = r.id /\ m.sub = r.sub
  /\ \A q \in net.requests : q.sub = r.sub /\ r.sub # NoSub => q.id >= r.id
  /\ net'.requests = net.requests \ {r}
  /\ r.type = "unsubscribe" => net'.streaming = net.streaming \ {r.sub}
  /\ r.type = "subscribe" => net'.streaming \subseteq net.streaming \cup {r.sub}
  /\ r.type \notin {"subscribe", "unsubscribe"} => net'.streaming = net.streaming
  /\ r.type = "subscribe" /\ Faultless => m.ok
  /\ OnlyNet /\ UNCHANGED world
Streams(s, m) ==
  /\ s \in net.streaming /\ Sends(net, m) /\ m.type \in {"data", "error"} /\ m.sub = s
  /\ Faultless => m.type = "data"
  /\ net'.requests = net.requests /\ net'.streaming = net.streaming
  /\ OnlyNet /\ UNCHANGED world
Babbles(m) ==
  /\ "garbage" \in world.faults /\ Sends(net, m) /\ net'.requests = net.requests /\ net'.streaming = net.streaming
  /\ OnlyNet /\ UNCHANGED world
Loses ==
  /\ net.up /\ net' \in Nets /\ ~net'.up /\ net'.inbox = net.inbox /\ net'.requests = net.requests
  /\ net'.streaming = net.streaming /\ net'.early = net.early
  /\ world.breaks > 0 /\ world' = [world EXCEPT !.breaks = @ - 1] /\ OnlyNet

\* A message is appended to what is on its way.
LEMMA FromServerMakes ==
  ASSUME net \in Nets, NEW m \in Messages,
         NEW requests \in SUBSET Requests, NEW streaming \in SUBSET (Subs \cup {NoSub}),
         net' = [FromServer(net, m) EXCEPT !.requests = requests, !.streaming = streaming]
  PROVE  Sends(net, m) /\ net'.requests = requests /\ net'.streaming = streaming
<1>1. Append(net.inbox, m) \in Seq(Messages)
  BY AppendProperties DEF Nets
<1>2. PICK n : n = FromServer(net, m)
  OBVIOUS
<1>3. n \in Nets /\ n.inbox = Append(net.inbox, m) /\ n.up = net.up /\ n.early = net.early
  BY <1>1, <1>2 DEF FromServer, Nets
<1>4. net' = [n EXCEPT !.requests = requests, !.streaming = streaming]
  BY <1>2
<1> QED  BY <1>3, <1>4 DEF Sends, Nets

\* What the server and the network do.
LEMMA NetMoves ==
  ASSUME Types, Loops
  PROVE  /\ ArrivesEarly => Hastens
         /\ \A r \in net.requests : Answer(r) => \E m \in Messages : Answers(r, m)
         /\ \A s \in Subs : Stream(s) => \E m \in Messages : Streams(s, m)
         /\ Garbage => \E m \in Messages : Babbles(m)
         /\ Breaks => Loses
         /\ OrphanRuns => Aborts /\ crash' = "destroyed client used"
<1>1. net \in Nets /\ client \in Clients
  BY DEF Types
<1>2. ASSUME ArrivesEarly PROVE Hastens
  <2>1. /\ "early answers" \in world.faults /\ client.writing # "no" /\ OnlyNet /\ UNCHANGED world
        /\ net' = [ToServer(net, Head(client.pending)) EXCEPT !.early = TRUE]
    BY <1>2 DEF ArrivesEarly
  <2>2. PICK q \in Seq(Requests) : q = client.pending
    BY <1>1 DEF Clients
  <2>3. PICK n \in Nat : n = Len(q)
    BY LenProperties
  <2>4. q # <<>>
    BY <2>1, <2>2 DEF Loops
  <2>5. Head(q) \in Requests /\ Head(q) = q[1]
    BY <2>3, <2>4, Popped
  <2>6. PICK r \in Requests : r = Head(q)
    BY <2>5
  <2>7. net' = [net EXCEPT !.requests = @ \cup {r}, !.early = TRUE]
    BY <2>1, <2>2, <2>6 DEF ToServer
  <2>8. net' \in Nets /\ net'.inbox = net.inbox /\ net'.up = net.up /\ net'.requests = net.requests \cup {r}
    BY <1>1, <2>7 DEF Nets
  <2> QED  BY <2>1, <2>2, <2>5, <2>6, <2>8 DEF Hastens
<1>3. ASSUME NEW r \in net.requests, Answer(r) PROVE \E m \in Messages : Answers(r, m)
  <2>1. PICK ok \in IF r.type = "unsubscribe" THEN {r.sub \in net.streaming}
                    ELSE IF "refusals" \in world.faults THEN BOOLEAN ELSE {TRUE} :
          net' = [FromServer(net, Message(r.type, r.id, r.sub, ok))
                    EXCEPT !.requests = @ \ {r},
                           !.streaming = IF r.type = "subscribe" /\ ok THEN @ \cup {r.sub}
                                         ELSE IF r.type = "unsubscribe" THEN @ \ {r.sub} ELSE @]
    BY <1>3 DEF Answer
  <2>2. r \in Requests
    BY <1>1 DEF Nets
  <2>3. (ok = TRUE \/ ok = FALSE) /\ (r.type = "subscribe" /\ Faultless => ok = TRUE)
    <3>1. CASE r.type = "unsubscribe"
      <4>1. ok \in {r.sub \in net.streaming}
        BY <3>1
      <4> QED  BY <3>1, <4>1
    <3>2. CASE r.type # "unsubscribe" /\ "refusals" \in world.faults
      <4>1. ok \in BOOLEAN
        BY <3>2
      <4> QED  BY <3>2, <4>1 DEF Faultless
    <3>3. CASE r.type # "unsubscribe" /\ "refusals" \notin world.faults
      <4>1. ok \in {TRUE}
        BY <3>3
      <4> QED  BY <4>1
    <3> QED  BY <3>1, <3>2, <3>3
  <2>4. PICK m : m = Message(r.type, r.id, r.sub, ok)
    OBVIOUS
  <2>5. m \in Messages /\ m.type = r.type /\ m.id = r.id /\ m.sub = r.sub /\ (ok = TRUE => m.ok)
    <3>1. CASE ok = TRUE
      <4>1. m = Message(r.type, r.id, r.sub, TRUE)
        BY <2>4, <3>1, Zenon
      <4> QED  BY <2>2, <4>1 DEF Message, Messages, Requests
    <3>2. CASE ok = FALSE
      <4>1. m = Message(r.type, r.id, r.sub, FALSE)
        BY <2>4, <3>2, Zenon
      <4> QED  BY <2>2, <3>2, <4>1 DEF Message, Messages, Requests
    <3> QED  BY <2>3, <3>1, <3>2
  <2>6. PICK requests \in SUBSET Requests : requests = net.requests \ {r}
    BY <1>1 DEF Nets
  <2>7. PICK streaming \in SUBSET (Subs \cup {NoSub}) :
          streaming = IF r.type = "subscribe" /\ ok THEN net.streaming \cup {r.sub}
                      ELSE IF r.type = "unsubscribe" THEN net.streaming \ {r.sub} ELSE net.streaming
    <3>1. /\ net.streaming \in SUBSET (Subs \cup {NoSub}) /\ net.streaming \cup {r.sub} \in SUBSET (Subs \cup {NoSub})
          /\ net.streaming \ {r.sub} \in SUBSET (Subs \cup {NoSub})
      BY <1>1, <2>2 DEF Nets, Requests
    <3> QED  BY <3>1
  <2>8. PICK n : n = FromServer(net, m)
    OBVIOUS
  <2>9. n.requests = net.requests /\ n.streaming = net.streaming
    BY <1>1, <2>8 DEF FromServer, Nets
  <2>10. net' = [n EXCEPT !.requests = requests, !.streaming = streaming]
    BY <2>1, <2>4, <2>6, <2>7, <2>8, <2>9
  <2>11. Sends(net, m) /\ net'.requests = requests /\ net'.streaming = streaming
    <3>1. net' = [FromServer(net, m) EXCEPT !.requests = requests, !.streaming = streaming]
      BY <2>8, <2>10
    <3>2. requests \in SUBSET Requests /\ streaming \in SUBSET (Subs \cup {NoSub}) /\ m \in Messages
      BY <2>5, <2>6, <2>7
    <3> HIDE <2>6, <2>7, <2>8, <2>10
    <3> QED  BY <1>1, <3>1, <3>2, FromServerMakes
  <2>12. /\ (r.type = "unsubscribe" => streaming = net.streaming \ {r.sub})
         /\ (r.type = "subscribe" => streaming \subseteq net.streaming \cup {r.sub})
         /\ (r.type \notin {"subscribe", "unsubscribe"} => streaming = net.streaming)
    BY <2>7
  <2>13. net.up /\ OnlyNet /\ UNCHANGED world /\ \A q \in net.requests : q.sub = r.sub /\ r.sub # NoSub => q.id >= r.id
    BY <1>3 DEF Answer
  <2>14. Answers(r, m)
    BY <2>3, <2>5, <2>6, <2>11, <2>12, <2>13 DEF Answers
  <2> QED  BY <2>5, <2>14
<1>4. ASSUME NEW m \in Messages, net' = FromServer(net, m)
      PROVE  Sends(net, m) /\ net'.requests = net.requests /\ net'.streaming = net.streaming
  <2>1. Append(net.inbox, m) \in Seq(Messages)
    BY <1>1, AppendProperties DEF Nets
  <2> QED  BY <1>1, <1>4, <2>1 DEF FromServer, Sends, Nets
<1>5. ASSUME NEW s \in Subs, Stream(s) PROVE \E m \in Messages : Streams(s, m)
  <2>1. PICK type \in {"data"} \cup (IF "refusals" \in world.faults THEN {"error"} ELSE {}) :
          net' = FromServer(net, Message(type, 0, s, TRUE))
    BY <1>5 DEF Stream
  <2>2. PICK m : m = Message(type, 0, s, TRUE)
    OBVIOUS
  <2>3. m \in Messages /\ m.type = type /\ m.sub = s
    BY <2>2 DEF Message, Messages
  <2>4. type \in {"data", "error"} /\ (Faultless => type = "data")
    BY DEF Faultless
  <2>5. Sends(net, m) /\ net'.requests = net.requests /\ net'.streaming = net.streaming
    BY <1>4, <2>1, <2>2, <2>3
  <2>6. s \in net.streaming /\ OnlyNet /\ UNCHANGED world
    BY <1>5 DEF Stream
  <2> QED  BY <2>3, <2>4, <2>5, <2>6 DEF Streams
<1>6. ASSUME Garbage PROVE \E m \in Messages : Babbles(m)
  <2>1. PICK m : m = Message("garbage", 0, NoSub, FALSE)
    OBVIOUS
  <2>2. m \in Messages
    BY <2>1 DEF Message, Messages
  <2>3. "garbage" \in world.faults /\ net' = FromServer(net, m) /\ OnlyNet /\ UNCHANGED world
    BY <1>6, <2>1 DEF Garbage
  <2>4. Sends(net, m) /\ net'.requests = net.requests /\ net'.streaming = net.streaming
    BY <1>4, <2>2, <2>3
  <2> QED  BY <2>2, <2>3, <2>4 DEF Babbles
<1>7. Breaks => Loses
  BY <1>1 DEF Breaks, Loses, Nets
<1>8. OrphanRuns => Aborts /\ crash' = "destroyed client used"
  BY DEF OrphanRuns, Abort, Aborts
<1> QED  BY <1>2, <1>3, <1>5, <1>6, <1>7, <1>8

-----------------------------------------------------------------------------
(* What is to be written and what is on its way, before and after a step.  *)

\* The requests to be written, with one more.
LEMMA PendingGrows ==
  ASSUME Types, NEW r \in Requests, client'.pending = Append(client.pending, r)
  PROVE  \E n \in Nat :
           /\ n = Len(client.pending) /\ Len(client'.pending) = n + 1 /\ client'.pending[n + 1] = r
           /\ \A k \in 1..n : client'.pending[k] = client.pending[k]
           /\ client'.pending # <<>>
<1>1. PICK q \in Seq(Requests) : q = client.pending
  BY DEF Types, Clients
<1>2. PICK n \in Nat : n = Len(q)
  BY LenProperties
<1>3. /\ Len(Append(q, r)) = n + 1 /\ Append(q, r)[n + 1] = r
      /\ \A k \in 1..n : Append(q, r)[k] = q[k]
      /\ Append(q, r) # <<>>
  BY <1>2, Appended
<1> QED  BY <1>1, <1>2, <1>3

\* The requests to be written, without the first.
LEMMA PendingShrinks ==
  ASSUME Types, client.pending # <<>>, client'.pending = Tail(client.pending)
  PROVE  \E n \in Nat :
           /\ n = Len(client.pending) /\ n > 0 /\ Len(client'.pending) = n - 1
           /\ \A k \in 1..n - 1 : client'.pending[k] = client.pending[k + 1] /\ k + 1 \in 1..n
           /\ (client'.pending = <<>> <=> n = 1) /\ client.pending[1] \in Requests
<1>1. PICK q \in Seq(Requests) : q = client.pending
  BY DEF Types, Clients
<1>2. PICK n \in Nat : n = Len(q)
  BY LenProperties
<1>3. q # <<>>
  BY <1>1
<1>4. /\ n > 0 /\ Head(q) \in Requests /\ Head(q) = q[1] /\ Len(Tail(q)) = n - 1
      /\ \A k \in 1..n - 1 : Tail(q)[k] = q[k + 1]
      /\ (Tail(q) = <<>> <=> n = 1)
  BY <1>2, <1>3, Popped
<1>5. \A k \in 1..n - 1 : k + 1 \in 1..n
  OBVIOUS
<1> QED  BY <1>1, <1>2, <1>4, <1>5

\* Every request to be written is one, and there are so and so many of them.
LEMMA PendingTypes ==
  ASSUME Types
  PROVE  /\ Len(client.pending) \in Nat /\ (client.pending = <<>> <=> Len(client.pending) = 0)
         /\ \A i \in 1..Len(client.pending) : client.pending[i] \in Requests /\ client.pending[i].id \in Nat
<1>1. PICK q \in Seq(Requests) : q = client.pending
  BY DEF Types, Clients
<1>2. Len(q) \in Nat /\ (q = <<>> <=> Len(q) = 0) /\ \A i \in 1..Len(q) : q[i] \in Requests
  BY LenProperties, EmptySeq, ElementOfSeq
<1>3. \A r \in Requests : r.id \in Nat
  BY DEF Requests
<1> QED  BY <1>1, <1>2, <1>3

\* The frames on their way, with one more.
LEMMA InboxGrows ==
  ASSUME Types, NEW m \in Messages, Sends(net, m)
  PROVE  \E n \in Nat :
           /\ n = Len(net.inbox) /\ Len(net'.inbox) = n + 1 /\ net'.inbox[n + 1] = m
           /\ \A k \in 1..n : net'.inbox[k] = net.inbox[k]
           /\ net'.inbox # <<>>
<1>1. PICK q \in Seq(Messages) : q = net.inbox
  BY DEF Types, Nets
<1>2. PICK n \in Nat : n = Len(q)
  BY LenProperties
<1>3. /\ Len(Append(q, m)) = n + 1 /\ Append(q, m)[n + 1] = m
      /\ \A k \in 1..n : Append(q, m)[k] = q[k]
      /\ Append(q, m) # <<>>
  BY <1>2, Appended
<1> QED  BY <1>1, <1>2, <1>3 DEF Sends

\* The frames on their way, without the first.
LEMMA InboxShrinks ==
  ASSUME Types, Consumes
  PROVE  \E n \in Nat :
           /\ n = Len(net.inbox) /\ n > 0 /\ Len(net'.inbox) = n - 1
           /\ \A k \in 1..n - 1 : net'.inbox[k] = net.inbox[k + 1] /\ k + 1 \in 1..n
BY InboxHead DEF Consumes

\* Every frame on its way is a message, and there are so and so many of them.
LEMMA InboxTypes ==
  ASSUME Types
  PROVE  /\ Len(net.inbox) \in Nat /\ (net.inbox = <<>> <=> Len(net.inbox) = 0)
         /\ \A i \in 1..Len(net.inbox) : net.inbox[i] \in Messages /\ net.inbox[i].id \in Nat
<1>1. PICK q \in Seq(Messages) : q = net.inbox
  BY DEF Types, Nets
<1>2. Len(q) \in Nat /\ (q = <<>> <=> Len(q) = 0) /\ \A i \in 1..Len(q) : q[i] \in Messages
  BY LenProperties, EmptySeq, ElementOfSeq
<1>3. \A m \in Messages : m.id \in Nat
  BY DEF Messages
<1> QED  BY <1>1, <1>2, <1>3

\* What unsubscribe leaves in resilient_client's list is as long as before.
LEMMA RemoveIfMakes ==
  ASSUME NEW list \in Seq(Subs), NEW s \in Subs
  PROVE  RemoveIf(list, s) \in Seq(Subs)
<1>1. PICK n \in Nat : n = Len(list)
  BY LenProperties
<1>2. DOMAIN list = 1..n /\ \A i \in 1..n : list[i] \in Subs
  BY <1>1, LenProperties, ElementOfSeq
<1> DEFINE kept == {i \in DOMAIN list : list[i] # s}
           To(k) == {i \in kept : Cardinality({j \in kept : j <= i}) = k}
           moved == [k \in 1..n |-> list[IF To(k) = {} THEN k ELSE CHOOSE i \in To(k) : TRUE]]
<1>3. RemoveIf(list, s) = moved
  BY <1>2 DEF RemoveIf
<1>4. ASSUME NEW k \in 1..n PROVE (IF To(k) = {} THEN k ELSE CHOOSE i \in To(k) : TRUE) \in 1..n
  <2>1. To(k) \subseteq 1..n
    BY <1>2
  <2> HIDE DEF To
  <2> QED  BY <2>1
<1> HIDE DEF To
<1>5. \A k \in 1..n : moved[k] \in Subs
  BY <1>2, <1>4
<1> QED  BY <1>3, <1>5

\* every entry but those of s is still there, and none is new
KeepsBut(s, list, moved) ==
  /\ Len(moved) = Len(list)
  /\ \A k \in 1..Len(list) : \E i \in 1..Len(list) : moved[k] = list[i]
  /\ \A i \in 1..Len(list) : list[i] # s => \E k \in 1..Len(list) : moved[k] = list[i]

\* remove_if keeps every entry but those it removes, and invents none.
LEMMA RemoveIfKeeps ==
  ASSUME NEW list \in Seq(Subs), NEW s \in Subs
  PROVE  KeepsBut(s, list, RemoveIf(list, s))
<1>0. PICK n \in Nat : n = Len(list) /\ DOMAIN list = 1..n
  BY LenProperties
<1>1. PICK moved : moved = RemoveIf(list, s)
  OBVIOUS
<1> DEFINE kept == {i \in 1..n : list[i] # s}
           Up(i) == {j \in kept : j <= i}
           To(k) == {i \in kept : Cardinality(Up(i)) = k}
<1>2. moved = [k \in 1..n |-> list[IF To(k) = {} THEN k ELSE CHOOSE i \in To(k) : TRUE]]
  BY <1>0, <1>1 DEF RemoveIf
<1>3. Len(moved) = n
  BY <1>2
<1>4. \A k \in 1..n : To(k) \subseteq 1..n
  OBVIOUS
<1>5. ASSUME NEW k \in 1..n PROVE \E i \in 1..n : moved[k] = list[i]
  <2> HIDE DEF To
  <2>1. (IF To(k) = {} THEN k ELSE CHOOSE i \in To(k) : TRUE) \in 1..n
    BY <1>4
  <2> QED  BY <1>2, <2>1
<1>6. ASSUME NEW i \in kept PROVE IsFiniteSet(Up(i)) /\ Cardinality(Up(i)) \in 1..n
  <2>1. IsFiniteSet(1..n) /\ Cardinality(1..n) = n
    <3>1. 1 \in Int /\ n \in Int
      OBVIOUS
    <3>2. IsFiniteSet(1..n) /\ Cardinality(1..n) = IF 1 > n THEN 0 ELSE n - 1 + 1
      BY <3>1, FS_Interval
    <3> QED  BY <3>2
  <2>2. Up(i) \in SUBSET (1..n) /\ i \in Up(i)
    OBVIOUS
  <2>3. IsFiniteSet(Up(i)) /\ Cardinality(Up(i)) <= n
    BY <2>1, <2>2, FS_Subset
  <2>4. Cardinality(Up(i)) \in Nat /\ Cardinality(Up(i)) # 0
    BY <2>2, <2>3, FS_CardinalityType, FS_EmptySet
  <2> QED  BY <2>3, <2>4
<1>7. ASSUME NEW i \in kept, NEW j \in kept, Cardinality(Up(i)) = Cardinality(Up(j)) PROVE i = j
  <2>1. i \in 1..n /\ j \in 1..n /\ i \in Up(i) /\ j \in Up(j)
    OBVIOUS
  <2>2. CASE i <= j
    <3>1. Up(i) \in SUBSET Up(j)
      BY <2>1, <2>2
    <3>2. Up(i) = Up(j)
      BY <1>6, <1>7, <3>1, FS_Subset
    <3> QED  BY <2>1, <2>2, <3>2
  <2>3. CASE j <= i
    <3>1. Up(j) \in SUBSET Up(i)
      BY <2>1, <2>3
    <3>2. Up(i) = Up(j)
      BY <1>6, <1>7, <3>1, FS_Subset
    <3> QED  BY <2>1, <2>3, <3>2
  <2> QED  BY <2>1, <2>2, <2>3
<1>8. ASSUME NEW i \in 1..n, list[i] # s PROVE \E k \in 1..n : moved[k] = list[i]
  <2>1. i \in kept
    BY <1>8
  <2>2. PICK k \in 1..n : k = Cardinality(Up(i))
    BY <1>6, <2>1
  <2>3. To(k) = {i}
    <3>1. i \in To(k)
      BY <2>1, <2>2
    <3>2. ASSUME NEW x \in To(k) PROVE x = i
      <4>1. x \in kept /\ Cardinality(Up(x)) = k
        OBVIOUS
      <4> HIDE DEF kept, Up, To
      <4> QED  BY <1>7, <2>1, <2>2, <4>1
    <3> HIDE DEF To
    <3> QED  BY <3>1, <3>2
  <2>4. moved[k] = list[i]
    BY <1>2, <2>3
  <2> QED  BY <2>4
<1> QED  BY <1>0, <1>1, <1>3, <1>5, <1>8 DEF KeepsBut

-----------------------------------------------------------------------------
(* The kinds of steps.                                                     *)

Issues ==
  \/ Silences \/ (\E r \in Requests : Pushes(r))
ServerMoves ==
  \/ \E r \in Requests, m \in Messages : Answers(r, m)
  \/ \E s \in Subs, m \in Messages : Streams(s, m)
  \/ \E m \in Messages : Babbles(m)
  \/ Hastens \/ Loses
ReadMoves ==
  \/ Ponged \/ ReadEnds \/ Drops \/ Refuses \/ (\E m \in Messages : Handles(m))
  \/ Finishes \/ FallsSilent \/ (Restarting /\ client.state = "RUNNING")
Moves ==
  \/ Aborts \/ Issues \/ Stopping \/ Pinging \/ Ticks
  \/ \E r \in Requests, ok \in BOOLEAN : Written(r, ok)
  \/ ReadMoves \/ ServerMoves \/ UNCHANGED vars

\* what the caller and resilient_client keep
Kept == UNCHANGED <<listed, held>>
Held ==
  \/ Kept
  \/ \E s \in Subs : held' = [held EXCEPT ![s] = "held"] /\ listed' = Append(listed, s)
  \/ \E s \in Subs : held' = [held EXCEPT ![s] = "dropped"] /\ listed' = RemoveIf(listed, s)
  \/ held' = Recalled(listed) /\ UNCHANGED listed

\* Every step is of one of these kinds.
LEMMA NextMoves ==
  ASSUME Types, Loops, [Next]_vars
  PROVE  Moves /\ Held
<1>1. ASSUME Publish PROVE Moves /\ Held
  <2>1. Silences \/ Pushes(Request("publish", nextId, NoSub))
    BY <1>1, CallMoves
  <2>2. Kept
    BY <1>1, CallMoves DEF Kept
  <2> QED  BY <2>1, <2>2 DEF Moves, Issues, Pushes, Held
<1>2. ASSUME NEW s \in Subs, Subscribe(s) PROVE Moves /\ Held
  <2>1. Silences \/ Pushes(Request("subscribe", nextId, s))
    BY <1>2, CallMoves
  <2>2. held' = [held EXCEPT ![s] = "held"] /\ listed' = Append(listed, s)
    BY <1>2, CallMoves
  <2> QED  BY <2>1, <2>2 DEF Moves, Issues, Pushes, Held
<1>3. ASSUME NEW s \in Subs, Unsubscribe(s) PROVE Moves /\ Held
  <2>1. Aborts \/ Silences \/ Pushes(Request("unsubscribe", nextId, s))
    BY <1>3, CallMoves
  <2>2. Aborts \/ (held' = [held EXCEPT ![s] = "dropped"] /\ listed' = RemoveIf(listed, s))
    BY <1>3, CallMoves
  <2> QED  BY <2>1, <2>2 DEF Moves, Issues, Pushes, Held, Kept, Aborts
<1>4. Stop => Moves /\ Kept
  BY StopMoves DEF Moves, Stopping, Kept
<1>5. PingTimer => Moves /\ Kept
  BY TimerMoves DEF Moves, Pinging, Kept
<1>6. TimerExpires => Moves /\ Kept
  BY TimerMoves DEF Moves, Ticks, OnlyClient, Kept
<1>7. ASSUME NEW ok \in BOOLEAN, RequestDone(ok) PROVE Moves /\ Kept
  <2>1. Aborts \/ \E r \in Requests : Written(r, ok)
    BY <1>7, WriteMoves
  <2> QED  BY <2>1, Zenon DEF Moves, Written, Aborts, Kept
<1>8. Pong => Moves /\ Kept
  <2>1. Pong => Ponged \/ Aborts
    BY AskedMoves
  <2> QED  BY <2>1, Zenon DEF Moves, ReadMoves, Ponged, Aborts, Kept
<1>9. ReadCompletes => Moves /\ Kept
  BY AskedMoves, Zenon DEF Moves, ReadMoves, ReadEnds, OnlyClient, Kept
<1>10. ASSUME ReadMessage PROVE Moves /\ Kept
  <2>1. Drops \/ Refuses \/ \E m \in Messages : Handles(m)
    BY <1>10, MessageMoves, Zenon
  <2> QED  BY <2>1, Zenon DEF Moves, ReadMoves, Drops, Refuses, Handles, Kept
<1>11. ReadAborted => Moves /\ Kept
  BY FailureMoves, Zenon DEF Moves, ReadMoves, Finishes, OnlyClient, Kept
<1>12. ReadFailed => Moves /\ Held
  <2>1. ReadFailed => Aborts \/ (Restarting /\ client.state = "RUNNING") \/ FallsSilent
    BY FailureMoves
  <2> QED  BY <2>1, Zenon DEF Moves, ReadMoves, Aborts, Restarting, FallsSilent, OnlyClient, Kept, Held
<1>13. OrphanRuns => Moves /\ Kept
  BY NetMoves, Zenon DEF Moves, Aborts, Kept
<1>14. ASSUME NEW r \in net.requests, Answer(r) PROVE Moves /\ Kept
  <2>1. r \in Requests
    BY DEF Types, Nets
  <2>2. \E m \in Messages : Answers(r, m)
    BY <1>14, NetMoves
  <2> QED  BY <2>1, <2>2, Zenon DEF Moves, ServerMoves, Answers, OnlyNet, Kept
<1>15. ASSUME NEW s \in Subs, Stream(s) PROVE Moves /\ Kept
  <2>1. \E m \in Messages : Streams(s, m)
    BY <1>15, NetMoves
  <2> QED  BY <2>1, Zenon DEF Moves, ServerMoves, Streams, OnlyNet, Kept
<1>16. Garbage => Moves /\ Kept
  BY NetMoves, Zenon DEF Moves, ServerMoves, Babbles, OnlyNet, Kept
<1>17. ArrivesEarly => Moves /\ Kept
  BY NetMoves, Zenon DEF Moves, ServerMoves, Hastens, OnlyNet, Kept
<1>18. Breaks => Moves /\ Kept
  BY NetMoves, Zenon DEF Moves, ServerMoves, Loses, OnlyNet, Kept
<1>19. UNCHANGED vars => Moves /\ Kept
  BY DEF Moves, vars, Kept
<1>20. Kept => Held
  BY DEF Held
<1>21. Write => Moves /\ Held
  BY <1>7, <1>20, Zenon DEF Write
<1>22. Read => Moves /\ Held
  BY <1>8, <1>9, <1>10, <1>11, <1>12, <1>20, Zenon DEF Read
<1>23. Server => Moves /\ Held
  BY <1>14, <1>20, Zenon DEF Server
<1> QED
  BY <1>1, <1>2, <1>3, <1>4, <1>5, <1>6, <1>13, <1>15, <1>16, <1>17, <1>18, <1>19, <1>20, <1>21, <1>22, <1>23, Zenon DEF Next

-----------------------------------------------------------------------------
(* What every world keeps up.                                              *)

\* The handler of a write hands the request to the connection, or leaves it alone.
LEMMA WrittenNet ==
  ASSUME Types, NEW r \in Requests, NEW ok \in BOOLEAN, Written(r, ok)
  PROVE  /\ net' = net \/ (net.up /\ r.type # "ping" /\ Takes(r)) \/ (net.up /\ r.type = "ping" /\ Echoes(r))
         /\ (ok /\ net.up => net' # net \/ Takes(r) \/ Echoes(r)) /\ (~ok => net' = net)
         /\ (ok /\ net.up /\ r.type # "ping" => Takes(r))
<1>1. net \in Nets
  BY DEF Types
<1>2. CASE ok /\ net.up
  <2>1. net' = Delivered(net, r)
    BY <1>2 DEF Written
  <2>2. (r.type # "ping" => Takes(r)) /\ (r.type = "ping" => Echoes(r))
    BY <1>1, <2>1, DeliveredMakes
  <2> QED  BY <1>2, <2>2
<1>3. CASE ~(ok /\ net.up)
  <2>1. net' = net
    BY <1>3 DEF Written
  <2> QED  BY <1>3, <2>1
<1> QED  BY <1>2, <1>3

\* what of the types is not the caller's
Rest ==
  /\ client \in Clients /\ net \in Nets /\ started \in BOOLEAN /\ orphans \in Nat
  /\ nextId \in Nat \ {0} /\ world \in AllWorlds

\* The types are kept.
LEMMA TypesKept ==
  ASSUME Types, Loops, [Next]_vars
  PROVE  Types'
<1>0. /\ client \in Clients /\ net \in Nets /\ started \in BOOLEAN /\ orphans \in Nat /\ listed \in Seq(Subs)
      /\ nextId \in Nat \ {0} /\ held \in [Subs -> {"new", "held", "dropped", "recalled"}]
      /\ world \in AllWorlds
  BY DEF Types
<1>1. Moves /\ Held
  BY NextMoves
<1>2. held' \in [Subs -> {"new", "held", "dropped", "recalled"}] /\ listed' \in Seq(Subs)
  <2>1. CASE Kept
    BY <1>0, <2>1 DEF Kept
  <2>2. ASSUME NEW s \in Subs, held' = [held EXCEPT ![s] = "held"] /\ listed' = Append(listed, s)
        PROVE  held' \in [Subs -> {"new", "held", "dropped", "recalled"}] /\ listed' \in Seq(Subs)
    BY <1>0, <2>2, AppendProperties
  <2>3. ASSUME NEW s \in Subs, held' = [held EXCEPT ![s] = "dropped"] /\ listed' = RemoveIf(listed, s)
        PROVE  held' \in [Subs -> {"new", "held", "dropped", "recalled"}] /\ listed' \in Seq(Subs)
    BY <1>0, <2>3, RemoveIfMakes
  <2>4. CASE held' = Recalled(listed) /\ UNCHANGED listed
    BY <1>0, <2>4 DEF Recalled
  <2> QED  BY <1>1, <2>1, <2>2, <2>3, <2>4 DEF Held
<1>3. ASSUME Aborts PROVE Rest'
  BY <1>0, <1>3 DEF Aborts, Rest
<1>4. ASSUME Issues PROVE Rest'
  <2>1. Silences => Rest'
    BY <1>0 DEF Silences, Rest
  <2>2. ASSUME NEW r \in Requests, Pushes(r) PROVE Rest'
    BY <1>0, <2>2 DEF Pushes, Rest
  <2> QED  BY <1>4, <2>1, <2>2 DEF Issues
<1>5. ASSUME Stopping PROVE Rest'
  BY <1>0, <1>5 DEF Stopping, Rest
<1>6. ASSUME Pinging PROVE Rest'
  <2>1. client' \in Clients
    BY <1>6 DEF Pinging, Pinged
  <2> QED  BY <1>0, <1>6, <2>1 DEF Pinging, Rest
<1>7. ASSUME Ticks PROVE Rest'
  BY <1>0, <1>7 DEF Ticks, OnlyClient, Rest
<1>8. ASSUME NEW r \in Requests, NEW ok \in BOOLEAN, Written(r, ok) PROVE Rest'
  <2>1. net' \in Nets
    BY <1>0, <1>8, WrittenNet, Zenon DEF Takes, Echoes, Sends
  <2> QED  BY <1>0, <1>8, <2>1, Zenon DEF Written, Rest
<1>9. ASSUME ReadMoves PROVE Rest'
  <2>1. Ponged \/ ReadEnds \/ Drops \/ Refuses => Rest'
    BY <1>0, Zenon DEF Ponged, ReadEnds, Drops, Refuses, Consumes, OnlyClient, Rest
  <2>2. ASSUME NEW m \in Messages, Handles(m) PROVE Rest'
    BY <1>0, <2>2, Zenon DEF Handles, Consumes, Rest
  <2>3. Finishes \/ FallsSilent => Rest'
    BY <1>0, Zenon DEF Finishes, FallsSilent, OnlyClient, Rest
  <2>4. ASSUME Restarting PROVE Rest'
    <3>1. PICK n \in Nat : n = Len(listed)
      BY <1>0, LenProperties
    <3>3. client' \in Clients
      BY <2>4 DEF Restarting, RestoredAs
    <3>4. nextId' = nextId + n /\ net' = NewConnection /\ UNCHANGED <<started, world>> /\ orphans' \in Nat
      BY <2>4, <3>1 DEF Restarting
    <3>5. nextId' \in Nat \ {0}
      BY <1>0, <3>1, <3>4
    <3> QED  BY <1>0, <3>3, <3>4, <3>5, NewConnectionMakes DEF Rest
  <2> QED  BY <1>9, <2>1, <2>2, <2>3, <2>4, Zenon DEF ReadMoves
<1>10. ASSUME ServerMoves PROVE Rest'
  <2>1. ASSUME OnlyNet, net' \in Nets, UNCHANGED world PROVE Rest'
    BY <1>0, <2>1 DEF OnlyNet, Rest
  <2>2. ASSUME NEW r \in Requests, NEW m \in Messages, Answers(r, m) PROVE Rest'
    BY <2>1, <2>2, Zenon DEF Answers, Sends
  <2>3. ASSUME NEW s \in Subs, NEW m \in Messages, Streams(s, m) PROVE Rest'
    BY <2>1, <2>3, Zenon DEF Streams, Sends
  <2>4. ASSUME NEW m \in Messages, Babbles(m) PROVE Rest'
    BY <2>1, <2>4, Zenon DEF Babbles, Sends
  <2>5. Hastens => Rest'
    BY <2>1, Zenon DEF Hastens
  <2>6. ASSUME Loses PROVE Rest'
    <3>1. /\ UNCHANGED <<client, started, orphans, nextId>> /\ net' \in Nets
          /\ world.breaks > 0 /\ world' = [world EXCEPT !.breaks = @ - 1]
      BY <2>6 DEF Loses, OnlyNet
    <3>2. world.breaks \in Nat
      BY <1>0 DEF AllWorlds
    <3>3. PICK b \in Nat : b = world.breaks - 1
      BY <3>1, <3>2
    <3>4. world' = [world EXCEPT !.breaks = b]
      BY <3>1, <3>3
    <3>5. world' \in AllWorlds
      BY <1>0, <3>4 DEF AllWorlds
    <3> QED  BY <1>0, <3>1, <3>5 DEF Rest
  <2> QED  BY <1>10, <2>2, <2>3, <2>4, <2>5, <2>6, Zenon DEF ServerMoves
<1>11. ASSUME UNCHANGED vars PROVE Rest'
  BY <1>0, <1>11 DEF vars, Rest
<1>12. Rest'
  BY <1>1, <1>3, <1>4, <1>5, <1>6, <1>7, <1>8, <1>9, <1>10, <1>11, Zenon DEF Moves
<1> QED  BY <1>2, <1>12 DEF Types, Rest

\* no id that is new
OldIds ==
  /\ nextId' >= nextId /\ client'.pings \subseteq client.pings
  /\ \A r \in client'.sent \cup net'.requests :
       r \in client.sent \cup net.requests \/ \E i \in 1..Len(client.pending) : r = client.pending[i]
  /\ \A i \in 1..Len(client'.pending) : \E j \in 1..Len(client.pending) : client'.pending[i] = client.pending[j]

\* Where no id is new, every id was handed out before.
LEMMA NoNewIds ==
  ASSUME Types, nextId' \in Nat, Numbered, OldIds
  PROVE  Numbered'
<1>1. \A r \in client.sent \cup net.requests : r.id \in Nat
  BY DEF Types, Clients, Nets, Requests
<1>2. \A i \in 1..Len(client.pending) : client.pending[i].id \in Nat
  BY PendingTypes
<1>3. nextId \in Nat /\ nextId' \in Nat /\ nextId <= nextId' /\ \A p \in client.pings : p \in Nat
  BY DEF OldIds, Types, Clients
<1>4. \A r \in client'.sent \cup net'.requests : r.id < nextId'
  <2> SUFFICES ASSUME NEW r \in client'.sent \cup net'.requests PROVE r.id < nextId'
    OBVIOUS
  <2>1. r.id \in Nat /\ r.id < nextId
    BY <1>1, <1>2 DEF OldIds, Numbered
  <2> QED  BY <1>3, <2>1
<1>5. \A i \in 1..Len(client'.pending) : client'.pending[i].id < nextId'
  <2> SUFFICES ASSUME NEW i \in 1..Len(client'.pending) PROVE client'.pending[i].id < nextId'
    OBVIOUS
  <2>1. client'.pending[i].id \in Nat /\ client'.pending[i].id < nextId
    BY <1>2 DEF OldIds, Numbered
  <2> QED  BY <1>3, <2>1
<1>6. \A p \in client'.pings : 0 < p /\ p < nextId'
  BY <1>3 DEF OldIds, Numbered
<1> QED  BY <1>4, <1>5, <1>6 DEF Numbered

\* Steps that issue nothing new.
LEMMA OldIdsMoves ==
  ASSUME Types, Loops, Moves
  PROVE  OldIds \/ (\E r \in Requests : Pushes(r)) \/ Pinging \/ Restarting
<1>1. nextId \in Nat /\ nextId >= nextId
  BY DEF Types
<1>2. ASSUME client'.sent \subseteq client.sent, client'.pending = client.pending, client'.pings \subseteq client.pings,
             net'.requests \subseteq net.requests, nextId' = nextId
      PROVE  OldIds
  BY <1>1, <1>2 DEF OldIds
<1>3. Aborts \/ Silences \/ Stopping \/ Ticks \/ UNCHANGED vars => OldIds
  BY <1>2, Zenon DEF Aborts, Silences, Stopping, Ticks, SameRequests, OnlyClient, vars
<1>4. Ponged \/ ReadEnds \/ Drops \/ Refuses \/ Finishes \/ FallsSilent => OldIds
  <2>1. Ponged => client'.pings \subseteq client.pings
    BY DEF Ponged
  <2> QED  BY <1>2, <2>1, Zenon DEF Ponged, ReadEnds, Drops, Refuses, Finishes, FallsSilent, SameRequests, OnlyClient, Consumes
<1>5. ASSUME NEW m \in Messages, Handles(m) PROVE OldIds
  <2>1. client'.sent \subseteq client.sent
    BY <1>5 DEF Handles
  <2> QED  BY <1>2, <1>5, <2>1, Zenon DEF Handles, Consumes
<1>6. ASSUME OnlyNet, net'.requests \subseteq net.requests PROVE OldIds
  BY <1>2, <1>6, Zenon DEF OnlyNet
<1>7. ASSUME NEW r \in Requests, NEW m \in Messages, Answers(r, m) PROVE OldIds
  <2>1. net'.requests \subseteq net.requests
    BY <1>7 DEF Answers
  <2> QED  BY <1>6, <1>7, <2>1, Zenon DEF Answers
<1>8. ASSUME Hastens PROVE OldIds
  <2>1. client.pending # <<>> /\ OnlyNet
    BY <1>8 DEF Hastens, Loops
  <2>2. 1 \in 1..Len(client.pending)
    BY <2>1, PendingTypes
  <2>3. net'.requests = net.requests \cup {client.pending[1]}
    BY <1>8 DEF Hastens
  <2>4. client' = client /\ nextId' = nextId
    BY <2>1 DEF OnlyNet
  <2> QED  BY <1>1, <2>2, <2>3, <2>4 DEF OldIds
<1>9. ASSUME ServerMoves PROVE OldIds
  <2>1. ASSUME NEW s \in Subs, NEW m \in Messages, Streams(s, m) PROVE OldIds
    BY <1>6, <2>1, Zenon DEF Streams
  <2>2. ASSUME NEW m \in Messages, Babbles(m) PROVE OldIds
    BY <1>6, <2>2, Zenon DEF Babbles
  <2>3. Loses => OldIds
    BY <1>6, Zenon DEF Loses
  <2> QED  BY <1>7, <1>8, <1>9, <2>1, <2>2, <2>3, Zenon DEF ServerMoves
<1>10. ASSUME NEW r \in Requests, NEW ok \in BOOLEAN, Written(r, ok) PROVE OldIds
  <2>1. client.pending # <<>> /\ client'.pending = Tail(client.pending) /\ r = client.pending[1]
    BY <1>10 DEF Written
  <2>2. PICK n \in Nat :
          /\ n = Len(client.pending) /\ n > 0 /\ Len(client'.pending) = n - 1
          /\ \A k \in 1..n - 1 : client'.pending[k] = client.pending[k + 1] /\ k + 1 \in 1..n
    BY <2>1, PendingShrinks
  <2>3. net'.requests \subseteq net.requests \cup {r}
    BY <1>10, WrittenNet, Zenon DEF Takes, Echoes
  <2>4. client'.sent \subseteq client.sent /\ client'.pings = client.pings /\ nextId' = nextId
    BY <1>10 DEF Written
  <2>5. 1 \in 1..n
    BY <2>2
  <2> QED  BY <1>1, <2>1, <2>2, <2>3, <2>4, <2>5 DEF OldIds
<1> QED  BY <1>3, <1>4, <1>5, <1>9, <1>10, Zenon DEF Moves, Issues, ReadMoves

\* Every id was handed out before it is used.
LEMMA NumberedKept ==
  ASSUME Types, Loops, Numbered, [Next]_vars
  PROVE  Numbered'
<1>0. nextId \in Nat \ {0} /\ nextId \in Nat /\ nextId' \in Nat /\ client \in Clients
  BY TypesKept DEF Types
<1>1. ASSUME OldIds PROVE Numbered'
  BY <1>0, <1>1, NoNewIds
<1>2. \A x \in client.sent \cup net.requests : x.id \in Nat /\ x.id < nextId
  BY DEF Types, Clients, Nets, Requests, Numbered
<1>3. ASSUME NEW r \in Requests, client'.pending = Append(client.pending, r), r.id < nextId + 1, nextId' = nextId + 1
      PROVE  \A i \in 1..Len(client'.pending) : client'.pending[i].id < nextId'
  <2>1. PICK n \in Nat :
          /\ n = Len(client.pending) /\ Len(client'.pending) = n + 1 /\ client'.pending[n + 1] = r
          /\ \A k \in 1..n : client'.pending[k] = client.pending[k]
    BY <1>3, PendingGrows
  <2>2. \A i \in 1..n : client.pending[i].id \in Nat /\ client.pending[i].id < nextId
    BY <2>1, PendingTypes DEF Numbered
  <2> SUFFICES ASSUME NEW i \in 1..n + 1 PROVE client'.pending[i].id < nextId'
    BY <2>1
  <2>3. CASE i = n + 1
    BY <1>3, <2>1, <2>3
  <2>4. CASE i \in 1..n
    <3>1. PICK v \in Nat : v = client.pending[i].id
      BY <2>2, <2>4
    <3>2. v < nextId
      BY <2>2, <2>4, <3>1
    <3>3. nextId' = nextId + 1
      BY <1>3
    <3>4. v < nextId'
      BY <1>0, <3>2, <3>3
    <3> QED  BY <2>1, <2>4, <3>1, <3>4
  <2> QED  BY <2>3, <2>4
<1>4. ASSUME NEW r \in Requests, Pushes(r) PROVE Numbered'
  <2>1. r.id = nextId /\ nextId' = nextId + 1 /\ client'.sent = client.sent \cup {r} /\ net' = net
        /\ client'.pending = Append(client.pending, r) /\ client'.pings = client.pings
    BY <1>4 DEF Pushes
  <2>2. \A x \in client'.sent \cup net'.requests : x.id < nextId'
    <3> SUFFICES ASSUME NEW x \in client'.sent \cup net'.requests PROVE x.id < nextId'
      OBVIOUS
    <3>1. x = r \/ x \in client.sent \cup net.requests
      BY <2>1
    <3> QED  BY <1>0, <1>2, <2>1, <3>1
  <2>3. \A i \in 1..Len(client'.pending) : client'.pending[i].id < nextId'
    BY <1>0, <1>3, <2>1
  <2>4. \A p \in client'.pings : 0 < p /\ p < nextId'
    <3>1. \A p \in client.pings : p \in Nat /\ 0 < p /\ p < nextId
      BY <1>0 DEF Numbered, Clients
    <3> QED  BY <1>0, <2>1, <3>1
  <2> QED  BY <2>2, <2>3, <2>4 DEF Numbered
<1>5. ASSUME Pinging PROVE Numbered'
  <2>1. nextId' = nextId + 1 /\ net' = net /\ client'.pings = client.pings \cup {nextId} /\ client'.sent = client.sent
    BY <1>5 DEF Pinging, Pinged
  <2>2. PICK r \in Requests : r.id = nextId /\ client'.pending = Append(client.pending, r)
    BY <1>5 DEF Pinging, Pinged
  <2>5. \A x \in client'.sent \cup net'.requests : x.id < nextId'
    <3> SUFFICES ASSUME NEW x \in client'.sent \cup net'.requests PROVE x.id < nextId'
      OBVIOUS
    <3>1. x \in client.sent \cup net.requests
      BY <2>1
    <3> QED  BY <1>0, <1>2, <2>1, <3>1
  <2>6. \A i \in 1..Len(client'.pending) : client'.pending[i].id < nextId'
    BY <1>0, <1>3, <2>1, <2>2
  <2>7. \A p \in client'.pings : 0 < p /\ p < nextId'
    <3>1. \A p \in client.pings : p \in Nat /\ 0 < p /\ p < nextId
      BY <1>0 DEF Numbered, Clients
    <3> QED  BY <1>0, <2>1, <3>1
  <2> QED  BY <2>5, <2>6, <2>7 DEF Numbered
<1>6. ASSUME Restarting PROVE Numbered'
  <2>1. listed \in Seq(Subs)
    BY DEF Types
  <2>2. PICK n \in Nat : n = Len(listed)
    BY <2>1, LenProperties
  <2>3. client'.pings = {} /\ nextId' = nextId + n /\ net'.requests = {}
    BY <1>6, <2>2, NewConnectionMakes DEF Restarting, RestoredAs
  <2>4. Len(client'.pending) = n /\ \A k \in 1..n : client'.pending[k].id = nextId + k - 1
    BY <1>6, <2>2 DEF Restarting, RestoredAs
  <2>5. \A r \in client'.sent : \E k \in 1..n : r = client'.pending[k]
    BY <1>6, <2>2 DEF Restarting, RestoredAs
  <2>6. ASSUME NEW k \in 1..n PROVE client'.pending[k].id < nextId'
    BY <1>0, <2>3, <2>4
  <2> QED  BY <2>3, <2>4, <2>5, <2>6 DEF Numbered
<1>7. OldIds \/ (\E r \in Requests : Pushes(r)) \/ Pinging \/ Restarting
  BY NextMoves, OldIdsMoves
<1> QED  BY <1>1, <1>4, <1>5, <1>6, <1>7, Zenon

\* what comes first on its way stays where it is
FirstStays ==
  /\ net.inbox # <<>> => net'.inbox # <<>> /\ net'.inbox[1] = net.inbox[1]
  /\ net'.up => net.up

\* Only reading takes a frame away.
LEMMA FirstOfAll ==
  ASSUME Types
  PROVE  /\ net'.inbox = net.inbox /\ (net'.up => net.up) => FirstStays
         /\ \A m \in Messages : Sends(net, m) => FirstStays
         /\ ServerMoves => FirstStays
         /\ \A r \in Requests, ok \in BOOLEAN : Written(r, ok) => FirstStays
<1>1. net'.inbox = net.inbox /\ (net'.up => net.up) => FirstStays
  BY DEF FirstStays
<1>2. ASSUME NEW m \in Messages, Sends(net, m) PROVE FirstStays
  <2>1. PICK n \in Nat :
          /\ n = Len(net.inbox) /\ \A k \in 1..n : net'.inbox[k] = net.inbox[k]
          /\ net'.inbox # <<>>
    BY <1>2, InboxGrows
  <2>2. net.inbox # <<>> => n # 0
    BY <2>1, InboxTypes
  <2>3. n # 0 => 1 \in 1..n
    OBVIOUS
  <2>4. net'.up = net.up
    BY <1>2 DEF Sends
  <2> QED  BY <2>1, <2>2, <2>3, <2>4 DEF FirstStays
<1>3. ASSUME ServerMoves PROVE FirstStays
  <2>1. Hastens \/ Loses => net'.inbox = net.inbox /\ (net'.up => net.up)
    BY DEF Hastens, Loses
  <2> QED  BY <1>1, <1>2, <1>3, <2>1, Zenon DEF ServerMoves, Answers, Streams, Babbles
<1>4. ASSUME NEW r \in Requests, NEW ok \in BOOLEAN, Written(r, ok) PROVE FirstStays
  <2>1. net' = net \/ Takes(r) \/ Echoes(r)
    BY <1>4, WrittenNet, Zenon
  <2>2. Takes(r) => net'.inbox = net.inbox /\ (net'.up => net.up)
    BY DEF Takes
  <2>3. net' = net => net'.inbox = net.inbox /\ (net'.up => net.up)
    OBVIOUS
  <2> QED  BY <1>1, <1>2, <2>1, <2>2, <2>3, Zenon DEF Echoes
<1> QED  BY <1>1, <1>2, <1>3, <1>4

Ready(c, n) == c.reading = "message" => n.inbox # <<>> /\ n.inbox[1].type # "pong"
Drained(c) == c.writing = "no" <=> c.pending = <<>>
States(c) ==
  /\ c.state = "STOPPED" => c.reading = "off"
  /\ c.state = "RUNNING" => c.reading # "aborted"

\* The write loop and the read loop go on.
LEMMA LoopsKept ==
  ASSUME Types, Loops, [Next]_vars
  PROVE  Loops'
<1>0. /\ Drained(client) /\ (Alive => Ready(client, net)) /\ States(client) /\ (client.state = "RUNNING" => started)
  BY DEF Loops, Drained, Ready, States
<1>1. ASSUME Drained(client'), Alive' => Ready(client', net'), States(client'), client'.state = "RUNNING" => started'
      PROVE  Loops'
  BY <1>1 DEF Loops, Drained, Ready, States
<1>2. Moves
  BY NextMoves
<1>3. ASSUME client' = client, started' = started, Alive' => Alive /\ FirstStays PROVE Loops'
  <2>1. Alive' => Ready(client', net')
    BY <1>0, <1>3 DEF Ready, FirstStays
  <2> QED  BY <1>0, <1>1, <1>3, <2>1
<1>4. ASSUME Aborts \/ Refuses PROVE Loops'
  BY <1>3, <1>4 DEF Aborts, Refuses, Alive
<1>5. ASSUME Silences PROVE Loops'
  BY <1>3, <1>5, FirstOfAll DEF Silences, Alive
<1>6. ASSUME UNCHANGED vars PROVE Loops'
  BY <1>3, <1>6, FirstOfAll DEF vars, Alive
<1>7. ASSUME ServerMoves PROVE Loops'
  <2>1. OnlyNet
    BY <1>7, Zenon DEF ServerMoves, Answers, Streams, Babbles, Hastens, Loses
  <2>2. FirstStays
    BY <1>7, FirstOfAll
  <2> QED  BY <1>3, <2>1, <2>2 DEF OnlyNet, Alive
<1>8. ASSUME NEW r \in Requests, Pushes(r) PROVE Loops'
  <2>1. client'.pending # <<>>
    BY <1>8, PendingGrows DEF Pushes
  <2>2. Drained(client')
    BY <1>8, <2>1 DEF Pushes, Drained
  <2>3. client'.state = client.state /\ client'.reading = client.reading /\ UNCHANGED <<crash, net, started>>
    BY <1>8 DEF Pushes
  <2> QED  BY <1>0, <1>1, <2>2, <2>3 DEF Ready, States, Alive
<1>9. ASSUME Pinging PROVE Loops'
  <2>1. PICK r \in Requests : client'.pending = Append(client.pending, r)
    BY <1>9 DEF Pinging, Pinged
  <2>2. client'.pending # <<>>
    BY <2>1, PendingGrows
  <2>3. Drained(client')
    BY <1>9, <2>2 DEF Pinging, Pinged, Drained
  <2>4. client'.state = client.state /\ client'.reading = client.reading /\ UNCHANGED <<crash, net, started>>
    BY <1>9 DEF Pinging, Pinged
  <2> QED  BY <1>0, <1>1, <2>3, <2>4 DEF Ready, States, Alive
<1>10. ASSUME Stopping PROVE Loops'
  <2>1. Drained(client')
    BY <1>0, <1>10 DEF Stopping, Drained
  <2>2. States(client') /\ client'.state # "RUNNING"
    BY <1>10 DEF Stopping, States
  <2>3. Alive' => Ready(client', net')
    BY <1>0, <1>10 DEF Stopping, Ready, Alive
  <2> QED  BY <1>1, <2>1, <2>2, <2>3
<1>11. ASSUME SameRequests PROVE Drained(client')
  BY <1>0, <1>11 DEF SameRequests, Drained
<1>12. ASSUME Ticks PROVE Loops'
  <2>1. client'.state = client.state /\ client'.reading = client.reading /\ UNCHANGED <<crash, net, started>>
    BY <1>12 DEF Ticks, OnlyClient
  <2>2. Drained(client')
    BY <1>11, <1>12 DEF Ticks
  <2> QED  BY <1>0, <1>1, <2>1, <2>2 DEF Ready, States, Alive
<1>13. ASSUME NEW r \in Requests, NEW ok \in BOOLEAN, Written(r, ok) PROVE Loops'
  <2>1. /\ (client'.writing = "no" <=> client'.pending = <<>>) /\ client'.state = client.state
        /\ client'.reading = client.reading /\ crash' = crash /\ started' = started
    BY <1>13, Zenon DEF Written
  <2>2. FirstStays
    BY <1>13, FirstOfAll
  <2>3. Alive' => Ready(client', net')
    BY <1>0, <2>1, <2>2 DEF Ready, FirstStays, Alive
  <2> QED  BY <1>0, <1>1, <2>1, <2>3 DEF States, Drained
<1>14. ASSUME Ponged \/ ReadEnds \/ Drops PROVE Loops'
  <2>1. SameRequests /\ client'.state = client.state /\ started' = started
    BY <1>14, Zenon DEF Ponged, ReadEnds, Drops, OnlyClient
  <2>2. Ready(client', net')
    BY <1>14 DEF Ponged, ReadEnds, Drops, OnlyClient, Ready
  <2>3. client.reading \in {"asked", "message"} /\ client'.reading \in {"asked", "message", "error", "off"}
    BY <1>14 DEF Ponged, ReadEnds, Drops
  <2>4. States(client')
    BY <1>0, <2>1, <2>3 DEF States
  <2> QED  BY <1>0, <1>1, <1>11, <2>1, <2>2, <2>4
<1>15. ASSUME NEW m \in Messages, Handles(m) PROVE Loops'
  <2>1. client'.state = client.state /\ started' = started /\ client'.pending = client.pending /\ client'.writing = client.writing
    BY <1>15, Zenon DEF Handles
  <2>2. client.reading = "message" /\ client'.reading \in {"asked", "error"}
    BY <1>15, Zenon DEF Handles
  <2>3. States(client') /\ Ready(client', net')
    BY <1>0, <2>1, <2>2 DEF States, Ready
  <2>4. Drained(client')
    BY <1>0, <2>1 DEF Drained
  <2> QED  BY <1>0, <1>1, <2>1, <2>3, <2>4
<1>16. ASSUME Finishes \/ FallsSilent PROVE Loops'
  <2>1. SameRequests /\ client'.state # "RUNNING" /\ client'.reading = "off"
    BY <1>16 DEF Finishes, FallsSilent
  <2> QED  BY <1>1, <1>11, <2>1 DEF Ready, States
<1>17. ASSUME Restarting PROVE Loops'
  <2>1. client'.state = "RUNNING" /\ client'.reading = "asked" /\ Drained(client') /\ started' = started /\ started
    BY <1>17 DEF Restarting, RestoredAs, Drained
  <2> QED  BY <1>1, <2>1 DEF Ready, States
<1> QED
  BY <1>2, <1>4, <1>5, <1>6, <1>7, <1>8, <1>9, <1>10, <1>12, <1>13, <1>14, <1>15, <1>16, <1>17, Zenon
  DEF Moves, Issues, ReadMoves

\* The timer and the ping go on taking turns.
LEMMA TurnsKept ==
  ASSUME Types, Loops, Turns, [Next]_vars
  PROVE  Turns'
<1>1. ASSUME client'.pending = client.pending, client'.timer = client.timer,
             Alive' /\ client'.state = "RUNNING" => Alive /\ client.state = "RUNNING"
      PROVE  Turns'
  BY <1>1 DEF Turns, IsPing
<1>2. Aborts \/ Silences \/ Refuses \/ UNCHANGED vars => Turns'
  BY <1>1 DEF Aborts, Silences, Refuses, vars, Alive
<1>3. Stopping \/ Finishes \/ FallsSilent => Turns'
  <2>1. Stopping \/ Finishes \/ FallsSilent => client'.state # "RUNNING"
    BY DEF Stopping, Finishes, FallsSilent
  <2> QED  BY <2>1 DEF Turns
<1>4. Ponged \/ ReadEnds \/ Drops => Turns'
  BY <1>1, Zenon DEF Ponged, ReadEnds, Drops, SameRequests, OnlyClient, Alive
<1>5. ASSUME NEW m \in Messages, Handles(m) PROVE Turns'
  BY <1>1, <1>5, Zenon DEF Handles, Alive
<1>6. ASSUME ServerMoves PROVE Turns'
  <2>1. OnlyNet
    BY <1>6, Zenon DEF ServerMoves, Answers, Streams, Babbles, Hastens, Loses
  <2> QED  BY <1>1, <2>1 DEF OnlyNet, Alive
<1>7. ASSUME NEW r \in Requests, Pushes(r) PROVE Turns'
  <2>1. PICK n \in Nat :
          /\ n = Len(client.pending) /\ Len(client'.pending) = n + 1 /\ client'.pending[n + 1] = r
          /\ \A k \in 1..n : client'.pending[k] = client.pending[k]
    BY <1>7, PendingGrows DEF Pushes
  <2>2. r.type # "ping" /\ client'.timer = client.timer /\ (Alive' => Alive) /\ client.state = "RUNNING"
    BY <1>7 DEF Pushes, Alive
  <2>3. \A k \in 1..n + 1 : k \in 1..n \/ k = n + 1
    OBVIOUS
  <2>4. \A k \in 1..n : k \in 1..n + 1 /\ k # n + 1
    OBVIOUS
  <2> SUFFICES ASSUME Alive', client'.state = "RUNNING"
               PROVE  IF client'.timer = "off"
                      THEN \E i \in 1..n + 1 : \A j \in 1..n + 1 : client'.pending[j].type = "ping" <=> j = i
                      ELSE \A j \in 1..n + 1 : client'.pending[j].type # "ping"
    BY <2>1 DEF Turns, IsPing
  <2>5. CASE client.timer = "off"
    <3>1. PICK i \in 1..n : \A j \in 1..n : client.pending[j].type = "ping" <=> j = i
      BY <2>1, <2>2, <2>5 DEF Turns, IsPing
    <3>2. i \in 1..n + 1 /\ i # n + 1
      BY <2>4
    <3>3. \A j \in 1..n + 1 : client'.pending[j].type = "ping" <=> j = i
      BY <2>1, <2>2, <2>3, <3>1, <3>2
    <3> QED  BY <2>2, <2>5, <3>2, <3>3
  <2>6. CASE client.timer # "off"
    <3>1. \A j \in 1..n : client.pending[j].type # "ping"
      BY <2>1, <2>2, <2>6 DEF Turns, IsPing
    <3> QED  BY <2>1, <2>2, <2>3, <2>6, <3>1
  <2> QED  BY <2>5, <2>6
<1>8. ASSUME Pinging PROVE Turns'
  <2>1. PICK r \in Requests : r.type = "ping" /\ client'.pending = Append(client.pending, r)
    BY <1>8 DEF Pinging, Pinged
  <2>2. PICK n \in Nat :
          /\ n = Len(client.pending) /\ Len(client'.pending) = n + 1 /\ client'.pending[n + 1] = r
          /\ \A k \in 1..n : client'.pending[k] = client.pending[k]
    BY <2>1, PendingGrows
  <2>3. client'.timer = "off" /\ client.timer = "expired" /\ client'.state = client.state /\ crash' = crash
    BY <1>8 DEF Pinging, Pinged
  <2> SUFFICES ASSUME Alive', client'.state = "RUNNING"
               PROVE  \E i \in 1..n + 1 : \A j \in 1..n + 1 : client'.pending[j].type = "ping" <=> j = i
    BY <2>2, <2>3 DEF Turns, IsPing
  <2>0. Alive /\ client.state = "RUNNING"
    BY <2>3 DEF Alive
  <2>4. \A k \in 1..n : client.pending[k].type # "ping"
    BY <2>0, <2>2, <2>3 DEF Turns, IsPing
  <2>5. n + 1 \in 1..n + 1 /\ \A k \in 1..n + 1 : k \in 1..n \/ k = n + 1
    OBVIOUS
  <2>6. \A k \in 1..n : k # n + 1
    OBVIOUS
  <2>7. \A j \in 1..n + 1 : client'.pending[j].type = "ping" <=> j = n + 1
    BY <2>1, <2>2, <2>4, <2>5, <2>6
  <2> QED  BY <2>5, <2>7
<1>9. ASSUME Ticks PROVE Turns'
  <2>1. /\ client'.pending = client.pending /\ client.timer # "off" /\ client'.timer # "off"
        /\ client'.state = client.state /\ crash' = crash
    BY <1>9 DEF Ticks, SameRequests, OnlyClient
  <2> QED  BY <2>1 DEF Turns, IsPing, Alive
<1>10. ASSUME NEW r \in Requests, NEW ok \in BOOLEAN, Written(r, ok) PROVE Turns'
  <2>1. /\ client.pending # <<>> /\ client'.pending = Tail(client.pending) /\ r = client.pending[1]
        /\ client'.state = client.state /\ crash' = crash
    BY <1>10, Zenon DEF Written
  <2>2. PICK n \in Nat :
          /\ n = Len(client.pending) /\ n > 0 /\ Len(client'.pending) = n - 1
          /\ \A k \in 1..n - 1 : client'.pending[k] = client.pending[k + 1] /\ k + 1 \in 1..n
    BY <2>1, PendingShrinks
  <2> SUFFICES ASSUME Alive', client'.state = "RUNNING"
               PROVE  IF client'.timer = "off"
                      THEN \E i \in 1..n - 1 : \A j \in 1..n - 1 : client'.pending[j].type = "ping" <=> j = i
                      ELSE \A j \in 1..n - 1 : client'.pending[j].type # "ping"
    BY <2>2 DEF Turns, IsPing
  <2>0. Alive /\ client.state = "RUNNING"
    BY <2>1 DEF Alive
  <2>3. 1 \in 1..n /\ \A k \in 1..n - 1 : k + 1 # 1
    BY <2>2
  <2>4. CASE r.type = "ping"
    <3>1. client.timer = "off"
      BY <2>0, <2>1, <2>2, <2>3, <2>4 DEF Turns, IsPing
    <3>2. PICK i \in 1..n : \A j \in 1..n : client.pending[j].type = "ping" <=> j = i
      BY <2>0, <2>2, <3>1 DEF Turns, IsPing
    <3>3. i = 1
      BY <2>1, <2>3, <2>4, <3>2
    <3>4. \A j \in 1..n - 1 : client'.pending[j].type # "ping"
      BY <2>2, <2>3, <3>2, <3>3
    <3>5. client'.timer = "armed"
      BY <1>10, <2>4 DEF Written
    <3> QED  BY <3>4, <3>5
  <2>5. CASE r.type # "ping"
    <3>1. client'.timer = client.timer
      BY <1>10, <2>5 DEF Written
    <3>2. CASE client.timer = "off"
      <4>1. PICK i \in 1..n : \A j \in 1..n : client.pending[j].type = "ping" <=> j = i
        BY <2>0, <2>2, <3>2 DEF Turns, IsPing
      <4>2. i # 1
        BY <2>1, <2>3, <2>5, <4>1
      <4>3. i - 1 \in 1..n - 1 /\ \A j \in 1..n - 1 : j + 1 = i <=> j = i - 1
        BY <4>2
      <4>4. \A j \in 1..n - 1 : client'.pending[j].type = "ping" <=> j = i - 1
        BY <2>2, <4>1, <4>3
      <4> QED  BY <3>1, <3>2, <4>3, <4>4
    <3>3. CASE client.timer # "off"
      <4>1. \A j \in 1..n : client.pending[j].type # "ping"
        BY <2>0, <2>2, <3>3 DEF Turns, IsPing
      <4> QED  BY <2>2, <3>1, <3>3, <4>1
    <3> QED  BY <3>2, <3>3
  <2> QED  BY <2>4, <2>5
<1>11. ASSUME Restarting PROVE Turns'
  <2>1. Len(listed) \in Nat
    BY LenProperties DEF Types
  <2>2. /\ client'.timer = "armed" /\ Len(client'.pending) = Len(listed)
        /\ \A k \in 1..Len(listed) : client'.pending[k].type = "subscribe"
    BY <1>11 DEF Restarting, RestoredAs
  <2> QED  BY <2>2 DEF Turns, IsPing
<1>12. Moves
  BY NextMoves
<1> QED
  BY <1>2, <1>3, <1>4, <1>5, <1>6, <1>7, <1>8, <1>9, <1>10, <1>11, <1>12, Zenon DEF Moves, Issues, ReadMoves

\* Without garbage the client goes on reading.
LEMMA HearsKept ==
  ASSUME Types, Loops, Hears, [Next]_vars
  PROVE  Hears'
<1>1. Moves
  BY NextMoves
<1>2. ASSUME world' = world \/ Loses PROVE world'.faults = world.faults
  BY <1>2 DEF Loses, Types, AllWorlds
<1>3. ASSUME world'.faults = world.faults,
             \A i \in 1..Len(net'.inbox) : net'.inbox[i].type # "garbage" \/ \E j \in 1..Len(net.inbox) : net'.inbox[i] = net.inbox[j],
             Alive' /\ client'.state = "RUNNING" => client'.reading # "off" \/ (Alive /\ client.state = "RUNNING" /\ client.reading = "off")
      PROVE  Hears'
  BY <1>3 DEF Hears
<1>4. ASSUME net'.inbox = net.inbox
      PROVE  \A i \in 1..Len(net'.inbox) : net'.inbox[i].type # "garbage" \/ \E j \in 1..Len(net.inbox) : net'.inbox[i] = net.inbox[j]
  BY <1>4
<1>5. ASSUME NEW m \in Messages, Sends(net, m), m.type # "garbage"
      PROVE  \A i \in 1..Len(net'.inbox) : net'.inbox[i].type # "garbage" \/ \E j \in 1..Len(net.inbox) : net'.inbox[i] = net.inbox[j]
  <2>1. PICK n \in Nat :
          /\ n = Len(net.inbox) /\ Len(net'.inbox) = n + 1 /\ net'.inbox[n + 1] = m
          /\ \A k \in 1..n : net'.inbox[k] = net.inbox[k]
    BY <1>5, InboxGrows
  <2>2. \A k \in 1..n + 1 : k \in 1..n \/ k = n + 1
    OBVIOUS
  <2> QED  BY <1>5, <2>1, <2>2
<1>6. ASSUME Consumes
      PROVE  \A i \in 1..Len(net'.inbox) : net'.inbox[i].type # "garbage" \/ \E j \in 1..Len(net.inbox) : net'.inbox[i] = net.inbox[j]
  <2>1. PICK n \in Nat :
           /\ n = Len(net.inbox) /\ Len(net'.inbox) = n - 1
           /\ \A k \in 1..n - 1 : net'.inbox[k] = net.inbox[k + 1] /\ k + 1 \in 1..n
    BY <1>6, InboxShrinks
  <2> QED  BY <2>1
<1>7. Aborts \/ Silences \/ UNCHANGED vars => Hears'
  BY <1>2, <1>3, <1>4 DEF Aborts, Silences, vars, Alive
<1>8. ASSUME Refuses PROVE Hears'
  <2>1. ~Alive' /\ Consumes /\ world' = world
    BY <1>8, Zenon DEF Refuses, Alive
  <2> QED  BY <1>2, <1>3, <1>6, <2>1
<1>9. ASSUME Stopping \/ Finishes \/ FallsSilent PROVE Hears'
  <2>1. client'.state # "RUNNING" /\ net'.inbox = net.inbox /\ world' = world
    BY <1>9 DEF Stopping, Finishes, FallsSilent, OnlyClient
  <2> QED  BY <1>2, <1>3, <1>4, <2>1
<1>10. ASSUME \/ \E r \in Requests : Pushes(r)
              \/ Pinging \/ Ticks
       PROVE  Hears'
  <2>1. /\ client'.state = client.state /\ client'.reading = client.reading /\ net' = net /\ world' = world
        /\ crash' = crash
    BY <1>10 DEF Pushes, Pinging, Pinged, Ticks, OnlyClient
  <2> QED  BY <1>2, <1>3, <1>4, <2>1 DEF Alive
<1>11. ASSUME NEW r \in Requests, NEW ok \in BOOLEAN, Written(r, ok) PROVE Hears'
  <2>1. /\ client'.state = client.state /\ client'.reading = client.reading /\ world' = world /\ crash' = crash
    BY <1>11, Zenon DEF Written
  <2>2. net'.inbox = net.inbox \/ \E m \in Messages : Sends(net, m) /\ m.type # "garbage"
    <3>1. net' = net \/ Takes(r) \/ Echoes(r)
      BY <1>11, WrittenNet, Zenon
    <3> QED  BY <3>1 DEF Takes, Echoes
  <2> QED  BY <1>2, <1>3, <1>4, <1>5, <2>1, <2>2 DEF Alive
<1>12. ASSUME Ponged \/ ReadEnds PROVE Hears'
  <2>1. /\ client'.reading # "off" /\ world' = world /\ (Consumes \/ net'.inbox = net.inbox)
    BY <1>12 DEF Ponged, ReadEnds, OnlyClient
  <2> QED  BY <1>2, <1>3, <1>4, <1>6, <2>1
<1>13. ASSUME Drops PROVE Hears'
  <2>1. net.inbox[1].type = "garbage" /\ net.inbox # <<>> /\ world' = world
    BY <1>13, Zenon DEF Drops, Consumes
  <2>2. 1 \in 1..Len(net.inbox)
    BY <2>1, InboxTypes
  <2> QED  BY <2>1, <2>2 DEF Hears
<1>14. ASSUME NEW m \in Messages, Handles(m) PROVE Hears'
  <2>1. client'.reading \in {"asked", "error"} /\ Consumes /\ world' = world
    BY <1>14, Zenon DEF Handles
  <2> QED  BY <1>2, <1>3, <1>6, <2>1
<1>15. ASSUME Restarting PROVE Hears'
  <2>1. client'.reading # "off" /\ world' = world /\ net'.inbox = <<>>
    BY <1>15, NewConnectionMakes DEF Restarting, RestoredAs
  <2>2. Len(net'.inbox) = 0
    BY <2>1
  <2> QED  BY <1>2, <1>3, <2>1, <2>2
<1>16. ASSUME ServerMoves PROVE Hears'
  <2>1. client' = client /\ crash' = crash
    BY <1>16, Zenon DEF ServerMoves, Answers, Streams, Babbles, Hastens, Loses, OnlyNet
  <2>2. world'.faults = world.faults
    BY <1>2, <1>16, Zenon DEF ServerMoves, Answers, Streams, Babbles, Hastens
  <2>3. ASSUME \E m \in Messages : Sends(net, m) /\ m.type # "garbage" PROVE Hears'
    BY <1>3, <1>5, <2>1, <2>2, <2>3 DEF Alive
  <2>4. ASSUME net'.inbox = net.inbox PROVE Hears'
    BY <1>3, <1>4, <2>1, <2>2, <2>4 DEF Alive
  <2>5. ASSUME NEW r \in Requests, NEW m \in Messages, Answers(r, m) PROVE Hears'
    <3>1. m.type # "garbage"
      BY <2>5 DEF Answers, Requests, Calls
    <3> QED  BY <2>3, <2>5, <3>1, Zenon DEF Answers
  <2>6. ASSUME NEW s \in Subs, NEW m \in Messages, Streams(s, m) PROVE Hears'
    <3>1. m.type # "garbage"
      BY <2>6 DEF Streams
    <3> QED  BY <2>3, <2>6, <3>1, Zenon DEF Streams
  <2>7. ASSUME NEW m \in Messages, Babbles(m) PROVE Hears'
    BY <2>2, <2>7 DEF Babbles, Hears
  <2>8. Hastens \/ Loses => Hears'
    BY <2>4 DEF Hastens, Loses
  <2> QED  BY <1>16, <2>5, <2>6, <2>7, <2>8, Zenon DEF ServerMoves
<1> QED
  BY <1>1, <1>7, <1>8, <1>9, <1>10, <1>11, <1>12, <1>13, <1>14, <1>15, <1>16, Zenon DEF Moves, Issues, ReadMoves

\* A client that has just been started keeps all of it up.
LEMMA InitAlways == Init => Always
<1> SUFFICES ASSUME Init PROVE Always
  OBVIOUS
<1>1. /\ client \in Clients /\ client.state = "RUNNING" /\ client.subs = {} /\ client.sent = {} /\ client.pending = <<>>
      /\ client.writing = "no" /\ client.reading = "asked" /\ client.timer = "armed" /\ client.pings = {}
  BY RunningMakes DEF Init
<1>2. /\ net \in Nets /\ net.requests = {} /\ net.inbox = <<>>
  BY NewConnectionMakes DEF Init
<1>3. /\ started = TRUE /\ listed = <<>> /\ orphans = 0 /\ nextId = 1 /\ world \in Worlds
      /\ held = [s \in Subs |-> "new"]
  BY DEF Init
<1>4. world \in AllWorlds
  <2>1. world \in [subs : SUBSET Subs, breaks : Nat, ids : 0..MaxId,
                   calls : SUBSET {"publish", "subscribe", "unsubscribe", "stop", "late calls"},
                   faults : SUBSET {"refusals", "garbage", "early answers", "freed reads"}]
    BY <1>3, ClientAssumption
  <2>2. 0..MaxId \in SUBSET Nat
    OBVIOUS
  <2>3. PICK ids \in SUBSET Nat : ids = 0..MaxId
    BY <2>2
  <2> QED  BY <2>1, <2>3 DEF AllWorlds
<1>5. Len(client.pending) = 0 /\ Len(net.inbox) = 0
  BY <1>1, <1>2
<1>6. Types
  BY <1>1, <1>2, <1>3, <1>4, EmptySeq DEF Types
<1>7. Numbered
  BY <1>1, <1>2, <1>5 DEF Numbered
<1>8. Loops
  BY <1>1, <1>3 DEF Loops
<1>9. Turns
  BY <1>1, <1>5 DEF Turns, IsPing
<1>10. Hears
  BY <1>1, <1>5 DEF Hears
<1> QED  BY <1>6, <1>7, <1>8, <1>9, <1>10 DEF Always

\* The invariant that every world keeps up: each step of the client, the server and
\* the network leaves the loops, the timer and the ids as they must be.
THEOREM InductiveInvariant == Spec => []Always
<1>1. Init => Always
  BY InitAlways
<1>2. Always /\ [Next]_vars => Always'
  BY TypesKept, NumberedKept, LoopsKept, TurnsKept, HearsKept DEF Always
<1> QED  BY <1>1, <1>2, PTL DEF Spec

\* Always a timer that is set, or one ping that is on its way: arm_ping_timer is called
\* again from the handler of every ping, and a restart begins with a timer that is set.
THEOREM PingsGoOn == Spec => []KeepAlive
<1>1. Always => KeepAlive
  <2> SUFFICES ASSUME Types, Turns, Alive, client.state = "RUNNING"
               PROVE  Cardinality(Pings(client)) = (IF client.timer = "off" THEN 1 ELSE 0)
    BY DEF Always, KeepAlive
  <2>1. CASE client.timer = "off"
    <3>1. PICK i \in 1..Len(client.pending) : \A j \in 1..Len(client.pending) : IsPing(j) <=> j = i
      BY <2>1 DEF Turns
    <3>2. Pings(client) = {i}
      BY <3>1 DEF Pings, IsPing
    <3> QED  BY <2>1, <3>2, FS_Singleton
  <2>2. CASE client.timer # "off"
    <3>1. Pings(client) = {}
      BY <2>2 DEF Turns, Pings, IsPing
    <3> QED  BY <2>2, <3>1, FS_EmptySet
  <2> QED  BY <2>1, <2>2
<1> QED  BY <1>1, InductiveInvariant, PTL

\* The types, and a running client that hears the server: ask_for_read is called
\* again after every frame that could be parsed (process_input, on_read).
THEOREM TypesAndReads == Spec => [](TypeOK /\ Listens)
<1>1. Always => Listens
  BY DEF Always, Hears, Listens
<1>2. ASSUME Types, Numbered PROVE TypeOK
  <2>1. /\ client.state \in ClientStates /\ client.subs \subseteq Subs
        /\ client.reading \in {"off", "asked", "message", "error", "aborted"}
        /\ client.timer \in {"off", "armed", "expired"} /\ client.writing \in {"no", "yes", "written"}
        /\ orphans \in Nat /\ listed \in Seq(Subs) /\ held \in [Subs -> {"new", "held", "dropped", "recalled"}]
    BY <1>2 DEF Types, Clients
  <2>2. started \in BOOLEAN
    BY <1>2 DEF Types
  <2>3. client.pings \subseteq 1..nextId
    <3>1. nextId \in Nat /\ \A p \in client.pings : p \in Nat /\ 0 < p /\ p < nextId
      BY <1>2 DEF Types, Clients, Numbered
    <3> QED  BY <3>1
  <2>4. ASSUME NEW r \in client.sent \cup ToSet(client.pending) \cup net.requests
        PROVE  /\ r.type \in {"publish", "subscribe", "unsubscribe", "ping"}
               /\ r.id < nextId /\ r.sub \in Subs \cup {NoSub}
    <3>1. \A x \in Requests : x.type \in {"publish", "subscribe", "unsubscribe", "ping"} /\ x.sub \in Subs \cup {NoSub}
      BY DEF Requests, Calls
    <3>2. CASE r \in client.sent \cup net.requests
      <4>1. r \in Requests
        BY <1>2, <3>2 DEF Types, Clients, Nets
      <4> QED  BY <1>2, <3>1, <3>2, <4>1 DEF Numbered
    <3>3. CASE r \in ToSet(client.pending)
      <4>1. PICK q \in Seq(Requests) : q = client.pending
        BY <1>2 DEF Types, Clients
      <4>2. DOMAIN q = 1..Len(q)
        BY LenProperties
      <4>3. \E i \in 1..Len(client.pending) : r = client.pending[i]
        BY <3>3, <4>1, <4>2 DEF ToSet
      <4> QED  BY <1>2, <3>1, <4>3, PendingTypes DEF Numbered
    <3> QED  BY <3>2, <3>3
  <2> QED  BY <2>1, <2>2, <2>3, <2>4 DEF TypeOK
<1>3. Always => TypeOK
  BY <1>2 DEF Always
<1> QED  BY <1>1, <1>3, InductiveInvariant, PTL

-----------------------------------------------------------------------------
(* Without faults, every request is where its id says.                     *)

\* The request that an answer answers.
LEMMA AsksMakes ==
  /\ \A m \in Messages : Asks(m).id = m.id /\ Asks(m).type = m.type /\ Asks(m).sub = m.sub
  /\ \A m \in Messages, r \in Requests : m.type = r.type /\ m.id = r.id /\ m.sub = r.sub => Asks(m) = r
BY DEF Asks, Request, Messages, Requests

\* What moves nothing of the books leaves them as they are.
LEMMA BookedSame ==
  ASSUME Booked, client'.sent = client.sent, client'.pending = client.pending, client'.pings = client.pings,
         net'.requests = net.requests, net'.inbox = net.inbox, net'.early = net.early,
         net'.up /\ client'.state = "RUNNING" => net.up /\ client.state = "RUNNING"
  PROVE  Booked'
<1>1. Queued'
  BY DEF Booked, Queued, IsPing, IsAnswer, IsPong
<1>2. Known'
  BY DEF Booked, Known, IsAnswer, IsPong
<1>3. Once'
  BY DEF Booked, Once, IsAnswer, IsPong
<1>4. Covered'
  BY DEF Booked, Covered, IsAnswer
<1> QED  BY <1>1, <1>2, <1>3, <1>4 DEF Booked

\* Every id in the books was handed out before.
LEMMA BookedIds ==
  ASSUME Types, Numbered, Booked
  PROVE  /\ nextId \in Nat
         /\ \A i \in 1..Len(client.pending) : client.pending[i].id \in Nat /\ client.pending[i].id < nextId
         /\ \A q \in client.sent \cup net.requests : q.id \in Nat /\ q.id < nextId
         /\ \A k \in 1..Len(net.inbox) :
              IsAnswer(k) \/ IsPong(k) => net.inbox[k].id \in Nat /\ net.inbox[k].id < nextId
<1>1. nextId \in Nat /\ \A i \in 1..Len(client.pending) : client.pending[i].id \in Nat /\ client.pending[i].id < nextId
  BY PendingTypes DEF Types, Numbered
<1>2. \A q \in client.sent \cup net.requests : q.id \in Nat /\ q.id < nextId
  BY DEF Types, Clients, Nets, Requests, Numbered
<1>3. ASSUME NEW k \in 1..Len(net.inbox), IsAnswer(k) \/ IsPong(k)
      PROVE  net.inbox[k].id \in Nat /\ net.inbox[k].id < nextId
  <2>1. net.inbox[k] \in Messages /\ net.inbox[k].id \in Nat
    BY InboxTypes
  <2>2. CASE IsAnswer(k)
    <3>1. Asks(net.inbox[k]) \in client.sent
      BY <2>2 DEF Booked, Known
    <3> QED  BY <1>2, <2>1, <3>1, AsksMakes
  <2>3. CASE IsPong(k)
    <3>1. net.inbox[k].id \in client.pings
      BY <2>3 DEF Booked, Known
    <3> QED  BY <2>1, <3>1 DEF Numbered
  <2> QED  BY <1>3, <2>2, <2>3
<1> QED  BY <1>1, <1>2, <1>3

\* A new request, or a new ping, is the youngest.
LEMMA YoungestQueued ==
  ASSUME Types, Numbered, Booked, NEW r \in Requests, r.id = nextId,
         client'.pending = Append(client.pending, r),
         IF r.type = "ping" THEN r.id \in client'.pings ELSE r \in client'.sent,
         client.pings \subseteq client'.pings, client.sent \subseteq client'.sent,
         net'.requests = net.requests, net'.inbox = net.inbox
  PROVE  /\ Queued'
         /\ \A x \in client'.sent : (\E i \in 1..Len(client.pending) : client.pending[i] = x) \/ x = r
                                      => \E i \in 1..Len(client'.pending) : client'.pending[i] = x
<1>1. PICK n \in Nat :
        /\ n = Len(client.pending) /\ Len(client'.pending) = n + 1 /\ client'.pending[n + 1] = r
        /\ \A k \in 1..n : client'.pending[k] = client.pending[k]
  BY PendingGrows
<1>2. \A i \in 1..n + 1 : i \in 1..n \/ i = n + 1
  OBVIOUS
<1>3. n + 1 \in 1..n + 1 /\ \A i \in 1..n : i \in 1..n + 1
  OBVIOUS
<1>4. \A i \in 1..n + 1 : IF client'.pending[i].type = "ping" THEN client'.pending[i].id \in client'.pings
                          ELSE client'.pending[i] \in client'.sent
  <2>1. \A i \in 1..n : IF client.pending[i].type = "ping" THEN client.pending[i].id \in client.pings
                        ELSE client.pending[i] \in client.sent
    BY <1>1 DEF Booked, Queued, IsPing
  <2> QED  BY <1>1, <1>2, <2>1
<1>5. \A i, j \in 1..n + 1 : i < j => client'.pending[i].id < client'.pending[j].id
  <2> SUFFICES ASSUME NEW i \in 1..n + 1, NEW j \in 1..n + 1, i < j
               PROVE  client'.pending[i].id < client'.pending[j].id
    OBVIOUS
  <2>1. i \in 1..n
    OBVIOUS
  <2>2. CASE j \in 1..n
    BY <1>1, <2>1, <2>2 DEF Booked, Queued
  <2>3. CASE j = n + 1
    BY <1>1, <2>1, <2>3, BookedIds
  <2> QED  BY <1>2, <2>2, <2>3
<1>6. \A q \in net'.requests : \A i \in 1..n + 1 : q.id < client'.pending[i].id
  <2> SUFFICES ASSUME NEW q \in net.requests, NEW i \in 1..n + 1 PROVE q.id < client'.pending[i].id
    OBVIOUS
  <2>1. CASE i \in 1..n
    BY <1>1, <2>1 DEF Booked, Queued
  <2>2. CASE i = n + 1
    BY <1>1, <2>2, BookedIds
  <2> QED  BY <1>2, <2>1, <2>2
<1>7. \A k \in 1..Len(net'.inbox) : \A i \in 1..n + 1 :
        IsAnswer(k)' \/ IsPong(k)' => net'.inbox[k].id < client'.pending[i].id
  <2> SUFFICES ASSUME NEW k \in 1..Len(net.inbox), NEW i \in 1..n + 1, IsAnswer(k) \/ IsPong(k)
               PROVE  net.inbox[k].id < client'.pending[i].id
    BY DEF IsAnswer, IsPong
  <2>1. CASE i \in 1..n
    BY <1>1, <2>1 DEF Booked, Queued
  <2>2. CASE i = n + 1
    BY <1>1, <2>2, BookedIds
  <2> QED  BY <1>2, <2>1, <2>2
<1>8. Queued'
  BY <1>1, <1>4, <1>5, <1>6, <1>7 DEF Queued, IsPing
<1> QED  BY <1>1, <1>3, <1>8

\* A call puts a request into the books.
LEMMA PushesBooked ==
  ASSUME Types, Numbered, Booked, NEW r \in Requests, Pushes(r)
  PROVE  Booked'
<1>1. /\ r.id = nextId /\ r.type # "ping" /\ client'.sent = client.sent \cup {r} /\ client'.state = client.state
      /\ client'.pending = Append(client.pending, r) /\ client'.pings = client.pings /\ net' = net
  BY DEF Pushes
<1>2. Queued' /\ \A x \in client'.sent : (\E i \in 1..Len(client.pending) : client.pending[i] = x) \/ x = r
                                           => \E i \in 1..Len(client'.pending) : client'.pending[i] = x
  BY <1>1, YoungestQueued
<1>3. Known'
  <2>1. \A q, x \in client'.sent : q.id = x.id => q = x
    <3> SUFFICES ASSUME NEW q \in client'.sent, NEW x \in client'.sent, q.id = x.id PROVE q = x
      OBVIOUS
    <3>1. \A y \in client.sent : y.id # r.id
      BY <1>1, BookedIds
    <3>2. CASE q \in client.sent /\ x \in client.sent
      BY <3>2 DEF Booked, Known
    <3> QED  BY <1>1, <3>1, <3>2
  <2> QED  BY <1>1, <2>1 DEF Booked, Known, IsAnswer, IsPong
<1>4. Once'
  BY <1>1 DEF Booked, Once, IsAnswer, IsPong
<1>5. Covered'
  <2> SUFFICES ASSUME net.up, client.state = "RUNNING", NEW x \in client'.sent
               PROVE  \/ x \in net.requests
                      \/ \E i \in 1..Len(client'.pending) : client'.pending[i] = x
                      \/ \E k \in 1..Len(net.inbox) : IsAnswer(k) /\ Asks(net.inbox[k]) = x
    BY <1>1 DEF Covered, IsAnswer
  <2>1. CASE x = r
    BY <1>2, <2>1
  <2>2. CASE x \in client.sent
    BY <1>2, <2>2 DEF Booked, Covered
  <2> QED  BY <1>1, <2>1, <2>2
<1> QED  BY <1>2, <1>3, <1>4, <1>5 DEF Booked

\* The ping handler puts a ping into the books.
LEMMA PingingBooked ==
  ASSUME Types, Numbered, Booked, Pinging
  PROVE  Booked'
<1>1. PICK r \in Requests : r.type = "ping" /\ r.id = nextId /\ client'.pending = Append(client.pending, r)
  BY DEF Pinging, Pinged
<1>2. /\ client'.sent = client.sent /\ client'.state = client.state /\ client'.pings = client.pings \cup {nextId}
      /\ net' = net
  BY DEF Pinging, Pinged
<1>3. Queued' /\ \A x \in client'.sent : (\E i \in 1..Len(client.pending) : client.pending[i] = x) \/ x = r
                                           => \E i \in 1..Len(client'.pending) : client'.pending[i] = x
  BY <1>1, <1>2, YoungestQueued
<1>4. Known'
  BY <1>2 DEF Booked, Known, IsAnswer, IsPong
<1>5. Once'
  BY <1>2 DEF Booked, Once, IsAnswer, IsPong
<1>6. Covered'
  BY <1>2, <1>3 DEF Booked, Covered, IsAnswer
<1> QED  BY <1>3, <1>4, <1>5, <1>6 DEF Booked

\* A write that ends takes the oldest request to the server, or nowhere.
LEMMA WrittenBooked ==
  ASSUME Types, Loops, Numbered, Booked, NEW r \in Requests, NEW ok \in BOOLEAN, Written(r, ok)
  PROVE  Booked'
<1>1. /\ client.pending # <<>> /\ r = client.pending[1] /\ client'.pending = Tail(client.pending)
      /\ client'.state = client.state /\ client'.pings = client.pings
      /\ (ok => client'.sent = client.sent) /\ (~ok => client'.sent = {x \in client.sent : x.id # r.id})
      /\ (~ok => ~net.up)
  BY Zenon DEF Written
<1>2. PICK n \in Nat :
        /\ n = Len(client.pending) /\ n > 0 /\ Len(client'.pending) = n - 1
        /\ \A k \in 1..n - 1 : client'.pending[k] = client.pending[k + 1] /\ k + 1 \in 1..n
  BY <1>1, PendingShrinks
<1>3. 1 \in 1..n /\ \A i \in 1..n : i = 1 \/ (i - 1 \in 1..n - 1 /\ (i - 1) + 1 = i)
  BY <1>2
<1>4. IF r.type = "ping" THEN r.id \in client.pings ELSE r \in client.sent
  BY <1>1, <1>2, <1>3 DEF Booked, Queued, IsPing
<1>5. \A k \in 1..n - 1 : r.id < client'.pending[k].id /\ client'.pending[k].id \in Nat
  BY <1>1, <1>2, <1>3, PendingTypes DEF Booked, Queued
<1>6. r.id \in Nat /\ (\A q \in net.requests : q.id \in Nat /\ q.id < r.id)
      /\ \A k \in 1..Len(net.inbox) : IsAnswer(k) \/ IsPong(k) => net.inbox[k].id \in Nat /\ net.inbox[k].id < r.id
  BY <1>1, <1>2, <1>3, BookedIds DEF Booked, Queued
<1>7. client'.sent \subseteq client.sent /\ \A x \in client.sent : x.id # r.id => x \in client'.sent
  BY <1>1
<1>8. \A k \in 1..n - 1 :
        IF client'.pending[k].type = "ping" THEN client'.pending[k].id \in client'.pings ELSE client'.pending[k] \in client'.sent
  <2> SUFFICES ASSUME NEW k \in 1..n - 1
               PROVE  IF client'.pending[k].type = "ping" THEN client'.pending[k].id \in client'.pings
                      ELSE client'.pending[k] \in client'.sent
    OBVIOUS
  <2>1. client'.pending[k] = client.pending[k + 1] /\ k + 1 \in 1..n
    BY <1>2
  <2>2. IF client.pending[k + 1].type = "ping" THEN client.pending[k + 1].id \in client.pings
        ELSE client.pending[k + 1] \in client.sent
    BY <1>2, <2>1 DEF Booked, Queued, IsPing
  <2>3. client'.pending[k].id # r.id
    BY <1>5, <1>6
  <2> QED  BY <1>1, <1>7, <2>1, <2>2, <2>3
<1>9. \A i, j \in 1..n - 1 : i < j => client'.pending[i].id < client'.pending[j].id
  <2> SUFFICES ASSUME NEW i \in 1..n - 1, NEW j \in 1..n - 1, i < j
               PROVE  client'.pending[i].id < client'.pending[j].id
    OBVIOUS
  <2>1. i + 1 \in 1..n /\ j + 1 \in 1..n /\ i + 1 < j + 1
    BY <1>2
  <2> QED  BY <1>2, <2>1 DEF Booked, Queued
<1>10. \A q \in net.requests : \A i \in 1..n - 1 : q.id < client'.pending[i].id
  BY <1>2 DEF Booked, Queued
<1>11. \A k \in 1..Len(net.inbox) : \A i \in 1..n - 1 :
         IsAnswer(k) \/ IsPong(k) => net.inbox[k].id < client'.pending[i].id
  BY <1>2 DEF Booked, Queued
<1>12. ~net.early /\ (\A x \in client'.sent : x.type # "ping") /\ \A q, x \in client'.sent : q.id = x.id => q = x
  BY <1>7 DEF Booked, Known
<1>13. net.requests \subseteq client'.sent
  BY <1>6, <1>7 DEF Booked, Known
<1>14. \A k \in 1..Len(net.inbox) : IsAnswer(k) => Asks(net.inbox[k]) \in client'.sent
  <2> SUFFICES ASSUME NEW k \in 1..Len(net.inbox), IsAnswer(k) PROVE Asks(net.inbox[k]) \in client'.sent
    OBVIOUS
  <2>1. Asks(net.inbox[k]) \in client.sent
    BY DEF Booked, Known
  <2>2. Asks(net.inbox[k]).id = net.inbox[k].id
    BY AsksMakes, InboxTypes
  <2> QED  BY <1>6, <1>7, <2>1, <2>2
<1>15. ASSUME net' = net PROVE Booked'
  <2>1. Queued'
    BY <1>2, <1>8, <1>9, <1>10, <1>11, <1>15 DEF Queued, IsPing, IsAnswer, IsPong
  <2>2. Known'
    BY <1>1, <1>12, <1>13, <1>14, <1>15 DEF Booked, Known, IsAnswer, IsPong
  <2>3. Once'
    BY <1>15 DEF Booked, Once, IsAnswer, IsPong
  <2>4. ASSUME net.up PROVE FALSE
    <3>1. ok
      BY <1>1, <2>4
    <3>2. net' # net \/ Takes(r) \/ Echoes(r)
      BY <2>4, <3>1, WrittenNet, Zenon
    <3>3. Takes(r) => r \in net.requests
      BY <1>15 DEF Takes, Booked, Known
    <3>4. ~Takes(r)
      BY <1>6, <3>3
    <3>5. ASSUME NEW m \in Messages, Sends(net, m) PROVE FALSE
      <4>1. PICK l \in Nat : l = Len(net.inbox) /\ Len(net'.inbox) = l + 1
        BY <3>5, InboxGrows
      <4> QED  BY <1>15, <4>1
    <3> QED  BY <1>15, <3>2, <3>4, <3>5, Zenon DEF Echoes
  <2>5. Covered'
    BY <1>15, <2>4 DEF Covered
  <2> QED  BY <2>1, <2>2, <2>3, <2>5 DEF Booked
<1>16. ASSUME net.up, r.type # "ping", Takes(r) PROVE Booked'
  <2>1. /\ net'.requests = net.requests \cup {r} /\ ~net'.early /\ net'.inbox = net.inbox
        /\ client'.sent = client.sent /\ r \in client.sent
    BY <1>1, <1>4, <1>12, <1>16 DEF Takes
  <2>2. \A q \in net'.requests : \A i \in 1..n - 1 : q.id < client'.pending[i].id
    BY <1>5, <1>10, <2>1
  <2>3. Queued'
    BY <1>2, <1>8, <1>9, <1>11, <2>1, <2>2 DEF Queued, IsPing, IsAnswer, IsPong
  <2>4. \A k \in 1..Len(net.inbox) : IsAnswer(k) => Asks(net.inbox[k]) # r
    BY <1>6, AsksMakes, InboxTypes
  <2>5. Known'
    BY <1>1, <1>12, <1>13, <1>14, <2>1, <2>4 DEF Booked, Known, IsAnswer, IsPong
  <2>6. Once'
    BY <2>1 DEF Booked, Once, IsAnswer, IsPong
  <2>7. Covered'
    <3> SUFFICES ASSUME client.state = "RUNNING", NEW x \in client.sent, x # r
                 PROVE  \/ x \in net.requests
                        \/ \E i \in 1..n - 1 : client'.pending[i] = x
                        \/ \E k \in 1..Len(net.inbox) : IsAnswer(k) /\ Asks(net.inbox[k]) = x
      BY <1>1, <1>2, <2>1 DEF Covered, IsAnswer
    <3>1. CASE \E i \in 1..n : client.pending[i] = x
      BY <1>1, <1>2, <1>3, <3>1
    <3>2. CASE ~\E i \in 1..n : client.pending[i] = x
      BY <1>2, <1>16, <3>2 DEF Booked, Covered
    <3> QED  BY <3>1, <3>2
  <2> QED  BY <2>3, <2>5, <2>6, <2>7 DEF Booked
<1>17. ASSUME net.up, r.type = "ping", Echoes(r) PROVE Booked'
  <2>1. PICK m \in Messages :
          /\ Sends(net, m) /\ m.type = "pong" /\ m.id = r.id
          /\ net'.requests = net.requests /\ net'.streaming = net.streaming
    BY <1>17 DEF Echoes
  <2>2. PICK l \in Nat :
           /\ l = Len(net.inbox) /\ Len(net'.inbox) = l + 1 /\ net'.inbox[l + 1] = m
           /\ \A k \in 1..l : net'.inbox[k] = net.inbox[k]
    BY <2>1, InboxGrows
  <2>3. \A k \in 1..l + 1 : k \in 1..l \/ k = l + 1
    OBVIOUS
  <2>4. client'.sent = client.sent /\ ~net'.early /\ m.type \notin Calls /\ r.id \in client.pings
    BY <1>1, <1>4, <1>12, <1>17, <2>1 DEF Sends, Calls
  <2>5. \A k \in 1..l + 1 : \A i \in 1..n - 1 :
          IsAnswer(k)' \/ IsPong(k)' => net'.inbox[k].id < client'.pending[i].id
    BY <1>5, <1>11, <2>1, <2>2, <2>3 DEF IsAnswer, IsPong
  <2>6. Queued'
    BY <1>2, <1>8, <1>9, <1>10, <2>1, <2>2, <2>5 DEF Queued, IsPing
  <2>7. \A k \in 1..l + 1 :
       /\ net'.inbox[k].type \in Calls \cup {"pong", "data"}
       /\ IsAnswer(k)' => Asks(net'.inbox[k]) \in client'.sent /\ Asks(net'.inbox[k]) \notin net'.requests
       /\ IsPong(k)' => net'.inbox[k].id \in client'.pings
       /\ net'.inbox[k].type = "subscribe" => net'.inbox[k].ok
    <3> SUFFICES ASSUME NEW k \in 1..l + 1
                 PROVE  /\ net'.inbox[k].type \in Calls \cup {"pong", "data"}
                        /\ IsAnswer(k)' => Asks(net'.inbox[k]) \in client'.sent /\ Asks(net'.inbox[k]) \notin net'.requests
                        /\ IsPong(k)' => net'.inbox[k].id \in client'.pings
                        /\ net'.inbox[k].type = "subscribe" => net'.inbox[k].ok
      OBVIOUS
    <3>1. CASE k = l + 1
      BY <1>1, <2>1, <2>2, <2>4, <3>1 DEF IsAnswer
    <3>2. CASE k \in 1..l
      BY <1>1, <2>1, <2>2, <2>4, <3>2 DEF Booked, Known, IsAnswer, IsPong
    <3> QED  BY <2>3, <3>1, <3>2
  <2>8. Known'
    BY <1>12, <1>13, <2>1, <2>2, <2>4, <2>7 DEF Known
  <2>9. \A j \in 1..l : IsPong(j) => net.inbox[j].id # r.id
    BY <1>6, <2>2
  <2>10. Once'
    <3> SUFFICES ASSUME NEW j \in 1..l + 1, NEW k \in 1..l + 1, j # k,
                        (IsAnswer(j)' /\ IsAnswer(k)') \/ (IsPong(j)' /\ IsPong(k)')
                 PROVE  net'.inbox[j].id # net'.inbox[k].id
      BY <2>2 DEF Once
    <3>1. CASE j \in 1..l /\ k \in 1..l
      BY <2>2, <3>1 DEF Booked, Once, IsAnswer, IsPong
    <3>2. CASE j \in 1..l /\ k = l + 1
      BY <2>1, <2>2, <2>4, <2>9, <3>2 DEF IsAnswer, IsPong
    <3>3. CASE j = l + 1 /\ k \in 1..l
      BY <2>1, <2>2, <2>4, <2>9, <3>3 DEF IsAnswer, IsPong
    <3> QED  BY <2>3, <3>1, <3>2, <3>3
  <2>11. Covered'
    <3> SUFFICES ASSUME client.state = "RUNNING", NEW x \in client.sent
                 PROVE  \/ x \in net.requests
                        \/ \E i \in 1..n - 1 : client'.pending[i] = x
                        \/ \E k \in 1..l + 1 : IsAnswer(k)' /\ Asks(net'.inbox[k]) = x
      BY <1>1, <1>2, <2>1, <2>2, <2>4 DEF Covered
    <3>1. x # r
      BY <1>17 DEF Booked, Known
    <3>2. CASE \E i \in 1..n : client.pending[i] = x
      BY <1>1, <1>2, <1>3, <3>1, <3>2
    <3>3. CASE \E k \in 1..l : IsAnswer(k) /\ Asks(net.inbox[k]) = x
      <4>1. PICK k \in 1..l : IsAnswer(k) /\ Asks(net.inbox[k]) = x
        BY <3>3
      <4>2. k \in 1..l + 1 /\ IsAnswer(k)' /\ Asks(net'.inbox[k]) = x
        BY <2>2, <4>1 DEF IsAnswer
      <4> QED  BY <4>2
    <3> QED  BY <1>2, <1>17, <2>2, <3>2, <3>3 DEF Booked, Covered
  <2> QED  BY <2>6, <2>8, <2>10, <2>11 DEF Booked
<1> QED  BY <1>15, <1>16, <1>17, WrittenNet, Zenon

\* A pong that was read takes its ping out of the books.
LEMMA PongedBooked ==
  ASSUME Types, Booked, Ponged
  PROVE  Booked'
<1>1. /\ Consumes /\ net.inbox[1].type = "pong" /\ net.inbox[1].id \in client.pings /\ client'.state = client.state
      /\ client'.sent = client.sent /\ client'.pending = client.pending /\ client'.pings = client.pings \ {net.inbox[1].id}
      /\ net'.up = net.up /\ net'.requests = net.requests /\ net'.early = net.early
  BY DEF Ponged, SameRequests, Consumes
<1>2. PICK n \in Nat :
        /\ n = Len(net.inbox) /\ n > 0 /\ Len(net'.inbox) = n - 1
        /\ \A k \in 1..n - 1 : net'.inbox[k] = net.inbox[k + 1] /\ k + 1 \in 1..n
  BY <1>1, InboxShrinks
<1>3. 1 \in 1..n /\ (\A i \in 1..n : i = 1 \/ (i - 1 \in 1..n - 1 /\ (i - 1) + 1 = i)) /\ \A k \in 1..n - 1 : k + 1 # 1
  BY <1>2
<1>4. \A i \in 1..Len(client.pending) : client.pending[i].id # net.inbox[1].id
  <2>1. \A i \in 1..Len(client.pending) : net.inbox[1].id < client.pending[i].id
    BY <1>1, <1>2, <1>3 DEF Booked, Queued, IsPong
  <2>2. net.inbox[1].id \in Nat
    BY <1>2, <1>3, InboxTypes
  <2>3. \A i \in 1..Len(client.pending) : client.pending[i].id \in Nat
    BY PendingTypes
  <2> QED  BY <2>1, <2>2, <2>3
<1>5. Queued'
  <2>1. \A i \in 1..Len(client.pending) :
          IF client.pending[i].type = "ping" THEN client.pending[i].id \in client'.pings ELSE client.pending[i] \in client.sent
    BY <1>1, <1>4 DEF Booked, Queued, IsPing
  <2>2. \A k \in 1..n - 1 : \A i \in 1..Len(client.pending) :
          IsAnswer(k)' \/ IsPong(k)' => net'.inbox[k].id < client.pending[i].id
    BY <1>2 DEF Booked, Queued, IsAnswer, IsPong
  <2> QED  BY <1>1, <1>2, <2>1, <2>2 DEF Booked, Queued, IsPing
<1>6. Known'
  <2>1. ASSUME NEW k \in 1..n - 1
        PROVE  /\ net'.inbox[k].type \in Calls \cup {"pong", "data"}
               /\ IsAnswer(k)' => Asks(net'.inbox[k]) \in client'.sent /\ Asks(net'.inbox[k]) \notin net'.requests
               /\ IsPong(k)' => net'.inbox[k].id \in client'.pings
               /\ net'.inbox[k].type = "subscribe" => net'.inbox[k].ok
    <3>1. net'.inbox[k] = net.inbox[k + 1] /\ k + 1 \in 1..n /\ k + 1 # 1
      BY <1>2, <1>3
    <3>2. IsPong(k + 1) => net.inbox[k + 1].id # net.inbox[1].id
      BY <1>1, <1>2, <1>3, <3>1 DEF Booked, Once, IsPong
    <3> QED  BY <1>1, <1>2, <3>1, <3>2 DEF Booked, Known, IsAnswer, IsPong
  <2> QED  BY <1>1, <1>2, <2>1 DEF Booked, Known
<1>7. Once'
  <2> SUFFICES ASSUME NEW j \in 1..n - 1, NEW k \in 1..n - 1, j # k,
                      (IsAnswer(j)' /\ IsAnswer(k)') \/ (IsPong(j)' /\ IsPong(k)')
               PROVE  net'.inbox[j].id # net'.inbox[k].id
    BY <1>2 DEF Once
  <2>1. j + 1 \in 1..n /\ k + 1 \in 1..n /\ j + 1 # k + 1
    BY <1>2
  <2> QED  BY <1>2, <2>1 DEF Booked, Once, IsAnswer, IsPong
<1>8. Covered'
  <2> SUFFICES ASSUME net.up, client.state = "RUNNING", NEW x \in client.sent
               PROVE  \/ x \in net.requests
                      \/ \E i \in 1..Len(client.pending) : client.pending[i] = x
                      \/ \E k \in 1..n - 1 : IsAnswer(k)' /\ Asks(net'.inbox[k]) = x
    BY <1>1, <1>2 DEF Covered
  <2>1. ASSUME NEW k \in 1..n, IsAnswer(k), Asks(net.inbox[k]) = x
        PROVE  \E j \in 1..n - 1 : IsAnswer(j)' /\ Asks(net'.inbox[j]) = x
    <3>1. k # 1
      BY <1>1, <2>1 DEF IsAnswer, Calls
    <3>2. k - 1 \in 1..n - 1 /\ (k - 1) + 1 = k
      BY <1>3, <3>1
    <3>3. net'.inbox[k - 1] = net.inbox[k]
      BY <1>2, <3>2
    <3> QED  BY <2>1, <3>2, <3>3 DEF IsAnswer
  <2> QED  BY <1>2, <2>1 DEF Booked, Covered
<1> QED  BY <1>5, <1>6, <1>7, <1>8 DEF Booked

\* An answer that was read takes its request out of the books; data takes nothing.
LEMMA HandlesBooked ==
  ASSUME Types, Loops, Booked, NEW m \in Messages, Handles(m)
  PROVE  Booked'
<1>1. /\ Consumes /\ m = net.inbox[1] /\ client'.state = client.state /\ client'.pending = client.pending
      /\ client'.pings = client.pings
      /\ (m.type \in {"data", "error"} => client'.sent = client.sent)
      /\ (m.type \notin {"data", "error"} => client'.sent = {r \in client.sent : r.id # m.id})
      /\ Alive /\ client.reading = "message"
  BY Zenon DEF Handles
<1>0. net'.up = net.up /\ net'.requests = net.requests /\ net'.early = net.early /\ m.type # "pong"
  BY <1>1 DEF Consumes, Loops
<1>2. PICK n \in Nat :
        /\ n = Len(net.inbox) /\ n > 0 /\ Len(net'.inbox) = n - 1
        /\ \A k \in 1..n - 1 : net'.inbox[k] = net.inbox[k + 1] /\ k + 1 \in 1..n
  BY <1>1, InboxShrinks
<1>3. 1 \in 1..n /\ (\A i \in 1..n : i = 1 \/ (i - 1 \in 1..n - 1 /\ (i - 1) + 1 = i)) /\ \A k \in 1..n - 1 : k + 1 # 1
  BY <1>2
<1>4. m.type \in Calls \cup {"data"}
  BY <1>0, <1>1, <1>2, <1>3 DEF Booked, Known
<1>5. client'.sent \subseteq client.sent /\ \A r \in client.sent : r.id # m.id \/ m.type = "data" => r \in client'.sent
  BY <1>1
<1>6. m.type # "data" => Asks(m) \in client.sent /\ Asks(m).id = m.id /\ Asks(m) \notin net.requests /\ IsAnswer(1)
  BY <1>1, <1>2, <1>3, <1>4, AsksMakes DEF Booked, Known, IsAnswer
<1>7. \A i \in 1..Len(client.pending) : m.type # "data" => client.pending[i].id # m.id
  <2>1. \A i \in 1..Len(client.pending) : m.type # "data" => m.id < client.pending[i].id
    BY <1>1, <1>2, <1>3, <1>6 DEF Booked, Queued
  <2>2. m.id \in Nat /\ \A i \in 1..Len(client.pending) : client.pending[i].id \in Nat
    BY PendingTypes DEF Messages
  <2> QED  BY <2>1, <2>2
<1>8. Queued'
  <2>1. \A i \in 1..Len(client.pending) :
          IF client.pending[i].type = "ping" THEN client.pending[i].id \in client.pings ELSE client.pending[i] \in client'.sent
    BY <1>5, <1>7 DEF Booked, Queued, IsPing
  <2>2. \A k \in 1..n - 1 : \A i \in 1..Len(client.pending) :
          IsAnswer(k)' \/ IsPong(k)' => net'.inbox[k].id < client.pending[i].id
    BY <1>2 DEF Booked, Queued, IsAnswer, IsPong
  <2> QED  BY <1>0, <1>1, <1>2, <2>1, <2>2 DEF Booked, Queued, IsPing
<1>9. Known'
  <2>1. ASSUME NEW k \in 1..n - 1
        PROVE  /\ net'.inbox[k].type \in Calls \cup {"pong", "data"}
               /\ IsAnswer(k)' => Asks(net'.inbox[k]) \in client'.sent /\ Asks(net'.inbox[k]) \notin net'.requests
               /\ IsPong(k)' => net'.inbox[k].id \in client'.pings
               /\ net'.inbox[k].type = "subscribe" => net'.inbox[k].ok
    <3>1. net'.inbox[k] = net.inbox[k + 1] /\ k + 1 \in 1..n /\ k + 1 # 1
      BY <1>2, <1>3
    <3>2. IsAnswer(k + 1) /\ m.type # "data" => net.inbox[k + 1].id # m.id
      BY <1>1, <1>2, <1>3, <1>6, <3>1 DEF Booked, Once
    <3>3. Asks(net.inbox[k + 1]).id = net.inbox[k + 1].id
      BY <1>2, <3>1, InboxTypes, AsksMakes
    <3>4. IsAnswer(k + 1) => Asks(net.inbox[k + 1]) \in client.sent /\ Asks(net.inbox[k + 1]) \notin net.requests
      BY <1>2, <3>1 DEF Booked, Known
    <3>5. IsAnswer(k + 1) => Asks(net.inbox[k + 1]) \in client'.sent
      BY <1>5, <3>2, <3>3, <3>4
    <3>6. /\ net.inbox[k + 1].type \in Calls \cup {"pong", "data"}
          /\ IsPong(k + 1) => net.inbox[k + 1].id \in client.pings
          /\ net.inbox[k + 1].type = "subscribe" => net.inbox[k + 1].ok
      BY <1>2, <3>1 DEF Booked, Known
    <3> QED  BY <1>0, <1>1, <3>1, <3>4, <3>5, <3>6 DEF IsAnswer, IsPong
  <2>2. net.requests \subseteq client'.sent
    <3> SUFFICES ASSUME NEW q \in net.requests PROVE q \in client'.sent
      OBVIOUS
    <3>1. q \in client.sent
      BY DEF Booked, Known
    <3>2. m.type # "data" => q.id # m.id
      BY <1>6, <3>1 DEF Booked, Known
    <3> QED  BY <1>5, <3>1, <3>2
  <2> QED  BY <1>0, <1>2, <1>5, <2>1, <2>2 DEF Booked, Known
<1>10. Once'
  <2> SUFFICES ASSUME NEW j \in 1..n - 1, NEW k \in 1..n - 1, j # k,
                      (IsAnswer(j)' /\ IsAnswer(k)') \/ (IsPong(j)' /\ IsPong(k)')
               PROVE  net'.inbox[j].id # net'.inbox[k].id
    BY <1>2 DEF Once
  <2>1. j + 1 \in 1..n /\ k + 1 \in 1..n /\ j + 1 # k + 1
    BY <1>2
  <2> QED  BY <1>2, <2>1 DEF Booked, Once, IsAnswer, IsPong
<1>11. Covered'
  <2> SUFFICES ASSUME net.up, client.state = "RUNNING", NEW x \in client'.sent
               PROVE  \/ x \in net.requests
                      \/ \E i \in 1..Len(client.pending) : client.pending[i] = x
                      \/ \E k \in 1..n - 1 : IsAnswer(k)' /\ Asks(net'.inbox[k]) = x
    BY <1>0, <1>1, <1>2 DEF Covered
  <2>1. ASSUME NEW k \in 1..n, IsAnswer(k), Asks(net.inbox[k]) = x
        PROVE  \E j \in 1..n - 1 : IsAnswer(j)' /\ Asks(net'.inbox[j]) = x
    <3>1. k # 1
      <4>1. m.type = "data" => ~IsAnswer(1)
        BY <1>1 DEF IsAnswer, Calls
      <4>2. m.type # "data" => x.id # m.id
        BY <1>1, <1>4 DEF Calls
      <4> QED  BY <1>1, <1>6, <2>1, <4>1, <4>2
    <3>2. k - 1 \in 1..n - 1 /\ (k - 1) + 1 = k
      BY <1>3, <3>1
    <3>3. net'.inbox[k - 1] = net.inbox[k]
      BY <1>2, <3>2
    <3> QED  BY <2>1, <3>2, <3>3 DEF IsAnswer
  <2> QED  BY <1>2, <1>5, <2>1 DEF Booked, Covered
<1> QED  BY <1>8, <1>9, <1>10, <1>11 DEF Booked

\* A frame on its way to the client: an answer that was not there, or data.
LEMMA SentBooked ==
  ASSUME Types, Booked, NEW m \in Messages, Sends(net, m), OnlyNet,
         \/ /\ m.type = "data" /\ net'.requests = net.requests
         \/ /\ m.type \in Calls /\ Asks(m) \in net.requests /\ net'.requests = net.requests \ {Asks(m)}
            /\ (m.type = "subscribe" => m.ok)
  PROVE  Booked'
<1>1. PICK n \in Nat :
         /\ n = Len(net.inbox) /\ Len(net'.inbox) = n + 1 /\ net'.inbox[n + 1] = m
         /\ \A k \in 1..n : net'.inbox[k] = net.inbox[k]
  BY InboxGrows
<1>2. (\A k \in 1..n + 1 : k \in 1..n \/ k = n + 1) /\ n + 1 \in 1..n + 1 /\ \A k \in 1..n : k \in 1..n + 1
  OBVIOUS
<1>3. client' = client /\ net'.up = net.up /\ net'.early = net.early
  BY DEF OnlyNet, Sends
<1>4. net'.requests \subseteq net.requests /\ m.type \in Calls \cup {"data"} /\ m.type # "pong"
      /\ (m.type \in Calls => Asks(m) \in net.requests /\ Asks(m) \in client.sent /\ Asks(m) \notin net'.requests)
  BY DEF Calls, Booked, Known
<1>5. Asks(m).id = m.id
  BY AsksMakes
<1>6. Queued'
  <2>1. \A k \in 1..n + 1 : \A i \in 1..Len(client.pending) :
          IsAnswer(k)' \/ IsPong(k)' => net'.inbox[k].id < client.pending[i].id
    <3> SUFFICES ASSUME NEW k \in 1..n + 1, NEW i \in 1..Len(client.pending), IsAnswer(k)' \/ IsPong(k)'
                 PROVE  net'.inbox[k].id < client.pending[i].id
      OBVIOUS
    <3>1. CASE k = n + 1
      <4>1. m.type \in Calls
        BY <1>1, <1>4, <3>1 DEF IsAnswer, IsPong
      <4>2. Asks(m).id < client.pending[i].id
        BY <1>4, <4>1 DEF Booked, Queued
      <4> QED  BY <1>1, <1>5, <3>1, <4>2
    <3>2. CASE k \in 1..n
      BY <1>1, <3>2 DEF Booked, Queued, IsAnswer, IsPong
    <3> QED  BY <1>2, <3>1, <3>2
  <2> QED  BY <1>1, <1>3, <1>4, <2>1 DEF Booked, Queued, IsPing
<1>7. Known'
  <2>1. ASSUME NEW k \in 1..n + 1
        PROVE  /\ net'.inbox[k].type \in Calls \cup {"pong", "data"}
               /\ IsAnswer(k)' => Asks(net'.inbox[k]) \in client'.sent /\ Asks(net'.inbox[k]) \notin net'.requests
               /\ IsPong(k)' => net'.inbox[k].id \in client'.pings
               /\ net'.inbox[k].type = "subscribe" => net'.inbox[k].ok
    <3>1. CASE k = n + 1
      BY <1>1, <1>3, <1>4, <3>1 DEF IsAnswer, IsPong
    <3>2. CASE k \in 1..n
      BY <1>1, <1>3, <1>4, <3>2 DEF Booked, Known, IsAnswer, IsPong
    <3> QED  BY <1>2, <3>1, <3>2
  <2> QED  BY <1>1, <1>3, <1>4, <2>1 DEF Booked, Known
<1>8. Once'
  <2>1. ASSUME NEW k \in 1..n, IsAnswer(k), m.type \in Calls PROVE net.inbox[k].id # m.id
    <3>1. Asks(net.inbox[k]) \in client.sent /\ Asks(net.inbox[k]) \notin net.requests
      BY <1>1, <2>1 DEF Booked, Known
    <3>2. Asks(net.inbox[k]).id = net.inbox[k].id
      BY <1>1, InboxTypes, AsksMakes
    <3> QED  BY <1>4, <1>5, <2>1, <3>1, <3>2 DEF Booked, Known
  <2> SUFFICES ASSUME NEW j \in 1..n + 1, NEW k \in 1..n + 1, j # k,
                      (IsAnswer(j)' /\ IsAnswer(k)') \/ (IsPong(j)' /\ IsPong(k)')
               PROVE  net'.inbox[j].id # net'.inbox[k].id
    BY <1>1 DEF Once
  <2>2. CASE j \in 1..n /\ k \in 1..n
    BY <1>1, <2>2 DEF Booked, Once, IsAnswer, IsPong
  <2>3. CASE j \in 1..n /\ k = n + 1
    <3>1. IsAnswer(j) /\ m.type \in Calls
      BY <1>1, <1>4, <2>3 DEF IsAnswer, IsPong
    <3> QED  BY <1>1, <2>1, <2>3, <3>1
  <2>4. CASE j = n + 1 /\ k \in 1..n
    <3>1. IsAnswer(k) /\ m.type \in Calls
      BY <1>1, <1>4, <2>4 DEF IsAnswer, IsPong
    <3>2. net.inbox[k].id # m.id
      BY <2>1, <2>4, <3>1
    <3> QED  BY <1>1, <2>4, <3>2
  <2> QED  BY <1>2, <2>2, <2>3, <2>4
<1>9. Covered'
  <2> SUFFICES ASSUME net.up, client.state = "RUNNING", NEW x \in client.sent
               PROVE  \/ x \in net'.requests
                      \/ \E i \in 1..Len(client.pending) : client.pending[i] = x
                      \/ \E k \in 1..n + 1 : IsAnswer(k)' /\ Asks(net'.inbox[k]) = x
    BY <1>1, <1>3 DEF Covered
  <2>1. CASE x \in net.requests
    BY <1>1, <1>2, <2>1 DEF IsAnswer
  <2>2. ASSUME NEW k \in 1..n, IsAnswer(k), Asks(net.inbox[k]) = x
        PROVE  \E j \in 1..n + 1 : IsAnswer(j)' /\ Asks(net'.inbox[j]) = x
    BY <1>1, <1>2, <2>2 DEF IsAnswer
  <2> QED  BY <1>1, <2>1, <2>2 DEF Booked, Covered
<1> QED  BY <1>6, <1>7, <1>8, <1>9 DEF Booked

\* A restart begins the books anew, with one request for each listed subscription.
LEMMA RestartingBooked ==
  ASSUME Types, Restarting
  PROVE  Booked'
<1>1. PICK n \in Nat : n = Len(listed)
  BY LenProperties DEF Types
<1>2. /\ Len(client'.pending) = n
      /\ \A k \in 1..n : /\ client'.pending[k].type = "subscribe" /\ client'.pending[k].id = nextId + k - 1
                         /\ client'.pending[k] \in client'.sent
      /\ \A r \in client'.sent : \E k \in 1..n : r = client'.pending[k]
  BY <1>1 DEF Restarting, RestoredAs
<1>3. net'.requests = {} /\ net'.inbox = <<>> /\ ~net'.early
  BY NewConnectionMakes DEF Restarting
<1>4. Len(net'.inbox) = 0 /\ nextId \in Nat
  BY <1>3 DEF Types
<1>5. Queued'
  <2>1. \A i, j \in 1..n : i < j => client'.pending[i].id < client'.pending[j].id
    <3> SUFFICES ASSUME NEW i \in 1..n, NEW j \in 1..n, i < j PROVE nextId + i - 1 < nextId + j - 1
      BY <1>2
    <3> QED  BY <1>4
  <2> QED  BY <1>2, <1>3, <1>4, <2>1 DEF Queued, IsPing
<1>6. Known'
  <2>1. \A q, r \in client'.sent : q.id = r.id => q = r
    <3> SUFFICES ASSUME NEW q \in client'.sent, NEW r \in client'.sent, q.id = r.id PROVE q = r
      OBVIOUS
    <3>1. PICK i \in 1..n : q = client'.pending[i]
      BY <1>2
    <3>2. PICK j \in 1..n : r = client'.pending[j]
      BY <1>2
    <3>3. nextId + i - 1 = nextId + j - 1
      BY <1>2, <3>1, <3>2
    <3>4. i = j
      BY <1>4, <3>3
    <3> QED  BY <3>1, <3>2, <3>4
  <2>2. \A r \in client'.sent : r.type # "ping"
    BY <1>2
  <2> QED  BY <1>3, <1>4, <2>1, <2>2 DEF Known
<1>7. Once'
  BY <1>4 DEF Once
<1>8. Covered'
  BY <1>2 DEF Covered
<1> QED  BY <1>5, <1>6, <1>7, <1>8 DEF Booked

\* Every handler and every call begins while nothing was aborted.
LEMMA AliveBefore == Next => Alive
<1>1. Publish \/ (\E s \in Subs : Subscribe(s) \/ Unsubscribe(s)) => Alive
  BY Zenon DEF Publish, Subscribe, Unsubscribe, MayCall
<1>2. Stop \/ (\E s \in Subs : Stream(s)) \/ Garbage \/ ArrivesEarly \/ Breaks \/ OrphanRuns => Alive
  BY Zenon DEF Stop, Stream, Garbage, ArrivesEarly, Breaks, OrphanRuns, Reachable
<1>3. Read => Alive
  BY Zenon DEF Read, Pong, ReadCompletes, ReadMessage, ReadAborted, ReadFailed
<1>4. Write \/ PingTimer \/ TimerExpires \/ Server => Alive
  BY Zenon DEF Write, RequestDone, PingTimer, TimerExpires, Server, Answer
<1> QED  BY <1>1, <1>2, <1>3, <1>4, Zenon DEF Next

\* The world stays what it is, but for the connections that it loses.
LEMMA WorldKept ==
  ASSUME Types, Loops, [Next]_vars
  PROVE  /\ world' = world \/ Loses
         /\ world'.faults = world.faults /\ world'.calls = world.calls
<1>1. Moves
  BY NextMoves
<1>2. Aborts \/ Issues \/ Stopping \/ Pinging \/ Ticks \/ UNCHANGED vars => world' = world
  BY Zenon DEF Aborts, Issues, Silences, Pushes, Stopping, Pinging, Ticks, OnlyClient, vars
<1>3. \A r \in Requests, ok \in BOOLEAN : Written(r, ok) => world' = world
  BY Zenon DEF Written
<1>4. ReadMoves => world' = world
  BY Zenon DEF ReadMoves, Ponged, ReadEnds, Drops, Refuses, Handles, Finishes, FallsSilent, Restarting, OnlyClient
<1>5. ServerMoves => world' = world \/ Loses
  BY Zenon DEF ServerMoves, Answers, Streams, Babbles, Hastens
<1>6. world' = world \/ Loses
  BY <1>1, <1>2, <1>3, <1>4, <1>5, Zenon DEF Moves
<1>7. Loses => world'.faults = world.faults /\ world'.calls = world.calls
  BY DEF Loses, Types, AllWorlds
<1> QED  BY <1>6, <1>7

\* Without faults the books stay right.
LEMMA BooksKept ==
  ASSUME Types, Loops, Numbered, Books, [Next]_vars
  PROVE  Books'
<1> SUFFICES ASSUME Faultless', Alive' PROVE Booked'
  BY DEF Books
<1>1. Moves
  BY NextMoves
<1>2. ~Aborts /\ ~Refuses
  BY Zenon DEF Aborts, Refuses, Alive
<1>3. Alive
  <2>1. UNCHANGED vars => Alive
    BY DEF vars, Alive
  <2> QED  BY <2>1, AliveBefore, Zenon
<1>4. Faultless
  BY WorldKept DEF Faultless
<1>5. Booked
  BY <1>3, <1>4 DEF Books
<1>6. Silences \/ Stopping \/ Ticks \/ ReadEnds \/ Finishes \/ FallsSilent \/ UNCHANGED vars => Booked'
  <2>1. Silences \/ ReadEnds \/ Ticks \/ UNCHANGED vars => Booked'
    BY <1>5, BookedSame, Zenon DEF Silences, ReadEnds, Ticks, SameRequests, OnlyClient, vars
  <2>2. Stopping => Booked'
    BY <1>5, BookedSame DEF Stopping
  <2>3. ASSUME Finishes \/ FallsSilent PROVE Booked'
    <3>1. client'.state # "RUNNING" /\ SameRequests /\ client'.pings = client.pings /\ net' = net
      BY <2>3 DEF Finishes, FallsSilent, OnlyClient
    <3> QED  BY <1>5, <3>1, BookedSame DEF SameRequests
  <2> QED  BY <2>1, <2>2, <2>3
<1>7. ASSUME Drops PROVE FALSE
  <2>1. net.inbox[1].type = "garbage" /\ net.inbox # <<>>
    BY <1>7, Zenon DEF Drops, Consumes
  <2>2. 1 \in 1..Len(net.inbox)
    BY <2>1, InboxTypes
  <2> QED  BY <1>5, <2>1, <2>2 DEF Booked, Known, Calls
<1>8. ReadMoves => Booked'
  BY <1>2, <1>5, <1>6, <1>7, PongedBooked, HandlesBooked, RestartingBooked, Zenon DEF ReadMoves
<1>9. ASSUME ServerMoves PROVE Booked'
  <2>1. ASSUME NEW r \in Requests, NEW m \in Messages, Answers(r, m) PROVE Booked'
    <3>1. /\ r \in net.requests /\ Sends(net, m) /\ m.type = r.type /\ m.id = r.id /\ m.sub = r.sub
          /\ net'.requests = net.requests \ {r} /\ OnlyNet /\ (r.type = "subscribe" => m.ok)
      BY <1>4, <2>1, Zenon DEF Answers
    <3>2. Asks(m) = r
      BY <3>1, AsksMakes
    <3>3. r.type \in Calls
      BY <1>5, <3>1 DEF Booked, Known, Requests
    <3> QED  BY <1>5, <3>1, <3>2, <3>3, SentBooked
  <2>2. ASSUME NEW s \in Subs, NEW m \in Messages, Streams(s, m) PROVE Booked'
    BY <1>4, <1>5, <2>2, SentBooked, Zenon DEF Streams
  <2>3. ~Hastens /\ \A m \in Messages : ~Babbles(m)
    BY <1>4 DEF Hastens, Babbles, Faultless
  <2>4. Loses => Booked'
    BY <1>5, BookedSame DEF Loses, OnlyNet
  <2> QED  BY <1>9, <2>1, <2>2, <2>3, <2>4, Zenon DEF ServerMoves
<1> QED
  BY <1>1, <1>2, <1>5, <1>6, <1>8, <1>9, PushesBooked, PingingBooked, WrittenBooked, Zenon DEF Moves, Issues

\* Without faults _sent_request_infos holds the requests to be written, those at the
\* server and those with an answer on its way, and nothing else: handle_write erases an
\* entry when its write failed, process_input when its answer has come.
THEOREM NothingLeaks == Spec => []Accounted
<1>1. Init => Books
  <2> SUFFICES ASSUME Init PROVE Booked
    BY DEF Books
  <2>1. client.pending = <<>> /\ client.sent = {}
    BY RunningMakes DEF Init
  <2>2. net.requests = {} /\ net.inbox = <<>> /\ ~net.early
    BY NewConnectionMakes DEF Init
  <2>3. Len(client.pending) = 0 /\ Len(net.inbox) = 0
    BY <2>1, <2>2
  <2> QED  BY <2>1, <2>2, <2>3 DEF Booked, Queued, Known, Once, Covered
<1>2. Always /\ Books /\ [Next]_vars => Books'
  BY BooksKept DEF Always
<1>3. Always /\ Books => Accounted
  <2> SUFFICES ASSUME Types, Booked, Alive, net.up, client.state = "RUNNING"
               PROVE  Ids(client.sent) = PendingIds \cup Ids(net.requests) \cup AnswerIds
    BY DEF Always, Books, Accounted
  <2>1. PICK q \in Seq(Messages) : q = net.inbox
    BY DEF Types, Nets
  <2>2. ToSet(net.inbox) = {net.inbox[k] : k \in 1..Len(net.inbox)}
    <3>1. DOMAIN q = 1..Len(q)
      BY LenProperties
    <3> QED  BY <2>1, <3>1 DEF ToSet
  <2>3. ASSUME NEW id \in Ids(client.sent) PROVE id \in PendingIds \cup Ids(net.requests) \cup AnswerIds
    <3>1. PICK r \in client.sent : r.id = id
      BY DEF Ids
    <3>2. CASE r \in net.requests
      BY <3>1, <3>2 DEF Ids
    <3>3. CASE \E i \in 1..Len(client.pending) : client.pending[i] = r
      <4>1. r.type # "ping"
        BY DEF Booked, Known
      <4> QED  BY <3>1, <3>3, <4>1 DEF PendingIds
    <3>4. CASE \E k \in 1..Len(net.inbox) : IsAnswer(k) /\ Asks(net.inbox[k]) = r
      <4>1. PICK k \in 1..Len(net.inbox) : IsAnswer(k) /\ Asks(net.inbox[k]) = r
        BY <3>4
      <4>2. net.inbox[k].id = id
        BY <3>1, <4>1, AsksMakes, InboxTypes
      <4> QED  BY <2>2, <4>1, <4>2 DEF AnswerIds, IsAnswer, Calls
    <3> QED  BY <3>2, <3>3, <3>4 DEF Booked, Covered
  <2>4. ASSUME NEW id \in PendingIds PROVE id \in Ids(client.sent)
    BY DEF PendingIds, Ids, Booked, Queued, IsPing
  <2>5. ASSUME NEW id \in Ids(net.requests) PROVE id \in Ids(client.sent)
    BY DEF Ids, Booked, Known
  <2>6. ASSUME NEW id \in AnswerIds PROVE id \in Ids(client.sent)
    <3>1. PICK k \in 1..Len(net.inbox) : IsAnswer(k) /\ net.inbox[k].id = id
      BY <2>2 DEF AnswerIds, IsAnswer, Calls
    <3>2. Asks(net.inbox[k]) \in client.sent /\ Asks(net.inbox[k]).id = id
      BY <3>1, AsksMakes, InboxTypes DEF Booked, Known
    <3> QED  BY <3>2 DEF Ids
  <2> QED  BY <2>3, <2>4, <2>5, <2>6
<1> QED  BY <1>1, <1>2, <1>3, InductiveInvariant, PTL DEF Spec

-----------------------------------------------------------------------------
(* Subscriptions.                                                          *)

\* a step that leaves alone who holds what, and forgets no unsubscribe request while
\* the connection is up
Gently ==
  /\ client'.subs = client.subs /\ Kept /\ (net'.up => net.up)
  /\ \A x \in client'.sent : x \in client.sent \/ (x.type = "publish" /\ x.sub = NoSub)
  /\ net'.up => \A x \in client.sent : x.type = "unsubscribe" => x \in client'.sent
  /\ \A i \in 1..Len(client'.pending) :
       client'.pending[i].sub \notin Subs \/ \E j \in 1..Len(client.pending) : client'.pending[i] = client.pending[j]
  /\ \A x \in net'.requests : x \in net.requests \/ \E j \in 1..Len(client.pending) : x = client.pending[j]
  /\ \A s \in net'.streaming : s \in net.streaming \/ (s \in Subs /\ \E x \in net.requests : x.sub = s)
  /\ \E n \in Nat, d \in {0, 1} :
       /\ n = Len(net'.inbox)
       /\ \A k \in 1..n :
            \/ k + d \in 1..Len(net.inbox) /\ net'.inbox[k] = net.inbox[k + d]
            \/ net'.inbox[k].type \notin {"unsubscribe", "data"}
            \/ net'.inbox[k].type = "data" /\ net'.inbox[k].sub \in net.streaming

\* A step that moves no subscription keeps everything in order.
LEMMA GentlyTidy ==
  ASSUME Types, Tidy, Gently
  PROVE  Tidy'
<1>0. /\ client'.subs = client.subs /\ held' = held /\ listed' = listed
      /\ client.subs \subseteq Subs /\ NoSub \notin Subs
  BY ClientAssumption DEF Gently, Kept, Types, Clients
<1>1. ListIsHeld'
  BY <1>0 DEF Tidy, ListIsHeld, NothingGivenUp
<1>2. MapIsHeld'
  BY <1>0 DEF Tidy, MapIsHeld, Gently
<1>3. /\ \A x \in client'.sent : x \in client.sent \/ (x.type = "publish" /\ x.sub = NoSub)
      /\ \A i \in 1..Len(client'.pending) :
           client'.pending[i].sub \notin Subs \/ \E j \in 1..Len(client.pending) : client'.pending[i] = client.pending[j]
      /\ \A x \in net'.requests : x \in net.requests \/ \E j \in 1..Len(client.pending) : x = client.pending[j]
      /\ \A s \in net'.streaming : s \in net.streaming \/ (s \in Subs /\ \E x \in net.requests : x.sub = s)
  BY DEF Gently
<1>4. Courses'
  <2>1. \A r \in client'.sent :
          /\ r.type = "publish" => r.sub = NoSub
          /\ r.type # "publish" => r.sub \in Subs /\ held[r.sub] # "new"
          /\ r.type = "unsubscribe" => held[r.sub] = "dropped" /\ r.sub \in client.subs
    BY <1>3 DEF Tidy, Courses
  <2>2. \A q, r \in client'.sent :
          q.type # "publish" /\ r.type = "unsubscribe" /\ q.sub = r.sub => q = r \/ (q.type = "subscribe" /\ q.id < r.id)
    BY <1>3 DEF Tidy, Courses
  <2>3. \A r \in net'.requests : r.sub \in Subs => r.sub \in client.subs
    BY <1>3 DEF Tidy, Courses
  <2>4. \A i \in 1..Len(client'.pending) :
          client'.pending[i].sub \in Subs => client'.pending[i].sub \in client.subs /\ client'.pending[i].type # "ping"
    BY <1>3 DEF Tidy, Courses, IsPing
  <2> QED  BY <1>0, <2>1, <2>2, <2>3, <2>4 DEF Courses, IsPing
<1>5. ASSUME NEW s \in Subs, Silent(s) PROVE Silent(s)'
  BY <1>3, <1>5 DEF Silent
<1>6. net'.streaming \subseteq client.subs
  BY <1>3 DEF Tidy, LastOfAll, Courses
<1>7. PICK n \in Nat, d \in {0, 1} :
        /\ n = Len(net'.inbox)
        /\ \A k \in 1..n :
             \/ k + d \in 1..Len(net.inbox) /\ net'.inbox[k] = net.inbox[k + d]
             \/ net'.inbox[k].type \notin {"unsubscribe", "data"}
             \/ net'.inbox[k].type = "data" /\ net'.inbox[k].sub \in net.streaming
  BY DEF Gently
<1>8. ASSUME NEW k \in 1..n, NEW s, Leaves(k, s)' PROVE k + d \in 1..Len(net.inbox) /\ Leaves(k + d, s)
  BY <1>7, <1>8 DEF Leaves
<1>9. \A k \in 1..n : \A s \in Subs : Leaves(k, s)' => Silent(s)'
  BY <1>5, <1>8 DEF Tidy, LastOfAll
<1>10. ASSUME NEW k \in 1..n, net'.inbox[k].type = "data"
       PROVE  net'.inbox[k].sub \in client.subs /\ \A j \in 1..k - 1 : ~Leaves(j, net.inbox[k].sub)'
  <2>1. \A j \in 1..k - 1 : j \in 1..n
    OBVIOUS
  <2>2. CASE k + d \in 1..Len(net.inbox) /\ net'.inbox[k] = net.inbox[k + d]
    <3>1. net'.inbox[k].sub \in client.subs /\ \A j \in 1..(k + d) - 1 : ~Leaves(j, net'.inbox[k].sub)
      BY <1>10, <2>2 DEF Tidy, LastOfAll
    <3>2. \A j \in 1..k - 1 : j + d \in 1..(k + d) - 1
      OBVIOUS
    <3>3. \A j \in 1..k - 1 : ~Leaves(j, net.inbox[k].sub)'
      BY <1>8, <2>1, <3>1, <3>2
    <3> QED  BY <3>1, <3>3
  <2>3. CASE net'.inbox[k].sub \in net.streaming
    <3>1. net'.inbox[k].sub \in client.subs
      BY <2>3 DEF Tidy, LastOfAll
    <3>2. ASSUME NEW j \in 1..k - 1, Leaves(j, net.inbox[k].sub)' PROVE FALSE
      <4>1. j + d \in 1..Len(net.inbox) /\ Leaves(j + d, net'.inbox[k].sub)
        BY <1>8, <2>1, <3>2
      <4>2. Silent(net'.inbox[k].sub)
        BY <1>0, <3>1, <4>1 DEF Tidy, LastOfAll
      <4> QED  BY <2>3, <4>2 DEF Silent
    <3> QED  BY <3>1, <3>2
  <2> QED  BY <1>7, <1>10, <2>2, <2>3
<1>11. LastOfAll'
  BY <1>0, <1>6, <1>7, <1>9, <1>10 DEF LastOfAll
<1> QED  BY <1>1, <1>2, <1>4, <1>11 DEF Tidy

\* the calls to a running client
Publishes ==
  /\ Kept /\ client'.subs = client.subs
  /\ \E r \in Requests : Pushes(r) /\ r.type = "publish" /\ r.sub = NoSub
Subscribes(s) ==
  /\ held[s] = "new" /\ held' = [held EXCEPT ![s] = "held"] /\ listed' = Append(listed, s)
  /\ client'.subs = client.subs \cup {s}
  /\ \E r \in Requests : Pushes(r) /\ r.type = "subscribe" /\ r.sub = s
Unsubscribes(s) ==
  /\ held[s] = "held" /\ held' = [held EXCEPT ![s] = "dropped"] /\ listed' = RemoveIf(listed, s)
  /\ s \in client.subs /\ client'.subs = client.subs
  /\ \E r \in Requests : Pushes(r) /\ r.type = "unsubscribe" /\ r.sub = s

\* An answer that ends a subscription is the answer to a request of one who gave it up.
LEMMA LeavingIsDropped ==
  ASSUME Types, Booked, Tidy, NEW k \in 1..Len(net.inbox), NEW s, Leaves(k, s)
  PROVE  /\ held[s] = "dropped" /\ s \in Subs /\ s \in client.subs
         /\ \E r \in client.sent : r.type = "unsubscribe" /\ r.sub = s /\ r.id = net.inbox[k].id
<1>1. net.inbox[k] \in Messages /\ IsAnswer(k)
  BY InboxTypes DEF Leaves, IsAnswer, Calls
<1>2. PICK r \in client.sent : r = Asks(net.inbox[k])
  BY <1>1 DEF Booked, Known
<1>3. r.type = "unsubscribe" /\ r.sub = s /\ r.id = net.inbox[k].id
  BY <1>1, <1>2, AsksMakes DEF Leaves
<1> QED  BY <1>3 DEF Tidy, Courses

\* A frame that was read moves the rest up; nothing joins it.
LEMMA ReadGently ==
  ASSUME Types, Loops, Booked, Tidy, client.state = "RUNNING",
         Ponged \/ \E m \in Messages : Handles(m) /\ m.type # "unsubscribe"
  PROVE  Gently
<1>1. Consumes /\ Kept /\ world' = world /\ client'.pending = client.pending
  BY Zenon DEF Ponged, Handles, SameRequests, Kept
<1>2. net'.requests = net.requests /\ net'.streaming = net.streaming /\ net'.up = net.up
  BY <1>1 DEF Consumes
<1>3. client'.subs = client.subs /\ client'.sent \subseteq client.sent
      /\ \A x \in client.sent : x.type = "unsubscribe" => x \in client'.sent
  <2>1. CASE Ponged
    BY <2>1 DEF Ponged, SameRequests
  <2>2. ASSUME NEW m \in Messages, Handles(m), m.type # "unsubscribe"
        PROVE  client'.subs = client.subs /\ client'.sent \subseteq client.sent
               /\ \A x \in client.sent : x.type = "unsubscribe" => x \in client'.sent
    <3>1. /\ m = net.inbox[1] /\ net.inbox # <<>> /\ (~Ends(m) => client'.subs = client.subs)
          /\ (m.type \in {"data", "error"} => client'.sent = client.sent)
          /\ (m.type \notin {"data", "error"} => client'.sent = {x \in client.sent : x.id # m.id})
      BY <2>2, Zenon DEF Handles, Consumes
    <3>a. m.type # "pong"
      BY <2>2, <3>1, Zenon DEF Loops, Handles
    <3>2. 1 \in 1..Len(net.inbox) /\ m.type # "pong"
      BY <3>1, <3>a, InboxTypes
    <3>3. m.type \in Calls \cup {"data"} /\ (m.type = "subscribe" => m.ok)
      BY <3>1, <3>2 DEF Booked, Known
    <3>4. client'.subs = client.subs
      BY <2>2, <3>1, <3>3 DEF Ends
    <3>5. ASSUME NEW x \in client.sent, x.type = "unsubscribe", m.type \in Calls PROVE x.id # m.id
      <4>1. Asks(m) \in client.sent /\ Asks(m).id = m.id /\ Asks(m).type = m.type
        BY <3>1, <3>2, <3>5, AsksMakes DEF Booked, Known, IsAnswer
      <4> QED  BY <2>2, <3>5, <4>1 DEF Booked, Known
    <3> QED  BY <3>1, <3>3, <3>4, <3>5 DEF Calls
  <2> QED  BY <2>1, <2>2
<1>4. PICK l \in Nat :
        /\ l = Len(net.inbox) /\ l > 0 /\ Len(net'.inbox) = l - 1
        /\ \A k \in 1..l - 1 : net'.inbox[k] = net.inbox[k + 1] /\ k + 1 \in 1..l
  BY <1>1, InboxShrinks
<1>5. \E n \in Nat, d \in {0, 1} :
        /\ n = Len(net'.inbox)
        /\ \A k \in 1..n : k + d \in 1..Len(net.inbox) /\ net'.inbox[k] = net.inbox[k + d]
  <2>1. l - 1 \in Nat /\ 1 \in {0, 1}
    BY <1>4
  <2> QED  BY <1>4, <2>1
<1> QED  BY <1>1, <1>2, <1>3, <1>5 DEF Gently

\* where nothing comes to the client
SameInbox == net'.inbox = net.inbox
\* Nothing new on its way.
LEMMA InboxSame ==
  ASSUME Types, SameInbox
  PROVE  \E n \in Nat, d \in {0, 1} :
           /\ n = Len(net'.inbox)
           /\ \A k \in 1..n : k + d \in 1..Len(net.inbox) /\ net'.inbox[k] = net.inbox[k + d]
<1>1. PICK n \in Nat : n = Len(net.inbox)
  BY InboxTypes
<1>2. \A k \in 1..n : k + 0 \in 1..n /\ k + 0 = k
  OBVIOUS
<1>3. 0 \in {0, 1}
  OBVIOUS
<1> QED  BY <1>1, <1>2, <1>3 DEF SameInbox

\* One more on its way.
LEMMA InboxMore ==
  ASSUME Types, NEW m \in Messages, Sends(net, m),
         m.type \notin {"unsubscribe", "data"} \/ (m.type = "data" /\ m.sub \in net.streaming)
  PROVE  \E n \in Nat, d \in {0, 1} :
           /\ n = Len(net'.inbox)
           /\ \A k \in 1..n :
                \/ k + d \in 1..Len(net.inbox) /\ net'.inbox[k] = net.inbox[k + d]
                \/ net'.inbox[k].type \notin {"unsubscribe", "data"}
                \/ net'.inbox[k].type = "data" /\ net'.inbox[k].sub \in net.streaming
<1>1. PICK l \in Nat :
         /\ l = Len(net.inbox) /\ Len(net'.inbox) = l + 1 /\ net'.inbox[l + 1] = m
         /\ \A k \in 1..l : net'.inbox[k] = net.inbox[k]
  BY InboxGrows
<1>2. \A k \in 1..l + 1 : (k + 0 \in 1..l /\ k + 0 = k) \/ k = l + 1
  OBVIOUS
<1>3. l + 1 \in Nat /\ 0 \in {0, 1}
  OBVIOUS
<1>4. \A k \in 1..l + 1 :
        \/ k + 0 \in 1..l /\ net'.inbox[k] = net.inbox[k + 0]
        \/ net'.inbox[k].type \notin {"unsubscribe", "data"}
        \/ net'.inbox[k].type = "data" /\ net'.inbox[k].sub \in net.streaming
  BY <1>1, <1>2
<1> QED  BY <1>1, <1>3, <1>4

\* A message or a ping that is issued, a timer, and a read that ends move no subscription.
LEMMA IssueGently ==
  ASSUME Types, Ticks \/ ReadEnds \/ Loses \/ Pinging \/ Publishes \/ UNCHANGED vars
  PROVE  Gently
<1>1. /\ SameInbox /\ net'.requests = net.requests /\ net'.streaming = net.streaming /\ Kept
      /\ client'.subs = client.subs /\ (net'.up => net.up)
  <2>1. Ticks \/ ReadEnds \/ UNCHANGED vars => net' = net /\ Kept /\ client'.subs = client.subs
    BY DEF Ticks, ReadEnds, OnlyClient, vars, Kept
  <2>2. Publishes \/ Pinging => net' = net /\ Kept /\ client'.subs = client.subs
    BY DEF Publishes, Pushes, Pinging, Pinged, Kept
  <2>3. Loses => /\ net'.inbox = net.inbox /\ net'.requests = net.requests /\ net'.streaming = net.streaming
                 /\ Kept /\ client'.subs = client.subs /\ net.up
    BY DEF Loses, OnlyNet, Kept
  <2> QED  BY <2>1, <2>2, <2>3 DEF SameInbox
<1>2. CASE Ticks \/ ReadEnds \/ Loses \/ UNCHANGED vars
  <2>1. client'.sent = client.sent /\ client'.pending = client.pending
    BY <1>2 DEF Ticks, ReadEnds, Loses, OnlyNet, vars, SameRequests
  <2> QED  BY <1>1, <2>1, InboxSame DEF Gently
<1>3. ASSUME NEW r \in Requests, r.sub = NoSub, client'.pending = Append(client.pending, r),
             client'.sent = client.sent \/ (client'.sent = client.sent \cup {r} /\ r.type = "publish")
      PROVE  Gently
  <2>1. PICK n \in Nat :
          /\ n = Len(client.pending) /\ Len(client'.pending) = n + 1 /\ client'.pending[n + 1] = r
          /\ \A k \in 1..n : client'.pending[k] = client.pending[k]
    BY <1>3, PendingGrows
  <2>2. \A i \in 1..n + 1 : i \in 1..n \/ i = n + 1
    OBVIOUS
  <2>3. r.sub \notin Subs
    BY <1>3, ClientAssumption
  <2>4. \A i \in 1..n + 1 :
          client'.pending[i].sub \notin Subs \/ \E j \in 1..n : client'.pending[i] = client.pending[j]
    BY <2>1, <2>2, <2>3
  <2>5. /\ \A x \in client'.sent : x \in client.sent \/ (x.type = "publish" /\ x.sub = NoSub)
        /\ \A x \in client.sent : x \in client'.sent
    BY <1>3
  <2> QED  BY <1>1, <2>1, <2>4, <2>5, InboxSame DEF Gently
<1>4. CASE Publishes
  BY <1>3, <1>4 DEF Publishes, Pushes
<1>5. CASE Pinging
  BY <1>3, <1>5 DEF Pinging, Pinged
<1> QED  BY <1>2, <1>4, <1>5

\* The handler of a write passes a request on to the server, which may echo a ping.
LEMMA WrittenGently ==
  ASSUME Types, Booked, Tidy, client.state = "RUNNING", NEW r \in Requests, NEW ok \in BOOLEAN, Written(r, ok)
  PROVE  Gently
<1>1. /\ client'.subs = client.subs /\ Kept
      /\ client.pending # <<>> /\ client'.pending = Tail(client.pending) /\ r = client.pending[1]
      /\ (ok => client'.sent = client.sent) /\ (~ok => client'.sent = {x \in client.sent : x.id # r.id})
      /\ (~ok => ~net.up)
  BY Zenon DEF Written, Kept
<1>2. PICK n \in Nat :
        /\ n = Len(client.pending) /\ n > 0 /\ Len(client'.pending) = n - 1
        /\ \A k \in 1..n - 1 : client'.pending[k] = client.pending[k + 1] /\ k + 1 \in 1..n
  BY <1>1, PendingShrinks
<1>3. \A i \in 1..Len(client'.pending) : \E j \in 1..Len(client.pending) : client'.pending[i] = client.pending[j]
  BY <1>2
<1>4. 1 \in 1..Len(client.pending)
  BY <1>2
<1>5. net.up => \A x \in client.sent : x \in client'.sent
  BY <1>1
<1>6. client'.sent \subseteq client.sent
  BY <1>1
<1>7. net'.up = net.up
  BY WrittenNet DEF Takes, Echoes, Sends
<1>8. CASE net' = net
  BY <1>1, <1>3, <1>5, <1>6, <1>7, <1>8, InboxSame DEF Gently, SameInbox
<1>9. CASE Takes(r)
  <2>1. SameInbox /\ net'.streaming = net.streaming /\ net'.requests \subseteq net.requests \cup {r}
    BY <1>9 DEF Takes, SameInbox
  <2>2. \A x \in net'.requests : x \in net.requests \/ \E j \in 1..Len(client.pending) : x = client.pending[j]
    BY <1>1, <1>4, <2>1
  <2> QED  BY <1>1, <1>3, <1>5, <1>6, <1>7, <2>1, <2>2, InboxSame DEF Gently
<1>10. CASE Echoes(r)
  <2>1. PICK m \in Messages : Sends(net, m) /\ m.type = "pong"
    BY <1>10 DEF Echoes
  <2>2. net'.requests = net.requests /\ net'.streaming = net.streaming
    BY <1>10 DEF Echoes
  <2> QED  BY <1>1, <1>3, <1>5, <1>6, <1>7, <2>1, <2>2, InboxMore DEF Gently
<1> QED  BY <1>8, <1>9, <1>10, WrittenNet

\* What is streamed is held or leaving; an answer to other than an unsubscribe request
\* ends nothing.
LEMMA ServerGently ==
  ASSUME Types, Booked, Tidy, Faultless, NEW m \in Messages,
         \/ \E r \in Requests : Answers(r, m) /\ r.type # "unsubscribe"
         \/ \E s \in Subs : Streams(s, m)
  PROVE  Gently
<1>1. OnlyNet /\ Sends(net, m)
  BY Zenon DEF Answers, Streams
<1>2. client' = client /\ Kept /\ net'.up = net.up
  BY <1>1 DEF OnlyNet, Kept, Sends
<1>3. ASSUME NEW r \in Requests, Answers(r, m), r.type # "unsubscribe" PROVE Gently
  <2>1. /\ r \in net.requests /\ m.type = r.type /\ net'.requests = net.requests \ {r}
        /\ (r.type = "subscribe" => net'.streaming \subseteq net.streaming \cup {r.sub})
        /\ (r.type # "subscribe" => net'.streaming = net.streaming)
    BY <1>3, Zenon DEF Answers
  <2>2. r \in client.sent
    BY <2>1 DEF Booked, Known
  <2>3. r.type = "subscribe" => r.sub \in Subs
    BY <2>2 DEF Tidy, Courses
  <2>4. m.type \notin {"unsubscribe", "data"}
    BY <1>3, <2>1 DEF Requests, Calls
  <2>5. \A s \in net'.streaming : s \in net.streaming \/ (s \in Subs /\ \E x \in net.requests : x.sub = s)
    BY <2>1, <2>3
  <2> QED  BY <1>1, <1>2, <2>1, <2>4, <2>5, InboxMore DEF Gently
<1>4. ASSUME NEW s \in Subs, Streams(s, m) PROVE Gently
  <2>1. m.type = "data" /\ m.sub \in net.streaming /\ net'.requests = net.requests /\ net'.streaming = net.streaming
    BY <1>4, Zenon DEF Streams
  <2> QED  BY <1>1, <1>2, <2>1, InboxMore DEF Gently
<1> QED  BY <1>3, <1>4

\* A new subscription is listed, held, in the map, and asked for.
LEMMA SubscribesTidy ==
  ASSUME Types, Booked, Tidy, NEW s \in Subs, Subscribes(s)
  PROVE  Tidy'
<1>1. PICK r \in Requests : Pushes(r) /\ r.type = "subscribe" /\ r.sub = s
  BY DEF Subscribes
<1>2. /\ client'.sent = client.sent \cup {r} /\ client'.pending = Append(client.pending, r)
      /\ net' = net /\ world' = world
  BY <1>1 DEF Pushes
<1>3. /\ held[s] = "new" /\ held' = [held EXCEPT ![s] = "held"] /\ listed' = Append(listed, s)
      /\ client'.subs = client.subs \cup {s} /\ held \in [Subs -> {"new", "held", "dropped", "recalled"}]
      /\ client.subs \subseteq Subs
  BY DEF Subscribes, Types, Clients
<1>4. held'[s] = "held" /\ \A x \in Subs : x # s => held'[x] = held[x]
  BY <1>3
<1>5. ListIsHeld'
  <2>1. PICK n \in Nat : n = Len(listed)
    BY LenProperties DEF Types
  <2>2. /\ \A x \in Subs : held[x] = "held" => \E i \in 1..n : listed[i] = x
        /\ \A i \in 1..n : held[listed[i]] # "new"
        /\ NothingGivenUp => \A i, j \in 1..n : listed[i] = listed[j] => i = j
    BY <2>1 DEF Tidy, ListIsHeld
  <2>3. /\ Len(listed') = n + 1 /\ listed'[n + 1] = s
        /\ \A k \in 1..n : listed'[k] = listed[k] /\ listed[k] \in Subs
    BY <1>3, <2>1, Appended, ElementOfSeq DEF Types
  <2>4. (\A k \in 1..n + 1 : k \in 1..n \/ k = n + 1) /\ n + 1 \in 1..n + 1 /\ \A k \in 1..n : k \in 1..n + 1
    OBVIOUS
  <2>5. \A k \in 1..n : listed[k] # s
    BY <1>3, <2>2
  <2>6. ASSUME NothingGivenUp', NEW i \in 1..n + 1, NEW j \in 1..n + 1, listed'[i] = listed'[j] PROVE i = j
    <3>0. NothingGivenUp
      BY <1>3, <1>4, <2>6 DEF NothingGivenUp
    <3>1. CASE i \in 1..n /\ j \in 1..n
      BY <2>2, <2>3, <2>6, <3>0, <3>1
    <3>2. CASE i = n + 1 /\ j \in 1..n
      BY <2>3, <2>5, <2>6, <3>2
    <3>3. CASE i \in 1..n /\ j = n + 1
      BY <2>3, <2>5, <2>6, <3>3
    <3> QED  BY <2>4, <3>1, <3>2, <3>3
  <2>7. \A i \in 1..n + 1 : held'[listed'[i]] # "new"
    BY <1>4, <2>2, <2>3, <2>4, <2>5
  <2>8. ASSUME NEW x \in Subs, held'[x] = "held" PROVE \E i \in 1..n + 1 : listed'[i] = x
    <3>1. CASE x = s
      BY <2>3, <2>4, <3>1
    <3>2. CASE x # s
      <4>1. PICK i \in 1..n : listed[i] = x
        BY <1>4, <2>2, <2>8, <3>2
      <4> QED  BY <2>3, <2>4, <4>1
    <3> QED  BY <3>1, <3>2
  <2> QED  BY <2>3, <2>6, <2>7, <2>8 DEF ListIsHeld
<1>6. MapIsHeld'
  <2>1. \A x \in Subs : held'[x] = "held" => x \in client'.subs
    BY <1>3, <1>4 DEF Tidy, MapIsHeld
  <2>2. ASSUME NEW x \in client'.subs, held'[x] = "dropped"
        PROVE  net'.up => \E q \in client'.sent : q.type = "unsubscribe" /\ q.sub = x
    <3>1. x \in client.subs /\ held[x] = "dropped"
      BY <1>3, <1>4, <2>2
    <3> QED  BY <1>2, <3>1 DEF Tidy, MapIsHeld
  <2> QED  BY <2>1, <2>2 DEF MapIsHeld
<1>7. PICK n \in Nat :
        /\ n = Len(client.pending) /\ Len(client'.pending) = n + 1 /\ client'.pending[n + 1] = r
        /\ \A k \in 1..n : client'.pending[k] = client.pending[k]
  BY <1>2, PendingGrows
<1>8. \A i \in 1..n + 1 : i \in 1..n \/ i = n + 1
  OBVIOUS
<1>9. Courses'
  <2>1. \A x \in client.sent :
          /\ x.type = "publish" => x.sub = NoSub
          /\ x.type # "publish" => x.sub \in Subs /\ held[x.sub] # "new"
          /\ x.type = "unsubscribe" => held[x.sub] = "dropped" /\ x.sub \in client.subs
    BY DEF Tidy, Courses
  <2>2. \A x \in client'.sent :
          /\ x.type = "publish" => x.sub = NoSub
          /\ x.type # "publish" => x.sub \in Subs /\ held'[x.sub] # "new"
          /\ x.type = "unsubscribe" => held'[x.sub] = "dropped" /\ x.sub \in client'.subs
    <3> SUFFICES ASSUME NEW x \in client'.sent
                 PROVE  /\ x.type = "publish" => x.sub = NoSub
                        /\ x.type # "publish" => x.sub \in Subs /\ held'[x.sub] # "new"
                        /\ x.type = "unsubscribe" => held'[x.sub] = "dropped" /\ x.sub \in client'.subs
      OBVIOUS
    <3>1. CASE x = r
      BY <1>1, <1>4, <3>1
    <3>2. CASE x \in client.sent
      BY <1>3, <1>4, <2>1, <3>2
    <3> QED  BY <1>2, <3>1, <3>2
  <2>3. ASSUME NEW q \in client'.sent, NEW x \in client'.sent, q.type # "publish", x.type = "unsubscribe", q.sub = x.sub
        PROVE  q = x \/ (q.type = "subscribe" /\ q.id < x.id)
    <3>1. x \in client.sent /\ held[x.sub] = "dropped"
      BY <1>1, <1>2, <2>1, <2>3
    <3>2. q # r
      BY <1>1, <1>3, <2>3, <3>1
    <3> QED  BY <1>2, <2>3, <3>1, <3>2 DEF Tidy, Courses
  <2>4. \A x \in net.requests : x.sub \in Subs => x.sub \in client'.subs
    BY <1>3 DEF Tidy, Courses
  <2>5. \A i \in 1..n + 1 :
          client'.pending[i].sub \in Subs => client'.pending[i].sub \in client'.subs /\ client'.pending[i].type # "ping"
    <3>1. \A i \in 1..n : client.pending[i].sub \in Subs => client.pending[i].sub \in client.subs /\ client.pending[i].type # "ping"
      BY <1>7 DEF Tidy, Courses, IsPing
    <3> QED  BY <1>1, <1>3, <1>7, <1>8, <3>1
  <2> QED  BY <1>2, <1>7, <2>2, <2>3, <2>4, <2>5 DEF Courses, IsPing
<1>10. LastOfAll'
  <2>1. net.streaming \subseteq client'.subs
    BY <1>3 DEF Tidy, LastOfAll
  <2>2. ASSUME NEW k \in 1..Len(net.inbox), NEW x \in Subs, Leaves(k, x) PROVE Silent(x)'
    <3>1. Silent(x)
      BY <2>2 DEF Tidy, LastOfAll
    <3>2. held[x] = "dropped"
      BY <2>2, LeavingIsDropped
    <3>3. \A i \in 1..n + 1 : client'.pending[i].sub # x
      BY <1>1, <1>3, <1>7, <1>8, <3>1, <3>2 DEF Silent
    <3> QED  BY <1>2, <1>7, <3>1, <3>3 DEF Silent
  <2> QED  BY <1>2, <1>3, <2>1, <2>2 DEF Tidy, LastOfAll, Leaves
<1> QED  BY <1>5, <1>6, <1>9, <1>10 DEF Tidy

\* What is given up stays in the map until the server has answered.
LEMMA UnsubscribesTidy ==
  ASSUME Types, Numbered, Booked, Tidy, NEW s \in Subs, Unsubscribes(s)
  PROVE  Tidy'
<1>1. PICK r \in Requests : Pushes(r) /\ r.type = "unsubscribe" /\ r.sub = s
  BY DEF Unsubscribes
<1>2. /\ client'.sent = client.sent \cup {r} /\ client'.pending = Append(client.pending, r)
      /\ net' = net /\ world' = world /\ r.id = nextId
  BY <1>1 DEF Pushes
<1>3. /\ held[s] = "held" /\ held' = [held EXCEPT ![s] = "dropped"] /\ s \in client.subs
      /\ listed' = RemoveIf(listed, s)
      /\ client'.subs = client.subs /\ held \in [Subs -> {"new", "held", "dropped", "recalled"}]
      /\ client.subs \subseteq Subs
  BY DEF Unsubscribes, Types, Clients
<1>4. held'[s] = "dropped" /\ \A x \in Subs : x # s => held'[x] = held[x]
  BY <1>3
<1>5. ListIsHeld'
  <2>1. PICK n \in Nat : n = Len(listed)
    BY LenProperties DEF Types
  <2>2. /\ \A x \in Subs : held[x] = "held" => \E i \in 1..n : listed[i] = x
        /\ \A i \in 1..n : held[listed[i]] # "new" /\ listed[i] \in Subs
    BY <2>1, ElementOfSeq DEF Tidy, ListIsHeld, Types
  <2>3. /\ Len(listed') = n
        /\ \A k \in 1..n : \E i \in 1..n : listed'[k] = listed[i]
        /\ \A i \in 1..n : listed[i] # s => \E k \in 1..n : listed'[k] = listed[i]
    <3>1. listed \in Seq(Subs) /\ listed' = RemoveIf(listed, s)
      BY <1>3 DEF Types
    <3>2. KeepsBut(s, listed, listed')
      BY <3>1, RemoveIfKeeps
    <3> QED  BY <2>1, <3>2 DEF KeepsBut
  <2>4. ASSUME NEW x \in Subs, held'[x] = "held" PROVE \E k \in 1..n : listed'[k] = x
    <3>1. x # s /\ held[x] = "held"
      BY <1>4, <2>4
    <3>2. PICK i \in 1..n : listed[i] = x
      BY <2>2, <3>1
    <3> QED  BY <2>3, <3>1, <3>2
  <2>5. ASSUME NEW k \in 1..n PROVE held'[listed'[k]] # "new"
    <3>1. PICK i \in 1..n : listed'[k] = listed[i]
      BY <2>3
    <3> QED  BY <1>4, <2>2, <3>1
  <2>6. ~NothingGivenUp'
    BY <1>4 DEF NothingGivenUp
  <2> QED  BY <2>3, <2>4, <2>5, <2>6 DEF ListIsHeld
<1>6. MapIsHeld'
  <2>1. \A x \in Subs : held'[x] = "held" => x \in client'.subs
    BY <1>3, <1>4 DEF Tidy, MapIsHeld
  <2>2. ASSUME NEW x \in client'.subs, held'[x] = "dropped"
        PROVE  net'.up => \E q \in client'.sent : q.type = "unsubscribe" /\ q.sub = x
    <3>1. CASE x = s
      BY <1>1, <1>2, <3>1
    <3>2. CASE x # s
      <4>1. x \in client.subs /\ held[x] = "dropped"
        BY <1>3, <1>4, <2>2, <3>2
      <4> QED  BY <1>2, <4>1 DEF Tidy, MapIsHeld
    <3> QED  BY <3>1, <3>2
  <2> QED  BY <2>1, <2>2 DEF MapIsHeld
<1>7. PICK n \in Nat :
        /\ n = Len(client.pending) /\ Len(client'.pending) = n + 1 /\ client'.pending[n + 1] = r
        /\ \A k \in 1..n : client'.pending[k] = client.pending[k]
  BY <1>2, PendingGrows
<1>8. \A i \in 1..n + 1 : i \in 1..n \/ i = n + 1
  OBVIOUS
<1>9. Courses'
  <2>1. \A x \in client.sent :
          /\ x.type = "publish" => x.sub = NoSub
          /\ x.type # "publish" => x.sub \in Subs /\ held[x.sub] # "new"
          /\ x.type = "unsubscribe" => held[x.sub] = "dropped" /\ x.sub \in client.subs
    BY DEF Tidy, Courses
  <2>2. \A x \in client'.sent :
          /\ x.type = "publish" => x.sub = NoSub
          /\ x.type # "publish" => x.sub \in Subs /\ held'[x.sub] # "new"
          /\ x.type = "unsubscribe" => held'[x.sub] = "dropped" /\ x.sub \in client'.subs
    <3> SUFFICES ASSUME NEW x \in client'.sent
                 PROVE  /\ x.type = "publish" => x.sub = NoSub
                        /\ x.type # "publish" => x.sub \in Subs /\ held'[x.sub] # "new"
                        /\ x.type = "unsubscribe" => held'[x.sub] = "dropped" /\ x.sub \in client'.subs
      OBVIOUS
    <3>1. CASE x = r
      BY <1>1, <1>3, <1>4, <3>1
    <3>2. CASE x \in client.sent
      BY <1>3, <1>4, <2>1, <3>2
    <3> QED  BY <1>2, <3>1, <3>2
  <2>3. ASSUME NEW q \in client'.sent, NEW x \in client'.sent, q.type # "publish", x.type = "unsubscribe", q.sub = x.sub
        PROVE  q = x \/ (q.type = "subscribe" /\ q.id < x.id)
    <3>1. CASE x \in client.sent
      <4>1. held[x.sub] = "dropped"
        BY <2>1, <2>3, <3>1
      <4>2. q # r
        BY <1>1, <1>3, <2>3, <4>1
      <4> QED  BY <1>2, <2>3, <3>1, <4>2 DEF Tidy, Courses
    <3>2. CASE x = r
      <4>1. CASE q = r
        BY <3>2, <4>1
      <4>2. CASE q \in client.sent
        <5>1. q.type # "ping" /\ q.type \in Calls \cup {"ping"}
          BY <4>2 DEF Booked, Known, Types, Clients, Requests
        <5>2. q.type # "unsubscribe"
          BY <1>1, <1>3, <2>1, <2>3, <3>2, <4>2
        <5>3. q.id < nextId
          BY <4>2 DEF Numbered
        <5> QED  BY <1>2, <2>3, <3>2, <5>1, <5>2, <5>3 DEF Calls
      <4> QED  BY <1>2, <4>1, <4>2
    <3> QED  BY <1>2, <3>1, <3>2
  <2>4. \A x \in net.requests : x.sub \in Subs => x.sub \in client'.subs
    BY <1>3 DEF Tidy, Courses
  <2>5. \A i \in 1..n + 1 :
          client'.pending[i].sub \in Subs => client'.pending[i].sub \in client'.subs /\ client'.pending[i].type # "ping"
    <3>1. \A i \in 1..n : client.pending[i].sub \in Subs => client.pending[i].sub \in client.subs /\ client.pending[i].type # "ping"
      BY <1>7 DEF Tidy, Courses, IsPing
    <3> QED  BY <1>1, <1>3, <1>7, <1>8, <3>1
  <2> QED  BY <1>2, <1>7, <2>2, <2>3, <2>4, <2>5 DEF Courses, IsPing
<1>10. LastOfAll'
  <2>1. net.streaming \subseteq client'.subs
    BY <1>3 DEF Tidy, LastOfAll
  <2>2. ASSUME NEW k \in 1..Len(net.inbox), NEW x \in Subs, Leaves(k, x) PROVE Silent(x)'
    <3>1. Silent(x)
      BY <2>2 DEF Tidy, LastOfAll
    <3>2. held[x] = "dropped"
      BY <2>2, LeavingIsDropped
    <3>3. \A i \in 1..n + 1 : client'.pending[i].sub # x
      BY <1>1, <1>3, <1>7, <1>8, <3>1, <3>2 DEF Silent
    <3> QED  BY <1>2, <1>7, <3>1, <3>3 DEF Silent
  <2> QED  BY <1>2, <1>3, <2>1, <2>2 DEF Tidy, LastOfAll, Leaves
<1> QED  BY <1>5, <1>6, <1>9, <1>10 DEF Tidy

\* The answer to an unsubscribe request takes the subscription and the request with it.
LEMMA EndsTidy ==
  ASSUME Types, Booked, Tidy, NEW m \in Messages, Handles(m), m.type = "unsubscribe"
  PROVE  Tidy'
<1>1. /\ Consumes /\ Kept /\ client'.pending = client.pending /\ m = net.inbox[1]
      /\ client'.sent = {x \in client.sent : x.id # m.id} /\ client'.subs = client.subs \ {m.sub}
  <2>1. Ends(m) /\ m.type \notin {"data", "error"}
    BY DEF Ends
  <2> QED  BY <2>1, Zenon DEF Handles, Kept
<1>2. net'.requests = net.requests /\ net'.streaming = net.streaming /\ net'.up = net.up
  BY <1>1 DEF Consumes
<1>3. PICK l \in Nat :
        /\ l = Len(net.inbox) /\ l > 0 /\ Len(net'.inbox) = l - 1
        /\ \A k \in 1..l - 1 : net'.inbox[k] = net.inbox[k + 1] /\ k + 1 \in 1..l
  BY <1>1, InboxShrinks
<1>4. 1 \in 1..Len(net.inbox) /\ Leaves(1, m.sub)
  BY <1>1, <1>3 DEF Leaves
<1>5. PICK e \in client.sent : e.type = "unsubscribe" /\ e.sub = m.sub /\ e.id = m.id
  BY <1>1, <1>4, LeavingIsDropped
<1>6. held[m.sub] = "dropped" /\ m.sub \in Subs /\ Silent(m.sub)
  BY <1>4, LeavingIsDropped DEF Tidy, LastOfAll
<1>7. client'.sent \subseteq client.sent /\ e \notin client'.sent /\ \A x \in client.sent : x # e => x \in client'.sent
  BY <1>1, <1>5 DEF Booked, Known
<1>8. held' = held /\ listed' = listed /\ client.subs \subseteq Subs
  BY <1>1 DEF Kept, Types, Clients
<1>9. ListIsHeld'
  BY <1>1, <1>8 DEF Tidy, ListIsHeld, NothingGivenUp
<1>10. MapIsHeld'
  <2>1. \A x \in Subs : held[x] = "held" => x \in client'.subs
    BY <1>1, <1>6 DEF Tidy, MapIsHeld
  <2>2. ASSUME net.up, NEW x \in client'.subs, held[x] = "dropped"
        PROVE  \E q \in client'.sent : q.type = "unsubscribe" /\ q.sub = x
    <3>1. x \in client.subs /\ x # m.sub
      BY <1>1, <2>2
    <3>2. PICK q \in client.sent : q.type = "unsubscribe" /\ q.sub = x
      BY <2>2, <3>1 DEF Tidy, MapIsHeld
    <3> QED  BY <1>5, <1>7, <3>1, <3>2
  <2> QED  BY <1>2, <1>8, <2>1, <2>2 DEF MapIsHeld
<1>11. Courses'
  <2>1. ASSUME NEW x \in client'.sent
        PROVE  /\ x.type = "publish" => x.sub = NoSub
               /\ x.type # "publish" => x.sub \in Subs /\ held[x.sub] # "new"
               /\ x.type = "unsubscribe" => held[x.sub] = "dropped" /\ x.sub \in client'.subs
    <3>1. x \in client.sent /\ x # e
      BY <1>7
    <3>2. x.type = "unsubscribe" => x.sub # m.sub
      BY <1>5, <3>1 DEF Tidy, Courses
    <3> QED  BY <1>1, <3>1, <3>2 DEF Tidy, Courses
  <2>2. \A q, x \in client'.sent :
          q.type # "publish" /\ x.type = "unsubscribe" /\ q.sub = x.sub => q = x \/ (q.type = "subscribe" /\ q.id < x.id)
    BY <1>7 DEF Tidy, Courses
  <2>3. \A x \in net.requests : x.sub \in Subs => x.sub \in client'.subs
    BY <1>1, <1>6 DEF Tidy, Courses, Silent
  <2>4. \A i \in 1..Len(client.pending) :
          client.pending[i].sub \in Subs => client.pending[i].sub \in client'.subs /\ client.pending[i].type # "ping"
    BY <1>1, <1>6 DEF Tidy, Courses, Silent, IsPing
  <2> QED  BY <1>1, <1>2, <1>8, <2>1, <2>2, <2>3, <2>4 DEF Courses, IsPing
<1>12. LastOfAll'
  <2>1. net.streaming \subseteq client'.subs
    BY <1>1, <1>6 DEF Tidy, LastOfAll, Silent
  <2>2. \A x : Silent(x) => Silent(x)'
    BY <1>1, <1>2 DEF Silent
  <2>3. ASSUME NEW k \in 1..l - 1, NEW x \in Subs, Leaves(k, x)' PROVE Silent(x)'
    <3>1. k + 1 \in 1..Len(net.inbox) /\ Leaves(k + 1, x)
      BY <1>3, <2>3 DEF Leaves
    <3> QED  BY <2>2, <3>1 DEF Tidy, LastOfAll
  <2>4. ASSUME NEW k \in 1..l - 1, net'.inbox[k].type = "data"
        PROVE  net'.inbox[k].sub \in client'.subs /\ \A j \in 1..k - 1 : ~Leaves(j, net.inbox[k].sub)'
    <3>1. k + 1 \in 1..Len(net.inbox) /\ net'.inbox[k] = net.inbox[k + 1]
      BY <1>3
    <3>2. net.inbox[k + 1].sub \in client.subs /\ \A j \in 1..(k + 1) - 1 : ~Leaves(j, net.inbox[k + 1].sub)
      BY <2>4, <3>1 DEF Tidy, LastOfAll
    <3>3. 1 \in 1..(k + 1) - 1 /\ \A j \in 1..k - 1 : j + 1 \in 1..(k + 1) - 1 /\ j \in 1..l - 1
      OBVIOUS
    <3>4. net.inbox[k + 1].sub # m.sub
      BY <1>4, <3>2, <3>3
    <3>5. \A j \in 1..k - 1 : ~Leaves(j, net.inbox[k].sub)'
      BY <1>3, <3>1, <3>2, <3>3 DEF Leaves
    <3> QED  BY <1>1, <3>1, <3>2, <3>4, <3>5
  <2> QED  BY <1>2, <1>3, <2>1, <2>3, <2>4 DEF LastOfAll
<1> QED  BY <1>9, <1>10, <1>11, <1>12 DEF Tidy

\* The server's answer to an unsubscribe request is the last it says of the subscription:
\* it answers in order, and nothing was asked after that request.
LEMMA AnswersTidy ==
  ASSUME Types, Booked, Tidy, NEW r \in Requests, NEW m \in Messages, Answers(r, m), r.type = "unsubscribe"
  PROVE  Tidy'
<1>1. /\ OnlyNet /\ Sends(net, m) /\ r \in net.requests
      /\ m.type = r.type /\ m.id = r.id /\ m.sub = r.sub
      /\ net'.requests = net.requests \ {r} /\ net'.streaming = net.streaming \ {r.sub}
      /\ \A q \in net.requests : q.sub = r.sub /\ r.sub # NoSub => q.id >= r.id
  BY Zenon DEF Answers
<1>2. client' = client /\ held' = held /\ listed' = listed /\ net'.up = net.up
  BY <1>1 DEF OnlyNet, Sends
<1>3. r \in client.sent /\ r.sub \in Subs /\ NoSub \notin Subs
  BY <1>1, ClientAssumption DEF Booked, Known, Tidy, Courses
<1>4. PICK l \in Nat :
         /\ l = Len(net.inbox) /\ Len(net'.inbox) = l + 1 /\ net'.inbox[l + 1] = m
         /\ \A k \in 1..l : net'.inbox[k] = net.inbox[k]
  BY <1>1, InboxGrows
<1>5. (\A k \in 1..l + 1 : k \in 1..l \/ k = l + 1) /\ \A k \in 1..l + 1 : \A j \in 1..k - 1 : j \in 1..l
  OBVIOUS
<1>6. ASSUME NEW q \in client.sent, q.sub = r.sub PROVE q = r \/ q.id < r.id
  <2>1. q.type # "publish"
    BY <1>3, <1>6 DEF Tidy, Courses
  <2> QED  BY <1>1, <1>3, <1>6, <2>1 DEF Tidy, Courses
<1>7. Silent(r.sub)'
  <2>1. ASSUME NEW q \in net'.requests, q.sub = r.sub PROVE FALSE
    <3>1. q \in net.requests /\ q # r /\ q \in client.sent /\ q.id \in Nat /\ r.id \in Nat
      BY <1>1, <2>1 DEF Booked, Known, Types, Nets, Requests
    <3>2. q.id >= r.id
      BY <1>1, <1>3, <2>1, <3>1
    <3> QED  BY <1>6, <2>1, <3>1, <3>2
  <2>2. ASSUME NEW i \in 1..Len(client.pending), client.pending[i].sub = r.sub PROVE FALSE
    <3>1. client.pending[i].type # "ping"
      BY <1>3, <2>2 DEF Tidy, Courses, IsPing
    <3>2. client.pending[i] \in client.sent /\ r.id < client.pending[i].id
      BY <1>1, <3>1 DEF Booked, Queued, IsPing
    <3>3. r.id \in Nat /\ client.pending[i].id \in Nat
      BY PendingTypes DEF Requests
    <3> QED  BY <1>6, <2>2, <3>2, <3>3
  <2> QED  BY <1>1, <1>2, <2>1, <2>2 DEF Silent
<1>8. \A x : Silent(x) => Silent(x)'
  BY <1>1, <1>2 DEF Silent
<1>9. ListIsHeld' /\ MapIsHeld'
  BY <1>1, <1>2 DEF Tidy, ListIsHeld, NothingGivenUp, MapIsHeld
<1>10. Courses'
  BY <1>1, <1>2 DEF Tidy, Courses, IsPing
<1>11. LastOfAll'
  <2>1. net'.streaming \subseteq client.subs
    BY <1>1 DEF Tidy, LastOfAll
  <2>2. ASSUME NEW k \in 1..l + 1, NEW x \in Subs, Leaves(k, x)' PROVE Silent(x)'
    <3>1. CASE k \in 1..l
      <4>1. Leaves(k, x)
        BY <1>4, <2>2, <3>1 DEF Leaves
      <4> QED  BY <1>4, <1>8, <3>1, <4>1 DEF Tidy, LastOfAll
    <3>2. CASE k = l + 1
      <4>1. x = r.sub
        BY <1>1, <1>4, <2>2, <3>2 DEF Leaves
      <4> QED  BY <1>7, <4>1
    <3> QED  BY <1>5, <3>1, <3>2
  <2>3. ASSUME NEW k \in 1..l + 1, net'.inbox[k].type = "data"
        PROVE  net'.inbox[k].sub \in client.subs /\ \A j \in 1..k - 1 : ~Leaves(j, net.inbox[k].sub)'
    <3>1. k \in 1..l
      BY <1>1, <1>4, <1>5, <2>3
    <3>2. net.inbox[k].sub \in client.subs /\ \A j \in 1..k - 1 : ~Leaves(j, net.inbox[k].sub)
      BY <1>4, <2>3, <3>1 DEF Tidy, LastOfAll
    <3>3. \A j \in 1..k - 1 : net'.inbox[j] = net.inbox[j]
      BY <1>4, <1>5
    <3> QED  BY <1>4, <3>1, <3>2, <3>3 DEF Leaves
  <2> QED  BY <1>2, <1>4, <2>1, <2>2, <2>3 DEF LastOfAll
<1> QED  BY <1>9, <1>10, <1>11 DEF Tidy

\* A restart subscribes again to what is listed: to all that is held, and to what it
\* recalls.
LEMMA RestartTidy ==
  ASSUME Types, Tidy, Restarting
  PROVE  Tidy'
<1>1. PICK n \in Nat : n = Len(listed)
  BY LenProperties DEF Types
<1>2. /\ \A k \in 1..n : listed[k] \in client'.subs
      /\ \A s \in client'.subs : \E k \in 1..n : s = listed[k]
      /\ Len(client'.pending) = n
      /\ \A k \in 1..n : client'.pending[k].type = "subscribe" /\ client'.pending[k].sub = listed[k]
      /\ \A r \in client'.sent : \E k \in 1..n : r = client'.pending[k]
      /\ listed' = listed /\ held' = Recalled(listed)
  BY <1>1 DEF Restarting, RestoredAs
<1>3. net'.requests = {} /\ net'.inbox = <<>> /\ net'.streaming = {}
  BY NewConnectionMakes DEF Restarting
<1>4. Len(net'.inbox) = 0
  BY <1>3
<1>5. /\ \A i \in 1..n : held[listed[i]] # "new" /\ listed[i] \in Subs
      /\ \A s \in Subs : held[s] = "held" => \E i \in 1..n : listed[i] = s
      /\ NothingGivenUp => \A i, j \in 1..n : listed[i] = listed[j] => i = j
  BY <1>1, ElementOfSeq DEF Tidy, ListIsHeld, Types
<1>6. ToSet(listed) = {listed[k] : k \in 1..n}
  <2>1. DOMAIN listed = 1..n
    BY <1>1, LenProperties DEF Types
  <2> QED  BY <2>1 DEF ToSet
<1>7. \A s \in Subs : held'[s] = IF held[s] = "dropped" /\ s \in ToSet(listed) THEN "recalled" ELSE held[s]
  BY <1>2 DEF Recalled
<1>8. /\ \A s \in Subs : (held'[s] = "held" <=> held[s] = "held") /\ (held'[s] = "new" <=> held[s] = "new")
      /\ \A k \in 1..n : held'[listed[k]] # "dropped"
  BY <1>5, <1>6, <1>7
<1>9. ListIsHeld'
  <2>1. NothingGivenUp' => NothingGivenUp
    BY <1>8 DEF NothingGivenUp
  <2> QED  BY <1>1, <1>2, <1>5, <1>8, <2>1 DEF ListIsHeld
<1>10. MapIsHeld'
  <2>1. \A s \in Subs : held'[s] = "held" => s \in client'.subs
    BY <1>2, <1>5, <1>8
  <2>2. \A s \in client'.subs : held'[s] # "dropped"
    BY <1>2, <1>8
  <2> QED  BY <2>1, <2>2 DEF MapIsHeld
<1>11. \A r \in client'.sent : r.type = "subscribe" /\ r.sub \in Subs /\ held'[r.sub] # "new"
  BY <1>2, <1>5, <1>8
<1>12. Courses'
  BY <1>2, <1>3, <1>5, <1>11 DEF Courses, IsPing
<1>13. LastOfAll'
  BY <1>3, <1>4 DEF LastOfAll
<1> QED  BY <1>9, <1>10, <1>12, <1>13 DEF Tidy

\* the steps that may be taken while all is in order
Quiet == Silences /\ client.state = "PENDING_STOPPED"
\* a step that ends the program, in a way that NoCheckFails allows
Fails == crash' # "" /\ NoCheckFails'
Calling == Quiet \/ Publishes \/ (\E s \in Subs : Subscribes(s) \/ Unsubscribes(s))
Reads ==
  \/ Ponged \/ ReadEnds \/ (\E m \in Messages : Handles(m)) \/ Finishes \/ FallsSilent
  \/ (Restarting /\ client.state = "RUNNING" /\ client.reading = "error")
Others ==
  \/ Stopping \/ Pinging \/ Ticks \/ (\E r \in Requests, ok \in BOOLEAN : Written(r, ok)) \/ UNCHANGED vars
  \/ (\E r \in Requests, m \in Messages : Answers(r, m)) \/ (\E s \in Subs, m \in Messages : Streams(s, m)) \/ Loses

\* A call issues a request, or is ignored by a client that is stopping, or fails for a
\* client that has stopped.
LEMMA CallsMade ==
  ASSUME Types, Alive, Ordered, Publish \/ \E s \in Subs : Subscribe(s) \/ Unsubscribe(s)
  PROVE  Fails \/ Calling
<1>1. ASSUME Silences PROVE Fails \/ Quiet
  <2>1. client.state \in ClientStates
    BY DEF Types, Clients
  <2>2. CASE client.state = "STOPPED"
    BY <1>1, <2>2 DEF Silences, Fails, NoCheckFails
  <2>3. CASE client.state = "PENDING_STOPPED"
    BY <1>1, <2>3 DEF Quiet
  <2> QED  BY <1>1, <2>1, <2>2, <2>3 DEF ClientStates, Silences
<1>2. ASSUME NEW type \in Calls, NEW s \in Subs \cup {NoSub}, Pushes(Request(type, nextId, s))
      PROVE  \E r \in Requests : Pushes(r) /\ r.type = type /\ r.sub = s
  <2>1. PICK r : r = Request(type, nextId, s)
    OBVIOUS
  <2>2. r.type = type /\ r.sub = s
    BY <2>1 DEF Request
  <2>3. r \in Requests /\ Pushes(r)
    BY <1>2, <2>1 DEF Pushes
  <2> QED  BY <2>2, <2>3
<1>3. "publish" \in Calls /\ "subscribe" \in Calls /\ "unsubscribe" \in Calls
  BY DEF Calls
<1>4. ASSUME Publish PROVE Fails \/ Calling
  <2>1. Silences \/ (Pushes(Request("publish", nextId, NoSub)) /\ client'.subs = client.subs)
    BY <1>4, CallMoves
  <2>2. Kept
    BY <1>4, CallMoves DEF Kept
  <2> QED  BY <1>1, <1>2, <1>3, <2>1, <2>2 DEF Calling, Publishes
<1>5. ASSUME NEW s \in Subs, Subscribe(s) PROVE Fails \/ Calling
  <2>1. /\ held[s] = "new" /\ held' = [held EXCEPT ![s] = "held"] /\ listed' = Append(listed, s)
        /\ Silences \/ (Pushes(Request("subscribe", nextId, s)) /\ client'.subs = client.subs \cup {s})
    BY <1>5, CallMoves
  <2>2. Silences \/ Subscribes(s)
    BY <1>2, <1>3, <2>1 DEF Subscribes
  <2> QED  BY <1>1, <2>2 DEF Calling
<1>6. ASSUME NEW s \in Subs, Unsubscribe(s) PROVE Fails \/ Calling
  <2>1. \/ Aborts /\ client.state = "RUNNING" /\ held[s] = "held" /\ s \notin client.subs
        \/ /\ held[s] = "held" /\ held' = [held EXCEPT ![s] = "dropped"] /\ listed' = RemoveIf(listed, s)
           /\ \/ Silences
              \/ Pushes(Request("unsubscribe", nextId, s)) /\ client'.subs = client.subs /\ s \in client.subs
    BY <1>6, CallMoves
  <2>2. ~(client.state = "RUNNING" /\ held[s] = "held" /\ s \notin client.subs)
    BY DEF Ordered, Tidy, MapIsHeld
  <2>3. Silences \/ Unsubscribes(s)
    BY <1>2, <1>3, <2>1, <2>2 DEF Unsubscribes
  <2> QED  BY <1>1, <2>3 DEF Calling
<1> QED  BY <1>4, <1>5, <1>6

\* What was read finds its request and its subscription.
LEMMA NothingRefused ==
  ASSUME Types, Loops, Booked, Faultless, Alive, HeadIsKnown
  PROVE  ~Refuses /\ ~Drops
<1> DEFINE m == net.inbox[1]
<1>0. SUFFICES ASSUME client.reading = "message", net.inbox # <<>>, Alive,
                      m.type = "garbage" \/ \E why \in Outcomes(client, m) : why # ""
               PROVE  FALSE
  <2>1. Refuses => Alive /\ client.reading = "message" /\ net.inbox # <<>> /\ \E why \in Outcomes(client, m) : why # ""
    BY Zenon DEF Refuses, Consumes
  <2>2. Drops => client.reading = "message" /\ net.inbox # <<>> /\ m.type = "garbage"
    BY Zenon DEF Drops, Consumes
  <2> QED  BY <2>1, <2>2
<1>1. 1 \in 1..Len(net.inbox) /\ m \in Messages
  <2>1. net.inbox # <<>>
    BY <1>0
  <2>2. 1 \in 1..Len(net.inbox)
    BY <2>1, InboxTypes
  <2> QED  BY <2>2, InboxTypes
<1>2. m.type # "pong"
  BY <1>0 DEF Loops
<1>3. m.type \in Calls \cup {"data"} /\ (m.type = "subscribe" => m.ok)
  BY <1>1, <1>2 DEF Booked, Known
<1>4. m.type \in {"data", "unsubscribe"} => m.sub \in client.subs
  BY <1>0 DEF HeadIsKnown
<1>5. m.type # "data" => \E r \in client.sent : r.id = m.id
  BY <1>1, <1>3, AsksMakes DEF Booked, Known, IsAnswer
<1>6. \A why \in Outcomes(client, m) : why = ""
  <2>1. CASE m.type = "data"
    BY <1>4, <2>1 DEF Outcomes, Knows
  <2>2. CASE m.type # "data"
    <3>1. "freed reads" \notin world.faults
      BY DEF Faultless
    <3>2. m.type \notin {"data", "error"}
      BY <1>3, <2>2 DEF Calls
    <3>3. CASE m.type = "unsubscribe"
      <4>1. Knows(client, m.sub) /\ Ends(m)
        BY <1>4, <3>3 DEF Knows, Ends
      <4> QED  BY <1>5, <2>2, <3>1, <3>2, <4>1 DEF Outcomes
    <3>4. CASE m.type # "unsubscribe"
      <4>1. ~Ends(m)
        BY <1>3, <3>4 DEF Ends
      <4> QED  BY <1>5, <2>2, <3>1, <3>2, <4>1 DEF Outcomes
    <3> QED  BY <3>3, <3>4
  <2> QED  BY <2>1, <2>2
<1>7. m.type # "garbage"
  BY <1>3 DEF Calls
<1> QED  BY <1>0, <1>6, <1>7

\* The list repeats something only after something on it was given up.
LEMMA NothingRepeats ==
  ASSUME Types, Tidy, NothingGivenUp
  PROVE  ~Repeats(listed)
<1>2. PICK n \in Nat : n = Len(listed) /\ DOMAIN listed = 1..n
  BY LenProperties DEF Types
<1>3. \A i, j \in 1..n : listed[i] = listed[j] => i = j
  BY <1>2 DEF Tidy, ListIsHeld
<1>4. ToSet(listed) = {listed[i] : i \in 1..n}
  BY <1>2 DEF ToSet
<1>5. IsFiniteSet(ToSet(listed)) /\ Cardinality(ToSet(listed)) = n
  <2>1. PICK f : f = [i \in 1..n |-> listed[i]]
    OBVIOUS
  <2>2. /\ f \in [1..n -> ToSet(listed)] /\ DOMAIN f = 1..n
        /\ \A i, j \in 1..n : f[i] = f[j] => i = j
        /\ \A x \in ToSet(listed) : \E i \in 1..n : f[i] = x
    BY <1>3, <1>4, <2>1
  <2>3. f \in Injection(1..n, ToSet(listed)) /\ f \in Surjection(1..n, ToSet(listed))
    BY <2>2 DEF Injection, IsInjective, Surjection
  <2>4. ExistsBijection(1..n, ToSet(listed))
    BY <2>3 DEF ExistsBijection, Bijection
  <2>5. IsFiniteSet(1..n) /\ Cardinality(1..n) = n
    <3>1. 1 \in Int /\ n \in Int
      OBVIOUS
    <3>2. IsFiniteSet(1..n) /\ Cardinality(1..n) = IF 1 > n THEN 0 ELSE n - 1 + 1
      BY <3>1, FS_Interval
    <3> QED  BY <3>2
  <2> QED  BY <2>4, <2>5, FS_Bijection
<1> QED  BY <1>2, <1>5 DEF Repeats

\* In a world without faults everything a step looks up is found, but for the two
\* failures that NoCheckFails allows.
LEMMA SafeMoves ==
  ASSUME Types, Loops, Booked, Faultless, Alive, Ordered, [Next]_vars
  PROVE  Fails \/ Calling \/ Reads \/ Others
<1>1. ASSUME Aborts, crash' \in {"rtm error", "destroyed client used"} PROVE Fails
  BY <1>1 DEF Fails, NoCheckFails, Stops
<1>2. Stop => Others
  BY StopMoves DEF Others
<1>3. PingTimer \/ TimerExpires => Others
  BY TimerMoves DEF Others
<1>4. ASSUME NEW ok \in BOOLEAN, RequestDone(ok) PROVE Fails \/ Others
  <2>1. ~(client.pending # <<>> /\ ~IsPing(1) /\ client.pending[1] \notin client.sent)
    <3> SUFFICES ASSUME client.pending # <<>>, ~IsPing(1) PROVE client.pending[1] \in client.sent
      OBVIOUS
    <3>1. 1 \in 1..Len(client.pending)
      BY PendingTypes
    <3> QED  BY <3>1 DEF Booked, Queued
  <2>2. (Aborts /\ crash' = "destroyed client used") \/ \E r \in Requests : Written(r, ok)
    BY <1>4, <2>1, WriteMoves
  <2> QED  BY <1>1, <2>2 DEF Others
<1>5. Pong => Reads
  <2>1. ~(net.inbox # <<>> /\ net.inbox[1].type = "pong" /\ net.inbox[1].id \notin client.pings)
    <3> SUFFICES ASSUME net.inbox # <<>>, net.inbox[1].type = "pong" PROVE net.inbox[1].id \in client.pings
      OBVIOUS
    <3>1. 1 \in 1..Len(net.inbox)
      BY InboxTypes
    <3> QED  BY <3>1 DEF Booked, Known, IsPong
  <2> QED  BY <2>1, AskedMoves DEF Reads
<1>6. ReadCompletes => Reads
  BY AskedMoves DEF Reads
<1>7. ReadMessage => Reads
  <2>1. ReadMessage => Drops \/ Refuses \/ \E m \in Messages : Handles(m)
    BY MessageMoves
  <2> QED  BY <2>1, NothingRefused, Zenon DEF Reads, Ordered
<1>8. ReadAborted => Reads
  BY FailureMoves, Zenon DEF Reads
<1>9. ReadFailed => Fails \/ Reads
  <2> SUFFICES ASSUME ReadFailed PROVE Fails \/ Reads
    OBVIOUS
  <2>1. \/ Aborts /\ crash' = "rtm error"
        \/ Aborts /\ crash' = "subscription already exists" /\ Repeats(listed) /\ client.state = "RUNNING"
        \/ Restarting /\ client.state = "RUNNING" /\ client.reading = "error"
        \/ FallsSilent
    BY FailureMoves
  <2>2. ASSUME Aborts, crash' = "subscription already exists", Repeats(listed), client.state = "RUNNING"
        PROVE  Fails
    <3>1. PICK s \in Subs : held[s] \notin {"new", "held"}
      BY <2>2, NothingRepeats DEF Ordered, NothingGivenUp
    <3>2. held[s] \in {"dropped", "recalled"}
      BY <3>1 DEF Types
    <3>3. listed' = listed /\ held' = held
      BY <2>2 DEF Aborts
    <3> QED  BY <2>2, <3>2, <3>3 DEF Fails, NoCheckFails
  <2> QED  BY <1>1, <2>1, <2>2, Zenon DEF Reads
<1>10. OrphanRuns => Fails
  BY <1>1, NetMoves
<1>11. ASSUME NEW r \in net.requests, Answer(r) PROVE Others
  <2>1. r \in Requests
    BY DEF Types, Nets
  <2> QED  BY <1>11, <2>1, NetMoves, Zenon DEF Others
<1>12. ASSUME NEW s \in Subs, Stream(s) PROVE Others
  BY <1>12, NetMoves, Zenon DEF Others
<1>13. ~Garbage /\ ~ArrivesEarly
  BY DEF Garbage, ArrivesEarly, Faultless
<1>14. Breaks => Others
  BY NetMoves, Zenon DEF Others
<1>15. UNCHANGED vars => Others
  BY DEF Others
<1>16. Publish \/ (\E s \in Subs : Subscribe(s) \/ Unsubscribe(s)) => Fails \/ Calling
  BY CallsMade
<1>17. Read => Fails \/ Reads
  BY <1>5, <1>6, <1>7, <1>8, <1>9, Zenon DEF Read
<1>18. Write => Fails \/ Others
  BY <1>4, Zenon DEF Write
<1>19. Server => Others
  BY <1>11, Zenon DEF Server
<1> QED
  BY <1>2, <1>3, <1>10, <1>12, <1>13, <1>14, <1>15, <1>16, <1>17, <1>18, <1>19, Zenon DEF Next

\* Everything stays in order while the client runs.
LEMMA TidyKept ==
  ASSUME Types, Loops, Numbered, Booked, Faultless, Ordered, Calling \/ Reads \/ Others, client'.state = "RUNNING"
  PROVE  Tidy'
<1>1. client.state = "RUNNING" /\ ~Quiet /\ ~Stopping /\ ~Finishes /\ ~FallsSilent
  <2>1. ~Quiet /\ ~Stopping /\ ~Finishes /\ ~FallsSilent
    BY DEF Quiet, Silences, Stopping, Finishes, FallsSilent
  <2>2. Calling => client.state = "RUNNING"
    BY <2>1 DEF Calling, Publishes, Subscribes, Unsubscribes, Pushes
  <2>3. Reads => client.state = "RUNNING"
    BY <2>1, Zenon DEF Reads, Ponged, ReadEnds, Handles
  <2>4. Others => client.state = "RUNNING"
    <3>1. Pinging \/ Ticks \/ UNCHANGED vars \/ Loses => client'.state = client.state
      BY DEF Pinging, Pinged, Ticks, vars, Loses, OnlyNet
    <3>2. \A r \in Requests, ok \in BOOLEAN : Written(r, ok) => client'.state = client.state
      BY Zenon DEF Written
    <3>3. \A r \in Requests, m \in Messages : Answers(r, m) => client'.state = client.state
      BY Zenon DEF Answers, OnlyNet
    <3>4. \A s \in Subs, m \in Messages : Streams(s, m) => client'.state = client.state
      BY Zenon DEF Streams, OnlyNet
    <3> QED  BY <2>1, <3>1, <3>2, <3>3, <3>4, Zenon DEF Others
  <2> QED  BY <2>1, <2>2, <2>3, <2>4
<1>2. Tidy
  BY <1>1 DEF Ordered
<1>3. Ticks \/ ReadEnds \/ Loses \/ Pinging \/ Publishes \/ UNCHANGED vars => Tidy'
  BY <1>2, IssueGently, GentlyTidy
<1>4. \A s \in Subs : Subscribes(s) \/ Unsubscribes(s) => Tidy'
  BY <1>2, SubscribesTidy, UnsubscribesTidy
<1>5. Ponged => Tidy'
  BY <1>1, <1>2, ReadGently, GentlyTidy
<1>6. ASSUME NEW m \in Messages, Handles(m) PROVE Tidy'
  <2>1. CASE m.type = "unsubscribe"
    BY <1>2, <1>6, <2>1, EndsTidy
  <2>2. CASE m.type # "unsubscribe"
    BY <1>1, <1>2, <1>6, <2>2, ReadGently, GentlyTidy
  <2> QED  BY <2>1, <2>2
<1>7. Restarting /\ client.state = "RUNNING" /\ client.reading = "error" => Tidy'
  BY <1>2, RestartTidy
<1>8. ASSUME NEW r \in Requests, NEW ok \in BOOLEAN, Written(r, ok) PROVE Tidy'
  BY <1>1, <1>2, <1>8, WrittenGently, GentlyTidy
<1>9. ASSUME NEW r \in Requests, NEW m \in Messages, Answers(r, m) PROVE Tidy'
  <2>1. CASE r.type = "unsubscribe"
    BY <1>2, <1>9, <2>1, AnswersTidy
  <2>2. CASE r.type # "unsubscribe"
    BY <1>2, <1>9, <2>2, ServerGently, GentlyTidy
  <2> QED  BY <2>1, <2>2
<1>10. ASSUME NEW s \in Subs, NEW m \in Messages, Streams(s, m) PROVE Tidy'
  BY <1>2, <1>10, ServerGently, GentlyTidy
<1> QED  BY <1>1, <1>3, <1>4, <1>5, <1>6, <1>7, <1>8, <1>9, <1>10, Zenon DEF Calling, Reads, Others

\* What was read first stays first while more arrives.
LEMMA HeadStays ==
  ASSUME Types, NEW m \in Messages, Sends(net, m), net.inbox # <<>>
  PROVE  net'.inbox[1] = net.inbox[1]
<1>1. PICK n \in Nat :
         /\ n = Len(net.inbox) /\ Len(net'.inbox) = n + 1 /\ net'.inbox[n + 1] = m
         /\ \A k \in 1..n : net'.inbox[k] = net.inbox[k]
  BY InboxGrows
<1>2. 1 \in 1..n
  BY <1>1, InboxTypes
<1> QED  BY <1>1, <1>2

\* What a read has found is about a subscription that is known, and stays so until the
\* handler of the read has run.
LEMMA HeadKept ==
  ASSUME Types, Loops, Booked, Alive, Ordered, Calling \/ Reads \/ Others
  PROVE  HeadIsKnown' /\ (client'.reading = "asked" => client'.state = "RUNNING")
<1>0. HeadIsKnown /\ (client.reading = "asked" => client.state = "RUNNING") /\ (client.state = "RUNNING" => Tidy)
  BY DEF Ordered
<1>1. ASSUME client.subs \subseteq client'.subs, client'.reading = client.reading,
             client.state = "RUNNING" /\ client.reading = "asked" => client'.state = "RUNNING",
             client.reading = "message" => net'.inbox[1] = net.inbox[1]
      PROVE  HeadIsKnown' /\ (client'.reading = "asked" => client'.state = "RUNNING")
  BY <1>0, <1>1 DEF HeadIsKnown
<1>2. client.reading = "message" => net.inbox # <<>>
  BY DEF Loops
<1>3. ASSUME Calling PROVE HeadIsKnown' /\ (client'.reading = "asked" => client'.state = "RUNNING")
  <2>1. /\ client.subs \subseteq client'.subs /\ client'.reading = client.reading
        /\ client'.state = client.state /\ net' = net
    BY <1>3 DEF Calling, Quiet, Silences, Publishes, Subscribes, Unsubscribes, Pushes
  <2> QED  BY <1>1, <2>1
<1>4. ASSUME Others PROVE HeadIsKnown' /\ (client'.reading = "asked" => client'.state = "RUNNING")
  <2>1. CASE Stopping
    BY <1>0, <2>1 DEF Stopping, HeadIsKnown
  <2>2. CASE Pinging \/ Ticks \/ UNCHANGED vars \/ Loses
    <3>1. /\ client'.subs = client.subs /\ client'.reading = client.reading
          /\ client'.state = client.state /\ net'.inbox = net.inbox
      BY <2>2 DEF Pinging, Pinged, Ticks, OnlyClient, vars, Loses, OnlyNet
    <3> QED  BY <1>1, <3>1
  <2>3. ASSUME NEW r \in Requests, NEW ok \in BOOLEAN, Written(r, ok)
        PROVE  HeadIsKnown' /\ (client'.reading = "asked" => client'.state = "RUNNING")
    <3>1. client'.subs = client.subs /\ client'.reading = client.reading /\ client'.state = client.state
      BY <2>3, Zenon DEF Written
    <3>2. net'.inbox = net.inbox \/ \E m \in Messages : Sends(net, m)
      BY <2>3, WrittenNet DEF Takes, Echoes
    <3> QED  BY <1>1, <1>2, <3>1, <3>2, HeadStays
  <2>4. ASSUME NEW m \in Messages, Sends(net, m), OnlyNet
        PROVE  HeadIsKnown' /\ (client'.reading = "asked" => client'.state = "RUNNING")
    <3>1. client' = client
      BY <2>4 DEF OnlyNet
    <3> QED  BY <1>1, <1>2, <2>4, <3>1, HeadStays
  <2>5. \A m \in Messages : (\E r \in Requests : Answers(r, m)) \/ (\E s \in Subs : Streams(s, m)) => Sends(net, m) /\ OnlyNet
    BY Zenon DEF Answers, Streams
  <2> QED  BY <1>4, <2>1, <2>2, <2>3, <2>4, <2>5, Zenon DEF Others
<1>5. ASSUME Reads PROVE HeadIsKnown' /\ (client'.reading = "asked" => client'.state = "RUNNING")
  <2>1. CASE ReadEnds
    <3>1. /\ client.state = "RUNNING" /\ client'.state = client.state /\ client'.subs = client.subs /\ net' = net
          /\ client'.reading \in {"message", "error"} /\ (client'.reading = "message" => net.inbox # <<>>)
      BY <1>0, <2>1 DEF ReadEnds, OnlyClient
    <3>2. ASSUME net.inbox # <<>>, net.inbox[1].type \in {"data", "unsubscribe"} PROVE net.inbox[1].sub \in client.subs
      <4>1. 1 \in 1..Len(net.inbox)
        BY <3>2, InboxTypes
      <4>2. CASE net.inbox[1].type = "data"
        BY <1>0, <3>1, <4>1, <4>2 DEF Tidy, LastOfAll
      <4>3. CASE net.inbox[1].type = "unsubscribe"
        <5>1. Leaves(1, net.inbox[1].sub)
          BY <4>3 DEF Leaves
        <5> QED  BY <1>0, <3>1, <4>1, <5>1, LeavingIsDropped
      <4> QED  BY <3>2, <4>2, <4>3
    <3> QED  BY <3>1, <3>2 DEF HeadIsKnown
  <2>2. CASE Ponged
    <3>1. client'.reading = "asked" /\ client'.state = client.state /\ client.reading = "asked"
      BY <2>2, Zenon DEF Ponged
    <3> QED  BY <1>0, <3>1 DEF HeadIsKnown
  <2>3. ASSUME NEW m \in Messages, Handles(m)
        PROVE  HeadIsKnown' /\ (client'.reading = "asked" => client'.state = "RUNNING")
    <3>1. /\ client'.state = client.state
          /\ (client.state = "RUNNING" => client'.reading = "asked") /\ (client.state # "RUNNING" => client'.reading = "error")
      BY <2>3, Zenon DEF Handles
    <3> QED  BY <3>1 DEF HeadIsKnown
  <2>4. CASE Finishes \/ FallsSilent
    BY <2>4 DEF Finishes, FallsSilent, HeadIsKnown
  <2>5. CASE Restarting
    BY <2>5 DEF Restarting, RestoredAs, HeadIsKnown
  <2> QED  BY <1>5, <2>1, <2>2, <2>3, <2>4, <2>5, Zenon DEF Reads
<1> QED  BY <1>3, <1>4, <1>5

\* A client without faults finds everything in order, always.
LEMMA OrderKept ==
  ASSUME Always, Books, Subscribed, NoCheckFails, [Next]_vars
  PROVE  Subscribed' /\ NoCheckFails'
<1>1. Types /\ Loops /\ Numbered
  BY DEF Always
<1>2. world'.faults = world.faults
  BY <1>1, WorldKept
<1>3. CASE ~Faultless
  BY <1>2, <1>3 DEF Faultless, Subscribed, NoCheckFails
<1>4. CASE ~Alive
  <2>1. UNCHANGED vars
    BY <1>4, AliveBefore
  <2> QED  BY <1>2, <1>4, <2>1 DEF vars, Subscribed, NoCheckFails, Faultless, Alive
<1>5. CASE Faultless /\ Alive
  <2>1. Booked /\ Ordered
    BY <1>5 DEF Books, Subscribed
  <2>2. Fails \/ Calling \/ Reads \/ Others
    BY <1>1, <1>5, <2>1, SafeMoves
  <2>3. CASE Fails
    BY <2>3 DEF Fails, Subscribed, Alive
  <2>4. CASE Calling \/ Reads \/ Others
    <3>1. Ordered'
      <4>1. HeadIsKnown' /\ (client'.reading = "asked" => client'.state = "RUNNING")
        BY <1>1, <1>5, <2>1, <2>4, HeadKept
      <4>2. client'.state = "RUNNING" => Tidy'
        BY <1>1, <1>5, <2>1, <2>4, TidyKept
      <4> QED  BY <4>1, <4>2 DEF Ordered
    <3>2. crash' = crash
      <4>1. Calling => crash' = crash
        BY DEF Calling, Quiet, Silences, Publishes, Subscribes, Unsubscribes, Pushes
      <4>2. Reads => crash' = crash
        BY Zenon DEF Reads, Ponged, ReadEnds, Handles, Finishes, FallsSilent, Restarting, OnlyClient
      <4>3. Others => crash' = crash
        BY Zenon DEF Others, Stopping, Pinging, Ticks, Written, Answers, Streams, Loses, OnlyClient, OnlyNet, vars
      <4> QED  BY <2>4, <4>1, <4>2, <4>3
    <3> QED  BY <1>5, <3>1, <3>2 DEF Subscribed, NoCheckFails, Alive, Stops
  <2> QED  BY <2>2, <2>3, <2>4
<1> QED  BY <1>3, <1>4, <1>5

\* Without faults, whatever is subscribed to, given up and stopped, and however often
\* the connection is lost: what the server sends finds its request and its subscription,
\* what callers hold is in the running client's map, also after a restart, what they
\* gave up leaves it with the answer, or was recalled, and the client reads.  A CHECK
\* fails only for a call after the stop, and in a restart for a list with an entry twice,
\* which somebody has given up a subscription for (process_input, on_pong, restart).
THEOREM ClientIsSafe == Spec => []Safety
<1>1. Init => Books /\ Subscribed /\ NoCheckFails
  <2> SUFFICES ASSUME Init PROVE Books /\ Subscribed /\ NoCheckFails
    OBVIOUS
  <2>1. client.pending = <<>> /\ client.sent = {} /\ client.subs = {} /\ client.reading = "asked" /\ client.state = "RUNNING"
    BY RunningMakes DEF Init
  <2>2. net.requests = {} /\ net.inbox = <<>> /\ ~net.early /\ net.streaming = {} /\ net.up
    BY NewConnectionMakes DEF Init
  <2>3. Len(client.pending) = 0 /\ Len(net.inbox) = 0
    BY <2>1, <2>2
  <2>4. \A s \in Subs : held[s] = "new"
    BY DEF Init
  <2>5. Booked
    BY <2>1, <2>2, <2>3 DEF Booked, Queued, Known, Once, Covered
  <2>6. ASSUME Faultless PROVE Ordered
    <3>1. ListIsHeld
      <4>1. Len(listed) = 0
        BY DEF Init
      <4> QED  BY <2>4, <4>1 DEF ListIsHeld
    <3>2. MapIsHeld /\ Courses /\ LastOfAll
      BY <2>1, <2>2, <2>3, <2>4 DEF MapIsHeld, Courses, LastOfAll
    <3> QED  BY <2>1, <3>1, <3>2 DEF Ordered, Tidy, HeadIsKnown
  <2> QED  BY <2>5, <2>6 DEF Books, Subscribed, NoCheckFails, Init, Stops
<1>2. Always /\ Books /\ Subscribed /\ NoCheckFails /\ [Next]_vars => (Books /\ Subscribed /\ NoCheckFails)'
  BY BooksKept, OrderKept DEF Always
<1>3. Subscribed /\ NoCheckFails /\ TypeOK /\ Listens => Safety
  BY DEF Safety, Subscribed, Ordered, Tidy, MapIsHeld, HeldAreSubscribed, GivenUpIsLeaving
<1> QED  BY <1>1, <1>2, <1>3, InductiveInvariant, TypesAndReads, PTL DEF Spec

=============================================================================
