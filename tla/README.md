# Satori Video SDK: specifications

TLA+ models of the parts of this SDK that are hard to test: stream stages that
run on two threads or call each other in circles, the RTM client under faults,
the timers, and the tools that are built from them. TLC checks every module on
small instances; TLAPS proves most of the safety properties for every value of the
constants ([What is proved](#what-is-proved)). `PROJECT.json` lists the runs, the mutant that shows that
each property can fail, the source lines each definition stands for, the theorems, the hazards
and the findings.

    tlc -workers 2 -config TW_any.cfg ThreadedWorker.tla
    tlapm ThreadedWorkerProofs.tla

## The system

A program of this SDK is a *stream*: a publisher, a chain of operators, a
subscriber (`streams/streams.h`). A subscriber requests a number of elements, its
source sends no more than that, then completes or fails, once; either end may
be cancelled. Stages delete themselves when they end, are cancelled, or leave the
call in which either happened. Nothing is locked: apart from `threaded_worker`, a
stage relies on being used from one thread, and most code runs in handlers of one
`asio::io_service`. Calls nest: a sink requests from inside `on_next`, a source
may answer from inside `request()`.

| component | state | operations | interacts by |
|---|---|---|---|
| `drain_source_impl` (`streams_impl.h`) | demand, `_in_drain`, `_drain_requested`, `_die` | request, cancel, drain, deliver_* | base class of the worker, flat_map, decoder, async_publisher |
| `threaded_worker` | bounded buffer, mutex, outcome, worker thread | on_next, on_complete, on_error, request, cancel, the worker's loop | condition variable; atomics read without it |
| `merge`, `flat_map`, `take`, `take_while`, `do_finally`, ... | demand, queue, inner subscription, call depth | the subscriber's and the subscription's methods | nested calls |
| `delay`, `timeout`, `interval`, `timer_breaker` | buffer, timer, flags | the same, and timer handlers | io_service |
| RTM client (`rtm_client.cpp`) | requests by id, subscriptions by id and channel, write queue, ping timer, state | subscribe, unsubscribe, publish, stop; read, write and timer handlers; restart on error | callbacks; websocket |
| frame chunks (`data.cpp`, `video_streams.cpp`) | chunk number, collected data, expected chunk | to_network, decode_network_stream | channel messages |
| image decoder | decoder, id queue, demand | the subscriber's methods, drain_impl | packets and frames |
| bot instance, `video_bot.cpp` | current frame, message buffer, configuration | frames, control messages, shutdown | the user's callbacks |
| RTM sink, publisher tool | messages in flight, end | on_next, posted publishes, answers | worker thread, io_service, client |
| recorder tool | subscription, sink, job list | connect, on_next, stop, end; signals | worker thread, signals, io_service |
| pool controller, bot environment | heartbeat timer, jobs | heartbeat, start and stop of jobs, shutdown | pool channel, signals |
| player | surfaces waiting, the deferred of `process()` | process, show, close | main's, the worker's and the loop's threads |
| deferred, error_or | value or callback | on, resolve, then | player, file sources |
| file sink | decoder, open file, segment's start | metadata, frames, completion | muxer, file system |
| file, camera, replay, url sources | position, last id, metadata sent; a reader's thread | generate_one; the reader's loop, stop | drained from request(), or pushing from a thread |
| command line (`cli_streams.cpp`), main() of the programs | options | parse, validate, build client, source and sink | everything above |
| encoder | codec's context, metadata sent | encode_frame | ffmpeg, behind the decoder and a worker |
| metrics | two timers, counters | update, push, stop | io_service, client |
| formats (`base64.cpp`, `cbor_json.cpp`, `data.cpp`) | - | packets to JSON to CBOR and back | the client's messages |
| ffmpeg wrappers, logging | - | pictures, lines | - |

What is hard in it, component by component, is the list of hazards in
`PROJECT.json`: two threads on a stage without a lock (worker, recorder, merge);
deletion inside nested calls (merge, flat_map, decoder, delay); handlers already
queued when their timer or client is cancelled or destroyed (client, timeout,
pool); ends that overtake elements (worker, delay, RTM sink); data that loses its
partner (chunks, frame ids, answers to requests).

## Modules

**HandOff** is the abstract specification of a stage that moves elements to
another thread: in order, none twice, nothing after the outcome.

**ThreadedWorker** (`threaded_worker.h`, the drain loop of `streams_impl.h`).
Actions are the pieces of code between two accesses to shared state; `pc` has a
position for the source's thread, the worker, a requester and a canceller.
`RequestsFrom` and `CancelsFrom` say which threads may do it: the worker itself
(from inside `on_next`, which is what `flatten` and `take` do), another one (as
`merge` and `signal_breaker` do), or nobody. It implements HandOff
(`ImplementsHandOff`).

**Stream** is the abstract specification of any stream (`streams.h`): no more is delivered than
was requested, the end is told once, and nothing follows it or a cancel. Delay, Merge, FlatMap and
Operators implement it (`KeepsPromise` in each, with their own demand as the mapping).

**RtmClient** (`rtm_client.cpp`): `secure_client` inside `resilient_client`. One
step is one handler or one call. It starts after a successful start. Each
subscription object has a channel of its own and is used once, as `rtm_channel_impl`
does; `held` is what became of it, up to "recalled", given up and brought back by a restart. A behaviour lives in one of the `Worlds`, which says what the program calls and
what the network does: refusals, messages that do not parse, answers read before
the completion handler of their write, memory that has been reused, broken
connections (a write to one may still succeed). A use of a destroyed client or a
failed CHECK ends the behaviour with its name in `crash`.

**FrameChunks** (`data.cpp`, `video_streams.cpp`): a frame is cut into chunks, the
channel loses some, the assembler puts together what it takes for a frame. A byte
is named by its frame and place, so that a mixture is visible; counters wrap at
`ByteRange`, 256 in the code and 8 in the run, which scales the sizes with it.

**Formats** (`base64.cpp`, `cbor_json.cpp`) has operators only: base64 with its padding, JSON to CBOR
in the narrowest width of four, and CBOR to JSON with its wrap-around and its rejections. Widths are scaled: 3 bits of
a byte of 4 for base64's 6 of 8, integers of 2, 4, 6 and 8 bits for 8 to 64. **Wire** takes
one packet through them, from the sender's JSON over a service that may write it anew (chunked, with floats
for integers) to the receiver's parser, and composes this with FrameChunks, which is the same
way seen from above.

**Delay** (`asio_streams_impl.h`): one thread with nested calls. The handler of a
timer is a thing of its own, queued when the timer expires; cancel() does not
reach it any more. `demand` is how the sink requests.

**Sources** (`file_source.cpp`, `camera_source.cpp`, `replay_source.cpp`, the generators of
`streams_impl.h` and `interval`) puts what the programs have in front of a Delay: generators
that work inside `request()`, so that nothing else runs while `Draining`. `kind` is a file
played once or in a loop, the camera, a replay file, or any source, which is Delay by itself.

**Operators** (`streams_impl.h`, `asio_streams_impl.h`): map, take, take_while, do_finally and timeout,
one of them between a source and a sink on one thread. The source is drained (it only notes a request that comes amid
its delivery), answers there too, or is empty; the sink requests and cancels from inside
`on_next`. An operator that is used after it deleted itself ends the behaviour, with the user's name in `freed`.
**Stages** puts FlatMap and Operators into one run.

**Merge**, **FlatMap** (`streams_impl.h`): a stack of the activations in which
others can act. `demand` is how the sink requests ("one" from inside each
`on_next`, or "all", INT_MAX). Sources may send or fail from inside `request()`.
Merge starts when all its sources are subscribed.

**BotInstance** (`bot_instance.cpp`, `video_bot.cpp`, the composition in
`bot_environment.cpp`): one input at a time, as merge and flat_map deliver them;
each callback of the bot may send messages. `mode` is a file, a live stream with
a control channel, or batch. An input ends (`FramesEnd`) or fails (`InputFails`).

**DecodeImageFrames** (`decode_image_frames.cpp`): the decoder as a stage, with
ffmpeg's decoder as a queue that holds some frames back and may refuse or swallow
packets. `got` pairs each frame with the id the stage gave it. `use` chooses the
packets, the demand and the faults. `StreamAssumption` says what streams there are: a frame has the metadata ahead of it, and
where the decoder takes whatever comes (no faults), frames behind changed metadata begin with a key frame, since no new decoder
takes another. **Transcoder** (`vp9_encoder.cpp`) is `encode_vp9` behind it, with a codec
that holds images back, may refuse or fail, or was never opened.

**Publisher** (`rtm_sink.cpp`, `clitools/publisher.cpp`, `do_finally`, `url_source.cpp` on the
asynchronous publisher of `streams_impl.h`): the thread that calls the sink, a worker's or the
reader's of url_source, which starts before main knows of it; the io_service with its posted publishes, a server that answers, refuses
or is late, a client that restarts.

**Viewer** (`rtm_source.cpp`, `repeat_if` of `streams_impl.h` as `repeat_metadata` uses it): a stream on its two
channels, metadata and frames, from the repetition in the source to the decoder of a viewer who comes late, loses the
connection, or is there when the publisher is started again with another stream. The service's
history of the metadata channel is external. **Broadcast** composes it with Publisher: both ends of one stream.

**Recorder** (`clitools/recorder.cpp`, `timer_breaker`): a standalone recording; the
steps of `stop()` are apart, because the signal handler and the worker run it
against `on_next`. It drives **VideoFileSink** (`video_file_sink.cpp`), which says what is in
the files: a file is the sequence of its frames, and the disk a set of named files.

**Pool** (`pool_controller.cpp` with the hosts in `bot_environment.cpp` and
`recorder.cpp`): heartbeats, jobs and signals; the pool's manager is external and reckons
with the capacity it was told and the jobs it has sent since. `OnStartJob(fate)` is what becomes of a job
on its host; `OnStopJob` aborts, as `remove_job` of either host does.

**CommandLine** (`cli_streams.cpp` and what the programs enable of it) has operators only: which
sets of options are accepted, and which client, source and sink follow from them. **Startup**
runs main() of the four programs over all sets of options, with each outcome it can
have, and goes on as Pool where a pool is joined.

**JobConfig** extends it with what a node of a pool makes of a job: the keys of the JSON object as options, which
are not validated, and the stream or the recording that follows. **BotRun** (`bot_environment.cpp`, `metrics.cpp`,
`signal_breaker.h`, `rtm_streams.cpp`, `stop()` of the client) is a bot from `start_bot` to the return of main(): the loop
with the timers of the metrics, the thread on which frames reach the bot, and the thread that a signal interrupts.
**PlayerRun** (`player.cpp`, `deferred.h`) is the player from `process()` on: main, the worker, the loop's thread, and
the deferred that two of them use. **Programs** composes them: a command line that passes goes on as
the pool, the bot or the player that it starts; the publisher and the recorder have runs of their own.

`MCRtmClient`, `MCFlatMap`, `MCPublisher`, `MCRecorder`, `MCDecodeImageFrames`, `MCWire` and `MCPrograms` hold
values that a cfg cannot write.
`ThreadedWorkerProofs`, `MergeProofs`, `StagesProofs`, `SourcesProofs`, `RtmClientProofs`,
`BroadcastProofs` and `RecorderProofs` hold the theorems about the module they are named after, and about those it extends or
instantiates; `BroadcastProofs` also those about FrameChunks, which cuts what goes from the one end to the other. `VideoProofs`
has those about what is done with frames: BotInstance, DecodeImageFrames and Transcoder.

A module that is used in several ways has the way as a variable that `Init` chooses
and no step changes (`world`, `demand`, `kind`, `mode`, `use`, `input`, `tool` and `vm`, the command
line of Recorder, `op`, and `part`, `stage` and `end` of the compositions Wire, Stages and Broadcast): one run covers them all, and a property that holds for some of them
only says so in its premise.

## What the runs show

`Safety` is, in each module, the conjunction of its type invariant and of its
named safety properties; `Ending`, where there is one, of its liveness properties.
A module that composes others names these after itself (`StagesSafety`, `BroadcastEnding`) and conjoins theirs.
The parts have a comment each. Properties that are argued about on their own are
checked on their own. Every property of a passing run has a mutant: one definition
changed as a plausible slip would, which TLC then finds. The slips stand in the modules
next to what they change (`Drains_Later` beside `Drains`), and there is one for each
part of `Safety` and `Ending`; `PROJECT.json` lists them.

| run | bounds | shows |
|---|---|---|
| tw_any | 3 elements, buffer of 2, demand 3; requests from the worker and from another thread, cancels too | nothing is lost but by a full buffer or an end; the stage's own checks and the hand-off hold whoever acts; no CHECK fails while it is used from the worker; silence after cancel; it is deleted |
| tw_lost_tail (violation) | 2 elements | an end makes the worker drop queued elements |
| rc_worlds | two subscriptions, three ids and up to two lost connections, in four worlds: a connection that stays up with all calls, one that breaks, one that breaks while subscriptions are made, given up and the client stopped, one with every fault | every request ends, answers find their entries, what is held is subscribed and served again and what is given up leaves, unless it is recalled; the ping goes on, after stop() the loop is free |
| fc_chunks | 3 frames of 0 to 17 bytes in chunks of 2 (none to 9 chunks), counter of 8, 2 losses; single messages: frames of up to 4 bytes, ids and numbers on both sides of each width, metadata, bots' messages of every kind of field, three styles of the service | one loss never splices frames, order is kept, a last chunk brings it back in step; without loss every frame that fits is complete; packets arrive as they were sent, and messages do if and only if they are sound |
| dl_sinks | 6 elements, files of 4 packets, watermark 3, three ways to request, five sources | order and end of delay; a sink that asked for everything never runs out of demand; metadata first and once, ids that go on through loops, files played to their end |
| mg_nested | 2 sources with 5 elements, both demands, errors inside request | bounded queue, order, one end, deletion |
| stages_nested | flat_map: 4 packets of 3 elements, both demands; operators: 4 elements, limits 0, 1 and 3, three kinds of source, both demands | demand is passed on and take's limit holds, completion is told once and last, deletion, and deleted operators are used only in the known cases; each stage implements Stream; timeout ends a stream whose source is silent |
| bot_modes | 4 frames, batches of 3, one control message, three modes, ends and errors of the inputs | messages reach the stream and belong to their frame, fresh frames, the order of the callbacks, batch mode is complete, a bot whose video completes is shut down |
| decode_uses | 12 or 7 packets, lag 1 or 2 in the decoder, 2 in the encoder | frames and ids in step; after a refused packet in step at the next key frame; nothing the decoder held back is lost; demand; deletion; packets in order, ids at most the lag ahead, only the last images lost in the encoder |
| publisher_tool | 5 packets, from a worker or from a url; for the viewer a period of 2, key frames every 2, 2 streams, 1 lost connection | the sink waits for all answers or gives up, order, the client is stopped last, the tool exits; metadata are repeated in time, a viewer knows the newest, repetitions do not disturb the picture, who stays sees the stream |
| recorder_tool | 6 frames, one with a timestamp that goes back, up to 2 signals, with and without a time limit, one file or segments | the file is finished once and before the client stops; no packet disappears silently, none between segments, which start with a key frame and are cut in time; it exits |
| pool_programs | every set of options of each program; capacity 1 or 5, up to 3 signals, jobs of any keys, two channel names; a bot with up to 2 signals; a player with up to 2 surfaces waiting | what runs reads what is named and has a client for its channels; which command lines and jobs abort; never overbooked, the heartbeat goes on, the note comes first, the recorder ends; a bot's loop outlives its stream, the client is stopped behind everything else, main() returns; the player shows all and reports the end once |

The bounds are chosen so that each queue or counter is once empty, once full and
once in between, and an element, an end and a cancel can meet in every order.
`CHECK_DEADLOCK FALSE` is set in all of them: a stream ends, and a source need not
send. Compositions explore their parts side by side and not interleaved where the parts have nothing in
common (`part`, `stage`, `end`); of the part that is not there one initial state is kept. Jobs of any keys are tried on
nodes whose command line has nothing beyond what a pool needs (`Offered`), and the streams of a bot or a player
are followed for command lines with one source and no more than it needs, and the channel for
metrics (`Followed`): what happens there does not look at the rest of the command line.

### Fairness

Weak fairness only, and only of what a scheduler or the loop guarantees: a
thread that has a next step takes it, a called method returns, the io_service
runs the handlers in its queue, time passes so that an armed timer expires. Where
a run asks that a stream ends, the source is assumed to answer a request, and a server to
answer a message, which is said at the fair specification. Nobody has to cancel,
to send a signal or to break a connection. In Stages the source
behind a `timeout` need not answer; in Transcoder the codec's packets come when it is sent
images. In Broadcast the stream goes on with key frames that recur, the service answers subscriptions, and the viewer's
channels are both read. In Programs the threads, the loops and main() go on and armed timers expire; only a
source that is paced by a timer has to deliver, a channel or a url may be silent for ever.

### Seen while modelling

The premises of the properties are where the code does less than its comments and
documents say. Each was a counterexample of TLC before the premise was written:

- `threaded_worker.h:97`: an end drops the elements queued behind the batch under way (run
  tw_lost_tail, the finding of `PROJECT.json`).
- `streams_impl.h:125`: a cancel from another thread between the test of `_die` and the delivery
  fails `CHECK(!_die)`. Such a cancel notifies nobody: `cancel()` sets `_cancelled`, and `die()`
  (`threaded_worker.h:141`) clears the flag of the worker's loop and no more, so that a worker that waits for the next element
  does not hear of it (`NoCheckFails`, `StageIsDeleted`).
- `rtm_client.cpp:598`: unsubscribing what the server refused aborts; `:850` looks a channel up
  in the entry just erased; `:684` stops reading after a message that does not parse; `:1037` destroys
  the client from inside its own handler (the premise `Faultless`, and the worlds). `:999` calls `remove_if` without
  `erase`: the list of subscriptions keeps its length, and after a subscription in the middle was given up it has another one twice,
  with which a restart fails the CHECK of `subscriptions_map::add`; one given up at the end stays, and a restart subscribes
  to it again, with callbacks that may be gone. Both happen in the run (`held` is "recalled"), and are what `NoCheckFails` and
  `GivenUpIsLeaving` except; so is a call of a client that has stopped, which fails a CHECK as well.
- `asio_streams_impl.h:120` and `:209`: a sink that asks for one element at a time runs into
  `CHECK_GT(_sink_needs, 0)` (`DemandLasts`).
- `streams_impl.h:143`, `:125`: a source of flat_map that goes on sending inside the call in which it
  was cancelled, or ends in the call of its last packet, fails `CHECK(!_die)`; the run leaves such sources out
  (`Eager`). With a demand of two it stands still. A merge cancelled inside `on_next` with elements queued is
  leaked (`EndedIsDeleted`).
- `bot_instance.cpp:125`: a frame whose id has a zero, a camera's first, is never the current one
  (`Halves`). `bot_environment.cpp:337`: with a control channel the end of the video does not shut the bot down.
  An error of the video, or of the control channel, does not either: merge cancels its other source and passes the error on
  (`streams_impl.h:484`), flat_map and concat pass it too, and concat (`bot_instance.cpp:115`) goes on to `shutdown_stream` behind a completion
  only. The bot is told nothing, and what it said while it was configured stays in its buffer if no frame came (`InputFails`;
  `BotIsShutDown` is about a video that completes).
- `rtm_sink.cpp:84`: an answer after the patience is over calls a deleted sink (`NoUseAfterDelete`).
- `recorder.cpp:167`: a signal can reset what `on_next` is about to check, or complete the sink between the check and the use
  (`NoneSwallowed`); `:150`: a camera or a url cannot be
  recorded, although docs/reference.md:893 shows it (`NoCheckFails`). `asio_streams_impl.h:397`: a time limit is noticed
  when the next packet comes.
- `video_file_sink.cpp:175`: a source whose timestamps go back, as a looped file's do, fails the CHECK on the
  muxer. Two segments can have one name only if a segment's duration is zero (`NothingIsLost`).
- `replay_source.cpp:21`: a replay file whose last line has no newline ends with "replay file not found".
  `camera_source.cpp:135`: init returns success when there is no stream. `url_source.cpp:145`: a read that
  fails for good is retried for ever (`AllTaken`). `streams_impl.h:256`: `_state` is assigned after the reader's
  thread has started; that this is safe needs the metadata in flight (`ReaderIsKnown`).
- `cli_streams.cpp:260`, "Unreachable code", is reached when no source is named, because a program that
  enables urls is not asked for one; `:169` compares a count with 9, so that a video file and a replay file pass
  together; a url passes beside any source and is ignored; `--batch` with a channel, a camera or a url leaves
  main() without a loop; `--pool` without RTM options calls a client that does not exist (`AbortsAsKnown`,
  `ReadsWhatIsNamed`). In the recorder `keep-proportions` is declared twice, and in a job a key
  `keep_proportions` means yes whatever its value.
- `pool_controller.cpp:79`: cancel() does not recall a heartbeat already queued, which publishes
  through a stopped client. `bot_environment.cpp:200`: a bot in a pool does not exit on a signal (`SignalEnds` is
  about the recorder). A `stop_job` ends either host (`:355`, `recorder.cpp:243`), and a stream that ends on its own never
  gives its capacity back.
- `streams_impl.h:1010`: take counts an element, calls its sink and goes on with its own fields, and timeout arms its timer
  behind the call: both may have been deleted inside it. `take(0)`, which is `--frames-limit 0`, neither asks nor
  ends. `asio_streams_impl.h:309`: a handler of timeout's timer that is already queued when the answer comes reports a
  timeout of a source that has answered (`freed` in Operators).
- `metrics.cpp:139`: stop() does not recall a tick that is queued; the tick arms its timer again, for ever, or publishes
  through the stopped client; `delete _push_timer` leaves the pointer (`late` in BotRun).
- `signal_breaker.h:25`: the handler stays registered after the breaker deleted itself, and posts and logs from a signal's
  context; a second signal calls the deleted breaker. `rtm_streams.cpp:18`: a channel deleted off the loop
  can still be called. A client stop that a bot posts when its loop has returned never runs. The JSON sink's
  `on_complete` is not reached by a bot.
- `player.cpp:234`: `on()` and `resolve()` of one deferred run on two threads without a lock; main's locals are used by the
  loop and the worker when main has returned; the client checks the thread that made it and not the one of the loop, as
  the TODO at `:201` says.
- `cli_streams.cpp:495`: a job's input keys have underscores, its output keys hyphens, presence means true, and
  the defaults are not those of the command line (the resolution, `keep_proportions`). Jobs are not validated: one without
  `id` is undefined behaviour, a pool bot's without a channel dereferences nothing, a recorder's with an output channel
  publishes and does not record, and two jobs of one channel write one file (`RefusedForCause`, `OneFileEach`).
- `cbor_json.cpp:19`: unsigned numbers take the signed branch, so that those above INT64_MAX arrive negative; strings end
  at a NUL. A field `b` or `codecData` of any message, a bot's too, is taken for base64 and arrives changed, or the sender
  aborts (`SoundMessagesArrive`). `data.cpp:68`: `additional_data`, the display's rotation, does not arrive over RTM.
- `decode_image_frames.cpp:136`: metadata that no decoder can be made for delete a stage that is not being drained, and
  `on_next` goes on to drain() (`DeletedIsLeft`).
- `vp9_encoder.cpp:65`: the encoder is not flushed, so that a transcoded recording lacks its last images (25 with the
  codec's options); a packet has the id and the time of the image sent last; an encoder that was not opened is used all the
  same.
- `repeat_if` repeats after 6000 frames first and after 6001 from then on (`RepeatedInTime`).

Read on the way, and not part of a model: `rtm_client.cpp:667` counts bytes after the buffer was consumed, so
that the counter stays at 0; in the player `image_to_surface` captures a local by reference, and an SDL surface points at
the pixels of a frame that is gone; camera and replay sources do not repeat their metadata; the decoder's filter
is made once and not renewed with new metadata, and `bot_instance.cpp:150` then CHECKs that the size of
the frames did not change; `streams/channel.h` is used by nothing.

## What is proved

The theorems hold for every value of the constants that satisfies the named assumptions of the modules
(`BoundsAssumption`, `MergeAssumption` and so on), which say no more than what kinds of values they are, unless an entry
below says otherwise. Each file is laid out in the same way: the invariant in named conjuncts with what each is for, lemmas about
sequences and sets, a lemma per conjunct with a case per action, the theorems. A strengthening was checked by TLC, on the instance
of the run, before its proof. Hardly any property carries itself; this is what it takes:

| module | theorems | the invariant, and why it is needed |
|---|---|---|
| ThreadedWorkerProofs | `TypeCorrect`, `InductiveInvariant`, `Safe` with its parts; `ChecksHoldInside` (NoCheckFails); `Silent` (SilentAfterCancel); `Refinement` (HandOff) | `Inductive`: a delivery may move the batch because the batch is in the worker's hands exactly at "deliver", because the demand it was taken for is still there (`DemandAhead`), and because no end is told before the worker left its loop for a reason (`ReasonToStop`, `OneOutcome`). Silence behind a cancel, with two threads in one drain loop, rests on `OneLoop`: `_in_drain` is cleared under the worker's feet only by a requester that does not come back, and what it asked for stands in `_drain_requested`; from there the worker reaches neither a delivery nor the outcome (`Stopping`) |
| MergeProofs | `Safe`, `DemandIsNotLost` (DemandReachesSources), `EndsOnce`, `ImplementsStream` | who waits for whom in the stack of calls (`Nesting`), which activation of request() has still to ask which source for how much (`Served`, `Reaches`), and what each source may still send (`Shares`), for any number of sources and depth of calls |
| StagesProofs | `StagesAreSafe`, `DemandIsKept` (DemandIsPassedOn), `StagesImplementStream` (flat_map and the operators) | `FlatMapInv`: drain() is on the stack once (`Nested`), who is alive (`Alive`, `Gone`), what the sources owe is what is wanted (`Owed`, `Passed`), nobody calls behind a death (`Dying`). `OpInv` likewise for the operators, with a measure of the calls that are under way (`Weight`). Under the hypothesis that all surroundings are `Tame`, below |
| SourcesProofs | `Safe` (SourcesSafety), `DemandAlwaysLasts` (DemandLasts), `EndsAsTheSource`, `ImplementsStream` | `Staged` for delay: the timer runs exactly while something waits (`Timed`), the stage knows of no more demand than there is (`Needed`), who has ended whom (`Closed`); for the generators in front of it the ids by their place (`Named`) and the positions (`Rising`, `ReadThrough`) |
| VideoProofs, of BotInstance | `Safe`, `FreshAlways` (FreshAndForward) | what was sent and what is buffered together match what was said (`Kept`), and what was processed and what is selected together rise to the newest frame (`InStep`) |
| VideoProofs, of DecodeImageFrames | `DecodeIsSafe` (DecodeSafety and KeysInStep) | `DecodeInv`: `_ids` and the frames in the decoder rise, and every frame in the decoder has its id still in `_ids` (`Sought`), so that the search for a key frame's id ends at its own and never goes past it; every id given is older than all that wait (`Given`), so that none is given twice or ahead of its frame. Without faults the decoder holds the last frames of `_ids`, and what a change of metadata left in front of them is there only until a key frame takes it away (`Suffix`); the context is the one for the packets that come (`Known`), and a frame that its decoder was fed with is inside or was delivered (`Feeding`), which makes an end complete |
| VideoProofs, of Transcoder | `TranscoderIsSafe` (TranscoderSafety, and KeysInStep behind it) | `EncoderInv`, on top of `DecodeInv`: what was written rises in images and ids and stays within what was sent (`Ordered`, `Ahead`); the images in the codec rise, all behind those written, and an image that is i-th from the end of them was sent at most i - 1 images ago, not counting those refused (`Behind`); each image sent is written, refused or held (`Covered`). From the last two: what an end loses is among the last |
| RtmClientProofs | `PingsGoOn` (KeepAlive), `TypesAndReads`: in every world; `NothingLeaks` (Accounted): and `ClientIsSafe` (Safety), which says most of worlds without faults | ids that were handed out, handlers that are due, timer and ping in turns (`Always`); each request is queued, at the server, or answered, once, and the queue is younger than what was written (`Booked`); subscription map, list and callers agree over restarts (`ListIsHeld`, `MapIsHeld`): `remove_if` without `erase` loses no entry that is kept (`RemoveIfKeeps`), so that everything held is listed, and an entry is there twice only after something was given up (`NothingRepeats`); the answer to an unsubscribe request is the last that the server says of its subscription (`LastOfAll`, `Silent`) |
| BroadcastProofs | `AllAcknowledged` (WaitsForAll) and `Safe` for the publisher, `BroadcastIsSafe` for both ends; `NeverSpliced` (OneLossNeverSplices), `DeliveredInOrder`, `InStepAgain` (InStepAfterALastChunk) and `ChunksAreSafe` (ChunksSafety) for the chunks between them | `_in_flight` is the number of chunks that were posted and not acknowledged (`Counting`, over finite sets); what is further on the way was posted earlier, and nothing is in two places (`Order`). For the viewer: no stretch of the sink's queue between two metadata, with what was published since the last, has more frames than the period and one (`InTime`); the last metadata to be heard are the newest (`Newest`). For the chunks, there is a place, the last that was taken, with all of the channel behind it in order (`Queued`); with one chunk lost at most no two places behind it are missing, and what was gathered is the data of its frame up to it (`Whole`), so that a chunk with the expected number is of that frame: one of a later frame would leave two places missing, the rest of the one frame and the first of the other (`SameFrame`). That the decoder finds back into step after any loss is a count (`Tally`): up to a place (f, c) at most c chunks of frame f arrived, and if exactly c did, the first of them behind a last chunk, then what was gathered is the data of f up to c. Without loss the next chunk is the next place (`NextBehind`), so that all arrive (`Lossless`) |
| RecorderProofs | `SegmentsAreSound` (FilesAreSound), `NoPacketSwallowed` (NoneSwallowed), `Safe` | each file is a row of frames from a key frame with no due key frame inside (`Segment`), the open one is the last and began later than all that were renamed (`WriterIsLast`), so that a name is not used twice unless a duration is 0; where each packet is (`Counted`), who will still close the file or stop the client (`ClosedFirst`, `Calm`) |

The refinements are shown step by step: an initial state maps to an initial state, each step to a step of the abstract
specification or to none (`KeepsPromise`: a request, a delivery that was asked for, the one end).

### What the proofs brought to light

- Hypotheses. `StagesProofs` needs `Tame`: flat_map's CHECKs hold only if the sink never has two requests on their way, if the
  source of packets ends inside a call only when it was asked for something, if a sink that has asked for everything cancels inside
  `on_next` only when it has got it all, and if a sink that asks one by one and cancels has inner sources that keep to the same rule.
  TLC finds a counterexample when one of them is dropped: a demand of "two" breaks `DemandIsPassedOn`, the others fail
  a `CHECK(!_die)`. The surroundings of run stages_nested
  are tame.
- A map that is exact only while the connection is up: a write that fails forgets its request and leaves the subscription of an
  `unsubscribe` in the map, which is why `GivenUpIsLeaving` has that premise.
- Assumptions that were missing: a url has at least one packet, its metadata, or the reader could be stopped before main knows it
  (`PublisherAssumption`, `ReaderIsKnown`).
- Bounds that were not tight, or that did not hold for every value: the queue of merge has up to `(N - 1) * asked + needed`
  elements, since each of N sources is asked for all that is needed (`BoundedQueue`); delay's buffer together with what it has asked for stays within the watermark (`BoundedAhead`).
- That every frame gets its own id (`IdsInStep`) does not follow from a decoder that takes every packet: ids of frames that a replaced decoder
  still held stay in `_ids`, and the frames behind new metadata would get them one by one if the first were not a key frame. It is the
  second half of `StreamAssumption`.
- The bound of `LostAreTheLast` and `IdsAhead` counts refused images too: `encode_frame` goes on after a refusal, and the codec stays as full as
  it was while the stream goes on.
- That two segments never have one name needs first timestamps that increase strictly, hence no duration of 0 (`NothingIsLost`).

### Model-checked only

- Liveness (`Ending` and its like): the prover has neither fairness nor ENABLED.
- Wire, Formats and Programs (with CommandLine, JobConfig, Startup, Pool, BotRun, PlayerRun): the formats are recursive, and what
  a recursive definition computes for all data is out of the prover's reach; the start of the programs is a
  finite table that TLC goes through as a whole.
- Of DecodeImageFrames and Transcoder, that their streams end (`EndsAndIsDeleted`, `TranscoderEnds`).

## Abstractions to know

- One thread at a time inside Merge and FlatMap. `bot_environment.cpp:337` merges
  streams of two threads without a lock; that is a data race and not modelled.
- Merge from the subscription of its sources on is not modelled: a source that
  is empty or fails at once loses its error or tells a sink that is not subscribed yet.
- Recorder: `stop()` in `on_complete` cancels a subscription that has ended. Pool: shutdown()
  posts a handler of a controller that is then deleted. Both are marked in the
  state and end nothing.
- Sources stops at the timer: the encoder behind the camera, the metadata that `repeat_metadata` repeats and batch
  mode, in which a generator has no timer, are left out. VideoFileSink takes the size as told by any
  frame, and any opening or renaming of a file may fail.
- Startup: a signal before a pool is joined ends the process, and is left out; whether a bot's
  configuration parses is a choice. BotRun has one thread for the workers upstream of a bot, and a use
  of a freed object ends the behaviour there.
- Wire leaves out the values of times, and what CBOR libcbor rejects. Viewer takes a frame for one
  message, which FrameChunks cuts, and a picture for what follows a key frame of the decoder's own stream.
- The abstract Stream has no refinement from DecodeImageFrames, whose sink has requested when the model begins.
- DecodeImageFrames takes the pixel filter for one picture out for each in.
- ThreadedWorker: a request from inside `on_next` sets `_drain_requested`. In the code it starts a drain inside the drain if another
  requester has just cleared `_in_drain` (`streams_impl.h:86`).
- RtmClient: of a ping whose write fails the model has the outcomes that go on or report an error, not the "cancelled" of a
  client that runs (`rtm_client.cpp:723`).
- Delay: with a delay of zero the code calls `on_timer` from inside `on_next` (`asio_streams_impl.h:178`); the model arms a timer that
  may expire at once.
- Recorder: signals come while main waits; the code's handler runs on any thread (`signal_utils.cpp:33`), on the worker inside
  `on_next` too. The `request(1)` behind a record (`video_file_sink.cpp:302`) on a subscription cancelled meanwhile is not marked.
- Pool: a signal reaches the pool's handler; that of the breaker of a bot that has taken a job is registered for the same signals and
  cancels its stream as well, which BotRun has on its own. BotRun deletes the breaker before `do_finally`'s action; in the code it goes when
  `on_complete` of its sink has returned (`signal_breaker.h:52`).
- The second publication of a failed restart and start() of the client are left out.

## Plan

1. Done: the modules above, the proofs of the worker.
2. Done: the programs after their start (bot, player, jobs), the remaining operators with timeout, the way of a message
   through its formats, the encoder, the viewer's end of a stream; Stream as the abstract specification of
   Delay, Merge, FlatMap and Operators.
3. Done: the proofs above.
4. Done: the proofs of the decoder and of the encoder behind it, and of what comes through a channel that loses chunks.
5. Left for whoever goes on: the start of the client (connect, handshake, retry), a queue of requests as the abstract
   specification that RtmClient implements, and Pool (`NeverOverbooked`) as a module to prove about, without the tables of Programs.

### Not modelled

- `avutils.cpp`, `av_filter.cpp`: calls into ffmpeg whose results are pictures; who calls them, and
  what they refuse, is in the decoder, the encoder and the file sink.
- `opencv/`: an adapter of the bot's callbacks, and drawing.
- The parsing of a replay file's lines, the values of options, log lines, error categories, the names of threads
  and the counters of metrics: their hard part is in data, and tests reach it.
- `map` and `then` of deferred, `head`, `channel.h`: used by tests or by nothing.
- The sinks for files of a bot, and what the decoder's pixel filter does to a picture.
