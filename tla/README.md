# Verification of RTMPLive

RTMPLive is a live-streaming system in two programs: an Android application
(`RTMPLive/`, with its C++ core in `core/`) that publishes and plays RTMP
streams, and an RTMP and HTTP-FLV server (`Node-Media-Server/`) through which
the streams go.  This directory holds TLA+ models of the parts of both programs
that are concurrent or keep state across calls, TLC configurations that check
them on small instances, and TLAPS proofs of every safety property that a passing run
checks.
`PROJECT.json` is the index: which definition stands for which lines, which run
checks which property, and which changed definition breaks it.

    tlc -workers 2 -config StreamRegistry.cfg MCStreamRegistry.tla
    tlc -workers 2 -config AnyClient.cfg      MCStreamRegistry.tla
    tlc -workers 2 -config AnyPlayer.cfg      MCStreamRegistry.tla
    tlc -workers 2 -config RtmpPush.cfg       RtmpPush.tla
    tlc -workers 2 -config PushHeader.cfg     RtmpPush.tla       (finds a violation)
    tlc -workers 2 -config HosterControl.cfg  HosterControl.tla
    tlc -workers 2 -config PlayerControl.cfg  PlayerControl.tla
    tlc -workers 2 -config PlyBuffer.cfg      PlyBuffer.tla
    tlc -workers 2 -config MediaFanout.cfg    MediaFanout.tla
    tlc -workers 2 -config RtmpChunk.cfg      RtmpChunk.tla
    tlc -workers 2 -config Relay.cfg          MCRelay.tla
    tlc -workers 2 -config RelayPull.cfg      MCRelay.tla        (finds a violation)
    tlapm StreamRegistry_proofs.tla
    tlapm RtmpPush_proofs.tla
    tlapm HosterControl_proofs.tla
    tlapm PlayerControl_proofs.tla
    tlapm PlyBuffer_proofs.tla
    tlapm MediaFanout_proofs.tla
    tlapm RtmpChunk_proofs.tla
    tlapm Relay_proofs.tla

## 1. The system

### The server, one Node process (or several, in a cluster)

| Part | State | Operations | Talks to |
|---|---|---|---|
| Registry: `node_core_ctx.js` and the command handlers of `node_rtmp_session.js`, `node_flv_session.js` | `sessions`, `publishers`, `idlePlayers`; in each session what it publishes and plays, and `players`, its audience | connect, publish, play, deleteStream, closeStream, end of a socket, FLV request and its end, rejection by a listener | fan-out reads `players`; hooks listen to its events |
| Fan-out: media handlers of `node_rtmp_session.js`, tags of `node_flv_session.js` | sequence headers, GOP cache, write queue of each player, pause and receive flags | audio, video, metadata, onStartPlay | the audience |
| Chunk stream: `rtmpChunksCreate`, `rtmpChunkRead` | parser state, chunk sizes, acknowledgement counters | bytes in, messages out and back | sockets |
| Relay: `node_relay_*` | maps from the id of a session or the number of a task to an ffmpeg process | prePlay, donePlay, postPublish, donePublish, a timer of one second, exit of a process | events of the registry, ffmpeg, which publishes and plays in turn |
| Transcoding and cluster: `node_trans_*`, `node_ipc_*`, `node_media_cluster.js` | maps from an id or a path to a process or a copied stream | postPublish, donePublish, messages between workers | events of the registry, other processes |
| RTMP client `node_rtmp_client.js` | state of one connection | connect, publish, play | used by the cluster |
| Parsing, HTTP interface, logging | none of interest | | |

Node runs one callback at a time, so the difficulty is not in threads: it is in
the order in which clients' commands and disconnects arrive, in handlers that
write a dozen fields of several objects, and in calls from one session into
another in the middle of a handler (an ending publisher stops its FLV players,
each of which leaves the audience being iterated; a listener of `prePublish`
may stop the session whose handler emitted it).  Correct means: a path has one
live owner, an audience holds exactly the sessions that play the stream, a
waiting player is served when its stream appears, and nothing refers to a
session that has gone.

### The application

| Part | State | Operations | Talks to |
|---|---|---|---|
| Publishing client: `anyrtmpush.cc`, `anyrtmpstreamer.cc`, `avcodec.cc` | status of the connection, number of retries, list of encoded data, `need_keyframe_`, whether the encoders run | handshake, connect, publish, send, retry; a frame or samples encoded; destruction | srs_librtmp; the hoster's callbacks |
| Hoster control: `RtmpHosterImpl.cc`, `anyrtmpcore.cc`, JNI | `av_rtmp_started_`, messages of the worker, the streamer, the recorder's callback | StartRtmpStream, StopRtmpStream, destruction, MSG_START, MSG_STOP | streamer, recorder |
| Player control: `anyrtmplayer.cc`, `anyrtmpull.cc`, `RtmpGuesterImpl.cc` | messages of the player thread, decoder, connection and retries | StartPlay, StopPlay, tick, read, retry | play-out buffer, audio device |
| Play-out buffer: `plybuffer.cc`, `plydecoder.cc` | fast, normal or cache; clocks; lists of packets; cache time | packets in, decode every 5 ms, PCM out | decoder, renderer |
| Bit-rate adaptation: `V_H264Encoder::SetNetDelay` | threshold last crossed | a measured delay | encoder |
| Looper: `LooperExecutor.java` | running, handler | requestStart, requestStop, execute | every call of the kits |
| JNI codecs and capturer, screens | | | copies from WebRTC; callers of the kits |

Here the difficulty is threads.  One stream has five of them (looper, worker,
recorder, video encoder, push) and the fields they share are only partly locked:
`need_keyframe_` and `rtmp_status_` are plain fields, three locks are taken in
two orders, a message to start is delayed by 500 ms and one to stop is not.
Correct means: a lost connection is retried and the outcome reported, nothing
from before an outage is sent after it, a stop leaves nothing running, no object
is used after it was deleted and no call waits for ever.

`core/srs_librtmp`, `core/lib_rtsp`, `third_party`, `webrtc` and
`org/webrtc` are other projects.  What the code needs of them (`rtc::Thread`,
the RTMP context) is modelled from its use and marked external in
`PROJECT.json`.

The hazards found in all these parts, with the line where each bites, are in
`PROJECT.json`, tied to the properties that watch them.  A hazard without a
property has a note: the code behaves so in every case and no document promises
otherwise, or its part is not modelled.

## 2. Modules and code

### StreamRegistry, StreamBroker, MCStreamRegistry

The variables of `StreamRegistry` are the three containers and the fields of
the session objects: flags are sets of sessions (`publishing` is the set with
`isPublishing`), other fields are functions on sessions.  `ctx` packs them into
one record, and each method of the code is an operator from such a record to
such a record, so that a handler which calls other methods is composed the way
the code composes it: `OnPublish` calls `Serve`, which calls `StartPlay`;
`RtmpStop` calls `DeleteStream` twice, as `stop()` does, then `DropSession`;
`ClosePublish` calls `FlvStop` for FLV players.  An action applies one
handler to `ctx`.

| Action | Code |
|---|---|
| `Accept` | constructor and `run()` of an RTMP session |
| `Publish`, `Play` | `onPublish`, `onPlay`, with the verdict of the listeners of `prePublish` and `prePlay` (accept or reject) |
| `CloseStream` | `onDeleteStream`, `onCloseStream` |
| `SocketEnd` | close, error and timeout of the socket: `stop()` |
| `Request`, `RequestEnd` | FLV over HTTP or WebSocket: `run()`, `onPlay`, `stop()` |

Iteration over a JavaScript `Set` while it is changed is modelled by its
effect: the players and waiters are independent of one another, so the order
does not show in the result.  A method call on `undefined` sets `uncaught`, and
the model stops there: `process.on('uncaughtException')` keeps the process
alive with a registry that was left half changed, and nothing is claimed of it.

`Spec` has orderly clients: they publish and play on streams they created,
one of each at a time.  This is an assumption on clients, which the code does
not enforce: it answers a second `play` with `BadConnection` and carries it out.
`AnyPlayerSpec` drops it for players: they play in any state, on any message
stream, as often as they like.  `AnySpec` drops it for publishers, too.

`StreamBroker` is the promise in three variables: who owns a path, who wants
one, and an audience that is a function of the two.  `ImplementsBroker` maps the
registry to it: every handler is one step of the broker or none.

### RtmpPush, StreamStatus

`RtmpPush` has one variable `pushing`, `video`, `audio`, `worker` per
thread for the place it is at, and one action per stretch of code between two
accesses to something shared.  `Poll`, `Advance`, `PublishStream`, `Refuse`,
`Pop`, `Write`, `WriteFails` are turns of `AnyRtmpPush::Run`; `Connected` and
`ClearList` are the two halves of `CallConnect`; `Drop`, `Retry` and `Report`
are `CallDisconnect` with its callbacks; `Camera`, `Encode`, `DeliverVideo`,
`CheckVideo` and `QueueNal` carry a picture to the list one NAL unit at a time;
`Record`, `DeliverAudio` and `QueueAac` carry samples; `Close`,
`Disconnect`, `Join` and `StopEncoder` are `StopStream`.  Every call to the
server succeeds or fails.  The list has its lock for one operation at a time, as
in the code.  A list entry is the kind of its data and whether it is from before
the last connection (`old`, which the code does not keep: it exists to state
`NothingStale`).  `Written` is what srs_librtmp does with NAL units: it keeps
parameter sets and muxes a sequence header before the next slice.

Left out: the metadata packet, the parameters set before the thread
sends, the status event once a second, codec contents and time stamps.

`StreamStatus` is what the application may hear: OK, numbered attempts, one
failure.  `ReportsStatus` says that `RtmpPush` implements it.

### HosterControl

A program counter per thread (looper, worker, recorder, push), three locks and
the worker's messages.  `StartRtmpStream`/`StartRecord`,
`StopRtmpStream`/`StopRecord` and `Clear` with `ReceiveSends`, the
destructor's own `StopSteps`, `DeleteEncoders`, `DeletePush`, `JoinPush` and
`ClearQueue` are the calls of the application; `Due`, `OnMessage`, `StartStream`,
`SetVideoEnable`, `StopStream`, `Join` and `StopEncoder` the worker; `Record`,
`OnData`, `OnAACData` the recorder with its nested locks; `Turn` and `Callback`
the push thread, reduced to connecting and losing.

The application may stop and destroy whenever it likes: within the 500 ms of a
start, and right after a stop, as `HosterActivity.java:44-45` and `54-55` do.
`~RtmpHosterImpl` does not wait for `OnMessage`, and the worker of the model does
not wait for it either: it goes on in the streamer that is being deleted.  From
then on its uses of the streamer (`Uses`) have no defined outcome.  They do what they
would do with the memory as it was, make a push thread for instance, or end the process
(`Crash`).  Two history variables say how far a call came too early, so that the
properties can promise what is true of each case and no more:

* `overtaking`: the last stop was sent when a start was not yet due.  It is handled
  first, and the stream that is then made publishes although it was stopped.
* `unhandled`: what the worker still had to do when the destruction began.  If that
  was nothing, no thread is in the deleted streamer.  If it was a stop, the worker may
  be, but no push thread is left behind.  If it was a start, both may happen.

One call is left out of the run: `WaitsToStart` says that the application starts a
hoster again only when the worker has handled what it was sent.  The screens start a
hoster once.  With `WaitsToStart = FALSE` (19 999 states) `NoCircle`, `Handled`,
`CallsReturn` and `Obeyed` fail and the other properties hold: a start right after a stop attaches the
recorder again before the worker has handled the stop.  The worker then holds
`cs_av_rtmp_` and joins the push thread, which waits for `buffer_critsect_`,
which the recorder holds while it waits for `cs_av_rtmp_`.

No document of the repository says what an application may do of all this, so
these cases are recorded as hazards and not as findings.

### PlayerControl

Four threads: the looper of the application, the player thread of
`AnyRtmplayerImpl`, the pull thread, and the audio device.  `StartRtmpPlay`,
`StopRtmpPlay` and `Clear` begin a call; the steps that follow
(`StopAudioTrack`, `StopPlay`, `Quit`, `JoinPlayer`, the deletions) are actions
of their own because other threads run between them.  `DeletePull`,
`Disconnect`, `JoinPull` and `DeleteDecoder` are the same code on two threads:
the player in `PLY_STOP`, the application in the destructor.  `Turn`,
`StageDone`, `StageFailed`, `Retry` and `Unlock` are `AnyRtmpPull::Run` with
`CallConnect` and `CallDisconnect`, which calls back into the player with
`cs_rtmp_` held.  `NeedMorePlayData` and `GetPcmData` are the audio callback.
The queue of the player thread is a sequence of kinds of messages, and `Without`
is `MessageQueue::Clear`, written as a function on the prefixes of the queue.

Assumed of the application: it lets the player handle the stop of one playback
before it starts another on the same guest.  `GuestActivity` makes a new guest
for each playback, and so does more than that.  It may stop and destroy at any
moment.  Without that assumption a late `PLY_STOP` of a failed pull ends the next
playback.  `NoDeletedDecoder` excepts a decoder whose stream has failed: there
`PLY_STOP` is posted by the pull thread while the audio device still runs, and
the code has no lock between the two.

### PlyBuffer

Time is in ticks; each tick makes one packet, and a list is known by its front
because packets are consecutive.  `Deliver` is `CacheH264Data` and
`CachePcmData`, `GetPlayAudio` the audio device, `DoDecode` the timer
of the decoder with the disjuncts `Fast`, `Normal`, `Cache` and
`Idle` for the three states of play-out.  `Tick` lets time pass when the
decoder and the audio device had their turn: a tick stands for many turns of
5 ms, and the model is exact to within one tick.  The network may fall behind by `MaxLate`
ticks and catch up.  A stream has pictures, sound or both, and keeps them.
`pausedAt` and `live` are not in the code; they remember what the
properties speak of.

### MediaFanout

One broadcast, its cached headers and group of pictures, and what each player
is written.  `rtmpAudioHandler`, `rtmpVideoHandler` and `rtmpDataHandler` handle
the messages of the publisher, `onStartPlay` a player that joins, `onPause` one that
pauses or resumes.  A message is its place in the broadcast, so that "in order" and "once" are
about numbers.  RTMP players have a write queue that is emptied ten messages at a
time, HTTP-FLV players have none; which kind a player is is chosen at the start.  Players do not meet in
this code except through shared buffers, whose stream id is left out, so one
player is enough.  An encoder sends the header of a codec before its media
(`HeaderFirst`), as those of this repository and ffmpeg do.

### RtmpChunk

`SendMessage`, `SendChunkSize` and `SendRest` are a peer that may
interleave the chunks of several channels, and splits messages the way `rtmpChunksCreate` does.
(That one reckons a byte for every header of type 3, which is right on the channels 2
to 6 that the repository sends on, and too little above 63.)  The reader is `rtmpChunkRead` with
its states, which may find any number of the bytes on the way.  Those are the bytes of a
sequence of chunks (`wire`) less what was read of the first (`read`).  Header
sizes are the code's.  The reader counts its own bytes (`parserBytes`, the body
of a packet) and knows nothing of `read`; `garbled` records that it took header for
payload, a byte of one chunk for one of the next, or handled a message that was not
due.  Messages are not empty, the chunk size changes only between messages, and the
payload of SetChunkSize is counted as one byte in place of four.

### Relay, MCRelay

The listeners of `NodeRelayServer` on a registry reduced to one path: who
publishes it, who plays or waits.  `Start`, `End`, `Exit` and
`Close` are a `NodeRelaySession`: `process` is `"dead"` from its end
until Node raises 'close'.  `dynamicSessions` and `staticSessions` are the maps of the
code, keyed by the id of a player (pull), of a publishing connection (push), or
of the task (static).  `Publish` by an id of `Statics` or `Pulls` is ffmpeg's own
connection.  One task of each mode at most; a pull and a push for the same app
are not combined, because the ffmpeg of the push would be one more player, which
is left out.  A connection publishes once, as those of `AnyRtmpPush` and ffmpeg do: one
that publishes again within a second would make two pushes under one id, of which
`donePublish` ends only one.

## 3. Runs

| Run | Instance | Distinct states | Shows |
|---|---|---|---|
| `orderly_clients` | 3 RTMP sessions, 1 FLV session, 2 paths, stream ids 0 and 1 | 45 109 | all properties of the registry under `Spec` |
| `any_client` | 2 RTMP sessions, 2 paths, stream id 1 | 270 337 | `MapMatchesStarted` under `AnySpec` |
| `any_player` | 2 RTMP sessions, 1 FLV session, 2 paths, stream ids 0 and 1 | 245 996 | `OwnersUnharmed` under `AnyPlayerSpec` |
| `publishing` | 3 retries, 2 frames, 5 list entries | 415 211 | safety, reports and liveness of publishing |
| `sequence_header` | the same | 45 242 until it stops | the finding below |
| `any_application` | 3 starts; stops and destruction at any time | 3 417 | safety and liveness of starting, stopping and destroying |
| `player_control` | 3 retries, 2 starts | 20 798 | safety and liveness of starting and stopping a playback |
| `ply_buffer` | limits of 2 and 4 ticks, second of 4, cache up to 4 seconds, 40 ticks, 7 late | 2 217 526 | pausing and resuming |
| `media_fanout` | 1 player of either kind, 6 messages, queue of 3, 2 pauses | 2 419 320 | what a player receives |
| `rtmp_chunk` | 2 channels, 3 messages of 1, 4 or 5 bytes, chunks of 2 or 3 bytes, two of them on the way | 1 115 934 | splitting and reassembly |
| `relay` | 2 players, 1 publishing client, 2 static, 2 pull and 3 push processes at a time; static with pull, static with push, pull alone | 262 824 | pushes end, static pulls start again |
| `relay_pull` | the same, pull alone | 7 536 | the second finding below |

**Registry.**  Three RTMP sessions give a publisher, a player and a session in
a third role (second player, rival publisher, player of the other path); an FLV
session is needed because it leaves an audience in another way; two paths tell
"another stream" from "the same stream"; id 0 is the id `stop()` does not
close.  A session id is used for one connection only, as in the code, so the
instance ends and deadlock is not checked.  Sessions of a kind and paths are
interchangeable (`SYMMETRY`); `VIEW` drops the fields of objects nothing can
reach, no action and no property reads them.  The properties of this instance
are safety properties, for which both reductions are sound, and the invariants
among them are proved without bounds.  The runs with any
client and any player have far more behaviours per session and are kept to two RTMP
sessions; their properties speak of the map and of names, and two sessions are what it
takes to contend for a name, or to meet what the other one left behind.

* `OwnersAlive`, `AudienceExact`, `IdleExact`: containers and session fields
  agree between any two callbacks.
* `AudienceReleased`: when a stream ends its RTMP players wait for it again and
  its FLV players are disconnected.
* `NoTypeError`: no method is called on a session that has gone.
* `ImplementsBroker`: refinement of `StreamBroker`.
* `OwnersUnharmed`: whatever players do, names and live publishers match as long as
  nothing was thrown.  `AudienceExact` and `NoTypeError` are false here: a session that
  plays twice stays in the audience of the first publisher, which throws when the
  session has gone.  The property says that the damage goes no further: no broadcast
  ends and no name is lost or taken through what a player sends.  It does not hold
  under `AnySpec`, where a session that publishes and publishes again under a name in
  use is refused with that name stored as its own
  (`node_rtmp_session.js:979`), and takes it from its owner when it ends.
* `MapMatchesStarted`: whatever clients do, the map holds the unstopped sessions
  as long as nothing was thrown.

**Publishing.**  `MaxRetry` is the code's own 3.  Two frames let one be waiting
while another is being queued; five entries hold a key picture, a delta picture
and an AAC frame, so that every kind can be stale at a reconnection.  The code has
neither bound.  The stop ends everything, hence `CHECK_DEADLOCK FALSE`.

* `NothingStale`, `NothingGarbled`: nothing from before an outage is sent, and
  the first picture of a connection is a key picture.
* `EncodersFollowStream`: the encoders run exactly while there is a stream.
* `ReportsStatus`, `Settles`: reports are orderly, and one comes.
* `StopEnds`: `StopStream` returns.

**Hoster.**  Three starts let a stop and a start meet the effects of the ones
before.  The code has no such bound.  An application that stops calling is
allowed, and so is a process that has crashed, hence `CHECK_DEADLOCK FALSE`; that a
thread is not stuck is stated by `Handled` and `CallsReturn` instead.

* `NoDeletedStreamer`: the recorder is never in a deleted streamer, and no thread is if
  nothing was unhandled when the destruction began.
* `DestroyedClean`: the destructor leaves no callback and no message, and no push
  thread unless a start was unhandled.
* `Silent`: a stop that was handled leaves nothing recording, and nothing publishing
  unless it overtook a start.
* `NoCircle`: no threads wait for one another in a circle of locks, joins and invokes.
* `Obeyed`: what the application asked for last comes about, unless its stop overtook a
  start.
* `Handled`, `CallsReturn`: what was sent is handled and every call returns, unless the
  process crashes.

**Player.**  `MAX_RETRY_TIME` is the code's 3.  Two starts let a playback
meet what the one before left behind; the application starts no third, which the
code would allow, hence `CHECK_DEADLOCK FALSE`.

* `NoDeletedDecoder`: neither the pull nor the audio thread is in a deleted decoder.
* `StoppedClean`: a stop that was handled leaves no connection, thread, decoder or sound.
* `Answered`: a playback is answered with OK or closed, unless it is stopped.
* `CallsReturn`: no call of the application and no `PLY_STOP` waits for ever.

**Play-out.**  The proportions are the code's in small: `PLY_RED_TIME`
(250 ms) is below a second and at least two ticks, `PLY_MAX_CACHE` (16) is a power of
two.  40 ticks are enough for every cache time to be reached and for the longest
to be taken back; 7 late ticks exceed every buffer.  The clock stops at
`MaxTime`, hence `CHECK_DEADLOCK FALSE`.

* `ResumesWhereItStopped`: without sound, the position after caching is that of the pause.
* `ResumesInTime`: a source that keeps up costs one round of caching, no more.
* `BackOff`: cache times double up to half of the longest.

**Fan-out.**  Six messages are three headers and a group of pictures with sound,
or two groups; a queue of 3 in place of 10 is flushed within them.  The broadcast
ends, hence `CHECK_DEADLOCK FALSE`.

* `Feed`: a player that never pauses is written the headers, its group of pictures,
  then all that followed, each once and in order.  What is still in the write queue
  counts as received: that nothing flushes the queue at the end of a broadcast
  (`node_rtmp_session.js:221`) is not held against the code.
* `InOrder`: one that pauses receives no media twice or after later ones.

**Chunks.**  Lengths below, equal to and above multiples of the chunk sizes, times
below and above the limit of three bytes (here 6), a channel with one byte of header and
one with two.  Two chunks on the way, the one being read
among them, let the reader meet the end of one and the header of the next.  The
sender stops after three messages, hence `CHECK_DEADLOCK FALSE`.

* `RoundTrip`: what is handled is what was sent, with its time, in the order of completion.
* `NothingHeldBack`: when every byte has been read, every complete message has been
  handled: none waits for a byte of the next.

**Relay.**  Two players tell the one that caused a pull from the last one; two
static processes let a new one start while the connection of the old one lives.
A run of pulls that are never ended reaches the bound of two, after which a player cannot
ask for a stream that is not there.  `CHECK_DEADLOCK FALSE` for that reason only.

* `PushFollows`: a push runs only while the connection it was started for publishes.
* `StaticRestarts`: a static pull that ended is run again.

Every property of a passing run has a mutant: a definition that stands for code,
changed the way a slip would change the code, under which TLC finds the property
violated.  They are the definitions marked "Variant" in the modules.

### Fairness

The registry's properties need none.  In `RtmpPush` each thread is weakly fair:
the operating system runs a thread that can run, and a call of srs_librtmp
returns, by its time limits or because the socket was closed.  The camera, the
recorder and the application's stop are not fair: no property relies on data
coming.  In `HosterControl` the threads are strongly fair, because a thread that
waits for a lock is enabled only while the lock is free: the recorder delivers
every 10 ms and holds its locks for a fraction of that, so a waiting thread finds
the lock free again and again.  Weak fairness would let the recorder starve it,
which the platform's mutexes do not do.  The same holds in `PlayerControl`, where
handshake, connect and play end by their time limits; nothing makes data arrive, the
device ask for sound or the guest call.  `Relay` assumes that the interval of one
second goes on, that Node raises 'close' for a process that has ended and the server
notices its lost connection, and that an ffmpeg which can publish does.  Nothing makes a
player come, go, or a process end.  `PlyBuffer`, `MediaFanout` and
`RtmpChunk` have safety properties only.

### Findings

`sequence_header`: `CallConnect` (`anyrtmpush.cc:367`) sets `need_keyframe_`
and then empties the list, in two steps.  The video thread may be between the NAL
units of a key picture taken before the outage: its SPS is emptied with the list,
its PPS and IDR come after.  srs_librtmp then makes a sequence header from an
empty SPS, of which it asserts `sps.length() >= 4` (`srs_librtmp.cpp:17281`).

`relay_pull`: `Node-Media-Server/README.md:626` says of a dynamic pull "When the
stream is not played by the client, it automatically disconnects."  `onDonePlay`
(`node_relay_server.js:98`) looks the pull up under the id of the player that
leaves, and ends it if that player was the last.  Two players wait for one
stream; the one under whose id the pull is stored leaves first; when the
other leaves, nothing is found, and the pull goes on without players for as long as
ffmpeg does.  A player that leaves while it waits raises no `donePlay`
at all.

## 4. Proofs

`StreamRegistry_proofs` proves for any sets of sessions, paths and stream ids:

| Theorem | Property |
|---|---|
| `RegistryAlwaysConsistent` | `Spec => []RegistryInv` |
| `TypeCorrect` | `Spec => []TypeOK` |
| `OwnersAlwaysAlive` | `Spec => []OwnersAlive` |
| `AudienceAlwaysExact` | `Spec => []AudienceExact` |
| `IdleAlwaysExact` | `Spec => []IdleExact` |
| `NeverTypeError` | `Spec => []NoTypeError` |

The only assumption is `RegistryAssumption`: RTMP and FLV ids differ, `Nobody`
is no session, `NoPath` is no path, stream ids are naturals.

The properties are not inductive one by one.  That an audience is exact after
`onDeleteStream` depends on its members being alive; that it is exact after
`stop()` depends on `stop()` closing the stream the session plays, hence on its
id not being 0; that a waiter is served depends on waiters having a path.
`AttachedIn` collects these facts, and `Consistent(r)` is the conjunction of all
of them for a registry `r`.  It is stated for a value and not for the variables
because it must hold in the middle of a callback, wherever one method calls
another.  `RegistryInv` adds that between callbacks the map holds exactly the
sessions that were not stopped.

The argument follows the call graph.  One lemma per method says that it takes a
consistent registry to a consistent one: `FlvStop`, `ClosePlay`, `Dismiss`
and `ClosePublish`, then `DeleteStream` and `DropSession`, then `RtmpStop`;
naming a path or a stream, `JoinOrWait` and `Serve` (each with the `StartPlay`
inside it), then `OnPublish`, `OnPlay` and `OnRequest`.  `Closes` is what callers need to know besides: a
method that closes streams stops only FLV sessions, and starts nothing.  The
step lemma has one case per action, and the theorems follow by temporal
reasoning.

It goes on to the abstract broker, from the same assumption:

| Theorem | Property |
|---|---|
| `RegistryImplementsBroker` | `Spec => ImplementsBroker` |
| `AudienceAlwaysReleased` | `Spec => AudienceReleased` |

A handler may end a stream, start another for a waiting player and stop a third
session in one step, so a method cannot be compared with a step of the
broker by itself.  What a method does between two registries is described by
relations instead: `Quits` (players leave), `Releases` and `Ends` (streams end,
their RTMP players wait again, their FLV players are gone), `Claims`, `Starts`
and `Moves`.  They compose (`EndsCompose`), each method satisfies one of them,
and `MovesRefine` reads off the broker's step from what a whole handler did.
`AudienceReleased` is the part of `Ends` that speaks of players.

Its last part is about `AnySpec`, where clients play and publish as they
like and most invariants fail:

| Theorem | Property |
|---|---|
| `AnyTypeCorrect` | `AnySpec => []TypeOK` |
| `MapAlwaysMatches` | `AnySpec => []MapMatchesStarted` |
| `OwnersNeverHarmed` | `AnyPlayerSpec => []OwnersUnharmed` |

No consistency can be assumed here.  Types are kept by every method, whatever state
it meets.  A session leaves the map in the method that marks it stopped (`Drops`,
`Matches`), or something was thrown; after that nothing is claimed.  For
`OwnersUnharmed` the invariant is `Owned`: names and publishers match, and whoever
publishes has a stream id that `stop()` closes.  Methods that touch audiences only keep
it because they leave the owners' fields alone (`SameOwners`); that closing a
broadcast keeps it depends on the publisher's path being the one it owns, which is
where a second publish would break the proof.

`RtmpPush_proofs` proves for any numbers of retries, frames and list entries:

| Theorem | Property |
|---|---|
| `PushAlwaysConsistent` | `Spec => []PushInv` |
| `TypeCorrect` | `Spec => []TypeOK` |
| `NeverStale` | `Spec => []NothingStale` |
| `NeverGarbled` | `Spec => []NothingGarbled` |
| `EncodersAlwaysFollow` | `Spec => []EncodersFollowStream` |
| `ReportsAlwaysOrderly` | `Spec => ReportsStatus` |

from `PushAssumption` (the bounds are naturals).  The parts of `PushInv` are:
where the push thread can be in each status (`Place`), how the count of attempts
relates to it (`Count`), what the application was told (`Story`, which is all the
refinement needs), where the encoders run (`Encoding`), that nothing old is
in the list or taken from it once the thread sends (`Fresh`), and `KeysFirst`.
The last is why `NothingGarbled` holds although `CallConnect` sets
`need_keyframe_` and empties the list in two steps: the slice that follows a
parameter set is always that of a key picture, or the video thread is about to
queue it (`KeyNext`), whatever was taken or emptied in between.  The proof
follows a parameter set from the list (`KeysInList`) through the packet being
written (`KeyBehindPacket`) to the context of srs_librtmp (`KeyBehindContext`,
`Sound`).  It says nothing of which parameter sets came: the missing SPS of
`sequence_header` is compatible with it.

`HosterControl_proofs` proves for any number of starts:

| Theorem | Property |
|---|---|
| `HosterAlwaysConsistent` | `Spec => []HosterInv` |
| `TypeCorrect` | `Spec => []TypeOK` |
| `DestroyedAlwaysClean` | `Spec => []DestroyedClean` |
| `NeverDeleted` | `Spec => []NoDeletedStreamer` |
| `AlwaysSilent` | `Spec => []Silent` |
| `NeverInCircle` | `WaitsToStart` implies `Spec => []NoCircle` |

from `HosterAssumption`.  All but the last hold however hasty the application is, also
where it starts again at once.  `HosterInv` says that the recorder
delivers only while it has a callback and holds its lock (`Recording`, `Delivering`),
that a push thread belongs to an `AnyRtmpPush` (`Joined`), and where the
destructor is (`Destroying`).  Its other parts follow the messages that are left:
a destruction that began with no start unhandled meets none and no `AnyRtmpPush`
behind its own `StopStream` (`Startless`), one that began with nothing unhandled has the
streamer to itself (`Alone`), the process crashes in no other case (`Crashing`), and
behind a stop that overtook no start nothing is sent and the worker ends the stream
(`Stopping`).

`NoCircle` is about who waits for whom (`Awaits`): for a lock, for a thread to
end, for the worker.  Its proof needs `WaitsToStart`, where each thread can be at all (`AtHome`),
that a lock is held only at the places that take it (`Holding`), and `Obeying`:
while the worker is in a stop, or one is queued, the application has stopped and
not started again, so the recorder is not attached.  The recorder is then idle while anyone holds `cs_av_rtmp_`, and waits for
nobody; so the push thread, which can wait only for the recorder, is free, and of
the two that are left the worker waits for the application only when that one
joins the push thread.

`PlayerControl_proofs` proves for any numbers of retries and starts:

| Theorem | Property |
|---|---|
| `PlayerAlwaysConsistent` | `Spec => []PlayerInv` |
| `TypeCorrect` | `Spec => []TypeOK` |
| `NeverInDeletedDecoder` | `Spec => []NoDeletedDecoder` |
| `AlwaysStoppedClean` | `Spec => []StoppedClean` |

from `PlayerAssumption` (the bounds are naturals).  The difficulty is that the messages that
wait decide what is still going to happen.  `PlayerInv` therefore speaks of `Pending`,
the queue without its ticks: at most one start waits, and before all stops (`Order`); a
start that waits finds no pull and no decoder (`Starting`); a stop that waits, or is
being handled, finds the audio callback removed or the stream failed (`Stopping`); and
after a stop of the application the playback is ended, or a message that ends it
waits (`Ended`), from which `AlwaysStoppedClean` follows.  The rest says who holds a
lock, that at most one thread deletes the pull, that a pull has its decoder, and that
nothing but a playback sets the audio callback (`Locks`, `Calls`, `Pulls`, `Retries`,
`Tracks`, `Sounds`).  `Ticks` counts the ticks, of which a start brings one.

What `Clear` leaves of a queue is an induction over the queue.  The theorems of the
library that do induction take an operator as their parameter and cannot be used;
`EveryNumber` derives the principle for a set of numbers from the minimality of
well-founded relations (`WFMin`), and `WithoutFacts`, `WithoutAppend`,
`WithoutTwice` and `WithoutTail` follow from it.

`PlyBuffer_proofs` proves for any limits, times and lateness:

| Theorem | Property |
|---|---|
| `TypeCorrect` | `Spec => []TypeOK` |
| `BacksOff` | `Spec => BackOff` |
| `NothingSkipped` | `Spec => ResumesWhereItStopped` |
| `OneRound` | `Spec => ResumesInTime` |

from `BufferAssumption`: a `PLY_RED_TIME` of at least two ticks and at most a
second, a `PLY_MAX_CACHE` of at least 2 (one second would be halved to none), and
streams that consist of something.  The invariant says where a round of caching
stands: it began `cache_time_` before its end, the decoder runs at the moment it
ends (`Round`), without sound the clock at its beginning is at the position of the pause
(`Position`), and what the lists hold was no older when it began (`Supply`).
`Position` survives from round to round because `Shift` moves the clock by as
much as the round lasted, which needs `Round`.  `OneRound` follows from `Supply`: all
but the last unit has come, so the lists span the round less two ticks.  The first two
theorems need `DoublingAssumption` besides: doubling one second reaches `PLY_MAX_CACHE`
and does not step over it, as with the code's 16.  It is stated without powers, by a
set of numbers that holds 1 and `PLY_MAX_CACHE` and is closed under doubling below
that; the cache times stay in this set (`Delays`).

`MediaFanout_proofs` proves for any players, messages, pauses and length of the
queue:

| Theorem | Property |
|---|---|
| `TypeCorrect` | `Spec => []TypeOK` |
| `AlwaysInOrder` | `Spec => []InOrder` |
| `AlwaysFed` | `Spec => []Feed` |

from `FanoutAssumption`: the queue has room for one message at least.  What a player was written and
what waits for it are in order together (`StreamsOK`); so are the messages of the
cached group (`GopOK`), and the headers are no media (`HeadersOK`).  Two
lemmas carry the proof: a message later than all others may be appended, and what
holds no media may be put anywhere, as metadata and repeated headers are, ahead of
the queue.

`Feed` says what a player that never pauses is written: the headers, then exactly its
group of pictures and what followed.  That is about what was written only because the
queue holds the rest: what was written after the headers, and what waits, are together
the group and all that came since, in order (`Fed`).  It needs the caches to be true of the
broadcast: the headers that are kept are the last ones sent, and the cached group is
what a player that joined now would have missed (`CachesOK`).

`RtmpChunk_proofs` proves for any channels, lengths, times, chunk sizes, messages and
chunks on the way:

| Theorem | Property |
|---|---|
| `ReaderAgrees` | `Spec => []ChunkInv` |
| `AlwaysRoundTrip` | `Spec => []RoundTrip` |
| `NeverHeldBack` | `Spec => []NothingHeldBack` |

from `ChunkAssumption`: lengths and chunk sizes are not zero.  The reader is behind the
sender by the chunks on the way, so neither can be related to the other as they are now.
`ChunkInv` says that there is a `Trace`: states of the sender, one before and one
after each chunk on the way, such that each chunk leads from one to the next (`Sent`) and
the last is the present one.  What the reader holds is a function of the first of
them and of how many bytes it has read of the first chunk (`Reading`).  Sending makes the
trace longer at its end (`TraceGrows`), and the last byte of a chunk takes away its beginning
(`TraceShrinks`).  `Well` says that a message under way was sent in full chunks of the
present size, which is why the reader finds the end of a chunk where its bytes
modulo the chunk size are none (`Remainder`, `EndOfChunk`); this holds because the chunk
size does not change in the middle of a message, and the proof would fail there.
`NeverHeldBack` is the case of an empty way: the trace is one state, and the reader has
handled as many messages as that has sent.

`Relay_proofs` proves for any players, connections and processes:

| Theorem | Property |
|---|---|
| `TypeCorrect` | `Spec => []TypeOK` |
| `PushesFollow` | `Spec => []PushFollows` |

from `RelayAssumption`: the ids differ, and no configuration has both a pull and a
push.  That `donePublish` finds the push is not inductive: the 'end' of another
session with the same id would have deleted what is stored.  So the invariant says
that a connection never has two pushes, a dying one included (`OnePush`), that pulls and
pushes have ids of different kinds (`Keyed`), that a connection has no push before its
timer fires (`NotYet`), and that an ffmpeg which has not published yet left nothing under
its name (`Untouched`).  This is also where the proof would fail for two push
tasks or a connection that publishes twice.

What stays with TLC:

* All liveness: `Settles`, `StopEnds`, `Obeyed`, `Handled`, `CallsReturn`,
  `Answered`, `StaticRestarts`.
* `HeaderHasSps` and `PullEnds`, which the runs `sequence_header` and `relay_pull`
  refute.

Liveness is out of the prover's reach.  Every other property of a passing run is the
statement of a theorem.

## 5. Plan

Done, in this order: the registry with the abstract broker, publishing with
the abstract status, hoster control, player control, play-out, fan-out, chunks,
relay; proofs for all of them, of every safety property the runs check.

Left:

1. `NetDelay`: `V_H264Encoder::SetNetDelay`, whose thresholds overlap; the rate is
   a function of the last threshold crossed.
2. `Looper`: `requestStart`, `requestStop` and `execute` from several threads.
3. `Cluster`: copies of a stream in other workers, a worker that dies and is
   forked again, with the RTMP client.
4. Several tasks of one mode in `Relay`, and connections that publish twice.

## 6. Not modelled

Parsing and formats (handshake bytes, AMF, FLV tags, H.264 and AAC headers) are
functions on bytes without state; samples test them better.  The codecs and filters compute
on samples.  The Android bindings are copies of WebRTC's.  The screens only call
the kits, and are the environment of `HosterControl` and `PlayerControl`.  The HTTP interface reports on the
registry and changes nothing.  Authentication appears only as a refusal.  Stopping the
server ends the process.  Transcoding starts and ends ffmpeg by the same events and
in the same way as the push of `Relay`.  The cluster, the RTMP client it uses, the
bit-rate adaptation and the looper are not modelled yet (section 5).

Most of the repository's lines are vendored (`core/srs_librtmp`,
`core/lib_rtsp`, `third_party`, `webrtc`, `org/webrtc`): other projects with their
own tests, of which this code uses a small part.  The models cover the code that
is this repository's own; its share of all lines is small for that reason.
