--------------------------- MODULE StreamRegistry ---------------------------
(***************************************************************************)
(* The publish/subscribe registry of Node-Media-Server: the three          *)
(* containers of node_core_ctx.js (sessions, publishers, idlePlayers) and  *)
(* the part of every NodeRtmpSession and NodeFlvSession that the commands  *)
(* publish, play, deleteStream and closeStream and the end of a connection *)
(* read and write.                                                         *)
(*                                                                         *)
(* Node runs one callback at a time, so a callback is one action.  Inside  *)
(* a callback the code calls from one object into others (a publisher      *)
(* stops its FLV players, a rejecting listener stops the session that is   *)
(* being handled), so each method is a function from the registry to the   *)
(* registry, and an action runs one handler on the current registry `ctx`. *)
(*                                                                         *)
(* A method called on a session that is no longer in the map throws a      *)
(* TypeError out of the callback.  `uncaught` records it, and the model    *)
(* goes no further: what the rest of the process does with a registry that *)
(* was left half changed is not described.                                 *)
(***************************************************************************)
EXTENDS Naturals, FiniteSets

CONSTANTS Rtmp,       \* ids of RTMP sessions; an id is used for one connection
          Flv,        \* ids of HTTP-FLV and WebSocket-FLV sessions
          Paths,      \* stream paths, '/app/name'
          StreamIds,  \* message stream ids a client may use
          NoPath,     \* the path '' of a session that names no stream
          Nobody      \* what publishers.get() returns for an unknown path

ASSUME RegistryAssumption ==
    /\ Rtmp \cap Flv = {}
    /\ Nobody \notin Rtmp \cup Flv
    /\ NoPath \notin Paths
    /\ StreamIds \subseteq Nat

Sessions == Rtmp \cup Flv

VARIABLES
    fresh,              \* ids no connection has used
    open,               \* sessions whose socket can still raise an event
    sessions,           \* keys of context.sessions
    publishers,         \* context.publishers: path -> session id
    idlePlayers,        \* context.idlePlayers
    starting,           \* sessions with isStarting
    publishing,         \* sessions with isPublishing
    playing,            \* sessions with isPlaying
    idling,             \* sessions with isIdling
    publishStreamId, publishStreamPath,
    playStreamId, playStreamPath,
    players,            \* the `players` set of every session object
    uncaught            \* a TypeError reached process.on('uncaughtException')

vars == <<fresh, open, sessions, publishers, idlePlayers, starting, publishing,
          playing, idling, publishStreamId, publishStreamPath, playStreamId,
          playStreamPath, players, uncaught>>

\* The registry as one value, so that methods can call one another.
ctx == [fresh |-> fresh, open |-> open, sessions |-> sessions,
        publishers |-> publishers, idlePlayers |-> idlePlayers,
        starting |-> starting, publishing |-> publishing, playing |-> playing,
        idling |-> idling,
        publishStreamId |-> publishStreamId,
        publishStreamPath |-> publishStreamPath,
        playStreamId |-> playStreamId, playStreamPath |-> playStreamPath,
        players |-> players, uncaught |-> uncaught]

\* The callback that leaves the registry as r.
Becomes(r) ==
    /\ fresh' = r.fresh
    /\ open' = r.open
    /\ sessions' = r.sessions
    /\ publishers' = r.publishers
    /\ idlePlayers' = r.idlePlayers
    /\ starting' = r.starting
    /\ publishing' = r.publishing
    /\ playing' = r.playing
    /\ idling' = r.idling
    /\ publishStreamId' = r.publishStreamId
    /\ publishStreamPath' = r.publishStreamPath
    /\ playStreamId' = r.playStreamId
    /\ playStreamPath' = r.playStreamPath
    /\ players' = r.players
    /\ uncaught' = r.uncaught

\* What the registry is made of.
Registry ==
    [fresh : SUBSET Sessions,
     open : SUBSET Sessions,
     sessions : SUBSET Sessions,
     publishers : [Paths -> Rtmp \cup {Nobody}],
     idlePlayers : SUBSET Sessions,
     starting : SUBSET Sessions,
     publishing : SUBSET Rtmp,
     playing : SUBSET Sessions,
     idling : SUBSET Sessions,
     publishStreamId : [Rtmp -> StreamIds \cup {0}],
     publishStreamPath : [Rtmp -> Paths \cup {NoPath}],
     playStreamId : [Rtmp -> StreamIds \cup {0}],
     playStreamPath : [Sessions -> Paths \cup {NoPath}],
     players : [Rtmp -> SUBSET Sessions],
     uncaught : BOOLEAN]

Init ==
    /\ fresh = Sessions
    /\ open = {}
    /\ sessions = {}
    /\ publishers = [path \in Paths |-> Nobody]
    /\ idlePlayers = {}
    /\ starting = {}
    /\ publishing = {}
    /\ playing = {}
    /\ idling = {}
    /\ publishStreamId = [s \in Rtmp |-> 0]
    /\ publishStreamPath = [s \in Rtmp |-> NoPath]
    /\ playStreamId = [s \in Rtmp |-> 0]
    /\ playStreamPath = [s \in Sessions |-> NoPath]
    /\ players = [s \in Rtmp |-> {}]
    /\ uncaught = FALSE

-----------------------------------------------------------------------------
(* Map and Set lookups.                                                    *)

Throw(r) == [r EXCEPT !.uncaught = TRUE]

\* context.publishers.get(path)
PublisherOf(r, path) == IF path \in Paths THEN r.publishers[path] ELSE Nobody

\* sessions.get(publisherId) is about to be dereferenced and is undefined.
Dangling(r, path) == PublisherOf(r, path) \notin r.sessions \cup {Nobody}

-----------------------------------------------------------------------------
(* Methods of the sessions.                                                *)

\* onStartPlay of every session of P, all with a play path that has the
\* publisher pub.  The idle set is the caller's business.
StartPlay(r, P, pub) ==
    [r EXCEPT !.players[pub] = @ \cup P,
              !.idling = @ \ P,
              !.playing = @ \cup P]

\* What onPlay does once nothing has stopped it: join, or wait.
JoinOrWait(r, s, path) ==
    IF r.publishers[path] = Nobody
    THEN [r EXCEPT !.idling = @ \cup {s}, !.idlePlayers = @ \cup {s}]
    ELSE IF Dangling(r, path) THEN Throw(r)
    ELSE StartPlay(r, {s}, r.publishers[path])

\* Variant: the publisher is not told.
LeaveUnnoticed(r, L) == r.players

\* publisher.players.delete(id) for every id of L, each at the publisher of the
\* path it plays.
Leave(r, L) ==
    [s \in Rtmp |->
        r.players[s] \ {p \in L : PublisherOf(r, r.playStreamPath[p]) = s}]

\* NodeFlvSession.stop() of every session of P.
FlvStop(r, P) ==
    LET L == P \cap r.starting
    IN  IF \E p \in L : Dangling(r, r.playStreamPath[p])
        THEN Throw(r)
        ELSE [r EXCEPT !.starting = @ \ L,
                       !.players = Leave(r, L),
                       !.idlePlayers = @ \ L,
                       !.sessions = @ \ L]

\* First half of onDeleteStream: the stream this session plays.
ClosePlay(r, s) ==
    LET forget(q) == [q EXCEPT !.playStreamId[s] = 0, !.playStreamPath[s] = NoPath]
    IN  IF s \in r.idling
        THEN forget([r EXCEPT !.idlePlayers = @ \ {s}, !.idling = @ \ {s}])
        ELSE IF Dangling(r, r.playStreamPath[s]) THEN Throw(r)
        ELSE forget([r EXCEPT !.players = Leave(r, {s}), !.playing = @ \ {s}])

\* Variant: the name is blanked instead of deleted.
UnregisterBlank(r, path) == [r.publishers EXCEPT ![path] = NoPath]

\* context.publishers.delete(path)
Unregister(r, path) ==
    [x \in Paths |-> IF x = path THEN Nobody ELSE r.publishers[x]]

\* Variant: the session ends its broadcast and its path stays registered.
DismissKeepName(r, s) ==
    [r EXCEPT !.idlePlayers = @ \cup r.players[s], !.playing = @ \ r.players[s],
              !.idling = @ \cup r.players[s], !.players[s] = {},
              !.publishing = @ \ {s}]

\* Variant: the audience is cleared without being told to wait.
DismissSilently(r, s) ==
    [r EXCEPT !.publishers = Unregister(r, r.publishStreamPath[s]),
              !.playing = @ \ r.players[s], !.players[s] = {},
              !.publishing = @ \ {s}]

\* The RTMP players that are left when the FLV ones have been stopped go idle.
Dismiss(r, s) ==
    [r EXCEPT !.idlePlayers = @ \cup r.players[s],
              !.playing = @ \ r.players[s],
              !.idling = @ \cup r.players[s],
              !.publishers = Unregister(r, r.publishStreamPath[s]),
              !.players[s] = {},
              !.publishing = @ \ {s}]

\* Variant: FLV players are treated like RTMP ones.
StopNoFlv(r, s) == r

\* First loop over the audience: the FLV players are stopped.
StopFlvPlayers(r, s) == FlvStop(r, r.players[s] \cap Flv)

\* Second half of onDeleteStream: the stream this session publishes.
ClosePublish(r, s) ==
    LET a == StopFlvPlayers(r, s)
        forget(q) == [q EXCEPT !.publishStreamId[s] = 0,
                               !.publishStreamPath[s] = NoPath]
    IN  IF s \notin r.publishing THEN forget(r)
        ELSE IF ~(r.players[s] \subseteq r.sessions) THEN Throw(r)
        ELSE IF a.uncaught \/ ~(a.players[s] \subseteq a.sessions) THEN Throw(a)
        ELSE forget(Dismiss(a, s))

\* onDeleteStream with message stream id `id`.
DeleteStream(r, s, id) ==
    LET a == IF id = r.playStreamId[s] THEN ClosePlay(r, s) ELSE r
    IN  IF ~a.uncaught /\ id = a.publishStreamId[s] THEN ClosePublish(a, s) ELSE a

\* Variant: the session object stays in the map.
DropNothing(r, s) == r

\* context.sessions.delete(id)
DropSession(r, s) == [r EXCEPT !.sessions = @ \ {s}]

\* NodeRtmpSession.stop()
RtmpStop(r, s) ==
    LET a == [r EXCEPT !.starting = @ \ {s}]
        b == IF a.playStreamId[s] > 0
             THEN DeleteStream(a, s, a.playStreamId[s]) ELSE a
        c == IF ~b.uncaught /\ b.publishStreamId[s] > 0
             THEN DeleteStream(b, s, b.publishStreamId[s]) ELSE b
    IN  IF s \notin r.starting THEN r
        ELSE IF c.uncaught THEN c
        ELSE DropSession(c, s)

-----------------------------------------------------------------------------
(* Handlers.  `verdict` is what is outside the registry: "reject" when a   *)
(* listener of prePublish/prePlay calls session.reject(), "denied" when    *)
(* the signature check fails, "ok" otherwise.                              *)

Verdicts == {"ok", "reject", "denied"}

\* Variant: a session that its listener stopped goes on.
RefusedUnchecked(r, s, path, verdict) ==
    r.uncaught \/ verdict = "denied" \/ r.publishers[path] # Nobody \/ s \in r.publishing

\* The early returns and refusals of onPublish.
Refused(r, s, path, verdict) ==
    \/ r.uncaught
    \/ s \notin r.starting
    \/ verdict = "denied"
    \/ r.publishers[path] # Nobody
    \/ s \in r.publishing

\* Variant: players that were served stay in the idle set.
ServeAndKeep(r, W, s) == StartPlay(r, W, s)

\* The loop over idlePlayers: those of W waited for the path s now publishes.
Serve(r, W, s) == [StartPlay(r, W, s) EXCEPT !.idlePlayers = @ \ W]

\* onPublish: the path and the stream id are stored before anything is checked.
OnPublish(r, s, path, id, verdict) ==
    LET a == [r EXCEPT !.publishStreamPath[s] = path, !.publishStreamId[s] = id]
        b == IF verdict = "reject" THEN RtmpStop(a, s) ELSE a
        c == [b EXCEPT !.publishers[path] = s, !.publishing = @ \cup {s}]
    IN  IF Refused(b, s, path, verdict) THEN b
        ELSE IF ~(b.idlePlayers \subseteq b.sessions) THEN Throw(c)
        ELSE Serve(c, {p \in c.idlePlayers : c.playStreamPath[p] = path}, s)

\* onPlay of an RTMP session: a session that already plays is told so and
\* goes on.
OnPlay(r, s, path, id, verdict) ==
    LET a == [r EXCEPT !.playStreamPath[s] = path, !.playStreamId[s] = id]
        b == IF verdict = "reject" THEN RtmpStop(a, s) ELSE a
    IN  IF b.uncaught \/ s \notin b.starting \/ verdict = "denied" THEN b
        ELSE JoinOrWait(b, s, path)

\* Constructor and run() of an FLV session.  "refused" is a listener of
\* preConnect that rejects, or a request that is no GET; a denied session
\* has its response ended but stays in the map until its socket closes.
OnRequest(r, s, path, verdict) ==
    LET a == [r EXCEPT !.fresh = @ \ {s}, !.open = @ \cup {s},
                       !.sessions = @ \cup {s}, !.starting = @ \cup {s}]
        b == [a EXCEPT !.playStreamPath[s] = path]
    IN  CASE verdict = "refused" -> FlvStop(a, {s})
          [] verdict = "reject"  -> FlvStop(b, {s})
          [] verdict = "denied"  -> b
          [] verdict = "ok"      -> JoinOrWait(b, s, path)

-----------------------------------------------------------------------------
(* Actions.  A session that stop() took out of the map while one of its    *)
(* messages was being handled stays `open`: the loop over the rest of that *)
(* read still hands it messages, and its close event is still to come.     *)

Accept(s) ==
    /\ s \in Rtmp \cap fresh
    /\ Becomes([ctx EXCEPT !.fresh = @ \ {s}, !.open = @ \cup {s},
                           !.sessions = @ \cup {s}, !.starting = @ \cup {s}])

Publish(s, path, id, verdict) ==
    /\ s \in Rtmp \cap open
    /\ Becomes(OnPublish(ctx, s, path, id, verdict))

Play(s, path, id, verdict) ==
    /\ s \in Rtmp \cap open
    /\ Becomes(OnPlay(ctx, s, path, id, verdict))

\* deleteStream, and closeStream with the id of its chunk header.
CloseStream(s, id) ==
    /\ s \in Rtmp \cap open
    /\ Becomes(DeleteStream(ctx, s, id))

\* close, error or timeout of an RTMP session's socket.
SocketEnd(s) ==
    /\ s \in Rtmp \cap open
    /\ Becomes(RtmpStop([ctx EXCEPT !.open = @ \ {s}], s))

Request(s, path, verdict) ==
    /\ s \in Flv \cap fresh
    /\ Becomes(OnRequest(ctx, s, path, verdict))

\* close or error of an FLV session's request or web socket.
RequestEnd(s) ==
    /\ s \in Flv \cap open
    /\ Becomes(FlvStop([ctx EXCEPT !.open = @ \ {s}], {s}))

\* What an RTMP client that keeps to the protocol does: it publishes or plays
\* on a stream it created (createStream counts from 1), publishes one stream
\* and plays one stream at a time.
MayPublish(s, id) == id > 0 /\ s \notin publishing
MayPlay(s, id) == id > 0 /\ s \notin playing \cup idling

\* Steps that no client chooses the arguments of.
Other ==
    \/ \E s \in Rtmp : Accept(s)
    \/ \E s \in Rtmp, id \in StreamIds : CloseStream(s, id)
    \/ \E s \in Rtmp : SocketEnd(s)
    \/ \E s \in Flv, path \in Paths, v \in Verdicts \cup {"refused"} :
          Request(s, path, v)
    \/ \E s \in Flv : RequestEnd(s)

OrderlyPublish ==
    \E s \in Rtmp, path \in Paths, id \in StreamIds, v \in Verdicts :
        MayPublish(s, id) /\ Publish(s, path, id, v)

OrderlyPlay ==
    \E s \in Rtmp, path \in Paths, id \in StreamIds, v \in Verdicts :
        MayPlay(s, id) /\ Play(s, path, id, v)

Next == ~uncaught /\ (Other \/ OrderlyPublish \/ OrderlyPlay)

Spec == Init /\ [][Next]_vars

AnyPublish ==
    \E s \in Rtmp, path \in Paths, id \in StreamIds, v \in Verdicts :
        Publish(s, path, id, v)

AnyPlay ==
    \E s \in Rtmp, path \in Paths, id \in StreamIds, v \in Verdicts :
        Play(s, path, id, v)

\* Any player: clients play in any state, on any message stream, and those that
\* publish keep to the protocol in that.
AnyPlayerNext == ~uncaught /\ (Other \/ OrderlyPublish \/ AnyPlay)

AnyPlayerSpec == Init /\ [][AnyPlayerNext]_vars

\* Any client: publish, too.
AnyNext == ~uncaught /\ (Other \/ AnyPublish \/ AnyPlay)

AnySpec == Init /\ [][AnyNext]_vars

-----------------------------------------------------------------------------
(* Properties of a server whose clients keep to the protocol (Spec).       *)

\* Every field holds what the code stores there.
TypeOK == ctx \in Registry

\* A path is registered exactly while the session it names is alive, is
\* publishing and publishes that path: no dead owner blocks a name, and no
\* publishing session has lost its own (onPublish, onDeleteStream, stop).
OwnersAliveIn(r) ==
    /\ \A path \in Paths : r.publishers[path] # Nobody =>
          /\ r.publishers[path] \in r.sessions \cap r.publishing
          /\ r.publishStreamPath[r.publishers[path]] = path
    /\ \A s \in r.publishing :
          /\ s \in r.sessions
          /\ r.publishStreamPath[s] \in Paths
          /\ r.publishers[r.publishStreamPath[s]] = s

OwnersAlive == OwnersAliveIn(ctx)

\* The sessions that play the stream of s, by their own account.
AudienceOf(r, s) ==
    {p \in r.sessions \cap r.playing : PublisherOf(r, r.playStreamPath[p]) = s}

\* The set a publisher sends to is the set of live sessions that believe they
\* play its stream: nobody is sent another stream, nobody is forgotten, and no
\* set keeps the id of a session that has gone.
AudienceExactIn(r) == \A s \in Rtmp : r.players[s] = AudienceOf(r, s)

AudienceExact == AudienceExactIn(ctx)

\* idlePlayers holds the live sessions that wait, and none of them waits for a
\* path that is being published (the race of onPlay with onPublish, and the
\* return of an audience to idlePlayers in onDeleteStream).
IdleExactIn(r) ==
    /\ r.idlePlayers = r.sessions \cap r.idling
    /\ \A p \in r.idlePlayers : PublisherOf(r, r.playStreamPath[p]) = Nobody

IdleExact == IdleExactIn(ctx)

\* No handler calls a method of a session that has left the map.
NoTypeError == ~uncaught

\* When a path loses its publisher, every RTMP player of it is waiting for the
\* path again and every FLV player has been disconnected.
AudienceReleased ==
    [][\A path \in Paths :
         publishers[path] # Nobody /\ publishers'[path] = Nobody =>
           \A p \in players[publishers[path]] \ {publishers[path]} :
              IF p \in Rtmp
              THEN p \in idlePlayers' /\ playStreamPath'[p] = path
              ELSE p \notin sessions']_vars

\* The rest of what makes the three above inductive: an id is unused before its
\* connection, a live session either plays or waits, what it plays or waits for
\* is a path (played only while somebody publishes it) and a stream that stop()
\* will close, and so is what it publishes.
AttachedIn(r) ==
    /\ r.fresh \cap (r.open \cup r.sessions \cup r.starting \cup r.playing
                      \cup r.idling) = {}
    /\ Rtmp \cap (r.playing \cup r.idling) \subseteq r.sessions
    /\ Flv \cap r.sessions = Flv \cap r.starting
    /\ r.sessions \cap r.playing \cap r.idling = {}
    /\ \A p \in r.sessions \cap (r.playing \cup r.idling) :
          r.playStreamPath[p] \in Paths
    /\ \A p \in r.sessions \cap r.playing :
          r.publishers[r.playStreamPath[p]] # Nobody
    /\ \A p \in Rtmp \cap (r.playing \cup r.idling) : r.playStreamId[p] > 0
    /\ \A s \in r.publishing : r.publishStreamId[s] > 0

\* Holds at every call of a method, in the middle of a callback too.
Consistent(r) ==
    /\ r \in Registry
    /\ ~r.uncaught
    /\ OwnersAliveIn(r)
    /\ AudienceExactIn(r)
    /\ IdleExactIn(r)
    /\ AttachedIn(r)

\* The inductive invariant of Spec: between two callbacks, also, the sessions
\* in the map are those that have not been stopped.
RegistryInv == Consistent(ctx) /\ sessions = starting

(* Properties of a server with any players (AnyPlayerSpec).                *)

\* What players send in the wrong state costs no publisher its name and keeps no
\* dead one alive: audiences go wrong then, but stop() and onDeleteStream still end
\* the broadcast before the session leaves the map, unless a handler throws.
OwnersUnharmed == ~uncaught => OwnersAliveIn(ctx)

(* Properties of a server with any clients (AnySpec).                      *)

\* As long as no handler has thrown, a session whose stop() ran to its end is in
\* the map no more, and a session in the map is one that has not been stopped.
MapMatchesStarted == ~uncaught => sessions = starting

-----------------------------------------------------------------------------
(* The registry implements StreamBroker: who owns a path, who wants one,   *)
(* and an audience that follows from the two.                              *)

Wants == [p \in Sessions |-> IF p \in sessions \cap (playing \cup idling)
                             THEN playStreamPath[p] ELSE NoPath]

Broker == INSTANCE StreamBroker WITH
              owner <- publishers, wants <- Wants, audience <- players

\* Every handler is one step of the abstract broker, or changes nothing in it.
ImplementsBroker == Broker!Spec
=============================================================================
