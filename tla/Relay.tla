------------------------------- MODULE Relay -------------------------------
(***************************************************************************)
(* The relay of Node-Media-Server: node_relay_server.js and the ffmpeg     *)
(* processes of node_relay_session.js, for one stream path and at most one *)
(* task of each mode.  A static pull publishes the path whenever it can, a *)
(* dynamic pull is started for a player who finds no stream, and a dynamic *)
(* push sends on what a connection publishes.                              *)
(*                                                                         *)
(* The registry is reduced to who publishes the path and who plays or      *)
(* waits; StreamRegistry has the whole of it.  ffmpeg is a process that    *)
(* may end at any moment, and whose connection the server may find lost    *)
(* before or after the 'close' of the process.  The names of connections   *)
(* and processes are used again once nothing refers to them: in the code a *)
(* new connection has a new id.  A connection publishes once, as those of  *)
(* AnyRtmpPush and of ffmpeg do.                                           *)
(***************************************************************************)
EXTENDS FiniteSets

CONSTANTS Viewers,    \* sessions that may play the path
          Sources,    \* connections of clients that may publish it
          Statics,    \* processes, and their connections, for the static task
          Pulls,      \* the same for the pull task: a bound on those at a time
          Pushes,     \* processes for the push task
          Configs,    \* sets of modes with a task in relay.tasks
          NoSession   \* what Map.get returns for an unknown key

\* The ids are all different.  The ffmpeg of a push reads the path as one
\* more player.  Only a pull task looks at the players, so the model leaves
\* this player out and has no configuration with both tasks.
ASSUME RelayAssumption ==
    /\ Viewers \cap (Sources \cup Statics \cup Pulls) = {}
    /\ Sources \cap (Statics \cup Pulls \cup Pushes) = {}
    /\ Statics \cap (Pulls \cup Pushes) = {}
    /\ Pulls \cap Pushes = {}
    /\ NoSession \notin Viewers \cup Sources \cup Statics \cup Pulls \cup Pushes
    /\ \A modes \in Configs : /\ modes \subseteq {"static", "pull", "push"}
                             /\ ~({"pull", "push"} \subseteq modes)

Procs == Statics \cup Pulls \cup Pushes
Publishers == Sources \cup Statics \cup Pulls
Ids == Viewers \cup Publishers

VARIABLES
    tasks,              \* the modes that have a task
    process,            \* of every NodeRelaySession: "none", "runs", or
                        \* "dead" until its 'close' event is handled
    id,                 \* session.id of the pulls and pushes
    staticSessions,     \* staticSessions.get(0)
    dynamicSessions,    \* dynamicSessions: id -> session
    publisher,          \* publishers.get(path)
    posting,            \* connections whose postPublish timer is running
    players,            \* the publisher's players
    idlePlayers

registry == <<publisher, posting, players, idlePlayers>>
relay == <<process, id, staticSessions, dynamicSessions>>
vars == <<tasks, registry, relay>>

TypeOK ==
    /\ tasks \in Configs
    /\ process \in [Procs -> {"none", "runs", "dead"}]
    /\ id \in [Pulls \cup Pushes -> Ids \cup {NoSession}]
    /\ staticSessions \in Statics \cup {NoSession}
    /\ dynamicSessions \in [Ids -> Pulls \cup Pushes \cup {NoSession}]
    /\ publisher \in Publishers \cup {NoSession}
    /\ posting \subseteq Publishers
    /\ players \subseteq Viewers
    /\ idlePlayers \subseteq Viewers

Init ==
    /\ tasks \in Configs
    /\ process = [p \in Procs |-> "none"]
    /\ id = [p \in Pulls \cup Pushes |-> NoSession]
    /\ staticSessions = NoSession
    /\ dynamicSessions = [k \in Ids |-> NoSession]
    /\ publisher = NoSession
    /\ posting = {}
    /\ players = {}
    /\ idlePlayers = {}

\* Nothing refers to the connection k of an earlier publication.
Unused(k) ==
    /\ publisher # k
    /\ k \notin posting
    /\ dynamicSessions[k] = NoSession
    /\ \A p \in Pulls \cup Pushes : process[p] # "none" => id[p] # k

-----------------------------------------------------------------------------
(* NodeRelaySession.                                                       *)

\* session.id = k, dynamicSessions.set(k, p), session.run()
Start(p, k) ==
    /\ process[p] = "none"
    /\ id' = [id EXCEPT ![p] = k]
    /\ dynamicSessions' = [dynamicSessions EXCEPT ![k] = p]
    /\ process' = [process EXCEPT ![p] = "runs"]

\* end() of every session of E: SIGKILL.
End(E) == process' = [p \in Procs |-> IF p \in E /\ process[p] = "runs"
                                      THEN "dead" ELSE process[p]]

\* A process ends by itself: its input is over or lost, or the server
\* refuses what it publishes.
Exit(p) ==
    /\ process[p] = "runs"
    /\ process' = [process EXCEPT ![p] = "dead"]
    /\ UNCHANGED <<tasks, registry, id, staticSessions, dynamicSessions>>

\* Variant: the static session that has ended keeps its place.
KeepStatic(p) == staticSessions

\* The listeners of 'end' delete what is stored under the session's id.
StaticAfter(p) == IF p \in Statics THEN NoSession ELSE staticSessions
DynamicAfter(p) == IF p \in Statics THEN dynamicSessions
                   ELSE [dynamicSessions EXCEPT ![id[p]] = NoSession]

\* 'close' of the process.
Close(p) ==
    /\ process[p] = "dead"
    /\ process' = [process EXCEPT ![p] = "none"]
    /\ staticSessions' = StaticAfter(p)
    /\ dynamicSessions' = DynamicAfter(p)
    /\ UNCHANGED <<tasks, registry, id>>

-----------------------------------------------------------------------------
(* The listeners of NodeRelayServer.                                       *)

\* Every second.
onStatic ==
    /\ "static" \in tasks
    /\ staticSessions = NoSession
    /\ \E p \in Statics :
        /\ Unused(p)
        /\ process[p] = "none"
        /\ staticSessions' = p
        /\ process' = [process EXCEPT ![p] = "runs"]
    /\ UNCHANGED <<tasks, registry, id, dynamicSessions>>

onPrePlay(v) ==
    IF "pull" \in tasks /\ publisher = NoSession
    THEN /\ \E p \in Pulls : Unused(p) /\ Start(p, v)
         /\ UNCHANGED staticSessions
    ELSE UNCHANGED relay

\* players are those that are left.  One of them has gone from a publisher,
\* so the publisher is there.
onDonePlay(v, left) ==
    /\ IF dynamicSessions[v] # NoSession /\ left = {}
       THEN End({dynamicSessions[v]})
       ELSE UNCHANGED process
    /\ UNCHANGED <<id, staticSessions, dynamicSessions>>

\* The sessions to end: the push of the publication, and the static sessions
\* of the path whoever has published it.
onDonePublish(k) == {dynamicSessions[k], staticSessions}

-----------------------------------------------------------------------------
(* The sessions of the server that raise the events.                       *)

\* onPlay: prePlay comes first.  onStartPlay, or wait.
Play(v) ==
    /\ v \notin players \cup idlePlayers
    /\ onPrePlay(v)
    /\ IF publisher = NoSession
       THEN idlePlayers' = idlePlayers \cup {v} /\ UNCHANGED players
       ELSE players' = players \cup {v} /\ UNCHANGED idlePlayers
    /\ UNCHANGED <<tasks, publisher, posting>>

\* onDeleteStream of a player that waits: no event.
StopWaiting(v) ==
    /\ v \in idlePlayers
    /\ idlePlayers' = idlePlayers \ {v}
    /\ UNCHANGED <<tasks, relay, publisher, posting, players>>

\* onDeleteStream of a player that plays.
StopPlaying(v) ==
    /\ v \in players
    /\ players' = players \ {v}
    /\ onDonePlay(v, players')
    /\ UNCHANGED <<tasks, publisher, posting, idlePlayers>>

\* onPublish of a path nobody publishes, by a client or by ffmpeg.
Publish(k) ==
    /\ publisher = NoSession
    /\ k \in Sources => Unused(k)
    /\ k \notin Sources => process[k] = "runs"
    /\ publisher' = k
    /\ posting' = posting \cup {k}
    /\ players' = idlePlayers
    /\ idlePlayers' = {}
    /\ UNCHANGED <<tasks, relay>>

\* onDeleteStream of the publisher.  An ffmpeg that still runs when the server
\* has lost its connection exits: the model has it end at once.
Unpublish(k) ==
    /\ publisher = k
    /\ End(onDonePublish(k) \cup {k})
    /\ publisher' = NoSession
    /\ idlePlayers' = idlePlayers \cup players
    /\ players' = {}
    /\ UNCHANGED <<tasks, posting, id, staticSessions, dynamicSessions>>

\* Variant: the timer does not look whether the stream is still there.
PostAnyhow(k) == TRUE

\* publishStreamPath is '' after onDeleteStream, and matches no task.
StillNamed(k) == publisher = k

\* A second after onPublish: postPublish and its listener onPostPublish.
PostPublish(k) ==
    /\ k \in posting
    /\ posting' = posting \ {k}
    /\ IF "push" \in tasks /\ StillNamed(k)
       THEN /\ \E p \in Pushes : Start(p, k)
            /\ UNCHANGED staticSessions
       ELSE UNCHANGED relay
    /\ UNCHANGED <<tasks, publisher, players, idlePlayers>>

Next ==
    \/ onStatic
    \/ \E p \in Procs : Exit(p) \/ Close(p)
    \/ \E v \in Viewers : Play(v) \/ StopWaiting(v) \/ StopPlaying(v)
    \/ \E k \in Publishers : Publish(k) \/ Unpublish(k) \/ PostPublish(k)

\* The interval goes on, the end of a process is noticed, by its parent and
\* at its connection, and an ffmpeg that can publish does.
Fairness ==
    /\ WF_vars(onStatic)
    /\ \A p \in Procs : WF_vars(Close(p))
    /\ \A k \in Statics \cup Pulls :
        /\ WF_vars(Publish(k))
        /\ WF_vars(PostPublish(k))
        /\ WF_vars(process[k] # "runs" /\ Unpublish(k))

Spec == Init /\ [][Next]_vars /\ Fairness

-----------------------------------------------------------------------------
(* Properties.                                                             *)

\* A push runs only while the connection it was started for publishes: the
\* timer of a stream that is over starts none, and donePublish finds the one
\* there is, whatever other sessions have ended in between.
PushFollows ==
    \A p \in Pushes : process[p] = "runs" => publisher = id[p]

\* "The static pull mode is executed at service startup and reconnect after
\* failure": however a static ffmpeg ends, another one runs later, also if
\* other publishers take its name in between.
StaticRestarts ==
    ("static" \in tasks /\ \A p \in Statics : process[p] # "runs")
        ~> (\E p \in Statics : process[p] = "runs")

\* "When the stream is not played by the client, it automatically
\* disconnects": a pull whose stream has no player ends, or gets one.
PullEnds ==
    (publisher \in Pulls /\ players = {})
        ~> (publisher \notin Pulls \/ players # {})
=============================================================================
