------------------------ MODULE StreamRegistry_proofs ------------------------
(***************************************************************************)
(* Proofs about StreamRegistry.  Every method of the code is a function    *)
(* from registry to registry, so the proof is one lemma per method (it     *)
(* keeps Consistent, and says what it did to the session it was called     *)
(* on), one per handler, and the theorems that follow for Spec.            *)
(***************************************************************************)
EXTENDS StreamRegistry, TLAPS

USE DEF Sessions

\* A lookup that finds a publisher finds a live one.
LEMMA NotDangling ==
    ASSUME NEW r, Consistent(r), NEW path
    PROVE  ~Dangling(r, path)
  BY DEF Consistent, Registry, OwnersAliveIn, Dangling, PublisherOf

\* Joining or leaving an audience changes only the fields it names.
LEMMA LeaveType ==
    ASSUME NEW r \in Registry, NEW L
    PROVE  Leave(r, L) \in [Rtmp -> SUBSET Sessions]
  BY DEF Registry, Leave

\* Stopping FLV sessions keeps the registry consistent and takes exactly the
\* started ones out of the map.
LEMMA FlvStopConsistent ==
    ASSUME NEW r, Consistent(r), NEW P, P \subseteq Flv
    PROVE  /\ Consistent(FlvStop(r, P))
           /\ FlvStop(r, P).sessions = r.sessions \ P
           /\ FlvStop(r, P).starting = r.starting \ P
           /\ FlvStop(r, P).publishing = r.publishing
           /\ FlvStop(r, P).playing = r.playing
           /\ FlvStop(r, P).idling = r.idling
           /\ \A s \in Rtmp : FlvStop(r, P).players[s] = r.players[s] \ P
  <1> DEFINE L == P \cap r.starting
             f == FlvStop(r, P)
  <1>1. f = [r EXCEPT !.starting = @ \ L, !.players = Leave(r, L),
                      !.idlePlayers = @ \ L, !.sessions = @ \ L]
    BY NotDangling DEF FlvStop
  <1>2. r \in Registry
    BY DEF Consistent
  <1>3. f \in Registry
    <2>1. Leave(r, L) \in [Rtmp -> SUBSET Sessions]
      BY <1>2, LeaveType
    <2>2. /\ r.starting \ L \in SUBSET Sessions
          /\ r.idlePlayers \ L \in SUBSET Sessions
          /\ r.sessions \ L \in SUBSET Sessions
      BY <1>2 DEF Registry
    <2> HIDE DEF L
    <2> QED
      BY <1>1, <1>2, <2>1, <2>2 DEF Registry
  <1>4. /\ f.fresh = r.fresh /\ f.open = r.open /\ f.uncaught = r.uncaught
        /\ f.sessions = r.sessions \ L /\ f.starting = r.starting \ L
        /\ f.idlePlayers = r.idlePlayers \ L /\ f.players = Leave(r, L)
        /\ f.publishers = r.publishers /\ f.publishing = r.publishing
        /\ f.playing = r.playing /\ f.idling = r.idling
        /\ f.playStreamId = r.playStreamId /\ f.playStreamPath = r.playStreamPath
        /\ f.publishStreamId = r.publishStreamId
        /\ f.publishStreamPath = r.publishStreamPath
    BY <1>1, <1>2 DEF Registry
  <1>5. L = P \cap r.sessions
    BY <1>2 DEF Consistent, AttachedIn
  <1>6. \A path : PublisherOf(f, path) = PublisherOf(r, path)
    BY <1>4 DEF PublisherOf
  <1>7. OwnersAliveIn(f)
    BY <1>2, <1>4, RegistryAssumption DEF Consistent, OwnersAliveIn, Registry
  <1>8. \A s \in Rtmp : f.players[s] = r.players[s] \ P
    BY <1>2, <1>4, <1>5 DEF Consistent, Leave, AudienceExactIn, AudienceOf
  <1>9. AudienceExactIn(f)
    <2>1. \A s \in Rtmp : AudienceOf(f, s) = AudienceOf(r, s) \ P
      BY <1>4, <1>5, <1>6 DEF AudienceOf
    <2> QED
      BY <1>8, <2>1 DEF Consistent, AudienceExactIn
  <1>10. IdleExactIn(f)
    BY <1>4, <1>5, <1>6 DEF Consistent, IdleExactIn
  <1>11. AttachedIn(f)
    BY <1>2, <1>4, <1>5, RegistryAssumption DEF Consistent, AttachedIn
  <1> QED
    BY <1>2, <1>3, <1>4, <1>5, <1>7, <1>8, <1>9, <1>10, <1>11 DEF Consistent

\* Closing the stream a session plays detaches it and disturbs nobody else.
LEMMA ClosePlayConsistent ==
    ASSUME NEW r, Consistent(r), NEW s \in Rtmp
    PROVE  /\ Consistent(ClosePlay(r, s))
           /\ ClosePlay(r, s).sessions = r.sessions
           /\ ClosePlay(r, s).starting = r.starting
           /\ ClosePlay(r, s).publishing = r.publishing
           /\ ClosePlay(r, s).publishStreamId = r.publishStreamId
           /\ s \notin ClosePlay(r, s).playing \cup ClosePlay(r, s).idling
  <1> DEFINE f == ClosePlay(r, s)
             id == [r.playStreamId EXCEPT ![s] = 0]
             path == [r.playStreamPath EXCEPT ![s] = NoPath]
  <1>1. r \in Registry /\ ~r.uncaught
    BY DEF Consistent
  <1>0. /\ id \in [Rtmp -> StreamIds \cup {0}]
        /\ path \in [Sessions -> Paths \cup {NoPath}]
        /\ id[s] = 0 /\ \A x \in Rtmp \ {s} : id[x] = r.playStreamId[x]
        /\ path[s] = NoPath
        /\ \A x \in Sessions \ {s} : path[x] = r.playStreamPath[x]
    BY <1>1 DEF Registry
  <1>2. CASE s \in r.idling
    <2>1. f = [r EXCEPT !.idlePlayers = @ \ {s}, !.idling = @ \ {s},
                        !.playStreamId = id, !.playStreamPath = path]
      BY <1>1, <1>2 DEF ClosePlay, Registry
    <2>2. /\ f.fresh = r.fresh /\ f.open = r.open /\ f.uncaught = r.uncaught
          /\ f.sessions = r.sessions /\ f.starting = r.starting
          /\ f.idlePlayers = r.idlePlayers \ {s} /\ f.players = r.players
          /\ f.publishers = r.publishers /\ f.publishing = r.publishing
          /\ f.playing = r.playing /\ f.idling = r.idling \ {s}
          /\ f.playStreamId = id /\ f.playStreamPath = path
          /\ f.publishStreamId = r.publishStreamId
          /\ f.publishStreamPath = r.publishStreamPath
      BY <2>1, <1>1 DEF Registry
    <2>3. f \in Registry
      <3>1. /\ r.idlePlayers \ {s} \in SUBSET Sessions
            /\ r.idling \ {s} \in SUBSET Sessions
        BY <1>1 DEF Registry
      <3> HIDE DEF id, path
      <3> QED
        BY <2>1, <1>0, <1>1, <3>1 DEF Registry
    <2>4. s \notin r.playing
      BY <1>1, <1>2 DEF Consistent, AttachedIn, Registry
    <2>5. OwnersAliveIn(f)
      BY <2>2 DEF Consistent, OwnersAliveIn
    <2>6. AudienceExactIn(f)
      BY <1>1, <2>2, <2>4 DEF Consistent, AudienceExactIn, AudienceOf, PublisherOf, Registry
    <2>7. IdleExactIn(f)
      BY <1>1, <2>2 DEF Consistent, IdleExactIn, PublisherOf, Registry
    <2>8. AttachedIn(f)
      BY <1>1, <2>2, <2>4 DEF Consistent, AttachedIn, Registry
    <2> QED
      BY <1>1, <2>2, <2>3, <2>4, <2>5, <2>6, <2>7, <2>8 DEF Consistent
  <1>3. CASE s \notin r.idling
    <2>1. f = [r EXCEPT !.players = Leave(r, {s}), !.playing = @ \ {s},
                        !.playStreamId = id, !.playStreamPath = path]
      BY <1>1, <1>3, NotDangling DEF ClosePlay, Registry
    <2>2. /\ f.fresh = r.fresh /\ f.open = r.open /\ f.uncaught = r.uncaught
          /\ f.sessions = r.sessions /\ f.starting = r.starting
          /\ f.idlePlayers = r.idlePlayers /\ f.players = Leave(r, {s})
          /\ f.publishers = r.publishers /\ f.publishing = r.publishing
          /\ f.playing = r.playing \ {s} /\ f.idling = r.idling
          /\ f.playStreamId = id /\ f.playStreamPath = path
          /\ f.publishStreamId = r.publishStreamId
          /\ f.publishStreamPath = r.publishStreamPath
      BY <2>1, <1>1 DEF Registry
    <2>3. f \in Registry
      <3>1. Leave(r, {s}) \in [Rtmp -> SUBSET Sessions]
        BY <1>1, LeaveType
      <3>2. r.playing \ {s} \in SUBSET Sessions
        BY <1>1 DEF Registry
      <3> HIDE DEF id, path
      <3> QED
        BY <2>1, <1>0, <1>1, <3>1, <3>2 DEF Registry
    <2>4. \A x \in Rtmp : f.players[x] = r.players[x] \ {s}
      BY <1>1, <2>2 DEF Consistent, Leave, AudienceExactIn, AudienceOf
    <2>5. OwnersAliveIn(f)
      BY <2>2 DEF Consistent, OwnersAliveIn
    <2>6. AudienceExactIn(f)
      <3>1. \A x \in Rtmp : AudienceOf(f, x) = AudienceOf(r, x) \ {s}
        <4> HIDE DEF path
        <4> QED
          BY <1>0, <1>1, <2>2 DEF AudienceOf, PublisherOf, Registry
      <3> QED
        BY <2>4, <3>1 DEF Consistent, AudienceExactIn
    <2>7. IdleExactIn(f)
      BY <1>1, <1>3, <2>2 DEF Consistent, IdleExactIn, PublisherOf, Registry
    <2>8. AttachedIn(f)
      BY <1>1, <1>3, <2>2 DEF Consistent, AttachedIn, Registry
    <2> QED
      BY <1>1, <1>3, <2>2, <2>3, <2>5, <2>6, <2>7, <2>8 DEF Consistent
  <1> QED
    BY <1>2, <1>3

\* Ending a broadcast sends its RTMP audience back to the idle set.
LEMMA DismissConsistent ==
    ASSUME NEW r, Consistent(r), NEW s \in r.publishing, r.players[s] \subseteq Rtmp
    PROVE  /\ Consistent(Dismiss(r, s))
           /\ Dismiss(r, s).sessions = r.sessions
           /\ Dismiss(r, s).starting = r.starting
           /\ Dismiss(r, s).publishing = r.publishing \ {s}
           /\ Dismiss(r, s).playing \cup Dismiss(r, s).idling
                = r.playing \cup r.idling
  <1> DEFINE f == Dismiss(r, s)
             A == r.players[s]
  <1>1. r \in Registry /\ ~r.uncaught /\ s \in Rtmp
    BY DEF Consistent, Registry
  <1>2. f = [r EXCEPT !.idlePlayers = @ \cup A, !.playing = @ \ A,
                      !.idling = @ \cup A,
                      !.publishers = Unregister(r, r.publishStreamPath[s]),
                      !.players = [r.players EXCEPT ![s] = {}],
                      !.publishing = @ \ {s}]
    BY <1>1 DEF Dismiss, Registry
  <1>3. /\ f.fresh = r.fresh /\ f.open = r.open /\ f.uncaught = r.uncaught
        /\ f.sessions = r.sessions /\ f.starting = r.starting
        /\ f.idlePlayers = r.idlePlayers \cup A
        /\ f.players = [r.players EXCEPT ![s] = {}]
        /\ f.publishers = Unregister(r, r.publishStreamPath[s])
        /\ f.publishing = r.publishing \ {s}
        /\ f.playing = r.playing \ A /\ f.idling = r.idling \cup A
        /\ f.playStreamId = r.playStreamId /\ f.playStreamPath = r.playStreamPath
        /\ f.publishStreamId = r.publishStreamId
        /\ f.publishStreamPath = r.publishStreamPath
    BY <1>1, <1>2 DEF Registry
  <1>4. f \in Registry
    <2>1. Unregister(r, r.publishStreamPath[s]) \in [Paths -> Rtmp \cup {Nobody}]
      BY <1>1 DEF Unregister, Registry
    <2>2. /\ r.idlePlayers \cup A \in SUBSET Sessions
          /\ r.playing \ A \in SUBSET Sessions
          /\ r.idling \cup A \in SUBSET Sessions
          /\ [r.players EXCEPT ![s] = {}] \in [Rtmp -> SUBSET Sessions]
          /\ r.publishing \ {s} \in SUBSET Rtmp
      BY <1>1 DEF Registry
    <2> HIDE DEF A
    <2> QED
      BY <1>1, <1>2, <2>1, <2>2 DEF Registry
  <1>5. /\ r.publishStreamPath[s] \in Paths
        /\ \A path \in Paths :
             f.publishers[path] = IF r.publishers[path] = s THEN Nobody
                                                            ELSE r.publishers[path]
    BY <1>1, <1>3, RegistryAssumption DEF Consistent, OwnersAliveIn, Unregister
  <1>6. A = AudienceOf(r, s)
    BY <1>1 DEF Consistent, AudienceExactIn
  <1>7. s # Nobody
    BY <1>1, RegistryAssumption
  <1>8. OwnersAliveIn(f)
    BY <1>1, <1>3, <1>5, <1>7 DEF Consistent, OwnersAliveIn, Registry
  <1>9. AudienceExactIn(f)
    <2> SUFFICES ASSUME NEW x \in Rtmp PROVE f.players[x] = AudienceOf(f, x)
      BY DEF AudienceExactIn
    <2>1. CASE x = s
      BY <1>1, <1>3, <1>5, <1>6, <1>7, <2>1 DEF AudienceOf, PublisherOf, Registry
    <2>2. CASE x # s
      <3>1. x # Nobody
        BY RegistryAssumption
      <3>2. f.players[x] = AudienceOf(r, x)
        BY <1>1, <1>3, <2>2 DEF Consistent, AudienceExactIn, Registry
      <3> QED
        BY <1>3, <1>5, <1>6, <2>2, <3>1, <3>2 DEF AudienceOf, PublisherOf
    <2> QED
      BY <2>1, <2>2
  <1>10. IdleExactIn(f)
    BY <1>3, <1>5, <1>6 DEF Consistent, IdleExactIn, AudienceOf, PublisherOf
  <1>11. AttachedIn(f)
    BY <1>1, <1>3, <1>5, <1>6, <1>7
       DEF Consistent, AttachedIn, AudienceOf, PublisherOf, Registry
  <1> QED
    BY <1>1, <1>3, <1>4, <1>6, <1>8, <1>9, <1>10, <1>11 DEF Consistent, AudienceOf

\* What a method does besides closing streams: it may stop FLV sessions.
Closes(r, f) ==
    /\ \E P \in SUBSET Flv : /\ f.sessions = r.sessions \ P
                             /\ f.starting = r.starting \ P
    /\ f.publishing \subseteq r.publishing
    /\ f.playing \cup f.idling \subseteq r.playing \cup r.idling

\* A method that leaves `sessions` and isStarting alone, and starts no stream,
\* closes nothing: the case in which no FLV session is stopped.
LEMMA ClosesSame ==
    ASSUME NEW r, NEW f, f.sessions = r.sessions, f.starting = r.starting,
           f.publishing \subseteq r.publishing,
           f.playing \cup f.idling \subseteq r.playing \cup r.idling
    PROVE  Closes(r, f)
  <1>1. f.sessions = r.sessions \ {} /\ f.starting = r.starting \ {}
    OBVIOUS
  <1> QED
    BY <1>1 DEF Closes

\* Closing the stream a session publishes.
LEMMA ClosePublishConsistent ==
    ASSUME NEW r, Consistent(r), NEW s \in Rtmp
    PROVE  /\ Consistent(ClosePublish(r, s))
           /\ Closes(r, ClosePublish(r, s))
           /\ s \notin ClosePublish(r, s).publishing
  <1> DEFINE forget(q) == [q EXCEPT !.publishStreamId[s] = 0,
                                    !.publishStreamPath[s] = NoPath]
  <1>1. ASSUME NEW q, Consistent(q), s \notin q.publishing
        PROVE  /\ Consistent(forget(q))
               /\ forget(q).sessions = q.sessions
               /\ forget(q).starting = q.starting
               /\ forget(q).publishing = q.publishing
               /\ forget(q).playing = q.playing
               /\ forget(q).idling = q.idling
    <2> DEFINE f == forget(q)
               id == [q.publishStreamId EXCEPT ![s] = 0]
               path == [q.publishStreamPath EXCEPT ![s] = NoPath]
    <2>1. q \in Registry
      BY <1>1 DEF Consistent
    <2>2. f = [q EXCEPT !.publishStreamId = id, !.publishStreamPath = path]
      BY <2>1 DEF Registry
    <2>3. /\ id \in [Rtmp -> StreamIds \cup {0}]
          /\ path \in [Rtmp -> Paths \cup {NoPath}]
          /\ \A x \in Rtmp \ {s} : id[x] = q.publishStreamId[x]
          /\ \A x \in Rtmp \ {s} : path[x] = q.publishStreamPath[x]
      BY <2>1 DEF Registry
    <2> HIDE DEF id, path, f
    <2>4. f \in Registry
      BY <2>1, <2>2, <2>3 DEF Registry
    <2>5. /\ f.fresh = q.fresh /\ f.open = q.open /\ f.uncaught = q.uncaught
          /\ f.sessions = q.sessions /\ f.starting = q.starting
          /\ f.idlePlayers = q.idlePlayers /\ f.players = q.players
          /\ f.publishers = q.publishers /\ f.publishing = q.publishing
          /\ f.playing = q.playing /\ f.idling = q.idling
          /\ f.playStreamId = q.playStreamId /\ f.playStreamPath = q.playStreamPath
          /\ f.publishStreamId = id /\ f.publishStreamPath = path
      BY <2>1, <2>2 DEF Registry
    <2>6. OwnersAliveIn(f)
      BY <1>1, <2>1, <2>3, <2>5 DEF Consistent, OwnersAliveIn, Registry
    <2>7. AudienceExactIn(f)
      BY <1>1, <2>5 DEF Consistent, AudienceExactIn, AudienceOf, PublisherOf
    <2>8. IdleExactIn(f)
      BY <1>1, <2>5 DEF Consistent, IdleExactIn, PublisherOf
    <2>9. AttachedIn(f)
      BY <1>1, <2>1, <2>3, <2>5 DEF Consistent, AttachedIn, Registry
    <2>10. Consistent(f)
      BY <1>1, <2>4, <2>5, <2>6, <2>7, <2>8, <2>9 DEF Consistent
    <2> QED
      BY <2>5, <2>10 DEF f
  <1> HIDE DEF forget
  <1>2. CASE s \notin r.publishing
    <2>1. ClosePublish(r, s) = forget(r)
      BY <1>2 DEF ClosePublish, forget
    <2>2. Consistent(forget(r)) /\ s \notin forget(r).publishing
      BY <1>1, <1>2
    <2>3. /\ forget(r).sessions = r.sessions
          /\ forget(r).starting = r.starting
          /\ forget(r).publishing = r.publishing
          /\ forget(r).playing = r.playing
          /\ forget(r).idling = r.idling
      BY <1>1, <1>2
    <2>4. Closes(r, forget(r))
      BY <2>3, ClosesSame
    <2> QED
      BY <2>1, <2>2, <2>4
  <1>3. CASE s \in r.publishing
    <2> DEFINE P == r.players[s] \cap Flv
               a == FlvStop(r, P)
    <2>1. /\ Consistent(a)
          /\ a.sessions = r.sessions \ P /\ a.starting = r.starting \ P
          /\ a.publishing = r.publishing
          /\ a.playing = r.playing /\ a.idling = r.idling
          /\ a.players[s] = r.players[s] \ P
      BY FlvStopConsistent
    <2>2. r.players[s] \subseteq r.sessions
      BY DEF Consistent, AudienceExactIn, AudienceOf
    <2>3. a.players[s] \subseteq Rtmp /\ a.players[s] \subseteq a.sessions
      BY <2>1, <2>2 DEF Consistent, Registry
    <2>4. ~a.uncaught /\ s \in a.publishing
      BY <1>3, <2>1 DEF Consistent
    <2> HIDE DEF P, a
    <2>5. ClosePublish(r, s) = forget(Dismiss(a, s))
      BY <1>3, <2>2, <2>3, <2>4 DEF ClosePublish, forget, StopFlvPlayers, a, P
    <2>6. /\ Consistent(Dismiss(a, s))
          /\ Dismiss(a, s).sessions = a.sessions
          /\ Dismiss(a, s).starting = a.starting
          /\ Dismiss(a, s).publishing = a.publishing \ {s}
          /\ Dismiss(a, s).playing \cup Dismiss(a, s).idling
               = a.playing \cup a.idling
      BY <2>1, <2>3, <2>4, DismissConsistent
    <2>7. P \in SUBSET Flv
      BY DEF P
    <2> QED
      BY <1>1, <2>1, <2>5, <2>6, <2>7 DEF Closes
  <1> QED
    BY <1>2, <1>3

\* Closing a play stream makes nobody a player.
LEMMA ClosePlayShrinks ==
    ASSUME NEW r, Consistent(r), NEW s \in Rtmp
    PROVE  ClosePlay(r, s).playing \cup ClosePlay(r, s).idling
             \subseteq r.playing \cup r.idling
  <1>1. r \in Registry
    BY DEF Consistent
  <1> QED
    BY <1>1, NotDangling DEF ClosePlay, Registry

\* deleteStream and closeStream, with any stream id.
LEMMA DeleteStreamConsistent ==
    ASSUME NEW r, Consistent(r), NEW s \in Rtmp, NEW id
    PROVE  /\ Consistent(DeleteStream(r, s, id))
           /\ Closes(r, DeleteStream(r, s, id))
           /\ id = r.playStreamId[s] =>
                s \notin DeleteStream(r, s, id).playing \cup DeleteStream(r, s, id).idling
           /\ id = r.publishStreamId[s] => s \notin DeleteStream(r, s, id).publishing
  <1> DEFINE a == IF id = r.playStreamId[s] THEN ClosePlay(r, s) ELSE r
             f == DeleteStream(r, s, id)
  <1>1. /\ Consistent(a) /\ ~a.uncaught
        /\ a.sessions = r.sessions /\ a.starting = r.starting
        /\ a.publishing = r.publishing /\ a.publishStreamId = r.publishStreamId
        /\ id = r.playStreamId[s] => s \notin a.playing \cup a.idling
    BY ClosePlayConsistent DEF Consistent
  <1>2. a.playing \cup a.idling \subseteq r.playing \cup r.idling
    BY ClosePlayShrinks
  <1>3. f = IF id = a.publishStreamId[s] THEN ClosePublish(a, s) ELSE a
    BY <1>1 DEF DeleteStream
  <1> HIDE DEF a
  <1>4. CASE id = a.publishStreamId[s]
    <2>1. f = ClosePublish(a, s)
      BY <1>3, <1>4
    <2>2. Consistent(f) /\ Closes(a, f) /\ s \notin f.publishing
      BY <1>1, <2>1, ClosePublishConsistent
    <2>3. Closes(r, f)
      BY <1>1, <1>2, <2>2 DEF Closes
    <2>4. id = r.playStreamId[s] => s \notin f.playing \cup f.idling
      BY <1>1, <2>2 DEF Closes
    <2> QED
      BY <2>2, <2>3, <2>4
  <1>5. CASE id # a.publishStreamId[s]
    <2>1. f = a
      BY <1>3, <1>5
    <2>2. Closes(r, f)
      BY <1>1, <1>2, <2>1, ClosesSame
    <2> QED
      BY <1>1, <1>5, <2>1, <2>2
  <1> QED
    BY <1>4, <1>5

\* Dropping a session that publishes, plays and waits for nothing.
LEMMA DropSessionConsistent ==
    ASSUME NEW r, Consistent(r), NEW s \in Rtmp,
           s \notin r.publishing, s \notin r.playing \cup r.idling
    PROVE  /\ Consistent(DropSession(r, s))
           /\ DropSession(r, s).sessions = r.sessions \ {s}
           /\ DropSession(r, s).starting = r.starting
  <1> DEFINE f == DropSession(r, s)
  <1>1. r \in Registry
    BY DEF Consistent
  <1>2. r.sessions \ {s} \in SUBSET Sessions
    BY <1>1 DEF Registry
  <1>3. f = [r EXCEPT !.sessions = r.sessions \ {s}]
    BY DEF DropSession
  <1>4. f \in Registry
    BY <1>1, <1>2, <1>3 DEF Registry
  <1>5. /\ f.fresh = r.fresh /\ f.open = r.open /\ f.uncaught = r.uncaught
        /\ f.sessions = r.sessions \ {s} /\ f.starting = r.starting
        /\ f.idlePlayers = r.idlePlayers /\ f.players = r.players
        /\ f.publishers = r.publishers /\ f.publishing = r.publishing
        /\ f.playing = r.playing /\ f.idling = r.idling
        /\ f.playStreamId = r.playStreamId /\ f.playStreamPath = r.playStreamPath
        /\ f.publishStreamId = r.publishStreamId
        /\ f.publishStreamPath = r.publishStreamPath
    BY <1>1, <1>3 DEF Registry
  <1>6. OwnersAliveIn(f)
    BY <1>5 DEF Consistent, OwnersAliveIn
  <1>7. AudienceExactIn(f)
    <2>1. \A x \in Rtmp : AudienceOf(f, x) = AudienceOf(r, x)
      BY <1>5 DEF AudienceOf, PublisherOf
    <2> QED
      BY <1>5, <2>1 DEF Consistent, AudienceExactIn
  <1>8. IdleExactIn(f)
    BY <1>5 DEF Consistent, IdleExactIn, PublisherOf
  <1>9. AttachedIn(f)
    BY <1>5, RegistryAssumption DEF Consistent, AttachedIn
  <1> QED
    BY <1>4, <1>5, <1>6, <1>7, <1>8, <1>9 DEF Consistent

\* isStarting may be cleared first.
LEMMA StoppingConsistent ==
    ASSUME NEW r, Consistent(r), NEW s \in Rtmp
    PROVE  LET a == [r EXCEPT !.starting = @ \ {s}]
           IN  /\ Consistent(a)
               /\ a.sessions = r.sessions
               /\ a.starting = r.starting \ {s}
  <1> DEFINE a == [r EXCEPT !.starting = @ \ {s}]
  <1>1. r \in Registry
    BY DEF Consistent
  <1>2. a \in Registry
    BY <1>1 DEF Registry
  <1>3. /\ a.fresh = r.fresh /\ a.open = r.open /\ a.uncaught = r.uncaught
        /\ a.sessions = r.sessions /\ a.starting = r.starting \ {s}
        /\ a.idlePlayers = r.idlePlayers /\ a.players = r.players
        /\ a.publishers = r.publishers /\ a.publishing = r.publishing
        /\ a.playing = r.playing /\ a.idling = r.idling
        /\ a.playStreamId = r.playStreamId /\ a.playStreamPath = r.playStreamPath
        /\ a.publishStreamId = r.publishStreamId
        /\ a.publishStreamPath = r.publishStreamPath
    BY <1>1 DEF Registry
  <1> HIDE DEF a
  <1>4. OwnersAliveIn(a) /\ AudienceExactIn(a) /\ IdleExactIn(a)
    BY <1>3 DEF Consistent, OwnersAliveIn, AudienceExactIn, AudienceOf,
                IdleExactIn, PublisherOf
  <1>5. AttachedIn(a)
    BY <1>3, RegistryAssumption DEF Consistent, AttachedIn
  <1>6. Consistent(a)
    BY <1>2, <1>3, <1>4, <1>5 DEF Consistent
  <1> QED
    BY <1>3, <1>6 DEF a

\* stop() leaves no trace of the session.
LEMMA RtmpStopConsistent ==
    ASSUME NEW r, Consistent(r), r.sessions = r.starting, NEW s \in Rtmp
    PROVE  /\ Consistent(RtmpStop(r, s))
           /\ RtmpStop(r, s).sessions = RtmpStop(r, s).starting
           /\ s \notin RtmpStop(r, s).starting
  <1> DEFINE a == [r EXCEPT !.starting = @ \ {s}]
             b == IF a.playStreamId[s] > 0
                  THEN DeleteStream(a, s, a.playStreamId[s]) ELSE a
             c == IF ~b.uncaught /\ b.publishStreamId[s] > 0
                  THEN DeleteStream(b, s, b.publishStreamId[s]) ELSE b
             f == RtmpStop(r, s)
  <1>1. CASE s \notin r.starting
    BY <1>1 DEF RtmpStop
  <1>2. CASE s \in r.starting
    <2>1. /\ Consistent(a) /\ a.sessions = r.sessions
          /\ a.starting = r.starting \ {s}
      BY StoppingConsistent
    <2>2. a \in Registry
      BY <2>1 DEF Consistent
    <2> HIDE DEF a
    <2>3. /\ Consistent(b) /\ Closes(a, b) /\ ~b.uncaught
          /\ s \notin b.playing \cup b.idling
      <3>1. CASE a.playStreamId[s] > 0
        BY <2>1, <3>1, DeleteStreamConsistent DEF Consistent
      <3>2. CASE ~(a.playStreamId[s] > 0)
        <4>1. s \notin a.playing \cup a.idling
          BY <2>1, <3>2 DEF Consistent, AttachedIn
        <4>2. Closes(a, a)
          BY DEF Closes
        <4> QED
          BY <2>1, <3>2, <4>1, <4>2 DEF Consistent
      <3> QED
        BY <3>1, <3>2
    <2> HIDE DEF b
    <2>4. /\ Consistent(c) /\ Closes(b, c) /\ ~c.uncaught
          /\ s \notin c.publishing
      <3>1. CASE b.publishStreamId[s] > 0
        BY <2>3, <3>1, DeleteStreamConsistent DEF Consistent
      <3>2. CASE ~(b.publishStreamId[s] > 0)
        <4>1. s \notin b.publishing
          BY <2>3, <3>2 DEF Consistent, AttachedIn
        <4>2. Closes(b, b)
          BY DEF Closes
        <4> QED
          BY <2>3, <3>2, <4>1, <4>2 DEF Consistent
      <3> QED
        BY <3>1, <3>2
    <2> HIDE DEF c
    <2>5. s \notin c.playing \cup c.idling
      BY <2>3, <2>4 DEF Closes
    <2>6. f = DropSession(c, s)
      BY <1>2, <2>4 DEF RtmpStop, c, b, a
    <2>7. c.starting = c.sessions \ {s}
      BY <2>1, <2>3, <2>4, RegistryAssumption DEF Closes
    <2>8. /\ Consistent(f) /\ f.sessions = c.sessions \ {s}
          /\ f.starting = c.starting
      BY <2>4, <2>5, <2>6, DropSessionConsistent
    <2> QED
      BY <2>7, <2>8
  <1> QED
    BY <1>1, <1>2

-----------------------------------------------------------------------------
(* Sessions that arrive, and the paths they name.                          *)

\* The constructor and run() put a session in the map, attached to nothing.
Enter(r, s) ==
    [r EXCEPT !.fresh = @ \ {s}, !.open = @ \cup {s},
              !.sessions = @ \cup {s}, !.starting = @ \cup {s}]

\* A new session, attached to nothing, keeps the registry consistent and is in
\* the map when its first command comes.
LEMMA EnterConsistent ==
    ASSUME NEW r, Consistent(r), r.sessions = r.starting, NEW s \in r.fresh
    PROVE  /\ Consistent(Enter(r, s))
           /\ Enter(r, s).sessions = Enter(r, s).starting
           /\ s \in Enter(r, s).sessions
           /\ s \notin Enter(r, s).playing \cup Enter(r, s).idling
  <1> DEFINE f == Enter(r, s)
  <1>1. r \in Registry /\ s \in Sessions
    BY DEF Consistent, Registry
  <1>2. /\ r.fresh \ {s} \in SUBSET Sessions
        /\ r.open \cup {s} \in SUBSET Sessions
        /\ r.sessions \cup {s} \in SUBSET Sessions
        /\ r.starting \cup {s} \in SUBSET Sessions
    BY <1>1 DEF Registry
  <1>3. f \in Registry
    BY <1>1, <1>2 DEF Registry, Enter
  <1>4. /\ f.fresh = r.fresh \ {s} /\ f.open = r.open \cup {s}
        /\ f.uncaught = r.uncaught
        /\ f.sessions = r.sessions \cup {s} /\ f.starting = r.starting \cup {s}
        /\ f.idlePlayers = r.idlePlayers /\ f.players = r.players
        /\ f.publishers = r.publishers /\ f.publishing = r.publishing
        /\ f.playing = r.playing /\ f.idling = r.idling
        /\ f.playStreamId = r.playStreamId /\ f.playStreamPath = r.playStreamPath
        /\ f.publishStreamId = r.publishStreamId
        /\ f.publishStreamPath = r.publishStreamPath
    BY <1>1 DEF Registry, Enter
  <1>5. s \notin r.sessions /\ s \notin r.playing \cup r.idling
    BY DEF Consistent, AttachedIn
  <1> HIDE DEF f
  <1>6. OwnersAliveIn(f)
    BY <1>4 DEF Consistent, OwnersAliveIn
  <1>7. AudienceExactIn(f)
    <2>1. \A x \in Rtmp : AudienceOf(f, x) = AudienceOf(r, x)
      BY <1>4, <1>5 DEF AudienceOf, PublisherOf
    <2> QED
      BY <1>4, <2>1 DEF Consistent, AudienceExactIn
  <1>8. IdleExactIn(f)
    BY <1>4, <1>5 DEF Consistent, IdleExactIn, PublisherOf
  <1>9. AttachedIn(f)
    BY <1>4, <1>5 DEF Consistent, AttachedIn
  <1>10. Consistent(f)
    BY <1>3, <1>4, <1>6, <1>7, <1>8, <1>9 DEF Consistent
  <1> QED
    BY <1>4, <1>5, <1>10 DEF f

\* A session that plays and waits for nothing may name another path.
LEMMA NamePathConsistent ==
    ASSUME NEW r, Consistent(r), NEW s \in Sessions, NEW path \in Paths,
           s \notin r.playing \cup r.idling
    PROVE  LET f == [r EXCEPT !.playStreamPath[s] = path]
           IN  /\ Consistent(f)
               /\ f.sessions = r.sessions /\ f.starting = r.starting
               /\ f.playing = r.playing /\ f.idling = r.idling
               /\ f.playStreamPath[s] = path
  <1> DEFINE pp == [r.playStreamPath EXCEPT ![s] = path]
             f == [r EXCEPT !.playStreamPath = pp]
  <1>1. r \in Registry
    BY DEF Consistent
  <1>2. /\ pp \in [Sessions -> Paths \cup {NoPath}] /\ pp[s] = path
        /\ \A x \in Sessions \ {s} : pp[x] = r.playStreamPath[x]
    BY <1>1 DEF Registry
  <1>3. [r EXCEPT !.playStreamPath[s] = path] = f
    BY <1>1 DEF Registry
  <1> HIDE DEF pp
  <1>4. f \in Registry
    BY <1>1, <1>2 DEF Registry
  <1>5. /\ f.fresh = r.fresh /\ f.open = r.open /\ f.uncaught = r.uncaught
        /\ f.sessions = r.sessions /\ f.starting = r.starting
        /\ f.idlePlayers = r.idlePlayers /\ f.players = r.players
        /\ f.publishers = r.publishers /\ f.publishing = r.publishing
        /\ f.playing = r.playing /\ f.idling = r.idling
        /\ f.playStreamId = r.playStreamId /\ f.playStreamPath = pp
        /\ f.publishStreamId = r.publishStreamId
        /\ f.publishStreamPath = r.publishStreamPath
    BY <1>1 DEF Registry
  <1> HIDE DEF f
  <1>6. OwnersAliveIn(f)
    BY <1>5 DEF Consistent, OwnersAliveIn
  <1>7. AudienceExactIn(f)
    <2>1. \A x \in Rtmp : AudienceOf(f, x) = AudienceOf(r, x)
      BY <1>1, <1>2, <1>5 DEF AudienceOf, PublisherOf, Registry
    <2> QED
      BY <1>5, <2>1 DEF Consistent, AudienceExactIn
  <1>8. IdleExactIn(f)
    BY <1>1, <1>2, <1>5 DEF Consistent, IdleExactIn, PublisherOf, Registry
  <1>9. AttachedIn(f)
    BY <1>1, <1>2, <1>5 DEF Consistent, AttachedIn, Registry
  <1>10. Consistent(f)
    BY <1>4, <1>5, <1>6, <1>7, <1>8, <1>9 DEF Consistent
  <1> QED
    BY <1>2, <1>3, <1>5, <1>10

\* ... and another play stream, if it is an RTMP session,
LEMMA NamePlayStreamConsistent ==
    ASSUME NEW r, Consistent(r), NEW s \in Rtmp, NEW id \in StreamIds,
           s \notin r.playing \cup r.idling
    PROVE  LET f == [r EXCEPT !.playStreamId[s] = id]
           IN  /\ Consistent(f)
               /\ f.sessions = r.sessions /\ f.starting = r.starting
               /\ f.playing = r.playing /\ f.idling = r.idling
               /\ f.playStreamPath = r.playStreamPath
               /\ f.playStreamId[s] = id
  <1> DEFINE pid == [r.playStreamId EXCEPT ![s] = id]
             f == [r EXCEPT !.playStreamId = pid]
  <1>1. r \in Registry
    BY DEF Consistent
  <1>2. /\ pid \in [Rtmp -> StreamIds \cup {0}] /\ pid[s] = id
        /\ \A x \in Rtmp \ {s} : pid[x] = r.playStreamId[x]
    BY <1>1 DEF Registry
  <1>3. [r EXCEPT !.playStreamId[s] = id] = f
    BY <1>1 DEF Registry
  <1> HIDE DEF pid
  <1>4. f \in Registry
    BY <1>1, <1>2 DEF Registry
  <1>5. /\ f.fresh = r.fresh /\ f.open = r.open /\ f.uncaught = r.uncaught
        /\ f.sessions = r.sessions /\ f.starting = r.starting
        /\ f.idlePlayers = r.idlePlayers /\ f.players = r.players
        /\ f.publishers = r.publishers /\ f.publishing = r.publishing
        /\ f.playing = r.playing /\ f.idling = r.idling
        /\ f.playStreamId = pid /\ f.playStreamPath = r.playStreamPath
        /\ f.publishStreamId = r.publishStreamId
        /\ f.publishStreamPath = r.publishStreamPath
    BY <1>1 DEF Registry
  <1> HIDE DEF f
  <1>6. OwnersAliveIn(f) /\ AudienceExactIn(f) /\ IdleExactIn(f)
    BY <1>5 DEF Consistent, OwnersAliveIn, AudienceExactIn, AudienceOf,
                IdleExactIn, PublisherOf
  <1>7. AttachedIn(f)
    BY <1>1, <1>2, <1>5 DEF Consistent, AttachedIn, Registry
  <1>8. Consistent(f)
    BY <1>4, <1>5, <1>6, <1>7 DEF Consistent
  <1> QED
    BY <1>2, <1>3, <1>5, <1>8

\* ... and a session that publishes nothing may name a path to publish
LEMMA NamePublishPathConsistent ==
    ASSUME NEW r, Consistent(r), NEW s \in Rtmp, NEW path \in Paths,
           s \notin r.publishing
    PROVE  LET f == [r EXCEPT !.publishStreamPath[s] = path]
           IN  /\ Consistent(f)
               /\ f.sessions = r.sessions /\ f.starting = r.starting
               /\ f.publishing = r.publishing
               /\ f.publishStreamId = r.publishStreamId
               /\ f.publishStreamPath[s] = path
  <1> DEFINE pp == [r.publishStreamPath EXCEPT ![s] = path]
             f == [r EXCEPT !.publishStreamPath = pp]
  <1>1. r \in Registry
    BY DEF Consistent
  <1>2. /\ pp \in [Rtmp -> Paths \cup {NoPath}] /\ pp[s] = path
        /\ \A x \in Rtmp \ {s} : pp[x] = r.publishStreamPath[x]
    BY <1>1 DEF Registry
  <1>3. [r EXCEPT !.publishStreamPath[s] = path] = f
    BY <1>1 DEF Registry
  <1> HIDE DEF pp
  <1>4. f \in Registry
    BY <1>1, <1>2 DEF Registry
  <1>5. /\ f.fresh = r.fresh /\ f.open = r.open /\ f.uncaught = r.uncaught
        /\ f.sessions = r.sessions /\ f.starting = r.starting
        /\ f.idlePlayers = r.idlePlayers /\ f.players = r.players
        /\ f.publishers = r.publishers /\ f.publishing = r.publishing
        /\ f.playing = r.playing /\ f.idling = r.idling
        /\ f.playStreamId = r.playStreamId /\ f.playStreamPath = r.playStreamPath
        /\ f.publishStreamId = r.publishStreamId /\ f.publishStreamPath = pp
    BY <1>1 DEF Registry
  <1> HIDE DEF f
  <1>6. OwnersAliveIn(f)
    BY <1>1, <1>2, <1>5 DEF Consistent, OwnersAliveIn, Registry
  <1>7. AudienceExactIn(f) /\ IdleExactIn(f)
    BY <1>5 DEF Consistent, AudienceExactIn, AudienceOf, IdleExactIn, PublisherOf
  <1>8. AttachedIn(f)
    BY <1>1, <1>2, <1>5 DEF Consistent, AttachedIn, Registry
  <1>9. Consistent(f)
    BY <1>4, <1>5, <1>6, <1>7, <1>8 DEF Consistent
  <1> QED
    BY <1>2, <1>3, <1>5, <1>9

\* ... and the stream it will publish on.
LEMMA NamePublishStreamConsistent ==
    ASSUME NEW r, Consistent(r), NEW s \in Rtmp, NEW id \in StreamIds,
           s \notin r.publishing
    PROVE  LET f == [r EXCEPT !.publishStreamId[s] = id]
           IN  /\ Consistent(f)
               /\ f.sessions = r.sessions /\ f.starting = r.starting
               /\ f.publishing = r.publishing
               /\ f.publishStreamPath = r.publishStreamPath
               /\ f.publishStreamId[s] = id
  <1> DEFINE pid == [r.publishStreamId EXCEPT ![s] = id]
             f == [r EXCEPT !.publishStreamId = pid]
  <1>1. r \in Registry
    BY DEF Consistent
  <1>2. /\ pid \in [Rtmp -> StreamIds \cup {0}] /\ pid[s] = id
        /\ \A x \in Rtmp \ {s} : pid[x] = r.publishStreamId[x]
    BY <1>1 DEF Registry
  <1>3. [r EXCEPT !.publishStreamId[s] = id] = f
    BY <1>1 DEF Registry
  <1> HIDE DEF pid
  <1>4. f \in Registry
    BY <1>1, <1>2 DEF Registry
  <1>5. /\ f.fresh = r.fresh /\ f.open = r.open /\ f.uncaught = r.uncaught
        /\ f.sessions = r.sessions /\ f.starting = r.starting
        /\ f.idlePlayers = r.idlePlayers /\ f.players = r.players
        /\ f.publishers = r.publishers /\ f.publishing = r.publishing
        /\ f.playing = r.playing /\ f.idling = r.idling
        /\ f.playStreamId = r.playStreamId /\ f.playStreamPath = r.playStreamPath
        /\ f.publishStreamPath = r.publishStreamPath /\ f.publishStreamId = pid
    BY <1>1 DEF Registry
  <1> HIDE DEF f
  <1>6. OwnersAliveIn(f)
    BY <1>1, <1>2, <1>5 DEF Consistent, OwnersAliveIn, Registry
  <1>7. AudienceExactIn(f) /\ IdleExactIn(f)
    BY <1>5 DEF Consistent, AudienceExactIn, AudienceOf, IdleExactIn, PublisherOf
  <1>8. AttachedIn(f)
    BY <1>1, <1>2, <1>5 DEF Consistent, AttachedIn, Registry
  <1>9. Consistent(f)
    BY <1>4, <1>5, <1>6, <1>7, <1>8 DEF Consistent
  <1> QED
    BY <1>2, <1>3, <1>5, <1>9

-----------------------------------------------------------------------------
(* The handlers.                                                           *)

\* Joining the audience of the path that was named, or waiting for it.
LEMMA JoinOrWaitConsistent ==
    ASSUME NEW r, Consistent(r), NEW s \in r.sessions, NEW path \in Paths,
           s \notin r.playing \cup r.idling,
           r.playStreamPath[s] = path,
           s \in Rtmp => r.playStreamId[s] > 0
    PROVE  /\ Consistent(JoinOrWait(r, s, path))
           /\ JoinOrWait(r, s, path).sessions = r.sessions
           /\ JoinOrWait(r, s, path).starting = r.starting
  <1> DEFINE f == JoinOrWait(r, s, path)
  <1>1. r \in Registry /\ s \in Sessions
    BY DEF Consistent, Registry
  <1>2. s \notin r.fresh
    BY DEF Consistent, AttachedIn
  <1>3. CASE r.publishers[path] = Nobody
    <2>1. f = [r EXCEPT !.idling = @ \cup {s}, !.idlePlayers = @ \cup {s}]
      BY <1>3 DEF JoinOrWait
    <2>2. /\ r.idling \cup {s} \in SUBSET Sessions
          /\ r.idlePlayers \cup {s} \in SUBSET Sessions
      BY <1>1 DEF Registry
    <2>3. f \in Registry
      BY <1>1, <2>1, <2>2 DEF Registry
    <2>4. /\ f.fresh = r.fresh /\ f.open = r.open /\ f.uncaught = r.uncaught
          /\ f.sessions = r.sessions /\ f.starting = r.starting
          /\ f.idlePlayers = r.idlePlayers \cup {s} /\ f.players = r.players
          /\ f.publishers = r.publishers /\ f.publishing = r.publishing
          /\ f.playing = r.playing /\ f.idling = r.idling \cup {s}
          /\ f.playStreamId = r.playStreamId /\ f.playStreamPath = r.playStreamPath
          /\ f.publishStreamId = r.publishStreamId
          /\ f.publishStreamPath = r.publishStreamPath
      BY <1>1, <2>1 DEF Registry
    <2> HIDE DEF f
    <2>5. OwnersAliveIn(f) /\ AudienceExactIn(f)
      BY <2>4 DEF Consistent, OwnersAliveIn, AudienceExactIn, AudienceOf, PublisherOf
    <2>6. IdleExactIn(f)
      BY <1>3, <2>4 DEF Consistent, IdleExactIn, PublisherOf
    <2>7. AttachedIn(f)
      BY <1>2, <2>4 DEF Consistent, AttachedIn
    <2>8. Consistent(f)
      BY <2>3, <2>4, <2>5, <2>6, <2>7 DEF Consistent
    <2> QED
      BY <2>4, <2>8 DEF f
  <1>4. CASE r.publishers[path] # Nobody
    <2> DEFINE pub == r.publishers[path]
               pl == [r.players EXCEPT ![pub] = @ \cup {s}]
    <2>1. pub \in Rtmp
      BY <1>1, <1>4 DEF Registry
    <2>2. f = [r EXCEPT !.players = pl, !.idling = @ \ {s}, !.playing = @ \cup {s}]
      BY <1>1, <1>4, <2>1, NotDangling DEF JoinOrWait, StartPlay, Registry
    <2>3. /\ pl \in [Rtmp -> SUBSET Sessions]
          /\ \A x \in Rtmp : pl[x] = IF x = pub THEN r.players[x] \cup {s}
                                                ELSE r.players[x]
          /\ r.idling \ {s} \in SUBSET Sessions
          /\ r.playing \cup {s} \in SUBSET Sessions
      BY <1>1, <2>1 DEF Registry
    <2> HIDE DEF pl
    <2>4. f \in Registry
      BY <1>1, <2>2, <2>3 DEF Registry
    <2>5. /\ f.fresh = r.fresh /\ f.open = r.open /\ f.uncaught = r.uncaught
          /\ f.sessions = r.sessions /\ f.starting = r.starting
          /\ f.idlePlayers = r.idlePlayers /\ f.players = pl
          /\ f.publishers = r.publishers /\ f.publishing = r.publishing
          /\ f.playing = r.playing \cup {s} /\ f.idling = r.idling \ {s}
          /\ f.playStreamId = r.playStreamId /\ f.playStreamPath = r.playStreamPath
          /\ f.publishStreamId = r.publishStreamId
          /\ f.publishStreamPath = r.publishStreamPath
      BY <1>1, <2>2 DEF Registry
    <2> HIDE DEF f
    <2>6. OwnersAliveIn(f)
      BY <2>5 DEF Consistent, OwnersAliveIn
    <2>7. AudienceExactIn(f)
      <3>1. \A x \in Rtmp : AudienceOf(f, x) =
               IF x = pub THEN AudienceOf(r, x) \cup {s} ELSE AudienceOf(r, x)
        BY <1>4, <2>5 DEF AudienceOf, PublisherOf
      <3>2. \A x \in Rtmp : r.players[x] = AudienceOf(r, x)
        BY DEF Consistent, AudienceExactIn
      <3>3. \A x \in Rtmp : f.players[x] = AudienceOf(f, x)
        BY <2>3, <2>5, <3>1, <3>2
      <3> QED
        BY <3>3 DEF AudienceExactIn
    <2>8. IdleExactIn(f)
      BY <1>1, <2>5 DEF Consistent, IdleExactIn, PublisherOf, Registry
    <2>9. AttachedIn(f)
      BY <1>2, <1>4, <2>5 DEF Consistent, AttachedIn
    <2>10. Consistent(f)
      BY <2>4, <2>5, <2>6, <2>7, <2>8, <2>9 DEF Consistent
    <2> QED
      BY <2>5, <2>10 DEF f
  <1> QED
    BY <1>3, <1>4

\* Registering a path nobody publishes and serving everybody who waits for it.
LEMMA ServeConsistent ==
    ASSUME NEW r, Consistent(r), NEW s \in Rtmp, s \in r.sessions,
           s \notin r.publishing, NEW path \in Paths,
           r.publishers[path] = Nobody, r.publishStreamPath[s] = path,
           r.publishStreamId[s] > 0
    PROVE  LET c == [r EXCEPT !.publishers[path] = s,
                              !.publishing = @ \cup {s}]
               f == Serve(c, {p \in c.idlePlayers : c.playStreamPath[p] = path}, s)
           IN  Consistent(f) /\ f.sessions = r.sessions /\ f.starting = r.starting
  <1> DEFINE W == {p \in r.idlePlayers : r.playStreamPath[p] = path}
             pubs == [r.publishers EXCEPT ![path] = s]
             pl == [r.players EXCEPT ![s] = @ \cup W]
             c == [r EXCEPT !.publishers[path] = s, !.publishing = @ \cup {s}]
             f == [r EXCEPT !.publishers = pubs, !.publishing = @ \cup {s},
                            !.players = pl, !.idling = @ \ W,
                            !.playing = @ \cup W, !.idlePlayers = @ \ W]
  <1>1. r \in Registry
    BY DEF Consistent
  <1>2. c.idlePlayers = r.idlePlayers /\ c.playStreamPath = r.playStreamPath
    BY <1>1 DEF Registry
  <1>3. Serve(c, {p \in c.idlePlayers : c.playStreamPath[p] = path}, s) = f
    <2>1. {p \in c.idlePlayers : c.playStreamPath[p] = path} = W
      BY <1>2
    <2>2. Serve(c, W, s) = f
      BY <1>1 DEF Serve, StartPlay, Registry
    <2> QED
      BY <2>1, <2>2
  <1>4. /\ pubs \in [Paths -> Rtmp \cup {Nobody}]
        /\ pubs[path] = s
        /\ \A x \in Paths \ {path} : pubs[x] = r.publishers[x]
        /\ pl \in [Rtmp -> SUBSET Sessions]
        /\ \A x \in Rtmp : pl[x] = IF x = s THEN r.players[x] \cup W ELSE r.players[x]
        /\ r.publishing \cup {s} \in SUBSET Rtmp
        /\ r.idling \ W \in SUBSET Sessions
        /\ r.playing \cup W \in SUBSET Sessions
        /\ r.idlePlayers \ W \in SUBSET Sessions
    BY <1>1 DEF Registry
  <1>5. /\ W = {p \in r.sessions \cap r.idling : r.playStreamPath[p] = path}
        /\ W \cap r.playing = {}
    BY DEF Consistent, IdleExactIn, AttachedIn
  <1> HIDE DEF pubs, pl, W
  <1>6. f \in Registry
    BY <1>1, <1>4 DEF Registry
  <1>7. /\ f.fresh = r.fresh /\ f.open = r.open /\ f.uncaught = r.uncaught
        /\ f.sessions = r.sessions /\ f.starting = r.starting
        /\ f.idlePlayers = r.idlePlayers \ W /\ f.players = pl
        /\ f.publishers = pubs /\ f.publishing = r.publishing \cup {s}
        /\ f.playing = r.playing \cup W /\ f.idling = r.idling \ W
        /\ f.playStreamId = r.playStreamId /\ f.playStreamPath = r.playStreamPath
        /\ f.publishStreamId = r.publishStreamId
        /\ f.publishStreamPath = r.publishStreamPath
    BY <1>1 DEF Registry
  <1> HIDE DEF f
  <1>8. s # Nobody
    BY RegistryAssumption
  <1>9. OwnersAliveIn(f)
    <2>1. ASSUME NEW x \in Paths, f.publishers[x] # Nobody
          PROVE  /\ f.publishers[x] \in f.sessions \cap f.publishing
                 /\ f.publishStreamPath[f.publishers[x]] = x
      BY <1>4, <1>7, <2>1 DEF Consistent, OwnersAliveIn
    <2>2. ASSUME NEW x \in r.publishing
          PROVE  /\ x \in r.sessions
                 /\ r.publishStreamPath[x] \in Paths \ {path}
                 /\ r.publishers[r.publishStreamPath[x]] = x
      <3>1. x # Nobody
        BY <1>1, RegistryAssumption DEF Registry
      <3> QED
        BY <3>1 DEF Consistent, OwnersAliveIn
    <2> QED
      BY <1>4, <1>7, <2>1, <2>2 DEF OwnersAliveIn
  <1>10. AudienceExactIn(f)
    <2>1. ASSUME NEW x \in Rtmp
          PROVE  AudienceOf(f, x) = IF x = s THEN AudienceOf(r, x) \cup W
                                            ELSE AudienceOf(r, x)
      <3>1. x # Nobody
        BY RegistryAssumption
      <3>2. \A p \in r.sessions \cap r.playing :
               r.playStreamPath[p] \in Paths \ {path}
        BY DEF Consistent, AttachedIn
      <3> QED
        BY <1>4, <1>5, <1>7, <3>1, <3>2 DEF AudienceOf, PublisherOf
    <2> QED
      BY <1>4, <1>7, <2>1 DEF Consistent, AudienceExactIn
  <1>11. IdleExactIn(f)
    <2>1. \A p \in r.idlePlayers \ W : r.playStreamPath[p] # path
      BY <1>5 DEF Consistent, IdleExactIn
    <2> QED
      BY <1>4, <1>5, <1>7, <2>1 DEF Consistent, IdleExactIn, PublisherOf
  <1>12. AttachedIn(f)
    BY <1>4, <1>5, <1>7, <1>8 DEF Consistent, AttachedIn
  <1>13. Consistent(f)
    BY <1>6, <1>7, <1>9, <1>10, <1>11, <1>12 DEF Consistent
  <1> QED
    BY <1>3, <1>7, <1>13

\* onPublish of a session that publishes nothing.
LEMMA OnPublishConsistent ==
    ASSUME NEW r, Consistent(r), r.sessions = r.starting, NEW s \in Rtmp,
           NEW path \in Paths, NEW id \in StreamIds, NEW verdict,
           id > 0, s \notin r.publishing
    PROVE  /\ Consistent(OnPublish(r, s, path, id, verdict))
           /\ OnPublish(r, s, path, id, verdict).sessions
                = OnPublish(r, s, path, id, verdict).starting
  <1> DEFINE a0 == [r EXCEPT !.publishStreamPath[s] = path,
                             !.publishStreamId[s] = id]
             n == [r EXCEPT !.publishStreamPath[s] = path]
             a == [n EXCEPT !.publishStreamId[s] = id]
             b == IF verdict = "reject" THEN RtmpStop(a, s) ELSE a
             reg(q) == [q EXCEPT !.publishers[path] = s, !.publishing = @ \cup {s}]
             wait(q) == {p \in q.idlePlayers : q.playStreamPath[p] = path}
             f == OnPublish(r, s, path, id, verdict)
  <1>1. /\ Consistent(n) /\ n.sessions = n.starting
        /\ s \notin n.publishing
        /\ n.publishStreamPath[s] = path
    BY NamePublishPathConsistent
  <1> HIDE DEF n
  <1>2. /\ Consistent(a) /\ a.sessions = a.starting
        /\ a.publishStreamPath[s] = path /\ a.publishStreamId[s] = id
    BY <1>1, NamePublishStreamConsistent
  <1> HIDE DEF a
  <1>3. /\ Consistent(b) /\ b.sessions = b.starting
        /\ s \in b.starting => b = a
    BY <1>2, RtmpStopConsistent
  <1>4. a0 = a
    BY DEF a, n
  <1>5. f = IF Refused(b, s, path, verdict) THEN b
            ELSE IF ~(b.idlePlayers \subseteq b.sessions) THEN Throw(reg(b))
            ELSE Serve(reg(b), wait(reg(b)), s)
    <2> DEFINE b0 == IF verdict = "reject" THEN RtmpStop(a0, s) ELSE a0
    <2>1. f = IF Refused(b0, s, path, verdict) THEN b0
              ELSE IF ~(b0.idlePlayers \subseteq b0.sessions) THEN Throw(reg(b0))
              ELSE Serve(reg(b0), wait(reg(b0)), s)
      BY Zenon DEF OnPublish
    <2> HIDE DEF a0
    <2>2. b0 = b
      BY <1>4
    <2> HIDE DEF b0, b, f, reg, wait
    <2> QED
      BY <2>1, <2>2
  <1> HIDE DEF b, f
  <1>6. CASE Refused(b, s, path, verdict)
    BY <1>3, <1>5, <1>6 DEF f
  <1>7. CASE ~Refused(b, s, path, verdict)
    <2> DEFINE c == reg(b)
    <2>1. /\ s \in b.starting /\ s \notin b.publishing
          /\ b.publishers[path] = Nobody
      BY <1>7 DEF Refused
    <2>2. b.idlePlayers \subseteq b.sessions
      BY <1>3 DEF Consistent, IdleExactIn
    <2>3. f = Serve(c, wait(c), s)
      BY <1>5, <1>7, <2>2
    <2>4. b = a
      BY <1>3, <2>1
    <2>5. b.publishStreamPath[s] = path /\ b.publishStreamId[s] > 0
      BY <1>2, <2>4
    <2>6. Consistent(f) /\ f.sessions = b.sessions /\ f.starting = b.starting
      BY <1>3, <2>1, <2>3, <2>5, ServeConsistent
    <2> QED
      BY <1>3, <2>6 DEF f
  <1> QED
    BY <1>6, <1>7

\* onPlay of a session that plays and waits for nothing.
LEMMA OnPlayConsistent ==
    ASSUME NEW r, Consistent(r), r.sessions = r.starting, NEW s \in Rtmp,
           NEW path \in Paths, NEW id \in StreamIds, NEW verdict,
           id > 0, s \notin r.playing \cup r.idling
    PROVE  /\ Consistent(OnPlay(r, s, path, id, verdict))
           /\ OnPlay(r, s, path, id, verdict).sessions
                = OnPlay(r, s, path, id, verdict).starting
  <1> DEFINE a0 == [r EXCEPT !.playStreamPath[s] = path, !.playStreamId[s] = id]
             n == [r EXCEPT !.playStreamPath[s] = path]
             a == [n EXCEPT !.playStreamId[s] = id]
             b == IF verdict = "reject" THEN RtmpStop(a, s) ELSE a
             f == OnPlay(r, s, path, id, verdict)
  <1>1. /\ Consistent(n) /\ n.sessions = n.starting
        /\ s \notin n.playing \cup n.idling
        /\ n.playStreamPath[s] = path
    BY NamePathConsistent
  <1> HIDE DEF n
  <1>2. /\ Consistent(a) /\ a.sessions = a.starting
        /\ s \notin a.playing \cup a.idling
        /\ a.playStreamPath[s] = path /\ a.playStreamId[s] = id
    BY <1>1, NamePlayStreamConsistent
  <1> HIDE DEF a
  <1>3. /\ Consistent(b) /\ b.sessions = b.starting
        /\ s \in b.starting => b = a
    BY <1>2, RtmpStopConsistent
  <1>4. a0 = a
    BY DEF a, n
  <1>5. f = IF b.uncaught \/ s \notin b.starting \/ verdict = "denied" THEN b
            ELSE JoinOrWait(b, s, path)
    <2> DEFINE b0 == IF verdict = "reject" THEN RtmpStop(a0, s) ELSE a0
    <2>1. f = IF b0.uncaught \/ s \notin b0.starting \/ verdict = "denied" THEN b0
              ELSE JoinOrWait(b0, s, path)
      BY Zenon DEF OnPlay
    <2> HIDE DEF a0
    <2>2. b0 = b
      BY <1>4
    <2> HIDE DEF b0, b, f
    <2> QED
      BY <2>1, <2>2
  <1> HIDE DEF b, f
  <1>6. CASE b.uncaught \/ s \notin b.starting \/ verdict = "denied"
    BY <1>3, <1>5, <1>6 DEF f
  <1>7. CASE ~(b.uncaught \/ s \notin b.starting \/ verdict = "denied")
    <2>1. /\ s \in b.sessions /\ s \notin b.playing \cup b.idling
          /\ b.playStreamPath[s] = path /\ b.playStreamId[s] > 0
      BY <1>2, <1>3, <1>7
    <2>2. /\ Consistent(JoinOrWait(b, s, path))
          /\ JoinOrWait(b, s, path).sessions = b.sessions
          /\ JoinOrWait(b, s, path).starting = b.starting
      BY <1>3, <2>1, JoinOrWaitConsistent
    <2> QED
      BY <1>3, <1>5, <1>7, <2>2 DEF f
  <1> QED
    BY <1>6, <1>7

\* The whole life of an FLV request up to its first wait.
LEMMA OnRequestConsistent ==
    ASSUME NEW r, Consistent(r), r.sessions = r.starting,
           NEW s \in Flv \cap r.fresh, NEW path \in Paths,
           NEW verdict \in Verdicts \cup {"refused"}
    PROVE  /\ Consistent(OnRequest(r, s, path, verdict))
           /\ OnRequest(r, s, path, verdict).sessions
                = OnRequest(r, s, path, verdict).starting
  <1> DEFINE a == Enter(r, s)
             b == [a EXCEPT !.playStreamPath[s] = path]
             f == OnRequest(r, s, path, verdict)
  <1>1. /\ Consistent(a) /\ a.sessions = a.starting /\ s \in a.sessions
        /\ s \notin a.playing \cup a.idling
    BY EnterConsistent
  <1>2. /\ Consistent(b) /\ b.sessions = b.starting /\ s \in b.sessions
        /\ s \notin b.playing \cup b.idling /\ b.playStreamPath[s] = path
    <2> HIDE DEF a
    <2> QED
      BY <1>1, NamePathConsistent
  <1>3. s \notin Rtmp /\ {s} \subseteq Flv
    BY RegistryAssumption
  <1>4. CASE verdict = "refused"
    <2>1. f = FlvStop(a, {s})
      BY <1>4 DEF OnRequest, Enter, Verdicts
    <2> HIDE DEF a, b, f
    <2>2. /\ Consistent(f)
          /\ f.sessions = a.sessions \ {s} /\ f.starting = a.starting \ {s}
      BY <1>3, <1>1, <2>1, FlvStopConsistent
    <2> QED
      BY <1>1, <2>2 DEF f
  <1>5. CASE verdict = "reject"
    <2>1. f = FlvStop(b, {s})
      BY <1>5 DEF OnRequest, Enter, Verdicts
    <2> HIDE DEF a, b, f
    <2>2. /\ Consistent(f)
          /\ f.sessions = b.sessions \ {s} /\ f.starting = b.starting \ {s}
      BY <1>3, <1>2, <2>1, FlvStopConsistent
    <2> QED
      BY <1>2, <2>2 DEF f
  <1>6. CASE verdict = "denied"
    <2>1. f = b
      BY <1>6 DEF OnRequest, Enter, Verdicts
    <2> QED
      BY <1>2, <2>1
  <1>7. CASE verdict = "ok"
    <2>1. f = JoinOrWait(b, s, path)
      BY <1>7 DEF OnRequest, Enter, Verdicts
    <2> HIDE DEF b
    <2>2. /\ Consistent(JoinOrWait(b, s, path))
          /\ JoinOrWait(b, s, path).sessions = b.sessions
          /\ JoinOrWait(b, s, path).starting = b.starting
      BY <1>2, <1>3, JoinOrWaitConsistent
    <2> QED
      BY <1>2, <2>1, <2>2
  <1> QED
    BY <1>4, <1>5, <1>6, <1>7 DEF Verdicts

\* A socket that ends raises no event any more.
LEMMA EndConsistent ==
    ASSUME NEW r, Consistent(r), NEW s
    PROVE  LET f == [r EXCEPT !.open = @ \ {s}]
           IN  Consistent(f) /\ f.sessions = r.sessions /\ f.starting = r.starting
  <1> DEFINE f == [r EXCEPT !.open = @ \ {s}]
  <1>1. r \in Registry
    BY DEF Consistent
  <1>2. r.open \ {s} \in SUBSET Sessions
    BY <1>1 DEF Registry
  <1>3. f \in Registry
    BY <1>1, <1>2 DEF Registry
  <1>4. /\ f.fresh = r.fresh /\ f.open = r.open \ {s} /\ f.uncaught = r.uncaught
        /\ f.sessions = r.sessions /\ f.starting = r.starting
        /\ f.idlePlayers = r.idlePlayers /\ f.players = r.players
        /\ f.publishers = r.publishers /\ f.publishing = r.publishing
        /\ f.playing = r.playing /\ f.idling = r.idling
        /\ f.playStreamId = r.playStreamId /\ f.playStreamPath = r.playStreamPath
        /\ f.publishStreamId = r.publishStreamId
        /\ f.publishStreamPath = r.publishStreamPath
    BY <1>1 DEF Registry
  <1> HIDE DEF f
  <1>5. OwnersAliveIn(f) /\ AudienceExactIn(f) /\ IdleExactIn(f)
    BY <1>4 DEF Consistent, OwnersAliveIn, AudienceExactIn, AudienceOf,
                IdleExactIn, PublisherOf
  <1>6. AttachedIn(f)
    BY <1>4 DEF Consistent, AttachedIn
  <1>7. Consistent(f)
    BY <1>3, <1>4, <1>5, <1>6 DEF Consistent
  <1> QED
    BY <1>4, <1>7 DEF f

-----------------------------------------------------------------------------
(* The theorems.                                                           *)

\* A server that has just been started, with no connection and empty
\* containers, has a consistent registry.
LEMMA InitConsistent == Init => RegistryInv
  <1> SUFFICES ASSUME Init PROVE RegistryInv
    OBVIOUS
  <1>1. ctx \in Registry
    BY DEF Init, ctx, Registry
  <1>2. OwnersAliveIn(ctx) /\ AudienceExactIn(ctx) /\ IdleExactIn(ctx)
    BY DEF Init, ctx, OwnersAliveIn, AudienceExactIn, AudienceOf, IdleExactIn
  <1>3. AttachedIn(ctx)
    BY DEF Init, ctx, AttachedIn
  <1> QED
    BY <1>1, <1>2, <1>3 DEF RegistryInv, Consistent, Init, ctx

\* A callback that leaves the registry as r leaves ctx as r.
LEMMA BecomesCtx ==
    ASSUME NEW r \in Registry, Becomes(r)
    PROVE  ctx' = r
  BY DEF Becomes, ctx, Registry

\* One step of the server keeps the invariant.
LEMMA StepConsistent == RegistryInv /\ [Next]_vars => RegistryInv'
  <1> SUFFICES ASSUME RegistryInv, [Next]_vars PROVE RegistryInv'
    OBVIOUS
  <1>1. /\ Consistent(ctx) /\ ctx.sessions = ctx.starting
        /\ ctx.fresh = fresh /\ ctx.publishing = publishing
        /\ ctx.playing = playing /\ ctx.idling = idling
    BY DEF RegistryInv, ctx
  <1>2. ASSUME NEW r, Becomes(r), Consistent(r), r.sessions = r.starting
        PROVE  RegistryInv'
    <2>1. ctx' = r
      BY <1>2, BecomesCtx DEF Consistent
    <2>2. sessions' = starting'
      BY <1>2 DEF Becomes
    <2> QED
      BY <1>2, <2>1, <2>2 DEF RegistryInv
  <1>3. ASSUME NEW s \in Rtmp, Accept(s) PROVE RegistryInv'
    <2>1. s \in ctx.fresh /\ Becomes(Enter(ctx, s))
      BY <1>1, <1>3 DEF Accept, Enter
    <2> QED
      BY <1>1, <1>2, <2>1, EnterConsistent
  <1>4. ASSUME NEW s \in Rtmp, NEW path \in Paths, NEW id \in StreamIds,
               NEW v \in Verdicts, MayPublish(s, id), Publish(s, path, id, v)
        PROVE  RegistryInv'
    <2>1. /\ Becomes(OnPublish(ctx, s, path, id, v))
          /\ id > 0 /\ s \notin ctx.publishing
      BY <1>1, <1>4 DEF Publish, MayPublish
    <2> QED
      BY <1>1, <1>2, <2>1, OnPublishConsistent
  <1>5. ASSUME NEW s \in Rtmp, NEW path \in Paths, NEW id \in StreamIds,
               NEW v \in Verdicts, MayPlay(s, id), Play(s, path, id, v)
        PROVE  RegistryInv'
    <2>1. /\ Becomes(OnPlay(ctx, s, path, id, v))
          /\ id > 0 /\ s \notin ctx.playing \cup ctx.idling
      BY <1>1, <1>5 DEF Play, MayPlay
    <2> QED
      BY <1>1, <1>2, <2>1, OnPlayConsistent
  <1>6. ASSUME NEW s \in Rtmp, NEW id \in StreamIds, CloseStream(s, id)
        PROVE  RegistryInv'
    <2> DEFINE f == DeleteStream(ctx, s, id)
    <2>1. Becomes(f)
      BY <1>6 DEF CloseStream
    <2>2. Consistent(f) /\ Closes(ctx, f)
      BY <1>1, DeleteStreamConsistent
    <2> HIDE DEF f
    <2>3. f.sessions = f.starting
      BY <1>1, <2>2 DEF Closes
    <2> QED
      BY <1>2, <2>1, <2>2, <2>3
  <1>7. ASSUME NEW s \in Rtmp, SocketEnd(s) PROVE RegistryInv'
    <2> DEFINE e == [ctx EXCEPT !.open = @ \ {s}]
    <2>1. Becomes(RtmpStop(e, s))
      BY <1>7 DEF SocketEnd
    <2>2. Consistent(e) /\ e.sessions = e.starting
      BY <1>1, EndConsistent
    <2> HIDE DEF e
    <2> QED
      BY <1>2, <2>1, <2>2, RtmpStopConsistent
  <1>8. ASSUME NEW s \in Flv, NEW path \in Paths,
               NEW v \in Verdicts \cup {"refused"}, Request(s, path, v)
        PROVE  RegistryInv'
    <2>1. s \in Flv \cap ctx.fresh /\ Becomes(OnRequest(ctx, s, path, v))
      BY <1>1, <1>8 DEF Request
    <2> QED
      BY <1>1, <1>2, <2>1, OnRequestConsistent
  <1>9. ASSUME NEW s \in Flv, RequestEnd(s) PROVE RegistryInv'
    <2> DEFINE e == [ctx EXCEPT !.open = @ \ {s}]
               f == FlvStop(e, {s})
    <2>1. Becomes(f)
      BY <1>9 DEF RequestEnd
    <2>2. Consistent(e) /\ e.sessions = e.starting
      BY <1>1, EndConsistent
    <2> HIDE DEF e
    <2>3. /\ Consistent(f)
          /\ f.sessions = e.sessions \ {s} /\ f.starting = e.starting \ {s}
      <3>1. {s} \subseteq Flv
        OBVIOUS
      <3> QED
        BY <2>2, <3>1, FlvStopConsistent
    <2> HIDE DEF f
    <2>4. f.sessions = f.starting
      BY <2>2, <2>3
    <2> QED
      BY <1>2, <2>1, <2>3, <2>4
  <1>10. CASE UNCHANGED vars
    <2>1. ctx' = ctx /\ sessions' = sessions /\ starting' = starting
      BY <1>10 DEF vars, ctx
    <2> QED
      BY <2>1 DEF RegistryInv
  <1> QED
    BY <1>3, <1>4, <1>5, <1>6, <1>7, <1>8, <1>9, <1>10
       DEF Next, Other, OrderlyPublish, OrderlyPlay

\* With clients that keep to the protocol the registry is consistent after
\* every callback, whatever the number of sessions, paths and streams.
THEOREM RegistryAlwaysConsistent == Spec => []RegistryInv
  BY InitConsistent, StepConsistent, PTL DEF Spec

\* Hence every field has its type, ...
THEOREM TypeCorrect == Spec => []TypeOK
  <1>1. RegistryInv => TypeOK
    BY DEF RegistryInv, Consistent, TypeOK
  <1> QED
    BY <1>1, RegistryAlwaysConsistent, PTL

\* ... a registered path is owned by a live session that publishes it, ...
THEOREM OwnersAlwaysAlive == Spec => []OwnersAlive
  <1>1. RegistryInv => OwnersAlive
    BY DEF RegistryInv, Consistent, OwnersAlive
  <1> QED
    BY <1>1, RegistryAlwaysConsistent, PTL

\* ... a publisher sends to exactly the live sessions that play its stream, ...
THEOREM AudienceAlwaysExact == Spec => []AudienceExact
  <1>1. RegistryInv => AudienceExact
    BY DEF RegistryInv, Consistent, AudienceExact
  <1> QED
    BY <1>1, RegistryAlwaysConsistent, PTL

\* ... nobody waits for a stream that is live, ...
THEOREM IdleAlwaysExact == Spec => []IdleExact
  <1>1. RegistryInv => IdleExact
    BY DEF RegistryInv, Consistent, IdleExact
  <1> QED
    BY <1>1, RegistryAlwaysConsistent, PTL

\* ... and no handler ever calls a method of a session that is gone.
THEOREM NeverTypeError == Spec => []NoTypeError
  <1>1. RegistryInv => NoTypeError
    BY DEF RegistryInv, Consistent, NoTypeError, ctx
  <1> QED
    BY <1>1, RegistryAlwaysConsistent, PTL

-----------------------------------------------------------------------------
(***************************************************************************)
(* Proof that the registry of StreamRegistry implements StreamBroker, for  *)
(* clients that keep to the protocol.  What a method does to the abstract  *)
(* state is said by a relation between the registry before and after it,   *)
(* which the methods a callback runs one after the other compose.          *)
(***************************************************************************)

\* Wants, of a registry in the middle of a callback.
WantsIn(r) ==
    [p \in Sessions |-> IF p \in r.sessions \cap (r.playing \cup r.idling)
                        THEN r.playStreamPath[p] ELSE NoPath]

\* The sessions of L stop wanting what they wanted.
Quits(r, f, L) ==
    /\ f.publishers = r.publishers
    /\ WantsIn(f) = [p \in Sessions |-> IF p \in L THEN NoPath ELSE WantsIn(r)[p]]

\* s lets its path go, its FLV audience is disconnected, and L quits.
Releases(r, f, s, L) ==
    /\ \E path \in Paths : r.publishers[path] = s
    /\ f.publishers = [path \in Paths |->
                          IF r.publishers[path] = s THEN Nobody ELSE r.publishers[path]]
    /\ WantsIn(f) = [p \in Sessions |-> IF p \in L \cup (r.players[s] \cap Flv)
                                        THEN NoPath ELSE WantsIn(r)[p]]
    /\ f.sessions \cap r.players[s] \cap Flv = {}

\* What closing streams of s may come to.
Ends(r, f, s) ==
    /\ f.sessions \subseteq r.sessions
    /\ \E L \in SUBSET {s} : Quits(r, f, L) \/ Releases(r, f, s, L)

-----------------------------------------------------------------------------
(* The abstract state of a registry.                                       *)

\* In a consistent registry the audience of s is who wants the path s owns.
LEMMA AudienceIsWhoWants ==
    ASSUME NEW r, Consistent(r), NEW s \in Rtmp
    PROVE  r.players[s] = {p \in Sessions : /\ WantsIn(r)[p] \in Paths
                                            /\ r.publishers[WantsIn(r)[p]] = s}
  <1>1. r \in Registry /\ s # Nobody
    BY RegistryAssumption DEF Consistent
  <1>2. r.players[s] = {p \in r.sessions \cap r.playing :
                           PublisherOf(r, r.playStreamPath[p]) = s}
    BY DEF Consistent, AudienceExactIn, AudienceOf
  <1>3. \A p \in r.sessions \cap r.idling : PublisherOf(r, r.playStreamPath[p]) = Nobody
    BY DEF Consistent, IdleExactIn
  <1>4. \A p \in r.sessions \cap (r.playing \cup r.idling) : r.playStreamPath[p] \in Paths
    BY DEF Consistent, AttachedIn
  <1>5. r.sessions \subseteq Sessions
    BY <1>1 DEF Registry
  <1> QED
    BY <1>1, <1>2, <1>3, <1>4, <1>5, RegistryAssumption DEF WantsIn, PublisherOf

\* What does not depend on the fields a method changes.
LEMMA SameWants ==
    ASSUME NEW r, NEW f, f.publishers = r.publishers, f.sessions = r.sessions,
           f.playing \cup f.idling = r.playing \cup r.idling,
           f.playStreamPath = r.playStreamPath
    PROVE  Quits(r, f, {})
  BY DEF Quits, WantsIn

\* Two methods, one after the other: a session lets its path go only once.
LEMMA EndsCompose ==
    ASSUME NEW r, NEW q, NEW f, Consistent(r), Consistent(q), NEW s \in Rtmp,
           Ends(r, q, s), Ends(q, f, s)
    PROVE  Ends(r, f, s)
  <1>1. f.sessions \subseteq r.sessions
    BY DEF Ends
  <1>2. PICK L \in SUBSET {s} : Quits(r, q, L) \/ Releases(r, q, s, L)
    BY DEF Ends
  <1>3. PICK M \in SUBSET {s} : Quits(q, f, M) \/ Releases(q, f, s, M)
    BY DEF Ends
  <1>4. L \cup M \in SUBSET {s}
    OBVIOUS
  <1>5. CASE Quits(r, q, L) /\ Quits(q, f, M)
    <2>1. Quits(r, f, L \cup M)
      BY <1>5 DEF Quits
    <2> QED
      BY <1>1, <1>4, <2>1 DEF Ends
  <1>6. CASE Quits(r, q, L) /\ Releases(q, f, s, M)
    <2>1. q.players[s] \cap Flv = r.players[s] \cap Flv
      <3>1. \A p \in Flv : WantsIn(q)[p] = WantsIn(r)[p]
        BY <1>6, RegistryAssumption DEF Quits
      <3>2. q.publishers = r.publishers
        BY <1>6 DEF Quits
      <3>3. r.players[s] = {p \in Sessions : /\ WantsIn(r)[p] \in Paths
                                             /\ r.publishers[WantsIn(r)[p]] = s}
        BY AudienceIsWhoWants
      <3>4. q.players[s] = {p \in Sessions : /\ WantsIn(q)[p] \in Paths
                                             /\ q.publishers[WantsIn(q)[p]] = s}
        BY AudienceIsWhoWants
      <3> QED
        BY <3>1, <3>2, <3>3, <3>4
    <2>2. Releases(r, f, s, L \cup M)
      <3>1. /\ \E path \in Paths : r.publishers[path] = s
            /\ f.publishers = [path \in Paths |->
                   IF r.publishers[path] = s THEN Nobody ELSE r.publishers[path]]
        BY <1>6 DEF Quits, Releases
      <3>2. WantsIn(f) = [p \in Sessions |->
                IF p \in (L \cup M) \cup (r.players[s] \cap Flv)
                THEN NoPath ELSE WantsIn(r)[p]]
        BY <1>6, <2>1 DEF Quits, Releases
      <3>3. f.sessions \cap r.players[s] \cap Flv = {}
        BY <1>6, <2>1 DEF Releases
      <3> QED
        BY <3>1, <3>2, <3>3 DEF Releases
    <2> QED
      BY <1>1, <1>4, <2>2 DEF Ends
  <1>7. CASE Releases(r, q, s, L) /\ Quits(q, f, M)
    <2>1. f.sessions \subseteq q.sessions
      BY DEF Ends
    <2>2. WantsIn(f) = [p \in Sessions |->
              IF p \in (L \cup M) \cup (r.players[s] \cap Flv)
              THEN NoPath ELSE WantsIn(r)[p]]
      BY <1>7 DEF Quits, Releases
    <2>3. Releases(r, f, s, L \cup M)
      BY <1>7, <2>1, <2>2 DEF Quits, Releases
    <2> QED
      BY <1>1, <1>4, <2>3 DEF Ends
  <1>8. CASE Releases(r, q, s, L) /\ Releases(q, f, s, M)
    <2>1. s # Nobody
      BY RegistryAssumption
    <2> QED
      BY <1>8, <2>1 DEF Releases
  <1> QED
    BY <1>2, <1>3, <1>5, <1>6, <1>7, <1>8

-----------------------------------------------------------------------------
(* What the methods do to it.                                              *)

\* Stopping FLV sessions: they quit.
LEMMA FlvStopQuits ==
    ASSUME NEW r, Consistent(r), NEW P, P \subseteq Flv
    PROVE  Quits(r, FlvStop(r, P), P)
  <1> DEFINE f == FlvStop(r, P)
  <1>1. f.publishers = r.publishers /\ f.playStreamPath = r.playStreamPath
    BY NotDangling DEF FlvStop, Consistent, Registry
  <1>2. /\ f.sessions = r.sessions \ P
        /\ f.playing = r.playing /\ f.idling = r.idling
    BY FlvStopConsistent
  <1> HIDE DEF f
  <1>3. Quits(r, f, P)
    BY <1>1, <1>2 DEF Quits, WantsIn
  <1> QED
    BY <1>3 DEF f

\* Closing the stream a session plays: it quits.
LEMMA ClosePlayQuits ==
    ASSUME NEW r, Consistent(r), NEW s \in Rtmp
    PROVE  Quits(r, ClosePlay(r, s), {s})
  <1> DEFINE f == ClosePlay(r, s)
             path == [r.playStreamPath EXCEPT ![s] = NoPath]
             id == [r.playStreamId EXCEPT ![s] = 0]
  <1>1. r \in Registry
    BY DEF Consistent
  <1>2. f = IF s \in r.idling
            THEN [r EXCEPT !.idlePlayers = @ \ {s}, !.idling = @ \ {s},
                           !.playStreamId = id, !.playStreamPath = path]
            ELSE [r EXCEPT !.players = Leave(r, {s}), !.playing = @ \ {s},
                           !.playStreamId = id, !.playStreamPath = path]
    BY <1>1, NotDangling DEF ClosePlay, Registry
  <1>3. /\ f.publishers = r.publishers /\ f.playStreamPath = path
        /\ f.playing \ {s} = r.playing \ {s} /\ f.idling \ {s} = r.idling \ {s}
    BY <1>1, <1>2 DEF Registry
  <1>4. \A x \in Sessions \ {s} : path[x] = r.playStreamPath[x]
    BY <1>1 DEF Registry
  <1>5. f.sessions = r.sessions /\ s \notin f.playing \cup f.idling
    BY ClosePlayConsistent
  <1> HIDE DEF f, path
  <1>6. Quits(r, f, {s})
    BY <1>3, <1>4, <1>5 DEF Quits, WantsIn
  <1> QED
    BY <1>6 DEF f

\* Closing the stream a session publishes, if it does: its path is let go.
LEMMA ClosePublishEnds ==
    ASSUME NEW r, Consistent(r), NEW s \in Rtmp
    PROVE  Ends(r, ClosePublish(r, s), s)
  <1> DEFINE forget(q) == [q EXCEPT !.publishStreamId[s] = 0,
                                    !.publishStreamPath[s] = NoPath]
             f == ClosePublish(r, s)
  <1>1. ASSUME NEW q \in Registry
        PROVE  /\ forget(q).sessions = q.sessions
               /\ forget(q).publishers = q.publishers
               /\ forget(q).playing = q.playing
               /\ forget(q).idling = q.idling
               /\ forget(q).playStreamPath = q.playStreamPath
    BY <1>1 DEF Registry
  <1>2. r \in Registry /\ s # Nobody
    BY RegistryAssumption DEF Consistent
  <1> HIDE DEF forget
  <1>3. CASE s \notin r.publishing
    <2>1. f = forget(r)
      BY <1>3 DEF ClosePublish, forget
    <2> HIDE DEF f
    <2>2. Quits(r, f, {}) /\ f.sessions = r.sessions
      BY <1>1, <1>2, <2>1, SameWants
    <2>3. {} \in SUBSET {s}
      OBVIOUS
    <2> QED
      BY <2>2, <2>3 DEF Ends, f
  <1>4. CASE s \in r.publishing
    <2> DEFINE P == r.players[s] \cap Flv
               a == FlvStop(r, P)
               d == Dismiss(a, s)
    <2>1. /\ Consistent(a)
          /\ a.sessions = r.sessions \ P
          /\ a.publishing = r.publishing
          /\ a.players[s] = r.players[s] \ P
      BY FlvStopConsistent
    <2>2. r.players[s] \subseteq r.sessions
      BY DEF Consistent, AudienceExactIn, AudienceOf
    <2>3. a.players[s] \subseteq Rtmp /\ a.players[s] \subseteq a.sessions
      BY <2>1, <2>2 DEF Consistent, Registry
    <2>4. ~a.uncaught /\ s \in a.publishing /\ a \in Registry
      BY <1>4, <2>1 DEF Consistent
    <2>5. Quits(r, a, P)
      BY FlvStopQuits
    <2> HIDE DEF P, a
    <2>6. f = forget(d)
      BY <1>4, <2>2, <2>3, <2>4 DEF ClosePublish, forget, StopFlvPlayers, a, P
    <2>7. /\ Consistent(d) /\ d.sessions = a.sessions
          /\ d.playing \cup d.idling = a.playing \cup a.idling
      BY <2>1, <2>3, <2>4, DismissConsistent
    <2>8. /\ d.publishers = Unregister(a, a.publishStreamPath[s])
          /\ d.playStreamPath = a.playStreamPath
      BY <2>4 DEF Dismiss, Registry
    <2>9. /\ a.publishStreamPath[s] \in Paths
          /\ \A x \in Paths : a.publishers[x] = s <=> x = a.publishStreamPath[s]
      BY <1>2, <2>1, <2>4 DEF Consistent, OwnersAliveIn
    <2>10. d.publishers = [path \in Paths |->
              IF a.publishers[path] = s THEN Nobody ELSE a.publishers[path]]
      BY <2>8, <2>9 DEF Unregister
    <2>11. d \in Registry
      BY <2>7 DEF Consistent
    <2> HIDE DEF d, f
    <2>12. /\ f.sessions = a.sessions /\ f.publishers = d.publishers
           /\ f.playing \cup f.idling = a.playing \cup a.idling
           /\ f.playStreamPath = a.playStreamPath
      BY <1>1, <2>6, <2>7, <2>8, <2>11
    <2>13. WantsIn(f) = WantsIn(a)
      BY <2>12 DEF WantsIn
    <2>14. Releases(r, f, s, {})
      <3>1. a.publishers = r.publishers
        BY <2>5 DEF Quits
      <3>2. \E path \in Paths : r.publishers[path] = s
        BY <2>9, <3>1
      <3>3. WantsIn(f) = [p \in Sessions |-> IF p \in {} \cup (r.players[s] \cap Flv)
                                             THEN NoPath ELSE WantsIn(r)[p]]
        BY <2>5, <2>13 DEF Quits, P
      <3>4. f.sessions \cap r.players[s] \cap Flv = {}
        BY <2>1, <2>12 DEF P
      <3> QED
        BY <2>10, <2>12, <3>1, <3>2, <3>3, <3>4 DEF Releases
    <2>15. f.sessions \subseteq r.sessions
      BY <2>1, <2>12
    <2>16. {} \in SUBSET {s}
      OBVIOUS
    <2> QED
      BY <2>14, <2>15, <2>16 DEF Ends, f
  <1> QED
    BY <1>3, <1>4

\* deleteStream and closeStream.
LEMMA DeleteStreamEnds ==
    ASSUME NEW r, Consistent(r), NEW s \in Rtmp, NEW id
    PROVE  Ends(r, DeleteStream(r, s, id), s)
  <1> DEFINE a == IF id = r.playStreamId[s] THEN ClosePlay(r, s) ELSE r
             f == DeleteStream(r, s, id)
  <1>1. Consistent(a) /\ ~a.uncaught /\ a.sessions = r.sessions
    BY ClosePlayConsistent DEF Consistent
  <1>2. Ends(r, a, s)
    <2>1. CASE id = r.playStreamId[s]
      <3>1. Quits(r, a, {s})
        BY <2>1, ClosePlayQuits
      <3> QED
        BY <1>1, <3>1 DEF Ends
    <2>2. CASE id # r.playStreamId[s]
      <3>1. a = r
        BY <2>2
      <3>2. Quits(r, a, {})
        BY <3>1, SameWants
      <3>3. {} \in SUBSET {s}
        OBVIOUS
      <3> QED
        BY <1>1, <3>2, <3>3 DEF Ends
    <2> QED
      BY <2>1, <2>2
  <1>3. f = IF id = a.publishStreamId[s] THEN ClosePublish(a, s) ELSE a
    BY <1>1 DEF DeleteStream
  <1> HIDE DEF a, f
  <1>4. CASE id = a.publishStreamId[s]
    <2>1. Ends(a, f, s) /\ Consistent(f)
      BY <1>1, <1>3, <1>4, ClosePublishEnds, ClosePublishConsistent
    <2> QED
      BY <1>1, <1>2, <2>1, EndsCompose DEF f
  <1>5. CASE id # a.publishStreamId[s]
    BY <1>2, <1>3, <1>5 DEF f
  <1> QED
    BY <1>4, <1>5

\* stop() of an RTMP session.
LEMMA RtmpStopEnds ==
    ASSUME NEW r, Consistent(r), r.sessions = r.starting, NEW s \in Rtmp
    PROVE  Ends(r, RtmpStop(r, s), s)
  <1> DEFINE a == [r EXCEPT !.starting = @ \ {s}]
             b == IF a.playStreamId[s] > 0
                  THEN DeleteStream(a, s, a.playStreamId[s]) ELSE a
             c == IF ~b.uncaught /\ b.publishStreamId[s] > 0
                  THEN DeleteStream(b, s, b.publishStreamId[s]) ELSE b
             f == RtmpStop(r, s)
  <1>0. ASSUME NEW q PROVE Ends(q, q, s)
    <2>1. Quits(q, q, {}) /\ {} \in SUBSET {s}
      BY SameWants
    <2> QED
      BY <2>1 DEF Ends
  <1>1. CASE s \notin r.starting
    <2>1. f = r
      BY <1>1 DEF RtmpStop
    <2> QED
      BY <1>0, <2>1
  <1>2. CASE s \in r.starting
    <2>1. Consistent(a) /\ Ends(r, a, s)
      <3>1. Consistent(a) /\ a.sessions = r.sessions
        BY StoppingConsistent
      <3>2. /\ a.publishers = r.publishers /\ a.playing = r.playing
            /\ a.idling = r.idling /\ a.playStreamPath = r.playStreamPath
        BY DEF Consistent, Registry
      <3>3. Quits(r, a, {})
        BY <3>1, <3>2, SameWants
      <3>4. {} \in SUBSET {s}
        OBVIOUS
      <3> QED
        BY <3>1, <3>3, <3>4 DEF Ends
    <2> HIDE DEF a
    <2>2. Consistent(b) /\ Ends(a, b, s) /\ s \notin b.playing \cup b.idling
      <3>1. CASE a.playStreamId[s] > 0
        BY <2>1, <3>1, DeleteStreamConsistent, DeleteStreamEnds
      <3>2. CASE ~(a.playStreamId[s] > 0)
        <4>1. s \notin a.playing \cup a.idling
          BY <2>1, <3>2 DEF Consistent, AttachedIn
        <4> QED
          BY <1>0, <2>1, <3>2, <4>1
      <3> QED
        BY <3>1, <3>2
    <2> HIDE DEF b
    <2>3. /\ Consistent(c) /\ ~c.uncaught /\ Ends(b, c, s)
          /\ s \notin c.playing \cup c.idling
      <3>1. ~b.uncaught
        BY <2>2 DEF Consistent
      <3>2. CASE b.publishStreamId[s] > 0
        <4>1. /\ Consistent(c) /\ Ends(b, c, s) /\ Closes(b, c)
          BY <2>2, <3>1, <3>2, DeleteStreamConsistent, DeleteStreamEnds
        <4> QED
          BY <2>2, <4>1 DEF Closes, Consistent
      <3>3. CASE ~(b.publishStreamId[s] > 0)
        BY <1>0, <2>2, <3>1, <3>3
      <3> QED
        BY <3>2, <3>3
    <2> HIDE DEF c
    <2>4. f = DropSession(c, s)
      BY <1>2, <2>3 DEF RtmpStop, c, b, a
    <2>5. Consistent(f) /\ Ends(c, f, s)
      <3>1. c \in Registry
        BY <2>3 DEF Consistent
      <3>2. /\ f.publishers = c.publishers /\ f.playing = c.playing
            /\ f.idling = c.idling /\ f.playStreamPath = c.playStreamPath
            /\ f.sessions = c.sessions \ {s}
        BY <2>4, <3>1 DEF DropSession, Registry
      <3> HIDE DEF f
      <3>3. Quits(c, f, {})
        BY <2>3, <3>2 DEF Quits, WantsIn
      <3>4. {} \in SUBSET {s}
        OBVIOUS
      <3>5. Ends(c, f, s)
        BY <3>2, <3>3, <3>4 DEF Ends
      <3> QED
        BY <1>2, <3>5, RtmpStopConsistent DEF f
    <2> HIDE DEF f
    <2>6. Ends(r, b, s)
      BY <2>1, <2>2, EndsCompose
    <2>7. Ends(r, c, s)
      BY <2>2, <2>3, <2>6, EndsCompose
    <2>8. Ends(r, f, s)
      BY <2>3, <2>5, <2>7, EndsCompose
    <2> QED
      BY <2>8 DEF f
  <1> QED
    BY <1>1, <1>2

-----------------------------------------------------------------------------
(* What the handlers do to it.                                             *)

\* s becomes the owner of a path nobody owns.
Claims(r, f, s, path) ==
    /\ r.publishers[path] = Nobody
    /\ \A x \in Paths : r.publishers[x] # s
    /\ f.publishers = [r.publishers EXCEPT ![path] = s]
    /\ WantsIn(f) = WantsIn(r)

\* p wants a path, and wanted none.
Starts(r, f, p, path) ==
    /\ WantsIn(r)[p] = NoPath
    /\ f.publishers = r.publishers
    /\ WantsIn(f) = [WantsIn(r) EXCEPT ![p] = path]

\* A session that enters wants nothing.
LEMMA EnterQuits ==
    ASSUME NEW r, Consistent(r), NEW s \in r.fresh
    PROVE  Quits(r, Enter(r, s), {})
  <1> DEFINE f == Enter(r, s)
  <1>1. s \notin r.playing \cup r.idling
    BY DEF Consistent, AttachedIn
  <1>2. /\ f.sessions = r.sessions \cup {s} /\ f.publishers = r.publishers
        /\ f.playing = r.playing /\ f.idling = r.idling
        /\ f.playStreamPath = r.playStreamPath
    BY DEF Consistent, Registry, Enter
  <1> HIDE DEF f
  <1>3. Quits(r, f, {})
    BY <1>1, <1>2 DEF Quits, WantsIn
  <1> QED
    BY <1>3 DEF f

\* Naming the path to play is not yet wanting it.
LEMMA NamePathQuits ==
    ASSUME NEW r, Consistent(r), NEW s \in Sessions, NEW path,
           s \notin r.playing \cup r.idling
    PROVE  LET f == [r EXCEPT !.playStreamPath[s] = path]
           IN  Quits(r, f, {})
  <1> DEFINE pp == [r.playStreamPath EXCEPT ![s] = path]
             f == [r EXCEPT !.playStreamPath = pp]
  <1>1. r \in Registry
    BY DEF Consistent
  <1>2. [r EXCEPT !.playStreamPath[s] = path] = f
    BY <1>1 DEF Registry
  <1>3. /\ f.sessions = r.sessions /\ f.publishers = r.publishers
        /\ f.playing = r.playing /\ f.idling = r.idling
        /\ f.playStreamPath = pp
    BY <1>1 DEF Registry
  <1>4. \A x \in Sessions \ {s} : pp[x] = r.playStreamPath[x]
    BY <1>1 DEF Registry
  <1> HIDE DEF f, pp
  <1>5. Quits(r, f, {})
    BY <1>3, <1>4 DEF Quits, WantsIn
  <1> QED
    BY <1>2, <1>5

\* Playing or waiting, it wants the path.
LEMMA JoinOrWaitStarts ==
    ASSUME NEW r, Consistent(r), NEW s \in r.sessions, NEW path \in Paths,
           s \notin r.playing \cup r.idling,
           r.playStreamPath[s] = path
    PROVE  Starts(r, JoinOrWait(r, s, path), s, path)
  <1> DEFINE f == JoinOrWait(r, s, path)
             pub == r.publishers[path]
  <1>1. r \in Registry /\ s \in Sessions
    BY DEF Consistent, Registry
  <1>2. /\ f.sessions = r.sessions /\ f.publishers = r.publishers
        /\ f.playing \cup f.idling = r.playing \cup r.idling \cup {s}
        /\ f.playStreamPath = r.playStreamPath
    <2>1. CASE pub = Nobody
      <3>1. f = [r EXCEPT !.idling = @ \cup {s}, !.idlePlayers = @ \cup {s}]
        BY <2>1 DEF JoinOrWait
      <3> QED
        BY <1>1, <3>1 DEF Registry
    <2>2. CASE pub # Nobody
      <3> DEFINE pl == [r.players EXCEPT ![pub] = @ \cup {s}]
      <3>1. f = [r EXCEPT !.players = pl, !.idling = @ \ {s}, !.playing = @ \cup {s}]
        BY <1>1, <2>2, NotDangling DEF JoinOrWait, StartPlay, Registry
      <3> HIDE DEF pl
      <3> QED
        BY <1>1, <3>1 DEF Registry
    <2> QED
      BY <2>1, <2>2
  <1> HIDE DEF f
  <1>3. Starts(r, f, s, path)
    BY <1>1, <1>2 DEF Starts, WantsIn
  <1> QED
    BY <1>3 DEF f

\* Serving changes who plays and who waits, not who wants what.
LEMMA ServeClaims ==
    ASSUME NEW r, Consistent(r), NEW s \in Rtmp, s \notin r.publishing,
           NEW path \in Paths, r.publishers[path] = Nobody
    PROVE  LET c == [r EXCEPT !.publishers[path] = s,
                              !.publishing = @ \cup {s}]
               f == Serve(c, {p \in c.idlePlayers : c.playStreamPath[p] = path}, s)
           IN  Claims(r, f, s, path)
  <1> DEFINE W == {p \in r.idlePlayers : r.playStreamPath[p] = path}
             pubs == [r.publishers EXCEPT ![path] = s]
             pl == [r.players EXCEPT ![s] = @ \cup W]
             c == [r EXCEPT !.publishers[path] = s, !.publishing = @ \cup {s}]
             f == [r EXCEPT !.publishers = pubs, !.publishing = @ \cup {s},
                            !.players = pl, !.idling = @ \ W,
                            !.playing = @ \cup W, !.idlePlayers = @ \ W]
  <1>1. r \in Registry /\ s # Nobody
    BY RegistryAssumption DEF Consistent
  <1>2. Serve(c, {p \in c.idlePlayers : c.playStreamPath[p] = path}, s) = f
    <2>1. {p \in c.idlePlayers : c.playStreamPath[p] = path} = W
      BY <1>1 DEF Registry
    <2>2. Serve(c, W, s) = f
      BY <1>1 DEF Serve, StartPlay, Registry
    <2> QED
      BY <2>1, <2>2
  <1>3. /\ f.sessions = r.sessions /\ f.publishers = pubs
        /\ f.playing = r.playing \cup W /\ f.idling = r.idling \ W
        /\ f.playStreamPath = r.playStreamPath
    BY <1>1 DEF Registry
  <1>4. W \subseteq r.idling
    BY DEF Consistent, IdleExactIn
  <1>5. \A x \in Paths : r.publishers[x] # s
    BY <1>1 DEF Consistent, OwnersAliveIn
  <1> HIDE DEF f, W, pl
  <1>6. WantsIn(f) = WantsIn(r)
    BY <1>3, <1>4 DEF WantsIn
  <1>7. Claims(r, f, s, path)
    BY <1>3, <1>5, <1>6 DEF Claims
  <1> QED
    BY <1>2, <1>7

\* onPublish: the path is claimed, or a rejected session is stopped.
LEMMA OnPublishStep ==
    ASSUME NEW r, Consistent(r), r.sessions = r.starting, NEW s \in Rtmp,
           NEW path \in Paths, NEW id \in StreamIds, NEW verdict,
           id > 0, s \notin r.publishing
    PROVE  LET f == OnPublish(r, s, path, id, verdict)
           IN  Ends(r, f, s) \/ Claims(r, f, s, path)
  <1> DEFINE a0 == [r EXCEPT !.publishStreamPath[s] = path,
                             !.publishStreamId[s] = id]
             n == [r EXCEPT !.publishStreamPath[s] = path]
             a == [n EXCEPT !.publishStreamId[s] = id]
             b == IF verdict = "reject" THEN RtmpStop(a, s) ELSE a
             reg(q) == [q EXCEPT !.publishers[path] = s, !.publishing = @ \cup {s}]
             wait(q) == {p \in q.idlePlayers : q.playStreamPath[p] = path}
             f == OnPublish(r, s, path, id, verdict)
  <1>1. /\ Consistent(n) /\ n.sessions = n.starting /\ s \notin n.publishing
        /\ n.sessions = r.sessions
    BY NamePublishPathConsistent
  <1>2. /\ n.publishers = r.publishers /\ n.playing = r.playing
        /\ n.idling = r.idling /\ n.playStreamPath = r.playStreamPath
    BY DEF Consistent, Registry
  <1>3. a0 = a
    BY DEF a
  <1> HIDE DEF n
  <1>4. /\ Consistent(a) /\ a.sessions = a.starting /\ s \notin a.publishing
        /\ a.sessions = n.sessions
    BY <1>1, NamePublishStreamConsistent
  <1>5. /\ a.publishers = n.publishers /\ a.playing = n.playing
        /\ a.idling = n.idling /\ a.playStreamPath = n.playStreamPath
    BY <1>1 DEF Consistent, Registry
  <1> HIDE DEF a
  <1>6. Quits(r, a, {}) /\ WantsIn(a) = WantsIn(r) /\ Ends(r, a, s)
    <2>1. Quits(r, a, {}) /\ a.sessions = r.sessions
      BY <1>1, <1>2, <1>4, <1>5, SameWants
    <2>2. {} \in SUBSET {s}
      OBVIOUS
    <2>3. Ends(r, a, s)
      BY <2>1, <2>2 DEF Ends
    <2>4. WantsIn(a) = WantsIn(r)
      BY <1>1, <1>2, <1>4, <1>5 DEF WantsIn
    <2> QED
      BY <2>1, <2>3, <2>4
  <1>7. /\ Consistent(b) /\ Ends(a, b, s)
        /\ s \in b.starting => b = a
    <2>1. CASE verdict = "reject"
      BY <1>4, <2>1, RtmpStopConsistent, RtmpStopEnds
    <2>2. CASE verdict # "reject"
      <3>1. b = a
        BY <2>2
      <3>2. Quits(a, a, {}) /\ {} \in SUBSET {s}
        BY SameWants
      <3>3. Ends(a, a, s)
        BY <3>2 DEF Ends
      <3> QED
        BY <1>4, <3>1, <3>3
    <2> QED
      BY <2>1, <2>2
  <1>8. f = IF Refused(b, s, path, verdict) THEN b
            ELSE IF ~(b.idlePlayers \subseteq b.sessions) THEN Throw(reg(b))
            ELSE Serve(reg(b), wait(reg(b)), s)
    <2> DEFINE b0 == IF verdict = "reject" THEN RtmpStop(a0, s) ELSE a0
    <2>1. f = IF Refused(b0, s, path, verdict) THEN b0
              ELSE IF ~(b0.idlePlayers \subseteq b0.sessions) THEN Throw(reg(b0))
              ELSE Serve(reg(b0), wait(reg(b0)), s)
      BY Zenon DEF OnPublish
    <2> HIDE DEF a0
    <2>2. b0 = b
      BY <1>3
    <2> HIDE DEF b0, b, f, reg, wait
    <2> QED
      BY <2>1, <2>2
  <1> HIDE DEF b, f
  <1>9. CASE Refused(b, s, path, verdict)
    <2>1. f = b
      BY <1>8, <1>9
    <2>2. Ends(r, b, s)
      BY <1>4, <1>6, <1>7, EndsCompose
    <2> QED
      BY <2>1, <2>2 DEF f
  <1>10. CASE ~Refused(b, s, path, verdict)
    <2>1. s \in b.starting /\ b.publishers[path] = Nobody
      BY <1>10 DEF Refused
    <2>2. b = a
      BY <1>7, <2>1
    <2>3. b.idlePlayers \subseteq b.sessions
      BY <1>7 DEF Consistent, IdleExactIn
    <2>4. f = Serve(reg(b), wait(reg(b)), s)
      BY <1>8, <1>10, <2>3
    <2>5. Claims(b, f, s, path)
      BY <1>4, <2>1, <2>2, <2>4, ServeClaims
    <2>6. Claims(r, f, s, path)
      BY <1>6, <2>2, <2>5 DEF Claims, Quits
    <2> QED
      BY <2>6 DEF f
  <1> QED
    BY <1>9, <1>10

\* onPlay: the path is wanted, or a rejected session is stopped.
LEMMA OnPlayStep ==
    ASSUME NEW r, Consistent(r), r.sessions = r.starting, NEW s \in Rtmp,
           NEW path \in Paths, NEW id \in StreamIds, NEW verdict,
           id > 0, s \notin r.playing \cup r.idling
    PROVE  LET f == OnPlay(r, s, path, id, verdict)
           IN  Ends(r, f, s) \/ Starts(r, f, s, path)
  <1> DEFINE a0 == [r EXCEPT !.playStreamPath[s] = path, !.playStreamId[s] = id]
             n == [r EXCEPT !.playStreamPath[s] = path]
             a == [n EXCEPT !.playStreamId[s] = id]
             b == IF verdict = "reject" THEN RtmpStop(a, s) ELSE a
             f == OnPlay(r, s, path, id, verdict)
  <1>1. /\ Consistent(n) /\ n.sessions = n.starting /\ n.sessions = r.sessions
        /\ s \notin n.playing \cup n.idling
        /\ n.playStreamPath[s] = path
    BY NamePathConsistent
  <1>2. Quits(r, n, {})
    BY NamePathQuits
  <1>3. a0 = a
    BY DEF a
  <1> HIDE DEF n
  <1>4. /\ Consistent(a) /\ a.sessions = a.starting /\ a.sessions = n.sessions
        /\ s \notin a.playing \cup a.idling
        /\ a.playing = n.playing /\ a.idling = n.idling
        /\ a.playStreamPath = n.playStreamPath
    <2>1. /\ Consistent(a) /\ a.sessions = n.sessions /\ a.starting = n.starting
          /\ a.playing = n.playing /\ a.idling = n.idling
          /\ a.playStreamPath = n.playStreamPath
      BY <1>1, NamePlayStreamConsistent
    <2> HIDE DEF a
    <2> QED
      BY <1>1, <2>1
  <1>5. a.publishers = n.publishers
    BY <1>1 DEF Consistent, Registry
  <1> HIDE DEF a
  <1>6. Quits(r, a, {}) /\ WantsIn(a) = WantsIn(r) /\ Ends(r, a, s)
    <2>1. WantsIn(a) = WantsIn(n)
      BY <1>4 DEF WantsIn
    <2>2. Quits(r, a, {}) /\ {} \in SUBSET {s}
      BY <1>2, <1>5, <2>1 DEF Quits
    <2>3. Ends(r, a, s)
      BY <1>1, <1>4, <2>2 DEF Ends
    <2>4. WantsIn(a) = WantsIn(r)
      BY <2>2 DEF Quits, WantsIn
    <2> QED
      BY <2>2, <2>3, <2>4
  <1>7. /\ Consistent(b) /\ b.sessions = b.starting /\ Ends(a, b, s)
        /\ s \in b.starting => b = a
    <2>1. CASE verdict = "reject"
      BY <1>4, <2>1, RtmpStopConsistent, RtmpStopEnds
    <2>2. CASE verdict # "reject"
      <3>1. b = a
        BY <2>2
      <3>2. Quits(a, a, {}) /\ {} \in SUBSET {s}
        BY SameWants
      <3>3. Ends(a, a, s)
        BY <3>2 DEF Ends
      <3> QED
        BY <1>4, <3>1, <3>3
    <2> QED
      BY <2>1, <2>2
  <1>8. f = IF b.uncaught \/ s \notin b.starting \/ verdict = "denied" THEN b
            ELSE JoinOrWait(b, s, path)
    <2> DEFINE b0 == IF verdict = "reject" THEN RtmpStop(a0, s) ELSE a0
    <2>1. f = IF b0.uncaught \/ s \notin b0.starting \/ verdict = "denied" THEN b0
              ELSE JoinOrWait(b0, s, path)
      BY Zenon DEF OnPlay
    <2> HIDE DEF a0
    <2>2. b0 = b
      BY <1>3
    <2> HIDE DEF b0, b, f
    <2> QED
      BY <2>1, <2>2
  <1> HIDE DEF b, f
  <1>9. CASE b.uncaught \/ s \notin b.starting \/ verdict = "denied"
    <2>1. f = b
      BY <1>8, <1>9
    <2>2. Ends(r, b, s)
      BY <1>4, <1>6, <1>7, EndsCompose
    <2> QED
      BY <2>1, <2>2 DEF f
  <1>10. CASE ~(b.uncaught \/ s \notin b.starting \/ verdict = "denied")
    <2>1. /\ b = a /\ s \in b.sessions /\ f = JoinOrWait(b, s, path)
          /\ s \notin b.playing \cup b.idling /\ b.playStreamPath[s] = path
      BY <1>1, <1>4, <1>7, <1>8, <1>10
    <2>2. Starts(b, f, s, path)
      BY <1>7, <2>1, JoinOrWaitStarts
    <2>3. Starts(r, f, s, path)
      BY <1>6, <2>1, <2>2 DEF Starts, Quits
    <2> QED
      BY <2>3 DEF f
  <1> QED
    BY <1>9, <1>10

\* A request: the path is wanted, or the session leaves again.
LEMMA OnRequestStep ==
    ASSUME NEW r, Consistent(r), r.sessions = r.starting,
           NEW s \in Flv \cap r.fresh, NEW path \in Paths,
           NEW verdict \in Verdicts \cup {"refused"}
    PROVE  LET f == OnRequest(r, s, path, verdict)
           IN  Quits(r, f, {}) \/ Quits(r, f, {s}) \/ Starts(r, f, s, path)
  <1> DEFINE a == Enter(r, s)
             b == [a EXCEPT !.playStreamPath[s] = path]
             f == OnRequest(r, s, path, verdict)
  <1>1. /\ Consistent(a) /\ s \in a.sessions
        /\ s \notin a.playing \cup a.idling
    BY EnterConsistent
  <1>2. Quits(r, a, {})
    BY EnterQuits
  <1>3. f = CASE verdict = "refused" -> FlvStop(a, {s})
              [] verdict = "reject"  -> FlvStop(b, {s})
              [] verdict = "denied"  -> b
              [] verdict = "ok"      -> JoinOrWait(b, s, path)
    BY DEF OnRequest, Enter
  <1> HIDE DEF a, f
  <1>4. /\ Consistent(b) /\ b.sessions = a.sessions
        /\ s \notin b.playing \cup b.idling /\ b.playStreamPath[s] = path
    BY <1>1, NamePathConsistent
  <1>5. Quits(a, b, {})
    BY <1>1, NamePathQuits
  <1> HIDE DEF b
  <1>6. Quits(r, b, {})
    BY <1>2, <1>5 DEF Quits
  <1>7. {s} \subseteq Flv
    OBVIOUS
  <1>8. CASE verdict = "refused"
    <2>1. Quits(a, f, {s})
      BY <1>1, <1>3, <1>7, <1>8, FlvStopQuits
    <2>2. Quits(r, f, {s})
      BY <1>2, <2>1 DEF Quits
    <2> QED
      BY <2>2 DEF f
  <1>9. CASE verdict = "reject"
    <2>1. Quits(b, f, {s})
      BY <1>4, <1>3, <1>7, <1>9, FlvStopQuits
    <2>2. Quits(r, f, {s})
      BY <1>6, <2>1 DEF Quits
    <2> QED
      BY <2>2 DEF f
  <1>10. CASE verdict = "denied"
    BY <1>3, <1>6, <1>10 DEF f
  <1>11. CASE verdict = "ok"
    <2>1. Starts(b, f, s, path)
      BY <1>1, <1>3, <1>4, <1>11, JoinOrWaitStarts
    <2>2. WantsIn(b) = WantsIn(r)
      BY <1>6 DEF Quits, WantsIn
    <2>3. Starts(r, f, s, path)
      BY <1>6, <2>1, <2>2 DEF Starts, Quits
    <2> QED
      BY <2>3 DEF f
  <1> QED
    BY <1>8, <1>9, <1>10, <1>11 DEF Verdicts

-----------------------------------------------------------------------------
(* The theorems.                                                           *)

\* All that a callback may do to who owns and wants which path.
Moves(r, f) ==
    \/ Quits(r, f, {})
    \/ \E p \in Sessions : Quits(r, f, {p})
    \/ \E s \in Rtmp : Ends(r, f, s)
    \/ \E p \in Sessions, path \in Paths : Starts(r, f, p, path)
    \/ \E s \in Rtmp, path \in Paths : Claims(r, f, s, path)

\* Every step of the server is one of these moves.
LEMMA StepMoves == RegistryInv /\ [Next]_vars => Moves(ctx, ctx')
  <1> SUFFICES ASSUME RegistryInv, [Next]_vars PROVE Moves(ctx, ctx')
    OBVIOUS
  <1>1. /\ Consistent(ctx) /\ ctx.sessions = ctx.starting
        /\ ctx.fresh = fresh /\ ctx.publishing = publishing
        /\ ctx.playing = playing /\ ctx.idling = idling
    BY DEF RegistryInv, ctx
  <1>2. ASSUME NEW r, Becomes(r), Consistent(r) PROVE ctx' = r
    BY <1>2, BecomesCtx DEF Consistent
  <1>3. ASSUME NEW s \in Sessions
        PROVE  LET e == [ctx EXCEPT !.open = @ \ {s}]
               IN  /\ Consistent(e) /\ e.sessions = e.starting
                   /\ \A f : Quits(e, f, {s}) => Quits(ctx, f, {s})
                   /\ s \in Rtmp => Ends(ctx, e, s)
    <2> DEFINE e == [ctx EXCEPT !.open = @ \ {s}]
    <2>1. Consistent(e) /\ e.sessions = ctx.sessions /\ e.starting = ctx.starting
      BY <1>1, EndConsistent
    <2>2. /\ e.publishers = ctx.publishers /\ e.playing = ctx.playing
          /\ e.idling = ctx.idling /\ e.playStreamPath = ctx.playStreamPath
      BY DEF ctx
    <2> HIDE DEF e
    <2>3. Quits(ctx, e, {}) /\ {} \in SUBSET {s}
      BY <2>1, <2>2, SameWants
    <2>4. Ends(ctx, e, s)
      BY <2>1, <2>3 DEF Ends
    <2>5. \A f : Quits(e, f, {s}) => Quits(ctx, f, {s})
      BY <2>3 DEF Quits
    <2> QED
      BY <1>1, <2>1, <2>4, <2>5 DEF e
  <1>4. ASSUME NEW s \in Rtmp, Accept(s) PROVE Moves(ctx, ctx')
    <2>1. s \in ctx.fresh /\ Becomes(Enter(ctx, s))
      BY <1>1, <1>4 DEF Accept, Enter
    <2>2. ctx' = Enter(ctx, s)
      BY <1>1, <1>2, <2>1, EnterConsistent
    <2> QED
      BY <1>1, <2>1, <2>2, EnterQuits DEF Moves
  <1>5. ASSUME NEW s \in Rtmp, NEW path \in Paths, NEW id \in StreamIds,
               NEW v \in Verdicts, MayPublish(s, id), Publish(s, path, id, v)
        PROVE  Moves(ctx, ctx')
    <2>1. /\ Becomes(OnPublish(ctx, s, path, id, v))
          /\ id > 0 /\ s \notin ctx.publishing
      BY <1>1, <1>5 DEF Publish, MayPublish
    <2>2. ctx' = OnPublish(ctx, s, path, id, v)
      BY <1>1, <1>2, <2>1, OnPublishConsistent
    <2> QED
      BY <1>1, <2>1, <2>2, OnPublishStep DEF Moves
  <1>6. ASSUME NEW s \in Rtmp, NEW path \in Paths, NEW id \in StreamIds,
               NEW v \in Verdicts, MayPlay(s, id), Play(s, path, id, v)
        PROVE  Moves(ctx, ctx')
    <2>1. /\ Becomes(OnPlay(ctx, s, path, id, v))
          /\ id > 0 /\ s \notin ctx.playing \cup ctx.idling
      BY <1>1, <1>6 DEF Play, MayPlay
    <2>2. ctx' = OnPlay(ctx, s, path, id, v)
      BY <1>1, <1>2, <2>1, OnPlayConsistent
    <2> QED
      BY <1>1, <2>1, <2>2, OnPlayStep DEF Moves
  <1>7. ASSUME NEW s \in Rtmp, NEW id \in StreamIds, CloseStream(s, id)
        PROVE  Moves(ctx, ctx')
    <2>1. Becomes(DeleteStream(ctx, s, id))
      BY <1>7 DEF CloseStream
    <2>2. ctx' = DeleteStream(ctx, s, id)
      BY <1>1, <1>2, <2>1, DeleteStreamConsistent
    <2> QED
      BY <1>1, <2>2, DeleteStreamEnds DEF Moves
  <1>8. ASSUME NEW s \in Rtmp, SocketEnd(s) PROVE Moves(ctx, ctx')
    <2> DEFINE e == [ctx EXCEPT !.open = @ \ {s}]
    <2>1. Becomes(RtmpStop(e, s))
      BY <1>8 DEF SocketEnd
    <2>2. Consistent(e) /\ e.sessions = e.starting /\ Ends(ctx, e, s)
      BY <1>3
    <2> HIDE DEF e
    <2>3. Consistent(RtmpStop(e, s)) /\ Ends(e, RtmpStop(e, s), s)
      BY <2>2, RtmpStopConsistent, RtmpStopEnds
    <2>4. ctx' = RtmpStop(e, s)
      BY <1>2, <2>1, <2>3
    <2>5. Ends(ctx, ctx', s)
      BY <1>1, <2>2, <2>3, <2>4, EndsCompose
    <2> QED
      BY <2>5 DEF Moves
  <1>9. ASSUME NEW s \in Flv, NEW path \in Paths,
               NEW v \in Verdicts \cup {"refused"}, Request(s, path, v)
        PROVE  Moves(ctx, ctx')
    <2>1. s \in Flv \cap ctx.fresh /\ Becomes(OnRequest(ctx, s, path, v))
      BY <1>1, <1>9 DEF Request
    <2>2. ctx' = OnRequest(ctx, s, path, v)
      BY <1>1, <1>2, <2>1, OnRequestConsistent
    <2> QED
      BY <1>1, <2>1, <2>2, OnRequestStep DEF Moves
  <1>10. ASSUME NEW s \in Flv, RequestEnd(s) PROVE Moves(ctx, ctx')
    <2> DEFINE e == [ctx EXCEPT !.open = @ \ {s}]
               f == FlvStop(e, {s})
    <2>1. Becomes(f)
      BY <1>10 DEF RequestEnd
    <2>2. Consistent(e) /\ \A q : Quits(e, q, {s}) => Quits(ctx, q, {s})
      BY <1>3
    <2> HIDE DEF e
    <2>3. {s} \subseteq Flv
      OBVIOUS
    <2>4. Consistent(f) /\ Quits(e, f, {s})
      BY <2>2, <2>3, FlvStopConsistent, FlvStopQuits
    <2> HIDE DEF f
    <2>5. ctx' = f
      BY <1>2, <2>1, <2>4
    <2> QED
      BY <2>2, <2>4, <2>5 DEF Moves
  <1>11. CASE UNCHANGED vars
    <2>1. ctx' = ctx
      BY <1>11 DEF vars, ctx
    <2>2. Quits(ctx, ctx, {})
      BY SameWants
    <2> QED
      BY <2>1, <2>2 DEF Moves
  <1> QED
    BY <1>4, <1>5, <1>6, <1>7, <1>8, <1>9, <1>10, <1>11
       DEF Next, Other, OrderlyPublish, OrderlyPlay

\* The variables of the broker are those of ctx, and audiences are settled.
LEMMA BrokerState ==
    ASSUME RegistryInv
    PROVE  /\ publishers = ctx.publishers
           /\ Wants = WantsIn(ctx)
           /\ players = [s \in Rtmp |-> Broker!AudienceOf(publishers, Wants, s)]
  <1>1. Consistent(ctx) /\ ctx.publishers = publishers /\ ctx.players = players
    BY DEF RegistryInv, ctx
  <1>2. Wants = WantsIn(ctx)
    BY DEF Wants, WantsIn, ctx
  <1>3. players \in [Rtmp -> SUBSET Sessions]
    BY <1>1 DEF Consistent, Registry
  <1>4. \A s \in Rtmp : players[s] = Broker!AudienceOf(publishers, Wants, s)
    BY <1>1, <1>2, AudienceIsWhoWants DEF Broker!AudienceOf
  <1> QED
    BY <1>1, <1>2, <1>3, <1>4

\* Every move of the registry is a step of the broker, or changes nothing in it.
LEMMA MovesRefine ==
    ASSUME RegistryInv, RegistryInv', Moves(ctx, ctx')
    PROVE  [Broker!Next]_(Broker!bvars)
  <1>1. /\ publishers = ctx.publishers /\ Wants = WantsIn(ctx)
        /\ players = [s \in Rtmp |-> Broker!AudienceOf(publishers, Wants, s)]
        /\ players = ctx.players
    BY BrokerState DEF ctx
  <1>2. /\ publishers' = ctx'.publishers /\ Wants' = WantsIn(ctx')
        /\ players' = [s \in Rtmp |-> Broker!AudienceOf(publishers', Wants', s)]
    <2>1. (/\ publishers = ctx.publishers /\ Wants = WantsIn(ctx)
           /\ players = [s \in Rtmp |-> Broker!AudienceOf(publishers, Wants, s)])'
      BY BrokerState, PTL
    <2> QED
      BY <2>1
  <1>3. Broker!Settle
    BY <1>2 DEF Broker!Settle
  <1>4. ASSUME Quits(ctx, ctx', {}) PROVE UNCHANGED Broker!bvars
    <2>1. publishers' = publishers
      BY <1>1, <1>2, <1>4 DEF Quits
    <2>2. Wants' = Wants
      BY <1>1, <1>2, <1>4 DEF Quits, WantsIn
    <2> QED
      BY <1>1, <1>2, <2>1, <2>2 DEF Broker!bvars
  <1>5. ASSUME NEW p \in Sessions, Quits(ctx, ctx', {p}) PROVE Broker!GiveUp(p)
    <2>1. publishers' = publishers
      BY <1>1, <1>2, <1>5 DEF Quits
    <2>2. Wants' = [Wants EXCEPT ![p] = NoPath]
      BY <1>1, <1>2, <1>5 DEF Quits, WantsIn
    <2> QED
      BY <1>3, <2>1, <2>2 DEF Broker!GiveUp
  <1>6. ASSUME NEW s \in Rtmp, NEW L, Releases(ctx, ctx', s, L)
        PROVE  Broker!Release(s, L)
    <2>1. Broker!Owners(s) # {}
      BY <1>1, <1>6 DEF Releases, Broker!Owners
    <2>2. publishers' = [path \in Paths |->
                           IF publishers[path] = s THEN Nobody ELSE publishers[path]]
      BY <1>1, <1>2, <1>6 DEF Releases
    <2>3. Wants' = [p \in Rtmp \cup Flv |->
                      IF p \in L \cup (players[s] \cap Flv) THEN NoPath ELSE Wants[p]]
      BY <1>1, <1>2, <1>6 DEF Releases
    <2> QED
      BY <1>3, <2>1, <2>2, <2>3 DEF Broker!Release
  <1>7. ASSUME NEW s \in Rtmp, Ends(ctx, ctx', s)
        PROVE  [Broker!Next]_(Broker!bvars)
    <2>1. PICK L \in SUBSET {s} : Quits(ctx, ctx', L) \/ Releases(ctx, ctx', s, L)
      BY <1>7 DEF Ends
    <2>2. L = {} \/ L = {s}
      OBVIOUS
    <2>3. CASE Quits(ctx, ctx', L)
      BY <1>4, <1>5, <2>2, <2>3 DEF Broker!Next
    <2>4. CASE Releases(ctx, ctx', s, L)
      BY <1>6, <2>2, <2>4 DEF Broker!Next
    <2> QED
      BY <2>1, <2>3, <2>4
  <1>8. ASSUME NEW p \in Sessions, NEW path \in Paths, Starts(ctx, ctx', p, path)
        PROVE  Broker!Want(p, path)
    BY <1>1, <1>2, <1>3, <1>8 DEF Starts, Broker!Want
  <1>9. ASSUME NEW s \in Rtmp, NEW path \in Paths, Claims(ctx, ctx', s, path)
        PROVE  Broker!Claim(s, path)
    BY <1>1, <1>2, <1>3, <1>9 DEF Claims, Broker!Claim, Broker!Owners
  <1> QED
    BY <1>4, <1>5, <1>7, <1>8, <1>9 DEF Moves, Broker!Next

\* The registry starts as the broker does.
LEMMA InitRefines == Init => Broker!Init
  <1> SUFFICES ASSUME Init PROVE Broker!Init
    OBVIOUS
  <1>1. Wants = [p \in Rtmp \cup Flv |-> NoPath]
    BY DEF Init, Wants
  <1> QED
    BY <1>1 DEF Init, Broker!Init

\* For any number of sessions, paths and streams the registry implements the
\* broker: every callback is one of its steps, or none.
THEOREM RegistryImplementsBroker == Spec => ImplementsBroker
  <1>1. RegistryInv /\ RegistryInv' /\ [Next]_vars => [Broker!Next]_(Broker!bvars)
    BY StepMoves, MovesRefine
  <1> QED
    BY <1>1, InitRefines, RegistryAlwaysConsistent, PTL
       DEF Spec, ImplementsBroker, Broker!Spec

\* When a stream ends, whoever played it over RTMP waits for it and whoever
\* played it over HTTP has been disconnected.
THEOREM AudienceAlwaysReleased == Spec => AudienceReleased
  <1> DEFINE Released ==
        \A path \in Paths :
           publishers[path] # Nobody /\ publishers'[path] = Nobody =>
             \A p \in players[publishers[path]] \ {publishers[path]} :
                IF p \in Rtmp
                THEN p \in idlePlayers' /\ playStreamPath'[p] = path
                ELSE p \notin sessions'
  <1>1. RegistryInv /\ RegistryInv' /\ [Next]_vars => Released
    <2> SUFFICES ASSUME RegistryInv, RegistryInv', [Next]_vars,
                        NEW path \in Paths, publishers[path] # Nobody,
                        publishers'[path] = Nobody,
                        NEW p \in players[publishers[path]] \ {publishers[path]}
                 PROVE  IF p \in Rtmp
                        THEN p \in idlePlayers' /\ playStreamPath'[p] = path
                        ELSE p \notin sessions'
      OBVIOUS
    <2> DEFINE s == publishers[path]
    <2>1. /\ Consistent(ctx) /\ ctx.publishers = publishers /\ ctx.players = players
          /\ ctx.sessions = sessions
      BY DEF RegistryInv, ctx
    <2>2. /\ Consistent(ctx') /\ ctx'.publishers = publishers'
          /\ ctx'.sessions = sessions' /\ ctx'.idlePlayers = idlePlayers'
          /\ ctx'.playStreamPath = playStreamPath'
      BY DEF RegistryInv, ctx
    <2>3. s \in Rtmp /\ p \in Sessions
      BY <2>1 DEF Consistent, Registry
    <2>4. PICK L \in SUBSET {s} : Releases(ctx, ctx', s, L)
      <3>1. Moves(ctx, ctx')
        BY StepMoves
      <3>2. ~Quits(ctx, ctx', {}) /\ \A x : ~Quits(ctx, ctx', {x})
        BY <2>1, <2>2 DEF Quits
      <3>3. \A x, y : ~Starts(ctx, ctx', x, y)
        BY <2>1, <2>2 DEF Starts
      <3>4. \A x \in Rtmp, y \in Paths : ~Claims(ctx, ctx', x, y)
        <4>1. \A x \in Rtmp : x # Nobody
          BY RegistryAssumption
        <4> QED
          BY <2>1, <2>2, <4>1 DEF Claims, Consistent, Registry
      <3>5. PICK x \in Rtmp : Ends(ctx, ctx', x)
        BY <3>1, <3>2, <3>3, <3>4 DEF Moves
      <3>6. PICK L \in SUBSET {x} : Quits(ctx, ctx', L) \/ Releases(ctx, ctx', x, L)
        BY <3>5 DEF Ends
      <3>7. ~Quits(ctx, ctx', L)
        BY <2>1, <2>2 DEF Quits
      <3>8. Releases(ctx, ctx', x, L)
        BY <3>6, <3>7
      <3>9. x = s
        BY <2>1, <2>2, <3>8 DEF Releases
      <3> QED
        BY <3>6, <3>8, <3>9
    <2>5. WantsIn(ctx)[p] = path
      <3>1. WantsIn(ctx)[p] \in Paths /\ publishers[WantsIn(ctx)[p]] = s
        BY <2>1, <2>3, AudienceIsWhoWants
      <3>2. \A x \in Paths : publishers[x] = s => x = path
        BY <2>1 DEF Consistent, OwnersAliveIn
      <3> QED
        BY <3>1, <3>2
    <2>6. CASE p \in Rtmp
      <3>1. p \notin Flv /\ p \notin L /\ path # NoPath
        BY <2>6, RegistryAssumption
      <3>2. WantsIn(ctx')[p] = path
        BY <2>3, <2>4, <2>5, <3>1 DEF Releases
      <3>3. /\ p \in sessions' /\ p \in ctx'.playing \cup ctx'.idling
            /\ playStreamPath'[p] = path
        BY <2>2, <2>3, <3>1, <3>2 DEF WantsIn
      <3>4. p \notin ctx'.playing
        BY <2>2, <3>3 DEF Consistent, AttachedIn
      <3>5. p \in idlePlayers'
        BY <2>2, <3>3, <3>4 DEF Consistent, IdleExactIn
      <3> QED
        BY <2>6, <3>3, <3>5
    <2>7. CASE p \notin Rtmp
      <3>1. p \in Flv /\ p \in ctx.players[s]
        BY <2>1, <2>3, <2>7
      <3> QED
        BY <2>2, <2>4, <2>7, <3>1 DEF Releases
    <2> QED
      BY <2>6, <2>7
  <1>2. Spec => [][Released]_vars
    BY <1>1, RegistryAlwaysConsistent, PTL DEF Spec
  <1> QED
    BY <1>2 DEF AudienceReleased

-----------------------------------------------------------------------------
(***************************************************************************)
(* Proofs about StreamRegistry for clients that send anything (AnySpec):   *)
(* what is left when audiences and owners may be wrong is that every field *)
(* has its type, and that the map holds the sessions that were not         *)
(* stopped.  Nothing is assumed of the registry a method is called on, but *)
(* its type.                                                               *)
(***************************************************************************)

\* A method that closes: it may free a name or stop a session, never the
\* reverse.
Frees(r, f) ==
    /\ f \in Registry
    /\ \A path \in Paths : f.publishers[path] \in {r.publishers[path], Nobody}
    /\ f.starting \subseteq r.starting

-----------------------------------------------------------------------------
(* The methods that close.                                                 *)

\* Closing twice is closing.
LEMMA FreesCompose ==
    ASSUME NEW r, NEW q, NEW f, Frees(r, q), Frees(q, f)
    PROVE  Frees(r, f)
  BY DEF Frees

\* A TypeError leaves the registry as it was.
LEMMA ThrowFrees ==
    ASSUME NEW r \in Registry
    PROVE  Frees(r, Throw(r)) /\ Throw(r).uncaught
  BY DEF Frees, Throw, Registry

\* NodeFlvSession.stop() of some sessions.
LEMMA FlvStopFrees ==
    ASSUME NEW r \in Registry, NEW P
    PROVE  Frees(r, FlvStop(r, P))
  <1> DEFINE L == P \cap r.starting
             f == [r EXCEPT !.starting = @ \ L, !.players = Leave(r, L),
                            !.idlePlayers = @ \ L, !.sessions = @ \ L]
  <1>1. FlvStop(r, P) = Throw(r) \/ FlvStop(r, P) = f
    BY DEF FlvStop
  <1>2. Leave(r, L) \in [Rtmp -> SUBSET Sessions]
    BY LeaveType
  <1>3. /\ r.starting \ L \in SUBSET Sessions
        /\ r.idlePlayers \ L \in SUBSET Sessions
        /\ r.sessions \ L \in SUBSET Sessions
    BY DEF Registry
  <1> HIDE DEF L
  <1>4. f \in Registry
    BY <1>2, <1>3 DEF Registry
  <1>5. f.publishers = r.publishers /\ f.starting \subseteq r.starting
    BY DEF Registry
  <1>6. Frees(r, f)
    BY <1>4, <1>5 DEF Frees
  <1> QED
    BY <1>1, <1>6, ThrowFrees

\* First half of onDeleteStream.
LEMMA ClosePlayFrees ==
    ASSUME NEW r \in Registry, NEW s \in Rtmp
    PROVE  Frees(r, ClosePlay(r, s))
  <1> DEFINE id == [r.playStreamId EXCEPT ![s] = 0]
             path == [r.playStreamPath EXCEPT ![s] = NoPath]
             wait == [r EXCEPT !.idlePlayers = @ \ {s}, !.idling = @ \ {s},
                               !.playStreamId = id, !.playStreamPath = path]
             play == [r EXCEPT !.players = Leave(r, {s}), !.playing = @ \ {s},
                               !.playStreamId = id, !.playStreamPath = path]
  <1>1. ClosePlay(r, s) \in {wait, play, Throw(r)}
    BY DEF ClosePlay, Registry
  <1>2. /\ id \in [Rtmp -> StreamIds \cup {0}]
        /\ path \in [Sessions -> Paths \cup {NoPath}]
        /\ r.idlePlayers \ {s} \in SUBSET Sessions
        /\ r.idling \ {s} \in SUBSET Sessions
        /\ r.playing \ {s} \in SUBSET Sessions
    BY DEF Registry
  <1>3. Leave(r, {s}) \in [Rtmp -> SUBSET Sessions]
    BY LeaveType
  <1> HIDE DEF id, path
  <1>4. wait \in Registry /\ play \in Registry
    BY <1>2, <1>3 DEF Registry
  <1>5. /\ wait.publishers = r.publishers /\ wait.starting = r.starting
        /\ play.publishers = r.publishers /\ play.starting = r.starting
    BY DEF Registry
  <1>6. Frees(r, wait) /\ Frees(r, play)
    BY <1>4, <1>5 DEF Frees
  <1> QED
    BY <1>1, <1>6, ThrowFrees

\* Second half of onDeleteStream.
LEMMA ClosePublishFrees ==
    ASSUME NEW r \in Registry, NEW s \in Rtmp
    PROVE  Frees(r, ClosePublish(r, s))
  <1> DEFINE forget(q) == [q EXCEPT !.publishStreamId[s] = 0,
                                    !.publishStreamPath[s] = NoPath]
             a == StopFlvPlayers(r, s)
  <1>1. ASSUME NEW q \in Registry PROVE Frees(q, forget(q))
    <2> DEFINE id == [q.publishStreamId EXCEPT ![s] = 0]
               path == [q.publishStreamPath EXCEPT ![s] = NoPath]
               f == [q EXCEPT !.publishStreamId = id, !.publishStreamPath = path]
    <2>1. forget(q) = f
      BY <1>1 DEF Registry
    <2>2. /\ id \in [Rtmp -> StreamIds \cup {0}]
          /\ path \in [Rtmp -> Paths \cup {NoPath}]
      BY <1>1 DEF Registry
    <2> HIDE DEF id, path
    <2>3. f \in Registry
      BY <1>1, <2>2 DEF Registry
    <2>4. f.publishers = q.publishers /\ f.starting = q.starting
      BY <1>1 DEF Registry
    <2> QED
      BY <2>1, <2>3, <2>4 DEF Frees
  <1>2. ASSUME NEW q \in Registry PROVE Frees(q, Dismiss(q, s))
    <2> DEFINE pubs == Unregister(q, q.publishStreamPath[s])
               pl == [q.players EXCEPT ![s] = {}]
               A == q.players[s]
               f == [q EXCEPT !.idlePlayers = @ \cup A, !.playing = @ \ A,
                              !.idling = @ \cup A, !.publishers = pubs,
                              !.players = pl, !.publishing = @ \ {s}]
    <2>1. Dismiss(q, s) = f
      BY <1>2 DEF Dismiss, Registry
    <2>2. /\ pubs \in [Paths -> Rtmp \cup {Nobody}]
          /\ \A path \in Paths : pubs[path] \in {q.publishers[path], Nobody}
      BY <1>2 DEF Unregister, Registry
    <2>3. /\ q.idlePlayers \cup A \in SUBSET Sessions
          /\ q.playing \ A \in SUBSET Sessions
          /\ q.idling \cup A \in SUBSET Sessions
          /\ pl \in [Rtmp -> SUBSET Sessions]
          /\ q.publishing \ {s} \in SUBSET Rtmp
      BY <1>2 DEF Registry
    <2> HIDE DEF pubs, pl, A
    <2>4. f \in Registry
      BY <1>2, <2>2, <2>3 DEF Registry
    <2>5. f.publishers = pubs /\ f.starting = q.starting
      BY <1>2 DEF Registry
    <2> QED
      BY <2>1, <2>2, <2>4, <2>5 DEF Frees
  <1>3. ClosePublish(r, s) \in {forget(r), Throw(r), Throw(a), forget(Dismiss(a, s))}
    BY DEF ClosePublish
  <1> HIDE DEF forget
  <1>4. Frees(r, a)
    BY FlvStopFrees DEF StopFlvPlayers
  <1> HIDE DEF a
  <1>5. a \in Registry
    BY <1>4 DEF Frees
  <1>6. Frees(r, Throw(a))
    BY <1>4, <1>5, ThrowFrees, FreesCompose
  <1>7. Frees(r, forget(Dismiss(a, s)))
    <2>1. Frees(r, Dismiss(a, s))
      BY <1>2, <1>4, <1>5, FreesCompose
    <2>2. Dismiss(a, s) \in Registry
      BY <2>1 DEF Frees
    <2>3. Frees(Dismiss(a, s), forget(Dismiss(a, s)))
      BY <1>1, <2>2
    <2> QED
      BY <2>1, <2>3, FreesCompose
  <1> QED
    BY <1>1, <1>3, <1>6, <1>7, ThrowFrees

\* deleteStream and closeStream.
LEMMA DeleteStreamFrees ==
    ASSUME NEW r \in Registry, NEW s \in Rtmp, NEW id
    PROVE  Frees(r, DeleteStream(r, s, id))
  <1> DEFINE a == IF id = r.playStreamId[s] THEN ClosePlay(r, s) ELSE r
  <1>1. Frees(r, a)
    BY ClosePlayFrees DEF Frees
  <1>2. DeleteStream(r, s, id) \in {a, ClosePublish(a, s)}
    BY DEF DeleteStream
  <1> HIDE DEF a
  <1>3. Frees(r, ClosePublish(a, s))
    <2>1. a \in Registry
      BY <1>1 DEF Frees
    <2>2. Frees(a, ClosePublish(a, s))
      BY <2>1, ClosePublishFrees
    <2> QED
      BY <1>1, <2>2, FreesCompose
  <1> QED
    BY <1>1, <1>2, <1>3

\* NodeRtmpSession.stop(): a session that was stopped does nothing more, unless
\* stop() did not run to its end.
LEMMA RtmpStopFrees ==
    ASSUME NEW r \in Registry, NEW s \in Rtmp
    PROVE  /\ Frees(r, RtmpStop(r, s))
           /\ RtmpStop(r, s).uncaught \/ s \notin RtmpStop(r, s).starting
  <1> DEFINE a == [r EXCEPT !.starting = @ \ {s}]
             b == IF a.playStreamId[s] > 0
                  THEN DeleteStream(a, s, a.playStreamId[s]) ELSE a
             c == IF ~b.uncaught /\ b.publishStreamId[s] > 0
                  THEN DeleteStream(b, s, b.publishStreamId[s]) ELSE b
             d == DropSession(c, s)
  <1>1. /\ RtmpStop(r, s) = IF s \notin r.starting THEN r
                            ELSE IF c.uncaught THEN c ELSE d
    BY DEF RtmpStop
  <1>2. Frees(r, a) /\ s \notin a.starting
    <2>1. r.starting \ {s} \in SUBSET Sessions
      BY DEF Registry
    <2>2. a \in Registry
      BY <2>1 DEF Registry
    <2>3. a.publishers = r.publishers /\ a.starting = r.starting \ {s}
      BY DEF Registry
    <2> QED
      BY <2>2, <2>3 DEF Frees
  <1> HIDE DEF a
  <1>3. Frees(a, b)
    <2>1. a \in Registry
      BY <1>2 DEF Frees
    <2>2. Frees(a, a)
      BY <2>1 DEF Frees
    <2> QED
      BY <2>1, <2>2, DeleteStreamFrees
  <1> HIDE DEF b
  <1>4. Frees(b, c)
    <2>1. b \in Registry
      BY <1>3 DEF Frees
    <2>2. Frees(b, b)
      BY <2>1 DEF Frees
    <2> QED
      BY <2>1, <2>2, DeleteStreamFrees
  <1> HIDE DEF c
  <1>5. Frees(r, c)
    BY <1>2, <1>3, <1>4, FreesCompose
  <1>6. Frees(c, d)
    <2>1. c \in Registry
      BY <1>4 DEF Frees
    <2>2. c.sessions \ {s} \in SUBSET Sessions
      BY <2>1 DEF Registry
    <2>3. d \in Registry /\ d.publishers = c.publishers /\ d.starting = c.starting
      BY <2>1, <2>2 DEF DropSession, Registry
    <2> QED
      BY <2>3 DEF Frees
  <1> HIDE DEF d
  <1>7. Frees(r, d)
    BY <1>5, <1>6, FreesCompose
  <1>8. s \notin d.starting
    BY <1>2, <1>3, <1>4, <1>6 DEF Frees
  <1>9. Frees(r, r)
    BY DEF Frees
  <1> QED
    BY <1>1, <1>5, <1>7, <1>8, <1>9

-----------------------------------------------------------------------------
(* The handlers.                                                           *)

\* Joining or waiting touches no name.
LEMMA JoinOrWaitTyped ==
    ASSUME NEW r \in Registry, NEW s \in Sessions, NEW path \in Paths
    PROVE  /\ JoinOrWait(r, s, path) \in Registry
           /\ JoinOrWait(r, s, path).publishers = r.publishers
  <1> DEFINE pub == r.publishers[path]
             pl == [r.players EXCEPT ![pub] = @ \cup {s}]
             wait == [r EXCEPT !.idling = @ \cup {s}, !.idlePlayers = @ \cup {s}]
             play == [r EXCEPT !.players = pl, !.idling = @ \ {s},
                               !.playing = @ \cup {s}]
  <1>1. /\ r.idling \cup {s} \in SUBSET Sessions
        /\ r.idlePlayers \cup {s} \in SUBSET Sessions
        /\ r.idling \ {s} \in SUBSET Sessions
        /\ r.playing \cup {s} \in SUBSET Sessions
        /\ pub \in Rtmp \cup {Nobody}
    BY DEF Registry
  <1>2. CASE pub = Nobody
    <2>1. JoinOrWait(r, s, path) = wait
      BY <1>2 DEF JoinOrWait
    <2>2. wait \in Registry /\ wait.publishers = r.publishers
      BY <1>1 DEF Registry
    <2> QED
      BY <2>1, <2>2
  <1>3. CASE pub # Nobody
    <2>1. JoinOrWait(r, s, path) \in {Throw(r), play}
      BY <1>1, <1>3 DEF JoinOrWait, StartPlay, Registry
    <2>2. pl \in [Rtmp -> SUBSET Sessions]
      BY <1>1, <1>3 DEF Registry
    <2> HIDE DEF pl
    <2>3. play \in Registry /\ play.publishers = r.publishers
      BY <1>1, <2>2 DEF Registry
    <2>4. Throw(r) \in Registry /\ Throw(r).publishers = r.publishers
      BY DEF Throw, Registry
    <2> QED
      BY <2>1, <2>3, <2>4
  <1> QED
    BY <1>2, <1>3

\* onPublish leaves a registry.
LEMMA OnPublishTyped ==
    ASSUME NEW r \in Registry, NEW s \in Rtmp, NEW path \in Paths,
           NEW id \in StreamIds, NEW verdict
    PROVE  OnPublish(r, s, path, id, verdict) \in Registry
  <1> DEFINE pp == [r.publishStreamPath EXCEPT ![s] = path]
             pid == [r.publishStreamId EXCEPT ![s] = id]
             a0 == [r EXCEPT !.publishStreamPath[s] = path,
                             !.publishStreamId[s] = id]
             a == [r EXCEPT !.publishStreamPath = pp, !.publishStreamId = pid]
             b == IF verdict = "reject" THEN RtmpStop(a, s) ELSE a
             reg(q) == [q EXCEPT !.publishers[path] = s, !.publishing = @ \cup {s}]
             wait(q) == {p \in q.idlePlayers : q.playStreamPath[p] = path}
             f == OnPublish(r, s, path, id, verdict)
  <1>1. a0 = a
    BY DEF Registry
  <1>2. a \in Registry /\ a.publishers = r.publishers
    <2>1. /\ pp \in [Rtmp -> Paths \cup {NoPath}]
          /\ pid \in [Rtmp -> StreamIds \cup {0}]
      BY DEF Registry
    <2> HIDE DEF pp, pid
    <2> QED
      BY <2>1 DEF Registry
  <1>3. f = IF Refused(b, s, path, verdict) THEN b
            ELSE IF ~(b.idlePlayers \subseteq b.sessions) THEN Throw(reg(b))
            ELSE Serve(reg(b), wait(reg(b)), s)
    <2> DEFINE b0 == IF verdict = "reject" THEN RtmpStop(a0, s) ELSE a0
    <2>1. f = IF Refused(b0, s, path, verdict) THEN b0
              ELSE IF ~(b0.idlePlayers \subseteq b0.sessions) THEN Throw(reg(b0))
              ELSE Serve(reg(b0), wait(reg(b0)), s)
      BY Zenon DEF OnPublish
    <2> HIDE DEF a0
    <2>2. b0 = b
      BY <1>1
    <2> HIDE DEF b0, b, f, reg, wait
    <2> QED
      BY <2>1, <2>2
  <1> HIDE DEF a
  <1>4. /\ Frees(a, b)
        /\ ~b.uncaught /\ s \in b.starting => b = a
    <2>1. Frees(a, a)
      BY <1>2 DEF Frees
    <2> QED
      BY <1>2, <2>1, RtmpStopFrees
  <1> HIDE DEF b, f
  <1>5. CASE Refused(b, s, path, verdict)
    <2>1. f = b
      BY <1>3, <1>5
    <2> QED
      BY <1>2, <1>4, <2>1 DEF Frees, f
  <1>6. CASE ~Refused(b, s, path, verdict)
    <2>1. b = a /\ r.publishers[path] = Nobody
      BY <1>2, <1>4, <1>6 DEF Refused
    <2> DEFINE c == reg(a)
               W == wait(c)
               pubs == [a.publishers EXCEPT ![path] = s]
    <2>2. /\ c = [a EXCEPT !.publishers = pubs, !.publishing = @ \cup {s}]
          /\ pubs \in [Paths -> Rtmp \cup {Nobody}]
          /\ \A x \in Paths \ {path} : pubs[x] = r.publishers[x]
          /\ a.publishing \cup {s} \in SUBSET Rtmp
      BY <1>2 DEF Registry
    <2>3. f \in {Throw(c), Serve(c, W, s)}
      BY <1>3, <1>6, <2>1
    <2> HIDE DEF pubs
    <2>4. c \in Registry /\ c.publishers = pubs
      BY <1>2, <2>2 DEF Registry
    <2> HIDE DEF c, reg
    <2>5. W \subseteq Sessions
      BY <2>4 DEF Registry
    <2> HIDE DEF W, wait
    <2>6. Serve(c, W, s) \in Registry /\ Serve(c, W, s).publishers = pubs
      <3> DEFINE pl == [c.players EXCEPT ![s] = @ \cup W]
      <3>1. Serve(c, W, s) = [c EXCEPT !.players = pl, !.idling = @ \ W,
                                       !.playing = @ \cup W, !.idlePlayers = @ \ W]
        BY <2>4 DEF Serve, StartPlay, Registry
      <3>2. /\ pl \in [Rtmp -> SUBSET Sessions]
            /\ c.idling \ W \in SUBSET Sessions
            /\ c.playing \cup W \in SUBSET Sessions
            /\ c.idlePlayers \ W \in SUBSET Sessions
        BY <2>4, <2>5 DEF Registry
      <3> HIDE DEF pl
      <3> QED
        BY <2>4, <3>1, <3>2 DEF Registry
    <2>7. Throw(c) \in Registry /\ Throw(c).publishers = pubs
      BY <2>4 DEF Throw, Registry
    <2>8. f \in Registry
      BY <2>3, <2>6, <2>7
    <2> QED
      BY <2>8 DEF f
  <1> QED
    BY <1>5, <1>6

\* So does onPlay, ...
LEMMA OnPlayTyped ==
    ASSUME NEW r \in Registry, NEW s \in Rtmp, NEW path \in Paths,
           NEW id \in StreamIds, NEW verdict
    PROVE  OnPlay(r, s, path, id, verdict) \in Registry
  <1> DEFINE pp == [r.playStreamPath EXCEPT ![s] = path]
             pid == [r.playStreamId EXCEPT ![s] = id]
             a0 == [r EXCEPT !.playStreamPath[s] = path, !.playStreamId[s] = id]
             a == [r EXCEPT !.playStreamPath = pp, !.playStreamId = pid]
             b0 == IF verdict = "reject" THEN RtmpStop(a0, s) ELSE a0
             b == IF verdict = "reject" THEN RtmpStop(a, s) ELSE a
             f == OnPlay(r, s, path, id, verdict)
  <1>1. a0 = a
    BY DEF Registry
  <1>2. a \in Registry /\ a.publishers = r.publishers
    <2>1. /\ pp \in [Sessions -> Paths \cup {NoPath}]
          /\ pid \in [Rtmp -> StreamIds \cup {0}]
      BY DEF Registry
    <2> HIDE DEF pp, pid
    <2> QED
      BY <2>1 DEF Registry
  <1>3. f \in {b0, JoinOrWait(b0, s, path)}
    BY Zenon DEF OnPlay
  <1> HIDE DEF a0
  <1>4. b0 = b
    BY <1>1
  <1> HIDE DEF a, b0
  <1>5. Frees(a, b)
    <2>1. Frees(a, a)
      BY <1>2 DEF Frees
    <2> QED
      BY <1>2, <2>1, RtmpStopFrees
  <1> HIDE DEF b, f
  <1>6. b \in Registry
    BY <1>5 DEF Frees
  <1>7. f \in Registry
    BY <1>3, <1>4, <1>6, JoinOrWaitTyped
  <1> QED
    BY <1>7 DEF f

\* ... a session that enters ...
LEMMA EnterTyped ==
    ASSUME NEW r \in Registry, NEW s \in Sessions
    PROVE  Enter(r, s) \in Registry /\ Enter(r, s).publishers = r.publishers
  <1>1. /\ r.fresh \ {s} \in SUBSET Sessions
        /\ r.open \cup {s} \in SUBSET Sessions
        /\ r.sessions \cup {s} \in SUBSET Sessions
        /\ r.starting \cup {s} \in SUBSET Sessions
    BY DEF Registry
  <1> QED
    BY <1>1 DEF Registry, Enter

\* ... and a request.
LEMMA OnRequestTyped ==
    ASSUME NEW r \in Registry, NEW s \in Flv, NEW path \in Paths,
           NEW verdict \in Verdicts \cup {"refused"}
    PROVE  OnRequest(r, s, path, verdict) \in Registry
  <1> DEFINE a == Enter(r, s)
             pp == [a.playStreamPath EXCEPT ![s] = path]
             b == [a EXCEPT !.playStreamPath[s] = path]
             f == OnRequest(r, s, path, verdict)
  <1>1. a \in Registry /\ a.publishers = r.publishers
    BY EnterTyped
  <1>2. f \in {FlvStop(a, {s}), FlvStop(b, {s}), b, JoinOrWait(b, s, path)}
    <2>1. f = CASE verdict = "refused" -> FlvStop(a, {s})
                [] verdict = "reject"  -> FlvStop(b, {s})
                [] verdict = "denied"  -> b
                [] verdict = "ok"      -> JoinOrWait(b, s, path)
      BY DEF OnRequest, Enter
    <2> HIDE DEF a, b, f
    <2> QED
      BY <2>1 DEF Verdicts
  <1> HIDE DEF a, f
  <1>3. b \in Registry /\ b.publishers = r.publishers
    <2>1. pp \in [Sessions -> Paths \cup {NoPath}]
      BY <1>1 DEF Registry
    <2>2. b = [a EXCEPT !.playStreamPath = pp]
      BY <1>1 DEF Registry
    <2> HIDE DEF pp, b
    <2> QED
      BY <1>1, <2>1, <2>2 DEF Registry
  <1> HIDE DEF b
  <1>4. Frees(a, FlvStop(a, {s})) /\ Frees(b, FlvStop(b, {s}))
    BY <1>1, <1>3, FlvStopFrees
  <1>5. /\ JoinOrWait(b, s, path) \in Registry
        /\ JoinOrWait(b, s, path).publishers = b.publishers
    BY <1>3, JoinOrWaitTyped
  <1>6. f \in Registry
    BY <1>1, <1>2, <1>3, <1>4, <1>5 DEF Frees
  <1> QED
    BY <1>6 DEF f

-----------------------------------------------------------------------------
(* The map of sessions.                                                    *)

\* A method that closes streams takes FLV sessions out of the map, and stops
\* them, or throws.
Drops(r, f) ==
    /\ r.uncaught => f.uncaught
    /\ f.uncaught \/ \E P \in SUBSET Flv : /\ f.sessions = r.sessions \ P
                                           /\ f.starting = r.starting \ P

\* The map holds the sessions that were not stopped.
Matches(r) == ~r.uncaught => r.sessions = r.starting

\* Closing more takes out more.
LEMMA DropsCompose ==
    ASSUME NEW r, NEW q, NEW f, Drops(r, q), Drops(q, f)
    PROVE  Drops(r, f)
  <1>1. CASE f.uncaught
    BY <1>1 DEF Drops
  <1>2. CASE ~f.uncaught
    <2>1. ~q.uncaught
      BY <1>2 DEF Drops
    <2>2. PICK P \in SUBSET Flv : /\ q.sessions = r.sessions \ P
                                  /\ q.starting = r.starting \ P
      BY <2>1 DEF Drops
    <2>3. PICK Q \in SUBSET Flv : /\ f.sessions = q.sessions \ Q
                                  /\ f.starting = q.starting \ Q
      BY <1>2 DEF Drops
    <2>4. /\ f.sessions = r.sessions \ (P \cup Q)
          /\ f.starting = r.starting \ (P \cup Q)
          /\ P \cup Q \in SUBSET Flv
      BY <2>2, <2>3
    <2>5. r.uncaught => f.uncaught
      BY DEF Drops
    <2> QED
      BY <2>4, <2>5 DEF Drops
  <1> QED
    BY <1>1, <1>2

\* Touching neither is taking nothing out.
LEMMA DropsNothing ==
    ASSUME NEW r, NEW f, f.sessions = r.sessions, f.starting = r.starting,
           f.uncaught = r.uncaught
    PROVE  Drops(r, f)
  <1>1. f.sessions = r.sessions \ {} /\ f.starting = r.starting \ {}
    OBVIOUS
  <1>2. {} \in SUBSET Flv
    OBVIOUS
  <1>3. r.uncaught => f.uncaught
    OBVIOUS
  <1> QED
    BY <1>1, <1>2, <1>3 DEF Drops

\* NodeFlvSession.stop().
LEMMA FlvStopDrops ==
    ASSUME NEW r \in Registry, NEW P \in SUBSET Flv
    PROVE  Drops(r, FlvStop(r, P))
  <1> DEFINE L == P \cap r.starting
             f == [r EXCEPT !.starting = @ \ L, !.players = Leave(r, L),
                            !.idlePlayers = @ \ L, !.sessions = @ \ L]
  <1>1. FlvStop(r, P) = Throw(r) \/ FlvStop(r, P) = f
    BY DEF FlvStop
  <1>2. Drops(r, Throw(r))
    BY ThrowFrees DEF Drops
  <1>3. L \in SUBSET Flv
    OBVIOUS
  <1> HIDE DEF L
  <1>4. /\ f.sessions = r.sessions \ L /\ f.starting = r.starting \ L
        /\ f.uncaught = r.uncaught
    BY DEF Registry
  <1> HIDE DEF f
  <1>5. Drops(r, f)
    BY <1>3, <1>4 DEF Drops
  <1> QED
    BY <1>1, <1>2, <1>5

\* Both halves of onDeleteStream.
LEMMA DeleteStreamDrops ==
    ASSUME NEW r \in Registry, NEW s \in Rtmp, NEW id
    PROVE  Drops(r, DeleteStream(r, s, id))
  <1>1. ASSUME NEW q \in Registry PROVE Drops(q, Throw(q))
    BY <1>1, ThrowFrees DEF Drops
  <1>2. ASSUME NEW q \in Registry PROVE Drops(q, ClosePlay(q, s))
    <2> DEFINE f == ClosePlay(q, s)
               wait == [q EXCEPT !.idlePlayers = @ \ {s}, !.idling = @ \ {s},
                                 !.playStreamId[s] = 0, !.playStreamPath[s] = NoPath]
               play == [q EXCEPT !.players = Leave(q, {s}), !.playing = @ \ {s},
                                 !.playStreamId[s] = 0, !.playStreamPath[s] = NoPath]
    <2>1. f \in {wait, play, Throw(q)}
      BY <1>2 DEF ClosePlay, Registry
    <2>2. /\ wait.sessions = q.sessions /\ wait.starting = q.starting
          /\ wait.uncaught = q.uncaught
          /\ play.sessions = q.sessions /\ play.starting = q.starting
          /\ play.uncaught = q.uncaught
      BY <1>2 DEF Registry
    <2> HIDE DEF f, wait, play
    <2>3. Drops(q, wait) /\ Drops(q, play)
      BY <2>2, DropsNothing
    <2> QED
      BY <1>1, <1>2, <2>1, <2>3 DEF f
  <1>3. ASSUME NEW q \in Registry PROVE Drops(q, ClosePublish(q, s))
    <2> DEFINE forget(x) == [x EXCEPT !.publishStreamId[s] = 0,
                                      !.publishStreamPath[s] = NoPath]
               a == StopFlvPlayers(q, s)
               f == ClosePublish(q, s)
    <2>1. f \in {forget(q), Throw(q), Throw(a), forget(Dismiss(a, s))}
      BY DEF ClosePublish
    <2>2. Drops(q, a) /\ a \in Registry
      BY <1>3, FlvStopDrops, FlvStopFrees DEF StopFlvPlayers, Frees
    <2>3. ASSUME NEW x \in Registry
          PROVE  Drops(x, forget(x)) /\ Drops(x, forget(Dismiss(x, s)))
      <3> DEFINE d == forget(Dismiss(x, s))
                 g == forget(x)
      <3>1. /\ g.sessions = x.sessions /\ g.starting = x.starting
            /\ g.uncaught = x.uncaught
        BY <2>3 DEF Registry
      <3>2. /\ d.sessions = x.sessions /\ d.starting = x.starting
            /\ d.uncaught = x.uncaught
        BY <2>3 DEF Registry, Dismiss
      <3> HIDE DEF d, g
      <3>3. Drops(x, d) /\ Drops(x, g)
        BY <3>1, <3>2, DropsNothing
      <3> QED
        BY <3>3 DEF d, g
    <2> HIDE DEF a, f, forget
    <2>4. Drops(q, Throw(a)) /\ Drops(q, forget(Dismiss(a, s)))
      BY <1>1, <2>2, <2>3, DropsCompose
    <2> QED
      BY <1>1, <1>3, <2>1, <2>3, <2>4 DEF f
  <1> DEFINE a == IF id = r.playStreamId[s] THEN ClosePlay(r, s) ELSE r
  <1>4. DeleteStream(r, s, id) \in {a, ClosePublish(a, s)}
    BY DEF DeleteStream
  <1>5. Drops(r, a) /\ a \in Registry
    BY <1>2, ClosePlayFrees, DropsNothing DEF Frees
  <1> HIDE DEF a
  <1>6. Drops(r, ClosePublish(a, s))
    BY <1>3, <1>5, DropsCompose
  <1> QED
    BY <1>4, <1>5, <1>6

\* NodeRtmpSession.stop() takes its session out, when it runs to its end.
LEMMA RtmpStopMatches ==
    ASSUME NEW r \in Registry, Matches(r), ~r.uncaught, NEW s \in Rtmp
    PROVE  Matches(RtmpStop(r, s))
  <1> DEFINE a == [r EXCEPT !.starting = @ \ {s}]
             b == IF a.playStreamId[s] > 0
                  THEN DeleteStream(a, s, a.playStreamId[s]) ELSE a
             c == IF ~b.uncaught /\ b.publishStreamId[s] > 0
                  THEN DeleteStream(b, s, b.publishStreamId[s]) ELSE b
             f == RtmpStop(r, s)
  <1>1. f = IF s \notin r.starting THEN r
            ELSE IF c.uncaught THEN c ELSE DropSession(c, s)
    BY DEF RtmpStop
  <1>2. /\ a \in Registry /\ a.sessions = r.sessions
        /\ a.starting = r.starting \ {s}
    <2>1. r.starting \ {s} \in SUBSET Sessions
      BY DEF Registry
    <2> QED
      BY <2>1 DEF Registry
  <1> HIDE DEF a
  <1>3. Drops(a, b) /\ b \in Registry
    BY <1>2, DeleteStreamDrops, DeleteStreamFrees, DropsNothing DEF Frees
  <1> HIDE DEF b
  <1>4. Drops(b, c) /\ c \in Registry
    BY <1>3, DeleteStreamDrops, DeleteStreamFrees, DropsNothing DEF Frees
  <1> HIDE DEF c, f
  <1>5. CASE s \notin r.starting
    BY <1>1, <1>5 DEF f
  <1>6. CASE s \in r.starting /\ c.uncaught
    BY <1>1, <1>6 DEF Matches, f
  <1>7. CASE s \in r.starting /\ ~c.uncaught
    <2>1. f = DropSession(c, s)
      BY <1>1, <1>7
    <2>2. f.sessions = c.sessions \ {s} /\ f.starting = c.starting
      BY <1>4, <2>1 DEF DropSession, Registry
    <2>3. PICK P \in SUBSET Flv : /\ c.sessions = a.sessions \ P
                                  /\ c.starting = a.starting \ P
      BY <1>3, <1>4, <1>7, DropsCompose DEF Drops
    <2>4. r.sessions = r.starting
      BY DEF Matches
    <2>5. f.sessions = f.starting
      BY <1>2, <2>2, <2>3, <2>4
    <2> QED
      BY <2>5 DEF Matches, f
  <1> QED
    BY <1>5, <1>6, <1>7

\* onPublish and onPlay take a session out only by stop().
LEMMA CommandMatches ==
    ASSUME NEW r \in Registry, Matches(r), ~r.uncaught, NEW s \in Rtmp,
           NEW path \in Paths, NEW id \in StreamIds, NEW verdict
    PROVE  /\ Matches(OnPublish(r, s, path, id, verdict))
           /\ Matches(OnPlay(r, s, path, id, verdict))
  <1>1. ASSUME NEW a \in Registry, Matches(a), ~a.uncaught
        PROVE  LET b == IF verdict = "reject" THEN RtmpStop(a, s) ELSE a
               IN  b \in Registry /\ Matches(b)
    BY <1>1, RtmpStopFrees, RtmpStopMatches DEF Frees
  <1>2. ASSUME NEW b \in Registry, Matches(b)
        PROVE  Matches(JoinOrWait(b, s, path))
    <2> DEFINE f == JoinOrWait(b, s, path)
    <2>1. /\ f.sessions = b.sessions /\ f.starting = b.starting
          /\ f.uncaught \/ f.uncaught = b.uncaught
      BY <1>2 DEF JoinOrWait, StartPlay, Throw, Registry
    <2> HIDE DEF f
    <2>2. Matches(f)
      BY <1>2, <2>1 DEF Matches
    <2> QED
      BY <2>2 DEF f
  <1>3. ASSUME NEW b \in Registry, Matches(b), NEW W
        PROVE  LET c == [b EXCEPT !.publishers[path] = s,
                                  !.publishing = @ \cup {s}]
               IN  Matches(Throw(c)) /\ Matches(Serve(c, W, s))
    <2> DEFINE c == [b EXCEPT !.publishers[path] = s, !.publishing = @ \cup {s}]
               f == Serve(c, W, s)
    <2>1. Throw(c).uncaught
      BY <1>3 DEF Throw, Registry
    <2>2. /\ f.sessions = b.sessions /\ f.starting = b.starting
          /\ f.uncaught = b.uncaught
      BY <1>3 DEF Serve, StartPlay, Registry
    <2> HIDE DEF c, f
    <2>3. Matches(Throw(c)) /\ Matches(f)
      BY <1>3, <2>1, <2>2 DEF Matches
    <2> QED
      BY <2>3 DEF c, f
  <1>4. Matches(OnPlay(r, s, path, id, verdict))
    <2> DEFINE pp == [r.playStreamPath EXCEPT ![s] = path]
               pid == [r.playStreamId EXCEPT ![s] = id]
               a0 == [r EXCEPT !.playStreamPath[s] = path, !.playStreamId[s] = id]
               a == [r EXCEPT !.playStreamPath = pp, !.playStreamId = pid]
               b == IF verdict = "reject" THEN RtmpStop(a0, s) ELSE a0
               f == OnPlay(r, s, path, id, verdict)
    <2>1. f \in {b, JoinOrWait(b, s, path)}
      BY Zenon DEF OnPlay
    <2>2. a0 = a
      BY DEF Registry
    <2>3. /\ pp \in [Sessions -> Paths \cup {NoPath}]
          /\ pid \in [Rtmp -> StreamIds \cup {0}]
      BY DEF Registry
    <2> HIDE DEF pp, pid
    <2>4. /\ a \in Registry /\ a.sessions = r.sessions
          /\ a.starting = r.starting /\ a.uncaught = r.uncaught
      BY <2>3 DEF Registry
    <2> HIDE DEF a0, a
    <2>5. a0 \in Registry /\ Matches(a0) /\ ~a0.uncaught
      BY <2>2, <2>4 DEF Matches
    <2>6. b \in Registry /\ Matches(b)
      BY <1>1, <2>5
    <2> HIDE DEF b, f
    <2>7. Matches(f)
      BY <1>2, <2>1, <2>6
    <2> QED
      BY <2>7 DEF f
  <1>5. Matches(OnPublish(r, s, path, id, verdict))
    <2> DEFINE pp == [r.publishStreamPath EXCEPT ![s] = path]
               pid == [r.publishStreamId EXCEPT ![s] = id]
               a0 == [r EXCEPT !.publishStreamPath[s] = path,
                               !.publishStreamId[s] = id]
               a == [r EXCEPT !.publishStreamPath = pp, !.publishStreamId = pid]
               b == IF verdict = "reject" THEN RtmpStop(a0, s) ELSE a0
               c == [b EXCEPT !.publishers[path] = s, !.publishing = @ \cup {s}]
               W == {p \in c.idlePlayers : c.playStreamPath[p] = path}
               f == OnPublish(r, s, path, id, verdict)
    <2>1. f \in {b, Throw(c), Serve(c, W, s)}
      BY Zenon DEF OnPublish
    <2>2. a0 = a
      BY DEF Registry
    <2>3. /\ pp \in [Rtmp -> Paths \cup {NoPath}]
          /\ pid \in [Rtmp -> StreamIds \cup {0}]
      BY DEF Registry
    <2> HIDE DEF pp, pid
    <2>4. /\ a \in Registry /\ a.sessions = r.sessions
          /\ a.starting = r.starting /\ a.uncaught = r.uncaught
      BY <2>3 DEF Registry
    <2> HIDE DEF a0, a, W
    <2>5. a0 \in Registry /\ Matches(a0) /\ ~a0.uncaught
      BY <2>2, <2>4 DEF Matches
    <2>6. b \in Registry /\ Matches(b)
      BY <1>1, <2>5
    <2> HIDE DEF b, f
    <2>7. Matches(Throw(c)) /\ Matches(Serve(c, W, s))
      BY <1>3, <2>6
    <2> HIDE DEF c
    <2>8. Matches(f)
      BY <2>1, <2>6, <2>7
    <2> QED
      BY <2>8 DEF f
  <1> QED
    BY <1>4, <1>5

\* A request enters, and may be stopped at once.
LEMMA OnRequestMatches ==
    ASSUME NEW r \in Registry, Matches(r), ~r.uncaught, NEW s \in Flv,
           NEW path \in Paths, NEW verdict \in Verdicts \cup {"refused"}
    PROVE  Matches(OnRequest(r, s, path, verdict))
  <1> DEFINE a == Enter(r, s)
             b == [a EXCEPT !.playStreamPath[s] = path]
             f == OnRequest(r, s, path, verdict)
  <1>1. f \in {FlvStop(a, {s}), FlvStop(b, {s}), b, JoinOrWait(b, s, path)}
    <2>1. f = CASE verdict = "refused" -> FlvStop(a, {s})
                [] verdict = "reject"  -> FlvStop(b, {s})
                [] verdict = "denied"  -> b
                [] verdict = "ok"      -> JoinOrWait(b, s, path)
      BY DEF OnRequest, Enter
    <2> HIDE DEF a, b, f
    <2> QED
      BY <2>1 DEF Verdicts
  <1>2. a \in Registry /\ a.sessions = a.starting /\ ~a.uncaught
    <2>1. a \in Registry
      BY EnterTyped
    <2>2. r.sessions = r.starting
      BY DEF Matches
    <2> QED
      BY <2>1, <2>2 DEF Enter, Registry
  <1> HIDE DEF a, f
  <1>3. b \in Registry /\ b.sessions = b.starting /\ ~b.uncaught
    <2> DEFINE pp == [a.playStreamPath EXCEPT ![s] = path]
    <2>1. pp \in [Sessions -> Paths \cup {NoPath}]
      BY <1>2 DEF Registry
    <2>2. b = [a EXCEPT !.playStreamPath = pp]
      BY <1>2 DEF Registry
    <2> HIDE DEF pp, b
    <2> QED
      BY <1>2, <2>1, <2>2 DEF Registry
  <1> HIDE DEF b
  <1>4. ASSUME NEW q \in Registry, q.sessions = q.starting
        PROVE  Matches(FlvStop(q, {s}))
    <2>1. {s} \in SUBSET Flv
      OBVIOUS
    <2>2. Drops(q, FlvStop(q, {s}))
      BY <1>4, <2>1, FlvStopDrops
    <2> QED
      BY <1>4, <2>2 DEF Drops, Matches
  <1>5. Matches(JoinOrWait(b, s, path))
    <2> DEFINE g == JoinOrWait(b, s, path)
    <2>1. g.sessions = b.sessions /\ g.starting = b.starting
      BY <1>3 DEF JoinOrWait, StartPlay, Throw, Registry
    <2> HIDE DEF g
    <2> QED
      BY <1>3, <2>1 DEF Matches, g
  <1>6. Matches(f)
    BY <1>1, <1>2, <1>3, <1>4, <1>5 DEF Matches
  <1> QED
    BY <1>6 DEF f

-----------------------------------------------------------------------------
(* The theorems.                                                           *)

\* One step of a server with any clients.
LEMMA AnyStepTyped == TypeOK /\ [AnyNext]_vars => ctx' \in Registry
  <1> SUFFICES ASSUME TypeOK, [AnyNext]_vars PROVE ctx' \in Registry
    OBVIOUS
  <1>1. ctx \in Registry
    BY DEF TypeOK
  <1>2. ASSUME NEW r, Becomes(r), r \in Registry PROVE ctx' \in Registry
    BY <1>2, BecomesCtx
  <1>3. ASSUME NEW s
        PROVE  LET e == [ctx EXCEPT !.open = @ \ {s}]
               IN  e \in Registry /\ e.publishers = ctx.publishers
    <2>1. ctx.open \ {s} \in SUBSET Sessions
      BY <1>1 DEF Registry
    <2> QED
      BY <1>1, <2>1 DEF Registry
  <1>4. ASSUME NEW s \in Rtmp, Accept(s) PROVE ctx' \in Registry
    <2>1. Becomes(Enter(ctx, s))
      BY <1>4 DEF Accept, Enter
    <2>2. Enter(ctx, s) \in Registry
      BY <1>1, EnterTyped
    <2> QED
      BY <1>2, <2>1, <2>2
  <1>5. ASSUME NEW s \in Rtmp, NEW path \in Paths, NEW id \in StreamIds,
               NEW v \in Verdicts, Publish(s, path, id, v)
        PROVE  ctx' \in Registry
    BY <1>1, <1>2, <1>5, OnPublishTyped DEF Publish
  <1>6. ASSUME NEW s \in Rtmp, NEW path \in Paths, NEW id \in StreamIds,
               NEW v \in Verdicts, Play(s, path, id, v)
        PROVE  ctx' \in Registry
    BY <1>1, <1>2, <1>6, OnPlayTyped DEF Play
  <1>7. ASSUME NEW s \in Rtmp, NEW id \in StreamIds, CloseStream(s, id)
        PROVE  ctx' \in Registry
    <2>1. DeleteStream(ctx, s, id) \in Registry
      BY <1>1, DeleteStreamFrees DEF Frees
    <2> QED
      BY <1>2, <1>7, <2>1 DEF CloseStream
  <1>8. ASSUME NEW s \in Rtmp, SocketEnd(s) PROVE ctx' \in Registry
    <2> DEFINE e == [ctx EXCEPT !.open = @ \ {s}]
    <2>1. e \in Registry /\ e.publishers = ctx.publishers
      BY <1>3
    <2>2. Becomes(RtmpStop(e, s))
      BY <1>8 DEF SocketEnd
    <2> HIDE DEF e
    <2>3. Frees(e, RtmpStop(e, s))
      BY <2>1, RtmpStopFrees
    <2>4. RtmpStop(e, s) \in Registry
      BY <2>1, <2>3 DEF Frees
    <2> QED
      BY <1>2, <2>2, <2>4
  <1>9. ASSUME NEW s \in Flv, NEW path \in Paths,
               NEW v \in Verdicts \cup {"refused"}, Request(s, path, v)
        PROVE  ctx' \in Registry
    BY <1>1, <1>2, <1>9, OnRequestTyped DEF Request
  <1>10. ASSUME NEW s \in Flv, RequestEnd(s) PROVE ctx' \in Registry
    <2> DEFINE e == [ctx EXCEPT !.open = @ \ {s}]
    <2>1. e \in Registry /\ e.publishers = ctx.publishers
      BY <1>3
    <2>2. Becomes(FlvStop(e, {s}))
      BY <1>10 DEF RequestEnd
    <2> HIDE DEF e
    <2>3. Frees(e, FlvStop(e, {s}))
      BY <2>1, FlvStopFrees
    <2>4. FlvStop(e, {s}) \in Registry
      BY <2>1, <2>3 DEF Frees
    <2> QED
      BY <1>2, <2>2, <2>4
  <1>11. CASE UNCHANGED vars
    <2>1. ctx' = ctx
      BY <1>11 DEF vars, ctx
    <2> QED
      BY <1>1, <2>1
  <1> QED
    BY <1>4, <1>5, <1>6, <1>7, <1>8, <1>9, <1>10, <1>11
       DEF AnyNext, AnyPublish, AnyPlay, Other

\* Whatever clients send, every field holds what the code stores there, ...
THEOREM AnyTypeCorrect == AnySpec => []TypeOK
  <1>1. Init => TypeOK
    BY InitConsistent DEF RegistryInv, Consistent, TypeOK
  <1>2. TypeOK /\ [AnyNext]_vars => TypeOK'
    BY AnyStepTyped DEF TypeOK
  <1> QED
    BY <1>1, <1>2, PTL DEF AnySpec

\* ... and, as long as no handler has thrown, a session is in the map exactly until
\* it has been stopped.
THEOREM MapAlwaysMatches == AnySpec => []MapMatchesStarted
  <1>1. MapMatchesStarted <=> Matches(ctx)
    BY DEF MapMatchesStarted, Matches, ctx
  <1>2. Init => MapMatchesStarted
    BY DEF Init, MapMatchesStarted
  <1>3. TypeOK /\ MapMatchesStarted /\ [AnyNext]_vars => MapMatchesStarted'
    <2> SUFFICES ASSUME TypeOK, MapMatchesStarted, [AnyNext]_vars
                 PROVE  MapMatchesStarted'
      OBVIOUS
    <2>1. ctx \in Registry /\ Matches(ctx) /\ ctx.uncaught = uncaught
      BY <1>1 DEF TypeOK, ctx
    <2>2. ASSUME NEW r \in Registry, Becomes(r), Matches(r)
          PROVE  MapMatchesStarted'
      BY <2>2 DEF Becomes, Matches, MapMatchesStarted
    <2>3. CASE UNCHANGED vars
      BY <2>3 DEF vars, MapMatchesStarted
    <2>4. CASE AnyNext
      <3>1. ~ctx.uncaught
        BY <2>1, <2>4 DEF AnyNext
      <3>2. ASSUME NEW s
            PROVE  LET e == [ctx EXCEPT !.open = @ \ {s}]
                   IN  e \in Registry /\ Matches(e) /\ ~e.uncaught
        <4> DEFINE e == [ctx EXCEPT !.open = @ \ {s}]
        <4>1. ctx.open \ {s} \in SUBSET Sessions
          BY <2>1 DEF Registry
        <4>2. /\ e \in Registry /\ e.sessions = ctx.sessions
              /\ e.starting = ctx.starting /\ e.uncaught = ctx.uncaught
          BY <2>1, <4>1 DEF Registry
        <4> HIDE DEF e
        <4>3. Matches(e) /\ ~e.uncaught
          BY <2>1, <3>1, <4>2 DEF Matches
        <4> QED
          BY <4>2, <4>3 DEF e
      <3>3. ASSUME NEW q \in Registry, NEW f, Matches(q), ~q.uncaught, Drops(q, f)
            PROVE  Matches(f)
        BY <3>3 DEF Drops, Matches
      <3>4. ASSUME NEW s \in Rtmp, Accept(s) PROVE MapMatchesStarted'
        <4>1. Becomes(Enter(ctx, s)) /\ Enter(ctx, s) \in Registry
          BY <2>1, <3>4, EnterTyped DEF Accept, Enter
        <4>2. ctx.sessions = ctx.starting
          BY <2>1, <3>1 DEF Matches
        <4>3. Enter(ctx, s).sessions = Enter(ctx, s).starting
          BY <2>1, <4>2 DEF Enter, Registry
        <4>4. Matches(Enter(ctx, s))
          BY <4>3 DEF Matches
        <4> QED
          BY <2>2, <4>1, <4>4
      <3>5. ASSUME NEW s \in Rtmp, NEW path \in Paths, NEW id \in StreamIds,
                   NEW v \in Verdicts, Publish(s, path, id, v)
            PROVE  MapMatchesStarted'
        <4>1. OnPublish(ctx, s, path, id, v) \in Registry
          BY <2>1, OnPublishTyped
        <4> QED
          BY <2>1, <2>2, <3>1, <3>5, <4>1, CommandMatches DEF Publish
      <3>6. ASSUME NEW s \in Rtmp, NEW path \in Paths, NEW id \in StreamIds,
                   NEW v \in Verdicts, Play(s, path, id, v)
            PROVE  MapMatchesStarted'
        <4>1. OnPlay(ctx, s, path, id, v) \in Registry
          BY <2>1, OnPlayTyped
        <4> QED
          BY <2>1, <2>2, <3>1, <3>6, <4>1, CommandMatches DEF Play
      <3>7. ASSUME NEW s \in Rtmp, NEW id \in StreamIds, CloseStream(s, id)
            PROVE  MapMatchesStarted'
        <4>1. DeleteStream(ctx, s, id) \in Registry
          BY <2>1, DeleteStreamFrees DEF Frees
        <4>2. Matches(DeleteStream(ctx, s, id))
          BY <2>1, <3>1, <3>3, DeleteStreamDrops
        <4> QED
          BY <2>2, <3>7, <4>1, <4>2 DEF CloseStream
      <3>8. ASSUME NEW s \in Rtmp, SocketEnd(s) PROVE MapMatchesStarted'
        <4> DEFINE e == [ctx EXCEPT !.open = @ \ {s}]
        <4>1. e \in Registry /\ Matches(e) /\ ~e.uncaught
          BY <3>2
        <4>2. Becomes(RtmpStop(e, s))
          BY <3>8 DEF SocketEnd
        <4> HIDE DEF e
        <4>3. RtmpStop(e, s) \in Registry /\ Matches(RtmpStop(e, s))
          BY <4>1, RtmpStopFrees, RtmpStopMatches DEF Frees
        <4> QED
          BY <2>2, <4>2, <4>3
      <3>9. ASSUME NEW s \in Flv, NEW path \in Paths,
                   NEW v \in Verdicts \cup {"refused"}, Request(s, path, v)
            PROVE  MapMatchesStarted'
        <4>1. OnRequest(ctx, s, path, v) \in Registry
          BY <2>1, OnRequestTyped
        <4> QED
          BY <2>1, <2>2, <3>1, <3>9, <4>1, OnRequestMatches DEF Request
      <3>10. ASSUME NEW s \in Flv, RequestEnd(s) PROVE MapMatchesStarted'
        <4> DEFINE e == [ctx EXCEPT !.open = @ \ {s}]
                   f == FlvStop(e, {s})
        <4>1. e \in Registry /\ Matches(e) /\ ~e.uncaught
          BY <3>2
        <4>2. Becomes(f)
          BY <3>10 DEF RequestEnd
        <4> HIDE DEF e
        <4>3. {s} \in SUBSET Flv
          OBVIOUS
        <4>4. f \in Registry /\ Drops(e, f)
          BY <4>1, <4>3, FlvStopFrees, FlvStopDrops DEF Frees
        <4> HIDE DEF f
        <4>5. Matches(f)
          BY <3>3, <4>1, <4>4
        <4> QED
          BY <2>2, <4>2, <4>4, <4>5
      <3> QED
        BY <2>4, <3>4, <3>5, <3>6, <3>7, <3>8, <3>9, <3>10
           DEF AnyNext, AnyPublish, AnyPlay, Other
    <2> QED
      BY <2>3, <2>4
  <1> QED
    BY <1>2, <1>3, AnyTypeCorrect, PTL DEF AnySpec
-----------------------------------------------------------------------------
(***************************************************************************)
(* Proofs about StreamRegistry for clients that play as they like and      *)
(* publish by the protocol (AnyPlayerSpec): their names stay theirs.       *)
(***************************************************************************)

\* What owners are made of: live sessions that publish the path, on a message
\* stream that stop() will close.
Owned(r) == OwnersAliveIn(r) /\ \A s \in r.publishing : r.publishStreamId[s] > 0

\* A method that has nothing to do with them.
SameOwners(r, f) ==
    /\ f.publishers = r.publishers /\ f.publishing = r.publishing
    /\ f.publishStreamPath = r.publishStreamPath
    /\ f.publishStreamId = r.publishStreamId
    /\ Rtmp \cap r.sessions \subseteq f.sessions

LEMMA SameOwned ==
    ASSUME NEW r \in Registry, NEW f, Owned(r), SameOwners(r, f)
    PROVE  Owned(f)
  BY DEF Owned, SameOwners, OwnersAliveIn, Registry

\* NodeFlvSession.stop(), ...
LEMMA FlvStopSame ==
    ASSUME NEW r \in Registry, NEW P \in SUBSET Flv
    PROVE  FlvStop(r, P).uncaught \/ SameOwners(r, FlvStop(r, P))
  <1> DEFINE L == P \cap r.starting
             f == [r EXCEPT !.starting = @ \ L, !.players = Leave(r, L),
                            !.idlePlayers = @ \ L, !.sessions = @ \ L]
  <1>1. FlvStop(r, P) = Throw(r) \/ FlvStop(r, P) = f
    BY DEF FlvStop
  <1>2. L \cap Rtmp = {}
    BY RegistryAssumption
  <1> HIDE DEF L
  <1>3. /\ f.publishers = r.publishers /\ f.publishing = r.publishing
        /\ f.publishStreamPath = r.publishStreamPath
        /\ f.publishStreamId = r.publishStreamId
        /\ f.sessions = r.sessions \ L
    BY DEF Registry
  <1> HIDE DEF f
  <1>4. SameOwners(r, f)
    BY <1>2, <1>3 DEF SameOwners
  <1> QED
    BY <1>1, <1>4, ThrowFrees

\* ... the first half of onDeleteStream ...
LEMMA ClosePlaySame ==
    ASSUME NEW r \in Registry, NEW s \in Rtmp
    PROVE  ClosePlay(r, s).uncaught \/ SameOwners(r, ClosePlay(r, s))
  <1> DEFINE wait == [r EXCEPT !.idlePlayers = @ \ {s}, !.idling = @ \ {s},
                               !.playStreamId[s] = 0, !.playStreamPath[s] = NoPath]
             play == [r EXCEPT !.players = Leave(r, {s}), !.playing = @ \ {s},
                               !.playStreamId[s] = 0, !.playStreamPath[s] = NoPath]
  <1>1. ClosePlay(r, s) \in {wait, play, Throw(r)}
    BY DEF ClosePlay, Registry
  <1>2. SameOwners(r, wait) /\ SameOwners(r, play)
    BY DEF SameOwners, Registry
  <1> HIDE DEF wait, play
  <1> QED
    BY <1>1, <1>2, ThrowFrees

\* ... and joining or waiting have nothing to do with owners.
LEMMA JoinOrWaitSame ==
    ASSUME NEW r \in Registry, NEW s, NEW path
    PROVE  JoinOrWait(r, s, path).uncaught \/ SameOwners(r, JoinOrWait(r, s, path))
  <1> DEFINE pub == r.publishers[path]
             wait == [r EXCEPT !.idling = @ \cup {s}, !.idlePlayers = @ \cup {s}]
             play == StartPlay(r, {s}, pub)
  <1>1. JoinOrWait(r, s, path) \in {wait, play, Throw(r)}
    BY DEF JoinOrWait
  <1>2. SameOwners(r, wait) /\ SameOwners(r, play)
    BY DEF SameOwners, StartPlay, Registry
  <1> HIDE DEF wait, play
  <1> QED
    BY <1>1, <1>2, ThrowFrees

\* The end of a broadcast frees the name with the session that had it.
LEMMA ClosePublishOwned ==
    ASSUME NEW r \in Registry, Owned(r), NEW s \in Rtmp
    PROVE  LET f == ClosePublish(r, s)
           IN  f.uncaught \/ (Owned(f) /\ s \notin f.publishing)
  <1> DEFINE forget(q) == [q EXCEPT !.publishStreamId[s] = 0,
                                    !.publishStreamPath[s] = NoPath]
             a == StopFlvPlayers(r, s)
             f == ClosePublish(r, s)
  <1>1. ASSUME NEW q \in Registry, Owned(q), s \notin q.publishing
        PROVE  Owned(forget(q)) /\ s \notin forget(q).publishing
    <2> DEFINE g == forget(q)
    <2>1. /\ g.publishers = q.publishers /\ g.publishing = q.publishing
          /\ g.sessions = q.sessions
          /\ \A x \in Rtmp \ {s} :
                /\ g.publishStreamPath[x] = q.publishStreamPath[x]
                /\ g.publishStreamId[x] = q.publishStreamId[x]
      BY <1>1 DEF Registry
    <2> HIDE DEF g
    <2>2. Owned(g) /\ s \notin g.publishing
      BY <1>1, <2>1 DEF Owned, OwnersAliveIn, Registry
    <2> QED
      BY <2>2 DEF g
  <1>2. ASSUME NEW q \in Registry, Owned(q), s \in q.publishing
        PROVE  /\ Dismiss(q, s) \in Registry
               /\ Owned(Dismiss(q, s)) /\ s \notin Dismiss(q, s).publishing
    <2> DEFINE pubs == Unregister(q, q.publishStreamPath[s])
               pl == [q.players EXCEPT ![s] = {}]
               A == q.players[s]
               g == [q EXCEPT !.idlePlayers = @ \cup A, !.playing = @ \ A,
                              !.idling = @ \cup A, !.publishers = pubs,
                              !.players = pl, !.publishing = @ \ {s}]
    <2>1. Dismiss(q, s) = g
      BY <1>2 DEF Dismiss, Registry
    <2>2. /\ pubs \in [Paths -> Rtmp \cup {Nobody}]
          /\ \A path \in Paths : pubs[path] = IF path = q.publishStreamPath[s]
                                              THEN Nobody ELSE q.publishers[path]
      BY <1>2 DEF Unregister, Registry
    <2>3. /\ q.idlePlayers \cup A \in SUBSET Sessions
          /\ q.playing \ A \in SUBSET Sessions
          /\ q.idling \cup A \in SUBSET Sessions
          /\ pl \in [Rtmp -> SUBSET Sessions]
          /\ q.publishing \ {s} \in SUBSET Rtmp
      BY <1>2 DEF Registry
    <2> HIDE DEF pubs, pl, A
    <2>4. g \in Registry
      BY <1>2, <2>2, <2>3 DEF Registry
    <2>5. /\ g.publishers = pubs /\ g.publishing = q.publishing \ {s}
          /\ g.sessions = q.sessions
          /\ g.publishStreamPath = q.publishStreamPath
          /\ g.publishStreamId = q.publishStreamId
      BY <1>2 DEF Registry
    <2> HIDE DEF g
    <2>6. OwnersAliveIn(g)
      BY <1>2, <2>2, <2>5 DEF Owned, OwnersAliveIn
    <2>7. Owned(g) /\ s \notin g.publishing
      BY <1>2, <2>5, <2>6 DEF Owned
    <2> QED
      BY <2>1, <2>4, <2>7
  <1>3. IF s \notin r.publishing THEN f = forget(r)
        ELSE \/ f = Throw(r) \/ f = Throw(a)
             \/ ~a.uncaught /\ f = forget(Dismiss(a, s))
    BY DEF ClosePublish
  <1> HIDE DEF forget
  <1>4. a \in Registry /\ (a.uncaught \/ SameOwners(r, a))
    <2>1. r.players[s] \cap Flv \in SUBSET Flv
      OBVIOUS
    <2> QED
      BY <2>1, FlvStopFrees, FlvStopSame DEF StopFlvPlayers, Frees
  <1> HIDE DEF a, f
  <1>5. CASE s \notin r.publishing
    BY <1>1, <1>3, <1>5 DEF f
  <1>6. CASE s \in r.publishing /\ ~f.uncaught
    <2>1. ~a.uncaught /\ f = forget(Dismiss(a, s))
      BY <1>3, <1>4, <1>6, ThrowFrees
    <2>2. Owned(a) /\ s \in a.publishing
      BY <1>4, <1>6, <2>1, SameOwned DEF SameOwners
    <2>3. Owned(forget(Dismiss(a, s))) /\ s \notin forget(Dismiss(a, s)).publishing
      BY <1>1, <1>2, <1>4, <2>2
    <2> QED
      BY <2>1, <2>3 DEF f
  <1> QED
    BY <1>5, <1>6 DEF f

\* Closing a stream harms no owner, and ends the broadcast on that stream.
LEMMA DeleteStreamOwned ==
    ASSUME NEW r \in Registry, Owned(r), NEW s \in Rtmp, NEW id
    PROVE  LET f == DeleteStream(r, s, id)
           IN  f.uncaught \/ /\ Owned(f)
                             /\ id = r.publishStreamId[s] => s \notin f.publishing
  <1> DEFINE a == IF id = r.playStreamId[s] THEN ClosePlay(r, s) ELSE r
             f == DeleteStream(r, s, id)
  <1>1. f = IF ~a.uncaught /\ id = a.publishStreamId[s] THEN ClosePublish(a, s) ELSE a
    BY DEF DeleteStream
  <1>2. a \in Registry /\ (a.uncaught \/ SameOwners(r, a))
    <2>1. SameOwners(r, r)
      BY DEF SameOwners
    <2> QED
      BY <2>1, ClosePlayFrees, ClosePlaySame DEF Frees
  <1> HIDE DEF a, f
  <1>3. CASE a.uncaught
    BY <1>1, <1>3 DEF f
  <1>4. CASE ~a.uncaught
    <2>1. Owned(a) /\ a.publishStreamId = r.publishStreamId
      BY <1>2, <1>4, SameOwned DEF SameOwners
    <2>2. ClosePublish(a, s).uncaught
            \/ (Owned(ClosePublish(a, s)) /\ s \notin ClosePublish(a, s).publishing)
      BY <1>2, <2>1, ClosePublishOwned
    <2> QED
      BY <1>1, <1>4, <2>1, <2>2 DEF f
  <1> QED
    BY <1>3, <1>4

\* stop() ends the broadcast before it drops the session.
LEMMA RtmpStopOwned ==
    ASSUME NEW r \in Registry, Owned(r), NEW s \in Rtmp
    PROVE  RtmpStop(r, s).uncaught \/ Owned(RtmpStop(r, s))
  <1> DEFINE a == [r EXCEPT !.starting = @ \ {s}]
             b == IF a.playStreamId[s] > 0
                  THEN DeleteStream(a, s, a.playStreamId[s]) ELSE a
             c == IF ~b.uncaught /\ b.publishStreamId[s] > 0
                  THEN DeleteStream(b, s, b.publishStreamId[s]) ELSE b
             d == DropSession(c, s)
             f == RtmpStop(r, s)
  <1>1. f = IF s \notin r.starting THEN r ELSE IF c.uncaught THEN c ELSE d
    BY DEF RtmpStop
  <1>2. a \in Registry /\ Owned(a)
    <2>1. r.starting \ {s} \in SUBSET Sessions
      BY DEF Registry
    <2>2. a \in Registry /\ SameOwners(r, a)
      BY <2>1 DEF SameOwners, Registry
    <2> QED
      BY <2>2, SameOwned
  <1> HIDE DEF a
  <1>3. b \in Registry /\ (b.uncaught \/ Owned(b))
    BY <1>2, DeleteStreamFrees, DeleteStreamOwned DEF Frees
  <1> HIDE DEF b
  <1>4. c \in Registry
    BY <1>3, DeleteStreamFrees DEF Frees
  <1>5. ~c.uncaught => Owned(c) /\ s \notin c.publishing
    <2>1. CASE b.uncaught
      BY <2>1
    <2>2. CASE ~b.uncaught /\ b.publishStreamId[s] > 0
      BY <1>3, <2>2, DeleteStreamOwned
    <2>3. CASE ~b.uncaught /\ ~(b.publishStreamId[s] > 0)
      BY <1>3, <2>3 DEF Owned
    <2> QED
      BY <2>1, <2>2, <2>3
  <1> HIDE DEF c
  <1>6. ~c.uncaught => Owned(d)
    <2>1. /\ d.publishers = c.publishers /\ d.publishing = c.publishing
          /\ d.publishStreamPath = c.publishStreamPath
          /\ d.publishStreamId = c.publishStreamId
          /\ d.sessions = c.sessions \ {s}
      BY <1>4 DEF DropSession, Registry
    <2> HIDE DEF d
    <2> QED
      BY <1>5, <2>1 DEF Owned, OwnersAliveIn
  <1> HIDE DEF d, f
  <1>7. f.uncaught \/ Owned(f)
    BY <1>1, <1>6
  <1> QED
    BY <1>7 DEF f

\* onPublish gives a free name to a live session, and to no other.
LEMMA OnPublishOwned ==
    ASSUME NEW r \in Registry, Owned(r), Matches(r), ~r.uncaught,
           NEW s \in Rtmp, s \notin r.publishing,
           NEW path \in Paths, NEW id \in StreamIds, id > 0, NEW verdict
    PROVE  LET f == OnPublish(r, s, path, id, verdict) IN f.uncaught \/ Owned(f)
  <1> DEFINE pp == [r.publishStreamPath EXCEPT ![s] = path]
             pid == [r.publishStreamId EXCEPT ![s] = id]
             a0 == [r EXCEPT !.publishStreamPath[s] = path,
                             !.publishStreamId[s] = id]
             a == [r EXCEPT !.publishStreamPath = pp, !.publishStreamId = pid]
             b == IF verdict = "reject" THEN RtmpStop(a0, s) ELSE a0
             c == [b EXCEPT !.publishers[path] = s, !.publishing = @ \cup {s}]
             W == {p \in c.idlePlayers : c.playStreamPath[p] = path}
             f == OnPublish(r, s, path, id, verdict)
  <1>1. a0 = a
    BY DEF Registry
  <1>2. /\ pp \in [Rtmp -> Paths \cup {NoPath}] /\ pp[s] = path
        /\ \A x \in Rtmp \ {s} : pp[x] = r.publishStreamPath[x]
        /\ pid \in [Rtmp -> StreamIds \cup {0}] /\ pid[s] = id
        /\ \A x \in Rtmp \ {s} : pid[x] = r.publishStreamId[x]
    BY DEF Registry
  <1>3. \/ Refused(b, s, path, verdict) /\ f = b
        \/ ~Refused(b, s, path, verdict) /\ f \in {Throw(c), Serve(c, W, s)}
    BY Zenon DEF OnPublish
  <1> HIDE DEF pp, pid
  <1>4. /\ a \in Registry
        /\ a.publishers = r.publishers /\ a.publishing = r.publishing
        /\ a.sessions = r.sessions /\ a.starting = r.starting
        /\ a.publishStreamPath = pp /\ a.publishStreamId = pid
    BY <1>2 DEF Registry
  <1> HIDE DEF a0, a
  <1>5. Owned(a)
    BY <1>2, <1>4 DEF Owned, OwnersAliveIn, Registry
  <1>6. /\ b \in Registry
        /\ b.uncaught \/ Owned(b)
        /\ ~b.uncaught /\ s \in b.starting => b = a
    BY <1>1, <1>4, <1>5, RtmpStopFrees, RtmpStopOwned DEF Frees
  <1> HIDE DEF b, c, W, f
  <1>7. CASE Refused(b, s, path, verdict)
    BY <1>3, <1>6, <1>7 DEF f
  <1>8. CASE ~Refused(b, s, path, verdict)
    <2>1. /\ b = a /\ r.publishers[path] = Nobody /\ s \in r.sessions
          /\ f \in {Throw(c), Serve(c, W, s)}
      BY <1>3, <1>4, <1>6, <1>8 DEF Refused, Matches
    <2> DEFINE pubs == [a.publishers EXCEPT ![path] = s]
    <2>2. /\ c = [a EXCEPT !.publishers = pubs, !.publishing = @ \cup {s}]
          /\ pubs \in [Paths -> Rtmp \cup {Nobody}] /\ pubs[path] = s
          /\ \A x \in Paths \ {path} : pubs[x] = r.publishers[x]
          /\ a.publishing \cup {s} \in SUBSET Rtmp
      BY <1>4, <2>1 DEF Registry, c
    <2> HIDE DEF pubs
    <2>3. /\ c \in Registry
          /\ c.publishers = pubs /\ c.publishing = r.publishing \cup {s}
          /\ c.sessions = r.sessions
          /\ c.publishStreamPath = pp /\ c.publishStreamId = pid
      BY <1>4, <2>2 DEF Registry
    <2>4. OwnersAliveIn(c)
      <3>1. ASSUME NEW x \in Paths, pubs[x] # Nobody
            PROVE  pubs[x] \in r.sessions \cap c.publishing /\ pp[pubs[x]] = x
        BY <1>2, <2>1, <2>2, <2>3, <3>1 DEF Owned, OwnersAliveIn, Registry
      <3>2. ASSUME NEW x \in c.publishing
            PROVE  x \in r.sessions /\ pp[x] \in Paths /\ pubs[pp[x]] = x
        BY <1>2, <2>1, <2>2, <2>3, <3>2, RegistryAssumption
           DEF Owned, OwnersAliveIn, Registry
      <3> QED
        BY <2>3, <3>1, <3>2 DEF OwnersAliveIn
    <2>5. Owned(c)
      BY <1>2, <2>3, <2>4 DEF Owned, Registry
    <2>6. SameOwners(c, Serve(c, W, s))
      BY <2>3 DEF Serve, StartPlay, SameOwners, Registry
    <2>7. Throw(c).uncaught
      BY <2>3, ThrowFrees
    <2>8. Owned(Serve(c, W, s))
      BY <2>3, <2>5, <2>6, SameOwned
    <2>9. f.uncaught \/ Owned(f)
      BY <2>1, <2>7, <2>8
    <2> QED
      BY <2>9 DEF f
  <1> QED
    BY <1>7, <1>8

\* onPlay concerns owners only when the listener has the session stopped.
LEMMA OnPlayOwned ==
    ASSUME NEW r \in Registry, Owned(r), NEW s \in Rtmp,
           NEW path \in Paths, NEW id \in StreamIds, NEW verdict
    PROVE  LET f == OnPlay(r, s, path, id, verdict) IN f.uncaught \/ Owned(f)
  <1> DEFINE pp == [r.playStreamPath EXCEPT ![s] = path]
             pid == [r.playStreamId EXCEPT ![s] = id]
             a0 == [r EXCEPT !.playStreamPath[s] = path, !.playStreamId[s] = id]
             a == [r EXCEPT !.playStreamPath = pp, !.playStreamId = pid]
             b == IF verdict = "reject" THEN RtmpStop(a0, s) ELSE a0
             f == OnPlay(r, s, path, id, verdict)
  <1>1. a0 = a
    BY DEF Registry
  <1>2. /\ pp \in [Sessions -> Paths \cup {NoPath}]
        /\ pid \in [Rtmp -> StreamIds \cup {0}]
    BY DEF Registry
  <1>3. f \in {b, JoinOrWait(b, s, path)} /\ (b.uncaught => f = b)
    BY Zenon DEF OnPlay
  <1> HIDE DEF pp, pid
  <1>4. a \in Registry /\ SameOwners(r, a)
    BY <1>2 DEF SameOwners, Registry
  <1> HIDE DEF a0, a
  <1>5. Owned(a)
    BY <1>4, SameOwned
  <1>6. b \in Registry /\ (b.uncaught \/ Owned(b))
    BY <1>1, <1>4, <1>5, RtmpStopFrees, RtmpStopOwned DEF Frees
  <1> HIDE DEF b, f
  <1>7. CASE b.uncaught
    BY <1>3, <1>7 DEF f
  <1>8. CASE ~b.uncaught
    <2>1. JoinOrWait(b, s, path).uncaught \/ Owned(JoinOrWait(b, s, path))
      BY <1>6, <1>8, JoinOrWaitSame, SameOwned
    <2>2. f.uncaught \/ Owned(f)
      BY <1>3, <1>6, <1>8, <2>1
    <2> QED
      BY <2>2 DEF f
  <1> QED
    BY <1>7, <1>8

\* A session that enters, and a request, concern them never.
LEMMA EnterSame ==
    ASSUME NEW r \in Registry, NEW s \in Sessions
    PROVE  SameOwners(r, Enter(r, s))
  BY DEF SameOwners, Enter, Registry

LEMMA OnRequestOwned ==
    ASSUME NEW r \in Registry, Owned(r), NEW s \in Flv, NEW path \in Paths,
           NEW verdict \in Verdicts \cup {"refused"}
    PROVE  LET f == OnRequest(r, s, path, verdict) IN f.uncaught \/ Owned(f)
  <1> DEFINE a == Enter(r, s)
             pp == [a.playStreamPath EXCEPT ![s] = path]
             b == [a EXCEPT !.playStreamPath[s] = path]
             f == OnRequest(r, s, path, verdict)
  <1>1. f \in {FlvStop(a, {s}), FlvStop(b, {s}), b, JoinOrWait(b, s, path)}
    <2>1. f = CASE verdict = "refused" -> FlvStop(a, {s})
                [] verdict = "reject"  -> FlvStop(b, {s})
                [] verdict = "denied"  -> b
                [] verdict = "ok"      -> JoinOrWait(b, s, path)
      BY DEF OnRequest, Enter
    <2> HIDE DEF a, b, f
    <2> QED
      BY <2>1 DEF Verdicts
  <1>2. a \in Registry /\ Owned(a)
    BY EnterTyped, EnterSame, SameOwned
  <1> HIDE DEF a, f
  <1>3. b \in Registry /\ Owned(b)
    <2>1. pp \in [Sessions -> Paths \cup {NoPath}]
      BY <1>2 DEF Registry
    <2>2. b = [a EXCEPT !.playStreamPath = pp]
      BY <1>2 DEF Registry
    <2> HIDE DEF pp, b
    <2>3. b \in Registry /\ SameOwners(a, b)
      BY <1>2, <2>1, <2>2 DEF SameOwners, Registry
    <2> QED
      BY <1>2, <2>3, SameOwned
  <1> HIDE DEF b
  <1>4. ASSUME NEW q \in Registry, Owned(q)
        PROVE  /\ FlvStop(q, {s}).uncaught \/ Owned(FlvStop(q, {s}))
               /\ JoinOrWait(q, s, path).uncaught \/ Owned(JoinOrWait(q, s, path))
    BY <1>4, FlvStopSame, JoinOrWaitSame, SameOwned
  <1>5. f.uncaught \/ Owned(f)
    BY <1>1, <1>2, <1>3, <1>4
  <1> QED
    BY <1>5 DEF f

\* One step of a server with any players.
LEMMA OwnedStep ==
    ASSUME TypeOK, MapMatchesStarted, ~uncaught => Owned(ctx), [AnyPlayerNext]_vars
    PROVE  (~uncaught => Owned(ctx))'
  <1>1. ctx \in Registry /\ Matches(ctx) /\ ctx.uncaught = uncaught
    BY DEF TypeOK, MapMatchesStarted, Matches, ctx
  <1>2. ASSUME NEW r, Becomes(r), r \in Registry, r.uncaught \/ Owned(r)
        PROVE  (~uncaught => Owned(ctx))'
    BY <1>2, BecomesCtx DEF Becomes
  <1>3. CASE UNCHANGED vars
    BY <1>3 DEF vars, ctx
  <1>4. CASE AnyPlayerNext
    <2>1. ~ctx.uncaught /\ Owned(ctx)
      BY <1>1, <1>4 DEF AnyPlayerNext
    <2>2. ASSUME NEW s
          PROVE  LET e == [ctx EXCEPT !.open = @ \ {s}]
                 IN  e \in Registry /\ Owned(e)
      <3> DEFINE e == [ctx EXCEPT !.open = @ \ {s}]
      <3>1. ctx.open \ {s} \in SUBSET Sessions
        BY <1>1 DEF Registry
      <3>2. e \in Registry /\ SameOwners(ctx, e)
        BY <1>1, <3>1 DEF SameOwners, Registry
      <3> HIDE DEF e
      <3>3. Owned(e)
        BY <1>1, <2>1, <3>2, SameOwned
      <3> QED
        BY <3>2, <3>3 DEF e
    <2>3. ASSUME NEW s \in Rtmp, Accept(s) PROVE (~uncaught => Owned(ctx))'
      <3>1. Becomes(Enter(ctx, s)) /\ Enter(ctx, s) \in Registry
        BY <1>1, <2>3, EnterTyped DEF Accept, Enter
      <3>2. Owned(Enter(ctx, s))
        BY <1>1, <2>1, EnterSame, SameOwned
      <3> QED
        BY <1>2, <3>1, <3>2
    <2>4. ASSUME NEW s \in Rtmp, NEW path \in Paths, NEW id \in StreamIds,
                 NEW v \in Verdicts, MayPublish(s, id), Publish(s, path, id, v)
          PROVE  (~uncaught => Owned(ctx))'
      <3>1. id > 0 /\ s \notin ctx.publishing
        BY <2>4 DEF MayPublish, ctx
      <3>2. /\ OnPublish(ctx, s, path, id, v) \in Registry
            /\ OnPublish(ctx, s, path, id, v).uncaught
                 \/ Owned(OnPublish(ctx, s, path, id, v))
        BY <1>1, <2>1, <3>1, OnPublishTyped, OnPublishOwned
      <3> QED
        BY <1>2, <2>4, <3>2 DEF Publish
    <2>5. ASSUME NEW s \in Rtmp, NEW path \in Paths, NEW id \in StreamIds,
                 NEW v \in Verdicts, Play(s, path, id, v)
          PROVE  (~uncaught => Owned(ctx))'
      <3>1. /\ OnPlay(ctx, s, path, id, v) \in Registry
            /\ OnPlay(ctx, s, path, id, v).uncaught
                 \/ Owned(OnPlay(ctx, s, path, id, v))
        BY <1>1, <2>1, OnPlayTyped, OnPlayOwned
      <3> QED
        BY <1>2, <2>5, <3>1 DEF Play
    <2>6. ASSUME NEW s \in Rtmp, NEW id \in StreamIds, CloseStream(s, id)
          PROVE  (~uncaught => Owned(ctx))'
      <3>1. /\ DeleteStream(ctx, s, id) \in Registry
            /\ DeleteStream(ctx, s, id).uncaught \/ Owned(DeleteStream(ctx, s, id))
        BY <1>1, <2>1, DeleteStreamFrees, DeleteStreamOwned DEF Frees
      <3> QED
        BY <1>2, <2>6, <3>1 DEF CloseStream
    <2>7. ASSUME NEW s \in Rtmp, SocketEnd(s) PROVE (~uncaught => Owned(ctx))'
      <3> DEFINE e == [ctx EXCEPT !.open = @ \ {s}]
      <3>1. e \in Registry /\ Owned(e)
        BY <2>2
      <3>2. Becomes(RtmpStop(e, s))
        BY <2>7 DEF SocketEnd
      <3> HIDE DEF e
      <3>3. /\ RtmpStop(e, s) \in Registry
            /\ RtmpStop(e, s).uncaught \/ Owned(RtmpStop(e, s))
        BY <3>1, RtmpStopFrees, RtmpStopOwned DEF Frees
      <3> QED
        BY <1>2, <3>2, <3>3
    <2>8. ASSUME NEW s \in Flv, NEW path \in Paths,
                 NEW v \in Verdicts \cup {"refused"}, Request(s, path, v)
          PROVE  (~uncaught => Owned(ctx))'
      <3>1. /\ OnRequest(ctx, s, path, v) \in Registry
            /\ OnRequest(ctx, s, path, v).uncaught \/ Owned(OnRequest(ctx, s, path, v))
        BY <1>1, <2>1, OnRequestTyped, OnRequestOwned
      <3> QED
        BY <1>2, <2>8, <3>1 DEF Request
    <2>9. ASSUME NEW s \in Flv, RequestEnd(s) PROVE (~uncaught => Owned(ctx))'
      <3> DEFINE e == [ctx EXCEPT !.open = @ \ {s}]
      <3>1. e \in Registry /\ Owned(e)
        BY <2>2
      <3>2. Becomes(FlvStop(e, {s}))
        BY <2>9 DEF RequestEnd
      <3> HIDE DEF e
      <3>3. FlvStop(e, {s}) \in Registry
        BY <3>1, FlvStopFrees DEF Frees
      <3>4. FlvStop(e, {s}).uncaught \/ Owned(FlvStop(e, {s}))
        BY <3>1, FlvStopSame, SameOwned
      <3> QED
        BY <1>2, <3>2, <3>3, <3>4
    <2> QED
      BY <1>4, <2>3, <2>4, <2>5, <2>6, <2>7, <2>8, <2>9
         DEF AnyPlayerNext, OrderlyPublish, AnyPlay, Other
  <1> QED
    BY <1>3, <1>4

\* However clients play, as long as no handler has thrown a path is registered
\* exactly while the session it names is alive and publishes it.
THEOREM OwnersNeverHarmed == AnyPlayerSpec => []OwnersUnharmed
  <1>1. [AnyPlayerNext]_vars => [AnyNext]_vars
    BY DEF AnyPlayerNext, AnyNext, OrderlyPublish, AnyPublish
  <1>2. AnyPlayerSpec => [](TypeOK /\ MapMatchesStarted)
    BY <1>1, AnyTypeCorrect, MapAlwaysMatches, PTL DEF AnyPlayerSpec, AnySpec
  <1>3. Init => (~uncaught => Owned(ctx))
    BY DEF Init, Owned, OwnersAliveIn, ctx
  <1>4. TypeOK /\ MapMatchesStarted /\ (~uncaught => Owned(ctx)) /\ [AnyPlayerNext]_vars
          => (~uncaught => Owned(ctx))'
    BY OwnedStep
  <1>5. (~uncaught => Owned(ctx)) => OwnersUnharmed
    BY DEF Owned, OwnersUnharmed
  <1> QED
    BY <1>2, <1>3, <1>4, <1>5, PTL DEF AnyPlayerSpec
=============================================================================
