---------------------------- MODULE MediaFanout ----------------------------
(***************************************************************************)
(* What a publisher's session does with each message (rtmpAudioHandler,    *)
(* rtmpVideoHandler, rtmpDataHandler of node_rtmp_session.js) and what a   *)
(* player receives of it: the headers and the cached group of pictures     *)
(* when it joins (onStartPlay), then every message, an RTMP player through *)
(* its write queue.  StreamRegistry says who joins whom; here there is one *)
(* broadcast and each player plays it once.                                *)
(*                                                                         *)
(* A message is known by its place in the broadcast.                       *)
(***************************************************************************)
EXTENDS Integers, Sequences

CONSTANTS Players,
          QueueLimit,      \* 10 in writeBuffer
          MaxSent,         \* bound: messages of the broadcast
          MaxPauses        \* bound: calls of pause of a player

ASSUME FanoutAssumption ==
    QueueLimit \in Nat \ {0} /\ {MaxSent, MaxPauses} \subseteq Nat

VARIABLES
    flv,                 \* the players that came by HTTP, NodeFlvSession
    sent,                \* the kinds of the messages received from the publisher
    gopCacheEnable,
    metaData, aacSequenceHeader, avcSequenceHeader,   \* a message, or 0 for null
    gop,                 \* rtmpGopCacheQueue and flvGopCacheQueue; <<0>> for null
    joined,              \* the messages that were sent when the player joined, or -1
    isPause,
    pauses,              \* its calls of pause, for the bound
    written,             \* what was written to the player
    queue                \* writeBufferQueue

publisher == <<sent, gopCacheEnable, metaData, aacSequenceHeader, avcSequenceHeader, gop>>
player == <<flv, joined, isPause, pauses, written, queue>>
vars == <<publisher, player>>

Media == {"audio", "key", "inter"}
Kinds == {"meta", "aac", "avc"} \cup Media
Null == <<0>>

Init ==
    /\ sent = <<>> /\ gopCacheEnable \in BOOLEAN
    /\ metaData = 0 /\ aacSequenceHeader = 0 /\ avcSequenceHeader = 0 /\ gop = Null
    /\ flv \in SUBSET Players /\ joined = [p \in Players |-> -1]
    /\ isPause = [p \in Players |-> FALSE]
    /\ pauses = [p \in Players |-> 0]
    /\ written = [p \in Players |-> <<>>] /\ queue = written

-----------------------------------------------------------------------------
(* The publisher's messages.                                               *)

\* The environment: a publisher of AAC and H.264 sends the header of each first.
HeaderFirst(kind) ==
    /\ kind = "audio" => aacSequenceHeader # 0
    /\ kind \in {"key", "inter"} => avcSequenceHeader # 0

\* Variant: a key picture does not clear the cache.
GopKept(kind, n) ==
    CASE kind = "avc" -> IF gopCacheEnable THEN <<>> ELSE Null
      [] kind \in Media /\ gop # Null -> Append(gop, n)
      [] OTHER -> gop

\* The cache begins with the AVC header and again with each key picture.
GopAfter(kind, n) ==
    CASE kind = "avc" -> IF gopCacheEnable THEN <<>> ELSE Null
      [] kind = "key" /\ gop # Null -> <<n>>
      [] kind \in {"audio", "inter"} /\ gop # Null -> Append(gop, n)
      [] OTHER -> gop

\* Variant: one more is let in before the queue is written.
WriteLate(w, q, n) ==
    IF Len(q) + 1 > QueueLimit THEN [written |-> w \o Append(q, n), queue |-> <<>>]
                               ELSE [written |-> w, queue |-> Append(q, n)]

\* Variant: what finds the queue full goes ahead of it.
WriteFirst(w, q, n) ==
    IF Len(q) + 1 >= QueueLimit THEN [written |-> Append(w, n) \o q, queue |-> <<>>]
                                ELSE [written |-> w, queue |-> Append(q, n)]

writeBuffer(w, q, n) ==
    IF Len(q) + 1 >= QueueLimit THEN [written |-> w \o Append(q, n), queue |-> <<>>]
                                ELSE [written |-> w, queue |-> Append(q, n)]

\* What message n leaves of player p: metadata are written at once, media go
\* through the queue of an RTMP player.
Delivered(p, kind, n) ==
    IF joined[p] = -1 \/ isPause[p] THEN [written |-> written[p], queue |-> queue[p]]
    ELSE IF kind = "meta" \/ p \in flv
         THEN [written |-> Append(written[p], n), queue |-> queue[p]]
         ELSE writeBuffer(written[p], queue[p], n)

Handle(kind) ==
    LET n == Len(sent) + 1
    IN  /\ n <= MaxSent /\ HeaderFirst(kind)
        /\ sent' = Append(sent, kind)
        /\ metaData' = IF kind = "meta" THEN n ELSE metaData
        /\ aacSequenceHeader' = IF kind = "aac" THEN n ELSE aacSequenceHeader
        /\ avcSequenceHeader' = IF kind = "avc" THEN n ELSE avcSequenceHeader
        /\ gop' = GopAfter(kind, n)
        /\ written' = [p \in Players |-> Delivered(p, kind, n).written]
        /\ queue' = [p \in Players |-> Delivered(p, kind, n).queue]
        /\ UNCHANGED <<gopCacheEnable, flv, joined, isPause, pauses>>

rtmpAudioHandler == \E kind \in {"aac", "audio"} : Handle(kind)
rtmpVideoHandler == \E kind \in {"avc", "key", "inter"} : Handle(kind)
rtmpDataHandler == Handle("meta")

-----------------------------------------------------------------------------
(* The players.                                                            *)

Present(n) == IF n = 0 THEN <<>> ELSE <<n>>
Headers == Present(aacSequenceHeader) \o Present(avcSequenceHeader)

onStartPlay(p) ==
    /\ joined[p] = -1
    /\ joined' = [joined EXCEPT ![p] = Len(sent)]
    /\ written' = [written EXCEPT ![p] =
            Present(metaData) \o Headers \o (IF gop = Null THEN <<>> ELSE gop)]
    /\ UNCHANGED <<publisher, flv, isPause, pauses, queue>>

\* The headers are written again, ahead of what the queue still holds.
onPause(p) ==
    /\ joined[p] # -1 /\ p \notin flv /\ pauses[p] < MaxPauses
    /\ isPause' = [isPause EXCEPT ![p] = ~@]
    /\ pauses' = [pauses EXCEPT ![p] = @ + 1]
    /\ written' = IF isPause[p] THEN [written EXCEPT ![p] = @ \o Headers] ELSE written
    /\ UNCHANGED <<publisher, flv, joined, queue>>

Next ==
    \/ rtmpAudioHandler \/ rtmpVideoHandler \/ rtmpDataHandler
    \/ \E p \in Players : onStartPlay(p) \/ onPause(p)

Spec == Init /\ [][Next]_vars

-----------------------------------------------------------------------------
(* Properties.                                                             *)

Stream(p) == written[p] \o queue[p]

\* Every field holds what the code stores there, and no player is more than
\* QueueLimit messages behind.
TypeOK ==
    /\ sent \in Seq(Kinds)
    /\ {metaData, aacSequenceHeader, avcSequenceHeader} \subseteq 0..Len(sent)
    /\ \A p \in Players : Len(queue[p]) < QueueLimit
    /\ \A p \in flv : queue[p] = <<>>

\* The last message of a kind among the first j, or 0.
LastOf(kinds, j) ==
    LET N == {n \in 1..j : sent[n] \in kinds}
    IN  IF N = {} THEN 0 ELSE CHOOSE n \in N : \A i \in N : i <= n

\* What a player that joins after j messages is told first.
HeadersAt(j) ==
    Present(LastOf({"meta"}, j)) \o (Present(LastOf({"aac"}, j)) \o Present(LastOf({"avc"}, j)))

\* What it has missed and can still use: all media since the last key picture
\* or, if that came before the header, since the header.
Group(j) ==
    {n \in LastOf({"avc", "key"}, j)..j :
        gopCacheEnable /\ LastOf({"avc"}, j) # 0 /\ sent[n] \in Media}

\* A player that is never paused receives the headers in force, and then the group
\* of pictures it joined in from its key picture on and every message of the
\* broadcast, all but the metadata each once and in order: nothing is lost between
\* the cache and the queue, or where the queue is written.
Feed ==
    \A p \in Players : joined[p] # -1 /\ pauses[p] = 0 =>
        LET h == HeadersAt(joined[p])
            rest == SubSeq(Stream(p), Len(h) + 1, Len(Stream(p)))
        IN  /\ Stream(p) = h \o rest
            /\ {rest[i] : i \in 1..Len(rest)} = Group(joined[p]) \cup (joined[p] + 1..Len(sent))
            /\ \A i, k \in 1..Len(rest) :
                  /\ i < k
                  /\ sent[rest[i]] # "meta" /\ sent[rest[k]] # "meta"
                  => rest[i] < rest[k]

\* Paused or not, a player never receives a picture or a sound twice or after a
\* later one.
InOrder ==
    \A p \in Players : \A i, j \in 1..Len(Stream(p)) :
        /\ i < j
        /\ sent[Stream(p)[i]] \in Media /\ sent[Stream(p)[j]] \in Media
        => Stream(p)[i] < Stream(p)[j]
=============================================================================
