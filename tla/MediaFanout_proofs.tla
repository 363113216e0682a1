-------------------------- MODULE MediaFanout_proofs --------------------------
(***************************************************************************)
(* Proofs about what a player is written, for any number of players,       *)
(* messages and pauses and any length of the write queue.                  *)
(***************************************************************************)
EXTENDS MediaFanout, SequenceTheorems, WellFoundedInduction, TLAPS

\* The messages received so far, and the media among them.
Received == 1..Len(sent)
MediaAt == {n \in Received : sent[n] \in Media}
NotMeta == {n \in Received : sent[n] # "meta"}

\* The messages s consists of.
Holds(s) == {s[i] : i \in 1..Len(s)}

\* What s holds of M, it holds in ascending order.
Ordered(s, M) ==
    \A i, j \in 1..Len(s) : i < j /\ s[i] \in M /\ s[j] \in M => s[i] < s[j]

\* What s holds of M is below what t holds of it.
Before(s, t, M) ==
    \A i \in 1..Len(s), j \in 1..Len(t) : s[i] \in M /\ t[j] \in M => s[i] < t[j]

Quiet(s, M) == \A i \in 1..Len(s) : s[i] \notin M

\* A header that was kept is a message of the broadcast and no media.
HeadersOK ==
    /\ {metaData, aacSequenceHeader, avcSequenceHeader} \subseteq 0..Len(sent)
    /\ {metaData, aacSequenceHeader, avcSequenceHeader} \cap MediaAt = {}

\* The cached group of pictures is in the order of the broadcast.
GopOK == gop # Null => gop \in Seq(Received) /\ Ordered(gop, MediaAt)

PlayersOK ==
    /\ joined \in [Players -> Int] /\ flv \subseteq Players
    /\ written \in [Players -> Seq(Received)]
    /\ queue \in [Players -> Seq(Received)]

\* Only an RTMP player that has joined has a queue, and it never gets full.
QueuesOK ==
    \A p \in Players :
        /\ Len(queue[p]) < QueueLimit
        /\ p \in flv \/ joined[p] = -1 => queue[p] = <<>>

\* What a player was written and what waits for it are in order together.
StreamsOK == \A p \in Players : Ordered(Stream(p), MediaAt)

\* The headers that are kept are the ones in force, and the cached group is what
\* a player that joined now would have missed.
CachesOK ==
    /\ metaData = LastOf({"meta"}, Len(sent))
    /\ aacSequenceHeader = LastOf({"aac"}, Len(sent))
    /\ avcSequenceHeader = LastOf({"avc"}, Len(sent))
    /\ gop # Null <=> gopCacheEnable = TRUE /\ avcSequenceHeader # 0
    /\ gop # Null => Ordered(gop, Received) /\ Holds(gop) = Group(Len(sent))

\* What player p was written after the headers, and what waits for it, is all it
\* missed and all that came since, in order.
Fed(p) ==
    \E b \in Seq(Received) :
        /\ written[p] = HeadersAt(joined[p]) \o b
        /\ Ordered(b \o queue[p], NotMeta)
        /\ Holds(b \o queue[p]) = Group(joined[p]) \cup (joined[p] + 1..Len(sent))

\* So it is for every player that was not paused.
FedOK ==
    /\ pauses \in [Players -> Nat] /\ isPause \in [Players -> BOOLEAN]
    /\ \A p \in Players :
        /\ pauses[p] = 0 => isPause[p] = FALSE
        /\ joined[p] # -1 => joined[p] \in 0..Len(sent)
        /\ joined[p] # -1 /\ pauses[p] = 0 => Fed(p)

FanoutInv ==
    /\ sent \in Seq(Kinds) /\ HeadersOK /\ GopOK /\ PlayersOK /\ QueuesOK /\ StreamsOK
    /\ CachesOK /\ FedOK

-----------------------------------------------------------------------------
(* Sequences in order.                                                     *)

\* A concatenation is in order when its parts are, and the first is before the second.
LEMMA OrderedConcat ==
  ASSUME NEW s \in Seq(Nat), NEW t \in Seq(Nat), NEW M
  PROVE  Ordered(s \o t, M) <=> Ordered(s, M) /\ Ordered(t, M) /\ Before(s, t, M)
PROOF
  <1>1. /\ Len(s) \in Nat /\ Len(t) \in Nat /\ Len(s \o t) = Len(s) + Len(t)
        /\ \A i \in 1..(Len(s) + Len(t)) :
              (s \o t)[i] = IF i <= Len(s) THEN s[i] ELSE t[i - Len(s)]
    BY ConcatProperties
  <1>2. ASSUME Ordered(s \o t, M)
        PROVE  Ordered(s, M) /\ Ordered(t, M) /\ Before(s, t, M)
    <2>1. ASSUME NEW i \in 1..Len(s), NEW j \in 1..Len(s), i < j, s[i] \in M, s[j] \in M
          PROVE  s[i] < s[j]
      <3>1. /\ i \in 1..Len(s \o t) /\ j \in 1..Len(s \o t)
            /\ (s \o t)[i] = s[i] /\ (s \o t)[j] = s[j]
        BY <1>1
      <3> QED
        BY <3>1, <2>1, <1>2 DEF Ordered
    <2>2. ASSUME NEW i \in 1..Len(t), NEW j \in 1..Len(t), i < j, t[i] \in M, t[j] \in M
          PROVE  t[i] < t[j]
      <3>1. /\ Len(s) + i \in 1..Len(s \o t) /\ Len(s) + j \in 1..Len(s \o t)
            /\ (s \o t)[Len(s) + i] = t[i] /\ (s \o t)[Len(s) + j] = t[j]
            /\ Len(s) + i < Len(s) + j
        BY <1>1, <2>2
      <3> QED
        BY <3>1, <2>2, <1>2 DEF Ordered
    <2>3. ASSUME NEW i \in 1..Len(s), NEW j \in 1..Len(t), s[i] \in M, t[j] \in M
          PROVE  s[i] < t[j]
      <3>1. /\ i \in 1..Len(s \o t) /\ Len(s) + j \in 1..Len(s \o t)
            /\ (s \o t)[i] = s[i] /\ (s \o t)[Len(s) + j] = t[j]
            /\ i < Len(s) + j
        BY <1>1
      <3> QED
        BY <3>1, <2>3, <1>2 DEF Ordered
    <2> QED
      BY <2>1, <2>2, <2>3 DEF Ordered, Before
  <1>3. ASSUME Ordered(s, M), Ordered(t, M), Before(s, t, M)
        PROVE  Ordered(s \o t, M)
    <2> SUFFICES ASSUME NEW i \in 1..Len(s \o t), NEW j \in 1..Len(s \o t), i < j,
                        (s \o t)[i] \in M, (s \o t)[j] \in M
                 PROVE  (s \o t)[i] < (s \o t)[j]
      BY DEF Ordered
    <2>1. CASE j <= Len(s)
      BY <1>1, <1>3, <2>1 DEF Ordered
    <2>2. CASE i > Len(s)
      <3>1. /\ i - Len(s) \in 1..Len(t) /\ j - Len(s) \in 1..Len(t)
            /\ i - Len(s) < j - Len(s)
            /\ (s \o t)[i] = t[i - Len(s)] /\ (s \o t)[j] = t[j - Len(s)]
        BY <1>1, <2>2
      <3> QED
        BY <3>1, <1>3 DEF Ordered
    <2>3. CASE i <= Len(s) /\ j > Len(s)
      <3>1. /\ i \in 1..Len(s) /\ j - Len(s) \in 1..Len(t)
            /\ (s \o t)[i] = s[i] /\ (s \o t)[j] = t[j - Len(s)]
        BY <1>1, <2>3
      <3> QED
        BY <3>1, <1>3 DEF Before
    <2> QED
      BY <1>1, <2>1, <2>2, <2>3
  <1> QED
    BY <1>2, <1>3

\* What holds no media can be put anywhere.
LEMMA InsertQuiet ==
  ASSUME NEW s \in Seq(Nat), NEW t \in Seq(Nat), NEW u \in Seq(Nat), NEW M,
         Ordered(s \o u, M), Quiet(t, M)
  PROVE  Ordered((s \o t) \o u, M)
PROOF
  <1>1. Ordered(s, M) /\ Ordered(u, M) /\ Before(s, u, M)
    BY OrderedConcat
  <1>2. Ordered(t, M) /\ Before(s, t, M) /\ Before(t, u, M)
    BY DEF Quiet, Ordered, Before
  <1>3. /\ s \o t \in Seq(Nat) /\ Len(s) \in Nat /\ Len(t) \in Nat
        /\ Len(s \o t) = Len(s) + Len(t)
        /\ \A i \in 1..(Len(s) + Len(t)) :
              (s \o t)[i] = IF i <= Len(s) THEN s[i] ELSE t[i - Len(s)]
    BY ConcatProperties
  <1>4. Ordered(s \o t, M)
    BY <1>1, <1>2, OrderedConcat
  <1>5. Before(s \o t, u, M)
    <2> SUFFICES ASSUME NEW i \in 1..Len(s \o t), NEW j \in 1..Len(u),
                        (s \o t)[i] \in M, u[j] \in M
                 PROVE  (s \o t)[i] < u[j]
      BY DEF Before
    <2>1. CASE i <= Len(s)
      BY <1>1, <1>3, <2>1 DEF Before
    <2>2. CASE i > Len(s)
      <3>1. i - Len(s) \in 1..Len(t) /\ (s \o t)[i] = t[i - Len(s)]
        BY <1>3, <2>2
      <3> QED
        BY <3>1, <1>2 DEF Before
    <2> QED
      BY <1>3, <2>1, <2>2
  <1> QED
    BY <1>1, <1>3, <1>4, <1>5, OrderedConcat

\* A message later than all in s may follow s.
LEMMA AppendLater ==
  ASSUME NEW N \in Nat, NEW s \in Seq(1..N), NEW M, Ordered(s, M)
  PROVE  Ordered(Append(s, N + 1), M)
PROOF
  <1>1. /\ Len(s) \in Nat /\ Len(Append(s, N + 1)) = Len(s) + 1
        /\ \A i \in 1..Len(s) : Append(s, N + 1)[i] = s[i] /\ s[i] \in 1..N
        /\ Append(s, N + 1)[Len(s) + 1] = N + 1
    BY AppendProperties, ElementOfSeq
  <1> SUFFICES ASSUME NEW i \in 1..(Len(s) + 1), NEW j \in 1..(Len(s) + 1), i < j,
                      Append(s, N + 1)[i] \in M, Append(s, N + 1)[j] \in M
               PROVE  Append(s, N + 1)[i] < Append(s, N + 1)[j]
    BY <1>1 DEF Ordered
  <1>2. CASE j = Len(s) + 1
    <2>1. i \in 1..Len(s)
      BY <1>1, <1>2
    <2> QED
      BY <1>1, <1>2, <2>1
  <1>3. CASE j # Len(s) + 1
    <2>1. i \in 1..Len(s) /\ j \in 1..Len(s)
      BY <1>1, <1>3
    <2> QED
      BY <1>1, <2>1 DEF Ordered
  <1> QED
    BY <1>2, <1>3

\* Order among the old messages is not changed by a new one.
LEMMA SameOrder ==
  ASSUME NEW A, NEW s \in Seq(A), NEW M, NEW L, M \cap A = L \cap A
  PROVE  /\ Ordered(s, M) <=> Ordered(s, L)
         /\ Quiet(s, M) <=> Quiet(s, L)
PROOF
  <1>1. \A i \in 1..Len(s) : s[i] \in A
    BY ElementOfSeq
  <1>2. \A i \in 1..Len(s) : s[i] \in M <=> s[i] \in L
    BY <1>1
  <1> QED
    BY <1>2 DEF Ordered, Quiet

\* A sequence of early messages is one of messages.
LEMMA Widen ==
  ASSUME NEW n \in Nat, NEW m \in Nat, n <= m, NEW s \in Seq(1..n)
  PROVE  s \in Seq(1..m) /\ s \in Seq(Nat)
PROOF
  <1>1. /\ Len(s) \in Nat /\ s = [i \in 1..Len(s) |-> s[i]]
        /\ \A i \in 1..Len(s) : s[i] \in 1..n
    BY ElementOfSeq, LenProperties
  <1>2. \A i \in 1..Len(s) : s[i] \in 1..m /\ s[i] \in Nat
    BY <1>1
  <1> QED
    BY <1>1, <1>2, IsASeq

-----------------------------------------------------------------------------
(* A message of the publisher.                                             *)

\* The broadcast grows by one message; which of the old ones are media stays.
LEMMA OneMore ==
  ASSUME NEW kind \in Kinds, sent \in Seq(Kinds), Handle(kind)
  PROVE  /\ Len(sent) \in Nat
         /\ sent' \in Seq(Kinds) /\ Len(sent') = Len(sent) + 1
         /\ MediaAt' \cap Received = MediaAt /\ MediaAt \subseteq Received
         /\ Len(sent) + 1 \in MediaAt' <=> kind \in Media
PROOF
  <1>1. sent' = Append(sent, kind)
    BY DEF Handle
  <1>2. /\ Len(sent) \in Nat /\ sent' \in Seq(Kinds) /\ Len(sent') = Len(sent) + 1
        /\ \A i \in 1..Len(sent) : sent'[i] = sent[i]
        /\ sent'[Len(sent) + 1] = kind
    BY <1>1, AppendProperties, LenProperties
  <1> QED
    BY <1>2 DEF MediaAt, Received

\* A header that is kept is the message just received, and no media.
LEMMA HandleHeaders ==
  ASSUME NEW kind \in Kinds, sent \in Seq(Kinds), HeadersOK, Handle(kind)
  PROVE  HeadersOK'
PROOF
  <1>1. /\ metaData' = IF kind = "meta" THEN Len(sent) + 1 ELSE metaData
        /\ aacSequenceHeader' = IF kind = "aac" THEN Len(sent) + 1 ELSE aacSequenceHeader
        /\ avcSequenceHeader' = IF kind = "avc" THEN Len(sent) + 1 ELSE avcSequenceHeader
    BY DEF Handle
  <1>2. /\ metaData \in 0..Len(sent) /\ metaData \notin MediaAt
        /\ aacSequenceHeader \in 0..Len(sent) /\ aacSequenceHeader \notin MediaAt
        /\ avcSequenceHeader \in 0..Len(sent) /\ avcSequenceHeader \notin MediaAt
    BY DEF HeadersOK
  <1>3. \A h \in 0..Len(sent) : h \notin MediaAt => h \in 0..Len(sent') /\ h \notin MediaAt'
    BY OneMore DEF Received, MediaAt
  <1>4. kind \notin Media => Len(sent) + 1 \in 0..Len(sent') /\ Len(sent) + 1 \notin MediaAt'
    BY OneMore
  <1>5. metaData' \in 0..Len(sent') /\ metaData' \notin MediaAt'
    BY <1>1, <1>2, <1>3, <1>4 DEF Media
  <1>6. aacSequenceHeader' \in 0..Len(sent') /\ aacSequenceHeader' \notin MediaAt'
    BY <1>1, <1>2, <1>3, <1>4 DEF Media
  <1>7. avcSequenceHeader' \in 0..Len(sent') /\ avcSequenceHeader' \notin MediaAt'
    BY <1>1, <1>2, <1>3, <1>4 DEF Media
  <1> QED
    BY <1>5, <1>6, <1>7 DEF HeadersOK

\* A sequence that was in order is in order still, and so it is with the new message.
LEMMA StillOrdered ==
  ASSUME NEW kind \in Kinds, sent \in Seq(Kinds), Handle(kind), NEW s \in Seq(Received),
         Ordered(s, MediaAt)
  PROVE  /\ s \in Seq(Received') /\ Ordered(s, MediaAt')
         /\ Append(s, Len(sent) + 1) \in Seq(Received')
         /\ Ordered(Append(s, Len(sent) + 1), MediaAt')
PROOF
  <1>1. s \in Seq(Received')
    BY OneMore, Widen DEF Received
  <1>2. Ordered(s, MediaAt')
    <2>1. MediaAt' \cap Received = MediaAt \cap Received
      BY OneMore
    <2> QED
      BY <2>1, SameOrder
  <1>3. Len(sent) + 1 \in Received'
    BY OneMore DEF Received
  <1>4. Append(s, Len(sent) + 1) \in Seq(Received')
    BY <1>1, <1>3, AppendProperties
  <1>5. Ordered(Append(s, Len(sent) + 1), MediaAt')
    BY <1>2, OneMore, AppendLater DEF Received
  <1> QED
    BY <1>1, <1>2, <1>4, <1>5

\* The cached group of pictures grows at its end, or starts again.
LEMMA HandleGop ==
  ASSUME NEW kind \in Kinds, sent \in Seq(Kinds), GopOK, Handle(kind)
  PROVE  GopOK'
PROOF
  <1>1. gop' = GopAfter(kind, Len(sent) + 1)
    BY DEF Handle
  <1>2. <<>> \in Seq(Received) /\ Ordered(<<>>, MediaAt)
    BY DEF Ordered
  <1>3. CASE gop' = Null
    BY <1>3 DEF GopOK
  <1>4. CASE gop' = gop /\ gop # Null
    BY <1>4, StillOrdered DEF GopOK
  <1>5. CASE gop' = <<>>
    BY <1>2, <1>5, StillOrdered DEF GopOK
  <1>6. CASE gop' = <<Len(sent) + 1>>
    <2>1. gop' = Append(<<>>, Len(sent) + 1)
      BY <1>6
    <2> QED
      BY <1>2, <2>1, StillOrdered DEF GopOK
  <1>7. CASE gop' = Append(gop, Len(sent) + 1) /\ gop # Null
    BY <1>7, StillOrdered DEF GopOK
  <1>8. \/ gop' = Null
        \/ gop' = gop /\ gop # Null
        \/ gop' = <<>>
        \/ gop' = <<Len(sent) + 1>>
        \/ gop' = Append(gop, Len(sent) + 1) /\ gop # Null
    <2>1. CASE kind = "avc"
      BY <1>1, <2>1 DEF GopAfter
    <2>2. CASE kind = "key"
      BY <1>1, <2>2 DEF GopAfter
    <2>3. CASE kind \in {"audio", "inter"}
      BY <1>1, <2>3 DEF GopAfter
    <2>4. CASE kind \in {"meta", "aac"}
      BY <1>1, <2>4 DEF GopAfter
    <2> QED
      BY <2>1, <2>2, <2>3, <2>4 DEF Kinds, Media
  <1> QED
    BY <1>3, <1>4, <1>5, <1>6, <1>7, <1>8

\* What a message leaves of a player: nothing new, the message at the end, or
\* metadata ahead of the queue.
LEMMA Delivery ==
  ASSUME NEW kind \in Kinds, sent \in Seq(Kinds), PlayersOK, QueuesOK, NEW p \in Players,
         NEW d, d = Delivered(p, kind, Len(sent) + 1)
  PROVE  /\ \/ /\ joined[p] = -1 \/ isPause[p]
               /\ d.written = written[p] /\ d.queue = queue[p]
            \/ kind = "meta" /\ d.written = Append(written[p], Len(sent) + 1) /\ d.queue = queue[p]
            \/ d.queue = <<>> /\ d.written = written[p] \o Append(queue[p], Len(sent) + 1)
            \/ d.written = written[p] /\ d.queue = Append(queue[p], Len(sent) + 1)
         /\ Len(d.queue) < QueueLimit
         /\ p \in flv \/ joined[p] = -1 => d.queue = <<>>
PROOF
  <1>1. /\ queue[p] \in Seq(Received) /\ written[p] \in Seq(Received)
        /\ Len(queue[p]) \in Nat /\ Len(queue[p]) < QueueLimit
        /\ p \in flv \/ joined[p] = -1 => queue[p] = <<>>
        /\ Len(Append(queue[p], Len(sent) + 1)) = Len(queue[p]) + 1
    BY LenProperties, AppendProperties DEF PlayersOK, QueuesOK
  <1>2. QueueLimit \in Nat \ {0} /\ Len(<<>>) = 0
    BY FanoutAssumption
  <1>3. CASE joined[p] = -1 \/ isPause[p]
    <2>1. d = [written |-> written[p], queue |-> queue[p]]
      BY <1>3 DEF Delivered
    <2>2. d.written = written[p] /\ d.queue = queue[p]
      BY <2>1
    <2> QED
      BY <2>2, <1>1, <1>3
  <1>4. CASE ~(joined[p] = -1 \/ isPause[p]) /\ (kind = "meta" \/ p \in flv)
    <2>1. d = [written |-> Append(written[p], Len(sent) + 1), queue |-> queue[p]]
      BY <1>4 DEF Delivered
    <2>2. d.written = Append(written[p], Len(sent) + 1) /\ d.queue = queue[p]
      BY <2>1
    <2>3. CASE kind = "meta"
      BY <2>2, <2>3, <1>1
    <2>4. CASE p \in flv
      <3>1. queue[p] = <<>>
        BY <1>1, <2>4
      <3>2. Append(<<>>, Len(sent) + 1) = <<Len(sent) + 1>>
        OBVIOUS
      <3>3. d.written = written[p] \o Append(queue[p], Len(sent) + 1)
        BY <3>1, <3>2, <2>2, <1>1, AppendIsConcat
      <3> QED
        BY <3>1, <3>3, <2>2, <1>1, <1>2
    <2> QED
      BY <2>3, <2>4, <1>4
  <1>5. CASE ~(joined[p] = -1 \/ isPause[p]) /\ ~(kind = "meta" \/ p \in flv)
    <2> DEFINE longer == Append(queue[p], Len(sent) + 1)
               all == written[p] \o longer
    <2>1. d = writeBuffer(written[p], queue[p], Len(sent) + 1)
      BY <1>5 DEF Delivered
    <2>2. d = IF Len(queue[p]) + 1 >= QueueLimit
              THEN [written |-> all, queue |-> <<>>]
              ELSE [written |-> written[p], queue |-> longer]
      BY <2>1 DEF writeBuffer
    <2>3. Len(longer) = Len(queue[p]) + 1
      BY <1>1
    <2> HIDE DEF longer, all
    <2>4. CASE Len(queue[p]) + 1 >= QueueLimit
      <3>1. d.written = all /\ d.queue = <<>>
        BY <2>2, <2>4
      <3>2. Len(d.queue) < QueueLimit
        BY <3>1, <1>2
      <3> QED
        BY <3>1, <3>2 DEF all, longer
    <2>5. CASE ~(Len(queue[p]) + 1 >= QueueLimit)
      <3>1. d.written = written[p] /\ d.queue = longer
        BY <2>2, <2>5
      <3>2. Len(d.queue) < QueueLimit
        BY <3>1, <2>3, <2>5, <1>1, <1>2
      <3>3. ~(p \in flv \/ joined[p] = -1)
        BY <1>5
      <3> QED
        BY <3>1, <3>2, <3>3 DEF longer
    <2> QED
      BY <2>4, <2>5
  <1> QED
    BY <1>3, <1>4, <1>5

\* Each player's queue stays short, and its stream in order.
LEMMA HandlePlayers ==
  ASSUME NEW kind \in Kinds, sent \in Seq(Kinds), PlayersOK, QueuesOK, StreamsOK, Handle(kind)
  PROVE  PlayersOK' /\ QueuesOK' /\ StreamsOK'
PROOF
  <1> DEFINE n == Len(sent) + 1
  <1>1. /\ written' = [p \in Players |-> Delivered(p, kind, n).written]
        /\ queue' = [p \in Players |-> Delivered(p, kind, n).queue]
        /\ UNCHANGED <<flv, joined>>
    BY DEF Handle
  <1>2. ASSUME NEW p \in Players
        PROVE  /\ written'[p] \in Seq(Received') /\ queue'[p] \in Seq(Received')
               /\ Ordered(written'[p] \o queue'[p], MediaAt')
               /\ Len(queue'[p]) < QueueLimit
               /\ p \in flv' \/ joined'[p] = -1 => queue'[p] = <<>>
    <2> DEFINE d == Delivered(p, kind, n)
    <2>1. written'[p] = d.written /\ queue'[p] = d.queue
      BY <1>1
    <2>2. /\ Len(d.queue) < QueueLimit
          /\ p \in flv \/ joined[p] = -1 => d.queue = <<>>
      BY Delivery
    <2> DEFINE w == written[p]
               q == queue[p]
    <2>3. /\ w \in Seq(Received) /\ q \in Seq(Received)
          /\ w \o q \in Seq(Received) /\ Ordered(w \o q, MediaAt)
      BY ConcatProperties DEF PlayersOK, StreamsOK, Stream
    <2> HIDE DEF w, q
    <2>4. /\ w \o q \in Seq(Received') /\ Ordered(w \o q, MediaAt')
          /\ Append(w \o q, n) \in Seq(Received') /\ Ordered(Append(w \o q, n), MediaAt')
      BY <2>3, StillOrdered
    <2>5. /\ w \in Seq(Received') /\ q \in Seq(Received') /\ n \in Received'
          /\ <<>> \in Seq(Received')
      BY <2>3, OneMore, Widen DEF Received
    <2>6. /\ Append(w, n) \in Seq(Received') /\ Append(q, n) \in Seq(Received')
          /\ w \o Append(q, n) \in Seq(Received')
      BY <2>5, AppendProperties, ConcatProperties
    <2>7. w \o Append(q, n) = Append(w \o q, n)
      BY <2>5, <2>4, AppendIsConcat, ConcatAssociative
    <2>8. /\ d.written \in Seq(Received') /\ d.queue \in Seq(Received')
          /\ Ordered(d.written \o d.queue, MediaAt')
      <3>1. CASE d.written = w /\ d.queue = q
        BY <3>1, <2>4, <2>5
      <3>2. CASE kind = "meta" /\ d.written = Append(w, n) /\ d.queue = q
        <4>1. /\ w \in Seq(Nat) /\ <<n>> \in Seq(Nat) /\ q \in Seq(Nat)
          BY <2>3, OneMore, Widen DEF Received
        <4>2. Quiet(<<n>>, MediaAt')
          BY <3>2, OneMore DEF Quiet, Media
        <4>3. Append(w, n) = w \o <<n>>
          BY <2>5, AppendIsConcat
        <4>4. Ordered((w \o <<n>>) \o q, MediaAt')
          BY <4>1, <4>2, <2>4, InsertQuiet
        <4> QED
          BY <3>2, <4>3, <4>4, <2>5, <2>6
      <3>3. CASE d.queue = <<>> /\ d.written = w \o Append(q, n)
        <4>1. (w \o Append(q, n)) \o <<>> = w \o Append(q, n)
          BY <2>6, ConcatEmptySeq
        <4> QED
          BY <3>3, <4>1, <2>4, <2>5, <2>6, <2>7
      <3>4. CASE d.written = w /\ d.queue = Append(q, n)
        BY <3>4, <2>4, <2>5, <2>6, <2>7
      <3>5. \/ d.written = w /\ d.queue = q
            \/ kind = "meta" /\ d.written = Append(w, n) /\ d.queue = q
            \/ d.queue = <<>> /\ d.written = w \o Append(q, n)
            \/ d.written = w /\ d.queue = Append(q, n)
        BY Delivery DEF w, q
      <3> QED
        BY <3>1, <3>2, <3>3, <3>4, <3>5
    <2> QED
      BY <2>1, <2>2, <2>8, <1>1
  <1>3. PlayersOK'
    <2>1. written' \in [Players -> Seq(Received')]
      BY <1>1, <1>2
    <2>2. queue' \in [Players -> Seq(Received')]
      BY <1>1, <1>2
    <2> QED
      BY <2>1, <2>2, <1>1 DEF PlayersOK
  <1>4. QueuesOK'
    BY <1>2 DEF QueuesOK
  <1>5. StreamsOK'
    BY <1>2 DEF StreamsOK, Stream
  <1> QED
    BY <1>3, <1>4, <1>5

-----------------------------------------------------------------------------
(* A player.                                                               *)

\* The headers are a sequence without media.
LEMMA QuietHeaders ==
  ASSUME HeadersOK, Len(sent) \in Nat
  PROVE  /\ Present(metaData) \in Seq(Received) /\ Quiet(Present(metaData), MediaAt)
         /\ Headers \in Seq(Received) /\ Quiet(Headers, MediaAt)
PROOF
  <1>1. ASSUME NEW h \in 0..Len(sent), h \notin MediaAt
        PROVE  Present(h) \in Seq(Received) /\ Quiet(Present(h), MediaAt)
    <2>1. CASE h = 0
      BY <2>1 DEF Present, Quiet
    <2>2. CASE h # 0
      BY <1>1, <2>2 DEF Present, Quiet, Received
    <2> QED
      BY <2>1, <2>2
  <1>2. /\ Present(metaData) \in Seq(Received) /\ Quiet(Present(metaData), MediaAt)
        /\ Present(aacSequenceHeader) \in Seq(Received)
        /\ Quiet(Present(aacSequenceHeader), MediaAt)
        /\ Present(avcSequenceHeader) \in Seq(Received)
        /\ Quiet(Present(avcSequenceHeader), MediaAt)
    BY <1>1 DEF HeadersOK
  <1>3. Headers \in Seq(Received) /\ Quiet(Headers, MediaAt)
    <2> DEFINE s == Present(aacSequenceHeader)
               t == Present(avcSequenceHeader)
    <2>1. /\ s \in Seq(Received) /\ Quiet(s, MediaAt)
          /\ t \in Seq(Received) /\ Quiet(t, MediaAt)
      BY <1>2
    <2>2. Headers = s \o t
      BY DEF Headers
    <2> HIDE DEF s, t
    <2>3. /\ s \o t \in Seq(Received) /\ Len(s) \in Nat /\ Len(t) \in Nat
          /\ Len(s \o t) = Len(s) + Len(t)
          /\ \A i \in 1..(Len(s) + Len(t)) :
                (s \o t)[i] = IF i <= Len(s) THEN s[i] ELSE t[i - Len(s)]
      BY <2>1, ConcatProperties
    <2>4. ASSUME NEW i \in 1..Len(s \o t)
          PROVE  (s \o t)[i] \notin MediaAt
      <3>1. CASE i <= Len(s)
        BY <2>1, <2>3, <3>1 DEF Quiet
      <3>2. CASE i > Len(s)
        <4>1. i - Len(s) \in 1..Len(t)
          BY <2>3, <3>2
        <4> QED
          BY <2>1, <2>3, <3>2, <4>1 DEF Quiet
      <3> QED
        BY <2>3, <3>1, <3>2
    <2> QED
      BY <2>2, <2>3, <2>4 DEF Quiet
  <1> QED
    BY <1>2, <1>3

\* A player that joins is written headers and one group of pictures.
LEMMA JoinPlayers ==
  ASSUME sent \in Seq(Kinds), HeadersOK, GopOK, PlayersOK, QueuesOK, StreamsOK,
         NEW p \in Players, onStartPlay(p)
  PROVE  PlayersOK' /\ QueuesOK' /\ StreamsOK'
PROOF
  <1> DEFINE m == Present(metaData)
             h == Headers
             g == IF gop = Null THEN <<>> ELSE gop
             start == (m \o h) \o g
  <1>1. /\ joined[p] = -1 /\ joined' = [joined EXCEPT ![p] = Len(sent)]
        /\ written' = [written EXCEPT ![p] = start]
        /\ UNCHANGED <<sent, flv, queue>>
    BY DEF onStartPlay, publisher
  <1>2. Len(sent) \in Nat
    BY LenProperties
  <1>3. /\ m \in Seq(Received) /\ Quiet(m, MediaAt)
        /\ h \in Seq(Received) /\ Quiet(h, MediaAt)
    BY <1>2, QuietHeaders
  <1>4. g \in Seq(Received) /\ Ordered(g, MediaAt)
    BY DEF GopOK, Ordered
  <1> HIDE DEF m, h, g
  <1>5. start \in Seq(Received)
    BY <1>3, <1>4, ConcatProperties
  <1>6. Ordered(start, MediaAt)
    <2>1. m \in Seq(Nat) /\ h \in Seq(Nat) /\ g \in Seq(Nat) /\ <<>> \in Seq(Nat)
      BY <1>2, <1>3, <1>4, Widen DEF Received
    <2>2. <<>> \o g = g /\ <<>> \o m = m
      BY <2>1, ConcatEmptySeq
    <2>3. Ordered((<<>> \o m) \o g, MediaAt)
      BY <2>1, <2>2, <1>3, <1>4, InsertQuiet
    <2> QED
      BY <2>1, <2>2, <2>3, <1>3, InsertQuiet
  <1> HIDE DEF start
  <1>7. Received' = Received /\ MediaAt' = MediaAt
    BY <1>1 DEF Received, MediaAt
  <1>8. PlayersOK'
    BY <1>1, <1>2, <1>5, <1>7 DEF PlayersOK
  <1>9. QueuesOK'
    BY <1>1 DEF QueuesOK, PlayersOK
  <1>10. ASSUME NEW r \in Players
         PROVE  Ordered(written'[r] \o queue'[r], MediaAt')
    <2>1. CASE r = p
      <3>1. written'[r] = start /\ queue'[r] = <<>>
        BY <1>1, <2>1 DEF PlayersOK, QueuesOK
      <3>2. start \o <<>> = start
        BY <1>5, ConcatEmptySeq
      <3> QED
        BY <3>1, <3>2, <1>6, <1>7
    <2>2. CASE r # p
      <3>1. written'[r] = written[r] /\ queue'[r] = queue[r]
        BY <1>1, <2>2 DEF PlayersOK
      <3> QED
        BY <3>1, <1>7 DEF StreamsOK, Stream
    <2> QED
      BY <2>1, <2>2
  <1>11. StreamsOK'
    BY <1>10 DEF StreamsOK, Stream
  <1> QED
    BY <1>8, <1>9, <1>11

\* Headers written at a resumption do not disturb what is queued.
LEMMA PausePlayers ==
  ASSUME sent \in Seq(Kinds), HeadersOK, PlayersOK, QueuesOK, StreamsOK,
         NEW p \in Players, onPause(p)
  PROVE  PlayersOK' /\ QueuesOK' /\ StreamsOK'
PROOF
  <1> DEFINE h == Headers
  <1>1. /\ written' = IF isPause[p] THEN [written EXCEPT ![p] = @ \o h] ELSE written
        /\ UNCHANGED <<sent, flv, joined, queue>>
    BY DEF onPause, publisher
  <1>2. Len(sent) \in Nat
    BY LenProperties
  <1>3. h \in Seq(Received) /\ Quiet(h, MediaAt)
    BY <1>2, QuietHeaders
  <1> HIDE DEF h
  <1>4. Received' = Received /\ MediaAt' = MediaAt
    BY <1>1 DEF Received, MediaAt
  <1>5. written[p] \o h \in Seq(Received)
    BY <1>3, ConcatProperties DEF PlayersOK
  <1>6. PlayersOK'
    BY <1>1, <1>4, <1>5 DEF PlayersOK
  <1>7. QueuesOK'
    BY <1>1 DEF QueuesOK
  <1>8. ASSUME NEW r \in Players
        PROVE  Ordered(written'[r] \o queue'[r], MediaAt')
    <2>1. Ordered(written[r] \o queue[r], MediaAt)
      BY DEF StreamsOK, Stream
    <2>2. CASE r = p /\ isPause[p]
      <3>1. written'[r] = written[r] \o h /\ queue'[r] = queue[r]
        BY <1>1, <2>2 DEF PlayersOK
      <3>2. written[r] \in Seq(Nat) /\ queue[r] \in Seq(Nat) /\ h \in Seq(Nat)
        BY <1>2, <1>3, Widen DEF Received, PlayersOK
      <3>3. Ordered((written[r] \o h) \o queue[r], MediaAt)
        BY <3>2, <2>1, <1>3, InsertQuiet
      <3> QED
        BY <3>1, <3>3, <1>4
    <2>3. CASE ~(r = p /\ isPause[p])
      <3>1. written'[r] = written[r] /\ queue'[r] = queue[r]
        BY <1>1, <2>3 DEF PlayersOK
      <3> QED
        BY <3>1, <2>1, <1>4
    <2> QED
      BY <2>2, <2>3
  <1>9. StreamsOK'
    BY <1>8 DEF StreamsOK, Stream
  <1> QED
    BY <1>6, <1>7, <1>9

-----------------------------------------------------------------------------
(* The last message of a kind.                                             *)

\* A set of numbers that is bounded has a last one.
LEMMA LastExists ==
  ASSUME NEW j \in Nat, NEW N, N \subseteq 0..j, N # {}
  PROVE  \E n \in N : \A i \in N : i <= n
PROOF
  <1> DEFINE R == OpToRel(<, Nat)
             T == {j - n : n \in N}
  <1>1. \A x, y \in Nat : <<x, y>> \in R <=> x < y
    BY DEF OpToRel
  <1>2. IsWellFoundedOn(R, Nat)
    BY NatLessThanWellFounded
  <1>3. T \subseteq Nat /\ T # {}
    <2>1. \A n \in N : j - n \in Nat
      OBVIOUS
    <2> QED
      BY <2>1
  <1> HIDE DEF R
  <1>4. \E x \in T : \A y \in T : ~ (<<y, x>> \in R)
    BY <1>2, <1>3, WFMin
  <1>5. PICK n \in N : \A y \in T : ~ (<<y, j - n>> \in R)
    BY <1>4
  <1>6. \A i \in N : ~ (j - i < j - n)
    BY <1>1, <1>3, <1>5
  <1> QED
    BY <1>6

\* LastOf is the last message of a kind, if there is one.
LEMMA LastOfIsLast ==
  ASSUME NEW kinds, NEW j \in Nat
  PROVE  /\ LastOf(kinds, j) \in 0..j
         /\ LastOf(kinds, j) # 0 => sent[LastOf(kinds, j)] \in kinds
         /\ \A n \in 1..j : sent[n] \in kinds => n <= LastOf(kinds, j)
PROOF
  <1> DEFINE N == {n \in 1..j : sent[n] \in kinds}
             last == CHOOSE n \in N : \A i \in N : i <= n
  <1>1. LastOf(kinds, j) = IF N = {} THEN 0 ELSE last
    BY DEF LastOf
  <1>2. CASE N = {}
    BY <1>1, <1>2
  <1>3. CASE N # {}
    <2>1. \E n \in N : \A i \in N : i <= n
      <3>1. N \subseteq 0..j
        OBVIOUS
      <3> HIDE DEF N
      <3> QED
        BY <1>3, <3>1, LastExists
    <2>2. last \in N /\ \A i \in N : i <= last
      BY <2>1
    <2> HIDE DEF last
    <2> QED
      BY <1>1, <1>3, <2>2
  <1> QED
    BY <1>2, <1>3

\* A message does not change what was last before, and is the last of its kind.
LEMMA LastOfOneMore ==
  ASSUME NEW kind \in Kinds, sent \in Seq(Kinds), Handle(kind), NEW kinds
  PROVE  /\ \A j \in 0..Len(sent) : LastOf(kinds, j)' = LastOf(kinds, j)
         /\ LastOf(kinds, Len(sent))' = IF kind \in kinds THEN Len(sent) + 1
                                        ELSE LastOf(kinds, Len(sent))
PROOF
  <1>1. sent' = Append(sent, kind)
    BY DEF Handle
  <1>2. /\ Len(sent) \in Nat /\ Len(sent)' = Len(sent) + 1
        /\ \A i \in 1..Len(sent) : sent'[i] = sent[i]
        /\ sent'[Len(sent) + 1] = kind
    BY <1>1, AppendProperties, LenProperties
  <1>3. ASSUME NEW j \in 0..Len(sent)
        PROVE  LastOf(kinds, j)' = LastOf(kinds, j)
    <2> DEFINE M == {n \in 1..j : sent[n] \in kinds}
               N == {n \in 1..j : sent'[n] \in kinds}
    <2>1. LastOf(kinds, j) = IF M = {} THEN 0 ELSE CHOOSE n \in M : \A i \in M : i <= n
      BY DEF LastOf
    <2>2. LastOf(kinds, j)' = IF N = {} THEN 0 ELSE CHOOSE n \in N : \A i \in N : i <= n
      BY DEF LastOf
    <2>3. \A n \in 1..j : sent'[n] = sent[n]
      BY <1>2
    <2>4. N = M
      BY <2>3
    <2> HIDE DEF M, N
    <2> QED
      BY <2>1, <2>2, <2>4
  <1> DEFINE M == {n \in 1..Len(sent) : sent[n] \in kinds}
             N == {n \in 1..Len(sent) + 1 : sent'[n] \in kinds}
             last == CHOOSE n \in N : \A i \in N : i <= n
  <1>4. /\ LastOf(kinds, Len(sent))' = IF N = {} THEN 0 ELSE last
        /\ LastOf(kinds, Len(sent)) = IF M = {} THEN 0
                                      ELSE CHOOSE n \in M : \A i \in M : i <= n
    BY <1>2 DEF LastOf
  <1>5. CASE kind \in kinds
    <2>1. Len(sent) + 1 \in N /\ \A i \in N : i \in Nat /\ i <= Len(sent) + 1
      BY <1>2, <1>5
    <2> HIDE DEF N
    <2>2. last \in N /\ \A i \in N : i <= last
      BY <2>1
    <2> HIDE DEF last
    <2>3. last = Len(sent) + 1
      BY <2>1, <2>2, <1>2
    <2> QED
      BY <1>3, <1>4, <1>5, <2>1, <2>3
  <1>6. CASE kind \notin kinds
    <2>1. \A n \in 1..Len(sent) + 1 : IF n = Len(sent) + 1 THEN sent'[n] \notin kinds
                                       ELSE n \in 1..Len(sent) /\ sent'[n] = sent[n]
      BY <1>2, <1>6
    <2>2. \A n \in 1..Len(sent) : n \in 1..Len(sent) + 1 /\ n # Len(sent) + 1
      BY <1>2
    <2>3. N = M
      BY <2>1, <2>2
    <2> HIDE DEF M, N
    <2> QED
      BY <1>3, <1>4, <1>6, <2>3
  <1> QED
    BY <1>3, <1>5, <1>6

LEMMA HeadersType ==
  ASSUME NEW j \in Nat
  PROVE  HeadersAt(j) \in Seq(Nat)
PROOF
  <1>1. /\ LastOf({"meta"}, j) \in Nat /\ LastOf({"aac"}, j) \in Nat
        /\ LastOf({"avc"}, j) \in Nat
    BY LastOfIsLast
  <1>2. ASSUME NEW x \in Nat PROVE Present(x) \in Seq(Nat)
    BY DEF Present
  <1> QED
    BY <1>1, <1>2, ConcatProperties DEF HeadersAt

\* The group of pictures of a moment is of the messages sent until then.
LEMMA GroupSent ==
  ASSUME NEW j \in Nat
  PROVE  Group(j) \subseteq 1..j
PROOF
  <1>1. /\ LastOf({"avc"}, j) \in 0..j /\ LastOf({"avc", "key"}, j) \in 0..j
        /\ LastOf({"avc"}, j) # 0 => sent[LastOf({"avc"}, j)] \in {"avc"}
        /\ \A n \in 1..j : sent[n] \in {"avc", "key"} => n <= LastOf({"avc", "key"}, j)
    BY LastOfIsLast
  <1>2. LastOf({"avc"}, j) # 0 => LastOf({"avc", "key"}, j) >= 1
    BY <1>1
  <1> QED
    BY <1>1, <1>2 DEF Group

\* A message does not change what a player was told or missed that joined before;
\* who joins after it has missed what the cache now holds.
LEMMA GroupOneMore ==
  ASSUME NEW kind \in Kinds, sent \in Seq(Kinds), Handle(kind)
  PROVE  /\ \A j \in 0..Len(sent) : /\ HeadersAt(j)' = HeadersAt(j)
                                    /\ Group(j)' = Group(j)
         /\ Group(Len(sent))' =
               IF ~gopCacheEnable \/ LastOf({"avc"}, Len(sent))' = 0 \/ kind = "avc" THEN {}
               ELSE IF kind = "key" THEN {Len(sent) + 1}
               ELSE IF kind \in Media THEN Group(Len(sent)) \cup {Len(sent) + 1}
               ELSE Group(Len(sent))
PROOF
  <1>1. sent' = Append(sent, kind) /\ gopCacheEnable' = gopCacheEnable
    BY DEF Handle
  <1>2. /\ Len(sent) \in Nat /\ Len(sent)' = Len(sent) + 1
        /\ \A i \in 1..Len(sent) : sent'[i] = sent[i]
        /\ sent'[Len(sent) + 1] = kind
    BY <1>1, AppendProperties, LenProperties
  <1>3. ASSUME NEW j \in 0..Len(sent)
        PROVE  HeadersAt(j)' = HeadersAt(j) /\ Group(j)' = Group(j)
    <2>1. /\ LastOf({"meta"}, j)' = LastOf({"meta"}, j)
          /\ LastOf({"aac"}, j)' = LastOf({"aac"}, j)
          /\ LastOf({"avc"}, j)' = LastOf({"avc"}, j)
          /\ LastOf({"avc", "key"}, j)' = LastOf({"avc", "key"}, j)
      BY LastOfOneMore
    <2>2. HeadersAt(j)' = HeadersAt(j)
      BY <2>1 DEF HeadersAt
    <2>3. j \in Nat /\ (Group(j) \subseteq 1..j)
      BY <1>2, GroupSent
    <2>4. LastOf({"avc", "key"}, j) \in 0..j /\ LastOf({"avc"}, j) \in 0..j
      BY <2>3, LastOfIsLast
    <2>5. LastOf({"avc"}, j) # 0 => LastOf({"avc", "key"}, j) >= 1
      <3>1. LastOf({"avc"}, j) # 0 => sent[LastOf({"avc"}, j)] = "avc"
        BY <2>3, LastOfIsLast
      <3>2. \A n \in 1..j : sent[n] \in {"avc", "key"} => n <= LastOf({"avc", "key"}, j)
        BY <2>3, LastOfIsLast
      <3> QED
        BY <2>4, <3>1, <3>2
    <2>6. \A n \in LastOf({"avc", "key"}, j)..j : LastOf({"avc"}, j) # 0 => sent'[n] = sent[n]
      BY <1>2, <2>4, <2>5
    <2>7. Group(j)' = {n \in LastOf({"avc", "key"}, j)..j :
                          gopCacheEnable /\ LastOf({"avc"}, j) # 0 /\ sent'[n] \in Media}
      BY <1>1, <2>1 DEF Group
    <2> QED
      BY <2>2, <2>6, <2>7 DEF Group
  <1>4. Group(Len(sent))' =
           {n \in LastOf({"avc", "key"}, Len(sent))'..Len(sent) + 1 :
               gopCacheEnable /\ LastOf({"avc"}, Len(sent))' # 0 /\ sent'[n] \in Media}
    BY <1>1, <1>2 DEF Group
  <1>5. CASE kind \in {"avc", "key"}
    <2>1. LastOf({"avc", "key"}, Len(sent))' = Len(sent) + 1
      BY <1>5, LastOfOneMore
    <2>2. \A n \in Len(sent) + 1..Len(sent) + 1 : n = Len(sent) + 1
      BY <1>2
    <2>3. Len(sent) + 1 \in Len(sent) + 1..Len(sent) + 1
      BY <1>2
    <2>4. "avc" \notin Media /\ "key" \in Media
      BY DEF Media
    <2> DEFINE on == gopCacheEnable /\ LastOf({"avc"}, Len(sent))' # 0
    <2>5. Group(Len(sent))' = {n \in Len(sent) + 1..Len(sent) + 1 : on /\ sent'[n] \in Media}
      BY <1>4, <2>1
    <2> HIDE DEF on
    <2>6. CASE on /\ kind \in Media
      <3>1. Group(Len(sent))' = {Len(sent) + 1}
        BY <1>2, <2>2, <2>3, <2>5, <2>6
      <3> QED
        BY <1>3, <1>5, <2>4, <2>6, <3>1 DEF on
    <2>7. CASE ~(on /\ kind \in Media)
      <3>1. Group(Len(sent))' = {}
        BY <1>2, <2>2, <2>5, <2>7
      <3> QED
        BY <1>3, <1>5, <2>4, <2>7, <3>1 DEF on
    <2> QED
      BY <2>6, <2>7
  <1>6. CASE kind \notin {"avc", "key"}
    <2>1. /\ LastOf({"avc", "key"}, Len(sent))' = LastOf({"avc", "key"}, Len(sent))
          /\ LastOf({"avc"}, Len(sent))' = LastOf({"avc"}, Len(sent))
      BY <1>6, LastOfOneMore
    <2>2. /\ LastOf({"avc", "key"}, Len(sent)) \in 0..Len(sent)
          /\ LastOf({"avc"}, Len(sent)) \in 0..Len(sent)
          /\ LastOf({"avc"}, Len(sent)) # 0 => sent[LastOf({"avc"}, Len(sent))] \in {"avc"}
          /\ \A n \in 1..Len(sent) :
                sent[n] \in {"avc", "key"} => n <= LastOf({"avc", "key"}, Len(sent))
      BY <1>2, LastOfIsLast
    <2> DEFINE L == LastOf({"avc", "key"}, Len(sent))
    <2>3. LastOf({"avc"}, Len(sent)) # 0 => L >= 1
      BY <2>2
    <2>4. L \in 0..Len(sent)
      BY <2>2
    <2>5. Group(Len(sent)) = {n \in L..Len(sent) :
             gopCacheEnable /\ LastOf({"avc"}, Len(sent)) # 0 /\ sent[n] \in Media}
      BY DEF Group
    <2>6. Group(Len(sent))' = {n \in L..Len(sent) + 1 :
             gopCacheEnable /\ LastOf({"avc"}, Len(sent)) # 0 /\ sent'[n] \in Media}
      BY <1>4, <2>1
    <2> HIDE DEF L
    <2>7. \A n \in L..Len(sent) + 1 :
             \/ n = Len(sent) + 1
             \/ n \in L..Len(sent) /\ (L >= 1 => sent'[n] = sent[n])
      BY <1>2, <2>4
    <2>8. Len(sent) + 1 \in L..Len(sent) + 1 /\ L..Len(sent) \subseteq L..Len(sent) + 1
      BY <1>2, <2>4
    <2>9. CASE ~gopCacheEnable \/ LastOf({"avc"}, Len(sent)) = 0
      <3>1. Group(Len(sent))' = {}
        BY <2>6, <2>9
      <3> QED
        BY <1>3, <1>6, <2>1, <2>9, <3>1
    <2>10. CASE ~(~gopCacheEnable \/ LastOf({"avc"}, Len(sent)) = 0)
      <3>1. L >= 1
        BY <2>3, <2>10
      <3>2. Group(Len(sent))' = {n \in L..Len(sent) + 1 : sent'[n] \in Media}
        BY <2>6, <2>10
      <3>3. Group(Len(sent)) = {n \in L..Len(sent) : sent[n] \in Media}
        BY <2>5, <2>10
      <3>4. Group(Len(sent))' = IF kind \in Media THEN Group(Len(sent)) \cup {Len(sent) + 1}
                                ELSE Group(Len(sent))
        <4>1. Len(sent) + 1 \notin L..Len(sent)
          BY <1>2, <2>4
        <4>2. \A n \in L..Len(sent) : sent'[n] = sent[n] /\ n \in L..Len(sent) + 1
          BY <1>2, <2>7, <2>8, <3>1, <4>1
        <4>3. ASSUME NEW n \in L..Len(sent) + 1
              PROVE  n \in Group(Len(sent))' <=>
                        \/ n \in Group(Len(sent))
                        \/ n = Len(sent) + 1 /\ kind \in Media
          <5>1. CASE n = Len(sent) + 1
            BY <1>2, <3>2, <3>3, <4>1, <5>1
          <5>2. CASE n # Len(sent) + 1
            BY <2>7, <3>2, <3>3, <4>2, <5>2
          <5> QED
            BY <5>1, <5>2
        <4>4. /\ Group(Len(sent))' \subseteq L..Len(sent) + 1
              /\ Group(Len(sent)) \subseteq L..Len(sent) + 1
          BY <2>8, <3>2, <3>3
        <4>5. CASE kind \in Media
          BY <2>8, <4>3, <4>4, <4>5
        <4>6. CASE kind \notin Media
          BY <4>3, <4>4, <4>6
        <4> QED
          BY <4>5, <4>6
      <3> QED
        BY <1>3, <1>6, <2>1, <2>10, <3>4
    <2> QED
      BY <2>9, <2>10
  <1> QED
    BY <1>3, <1>5, <1>6

-----------------------------------------------------------------------------
(* All that a player is to receive.                                        *)

\* What a concatenation holds.
LEMMA HoldsConcat ==
  ASSUME NEW A, NEW s \in Seq(A), NEW t \in Seq(A)
  PROVE  Holds(s \o t) = Holds(s) \cup Holds(t)
PROOF
  <1>1. /\ Len(s) \in Nat /\ Len(t) \in Nat /\ Len(s \o t) = Len(s) + Len(t)
        /\ \A i \in 1..(Len(s) + Len(t)) :
              (s \o t)[i] = IF i <= Len(s) THEN s[i] ELSE t[i - Len(s)]
    BY ConcatProperties
  <1>2. ASSUME NEW i \in 1..Len(s \o t)
        PROVE  (s \o t)[i] \in Holds(s) \cup Holds(t)
    <2>1. CASE i <= Len(s)
      BY <1>1, <2>1 DEF Holds
    <2>2. CASE i > Len(s)
      <3>1. i - Len(s) \in 1..Len(t) /\ (s \o t)[i] = t[i - Len(s)]
        BY <1>1, <2>2
      <3> QED
        BY <3>1 DEF Holds
    <2> QED
      BY <1>1, <2>1, <2>2
  <1>3. ASSUME NEW i \in 1..Len(s)
        PROVE  s[i] \in Holds(s \o t)
    <2>1. i \in 1..Len(s \o t) /\ (s \o t)[i] = s[i]
      BY <1>1
    <2> QED
      BY <2>1 DEF Holds
  <1>4. ASSUME NEW i \in 1..Len(t)
        PROVE  t[i] \in Holds(s \o t)
    <2>1. Len(s) + i \in 1..Len(s \o t) /\ (s \o t)[Len(s) + i] = t[i]
      BY <1>1
    <2> QED
      BY <2>1 DEF Holds
  <1> QED
    BY <1>2, <1>3, <1>4 DEF Holds

LEMMA HoldsOne ==
  ASSUME NEW n
  PROVE  Holds(<<n>>) = {n} /\ Holds(<<>>) = {}
PROOF
  <1>1. Len(<<n>>) = 1 /\ <<n>>[1] = n /\ Len(<<>>) = 0
    OBVIOUS
  <1> QED
    BY <1>1 DEF Holds

\* What follows the first of two parts is the second.
LEMMA AfterConcat ==
  ASSUME NEW A, NEW s \in Seq(A), NEW t \in Seq(A)
  PROVE  SubSeq(s \o t, Len(s) + 1, Len(s \o t)) = t
PROOF
  <1> DEFINE r == SubSeq(s \o t, Len(s) + 1, Len(s \o t))
  <1>1. /\ Len(s) \in Nat /\ Len(t) \in Nat /\ Len(s \o t) = Len(s) + Len(t)
        /\ s \o t \in Seq(A)
        /\ \A i \in 1..(Len(s) + Len(t)) :
              (s \o t)[i] = IF i <= Len(s) THEN s[i] ELSE t[i - Len(s)]
    BY ConcatProperties
  <1>2. /\ r \in Seq(A) /\ Len(r) = Len(t)
        /\ \A i \in 1..Len(t) : r[i] = (s \o t)[Len(s) + i]
    <2>1. /\ Len(s) + 1 \in Int /\ Len(s \o t) \in Int
          /\ \A i \in Len(s) + 1..Len(s \o t) : (s \o t)[i] \in A
      BY <1>1, ElementOfSeq
    <2>2. /\ r \in Seq(A)
          /\ Len(r) = IF Len(s) + 1 <= Len(s \o t) THEN Len(s \o t) - (Len(s) + 1) + 1 ELSE 0
          /\ \A i \in 1..Len(s \o t) - (Len(s) + 1) + 1 :
                r[i] = (s \o t)[Len(s) + 1 + i - 1]
      BY <1>1, <2>1, SubSeqProperties
    <2>3. Len(r) = Len(t) /\ Len(s \o t) - (Len(s) + 1) + 1 = Len(t)
      BY <1>1, <2>2
    <2>4. \A i \in 1..Len(t) : Len(s) + 1 + i - 1 = Len(s) + i
      BY <1>1
    <2> HIDE DEF r
    <2> QED
      BY <2>2, <2>3, <2>4
  <1> HIDE DEF r
  <1>3. \A i \in 1..Len(t) : r[i] = t[i]
    BY <1>1, <1>2
  <1>4. r = t
    BY <1>2, <1>3, SeqEqual
  <1> QED
    BY <1>4 DEF r

\* A message n at the end of the second part is at the end of the whole.
LEMMA AppendToSecond ==
  ASSUME NEW A, NEW b \in Seq(A), NEW q \in Seq(A), NEW n \in A
  PROVE  b \o Append(q, n) = Append(b \o q, n)
PROOF
  <1> DEFINE u == <<n>>
  <1>1. u \in Seq(A)
    OBVIOUS
  <1>2. Append(q, n) = q \o u /\ Append(b \o q, n) = (b \o q) \o u
    BY ConcatProperties, AppendIsConcat
  <1> HIDE DEF u
  <1>3. b \o (q \o u) = (b \o q) \o u
    BY <1>1, ConcatAssociative
  <1> QED
    BY <1>2, <1>3

\* Where a message is added makes no difference to what is held.
LEMMA OneMoreHeld ==
  ASSUME NEW A, NEW b \in Seq(A), NEW q \in Seq(A), NEW n \in A
  PROVE  /\ Holds(Append(b \o q, n)) = Holds(b \o q) \cup {n}
         /\ Holds(Append(b, n) \o q) = Holds(b \o q) \cup {n}
PROOF
  <1> DEFINE u == <<n>>
             v == b \o q
  <1>1. u \in Seq(A) /\ Holds(u) = {n} /\ v \in Seq(A)
    BY HoldsOne, ConcatProperties
  <1>2. Append(v, n) = v \o u /\ Append(b, n) = b \o u /\ Holds(v) = Holds(b) \cup Holds(q)
    BY <1>1, AppendIsConcat, HoldsConcat
  <1> HIDE DEF u, v
  <1>3. Holds(v \o u) = Holds(v) \cup Holds(u)
    BY <1>1, HoldsConcat
  <1>4. Holds((b \o u) \o q) = (Holds(b) \cup Holds(u)) \cup Holds(q)
    <2> DEFINE x == b \o u
    <2>1. x \in Seq(A) /\ Holds(x) = Holds(b) \cup Holds(u)
      BY <1>1, HoldsConcat, ConcatProperties
    <2> HIDE DEF x
    <2>2. Holds(x \o q) = Holds(x) \cup Holds(q)
      BY <2>1, HoldsConcat
    <2> QED
      BY <2>1, <2>2 DEF x
  <1> QED
    BY <1>1, <1>2, <1>3, <1>4 DEF v

\* A sequence in order is so of fewer messages.
LEMMA OrderedFewer ==
  ASSUME NEW s, NEW M, NEW L, Ordered(s, M), L \subseteq M
  PROVE  Ordered(s, L)
  BY DEF Ordered

\* The new message and the messages that are no metadata.
LEMMA NotMetaOneMore ==
  ASSUME NEW kind \in Kinds, sent \in Seq(Kinds), Handle(kind)
  PROVE  /\ NotMeta' \cap Received = NotMeta \cap Received
         /\ kind = "meta" => Len(sent) + 1 \notin NotMeta'
PROOF
  <1>1. sent' = Append(sent, kind)
    BY DEF Handle
  <1>2. /\ Len(sent) \in Nat /\ Len(sent)' = Len(sent) + 1
        /\ \A i \in 1..Len(sent) : sent'[i] = sent[i]
        /\ sent'[Len(sent) + 1] = kind
    BY <1>1, AppendProperties, LenProperties
  <1> QED
    BY <1>2 DEF NotMeta, Received

\* The caches hold what a player that joins next will need.
LEMMA HandleCaches ==
  ASSUME NEW kind \in Kinds, sent \in Seq(Kinds), GopOK, CachesOK, Handle(kind)
  PROVE  CachesOK'
PROOF
  <1> DEFINE n == Len(sent) + 1
  <1>1. /\ metaData' = IF kind = "meta" THEN n ELSE metaData
        /\ aacSequenceHeader' = IF kind = "aac" THEN n ELSE aacSequenceHeader
        /\ avcSequenceHeader' = IF kind = "avc" THEN n ELSE avcSequenceHeader
        /\ gop' = GopAfter(kind, n) /\ gopCacheEnable' = gopCacheEnable
    BY DEF Handle
  <1>2. /\ Len(sent) \in Nat /\ n \in Nat \ {0} /\ n \notin Received /\ Len(sent)' = n
        /\ Received' = Received \cup {n}
    BY OneMore DEF Received
  <1>3. /\ metaData' = LastOf({"meta"}, Len(sent))'
        /\ aacSequenceHeader' = LastOf({"aac"}, Len(sent))'
        /\ avcSequenceHeader' = LastOf({"avc"}, Len(sent))'
    <2>1. /\ LastOf({"meta"}, Len(sent))' = IF kind \in {"meta"} THEN n
                                            ELSE LastOf({"meta"}, Len(sent))
          /\ LastOf({"aac"}, Len(sent))' = IF kind \in {"aac"} THEN n
                                           ELSE LastOf({"aac"}, Len(sent))
          /\ LastOf({"avc"}, Len(sent))' = IF kind \in {"avc"} THEN n
                                           ELSE LastOf({"avc"}, Len(sent))
      BY LastOfOneMore
    <2> QED
      BY <1>1, <2>1 DEF CachesOK
  <1>4. gop' # Null <=> gopCacheEnable' = TRUE /\ avcSequenceHeader' # 0
    <2>1. <<>> # Null /\ <<n>> # Null
      BY <1>2 DEF Null
    <2>2. gop # Null => Append(gop, n) # Null
      <3> SUFFICES ASSUME gop # Null, Append(gop, n) = Null PROVE FALSE
        OBVIOUS
      <3>1. gop \in Seq(Received)
        BY DEF GopOK
      <3>2. Append(gop, n)[Len(gop) + 1] = n /\ Len(Append(gop, n)) = Len(gop) + 1
            /\ Len(gop) \in Nat
        BY <3>1, AppendProperties, LenProperties
      <3>3. Len(Null) = 1 /\ Null[1] = 0
        BY DEF Null
      <3> QED
        BY <1>2, <3>2, <3>3
    <2>3. CASE kind = "avc"
      BY <1>1, <1>2, <2>1, <2>3 DEF GopAfter
    <2>4. CASE kind = "key"
      <3>1. gop' = IF gop # Null THEN <<n>> ELSE gop
        BY <1>1, <2>4 DEF GopAfter
      <3> QED
        BY <1>1, <2>1, <2>4, <3>1 DEF CachesOK
    <2>5. CASE kind \in {"audio", "inter"}
      <3>1. gop' = IF gop # Null THEN Append(gop, n) ELSE gop
        BY <1>1, <2>5 DEF GopAfter
      <3> QED
        BY <1>1, <2>2, <2>5, <3>1 DEF CachesOK
    <2>6. CASE kind \in {"meta", "aac"}
      <3>1. gop' = gop
        BY <1>1, <2>6 DEF GopAfter
      <3> QED
        BY <1>1, <2>6, <3>1 DEF CachesOK
    <2> QED
      BY <2>3, <2>4, <2>5, <2>6 DEF Kinds, Media
  <1>5. ASSUME gop' # Null
        PROVE  Ordered(gop', Received') /\ Holds(gop') = Group(Len(sent))'
    <2>1. gopCacheEnable /\ LastOf({"avc"}, Len(sent))' # 0
      BY <1>1, <1>3, <1>4, <1>5
    <2>2. Group(Len(sent))' = IF kind = "avc" THEN {} ELSE IF kind = "key" THEN {n}
                              ELSE IF kind \in Media THEN Group(Len(sent)) \cup {n}
                              ELSE Group(Len(sent))
      BY <2>1, GroupOneMore
    <2>3. Ordered(<<>>, Received') /\ Ordered(<<n>>, Received')
      <3>1. Len(<<>>) = 0 /\ Len(<<n>>) = 1
        OBVIOUS
      <3> QED
        BY <3>1 DEF Ordered
    <2>4. ASSUME gop # Null
          PROVE  /\ Ordered(gop, Received') /\ Ordered(Append(gop, n), Received')
                 /\ Holds(Append(gop, n)) = Holds(gop) \cup {n}
                 /\ Holds(gop) = Group(Len(sent))
      <3>1. gop \in Seq(Received) /\ Ordered(gop, Received) /\ Holds(gop) = Group(Len(sent))
        BY <2>4 DEF GopOK, CachesOK
      <3>2. Ordered(gop, Received')
        <4>1. Received \cap Received = Received' \cap Received
          BY <1>2
        <4> QED
          BY <3>1, <4>1, SameOrder
      <3>3. Ordered(Append(gop, n), Received')
        BY <1>2, <3>1, <3>2, AppendLater DEF Received
      <3>4. /\ gop \in Seq(Received') /\ <<n>> \in Seq(Received')
            /\ Append(gop, n) = gop \o <<n>>
        <4>1. gop \in Seq(Received') /\ n \in Received'
          BY <3>1, <1>2, OneMore, Widen DEF Received
        <4> QED
          BY <4>1, AppendIsConcat
      <3>5. Holds(Append(gop, n)) = Holds(gop) \cup {n}
        <4>1. Holds(gop \o <<n>>) = Holds(gop) \cup Holds(<<n>>)
          BY <3>4, HoldsConcat
        <4>2. Holds(<<n>>) = {n}
          BY HoldsOne
        <4> QED
          BY <3>4, <4>1, <4>2
      <3> QED
        BY <3>1, <3>2, <3>3, <3>5
    <2>5. CASE kind = "avc"
      <3>1. gop' = <<>>
        BY <1>1, <1>5, <2>5 DEF GopAfter
      <3> QED
        BY <2>2, <2>3, <2>5, <3>1, HoldsOne
    <2>6. CASE kind = "key"
      <3>1. gop' = <<n>>
        BY <1>1, <1>5, <2>6 DEF GopAfter
      <3> QED
        BY <2>2, <2>3, <2>6, <3>1, HoldsOne
    <2>7. CASE kind \in {"audio", "inter"}
      <3>1. gop' = Append(gop, n) /\ gop # Null
        BY <1>1, <1>5, <2>7 DEF GopAfter
      <3> QED
        BY <2>2, <2>4, <2>7, <3>1 DEF Media
    <2>8. CASE kind \in {"meta", "aac"}
      <3>1. gop' = gop /\ gop # Null
        BY <1>1, <1>5, <2>8 DEF GopAfter
      <3> QED
        BY <2>2, <2>4, <2>8, <3>1 DEF Media
    <2> QED
      BY <2>5, <2>6, <2>7, <2>8 DEF Kinds, Media
  <1> QED
    BY <1>3, <1>4, <1>5 DEF CachesOK

\* Every message is added to what each player that is not paused was to receive.
LEMMA HandleFed ==
  ASSUME NEW kind \in Kinds, sent \in Seq(Kinds), PlayersOK, QueuesOK, FedOK, Handle(kind)
  PROVE  FedOK'
PROOF
  <1> DEFINE n == Len(sent) + 1
  <1>1. /\ written' = [p \in Players |-> Delivered(p, kind, n).written]
        /\ queue' = [p \in Players |-> Delivered(p, kind, n).queue]
        /\ UNCHANGED <<flv, joined, isPause, pauses>>
    BY DEF Handle
  <1>2. /\ Len(sent) \in Nat /\ Len(sent)' = n /\ n \in Received'
        /\ Received = 1..Len(sent) /\ Received' = 1..n
    BY OneMore DEF Received
  <1>3. ASSUME NEW p \in Players, joined[p] # -1, pauses[p] = 0
        PROVE  Fed(p)'
    <2> DEFINE d == Delivered(p, kind, n)
               w == written[p]
               q == queue[p]
               h == HeadersAt(joined[p])
    <2>1. /\ written'[p] = d.written /\ queue'[p] = d.queue
          /\ joined'[p] = joined[p]
      BY <1>1
    <2>2. joined[p] \in 0..Len(sent) /\ ~(joined[p] = -1 \/ isPause[p])
      BY <1>3 DEF FedOK
    <2>3. HeadersAt(joined[p])' = h /\ Group(joined[p])' = Group(joined[p])
      BY <2>1, <2>2, GroupOneMore
    <2>4. PICK b \in Seq(Received) :
             /\ w = h \o b
             /\ Ordered(b \o q, NotMeta)
             /\ Holds(b \o q) = Group(joined[p]) \cup (joined[p] + 1..Len(sent))
      BY <1>3 DEF FedOK, Fed
    <2>5. joined[p] + 1..n = (joined[p] + 1..Len(sent)) \cup {n}
      BY <1>2, <2>2
    <2>6. h \in Seq(Nat)
      <3>1. joined[p] \in Nat
        BY <1>2, <2>2
      <3> QED
        BY <3>1, HeadersType
    <2>7. /\ q \in Seq(Received) /\ n \in Nat
          /\ b \in Seq(Nat) /\ q \in Seq(Nat)
          /\ b \in Seq(Received') /\ q \in Seq(Received')
      <3>1. q \in Seq(Received) /\ n \in Nat
        BY <1>2 DEF PlayersOK
      <3>2. b \in Seq(1..n) /\ b \in Seq(Nat) /\ q \in Seq(1..n) /\ q \in Seq(Nat)
        BY <1>2, <2>4, <3>1, Widen
      <3> QED
        BY <1>2, <3>1, <3>2
    <2> DEFINE all == Group(joined[p]) \cup (joined[p] + 1..n)
    <2>8. Holds(b \o q) \cup {n} = all
      BY <2>4, <2>5
    <2>9. \/ kind = "meta" /\ d.written = Append(w, n) /\ d.queue = q
          \/ d.queue = <<>> /\ d.written = w \o Append(q, n)
          \/ d.written = w /\ d.queue = Append(q, n)
      BY <2>2, Delivery
    <2> HIDE DEF all, h, w, q, d
    <2>10. b \o q \in Seq(Received)
      BY <2>4, <2>7, ConcatProperties
    <2>11. Ordered(b \o q, NotMeta')
      <3>1. NotMeta \cap Received = NotMeta' \cap Received
        BY NotMetaOneMore
      <3> QED
        BY <2>4, <2>10, <3>1, SameOrder
    <2>12. Ordered(Append(b \o q, n), NotMeta')
      BY <1>2, <2>10, <2>11, AppendLater
    <2>13. /\ Append(h \o b, n) = h \o Append(b, n)
           /\ b \o Append(q, n) = Append(b \o q, n)
           /\ (h \o b) \o Append(q, n) = h \o (b \o Append(q, n))
           /\ Holds(Append(b \o q, n)) = all /\ Holds(Append(b, n) \o q) = all
      <3> DEFINE A == Nat
                 r == Append(q, n)
      <3>1. b \in Seq(A) /\ n \in A
        BY <2>7
      <3>2. h \in Seq(A)
        BY <2>6
      <3>3. q \in Seq(A)
        BY <2>7
      <3>4. r \in Seq(A)
        BY <2>7, AppendProperties
      <3> HIDE DEF A, n
      <3>5. h \o Append(b, n) = Append(h \o b, n)
        BY <3>1, <3>2, AppendToSecond
      <3>6. b \o Append(q, n) = Append(b \o q, n)
        BY <3>1, <3>3, AppendToSecond
      <3>7. /\ Holds(Append(b \o q, n)) = Holds(b \o q) \cup {n}
            /\ Holds(Append(b, n) \o q) = Holds(b \o q) \cup {n}
        BY <3>1, <3>3, OneMoreHeld
      <3> HIDE DEF r
      <3>8. (h \o b) \o r = h \o (b \o r)
        BY <3>1, <3>2, <3>4, ConcatAssociative
      <3> QED
        BY <2>8, <3>5, <3>6, <3>7, <3>8 DEF r
    <2>14. /\ Append(b, n) \in Seq(Received') /\ Append(q, n) \in Seq(Received')
           /\ b \o Append(q, n) \in Seq(Received')
           /\ (b \o Append(q, n)) \o <<>> = b \o Append(q, n)
      BY <1>2, <2>7, AppendProperties, ConcatProperties, ConcatEmptySeq
    <2>15. \E c \in Seq(Received') :
              /\ d.written = h \o c
              /\ Ordered(c \o d.queue, NotMeta')
              /\ Holds(c \o d.queue) = all
      <3>1. CASE kind = "meta" /\ d.written = Append(w, n) /\ d.queue = q
        <4>1. Quiet(<<n>>, NotMeta')
          <5>1. Len(<<n>>) = 1 /\ <<n>>[1] = n
            OBVIOUS
          <5>2. n \notin NotMeta'
            BY <3>1, NotMetaOneMore
          <5> QED
            BY <5>1, <5>2 DEF Quiet
        <4>2. <<n>> \in Seq(Nat) /\ Append(b, n) = b \o <<n>>
          BY <2>7, AppendIsConcat
        <4>3. Ordered(Append(b, n) \o q, NotMeta')
          BY <2>7, <2>11, <4>1, <4>2, InsertQuiet
        <4> QED
          BY <2>4, <2>13, <2>14, <3>1, <4>3
      <3>2. CASE d.queue = <<>> /\ d.written = w \o Append(q, n)
        BY <2>4, <2>12, <2>13, <2>14, <3>2
      <3>3. CASE d.written = w /\ d.queue = Append(q, n)
        BY <2>4, <2>7, <2>12, <2>13, <3>3
      <3> QED
        BY <2>9, <3>1, <3>2, <3>3
    <2> QED
      BY <1>2, <2>1, <2>3, <2>15 DEF Fed, all
  <1> QED
    BY <1>1, <1>2, <1>3 DEF FedOK

\* A player that joins is written what it has missed.
LEMMA JoinFed ==
  ASSUME sent \in Seq(Kinds), GopOK, PlayersOK, QueuesOK, CachesOK, FedOK,
         NEW p \in Players, onStartPlay(p)
  PROVE  FedOK'
PROOF
  <1> DEFINE g == IF gop = Null THEN <<>> ELSE gop
             h == HeadersAt(Len(sent))
  <1>1. /\ joined[p] = -1 /\ joined' = [joined EXCEPT ![p] = Len(sent)]
        /\ written' = [written EXCEPT ![p] = h \o g]
        /\ UNCHANGED <<sent, gopCacheEnable, flv, queue, isPause, pauses>>
    BY DEF onStartPlay, publisher, CachesOK, HeadersAt, Headers
  <1>2. /\ Len(sent) \in Nat /\ g \in Seq(Received)
    BY LenProperties DEF GopOK
  <1>3. Ordered(g, NotMeta) /\ Holds(g) = Group(Len(sent))
    <2>1. CASE gop = Null
      <3>1. Group(Len(sent)) = {}
        BY <2>1 DEF CachesOK, Group
      <3>2. Ordered(<<>>, NotMeta)
        BY DEF Ordered
      <3> QED
        BY <2>1, <3>1, <3>2, HoldsOne
    <2>2. CASE gop # Null
      <3>1. NotMeta \subseteq Received
        BY DEF NotMeta
      <3> QED
        BY <2>2, <3>1, OrderedFewer DEF CachesOK
    <2> QED
      BY <2>1, <2>2
  <1>4. g \o <<>> = g /\ Len(sent) + 1..Len(sent) = {}
    BY <1>2, ConcatEmptySeq
  <1>5. /\ Received' = Received /\ NotMeta' = NotMeta /\ Len(sent') = Len(sent)
        /\ \A j : HeadersAt(j)' = HeadersAt(j) /\ Group(j)' = Group(j)
    BY <1>1 DEF Received, NotMeta, HeadersAt, Group, LastOf
  <1> HIDE DEF g, h
  <1>6. ASSUME NEW r \in Players, joined'[r] # -1, pauses'[r] = 0
        PROVE  Fed(r)'
    <2>1. CASE r = p
      <3>1. written'[r] = h \o g /\ queue'[r] = <<>> /\ joined'[r] = Len(sent)
        BY <1>1, <2>1 DEF PlayersOK, QueuesOK
      <3>2. Holds(g \o <<>>) = Group(Len(sent)) \cup (Len(sent) + 1..Len(sent))
        BY <1>3, <1>4
      <3> QED
        BY <1>2, <1>3, <1>4, <1>5, <3>1, <3>2 DEF Fed, h
    <2>2. CASE r # p
      <3>1. written'[r] = written[r] /\ queue'[r] = queue[r] /\ joined'[r] = joined[r]
        BY <1>1, <2>2 DEF PlayersOK
      <3>2. Fed(r)
        BY <1>1, <1>6, <3>1 DEF FedOK
      <3> QED
        BY <1>5, <3>1, <3>2 DEF Fed
    <2> QED
      BY <2>1, <2>2
  <1>7. ASSUME NEW r \in Players, joined'[r] # -1
        PROVE  joined'[r] \in 0..Len(sent')
    BY <1>1, <1>2, <1>7 DEF PlayersOK, FedOK
  <1> QED
    BY <1>1, <1>6, <1>7 DEF FedOK

\* A pause only concerns who pauses.
LEMMA PauseFed ==
  ASSUME PlayersOK, FedOK, NEW p \in Players, onPause(p)
  PROVE  FedOK'
PROOF
  <1>1. /\ written' = IF isPause[p] THEN [written EXCEPT ![p] = @ \o Headers] ELSE written
        /\ isPause' = [isPause EXCEPT ![p] = ~@] /\ pauses' = [pauses EXCEPT ![p] = @ + 1]
        /\ UNCHANGED <<sent, gopCacheEnable, flv, joined, queue>>
    BY DEF onPause, publisher
  <1>2. /\ Received' = Received /\ NotMeta' = NotMeta /\ Len(sent') = Len(sent)
        /\ \A j : HeadersAt(j)' = HeadersAt(j) /\ Group(j)' = Group(j)
    BY <1>1 DEF Received, NotMeta, HeadersAt, Group, LastOf
  <1>3. ASSUME NEW r \in Players
        PROVE  /\ pauses'[r] = 0 => r # p /\ pauses[r] = 0 /\ isPause'[r] = isPause[r]
               /\ r # p => written'[r] = written[r]
    BY <1>1 DEF FedOK, PlayersOK
  <1>4. ASSUME NEW r \in Players, r # p, Fed(r) PROVE Fed(r)'
    BY <1>1, <1>2, <1>3, <1>4 DEF Fed
  <1>5. pauses' \in [Players -> Nat] /\ isPause' \in [Players -> BOOLEAN]
    BY <1>1 DEF FedOK
  <1> QED
    BY <1>1, <1>2, <1>3, <1>4, <1>5 DEF FedOK

-----------------------------------------------------------------------------
(* The theorems.                                                           *)

\* Nothing was sent, kept or written yet.
LEMMA InitFanout == Init => FanoutInv
PROOF
  <1> SUFFICES ASSUME Init PROVE FanoutInv
    OBVIOUS
  <1>1. /\ sent = <<>> /\ Len(<<>>) = 0 /\ MediaAt = {} /\ <<>> \in Seq(Received)
        /\ <<>> \o <<>> = <<>>
    BY DEF Init, MediaAt, Received
  <1>2. sent \in Seq(Kinds)
    BY <1>1
  <1>3. HeadersOK
    BY <1>1 DEF Init, HeadersOK
  <1>4. GopOK
    BY DEF Init, GopOK
  <1>5. /\ joined = [p \in Players |-> -1] /\ flv \subseteq Players
        /\ written = [p \in Players |-> <<>>] /\ queue = [p \in Players |-> <<>>]
    BY DEF Init
  <1>6. PlayersOK
    BY <1>1, <1>5 DEF PlayersOK
  <1>7. QueuesOK
    <2>1. 0 < QueueLimit
      BY FanoutAssumption
    <2>2. \A p \in Players : queue[p] = <<>> /\ Len(queue[p]) = 0
      BY <1>1, <1>5
    <2> QED
      BY <2>1, <2>2 DEF QueuesOK
  <1>8. StreamsOK
    BY <1>1, <1>5 DEF StreamsOK, Stream, Ordered
  <1>9. CachesOK
    <2>1. \A kinds : LastOf(kinds, 0) = 0
      BY DEF LastOf
    <2>2. /\ metaData = 0 /\ aacSequenceHeader = 0 /\ avcSequenceHeader = 0 /\ gop = Null
      BY DEF Init
    <2> QED
      BY <1>1, <2>1, <2>2 DEF CachesOK
  <1>10. FedOK
    <2>1. /\ isPause = [p \in Players |-> FALSE] /\ pauses = [p \in Players |-> 0]
      BY DEF Init
    <2>2. \A p \in Players : joined[p] = -1 /\ isPause[p] = FALSE
      BY <1>5, <2>1
    <2> QED
      BY <2>1, <2>2 DEF FedOK
  <1> QED
    BY <1>2, <1>3, <1>4, <1>6, <1>7, <1>8, <1>9, <1>10 DEF FanoutInv

\* One case per action.
LEMMA StepKeepsFanout == FanoutInv /\ [Next]_vars => FanoutInv'
PROOF
  <1> SUFFICES ASSUME FanoutInv, [Next]_vars PROVE FanoutInv'
    OBVIOUS
  <1> USE DEF FanoutInv
  <1>1. ASSUME NEW kind \in Kinds, Handle(kind) PROVE FanoutInv'
    BY <1>1, OneMore, HandleHeaders, HandleGop, HandlePlayers, HandleCaches, HandleFed
  <1>2. CASE rtmpAudioHandler \/ rtmpVideoHandler \/ rtmpDataHandler
    BY <1>1, <1>2 DEF rtmpAudioHandler, rtmpVideoHandler, rtmpDataHandler, Kinds, Media
  <1>3. ASSUME UNCHANGED publisher
        PROVE  sent' \in Seq(Kinds) /\ HeadersOK' /\ GopOK' /\ CachesOK'
    <2>1. sent' \in Seq(Kinds) /\ HeadersOK' /\ GopOK'
      BY <1>3 DEF publisher, HeadersOK, GopOK, MediaAt, Received
    <2>2. \A kinds, j : LastOf(kinds, j)' = LastOf(kinds, j)
      BY <1>3 DEF publisher, LastOf
    <2>3. Group(Len(sent))' = Group(Len(sent))
      BY <1>3, <2>2 DEF publisher, Group
    <2>4. CachesOK'
      BY <1>3, <2>2, <2>3 DEF publisher, CachesOK, Received
    <2> QED
      BY <2>1, <2>4
  <1>4. ASSUME NEW p \in Players, onStartPlay(p) PROVE FanoutInv'
    BY <1>3, <1>4, JoinPlayers, JoinFed DEF onStartPlay
  <1>5. ASSUME NEW p \in Players, onPause(p) PROVE FanoutInv'
    BY <1>3, <1>5, PausePlayers, PauseFed DEF onPause
  <1>6. CASE UNCHANGED vars
    <2>1. UNCHANGED publisher /\ UNCHANGED <<sent, gopCacheEnable>> /\ UNCHANGED player
      BY <1>6 DEF vars, publisher
    <2>2. PlayersOK' /\ QueuesOK' /\ StreamsOK'
      BY <2>1 DEF player, PlayersOK, QueuesOK, StreamsOK, Stream, MediaAt, Received
    <2>3. \A j : HeadersAt(j)' = HeadersAt(j) /\ Group(j)' = Group(j)
      BY <2>1 DEF HeadersAt, Group, LastOf
    <2>4. FedOK'
      BY <2>1, <2>3 DEF player, FedOK, Fed, NotMeta, Received
    <2> QED
      BY <1>3, <2>1, <2>2, <2>4
  <1> QED
    BY <1>2, <1>4, <1>5, <1>6 DEF Next

\* Every field always holds what the code stores there, and a player is never as
\* much as QueueLimit messages behind: writeBuffer writes a full queue at once.
THEOREM TypeCorrect == Spec => []TypeOK
PROOF
  <1>1. FanoutInv => TypeOK
    BY DEF FanoutInv, HeadersOK, PlayersOK, QueuesOK, TypeOK
  <1> QED
    BY <1>1, InitFanout, StepKeepsFanout, PTL DEF Spec

\* Through every join, pause and resumption no player receives a picture or a
\* sound twice or after a later one: writeBuffer, onStartPlay and onPause never
\* let one overtake another.
THEOREM AlwaysInOrder == Spec => []InOrder
PROOF
  <1>1. FanoutInv => InOrder
    <2> SUFFICES ASSUME FanoutInv, NEW p \in Players,
                        NEW i \in 1..Len(Stream(p)), NEW j \in 1..Len(Stream(p)), i < j,
                        sent[Stream(p)[i]] \in Media, sent[Stream(p)[j]] \in Media
                 PROVE  Stream(p)[i] < Stream(p)[j]
      BY DEF InOrder
    <2>1. Stream(p) \in Seq(Received)
      BY ConcatProperties DEF FanoutInv, PlayersOK, Stream
    <2>2. Stream(p)[i] \in MediaAt /\ Stream(p)[j] \in MediaAt
      BY <2>1, ElementOfSeq DEF MediaAt
    <2> QED
      BY <2>2 DEF FanoutInv, StreamsOK, Ordered
  <1> QED
    BY <1>1, InitFanout, StepKeepsFanout, PTL DEF Spec

\* A player that is never paused receives the headers in force when it joined, and
\* then the group of pictures it joined in and every later message: none but
\* metadata twice or out of order, and nothing is lost on the way from the cache
\* (onStartPlay) or where the queue is written (writeBuffer).
THEOREM AlwaysFed == Spec => []Feed
PROOF
  <1>1. FanoutInv => Feed
    <2> SUFFICES ASSUME FanoutInv, NEW p \in Players, joined[p] # -1, pauses[p] = 0
                 PROVE  LET h == HeadersAt(joined[p])
                            rest == SubSeq(Stream(p), Len(h) + 1, Len(Stream(p)))
                        IN  /\ Stream(p) = h \o rest
                            /\ {rest[i] : i \in 1..Len(rest)} =
                                  Group(joined[p]) \cup (joined[p] + 1..Len(sent))
                            /\ \A i, k \in 1..Len(rest) :
                                  /\ i < k
                                  /\ sent[rest[i]] # "meta" /\ sent[rest[k]] # "meta"
                                  => rest[i] < rest[k]
      BY DEF Feed
    <2> DEFINE h == HeadersAt(joined[p])
               rest == SubSeq(Stream(p), Len(h) + 1, Len(Stream(p)))
    <2>1. PICK b \in Seq(Received) :
             /\ written[p] = h \o b
             /\ Ordered(b \o queue[p], NotMeta)
             /\ Holds(b \o queue[p]) = Group(joined[p]) \cup (joined[p] + 1..Len(sent))
      BY DEF FanoutInv, FedOK, Fed
    <2>2. Len(sent) \in Nat /\ joined[p] \in Nat
      BY LenProperties DEF FanoutInv, FedOK
    <2>3. h \in Seq(Nat)
      BY <2>2, HeadersType
    <2>4. /\ b \in Seq(Nat) /\ queue[p] \in Seq(Nat) /\ queue[p] \in Seq(Received)
      BY <2>1, <2>2, Widen DEF FanoutInv, PlayersOK, Received
    <2>5. b \o queue[p] \in Seq(Nat) /\ b \o queue[p] \in Seq(Received)
      BY <2>1, <2>4, ConcatProperties
    <2> HIDE DEF h
    <2>6. Stream(p) = h \o (b \o queue[p])
      <3>1. (h \o b) \o queue[p] = h \o (b \o queue[p])
        <4> DEFINE q == queue[p]
                   A == Nat
        <4>1. h \in Seq(A) /\ b \in Seq(A) /\ q \in Seq(A)
          BY <2>3, <2>4
        <4> HIDE DEF q, A
        <4>2. (h \o b) \o q = h \o (b \o q)
          BY <4>1, ConcatAssociative
        <4> QED
          BY <4>2 DEF q
      <3> QED
        BY <2>1, <3>1 DEF Stream
    <2>7. rest = b \o queue[p]
      BY <2>3, <2>5, <2>6, AfterConcat
    <2> HIDE DEF rest
    <2>8. \A i \in 1..Len(rest) : rest[i] \in Received
      BY <2>5, <2>7, ElementOfSeq
    <2>9. \A i, k \in 1..Len(rest) :
             /\ i < k
             /\ sent[rest[i]] # "meta" /\ sent[rest[k]] # "meta"
             => rest[i] < rest[k]
      BY <2>1, <2>7, <2>8 DEF Ordered, NotMeta
    <2>10. {rest[i] : i \in 1..Len(rest)} = Group(joined[p]) \cup (joined[p] + 1..Len(sent))
      BY <2>1, <2>7 DEF Holds
    <2> QED
      BY <2>6, <2>7, <2>9, <2>10 DEF h, rest
  <1> QED
    BY <1>1, InitFanout, StepKeepsFanout, PTL DEF Spec
===============================================================================
