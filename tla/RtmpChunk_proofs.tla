-------------------------- MODULE RtmpChunk_proofs --------------------------
(***************************************************************************)
(* Proofs about RtmpChunk: for every number of channels, every length,     *)
(* time and chunk size, and every number of messages and of chunks on the  *)
(* way, the reader puts together what the sender took apart.               *)
(*                                                                         *)
(* The reader is behind the sender by the chunks on the way.  It agrees    *)
(* with the sender as this was before the first of them, so the invariant  *)
(* says that there is a trace of the sender's states, one before and one   *)
(* after each chunk on the way, that ends in its present state and in      *)
(* whose first state, and in what was read of the first chunk, lies all    *)
(* that the reader holds.                                                  *)
(***************************************************************************)
EXTENDS RtmpChunk, SequenceTheorems, TLAPS

-----------------------------------------------------------------------------
(* Numbers.                                                                *)

LEMMA SmallerFacts ==
  ASSUME NEW a \in Nat, NEW b \in Nat
  PROVE  /\ Smaller(a, b) \in Nat
         /\ Smaller(a, b) <= a /\ Smaller(a, b) <= b
         /\ Smaller(a, b) = a \/ Smaller(a, b) = b
         /\ Smaller(a, b) < a => Smaller(a, b) = b
         /\ a >= 1 /\ b >= 1 => Smaller(a, b) >= 1
PROOF
  BY DEF Smaller

\* What the three bytes of a time hold says the same of the four that may follow.
LEMMA ClipFacts ==
  ASSUME NEW time \in Nat
  PROVE  /\ Clip(time) \in Nat
         /\ Clip(0) = 0
         /\ ExtendedSize(time) \in {0, 4}
         /\ ExtendedSize(Clip(time)) = ExtendedSize(time)
         /\ ExtendedSize(time) = 0 => Clip(time) = time
PROOF
  BY ChunkAssumption DEF Clip, ExtendedSize, Smaller

\* Bytes after whole chunks are those of the present chunk.
LEMMA Remainder ==
  ASSUME NEW s \in Nat \ {0}, NEW j \in Nat, NEW p \in Nat, p < s
  PROVE  (j * s + p) % s = p
PROOF
  BY SMT

LEMMA RemainderNone ==
  ASSUME NEW s \in Nat \ {0}, NEW j \in Nat
  PROVE  (j * s) % s = 0
PROOF
  BY SMT

LEMMA OneMoreChunk ==
  ASSUME NEW s \in Nat, NEW j \in Nat
  PROVE  j * s + s = (j + 1) * s
PROOF
  OBVIOUS

LEMMA HeaderSizes ==
  ASSUME NEW fmt \in 0..3, NEW cid
  PROVE  rtmpHeaderSize(fmt) \in Nat /\ BasicSize(cid) \in {1, 2}
PROOF
  BY DEF rtmpHeaderSize, BasicSize

-----------------------------------------------------------------------------
(* The sender's states and the chunks between them.                        *)

Headers == [length : Nat, timestamp : Nat, clock : Nat, message : Nat, newSize : Nat]
Chunks == [fmt : 0..3, cid : Cids, header : Headers, size : Nat \ {0}]
Senders == [header : [Cids -> Headers], left : [Cids -> Nat], size : Nat \ {0}, done : Nat]

\* A message is under way after chunks that were all full, and no new size is.
WellOn(s, c) ==
    s.left[c] > 0 =>
        /\ s.left[c] < s.header[c].length
        /\ \E j \in Nat : s.header[c].length - s.left[c] = j * s.size
        /\ s.header[c].newSize = 0

Well(s) == s \in Senders /\ \A c \in Cids : WellOn(s, c)

\* What was left of the message on the chunk's channel before it.
Before(s, k) == IF s.left[k.cid] = 0 THEN k.header.length ELSE s.left[k.cid]

\* What the header of a first chunk leaves out is as it was.
Follows(k, old) ==
    /\ k.fmt >= 2 => k.header.length = old.length
    /\ k.fmt = 3 => k.header.timestamp = old.timestamp
    /\ k.header.clock = IF k.fmt = 0 THEN k.header.timestamp
                                     ELSE old.clock + k.header.timestamp

\* Chunk k leads from s to t, when the messages d have been sent.
Sent(s, k, t, d) ==
    /\ IF s.left[k.cid] = 0 THEN Follows(k, s.header[k.cid])
                            ELSE k.fmt = 3 /\ k.header = s.header[k.cid]
    /\ k.header.length > 0
    /\ k.header.newSize # 0 => k.header.length = 1
    /\ k.size = Smaller(Before(s, k), s.size)
    /\ t.header = [s.header EXCEPT ![k.cid] = k.header]
    /\ t.left = [s.left EXCEPT ![k.cid] = Before(s, k) - k.size]
    /\ t.size = IF k.header.newSize = 0 THEN s.size ELSE k.header.newSize
    /\ t.done = IF k.size < Before(s, k) THEN s.done ELSE s.done + 1
    /\ k.size = Before(s, k) =>
          t.done \in 1..Len(d) /\ d[t.done] = Message(k.header)

\* st[i] is the sender before chunk i + 1 of w and after chunk i; at last it is `now`.
Trace(st, w, d, now) ==
    /\ st \in [0..Len(w) -> Senders]
    /\ \A i \in 0..Len(w) : Well(st[i])
    /\ \A i \in 1..Len(w) : Sent(st[i - 1], w[i], st[i], d)
    /\ st[Len(w)] = now

LEMMA TraceStart ==
  ASSUME NEW now, Well(now), NEW d
  PROVE  Trace([i \in 0..0 |-> now], <<>>, d, now)
PROOF
  BY DEF Trace, Well

LEMMA DoneGrows ==
  ASSUME NEW s, NEW k, NEW t \in Senders, NEW S, NEW d \in Seq(S), NEW m \in S, Sent(s, k, t, d)
  PROVE  Sent(s, k, t, Append(d, m))
PROOF
  BY DEF Sent, Senders

\* A chunk that is sent makes the trace longer.
LEMMA TraceGrows ==
  ASSUME NEW w \in Seq(Chunks), NEW k \in Chunks, NEW S, NEW d \in Seq(S), NEW d2 \in Seq(S),
         NEW m \in S, d2 = d \/ d2 = Append(d, m),
         NEW now, NEW next, NEW st, Trace(st, w, d, now), Well(next), Sent(now, k, next, d2)
  PROVE  \E st2 : Trace(st2, Append(w, k), d2, next) /\ st2[0] = st[0]
PROOF
  <1> DEFINE L == Len(w)
             w2 == Append(w, k)
             st2 == [i \in 0..(L + 1) |-> IF i <= L THEN st[i] ELSE next]
  <1>1. L \in Nat /\ Len(w2) = L + 1 /\ w2[L + 1] = k
    OBVIOUS
  <1>2. \A i \in 1..L : w2[i] = w[i]
    OBVIOUS
  <1> HIDE DEF L
  <1>3. next \in Senders /\ st \in [0..L -> Senders] /\ st[L] = now
    BY DEF Trace, Well, L
  <1>4. st2 \in [0..(L + 1) -> Senders]
    BY <1>1, <1>3
  <1>5. ASSUME NEW i \in 0..(L + 1)  PROVE Well(st2[i])
    <2>1. CASE i <= L
      <3>1. i \in 0..L /\ st2[i] = st[i]
        BY <1>1, <2>1
      <3> QED
        BY <3>1 DEF Trace, L
    <2>2. CASE ~ (i <= L)
      BY <2>2
    <2> QED
      BY <2>1, <2>2
  <1>6. ASSUME NEW i \in 1..(L + 1)  PROVE Sent(st2[i - 1], w2[i], st2[i], d2)
    <2>1. CASE i <= L
      <3>1. i \in 1..L /\ i \in 0..L /\ i - 1 \in 0..L
        BY <1>1, <2>1
      <3>2. st2[i] = st[i] /\ st2[i - 1] = st[i - 1] /\ w2[i] = w[i]
        BY <1>1, <1>2, <3>1
      <3>3. Sent(st[i - 1], w[i], st[i], d) /\ st[i] \in Senders
        BY <3>1 DEF Trace, L
      <3>4. Sent(st[i - 1], w[i], st[i], d2)
        BY <3>3, DoneGrows
      <3> QED
        BY <3>2, <3>4
    <2>2. CASE ~ (i <= L)
      <3>1. i = L + 1 /\ i - 1 = L /\ L \in 0..(L + 1)
        BY <1>1, <2>2
      <3>2. st2[i] = next /\ st2[i - 1] = now /\ w2[i] = k
        BY <1>1, <1>3, <3>1
      <3> QED
        BY <3>2
    <2> QED
      BY <2>1, <2>2
  <1>7. st2[L + 1] = next /\ st2[0] = st[0]
    BY <1>1
  <1>8. Trace(st2, w2, d2, next)
    <2> HIDE DEF st2, w2
    <2> QED
      BY <1>1, <1>4, <1>5, <1>6, <1>7 DEF Trace
  <1> QED
    BY <1>7, <1>8 DEF L

\* A chunk that was read makes it shorter.
LEMMA TraceShrinks ==
  ASSUME NEW w \in Seq(Chunks), w # <<>>, NEW d, NEW now, NEW st, Trace(st, w, d, now)
  PROVE  \E st2 : Trace(st2, Tail(w), d, now) /\ st2[0] = st[1]
PROOF
  <1> DEFINE L == Len(w) - 1
             w2 == Tail(w)
             st2 == [i \in 0..L |-> st[i + 1]]
  <1>1. L \in Nat /\ Len(w2) = L /\ Len(w) = L + 1
    OBVIOUS
  <1>2. \A i \in 1..L : w2[i] = w[i + 1]
    OBVIOUS
  <1> HIDE DEF L
  <1>3. st \in [0..(L + 1) -> Senders] /\ st[L + 1] = now
    BY <1>1 DEF Trace
  <1>4. st2 \in [0..L -> Senders]
    BY <1>1, <1>3
  <1>5. ASSUME NEW i \in 0..L  PROVE Well(st2[i])
    <2>1. i + 1 \in 0..(L + 1)
      BY <1>1
    <2>2. Well(st[i + 1])
      BY <1>1, <2>1 DEF Trace
    <2> QED
      BY <2>2
  <1>6. ASSUME NEW i \in 1..L  PROVE Sent(st2[i - 1], w2[i], st2[i], d)
    <2>1. i + 1 \in 1..(L + 1) /\ i - 1 \in 0..L /\ i \in 0..L /\ (i + 1) - 1 = i /\ (i - 1) + 1 = i
      BY <1>1
    <2>2. Sent(st[(i + 1) - 1], w[i + 1], st[i + 1], d)
      BY <1>1, <2>1 DEF Trace
    <2>3. st2[i - 1] = st[i] /\ st2[i] = st[i + 1] /\ w2[i] = w[i + 1]
      BY <1>2, <2>1
    <2> QED
      BY <2>1, <2>2, <2>3
  <1>7. st2[L] = now /\ st2[0] = st[1]
    BY <1>1, <1>3
  <1>8. Trace(st2, w2, d, now)
    <2> HIDE DEF st2, w2
    <2> QED
      BY <1>1, <1>4, <1>5, <1>6, <1>7 DEF Trace
  <1> QED
    BY <1>7, <1>8

-----------------------------------------------------------------------------
(* What a chunk does to the sender's state.                                *)

\* How much of the message the chunks before this one have brought.
Carried(s, k) == k.header.length - Before(s, k)

LEMMA ChunkFacts ==
  ASSUME NEW s, Well(s), NEW k \in Chunks, NEW t, NEW d, Sent(s, k, t, d)
  PROVE  /\ k.header.length \in Nat /\ k.size \in Nat /\ k.size >= 1 /\ s.size \in Nat \ {0}
         /\ Before(s, k) \in Nat /\ Before(s, k) >= 1 /\ Before(s, k) <= k.header.length
         /\ k.size <= Before(s, k) /\ k.size <= s.size
         /\ k.size = Before(s, k) \/ k.size = s.size
         /\ Carried(s, k) \in Nat
         /\ \E j \in Nat : Carried(s, k) = j * s.size
PROOF
  <1>1. /\ k.header.length \in Nat /\ k.size \in Nat /\ k.size >= 1 /\ s.size \in Nat \ {0}
        /\ k.cid \in Cids /\ s.left[k.cid] \in Nat
    BY DEF Well, Senders, Chunks, Headers
  <1>2. k.header.length >= 1
    BY <1>1 DEF Sent
  <1>3. CASE s.left[k.cid] = 0
    <2>1. Before(s, k) = k.header.length
      BY <1>3 DEF Before
    <2>2. Carried(s, k) = 0 /\ 0 = 0 * s.size
      BY <1>1, <2>1 DEF Carried
    <2>3. k.size = Smaller(k.header.length, s.size)
      BY <2>1 DEF Sent
    <2>4. k.size <= k.header.length /\ k.size <= s.size /\ (k.size = k.header.length \/ k.size = s.size)
      BY <1>1, <2>3, SmallerFacts
    <2> QED
      BY <1>1, <1>2, <2>1, <2>2, <2>4
  <1>4. CASE s.left[k.cid] # 0
    <2>1. Before(s, k) = s.left[k.cid] /\ k.header = s.header[k.cid]
      BY <1>4 DEF Before, Sent
    <2>2. /\ s.left[k.cid] < s.header[k.cid].length
          /\ \E j \in Nat : s.header[k.cid].length - s.left[k.cid] = j * s.size
      BY <1>1, <1>4 DEF Well, WellOn
    <2>3. k.size = Smaller(s.left[k.cid], s.size)
      BY <2>1 DEF Sent
    <2>4. k.size <= s.left[k.cid] /\ k.size <= s.size /\ (k.size = s.left[k.cid] \/ k.size = s.size)
      BY <1>1, <2>3, SmallerFacts
    <2>5. Carried(s, k) = s.header[k.cid].length - s.left[k.cid]
      BY <2>1 DEF Carried
    <2>6. Carried(s, k) \in Nat
      BY <1>1, <2>1, <2>2, <2>5
    <2> QED
      BY <1>1, <1>4, <2>1, <2>2, <2>4, <2>5, <2>6
  <1> QED
    BY <1>3, <1>4

\* The sender stays well when it changes the chunk size between messages only.
LEMMA SentWell ==
  ASSUME NEW s, Well(s), NEW k \in Chunks, NEW t \in Senders, NEW d, Sent(s, k, t, d),
         k.header.newSize # 0 => \A c \in Cids : s.left[c] = 0
  PROVE  Well(t)
PROOF
  <1>1. /\ s.left \in [Cids -> Nat] /\ s.header \in [Cids -> Headers] /\ k.cid \in Cids
        /\ k.header \in Headers /\ k.header.newSize \in Nat
    BY DEF Well, Senders, Chunks, Headers
  <1>2. /\ k.header.length \in Nat /\ k.size \in Nat /\ k.size >= 1 /\ s.size \in Nat \ {0}
        /\ Before(s, k) \in Nat /\ Before(s, k) <= k.header.length
        /\ k.size <= Before(s, k) /\ (k.size = Before(s, k) \/ k.size = s.size)
        /\ \E j \in Nat : Carried(s, k) = j * s.size
    BY ChunkFacts
  <1>3. /\ t.header = [s.header EXCEPT ![k.cid] = k.header]
        /\ t.left = [s.left EXCEPT ![k.cid] = Before(s, k) - k.size]
        /\ t.size = IF k.header.newSize = 0 THEN s.size ELSE k.header.newSize
    BY DEF Sent
  <1>4. ASSUME NEW c \in Cids, t.left[c] > 0
        PROVE  /\ t.left[c] < t.header[c].length
               /\ \E j \in Nat : t.header[c].length - t.left[c] = j * t.size
               /\ t.header[c].newSize = 0
    <2>1. CASE c # k.cid
      <3>1. t.left[c] = s.left[c] /\ t.header[c] = s.header[c]
        BY <1>1, <1>3, <2>1
      <3>2. k.header.newSize = 0
        BY <1>4, <3>1
      <3>3. t.size = s.size
        BY <1>3, <3>2
      <3> QED
        BY <1>4, <3>1, <3>3 DEF Well, WellOn
    <2>2. CASE c = k.cid
      <3>1. t.left[c] = Before(s, k) - k.size /\ t.header[c] = k.header
        BY <1>1, <1>3, <2>2
      <3>2. k.size < Before(s, k)
        BY <1>2, <1>4, <3>1
      <3>3. k.size = s.size
        BY <1>2, <3>2
      <3>4. k.header.newSize = 0
        <4>1. SUFFICES ASSUME k.header.newSize # 0  PROVE FALSE
          OBVIOUS
        <4>2. k.header.length = 1
          BY <4>1 DEF Sent
        <4> QED
          BY <1>2, <3>2, <4>2
      <3>5. t.size = s.size
        BY <1>3, <3>4
      <3>6. PICK j \in Nat : Carried(s, k) = j * s.size
        BY <1>2
      <3>7. k.header.length - t.left[c] = Carried(s, k) + s.size
        BY <1>2, <3>1, <3>3 DEF Carried
      <3>8. k.header.length - t.left[c] = (j + 1) * t.size
        BY <1>2, <3>5, <3>6, <3>7, OneMoreChunk
      <3>9. j + 1 \in Nat
        OBVIOUS
      <3>10. t.left[c] < k.header.length
        BY <1>2, <3>1
      <3> QED
        BY <3>1, <3>4, <3>8, <3>9, <3>10
    <2> QED
      BY <2>1, <2>2
  <1> QED
    BY <1>4 DEF Well, WellOn

\* The first chunk on the way, and what is known of it.
LEMMA FirstChunk ==
  ASSUME NEW w \in Seq(Chunks), w # <<>>, NEW st, NEW d, NEW now, Trace(st, w, d, now)
  PROVE  /\ Head(w) \in Chunks
         /\ Well(st[0]) /\ Well(st[1])
         /\ Sent(st[0], Head(w), st[1], d)
PROOF
  <1>1. Len(w) \in Nat /\ Len(w) >= 1 /\ Head(w) = w[1] /\ Head(w) \in Chunks
    OBVIOUS
  <1>2. 0 \in 0..Len(w) /\ 1 \in 0..Len(w) /\ 1 \in 1..Len(w) /\ 1 - 1 = 0
    BY <1>1
  <1>3. Sent(st[1 - 1], w[1], st[1], d)
    BY <1>2 DEF Trace
  <1> QED
    BY <1>1, <1>2, <1>3 DEF Trace

LEMMA LastIsNow ==
  ASSUME NEW st, NEW d, NEW now, Trace(st, <<>>, d, now)
  PROVE  st[0] = now
PROOF
  BY DEF Trace

-----------------------------------------------------------------------------
(* The invariant.                                                          *)

Messages == [body : Seq(Nat), clock : Nat]

\* The first n bytes of the message whose chunks bear header h.
Part(h, n) == [i \in 1..n |-> h.message]

Packet(h, clock, body) ==
    [length |-> h.length, timestamp |-> Clip(h.timestamp), clock |-> clock, body |-> body]

\* How much of a message the chunks up to now have brought.
Held(s, c) == IF s.left[c] = 0 THEN 0 ELSE s.header[c].length - s.left[c]

HeadRead(k) == BasicSize(k.cid) + rtmpHeaderSize(k.fmt)

\* What the reader holds of channel c, when the sender was s before the present chunk.
Got(s, c) ==
    IF c # parsed.cid \/ parserState \in {"init", "basic", "message"}
    THEN Packet(s.header[c], s.header[c].clock, Part(s.header[c], Held(s, c)))
    ELSE IF parserState = "extended"
    THEN Packet(parsed.header, s.header[c].clock, Part(parsed.header, Carried(s, parsed)))
    ELSE Packet(parsed.header, parsed.header.clock,
                Part(parsed.header, Carried(s, parsed) + (read - HeadSize(parsed))))

\* How far it has come in the present chunk.
Place ==
    /\ parserState \in {"init", "basic", "message", "extended", "payload"}
    /\ parserState = "init" => read = 0
    /\ parserState # "init" => wire # <<>> /\ parsed = Head(wire)
    /\ parserState \in {"basic", "message", "extended"} => parserBytes = read
    /\ parserState = "basic" => read \in 1..BasicSize(parsed.cid)
    /\ parserState = "message" => read \in BasicSize(parsed.cid)..HeadRead(parsed)
    /\ parserState = "extended" => read \in HeadRead(parsed)..HeadSize(parsed)
    /\ parserState = "payload" =>
          read \in HeadSize(parsed)..(HeadSize(parsed) + parsed.size - 1)

Reading(s) ==
    /\ inChunkSize = s.size /\ handled = s.done
    /\ inPackets = [c \in Cids |-> Got(s, c)]
    /\ Place

Now == [header |-> header, left |-> left, size |-> outChunkSize, done |-> Len(done)]

Types == /\ count \in Nat /\ read \in Nat
         /\ done \in Seq(Messages) /\ wire \in Seq(Chunks)

ChunkInv ==
    /\ Types
    /\ ~garbled
    /\ \E st : Trace(st, wire, done, Now) /\ Reading(st[0])

LEMMA NothingSent ==
  ASSUME Init
  PROVE  ChunkInv
PROOF
  <1>1. Fresh \in Headers
    BY DEF Fresh, Headers
  <1>2. Now \in Senders /\ Now.left = [c \in Cids |-> 0] /\ Now.header = [c \in Cids |-> Fresh]
        /\ Now.size = inChunkSize /\ Now.done = handled
    BY <1>1, ChunkAssumption DEF Init, Now, Senders
  <1>3. Well(Now)
    BY <1>2 DEF Well, WellOn
  <1>4. Trace([i \in 0..0 |-> Now], wire, done, Now)
    BY <1>3, TraceStart DEF Init
  <1>5. ASSUME NEW c \in Cids
        PROVE  Got(Now, c) = [length |-> 0, timestamp |-> 0, clock |-> 0, body |-> <<>>]
    <2>1. Got(Now, c) = Packet(Now.header[c], Now.header[c].clock, Part(Now.header[c], Held(Now, c)))
      BY DEF Got, Init
    <2>2. Now.header[c] = Fresh /\ Held(Now, c) = 0
      BY <1>2 DEF Held
    <2>3. Clip(0) = 0
      BY ClipFacts
    <2>4. Part(Fresh, 0) = <<>>
      BY DEF Part
    <2> QED
      BY <2>1, <2>2, <2>3, <2>4 DEF Packet, Fresh
  <1>6. inPackets = [c \in Cids |-> Got(Now, c)]
    BY <1>5 DEF Init
  <1>7. Place
    BY DEF Place, Init
  <1>8. Reading(Now)
    BY <1>2, <1>6, <1>7 DEF Reading
  <1>9. Types /\ ~garbled
    BY DEF Init, Types
  <1>10. [i \in 0..0 |-> Now][0] = Now
    OBVIOUS
  <1> QED
    BY <1>4, <1>8, <1>9, <1>10 DEF ChunkInv

-----------------------------------------------------------------------------
(* The sender.                                                             *)

LEMMA MessageType ==
  ASSUME NEW h \in Headers
  PROVE  Message(h) \in Messages /\ h.length \in Nat
PROOF
  <1>1. h.length \in Nat /\ h.message \in Nat /\ h.clock \in Nat
    BY DEF Headers
  <1>2. [i \in 1..h.length |-> h.message] \in Seq(Nat)
    BY <1>1
  <1> QED
    BY <1>1, <1>2 DEF Message, Messages

\* What the reader holds does not depend on what is sent behind the present chunk.
LEMMA ReadingOn ==
  ASSUME NEW s, Reading(s), wire \in Seq(Chunks), NEW k \in Chunks,
         wire' = Append(wire, k), UNCHANGED <<read, reader>>
  PROVE  Reading(s)'
PROOF
  <1>1. wire # <<>> => wire' # <<>> /\ Head(wire') = Head(wire)
    OBVIOUS
  <1>2. UNCHANGED <<read, parserState, parserBytes, parsed, inPackets, inChunkSize, handled>>
    BY DEF reader
  <1>3. Place'
    BY <1>1, <1>2 DEF Reading, Place
  <1>4. ASSUME NEW c  PROVE Got(s, c)' = Got(s, c)
    BY <1>2 DEF Got
  <1>5. inPackets' = [c \in Cids |-> Got(s, c)']
    BY <1>2, <1>4 DEF Reading
  <1> QED
    BY <1>2, <1>3, <1>5 DEF Reading

\* One more chunk is on the way.
LEMMA OneMoreOnTheWay ==
  ASSUME ChunkInv, NEW k \in Chunks, wire' = Append(wire, k), UNCHANGED <<read, reader>>,
         count' \in Nat, Now' \in Senders, done' = done \/ done' = Append(done, Message(k.header)),
         Sent(Now, k, Now', done'), k.header.newSize # 0 => \A c \in Cids : left[c] = 0
  PROVE  ChunkInv'
PROOF
  <1>1. Types /\ ~garbled
    BY DEF ChunkInv
  <1>2. PICK st : Trace(st, wire, done, Now) /\ Reading(st[0])
    BY DEF ChunkInv
  <1>3. Well(Now)
    <2>1. Len(wire) \in 0..Len(wire)
      BY <1>1 DEF Types
    <2> QED
      BY <1>2, <2>1 DEF Trace
  <1>4. k.header.newSize # 0 => \A c \in Cids : Now.left[c] = 0
    BY DEF Now
  <1>5. Well(Now')
    BY <1>3, <1>4, SentWell
  <1>6. Message(k.header) \in Messages
    BY MessageType DEF Chunks
  <1>7. done' \in Seq(Messages)
    <2>1. done \in Seq(Messages)
      BY <1>1 DEF Types
    <2> DEFINE m == Message(k.header)
    <2> HIDE DEF m
    <2>2. m \in Messages
      BY <1>6 DEF m
    <2>3. Append(done, m) \in Seq(Messages)
      BY <2>1, <2>2
    <2> QED
      BY <2>1, <2>3 DEF m
  <1>8. \E st2 : Trace(st2, Append(wire, k), done', Now') /\ st2[0] = st[0]
    <2>1. wire \in Seq(Chunks) /\ done \in Seq(Messages)
      BY <1>1 DEF Types
    <2> QED
      BY <1>2, <1>5, <1>6, <1>7, <2>1, TraceGrows
  <1>9. Reading(st[0])'
    BY <1>1, <1>2, ReadingOn DEF Types
  <1>10. PICK st2 : Trace(st2, Append(wire, k), done', Now') /\ st2[0] = st[0]
    BY <1>8
  <1>11. Reading(st2[0])'
    BY <1>9, <1>10
  <1>12. Types' /\ ~garbled'
    <2>1. read' = read /\ garbled' = garbled
      BY DEF reader
    <2>2. wire' \in Seq(Chunks)
      BY <1>1 DEF Types
    <2> QED
      BY <1>1, <1>7, <2>1, <2>2 DEF Types
  <1> QED
    BY <1>10, <1>11, <1>12 DEF ChunkInv

\* The types of the sender's variables.
LEMMA SenderTypes ==
  ASSUME ChunkInv
  PROVE  /\ count \in Nat /\ done \in Seq(Messages) /\ Len(done) \in Nat /\ wire \in Seq(Chunks)
         /\ header \in [Cids -> Headers] /\ left \in [Cids -> Nat] /\ outChunkSize \in Nat \ {0}
         /\ \A c \in Cids : left[c] > 0 => /\ left[c] < header[c].length
                                           /\ header[c].newSize = 0
PROOF
  <1>1. Types
    BY DEF ChunkInv
  <1>2. PICK st : Trace(st, wire, done, Now)
    BY DEF ChunkInv
  <1>3. Len(wire) \in 0..Len(wire)
    BY <1>1 DEF Types
  <1>4. Well(Now)
    BY <1>2, <1>3 DEF Trace
  <1>5. Now \in Senders
    BY <1>4 DEF Well
  <1>6. header \in [Cids -> Headers] /\ left \in [Cids -> Nat] /\ outChunkSize \in Nat \ {0}
    BY <1>5 DEF Now, Senders
  <1>7. \A c \in Cids : left[c] > 0 => /\ left[c] < header[c].length
                                       /\ header[c].newSize = 0
    BY <1>4 DEF Well, WellOn, Now
  <1> QED
    BY <1>1, <1>6, <1>7 DEF Types

\* A chunk as the sender makes it leads from its state to the next.
LEMMA ChunkSends ==
  ASSUME ChunkInv, NEW fmt \in 0..3, NEW cid \in Cids, NEW h \in Headers, NEW more,
         more = IF left[cid] = 0 THEN h.length ELSE left[cid],
         IF left[cid] = 0 THEN Follows([fmt |-> fmt, header |-> h], header[cid])
                          ELSE fmt = 3 /\ h = header[cid],
         h.length > 0, h.newSize # 0 => h.length = 1 /\ \A c \in Cids : left[c] = 0,
         header' = [header EXCEPT ![cid] = h], count' \in Nat,
         outChunkSize' = IF h.newSize = 0 THEN outChunkSize ELSE h.newSize,
         Chunk(fmt, cid, h, more)
  PROVE  ChunkInv'
PROOF
  <1> DEFINE size == Smaller(more, outChunkSize)
             k == [fmt |-> fmt, cid |-> cid, header |-> h, size |-> size]
  <1>1. /\ done \in Seq(Messages) /\ Len(done) \in Nat
        /\ header \in [Cids -> Headers] /\ left \in [Cids -> Nat] /\ outChunkSize \in Nat \ {0}
    BY SenderTypes
  <1>2. h.length \in Nat /\ h.newSize \in Nat /\ more \in Nat /\ more >= 1
    <2>1. h.length \in Nat /\ h.newSize \in Nat
      BY DEF Headers
    <2>2. left[cid] \in Nat
      BY <1>1
    <2> QED
      BY <2>1, <2>2
  <1>3. size \in Nat /\ size >= 1 /\ size <= more
    <2>1. outChunkSize \in Nat /\ outChunkSize >= 1
      BY <1>1
    <2> QED
      BY <1>2, <2>1, SmallerFacts
  <1>4. /\ wire' = Append(wire, k)
        /\ left' = [left EXCEPT ![cid] = more - size]
        /\ done' = IF more > size THEN done ELSE Append(done, Message(h))
        /\ UNCHANGED <<read, reader>>
    BY DEF Chunk
  <1>5. Message(h) \in Messages
    BY MessageType
  <1> HIDE DEF size
  <1>6. k \in Chunks
    BY <1>3 DEF Chunks
  <1>7. k.fmt = fmt /\ k.cid = cid /\ k.header = h /\ k.size = size
    OBVIOUS
  <1> HIDE DEF k
  <1>8. Len(done') \in Nat /\ (more <= size => Len(done') \in 1..Len(done') /\ done'[Len(done')] = Message(h))
        /\ Len(done') = (IF size < more THEN Len(done) ELSE Len(done) + 1)
    <2>1. CASE more > size
      BY <1>1, <1>2, <1>3, <1>4, <2>1
    <2>2. CASE ~ (more > size)
      <3>1. done' = Append(done, Message(h)) /\ ~ (size < more)
        BY <1>2, <1>3, <1>4, <2>2
      <3>2. Len(done') = Len(done) + 1 /\ done'[Len(done) + 1] = Message(h)
        BY <1>1, <1>5, <3>1
      <3> QED
        BY <1>1, <3>1, <3>2
    <2> QED
      BY <2>1, <2>2
  <1>9. Now' \in Senders
    <2>1. header' \in [Cids -> Headers]
      BY <1>1
    <2>2. more - size \in Nat
      BY <1>2, <1>3
    <2>3. left' \in [Cids -> Nat]
      BY <1>1, <1>4, <2>2
    <2>4. outChunkSize' \in Nat \ {0}
      BY <1>1, <1>2
    <2> QED
      BY <1>8, <2>1, <2>3, <2>4 DEF Now, Senders
  <1>10. Before(Now, k) = more
    BY <1>7 DEF Before, Now
  <1>11. Sent(Now, k, Now', done')
    <2>1. IF Now.left[k.cid] = 0 THEN Follows(k, Now.header[k.cid])
                                 ELSE k.fmt = 3 /\ k.header = Now.header[k.cid]
      BY <1>7 DEF Follows, Now
    <2>2. k.size = Smaller(Before(Now, k), Now.size)
      BY <1>7, <1>10 DEF Now, size
    <2>3. Now'.done = IF k.size < Before(Now, k) THEN Now.done ELSE Now.done + 1
      BY <1>7, <1>8, <1>10 DEF Now
    <2>4. Now'.header = [Now.header EXCEPT ![k.cid] = k.header]
      BY <1>7 DEF Now
    <2>5. Now'.left = [Now.left EXCEPT ![k.cid] = Before(Now, k) - k.size]
      BY <1>4, <1>7, <1>10 DEF Now
    <2>6. Now'.size = IF k.header.newSize = 0 THEN Now.size ELSE k.header.newSize
      BY <1>7 DEF Now
    <2>7. k.size = Before(Now, k) =>
             Now'.done \in 1..Len(done') /\ done'[Now'.done] = Message(k.header)
      BY <1>2, <1>3, <1>7, <1>8, <1>10 DEF Now
    <2> QED
      BY <1>7, <2>1, <2>2, <2>3, <2>4, <2>5, <2>6, <2>7 DEF Sent
  <1> QED
    BY <1>4, <1>6, <1>7, <1>9, <1>11, OneMoreOnTheWay

LEMMA BeginKeeps ==
  ASSUME ChunkInv, NEW cid \in Cids, NEW fmt \in 0..3, NEW length \in Nat \ {0},
         NEW time \in Nat, NEW newSize \in Nat,
         Begin(cid, fmt, length, time, newSize),
         newSize # 0 => length = 1 /\ \A c \in Cids : left[c] = 0,
         outChunkSize' = IF newSize = 0 THEN outChunkSize ELSE newSize
  PROVE  ChunkInv'
PROOF
  <1> DEFINE old == header[cid]
             h == [length |-> length, timestamp |-> time, message |-> count + 1, newSize |-> newSize,
                   clock |-> IF fmt = 0 THEN time ELSE old.clock + time]
  <1>1. /\ left[cid] = 0 /\ (fmt >= 2 => length = old.length) /\ (fmt = 3 => time = old.timestamp)
        /\ count' = count + 1
        /\ header' = [header EXCEPT ![cid] = h]
        /\ Chunk(fmt, cid, h, length)
    BY DEF Begin
  <1>2. count \in Nat /\ old \in Headers
    BY SenderTypes
  <1>3. old.clock \in Nat
    BY <1>2 DEF Headers
  <1>4. h \in Headers
    BY <1>2, <1>3 DEF Headers
  <1>5. h.length = length /\ h.newSize = newSize
    OBVIOUS
  <1>6. Follows([fmt |-> fmt, header |-> h], old)
    BY <1>1 DEF Follows
  <1>7. count' \in Nat /\ h.length > 0 /\ length = (IF left[cid] = 0 THEN h.length ELSE left[cid])
    BY <1>1, <1>2
  <1> HIDE DEF h
  <1> QED
    BY <1>1, <1>4, <1>5, <1>6, <1>7, ChunkSends

LEMMA SendMessageKeeps ==
  ASSUME ChunkInv, SendMessage
  PROVE  ChunkInv'
PROOF
  <1>1. PICK cid \in Cids, fmt \in 0..3, length \in Lengths, time \in Times :
            Begin(cid, fmt, length, time, 0)
    BY DEF SendMessage
  <1>2. length \in Nat \ {0} /\ time \in Nat /\ outChunkSize' = outChunkSize
    BY ChunkAssumption DEF SendMessage
  <1> QED
    BY <1>1, <1>2, BeginKeeps

LEMMA SendChunkSizeKeeps ==
  ASSUME ChunkInv, SendChunkSize
  PROVE  ChunkInv'
PROOF
  <1>1. PICK cid \in ShortCids, size \in ChunkSizes \ {outChunkSize} :
            Begin(cid, 0, 1, 0, size) /\ outChunkSize' = size
    BY DEF SendChunkSize
  <1>2. cid \in Cids /\ size \in Nat /\ size # 0
    BY ChunkAssumption DEF Cids
  <1>3. \A c \in Cids : left[c] = 0
    BY DEF SendChunkSize
  <1> QED
    BY <1>1, <1>2, <1>3, BeginKeeps

LEMMA SendRestKeeps ==
  ASSUME ChunkInv, SendRest
  PROVE  ChunkInv'
PROOF
  <1>1. PICK cid \in Cids : left[cid] > 0 /\ Chunk(3, cid, header[cid], left[cid])
    BY DEF SendRest
  <1>2. /\ count \in Nat /\ header \in [Cids -> Headers] /\ left[cid] \in Nat
        /\ left[cid] < header[cid].length /\ header[cid].newSize = 0
    BY <1>1, SenderTypes
  <1>3. header[cid] \in Headers /\ header[cid].length \in Nat
    BY <1>2 DEF Headers
  <1>4. header[cid].length > 0 /\ left[cid] # 0
    BY <1>1, <1>2, <1>3
  <1>5. UNCHANGED <<count, outChunkSize, header>>
    BY DEF SendRest
  <1> DEFINE h == header[cid]
  <1>6. header' = [header EXCEPT ![cid] = h]
    BY <1>2, <1>5
  <1>7. /\ left[cid] = IF left[cid] = 0 THEN h.length ELSE left[cid]
        /\ IF left[cid] = 0 THEN Follows([fmt |-> 3, header |-> h], header[cid])
                           ELSE 3 = 3 /\ h = header[cid]
        /\ h.newSize # 0 => h.length = 1 /\ \A c \in Cids : left[c] = 0
        /\ outChunkSize' = IF h.newSize = 0 THEN outChunkSize ELSE h.newSize
        /\ count' \in Nat
    BY <1>2, <1>4, <1>5
  <1>8. h \in Headers /\ h.length > 0 /\ Chunk(3, cid, h, left[cid]) /\ 3 \in 0..3
    BY <1>1, <1>3, <1>4
  <1> HIDE DEF h
  <1> QED
    BY <1>6, <1>7, <1>8, ChunkSends

-----------------------------------------------------------------------------
(* The reader.                                                             *)

LEMMA HeadSizes ==
  ASSUME NEW k \in Chunks
  PROVE  /\ k.cid \in Cids /\ k.fmt \in 0..3 /\ k.header \in Headers
         /\ k.header.timestamp \in Nat /\ k.header.length \in Nat
         /\ k.size \in Nat /\ k.size >= 1
         /\ BasicSize(k.cid) \in {1, 2} /\ rtmpHeaderSize(k.fmt) \in Nat
         /\ HeadRead(k) \in Nat /\ BasicSize(k.cid) <= HeadRead(k)
         /\ HeadSize(k) = HeadRead(k) + ExtendedSize(k.header.timestamp)
         /\ HeadSize(k) \in Nat /\ HeadRead(k) <= HeadSize(k) /\ HeadSize(k) >= 1
PROOF
  <1>1. /\ k.cid \in Cids /\ k.fmt \in 0..3 /\ k.header \in Headers
        /\ k.header.timestamp \in Nat /\ k.header.length \in Nat
        /\ k.size \in Nat /\ k.size >= 1
    BY DEF Chunks, Headers
  <1>2. BasicSize(k.cid) \in {1, 2} /\ rtmpHeaderSize(k.fmt) \in Nat
    BY <1>1, HeaderSizes
  <1>3. ExtendedSize(k.header.timestamp) \in {0, 4}
    BY <1>1, ClipFacts
  <1> QED
    BY <1>1, <1>2, <1>3 DEF HeadRead, HeadSize

\* A header read to its end says what the sender's header says.
LEMMA HeaderGiven ==
  ASSUME NEW s, Well(s), NEW k \in Chunks, NEW t, NEW d, Sent(s, k, t, d)
  PROVE  /\ k.fmt >= 2 => k.header.length = s.header[k.cid].length
         /\ k.fmt = 3 => k.header.timestamp = s.header[k.cid].timestamp
         /\ Part(s.header[k.cid], Held(s, k.cid)) = Part(k.header, Carried(s, k))
         /\ Carried(s, k) > 0 => k.header.clock = s.header[k.cid].clock
         /\ Carried(s, k) = 0 =>
               k.header.clock = IF k.fmt = 0 THEN k.header.timestamp
                                ELSE s.header[k.cid].clock + k.header.timestamp
PROOF
  <1>1. k.cid \in Cids /\ k.header.length \in Nat /\ s.left[k.cid] \in Nat
    BY DEF Well, Senders, Chunks, Headers
  <1>2. CASE s.left[k.cid] = 0
    <2>1. Carried(s, k) = 0 /\ Held(s, k.cid) = 0
      BY <1>1, <1>2 DEF Carried, Before, Held
    <2>2. Part(s.header[k.cid], 0) = <<>> /\ Part(k.header, 0) = <<>>
      BY DEF Part
    <2>3. Follows(k, s.header[k.cid])
      BY <1>2 DEF Sent
    <2> QED
      BY <2>1, <2>2, <2>3 DEF Follows
  <1>3. CASE s.left[k.cid] # 0
    <2>1. k.fmt = 3 /\ k.header = s.header[k.cid]
      BY <1>3 DEF Sent
    <2>2. Carried(s, k) = Held(s, k.cid)
      BY <1>3, <2>1 DEF Carried, Before, Held
    <2>3. s.left[k.cid] < s.header[k.cid].length
      BY <1>1, <1>3 DEF Well, WellOn
    <2>4. Carried(s, k) # 0
      BY <1>1, <1>3, <2>1, <2>3 DEF Carried, Before
    <2> QED
      BY <2>1, <2>2, <2>4
  <1> QED
    BY <1>2, <1>3

\* A turn that stays in the present chunk.
LEMMA SameChunk ==
  ASSUME Types, NEW st, Trace(st, wire, done, Now), Reading(st[0])',
         UNCHANGED sender, wire' = wire, read' \in Nat, ~garbled'
  PROVE  ChunkInv'
PROOF
  <1>1. done' = done /\ Now' = Now /\ count' = count
    BY DEF sender, Now
  <1>2. Trace(st, wire', done', Now')
    BY <1>1
  <1>3. Types'
    BY <1>1 DEF Types
  <1> QED
    BY <1>2, <1>3 DEF ChunkInv

\* A turn that takes bytes of the header takes the right ones.
LEMMA HeaderBytes ==
  ASSUME wire # <<>>, Head(wire) \in Chunks, read \in Nat, NEW bytes, bytes = {read},
         NEW size \in Nat, read <= size, size <= HeadSize(Head(wire)),
         NEW n \in Coming(size - read), Take(n), garbled' = Astray(n, bytes)
  PROVE  /\ wire' = wire /\ ~garbled' /\ read' = read + n
         /\ read' \in Nat /\ read' \in read..size
PROOF
  <1>1. /\ HeadSize(Head(wire)) \in Nat /\ Head(wire).size \in Nat /\ Head(wire).size >= 1
    BY HeadSizes
  <1>2. n \in 0..(size - read)
    BY DEF Coming
  <1>3. n < HeadSize(Head(wire)) + Head(wire).size - read
    BY <1>1, <1>2
  <1>4. read' = read + n /\ wire' = wire
    BY <1>3 DEF Take
  <1>5. ~ Astray(n, bytes)
    BY <1>1, <1>2, <1>3 DEF Astray
  <1> QED
    BY <1>2, <1>4, <1>5

LEMMA ParseInitKeeps ==
  ASSUME Types, wire # <<>>, NEW st, Trace(st, wire, done, Now), Reading(st[0]),
         ParseInit, UNCHANGED sender
  PROVE  ChunkInv'
PROOF
  <1> DEFINE k == Head(wire)
             s == st[0]
  <1>1. k \in Chunks
    BY DEF Types
  <1>2. HeadSize(k) \in Nat /\ HeadSize(k) >= 1 /\ BasicSize(k.cid) \in {1, 2}
    BY <1>1, HeadSizes
  <1>3. parserState = "init" /\ read = 0
    BY DEF ParseInit, Reading, Place
  <1>4. Take(1) /\ garbled' = Astray(1, {0}) /\ 1 \in Coming(1 - read)
    BY <1>3 DEF ParseInit, Coming
  <1>5. wire' = wire /\ ~garbled' /\ read' = 1
    BY <1>1, <1>2, <1>3, <1>4, HeaderBytes
  <1>6. /\ parserBytes' = 1 /\ parsed' = k /\ parserState' = "basic"
        /\ UNCHANGED <<inPackets, inChunkSize, handled>>
    BY DEF ParseInit
  <1>7. Place'
    BY <1>2, <1>5, <1>6 DEF Place
  <1>8. ASSUME NEW c  PROVE Got(s, c)' = Got(s, c)
    BY <1>3, <1>6 DEF Got
  <1>9. inPackets' = [c \in Cids |-> Got(s, c)']
    BY <1>6, <1>8 DEF Reading
  <1>10. Reading(s)'
    BY <1>6, <1>7, <1>9 DEF Reading
  <1> QED
    BY <1>5, <1>10, SameChunk

LEMMA ParseBasicKeeps ==
  ASSUME Types, wire # <<>>, NEW st, Trace(st, wire, done, Now), Reading(st[0]),
         ParseBasicHeader, UNCHANGED sender
  PROVE  ChunkInv'
PROOF
  <1> DEFINE k == Head(wire)
             s == st[0]
             size == BasicSize(k.cid)
  <1>1. k \in Chunks /\ read \in Nat
    BY DEF Types
  <1>2. /\ HeadSize(k) \in Nat /\ BasicSize(k.cid) \in {1, 2}
        /\ BasicSize(k.cid) <= HeadRead(k) /\ HeadRead(k) <= HeadSize(k) /\ HeadRead(k) \in Nat
    BY <1>1, HeadSizes
  <1>3. parserState = "basic" /\ parsed = k /\ parserBytes = read /\ read \in 1..size
    BY DEF ParseBasicHeader, Reading, Place
  <1>4. Collect(size, parserState' = "message" /\ UNCHANGED inPackets)
    BY <1>3 DEF ParseBasicHeader
  <1>5. PICK n \in Coming(size - read) :
          /\ Take(n) /\ garbled' = Astray(n, {read})
          /\ parserBytes' = read + n
          /\ IF read + n = size THEN parserState' = "message" /\ UNCHANGED inPackets
                                ELSE UNCHANGED <<parserState, inPackets>>
          /\ UNCHANGED <<parsed, inChunkSize, handled>>
    BY <1>3, <1>4 DEF Collect
  <1>6. size \in Nat /\ read <= size /\ size <= HeadSize(k)
    BY <1>1, <1>2, <1>3
  <1>7. /\ wire' = wire /\ ~garbled' /\ read' = read + n /\ read' \in Nat /\ read' \in read..size
    BY <1>1, <1>5, <1>6, HeaderBytes
  <1>8. parserState' \in {"basic", "message"} /\ inPackets' = inPackets
        /\ (parserState' = "message" => read' = size)
    BY <1>3, <1>5, <1>7
  <1>9. Place'
    <2>1. read' \in 1..size /\ (read' = size => read' \in size..HeadRead(k))
      BY <1>2, <1>3, <1>7
    <2> QED
      BY <1>3, <1>5, <1>7, <1>8, <2>1 DEF Place
  <1>10. ASSUME NEW c  PROVE Got(s, c)' = Got(s, c)
    BY <1>3, <1>5, <1>8 DEF Got
  <1>11. inPackets' = [c \in Cids |-> Got(s, c)']
    BY <1>8, <1>10 DEF Reading
  <1>12. Reading(s)'
    BY <1>5, <1>9, <1>11 DEF Reading
  <1> QED
    BY <1>7, <1>12, SameChunk

\* What the reader makes of a packet when the message header is complete.
Updated(packet, k) ==
    [packet EXCEPT !.timestamp = IF k.fmt <= 2 THEN Clip(k.header.timestamp) ELSE @,
                   !.length = IF k.fmt <= 1 THEN k.header.length ELSE @]

LEMMA HeaderUpdates ==
  ASSUME NEW s, Well(s), NEW k \in Chunks, NEW t, NEW d, Sent(s, k, t, d), NEW clock
  PROVE  Updated(Packet(s.header[k.cid], clock, Part(s.header[k.cid], Held(s, k.cid))), k)
             = Packet(k.header, clock, Part(k.header, Carried(s, k)))
PROOF
  <1> DEFINE old == s.header[k.cid]
             B == Part(k.header, Carried(s, k))
  <1>1. k.fmt \in 0..3
    BY HeadSizes
  <1>2. /\ k.fmt >= 2 => k.header.length = old.length
        /\ k.fmt = 3 => k.header.timestamp = old.timestamp
        /\ Part(old, Held(s, k.cid)) = B
    BY HeaderGiven
  <1> HIDE DEF old, B
  <1>3. Updated(Packet(old, clock, B), k) =
            [length |-> IF k.fmt <= 1 THEN k.header.length ELSE old.length,
             timestamp |-> IF k.fmt <= 2 THEN Clip(k.header.timestamp) ELSE Clip(old.timestamp),
             clock |-> clock, body |-> B]
    <2> DEFINE p == Packet(old, clock, B)
    <2>1. p = [length |-> old.length, timestamp |-> Clip(old.timestamp), clock |-> clock, body |-> B]
      BY DEF Packet
    <2> DEFINE T == IF k.fmt <= 2 THEN Clip(k.header.timestamp) ELSE p.timestamp
               N == IF k.fmt <= 1 THEN k.header.length ELSE p.length
    <2>2. p.timestamp = Clip(old.timestamp) /\ p.length = old.length
      BY <2>1
    <2> HIDE DEF p
    <2>3. Updated(p, k) = [p EXCEPT !.timestamp = T, !.length = N]
      BY <2>1 DEF Updated
    <2>4. T = IF k.fmt <= 2 THEN Clip(k.header.timestamp) ELSE Clip(old.timestamp)
      BY <2>2
    <2>5. N = IF k.fmt <= 1 THEN k.header.length ELSE old.length
      BY <2>2
    <2> HIDE DEF T, N
    <2>6. Updated(p, k) = [length |-> N, timestamp |-> T, clock |-> clock, body |-> B]
      BY <2>1, <2>3
    <2> QED
      BY <2>4, <2>5, <2>6 DEF p
  <1>4. (IF k.fmt <= 1 THEN k.header.length ELSE old.length) = k.header.length
    BY <1>1, <1>2
  <1>5. (IF k.fmt <= 2 THEN Clip(k.header.timestamp) ELSE Clip(old.timestamp))
            = Clip(k.header.timestamp)
    BY <1>1, <1>2
  <1>6. Updated(Packet(old, clock, B), k) = Packet(k.header, clock, B)
    BY <1>3, <1>4, <1>5 DEF Packet
  <1> QED
    BY <1>2, <1>6 DEF old, B

LEMMA ParseMessageKeeps ==
  ASSUME Types, wire # <<>>, NEW st, Trace(st, wire, done, Now), Reading(st[0]),
         ParseMessageHeader, UNCHANGED sender
  PROVE  ChunkInv'
PROOF
  <1> DEFINE k == Head(wire)
             s == st[0]
             size == HeadRead(k)
  <1>1. wire \in Seq(Chunks) /\ read \in Nat
    BY DEF Types
  <1>2. k \in Chunks /\ Well(s) /\ Sent(s, k, st[1], done)
    BY <1>1, FirstChunk
  <1>3. /\ HeadSize(k) \in Nat /\ BasicSize(k.cid) \in {1, 2} /\ k.cid \in Cids
        /\ size \in Nat /\ BasicSize(k.cid) <= size /\ size <= HeadSize(k)
    BY <1>2, HeadSizes
  <1>4. parserState = "message" /\ parsed = k /\ parserBytes = read
        /\ read \in BasicSize(k.cid)..size
    BY DEF ParseMessageHeader, Reading, Place
  <1>5. PICK n \in Coming(size - read) :
          /\ Take(n) /\ garbled' = Astray(n, {read})
          /\ parserBytes' = read + n
          /\ IF read + n = size
             THEN /\ parserState' = "extended"
                  /\ inPackets' = [inPackets EXCEPT ![k.cid] = Updated(inPackets[k.cid], k)]
             ELSE UNCHANGED <<parserState, inPackets>>
          /\ UNCHANGED <<parsed, inChunkSize, handled>>
    BY <1>4 DEF ParseMessageHeader, Collect, HeadRead, Updated
  <1>6. /\ wire' = wire /\ ~garbled' /\ read' = read + n /\ read' \in Nat /\ read' \in read..size
    <2>1. read <= size
      BY <1>3, <1>4
    <2> HIDE DEF size
    <2> QED
      BY <1>1, <1>2, <1>3, <1>5, <2>1, HeaderBytes
  <1>7. inPackets = [c \in Cids |-> Got(s, c)] /\ inChunkSize = s.size /\ handled = s.done
    BY DEF Reading
  <1>8. CASE read + n = size
    <2>1. parserState' = "extended" /\ parsed' = k
      BY <1>4, <1>5, <1>8
    <2>2. Place'
      BY <1>3, <1>4, <1>5, <1>6, <1>8, <2>1 DEF Place
    <2>3. Got(s, k.cid) = Packet(s.header[k.cid], s.header[k.cid].clock,
                                 Part(s.header[k.cid], Held(s, k.cid)))
      BY <1>4 DEF Got
    <2>4. Updated(Got(s, k.cid), k) = Packet(k.header, s.header[k.cid].clock, Part(k.header, Carried(s, k)))
      BY <1>2, <2>3, HeaderUpdates
    <2>5. Got(s, k.cid)' = Packet(k.header, s.header[k.cid].clock, Part(k.header, Carried(s, k)))
      BY <1>6, <2>1 DEF Got
    <2>6. ASSUME NEW c, c # k.cid  PROVE Got(s, c)' = Got(s, c)
      BY <1>4, <2>1, <2>6 DEF Got
    <2>7. Got(s, k.cid)' = Updated(Got(s, k.cid), k)
      BY <2>4, <2>5
    <2>8. inPackets' = [inPackets EXCEPT ![k.cid] = Updated(inPackets[k.cid], k)]
      BY <1>5, <1>8
    <2>9. inPackets' = [c \in Cids |-> Got(s, c)']
      BY <1>3, <1>6, <1>7, <2>6, <2>7, <2>8
    <2>10. Reading(s)'
      BY <1>5, <1>7, <2>2, <2>9 DEF Reading
    <2> QED
      BY <1>6, <2>10, SameChunk
  <1>9. CASE read + n # size
    <2>1. parserState' = "message" /\ parsed' = k /\ inPackets' = inPackets
      BY <1>4, <1>5, <1>9
    <2>2. read' \in BasicSize(k.cid)..size
      BY <1>3, <1>4, <1>6
    <2>3. Place'
      BY <1>5, <1>6, <2>1, <2>2 DEF Place
    <2>4. ASSUME NEW c  PROVE Got(s, c)' = Got(s, c)
      BY <1>4, <2>1 DEF Got
    <2>5. inPackets' = [c \in Cids |-> Got(s, c)']
      BY <1>7, <2>1, <2>4
    <2>6. Reading(s)'
      BY <1>5, <1>7, <2>3, <2>5 DEF Reading
    <2> QED
      BY <1>6, <2>6, SameChunk
  <1> QED
    BY <1>8, <1>9

LEMMA ParseExtendedKeeps ==
  ASSUME Types, wire # <<>>, NEW st, Trace(st, wire, done, Now), Reading(st[0]),
         ParseExtendedTimestamp, UNCHANGED sender
  PROVE  ChunkInv'
PROOF
  <1> DEFINE k == Head(wire)
             s == st[0]
             size == HeadSize(k)
             B == Part(k.header, Carried(s, k))
             packet == Packet(k.header, s.header[k.cid].clock, B)
             extended == ExtendedSize(parserPacket.timestamp)
             time == IF extended > 0 THEN parsed.header.timestamp ELSE parserPacket.timestamp
  <1>1. wire \in Seq(Chunks) /\ read \in Nat
    BY DEF Types
  <1>2. k \in Chunks /\ Well(s) /\ Sent(s, k, st[1], done)
    BY <1>1, FirstChunk
  <1>3. /\ size \in Nat /\ k.cid \in Cids /\ HeadRead(k) \in Nat /\ HeadRead(k) <= size
        /\ k.header.timestamp \in Nat /\ k.size \in Nat /\ k.size >= 1
        /\ size = HeadRead(k) + ExtendedSize(k.header.timestamp)
    BY <1>2, HeadSizes
  <1>4. parserState = "extended" /\ parsed = k /\ parserBytes = read
        /\ read \in HeadRead(k)..size
    BY DEF ParseExtendedTimestamp, Reading, Place
  <1>5. inPackets = [c \in Cids |-> Got(s, c)] /\ inChunkSize = s.size /\ handled = s.done
    BY DEF Reading
  <1>6. parserPacket = packet /\ inPackets[k.cid] = packet
    BY <1>3, <1>4, <1>5 DEF Got, parserPacket
  <1>7. /\ parserPacket.timestamp = Clip(k.header.timestamp)
        /\ parserPacket.clock = s.header[k.cid].clock /\ parserPacket.body = B
    BY <1>6 DEF Packet
  <1>8. extended = ExtendedSize(k.header.timestamp)
    BY <1>3, <1>7, ClipFacts
  <1>9. time = k.header.timestamp
    <2>1. /\ ExtendedSize(k.header.timestamp) \in {0, 4}
          /\ ExtendedSize(k.header.timestamp) = 0 => Clip(k.header.timestamp) = k.header.timestamp
      BY <1>3, ClipFacts
    <2> HIDE DEF extended
    <2> QED
      BY <1>4, <1>7, <1>8, <2>1
  <1>10. Clock(parserPacket, time) = k.header.clock
    <2>1. Carried(s, k) \in Nat
      BY <1>2, ChunkFacts
    <2>2. /\ Carried(s, k) > 0 => k.header.clock = s.header[k.cid].clock
          /\ Carried(s, k) = 0 =>
               k.header.clock = IF k.fmt = 0 THEN k.header.timestamp
                                ELSE s.header[k.cid].clock + k.header.timestamp
      BY <1>2, HeaderGiven
    <2>3. (B = <<>>) <=> (Carried(s, k) = 0)
      <3>1. Len(B) = Carried(s, k)
        BY <2>1 DEF Part
      <3>2. Carried(s, k) = 0 => B = <<>>
        BY DEF Part
      <3> QED
        BY <3>1, <3>2
    <2> HIDE DEF B, time
    <2> QED
      BY <1>4, <1>7, <1>9, <2>1, <2>2, <2>3 DEF Clock
  <1>11. BasicSize(parsed.cid) + rtmpHeaderSize(parsed.fmt) + extended = size
    BY <1>3, <1>4, <1>8 DEF HeadRead
  <1>12. PICK n \in Coming(size - read) :
          /\ Take(n) /\ garbled' = Astray(n, {read})
          /\ parserBytes' = read + n
          /\ IF read + n = size
             THEN /\ parserState' = "payload"
                  /\ inPackets' = [inPackets EXCEPT ![k.cid].clock = Clock(parserPacket, time)]
             ELSE UNCHANGED <<parserState, inPackets>>
          /\ UNCHANGED <<parsed, inChunkSize, handled>>
    <2>1. Collect(BasicSize(parsed.cid) + rtmpHeaderSize(parsed.fmt) + extended,
               /\ parserState' = "payload"
               /\ inPackets' = [inPackets EXCEPT ![parsed.cid].clock = Clock(parserPacket, time)])
      BY DEF ParseExtendedTimestamp
    <2> HIDE DEF extended, time, size
    <2> QED
      BY <1>4, <1>11, <2>1 DEF Collect
  <1>13. /\ wire' = wire /\ ~garbled' /\ read' = read + n /\ read' \in Nat /\ read' \in read..size
    <2>1. read <= size
      BY <1>3, <1>4
    <2>2. n \in Coming(size - read) /\ Take(n) /\ garbled' = Astray(n, {read})
      BY <1>12
    <2>3. size \in Nat /\ size <= HeadSize(Head(wire))
      BY <1>3
    <2> HIDE DEF size, time, extended, packet, B
    <2> QED
      BY <1>1, <1>2, <2>1, <2>2, <2>3, HeaderBytes
  <1>14. CASE read + n = size
    <2>1. parserState' = "payload" /\ parsed' = k
      BY <1>4, <1>12, <1>14
    <2>2. read' \in size..(size + k.size - 1)
      BY <1>3, <1>13, <1>14
    <2>3. Place'
      BY <1>13, <2>1, <2>2 DEF Place
    <2>4. Got(s, k.cid)' = Packet(k.header, k.header.clock, Part(k.header, Carried(s, k) + (read' - size)))
      BY <1>13, <2>1 DEF Got
    <2>5. Carried(s, k) + (read' - size) = Carried(s, k)
      <3>1. Carried(s, k) \in Nat
        BY <1>2, ChunkFacts
      <3> QED
        BY <1>3, <1>13, <1>14, <3>1
    <2>6. [packet EXCEPT !.clock = k.header.clock] = Packet(k.header, k.header.clock, B)
      BY DEF Packet
    <2>7. Got(s, k.cid)' = [packet EXCEPT !.clock = k.header.clock]
      BY <2>4, <2>5, <2>6
    <2>8. inPackets' = [inPackets EXCEPT ![k.cid] = [packet EXCEPT !.clock = k.header.clock]]
      BY <1>6, <1>10, <1>12, <1>14
    <2>9. ASSUME NEW c, c # k.cid  PROVE Got(s, c)' = Got(s, c)
      BY <1>4, <2>1, <2>9 DEF Got
    <2>10. inPackets' = [c \in Cids |-> Got(s, c)']
      BY <1>3, <1>5, <1>13, <2>7, <2>8, <2>9
    <2>11. Reading(s)'
      BY <1>5, <1>12, <2>3, <2>10 DEF Reading
    <2> QED
      BY <1>13, <2>11, SameChunk
  <1>15. CASE read + n # size
    <2>1. parserState' = "extended" /\ parsed' = k /\ inPackets' = inPackets
      BY <1>4, <1>12, <1>15
    <2>2. read' \in HeadRead(k)..size
      BY <1>3, <1>4, <1>13
    <2>3. Place'
      BY <1>12, <1>13, <2>1, <2>2 DEF Place
    <2>4. ASSUME NEW c  PROVE Got(s, c)' = Got(s, c)
      BY <1>4, <2>1 DEF Got
    <2>5. inPackets' = [c \in Cids |-> Got(s, c)']
      BY <1>5, <2>1, <2>4
    <2>6. Reading(s)'
      BY <1>5, <1>12, <2>3, <2>5 DEF Reading
    <2> QED
      BY <1>13, <2>6, SameChunk
  <1> QED
    BY <1>14, <1>15

\* The bytes that a turn adds to those of the message that are there.
LEMMA PartGrows ==
  ASSUME NEW h \in Headers, NEW a \in Nat, NEW n \in Nat
  PROVE  /\ Part(h, a) \o [i \in 1..n |-> h.message] = Part(h, a + n)
         /\ Len(Part(h, a)) = a
PROOF
  <1>1. h.message \in Nat
    BY DEF Headers
  <1>2. Part(h, a) \in Seq(Nat) /\ Len(Part(h, a)) = a
    BY <1>1 DEF Part
  <1>3. [i \in 1..n |-> h.message] \in Seq(Nat) /\ Len([i \in 1..n |-> h.message]) = n
    BY <1>1
  <1> DEFINE p == Part(h, a)
             q == [i \in 1..n |-> h.message]
             r == Part(h, a + n)
  <1>4. /\ \A i \in 1..a : p[i] = h.message
        /\ \A i \in 1..n : q[i] = h.message
        /\ \A i \in 1..(a + n) : r[i] = h.message
    BY DEF Part
  <1>5. r \in Seq(Nat) /\ Len(r) = a + n
    BY <1>1 DEF Part
  <1>6. p \in Seq(Nat) /\ Len(p) = a /\ q \in Seq(Nat) /\ Len(q) = n
    BY <1>2, <1>3
  <1> HIDE DEF p, q, r
  <1>7. p \o q \in Seq(Nat) /\ Len(p \o q) = a + n
    BY <1>6, ConcatProperties
  <1>8. ASSUME NEW i \in 1..(a + n)  PROVE (p \o q)[i] = r[i]
    <2>1. CASE i <= a
      BY <1>4, <1>6, <2>1
    <2>2. CASE ~ (i <= a)
      <3>1. i - a \in 1..n
        BY <2>2
      <3>2. (p \o q)[i] = q[i - a]
        BY <1>6, <2>2, <3>1, ConcatProperties
      <3> QED
        BY <1>4, <3>1, <3>2
    <2> QED
      BY <2>1, <2>2
  <1>9. p \o q = r
    BY <1>5, <1>7, <1>8, SeqEqual
  <1> QED
    BY <1>2, <1>9 DEF p, q, r

\* How much a turn may take: never more than the rest of the chunk, and all of it.
LEMMA Room ==
  ASSUME NEW size \in Nat \ {0}, NEW before \in Nat, NEW k \in Nat, NEW carried \in Nat,
         NEW got \in Nat, got < k, k <= size, k <= before, k = size \/ k = before,
         \E j \in Nat : carried = j * size
  PROVE  /\ (carried + got) % size = got
         /\ Smaller(size - got, before - got) = k - got
PROOF
  <1>1. PICK j \in Nat : carried = j * size
    OBVIOUS
  <1>2. (j * size + got) % size = got
    BY Remainder
  <1>3. Smaller(size - got, before - got) = k - got
    BY DEF Smaller
  <1> QED
    BY <1>1, <1>2, <1>3

\* A chunk is at its end where the bytes modulo the chunk size are none.
LEMMA EndOfChunk ==
  ASSUME NEW size \in Nat \ {0}, NEW k \in Nat, NEW carried \in Nat,
         NEW got \in Nat, got >= 1, got <= k, k <= size, \E j \in Nat : carried = j * size
  PROVE  /\ got < k => (carried + got) % size # 0
         /\ got = size => (carried + got) % size = 0
PROOF
  <1>1. PICK j \in Nat : carried = j * size
    OBVIOUS
  <1>2. got < k => (j * size + got) % size = got
    BY Remainder
  <1>3. got = size => (j * size + got) % size = 0
    <2>1. ((j + 1) * size) % size = 0
      BY RemainderNone
    <2>2. j * size + size = (j + 1) * size
      BY OneMoreChunk
    <2> QED
      BY <2>1, <2>2
  <1> QED
    BY <1>1, <1>2, <1>3

\* A turn that reads the last byte of the present chunk.
LEMMA NextChunk ==
  ASSUME Types, wire # <<>>, NEW st, Trace(st, wire, done, Now), Reading(st[1])',
         UNCHANGED sender, wire' = Tail(wire), read' \in Nat, ~garbled'
  PROVE  ChunkInv'
PROOF
  <1>1. done' = done /\ Now' = Now /\ count' = count
    BY DEF sender, Now
  <1>2. wire \in Seq(Chunks) /\ Tail(wire) \in Seq(Chunks)
    BY DEF Types
  <1>3. PICK st2 : Trace(st2, Tail(wire), done, Now) /\ st2[0] = st[1]
    BY <1>2, TraceShrinks
  <1>4. Trace(st2, wire', done', Now')
    BY <1>1, <1>3
  <1>5. Types'
    BY <1>1, <1>2 DEF Types
  <1>6. Reading(st2[0])'
    BY <1>3
  <1> QED
    BY <1>4, <1>5, <1>6 DEF ChunkInv

\* At its end the reader holds what the sender after the chunk says.
LEMMA HeldAfter ==
  ASSUME NEW s, Well(s), NEW k \in Chunks, NEW t, NEW d, Sent(s, k, t, d)
  PROVE  /\ \A c \in Cids : c # k.cid =>
               t.header[c] = s.header[c] /\ Held(t, c) = Held(s, c)
         /\ t.header[k.cid] = k.header
         /\ Held(t, k.cid) = IF k.size = Before(s, k) THEN 0 ELSE Carried(s, k) + k.size
PROOF
  <1>1. /\ s.left \in [Cids -> Nat] /\ s.header \in [Cids -> Headers] /\ k.cid \in Cids
    BY DEF Well, Senders, Chunks
  <1>2. /\ t.header = [s.header EXCEPT ![k.cid] = k.header]
        /\ t.left = [s.left EXCEPT ![k.cid] = Before(s, k) - k.size]
    BY DEF Sent
  <1>3. /\ k.header.length \in Nat /\ k.size \in Nat /\ Before(s, k) \in Nat
        /\ k.size <= Before(s, k)
    BY ChunkFacts
  <1>4. t.header[k.cid] = k.header /\ t.left[k.cid] = Before(s, k) - k.size
    BY <1>1, <1>2
  <1>5. Held(t, k.cid) = IF k.size = Before(s, k) THEN 0 ELSE Carried(s, k) + k.size
    BY <1>3, <1>4 DEF Held, Carried
  <1>6. \A c \in Cids : c # k.cid => t.header[c] = s.header[c] /\ t.left[c] = s.left[c]
    BY <1>1, <1>2
  <1> QED
    BY <1>4, <1>5, <1>6 DEF Held

LEMMA ParsePayloadKeeps ==
  ASSUME Types, wire # <<>>, NEW st, Trace(st, wire, done, Now), Reading(st[0]),
         ParsePayload, UNCHANGED sender
  PROVE  ChunkInv'
PROOF
  <1> DEFINE k == Head(wire)
             h == k.header
             s == st[0]
             t == st[1]
             head == HeadSize(k)
             got == read - head
             before == Before(s, k)
             carried == Carried(s, k)
             bytes == carried + got
             packet == Packet(h, h.clock, Part(h, bytes))
  <1>1. wire \in Seq(Chunks) /\ read \in Nat
    BY DEF Types
  <1>2. k \in Chunks /\ Well(s) /\ Sent(s, k, t, done)
    BY <1>1, FirstChunk
  <1>3. /\ k.cid \in Cids /\ h \in Headers /\ h.length \in Nat /\ head \in Nat
        /\ k.size \in Nat /\ k.size >= 1
    BY <1>2, HeadSizes
  <1>4. /\ before \in Nat /\ before >= 1 /\ before <= h.length /\ k.size <= before
        /\ s.size \in Nat \ {0} /\ k.size <= s.size /\ (k.size = before \/ k.size = s.size)
        /\ carried \in Nat /\ carried = h.length - before
    BY <1>2, ChunkFacts DEF Carried
  <1>24. \E j \in Nat : carried = j * s.size
    BY <1>2, ChunkFacts
  <1>5. parserState = "payload" /\ parsed = k /\ read \in head..(head + k.size - 1)
    BY DEF ParsePayload, Reading, Place
  <1>6. inPackets = [c \in Cids |-> Got(s, c)] /\ inChunkSize = s.size /\ handled = s.done
    BY DEF Reading
  <1>7. got \in Nat /\ got < k.size /\ read = head + got /\ bytes \in Nat
    <2> HIDE DEF k, head, carried
    <2> QED
      BY <1>1, <1>3, <1>4, <1>5
  <1>8. parserPacket = packet /\ inPackets[k.cid] = packet
    BY <1>3, <1>5, <1>6 DEF Got, parserPacket
  <1>9. /\ parserPacket.body = Part(h, bytes) /\ parserPacket.length = h.length
        /\ parserPacket.clock = h.clock
    BY <1>8 DEF Packet
  <1>10. Len(parserPacket.body) = bytes
    BY <1>3, <1>7, <1>9, PartGrows
  <1>11. ChunkRoom(bytes) = k.size - got
    <2>1. bytes % s.size = got /\ Smaller(s.size - got, before - got) = k.size - got
      <3> DEFINE S == s.size
                 K == k.size
      <3>1. /\ S \in Nat \ {0} /\ before \in Nat /\ K \in Nat /\ carried \in Nat
            /\ got \in Nat /\ got < K /\ K <= S /\ K <= before /\ (K = S \/ K = before)
        BY <1>3, <1>4, <1>7
      <3>2. \E j \in Nat : carried = j * S
        BY <1>24
      <3> HIDE DEF got, before, carried, S, K
      <3>3. (carried + got) % S = got /\ Smaller(S - got, before - got) = K - got
        <4>1. (carried + got) % S = got
          BY <3>1, <3>2, Room
        <4>2. Smaller(S - got, before - got) = K - got
          BY <3>1 DEF Smaller
        <4> QED
          BY <4>1, <4>2
      <3> QED
        BY <3>3 DEF S, K
    <2>2. h.length - bytes = before - got
      <3> HIDE DEF got, before, carried, k, s, h
      <3> QED
        BY <1>3, <1>4, <1>7
    <2> QED
      BY <1>6, <1>9, <2>1, <2>2 DEF ChunkRoom
  <1>12. PICK n \in Coming(k.size - got) :
         LET body == parserPacket.body \o [i \in 1..n |-> h.message]
             message == [body |-> body, clock |-> parserPacket.clock]
         IN  /\ Take(n)
             /\ garbled' = \/ Astray(n, head..(head + k.size))
                           \/ Complete(body) /\ ~Due(message)
             /\ inPackets' = [inPackets EXCEPT ![k.cid].body = IF Complete(body) THEN <<>> ELSE body]
             /\ parserState' = IF Complete(body) \/ ChunkDone(Len(body)) THEN "init" ELSE parserState
             /\ IF Complete(body)
                THEN /\ handled' = handled + 1
                     /\ inChunkSize' = IF h.newSize = 0 THEN inChunkSize ELSE h.newSize
                ELSE UNCHANGED <<handled, inChunkSize>>
    <2> HIDE DEF got, bytes, before, carried, packet, s
    <2> QED
      BY <1>5, <1>10, <1>11 DEF ParsePayload
  <1>13. parserBytes' = parserBytes /\ parsed' = k
    BY <1>5 DEF ParsePayload
  <1>14. n \in Nat /\ n >= 1 /\ n <= k.size - got
    <2>1. k.size - got \in Nat /\ k.size - got # 0
      BY <1>3, <1>7
    <2> HIDE DEF got
    <2> QED
      BY <2>1 DEF Coming
  <1> DEFINE body == Part(h, bytes + n)
  <1>15. parserPacket.body \o [i \in 1..n |-> h.message] = body /\ Len(body) = bytes + n
    <2>1. bytes + n \in Nat
      BY <1>7, <1>14
    <2> HIDE DEF h, bytes
    <2>2. Part(h, bytes) \o [i \in 1..n |-> h.message] = Part(h, bytes + n)
      BY <1>3, <1>7, <1>14, PartGrows
    <2>3. Len(Part(h, bytes + n)) = bytes + n
      BY <1>3, <2>1, PartGrows
    <2> QED
      BY <1>9, <2>2, <2>3
  <1>16. /\ Take(n)
         /\ garbled' = \/ Astray(n, head..(head + k.size))
                       \/ Complete(body) /\ ~Due([body |-> body, clock |-> h.clock])
         /\ inPackets' = [inPackets EXCEPT ![k.cid].body = IF Complete(body) THEN <<>> ELSE body]
         /\ parserState' = IF Complete(body) \/ ChunkDone(Len(body)) THEN "init" ELSE parserState
         /\ IF Complete(body)
            THEN /\ handled' = handled + 1
                 /\ inChunkSize' = IF h.newSize = 0 THEN inChunkSize ELSE h.newSize
            ELSE UNCHANGED <<handled, inChunkSize>>
    BY <1>9, <1>12, <1>15
  <1>17. Complete(body) <=> got + n >= before
    <2>1. Complete(body) <=> bytes + n >= h.length
      BY <1>9, <1>15 DEF Complete
    <2>2. bytes + n >= h.length <=> got + n >= before
      <3> DEFINE L == h.length
      <3>1. L \in Nat /\ before \in Nat /\ got \in Nat /\ carried = L - before /\ bytes = carried + got
        BY <1>3, <1>4, <1>7
      <3> HIDE DEF got, before, carried, bytes, L
      <3>2. bytes + n >= L <=> got + n >= before
        BY <1>14, <3>1
      <3> QED
        BY <3>2 DEF L
    <2> QED
      BY <2>1, <2>2
  <1>18. /\ got + n < k.size => ~ChunkDone(bytes + n)
         /\ got + n = s.size => ChunkDone(bytes + n)
    <2> DEFINE g == got + n
    <2>1. g \in Nat /\ g >= 1 /\ g <= k.size
      <3> HIDE DEF got
      <3> QED
        BY <1>3, <1>7, <1>14
    <2>2. bytes + n = carried + g
      <3> HIDE DEF got, carried
      <3> QED
        BY <1>4, <1>7, <1>14
    <2> HIDE DEF g
    <2>3. /\ g < k.size => (carried + g) % s.size # 0
          /\ g = s.size => (carried + g) % s.size = 0
      <3> DEFINE S == s.size
                 K == k.size
      <3>1. S \in Nat \ {0} /\ K \in Nat /\ carried \in Nat /\ K <= S /\ g <= K
        BY <1>3, <1>4, <2>1
      <3>2. \E j \in Nat : carried = j * S
        BY <1>24
      <3> HIDE DEF carried, S, K
      <3>3. /\ g < K => (carried + g) % S # 0
            /\ g = S => (carried + g) % S = 0
        BY <2>1, <3>1, <3>2, EndOfChunk
      <3> QED
        BY <3>3 DEF S, K
    <2>4. ChunkDone(bytes + n) <=> (carried + g) % s.size = 0
      BY <1>6, <2>2 DEF ChunkDone
    <2> HIDE DEF bytes, carried, got
    <2> QED
      BY <2>3, <2>4 DEF g
  <1>19. n <= head + k.size - read /\ read \in head..(head + k.size)
         /\ ~ (read + n > head + k.size)
    <2> HIDE DEF head, k
    <2> QED
      BY <1>1, <1>3, <1>5, <1>7, <1>14
  <1>20. ~ Astray(n, head..(head + k.size))
    BY <1>19 DEF Astray
  <1>21. ASSUME NEW c, c # k.cid  PROVE Got(s, c) = Packet(s.header[c], s.header[c].clock,
                                                          Part(s.header[c], Held(s, c)))
    BY <1>5, <1>21 DEF Got
  <1>22. CASE got + n < k.size
    <2>1. ~Complete(body) /\ ~ChunkDone(Len(body))
      <3> HIDE DEF got, before, body, bytes
      <3> QED
        BY <1>3, <1>4, <1>7, <1>14, <1>15, <1>17, <1>18, <1>22
    <2>2. n < head + k.size - read
      <3> HIDE DEF head, k
      <3> QED
        BY <1>1, <1>3, <1>7, <1>14, <1>22
    <2>3. read' = read + n /\ wire' = wire
      BY <1>16, <2>2 DEF Take
    <2>4. /\ parserState' = "payload" /\ ~garbled'
          /\ inPackets' = [inPackets EXCEPT ![k.cid].body = body]
          /\ inChunkSize' = inChunkSize /\ handled' = handled
      <3> HIDE DEF body, head, k
      <3> QED
        BY <1>5, <1>16, <1>20, <2>1
    <2>5. read' \in Nat /\ read' \in head..(head + k.size - 1)
      <3> HIDE DEF head, k
      <3> QED
        BY <1>1, <1>3, <1>5, <1>14, <2>2, <2>3
    <2>6. Place'
      BY <1>13, <2>3, <2>4, <2>5 DEF Place
    <2>7. carried + (read' - head) = bytes + n
      <3> HIDE DEF carried, head
      <3> QED
        BY <1>1, <1>3, <1>4, <1>14, <2>3
    <2>8. Got(s, k.cid)' = Packet(h, h.clock, Part(h, carried + (read' - head)))
      BY <1>13, <2>3, <2>4 DEF Got
    <2>9. [packet EXCEPT !.body = body] = Packet(h, h.clock, body)
      BY DEF Packet
    <2>10. Got(s, k.cid)' = [packet EXCEPT !.body = body]
      BY <2>7, <2>8, <2>9
    <2>11. inPackets' = [inPackets EXCEPT ![k.cid] = [packet EXCEPT !.body = body]]
      BY <1>8, <2>4
    <2>12. ASSUME NEW c, c # k.cid  PROVE Got(s, c)' = Got(s, c)
      BY <1>5, <1>13, <2>4, <2>12 DEF Got
    <2>13. inPackets' = [c \in Cids |-> Got(s, c)']
      BY <1>3, <1>6, <2>3, <2>10, <2>11, <2>12
    <2>14. Reading(s)'
      BY <1>6, <2>4, <2>6, <2>13 DEF Reading
    <2> QED
      BY <2>3, <2>4, <2>5, <2>14, SameChunk
  <1>23. CASE ~ (got + n < k.size)
    <2>1. got + n = k.size
      <3> HIDE DEF got, k
      <3> QED
        BY <1>3, <1>7, <1>14, <1>23
    <2>2. ~ (n < head + k.size - read)
      <3> HIDE DEF head, k
      <3> QED
        BY <1>1, <1>3, <1>7, <1>14, <2>1
    <2>3. read' = 0 /\ wire' = Tail(wire)
      BY <1>16, <2>2 DEF Take
    <2>4. Complete(body) <=> k.size = before
      <3> HIDE DEF got, before, k, body
      <3> QED
        BY <1>3, <1>4, <1>17, <2>1
    <2>5. Complete(body) \/ ChunkDone(Len(body))
      <3>1. CASE k.size = before
        BY <2>4, <3>1
      <3>2. CASE k.size = s.size
        BY <1>15, <1>18, <2>1, <3>2
      <3> QED
        BY <1>4, <3>1, <3>2
    <2>6. parserState' = "init"
      BY <1>16, <2>5
    <2>7. Place'
      BY <2>3, <2>6 DEF Place
    <2>8. bytes + n = carried + k.size
      <3> HIDE DEF carried, got, k
      <3> QED
        BY <1>4, <1>7, <1>14, <2>1
    <2>9. /\ \A c \in Cids : c # k.cid =>
               t.header[c] = s.header[c] /\ Held(t, c) = Held(s, c)
          /\ t.header[k.cid] = h
          /\ Held(t, k.cid) = IF k.size = before THEN 0 ELSE carried + k.size
      BY <1>2, HeldAfter
    <2>10. (IF Complete(body) THEN <<>> ELSE body) = Part(h, Held(t, k.cid))
      <3>1. CASE k.size = before
        <4>1. Part(h, 0) = <<>>
          BY DEF Part
        <4> QED
          BY <2>4, <2>9, <3>1, <4>1
      <3>2. CASE k.size # before
        <4>1. body = Part(h, carried + k.size)
          BY <2>8
        <4> QED
          BY <2>4, <2>9, <3>2, <4>1
      <3> QED
        BY <3>1, <3>2
    <2>11. ASSUME NEW c
           PROVE  Got(t, c)' = Packet(t.header[c], t.header[c].clock, Part(t.header[c], Held(t, c)))
      BY <2>6 DEF Got
    <2>12. [packet EXCEPT !.body = Part(h, Held(t, k.cid))] = Packet(h, h.clock, Part(h, Held(t, k.cid)))
      BY DEF Packet
    <2>13. inPackets' = [inPackets EXCEPT ![k.cid] = [packet EXCEPT !.body = Part(h, Held(t, k.cid))]]
      BY <1>8, <1>16, <2>10
    <2>14. ASSUME NEW c \in Cids  PROVE inPackets'[c] = Got(t, c)'
      <3>1. CASE c = k.cid
        <4>1. inPackets'[c] = Packet(h, h.clock, Part(h, Held(t, c)))
          BY <1>6, <2>12, <2>13, <3>1
        <4> QED
          BY <2>9, <2>11, <3>1, <4>1
      <3>2. CASE c # k.cid
        <4>1. inPackets'[c] = Got(s, c)
          BY <1>6, <2>13, <3>2
        <4> QED
          BY <1>21, <2>9, <2>11, <3>2, <4>1
      <3> QED
        BY <3>1, <3>2
    <2>15. inPackets' = [c \in Cids |-> Got(t, c)']
      <3>1. inPackets' = [c \in Cids |-> inPackets'[c]]
        BY <1>6, <2>13
      <3> QED
        BY <2>14, <3>1
    <2>16. /\ t.done = IF k.size < before THEN s.done ELSE s.done + 1
           /\ t.size = IF h.newSize = 0 THEN s.size ELSE h.newSize
           /\ k.size = before => t.done \in 1..Len(done) /\ done[t.done] = Message(h)
           /\ h.newSize # 0 => h.length = 1
      BY <1>2 DEF Sent
    <2>17. handled' = t.done /\ inChunkSize' = t.size /\ ~garbled'
      <3>1. CASE k.size = before
        <4>1. Complete(body) /\ body = Part(h, h.length)
          <5>1. bytes + n = h.length
            <6> HIDE DEF carried, before, k, h
            <6> QED
              BY <1>3, <1>4, <2>8, <3>1
          <5> QED
            BY <2>4, <3>1, <5>1
        <4>2. t.done = handled + 1 /\ t.done <= Len(done) /\ done[t.done] = Message(h)
          <5>1. ~ (k.size < before) /\ Len(done) \in Nat
            <6> HIDE DEF k, before
            <6> QED
              BY <1>3, <3>1 DEF Types
          <5> QED
            BY <1>6, <2>16, <3>1, <5>1
        <4>3. [body |-> body, clock |-> h.clock] = Message(h)
          BY <4>1 DEF Message, Part
        <4>4. Due([body |-> body, clock |-> h.clock])
          <5>1. handled \in Nat /\ Len(done) \in Nat
            BY <1>2, <1>6 DEF Well, Senders, Types
          <5>2. handled < Len(done) /\ done[handled + 1] = Message(h)
            BY <4>2, <5>1
          <5> HIDE DEF body
          <5> QED
            BY <4>3, <5>2 DEF Due
        <4> HIDE DEF body, head, k, bytes
        <4> QED
          BY <1>6, <1>16, <1>20, <2>16, <4>1, <4>2, <4>4
      <3>2. CASE k.size # before
        <4>1. k.size < before
          <5> HIDE DEF k, before
          <5> QED
            BY <1>3, <1>4, <3>2
        <4>2. h.newSize = 0
          <5>1. SUFFICES ASSUME h.newSize # 0  PROVE FALSE
            OBVIOUS
          <5>2. h.length = 1
            BY <2>16, <5>1
          <5> HIDE DEF h, before, k
          <5> QED
            BY <1>3, <1>4, <4>1, <5>2
        <4> HIDE DEF body, head, bytes
        <4> QED
          BY <1>6, <1>16, <1>20, <2>4, <2>16, <3>2, <4>1, <4>2
      <3> QED
        BY <3>1, <3>2
    <2>18. Reading(t)'
      BY <2>7, <2>15, <2>17 DEF Reading
    <2>19. read' \in Nat
      BY <2>3
    <2> QED
      BY <2>3, <2>17, <2>18, <2>19, NextChunk
  <1> QED
    BY <1>22, <1>23

-----------------------------------------------------------------------------
(* The theorems.                                                           *)

LEMMA ReadKeeps ==
  ASSUME ChunkInv, rtmpChunkRead
  PROVE  ChunkInv'
PROOF
  <1>1. Types
    BY DEF ChunkInv
  <1>2. PICK st : Trace(st, wire, done, Now) /\ Reading(st[0])
    BY DEF ChunkInv
  <1>3. wire # <<>> /\ UNCHANGED sender
    BY DEF rtmpChunkRead
  <1>4. CASE ParseInit
    BY <1>1, <1>2, <1>3, <1>4, ParseInitKeeps
  <1>5. CASE ParseBasicHeader
    BY <1>1, <1>2, <1>3, <1>5, ParseBasicKeeps
  <1>6. CASE ParseMessageHeader
    BY <1>1, <1>2, <1>3, <1>6, ParseMessageKeeps
  <1>7. CASE ParseExtendedTimestamp
    BY <1>1, <1>2, <1>3, <1>7, ParseExtendedKeeps
  <1>8. CASE ParsePayload
    BY <1>1, <1>2, <1>3, <1>8, ParsePayloadKeeps
  <1> QED
    BY <1>4, <1>5, <1>6, <1>7, <1>8 DEF rtmpChunkRead

LEMMA NothingHappens ==
  ASSUME ChunkInv, UNCHANGED vars
  PROVE  ChunkInv'
PROOF
  <1>1. Types
    BY DEF ChunkInv
  <1>2. PICK st : Trace(st, wire, done, Now) /\ Reading(st[0])
    BY DEF ChunkInv
  <1>3. UNCHANGED <<sender, wire, read, parserState, parserBytes, parsed, inPackets,
                    inChunkSize, handled, garbled>>
    BY DEF vars, way, reader
  <1>4. Place'
    BY <1>2, <1>3 DEF Reading, Place
  <1>5. ASSUME NEW c  PROVE Got(st[0], c)' = Got(st[0], c)
    BY <1>3 DEF Got
  <1>6. inPackets' = [c \in Cids |-> Got(st[0], c)']
    BY <1>2, <1>3, <1>5 DEF Reading
  <1>7. Reading(st[0])'
    BY <1>2, <1>3, <1>4, <1>6 DEF Reading
  <1>8. read' \in Nat /\ ~garbled'
    BY <1>3 DEF ChunkInv, Types
  <1> QED
    BY <1>1, <1>2, <1>3, <1>7, <1>8, SameChunk

\* The reader agrees at every moment with the sender as it was before the first
\* chunk on the way: its packets, its chunk size and the count of what it handled
\* are those that this state and the bytes read of that chunk give.
THEOREM ReaderAgrees == Spec => []ChunkInv
PROOF
  <1>1. Init => ChunkInv
    BY NothingSent
  <1>2. ChunkInv /\ [Next]_vars => ChunkInv'
    BY SendMessageKeeps, SendChunkSizeKeeps, SendRestKeeps, ReadKeeps, NothingHappens DEF Next
  <1> QED
    BY <1>1, <1>2, PTL DEF Spec

\* rtmpChunkRead never takes a byte for another, and every message it handles is
\* the next of those that were completed, whole, with its time.
THEOREM AlwaysRoundTrip == Spec => []RoundTrip
PROOF
  <1>1. ChunkInv => RoundTrip
    BY DEF ChunkInv, RoundTrip
  <1> QED
    BY <1>1, ReaderAgrees, PTL

\* A message is handled with its last byte: when all bytes have been read, all
\* messages that are complete have been handled.
THEOREM NeverHeldBack == Spec => []NothingHeldBack
PROOF
  <1>1. ASSUME ChunkInv, wire = <<>>  PROVE handled = Len(done)
    <2>1. PICK st : Trace(st, wire, done, Now) /\ Reading(st[0])
      BY <1>1 DEF ChunkInv
    <2>2. st[0] = Now
      BY <1>1, <2>1, LastIsNow
    <2> QED
      BY <2>1, <2>2 DEF Reading, Now
  <1>2. ChunkInv => NothingHeldBack
    BY <1>1 DEF NothingHeldBack
  <1> QED
    BY <1>2, ReaderAgrees, PTL
=============================================================================
