---------------------------- MODULE RtmpPush_proofs ----------------------------
(***************************************************************************)
(* Proofs about AnyRtmpPush, for every number of attempts and any bounds   *)
(* on what is queued.  The invariant has five parts that only the push     *)
(* thread's own place explains (Place, Count, Story, Encoding, Fresh) and  *)
(* one about the order of what is in the list, in the thread's hands and   *)
(* in the context (KeysFirst).                                             *)
(***************************************************************************)
EXTENDS RtmpPush, SequenceTheorems, TLAPS

\* Where the push thread has no stream, and the application was told of none.
Setup == {"handshake", "connect", "publish", "connected", "clear", "start"}

\* What the status is where the loop is, as long as it is not to stop.
Place ==
    /\ rtmp_status = "Closed" => ~running
    /\ running =>
        /\ pushing = "handshake" => rtmp_status = "Init"
        /\ pushing = "connect" => rtmp_status = "Handshaked"
        /\ pushing = "publish" => rtmp_status = "Connected"
        /\ pushing \in {"connected", "clear", "start", "send", "write"} =>
              rtmp_status = "Published"
        /\ pushing \in {"again", "give up"} => rtmp_status = "Init"
    /\ running <=> object = "live"
    /\ worker = "idle" <=> object = "live"
    /\ worker \in {"stop", "done"} => pushing = "exit"

\* The attempts that were counted are those that were reported, except between
\* the two.
Count ==
    /\ pushing \in {"clear", "start"} => retrys = 0
    /\ pushing \in {"again", "give up"} => retrys = times + 1
    /\ pushing \notin {"clear", "start", "again", "give up"} => retrys = times
    /\ pushing = "again" => retrys <= MaxRetry
    /\ pushing = "give up" => retrys = MaxRetry + 1
    /\ told # "failed" => times <= MaxRetry

\* What was told last fits where the push thread is.
Story ==
    /\ pushing = "give up" => ~rtmp.open
    /\ told = "failed" => pushing \in {"loop", "exit"} /\ ~rtmp.open
    /\ told = "ok" => /\ pushing \notin Setup
                      /\ pushing = "loop" /\ running => rtmp_status = "Published"

\* The encoders of a stream that is not stopped run exactly while it is up, but
\* for the time it takes to report a change.
Encoding ==
    /\ running => /\ pushing \in {"send", "write"} => encoded
                  /\ pushing \in Setup => ~encoded
                  /\ pushing = "loop" => (encoded <=> rtmp_status = "Published")
    /\ worker = "done" => ~encoded

\* Entries of before the stream are gone when sending begins.
Fresh ==
    /\ ~packet.old
    /\ pushing \notin {"connected", "clear"} =>
          \A i \in 1..Len(lst_enc_data) : ~lst_enc_data[i].old

\* The places of the video thread where it has queued a parameter set and goes
\* on with a key picture.
KeyComes == {"pps", "idr"}

\* From entry n of the list on, the first slice is a key picture's, or there is
\* none and the video thread, at v, is about to queue that of a key picture.
KeyNext(list, v, n) ==
    \/ \E i \in n..Len(list) :
          list[i].kind = "idr" /\ \A j \in n..(i - 1) : list[j].kind \notin Slice
    \/ v \in KeyComes /\ \A j \in n..Len(list) : list[j].kind \notin Slice

\* The slice that follows a parameter set is a key picture's: in the list, ...
KeysInList(list, v) ==
    \A i \in 1..Len(list) : list[i].kind \in {"sps", "pps"} => KeyNext(list, v, i + 1)

\* ... behind the packet that is being written, ...
KeyBehindPacket ==
    pushing = "write" /\ packet.kind \in {"sps", "pps"} =>
        KeyNext(lst_enc_data, video, 1)

\* The push thread may still write to the context it has.
Writing == pushing \in {"send", "write"} \/ (pushing = "loop" /\ running)

\* ... and behind one that the context knows of and the server does not.
KeyBehindContext ==
    rtmp.changed =>
        /\ Writing =>
              \/ pushing = "write" /\ packet.kind = "idr"
              \/ /\ pushing = "write" => packet.kind \notin Slice
                 /\ KeyNext(lst_enc_data, video, 1)
        /\ pushing \notin Setup \cup {"again", "give up"}
        /\ pushing = "loop" /\ running => rtmp_status = "Published"

\* What the server was sent began with a key picture.
Sound == (rtmp.sent => rtmp.shown = "picture") /\ rtmp.shown # "garbage"

KeysFirst ==
    KeysInList(lst_enc_data, video) /\ KeyBehindPacket /\ KeyBehindContext /\ Sound

\* The invariant.
PushInv == TypeOK /\ Place /\ Count /\ Story /\ Encoding /\ Fresh /\ KeysFirst

-----------------------------------------------------------------------------
(* Lemmas.                                                                 *)

\* What Poll does in each status.
Polled ==
    /\ pushing = "loop"
    /\ \/ ~running /\ pushing' = "exit"
       \/ /\ running /\ rtmp.open
          /\ \/ rtmp_status = "Init" /\ pushing' = "handshake"
             \/ rtmp_status = "Handshaked" /\ pushing' = "connect"
             \/ rtmp_status = "Connected" /\ pushing' = "publish"
             \/ rtmp_status = "Published" /\ pushing' = "send"
    /\ UNCHANGED <<rtmp_status, rtmp, retrys, packet, heard, feed, encoder, life, shared>>

\* Poll does what Polled says.
LEMMA PollIsPolled ==
  ASSUME PushOK, Poll
  PROVE  Polled
PROOF
  <1>1. CASE ~running
    BY <1>1 DEF Poll, Polled
  <1>2. CASE running
    <2>1. /\ running /\ rtmp.open /\ rtmp_status # "Closed"
          /\ pushing' = CallOf[rtmp_status]
      BY <1>2 DEF Poll
    <2>2. rtmp_status \in {"Init", "Handshaked", "Connected", "Published"}
      BY <2>1 DEF PushOK
    <2>3. /\ CallOf["Init"] = "handshake" /\ CallOf["Handshaked"] = "connect"
          /\ CallOf["Connected"] = "publish" /\ CallOf["Published"] = "send"
      BY DEF CallOf
    <2> QED
      BY <2>1, <2>2, <2>3 DEF Poll, Polled
  <1> QED
    BY <1>1, <1>2

\* A new context is not open, or is and knows nothing.
LEMMA NewContext ==
  /\ NoContext \in Context /\ ~NoContext.open
  /\ \A old : Create(old) \in Context
  /\ \A old : \A c \in {NoContext, Create(old)} :
        ~c.changed /\ ~c.sent /\ c.shown = "nothing"
PROOF
  <1>1. /\ NoContext \in Context /\ ~NoContext.open
        /\ ~NoContext.changed /\ ~NoContext.sent /\ NoContext.shown = "nothing"
    BY DEF NoContext, Context
  <1>2. ASSUME NEW old
        PROVE  /\ Create(old) \in Context /\ ~Create(old).changed
               /\ ~Create(old).sent /\ Create(old).shown = "nothing"
    BY <1>1 DEF Create, Context
  <1> QED
    BY <1>1, <1>2

\* A write leaves a context.
LEMMA WrittenType ==
  ASSUME NEW c \in Context, NEW k \in Kinds
  PROVE  Written(c, k) \in Context
PROOF
  <1>1. CASE k = "sps"
    BY <1>1 DEF Written, Context
  <1>2. CASE k = "pps"
    BY <1>2 DEF Written, Context
  <1>3. CASE k = "idr"
    BY <1>3 DEF Written, Context
  <1>4. CASE k = "p"
    BY <1>4 DEF Written, Context
  <1>5. CASE k = "aac"
    BY <1>5 DEF Written, Context
  <1> QED
    BY <1>1, <1>2, <1>3, <1>4, <1>5 DEF Kinds, Nals, Slice

\* Holding nothing is not holding an entry.
LEMMA NothingIsNoEntry == Nothing \notin Entry
PROOF
  BY DEF Nothing, Entry, Kinds, Nals, Slice

\* An entry that is marked old stays one.
LEMMA OldEntry ==
  \A e \in Entry : /\ [e EXCEPT !.old = TRUE] \in Entry
                   /\ [e EXCEPT !.old = TRUE].kind = e.kind
PROOF
  BY DEF Entry

\* What a list is after its head was taken.
LEMMA Taken ==
  ASSUME NEW s \in Seq(Entry), s # <<>>
  PROVE  /\ Len(s) \in Nat \ {0} /\ Head(s) = s[1] /\ Tail(s) \in Seq(Entry)
         /\ Len(Tail(s)) = Len(s) - 1
         /\ \A i \in 1..Len(Tail(s)) : Tail(s)[i] = s[i + 1]
PROOF
  BY HeadTailProperties

\* What it is after an entry was added.
LEMMA Added ==
  ASSUME NEW s \in Seq(Entry), NEW e \in Entry
  PROVE  /\ Len(s) \in Nat /\ Append(s, e) \in Seq(Entry)
         /\ Len(Append(s, e)) = Len(s) + 1
         /\ \A i \in 1..Len(s) : Append(s, e)[i] = s[i]
         /\ Append(s, e)[Len(s) + 1] = e
PROOF
  BY AppendProperties

\* Taking the head shifts what follows.
LEMMA KeyShifts ==
  ASSUME NEW s \in Seq(Entry), s # <<>>, NEW v, NEW n \in Nat \ {0},
         KeyNext(s, v, n + 1)
  PROVE  KeyNext(Tail(s), v, n)
PROOF
  <1> DEFINE t == Tail(s)
  <1>1. /\ Len(s) \in Nat /\ Len(t) = Len(s) - 1
        /\ \A i \in 1..Len(t) : t[i] = s[i + 1]
    BY Taken
  <1> HIDE DEF t
  <1>2. CASE v \in KeyComes /\ \A j \in (n + 1)..Len(s) : s[j].kind \notin Slice
    <2>1. \A j \in n..Len(t) : t[j] = s[j + 1] /\ j + 1 \in (n + 1)..Len(s)
      BY <1>1
    <2>2. \A j \in n..Len(t) : t[j].kind \notin Slice
      BY <1>2, <2>1
    <2> QED
      BY <1>2, <2>2 DEF KeyNext, t
  <1>3. ASSUME NEW i \in (n + 1)..Len(s), s[i].kind = "idr",
               \A j \in (n + 1)..(i - 1) : s[j].kind \notin Slice
        PROVE  KeyNext(t, v, n)
    <2>1. i - 1 \in n..Len(t) /\ t[i - 1] = s[i]
      <3>1. i - 1 \in n..Len(t) /\ i - 1 \in 1..Len(t)
        BY <1>1, <1>3
      <3>2. t[i - 1] = s[(i - 1) + 1] /\ (i - 1) + 1 = i
        BY <1>1, <1>3, <3>1
      <3> QED
        BY <3>1, <3>2
    <2>2. \A j \in n..((i - 1) - 1) : t[j] = s[j + 1] /\ j + 1 \in (n + 1)..(i - 1)
      BY <1>1, <1>3
    <2>3. \A j \in n..((i - 1) - 1) : t[j].kind \notin Slice
      BY <1>3, <2>2
    <2> QED
      BY <1>3, <2>1, <2>3 DEF KeyNext
  <1> QED
    BY <1>2, <1>3 DEF KeyNext, t

\* The head is the slice of a key picture, or the key picture is behind it.
LEMMA KeyAtHead ==
  ASSUME NEW s \in Seq(Entry), s # <<>>, NEW v, KeyNext(s, v, 1)
  PROVE  Head(s).kind = "idr" \/ (Head(s).kind \notin Slice /\ KeyNext(s, v, 2))
PROOF
  <1>1. Head(s) = s[1] /\ Len(s) \in Nat \ {0}
    BY Taken
  <1>2. CASE v \in KeyComes /\ \A j \in 1..Len(s) : s[j].kind \notin Slice
    <2>1. s[1].kind \notin Slice
      BY <1>1, <1>2
    <2>2. \A j \in 2..Len(s) : s[j].kind \notin Slice
      BY <1>1, <1>2
    <2> QED
      BY <1>1, <1>2, <2>1, <2>2 DEF KeyNext
  <1>3. ASSUME NEW i \in 1..Len(s), s[i].kind = "idr",
               \A j \in 1..(i - 1) : s[j].kind \notin Slice
        PROVE  \/ Head(s).kind = "idr"
               \/ Head(s).kind \notin Slice /\ KeyNext(s, v, 2)
    <2>1. CASE i = 1
      BY <1>1, <1>3, <2>1
    <2>2. CASE i # 1
      <3>1. i \in 2..Len(s) /\ s[1].kind \notin Slice
        BY <1>1, <1>3, <2>2
      <3>2. \A j \in 2..(i - 1) : s[j].kind \notin Slice
        BY <1>3
      <3> QED
        BY <1>1, <1>3, <3>1, <3>2 DEF KeyNext
    <2> QED
      BY <2>1, <2>2
  <1> QED
    BY <1>2, <1>3 DEF KeyNext

\* An entry that is no slice of a delta picture, or comes when no key picture is
\* half queued, changes nothing.
LEMMA KeyStays ==
  ASSUME NEW s \in Seq(Entry), NEW e \in Entry, NEW v, NEW w,
         NEW n \in 1..Len(s) + 1, KeyNext(s, v, n),
         \/ e.kind \notin Slice /\ w \in KeyComes
         \/ e.kind = "idr"
         \/ v \notin KeyComes
  PROVE  KeyNext(Append(s, e), w, n)
PROOF
  <1> DEFINE t == Append(s, e)
  <1>1. /\ Len(s) \in Nat /\ Len(t) = Len(s) + 1 /\ t[Len(s) + 1] = e
        /\ \A i \in 1..Len(s) : t[i] = s[i]
    BY Added
  <1> HIDE DEF t
  <1>2. CASE v \in KeyComes /\ \A j \in n..Len(s) : s[j].kind \notin Slice
    <2>1. \A j \in n..Len(s) : t[j].kind \notin Slice
      BY <1>1, <1>2
    <2>2. CASE e.kind = "idr"
      <3>1. Len(t) \in n..Len(t) /\ t[Len(t)].kind = "idr" /\ Len(t) - 1 = Len(s)
        BY <1>1, <2>2
      <3> QED
        BY <2>1, <3>1 DEF KeyNext, t
    <2>3. CASE e.kind \notin Slice /\ w \in KeyComes
      <3>1. \A j \in n..Len(t) : j \in n..Len(s) \/ j = Len(s) + 1
        BY <1>1
      <3>2. \A j \in n..Len(t) : t[j].kind \notin Slice
        BY <1>1, <2>1, <2>3, <3>1
      <3> QED
        BY <2>3, <3>2 DEF KeyNext, t
    <2> QED
      BY <1>2, <2>2, <2>3
  <1>3. ASSUME NEW i \in n..Len(s), s[i].kind = "idr",
               \A j \in n..(i - 1) : s[j].kind \notin Slice
        PROVE  KeyNext(t, w, n)
    <2>1. i \in n..Len(t) /\ t[i].kind = "idr"
      BY <1>1, <1>3
    <2>2. \A j \in n..(i - 1) : t[j].kind \notin Slice
      BY <1>1, <1>3
    <2> QED
      BY <2>1, <2>2 DEF KeyNext
  <1> QED
    BY <1>2, <1>3 DEF KeyNext, t

\* Only the kinds of the entries matter.
LEMMA KeySame ==
  ASSUME NEW s, NEW t, Len(t) = Len(s), Len(s) \in Nat, NEW v, NEW n \in Nat \ {0},
         \A i \in 1..Len(s) : t[i].kind = s[i].kind, KeyNext(s, v, n)
  PROVE  KeyNext(t, v, n)
PROOF
  <1>1. \A j \in n..Len(s) : t[j].kind = s[j].kind
    OBVIOUS
  <1> QED
    BY <1>1 DEF KeyNext

\* Where no key picture is half queued the place of the video thread is free.
LEMMA KeyElsewhere ==
  ASSUME NEW s, NEW v, NEW w, NEW n, v \notin KeyComes, KeyNext(s, v, n)
  PROVE  KeyNext(s, w, n)
PROOF
  BY DEF KeyNext

\* Behind the end of the list there is what the video thread is about to queue.
LEMMA KeyAtEnd ==
  ASSUME NEW s, Len(s) \in Nat, NEW v \in KeyComes
  PROVE  KeyNext(s, v, Len(s) + 1)
PROOF
  BY DEF KeyNext

\* What a write makes of the context.
LEMMA WrittenSound ==
  ASSUME NEW c \in Context, NEW k \in Kinds
  PROVE  LET d == Written(c, k) IN
         /\ d.changed => k \in {"sps", "pps"} \/ (k = "aac" /\ c.changed)
         /\ (c.sent => c.shown = "picture") /\ c.shown # "garbage" /\ (c.changed => k # "p")
              => (d.sent => d.shown = "picture") /\ d.shown # "garbage"
PROOF
  <1>1. CASE k = "sps"
    BY <1>1 DEF Written, Context
  <1>2. CASE k = "pps"
    BY <1>2 DEF Written, Context
  <1>3. CASE k = "idr"
    BY <1>3 DEF Written, Context
  <1>4. CASE k = "p"
    BY <1>4 DEF Written, Context
  <1>5. CASE k = "aac"
    BY <1>5 DEF Written, Context
  <1> QED
    BY <1>1, <1>2, <1>3, <1>4, <1>5 DEF Kinds, Nals, Slice

\* Marking the entries of the list leaves their kinds.
LEMMA Marked ==
  ASSUME DataOK, PublishStream
  PROVE  /\ Len(lst_enc_data) \in Nat /\ Len(lst_enc_data') = Len(lst_enc_data)
         /\ \A i \in 1..Len(lst_enc_data) : lst_enc_data'[i].kind = lst_enc_data[i].kind
PROOF
  <1> DEFINE old(i) == [lst_enc_data[i] EXCEPT !.old = TRUE]
  <1>1. lst_enc_data \in Seq(Entry) /\ Len(lst_enc_data) \in Nat
        /\ DOMAIN lst_enc_data = 1..Len(lst_enc_data)
    BY DEF DataOK
  <1>2. \A i \in 1..Len(lst_enc_data) :
           old(i) \in Entry /\ old(i).kind = lst_enc_data[i].kind
    BY <1>1, OldEntry
  <1>3. lst_enc_data' = [i \in 1..Len(lst_enc_data) |-> old(i)]
    BY <1>1 DEF PublishStream
  <1> HIDE DEF old
  <1>4. lst_enc_data' \in Seq(Entry) /\ Len(lst_enc_data') = Len(lst_enc_data)
    BY <1>1, <1>2, <1>3
  <1> QED
    BY <1>1, <1>2, <1>3, <1>4

\* What feeds the push thread.
FeedStep == Camera \/ VideoStep \/ Record \/ AudioStep

\* Where a key picture is next it stays next, whatever is queued behind it.
LEMMA FeedKeepsKey ==
  ASSUME DataOK, FeedStep, KeyNext(lst_enc_data, video, 1)
  PROVE  KeyNext(lst_enc_data', video', 1)
PROOF
  <1>1. CASE QueueNal
    <2> DEFINE e == [kind |-> video, old |-> FALSE]
    <2>1. lst_enc_data \in Seq(Entry) /\ e \in Entry /\ 1 \in 1..Len(lst_enc_data) + 1
      BY <1>1 DEF QueueNal, DataOK, Entry, Kinds
    <2>2. lst_enc_data' = Append(lst_enc_data, e)
      BY <1>1 DEF QueueNal, Queue
    <2>3. \/ e.kind \notin Slice /\ video' \in KeyComes
          \/ e.kind = "idr" \/ video \notin KeyComes
      BY <1>1 DEF QueueNal, KeyComes, Nals, Slice
    <2> HIDE DEF e
    <2> QED
      BY <2>1, <2>2, <2>3, KeyStays
  <1>2. CASE QueueAac
    <2> DEFINE e == [kind |-> "aac", old |-> FALSE]
    <2>1. lst_enc_data \in Seq(Entry) /\ e \in Entry /\ 1 \in 1..Len(lst_enc_data) + 1
      BY <1>2 DEF QueueAac, DataOK, Entry, Kinds
    <2>2. lst_enc_data' = Append(lst_enc_data, e)
      BY <1>2 DEF QueueAac, Queue
    <2>3. \/ e.kind \notin Slice /\ video' \in KeyComes
          \/ video \notin KeyComes
      BY <1>2 DEF QueueAac, KeyComes, Slice
    <2> HIDE DEF e
    <2> QED
      BY <2>1, <2>2, <2>3, KeyStays
  <1>3. CASE Encode \/ DeliverVideo \/ CheckVideo
    <2>1. lst_enc_data' = lst_enc_data /\ video \notin KeyComes
      BY <1>3 DEF Encode, DeliverVideo, CheckVideo, KeyComes, shared
    <2> QED
      BY <2>1, KeyElsewhere
  <1>4. CASE Camera \/ Record \/ DeliverAudio
    BY <1>4 DEF Camera, Record, DeliverAudio, shared
  <1> QED
    BY <1>1, <1>2, <1>3, <1>4 DEF FeedStep, VideoStep, AudioStep

\* It touches neither the push thread nor the object.
LEMMA FeedLeavesPush ==
  ASSUME FeedStep
  PROVE  /\ pushing' = pushing /\ packet' = packet /\ rtmp' = rtmp
         /\ rtmp_status' = rtmp_status /\ retrys' = retrys
         /\ told' = told /\ times' = times /\ encoded' = encoded
         /\ object' = object /\ running' = running /\ capturing' = capturing
         /\ worker' = worker /\ only_audio_mode' = only_audio_mode
PROOF
  BY DEF FeedStep, VideoStep, AudioStep, Camera, Encode, DeliverVideo, CheckVideo,
         QueueNal, Record, DeliverAudio, QueueAac, push, heard, encoder, life

\* The steps that change the list or move the video thread.
LEMMA ListChanges ==
  ASSUME [Next]_vars
  PROVE  \/ PublishStream \/ ClearList \/ Pop \/ Encode \/ DeliverVideo
         \/ CheckVideo \/ QueueNal \/ QueueAac \/ Join
         \/ lst_enc_data' = lst_enc_data /\ video' = video
PROOF
  <1>1. CASE PushStep
    BY <1>1 DEF PushStep, Poll, Advance, Refuse, Connected, OnRtmpConnected, Write,
                WriteFails, Drop, Retry, Report, feed, shared
  <1>2. CASE Camera \/ VideoStep \/ Record \/ AudioStep
    BY <1>2 DEF Camera, VideoStep, Record, AudioStep, DeliverAudio, feed, shared
  <1>3. CASE StopCapture \/ WorkerStep
    BY <1>3 DEF StopCapture, WorkerStep, Close, Disconnect, StopEncoder, feed, shared
  <1>4. CASE UNCHANGED vars
    BY <1>4 DEF vars, feed, shared
  <1> QED
    BY <1>1, <1>2, <1>3, <1>4 DEF Next

-----------------------------------------------------------------------------
(* Every step keeps every part of the invariant.                           *)

\* The status fits the place, for the push thread alone writes it while running.
LEMMA PlaceStep ==
  ASSUME PushOK, LifeOK, Place, [Next]_vars
  PROVE  Place'
PROOF
  <1>1. CASE Poll
    <2>1. Polled
      BY <1>1, PollIsPolled
    <2> QED
      BY <2>1 DEF Polled, PushOK, LifeOK, Place, push, life
  <1>2. CASE Advance("handshake", "Handshaked")
    BY <1>2 DEF Advance, PushOK, LifeOK, Place, push, life
  <1>3. CASE Advance("connect", "Connected")
    BY <1>3 DEF Advance, PushOK, LifeOK, Place, push, life
  <1>4. CASE PublishStream
    BY <1>4 DEF PublishStream, PushOK, LifeOK, Place, push, life
  <1>5. CASE Refuse
    BY <1>5 DEF Refuse, PushOK, LifeOK, Place, push, life
  <1>6. CASE Connected
    BY <1>6 DEF Connected, PushOK, LifeOK, Place, push, life
  <1>7. CASE ClearList
    BY <1>7 DEF ClearList, PushOK, LifeOK, Place, push, life
  <1>8. CASE OnRtmpConnected
    BY <1>8 DEF OnRtmpConnected, PushOK, LifeOK, Place, push, life
  <1>9. CASE Pop
    BY <1>9 DEF Pop, PushOK, LifeOK, Place, push, life
  <1>10. CASE Write
    BY <1>10 DEF Write, PushOK, LifeOK, Place, push, life
  <1>11. CASE WriteFails
    BY <1>11 DEF WriteFails, PushOK, LifeOK, Place, push, life
  <1>12. CASE Drop
    BY <1>12 DEF Drop, PushOK, LifeOK, Place, push, life
  <1>13. CASE Retry
    BY <1>13 DEF Retry, PushOK, LifeOK, Place, push, life
  <1>14. CASE Report
    BY <1>14 DEF Report, PushOK, LifeOK, Place, push, life
  <1>15. CASE StopCapture
    BY <1>15 DEF StopCapture, PushOK, LifeOK, Place, push, life
  <1>16. CASE Close
    BY <1>16 DEF Close, PushOK, LifeOK, Place, push, life
  <1>17. CASE Disconnect
    BY <1>17 DEF Disconnect, PushOK, LifeOK, Place, push, life
  <1>18. CASE Join
    BY <1>18 DEF Join, PushOK, LifeOK, Place, push, life
  <1>19. CASE StopEncoder
    BY <1>19 DEF StopEncoder, PushOK, LifeOK, Place, push, life
  <1>20. CASE FeedStep
    <2>1. /\ pushing' = pushing /\ rtmp' = rtmp /\ rtmp_status' = rtmp_status
          /\ object' = object /\ running' = running /\ worker' = worker
          /\ retrys' = retrys /\ told' = told /\ times' = times
      BY <1>20, FeedLeavesPush
    <2> QED
      BY <2>1 DEF Place
  <1>21. CASE UNCHANGED vars
    BY <1>21 DEF vars, PushOK, LifeOK, Place, push, life
  <1> QED
    BY <1>1, <1>2, <1>3, <1>4, <1>5, <1>6, <1>7, <1>8, <1>9, <1>10, <1>11, <1>12,
       <1>13, <1>14, <1>15, <1>16, <1>17, <1>18, <1>19, <1>20, <1>21
       DEF Next, PushStep, WorkerStep, FeedStep

\* An attempt that starts is counted, and one that ends is reported.
LEMMA CountStep ==
  ASSUME PushOK, Count, Story, [Next]_vars
  PROVE  Count'
PROOF
  <1>1. CASE Poll
    <2>1. Polled
      BY <1>1, PollIsPolled
    <2> QED
      BY <2>1, PushAssumption DEF Polled, PushOK, Count, push, heard
  <1>2. CASE Advance("handshake", "Handshaked")
    BY <1>2, PushAssumption DEF Advance, PushOK, Count, push, heard
  <1>3. CASE Advance("connect", "Connected")
    BY <1>3, PushAssumption DEF Advance, PushOK, Count, push, heard
  <1>4. CASE PublishStream
    BY <1>4, PushAssumption DEF PublishStream, PushOK, Count, push, heard
  <1>5. CASE Refuse
    BY <1>5, PushAssumption DEF Refuse, PushOK, Count, push, heard
  <1>6. CASE Connected
    BY <1>6, PushAssumption DEF Connected, PushOK, Count, push, heard
  <1>7. CASE ClearList
    BY <1>7, PushAssumption DEF ClearList, PushOK, Count, push, heard
  <1>8. CASE OnRtmpConnected
    <2>1. /\ pushing = "start" /\ pushing' = "loop" /\ retrys' = retrys
          /\ told' = "ok" /\ times' = 0
      BY <1>8 DEF OnRtmpConnected
    <2> QED
      BY <2>1, PushAssumption DEF Count
  <1>9. CASE Pop
    BY <1>9, PushAssumption DEF Pop, PushOK, Count, push, heard
  <1>10. CASE Write
    BY <1>10, PushAssumption DEF Write, PushOK, Count, push, heard
  <1>11. CASE WriteFails
    BY <1>11, PushAssumption DEF WriteFails, PushOK, Count, push, heard
  <1>12. CASE Drop
    BY <1>12, PushAssumption DEF Drop, PushOK, Count, push, heard
  <1>13. CASE Retry
    <2>1. /\ pushing = "retry" /\ told # "failed"
          /\ told' = told /\ times' = times
      BY <1>13 DEF Retry, Story, heard
    <2>2. retrys = times /\ times <= MaxRetry
      BY <2>1 DEF Count
    <2>3. times \in 0..MaxRetry + 1
      BY DEF PushOK
    <2>4. CASE retrys' = retrys /\ pushing' = "loop"
      BY <2>1, <2>2, <2>4 DEF Count
    <2>5. CASE retrys' = retrys + 1 /\ retrys' <= MaxRetry /\ pushing' = "again"
      BY <2>1, <2>2, <2>5 DEF Count
    <2>6. CASE retrys' = retrys + 1 /\ ~(retrys' <= MaxRetry) /\ pushing' = "give up"
      <3>1. retrys' = times + 1 /\ ~(times + 1 <= MaxRetry)
        BY <2>2, <2>6
      <3>2. times + 1 = MaxRetry + 1
        BY <2>2, <2>3, <3>1, PushAssumption
      <3> QED
        BY <2>1, <2>2, <2>6, <3>1, <3>2 DEF Count
    <2> QED
      BY <1>13, <2>4, <2>5, <2>6 DEF Retry
  <1>14. CASE Report
    BY <1>14, PushAssumption DEF Report, PushOK, Count, push, heard
  <1>15. CASE StopCapture
    BY <1>15, PushAssumption DEF StopCapture, PushOK, Count, push, heard
  <1>16. CASE Close
    BY <1>16, PushAssumption DEF Close, PushOK, Count, push, heard
  <1>17. CASE Disconnect
    BY <1>17, PushAssumption DEF Disconnect, PushOK, Count, push, heard
  <1>18. CASE Join
    BY <1>18, PushAssumption DEF Join, PushOK, Count, push, heard
  <1>19. CASE StopEncoder
    BY <1>19, PushAssumption DEF StopEncoder, PushOK, Count, push, heard
  <1>20. CASE FeedStep
    BY <1>20, FeedLeavesPush DEF Count
  <1>21. CASE UNCHANGED vars
    BY <1>21 DEF vars, PushOK, Count, push, heard
  <1> QED
    BY <1>1, <1>2, <1>3, <1>4, <1>5, <1>6, <1>7, <1>8, <1>9, <1>10, <1>11, <1>12,
       <1>13, <1>14, <1>15, <1>16, <1>17, <1>18, <1>19, <1>20, <1>21
       DEF Next, PushStep, WorkerStep, FeedStep

\* The application hears of a change before the next one.
LEMMA StoryStep ==
  ASSUME PushOK, Place, Story, [Next]_vars
  PROVE  Story'
PROOF
  <1>1. CASE Poll
    <2>1. Polled
      BY <1>1, PollIsPolled
    <2> QED
      BY <2>1
         DEF Polled, PushOK, Place, Story, Setup, Written, NoContext, push, heard,
             life
  <1>2. CASE Advance("handshake", "Handshaked")
    BY <1>2
       DEF Advance, PushOK, Place, Story, Setup, Written, NoContext, push, heard, life
  <1>3. CASE Advance("connect", "Connected")
    BY <1>3
       DEF Advance, PushOK, Place, Story, Setup, Written, NoContext, push, heard, life
  <1>4. CASE PublishStream
    BY <1>4
       DEF PublishStream, PushOK, Place, Story, Setup, Written, NoContext, push,
           heard, life
  <1>5. CASE Refuse
    BY <1>5
       DEF Refuse, PushOK, Place, Story, Setup, Written, NoContext, push, heard, life
  <1>6. CASE Connected
    BY <1>6
       DEF Connected, PushOK, Place, Story, Setup, Written, NoContext, push, heard,
           life
  <1>7. CASE ClearList
    BY <1>7
       DEF ClearList, PushOK, Place, Story, Setup, Written, NoContext, push, heard,
           life
  <1>8. CASE OnRtmpConnected
    BY <1>8
       DEF OnRtmpConnected, PushOK, Place, Story, Setup, Written, NoContext, push,
           heard, life
  <1>9. CASE Pop
    BY <1>9
       DEF Pop, PushOK, Place, Story, Setup, Written, NoContext, push, heard, life
  <1>10. CASE Write
    BY <1>10
       DEF Write, PushOK, Place, Story, Setup, Written, NoContext, push, heard, life
  <1>11. CASE WriteFails
    BY <1>11
       DEF WriteFails, PushOK, Place, Story, Setup, Written, NoContext, push, heard,
           life
  <1>12. CASE Drop
    BY <1>12
       DEF Drop, PushOK, Place, Story, Setup, Written, NoContext, push, heard, life
  <1>13. CASE Retry
    <2>1. /\ pushing = "retry" /\ told' = told
          /\ pushing' \in {"loop", "again", "give up"}
          /\ pushing' = "give up" => rtmp' = NoContext
          /\ pushing' = "loop" => rtmp_status = "Closed" /\ running' = running
      BY <1>13 DEF Retry, heard, life
    <2>2. told' # "failed"
      BY <2>1 DEF Story
    <2>3. pushing' = "loop" => ~running'
      BY <2>1 DEF Place
    <2>4. pushing' = "give up" => ~rtmp'.open
      BY <2>1, NewContext
    <2> QED
      BY <2>1, <2>2, <2>3, <2>4 DEF Story, Setup
  <1>14. CASE Report
    BY <1>14
       DEF Report, PushOK, Place, Story, Setup, Written, NoContext, push, heard, life
  <1>15. CASE StopCapture
    BY <1>15
       DEF StopCapture, PushOK, Place, Story, Setup, Written, NoContext, push, heard,
           life
  <1>16. CASE Close
    BY <1>16
       DEF Close, PushOK, Place, Story, Setup, Written, NoContext, push, heard, life
  <1>17. CASE Disconnect
    BY <1>17
       DEF Disconnect, PushOK, Place, Story, Setup, Written, NoContext, push, heard,
           life
  <1>18. CASE Join
    BY <1>18
       DEF Join, PushOK, Place, Story, Setup, Written, NoContext, push, heard, life
  <1>19. CASE StopEncoder
    BY <1>19
       DEF StopEncoder, PushOK, Place, Story, Setup, Written, NoContext, push, heard,
           life
  <1>20. CASE FeedStep
    <2>1. /\ pushing' = pushing /\ rtmp' = rtmp /\ rtmp_status' = rtmp_status
          /\ object' = object /\ running' = running /\ worker' = worker
          /\ retrys' = retrys /\ told' = told /\ times' = times
      BY <1>20, FeedLeavesPush
    <2> QED
      BY <2>1 DEF Story
  <1>21. CASE UNCHANGED vars
    BY <1>21
       DEF vars, PushOK, Place, Story, Setup, Written, NoContext, push, heard, life
  <1> QED
    BY <1>1, <1>2, <1>3, <1>4, <1>5, <1>6, <1>7, <1>8, <1>9, <1>10, <1>11, <1>12,
       <1>13, <1>14, <1>15, <1>16, <1>17, <1>18, <1>19, <1>20, <1>21
       DEF Next, PushStep, WorkerStep, FeedStep

\* The callbacks switch the encoders.
LEMMA EncodingStep ==
  ASSUME PushOK, FeedOK, LifeOK, Place, Story, Encoding, [Next]_vars
  PROVE  Encoding'
PROOF
  <1>1. CASE Poll
    <2>1. Polled
      BY <1>1, PollIsPolled
    <2> QED
      BY <2>1
         DEF Polled, PushOK, FeedOK, LifeOK, Place, Story, Encoding, Setup, push,
             encoder, life
  <1>2. CASE Advance("handshake", "Handshaked")
    BY <1>2
       DEF Advance, PushOK, FeedOK, LifeOK, Place, Story, Encoding, Setup, push,
           encoder, life
  <1>3. CASE Advance("connect", "Connected")
    BY <1>3
       DEF Advance, PushOK, FeedOK, LifeOK, Place, Story, Encoding, Setup, push,
           encoder, life
  <1>4. CASE PublishStream
    BY <1>4
       DEF PublishStream, PushOK, FeedOK, LifeOK, Place, Story, Encoding, Setup,
           push, encoder, life
  <1>5. CASE Refuse
    BY <1>5
       DEF Refuse, PushOK, FeedOK, LifeOK, Place, Story, Encoding, Setup, push,
           encoder, life
  <1>6. CASE Connected
    BY <1>6
       DEF Connected, PushOK, FeedOK, LifeOK, Place, Story, Encoding, Setup, push,
           encoder, life
  <1>7. CASE ClearList
    BY <1>7
       DEF ClearList, PushOK, FeedOK, LifeOK, Place, Story, Encoding, Setup, push,
           encoder, life
  <1>8. CASE OnRtmpConnected
    BY <1>8
       DEF OnRtmpConnected, PushOK, FeedOK, LifeOK, Place, Story, Encoding, Setup,
           push, encoder, life
  <1>9. CASE Pop
    BY <1>9
       DEF Pop, PushOK, FeedOK, LifeOK, Place, Story, Encoding, Setup, push, encoder,
           life
  <1>10. CASE Write
    BY <1>10
       DEF Write, PushOK, FeedOK, LifeOK, Place, Story, Encoding, Setup, push,
           encoder, life
  <1>11. CASE WriteFails
    BY <1>11
       DEF WriteFails, PushOK, FeedOK, LifeOK, Place, Story, Encoding, Setup, push,
           encoder, life
  <1>12. CASE Drop
    BY <1>12
       DEF Drop, PushOK, FeedOK, LifeOK, Place, Story, Encoding, Setup, push,
           encoder, life
  <1>13. CASE Retry
    BY <1>13
       DEF Retry, PushOK, FeedOK, LifeOK, Place, Story, Encoding, Setup, push,
           encoder, life
  <1>14. CASE Report
    BY <1>14
       DEF Report, PushOK, FeedOK, LifeOK, Place, Story, Encoding, Setup, push,
           encoder, life
  <1>15. CASE StopCapture
    BY <1>15
       DEF StopCapture, PushOK, FeedOK, LifeOK, Place, Story, Encoding, Setup, push,
           encoder, life
  <1>16. CASE Close
    BY <1>16
       DEF Close, PushOK, FeedOK, LifeOK, Place, Story, Encoding, Setup, push,
           encoder, life
  <1>17. CASE Disconnect
    BY <1>17
       DEF Disconnect, PushOK, FeedOK, LifeOK, Place, Story, Encoding, Setup, push,
           encoder, life
  <1>18. CASE Join
    BY <1>18
       DEF Join, PushOK, FeedOK, LifeOK, Place, Story, Encoding, Setup, push,
           encoder, life
  <1>19. CASE StopEncoder
    BY <1>19
       DEF StopEncoder, PushOK, FeedOK, LifeOK, Place, Story, Encoding, Setup, push,
           encoder, life
  <1>20. CASE FeedStep
    BY <1>20, FeedLeavesPush DEF Encoding
  <1>21. CASE UNCHANGED vars
    BY <1>21
       DEF vars, PushOK, FeedOK, LifeOK, Place, Story, Encoding, Setup, push,
           encoder, life
  <1> QED
    BY <1>1, <1>2, <1>3, <1>4, <1>5, <1>6, <1>7, <1>8, <1>9, <1>10, <1>11, <1>12,
       <1>13, <1>14, <1>15, <1>16, <1>17, <1>18, <1>19, <1>20, <1>21
       DEF Next, PushStep, WorkerStep, FeedStep

\* The count never passes MaxRetry + 1.
LEMMA PushOKStep ==
  ASSUME PushOK, Count, Story, [Next]_vars
  PROVE  PushOK'
PROOF
  <1>1. CASE Poll
    <2>1. Polled
      BY <1>1, PollIsPolled
    <2> QED
      BY <2>1, PushAssumption DEF Polled, PushOK, Count, Story, push, heard
  <1>2. CASE Advance("handshake", "Handshaked")
    BY <1>2, PushAssumption DEF Advance, PushOK, Count, Story, push, heard
  <1>3. CASE Advance("connect", "Connected")
    BY <1>3, PushAssumption DEF Advance, PushOK, Count, Story, push, heard
  <1>4. CASE PublishStream
    BY <1>4, PushAssumption DEF PublishStream, PushOK, Count, Story, push, heard
  <1>5. CASE Refuse
    BY <1>5, PushAssumption DEF Refuse, PushOK, Count, Story, push, heard
  <1>6. CASE Connected
    BY <1>6, PushAssumption DEF Connected, PushOK, Count, Story, push, heard
  <1>7. CASE ClearList
    BY <1>7, PushAssumption DEF ClearList, PushOK, Count, Story, push, heard
  <1>8. CASE OnRtmpConnected
    BY <1>8, PushAssumption DEF OnRtmpConnected, PushOK, Count, Story, push, heard
  <1>9. CASE Pop
    BY <1>9, PushAssumption DEF Pop, PushOK, Count, Story, push, heard
  <1>10. CASE Write
    BY <1>10, PushAssumption DEF Write, PushOK, Count, Story, push, heard
  <1>11. CASE WriteFails
    BY <1>11, PushAssumption DEF WriteFails, PushOK, Count, Story, push, heard
  <1>12. CASE Drop
    BY <1>12, PushAssumption DEF Drop, PushOK, Count, Story, push, heard
  <1>13. CASE Retry
    <2>1. /\ pushing = "retry" /\ told # "failed"
          /\ told' = told /\ times' = times
      BY <1>13 DEF Retry, Story, heard
    <2>2. retrys = times /\ times <= MaxRetry
      BY <2>1 DEF Count
    <2>3. times \in 0..MaxRetry + 1
      BY DEF PushOK
    <2>4. retrys' \in {retrys, retrys + 1}
      BY <1>13 DEF Retry
    <2>5. retrys' \in 0..MaxRetry + 1
      BY <2>2, <2>3, <2>4, PushAssumption
    <2>6. /\ rtmp_status' \in {rtmp_status, "Init"}
          /\ pushing' \in {"loop", "again", "give up"}
      BY <1>13 DEF Retry
    <2> QED
      BY <2>1, <2>5, <2>6 DEF PushOK
  <1>14. CASE Report
    BY <1>14, PushAssumption DEF Report, PushOK, Count, Story, push, heard
  <1>15. CASE StopCapture
    BY <1>15, PushAssumption DEF StopCapture, PushOK, Count, Story, push, heard
  <1>16. CASE Close
    BY <1>16, PushAssumption DEF Close, PushOK, Count, Story, push, heard
  <1>17. CASE Disconnect
    BY <1>17, PushAssumption DEF Disconnect, PushOK, Count, Story, push, heard
  <1>18. CASE Join
    BY <1>18, PushAssumption DEF Join, PushOK, Count, Story, push, heard
  <1>19. CASE StopEncoder
    BY <1>19, PushAssumption DEF StopEncoder, PushOK, Count, Story, push, heard
  <1>20. CASE FeedStep
    BY <1>20, FeedLeavesPush DEF PushOK
  <1>21. CASE UNCHANGED vars
    BY <1>21 DEF vars, PushOK, Count, Story, push, heard
  <1> QED
    BY <1>1, <1>2, <1>3, <1>4, <1>5, <1>6, <1>7, <1>8, <1>9, <1>10, <1>11, <1>12,
       <1>13, <1>14, <1>15, <1>16, <1>17, <1>18, <1>19, <1>20, <1>21
       DEF Next, PushStep, WorkerStep, FeedStep

\* The feeding threads stay where the code has a place.
LEMMA FeedOKStep ==
  ASSUME FeedOK, [Next]_vars
  PROVE  FeedOK'
PROOF
  <1>1. CASE Poll
    <2>1. UNCHANGED <<feed, encoder, shared>>
      BY <1>1 DEF Poll
    <2> QED
      BY <2>1, PushAssumption DEF FeedOK, Nals, Slice, feed, encoder, shared
  <1>2. CASE Advance("handshake", "Handshaked")
    BY <1>2, PushAssumption DEF Advance, FeedOK, Nals, Slice, feed, encoder, shared
  <1>3. CASE Advance("connect", "Connected")
    BY <1>3, PushAssumption DEF Advance, FeedOK, Nals, Slice, feed, encoder, shared
  <1>4. CASE PublishStream
    BY <1>4, PushAssumption
       DEF PublishStream, FeedOK, Nals, Slice, feed, encoder, shared
  <1>5. CASE Refuse
    BY <1>5, PushAssumption DEF Refuse, FeedOK, Nals, Slice, feed, encoder, shared
  <1>6. CASE Connected
    BY <1>6, PushAssumption DEF Connected, FeedOK, Nals, Slice, feed, encoder, shared
  <1>7. CASE ClearList
    BY <1>7, PushAssumption DEF ClearList, FeedOK, Nals, Slice, feed, encoder, shared
  <1>8. CASE OnRtmpConnected
    BY <1>8, PushAssumption
       DEF OnRtmpConnected, FeedOK, Nals, Slice, feed, encoder, shared
  <1>9. CASE Pop
    BY <1>9, PushAssumption DEF Pop, FeedOK, Nals, Slice, feed, encoder, shared
  <1>10. CASE Write
    BY <1>10, PushAssumption DEF Write, FeedOK, Nals, Slice, feed, encoder, shared
  <1>11. CASE WriteFails
    BY <1>11, PushAssumption
       DEF WriteFails, FeedOK, Nals, Slice, feed, encoder, shared
  <1>12. CASE Drop
    BY <1>12, PushAssumption DEF Drop, FeedOK, Nals, Slice, feed, encoder, shared
  <1>13. CASE Retry
    BY <1>13, PushAssumption DEF Retry, FeedOK, Nals, Slice, feed, encoder, shared
  <1>14. CASE Report
    BY <1>14, PushAssumption DEF Report, FeedOK, Nals, Slice, feed, encoder, shared
  <1>15. CASE Camera
    <2>1. frames < MaxFrames /\ frames' = frames + 1
      BY <1>15 DEF Camera
    <2>2. frames \in 0..MaxFrames
      BY DEF FeedOK
    <2>3. frames' \in 0..MaxFrames
      BY <2>1, <2>2, PushAssumption
    <2> QED
      BY <1>15, <2>3 DEF Camera, FeedOK, encoder, shared
  <1>16. CASE Encode
    <2>1. frames' \in 0..MaxFrames
      BY <1>16, PushAssumption DEF Encode, FeedOK
    <2> QED
      BY <1>16, <2>1 DEF Encode, FeedOK, Nals, shared
  <1>17. CASE DeliverVideo
    BY <1>17, PushAssumption
       DEF DeliverVideo, FeedOK, Nals, Slice, feed, encoder, shared
  <1>18. CASE CheckVideo
    BY <1>18, PushAssumption
       DEF CheckVideo, FeedOK, Nals, Slice, feed, encoder, shared
  <1>19. CASE QueueNal
    BY <1>19, PushAssumption
       DEF QueueNal, Queue, FeedOK, Nals, Slice, feed, encoder, shared
  <1>20. CASE Record
    BY <1>20, PushAssumption DEF Record, FeedOK, Nals, Slice, feed, encoder, shared
  <1>21. CASE DeliverAudio
    BY <1>21, PushAssumption
       DEF DeliverAudio, FeedOK, Nals, Slice, feed, encoder, shared
  <1>22. CASE QueueAac
    BY <1>22, PushAssumption
       DEF QueueAac, Queue, FeedOK, Nals, Slice, feed, encoder, shared
  <1>23. CASE StopCapture
    BY <1>23, PushAssumption
       DEF StopCapture, FeedOK, Nals, Slice, feed, encoder, shared
  <1>24. CASE Close
    BY <1>24, PushAssumption DEF Close, FeedOK, Nals, Slice, feed, encoder, shared
  <1>25. CASE Disconnect
    BY <1>25, PushAssumption
       DEF Disconnect, FeedOK, Nals, Slice, feed, encoder, shared
  <1>26. CASE Join
    BY <1>26, PushAssumption DEF Join, FeedOK, Nals, Slice, feed, encoder, shared
  <1>27. CASE StopEncoder
    BY <1>27, PushAssumption
       DEF StopEncoder, FeedOK, Nals, Slice, feed, encoder, shared
  <1>28. CASE UNCHANGED vars
    BY <1>28 DEF vars, FeedOK, Nals, Slice, feed, encoder, shared
  <1> QED
    BY <1>1, <1>2, <1>3, <1>4, <1>5, <1>6, <1>7, <1>8, <1>9, <1>10, <1>11, <1>12,
       <1>13, <1>14, <1>15, <1>16, <1>17, <1>18, <1>19, <1>20, <1>21, <1>22, <1>23,
       <1>24, <1>25, <1>26, <1>27, <1>28
       DEF Next, PushStep, VideoStep, AudioStep, WorkerStep

\* So does the object.
LEMMA LifeOKStep ==
  ASSUME LifeOK, [Next]_vars
  PROVE  LifeOK'
PROOF
  <1>1. CASE Poll
    <2>1. UNCHANGED <<life>>
      BY <1>1 DEF Poll
    <2> QED
      BY <2>1 DEF LifeOK, life
  <1>2. CASE Advance("handshake", "Handshaked")
    BY <1>2 DEF Advance, LifeOK, life
  <1>3. CASE Advance("connect", "Connected")
    BY <1>3 DEF Advance, LifeOK, life
  <1>4. CASE PublishStream
    BY <1>4 DEF PublishStream, LifeOK, life
  <1>5. CASE Refuse
    BY <1>5 DEF Refuse, LifeOK, life
  <1>6. CASE Connected
    BY <1>6 DEF Connected, LifeOK, life
  <1>7. CASE ClearList
    BY <1>7 DEF ClearList, LifeOK, life
  <1>8. CASE OnRtmpConnected
    BY <1>8 DEF OnRtmpConnected, LifeOK, life
  <1>9. CASE Pop
    BY <1>9 DEF Pop, LifeOK, life
  <1>10. CASE Write
    BY <1>10 DEF Write, LifeOK, life
  <1>11. CASE WriteFails
    BY <1>11 DEF WriteFails, LifeOK, life
  <1>12. CASE Drop
    BY <1>12 DEF Drop, LifeOK, life
  <1>13. CASE Retry
    BY <1>13 DEF Retry, LifeOK, life
  <1>14. CASE Report
    BY <1>14 DEF Report, LifeOK, life
  <1>15. CASE StopCapture
    BY <1>15 DEF StopCapture, LifeOK, life
  <1>16. CASE Close
    BY <1>16 DEF Close, LifeOK, life
  <1>17. CASE Disconnect
    BY <1>17 DEF Disconnect, LifeOK, life
  <1>18. CASE Join
    BY <1>18 DEF Join, LifeOK, life
  <1>19. CASE StopEncoder
    BY <1>19 DEF StopEncoder, LifeOK, life
  <1>20. CASE FeedStep
    BY <1>20, FeedLeavesPush DEF LifeOK
  <1>21. CASE UNCHANGED vars
    BY <1>21 DEF vars, LifeOK, life
  <1> QED
    BY <1>1, <1>2, <1>3, <1>4, <1>5, <1>6, <1>7, <1>8, <1>9, <1>10, <1>11, <1>12,
       <1>13, <1>14, <1>15, <1>16, <1>17, <1>18, <1>19, <1>20, <1>21
       DEF Next, PushStep, WorkerStep, FeedStep

\* The push thread holds an entry exactly while it writes.
LEMMA DataOKStep ==
  ASSUME PushOK, DataOK, [Next]_vars
  PROVE  DataOK'
PROOF
  <1>1. CASE Poll
    <2>1. Polled
      BY <1>1, PollIsPolled
    <2> QED
      BY <2>1 DEF Polled, DataOK, push, shared
  <1>2. CASE Advance("handshake", "Handshaked")
    BY <1>2 DEF Advance, DataOK, push, shared
  <1>3. CASE Advance("connect", "Connected")
    BY <1>3 DEF Advance, DataOK, push, shared
  <1>4. CASE PublishStream
    <2> DEFINE old(i) == [lst_enc_data[i] EXCEPT !.old = TRUE]
    <2>1. lst_enc_data \in Seq(Entry) /\ Len(lst_enc_data) \in Nat
          /\ DOMAIN lst_enc_data = 1..Len(lst_enc_data)
      BY DEF DataOK
    <2>2. \A i \in 1..Len(lst_enc_data) : old(i) \in Entry
      BY <2>1, OldEntry
    <2>3. lst_enc_data' = [i \in 1..Len(lst_enc_data) |-> old(i)]
      BY <1>4, <2>1 DEF PublishStream
    <2>4. lst_enc_data' \in Seq(Entry)
      <3> HIDE DEF old
      <3> QED
        BY <2>1, <2>2, <2>3
    <2> QED
      BY <1>4, <2>4 DEF PublishStream, DataOK
  <1>5. CASE Refuse
    BY <1>5 DEF Refuse, DataOK, push, shared
  <1>6. CASE Connected
    BY <1>6 DEF Connected, DataOK, push, shared
  <1>7. CASE ClearList
    BY <1>7 DEF ClearList, DataOK, push, shared
  <1>8. CASE OnRtmpConnected
    BY <1>8 DEF OnRtmpConnected, DataOK, push, shared
  <1>9. CASE Pop
    <2>1. CASE lst_enc_data = <<>>
      BY <1>9, <2>1 DEF Pop, DataOK
    <2>2. CASE lst_enc_data # <<>>
      BY <1>9, <2>2, NothingIsNoEntry DEF Pop, DataOK
    <2> QED
      BY <2>1, <2>2
  <1>10. CASE Write
    <2>1. packet \in Entry
      BY <1>10 DEF Write, DataOK
    <2>2. packet.kind \in Kinds
      BY <2>1 DEF Entry
    <2> QED
      BY <1>10, <2>2, WrittenType DEF Write, DataOK, shared
  <1>11. CASE WriteFails
    BY <1>11 DEF WriteFails, DataOK, push, shared
  <1>12. CASE Drop
    BY <1>12 DEF Drop, DataOK, push, shared
  <1>13. CASE Retry
    <2>1. rtmp' \in {NoContext, Create(rtmp)}
      BY <1>13 DEF Retry
    <2>2. rtmp' \in Context
      BY <2>1, NewContext
    <2> QED
      BY <1>13, <2>2 DEF Retry, DataOK, shared
  <1>14. CASE Report
    BY <1>14 DEF Report, DataOK, push, shared
  <1>15. CASE Camera
    BY <1>15 DEF Camera, DataOK, push, shared
  <1>16. CASE Encode
    BY <1>16 DEF Encode, DataOK, push, shared
  <1>17. CASE DeliverVideo
    BY <1>17 DEF DeliverVideo, DataOK, push, shared
  <1>18. CASE CheckVideo
    BY <1>18 DEF CheckVideo, DataOK, push, shared
  <1>19. CASE QueueNal
    <2>1. [kind |-> video, old |-> FALSE] \in Entry
      BY <1>19 DEF QueueNal, Entry, Kinds
    <2> QED
      BY <1>19, <2>1 DEF QueueNal, Queue, DataOK, push
  <1>20. CASE Record
    BY <1>20 DEF Record, DataOK, push, shared
  <1>21. CASE DeliverAudio
    BY <1>21 DEF DeliverAudio, DataOK, push, shared
  <1>22. CASE QueueAac
    <2>1. [kind |-> "aac", old |-> FALSE] \in Entry
      BY DEF Entry, Kinds
    <2> QED
      BY <1>22, <2>1 DEF QueueAac, Queue, DataOK, push
  <1>23. CASE StopCapture
    BY <1>23 DEF StopCapture, DataOK, push, shared
  <1>24. CASE Close
    BY <1>24 DEF Close, DataOK, push, shared
  <1>25. CASE Disconnect
    BY <1>25 DEF Disconnect, DataOK, push, shared
  <1>26. CASE Join
    <2>1. rtmp' \in Context
      BY <1>26, NewContext DEF Join
    <2> QED
      BY <1>26, <2>1 DEF Join, DataOK
  <1>27. CASE StopEncoder
    BY <1>27 DEF StopEncoder, DataOK, push, shared
  <1>28. CASE UNCHANGED vars
    BY <1>28 DEF vars, DataOK, push, shared
  <1> QED
    BY <1>1, <1>2, <1>3, <1>4, <1>5, <1>6, <1>7, <1>8, <1>9, <1>10, <1>11, <1>12,
       <1>13, <1>14, <1>15, <1>16, <1>17, <1>18, <1>19, <1>20, <1>21, <1>22, <1>23,
       <1>24, <1>25, <1>26, <1>27, <1>28
       DEF Next, PushStep, VideoStep, AudioStep, WorkerStep

\* Clearing the list leaves nothing of before the stream.
LEMMA FreshStep ==
  ASSUME PushOK, DataOK, Fresh, [Next]_vars
  PROVE  Fresh'
PROOF
  <1>1. CASE Poll
    <2>1. Polled
      BY <1>1, PollIsPolled
    <2> QED
      BY <2>1 DEF Polled, PushOK, Fresh, Nothing, push, shared
  <1>2. CASE Advance("handshake", "Handshaked")
    BY <1>2 DEF Advance, PushOK, Fresh, Nothing, push, shared
  <1>3. CASE Advance("connect", "Connected")
    BY <1>3 DEF Advance, PushOK, Fresh, Nothing, push, shared
  <1>4. CASE PublishStream
    BY <1>4 DEF PublishStream, Fresh
  <1>5. CASE Refuse
    BY <1>5 DEF Refuse, PushOK, Fresh, Nothing, push, shared
  <1>6. CASE Connected
    BY <1>6 DEF Connected, PushOK, Fresh, Nothing, push, shared
  <1>7. CASE ClearList
    BY <1>7 DEF ClearList, Fresh
  <1>8. CASE OnRtmpConnected
    BY <1>8 DEF OnRtmpConnected, PushOK, Fresh, Nothing, push, shared
  <1>9. CASE Pop
    <2>1. CASE lst_enc_data = <<>>
      BY <1>9, <2>1 DEF Pop, Fresh
    <2>2. CASE lst_enc_data # <<>>
      <3>1. lst_enc_data \in Seq(Entry)
        BY DEF DataOK
      <3>2. /\ Len(lst_enc_data) \in Nat \ {0} /\ packet' = lst_enc_data[1]
            /\ Len(lst_enc_data') = Len(lst_enc_data) - 1
            /\ \A i \in 1..Len(lst_enc_data') : lst_enc_data'[i] = lst_enc_data[i + 1]
        BY <1>9, <2>2, <3>1, Taken DEF Pop
      <3>3. \A i \in 1..Len(lst_enc_data) : ~lst_enc_data[i].old
        BY <1>9 DEF Pop, Fresh
      <3>4. \A i \in 1..Len(lst_enc_data') : i + 1 \in 1..Len(lst_enc_data)
        BY <3>2
      <3>5. 1 \in 1..Len(lst_enc_data)
        BY <3>2
      <3> QED
        BY <3>2, <3>3, <3>4, <3>5 DEF Fresh
    <2> QED
      BY <2>1, <2>2
  <1>10. CASE Write
    BY <1>10 DEF Write, PushOK, Fresh, Nothing, push, shared
  <1>11. CASE WriteFails
    BY <1>11 DEF WriteFails, PushOK, Fresh, Nothing, push, shared
  <1>12. CASE Drop
    BY <1>12 DEF Drop, PushOK, Fresh, Nothing, push, shared
  <1>13. CASE Retry
    BY <1>13 DEF Retry, PushOK, Fresh, Nothing, push, shared
  <1>14. CASE Report
    BY <1>14 DEF Report, PushOK, Fresh, Nothing, push, shared
  <1>15. CASE Camera
    BY <1>15 DEF Camera, PushOK, Fresh, Nothing, push, shared
  <1>16. CASE Encode
    BY <1>16 DEF Encode, PushOK, Fresh, Nothing, push, shared
  <1>17. CASE DeliverVideo
    BY <1>17 DEF DeliverVideo, PushOK, Fresh, Nothing, push, shared
  <1>18. CASE CheckVideo
    BY <1>18 DEF CheckVideo, PushOK, Fresh, Nothing, push, shared
  <1>19. CASE QueueNal
    <2> DEFINE e == [kind |-> video, old |-> FALSE]
    <2>1. lst_enc_data \in Seq(Entry) /\ e \in Entry /\ ~e.old
      BY <1>19 DEF QueueNal, DataOK, Entry, Kinds
    <2>2. lst_enc_data' = Append(lst_enc_data, e)
      BY <1>19 DEF QueueNal, Queue
    <2> HIDE DEF e
    <2>3. /\ Len(lst_enc_data) \in Nat /\ Len(lst_enc_data') = Len(lst_enc_data) + 1
          /\ \A i \in 1..Len(lst_enc_data) : lst_enc_data'[i] = lst_enc_data[i]
          /\ lst_enc_data'[Len(lst_enc_data) + 1] = e
      BY <2>1, <2>2, Added
    <2>4. \A i \in 1..Len(lst_enc_data') :
             i \in 1..Len(lst_enc_data) \/ i = Len(lst_enc_data) + 1
      BY <2>3
    <2>5. packet' = packet /\ pushing' = pushing
      BY <1>19 DEF QueueNal, push
    <2> QED
      BY <2>1, <2>3, <2>4, <2>5 DEF Fresh
  <1>20. CASE Record
    BY <1>20 DEF Record, PushOK, Fresh, Nothing, push, shared
  <1>21. CASE DeliverAudio
    BY <1>21 DEF DeliverAudio, PushOK, Fresh, Nothing, push, shared
  <1>22. CASE QueueAac
    <2> DEFINE e == [kind |-> "aac", old |-> FALSE]
    <2>1. lst_enc_data \in Seq(Entry) /\ e \in Entry /\ ~e.old
      BY <1>22 DEF QueueAac, DataOK, Entry, Kinds
    <2>2. lst_enc_data' = Append(lst_enc_data, e)
      BY <1>22 DEF QueueAac, Queue
    <2> HIDE DEF e
    <2>3. /\ Len(lst_enc_data) \in Nat /\ Len(lst_enc_data') = Len(lst_enc_data) + 1
          /\ \A i \in 1..Len(lst_enc_data) : lst_enc_data'[i] = lst_enc_data[i]
          /\ lst_enc_data'[Len(lst_enc_data) + 1] = e
      BY <2>1, <2>2, Added
    <2>4. \A i \in 1..Len(lst_enc_data') :
             i \in 1..Len(lst_enc_data) \/ i = Len(lst_enc_data) + 1
      BY <2>3
    <2>5. packet' = packet /\ pushing' = pushing
      BY <1>22 DEF QueueAac, push
    <2> QED
      BY <2>1, <2>3, <2>4, <2>5 DEF Fresh
  <1>23. CASE StopCapture
    BY <1>23 DEF StopCapture, PushOK, Fresh, Nothing, push, shared
  <1>24. CASE Close
    BY <1>24 DEF Close, PushOK, Fresh, Nothing, push, shared
  <1>25. CASE Disconnect
    BY <1>25 DEF Disconnect, PushOK, Fresh, Nothing, push, shared
  <1>26. CASE Join
    BY <1>26 DEF Join, Fresh
  <1>27. CASE StopEncoder
    BY <1>27 DEF StopEncoder, PushOK, Fresh, Nothing, push, shared
  <1>28. CASE UNCHANGED vars
    BY <1>28 DEF vars, PushOK, Fresh, Nothing, push, shared
  <1> QED
    BY <1>1, <1>2, <1>3, <1>4, <1>5, <1>6, <1>7, <1>8, <1>9, <1>10, <1>11, <1>12,
       <1>13, <1>14, <1>15, <1>16, <1>17, <1>18, <1>19, <1>20, <1>21, <1>22, <1>23,
       <1>24, <1>25, <1>26, <1>27, <1>28
       DEF Next, PushStep, VideoStep, AudioStep, WorkerStep

\* What is queued behind a parameter set is its key picture.
LEMMA KeysInListStep ==
  ASSUME PushOK, DataOK, KeysInList(lst_enc_data, video), [Next]_vars
  PROVE  KeysInList(lst_enc_data', video')
PROOF
  <1>1. CASE PublishStream
    <2>1. /\ Len(lst_enc_data) \in Nat /\ Len(lst_enc_data') = Len(lst_enc_data)
          /\ \A i \in 1..Len(lst_enc_data) :
                lst_enc_data'[i].kind = lst_enc_data[i].kind
      BY <1>1, Marked
    <2>2. video' = video
      BY <1>1 DEF PublishStream, feed
    <2> QED
      BY <2>1, <2>2, KeySame DEF KeysInList
  <1>2. CASE ClearList
    BY <1>2 DEF ClearList, KeysInList
  <1>3. CASE Pop
    <2>1. video' = video
      BY <1>3 DEF Pop, feed
    <2>2. CASE lst_enc_data = <<>>
      BY <1>3, <2>1, <2>2 DEF Pop
    <2>3. CASE lst_enc_data # <<>>
      <3>1. lst_enc_data \in Seq(Entry) /\ lst_enc_data' = Tail(lst_enc_data)
        BY <1>3, <2>3 DEF DataOK, Pop
      <3>2. /\ Len(lst_enc_data) \in Nat \ {0}
            /\ Len(lst_enc_data') = Len(lst_enc_data) - 1
            /\ \A i \in 1..Len(lst_enc_data') : lst_enc_data'[i] = lst_enc_data[i + 1]
        BY <2>3, <3>1, Taken
      <3>3. ASSUME NEW i \in 1..Len(lst_enc_data'), lst_enc_data'[i].kind \in {"sps", "pps"}
            PROVE  KeyNext(lst_enc_data', video', i + 1)
        <4>1. i + 1 \in 1..Len(lst_enc_data) /\ lst_enc_data[i + 1].kind \in {"sps", "pps"}
          BY <3>2, <3>3
        <4>2. KeyNext(lst_enc_data, video, (i + 1) + 1) /\ i + 1 \in Nat \ {0}
          BY <4>1 DEF KeysInList
        <4> QED
          BY <2>1, <2>3, <3>1, <4>2, KeyShifts
      <3> QED
        BY <3>3 DEF KeysInList
    <2> QED
      BY <2>2, <2>3
  <1>4. CASE Encode
    <2>1. /\ lst_enc_data' = lst_enc_data /\ video \notin KeyComes
      BY <1>4 DEF Encode, KeyComes, shared
    <2> QED
      BY <2>1, KeyElsewhere DEF KeysInList
  <1>5. CASE DeliverVideo
    <2>1. /\ lst_enc_data' = lst_enc_data /\ video \notin KeyComes
      BY <1>5 DEF DeliverVideo, KeyComes, shared
    <2> QED
      BY <2>1, KeyElsewhere DEF KeysInList
  <1>6. CASE CheckVideo
    <2>1. /\ lst_enc_data' = lst_enc_data /\ video \notin KeyComes
      BY <1>6 DEF CheckVideo, KeyComes, shared
    <2> QED
      BY <2>1, KeyElsewhere DEF KeysInList
  <1>7. CASE QueueNal
    <2> DEFINE e == [kind |-> video, old |-> FALSE]
    <2>1. lst_enc_data \in Seq(Entry) /\ e \in Entry
      BY <1>7 DEF QueueNal, DataOK, Entry, Kinds
    <2>2. lst_enc_data' = Append(lst_enc_data, e)
      BY <1>7 DEF QueueNal, Queue
    <2>3. /\ \/ e.kind \notin Slice /\ (video' \in KeyComes \/ video \notin KeyComes)
             \/ e.kind = "idr" \/ video \notin KeyComes
          /\ e.kind \in {"sps", "pps"} => video' \in KeyComes
      BY <1>7 DEF QueueNal, KeyComes, Nals, Slice
    <2> HIDE DEF e
    <2>4. /\ Len(lst_enc_data) \in Nat /\ Len(lst_enc_data') = Len(lst_enc_data) + 1
          /\ \A i \in 1..Len(lst_enc_data) : lst_enc_data'[i] = lst_enc_data[i]
          /\ lst_enc_data'[Len(lst_enc_data) + 1] = e
      BY <2>1, <2>2, Added
    <2>5. ASSUME NEW i \in 1..Len(lst_enc_data'), lst_enc_data'[i].kind \in {"sps", "pps"}
          PROVE  KeyNext(lst_enc_data', video', i + 1)
      <3>1. CASE i \in 1..Len(lst_enc_data)
        <4>1. KeyNext(lst_enc_data, video, i + 1) /\ i + 1 \in 1..Len(lst_enc_data) + 1
          BY <2>4, <2>5, <3>1 DEF KeysInList
        <4> QED
          BY <2>1, <2>2, <2>3, <4>1, KeyStays
      <3>2. CASE i = Len(lst_enc_data')
        BY <2>3, <2>4, <2>5, <3>2, KeyAtEnd
      <3> QED
        BY <2>4, <3>1, <3>2
    <2> QED
      BY <2>5 DEF KeysInList
  <1>8. CASE QueueAac
    <2> DEFINE e == [kind |-> "aac", old |-> FALSE]
    <2>1. lst_enc_data \in Seq(Entry) /\ e \in Entry
      BY <1>8 DEF QueueAac, DataOK, Entry, Kinds
    <2>2. lst_enc_data' = Append(lst_enc_data, e)
      BY <1>8 DEF QueueAac, Queue
    <2>3. /\ \/ e.kind \notin Slice /\ (video' \in KeyComes \/ video \notin KeyComes)
             \/ e.kind = "idr" \/ video \notin KeyComes
          /\ e.kind \in {"sps", "pps"} => video' \in KeyComes
      BY <1>8 DEF QueueAac, KeyComes, Slice
    <2> HIDE DEF e
    <2>4. /\ Len(lst_enc_data) \in Nat /\ Len(lst_enc_data') = Len(lst_enc_data) + 1
          /\ \A i \in 1..Len(lst_enc_data) : lst_enc_data'[i] = lst_enc_data[i]
          /\ lst_enc_data'[Len(lst_enc_data) + 1] = e
      BY <2>1, <2>2, Added
    <2>5. ASSUME NEW i \in 1..Len(lst_enc_data'), lst_enc_data'[i].kind \in {"sps", "pps"}
          PROVE  KeyNext(lst_enc_data', video', i + 1)
      <3>1. CASE i \in 1..Len(lst_enc_data)
        <4>1. KeyNext(lst_enc_data, video, i + 1) /\ i + 1 \in 1..Len(lst_enc_data) + 1
          BY <2>4, <2>5, <3>1 DEF KeysInList
        <4> QED
          BY <2>1, <2>2, <2>3, <4>1, KeyStays
      <3>2. CASE i = Len(lst_enc_data')
        BY <2>3, <2>4, <2>5, <3>2, KeyAtEnd
      <3> QED
        BY <2>4, <3>1, <3>2
    <2> QED
      BY <2>5 DEF KeysInList
  <1>9. CASE Join
    BY <1>9 DEF Join, KeysInList
  <1>10. CASE lst_enc_data' = lst_enc_data /\ video' = video
    BY <1>10 DEF KeysInList
  <1> QED
    BY <1>1, <1>2, <1>3, <1>4, <1>5, <1>6, <1>7, <1>8, <1>9, <1>10, ListChanges

\* What is taken from the list is followed by what was behind it.
LEMMA KeyBehindPacketStep ==
  ASSUME PushOK, DataOK, KeysInList(lst_enc_data, video), KeyBehindPacket, [Next]_vars
  PROVE  KeyBehindPacket'
PROOF
  <1>1. CASE Poll
    <2>1. Polled
      BY <1>1, PollIsPolled
    <2> QED
      BY <2>1 DEF Polled, KeyBehindPacket, push, feed, shared
  <1>2. CASE Advance("handshake", "Handshaked")
    BY <1>2 DEF Advance, KeyBehindPacket, push, feed, shared
  <1>3. CASE Advance("connect", "Connected")
    BY <1>3 DEF Advance, KeyBehindPacket, push, feed, shared
  <1>4. CASE PublishStream
    BY <1>4 DEF PublishStream, KeyBehindPacket, push, feed, shared
  <1>5. CASE Refuse
    BY <1>5 DEF Refuse, KeyBehindPacket, push, feed, shared
  <1>6. CASE Connected
    BY <1>6 DEF Connected, KeyBehindPacket, push, feed, shared
  <1>7. CASE ClearList
    BY <1>7 DEF ClearList, KeyBehindPacket, push, feed, shared
  <1>8. CASE OnRtmpConnected
    BY <1>8 DEF OnRtmpConnected, KeyBehindPacket, push, feed, shared
  <1>9. CASE Pop
    <2>1. video' = video
      BY <1>9 DEF Pop, feed
    <2>2. CASE lst_enc_data = <<>>
      BY <1>9, <2>2 DEF Pop, KeyBehindPacket
    <2>3. CASE lst_enc_data # <<>>
      <3>1. /\ lst_enc_data \in Seq(Entry) /\ lst_enc_data' = Tail(lst_enc_data)
            /\ packet' = Head(lst_enc_data)
        BY <1>9, <2>3 DEF DataOK, Pop
      <3>2. packet'.kind \in {"sps", "pps"} => KeyNext(lst_enc_data, video, 1 + 1)
        BY <2>3, <3>1, Taken DEF KeysInList
      <3> QED
        BY <2>1, <2>3, <3>1, <3>2, KeyShifts DEF KeyBehindPacket
    <2> QED
      BY <2>2, <2>3
  <1>10. CASE Write
    BY <1>10 DEF Write, KeyBehindPacket, push, feed, shared
  <1>11. CASE WriteFails
    BY <1>11 DEF WriteFails, KeyBehindPacket, push, feed, shared
  <1>12. CASE Drop
    BY <1>12 DEF Drop, KeyBehindPacket, push, feed, shared
  <1>13. CASE Retry
    BY <1>13 DEF Retry, KeyBehindPacket, push, feed, shared
  <1>14. CASE Report
    BY <1>14 DEF Report, KeyBehindPacket, push, feed, shared
  <1>15. CASE StopCapture
    BY <1>15 DEF StopCapture, KeyBehindPacket, push, feed, shared
  <1>16. CASE Close
    BY <1>16 DEF Close, KeyBehindPacket, push, feed, shared
  <1>17. CASE Disconnect
    BY <1>17 DEF Disconnect, KeyBehindPacket, push, feed, shared
  <1>18. CASE Join
    BY <1>18 DEF Join, KeyBehindPacket, push, feed, shared
  <1>19. CASE StopEncoder
    BY <1>19 DEF StopEncoder, KeyBehindPacket, push, feed, shared
  <1>20. CASE FeedStep
    BY <1>20, FeedKeepsKey, FeedLeavesPush DEF KeyBehindPacket
  <1>21. CASE UNCHANGED vars
    BY <1>21 DEF vars, KeyBehindPacket, push, feed, shared
  <1> QED
    BY <1>1, <1>2, <1>3, <1>4, <1>5, <1>6, <1>7, <1>8, <1>9, <1>10, <1>11, <1>12,
       <1>13, <1>14, <1>15, <1>16, <1>17, <1>18, <1>19, <1>20, <1>21
       DEF Next, PushStep, WorkerStep, FeedStep

\* A parameter set that was written waits for the key picture behind it.
LEMMA KeyBehindContextStep ==
  ASSUME PushOK, DataOK, Place, KeyBehindPacket, KeyBehindContext, [Next]_vars
  PROVE  KeyBehindContext'
PROOF
  <1>1. CASE Poll
    <2>1. Polled
      BY <1>1, PollIsPolled
    <2> QED
      BY <2>1
         DEF Polled, PushOK, Place, KeyBehindContext, Writing, Setup, push, feed,
             life, shared
  <1>2. CASE Advance("handshake", "Handshaked")
    BY <1>2
       DEF Advance, PushOK, Place, KeyBehindContext, Writing, Setup, push, feed,
           life, shared
  <1>3. CASE Advance("connect", "Connected")
    BY <1>3
       DEF Advance, PushOK, Place, KeyBehindContext, Writing, Setup, push, feed,
           life, shared
  <1>4. CASE PublishStream
    BY <1>4
       DEF PublishStream, PushOK, Place, KeyBehindContext, Writing, Setup, push,
           feed, life, shared
  <1>5. CASE Refuse
    BY <1>5
       DEF Refuse, PushOK, Place, KeyBehindContext, Writing, Setup, push, feed, life,
           shared
  <1>6. CASE Connected
    BY <1>6
       DEF Connected, PushOK, Place, KeyBehindContext, Writing, Setup, push, feed,
           life, shared
  <1>7. CASE ClearList
    BY <1>7
       DEF ClearList, PushOK, Place, KeyBehindContext, Writing, Setup, push, feed,
           life, shared
  <1>8. CASE OnRtmpConnected
    BY <1>8
       DEF OnRtmpConnected, PushOK, Place, KeyBehindContext, Writing, Setup, push,
           feed, life, shared
  <1>9. CASE Pop
    <2>1. video' = video /\ rtmp' = rtmp /\ rtmp_status' = rtmp_status /\ running' = running
      BY <1>9 DEF Pop, feed, life
    <2>2. rtmp.changed => KeyNext(lst_enc_data, video, 1)
      BY <1>9 DEF Pop, KeyBehindContext, Writing
    <2>3. CASE lst_enc_data = <<>>
      <3>1. running => rtmp_status = "Published"
        BY <1>9 DEF Pop, Place
      <3> QED
        BY <1>9, <2>1, <2>2, <2>3, <3>1 DEF Pop, KeyBehindContext, Setup
    <2>4. CASE lst_enc_data # <<>>
      <3>1. /\ lst_enc_data \in Seq(Entry) /\ lst_enc_data' = Tail(lst_enc_data)
            /\ packet' = Head(lst_enc_data) /\ pushing' = "write"
        BY <1>9, <2>4 DEF DataOK, Pop
      <3>2. rtmp.changed => \/ packet'.kind = "idr"
                            \/ /\ packet'.kind \notin Slice
                               /\ KeyNext(lst_enc_data, video, 1 + 1)
        BY <2>2, <2>4, <3>1, KeyAtHead
      <3>3. rtmp.changed => \/ packet'.kind = "idr"
                            \/ /\ packet'.kind \notin Slice
                               /\ KeyNext(lst_enc_data', video', 1)
        BY <2>1, <2>4, <3>1, <3>2, KeyShifts
      <3> QED
        BY <2>1, <3>1, <3>3 DEF KeyBehindContext, Setup
    <2> QED
      BY <2>3, <2>4
  <1>10. CASE Write
    <2>1. /\ pushing = "write" /\ pushing' = "loop" /\ rtmp' = Written(rtmp, packet.kind)
          /\ lst_enc_data' = lst_enc_data /\ video' = video
          /\ rtmp_status' = rtmp_status /\ running' = running
      BY <1>10 DEF Write, shared, feed, life
    <2>2. packet.kind \in Kinds /\ rtmp \in Context
      BY <2>1 DEF DataOK, Entry
    <2>3. rtmp'.changed =>
             packet.kind \in {"sps", "pps"} \/ (packet.kind = "aac" /\ rtmp.changed)
      BY <2>1, <2>2, WrittenSound
    <2>4. rtmp'.changed => KeyNext(lst_enc_data, video, 1)
      BY <2>1, <2>3 DEF KeyBehindPacket, KeyBehindContext, Writing
    <2>5. running => rtmp_status = "Published"
      BY <2>1 DEF Place
    <2> QED
      BY <2>1, <2>4, <2>5 DEF KeyBehindContext, Setup
  <1>11. CASE WriteFails
    BY <1>11
       DEF WriteFails, PushOK, Place, KeyBehindContext, Writing, Setup, push, feed,
           life, shared
  <1>12. CASE Drop
    BY <1>12
       DEF Drop, PushOK, Place, KeyBehindContext, Writing, Setup, push, feed, life,
           shared
  <1>13. CASE Retry
    <2>1. rtmp' \in {NoContext, Create(rtmp)}
      BY <1>13 DEF Retry
    <2>2. ~rtmp'.changed
      BY <2>1, NewContext
    <2> QED
      BY <2>2 DEF KeyBehindContext
  <1>14. CASE Report
    BY <1>14
       DEF Report, PushOK, Place, KeyBehindContext, Writing, Setup, push, feed, life,
           shared
  <1>15. CASE StopCapture
    BY <1>15
       DEF StopCapture, PushOK, Place, KeyBehindContext, Writing, Setup, push, feed,
           life, shared
  <1>16. CASE Close
    BY <1>16
       DEF Close, PushOK, Place, KeyBehindContext, Writing, Setup, push, feed, life,
           shared
  <1>17. CASE Disconnect
    BY <1>17
       DEF Disconnect, PushOK, Place, KeyBehindContext, Writing, Setup, push, feed,
           life, shared
  <1>18. CASE Join
    <2>1. ~rtmp'.changed
      BY <1>18, NewContext DEF Join
    <2> QED
      BY <2>1 DEF KeyBehindContext
  <1>19. CASE StopEncoder
    BY <1>19
       DEF StopEncoder, PushOK, Place, KeyBehindContext, Writing, Setup, push, feed,
           life, shared
  <1>20. CASE FeedStep
    BY <1>20, FeedKeepsKey, FeedLeavesPush
       DEF PushOK, Place, KeyBehindContext, Writing, Setup
  <1>21. CASE UNCHANGED vars
    BY <1>21
       DEF vars, PushOK, Place, KeyBehindContext, Writing, Setup, push, feed, life,
           shared
  <1> QED
    BY <1>1, <1>2, <1>3, <1>4, <1>5, <1>6, <1>7, <1>8, <1>9, <1>10, <1>11, <1>12,
       <1>13, <1>14, <1>15, <1>16, <1>17, <1>18, <1>19, <1>20, <1>21
       DEF Next, PushStep, WorkerStep, FeedStep

\* A header is sent with a key picture, so that delta pictures find one.
LEMMA SoundStep ==
  ASSUME PushOK, DataOK, KeyBehindContext, Sound, [Next]_vars
  PROVE  Sound'
PROOF
  <1>1. CASE Poll
    <2>1. Polled
      BY <1>1, PollIsPolled
    <2> QED
      BY <2>1 DEF Polled, Sound, push
  <1>2. CASE Advance("handshake", "Handshaked")
    BY <1>2 DEF Advance, Sound, push
  <1>3. CASE Advance("connect", "Connected")
    BY <1>3 DEF Advance, Sound, push
  <1>4. CASE PublishStream
    BY <1>4 DEF PublishStream, Sound, push
  <1>5. CASE Refuse
    BY <1>5 DEF Refuse, Sound, push
  <1>6. CASE Connected
    BY <1>6 DEF Connected, Sound, push
  <1>7. CASE ClearList
    BY <1>7 DEF ClearList, Sound, push
  <1>8. CASE OnRtmpConnected
    BY <1>8 DEF OnRtmpConnected, Sound, push
  <1>9. CASE Pop
    BY <1>9 DEF Pop, Sound, push
  <1>10. CASE Write
    <2>1. pushing = "write" /\ rtmp' = Written(rtmp, packet.kind)
      BY <1>10 DEF Write
    <2>2. packet.kind \in Kinds /\ rtmp \in Context
      BY <2>1 DEF DataOK, Entry
    <2>3. rtmp.changed => packet.kind # "p"
      BY <2>1 DEF KeyBehindContext, Writing, Slice
    <2> QED
      BY <2>1, <2>2, <2>3, WrittenSound DEF Sound
  <1>11. CASE WriteFails
    BY <1>11 DEF WriteFails, Sound, push
  <1>12. CASE Drop
    BY <1>12 DEF Drop, Sound, push
  <1>13. CASE Retry
    <2>1. rtmp' \in {NoContext, Create(rtmp)}
      BY <1>13 DEF Retry
    <2> QED
      BY <2>1, NewContext DEF Sound
  <1>14. CASE Report
    BY <1>14 DEF Report, Sound, push
  <1>15. CASE StopCapture
    BY <1>15 DEF StopCapture, Sound, push
  <1>16. CASE Close
    BY <1>16 DEF Close, Sound, push
  <1>17. CASE Disconnect
    BY <1>17 DEF Disconnect, Sound, push
  <1>18. CASE Join
    BY <1>18, NewContext DEF Join, Sound
  <1>19. CASE StopEncoder
    BY <1>19 DEF StopEncoder, Sound, push
  <1>20. CASE FeedStep
    BY <1>20, FeedKeepsKey, FeedLeavesPush DEF Sound
  <1>21. CASE UNCHANGED vars
    BY <1>21 DEF vars, Sound, push
  <1> QED
    BY <1>1, <1>2, <1>3, <1>4, <1>5, <1>6, <1>7, <1>8, <1>9, <1>10, <1>11, <1>12,
       <1>13, <1>14, <1>15, <1>16, <1>17, <1>18, <1>19, <1>20, <1>21
       DEF Next, PushStep, WorkerStep, FeedStep

-----------------------------------------------------------------------------
(* The theorems.                                                           *)

\* A stream starts with all parts of the invariant.
LEMMA InitPush == Init => PushInv
PROOF
  <1> SUFFICES ASSUME Init PROVE PushInv
    OBVIOUS
  <1>1. PushOK /\ FeedOK /\ LifeOK
    <2>1. 0 \in 0..MaxRetry + 1 /\ 0 \in 0..MaxFrames
      BY PushAssumption
    <2>2. PushOK
      BY <2>1 DEF Init, PushOK
    <2>3. FeedOK
      BY <2>1 DEF Init, FeedOK
    <2>4. LifeOK
      BY DEF Init, LifeOK
    <2> QED
      BY <2>2, <2>3, <2>4
  <1>2. DataOK
    <2>1. rtmp \in Context
      BY NewContext DEF Init
    <2> QED
      BY <2>1 DEF Init, DataOK
  <1>3. Place /\ Count /\ Encoding
    BY PushAssumption DEF Init, Place, Count, Encoding, Setup
  <1>4. Story
    BY DEF Init, Story
  <1>5. Fresh
    BY DEF Init, Fresh, Nothing
  <1>6. ~rtmp.changed /\ ~rtmp.sent /\ rtmp.shown = "nothing"
    BY NewContext DEF Init
  <1>7. KeysFirst
    BY <1>6 DEF Init, KeysFirst, KeysInList, KeyBehindPacket, KeyBehindContext, Sound
  <1> QED
    BY <1>1, <1>2, <1>3, <1>4, <1>5, <1>7 DEF PushInv, TypeOK

\* Every step keeps them.
LEMMA StepKeepsPush == PushInv /\ [Next]_vars => PushInv'
PROOF
  <1> SUFFICES ASSUME PushInv, [Next]_vars PROVE PushInv'
    OBVIOUS
  <1>1. /\ PushOK /\ FeedOK /\ LifeOK /\ DataOK
        /\ Place /\ Count /\ Story /\ Encoding /\ Fresh
        /\ KeysInList(lst_enc_data, video) /\ KeyBehindPacket /\ KeyBehindContext /\ Sound
    BY DEF PushInv, TypeOK, KeysFirst
  <1>2. PushOK' /\ FeedOK' /\ LifeOK' /\ DataOK'
    BY <1>1, PushOKStep, FeedOKStep, LifeOKStep, DataOKStep
  <1>3. Place' /\ Count' /\ Story' /\ Encoding' /\ Fresh'
    BY <1>1, PlaceStep, CountStep, StoryStep, EncodingStep, FreshStep
  <1>4. KeysFirst'
    BY <1>1, KeysInListStep, KeyBehindPacketStep, KeyBehindContextStep, SoundStep
       DEF KeysFirst
  <1> QED
    BY <1>2, <1>3, <1>4 DEF PushInv, TypeOK

\* The invariant of the push thread holds always, however calls to the server
\* end, whatever the encoders queue and whenever the stream is stopped.
THEOREM PushAlwaysConsistent == Spec => []PushInv
PROOF
  BY InitPush, StepKeepsPush, PTL DEF Spec

\* Every field always holds what the code stores there; in particular the count
\* of attempts stays within MaxRetry + 1.
THEOREM TypeCorrect == Spec => []TypeOK
PROOF
  <1>1. PushInv => TypeOK
    BY DEF PushInv
  <1> QED
    BY <1>1, PushAlwaysConsistent, PTL

\* Nothing that was queued while there was no stream is sent on the next one.
THEOREM NeverStale == Spec => []NothingStale
PROOF
  <1>1. PushInv => NothingStale
    BY DEF PushInv, Fresh, NothingStale
  <1> QED
    BY <1>1, PushAlwaysConsistent, PTL

\* On every connection the first picture the server can show is a key picture.
THEOREM NeverGarbled == Spec => []NothingGarbled
PROOF
  <1>1. PushInv => NothingGarbled
    BY DEF PushInv, KeysFirst, Sound, NothingGarbled
  <1> QED
    BY <1>1, PushAlwaysConsistent, PTL

\* The encoders run while the stream is published and rest while it is not, and
\* for good when it is stopped.
THEOREM EncodersAlwaysFollow == Spec => []EncodersFollowStream
PROOF
  <1>1. PushInv => EncodersFollowStream
    BY DEF PushInv, Encoding, EncodersFollowStream, TypeOK, FeedOK
  <1> QED
    BY <1>1, PushAlwaysConsistent, PTL

\* A step of the push thread is a callback of StreamStatus, or none.
LEMMA StepReports ==
  ASSUME PushInv, [Next]_vars
  PROVE  [Status!Next]_<<told, times>>
PROOF
  <1>1. PushOK /\ Count /\ Story
    BY DEF PushInv, TypeOK
  <1>2. CASE OnRtmpConnected
    <2>1. told \in {"nothing", "reconnecting"}
      BY <1>1, <1>2 DEF OnRtmpConnected, PushOK, Story, Setup
    <2> QED
      BY <1>2, <2>1 DEF OnRtmpConnected, Status!Next, Status!Ok
  <1>3. CASE Report
    <2>1. told # "failed" /\ retrys = times + 1 /\ times' = retrys
      BY <1>1, <1>3 DEF Report, Count, Story
    <2>2. times \in 0..MaxRetry + 1
      BY <1>1 DEF PushOK
    <2>3. CASE pushing = "again"
      <3>1. times + 1 <= MaxRetry
        BY <1>1, <2>1, <2>3 DEF Count
      <3>2. times < MaxRetry
        BY <2>2, <3>1, PushAssumption
      <3> QED
        BY <1>3, <2>1, <2>3, <3>2 DEF Report, Status!Next, Status!Reconnecting
    <2>4. CASE pushing = "give up"
      <3>1. times + 1 = MaxRetry + 1
        BY <1>1, <2>1, <2>4 DEF Count
      <3>2. times = MaxRetry
        BY <2>2, <3>1, PushAssumption
      <3> QED
        BY <1>3, <2>1, <2>4, <3>2 DEF Report, Status!Next, Status!Failed
    <2> QED
      BY <1>3, <2>3, <2>4 DEF Report
  <1>4. CASE PushStep /\ ~OnRtmpConnected /\ ~Report
    BY <1>4 DEF PushStep, Poll, Advance, PublishStream, Refuse, Connected, ClearList,
                Pop, Write, WriteFails, Drop, Retry, heard
  <1>5. CASE FeedStep
    BY <1>5 DEF FeedStep, VideoStep, AudioStep, Camera, Encode, DeliverVideo,
                CheckVideo, QueueNal, Record, DeliverAudio, QueueAac, heard
  <1>6. CASE StopCapture \/ WorkerStep
    BY <1>6 DEF StopCapture, WorkerStep, Close, Disconnect, Join, StopEncoder, heard
  <1>7. CASE UNCHANGED vars
    BY <1>7 DEF vars, heard
  <1> QED
    BY <1>2, <1>3, <1>4, <1>5, <1>6, <1>7 DEF Next, FeedStep

\* What the application is told is a history StreamStatus allows, however many
\* attempts it grants.
THEOREM ReportsAlwaysOrderly == Spec => ReportsStatus
PROOF
  <1>1. Init => Status!Init
    BY DEF Init, Status!Init
  <1>2. PushInv /\ [Next]_vars => [Status!Next]_<<told, times>>
    BY StepReports
  <1> QED
    BY <1>1, <1>2, PushAlwaysConsistent, PTL DEF Spec, ReportsStatus, Status!Spec
===============================================================================
