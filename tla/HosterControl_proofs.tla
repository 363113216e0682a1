------------------------- MODULE HosterControl_proofs -------------------------
(***************************************************************************)
(* Proofs about RtmpHosterImpl, for every number of starts.  Only the      *)
(* theorem about circles assumes that the application waits; the history   *)
(* variables say in which cases the others promise less.                   *)
(***************************************************************************)
EXTENDS HosterControl, SequenceTheorems, TLAPS

\* The start messages that are not yet due are those that were sent.
Sent == IF pc["app"] = "start record" THEN delayed < starts ELSE delayed <= starts

\* The recorder has a callback only between the start and the end of a stop.
Recording ==
    recording => \/ started /\ pc["app"] \in {"ready", "invoke"}
                 \/ pc["app"] \in {"stop record", "last stop"}

\* A start that is being carried out was asked for.
Starting == pc["app"] = "start record" => started

\* It delivers only while it has a callback, for StopAudioRecord waits for it.
Delivering ==
    pc["recorder"] # "idle" => recording /\ lock["record"] = "recorder"

\* Where there is no AnyRtmpPush there is no push thread.
Joined == av_rtmp = "none" => pc["push"] = "exit"

\* The places of the destructor behind the end of the streamer, one by one.
Destroying ==
    /\ pc["app"] \in {"delete push", "join push", "clear queue", "gone"} <=> ~streamer
    /\ pc["app"] = "gone" => delayed = 0 /\ msgq = <<>>

\* The destructor up to its own StopStream, and behind it.
Stopped == {"stop encoder", "delete", "delete push", "join push", "clear queue", "gone"}
Ending == {"last stop", "stop stream", "join"} \cup Stopped

StartQueued(q) == \E i \in 1..Len(q) : q[i] = "start"

\* A destruction that began with no start unhandled meets none, and nothing makes
\* an AnyRtmpPush behind its StopStream.
Startless ==
    pc["app"] \in Ending /\ unhandled # "start" =>
        /\ delayed = 0 /\ ~StartQueued(msgq)
        /\ pc["worker"] \notin {"start stream", "enable video"}
        /\ pc["app"] \in Stopped => av_rtmp = "none"

\* One that began with nothing unhandled has the streamer to itself.
Alone ==
    pc["app"] \in Ending /\ unhandled = "nothing" =>
        msgq = <<>> /\ pc["worker"] = "idle" /\ pc["app"] # "last stop"

\* Only a use of the deleted streamer ends the process.
Crashing == crashed => ~streamer /\ unhandled # "nothing"

\* What a stop that overtook no start leaves to the worker: it is the last message
\* of all, and ends the push thread and then the encoder.
Stopping ==
    ~started /\ ~overtaking /\ pc["app"] = "ready" =>
        /\ delayed = 0
        /\ msgq # <<>> => msgq[Len(msgq)] = "stop"
        /\ msgq = <<>> =>
              /\ pc["worker"] \notin {"start stream", "enable video"}
              /\ pc["worker"] \in {"idle", "stop encoder"} => av_rtmp = "none"
              /\ pc["worker"] = "idle" => ~encoded

-----------------------------------------------------------------------------
(* Every step keeps every part.                                            *)

\* What posting and handing out messages does to the starts in the queue, ...
LEMMA StartsInQueue ==
  ASSUME NEW q \in Seq({"start", "stop"})
  PROVE  /\ StartQueued(Append(q, "stop")) => StartQueued(q)
         /\ q # <<>> /\ Head(q) = "start" => StartQueued(q)
         /\ q # <<>> /\ StartQueued(Tail(q)) => StartQueued(q)
         /\ ~StartQueued(<<>>)
PROOF
  <1>1. StartQueued(Append(q, "stop")) => StartQueued(q)
    BY DEF StartQueued
  <1>2. q # <<>> => 1 \in 1..Len(q) /\ Head(q) = q[1]
    OBVIOUS
  <1>3. q # <<>> /\ Head(q) = "start" => StartQueued(q)
    BY <1>2 DEF StartQueued
  <1>4. ASSUME q # <<>>, NEW i \in 1..Len(Tail(q)), Tail(q)[i] = "start"
        PROVE  StartQueued(q)
    <2>1. i + 1 \in 1..Len(q) /\ q[i + 1] = "start"
      BY <1>4
    <2> QED
      BY <2>1 DEF StartQueued
  <1>5. q # <<>> /\ StartQueued(Tail(q)) => StartQueued(q)
    BY <1>4 DEF StartQueued
  <1>6. ~StartQueued(<<>>)
    BY DEF StartQueued
  <1> QED
    BY <1>1, <1>3, <1>5, <1>6

\* ... and to its last message.
LEMMA LastInQueue ==
  ASSUME NEW q \in Seq({"start", "stop"})
  PROVE  /\ Append(q, "stop") # <<>> /\ Append(q, "stop")[Len(Append(q, "stop"))] = "stop"
         /\ q # <<>> /\ Tail(q) # <<>> => Tail(q)[Len(Tail(q))] = q[Len(q)]
         /\ q # <<>> /\ Tail(q) = <<>> => Head(q) = q[Len(q)]
PROOF
  <1>1. Append(q, "stop") # <<>> /\ Append(q, "stop")[Len(Append(q, "stop"))] = "stop"
    BY AppendProperties
  <1>2. ASSUME q # <<>>
        PROVE  /\ Tail(q) # <<>> => Tail(q)[Len(Tail(q))] = q[Len(q)]
               /\ Tail(q) = <<>> => Head(q) = q[Len(q)]
    <2>1. Len(q) \in Nat /\ Len(q) # 0 /\ Head(q) = q[1]
      BY <1>2, EmptySeq
    <2>2. CASE Len(q) = 1
      <3>1. Tail(q) = <<>>
        BY <1>2, <2>2
      <3> QED
        BY <2>1, <2>2, <3>1
    <2>3. CASE Len(q) > 1
      <3>1. Tail(q)[Len(q) - 1] = q[Len(q)] /\ Len(Tail(q)) = Len(q) - 1
        BY <1>2, <2>1, <2>3
      <3>2. Tail(q) \in Seq({"start", "stop"}) /\ Len(Tail(q)) # 0
        BY <1>2, <2>1, <2>3, <3>1, HeadTailProperties
      <3>3. Tail(q) # <<>>
        BY <3>2, EmptySeq
      <3> QED
        BY <3>1, <3>3
    <2> QED
      BY <2>1, <2>2, <2>3
  <1> QED
    BY <1>1, <1>2

\* Threads and locks stay within what the code has.
LEMMA ThreadsStep ==
  ASSUME ThreadsOK, [Next]_vars
  PROVE  ThreadsOK'
PROOF
  <1>1. CASE StartRtmpStream
    BY <1>1 DEF StartRtmpStream, Go, Free, ThreadsOK, Places
  <1>2. CASE StopRtmpStream
    BY <1>2 DEF StopRtmpStream, Go, Free, ThreadsOK, Places
  <1>3. CASE Clear
    BY <1>3 DEF Clear, Go, Free, ThreadsOK, Places
  <1>4. CASE StartRecord
    BY <1>4 DEF StartRecord, Go, Free, ThreadsOK, Places
  <1>5. CASE StopRecord("stop record", "ready")
    BY <1>5 DEF StopRecord, Go, Free, ThreadsOK, Places
  <1>6. CASE StopRecord("last stop", "stop stream")
    BY <1>6 DEF StopRecord, Go, Free, ThreadsOK, Places
  <1>7. CASE ReceiveSends
    BY <1>7 DEF ReceiveSends, Go, Free, ThreadsOK, Places
  <1>8. CASE StopStream("app")
    <2>1. pc' \in [Threads -> Places]
      BY <1>8 DEF StopStream, Go, ThreadsOK, Places
    <2>2. lock' \in [Locks -> Threads \cup {"free"}]
      BY <1>8 DEF StopStream, Free, ThreadsOK, Threads
    <2> QED
      BY <2>1, <2>2 DEF ThreadsOK
  <1>9. CASE Join("app")
    BY <1>9 DEF Join, Go, Free, ThreadsOK, Places
  <1>10. CASE StopEncoder("app")
    BY <1>10 DEF StopEncoder, After, Go, Free, ThreadsOK, Places
  <1>11. CASE DeleteEncoders
    BY <1>11 DEF DeleteEncoders, Go, Free, ThreadsOK, Places
  <1>12. CASE DeletePush
    BY <1>12 DEF DeletePush, Go, Free, ThreadsOK, Places
  <1>13. CASE JoinPush
    BY <1>13 DEF JoinPush, Go, Free, ThreadsOK, Places
  <1>14. CASE ClearQueue
    BY <1>14 DEF ClearQueue, Go, Free, ThreadsOK, Places
  <1>15. CASE Due
    BY <1>15 DEF Due, Go, Free, ThreadsOK, Places
  <1>16. CASE OnMessage
    BY <1>16 DEF OnMessage, Go, Free, ThreadsOK, Places
  <1>17. CASE StartStream
    BY <1>17 DEF StartStream, Go, Free, ThreadsOK, Places
  <1>18. CASE SetVideoEnable
    BY <1>18 DEF SetVideoEnable, Go, Free, ThreadsOK, Places
  <1>19. CASE StopStream("worker")
    <2>1. pc' \in [Threads -> Places]
      BY <1>19 DEF StopStream, Go, ThreadsOK, Places
    <2>2. lock' \in [Locks -> Threads \cup {"free"}]
      BY <1>19 DEF StopStream, Free, ThreadsOK, Threads
    <2> QED
      BY <2>1, <2>2 DEF ThreadsOK
  <1>20. CASE Join("worker")
    BY <1>20 DEF Join, Go, Free, ThreadsOK, Places
  <1>21. CASE StopEncoder("worker")
    BY <1>21 DEF StopEncoder, After, Go, Free, ThreadsOK, Places
  <1>22. CASE Record
    <2>1. pc' \in [Threads -> Places]
      BY <1>22 DEF Record, Go, ThreadsOK, Places
    <2>2. lock' \in [Locks -> Threads \cup {"free"}]
      BY <1>22 DEF Record, Free, ThreadsOK, Threads
    <2> QED
      BY <2>1, <2>2 DEF ThreadsOK
  <1>23. CASE OnData
    <2>1. pc' \in [Threads -> Places]
      BY <1>23 DEF OnData, Go, ThreadsOK, Places
    <2>2. lock' \in [Locks -> Threads \cup {"free"}]
      BY <1>23 DEF OnData, ThreadsOK, Threads
    <2> QED
      BY <2>1, <2>2 DEF ThreadsOK
  <1>24. CASE OnAACData
    BY <1>24 DEF OnAACData, Go, Free, ThreadsOK, Places
  <1>25. CASE Turn
    <2>1. PICK to \in {"exit", "connected", "lost"} : Go("push", "loop", to)
      BY <1>25 DEF Turn
    <2> QED
      BY <1>25, <2>1 DEF Turn, Go, ThreadsOK, Places
  <1>26. CASE Callback
    BY <1>26 DEF Callback, Go, Free, ThreadsOK, Places
  <1>27. CASE Crash
    BY <1>27 DEF Crash, ThreadsOK, Places
  <1>28. CASE UNCHANGED vars
    BY <1>28 DEF vars, ThreadsOK, Places
  <1> QED
    BY <1>1, <1>2, <1>3, <1>4, <1>5, <1>6, <1>7, <1>8, <1>9, <1>10, <1>11, <1>12,
       <1>13, <1>14, <1>15, <1>16, <1>17, <1>18, <1>19, <1>20, <1>21, <1>22, <1>23,
       <1>24, <1>25, <1>26, <1>27, <1>28
       DEF Next, Call, AppStep, WorkerStep, StopSteps, RecorderStep, PushStep

\* So do the fields of the stream, ...
LEMMA StreamStep ==
  ASSUME ThreadsOK, StreamOK, [Next]_vars
  PROVE  StreamOK'
PROOF
  <1>1. CASE StartRtmpStream
    BY <1>1 DEF StartRtmpStream, Go, Free, StreamOK, calls, stream
  <1>2. CASE StopRtmpStream
    BY <1>2 DEF StopRtmpStream, Go, Free, StreamOK, calls, stream
  <1>3. CASE Clear
    BY <1>3 DEF Clear, Go, Free, StreamOK, calls, stream
  <1>4. CASE StartRecord
    BY <1>4 DEF StartRecord, Go, Free, StreamOK, calls, stream
  <1>5. CASE StopRecord("stop record", "ready")
    BY <1>5 DEF StopRecord, Go, Free, StreamOK, calls, stream
  <1>6. CASE StopRecord("last stop", "stop stream")
    BY <1>6 DEF StopRecord, Go, Free, StreamOK, calls, stream
  <1>7. CASE ReceiveSends
    BY <1>7 DEF ReceiveSends, Go, Free, StreamOK, calls, stream
  <1>8. CASE StopStream("app")
    BY <1>8 DEF StopStream, Go, Free, StreamOK, calls, stream
  <1>9. CASE Join("app")
    BY <1>9 DEF Join, Go, Free, StreamOK, calls, stream
  <1>10. CASE StopEncoder("app")
    BY <1>10 DEF StopEncoder, After, Go, Free, StreamOK, calls, stream
  <1>11. CASE DeleteEncoders
    BY <1>11 DEF DeleteEncoders, Go, Free, StreamOK, calls, stream
  <1>12. CASE DeletePush
    BY <1>12 DEF DeletePush, Go, Free, StreamOK, calls, stream
  <1>13. CASE JoinPush
    BY <1>13 DEF JoinPush, Go, Free, StreamOK, calls, stream
  <1>14. CASE ClearQueue
    BY <1>14 DEF ClearQueue, Go, Free, StreamOK, calls, stream
  <1>15. CASE Due
    BY <1>15 DEF Due, Go, Free, StreamOK, calls, stream
  <1>16. CASE OnMessage
    BY <1>16 DEF OnMessage, Go, Free, StreamOK, calls, stream
  <1>17. CASE StartStream
    BY <1>17 DEF StartStream, Go, Free, StreamOK, calls, stream
  <1>18. CASE SetVideoEnable
    BY <1>18 DEF SetVideoEnable, Go, Free, StreamOK, calls, stream
  <1>19. CASE StopStream("worker")
    BY <1>19 DEF StopStream, Go, Free, StreamOK, calls, stream
  <1>20. CASE Join("worker")
    BY <1>20 DEF Join, Go, Free, StreamOK, calls, stream
  <1>21. CASE StopEncoder("worker")
    BY <1>21 DEF StopEncoder, After, Go, Free, StreamOK, calls, stream
  <1>22. CASE Record
    BY <1>22 DEF Record, Go, Free, StreamOK, calls, stream
  <1>23. CASE OnData
    BY <1>23 DEF OnData, Go, Free, StreamOK, calls, stream
  <1>24. CASE OnAACData
    BY <1>24 DEF OnAACData, Go, Free, StreamOK, calls, stream
  <1>25. CASE Turn
    BY <1>25 DEF Turn, Go, Free, StreamOK, calls, stream
  <1>26. CASE Callback
    BY <1>26 DEF Callback, Go, Free, StreamOK, calls, stream
  <1>27. CASE Crash
    BY <1>27 DEF Crash, StreamOK, calls, stream
  <1>28. CASE UNCHANGED vars
    BY <1>28 DEF vars, StreamOK, calls, stream
  <1> QED
    BY <1>1, <1>2, <1>3, <1>4, <1>5, <1>6, <1>7, <1>8, <1>9, <1>10, <1>11, <1>12,
       <1>13, <1>14, <1>15, <1>16, <1>17, <1>18, <1>19, <1>20, <1>21, <1>22, <1>23,
       <1>24, <1>25, <1>26, <1>27, <1>28
       DEF Next, Call, AppStep, WorkerStep, StopSteps, RecorderStep, PushStep

\* ... and the queue, which never holds more starts than were asked for.
LEMMA QueueStep ==
  ASSUME Sent, QueueOK, [Next]_vars
  PROVE  QueueOK'
PROOF
  <1>1. CASE StartRtmpStream
    <2>1. /\ starts' = starts + 1 /\ starts < MaxStarts
          /\ delayed' = delayed /\ msgq' = msgq
      BY <1>1 DEF StartRtmpStream, queue
    <2>2. starts \in 0..MaxStarts
      BY DEF QueueOK
    <2>3. starts' \in 0..MaxStarts
      BY <2>1, <2>2, HosterAssumption
    <2> QED
      BY <2>1, <2>3 DEF QueueOK
  <1>2. CASE StopRtmpStream
    BY <1>2 DEF StopRtmpStream, Go, Free, QueueOK, calls, queue
  <1>3. CASE Clear
    BY <1>3 DEF Clear, Go, Free, QueueOK, calls, queue
  <1>4. CASE StartRecord
    <2>1. /\ delayed' = delayed + 1 /\ delayed < starts
          /\ starts' = starts /\ msgq' = msgq
      BY <1>4 DEF StartRecord, Go, Sent
    <2>2. starts \in 0..MaxStarts /\ delayed \in 0..MaxStarts
      BY DEF QueueOK
    <2>3. delayed' \in 0..MaxStarts
      BY <2>1, <2>2, HosterAssumption
    <2> QED
      BY <2>1, <2>3 DEF QueueOK
  <1>5. CASE StopRecord("stop record", "ready")
    <2>1. msgq' = Append(msgq, "stop") /\ delayed' = delayed /\ starts' = starts
      BY <1>5 DEF StopRecord
    <2>2. msgq' \in Seq({"start", "stop"})
      BY <2>1, AppendProperties DEF QueueOK
    <2> QED
      BY <2>1, <2>2 DEF QueueOK
  <1>6. CASE StopRecord("last stop", "stop stream")
    <2>1. msgq' = Append(msgq, "stop") /\ delayed' = delayed /\ starts' = starts
      BY <1>6 DEF StopRecord
    <2>2. msgq' \in Seq({"start", "stop"})
      BY <2>1, AppendProperties DEF QueueOK
    <2> QED
      BY <2>1, <2>2 DEF QueueOK
  <1>7. CASE ReceiveSends
    BY <1>7 DEF ReceiveSends, Go, Free, QueueOK, calls, queue
  <1>8. CASE StopStream("app")
    BY <1>8 DEF StopStream, Go, Free, QueueOK, calls, queue
  <1>9. CASE Join("app")
    BY <1>9 DEF Join, Go, Free, QueueOK, calls, queue
  <1>10. CASE StopEncoder("app")
    BY <1>10 DEF StopEncoder, After, Go, Free, QueueOK, calls, queue
  <1>11. CASE DeleteEncoders
    BY <1>11 DEF DeleteEncoders, Go, Free, QueueOK, calls, queue
  <1>12. CASE DeletePush
    BY <1>12 DEF DeletePush, Go, Free, QueueOK, calls, queue
  <1>13. CASE JoinPush
    BY <1>13 DEF JoinPush, Go, Free, QueueOK, calls, queue
  <1>14. CASE ClearQueue
    <2>1. delayed' = 0 /\ msgq' = <<>> /\ starts' = starts
      BY <1>14 DEF ClearQueue, calls
    <2>2. 0 \in 0..MaxStarts
      BY HosterAssumption
    <2> QED
      BY <2>1, <2>2 DEF QueueOK
  <1>15. CASE Due
    <2>1. /\ delayed' = delayed - 1 /\ delayed > 0 /\ starts' = starts
          /\ msgq' = Append(msgq, "start")
      BY <1>15 DEF Due, calls
    <2>2. delayed \in 0..MaxStarts
      BY DEF QueueOK
    <2>3. delayed' \in 0..MaxStarts
      BY <2>1, <2>2, HosterAssumption
    <2>4. msgq' \in Seq({"start", "stop"})
      BY <2>1, AppendProperties DEF QueueOK
    <2> QED
      BY <2>1, <2>3, <2>4 DEF QueueOK
  <1>16. CASE OnMessage
    <2>1. /\ delayed' = delayed /\ starts' = starts
          /\ msgq # <<>> /\ msgq' = Tail(msgq)
      BY <1>16 DEF OnMessage, calls
    <2>2. msgq' \in Seq({"start", "stop"})
      BY <2>1, HeadTailProperties DEF QueueOK
    <2> QED
      BY <2>1, <2>2 DEF QueueOK
  <1>17. CASE StartStream
    BY <1>17 DEF StartStream, Go, Free, QueueOK, calls, queue
  <1>18. CASE SetVideoEnable
    BY <1>18 DEF SetVideoEnable, Go, Free, QueueOK, calls, queue
  <1>19. CASE StopStream("worker")
    BY <1>19 DEF StopStream, Go, Free, QueueOK, calls, queue
  <1>20. CASE Join("worker")
    BY <1>20 DEF Join, Go, Free, QueueOK, calls, queue
  <1>21. CASE StopEncoder("worker")
    BY <1>21 DEF StopEncoder, After, Go, Free, QueueOK, calls, queue
  <1>22. CASE Record
    BY <1>22 DEF Record, Go, Free, QueueOK, calls, queue
  <1>23. CASE OnData
    BY <1>23 DEF OnData, Go, Free, QueueOK, calls, queue
  <1>24. CASE OnAACData
    BY <1>24 DEF OnAACData, Go, Free, QueueOK, calls, queue
  <1>25. CASE Turn
    BY <1>25 DEF Turn, Go, Free, QueueOK, calls, queue
  <1>26. CASE Callback
    BY <1>26 DEF Callback, Go, Free, QueueOK, calls, queue
  <1>27. CASE Crash
    BY <1>27 DEF Crash, QueueOK, calls, queue
  <1>28. CASE UNCHANGED vars
    BY <1>28 DEF vars, QueueOK, calls, queue
  <1> QED
    BY <1>1, <1>2, <1>3, <1>4, <1>5, <1>6, <1>7, <1>8, <1>9, <1>10, <1>11, <1>12,
       <1>13, <1>14, <1>15, <1>16, <1>17, <1>18, <1>19, <1>20, <1>21, <1>22, <1>23,
       <1>24, <1>25, <1>26, <1>27, <1>28
       DEF Next, Call, AppStep, WorkerStep, StopSteps, RecorderStep, PushStep

\* Each start sends one message.
LEMMA SentStep ==
  ASSUME ThreadsOK, QueueOK, Sent, [Next]_vars
  PROVE  Sent'
PROOF
  <1>1. CASE StartRtmpStream
    <2>1. /\ starts' = starts + 1 /\ delayed' = delayed /\ delayed <= starts
      BY <1>1 DEF StartRtmpStream, Go, Sent, queue
    <2>2. delayed' < starts'
      BY <2>1, HosterAssumption DEF QueueOK
    <2>3. delayed' <= starts'
      BY <2>1, HosterAssumption DEF QueueOK
    <2> QED
      BY <2>2, <2>3 DEF Sent
  <1>2. CASE StopRtmpStream
    BY <1>2 DEF StopRtmpStream, Go, Free, ThreadsOK, Threads, Sent, calls, queue
  <1>3. CASE Clear
    BY <1>3 DEF Clear, Go, Free, ThreadsOK, Threads, Sent, calls, queue
  <1>4. CASE StartRecord
    <2>1. /\ delayed' = delayed + 1 /\ delayed < starts /\ starts' = starts
          /\ pc'["app"] = "ready"
      BY <1>4 DEF StartRecord, Go, Sent, ThreadsOK, Threads
    <2>2. delayed' <= starts'
      BY <2>1, HosterAssumption DEF QueueOK
    <2> QED
      BY <2>1, <2>2 DEF Sent
  <1>5. CASE StopRecord("stop record", "ready")
    BY <1>5 DEF StopRecord, Go, Free, ThreadsOK, Threads, Sent, calls, queue
  <1>6. CASE StopRecord("last stop", "stop stream")
    BY <1>6 DEF StopRecord, Go, Free, ThreadsOK, Threads, Sent, calls, queue
  <1>7. CASE ReceiveSends
    BY <1>7 DEF ReceiveSends, Go, Free, ThreadsOK, Threads, Sent, calls, queue
  <1>8. CASE StopStream("app")
    BY <1>8 DEF StopStream, Go, Free, ThreadsOK, Threads, Sent, calls, queue
  <1>9. CASE Join("app")
    BY <1>9 DEF Join, Go, Free, ThreadsOK, Threads, Sent, calls, queue
  <1>10. CASE StopEncoder("app")
    BY <1>10 DEF StopEncoder, After, Go, Free, ThreadsOK, Threads, Sent, calls, queue
  <1>11. CASE DeleteEncoders
    BY <1>11 DEF DeleteEncoders, Go, Free, ThreadsOK, Threads, Sent, calls, queue
  <1>12. CASE DeletePush
    BY <1>12 DEF DeletePush, Go, Free, ThreadsOK, Threads, Sent, calls, queue
  <1>13. CASE JoinPush
    BY <1>13 DEF JoinPush, Go, Free, ThreadsOK, Threads, Sent, calls, queue
  <1>14. CASE ClearQueue
    <2>1. delayed' = 0 /\ starts' = starts /\ pc'["app"] = "gone"
      BY <1>14 DEF ClearQueue, Go, ThreadsOK, Threads, calls
    <2>2. 0 <= starts
      BY HosterAssumption DEF QueueOK
    <2> QED
      BY <2>1, <2>2 DEF Sent
  <1>15. CASE Due
    <2>1. delayed' = delayed - 1 /\ delayed > 0 /\ starts' = starts /\ pc' = pc
      BY <1>15 DEF Due, calls
    <2>2. delayed < starts => delayed' < starts'
      BY <2>1, HosterAssumption DEF QueueOK
    <2>3. delayed <= starts => delayed' <= starts'
      BY <2>1, HosterAssumption DEF QueueOK
    <2> QED
      BY <2>1, <2>2, <2>3 DEF Sent
  <1>16. CASE OnMessage
    BY <1>16 DEF OnMessage, Go, Free, ThreadsOK, Threads, Sent, calls, queue
  <1>17. CASE StartStream
    BY <1>17 DEF StartStream, Go, Free, ThreadsOK, Threads, Sent, calls, queue
  <1>18. CASE SetVideoEnable
    BY <1>18 DEF SetVideoEnable, Go, Free, ThreadsOK, Threads, Sent, calls, queue
  <1>19. CASE StopStream("worker")
    BY <1>19 DEF StopStream, Go, Free, ThreadsOK, Threads, Sent, calls, queue
  <1>20. CASE Join("worker")
    BY <1>20 DEF Join, Go, Free, ThreadsOK, Threads, Sent, calls, queue
  <1>21. CASE StopEncoder("worker")
    BY <1>21 DEF StopEncoder, After, Go, Free, ThreadsOK, Threads, Sent, calls, queue
  <1>22. CASE Record
    BY <1>22 DEF Record, Go, Free, ThreadsOK, Threads, Sent, calls, queue
  <1>23. CASE OnData
    BY <1>23 DEF OnData, Go, Free, ThreadsOK, Threads, Sent, calls, queue
  <1>24. CASE OnAACData
    BY <1>24 DEF OnAACData, Go, Free, ThreadsOK, Threads, Sent, calls, queue
  <1>25. CASE Turn
    BY <1>25 DEF Turn, Go, Free, ThreadsOK, Threads, Sent, calls, queue
  <1>26. CASE Callback
    BY <1>26 DEF Callback, Go, Free, ThreadsOK, Threads, Sent, calls, queue
  <1>27. CASE Crash
    BY <1>27 DEF Crash, ThreadsOK, Threads, Sent, calls, queue
  <1>28. CASE UNCHANGED vars
    BY <1>28 DEF vars, ThreadsOK, Threads, Sent, calls, queue
  <1> QED
    BY <1>1, <1>2, <1>3, <1>4, <1>5, <1>6, <1>7, <1>8, <1>9, <1>10, <1>11, <1>12,
       <1>13, <1>14, <1>15, <1>16, <1>17, <1>18, <1>19, <1>20, <1>21, <1>22, <1>23,
       <1>24, <1>25, <1>26, <1>27, <1>28
       DEF Next, Call, AppStep, WorkerStep, StopSteps, RecorderStep, PushStep

\* A stop takes the callback away before it tells the worker.
LEMMA RecordingStep ==
  ASSUME ThreadsOK, Starting, Recording, [Next]_vars
  PROVE  Recording'
PROOF
  <1>1. CASE StartRtmpStream
    BY <1>1
       DEF StartRtmpStream, Go, Free, ThreadsOK, Threads, Starting, Recording, calls
  <1>2. CASE StopRtmpStream
    BY <1>2 DEF StopRtmpStream, Go, Free, ThreadsOK, Threads, Starting, Recording, calls
  <1>3. CASE Clear
    BY <1>3 DEF Clear, Go, Free, ThreadsOK, Threads, Starting, Recording, calls
  <1>4. CASE StartRecord
    BY <1>4 DEF StartRecord, Go, Free, ThreadsOK, Threads, Starting, Recording, calls
  <1>5. CASE StopRecord("stop record", "ready")
    BY <1>5 DEF StopRecord, Go, Free, ThreadsOK, Threads, Starting, Recording, calls
  <1>6. CASE StopRecord("last stop", "stop stream")
    BY <1>6 DEF StopRecord, Go, Free, ThreadsOK, Threads, Starting, Recording, calls
  <1>7. CASE ReceiveSends
    BY <1>7 DEF ReceiveSends, Go, Free, ThreadsOK, Threads, Starting, Recording, calls
  <1>8. CASE StopStream("app")
    BY <1>8 DEF StopStream, Go, Free, ThreadsOK, Threads, Starting, Recording, calls
  <1>9. CASE Join("app")
    BY <1>9 DEF Join, Go, Free, ThreadsOK, Threads, Starting, Recording, calls
  <1>10. CASE StopEncoder("app")
    BY <1>10
       DEF StopEncoder, After, Go, Free, ThreadsOK, Threads, Starting, Recording,
           calls
  <1>11. CASE DeleteEncoders
    BY <1>11
       DEF DeleteEncoders, Go, Free, ThreadsOK, Threads, Starting, Recording, calls
  <1>12. CASE DeletePush
    BY <1>12 DEF DeletePush, Go, Free, ThreadsOK, Threads, Starting, Recording, calls
  <1>13. CASE JoinPush
    BY <1>13 DEF JoinPush, Go, Free, ThreadsOK, Threads, Starting, Recording, calls
  <1>14. CASE ClearQueue
    BY <1>14 DEF ClearQueue, Go, Free, ThreadsOK, Threads, Starting, Recording, calls
  <1>15. CASE Due
    BY <1>15 DEF Due, Go, Free, ThreadsOK, Threads, Starting, Recording, calls
  <1>16. CASE OnMessage
    BY <1>16 DEF OnMessage, Go, Free, ThreadsOK, Threads, Starting, Recording, calls
  <1>17. CASE StartStream
    BY <1>17 DEF StartStream, Go, Free, ThreadsOK, Threads, Starting, Recording, calls
  <1>18. CASE SetVideoEnable
    BY <1>18
       DEF SetVideoEnable, Go, Free, ThreadsOK, Threads, Starting, Recording, calls
  <1>19. CASE StopStream("worker")
    BY <1>19 DEF StopStream, Go, Free, ThreadsOK, Threads, Starting, Recording, calls
  <1>20. CASE Join("worker")
    BY <1>20 DEF Join, Go, Free, ThreadsOK, Threads, Starting, Recording, calls
  <1>21. CASE StopEncoder("worker")
    BY <1>21
       DEF StopEncoder, After, Go, Free, ThreadsOK, Threads, Starting, Recording,
           calls
  <1>22. CASE Record
    BY <1>22 DEF Record, Go, Free, ThreadsOK, Threads, Starting, Recording, calls
  <1>23. CASE OnData
    BY <1>23 DEF OnData, Go, Free, ThreadsOK, Threads, Starting, Recording, calls
  <1>24. CASE OnAACData
    BY <1>24 DEF OnAACData, Go, Free, ThreadsOK, Threads, Starting, Recording, calls
  <1>25. CASE Turn
    BY <1>25 DEF Turn, Go, Free, ThreadsOK, Threads, Starting, Recording, calls
  <1>26. CASE Callback
    BY <1>26 DEF Callback, Go, Free, ThreadsOK, Threads, Starting, Recording, calls
  <1>27. CASE Crash
    BY <1>27 DEF Crash, ThreadsOK, Threads, Starting, Recording, calls
  <1>28. CASE UNCHANGED vars
    BY <1>28 DEF vars, ThreadsOK, Threads, Starting, Recording, calls
  <1> QED
    BY <1>1, <1>2, <1>3, <1>4, <1>5, <1>6, <1>7, <1>8, <1>9, <1>10, <1>11, <1>12,
       <1>13, <1>14, <1>15, <1>16, <1>17, <1>18, <1>19, <1>20, <1>21, <1>22, <1>23,
       <1>24, <1>25, <1>26, <1>27, <1>28
       DEF Next, Call, AppStep, WorkerStep, StopSteps, RecorderStep, PushStep

\* Nobody else stops what is being started.
LEMMA StartingStep ==
  ASSUME ThreadsOK, Starting, [Next]_vars
  PROVE  Starting'
PROOF
  <1>1. CASE StartRtmpStream
    BY <1>1 DEF StartRtmpStream, Go, Free, ThreadsOK, Threads, Starting, calls
  <1>2. CASE StopRtmpStream
    BY <1>2 DEF StopRtmpStream, Go, Free, ThreadsOK, Threads, Starting, calls
  <1>3. CASE Clear
    BY <1>3 DEF Clear, Go, Free, ThreadsOK, Threads, Starting, calls
  <1>4. CASE StartRecord
    BY <1>4 DEF StartRecord, Go, Free, ThreadsOK, Threads, Starting, calls
  <1>5. CASE StopRecord("stop record", "ready")
    BY <1>5 DEF StopRecord, Go, Free, ThreadsOK, Threads, Starting, calls
  <1>6. CASE StopRecord("last stop", "stop stream")
    BY <1>6 DEF StopRecord, Go, Free, ThreadsOK, Threads, Starting, calls
  <1>7. CASE ReceiveSends
    BY <1>7 DEF ReceiveSends, Go, Free, ThreadsOK, Threads, Starting, calls
  <1>8. CASE StopStream("app")
    BY <1>8 DEF StopStream, Go, Free, ThreadsOK, Threads, Starting, calls
  <1>9. CASE Join("app")
    BY <1>9 DEF Join, Go, Free, ThreadsOK, Threads, Starting, calls
  <1>10. CASE StopEncoder("app")
    BY <1>10 DEF StopEncoder, After, Go, Free, ThreadsOK, Threads, Starting, calls
  <1>11. CASE DeleteEncoders
    BY <1>11 DEF DeleteEncoders, Go, Free, ThreadsOK, Threads, Starting, calls
  <1>12. CASE DeletePush
    BY <1>12 DEF DeletePush, Go, Free, ThreadsOK, Threads, Starting, calls
  <1>13. CASE JoinPush
    BY <1>13 DEF JoinPush, Go, Free, ThreadsOK, Threads, Starting, calls
  <1>14. CASE ClearQueue
    BY <1>14 DEF ClearQueue, Go, Free, ThreadsOK, Threads, Starting, calls
  <1>15. CASE Due
    BY <1>15 DEF Due, Go, Free, ThreadsOK, Threads, Starting, calls
  <1>16. CASE OnMessage
    BY <1>16 DEF OnMessage, Go, Free, ThreadsOK, Threads, Starting, calls
  <1>17. CASE StartStream
    BY <1>17 DEF StartStream, Go, Free, ThreadsOK, Threads, Starting, calls
  <1>18. CASE SetVideoEnable
    BY <1>18 DEF SetVideoEnable, Go, Free, ThreadsOK, Threads, Starting, calls
  <1>19. CASE StopStream("worker")
    BY <1>19 DEF StopStream, Go, Free, ThreadsOK, Threads, Starting, calls
  <1>20. CASE Join("worker")
    BY <1>20 DEF Join, Go, Free, ThreadsOK, Threads, Starting, calls
  <1>21. CASE StopEncoder("worker")
    BY <1>21 DEF StopEncoder, After, Go, Free, ThreadsOK, Threads, Starting, calls
  <1>22. CASE Record
    BY <1>22 DEF Record, Go, Free, ThreadsOK, Threads, Starting, calls
  <1>23. CASE OnData
    BY <1>23 DEF OnData, Go, Free, ThreadsOK, Threads, Starting, calls
  <1>24. CASE OnAACData
    BY <1>24 DEF OnAACData, Go, Free, ThreadsOK, Threads, Starting, calls
  <1>25. CASE Turn
    BY <1>25 DEF Turn, Go, Free, ThreadsOK, Threads, Starting, calls
  <1>26. CASE Callback
    BY <1>26 DEF Callback, Go, Free, ThreadsOK, Threads, Starting, calls
  <1>27. CASE Crash
    BY <1>27 DEF Crash, ThreadsOK, Threads, Starting, calls
  <1>28. CASE UNCHANGED vars
    BY <1>28 DEF vars, ThreadsOK, Threads, Starting, calls
  <1> QED
    BY <1>1, <1>2, <1>3, <1>4, <1>5, <1>6, <1>7, <1>8, <1>9, <1>10, <1>11, <1>12,
       <1>13, <1>14, <1>15, <1>16, <1>17, <1>18, <1>19, <1>20, <1>21, <1>22, <1>23,
       <1>24, <1>25, <1>26, <1>27, <1>28
       DEF Next, Call, AppStep, WorkerStep, StopSteps, RecorderStep, PushStep

\* The recorder keeps its lock, for which a stop waits, through the callback.
LEMMA DeliveringStep ==
  ASSUME ThreadsOK, Delivering, [Next]_vars
  PROVE  Delivering'
PROOF
  <1>1. CASE StartRtmpStream
    BY <1>1 DEF StartRtmpStream, Go, Free, ThreadsOK, Threads, Locks, Delivering, calls
  <1>2. CASE StopRtmpStream
    BY <1>2 DEF StopRtmpStream, Go, Free, ThreadsOK, Threads, Locks, Delivering, calls
  <1>3. CASE Clear
    BY <1>3 DEF Clear, Go, Free, ThreadsOK, Threads, Locks, Delivering, calls
  <1>4. CASE StartRecord
    BY <1>4 DEF StartRecord, Go, Free, ThreadsOK, Threads, Locks, Delivering, calls
  <1>5. CASE StopRecord("stop record", "ready")
    BY <1>5 DEF StopRecord, Go, Free, ThreadsOK, Threads, Locks, Delivering, calls
  <1>6. CASE StopRecord("last stop", "stop stream")
    BY <1>6 DEF StopRecord, Go, Free, ThreadsOK, Threads, Locks, Delivering, calls
  <1>7. CASE ReceiveSends
    BY <1>7 DEF ReceiveSends, Go, Free, ThreadsOK, Threads, Locks, Delivering, calls
  <1>8. CASE StopStream("app")
    BY <1>8 DEF StopStream, Go, Free, ThreadsOK, Threads, Locks, Delivering, calls
  <1>9. CASE Join("app")
    BY <1>9 DEF Join, Go, Free, ThreadsOK, Threads, Locks, Delivering, calls
  <1>10. CASE StopEncoder("app")
    BY <1>10
       DEF StopEncoder, After, Go, Free, ThreadsOK, Threads, Locks, Delivering, calls
  <1>11. CASE DeleteEncoders
    BY <1>11 DEF DeleteEncoders, Go, Free, ThreadsOK, Threads, Locks, Delivering, calls
  <1>12. CASE DeletePush
    BY <1>12 DEF DeletePush, Go, Free, ThreadsOK, Threads, Locks, Delivering, calls
  <1>13. CASE JoinPush
    BY <1>13 DEF JoinPush, Go, Free, ThreadsOK, Threads, Locks, Delivering, calls
  <1>14. CASE ClearQueue
    BY <1>14 DEF ClearQueue, Go, Free, ThreadsOK, Threads, Locks, Delivering, calls
  <1>15. CASE Due
    BY <1>15 DEF Due, Go, Free, ThreadsOK, Threads, Locks, Delivering, calls
  <1>16. CASE OnMessage
    BY <1>16 DEF OnMessage, Go, Free, ThreadsOK, Threads, Locks, Delivering, calls
  <1>17. CASE StartStream
    BY <1>17 DEF StartStream, Go, Free, ThreadsOK, Threads, Locks, Delivering, calls
  <1>18. CASE SetVideoEnable
    BY <1>18 DEF SetVideoEnable, Go, Free, ThreadsOK, Threads, Locks, Delivering, calls
  <1>19. CASE StopStream("worker")
    BY <1>19 DEF StopStream, Go, Free, ThreadsOK, Threads, Locks, Delivering, calls
  <1>20. CASE Join("worker")
    BY <1>20 DEF Join, Go, Free, ThreadsOK, Threads, Locks, Delivering, calls
  <1>21. CASE StopEncoder("worker")
    BY <1>21
       DEF StopEncoder, After, Go, Free, ThreadsOK, Threads, Locks, Delivering, calls
  <1>22. CASE Record
    BY <1>22 DEF Record, Go, Free, ThreadsOK, Threads, Locks, Delivering, calls
  <1>23. CASE OnData
    BY <1>23 DEF OnData, Go, Free, ThreadsOK, Threads, Locks, Delivering, calls
  <1>24. CASE OnAACData
    BY <1>24 DEF OnAACData, Go, Free, ThreadsOK, Threads, Locks, Delivering, calls
  <1>25. CASE Turn
    BY <1>25 DEF Turn, Go, Free, ThreadsOK, Threads, Locks, Delivering, calls
  <1>26. CASE Callback
    BY <1>26 DEF Callback, Go, Free, ThreadsOK, Threads, Locks, Delivering, calls
  <1>27. CASE Crash
    BY <1>27 DEF Crash, ThreadsOK, Threads, Locks, Delivering, calls
  <1>28. CASE UNCHANGED vars
    BY <1>28 DEF vars, ThreadsOK, Threads, Locks, Delivering, calls
  <1> QED
    BY <1>1, <1>2, <1>3, <1>4, <1>5, <1>6, <1>7, <1>8, <1>9, <1>10, <1>11, <1>12,
       <1>13, <1>14, <1>15, <1>16, <1>17, <1>18, <1>19, <1>20, <1>21, <1>22, <1>23,
       <1>24, <1>25, <1>26, <1>27, <1>28
       DEF Next, Call, AppStep, WorkerStep, StopSteps, RecorderStep, PushStep

\* The pointer is reset when the thread has been joined.
LEMMA JoinedStep ==
  ASSUME ThreadsOK, Joined, [Next]_vars
  PROVE  Joined'
PROOF
  <1>1. CASE StartRtmpStream
    BY <1>1 DEF StartRtmpStream, Go, Free, ThreadsOK, Threads, Joined, stream
  <1>2. CASE StopRtmpStream
    BY <1>2 DEF StopRtmpStream, Go, Free, ThreadsOK, Threads, Joined, stream
  <1>3. CASE Clear
    BY <1>3 DEF Clear, Go, Free, ThreadsOK, Threads, Joined, stream
  <1>4. CASE StartRecord
    BY <1>4 DEF StartRecord, Go, Free, ThreadsOK, Threads, Joined, stream
  <1>5. CASE StopRecord("stop record", "ready")
    BY <1>5 DEF StopRecord, Go, Free, ThreadsOK, Threads, Joined, stream
  <1>6. CASE StopRecord("last stop", "stop stream")
    BY <1>6 DEF StopRecord, Go, Free, ThreadsOK, Threads, Joined, stream
  <1>7. CASE ReceiveSends
    BY <1>7 DEF ReceiveSends, Go, Free, ThreadsOK, Threads, Joined, stream
  <1>8. CASE StopStream("app")
    BY <1>8 DEF StopStream, Go, Free, ThreadsOK, Threads, Joined, stream
  <1>9. CASE Join("app")
    BY <1>9 DEF Join, Go, Free, ThreadsOK, Threads, Joined, stream
  <1>10. CASE StopEncoder("app")
    BY <1>10 DEF StopEncoder, After, Go, Free, ThreadsOK, Threads, Joined, stream
  <1>11. CASE DeleteEncoders
    BY <1>11 DEF DeleteEncoders, Go, Free, ThreadsOK, Threads, Joined, stream
  <1>12. CASE DeletePush
    BY <1>12 DEF DeletePush, Go, Free, ThreadsOK, Threads, Joined, stream
  <1>13. CASE JoinPush
    BY <1>13 DEF JoinPush, Go, Free, ThreadsOK, Threads, Joined, stream
  <1>14. CASE ClearQueue
    BY <1>14 DEF ClearQueue, Go, Free, ThreadsOK, Threads, Joined, stream
  <1>15. CASE Due
    BY <1>15 DEF Due, Go, Free, ThreadsOK, Threads, Joined, stream
  <1>16. CASE OnMessage
    BY <1>16 DEF OnMessage, Go, Free, ThreadsOK, Threads, Joined, stream
  <1>17. CASE StartStream
    BY <1>17 DEF StartStream, Go, Free, ThreadsOK, Threads, Joined, stream
  <1>18. CASE SetVideoEnable
    BY <1>18 DEF SetVideoEnable, Go, Free, ThreadsOK, Threads, Joined, stream
  <1>19. CASE StopStream("worker")
    BY <1>19 DEF StopStream, Go, Free, ThreadsOK, Threads, Joined, stream
  <1>20. CASE Join("worker")
    BY <1>20 DEF Join, Go, Free, ThreadsOK, Threads, Joined, stream
  <1>21. CASE StopEncoder("worker")
    BY <1>21 DEF StopEncoder, After, Go, Free, ThreadsOK, Threads, Joined, stream
  <1>22. CASE Record
    BY <1>22 DEF Record, Go, Free, ThreadsOK, Threads, Joined, stream
  <1>23. CASE OnData
    BY <1>23 DEF OnData, Go, Free, ThreadsOK, Threads, Joined, stream
  <1>24. CASE OnAACData
    BY <1>24 DEF OnAACData, Go, Free, ThreadsOK, Threads, Joined, stream
  <1>25. CASE Turn
    BY <1>25 DEF Turn, Go, Free, ThreadsOK, Threads, Joined, stream
  <1>26. CASE Callback
    BY <1>26 DEF Callback, Go, Free, ThreadsOK, Threads, Joined, stream
  <1>27. CASE Crash
    BY <1>27 DEF Crash, ThreadsOK, Threads, Joined, stream
  <1>28. CASE UNCHANGED vars
    BY <1>28 DEF vars, ThreadsOK, Threads, Joined, stream
  <1> QED
    BY <1>1, <1>2, <1>3, <1>4, <1>5, <1>6, <1>7, <1>8, <1>9, <1>10, <1>11, <1>12,
       <1>13, <1>14, <1>15, <1>16, <1>17, <1>18, <1>19, <1>20, <1>21, <1>22, <1>23,
       <1>24, <1>25, <1>26, <1>27, <1>28
       DEF Next, Call, AppStep, WorkerStep, StopSteps, RecorderStep, PushStep

\* The destructor goes through its places in order.
LEMMA DestroyingStep ==
  ASSUME ThreadsOK, StreamOK, Destroying, [Next]_vars
  PROVE  Destroying'
PROOF
  <1>1. CASE StartRtmpStream
    BY <1>1
       DEF StartRtmpStream, Go, Free, ThreadsOK, Threads, StreamOK, Destroying, queue,
           stream
  <1>2. CASE StopRtmpStream
    BY <1>2
       DEF StopRtmpStream, Go, Free, ThreadsOK, Threads, StreamOK, Destroying, queue,
           stream
  <1>3. CASE Clear
    BY <1>3 DEF Clear, Go, Free, ThreadsOK, Threads, StreamOK, Destroying, queue, stream
  <1>4. CASE StartRecord
    BY <1>4
       DEF StartRecord, Go, Free, ThreadsOK, Threads, StreamOK, Destroying, queue,
           stream
  <1>5. CASE StopRecord("stop record", "ready")
    BY <1>5
       DEF StopRecord, Go, Free, ThreadsOK, Threads, StreamOK, Destroying, queue,
           stream
  <1>6. CASE StopRecord("last stop", "stop stream")
    BY <1>6
       DEF StopRecord, Go, Free, ThreadsOK, Threads, StreamOK, Destroying, queue,
           stream
  <1>7. CASE ReceiveSends
    BY <1>7
       DEF ReceiveSends, Go, Free, ThreadsOK, Threads, StreamOK, Destroying, queue,
           stream
  <1>8. CASE StopStream("app")
    BY <1>8
       DEF StopStream, Go, Free, ThreadsOK, Threads, StreamOK, Destroying, queue,
           stream
  <1>9. CASE Join("app")
    BY <1>9 DEF Join, Go, Free, ThreadsOK, Threads, StreamOK, Destroying, queue, stream
  <1>10. CASE StopEncoder("app")
    BY <1>10
       DEF StopEncoder, After, Go, Free, ThreadsOK, Threads, StreamOK, Destroying,
           queue, stream
  <1>11. CASE DeleteEncoders
    BY <1>11
       DEF DeleteEncoders, Go, Free, ThreadsOK, Threads, StreamOK, Destroying, queue,
           stream
  <1>12. CASE DeletePush
    BY <1>12
       DEF DeletePush, Go, Free, ThreadsOK, Threads, StreamOK, Destroying, queue,
           stream
  <1>13. CASE JoinPush
    BY <1>13
       DEF JoinPush, Go, Free, ThreadsOK, Threads, StreamOK, Destroying, queue, stream
  <1>14. CASE ClearQueue
    BY <1>14
       DEF ClearQueue, Go, Free, ThreadsOK, Threads, StreamOK, Destroying, queue,
           stream
  <1>15. CASE Due
    <2>1. delayed > 0 /\ pc' = pc /\ streamer' = streamer
      BY <1>15 DEF Due, stream
    <2>2. delayed # 0
      BY <2>1
    <2> QED
      BY <2>1, <2>2 DEF Destroying
  <1>16. CASE OnMessage
    BY <1>16
       DEF OnMessage, Go, Free, ThreadsOK, Threads, StreamOK, Destroying, queue,
           stream
  <1>17. CASE StartStream
    BY <1>17
       DEF StartStream, Go, Free, ThreadsOK, Threads, StreamOK, Destroying, queue,
           stream
  <1>18. CASE SetVideoEnable
    BY <1>18
       DEF SetVideoEnable, Go, Free, ThreadsOK, Threads, StreamOK, Destroying, queue,
           stream
  <1>19. CASE StopStream("worker")
    BY <1>19
       DEF StopStream, Go, Free, ThreadsOK, Threads, StreamOK, Destroying, queue,
           stream
  <1>20. CASE Join("worker")
    BY <1>20 DEF Join, Go, Free, ThreadsOK, Threads, StreamOK, Destroying, queue, stream
  <1>21. CASE StopEncoder("worker")
    BY <1>21
       DEF StopEncoder, After, Go, Free, ThreadsOK, Threads, StreamOK, Destroying,
           queue, stream
  <1>22. CASE Record
    BY <1>22
       DEF Record, Go, Free, ThreadsOK, Threads, StreamOK, Destroying, queue, stream
  <1>23. CASE OnData
    BY <1>23
       DEF OnData, Go, Free, ThreadsOK, Threads, StreamOK, Destroying, queue, stream
  <1>24. CASE OnAACData
    BY <1>24
       DEF OnAACData, Go, Free, ThreadsOK, Threads, StreamOK, Destroying, queue,
           stream
  <1>25. CASE Turn
    BY <1>25 DEF Turn, Go, Free, ThreadsOK, Threads, StreamOK, Destroying, queue, stream
  <1>26. CASE Callback
    BY <1>26
       DEF Callback, Go, Free, ThreadsOK, Threads, StreamOK, Destroying, queue, stream
  <1>27. CASE Crash
    BY <1>27 DEF Crash, ThreadsOK, Threads, StreamOK, Destroying, queue, stream
  <1>28. CASE UNCHANGED vars
    BY <1>28 DEF vars, ThreadsOK, Threads, StreamOK, Destroying, queue, stream
  <1> QED
    BY <1>1, <1>2, <1>3, <1>4, <1>5, <1>6, <1>7, <1>8, <1>9, <1>10, <1>11, <1>12,
       <1>13, <1>14, <1>15, <1>16, <1>17, <1>18, <1>19, <1>20, <1>21, <1>22, <1>23,
       <1>24, <1>25, <1>26, <1>27, <1>28
       DEF Next, Call, AppStep, WorkerStep, StopSteps, RecorderStep, PushStep

\* The history variables say what they are for.
LEMMA HistoryStep ==
  ASSUME HistoryOK, [Next]_vars
  PROVE  HistoryOK'
PROOF
  <1>1. CASE StartRtmpStream
    BY <1>1 DEF StartRtmpStream, HistoryOK, history
  <1>2. CASE StopRtmpStream
    BY <1>2 DEF StopRtmpStream, HistoryOK, history
  <1>3. CASE Clear
    BY <1>3 DEF Clear, HistoryOK, history
  <1>4. CASE StartRecord
    BY <1>4 DEF StartRecord, HistoryOK, history
  <1>5. CASE StopRecord("stop record", "ready")
    <2>1. overtaking' = (delayed > 0) /\ unhandled' = unhandled
      BY <1>5 DEF StopRecord
    <2> QED
      BY <2>1 DEF HistoryOK
  <1>6. CASE StopRecord("last stop", "stop stream")
    <2>1. overtaking' = (delayed > 0) /\ unhandled' = unhandled
      BY <1>6 DEF StopRecord
    <2> QED
      BY <2>1 DEF HistoryOK
  <1>7. CASE ReceiveSends
    BY <1>7 DEF ReceiveSends, HistoryOK, history
  <1>8. CASE StopStream("app")
    BY <1>8 DEF StopStream, HistoryOK, history
  <1>9. CASE Join("app")
    BY <1>9 DEF Join, HistoryOK, history
  <1>10. CASE StopEncoder("app")
    BY <1>10 DEF StopEncoder, HistoryOK, history
  <1>11. CASE DeleteEncoders
    BY <1>11 DEF DeleteEncoders, HistoryOK, history
  <1>12. CASE DeletePush
    BY <1>12 DEF DeletePush, HistoryOK, history
  <1>13. CASE JoinPush
    BY <1>13 DEF JoinPush, HistoryOK, history
  <1>14. CASE ClearQueue
    BY <1>14 DEF ClearQueue, HistoryOK, history
  <1>15. CASE Due
    BY <1>15 DEF Due, HistoryOK, history
  <1>16. CASE OnMessage
    BY <1>16 DEF OnMessage, HistoryOK, history
  <1>17. CASE StartStream
    BY <1>17 DEF StartStream, HistoryOK, history
  <1>18. CASE SetVideoEnable
    BY <1>18 DEF SetVideoEnable, HistoryOK, history
  <1>19. CASE StopStream("worker")
    BY <1>19 DEF StopStream, HistoryOK, history
  <1>20. CASE Join("worker")
    BY <1>20 DEF Join, HistoryOK, history
  <1>21. CASE StopEncoder("worker")
    BY <1>21 DEF StopEncoder, HistoryOK, history
  <1>22. CASE Record
    BY <1>22 DEF Record, HistoryOK, history
  <1>23. CASE OnData
    BY <1>23 DEF OnData, HistoryOK, history
  <1>24. CASE OnAACData
    BY <1>24 DEF OnAACData, HistoryOK, history
  <1>25. CASE Turn
    BY <1>25 DEF Turn, HistoryOK, history
  <1>26. CASE Callback
    BY <1>26 DEF Callback, HistoryOK, history
  <1>27. CASE Crash
    BY <1>27 DEF Crash, HistoryOK, history
  <1>28. CASE UNCHANGED vars
    BY <1>28 DEF vars, HistoryOK, history
  <1> QED
    BY <1>1, <1>2, <1>3, <1>4, <1>5, <1>6, <1>7, <1>8, <1>9, <1>10, <1>11, <1>12,
       <1>13, <1>14, <1>15, <1>16, <1>17, <1>18, <1>19, <1>20, <1>21, <1>22, <1>23,
       <1>24, <1>25, <1>26, <1>27, <1>28
       DEF Next, Call, AppStep, WorkerStep, StopSteps, RecorderStep, PushStep

\* No start comes in once the destruction has begun.
LEMMA StartlessStep ==
  ASSUME ThreadsOK, QueueOK, Startless, [Next]_vars
  PROVE  Startless'
PROOF
  <1>1. CASE StartRtmpStream
    BY <1>1
       DEF StartRtmpStream, Go, Free, ThreadsOK, Threads, Startless, Ending, Stopped,
           calls, queue, stream, history
  <1>2. CASE StopRtmpStream
    BY <1>2
       DEF StopRtmpStream, Go, Free, ThreadsOK, Threads, Startless, Ending, Stopped,
           calls, queue, stream, history
  <1>3. CASE Clear
    BY <1>3
       DEF Clear, Go, Free, ThreadsOK, Threads, Startless, Ending, Stopped, calls,
           queue, stream, history
  <1>4. CASE StartRecord
    BY <1>4
       DEF StartRecord, Go, Free, ThreadsOK, Threads, Startless, Ending, Stopped,
           calls, queue, stream, history
  <1>5. CASE StopRecord("stop record", "ready")
    BY <1>5
       DEF StopRecord, Go, Free, ThreadsOK, Threads, Startless, Ending, Stopped,
           calls, queue, stream, history
  <1>6. CASE StopRecord("last stop", "stop stream")
    <2>1. StartQueued(msgq') => StartQueued(msgq)
      BY <1>6, StartsInQueue DEF StopRecord, QueueOK
    <2>2. /\ delayed' = delayed /\ unhandled' = unhandled
          /\ pc["app"] = "last stop" /\ pc'["worker"] = pc["worker"]
          /\ pc'["app"] = "stop stream"
      BY <1>6 DEF StopRecord, Go, ThreadsOK, Threads
    <2> QED
      BY <2>1, <2>2 DEF Startless, Ending, Stopped
  <1>7. CASE ReceiveSends
    <2>1. /\ pc["worker"] = "idle" /\ pc'["worker"] = "idle"
          /\ pc'["app"] \in {"last stop", "stop stream"}
          /\ delayed' = delayed /\ msgq' = msgq
      BY <1>7 DEF ReceiveSends, Go, ThreadsOK, Threads, queue
    <2>2. unhandled' # "start" => ~StartUnhandled
      BY <1>7 DEF ReceiveSends
    <2>3. ~StartUnhandled => ~(delayed > 0) /\ ~StartQueued(msgq)
      BY DEF StartUnhandled, StartQueued
    <2>4. ~(delayed > 0) => delayed = 0
      BY HosterAssumption DEF QueueOK
    <2> QED
      BY <2>1, <2>2, <2>3, <2>4 DEF Startless, Stopped
  <1>8. CASE StopStream("app")
    BY <1>8
       DEF StopStream, Go, Free, ThreadsOK, Threads, Startless, Ending, Stopped,
           calls, queue, stream, history
  <1>9. CASE Join("app")
    BY <1>9
       DEF Join, Go, Free, ThreadsOK, Threads, Startless, Ending, Stopped, calls,
           queue, stream, history
  <1>10. CASE StopEncoder("app")
    BY <1>10
       DEF StopEncoder, After, Go, Free, ThreadsOK, Threads, Startless, Ending,
           Stopped, calls, queue, stream, history
  <1>11. CASE DeleteEncoders
    BY <1>11
       DEF DeleteEncoders, Go, Free, ThreadsOK, Threads, Startless, Ending, Stopped,
           calls, queue, stream, history
  <1>12. CASE DeletePush
    BY <1>12
       DEF DeletePush, Go, Free, ThreadsOK, Threads, Startless, Ending, Stopped,
           calls, queue, stream, history
  <1>13. CASE JoinPush
    BY <1>13
       DEF JoinPush, Go, Free, ThreadsOK, Threads, Startless, Ending, Stopped, calls,
           queue, stream, history
  <1>14. CASE ClearQueue
    <2>1. /\ delayed' = 0 /\ msgq' = <<>> /\ unhandled' = unhandled /\ av_rtmp' = av_rtmp
          /\ pc["app"] = "clear queue" /\ pc'["worker"] = pc["worker"]
      BY <1>14 DEF ClearQueue, Go, ThreadsOK, Threads, stream, history
    <2>2. ~StartQueued(msgq')
      BY <2>1, StartsInQueue DEF QueueOK
    <2> QED
      BY <2>1, <2>2 DEF Startless, Ending, Stopped
  <1>15. CASE Due
    <2>1. delayed > 0 /\ pc' = pc /\ unhandled' = unhandled
      BY <1>15 DEF Due, history
    <2>2. delayed # 0
      BY <2>1
    <2> QED
      BY <2>1, <2>2 DEF Startless
  <1>16. CASE OnMessage
    <2>1. /\ msgq # <<>> /\ msgq' = Tail(msgq) /\ pc'["app"] = pc["app"]
          /\ pc'["worker"] = IF Head(msgq) = "start" THEN "start stream" ELSE "stop stream"
          /\ delayed' = delayed /\ unhandled' = unhandled /\ av_rtmp' = av_rtmp
      BY <1>16 DEF OnMessage, Go, ThreadsOK, Threads, stream, history
    <2>2. /\ StartQueued(msgq') => StartQueued(msgq)
          /\ Head(msgq) = "start" => StartQueued(msgq)
      BY <2>1, StartsInQueue DEF QueueOK
    <2> QED
      BY <2>1, <2>2 DEF Startless
  <1>17. CASE StartStream
    BY <1>17
       DEF StartStream, Go, Free, ThreadsOK, Threads, Startless, Ending, Stopped,
           calls, queue, stream, history
  <1>18. CASE SetVideoEnable
    BY <1>18
       DEF SetVideoEnable, Go, Free, ThreadsOK, Threads, Startless, Ending, Stopped,
           calls, queue, stream, history
  <1>19. CASE StopStream("worker")
    BY <1>19
       DEF StopStream, Go, Free, ThreadsOK, Threads, Startless, Ending, Stopped,
           calls, queue, stream, history
  <1>20. CASE Join("worker")
    BY <1>20
       DEF Join, Go, Free, ThreadsOK, Threads, Startless, Ending, Stopped, calls,
           queue, stream, history
  <1>21. CASE StopEncoder("worker")
    BY <1>21
       DEF StopEncoder, After, Go, Free, ThreadsOK, Threads, Startless, Ending,
           Stopped, calls, queue, stream, history
  <1>22. CASE Record
    BY <1>22
       DEF Record, Go, Free, ThreadsOK, Threads, Startless, Ending, Stopped, calls,
           queue, stream, history
  <1>23. CASE OnData
    BY <1>23
       DEF OnData, Go, Free, ThreadsOK, Threads, Startless, Ending, Stopped, calls,
           queue, stream, history
  <1>24. CASE OnAACData
    BY <1>24
       DEF OnAACData, Go, Free, ThreadsOK, Threads, Startless, Ending, Stopped, calls,
           queue, stream, history
  <1>25. CASE Turn
    BY <1>25
       DEF Turn, Go, Free, ThreadsOK, Threads, Startless, Ending, Stopped, calls,
           queue, stream, history
  <1>26. CASE Callback
    BY <1>26
       DEF Callback, Go, Free, ThreadsOK, Threads, Startless, Ending, Stopped, calls,
           queue, stream, history
  <1>27. CASE Crash
    BY <1>27
       DEF Crash, ThreadsOK, Threads, Startless, Ending, Stopped, calls, queue,
           stream, history
  <1>28. CASE UNCHANGED vars
    BY <1>28
       DEF vars, ThreadsOK, Threads, Startless, Ending, Stopped, calls, queue, stream,
           history
  <1> QED
    BY <1>1, <1>2, <1>3, <1>4, <1>5, <1>6, <1>7, <1>8, <1>9, <1>10, <1>11, <1>12,
       <1>13, <1>14, <1>15, <1>16, <1>17, <1>18, <1>19, <1>20, <1>21, <1>22, <1>23,
       <1>24, <1>25, <1>26, <1>27, <1>28
       DEF Next, Call, AppStep, WorkerStep, StopSteps, RecorderStep, PushStep

\* Nor does anything else, if nothing was unhandled.
LEMMA AloneStep ==
  ASSUME ThreadsOK, Startless, Alone, [Next]_vars
  PROVE  Alone'
PROOF
  <1>1. CASE StartRtmpStream
    BY <1>1
       DEF StartRtmpStream, Go, Free, ThreadsOK, Threads, Alone, Ending, Stopped,
           calls, queue, stream, history
  <1>2. CASE StopRtmpStream
    BY <1>2
       DEF StopRtmpStream, Go, Free, ThreadsOK, Threads, Alone, Ending, Stopped,
           calls, queue, stream, history
  <1>3. CASE Clear
    BY <1>3
       DEF Clear, Go, Free, ThreadsOK, Threads, Alone, Ending, Stopped, calls, queue,
           stream, history
  <1>4. CASE StartRecord
    BY <1>4
       DEF StartRecord, Go, Free, ThreadsOK, Threads, Alone, Ending, Stopped, calls,
           queue, stream, history
  <1>5. CASE StopRecord("stop record", "ready")
    BY <1>5
       DEF StopRecord, Go, Free, ThreadsOK, Threads, Alone, Ending, Stopped, calls,
           queue, stream, history
  <1>6. CASE StopRecord("last stop", "stop stream")
    BY <1>6
       DEF StopRecord, Go, Free, ThreadsOK, Threads, Alone, Ending, Stopped, calls,
           queue, stream, history
  <1>7. CASE ReceiveSends
    <2>1. /\ pc["worker"] = "idle" /\ pc'["worker"] = "idle" /\ msgq' = msgq
          /\ pc'["app"] = IF started THEN "last stop" ELSE "stop stream"
      BY <1>7 DEF ReceiveSends, Go, ThreadsOK, Threads, queue
    <2>2. unhandled' = "nothing" => ~started /\ msgq = <<>>
      BY <1>7 DEF ReceiveSends
    <2> QED
      BY <2>1, <2>2 DEF Alone
  <1>8. CASE StopStream("app")
    BY <1>8
       DEF StopStream, Go, Free, ThreadsOK, Threads, Alone, Ending, Stopped, calls,
           queue, stream, history
  <1>9. CASE Join("app")
    BY <1>9
       DEF Join, Go, Free, ThreadsOK, Threads, Alone, Ending, Stopped, calls, queue,
           stream, history
  <1>10. CASE StopEncoder("app")
    BY <1>10
       DEF StopEncoder, After, Go, Free, ThreadsOK, Threads, Alone, Ending, Stopped,
           calls, queue, stream, history
  <1>11. CASE DeleteEncoders
    BY <1>11
       DEF DeleteEncoders, Go, Free, ThreadsOK, Threads, Alone, Ending, Stopped,
           calls, queue, stream, history
  <1>12. CASE DeletePush
    BY <1>12
       DEF DeletePush, Go, Free, ThreadsOK, Threads, Alone, Ending, Stopped, calls,
           queue, stream, history
  <1>13. CASE JoinPush
    BY <1>13
       DEF JoinPush, Go, Free, ThreadsOK, Threads, Alone, Ending, Stopped, calls,
           queue, stream, history
  <1>14. CASE ClearQueue
    BY <1>14
       DEF ClearQueue, Go, Free, ThreadsOK, Threads, Alone, Ending, Stopped, calls,
           queue, stream, history
  <1>15. CASE Due
    <2>1. delayed > 0 /\ pc' = pc /\ unhandled' = unhandled
      BY <1>15 DEF Due, history
    <2>2. delayed # 0
      BY <2>1
    <2> QED
      BY <2>1, <2>2 DEF Startless, Alone
  <1>16. CASE OnMessage
    BY <1>16
       DEF OnMessage, Go, Free, ThreadsOK, Threads, Alone, Ending, Stopped, calls,
           queue, stream, history
  <1>17. CASE StartStream
    BY <1>17
       DEF StartStream, Go, Free, ThreadsOK, Threads, Alone, Ending, Stopped, calls,
           queue, stream, history
  <1>18. CASE SetVideoEnable
    BY <1>18
       DEF SetVideoEnable, Go, Free, ThreadsOK, Threads, Alone, Ending, Stopped,
           calls, queue, stream, history
  <1>19. CASE StopStream("worker")
    BY <1>19
       DEF StopStream, Go, Free, ThreadsOK, Threads, Alone, Ending, Stopped, calls,
           queue, stream, history
  <1>20. CASE Join("worker")
    BY <1>20
       DEF Join, Go, Free, ThreadsOK, Threads, Alone, Ending, Stopped, calls, queue,
           stream, history
  <1>21. CASE StopEncoder("worker")
    BY <1>21
       DEF StopEncoder, After, Go, Free, ThreadsOK, Threads, Alone, Ending, Stopped,
           calls, queue, stream, history
  <1>22. CASE Record
    BY <1>22
       DEF Record, Go, Free, ThreadsOK, Threads, Alone, Ending, Stopped, calls, queue,
           stream, history
  <1>23. CASE OnData
    BY <1>23
       DEF OnData, Go, Free, ThreadsOK, Threads, Alone, Ending, Stopped, calls, queue,
           stream, history
  <1>24. CASE OnAACData
    BY <1>24
       DEF OnAACData, Go, Free, ThreadsOK, Threads, Alone, Ending, Stopped, calls,
           queue, stream, history
  <1>25. CASE Turn
    BY <1>25
       DEF Turn, Go, Free, ThreadsOK, Threads, Alone, Ending, Stopped, calls, queue,
           stream, history
  <1>26. CASE Callback
    BY <1>26
       DEF Callback, Go, Free, ThreadsOK, Threads, Alone, Ending, Stopped, calls,
           queue, stream, history
  <1>27. CASE Crash
    BY <1>27
       DEF Crash, ThreadsOK, Threads, Alone, Ending, Stopped, calls, queue, stream,
           history
  <1>28. CASE UNCHANGED vars
    BY <1>28
       DEF vars, ThreadsOK, Threads, Alone, Ending, Stopped, calls, queue, stream,
           history
  <1> QED
    BY <1>1, <1>2, <1>3, <1>4, <1>5, <1>6, <1>7, <1>8, <1>9, <1>10, <1>11, <1>12,
       <1>13, <1>14, <1>15, <1>16, <1>17, <1>18, <1>19, <1>20, <1>21, <1>22, <1>23,
       <1>24, <1>25, <1>26, <1>27, <1>28
       DEF Next, Call, AppStep, WorkerStep, StopSteps, RecorderStep, PushStep

\* Nothing that is deleted is used unless something was unhandled.
LEMMA CrashingStep ==
  ASSUME Destroying, Joined, Startless, Alone, Crashing, [Next]_vars
  PROVE  Crashing'
PROOF
  <1>1. CASE StartRtmpStream
    BY <1>1 DEF StartRtmpStream, Go, Crashing, stream, history
  <1>2. CASE StopRtmpStream
    BY <1>2 DEF StopRtmpStream, Go, Crashing, stream, history
  <1>3. CASE Clear
    BY <1>3 DEF Clear, Go, Crashing, stream, history
  <1>4. CASE StartRecord
    BY <1>4 DEF StartRecord, Go, Crashing, stream, history
  <1>5. CASE StopRecord("stop record", "ready")
    BY <1>5 DEF StopRecord, Go, Crashing, stream, history
  <1>6. CASE StopRecord("last stop", "stop stream")
    BY <1>6 DEF StopRecord, Go, Crashing, stream, history
  <1>7. CASE ReceiveSends
    <2>1. ~crashed /\ crashed' = crashed
      BY <1>7 DEF ReceiveSends, Go
    <2> QED
      BY <2>1 DEF Crashing
  <1>8. CASE StopStream("app")
    BY <1>8 DEF StopStream, Go, Crashing, stream, history
  <1>9. CASE Join("app")
    BY <1>9 DEF Join, Go, Crashing, stream, history
  <1>10. CASE StopEncoder("app")
    BY <1>10 DEF StopEncoder, Go, Crashing, stream, history
  <1>11. CASE DeleteEncoders
    BY <1>11 DEF DeleteEncoders, Go, Crashing, stream, history
  <1>12. CASE DeletePush
    BY <1>12 DEF DeletePush, Go, Crashing, stream, history
  <1>13. CASE JoinPush
    BY <1>13 DEF JoinPush, Go, Crashing, stream, history
  <1>14. CASE ClearQueue
    BY <1>14 DEF ClearQueue, Go, Crashing, stream, history
  <1>15. CASE Due
    BY <1>15 DEF Due, Go, Crashing, stream, history
  <1>16. CASE OnMessage
    BY <1>16 DEF OnMessage, Go, Crashing, stream, history
  <1>17. CASE StartStream
    BY <1>17 DEF StartStream, Go, Crashing, stream, history
  <1>18. CASE SetVideoEnable
    BY <1>18 DEF SetVideoEnable, Go, Crashing, stream, history
  <1>19. CASE StopStream("worker")
    BY <1>19 DEF StopStream, Go, Crashing, stream, history
  <1>20. CASE Join("worker")
    BY <1>20 DEF Join, Go, Crashing, stream, history
  <1>21. CASE StopEncoder("worker")
    BY <1>21 DEF StopEncoder, Go, Crashing, stream, history
  <1>22. CASE Record
    BY <1>22 DEF Record, Go, Crashing, stream, history
  <1>23. CASE OnData
    BY <1>23 DEF OnData, Go, Crashing, stream, history
  <1>24. CASE OnAACData
    BY <1>24 DEF OnAACData, Go, Crashing, stream, history
  <1>25. CASE Turn
    BY <1>25 DEF Turn, Go, Crashing, stream, history
  <1>26. CASE Callback
    BY <1>26 DEF Callback, Go, Crashing, stream, history
  <1>27. CASE Crash
    <2>1. ~streamer /\ Uses /\ streamer' = streamer /\ unhandled' = unhandled
      BY <1>27 DEF Crash, stream, history
    <2>2. pc["app"] \in Ending /\ pc["app"] \in Stopped
      BY <2>1 DEF Destroying, Ending, Stopped
    <2>3. CASE unhandled = "nothing"
      <3>1. msgq = <<>> /\ pc["worker"] = "idle" /\ av_rtmp = "none"
        BY <2>2, <2>3 DEF Alone, Startless
      <3> QED
        BY <2>1, <3>1 DEF Joined, Uses
    <2> QED
      BY <2>1, <2>3 DEF Crashing
  <1>28. CASE UNCHANGED vars
    BY <1>28 DEF vars, Crashing, stream, history
  <1> QED
    BY <1>1, <1>2, <1>3, <1>4, <1>5, <1>6, <1>7, <1>8, <1>9, <1>10, <1>11, <1>12,
       <1>13, <1>14, <1>15, <1>16, <1>17, <1>18, <1>19, <1>20, <1>21, <1>22, <1>23,
       <1>24, <1>25, <1>26, <1>27, <1>28
       DEF Next, Call, AppStep, WorkerStep, StopSteps, RecorderStep, PushStep

\* A stop that overtook no start is the last word.
LEMMA StoppingStep ==
  ASSUME ThreadsOK, QueueOK, Starting, Joined, Stopping, [Next]_vars
  PROVE  Stopping'
PROOF
  <1>1. CASE StartRtmpStream
    BY <1>1
       DEF StartRtmpStream, Go, Free, ThreadsOK, Threads, Joined, Stopping, calls,
           queue, stream, history
  <1>2. CASE StopRtmpStream
    BY <1>2
       DEF StopRtmpStream, Go, Free, ThreadsOK, Threads, Joined, Stopping, calls,
           queue, stream, history
  <1>3. CASE Clear
    BY <1>3
       DEF Clear, Go, Free, ThreadsOK, Threads, Joined, Stopping, calls, queue,
           stream, history
  <1>4. CASE StartRecord
    <2>1. started'
      BY <1>4 DEF StartRecord, Go, Starting
    <2> QED
      BY <2>1 DEF Stopping
  <1>5. CASE StopRecord("stop record", "ready")
    <2>1. /\ msgq' = Append(msgq, "stop") /\ delayed' = delayed
          /\ overtaking' = (delayed > 0)
      BY <1>5 DEF StopRecord
    <2>2. msgq' # <<>> /\ msgq'[Len(msgq')] = "stop"
      BY <2>1, LastInQueue DEF QueueOK
    <2>3. ~(delayed > 0) => delayed = 0
      BY HosterAssumption DEF QueueOK
    <2>4. ~overtaking' => delayed' = 0
      BY <2>1, <2>3
    <2> QED
      BY <2>2, <2>4 DEF Stopping
  <1>6. CASE StopRecord("last stop", "stop stream")
    BY <1>6
       DEF StopRecord, Go, Free, ThreadsOK, Threads, Joined, Stopping, calls, queue,
           stream, history
  <1>7. CASE ReceiveSends
    BY <1>7
       DEF ReceiveSends, Go, Free, ThreadsOK, Threads, Joined, Stopping, calls, queue,
           stream, history
  <1>8. CASE StopStream("app")
    BY <1>8
       DEF StopStream, Go, Free, ThreadsOK, Threads, Joined, Stopping, calls, queue,
           stream, history
  <1>9. CASE Join("app")
    BY <1>9
       DEF Join, Go, Free, ThreadsOK, Threads, Joined, Stopping, calls, queue, stream,
           history
  <1>10. CASE StopEncoder("app")
    BY <1>10
       DEF StopEncoder, After, Go, Free, ThreadsOK, Threads, Joined, Stopping, calls,
           queue, stream, history
  <1>11. CASE DeleteEncoders
    BY <1>11
       DEF DeleteEncoders, Go, Free, ThreadsOK, Threads, Joined, Stopping, calls,
           queue, stream, history
  <1>12. CASE DeletePush
    BY <1>12
       DEF DeletePush, Go, Free, ThreadsOK, Threads, Joined, Stopping, calls, queue,
           stream, history
  <1>13. CASE JoinPush
    BY <1>13
       DEF JoinPush, Go, Free, ThreadsOK, Threads, Joined, Stopping, calls, queue,
           stream, history
  <1>14. CASE ClearQueue
    BY <1>14
       DEF ClearQueue, Go, Free, ThreadsOK, Threads, Joined, Stopping, calls, queue,
           stream, history
  <1>15. CASE Due
    <2>1. delayed > 0 /\ pc' = pc /\ started' = started /\ overtaking' = overtaking
      BY <1>15 DEF Due, calls, history
    <2>2. delayed # 0
      BY <2>1
    <2> QED
      BY <2>1, <2>2 DEF Stopping
  <1>16. CASE OnMessage
    <2>1. /\ msgq # <<>> /\ msgq' = Tail(msgq) /\ pc'["app"] = pc["app"]
          /\ pc'["worker"] = IF Head(msgq) = "start" THEN "start stream" ELSE "stop stream"
          /\ delayed' = delayed /\ started' = started /\ overtaking' = overtaking
      BY <1>16 DEF OnMessage, Go, ThreadsOK, Threads, calls, history
    <2>2. /\ msgq' # <<>> => msgq'[Len(msgq')] = msgq[Len(msgq)]
          /\ msgq' = <<>> => Head(msgq) = msgq[Len(msgq)]
      BY <2>1, LastInQueue DEF QueueOK
    <2>3. CASE ~started /\ ~overtaking /\ pc["app"] = "ready"
      <3>1. delayed = 0 /\ msgq[Len(msgq)] = "stop"
        BY <2>1, <2>3 DEF Stopping
      <3>2. msgq' # <<>> => msgq'[Len(msgq')] = "stop"
        BY <2>2, <3>1
      <3>3. msgq' = <<>> => pc'["worker"] = "stop stream"
        BY <2>1, <2>2, <3>1
      <3> QED
        BY <2>1, <3>1, <3>2, <3>3 DEF Stopping
    <2>4. CASE ~(~started /\ ~overtaking /\ pc["app"] = "ready")
      BY <2>1, <2>4 DEF Stopping
    <2> QED
      BY <2>3, <2>4
  <1>17. CASE StartStream
    BY <1>17
       DEF StartStream, Go, Free, ThreadsOK, Threads, Joined, Stopping, calls, queue,
           stream, history
  <1>18. CASE SetVideoEnable
    BY <1>18
       DEF SetVideoEnable, Go, Free, ThreadsOK, Threads, Joined, Stopping, calls,
           queue, stream, history
  <1>19. CASE StopStream("worker")
    BY <1>19
       DEF StopStream, Go, Free, ThreadsOK, Threads, Joined, Stopping, calls, queue,
           stream, history
  <1>20. CASE Join("worker")
    BY <1>20
       DEF Join, Go, Free, ThreadsOK, Threads, Joined, Stopping, calls, queue, stream,
           history
  <1>21. CASE StopEncoder("worker")
    BY <1>21
       DEF StopEncoder, After, Go, Free, ThreadsOK, Threads, Joined, Stopping, calls,
           queue, stream, history
  <1>22. CASE Record
    BY <1>22
       DEF Record, Go, Free, ThreadsOK, Threads, Joined, Stopping, calls, queue,
           stream, history
  <1>23. CASE OnData
    BY <1>23
       DEF OnData, Go, Free, ThreadsOK, Threads, Joined, Stopping, calls, queue,
           stream, history
  <1>24. CASE OnAACData
    BY <1>24
       DEF OnAACData, Go, Free, ThreadsOK, Threads, Joined, Stopping, calls, queue,
           stream, history
  <1>25. CASE Turn
    BY <1>25
       DEF Turn, Go, Free, ThreadsOK, Threads, Joined, Stopping, calls, queue, stream,
           history
  <1>26. CASE Callback
    BY <1>26
       DEF Callback, Go, Free, ThreadsOK, Threads, Joined, Stopping, calls, queue,
           stream, history
  <1>27. CASE Crash
    BY <1>27
       DEF Crash, ThreadsOK, Threads, Joined, Stopping, calls, queue, stream, history
  <1>28. CASE UNCHANGED vars
    BY <1>28
       DEF vars, ThreadsOK, Threads, Joined, Stopping, calls, queue, stream, history
  <1> QED
    BY <1>1, <1>2, <1>3, <1>4, <1>5, <1>6, <1>7, <1>8, <1>9, <1>10, <1>11, <1>12,
       <1>13, <1>14, <1>15, <1>16, <1>17, <1>18, <1>19, <1>20, <1>21, <1>22, <1>23,
       <1>24, <1>25, <1>26, <1>27, <1>28
       DEF Next, Call, AppStep, WorkerStep, StopSteps, RecorderStep, PushStep

-----------------------------------------------------------------------------
(* The theorems.                                                           *)

\* The invariant.
HosterInv ==
    /\ TypeOK /\ Sent /\ Starting /\ Recording /\ Delivering /\ Joined
    /\ Destroying /\ Startless /\ Alone /\ Crashing /\ Stopping

\* It holds when the host is made.
LEMMA InitHoster == Init => HosterInv
PROOF
  <1> SUFFICES ASSUME Init PROVE HosterInv
    OBVIOUS
  <1>1. /\ pc["app"] = "ready" /\ pc["worker"] = "idle"
        /\ pc["recorder"] = "idle" /\ pc["push"] = "exit"
    BY DEF Init, Threads
  <1>2. ThreadsOK
    BY DEF Init, ThreadsOK, Threads, Locks, Places
  <1>3. StreamOK /\ HistoryOK
    BY DEF Init, StreamOK, HistoryOK
  <1>4. QueueOK /\ Sent
    <2>1. 0 \in 0..MaxStarts /\ 0 <= 0
      BY HosterAssumption
    <2>2. QueueOK
      BY <2>1 DEF Init, QueueOK
    <2>3. Sent
      BY <1>1, <2>1 DEF Init, Sent
    <2> QED
      BY <2>2, <2>3
  <1>5. Recording /\ Starting /\ Delivering /\ Joined /\ Destroying
    BY <1>1 DEF Init, Recording, Starting, Delivering, Joined, Destroying
  <1>6. Startless /\ Alone /\ Crashing /\ Stopping
    BY <1>1 DEF Init, Startless, Alone, Ending, Stopped, Crashing, Stopping
  <1> QED
    BY <1>2, <1>3, <1>4, <1>5, <1>6 DEF HosterInv, TypeOK

\* Every step keeps it.
LEMMA StepKeepsHoster == HosterInv /\ [Next]_vars => HosterInv'
PROOF
  <1> SUFFICES ASSUME HosterInv, [Next]_vars PROVE HosterInv'
    OBVIOUS
  <1>1. /\ ThreadsOK /\ StreamOK /\ QueueOK /\ HistoryOK
        /\ Sent /\ Recording /\ Starting /\ Delivering /\ Joined
        /\ Destroying /\ Startless /\ Alone /\ Crashing /\ Stopping
    BY DEF HosterInv, TypeOK
  <1>2. ThreadsOK' /\ StreamOK' /\ QueueOK' /\ HistoryOK'
    BY <1>1, ThreadsStep, StreamStep, QueueStep, HistoryStep
  <1>3. Sent' /\ Recording' /\ Starting' /\ Delivering' /\ Joined' /\ Destroying'
    BY <1>1, SentStep, RecordingStep, StartingStep, DeliveringStep, JoinedStep,
       DestroyingStep
  <1>4. Startless' /\ Alone' /\ Crashing' /\ Stopping'
    BY <1>1, StartlessStep, AloneStep, CrashingStep, StoppingStep
  <1> QED
    BY <1>2, <1>3, <1>4 DEF HosterInv, TypeOK

\* The invariant holds always.
THEOREM HosterAlwaysConsistent == Spec => []HosterInv
PROOF
  BY InitHoster, StepKeepsHoster, PTL DEF Spec

\* Every field always holds what the code stores there.
THEOREM TypeCorrect == Spec => []TypeOK
PROOF
  <1>1. HosterInv => TypeOK
    BY DEF HosterInv
  <1> QED
    BY <1>1, HosterAlwaysConsistent, PTL

\* When the destructor has returned, nothing records and no message is left; and no
\* push thread is, unless a start was unhandled when it began.
THEOREM DestroyedAlwaysClean == Spec => []DestroyedClean
PROOF
  <1>1. HosterInv => DestroyedClean
    <2> SUFFICES ASSUME HosterInv, pc["app"] = "gone"
                 PROVE  /\ ~recording /\ delayed = 0 /\ msgq = <<>>
                        /\ unhandled # "start" =>
                              pc["push"] = "exit" /\ pc["worker"] # "start stream"
      BY DEF DestroyedClean
    <2>1. ~recording /\ delayed = 0 /\ msgq = <<>>
      BY DEF HosterInv, Recording, Destroying
    <2>2. unhandled # "start" => av_rtmp = "none" /\ pc["worker"] # "start stream"
      BY DEF HosterInv, Startless, Ending, Stopped
    <2> QED
      BY <2>1, <2>2 DEF HosterInv, Joined
  <1> QED
    BY <1>1, HosterAlwaysConsistent, PTL

\* However hasty the application, the recorder is not inside the streamer when it
\* is deleted; and no other thread is, or ever gets there, if nothing was unhandled
\* when the destruction began.
THEOREM NeverDeleted == Spec => []NoDeletedStreamer
PROOF
  <1>1. HosterInv => NoDeletedStreamer
    <2> SUFFICES ASSUME HosterInv, ~streamer
                 PROVE  /\ pc["recorder"] \notin {"on data", "on aac"}
                        /\ unhandled = "nothing" =>
                              ~Uses /\ msgq = <<>> /\ delayed = 0 /\ ~crashed
      BY DEF NoDeletedStreamer
    <2>1. /\ pc["app"] \in Ending /\ pc["app"] \in Stopped
          /\ pc["app"] \in {"delete push", "join push", "clear queue", "gone"}
      BY DEF HosterInv, Destroying, Ending, Stopped
    <2>2. pc["recorder"] = "idle"
      BY <2>1 DEF HosterInv, Recording, Delivering
    <2>3. ASSUME unhandled = "nothing"
          PROVE  ~Uses /\ msgq = <<>> /\ delayed = 0 /\ ~crashed
      <3>1. msgq = <<>> /\ pc["worker"] = "idle"
        BY <2>1, <2>3 DEF HosterInv, Alone
      <3>2. delayed = 0 /\ av_rtmp = "none"
        BY <2>1, <2>3 DEF HosterInv, Startless
      <3>3. ~crashed
        BY <2>3 DEF HosterInv, Crashing
      <3>4. ~Uses
        BY <3>1, <3>2 DEF HosterInv, Joined, Uses
      <3> QED
        BY <3>1, <3>2, <3>3, <3>4
    <2> QED
      BY <2>2, <2>3
  <1> QED
    BY <1>1, HosterAlwaysConsistent, PTL

\* However hasty the application, a stream whose stop was handled is not recorded;
\* and it is silent unless that stop overtook a start.
THEOREM AlwaysSilent == Spec => []Silent
PROOF
  <1>1. HosterInv => Silent
    BY DEF HosterInv, Recording, Stopping, Silent, Settled
  <1> QED
    BY <1>1, HosterAlwaysConsistent, PTL
-----------------------------------------------------------------------------
(* Threads that wait for one another.                                      *)

\* Each thread keeps to its own code.
AtHome ==
    /\ pc["app"] \in {"ready", "start record", "stop record", "invoke", "last stop",
                      "stop stream", "join", "stop encoder", "delete", "delete push",
                      "join push", "clear queue", "gone"}
    /\ pc["worker"] \in {"idle", "start stream", "enable video", "stop stream", "join",
                         "stop encoder"}
    /\ pc["recorder"] \in {"idle", "on data", "on aac"}
    /\ pc["push"] \in {"exit", "loop", "connected", "lost"}

\* Where the holder of a lock is.
Holding ==
    /\ lock["record"] \in {"free", "recorder"}
    /\ lock["buffer"] \in {"free", "recorder"}
    /\ lock["buffer"] = "recorder" => pc["recorder"] = "on aac"
    /\ lock["stream"] \in {"free", "app", "worker"}
    /\ lock["stream"] = "app" => pc["app"] = "join"
    /\ lock["stream"] = "worker" => pc["worker"] = "join"

StopQueued(q) == \E i \in 1..Len(q) : q[i] = "stop"

\* The worker has a stop to handle, or is at it.
StopPending ==
    StopQueued(msgq) \/ pc["worker"] \in {"stop stream", "join", "stop encoder"}

\* An application that waits before it starts has stopped, and not started again,
\* while a stop is pending.
Obeying ==
    /\ StopPending => ~started /\ pc["app"] \notin {"start record", "stop record", "last stop"}
    /\ pc["app"] \in {"stop record", "last stop"} => ~started

LEMMA StopsInQueue ==
  ASSUME NEW q \in Seq({"start", "stop"})
  PROVE  /\ StopQueued(Append(q, "start")) => StopQueued(q)
         /\ q # <<>> /\ Head(q) # "start" => StopQueued(q)
         /\ q # <<>> /\ StopQueued(Tail(q)) => StopQueued(q)
         /\ ~StopQueued(<<>>)
PROOF
  <1>1. StopQueued(Append(q, "start")) => StopQueued(q)
    BY DEF StopQueued
  <1>2. q # <<>> => 1 \in 1..Len(q) /\ Head(q) = q[1] /\ Head(q) \in {"start", "stop"}
    OBVIOUS
  <1>3. q # <<>> /\ Head(q) # "start" => StopQueued(q)
    BY <1>2 DEF StopQueued
  <1>4. ASSUME q # <<>>, NEW i \in 1..Len(Tail(q)), Tail(q)[i] = "stop"
        PROVE  StopQueued(q)
    <2>1. i + 1 \in 1..Len(q) /\ q[i + 1] = "stop"
      BY <1>4
    <2> QED
      BY <2>1 DEF StopQueued
  <1>5. q # <<>> /\ StopQueued(Tail(q)) => StopQueued(q)
    BY <1>4 DEF StopQueued
  <1>6. ~StopQueued(<<>>)
    BY DEF StopQueued
  <1> QED
    BY <1>1, <1>3, <1>5, <1>6

LEMMA AtHomeStep ==
  ASSUME ThreadsOK, AtHome, [Next]_vars
  PROVE  AtHome'
PROOF
  <1>1. CASE StartRtmpStream
    BY <1>1 DEF StartRtmpStream, Go, ThreadsOK, Threads, AtHome
  <1>2. CASE StopRtmpStream
    BY <1>2 DEF StopRtmpStream, Go, ThreadsOK, Threads, AtHome
  <1>3. CASE Clear
    BY <1>3 DEF Clear, Go, ThreadsOK, Threads, AtHome
  <1>4. CASE StartRecord
    BY <1>4 DEF StartRecord, Go, ThreadsOK, Threads, AtHome
  <1>5. CASE StopRecord("stop record", "ready")
    BY <1>5 DEF StopRecord, Go, ThreadsOK, Threads, AtHome
  <1>6. CASE StopRecord("last stop", "stop stream")
    BY <1>6 DEF StopRecord, Go, ThreadsOK, Threads, AtHome
  <1>7. CASE ReceiveSends
    BY <1>7 DEF ReceiveSends, Go, ThreadsOK, Threads, AtHome
  <1>8. CASE StopStream("app")
    BY <1>8 DEF StopStream, Go, ThreadsOK, Threads, AtHome
  <1>9. CASE Join("app")
    BY <1>9 DEF Join, Go, ThreadsOK, Threads, AtHome
  <1>10. CASE StopEncoder("app")
    BY <1>10 DEF StopEncoder, After, Go, ThreadsOK, Threads, AtHome
  <1>11. CASE DeleteEncoders
    BY <1>11 DEF DeleteEncoders, Go, ThreadsOK, Threads, AtHome
  <1>12. CASE DeletePush
    BY <1>12 DEF DeletePush, Go, ThreadsOK, Threads, AtHome
  <1>13. CASE JoinPush
    BY <1>13 DEF JoinPush, Go, Free, ThreadsOK, Threads, AtHome
  <1>14. CASE ClearQueue
    BY <1>14 DEF ClearQueue, Go, ThreadsOK, Threads, AtHome
  <1>15. CASE Due
    BY <1>15 DEF Due, Go, ThreadsOK, Threads, AtHome
  <1>16. CASE OnMessage
    BY <1>16 DEF OnMessage, Go, ThreadsOK, Threads, AtHome
  <1>17. CASE StartStream
    BY <1>17 DEF StartStream, Go, ThreadsOK, Threads, AtHome
  <1>18. CASE SetVideoEnable
    BY <1>18 DEF SetVideoEnable, Go, Free, ThreadsOK, Threads, AtHome
  <1>19. CASE StopStream("worker")
    BY <1>19 DEF StopStream, Go, ThreadsOK, Threads, AtHome
  <1>20. CASE Join("worker")
    BY <1>20 DEF Join, Go, ThreadsOK, Threads, AtHome
  <1>21. CASE StopEncoder("worker")
    BY <1>21 DEF StopEncoder, After, Go, ThreadsOK, Threads, AtHome
  <1>22. CASE Record
    BY <1>22 DEF Record, Go, ThreadsOK, Threads, AtHome
  <1>23. CASE OnData
    BY <1>23 DEF OnData, Go, ThreadsOK, Threads, AtHome
  <1>24. CASE OnAACData
    BY <1>24 DEF OnAACData, Go, ThreadsOK, Threads, AtHome
  <1>25. CASE Turn
    BY <1>25 DEF Turn, Go, ThreadsOK, Threads, AtHome
  <1>26. CASE Callback
    BY <1>26 DEF Callback, Go, ThreadsOK, Threads, AtHome
  <1>27. CASE Crash
    BY <1>27 DEF Crash, ThreadsOK, Threads, AtHome
  <1>28. CASE UNCHANGED vars
    BY <1>28 DEF vars, calls, queue, stream, Go, ThreadsOK, Threads, AtHome
  <1> QED
    BY <1>1, <1>2, <1>3, <1>4, <1>5, <1>6, <1>7, <1>8, <1>9, <1>10, <1>11, <1>12,
       <1>13, <1>14, <1>15, <1>16, <1>17, <1>18, <1>19, <1>20, <1>21, <1>22, <1>23,
       <1>24, <1>25, <1>26, <1>27, <1>28
       DEF Next, Call, AppStep, WorkerStep, StopSteps, RecorderStep, PushStep

LEMMA HoldingStep ==
  ASSUME ThreadsOK, AtHome, Holding, [Next]_vars
  PROVE  Holding'
PROOF
  <1>1. CASE StartRtmpStream
    BY <1>1 DEF StartRtmpStream, Go, Free, ThreadsOK, Threads, Locks, AtHome, Holding
  <1>2. CASE StopRtmpStream
    BY <1>2 DEF StopRtmpStream, Go, Free, ThreadsOK, Threads, Locks, AtHome, Holding
  <1>3. CASE Clear
    BY <1>3 DEF Clear, Go, Free, ThreadsOK, Threads, Locks, AtHome, Holding
  <1>4. CASE StartRecord
    BY <1>4 DEF StartRecord, Go, Free, ThreadsOK, Threads, Locks, AtHome, Holding
  <1>5. CASE StopRecord("stop record", "ready")
    BY <1>5 DEF StopRecord, Go, Free, ThreadsOK, Threads, Locks, AtHome, Holding
  <1>6. CASE StopRecord("last stop", "stop stream")
    BY <1>6 DEF StopRecord, Go, Free, ThreadsOK, Threads, Locks, AtHome, Holding
  <1>7. CASE ReceiveSends
    BY <1>7 DEF ReceiveSends, Go, Free, ThreadsOK, Threads, Locks, AtHome, Holding
  <1>8. CASE StopStream("app")
    BY <1>8 DEF StopStream, Go, Free, ThreadsOK, Threads, Locks, AtHome, Holding
  <1>9. CASE Join("app")
    BY <1>9 DEF Join, Go, Free, ThreadsOK, Threads, Locks, AtHome, Holding
  <1>10. CASE StopEncoder("app")
    BY <1>10
       DEF StopEncoder, After, Go, Free, ThreadsOK, Threads, Locks, AtHome, Holding
  <1>11. CASE DeleteEncoders
    BY <1>11 DEF DeleteEncoders, Go, Free, ThreadsOK, Threads, Locks, AtHome, Holding
  <1>12. CASE DeletePush
    BY <1>12 DEF DeletePush, Go, Free, ThreadsOK, Threads, Locks, AtHome, Holding
  <1>13. CASE JoinPush
    BY <1>13 DEF JoinPush, Go, Free, ThreadsOK, Threads, Locks, AtHome, Holding
  <1>14. CASE ClearQueue
    BY <1>14 DEF ClearQueue, Go, Free, ThreadsOK, Threads, Locks, AtHome, Holding
  <1>15. CASE Due
    BY <1>15 DEF Due, Go, Free, ThreadsOK, Threads, Locks, AtHome, Holding
  <1>16. CASE OnMessage
    BY <1>16 DEF OnMessage, Go, Free, ThreadsOK, Threads, Locks, AtHome, Holding
  <1>17. CASE StartStream
    BY <1>17 DEF StartStream, Go, Free, ThreadsOK, Threads, Locks, AtHome, Holding
  <1>18. CASE SetVideoEnable
    BY <1>18 DEF SetVideoEnable, Go, Free, ThreadsOK, Threads, Locks, AtHome, Holding
  <1>19. CASE StopStream("worker")
    BY <1>19 DEF StopStream, Go, Free, ThreadsOK, Threads, Locks, AtHome, Holding
  <1>20. CASE Join("worker")
    BY <1>20 DEF Join, Go, Free, ThreadsOK, Threads, Locks, AtHome, Holding
  <1>21. CASE StopEncoder("worker")
    BY <1>21
       DEF StopEncoder, After, Go, Free, ThreadsOK, Threads, Locks, AtHome, Holding
  <1>22. CASE Record
    BY <1>22 DEF Record, Go, Free, ThreadsOK, Threads, Locks, AtHome, Holding
  <1>23. CASE OnData
    BY <1>23 DEF OnData, Go, Free, ThreadsOK, Threads, Locks, AtHome, Holding
  <1>24. CASE OnAACData
    BY <1>24 DEF OnAACData, Go, Free, ThreadsOK, Threads, Locks, AtHome, Holding
  <1>25. CASE Turn
    BY <1>25 DEF Turn, Go, Free, ThreadsOK, Threads, Locks, AtHome, Holding
  <1>26. CASE Callback
    BY <1>26 DEF Callback, Go, Free, ThreadsOK, Threads, Locks, AtHome, Holding
  <1>27. CASE Crash
    BY <1>27 DEF Crash, ThreadsOK, Threads, Locks, AtHome, Holding
  <1>28. CASE UNCHANGED vars
    BY <1>28
       DEF vars, calls, queue, stream, Go, Free, ThreadsOK, Threads, Locks, AtHome,
           Holding
  <1> QED
    BY <1>1, <1>2, <1>3, <1>4, <1>5, <1>6, <1>7, <1>8, <1>9, <1>10, <1>11, <1>12,
       <1>13, <1>14, <1>15, <1>16, <1>17, <1>18, <1>19, <1>20, <1>21, <1>22, <1>23,
       <1>24, <1>25, <1>26, <1>27, <1>28
       DEF Next, Call, AppStep, WorkerStep, StopSteps, RecorderStep, PushStep

LEMMA ObeyingStep ==
  ASSUME ThreadsOK, QueueOK, Obeying, WaitsToStart, [Next]_vars
  PROVE  Obeying'
PROOF
  <1>1. CASE StartRtmpStream
    <2>1. Settled /\ started' /\ pc' = [pc EXCEPT !["app"] = "start record"] /\ msgq' = msgq
      BY <1>1 DEF StartRtmpStream, Go, queue
    <2>2. ~StopPending'
      BY <2>1, StopsInQueue DEF Settled, StopPending, ThreadsOK, Threads, QueueOK
    <2> QED
      BY <2>1, <2>2 DEF Obeying, ThreadsOK, Threads
  <1>2. CASE StopRtmpStream
    BY <1>2
       DEF StopRtmpStream, Go, ThreadsOK, Threads, Settled, Obeying, StopPending,
           calls, queue
  <1>3. CASE Clear
    BY <1>3
       DEF Clear, Go, ThreadsOK, Threads, Settled, Obeying, StopPending, calls, queue
  <1>4. CASE StartRecord
    BY <1>4
       DEF StartRecord, Go, ThreadsOK, Threads, Settled, Obeying, StopPending, calls,
           queue
  <1>5. CASE StopRecord("stop record", "ready")
    BY <1>5
       DEF StopRecord, Go, ThreadsOK, Threads, Settled, Obeying, StopPending, calls,
           queue
  <1>6. CASE StopRecord("last stop", "stop stream")
    BY <1>6
       DEF StopRecord, Go, ThreadsOK, Threads, Settled, Obeying, StopPending, calls,
           queue
  <1>7. CASE ReceiveSends
    BY <1>7
       DEF ReceiveSends, Go, ThreadsOK, Threads, Settled, Obeying, StopPending, calls,
           queue
  <1>8. CASE StopStream("app")
    BY <1>8
       DEF StopStream, Go, ThreadsOK, Threads, Settled, Obeying, StopPending, calls,
           queue
  <1>9. CASE Join("app")
    BY <1>9
       DEF Join, Go, ThreadsOK, Threads, Settled, Obeying, StopPending, calls, queue
  <1>10. CASE StopEncoder("app")
    BY <1>10
       DEF StopEncoder, After, Go, ThreadsOK, Threads, Settled, Obeying, StopPending,
           calls, queue
  <1>11. CASE DeleteEncoders
    BY <1>11
       DEF DeleteEncoders, Go, ThreadsOK, Threads, Settled, Obeying, StopPending,
           calls, queue
  <1>12. CASE DeletePush
    BY <1>12
       DEF DeletePush, Go, ThreadsOK, Threads, Settled, Obeying, StopPending, calls,
           queue
  <1>13. CASE JoinPush
    BY <1>13
       DEF JoinPush, Go, Free, ThreadsOK, Threads, Settled, Obeying, StopPending,
           calls, queue
  <1>14. CASE ClearQueue
    <2>1. /\ msgq' = <<>> /\ pc'["worker"] = pc["worker"] /\ pc'["app"] = "gone"
          /\ started' = started
      BY <1>14 DEF ClearQueue, Go, ThreadsOK, Threads, calls
    <2>2. StopPending' => StopPending
      BY <2>1, StopsInQueue DEF QueueOK, StopPending
    <2> QED
      BY <2>1, <2>2 DEF Obeying
  <1>15. CASE Due
    <2>1. StopPending' => StopPending
      BY <1>15, StopsInQueue DEF Due, QueueOK, StopPending
    <2> QED
      BY <1>15, <2>1 DEF Due, Obeying, calls
  <1>16. CASE OnMessage
    <2>1. /\ msgq # <<>> /\ msgq' = Tail(msgq) /\ pc'["app"] = pc["app"] /\ started' = started
          /\ pc'["worker"] = IF Head(msgq) = "start" THEN "start stream" ELSE "stop stream"
      BY <1>16 DEF OnMessage, Go, ThreadsOK, Threads, calls
    <2>2. StopPending' => StopPending
      BY <2>1, StopsInQueue DEF QueueOK, StopPending
    <2> QED
      BY <2>1, <2>2 DEF Obeying
  <1>17. CASE StartStream
    BY <1>17
       DEF StartStream, Go, ThreadsOK, Threads, Settled, Obeying, StopPending, calls,
           queue
  <1>18. CASE SetVideoEnable
    BY <1>18
       DEF SetVideoEnable, Go, Free, ThreadsOK, Threads, Settled, Obeying,
           StopPending, calls, queue
  <1>19. CASE StopStream("worker")
    BY <1>19
       DEF StopStream, Go, ThreadsOK, Threads, Settled, Obeying, StopPending, calls,
           queue
  <1>20. CASE Join("worker")
    BY <1>20
       DEF Join, Go, ThreadsOK, Threads, Settled, Obeying, StopPending, calls, queue
  <1>21. CASE StopEncoder("worker")
    BY <1>21
       DEF StopEncoder, After, Go, ThreadsOK, Threads, Settled, Obeying, StopPending,
           calls, queue
  <1>22. CASE Record
    BY <1>22
       DEF Record, Go, ThreadsOK, Threads, Settled, Obeying, StopPending, calls, queue
  <1>23. CASE OnData
    BY <1>23
       DEF OnData, Go, ThreadsOK, Threads, Settled, Obeying, StopPending, calls, queue
  <1>24. CASE OnAACData
    BY <1>24
       DEF OnAACData, Go, ThreadsOK, Threads, Settled, Obeying, StopPending, calls,
           queue
  <1>25. CASE Turn
    BY <1>25
       DEF Turn, Go, ThreadsOK, Threads, Settled, Obeying, StopPending, calls, queue
  <1>26. CASE Callback
    BY <1>26
       DEF Callback, Go, ThreadsOK, Threads, Settled, Obeying, StopPending, calls,
           queue
  <1>27. CASE Crash
    BY <1>27 DEF Crash, ThreadsOK, Threads, Settled, Obeying, StopPending, calls, queue
  <1>28. CASE UNCHANGED vars
    BY <1>28
       DEF vars, calls, queue, stream, Go, ThreadsOK, Threads, Settled, Obeying,
           StopPending
  <1> QED
    BY <1>1, <1>2, <1>3, <1>4, <1>5, <1>6, <1>7, <1>8, <1>9, <1>10, <1>11, <1>12,
       <1>13, <1>14, <1>15, <1>16, <1>17, <1>18, <1>19, <1>20, <1>21, <1>22, <1>23,
       <1>24, <1>25, <1>26, <1>27, <1>28
       DEF Next, Call, AppStep, WorkerStep, StopSteps, RecorderStep, PushStep

\* The three of them hold at the beginning.
LEMMA InitHolding == Init => AtHome /\ Holding /\ Obeying
PROOF
  <1> SUFFICES ASSUME Init PROVE AtHome /\ Holding /\ Obeying
    OBVIOUS
  <1>1. /\ pc["app"] = "ready" /\ pc["worker"] = "idle"
        /\ pc["recorder"] = "idle" /\ pc["push"] = "exit"
    BY DEF Init, Threads
  <1>2. lock["record"] = "free" /\ lock["buffer"] = "free" /\ lock["stream"] = "free"
    BY DEF Init, Locks
  <1>3. msgq = <<>> /\ msgq \in Seq({"start", "stop"})
    BY DEF Init
  <1>4. ~StopQueued(msgq)
    BY <1>3, StopsInQueue
  <1>5. Obeying
    BY <1>1, <1>4 DEF Obeying, StopPending
  <1> QED
    BY <1>1, <1>2, <1>5 DEF AtHome, Holding

\* The recorder is idle while anyone holds cs_av_rtmp_, and so waits for nobody.
LEMMA RecorderWaitsForNobody ==
  ASSUME HosterInv, AtHome, Holding, Obeying, NEW u \in Threads
  PROVE  ~Awaits("recorder", u)
PROOF
  <1>1. pc["recorder"] = "on data" => lock["buffer"] # u
    BY DEF Holding, Threads
  <1>2. lock["stream"] = "app" => pc["recorder"] = "idle"
    BY DEF Holding, HosterInv, Recording, Delivering
  <1>3. lock["stream"] = "worker" => pc["recorder"] = "idle"
    BY DEF Holding, HosterInv, Recording, Delivering, Obeying, StopPending
  <1>4. pc["recorder"] = "on aac" => lock["stream"] # u
    BY <1>2, <1>3 DEF Holding, Threads
  <1> QED
    BY <1>1, <1>4 DEF Awaits, AtHome

LEMMA NoCircleInv ==
  ASSUME HosterInv, AtHome, Holding, Obeying
  PROVE  NoCircle
PROOF
  <1> SUFFICES ASSUME NEW S \in SUBSET Threads, S # {}
               PROVE  \E t \in S : \A u \in S : ~Awaits(t, u)
    BY DEF NoCircle
  <1>1. CASE "recorder" \in S
    <2>1. ASSUME NEW u \in S  PROVE ~Awaits("recorder", u)
      <3>1. u \in Threads
        OBVIOUS
      <3> QED
        BY <3>1, RecorderWaitsForNobody
    <2> QED
      BY <1>1, <2>1
  <1>2. CASE "recorder" \notin S /\ "push" \in S
    <2>1. ASSUME NEW u \in S  PROVE ~Awaits("push", u)
      <3>1. u # "recorder"
        BY <1>2
      <3>2. lock["buffer"] # u
        BY <3>1, <1>2 DEF Holding, Threads
      <3>3. /\ pc["push"] \notin {"start record", "stop record", "last stop"}
            /\ pc["push"] \notin {"start stream", "stop stream", "on aac"}
            /\ pc["push"] \notin {"join", "join push"}
            /\ pc["push"] # "invoke"
        BY DEF AtHome
      <3> QED
        BY <3>2, <3>3 DEF Awaits
    <2> QED
      BY <1>2, <2>1
  <1>3. CASE "recorder" \notin S /\ "push" \notin S
    <2>1. S \subseteq {"app", "worker"}
      BY <1>3 DEF Threads
    <2>2. CASE "worker" \notin S
      <3>1. ~Awaits("app", "app")
        BY DEF Awaits, AtHome, Holding
      <3> QED
        BY <2>1, <2>2, <3>1
    <2>3. CASE "worker" \in S /\ ~Awaits("worker", "app")
      <3>1. ~Awaits("worker", "worker")
        BY DEF Awaits, AtHome, Holding
      <3> QED
        BY <2>1, <2>3, <3>1
    <2>4. CASE "worker" \in S /\ Awaits("worker", "app")
      <3>1. pc["app"] = "join"
        BY <2>4 DEF Awaits, AtHome, Holding
      <3>2. ~Awaits("app", "app") /\ ~Awaits("app", "worker")
        BY <3>1 DEF Awaits
      <3>3. CASE "app" \in S
        BY <2>1, <3>2, <3>3
      <3>4. CASE "app" \notin S
        <4>1. ~Awaits("worker", "worker")
          BY DEF Awaits, AtHome, Holding
        <4> QED
          BY <2>1, <2>4, <3>4, <4>1
      <3> QED
        BY <3>3, <3>4
    <2> QED
      BY <2>2, <2>3, <2>4
  <1> QED
    BY <1>1, <1>2, <1>3

\* If the application waits before it starts, no threads ever wait for one another
\* in a circle, however often it starts and stops, and in its destructor too.
THEOREM NeverInCircle ==
  ASSUME WaitsToStart
  PROVE  Spec => []NoCircle
PROOF
  <1>1. HosterInv /\ AtHome /\ [Next]_vars => AtHome'
    BY AtHomeStep DEF HosterInv, TypeOK
  <1>2. HosterInv /\ AtHome /\ Holding /\ [Next]_vars => Holding'
    BY HoldingStep DEF HosterInv, TypeOK
  <1>3. HosterInv /\ Obeying /\ [Next]_vars => Obeying'
    BY ObeyingStep DEF HosterInv, TypeOK
  <1>4. HosterInv /\ AtHome /\ Holding /\ Obeying => NoCircle
    BY NoCircleInv
  <1> QED
    BY <1>1, <1>2, <1>3, <1>4, InitHolding, HosterAlwaysConsistent, PTL DEF Spec
===============================================================================
