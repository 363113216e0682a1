--------------------------- MODULE HosterControl ---------------------------
(***************************************************************************)
(* RtmpHosterImpl (core/RtmpHosterImpl.cc): how an application starts,     *)
(* stops and destroys a stream.  RtmpPush takes over inside one stream.    *)
(*                                                                         *)
(* Four threads meet in the streamer and its locks:                        *)
(*                                                                         *)
(*   app       the looper on which every call of the API runs              *)
(*   worker    AnyRtmpCore::Run, which handles MSG_START_RTMP, posted with *)
(*             a delay of 500 ms, and MSG_STOP_RTMP, posted with none      *)
(*   recorder  the audio device's callback                                 *)
(*   push      AnyRtmpPush::Run, which starts and stops the encoders       *)
(*                                                                         *)
(* The application may stop and destroy at any time: HosterActivity        *)
(* destroys right after it stops, and may stop within the 500 ms.          *)
(*                                                                         *)
(* ~RtmpHosterImpl does not wait for OnMessage.  A thread that uses the    *)
(* streamer after its deletion began does what it would with the memory as *)
(* it was, or brings the process down (Crash).                             *)
(***************************************************************************)
EXTENDS Naturals, Sequences

CONSTANTS WaitsToStart,  \* the application starts again only when the worker has
                         \* handled all that was sent before
          MaxStarts      \* bound: calls of StartRtmpStream

ASSUME HosterAssumption == WaitsToStart \in BOOLEAN /\ MaxStarts \in Nat

VARIABLES
    pc,          \* where each thread is
    lock,        \* who holds each lock
    started,     \* av_rtmp_started_
    recording,   \* audio_record_callback_ is set
    delayed,     \* number of start messages not yet due
    msgq,        \* messages that are due
    streamer,    \* av_rtmp_streamer_ exists
    av_rtmp,     \* its AnyRtmpPush: "none", "live" or "closing"
    encoded,     \* its AAC encoder runs
    starts,      \* calls of StartRtmpStream, for the bound
    crashed      \* the process died of a use of the deleted streamer

\* History: what the code does not keep.
VARIABLES
    overtaking,  \* the last stop was sent when a start was not yet due
    unhandled    \* what the worker still had to do when the destruction began:
                 \* "nothing", a "stop" and no start, or a "start"

calls == <<started, starts, recording>>
queue == <<delayed, msgq>>
stream == <<streamer, av_rtmp, encoded>>
history == <<overtaking, unhandled>>
vars == <<pc, lock, calls, queue, stream, crashed, history>>

Threads == {"app", "worker", "recorder", "push"}
Locks == {"record", "buffer", "stream"}

\* cs_audio_record_ of the core, buffer_critsect_ of the AAC encoder and
\* cs_av_rtmp_ of the streamer.
Free(l) == lock[l] = "free"

Init ==
    /\ pc = [t \in Threads |-> CASE t = "app" -> "ready" [] t = "push" -> "exit"
                                 [] OTHER -> "idle"]
    /\ lock = [l \in Locks |-> "free"]
    /\ started = FALSE /\ recording = FALSE /\ starts = 0
    /\ delayed = 0 /\ msgq = <<>>
    /\ streamer = TRUE /\ av_rtmp = "none" /\ encoded = FALSE /\ crashed = FALSE
    /\ overtaking = FALSE /\ unhandled = "nothing"

\* Thread t goes from one place to another.
Go(t, from, to) ==
    /\ ~crashed /\ crashed' = crashed
    /\ pc[t] = from /\ pc' = [pc EXCEPT ![t] = to]

-----------------------------------------------------------------------------
(* The application.                                                        *)

Settled == delayed = 0 /\ msgq = <<>> /\ pc["worker"] = "idle"

\* Not started yet; otherwise the call does nothing.
StartRtmpStream ==
    /\ WaitsToStart => Settled
    /\ ~started /\ starts < MaxStarts
    /\ Go("app", "ready", "start record")
    /\ started' = TRUE /\ starts' = starts + 1
    /\ UNCHANGED <<lock, recording, queue, stream, history>>

\* AnyRtmpCore::StartAudioRecord, then PostDelayed.
StartRecord ==
    /\ Free("record")
    /\ Go("app", "start record", "ready")
    /\ recording' = TRUE
    /\ delayed' = delayed + 1
    /\ UNCHANGED <<lock, started, starts, msgq, stream, history>>

StopRtmpStream ==
    /\ started
    /\ Go("app", "ready", "stop record")
    /\ started' = FALSE
    /\ UNCHANGED <<lock, starts, recording, queue, stream, history>>

\* Variant: the recorder keeps its callback.
KeepRecording(from, to) ==
    /\ Free("record")
    /\ Go("app", from, to)
    /\ msgq' = Append(msgq, "stop")
    /\ overtaking' = (delayed > 0)
    /\ UNCHANGED <<lock, calls, delayed, stream, unhandled>>

\* Variant: the worker is not told.
StopUnposted(from, to) ==
    /\ Free("record")
    /\ Go("app", from, to)
    /\ recording' = FALSE
    /\ overtaking' = (delayed > 0)
    /\ UNCHANGED <<lock, started, starts, queue, stream, unhandled>>

\* AnyRtmpCore::StopAudioRecord, then Post.
StopRecord(from, to) ==
    /\ Free("record")
    /\ Go("app", from, to)
    /\ recording' = FALSE
    /\ msgq' = Append(msgq, "stop")
    /\ overtaking' = (delayed > 0)
    /\ UNCHANGED <<lock, started, starts, delayed, stream, unhandled>>

\* A start that the worker has not begun to handle.
StartUnhandled == delayed > 0 \/ \E i \in 1..Len(msgq) : msgq[i] = "start"

\* JRTMPHosterImpl::Close begins with SetVideoCapturer(NULL), which waits for
\* the worker to come back to its queue and do it.
Clear ==
    /\ Go("app", "ready", "invoke")
    /\ UNCHANGED <<lock, calls, queue, stream, history>>

ReceiveSends ==
    /\ pc["worker"] = "idle"
    /\ Go("app", "invoke", IF started THEN "last stop" ELSE "stop stream")
    /\ started' = FALSE
    /\ unhandled' = CASE StartUnhandled -> "start"
                      [] ~StartUnhandled /\ (started \/ msgq # <<>>) -> "stop"
                      [] OTHER -> "nothing"
    /\ UNCHANGED <<lock, starts, recording, queue, stream, overtaking>>

\* ~RtmpHosterImpl, after its own StopStream: the streamer is deleted, first its
\* encoders and then an AnyRtmpPush that was made in the meantime, with no lock.
DeleteEncoders ==
    /\ Go("app", "delete", "delete push")
    /\ streamer' = FALSE /\ encoded' = FALSE
    /\ UNCHANGED <<lock, calls, queue, av_rtmp, history>>

DeletePush ==
    /\ IF av_rtmp = "none"
       THEN Go("app", "delete push", "clear queue") /\ UNCHANGED av_rtmp
       ELSE Go("app", "delete push", "join push") /\ av_rtmp' = "closing"
    /\ UNCHANGED <<lock, calls, queue, streamer, encoded, history>>

JoinPush ==
    /\ pc["push"] = "exit"
    /\ Go("app", "join push", "clear queue")
    /\ av_rtmp' = "none"
    /\ UNCHANGED <<lock, calls, queue, streamer, encoded, history>>

\* Variant: messages survive the object they are for.
KeepQueue ==
    /\ Go("app", "clear queue", "gone")
    /\ UNCHANGED <<lock, calls, queue, stream, history>>

\* ~MessageHandler removes the messages that are still queued.
ClearQueue ==
    /\ Go("app", "clear queue", "gone")
    /\ delayed' = 0 /\ msgq' = <<>>
    /\ UNCHANGED <<lock, calls, stream, history>>

-----------------------------------------------------------------------------
(* AnyRtmpStreamerImpl::StopStream, on the worker or in the destructor.    *)

After(t) == IF t = "worker" THEN "idle" ELSE "delete"

\* Under cs_av_rtmp_: the destructor of AnyRtmpPush begins, if there is one.
StopStream(t) ==
    /\ Free("stream")
    /\ IF av_rtmp = "none"
       THEN Go(t, "stop stream", "stop encoder") /\ UNCHANGED <<lock, stream>>
       ELSE /\ Go(t, "stop stream", "join")
            /\ lock' = [lock EXCEPT !["stream"] = t]
            /\ av_rtmp' = "closing"
            /\ UNCHANGED <<streamer, encoded>>
    /\ UNCHANGED <<calls, queue, history>>

\* Variant: nobody waits for the push thread.
JoinAtOnce(t) ==
    /\ Go(t, "join", "stop encoder")
    /\ lock' = [lock EXCEPT !["stream"] = "free"]
    /\ av_rtmp' = "none"
    /\ UNCHANGED <<calls, queue, streamer, encoded, history>>

\* Variant: the pointer is not reset.
JoinAndKeep(t) ==
    /\ pc["push"] = "exit"
    /\ Go(t, "join", "stop encoder")
    /\ lock' = [lock EXCEPT !["stream"] = "free"]
    /\ av_rtmp' = "dangling"
    /\ UNCHANGED <<calls, queue, streamer, encoded, history>>

\* It returns when the push thread has ended.  Two deletions of one AnyRtmpPush end
\* in Crash.
Join(t) ==
    /\ pc["push"] = "exit" /\ pc["app"] # "join push"
    /\ Go(t, "join", "stop encoder")
    /\ lock' = [lock EXCEPT !["stream"] = "free"]
    /\ av_rtmp' = "none"
    /\ UNCHANGED <<calls, queue, streamer, encoded, history>>

\* Variant: the encoders are left to the push thread.
LeaveEncoder(t) ==
    /\ Go(t, "stop encoder", After(t))
    /\ UNCHANGED <<lock, calls, queue, stream, history>>

StopEncoder(t) ==
    /\ Free("buffer")
    /\ Go(t, "stop encoder", After(t))
    /\ encoded' = FALSE
    /\ UNCHANGED <<lock, calls, queue, streamer, av_rtmp, history>>

StopSteps(t) == StopStream(t) \/ Join(t) \/ StopEncoder(t)

AppStep ==
    \/ StartRecord
    \/ StopRecord("stop record", "ready")
    \/ StopRecord("last stop", "stop stream")
    \/ ReceiveSends \/ StopSteps("app") \/ DeleteEncoders \/ DeletePush \/ JoinPush
    \/ ClearQueue

-----------------------------------------------------------------------------
(* The worker.                                                             *)

\* MessageQueue::Get moves what has become due behind what was posted.
Due ==
    /\ ~crashed /\ pc["worker"] = "idle" /\ delayed > 0
    /\ delayed' = delayed - 1
    /\ msgq' = Append(msgq, "start")
    /\ UNCHANGED <<pc, lock, calls, stream, crashed, history>>

\* The streamer is gone, the pointer to it is null, and messages are still handed out.
NullStreamer == pc["app"] = "clear queue"

\* The head of the queue is handed to OnMessage.
OnMessage ==
    /\ msgq # <<>> /\ ~NullStreamer
    /\ Go("worker", "idle", IF Head(msgq) = "start" THEN "start stream" ELSE "stop stream")
    /\ msgq' = Tail(msgq)
    /\ UNCHANGED <<lock, calls, delayed, stream, history>>

\* AnyRtmpStreamerImpl::StartStream
StartStream ==
    /\ ~crashed /\ Free("stream")
    /\ pc["worker"] = "start stream"
    /\ IF av_rtmp = "none"
       THEN /\ av_rtmp' = "live"
            /\ pc' = [pc EXCEPT !["worker"] = "enable video", !["push"] = "loop"]
       ELSE /\ pc' = [pc EXCEPT !["worker"] = "enable video"]
            /\ UNCHANGED av_rtmp
    /\ UNCHANGED <<lock, calls, queue, streamer, encoded, crashed, history>>

\* OnMessage still uses the streamer after a start.
SetVideoEnable ==
    /\ Go("worker", "enable video", "idle")
    /\ UNCHANGED <<lock, calls, queue, stream, history>>

WorkerStep == Due \/ OnMessage \/ StartStream \/ SetVideoEnable \/ StopSteps("worker")

\* The worker is inside the streamer, or about to be, or the push thread calls it.
Uses == \/ pc["worker"] # "idle" \/ pc["push"] \in {"connected", "lost"}
        \/ NullStreamer /\ msgq # <<>>

Crash ==
    /\ ~crashed /\ ~streamer /\ Uses
    /\ crashed' = TRUE
    /\ UNCHANGED <<pc, lock, calls, queue, stream, history>>

-----------------------------------------------------------------------------
(* The recorder and the push thread.                                       *)

\* RecordedDataIsAvailable holds cs_audio_record_ through the callback.
Record ==
    /\ recording /\ Free("record")
    /\ Go("recorder", "idle", "on data")
    /\ lock' = [lock EXCEPT !["record"] = "recorder"]
    /\ UNCHANGED <<calls, queue, stream, history>>

\* A_AACEncoder::OnData holds buffer_critsect_ through the encoding.
OnData ==
    /\ Free("buffer")
    /\ IF encoded
       THEN /\ Go("recorder", "on data", "on aac")
            /\ lock' = [lock EXCEPT !["buffer"] = "recorder"]
       ELSE /\ Go("recorder", "on data", "idle")
            /\ lock' = [lock EXCEPT !["record"] = "free"]
    /\ UNCHANGED <<calls, queue, stream, history>>

\* OnAACData takes cs_av_rtmp_, and then all three locks are released.
OnAACData ==
    /\ Free("stream")
    /\ Go("recorder", "on aac", "idle")
    /\ lock' = [lock EXCEPT !["record"] = "free", !["buffer"] = "free"]
    /\ UNCHANGED <<calls, queue, stream, history>>

RecorderStep == OnData \/ OnAACData

\* One turn of AnyRtmpPush::Run, which may connect or lose the stream.
Turn ==
    /\ \/ av_rtmp = "closing" /\ Go("push", "loop", "exit")
       \/ av_rtmp = "live" /\ \E outcome \in {"connected", "lost"} : Go("push", "loop", outcome)
    /\ UNCHANGED <<lock, calls, queue, stream, history>>

\* OnRtmpConnected, OnRtmpReconnecting and OnRtmpDisconnect of the streamer.
Callback ==
    /\ Free("buffer")
    /\ \/ Go("push", "connected", "loop") /\ encoded' = streamer
       \/ Go("push", "lost", "loop") /\ encoded' = FALSE
    /\ UNCHANGED <<lock, calls, queue, streamer, av_rtmp, history>>

PushStep == Turn \/ Callback

-----------------------------------------------------------------------------

Call == StartRtmpStream \/ StopRtmpStream \/ Clear

Next == Call \/ AppStep \/ WorkerStep \/ Record \/ RecorderStep \/ PushStep \/ Crash

\* Every thread that can run does, and one that waits for a lock which is free
\* again and again gets it: the recorder delivers every 10 ms and holds its locks
\* for a fraction of that.  Nothing makes the application call, or the recorder
\* deliver.
Spec == Init /\ [][Next]_vars
             /\ SF_vars(AppStep) /\ SF_vars(WorkerStep)
             /\ SF_vars(RecorderStep) /\ SF_vars(PushStep)

-----------------------------------------------------------------------------
(* Properties.                                                             *)

Places == {"ready", "start record", "stop record", "invoke", "last stop", "stop stream",
           "join", "stop encoder", "delete", "delete push", "join push", "clear queue",
           "gone", "idle", "start stream", "enable video", "on data", "on aac", "loop",
           "connected", "lost", "exit"}

ThreadsOK ==
    /\ pc \in [Threads -> Places]
    /\ lock \in [Locks -> Threads \cup {"free"}]

StreamOK ==
    /\ started \in BOOLEAN /\ recording \in BOOLEAN
    /\ streamer \in BOOLEAN /\ encoded \in BOOLEAN /\ crashed \in BOOLEAN
    /\ av_rtmp \in {"none", "live", "closing"}

QueueOK ==
    /\ starts \in 0..MaxStarts /\ delayed \in 0..MaxStarts
    /\ msgq \in Seq({"start", "stop"})

HistoryOK == overtaking \in BOOLEAN /\ unhandled \in {"nothing", "stop", "start"}

\* Every field holds what the code stores there.
TypeOK == ThreadsOK /\ StreamOK /\ QueueOK /\ HistoryOK

\* The recorder is never inside the streamer, or about to enter it, when it is
\* deleted; and no thread is, and the process does not crash, if the worker had
\* nothing left to do when the destruction began.
NoDeletedStreamer ==
    ~streamer =>
        /\ pc["recorder"] \notin {"on data", "on aac"}
        /\ unhandled = "nothing" => ~Uses /\ msgq = <<>> /\ delayed = 0 /\ ~crashed

\* When the destructor has returned, no callback of the recorder and no message is
\* left behind; and no push thread, unless a start was unhandled when it began.
DestroyedClean ==
    pc["app"] = "gone" =>
        /\ ~recording /\ delayed = 0 /\ msgq = <<>>
        /\ unhandled # "start" => pc["push"] = "exit" /\ pc["worker"] # "start stream"

\* A stream that was stopped, and whose stop was handled, is silent: nothing
\* encodes and the application hears nothing more of it, unless the stop overtook
\* a start that was not yet due.
Silent ==
    Settled /\ ~started /\ pc["app"] = "ready" =>
        ~recording /\ (~overtaking => av_rtmp = "none" /\ ~encoded)

\* Thread t can go on only after thread u: u holds the lock it needs, is the thread
\* it joins, or the worker it waits for.
Awaits(t, u) ==
    \/ pc[t] \in {"start record", "stop record", "last stop"} /\ lock["record"] = u
    \/ pc[t] \in {"on data", "stop encoder", "connected", "lost"} /\ lock["buffer"] = u
    \/ pc[t] \in {"start stream", "stop stream", "on aac"} /\ lock["stream"] = u
    \/ pc[t] \in {"join", "join push"} /\ u = "push" /\ pc["push"] # "exit"
    \/ pc[t] = "invoke" /\ u = "worker" /\ pc["worker"] # "idle"

\* No threads wait for one another in a circle: although the recorder takes
\* buffer_critsect_ and then cs_av_rtmp_, and whoever stops the stream holds
\* cs_av_rtmp_ and joins a push thread that needs buffer_critsect_.
NoCircle ==
    \A S \in SUBSET Threads : S # {} => \E t \in S : \A u \in S : ~Awaits(t, u)

\* An application that has made up its mind gets what it asked for, unless its stop
\* overtook a start.
Obeyed ==
    /\ <>[](started /\ pc["app"] = "ready") => <>[](av_rtmp = "live")
    /\ <>[](~started /\ pc["app"] = "ready" /\ ~overtaking) => <>[](av_rtmp = "none")

\* Whatever the worker was sent it handles in the end: neither the join nor a
\* lock holds it for ever, unless the process crashes.
Handled == ~Settled ~> Settled \/ crashed

\* Every call returns, unless the process crashes.
CallsReturn == pc["app"] # "ready" ~> pc["app"] \in {"ready", "gone"} \/ crashed
=============================================================================
