------------------------------ MODULE RtmpPush ------------------------------
(***************************************************************************)
(* AnyRtmpPush (core/anyrtmpush.cc) between the encoders that feed it      *)
(* (core/avcodec.cc, through core/anyrtmpstreamer.cc) and the RTMP server. *)
(* Four threads:                                                           *)
(*                                                                         *)
(*   push    AnyRtmpPush::Run: handshake, connect, publish, send, retry    *)
(*   video   V_H264Encoder::Run: takes a frame, encodes it, queues its NALs*)
(*   audio   the recorder, which encodes and queues AAC frames             *)
(*   worker  StopStream: the destructor of AnyRtmpPush, then StopEncoder   *)
(*                                                                         *)
(* need_keyframe_ and rtmp_status_ are plain fields that several threads   *)
(* read and write; every such access is a step of its own.  The list of    *)
(* encoded data has its own lock, held for one push, pop or clear.         *)
(*                                                                         *)
(* A frame is a key picture (SPS, PPS, IDR) or a delta picture (P).        *)
(***************************************************************************)
EXTENDS Naturals, Sequences

CONSTANTS MaxRetry,   \* MAX_RETRY_TIME
          MaxFrames,  \* bound: frames in render_buffers_
          MaxList     \* bound: entries of lst_enc_data_

ASSUME PushAssumption == MaxRetry \in Nat /\ MaxFrames \in Nat /\ MaxList \in Nat

VARIABLES
    object,          \* the AnyRtmpPush: "live", "closing" (destructor) or "gone"
    running, rtmp_status, rtmp, need_keyframe, retrys, lst_enc_data,
    only_audio_mode,
    pushing,         \* where the push thread is
    packet,          \* the entry it took from the list
    cs_av_rtmp,      \* who holds cs_av_rtmp_ of the streamer
    capturing,       \* camera and recorder deliver
    frames,          \* number of frames in render_buffers_ of the video encoder
    encoded,         \* encoded_ of the two encoders
    key_wanted,      \* need_keyframe_ of the video encoder
    video, audio,    \* what the two feeding threads are about to do
    worker,          \* where StopStream is
    told, times      \* the last callback of the application, and its argument

push == <<rtmp_status, rtmp, retrys, pushing, packet>>
heard == <<told, times>>
feed == <<frames, video, audio>>
encoder == <<encoded, key_wanted>>
life == <<object, running, capturing, worker, only_audio_mode>>
shared == <<need_keyframe, lst_enc_data, cs_av_rtmp>>

vars == <<push, heard, feed, encoder, life, shared>>

-----------------------------------------------------------------------------
(* srs_librtmp, as far as one video or audio write depends on it.          *)

\* A fresh context: neither parameter set seen, nothing sent.  `shown` is
\* what the server could show of what it was sent.
NoContext == [open |-> FALSE, sps |-> FALSE, pps |-> FALSE, changed |-> FALSE,
              sent |-> FALSE, shown |-> "nothing"]

\* Variant: the old context is used again.
CreateStale(old) == [old EXCEPT !.open = TRUE, !.shown = "nothing"]

\* srs_rtmp_create
Create(old) == [NoContext EXCEPT !.open = TRUE]

Nothing == [kind |-> "none", old |-> FALSE]

Slice == {"idr", "p"}
Nals == {"sps", "pps"} \cup Slice
Kinds == Nals \cup {"aac"}

\* The context after a write of kind k that the server got.  Parameter sets are
\* kept for the sequence header, which the next slice sends first; a slice is
\* dropped as long as no header was sent.
Written(c, k) ==
    LET h == [c EXCEPT !.changed = FALSE, !.sent = @ \/ c.changed,
                       !.shown = IF c.changed /\ @ = "nothing" THEN "header" ELSE @]
    IN  CASE k = "sps" -> [c EXCEPT !.sps = TRUE, !.changed = @ \/ ~c.sps]
          [] k = "pps" -> [c EXCEPT !.pps = TRUE, !.changed = @ \/ ~c.pps]
          [] k = "idr" -> [h EXCEPT !.shown = IF h.sent THEN "picture" ELSE @]
          [] k = "p"   -> [h EXCEPT !.shown = IF h.sent /\ @ # "picture"
                                              THEN "garbage" ELSE @]
          [] k = "aac" -> c

\* A write that sends something to the server, and so can fail.
Sends(c, k) == k = "aac" \/ (k \in Slice /\ (c.changed \/ c.sent))

-----------------------------------------------------------------------------

Init ==
    /\ object = "live" /\ running = TRUE /\ capturing = TRUE /\ worker = "idle"
    /\ only_audio_mode \in BOOLEAN
    /\ rtmp_status = "Init" /\ rtmp = Create(NoContext) /\ retrys = 0
    /\ pushing = "loop" /\ packet = Nothing
    /\ need_keyframe = TRUE /\ lst_enc_data = <<>> /\ cs_av_rtmp = "free"
    /\ frames = 0 /\ encoded = FALSE /\ key_wanted = TRUE
    /\ video = "idle" /\ audio = "idle"
    /\ told = "nothing" /\ times = 0

-----------------------------------------------------------------------------
(* The push thread.                                                        *)

\* The destructor has closed the socket: no call succeeds any more.
Cut == worker \in {"join", "stop", "done"}

\* The call the loop makes in each status.
CallOf == [Init |-> "handshake", Handshaked |-> "connect",
           Connected |-> "publish", Published |-> "send"]

\* Variant: the loop looks whether it is to stop only while it has a context.
PollLate ==
    /\ pushing = "loop" /\ rtmp.open
    /\ \/ ~running /\ pushing' = "exit"
       \/ running /\ rtmp_status # "Closed" /\ pushing' = CallOf[rtmp_status]
    /\ UNCHANGED <<rtmp_status, rtmp, retrys, packet, heard, feed, encoder, life, shared>>

\* Top of Run's loop.  Without a context, or when closed, it only polls.
Poll ==
    /\ pushing = "loop"
    /\ \/ ~running /\ pushing' = "exit"
       \/ /\ running /\ rtmp.open /\ rtmp_status # "Closed"
          /\ pushing' = CallOf[rtmp_status]
    /\ UNCHANGED <<rtmp_status, rtmp, retrys, packet, heard, feed, encoder, life, shared>>

\* srs_rtmp_handshake, srs_rtmp_connect_app
Advance(call, status) ==
    /\ pushing = call /\ ~Cut
    /\ rtmp_status' = status
    /\ pushing' = "loop"
    /\ UNCHANGED <<rtmp, retrys, packet, heard, feed, encoder, life, shared>>

\* srs_rtmp_publish_stream.  What is in the list now is `old`: it was queued
\* before there was a stream to send it on.
PublishStream ==
    /\ pushing = "publish" /\ ~Cut
    /\ rtmp_status' = "Published"
    /\ pushing' = "connected"
    /\ lst_enc_data' = [i \in DOMAIN lst_enc_data |->
                            [lst_enc_data[i] EXCEPT !.old = TRUE]]
    /\ UNCHANGED <<rtmp, retrys, packet, heard, feed, encoder, life,
                   need_keyframe, cs_av_rtmp>>

\* Any of the three refused, or the socket failed.
Refuse ==
    /\ pushing \in {"handshake", "connect", "publish"}
    /\ pushing' = "drop"
    /\ UNCHANGED <<rtmp_status, rtmp, retrys, packet, heard, feed, encoder, life, shared>>

\* Variant: the count of attempts goes on from one outage to the next.
ConnectedKeepCount ==
    /\ pushing = "connected"
    /\ need_keyframe' = TRUE
    /\ pushing' = "clear"
    /\ UNCHANGED <<rtmp_status, rtmp, retrys, packet, heard, feed, encoder, life,
                   lst_enc_data, cs_av_rtmp>>

\* CallConnect, first part.
Connected ==
    /\ pushing = "connected"
    /\ need_keyframe' = TRUE
    /\ retrys' = 0
    /\ pushing' = "clear"
    /\ UNCHANGED <<rtmp_status, rtmp, packet, heard, feed, encoder, life,
                   lst_enc_data, cs_av_rtmp>>

\* Variant: what was queued while there was no stream is kept.
KeepList ==
    /\ pushing = "clear"
    /\ pushing' = "start"
    /\ UNCHANGED <<rtmp_status, rtmp, retrys, packet, heard, feed, encoder, life, shared>>

\* CallConnect, under cs_list_enc_.
ClearList ==
    /\ pushing = "clear"
    /\ lst_enc_data' = <<>>
    /\ pushing' = "start"
    /\ UNCHANGED <<rtmp_status, rtmp, retrys, packet, heard, feed, encoder, life,
                   need_keyframe, cs_av_rtmp>>

\* buffer_critsect_ of the AAC encoder: the audio thread holds it from the
\* start of OnData to its end, and so while it waits for cs_av_rtmp_.
AacFree == audio = "idle"

\* OnRtmpConnected of the streamer: StartEncoder, then the application.
OnRtmpConnected ==
    /\ pushing = "start" /\ AacFree
    /\ encoded' = TRUE /\ key_wanted' = TRUE
    /\ told' = "ok" /\ times' = 0
    /\ pushing' = "loop"
    /\ UNCHANGED <<rtmp_status, rtmp, retrys, packet, feed, life, shared>>

\* DoSendData takes the head of the list under cs_list_enc_.
Pop ==
    /\ pushing = "send"
    /\ IF lst_enc_data = <<>>
       THEN pushing' = "loop" /\ UNCHANGED <<packet, lst_enc_data>>
       ELSE /\ pushing' = "write"
            /\ packet' = Head(lst_enc_data)
            /\ lst_enc_data' = Tail(lst_enc_data)
    /\ UNCHANGED <<rtmp_status, rtmp, retrys, heard, feed, encoder, life,
                   need_keyframe, cs_av_rtmp>>

\* The write succeeds, or srs_librtmp ignores the data.
Write ==
    /\ pushing = "write"
    /\ ~Cut \/ ~Sends(rtmp, packet.kind)
    /\ rtmp' = Written(rtmp, packet.kind)
    /\ packet' = Nothing
    /\ pushing' = "loop"
    /\ UNCHANGED <<rtmp_status, retrys, heard, feed, encoder, life, shared>>

WriteFails ==
    /\ pushing = "write" /\ Sends(rtmp, packet.kind)
    /\ packet' = Nothing
    /\ pushing' = "drop"
    /\ UNCHANGED <<rtmp_status, rtmp, retrys, heard, feed, encoder, life, shared>>

\* CallDisconnect, first assignment.
Drop ==
    /\ pushing = "drop"
    /\ need_keyframe' = TRUE
    /\ pushing' = "retry"
    /\ UNCHANGED <<rtmp_status, rtmp, retrys, packet, heard, feed, encoder, life,
                   lst_enc_data, cs_av_rtmp>>

\* Variant: attempts are not counted.
RetryForEver ==
    /\ pushing = "retry"
    /\ IF rtmp_status = "Closed"
       THEN rtmp' = NoContext /\ pushing' = "loop" /\ UNCHANGED <<rtmp_status, retrys>>
       ELSE /\ rtmp_status' = "Init" /\ rtmp' = Create(rtmp) /\ pushing' = "again"
            /\ retrys' = IF retrys = MaxRetry THEN 1 ELSE retrys + 1
    /\ UNCHANGED <<packet, heard, feed, encoder, life, shared>>

\* Variant: a new context is made however many attempts have failed.
RetryUnlimited ==
    /\ pushing = "retry"
    /\ IF rtmp_status = "Closed"
       THEN rtmp' = NoContext /\ pushing' = "loop" /\ UNCHANGED <<rtmp_status, retrys>>
       ELSE /\ rtmp_status' = "Init"
            /\ retrys' = retrys + 1
            /\ rtmp' = Create(rtmp) /\ pushing' = "again"
    /\ UNCHANGED <<packet, heard, feed, encoder, life, shared>>

\* CallDisconnect, under cs_rtmp_ up to the callback.
Retry ==
    /\ pushing = "retry"
    /\ IF rtmp_status = "Closed"
       THEN rtmp' = NoContext /\ pushing' = "loop" /\ UNCHANGED <<rtmp_status, retrys>>
       ELSE /\ rtmp_status' = "Init"
            /\ retrys' = retrys + 1
            /\ IF retrys' <= MaxRetry
               THEN rtmp' = Create(rtmp) /\ pushing' = "again"
               ELSE rtmp' = NoContext /\ pushing' = "give up"
    /\ UNCHANGED <<packet, heard, feed, encoder, life, shared>>

\* OnRtmpReconnecting and OnRtmpDisconnect of the streamer: StopEncoder, then
\* the application.  rtmp_connected_ is never set, so that the second is always
\* reported as OnStreamFailed.
Report ==
    /\ pushing \in {"again", "give up"} /\ AacFree
    /\ encoded' = FALSE
    /\ told' = IF pushing = "again" THEN "reconnecting" ELSE "failed"
    /\ times' = retrys
    /\ pushing' = "loop"
    /\ UNCHANGED <<rtmp_status, rtmp, retrys, packet, feed, key_wanted, life, shared>>

PushStep ==
    \/ Poll \/ Advance("handshake", "Handshaked") \/ Advance("connect", "Connected")
    \/ PublishStream \/ Refuse \/ Connected \/ ClearList \/ OnRtmpConnected
    \/ Pop \/ Write \/ WriteFails \/ Drop \/ Retry \/ Report

-----------------------------------------------------------------------------
(* The encoders.  The bounds are asked for before a picture or a sample is *)
(* taken, so that no thread waits inside a lock for room.                  *)

Room == Len(lst_enc_data) + 3 <= MaxList

Queue(kind) == lst_enc_data' = Append(lst_enc_data, [kind |-> kind, old |-> FALSE])

\* V_H264Encoder::OnFrame
Camera ==
    /\ capturing /\ encoded /\ frames < MaxFrames
    /\ frames' = frames + 1
    /\ UNCHANGED <<push, heard, video, audio, encoder, life, shared>>

\* One turn of V_H264Encoder::Run: a key picture when one is wanted, otherwise
\* as the encoder likes; it may also skip the frame.
Encode ==
    /\ video = "idle" /\ frames > 0 /\ Room
    /\ frames' = frames - 1
    /\ key_wanted' = FALSE
    /\ \/ video' = "idle"
       \/ video' = "key"
       \/ ~key_wanted /\ video' = "delta"
    /\ UNCHANGED <<push, heard, audio, encoded, life, shared>>

\* OnH264Data: cs_av_rtmp_ is held until the picture is queued.
DeliverVideo ==
    /\ video \in {"key", "delta"} /\ cs_av_rtmp = "free"
    /\ IF object = "gone"
       THEN video' = "idle" /\ UNCHANGED <<need_keyframe, cs_av_rtmp>>
       ELSE /\ cs_av_rtmp' = "video"
            /\ video' = IF video = "key" THEN "check key" ELSE "check delta"
            /\ need_keyframe' = (need_keyframe /\ video # "key")
    /\ UNCHANGED <<push, heard, frames, audio, encoder, life, lst_enc_data>>

\* SetH264Data: `if (need_keyframe_) return`.
CheckVideo ==
    /\ video \in {"check key", "check delta"}
    /\ IF need_keyframe
       THEN video' = "idle" /\ cs_av_rtmp' = "free"
       ELSE /\ video' = IF video = "check key" THEN "sps" ELSE "p"
            /\ UNCHANGED cs_av_rtmp
    /\ UNCHANGED <<push, heard, frames, audio, encoder, life, need_keyframe,
                   lst_enc_data>>

\* GotH264Nal, once for each NAL unit of the picture.
QueueNal ==
    /\ video \in Nals
    /\ Queue(video)
    /\ video' = CASE video = "sps" -> "pps" [] video = "pps" -> "idr" [] OTHER -> "idle"
    /\ cs_av_rtmp' = IF video \in Slice THEN "free" ELSE cs_av_rtmp
    /\ UNCHANGED <<push, heard, frames, audio, encoder, life, need_keyframe>>

\* A_AACEncoder::OnData, which takes buffer_critsect_ here.
Record ==
    /\ capturing /\ encoded /\ audio = "idle" /\ Room
    /\ audio' = "deliver"
    /\ UNCHANGED <<push, heard, frames, video, encoder, life, shared>>

\* OnAACData and SetAacData up to its test of need_keyframe_.
DeliverAudio ==
    /\ audio = "deliver" /\ cs_av_rtmp = "free"
    /\ IF object = "gone" \/ (need_keyframe /\ ~only_audio_mode)
       THEN audio' = "idle" /\ UNCHANGED cs_av_rtmp
       ELSE audio' = "aac" /\ cs_av_rtmp' = "audio"
    /\ UNCHANGED <<push, heard, frames, video, encoder, life, need_keyframe,
                   lst_enc_data>>

QueueAac ==
    /\ audio = "aac"
    /\ Queue("aac")
    /\ audio' = "idle" /\ cs_av_rtmp' = "free"
    /\ UNCHANGED <<push, heard, frames, video, encoder, life, need_keyframe>>

VideoStep == Encode \/ DeliverVideo \/ CheckVideo \/ QueueNal
AudioStep == DeliverAudio \/ QueueAac

-----------------------------------------------------------------------------
(* Stopping.                                                               *)

\* RtmpHosterImpl::StopRtmpStream: StopAudioRecord waits for the callback of
\* the recorder, RemoveSink detaches the camera, then MSG_STOP is posted.
StopCapture ==
    /\ capturing /\ audio = "idle"
    /\ capturing' = FALSE
    /\ UNCHANGED <<push, heard, feed, encoder, object, running, worker,
                   only_audio_mode, shared>>

\* StopStream takes cs_av_rtmp_ and the destructor of AnyRtmpPush begins.
Close ==
    /\ worker = "idle" /\ ~capturing /\ cs_av_rtmp = "free"
    /\ cs_av_rtmp' = "worker"
    /\ object' = "closing" /\ running' = FALSE /\ rtmp_status' = "Closed"
    /\ worker' = "cut"
    /\ UNCHANGED <<rtmp, retrys, pushing, packet, heard, feed, encoder,
                   capturing, only_audio_mode, need_keyframe, lst_enc_data>>

\* srs_rtmp_disconnect_server under cs_rtmp_, which CallDisconnect holds until
\* its callback has returned.
Disconnect ==
    /\ worker = "cut" /\ pushing \notin {"again", "give up"}
    /\ worker' = "join"
    /\ UNCHANGED <<push, heard, feed, encoder, object, running, capturing,
                   only_audio_mode, shared>>

\* Thread::Stop has joined the push thread; the rest of the destructor.
Join ==
    /\ worker = "join" /\ pushing = "exit"
    /\ object' = "gone" /\ rtmp' = NoContext /\ lst_enc_data' = <<>>
    /\ cs_av_rtmp' = "free"
    /\ worker' = "stop"
    /\ UNCHANGED <<rtmp_status, retrys, pushing, packet, heard, feed, encoder,
                   running, capturing, only_audio_mode, need_keyframe>>

\* Variant: the encoders are left alone.
StopNothing ==
    /\ worker = "stop" /\ AacFree
    /\ worker' = "done"
    /\ UNCHANGED <<push, heard, feed, encoder, object, running, capturing,
                   only_audio_mode, shared>>

\* StopEncoder
StopEncoder ==
    /\ worker = "stop" /\ AacFree
    /\ encoded' = FALSE
    /\ worker' = "done"
    /\ UNCHANGED <<push, heard, feed, key_wanted, object, running, capturing,
                   only_audio_mode, shared>>

WorkerStep == Close \/ Disconnect \/ Join \/ StopEncoder

Next == PushStep \/ Camera \/ VideoStep \/ Record \/ AudioStep
        \/ StopCapture \/ WorkerStep

\* Every thread that can run does, and every call to the server returns, with
\* or without success.  Nothing makes the application stop, or the camera and
\* the recorder deliver.
Spec == Init /\ [][Next]_vars
             /\ WF_vars(PushStep) /\ WF_vars(VideoStep) /\ WF_vars(AudioStep)
             /\ WF_vars(WorkerStep)

-----------------------------------------------------------------------------
(* Properties.                                                             *)

Context == [open : BOOLEAN, sps : BOOLEAN, pps : BOOLEAN, changed : BOOLEAN,
            sent : BOOLEAN, shown : {"nothing", "header", "picture", "garbage"}]

Entry == [kind : Kinds, old : BOOLEAN]

\* The push thread, and what the application heard of it.
PushOK ==
    /\ rtmp_status \in {"Init", "Handshaked", "Connected", "Published", "Closed"}
    /\ pushing \in {"loop", "handshake", "connect", "publish", "connected", "clear",
                    "start", "send", "write", "drop", "retry", "again", "give up",
                    "exit"}
    /\ told \in {"nothing", "ok", "reconnecting", "failed"}
    /\ retrys \in 0..MaxRetry + 1 /\ times \in 0..MaxRetry + 1

\* The threads that feed it.
FeedOK ==
    /\ frames \in 0..MaxFrames
    /\ video \in {"idle", "key", "delta", "check key", "check delta"} \cup Nals
    /\ audio \in {"idle", "deliver", "aac"}
    /\ cs_av_rtmp \in {"free", "video", "audio", "worker"}
    /\ encoded \in BOOLEAN /\ key_wanted \in BOOLEAN /\ need_keyframe \in BOOLEAN

\* The object.
LifeOK ==
    /\ object \in {"live", "closing", "gone"}
    /\ worker \in {"idle", "cut", "join", "stop", "done"}
    /\ running \in BOOLEAN /\ capturing \in BOOLEAN /\ only_audio_mode \in BOOLEAN

\* The context, and what is on its way to it.
DataOK ==
    /\ rtmp \in Context
    /\ lst_enc_data \in Seq(Entry)
    /\ packet \in Entry \cup {Nothing}
    /\ pushing = "write" <=> packet # Nothing

\* Every field holds what the code stores there.
TypeOK == PushOK /\ FeedOK /\ LifeOK /\ DataOK

\* Nothing that was queued while there was no stream is sent on the next one:
\* what the application recorded during an outage is not played late.
NothingStale == ~packet.old

\* On every connection the first picture the server can show is a key picture,
\* whatever the encoders queue while the push thread reconnects.
NothingGarbled == rtmp.shown # "garbage"

\* The encoders run while the stream is published and rest while it is not,
\* and when StopStream has returned they rest for good.
EncodersFollowStream ==
    /\ pushing = "loop" /\ running => encoded = (rtmp_status = "Published")
    /\ worker = "done" => ~encoded

\* What the application is told is a history StreamStatus allows: attempts are
\* numbered from one, at most MaxRetry in a row, and failure is final.
Status == INSTANCE StreamStatus WITH heard <- told, tries <- times
ReportsStatus == Status!Spec

\* An attempt to publish, the first or a later one, ends in a stream, in the
\* report that it failed, or with the object.
Settles == told \in {"nothing", "reconnecting"} ~>
               (told \in {"ok", "failed"} \/ object = "gone")

\* The destructor never waits for ever for the push thread.
StopEnds == ~capturing ~> worker = "done"

\* srs_librtmp asserts of a sequence header that it has an SPS: a slice that
\* makes one finds the SPS of its key picture in the context.
HeaderHasSps ==
    pushing = "write" /\ packet.kind \in Slice /\ rtmp.changed => rtmp.sps
=============================================================================
