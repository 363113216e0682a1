--------------------------- MODULE PlayerControl ---------------------------
(***************************************************************************)
(* RtmpGuesterImpl, AnyRtmplayerImpl and AnyRtmpPull: how an application   *)
(* starts, stops and destroys a playback.  Four threads meet:              *)
(*                                                                         *)
(*   app      the looper on which every call of the API runs               *)
(*   player   AnyRtmplayerImpl::OnMessage: PLY_START, PLY_STOP, PLY_TICK   *)
(*   pull     AnyRtmpPull::Run: connects, retries, reads                   *)
(*   audio    the audio device, which asks the decoder for sound           *)
(*                                                                         *)
(* The application may stop and destroy at any time; before a start it     *)
(* waits until the player has handled the stop of the playback before.     *)
(***************************************************************************)
EXTENDS Integers, Sequences

CONSTANTS MAX_RETRY_TIME,
          MaxStarts        \* bound: calls of StartRtmpPlay

ASSUME PlayerAssumption == MAX_RETRY_TIME \in Nat /\ MaxStarts \in Nat

VARIABLES
    pc,          \* where each thread is
    lock,        \* who holds cs_rtmp_ of the pull and cs_audio_track_ of the core
    started,     \* av_rtmp_started_
    track,       \* audio_track_callback_ is set
    starts,      \* calls of StartRtmpPlay, for the bound
    ticks,       \* PLY_TICK messages that are not yet due
    msgq,        \* messages that are due
    quit,        \* fStop_ of the player's queue
    decoder,     \* ply_decoder_ exists
    rtmp_pull_,  \* "none", "live" or, once its destructor has begun, "closing"
    status,      \* rtmp_status_
    rtmp_,       \* its connection: "none", "open" or disconnected, "cut"
    retry_ct_, connected_,
    heard,       \* what the application was last told: "none", "ok" or "closed"
    failed       \* OnRtmpullFailed since the decoder was made

calls == <<started, track, starts>>
queue == <<ticks, msgq, quit>>
pull == <<rtmp_pull_, status, rtmp_, retry_ct_, connected_>>
told == <<heard, failed>>
vars == <<pc, lock, calls, queue, decoder, pull, told>>

Init ==
    /\ pc = [app |-> "ready", player |-> "idle", pull |-> "exit", audio |-> "idle"]
    /\ lock = [rtmp |-> "free", track |-> "free"]
    /\ started = FALSE /\ track = FALSE /\ starts = 0
    /\ ticks = 0 /\ msgq = <<>> /\ quit = FALSE
    /\ decoder = FALSE /\ rtmp_pull_ = "none" /\ status = "init" /\ rtmp_ = "none"
    /\ retry_ct_ = 0 /\ connected_ = FALSE
    /\ heard = "none" /\ failed = FALSE

\* Thread t goes from one place to another.
Go(t, from, to) == pc[t] = from /\ pc' = [pc EXCEPT ![t] = to]

Free(l) == lock[l] = "free"

Post(q, m) == IF quit THEN q ELSE Append(q, m)

\* MessageQueue::Clear
Without(q, m) ==
    LET kept[n \in 0..Len(q)] == IF n = 0 THEN <<>>
                                 ELSE IF q[n] = m THEN kept[n - 1]
                                 ELSE Append(kept[n - 1], q[n])
    IN  kept[Len(q)]

Settled ==
    /\ pc["player"] \in {"idle", "tick"}
    /\ \A i \in DOMAIN msgq : msgq[i] = "tick"

-----------------------------------------------------------------------------
(* The application.                                                        *)

\* Not started yet; otherwise the call does nothing.
StartRtmpPlay ==
    /\ ~started /\ starts < MaxStarts /\ Settled
    /\ Go("app", "ready", "start_track")
    /\ started' = TRUE /\ starts' = starts + 1
    /\ msgq' = Post(msgq, "start") /\ ticks' = ticks + 1
    /\ heard' = "none"
    /\ UNCHANGED <<lock, track, quit, decoder, pull, failed>>

StartAudioTrack ==
    /\ Free("track")
    /\ Go("app", "start_track", "ready")
    /\ track' = TRUE
    /\ UNCHANGED <<lock, started, starts, queue, decoder, pull, told>>

StopRtmpPlay ==
    /\ started
    /\ Go("app", "ready", "stop_track")
    /\ started' = FALSE
    /\ UNCHANGED <<lock, track, starts, queue, decoder, pull, told>>

\* JRTMPGuestImpl::Close stops once more, and so does ~RtmpGuesterImpl.
Clear ==
    /\ Go("app", "ready", IF started THEN "last_track" ELSE "stop_again")
    /\ started' = FALSE
    /\ UNCHANGED <<lock, track, starts, queue, decoder, pull, told>>

\* Variant: the audio callback is told to stop after the player.
TrackStays(from, to) ==
    /\ Go("app", from, to)
    /\ UNCHANGED <<lock, calls, queue, decoder, pull, told>>

StopAudioTrack(from, to) ==
    /\ Free("track")
    /\ Go("app", from, to)
    /\ track' = FALSE
    /\ UNCHANGED <<lock, started, starts, queue, decoder, pull, told>>

\* Variant: the tick is cleared and nothing is posted.
OnlyClear ==
    /\ ticks' = 0
    /\ msgq' = Without(msgq, "tick")
    /\ heard' = "closed"

\* AnyRtmplayerImpl::StopPlay, on whatever thread
StopPlay ==
    /\ ticks' = 0
    /\ msgq' = Post(Without(msgq, "tick"), "stop")
    /\ heard' = "closed"

AppStopPlay(from, to) ==
    /\ Go("app", from, to)
    /\ StopPlay
    /\ UNCHANGED <<lock, calls, quit, decoder, pull, failed>>

\* Thread::Stop of the player
Quit ==
    /\ Go("app", "quit", "join")
    /\ quit' = TRUE
    /\ UNCHANGED <<lock, calls, ticks, msgq, decoder, pull, told>>

JoinPlayer ==
    /\ pc["player"] = "idle"
    /\ Go("app", "join", "delete_pull")
    /\ UNCHANGED <<lock, calls, queue, decoder, pull, told>>

-----------------------------------------------------------------------------
(* Deleting the pull and the decoder: thread t is the player, in PLY_STOP, *)
(* or the application, in ~AnyRtmplayerImpl.                               *)

\* Variant: the decoder goes first.
DeleteDecoderFirst(t) ==
    /\ decoder' = FALSE
    /\ IF rtmp_pull_ = "none"
       THEN Go(t, "delete_pull", "delete_decoder") /\ UNCHANGED <<rtmp_pull_, status>>
       ELSE /\ Go(t, "delete_pull", "disconnect")
            /\ rtmp_pull_' = "closing" /\ status' = "closed"
    /\ UNCHANGED <<lock, calls, queue, rtmp_, retry_ct_, connected_, told>>

\* ~AnyRtmpPull begins: running_ and rtmp_status_ are written without the lock.
DeletePull(t) ==
    /\ IF rtmp_pull_ = "none"
       THEN Go(t, "delete_pull", "delete_decoder") /\ UNCHANGED <<rtmp_pull_, status>>
       ELSE /\ Go(t, "delete_pull", "disconnect")
            /\ rtmp_pull_' = "closing" /\ status' = "closed"
    /\ UNCHANGED <<lock, calls, queue, decoder, rtmp_, retry_ct_, connected_, told>>

\* Variant: the thread is joined with the lock still held.
DisconnectAndHold(t) ==
    /\ Free("rtmp")
    /\ Go(t, "disconnect", "join_pull")
    /\ rtmp_' = IF rtmp_ = "open" THEN "cut" ELSE rtmp_
    /\ lock' = [lock EXCEPT !["rtmp"] = t]
    /\ UNCHANGED <<calls, queue, decoder, rtmp_pull_, status, retry_ct_, connected_, told>>

\* Under cs_rtmp_: a read that waits for data comes back.
Disconnect(t) ==
    /\ Free("rtmp")
    /\ Go(t, "disconnect", "join_pull")
    /\ rtmp_' = IF rtmp_ = "open" THEN "cut" ELSE rtmp_
    /\ UNCHANGED <<lock, calls, queue, decoder, rtmp_pull_, status, retry_ct_, connected_, told>>

JoinPull(t) ==
    /\ pc["pull"] = "exit"
    /\ Go(t, "join_pull", "delete_decoder")
    /\ rtmp_pull_' = "none" /\ rtmp_' = "none"
    /\ UNCHANGED <<lock, calls, queue, decoder, status, retry_ct_, connected_, told>>

DeleteDecoder(t) ==
    /\ Go(t, "delete_decoder", IF t = "app" THEN "gone" ELSE "idle")
    /\ decoder' = FALSE
    /\ UNCHANGED <<lock, calls, queue, pull, told>>

DeleteSteps(t) == DeletePull(t) \/ Disconnect(t) \/ JoinPull(t) \/ DeleteDecoder(t)

AppStep ==
    \/ StartAudioTrack
    \/ StopAudioTrack("stop_track", "stop_play") \/ AppStopPlay("stop_play", "ready")
    \/ StopAudioTrack("last_track", "last_play") \/ AppStopPlay("last_play", "stop_again")
    \/ AppStopPlay("stop_again", "quit")
    \/ Quit \/ JoinPlayer \/ DeleteSteps("app")

-----------------------------------------------------------------------------
(* The player.                                                             *)

\* MessageQueue::Get moves a tick that has become due behind what was posted.
Due ==
    /\ ticks > 0 /\ pc["player"] = "idle" /\ ~quit
    /\ ticks' = ticks - 1
    /\ msgq' = Append(msgq, "tick")
    /\ UNCHANGED <<pc, lock, calls, quit, decoder, pull, told>>

Get(m) == msgq # <<>> /\ Head(msgq) = m /\ ~quit /\ msgq' = Tail(msgq)

\* PLY_START: the constructor of AnyRtmpPull starts its thread.
OnStart ==
    /\ Get("start") /\ pc["player"] = "idle"
    /\ decoder' = TRUE
    /\ failed' = (decoder /\ failed)
    /\ IF rtmp_pull_ = "none"
       THEN /\ rtmp_pull_' = "live" /\ status' = "init" /\ rtmp_' = "open"
            /\ retry_ct_' = 0 /\ connected_' = FALSE
            /\ pc' = [pc EXCEPT !["pull"] = "loop"]
       ELSE UNCHANGED <<pc, pull>>
    /\ UNCHANGED <<lock, calls, ticks, quit, heard>>

OnStop ==
    /\ Get("stop")
    /\ Go("player", "idle", "delete_pull")
    /\ UNCHANGED <<lock, calls, ticks, quit, decoder, pull, told>>

\* PLY_TICK is out of the queue while the status is reported, and then goes back.
OnTick ==
    /\ Get("tick")
    /\ Go("player", "idle", "tick")
    /\ UNCHANGED <<lock, calls, ticks, quit, decoder, pull, told>>

TickAgain ==
    /\ Go("player", "tick", "idle")
    /\ ticks' = IF quit THEN ticks ELSE ticks + 1
    /\ UNCHANGED <<lock, calls, msgq, quit, decoder, pull, told>>

PlayerStep == Due \/ OnStart \/ OnStop \/ OnTick \/ TickAgain \/ DeleteSteps("player")

-----------------------------------------------------------------------------
(* The pull thread.                                                        *)

\* The stages of Run and what follows each.
Stages == [init |-> "handshaked", handshaked |-> "connected", connected |-> "played"]

\* A turn of Run: leave, or do the step of the status, if there is a connection.
Turn ==
    /\ \/ rtmp_pull_ = "closing" /\ Go("pull", "loop", "exit")
       \/ /\ rtmp_pull_ = "live" /\ rtmp_ # "none"
          /\ \/ status \in DOMAIN Stages /\ Go("pull", "loop", status)
             \/ status = "played" /\ Go("pull", "loop", "read")
    /\ UNCHANGED <<lock, calls, queue, decoder, pull, told>>

\* srs_rtmp_handshake, srs_rtmp_connect_app or srs_rtmp_play_stream succeeds;
\* CallConnect after the last.
StageDone ==
    /\ pc["pull"] \in DOMAIN Stages /\ rtmp_ = "open"
    /\ Go("pull", pc["pull"], "loop")
    /\ status' = Stages[pc["pull"]]
    /\ IF pc["pull"] = "connected"
       THEN retry_ct_' = 0 /\ connected_' = TRUE /\ heard' = "ok"
       ELSE UNCHANGED <<retry_ct_, connected_, heard>>
    /\ UNCHANGED <<lock, calls, queue, decoder, rtmp_pull_, rtmp_, failed>>

\* It fails: CallDisconnect takes cs_rtmp_, destroys the connection, looks at the status.
StageFailed ==
    /\ pc["pull"] \in DOMAIN Stages /\ Free("rtmp")
    /\ Go("pull", pc["pull"], IF status = "closed" THEN "unlock" ELSE "retry")
    /\ lock' = [lock EXCEPT !["rtmp"] = "pull"]
    /\ rtmp_' = "none"
    /\ UNCHANGED <<calls, queue, decoder, rtmp_pull_, status, retry_ct_, connected_, told>>

\* Variant: the retries are not limited.
RetryUnlimited ==
    /\ Go("pull", "retry", "unlock")
    /\ status' = "init" /\ rtmp_' = "open" /\ retry_ct_' = retry_ct_ + 1
    /\ UNCHANGED <<lock, calls, queue, decoder, rtmp_pull_, connected_, told>>

\* Variant: every attempt is counted as the first.
RetryForever ==
    /\ Go("pull", "retry", "unlock")
    /\ status' = "init" /\ rtmp_' = "open" /\ retry_ct_' = 1
    /\ UNCHANGED <<lock, calls, queue, decoder, rtmp_pull_, connected_, told>>

\* OnRtmpullFailed, or OnRtmpullDisconnect, tells the player to stop: StopPlay.
Retry ==
    /\ Go("pull", "retry", "unlock")
    /\ status' = "init" /\ retry_ct_' = retry_ct_ + 1
    /\ IF retry_ct_' <= MAX_RETRY_TIME
       THEN rtmp_' = "open" /\ UNCHANGED <<ticks, msgq, told>>
       ELSE StopPlay /\ failed' = TRUE /\ UNCHANGED rtmp_
    /\ UNCHANGED <<lock, calls, quit, decoder, rtmp_pull_, connected_>>

Unlock ==
    /\ Go("pull", "unlock", "loop")
    /\ lock' = [lock EXCEPT !["rtmp"] = "free"]
    /\ UNCHANGED <<calls, queue, decoder, pull, told>>

\* srs_rtmp_read_packet brings something for the decoder.
ReadData ==
    /\ rtmp_ = "open"
    /\ Go("pull", "read", IF decoder THEN "feed" ELSE "loop")
    /\ UNCHANGED <<lock, calls, queue, decoder, pull, told>>

\* It fails, which nobody looks at.
ReadError ==
    /\ rtmp_ = "cut"
    /\ Go("pull", "read", "loop")
    /\ UNCHANGED <<lock, calls, queue, decoder, pull, told>>

Fed ==
    /\ Go("pull", "feed", "loop")
    /\ UNCHANGED <<lock, calls, queue, decoder, pull, told>>

PullStep == Turn \/ StageDone \/ StageFailed \/ Retry \/ Unlock \/ ReadError \/ Fed

-----------------------------------------------------------------------------
(* The audio device.                                                       *)

\* NeedMorePlayData holds cs_audio_track_ through the callback.
NeedMorePlayData ==
    /\ track /\ Free("track")
    /\ Go("audio", "idle", "need")
    /\ lock' = [lock EXCEPT !["track"] = "audio"]
    /\ UNCHANGED <<calls, queue, decoder, pull, told>>

\* GetNeedPlayAudio calls the decoder, if it sees one.
GetPcmData ==
    /\ Go("audio", "need", IF decoder THEN "decoder" ELSE "done")
    /\ UNCHANGED <<lock, calls, queue, decoder, pull, told>>

AudioReturn ==
    /\ \/ Go("audio", "decoder", "idle")
       \/ Go("audio", "done", "idle")
    /\ lock' = [lock EXCEPT !["track"] = "free"]
    /\ UNCHANGED <<calls, queue, decoder, pull, told>>

AudioStep == GetPcmData \/ AudioReturn

-----------------------------------------------------------------------------

Call == StartRtmpPlay \/ StopRtmpPlay \/ Clear

Next == Call \/ AppStep \/ PlayerStep \/ PullStep \/ ReadData \/ NeedMorePlayData \/ AudioStep

\* Every thread that can run does, one that waits for a lock which is free again
\* and again gets it, and the three requests of a connection end, well or not:
\* they have timeouts.  Nothing makes the application call, data arrive or the
\* device ask for sound.
Spec == Init /\ [][Next]_vars
             /\ SF_vars(AppStep) /\ SF_vars(PlayerStep)
             /\ SF_vars(PullStep) /\ SF_vars(AudioStep)

-----------------------------------------------------------------------------
(* Properties.                                                             *)

\* Every field holds what the code stores there, and each start brings at most
\* one tick.
TypeOK ==
    /\ lock \in [rtmp : {"free", "pull", "player", "app"}, track : {"free", "audio"}]
    /\ ticks + Len(msgq) - Len(Without(msgq, "tick")) <= starts
    /\ rtmp_pull_ \in {"none", "live", "closing"} /\ rtmp_ \in {"none", "open", "cut"}
    /\ status \in {"init", "handshaked", "connected", "played", "closed"}
    /\ retry_ct_ \in 0..MAX_RETRY_TIME + 1
    /\ heard \in {"none", "ok", "closed"}
    /\ pc["pull"] = "exit" \/ rtmp_pull_ # "none"

\* No thread is inside a decoder that PLY_STOP or ~AnyRtmplayerImpl deletes,
\* except the audio device in one whose stream has failed, which is not stopped
\* first.
NoDeletedDecoder ==
    ~decoder => /\ pc["pull"] # "feed"
                /\ pc["audio"] = "decoder" => failed

\* A playback that was stopped, and whose stop was handled, has left nothing:
\* no connection, no decoder, no sound.
StoppedClean ==
    Settled /\ ~started /\ pc["app"] \in {"ready", "gone"} =>
        rtmp_pull_ = "none" /\ pc["pull"] = "exit" /\ ~decoder /\ ~track

\* A playback that was started is answered, unless it is stopped first: OK when
\* it plays, or closed when the retries are used up.
Answered == started /\ heard = "none" ~> heard # "none"

\* Every call returns, and PLY_STOP too: nobody joins a thread that waits for a
\* lock or for data.
CallsReturn ==
    /\ pc["app"] # "ready" ~> pc["app"] \in {"ready", "gone"}
    /\ pc["player"] # "idle" ~> pc["player"] = "idle"
=============================================================================
