----------------------------- MODULE PlyBuffer -----------------------------
(***************************************************************************)
(* PlyBuffer (core/plybuffer.cc): when the player shows what it received.  *)
(*                                                                         *)
(* A source makes one packet in every unit of time, with its time as       *)
(* timestamp; the network delivers them in order and may stall.  Three     *)
(* threads meet in the buffer: the pull, which delivers, the decoder,      *)
(* whose DoDecode runs every 5 ms, and the audio device, which takes a     *)
(* packet in every unit while it plays.  Packets are consecutive, so a     *)
(* list is known by its front, and its back is the last one delivered.     *)
(***************************************************************************)
EXTENDS Integers

CONSTANTS PLY_RED_TIME, PLY_MAX_DELAY, PLY_MAX_CACHE,
          Second,      \* the 1000 ms that cache_delta_ counts
          Streams,     \* what a stream may consist of
          MaxLate,     \* bound: how far the network falls behind
          MaxTime      \* bound: the time

\* A PLY_MAX_CACHE of one second would be halved to none.
ASSUME BufferAssumption ==
    /\ Second \in Nat /\ PLY_RED_TIME \in 2..Second
    /\ PLY_MAX_DELAY \in Nat \ {0} /\ PLY_MAX_CACHE \in Nat \ {0, 1}
    /\ Streams \subseteq (SUBSET {"audio", "video"}) \ {{}}
    /\ MaxLate \in Nat /\ MaxTime \in Nat

\* PLY_MAX_CACHE is 16: doubling one second reaches it, and does not step over it.
ASSUME DoublingAssumption ==
    \E D \in SUBSET (1..PLY_MAX_CACHE) :
       /\ {1, PLY_MAX_CACHE} \subseteq D
       /\ \A d \in D : d < PLY_MAX_CACHE => 2 * d \in D

VARIABLES
    now,                     \* rtc::Time()
    stream,                  \* what this stream consists of
    last,                    \* the timestamp of the last packet delivered, 0 for none
    audio, video,            \* the fronts of lst_audio_buffer_ and lst_video_buffer_
    got_audio_,
    ply_status_,             \* "fast", "normal" or "cache"
    cache_time_, cache_delta_,
    sys_fast_video_time_,    \* 0 until it is set
    rtmp_fast_video_time_,
    rtmp_cache_time_,
    play_cur_time_,
    due,                     \* the threads that must run before time passes
    pausedAt,                \* the position when it was last paused
    live                     \* nothing was late since this round of PS_Cache began

lists == <<last, audio, video, got_audio_>>
cache == <<cache_time_, cache_delta_, rtmp_cache_time_>>
clock == <<sys_fast_video_time_, rtmp_fast_video_time_>>
seen == <<pausedAt, live>>
vars == <<now, stream, lists, ply_status_, cache, clock, play_cur_time_, due, seen>>

Init ==
    /\ now = 1 /\ stream \in Streams /\ due = {}
    /\ last = 0 /\ audio = 1 /\ video = 1 /\ got_audio_ = FALSE
    /\ ply_status_ = "fast" /\ cache_time_ = Second /\ cache_delta_ = 1 /\ rtmp_cache_time_ = 0
    /\ sys_fast_video_time_ = 0 /\ rtmp_fast_video_time_ = 0 /\ play_cur_time_ = 0
    /\ pausedAt = 0 /\ live = TRUE

-----------------------------------------------------------------------------

\* How much a list spans: nothing if it is empty.
Span(front) == IF front > last THEN 0 ELSE last - front
AudioSpan == IF "audio" \in stream THEN Span(audio) ELSE 0
VideoSpan == IF "video" \in stream THEN Span(video) ELSE 0

\* media_buf_time: of the pictures only if there never was sound.
MediaBufTime == IF AudioSpan = 0 /\ ~got_audio_ THEN VideoSpan ELSE AudioSpan

HasVideo == "video" \in stream /\ video <= last
HasAudio == "audio" \in stream /\ audio <= last

VideoSysGap == now - sys_fast_video_time_

\* play_video_time: of the system clock only if there never was sound.
PlayVideoTime ==
    IF AudioSpan = 0 /\ ~got_audio_ /\ HasVideo
    THEN rtmp_fast_video_time_ + VideoSysGap ELSE play_cur_time_

\* CacheH264Data and CachePcmData, for all that carries the next timestamp.
Deliver ==
    /\ last < now
    /\ last' = last + 1
    /\ got_audio_' = ("audio" \in stream)
    /\ IF /\ sys_fast_video_time_ = 0
          /\ "video" \in stream \/ last' - audio >= PLY_MAX_DELAY
       THEN sys_fast_video_time_' = now /\ rtmp_fast_video_time_' = last'
       ELSE UNCHANGED clock
    /\ UNCHANGED <<now, stream, audio, video, ply_status_, cache, play_cur_time_, due, seen>>

\* PlyDecoder::GetPcmData and GetPlayAudio, between OnPlay and OnPause
GetPlayAudio ==
    /\ "audio" \in due /\ due' = due \ {"audio"}
    /\ IF ply_status_ = "normal" /\ HasAudio
       THEN audio' = audio + 1 /\ play_cur_time_' = audio
       ELSE UNCHANGED <<audio, play_cur_time_>>
    /\ UNCHANGED <<now, stream, last, video, got_audio_, ply_status_, cache, clock, seen>>

\* PS_Fast waits for a little sound or, without sound, for a second.
Ready == IF HasAudio THEN VideoSysGap >= PLY_RED_TIME /\ AudioSpan > PLY_RED_TIME
                     ELSE VideoSysGap >= PLY_RED_TIME * 4 /\ HasVideo

Fast ==
    /\ ply_status_ = "fast" /\ Ready
    /\ ply_status_' = "normal"
    /\ play_cur_time_' = IF HasAudio THEN audio ELSE video
    /\ UNCHANGED <<video, cache, clock, seen>>

\* Variant: the end of the round before is kept.
PauseUntimed ==
    /\ ply_status_' = "cache"
    /\ cache_time_' = cache_delta_ * Second
    /\ cache_delta_' = IF cache_delta_ < PLY_MAX_CACHE THEN cache_delta_ * 2 ELSE cache_delta_
    /\ pausedAt' = rtmp_fast_video_time_ + VideoSysGap /\ live' = TRUE
    /\ UNCHANGED rtmp_cache_time_

\* OnPause: the time to cache doubles with every pause.
Pause ==
    /\ ply_status_' = "cache"
    /\ cache_time_' = cache_delta_ * Second
    /\ cache_delta_' = IF cache_delta_ < PLY_MAX_CACHE THEN cache_delta_ * 2 ELSE cache_delta_
    /\ rtmp_cache_time_' = now + cache_time_'
    /\ pausedAt' = rtmp_fast_video_time_ + VideoSysGap /\ live' = TRUE

\* PS_Normal decodes a picture that is due, and pauses when too little is left.
Normal ==
    /\ ply_status_ = "normal"
    /\ video' = IF HasVideo /\ video <= PlayVideoTime THEN video + 1 ELSE video
    /\ IF MediaBufTime <= PLY_RED_TIME THEN Pause ELSE UNCHANGED <<ply_status_, cache, seen>>
    /\ UNCHANGED <<clock, play_cur_time_>>

\* Variant: every resumption halves the time to cache.
HalveAlways == IF cache_delta_ > 1 THEN cache_delta_ \div 2 ELSE cache_delta_

\* The longest time is taken back to half of it.
Halve == IF cache_delta_ = PLY_MAX_CACHE THEN cache_delta_ \div 2 ELSE cache_delta_

\* Variant: PS_Cache asks for what the next pause will cache.
CachedForNext == MediaBufTime >= cache_delta_ * Second - PLY_RED_TIME

Cached == MediaBufTime >= cache_time_ - PLY_RED_TIME

\* Variant: the clock stands still for the first round only.
ShiftOnResume ==
    sys_fast_video_time_' = IF got_audio_ \/ ~Cached THEN sys_fast_video_time_
                            ELSE sys_fast_video_time_ + cache_time_

\* Without sound the system clock makes up for the time that was cached.
Shift ==
    sys_fast_video_time_' = IF got_audio_ THEN sys_fast_video_time_
                            ELSE sys_fast_video_time_ + cache_time_

\* PS_Cache goes on in rounds of cache_time_ until enough has come.
Cache ==
    /\ ply_status_ = "cache" /\ rtmp_cache_time_ <= now
    /\ IF Cached
       THEN /\ ply_status_' = "normal"
            /\ cache_delta_' = Halve
            /\ UNCHANGED <<rtmp_cache_time_, live>>
       ELSE /\ rtmp_cache_time_' = now + cache_time_ /\ live' = TRUE
            /\ UNCHANGED <<ply_status_, cache_delta_>>
    /\ Shift
    /\ UNCHANGED <<video, cache_time_, rtmp_fast_video_time_, play_cur_time_, pausedAt>>

Idle ==
    /\ \/ ply_status_ = "fast" /\ ~Ready
       \/ ply_status_ = "cache" /\ rtmp_cache_time_ > now
    /\ UNCHANGED <<ply_status_, video, cache, clock, play_cur_time_, seen>>

DoDecode ==
    /\ sys_fast_video_time_ # 0
    /\ due' = due \ {"decode"}
    /\ Fast \/ Normal \/ Cache \/ Idle
    /\ UNCHANGED <<now, stream, last, audio, got_audio_>>

\* Every thread has had its turn in the unit that ends, and DoDecode so many that
\* no picture that is due is left.
Tick ==
    /\ now < MaxTime /\ now - last < MaxLate
    /\ due \subseteq (IF sys_fast_video_time_ = 0 THEN {"decode"} ELSE {})
    /\ ~(ply_status_ = "normal" /\ HasVideo /\ video <= PlayVideoTime)
    /\ now' = now + 1
    /\ due' = {"decode", "audio"}
    /\ live' = (live /\ last = now)
    /\ UNCHANGED <<stream, lists, ply_status_, cache, clock, play_cur_time_, pausedAt>>

Next == Deliver \/ GetPlayAudio \/ DoDecode \/ Tick

Spec == Init /\ [][Next]_vars

-----------------------------------------------------------------------------
(* Properties.                                                             *)

\* Every field holds what the code stores there: what it takes was delivered
\* before, and the difference of two times is never negative.
TypeOK ==
    /\ last \in 0..now /\ audio \in 1..last + 1 /\ video \in 1..last + 1
    /\ ply_status_ \in {"fast", "normal", "cache"} /\ got_audio_ \in BOOLEAN
    /\ cache_delta_ \in 1..PLY_MAX_CACHE /\ cache_time_ \in Second..Second * PLY_MAX_CACHE
    /\ sys_fast_video_time_ \in 0..now /\ rtmp_fast_video_time_ \in 0..last
    /\ rtmp_cache_time_ \in 0..now + cache_time_ /\ play_cur_time_ \in 0..last

\* A stream of pictures alone goes on at the position where it was paused, after
\* however many rounds of caching: nothing is skipped and nothing shown again.
ResumesWhereItStopped ==
    [][ply_status_ = "cache" /\ ply_status_' = "normal" /\ ~got_audio_
       => rtmp_fast_video_time_' + now' - sys_fast_video_time_' = pausedAt]_vars

\* One round of caching is enough if the source kept up during it.
ResumesInTime ==
    [][ply_status_ = "cache" /\ rtmp_cache_time_' # rtmp_cache_time_ => ~live]_vars

\* Every pause after the first caches twice as long as the one before, until that
\* is half of PLY_MAX_CACHE seconds: the whole is never reached.
BackOff ==
    [][ply_status_ = "normal" /\ ply_status_' = "cache" /\ pausedAt # 0
       => cache_time_' = IF 4 * cache_time_ <= PLY_MAX_CACHE * Second
                         THEN 2 * cache_time_ ELSE cache_time_]_vars
=============================================================================
