-------------------------- MODULE PlyBuffer_proofs --------------------------
(***************************************************************************)
(* Proofs about PlyBuffer, for any times and bounds: a paused stream goes  *)
(* on where it stopped, and after one round if nothing was late; what each *)
(* pause caches is twice what the pause before cached, up to a limit.      *)
(***************************************************************************)
EXTENDS PlyBuffer, TLAPS

USE BufferAssumption

\* What the arithmetic below needs of the values.
Numbers ==
    /\ now \in Nat /\ last \in Nat /\ audio \in Nat /\ video \in Nat
    /\ last <= now /\ audio <= last + 1 /\ video <= last + 1
    /\ cache_time_ \in Nat /\ cache_time_ >= Second
    /\ cache_delta_ \in Nat /\ cache_delta_ >= 1
    /\ rtmp_cache_time_ \in Nat
    /\ sys_fast_video_time_ \in Nat /\ rtmp_fast_video_time_ \in Nat
    /\ pausedAt \in Int

\* Sound is known of as soon as anything is, and the clock is set before
\* anything is played.
Known ==
    /\ stream \in Streams
    /\ got_audio_ => "audio" \in stream
    /\ last > 0 => (got_audio_ <=> "audio" \in stream)
    /\ sys_fast_video_time_ # 0 => last > 0
    /\ ply_status_ # "fast" => sys_fast_video_time_ # 0

\* The round of caching that goes on began cache_time_ before its end, and the
\* decoder runs at the moment it ends.
Round ==
    ply_status_ = "cache" =>
        /\ now <= rtmp_cache_time_
        /\ now = rtmp_cache_time_ => "decode" \in due
        /\ rtmp_cache_time_ - cache_time_ <= now

\* Without sound the clock, at the beginning of the round, is at the position of
\* the pause.
Position ==
    ply_status_ = "cache" /\ ~got_audio_ =>
        pausedAt = rtmp_fast_video_time_ + (rtmp_cache_time_ - cache_time_)
                   - sys_fast_video_time_

\* What is left in the lists was no older when the round began, and as long as
\* nothing is late everything but the last unit has come.
Supply ==
    ply_status_ = "cache" =>
        /\ audio <= rtmp_cache_time_ - cache_time_ + 1
        /\ video <= rtmp_cache_time_ - cache_time_ + 1
        /\ live /\ now > rtmp_cache_time_ - cache_time_ => last >= now - 1

Inv == Numbers /\ Known /\ Round /\ Position /\ Supply

\* A pause makes a round that begins now.
LEMMA PauseTimes ==
    ASSUME Numbers, Pause
    PROVE  /\ cache_time_' \in Nat /\ cache_time_' >= Second
           /\ cache_delta_' \in Nat /\ cache_delta_' >= 1
           /\ rtmp_cache_time_' = now + cache_time_'
           /\ pausedAt' = rtmp_fast_video_time_ + now - sys_fast_video_time_
           /\ ply_status_' = "cache" /\ live' = TRUE
<1>1. cache_delta_ * Second \in Nat /\ cache_delta_ * Second >= Second
  BY DEF Numbers
<1> QED
  BY <1>1 DEF Pause, Numbers, VideoSysGap

LEMMA DeliverStep == ASSUME Inv, Deliver PROVE Inv'
<1> USE DEF Inv, Deliver, cache, seen
<1>1. got_audio_' <=> "audio" \in stream
  OBVIOUS
<1>2. Numbers'
  BY DEF Numbers, clock
<1>3. Known'
  BY <1>1 DEF Numbers, Known, clock
<1>4. Round'
  BY DEF Round
<1>5. ply_status_ = "cache" => UNCHANGED clock
  BY DEF Known
<1>6. ~got_audio_' => ~got_audio_
  BY <1>1 DEF Known
<1>7. Position'
  BY <1>5, <1>6 DEF Position, clock
<1>8. Supply'
  BY DEF Numbers, Supply
<1> QED
  BY <1>2, <1>3, <1>4, <1>7, <1>8

LEMMA AudioStep == ASSUME Inv, GetPlayAudio PROVE Inv'
<1> USE DEF Inv, GetPlayAudio, cache, seen, clock
<1>1. Numbers'
  BY DEF Numbers, HasAudio
<1>2. Known' /\ Round' /\ Position'
  BY DEF Known, Round, Position
<1>3. Supply'
  BY DEF Supply
<1> QED
  BY <1>1, <1>2, <1>3

LEMMA TickStep == ASSUME Inv, Tick PROVE Inv'
<1> USE DEF Inv, Tick, cache, lists, clock
<1>1. Numbers' /\ Known'
  BY DEF Numbers, Known
<1>2. ply_status_ = "cache" => now < rtmp_cache_time_
  BY DEF Numbers, Known, Round
<1>3. Round' /\ Position'
  BY <1>2 DEF Numbers, Round, Position
<1>4. live' => live /\ last = now
  OBVIOUS
<1>5. Supply'
  BY <1>2, <1>4 DEF Numbers, Supply
<1> QED
  BY <1>1, <1>3, <1>5

\* At the end of a round.
LEMMA CacheStep == ASSUME Inv, DoDecode, Cache PROVE Inv'
<1> USE DEF Inv, DoDecode, Cache, Shift
<1>1. rtmp_cache_time_ = now
  BY DEF Round, Numbers
<1>2. Numbers'
  <2>1. cache_delta_' \in Nat /\ cache_delta_' >= 1
    BY DEF Halve, Numbers
  <2> QED
    BY <2>1 DEF Numbers
<1>3. Known'
  BY DEF Known, Numbers
<1>4. Round' /\ Position' /\ Supply'
  BY <1>1 DEF Numbers, Round, Position, Supply
<1> QED
  BY <1>2, <1>3, <1>4

LEMMA NormalStep == ASSUME Inv, DoDecode, Normal PROVE Inv'
<1> USE DEF Inv, DoDecode, Normal, clock
<1>1. video' \in Nat /\ video' <= last + 1
  BY DEF Numbers, HasVideo
<1>2. CASE Pause
  BY <1>1, <1>2, PauseTimes DEF Numbers, Known, Round, Position, Supply
<1>3. CASE UNCHANGED <<ply_status_, cache, seen>>
  BY <1>1, <1>3 DEF Numbers, Known, Round, Position, Supply, cache, seen
<1> QED
  BY <1>2, <1>3

LEMMA DecodeStep == ASSUME Inv, DoDecode PROVE Inv'
<1>1. CASE Fast
  BY <1>1 DEF Inv, DoDecode, Fast, cache, clock, seen, Numbers, Known, Round,
              Position, Supply
<1>2. CASE Idle
  BY <1>2 DEF Inv, DoDecode, Idle, cache, clock, seen, Numbers, Known, Round,
              Position, Supply
<1> QED
  BY <1>1, <1>2, CacheStep, NormalStep DEF DoDecode

\* The invariant holds after every step.
LEMMA InvStep == ASSUME Inv, [Next]_vars PROVE Inv'
<1>1. CASE UNCHANGED vars
  BY <1>1 DEF vars, lists, cache, clock, seen, Inv, Numbers, Known, Round,
              Position, Supply
<1> QED
  BY <1>1, DeliverStep, AudioStep, TickStep, DecodeStep DEF Next

LEMMA InvInit == Init => Inv
<1> SUFFICES ASSUME Init PROVE Inv
  OBVIOUS
<1>1. Numbers
  BY DEF Init, Numbers
<1>2. Known
  BY DEF Init, Known
<1>3. Round /\ Position /\ Supply
  BY DEF Init, Round, Position, Supply
<1> QED
  BY <1>1, <1>2, <1>3 DEF Inv

\* A stream of pictures alone goes on at the position where it was paused.
THEOREM NothingSkipped == Spec => ResumesWhereItStopped
<1>1. Inv /\ [Next]_vars
      => [ply_status_ = "cache" /\ ply_status_' = "normal" /\ ~got_audio_
          => rtmp_fast_video_time_' + now' - sys_fast_video_time_' = pausedAt]_vars
  <2> SUFFICES ASSUME Inv, Next, ply_status_ = "cache", ply_status_' = "normal",
                      ~got_audio_
               PROVE  rtmp_fast_video_time_' + now' - sys_fast_video_time_' = pausedAt
    BY DEF vars
  <2>1. DoDecode /\ Cache
    BY DEF Next, Deliver, GetPlayAudio, DoDecode, Tick, Fast, Normal, Idle
  <2> QED
    BY <2>1 DEF Inv, Numbers, Round, Position, DoDecode, Cache, Shift
<1> QED
  BY <1>1, InvInit, InvStep, PTL DEF Spec, ResumesWhereItStopped

\* One round of caching is enough if the source kept up during it.
THEOREM OneRound == Spec => ResumesInTime
<1>1. Inv /\ [Next]_vars
      => [ply_status_ = "cache" /\ rtmp_cache_time_' # rtmp_cache_time_ => ~live]_vars
  <2> SUFFICES ASSUME Inv, Next, ply_status_ = "cache",
                      rtmp_cache_time_' # rtmp_cache_time_, live
               PROVE  FALSE
    BY DEF vars
  <2>1. DoDecode /\ Cache /\ ~Cached
    BY DEF Next, Deliver, GetPlayAudio, DoDecode, Tick, Fast, Normal, Idle, Cache,
           cache
  <2>2. rtmp_cache_time_ = now /\ last >= now - 1
    BY <2>1 DEF Inv, Numbers, Round, Supply, Cache
  <2>3. /\ got_audio_ <=> "audio" \in stream
        /\ "audio" \in stream \/ "video" \in stream
    BY <2>1 DEF Inv, Known, DoDecode
  <2>4. MediaBufTime = IF got_audio_ THEN Span(audio) ELSE Span(video)
    BY <2>3 DEF MediaBufTime, AudioSpan, VideoSpan
  <2>5. Span(audio) >= cache_time_ - 2 /\ Span(video) >= cache_time_ - 2
    BY <2>2 DEF Inv, Numbers, Supply, Span
  <2> QED
    BY <2>1, <2>4, <2>5 DEF Cached, Inv, Numbers, Span
<1> QED
  BY <1>1, InvInit, InvStep, PTL DEF Spec, ResumesInTime

-----------------------------------------------------------------------------
(* The types, and the time to cache.                                       *)

\* The values cache_delta_ takes: 1, 2, 4, ..., PLY_MAX_CACHE.
Deltas == CHOOSE D \in SUBSET (1..PLY_MAX_CACHE) :
              /\ {1, PLY_MAX_CACHE} \subseteq D
              /\ \A d \in D : d < PLY_MAX_CACHE => 2 * d \in D

\* The fields that Numbers only knows to be numbers have their bounds: the clock
\* was set before the round of caching began.
Limits ==
    /\ audio >= 1 /\ video >= 1 /\ got_audio_ \in BOOLEAN
    /\ ply_status_ \in {"fast", "normal", "cache"}
    /\ sys_fast_video_time_ <= now /\ rtmp_fast_video_time_ <= last
    /\ rtmp_cache_time_ <= now + cache_time_
    /\ play_cur_time_ \in 0..last
    /\ ply_status_ = "cache" => sys_fast_video_time_ <= rtmp_cache_time_ - cache_time_

\* Between two pauses cache_delta_ is twice the seconds cached last, or half of
\* the longest, which were cached last; during a pause it is always twice.
Delays ==
    /\ \E d \in Deltas : cache_time_ = d * Second
    /\ cache_delta_ \in Deltas
    /\ ply_status_ = "fast" => pausedAt = 0
    /\ ply_status_ # "cache" => cache_delta_ < PLY_MAX_CACHE
    /\ ply_status_ = "cache" =>
          \E d \in Deltas : cache_time_ = d * Second /\ cache_delta_ = 2 * d
    /\ ply_status_ = "normal" /\ pausedAt # 0 =>
          \E d \in Deltas : /\ cache_time_ = d * Second
                            /\ \/ cache_delta_ = 2 * d
                               \/ cache_delta_ = d /\ 2 * d = PLY_MAX_CACHE

FullInv == Inv /\ Limits /\ Delays

LEMMA DeltasExist ==
    /\ Deltas \subseteq 1..PLY_MAX_CACHE /\ 1 \in Deltas /\ PLY_MAX_CACHE \in Deltas
    /\ \A d \in Deltas : d < PLY_MAX_CACHE => 2 * d \in Deltas
  BY DoublingAssumption DEF Deltas

\* So many seconds are at least one, and at most the longest time.
LEMMA Seconds ==
    ASSUME NEW d \in 1..PLY_MAX_CACHE
    PROVE  /\ d * Second \in Nat /\ d * Second >= Second
           /\ d * Second <= Second * PLY_MAX_CACHE
  OBVIOUS

LEMMA LimitsInit == Init => Limits
<1> SUFFICES ASSUME Init PROVE Limits
  OBVIOUS
<1>1. now = 1 /\ last = 0 /\ rtmp_cache_time_ = 0 /\ cache_time_ = Second
  BY DEF Init
<1>2. /\ audio = 1 /\ video = 1 /\ ply_status_ = "fast"
      /\ sys_fast_video_time_ = 0 /\ rtmp_fast_video_time_ = 0 /\ play_cur_time_ = 0
  BY DEF Init
<1>3. /\ audio >= 1 /\ video >= 1 /\ play_cur_time_ \in 0..last
      /\ rtmp_cache_time_ <= now + cache_time_
  BY <1>1, <1>2
<1>4. got_audio_ \in BOOLEAN
  BY Zenon DEF Init
<1>5. sys_fast_video_time_ <= now /\ rtmp_fast_video_time_ <= last
  BY <1>1, <1>2
<1>6. ply_status_ # "cache"
  BY <1>2
<1> QED
  BY <1>2, <1>3, <1>4, <1>5, <1>6 DEF Limits

LEMMA LimitsStep == ASSUME Inv, Limits, [Next]_vars PROVE Limits'
<1> USE DEF Inv, Numbers, Limits
<1>1. CASE UNCHANGED vars
  BY <1>1 DEF vars, lists, cache, clock
<1>2. CASE Deliver
  BY <1>2 DEF Deliver, cache, clock, Known
<1>3. CASE GetPlayAudio
  BY <1>3 DEF GetPlayAudio, cache, clock, HasAudio
<1>4. CASE Tick
  BY <1>4 DEF Tick, lists, cache, clock
<1>5. CASE DoDecode /\ Fast
  BY <1>5 DEF DoDecode, Fast, Ready, HasAudio, HasVideo, cache, clock, seen
<1>6. CASE DoDecode /\ Normal
  <2>1. CASE Pause
    BY <1>6, <2>1, PauseTimes DEF DoDecode, Normal, clock, HasVideo
  <2>2. CASE UNCHANGED <<ply_status_, cache, seen>>
    BY <1>6, <2>2 DEF DoDecode, Normal, clock, cache, HasVideo
  <2> QED
    BY <1>6, <2>1, <2>2 DEF Normal
<1>7. CASE DoDecode /\ Cache
  <2>1. rtmp_cache_time_ = now
    BY <1>7 DEF Cache, Round
  <2> QED
    BY <1>7, <2>1 DEF DoDecode, Cache, Shift
<1>8. CASE DoDecode /\ Idle
  BY <1>8 DEF DoDecode, Idle, cache, clock
<1> QED
  BY <1>1, <1>2, <1>3, <1>4, <1>5, <1>6, <1>7, <1>8 DEF Next, DoDecode

LEMMA DelaysInit == Init => Delays
  BY DeltasExist DEF Init, Delays

\* A pause between two rounds of caching, which of them it is.
LEMMA PauseDelays ==
    ASSUME Inv, Limits, Delays, ply_status_ # "cache", Pause
    PROVE  Delays' /\ \E d \in Deltas : d = cache_delta_ /\ cache_time_' = d * Second
<1>1. cache_delta_ \in Deltas /\ cache_delta_ < PLY_MAX_CACHE
  BY DEF Delays
<1>2. 2 * cache_delta_ \in Deltas
  BY <1>1, DeltasExist
<1>3. /\ cache_time_' = cache_delta_ * Second /\ cache_delta_' = 2 * cache_delta_
      /\ ply_status_' = "cache"
  BY <1>1, DeltasExist DEF Pause
<1> QED
  BY <1>1, <1>2, <1>3 DEF Delays

LEMMA DelaysStep == ASSUME Inv, Limits, Delays, [Next]_vars PROVE Delays'
<1>1. CASE UNCHANGED <<ply_status_, cache, pausedAt>>
  BY <1>1 DEF Delays, cache
<1>2. CASE DoDecode /\ Fast
  BY <1>2 DEF Fast, cache, seen, Delays
<1>3. CASE DoDecode /\ Normal
  BY <1>1, <1>3, PauseDelays DEF Normal, seen, cache
<1>4. CASE DoDecode /\ Cache
  <2>1. PICK d \in Deltas : cache_time_ = d * Second /\ cache_delta_ = 2 * d
    BY <1>4 DEF Cache, Delays
  <2>2. d \in Nat /\ 2 * d <= PLY_MAX_CACHE
    BY <2>1, DeltasExist DEF Delays
  <2>3. CASE ~Cached
    BY <1>4, <2>3 DEF Cache, Delays
  <2>4. CASE Cached /\ cache_delta_ = PLY_MAX_CACHE
    <3>1. cache_delta_' = d /\ ply_status_' = "normal" /\ cache_time_' = cache_time_
      BY <1>4, <2>1, <2>2, <2>4 DEF Cache, Halve
    <3>2. d < PLY_MAX_CACHE /\ 2 * d = PLY_MAX_CACHE
      BY <2>1, <2>2, <2>4
    <3> QED
      BY <2>1, <3>1, <3>2 DEF Delays
  <2>5. CASE Cached /\ cache_delta_ # PLY_MAX_CACHE
    <3>1. /\ cache_delta_' = cache_delta_ /\ ply_status_' = "normal"
          /\ cache_time_' = cache_time_
      BY <1>4, <2>5 DEF Cache, Halve
    <3>2. cache_delta_ < PLY_MAX_CACHE
      BY <2>1, <2>2, <2>5
    <3> QED
      BY <2>1, <3>1, <3>2 DEF Delays
  <2> QED
    BY <2>3, <2>4, <2>5
<1> QED
  BY <1>1, <1>2, <1>3, <1>4
  DEF Next, vars, seen, Deliver, GetPlayAudio, Tick, DoDecode, Idle

LEMMA FullInvAlways == Spec => []FullInv
<1>1. Init => FullInv
  BY InvInit, LimitsInit, DelaysInit DEF FullInv
<1>2. FullInv /\ [Next]_vars => FullInv'
  BY InvStep, LimitsStep, DelaysStep DEF FullInv
<1> QED
  BY <1>1, <1>2, PTL DEF Spec

\* Every field holds what the code stores there: what it takes was delivered
\* before, and the difference of two times is never negative.
THEOREM TypeCorrect == Spec => []TypeOK
<1>1. FullInv => TypeOK
  <2> SUFFICES ASSUME FullInv PROVE TypeOK
    OBVIOUS
  <2>1. cache_delta_ \in 1..PLY_MAX_CACHE
    BY DeltasExist DEF FullInv, Delays
  <2>2. cache_time_ \in Second..Second * PLY_MAX_CACHE
    <3>1. PICK d \in 1..PLY_MAX_CACHE : cache_time_ = d * Second
      BY DeltasExist DEF FullInv, Delays
    <3>2. Second \in Nat /\ Second * PLY_MAX_CACHE \in Nat
      OBVIOUS
    <3> QED
      BY <3>1, <3>2, Seconds
  <2> QED
    BY <2>1, <2>2 DEF FullInv, Inv, Numbers, Limits, TypeOK
<1> QED
  BY <1>1, FullInvAlways, PTL

\* Every pause after the first caches twice as long as the one before, until that
\* is half of the longest time.
THEOREM BacksOff == Spec => BackOff
<1>1. FullInv /\ [Next]_vars
      => [ply_status_ = "normal" /\ ply_status_' = "cache" /\ pausedAt # 0
          => cache_time_' = IF 4 * cache_time_ <= PLY_MAX_CACHE * Second
                            THEN 2 * cache_time_ ELSE cache_time_]_vars
  <2> SUFFICES ASSUME FullInv, Next, ply_status_ = "normal", ply_status_' = "cache",
                      pausedAt # 0
               PROVE  cache_time_' = IF 4 * cache_time_ <= PLY_MAX_CACHE * Second
                                     THEN 2 * cache_time_ ELSE cache_time_
    BY DEF vars
  <2>1. Pause
    BY DEF Next, Deliver, GetPlayAudio, DoDecode, Tick, Fast, Normal, Cache, Idle
  <2>2. cache_time_' = cache_delta_ * Second /\ cache_delta_ < PLY_MAX_CACHE
    BY <2>1, PauseDelays DEF FullInv, Delays
  <2>3. PICK d \in Deltas : /\ cache_time_ = d * Second
                            /\ \/ cache_delta_ = 2 * d
                               \/ cache_delta_ = d /\ 2 * d = PLY_MAX_CACHE
    BY DEF FullInv, Delays
  <2>4. d \in 1..PLY_MAX_CACHE /\ Second \in Nat /\ Second > 0
    BY DeltasExist
  <2>5. CASE cache_delta_ = 2 * d
    <3>1. 4 * d <= PLY_MAX_CACHE
      <4>1. 2 * (2 * d) \in Deltas
        BY <2>2, <2>5, DeltasExist DEF FullInv, Delays
      <4> QED
        BY <2>4, <4>1, DeltasExist
    <3>2. 4 * (d * Second) <= PLY_MAX_CACHE * Second
      BY <2>4, <3>1
    <3>3. (2 * d) * Second = 2 * (d * Second)
      BY <2>4
    <3> QED
      BY <2>2, <2>3, <2>5, <3>2, <3>3
  <2>6. CASE cache_delta_ = d /\ 2 * d = PLY_MAX_CACHE
    <3>1. PLY_MAX_CACHE * Second = 2 * (d * Second) /\ d * Second \in Nat \ {0}
      BY <2>4, <2>6
    <3> QED
      BY <2>2, <2>3, <2>6, <3>1
  <2> QED
    BY <2>3, <2>5, <2>6
<1> QED
  BY <1>1, FullInvAlways, PTL DEF Spec, BackOff
=============================================================================
