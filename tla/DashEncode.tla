----------------------------- MODULE DashEncode -----------------------------
(***************************************************************************)
(* The times of the samples: WebmEncoder::DashEncode and what it calls,    *)
(* with the capture threads that fill the two pools, VorbisEncoder's       *)
(* packet store and VpxEncoder's frame decisions.  WebmEncoder has the     *)
(* same loop without times; here nothing but one encode pass after the     *)
(* other is left of it.                                                    *)
(*                                                                         *)
(* Time is in milliseconds of the stream.  An audio sample is counted, a   *)
(* video frame is its timestamp.  libvorbis and libvpx are outside the     *)
(* repository: libvorbis hands out at most one packet per analyzed block,  *)
(* with the position (granulepos) of its last complete sample; libvpx      *)
(* returns one frame per frame it is given, as it is configured without    *)
(* lag and does not drop frames unless it is told to.                      *)
(***************************************************************************)
EXTENDS Integers, Sequences, SequencesExt

CONSTANTS
  MsPerUnit, SamplesPerUnit,  \* sample rate: so many samples in so many ms
  BufferSamples,    \* samples in one captured audio buffer
  VideoBuffers,     \* objects in the video pool, which does not grow
  TimePerFrame,     \* kTimebase / frame_rate
  KeyframeInterval, \* VpxConfig::keyframe_interval
  Decimations,      \* values of VpxConfig::decimate
  FirstTimes,       \* times at which a stream may start
  IntLimit,         \* an int holds -IntLimit..IntLimit - 1
  FrameGaps,        \* times between two captured frames
  MaxBuffers, MaxFrames,  \* bounds: samples the devices deliver
  MaxFailures       \* bound: failures inside ReadCompressedAudio

ASSUME DashAssumption ==
  /\ {MsPerUnit, SamplesPerUnit, BufferSamples, VideoBuffers, TimePerFrame}
       \cup {IntLimit} \cup Decimations \subseteq Nat \ {0}
  /\ KeyframeInterval \in Nat
  /\ FirstTimes \subseteq Int /\ FrameGaps \subseteq Nat \ {0}
  /\ {MaxBuffers, MaxFrames, MaxFailures} \subseteq Nat

(* DirectShow counts the time of a stream from the call of Run: a sample   *)
(* is a little early when it was captured before, and never by the 24 days *)
(* that would not fit the int WaitForSamples makes of a negative time.     *)
ASSUME StartAssumption == \A t \in FirstTimes : t > -IntLimit

VARIABLES
  decimate,     \* VpxConfig::decimate of this encode
  first,        \* first.audio, first.video: when the streams start
  buffers_in,   \* number of audio buffers captured
  audio_pool,   \* timestamps of the buffers in audio_pool_
  frames_due,   \* timestamp of the frame captured last, and how many
  video_pool,   \* timestamps of the frames in video_pool_
  committed,    \* history: timestamps of the frames the pool accepted
  timestamp_offset_,
  thread,           \* control point of the encoder thread
  video_timestamp,  \* DashEncode's local
  fed,              \* libvorbis: samples it was given
  granulepos,       \* libvorbis: position of its last block, -1: none yet
  flushed,          \* history: the packets libvorbis handed out
  ogg_packets_,     \* VorbisEncoder: packets stored and not yet returned
  samples_encoded_,
  first_input_timestamp_,
  frames_in_, last_keyframe_time_,  \* VpxEncoder
  muxed_audio,  \* frames of the audio muxer: [ts, packets]
  muxed_video,  \* frames of the video muxer: [ts, key]
  failures      \* failures inside ReadCompressedAudio so far

capture_vars == <<decimate, first, buffers_in, frames_due, committed>>
libvorbis_vars == <<fed, granulepos, flushed>>
vorbis_vars == <<ogg_packets_, samples_encoded_,
                 first_input_timestamp_, muxed_audio>>
video_vars == <<frames_in_, last_keyframe_time_, muxed_video>>
vars == <<capture_vars, audio_pool, video_pool, timestamp_offset_, thread,
          video_timestamp, libvorbis_vars, vorbis_vars, video_vars, failures>>

Init ==
  /\ decimate \in Decimations
  /\ first \in [audio : FirstTimes, video : FirstTimes]
  /\ buffers_in = 0 /\ audio_pool = <<>>
  /\ frames_due = [number |-> 0, ts |-> 0] /\ video_pool = <<>>
  /\ committed = <<>>
  /\ timestamp_offset_ = 0
  /\ thread = "wait" /\ video_timestamp = 0
  /\ fed = 0 /\ granulepos = -1 /\ flushed = <<>>
  /\ ogg_packets_ = <<>> /\ samples_encoded_ = 0
  /\ first_input_timestamp_ = -1
  /\ frames_in_ = 0 /\ last_keyframe_time_ = 0
  /\ muxed_audio = <<>> /\ muxed_video = <<>>
  /\ failures = 0

-----------------------------------------------------------------------------
(* SamplesToMilliseconds truncates. *)
SamplesToMilliseconds(n) == (n * MsPerUnit) \div SamplesPerUnit

(* What VorbisEncoder::time_encoded returns. *)
time_encoded ==
  IF first_input_timestamp_ < 0 THEN 0
  ELSE first_input_timestamp_ + SamplesToMilliseconds(samples_encoded_)

(* VpxEncoder::last_timestamp: that of the last frame encoded. *)
last_video_timestamp ==
  IF muxed_video = <<>> THEN 0 ELSE muxed_video[Len(muxed_video)].ts

-----------------------------------------------------------------------------
(* The capture threads. *)

CaptureAudio ==
  /\ buffers_in < MaxBuffers
  /\ buffers_in' = buffers_in + 1
  /\ audio_pool' = Append(audio_pool,
       first.audio + SamplesToMilliseconds(buffers_in * BufferSamples))
  /\ UNCHANGED <<decimate, first, frames_due, committed, video_pool,
                 timestamp_offset_, thread, video_timestamp, libvorbis_vars,
                 vorbis_vars, video_vars, failures>>

(* A full pool refuses the frame. *)
CaptureVideo(gap) ==
  /\ frames_due.number < MaxFrames
  /\ LET ts == IF frames_due.number = 0 THEN first.video
               ELSE frames_due.ts + gap
     IN  /\ frames_due' = [number |-> frames_due.number + 1, ts |-> ts]
         /\ IF Len(video_pool) < VideoBuffers
            THEN /\ video_pool' = Append(video_pool, ts)
                 /\ committed' = Append(committed, ts)
            ELSE UNCHANGED <<video_pool, committed>>
  /\ UNCHANGED <<decimate, first, buffers_in, audio_pool, timestamp_offset_,
                 thread, video_timestamp, libvorbis_vars, vorbis_vars,
                 video_vars, failures>>

-----------------------------------------------------------------------------
(* The end of WaitForSamples: both pools hold a sample, and the offset     *)
(* moves the earlier of two negative starts to 0.                          *)

(* static_cast<int> of an int64, and std::abs, which has no result for the *)
(* smallest int. *)
ToInt(n) == ((n + IntLimit) % (2 * IntLimit)) - IntLimit
Abs(n) == IF n < 0 /\ n # -IntLimit THEN -n ELSE n

Earliness(ts) == Abs(ToInt(ts))

(* Mutant: the last of the two tests decides. *)
TimestampOffsetLastWins ==
  LET a == Head(audio_pool)
      v == Head(video_pool)
  IN  CASE v < 0 -> Earliness(v)
        [] v >= 0 /\ a < 0 -> Earliness(a)
        [] OTHER -> timestamp_offset_

TimestampOffset ==
  LET a == Head(audio_pool)
      v == Head(video_pool)
  IN  CASE a < 0 /\ v < 0 -> IF Earliness(a) > Earliness(v)
                             THEN Earliness(a) ELSE Earliness(v)
        [] a < 0 /\ v >= 0 -> Earliness(a)
        [] a >= 0 /\ v < 0 -> Earliness(v)
        [] OTHER -> timestamp_offset_

WaitForSamples ==
  /\ thread = "wait"
  /\ audio_pool # <<>> /\ video_pool # <<>>
  /\ timestamp_offset_' = TimestampOffset
  /\ thread' = "encode"
  /\ UNCHANGED <<capture_vars, audio_pool, video_pool, video_timestamp,
                 libvorbis_vars, vorbis_vars, video_vars, failures>>

-----------------------------------------------------------------------------
(* DashEncode: audio. *)

(* VorbisEncoder::Encode: its clock starts with the first buffer. *)
StartClock ==
  first_input_timestamp_' = IF first_input_timestamp_ = -1
                            THEN Head(audio_pool) + timestamp_offset_
                            ELSE first_input_timestamp_

(* EncodeAudioBuffer and VorbisEncoder::Encode, when there is a buffer. *)
EncodeAudioBuffer ==
  /\ thread = "encode"
  /\ IF audio_pool = <<>>
     THEN UNCHANGED <<audio_pool, fed, first_input_timestamp_>>
     ELSE /\ audio_pool' = Tail(audio_pool)
          /\ fed' = fed + BufferSamples
          /\ StartClock
  /\ thread' = "peek"
  /\ UNCHANGED <<capture_vars, video_pool, timestamp_offset_, video_timestamp,
                 granulepos, flushed, ogg_packets_, samples_encoded_,
                 muxed_audio, video_vars, failures>>

(* Either of them fails, which ends the encode: the pool does not give the *)
(* buffer, or the buffer is lost, before or after it started the clock.    *)
EncodeAudioBufferFails ==
  /\ thread = "encode" /\ audio_pool # <<>>
  /\ \/ UNCHANGED <<audio_pool, first_input_timestamp_>>
     \/ /\ audio_pool' = Tail(audio_pool)
        /\ StartClock \/ UNCHANGED first_input_timestamp_
  /\ thread' = "failed"
  /\ UNCHANGED <<capture_vars, video_pool, timestamp_offset_, video_timestamp,
                 libvorbis_vars, ogg_packets_, samples_encoded_, muxed_audio,
                 video_vars, failures>>

(* PeekVideoTimestamp: of the next frame, or the time one would have. *)
PeekVideoTimestamp(pool) ==
  IF pool = <<>> THEN last_video_timestamp + TimePerFrame
  ELSE Head(pool) + timestamp_offset_

PeekBeforeAudio ==
  /\ thread = "peek"
  /\ video_timestamp' = PeekVideoTimestamp(video_pool)
  /\ thread' = "read"
  /\ UNCHANGED <<capture_vars, audio_pool, video_pool, timestamp_offset_,
                 libvorbis_vars, vorbis_vars, video_vars, failures>>

(* What SamplesAvailable and libvorbis can come up with: no block, or one  *)
(* that ends after the last one and within the samples fed.                *)
NoBlock == -1
Blocks == {NoBlock} \cup (granulepos + 1)..fed

ReadStep(block) ==
  /\ thread = "read"
  /\ granulepos' = IF block = NoBlock THEN granulepos ELSE block
  /\ UNCHANGED <<capture_vars, audio_pool, video_pool, timestamp_offset_,
                 video_timestamp, fed, first_input_timestamp_, video_vars>>

Flush(block) ==
  flushed' = IF block = NoBlock THEN flushed ELSE Append(flushed, block)

(* ogg_packets_ after the loop over vorbis_bitrate_flushpacket. *)
Stored(block) ==
  IF block = NoBlock THEN ogg_packets_ ELSE Append(ogg_packets_, block)

(* Mutant: the packets are not cleared. *)
ReturnPacketsKeeps(block) ==
  /\ ReadStep(block)
  /\ Stored(block) # <<>>
  /\ Flush(block)
  /\ samples_encoded_' = IF block = NoBlock THEN 0 ELSE block
  /\ ogg_packets_' = Stored(block)

(* ReadCompressedAudio returns kSuccess: everything stored goes into the   *)
(* buffer.  samples_encoded_ becomes the position of the local packet,     *)
(* which is 0 if this call got none.                                       *)
ReturnPackets(block) ==
  /\ ReadStep(block)
  /\ Stored(block) # <<>>
  /\ Flush(block)
  /\ samples_encoded_' = IF block = NoBlock THEN 0 ELSE block
  /\ ogg_packets_' = <<>>

(* The buffer, at the time of its first packet, becomes a frame; the loop  *)
(* goes on until audio is ahead of video.                                  *)
MuxAudio(block) ==
  /\ ReturnPackets(block)
  /\ LET ts == SamplesToMilliseconds(Stored(block)[1])
                 + first_input_timestamp_
     IN  muxed_audio' =
           Append(muxed_audio, [ts |-> ts, packets |-> Stored(block)])
  /\ thread' = IF time_encoded' > video_timestamp THEN "video" ELSE "read"
  /\ UNCHANGED failures

(* The muxer refuses it, which ends the encode: the packets have left the  *)
(* store, and are lost.                                                    *)
MuxAudioFails(block) ==
  /\ ReturnPackets(block)
  /\ thread' = "failed"
  /\ UNCHANGED <<muxed_audio, failures>>

(* kNoSamples ends the audio loop; it equals BufferPool::kEmpty, so the    *)
(* video loop is not entered.                                              *)
NoSamples ==
  /\ ReadStep(NoBlock)
  /\ Stored(NoBlock) = <<>>
  /\ thread' = "pass_done"
  /\ UNCHANGED <<flushed, ogg_packets_, samples_encoded_,
                 muxed_audio, failures>>

(* A negative status ends the audio loop, too, and nobody looks at it:     *)
(* libvorbis fails on a block, which is lost ...                           *)
AnalysisFails(block) ==
  /\ failures < MaxFailures
  /\ failures' = failures + 1
  /\ block # NoBlock
  /\ ReadStep(block)
  /\ thread' = "video"
  /\ UNCHANGED <<flushed, ogg_packets_, samples_encoded_,
                 muxed_audio>>

(* ... or there is no memory for the result, and the packets stay stored.  *)
BufferInitFails(block) ==
  /\ failures < MaxFailures
  /\ failures' = failures + 1
  /\ ReadStep(block)
  /\ Stored(block) # <<>>
  /\ Flush(block)
  /\ ogg_packets_' = Stored(block)
  /\ thread' = "video"
  /\ UNCHANGED <<samples_encoded_, muxed_audio>>

-----------------------------------------------------------------------------
(* DashEncode: video. *)

(* The gap since the last key frame is tested before the frame is encoded. *)
ForceKeyframe(ts) == ts - last_keyframe_time_ > KeyframeInterval

(* libvpx: a forced key frame is one, so is the first frame of a stream. *)
KeyChoices(ts) ==
  IF muxed_video = <<>> \/ ForceKeyframe(ts) THEN {TRUE} ELSE BOOLEAN

(* Mutant: the time is remembered of frames that are no key frames, too,   *)
(* and not of the key frames nobody forced.                                *)
EncodeFrameForgetsKeys(ts) ==
  \E key \in KeyChoices(ts) :
    /\ muxed_video' = Append(muxed_video, [ts |-> ts, key |-> key])
    /\ last_keyframe_time_' =
         IF ForceKeyframe(ts) \/ ~key THEN ts ELSE last_keyframe_time_

(* VpxEncoder::EncodeFrame when the frame is not dropped, and its muxing.  *)
EncodeFrame(ts) ==
  \E key \in KeyChoices(ts) :
    /\ muxed_video' = Append(muxed_video, [ts |-> ts, key |-> key])
    /\ last_keyframe_time_' = IF key THEN ts ELSE last_keyframe_time_

(* Mutant: the frame is not taken out of the pool when it is dropped. *)
EncodeVideoFrameKeepsDropped ==
  /\ thread = "video"
  /\ IF video_pool = <<>>
     THEN UNCHANGED <<video_pool, video_vars>>
     ELSE LET ts == Head(video_pool) + timestamp_offset_
          IN  /\ frames_in_' = frames_in_ + 1
              /\ IF frames_in_' % decimate # 0
                 THEN UNCHANGED <<video_pool, last_keyframe_time_, muxed_video>>
                 ELSE EncodeFrame(ts) /\ video_pool' = Tail(video_pool)
  /\ thread' = "repeek"
  /\ UNCHANGED <<capture_vars, audio_pool, timestamp_offset_, video_timestamp,
                 libvorbis_vars, vorbis_vars, failures>>

(* EncodeVideoFrame takes the next frame, if there is one.  Decimation     *)
(* drops all but each decimate-th.                                         *)
EncodeVideoFrame ==
  /\ thread = "video"
  /\ IF video_pool = <<>>
     THEN UNCHANGED <<video_pool, video_vars>>
     ELSE LET ts == Head(video_pool) + timestamp_offset_
          IN  /\ video_pool' = Tail(video_pool)
              /\ frames_in_' = frames_in_ + 1
              /\ IF frames_in_' % decimate # 0
                 THEN UNCHANGED <<last_keyframe_time_, muxed_video>>
                 ELSE EncodeFrame(ts)
  /\ thread' = "repeek"
  /\ UNCHANGED <<capture_vars, audio_pool, timestamp_offset_, video_timestamp,
                 libvorbis_vars, vorbis_vars, failures>>

(* It fails, which ends the encode: the pool does not give the frame, or   *)
(* the frame is lost, before it was counted or after; the last key frame   *)
(* may be one that was not muxed.                                          *)
EncodeVideoFrameFails ==
  /\ thread = "video" /\ video_pool # <<>>
  /\ \/ UNCHANGED <<video_pool, frames_in_, last_keyframe_time_>>
     \/ /\ video_pool' = Tail(video_pool)
        /\ UNCHANGED <<frames_in_, last_keyframe_time_>>
     \/ /\ video_pool' = Tail(video_pool)
        /\ frames_in_' = frames_in_ + 1 /\ frames_in_' % decimate = 0
        /\ last_keyframe_time_' \in
             {last_keyframe_time_, Head(video_pool) + timestamp_offset_}
  /\ thread' = "failed"
  /\ UNCHANGED <<capture_vars, audio_pool, timestamp_offset_, video_timestamp,
                 libvorbis_vars, vorbis_vars, muxed_video, failures>>

(* Mutant: the loop goes on as long as there are frames. *)
PeekAfterVideoNoBreak ==
  /\ thread = "repeek"
  /\ video_timestamp' = PeekVideoTimestamp(video_pool)
  /\ thread' = IF video_pool = <<>> THEN "pass_done" ELSE "video"
  /\ UNCHANGED <<capture_vars, audio_pool, video_pool, timestamp_offset_,
                 libvorbis_vars, vorbis_vars, video_vars, failures>>

(* The loop ends when video is ahead of audio or the pool was empty. *)
PeekAfterVideo ==
  /\ thread = "repeek"
  /\ video_timestamp' = PeekVideoTimestamp(video_pool)
  /\ thread' = IF video_timestamp' > time_encoded \/ video_pool = <<>>
               THEN "pass_done" ELSE "video"
  /\ UNCHANGED <<capture_vars, audio_pool, video_pool, timestamp_offset_,
                 libvorbis_vars, vorbis_vars, video_vars, failures>>

(* EncoderThread's loop. *)

(* Nothing but the control point changes. *)
Goto(point) ==
  /\ thread' = point
  /\ UNCHANGED <<capture_vars, audio_pool, video_pool, timestamp_offset_,
                 video_timestamp, libvorbis_vars, vorbis_vars, video_vars,
                 failures>>

(* The user stops the encode, before it begins or between two passes. *)
EncodeStops == thread \in {"wait", "encode"} /\ Goto("done")

(* The media source reports an error, or a chunk cannot be written. *)
PassFails == thread \in {"encode", "pass_done"} /\ Goto("failed")

NextPass == thread = "pass_done" /\ Goto("encode")

-----------------------------------------------------------------------------
Next ==
  \/ CaptureAudio \/ \E gap \in FrameGaps : CaptureVideo(gap)
  \/ WaitForSamples
  \/ EncodeAudioBuffer \/ EncodeAudioBufferFails \/ PeekBeforeAudio
  \/ \E block \in Blocks : \/ MuxAudio(block) \/ MuxAudioFails(block)
                           \/ AnalysisFails(block) \/ BufferInitFails(block)
  \/ NoSamples
  \/ EncodeVideoFrame \/ EncodeVideoFrameFails \/ PeekAfterVideo
  \/ NextPass \/ PassFails \/ EncodeStops

Spec == Init /\ [][Next]_vars
-----------------------------------------------------------------------------
(* Type invariant. *)
TypeOK ==
  /\ decimate \in Decimations
  /\ first.audio \in FirstTimes /\ first.video \in FirstTimes
  /\ buffers_in \in 0..MaxBuffers /\ frames_due.number \in 0..MaxFrames
  /\ audio_pool \in Seq(Int) /\ video_pool \in Seq(Int)
  /\ Len(video_pool) <= VideoBuffers /\ committed \in Seq(Int)
  /\ timestamp_offset_ \in Nat /\ video_timestamp \in Int
  /\ thread \in {"wait", "encode", "peek", "read", "video", "repeek",
                 "pass_done", "done", "failed"}
  /\ fed \in Nat /\ granulepos \in -1..fed /\ flushed \in Seq(0..fed)
  /\ ogg_packets_ \in Seq(0..fed) /\ samples_encoded_ \in 0..fed
  /\ first_input_timestamp_ \in Nat \cup {-1}
  /\ frames_in_ \in Nat /\ last_keyframe_time_ \in Nat
  /\ muxed_audio \in Seq([ts : Nat, packets : Seq(0..fed)])
  /\ muxed_video \in Seq([ts : Nat, key : BOOLEAN])
  /\ failures \in 0..MaxFailures

(* As long as the encode goes on, no sample that is still to be encoded    *)
(* has a negative time, whichever stream started early, however much was   *)
(* captured while the encoder waited for the other one: the comment at     *)
(* EncoderThread's call of WaitForSamples promises this to libvpx and      *)
(* libwebm.                                                                *)
NoNegativeTimes ==
  thread \notin {"wait", "done", "failed"} =>
    /\ \A i \in 1..Len(audio_pool) : audio_pool[i] + timestamp_offset_ >= 0
    /\ \A i \in 1..Len(video_pool) : video_pool[i] + timestamp_offset_ >= 0

(* The packets muxed are those libvorbis handed out, once and in order,    *)
(* and the rest is still stored, also after a failed read; only the        *)
(* failure that ends the encode loses the packets of one call.  Unless a   *)
(* read failed that is one packet, as each is muxed in a frame of its own, *)
(* in the order of time.                                                   *)
PacketsIntact ==
  LET packets == [i \in 1..Len(muxed_audio) |-> muxed_audio[i].packets]
      joined == FlattenSeq(packets)
  IN  /\ IsPrefix(joined, flushed)
      /\ thread # "failed" => joined \o ogg_packets_ = flushed
      /\ failures = 0 =>
           /\ Len(flushed) <= Len(joined) + 1
           /\ \A i \in 1..Len(muxed_audio) : Len(packets[i]) = 1
           /\ \A i \in 2..Len(muxed_audio) :
                muxed_audio[i - 1].ts <= muxed_audio[i].ts

(* Of the frames taken out of the pool exactly each decimate-th reaches    *)
(* the muxer, once, in order and at its own time; the failure that ends    *)
(* the encode loses no more than the frame taken last.                     *)
FramesIntact ==
  LET taken == Len(committed) - Len(video_pool)
  IN  /\ \/ Len(muxed_video) = taken \div decimate
         \/ /\ thread = "failed"
            /\ Len(muxed_video) = (taken - 1) \div decimate
      /\ \A i \in 1..Len(muxed_video) :
           muxed_video[i].ts = committed[i * decimate] + timestamp_offset_

(* A player that joins waits for a key frame no longer than the interval:  *)
(* between two key frames, no frame is later than that after the first.    *)
KeyframeSpacing ==
  \A i \in 1..Len(muxed_video) :
    \/ muxed_video[i].key
    \/ \E k \in 1..(i - 1) :
         muxed_video[k].key /\ muxed_video[i].ts - muxed_video[k].ts
                                 <= KeyframeInterval

(* "Keep stream time reasonably close" (DashEncode): unless                *)
(* ReadCompressedAudio failed, at most one frame is muxed that is later    *)
(* than the audio encoded, even when it arrived while the pass was         *)
(* running and the pass had only an estimate of its time.                  *)
VideoAheadByOne ==
  failures = 0 /\ Len(muxed_video) > 1 =>
    muxed_video[Len(muxed_video) - 1].ts <= time_encoded
=============================================================================
