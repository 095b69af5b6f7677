-------------------------- MODULE DashEncodeProofs --------------------------
(***************************************************************************)
(* Proofs about DashEncode, for every sample rate, size of the pools,      *)
(* decimation, key frame interval, number of samples and time at which a   *)
(* stream starts, as far as it fits an int: no sample still to be encoded  *)
(* has a negative time, every packet and every frame that is due is muxed  *)
(* once and in order but for those lost in the failure that ends the       *)
(* encode, key frames are spaced, and video does not run ahead of audio.   *)
(***************************************************************************)
EXTENDS DashEncode, SequenceLemmas

(* The encode has begun and has not ended. *)
Started == thread \notin {"wait", "done", "failed"}

(* What the devices delivered. *)
Delivered ==
  /\ decimate \in Decimations
  /\ first \in [audio : FirstTimes, video : FirstTimes]
  /\ buffers_in \in 0..MaxBuffers
  /\ frames_due \in [number : 0..MaxFrames, ts : Int]
  /\ frames_due.number > 0 => frames_due.ts >= first.video
  /\ audio_pool \in Seq(Int)
  /\ \A i \in 1..Len(audio_pool) : audio_pool[i] >= first.audio

(* The frames the pool accepted, in the order of time. *)
Accepted ==
  /\ committed \in Seq(Int)
  /\ \A i \in 1..Len(committed) :
       first.video <= committed[i] /\ committed[i] <= frames_due.ts
  /\ \A i, j \in 1..Len(committed) : i < j => committed[i] < committed[j]
  /\ frames_due.number = 0 => committed = <<>>

(* Those still in the pool. *)
Pooled ==
  /\ video_pool \in Seq(Int) /\ Len(video_pool) <= VideoBuffers
  /\ frames_in_ \in Nat /\ frames_in_ + Len(video_pool) = Len(committed)
  /\ \A i \in 1..Len(video_pool) : video_pool[i] = committed[frames_in_ + i]

(* Those that were muxed. *)
Muxed ==
  /\ muxed_video \in Seq([ts : Nat, key : BOOLEAN])
  /\ Len(muxed_video) * decimate <= frames_in_
  /\ frames_in_ < Len(muxed_video) * decimate + decimate
  /\ \A i \in 1..Len(muxed_video) :
       muxed_video[i].ts = committed[i * decimate] + timestamp_offset_

(* The key frame VpxEncoder remembers is one. *)
Keys ==
  /\ last_keyframe_time_ \in Nat
  /\ muxed_video # <<>> =>
       \E k \in 1..Len(muxed_video) :
         muxed_video[k].key /\ muxed_video[k].ts = last_keyframe_time_

(* While the encoder waits nothing is taken out of the pools. *)
Fresh ==
  thread = "wait" =>
    /\ frames_in_ = 0 /\ muxed_video = <<>> /\ first_input_timestamp_ = -1
    /\ IF audio_pool = <<>> THEN buffers_in = 0
       ELSE audio_pool[1] = first.audio
    /\ IF video_pool = <<>> THEN frames_due.number = 0
       ELSE video_pool[1] = first.video

(* The offset makes up for either start. *)
OffsetEnough ==
  /\ timestamp_offset_ \in Nat
  /\ Started => /\ first.audio + timestamp_offset_ >= 0
                /\ first.video + timestamp_offset_ >= 0

(* The vorbis encoder and what was muxed of it. *)
Vorbis ==
  /\ fed \in Nat /\ granulepos \in -1..fed
  /\ flushed \in Seq(0..fed) /\ ogg_packets_ \in Seq(0..fed)
  /\ samples_encoded_ \in 0..fed
  /\ first_input_timestamp_ \in Nat \cup {-1}
  /\ first_input_timestamp_ = -1 =>
       /\ thread \in {"wait", "encode", "done"}
       /\ thread = "encode" => audio_pool # <<>>
       /\ muxed_audio = <<>> /\ samples_encoded_ = 0
  /\ muxed_audio \in Seq([ts : Nat, packets : Seq(0..fed)])

MuxedPackets ==
  FlattenSeq([i \in 1..Len(muxed_audio) |-> muxed_audio[i].packets])

AllMuxed == MuxedPackets \o ogg_packets_ = flushed

(* Unless something failed no packet is left stored, and time_encoded is   *)
(* that of the packet muxed last.                                          *)
InOrder ==
  failures = 0 =>
    /\ ogg_packets_ = <<>>
    /\ samples_encoded_ = 0 \/ samples_encoded_ <= granulepos
    /\ \A i \in 1..Len(muxed_audio) : Len(muxed_audio[i].packets) = 1
    /\ \A i \in 2..Len(muxed_audio) :
         muxed_audio[i - 1].ts <= muxed_audio[i].ts
    /\ muxed_audio # <<>> => muxed_audio[Len(muxed_audio)].ts = time_encoded

(* Nothing is muxed after a frame that is later than the audio encoded,    *)
(* until audio has caught up.                                              *)
CaughtUp ==
  /\ failures = 0 /\ thread = "video" /\ muxed_video # <<>> =>
       last_video_timestamp <= time_encoded
  /\ thread = "read" /\ muxed_video # <<>> =>
       last_video_timestamp <= video_timestamp

Rest ==
  /\ thread \in {"wait", "encode", "peek", "read", "video", "repeek",
                 "pass_done", "done"}
  /\ video_timestamp \in Int /\ failures \in 0..MaxFailures

(* As long as nothing failed that ends the encode. *)
IInv ==
  /\ Rest /\ Delivered /\ Accepted /\ Pooled /\ Muxed /\ Keys /\ Fresh
  /\ OffsetEnough /\ Vorbis /\ AllMuxed /\ InOrder /\ CaughtUp
  /\ KeyframeSpacing /\ VideoAheadByOne

(* What the failure that ends the encode leaves of the packets ... *)
AudioLeft ==
  /\ fed \in Nat /\ granulepos \in -1..fed
  /\ flushed \in Seq(0..fed) /\ ogg_packets_ \in Seq(0..fed)
  /\ samples_encoded_ \in 0..fed
  /\ first_input_timestamp_ \in Nat \cup {-1}
  /\ muxed_audio \in Seq([ts : Nat, packets : Seq(0..fed)])
  /\ PacketsIntact

(* ... and of the frames. *)
VideoLeft ==
  /\ committed \in Seq(Int) /\ video_pool \in Seq(Int)
  /\ Len(video_pool) <= VideoBuffers
  /\ frames_in_ \in Nat /\ last_keyframe_time_ \in Nat
  /\ muxed_video \in Seq([ts : Nat, key : BOOLEAN])
  /\ \A i \in 1..Len(muxed_video) : i * decimate \in 1..Len(committed)
  /\ FramesIntact /\ KeyframeSpacing

(* Only the capture threads go on then. *)
Failed ==
  /\ thread = "failed" /\ video_timestamp \in Int
  /\ failures \in 0..MaxFailures /\ timestamp_offset_ \in Nat
  /\ Delivered /\ AudioLeft /\ VideoLeft /\ VideoAheadByOne

Inv == IInv \/ Failed

-----------------------------------------------------------------------------
(* Arithmetic. *)

(* Samples are counted up in milliseconds. *)
LEMMA Milliseconds ==
  ASSUME DashAssumption, NEW a \in Nat, NEW b \in Nat, a <= b
  PROVE  /\ SamplesToMilliseconds(a) \in Nat
         /\ SamplesToMilliseconds(a) <= SamplesToMilliseconds(b)
         /\ SamplesToMilliseconds(0) = 0
<1>1. MsPerUnit \in Nat /\ SamplesPerUnit \in Nat \ {0}
  BY DEF DashAssumption
<1> DEFINE m == MsPerUnit
           s == SamplesPerUnit
           x == a * m
           y == b * m
<1>2. x \in Nat /\ y \in Nat /\ x <= y
  <2> HIDE DEF m
  <2>1. m \in Nat
    BY <1>1 DEF m
  <2>2. a * m \in Nat /\ b * m \in Nat
    BY <2>1
  <2>3. a * m <= b * m
    BY <2>1
  <2> QED
    BY <2>2, <2>3
<1>3. 0 * m = 0
  BY <1>1
<1> HIDE DEF x, y, s
<1>4. s \in Nat \ {0}
  BY <1>1 DEF s
<1>5. x \div s \in Nat
  BY <1>2, <1>4
<1>6. x \div s <= y \div s
  BY <1>2, <1>4
<1>7. 0 \div s = 0
  BY <1>4
<1> QED
  BY <1>3, <1>5, <1>6, <1>7 DEF SamplesToMilliseconds, x, y, s

(* How many of f frames are a multiple of d. *)
LEMMA Multiples ==
  ASSUME NEW f \in Nat, NEW d \in Nat \ {0}, NEW k \in Nat, k * d <= f,
         f < k * d + d
  PROVE  f \div d = k /\ f % d = f - k * d
<1>1. f \div d = k
  OBVIOUS
<1>2. f = d * (f \div d) + (f % d) /\ f % d \in Int
  OBVIOUS
<1>3. f = d * k + (f % d)
  BY <1>1, <1>2
<1>4. d * k = k * d /\ k * d \in Int
  OBVIOUS
<1> DEFINE x == k * d
           r == f % d
<1>5. f = x + r /\ r \in Int /\ x \in Int
  BY <1>2, <1>3, <1>4
<1> HIDE DEF x, r
<1>6. r = f - x
  BY <1>5
<1> QED
  BY <1>1, <1>6 DEF x, r

(* The frame after f frames is one of them when f + 1 is a multiple. *)
LEMMA NextMultiple ==
  ASSUME NEW f \in Nat, NEW d \in Nat \ {0}, NEW k \in Nat, k * d <= f,
         f < k * d + d
  PROVE  /\ (f + 1) % d = 0 => /\ (k + 1) * d = f + 1
                               /\ f + 1 < (k + 1) * d + d
         /\ (f + 1) % d # 0 => k * d <= f + 1 /\ f + 1 < k * d + d
<1> DEFINE x == k * d
<1>1. x \in Nat /\ x <= f /\ f < x + d /\ (k + 1) * d = x + d
  OBVIOUS
<1>2. CASE f + 1 = x + d
  <2>1. (k + 1) * d = f + 1 /\ f + 1 < (k + 1) * d + d
    BY <1>1, <1>2
  <2>2. (f + 1) % d = 0
    <3> DEFINE l == k + 1
               g == f + 1
    <3>1. l \in Nat /\ g \in Nat /\ l * d <= g /\ g < l * d + d /\ l * d = g
      BY <2>1
    <3> HIDE DEF l, g
    <3>2. g % d = g - l * d
      BY <3>1, Multiples
    <3>3. g - l * d = 0
      BY <3>1
    <3> QED
      BY <3>2, <3>3 DEF g
  <2> QED
    BY <2>1, <2>2
<1>3. CASE f + 1 # x + d
  <2>1. k * d <= f + 1 /\ f + 1 < k * d + d
    <3> HIDE DEF x
    <3>1. x <= f + 1 /\ f + 1 < x + d
      BY <1>1, <1>3
    <3> QED
      BY <3>1 DEF x
  <2>2. (f + 1) % d # 0
    <3> DEFINE g == f + 1
    <3>1. g \in Nat /\ k * d <= g /\ g < k * d + d
      BY <2>1
    <3> HIDE DEF g
    <3>2. g % d = g - k * d
      BY <3>1, Multiples
    <3> HIDE DEF x
    <3>3. g - x # 0
      BY <1>1 DEF g
    <3> QED
      BY <3>2, <3>3 DEF g, x
  <2> QED
    BY <2>1, <2>2
<1> QED
  BY <1>2, <1>3

-----------------------------------------------------------------------------
(* The frames. *)

(* The frame muxed i-th is one the pool accepted, before those still in    *)
(* the pool.                                                               *)
LEMMA MuxedAt ==
  ASSUME DashAssumption, Delivered, Pooled, Muxed,
         NEW i \in 1..Len(muxed_video)
  PROVE  /\ i * decimate \in 1..frames_in_
         /\ i * decimate \in 1..Len(committed)
         /\ Len(muxed_video) \in Nat /\ decimate \in Nat \ {0}
<1> DEFINE n == Len(muxed_video)
           d == decimate
<1>1. d \in Nat \ {0}
  BY DEF DashAssumption, Delivered
<1>2. n \in Nat
  BY LenProperties DEF Muxed
<1>3. frames_in_ \in Nat /\ n * d <= frames_in_
  BY DEF Pooled, Muxed
<1>4. frames_in_ <= Len(committed) /\ Len(committed) \in Nat
  <2>1. Len(video_pool) \in Nat
    BY LenProperties DEF Pooled
  <2> QED
    BY <1>3, <2>1 DEF Pooled
<1> HIDE DEF n, d
<1>5. i * d \in 1..(n * d)
  <2>1. i \in Nat /\ 1 <= i /\ i <= n
    BY <1>2 DEF n
  <2> QED
    BY <1>1, <1>2, <2>1
<1>6. n * d \in Nat
  BY <1>1, <1>2
<1> QED
  BY <1>1, <1>2, <1>3, <1>4, <1>5, <1>6 DEF n, d

(* A frame still in the pool is later than every one that was muxed. *)
LEMMA LaterFrame ==
  ASSUME DashAssumption, Delivered, Accepted, Pooled, Muxed,
         timestamp_offset_ \in Nat, muxed_video # <<>>, video_pool # <<>>
  PROVE  /\ Head(video_pool) + timestamp_offset_ \in Int
         /\ last_video_timestamp \in Int
         /\ last_video_timestamp < Head(video_pool) + timestamp_offset_
<1> DEFINE n == Len(muxed_video)
           a == n * decimate
           b == frames_in_ + 1
<1>1. /\ n \in 1..n /\ n \in Nat
      /\ Len(video_pool) \in Nat /\ Len(video_pool) >= 1
      /\ Head(video_pool) = video_pool[1]
  BY LenProperties, EmptySeq DEF Muxed, Pooled
<1>2. a \in 1..frames_in_ /\ a \in 1..Len(committed)
  BY <1>1, MuxedAt
<1>3. /\ frames_in_ \in Nat /\ committed \in Seq(Int)
      /\ Len(committed) \in Nat
      /\ frames_in_ + Len(video_pool) = Len(committed)
      /\ video_pool[1] = committed[frames_in_ + 1]
  BY <1>1, LenProperties DEF Pooled, Accepted
<1> HIDE DEF a, n
<1>4. a < b /\ b \in 1..Len(committed)
  BY <1>1, <1>2, <1>3
<1>5. /\ committed[a] < committed[b]
      /\ committed[a] \in Int /\ committed[b] \in Int
  BY <1>2, <1>3, <1>4, LenProperties DEF Accepted
<1>6. last_video_timestamp = committed[a] + timestamp_offset_
  <2>1. last_video_timestamp = muxed_video[n].ts
    BY DEF last_video_timestamp, n
  <2>2. muxed_video[n].ts = committed[n * decimate] + timestamp_offset_
    BY <1>1 DEF Muxed, n
  <2> QED
    BY <2>1, <2>2 DEF a
<1>7. Head(video_pool) = committed[b]
  BY <1>1, <1>3
<1> DEFINE x == committed[a]
           y == committed[b]
<1>8. x \in Int /\ y \in Int /\ x < y
  BY <1>5
<1>9. last_video_timestamp = x + timestamp_offset_ /\ Head(video_pool) = y
  BY <1>6, <1>7
<1> HIDE DEF x, y, b
<1> QED
  BY <1>8, <1>9

-----------------------------------------------------------------------------
(* What a step does not touch. *)

(* The frames, from the pool to the muxer. *)
Video == Accepted /\ Pooled /\ Muxed /\ Keys /\ KeyframeSpacing

(* The packets, from libvorbis to the muxer, but for how far time is. *)
Packets == AllMuxed /\ InOrder

(* A step that takes no frame leaves what is known of them. *)
LEMMA VideoKept ==
  ASSUME Video, UNCHANGED <<decimate, first, frames_due, committed, video_pool,
                            timestamp_offset_, video_vars>>
  PROVE  Video'
<1>1. /\ decimate' = decimate /\ first' = first /\ frames_due' = frames_due
      /\ committed' = committed /\ video_pool' = video_pool
      /\ timestamp_offset_' = timestamp_offset_
      /\ frames_in_' = frames_in_ /\ muxed_video' = muxed_video
      /\ last_keyframe_time_' = last_keyframe_time_
  BY DEF video_vars
<1>2. Accepted' /\ Pooled'
  BY <1>1 DEF Video, Accepted, Pooled
<1>3. Muxed' /\ Keys' /\ KeyframeSpacing'
  BY <1>1 DEF Video, Muxed, Keys, KeyframeSpacing
<1> QED
  BY <1>2, <1>3 DEF Video

(* ... as a step that takes no packet does with the packets, ... *)
LEMMA PacketsKept ==
  ASSUME Packets, UNCHANGED <<libvorbis_vars, vorbis_vars, failures>>
  PROVE  Packets'
<1>1. /\ flushed' = flushed /\ granulepos' = granulepos
      /\ ogg_packets_' = ogg_packets_ /\ muxed_audio' = muxed_audio
      /\ samples_encoded_' = samples_encoded_ /\ failures' = failures
      /\ first_input_timestamp_' = first_input_timestamp_
  BY DEF libvorbis_vars, vorbis_vars
<1>2. time_encoded' = time_encoded
  BY <1>1 DEF time_encoded, SamplesToMilliseconds
<1>3. AllMuxed'
  BY <1>1 DEF Packets, AllMuxed, MuxedPackets
<1>4. InOrder'
  BY <1>1, <1>2 DEF Packets, InOrder
<1> QED
  BY <1>3, <1>4 DEF Packets

(* How far time is in the two streams. *)
Times == CaughtUp /\ VideoAheadByOne

(* ... and one that encodes nothing with how far the streams are. *)
LEMMA TimesKept ==
  ASSUME Times, UNCHANGED <<samples_encoded_, first_input_timestamp_,
                            muxed_video, failures>>,
         thread' = "video" => thread = "video",
         thread' = "read" => thread = "read" /\ UNCHANGED video_timestamp
  PROVE  Times'
<1>1. /\ time_encoded' = time_encoded
      /\ last_video_timestamp' = last_video_timestamp
  BY DEF time_encoded, SamplesToMilliseconds, last_video_timestamp
<1>2. CaughtUp'
  BY <1>1 DEF Times, CaughtUp
<1>3. VideoAheadByOne'
  BY <1>1 DEF Times, VideoAheadByOne
<1> QED
  BY <1>2, <1>3 DEF Times

(* The invariant by these groups. *)
LEMMA IInvParts ==
  IInv <=> /\ Rest /\ Delivered /\ Video /\ Fresh /\ OffsetEnough /\ Vorbis
           /\ Packets /\ Times
BY DEF IInv, Video, Packets, Times

(* One timestamp more. *)
LEMMA TimeAppended ==
  ASSUME NEW s \in Seq(Int), NEW x \in Int
  PROVE  /\ Append(s, x) \in Seq(Int) /\ Len(Append(s, x)) = Len(s) + 1
         /\ \A i \in 1..Len(s) : Append(s, x)[i] = s[i]
         /\ Append(s, x)[Len(s) + 1] = x
         /\ Len(s) \in Nat /\ Append(s, x) # <<>>
         /\ s = <<>> => Append(s, x)[1] = x
         /\ s # <<>> => Append(s, x)[1] = s[1]
<1> DEFINE n == Len(s)
           a == Append(s, x)
<1>1. /\ n \in Nat /\ a \in Seq(Int) /\ Len(a) = n + 1
      /\ \A i \in 1..n : a[i] = s[i]
      /\ a[n + 1] = x
      /\ s = <<>> <=> n = 0
      /\ a = <<>> <=> Len(a) = 0
  BY AppendProperties, LenProperties, EmptySeq
<1> HIDE DEF a, n
<1>2. a # <<>>
  BY <1>1
<1>3. CASE s = <<>>
  BY <1>1, <1>2, <1>3 DEF a, n
<1>4. CASE s # <<>>
  <2>1. 1 \in 1..n
    BY <1>1, <1>4
  <2> QED
    BY <1>1, <1>2, <1>4, <2>1 DEF a, n
<1> QED
  BY <1>3, <1>4

-----------------------------------------------------------------------------
(* The capture threads. *)

(* A buffer is captured: its time is not before the first one's. *)
LEMMA AudioDelivered ==
  ASSUME DashAssumption, Delivered, CaptureAudio
  PROVE  /\ Delivered' /\ audio_pool' # <<>>
         /\ audio_pool = <<>> /\ buffers_in = 0 =>
              audio_pool'[1] = first.audio
         /\ audio_pool # <<>> => audio_pool'[1] = audio_pool[1]
<1> DEFINE t == first.audio + SamplesToMilliseconds(buffers_in * BufferSamples)
<1>1. /\ buffers_in < MaxBuffers /\ buffers_in' = buffers_in + 1
      /\ audio_pool' = Append(audio_pool, t)
      /\ UNCHANGED <<decimate, first, frames_due>>
  BY DEF CaptureAudio
<1>2. /\ buffers_in \in 0..MaxBuffers /\ MaxBuffers \in Nat
      /\ first.audio \in Int /\ audio_pool \in Seq(Int)
      /\ BufferSamples \in Nat
  BY DEF Delivered, DashAssumption
<1>3. t \in Int /\ t >= first.audio
      /\ (buffers_in = 0 => t = first.audio)
  <2> DEFINE n == buffers_in * BufferSamples
  <2>1. n \in Nat /\ (buffers_in = 0 => n = 0)
    BY <1>2
  <2> HIDE DEF n
  <2>2. SamplesToMilliseconds(n) \in Nat /\ SamplesToMilliseconds(0) = 0
    BY <2>1, Milliseconds
  <2> QED
    BY <1>2, <2>1, <2>2 DEF n
<1> HIDE DEF t
<1>4. /\ audio_pool' \in Seq(Int) /\ Len(audio_pool') = Len(audio_pool) + 1
      /\ \A i \in 1..Len(audio_pool) : audio_pool'[i] = audio_pool[i]
      /\ audio_pool'[Len(audio_pool) + 1] = t
      /\ Len(audio_pool) \in Nat /\ audio_pool' # <<>>
      /\ audio_pool = <<>> => audio_pool'[1] = t
      /\ audio_pool # <<>> => audio_pool'[1] = audio_pool[1]
  BY <1>1, <1>2, <1>3, TimeAppended
<1>5. Delivered'
  <2>1. buffers_in' \in 0..MaxBuffers
    BY <1>1, <1>2
  <2>2. \A i \in 1..Len(audio_pool') : audio_pool'[i] >= first.audio
    <3> DEFINE n == Len(audio_pool)
    <3>1. \A i \in 1..n : audio_pool'[i] >= first.audio
      BY <1>4 DEF Delivered
    <3>2. n \in Nat /\ Len(audio_pool') = n + 1
          /\ audio_pool'[n + 1] >= first.audio
      BY <1>3, <1>4
    <3> HIDE DEF n
    <3>3. \A i \in 1..(n + 1) : i \in 1..n \/ i = n + 1
      BY <3>2
    <3> QED
      BY <3>1, <3>2, <3>3
  <2> QED
    BY <1>1, <1>4, <2>1, <2>2 DEF Delivered
<1> QED
  BY <1>3, <1>4, <1>5

(* The encoder does not notice. *)
LEMMA CaptureAudioKeeps ==
  ASSUME DashAssumption, IInv, CaptureAudio
  PROVE  IInv'
<1>1. /\ UNCHANGED <<decimate, first, frames_due, committed, video_pool,
                     timestamp_offset_, thread, video_timestamp, video_vars,
                     failures>>
      /\ UNCHANGED <<libvorbis_vars, vorbis_vars>>
  BY DEF CaptureAudio
<1>2. /\ Delivered' /\ audio_pool' # <<>>
      /\ audio_pool = <<>> /\ buffers_in = 0 => audio_pool'[1] = first.audio
      /\ audio_pool # <<>> => audio_pool'[1] = audio_pool[1]
  BY AudioDelivered, IInvParts
<1>3. Video' /\ Packets' /\ Times'
  <2>1. Video'
    BY <1>1, VideoKept, IInvParts
  <2>2. Packets'
    BY <1>1, PacketsKept, IInvParts
  <2>3. Times'
    BY <1>1, TimesKept, IInvParts DEF video_vars, vorbis_vars
  <2> QED
    BY <2>1, <2>2, <2>3
<1>4. Fresh'
  BY <1>1, <1>2, IInvParts DEF Fresh, video_vars, vorbis_vars
<1>5. OffsetEnough' /\ Rest'
  BY <1>1, IInvParts DEF OffsetEnough, Started, Rest
<1>6. Vorbis'
  BY <1>1, <1>2, IInvParts DEF Vorbis, libvorbis_vars, vorbis_vars
<1> QED
  BY <1>2, <1>3, <1>4, <1>5, <1>6 DEF IInv, Video, Packets, Times

(* A frame is captured: it is later than the one before it. *)
LEMMA VideoDelivered ==
  ASSUME DashAssumption, Delivered, NEW gap \in FrameGaps, CaptureVideo(gap)
  PROVE  /\ Delivered' /\ frames_due'.number # 0
         /\ frames_due' \in [number : 0..MaxFrames, ts : Int]
         /\ frames_due'.ts >= first.video
         /\ frames_due.number > 0 => frames_due'.ts > frames_due.ts
         /\ frames_due.number = 0 => frames_due'.ts = first.video
<1> DEFINE t == IF frames_due.number = 0 THEN first.video
                ELSE frames_due.ts + gap
           n == frames_due.number
           u == frames_due.ts
<1>1. /\ n < MaxFrames
      /\ frames_due' = [number |-> n + 1, ts |-> t]
      /\ UNCHANGED <<decimate, first, buffers_in, audio_pool>>
  BY DEF CaptureVideo
<1>2. /\ frames_due \in [number : 0..MaxFrames, ts : Int] /\ MaxFrames \in Nat
      /\ n > 0 => u >= first.video
      /\ first.video \in Int /\ gap \in Nat \ {0}
  BY DEF Delivered, DashAssumption
<1>3. n \in 0..MaxFrames /\ u \in Int /\ t = IF n = 0 THEN first.video
                                                ELSE u + gap
  BY <1>2
<1>4. frames_due'.number = n + 1 /\ frames_due'.ts = t
  BY <1>1
<1> HIDE DEF n, u, t
<1>5. /\ t \in Int /\ t >= first.video
      /\ n > 0 => t > u
      /\ n = 0 => t = first.video
      /\ n + 1 \in 0..MaxFrames /\ n + 1 # 0
  BY <1>1, <1>2, <1>3
<1>6. frames_due' \in [number : 0..MaxFrames, ts : Int]
  BY <1>1, <1>5
<1>7. Delivered'
  BY <1>1, <1>4, <1>5, <1>6 DEF Delivered
<1> QED
  BY <1>4, <1>5, <1>6, <1>7 DEF n, u

(* It is later than all others, if it is accepted. *)
LEMMA CaptureVideoKeeps ==
  ASSUME DashAssumption, IInv, NEW gap \in FrameGaps, CaptureVideo(gap)
  PROVE  IInv'
<1> DEFINE t == frames_due'.ts
           f == frames_in_
           p == Len(video_pool)
           c == Len(committed)
<1>1. /\ IF p < VideoBuffers
         THEN /\ video_pool' = Append(video_pool, t)
              /\ committed' = Append(committed, t)
         ELSE video_pool' = video_pool /\ committed' = committed
      /\ UNCHANGED <<decimate, first, buffers_in, audio_pool,
                     timestamp_offset_, thread, video_timestamp, video_vars,
                     failures>>
      /\ UNCHANGED <<libvorbis_vars, vorbis_vars>>
  BY DEF CaptureVideo
<1>2. /\ frames_due \in [number : 0..MaxFrames, ts : Int]
      /\ first.video \in Int /\ video_pool \in Seq(Int)
      /\ committed \in Seq(Int)
      /\ VideoBuffers \in Nat \ {0} /\ f \in Nat /\ p \in Nat /\ c \in Nat
      /\ f + p = c /\ p <= VideoBuffers
      /\ frames_due.number = 0 => committed = <<>>
  <2>1. p \in Nat /\ c \in Nat
    BY LenProperties, IInvParts DEF Video, Accepted, Pooled
  <2> QED
    BY <2>1, IInvParts DEF Delivered, Video, Accepted, Pooled, DashAssumption
<1>3. /\ t \in Int /\ t >= first.video
      /\ frames_due.number > 0 => t > frames_due.ts
      /\ frames_due.number = 0 => t = first.video
  BY VideoDelivered, IInvParts
<1>4. /\ Delivered' /\ frames_due'.number # 0
      /\ frames_due' \in [number : 0..MaxFrames, ts : Int]
  BY VideoDelivered, IInvParts
<1> HIDE DEF t, f, p, c
<1>5. /\ Delivered' /\ OffsetEnough' /\ Rest' /\ Packets' /\ Vorbis'
  <2>1. Delivered'
    BY <1>4
  <2>2. Packets'
    BY <1>1, PacketsKept, IInvParts
  <2>3. OffsetEnough' /\ Rest'
    BY <1>1, IInvParts DEF OffsetEnough, Started, Rest
  <2>4. Vorbis'
    BY <1>1, IInvParts DEF Vorbis, libvorbis_vars, vorbis_vars
  <2> QED
    BY <2>1, <2>2, <2>3, <2>4
<1>6. Times'
  BY <1>1, TimesKept, IInvParts DEF video_vars, vorbis_vars
<1>7. /\ muxed_video' = muxed_video /\ frames_in_' = frames_in_
      /\ last_keyframe_time_' = last_keyframe_time_
      /\ timestamp_offset_' = timestamp_offset_ /\ decimate' = decimate
      /\ first' = first /\ thread' = thread /\ audio_pool' = audio_pool
      /\ buffers_in' = buffers_in
      /\ first_input_timestamp_' = first_input_timestamp_
  BY <1>1 DEF video_vars, vorbis_vars
<1>8. Keys' /\ KeyframeSpacing'
  BY <1>7, IInvParts DEF Video, Keys, KeyframeSpacing
<1>9. \A i \in 1..c : /\ first.video <= committed[i] /\ committed[i] < t
                      /\ committed[i] \in Int
  <2> SUFFICES ASSUME NEW i \in 1..c
               PROVE  /\ first.video <= committed[i] /\ committed[i] < t
                      /\ committed[i] \in Int
    OBVIOUS
  <2>1. /\ committed[i] \in Int /\ first.video <= committed[i]
        /\ committed[i] <= frames_due.ts
    BY <1>2, LenProperties, IInvParts DEF Video, Accepted, c
  <2>2. frames_due.number # 0
    <3>1. c # 0
      BY <1>2
    <3> QED
      BY <1>2, <3>1 DEF c
  <2>3. frames_due.number > 0 /\ frames_due.ts \in Int
    BY <1>2, <2>2
  <2>4. t \in Int /\ t > frames_due.ts
    BY <1>3, <2>3
  <2> HIDE DEF t, c
  <2> QED
    BY <2>1, <2>3, <2>4
<1>10. CASE p < VideoBuffers
  <2>1. /\ video_pool' \in Seq(Int) /\ Len(video_pool') = p + 1
        /\ \A i \in 1..p : video_pool'[i] = video_pool[i]
        /\ video_pool'[p + 1] = t /\ video_pool' # <<>>
        /\ video_pool = <<>> => video_pool'[1] = t
        /\ video_pool # <<>> => video_pool'[1] = video_pool[1]
    <3>1. video_pool' = Append(video_pool, t)
      BY <1>1, <1>10
    <3>2. video_pool \in Seq(Int) /\ t \in Int
      BY <1>2, <1>3
    <3> QED
      BY <3>1, <3>2, TimeAppended DEF p
  <2>2. /\ committed' \in Seq(Int) /\ Len(committed') = c + 1
        /\ \A i \in 1..c : committed'[i] = committed[i]
        /\ committed'[c + 1] = t
    <3>1. committed' = Append(committed, t)
      BY <1>1, <1>10
    <3>2. committed \in Seq(Int) /\ t \in Int
      BY <1>2, <1>3
    <3> QED
      BY <3>1, <3>2, TimeAppended DEF c
  <2>3. \A i \in 1..(c + 1) : i \in 1..c \/ i = c + 1
    BY <1>2
  <2>4. Accepted'
    <3>1. ASSUME NEW i \in 1..(c + 1)
          PROVE  first.video <= committed'[i] /\ committed'[i] <= t
      <4>1. CASE i \in 1..c
        BY <1>3, <1>9, <2>2, <4>1
      <4>2. CASE i = c + 1
        BY <1>3, <2>2, <4>2
      <4> QED
        BY <2>3, <4>1, <4>2
    <3>2. ASSUME NEW i \in 1..(c + 1), NEW j \in 1..(c + 1), i < j
          PROVE  committed'[i] < committed'[j]
      <4>1. i \in 1..c
        BY <1>2, <3>2
      <4>2. CASE j \in 1..c
        <5>1. committed[i] < committed[j]
          BY <3>2, <4>1, <4>2, IInvParts DEF Video, Accepted, c
        <5> QED
          BY <2>2, <4>1, <4>2, <5>1
      <4>3. CASE j = c + 1
        BY <1>9, <2>2, <4>1, <4>3
      <4> QED
        BY <2>3, <4>2, <4>3
    <3> QED
      BY <1>4, <1>7, <2>2, <3>1, <3>2 DEF Accepted, t
  <2>5. Pooled'
    <3>1. p + 1 <= VideoBuffers /\ f + (p + 1) = c + 1
      BY <1>2, <1>10
    <3>2. ASSUME NEW i \in 1..(p + 1)
          PROVE  video_pool'[i] = committed'[f + i]
      <4>1. CASE i \in 1..p
        <5>1. f + i \in 1..c
          BY <1>2, <4>1
        <5>2. video_pool[i] = committed[f + i]
          BY <4>1, IInvParts DEF Video, Pooled, f, p
        <5> QED
          BY <2>1, <2>2, <4>1, <5>1, <5>2
      <4>2. CASE i \notin 1..p
        <5>1. i = p + 1 /\ f + i = c + 1
          BY <1>2, <4>2
        <5> QED
          BY <2>1, <2>2, <5>1
      <4> QED
        BY <4>1, <4>2
    <3> QED
      BY <1>2, <1>7, <2>1, <2>2, <3>1, <3>2 DEF Pooled, f
  <2>6. Muxed'
    <3>1. ASSUME NEW i \in 1..Len(muxed_video)
          PROVE  committed'[i * decimate] = committed[i * decimate]
      <4> DEFINE k == i * decimate
      <4>1. k \in 1..c
        BY MuxedAt, IInvParts DEF Video, c
      <4> HIDE DEF k
      <4> QED
        BY <2>2, <4>1 DEF k
    <3> QED
      BY <1>7, <3>1, IInvParts DEF Video, Muxed
  <2>7. Fresh'
    BY <1>2, <1>3, <1>7, <2>1, IInvParts DEF Fresh
  <2> QED
    BY <1>5, <1>6, <1>8, <2>4, <2>5, <2>6, <2>7
       DEF IInv, Packets, Times
<1>11. CASE ~(p < VideoBuffers)
  <2>1. video_pool' = video_pool /\ committed' = committed
    BY <1>1, <1>11
  <2>2. Accepted'
    <3>1. \A i \in 1..Len(committed) : committed[i] <= t
      <4>1. ASSUME NEW i \in 1..c PROVE committed[i] <= t
        BY <1>3, <1>9
      <4> QED
        BY <4>1 DEF c
    <3> QED
      BY <1>4, <1>7, <2>1, <3>1, IInvParts DEF Video, Accepted, t
  <2>3. Pooled' /\ Muxed'
    BY <1>7, <2>1, IInvParts DEF Video, Pooled, Muxed
  <2>4. Fresh'
    <3>1. video_pool # <<>>
      BY <1>2, <1>11, EmptySeq DEF p
    <3> QED
      BY <1>7, <2>1, <3>1, IInvParts DEF Fresh
  <2> QED
    BY <1>5, <1>6, <1>8, <2>2, <2>3, <2>4 DEF IInv, Packets, Times
<1> QED
  BY <1>10, <1>11

-----------------------------------------------------------------------------
(* The pass of the encoder thread. *)

(* The time of a negative start fits the int. *)
LEMMA EarlyTime ==
  ASSUME DashAssumption, NEW t \in FirstTimes, t < 0
  PROVE  t \in Int /\ Earliness(t) = -t
<1> DEFINE l == IntLimit
           x == t + l
           d == 2 * l
<1>1. t \in Int /\ l \in Nat \ {0} /\ t > -l
  BY StartAssumption DEF DashAssumption
<1>2. x \in Nat /\ d \in Nat \ {0} /\ 0 * d = 0 /\ x < d
  BY <1>1
<1>3. Earliness(t) = Abs((x % d) - l)
  BY DEF Earliness, ToInt
<1>4. Abs(t) = -t
  BY <1>1 DEF Abs
<1> HIDE DEF l
<1>5. x - l = t
  BY <1>1
<1> HIDE DEF x, d
<1>6. x % d = x
  <2>1. 0 * d <= x /\ x < 0 * d + d
    BY <1>2
  <2>2. x % d = x - 0 * d
    BY <1>2, <2>1, Multiples
  <2> QED
    BY <1>2, <2>2
<1> QED
  BY <1>1, <1>3, <1>4, <1>5, <1>6

(* The wait ends, with an offset that makes up for both starts. *)
LEMMA WaitForSamplesKeeps ==
  ASSUME DashAssumption, IInv, WaitForSamples
  PROVE  IInv'
<1>1. /\ thread = "wait" /\ thread' = "encode"
      /\ audio_pool # <<>> /\ video_pool # <<>>
      /\ timestamp_offset_' = TimestampOffset
      /\ UNCHANGED <<decimate, first, buffers_in, frames_due, committed,
                     audio_pool, video_pool, video_timestamp, failures>>
      /\ UNCHANGED <<libvorbis_vars, vorbis_vars>> /\ UNCHANGED video_vars
  BY DEF WaitForSamples, capture_vars
<1>2. /\ muxed_video' = muxed_video /\ frames_in_' = frames_in_
      /\ last_keyframe_time_' = last_keyframe_time_
      /\ muxed_video = <<>> /\ frames_in_ = 0
      /\ first_input_timestamp_' = first_input_timestamp_
  BY <1>1, IInvParts DEF video_vars, vorbis_vars, Fresh
<1>3. /\ Head(audio_pool) = first.audio /\ Head(video_pool) = first.video
      /\ first.audio \in Int /\ first.video \in Int
  BY <1>1, IInvParts DEF Fresh, Delivered, Video, Pooled, DashAssumption
<1>4. OffsetEnough'
  <2>1. /\ timestamp_offset_' \in Nat
        /\ first.audio + timestamp_offset_' >= 0
        /\ first.video + timestamp_offset_' >= 0
    <3> DEFINE a == first.audio
               v == first.video
               o == timestamp_offset_'
    <3>1. /\ a \in Int /\ v \in Int
          /\ a < 0 => Earliness(a) = -a
          /\ v < 0 => Earliness(v) = -v
      <4>1. a \in FirstTimes /\ v \in FirstTimes
        BY IInvParts DEF Delivered
      <4> QED
        BY <1>3, <4>1, EarlyTime
    <3>2. o = CASE a < 0 /\ v < 0 -> IF Earliness(a) > Earliness(v)
                                     THEN Earliness(a) ELSE Earliness(v)
                [] a < 0 /\ v >= 0 -> Earliness(a)
                [] a >= 0 /\ v < 0 -> Earliness(v)
                [] OTHER -> timestamp_offset_
      BY <1>1, <1>3 DEF TimestampOffset
    <3>3. timestamp_offset_ \in Nat
      BY IInvParts DEF OffsetEnough
    <3> HIDE DEF a, v, o
    <3>4. o \in Nat /\ a + o >= 0 /\ v + o >= 0
      <4>1. CASE a < 0 /\ v < 0
        BY <3>1, <3>2, <4>1
      <4>2. CASE a < 0 /\ v >= 0
        BY <3>1, <3>2, <4>2
      <4>3. CASE a >= 0 /\ v < 0
        BY <3>1, <3>2, <4>3
      <4>4. CASE a >= 0 /\ v >= 0
        BY <3>1, <3>2, <3>3, <4>4
      <4> QED
        BY <3>1, <4>1, <4>2, <4>3, <4>4
    <3> QED
      BY <3>4 DEF a, v, o
  <2> QED
    BY <1>1, <2>1 DEF OffsetEnough
<1>5. Video'
  <2>1. Accepted' /\ Pooled'
    BY <1>1, <1>2, IInvParts DEF Video, Accepted, Pooled
  <2>2. Keys' /\ KeyframeSpacing'
    BY <1>1, <1>2, IInvParts DEF Video, Keys, KeyframeSpacing
  <2>3. Muxed'
    <3>1. \A i \in 1..Len(muxed_video) : FALSE
      BY <1>2
    <3>2. decimate' = decimate
      BY <1>1
    <3> QED
      BY <1>2, <3>1, <3>2, IInvParts DEF Video, Muxed
  <2> QED
    BY <2>1, <2>2, <2>3 DEF Video
<1>6. Packets'
  BY <1>1, PacketsKept, IInvParts
<1>7. Times'
  BY <1>1, <1>2, TimesKept, IInvParts DEF vorbis_vars
<1>8. Delivered' /\ Rest' /\ Fresh'
  BY <1>1, IInvParts DEF Delivered, Rest, Fresh
<1>9. Vorbis'
  BY <1>1, IInvParts DEF Vorbis, libvorbis_vars, vorbis_vars
<1> QED
  BY <1>4, <1>5, <1>6, <1>7, <1>8, <1>9 DEF IInv, Video, Packets, Times

(* Nothing but the control point and the time of the next frame changes. *)
LEMMA PassKeeps ==
  ASSUME IInv,
         UNCHANGED <<capture_vars, audio_pool, video_pool, timestamp_offset_,
                     libvorbis_vars, vorbis_vars, video_vars, failures>>,
         Rest', thread' # "wait", Started' => Started, CaughtUp',
         thread' # "done" => thread \notin {"wait", "encode", "done"}
  PROVE  IInv'
<1>1. /\ UNCHANGED <<decimate, first, buffers_in, frames_due, committed>>
      /\ UNCHANGED <<samples_encoded_, first_input_timestamp_, muxed_video,
                     muxed_audio, fed, granulepos, flushed, ogg_packets_>>
  BY DEF capture_vars, vorbis_vars, libvorbis_vars, video_vars
<1>2. Video'
  BY <1>1, VideoKept, IInvParts
<1>3. Packets'
  BY PacketsKept, IInvParts
<1>4. VideoAheadByOne'
  <2>1. time_encoded' = time_encoded
    BY <1>1 DEF time_encoded, SamplesToMilliseconds
  <2> QED
    BY <1>1, <2>1, IInvParts DEF Times, VideoAheadByOne
<1>5. Delivered' /\ Fresh' /\ OffsetEnough'
  BY <1>1, IInvParts DEF Delivered, Fresh, OffsetEnough
<1>6. Vorbis'
  BY <1>1, IInvParts DEF Vorbis
<1> QED
  BY <1>2, <1>3, <1>4, <1>5, <1>6 DEF IInv, Video, Packets

(* The time to catch up with is not before the last frame. *)
LEMMA PeekedTime ==
  ASSUME DashAssumption, IInv
  PROVE  /\ PeekVideoTimestamp(video_pool) \in Int
         /\ last_video_timestamp \in Int
         /\ muxed_video # <<>> =>
              last_video_timestamp <= PeekVideoTimestamp(video_pool)
<1>1. last_video_timestamp \in Int
  <2>1. CASE muxed_video = <<>>
    BY <2>1 DEF last_video_timestamp
  <2>2. CASE muxed_video # <<>>
    <3>1. Len(muxed_video) \in 1..Len(muxed_video)
      BY <2>2, LenProperties, EmptySeq, IInvParts DEF Video, Muxed
    <3>2. muxed_video[Len(muxed_video)].ts \in Nat
      <4> DEFINE n == Len(muxed_video)
      <4>1. n \in 1..n /\ muxed_video \in [1..n -> [ts : Nat, key : BOOLEAN]]
        BY <3>1, LenProperties, IInvParts DEF Video, Muxed
      <4> HIDE DEF n
      <4>2. muxed_video[n] \in [ts : Nat, key : BOOLEAN]
        BY <4>1
      <4> QED
        BY <4>2 DEF n
    <3> QED
      BY <2>2, <3>2 DEF last_video_timestamp
  <2> QED
    BY <2>1, <2>2
<1>2. timestamp_offset_ \in Nat /\ TimePerFrame \in Nat
  BY IInvParts DEF OffsetEnough, DashAssumption
<1>3. CASE video_pool = <<>>
  BY <1>1, <1>2, <1>3 DEF PeekVideoTimestamp
<1>4. CASE video_pool # <<>>
  <2>1. Head(video_pool) \in Int
    BY <1>4, IInvParts DEF Video, Pooled
  <2>2. muxed_video # <<>> =>
          last_video_timestamp < Head(video_pool) + timestamp_offset_
    BY <1>2, <1>4, LaterFrame, IInvParts DEF Video
  <2> QED
    BY <1>1, <1>2, <1>4, <2>1, <2>2 DEF PeekVideoTimestamp
<1> QED
  BY <1>3, <1>4

(* The time audio has to reach is read before audio is encoded ... *)
LEMMA PeekBeforeAudioKeeps ==
  ASSUME DashAssumption, IInv, PeekBeforeAudio
  PROVE  IInv'
<1>1. /\ thread = "peek" /\ thread' = "read"
      /\ video_timestamp' = PeekVideoTimestamp(video_pool)
      /\ UNCHANGED <<capture_vars, audio_pool, video_pool, timestamp_offset_,
                     libvorbis_vars, vorbis_vars, video_vars, failures>>
  BY DEF PeekBeforeAudio
<1>2. CaughtUp'
  <2>1. muxed_video' = muxed_video
        /\ last_video_timestamp' = last_video_timestamp
    BY <1>1 DEF video_vars, last_video_timestamp
  <2> QED
    BY <1>1, <2>1, PeekedTime DEF CaughtUp
<1>3. Rest' /\ Started
  BY <1>1, PeekedTime, IInvParts DEF Rest, Started
<1> QED
  BY <1>1, <1>2, <1>3, PassKeeps

(* ... and read again after a frame: the loop goes on if audio is ahead. *)
LEMMA PeekAfterVideoKeeps ==
  ASSUME DashAssumption, IInv, PeekAfterVideo
  PROVE  IInv'
<1>1. /\ thread = "repeek" /\ thread' \in {"pass_done", "video"}
      /\ video_timestamp' = PeekVideoTimestamp(video_pool)
      /\ thread' = "video" => ~(video_timestamp' > time_encoded)
      /\ UNCHANGED <<capture_vars, audio_pool, video_pool, timestamp_offset_,
                     libvorbis_vars, vorbis_vars, video_vars, failures>>
  BY DEF PeekAfterVideo
<1>2. time_encoded \in Int
  <2>1. samples_encoded_ \in Nat /\ first_input_timestamp_ \in Int
    BY IInvParts DEF Vorbis
  <2>2. SamplesToMilliseconds(samples_encoded_) \in Nat
    BY <2>1, Milliseconds
  <2> QED
    BY <2>1, <2>2 DEF time_encoded
<1>3. CaughtUp'
  <2>1. /\ muxed_video' = muxed_video /\ time_encoded' = time_encoded
        /\ last_video_timestamp' = last_video_timestamp
    BY <1>1 DEF video_vars, vorbis_vars, last_video_timestamp, time_encoded,
                SamplesToMilliseconds
  <2>2. ASSUME muxed_video # <<>>, thread' = "video"
        PROVE  last_video_timestamp <= time_encoded
    BY <1>1, <1>2, <2>2, PeekedTime
  <2> QED
    BY <1>1, <2>1, <2>2 DEF CaughtUp
<1>4. Rest' /\ Started
  BY <1>1, PeekedTime, IInvParts DEF Rest, Started
<1> QED
  BY <1>1, <1>3, <1>4, PassKeeps

(* A pass ends, or the user stops the encode. *)
LEMMA PassEndKeeps ==
  ASSUME IInv, EncodeStops \/ NextPass
  PROVE  IInv'
<1>1. /\ UNCHANGED <<capture_vars, audio_pool, video_pool, timestamp_offset_,
                     libvorbis_vars, vorbis_vars, video_vars, failures>>
      /\ video_timestamp' = video_timestamp
      /\ \/ thread' = "done"
         \/ thread' = "encode" /\ thread = "pass_done"
  BY DEF EncodeStops, NextPass, Goto
<1>2. CaughtUp'
  BY <1>1 DEF CaughtUp
<1>3. Rest' /\ (Started' => Started)
  BY <1>1, IInvParts DEF Rest, Started
<1> QED
  BY <1>1, <1>2, <1>3, PassKeeps

-----------------------------------------------------------------------------
(* Audio. *)

(* A sequence over a set is one over every larger set. *)
LEMMA SeqOver ==
  ASSUME NEW S, NEW T, S \subseteq T, NEW q \in Seq(S)
  PROVE  q \in Seq(T)
<1>1. Len(q) \in Nat /\ q \in [1..Len(q) -> S]
  BY LenProperties
<1>2. \A i \in 1..Len(q) : q[i] \in T
  BY <1>1
<1> QED
  BY <1>1, <1>2

(* What was true of the packets stays true when libvorbis is given more. *)
LEMMA FedGrows ==
  ASSUME Vorbis, NEW g \in Nat, fed <= g
  PROVE  /\ flushed \in Seq(0..g) /\ ogg_packets_ \in Seq(0..g)
         /\ samples_encoded_ \in 0..g /\ granulepos \in -1..g
         /\ muxed_audio \in Seq([ts : Nat, packets : Seq(0..g)])
<1>1. fed \in Nat /\ 0..fed \subseteq 0..g
  BY DEF Vorbis
<1>2. flushed \in Seq(0..g) /\ ogg_packets_ \in Seq(0..g)
  <2>1. flushed \in Seq(0..fed) /\ ogg_packets_ \in Seq(0..fed)
    BY DEF Vorbis
  <2> QED
    BY <1>1, <2>1, SeqOver
<1>3. samples_encoded_ \in 0..g /\ granulepos \in -1..g
  BY DEF Vorbis
<1>4. muxed_audio \in Seq([ts : Nat, packets : Seq(0..g)])
  <2>1. Seq(0..fed) \subseteq Seq(0..g)
    BY <1>1, SeqOver
  <2>2. [ts : Nat, packets : Seq(0..fed)]
          \subseteq [ts : Nat, packets : Seq(0..g)]
    BY <2>1
  <2>3. muxed_audio \in Seq([ts : Nat, packets : Seq(0..fed)])
    BY DEF Vorbis
  <2> QED
    BY <2>2, <2>3, SeqOver
<1> QED
  BY <1>2, <1>3, <1>4

(* What time_encoded returns. *)
LEMMA TimeEncoded ==
  ASSUME DashAssumption, Vorbis
  PROVE  /\ SamplesToMilliseconds(samples_encoded_) \in Nat
         /\ time_encoded \in Nat
         /\ first_input_timestamp_ # -1 =>
              /\ first_input_timestamp_ \in Nat
              /\ time_encoded = first_input_timestamp_
                                  + SamplesToMilliseconds(samples_encoded_)
<1>1. samples_encoded_ \in Nat /\ first_input_timestamp_ \in Nat \cup {-1}
  BY DEF Vorbis
<1>2. SamplesToMilliseconds(samples_encoded_) \in Nat
  BY <1>1, Milliseconds
<1> QED
  BY <1>1, <1>2 DEF time_encoded

(* When more audio is encoded, video is not further ahead. *)
LEMMA LaterAudio ==
  ASSUME DashAssumption, Vorbis, Muxed, VideoAheadByOne,
         muxed_video' = muxed_video, time_encoded' \in Int,
         failures' = 0 => failures = 0 /\ time_encoded <= time_encoded'
  PROVE  VideoAheadByOne'
<1> DEFINE n == Len(muxed_video)
<1> SUFFICES ASSUME failures' = 0, n > 1
             PROVE  muxed_video[n - 1].ts <= time_encoded'
  BY DEF VideoAheadByOne
<1>1. n \in Nat /\ muxed_video \in [1..n -> [ts : Nat, key : BOOLEAN]]
  BY LenProperties DEF Muxed
<1>2. muxed_video[n - 1].ts <= time_encoded
  BY DEF VideoAheadByOne
<1> HIDE DEF n
<1>3. n - 1 \in 1..n
  BY <1>1
<1>4. muxed_video[n - 1].ts \in Nat
  BY <1>1, <1>3
<1>5. time_encoded \in Int
  BY TimeEncoded
<1> QED
  BY <1>2, <1>4, <1>5

(* The buffer taken out of the pool next has no negative time. *)
LEMMA NextBuffer ==
  ASSUME DashAssumption, Delivered, audio_pool # <<>>,
         timestamp_offset_ \in Nat, first.audio + timestamp_offset_ >= 0
  PROVE  /\ Head(audio_pool) + timestamp_offset_ \in Nat
         /\ Tail(audio_pool) \in Seq(Int)
         /\ \A i \in 1..Len(Tail(audio_pool)) :
              Tail(audio_pool)[i] >= first.audio
<1>1. /\ audio_pool \in Seq(Int) /\ first.audio \in Int
      /\ \A i \in 1..Len(audio_pool) : audio_pool[i] >= first.audio
  BY DEF Delivered, DashAssumption
<1>2. /\ Head(audio_pool) = audio_pool[1]
      /\ Head(audio_pool) \in Int /\ Tail(audio_pool) \in Seq(Int)
      /\ Len(Tail(audio_pool)) = Len(audio_pool) - 1
      /\ Len(audio_pool) \in Nat \ {0}
      /\ \A i \in 1..Len(Tail(audio_pool)) :
           Tail(audio_pool)[i] = audio_pool[i + 1]
  BY <1>1, HeadTailProperties, LenProperties, EmptySeq
<1>3. Head(audio_pool) >= first.audio
  <2>1. 1 \in 1..Len(audio_pool)
    BY <1>2
  <2> QED
    BY <1>1, <1>2, <2>1
<1>4. ASSUME NEW i \in 1..Len(Tail(audio_pool))
      PROVE  Tail(audio_pool)[i] >= first.audio
  <2>1. i + 1 \in 1..Len(audio_pool)
    BY <1>2
  <2> QED
    BY <1>1, <1>2, <2>1
<1>5. Head(audio_pool) + timestamp_offset_ \in Nat
  <2> DEFINE h == Head(audio_pool)
  <2>1. h \in Int /\ h >= first.audio
    BY <1>2, <1>3
  <2> HIDE DEF h
  <2>2. h + timestamp_offset_ \in Nat
    BY <1>1, <2>1
  <2> QED
    BY <2>2 DEF h
<1> QED
  BY <1>2, <1>4, <1>5

(* The next buffer goes to libvorbis; the first one starts its clock. *)
LEMMA EncodeAudioBufferKeeps ==
  ASSUME DashAssumption, IInv, EncodeAudioBuffer
  PROVE  IInv'
<1>1. /\ thread = "encode" /\ thread' = "peek"
      /\ UNCHANGED <<decimate, first, buffers_in, frames_due, committed,
                     video_pool, timestamp_offset_, video_timestamp,
                     granulepos, flushed, ogg_packets_, samples_encoded_,
                     muxed_audio, failures>>
      /\ UNCHANGED video_vars
  BY DEF EncodeAudioBuffer, capture_vars
<1>2. /\ fed \in Nat /\ BufferSamples \in Nat
      /\ first_input_timestamp_ \in Nat \cup {-1}
      /\ first_input_timestamp_ = -1 => audio_pool # <<>>
      /\ first_input_timestamp_ = -1 => muxed_audio = <<>>
      /\ audio_pool \in Seq(Int) /\ first.audio \in Int
      /\ timestamp_offset_ \in Nat /\ first.audio + timestamp_offset_ >= 0
      /\ \A i \in 1..Len(audio_pool) : audio_pool[i] >= first.audio
  BY <1>1, IInvParts DEF Delivered, Vorbis, OffsetEnough, Started,
     DashAssumption
<1>3. /\ first_input_timestamp_' \in Nat /\ audio_pool' \in Seq(Int)
      /\ fed' \in Nat /\ fed <= fed'
      /\ first_input_timestamp_ # -1 =>
           first_input_timestamp_' = first_input_timestamp_
      /\ \A i \in 1..Len(audio_pool') : audio_pool'[i] >= first.audio
  <2>1. CASE audio_pool = <<>>
    <3>1. UNCHANGED <<audio_pool, fed, first_input_timestamp_>>
      BY <2>1 DEF EncodeAudioBuffer
    <3> QED
      BY <1>2, <2>1, <3>1
  <2>2. CASE audio_pool # <<>>
    <3>1. /\ audio_pool' = Tail(audio_pool)
          /\ fed' = fed + BufferSamples
          /\ first_input_timestamp_' =
               IF first_input_timestamp_ = -1
               THEN Head(audio_pool) + timestamp_offset_
               ELSE first_input_timestamp_
      BY <2>2 DEF EncodeAudioBuffer, StartClock
    <3>2. /\ Head(audio_pool) + timestamp_offset_ \in Nat
          /\ Tail(audio_pool) \in Seq(Int)
          /\ \A i \in 1..Len(Tail(audio_pool)) :
               Tail(audio_pool)[i] >= first.audio
      BY <1>2, <2>2, NextBuffer, IInvParts
    <3>3. first_input_timestamp_' \in Nat
      BY <1>2, <3>1, <3>2
    <3>4. fed' \in Nat /\ fed <= fed'
      BY <1>2, <3>1
    <3>5. /\ audio_pool' \in Seq(Int)
          /\ \A i \in 1..Len(audio_pool') : audio_pool'[i] >= first.audio
      BY <3>1, <3>2
    <3>6. first_input_timestamp_ # -1 =>
            first_input_timestamp_' = first_input_timestamp_
      BY <3>1
    <3> QED
      BY <3>3, <3>4, <3>5, <3>6
  <2> QED
    BY <2>1, <2>2
<1>4. Video'
  BY <1>1, VideoKept, IInvParts
<1>5. Delivered' /\ OffsetEnough' /\ Rest' /\ Fresh'
  <2>1. Delivered'
    BY <1>1, <1>3, IInvParts DEF Delivered
  <2>2. OffsetEnough' /\ Rest' /\ Fresh'
    BY <1>1, IInvParts DEF OffsetEnough, Started, Rest, Fresh
  <2> QED
    BY <2>1, <2>2
<1>6. Vorbis'
  <2> DEFINE g == fed'
  <2>1. g \in Nat /\ fed <= g /\ Vorbis
    BY <1>3, IInvParts
  <2> HIDE DEF g
  <2>2. /\ flushed \in Seq(0..g) /\ ogg_packets_ \in Seq(0..g)
        /\ samples_encoded_ \in 0..g /\ granulepos \in -1..g
        /\ muxed_audio \in Seq([ts : Nat, packets : Seq(0..g)])
    BY <2>1, FedGrows
  <2>3. first_input_timestamp_' \in Nat \cup {-1}
        /\ first_input_timestamp_' # -1
    BY <1>3
  <2> QED
    BY <1>1, <2>1, <2>2, <2>3 DEF Vorbis, g
<1>7. AllMuxed'
  BY <1>1, IInvParts DEF Packets, AllMuxed, MuxedPackets
<1>8. muxed_audio # <<>> => time_encoded' = time_encoded
  BY <1>1, <1>2, <1>3 DEF time_encoded, SamplesToMilliseconds
<1>9. InOrder'
  BY <1>1, <1>8, IInvParts DEF Packets, InOrder
<1>10. VideoAheadByOne'
  <2> DEFINE m == SamplesToMilliseconds(samples_encoded_)
  <2>1. /\ m \in Nat
        /\ first_input_timestamp_ # -1 =>
             /\ first_input_timestamp_ \in Nat
             /\ time_encoded = first_input_timestamp_ + m
    BY TimeEncoded, IInvParts
  <2>2. first_input_timestamp_ = -1 => time_encoded = 0
    BY DEF time_encoded
  <2>3. time_encoded' = first_input_timestamp_' + m
    BY <1>1, <1>3 DEF time_encoded, SamplesToMilliseconds
  <2> HIDE DEF m
  <2>4. time_encoded' \in Int /\ time_encoded <= time_encoded'
    BY <1>3, <2>1, <2>2, <2>3
  <2>5. muxed_video' = muxed_video /\ failures' = failures
    BY <1>1 DEF video_vars
  <2> QED
    BY <2>4, <2>5, LaterAudio, IInvParts DEF Video, Times
<1>11. CaughtUp'
  BY <1>1 DEF CaughtUp
<1> QED
  BY <1>4, <1>5, <1>6, <1>7, <1>9, <1>10, <1>11 DEF IInv, Video

(* What a step of ReadCompressedAudio has in common, however it ends. *)
ReadEnds ==
  /\ Rest' /\ Delivered' /\ Video' /\ Fresh' /\ OffsetEnough'
  /\ thread = "read"
  /\ muxed_video' = muxed_video /\ video_timestamp' = video_timestamp
  /\ first_input_timestamp_' = first_input_timestamp_
  /\ first_input_timestamp_ \in Nat
  /\ fed' = fed /\ fed \in Nat
  /\ granulepos' \in -1..fed /\ granulepos \in -1..fed

(* It keeps all but what is known of the packets and of the time. *)
LEMMA ReadKeeps ==
  ASSUME DashAssumption, IInv, NEW block \in Blocks, ReadStep(block),
         failures' \in 0..MaxFailures,
         thread' \in {"read", "video", "pass_done"}
  PROVE  ReadEnds
<1>1. /\ thread = "read" /\ fed' = fed
      /\ granulepos' = IF block = NoBlock THEN granulepos ELSE block
      /\ UNCHANGED <<decimate, first, buffers_in, frames_due, committed,
                     audio_pool, video_pool, timestamp_offset_,
                     video_timestamp, first_input_timestamp_>>
      /\ UNCHANGED video_vars
  BY DEF ReadStep, capture_vars
<1>2. Video'
  BY <1>1, VideoKept, IInvParts
<1>3. Rest' /\ Delivered'
  BY <1>1, IInvParts DEF Rest, Delivered
<1>4. Fresh' /\ OffsetEnough'
  BY <1>1, IInvParts DEF Fresh, OffsetEnough, Started
<1>5. /\ first_input_timestamp_ \in Nat /\ fed \in Nat
      /\ granulepos \in -1..fed
  BY <1>1, IInvParts DEF Vorbis
<1>6. granulepos' \in -1..fed
  BY <1>1, <1>5 DEF Blocks, NoBlock
<1>7. muxed_video' = muxed_video
  BY <1>1 DEF video_vars
<1> QED
  BY <1>1, <1>2, <1>3, <1>4, <1>5, <1>6, <1>7 DEF ReadEnds

(* The packets muxed are sequences of positions. *)
LEMMA MuxedAreSequences ==
  ASSUME Vorbis
  PROVE  /\ [i \in 1..Len(muxed_audio) |-> muxed_audio[i].packets]
              \in Seq(Seq(0..fed))
         /\ MuxedPackets \in Seq(0..fed) /\ MuxedPackets \in Seq(Nat)
<1> DEFINE n == Len(muxed_audio)
           g == [i \in 1..n |-> muxed_audio[i].packets]
<1>1. /\ n \in Nat
      /\ muxed_audio \in [1..n -> [ts : Nat, packets : Seq(0..fed)]]
  BY LenProperties DEF Vorbis
<1>2. \A i \in 1..n : muxed_audio[i].packets \in Seq(0..fed)
  <2> HIDE DEF n
  <2> TAKE i \in 1..n
  <2>1. muxed_audio[i] \in [ts : Nat, packets : Seq(0..fed)]
    BY <1>1
  <2> QED
    BY <2>1
<1>3. g \in Seq(Seq(0..fed))
  BY <1>1, <1>2
<1> HIDE DEF g
<1>4. FlattenSeq(g) \in Seq(0..fed)
  BY <1>3, FlattenSeqType
<1>5. 0..fed \subseteq Nat
  BY DEF Vorbis
<1>6. FlattenSeq(g) \in Seq(Nat)
  BY <1>4, <1>5, SeqOver
<1> QED
  BY <1>3, <1>4, <1>6 DEF MuxedPackets, g

(* What is muxed comes behind what was muxed. *)
LEMMA MuxedGrows ==
  ASSUME Vorbis, NEW t \in Nat, NEW p \in Seq(0..fed),
         muxed_audio' = Append(muxed_audio, [ts |-> t, packets |-> p])
  PROVE  MuxedPackets' = MuxedPackets \o p
<1> DEFINE n == Len(muxed_audio)
           r == [ts |-> t, packets |-> p]
           a == Append(muxed_audio, r)
           f == [i \in 1..n |-> muxed_audio[i].packets]
           g == [i \in 1..Len(a) |-> a[i].packets]
<1>1. /\ n \in Nat /\ Len(a) = n + 1
      /\ \A i \in 1..n : a[i] = muxed_audio[i]
      /\ a[n + 1] = r
  <2>1. /\ muxed_audio \in Seq([ts : Nat, packets : Seq(0..fed)])
        /\ r \in [ts : Nat, packets : Seq(0..fed)]
    BY DEF Vorbis
  <2> HIDE DEF r
  <2> QED
    BY <2>1, AppendProperties, LenProperties
<1>2. f \in Seq(Seq(0..fed))
  BY MuxedAreSequences
<1>3. Len(f) = n
  BY <1>1
<1>4. r.packets = p
  OBVIOUS
<1> HIDE DEF a, r, n
<1>5. /\ DOMAIN g = 1..(n + 1) /\ g = [i \in 1..(n + 1) |-> g[i]]
      /\ \A i \in 1..n : g[i] = f[i]
      /\ g[n + 1] = p
  BY <1>1, <1>4
<1> HIDE DEF f, g
<1>6. Appends(g, f, p, n)
  BY <1>5 DEF Appends
<1>7. g = Append(f, p)
  BY <1>2, <1>3, <1>6, AppendIs
<1>8. FlattenSeq(Append(f, p)) = FlattenSeq(f) \o p
  BY <1>2, FlattenAppend
<1>9. MuxedPackets = FlattenSeq(f)
  BY DEF MuxedPackets, f, n
<1>10. MuxedPackets' = FlattenSeq(g)
  BY DEF MuxedPackets, g, a, r
<1> QED
  BY <1>7, <1>8, <1>9, <1>10

(* Nothing libvorbis hands out is lost on the way to the store. *)
LEMMA StoredPackets ==
  ASSUME DashAssumption, IInv, NEW block \in Blocks
  PROVE  /\ Stored(block) \in Seq(0..fed)
         /\ block # NoBlock => block \in 0..fed /\ block > granulepos
         /\ Flush(block) => /\ flushed' \in Seq(0..fed)
                            /\ MuxedPackets \o Stored(block) = flushed'
<1>1. /\ fed \in Nat /\ granulepos \in -1..fed
      /\ flushed \in Seq(0..fed) /\ ogg_packets_ \in Seq(0..fed)
  BY IInvParts DEF Vorbis
<1>2. block # NoBlock => block \in 0..fed /\ block > granulepos
  BY <1>1 DEF Blocks, NoBlock
<1>3. MuxedPackets \in Seq(Nat) /\ MuxedPackets \o ogg_packets_ = flushed
  BY MuxedAreSequences, IInvParts DEF Packets, AllMuxed
<1>4. CASE block = NoBlock
  BY <1>1, <1>3, <1>4 DEF Stored, Flush
<1>5. CASE block # NoBlock
  <2>1. Stored(block) = Append(ogg_packets_, block)
    BY <1>5 DEF Stored
  <2>2. block \in 0..fed /\ block \in Nat
    BY <1>1, <1>2, <1>5
  <2>3. Append(ogg_packets_, block) \in Seq(0..fed)
    BY <1>1, <2>2, AppendProperties
  <2>4. Append(flushed, block) \in Seq(0..fed)
    BY <1>1, <2>2, AppendProperties
  <2>5. ogg_packets_ \in Seq(Nat)
    <3>1. 0..fed \subseteq Nat
      BY <1>1
    <3> QED
      BY <1>1, <3>1, SeqOver
  <2>c. MuxedPackets \in Seq(Nat) /\ ogg_packets_ \in Seq(Nat) /\ block \in Nat
    BY <1>3, <2>2, <2>5
  <2>6. MuxedPackets \o Append(ogg_packets_, block)
          = Append(MuxedPackets \o ogg_packets_, block)
    BY ZenonT(60), <2>c, ConcatAppend
  <2>7. Flush(block) => flushed' = Append(flushed, block)
    BY <1>5 DEF Flush
  <2>8. Stored(block) \in Seq(0..fed)
    BY <2>1, <2>3
  <2>9. Flush(block) => /\ flushed' \in Seq(0..fed)
                        /\ MuxedPackets \o Stored(block) = flushed'
    BY <1>3, <2>1, <2>4, <2>6, <2>7
  <2> QED
    BY <1>2, <1>5, <2>8, <2>9
<1> QED
  BY <1>4, <1>5

(* A frame of audio is muxed: no earlier than the one before it, and what  *)
(* is muxed of video then has been caught up with, if the loop ends.       *)
LEMMA MuxAudioKeeps ==
  ASSUME DashAssumption, IInv, NEW block \in Blocks, MuxAudio(block)
  PROVE  IInv'
<1> DEFINE q == Stored(block)
           m == SamplesToMilliseconds(q[1])
           t == m + first_input_timestamp_
           e == IF block = NoBlock THEN 0 ELSE block
           n == Len(muxed_audio)
<1>1. /\ ReadStep(block) /\ q # <<>> /\ Flush(block)
      /\ muxed_audio' = Append(muxed_audio, [ts |-> t, packets |-> q])
      /\ samples_encoded_' = e /\ ogg_packets_' = <<>>
      /\ thread' = IF time_encoded' > video_timestamp THEN "video" ELSE "read"
      /\ failures' = failures
  BY DEF MuxAudio, ReturnPackets
<1>2. ReadEnds
  <2>1. failures' \in 0..MaxFailures /\ thread' \in {"read", "video"}
    BY <1>1, IInvParts DEF Rest
  <2> QED
    BY <1>1, <2>1, ReadKeeps
<1>3. /\ q \in Seq(0..fed)
      /\ block # NoBlock => block \in 0..fed /\ block > granulepos
      /\ flushed' \in Seq(0..fed) /\ MuxedPackets \o q = flushed'
  BY <1>1, StoredPackets
<1>4. fed \in Nat /\ first_input_timestamp_ \in Nat
      /\ granulepos \in -1..fed
  BY <1>2 DEF ReadEnds
<1>5. e \in 0..fed /\ e \in Nat
  BY <1>3, <1>4
<1>6. q[1] \in 0..fed /\ q[1] \in Nat
  <2>1. Len(q) \in Nat \ {0} /\ q \in [1..Len(q) -> 0..fed]
    BY <1>1, <1>3, LenProperties, EmptySeq
  <2> HIDE DEF q
  <2>2. 1 \in 1..Len(q)
    BY <2>1
  <2> QED
    BY <1>4, <2>1, <2>2
<1>7. m \in Nat
  <2> HIDE DEF q
  <2> QED
    BY <1>6, Milliseconds
<1>8. SamplesToMilliseconds(e) \in Nat
  <2> HIDE DEF e
  <2> QED
    BY <1>5, Milliseconds
<1>9. time_encoded' = first_input_timestamp_ + SamplesToMilliseconds(e)
  <2>1. /\ first_input_timestamp_' = first_input_timestamp_
        /\ first_input_timestamp_ \in Nat
    BY <1>2 DEF ReadEnds
  <2> QED
    BY <1>1, <2>1 DEF time_encoded, SamplesToMilliseconds
<1>10. t \in Nat /\ time_encoded' \in Nat
  <2> DEFINE x == SamplesToMilliseconds(e)
  <2>1. x \in Nat /\ time_encoded' = first_input_timestamp_ + x
    BY <1>8, <1>9
  <2> HIDE DEF x, m
  <2> QED
    BY <1>4, <1>7, <2>1
<1> HIDE DEF q, m, t, e, n
<1>11. /\ muxed_audio \in Seq([ts : Nat, packets : Seq(0..fed)])
       /\ [ts |-> t, packets |-> q] \in [ts : Nat, packets : Seq(0..fed)]
  BY <1>3, <1>10, IInvParts DEF Vorbis
<1>12. /\ n \in Nat /\ Len(muxed_audio') = n + 1
       /\ muxed_audio' \in Seq([ts : Nat, packets : Seq(0..fed)])
       /\ \A i \in 1..n : muxed_audio'[i] = muxed_audio[i]
       /\ muxed_audio'[n + 1] = [ts |-> t, packets |-> q]
  <2> DEFINE r == [ts |-> t, packets |-> q]
             R == [ts : Nat, packets : Seq(0..fed)]
  <2>1. /\ muxed_audio \in Seq(R) /\ r \in R
        /\ muxed_audio' = Append(muxed_audio, r)
    BY <1>1, <1>11
  <2> HIDE DEF r, R
  <2>2. /\ n \in Nat /\ Len(muxed_audio') = n + 1
        /\ muxed_audio' \in Seq(R)
        /\ \A i \in 1..n : muxed_audio'[i] = muxed_audio[i]
        /\ muxed_audio'[n + 1] = r
    BY <2>1, AppendProperties, LenProperties DEF n
  <2> QED
    BY <2>2 DEF r, R
<1>13. AllMuxed'
  <2>1. MuxedPackets' = MuxedPackets \o q
    BY <1>1, <1>3, <1>10, MuxedGrows, IInvParts
  <2>2. MuxedPackets' = flushed'
    BY <1>3, <2>1
  <2>3. flushed' \o <<>> = flushed'
    BY <1>3, ConcatEmptySeq
  <2> QED
    BY <1>1, <2>2, <2>3 DEF AllMuxed
<1>14. Vorbis'
  <2>1. /\ first_input_timestamp_' \in Nat /\ first_input_timestamp_' # -1
        /\ fed' = fed /\ granulepos' \in -1..fed
    BY <1>2 DEF ReadEnds
  <2>2. ogg_packets_' \in Seq(0..fed)
    BY <1>1
  <2> QED
    BY <1>1, <1>3, <1>4, <1>5, <1>12, <2>1, <2>2 DEF Vorbis
<1>15. ASSUME failures = 0
       PROVE  /\ block # NoBlock /\ q = <<block>>
              /\ samples_encoded_ = 0 \/ samples_encoded_ <= granulepos
              /\ \A i \in 1..n : Len(muxed_audio[i].packets) = 1
              /\ \A i \in 2..n : muxed_audio[i - 1].ts <= muxed_audio[i].ts
              /\ muxed_audio # <<>> => muxed_audio[n].ts = time_encoded
  <2>1. ogg_packets_ = <<>>
    BY <1>15, IInvParts DEF Packets, InOrder
  <2>2. block # NoBlock
    BY <1>1, <2>1 DEF q, Stored
  <2>3. q = <<block>>
    BY <2>1, <2>2 DEF q, Stored
  <2> QED
    BY <1>15, <2>2, <2>3, IInvParts DEF Packets, InOrder, n
<1>16. ASSUME failures = 0
       PROVE  time_encoded <= time_encoded' /\ t = time_encoded'
              /\ e = block /\ Len(q) = 1 /\ granulepos' = block
  <2>1. block # NoBlock /\ block \in 0..fed /\ block > granulepos
    BY <1>3, <1>15, <1>16
  <2>2. e = block /\ Len(q) = 1 /\ q[1] = block
    BY <1>15, <1>16, <2>1 DEF e
  <2>3. granulepos' = block
    BY <1>1, <2>1 DEF ReadStep
  <2>4. samples_encoded_ \in Nat /\ samples_encoded_ <= block
    <3>1. samples_encoded_ \in 0..fed
      BY IInvParts DEF Vorbis
    <3> QED
      BY <1>4, <1>15, <1>16, <2>1, <3>1
  <2>5. SamplesToMilliseconds(samples_encoded_) <= SamplesToMilliseconds(block)
        /\ block \in Nat
    BY <1>4, <2>1, <2>4, Milliseconds
  <2> DEFINE a == SamplesToMilliseconds(samples_encoded_)
             b == SamplesToMilliseconds(block)
  <2>6. a \in Nat /\ time_encoded = first_input_timestamp_ + a
    <3>1. first_input_timestamp_ # -1
      BY <1>4
    <3> QED
      BY <3>1, TimeEncoded, IInvParts
  <2>7. b \in Nat /\ a <= b /\ time_encoded' = first_input_timestamp_ + b
    BY <1>8, <1>9, <2>2, <2>5
  <2>8. t = b + first_input_timestamp_
    BY <2>2 DEF t, m
  <2> HIDE DEF a, b
  <2>9. time_encoded <= time_encoded' /\ t = time_encoded'
    BY <1>4, <2>6, <2>7, <2>8
  <2> QED
    BY <2>2, <2>3, <2>9
<1>17. InOrder'
  <2> SUFFICES ASSUME failures = 0
               PROVE  /\ samples_encoded_' <= granulepos'
                      /\ \A i \in 1..(n + 1) :
                           Len(muxed_audio'[i].packets) = 1
                      /\ \A i \in 2..(n + 1) :
                           muxed_audio'[i - 1].ts <= muxed_audio'[i].ts
                      /\ muxed_audio'[n + 1].ts = time_encoded'
    BY <1>1, <1>12 DEF InOrder
  <2>1. samples_encoded_' <= granulepos'
    BY <1>1, <1>5, <1>16
  <2>2. ASSUME NEW i \in 1..(n + 1)
        PROVE  Len(muxed_audio'[i].packets) = 1
    <3>1. i \in 1..n \/ i = n + 1
      BY <1>12
    <3> QED
      BY <1>12, <1>15, <1>16, <3>1
  <2>3. ASSUME NEW i \in 2..(n + 1)
        PROVE  muxed_audio'[i - 1].ts <= muxed_audio'[i].ts
    <3>1. CASE i \in 2..n
      <4>1. i - 1 \in 1..n /\ i \in 1..n
        <5>1. n \in Nat
          BY <1>12
        <5> HIDE DEF n
        <5> QED
          BY <3>1, <5>1
      <4>2. muxed_audio[i - 1].ts <= muxed_audio[i].ts
        BY <1>15, <3>1
      <4> QED
        BY <1>12, <4>1, <4>2
    <3>2. CASE i \notin 2..n
      <4>1. i = n + 1 /\ i - 1 = n /\ n \in 1..n /\ n # 0
        BY <1>12, <3>2
      <4>2. muxed_audio # <<>>
        BY <4>1 DEF n
      <4>3. muxed_audio[n].ts <= t
        BY <1>15, <1>16, <4>2
      <4>4. muxed_audio'[i - 1] = muxed_audio[n] /\ muxed_audio'[i].ts = t
        BY <1>12, <4>1
      <4> QED
        BY <4>3, <4>4
    <3> QED
      BY <3>1, <3>2
  <2>4. muxed_audio'[n + 1].ts = time_encoded'
    BY <1>12, <1>16
  <2> QED
    BY <2>1, <2>2, <2>3, <2>4
<1>18. CaughtUp'
  <2>1. /\ last_video_timestamp' = last_video_timestamp
        /\ muxed_video' = muxed_video /\ video_timestamp' = video_timestamp
        /\ thread = "read"
    BY <1>2 DEF ReadEnds, last_video_timestamp
  <2>2. muxed_video # <<>> => last_video_timestamp <= video_timestamp
    BY <2>1, IInvParts DEF Times, CaughtUp
  <2>3. last_video_timestamp \in Int /\ video_timestamp \in Int
    BY PeekedTime, IInvParts DEF Rest
  <2>4. thread' = "video" => time_encoded' > video_timestamp
    BY <1>1
  <2>5. thread' = "video" /\ muxed_video # <<>> =>
          last_video_timestamp <= time_encoded'
    BY <1>10, <2>2, <2>3, <2>4
  <2> QED
    BY <2>1, <2>2, <2>5 DEF CaughtUp
<1>19. VideoAheadByOne'
  <2>1. muxed_video' = muxed_video /\ time_encoded' \in Int
    BY <1>2, <1>10 DEF ReadEnds
  <2>2. failures' = 0 => failures = 0 /\ time_encoded <= time_encoded'
    BY <1>1, <1>16
  <2> QED
    BY <2>1, <2>2, LaterAudio, IInvParts DEF Video, Times
<1> QED
  BY <1>2, <1>13, <1>14, <1>17, <1>18, <1>19 DEF IInv, ReadEnds, Video

(* After a failure the packets are still all there. *)
LEMMA ReadFailsKeeps ==
  ASSUME DashAssumption, IInv, NEW block \in Blocks,
         AnalysisFails(block) \/ BufferInitFails(block)
  PROVE  IInv'
<1>1. /\ ReadStep(block) /\ failures < MaxFailures
      /\ failures' = failures + 1 /\ thread' = "video"
      /\ UNCHANGED <<samples_encoded_, muxed_audio>>
      /\ \/ UNCHANGED <<flushed, ogg_packets_>>
         \/ Flush(block) /\ ogg_packets_' = Stored(block)
  BY DEF AnalysisFails, BufferInitFails
<1>2. failures' \in 0..MaxFailures /\ failures' # 0
  BY <1>1, IInvParts DEF Rest, DashAssumption
<1>3. ReadEnds
  BY <1>1, <1>2, ReadKeeps
<1>4. /\ flushed' \in Seq(0..fed) /\ ogg_packets_' \in Seq(0..fed)
      /\ MuxedPackets \o ogg_packets_' = flushed'
  <2>1. CASE UNCHANGED <<flushed, ogg_packets_>>
    BY <2>1, IInvParts DEF Vorbis, Packets, AllMuxed
  <2>2. CASE Flush(block) /\ ogg_packets_' = Stored(block)
    BY <2>2, StoredPackets
  <2> QED
    BY <1>1, <2>1, <2>2
<1>5. AllMuxed'
  BY <1>1, <1>4 DEF AllMuxed, MuxedPackets
<1>6. Vorbis'
  <2>1. /\ first_input_timestamp_' \in Nat /\ first_input_timestamp_' # -1
        /\ fed' = fed /\ fed \in Nat /\ granulepos' \in -1..fed
    BY <1>3 DEF ReadEnds
  <2> QED
    BY <1>1, <1>4, <2>1, IInvParts DEF Vorbis
<1>7. InOrder' /\ VideoAheadByOne'
  BY <1>2 DEF InOrder, VideoAheadByOne
<1>8. CaughtUp'
  BY <1>1, <1>2 DEF CaughtUp
<1> QED
  BY <1>3, <1>5, <1>6, <1>7, <1>8 DEF IInv, ReadEnds, Video

(* There is nothing to mux. *)
LEMMA NoSamplesKeeps ==
  ASSUME IInv, NoSamples
  PROVE  IInv'
<1>1. /\ thread = "read" /\ thread' = "pass_done"
      /\ video_timestamp' = video_timestamp
      /\ UNCHANGED <<capture_vars, audio_pool, video_pool, timestamp_offset_,
                     libvorbis_vars, vorbis_vars, video_vars, failures>>
  BY DEF NoSamples, ReadStep, libvorbis_vars, vorbis_vars, NoBlock
<1>2. CaughtUp'
  BY <1>1 DEF CaughtUp
<1>3. Rest' /\ Started
  BY <1>1, IInvParts DEF Rest, Started
<1> QED
  BY <1>1, <1>2, <1>3, PassKeeps

-----------------------------------------------------------------------------
(* Video. *)

(* The frame taken out of the pool next is the one accepted next. *)
LEMMA NextFrame ==
  ASSUME DashAssumption, Delivered, Accepted, Pooled, video_pool # <<>>,
         timestamp_offset_ \in Nat, first.video + timestamp_offset_ >= 0
  PROVE  /\ Head(video_pool) = committed[frames_in_ + 1]
         /\ frames_in_ + 1 \in 1..Len(committed)
         /\ Head(video_pool) + timestamp_offset_ \in Nat
<1> DEFINE f == frames_in_
           c == Len(committed)
           p == Len(video_pool)
           h == committed[f + 1]
<1>1. /\ f \in Nat /\ c \in Nat /\ p \in Nat \ {0} /\ f + p = c
      /\ video_pool \in Seq(Int) /\ committed \in [1..c -> Int]
      /\ Head(video_pool) = video_pool[1] /\ first.video \in Int
  <2>1. /\ video_pool \in Seq(Int) /\ committed \in Seq(Int)
        /\ f \in Nat /\ f + p = c
    BY DEF Pooled, Accepted
  <2>2. /\ c \in Nat /\ p \in Nat \ {0} /\ committed \in [1..c -> Int]
        /\ Head(video_pool) = video_pool[1]
    BY <2>1, LenProperties, EmptySeq, HeadTailProperties
  <2>3. first.video \in Int
    BY DEF Delivered, DashAssumption
  <2> QED
    BY <2>1, <2>2, <2>3
<1>2. Head(video_pool) = h
  <2>1. 1 \in 1..p
    BY <1>1
  <2>2. video_pool[1] = committed[f + 1]
    BY <2>1 DEF Pooled
  <2> QED
    BY <1>1, <2>2
<1>3. \A i \in 1..c : first.video <= committed[i]
  BY DEF Accepted
<1> HIDE DEF f, c, p
<1>4. f + 1 \in 1..c
  BY <1>1
<1>5. h \in Int /\ first.video <= h
  BY <1>1, <1>3, <1>4
<1> HIDE DEF h
<1>6. h + timestamp_offset_ \in Nat
  BY <1>1, <1>5
<1> QED
  BY <1>2, <1>4, <1>6 DEF f, c, h

(* The pool without its first frame. *)
LEMMA PoolShrinks ==
  ASSUME Pooled, video_pool # <<>>, VideoBuffers \in Nat,
         video_pool' = Tail(video_pool), frames_in_' = frames_in_ + 1,
         committed' = committed
  PROVE  Pooled'
<1> DEFINE f == frames_in_
           p == Len(video_pool)
           c == Len(committed)
           t == Tail(video_pool)
<1>1. /\ video_pool \in Seq(Int) /\ p \in Nat \ {0} /\ p <= VideoBuffers
      /\ t \in Seq(Int) /\ Len(t) = p - 1
      /\ \A i \in 1..Len(t) : t[i] = video_pool[i + 1]
      /\ f \in Nat /\ f + p = c
      /\ \A i \in 1..p : video_pool[i] = committed[f + i]
  BY HeadTailProperties, LenProperties, EmptySeq DEF Pooled
<1> HIDE DEF t, p, f
<1>2. f + 1 \in Nat /\ (f + 1) + (p - 1) = c /\ p - 1 <= VideoBuffers
  BY <1>1
<1>3. ASSUME NEW i \in 1..(p - 1) PROVE t[i] = committed[(f + 1) + i]
  <2>1. i + 1 \in 1..p /\ i \in 1..Len(t) /\ f + (i + 1) = (f + 1) + i
    BY <1>1
  <2>2. t[i] = video_pool[i + 1] /\ video_pool[i + 1] = committed[f + (i + 1)]
    BY <1>1, <2>1
  <2> QED
    BY <2>1, <2>2
<1>4. video_pool' = t /\ frames_in_' = f + 1 /\ Len(committed') = c
  BY DEF t, f, c
<1> QED
  BY <1>1, <1>2, <1>3, <1>4 DEF Pooled

(* One frame more is muxed. *)
LEMMA FrameAppended ==
  ASSUME NEW s \in Seq([ts : Nat, key : BOOLEAN]), NEW t \in Nat,
         NEW b \in BOOLEAN, NEW a, a = Append(s, [ts |-> t, key |-> b])
  PROVE  /\ a \in Seq([ts : Nat, key : BOOLEAN]) /\ Len(a) = Len(s) + 1
         /\ Len(s) \in Nat
         /\ \A i \in 1..Len(s) : a[i] = s[i]
         /\ a[Len(s) + 1].ts = t /\ a[Len(s) + 1].key = b
<1> DEFINE r == [ts |-> t, key |-> b]
           R == [ts : Nat, key : BOOLEAN]
<1>1. r \in R /\ r.ts = t /\ r.key = b /\ s \in Seq(R) /\ a = Append(s, r)
  OBVIOUS
<1> HIDE DEF r, R
<1>2. /\ a \in Seq(R) /\ Len(a) = Len(s) + 1
      /\ \A i \in 1..Len(s) : a[i] = s[i]
      /\ a[Len(s) + 1] = r /\ Len(s) \in Nat
  BY <1>1, AppendProperties, LenProperties
<1> QED
  BY <1>1, <1>2 DEF R

(* VpxEncoder encodes the next frame, if it is one of those that are due:  *)
(* as a key frame unless the last one is near enough, and when audio has   *)
(* caught up with the frame before it.                                     *)
LEMMA EncodeFrameKeeps ==
  ASSUME DashAssumption, IInv, thread = "video", video_pool # <<>>,
         (frames_in_ + 1) % decimate = 0, NEW x,
         x = Head(video_pool) + timestamp_offset_, EncodeFrame(x),
         frames_in_' = frames_in_ + 1,
         UNCHANGED <<decimate, timestamp_offset_, committed, failures>>,
         time_encoded' = time_encoded
  PROVE  Muxed' /\ Keys' /\ KeyframeSpacing' /\ VideoAheadByOne'
<1> DEFINE n == Len(muxed_video)
           d == decimate
           f == frames_in_
<1>1. PICK b \in KeyChoices(x) :
        /\ muxed_video' = Append(muxed_video, [ts |-> x, key |-> b])
        /\ last_keyframe_time_' = IF b THEN x ELSE last_keyframe_time_
  BY DEF EncodeFrame
<1>2. b \in BOOLEAN
  BY DEF KeyChoices
<1>3. x \in Nat /\ x = committed[f + 1] + timestamp_offset_
  BY NextFrame, IInvParts DEF OffsetEnough, Started, Video
<1>4. /\ muxed_video' \in Seq([ts : Nat, key : BOOLEAN])
      /\ Len(muxed_video') = n + 1 /\ n \in Nat
      /\ \A i \in 1..n : muxed_video'[i] = muxed_video[i]
      /\ muxed_video'[n + 1].ts = x /\ muxed_video'[n + 1].key = b
  BY <1>1, <1>2, <1>3, FrameAppended, IInvParts DEF Video, Muxed
<1>5. /\ d \in Nat \ {0} /\ f \in Nat /\ n * d <= f /\ f < n * d + d
      /\ \A i \in 1..n :
           muxed_video[i].ts = committed[i * d] + timestamp_offset_
      /\ muxed_video \in [1..n -> [ts : Nat, key : BOOLEAN]]
      /\ muxed_video = <<>> <=> n = 0
  BY LenProperties, EmptySeq, IInvParts
     DEF DashAssumption, Delivered, Video, Pooled, Muxed
<1>6. (f + 1) % d = 0 /\ frames_in_' = f + 1
  OBVIOUS
<1>7. /\ UNCHANGED <<decimate, timestamp_offset_, committed, failures>>
      /\ d = decimate
  OBVIOUS
<1> HIDE DEF n, d, f
<1>8. (n + 1) * d = f + 1 /\ f + 1 < (n + 1) * d + d
  BY <1>4, <1>5, <1>6, NextMultiple
<1>9. \A i \in 1..(n + 1) : i \in 1..n \/ i = n + 1
  BY <1>4
<1>10. Muxed'
  <2>1. ASSUME NEW i \in 1..(n + 1)
        PROVE  muxed_video'[i].ts = committed[i * d] + timestamp_offset_
    <3>1. CASE i \in 1..n
      BY <1>4, <1>5, <3>1
    <3>2. CASE i = n + 1
      BY <1>3, <1>4, <1>8, <3>2
    <3> QED
      BY <1>9, <3>1, <3>2
  <2> DEFINE y == (n + 1) * d
  <2>2. y <= frames_in_' /\ frames_in_' < y + d
    <3>1. y = f + 1 /\ f + 1 < y + d /\ frames_in_' = f + 1
      BY <1>6, <1>8
    <3> HIDE DEF y
    <3> QED
      BY <1>5, <3>1
  <2> QED
    BY <1>4, <1>7, <2>1, <2>2 DEF Muxed
<1>11. ASSUME ~b
       PROVE  /\ n \in Nat \ {0} /\ x - last_keyframe_time_ <= KeyframeInterval
              /\ \E k \in 1..n : /\ muxed_video[k].key
                                 /\ muxed_video[k].ts = last_keyframe_time_
  <2>1. muxed_video # <<>> /\ ~ForceKeyframe(x)
    BY <1>11 DEF KeyChoices
  <2>2. last_keyframe_time_ \in Nat /\ KeyframeInterval \in Nat
    BY IInvParts DEF Video, Keys, DashAssumption
  <2>3. x - last_keyframe_time_ <= KeyframeInterval
    BY <1>3, <2>1, <2>2 DEF ForceKeyframe
  <2>4. \E k \in 1..n : /\ muxed_video[k].key
                        /\ muxed_video[k].ts = last_keyframe_time_
    BY <2>1, IInvParts DEF Video, Keys, n
  <2> QED
    BY <1>4, <1>5, <2>1, <2>3, <2>4
<1>12. Keys'
  <2>1. CASE b
    <3>1. last_keyframe_time_' = x /\ n + 1 \in 1..(n + 1)
      BY <1>1, <1>4, <2>1
    <3>2. muxed_video'[n + 1].key /\ muxed_video'[n + 1].ts = x
      BY <1>4, <2>1
    <3> QED
      BY <1>3, <1>4, <3>1, <3>2 DEF Keys
  <2>2. CASE ~b
    <3>1. PICK k \in 1..n : /\ muxed_video[k].key
                            /\ muxed_video[k].ts = last_keyframe_time_
      BY <1>11, <2>2
    <3>2. k \in 1..(n + 1) /\ muxed_video'[k] = muxed_video[k]
      BY <1>4
    <3>3. /\ last_keyframe_time_' = last_keyframe_time_
          /\ last_keyframe_time_ \in Nat
      BY <1>1, <2>2, IInvParts DEF Video, Keys
    <3> QED
      BY <1>4, <3>1, <3>2, <3>3 DEF Keys
  <2> QED
    BY <2>1, <2>2
<1>13. KeyframeSpacing'
  <2> SUFFICES ASSUME NEW i \in 1..(n + 1)
               PROVE  \/ muxed_video'[i].key
                      \/ \E k \in 1..(i - 1) :
                           /\ muxed_video'[k].key
                           /\ muxed_video'[i].ts - muxed_video'[k].ts
                                <= KeyframeInterval
    BY <1>4 DEF KeyframeSpacing
  <2>1. CASE i \in 1..n
    <3>1. muxed_video'[i] = muxed_video[i]
      BY <1>4, <2>1
    <3>2. \A k \in 1..(i - 1) : muxed_video'[k] = muxed_video[k]
      BY <1>4, <2>1
    <3>3. \/ muxed_video[i].key
          \/ \E k \in 1..(i - 1) :
               /\ muxed_video[k].key
               /\ muxed_video[i].ts - muxed_video[k].ts <= KeyframeInterval
      BY <2>1, IInvParts DEF Video, KeyframeSpacing, n
    <3> QED
      BY <3>1, <3>2, <3>3
  <2>2. CASE i = n + 1 /\ b
    BY <1>4, <2>2
  <2>3. CASE i = n + 1 /\ ~b
    <3>1. PICK k \in 1..n : /\ muxed_video[k].key
                            /\ muxed_video[k].ts = last_keyframe_time_
      BY <1>11, <2>3
    <3>2. k \in 1..(i - 1) /\ muxed_video'[k] = muxed_video[k]
      BY <1>4, <2>3
    <3>3. muxed_video'[i].ts = x /\ muxed_video'[k].ts = last_keyframe_time_
      BY <1>4, <2>3, <3>1, <3>2
    <3>4. muxed_video'[i].ts - muxed_video'[k].ts <= KeyframeInterval
      BY <1>11, <2>3, <3>3
    <3>5. muxed_video'[k].key
      BY <3>1, <3>2
    <3> QED
      BY <3>2, <3>4, <3>5
  <2> QED
    BY <1>9, <2>1, <2>2, <2>3
<1>14. VideoAheadByOne'
  <2> SUFFICES ASSUME failures = 0, n + 1 > 1
               PROVE  muxed_video'[(n + 1) - 1].ts <= time_encoded
    BY <1>4, <1>7 DEF VideoAheadByOne
  <2>1. n # 0 /\ n \in 1..n /\ (n + 1) - 1 = n
    BY <1>4
  <2>2. muxed_video'[n] = muxed_video[n]
    BY <1>4, <2>1
  <2>3. last_video_timestamp <= time_encoded
    BY <1>5, <2>1, IInvParts DEF Times, CaughtUp
  <2>4. last_video_timestamp = muxed_video[n].ts
    BY <1>5, <2>1 DEF last_video_timestamp, n
  <2> QED
    BY <2>1, <2>2, <2>3, <2>4
<1> QED
  BY <1>10, <1>12, <1>13, <1>14

(* A frame is taken out of the pool, and encoded or dropped. *)
LEMMA EncodeVideoFrameKeeps ==
  ASSUME DashAssumption, IInv, EncodeVideoFrame
  PROVE  IInv'
<1>1. /\ thread = "video" /\ thread' = "repeek"
      /\ video_timestamp' = video_timestamp
      /\ UNCHANGED <<capture_vars, audio_pool, timestamp_offset_,
                     libvorbis_vars, vorbis_vars, failures>>
  BY DEF EncodeVideoFrame
<1>2. CaughtUp' /\ Rest' /\ Started
  BY <1>1, IInvParts DEF CaughtUp, Rest, Started
<1>3. CASE video_pool = <<>>
  <2>1. UNCHANGED <<video_pool, video_vars>>
    BY <1>3 DEF EncodeVideoFrame
  <2> QED
    BY <1>1, <1>2, <2>1, PassKeeps
<1>4. CASE video_pool # <<>>
  <2> DEFINE x == Head(video_pool) + timestamp_offset_
  <2>1. /\ video_pool' = Tail(video_pool) /\ frames_in_' = frames_in_ + 1
        /\ IF frames_in_' % decimate # 0
           THEN UNCHANGED <<last_keyframe_time_, muxed_video>>
           ELSE EncodeFrame(x)
    BY <1>4 DEF EncodeVideoFrame
  <2>2. UNCHANGED <<decimate, first, buffers_in, frames_due, committed>>
    BY <1>1 DEF capture_vars
  <2>3. time_encoded' = time_encoded
    BY <1>1 DEF vorbis_vars, time_encoded, SamplesToMilliseconds
  <2>4. Packets'
    BY <1>1, PacketsKept, IInvParts
  <2>5. Delivered' /\ OffsetEnough' /\ Fresh'
    BY <1>1, <2>2, IInvParts DEF Delivered, OffsetEnough, Started, Fresh
  <2>6. Vorbis'
    BY <1>1, IInvParts DEF Vorbis, libvorbis_vars, vorbis_vars
  <2>7. Accepted' /\ Pooled'
    <3>1. Accepted'
      BY <2>2, IInvParts DEF Video, Accepted
    <3>2. VideoBuffers \in Nat
      BY DEF DashAssumption
    <3> QED
      BY <1>4, <2>1, <2>2, <3>1, <3>2, PoolShrinks, IInvParts DEF Video
  <2>8. Muxed' /\ Keys' /\ KeyframeSpacing' /\ VideoAheadByOne'
    <3> HIDE DEF x
    <3>1. CASE (frames_in_ + 1) % decimate = 0
      <4>1. EncodeFrame(x)
        BY <2>1, <3>1
      <4>2. x = Head(video_pool) + timestamp_offset_
        BY DEF x
      <4>3. UNCHANGED <<decimate, timestamp_offset_, committed, failures>>
        BY <1>1, <2>2
      <4> QED
        BY <1>1, <1>4, <2>1, <2>3, <3>1, <4>1, <4>2, <4>3, EncodeFrameKeeps
    <3>2. CASE (frames_in_ + 1) % decimate # 0
      <4>1. /\ last_keyframe_time_' = last_keyframe_time_
            /\ muxed_video' = muxed_video
        BY <2>1, <3>2
      <4>2. Keys' /\ KeyframeSpacing'
        BY <4>1, IInvParts DEF Video, Keys, KeyframeSpacing
      <4>3. VideoAheadByOne'
        BY <1>1, <2>3, <4>1, IInvParts DEF Times, VideoAheadByOne
      <4>4. Muxed'
        <5> DEFINE n == Len(muxed_video)
                   d == decimate
                   f == frames_in_
        <5>1. /\ n \in Nat /\ d \in Nat \ {0} /\ f \in Nat
              /\ n * d <= f /\ f < n * d + d /\ (f + 1) % d # 0
          BY <3>2, LenProperties, IInvParts
             DEF DashAssumption, Delivered, Video, Pooled, Muxed
        <5> HIDE DEF n, d, f
        <5>2. n * d <= f + 1 /\ f + 1 < n * d + d
          BY <5>1, NextMultiple
        <5>3. frames_in_' = f + 1 /\ n = Len(muxed_video) /\ d = decimate
          BY <2>1 DEF n, d, f
        <5> QED
          BY <1>1, <2>2, <4>1, <5>2, <5>3, IInvParts DEF Video, Muxed
      <4> QED
        BY <4>2, <4>3, <4>4
    <3> QED
      BY <3>1, <3>2
  <2> QED
    BY <1>2, <2>4, <2>5, <2>6, <2>7, <2>8 DEF IInv, Packets
<1> QED
  BY <1>3, <1>4

-----------------------------------------------------------------------------
(* The failure that ends the encode. *)

(* The start of a sequence is a prefix of it. *)
LEMMA PrefixOf ==
  ASSUME NEW p \in Seq(Nat), NEW q \in Seq(Nat)
  PROVE  /\ IsPrefix(p, p \o q) /\ Len(p \o q) = Len(p) + Len(q)
         /\ Len(p) \in Nat /\ Len(q) \in Nat
<1>1. /\ p \o q \in Seq(Nat) /\ Len(p \o q) = Len(p) + Len(q)
      /\ Len(p) \in Nat /\ Len(q) \in Nat
      /\ \A i \in 1..Len(p) : (p \o q)[i] = p[i]
  BY ConcatProperties, LenProperties
<1>2. SubSeq(p, 1, Len(p)) = SubSeq(p \o q, 1, Len(p))
  <2> DEFINE n == Len(p)
             r == p \o q
  <2>1. /\ n \in Nat /\ \A i \in 1..n : r[i] = p[i]
        /\ \A i \in 1..n : i + 1 - 1 = i
    BY <1>1
  <2> HIDE DEF n, r
  <2>2. SubSeq(p, 1, n) = [i \in 1..n |-> p[i]]
    BY <2>1
  <2>3. SubSeq(r, 1, n) = [i \in 1..n |-> r[i]]
    BY <2>1
  <2> QED
    BY <2>1, <2>2, <2>3 DEF n, r
<1> QED
  BY <1>1, <1>2 DEF IsPrefix

(* Until then the packets are intact, ... *)
LEMMA IntactPackets ==
  ASSUME IInv
  PROVE  PacketsIntact
<1>1. MuxedPackets \in Seq(Nat) /\ ogg_packets_ \in Seq(Nat)
  <2>1. 0..fed \subseteq Nat /\ ogg_packets_ \in Seq(0..fed)
    BY IInvParts DEF Vorbis
  <2> QED
    BY <2>1, SeqOver, MuxedAreSequences, IInvParts
<1>2. MuxedPackets \o ogg_packets_ = flushed
  BY IInvParts DEF Packets, AllMuxed
<1>3. /\ IsPrefix(MuxedPackets, flushed)
      /\ Len(flushed) = Len(MuxedPackets) + Len(ogg_packets_)
      /\ Len(MuxedPackets) \in Nat
  BY <1>1, <1>2, PrefixOf
<1>4. ASSUME failures = 0
      PROVE  /\ Len(flushed) <= Len(MuxedPackets) + 1
             /\ \A i \in 1..Len(muxed_audio) :
                  Len(muxed_audio[i].packets) = 1
             /\ \A i \in 2..Len(muxed_audio) :
                  muxed_audio[i - 1].ts <= muxed_audio[i].ts
  <2>1. ogg_packets_ = <<>>
    BY <1>4, IInvParts DEF Packets, InOrder
  <2>2. Len(ogg_packets_) = 0
    BY <2>1
  <2>3. Len(flushed) <= Len(MuxedPackets) + 1
    BY <1>3, <2>2
  <2> QED
    BY <1>4, <2>3, IInvParts DEF Packets, InOrder
<1> QED
  BY <1>2, <1>3, <1>4 DEF PacketsIntact, MuxedPackets

(* ... and the frames: exactly each decimate-th of those taken is muxed. *)
LEMMA IntactFrames ==
  ASSUME DashAssumption, IInv
  PROVE  /\ FramesIntact
         /\ Len(committed) - Len(video_pool) = frames_in_
         /\ frames_in_ \div decimate = Len(muxed_video)
<1> DEFINE n == Len(muxed_video)
           d == decimate
           f == frames_in_
           p == Len(video_pool)
           c == Len(committed)
<1>1. /\ n \in Nat /\ d \in Nat \ {0} /\ f \in Nat
      /\ n * d <= f /\ f < n * d + d
      /\ p \in Nat /\ f + p = c
  BY LenProperties, IInvParts
     DEF DashAssumption, Delivered, Video, Pooled, Muxed
<1>2. \A i \in 1..Len(muxed_video) :
        muxed_video[i].ts = committed[i * decimate] + timestamp_offset_
  BY IInvParts DEF Video, Muxed
<1> HIDE DEF n, d, f, p, c
<1>3. f \div d = n
  BY <1>1, Multiples
<1>4. c - p = f
  BY <1>1
<1> QED
  BY <1>2, <1>3, <1>4 DEF FramesIntact, n, d, f, p, c

(* What a failure elsewhere leaves of the packets, ... *)
LEMMA AudioIsLeft ==
  ASSUME IInv, thread' = "failed",
         UNCHANGED <<fed, granulepos, flushed, ogg_packets_, samples_encoded_,
                     muxed_audio, failures>>,
         first_input_timestamp_' \in Nat \cup {-1}
  PROVE  AudioLeft'
<1>1. PacketsIntact'
  BY IntactPackets DEF PacketsIntact
<1> QED
  BY <1>1, IInvParts DEF AudioLeft, Vorbis

(* ... and what any failure leaves of the frames: the one taken last may   *)
(* be lost.                                                                *)
LEMMA VideoIsLeft ==
  ASSUME DashAssumption, IInv, thread' = "failed",
         UNCHANGED <<decimate, committed, timestamp_offset_, muxed_video>>,
         frames_in_' \in Nat, last_keyframe_time_' \in Nat,
         \/ video_pool' = video_pool
         \/ video_pool # <<>> /\ video_pool' = Tail(video_pool)
  PROVE  VideoLeft'
<1> DEFINE n == Len(muxed_video)
           p == Len(video_pool)
           c == Len(committed)
           q == Len(video_pool')
<1>1. /\ c - p = frames_in_ /\ n = frames_in_ \div decimate
      /\ p \in Nat /\ c \in Nat /\ p <= VideoBuffers
      /\ VideoBuffers \in Nat
      /\ video_pool \in Seq(Int) /\ committed \in Seq(Int)
  BY IntactFrames, LenProperties, IInvParts
     DEF Video, Accepted, Pooled, DashAssumption
<1>2. /\ video_pool' \in Seq(Int) /\ q <= VideoBuffers
      /\ \/ c - q = frames_in_
         \/ (c - q) - 1 = frames_in_
  <2>1. CASE video_pool' = video_pool
    BY <1>1, <2>1
  <2>2. CASE video_pool # <<>> /\ video_pool' = Tail(video_pool)
    <3>1. video_pool' \in Seq(Int) /\ q = p - 1
      BY <1>1, <2>2, HeadTailProperties
    <3> HIDE DEF p, q, c
    <3> QED
      BY <1>1, <3>1
  <2> QED
    BY <2>1, <2>2
<1>3. FramesIntact'
  <2>1. \A i \in 1..Len(muxed_video) :
          muxed_video[i].ts = committed[i * decimate] + timestamp_offset_
    BY IInvParts DEF Video, Muxed
  <2>2. n = (c - q) \div decimate \/ n = ((c - q) - 1) \div decimate
    BY <1>1, <1>2
  <2> QED
    BY <2>1, <2>2 DEF FramesIntact
<1>4. ASSUME NEW i \in 1..Len(muxed_video)
      PROVE  i * decimate \in 1..Len(committed)
  BY MuxedAt, IInvParts DEF Video
<1>5. muxed_video' \in Seq([ts : Nat, key : BOOLEAN]) /\ KeyframeSpacing'
  BY IInvParts DEF Video, Muxed, KeyframeSpacing
<1> QED
  BY <1>1, <1>2, <1>3, <1>4, <1>5 DEF VideoLeft

(* The source or a chunk write fails. *)
LEMMA PassFailed ==
  ASSUME DashAssumption, IInv, PassFails
  PROVE  Failed'
<1>1. /\ thread' = "failed"
      /\ UNCHANGED <<decimate, first, buffers_in, frames_due, committed,
                     audio_pool, video_pool, timestamp_offset_,
                     video_timestamp, failures>>
      /\ UNCHANGED <<libvorbis_vars, vorbis_vars, video_vars>>
  BY DEF PassFails, Goto, capture_vars
<1>2. UNCHANGED <<fed, granulepos, flushed, ogg_packets_, samples_encoded_,
                  muxed_audio, first_input_timestamp_, frames_in_,
                  last_keyframe_time_, muxed_video>>
  BY <1>1 DEF libvorbis_vars, vorbis_vars, video_vars
<1>3. AudioLeft'
  BY <1>1, <1>2, AudioIsLeft, IInvParts DEF Vorbis
<1>4. VideoLeft'
  BY <1>1, <1>2, VideoIsLeft, IInvParts DEF Video, Pooled, Keys
<1>5. VideoAheadByOne'
  <2>1. time_encoded' = time_encoded
    BY <1>2 DEF time_encoded, SamplesToMilliseconds
  <2> QED
    BY <1>1, <1>2, <2>1, IInvParts DEF Times, VideoAheadByOne
<1>6. Delivered'
  BY <1>1, IInvParts DEF Delivered
<1> QED
  BY <1>1, <1>3, <1>4, <1>5, <1>6, IInvParts DEF Failed, Rest, OffsetEnough

(* An audio buffer does not reach libvorbis. *)
LEMMA EncodeAudioBufferFailed ==
  ASSUME DashAssumption, IInv, EncodeAudioBufferFails
  PROVE  Failed'
<1>1. /\ thread = "encode" /\ thread' = "failed" /\ audio_pool # <<>>
      /\ UNCHANGED <<decimate, first, buffers_in, frames_due, committed,
                     video_pool, timestamp_offset_, video_timestamp,
                     fed, granulepos, flushed, ogg_packets_,
                     samples_encoded_, muxed_audio, failures>>
      /\ UNCHANGED <<frames_in_, last_keyframe_time_, muxed_video>>
  BY DEF EncodeAudioBufferFails, capture_vars, libvorbis_vars, video_vars
<1>2. /\ timestamp_offset_ \in Nat /\ first.audio + timestamp_offset_ >= 0
      /\ first_input_timestamp_ \in Nat \cup {-1}
  BY <1>1, IInvParts DEF OffsetEnough, Started, Vorbis
<1>3. /\ Head(audio_pool) + timestamp_offset_ \in Nat
      /\ Tail(audio_pool) \in Seq(Int)
      /\ \A i \in 1..Len(Tail(audio_pool)) :
           Tail(audio_pool)[i] >= first.audio
  BY <1>1, <1>2, NextBuffer, IInvParts
<1>4. /\ audio_pool' \in {audio_pool, Tail(audio_pool)}
      /\ \/ first_input_timestamp_' = first_input_timestamp_
         \/ /\ first_input_timestamp_ = -1
            /\ first_input_timestamp_' = Head(audio_pool) + timestamp_offset_
  BY DEF EncodeAudioBufferFails, StartClock
<1>5. first_input_timestamp_' \in Nat \cup {-1}
  BY <1>2, <1>3, <1>4
<1>6. Delivered'
  BY <1>1, <1>3, <1>4, IInvParts DEF Delivered
<1>7. AudioLeft'
  BY <1>1, <1>5, AudioIsLeft
<1>8. VideoLeft'
  BY <1>1, VideoIsLeft, IInvParts DEF Video, Pooled, Keys
<1>9. VideoAheadByOne'
  <2> DEFINE m == SamplesToMilliseconds(samples_encoded_)
  <2>1. m \in Nat /\ m' = m
    BY <1>1, TimeEncoded, IInvParts DEF SamplesToMilliseconds
  <2>2. /\ time_encoded = IF first_input_timestamp_ < 0 THEN 0
                          ELSE first_input_timestamp_ + m
        /\ time_encoded' = IF first_input_timestamp_' < 0 THEN 0
                           ELSE first_input_timestamp_' + m'
    BY DEF time_encoded
  <2> HIDE DEF m
  <2>3. time_encoded' \in Int /\ time_encoded <= time_encoded'
    <3> DEFINE h == Head(audio_pool) + timestamp_offset_
    <3>1. h \in Nat
      BY <1>3
    <3>2. \/ first_input_timestamp_' = first_input_timestamp_
          \/ first_input_timestamp_ = -1 /\ first_input_timestamp_' = h
      BY <1>4
    <3> HIDE DEF h
    <3> QED
      BY <1>2, <2>1, <2>2, <3>1, <3>2
  <2> QED
    BY <1>1, <2>3, LaterAudio, IInvParts DEF Video, Times
<1> QED
  BY <1>1, <1>2, <1>6, <1>7, <1>8, <1>9, IInvParts DEF Failed, Rest

(* The muxer refuses the packets of one call: nothing before them is lost, *)
(* and they are one packet if no call failed before.                       *)
LEMMA MuxAudioFailed ==
  ASSUME DashAssumption, IInv, NEW block \in Blocks, MuxAudioFails(block)
  PROVE  Failed'
<1> DEFINE q == Stored(block)
           e == IF block = NoBlock THEN 0 ELSE block
<1>1. /\ thread = "read" /\ thread' = "failed" /\ q # <<>> /\ Flush(block)
      /\ UNCHANGED <<decimate, first, buffers_in, frames_due, committed,
                     audio_pool, video_pool, timestamp_offset_,
                     video_timestamp, fed, first_input_timestamp_,
                     muxed_audio, failures>>
      /\ UNCHANGED <<frames_in_, last_keyframe_time_, muxed_video>>
      /\ samples_encoded_' = e /\ ogg_packets_' = <<>>
      /\ granulepos' = IF block = NoBlock THEN granulepos ELSE block
  BY DEF MuxAudioFails, ReturnPackets, ReadStep, capture_vars, video_vars
<1>2. /\ q \in Seq(0..fed)
      /\ block # NoBlock => block \in 0..fed /\ block > granulepos
      /\ flushed' \in Seq(0..fed) /\ MuxedPackets \o q = flushed'
  BY <1>1, StoredPackets
<1>3. /\ fed \in Nat /\ granulepos \in -1..fed
      /\ first_input_timestamp_ \in Nat
      /\ samples_encoded_ \in 0..fed
      /\ muxed_audio \in Seq([ts : Nat, packets : Seq(0..fed)])
  BY <1>1, IInvParts DEF Vorbis
<1>4. e \in 0..fed /\ e \in Nat /\ granulepos' \in -1..fed
  BY <1>1, <1>2, <1>3
<1>5. q \in Seq(Nat) /\ MuxedPackets \in Seq(Nat)
  <2>1. 0..fed \subseteq Nat
    BY <1>3
  <2> QED
    BY <1>2, <2>1, SeqOver, MuxedAreSequences, IInvParts
<1>6. /\ IsPrefix(MuxedPackets, flushed')
      /\ Len(flushed') = Len(MuxedPackets) + Len(q)
      /\ Len(MuxedPackets) \in Nat
  BY <1>2, <1>5, PrefixOf
<1>7. ASSUME failures = 0
      PROVE  /\ q = <<block>> /\ block # NoBlock
             /\ samples_encoded_ = 0 \/ samples_encoded_ <= granulepos
             /\ \A i \in 1..Len(muxed_audio) :
                  Len(muxed_audio[i].packets) = 1
             /\ \A i \in 2..Len(muxed_audio) :
                  muxed_audio[i - 1].ts <= muxed_audio[i].ts
  <2>1. ogg_packets_ = <<>>
    BY <1>7, IInvParts DEF Packets, InOrder
  <2>2. block # NoBlock
    BY <1>1, <2>1 DEF Stored
  <2>3. q = <<block>>
    BY <2>1, <2>2 DEF Stored
  <2> QED
    BY <1>7, <2>2, <2>3, IInvParts DEF Packets, InOrder
<1>8. PacketsIntact'
  <2>1. MuxedPackets' = MuxedPackets
    BY <1>1 DEF MuxedPackets
  <2>2. failures' = 0 => Len(flushed') <= Len(MuxedPackets) + 1
    <3> SUFFICES ASSUME failures = 0
                 PROVE  Len(flushed') <= Len(MuxedPackets) + 1
      BY <1>1
    <3>1. Len(q) = 1
      BY <1>7
    <3> QED
      BY <1>6, <3>1
  <2> QED
    BY <1>1, <1>6, <1>7, <2>1, <2>2 DEF PacketsIntact, MuxedPackets
<1>9. AudioLeft'
  <2>1. ogg_packets_' \in Seq(0..fed)
    BY <1>1
  <2> QED
    BY <1>1, <1>2, <1>3, <1>4, <1>8, <2>1 DEF AudioLeft
<1>10. VideoLeft'
  BY <1>1, VideoIsLeft, IInvParts DEF Video, Pooled, Keys
<1>11. VideoAheadByOne'
  <2> DEFINE a == SamplesToMilliseconds(samples_encoded_)
             b == SamplesToMilliseconds(e)
  <2>1. a \in Nat /\ time_encoded = first_input_timestamp_ + a
    <3>1. first_input_timestamp_ # -1
      BY <1>3
    <3> QED
      BY <3>1, TimeEncoded, IInvParts
  <2>2. b \in Nat
    <3> HIDE DEF e
    <3> QED
      BY <1>4, Milliseconds
  <2>3. time_encoded' = first_input_timestamp_ + b
    BY <1>1, <1>3 DEF time_encoded, SamplesToMilliseconds
  <2>4. failures = 0 => a <= b
    <3> SUFFICES ASSUME failures = 0
                 PROVE  a <= b
      OBVIOUS
    <3>1. e = block /\ samples_encoded_ \in Nat /\ samples_encoded_ <= e
      BY <1>2, <1>3, <1>7
    <3> HIDE DEF e
    <3> QED
      BY <1>4, <3>1, Milliseconds
  <2> HIDE DEF a, b
  <2>5. /\ time_encoded' \in Int
        /\ failures' = 0 => failures = 0 /\ time_encoded <= time_encoded'
    BY <1>1, <1>3, <2>1, <2>2, <2>3, <2>4
  <2> QED
    BY <1>1, <2>5, LaterAudio, IInvParts DEF Video, Times
<1>12. Delivered'
  BY <1>1, IInvParts DEF Delivered
<1> QED
  BY <1>1, <1>9, <1>10, <1>11, <1>12, IInvParts DEF Failed, Rest, OffsetEnough

(* A frame does not reach the muxer. *)
LEMMA EncodeVideoFrameFailed ==
  ASSUME DashAssumption, IInv, EncodeVideoFrameFails
  PROVE  Failed'
<1>1. /\ thread = "video" /\ thread' = "failed" /\ video_pool # <<>>
      /\ UNCHANGED <<decimate, first, buffers_in, frames_due, committed,
                     audio_pool, timestamp_offset_, video_timestamp,
                     muxed_video, failures>>
      /\ UNCHANGED <<fed, granulepos, flushed, ogg_packets_,
                     samples_encoded_, muxed_audio, first_input_timestamp_>>
  BY DEF EncodeVideoFrameFails, capture_vars, libvorbis_vars, vorbis_vars
<1>2. /\ video_pool' \in {video_pool, Tail(video_pool)}
      /\ frames_in_' \in {frames_in_, frames_in_ + 1}
      /\ last_keyframe_time_' \in
           {last_keyframe_time_, Head(video_pool) + timestamp_offset_}
  BY DEF EncodeVideoFrameFails
<1>3. Head(video_pool) + timestamp_offset_ \in Nat
  BY <1>1, NextFrame, IInvParts DEF OffsetEnough, Started, Video
<1>4. frames_in_' \in Nat /\ last_keyframe_time_' \in Nat
  BY <1>2, <1>3, IInvParts DEF Video, Pooled, Keys
<1>5. VideoLeft'
  BY <1>1, <1>2, <1>4, VideoIsLeft
<1>6. AudioLeft'
  BY <1>1, AudioIsLeft, IInvParts DEF Vorbis
<1>7. VideoAheadByOne'
  <2>1. time_encoded' = time_encoded
    BY <1>1 DEF time_encoded, SamplesToMilliseconds
  <2> QED
    BY <1>1, <2>1, IInvParts DEF Times, VideoAheadByOne
<1>8. Delivered'
  BY <1>1, IInvParts DEF Delivered
<1> QED
  BY <1>1, <1>5, <1>6, <1>7, <1>8, IInvParts DEF Failed, Rest, OffsetEnough

(* The devices deliver on, and nothing is done with it. *)
LEMMA DeliveredAfterFailure ==
  ASSUME DashAssumption, Failed, Delivered',
         UNCHANGED <<decimate, timestamp_offset_, thread, video_timestamp,
                     failures>>,
         UNCHANGED <<libvorbis_vars, vorbis_vars, video_vars>>,
         \/ UNCHANGED <<committed, video_pool>>
         \/ \E t \in Int : /\ Len(video_pool) < VideoBuffers
                          /\ video_pool' = Append(video_pool, t)
                          /\ committed' = Append(committed, t)
  PROVE  Failed'
<1>1. UNCHANGED <<fed, granulepos, flushed, ogg_packets_, samples_encoded_,
                  muxed_audio, first_input_timestamp_, frames_in_,
                  last_keyframe_time_, muxed_video>>
  BY DEF libvorbis_vars, vorbis_vars, video_vars
<1>2. AudioLeft'
  <2>1. PacketsIntact'
    BY <1>1 DEF Failed, AudioLeft, PacketsIntact
  <2> QED
    BY <1>1, <2>1 DEF Failed, AudioLeft
<1>3. VideoAheadByOne'
  <2>1. time_encoded' = time_encoded
    BY <1>1 DEF time_encoded, SamplesToMilliseconds
  <2> QED
    BY <1>1, <2>1 DEF Failed, VideoAheadByOne
<1> DEFINE p == Len(video_pool)
           c == Len(committed)
<1>4. /\ committed \in Seq(Int) /\ video_pool \in Seq(Int)
      /\ p \in Nat /\ c \in Nat /\ p <= VideoBuffers
      /\ VideoBuffers \in Nat /\ FramesIntact
      /\ \A i \in 1..Len(muxed_video) : i * decimate \in 1..c
  BY LenProperties DEF Failed, VideoLeft, DashAssumption
<1>5. /\ committed' \in Seq(Int) /\ video_pool' \in Seq(Int)
      /\ Len(video_pool') <= VideoBuffers
      /\ Len(committed') - Len(video_pool') = c - p
      /\ c <= Len(committed') /\ Len(committed') \in Nat
      /\ \A i \in 1..c : committed'[i] = committed[i]
  <2>1. CASE UNCHANGED <<committed, video_pool>>
    BY <1>4, <2>1
  <2>2. ASSUME NEW t \in Int, p < VideoBuffers,
               video_pool' = Append(video_pool, t),
               committed' = Append(committed, t)
        PROVE  /\ committed' \in Seq(Int) /\ video_pool' \in Seq(Int)
               /\ Len(video_pool') <= VideoBuffers
               /\ Len(committed') - Len(video_pool') = c - p
               /\ c <= Len(committed') /\ Len(committed') \in Nat
               /\ \A i \in 1..c : committed'[i] = committed[i]
    <3>1. /\ video_pool' \in Seq(Int) /\ Len(video_pool') = p + 1
          /\ committed' \in Seq(Int) /\ Len(committed') = c + 1
          /\ \A i \in 1..c : committed'[i] = committed[i]
      BY <1>4, <2>2, TimeAppended
    <3> HIDE DEF p, c
    <3> QED
      BY <1>4, <2>2, <3>1
  <2> QED
    BY <2>1, <2>2
<1>6. ASSUME NEW i \in 1..Len(muxed_video)
      PROVE  /\ i * decimate \in 1..Len(committed')
             /\ committed'[i * decimate] = committed[i * decimate]
  <2> DEFINE k == i * decimate
             m == Len(committed')
  <2>1. k \in 1..c
    BY <1>4
  <2>2. c \in Nat /\ m \in Nat /\ c <= m
    BY <1>4, <1>5
  <2>3. committed'[k] = committed[k]
    BY <1>5, <2>1
  <2> HIDE DEF k, c, m
  <2>4. k \in 1..m
    BY <2>1, <2>2
  <2> QED
    BY <2>3, <2>4 DEF k, m
<1>7. FramesIntact'
  <2> DEFINE x == c - p
  <2>1. /\ \/ Len(muxed_video) = x \div decimate
           \/ thread = "failed" /\ Len(muxed_video) = (x - 1) \div decimate
        /\ \A i \in 1..Len(muxed_video) :
             muxed_video[i].ts = committed[i * decimate] + timestamp_offset_
    BY <1>4 DEF FramesIntact
  <2>2. x = Len(committed') - Len(video_pool')
    BY <1>5
  <2> HIDE DEF x
  <2>3. \A i \in 1..Len(muxed_video) :
          muxed_video[i].ts = committed'[i * decimate] + timestamp_offset_
    BY <1>6, <2>1
  <2> QED
    BY <1>1, <2>1, <2>2, <2>3 DEF FramesIntact
<1>8. VideoLeft'
  <2>1. KeyframeSpacing'
    BY <1>1 DEF Failed, VideoLeft, KeyframeSpacing
  <2> QED
    BY <1>1, <1>5, <1>6, <1>7, <2>1 DEF Failed, VideoLeft
<1> QED
  BY <1>2, <1>3, <1>8 DEF Failed

(* What is left of a failed encode stays as it is. *)
LEMMA FailedKeeps ==
  ASSUME DashAssumption, Failed, [Next]_vars
  PROVE  Failed'
<1>1. CASE CaptureAudio
  <2>1. /\ UNCHANGED <<decimate, timestamp_offset_, thread, video_timestamp,
                       failures, committed, video_pool>>
        /\ UNCHANGED <<libvorbis_vars, vorbis_vars, video_vars>>
    BY <1>1 DEF CaptureAudio
  <2>2. Delivered'
    BY <1>1, AudioDelivered DEF Failed
  <2> QED
    BY <2>1, <2>2, DeliveredAfterFailure
<1>2. ASSUME NEW gap \in FrameGaps, CaptureVideo(gap)
      PROVE  Failed'
  <2> DEFINE t == frames_due'.ts
  <2>1. /\ UNCHANGED <<decimate, timestamp_offset_, thread, video_timestamp,
                       failures>>
        /\ UNCHANGED <<libvorbis_vars, vorbis_vars, video_vars>>
        /\ IF Len(video_pool) < VideoBuffers
           THEN /\ video_pool' = Append(video_pool, t)
                /\ committed' = Append(committed, t)
           ELSE UNCHANGED <<video_pool, committed>>
    BY <1>2 DEF CaptureVideo
  <2>2. /\ Delivered'
        /\ frames_due' \in [number : 0..MaxFrames, ts : Int]
    BY <1>2, VideoDelivered DEF Failed
  <2>3. t \in Int
    BY <2>2
  <2> HIDE DEF t
  <2> QED
    BY <2>1, <2>2, <2>3, DeliveredAfterFailure
<1>3. CASE UNCHANGED vars
  <2>1. /\ UNCHANGED <<decimate, first, buffers_in, frames_due, committed>>
        /\ UNCHANGED <<audio_pool, video_pool, timestamp_offset_, thread,
                       video_timestamp, failures>>
        /\ UNCHANGED <<libvorbis_vars, vorbis_vars, video_vars>>
    BY <1>3 DEF vars, capture_vars
  <2>2. Delivered'
    BY <2>1 DEF Failed, Delivered
  <2> QED
    BY <2>1, <2>2, DeliveredAfterFailure
<1>4. /\ ~WaitForSamples /\ ~EncodeAudioBuffer /\ ~EncodeAudioBufferFails
      /\ ~PeekBeforeAudio /\ ~NoSamples /\ ~EncodeVideoFrame
      /\ ~EncodeVideoFrameFails /\ ~PeekAfterVideo /\ ~NextPass
      /\ ~PassFails /\ ~EncodeStops
  BY DEF Failed, WaitForSamples, EncodeAudioBuffer, EncodeAudioBufferFails,
         PeekBeforeAudio, NoSamples, ReadStep, EncodeVideoFrame,
         EncodeVideoFrameFails, PeekAfterVideo, NextPass, PassFails,
         EncodeStops
<1>5. \A block \in Blocks : /\ ~MuxAudio(block) /\ ~MuxAudioFails(block)
                            /\ ~AnalysisFails(block)
                            /\ ~BufferInitFails(block)
  BY DEF Failed, MuxAudio, MuxAudioFails, ReturnPackets, AnalysisFails,
         BufferInitFails, ReadStep
<1> QED
  BY <1>1, <1>2, <1>3, <1>4, <1>5 DEF Next

-----------------------------------------------------------------------------
(* The theorems. *)

(* An encode that has not begun. *)
LEMMA InitOK ==
  ASSUME DashAssumption, Init
  PROVE  IInv
<1>1. Rest /\ Delivered
  BY DEF Init, Rest, Delivered, DashAssumption
<1>2. Accepted /\ Pooled /\ Fresh /\ OffsetEnough
  BY DEF Init, Accepted, Pooled, Fresh, OffsetEnough, Started, DashAssumption
<1>3. Muxed
  <2>1. decimate \in Nat \ {0} /\ muxed_video = <<>> /\ frames_in_ = 0
    BY DEF Init, DashAssumption
  <2>2. 0 * decimate = 0
    BY <2>1
  <2> QED
    BY <2>1, <2>2 DEF Muxed
<1>4. Keys /\ KeyframeSpacing /\ VideoAheadByOne /\ CaughtUp
  BY DEF Init, Keys, KeyframeSpacing, VideoAheadByOne, CaughtUp
<1>5. Vorbis /\ InOrder
  BY DEF Init, Vorbis, InOrder
<1>6. AllMuxed
  <2>1. Vorbis /\ muxed_audio = <<>> /\ ogg_packets_ = <<>> /\ flushed = <<>>
    BY <1>5 DEF Init
  <2>2. [i \in 1..Len(muxed_audio) |-> muxed_audio[i].packets] = <<>>
    <3> DEFINE g == [i \in 1..Len(muxed_audio) |-> muxed_audio[i].packets]
    <3>1. g \in Seq(Seq(0..fed)) /\ Len(g) = 0
      BY <2>1, MuxedAreSequences
    <3> HIDE DEF g
    <3>2. g = <<>>
      BY <3>1, EmptySeq
    <3> QED
      BY <3>2 DEF g
  <2>3. MuxedPackets = <<>>
    BY <2>2, FlattenEmpty DEF MuxedPackets
  <2> QED
    BY <2>1, <2>3 DEF AllMuxed
<1> QED
  BY <1>1, <1>2, <1>3, <1>4, <1>5, <1>6 DEF IInv

(* A step that changes nothing. *)
LEMMA StutterKeeps ==
  ASSUME IInv, UNCHANGED vars
  PROVE  IInv'
<1>1. /\ UNCHANGED <<decimate, first, buffers_in, frames_due, committed>>
      /\ UNCHANGED <<audio_pool, video_pool, timestamp_offset_, thread,
                     video_timestamp, failures>>
      /\ UNCHANGED <<libvorbis_vars, vorbis_vars, video_vars>>
  BY DEF vars, capture_vars
<1>2. UNCHANGED <<samples_encoded_, first_input_timestamp_, muxed_video,
                  muxed_audio, fed, granulepos, flushed, ogg_packets_>>
  BY <1>1 DEF vorbis_vars, libvorbis_vars, video_vars
<1>3. Video' /\ Packets' /\ Times'
  BY <1>1, <1>2, VideoKept, PacketsKept, TimesKept, IInvParts
<1>4. Delivered' /\ Fresh' /\ OffsetEnough' /\ Rest'
  <2>1. frames_in_' = frames_in_
    BY <1>1 DEF video_vars
  <2> QED
    BY <1>1, <1>2, <2>1, IInvParts
       DEF Delivered, Fresh, OffsetEnough, Started, Rest
<1>5. Vorbis'
  BY <1>1, <1>2, IInvParts DEF Vorbis
<1> QED
  BY <1>3, <1>4, <1>5 DEF IInv, Video, Packets, Times

(* Every step keeps the inductive invariant, or is the failure. *)
LEMMA NextKeeps ==
  ASSUME DashAssumption, IInv, [Next]_vars
  PROVE  Inv'
<1>1. CASE CaptureAudio
  BY <1>1, CaptureAudioKeeps DEF Inv
<1>2. CASE \E gap \in FrameGaps : CaptureVideo(gap)
  BY <1>2, CaptureVideoKeeps DEF Inv
<1>3. CASE WaitForSamples
  BY <1>3, WaitForSamplesKeeps DEF Inv
<1>4. CASE EncodeAudioBuffer \/ EncodeAudioBufferFails
  BY <1>4, EncodeAudioBufferKeeps, EncodeAudioBufferFailed DEF Inv
<1>5. CASE PeekBeforeAudio
  BY <1>5, PeekBeforeAudioKeeps DEF Inv
<1>6. CASE \E block \in Blocks : MuxAudio(block) \/ MuxAudioFails(block)
  BY <1>6, MuxAudioKeeps, MuxAudioFailed DEF Inv
<1>7. CASE \E block \in Blocks : AnalysisFails(block) \/ BufferInitFails(block)
  BY <1>7, ReadFailsKeeps DEF Inv
<1>8. CASE NoSamples
  BY <1>8, NoSamplesKeeps DEF Inv
<1>9. CASE EncodeVideoFrame \/ EncodeVideoFrameFails
  BY <1>9, EncodeVideoFrameKeeps, EncodeVideoFrameFailed DEF Inv
<1>10. CASE PeekAfterVideo
  BY <1>10, PeekAfterVideoKeeps DEF Inv
<1>11. CASE NextPass \/ EncodeStops
  BY <1>11, PassEndKeeps DEF Inv
<1>12. CASE PassFails
  BY <1>12, PassFailed DEF Inv
<1>13. CASE UNCHANGED vars
  BY <1>13, StutterKeeps DEF Inv
<1> QED
  BY <1>1, <1>2, <1>3, <1>4, <1>5, <1>6, <1>7, <1>8, <1>9, <1>10, <1>11,
     <1>12, <1>13 DEF Next

(* The inductive invariant holds in every state of an encode, until a      *)
(* failure ends it; from then on what it leaves does.                      *)
THEOREM InvHolds == Spec => []Inv
<1>1. Init => Inv
  BY InitOK, DashAssumption DEF Inv
<1>2. Inv /\ [Next]_vars => Inv'
  BY NextKeeps, FailedKeeps, DashAssumption DEF Inv
<1> QED
  BY <1>1, <1>2, PTL DEF Spec

(* Every variable stays in its type. *)
THEOREM TypeOKHolds == Spec => []TypeOK
<1>1. IInv => TypeOK
  BY DEF IInv, TypeOK, Rest, Delivered, Accepted, Pooled, Muxed, Keys,
         OffsetEnough, Vorbis
<1>2. Failed => TypeOK
  BY DEF Failed, TypeOK, Delivered, AudioLeft, VideoLeft
<1>3. Inv => TypeOK
  BY <1>1, <1>2 DEF Inv
<1> QED
  BY <1>3, InvHolds, PTL

(* No sample still to be encoded has a negative time: the earliest sample  *)
(* of either pool is no earlier than the first of its stream, whose time   *)
(* the offset made up for when the wait ended.                             *)
THEOREM NoNegativeTimesHolds == Spec => []NoNegativeTimes
<1>1. ASSUME IInv PROVE NoNegativeTimes
  <2> SUFFICES ASSUME Started
               PROVE  /\ \A i \in 1..Len(audio_pool) :
                           audio_pool[i] + timestamp_offset_ >= 0
                      /\ \A i \in 1..Len(video_pool) :
                           video_pool[i] + timestamp_offset_ >= 0
    BY DEF NoNegativeTimes, Started
  <2>1. /\ timestamp_offset_ \in Nat
        /\ first.audio \in Int /\ first.video \in Int
        /\ first.audio + timestamp_offset_ >= 0
        /\ first.video + timestamp_offset_ >= 0
    BY <1>1, DashAssumption
       DEF IInv, OffsetEnough, Delivered, DashAssumption
  <2>2. ASSUME NEW i \in 1..Len(audio_pool)
        PROVE  audio_pool[i] + timestamp_offset_ >= 0
    <3> DEFINE a == audio_pool[i]
    <3>1. a \in Int /\ a >= first.audio
      BY <1>1, LenProperties DEF IInv, Delivered
    <3> HIDE DEF a
    <3>2. a + timestamp_offset_ >= 0
      BY <2>1, <3>1
    <3> QED
      BY <3>2 DEF a
  <2>3. ASSUME NEW i \in 1..Len(video_pool)
        PROVE  video_pool[i] + timestamp_offset_ >= 0
    <3> DEFINE a == video_pool[i]
               j == frames_in_ + i
    <3>1. /\ a = committed[j] /\ frames_in_ \in Nat
          /\ frames_in_ + Len(video_pool) = Len(committed)
          /\ Len(video_pool) \in Nat
      BY <1>1, LenProperties DEF IInv, Pooled
    <3>2. j \in 1..Len(committed)
      BY <3>1
    <3> HIDE DEF a, j
    <3>3. committed[j] \in Int /\ first.video <= committed[j]
      BY <1>1, <3>2, LenProperties DEF IInv, Accepted
    <3>4. a + timestamp_offset_ >= 0
      BY <2>1, <3>1, <3>3
    <3> QED
      BY <3>4 DEF a
  <2> QED
    BY <2>2, <2>3
<1>2. Failed => NoNegativeTimes
  BY DEF Failed, NoNegativeTimes
<1>3. Inv => NoNegativeTimes
  BY <1>1, <1>2 DEF Inv
<1> QED
  BY <1>3, InvHolds, PTL

(* The packets muxed are those libvorbis handed out, once and in order,    *)
(* and none is lost but those of the call whose muxing fails and ends the  *)
(* encode: one, unless a read failed before.                               *)
THEOREM PacketsIntactHolds == Spec => []PacketsIntact
<1>1. Inv => PacketsIntact
  BY IntactPackets DEF Inv, Failed, AudioLeft
<1> QED
  BY <1>1, InvHolds, PTL

(* Of the frames taken exactly each decimate-th is muxed, once, in order   *)
(* and at its own time, but for the one a failure that ends the encode may *)
(* lose.                                                                   *)
THEOREM FramesIntactHolds == Spec => []FramesIntact
<1>1. Inv => FramesIntact
  BY IntactFrames, DashAssumption DEF Inv, Failed, VideoLeft
<1> QED
  BY <1>1, InvHolds, PTL

(* Between two key frames no frame is later than the interval after the    *)
(* first of them.                                                          *)
THEOREM KeyframeSpacingHolds == Spec => []KeyframeSpacing
<1>1. Inv => KeyframeSpacing
  BY DEF Inv, IInv, Failed, VideoLeft
<1> QED
  BY <1>1, InvHolds, PTL

(* As long as no read fails, at most one frame muxed is later than the     *)
(* audio encoded.                                                          *)
THEOREM VideoAheadByOneHolds == Spec => []VideoAheadByOne
<1>1. Inv => VideoAheadByOne
  BY DEF Inv, IInv, Failed
<1> QED
  BY <1>1, InvHolds, PTL
=============================================================================
