---------------------------- MODULE WebmEncoder ----------------------------
(***************************************************************************)
(* The encoder thread: WebmEncoder::EncoderThread and what it calls        *)
(* (encoder/webm_encoder.cc), with the capture threads that feed its two   *)
(* sample pools, its two muxers and the data sink that takes its chunks.   *)
(* The main thread polls encoded_duration and calls Stop.                  *)
(*                                                                         *)
(* WebmEncoder::Init always selects a DASH encode, so there is one muxer   *)
(* per stream and DashEncode is the encode function; one of the streams    *)
(* may be disabled.  Samples are counted, not timed: where DashEncode      *)
(* compares the time of audio with that of video, both answers are         *)
(* possible.                                                               *)
(*                                                                         *)
(* What can fail does: the media source, either encoder, either muxer, the *)
(* allocations of the chunk buffer and of the data sink's copy.            *)
(***************************************************************************)
EXTENDS WebmMux, DashWriter, SequencesExt

CONSTANTS
  DefaultChunkBufferSize,  \* kDefaultChunkBufferSize, in elements
  MaxSamples,   \* bound: samples each capture device delivers
  MaxPackets,   \* bound: vorbis packets waiting in the vorbis encoder
  MaxPolls      \* bound: encoded_duration calls of the main thread

Audio == "audio"
Video == "video"
Streams == {Audio, Video}

ASSUME EncoderAssumption ==
  /\ Muxers = Streams
  /\ DefaultChunkBufferSize \in Nat \ {0}
  /\ MaxSamples \in Nat /\ MaxPackets \in Nat /\ MaxPolls \in Nat

VARIABLES
  stop_,       \* WebmEncoder::stop_
  mutex_,      \* main thread inside mutex_, or free
  main,        \* control point of the main thread
  polls,       \* number of encoded_duration calls
  thread,      \* control point of EncoderThread
  enabled,     \* the streams that are not disabled
  stream,      \* the stream whose muxer EncoderThread is looking at
  user_initiated_stop,
  source,      \* the media source: "idle", "running", "stopped"
  delivered,   \* delivered[s]: samples the capture device delivered
  pool,        \* pool[s]: samples committed and not decommitted
  got,         \* got_audio and got_video of WaitForSamples
  packets,     \* vorbis packets ReadCompressedAudio can return
  chunk_buffer,      \* chunk_buffer_ is not NULL
  chunk_buffer_size, \* chunk_buffer_size_
  sink,        \* history: what the data sink was given, in order
  broken,      \* history: a call of EncoderThread failed
  crashed      \* the process died in LOG(FATAL)

stop_vars == <<stop_, mutex_, main, polls>>
capture_vars == <<source, delivered, pool, got>>
chunk_vars == <<chunk_buffer, chunk_buffer_size>>
vars == <<mux_vars, stop_vars, thread, stream, user_initiated_stop,
          capture_vars, packets, chunk_vars, sink, broken, crashed,
          dash_vars, enabled>>

(* The stream whose muxer comes first, and the one that comes last. *)
FirstStream == IF Audio \in enabled THEN Audio ELSE Video
LastStream == IF Video \in enabled THEN Video ELSE Audio

Init ==
  /\ MuxInit /\ DashWriterInit
  /\ enabled \in (SUBSET Streams) \ {{}}
  /\ stop_ = FALSE /\ mutex_ = "free" /\ main = "polling" /\ polls = 0
  /\ thread = "run" /\ stream = FirstStream /\ user_initiated_stop = FALSE
  /\ source = "idle"
  /\ delivered = [s \in Streams |-> 0] /\ pool = [s \in Streams |-> 0]
  /\ got = [s \in Streams |-> s \notin enabled]
  /\ packets = 0
  /\ chunk_buffer = TRUE /\ chunk_buffer_size = DefaultChunkBufferSize
  /\ sink = <<>>
  /\ broken = FALSE /\ crashed = FALSE

(* The configuration does not change while the process runs. *)
Running == ~crashed /\ UNCHANGED <<enabled, dash_name>>
-----------------------------------------------------------------------------
(* Capture threads: OnSamplesReceived and OnVideoFrameReceived commit.     *)
Capture(s) ==
  /\ Running /\ s \in enabled /\ source = "running"
  /\ delivered[s] < MaxSamples
  /\ delivered' = [delivered EXCEPT ![s] = @ + 1]
  /\ pool' = [pool EXCEPT ![s] = @ + 1]
  /\ UNCHANGED <<mux_vars, stop_vars, thread, stream, user_initiated_stop,
                 source, got, packets, chunk_vars, sink, broken, crashed,
                 dash_writer>>

-----------------------------------------------------------------------------
(* The main thread. *)

MainStep ==
  /\ Running
  /\ UNCHANGED <<mux_vars, thread, stream, user_initiated_stop, capture_vars,
                 packets, chunk_vars, sink, broken, crashed, dash_writer>>

(* encoded_duration holds mutex_ while it reads. *)
PollLock ==
  /\ MainStep
  /\ main = "polling" /\ mutex_ = "free" /\ polls < MaxPolls
  /\ polls' = polls + 1 /\ mutex_' = "main" /\ main' = "reading"
  /\ UNCHANGED stop_

PollUnlock ==
  /\ MainStep
  /\ main = "reading"
  /\ mutex_' = "free" /\ main' = "polling"
  /\ UNCHANGED <<stop_, polls>>

(* Stop: set the flag under mutex_, then join. *)
StopLock ==
  /\ MainStep
  /\ main = "polling" /\ mutex_ = "free"
  /\ mutex_' = "main" /\ main' = "flag"
  /\ UNCHANGED <<stop_, polls>>

StopFlag ==
  /\ MainStep
  /\ main = "flag"
  /\ stop_' = TRUE /\ mutex_' = "free" /\ main' = "join"
  /\ UNCHANGED polls

StopJoin ==
  /\ MainStep
  /\ main = "join" /\ thread = "done"
  /\ main' = "stopped"
  /\ UNCHANGED <<stop_, mutex_, polls>>

-----------------------------------------------------------------------------
(* EncoderThread up to its loop. *)

ThreadStep == Running /\ UNCHANGED <<stop_vars, dash_writer>>

(* StopRequested only tries the lock and answers false when it is taken. *)
StopRequested == mutex_ = "free" /\ stop_

(* The loop breaks on an error; the media source is stopped next. *)
Break ==
  /\ broken' = TRUE
  /\ thread' = "stop_source"

(* ptr_media_source_->Run(); LOG(FATAL) when it fails. *)
RunSource ==
  /\ ThreadStep
  /\ thread = "run"
  /\ \/ source' = "running" /\ thread' = "manifest" /\ UNCHANGED crashed
     \/ crashed' = TRUE /\ UNCHANGED <<source, thread>>
  /\ UNCHANGED <<mux_vars, stream, user_initiated_stop, delivered, pool, got,
                 packets, chunk_vars, sink, broken>>

(* The DashWriter is constructed, LOG(FATAL) when it cannot be, and its    *)
(* manifest goes to the data sink; nobody looks at WriteData's result, and *)
(* a DashWriter that is not initialized is only logged.                    *)
SendManifest ==
  /\ Running /\ UNCHANGED stop_vars
  /\ thread = "manifest"
  /\ \/ /\ InitDashWriter(enabled)
        /\ \/ /\ sink' = Append(sink, [id |-> <<dash_name, "mpd">>,
                                      chunk |-> WriteManifest(dash_writer')])
              /\ UNCHANGED broken
           \/ broken' = TRUE /\ UNCHANGED sink
        /\ thread' = "wait"
        /\ UNCHANGED crashed
     \/ crashed' = TRUE /\ UNCHANGED <<dash_writer, sink, broken, thread>>
  /\ UNCHANGED <<mux_vars, stream, user_initiated_stop, capture_vars, packets,
                 chunk_vars>>

(* Mutant: the thread does not look for a stop while it waits. *)
WaitForSamplesIgnoresStop ==
  /\ ThreadStep
  /\ thread = "wait"
  /\ got' = [s \in Streams |-> got[s] \/ pool[s] > 0]
  /\ thread' = IF \A s \in enabled : got'[s] THEN "top" ELSE "wait"
  /\ UNCHANGED <<mux_vars, stream, user_initiated_stop, source, delivered,
                 pool, packets, chunk_vars, sink, broken, crashed>>

(* Mutant: the flags are set before the pools are looked at. *)
WaitForSamplesNotWaiting ==
  /\ ThreadStep
  /\ thread = "wait"
  /\ got' = [s \in Streams |-> TRUE]
  /\ thread' = IF \A s \in enabled : pool[s] > 0 THEN "top" ELSE "done"
  /\ UNCHANGED <<mux_vars, stream, user_initiated_stop, source, delivered,
                 pool, packets, chunk_vars, sink, broken, crashed>>

(* One turn of WaitForSamples: leave on a stop, otherwise look at the      *)
(* pools that have been empty so far.  Once each has been seen nonempty    *)
(* it reads the first timestamps, which fails on an empty pool; then       *)
(* EncoderThread ends without stopping the media source.                   *)
WaitForSamples ==
  /\ ThreadStep
  /\ thread = "wait"
  /\ IF StopRequested THEN thread' = "top" /\ UNCHANGED got
     ELSE /\ got' = [s \in Streams |-> got[s] \/ pool[s] > 0]
          /\ thread' = IF \E s \in Streams : ~got'[s] THEN "wait"
                       ELSE IF \A s \in enabled : pool[s] > 0 THEN "top"
                       ELSE "done"
  /\ UNCHANGED <<mux_vars, stream, user_initiated_stop, source, delivered,
                 pool, packets, chunk_vars, sink, broken, crashed>>

-----------------------------------------------------------------------------
(* The loop. *)

(* Mutant: a stop leaves the loop the way an error does. *)
LoopTopWithoutFinalize ==
  /\ ThreadStep
  /\ thread = "top"
  /\ thread' = IF StopRequested THEN "stop_source" ELSE "status"
  /\ user_initiated_stop' = StopRequested
  /\ UNCHANGED <<mux_vars, stream, capture_vars, packets, chunk_vars, sink,
                 broken, crashed>>

LoopTop ==
  /\ ThreadStep
  /\ thread = "top"
  /\ thread' = IF StopRequested THEN "finalize" ELSE "status"
  /\ user_initiated_stop' = StopRequested
  /\ stream' = FirstStream
  /\ UNCHANGED <<mux_vars, capture_vars, packets, chunk_vars, sink, broken,
                 crashed>>

(* CheckStatus: the media source may have lost a device. *)
CheckStatus ==
  /\ ThreadStep
  /\ thread = "status"
  /\ \/ thread' = "encode_audio" /\ UNCHANGED broken
     \/ Break
  /\ UNCHANGED <<mux_vars, stream, user_initiated_stop, capture_vars, packets,
                 chunk_vars, sink, crashed>>

(* DashEncode: EncodeAudioBuffer feeds one audio buffer, if there is one,  *)
(* to the vorbis encoder, which may then hold more packets.                *)
EncodeAudioBuffer ==
  /\ ThreadStep
  /\ thread = "encode_audio"
  /\ IF pool[Audio] > 0
     THEN /\ pool' = [pool EXCEPT ![Audio] = @ - 1]
          /\ \/ /\ packets' \in packets..MaxPackets
                /\ thread' = "read_audio" /\ UNCHANGED broken
             \/ Break /\ UNCHANGED packets
     ELSE thread' = "read_audio" /\ UNCHANGED <<pool, packets, broken>>
  /\ UNCHANGED <<mux_vars, stream, user_initiated_stop, source, delivered, got,
                 chunk_vars, sink, crashed>>

(* One turn of DashEncode's audio loop: read a packet and mux it; go on to *)
(* video once audio is ahead of it.  When no packet is left the loop ends  *)
(* with kNoSamples, which equals BufferPool::kEmpty, and the video loop is *)
(* skipped; a negative status ends it without being reported.  Without     *)
(* audio the vorbis encoder was never initialized: libvorbis is handed a   *)
(* zeroed state, in which it finds no block, or the process dies of it.    *)
MuxAudio ==
  /\ ThreadStep
  /\ thread = "read_audio"
  /\ \/ /\ packets > 0
        /\ packets' = packets - 1
        /\ \/ /\ \E opens_cluster \in BOOLEAN : AddFrame(Audio, opens_cluster)
              /\ thread' \in {"read_audio", "encode_video"}
              /\ UNCHANGED broken
           \/ Break /\ UNCHANGED mux_vars
        /\ UNCHANGED crashed
     \/ /\ packets = 0
        /\ thread' = "chunk"
        /\ UNCHANGED <<mux_vars, packets, broken, crashed>>
     \/ /\ Audio \in enabled
        /\ thread' = "encode_video"
        /\ UNCHANGED <<mux_vars, packets, broken, crashed>>
     \/ /\ Audio \notin enabled
        /\ crashed' = TRUE
        /\ UNCHANGED <<mux_vars, packets, broken, thread>>
  /\ UNCHANGED <<stream, user_initiated_stop, capture_vars, chunk_vars, sink>>

(* One turn of the video loop: EncodeVideoFrame takes a frame if there is  *)
(* one; the video encoder may drop it, or it is muxed.  The loop ends when *)
(* the pool is empty or video is ahead of audio.                           *)
EncodeVideo ==
  /\ ThreadStep
  /\ thread = "encode_video"
  /\ IF pool[Video] > 0
     THEN /\ pool' = [pool EXCEPT ![Video] = @ - 1]
          /\ \/ /\ \/ \E opens_cluster \in BOOLEAN :
                         AddFrame(Video, opens_cluster)
                   \/ UNCHANGED mux_vars
                /\ thread' \in IF pool'[Video] > 0
                               THEN {"encode_video", "chunk"} ELSE {"chunk"}
                /\ UNCHANGED broken
             \/ Break /\ UNCHANGED mux_vars
     ELSE thread' = "chunk" /\ UNCHANGED <<mux_vars, pool, broken>>
  /\ UNCHANGED <<stream, user_initiated_stop, source, delivered, got, packets,
                 chunk_vars, sink, crashed>>

-----------------------------------------------------------------------------
(* Chunks.  ReadChunkFromMuxer enlarges chunk_buffer_ when the chunk does  *)
(* not fit; a failed allocation leaves it NULL with its old size.          *)
GrowChunkBuffer(m) ==
  IF chunk_end_[m] <= chunk_buffer_size
  THEN UNCHANGED chunk_vars
  ELSE \/ chunk_buffer' = TRUE /\ chunk_buffer_size' = 2 * chunk_end_[m]
       \/ chunk_buffer' = FALSE /\ UNCHANGED chunk_buffer_size

(* ReadChunk returns kInvalidArg for a NULL buffer. *)
CanRead(m) == chunk_buffer' /\ chunk_end_[m] <= chunk_buffer_size'

(* Mutant: the chunk is numbered after it was read. *)
EntryAfterRead(m) ==
  [id |-> IdForChunk(m, chunks_read_[m] + 1), chunk |-> Chunk(m)]

(* What the data sink is given for a chunk, named by NextChunkId. *)
Entry(m) == [id |-> IdForChunk(m, chunks_read_[m]), chunk |-> Chunk(m)]

(* The chunk is named, which aborts the process when the DashWriter was    *)
(* not initialized, read, and passed to the data sink, which may be out of *)
(* memory; ok tells whether all went well.                                 *)
WriteChunk(m, ok) ==
  /\ GrowChunkBuffer(m)
  /\ IF CanRead(m)
     THEN /\ EraseChunk(m)
          /\ sink' = IF ok THEN Append(sink, Entry(m)) ELSE sink
     ELSE ~ok /\ UNCHANGED <<mux_vars, sink>>

CanName == dash_writer.initialized

NameFails ==
  /\ ~CanName
  /\ crashed' = TRUE
  /\ UNCHANGED <<mux_vars, chunk_vars, sink, broken, stream, thread>>

(* After the audio muxer comes the video muxer. *)
NextMuxer(same, after) ==
  IF stream # LastStream THEN stream' = LastStream /\ thread' = same
  ELSE stream' = FirstStream /\ thread' = after

WriteMuxerChunkToDataSink ==
  /\ ThreadStep
  /\ thread = "chunk"
  /\ \/ /\ ChunkReady(stream) /\ CanName
        /\ \E ok \in BOOLEAN :
             /\ WriteChunk(stream, ok)
             /\ IF ok THEN NextMuxer("chunk", "top") /\ UNCHANGED broken
                ELSE Break /\ UNCHANGED stream
        /\ UNCHANGED crashed
     \/ ChunkReady(stream) /\ NameFails
     \/ /\ ~ChunkReady(stream)
        /\ NextMuxer("chunk", "top")
        /\ UNCHANGED <<mux_vars, chunk_vars, sink, broken, crashed>>
  /\ UNCHANGED <<user_initiated_stop, capture_vars, packets>>

(* WriteLastMuxerChunkToDataSink: finalize the muxer ...                   *)
FinalizeMuxer ==
  /\ ThreadStep
  /\ thread = "finalize"
  /\ \/ /\ Finalize(stream)
        /\ thread' = "last_chunk"
        /\ UNCHANGED <<stream, broken>>
     \/ /\ NextMuxer("finalize", "stop_source")
        /\ broken' = TRUE
        /\ UNCHANGED mux_vars
  /\ UNCHANGED <<user_initiated_stop, capture_vars, packets, chunk_vars, sink,
                 crashed>>

(* ... and pass on what is left; a failure does not keep the other muxer   *)
(* from being finalized.                                                   *)
WriteLastChunk ==
  /\ ThreadStep
  /\ thread = "last_chunk"
  /\ \/ /\ ChunkReady(stream) /\ CanName
        /\ NextMuxer("finalize", "stop_source")
        /\ \E ok \in BOOLEAN :
             WriteChunk(stream, ok) /\ broken' = (broken \/ ~ok)
        /\ UNCHANGED crashed
     \/ ChunkReady(stream) /\ NameFails
     \/ /\ ~ChunkReady(stream)
        /\ NextMuxer("finalize", "stop_source")
        /\ UNCHANGED <<mux_vars, chunk_vars, sink, broken, crashed>>
  /\ UNCHANGED <<user_initiated_stop, capture_vars, packets>>

(* ptr_media_source_->Stop() ends the capture threads. *)
StopSource ==
  /\ ThreadStep
  /\ thread = "stop_source"
  /\ source' = "stopped"
  /\ thread' = "done"
  /\ UNCHANGED <<mux_vars, stream, user_initiated_stop, delivered, pool, got,
                 packets, chunk_vars, sink, broken, crashed>>

-----------------------------------------------------------------------------
EncoderThread ==
  \/ RunSource \/ SendManifest \/ WaitForSamples
  \/ LoopTop \/ CheckStatus
  \/ EncodeAudioBuffer \/ MuxAudio \/ EncodeVideo
  \/ WriteMuxerChunkToDataSink
  \/ FinalizeMuxer \/ WriteLastChunk \/ StopSource

MainThread == PollLock \/ PollUnlock \/ StopLock \/ StopFlag \/ StopJoin

Next == EncoderThread \/ MainThread \/ \E s \in Streams : Capture(s)

(* Both threads are eventually scheduled.  Nothing forces a device to      *)
(* deliver a sample or the user to stop the program.                       *)
Fairness ==
  /\ WF_vars(EncoderThread)
  /\ WF_vars(PollUnlock \/ StopFlag \/ StopJoin)

Spec == Init /\ [][Next]_vars

FairSpec == Spec /\ Fairness

-----------------------------------------------------------------------------
Kinds == {"header", "cluster", "block"}

(* Type invariant. *)
TypeOK ==
  /\ \A m \in Muxers :
       /\ buffer_[m] \in Seq(1..Len(written[m]))
       /\ chunk_end_[m] \in 0..Len(buffer_[m])
       /\ chunks_read_[m] \in Nat
       /\ written[m] \in Seq(Kinds)
  /\ stop_ \in BOOLEAN /\ mutex_ \in {"free", "main"}
  /\ main \in {"polling", "reading", "flag", "join", "stopped"}
  /\ polls \in 0..MaxPolls
  /\ thread \in {"run", "manifest", "wait", "top", "status",
                 "encode_audio", "read_audio", "encode_video", "chunk",
                 "finalize", "last_chunk", "stop_source", "done"}
  /\ stream \in Streams /\ user_initiated_stop \in BOOLEAN
  /\ source \in {"idle", "running", "stopped"}
  /\ delivered \in [Streams -> 0..MaxSamples]
  /\ pool \in [Streams -> 0..MaxSamples]
  /\ got \in [Streams -> BOOLEAN]
  /\ packets \in 0..MaxPackets
  /\ chunk_buffer \in BOOLEAN /\ chunk_buffer_size \in Nat
  /\ broken \in BOOLEAN /\ crashed \in BOOLEAN
  /\ enabled \in (SUBSET Streams) \ {{}}
  /\ dash_writer.initialized \in BOOLEAN
  /\ DOMAIN dash_writer.sets \in {{}, enabled}

(* The entry has a name of the representation of m. *)
IsChunkOf(m, e) == Len(e.id) > 2 /\ e.id[2] = RepId(m)

(* Those of some entries of the sink that have. *)
ChunksIn(m, entries) ==
  FlattenSeq([i \in DOMAIN entries |->
                IF IsChunkOf(m, entries[i]) THEN <<entries[i]>> ELSE <<>>])

(* The elements of some chunks, joined. *)
Joined(chunks) == FlattenSeq([i \in DOMAIN chunks |-> chunks[i].chunk])

(* The chunks of muxer m that reached the sink, and all their elements. *)
ChunksOf(m) == ChunksIn(m, sink)
Sunk(m) == Joined(ChunksOf(m))

Elements1To(n) == [i \in 1..n |-> i]

(* The chunks of a stream, joined in the order the data sink got them, are *)
(* a prefix of the stream libwebm wrote, also after a failure: nothing is  *)
(* repeated or reordered, and nothing follows a chunk that was lost        *)
(* between the muxer and the sink.  Unless something failed, they and what *)
(* the muxer still buffers are the whole stream.                           *)
StreamIntact ==
  \A m \in Muxers :
    /\ Sunk(m) = Elements1To(Len(Sunk(m)))
    /\ ~broken => Sunk(m) \o buffer_[m] = Elements1To(Len(written[m]))

(* What a player makes of a template of the manifest. *)
Expand(template, rep_id, number) ==
  [i \in DOMAIN template |->
     CASE template[i] = "$RepresentationID$" -> rep_id
       [] template[i] = "$Number$" -> number
       [] OTHER -> template[i]]

(* A player that got the manifest finds the segments: the manifest comes   *)
(* before any chunk and lists the enabled streams, and the chunks of a     *)
(* stream have, in order, the name its initialization template stands for  *)
(* and those its media template stands for when numbers are counted from   *)
(* startNumber without a gap. The templates are filled in by one function  *)
(* and the names made by another.                                          *)
SegmentsAddressable ==
  /\ \A i \in 2..Len(sink) : sink[i].id # <<dash_name, "mpd">>
  /\ (Len(sink) > 1 /\ sink[1].id = <<dash_name, "mpd">>) =>
       \A m \in enabled : \E a \in DOMAIN sink[1].chunk :
         LET set == sink[1].chunk[a]
         IN /\ set.rep_id = RepId(m)
            /\ \A i \in DOMAIN ChunksOf(m) :
                 ChunksOf(m)[i].id =
                   IF i = 1 THEN Expand(set.initialization, set.rep_id, 0)
                   ELSE Expand(set.media, set.rep_id,
                               set.start_number + i - 2)

(* Every chunk but the first begins with a cluster, as a player that joins *)
(* the stream at a chunk needs, and the first one begins with the header.  *)
ChunksStartClusters ==
  \A m \in Muxers : \A i \in 1..Len(ChunksOf(m)) :
    LET c == ChunksOf(m)[i]
    IN  written[m][Head(c.chunk)] = IF i = 1 THEN "header" ELSE "cluster"

(* When the thread has ended on a stop and nothing failed, everything the  *)
(* muxers wrote is in the sink.                                            *)
CompleteOnStop ==
  thread = "done" /\ ~broken => \A m \in Muxers : buffer_[m] = <<>>

(* The thread never ends with the capture devices running: the path of     *)
(* EncoderThread that skips ptr_media_source_->Stop() is not taken,        *)
(* because a pool that was seen nonempty stays so until the encoder reads  *)
(* from it.                                                                *)
SourceStopped == thread = "done" => source = "stopped"

(* Nothing more comes of a stream: a chunk did not reach the sink, or what *)
(* was written is all in the sink.                                         *)
StreamOver(m) ==
  \/ Len(Sunk(m)) + Len(buffer_[m]) # Len(written[m])
  \/ buffer_[m] = <<>> /\ written[m] # <<>>

AudioStream == INSTANCE LiveStream WITH
  made <- written[Audio], received <- Sunk(Audio), over <- StreamOver(Audio)
VideoStream == INSTANCE LiveStream WITH
  made <- written[Video], received <- Sunk(Video), over <- StreamOver(Video)

(* Muxer, chunk buffer and encoder thread together give the data sink of   *)
(* each stream what a player may rely on. In particular a stream of which  *)
(* a chunk was lost on the way to the sink neither grows nor reaches the   *)
(* sink again, and nothing is written behind the last chunk.               *)
StreamsPromised == AudioStream!Spec /\ VideoStream!Spec

(* WebmEncoder::Stop returns, unless the process dies in LOG(FATAL).       *)
StopReturns == (main = "flag") ~> (main = "stopped" \/ crashed)

(* "--adisable                     Disable audio capture." (usage text,     *)
(* encoder_main.cc:100) leaves a program that encodes video: a frame that  *)
(* waits when a pass begins does not wait for ever while the thread goes   *)
(* on.                                                                     *)
VideoOnlyEncodes ==
  (enabled = {Video} /\ thread = "top" /\ pool[Video] > 0)
    ~> (pool[Video] = 0 \/ thread \in {"finalize", "stop_source", "done"}
        \/ crashed)

=============================================================================
