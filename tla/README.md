# Verification of the webmlive encoder

webmlive captures audio and video, encodes them to WebM, cuts the result into
DASH chunks and writes the chunks to files and to an HTTP server while the
capture is running. This directory holds TLA+ modules translated from
`src/encoder`, configurations that check them with TLC on small instances, and
theorems proved with TLAPS for every value of the constants. Paths below are
relative to `src/encoder` unless they say otherwise.

## 1. The system

Six threads take part once the program runs: the main thread, the encoder
thread, one thread per sink, and the two capture threads DirectShow runs.

| Component | State | Operations | Talks to |
|---|---|---|---|
| `EncoderMain` (`encoder_main.cc`) | configuration, the objects it owns | start writer, uploader and encoder; poll; shut down | everything |
| `WebmEncoder` (`webm_encoder.cc`) | `stop_`, `mutex_`, `chunk_buffer_`, the encode function, the timestamp offset | `Init`, `Run`, `Stop`, `encoded_duration`, `EncoderThread` | media source, both pools, both encoders, both muxers, `DataSink`, `DashWriter` |
| `BufferPool<Type>` (`buffer_pool-inl.h`) with `AudioBuffer` (`audio_encoder.cc`) and `VideoFrame` (`video_encoder.cc`) | active and inactive queues; each object's storage, capacity, length and times | `Init`, `Commit`, `Decommit`, `ActiveBufferTimestamp`, `DropActiveBuffer`, `Flush` | capture thread on one side, encoder thread on the other |
| `VorbisEncoder`, `VideoEncoder`/`VpxEncoder` | codec state, sample and frame counts | `Encode`, `ReadCompressedAudio`; `EncodeFrame` | called by the encoder thread |
| `LiveWebmMuxer`, `WebmMuxWriter` (`webm_mux.cc`) | buffered bytes, chunk end, number of chunks read | write a frame, `ChunkReady`, `ReadChunk`, `Finalize` | libwebm, which calls back into the writer |
| `DashWriter` (`dash_writer.cc`) | names and start numbers | `WriteManifest`, `IdForChunk` | called by the encoder thread |
| `DataSink` (`data_sink.cc`) | list of sinks | `AddDataSink`, `WriteData` | fans out to the sinks |
| `SharedBufferQueue` (`data_sink.cc`) | queue of shared buffers, mutex | `EnqueueBuffer`, `DequeueBuffer`, `GetNumBuffers` | encoder thread and one sink's thread |
| `FileWriter` (`file_writer.cc`) | queue, `stop_`, condition variable | `Init`, `Run`, `Stop`, `WriteData`, `WriterThread` | the queue; the file system |
| `HttpUploader` (`http_uploader.cc`) | queue, `stop_`, condition variable, statistics | `Init`, `Run`, `Stop`, `GetStats`, `EnqueueBuffer`, `UploadThread` | the queue; libcurl and its callbacks; polled by the main thread |
| `MediaSourceImpl` (`win/media_source_dshow.cc`) | filter graph, requested and actual formats | `Init`, `Run`, `CheckStatus`, `Stop` | DirectShow; owns the sink filters |
| `AudioSinkFilter`, `VideoSinkFilter` (`win/`) | negotiated media type, filter state, their sample object | media type negotiation, `OnSamplesReceived`/`OnFrameReceived` | DirectShow calls them, they call `Commit` |

How a sample travels: a capture thread fills the sink filter's own object and
`Commit`s it; the encoder thread `Decommit`s it, encodes it and gives the packet
to the stream's muxer; libwebm writes elements into the muxer's buffer and
announces cluster starts; a loop pass reads each chunk that is ready and hands
it to `DataSink`, which enqueues one shared copy with every sink; each sink's
thread writes or uploads it.

How the program stops: the main thread sets `WebmEncoder::stop_` and joins the
encoder thread, which finalizes the muxers, sends the last chunks and stops the
media source; then it stops and joins the uploader, then the file writer.

### Where it is hard, and what correctness means there

* **Sinks.** Two locks, both only *tried* by the sink's thread
  (`SharedBufferQueue::DequeueBuffer`, `StopRequested`), a condition variable
  waited on without a predicate, and a loop that must drain before it leaves.
  Correct means: FIFO, exactly once, drained before the thread returns, `Stop`
  returns, the byte counts add up.
* **Pools.** Objects are never copied once they have storage: members are
  swapped, so storage, stale capacities and stale times wander between two
  threads, and any allocation can fail. Correct means: no object is lost,
  samples come out in order, whole, with their own times, and the pool never
  touches storage that is not there.
* **Muxers and chunks.** libwebm calls back in the middle of a write; a chunk
  end may be overwritten before it was read; the chunk buffer can be lost in a
  failed growth. Correct means: the chunks joined are the stream, they are
  numbered without gaps and begin at clusters.
* **The encoder thread.** Anything it calls may fail; a stop may come at any
  time, also before the first sample. Correct means: `Stop` returns, a clean
  stop leaves nothing behind, the devices are off at the end.
* **The program.** Every start may fail; the encoder thread must be gone before
  a sink is stopped. Correct means: sinks agree, a successful exit delivered
  everything.

* **The capture graph.** Set-up is a ladder of fallbacks: every format, then the
  device's default, with failing calls at every rung and format blocks changing
  owners on the way. A sink pin that is asked about a type remembers it, whatever
  becomes of the question. Capture threads are inside the sink filters while the
  encoder thread stops them. Correct means: a sample is described by the type it
  has, both copies of the settings agree, memory is returned on every path, no
  callback outlives `Stop`, and the end of the capture is noticed.
* **The encode pass.** `DashEncode` juggles two clocks: audio time, counted in
  samples by the vorbis encoder, and video time, read ahead from the pool or
  estimated when the pool is empty. Frames arrive in between, statuses of two
  enumerations are compared, and errors of the audio loop are passed over.
  Correct means: no negative time, packets and frames once and in order, video
  and audio together.

`PROJECT.json` lists the hazards, each at the line where it bites and with the
properties that would notice. Where none would, or not in every case, the reason
is beside it: audio lost before it is counted, a program that ends half started,
the last chunks given up after a stop, a chunk that waits for the next wakeup, a
type that was only asked about, an abort nobody polls for yet, a stream that starts
24 days early.

## 2. The modules

| Module | Models | Composed of |
|---|---|---|
| `SharedBufferQueue` | the queue of one sink | — |
| `FifoSink` | abstract: what a sink promises | — |
| `FileWriter` | file sink, three threads | extends `SharedBufferQueue`; implements `FifoSink` |
| `FileWriterProofs` | its theorems | extends `FileWriter` |
| `SequenceLemmas` | facts about sequences, and about joining sequences of sequences, that the proofs share | — |
| `HttpUploader` | HTTP sink, libcurl's callback, statistics | extends `SharedBufferQueue`; implements `FifoSink` |
| `HttpUploaderProofs` | its theorems | extends `HttpUploader` |
| `BufferPool` | a pool with both of its users, for audio or video | — |
| `BufferPoolProofs` | its theorems | extends `BufferPool` |
| `WebmMux` | muxers of the encoder thread | — |
| `DashWriter` | the manifest and the names of the chunks | — |
| `LiveStream` | abstract: what a player relies on | — |
| `WebmEncoder` | encoder thread, capture threads, main thread | extends `WebmMux` and `DashWriter`; implements `LiveStream`, once per stream |
| `WebmEncoderProofs` | its theorems, with those of `WebmMux` and `DashWriter` | extends `WebmEncoder` |
| `MCWebmEncoder` | instance for TLC | extends `WebmEncoder` |
| `DashEncode` | sample times in the encode pass: `DashEncode`, `VorbisEncoder`, `VpxEncoder` | — |
| `DashEncodeProofs` | its theorems | extends `DashEncode` |
| `MCDashEncode` | instance for TLC | extends `DashEncode` |
| `EncoderMain` | start, polling and shutdown, `DataSink` | instantiates `FifoSink` once per sink |
| `EncoderMainProofs` | its theorems | extends `EncoderMain` |
| `CaptureSource` | abstract: what a media source promises the encoder | — |
| `MediaType` | media types and who owns their format blocks | — |
| `SinkPin` | the two sink filters and their capture threads | extends `MediaType` |
| `MediaSource` | the capture graph: set-up, run, poll, stop | extends `SinkPin`; implements `CaptureSource` |
| `MediaSourceProofs` | its theorems, with those of `MediaType` and `SinkPin` | extends `MediaSource` |
| `MCMediaSource` | instance for TLC | extends `MediaSource` |

The levels meet in `FifoSink`. `FileWriter` and `HttpUploader` implement it
(refinement mapping: `pending` is the buffer in the thread's hand followed by the
queue, `handled` the buffers whose write or upload was attempted, `closed` that
the thread returned). `EncoderMain` builds on it and shows the other half: the
program never uses a sink in a way `FifoSink` excludes (`SinksUsedAsPromised`).

`CaptureSource` is the same seam on the other side of the encoder: `MediaSource`
implements it (refinement mapping: `phase` from the control points of the two
threads and the states of the filters, `calls` the capture threads past the base
class's check), and `WebmEncoder` assumes it: samples arrive while the source is
`"running"`, and none after.

`LiveStream` is what leaves the encoder, seen from a player: a stream that begins
with a header and grows,
of which it has a beginning, brought to it in chunks that end where a cluster
begins or with the stream; and once a chunk is lost, or the last one has come,
nothing. `WebmEncoder` implements it for audio and for video (`StreamsPromised`;
refinement mapping: `made` is what libwebm wrote, `received` the chunks in the
sink, joined, `over` that the two do not meet in the muxer's buffer, or that the
buffer of a stream that has begun is empty).

### State and actions against the code

`map` in `PROJECT.json` gives the source lines of every definition. Members keep
their names from the source. The conventions:

* One action is the code between two places where another thread may run. A
  `lock_guard` scope that no other thread can see half done is a single step; it
  is split where someone only *tries* the lock and acts on the failure.
* Control points are strings: `writer = "dequeue"` is `WriterThread` about to
  call `DequeueBuffer`.
* `NotifyOne` wakes a parked thread and is otherwise forgotten. A wait is three
  steps: take the mutex, release it and park at once, take it again when woken.
* `StopRequested` and `DequeueBuffer` fail exactly when someone holds the lock.
  The standard also allows a `try_lock` to fail for no reason; the
  implementations in use do not.
* A sink's buffer is the number of its enqueue call. A sample is its number, with
  a timestamp and duration of its own. A stream element is its position. A chunk
  is a sequence of elements. No property depends on more.
* What can fail is a nondeterministic choice: allocations, `WriteFile`, libcurl,
  codecs, libwebm, devices.
* Variables called "history" or "bound" in their comment are not in the code.

**`FileWriter`.** `WriteData` is lock, push, notify; `Stop` is lock, flag,
notify, join; `WriterThread` is `CheckStop` and `CountBuffers` (the two halves of
the loop condition), `Dequeue`, `WriteFile`, and the three wait steps.

**`HttpUploader`.** The same skeleton. `UploadSetup` stands for all of `Upload`
up to `curl_easy_perform`, which is a loop of `ProgressCheck`, `ProgressReport`
and one of `SendUnit`, `Stall`, `PerformReturns`; `Tally` is the end of `Upload`.
libcurl is assumed to call the progress callback before each unit and regularly
while the peer stalls, as its documentation says. The set-up (`SetUp`) may have
failed: `HttpUploaderImpl::Init` returns false on every path and `HttpUploader::Init`,
which tests the result as an `int`, takes it for success (only a lack of memory for
the object makes it fail). The thread then runs without a libcurl handle, or without
one of the callbacks, and with statistics that nothing has initialized
(`Leftovers`): `curl` says whether it was given up before there was a handle, before
the progress callback was set, or before the write callback was. A form or a header that cannot be set is
part of `UploadSetup`.

**`BufferPool`.** `InitAllocates`, `InitCannotAllocate`, `InitReuses` and
`InitCannotConvert` are the outcomes of `AudioBuffer::Init` and
`VideoFrame::Init`; the `Commit*` actions those of `Commit`; `Exchange` decides
between `Clone` and `Swap` as the code does, with the member assignments of
each. `VideoFrame`'s pixel conversion is reduced to its effect on the object.

**`WebmMux`, `DashWriter`, `WebmEncoder`.** `AddFrame` is a frame written through
libwebm with the cluster start it may announce; `EraseChunk` and `Finalize` follow
`WebmMuxWriter`. `EncoderThread` is one action per stage. `WebmEncoder::Init`
always sets `dash_encode` (line 115), so there is a muxer per enabled stream and
`DashEncode` is the only encode function that runs. Either stream may be disabled;
without audio `ReadCompressedAudio` runs on an encoder that was never initialized,
which is undefined: it finds no packet, or the process dies. Samples have no times
here: where `DashEncode` compares audio time with video time, both answers are
allowed, so every property holds for every interleaving of the streams. Names are
sequences of parts: `WriteManifest` gives the templates with
`$RepresentationID$` and `$Number$`, `IdForChunk` the names with their values, as
two functions of the code do that never meet. With an empty `--dash_name` the
`DashWriter` stays uninitialized and the first chunk aborts the process
(`NameFails`).

**`DashEncode`.** The same encode pass with times and without chunks, which do
not influence it. A pass is `EncodeAudioBuffer`, `PeekBeforeAudio`, the audio
loop (`MuxAudio` for `kSuccess`, `NoSamples`, and the two ways to fail,
`AnalysisFails` and `BufferInitFails`), then the video loop of `EncodeVideoFrame`
and `PeekAfterVideo`; captures happen between any two of them. What the loop of
`EncoderThread` does not pass over ends the encode (`thread = "failed"`), with the
state the failing call leaves: `EncodeAudioBufferFails` when the buffer may have left
its pool and started the clock, `MuxAudioFails` when the packets have left the
store and the samples are counted, `EncodeVideoFrameFails` when the frame may have
left its pool, been counted and been remembered as a key frame. `PassFails` and
`EncodeStops` end it between two passes. The offset is computed in an `int`
(`ToInt`, `Abs`), as in the code. A call of
`ReadCompressedAudio` is given a block of any length libvorbis could return
(`Blocks`) or none, so nothing depends on how libvorbis blocks its input. Audio
timestamps follow from the sample count; video timestamps have arbitrary gaps.
`SamplesToMilliseconds` truncates as the code does. What `DashEncode` shares with
`WebmEncoder` is deliberately double: there the streams and their chunks are
exact and the order of times is arbitrary, here it is the other way round, and
one module with both is beyond TLC.

**`MediaType`.** A media type is a record with its format block named by its
owner; the heap is the set of live blocks with those freed twice and those lost.
Every `Init`, `Configure*`, `Attach` and `Copy` is a function from a heap and a
type to a status, a heap and a type, so that an action of `SinkPin` or
`MediaSource` composes the calls in the order of the code, failures included.
`FindMatchingFormat` takes the listed types one after the other; `Compare` is one
turn of its loop, in which the variable `format` frees the type before it takes the
next.

**`SinkPin`.** `Stored` is what `CheckMediaType` leaves in `actual_config_`; it is
reached from `ReceiveConnection`, `QueryAccept` and a sample that announces a new
type. A `Receive` is `ReceiveLock`, one of `ReceiveRefused`, `ReceiveSame`,
`ReceiveTypeChange`, and `OnSampleReceived`, under the filter lock, against
`FilterRun` and `FilterStop`. `ReceiveConnection`, `QueryAccept`, `CheckStreaming`,
`ReceiveTypeChange`, `FilterRun`, `FilterStop` and `Kept` are the DirectShow base
classes, vendored in `src/third_party/directshow/baseclasses`. Two things of them
are left out. A filter passes through a paused state on its way to running;
"running" here is "not stopped", which is all `CheckStreaming` asks. And `m_bFlushing`
stays false: a live source is assumed never to flush. If it did, `CheckStreaming`
would return `S_FALSE`, which `FAILED` does not catch (`win/video_sink_filter.cc:179`),
and a sample would be handed on without a look at its type.

**`MediaSource`.** `Init` of the code is `CreateGraph`, then for video and audio
`CreateSource`, `CreateSink`, and a loop of `Configure`, `TryType` and
`ConnectFails` over the formats with `DefaultFormat` as the last attempt,
`ReadBack`, and at the end `InitGraphControl`; each may fail. `Run` and `Stop`
start and stop the filters one after the other while capture threads run; `Run` may
return before the last filter has started. The encoder thread then waits for a
sample of each stream (`enc = "waiting"`, left by `SamplesArrive` or by a stop),
without a look at the source, and polls it from then on (`enc = "polling"`):
`CheckStatus` reads one event. The devices, their pins and types, and the dialogs
are inputs.

**`EncoderMain`.** Every early return of `EncoderMain`, `StartWriter` and
`StartUploader`, with the destruction of the locals: a joinable `std::thread` in
a destructor ends the process. The sinks are `FifoSink` plus a thread that
returns after a stop; the encoder thread is reduced to its calls of `WriteData`.

## 3. The runs

| Run | Distinct states | What it shows |
|---|---|---|
| `file_writer` | 15,931 | FIFO, drained on exit, `FifoSink` implemented, `Stop` returns from every point where it must |
| `file_writer_stop` | violation | `Stop` may hang (finding 2) |
| `http_uploader` | 789,062 | the same for the HTTP sink, set up completely or not; statistics grow by what was moved in every state a poll can see; the displayed count never goes back; a stop ends a transfer within one unit |
| `pool` | 516,623 | both pools: the growing one of `AudioBuffer`s, the fixed one of `VideoFrame`s that fills up; empty frames, failing allocations and conversions |
| `pool_init` | violation | `Init` after a failed allocation (finding 3) |
| `dash_encode` | 3,587,860 | no negative times, packets and frames once and in order, nothing lost in a failure but what was in hand, key frame spacing, video at most one frame ahead |
| `encoder` | 425,436 | both streams or one: chunks complete, under the names the manifest announces, starting at clusters, under every failure and a stop at any moment; `Stop` returns; devices off |
| `encoder_video_only` | violation | video is never encoded without audio (finding 4) |
| `media_source` | 736,974 | set-up over all fallbacks, capture, stop: samples described by their type, settings agree, format blocks returned, one dialog, callbacks between `Run` and `Stop`, the end noticed by the loop |
| `media_source_blobs` | violation | a format block freed twice (finding 5) |
| `encoder_main` | 865 | sinks agree, nothing undelivered at a successful exit, sinks used as promised |
| `encoder_main_poll` | violation | polling without an uploader (finding 1) |

### Bounds, and why they are enough

* `file_writer`: 5 buffers and 2 spurious wakeups. Each interleaving hazard needs
  one buffer in the queue, one in hand and one being enqueued; five leave room
  for the queue to fill and drain in between. The theorems remove the bound.
* `http_uploader`: 3 buffers (one uploading, one queued, one arriving), 2 units
  each (an upload can stop at the start, in the middle or at the end), 2 polls
  (one comparison of what is shown), 1 spurious wakeup. Statistics without an
  initial value hold 1 or 9, a count that could be meant and one that is larger
  than all that is moved. Counts are integers; that a leftover close to the largest
  `int64` would overflow is ignored.
* `pool`: 2 objects, 5 samples, 2 failures, lengths 1 and 2 (0 too for video). Two
  objects and a third by growth exercise wrap-around of both queues; two lengths
  are what "fits the old capacity, or not" can tell apart; every object is used
  more than once.
* `encoder`: 2 samples per stream, up to 2 vorbis packets waiting, a chunk buffer
  of one element. The stream then has a header, up to two clusters and blocks
  behind both, chunks that are overwritten, read and left to `Finalize`, and a
  chunk buffer that must grow. The name is empty or not; the start number is the
  default, 1, the only one for which the names match (section 6).
* `media_source`: one device type per stream that the sink can describe and one it
  cannot or refuses, so that every question has both answers; three devices of
  which two share a name and one has none; pins of either direction, mixed and
  missing; two waiting events, one of which may hide the other; requested video
  settings or none; dialogs asked for (they may fail, then set-up goes on without).
  Nine formats and the default are the code's own numbers.
* `dash_encode`: 3 samples in 2 ms, so that truncation matters; 2 buffers of 2
  samples, which libvorbis may return as up to 5 packets; 4 frames with gaps of 1 or
  2 ms in a pool of 2 (it fills, frames are refused), an expected frame time of 1
  ms (the estimate may be too early or right); key frame interval 1 (reached by one
  long gap or two short ones); decimation off, and by 2; starts of -2 to 0 ms (neither, one or both
  early, by equal and different amounts), with an `int` of -3 to 2, so that -2 is
  the earliest start whose offset fits; one failure inside `ReadCompressedAudio`, and
  at any point one that ends the encode.
* `encoder_main`: 4 chunks; two sinks that can drift apart by all of them.

### Fairness

Every thread that can take a step eventually takes one (`WF` on each thread's
step). Nothing is assumed of the user, the capture devices, the peer or spurious
wakeups, and the encoder thread need not produce anything; once it is inside a
call it completes it. A thread blocked on a mutex is covered by weak fairness,
since every holder releases after a bounded number of its own steps and none
takes the lock again unboundedly often.

In `MediaSource` the only fairness is that of `CheckStatus`, which is enabled only in
the loop of `EncoderThread` (`webm_encoder.cc:377-415`): it polls the source in every
iteration (line 383), given that every encode pass returns, and ends only by leaving
the state the property speaks of. `WaitForSamples` (lines 717-735), which comes
before the loop, does not poll, and nothing is assumed about its end: `EndNoticed`
says nothing of an event while the thread waits (section 6). Capture threads need
not run at all.

Because of the lost wakeup (finding 2) `Stop` does not return in every
fair behaviour. `StopHonoured` says what remains true, from the control points
at which the thread will look at `stop_` before it can wait: parked, woken,
writing or uploading (even to a peer that never answers, if the progress callback
is set), or about to test the loop condition. `EncoderMain` has no liveness property for the same reason.

`CHECK_DEADLOCK FALSE` is set everywhere: the programs end, a bounded source runs
dry, and `Stop` may hang; the liveness properties say where that must not happen.

Every property has a mutant beside it: an operator named for the bug it plants
(`DequeueBufferNoPop`, `TallyDropsCurrent`, `LoopTopWithoutFinalize`, ...), with
which TLC finds the property violated under the same configuration.

## 4. What is proved

`FileWriterProofs`, for any `MaxBuffers` and `MaxSpurious` in `Nat`
(`BoundsAssumption`, the only assumption):

* `TypeCorrect`: `Spec => []TypeOK`
* `FifoCorrect`: `Spec => []FifoOrder`. What was written, the buffer in hand and
  the queue are the buffers accepted, in order.
* `DrainCorrect`: `Spec => []DrainedOnExit`
* `Refinement`: `Spec => ImplementsFifoSink`

The argument. `DrainedOnExit` is not inductive: that the queue is still empty
after the thread decided to leave needs that nobody pushes any more, and that
follows only from the order in which the program stops its threads. `IInv` adds
what is missing: `ProtocolInv` (who holds which mutex, how far `Stop` has come,
and that the encoder thread has exited before it began), `ExitInv` (the thread
counts the queue, and leaves, only after it saw `stop_`) and `TypeOK`. TLC agreed
with `IInv` before it was proved. `InitIInv` and one lemma per conjunct
(`TypeStep`, `ProtocolStep`, `ExitStep`, `FifoStep`), each with a step per action,
give `Invariance`. For the refinement, `Owed` is the buffer in hand and the
queue; the lemmas of `SequenceLemmas` (`ConsProperties`, `HeadConsTail`,
`ConcatAppend`) say how it changes: a push is an `Accept`, `WriteFile` a `Handle`, the return a
`Close`, and `Dequeue`, which only moves a buffer from the queue into the hand,
a stutter.

What needs `ExitInv` in the refinement is the `Accept`: a sink that has closed
accepts nothing.

`HttpUploaderProofs`, for any bounds (`BoundsAssumption`: `BufferUnits` positive) and
any integers the statistics may hold when nothing has initialized them:

* `TypeCorrect`: `Spec => []TypeOK`
* `StatsCorrect`: `Spec => []StatsAccount`
* `StopCorrect`: `Spec => []StopIsPrompt`
* `ShownCorrect`: `Spec => ShownNeverDecreases`
* `Refinement`: `Spec => ImplementsFifoSink`

`ProtocolInv` and `ExitInv` are those of the file sink with one more user of
`mutex_`. `StopIsPrompt` is not inductive: `LateInv` adds that no unit was moved
since the stop while the upload is between a progress callback and the next unit.
That callback ends the upload only because `StopRequested` finds `mutex_` free:
after `StopFlag` the main thread takes it no more (`ProtocolInv`), and the
uploader's own thread is not waiting. `StatsAccount` is
relative to what the total held when the thread began (`residue`), which is 0 after a
complete set-up; `StopIsPrompt` excludes a set-up without the progress callback, the
only place where a transfer looks at `stop_`, and `ShownNeverDecreases` one that left
the statistics as they were. `StatsAccount` needs `MovedInv`, that nothing
has been moved of a buffer whose upload has not begun; and `ShownInv`, for the
console, needs `StatsAccount`: the published count of the upload in progress is at
most what it has moved, so replacing the one by the other takes nothing away. For
the refinement `CountInv` (handled, in hand and queued are all that was accepted)
gives the number of an `Accept`; every way an upload ends is a `Handle`.

`EncoderMainProofs`, for any `MaxChunks` in `Nat` (`ChunksAssumption`):

* `TypeCorrect`: `Spec => []TypeOK`
* `AgreeCorrect`: `Spec => []SinksAgree`
* `DeliveryCorrect`: `Spec => []DeliveredAtExit`
* `UsageCorrect`: `Spec => SinksUsedAsPromised`, the assumption under which
  `FileWriter` and `HttpUploader` were modelled.

The argument is the order of `EncoderMain`. `SinkInv` says a sink is in
`data_sinks_`, once, exactly when its thread was started, and that it is told to
stop only after the encoder was joined; `EncoderInv` that the encoder runs only
with a sink to write to; `MainInv` how far each control point has come;
`ExitInv` what a return of success implies. `SinksAgree` needs that no sink is in
the list twice (a chunk would be given to it twice), `DeliveredAtExit` that a
thread returned with nothing pending, and `UsageCorrect` that a sink the loop of
`WriteData` has come to still has a running thread (`NextChunk`).
`SinkSimulation` is proved once for any sink and used for both instances of
`FifoSink`.

`BufferPoolProofs`, for any size of the pool, any sample lengths and offset and
any number of samples and failing allocations (`PoolAssumption`: the pool starts
with at least one object):

* `TypeCorrect`: `Spec => []TypeOK`
* `ObjectsCorrect`: `Spec => []ObjectsConserved`
* `SamplesCorrect`: `Spec => []SamplesIntact`
* `PeekCorrect`: `Spec => []PeekedIsNext`
* `SafeCorrect`: `Spec => []PoolIsSafe`

`SamplesIntact` alone is not inductive: if an object were in two places, an
exchange with one of them would change the sample in the other. `Shared` (in
`QueueInv`) says the two queues share out the objects, none of them twice; it is
kept by a move from one queue to the other (`SharedMove`), by growth
(`SharedGrown`) and by any change of an object (`SharedUpdate`). That the pool
never dies needs `StorageInv`: an object of the pool or of the encoder without
storage claims no capacity, so `Clone` always allocates for it. The sink filter's
own object breaks this (a failed allocation leaves its capacity), which is why
`Commit`'s test for storage is needed (`CaptureInv`). `ExchangeOutcome` sums up
`Swap` and `Clone` for both sample types: on success the target holds the sample
whole, on failure the source still does. It needs that an audio sample is not
empty (`Sound`): `Clone` would allocate nothing for one.

`WebmEncoderProofs`, for any number of samples, packets and polls, any name and
any size of the chunk buffer (`EncoderAssumption`):

* `TypeOKHolds`: `Spec => []TypeOK`
* `StreamIntactHolds`: `Spec => []StreamIntact`
* `ChunksStartClustersHolds`: `Spec => []ChunksStartClusters`
* `CompleteOnStopHolds`: `Spec => []CompleteOnStop`
* `SourceStoppedHolds`: `Spec => []SourceStopped`
* `SegmentsAddressableHolds`: `Spec => []SegmentsAddressable`, if the start number
  is 1 and no name is a template
* `StreamsPromisedHolds`: `Spec => StreamsPromised`

None of these is inductive. A chunk begins with a cluster only because the muxer
cut there, maybe many writes earlier, and because what was read before ended
there; so `Muxing` says, for each muxer, that its buffer is the end of the stream
libwebm wrote, that it begins where a chunk may begin, and that so does what lies
behind the chunk end (`Aligned`). `Sent` says the same of the other side: the
chunks the sink has join to the beginning of the stream, each cut and named as it
should be. `WholeUntilOver` says when nothing lies between the two, and when
something may: after a failure, of a stream no chunk follows of. Where a failure
loses something in the middle of an encode, the thread must end before the next
chunk of that stream, so the invariant follows the control points to the end
(`Ended`, `Ending`, `EndReached`). A chunk end that is overwritten before it is read
does no harm because before the streams end it lies strictly inside the buffer
(`CutInside`): chunks merge, but are still cut at a cluster. `SeenStays` shows that
the return which would leave the devices running is never taken: it needs a
stream whose sample was seen and is gone again, and only this thread takes samples.

`StreamsPromisedHolds` is the refinement. `StreamSimulation` has a case for each way a
step treats the stream `m`: a frame makes it longer (`FrameGrows`), a chunk passes or
is lost (`ChunkPasses`, `ChunkStep`), anything else leaves it alone (`NothingNew`).
Every change of a stream needs that it is not over, which comes from
`WholeUntilOver` and from the control points: a frame is written only before the
streams end, and a chunk only while nothing lies between sink and muxer. That a
chunk which is not the last ends at a cluster is `Aligned` again, used before
the step for what lies behind the chunk end. It needs no hypothesis on names.
No run checks this property: comparing each of the steps of `encoder` with
`LiveStream` takes TLC several times as long as the run. `StreamIntact` and
`ChunksStartClusters`, which the run does check, are its parts that concern a single
state.

The hypotheses of `SegmentsAddressableHolds` are those the property needs:
`IdForChunk` counts from 1 whatever `--dash_start_number` says (its default is 1,
`webm_encoder.h:49`; see section 6), and a `--dash_name` that contains `$Number$` would
be filled in by the player.

`DashEncodeProofs`, for any sample rate and buffer size, size of the video pool,
expected frame time, key frame interval, decimation, gaps of the streams, number of
samples and failures (`DashAssumption`), and any start of the streams that is later
than the smallest `int` (`StartAssumption`; 24 days before the call of `Run`):

* `TypeOKHolds`: `Spec => []TypeOK`
* `NoNegativeTimesHolds`: `Spec => []NoNegativeTimes`
* `PacketsIntactHolds`: `Spec => []PacketsIntact`
* `FramesIntactHolds`: `Spec => []FramesIntact`
* `KeyframeSpacingHolds`: `Spec => []KeyframeSpacing`
* `VideoAheadByOneHolds`: `Spec => []VideoAheadByOne`

The inductive invariant (`InvHolds`) has two parts. `IInv` holds as long as the encode
goes on; `Failed` says what a failure that ends it leaves: only the capture threads
go on, `PacketsIntact` has lost no more than the packets of one call (one packet,
unless a read failed before) and `FramesIntact` no more than the frame in hand. Each
action that can fail has its lemma for both outcomes.

`NoNegativeTimes` speaks of the samples in the pools, the offset of the first of each
stream: `Fresh` says nothing leaves a pool before the offset is computed, so the
first sample is still there, `Delivered` and `Accepted` that no later one is earlier,
`OffsetEnough` that the offset makes up for it: a first time that fits an `int` is not
changed by the conversion and has an absolute value (`Earliness`). An earlier one
would give an offset that makes up for nothing. `FramesIntact` is about a quotient;
`Muxed` states it as two inequalities that one more frame keeps or moves on.
`KeyframeSpacing` needs that the time `VpxEncoder` remembers is that of a key frame
that was muxed (`Keys`), whether it was forced or libvpx chose it. For
`VideoAheadByOne`, `CaughtUp` carries the frame muxed last through the audio loop:
whatever estimate the pass uses is no smaller than the time of that frame, so when
the loop ends because audio has passed the estimate, it has passed the frame; and
when it ends because vorbis ran dry, the video loop is not entered.

`MediaSourceProofs`, for any types the devices offer, devices, pins, requested
settings, dialog options and events (`StreamsAssumption`, and `OffersAssumption`:
an offered type has the fields of a media type and a block of the device's, or
none):

* `TypeOKHolds`: `Spec => []TypeOK`
* `SamplesDescribedHolds`: `Spec => []SamplesDescribed`
* `ConfigsAgreeHolds`: `Spec => []ConfigsAgree`
* `DialogsOnceHolds`: `Spec => []DialogsOnce`
* `BlobsReturnedHolds`: `Spec => []BlobsReturned`, if `InfoOffered`
* `Refinement`: `Spec => CallbacksOnlyWhileRunning`

`Described` relates what is known in four places, the connection, the type of the
samples that flow, what the sink pin remembers and what was read back: whoever is
connected was accepted, and unless another type was asked about since, the sink pin
remembers the settings of the type that flows. That the set-up never sees a question
asked (`enc = "none"`) is what makes the two copies of the settings agree.
`Threads` says which capture threads can be inside a filter at each point of the
encoder thread; the refinement uses it where a callback begins (`"accepted"` only
while the filter runs), where the last filter is stopped, and where the encoder
thread gives up waiting before any filter has started. `Asked` follows
the dialogs over the loop: they are off before the first attempt ends, and the
audio ones were not shown while video is set up. `Blocks` names the blocks that
are live between two actions, those of the type a connection is being tried with,
and `HeapOK` is kept by each function of `MediaType`, shown once per function.

`BlobsReturnedHolds` has a hypothesis that is needed, `InfoOffered`: video devices
offer only types with a `VIDEOINFOHEADER` (`"info"`), audio devices no ksproxy type
(`"ks"`), as in the run. With other offers TLC finds the property violated.
`FreeMediaTypeData` never frees the block of a ksproxy type, on purpose (its comment
speaks of crashes), and a frame without a stop time copies the connection's type
into a `VideoMediaType` (`win/video_sink_filter.cc:307`); if that cannot take it over,
the block of the copy is left behind, once per frame. The other theorems do not
need the hypothesis.

The proofs of the encoder and of the times need facts about joining sequences
(`FlattenSeq`), and that of the capture graph follows `FindMatchingFormat` over a list
of types of any length (the action lists at most two). These are inductions, which
the provers do not do. `SetInduction` obtains them from the least number that is not
in a set (`LeastNat`), and the recursion in the model is a function, `after`,
rather than a `RECURSIVE` operator.

## 5. What is only model-checked

The liveness properties: `StopHonoured` (file and HTTP sink), `StopReturns` (encoder)
and `EndNoticed` (capture graph). Fairness and `ENABLED` are out of the prover's reach.
All other properties of the passing runs, invariants, action properties and
refinements, are theorems, two of them under hypotheses that the runs satisfy and
section 4 explains (`SegmentsAddressable`, `BlobsReturned`). The runs remain what shows that the interesting cases
happen, and what the violations of section 6 rest on.

## 6. Findings

1. **`--disable_http_upload` crashes** (`encoder_main.cc:513`, run
   `encoder_main_poll`). The polling loop asks the uploader for statistics
   although it was never initialized; `GetStats` dereferences NULL. The usage
   text (line 61) offers the switch.
2. **`FileWriter::Stop` can hang** (`file_writer.cc:85`, run `file_writer_stop`).
   A notification between the empty dequeue and the wait is lost. `file_writer.h`
   line 38 says `Stop` "Blocks until thread stops".
3. **`AudioBuffer::Init` after a failed allocation copies through NULL**
   (`audio_encoder.cc:40`, run `pool_init`); `VideoFrame::Init` has the same order
   of assignments.
4. **`--adisable` encodes nothing** (`webm_encoder.cc:612`, run
   `encoder_video_only`). `DashEncode` enters its video loop only if the status of
   `ReadCompressedAudio` is not `BufferPool::kEmpty`. Without audio the vorbis encoder
   answers `kNoSamples`, which has the same value, in every pass: the frame pool
   fills and nothing is written. The usage text (line 100) offers the switch.
5. **`VideoMediaType` frees what it does not own** (`win/media_type_dshow.cc:181`, run
   `media_source_blobs`). `Init` from another type copies the pointer over the block
   it just allocated, which is lost; the destructor frees the caller's block, and
   the caller frees it again. `win/media_type_dshow.h:66-67` says the class "Always
   allocates internal storage". `BlobsReturned` shows that all other blocks, on
   every path, are freed exactly once.

Noticed on the way, without a run:

* `AudioBuffer::Swap` (`audio_encoder.cc:80`) assigns its timestamp to the other
  object's `duration_` instead of its `timestamp_`, against `audio_encoder.h:72`
  ("Swaps |AudioBuffer| member data"). Harmless, as `SamplesIntact` shows: every
  stale time is overwritten before it is read.
* `DashEncode` compares the status of `ReadCompressedAudio` with
  `BufferPool::kEmpty` (`webm_encoder.cc:612`); `kNoSamples` has the same value, so
  the video loop is skipped whenever vorbis runs dry. In the model this is what
  `NoSamples` does. With audio it keeps video from running ahead
  (`VideoAheadByOne`), but a frame that is due can wait for a later pass; without
  audio it is finding 4.
* `HttpUploaderImpl::Init` returns false on every path (`http_uploader.cc:236-268`), and
  `HttpUploader::Init` (line 179) takes that for success: a missing target URL, a failed
  `curl_easy_init` and a refused option all count as success. The thread then runs
  without a handle, so that every upload fails, or without the callback that was
  refused; without the progress callback a stop does not end a transfer. The
  statistics are reset only at the end of `Init` and the constructor does not set
  them: the main thread shows what happens to be there.
* `WaitForSamples` (`webm_encoder.cc:717`) does not poll the source: when the capture
  is aborted before each stream has delivered a sample, nothing notices until the
  user stops the program.
* The offset of a stream that starts early is computed by
  `std::abs(static_cast<int>(...))` of a 64-bit time (`webm_encoder.cc:758-765`); it is
  right for any start later than 24 days before `Run`.
* The uploader has the lost wakeup of finding 2, too (`http_uploader.cc:534`): a
  chunk can wait in the queue until the next one, or the stop, wakes the thread.
* `webm_mux.h:53` says only the first chunk is metadata and all others are clusters.
  A second cluster that starts in the pass that wrote the header overwrites the
  chunk end nobody has read (`webm_mux.cc:130`), and chunk 0 is both.
* `vorbis_encoder.cc:326`: after a failed `AudioBuffer::Init` the next call returns the
  stored packets but may take the clock from a packet it did not get; time then
  goes back. `DashEncode` passes over the failure.
* `--dash_start_number` changes the manifest (`dash_writer.cc:145`), but `IdForChunk`
  counts from 1 whatever it is (line 252): with any other number
  `SegmentsAddressable` fails. With an empty `--dash_name`, `DashWriter::Init` fails,
  which is only logged (`webm_encoder.cc:360`), and the first chunk aborts.
* Capture graph: a manual configuration the sink refuses uses up format 0, so I420
  is not tried automatically. Of two devices with the same name the index always
  selects the first. `AudioSinkPin::GetMediaType` reads past the end of
  `kInputSubTypes` for index 2. A question (`QueryAccept`) overwrites
  `actual_config_` without the lock. A video type without a readable header is
  accepted and leaves the previous description in place. `EC_DEVICE_LOST` does not
  end the capture. The results of reading the settings back are not checked, so
  `Init` may succeed with zeros. The destructor calls `CoUninitialize` also when
  `CoInitialize` was refused.
* After a stop the uploader drains its queue through `Upload`, whose first
  progress callback aborts: the final chunks of a recording are not sent
  (`StopIsPrompt` is the other side of it).
* An error ends the encoder thread without telling the main thread, which keeps
  polling until a key is pressed. A chunk the data sink has no memory for is
  already erased from the muxer.
* An early return of `EncoderMain` after a sink has started destroys a joinable
  `std::thread` (in the model: `crashed = "terminate"`).
* `audio_encoder.h:104` says returning false from the callback terminates sample
  delivery; `win/audio_sink_filter.cc:299-302` logs and goes on.
* `WaitForSamples`' failure path, on which the media source is not stopped, is
  unreachable (`SourceStoppedHolds`).

## 7. What is not modelled, and the plan

Not modelled: file names and bytes, HTTP headers and form fields, the parsing of
the command line, the text of the manifest around the templates, the tables of
codec settings (`VpxEncoder::Init`, `VorbisEncoder::Init`: calls of libvpx and
libvorbis in sequence), the lists of devices for the usage text, `time_util`
(formatting), `LockableBuffer` (unused), the test server (stands for the peer),
the other vendored libraries (external), and the encode functions `Init` never selects.

The order so far was: sinks first, where the threads are; then pools, muxers and
encoder thread; then the program around them; then the times of the
samples; then the capture graph, the manifest and encodes of one stream. Next:

1. `encoded_duration`: what `ReadEncodedDuration` shows while frames are encoded
   (it is updated only when the lock is free), and losses before audio is counted.
2. The set-up of the codecs as far as state depends on it: the vorbis header
   packets, the tracks of the muxers.
3. Proofs: that `WebmEncoder` uses its source only as `CaptureSource` promises, as
   `EncoderMain` is shown to do with `FifoSink`; how many packets
   `ReadCompressedAudio` may leave behind after a failure.
