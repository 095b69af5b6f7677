------------------------------ MODULE SinkPin ------------------------------
(***************************************************************************)
(* The sink filters at the end of the capture graph: VideoSinkPin and      *)
(* VideoSinkFilter (encoder/win/video_sink_filter.cc), AudioSinkPin and    *)
(* AudioSinkFilter (encoder/win/audio_sink_filter.cc), one per stream,     *)
(* with the parts of the DirectShow base classes they call, which are      *)
(* vendored (third_party/directshow/baseclasses).                          *)
(*                                                                         *)
(* CheckMediaType is both a question and an assignment: whoever asks       *)
(* whether a type would do leaves it in actual_config_, which describes    *)
(* the frames handed to the encoder. It is called when a connection is     *)
(* attempted, when the upstream filter asks QueryAccept, and for a sample  *)
(* that announces a new type.                                              *)
(*                                                                         *)
(* A stream's capture thread is "idle", "locked" (Receive holds            *)
(* filter_lock_) or "accepted" (the base class let the sample through and  *)
(* OnFrameReceived or OnSamplesReceived runs, still under the lock).       *)
(***************************************************************************)
EXTENDS MediaType, Integers, FiniteSets

CONSTANTS
  Offers,     \* Offers[s]: the media types the source of s can propose
  NoConfig,   \* the configuration of a sink pin nothing was checked on
  MaxEvents   \* bound of the model on the events waiting in the graph

Streams == DOMAIN Offers

VARIABLES
  config,     \* config[s]: actual_config_ of the sink pin of s
  conn,       \* conn[s]: the type the pin was connected with, m_mt
  flow,       \* flow[s]: the type of the samples the source is sending
  asked,      \* asked[s]: a type other than flow[s] was stored since
  state,      \* state[s]: m_State of the filter, "stopped" or "running"
  rterr,      \* rterr[s]: m_bRunTimeError
  lock,       \* lock[s]: filter_lock_, "free" or "capture"
  cap,        \* cap[s]: the capture thread
  events,     \* the event queue of the filter graph
  heap        \* the format blocks of the process

pinVars == <<config, conn, flow, asked, state, rterr, lock, cap>>

SinkInit ==
  /\ config = [s \in Streams |-> NoConfig]
  /\ conn = [s \in Streams |-> NoMediaType]
  /\ flow = [s \in Streams |-> NoMediaType]
  /\ asked = [s \in Streams |-> FALSE]
  /\ state = [s \in Streams |-> "stopped"]
  /\ rterr = [s \in Streams |-> FALSE]
  /\ lock = [s \in Streams |-> "free"]
  /\ cap = [s \in Streams |-> "idle"]
  /\ events = <<>>
  /\ heap = EmptyHeap

-----------------------------------------------------------------------------
(***************************************************************************)
(* VideoSinkPin::AcceptableSubType and AudioSinkPin::kInputSubTypes.       *)
(***************************************************************************)
AcceptableSubType(s) ==
  IF s = "video" THEN {"I420", "YV12", "YUY2", "YUYV", "UYVY", "RGB", "RGBA"}
                 ELSE {"IEEE_FLOAT", "PCM"}

(***************************************************************************)
(* BitmapInfo and FourCCToVideoFormat: the video settings can be read.     *)
(***************************************************************************)
BitmapInfo(type) == type.fmt = "info" /\ type.blob # NoBlob /\ type.hdr

(***************************************************************************)
(* CheckMediaType's verdict. A video type with an acceptable subtype and   *)
(* no readable header is accepted all the same; an audio type without one  *)
(* fails AudioMediaType::Init or the test of the format tag.               *)
(***************************************************************************)
Accepts(s, type) ==
  /\ type.major = s
  /\ type.sub \in AcceptableSubType(s)
  /\ s = "audio" => type.fmt = "wave" /\ type.blob # NoBlob /\ type.hdr

(* Mutant: a refused type is stored as well. *)
StoredAnyway(s, type, was) ==
  IF s = "video" => BitmapInfo(type) THEN type.config ELSE was

(***************************************************************************)
(* actual_config_ after CheckMediaType.                                    *)
(***************************************************************************)
Stored(s, type, was) ==
  IF Accepts(s, type) /\ (s = "video" => BitmapInfo(type))
    THEN type.config
    ELSE was

(***************************************************************************)
(* The blocks CheckMediaType uses on behalf of a caller that allocates the *)
(* type it asks about and frees it afterwards: the audio pin reads the     *)
(* settings through an AudioMediaType of its own.                          *)
(***************************************************************************)
CheckHeap(s, type, h) ==
  LET lent == CoTaskMemAlloc(h, "offered")
      own  == [type EXCEPT !.blob = "offered"]
      copy == AudioInitFrom(lent, "checked", TRUE, own)
      read == IF s = "audio" /\ type.major = s
                             /\ type.sub \in AcceptableSubType(s)
                THEN FreeMediaType(copy.heap, copy.type)
                ELSE lent
  IN IF type.blob = NoBlob THEN h ELSE FreeMediaType(read, own)

(***************************************************************************)
(* GetMediaType: the type the pin proposes for an index, NoMediaType past  *)
(* the last. A video type has a header with no sizes, an audio type no     *)
(* format block; audio index 2 reads kInputSubTypes past its end.          *)
(***************************************************************************)
GetMediaType(s, index) ==
  IF s = "video"
    THEN IF index > 1 THEN NoMediaType
         ELSE [major |-> "video", sub |-> <<"I420", "YV12">>[index + 1],
               fmt |-> "info", hdr |-> TRUE, config |-> NoConfig,
               blob |-> "device"]
    ELSE IF index > 2 THEN NoMediaType
         ELSE [major |-> "audio",
               sub |-> <<"IEEE_FLOAT", "PCM", "beyond">>[index + 1],
               fmt |-> "wave", hdr |-> FALSE, config |-> NoConfig,
               blob |-> NoBlob]

(***************************************************************************)
(* The types a connection attempt may run through: a complete type is the  *)
(* only candidate; a partial type, or none, lets the pins try every type   *)
(* the source offers or the sink proposes that agrees with it.             *)
(***************************************************************************)
Candidates(s, wanted) ==
  IF wanted # NoMediaType /\ wanted.fmt # "null" THEN {wanted}
  ELSE LET proposed == {GetMediaType(s, i) : i \in 0..3} \ {NoMediaType}
       IN {t \in Offers[s] \cup proposed :
             wanted # NoMediaType => t.sub = wanted.sub}

\* CMediaType's assignment: the graph keeps types in blocks of its own.
Kept(type) ==
  IF type.blob = NoBlob THEN type ELSE [type EXCEPT !.blob = "device"]

(***************************************************************************)
(* CBasePin::ReceiveConnection under the filter lock: CheckMediaType, then *)
(* SetMediaType and CompleteConnect, which may fail. What CheckMediaType   *)
(* stored stays when the attempt fails.                                    *)
(***************************************************************************)
ReceiveConnection(s, type, completes) ==
  LET ok == Accepts(s, type) /\ completes
  IN /\ conn[s] = NoMediaType
     /\ state[s] = "stopped"
     /\ lock[s] = "free"
     /\ config' = [config EXCEPT ![s] = Stored(s, type, @)]
     /\ conn' = [conn EXCEPT ![s] = IF ok THEN Kept(type) ELSE @]
     /\ flow' = [flow EXCEPT ![s] = IF ok THEN Kept(type) ELSE @]
     /\ heap' = CheckHeap(s, type, heap)
     /\ UNCHANGED <<asked, state, rterr, lock, cap, events>>

(***************************************************************************)
(* CBasePin::QueryAccept: CheckMediaType without the filter lock. The      *)
(* capture thread asks between two samples, whatever it then does.         *)
(***************************************************************************)
QueryAccept(s, type) ==
  /\ conn[s] # NoMediaType
  /\ cap[s] = "idle"
  /\ config' = [config EXCEPT ![s] = Stored(s, type, @)]
  /\ asked' = [asked EXCEPT ![s] =
                 @ \/ (Accepts(s, type) /\ type # flow[s])]
  /\ heap' = CheckHeap(s, type, heap)
  /\ UNCHANGED <<conn, flow, state, rterr, lock, cap, events>>

(***************************************************************************)
(* Receive takes the filter lock.                                          *)
(***************************************************************************)
ReceiveLock(s) ==
  /\ conn[s] # NoMediaType
  /\ cap[s] = "idle"
  /\ lock[s] = "free"
  /\ lock' = [lock EXCEPT ![s] = "capture"]
  /\ cap' = [cap EXCEPT ![s] = "locked"]
  /\ UNCHANGED <<config, conn, flow, asked, state, rterr, events, heap>>

(* Mutant: an error path returns without the unlock. *)
KeepLocked(s) ==
  /\ cap' = [cap EXCEPT ![s] = "idle"]
  /\ UNCHANGED lock

Unlock(s) ==
  /\ lock' = [lock EXCEPT ![s] = "free"]
  /\ cap' = [cap EXCEPT ![s] = "idle"]

(* Mutant: only a run-time error makes Receive refuse. *)
CheckError(s) == ~rterr[s]

(***************************************************************************)
(* CBaseInputPin::Receive refuses the sample: the filter is stopped or has *)
(* had a run-time error, and Receive returns the error. A live source does *)
(* not flush (BeginFlush): m_bFlushing, for which CheckStreaming returns   *)
(* S_FALSE and the sink's Receive would hand the sample on without a look  *)
(* at its type, stays FALSE.                                               *)
(***************************************************************************)
CheckStreaming(s) == state[s] # "stopped" /\ ~rterr[s]

ReceiveRefused(s) ==
  /\ cap[s] = "locked"
  /\ ~CheckStreaming(s)
  /\ Unlock(s)
  /\ UNCHANGED <<config, conn, flow, asked, state, rterr, events, heap>>

(***************************************************************************)
(* CBaseInputPin::Receive lets through a sample of the type in use.        *)
(***************************************************************************)
ReceiveSame(s) ==
  /\ cap[s] = "locked"
  /\ CheckStreaming(s)
  /\ cap' = [cap EXCEPT ![s] = "accepted"]
  /\ UNCHANGED <<config, conn, flow, asked, state, rterr, lock, events, heap>>

(***************************************************************************)
(* CBaseInputPin::Receive of a sample marked AM_SAMPLE_TYPECHANGED: the    *)
(* type is checked; a refusal is a run-time error that aborts the graph.   *)
(***************************************************************************)
ReceiveTypeChange(s, type) ==
  /\ cap[s] = "locked"
  /\ CheckStreaming(s)
  /\ heap' = CheckHeap(s, type, heap)
  /\ \/ /\ Accepts(s, type)
        /\ config' = [config EXCEPT ![s] = Stored(s, type, @)]
        /\ flow' = [flow EXCEPT ![s] = type]
        /\ asked' = [asked EXCEPT ![s] = FALSE]
        /\ cap' = [cap EXCEPT ![s] = "accepted"]
        /\ UNCHANGED <<rterr, lock, events>>
     \/ /\ ~Accepts(s, type)
        /\ Len(events) < MaxEvents
        /\ rterr' = [rterr EXCEPT ![s] = TRUE]
        /\ events' = Append(events, "ERRORABORT")
        /\ Unlock(s)
        /\ UNCHANGED <<config, flow, asked>>
  /\ UNCHANGED <<conn, state>>

(***************************************************************************)
(* OnFrameReceived and OnSamplesReceived: the sample, described by         *)
(* actual_config_, is handed to the callback, and Receive returns. A video *)
(* sample without a stop time is timed from the connection's media type,   *)
(* which a VideoMediaType takes over and frees; a type it cannot take over *)
(* drops the frame, and its block is never freed.                          *)
(***************************************************************************)
OnSampleReceived(s, stopTime) ==
  LET copied == CoTaskMemAlloc(heap, "connected")
      own    == [conn[s] EXCEPT !.blob = "connected"]
      format == VideoInitFrom(copied, "timed", TRUE, own)
  IN /\ cap[s] = "accepted"
     /\ s = "audio" \/ conn[s].blob = NoBlob => stopTime
     /\ heap' = IF stopTime THEN heap
                ELSE IF format.ok THEN FreeMediaType(format.heap, format.type)
                ELSE format.heap
     /\ Unlock(s)
     /\ UNCHANGED <<config, conn, flow, asked, state, rterr, events>>

(***************************************************************************)
(* CBaseFilter::Run and Stop of the sink filter, under the filter lock:    *)
(* Inactive clears the pin's run-time error. The paused state a filter     *)
(* passes through is one in which it is not stopped: "running".            *)
(***************************************************************************)
FilterRun(s) ==
  /\ lock[s] = "free"
  /\ state' = [state EXCEPT ![s] = "running"]
  /\ UNCHANGED <<config, conn, flow, asked, rterr, lock, cap, events, heap>>

FilterStop(s) ==
  /\ lock[s] = "free"
  /\ state' = [state EXCEPT ![s] = "stopped"]
  /\ rterr' = [rterr EXCEPT ![s] = FALSE]
  /\ UNCHANGED <<config, conn, flow, asked, lock, cap, events, heap>>

(***************************************************************************)
(* What a capture thread does in a graph that has been built.              *)
(***************************************************************************)
CaptureStep(s) ==
  \/ ReceiveLock(s)
  \/ ReceiveRefused(s)
  \/ ReceiveSame(s)
  \/ \E type \in Offers[s] \ {flow[s]} : ReceiveTypeChange(s, type)
  \/ \E type \in Offers[s] : QueryAccept(s, type)
  \/ \E stopTime \in BOOLEAN : OnSampleReceived(s, stopTime)

=============================================================================
