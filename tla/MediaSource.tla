---------------------------- MODULE MediaSource ----------------------------
(***************************************************************************)
(* MediaSourceImpl (encoder/win/media_source_dshow.cc): the DirectShow     *)
(* graph that captures audio and video. The main thread builds the graph   *)
(* (Init), the encoder thread runs it, polls it and stops it (Run,         *)
(* CheckStatus, Stop), and each sink filter of SinkPin is called by the    *)
(* capture thread of its stream.                                           *)
(*                                                                         *)
(* Init handles video, then audio: the source device is found and created, *)
(* the sink filter created, their pins found, and the pins connected. For  *)
(* video the connection is tried with every VideoFormat in turn, then with *)
(* the source's default format; for audio with the requested settings,     *)
(* then with the default format.                                           *)
(***************************************************************************)
EXTENDS SinkPin

CONSTANTS
  Devices,     \* Devices[s]: the friendly names the enumerator lists, ""
               \* for a device without one
  DeviceNames, \* the device names a user may give, "" for none
  SourcePins,  \* the pins a source may have, in enumeration order
  Requests,    \* Requests[s]: what the user may ask of the settings of s:
               \* "none", "partial" (some missing) or a configuration
  GraphEvents, \* the events a device or the graph manager may report
  Manual       \* Manual[s]: the values of the manual configuration option

ASSUME StreamsAssumption ==
  /\ Streams = {"video", "audio"}
  /\ {DOMAIN Devices, DOMAIN Requests, DOMAIN Manual} = {Streams}

ASSUME OffersAssumption ==
  /\ \A s \in Streams : \A t \in Offers[s] :
       t \in [major : STRING, sub : STRING, fmt : STRING, hdr : BOOLEAN,
              config : {t.config}, blob : {"device", NoBlob}]
  /\ \A s \in Streams : Manual[s] \subseteq BOOLEAN
  /\ MaxEvents \in Nat

VARIABLES
  step,        \* where the main thread is
  stream,      \* the stream being set up
  index,       \* the loop variable of the connection attempts
  enabled,     \* the streams that are not disabled
  requested,   \* requested_audio_config_, requested_video_config_
  manual,      \* ui_opts_.manual_video_config, .manual_audio_config
  dialogs,     \* how often the configuration dialogs were shown (history)
  shared,      \* audio_from_video_source_
  source,      \* the device behind video_source_ and audio_source_, or 0
  accepted,    \* accepted_type of the connection being tried
  actual,      \* actual_video_config_ and actual_audio_config_
  enc,         \* the encoder thread's use of the source
  com          \* CoInitialize calls minus CoUninitialize calls per thread

initVars == <<step, stream, index, enabled, requested, manual, dialogs,
              shared, source, accepted, actual>>
sinkVars == <<pinVars, events, heap>>
vars == <<initVars, sinkVars, enc, com>>

(***************************************************************************)
(* enum VideoFormat, in the order the connection loop runs through it.     *)
(***************************************************************************)
VideoFormats == <<"I420", "VP8", "YV12", "YUY2", "YUYV", "UYVY", "RGB",
                  "RGBA", "VP9">>

\* The value of index at which the source's default format is tried.
DefaultIndex(s) == IF s = "video" THEN Len(VideoFormats) ELSE 1

Init ==
  /\ SinkInit
  /\ step = "start"
  /\ stream = "video"
  /\ index = 0
  /\ enabled \in (SUBSET Streams) \ {{}}
  /\ \E video \in Requests["video"], audio \in Requests["audio"] :
       requested = [s \in Streams |-> IF s = "video" THEN video ELSE audio]
  /\ \E video \in Manual["video"], audio \in Manual["audio"] :
       manual = [s \in Streams |-> IF s = "video" THEN video ELSE audio]
  /\ dialogs = [s \in Streams |-> 0]
  /\ shared = FALSE
  /\ source = [s \in Streams |-> 0]
  /\ accepted = NoMediaType
  /\ actual = [s \in Streams |-> NoConfig]
  /\ enc = "none"
  /\ com = [main |-> 0, encoder |-> 0]

-----------------------------------------------------------------------------
(***************************************************************************)
(* CaptureSourceLoader: FindAllSources maps indices to the names of the    *)
(* devices that have one; GetSource binds the first device of that name.   *)
(***************************************************************************)
FindAllSources(devices) == SelectSeq(devices, LAMBDA name : name # "")

GetSourceName(sources, i) ==
  IF i < Len(sources) THEN sources[i + 1] ELSE ""

GetSource(devices, name) ==
  LET found == {d \in DOMAIN devices : devices[d] = name}
  IN IF name = "" \/ found = {} THEN 0
     ELSE CHOOSE d \in found : \A e \in found : d <= e

(***************************************************************************)
(* PinInfo: the pin has that direction and offers a type of that major     *)
(* type.                                                                   *)
(***************************************************************************)
PinMatches(pin, direction, major) ==
  pin.direction = direction /\ major \in pin.majors

(***************************************************************************)
(* PinFinder::FindAudioOutputPin and its siblings with index 0: the first  *)
(* pin that matches, 0 when the enumeration ends before.                   *)
(***************************************************************************)
FindPin(pins, direction, major) ==
  LET found == {p \in DOMAIN pins : PinMatches(pins[p], direction, major)}
  IN IF found = {} THEN 0 ELSE CHOOSE p \in found : \A q \in found : p <= q

-----------------------------------------------------------------------------
(***************************************************************************)
(* Init returns an error: WebmEncoder::Init gives up.                      *)
(***************************************************************************)
InitFails(at) ==
  /\ step = at
  /\ step' = "failed"
  /\ UNCHANGED <<stream, index, enabled, requested, manual, dialogs, shared,
                 source, actual>>

(***************************************************************************)
(* CoInitialize and CreateGraph. A refused CoInitialize is not counted,    *)
(* and the destructor uninitializes all the same.                          *)
(***************************************************************************)
CreateGraph ==
  /\ \/ /\ step = "start"
        /\ step' = "source"
        /\ stream' = IF "video" \in enabled THEN "video" ELSE "audio"
        /\ com' = [com EXCEPT !.main = @ + 1]
        /\ UNCHANGED <<index, enabled, requested, manual, dialogs, shared,
                       source, actual>>
     \/ InitFails("start") /\ com' \in {com, [com EXCEPT !.main = @ + 1]}
  /\ UNCHANGED <<accepted, sinkVars, enc>>

(***************************************************************************)
(* CreateVideoSource and CreateAudioSource, with the name or the index the *)
(* user gave. Audio is taken from the video source when that has an audio  *)
(* output pin.                                                             *)
(***************************************************************************)
CreateSource ==
  /\ step = "source"
  /\ \/ \E pins \in SourcePins :
          /\ stream = "audio" /\ "video" \in enabled
          /\ FindPin(pins, "output", "video") # 0
          /\ FindPin(pins, "output", "audio") # 0
          /\ source' = [source EXCEPT !["audio"] = source["video"]]
          /\ shared' = TRUE
     \/ \E name \in DeviceNames, i \in 0..Len(Devices[stream]) :
          LET sources == FindAllSources(Devices[stream])
              chosen  == IF name = "" THEN GetSourceName(sources, i) ELSE name
          IN /\ sources # <<>>
             /\ GetSource(Devices[stream], chosen) # 0
             /\ source' = [source EXCEPT ![stream] =
                             GetSource(Devices[stream], chosen)]
             /\ UNCHANGED shared
  /\ step' = "sink"
  /\ UNCHANGED <<stream, index, enabled, requested, manual, dialogs,
                 accepted, actual, sinkVars, enc, com>>

CreateSourceFails ==
  /\ InitFails("source")
  /\ UNCHANGED <<accepted, sinkVars, enc, com>>

(***************************************************************************)
(* CreateVideoSink and CreateAudioSink, then the pins of both filters: the *)
(* source's first output pin of the stream, the sink's only pin.           *)
(***************************************************************************)
SinkPins(s) == <<[direction |-> "input",
                  majors |-> {GetMediaType(s, 0).major}]>>

CreateSink ==
  /\ \/ /\ step = "sink"
        /\ \E pins \in SourcePins : FindPin(pins, "output", stream) # 0
        /\ FindPin(SinkPins(stream), "input", stream) # 0
        /\ step' = "configure"
        /\ index' = 0
        /\ UNCHANGED <<stream, enabled, requested, manual, dialogs, shared,
                       source, actual>>
     \/ InitFails("sink")
  /\ UNCHANGED <<accepted, sinkVars, enc, com>>

-----------------------------------------------------------------------------
(***************************************************************************)
(* PinFormat::format returns the source pin's type in a block the caller   *)
(* owns, or NULL.                                                          *)
(***************************************************************************)
PinFormats(s) ==
  {[t EXCEPT !.blob = "formatter"] :
      t \in {u \in Offers[s] : u.blob # NoBlob}} \cup {NoMediaType}

AttachFormat(h, type) ==
  Attach(IF type = NoMediaType THEN h ELSE CoTaskMemAlloc(h, "formatter"),
         NoMediaType, type)

(***************************************************************************)
(* DoManualFilterConfiguration shows the dialogs, and succeeds when the    *)
(* pin has a type afterwards.                                              *)
(***************************************************************************)
ManualConfiguration ==
  \E type \in PinFormats(stream) :
    LET held == AttachFormat(heap, type)
    IN /\ held.ok
       /\ accepted' = held.type
       /\ heap' = held.heap
       /\ step' = "connect"
       /\ UNCHANGED index

(***************************************************************************)
(* A configuration attempt fails: the video loop goes on with the next     *)
(* format, and what was tried last is followed by the default format.      *)
(***************************************************************************)
NextAttempt(h) ==
  /\ index' = index + 1
  /\ step' = IF index + 1 = DefaultIndex(stream) THEN "default"
                                                 ELSE "configure"
  /\ accepted' = NoMediaType
  /\ heap' = h

(***************************************************************************)
(* ConfigureVideoSource after the dialogs: with requested settings a       *)
(* complete type is set on the pin and the pin's type read back; without,  *)
(* a partial type naming only the subtype is copied. mem and works say     *)
(* whether the allocation, and then set_format or the copy, succeed.       *)
(***************************************************************************)
ConfigureVideo ==
  \E mem \in BOOLEAN, works \in BOOLEAN, type \in PinFormats("video") :
    LET request  == requested["video"]
        sub      == VideoFormats[index + 1]
        fresh    == VideoInit(heap, "format", mem, NoConfig)
        complete == ConfigureSubType(fresh.heap, fresh.type, sub, request,
                                     request # "partial")
        partial  == ConfigurePartialType(fresh.heap, fresh.type, sub)
        full     == AttachFormat(complete.heap, type)
        bare     == Copy(partial.heap, NoMediaType, partial.type, "copy", works)
        Done(held, local) ==
          LET left == FreeMediaType(held.heap, local)
          IN IF held.ok THEN /\ accepted' = held.type
                             /\ heap' = left
                             /\ step' = "connect"
                             /\ UNCHANGED index
                        ELSE NextAttempt(left)
    IN \/ ~fresh.ok /\ NextAttempt(fresh.heap)
       \/ /\ fresh.ok /\ request # "none"
          /\ IF complete.ok /\ works
               THEN Done(full, complete.type)
               ELSE NextAttempt(FreeMediaType(complete.heap, complete.type))
       \/ /\ fresh.ok /\ request = "none"
          /\ IF partial.ok
               THEN Done(bare, partial.type)
               ELSE NextAttempt(FreeMediaType(partial.heap, partial.type))

(***************************************************************************)
(* ConfigureAudioSource after the dialog: the pin's first type with the    *)
(* requested settings, or else a type made of them, is set on the pin, and *)
(* the pin's type read back.                                               *)
(***************************************************************************)
ChooseAudioType(h, listed, request, mem) ==
  LET match == FindMatchingFormat(h, listed, request, mem)
      fresh == AudioInit(match.heap, "format", mem, NoConfig)
  IN IF match.ok THEN match
     ELSE IF fresh.ok THEN AudioConfigure(fresh.heap, fresh.type, request)
     ELSE fresh

ConfigureAudio ==
  \E mem \in BOOLEAN, works \in BOOLEAN, type \in PinFormats("audio"),
     listed \in {<<>>} \cup {<<t>> : t \in Offers["audio"]}
                       \cup {<<t, u>> : t \in Offers["audio"],
                                        u \in Offers["audio"]} :
    LET chosen == ChooseAudioType(heap, listed, requested["audio"], mem)
        held   == AttachFormat(chosen.heap, type)
    IN IF chosen.ok /\ works /\ held.ok
         THEN /\ accepted' = held.type
              /\ heap' = FreeMediaType(held.heap, chosen.type)
              /\ step' = "connect"
              /\ UNCHANGED index
         ELSE NextAttempt(FreeMediaType(chosen.heap, chosen.type))

(***************************************************************************)
(* ConfigureVideoSource and ConfigureAudioSource. The video dialogs are    *)
(* switched off before they are shown; the audio dialog is skipped when    *)
(* the pin belongs to the video source.                                    *)
(***************************************************************************)
ShowDialogs == manual[stream] /\ (stream = "audio" => ~shared)

(* Mutant: the dialogs stay switched on. *)
DialogsLeftOn == manual

DialogsOff == [manual EXCEPT !["video"] = @ /\ stream # "video"]

Configure ==
  /\ step = "configure"
  /\ manual' = DialogsOff
  /\ dialogs' = [dialogs EXCEPT ![stream] =
                   IF ShowDialogs THEN @ + 1 ELSE @]
  /\ \/ ShowDialogs /\ ManualConfiguration
     \/ stream = "video" /\ ConfigureVideo
     \/ stream = "audio" /\ ConfigureAudio
  /\ UNCHANGED <<stream, enabled, requested, shared, source, actual, enc, com,
                 pinVars, events>>

(***************************************************************************)
(* The last attempt: PinFormat::set_format(NULL) asks the pin for its      *)
(* default format, and the pins agree on any type.                         *)
(***************************************************************************)
DefaultFormat ==
  /\ \/ /\ step = "default"
        /\ step' = "connect"
        /\ UNCHANGED <<stream, index, enabled, requested, manual, dialogs,
                       shared, source, actual>>
     \/ InitFails("default")
  /\ UNCHANGED <<accepted, sinkVars, enc, com>>

(***************************************************************************)
(* IGraphBuilder::ConnectDirect: the pins try one candidate type after     *)
(* another until one connects.                                             *)
(***************************************************************************)
TryType ==
  /\ step = "connect"
  /\ \E type \in Candidates(stream, accepted), completes \in BOOLEAN :
       ReceiveConnection(stream, type, completes)
  /\ step' = IF conn'[stream] = NoMediaType THEN "connect" ELSE "readback"
  /\ UNCHANGED <<stream, index, enabled, requested, manual, dialogs, shared,
                 source, accepted, actual, enc, com>>

(***************************************************************************)
(* ConnectDirect fails; accepted_type goes out of scope.                   *)
(***************************************************************************)
ConnectFails ==
  /\ step = "connect"
  /\ IF index = DefaultIndex(stream)
       THEN /\ step' = "failed"
            /\ accepted' = NoMediaType
            /\ heap' = FreeMediaType(heap, accepted)
            /\ UNCHANGED index
       ELSE NextAttempt(FreeMediaType(heap, accepted))
  /\ UNCHANGED <<stream, enabled, requested, manual, dialogs, shared, source,
                 actual, enc, com, pinVars, events>>

(* Mutant: the settings go to the video configuration whatever the stream. *)
SetActualOfVideo(settings) == [actual EXCEPT !["video"] = settings]

SetActual(settings) == [actual EXCEPT ![stream] = settings]

(***************************************************************************)
(* After the connection: ConnectionMediaType hands out a copy whose block  *)
(* the caller owns, the settings are read through a VideoMediaType or an   *)
(* AudioMediaType that is destroyed at the end of its scope, and then the  *)
(* copy is freed. A failure on the way leaves the actual settings unset    *)
(* and is not reported.                                                    *)
(***************************************************************************)
ReadBack ==
  /\ step = "readback"
  /\ \E works \in BOOLEAN, mem \in BOOLEAN :
       LET type   == conn[stream]
           begun  == FreeMediaType(heap, accepted)
           local  == IF type.blob = NoBlob THEN type
                     ELSE [type EXCEPT !.blob = "connection"]
           copied == IF type.blob = NoBlob THEN begun
                     ELSE CoTaskMemAlloc(begun, "connection")
           format == IF stream = "video"
                       THEN VideoInitFrom(copied, "video_format", mem, local)
                       ELSE AudioInitFrom(copied, "audio_format", mem, local)
           closed == FreeMediaType(format.heap, format.type)
           read   == IF stream = "video" THEN VideoSettings(local, NoConfig)
                                         ELSE AudioSettings(local, NoConfig)
       IN IF works
            THEN /\ heap' = FreeMediaType(closed, local)
                 /\ actual' = IF format.ok THEN SetActual(read) ELSE actual
            ELSE heap' = begun /\ UNCHANGED actual
  /\ accepted' = NoMediaType
  /\ index' = 0
  /\ IF stream = "video" /\ "audio" \in enabled
       THEN stream' = "audio" /\ step' = "source"
       ELSE step' = "control" /\ UNCHANGED stream
  /\ UNCHANGED <<enabled, requested, manual, dialogs, shared, source, enc,
                 com, pinVars, events>>

(***************************************************************************)
(* InitGraphControl, the last part of Init.                                *)
(***************************************************************************)
InitGraphControl ==
  /\ \/ /\ step = "control"
        /\ step' = "ready"
        /\ UNCHANGED <<stream, index, enabled, requested, manual, dialogs,
                       shared, source, actual>>
     \/ InitFails("control")
  /\ UNCHANGED <<accepted, sinkVars, enc, com>>

-----------------------------------------------------------------------------
(***************************************************************************)
(* Run: IMediaControl::Run starts the filters one after the other, and may *)
(* return S_FALSE before all of them have started; capture may begin       *)
(* before it returns. A failure is fatal to the program. A filter that is  *)
(* "running" is one that is not stopped.                                   *)
(***************************************************************************)
Run ==
  /\ step = "ready" /\ enc = "none"
  /\ enc' = "starting"
  /\ com' = [com EXCEPT !.encoder = @ + 1]
  /\ UNCHANGED <<initVars, sinkVars>>

StartFilter ==
  /\ enc \in {"starting", "waiting"}
  /\ \E s \in enabled : state[s] = "stopped" /\ FilterRun(s)
  /\ UNCHANGED <<initVars, enc, com>>

RunReturns ==
  /\ enc = "starting"
  /\ enc' \in {"dead", "waiting"}
  /\ UNCHANGED <<initVars, sinkVars, com>>

(***************************************************************************)
(* WaitForSamples: before it enters its loop, the encoder thread waits     *)
(* until every enabled stream has delivered a sample, which takes a filter *)
(* that runs. It looks at the pools and at the request to stop only, never *)
(* at the source: the wait may last for ever.                              *)
(***************************************************************************)
SamplesArrive ==
  /\ enc = "waiting"
  /\ \A s \in enabled : state[s] = "running"
  /\ enc' = "polling"
  /\ UNCHANGED <<initVars, sinkVars, com>>

(***************************************************************************)
(* CheckStatus and HandleMediaEvent: while the event handle is signaled    *)
(* one event is read per call; an event that ends the capture, or a        *)
(* failure to read one, makes the encoder thread leave its loop.           *)
(***************************************************************************)
EndEvents == {"ERRORABORT", "ERRORABORTEX", "USERABORT", "COMPLETE"}

(* Mutant: an aborted graph does not end the capture. *)
HandleMostEvents(code) ==
  IF code \in EndEvents \ {"ERRORABORT"} THEN "stopping" ELSE "polling"

HandleMediaEvent(code) ==
  IF code \in EndEvents THEN "stopping" ELSE "polling"

CheckStatus ==
  /\ enc = "polling"
  /\ events # <<>>
  /\ events' = Tail(events)
  /\ enc' \in {HandleMediaEvent(Head(events)), "stopping"}
  /\ UNCHANGED <<initVars, pinVars, heap, com>>

(***************************************************************************)
(* The encoder thread leaves its wait or its loop for another reason:      *)
(* WebmEncoder was told to stop, or encoding failed.                       *)
(***************************************************************************)
LeaveLoop ==
  /\ enc \in {"waiting", "polling"}
  /\ enc' = "stopping"
  /\ UNCHANGED <<initVars, sinkVars, com>>

(***************************************************************************)
(* Stop: IMediaControl::Stop stops the filters one after the other, and    *)
(* may fail on the way; a failure is logged only.                          *)
(***************************************************************************)
StopFilter ==
  /\ enc = "stopping"
  /\ \E s \in enabled : state[s] = "running" /\ FilterStop(s)
  /\ UNCHANGED <<initVars, enc, com>>

StopReturns ==
  /\ enc = "stopping"
  /\ enc' = "left"
  /\ com' = [com EXCEPT !.encoder = @ - 1]
  /\ UNCHANGED <<initVars, sinkVars>>

(***************************************************************************)
(* ~MediaSourceImpl on the main thread, once no encoder thread uses the    *)
(* source: releasing the graph stops what still runs.                      *)
(***************************************************************************)
Destroy ==
  /\ step \in {"ready", "failed"}
  /\ enc \in {"none", "left"}
  /\ \A s \in Streams : lock[s] = "free"
  /\ step' = "gone"
  /\ source' = [s \in Streams |-> 0]
  /\ state' = [s \in Streams |-> "stopped"]
  /\ com' = [com EXCEPT !.main = @ - 1]
  /\ UNCHANGED <<stream, index, enabled, requested, manual, dialogs, shared,
                 accepted, actual, config, conn, flow, asked, rterr, lock,
                 cap, events, heap, enc>>

(***************************************************************************)
(* The filters of a graph that was started: the capture threads, and the   *)
(* events a device or the graph manager reports.                           *)
(***************************************************************************)
GraphAlive == step = "ready" /\ enc \notin {"none", "dead"}

Streaming == GraphAlive /\ enc # "left"

Capture ==
  /\ GraphAlive
  /\ \E s \in enabled : CaptureStep(s)
  /\ UNCHANGED <<initVars, enc, com>>

Notify ==
  /\ Streaming
  /\ Len(events) < MaxEvents
  /\ \E code \in GraphEvents : events' = Append(events, code)
  /\ UNCHANGED <<initVars, pinVars, heap, enc, com>>

Next ==
  \/ CreateGraph \/ CreateSource \/ CreateSourceFails \/ CreateSink
  \/ Configure \/ DefaultFormat \/ TryType \/ ConnectFails \/ ReadBack
  \/ InitGraphControl
  \/ Run \/ StartFilter \/ RunReturns \/ SamplesArrive
  \/ CheckStatus \/ LeaveLoop \/ StopFilter \/ StopReturns
  \/ Destroy \/ Capture \/ Notify

(***************************************************************************)
(* The encoder thread polls the source in every iteration of its loop,     *)
(* which comes after WaitForSamples, and every encode pass returns.        *)
(***************************************************************************)
Spec == Init /\ [][Next]_vars /\ WF_vars(CheckStatus)

-----------------------------------------------------------------------------
Blobs == {"format", "formatter", "copy", "enumerated", "candidate",
          "connection", "video_format", "audio_format", "offered", "checked",
          "connected", "timed"}

(***************************************************************************)
(* The type invariant.                                                     *)
(***************************************************************************)
TypeOK ==
  /\ step \in {"start", "source", "sink", "configure", "default", "connect",
               "readback", "control", "ready", "failed", "gone"}
  /\ index \in 0..DefaultIndex(stream)
  /\ enc \in {"none", "starting", "waiting", "polling", "stopping", "left",
              "dead"}
  /\ com.main \in -1..1 /\ com.encoder \in 0..1
  /\ \A s \in Streams : (lock[s] = "free") = (cap[s] = "idle")
  /\ Len(events) <= MaxEvents
  /\ heap.live \cup heap.twice \cup heap.lost \subseteq Blobs

(***************************************************************************)
(* The media source keeps the promise of CaptureSource: callbacks run      *)
(* between Run and Stop only, and none runs or follows when Stop has       *)
(* stopped every filter, although the capture threads go on calling        *)
(* Receive.                                                                *)
(***************************************************************************)
Phase ==
  CASE step = "gone" \/ enc = "dead" -> "gone"
    [] enc = "none" /\ step # "gone" ->
         IF step = "ready" THEN "ready" ELSE "closed"
    [] enc \in {"starting", "waiting", "polling"} /\ step # "gone" ->
         "running"
    [] OTHER -> IF \E s \in enabled : state[s] = "running"
                  THEN "running" ELSE "stopped"

Calls == {s \in Streams : cap[s] = "accepted" /\ enc # "dead"}

Promise == INSTANCE CaptureSource WITH phase <- Phase, calls <- Calls

CallbacksOnlyWhileRunning == Promise!Spec

(***************************************************************************)
(* A frame or a sample buffer handed to the encoder is described by the    *)
(* settings of the type its stream has, unless that type has no readable   *)
(* header or the source asked about another type in the meantime: refused  *)
(* types, refused connections and other streams leave no trace.            *)
(***************************************************************************)
Readable(s, type) == s = "video" => BitmapInfo(type)

SamplesDescribed ==
  \A s \in Streams :
    cap[s] = "accepted" /\ ~asked[s] /\ Readable(s, flow[s])
      => config[s] = flow[s].config

(***************************************************************************)
(* When Init has succeeded, the settings the encoders are configured with  *)
(* (actual_*_config_) and those that describe the frames (actual_config_   *)
(* of the sink pin) agree, unless the readback failed or the header is not *)
(* readable for the sink: two copies, filled by different code.            *)
(***************************************************************************)
ConfigsAgree ==
  step = "ready" /\ enc = "none" =>
    \A s \in enabled :
      Readable(s, conn[s]) /\ actual[s] # NoConfig => actual[s] = config[s]

(***************************************************************************)
(* Every format block is freed once: none is freed twice or lost, and none *)
(* is left when Init is done or has failed, save for those VideoMediaType  *)
(* takes over when it is initialized from another media type.              *)
(***************************************************************************)
TakenOver == {"connection", "video_format", "timed"}

BlobsReturned ==
  /\ heap.twice \cup heap.lost \subseteq TakenOver
  /\ step \in {"ready", "failed", "gone"} => heap.live \subseteq TakenOver

(***************************************************************************)
(* A user is asked to configure a device by hand at most once, although    *)
(* the configuration is part of a loop over the formats.                   *)
(***************************************************************************)
DialogsOnce == \A s \in Streams : dialogs[s] <= 1

(***************************************************************************)
(* Once the encoder thread is in its loop, an event that ends the capture  *)
(* does not stay unnoticed behind other events, also if it was reported    *)
(* earlier: the thread leaves the loop.                                    *)
(***************************************************************************)
EndNoticed ==
  (enc = "polling" /\ \E i \in DOMAIN events : events[i] \in EndEvents)
    ~> enc # "polling"

(***************************************************************************)
(* No format block is freed twice: "Always allocates internal storage for  *)
(* the AM_MEDIA_TYPE data." (win/media_type_dshow.h)                       *)
(***************************************************************************)
BlobsFreedOnce == heap.twice = {}

=============================================================================
