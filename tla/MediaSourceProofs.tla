-------------------------- MODULE MediaSourceProofs --------------------------
(***************************************************************************)
(* Proofs about MediaSource, for whatever types the devices offer and      *)
(* whatever the user asks for: samples are described by the type they      *)
(* have, the two copies of the settings agree, format blocks are returned, *)
(* the dialogs are shown once, and the callbacks run between Run and Stop  *)
(* only, as CaptureSource promises.                                        *)
(***************************************************************************)
EXTENDS MediaSource, SequenceLemmas

(* What the offers hold in a field. *)
Offered(field) == UNION {{t[field] : t \in Offers[s]} : s \in Streams}

(* The settings that go around, ... *)
Settings ==
  {NoConfig} \cup (UNION {Requests[s] : s \in Streams})
    \cup Offered("config")

(* ... the subtypes the program names, ... *)
SubTypes ==
  {VideoFormats[i] : i \in DOMAIN VideoFormats}
    \cup {"none", "I420", "YV12", "PCM", "IEEE_FLOAT", "beyond"}

(* ... and the media types. *)
MediaTypes ==
  [major  : {"video", "audio"} \cup Offered("major"),
   sub    : SubTypes \cup Offered("sub"),
   fmt    : {"info", "wave", "null"} \cup Offered("fmt"),
   hdr    : BOOLEAN,
   config : Settings,
   blob   : Blobs \cup {"device", NoBlob}]

MaybeType == MediaTypes \cup {NoMediaType}

Steps == {"start", "source", "sink", "configure", "default", "connect",
          "readback", "control", "ready", "failed", "gone"}

InitTyped ==
  /\ step \in Steps /\ stream \in Streams /\ index \in 0..DefaultIndex(stream)
  /\ enabled \in SUBSET Streams /\ enabled # {}
  /\ requested \in [Streams -> Settings]
  /\ manual \in [Streams -> BOOLEAN] /\ dialogs \in [Streams -> Nat]
  /\ actual \in [Streams -> Settings]

SinkTyped ==
  /\ config \in [Streams -> Settings]
  /\ conn \in [Streams -> MaybeType] /\ flow \in [Streams -> MaybeType]
  /\ asked \in [Streams -> BOOLEAN] /\ rterr \in [Streams -> BOOLEAN]
  /\ state \in [Streams -> {"stopped", "running"}]
  /\ lock \in [Streams -> {"free", "capture"}]
  /\ cap \in [Streams -> {"idle", "locked", "accepted"}]

Queue ==
  events \in Seq(GraphEvents \cup {"ERRORABORT"}) /\ Len(events) <= MaxEvents

(* CoInitialize and CoUninitialize. *)
Balanced ==
  /\ enc \in {"none", "starting", "waiting", "polling", "stopping", "left",
              "dead"}
  /\ com \in [main : -1..1, encoder : 0..1]
  /\ step = "start" => com.main = 0
  /\ step # "gone" => com.main >= 0
  /\ enc = "none" => com.encoder = 0
  /\ enc \in {"starting", "waiting", "polling", "stopping"} =>
       com.encoder = 1

Asked ==
  /\ dialogs["video"] <= 1 /\ dialogs["audio"] <= 1
  /\ step = "start" => stream = "video" /\ index = 0 /\ dialogs["audio"] = 0
  /\ manual["video"] => dialogs["video"] = 0
  /\ stream = "video" => dialogs["audio"] = 0
  /\ step \in {"source", "sink", "configure"} => dialogs["audio"] = 0
  /\ step = "configure" => index < DefaultIndex(stream)

Threads ==
  /\ \A s \in Streams :
       /\ lock[s] = "free" <=> cap[s] = "idle"
       /\ cap[s] = "accepted" => state[s] = "running"
       /\ cap[s] # "idle" => s \in enabled /\ conn[s] # NoMediaType
       /\ enc = "none" \/ step = "gone" => cap[s] = "idle"
       /\ enc = "none" => state[s] = "stopped"
  /\ enc = "polling" => \A s \in enabled : state[s] = "running"
  /\ step \notin {"ready", "gone"} => enc = "none"
  /\ step = "gone" => enc \in {"none", "left"}

Described ==
  /\ \A s \in Streams :
       /\ conn[s] = NoMediaType <=> flow[s] = NoMediaType
       /\ conn[s] # NoMediaType =>
            /\ Accepts(s, conn[s]) /\ Accepts(s, flow[s])
            /\ ~asked[s] /\ Readable(s, flow[s]) => config[s] = flow[s].config
       /\ enc = "none" => ~asked[s] /\ flow[s] = conn[s]
       /\ actual[s] # NoConfig =>
            conn[s] # NoMediaType /\ actual[s] = conn[s].config
  /\ step = "readback" => conn[stream] # NoMediaType

InfoOffered ==
  /\ \A t \in Offers["video"] : t.fmt = "info"
  /\ \A t \in Offers["audio"] : t.fmt # "ks"

Heaps == [live : SUBSET Blobs, twice : SUBSET Blobs, lost : SUBSET Blobs]

HeapOK(h, held) ==
  /\ h \in Heaps
  /\ InfoOffered => /\ h.twice \cup h.lost \subseteq TakenOver
                    /\ h.live \subseteq TakenOver \cup held
                    /\ held \subseteq h.live

BlobOf(type) ==
  IF type = NoMediaType \/ type.blob = NoBlob THEN {} ELSE {type.blob}

(* What a connection is to be tried with, and the blocks in use then. *)
Wanted(type, h, s) ==
  /\ type \in MaybeType /\ HeapOK(h, BlobOf(type))
  /\ type # NoMediaType => type.blob \in {"formatter", "copy", NoBlob}
  /\ InfoOffered /\ type # NoMediaType =>
       type.fmt # "ks" /\ (s = "video" => type.fmt \in {"info", "null"})

Blocks ==
  /\ Wanted(accepted, heap, stream)
  /\ step \notin {"connect", "readback"} => accepted = NoMediaType
  /\ InfoOffered /\ conn["video"] # NoMediaType => conn["video"].fmt = "info"

IInv ==
  /\ InitTyped /\ SinkTyped /\ Queue /\ Balanced /\ Asked /\ Threads
  /\ Described /\ Blocks

-----------------------------------------------------------------------------
(* Media types. *)

(* There is a video and an audio stream. *)
LEMMA TheStreams == Streams = {"video", "audio"}
BY StreamsAssumption

(* A media type is not "none". *)
LEMMA NotNone == \A t \in MediaTypes : t # NoMediaType
<1> SUFFICES ASSUME NEW t \in MediaTypes, t = NoMediaType PROVE FALSE
  OBVIOUS
<1>1. DOMAIN t = {"major", "sub", "fmt", "hdr", "config", "blob"}
  BY DEF MediaTypes
<1>2. DOMAIN NoMediaType = {"major"}
  BY DEF NoMediaType
<1>3. "sub" \in DOMAIN t /\ "sub" \notin {"major"}
  BY <1>1
<1> QED
  BY <1>2, <1>3

(* What the devices offer are media types. *)
LEMMA OfferedType ==
  ASSUME NEW s \in Streams, NEW t \in Offers[s]
  PROVE  /\ t \in MediaTypes /\ t.blob \in {"device", NoBlob}
         /\ InfoOffered => /\ t.fmt # "ks"
                           /\ s = "video" => t.fmt = "info"
<1>1. t \in [major : STRING, sub : STRING, fmt : STRING, hdr : BOOLEAN,
             config : {t.config}, blob : {"device", NoBlob}]
  BY OffersAssumption
<1>2. /\ t.major \in Offered("major") /\ t.sub \in Offered("sub")
      /\ t.fmt \in Offered("fmt") /\ t.config \in Offered("config")
  BY DEF Offered
<1>3. t \in MediaTypes
  <2>1. t.config \in Settings
    BY <1>2 DEF Settings
  <2>2. t = [major |-> t.major, sub |-> t.sub, fmt |-> t.fmt, hdr |-> t.hdr,
             config |-> t.config, blob |-> t.blob]
        /\ t.hdr \in BOOLEAN /\ t.blob \in {"device", NoBlob}
    BY <1>1
  <2> QED
    BY <1>2, <2>1, <2>2 DEF MediaTypes
<1>4. InfoOffered => t.fmt # "ks" /\ (s = "video" => t.fmt = "info")
  BY TheStreams DEF InfoOffered
<1> QED
  BY <1>1, <1>3, <1>4

(* The same type with another block. *)
LEMMA OtherBlob ==
  ASSUME NEW t \in MediaTypes, NEW b \in Blobs \cup {"device", NoBlob}
  PROVE  /\ [t EXCEPT !.blob = b] \in MediaTypes
         /\ [t EXCEPT !.blob = b].blob = b
         /\ [t EXCEPT !.blob = b].major = t.major
         /\ [t EXCEPT !.blob = b].sub = t.sub
         /\ [t EXCEPT !.blob = b].fmt = t.fmt
         /\ [t EXCEPT !.blob = b].hdr = t.hdr
         /\ [t EXCEPT !.blob = b].config = t.config
BY DEF MediaTypes

(* What the graph keeps of a type says the same. *)
LEMMA KeptType ==
  ASSUME NEW t \in MediaTypes, NEW s
  PROVE  /\ Kept(t) \in MediaTypes /\ Kept(t) # NoMediaType
         /\ Kept(t).config = t.config /\ Kept(t).fmt = t.fmt
         /\ Kept(t).hdr = t.hdr
         /\ Accepts(s, Kept(t)) <=> Accepts(s, t)
         /\ BitmapInfo(Kept(t)) <=> BitmapInfo(t)
<1> DEFINE k == Kept(t)
<1>1. /\ k \in MediaTypes /\ k.major = t.major /\ k.sub = t.sub
      /\ k.fmt = t.fmt /\ k.hdr = t.hdr /\ k.config = t.config
      /\ k.blob = NoBlob <=> t.blob = NoBlob
  <2>1. CASE t.blob = NoBlob
    BY <2>1 DEF Kept
  <2>2. CASE t.blob # NoBlob
    <3>1. k = [t EXCEPT !.blob = "device"]
      BY <2>2 DEF Kept
    <3>2. "device" # NoBlob
      BY DEF NoBlob
    <3> HIDE DEF k
    <3> QED
      BY <2>2, <3>1, <3>2, OtherBlob
  <2> QED
    BY <2>1, <2>2
<1> HIDE DEF k
<1>2. k # NoMediaType
  BY <1>1, NotNone
<1>3. Accepts(s, k) <=> Accepts(s, t)
  BY <1>1 DEF Accepts
<1>4. BitmapInfo(k) <=> BitmapInfo(t)
  BY <1>1 DEF BitmapInfo
<1> QED
  BY <1>1, <1>2, <1>3, <1>4 DEF k

(* The types a sink pin proposes. *)
LEMMA ProposedType ==
  ASSUME NEW s \in Streams, NEW i \in 0..3, GetMediaType(s, i) # NoMediaType
  PROVE  /\ GetMediaType(s, i) \in MediaTypes
         /\ GetMediaType(s, i).fmt # "ks"
         /\ s = "video" => GetMediaType(s, i).fmt = "info"
<1>1. NoConfig \in Settings
  BY DEF Settings
<1>2. ASSUME NEW b \in SubTypes
      PROVE  [major |-> "video", sub |-> b, fmt |-> "info", hdr |-> TRUE,
              config |-> NoConfig, blob |-> "device"] \in MediaTypes
  BY <1>1 DEF MediaTypes
<1>3. ASSUME NEW b \in SubTypes
      PROVE  [major |-> "audio", sub |-> b, fmt |-> "wave", hdr |-> FALSE,
              config |-> NoConfig, blob |-> NoBlob] \in MediaTypes
  BY <1>1 DEF MediaTypes
<1>4. CASE s = "video"
  <2>1. PICK b \in SubTypes :
          GetMediaType(s, i) =
            [major |-> "video", sub |-> b, fmt |-> "info", hdr |-> TRUE,
             config |-> NoConfig, blob |-> "device"]
    <3>1. i = 0 \/ i = 1
      BY <1>4 DEF GetMediaType
    <3>2. CASE i = 0
      <4>1. GetMediaType(s, i) =
              [major |-> "video", sub |-> "I420", fmt |-> "info", hdr |-> TRUE,
               config |-> NoConfig, blob |-> "device"]
        BY <1>4, <3>2 DEF GetMediaType
      <4>2. "I420" \in SubTypes
        BY DEF SubTypes
      <4> QED
        BY <4>1, <4>2
    <3>3. CASE i = 1
      <4>1. GetMediaType(s, i) =
              [major |-> "video", sub |-> "YV12", fmt |-> "info", hdr |-> TRUE,
               config |-> NoConfig, blob |-> "device"]
        BY <1>4, <3>3 DEF GetMediaType
      <4>2. "YV12" \in SubTypes
        BY DEF SubTypes
      <4> QED
        BY <4>1, <4>2
    <3> QED
      BY <3>1, <3>2, <3>3
  <2> QED
    BY <1>2, <2>1
<1>5. CASE s # "video"
  <2>1. PICK b \in SubTypes :
          GetMediaType(s, i) =
            [major |-> "audio", sub |-> b, fmt |-> "wave", hdr |-> FALSE,
             config |-> NoConfig, blob |-> NoBlob]
    <3>1. i = 0 \/ i = 1 \/ i = 2
      BY <1>5 DEF GetMediaType
    <3>2. CASE i = 0
      <4>1. GetMediaType(s, i) =
              [major |-> "audio", sub |-> "IEEE_FLOAT", fmt |-> "wave",
               hdr |-> FALSE, config |-> NoConfig, blob |-> NoBlob]
        BY <1>5, <3>2 DEF GetMediaType
      <4>2. "IEEE_FLOAT" \in SubTypes
        BY DEF SubTypes
      <4> QED
        BY <4>1, <4>2
    <3>3. CASE i = 1
      <4>1. GetMediaType(s, i) =
              [major |-> "audio", sub |-> "PCM", fmt |-> "wave",
               hdr |-> FALSE, config |-> NoConfig, blob |-> NoBlob]
        BY <1>5, <3>3 DEF GetMediaType
      <4>2. "PCM" \in SubTypes
        BY DEF SubTypes
      <4> QED
        BY <4>1, <4>2
    <3>4. CASE i = 2
      <4>1. GetMediaType(s, i) =
              [major |-> "audio", sub |-> "beyond", fmt |-> "wave",
               hdr |-> FALSE, config |-> NoConfig, blob |-> NoBlob]
        BY <1>5, <3>4 DEF GetMediaType
      <4>2. "beyond" \in SubTypes
        BY DEF SubTypes
      <4> QED
        BY <4>1, <4>2
    <3> QED
      BY <3>1, <3>2, <3>3, <3>4
  <2> DEFINE t == GetMediaType(s, i)
  <2>2. t \in MediaTypes
    BY <1>3, <2>1
  <2>3. t.fmt = "wave"
    BY <2>1
  <2> QED
    BY <1>5, <2>2, <2>3
<1> QED
  BY <1>4, <1>5

(* The types a connection is tried with. *)
LEMMA CandidateType ==
  ASSUME NEW s \in Streams, NEW wanted \in MaybeType,
         NEW t \in Candidates(s, wanted)
  PROVE  /\ t \in MediaTypes
         /\ InfoOffered /\ (wanted # NoMediaType =>
              /\ wanted.fmt # "ks"
              /\ s = "video" => wanted.fmt \in {"info", "null"})
            => t.fmt # "ks" /\ (s = "video" => t.fmt = "info")
<1>1. CASE wanted # NoMediaType /\ wanted.fmt # "null"
  <2>1. t = wanted /\ wanted \in MediaTypes
    BY <1>1 DEF Candidates, MaybeType
  <2> QED
    BY <1>1, <2>1
<1>2. CASE ~(wanted # NoMediaType /\ wanted.fmt # "null")
  <2>1. \/ t \in Offers[s]
        \/ \E i \in 0..3 : t = GetMediaType(s, i) /\ t # NoMediaType
    BY <1>2 DEF Candidates
  <2>2. CASE t \in Offers[s]
    BY <2>2, OfferedType
  <2>3. CASE \E i \in 0..3 : t = GetMediaType(s, i) /\ t # NoMediaType
    BY <2>3, ProposedType
  <2> QED
    BY <2>1, <2>2, <2>3
<1> QED
  BY <1>1, <1>2

-----------------------------------------------------------------------------
(* The heap. *)

(* The blocks that somebody owns, who frees them. *)
Owned == Blobs \ TakenOver

(* A block is allocated, ... *)
LEMMA AllocOK ==
  ASSUME NEW h, NEW held, HeapOK(h, held), NEW b \in Owned, b \notin held
  PROVE  HeapOK(CoTaskMemAlloc(h, b), held \cup {b})
<1> DEFINE g == CoTaskMemAlloc(h, b)
<1>1. h \in Heaps /\ b \in Blobs /\ b \notin TakenOver
  BY DEF HeapOK, Owned
<1>2. /\ g \in Heaps /\ g.live = h.live \cup {b} /\ g.twice = h.twice
      /\ b \notin h.live => g.lost = h.lost
  BY <1>1 DEF CoTaskMemAlloc, Heaps
<1>3. ASSUME InfoOffered
      PROVE  /\ g.twice \cup g.lost \subseteq TakenOver
             /\ g.live \subseteq TakenOver \cup (held \cup {b})
             /\ held \cup {b} \subseteq g.live
  <2>1. /\ h.twice \cup h.lost \subseteq TakenOver
        /\ h.live \subseteq TakenOver \cup held /\ held \subseteq h.live
    BY <1>3 DEF HeapOK
  <2> HIDE DEF g
  <2>2. b \notin h.live
    BY <1>1, <2>1
  <2> QED
    BY <1>2, <2>1, <2>2
<1> HIDE DEF g
<1>4. HeapOK(g, held \cup {b})
  BY <1>2, <1>3 DEF HeapOK
<1> QED
  BY <1>4 DEF g

(* ... or one that a VideoMediaType takes over. *)
LEMMA AllocTakenOK ==
  ASSUME NEW h, NEW held, HeapOK(h, held), NEW b \in TakenOver
  PROVE  HeapOK(CoTaskMemAlloc(h, b), held)
<1> DEFINE g == CoTaskMemAlloc(h, b)
<1>1. h \in Heaps /\ b \in Blobs
  BY DEF HeapOK, TakenOver, Blobs
<1>2. /\ g \in Heaps /\ g.live = h.live \cup {b} /\ g.twice = h.twice
      /\ g.lost \subseteq h.lost \cup {b}
  BY <1>1 DEF CoTaskMemAlloc, Heaps
<1> HIDE DEF g
<1>3. ASSUME InfoOffered
      PROVE  /\ g.twice \cup g.lost \subseteq TakenOver
             /\ g.live \subseteq TakenOver \cup held
             /\ held \subseteq g.live
  BY <1>2, <1>3 DEF HeapOK
<1>4. HeapOK(g, held)
  BY <1>2, <1>3 DEF HeapOK
<1> QED
  BY <1>4 DEF g

(* A block is freed, ... *)
LEMMA FreeOK ==
  ASSUME NEW h, NEW held, HeapOK(h, held), NEW b \in Owned, b \in held
  PROVE  HeapOK(CoTaskMemFree(h, b), held \ {b})
<1> DEFINE g == CoTaskMemFree(h, b)
<1>1. h \in Heaps /\ b \in Blobs /\ b \notin TakenOver
  BY DEF HeapOK, Owned
<1>2. /\ g \in Heaps /\ g.lost = h.lost
      /\ b \in h.live => g.live = h.live \ {b} /\ g.twice = h.twice
  BY <1>1 DEF CoTaskMemFree, Heaps
<1> HIDE DEF g
<1>3. ASSUME InfoOffered
      PROVE  /\ g.twice \cup g.lost \subseteq TakenOver
             /\ g.live \subseteq TakenOver \cup (held \ {b})
             /\ held \ {b} \subseteq g.live
  <2>1. /\ h.twice \cup h.lost \subseteq TakenOver
        /\ h.live \subseteq TakenOver \cup held /\ held \subseteq h.live
    BY <1>3 DEF HeapOK
  <2> QED
    BY <1>1, <1>2, <2>1
<1>4. HeapOK(g, held \ {b})
  BY <1>2, <1>3 DEF HeapOK
<1> QED
  BY <1>4 DEF g

(* ... or one that was taken over is freed, perhaps once more. *)
LEMMA FreeTakenOK ==
  ASSUME NEW h, NEW held, HeapOK(h, held), held \cap TakenOver = {},
         NEW b \in TakenOver
  PROVE  HeapOK(CoTaskMemFree(h, b), held)
<1> DEFINE g == CoTaskMemFree(h, b)
<1>1. h \in Heaps /\ b \in Blobs
  BY DEF HeapOK, TakenOver, Blobs
<1>2. /\ g \in Heaps /\ g.lost = h.lost
      /\ g.live = h.live \ {b} /\ g.twice \subseteq h.twice \cup {b}
  BY <1>1 DEF CoTaskMemFree, Heaps
<1> HIDE DEF g
<1>3. ASSUME InfoOffered
      PROVE  /\ g.twice \cup g.lost \subseteq TakenOver
             /\ g.live \subseteq TakenOver \cup held
             /\ held \subseteq g.live
  BY <1>2, <1>3 DEF HeapOK
<1>4. HeapOK(g, held)
  BY <1>2, <1>3 DEF HeapOK
<1> QED
  BY <1>4 DEF g

(* The owner of a type frees its block. *)
LEMMA FreeTypeOK ==
  ASSUME NEW h, NEW held, NEW t \in MaybeType, HeapOK(h, held),
         BlobOf(t) \subseteq held, BlobOf(t) \subseteq Owned,
         InfoOffered => t = NoMediaType \/ t.fmt # "ks"
  PROVE  HeapOK(FreeMediaType(h, t), held \ BlobOf(t))
<1>1. CASE t = NoMediaType \/ t.blob = NoBlob
  <2>1. BlobOf(t) = {} /\ FreeMediaType(h, t) = h
    BY <1>1 DEF BlobOf, FreeMediaType
  <2>2. held \ {} = held
    OBVIOUS
  <2> QED
    BY <2>1, <2>2
<1>2. CASE ~(t = NoMediaType \/ t.blob = NoBlob)
  <2>1. BlobOf(t) = {t.blob} /\ t.blob \in Owned /\ t.blob \in held
    BY <1>2 DEF BlobOf
  <2>2. CASE t.fmt = "ks"
    <3>1. FreeMediaType(h, t) = h /\ ~InfoOffered
      BY <1>2, <2>2 DEF FreeMediaType
    <3> QED
      BY <3>1 DEF HeapOK
  <2>3. CASE t.fmt # "ks"
    <3>1. FreeMediaType(h, t) = CoTaskMemFree(h, t.blob)
      BY <1>2, <2>3 DEF FreeMediaType
    <3> DEFINE b == t.blob
    <3>2. b \in Owned /\ b \in held
      BY <2>1
    <3> HIDE DEF b
    <3>3. HeapOK(CoTaskMemFree(h, b), held \ {b})
      BY <3>2, FreeOK
    <3> QED
      BY <2>1, <3>1, <3>3 DEF b
  <2> QED
    BY <2>2, <2>3
<1> QED
  BY <1>1, <1>2

(* Freeing what was taken over does no harm to what is held. *)
LEMMA FreeTypeTakenOK ==
  ASSUME NEW h, NEW held, NEW t, HeapOK(h, held), held \cap TakenOver = {},
         BlobOf(t) \subseteq TakenOver
  PROVE  HeapOK(FreeMediaType(h, t), held)
<1>1. CASE t = NoMediaType \/ t.blob = NoBlob \/ t.fmt = "ks"
  <2>1. FreeMediaType(h, t) = h
    BY <1>1 DEF FreeMediaType
  <2> QED
    BY <2>1
<1>2. CASE ~(t = NoMediaType \/ t.blob = NoBlob \/ t.fmt = "ks")
  <2> DEFINE b == t.blob
  <2>1. b \in TakenOver
    BY <1>2 DEF BlobOf
  <2>2. FreeMediaType(h, t) = CoTaskMemFree(h, b)
    BY <1>2 DEF FreeMediaType
  <2> HIDE DEF b
  <2> QED
    BY <2>1, <2>2, FreeTakenOK
<1> QED
  BY <1>1, <1>2

(***************************************************************************)
(* The result of an Init method: if it made a type, the type's block is    *)
(* owner's, is held besides what was held, and can be freed.               *)
(***************************************************************************)
Made(r, held, owner) ==
  /\ r.type \in MaybeType /\ BlobOf(r.type) \subseteq {owner}
  /\ HeapOK(r.heap, held \cup BlobOf(r.type))
  /\ InfoOffered => r.type = NoMediaType \/ r.type.fmt # "ks"

(* Nothing made, nothing held. *)
LEMMA FailureMade ==
  ASSUME NEW h, NEW held, NEW owner, HeapOK(h, held)
  PROVE  /\ Made(Failure(h), held, owner)
         /\ Failure(h).type = NoMediaType /\ Failure(h).ok = FALSE
<1> DEFINE r == Failure(h)
<1>1. r.type = NoMediaType /\ r.heap = h /\ r.ok = FALSE
  BY DEF Failure, Result
<1> HIDE DEF r
<1>2. BlobOf(r.type) = {} /\ r.type \in MaybeType
  BY <1>1 DEF BlobOf, MaybeType
<1>3. held \cup {} = held
  OBVIOUS
<1>4. Made(r, held, owner)
  BY <1>1, <1>2, <1>3 DEF Made
<1> QED
  BY <1>1, <1>4 DEF r

(* The destructor of the object that holds a type gives the block back. *)
LEMMA FreeMade ==
  ASSUME NEW r, NEW held, NEW owner \in Owned, owner \notin held,
         Made(r, held, owner)
  PROVE  HeapOK(FreeMediaType(r.heap, r.type), held)
<1> DEFINE h == r.heap
           t == r.type
           all == held \cup BlobOf(t)
<1>1. /\ t \in MaybeType /\ BlobOf(t) \subseteq {owner} /\ HeapOK(h, all)
      /\ InfoOffered => t = NoMediaType \/ t.fmt # "ks"
  BY DEF Made
<1>2. /\ BlobOf(t) \subseteq all /\ BlobOf(t) \subseteq Owned
      /\ all \ BlobOf(t) = held
  BY <1>1
<1> HIDE DEF h, t, all
<1>3. HeapOK(FreeMediaType(h, t), all \ BlobOf(t))
  BY <1>1, <1>2, FreeTypeOK
<1> QED
  BY <1>2, <1>3 DEF h, t

(* A type with a block of its own, or a failed allocation. *)
LEMMA AllocateMade ==
  ASSUME NEW h, NEW held, NEW t \in MediaTypes, NEW owner \in Owned,
         NEW mem \in BOOLEAN, HeapOK(h, held), owner \notin held,
         InfoOffered => t.fmt # "ks"
  PROVE  LET r == Allocate(h, t, owner, mem)
         IN /\ Made(r, held, owner)
            /\ r.ok <=> mem
            /\ mem => r.type = [t EXCEPT !.blob = owner]
            /\ ~mem => r.type = NoMediaType
<1> DEFINE r == Allocate(h, t, owner, mem)
<1>1. CASE ~mem
  <2>1. r = Failure(h)
    BY <1>1 DEF Allocate
  <2> HIDE DEF r
  <2>2. Made(r, held, owner) /\ r.type = NoMediaType /\ r.ok = FALSE
    BY <2>1, FailureMade
  <2> QED
    BY <1>1, <2>2 DEF r
<1>2. CASE mem
  <2> DEFINE g == CoTaskMemAlloc(h, owner)
             u == [t EXCEPT !.blob = owner]
  <2>1. r.ok = TRUE /\ r.heap = g /\ r.type = u
    BY <1>2 DEF Allocate, Result
  <2>2. owner \in Blobs /\ owner # NoBlob
    BY DEF Owned, Blobs, NoBlob
  <2>3. u \in MediaTypes /\ u.blob = owner /\ u.fmt = t.fmt
    BY <2>2, OtherBlob
  <2>4. HeapOK(g, held \cup {owner})
    BY AllocOK
  <2> HIDE DEF g, u, r
  <2>5. u # NoMediaType
    BY <2>3, NotNone
  <2>6. BlobOf(u) = {owner} /\ u \in MaybeType
    BY <2>2, <2>3, <2>5 DEF BlobOf, MaybeType
  <2>7. Made(r, held, owner)
    BY <2>1, <2>3, <2>4, <2>6 DEF Made
  <2> QED
    BY <1>2, <2>1, <2>7 DEF r, u
<1> QED
  BY <1>1, <1>2

(* An AudioMediaType made from another type. *)
LEMMA AudioInitFromMade ==
  ASSUME NEW h, NEW held, NEW t \in MediaTypes, NEW owner \in Owned,
         NEW mem \in BOOLEAN, HeapOK(h, held), owner \notin held
  PROVE  Made(AudioInitFrom(h, owner, mem, t), held, owner)
<1>1. CASE t.major # "audio" \/ t.fmt # "wave" \/ t.blob = NoBlob
  <2>1. AudioInitFrom(h, owner, mem, t) = Failure(h)
    BY <1>1 DEF AudioInitFrom
  <2> QED
    BY <2>1, FailureMade
<1>2. CASE ~(t.major # "audio" \/ t.fmt # "wave" \/ t.blob = NoBlob)
  <2>1. AudioInitFrom(h, owner, mem, t) = Allocate(h, t, owner, mem)
    BY <1>2 DEF AudioInitFrom
  <2>2. t.fmt # "ks"
    BY <1>2
  <2>3. Made(Allocate(h, t, owner, mem), held, owner)
    BY <2>2, AllocateMade
  <2> QED
    BY <2>1, <2>3
<1> QED
  BY <1>1, <1>2

(* A sink pin that is asked about a type gives back what it used. *)
LEMMA CheckHeapOK ==
  ASSUME NEW h, NEW held, NEW s, NEW t \in MediaTypes, HeapOK(h, held),
         "offered" \notin held, "checked" \notin held,
         InfoOffered => t.fmt # "ks"
  PROVE  HeapOK(CheckHeap(s, t, h), held)
<1>1. CASE t.blob = NoBlob
  <2>1. CheckHeap(s, t, h) = h
    BY <1>1 DEF CheckHeap
  <2> QED
    BY <2>1
<1>2. CASE t.blob # NoBlob
  <2> DEFINE lent == CoTaskMemAlloc(h, "offered")
             own  == [t EXCEPT !.blob = "offered"]
             copy == AudioInitFrom(lent, "checked", TRUE, own)
             done == FreeMediaType(copy.heap, copy.type)
             read == IF s = "audio" /\ t.major = s
                                    /\ t.sub \in AcceptableSubType(s)
                       THEN done ELSE lent
             all  == held \cup {"offered"}
  <2>1. CheckHeap(s, t, h) = FreeMediaType(read, own)
    BY <1>2 DEF CheckHeap
  <2>2. /\ "offered" \in Owned /\ "checked" \in Owned
        /\ "offered" \in Blobs /\ "offered" # NoBlob
    BY DEF Owned, Blobs, TakenOver, NoBlob
  <2>3. HeapOK(lent, all)
    BY <2>2, AllocOK
  <2>4. own \in MediaTypes /\ own.blob = "offered" /\ own.fmt = t.fmt
    BY <2>2, OtherBlob
  <2>5. "checked" \notin all /\ "offered" \in all
    OBVIOUS
  <2>6. all \ {"offered"} = held
    OBVIOUS
  <2> HIDE DEF lent, own, all
  <2>7. Made(copy, all, "checked")
    BY <2>2, <2>3, <2>4, <2>5, AudioInitFromMade
  <2> HIDE DEF copy
  <2>8. HeapOK(done, all)
    BY <2>2, <2>5, <2>7, FreeMade
  <2> HIDE DEF done
  <2>9. HeapOK(read, all)
    BY <2>3, <2>8
  <2> HIDE DEF read
  <2>10. own # NoMediaType /\ own \in MaybeType
    BY <2>4, NotNone DEF MaybeType
  <2>11. BlobOf(own) = {"offered"}
    BY <2>2, <2>4, <2>10 DEF BlobOf
  <2>12. HeapOK(FreeMediaType(read, own), all \ BlobOf(own))
    BY <2>2, <2>4, <2>5, <2>9, <2>10, <2>11, FreeTypeOK
  <2> QED
    BY <2>1, <2>6, <2>11, <2>12
<1> QED
  BY <1>1, <1>2

(* The settings a sink pin stores. *)
LEMMA StoredSettings ==
  ASSUME NEW s, NEW t \in MediaTypes, NEW was \in Settings
  PROVE  Stored(s, t, was) \in Settings
BY DEF Stored, MediaTypes

-----------------------------------------------------------------------------
(* PinFormat::FindMatchingFormat. *)

(* A type of the pin, in a block of the caller's. *)
LEMMA CompareMade ==
  ASSUME NEW r, Made(r, {}, "enumerated"), NEW t \in Offers["audio"],
         NEW request, NEW mem \in BOOLEAN
  PROVE  /\ Made(Compare(r, t, request, mem), {}, "enumerated")
         /\ Compare(r, t, request, mem).type # NoMediaType
<1> DEFINE freed == FreeMediaType(r.heap, r.type)
           next  == IF t.blob = NoBlob THEN freed
                    ELSE CoTaskMemAlloc(freed, "enumerated")
           own   == IF t.blob = NoBlob THEN t
                    ELSE [t EXCEPT !.blob = "enumerated"]
           copy  == AudioInitFrom(next, "candidate", mem, own)
           last  == FreeMediaType(copy.heap, copy.type)
           out   == Compare(r, t, request, mem)
<1>1. out.heap = last /\ out.type = own
  BY DEF Compare, Result
<1>2. /\ "enumerated" \in Owned /\ "candidate" \in Owned
      /\ "enumerated" \in Blobs /\ "enumerated" # NoBlob
  BY DEF Owned, Blobs, TakenOver, NoBlob
<1>3. /\ t \in MediaTypes /\ t.blob \in {"device", NoBlob}
      /\ InfoOffered => t.fmt # "ks"
  BY TheStreams, OfferedType
<1>4. HeapOK(freed, {})
  BY <1>2, FreeMade
<1> HIDE DEF out, last, copy, freed
<1>5. /\ own \in MediaTypes /\ own.fmt = t.fmt
      /\ BlobOf(own) \subseteq {"enumerated"} /\ HeapOK(next, BlobOf(own))
  <2>1. CASE t.blob = NoBlob
    <3>1. own = t /\ next = freed /\ BlobOf(own) = {}
      BY <2>1 DEF BlobOf
    <3> QED
      BY <1>3, <1>4, <3>1
  <2>2. CASE t.blob # NoBlob
    <3> DEFINE u == [t EXCEPT !.blob = "enumerated"]
               g == CoTaskMemAlloc(freed, "enumerated")
    <3>1. own = u /\ next = g
      BY <2>2
    <3>2. u \in MediaTypes /\ u.blob = "enumerated" /\ u.fmt = t.fmt
      BY <1>2, <1>3, OtherBlob
    <3>3. HeapOK(g, {} \cup {"enumerated"})
      BY <1>2, <1>4, AllocOK
    <3> HIDE DEF u, g, own, next
    <3>4. BlobOf(u) = {"enumerated"}
      BY <1>2, <3>2, NotNone DEF BlobOf
    <3>5. {} \cup {"enumerated"} = {"enumerated"}
      OBVIOUS
    <3> QED
      BY <3>1, <3>2, <3>3, <3>4, <3>5
  <2> QED
    BY <2>1, <2>2
<1> DEFINE held == BlobOf(own)
<1> HIDE DEF own, next
<1>6. "candidate" \notin held
  BY <1>5
<1>7. Made(copy, held, "candidate")
  <2> HIDE DEF held
  <2>1. own \in MediaTypes /\ HeapOK(next, held)
    BY <1>5 DEF held
  <2> QED
    BY <1>2, <1>6, <2>1, AudioInitFromMade DEF copy
<1>8. HeapOK(last, held)
  <2> HIDE DEF held
  <2> QED
    BY <1>2, <1>6, <1>7, FreeMade DEF last
<1>9. own # NoMediaType /\ own \in MaybeType
  BY <1>5, NotNone DEF MaybeType
<1>10. {} \cup held = held
  OBVIOUS
<1>11. Made(out, {}, "enumerated")
  BY <1>1, <1>3, <1>5, <1>8, <1>9, <1>10 DEF Made
<1> QED
  BY <1>1, <1>9, <1>11 DEF out

(* What FindMatchingFormat has after the first k types, from f, ... *)
Tried(f, k, types, request, mem) ==
  IF f.ok THEN f ELSE Compare(f, types[k], request, mem)

(* ... f is the function that says so for each of n types, ... *)
Trials(f, n, h, types, request, mem) ==
  f = [k \in 0..n |-> IF k = 0 THEN Failure(h)
                      ELSE IF f[k - 1].ok THEN f[k - 1]
                      ELSE Compare(f[k - 1], types[k], request, mem)]

(* ... by its values, ... *)
LEMMA TrialsStep ==
  ASSUME NEW f, NEW n, NEW h, NEW types, NEW request, NEW mem,
         Trials(f, n, h, types, request, mem), NEW k \in 0..n
  PROVE  f[k] = IF k = 0 THEN Failure(h)
                ELSE Tried(f[k - 1], k, types, request, mem)
<1> DEFINE g == [j \in 0..n |->
                   IF j = 0 THEN Failure(h)
                   ELSE IF f[j - 1].ok THEN f[j - 1]
                   ELSE Compare(f[j - 1], types[j], request, mem)]
<1>1. f = g
  BY DEF Trials
<1>2. g[k] = IF k = 0 THEN Failure(h)
             ELSE Tried(f[k - 1], k, types, request, mem)
  BY DEF Tried
<1> HIDE DEF g
<1> QED
  BY <1>1, <1>2

(* ... and there is one. *)
LEMMA TrialsExists ==
  ASSUME NEW n \in Nat, NEW h, NEW types, NEW request, NEW mem
  PROVE  \E f : Trials(f, n, h, types, request, mem)
<1> DEFINE T == {k \in Nat : \E f : Trials(f, k, h, types, request, mem)}
<1>1. 0 \in T
  <2> DEFINE g == [i \in 0..0 |-> Failure(h)]
  <2> HIDE DEF g
  <2> DEFINE f == [k \in 0..0 |-> IF k = 0 THEN Failure(h)
                      ELSE IF g[k - 1].ok THEN g[k - 1]
                      ELSE Compare(g[k - 1], types[k], request, mem)]
  <2>1. \A k \in 0..0 : g[k] = f[k]
    BY DEF g
  <2>2. /\ DOMAIN f = 0..0 /\ f = [k \in 0..0 |-> f[k]]
        /\ DOMAIN g = 0..0 /\ g = [k \in 0..0 |-> g[k]]
    BY DEF g
  <2> HIDE DEF f
  <2>3. g = f
    BY <2>1, <2>2
  <2>4. Trials(g, 0, h, types, request, mem)
    BY <2>3 DEF Trials, f
  <2> QED
    BY <2>4
<1>2. ASSUME NEW k \in Nat, k \in T PROVE k + 1 \in T
  <2>1. PICK f : Trials(f, k, h, types, request, mem)
    BY <1>2
  <2> DEFINE g == [i \in 0..(k + 1) |->
                     IF i = k + 1 THEN Tried(f[k], i, types, request, mem)
                     ELSE f[i]]
  <2>2. ASSUME NEW i \in 0..(k + 1)
        PROVE  g[i] = IF i = 0 THEN Failure(h)
                      ELSE Tried(g[i - 1], i, types, request, mem)
    <3>1. CASE i = k + 1
      <4>1. i - 1 = k /\ k \in 0..(k + 1) /\ k # k + 1 /\ i # 0
        BY <3>1
      <4>2. g[i - 1] = f[k] /\ g[i] = Tried(f[k], i, types, request, mem)
        BY <3>1, <4>1
      <4> QED
        BY <4>1, <4>2
    <3>2. CASE i # k + 1
      <4>1. i \in 0..k
        BY <3>2
      <4>2. f[i] = IF i = 0 THEN Failure(h)
                   ELSE Tried(f[i - 1], i, types, request, mem)
        BY <2>1, <4>1, TrialsStep
      <4>3. g[i] = f[i]
        BY <3>2
      <4>4. i # 0 => g[i - 1] = f[i - 1]
        BY <4>1
      <4> QED
        BY <4>2, <4>3, <4>4
    <3> QED
      BY <3>1, <3>2
  <2>3. DOMAIN g = 0..(k + 1) /\ g = [i \in 0..(k + 1) |-> g[i]]
    OBVIOUS
  <2> HIDE DEF g
  <2> DEFINE u == [i \in 0..(k + 1) |->
                     IF i = 0 THEN Failure(h)
                     ELSE IF g[i - 1].ok THEN g[i - 1]
                     ELSE Compare(g[i - 1], types[i], request, mem)]
  <2>4. g = u
    <3>1. \A i \in 0..(k + 1) : g[i] = u[i]
      BY <2>2 DEF Tried
    <3>2. DOMAIN u = 0..(k + 1) /\ u = [i \in 0..(k + 1) |-> u[i]]
      OBVIOUS
    <3> HIDE DEF u
    <3> QED
      BY <2>3, <3>1, <3>2
  <2>5. Trials(g, k + 1, h, types, request, mem)
    BY <2>4 DEF Trials
  <2> QED
    BY <2>5
<1> HIDE DEF T
<1>3. Nat \subseteq T
  BY <1>1, <1>2, SetInduction
<1> QED
  BY <1>3 DEF T

(* It holds a block of the caller's while it holds a type; a match has one. *)
LEMMA TrialsMade ==
  ASSUME NEW types \in Seq(Offers["audio"]), NEW h, NEW request,
         NEW mem \in BOOLEAN, HeapOK(h, {}), NEW f,
         Trials(f, Len(types), h, types, request, mem)
  PROVE  /\ Made(f[Len(types)], {}, "enumerated")
         /\ f[Len(types)].ok => f[Len(types)].type # NoMediaType
<1> DEFINE n == Len(types)
           P(k) == f[k].ok => f[k].type # NoMediaType
           T == {k \in Nat : k \in 0..n => Made(f[k], {}, "enumerated") /\ P(k)}
<1>1. n \in Nat /\ types \in [1..n -> Offers["audio"]]
  BY LenProperties
<1>2. Trials(f, n, h, types, request, mem)
  OBVIOUS
<1> HIDE DEF n
<1>3. 0 \in T
  <2>1. 0 \in 0..n
    BY <1>1
  <2>2. f[0] = Failure(h)
    BY <1>2, <2>1, TrialsStep
  <2>3. Failure(h).ok = FALSE /\ Made(Failure(h), {}, "enumerated")
    BY FailureMade
  <2> QED
    BY <2>2, <2>3
<1>4. ASSUME NEW k \in Nat, k \in T PROVE k + 1 \in T
  <2>1. CASE k + 1 \notin 0..n
    BY <2>1
  <2>2. CASE k + 1 \in 0..n
    <3>1. /\ k \in 0..n /\ k + 1 \in 1..n /\ (k + 1) - 1 = k /\ k + 1 # 0
          /\ Made(f[k], {}, "enumerated") /\ P(k)
      BY <1>1, <1>4, <2>2
    <3>2. f[k + 1] = Tried(f[k], k + 1, types, request, mem)
      <4>1. f[k + 1] = IF k + 1 = 0 THEN Failure(h)
                       ELSE Tried(f[(k + 1) - 1], k + 1, types, request, mem)
        BY <1>2, <2>2, TrialsStep
      <4> QED
        BY <3>1, <4>1
    <3> DEFINE r == f[k]
               t == types[k + 1]
    <3>3. t \in Offers["audio"] /\ Made(r, {}, "enumerated")
      BY <1>1, <3>1
    <3>4. f[k + 1] = IF r.ok THEN r ELSE Compare(r, t, request, mem)
      BY <3>2 DEF Tried
    <3>5. r.ok => r.type # NoMediaType
      BY <3>1
    <3> HIDE DEF r, t, P
    <3>6. /\ Made(Compare(r, t, request, mem), {}, "enumerated")
          /\ Compare(r, t, request, mem).type # NoMediaType
      BY <3>3, CompareMade
    <3>7. Made(f[k + 1], {}, "enumerated")
      BY <3>3, <3>4, <3>6
    <3>8. P(k + 1)
      BY <3>4, <3>5, <3>6 DEF P
    <3> QED
      BY <3>7, <3>8
  <2> QED
    BY <2>1, <2>2
<1> HIDE DEF T
<1>5. Nat \subseteq T
  BY <1>3, <1>4, SetInduction
<1>6. n \in T /\ n \in 0..n
  BY <1>1, <1>5
<1>7. Made(f[n], {}, "enumerated") /\ P(n)
  BY <1>6 DEF T
<1> QED
  BY <1>7 DEF n

(* FindMatchingFormat returns a type whose block is the caller's, or none. *)
LEMMA FindMatchingFormatMade ==
  ASSUME NEW types \in Seq(Offers["audio"]), NEW h, HeapOK(h, {}),
         NEW request, NEW mem \in BOOLEAN
  PROVE  LET r == FindMatchingFormat(h, types, request, mem)
         IN /\ Made(r, {}, "enumerated")
            /\ r.ok => r.type # NoMediaType
            /\ ~r.ok => r.type = NoMediaType
<1> DEFINE n == Len(types)
           f == CHOOSE g : g = [k \in 0..n |->
                  IF k = 0 THEN Failure(h)
                  ELSE IF g[k - 1].ok THEN g[k - 1]
                  ELSE Compare(g[k - 1], types[k], request, mem)]
           last == f[n]
           none == Failure(FreeMediaType(last.heap, last.type))
           r    == FindMatchingFormat(h, types, request, mem)
<1>1. r = IF last.ok THEN last ELSE none
  BY DEF FindMatchingFormat
<1>2. n \in Nat
  BY LenProperties
<1>3. Trials(f, n, h, types, request, mem)
  <2> HIDE DEF n
  <2>1. \E g : Trials(g, n, h, types, request, mem)
    BY <1>2, TrialsExists
  <2> QED
    BY <2>1 DEF Trials
<1> HIDE DEF f, r
<1>4. Made(last, {}, "enumerated") /\ (last.ok => last.type # NoMediaType)
  BY <1>3, TrialsMade
<1> HIDE DEF last, n
<1>5. HeapOK(FreeMediaType(last.heap, last.type), {})
  <2>1. "enumerated" \in Owned
    BY DEF Owned, Blobs, TakenOver
  <2> QED
    BY <1>4, <2>1, FreeMade
<1>6. /\ Made(none, {}, "enumerated")
      /\ none.type = NoMediaType /\ none.ok = FALSE
  BY <1>5, FailureMade
<1> HIDE DEF none
<1> QED
  BY <1>1, <1>4, <1>6 DEF r

-----------------------------------------------------------------------------
(* Configuring the source. *)

(* The pin's type after it was set, in a block of the caller's. *)
LEMMA AttachFormatMade ==
  ASSUME NEW s \in Streams, NEW t \in PinFormats(s), NEW h, NEW held,
         HeapOK(h, held), "formatter" \notin held
  PROVE  /\ Made(AttachFormat(h, t), held, "formatter")
         /\ AttachFormat(h, t).type = t
         /\ ~AttachFormat(h, t).ok => t = NoMediaType
         /\ t # NoMediaType => t.blob = "formatter"
         /\ InfoOffered => \/ t = NoMediaType
                           \/ t.fmt # "ks" /\ (s = "video" => t.fmt = "info")
<1> DEFINE r == AttachFormat(h, t)
<1>1. CASE t = NoMediaType
  <2>1. r = Result(FALSE, h, NoMediaType)
    BY <1>1 DEF AttachFormat, Attach
  <2>2. r = Failure(h)
    BY <2>1 DEF Failure
  <2> HIDE DEF r
  <2>3. Made(r, held, "formatter") /\ r.type = NoMediaType
    BY <2>2, FailureMade
  <2> QED
    BY <1>1, <2>3 DEF r
<1>2. CASE t # NoMediaType
  <2> DEFINE g == CoTaskMemAlloc(h, "formatter")
  <2>1. r.ok = TRUE /\ r.type = t /\ r.heap = g
    BY <1>2 DEF AttachFormat, Attach, Result, FreeMediaType
  <2>2. PICK u \in Offers[s] : t = [u EXCEPT !.blob = "formatter"]
    BY <1>2 DEF PinFormats
  <2>3. /\ u \in MediaTypes
        /\ InfoOffered => u.fmt # "ks" /\ (s = "video" => u.fmt = "info")
    BY OfferedType
  <2>4. /\ "formatter" \in Owned /\ "formatter" \in Blobs
        /\ "formatter" # NoBlob
    BY DEF Owned, Blobs, TakenOver, NoBlob
  <2>5. t \in MediaTypes /\ t.blob = "formatter" /\ t.fmt = u.fmt
    BY <2>2, <2>3, <2>4, OtherBlob
  <2>6. BlobOf(t) = {"formatter"} /\ t \in MaybeType
    BY <1>2, <2>4, <2>5 DEF BlobOf, MaybeType
  <2>7. HeapOK(g, held \cup {"formatter"})
    BY <2>4, AllocOK
  <2> HIDE DEF r, g
  <2>8. Made(r, held, "formatter")
    BY <2>1, <2>3, <2>5, <2>6, <2>7 DEF Made
  <2> QED
    BY <2>1, <2>3, <2>5, <2>8 DEF r
<1> QED
  BY <1>1, <1>2

(* A type is set on the pin, the pin's type read back and the type freed. *)
LEMMA SetFormatOK ==
  ASSUME NEW s \in Streams, NEW t \in PinFormats(s), NEW r,
         NEW owner \in Owned \ {"formatter"}, Made(r, {}, owner)
  PROVE  LET held == AttachFormat(r.heap, t)
             left == FreeMediaType(held.heap, r.type)
         IN /\ held.ok => Wanted(held.type, left, s)
            /\ ~held.ok => HeapOK(left, {})
<1> DEFINE h    == r.heap
           u    == r.type
           mine == BlobOf(u)
           held == AttachFormat(h, t)
           left == FreeMediaType(held.heap, u)
           all  == mine \cup BlobOf(held.type)
<1>1. /\ u \in MaybeType /\ mine \subseteq {owner} /\ HeapOK(h, mine)
      /\ InfoOffered => u = NoMediaType \/ u.fmt # "ks"
  <2>1. {} \cup mine = mine
    OBVIOUS
  <2> QED
    BY <2>1 DEF Made
<1>2. "formatter" \notin mine
  BY <1>1
<1> HIDE DEF h, mine
<1>3. /\ Made(held, mine, "formatter") /\ held.type = t
      /\ ~held.ok => t = NoMediaType
      /\ t # NoMediaType => t.blob = "formatter"
      /\ InfoOffered => \/ t = NoMediaType
                        \/ t.fmt # "ks" /\ (s = "video" => t.fmt = "info")
  BY <1>1, <1>2, AttachFormatMade
<1> HIDE DEF held
<1>4. /\ HeapOK(held.heap, all) /\ t \in MaybeType
      /\ BlobOf(held.type) \subseteq {"formatter"}
  BY <1>3 DEF Made
<1>5. mine \subseteq all /\ all \ mine = BlobOf(t) /\ mine \subseteq Owned
  BY <1>1, <1>2, <1>3, <1>4
<1> HIDE DEF all
<1>6. HeapOK(left, BlobOf(t))
  <2>1. HeapOK(FreeMediaType(held.heap, u), all \ BlobOf(u))
    BY <1>1, <1>4, <1>5, FreeTypeOK DEF mine
  <2> QED
    BY <1>5, <2>1 DEF mine
<1> HIDE DEF left
<1>7. Wanted(t, left, s)
  BY <1>3, <1>4, <1>6 DEF Wanted
<1>8. ~held.ok => HeapOK(left, {})
  <2>1. t = NoMediaType => BlobOf(t) = {}
    BY DEF BlobOf
  <2> QED
    BY <1>3, <1>6, <2>1
<1> QED
  BY <1>3, <1>7, <1>8 DEF left, held, h

(* The result of an attempt: a type to connect with, or the next attempt. *)
Attempt ==
  /\ Wanted(accepted', heap', stream)
  /\ \/ step' = "connect" /\ index' = index
     \/ NextAttempt(heap')

(* After a failure nothing is held. *)
LEMMA NextAttemptOK ==
  ASSUME NEW h, HeapOK(h, {}), NextAttempt(h)
  PROVE  Attempt
<1>1. accepted' = NoMediaType /\ heap' = h /\ NextAttempt(heap')
  BY DEF NextAttempt
<1>2. BlobOf(NoMediaType) = {} /\ NoMediaType \in MaybeType
  BY DEF BlobOf, MaybeType
<1>3. Wanted(NoMediaType, h, stream)
  BY <1>2 DEF Wanted
<1> QED
  BY <1>1, <1>3 DEF Attempt

(* The dialogs. *)
LEMMA ManualAttempt ==
  ASSUME stream \in Streams, HeapOK(heap, {}), ManualConfiguration
  PROVE  Attempt
<1>1. PICK t \in PinFormats(stream) :
        LET held == AttachFormat(heap, t)
        IN /\ held.ok
           /\ accepted' = held.type
           /\ heap' = held.heap
           /\ step' = "connect"
           /\ UNCHANGED index
  BY DEF ManualConfiguration
<1> DEFINE s == stream
           h == heap
           r == AttachFormat(h, t)
<1>2. accepted' = r.type /\ heap' = r.heap /\ step' = "connect" /\ index' = index
  BY <1>1
<1>3. s \in Streams /\ t \in PinFormats(s) /\ HeapOK(h, {})
  OBVIOUS
<1> HIDE DEF s, h
<1>4. /\ Made(r, {}, "formatter") /\ r.type = t
      /\ t # NoMediaType => t.blob = "formatter"
      /\ InfoOffered => \/ t = NoMediaType
                        \/ t.fmt # "ks" /\ (s = "video" => t.fmt = "info")
  BY <1>3, AttachFormatMade
<1> HIDE DEF r
<1>5. {} \cup BlobOf(t) = BlobOf(t)
  OBVIOUS
<1>6. Wanted(t, r.heap, s)
  BY <1>4, <1>5 DEF Wanted, Made
<1> QED
  BY <1>2, <1>4, <1>6 DEF Attempt, s

(* A zeroed VideoMediaType, ... *)
LEMMA VideoInitMade ==
  ASSUME NEW h, HeapOK(h, {}), NEW mem \in BOOLEAN
  PROVE  LET r == VideoInit(h, "format", mem, NoConfig)
         IN /\ Made(r, {}, "format")
            /\ r.ok => r.type \in MediaTypes /\ r.type.fmt = "info"
            /\ ~r.ok => r.type = NoMediaType
<1> DEFINE t == [major |-> "video", sub |-> "none", fmt |-> "info",
                 hdr |-> FALSE, config |-> NoConfig, blob |-> NoBlob]
           u == [t EXCEPT !.blob = "format"]
           r == VideoInit(h, "format", mem, NoConfig)
<1>1. r = Allocate(h, t, "format", mem)
  BY DEF VideoInit
<1>2. t \in MediaTypes /\ t.fmt = "info"
  BY DEF MediaTypes, SubTypes, Settings
<1>3. "format" \in Owned /\ "format" \in Blobs
  BY DEF Owned, Blobs, TakenOver
<1> HIDE DEF t
<1>4. u \in MediaTypes /\ u.fmt = "info"
  BY <1>2, <1>3, OtherBlob
<1>5. /\ Made(r, {}, "format")
      /\ r.ok <=> mem
      /\ mem => r.type = u
      /\ ~mem => r.type = NoMediaType
  BY <1>1, <1>2, <1>3, AllocateMade
<1> HIDE DEF r, u
<1> QED
  BY <1>4, <1>5 DEF r

(* ... made complete, ... *)
LEMMA ConfigureSubTypeMade ==
  ASSUME NEW r, Made(r, {}, "format"), r.type \in MediaTypes,
         NEW sub, NEW request \in Settings, NEW complete
  PROVE  Made(ConfigureSubType(r.heap, r.type, sub, request, complete), {},
              "format")
<1> DEFINE h == r.heap
           t == r.type
           u == [t EXCEPT !.sub = sub, !.hdr = TRUE, !.config = request]
           c == ConfigureSubType(h, t, sub, request, complete)
<1>1. /\ HeapOK(h, {} \cup BlobOf(t)) /\ BlobOf(t) \subseteq {"format"}
      /\ InfoOffered => t.fmt # "ks" \/ t = NoMediaType
  BY DEF Made
<1>2. t \in MediaTypes
  OBVIOUS
<1> HIDE DEF h, t
<1>3. t # NoMediaType
  BY <1>2, NotNone
<1>4. CASE complete /\ sub \in KnownSubTypes \ {"YUYV"}
  <2>1. c.heap = h /\ c.type = u
    BY <1>4 DEF ConfigureSubType, Result
  <2>2. sub \in SubTypes
    <3>1. /\ VideoFormats[1] = "I420" /\ VideoFormats[2] = "VP8"
          /\ VideoFormats[3] = "YV12" /\ VideoFormats[4] = "YUY2"
          /\ VideoFormats[6] = "UYVY" /\ VideoFormats[7] = "RGB"
          /\ VideoFormats[8] = "RGBA" /\ DOMAIN VideoFormats = 1..9
      BY DEF VideoFormats
    <3> QED
      BY <1>4, <3>1 DEF KnownSubTypes, SubTypes
  <2>3. u \in MediaTypes /\ u.blob = t.blob /\ u.fmt = t.fmt
    BY <1>2, <2>2 DEF MediaTypes
  <2> HIDE DEF u, c
  <2>4. u # NoMediaType
    BY <2>3, NotNone
  <2>5. BlobOf(u) = BlobOf(t) /\ u \in MaybeType
    BY <1>3, <2>3, <2>4 DEF BlobOf, MaybeType
  <2>6. Made(c, {}, "format")
    BY <1>1, <1>3, <2>1, <2>3, <2>5 DEF Made
  <2> QED
    BY <2>6 DEF c, h, t
<1>5. CASE ~(complete /\ sub \in KnownSubTypes \ {"YUYV"})
  <2>1. c.heap = h /\ c.type = t
    BY <1>5 DEF ConfigureSubType, Result
  <2> HIDE DEF c
  <2>2. t \in MaybeType
    BY <1>2 DEF MaybeType
  <2>3. Made(c, {}, "format")
    BY <1>1, <2>1, <2>2 DEF Made
  <2> QED
    BY <2>3 DEF c, h, t
<1> QED
  BY <1>4, <1>5

(* ... or partial: its block is freed and none takes its place. *)
LEMMA ConfigurePartialTypeMade ==
  ASSUME NEW r, Made(r, {}, "format"), r.type \in MediaTypes,
         NEW i \in 1..9
  PROVE  LET c == ConfigurePartialType(r.heap, r.type, VideoFormats[i])
         IN /\ HeapOK(c.heap, {}) /\ c.type \in MediaTypes
            /\ c.type.fmt = "null" /\ c.type.blob = NoBlob
<1> DEFINE h    == r.heap
           t    == r.type
           sub  == VideoFormats[i]
           bare == [t EXCEPT !.blob = NoBlob, !.fmt = "null"]
           c    == ConfigurePartialType(h, t, sub)
<1>1. sub \in SubTypes
  BY DEF SubTypes, VideoFormats
<1>2. HeapOK(FreeMediaType(h, t), {})
  <2>1. "format" \in Owned
    BY DEF Owned, Blobs, TakenOver
  <2> QED
    BY <2>1, FreeMade
<1>3. t \in MediaTypes
  OBVIOUS
<1> HIDE DEF sub, h, t
<1>4. /\ c.heap = FreeMediaType(h, t)
      /\ c.type = IF sub \in KnownSubTypes THEN [bare EXCEPT !.sub = sub]
                                           ELSE bare
  BY DEF ConfigurePartialType, Result
<1>5. bare \in MediaTypes /\ bare.fmt = "null" /\ bare.blob = NoBlob
  BY <1>3 DEF MediaTypes
<1> HIDE DEF bare
<1>6. /\ [bare EXCEPT !.sub = sub] \in MediaTypes
      /\ [bare EXCEPT !.sub = sub].fmt = "null"
      /\ [bare EXCEPT !.sub = sub].blob = NoBlob
  BY <1>1, <1>5 DEF MediaTypes
<1> HIDE DEF c
<1> QED
  BY <1>2, <1>4, <1>5, <1>6 DEF c, h, t, sub

(* A type without a block is copied as it is. *)
LEMMA CopyPartialOK ==
  ASSUME NEW h, HeapOK(h, {}), NEW t \in MediaTypes, t.fmt = "null",
         t.blob = NoBlob, NEW works \in BOOLEAN, NEW s
  PROVE  LET bare == Copy(h, NoMediaType, t, "copy", works)
             left == FreeMediaType(bare.heap, t)
         IN /\ bare.ok => Wanted(bare.type, left, s)
            /\ ~bare.ok => HeapOK(left, {})
<1> DEFINE bare == Copy(h, NoMediaType, t, "copy", works)
           left == FreeMediaType(bare.heap, t)
<1>1. t # NoMediaType /\ BlobOf(t) = {} /\ t \in MaybeType
  BY NotNone DEF BlobOf, MaybeType
<1>2. bare.heap = h
  BY <1>1 DEF Copy, Attach, Result, FreeMediaType
<1>3. bare.ok => bare.type = t
  BY <1>1 DEF Copy, Attach, Result, FreeMediaType
<1> HIDE DEF bare
<1>4. left = h
  BY <1>2 DEF FreeMediaType
<1> HIDE DEF left
<1>5. Wanted(t, h, s)
  BY <1>1 DEF Wanted
<1> QED
  BY <1>3, <1>4, <1>5 DEF bare, left

(* ConfigureVideoSource, ... *)
LEMMA VideoAttempt ==
  ASSUME IInv, step = "configure", stream = "video", ConfigureVideo
  PROVE  Attempt
<1>1. PICK mem \in BOOLEAN, works \in BOOLEAN, t \in PinFormats("video") :
        LET request  == requested["video"]
            sub      == VideoFormats[index + 1]
            fresh    == VideoInit(heap, "format", mem, NoConfig)
            complete == ConfigureSubType(fresh.heap, fresh.type, sub, request,
                                         request # "partial")
            partial  == ConfigurePartialType(fresh.heap, fresh.type, sub)
            full     == AttachFormat(complete.heap, t)
            bare     == Copy(partial.heap, NoMediaType, partial.type, "copy",
                             works)
            Done(held, local) ==
              LET left == FreeMediaType(held.heap, local)
              IN IF held.ok THEN /\ accepted' = held.type
                                 /\ heap' = left
                                 /\ step' = "connect"
                                 /\ UNCHANGED index
                            ELSE NextAttempt(left)
        IN \/ ~fresh.ok /\ NextAttempt(fresh.heap)
           \/ /\ fresh.ok /\ request # "none"
              /\ IF complete.ok /\ works
                   THEN Done(full, complete.type)
                   ELSE NextAttempt(FreeMediaType(complete.heap,
                                                  complete.type))
           \/ /\ fresh.ok /\ request = "none"
              /\ IF partial.ok
                   THEN Done(bare, partial.type)
                   ELSE NextAttempt(FreeMediaType(partial.heap, partial.type))
  BY DEF ConfigureVideo
<1> DEFINE h        == heap
           request  == requested["video"]
           sub      == VideoFormats[index + 1]
           fresh    == VideoInit(h, "format", mem, NoConfig)
           complete == ConfigureSubType(fresh.heap, fresh.type, sub, request,
                                        request # "partial")
           partial  == ConfigurePartialType(fresh.heap, fresh.type, sub)
           full     == AttachFormat(complete.heap, t)
           bare     == Copy(partial.heap, NoMediaType, partial.type, "copy",
                            works)
           Done(held, local) ==
             LET left == FreeMediaType(held.heap, local)
             IN IF held.ok THEN /\ accepted' = held.type
                                /\ heap' = left
                                /\ step' = "connect"
                                /\ UNCHANGED index
                           ELSE NextAttempt(left)
<1>2. \/ ~fresh.ok /\ NextAttempt(fresh.heap)
      \/ /\ fresh.ok /\ complete.ok /\ works
         /\ Done(full, complete.type)
      \/ /\ fresh.ok
         /\ NextAttempt(FreeMediaType(complete.heap, complete.type))
      \/ fresh.ok /\ Done(bare, partial.type)
      \/ /\ fresh.ok
         /\ NextAttempt(FreeMediaType(partial.heap, partial.type))
  BY <1>1
<1>3. HeapOK(h, {}) /\ request \in Settings /\ index + 1 \in 1..9
  <2>1. accepted = NoMediaType
    BY DEF IInv, Blocks
  <2>2. HeapOK(h, BlobOf(accepted)) /\ BlobOf(accepted) = {}
    BY <2>1 DEF IInv, Blocks, Wanted, BlobOf
  <2>3. request \in Settings
    BY TheStreams DEF IInv, InitTyped
  <2>4. index \in 0..9 /\ index < 9
    BY DEF IInv, InitTyped, Asked, DefaultIndex, VideoFormats
  <2> QED
    BY <2>2, <2>3, <2>4
<1> HIDE DEF h, request
<1>4. /\ Made(fresh, {}, "format")
      /\ fresh.ok => fresh.type \in MediaTypes
      /\ ~fresh.ok => fresh.type = NoMediaType
  BY <1>3, VideoInitMade
<1> HIDE DEF fresh
<1>5. /\ "video" \in Streams /\ stream \in Streams
      /\ "format" \in Owned \ {"formatter"}
  BY TheStreams DEF Owned, Blobs, TakenOver
<1>6. ASSUME NEW held, NEW local, Done(held, local),
             LET left == FreeMediaType(held.heap, local)
             IN /\ held.ok => Wanted(held.type, left, "video")
                /\ ~held.ok => HeapOK(left, {})
      PROVE  Attempt
  <2> DEFINE left == FreeMediaType(held.heap, local)
  <2>1. CASE held.ok
    <3>1. /\ accepted' = held.type /\ heap' = left /\ step' = "connect"
          /\ index' = index
      BY <1>6, <2>1
    <3>2. Wanted(held.type, left, "video")
      BY <1>6, <2>1
    <3> HIDE DEF left
    <3> QED
      BY <3>1, <3>2 DEF Attempt
  <2>2. CASE ~held.ok
    <3>1. NextAttempt(left) /\ HeapOK(left, {})
      BY <1>6, <2>2
    <3> HIDE DEF left
    <3> QED
      BY <3>1, NextAttemptOK
  <2> QED
    BY <2>1, <2>2
<1> HIDE DEF Done
<1>7. CASE ~fresh.ok /\ NextAttempt(fresh.heap)
  <2> DEFINE g == fresh.heap
  <2>1. HeapOK(g, {})
    <3>1. BlobOf(fresh.type) = {} /\ {} \cup {} = {}
      BY <1>4, <1>7 DEF BlobOf
    <3> QED
      BY <1>4, <3>1 DEF Made
  <2>2. NextAttempt(g)
    BY <1>7
  <2> HIDE DEF g
  <2> QED
    BY <2>1, <2>2, NextAttemptOK
<1>8. ASSUME fresh.ok PROVE Made(complete, {}, "format")
  BY <1>3, <1>4, <1>8, ConfigureSubTypeMade
<1>9. ASSUME fresh.ok
      PROVE  /\ HeapOK(partial.heap, {}) /\ partial.type \in MediaTypes
             /\ partial.type.fmt = "null" /\ partial.type.blob = NoBlob
  <2> DEFINE i == index + 1
  <2>1. fresh.type \in MediaTypes /\ i \in 1..9
    BY <1>3, <1>4, <1>9
  <2> HIDE DEF i
  <2>2. LET c == ConfigurePartialType(fresh.heap, fresh.type, VideoFormats[i])
        IN /\ HeapOK(c.heap, {}) /\ c.type \in MediaTypes
           /\ c.type.fmt = "null" /\ c.type.blob = NoBlob
    BY <1>4, <2>1, ConfigurePartialTypeMade
  <2> QED
    BY <2>2 DEF i
<1> HIDE DEF complete, partial, sub
<1>10. CASE fresh.ok /\ complete.ok /\ works /\ Done(full, complete.type)
  <2>1. LET left == FreeMediaType(full.heap, complete.type)
        IN /\ full.ok => Wanted(full.type, left, "video")
           /\ ~full.ok => HeapOK(left, {})
    BY <1>5, <1>8, <1>10, SetFormatOK
  <2> HIDE DEF full
  <2> QED
    BY <1>6, <1>10, <2>1
<1>11. CASE fresh.ok /\ NextAttempt(FreeMediaType(complete.heap, complete.type))
  <2> DEFINE g == FreeMediaType(complete.heap, complete.type)
  <2>1. HeapOK(g, {})
    BY <1>5, <1>8, <1>11, FreeMade
  <2>2. NextAttempt(g)
    BY <1>11
  <2> HIDE DEF g
  <2> QED
    BY <2>1, <2>2, NextAttemptOK
<1>12. CASE fresh.ok /\ Done(bare, partial.type)
  <2>1. LET left == FreeMediaType(bare.heap, partial.type)
        IN /\ bare.ok => Wanted(bare.type, left, "video")
           /\ ~bare.ok => HeapOK(left, {})
    BY <1>9, <1>12, CopyPartialOK
  <2> HIDE DEF bare
  <2> QED
    BY <1>6, <1>12, <2>1
<1>13. CASE fresh.ok /\ NextAttempt(FreeMediaType(partial.heap, partial.type))
  <2> DEFINE g == FreeMediaType(partial.heap, partial.type)
  <2>1. g = partial.heap
    BY <1>9, <1>13 DEF FreeMediaType
  <2>2. NextAttempt(g) /\ HeapOK(g, {})
    BY <1>9, <1>13, <2>1
  <2> HIDE DEF g
  <2> QED
    BY <2>2, NextAttemptOK
<1> QED
  BY <1>2, <1>7, <1>10, <1>11, <1>12, <1>13

(* The audio type that is set on the pin. *)
LEMMA ChooseAudioTypeMade ==
  ASSUME NEW h, HeapOK(h, {}), NEW listed \in Seq(Offers["audio"]),
         NEW request \in Settings, NEW mem \in BOOLEAN
  PROVE  \E owner \in Owned \ {"formatter"} :
           Made(ChooseAudioType(h, listed, request, mem), {}, owner)
<1> DEFINE match  == FindMatchingFormat(h, listed, request, mem)
           fresh  == AudioInit(match.heap, "format", mem, NoConfig)
           user   == AudioConfigure(fresh.heap, fresh.type, request)
           made   == IF fresh.ok THEN user ELSE fresh
           chosen == ChooseAudioType(h, listed, request, mem)
<1>1. chosen = IF match.ok THEN match ELSE made
  BY DEF ChooseAudioType
<1>2. /\ "format" \in Owned \ {"formatter"}
      /\ "enumerated" \in Owned \ {"formatter"}
  BY DEF Owned, Blobs, TakenOver
<1> HIDE DEF chosen
<1>3. /\ Made(match, {}, "enumerated")
      /\ ~match.ok => match.type = NoMediaType
  BY FindMatchingFormatMade
<1> HIDE DEF match
<1>4. ASSUME ~match.ok PROVE Made(made, {}, "format")
  <2> DEFINE g == match.heap
             w == [major |-> "audio", sub |-> "PCM", fmt |-> "wave",
                   hdr |-> TRUE, config |-> NoConfig, blob |-> NoBlob]
             x == [w EXCEPT !.blob = "format"]
             y == [x EXCEPT !.config = request]
  <2>1. HeapOK(g, {})
    <3>1. BlobOf(match.type) = {} /\ {} \cup {} = {}
      BY <1>3, <1>4 DEF BlobOf
    <3> QED
      BY <1>3, <3>1 DEF Made
  <2>2. fresh = Allocate(g, w, "format", mem)
    BY DEF AudioInit
  <2>3. w \in MediaTypes /\ w.fmt = "wave"
    BY DEF MediaTypes, SubTypes, Settings
  <2>4. "format" \in Blobs /\ "format" # NoBlob
    BY DEF Blobs, NoBlob
  <2> HIDE DEF g, w
  <2>5. x \in MediaTypes /\ x.fmt = "wave" /\ x.blob = "format"
    BY <2>3, <2>4, OtherBlob
  <2>6. /\ Made(fresh, {}, "format")
        /\ fresh.ok <=> mem
        /\ mem => fresh.type = x
    BY <1>2, <2>1, <2>2, <2>3, AllocateMade
  <2> HIDE DEF x, fresh
  <2>7. y \in MediaTypes /\ y.fmt = "wave" /\ y.blob = "format"
    BY <2>5 DEF MediaTypes
  <2>8. ASSUME fresh.ok PROVE Made(user, {}, "format")
    <3>1. user.heap = fresh.heap /\ user.type = y /\ fresh.type = x
      BY <2>6, <2>8 DEF AudioConfigure, Result
    <3> HIDE DEF user, y
    <3>2. /\ BlobOf(x) = {"format"} /\ BlobOf(y) = {"format"}
          /\ y \in MaybeType
      BY <2>4, <2>5, <2>7, NotNone DEF BlobOf, MaybeType
    <3> QED
      BY <2>6, <2>7, <3>1, <3>2 DEF Made
  <2> QED
    BY <2>6, <2>8
<1> HIDE DEF made
<1>5. CASE match.ok
  <2>1. chosen = match
    BY <1>1, <1>5
  <2>2. Made(chosen, {}, "enumerated")
    BY <1>3, <2>1
  <2> QED
    BY <1>2, <2>2 DEF chosen
<1>6. CASE ~match.ok
  <2>1. chosen = made
    BY <1>1, <1>6
  <2>2. Made(chosen, {}, "format")
    BY <1>4, <1>6, <2>1
  <2> QED
    BY <1>2, <2>2 DEF chosen
<1> QED
  BY <1>5, <1>6

(* The pin's first two types. *)
LEMMA ListedTypes ==
  ASSUME NEW T,
         NEW listed \in {<<>>} \cup {<<t>> : t \in T}
                               \cup {<<t, u>> : t \in T, u \in T}
  PROVE  listed \in Seq(T)
<1>1. \/ listed = <<>>
      \/ \E t \in T : listed = <<t>>
      \/ \E t \in T, u \in T : listed = <<t, u>>
  OBVIOUS
<1>2. CASE listed = <<>>
  BY <1>2
<1>3. ASSUME NEW t \in T, listed = <<t>> PROVE listed \in Seq(T)
  BY <1>3
<1>4. ASSUME NEW t \in T, NEW u \in T, listed = <<t, u>>
      PROVE  listed \in Seq(T)
  BY <1>4
<1> QED
  BY <1>1, <1>2, <1>3, <1>4

(* ... ConfigureAudioSource, ... *)
LEMMA AudioAttempt ==
  ASSUME IInv, step = "configure", stream = "audio", ConfigureAudio
  PROVE  Attempt
<1> DEFINE h       == heap
           request == requested["audio"]
<1>1. PICK mem \in BOOLEAN, works \in BOOLEAN, type \in PinFormats("audio"),
           listed \in {<<>>} \cup {<<t>> : t \in Offers["audio"]}
                             \cup {<<t, u>> : t \in Offers["audio"],
                                              u \in Offers["audio"]} :
        LET chosen == ChooseAudioType(h, listed, request, mem)
            held   == AttachFormat(chosen.heap, type)
        IN IF chosen.ok /\ works /\ held.ok
             THEN /\ accepted' = held.type
                  /\ heap' = FreeMediaType(held.heap, chosen.type)
                  /\ step' = "connect"
                  /\ UNCHANGED index
             ELSE NextAttempt(FreeMediaType(chosen.heap, chosen.type))
  BY DEF ConfigureAudio
<1> DEFINE chosen == ChooseAudioType(h, listed, request, mem)
<1> HIDE DEF chosen
<1> DEFINE held == AttachFormat(chosen.heap, type)
           left == FreeMediaType(held.heap, chosen.type)
           none == FreeMediaType(chosen.heap, chosen.type)
<1>2. \/ /\ held.ok
         /\ accepted' = held.type
         /\ heap' = left
         /\ step' = "connect"
         /\ index' = index
      \/ NextAttempt(none)
  BY <1>1 DEF chosen
<1>3. HeapOK(h, {}) /\ request \in Settings
  <2>1. accepted = NoMediaType
    BY DEF IInv, Blocks
  <2>2. HeapOK(h, BlobOf(accepted)) /\ BlobOf(accepted) = {}
    BY <2>1 DEF IInv, Blocks, Wanted, BlobOf
  <2>3. request \in Settings
    BY TheStreams DEF IInv, InitTyped
  <2> QED
    BY <2>2, <2>3
<1> HIDE DEF h, request
<1>4. listed \in Seq(Offers["audio"])
  BY ListedTypes
<1>5. PICK owner \in Owned \ {"formatter"} : Made(chosen, {}, owner)
  BY <1>3, <1>4, ChooseAudioTypeMade DEF chosen
<1>6. "audio" \in Streams /\ stream = "audio"
  BY TheStreams
<1>7. /\ held.ok => Wanted(held.type, left, "audio")
      /\ ~held.ok => HeapOK(left, {})
  BY <1>5, <1>6, SetFormatOK
<1>8. HeapOK(none, {})
  <2>1. owner \in Owned /\ owner \notin {}
    BY <1>5
  <2> QED
    BY <1>5, <2>1, FreeMade
<1> HIDE DEF held, left, none
<1>9. CASE /\ held.ok /\ accepted' = held.type /\ heap' = left
           /\ step' = "connect" /\ index' = index
  BY <1>6, <1>7, <1>9 DEF Attempt
<1>10. CASE NextAttempt(none)
  BY <1>8, <1>10, NextAttemptOK
<1> QED
  BY <1>2, <1>9, <1>10

(* The main thread. *)

(* A step of Init that leaves the sinks and the heap alone. *)
LEMMA QuietStep ==
  ASSUME IInv, step \in Steps \ {"connect", "readback", "ready", "gone"},
         step' \notin {"readback", "gone"},
         UNCHANGED <<enabled, actual, accepted, sinkVars, enc>>
  PROVE  SinkTyped' /\ Queue' /\ Threads' /\ Described' /\ Blocks'
<1>1. /\ enc = "none" /\ accepted = NoMediaType
      /\ HeapOK(heap, BlobOf(accepted))
  BY DEF IInv, Threads, Blocks, Wanted
<1>2. /\ config' = config /\ conn' = conn /\ flow' = flow /\ asked' = asked
      /\ state' = state /\ rterr' = rterr /\ lock' = lock /\ cap' = cap
      /\ events' = events /\ heap' = heap /\ accepted' = accepted
      /\ enabled' = enabled /\ actual' = actual /\ enc' = enc
  BY DEF sinkVars, pinVars
<1>3. SinkTyped'
  BY <1>2 DEF IInv, SinkTyped
<1>4. Queue'
  BY <1>2 DEF IInv, Queue
<1>5. Threads'
  BY <1>1, <1>2 DEF IInv, Threads
<1>6. Described'
  BY <1>2 DEF IInv, Described
<1>7. Blocks'
  <2>1. Wanted(NoMediaType, heap, stream')
    BY <1>1 DEF Wanted, MaybeType
  <2>2. Wanted(accepted', heap', stream')
    BY <1>1, <1>2, <2>1
  <2>3. /\ accepted' = NoMediaType
        /\ InfoOffered /\ conn'["video"] # NoMediaType
             => conn'["video"].fmt = "info"
    BY <1>1, <1>2 DEF IInv, Blocks
  <2> QED
    BY <2>2, <2>3 DEF Blocks
<1> QED
  BY <1>3, <1>4, <1>5, <1>6, <1>7

(* Init fails. *)
LEMMA FailedStep ==
  ASSUME IInv, NEW at \in {"start", "source", "sink", "default", "control"},
         InitFails(at), UNCHANGED <<accepted, sinkVars, enc>>
  PROVE  /\ InitTyped' /\ SinkTyped' /\ Queue' /\ Asked'
         /\ Threads' /\ Described' /\ Blocks'
<1>1. /\ step = at /\ step' = "failed"
      /\ stream' = stream /\ index' = index /\ enabled' = enabled
      /\ requested' = requested /\ manual' = manual /\ dialogs' = dialogs
      /\ actual' = actual
  BY DEF InitFails
<1>2. InitTyped'
  BY <1>1 DEF IInv, InitTyped, Steps
<1>3. Asked'
  BY <1>1 DEF IInv, Asked
<1>4. SinkTyped' /\ Queue' /\ Threads' /\ Described' /\ Blocks'
  BY <1>1, QuietStep DEF Steps
<1> QED
  BY <1>2, <1>3, <1>4

(* CoInitialize and CoUninitialize are not concerned. *)
LEMMA BalancedKept ==
  ASSUME IInv, UNCHANGED <<enc, com>>, step' \notin {"start", "gone"},
         step # "gone"
  PROVE  Balanced'
BY DEF IInv, Balanced

(* The graph is created. *)
LEMMA CreateGraphKeeps ==
  ASSUME IInv, CreateGraph
  PROVE  IInv'
<1>1. step = "start" /\ UNCHANGED <<accepted, sinkVars, enc>>
  BY DEF CreateGraph, InitFails
<1>2. step' \in {"source", "failed"}
  BY DEF CreateGraph, InitFails
<1>3. com' \in {com, [com EXCEPT !.main = @ + 1]}
  BY DEF CreateGraph
<1>4. Balanced'
  <2>1. /\ com \in [main : -1..1, encoder : 0..1] /\ com.main = 0
        /\ enc' = enc
    BY <1>1 DEF IInv, Balanced
  <2>2. /\ com' \in [main : -1..1, encoder : 0..1] /\ com'.main \in 0..1
        /\ com'.encoder = com.encoder
    BY <1>3, <2>1
  <2> QED
    BY <1>2, <2>1, <2>2 DEF IInv, Balanced
<1>5. CASE InitFails("start")
  <2>1. /\ InitTyped' /\ SinkTyped' /\ Queue' /\ Asked'
        /\ Threads' /\ Described' /\ Blocks'
    BY <1>1, <1>5, FailedStep
  <2> QED
    BY <1>4, <2>1 DEF IInv
<1>6. CASE ~InitFails("start")
  <2>1. /\ step' = "source"
        /\ stream' = IF "video" \in enabled THEN "video" ELSE "audio"
        /\ index' = index /\ enabled' = enabled /\ requested' = requested
        /\ manual' = manual /\ dialogs' = dialogs /\ actual' = actual
    BY <1>6 DEF CreateGraph
  <2>2. index = 0 /\ stream = "video" /\ dialogs["audio"] = 0
    BY <1>1 DEF IInv, Asked
  <2>3. stream' \in Streams /\ index' \in 0..DefaultIndex(stream')
    BY <2>1, <2>2, TheStreams DEF DefaultIndex, VideoFormats
  <2>4. InitTyped'
    BY <2>1, <2>3 DEF IInv, InitTyped, Steps
  <2>5. Asked'
    BY <2>1, <2>2 DEF IInv, Asked
  <2>6. SinkTyped' /\ Queue' /\ Threads' /\ Described' /\ Blocks'
    BY <1>1, <2>1, QuietStep DEF Steps
  <2> QED
    BY <1>4, <2>4, <2>5, <2>6 DEF IInv
<1> QED
  BY <1>5, <1>6

(* A part of Init that only goes on to the next. *)
LEMMA NextPart ==
  ASSUME IInv, step \in {"source", "sink", "default", "control"},
         step' \in {"sink", "configure", "connect", "ready"},
         step' = "sink" => step = "source",
         step' = "configure" => step = "sink" /\ index' = 0,
         step' # "configure" => index' = index,
         UNCHANGED <<stream, enabled, requested, manual, dialogs, actual,
                     accepted, sinkVars, enc, com>>
  PROVE  IInv'
<1>1. index' \in 0..DefaultIndex(stream)
  <2>1. DefaultIndex(stream) \in Nat /\ DefaultIndex(stream) > 0
    BY DEF DefaultIndex, VideoFormats
  <2> QED
    BY <2>1 DEF IInv, InitTyped
<1>2. InitTyped'
  BY <1>1 DEF IInv, InitTyped, Steps
<1>3. Asked'
  <2>1. 0 < DefaultIndex(stream)
    BY DEF DefaultIndex, VideoFormats
  <2> QED
    BY <2>1 DEF IInv, Asked
<1>4. SinkTyped' /\ Queue' /\ Threads' /\ Described' /\ Blocks'
  BY QuietStep DEF Steps
<1>5. Balanced'
  BY BalancedKept
<1> QED
  BY <1>2, <1>3, <1>4, <1>5 DEF IInv

(* The sources, ... *)
LEMMA CreateSourceKeeps ==
  ASSUME IInv, CreateSource
  PROVE  IInv'
<1>1. /\ step = "source" /\ step' = "sink" /\ index' = index
      /\ UNCHANGED <<stream, enabled, requested, manual, dialogs, actual,
                     accepted, sinkVars, enc, com>>
  BY DEF CreateSource
<1> QED
  BY <1>1, NextPart

(* ... Init fails in one of its parts, ... *)
LEMMA FailsKeeps ==
  ASSUME IInv, NEW at \in {"source", "sink", "default", "control"},
         InitFails(at), UNCHANGED <<accepted, sinkVars, enc, com>>
  PROVE  IInv'
<1>1. /\ InitTyped' /\ SinkTyped' /\ Queue' /\ Asked'
      /\ Threads' /\ Described' /\ Blocks'
  BY FailedStep
<1>2. step = at /\ step' = "failed"
  BY DEF InitFails
<1>3. Balanced'
  BY <1>2, BalancedKept
<1> QED
  BY <1>1, <1>3 DEF IInv

(* ... the sink filters, ... *)
LEMMA CreateSinkKeeps ==
  ASSUME IInv, CreateSink
  PROVE  IInv'
<1>1. CASE InitFails("sink")
  <2>1. UNCHANGED <<accepted, sinkVars, enc, com>>
    BY DEF CreateSink
  <2> QED
    BY <1>1, <2>1, FailsKeeps
<1>2. CASE ~InitFails("sink")
  <2>1. /\ step = "sink" /\ step' = "configure" /\ index' = 0
        /\ UNCHANGED <<stream, enabled, requested, manual, dialogs, actual,
                       accepted, sinkVars, enc, com>>
    BY <1>2 DEF CreateSink
  <2> QED
    BY <2>1, NextPart
<1> QED
  BY <1>1, <1>2

(* ... the default format, ... *)
LEMMA DefaultFormatKeeps ==
  ASSUME IInv, DefaultFormat
  PROVE  IInv'
<1>1. CASE InitFails("default")
  <2>1. UNCHANGED <<accepted, sinkVars, enc, com>>
    BY DEF DefaultFormat
  <2> QED
    BY <1>1, <2>1, FailsKeeps
<1>2. CASE ~InitFails("default")
  <2>1. /\ step = "default" /\ step' = "connect" /\ index' = index
        /\ UNCHANGED <<stream, enabled, requested, manual, dialogs, actual,
                       accepted, sinkVars, enc, com>>
    BY <1>2 DEF DefaultFormat
  <2> QED
    BY <2>1, NextPart
<1> QED
  BY <1>1, <1>2

(* ... and the graph's controls. *)
LEMMA InitGraphControlKeeps ==
  ASSUME IInv, InitGraphControl
  PROVE  IInv'
<1>1. CASE InitFails("control")
  <2>1. UNCHANGED <<accepted, sinkVars, enc, com>>
    BY DEF InitGraphControl
  <2> QED
    BY <1>1, <2>1, FailsKeeps
<1>2. CASE ~InitFails("control")
  <2>1. /\ step = "control" /\ step' = "ready" /\ index' = index
        /\ UNCHANGED <<stream, enabled, requested, manual, dialogs, actual,
                       accepted, sinkVars, enc, com>>
    BY <1>2 DEF InitGraphControl
  <2> QED
    BY <2>1, NextPart
<1> QED
  BY <1>1, <1>2

(* Only the heap changes in the sinks' part, and no sample is under way. *)
LEMMA PinsKept ==
  ASSUME IInv, UNCHANGED <<enabled, actual, enc, pinVars, events>>,
         enc = "none", step' \notin {"readback", "gone"}
  PROVE  SinkTyped' /\ Queue' /\ Threads' /\ Described'
<1>1. /\ config' = config /\ conn' = conn /\ flow' = flow /\ asked' = asked
      /\ state' = state /\ rterr' = rterr /\ lock' = lock /\ cap' = cap
      /\ events' = events
      /\ enabled' = enabled /\ actual' = actual /\ enc' = enc
  BY DEF pinVars
<1>2. SinkTyped'
  BY <1>1 DEF IInv, SinkTyped
<1>3. Queue'
  BY <1>1 DEF IInv, Queue
<1>4. Threads'
  BY <1>1 DEF IInv, Threads
<1>5. Described'
  BY <1>1 DEF IInv, Described
<1> QED
  BY <1>2, <1>3, <1>4, <1>5

(* The dialogs, or an attempt to configure the source, ... *)
LEMMA ConfigureAttempt ==
  ASSUME IInv, Configure
  PROVE  Attempt
<1>1. step = "configure"
  BY DEF Configure
<1>2. stream \in Streams /\ HeapOK(heap, {})
  <2>1. accepted = NoMediaType /\ BlobOf(NoMediaType) = {}
    BY <1>1 DEF IInv, Blocks, BlobOf
  <2> QED
    BY <2>1 DEF IInv, InitTyped, Blocks, Wanted
<1>3. CASE ManualConfiguration
  BY <1>2, <1>3, ManualAttempt
<1>4. CASE stream = "video" /\ ConfigureVideo
  BY <1>1, <1>4, VideoAttempt
<1>5. CASE stream = "audio" /\ ConfigureAudio
  BY <1>1, <1>5, AudioAttempt
<1> QED
  BY <1>3, <1>4, <1>5 DEF Configure

(* ... after which a connection or the next attempt is made. *)
LEMMA ConfigureKeeps ==
  ASSUME IInv, Configure
  PROVE  IInv'
<1>1. /\ step = "configure" /\ manual' = DialogsOff
      /\ dialogs' = [dialogs EXCEPT ![stream] =
                       IF ShowDialogs THEN @ + 1 ELSE @]
      /\ UNCHANGED <<stream, enabled, requested, shared, source, actual, enc,
                     com, pinVars, events>>
  BY DEF Configure
<1>2. enc = "none" /\ stream \in Streams
  BY <1>1 DEF IInv, Threads, InitTyped
<1>3. Attempt
  BY ConfigureAttempt
<1>4. /\ step' \in {"connect", "configure", "default"}
      /\ step' # "connect" => /\ accepted' = NoMediaType /\ index' = index + 1
      /\ step' = "configure" => index + 1 # DefaultIndex(stream)
      /\ step' = "connect" => index' = index
  BY <1>3 DEF Attempt, NextAttempt
<1>5. /\ index \in 0..DefaultIndex(stream) /\ index < DefaultIndex(stream)
      /\ DefaultIndex(stream) \in Nat
      /\ stream = "audio" => DefaultIndex(stream) = 1
  BY <1>1 DEF IInv, InitTyped, Asked, DefaultIndex, VideoFormats
<1>6. /\ index' \in 0..DefaultIndex(stream)
      /\ step' = "configure" => index' < DefaultIndex(stream)
      /\ step' = "configure" => stream # "audio"
  BY <1>4, <1>5
<1>7. /\ manual' \in [Streams -> BOOLEAN]
      /\ manual'["video"] => stream # "video" /\ manual["video"]
  <2>1. manual \in [Streams -> BOOLEAN] /\ "video" \in Streams
    BY TheStreams DEF IInv, InitTyped
  <2>2. (manual["video"] /\ stream # "video") \in BOOLEAN
    OBVIOUS
  <2> QED
    BY <1>1, <2>1, <2>2 DEF DialogsOff
<1>8. /\ dialogs' \in [Streams -> Nat]
      /\ dialogs'["video"] <= 1 /\ dialogs'["audio"] <= 1
      /\ stream # "video" => dialogs'["video"] = dialogs["video"]
      /\ stream = "video" => dialogs'["audio"] = 0
  <2>1. /\ dialogs \in [Streams -> Nat]
        /\ dialogs["video"] <= 1 /\ dialogs["audio"] = 0
        /\ manual["video"] => dialogs["video"] = 0
    BY <1>1 DEF IInv, InitTyped, Asked
  <2>2. CASE stream = "video"
    <3>1. CASE manual["video"]
      BY <1>1, <2>1, <2>2, <3>1, TheStreams DEF ShowDialogs
    <3>2. CASE ~manual["video"]
      BY <1>1, <2>1, <2>2, <3>2, TheStreams DEF ShowDialogs
    <3> QED
      BY <3>1, <3>2
  <2>3. CASE stream # "video"
    BY <1>1, <1>2, <2>1, <2>3, TheStreams DEF ShowDialogs
  <2> QED
    BY <2>2, <2>3
<1>9. InitTyped'
  BY <1>1, <1>4, <1>6, <1>7, <1>8 DEF IInv, InitTyped, Steps
<1>10. Asked'
  <2>1. manual'["video"] => dialogs'["video"] = 0
    BY <1>7, <1>8 DEF IInv, Asked
  <2>2. step' = "configure" => dialogs'["audio"] = 0
    BY <1>2, <1>6, <1>8, TheStreams
  <2> QED
    BY <1>1, <1>4, <1>6, <1>8, <2>1, <2>2 DEF Asked
<1>11. Balanced'
  BY <1>1, <1>4, BalancedKept
<1>12. SinkTyped' /\ Queue' /\ Threads' /\ Described'
  BY <1>1, <1>2, <1>4, PinsKept
<1>13. Blocks'
  <2>1. Wanted(accepted', heap', stream')
    BY <1>1, <1>3 DEF Attempt
  <2>2. InfoOffered /\ conn'["video"] # NoMediaType
          => conn'["video"].fmt = "info"
    BY <1>1 DEF IInv, Blocks, pinVars
  <2> QED
    BY <1>4, <2>1, <2>2 DEF Blocks
<1> QED
  BY <1>9, <1>10, <1>11, <1>12, <1>13 DEF IInv

(* What the main thread holds while it connects or has connected. *)
LEMMA AcceptedHeld ==
  ASSUME IInv
  PROVE  /\ accepted \in MaybeType /\ HeapOK(heap, BlobOf(accepted))
         /\ BlobOf(accepted) \subseteq {"formatter", "copy"}
         /\ InfoOffered => accepted = NoMediaType \/ accepted.fmt # "ks"
         /\ HeapOK(FreeMediaType(heap, accepted), {})
<1> DEFINE t == accepted
           h == heap
           mine == BlobOf(t)
<1>1. /\ t \in MaybeType /\ HeapOK(h, mine) /\ mine \subseteq {"formatter", "copy"}
      /\ InfoOffered => t = NoMediaType \/ t.fmt # "ks"
  BY DEF IInv, Blocks, Wanted, BlobOf
<1>2. mine \subseteq Owned /\ mine \subseteq mine /\ mine \ mine = {}
  BY <1>1 DEF Owned, Blobs, TakenOver
<1> HIDE DEF t, h
<1>3. HeapOK(FreeMediaType(h, t), mine \ BlobOf(t))
  <2> HIDE DEF mine
  <2>1. BlobOf(t) \subseteq mine
    BY DEF mine
  <2>2. BlobOf(t) \subseteq Owned
    BY <1>2 DEF mine
  <2> QED
    BY <1>1, <2>1, <2>2, FreeTypeOK
<1>4. HeapOK(FreeMediaType(h, t), {})
  BY <1>2, <1>3
<1> QED
  BY <1>1, <1>4 DEF t, h

(* No connection comes about, and the next attempt is made, if any. *)
LEMMA ConnectFailsKeeps ==
  ASSUME IInv, ConnectFails
  PROVE  IInv'
<1>1. /\ step = "connect"
      /\ UNCHANGED <<stream, enabled, requested, manual, dialogs, shared,
                     source, actual, enc, com, pinVars, events>>
  BY DEF ConnectFails
<1>2. /\ accepted' = NoMediaType /\ heap' = FreeMediaType(heap, accepted)
      /\ step' \in {"failed", "default", "configure"}
      /\ step' = "failed" => index' = index
      /\ step' # "failed" =>
           /\ index' = index + 1 /\ index # DefaultIndex(stream)
           /\ step' = "configure" => index + 1 # DefaultIndex(stream)
  BY DEF ConnectFails, NextAttempt
<1>3. /\ enc = "none" /\ HeapOK(heap', {})
  BY <1>1, <1>2, AcceptedHeld DEF IInv, Threads
<1>4. /\ stream \in Streams /\ index \in 0..DefaultIndex(stream)
      /\ DefaultIndex(stream) \in Nat
      /\ stream = "audio" => DefaultIndex(stream) = 1
  BY DEF IInv, InitTyped, DefaultIndex, VideoFormats
<1>5. /\ index' \in 0..DefaultIndex(stream)
      /\ step' = "configure" => index' < DefaultIndex(stream)
      /\ step' = "configure" => stream # "audio"
  BY <1>2, <1>4
<1>6. InitTyped'
  BY <1>1, <1>2, <1>5 DEF IInv, InitTyped, Steps
<1>7. Asked'
  <2>1. step' = "configure" => dialogs["audio"] = 0
    BY <1>4, <1>5, TheStreams DEF IInv, Asked
  <2> QED
    BY <1>1, <1>2, <1>5, <2>1 DEF IInv, Asked
<1>8. Balanced'
  BY <1>1, <1>2, BalancedKept
<1>9. SinkTyped' /\ Queue' /\ Threads' /\ Described'
  BY <1>1, <1>2, <1>3, PinsKept
<1>10. Blocks'
  <2>1. BlobOf(NoMediaType) = {} /\ NoMediaType \in MaybeType
    BY DEF BlobOf, MaybeType
  <2>2. Wanted(NoMediaType, heap', stream')
    BY <1>3, <2>1 DEF Wanted
  <2>3. InfoOffered /\ conn'["video"] # NoMediaType
          => conn'["video"].fmt = "info"
    BY <1>1 DEF IInv, Blocks, pinVars
  <2> QED
    BY <1>2, <2>2, <2>3 DEF Blocks
<1> QED
  BY <1>6, <1>7, <1>8, <1>9, <1>10 DEF IInv

(* A sink pin is connected, or refuses to be. *)
LEMMA TryTypeKeeps ==
  ASSUME IInv, TryType
  PROVE  IInv'
<1> DEFINE s == stream
<1>1. PICK t \in Candidates(s, accepted), completes \in BOOLEAN :
        ReceiveConnection(s, t, completes)
  BY DEF TryType
<1>2. /\ step = "connect"
      /\ step' = IF conn'[s] = NoMediaType THEN "connect" ELSE "readback"
      /\ UNCHANGED <<stream, index, enabled, requested, manual, dialogs,
                     shared, source, accepted, actual, enc, com>>
  BY DEF TryType
<1> DEFINE ok  == Accepts(s, t) /\ completes
           k   == Kept(t)
           set == Stored(s, t, config[s])
<1>3. /\ conn[s] = NoMediaType
      /\ config' = [config EXCEPT ![s] = set]
      /\ conn' = [conn EXCEPT ![s] = IF ok THEN k ELSE @]
      /\ flow' = [flow EXCEPT ![s] = IF ok THEN k ELSE @]
      /\ heap' = CheckHeap(s, t, heap)
      /\ UNCHANGED <<asked, state, rterr, lock, cap, events>>
  BY <1>1 DEF ReceiveConnection
<1>4. s \in Streams /\ enc = "none" /\ accepted \in MaybeType
  BY <1>2, AcceptedHeld DEF IInv, InitTyped, Threads
<1>5. /\ t \in MediaTypes
      /\ InfoOffered => t.fmt # "ks" /\ (s = "video" => t.fmt = "info")
  <2> DEFINE w == accepted
  <2>1. InfoOffered => (w # NoMediaType =>
          /\ w.fmt # "ks" /\ (s = "video" => w.fmt \in {"info", "null"}))
    BY DEF IInv, Blocks, Wanted
  <2>2. w \in MaybeType /\ t \in Candidates(s, w)
    BY <1>4
  <2> HIDE DEF w, s
  <2> QED
    BY <1>4, <2>1, <2>2, CandidateType
<1>6. /\ config \in [Streams -> Settings] /\ conn \in [Streams -> MaybeType]
      /\ flow \in [Streams -> MaybeType]
  BY DEF IInv, SinkTyped
<1>7. set \in Settings
  <2> DEFINE was == config[s]
  <2>1. was \in Settings
    BY <1>4, <1>6
  <2> HIDE DEF was, s
  <2> QED
    BY <1>5, <2>1, StoredSettings DEF was
<1>8. /\ k \in MediaTypes /\ k \in MaybeType /\ k # NoMediaType
      /\ k.config = t.config /\ k.fmt = t.fmt
      /\ Accepts(s, k) <=> Accepts(s, t)
      /\ BitmapInfo(k) <=> BitmapInfo(t)
  <2>1. MediaTypes \subseteq MaybeType
    BY DEF MaybeType
  <2> QED
    BY <1>5, <2>1, KeptType
<1>9. ok /\ Readable(s, k) => set = k.config
  BY <1>8 DEF Stored, Readable
<1> HIDE DEF k, set
<1>10. SinkTyped'
  <2>1. /\ config' \in [Streams -> Settings]
        /\ conn' \in [Streams -> MaybeType] /\ flow' \in [Streams -> MaybeType]
    BY <1>3, <1>4, <1>6, <1>7, <1>8
  <2> QED
    BY <1>3, <2>1 DEF IInv, SinkTyped
<1>11. \A u \in Streams :
         /\ u # s => config'[u] = config[u] /\ conn'[u] = conn[u]
                                            /\ flow'[u] = flow[u]
         /\ u = s => /\ config'[u] = set
                     /\ ok => conn'[u] = k /\ flow'[u] = k
                     /\ ~ok => conn'[u] = NoMediaType /\ flow'[u] = flow[u]
  BY <1>3, <1>4, <1>6
<1>12. ASSUME NEW u \in Streams
       PROVE  /\ conn'[u] = NoMediaType <=> flow'[u] = NoMediaType
              /\ conn'[u] # NoMediaType =>
                   /\ Accepts(u, conn'[u]) /\ Accepts(u, flow'[u])
                   /\ ~asked'[u] /\ Readable(u, flow'[u])
                        => config'[u] = flow'[u].config
              /\ enc' = "none" => ~asked'[u] /\ flow'[u] = conn'[u]
              /\ actual'[u] # NoConfig =>
                   conn'[u] # NoMediaType /\ actual'[u] = conn'[u].config
  <2>0. /\ conn[u] = NoMediaType <=> flow[u] = NoMediaType
        /\ conn[u] # NoMediaType =>
             /\ Accepts(u, conn[u]) /\ Accepts(u, flow[u])
             /\ ~asked[u] /\ Readable(u, flow[u]) => config[u] = flow[u].config
        /\ ~asked[u] /\ flow[u] = conn[u]
        /\ actual[u] # NoConfig =>
             conn[u] # NoMediaType /\ actual[u] = conn[u].config
    BY <1>4 DEF IInv, Described
  <2>1. asked' = asked /\ actual' = actual /\ enc' = enc
    BY <1>2, <1>3
  <2>2. CASE u # s
    <3>1. config'[u] = config[u] /\ conn'[u] = conn[u] /\ flow'[u] = flow[u]
      BY <1>11, <2>2
    <3> QED
      BY <2>0, <2>1, <3>1
  <2>3. CASE u = s /\ ok
    <3>1. config'[u] = set /\ conn'[u] = k /\ flow'[u] = k
      BY <1>11, <2>3
    <3>2. actual[u] = NoConfig /\ ~asked[u]
      BY <1>3, <2>0, <2>3
    <3>3. Accepts(u, k) /\ (Readable(u, k) => set = k.config)
      BY <1>8, <1>9, <2>3
    <3> QED
      BY <1>8, <2>1, <3>1, <3>2, <3>3
  <2>4. CASE u = s /\ ~ok
    <3>1. conn'[u] = NoMediaType /\ flow'[u] = flow[u]
      BY <1>11, <2>4
    <3>2. conn[u] = NoMediaType
      BY <1>3, <2>4
    <3> QED
      BY <2>0, <2>1, <3>1, <3>2
  <2> QED
    BY <2>2, <2>3, <2>4
<1>13. Described'
  <2>1. step' = "readback" => conn'[stream'] # NoMediaType
    BY <1>2
  <2> QED
    BY <1>12, <2>1 DEF Described
<1>14. Threads'
  <2>1. \A u \in Streams : conn[u] # NoMediaType => conn'[u] # NoMediaType
    BY <1>3, <1>11
  <2>2. UNCHANGED <<enabled, lock, cap, state, enc>> /\ step = "connect"
        /\ step' \in {"connect", "readback"} /\ enc = "none"
    BY <1>2, <1>3, <1>4
  <2> QED
    BY <2>1, <2>2 DEF IInv, Threads
<1>15. Blocks'
  <2>1. HeapOK(heap', BlobOf(accepted))
    <3> DEFINE h == heap
               mine == BlobOf(accepted)
    <3>1. HeapOK(h, mine) /\ "offered" \notin mine /\ "checked" \notin mine
      BY AcceptedHeld
    <3> HIDE DEF h, mine, s
    <3>2. HeapOK(CheckHeap(s, t, h), mine)
      BY <1>5, <3>1, CheckHeapOK
    <3> QED
      BY <1>3, <3>2 DEF h, mine
  <2>2. Wanted(accepted', heap', stream')
    BY <1>2, <2>1 DEF IInv, Blocks, Wanted
  <2>3. InfoOffered /\ conn'["video"] # NoMediaType
          => conn'["video"].fmt = "info"
    <3>1. CASE s = "video" /\ ok
      BY <1>4, <1>5, <1>8, <1>11, <3>1
    <3>2. CASE s = "video" /\ ~ok
      BY <1>4, <1>11, <3>2
    <3>3. CASE s # "video"
      BY <1>11, <3>3, TheStreams DEF IInv, Blocks
    <3> QED
      BY <3>1, <3>2, <3>3
  <2>4. step' \notin {"connect", "readback"} => accepted' = NoMediaType
    BY <1>2
  <2> QED
    BY <2>2, <2>3, <2>4 DEF Blocks
<1>16. InitTyped'
  BY <1>2 DEF IInv, InitTyped, Steps
<1>17. Asked'
  BY <1>2 DEF IInv, Asked
<1>18. Balanced'
  BY <1>2, BalancedKept
<1>19. Queue'
  BY <1>3 DEF IInv, Queue
<1> QED
  BY <1>10, <1>13, <1>14, <1>15, <1>16, <1>17, <1>18, <1>19 DEF IInv

(* A VideoMediaType made from a type whose block it takes over. *)
LEMMA VideoInitFromTaken ==
  ASSUME NEW h, NEW held, HeapOK(h, held), NEW t, BlobOf(t) \subseteq TakenOver,
         NEW owner \in TakenOver, NEW mem
  PROVE  LET r == VideoInitFrom(h, owner, mem, t)
         IN HeapOK(r.heap, held) /\ BlobOf(r.type) \subseteq TakenOver
<1> DEFINE r == VideoInitFrom(h, owner, mem, t)
           g == CoTaskMemAlloc(h, owner)
<1>1. HeapOK(g, held)
  BY AllocTakenOK
<1>2. BlobOf(NoMediaType) = {}
  BY DEF BlobOf
<1>3. \/ r.heap = h /\ r.type = NoMediaType
      \/ r.heap = g /\ r.type = t
  BY DEF VideoInitFrom, Allocate, Failure, Result
<1> HIDE DEF r, g
<1>4. HeapOK(r.heap, held) /\ BlobOf(r.type) \subseteq TakenOver
  BY <1>1, <1>2, <1>3
<1> QED
  BY <1>4 DEF r

(* Reading the settings of the connection leaves the heap in order. *)
LEMMA ReadBackHeap ==
  ASSUME NEW h, HeapOK(h, {}), NEW t \in MediaTypes, NEW s,
         NEW mem \in BOOLEAN
  PROVE  LET local  == IF t.blob = NoBlob THEN t
                       ELSE [t EXCEPT !.blob = "connection"]
             copied == IF t.blob = NoBlob THEN h
                       ELSE CoTaskMemAlloc(h, "connection")
             format == IF s = "video"
                         THEN VideoInitFrom(copied, "video_format", mem, local)
                         ELSE AudioInitFrom(copied, "audio_format", mem, local)
             closed == FreeMediaType(format.heap, format.type)
         IN /\ HeapOK(FreeMediaType(closed, local), {})
            /\ local.config = t.config
<1> DEFINE local  == IF t.blob = NoBlob THEN t
                     ELSE [t EXCEPT !.blob = "connection"]
           copied == IF t.blob = NoBlob THEN h
                     ELSE CoTaskMemAlloc(h, "connection")
           format == IF s = "video"
                       THEN VideoInitFrom(copied, "video_format", mem, local)
                       ELSE AudioInitFrom(copied, "audio_format", mem, local)
           closed == FreeMediaType(format.heap, format.type)
<1>1. /\ "connection" \in TakenOver /\ "video_format" \in TakenOver
      /\ "audio_format" \in Owned /\ "connection" \in Blobs
      /\ "connection" # NoBlob /\ {} \cap TakenOver = {}
  BY DEF Owned, Blobs, TakenOver, NoBlob
<1>2. /\ local \in MediaTypes /\ local.config = t.config
      /\ BlobOf(local) \subseteq TakenOver /\ HeapOK(copied, {})
  <2>1. CASE t.blob = NoBlob
    <3>1. local = t /\ copied = h /\ BlobOf(local) = {}
      BY <2>1 DEF BlobOf
    <3> QED
      BY <3>1
  <2>2. CASE t.blob # NoBlob
    <3> DEFINE u == [t EXCEPT !.blob = "connection"]
               g == CoTaskMemAlloc(h, "connection")
    <3>1. local = u /\ copied = g
      BY <2>2
    <3>2. u \in MediaTypes /\ u.blob = "connection" /\ u.config = t.config
      BY <1>1, OtherBlob
    <3>3. HeapOK(g, {})
      BY <1>1, AllocTakenOK
    <3> HIDE DEF u, g, local, copied
    <3>4. BlobOf(u) = {"connection"}
      BY <1>1, <3>2, NotNone DEF BlobOf
    <3> QED
      BY <1>1, <3>1, <3>2, <3>3, <3>4
  <2> QED
    BY <2>1, <2>2
<1> HIDE DEF local, copied
<1>3. HeapOK(closed, {})
  <2>1. CASE s = "video"
    <3> DEFINE v == VideoInitFrom(copied, "video_format", mem, local)
    <3>1. format = v
      BY <2>1
    <3>2. HeapOK(v.heap, {}) /\ BlobOf(v.type) \subseteq TakenOver
      BY <1>1, <1>2, VideoInitFromTaken
    <3> HIDE DEF v, format
    <3>3. HeapOK(FreeMediaType(v.heap, v.type), {})
      BY <1>1, <3>2, FreeTypeTakenOK
    <3> QED
      BY <3>1, <3>3
  <2>2. CASE s # "video"
    <3> DEFINE a == AudioInitFrom(copied, "audio_format", mem, local)
    <3>1. format = a
      BY <2>2
    <3>2. Made(a, {}, "audio_format")
      BY <1>1, <1>2, AudioInitFromMade
    <3> HIDE DEF a, format
    <3>3. HeapOK(FreeMediaType(a.heap, a.type), {})
      BY <1>1, <3>2, FreeMade
    <3> QED
      BY <3>1, <3>3
  <2> QED
    BY <2>1, <2>2
<1> HIDE DEF closed
<1>4. HeapOK(FreeMediaType(closed, local), {})
  BY <1>1, <1>2, <1>3, FreeTypeTakenOK
<1> QED
  BY <1>2, <1>4 DEF closed, local, copied

(* The settings of the connection are read. *)
LEMMA ReadBackKeeps ==
  ASSUME IInv, ReadBack
  PROVE  IInv'
<1> DEFINE begun == FreeMediaType(heap, accepted)
           s     == stream
           t     == conn[s]
<1>1. PICK works \in BOOLEAN, mem \in BOOLEAN :
       LET local  == IF t.blob = NoBlob THEN t
                     ELSE [t EXCEPT !.blob = "connection"]
           copied == IF t.blob = NoBlob THEN begun
                     ELSE CoTaskMemAlloc(begun, "connection")
           format == IF s = "video"
                       THEN VideoInitFrom(copied, "video_format", mem, local)
                       ELSE AudioInitFrom(copied, "audio_format", mem, local)
           closed == FreeMediaType(format.heap, format.type)
           read   == IF s = "video" THEN VideoSettings(local, NoConfig)
                                    ELSE AudioSettings(local, NoConfig)
       IN IF works
            THEN /\ heap' = FreeMediaType(closed, local)
                 /\ actual' = IF format.ok THEN SetActual(read) ELSE actual
            ELSE heap' = begun /\ UNCHANGED actual
  BY DEF ReadBack
<1>2. /\ step = "readback" /\ accepted' = NoMediaType /\ index' = 0
      /\ IF s = "video" /\ "audio" \in enabled
           THEN stream' = "audio" /\ step' = "source"
           ELSE step' = "control" /\ stream' = stream
      /\ UNCHANGED <<enabled, requested, manual, dialogs, shared, source, enc,
                     com, pinVars, events>>
  BY DEF ReadBack
<1>3. /\ s \in Streams /\ enc = "none" /\ t # NoMediaType /\ t \in MediaTypes
      /\ HeapOK(begun, {}) /\ actual \in [Streams -> Settings]
      /\ NoConfig \in Settings
  BY <1>2, AcceptedHeld
     DEF IInv, InitTyped, SinkTyped, Threads, Described, MaybeType, Settings
<1>4. t.config \in Settings
  BY <1>3 DEF MediaTypes
<1>5. /\ HeapOK(heap', {})
      /\ \/ actual' = actual
         \/ \E x \in {NoConfig, t.config} : actual' = SetActual(x)
  <2> DEFINE local  == IF t.blob = NoBlob THEN t
                       ELSE [t EXCEPT !.blob = "connection"]
             copied == IF t.blob = NoBlob THEN begun
                       ELSE CoTaskMemAlloc(begun, "connection")
             format == IF s = "video"
                         THEN VideoInitFrom(copied, "video_format", mem, local)
                         ELSE AudioInitFrom(copied, "audio_format", mem, local)
             closed == FreeMediaType(format.heap, format.type)
             left   == FreeMediaType(closed, local)
             read   == IF s = "video" THEN VideoSettings(local, NoConfig)
                                      ELSE AudioSettings(local, NoConfig)
  <2>1. \/ heap' = left /\ (actual' = actual \/ actual' = SetActual(read))
        \/ heap' = begun /\ actual' = actual
    BY <1>1
  <2>2. HeapOK(left, {}) /\ local.config = t.config
    <3> HIDE DEF begun, t, s
    <3> QED
      BY ZenonT(60), <1>3, ReadBackHeap
  <2> HIDE DEF left, local, begun, t, s
  <2>3. read \in {NoConfig, t.config}
    BY <2>2 DEF VideoSettings, AudioSettings
  <2> HIDE DEF read
  <2> QED
    BY <1>3, <2>1, <2>2, <2>3
<1> HIDE DEF begun
<1>6. /\ actual' \in [Streams -> Settings]
      /\ \A u \in Streams :
           \/ actual'[u] = actual[u]
           \/ u = s /\ actual'[u] \in {NoConfig, t.config}
  <2>1. CASE actual' = actual
    BY <1>3, <2>1
  <2>2. ASSUME NEW x \in {NoConfig, t.config}, actual' = SetActual(x)
        PROVE  /\ actual' \in [Streams -> Settings]
               /\ \A u \in Streams :
                    \/ actual'[u] = actual[u]
                    \/ u = s /\ actual'[u] \in {NoConfig, t.config}
    <3>1. actual' = [actual EXCEPT ![s] = x] /\ x \in Settings
      BY <1>3, <1>4, <2>2 DEF SetActual
    <3> QED
      BY <1>3, <3>1
  <2> QED
    BY <1>5, <2>1, <2>2
<1>7. /\ config' = config /\ conn' = conn /\ flow' = flow /\ asked' = asked
      /\ state' = state /\ rterr' = rterr /\ lock' = lock /\ cap' = cap
      /\ events' = events /\ enabled' = enabled /\ enc' = enc
      /\ requested' = requested /\ manual' = manual /\ dialogs' = dialogs
      /\ stream' \in Streams /\ step' \in {"source", "control"}
      /\ step' = "source" => s = "video" /\ stream' = "audio"
      /\ step' = "control" => stream' = stream
  BY <1>2, <1>3, TheStreams DEF pinVars
<1>8. SinkTyped' /\ Queue'
  BY <1>7 DEF IInv, SinkTyped, Queue
<1>9. Threads'
  BY <1>2, <1>3, <1>7 DEF IInv, Threads
<1>10. Described'
  <2>1. ASSUME NEW u \in Streams
        PROVE  actual'[u] # NoConfig =>
                 conn[u] # NoMediaType /\ actual'[u] = conn[u].config
    <3>1. CASE actual'[u] = actual[u]
      BY <3>1 DEF IInv, Described
    <3>2. CASE u = s /\ actual'[u] \in {NoConfig, t.config}
      BY <1>3, <3>2
    <3> QED
      BY <1>6, <3>1, <3>2
  <2> QED
    BY <1>7, <2>1 DEF IInv, Described
<1>11. Blocks'
  <2>1. BlobOf(NoMediaType) = {} /\ NoMediaType \in MaybeType
    BY DEF BlobOf, MaybeType
  <2>2. Wanted(NoMediaType, heap', stream')
    BY <1>5, <2>1 DEF Wanted
  <2>3. Wanted(accepted', heap', stream')
    BY <1>2, <2>2
  <2> QED
    BY <1>2, <1>7, <2>3 DEF IInv, Blocks
<1>12. InitTyped'
  <2>1. 0 \in 0..DefaultIndex(stream')
    BY DEF DefaultIndex, VideoFormats
  <2> QED
    BY <1>2, <1>6, <1>7, <2>1 DEF IInv, InitTyped, Steps
<1>13. Asked'
  BY <1>2, <1>7 DEF IInv, Asked
<1>14. Balanced'
  BY <1>2, <1>7, BalancedKept
<1> QED
  BY <1>8, <1>9, <1>10, <1>11, <1>12, <1>13, <1>14 DEF IInv

-----------------------------------------------------------------------------
(* The encoder thread. *)

(* What the main thread set up stays as it is. *)
LEMMA InitKept ==
  ASSUME IInv, UNCHANGED initVars
  PROVE  InitTyped' /\ Asked'
<1>1. InitTyped'
  BY DEF IInv, InitTyped, initVars
<1>2. Asked'
  BY DEF IInv, Asked, initVars
<1> QED
  BY <1>1, <1>2

(* ... and so does what the pins store, once the graph runs. *)
LEMMA TypesKept ==
  ASSUME IInv, UNCHANGED <<step, stream, accepted, actual>>,
         UNCHANGED <<config, conn, flow, asked, heap>>,
         enc' = "none" => enc = "none"
  PROVE  Described' /\ Blocks'
<1>1. Described'
  BY DEF IInv, Described
<1>2. Blocks'
  BY DEF IInv, Blocks
<1> QED
  BY <1>1, <1>2

(* The encoder thread goes on without a change to the graph. *)
LEMMA EncoderStep ==
  ASSUME IInv, UNCHANGED <<initVars, pinVars, heap>>,
         enc # "none", enc' # "none", step = "ready",
         enc' = "polling" => \A s \in enabled : state[s] = "running",
         Queue', Balanced'
  PROVE  IInv'
<1>1. InitTyped' /\ Asked'
  BY InitKept
<1>2. SinkTyped'
  BY DEF IInv, SinkTyped, pinVars
<1>3. Described' /\ Blocks'
  BY TypesKept DEF initVars, pinVars
<1>4. /\ step' = step /\ enabled' = enabled /\ lock' = lock /\ cap' = cap
      /\ state' = state /\ conn' = conn
  BY DEF initVars, pinVars
<1>5. Threads'
  BY <1>4 DEF IInv, Threads
<1> QED
  BY <1>1, <1>2, <1>3, <1>5 DEF IInv

(* The queue of events stays as it is. *)
LEMMA QueueKept ==
  ASSUME IInv, UNCHANGED events
  PROVE  Queue'
BY DEF IInv, Queue

(* The graph is ready while the encoder thread uses it. *)
LEMMA UsedWhenReady ==
  ASSUME IInv, enc \notin {"none", "left"}
  PROVE  step = "ready"
BY DEF IInv, Threads

(* Run begins. *)
LEMMA RunKeeps ==
  ASSUME IInv, Run
  PROVE  IInv'
<1>1. /\ step = "ready" /\ enc = "none" /\ enc' = "starting"
      /\ com' = [com EXCEPT !.encoder = @ + 1]
      /\ UNCHANGED <<initVars, sinkVars>>
  BY DEF Run
<1>2. Balanced'
  <2>1. /\ com \in [main : -1..1, encoder : 0..1] /\ com.encoder = 0
        /\ com.main >= 0
    BY <1>1 DEF IInv, Balanced
  <2>2. /\ com' \in [main : -1..1, encoder : 0..1] /\ com'.main = com.main
        /\ com'.encoder = 1
    BY <1>1, <2>1
  <2>3. step' = "ready"
    BY <1>1 DEF initVars
  <2> QED
    BY <1>1, <2>1, <2>2, <2>3 DEF Balanced
<1>3. InitTyped' /\ Asked'
  BY <1>1, InitKept
<1>4. SinkTyped'
  BY <1>1 DEF IInv, SinkTyped, sinkVars, pinVars
<1>5. Queue'
  BY <1>1, QueueKept DEF sinkVars
<1>6. Described' /\ Blocks'
  BY <1>1, TypesKept DEF initVars, sinkVars, pinVars
<1>7. Threads'
  BY <1>1 DEF IInv, Threads, initVars, sinkVars, pinVars
<1> QED
  BY <1>2, <1>3, <1>4, <1>5, <1>6, <1>7 DEF IInv

(* CoInitialize stays balanced when the encoder thread goes on. *)
LEMMA BalancedInUse ==
  ASSUME IInv, UNCHANGED <<step, com>>,
         enc \in {"starting", "waiting", "polling", "stopping"},
         enc' \in {"starting", "waiting", "polling", "stopping", "dead"}
  PROVE  Balanced'
BY DEF IInv, Balanced

(* Run returns, ... *)
LEMMA RunReturnsKeeps ==
  ASSUME IInv, RunReturns
  PROVE  IInv'
<1>1. /\ enc = "starting" /\ enc' \in {"dead", "waiting"}
      /\ UNCHANGED <<initVars, sinkVars, com>>
  BY DEF RunReturns
<1>2. step = "ready" /\ UNCHANGED <<step, pinVars, events, heap>>
  BY <1>1, UsedWhenReady DEF initVars, sinkVars
<1>3. Queue'
  BY <1>2, QueueKept
<1>4. Balanced'
  BY <1>1, <1>2, BalancedInUse
<1> QED
  BY <1>1, <1>2, <1>3, <1>4, EncoderStep

(* ... every stream has delivered a sample, ... *)
LEMMA SamplesArriveKeeps ==
  ASSUME IInv, SamplesArrive
  PROVE  IInv'
<1>1. /\ enc = "waiting" /\ enc' = "polling"
      /\ \A s \in enabled : state[s] = "running"
      /\ UNCHANGED <<initVars, sinkVars, com>>
  BY DEF SamplesArrive
<1>2. step = "ready" /\ UNCHANGED <<step, pinVars, events, heap>>
  BY <1>1, UsedWhenReady DEF initVars, sinkVars
<1>3. Queue'
  BY <1>2, QueueKept
<1>4. Balanced'
  BY <1>1, <1>2, BalancedInUse
<1> QED
  BY <1>1, <1>2, <1>3, <1>4, EncoderStep

(* ... an event is handled, ... *)
LEMMA CheckStatusKeeps ==
  ASSUME IInv, CheckStatus
  PROVE  IInv'
<1>1. /\ enc = "polling" /\ events # <<>> /\ events' = Tail(events)
      /\ enc' \in {"polling", "stopping"}
      /\ UNCHANGED <<initVars, pinVars, heap, com>>
  BY DEF CheckStatus, HandleMediaEvent
<1>2. step = "ready" /\ UNCHANGED step
  BY <1>1, UsedWhenReady DEF initVars
<1>3. \A s \in enabled : state[s] = "running"
  BY <1>1 DEF IInv, Threads
<1>4. Queue'
  <2> DEFINE T == GraphEvents \cup {"ERRORABORT"}
             q == events
  <2>1. q \in Seq(T) /\ q # <<>> /\ Len(q) <= MaxEvents
    BY <1>1 DEF IInv, Queue
  <2> HIDE DEF T, q
  <2>2. Tail(q) \in Seq(T) /\ Len(Tail(q)) = Len(q) - 1 /\ Len(q) \in Nat
    BY <2>1, HeadTailProperties, LenProperties
  <2>3. MaxEvents \in Nat
    BY OffersAssumption
  <2>4. Len(Tail(q)) <= MaxEvents
    BY <2>1, <2>2, <2>3
  <2> QED
    BY <1>1, <2>2, <2>4 DEF Queue, T, q
<1>5. Balanced'
  BY <1>1, <1>2, BalancedInUse
<1> QED
  BY <1>1, <1>2, <1>3, <1>4, <1>5, EncoderStep

(* ... the wait or the loop is left, ... *)
LEMMA LeaveLoopKeeps ==
  ASSUME IInv, LeaveLoop
  PROVE  IInv'
<1>1. /\ enc \in {"waiting", "polling"} /\ enc' = "stopping"
      /\ UNCHANGED <<initVars, sinkVars, com>>
  BY DEF LeaveLoop
<1>2. step = "ready" /\ UNCHANGED <<step, pinVars, events, heap>>
  BY <1>1, UsedWhenReady DEF initVars, sinkVars
<1>3. Queue'
  BY <1>2, QueueKept
<1>4. Balanced'
  BY <1>1, <1>2, BalancedInUse
<1> QED
  BY <1>1, <1>2, <1>3, <1>4, EncoderStep

(* ... and Stop returns. *)
LEMMA StopReturnsKeeps ==
  ASSUME IInv, StopReturns
  PROVE  IInv'
<1>1. /\ enc = "stopping" /\ enc' = "left"
      /\ com' = [com EXCEPT !.encoder = @ - 1]
      /\ UNCHANGED <<initVars, sinkVars>>
  BY DEF StopReturns
<1>2. step = "ready" /\ UNCHANGED <<step, pinVars, events, heap>>
  BY <1>1, UsedWhenReady DEF initVars, sinkVars
<1>3. Queue'
  BY <1>2, QueueKept
<1>4. Balanced'
  <2>1. /\ com \in [main : -1..1, encoder : 0..1] /\ com.encoder = 1
        /\ com.main >= 0
    BY <1>1, <1>2 DEF IInv, Balanced
  <2>2. /\ com' \in [main : -1..1, encoder : 0..1] /\ com'.main = com.main
    BY <1>1, <2>1
  <2> QED
    BY <1>1, <1>2, <2>1, <2>2 DEF Balanced
<1> QED
  BY <1>1, <1>2, <1>3, <1>4, EncoderStep

(* A filter is started or stopped. *)
LEMMA FilterStep ==
  ASSUME IInv, NEW s \in enabled, NEW to \in {"running", "stopped"},
         enc \in {"starting", "waiting", "stopping"}, lock[s] = "free",
         state' = [state EXCEPT ![s] = to],
         rterr' \in {rterr, [rterr EXCEPT ![s] = FALSE]},
         UNCHANGED <<config, conn, flow, asked, lock, cap, events, heap>>,
         UNCHANGED <<initVars, enc, com>>
  PROVE  IInv'
<1>1. InitTyped' /\ Asked'
  BY InitKept
<1>2. Described' /\ Blocks'
  BY TypesKept DEF initVars
<1>3. s \in Streams
  BY DEF IInv, InitTyped
<1>4. SinkTyped'
  <2>1. state' \in [Streams -> {"stopped", "running"}]
    BY DEF IInv, SinkTyped
  <2>2. rterr' \in [Streams -> BOOLEAN]
    BY DEF IInv, SinkTyped
  <2> QED
    BY <2>1, <2>2 DEF IInv, SinkTyped
<1>5. Queue'
  BY QueueKept
<1>6. Balanced'
  BY BalancedInUse DEF initVars
<1>7. Threads'
  <2>1. /\ step' = step /\ enabled' = enabled /\ enc' = enc
        /\ step = "ready" /\ cap[s] = "idle"
    BY <1>3, UsedWhenReady DEF IInv, Threads, initVars
  <2>2. \A u \in Streams : cap[u] = "accepted" => state'[u] = "running"
    BY <1>3, <2>1 DEF IInv, Threads, SinkTyped
  <2> QED
    BY <2>1, <2>2 DEF IInv, Threads
<1> QED
  BY <1>1, <1>2, <1>4, <1>5, <1>6, <1>7 DEF IInv

(* ... by Run ... *)
LEMMA StartFilterKeeps ==
  ASSUME IInv, StartFilter
  PROVE  IInv'
<1>1. PICK s \in enabled : FilterRun(s)
  BY DEF StartFilter
<1>2. enc \in {"starting", "waiting"} /\ UNCHANGED <<initVars, enc, com>>
  BY DEF StartFilter
<1>3. /\ lock[s] = "free" /\ state' = [state EXCEPT ![s] = "running"]
      /\ rterr' = rterr
      /\ UNCHANGED <<config, conn, flow, asked, lock, cap, events, heap>>
  BY <1>1 DEF FilterRun
<1> QED
  BY <1>2, <1>3, FilterStep

(* ... or by Stop. *)
LEMMA StopFilterKeeps ==
  ASSUME IInv, StopFilter
  PROVE  IInv'
<1>1. PICK s \in enabled : FilterStop(s)
  BY DEF StopFilter
<1>2. enc = "stopping" /\ UNCHANGED <<initVars, enc, com>>
  BY DEF StopFilter
<1>3. /\ lock[s] = "free" /\ state' = [state EXCEPT ![s] = "stopped"]
      /\ rterr' = [rterr EXCEPT ![s] = FALSE]
      /\ UNCHANGED <<config, conn, flow, asked, lock, cap, events, heap>>
  BY <1>1 DEF FilterStop
<1> QED
  BY <1>2, <1>3, FilterStep

(* The source is destroyed. *)
LEMMA DestroyKeeps ==
  ASSUME IInv, Destroy
  PROVE  IInv'
<1>1. /\ step \in {"ready", "failed"} /\ enc \in {"none", "left"}
      /\ \A s \in Streams : lock[s] = "free"
      /\ step' = "gone"
      /\ state' = [s \in Streams |-> "stopped"]
      /\ com' = [com EXCEPT !.main = @ - 1]
      /\ UNCHANGED <<stream, index, enabled, requested, manual, dialogs,
                     shared, accepted, actual, config, conn, flow, asked,
                     rterr, lock, cap, events, heap, enc>>
  BY DEF Destroy
<1>2. InitTyped' /\ Asked'
  <2>1. InitTyped'
    BY <1>1 DEF IInv, InitTyped, Steps
  <2>2. Asked'
    BY <1>1 DEF IInv, Asked
  <2> QED
    BY <2>1, <2>2
<1>3. SinkTyped' /\ Queue'
  BY <1>1 DEF IInv, SinkTyped, Queue
<1>4. Threads'
  BY <1>1 DEF IInv, Threads
<1>5. Described'
  BY <1>1 DEF IInv, Described
<1>6. Blocks'
  BY <1>1 DEF IInv, Blocks
<1>7. Balanced'
  <2>1. com \in [main : -1..1, encoder : 0..1] /\ com.main >= 0
    BY <1>1 DEF IInv, Balanced
  <2>2. /\ com' \in [main : -1..1, encoder : 0..1]
        /\ com'.encoder = com.encoder
    BY <1>1, <2>1
  <2> QED
    BY <1>1, <2>1, <2>2 DEF IInv, Balanced
<1> QED
  BY <1>2, <1>3, <1>4, <1>5, <1>6, <1>7 DEF IInv

-----------------------------------------------------------------------------
(* The capture threads. *)

(* Another event. *)
LEMMA QueueAppend ==
  ASSUME IInv, Len(events) < MaxEvents,
         NEW code \in GraphEvents \cup {"ERRORABORT"},
         events' = Append(events, code)
  PROVE  Queue'
<1> DEFINE T == GraphEvents \cup {"ERRORABORT"}
           q == events
<1>1. q \in Seq(T) /\ Len(q) < MaxEvents /\ code \in T
  BY DEF IInv, Queue
<1> HIDE DEF T, q
<1>2. /\ Append(q, code) \in Seq(T) /\ Len(Append(q, code)) = Len(q) + 1
      /\ Len(q) \in Nat
  BY <1>1, AppendProperties, LenProperties
<1>3. Len(Append(q, code)) <= MaxEvents
  BY <1>1, <1>2, OffersAssumption
<1> QED
  BY <1>2, <1>3 DEF Queue, T, q

(* While the filters of a started graph live. *)
LEMMA AliveFacts ==
  ASSUME IInv, GraphAlive
  PROVE  /\ step = "ready" /\ enc \notin {"none", "dead"}
         /\ HeapOK(heap, {})
<1>1. step = "ready" /\ accepted = NoMediaType /\ enc \notin {"none", "dead"}
  BY DEF IInv, GraphAlive, Blocks
<1>2. BlobOf(NoMediaType) = {}
  BY DEF BlobOf
<1> QED
  BY <1>1, <1>2, AcceptedHeld

(* A capture thread moves without a change to the stored types. *)
LEMMA ThreadStep ==
  ASSUME IInv, GraphAlive, NEW s \in enabled,
         NEW l \in {"free", "capture"}, NEW c \in {"idle", "locked", "accepted"},
         lock' = [lock EXCEPT ![s] = l], cap' = [cap EXCEPT ![s] = c],
         l = "free" <=> c = "idle",
         c = "accepted" => state[s] = "running",
         c # "idle" => conn[s] # NoMediaType,
         UNCHANGED <<initVars, enc, com, conn, state>>,
         config' \in [Streams -> Settings], flow' \in [Streams -> MaybeType],
         asked' \in [Streams -> BOOLEAN], rterr' \in [Streams -> BOOLEAN],
         Queue', Described', Blocks'
  PROVE  IInv'
<1>1. InitTyped' /\ Asked'
  BY InitKept
<1>2. s \in Streams
  BY DEF IInv, InitTyped
<1>3. SinkTyped'
  <2>1. /\ lock' \in [Streams -> {"free", "capture"}]
        /\ cap' \in [Streams -> {"idle", "locked", "accepted"}]
    BY DEF IInv, SinkTyped
  <2> QED
    BY <2>1 DEF IInv, SinkTyped
<1>4. Balanced'
  BY DEF IInv, Balanced, initVars
<1>5. Threads'
  <2>1. /\ step' = step /\ enabled' = enabled /\ enc' = enc /\ step = "ready"
        /\ enc # "none" /\ conn' = conn /\ state' = state
    BY AliveFacts DEF initVars
  <2>2. \A u \in Streams :
          /\ u # s => lock'[u] = lock[u] /\ cap'[u] = cap[u]
          /\ u = s => lock'[u] = l /\ cap'[u] = c
    BY <1>2 DEF IInv, SinkTyped
  <2>3. ASSUME NEW u \in Streams
        PROVE  /\ lock'[u] = "free" <=> cap'[u] = "idle"
               /\ cap'[u] = "accepted" => state[u] = "running"
               /\ cap'[u] # "idle" => u \in enabled /\ conn[u] # NoMediaType
    <3>1. CASE u = s
      BY <2>2, <3>1
    <3>2. CASE u # s
      BY <2>2, <3>2 DEF IInv, Threads
    <3> QED
      BY <3>1, <3>2
  <2> QED
    BY <2>1, <2>3 DEF IInv, Threads
<1> QED
  BY <1>1, <1>3, <1>4, <1>5 DEF IInv

(* It takes or returns the lock, or calls the callback. *)
LEMMA LockStep ==
  ASSUME IInv, GraphAlive, NEW s \in enabled,
         NEW l \in {"free", "capture"}, NEW c \in {"idle", "locked", "accepted"},
         lock' = [lock EXCEPT ![s] = l], cap' = [cap EXCEPT ![s] = c],
         l = "free" <=> c = "idle",
         c = "accepted" => state[s] = "running",
         c # "idle" => conn[s] # NoMediaType,
         UNCHANGED <<initVars, enc, com>>,
         UNCHANGED <<config, conn, flow, asked, state, rterr, events>>,
         HeapOK(heap', {})
  PROVE  IInv'
<1>1. /\ config' \in [Streams -> Settings] /\ flow' \in [Streams -> MaybeType]
      /\ asked' \in [Streams -> BOOLEAN] /\ rterr' \in [Streams -> BOOLEAN]
  BY DEF IInv, SinkTyped
<1>2. Queue'
  BY QueueKept
<1>3. Described'
  BY DEF IInv, Described, initVars
<1>4. Blocks'
  <2>1. accepted = NoMediaType
    BY AliveFacts DEF IInv, Blocks
  <2>2. BlobOf(NoMediaType) = {} /\ NoMediaType \in MaybeType
    BY DEF BlobOf, MaybeType
  <2>3. Wanted(NoMediaType, heap', stream')
    BY <2>2 DEF Wanted
  <2>4. accepted' = NoMediaType
    BY <2>1 DEF initVars
  <2> QED
    BY <2>3, <2>4 DEF IInv, Blocks
<1> QED
  BY <1>1, <1>2, <1>3, <1>4, ThreadStep

(* What a capture thread's question or change of type stores. *)
LEMMA CheckedType ==
  ASSUME IInv, GraphAlive, NEW s \in enabled, NEW t \in Offers[s],
         heap' = CheckHeap(s, t, heap), UNCHANGED <<initVars, conn>>
  PROVE  /\ s \in Streams /\ t \in MediaTypes /\ Blocks'
         /\ Stored(s, t, config[s]) \in Settings
<1>1. s \in Streams
  BY DEF IInv, InitTyped
<1>2. t \in MediaTypes /\ (InfoOffered => t.fmt # "ks")
  BY <1>1, OfferedType
<1>3. Stored(s, t, config[s]) \in Settings
  <2> DEFINE was == config[s]
  <2>1. was \in Settings
    BY <1>1 DEF IInv, SinkTyped
  <2> HIDE DEF was
  <2>2. Stored(s, t, was) \in Settings
    BY <1>2, <2>1, StoredSettings
  <2> QED
    BY <2>2 DEF was
<1>4. HeapOK(heap', {})
  <2> DEFINE h == heap
  <2>1. HeapOK(h, {})
    BY AliveFacts
  <2> HIDE DEF h
  <2>2. HeapOK(CheckHeap(s, t, h), {})
    BY <1>2, <2>1, CheckHeapOK
  <2> QED
    BY <2>2 DEF h
<1>5. Blocks'
  <2>1. accepted = NoMediaType
    BY AliveFacts DEF IInv, Blocks
  <2>2. BlobOf(NoMediaType) = {} /\ NoMediaType \in MaybeType
    BY DEF BlobOf, MaybeType
  <2>3. Wanted(NoMediaType, heap', stream')
    BY <1>4, <2>2 DEF Wanted
  <2>4. accepted' = NoMediaType
    BY <2>1 DEF initVars
  <2> QED
    BY <2>3, <2>4 DEF IInv, Blocks
<1> QED
  BY <1>1, <1>2, <1>3, <1>5

(* What Described says of one stream while the graph runs. *)
DescribedOne(s) ==
  /\ conn[s] = NoMediaType <=> flow[s] = NoMediaType
  /\ conn[s] # NoMediaType =>
       /\ Accepts(s, conn[s]) /\ Accepts(s, flow[s])
       /\ ~asked[s] /\ Readable(s, flow[s]) => config[s] = flow[s].config
  /\ actual[s] # NoConfig =>
       conn[s] # NoMediaType /\ actual[s] = conn[s].config

(* The other streams keep their types. *)
LEMMA DescribedStep ==
  ASSUME IInv, GraphAlive, NEW s \in Streams, DescribedOne(s)',
         UNCHANGED <<initVars, enc, conn>>,
         \A u \in Streams \ {s} : /\ config'[u] = config[u]
                                  /\ flow'[u] = flow[u]
                                  /\ asked'[u] = asked[u]
  PROVE  Described'
<1>1. step = "ready" /\ enc \notin {"none", "dead"}
  BY AliveFacts
<1>2. step' = "ready" /\ enc' # "none" /\ actual' = actual /\ conn' = conn
  BY <1>1 DEF initVars
<1>3. ASSUME NEW u \in Streams PROVE DescribedOne(u)'
  <2>1. CASE u = s
    BY <2>1
  <2>2. CASE u # s
    <3>1. DescribedOne(u)
      BY DEF IInv, Described, DescribedOne
    <3> QED
      BY <1>2, <2>2, <3>1 DEF DescribedOne
  <2> QED
    BY <2>1, <2>2
<1> QED
  BY <1>2, <1>3 DEF Described, DescribedOne

(* Between two samples a question is answered, whose answer is stored. *)
LEMMA QueryAcceptKeeps ==
  ASSUME IInv, GraphAlive, NEW s \in enabled, NEW t \in Offers[s],
         QueryAccept(s, t), UNCHANGED <<initVars, enc, com>>
  PROVE  IInv'
<1>1. /\ conn[s] # NoMediaType /\ cap[s] = "idle"
      /\ config' = [config EXCEPT ![s] = Stored(s, t, @)]
      /\ asked' = [asked EXCEPT ![s] = @ \/ (Accepts(s, t) /\ t # flow[s])]
      /\ heap' = CheckHeap(s, t, heap)
      /\ UNCHANGED <<conn, flow, state, rterr, lock, cap, events>>
  BY DEF QueryAccept
<1>2. /\ s \in Streams /\ t \in MediaTypes /\ Blocks'
      /\ Stored(s, t, config[s]) \in Settings
  BY <1>1, CheckedType
<1>3. /\ config \in [Streams -> Settings] /\ asked \in [Streams -> BOOLEAN]
      /\ flow \in [Streams -> MaybeType] /\ rterr \in [Streams -> BOOLEAN]
      /\ lock \in [Streams -> {"free", "capture"}]
      /\ cap \in [Streams -> {"idle", "locked", "accepted"}]
  BY DEF IInv, SinkTyped
<1> DEFINE set == Stored(s, t, config[s])
           a == asked[s] \/ (Accepts(s, t) /\ t # flow[s])
<1>4. /\ config' = [config EXCEPT ![s] = set] /\ asked' = [asked EXCEPT ![s] = a]
      /\ a \in BOOLEAN
  BY <1>1, <1>3
<1>5. ~a /\ Accepts(s, t) => t = flow[s]
  OBVIOUS
<1>6. ~a => ~asked[s]
  OBVIOUS
<1>7. set = IF Accepts(s, t) /\ Readable(s, t) THEN t.config ELSE config[s]
  BY DEF Stored, Readable
<1> HIDE DEF set, a
<1>8. /\ config' \in [Streams -> Settings] /\ asked' \in [Streams -> BOOLEAN]
      /\ config'[s] = set /\ (asked'[s] <=> a)
      /\ \A u \in Streams \ {s} :
           config'[u] = config[u] /\ flow'[u] = flow[u] /\ asked'[u] = asked[u]
  BY <1>1, <1>2, <1>3, <1>4 DEF set
<1>9. DescribedOne(s)'
  <2>1. DescribedOne(s) /\ Accepts(s, flow[s])
    BY <1>1, <1>2 DEF IInv, Described, DescribedOne
  <2>2. ~a /\ Readable(s, flow[s]) => set = flow[s].config
    <3>1. CASE Accepts(s, t)
      BY <1>5, <1>7, <3>1
    <3>2. CASE ~Accepts(s, t)
      <4>1. set = config[s]
        BY <1>7, <3>2
      <4> QED
        BY <1>1, <1>6, <2>1, <4>1 DEF DescribedOne
    <3> QED
      BY <3>1, <3>2
  <2>3. conn' = conn /\ flow' = flow /\ actual' = actual
    BY <1>1 DEF initVars
  <2> QED
    BY <1>8, <2>1, <2>2, <2>3 DEF DescribedOne
<1>10. Described'
  BY <1>1, <1>2, <1>8, <1>9, DescribedStep
<1>11. Queue'
  BY <1>1, QueueKept
<1>12. /\ lock' = [lock EXCEPT ![s] = "free"] /\ cap' = [cap EXCEPT ![s] = "idle"]
  <2>1. lock[s] = "free"
    BY <1>1, <1>2 DEF IInv, Threads
  <2> QED
    BY <1>1, <1>2, <1>3, <2>1
<1>13. /\ flow' \in [Streams -> MaybeType] /\ rterr' \in [Streams -> BOOLEAN]
  BY <1>1, <1>3
<1> QED
  BY <1>1, <1>2, <1>8, <1>10, <1>11, <1>12, <1>13, ThreadStep

(* A sample announces another type. *)
LEMMA ReceiveTypeChangeKeeps ==
  ASSUME IInv, GraphAlive, NEW s \in enabled, NEW t \in Offers[s],
         ReceiveTypeChange(s, t), UNCHANGED <<initVars, enc, com>>
  PROVE  IInv'
<1>1. /\ cap[s] = "locked" /\ state[s] # "stopped"
      /\ heap' = CheckHeap(s, t, heap)
      /\ UNCHANGED <<conn, state>>
  BY DEF ReceiveTypeChange, CheckStreaming
<1>2. /\ s \in Streams /\ t \in MediaTypes /\ Blocks'
      /\ Stored(s, t, config[s]) \in Settings
  BY <1>1, CheckedType
<1>3. /\ config \in [Streams -> Settings] /\ asked \in [Streams -> BOOLEAN]
      /\ flow \in [Streams -> MaybeType] /\ rterr \in [Streams -> BOOLEAN]
      /\ lock \in [Streams -> {"free", "capture"}]
      /\ cap \in [Streams -> {"idle", "locked", "accepted"}]
      /\ state \in [Streams -> {"stopped", "running"}]
  BY DEF IInv, SinkTyped
<1>4. state[s] = "running" /\ conn[s] # NoMediaType /\ lock[s] = "capture"
  BY <1>1, <1>2, <1>3 DEF IInv, Threads
<1>5. CASE /\ Accepts(s, t)
           /\ config' = [config EXCEPT ![s] = Stored(s, t, @)]
           /\ flow' = [flow EXCEPT ![s] = t]
           /\ asked' = [asked EXCEPT ![s] = FALSE]
           /\ cap' = [cap EXCEPT ![s] = "accepted"]
           /\ UNCHANGED <<rterr, lock, events>>
  <2>1. t \in MaybeType /\ t # NoMediaType
    BY <1>2, NotNone DEF MaybeType
  <2>2. /\ config' \in [Streams -> Settings] /\ flow' \in [Streams -> MaybeType]
        /\ asked' \in [Streams -> BOOLEAN] /\ rterr' \in [Streams -> BOOLEAN]
        /\ config'[s] = Stored(s, t, config[s]) /\ flow'[s] = t
        /\ \A u \in Streams \ {s} :
             config'[u] = config[u] /\ flow'[u] = flow[u] /\ asked'[u] = asked[u]
    BY <1>2, <1>3, <1>5, <2>1
  <2>3. Readable(s, t) => Stored(s, t, config[s]) = t.config
    BY <1>5 DEF Stored, Readable
  <2>4. DescribedOne(s)'
    <3>1. DescribedOne(s) /\ Accepts(s, conn[s])
      BY <1>2, <1>4 DEF IInv, Described, DescribedOne
    <3>2. conn' = conn /\ actual' = actual
      BY <1>1 DEF initVars
    <3> QED
      BY <1>4, <1>5, <2>1, <2>2, <2>3, <3>1, <3>2 DEF DescribedOne
  <2>5. Described'
    BY <1>1, <1>2, <2>2, <2>4, DescribedStep
  <2>6. Queue'
    BY <1>5, QueueKept
  <2>7. lock' = [lock EXCEPT ![s] = "capture"]
    BY <1>2, <1>3, <1>4, <1>5
  <2> QED
    BY <1>1, <1>2, <1>4, <1>5, <2>2, <2>5, <2>6, <2>7, ThreadStep
<1>6. CASE /\ Len(events) < MaxEvents
           /\ rterr' = [rterr EXCEPT ![s] = TRUE]
           /\ events' = Append(events, "ERRORABORT")
           /\ Unlock(s)
           /\ UNCHANGED <<config, flow, asked>>
  <2>1. Queue'
    BY <1>6, QueueAppend
  <2>2. rterr' \in [Streams -> BOOLEAN]
    BY <1>2, <1>3, <1>6
  <2>3. Described'
    <3>1. UNCHANGED <<conn, flow, config, asked, actual, enc, step, stream>>
      BY <1>1, <1>6 DEF initVars
    <3> QED
      BY <3>1 DEF IInv, Described
  <2>4. lock' = [lock EXCEPT ![s] = "free"] /\ cap' = [cap EXCEPT ![s] = "idle"]
    BY <1>6 DEF Unlock
  <2>5. /\ config' \in [Streams -> Settings] /\ flow' \in [Streams -> MaybeType]
        /\ asked' \in [Streams -> BOOLEAN]
    BY <1>3, <1>6
  <2> QED
    BY <1>1, <1>2, <2>1, <2>2, <2>3, <2>4, <2>5, ThreadStep
<1> QED
  BY <1>5, <1>6 DEF ReceiveTypeChange

(* A frame without a stop time: the connection's type is taken over. *)
LEMMA TimedHeap ==
  ASSUME IInv, GraphAlive, NEW s \in Streams, NEW stopTime \in BOOLEAN,
         OnSampleReceived(s, stopTime)
  PROVE  HeapOK(heap', {})
<1> DEFINE h      == heap
           t      == conn[s]
           copied == CoTaskMemAlloc(h, "connected")
           own    == [t EXCEPT !.blob = "connected"]
           format == VideoInitFrom(copied, "timed", TRUE, own)
<1>1. /\ s = "audio" \/ t.blob = NoBlob => stopTime
      /\ cap[s] = "accepted"
      /\ heap' = IF stopTime THEN h
                 ELSE IF format.ok THEN FreeMediaType(format.heap, format.type)
                 ELSE format.heap
  BY DEF OnSampleReceived
<1>2. HeapOK(h, {})
  BY AliveFacts
<1>3. CASE stopTime
  BY <1>1, <1>2, <1>3
<1>4. CASE ~stopTime
  <2>1. /\ s = "video" /\ t # NoMediaType /\ t \in MediaTypes
        /\ Accepts(s, t)
        /\ InfoOffered => t.fmt = "info"
    BY <1>1, <1>4, TheStreams
       DEF IInv, SinkTyped, Threads, Described, Blocks, MaybeType
  <2>2. /\ "connected" \in Owned /\ "connected" \in Blobs
        /\ "connected" # NoBlob /\ "timed" \in TakenOver
        /\ {} \cup {"connected"} = {"connected"}
        /\ "connected" \notin TakenOver
    BY DEF Owned, Blobs, TakenOver, NoBlob
  <2>3. HeapOK(copied, {"connected"})
    <3> HIDE DEF h
    <3>1. HeapOK(CoTaskMemAlloc(h, "connected"), {} \cup {"connected"})
      BY <1>2, <2>2, AllocOK
    <3> QED
      BY <2>2, <3>1
  <2>4. /\ own \in MediaTypes /\ own.blob = "connected"
        /\ own.major = t.major /\ own.fmt = t.fmt
    <3> HIDE DEF t
    <3> QED
      BY <2>1, <2>2, OtherBlob
  <2>5. t.major = "video"
    BY <2>1 DEF Accepts
  <2> DEFINE g == CoTaskMemAlloc(copied, "timed")
  <2> HIDE DEF h, t, copied, own
  <2>6. own # NoMediaType /\ own \in MaybeType
    BY <2>4, NotNone DEF MaybeType
  <2>7. BlobOf(own) = {"connected"}
    BY <2>2, <2>4, <2>6 DEF BlobOf
  <2>8. HeapOK(g, {"connected"})
    BY <2>2, <2>3, AllocTakenOK
  <2>9. CASE own.fmt = "info"
    <3>1. format.ok = TRUE /\ format.heap = g /\ format.type = own
      BY <2>4, <2>5, <2>9 DEF VideoInitFrom, Allocate, Result
    <3>2. heap' = FreeMediaType(g, own)
      BY <1>1, <1>4, <3>1
    <3> HIDE DEF g, format
    <3> DEFINE held == {"connected"}
    <3>3. /\ HeapOK(g, held) /\ BlobOf(own) \subseteq held
          /\ BlobOf(own) \subseteq Owned /\ held \ BlobOf(own) = {}
      BY <2>2, <2>7, <2>8
    <3> HIDE DEF held
    <3>4. HeapOK(FreeMediaType(g, own), held \ BlobOf(own))
      BY <2>6, <2>9, <3>3, FreeTypeOK
    <3> QED
      BY <3>2, <3>3, <3>4
  <2>10. CASE own.fmt # "info"
    <3>1. format.ok = FALSE /\ format.heap = copied
      BY <2>10 DEF VideoInitFrom, Failure, Result
    <3>2. heap' = copied /\ ~InfoOffered
      BY <1>1, <1>4, <2>1, <2>4, <2>10, <3>1
    <3> QED
      BY <2>3, <3>2 DEF HeapOK
  <2> QED
    BY <2>9, <2>10
<1> QED
  BY <1>3, <1>4

(* A capture thread takes a step. *)
LEMMA CaptureKeeps ==
  ASSUME IInv, Capture
  PROVE  IInv'
<1>1. GraphAlive /\ UNCHANGED <<initVars, enc, com>>
  BY DEF Capture
<1>2. PICK s \in enabled : CaptureStep(s)
  BY DEF Capture
<1>3. s \in Streams /\ state[s] \in {"stopped", "running"} /\ HeapOK(heap, {})
  BY <1>1, AliveFacts DEF IInv, InitTyped, SinkTyped
<1>4. CASE ReceiveLock(s)
  <2>1. /\ conn[s] # NoMediaType
        /\ lock' = [lock EXCEPT ![s] = "capture"]
        /\ cap' = [cap EXCEPT ![s] = "locked"]
        /\ heap' = heap
        /\ UNCHANGED <<config, conn, flow, asked, state, rterr, events>>
    BY <1>4 DEF ReceiveLock
  <2> QED
    BY <1>1, <1>3, <2>1, LockStep
<1>5. CASE ReceiveRefused(s)
  <2>1. /\ lock' = [lock EXCEPT ![s] = "free"]
        /\ cap' = [cap EXCEPT ![s] = "idle"]
        /\ heap' = heap
        /\ UNCHANGED <<config, conn, flow, asked, state, rterr, events>>
    BY <1>5 DEF ReceiveRefused, Unlock
  <2> QED
    BY <1>1, <1>3, <2>1, LockStep
<1>6. CASE ReceiveSame(s)
  <2>1. /\ cap[s] = "locked" /\ state[s] = "running"
        /\ cap' = [cap EXCEPT ![s] = "accepted"]
        /\ heap' = heap /\ lock' = lock
        /\ UNCHANGED <<config, conn, flow, asked, state, rterr, events>>
    BY <1>3, <1>6 DEF ReceiveSame, CheckStreaming
  <2>2. lock[s] = "capture" /\ conn[s] # NoMediaType
    BY <1>3, <2>1 DEF IInv, SinkTyped, Threads
  <2>3. lock' = [lock EXCEPT ![s] = "capture"]
    BY <1>3, <2>1, <2>2 DEF IInv, SinkTyped
  <2> QED
    BY <1>1, <1>3, <2>1, <2>2, <2>3, LockStep
<1>7. CASE \E type \in Offers[s] \ {flow[s]} : ReceiveTypeChange(s, type)
  <2>1. PICK t \in Offers[s] : ReceiveTypeChange(s, t)
    BY <1>7
  <2> QED
    BY <1>1, <2>1, ReceiveTypeChangeKeeps
<1>8. CASE \E type \in Offers[s] : QueryAccept(s, type)
  <2>1. PICK t \in Offers[s] : QueryAccept(s, t)
    BY <1>8
  <2> QED
    BY <1>1, <2>1, QueryAcceptKeeps
<1>9. CASE \E stopTime \in BOOLEAN : OnSampleReceived(s, stopTime)
  <2>1. PICK stopTime \in BOOLEAN : OnSampleReceived(s, stopTime)
    BY <1>9
  <2>2. HeapOK(heap', {})
    BY <1>1, <1>3, <2>1, TimedHeap
  <2>3. /\ lock' = [lock EXCEPT ![s] = "free"]
        /\ cap' = [cap EXCEPT ![s] = "idle"]
        /\ UNCHANGED <<config, conn, flow, asked, state, rterr, events>>
    BY <2>1 DEF OnSampleReceived, Unlock
  <2> QED
    BY <1>1, <2>2, <2>3, LockStep
<1> QED
  BY <1>2, <1>4, <1>5, <1>6, <1>7, <1>8, <1>9 DEF CaptureStep

(* A device or the graph manager reports an event. *)
LEMMA NotifyKeeps ==
  ASSUME IInv, Notify
  PROVE  IInv'
<1>1. /\ step = "ready" /\ enc \notin {"none", "dead", "left"}
      /\ Len(events) < MaxEvents
      /\ UNCHANGED <<initVars, pinVars, heap, enc, com>>
  BY DEF Notify, Streaming, GraphAlive
<1>2. PICK code \in GraphEvents : events' = Append(events, code)
  BY DEF Notify
<1>3. Queue'
  BY <1>1, <1>2, QueueAppend
<1>4. Balanced'
  BY <1>1 DEF IInv, Balanced, initVars
<1>5. enc' = "polling" => \A s \in enabled : state[s] = "running"
  BY <1>1 DEF IInv, Threads
<1> QED
  BY <1>1, <1>3, <1>4, <1>5, EncoderStep

-----------------------------------------------------------------------------
(* The inductive invariant. *)

(* It holds before Init is called, ... *)
LEMMA InitOK == Init => IInv
<1> SUFFICES ASSUME Init PROVE IInv
  OBVIOUS
<1>1. /\ config = [s \in Streams |-> NoConfig]
      /\ conn = [s \in Streams |-> NoMediaType]
      /\ flow = [s \in Streams |-> NoMediaType]
      /\ asked = [s \in Streams |-> FALSE]
      /\ state = [s \in Streams |-> "stopped"]
      /\ rterr = [s \in Streams |-> FALSE]
      /\ lock = [s \in Streams |-> "free"]
      /\ cap = [s \in Streams |-> "idle"]
      /\ events = <<>>
      /\ heap = EmptyHeap
  BY DEF Init, SinkInit
<1>2. /\ step = "start" /\ stream = "video" /\ index = 0
      /\ enabled \in (SUBSET Streams) \ {{}}
      /\ dialogs = [s \in Streams |-> 0]
      /\ accepted = NoMediaType
      /\ actual = [s \in Streams |-> NoConfig]
      /\ enc = "none" /\ com = [main |-> 0, encoder |-> 0]
  BY DEF Init
<1>3. "video" \in Streams /\ "audio" \in Streams
  BY TheStreams
<1>4. NoConfig \in Settings /\ NoMediaType \in MaybeType
  BY DEF Settings, MaybeType
<1>5. requested \in [Streams -> Settings]
  <2>1. PICK v \in Requests["video"], a \in Requests["audio"] :
          requested = [s \in Streams |-> IF s = "video" THEN v ELSE a]
    BY DEF Init
  <2>2. v \in Settings /\ a \in Settings
    BY <1>3 DEF Settings
  <2> QED
    BY <2>1, <2>2
<1>6. manual \in [Streams -> BOOLEAN]
  <2>1. PICK v \in Manual["video"], a \in Manual["audio"] :
          manual = [s \in Streams |-> IF s = "video" THEN v ELSE a]
    BY DEF Init
  <2>2. v \in BOOLEAN /\ a \in BOOLEAN
    BY <1>3, OffersAssumption
  <2> QED
    BY <2>1, <2>2
<1>7. InitTyped
  <2>1. 0 \in 0..DefaultIndex("video")
    BY DEF DefaultIndex, VideoFormats
  <2> QED
    BY <1>2, <1>3, <1>4, <1>5, <1>6, <2>1 DEF InitTyped, Steps
<1>8. SinkTyped
  BY <1>1, <1>4 DEF SinkTyped
<1>9. Queue
  <2>1. MaxEvents \in Nat
    BY OffersAssumption
  <2>2. Len(events) = 0
    BY <1>1
  <2>3. events \in Seq(GraphEvents \cup {"ERRORABORT"})
    BY <1>1
  <2> QED
    BY <2>1, <2>2, <2>3 DEF Queue
<1>10. Balanced
  BY <1>2 DEF Balanced
<1>11. Asked
  BY <1>2, <1>3 DEF Asked
<1>12. Threads
  BY <1>1, <1>2 DEF Threads
<1>13. Described
  BY <1>1, <1>2 DEF Described
<1>14. Blocks
  <2>1. HeapOK(EmptyHeap, {})
    BY DEF HeapOK, EmptyHeap, Heaps
  <2>2. BlobOf(NoMediaType) = {}
    BY DEF BlobOf
  <2>3. Wanted(NoMediaType, heap, stream)
    BY <1>1, <1>4, <2>1, <2>2 DEF Wanted
  <2> QED
    BY <1>1, <1>2, <1>3, <2>3 DEF Blocks
<1> QED
  BY <1>7, <1>8, <1>9, <1>10, <1>11, <1>12, <1>13, <1>14 DEF IInv

(* ... every step keeps it, ... *)
LEMMA NextKeeps == IInv /\ [Next]_vars => IInv'
<1> SUFFICES ASSUME IInv, [Next]_vars PROVE IInv'
  OBVIOUS
<1>1. CASE CreateGraph
  BY <1>1, CreateGraphKeeps
<1>2. CASE CreateSource
  BY <1>2, CreateSourceKeeps
<1>3. CASE CreateSourceFails
  <2>1. InitFails("source") /\ UNCHANGED <<accepted, sinkVars, enc, com>>
    BY <1>3 DEF CreateSourceFails
  <2> QED
    BY <2>1, FailsKeeps
<1>4. CASE CreateSink
  BY <1>4, CreateSinkKeeps
<1>5. CASE Configure
  BY <1>5, ConfigureKeeps
<1>6. CASE DefaultFormat
  BY <1>6, DefaultFormatKeeps
<1>7. CASE TryType
  BY <1>7, TryTypeKeeps
<1>8. CASE ConnectFails
  BY <1>8, ConnectFailsKeeps
<1>9. CASE ReadBack
  BY <1>9, ReadBackKeeps
<1>10. CASE InitGraphControl
  BY <1>10, InitGraphControlKeeps
<1>11. CASE Run
  BY <1>11, RunKeeps
<1>12. CASE StartFilter
  BY <1>12, StartFilterKeeps
<1>13. CASE RunReturns
  BY <1>13, RunReturnsKeeps
<1>14. CASE CheckStatus
  BY <1>14, CheckStatusKeeps
<1>15. CASE LeaveLoop
  BY <1>15, LeaveLoopKeeps
<1>16. CASE StopFilter
  BY <1>16, StopFilterKeeps
<1>17. CASE StopReturns
  BY <1>17, StopReturnsKeeps
<1>18. CASE Destroy
  BY <1>18, DestroyKeeps
<1>19. CASE Capture
  BY <1>19, CaptureKeeps
<1>20. CASE Notify
  BY <1>20, NotifyKeeps
<1>21. CASE SamplesArrive
  BY <1>21, SamplesArriveKeeps
<1>22. CASE UNCHANGED vars
  <2>1. /\ UNCHANGED initVars /\ UNCHANGED pinVars
        /\ UNCHANGED <<events, heap, enc, com>>
    BY <1>22 DEF vars, sinkVars
  <2>2. InitTyped' /\ Asked'
    BY <2>1, InitKept
  <2>3. SinkTyped' /\ Queue'
    BY <2>1 DEF IInv, SinkTyped, Queue, pinVars
  <2>4. Described' /\ Blocks'
    BY <2>1, TypesKept DEF initVars, pinVars
  <2>5. Threads'
    BY <2>1 DEF IInv, Threads, initVars, pinVars
  <2>6. Balanced'
    BY <2>1 DEF IInv, Balanced, initVars
  <2> QED
    BY <2>2, <2>3, <2>4, <2>5, <2>6 DEF IInv
<1> QED
  BY <1>1, <1>2, <1>3, <1>4, <1>5, <1>6, <1>7, <1>8, <1>9, <1>10, <1>11,
     <1>12, <1>13, <1>14, <1>15, <1>16, <1>17, <1>18, <1>19, <1>20, <1>21,
     <1>22 DEF Next

(* ... so it always holds. *)
THEOREM IInvHolds == Spec => []IInv
BY InitOK, NextKeeps, PTL DEF Spec

-----------------------------------------------------------------------------
(* What it shows. *)

(* The type invariant of MediaSource. *)
THEOREM TypeOKHolds == Spec => []TypeOK
<1>1. IInv => TypeOK
  <2> SUFFICES ASSUME IInv PROVE TypeOK
    OBVIOUS
  <2>1. \A s \in Streams : (lock[s] = "free") = (cap[s] = "idle")
    BY DEF IInv, Threads
  <2>2. heap.live \cup heap.twice \cup heap.lost \subseteq Blobs
    BY DEF IInv, Blocks, Wanted, HeapOK, Heaps
  <2>3. com.main \in -1..1 /\ com.encoder \in 0..1
    BY DEF IInv, Balanced
  <2> QED
    BY <2>1, <2>2, <2>3 DEF IInv, InitTyped, Steps, Balanced, Queue, TypeOK
<1> QED
  BY <1>1, IInvHolds, PTL

(***************************************************************************)
(* Whatever types the devices offer: a frame or a sample buffer handed to  *)
(* the encoder is described by the settings of the type its stream has,    *)
(* unless that is not readable or another type was asked about meanwhile.  *)
(***************************************************************************)
THEOREM SamplesDescribedHolds == Spec => []SamplesDescribed
<1>1. IInv => SamplesDescribed
  BY DEF IInv, Threads, Described, SamplesDescribed
<1> QED
  BY <1>1, IInvHolds, PTL

(***************************************************************************)
(* Whatever types the devices offer and whatever is refused on the way:    *)
(* when Init has succeeded, the settings of the encoders and those that    *)
(* describe the frames agree, if the readback worked.                      *)
(***************************************************************************)
THEOREM ConfigsAgreeHolds == Spec => []ConfigsAgree
<1>1. IInv => ConfigsAgree
  <2> SUFFICES ASSUME IInv, step = "ready", enc = "none", NEW s \in enabled,
                      Readable(s, conn[s]), actual[s] # NoConfig
               PROVE  actual[s] = config[s]
    BY DEF ConfigsAgree
  <2>1. s \in Streams
    BY DEF IInv, InitTyped
  <2> QED
    BY <2>1 DEF IInv, Described
<1> QED
  BY <1>1, IInvHolds, PTL

(* The dialogs of a device are shown at most once. *)
THEOREM DialogsOnceHolds == Spec => []DialogsOnce
<1>1. IInv => DialogsOnce
  BY TheStreams DEF IInv, Asked, DialogsOnce
<1> QED
  BY <1>1, IInvHolds, PTL

(***************************************************************************)
(* Where video devices offer only types a VideoMediaType can hold and no   *)
(* audio device offers a ksproxy type: every format block is freed once    *)
(* and none is left after Init, save for those a VideoMediaType takes      *)
(* over.                                                                   *)
(***************************************************************************)
THEOREM BlobsReturnedHolds ==
  ASSUME InfoOffered
  PROVE  Spec => []BlobsReturned
<1>1. IInv => BlobsReturned
  <2> SUFFICES ASSUME IInv PROVE BlobsReturned
    OBVIOUS
  <2>1. /\ heap.twice \cup heap.lost \subseteq TakenOver
        /\ heap.live \subseteq TakenOver \cup BlobOf(accepted)
    BY DEF IInv, Blocks, Wanted, HeapOK
  <2>2. step \in {"ready", "failed", "gone"} => BlobOf(accepted) = {}
    BY DEF IInv, Blocks, BlobOf
  <2> QED
    BY <2>1, <2>2 DEF BlobsReturned
<1> QED
  BY <1>1, IInvHolds, PTL

-----------------------------------------------------------------------------
(* MediaSource implements CaptureSource. *)

(* The phase, ... *)
PhaseIs(p) ==
  /\ step = "gone" \/ enc = "dead" => p = "gone"
  /\ step # "gone" /\ enc = "none" =>
       p = IF step = "ready" THEN "ready" ELSE "closed"
  /\ step # "gone" /\ enc \in {"starting", "waiting", "polling"} =>
       p = "running"
  /\ step # "gone" /\ enc \in {"stopping", "left"} =>
       p = IF \E s \in enabled : state[s] = "running" THEN "running"
                                                      ELSE "stopped"

(* ... in a state ... *)
LEMMA PhaseNow == PhaseIs(Phase)
<1>1. CASE step = "gone" \/ enc = "dead"
  BY <1>1 DEF Phase, PhaseIs
<1>2. CASE step # "gone" /\ enc = "none"
  BY <1>2 DEF Phase, PhaseIs
<1>3. CASE step # "gone" /\ enc \in {"starting", "waiting", "polling"}
  BY <1>3 DEF Phase, PhaseIs
<1>4. CASE /\ step # "gone"
           /\ enc \notin {"dead", "none", "starting", "waiting", "polling"}
  BY <1>4 DEF Phase, PhaseIs
<1> QED
  BY <1>1, <1>2, <1>3, <1>4

(* ... and in the next. *)
LEMMA PhaseNext == PhaseIs(Phase)'
<1>1. CASE step' = "gone" \/ enc' = "dead"
  BY <1>1 DEF Phase, PhaseIs
<1>2. CASE step' # "gone" /\ enc' = "none"
  BY <1>2 DEF Phase, PhaseIs
<1>3. CASE step' # "gone" /\ enc' \in {"starting", "waiting", "polling"}
  BY <1>3 DEF Phase, PhaseIs
<1>4. CASE /\ step' # "gone"
           /\ enc' \notin {"dead", "none", "starting", "waiting", "polling"}
  BY <1>4 DEF Phase, PhaseIs
<1> QED
  BY <1>1, <1>2, <1>3, <1>4

(* No callback runs before Run, nor when the source is gone. *)
LEMMA NoCalls ==
  ASSUME IInv, enc \in {"none", "dead"} \/ step = "gone"
  PROVE  Calls = {}
BY DEF IInv, Threads, Calls

(* A step of Init is none of the callbacks' concern. *)
LEMMA ClosedStep ==
  ASSUME IInv, step \notin {"ready", "gone"}, step' \notin {"ready", "gone"},
         UNCHANGED <<enc, cap>>
  PROVE  UNCHANGED Promise!vars
<1>1. enc = "none" /\ enc' = "none"
  BY DEF IInv, Threads
<1>2. Phase = "closed" /\ Phase' = "closed"
  BY <1>1, PhaseNow, PhaseNext DEF PhaseIs
<1>3. Calls' = Calls
  BY DEF Calls
<1> QED
  BY <1>2, <1>3 DEF Promise!vars

(* A step that leaves phase and threads as they are. *)
LEMMA SameStep ==
  ASSUME UNCHANGED <<step, enabled, enc, state, cap>>
  PROVE  UNCHANGED Promise!vars
BY DEF Phase, Calls, Promise!vars

(* What a stream that runs makes of the phase. *)
LEMMA RunningPhase ==
  ASSUME IInv, GraphAlive, NEW s \in enabled, state[s] = "running"
  PROVE  Phase = "running"
<1>1. /\ step = "ready"
      /\ enc \in {"starting", "waiting", "polling", "stopping", "left"}
  BY DEF IInv, Balanced, GraphAlive
<1> QED
  BY <1>1, PhaseNow DEF PhaseIs

(* A step of a capture thread is a call, a return, or neither. *)
LEMMA CaptureSimulates ==
  ASSUME IInv, Capture
  PROVE  [Promise!Next]_(Promise!vars)
<1>1. /\ GraphAlive /\ UNCHANGED <<initVars, enc, com>>
      /\ step = "ready" /\ enc \notin {"none", "dead"}
  BY DEF Capture, GraphAlive
<1>2. PICK s \in enabled : CaptureStep(s)
  BY DEF Capture
<1>3. /\ s \in Streams /\ state[s] \in {"stopped", "running"}
      /\ cap \in [Streams -> {"idle", "locked", "accepted"}]
  BY DEF IInv, InitTyped, SinkTyped
<1>4. UNCHANGED <<step, enabled, enc>>
  BY <1>1 DEF initVars
<1>5. ASSUME UNCHANGED state PROVE Phase' = Phase
  BY <1>4, <1>5 DEF Phase
<1>6. ASSUME state' = state, NEW c \in {"idle", "locked"},
             cap[s] # "accepted", cap' = [cap EXCEPT ![s] = c]
      PROVE  UNCHANGED Promise!vars
  <2>1. Calls' = Calls
    BY <1>3, <1>4, <1>6 DEF Calls
  <2> QED
    BY <1>5, <1>6, <2>1 DEF Promise!vars
<1>7. ASSUME state' = state, state[s] = "running", cap[s] = "locked",
             cap' = [cap EXCEPT ![s] = "accepted"]
      PROVE  Promise!Next
  <2>1. Phase = "running" /\ Phase' = Phase
    BY <1>1, <1>5, <1>7, RunningPhase
  <2>2. s \notin Calls /\ Calls' = Calls \cup {s}
    BY <1>1, <1>3, <1>4, <1>7 DEF Calls
  <2>3. Promise!Call(s)
    BY <2>1, <2>2 DEF Promise!Call
  <2> QED
    BY <1>3, <2>3 DEF Promise!Next
<1>8. CASE ReceiveLock(s)
  <2>1. state' = state /\ cap[s] = "idle" /\ cap' = [cap EXCEPT ![s] = "locked"]
    BY <1>8 DEF ReceiveLock
  <2> QED
    BY <1>6, <2>1
<1>9. CASE ReceiveRefused(s)
  <2>1. state' = state /\ cap[s] = "locked" /\ cap' = [cap EXCEPT ![s] = "idle"]
    BY <1>9 DEF ReceiveRefused, Unlock
  <2> QED
    BY <1>6, <2>1
<1>10. CASE ReceiveSame(s)
  <2>1. /\ state' = state /\ state[s] = "running" /\ cap[s] = "locked"
        /\ cap' = [cap EXCEPT ![s] = "accepted"]
    BY <1>3, <1>10 DEF ReceiveSame, CheckStreaming
  <2> QED
    BY <1>7, <2>1
<1>11. CASE \E type \in Offers[s] \ {flow[s]} : ReceiveTypeChange(s, type)
  <2>1. /\ state' = state /\ state[s] = "running" /\ cap[s] = "locked"
        /\ \/ cap' = [cap EXCEPT ![s] = "accepted"]
           \/ cap' = [cap EXCEPT ![s] = "idle"]
    BY <1>3, <1>11 DEF ReceiveTypeChange, CheckStreaming, Unlock
  <2> QED
    BY <1>6, <1>7, <2>1
<1>12. CASE \E type \in Offers[s] : QueryAccept(s, type)
  <2>1. state' = state /\ cap' = cap
    BY <1>12 DEF QueryAccept
  <2> QED
    BY <1>4, <2>1, SameStep
<1>13. CASE \E stopTime \in BOOLEAN : OnSampleReceived(s, stopTime)
  <2>1. /\ state' = state /\ cap[s] = "accepted"
        /\ cap' = [cap EXCEPT ![s] = "idle"]
    BY <1>13 DEF OnSampleReceived, Unlock
  <2>2. s \in Calls /\ Calls' = Calls \ {s}
    BY <1>1, <1>3, <1>4, <2>1 DEF Calls
  <2>3. Phase' = Phase
    BY <1>5, <2>1
  <2>4. Promise!Return(s)
    BY <2>2, <2>3 DEF Promise!Return
  <2> QED
    BY <1>3, <2>4 DEF Promise!Next
<1> QED
  BY <1>2, <1>8, <1>9, <1>10, <1>11, <1>12, <1>13 DEF CaptureStep

(* Stopping the last filter that runs is the Stop of CaptureSource. *)
LEMMA StopFilterSimulates ==
  ASSUME IInv, StopFilter
  PROVE  [Promise!Next]_(Promise!vars)
<1>1. PICK s \in enabled : state[s] = "running" /\ FilterStop(s)
  BY DEF StopFilter
<1>2. enc = "stopping" /\ UNCHANGED <<initVars, enc, com>>
  BY DEF StopFilter
<1>3. /\ lock[s] = "free" /\ state' = [state EXCEPT ![s] = "stopped"]
      /\ cap' = cap
  BY <1>1 DEF FilterStop
<1>4. /\ s \in Streams /\ step = "ready" /\ step' = step /\ enabled' = enabled
      /\ enc' = "stopping"
  BY <1>2, UsedWhenReady DEF IInv, InitTyped, initVars
<1>5. Phase = "running"
  BY <1>1, <1>2, <1>4, PhaseNow DEF PhaseIs
<1>6. Calls' = Calls
  BY <1>2, <1>3, <1>4 DEF Calls
<1>7. CASE \E u \in enabled : state'[u] = "running"
  <2>1. Phase' = "running"
    BY <1>4, <1>7, PhaseNext DEF PhaseIs
  <2> QED
    BY <1>5, <1>6, <2>1 DEF Promise!vars
<1>8. CASE ~\E u \in enabled : state'[u] = "running"
  <2>1. Phase' = "stopped"
    BY <1>4, <1>8, PhaseNext DEF PhaseIs
  <2>2. Calls = {}
    <3>1. ASSUME NEW u \in Streams, cap[u] = "accepted" PROVE FALSE
      <4>1. u \in enabled /\ state[u] = "running" /\ lock[u] # "free"
        BY <3>1 DEF IInv, Threads
      <4>2. u # s
        BY <1>3, <4>1
      <4>3. state'[u] = state[u]
        BY <1>3, <3>1, <4>2 DEF IInv, SinkTyped
      <4> QED
        BY <1>8, <4>1, <4>3
    <3> QED
      BY <3>1 DEF Calls
  <2>3. Promise!Stop
    BY <1>5, <1>6, <2>1, <2>2 DEF Promise!Stop
  <2> QED
    BY <2>3 DEF Promise!Next
<1> QED
  BY <1>7, <1>8

(* Every step of MediaSource is one of CaptureSource, or none. *)
LEMMA SimulationStep ==
  IInv /\ IInv' /\ [Next]_vars => [Promise!Next]_(Promise!vars)
<1> SUFFICES ASSUME IInv, IInv', [Next]_vars
             PROVE  [Promise!Next]_(Promise!vars)
  OBVIOUS
<1>1. CASE \/ CreateGraph \/ CreateSource \/ CreateSourceFails \/ CreateSink
           \/ DefaultFormat
  <2>1. /\ step \notin {"ready", "gone"} /\ step' \notin {"ready", "gone"}
        /\ UNCHANGED <<sinkVars, enc>>
    BY <1>1 DEF CreateGraph, CreateSource, CreateSourceFails, CreateSink,
       DefaultFormat, InitFails
  <2> QED
    BY <2>1, ClosedStep DEF sinkVars, pinVars
<1>2. CASE Configure
  <2>1. step = "configure" /\ UNCHANGED <<enc, pinVars>>
    BY <1>2 DEF Configure
  <2>2. step' \in {"connect", "configure", "default"}
    BY <1>2, ConfigureAttempt DEF Attempt, NextAttempt
  <2> QED
    BY <2>1, <2>2, ClosedStep DEF pinVars
<1>3. CASE TryType
  <2>1. /\ step = "connect" /\ step' \in {"connect", "readback"}
        /\ UNCHANGED <<enc, cap>>
    BY <1>3 DEF TryType, ReceiveConnection
  <2> QED
    BY <2>1, ClosedStep
<1>4. CASE ConnectFails
  <2>1. /\ step = "connect" /\ step' \in {"failed", "default", "configure"}
        /\ UNCHANGED <<enc, pinVars>>
    BY <1>4 DEF ConnectFails, NextAttempt
  <2> QED
    BY <2>1, ClosedStep DEF pinVars
<1>5. CASE ReadBack
  <2>1. /\ step = "readback" /\ step' \in {"source", "control"}
        /\ UNCHANGED <<enc, pinVars>>
    BY <1>5 DEF ReadBack
  <2> QED
    BY <2>1, ClosedStep DEF pinVars
<1>6. CASE InitGraphControl
  <2>1. step = "control" /\ step' \in {"ready", "failed"}
        /\ UNCHANGED <<enc, sinkVars>>
    BY <1>6 DEF InitGraphControl, InitFails
  <2>2. CASE step' = "failed"
    BY <2>1, <2>2, ClosedStep DEF sinkVars, pinVars
  <2>3. CASE step' = "ready"
    <3>1. enc = "none" /\ enc' = "none"
      BY <2>1 DEF IInv, Threads
    <3>2. Phase = "closed" /\ Phase' = "ready"
      BY <2>1, <2>3, <3>1, PhaseNow, PhaseNext DEF PhaseIs
    <3>3. Calls' = Calls
      BY <2>1 DEF Calls, sinkVars, pinVars
    <3>4. Promise!Open
      BY <3>2, <3>3 DEF Promise!Open
    <3> QED
      BY <3>4 DEF Promise!Next
  <2> QED
    BY <2>1, <2>2, <2>3
<1>7. CASE Run
  <2>1. /\ step = "ready" /\ step' = "ready" /\ enc = "none"
        /\ enc' = "starting" /\ cap' = cap
    BY <1>7 DEF Run, initVars, sinkVars, pinVars
  <2>2. Phase = "ready" /\ Phase' = "running"
    BY <2>1, PhaseNow, PhaseNext DEF PhaseIs
  <2>3. Calls' = Calls
    BY <2>1 DEF Calls
  <2>4. Promise!Run
    BY <2>2, <2>3 DEF Promise!Run
  <2> QED
    BY <2>4 DEF Promise!Next
<1>8. CASE StartFilter
  <2>1. /\ enc \in {"starting", "waiting"} /\ enc' = enc /\ step' = step
        /\ cap' = cap
    BY <1>8 DEF StartFilter, FilterRun, initVars
  <2>2. step = "ready"
    BY <2>1, UsedWhenReady
  <2>3. Phase = "running" /\ Phase' = "running"
    BY <2>1, <2>2, PhaseNow, PhaseNext DEF PhaseIs
  <2>4. Calls' = Calls
    BY <2>1 DEF Calls
  <2> QED
    BY <2>3, <2>4 DEF Promise!vars
<1>9. CASE RunReturns
  <2>1. /\ enc = "starting" /\ enc' \in {"dead", "waiting"} /\ step' = step
        /\ cap' = cap
    BY <1>9 DEF RunReturns, initVars, sinkVars, pinVars
  <2>2. step = "ready"
    BY <2>1, UsedWhenReady
  <2>3. CASE enc' = "dead"
    <3>1. Phase' = "gone" /\ Calls' = {}
      BY <2>3, PhaseNext DEF PhaseIs, Calls
    <3>2. Promise!Close
      BY <3>1 DEF Promise!Close
    <3> QED
      BY <3>2 DEF Promise!Next
  <2>4. CASE enc' = "waiting"
    <3>1. Phase = "running" /\ Phase' = "running"
      BY <2>1, <2>2, <2>4, PhaseNow, PhaseNext DEF PhaseIs
    <3>2. Calls' = Calls
      BY <2>1, <2>4 DEF Calls
    <3> QED
      BY <3>1, <3>2 DEF Promise!vars
  <2> QED
    BY <2>1, <2>3, <2>4
<1>10. CASE SamplesArrive \/ CheckStatus \/ LeaveLoop
  <2>1. /\ enc \in {"waiting", "polling"}
        /\ enc' \in {"waiting", "polling", "stopping"}
        /\ UNCHANGED <<step, enabled, state, cap>>
    BY <1>10 DEF SamplesArrive, CheckStatus, LeaveLoop, HandleMediaEvent,
       initVars, sinkVars, pinVars
  <2>2. step = "ready"
    BY <2>1, UsedWhenReady
  <2>3. Phase = "running"
    BY <2>1, <2>2, PhaseNow DEF PhaseIs
  <2>4. Calls' = Calls
    BY <2>1 DEF Calls
  <2>5. CASE Phase' = "running"
    BY <2>3, <2>4, <2>5 DEF Promise!vars
  <2>6. CASE Phase' # "running"
    <3>1. /\ Phase' = "stopped"
          /\ \A s \in enabled : state[s] # "running"
      BY <2>1, <2>2, <2>6, PhaseNext DEF PhaseIs
    <3>2. Calls = {}
      BY <3>1 DEF IInv, Threads, Calls
    <3>3. Promise!Stop
      BY <2>3, <2>4, <3>1, <3>2 DEF Promise!Stop
    <3> QED
      BY <3>3 DEF Promise!Next
  <2> QED
    BY <2>5, <2>6
<1>11. CASE StopFilter
  BY <1>11, StopFilterSimulates
<1>12. CASE StopReturns
  <2>1. /\ enc = "stopping" /\ enc' = "left"
        /\ UNCHANGED <<step, enabled, state, cap>>
    BY <1>12 DEF StopReturns, initVars, sinkVars, pinVars
  <2>2. step = "ready"
    BY <2>1, UsedWhenReady
  <2>3. Phase' = Phase
    BY <2>1, <2>2, PhaseNow, PhaseNext DEF PhaseIs
  <2>4. Calls' = Calls
    BY <2>1 DEF Calls
  <2> QED
    BY <2>3, <2>4 DEF Promise!vars
<1>13. CASE Destroy
  <2>1. step' = "gone"
    BY <1>13 DEF Destroy
  <2>2. Phase' = "gone"
    BY <2>1, PhaseNext DEF PhaseIs
  <2>3. Calls' = {}
    BY <2>1 DEF IInv, Threads, Calls
  <2>4. Promise!Close
    BY <2>2, <2>3 DEF Promise!Close
  <2> QED
    BY <2>4 DEF Promise!Next
<1>14. CASE Capture
  BY <1>14, CaptureSimulates
<1>15. CASE Notify \/ UNCHANGED vars
  <2>1. UNCHANGED <<step, enabled, enc, state, cap>>
    BY <1>15 DEF Notify, vars, initVars, sinkVars, pinVars
  <2> QED
    BY <2>1, SameStep
<1> QED
  BY <1>1, <1>2, <1>3, <1>4, <1>5, <1>6, <1>7, <1>8, <1>9, <1>10, <1>11,
     <1>12, <1>13, <1>14, <1>15 DEF Next

(***************************************************************************)
(* The media source keeps the promise of CaptureSource, whatever the       *)
(* devices offer and whatever fails: the callbacks run between Run and     *)
(* Stop only, one at a time per stream, and none runs or follows once Stop *)
(* has stopped the last filter.                                            *)
(***************************************************************************)
THEOREM Refinement == Spec => CallbacksOnlyWhileRunning
<1>1. Init => Promise!Init
  <2> SUFFICES ASSUME Init PROVE Promise!Init
    OBVIOUS
  <2>1. step = "start" /\ enc = "none" /\ IInv
    BY InitOK DEF Init
  <2>2. Phase = "closed"
    BY <2>1, PhaseNow DEF PhaseIs
  <2>3. Calls = {}
    BY <2>1, NoCalls
  <2> QED
    BY <2>2, <2>3 DEF Promise!Init
<1>2. IInv /\ IInv' /\ [Next]_vars => [Promise!Next]_(Promise!vars)
  BY SimulationStep
<1> QED
  BY <1>1, <1>2, IInvHolds, PTL
     DEF Spec, CallbacksOnlyWhileRunning, Promise!Spec
==============================================================================
