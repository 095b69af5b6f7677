----------------------------- MODULE MediaType -----------------------------
(***************************************************************************)
(* The AM_MEDIA_TYPE classes of encoder/win/media_type_dshow.cc: who owns  *)
(* the format block of a media type and when it is freed.                  *)
(*                                                                         *)
(* A media type is a record                                                *)
(*   major   "video", "audio" or another major type                        *)
(*   sub     its subtype, the pixel or sample format                       *)
(*   fmt     the format type: "info" (VIDEOINFOHEADER or ...HEADER2),      *)
(*           "wave" (WAVEFORMATEX), "ks" (ksproxy video), "null", "other"  *)
(*   hdr     the format block is large enough and names a known format     *)
(*   config  the settings (sizes, rates) the format block holds            *)
(*   blob    the block pbFormat points to, NoBlob when cbFormat is 0       *)
(*                                                                         *)
(* A block is named after the object that allocated it, so the heap stays  *)
(* finite: allocating a name that is still live loses the older block.     *)
(* The heap is live (blocks allocated and not freed), twice (blocks freed  *)
(* when they were not live) and lost (blocks nothing can free any more).   *)
(***************************************************************************)
EXTENDS Integers, Sequences

NoBlob == "none"
NoMediaType == [major |-> "none"]

EmptyHeap == [live |-> {}, twice |-> {}, lost |-> {}]

CoTaskMemAlloc(heap, b) ==
  [heap EXCEPT !.live = @ \cup {b},
               !.lost = IF b \in heap.live THEN @ \cup {b} ELSE @]

CoTaskMemFree(heap, b) ==
  IF b \in heap.live THEN [heap EXCEPT !.live = @ \ {b}]
                     ELSE [heap EXCEPT !.twice = @ \cup {b}]

(***************************************************************************)
(* MediaType::FreeMediaTypeData, and FreeMediaType, which also frees the   *)
(* struct: the block of a ksproxy type is never freed.                     *)
(***************************************************************************)
FreeMediaType(heap, type) ==
  IF type = NoMediaType \/ type.blob = NoBlob \/ type.fmt = "ks"
    THEN heap
    ELSE CoTaskMemFree(heap, type.blob)

(***************************************************************************)
(* An Init method's result: its status, the heap and ptr_type_.            *)
(***************************************************************************)
Result(ok, heap, type) == [ok |-> ok, heap |-> heap, type |-> type]

Failure(heap) == Result(FALSE, heap, NoMediaType)

(***************************************************************************)
(* MediaType::AllocTypeStruct and AllocFormatBlob for a new object; mem    *)
(* says whether the allocations succeed. A failure leaves no block behind. *)
(***************************************************************************)
Allocate(heap, type, owner, mem) ==
  IF mem THEN Result(TRUE, CoTaskMemAlloc(heap, owner),
                     [type EXCEPT !.blob = owner])
         ELSE Failure(heap)

(***************************************************************************)
(* VideoMediaType::Init() and Init(GUID, GUID): a zeroed header.           *)
(***************************************************************************)
VideoInit(heap, owner, mem, blank) ==
  Allocate(heap, [major |-> "video", sub |-> "none", fmt |-> "info",
                  hdr |-> FALSE, config |-> blank, blob |-> NoBlob],
           owner, mem)

(***************************************************************************)
(* VideoMediaType::Init(const AM_MEDIA_TYPE&). The assignment to           *)
(* *ptr_type_ copies the caller's pbFormat over the block Init(GUID, GUID) *)
(* just allocated: the object ends up with the caller's block.             *)
(***************************************************************************)
VideoInitFrom(heap, owner, mem, type) ==
  IF type.major # "video" \/ type.fmt # "info" THEN Failure(heap)
  ELSE LET alloc == Allocate(heap, type, owner, mem)
       IN IF alloc.ok THEN Result(TRUE, alloc.heap, type) ELSE alloc

(***************************************************************************)
(* AudioMediaType::Init() and Init(GUID, GUID): a zeroed PCM WAVEFORMATEX. *)
(***************************************************************************)
AudioInit(heap, owner, mem, blank) ==
  Allocate(heap, [major |-> "audio", sub |-> "PCM", fmt |-> "wave",
                  hdr |-> TRUE, config |-> blank, blob |-> NoBlob],
           owner, mem)

(* Mutant: the block is allocated before the copy, as for video. *)
AudioInitFromShared(heap, owner, mem, type) ==
  LET alloc == Allocate(heap, type, owner, mem)
  IN IF type.major # "audio" \/ type.fmt # "wave" \/ ~mem THEN Failure(heap)
     ELSE Result(TRUE, alloc.heap, type)

(***************************************************************************)
(* AudioMediaType::Init(const AM_MEDIA_TYPE&): AllocFormatBlob runs after  *)
(* the copy, so the object owns its block; an empty format block is        *)
(* refused.                                                                *)
(***************************************************************************)
AudioInitFrom(heap, owner, mem, type) ==
  IF type.major # "audio" \/ type.fmt # "wave" \/ type.blob = NoBlob
    THEN Failure(heap)
    ELSE Allocate(heap, type, owner, mem)

(***************************************************************************)
(* VideoFormatToSubTypeGuid and VideoMediaType::ConfigurePartialType: the  *)
(* block is freed and only the subtype remains.                            *)
(***************************************************************************)
KnownSubTypes == {"I420", "VP8", "YV12", "YUY2", "YUYV", "UYVY", "RGB",
                  "RGBA"}

ConfigurePartialType(heap, type, sub) ==
  LET bare == [type EXCEPT !.blob = NoBlob, !.fmt = "null"]
  IN Result(sub \in KnownSubTypes, FreeMediaType(heap, type),
            IF sub \in KnownSubTypes THEN [bare EXCEPT !.sub = sub]
                                     ELSE bare)

(***************************************************************************)
(* VideoMediaType::ConfigureSubType with ConfigureVideoInfoHeader and      *)
(* ConfigureFormatInfo: the requested sizes and rate, all positive, and a  *)
(* subtype of the switch go into the block.                                *)
(***************************************************************************)
ConfigureSubType(heap, type, sub, config, complete) ==
  IF complete /\ sub \in KnownSubTypes \ {"YUYV"}
    THEN Result(TRUE, heap, [type EXCEPT !.sub = sub, !.hdr = TRUE,
                                         !.config = config])
    ELSE Result(FALSE, heap, type)

(***************************************************************************)
(* AudioMediaType::Configure: the tag AudioInit wrote is PCM, so every     *)
(* requested setting is taken.                                             *)
(***************************************************************************)
AudioConfigure(heap, type, config) ==
  Result(TRUE, heap, [type EXCEPT !.config = config])

(***************************************************************************)
(* The accessors of VideoMediaType (width, height, stride, frame_rate) and *)
(* of AudioMediaType: the settings in the block, zeros when there is none  *)
(* or, for audio, when it is too small for a WAVEFORMATEX.                 *)
(***************************************************************************)
VideoSettings(type, zeros) ==
  IF type.blob # NoBlob /\ type.fmt = "info" THEN type.config ELSE zeros

AudioSettings(type, zeros) ==
  IF type.blob # NoBlob /\ type.hdr THEN type.config ELSE zeros

(***************************************************************************)
(* MediaTypePtr::Attach: frees the type it holds and owns the new one.     *)
(***************************************************************************)
Attach(heap, held, type) ==
  IF type = NoMediaType THEN Result(FALSE, heap, held)
                        ELSE Result(TRUE, FreeMediaType(heap, held), type)

(***************************************************************************)
(* MediaTypePtr::Copy: a block of its own for the copy, then Attach.       *)
(***************************************************************************)
Copy(heap, held, type, owner, mem) ==
  IF ~mem THEN Result(FALSE, heap, held)
  ELSE IF type.blob = NoBlob THEN Attach(heap, held, type)
  ELSE Attach(CoTaskMemAlloc(heap, owner), held,
              [type EXCEPT !.blob = owner])

(***************************************************************************)
(* PinFormat::FindMatchingFormat for audio: the pin's types in order, each *)
(* handed to a MediaTypePtr that GetPtr frees before the next, and copied  *)
(* by an AudioMediaType that compares it with the requested settings. The  *)
(* match, if any, is detached and becomes the caller's.                    *)
(***************************************************************************)
Compare(last, type, config, mem) ==
  LET freed == FreeMediaType(last.heap, last.type)
      next  == IF type.blob = NoBlob THEN freed
               ELSE CoTaskMemAlloc(freed, "enumerated")
      own   == IF type.blob = NoBlob THEN type
               ELSE [type EXCEPT !.blob = "enumerated"]
      copy  == AudioInitFrom(next, "candidate", mem, own)
  IN Result(copy.ok /\ copy.type.config = config,
            FreeMediaType(copy.heap, copy.type), own)

FindMatchingFormat(heap, types, config, mem) ==
  LET after[n \in 0..Len(types)] ==
        IF n = 0 THEN Failure(heap)
        ELSE IF after[n - 1].ok THEN after[n - 1]
        ELSE Compare(after[n - 1], types[n], config, mem)
      last == after[Len(types)]
  IN IF last.ok THEN last
     ELSE Failure(FreeMediaType(last.heap, last.type))

=============================================================================
