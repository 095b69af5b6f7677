------------------------- MODULE WebmEncoderProofs -------------------------
(***************************************************************************)
(* Proofs about WebmEncoder, for every number of samples, packets and      *)
(* polls and every size of the chunk buffer: the thread ends with the      *)
(* capture devices stopped, what the data sink gets of a muxer's stream is *)
(* a prefix of it, cut where clusters begin and named without a gap, and   *)
(* it is all of it when the thread ends on a stop and nothing failed.      *)
(***************************************************************************)
EXTENDS WebmEncoder, SequenceLemmas

(* A muxer's buffer b, chunk end e, number n of chunks read and stream w:  *)
(* the buffer holds the last elements of the stream, it begins where a     *)
(* chunk may begin, and so does what lies behind the chunk end.            *)
Aligned(b, e, n, w) ==
  /\ b \in Seq(Nat) /\ w \in Seq(Kinds) /\ n \in Nat
  /\ e \in Nat /\ e <= Len(b) /\ Len(b) <= Len(w)
  /\ \A i \in 1..Len(b) : b[i] = Len(w) - Len(b) + i
  /\ w = <<>> => n = 0
  /\ b # <<>> => w[Len(w) - Len(b) + 1]
                   = IF n = 0 THEN "header" ELSE "cluster"
  /\ e # 0 /\ e < Len(b) => w[Len(w) - Len(b) + e + 1] = "cluster"

Muxing ==
  /\ buffer_ \in [Streams -> Seq(Nat)] /\ written \in [Streams -> Seq(Kinds)]
  /\ chunk_end_ \in [Streams -> Nat] /\ chunks_read_ \in [Streams -> Nat]
  /\ \A m \in Streams :
       Aligned(buffer_[m], chunk_end_[m], chunks_read_[m], written[m])

(* The chunks c that the sink got of a stream w: they join to its first    *)
(* elements, begin where they should and are named in order.               *)
Named(m, c) == \A i \in 1..Len(c) : c[i].id = IdForChunk(m, i - 1)

Cut(c, w) ==
  \A i \in 1..Len(c) :
    /\ c[i].chunk \in Seq(Nat) /\ c[i].chunk # <<>>
    /\ c[i].chunk[1] \in 1..Len(w)
    /\ w[c[i].chunk[1]] = IF i = 1 THEN "header" ELSE "cluster"

Prefix(f, w) ==
  f \in Seq(Nat) /\ Len(f) <= Len(w) /\ \A i \in 1..Len(f) : f[i] = i

Sent ==
  /\ sink \in Seq(Range(sink))
  /\ \A m \in Streams :
       /\ ChunksOf(m) \in Seq(Range(sink))
       /\ Named(m, ChunksOf(m)) /\ Cut(ChunksOf(m), written[m])
       /\ Prefix(Sunk(m), written[m])

(* Nothing of a stream is lost between the muxer and the sink. *)
Whole(m) ==
  /\ Len(ChunksOf(m)) = chunks_read_[m]
  /\ Len(Sunk(m)) + Len(buffer_[m]) = Len(written[m])

Ended == thread \in {"stop_source", "done"}
Ending == thread \in {"finalize", "last_chunk"}

(* Something can only be lost of a stream that no chunk follows of. *)
WholeUntilOver ==
  \A m \in Streams :
    \/ broken /\ Ended
    \/ broken /\ Ending /\ m = FirstStream /\ m # stream
    \/ Whole(m)

(* Before the streams end no chunk reaches the end of the buffer, so only  *)
(* a stream that has not begun has nothing buffered.                       *)
CutInside ==
  ~Ended /\ ~Ending =>
    \A m \in Streams :
      /\ buffer_[m] = <<>> => written[m] = <<>>
      /\ chunk_end_[m] # 0 => chunk_end_[m] < Len(buffer_[m])

(* How far the end of the streams has come. *)
EndReached ==
  /\ thread = "last_chunk" => chunk_end_[stream] = Len(buffer_[stream])
  /\ Ending /\ ~broken /\ stream # FirstStream => buffer_[FirstStream] = <<>>
  /\ Ended /\ ~broken => \A m \in Streams : buffer_[m] = <<>>

(* The manifest, before every chunk; chunks have longer names. *)
NotReady == [initialized |-> FALSE, sets |-> <<>>]
Ready == [initialized |-> TRUE, sets |-> [m \in enabled |-> AdaptationSet(m)]]
ManifestId == <<dash_name, "mpd">>

ManifestFirst ==
  /\ dash_writer \in {NotReady, Ready}
  /\ thread \in {"run", "manifest"} => sink = <<>> /\ dash_writer = NotReady
  /\ \A i \in 1..Len(sink) :
       \/ /\ i = 1 /\ sink[1].id = ManifestId
          /\ sink[1].chunk = WriteManifest(dash_writer)
       \/ Len(sink[i].id) > 2 /\ dash_writer = Ready

(* A disabled stream has nothing. *)
DisabledEmpty ==
  /\ \A s \in Streams \ enabled :
       /\ delivered[s] = 0 /\ pool[s] = 0
       /\ buffer_[s] = <<>> /\ written[s] = <<>>
  /\ Audio \notin enabled => packets = 0

Waiting == thread \in {"run", "manifest", "wait"}
SeenStays ==
  Waiting => \A s \in Streams : got[s] => s \notin enabled \/ pool[s] > 0

Control ==
  /\ stop_ \in BOOLEAN /\ mutex_ \in {"free", "main"}
  /\ main \in {"polling", "reading", "flag", "join", "stopped"}
  /\ polls \in 0..MaxPolls
  /\ thread \in {"run", "manifest", "wait", "top", "status",
                 "encode_audio", "read_audio", "encode_video", "chunk",
                 "finalize", "last_chunk", "stop_source", "done"}
  /\ enabled \in (SUBSET Streams) \ {{}}
  /\ stream \in enabled /\ user_initiated_stop \in BOOLEAN
  /\ source \in {"idle", "running", "stopped"}
  /\ delivered \in [Streams -> 0..MaxSamples]
  /\ pool \in [Streams -> Nat] /\ \A s \in Streams : pool[s] <= delivered[s]
  /\ got \in [Streams -> BOOLEAN]
  /\ packets \in 0..MaxPackets
  /\ chunk_buffer \in BOOLEAN /\ chunk_buffer_size \in Nat
  /\ broken \in BOOLEAN /\ crashed \in BOOLEAN
  /\ SourceStopped

IInv ==
  /\ Control /\ Muxing /\ Sent /\ WholeUntilOver /\ CutInside /\ EndReached
  /\ ManifestFirst /\ DisabledEmpty /\ SeenStays

-----------------------------------------------------------------------------
(* What the muxer's operations do to its buffer. *)

(* The positions at which new elements follow those of a stream. *)
Following(w, new) == [i \in 1..Len(new) |-> Len(w) + i]

(* A part of a sequence. *)
LEMMA PartAt ==
  ASSUME NEW T, NEW p \in Seq(T), NEW k \in Nat, NEW l \in Nat,
         k + l <= Len(p)
  PROVE  /\ SubSeq(p, k + 1, k + l) \in Seq(T)
         /\ Len(SubSeq(p, k + 1, k + l)) = l
         /\ \A i \in 1..l : SubSeq(p, k + 1, k + l)[i] = p[k + i]
<1> DEFINE c == SubSeq(p, k + 1, k + l)
<1>1. Len(p) \in Nat
  BY LenProperties
<1>2. \A i \in (k + 1)..(k + l) : i \in 1..Len(p)
  BY <1>1
<1>3. c = [i \in 1..l |-> p[i + k]]
  <2>1. (k + l) - (k + 1) + 1 = l
    OBVIOUS
  <2>2. \A i \in 1..l : i + (k + 1) - 1 = k + i
    OBVIOUS
  <2> QED
    BY <2>1, <2>2
<1>4. \A i \in 1..l : p[i + k] \in T
  <2>1. \A i \in 1..l : i + k \in 1..Len(p)
    BY <1>1
  <2> QED
    BY <2>1, LenProperties
<1> HIDE DEF c
<1>5. c \in [1..l -> T]
  BY <1>3, <1>4
<1>6. c \in Seq(T) /\ Len(c) = l
  BY <1>5
<1>7. \A i \in 1..l : c[i] = p[k + i]
  BY <1>3
<1> QED
  BY <1>6, <1>7 DEF c

(* Nothing buffered is ahead of a cut at the end of the buffer. *)
Inside(b, e, w) == (b = <<>> => w = <<>>) /\ (e # 0 => e < Len(b))

(* What libwebm may add, and where the chunk ends then. *)
Added(b, e, w, new, x) ==
  /\ new \in Seq(Kinds) /\ Len(new) \in Nat \ {0} /\ x \in Nat
  /\ \/ /\ w = <<>> /\ Len(new) = 3 /\ x = 1
        /\ new[1] = "header" /\ new[2] = "cluster"
     \/ w # <<>> /\ Len(new) = 2 /\ new[1] = "cluster" /\ x = Len(b)
     \/ w # <<>> /\ x = e

(* A stream that has grown. *)
Longer(w, ww) ==
  /\ ww \in Seq(Kinds) /\ Len(w) <= Len(ww)
  /\ \A i \in 1..Len(w) : ww[i] = w[i]

(* A frame is added ... *)
LEMMA FrameAligned ==
  ASSUME NEW b, NEW e, NEW n, NEW w, Aligned(b, e, n, w),
         Inside(b, e, w), NEW new, NEW x, Added(b, e, w, new, x)
  PROVE  /\ Aligned(b \o Following(w, new), x, n, w \o new)
         /\ b \o Following(w, new) # <<>>
         /\ Len(b \o Following(w, new)) = Len(b) + Len(new)
         /\ Len(w \o new) = Len(w) + Len(new)
         /\ x # 0 => x < Len(b \o Following(w, new))
         /\ Longer(w, w \o new)
<1> DEFINE f == Following(w, new)
           bb == b \o f
           ww == w \o new
           k == Len(b)
           h == Len(w)
           l == Len(new)
<1>0. /\ l \in Nat \ {0} /\ new \in Seq(Kinds) /\ Len(new) = l
      /\ b = <<>> => w = <<>>
      /\ e # 0 => e < k
      /\ x \in Nat
      /\ \/ w = <<>> /\ l = 3 /\ new[1] = "header"
              /\ new[2] = "cluster" /\ x = 1
         \/ w # <<>> /\ l = 2 /\ new[1] = "cluster" /\ x = k
         \/ w # <<>> /\ x = e
  BY DEF Inside, Added
<1>1. /\ b \in Seq(Nat) /\ w \in Seq(Kinds) /\ n \in Nat
      /\ e \in Nat /\ e <= k /\ k <= h /\ k \in Nat /\ h \in Nat
      /\ \A i \in 1..k : b[i] = h - k + i
      /\ w = <<>> => n = 0
      /\ b # <<>> => w[h - k + 1] = IF n = 0 THEN "header" ELSE "cluster"
      /\ e # 0 /\ e < k => w[h - k + e + 1] = "cluster"
      /\ b = <<>> <=> k = 0
      /\ w = <<>> <=> h = 0
      /\ Len(b) = k /\ Len(w) = h
  BY LenProperties, EmptySeq DEF Aligned
<1>2. f \in Seq(Nat) /\ Len(f) = l /\ \A i \in 1..l : f[i] = h + i
  <2>1. f = [i \in 1..l |-> h + i]
    BY DEF Following
  <2>2. \A i \in 1..l : h + i \in Nat
    BY <1>0, <1>1
  <2> HIDE DEF h, f
  <2> QED
    BY <2>1, <2>2, <1>0
<1> HIDE DEF f, bb, ww, k, h, l
<1>3. /\ bb \in Seq(Nat) /\ Len(bb) = k + l
      /\ \A i \in 1..k : bb[i] = b[i]
      /\ \A i \in 1..l : bb[k + i] = f[i]
  <2>1. b \in Seq(Nat) /\ f \in Seq(Nat)
    BY <1>0, <1>1, <1>2
  <2>2. b \o f \in Seq(Nat) /\ Len(b \o f) = Len(b) + Len(f)
    BY <2>1
  <2>3. \A i \in 1..Len(b) : (b \o f)[i] = b[i]
    BY <2>1
  <2>4. \A i \in 1..Len(f) : (b \o f)[Len(b) + i] = f[i]
    BY <2>1
  <2>5. Len(b) = k /\ Len(f) = l
    BY <1>0, <1>1, <1>2
  <2> QED
    BY <2>2, <2>3, <2>4, <2>5 DEF bb
<1>4. /\ ww \in Seq(Kinds) /\ Len(ww) = h + l
      /\ \A i \in 1..h : ww[i] = w[i]
      /\ \A i \in 1..l : ww[h + i] = new[i]
  <2>1. w \in Seq(Kinds) /\ new \in Seq(Kinds)
    BY <1>0, <1>1
  <2>2. w \o new \in Seq(Kinds) /\ Len(w \o new) = Len(w) + Len(new)
    BY <2>1
  <2>3. \A i \in 1..Len(w) : (w \o new)[i] = w[i]
    BY <2>1
  <2>4. \A i \in 1..Len(new) : (w \o new)[Len(w) + i] = new[i]
    BY <2>1
  <2>5. Len(w) = h /\ Len(new) = l
    BY <1>0, <1>1
  <2> QED
    BY <2>2, <2>3, <2>4, <2>5 DEF ww
<1>5. bb # <<>> /\ ww # <<>>
  BY <1>0, <1>1, <1>3, <1>4, EmptySeq
<1>6. \A i \in 1..Len(bb) : bb[i] = Len(ww) - Len(bb) + i
  <2> SUFFICES ASSUME NEW i \in 1..(k + l) PROVE bb[i] = h - k + i
    BY <1>0, <1>1, <1>3, <1>4
  <2>1. CASE i \in 1..k
    BY <2>1, <1>0, <1>1, <1>3
  <2>2. CASE i \notin 1..k
    <3>1. i - k \in 1..l /\ k + (i - k) = i
      BY <2>2, <1>0, <1>1
    <3>2. bb[i] = h + (i - k)
      BY <3>1, <1>2, <1>3
    <3> QED
      BY <3>2, <1>1
  <2> QED
    BY <2>1, <2>2
<1>7. ww[Len(ww) - Len(bb) + 1] = IF n = 0 THEN "header" ELSE "cluster"
  <2>1. Len(ww) - Len(bb) = h - k
    BY <1>0, <1>1, <1>3, <1>4
  <2>2. CASE w = <<>>
    <3>1. h = 0 /\ k = 0 /\ n = 0 /\ h - k + 1 = h + 1 /\ 1 \in 1..l
      BY <2>2, <1>0, <1>1
    <3>2. new[1] = "header"
      BY <2>2, <1>0
    <3> QED
      BY <2>1, <3>1, <3>2, <1>4
  <2>3. CASE w # <<>>
    <3>1. b # <<>> /\ h - k + 1 \in 1..h
      BY <2>3, <1>0, <1>1
    <3> QED
      BY <2>1, <3>1, <1>1, <1>4
  <2> QED
    BY <2>2, <2>3
<1>8. /\ x <= k + l /\ (x # 0 => x < k + l)
      /\ x # 0 => ww[h - k + x + 1] = "cluster"
  <2>2. CASE w = <<>> /\ l = 3 /\ new[2] = "cluster" /\ x = 1
    <3>1. h = 0 /\ k = 0 /\ h - k + x + 1 = h + 2 /\ 2 \in 1..l
      BY <2>2, <1>0, <1>1
    <3>2. ww[h + 2] = "cluster"
      BY <2>2, <3>1, <1>4
    <3> QED
      BY <2>2, <3>1, <3>2
  <2>3. CASE w # <<>> /\ l = 2 /\ new[1] = "cluster" /\ x = k
    <3>1. h - k + x + 1 = h + 1 /\ 1 \in 1..l
      BY <2>3, <1>0, <1>1
    <3>2. ww[h + 1] = "cluster"
      BY <2>3, <3>1, <1>4
    <3> QED
      BY <2>3, <3>1, <3>2, <1>1
  <2>4. CASE w # <<>> /\ x = e
    <3>1. CASE e = 0
      BY <2>4, <3>1, <1>0, <1>1
    <3>2. CASE e # 0
      <4>1. e < k
        BY <3>2, <1>0
      <4>2. h - k + x + 1 \in 1..h
        BY <2>4, <3>2, <4>1, <1>0, <1>1
      <4>3. ww[h - k + x + 1] = "cluster"
        BY <2>4, <3>2, <4>1, <4>2, <1>1, <1>4
      <4> QED
        BY <2>4, <4>1, <4>3, <1>0, <1>1
    <3> QED
      BY <3>1, <3>2
  <2> QED
    BY <1>0, <2>2, <2>3, <2>4
<1>9. Len(bb) <= Len(ww) /\ n \in Nat
  BY <1>0, <1>1, <1>3, <1>4
<1>10. /\ x <= Len(bb) /\ (x # 0 => x < Len(bb))
       /\ x # 0 /\ x < Len(bb) => ww[Len(ww) - Len(bb) + x + 1] = "cluster"
  <2>1. Len(ww) - Len(bb) = h - k
    BY <1>0, <1>1, <1>3, <1>4
  <2> QED
    BY <1>0, <1>1, <1>3, <1>8, <2>1
<1>11. Aligned(bb, x, n, ww)
  BY <1>0, <1>3, <1>4, <1>5, <1>6, <1>7, <1>9, <1>10 DEF Aligned
<1> QED
  <2>1. h <= h + l
    BY <1>0, <1>1
  <2>2. Longer(w, ww)
    BY <1>4, <2>1 DEF Longer, h
  <2> QED
    BY <1>3, <1>4, <1>5, <1>10, <1>11, <2>2 DEF bb, ww, f, k, h, l

(* What a chunk holds when it is taken out, and what it leaves. *)
Taken(b, e, n, w, c, r) ==
  /\ Aligned(r, 0, n + 1, w) /\ Len(r) = Len(b) - e
  /\ c \in Seq(Nat) /\ Len(c) = e /\ e \in Nat \ {0} /\ e <= Len(b)
  /\ \A i \in 1..e : c[i] = Len(w) - Len(b) + i
  /\ c[1] \in 1..Len(w)
  /\ w[c[1]] = IF n = 0 THEN "header" ELSE "cluster"
  /\ e = Len(b) => r = <<>>
  /\ e < Len(b) => r # <<>>

(* ... and a chunk is taken out. *)
LEMMA EraseAligned ==
  ASSUME NEW b, NEW e, NEW n, NEW w, Aligned(b, e, n, w), e > 0
  PROVE  Taken(b, e, n, w, SubSeq(b, 1, e), SubSeq(b, e + 1, Len(b)))
<1> DEFINE k == Len(b)
           h == Len(w)
           c == SubSeq(b, 1, e)
           r == SubSeq(b, e + 1, k)
<1>1. /\ b \in Seq(Nat) /\ w \in Seq(Kinds) /\ n \in Nat
      /\ e \in Nat /\ e <= k /\ k <= h /\ k \in Nat /\ h \in Nat
      /\ \A i \in 1..k : b[i] = h - k + i
      /\ b # <<>> => w[h - k + 1] = IF n = 0 THEN "header" ELSE "cluster"
      /\ e # 0 /\ e < k => w[h - k + e + 1] = "cluster"
      /\ b = <<>> <=> k = 0
      /\ w = <<>> <=> h = 0
  BY LenProperties, EmptySeq DEF Aligned
<1>2. /\ c \in Seq(Nat) /\ Len(c) = e /\ \A i \in 1..e : c[i] = b[i]
  <2>1. 0 + e <= Len(b) /\ 0 + 1 = 1 /\ 0 + e = e /\ \A i \in 1..e : 0 + i = i
    BY <1>1
  <2>2. /\ SubSeq(b, 0 + 1, 0 + e) \in Seq(Nat)
        /\ Len(SubSeq(b, 0 + 1, 0 + e)) = e
        /\ \A i \in 1..e : SubSeq(b, 0 + 1, 0 + e)[i] = b[0 + i]
    BY <1>1, <2>1, PartAt
  <2> QED
    BY <2>1, <2>2
<1>3. /\ r \in Seq(Nat) /\ Len(r) = k - e
      /\ \A i \in 1..(k - e) : r[i] = b[e + i]
  <2>1. e + (k - e) <= Len(b) /\ e + (k - e) = k /\ k - e \in Nat
    BY <1>1
  <2>2. /\ SubSeq(b, e + 1, e + (k - e)) \in Seq(Nat)
        /\ Len(SubSeq(b, e + 1, e + (k - e))) = k - e
        /\ \A i \in 1..(k - e) : SubSeq(b, e + 1, e + (k - e))[i] = b[e + i]
    <3> DEFINE l == k - e
    <3>1. b \in Seq(Nat) /\ e \in Nat /\ l \in Nat /\ e + l <= Len(b)
      BY <1>1, <2>1
    <3> HIDE DEF l
    <3>2. /\ SubSeq(b, e + 1, e + l) \in Seq(Nat)
          /\ Len(SubSeq(b, e + 1, e + l)) = l
          /\ \A i \in 1..l : SubSeq(b, e + 1, e + l)[i] = b[e + i]
      BY <3>1, PartAt
    <3> QED
      BY <3>2 DEF l
  <2> QED
    BY <2>1, <2>2
<1> HIDE DEF k, h, c, r
<1>4. ASSUME NEW i \in 1..e PROVE i \in 1..k /\ c[i] = h - k + i
  <2>1. i \in 1..k
    BY <1>1
  <2>2. c[i] = b[i] /\ b[i] = h - k + i
    BY <1>1, <1>2, <2>1
  <2> QED
    BY <2>1, <2>2
<1>5. c[1] \in 1..h /\ w[c[1]] = IF n = 0 THEN "header" ELSE "cluster"
  <2>1. 1 \in 1..e /\ b # <<>> /\ h - k + 1 \in 1..h
    BY <1>1
  <2> QED
    BY <2>1, <1>1, <1>4
<1>6. (e = k => r = <<>>) /\ (e < k => r # <<>>) /\ (r # <<>> => e < k)
  BY <1>1, <1>3, EmptySeq
<1>7. \A i \in 1..Len(r) : r[i] = h - Len(r) + i
  <2> SUFFICES ASSUME NEW i \in 1..(k - e) PROVE r[i] = h - (k - e) + i
    BY <1>3
  <2>1. e + i \in 1..k /\ h - k + (e + i) = h - (k - e) + i
    BY <1>1
  <2> QED
    BY <2>1, <1>1, <1>3
<1>8. r # <<>> => w[h - Len(r) + 1] = "cluster"
  <2> SUFFICES ASSUME r # <<>> PROVE w[h - (k - e) + 1] = "cluster"
    BY <1>3
  <2>1. h - (k - e) + 1 = h - k + e + 1 /\ e # 0
    BY <1>1
  <2> QED
    BY <2>1, <1>1, <1>6
<1>9. n + 1 \in Nat /\ n + 1 # 0 /\ w # <<>> /\ Len(r) <= h /\ 0 <= Len(r)
  BY <1>1, <1>3
<1>10. Aligned(r, 0, n + 1, w)
  BY <1>1, <1>3, <1>7, <1>8, <1>9 DEF Aligned, h
<1> QED
  <2>1. Taken(b, e, n, w, c, r)
    BY <1>1, <1>2, <1>3, <1>4, <1>5, <1>6, <1>10 DEF Taken, k, h
  <2> QED
    BY <2>1 DEF c, r, k

(* The muxer is finalized. *)
LEMMA FinalAligned ==
  ASSUME NEW b, NEW e, NEW n, NEW w, Aligned(b, e, n, w), NEW x,
         x = IF b = <<>> THEN e ELSE Len(b)
  PROVE  Aligned(b, x, n, w) /\ x = Len(b)
<1>1. b \in Seq(Nat) /\ Len(b) \in Nat /\ (b = <<>> <=> Len(b) = 0)
  BY LenProperties, EmptySeq DEF Aligned
<1>2. e \in Nat /\ e <= Len(b)
  BY DEF Aligned
<1>3. x = Len(b)
  BY <1>1, <1>2
<1> DEFINE k == Len(b)
<1>4. x \in Nat /\ x <= k /\ ~(x < k)
  BY <1>1, <1>3
<1> QED
  BY <1>3, <1>4 DEF Aligned

-----------------------------------------------------------------------------
(* What the sink has of a stream when one entry more reaches it. *)

(* One chunk more. *)
LEMMA ChunksInAppend ==
  ASSUME NEW T, NEW s \in Seq(T), NEW e \in T, NEW m
  PROVE  /\ ChunksIn(m, s) \in Seq(T)
         /\ ChunksIn(m, Append(s, e)) = IF IsChunkOf(m, e)
                                        THEN Append(ChunksIn(m, s), e)
                                        ELSE ChunksIn(m, s)
<1> DEFINE n == Len(s)
           a == Append(s, e)
           f == [i \in DOMAIN s |-> IF IsChunkOf(m, s[i]) THEN <<s[i]>>
                                                          ELSE <<>>]
           g == [i \in DOMAIN a |-> IF IsChunkOf(m, a[i]) THEN <<a[i]>>
                                                          ELSE <<>>]
           x == IF IsChunkOf(m, e) THEN <<e>> ELSE <<>>
<1>1. /\ n \in Nat /\ DOMAIN s = 1..n /\ DOMAIN a = 1..(n + 1)
      /\ \A i \in 1..n : s[i] \in T /\ a[i] = s[i]
      /\ a[n + 1] = e
  BY AppendProperties, LenProperties
<1> HIDE DEF a
<1>2. x \in Seq(T)
  OBVIOUS
<1>3. f \in Seq(Seq(T)) /\ Len(f) = n
  <2>1. \A i \in 1..n : f[i] \in Seq(T)
    BY <1>1
  <2>2. f = [i \in 1..n |-> f[i]]
    BY <1>1
  <2> HIDE DEF f, n
  <2>3. f \in [1..n -> Seq(T)]
    BY <2>1, <2>2
  <2> QED
    BY <1>1, <2>3
<1>4. g = Append(f, x)
  <2>1. DOMAIN g = 1..(n + 1) /\ g = [i \in 1..(n + 1) |-> g[i]]
    BY <1>1
  <2>2. \A i \in 1..n : g[i] = f[i]
    BY <1>1
  <2>3. g[n + 1] = x
    BY <1>1
  <2>4. n = Len(f)
    BY <1>3
  <2> HIDE DEF f, g, x, n
  <2>5. Appends(g, f, x, Len(f))
    BY <2>1, <2>2, <2>3, <2>4 DEF Appends
  <2> QED
    BY <1>2, <1>3, <2>5, AppendIs
<1>5. ChunksIn(m, s) = FlattenSeq(f) /\ ChunksIn(m, a) = FlattenSeq(g)
  <2>1. ChunksIn(m, s) = FlattenSeq(f)
    BY DEF ChunksIn
  <2>2. ChunksIn(m, a) = FlattenSeq(g)
    BY DEF ChunksIn
  <2> QED
    BY <2>1, <2>2
<1> HIDE DEF f, g
<1>6. FlattenSeq(f) \in Seq(T)
  BY <1>3, FlattenSeqType
<1>7. FlattenSeq(g) = FlattenSeq(f) \o x
  <2> HIDE DEF x
  <2> QED
    BY <1>2, <1>3, <1>4, FlattenAppend
<1> DEFINE c == FlattenSeq(f)
<1> HIDE DEF c
<1>8. c \in Seq(T)
  BY <1>6 DEF c
<1>9. CASE IsChunkOf(m, e)
  <2>1. x = <<e>>
    BY <1>9
  <2>2. c \o <<e>> = Append(c, e)
    BY <1>8, AppendIsConcat
  <2> QED
    BY <1>5, <1>6, <1>7, <1>9, <2>1, <2>2 DEF a, c
<1>10. CASE ~IsChunkOf(m, e)
  <2>1. x = <<>>
    BY <1>10
  <2>2. c \o <<>> = c
    BY <1>8, ConcatEmptySeq
  <2> QED
    BY <1>5, <1>6, <1>7, <1>10, <2>1, <2>2 DEF a, c
<1> QED
  BY <1>9, <1>10

(* The elements of one chunk more come behind the others. *)
LEMMA JoinedAppend ==
  ASSUME NEW T, NEW s \in Seq(T), NEW e \in T,
         \A i \in 1..Len(s) : s[i].chunk \in Seq(Nat), e.chunk \in Seq(Nat)
  PROVE  Joined(Append(s, e)) = Joined(s) \o e.chunk
<1> DEFINE n == Len(s)
           a == Append(s, e)
           f == [i \in DOMAIN s |-> s[i].chunk]
           g == [i \in DOMAIN a |-> a[i].chunk]
           x == e.chunk
<1>1. /\ n \in Nat /\ DOMAIN s = 1..n /\ DOMAIN a = 1..(n + 1)
      /\ \A i \in 1..n : s[i].chunk \in Seq(Nat) /\ a[i] = s[i]
      /\ a[n + 1] = e
  BY AppendProperties, LenProperties
<1> HIDE DEF a
<1>2. x \in Seq(Nat)
  OBVIOUS
<1>3. f \in Seq(Seq(Nat)) /\ Len(f) = n
  <2>1. \A i \in 1..n : f[i] \in Seq(Nat)
    BY <1>1
  <2>2. f = [i \in 1..n |-> f[i]]
    BY <1>1
  <2> HIDE DEF f, n
  <2>3. f \in [1..n -> Seq(Nat)]
    BY <2>1, <2>2
  <2> QED
    BY <1>1, <2>3
<1>4. g = Append(f, x)
  <2>1. DOMAIN g = 1..(n + 1) /\ g = [i \in 1..(n + 1) |-> g[i]]
    BY <1>1
  <2>2. \A i \in 1..n : g[i] = f[i]
    BY <1>1
  <2>3. g[n + 1] = x
    BY <1>1
  <2>4. n = Len(f)
    BY <1>3
  <2> HIDE DEF f, g, x, n
  <2>5. Appends(g, f, x, Len(f))
    BY <2>1, <2>2, <2>3, <2>4 DEF Appends
  <2> QED
    BY <1>2, <1>3, <2>5, AppendIs
<1>5. Joined(s) = FlattenSeq(f) /\ Joined(a) = FlattenSeq(g)
  BY DEF Joined
<1> HIDE DEF f, g, x
<1>6. FlattenSeq(g) = FlattenSeq(f) \o x
  BY <1>2, <1>3, <1>4, FlattenAppend
<1> QED
  BY <1>5, <1>6 DEF a, x

(* What is true of the chunks and of their elements stays true of a longer *)
(* stream, ... *)
LEMMA LongerStream ==
  ASSUME NEW c, NEW f, NEW w \in Seq(Kinds), NEW ww,
         Cut(c, w), Prefix(f, w), Longer(w, ww)
  PROVE  Cut(c, ww) /\ Prefix(f, ww)
<1> DEFINE k == Len(w)
           kk == Len(ww)
<1>1. /\ k \in Nat /\ kk \in Nat /\ k <= kk
      /\ \A i \in 1..k : ww[i] = w[i]
  BY LenProperties DEF Longer
<1>2. Cut(c, ww)
  <2> SUFFICES ASSUME NEW i \in 1..Len(c)
               PROVE  /\ c[i].chunk \in Seq(Nat) /\ c[i].chunk # <<>>
                      /\ c[i].chunk[1] \in 1..kk
                      /\ ww[c[i].chunk[1]] = IF i = 1 THEN "header"
                                             ELSE "cluster"
    BY DEF Cut
  <2>1. /\ c[i].chunk \in Seq(Nat) /\ c[i].chunk # <<>>
        /\ c[i].chunk[1] \in 1..k
        /\ w[c[i].chunk[1]] = IF i = 1 THEN "header" ELSE "cluster"
    BY DEF Cut
  <2> DEFINE h == c[i].chunk[1]
  <2> HIDE DEF h, k, kk
  <2>2. h \in 1..k
    BY <2>1 DEF h
  <2>3. h \in 1..kk
    BY <2>2, <1>1
  <2>4. ww[h] = w[h]
    BY <1>1, <2>2
  <2> QED
    BY <2>1, <2>3, <2>4 DEF h
<1>3. Prefix(f, ww)
  <2>1. f \in Seq(Nat) /\ Len(f) <= k /\ \A i \in 1..Len(f) : f[i] = i
    BY DEF Prefix
  <2>2. Len(f) \in Nat
    BY <2>1, LenProperties
  <2>3. Len(f) <= kk
    <3> HIDE DEF k, kk
    <3> QED
      BY <1>1, <2>1, <2>2
  <2> QED
    BY <2>1, <2>3 DEF Prefix
<1> QED
  BY <1>2, <1>3

(* ... and of one chunk more, if it is the next one. *)
LEMMA NextChunk ==
  ASSUME NEW T, NEW c \in Seq(T), NEW e \in T, NEW m, NEW w, Named(m, c),
         Cut(c, w), e.id = IdForChunk(m, Len(c)),
         e.chunk \in Seq(Nat), e.chunk # <<>>, e.chunk[1] \in 1..Len(w),
         w[e.chunk[1]] = IF Len(c) = 0 THEN "header" ELSE "cluster"
  PROVE  /\ Named(m, Append(c, e)) /\ Cut(Append(c, e), w)
         /\ Append(c, e) \in Seq(T) /\ Len(Append(c, e)) = Len(c) + 1
<1> DEFINE n == Len(c)
           a == Append(c, e)
<1>1. /\ a \in Seq(T) /\ Len(a) = n + 1 /\ n \in Nat
      /\ \A i \in 1..n : a[i] = c[i]
      /\ a[n + 1] = e
  BY AppendProperties, LenProperties
<1> HIDE DEF a, n
<1>2. \A i \in 1..(n + 1) : i \in 1..n \/ i = n + 1
  BY <1>1
<1>3. (n + 1) - 1 = n /\ (n + 1 = 1 <=> n = 0)
  BY <1>1
<1>4. ASSUME NEW i \in 1..(n + 1) PROVE a[i].id = IdForChunk(m, i - 1)
  <2>1. CASE i \in 1..n
    BY <1>1, <2>1 DEF Named, n
  <2>2. CASE i = n + 1
    BY <1>1, <1>3, <2>2 DEF n
  <2> QED
    BY <1>2, <2>1, <2>2
<1>5. ASSUME NEW i \in 1..(n + 1)
      PROVE  /\ a[i].chunk \in Seq(Nat) /\ a[i].chunk # <<>>
             /\ a[i].chunk[1] \in 1..Len(w)
             /\ w[a[i].chunk[1]] = IF i = 1 THEN "header" ELSE "cluster"
  <2>1. CASE i \in 1..n
    BY <1>1, <2>1 DEF Cut, n
  <2>2. CASE i = n + 1
    BY <1>1, <1>3, <2>2 DEF n
  <2> QED
    BY <1>2, <2>1, <2>2
<1>6. Named(m, a) /\ Cut(a, w)
  BY <1>1, <1>4, <1>5 DEF Named, Cut
<1> QED
  BY <1>1, <1>6 DEF a, n

(* The elements that follow those of a prefix make a longer one. *)
LEMMA NextElements ==
  ASSUME NEW f, NEW w, NEW g \in Seq(Nat), Prefix(f, w), Len(w) \in Nat,
         Len(f) + Len(g) <= Len(w), \A i \in 1..Len(g) : g[i] = Len(f) + i
  PROVE  Prefix(f \o g, w) /\ Len(f \o g) = Len(f) + Len(g)
<1> DEFINE k == Len(f)
           l == Len(g)
           c == f \o g
<1>1. f \in Seq(Nat) /\ k \in Nat /\ l \in Nat /\ \A i \in 1..k : f[i] = i
  BY LenProperties DEF Prefix
<1>2. /\ c \in Seq(Nat) /\ Len(c) = k + l
      /\ \A i \in 1..(k + l) : c[i] = IF i <= k THEN f[i] ELSE g[i - k]
  BY <1>1, ConcatProperties
<1>3. \A i \in 1..l : g[i] = k + i
  OBVIOUS
<1>4. k + l <= Len(w)
  OBVIOUS
<1> HIDE DEF c, k, l
<1>5. ASSUME NEW i \in 1..(k + l) PROVE c[i] = i
  <2>1. CASE i <= k
    <3>1. i \in 1..k
      BY <2>1, <1>1
    <3> QED
      BY <2>1, <3>1, <1>1, <1>2
  <2>2. CASE ~(i <= k)
    <3>1. i - k \in 1..l /\ k + (i - k) = i
      BY <2>2, <1>1
    <3> QED
      BY <2>2, <3>1, <1>2, <1>3
  <2> QED
    BY <2>1, <2>2
<1>6. Prefix(c, w)
  BY <1>2, <1>4, <1>5 DEF Prefix
<1> QED
  BY <1>2, <1>6 DEF c, k, l

(* A sequence of its own values, and one more. *)
LEMMA RangeAppend ==
  ASSUME NEW s, s \in Seq(Range(s)), NEW e
  PROVE  /\ Append(s, e) \in Seq(Range(Append(s, e)))
         /\ s \in Seq(Range(Append(s, e))) /\ e \in Range(Append(s, e))
         /\ \A c : c \in Seq(Range(s)) => c \in Seq(Range(Append(s, e)))
<1> DEFINE R == Range(s) \cup {e}
           a == Append(s, e)
<1>1. Range(s) \subseteq R /\ e \in R
  OBVIOUS
<1> HIDE DEF R
<1>2. \A c : c \in Seq(Range(s)) => c \in Seq(R)
  BY <1>1
<1>3. s \in Seq(R)
  BY <1>2
<1>4. /\ a \in Seq(R) /\ Len(a) = Len(s) + 1 /\ Len(s) \in Nat
      /\ \A i \in 1..Len(s) : a[i] = s[i]
      /\ a[Len(s) + 1] = e
  BY <1>1, <1>3, AppendProperties, LenProperties
<1> HIDE DEF a
<1>5. DOMAIN s = 1..Len(s) /\ DOMAIN a = 1..Len(a)
  BY <1>3, <1>4, LenProperties
<1>6. R \subseteq Range(a)
  <2>1. ASSUME NEW x \in Range(s) PROVE x \in Range(a)
    <3>1. PICK i \in 1..Len(s) : x = s[i]
      BY <1>5 DEF Range
    <3>2. i \in 1..Len(a) /\ a[i] = x
      BY <3>1, <1>4
    <3> QED
      BY <3>2, <1>5 DEF Range
  <2>2. e \in Range(a)
    <3>1. Len(s) + 1 \in 1..Len(a)
      BY <1>4
    <3> QED
      BY <3>1, <1>4, <1>5 DEF Range
  <2> QED
    BY <2>1, <2>2 DEF R
<1>7. \A c : c \in Seq(R) => c \in Seq(Range(a))
  BY <1>6
<1> QED
  BY <1>1, <1>2, <1>3, <1>4, <1>6, <1>7 DEF a

-----------------------------------------------------------------------------
(* The muxers and the sink, one operation after the other. *)

(* What is known of one stream. *)
StreamOK(m) ==
  /\ Aligned(buffer_[m], chunk_end_[m], chunks_read_[m], written[m])
  /\ ChunksOf(m) \in Seq(Range(sink))
  /\ Named(m, ChunksOf(m)) /\ Cut(ChunksOf(m), written[m])
  /\ Prefix(Sunk(m), written[m])

(* Nothing happens to a stream. *)
LEMMA StreamKept ==
  ASSUME NEW m \in Streams, StreamOK(m), buffer_'[m] = buffer_[m],
         chunk_end_'[m] = chunk_end_[m], chunks_read_'[m] = chunks_read_[m],
         written'[m] = written[m], UNCHANGED <<sink, dash_name>>
  PROVE  StreamOK(m)' /\ (Whole(m) => Whole(m)')
<1>1. ChunksOf(m)' = ChunksOf(m) /\ Sunk(m)' = Sunk(m)
  BY DEF ChunksOf, Sunk
<1>2. Named(m, ChunksOf(m))'
  BY <1>1 DEF Named, IdForChunk, StreamOK
<1> QED
  BY <1>1, <1>2 DEF StreamOK, Whole

(* A frame is muxed. *)
LEMMA StreamFramed ==
  ASSUME NEW m \in Streams, StreamOK(m), Muxing, NEW b \in BOOLEAN,
         EncoderAssumption, AddFrame(m, b), UNCHANGED <<sink, dash_name>>,
         buffer_[m] = <<>> => written[m] = <<>>,
         chunk_end_[m] # 0 => chunk_end_[m] < Len(buffer_[m])
  PROVE  /\ StreamOK(m)' /\ (Whole(m) => Whole(m)')
         /\ buffer_'[m] # <<>>
         /\ chunk_end_'[m] # 0 => chunk_end_'[m] < Len(buffer_'[m])
<1> DEFINE new == Elements(m, b)
           x == ChunkEndAfter(m, new)
           buf == buffer_[m]
           w == written[m]
           e == chunk_end_[m]
           n == chunks_read_[m]
<1>1. /\ buffer_'[m] = buf \o Following(w, new)
      /\ written'[m] = w \o new
      /\ chunk_end_'[m] = x /\ chunks_read_'[m] = n
  <2>1. /\ buffer_' = [buffer_ EXCEPT ![m] =
                         @ \o [i \in 1..Len(new) |-> Len(w) + i]]
        /\ written' = [written EXCEPT ![m] = @ \o new]
        /\ chunk_end_' = [chunk_end_ EXCEPT ![m] = x]
        /\ chunks_read_' = chunks_read_
    BY DEF AddFrame
  <2>2. /\ m \in DOMAIN buffer_ /\ m \in DOMAIN written
        /\ m \in DOMAIN chunk_end_
    BY DEF Muxing
  <2> HIDE DEF new, x
  <2> QED
    BY <2>1, <2>2 DEF Following
<1>2. Aligned(buf, e, n, w) /\ Inside(buf, e, w)
  BY DEF StreamOK, Inside
<1>3. Added(buf, e, w, new, x)
  <2>1. e \in Nat /\ Len(buf) \in Nat /\ Len(buf) <= Len(w)
    BY <1>2, LenProperties DEF Aligned
  <2>2. CASE w = <<>>
    <3>1. new = <<"header", "cluster", "block">>
      BY <2>2 DEF Elements
    <3>2. Len(buf) = 0
      BY <2>1, <2>2
    <3> HIDE DEF new
    <3>3. x = Len(buf) + 1
      BY <3>1 DEF ChunkEndAfter
    <3> HIDE DEF x
    <3> QED
      BY <2>2, <3>1, <3>2, <3>3 DEF Kinds, Added
  <2>3. CASE w # <<>> /\ b
    <3>1. new = <<"cluster", "block">>
      BY <2>3 DEF Elements
    <3> HIDE DEF new
    <3>2. x = Len(buf) + 0
      BY <3>1 DEF ChunkEndAfter
    <3> HIDE DEF x
    <3> QED
      BY <2>1, <2>3, <3>1, <3>2 DEF Kinds, Added
  <2>4. CASE w # <<>> /\ ~b
    <3>1. new = <<"block">>
      BY <2>4 DEF Elements
    <3> HIDE DEF new
    <3>2. x = e
      BY <3>1 DEF ChunkEndAfter
    <3> HIDE DEF x
    <3> QED
      BY <2>1, <2>4, <3>1, <3>2 DEF Kinds, Added
  <2> QED
    BY <2>2, <2>3, <2>4
<1> HIDE DEF new, x
<1> DEFINE bb == buf \o Following(w, new)
           ww == w \o new
           l == Len(new)
<1>4. /\ Aligned(bb, x, n, ww) /\ bb # <<>>
      /\ Len(bb) = Len(buf) + l /\ Len(ww) = Len(w) + l
      /\ (x # 0 => x < Len(bb))
      /\ Longer(w, ww)
  <2> HIDE DEF buf, w, e, n
  <2>1. Aligned(buf \o Following(w, new), x, n, w \o new)
    BY <1>2, <1>3, FrameAligned
  <2>2. buf \o Following(w, new) # <<>>
    BY <1>2, <1>3, FrameAligned
  <2>3. Longer(w, w \o new)
    BY <1>2, <1>3, FrameAligned
  <2>4. Len(buf \o Following(w, new)) = Len(buf) + Len(new)
    BY <1>2, <1>3, FrameAligned
  <2>5. Len(w \o new) = Len(w) + Len(new)
    BY <1>2, <1>3, FrameAligned
  <2>6. x # 0 => x < Len(buf \o Following(w, new))
    BY <1>2, <1>3, FrameAligned
  <2> QED
    BY <2>1, <2>2, <2>3, <2>4, <2>5, <2>6
<1> HIDE DEF bb, ww, l
<1>5. /\ ChunksOf(m)' = ChunksOf(m) /\ Sunk(m)' = Sunk(m)
      /\ Named(m, ChunksOf(m))'
  <2>1. ChunksOf(m)' = ChunksOf(m) /\ Sunk(m)' = Sunk(m)
    BY DEF ChunksOf, Sunk
  <2> QED
    BY <2>1 DEF Named, IdForChunk, StreamOK
<1>6. /\ w \in Seq(Kinds) /\ ww \in Seq(Kinds)
      /\ Len(w) \in Nat /\ Len(buf) \in Nat /\ l \in Nat
  BY <1>2, <1>3, <1>4, LenProperties DEF Aligned, Added, l
<1>7. Cut(ChunksOf(m), ww) /\ Prefix(Sunk(m), ww)
  <2>1. Cut(ChunksOf(m), w) /\ Prefix(Sunk(m), w)
    BY DEF StreamOK
  <2> HIDE DEF w
  <2> QED
    BY <1>4, <1>6, <2>1, LongerStream
<1>8. StreamOK(m)'
  BY <1>1, <1>4, <1>5, <1>7 DEF StreamOK, bb, ww
<1>9. Whole(m) => Whole(m)'
  <2>1. /\ buffer_'[m] = bb /\ written'[m] = ww /\ chunks_read_'[m] = n
    BY <1>1 DEF bb, ww
  <2>2. Sunk(m) \in Seq(Nat) /\ Len(Sunk(m)) \in Nat
    BY LenProperties DEF StreamOK, Prefix
  <2>3. Whole(m) => Len(ChunksOf(m)) = n /\ Len(Sunk(m)) + Len(buf) = Len(w)
    BY DEF Whole
  <2>4. Len(Sunk(m)) + Len(buf) = Len(w) => Len(Sunk(m)) + Len(bb) = Len(ww)
    <3> DEFINE i == Len(Sunk(m))
               j == Len(buf)
               k == Len(w)
    <3>1. /\ i \in Nat /\ j \in Nat /\ k \in Nat /\ l \in Nat
          /\ Len(bb) = j + l /\ Len(ww) = k + l
      BY <1>4, <1>6, <2>2 DEF l
    <3> HIDE DEF i, j, k
    <3>2. i + j = k => i + Len(bb) = Len(ww)
      BY <3>1
    <3> QED
      BY <3>2 DEF i, j, k
  <2> QED
    BY <1>5, <2>1, <2>3, <2>4 DEF Whole
<1> QED
  BY <1>1, <1>4, <1>8, <1>9 DEF bb, ww

(* EraseChunk takes a chunk out of a muxer. *)
LEMMA ChunkTaken ==
  ASSUME NEW m \in Streams, StreamOK(m), Muxing, EraseChunk(m), ChunkReady(m)
  PROVE  /\ Taken(buffer_[m], chunk_end_[m], chunks_read_[m], written[m],
                  Chunk(m), buffer_'[m])
         /\ chunk_end_'[m] = 0 /\ chunks_read_'[m] = chunks_read_[m] + 1
         /\ written' = written
<1> DEFINE b == buffer_[m]
           w == written[m]
           e == chunk_end_[m]
           n == chunks_read_[m]
<1>1. /\ buffer_'[m] = SubSeq(b, e + 1, Len(b))
      /\ chunk_end_'[m] = 0 /\ chunks_read_'[m] = n + 1
      /\ written' = written
  <2>1. /\ buffer_' = [buffer_ EXCEPT ![m] =
                         SubSeq(@, chunk_end_[m] + 1, Len(@))]
        /\ chunk_end_' = [chunk_end_ EXCEPT ![m] = 0]
        /\ chunks_read_' = [chunks_read_ EXCEPT ![m] = @ + 1]
        /\ written' = written
    BY DEF EraseChunk
  <2>2. m \in DOMAIN buffer_ /\ m \in DOMAIN chunk_end_
        /\ m \in DOMAIN chunks_read_
    BY DEF Muxing
  <2> QED
    BY <2>1, <2>2
<1>2. Aligned(b, e, n, w) /\ e > 0
  BY DEF StreamOK, ChunkReady
<1>3. Chunk(m) = SubSeq(b, 1, e)
  BY DEF Chunk
<1> HIDE DEF b, w, e, n
<1> DEFINE c == SubSeq(b, 1, e)
           r == SubSeq(b, e + 1, Len(b))
<1>4. Taken(b, e, n, w, c, r)
  BY <1>2, EraseAligned
<1> QED
  BY <1>1, <1>3, <1>4 DEF b, w, e, n

(* A chunk is taken out and does not reach the sink: what the sink has of  *)
(* the stream is still a prefix.                                           *)
LEMMA StreamLost ==
  ASSUME NEW m \in Streams, StreamOK(m), Muxing, EraseChunk(m), ChunkReady(m),
         UNCHANGED <<sink, dash_name>>
  PROVE  StreamOK(m)'
<1>1. /\ Taken(buffer_[m], chunk_end_[m], chunks_read_[m], written[m],
               Chunk(m), buffer_'[m])
      /\ chunk_end_'[m] = 0 /\ chunks_read_'[m] = chunks_read_[m] + 1
      /\ written' = written
  BY ChunkTaken
<1>2. Aligned(buffer_'[m], chunk_end_'[m], chunks_read_'[m], written'[m])
  BY <1>1 DEF Taken
<1>3. ChunksOf(m)' = ChunksOf(m) /\ Sunk(m)' = Sunk(m)
  BY DEF ChunksOf, Sunk
<1>4. Named(m, ChunksOf(m))'
  BY <1>3 DEF Named, IdForChunk, StreamOK
<1> QED
  BY <1>1, <1>2, <1>3, <1>4 DEF StreamOK

(* The name of a chunk is one of its representation, and of no other. *)
LEMMA EntryNamed ==
  ASSUME NEW m \in Streams, chunks_read_[m] \in Nat
  PROVE  /\ IsChunkOf(m, Entry(m))
         /\ \A o \in Streams : IsChunkOf(o, Entry(m)) => o = m
         /\ Len(Entry(m).id) > 2
         /\ Entry(m).id = IdForChunk(m, chunks_read_[m])
         /\ Entry(m).chunk = Chunk(m)
<1> DEFINE i == IdForChunk(m, chunks_read_[m])
<1>1. Entry(m).id = i /\ Entry(m).chunk = Chunk(m)
  BY DEF Entry
<1>2. Len(i) > 2 /\ i[2] = RepId(m)
  BY DEF IdForChunk
<1>3. \A o \in Streams : RepId(o) = RepId(m) => o = m
  BY DEF Streams, Audio, Video, RepId
<1> HIDE DEF i
<1> QED
  BY <1>1, <1>2, <1>3 DEF IsChunkOf, i

(* A chunk of one stream reaches the sink: nothing happens to the others. *)
LEMMA OtherSunk ==
  ASSUME NEW m \in Streams, StreamOK(m), NEW e, ~IsChunkOf(m, e),
         sink \in Seq(Range(sink)), sink' = Append(sink, e),
         buffer_'[m] = buffer_[m],
         chunk_end_'[m] = chunk_end_[m], chunks_read_'[m] = chunks_read_[m],
         written'[m] = written[m], UNCHANGED dash_name
  PROVE  StreamOK(m)' /\ (Whole(m) => Whole(m)')
<1> DEFINE R == Range(Append(sink, e))
<1>1. /\ sink \in Seq(R) /\ e \in R
      /\ \A c : c \in Seq(Range(sink)) => c \in Seq(R)
  BY RangeAppend
<1> HIDE DEF R
<1>2. ChunksIn(m, Append(sink, e)) = ChunksIn(m, sink)
  BY <1>1, ChunksInAppend
<1>3. ChunksOf(m)' = ChunksOf(m)
  BY <1>2 DEF ChunksOf
<1>4. Sunk(m)' = Sunk(m)
  BY <1>3 DEF Sunk
<1>5. Named(m, ChunksOf(m))'
  BY <1>3 DEF Named, IdForChunk, StreamOK
<1>6. ChunksOf(m)' \in Seq(Range(sink'))
  BY <1>1, <1>3 DEF StreamOK, R
<1> QED
  BY <1>3, <1>4, <1>5, <1>6 DEF StreamOK, Whole

(* The next chunk of a whole stream reaches the sink. *)
LEMMA StreamSunk ==
  ASSUME NEW m \in Streams, StreamOK(m), Muxing, EraseChunk(m), ChunkReady(m),
         Whole(m), sink \in Seq(Range(sink)), sink' = Append(sink, Entry(m)),
         UNCHANGED dash_name
  PROVE  StreamOK(m)' /\ Whole(m)'
<1> DEFINE b == buffer_[m]
           w == written[m]
           e == chunk_end_[m]
           n == chunks_read_[m]
           r == buffer_'[m]
           g == Chunk(m)
           x == Entry(m)
           c == ChunksOf(m)
           f == Sunk(m)
           R == Range(Append(sink, x))
<1>1. /\ Taken(b, e, n, w, g, r)
      /\ chunk_end_'[m] = 0 /\ chunks_read_'[m] = n + 1
      /\ written' = written
  BY ChunkTaken
<1>2. /\ sink \in Seq(R) /\ x \in R /\ c \in Seq(R)
  <2>1. c \in Seq(Range(sink))
    BY DEF StreamOK
  <2> HIDE DEF c, x
  <2> QED
    BY <2>1, RangeAppend
<1>3. /\ IsChunkOf(m, x) /\ x.id = IdForChunk(m, n) /\ x.chunk = g
  BY EntryNamed DEF StreamOK, Aligned
<1>4. /\ Len(c) = n /\ Len(f) + Len(b) = Len(w)
      /\ Named(m, c) /\ Cut(c, w) /\ Prefix(f, w) /\ f = Joined(c)
  BY DEF Whole, StreamOK, Sunk
<1>5. /\ g \in Seq(Nat) /\ g # <<>> /\ g[1] \in 1..Len(w)
      /\ w[g[1]] = IF n = 0 THEN "header" ELSE "cluster"
      /\ Len(b) \in Nat /\ Len(w) \in Nat /\ Len(f) \in Nat
      /\ e \in Nat /\ e <= Len(b) /\ Len(g) = e /\ Len(r) = Len(b) - e
      /\ \A i \in 1..e : g[i] = Len(w) - Len(b) + i
      /\ Aligned(r, 0, n + 1, w)
  <2>1. b \in Seq(Nat) /\ w \in Seq(Kinds) /\ f \in Seq(Nat)
    BY DEF StreamOK, Aligned, Prefix
  <2> HIDE DEF b, w, e, n, g, r, f
  <2> QED
    BY <1>1, <2>1, LenProperties, EmptySeq DEF Taken
<1>6. ChunksOf(m)' = Append(c, x)
  <2>1. ChunksIn(m, Append(sink, x)) = Append(ChunksIn(m, sink), x)
    <3> HIDE DEF x, R
    <3> QED
      BY <1>2, <1>3, ChunksInAppend
  <2> QED
    BY <2>1 DEF ChunksOf
<1> HIDE DEF b, w, e, n, g, x, c, f, R
<1>7. /\ Named(m, Append(c, x)) /\ Cut(Append(c, x), w)
      /\ Append(c, x) \in Seq(R) /\ Len(Append(c, x)) = n + 1
  <2>1. /\ x.id = IdForChunk(m, Len(c))
        /\ x.chunk \in Seq(Nat) /\ x.chunk # <<>> /\ x.chunk[1] \in 1..Len(w)
        /\ w[x.chunk[1]] = IF Len(c) = 0 THEN "header" ELSE "cluster"
    BY <1>3, <1>4, <1>5
  <2>2. /\ Named(m, Append(c, x)) /\ Cut(Append(c, x), w)
        /\ Append(c, x) \in Seq(R) /\ Len(Append(c, x)) = Len(c) + 1
    BY <1>2, <1>4, <2>1, NextChunk
  <2> QED
    BY <1>4, <2>2
<1>8. Joined(Append(c, x)) = f \o g
  <2>1. \A i \in 1..Len(c) : c[i].chunk \in Seq(Nat)
    BY <1>4 DEF Cut
  <2>2. x.chunk \in Seq(Nat)
    BY <1>3, <1>5
  <2>3. Joined(Append(c, x)) = Joined(c) \o x.chunk
    BY <1>2, <2>1, <2>2, JoinedAppend
  <2> QED
    BY <1>3, <1>4, <2>3
<1>9. /\ Prefix(f \o g, w) /\ Len(f \o g) = Len(f) + Len(g)
  <2>1. Len(w) - Len(b) = Len(f) /\ Len(f) + Len(g) <= Len(w)
    BY <1>4, <1>5
  <2>2. \A i \in 1..Len(g) : g[i] = Len(f) + i
    BY <1>5, <2>1
  <2> QED
    BY <1>4, <1>5, <2>1, <2>2, NextElements
<1>10. Len(f \o g) + Len(r) = Len(w)
  <2> DEFINE i == Len(f)
             j == Len(b)
             k == Len(w)
  <2>1. /\ i \in Nat /\ j \in Nat /\ k \in Nat /\ e \in Nat /\ i + j = k
        /\ Len(f \o g) = i + e /\ Len(r) = j - e
    BY <1>4, <1>5, <1>9
  <2> HIDE DEF i, j, k
  <2>2. (i + e) + (j - e) = k
    BY <2>1
  <2> QED
    BY <2>1, <2>2 DEF k
<1>11. Sunk(m)' = f \o g
  BY <1>6, <1>8 DEF Sunk
<1>12. Named(m, ChunksOf(m))'
  BY <1>6, <1>7 DEF Named, IdForChunk
<1>13. written'[m] = w /\ chunk_end_'[m] = 0 /\ chunks_read_'[m] = n + 1
       /\ sink' = Append(sink, x)
  BY <1>1 DEF w, x
<1>14. StreamOK(m)'
  BY <1>5, <1>6, <1>7, <1>9, <1>11, <1>12, <1>13 DEF StreamOK, R
<1>15. Whole(m)'
  BY <1>6, <1>7, <1>10, <1>11, <1>13 DEF Whole
<1> QED
  BY <1>14, <1>15

-----------------------------------------------------------------------------
(* All streams together. *)

(* What is known of every stream is all that is known of the muxers and    *)
(* the sink, but for the types.                                            *)
LEMMA StreamsOK ==
  /\ Muxing /\ Sent => \A m \in Streams : StreamOK(m)
  /\ /\ buffer_ \in [Streams -> Seq(Nat)]
     /\ written \in [Streams -> Seq(Kinds)]
     /\ chunk_end_ \in [Streams -> Nat] /\ chunks_read_ \in [Streams -> Nat]
     /\ sink \in Seq(Range(sink))
     /\ \A m \in Streams : StreamOK(m)
     => Muxing /\ Sent
BY DEF Muxing, Sent, StreamOK

(* The values a stream has. *)
LEMMA StreamTypes ==
  ASSUME NEW m \in Streams, StreamOK(m)
  PROVE  /\ buffer_[m] \in Seq(Nat) /\ written[m] \in Seq(Kinds)
         /\ chunk_end_[m] \in Nat /\ chunks_read_[m] \in Nat
BY DEF StreamOK, Aligned

(* Nothing happens to the muxers and the sink. *)
LEMMA NothingMuxed ==
  ASSUME Muxing, Sent, UNCHANGED <<mux_vars, sink, dash_name>>
  PROVE  Muxing' /\ Sent' /\ \A m \in Streams : Whole(m) => Whole(m)'
<1>1. \A m \in Streams : StreamOK(m)
  BY StreamsOK
<1>2. /\ buffer_' = buffer_ /\ written' = written
      /\ chunk_end_' = chunk_end_ /\ chunks_read_' = chunks_read_
      /\ sink' = sink /\ dash_name' = dash_name
  BY DEF mux_vars
<1>3. ASSUME NEW m \in Streams
      PROVE  StreamOK(m)' /\ (Whole(m) => Whole(m)')
  BY <1>1, <1>2, StreamKept
<1>4. (/\ buffer_ \in [Streams -> Seq(Nat)]
       /\ written \in [Streams -> Seq(Kinds)]
       /\ chunk_end_ \in [Streams -> Nat] /\ chunks_read_ \in [Streams -> Nat]
       /\ sink \in Seq(Range(sink)))'
  BY <1>2 DEF Muxing, Sent
<1>5. \A m \in Streams : StreamOK(m)'
  BY <1>3
<1>6. Muxing' /\ Sent'
  BY <1>4, <1>5 DEF Muxing, Sent, StreamOK
<1> QED
  BY <1>3, <1>6

(* Only the mux variables of one stream change. *)
LEMMA OthersKept ==
  ASSUME Muxing, NEW m \in Streams, NEW o \in Streams, o # m,
         \/ \E b \in BOOLEAN : AddFrame(m, b)
         \/ EraseChunk(m)
         \/ Finalize(m)
  PROVE  /\ buffer_'[o] = buffer_[o] /\ chunk_end_'[o] = chunk_end_[o]
         /\ chunks_read_'[o] = chunks_read_[o] /\ written'[o] = written[o]
<1>1. ASSUME NEW b \in BOOLEAN, AddFrame(m, b)
      PROVE  /\ buffer_'[o] = buffer_[o] /\ chunk_end_'[o] = chunk_end_[o]
             /\ chunks_read_'[o] = chunks_read_[o] /\ written'[o] = written[o]
  BY <1>1 DEF AddFrame, Muxing
<1>2. CASE EraseChunk(m)
  BY <1>2 DEF EraseChunk, Muxing
<1>3. CASE Finalize(m)
  BY <1>3 DEF Finalize, Muxing
<1> QED
  BY <1>1, <1>2, <1>3

(* The variables stay functions of the streams. *)
LEMMA MuxTypes ==
  ASSUME Muxing, NEW m \in Streams, StreamOK(m)',
         \/ \E b \in BOOLEAN : AddFrame(m, b)
         \/ EraseChunk(m)
         \/ Finalize(m)
  PROVE  /\ buffer_' \in [Streams -> Seq(Nat)]
         /\ written' \in [Streams -> Seq(Kinds)]
         /\ chunk_end_' \in [Streams -> Nat]
         /\ chunks_read_' \in [Streams -> Nat]
<1>1. /\ buffer_'[m] \in Seq(Nat) /\ written'[m] \in Seq(Kinds)
      /\ chunk_end_'[m] \in Nat /\ chunks_read_'[m] \in Nat
  BY DEF StreamOK, Aligned
<1>2. /\ DOMAIN buffer_' = Streams /\ DOMAIN written' = Streams
      /\ DOMAIN chunk_end_' = Streams /\ DOMAIN chunks_read_' = Streams
      /\ buffer_' = [o \in Streams |-> buffer_'[o]]
      /\ written' = [o \in Streams |-> written'[o]]
      /\ chunk_end_' = [o \in Streams |-> chunk_end_'[o]]
      /\ chunks_read_' = [o \in Streams |-> chunks_read_'[o]]
  <2>1. ASSUME NEW b \in BOOLEAN, AddFrame(m, b) PROVE <1>2!:
    BY <2>1 DEF AddFrame, Muxing
  <2>2. CASE EraseChunk(m)
    BY <2>2 DEF EraseChunk, Muxing
  <2>3. CASE Finalize(m)
    BY <2>3 DEF Finalize, Muxing
  <2> QED
    BY <2>1, <2>2, <2>3
<1>3. ASSUME NEW o \in Streams, o # m
      PROVE  /\ buffer_'[o] \in Seq(Nat) /\ written'[o] \in Seq(Kinds)
             /\ chunk_end_'[o] \in Nat /\ chunks_read_'[o] \in Nat
  BY <1>3, OthersKept DEF Muxing
<1>4. ASSUME NEW o \in Streams
      PROVE  /\ buffer_'[o] \in Seq(Nat) /\ written'[o] \in Seq(Kinds)
             /\ chunk_end_'[o] \in Nat /\ chunks_read_'[o] \in Nat
  BY <1>1, <1>3
<1> QED
  BY <1>2, <1>4

(* The mux variables of one stream change, and what is known of every      *)
(* stream stays true.                                                      *)
LEMMA OneMuxed ==
  ASSUME Muxing, NEW m \in Streams, \A o \in Streams : StreamOK(o)',
         (sink \in Seq(Range(sink)))',
         \/ \E b \in BOOLEAN : AddFrame(m, b)
         \/ EraseChunk(m)
         \/ Finalize(m)
  PROVE  Muxing' /\ Sent'
<1>1. /\ buffer_' \in [Streams -> Seq(Nat)]
      /\ written' \in [Streams -> Seq(Kinds)]
      /\ chunk_end_' \in [Streams -> Nat]
      /\ chunks_read_' \in [Streams -> Nat]
  BY MuxTypes
<1> QED
  BY <1>1 DEF Muxing, Sent, StreamOK

(* A frame is muxed, inside the loop. *)
LEMMA FrameMuxed ==
  ASSUME Muxing, Sent, NEW m \in Streams, NEW b \in BOOLEAN,
         EncoderAssumption, AddFrame(m, b), UNCHANGED <<sink, dash_name>>,
         buffer_[m] = <<>> => written[m] = <<>>,
         chunk_end_[m] # 0 => chunk_end_[m] < Len(buffer_[m])
  PROVE  /\ Muxing' /\ Sent' /\ \A o \in Streams : Whole(o) => Whole(o)'
         /\ buffer_'[m] # <<>>
         /\ chunk_end_'[m] # 0 => chunk_end_'[m] < Len(buffer_'[m])
<1>1. \A o \in Streams : StreamOK(o)
  BY StreamsOK
<1>2. /\ StreamOK(m)' /\ (Whole(m) => Whole(m)')
      /\ buffer_'[m] # <<>>
      /\ chunk_end_'[m] # 0 => chunk_end_'[m] < Len(buffer_'[m])
  BY <1>1, StreamFramed
<1>3. ASSUME NEW o \in Streams, o # m
      PROVE  StreamOK(o)' /\ (Whole(o) => Whole(o)')
  <2>1. /\ buffer_'[o] = buffer_[o] /\ chunk_end_'[o] = chunk_end_[o]
        /\ chunks_read_'[o] = chunks_read_[o] /\ written'[o] = written[o]
    BY <1>3, OthersKept
  <2> QED
    BY <1>1, <2>1, StreamKept
<1>4. ASSUME NEW o \in Streams
      PROVE  StreamOK(o)' /\ (Whole(o) => Whole(o)')
  BY <1>2, <1>3
<1>5. (sink \in Seq(Range(sink)))'
  BY DEF Sent
<1>6. \A o \in Streams : StreamOK(o)'
  BY <1>4
<1>7. Muxing' /\ Sent'
  BY <1>5, <1>6, OneMuxed
<1> QED
  BY <1>2, <1>4, <1>7

(* A chunk is taken out; with ok it reaches the sink. *)
LEMMA ChunkMoved ==
  ASSUME Muxing, Sent, NEW m \in Streams, NEW ok \in BOOLEAN, Whole(m),
         EraseChunk(m), ChunkReady(m), UNCHANGED dash_name,
         sink' = IF ok THEN Append(sink, Entry(m)) ELSE sink
  PROVE  /\ Muxing' /\ Sent'
         /\ \A o \in Streams : o # m /\ Whole(o) => Whole(o)'
         /\ ok => Whole(m)'
<1>1. \A o \in Streams : StreamOK(o)
  BY StreamsOK
<1>2. sink \in Seq(Range(sink)) /\ chunks_read_[m] \in Nat
  BY DEF Sent, Muxing
<1>3. /\ IsChunkOf(m, Entry(m))
      /\ \A o \in Streams : IsChunkOf(o, Entry(m)) => o = m
  BY <1>2, EntryNamed
<1>4. StreamOK(m)' /\ (ok => Whole(m)')
  <2>1. CASE ok
    <3>1. sink' = Append(sink, Entry(m))
      BY <2>1
    <3> QED
      BY <1>1, <1>2, <3>1, StreamSunk
  <2>2. CASE ~ok
    <3>1. sink' = sink
      BY <2>2
    <3> QED
      BY <1>1, <2>2, <3>1, StreamLost
  <2> QED
    BY <2>1, <2>2
<1>5. ASSUME NEW o \in Streams, o # m
      PROVE  StreamOK(o)' /\ (Whole(o) => Whole(o)')
  <2>1. /\ buffer_'[o] = buffer_[o] /\ chunk_end_'[o] = chunk_end_[o]
        /\ chunks_read_'[o] = chunks_read_[o] /\ written'[o] = written[o]
    BY <1>5, OthersKept
  <2>2. CASE ok
    <3> DEFINE e == Entry(m)
    <3>1. sink' = Append(sink, e) /\ ~IsChunkOf(o, e) /\ StreamOK(o)
      BY <1>1, <1>3, <1>5, <2>2
    <3> HIDE DEF e
    <3> QED
      BY <1>2, <2>1, <3>1, OtherSunk
  <2>3. CASE ~ok
    <3>1. sink' = sink
      BY <2>3
    <3> QED
      BY <1>1, <2>1, <3>1, StreamKept
  <2> QED
    BY <2>2, <2>3
<1>6. \A o \in Streams : StreamOK(o)'
  BY <1>4, <1>5
<1>7. (sink \in Seq(Range(sink)))'
  <2>1. CASE ok
    <3> DEFINE e == Entry(m)
    <3>1. sink' = Append(sink, e)
      BY <2>1
    <3> HIDE DEF e
    <3> QED
      BY <1>2, <3>1, RangeAppend
  <2>2. CASE ~ok
    BY <1>2, <2>2
  <2> QED
    BY <2>1, <2>2
<1>8. Muxing' /\ Sent'
  BY <1>6, <1>7, OneMuxed
<1> QED
  BY <1>4, <1>5, <1>8

(* A muxer is finalized. *)
LEMMA MuxerFinalized ==
  ASSUME Muxing, Sent, NEW m \in Streams, Finalize(m),
         UNCHANGED <<sink, dash_name>>
  PROVE  /\ Muxing' /\ Sent' /\ \A o \in Streams : Whole(o) => Whole(o)'
         /\ chunk_end_'[m] = Len(buffer_'[m])
<1>1. \A o \in Streams : StreamOK(o)
  BY StreamsOK
<1>2. /\ buffer_' = buffer_ /\ chunks_read_' = chunks_read_
      /\ written' = written
      /\ chunk_end_'[m] = IF buffer_[m] = <<>> THEN chunk_end_[m]
                          ELSE Len(buffer_[m])
  BY DEF Finalize, Muxing
<1>3. /\ Aligned(buffer_[m], chunk_end_'[m], chunks_read_[m], written[m])
      /\ chunk_end_'[m] = Len(buffer_[m])
  <2>1. Aligned(buffer_[m], chunk_end_[m], chunks_read_[m], written[m])
    BY <1>1 DEF StreamOK
  <2> DEFINE b == buffer_[m]
             e == chunk_end_[m]
             n == chunks_read_[m]
             w == written[m]
             x == chunk_end_'[m]
  <2>2. Aligned(b, e, n, w) /\ x = IF b = <<>> THEN e ELSE Len(b)
    BY <1>2, <2>1
  <2> HIDE DEF b, e, n, w, x
  <2>3. Aligned(b, x, n, w) /\ x = Len(b)
    BY <2>2, FinalAligned
  <2> QED
    BY <2>3 DEF b, e, n, w, x
<1>4. ASSUME NEW o \in Streams
      PROVE  /\ ChunksOf(o)' = ChunksOf(o) /\ Sunk(o)' = Sunk(o)
             /\ Named(o, ChunksOf(o))'
  <2>1. ChunksOf(o)' = ChunksOf(o) /\ Sunk(o)' = Sunk(o)
    BY DEF ChunksOf, Sunk
  <2> QED
    BY <1>1, <2>1 DEF Named, IdForChunk, StreamOK
<1>5. StreamOK(m)'
  BY <1>1, <1>2, <1>3, <1>4 DEF StreamOK
<1>6. ASSUME NEW o \in Streams, o # m PROVE StreamOK(o)'
  <2>1. /\ buffer_'[o] = buffer_[o] /\ chunk_end_'[o] = chunk_end_[o]
        /\ chunks_read_'[o] = chunks_read_[o] /\ written'[o] = written[o]
    BY <1>6, OthersKept
  <2> QED
    BY <1>1, <2>1, StreamKept
<1>7. \A o \in Streams : StreamOK(o)'
  BY <1>5, <1>6
<1>8. (sink \in Seq(Range(sink)))'
  BY DEF Sent
<1>9. Muxing' /\ Sent'
  BY <1>7, <1>8, OneMuxed
<1>10. \A o \in Streams : Whole(o) => Whole(o)'
  BY <1>2, <1>4 DEF Whole
<1> QED
  BY <1>2, <1>3, <1>9, <1>10

-----------------------------------------------------------------------------
(* Steps that leave the muxers, the sink and the DashWriter alone. *)

Books == Muxing /\ Sent /\ WholeUntilOver /\ CutInside /\ EndReached
           /\ ManifestFirst

Begun == thread \notin {"run", "manifest"}

(* Steps that are not about the end of the streams, or leave the loop      *)
(* because of a failure.                                                   *)
LEMMA QuietStep ==
  ASSUME Books,
         UNCHANGED <<mux_vars, sink, dash_vars, enabled>>, broken => broken',
         \/ UNCHANGED <<thread, stream, broken>>
         \/ ~Ended /\ ~Ending /\ ~Ended' /\ ~Ending'
         \/ ~Ended /\ ~Ending /\ broken' /\ thread' = "stop_source",
         Begun => Begun'
  PROVE  Books'
<1>1. Muxing' /\ Sent' /\ \A m \in Streams : Whole(m) => Whole(m)'
  BY NothingMuxed DEF Books, dash_vars
<1>2. /\ buffer_' = buffer_ /\ written' = written /\ chunk_end_' = chunk_end_
      /\ sink' = sink /\ dash_name' = dash_name
      /\ dash_writer' = dash_writer /\ enabled' = enabled
      /\ FirstStream' = FirstStream
  BY DEF mux_vars, dash_vars, FirstStream
<1>3. ManifestFirst'
  <2>1. NotReady' = NotReady /\ Ready' = Ready /\ ManifestId' = ManifestId
    BY <1>2 DEF NotReady, Ready, ManifestId, AdaptationSet, ChunkPattern,
                InitializationPattern
  <2> QED
    BY <1>2, <2>1 DEF Books, ManifestFirst, WriteManifest, Begun
<1>4. WholeUntilOver' /\ CutInside' /\ EndReached'
  <2>1. CASE UNCHANGED <<thread, stream, broken>>
    BY <1>1, <1>2, <2>1 DEF Books, WholeUntilOver, CutInside, EndReached,
                            Ended, Ending
  <2>2. CASE ~Ended /\ ~Ending /\ ~Ended' /\ ~Ending'
    <3>1. WholeUntilOver'
      BY <1>1, <2>2 DEF Books, WholeUntilOver
    <3>2. CutInside'
      BY <1>2, <2>2 DEF Books, CutInside
    <3>3. EndReached'
      BY <2>2 DEF EndReached, Ended, Ending
    <3> QED
      BY <3>1, <3>2, <3>3
  <2>3. CASE ~Ended /\ ~Ending /\ broken' /\ thread' = "stop_source"
    BY <2>3 DEF WholeUntilOver, CutInside, EndReached, Ended, Ending
  <2> QED
    BY <2>1, <2>2, <2>3
<1> QED
  BY <1>1, <1>3, <1>4 DEF Books

(* What is known of the streams that are disabled, of the waiting and of   *)
(* the rest.                                                               *)
Rest == Control /\ DisabledEmpty /\ SeenStays

(* The invariant, in two parts. *)
LEMMA IInvParts == IInv <=> Books /\ Rest
BY DEF IInv, Books, Rest

(* The control state after a step of the encoder thread: what such a step  *)
(* can change keeps its type, and the rest is left alone.                  *)
LEMMA ControlStep ==
  ASSUME Rest,
         UNCHANGED <<stop_vars, enabled, user_initiated_stop, delivered, got>>,
         thread' \in {"run", "manifest", "top", "encode_audio", "read_audio",
                     "encode_video", "chunk", "stop_source"},
         stream' \in enabled, source' \in {source, "running"},
         pool' \in [Streams -> Nat],
         \A s \in Streams : pool'[s] <= delivered[s],
         packets' \in 0..MaxPackets, chunk_buffer' \in BOOLEAN,
         chunk_buffer_size' \in Nat, broken' \in BOOLEAN, crashed' \in BOOLEAN
  PROVE  Control'
<1>1. Control
  BY DEF Rest
<1>2. /\ stop_' = stop_ /\ mutex_' = mutex_ /\ main' = main
      /\ polls' = polls /\ enabled' = enabled
      /\ user_initiated_stop' = user_initiated_stop
      /\ delivered' = delivered /\ got' = got
  BY DEF stop_vars
<1>3. /\ thread' \in {"run", "manifest", "wait", "top", "status",
                     "encode_audio", "read_audio", "encode_video", "chunk",
                     "finalize", "last_chunk", "stop_source", "done"}
      /\ source' \in {"idle", "running", "stopped"}
      /\ SourceStopped'
  BY <1>1 DEF Control, SourceStopped
<1>4. \A s \in Streams : pool'[s] <= delivered'[s]
  BY <1>2
<1>5. /\ stop_' \in BOOLEAN /\ mutex_' \in {"free", "main"}
      /\ main' \in {"polling", "reading", "flag", "join", "stopped"}
      /\ polls' \in 0..MaxPolls
      /\ enabled' \in (SUBSET Streams) \ {{}}
      /\ stream' \in enabled' /\ user_initiated_stop' \in BOOLEAN
      /\ delivered' \in [Streams -> 0..MaxSamples]
      /\ got' \in [Streams -> BOOLEAN]
  BY <1>1, <1>2 DEF Control
<1> QED
  BY <1>3, <1>4, <1>5 DEF Control

(* Capture threads. *)
LEMMA CaptureKeeps ==
  ASSUME IInv, EncoderAssumption, NEW s \in Streams, Capture(s)
  PROVE  IInv'
<1>1. Books'
  <2>1. UNCHANGED <<mux_vars, sink, dash_vars, enabled, broken, thread, stream>>
    BY DEF Capture, Running, dash_vars
  <2> QED
    BY <2>1, QuietStep, IInvParts DEF Begun
<1>2. /\ UNCHANGED <<stop_, mutex_, main, polls, thread, stream, enabled,
                    user_initiated_stop, source, got, packets, chunk_buffer,
                    chunk_buffer_size, broken, crashed, buffer_, written>>
      /\ s \in enabled /\ delivered[s] < MaxSamples
      /\ delivered' = [delivered EXCEPT ![s] = @ + 1]
      /\ pool' = [pool EXCEPT ![s] = @ + 1]
  BY DEF Capture, Running, stop_vars, chunk_vars, mux_vars
<1>3. /\ delivered \in [Streams -> 0..MaxSamples] /\ pool \in [Streams -> Nat]
      /\ \A t \in Streams : pool[t] <= delivered[t]
      /\ MaxSamples \in Nat
  BY IInvParts DEF Rest, Control, EncoderAssumption
<1>4. /\ delivered' \in [Streams -> 0..MaxSamples]
      /\ pool' \in [Streams -> Nat]
      /\ \A t \in Streams : pool'[t] <= delivered'[t]
      /\ \A t \in Streams : t # s => /\ pool'[t] = pool[t]
                                     /\ delivered'[t] = delivered[t]
      /\ \A t \in Streams : pool[t] > 0 => pool'[t] > 0
  <2>1. delivered[s] + 1 \in 0..MaxSamples /\ pool[s] + 1 \in Nat
    BY <1>2, <1>3
  <2>2. /\ delivered'[s] = delivered[s] + 1 /\ pool'[s] = pool[s] + 1
        /\ \A t \in Streams : t # s => /\ pool'[t] = pool[t]
                                       /\ delivered'[t] = delivered[t]
    BY <1>2, <1>3
  <2>3. delivered' \in [Streams -> 0..MaxSamples] /\ pool' \in [Streams -> Nat]
    BY <1>2, <1>3, <2>1
  <2>4. ASSUME NEW t \in Streams
        PROVE  pool'[t] <= delivered'[t] /\ (pool[t] > 0 => pool'[t] > 0)
    <3>1. CASE t = s
      BY <1>3, <2>2, <3>1
    <3>2. CASE t # s
      BY <1>3, <2>2, <3>2
    <3> QED
      BY <3>1, <3>2
  <2> QED
    BY <2>2, <2>3, <2>4
<1>5. Control'
  BY <1>2, <1>4, IInvParts DEF Rest, Control, SourceStopped
<1>6. DisabledEmpty'
  BY <1>2, <1>4, IInvParts DEF Rest, DisabledEmpty
<1>7. SeenStays'
  BY <1>2, <1>4, IInvParts DEF Rest, SeenStays, Waiting
<1> QED
  BY <1>1, <1>5, <1>6, <1>7 DEF IInv, Books

(* The main thread. *)
LEMMA MainThreadKeeps ==
  ASSUME IInv, EncoderAssumption, MainThread
  PROVE  IInv'
<1>1. MainStep
  BY DEF MainThread, PollLock, PollUnlock, StopLock, StopFlag, StopJoin
<1>2. Books'
  <2>1. UNCHANGED <<mux_vars, sink, dash_vars, enabled, broken, thread, stream>>
    BY <1>1 DEF MainStep, Running, dash_vars
  <2> QED
    BY <2>1, QuietStep, IInvParts DEF Begun
<1>3. UNCHANGED <<thread, stream, enabled, user_initiated_stop, source,
                  delivered, pool, got, packets, chunk_buffer,
                  chunk_buffer_size, broken, crashed, buffer_, written>>
  BY <1>1 DEF MainStep, Running, capture_vars, chunk_vars, mux_vars
<1>4. /\ stop_' \in BOOLEAN /\ mutex_' \in {"free", "main"}
      /\ main' \in {"polling", "reading", "flag", "join", "stopped"}
      /\ polls' \in 0..MaxPolls
  <2>1. /\ stop_ \in BOOLEAN /\ mutex_ \in {"free", "main"}
        /\ main \in {"polling", "reading", "flag", "join", "stopped"}
        /\ polls \in 0..MaxPolls /\ MaxPolls \in Nat
    BY IInvParts DEF Rest, Control, EncoderAssumption
  <2>2. CASE PollLock
    <3>1. polls < MaxPolls /\ polls' = polls + 1
      BY <2>2 DEF PollLock
    <3>2. polls' \in 0..MaxPolls
      BY <2>1, <3>1
    <3> QED
      BY <2>1, <2>2, <3>2 DEF PollLock
  <2>3. CASE PollUnlock
    BY <2>1, <2>3 DEF PollUnlock
  <2>4. CASE StopLock
    BY <2>1, <2>4 DEF StopLock
  <2>5. CASE StopFlag
    BY <2>1, <2>5 DEF StopFlag
  <2>6. CASE StopJoin
    BY <2>1, <2>6 DEF StopJoin
  <2> QED
    BY <2>2, <2>3, <2>4, <2>5, <2>6 DEF MainThread
<1>5. Control' /\ DisabledEmpty' /\ SeenStays'
  BY <1>3, <1>4, IInvParts DEF Rest, Control, SourceStopped, DisabledEmpty,
                               SeenStays, Waiting
<1> QED
  BY <1>2, <1>5 DEF IInv, Books

-----------------------------------------------------------------------------
(* EncoderThread up to its loop, and the steps of the loop without muxing. *)

(* The muxers that EncoderThread looks at are those of enabled streams. *)
LEMMA EnabledStreams ==
  ASSUME enabled \in (SUBSET Streams) \ {{}}
  PROVE  /\ FirstStream \in enabled /\ LastStream \in enabled
         /\ \A s \in enabled : s = FirstStream \/ s = LastStream
BY DEF FirstStream, LastStream, Streams, Audio, Video

(* The media source runs, or the process dies. *)
LEMMA RunSourceKeeps ==
  ASSUME IInv, RunSource
  PROVE  IInv'
<1>1. /\ UNCHANGED <<mux_vars, sink, dash_vars, enabled, broken, stream>>
      /\ UNCHANGED <<stop_vars, user_initiated_stop, delivered, pool, got,
                     packets, chunk_vars>>
      /\ thread = "run"
      /\ \/ source' = "running" /\ thread' = "manifest" /\ UNCHANGED crashed
         \/ crashed' = TRUE /\ UNCHANGED <<source, thread>>
  BY DEF RunSource, ThreadStep, Running, dash_vars
<1>2. Books'
  <2>1. ~Ended /\ ~Ending /\ ~Ended' /\ ~Ending' /\ (Begun => Begun')
    BY <1>1 DEF Ended, Ending, Begun
  <2> QED
    BY <1>1, <2>1, QuietStep, IInvParts
<1>3. Control'
  <2>c. /\ pool' \in [Streams -> Nat] /\ packets' \in 0..MaxPackets
        /\ \A s \in Streams : pool'[s] <= delivered[s]
        /\ stream' \in enabled /\ broken' \in BOOLEAN /\ crashed' \in BOOLEAN
        /\ chunk_buffer' \in BOOLEAN /\ chunk_buffer_size' \in Nat
    BY <1>1, IInvParts DEF Rest, Control, chunk_vars
  <2> QED
    BY <1>1, <2>c, IInvParts, ControlStep
<1>4. DisabledEmpty' /\ SeenStays'
  BY <1>1, IInvParts DEF Rest, DisabledEmpty, SeenStays, Waiting, mux_vars
<1> QED
  BY <1>2, <1>3, <1>4 DEF IInv, Books

(* The wait does not end the thread: every pool was seen nonempty, and no  *)
(* one but the encoder takes samples out.                                  *)
LEMMA WaitForSamplesKeeps ==
  ASSUME IInv, WaitForSamples
  PROVE  IInv'
<1>1. /\ UNCHANGED <<mux_vars, sink, dash_vars, enabled, broken, stream>>
      /\ UNCHANGED <<stop_vars, user_initiated_stop, source, delivered, pool,
                     packets, chunk_vars, crashed>>
      /\ thread = "wait"
      /\ \/ thread' = "top" /\ got' = got
         \/ /\ got' = [s \in Streams |-> got[s] \/ pool[s] > 0]
            /\ \/ \E s \in Streams : ~got'[s] /\ thread' = "wait"
               \/ /\ \A s \in Streams : got'[s]
                  /\ thread' = IF \A s \in enabled : pool[s] > 0 THEN "top"
                               ELSE "done"
  BY DEF WaitForSamples, ThreadStep, Running, dash_vars
<1>2. /\ \A s \in Streams : got[s] => s \notin enabled \/ pool[s] > 0
      /\ enabled \subseteq Streams
      /\ pool \in [Streams -> Nat] /\ got \in [Streams -> BOOLEAN]
  BY <1>1, IInvParts DEF Rest, SeenStays, Waiting, Control
<1>3. /\ \A s \in Streams : got'[s] => s \notin enabled \/ pool[s] > 0
      /\ got' \in [Streams -> BOOLEAN]
  <2>1. CASE got' = got
    BY <1>2, <2>1
  <2>2. CASE got' = [s \in Streams |-> got[s] \/ pool[s] > 0]
    BY <1>2, <2>2
  <2> QED
    BY <1>1, <2>1, <2>2
<1>4. thread' \in {"top", "wait"}
  <2>1. CASE /\ \A s \in Streams : got'[s]
             /\ thread' = IF \A s \in enabled : pool[s] > 0 THEN "top"
                          ELSE "done"
    <3>1. \A s \in enabled : pool[s] > 0
      BY <1>2, <1>3, <2>1
    <3> QED
      BY <2>1, <3>1
  <2> QED
    BY <1>1, <2>1
<1>5. Books'
  <2>1. ~Ended /\ ~Ending /\ ~Ended' /\ ~Ending' /\ (Begun => Begun')
    BY <1>1, <1>4 DEF Ended, Ending, Begun
  <2> QED
    BY <1>1, <2>1, QuietStep, IInvParts
<1>6. Control'
  BY <1>1, <1>3, <1>4, IInvParts DEF Rest, Control, SourceStopped, stop_vars,
                                     chunk_vars
<1>7. DisabledEmpty' /\ SeenStays'
  BY <1>1, <1>3, IInvParts DEF Rest, DisabledEmpty, SeenStays, Waiting,
                               mux_vars
<1> QED
  BY <1>5, <1>6, <1>7 DEF IInv, Books

(* The loop goes on, or the streams begin to end, with nothing lost of     *)
(* any yet.                                                                *)
LEMMA LoopTopKeeps ==
  ASSUME IInv, LoopTop
  PROVE  IInv'
<1>1. /\ UNCHANGED <<mux_vars, sink, dash_vars, enabled, broken>>
      /\ UNCHANGED <<stop_vars, source, delivered, pool, got, packets,
                     chunk_vars, crashed>>
      /\ thread = "top" /\ thread' \in {"finalize", "status"}
      /\ stream' = FirstStream
      /\ user_initiated_stop' \in BOOLEAN
  <2>1. StopRequested \in BOOLEAN
    BY IInvParts DEF StopRequested, Rest, Control
  <2> QED
    BY <2>1 DEF LoopTop, ThreadStep, Running, dash_vars, capture_vars
<1>2. enabled \in (SUBSET Streams) \ {{}} /\ FirstStream \in enabled
  BY EnabledStreams, IInvParts DEF Rest, Control
<1>3. Control'
  BY <1>1, <1>2, IInvParts DEF Rest, Control, SourceStopped, stop_vars,
                               chunk_vars
<1>4. DisabledEmpty' /\ SeenStays'
  BY <1>1, IInvParts DEF Rest, DisabledEmpty, SeenStays, Waiting, mux_vars
<1>5. CASE thread' = "status"
  <2>1. ~Ended /\ ~Ending /\ ~Ended' /\ ~Ending' /\ (Begun => Begun')
    BY <1>1, <1>5 DEF Ended, Ending, Begun
  <2>2. Books'
    BY <1>1, <2>1, QuietStep, IInvParts
  <2> QED
    BY <1>3, <1>4, <2>2 DEF IInv, Books
<1>6. CASE thread' = "finalize"
  <2>1. Muxing' /\ Sent' /\ \A m \in Streams : Whole(m) => Whole(m)'
    BY <1>1, NothingMuxed DEF IInv, dash_vars
  <2>2. ~Ended /\ ~Ending
    BY <1>1 DEF Ended, Ending
  <2>3. FirstStream' = FirstStream
    BY <1>1 DEF FirstStream
  <2>4. WholeUntilOver'
    BY <2>1, <2>2 DEF WholeUntilOver, IInv
  <2>5. CutInside' /\ EndReached'
    BY <1>1, <1>6, <2>3 DEF CutInside, EndReached, Ended, Ending
  <2>6. ManifestFirst'
    <3>1. NotReady' = NotReady /\ Ready' = Ready /\ ManifestId' = ManifestId
      BY <1>1 DEF NotReady, Ready, ManifestId, AdaptationSet, ChunkPattern,
                  InitializationPattern, dash_vars
    <3> QED
      BY <1>1, <1>6, <3>1 DEF IInv, ManifestFirst, WriteManifest, dash_vars
  <2> QED
    BY <1>3, <1>4, <2>1, <2>4, <2>5, <2>6 DEF IInv
<1> QED
  BY <1>1, <1>5, <1>6

(* A lost device ends the loop. *)
LEMMA CheckStatusKeeps ==
  ASSUME IInv, CheckStatus
  PROVE  IInv'
<1>1. /\ UNCHANGED <<mux_vars, sink, dash_vars, enabled, stream>>
      /\ UNCHANGED <<stop_vars, user_initiated_stop, source, delivered, pool,
                     got, packets, chunk_vars, crashed>>
      /\ thread = "status"
      /\ \/ thread' = "encode_audio" /\ broken' = broken
         \/ thread' = "stop_source" /\ broken' = TRUE
  BY DEF CheckStatus, Break, ThreadStep, Running, dash_vars, capture_vars
<1>2. Books'
  <2>1. /\ ~Ended /\ ~Ending /\ (Begun => Begun') /\ (broken => broken')
        /\ \/ ~Ended' /\ ~Ending'
           \/ broken' /\ thread' = "stop_source"
    BY <1>1 DEF Ended, Ending, Begun
  <2> QED
    BY <1>1, <2>1, QuietStep, IInvParts
<1>3. Control'
  <2>c. /\ pool' \in [Streams -> Nat] /\ packets' \in 0..MaxPackets
        /\ \A s \in Streams : pool'[s] <= delivered[s]
        /\ stream' \in enabled /\ broken' \in BOOLEAN /\ crashed' \in BOOLEAN
        /\ chunk_buffer' \in BOOLEAN /\ chunk_buffer_size' \in Nat
    BY <1>1, IInvParts DEF Rest, Control, chunk_vars
  <2> QED
    BY <1>1, <2>c, IInvParts, ControlStep
<1>4. DisabledEmpty' /\ SeenStays'
  BY <1>1, IInvParts DEF Rest, DisabledEmpty, SeenStays, Waiting, mux_vars
<1> QED
  BY <1>2, <1>3, <1>4 DEF IInv, Books

(* The thread ends, with the media source stopped. *)
LEMMA StopSourceKeeps ==
  ASSUME IInv, StopSource
  PROVE  IInv'
<1>1. /\ UNCHANGED <<mux_vars, sink, dash_vars, enabled, stream, broken>>
      /\ UNCHANGED <<stop_vars, user_initiated_stop, delivered, pool,
                     got, packets, chunk_vars, crashed>>
      /\ thread = "stop_source" /\ thread' = "done" /\ source' = "stopped"
  BY DEF StopSource, ThreadStep, Running, dash_vars
<1>2. Muxing' /\ Sent' /\ \A m \in Streams : Whole(m) => Whole(m)'
  BY <1>1, NothingMuxed DEF IInv, dash_vars
<1>3. WholeUntilOver' /\ CutInside' /\ EndReached'
  BY <1>1, <1>2 DEF IInv, WholeUntilOver, CutInside, EndReached, Ended,
                    Ending, mux_vars
<1>4. ManifestFirst'
  <2>1. NotReady' = NotReady /\ Ready' = Ready /\ ManifestId' = ManifestId
    BY <1>1 DEF NotReady, Ready, ManifestId, AdaptationSet, ChunkPattern,
                InitializationPattern, dash_vars
  <2> QED
    BY <1>1, <2>1 DEF IInv, ManifestFirst, WriteManifest, dash_vars
<1>5. Control'
  BY <1>1, IInvParts DEF Rest, Control, SourceStopped, stop_vars, chunk_vars
<1>6. DisabledEmpty' /\ SeenStays'
  BY <1>1, IInvParts DEF Rest, DisabledEmpty, SeenStays, Waiting, mux_vars
<1> QED
  BY <1>2, <1>3, <1>4, <1>5, <1>6 DEF IInv

(* The manifest, if it can be made and sent, is the first entry. *)
LEMMA SendManifestKeeps ==
  ASSUME IInv, SendManifest
  PROVE  IInv'
<1> DEFINE e == [id |-> ManifestId, chunk |-> WriteManifest(dash_writer')]
<1>1. /\ UNCHANGED <<mux_vars, dash_name, enabled, stream>>
      /\ UNCHANGED <<stop_vars, user_initiated_stop, source, delivered, pool,
                     got, packets, chunk_vars>>
      /\ thread = "manifest" /\ thread' \in {"manifest", "wait"}
      /\ broken => broken'
      /\ \/ sink' = sink
         \/ sink' = Append(sink, e) /\ thread' = "wait"
      /\ thread' = "manifest" => sink' = sink /\ dash_writer' = dash_writer
      /\ \/ dash_writer' = dash_writer
         \/ dash_writer' = [initialized |-> TRUE,
                            sets |-> [m \in enabled |-> AdaptationSet(m)]]
      /\ broken' \in BOOLEAN /\ crashed' \in BOOLEAN
  <2>1. /\ UNCHANGED <<mux_vars, dash_name, enabled, stream>>
        /\ UNCHANGED <<stop_vars, user_initiated_stop, source, delivered,
                       pool, got, packets, chunk_vars>>
        /\ thread = "manifest"
    BY DEF SendManifest, Running, capture_vars
  <2>2. broken \in BOOLEAN /\ crashed \in BOOLEAN
    BY IInvParts DEF Rest, Control
  <2>3. CASE /\ crashed' = TRUE
             /\ UNCHANGED <<dash_writer, sink, broken, thread>>
    BY <2>1, <2>2, <2>3
  <2>4. CASE /\ InitDashWriter(enabled)
             /\ \/ /\ sink' = Append(sink, e)
                   /\ UNCHANGED broken
                \/ broken' = TRUE /\ UNCHANGED sink
             /\ thread' = "wait"
             /\ UNCHANGED crashed
    <3>1. \/ dash_writer' = dash_writer
          \/ dash_writer' = [initialized |-> TRUE,
                             sets |-> [m \in enabled |-> AdaptationSet(m)]]
      BY <2>4 DEF InitDashWriter
    <3>2. broken' \in BOOLEAN /\ (broken => broken') /\ crashed' \in BOOLEAN
      <4>1. CASE broken' = broken
        BY <2>2, <2>4, <4>1
      <4>2. CASE broken' = TRUE
        BY <2>2, <2>4, <4>2
      <4> QED
        BY <2>4, <4>1, <4>2
    <3>3. \/ sink' = sink
          \/ sink' = Append(sink, e) /\ thread' = "wait"
      BY <2>4
    <3>4. thread' \in {"manifest", "wait"} /\ thread' # "manifest"
      BY <2>4
    <3> QED
      BY <2>1, <3>1, <3>2, <3>3, <3>4
  <2> QED
    BY <2>3, <2>4 DEF SendManifest, ManifestId
<1>2. /\ NotReady' = NotReady /\ Ready' = Ready /\ ManifestId' = ManifestId
      /\ FirstStream' = FirstStream
  BY <1>1 DEF NotReady, Ready, ManifestId, AdaptationSet, ChunkPattern,
              InitializationPattern, FirstStream
<1>3. sink = <<>> /\ dash_writer = NotReady
  BY <1>1 DEF IInv, ManifestFirst
<1>4. dash_writer' \in {NotReady, Ready}
  BY <1>1, <1>3 DEF Ready
<1>5. ~Ended /\ ~Ending /\ ~Ended' /\ ~Ending'
  BY <1>1 DEF Ended, Ending
<1>6. Muxing' /\ Sent' /\ \A m \in Streams : Whole(m) => Whole(m)'
  <2>1. CASE sink' = sink
    BY <1>1, <2>1, NothingMuxed DEF IInv
  <2>2. CASE sink' = Append(sink, e)
    <3>1. \A m \in Streams : StreamOK(m)
      BY StreamsOK DEF IInv
    <3>2. \A m \in Streams : ~IsChunkOf(m, e)
      <4>1. e.id = ManifestId
        OBVIOUS
      <4>2. Len(ManifestId) = 2
        BY DEF ManifestId
      <4> HIDE DEF e
      <4> QED
        BY <4>1, <4>2 DEF IsChunkOf
    <3>3. sink \in Seq(Range(sink))
      BY DEF IInv, Sent
    <3>4. /\ buffer_' = buffer_ /\ written' = written
          /\ chunk_end_' = chunk_end_ /\ chunks_read_' = chunks_read_
      BY <1>1 DEF mux_vars
    <3> HIDE DEF e
    <3>5. ASSUME NEW m \in Streams
          PROVE  StreamOK(m)' /\ (Whole(m) => Whole(m)')
      BY <1>1, <2>2, <3>1, <3>2, <3>3, <3>4, OtherSunk
    <3>6. (sink \in Seq(Range(sink)))'
      BY <2>2, <3>3, RangeAppend
    <3>7. (/\ buffer_ \in [Streams -> Seq(Nat)]
           /\ written \in [Streams -> Seq(Kinds)]
           /\ chunk_end_ \in [Streams -> Nat]
           /\ chunks_read_ \in [Streams -> Nat])'
      BY <3>4 DEF IInv, Muxing
    <3> QED
      BY <3>5, <3>6, <3>7 DEF Muxing, Sent, StreamOK
  <2> QED
    BY <1>1, <2>1, <2>2
<1>7. WholeUntilOver' /\ CutInside' /\ EndReached'
  <2>1. WholeUntilOver'
    BY <1>5, <1>6 DEF IInv, WholeUntilOver
  <2>2. CutInside'
    BY <1>1, <1>5 DEF IInv, CutInside, mux_vars
  <2>3. EndReached'
    BY <1>5 DEF EndReached, Ended, Ending
  <2> QED
    BY <2>1, <2>2, <2>3
<1>8. ManifestFirst'
  <2>1. CASE sink' = sink
    BY <1>1, <1>2, <1>3, <1>4, <2>1 DEF ManifestFirst
  <2>2. CASE sink' = Append(sink, e) /\ thread' = "wait"
    <3>1. sink' = <<e>>
      BY <1>3, <2>2
    <3>2. e.id = ManifestId /\ e.chunk = WriteManifest(dash_writer')
      OBVIOUS
    <3> HIDE DEF e
    <3>3. Len(sink') = 1 /\ sink'[1] = e /\ \A i \in 1..Len(sink') : i = 1
      BY <3>1
    <3>4. WriteManifest(dash_writer)' = WriteManifest(dash_writer')
      BY DEF WriteManifest
    <3> QED
      BY <1>2, <1>4, <2>2, <3>2, <3>3, <3>4 DEF ManifestFirst
  <2> QED
    BY <1>1, <2>1, <2>2
<1>9. Control'
  BY <1>1, IInvParts DEF Rest, Control, SourceStopped, stop_vars, chunk_vars
<1>10. DisabledEmpty' /\ SeenStays'
  BY <1>1, IInvParts DEF Rest, DisabledEmpty, SeenStays, Waiting, mux_vars
<1> QED
  BY <1>6, <1>7, <1>8, <1>9, <1>10 DEF IInv

(* One sample is taken out of a pool. *)
LEMMA SampleTaken ==
  ASSUME IInv, NEW s \in Streams, pool[s] > 0,
         pool' = [pool EXCEPT ![s] = @ - 1], delivered' = delivered
  PROVE  /\ pool' \in [Streams -> Nat]
         /\ \A t \in Streams : pool'[t] <= delivered'[t]
         /\ \A t \in Streams : pool[t] = 0 => pool'[t] = 0
         /\ s \in enabled
<1>1. /\ pool \in [Streams -> Nat] /\ delivered \in [Streams -> 0..MaxSamples]
      /\ \A t \in Streams : pool[t] <= delivered[t]
      /\ \A t \in Streams \ enabled : pool[t] = 0
  BY IInvParts DEF Rest, Control, DisabledEmpty
<1>2. pool[s] - 1 \in Nat /\ pool[s] # 0 /\ pool[s] - 1 <= delivered[s]
  BY <1>1
<1>3. /\ pool'[s] = pool[s] - 1
      /\ \A t \in Streams : t # s => pool'[t] = pool[t]
  BY <1>1
<1>4. pool' \in [Streams -> Nat]
  BY <1>1, <1>2
<1> QED
  BY <1>1, <1>2, <1>3, <1>4

(* An audio buffer goes to the vorbis encoder. *)
LEMMA EncodeAudioBufferKeeps ==
  ASSUME IInv, EncodeAudioBuffer
  PROVE  IInv'
<1>1. /\ UNCHANGED <<mux_vars, sink, dash_vars, enabled, stream>>
      /\ UNCHANGED <<stop_vars, user_initiated_stop, source, delivered, got,
                     chunk_vars, crashed>>
      /\ thread = "encode_audio"
      /\ \/ thread' = "read_audio" /\ broken' = broken
         \/ thread' = "stop_source" /\ broken' = TRUE
      /\ \/ /\ pool[Audio] > 0 /\ pool' = [pool EXCEPT ![Audio] = @ - 1]
            /\ packets' \in packets..MaxPackets \/ packets' = packets
         \/ pool' = pool /\ packets' = packets
  BY DEF EncodeAudioBuffer, Break, ThreadStep, Running, dash_vars
<1>2. Audio \in Streams /\ packets \in 0..MaxPackets
  BY IInvParts DEF Streams, Rest, Control
<1>3. /\ pool' \in [Streams -> Nat] /\ packets' \in 0..MaxPackets
      /\ \A t \in Streams : pool'[t] <= delivered'[t]
      /\ \A t \in Streams : pool[t] = 0 => pool'[t] = 0
      /\ Audio \notin enabled => packets' = packets
  <2>1. CASE /\ pool[Audio] > 0 /\ pool' = [pool EXCEPT ![Audio] = @ - 1]
             /\ packets' \in packets..MaxPackets \/ packets' = packets
    <3>1. packets' \in 0..MaxPackets
      BY <1>2, <2>1
    <3> QED
      BY <1>1, <1>2, <2>1, <3>1, SampleTaken
  <2>2. CASE pool' = pool /\ packets' = packets
    BY <1>1, <1>2, <2>2, IInvParts DEF Rest, Control
  <2> QED
    BY <1>1, <2>1, <2>2
<1>4. Books'
  <2>1. /\ ~Ended /\ ~Ending /\ (Begun => Begun') /\ (broken => broken')
        /\ \/ ~Ended' /\ ~Ending'
           \/ broken' /\ thread' = "stop_source"
    BY <1>1 DEF Ended, Ending, Begun
  <2> QED
    BY <1>1, <2>1, QuietStep, IInvParts
<1>5. Control'
  <2>c. /\ pool' \in [Streams -> Nat] /\ packets' \in 0..MaxPackets
        /\ \A s \in Streams : pool'[s] <= delivered[s]
        /\ stream' \in enabled /\ broken' \in BOOLEAN /\ crashed' \in BOOLEAN
        /\ chunk_buffer' \in BOOLEAN /\ chunk_buffer_size' \in Nat
    BY <1>1, <1>3, IInvParts DEF Rest, Control, chunk_vars
  <2> QED
    BY <1>1, <1>3, <2>c, IInvParts, ControlStep
<1>6. DisabledEmpty'
  BY <1>1, <1>3, IInvParts DEF Rest, DisabledEmpty, mux_vars
<1>7. SeenStays'
  BY <1>1 DEF SeenStays, Waiting
<1> QED
  BY <1>4, <1>5, <1>6, <1>7 DEF IInv, Books

(* A frame is muxed in the loop. *)
LEMMA FrameStep ==
  ASSUME IInv, EncoderAssumption, NEW m \in enabled, NEW b \in BOOLEAN,
         AddFrame(m, b), UNCHANGED <<sink, dash_vars, enabled, broken>>,
         ~Ended, ~Ending, ~Ended', ~Ending', Begun, Begun'
  PROVE  /\ Books'
         /\ \A s \in Streams \ enabled :
              buffer_'[s] = <<>> /\ written'[s] = <<>>
<1>1. m \in Streams
  BY IInvParts DEF Rest, Control
<1>2. \A s \in Streams : /\ buffer_[s] = <<>> => written[s] = <<>>
                         /\ chunk_end_[s] # 0 => chunk_end_[s] < Len(buffer_[s])
  BY DEF IInv, CutInside
<1>3. /\ Muxing' /\ Sent' /\ \A o \in Streams : Whole(o) => Whole(o)'
      /\ buffer_'[m] # <<>>
      /\ chunk_end_'[m] # 0 => chunk_end_'[m] < Len(buffer_'[m])
  <2>1. Muxing /\ Sent /\ dash_name' = dash_name /\ sink' = sink
    BY DEF IInv, dash_vars
  <2> QED
    BY <1>1, <1>2, <2>1, FrameMuxed
<1>4. ASSUME NEW o \in Streams, o # m
      PROVE  /\ buffer_'[o] = buffer_[o] /\ chunk_end_'[o] = chunk_end_[o]
             /\ written'[o] = written[o]
  <2>1. Muxing
    BY DEF IInv
  <2> QED
    BY <1>1, <1>4, <2>1, OthersKept
<1>5. WholeUntilOver'
  BY <1>3 DEF IInv, WholeUntilOver
<1>6. CutInside'
  BY <1>2, <1>3, <1>4 DEF CutInside
<1>7. EndReached'
  BY DEF EndReached, Ended, Ending
<1>8. ManifestFirst'
  <2>1. NotReady' = NotReady /\ Ready' = Ready /\ ManifestId' = ManifestId
    BY DEF NotReady, Ready, ManifestId, AdaptationSet, ChunkPattern,
           InitializationPattern, dash_vars
  <2> QED
    BY <2>1 DEF IInv, ManifestFirst, WriteManifest, Begun, dash_vars
<1>9. \A s \in Streams \ enabled : buffer_'[s] = <<>> /\ written'[s] = <<>>
  BY <1>4, IInvParts DEF Rest, DisabledEmpty
<1> QED
  BY <1>3, <1>5, <1>6, <1>7, <1>8, <1>9 DEF Books

(* A packet is muxed, or the audio loop ends. *)
LEMMA MuxAudioKeeps ==
  ASSUME IInv, EncoderAssumption, MuxAudio
  PROVE  IInv'
<1>1. /\ UNCHANGED <<sink, dash_vars, enabled, stream>>
      /\ UNCHANGED <<stop_vars, user_initiated_stop, source, delivered, pool,
                     got, chunk_vars>>
      /\ thread = "read_audio"
  BY DEF MuxAudio, ThreadStep, Running, dash_vars, capture_vars
<1>2. Audio \in Streams /\ packets \in 0..MaxPackets /\ crashed \in BOOLEAN
  BY IInvParts DEF Streams, Rest, Control
<1>3. ~Ended /\ ~Ending /\ Begun
  BY <1>1 DEF Ended, Ending, Begun
<1>4. SeenStays'
  <2>1. thread' \in {"read_audio", "encode_video", "stop_source", "chunk"}
    BY <1>1 DEF MuxAudio, Break
  <2> QED
    BY <2>1 DEF SeenStays, Waiting
<1>5. CASE /\ packets > 0 /\ packets' = packets - 1
           /\ \E opens_cluster \in BOOLEAN : AddFrame(Audio, opens_cluster)
           /\ thread' \in {"read_audio", "encode_video"}
           /\ UNCHANGED <<broken, crashed>>
  <2>1. PICK b \in BOOLEAN : AddFrame(Audio, b)
    BY <1>5
  <2>2. Audio \in enabled /\ packets' \in 0..MaxPackets
    <3>1. packets # 0 /\ packets - 1 \in 0..MaxPackets
      BY <1>2, <1>5
    <3> QED
      BY <1>5, <3>1, IInvParts DEF Rest, DisabledEmpty
  <2>3. ~Ended' /\ ~Ending' /\ Begun'
    BY <1>5 DEF Ended, Ending, Begun
  <2>4. /\ Books'
        /\ \A s \in Streams \ enabled :
             buffer_'[s] = <<>> /\ written'[s] = <<>>
    BY <1>1, <1>3, <1>5, <2>1, <2>2, <2>3, FrameStep
  <2>5. Control'
    BY <1>1, <1>5, <2>2, IInvParts DEF Rest, Control, SourceStopped,
                                       stop_vars, chunk_vars
  <2>6. DisabledEmpty'
    BY <1>1, <2>2, <2>4, IInvParts DEF Rest, DisabledEmpty
  <2> QED
    BY <1>4, <2>4, <2>5, <2>6 DEF IInv, Books
<1>6. CASE /\ UNCHANGED mux_vars
           /\ packets' = packets \/ (packets > 0 /\ packets' = packets - 1)
           /\ \/ /\ thread' \in {"chunk", "encode_video", "read_audio"}
                 /\ broken' = broken
              \/ thread' = "stop_source" /\ broken' = TRUE
           /\ crashed' \in BOOLEAN
  <2>1. packets' \in 0..MaxPackets /\ (packets = 0 => packets' = 0)
    BY <1>2, <1>6
  <2>2. /\ (Begun => Begun') /\ (broken => broken')
        /\ \/ ~Ended' /\ ~Ending'
           \/ broken' /\ thread' = "stop_source"
    BY <1>1, <1>6 DEF Ended, Ending, Begun
  <2>3. Books'
    BY <1>1, <1>3, <1>6, <2>2, QuietStep, IInvParts
  <2>4. Control'
    <3>c. /\ pool' \in [Streams -> Nat] /\ packets' \in 0..MaxPackets
          /\ \A s \in Streams : pool'[s] <= delivered[s]
          /\ stream' \in enabled /\ broken' \in BOOLEAN /\ crashed' \in BOOLEAN
          /\ chunk_buffer' \in BOOLEAN /\ chunk_buffer_size' \in Nat
      BY <1>1, <1>6, <2>1, IInvParts DEF Rest, Control, chunk_vars
    <3> QED
      BY <1>1, <1>6, <2>1, <3>c, IInvParts, ControlStep
  <2>5. DisabledEmpty'
    BY <1>1, <1>6, <2>1, IInvParts DEF Rest, DisabledEmpty, mux_vars
  <2> QED
    BY <1>4, <2>3, <2>4, <2>5 DEF IInv, Books
<1> QED
  <2>1. CASE /\ packets > 0
             /\ packets' = packets - 1
             /\ \/ /\ \E opens_cluster \in BOOLEAN :
                         AddFrame(Audio, opens_cluster)
                   /\ thread' \in {"read_audio", "encode_video"}
                   /\ UNCHANGED broken
                \/ Break /\ UNCHANGED mux_vars
             /\ UNCHANGED crashed
    <3>1. CASE Break /\ UNCHANGED mux_vars
      BY <1>2, <1>6, <2>1, <3>1 DEF Break
    <3> QED
      BY <1>5, <2>1, <3>1
  <2>2. CASE /\ packets = 0
             /\ thread' = "chunk"
             /\ UNCHANGED <<mux_vars, packets, broken, crashed>>
    BY <1>2, <1>6, <2>2
  <2>3. CASE /\ Audio \in enabled
             /\ thread' = "encode_video"
             /\ UNCHANGED <<mux_vars, packets, broken, crashed>>
    BY <1>2, <1>6, <2>3
  <2>4. CASE /\ Audio \notin enabled
             /\ crashed' = TRUE
             /\ UNCHANGED <<mux_vars, packets, broken, thread>>
    BY <1>1, <1>2, <1>6, <2>4
  <2> QED
    BY <2>1, <2>2, <2>3, <2>4 DEF MuxAudio

(* A frame is muxed, dropped or lost, or there is none. *)
LEMMA EncodeVideoKeeps ==
  ASSUME IInv, EncoderAssumption, EncodeVideo
  PROVE  IInv'
<1>1. /\ UNCHANGED <<sink, dash_vars, enabled, stream>>
      /\ UNCHANGED <<stop_vars, user_initiated_stop, source, delivered,
                     got, packets, chunk_vars, crashed>>
      /\ thread = "encode_video"
  BY DEF EncodeVideo, ThreadStep, Running, dash_vars
<1>2. Video \in Streams
  BY DEF Streams
<1>3. ~Ended /\ ~Ending /\ Begun
  BY <1>1 DEF Ended, Ending, Begun
<1>4. thread' \in {"encode_video", "chunk", "stop_source"}
  BY DEF EncodeVideo, Break
<1>5. SeenStays'
  BY <1>4 DEF SeenStays, Waiting
<1>6. ASSUME pool[Video] > 0, pool' = [pool EXCEPT ![Video] = @ - 1]
      PROVE  /\ pool' \in [Streams -> Nat]
             /\ \A t \in Streams : pool'[t] <= delivered'[t]
             /\ \A t \in Streams : pool[t] = 0 => pool'[t] = 0
             /\ Video \in enabled
  <2>1. delivered' = delivered
    BY <1>1
  <2> QED
    BY <1>2, <1>6, <2>1, SampleTaken
<1>7. CASE /\ pool[Video] > 0 /\ pool' = [pool EXCEPT ![Video] = @ - 1]
           /\ \E opens_cluster \in BOOLEAN : AddFrame(Video, opens_cluster)
           /\ thread' \in {"encode_video", "chunk"}
           /\ broken' = broken
  <2>1. PICK b \in BOOLEAN : AddFrame(Video, b)
    BY <1>7
  <2>2. ~Ended' /\ ~Ending' /\ Begun'
    BY <1>7 DEF Ended, Ending, Begun
  <2>3. /\ Books'
        /\ \A s \in Streams \ enabled :
             buffer_'[s] = <<>> /\ written'[s] = <<>>
    BY <1>1, <1>3, <1>6, <1>7, <2>1, <2>2, FrameStep
  <2>4. Control'
    BY <1>1, <1>6, <1>7, IInvParts DEF Rest, Control, SourceStopped,
                                       stop_vars, chunk_vars
  <2>5. DisabledEmpty'
    BY <1>1, <1>6, <1>7, <2>3, IInvParts DEF Rest, DisabledEmpty
  <2> QED
    BY <1>5, <2>3, <2>4, <2>5 DEF IInv, Books
<1>8. CASE /\ UNCHANGED mux_vars
           /\ \/ pool[Video] > 0 /\ pool' = [pool EXCEPT ![Video] = @ - 1]
              \/ pool' = pool
           /\ \/ thread' \in {"encode_video", "chunk"} /\ broken' = broken
              \/ thread' = "stop_source" /\ broken' = TRUE
  <2>1. /\ pool' \in [Streams -> Nat]
        /\ \A t \in Streams : pool'[t] <= delivered'[t]
        /\ \A t \in Streams : pool[t] = 0 => pool'[t] = 0
    <3>1. CASE pool' = pool
      BY <1>1, <3>1, IInvParts DEF Rest, Control
    <3> QED
      BY <1>6, <1>8, <3>1
  <2>2. /\ (Begun => Begun') /\ (broken => broken')
        /\ \/ ~Ended' /\ ~Ending'
           \/ broken' /\ thread' = "stop_source"
    BY <1>1, <1>8 DEF Ended, Ending, Begun
  <2>3. Books'
    BY <1>1, <1>3, <1>8, <2>2, QuietStep, IInvParts
  <2>4. Control'
    <3>c. /\ pool' \in [Streams -> Nat] /\ packets' \in 0..MaxPackets
          /\ \A s \in Streams : pool'[s] <= delivered[s]
          /\ stream' \in enabled /\ broken' \in BOOLEAN /\ crashed' \in BOOLEAN
          /\ chunk_buffer' \in BOOLEAN /\ chunk_buffer_size' \in Nat
      BY <1>1, <1>4, <1>8, <2>1, IInvParts DEF Rest, Control, chunk_vars
    <3> QED
      BY <1>1, <1>4, <1>8, <2>1, <3>c, IInvParts, ControlStep
  <2>5. DisabledEmpty'
    BY <1>1, <1>8, <2>1, IInvParts DEF Rest, DisabledEmpty, mux_vars
  <2> QED
    BY <1>5, <2>3, <2>4, <2>5 DEF IInv, Books
<1>9. CASE pool[Video] > 0
  <2>1. pool' = [pool EXCEPT ![Video] = @ - 1]
    BY <1>9 DEF EncodeVideo
  <2>2. CASE Break /\ UNCHANGED mux_vars
    BY <1>8, <1>9, <2>1, <2>2 DEF Break
  <2>3. CASE /\ \/ \E opens_cluster \in BOOLEAN :
                     AddFrame(Video, opens_cluster)
                \/ UNCHANGED mux_vars
             /\ thread' \in IF pool'[Video] > 0
                            THEN {"encode_video", "chunk"} ELSE {"chunk"}
             /\ UNCHANGED broken
    BY <1>7, <1>8, <1>9, <2>1, <2>3
  <2> QED
    BY <1>9, <2>2, <2>3 DEF EncodeVideo
<1>10. CASE ~(pool[Video] > 0)
  BY <1>8, <1>10 DEF EncodeVideo
<1> QED
  BY <1>9, <1>10

-----------------------------------------------------------------------------
(* Chunks are written and the streams end. *)

(* A ready chunk is named and read, if there is room for it, and passed to *)
(* the sink, if all goes well.                                             *)
LEMMA ChunkWritten ==
  ASSUME IInv, EncoderAssumption, NEW m \in Streams, NEW ok \in BOOLEAN,
         Whole(m), ChunkReady(m), CanName, WriteChunk(m, ok),
         UNCHANGED <<dash_vars, enabled>>, Begun'
  PROVE  /\ Muxing' /\ Sent' /\ ManifestFirst'
         /\ \A o \in Streams : o # m /\ Whole(o) => Whole(o)'
         /\ ok => Whole(m)' /\ EraseChunk(m)
         /\ EraseChunk(m) \/ UNCHANGED mux_vars
         /\ \A s \in Streams \ enabled :
              buffer_'[s] = <<>> /\ written'[s] = <<>>
         /\ chunk_buffer' \in BOOLEAN /\ chunk_buffer_size' \in Nat
<1> DEFINE e == Entry(m)
<1>1. Muxing /\ Sent /\ dash_name' = dash_name /\ chunk_end_[m] \in Nat
      /\ chunks_read_[m] \in Nat
  BY DEF IInv, Muxing, dash_vars
<1>2. chunk_buffer' \in BOOLEAN /\ chunk_buffer_size' \in Nat
  <2>1. chunk_buffer \in BOOLEAN /\ chunk_buffer_size \in Nat
    BY IInvParts DEF Rest, Control
  <2>2. 2 * chunk_end_[m] \in Nat
    BY <1>1
  <2>3. \/ UNCHANGED chunk_vars
        \/ chunk_buffer' = TRUE /\ chunk_buffer_size' = 2 * chunk_end_[m]
        \/ chunk_buffer' = FALSE /\ UNCHANGED chunk_buffer_size
    BY DEF WriteChunk, GrowChunkBuffer
  <2> QED
    BY <2>1, <2>2, <2>3 DEF chunk_vars
<1>3. \/ EraseChunk(m) /\ sink' = IF ok THEN Append(sink, e) ELSE sink
      \/ ~ok /\ UNCHANGED <<mux_vars, sink>>
  BY DEF WriteChunk
<1>4. /\ Muxing' /\ Sent'
      /\ \A o \in Streams : o # m /\ Whole(o) => Whole(o)'
      /\ ok => Whole(m)' /\ EraseChunk(m)
  <2>1. CASE EraseChunk(m) /\ sink' = IF ok THEN Append(sink, e) ELSE sink
    BY <1>1, <2>1, ChunkMoved
  <2>2. CASE ~ok /\ UNCHANGED <<mux_vars, sink>>
    BY <1>1, <2>2, NothingMuxed
  <2> QED
    BY <1>3, <2>1, <2>2
<1>5. ManifestFirst'
  <2>1. NotReady' = NotReady /\ Ready' = Ready /\ ManifestId' = ManifestId
    BY DEF NotReady, Ready, ManifestId, AdaptationSet, ChunkPattern,
           InitializationPattern, dash_vars
  <2>2. dash_writer = Ready /\ dash_writer' = dash_writer
    BY DEF IInv, ManifestFirst, CanName, NotReady, dash_vars
  <2>3. CASE sink' = sink
    BY ZenonT(60), <1>1, <2>1, <2>2, <2>3
       DEF IInv, ManifestFirst, WriteManifest, Begun
  <2>4. CASE sink' = Append(sink, e)
    <3>1. Len(e.id) > 2
      BY <1>1, EntryNamed
    <3>2. sink \in Seq(Range(sink))
      BY <1>1 DEF Sent
    <3> DEFINE n == Len(sink)
    <3>3. /\ Len(sink') = n + 1 /\ n \in Nat
          /\ \A i \in 1..n : sink'[i] = sink[i]
          /\ sink'[n + 1] = e
      <4> HIDE DEF e
      <4>1. sink \in Seq(Range(Append(sink, e))) /\ e \in Range(Append(sink, e))
        BY <3>2, RangeAppend
      <4> QED
        BY <2>4, <4>1, AppendProperties, LenProperties
    <3> HIDE DEF e, n
    <3>4. ASSUME NEW i \in 1..(n + 1)
          PROVE  \/ /\ i = 1 /\ sink'[1].id = ManifestId
                    /\ sink'[1].chunk = WriteManifest(dash_writer)
                 \/ Len(sink'[i].id) > 2 /\ dash_writer = Ready
      <4>1. CASE i \in 1..n
        BY <3>3, <4>1 DEF IInv, ManifestFirst, n
      <4>2. CASE i \notin 1..n
        <5>1. i = n + 1
          BY <3>3, <4>2
        <5> QED
          BY <2>2, <3>1, <3>3, <5>1
      <4> QED
        BY <4>1, <4>2
    <3>5. \A i \in 1..Len(sink') :
            \/ /\ i = 1 /\ sink'[1].id = ManifestId'
               /\ sink'[1].chunk = WriteManifest(dash_writer)'
            \/ Len(sink'[i].id) > 2 /\ dash_writer' = Ready'
      BY <2>1, <2>2, <3>3, <3>4 DEF WriteManifest
    <3> QED
      BY <2>1, <2>2, <3>5 DEF ManifestFirst, Begun
  <2> QED
    BY <1>3, <2>3, <2>4
<1>6. \A s \in Streams \ enabled : buffer_'[s] = <<>> /\ written'[s] = <<>>
  <2>1. m \in enabled
    <3>1. chunk_end_[m] # 0 /\ chunk_end_[m] <= Len(buffer_[m])
      BY <1>1 DEF ChunkReady, Muxing, Aligned
    <3>2. buffer_[m] # <<>>
      BY <1>1, <3>1
    <3> QED
      BY <3>2, IInvParts DEF Rest, DisabledEmpty
  <2>2. CASE EraseChunk(m)
    <3>1. ASSUME NEW s \in Streams \ enabled
          PROVE  buffer_'[s] = buffer_[s] /\ written'[s] = written[s]
      BY <1>1, <2>1, <2>2, OthersKept
    <3> QED
      BY <3>1, IInvParts DEF Rest, DisabledEmpty
  <2>3. CASE UNCHANGED mux_vars
    BY <2>3, IInvParts DEF Rest, DisabledEmpty, mux_vars
  <2> QED
    BY <1>3, <2>2, <2>3
<1> QED
  BY <1>2, <1>3, <1>4, <1>5, <1>6

(* What is left behind a chunk, and the other stream. *)
LEMMA ChunkErased ==
  ASSUME IInv, NEW m \in Streams, ChunkReady(m), EraseChunk(m)
  PROVE  /\ chunk_end_'[m] = 0 /\ written' = written
         /\ chunk_end_[m] = Len(buffer_[m]) => buffer_'[m] = <<>>
         /\ chunk_end_[m] < Len(buffer_[m]) => buffer_'[m] # <<>>
         /\ \A o \in Streams : o # m => /\ buffer_'[o] = buffer_[o]
                                        /\ chunk_end_'[o] = chunk_end_[o]
<1>1. Muxing /\ StreamOK(m)
  BY StreamsOK DEF IInv
<1>2. /\ Taken(buffer_[m], chunk_end_[m], chunks_read_[m], written[m],
               Chunk(m), buffer_'[m])
      /\ chunk_end_'[m] = 0 /\ written' = written
  BY <1>1, ChunkTaken
<1>3. ASSUME NEW o \in Streams, o # m
      PROVE  buffer_'[o] = buffer_[o] /\ chunk_end_'[o] = chunk_end_[o]
  BY <1>1, <1>3, OthersKept
<1> QED
  BY <1>2, <1>3 DEF Taken

(* A chunk that is ready is taken in the loop, or the loop is left. *)
LEMMA WriteMuxerChunkKeeps ==
  ASSUME IInv, EncoderAssumption, WriteMuxerChunkToDataSink
  PROVE  IInv'
<1>1. /\ UNCHANGED <<dash_vars, enabled>>
      /\ UNCHANGED <<stop_vars, user_initiated_stop, source, delivered, pool,
                     got, packets>>
      /\ thread = "chunk"
  BY DEF WriteMuxerChunkToDataSink, ThreadStep, Running, dash_vars,
         capture_vars
<1>2. /\ stream \in Streams /\ enabled \in (SUBSET Streams) \ {{}}
      /\ stream \in enabled /\ broken \in BOOLEAN /\ crashed \in BOOLEAN
      /\ FirstStream \in enabled /\ LastStream \in enabled
  BY EnabledStreams, IInvParts DEF Rest, Control
<1>0. PICK m \in Streams : m = stream
  BY <1>2
<1>3. ~Ended /\ ~Ending /\ Begun
  BY <1>1 DEF Ended, Ending, Begun
<1>4. \A o \in Streams :
        /\ Whole(o)
        /\ buffer_[o] = <<>> => written[o] = <<>>
        /\ chunk_end_[o] # 0 => chunk_end_[o] < Len(buffer_[o])
  BY <1>3 DEF IInv, WholeUntilOver, CutInside
<1>5. thread' \in {"chunk", "top", "stop_source"}
  BY <1>1 DEF WriteMuxerChunkToDataSink, NextMuxer, NameFails, Break
<1>6. SeenStays'
  BY <1>5 DEF SeenStays, Waiting
<1>7. ASSUME UNCHANGED <<mux_vars, sink, chunk_vars>>, stream' \in enabled,
             crashed' \in BOOLEAN, broken' = broken, thread' # "stop_source"
      PROVE  IInv'
  <2>1. ~Ended' /\ ~Ending' /\ Begun'
    BY <1>5, <1>7 DEF Ended, Ending, Begun
  <2>2. Books'
    BY <1>1, <1>3, <1>7, <2>1, QuietStep, IInvParts
  <2>3. Control'
    BY <1>1, <1>5, <1>7, IInvParts DEF Rest, Control, SourceStopped,
                                       stop_vars, chunk_vars
  <2>4. DisabledEmpty'
    BY <1>1, <1>7, IInvParts DEF Rest, DisabledEmpty, mux_vars
  <2> QED
    BY <1>6, <2>2, <2>3, <2>4 DEF IInv, Books
<1>8. ASSUME ChunkReady(m), CanName, NEW ok \in BOOLEAN,
             WriteChunk(m, ok), crashed' = crashed, stream' \in enabled,
             \/ ok /\ broken' = broken /\ thread' # "stop_source"
             \/ broken' = TRUE /\ thread' = "stop_source"
      PROVE  IInv'
  <2>1. Begun'
    BY <1>5 DEF Begun
  <2>2. /\ Muxing' /\ Sent' /\ ManifestFirst'
        /\ \A o \in Streams : o # m /\ Whole(o) => Whole(o)'
        /\ ok => Whole(m)' /\ EraseChunk(m)
        /\ \A s \in Streams \ enabled :
             buffer_'[s] = <<>> /\ written'[s] = <<>>
        /\ chunk_buffer' \in BOOLEAN /\ chunk_buffer_size' \in Nat
    BY <1>1, <1>2, <1>4, <1>8, <2>1, ChunkWritten
  <2>3. WholeUntilOver' /\ CutInside' /\ EndReached' /\ broken' \in BOOLEAN
    <3>1. CASE ok /\ broken' = broken /\ thread' # "stop_source"
      <4>1. ~Ended' /\ ~Ending'
        BY <1>5, <3>1 DEF Ended, Ending
      <4>2. \A o \in Streams : Whole(o)'
        BY <1>4, <2>2, <3>1
      <4>3. chunk_end_[m] \in Nat
        BY <1>2 DEF IInv, Muxing
      <4>4. chunk_end_[m] < Len(buffer_[m])
        BY <1>2, <1>4, <1>8, <4>3 DEF ChunkReady
      <4>5. /\ chunk_end_'[m] = 0 /\ written' = written
            /\ buffer_'[m] # <<>>
            /\ \A o \in Streams : o # m =>
                 /\ buffer_'[o] = buffer_[o] /\ chunk_end_'[o] = chunk_end_[o]
        BY <1>2, <1>8, <2>2, <3>1, <4>4, ChunkErased
      <4>6. CutInside'
        BY <1>4, <4>5 DEF CutInside
      <4> QED
        <5>1. WholeUntilOver' /\ EndReached'
          BY <1>5, <4>1, <4>2 DEF WholeUntilOver, EndReached, Ended, Ending
        <5> QED
          BY <1>2, <3>1, <4>6, <5>1
    <3>2. CASE broken' = TRUE /\ thread' = "stop_source"
      BY <3>2 DEF WholeUntilOver, CutInside, EndReached, Ended, Ending
    <3> QED
      BY <1>8, <3>1, <3>2
  <2>4. Control'
    <3>c. /\ pool' \in [Streams -> Nat] /\ packets' \in 0..MaxPackets
          /\ \A s \in Streams : pool'[s] <= delivered[s]
          /\ stream' \in enabled /\ broken' \in BOOLEAN /\ crashed' \in BOOLEAN
          /\ chunk_buffer' \in BOOLEAN /\ chunk_buffer_size' \in Nat
      BY <1>1, <1>5, <1>8, <2>2, <2>3, IInvParts DEF Rest, Control, chunk_vars
    <3> QED
      BY <1>1, <1>5, <1>8, <2>2, <2>3, <3>c, IInvParts, ControlStep
  <2>5. DisabledEmpty'
    BY <1>1, <2>2, IInvParts DEF Rest, DisabledEmpty
  <2> QED
    BY <1>6, <2>2, <2>3, <2>4, <2>5 DEF IInv
<1>9. ASSUME NextMuxer("chunk", "top")
      PROVE  stream' \in enabled /\ thread' # "stop_source"
  BY <1>2, <1>9 DEF NextMuxer
<1> QED
  <2>1. CASE /\ ChunkReady(stream) /\ CanName
             /\ \E ok \in BOOLEAN :
                  /\ WriteChunk(stream, ok)
                  /\ IF ok THEN NextMuxer("chunk", "top") /\ UNCHANGED broken
                     ELSE Break /\ UNCHANGED stream
             /\ UNCHANGED crashed
    <3>1. PICK ok \in BOOLEAN :
            /\ WriteChunk(stream, ok)
            /\ IF ok THEN NextMuxer("chunk", "top") /\ UNCHANGED broken
               ELSE Break /\ UNCHANGED stream
      BY <2>1
    <3>2. CASE ok
      <4>1. broken' = broken /\ NextMuxer("chunk", "top")
        BY <3>1, <3>2
      <4> QED
        BY <1>0, <1>8, <1>9, <2>1, <3>1, <3>2, <4>1
    <3>3. CASE ~ok
      <4>1. broken' = TRUE /\ thread' = "stop_source" /\ stream' = stream
        BY <3>1, <3>3 DEF Break
      <4> QED
        BY <1>0, <1>2, <1>8, <2>1, <3>1, <4>1
    <3> QED
      BY <3>2, <3>3
  <2>2. CASE ChunkReady(stream) /\ NameFails
    <3>1. /\ UNCHANGED <<mux_vars, sink, chunk_vars>> /\ stream' = stream
          /\ crashed' = TRUE /\ broken' = broken /\ thread' = thread
      BY <2>2 DEF NameFails
    <3> QED
      BY <1>1, <1>2, <1>7, <3>1
  <2>3. CASE /\ ~ChunkReady(stream)
             /\ NextMuxer("chunk", "top")
             /\ UNCHANGED <<mux_vars, chunk_vars, sink, broken, crashed>>
    BY <1>2, <1>7, <1>9, <2>3
  <2> QED
    BY <2>1, <2>2, <2>3 DEF WriteMuxerChunkToDataSink

(* After the last chunk of a muxer comes the other muxer, or the streams   *)
(* have ended.                                                             *)
LEMMA LastStep ==
  ASSUME IInv, NEW n \in Streams, n = stream, Ending,
         NextMuxer("finalize", "stop_source"),
         UNCHANGED enabled,
         \A o \in Streams : o # n =>
           (Whole(o) => Whole(o)') /\ buffer_'[o] = buffer_[o],
         \/ broken' = TRUE
         \/ /\ broken' = broken /\ (Whole(n) => Whole(n)')
            /\ buffer_'[n] = <<>>
  PROVE  /\ WholeUntilOver' /\ CutInside' /\ EndReached'
         /\ stream' \in enabled /\ thread' \in {"finalize", "stop_source"}
<1>1. /\ stream \in Streams /\ enabled \in (SUBSET Streams) \ {{}}
      /\ stream \in enabled
      /\ FirstStream \in enabled /\ LastStream \in enabled
      /\ \A s \in enabled : s = FirstStream \/ s = LastStream
  BY EnabledStreams, IInvParts DEF Rest, Control
<1>2. FirstStream' = FirstStream
  BY DEF FirstStream
<1>3. ~Ended
  BY DEF Ended, Ending
<1>4. \A m \in Streams :
        (broken /\ m = FirstStream /\ m # stream) \/ Whole(m)
  BY <1>3 DEF IInv, WholeUntilOver
<1>5. CASE stream # LastStream
  <2>1. stream' = LastStream /\ thread' = "finalize" /\ stream = FirstStream
    BY <1>1, <1>5 DEF NextMuxer
  <2>2. ~Ended' /\ Ending'
    BY <2>1 DEF Ended, Ending
  <2>3. \A m \in Streams : Whole(m)
    BY <1>4, <2>1
  <2>4. WholeUntilOver'
    <3> SUFFICES ASSUME NEW m \in Streams
                 PROVE  \/ /\ broken' /\ Ending'
                           /\ m = FirstStream' /\ m # stream'
                        \/ Whole(m)'
      BY DEF WholeUntilOver
    <3>1. CASE m # n
      BY <2>3, <3>1
    <3>2. CASE m = n /\ broken' = TRUE
      BY <1>2, <1>5, <2>1, <2>2, <3>2
    <3>3. CASE m = n /\ (Whole(n) => Whole(n)')
      BY <2>3, <3>3
    <3> QED
      BY <3>1, <3>2, <3>3
  <2>5. CutInside'
    BY <2>2 DEF CutInside
  <2>6. EndReached'
    <3>1. CASE broken' = TRUE
      BY <2>1, <2>2, <3>1 DEF EndReached
    <3>2. CASE buffer_'[n] = <<>>
      BY <1>2, <2>1, <2>2, <3>2 DEF EndReached
    <3> QED
      BY <3>1, <3>2
  <2> QED
    BY <1>1, <2>1, <2>4, <2>5, <2>6
<1>6. CASE stream = LastStream
  <2>1. stream' = FirstStream /\ thread' = "stop_source"
    BY <1>6 DEF NextMuxer
  <2>2. Ended' /\ ~Ending'
    BY <2>1 DEF Ended, Ending
  <2>3. CutInside'
    BY <2>2 DEF CutInside
  <2>4. CASE broken' = TRUE
    BY <1>1, <2>1, <2>2, <2>3, <2>4 DEF WholeUntilOver, EndReached
  <2>5. CASE /\ broken' = broken /\ (Whole(n) => Whole(n)')
             /\ buffer_'[n] = <<>>
    <3>1. CASE broken
      <4>0. broken' = TRUE
        BY <2>5, <3>1, IInvParts DEF Rest, Control
      <4>1. broken'
        BY <4>0
      <4> QED
        BY <1>1, <2>1, <2>2, <2>3, <4>1 DEF WholeUntilOver, EndReached
    <3>2. CASE ~broken
      <4>1. ASSUME NEW m \in Streams PROVE Whole(m)'
        <5>1. Whole(m)
          BY <1>4, <3>2
        <5> QED
          BY <2>5, <5>1
      <4>2. ASSUME NEW m \in Streams PROVE buffer_'[m] = <<>>
        <5>1. CASE m = n
          BY <2>5, <5>1
        <5>2. CASE m # n /\ m \in enabled
          <6>1. m = FirstStream /\ stream # FirstStream
            BY <1>1, <1>6, <5>2
          <6>2. buffer_[m] = <<>>
            BY <3>2, <6>1 DEF IInv, EndReached
          <6> QED
            BY <5>2, <6>2
        <5>3. CASE m # n /\ m \notin enabled
          BY <5>3, IInvParts DEF Rest, DisabledEmpty
        <5> QED
          BY <5>1, <5>2, <5>3
      <4>3. WholeUntilOver'
        BY <4>1 DEF WholeUntilOver
      <4>4. EndReached'
        BY <2>1, <2>2, <4>2 DEF EndReached
      <4> QED
        BY <1>1, <2>1, <2>3, <4>3, <4>4
    <3> QED
      BY <3>1, <3>2
  <2> QED
    BY <2>4, <2>5
<1> QED
  BY <1>5, <1>6

(* The manifest stays where it is when nothing is sent. *)
LEMMA ManifestKept ==
  ASSUME ManifestFirst, UNCHANGED <<sink, dash_vars, enabled>>, Begun'
  PROVE  ManifestFirst'
<1>1. NotReady' = NotReady /\ Ready' = Ready /\ ManifestId' = ManifestId
  BY DEF NotReady, Ready, ManifestId, AdaptationSet, ChunkPattern,
         InitializationPattern, dash_vars
<1> QED
  BY <1>1 DEF ManifestFirst, WriteManifest, Begun, dash_vars

(* The end of the streams: finalizing a muxer makes a chunk of all that it *)
(* holds, ...                                                              *)
LEMMA FinalizeMuxerKeeps ==
  ASSUME IInv, FinalizeMuxer
  PROVE  IInv'
<1>1. /\ UNCHANGED <<dash_vars, enabled, sink>>
      /\ UNCHANGED <<stop_vars, user_initiated_stop, source, delivered, pool,
                     got, packets, chunk_vars, crashed>>
      /\ thread = "finalize"
      /\ buffer_' = buffer_ /\ written' = written
  BY DEF FinalizeMuxer, Finalize, ThreadStep, Running, dash_vars,
         capture_vars, mux_vars
<1>2. stream \in Streams /\ stream \in enabled /\ broken \in BOOLEAN
  BY IInvParts DEF Rest, Control
<1>3. PICK m \in Streams : m = stream
  BY <1>2
<1>4. Ending /\ ~Ended /\ Muxing /\ Sent /\ dash_name' = dash_name
  BY <1>1 DEF Ended, Ending, IInv, dash_vars
<1>5. DisabledEmpty'
  BY <1>1, IInvParts DEF Rest, DisabledEmpty
<1>6. CASE Finalize(stream) /\ thread' = "last_chunk"
             /\ UNCHANGED <<stream, broken>>
  <2>1. /\ Muxing' /\ Sent' /\ \A o \in Streams : Whole(o) => Whole(o)'
        /\ chunk_end_'[m] = Len(buffer_'[m])
    BY <1>1, <1>3, <1>4, <1>6, MuxerFinalized
  <2>2. FirstStream' = FirstStream /\ Ending' /\ ~Ended' /\ Begun'
    BY <1>1, <1>6 DEF FirstStream, Ended, Ending, Begun
  <2>3. WholeUntilOver'
    BY <1>4, <1>6, <2>1, <2>2 DEF IInv, WholeUntilOver
  <2>4. CutInside' /\ EndReached'
    BY <1>1, <1>3, <1>4, <1>6, <2>1, <2>2 DEF IInv, CutInside, EndReached
  <2>5. ManifestFirst'
    BY <1>1, <2>2, ManifestKept DEF IInv
  <2>6. Control' /\ SeenStays'
    BY <1>1, <1>6, IInvParts DEF Rest, Control, SourceStopped, stop_vars,
                                 chunk_vars, SeenStays, Waiting
  <2> QED
    BY <1>5, <2>1, <2>3, <2>4, <2>5, <2>6 DEF IInv
<1>7. CASE /\ NextMuxer("finalize", "stop_source")
           /\ broken' = TRUE
           /\ UNCHANGED mux_vars
  <2>1. Muxing' /\ Sent' /\ \A o \in Streams : Whole(o) => Whole(o)'
    BY <1>1, <1>4, <1>7, NothingMuxed
  <2>2. /\ WholeUntilOver' /\ CutInside' /\ EndReached'
        /\ stream' \in enabled /\ thread' \in {"finalize", "stop_source"}
    BY <1>1, <1>3, <1>4, <1>7, <2>1, LastStep
  <2>3. Begun'
    BY <2>2 DEF Begun
  <2>4. ManifestFirst'
    BY <1>1, <2>3, ManifestKept DEF IInv
  <2>5. Control' /\ SeenStays'
    BY <1>1, <1>7, <2>2, IInvParts DEF Rest, Control, SourceStopped,
                         stop_vars, chunk_vars, SeenStays, Waiting
  <2> QED
    BY <1>5, <2>1, <2>2, <2>4, <2>5 DEF IInv
<1> QED
  BY <1>6, <1>7 DEF FinalizeMuxer

(* ... which reaches the sink unless something fails. *)
LEMMA WriteLastChunkKeeps ==
  ASSUME IInv, EncoderAssumption, WriteLastChunk
  PROVE  IInv'
<1>1. /\ UNCHANGED <<dash_vars, enabled>>
      /\ UNCHANGED <<stop_vars, user_initiated_stop, source, delivered, pool,
                     got, packets>>
      /\ thread = "last_chunk"
  BY DEF WriteLastChunk, ThreadStep, Running, dash_vars, capture_vars
<1>2. /\ stream \in Streams /\ stream \in enabled /\ broken \in BOOLEAN
      /\ crashed \in BOOLEAN
  BY IInvParts DEF Rest, Control
<1>3. PICK m \in Streams : m = stream
  BY <1>2
<1>4. Ending /\ ~Ended /\ Muxing /\ Sent /\ dash_name' = dash_name
  BY <1>1 DEF Ended, Ending, IInv, dash_vars
<1>5. /\ Whole(m) /\ chunk_end_[m] = Len(buffer_[m])
      /\ chunk_end_[m] \in Nat /\ buffer_[m] \in Seq(Nat)
  BY <1>1, <1>3, <1>4 DEF IInv, WholeUntilOver, EndReached, Muxing
<1>6. ASSUME NextMuxer("finalize", "stop_source"), ChunkReady(m), CanName,
             NEW ok \in BOOLEAN, WriteChunk(m, ok), crashed' = crashed,
             broken' = (broken \/ ~ok)
      PROVE  IInv'
  <2>1. Begun' /\ thread' \in {"finalize", "stop_source"}
    BY <1>6 DEF Begun, NextMuxer
  <2>2. /\ Muxing' /\ Sent' /\ ManifestFirst'
        /\ \A o \in Streams : o # m /\ Whole(o) => Whole(o)'
        /\ ok => Whole(m)' /\ EraseChunk(m)
        /\ EraseChunk(m) \/ UNCHANGED mux_vars
        /\ \A s \in Streams \ enabled :
             buffer_'[s] = <<>> /\ written'[s] = <<>>
        /\ chunk_buffer' \in BOOLEAN /\ chunk_buffer_size' \in Nat
    BY <1>1, <1>5, <1>6, <2>1, ChunkWritten
  <2>3. \A o \in Streams : o # m => buffer_'[o] = buffer_[o]
    <3>1. CASE EraseChunk(m)
      BY <1>6, <3>1, ChunkErased
    <3>2. CASE UNCHANGED mux_vars
      BY <3>2 DEF mux_vars
    <3> QED
      BY <2>2, <3>1, <3>2
  <2>4. /\ broken' \in BOOLEAN
        /\ \/ broken' = TRUE
           \/ broken' = broken /\ Whole(m)' /\ buffer_'[m] = <<>>
    <3>1. CASE ok
      <4>1. broken' = broken
        BY <1>2, <1>6, <3>1
      <4>2. buffer_'[m] = <<>>
        BY <1>5, <1>6, <2>2, <3>1, ChunkErased
      <4> QED
        BY <1>2, <2>2, <3>1, <4>1, <4>2
    <3>2. CASE ~ok
      BY <1>6, <3>2
    <3> QED
      BY <3>1, <3>2
  <2>5. \A o \in Streams : o # m =>
          (Whole(o) => Whole(o)') /\ buffer_'[o] = buffer_[o]
    BY <2>2, <2>3
  <2>6. /\ WholeUntilOver' /\ CutInside' /\ EndReached'
        /\ stream' \in enabled
    BY <1>1, <1>3, <1>4, <1>6, <2>4, <2>5, LastStep
  <2>7. Control' /\ SeenStays'
    BY ZenonT(60), <1>1, <1>6, <2>1, <2>2, <2>4, <2>6, IInvParts
       DEF Rest, Control, SourceStopped, stop_vars, SeenStays, Waiting
  <2>8. DisabledEmpty'
    BY <1>1, <2>2, IInvParts DEF Rest, DisabledEmpty
  <2> QED
    BY <2>2, <2>6, <2>7, <2>8 DEF IInv
<1>7. CASE ChunkReady(stream) /\ NameFails
  <2>1. /\ UNCHANGED <<mux_vars, sink, chunk_vars, stream, thread, broken>>
        /\ crashed' = TRUE
    BY <1>7 DEF NameFails
  <2>2. Books'
    <3>1. Begun => Begun'
      BY <2>1 DEF Begun
    <3>2. broken => broken'
      BY <2>1
    <3> QED
      BY <1>1, <2>1, <3>1, <3>2, QuietStep, IInvParts
  <2>3. Control' /\ SeenStays'
    BY <1>1, <2>1, IInvParts DEF Rest, Control, SourceStopped, stop_vars,
                                 chunk_vars, SeenStays, Waiting
  <2>4. DisabledEmpty'
    BY <1>1, <2>1, IInvParts DEF Rest, DisabledEmpty, mux_vars
  <2> QED
    BY <2>2, <2>3, <2>4 DEF IInv, Books
<1>8. CASE /\ ~ChunkReady(stream)
           /\ NextMuxer("finalize", "stop_source")
           /\ UNCHANGED <<mux_vars, chunk_vars, sink, broken, crashed>>
  <2>1. Muxing' /\ Sent' /\ \A o \in Streams : Whole(o) => Whole(o)'
    BY <1>4, <1>8, NothingMuxed
  <2>2. buffer_[m] = <<>>
    BY <1>3, <1>5, <1>8, EmptySeq DEF ChunkReady
  <2>3. \A o \in Streams : buffer_'[o] = buffer_[o]
    BY <1>8 DEF mux_vars
  <2>4. /\ WholeUntilOver' /\ CutInside' /\ EndReached'
        /\ stream' \in enabled /\ thread' \in {"finalize", "stop_source"}
    BY <1>1, <1>3, <1>4, <1>8, <2>1, <2>2, <2>3, LastStep
  <2>5. Begun'
    BY <2>4 DEF Begun
  <2>6. ManifestFirst'
    BY <1>1, <1>8, <2>5, ManifestKept DEF IInv
  <2>7. Control' /\ SeenStays'
    BY <1>1, <1>8, <2>4, IInvParts DEF Rest, Control, SourceStopped,
                         stop_vars, chunk_vars, SeenStays, Waiting
  <2>8. DisabledEmpty'
    BY <1>1, <1>8, IInvParts DEF Rest, DisabledEmpty, mux_vars
  <2> QED
    BY <2>1, <2>4, <2>6, <2>7, <2>8 DEF IInv
<1> QED
  <2>1. CASE /\ ChunkReady(stream) /\ CanName
             /\ NextMuxer("finalize", "stop_source")
             /\ \E ok \in BOOLEAN :
                  WriteChunk(stream, ok) /\ broken' = (broken \/ ~ok)
             /\ UNCHANGED crashed
    <3>1. PICK ok \in BOOLEAN :
            WriteChunk(stream, ok) /\ broken' = (broken \/ ~ok)
      BY <2>1
    <3> QED
      BY <1>3, <1>6, <2>1, <3>1
  <2> QED
    BY <1>7, <1>8, <2>1 DEF WriteLastChunk

-----------------------------------------------------------------------------
(* The invariant. *)

(* Of an empty sink nothing is any stream's. *)
LEMMA NothingSunk ==
  ASSUME NEW m, sink = <<>>
  PROVE  ChunksOf(m) = <<>> /\ Sunk(m) = <<>>
<1>1. ChunksIn(m, <<>>) = <<>>
  <2>1. [i \in DOMAIN << >> |-> IF IsChunkOf(m, << >>[i]) THEN << << >>[i] >>
                                ELSE << >>] = << >>
    OBVIOUS
  <2> QED
    BY <2>1, FlattenEmpty DEF ChunksIn
<1>2. Joined(<<>>) = <<>>
  <2>1. [i \in DOMAIN << >> |-> << >>[i].chunk] = << >>
    OBVIOUS
  <2> QED
    BY <2>1, FlattenEmpty DEF Joined
<1>3. ChunksOf(m) = <<>>
  BY <1>1 DEF ChunksOf
<1> QED
  BY <1>2, <1>3 DEF Sunk

(* It holds at the start. *)
LEMMA InitOK ==
  ASSUME Init, EncoderAssumption
  PROVE  IInv
<1>1. /\ Streams = Muxers
      /\ buffer_ = [m \in Streams |-> <<>>]
      /\ chunk_end_ = [m \in Streams |-> 0]
      /\ chunks_read_ = [m \in Streams |-> 0]
      /\ written = [m \in Streams |-> <<>>]
      /\ sink = <<>> /\ dash_writer = NotReady
      /\ thread = "run" /\ stream = FirstStream
      /\ enabled \in (SUBSET Streams) \ {{}}
      /\ delivered = [s \in Streams |-> 0]
      /\ pool = [s \in Streams |-> 0]
      /\ got = [s \in Streams |-> s \notin enabled]
      /\ packets = 0 /\ broken = FALSE
  BY DEF Init, MuxInit, DashWriterInit, NotReady, EncoderAssumption
<1>2. Control
  <2>1. FirstStream \in enabled
    BY <1>1, EnabledStreams
  <2>2. /\ DefaultChunkBufferSize \in Nat /\ MaxSamples \in Nat
        /\ MaxPackets \in Nat /\ MaxPolls \in Nat
    BY DEF EncoderAssumption
  <2>3. /\ delivered \in [Streams -> 0..MaxSamples]
        /\ pool \in [Streams -> Nat]
        /\ \A s \in Streams : pool[s] <= delivered[s]
        /\ got \in [Streams -> BOOLEAN]
    BY <1>1, <2>2
  <2>4. 0 \in 0..MaxPackets /\ 0 \in 0..MaxPolls
    BY <2>2
  <2> QED
    BY <1>1, <2>1, <2>2, <2>3, <2>4 DEF Control, SourceStopped, Init
<1>3. ASSUME NEW m \in Streams
      PROVE  /\ buffer_[m] = <<>> /\ written[m] = <<>>
             /\ chunk_end_[m] = 0 /\ chunks_read_[m] = 0
             /\ ChunksOf(m) = <<>> /\ Sunk(m) = <<>>
  BY <1>1, NothingSunk
<1>4. Aligned(<<>>, 0, 0, <<>>)
  BY DEF Aligned
<1>5. Muxing
  <2>1. /\ buffer_ \in [Streams -> Seq(Nat)]
        /\ written \in [Streams -> Seq(Kinds)]
        /\ chunk_end_ \in [Streams -> Nat] /\ chunks_read_ \in [Streams -> Nat]
    BY <1>1
  <2>2. ASSUME NEW m \in Streams
        PROVE  Aligned(buffer_[m], chunk_end_[m], chunks_read_[m], written[m])
    BY <1>3, <1>4
  <2> QED
    BY <2>1, <2>2 DEF Muxing
<1>6. Sent
  <2>1. Prefix(<<>>, <<>>) /\ Cut(<<>>, <<>>)
    BY DEF Prefix, Cut
  <2>2. \A m \in Streams : Named(m, <<>>)
    BY DEF Named
  <2>3. <<>> \in Seq(Range(sink))
    OBVIOUS
  <2>4. ASSUME NEW m \in Streams
        PROVE  /\ ChunksOf(m) \in Seq(Range(sink))
               /\ Named(m, ChunksOf(m)) /\ Cut(ChunksOf(m), written[m])
               /\ Prefix(Sunk(m), written[m])
    <3>1. ChunksOf(m) = <<>> /\ Sunk(m) = <<>> /\ written[m] = <<>>
      BY <1>3
    <3> QED
      BY <2>1, <2>2, <2>3, <3>1
  <2>5. sink \in Seq(Range(sink))
    BY <1>1, <2>3
  <2> QED
    BY <2>4, <2>5 DEF Sent
<1>7. ~Ended /\ ~Ending
  BY <1>1 DEF Ended, Ending
<1>8. \A m \in Streams : Whole(m)
  BY <1>3 DEF Whole
<1>9. WholeUntilOver /\ CutInside /\ EndReached
  BY <1>3, <1>7, <1>8 DEF WholeUntilOver, CutInside, EndReached, Ending
<1>10. ManifestFirst /\ DisabledEmpty /\ SeenStays
  <2>1. ManifestFirst
    BY <1>1 DEF ManifestFirst
  <2>2. DisabledEmpty
    BY <1>1, <1>3 DEF DisabledEmpty
  <2>3. SeenStays
    BY <1>1 DEF SeenStays
  <2> QED
    BY <2>1, <2>2, <2>3
<1> QED
  BY <1>2, <1>5, <1>6, <1>9, <1>10 DEF IInv

(* A step in which nothing happens. *)
LEMMA StutterKeeps ==
  ASSUME IInv, UNCHANGED vars
  PROVE  IInv'
<1>1. /\ UNCHANGED <<mux_vars, sink, dash_vars, enabled, broken, thread,
                     stream>>
      /\ UNCHANGED <<stop_, mutex_, main, polls, user_initiated_stop, source,
                     delivered, pool, got, packets, chunk_buffer,
                     chunk_buffer_size, crashed, buffer_, written>>
  BY DEF vars, stop_vars, capture_vars, chunk_vars, mux_vars, dash_vars
<1>2. Books'
  <2>1. (Begun => Begun') /\ (broken => broken')
    BY <1>1 DEF Begun
  <2> QED
    BY <1>1, <2>1, QuietStep, IInvParts
<1>3. Control' /\ DisabledEmpty' /\ SeenStays'
  BY <1>1, IInvParts DEF Rest, Control, SourceStopped, DisabledEmpty,
                         SeenStays, Waiting
<1> QED
  BY <1>2, <1>3 DEF IInv, Books

(* Every step of a thread keeps the invariant. *)
LEMMA NextKeeps ==
  ASSUME EncoderAssumption, IInv, [Next]_vars
  PROVE  IInv'
<1>1. CASE EncoderThread
  <2>1. CASE RunSource
    BY <2>1, RunSourceKeeps
  <2>2. CASE SendManifest
    BY <2>2, SendManifestKeeps
  <2>3. CASE WaitForSamples
    BY <2>3, WaitForSamplesKeeps
  <2>4. CASE LoopTop
    BY <2>4, LoopTopKeeps
  <2>5. CASE CheckStatus
    BY <2>5, CheckStatusKeeps
  <2>6. CASE EncodeAudioBuffer
    BY <2>6, EncodeAudioBufferKeeps
  <2>7. CASE MuxAudio
    BY <2>7, MuxAudioKeeps
  <2>8. CASE EncodeVideo
    BY <2>8, EncodeVideoKeeps
  <2>9. CASE WriteMuxerChunkToDataSink
    BY <2>9, WriteMuxerChunkKeeps
  <2>10. CASE FinalizeMuxer
    BY <2>10, FinalizeMuxerKeeps
  <2>11. CASE WriteLastChunk
    BY <2>11, WriteLastChunkKeeps
  <2>12. CASE StopSource
    BY <2>12, StopSourceKeeps
  <2> QED
    BY <1>1, <2>1, <2>2, <2>3, <2>4, <2>5, <2>6, <2>7, <2>8, <2>9, <2>10,
       <2>11, <2>12 DEF EncoderThread
<1>2. CASE MainThread
  BY <1>2, MainThreadKeeps
<1>3. CASE \E s \in Streams : Capture(s)
  BY <1>3, CaptureKeeps
<1>4. CASE UNCHANGED vars
  BY <1>4, StutterKeeps
<1> QED
  BY <1>1, <1>2, <1>3, <1>4 DEF Next

(* The inductive invariant: each muxer's buffer is the end of the stream   *)
(* libwebm wrote and is cut where clusters begin, what the sink has of it  *)
(* is the beginning, and nothing lies between the two before the streams   *)
(* end or a call fails.                                                    *)
THEOREM IInvHolds == Spec => []IInv
<1>1. Init => IInv
  BY InitOK, EncoderAssumption
<1>2. IInv /\ [Next]_vars => IInv'
  BY NextKeeps, EncoderAssumption
<1> QED
  BY <1>1, <1>2, PTL DEF Spec

-----------------------------------------------------------------------------
(* What follows from it. *)

(* The encoder's variables keep their types; what a muxer buffers are      *)
(* positions of its stream and a chunk never ends behind the buffer.       *)
THEOREM TypeOKHolds == Spec => []TypeOK
<1>1. ASSUME IInv PROVE TypeOK
  <2>1. ASSUME NEW m \in Streams
        PROVE  /\ buffer_[m] \in Seq(1..Len(written[m]))
               /\ chunk_end_[m] \in 0..Len(buffer_[m])
               /\ chunks_read_[m] \in Nat /\ written[m] \in Seq(Kinds)
    <3> DEFINE b == buffer_[m]
               w == written[m]
               e == chunk_end_[m]
               n == chunks_read_[m]
    <3>1. Aligned(b, e, n, w)
      BY <1>1 DEF IInv, Muxing
    <3> HIDE DEF b, w, e, n
    <3> DEFINE k == Len(b)
               h == Len(w)
    <3>2. /\ b \in Seq(Nat) /\ k \in Nat /\ h \in Nat /\ k <= h
          /\ e \in Nat /\ e <= k /\ n \in Nat /\ w \in Seq(Kinds)
          /\ \A i \in 1..k : b[i] = h - k + i
          /\ b \in [1..k -> Nat]
      BY <3>1, LenProperties DEF Aligned
    <3> HIDE DEF k, h
    <3>3. \A i \in 1..k : b[i] \in 1..h
      BY <3>2
    <3>4. b \in [1..k -> 1..h]
      BY <3>2, <3>3
    <3>5. b \in Seq(1..h) /\ e \in 0..k
      BY <3>2, <3>4
    <3> QED
      BY <3>2, <3>5 DEF b, w, e, n, k, h
  <2>2. Muxers = Streams
    BY EncoderAssumption DEF EncoderAssumption
  <2>3. pool \in [Streams -> 0..MaxSamples]
    <3>1. /\ pool \in [Streams -> Nat]
          /\ delivered \in [Streams -> 0..MaxSamples] /\ MaxSamples \in Nat
          /\ \A s \in Streams : pool[s] <= delivered[s]
      BY <1>1, EncoderAssumption DEF IInv, Control, EncoderAssumption
    <3>2. \A s \in Streams : pool[s] \in 0..MaxSamples
      BY <3>1
    <3> QED
      BY <3>1, <3>2
  <2>4. /\ dash_writer.initialized \in BOOLEAN
        /\ DOMAIN dash_writer.sets \in {{}, enabled}
    <3>1. CASE dash_writer = NotReady
      BY <3>1 DEF NotReady
    <3>2. CASE dash_writer = Ready
      BY <3>2 DEF Ready
    <3> QED
      BY <1>1, <3>1, <3>2 DEF IInv, ManifestFirst
  <2>5. stream \in Streams
    BY <1>1 DEF IInv, Control
  <2> QED
    BY <1>1, <2>1, <2>2, <2>3, <2>4, <2>5 DEF TypeOK, IInv, Control
<1> QED
  BY <1>1, IInvHolds, PTL

(* EncoderThread never ends with the capture devices running: the return   *)
(* after WaitForSamples that skips ptr_media_source_->Stop() is never      *)
(* taken.                                                                  *)
THEOREM SourceStoppedHolds == Spec => []SourceStopped
<1>1. IInv => SourceStopped
  BY DEF IInv, Control
<1> QED
  BY <1>1, IInvHolds, PTL

(* When the thread has ended and no call failed, the muxers are empty:     *)
(* WriteLastMuxerChunkToDataSink passed on all they held.                  *)
THEOREM CompleteOnStopHolds == Spec => []CompleteOnStop
<1>1. IInv => CompleteOnStop
  <2>1. Muxers = Streams
    BY EncoderAssumption DEF EncoderAssumption
  <2> QED
    BY <2>1 DEF IInv, EndReached, CompleteOnStop, Ended
<1> QED
  BY <1>1, IInvHolds, PTL

(* WebmMuxWriter cuts where a cluster starts: each chunk but the first     *)
(* begins with a cluster, and the first one with the header.               *)
THEOREM ChunksStartClustersHolds == Spec => []ChunksStartClusters
<1>1. ASSUME IInv PROVE ChunksStartClusters
  <2>1. Muxers = Streams
    BY EncoderAssumption DEF EncoderAssumption
  <2> SUFFICES ASSUME NEW m \in Streams, NEW i \in 1..Len(ChunksOf(m))
               PROVE  written[m][Head(ChunksOf(m)[i].chunk)]
                        = IF i = 1 THEN "header" ELSE "cluster"
    BY <2>1 DEF ChunksStartClusters
  <2> DEFINE c == ChunksOf(m)[i].chunk
  <2>2. /\ c \in Seq(Nat) /\ c # <<>>
        /\ written[m][c[1]] = IF i = 1 THEN "header" ELSE "cluster"
    BY <1>1 DEF IInv, Sent, Cut
  <2> HIDE DEF c
  <2>3. Head(c) = c[1]
    BY <2>2
  <2> QED
    BY <2>2, <2>3 DEF c
<1> QED
  BY <1>1, IInvHolds, PTL

(* The elements of a prefix are the first of the stream. *)
LEMMA PrefixElements ==
  ASSUME NEW f, NEW w, Prefix(f, w)
  PROVE  f = Elements1To(Len(f))
<1>1. f \in Seq(Nat) /\ \A i \in 1..Len(f) : f[i] = i
  BY DEF Prefix
<1>2. f = [i \in 1..Len(f) |-> f[i]]
  BY <1>1, LenProperties
<1> QED
  BY <1>1, <1>2 DEF Elements1To

(* What the sink got of a stream is a prefix of it, and with what the      *)
(* muxer buffers the whole of it unless a call failed: no chunk is lost,   *)
(* repeated or passed on out of order.                                     *)
THEOREM StreamIntactHolds == Spec => []StreamIntact
<1>1. ASSUME IInv PROVE StreamIntact
  <2>1. Muxers = Streams
    BY EncoderAssumption DEF EncoderAssumption
  <2>2. ASSUME NEW m \in Streams
        PROVE  /\ Sunk(m) = Elements1To(Len(Sunk(m)))
               /\ ~broken =>
                    Sunk(m) \o buffer_[m] = Elements1To(Len(written[m]))
    <3> DEFINE f == Sunk(m)
               b == buffer_[m]
               w == written[m]
    <3>1. /\ Prefix(f, w)
          /\ b \in Seq(Nat) /\ w \in Seq(Kinds) /\ Len(b) <= Len(w)
          /\ \A i \in 1..Len(b) : b[i] = Len(w) - Len(b) + i
          /\ ~broken => Len(f) + Len(b) = Len(w)
      BY <1>1 DEF IInv, Muxing, Aligned, Sent, WholeUntilOver, Whole
    <3> HIDE DEF f, b, w
    <3>2. f = Elements1To(Len(f))
      BY <3>1, PrefixElements
    <3>3. ASSUME ~broken PROVE f \o b = Elements1To(Len(w))
      <4> DEFINE i == Len(f)
                 j == Len(b)
                 k == Len(w)
      <4>1. i \in Nat /\ j \in Nat /\ k \in Nat /\ i + j = k
        BY <3>1, <3>3, LenProperties DEF Prefix
      <4> HIDE DEF i, j, k
      <4>2. k - j = i /\ i + j <= k
        BY <4>1
      <4>3. \A l \in 1..Len(b) : b[l] = Len(f) + l
        BY <3>1, <4>2 DEF i, j, k
      <4>4. Prefix(f \o b, w) /\ Len(f \o b) = Len(f) + Len(b)
        BY <3>1, <4>1, <4>2, <4>3, NextElements DEF i, j, k
      <4> QED
        BY <4>1, <4>4, PrefixElements DEF i, j, k
    <3> QED
      BY <3>2, <3>3 DEF f, b, w
  <2> QED
    BY <2>1, <2>2 DEF StreamIntact
<1> QED
  BY <1>1, IInvHolds, PTL

(* The name of the encode is one of those it may have ... *)
NameKnown == dash_name \in DashNames

(* ... and does not change. *)
LEMMA NameStays == Spec => []NameKnown
<1>1. Init => NameKnown
  BY DEF Init, DashWriterInit, NameKnown
<1>2. ASSUME [Next]_vars PROVE dash_name' = dash_name
  <2>1. ASSUME EncoderThread PROVE Running
    BY <2>1 DEF EncoderThread, RunSource, SendManifest, WaitForSamples,
       LoopTop, CheckStatus, EncodeAudioBuffer, MuxAudio, EncodeVideo,
       WriteMuxerChunkToDataSink, FinalizeMuxer, WriteLastChunk, StopSource,
       ThreadStep
  <2>2. ASSUME MainThread PROVE Running
    BY <2>2 DEF MainThread, PollLock, PollUnlock, StopLock, StopFlag,
       StopJoin, MainStep
  <2>3. ASSUME NEW s \in Streams, Capture(s) PROVE Running
    BY <2>3 DEF Capture
  <2> QED
    BY <1>2, <2>1, <2>2, <2>3 DEF Next, Running, vars, dash_vars
<1>3. NameKnown /\ [Next]_vars => NameKnown'
  BY <1>2 DEF NameKnown
<1> QED
  BY <1>1, <1>3, PTL DEF Spec

(* A name that a player does not take for one of the two parts of a        *)
(* template it fills in.                                                   *)
Literal(name) == name # "$RepresentationID$" /\ name # "$Number$"

(* The two templates of a stream, filled in.                               *)
LEMMA Expanded ==
  ASSUME NEW m, NEW n \in Nat, Literal(dash_name)
  PROVE  /\ Expand(AdaptationSet(m).initialization, RepId(m), 0)
              = <<dash_name, RepId(m), "hdr">>
         /\ Expand(AdaptationSet(m).media, RepId(m), n)
              = <<dash_name, RepId(m), n, "chk">>
<1>1. Expand(<<dash_name, "$RepresentationID$", "hdr">>, RepId(m), 0)
        = <<dash_name, RepId(m), "hdr">>
  BY DEF Expand, Literal
<1>2. Expand(<<dash_name, "$RepresentationID$", "$Number$", "chk">>,
             RepId(m), n)
        = <<dash_name, RepId(m), n, "chk">>
  BY DEF Expand, Literal
<1> QED
  BY <1>1, <1>2 DEF AdaptationSet, ChunkPattern, InitializationPattern

(* A manifest that is ready lists every enabled stream.                    *)
LEMMA Listed ==
  ASSUME NEW m \in enabled, enabled \subseteq Streams
  PROVE  \E a \in DOMAIN WriteManifest(Ready) :
           WriteManifest(Ready)[a] = AdaptationSet(m)
<1> DEFINE listed == (IF "audio" \in enabled THEN <<"audio">> ELSE <<>>)
                     \o (IF "video" \in enabled THEN <<"video">> ELSE <<>>)
<1>1. WriteManifest(Ready)
        = [i \in DOMAIN listed |-> Ready.sets[listed[i]]]
  BY DEF WriteManifest, Ready
<1>2. \E a \in DOMAIN listed : listed[a] = m
  <2>1. m = "audio" \/ m = "video"
    BY DEF Streams, Audio, Video
  <2>2. CASE "audio" \in enabled /\ "video" \in enabled
    <3>1. listed = <<"audio">> \o <<"video">>
      BY <2>2
    <3> DEFINE p == <<"audio">>
               q == <<"video">>
    <3>2. p \in Seq(Streams) /\ Len(p) = 1 /\ p[1] = "audio"
      BY DEF Streams, Audio
    <3>5. q \in Seq(Streams) /\ Len(q) = 1 /\ q[1] = "video"
      BY DEF Streams, Video
    <3> HIDE DEF p, q
    <3>6. /\ p \o q \in Seq(Streams) /\ Len(p \o q) = Len(p) + Len(q)
          /\ \A i \in 1..Len(p) : (p \o q)[i] = p[i]
          /\ \A i \in 1..Len(q) : (p \o q)[Len(p) + i] = q[i]
      <4>1. p \in Seq(Streams) /\ q \in Seq(Streams)
        BY <3>2, <3>5
      <4>2. p \o q \in Seq(Streams) /\ Len(p \o q) = Len(p) + Len(q)
        BY <4>1
      <4>3. \A i \in 1..Len(p) : (p \o q)[i] = p[i]
        BY <4>1
      <4>4. \A i \in 1..Len(q) : (p \o q)[Len(p) + i] = q[i]
        BY <4>1
      <4> QED
        BY <4>2, <4>3, <4>4
    <3>3. /\ p \o q \in Seq(Streams) /\ Len(p \o q) = 2
          /\ (p \o q)[1] = "audio" /\ (p \o q)[2] = "video"
      <4>1. 1 \in 1..1 /\ 1 + 1 = 2
        OBVIOUS
      <4> QED
        BY <3>2, <3>5, <3>6, <4>1
    <3>4. DOMAIN (p \o q) = 1..2
      BY <3>3, LenProperties
    <3> QED
      BY <2>1, <3>1, <3>3, <3>4 DEF p, q
  <2>3. CASE "audio" \in enabled /\ "video" \notin enabled
    <3>1. listed = <<"audio">>
      BY <2>3
    <3> QED
      BY <2>1, <2>3, <3>1
  <2>4. CASE "audio" \notin enabled /\ "video" \in enabled
    <3>1. listed = <<"video">>
      BY <2>4
    <3> QED
      BY <2>1, <2>4, <3>1
  <2> QED
    BY <2>1, <2>2, <2>3, <2>4
<1> HIDE DEF listed
<1>3. PICK a \in DOMAIN listed : listed[a] = m
  BY <1>2
<1>4. Ready.sets[m] = AdaptationSet(m)
  BY DEF Ready
<1> QED
  BY <1>1, <1>3, <1>4

(* The names of the chunks are those a player that has the manifest makes  *)
(* from its templates, when --dash_start_number has its default of 1,      *)
(* IdForChunk counting media chunks from 1 whatever it is, and             *)
(* --dash_name is not itself a part that a player fills in, which          *)
(* DashWriter::Init does not check.                                        *)
THEOREM SegmentsAddressableHolds ==
  ASSUME StartNumber = 1, \A name \in DashNames : Literal(name)
  PROVE  Spec => []SegmentsAddressable
<1>1. ASSUME IInv, Literal(dash_name) PROVE SegmentsAddressable
  <2>1. ASSUME NEW i \in 2..Len(sink)
        PROVE  Len(sink[i].id) > 2 /\ dash_writer = Ready
    <3>1. sink \in Seq(Range(sink))
      BY <1>1 DEF IInv, Sent
    <3>2. Len(sink) \in Nat
      BY <3>1, LenProperties
    <3>3. i \in 1..Len(sink) /\ i # 1
      BY <3>2
    <3> QED
      BY <1>1, <3>3 DEF IInv, ManifestFirst
  <2>2. \A i \in 2..Len(sink) : sink[i].id # ManifestId
    <3>1. Len(ManifestId) = 2
      BY DEF ManifestId
    <3> SUFFICES ASSUME NEW i \in 2..Len(sink), sink[i].id = ManifestId
                 PROVE  FALSE
      OBVIOUS
    <3>2. Len(sink[i].id) > 2
      BY <2>1
    <3> HIDE DEF ManifestId
    <3> QED
      BY <3>1, <3>2
  <2>3. ASSUME Len(sink) > 1, sink[1].id = ManifestId, NEW m \in enabled
        PROVE  \E a \in DOMAIN sink[1].chunk :
                 sink[1].chunk[a] = AdaptationSet(m)
    <3>1. Len(sink) \in Nat
      BY <1>1, LenProperties DEF IInv, Sent
    <3>2. 2 \in 2..Len(sink) /\ 1 \in 1..Len(sink)
      BY <2>3, <3>1
    <3>3. dash_writer = Ready
      BY <2>1, <3>2
    <3>4. sink[1].chunk = WriteManifest(dash_writer)
      <4>1. Len(ManifestId) = 2
        BY DEF ManifestId
      <4>2. ~(Len(sink[1].id) > 2)
        BY <2>3, <4>1
      <4> QED
        BY <1>1, <3>2, <4>2 DEF IInv, ManifestFirst
    <3>5. enabled \subseteq Streams
      BY <1>1 DEF IInv, Control
    <3> QED
      BY <3>3, <3>4, <3>5, Listed
  <2>4. ASSUME NEW m \in enabled, NEW i \in DOMAIN ChunksOf(m)
        PROVE  ChunksOf(m)[i].id =
                 IF i = 1
                 THEN Expand(AdaptationSet(m).initialization, RepId(m), 0)
                 ELSE Expand(AdaptationSet(m).media, RepId(m), 1 + i - 2)
    <3>1. m \in Streams
      BY <1>1 DEF IInv, Control
    <3>2. i \in 1..Len(ChunksOf(m)) /\ Len(ChunksOf(m)) \in Nat
      BY <1>1, <3>1, LenProperties DEF IInv, Sent
    <3>3. ChunksOf(m)[i].id = IdForChunk(m, i - 1)
      BY <1>1, <3>1, <3>2 DEF IInv, Sent, Named
    <3>4. CASE i = 1
      <4>1. IdForChunk(m, i - 1) = <<dash_name, RepId(m), "hdr">>
        BY <3>4 DEF IdForChunk
      <4> QED
        BY <1>1, <3>3, <3>4, <4>1, Expanded
    <3>5. CASE i # 1
      <4>1. i - 1 \in Nat /\ i - 1 # 0 /\ 1 + i - 2 = i - 1
        BY <3>2, <3>5
      <4>2. IdForChunk(m, i - 1) = <<dash_name, RepId(m), i - 1, "chk">>
        BY <4>1 DEF IdForChunk
      <4> QED
        BY <1>1, <3>3, <3>5, <4>1, <4>2, Expanded
    <3> QED
      BY <3>4, <3>5
  <2>5. ASSUME NEW m
        PROVE  /\ AdaptationSet(m).rep_id = RepId(m)
               /\ AdaptationSet(m).start_number = 1
    BY DEF AdaptationSet
  <2> QED
    BY <2>2, <2>3, <2>4, <2>5 DEF SegmentsAddressable, ManifestId
<1>2. NameKnown => Literal(dash_name)
  BY DEF NameKnown
<1> QED
  BY <1>1, <1>2, IInvHolds, NameStays, PTL
-----------------------------------------------------------------------------
(* WebmEncoder implements LiveStream for each stream: its steps, for the   *)
(* stream m.                                                               *)

Same(m) ==
  /\ written'[m] = written[m] /\ Sunk(m)' = Sunk(m)
  /\ StreamOver(m)' = StreamOver(m)

Grows(m) ==
  /\ ~StreamOver(m)
  /\ Len(written'[m]) > Len(written[m])
  /\ \A i \in 1..Len(written[m]) : written'[m][i] = written[m][i]
  /\ written[m] = <<>> => written'[m][1] = "header"
  /\ Sunk(m)' = Sunk(m) /\ StreamOver(m)' = StreamOver(m)

PassesTo(m, last) ==
  /\ ~StreamOver(m)
  /\ Sunk(m)' = [i \in 1..last |-> i]
  /\ IF last = Len(written[m]) THEN StreamOver(m)' = TRUE
     ELSE written[m][last + 1] = "cluster" /\ StreamOver(m)' = FALSE
  /\ written'[m] = written[m]

Passes(m) ==
  \E last \in (Len(Sunk(m)) + 1)..Len(written[m]) : PassesTo(m, last)

Loses(m) ==
  /\ ~StreamOver(m) /\ StreamOver(m)' = TRUE
  /\ written'[m] = written[m] /\ Sunk(m)' = Sunk(m)

(* Nothing happens to the stream.                                          *)
LEMMA NothingNew ==
  ASSUME NEW m \in Streams, buffer_'[m] = buffer_[m],
         written'[m] = written[m], Sunk(m)' = Sunk(m)
  PROVE  Same(m)
BY DEF Same, StreamOver

(* What the sink has of a stream is left alone by what is no chunk of it.  *)
LEMMA NotSunk ==
  ASSUME NEW m \in Streams, NEW e, ~IsChunkOf(m, e),
         sink \in Seq(Range(sink)), sink' = Append(sink, e)
  PROVE  Sunk(m)' = Sunk(m)
<1> DEFINE R == Range(Append(sink, e))
<1>1. sink \in Seq(R) /\ e \in R
  BY RangeAppend
<1> HIDE DEF R
<1>2. ChunksIn(m, Append(sink, e)) = ChunksIn(m, sink)
  BY <1>1, ChunksInAppend
<1> QED
  BY <1>2 DEF ChunksOf, Sunk

(* A stream all of which is in the muxer or in the sink, and of which the  *)
(* muxer holds the end, is not over.                                       *)
LEMMA NotOver ==
  ASSUME NEW m \in Streams, Whole(m), buffer_[m] = <<>> => written[m] = <<>>
  PROVE  ~StreamOver(m)
BY DEF StreamOver, Whole

(* A frame makes the stream longer.                                        *)
LEMMA FrameGrows ==
  ASSUME IInv, EncoderAssumption, NEW m \in Streams, NEW b \in BOOLEAN,
         AddFrame(m, b), UNCHANGED <<sink, dash_name>>, ~Ended, ~Ending
  PROVE  Grows(m)
<1> DEFINE new == Elements(m, b)
           w == written[m]
<1>1. /\ Muxing /\ StreamOK(m) /\ Whole(m)
      /\ buffer_[m] = <<>> => written[m] = <<>>
      /\ chunk_end_[m] # 0 => chunk_end_[m] < Len(buffer_[m])
  BY StreamsOK DEF IInv, WholeUntilOver, CutInside
<1>2. Whole(m)' /\ buffer_'[m] # <<>>
  BY <1>1, StreamFramed
<1>3. ~StreamOver(m)
  BY <1>1, NotOver
<1>4. StreamOver(m) = FALSE /\ StreamOver(m)' = FALSE
  BY <1>2, <1>3 DEF StreamOver, Whole
<1>5. Sunk(m)' = Sunk(m)
  BY DEF Sunk, ChunksOf
<1>6. written'[m] = w \o new
  <2> HIDE DEF new
  <2> QED
    BY <1>1 DEF AddFrame, Muxing, new
<1>7. w \in Seq(Kinds) /\ new \in Seq(Kinds) /\ Len(new) \in Nat \ {0}
  <2>1. w \in Seq(Kinds)
    BY <1>1 DEF Muxing
  <2>2. new \in {<<"header", "cluster", "block">>, <<"cluster", "block">>,
                 <<"block">>}
    BY DEF Elements
  <2> HIDE DEF new, w
  <2>3. CASE new = <<"header", "cluster", "block">>
    BY <2>1, <2>3 DEF Kinds
  <2>4. CASE new = <<"cluster", "block">>
    BY <2>1, <2>4 DEF Kinds
  <2>5. CASE new = <<"block">>
    BY <2>1, <2>5 DEF Kinds
  <2> QED
    BY <2>2, <2>3, <2>4, <2>5
<1>9. w = <<>> => (w \o new)[1] = "header"
  BY DEF Elements
<1> HIDE DEF new, w
<1>8. /\ Len(w \o new) > Len(w)
      /\ \A i \in 1..Len(w) : (w \o new)[i] = w[i]
  <2>1. /\ Len(w \o new) = Len(w) + Len(new) /\ Len(w) \in Nat
        /\ \A i \in 1..Len(w) : (w \o new)[i] = w[i]
    BY <1>7, ConcatProperties, LenProperties
  <2> QED
    BY <1>7, <2>1
<1> QED
  BY <1>3, <1>4, <1>5, <1>6, <1>8, <1>9 DEF Grows, w

(* A chunk of the stream is taken out of the muxer and reaches the sink,   *)
(* or does not.                                                            *)
LEMMA ChunkPasses ==
  ASSUME IInv, IInv', NEW m \in Streams, NEW ok \in BOOLEAN, Whole(m),
         ChunkReady(m), EraseChunk(m), ok => Whole(m)', ~ok => sink' = sink
  PROVE  Passes(m) \/ Loses(m)
<1> DEFINE b == Len(buffer_[m])
           c == Len(buffer_'[m])
           e == chunk_end_[m]
           f == Len(Sunk(m))
           g == Len(Sunk(m)')
           w == written[m]
           h == Len(w)
<1>1. Muxing /\ StreamOK(m) /\ StreamOK(m)'
  <2>1. Muxing /\ StreamOK(m) /\ Muxing' /\ Sent'
    BY StreamsOK DEF IInv
  <2> QED
    BY <2>1 DEF Muxing, Sent, StreamOK
<1>2. /\ Taken(buffer_[m], e, chunks_read_[m], w, Chunk(m), buffer_'[m])
      /\ chunks_read_'[m] = chunks_read_[m] + 1 /\ written' = written
  BY <1>1, ChunkTaken
<1>3. /\ buffer_[m] \in Seq(Nat) /\ buffer_'[m] \in Seq(Nat)
      /\ w \in Seq(Kinds) /\ chunks_read_[m] \in Nat
      /\ Prefix(Sunk(m), w) /\ Prefix(Sunk(m)', w)
  BY <1>1, <1>2 DEF StreamOK, Aligned
<1>4. /\ b \in Nat /\ c \in Nat /\ f \in Nat /\ g \in Nat /\ h \in Nat
      /\ e \in Nat \ {0} /\ e <= b /\ c = b - e
  BY <1>2, <1>3, LenProperties DEF Taken, Prefix
<1>5. f + b = h
  BY DEF Whole
<1>6. ~StreamOver(m)
  <2>1. buffer_[m] # <<>>
    BY <1>3, <1>4, EmptySeq
  <2> QED
    BY <2>1, NotOver
<1>7. /\ c = 0 <=> buffer_'[m] = <<>>
      /\ h = 0 <=> w = <<>>
  BY <1>3, EmptySeq
<1>8. StreamOver(m)' <=> g + c # h \/ (c = 0 /\ h # 0)
  BY <1>2, <1>7 DEF StreamOver
<1>o. StreamOver(m)' \in BOOLEAN
  BY DEF StreamOver
<1>9. CASE ok
  <2>1. g + c = h
    BY <1>2, <1>9 DEF Whole
  <2>2. Sunk(m)' = [i \in 1..g |-> i]
    BY <1>3, PrefixElements DEF Elements1To
  <2>3. c # 0 => w[g + 1] = "cluster"
    <3>1. c # 0 => w[h - c + 1] = IF chunks_read_[m] + 1 = 0 THEN "header"
                                  ELSE "cluster"
      <4>1. Aligned(buffer_'[m], 0, chunks_read_[m] + 1, w)
        BY <1>2 DEF Taken
      <4> QED
        BY <1>7, <4>1 DEF Aligned
    <3>2. h - c = g /\ chunks_read_[m] + 1 # 0
      <4> HIDE DEF b, c, e, f, g, h
      <4> QED
        BY <1>3, <1>4, <2>1
    <3> QED
      BY <3>1, <3>2
  <2> HIDE DEF b, c, e, f, g, h
  <2>4. /\ g \in (f + 1)..h
        /\ g = h <=> c = 0
        /\ h # 0
    BY <1>4, <1>5, <2>1
  <2>5. /\ c = 0 => StreamOver(m)' = TRUE
        /\ c # 0 => StreamOver(m)' = FALSE
    BY <1>8, <1>o, <2>1, <2>4
  <2>6. PassesTo(m, g)
    <3>1. IF g = Len(w) THEN StreamOver(m)' = TRUE
          ELSE w[g + 1] = "cluster" /\ StreamOver(m)' = FALSE
      <4>1. CASE c = 0
        BY <2>4, <2>5, <4>1 DEF h
      <4>2. CASE c # 0
        BY <2>3, <2>4, <2>5, <4>2 DEF h
      <4> QED
        BY <4>1, <4>2
    <3> QED
      BY <1>2, <1>6, <2>2, <3>1 DEF PassesTo
  <2>7. Passes(m)
    BY <2>4, <2>6 DEF Passes, f, h
  <2> QED
    BY <2>7
<1>10. CASE ~ok
  <2>1. Sunk(m)' = Sunk(m)
    BY <1>10 DEF Sunk, ChunksOf
  <2>2. g = f
    BY <2>1
  <2> HIDE DEF b, c, e, f, g, h
  <2>3. g + c # h
    BY <1>4, <1>5, <2>2
  <2>4. StreamOver(m)' = TRUE
    BY <1>8, <1>o, <2>3
  <2> QED
    BY <1>2, <1>6, <2>1, <2>4 DEF Loses
<1> QED
  BY <1>9, <1>10

(* A chunk of one of the streams is passed on, or is not.                  *)
LEMMA ChunkStep ==
  ASSUME IInv, IInv', EncoderAssumption, NEW o \in Streams,
         NEW m \in Streams, NEW ok \in BOOLEAN, Whole(o), ChunkReady(o),
         CanName, WriteChunk(o, ok), UNCHANGED <<dash_vars, enabled>>, Begun'
  PROVE  Same(m) \/ Passes(m) \/ Loses(m)
<1>1. /\ Muxing /\ sink \in Seq(Range(sink)) /\ chunks_read_[o] \in Nat
      /\ ok => Whole(o)' /\ EraseChunk(o)
  <2>1. ok => Whole(o)' /\ EraseChunk(o)
    BY ChunkWritten
  <2> QED
    BY <2>1 DEF IInv, Sent, Muxing
<1>2. \/ /\ EraseChunk(o)
         /\ sink' = IF ok THEN Append(sink, Entry(o)) ELSE sink
      \/ UNCHANGED <<mux_vars, sink>>
  BY DEF WriteChunk
<1>3. CASE UNCHANGED <<mux_vars, sink>>
  BY <1>3, NothingNew DEF mux_vars, Sunk, ChunksOf
<1>4. CASE /\ EraseChunk(o)
           /\ sink' = IF ok THEN Append(sink, Entry(o)) ELSE sink
  <2>1. CASE m = o
    BY <1>1, <1>4, <2>1, ChunkPasses
  <2>2. CASE m # o
    <3>1. buffer_'[m] = buffer_[m] /\ written'[m] = written[m]
      BY <1>1, <1>4, <2>2, OthersKept
    <3>2. ~IsChunkOf(m, Entry(o))
      BY <1>1, <2>2, EntryNamed
    <3>3. Sunk(m)' = Sunk(m)
      <4>1. CASE ok
        BY <1>1, <1>4, <3>2, <4>1, NotSunk
      <4>2. CASE ~ok
        BY <1>4, <4>2 DEF Sunk, ChunksOf
      <4> QED
        BY <4>1, <4>2
    <3> QED
      BY <3>1, <3>3, NothingNew
  <2> QED
    BY <2>1, <2>2
<1> QED
  BY <1>2, <1>3, <1>4

(* Each step of the program is one of LiveStream, or none, for each of the *)
(* streams.                                                                *)
LEMMA StreamSimulation ==
  ASSUME EncoderAssumption, IInv, IInv', [Next]_vars, NEW m \in Streams
  PROVE  Same(m) \/ Grows(m) \/ Passes(m) \/ Loses(m)
<1>q. ASSUME UNCHANGED <<buffer_, written, sink>> PROVE Same(m)
  BY <1>q, NothingNew DEF Sunk, ChunksOf
<1>f. ASSUME NEW o \in Streams, NEW b \in BOOLEAN, AddFrame(o, b),
             UNCHANGED <<sink, dash_name>>, ~Ended, ~Ending
      PROVE  Same(m) \/ Grows(m)
  <2>1. CASE m = o
    BY <1>f, <2>1, FrameGrows
  <2>2. CASE m # o
    <3>1. buffer_'[m] = buffer_[m] /\ written'[m] = written[m]
      BY <1>f, <2>2, OthersKept DEF IInv
    <3> QED
      BY <1>f, <3>1, NothingNew DEF Sunk, ChunksOf
  <2> QED
    BY <2>1, <2>2
<1>1. CASE \/ RunSource \/ WaitForSamples \/ LoopTop \/ CheckStatus
           \/ EncodeAudioBuffer \/ StopSource
  BY <1>1, <1>q DEF RunSource, WaitForSamples, LoopTop, CheckStatus,
     EncodeAudioBuffer, StopSource, mux_vars
<1>2. CASE SendManifest
  <2> DEFINE e == [id |-> ManifestId, chunk |-> WriteManifest(dash_writer')]
  <2>1. /\ buffer_' = buffer_ /\ written' = written
        /\ sink' = sink \/ sink' = Append(sink, e)
    BY <1>2 DEF SendManifest, mux_vars, ManifestId
  <2>2. CASE sink' = sink
    BY <1>q, <2>1, <2>2
  <2>3. CASE sink' = Append(sink, e)
    <3>1. e.id = ManifestId
      OBVIOUS
    <3>2. Len(ManifestId) = 2
      BY DEF ManifestId
    <3> HIDE DEF e
    <3>3. ~IsChunkOf(m, e)
      BY <3>1, <3>2 DEF IsChunkOf
    <3>4. Sunk(m)' = Sunk(m)
      BY <2>3, <3>3, NotSunk DEF IInv, Sent
    <3> QED
      BY <2>1, <3>4, NothingNew
  <2> QED
    BY <2>1, <2>2, <2>3
<1>3. CASE MuxAudio
  <2>1. /\ sink' = sink /\ dash_name' = dash_name /\ ~Ended /\ ~Ending
        /\ UNCHANGED mux_vars \/ \E b \in BOOLEAN : AddFrame(Audio, b)
    BY <1>3 DEF MuxAudio, ThreadStep, Running, Ended, Ending
  <2> QED
    BY <1>f, <1>q, <2>1 DEF Streams, mux_vars
<1>4. CASE EncodeVideo
  <2>1. /\ sink' = sink /\ dash_name' = dash_name /\ ~Ended /\ ~Ending
        /\ UNCHANGED mux_vars \/ \E b \in BOOLEAN : AddFrame(Video, b)
    BY <1>4 DEF EncodeVideo, ThreadStep, Running, Ended, Ending
  <2> QED
    BY <1>f, <1>q, <2>1 DEF Streams, mux_vars
<1>5. CASE WriteMuxerChunkToDataSink
  <2>1. /\ UNCHANGED <<dash_vars, enabled>> /\ thread = "chunk"
        /\ stream \in Streams
    <3>1. UNCHANGED <<dash_vars, enabled>> /\ thread = "chunk"
      BY <1>5 DEF WriteMuxerChunkToDataSink, ThreadStep, Running, dash_vars
    <3> QED
      BY <3>1, IInvParts DEF Rest, Control
  <2>2. PICK o \in Streams : o = stream
    BY <2>1
  <2>3. Whole(o)
    BY <2>1 DEF IInv, WholeUntilOver, Ended, Ending
  <2>4. Begun'
    BY <1>5, <2>1 DEF WriteMuxerChunkToDataSink, NextMuxer, NameFails, Break,
                      Begun
  <2>5. \/ UNCHANGED <<mux_vars, sink>>
        \/ /\ ChunkReady(o) /\ CanName
           /\ \E ok \in BOOLEAN : WriteChunk(o, ok)
    BY <1>5, <2>2 DEF WriteMuxerChunkToDataSink, NameFails
  <2>6. CASE UNCHANGED <<mux_vars, sink>>
    BY <1>q, <2>6 DEF mux_vars
  <2> QED
    BY <2>1, <2>3, <2>4, <2>5, <2>6, ChunkStep
<1>6. CASE FinalizeMuxer
  BY <1>6, <1>q DEF FinalizeMuxer, Finalize, mux_vars
<1>7. CASE WriteLastChunk
  <2>1. /\ UNCHANGED <<dash_vars, enabled>> /\ thread = "last_chunk"
        /\ stream \in Streams
    <3>1. UNCHANGED <<dash_vars, enabled>> /\ thread = "last_chunk"
      BY <1>7 DEF WriteLastChunk, ThreadStep, Running, dash_vars
    <3> QED
      BY <3>1, IInvParts DEF Rest, Control
  <2>2. PICK o \in Streams : o = stream
    BY <2>1
  <2>3. Whole(o)
    BY <2>1, <2>2 DEF IInv, WholeUntilOver, Ended, Ending
  <2>4. Begun'
    BY <1>7, <2>1 DEF WriteLastChunk, NextMuxer, NameFails, Begun
  <2>5. \/ UNCHANGED <<mux_vars, sink>>
        \/ /\ ChunkReady(o) /\ CanName
           /\ \E ok \in BOOLEAN : WriteChunk(o, ok)
    BY <1>7, <2>2 DEF WriteLastChunk, NameFails
  <2>6. CASE UNCHANGED <<mux_vars, sink>>
    BY <1>q, <2>6 DEF mux_vars
  <2> QED
    BY <2>1, <2>3, <2>4, <2>5, <2>6, ChunkStep
<1>8. CASE MainThread
  BY <1>8, <1>q DEF MainThread, PollLock, PollUnlock, StopLock, StopFlag,
     StopJoin, MainStep, mux_vars
<1>9. CASE \E s \in Streams : Capture(s)
  BY <1>9, <1>q DEF Capture, mux_vars
<1>10. CASE UNCHANGED vars
  BY <1>10, <1>q DEF vars, mux_vars
<1> QED
  BY <1>1, <1>2, <1>3, <1>4, <1>5, <1>6, <1>7, <1>8, <1>9, <1>10
     DEF Next, EncoderThread

(* A player gets each stream from its beginning on, in chunks that end     *)
(* where a cluster begins, and after a chunk was lost or the last one      *)
(* passed on nothing of the stream follows: muxer, encoder thread and data *)
(* sink implement LiveStream.                                              *)
THEOREM StreamsPromisedHolds == Spec => StreamsPromised
<1>1. Audio \in Streams /\ Video \in Streams
  BY DEF Streams
<1>2. ASSUME Init, NEW m \in Streams
      PROVE  /\ written[m] = <<>> /\ Sunk(m) = <<>>
             /\ StreamOver(m) = FALSE
  <2>1. buffer_[m] = <<>> /\ written[m] = <<>> /\ sink = <<>>
    BY <1>2, EncoderAssumption DEF Init, MuxInit, EncoderAssumption
  <2>2. Sunk(m) = <<>>
    BY <2>1, NothingSunk DEF Sunk, ChunksOf
  <2> QED
    BY <2>1, <2>2 DEF StreamOver
<1>3. Init => AudioStream!Init /\ VideoStream!Init
  BY <1>1, <1>2 DEF AudioStream!Init, VideoStream!Init
<1>4. IInv /\ IInv' /\ [Next]_vars
        => [AudioStream!Next]_AudioStream!stream_vars
  <2> SUFFICES ASSUME IInv, IInv', [Next]_vars
               PROVE  [AudioStream!Next]_AudioStream!stream_vars
    OBVIOUS
  <2>1. Same(Audio) \/ Grows(Audio) \/ Passes(Audio) \/ Loses(Audio)
    BY <1>1, EncoderAssumption, StreamSimulation
  <2> QED
    BY <2>1 DEF Same, Grows, Passes, PassesTo, Loses, AudioStream!Next,
       AudioStream!Grow, AudioStream!Pass, AudioStream!Lose,
       AudioStream!stream_vars
<1>5. IInv /\ IInv' /\ [Next]_vars
        => [VideoStream!Next]_VideoStream!stream_vars
  <2> SUFFICES ASSUME IInv, IInv', [Next]_vars
               PROVE  [VideoStream!Next]_VideoStream!stream_vars
    OBVIOUS
  <2>1. Same(Video) \/ Grows(Video) \/ Passes(Video) \/ Loses(Video)
    BY <1>1, EncoderAssumption, StreamSimulation
  <2> QED
    BY <2>1 DEF Same, Grows, Passes, PassesTo, Loses, VideoStream!Next,
       VideoStream!Grow, VideoStream!Pass, VideoStream!Lose,
       VideoStream!stream_vars
<1> QED
  BY <1>3, <1>4, <1>5, IInvHolds, PTL
     DEF Spec, StreamsPromised, AudioStream!Spec, VideoStream!Spec
=============================================================================
