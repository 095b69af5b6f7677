-------------------------- MODULE BufferPoolProofs --------------------------
(***************************************************************************)
(* What holds of BufferPool for any size of the pool, any sample lengths   *)
(* and any number of samples and failing allocations.  That samples stay   *)
(* intact while members are swapped through every object needs that no     *)
(* object is in two places, and that the pool never dies needs that an     *)
(* object without storage claims no capacity.                              *)
(***************************************************************************)
EXTENDS BufferPool, SequenceLemmas

(* The two queues share out the objects of the pool.                       *)
Shared(p, q, r) ==
  /\ p \in Seq(Object) /\ q \in Seq(Nat) /\ r \in Seq(Nat)
  /\ Len(q) + Len(r) = Len(p)
  /\ Members(q) \cup Members(r) = 1..Len(p)
  /\ Members(q) \cap Members(r) = {}
  /\ Distinct(q) /\ Distinct(r)

QueueInv == Shared(pool, inactive, active)

(* An object of the pool or of the encoder that has no storage claims      *)
(* none.  This is not so of the sink filter's, but Commit rejects it then. *)
Honest(o) == o.has_buffer \/ o.capacity = 0

StorageInv ==
  /\ \A o \in 1..Len(pool) : Honest(pool[o])
  /\ Honest(raw_buffer)

(* What Exchange is called with: a sample with its storage, not empty if   *)
(* it is audio.                                                            *)
Sound(o, n) == Holds(o, n) /\ (media = "audio" => o.length > 0)

CaptureInv ==
  capture = "commit" =>
    /\ received > 0
    /\ sample_buffer.has_buffer => Sound(sample_buffer, received)

ActiveInv ==
  /\ taken + Len(active) = Len(committed)
  /\ \A i \in 1..Len(active) : Sound(pool[active[i]], committed[taken + i])
  /\ encoder = "got" => taken > 0 /\ Holds(raw_buffer, committed[taken])

IInv == /\ TypeOK /\ QueueInv /\ StorageInv /\ CaptureInv /\ ActiveInv
        /\ PeekedIsNext /\ PoolIsSafe

-----------------------------------------------------------------------------
(* The queues. *)

LEMMA SharedSwap ==
  ASSUME NEW p, NEW q, NEW r, Shared(p, q, r)
  PROVE  Shared(p, r, q)
<1>1. Len(q) \in Nat /\ Len(r) \in Nat
  BY LenProperties DEF Shared
<1> QED
  BY <1>1 DEF Shared

(* The front object of one queue goes to the end of the other. *)
LEMMA SharedMove ==
  ASSUME NEW p, NEW q, NEW r, Shared(p, q, r), q # <<>>
  PROVE  /\ Shared(p, Tail(q), Append(r, Head(q)))
         /\ Head(q) \in 1..Len(p) /\ Head(q) \notin Members(r)
<1>1. q \in Seq(Nat) /\ r \in Seq(Nat) /\ p \in Seq(Object)
  BY DEF Shared
<1>2. /\ Head(q) \in Nat /\ Tail(q) \in Seq(Nat)
      /\ Members(q) = Members(Tail(q)) \cup {Head(q)}
      /\ Head(q) \notin Members(Tail(q)) /\ Distinct(Tail(q))
  BY <1>1, MembersTail DEF Shared
<1>3. Head(q) \in 1..Len(p) /\ Head(q) \notin Members(r)
  BY <1>2 DEF Shared
<1>4. /\ Append(r, Head(q)) \in Seq(Nat)
      /\ Members(Append(r, Head(q))) = Members(r) \cup {Head(q)}
      /\ Distinct(Append(r, Head(q)))
  BY <1>1, <1>2, <1>3, MembersAppend, AppendProperties DEF Shared
<1>5. Len(Tail(q)) + Len(Append(r, Head(q))) = Len(p)
  <2> DEFINE a == Len(q)
             b == Len(r)
  <2>1. a \in Nat /\ b \in Nat /\ a + b = Len(p)
    BY <1>1, LenProperties DEF Shared
  <2>2. Len(Tail(q)) = a - 1 /\ Len(Append(r, Head(q))) = b + 1
    BY <1>1, <1>2, MembersTail, AppendProperties
  <2> HIDE DEF a, b
  <2> QED
    BY <2>1, <2>2
<1>6. Members(Tail(q)) \cup Members(Append(r, Head(q))) = 1..Len(p)
  BY <1>2, <1>4 DEF Shared
<1>7. Members(Tail(q)) \cap Members(Append(r, Head(q))) = {}
  BY <1>2, <1>4 DEF Shared
<1> QED
  BY <1>1, <1>2, <1>3, <1>4, <1>5, <1>6, <1>7 DEF Shared

(* The state of an object does not matter to the queues. *)
LEMMA SharedUpdate ==
  ASSUME NEW p, NEW q, NEW r, Shared(p, q, r), NEW o \in 1..Len(p),
         NEW x \in Object
  PROVE  /\ Shared([p EXCEPT ![o] = x], q, r)
         /\ Len([p EXCEPT ![o] = x]) = Len(p)
         /\ \A i \in 1..Len(p) :
              [p EXCEPT ![o] = x][i] = IF i = o THEN x ELSE p[i]
<1>1. p \in Seq(Object)
  BY DEF Shared
<1> DEFINE e == [p EXCEPT ![o] = x]
<1>2. /\ e \in Seq(Object) /\ Len(e) = Len(p)
      /\ \A i \in 1..Len(p) : e[i] = IF i = o THEN x ELSE p[i]
  BY <1>1, ExceptSeq
<1> HIDE DEF e
<1>3. Shared(e, q, r)
  BY <1>2 DEF Shared
<1> QED
  BY <1>2, <1>3 DEF e

(* A pool without an inactive object grows by one. *)
LEMMA SharedGrown ==
  ASSUME IInv
  PROVE  /\ Shared(Grown, GrownInactive, active) /\ GrownInactive # <<>>
         /\ \A o \in 1..Len(Grown) : Honest(Grown[o])
         /\ \A o \in Members(active) : o \in 1..Len(pool) /\ Grown[o] = pool[o]
<1>1. Shared(pool, inactive, active)
  BY DEF IInv, QueueInv
<1>2. NewObject \in Object /\ Honest(NewObject)
  BY DEF NewObject, Object, Honest
<1>3. \A o \in Members(active) : o \in 1..Len(pool)
  BY <1>1 DEF Shared
<1>4. CASE inactive = <<>>
  <2> DEFINE n == Len(pool) + 1
  <2>1. /\ Grown \in Seq(Object) /\ Len(Grown) = n /\ Len(pool) \in Nat
        /\ \A o \in 1..Len(pool) : Grown[o] = pool[o]
        /\ Grown[n] = NewObject
    BY <1>1, <1>2, <1>4, AppendProperties, LenProperties DEF Grown, Shared
  <2>2. /\ GrownInactive \in Seq(Nat) /\ Len(GrownInactive) = 1
        /\ GrownInactive = <<n>> /\ GrownInactive[1] = n
    BY <1>4, <2>1 DEF GrownInactive
  <2>3. Members(GrownInactive) = {n} /\ Distinct(GrownInactive)
    BY <2>2 DEF Members, Distinct
  <2>4. Members(active) = 1..Len(pool) /\ Len(active) = Len(pool)
    <3>1. Members(inactive) = {} /\ Len(inactive) = 0 /\ Len(active) \in Nat
      BY <1>1, <1>4, LenProperties DEF Members, Shared
    <3> QED
      BY <1>1, <3>1 DEF Shared
  <2>5. Shared(Grown, GrownInactive, active)
    <3>1. Members(GrownInactive) \cup Members(active) = 1..Len(Grown)
      BY <2>1, <2>3, <2>4
    <3>2. Members(GrownInactive) \cap Members(active) = {}
      BY <2>1, <2>3, <2>4
    <3>3. Len(GrownInactive) + Len(active) = Len(Grown)
      BY <2>1, <2>2, <2>4
    <3> QED
      BY <1>1, <2>1, <2>2, <2>3, <3>1, <3>2, <3>3 DEF Shared
  <2>6. GrownInactive # <<>>
    BY <2>2
  <2>7. ASSUME NEW o \in 1..Len(Grown) PROVE Honest(Grown[o])
    <3>1. o \in 1..Len(pool) \/ o = n
      BY <2>1
    <3> QED
      BY <3>1, <2>1, <1>2 DEF IInv, StorageInv
  <2> QED
    BY <1>3, <2>1, <2>5, <2>6, <2>7
<1>5. CASE inactive # <<>>
  BY <1>1, <1>3, <1>5 DEF Grown, GrownInactive, IInv, StorageInv
<1> QED
  BY <1>4, <1>5

-----------------------------------------------------------------------------
(* What Exchange does to a sample: on success the target holds it, on      *)
(* failure the source still does, and storage is never missing.            *)
LEMMA ExchangeOutcome ==
  ASSUME media \in {"audio", "video"},
         NEW source \in Object, NEW target \in Object, NEW n \in Nat,
         Sound(source, n), Honest(target),
         NEW x \in Exchange(source, target)
  PROVE  /\ x.status \in {"success", "no_memory"}
         /\ x.source \in Object /\ x.target \in Object
         /\ Honest(x.source) /\ Honest(x.target)
         /\ x.status = "success" => Sound(x.target, n)
         /\ x.status = "no_memory" =>
              x.source = source /\ failures < MaxFailures
<1> USE DEF Outcome, Sound, Holds, Honest, Object
<1>1. CASE target.has_buffer
  <2>1. x = Swap(source, target)
    BY <1>1 DEF Exchange
  <2>2. CASE media = "video"
    <3>1. x = Outcome("success", target, source)
      BY <1>1, <2>1, <2>2 DEF Swap, VideoSwap
    <3> QED
      BY <1>1, <2>2, <3>1
  <2>3. CASE media = "audio"
    <3>1. x = Outcome("success", [target EXCEPT !.timestamp = source.timestamp,
                                                !.duration = target.timestamp],
                      source)
      BY <1>1, <2>1, <2>3 DEF Swap, AudioSwap
    <3> QED
      BY <1>1, <2>3, <3>1
  <2> QED
    BY <2>2, <2>3
<1>2. CASE ~target.has_buffer
  <2>1. x \in Clone(source, target) /\ target.capacity = 0
    BY <1>2 DEF Exchange
  <2>2. CloneAllocates(source, target)
    BY <2>1 DEF CloneAllocates
  <2>3. CloneCapacity(source, target) \in Nat
    BY <2>2 DEF CloneCapacity
  <2>4. CASE x = Outcome("success", source,
                   [source EXCEPT !.capacity = CloneCapacity(source, target)])
    BY <2>3, <2>4
  <2>5. CASE /\ failures < MaxFailures
             /\ x = Outcome("no_memory", source,
                            [target EXCEPT !.has_buffer = FALSE])
    BY <2>1, <2>5
  <2> QED
    BY <2>1, <2>2, <2>4, <2>5 DEF Clone
<1> QED
  BY <1>1, <1>2

-----------------------------------------------------------------------------
(* The pool after BufferPool::Init. *)
LEMMA InitIInv == Init => IInv
<1> SUFFICES ASSUME Init PROVE IInv
  OBVIOUS
<1> USE PoolAssumption DEF Init
<1>0. NewObject \in Object /\ Honest(NewObject)
  BY DEF NewObject, Object, Honest
<1>1. /\ pool \in Seq(Object) /\ Len(pool) = NumBuffers
      /\ \A o \in 1..NumBuffers : pool[o] = NewObject
  BY <1>0
<1>2. /\ inactive \in Seq(Nat) /\ Len(inactive) = NumBuffers
      /\ \A i \in 1..NumBuffers : inactive[i] = i
  BY SMT
<1>3. Members(inactive) = 1..NumBuffers /\ Distinct(inactive)
  BY <1>2 DEF Members, Distinct
<1>4. /\ active \in Seq(Nat) /\ Len(active) = 0 /\ Members(active) = {}
      /\ Distinct(active)
  BY EmptySeq DEF Members, Distinct
<1>5. QueueInv
  BY <1>1, <1>2, <1>3, <1>4 DEF QueueInv, Shared
<1>6. TypeOK
  <2>1. inactive \in Seq(1..Len(pool)) /\ active \in Seq(1..Len(pool))
    BY <1>1, <1>2, <1>3, <1>4, MembersSubset
  <2>2. /\ committed \in Seq(1..MaxSamples) /\ Len(committed) = 0
        /\ taken \in 0..Len(committed)
    BY EmptySeq
  <2>3. received \in 0..MaxSamples /\ failures \in 0..MaxFailures
    OBVIOUS
  <2> QED
    BY <1>0, <1>1, <2>1, <2>2, <2>3 DEF TypeOK
<1>7. StorageInv
  BY <1>0, <1>1 DEF StorageInv
<1>8. CaptureInv /\ PoolIsSafe /\ PeekedIsNext
  BY DEF CaptureInv, PoolIsSafe, PeekedIsNext
<1>9. ActiveInv
  <2>1. Len(committed) = 0 /\ 1..Len(active) = {}
    BY <1>4
  <2> QED
    BY <1>4, <2>1 DEF ActiveInv
<1> QED
  BY <1>5, <1>6, <1>7, <1>8, <1>9 DEF IInv

(* The facts about the constants and the times of a sample. *)
LEMMA TimesAreNumbers ==
  ASSUME NEW n \in Nat
  PROVE  Timestamp(n) \in Nat /\ Duration(n) \in Nat
BY DEF Timestamp, Duration

(* A step that leaves the pool and the encoder alone. *)
LEMMA CaptureFrame ==
  ASSUME IInv,
         UNCHANGED <<media, queues, raw_buffer, encoder, peeked, committed,
                     taken>>,
         sample_buffer' \in Object, capture' \in {"idle", "commit"},
         received' \in 0..MaxSamples, failures' \in 0..MaxFailures,
         fault' \in {"none", "init"}, CaptureInv'
  PROVE  IInv'
<1> USE DEF queues
<1>1. TypeOK'
  BY DEF IInv, TypeOK
<1>2. QueueInv' /\ StorageInv'
  BY DEF IInv, QueueInv, StorageInv
<1>3. ActiveInv'
  BY DEF IInv, ActiveInv, Sound
<1>4. PeekedIsNext' /\ PoolIsSafe'
  BY DEF IInv, PeekedIsNext, PoolIsSafe
<1> QED
  BY <1>1, <1>2, <1>3, <1>4 DEF IInv

(* An object that Init has filled, or that ConvertToI420 has spoilt.        *)
LEMMA FilledObject ==
  ASSUME NEW o \in Object, NEW n \in Nat, NEW length \in Nat,
         NEW f, f = Filled(o, n, length)
  PROVE  /\ f \in Object /\ f.has_buffer = o.has_buffer
         /\ f.length = length /\ f.data = n
         /\ f.timestamp = Timestamp(n) /\ f.duration = Duration(n)
<1> DEFINE t == Timestamp(n)
           d == Duration(n)
<1>1. t \in Nat /\ d \in Nat
  BY TimesAreNumbers
<1>2. f = [o EXCEPT !.length = length, !.data = n, !.timestamp = t,
                    !.duration = d]
  BY DEF Filled
<1> HIDE DEF t, d
<1>3. f \in Object
  BY <1>1, <1>2 DEF Object
<1>4. /\ f.has_buffer = o.has_buffer /\ f.length = length /\ f.data = n
      /\ f.timestamp = t /\ f.duration = d
  BY <1>2 DEF Object
<1> QED
  BY <1>3, <1>4 DEF t, d

LEMMA EmptiedObject ==
  ASSUME NEW o \in Object
  PROVE  [o EXCEPT !.has_buffer = FALSE] \in Object
BY DEF Object

LEMMA SpoiltObject ==
  ASSUME NEW o \in Object, NEW n \in Nat, NEW length \in Nat
  PROVE  [o EXCEPT !.has_buffer = TRUE,
                   !.capacity = IF length > @ THEN length ELSE @,
                   !.length = length, !.data = n] \in Object
BY DEF Object

(* Init, on the sink filter's object. *)
LEMMA InitActions ==
  ASSUME IInv, NEW length \in SampleLengths,
         \/ InitAllocates(length) \/ InitCannotAllocate(length)
         \/ InitReuses(length) \/ InitCannotConvert(length)
  PROVE  IInv'
<1>t. /\ media \in {"audio", "video"} /\ sample_buffer \in Object
      /\ received \in 0..MaxSamples /\ failures \in 0..MaxFailures
      /\ MaxSamples \in Nat /\ MaxFailures \in Nat
      /\ capture \in {"idle", "commit"}
  BY PoolAssumption DEF IInv, TypeOK
<1>l. length \in Nat /\ (media = "audio" => length > 0)
  BY <1>t, PoolAssumption DEF SampleLengths
<1>s. InitStep
  BY DEF InitAllocates, InitCannotAllocate, InitReuses, InitCannotConvert
<1>r. /\ received' = received + 1 /\ received' \in 0..MaxSamples
      /\ received' > 0 /\ received + 1 \in Nat
      /\ capture = "idle" /\ fault = "none" /\ media' = media
      /\ UNCHANGED <<media, queues, raw_buffer, encoder, peeked, committed,
                     taken>>
  BY <1>s, <1>t DEF InitStep, Running
<1>f. /\ Filled(sample_buffer, received + 1, length) \in Object
      /\ Filled(sample_buffer, received + 1, length).length = length
      /\ Filled(sample_buffer, received + 1, length).data = received + 1
      /\ Filled(sample_buffer, received + 1, length).timestamp
           = Timestamp(received + 1)
      /\ Filled(sample_buffer, received + 1, length).duration
           = Duration(received + 1)
  BY <1>t, <1>l, <1>r, FilledObject
<1>i. capture' = "idle" => CaptureInv'
  BY DEF CaptureInv
<1>1. CASE InitAllocates(length)
  <2>1. /\ sample_buffer' = [Filled(sample_buffer, received + 1, length)
                               EXCEPT !.has_buffer = TRUE, !.capacity = length]
        /\ UNCHANGED <<failures, fault>> /\ capture' = "commit"
    BY <1>1 DEF InitAllocates
  <2> DEFINE f == Filled(sample_buffer, received + 1, length)
  <2> HIDE DEF f
  <2>2. sample_buffer' = [f EXCEPT !.has_buffer = TRUE, !.capacity = length]
    BY <2>1 DEF f
  <2>3. /\ f \in Object /\ f.length = length /\ f.data = received + 1
        /\ f.timestamp = Timestamp(received + 1)
        /\ f.duration = Duration(received + 1)
    BY <1>f DEF f
  <2>a. /\ sample_buffer' \in Object /\ sample_buffer'.has_buffer
        /\ sample_buffer'.length = f.length /\ sample_buffer'.data = f.data
        /\ sample_buffer'.timestamp = f.timestamp
        /\ sample_buffer'.duration = f.duration
    <3>1. ASSUME NEW g, g = sample_buffer'
          PROVE  /\ g \in Object /\ g.has_buffer /\ g.length = f.length
                 /\ g.data = f.data /\ g.timestamp = f.timestamp
                 /\ g.duration = f.duration
      <4>1. g = [f EXCEPT !.has_buffer = TRUE, !.capacity = length]
        BY <2>2, <3>1
      <4> QED
        BY <4>1, <2>3, <1>l DEF Object
    <3> QED
      BY <3>1
  <2>4. /\ sample_buffer' \in Object /\ sample_buffer'.has_buffer
        /\ sample_buffer'.length = length /\ sample_buffer'.data = received + 1
        /\ sample_buffer'.timestamp = Timestamp(received + 1)
        /\ sample_buffer'.duration = Duration(received + 1)
    BY <2>3, <2>a
  <2>5. CaptureInv'
    BY <2>4, <1>l, <1>r DEF CaptureInv, Sound, Holds
  <2> QED
    BY <2>1, <2>4, <2>5, <1>r, <1>t, CaptureFrame
<1>2. CASE InitCannotAllocate(length)
  <2>1. /\ failures < MaxFailures /\ failures' = failures + 1
        /\ sample_buffer' = [sample_buffer EXCEPT !.has_buffer = FALSE]
        /\ capture' = "idle" /\ fault' = "none"
    BY <1>2, <1>r DEF InitCannotAllocate
  <2>2. sample_buffer' \in Object /\ failures' \in 0..MaxFailures
    BY <2>1, <1>t, EmptiedObject
  <2> QED
    BY <2>1, <2>2, <1>r, <1>i, CaptureFrame
<1>3. CASE InitReuses(length)
  <2>1. CASE sample_buffer.has_buffer \/ length = 0
    <3>1. /\ sample_buffer' = Filled(sample_buffer, received + 1, length)
          /\ UNCHANGED <<failures, fault>> /\ capture' = "commit"
      BY <1>3, <2>1 DEF InitReuses
    <3>2. CaptureInv'
      BY <3>1, <1>f, <1>l, <1>r DEF CaptureInv, Sound, Holds
    <3> QED
      BY <3>1, <3>2, <1>f, <1>r, <1>t, CaptureFrame
  <2>2. CASE ~(sample_buffer.has_buffer \/ length = 0)
    <3>1. fault' = "init" /\ UNCHANGED <<sample_buffer, capture, failures>>
      BY <1>3, <2>2 DEF InitReuses
    <3> QED
      BY <3>1, <1>r, <1>t, <1>i, CaptureFrame
  <2> QED
    BY <2>1, <2>2
<1>4. CASE InitCannotConvert(length)
  <2>1. /\ sample_buffer' = [sample_buffer EXCEPT
                               !.has_buffer = TRUE,
                               !.capacity = IF length > @ THEN length ELSE @,
                               !.length = length, !.data = received + 1]
        /\ UNCHANGED <<failures, fault>> /\ capture' = "idle"
    BY <1>4, <1>r DEF InitCannotConvert
  <2>2. sample_buffer' \in Object
    BY <2>1, <1>t, <1>l, <1>r, SpoiltObject
  <2> QED
    BY <2>1, <2>2, <1>r, <1>t, <1>i, CaptureFrame
<1> QED
  BY <1>1, <1>2, <1>3, <1>4

-----------------------------------------------------------------------------
(* Commit. *)

(* Commit turns the sample away. *)
LEMMA CommitRejects ==
  ASSUME IInv, CommitInvalid \/ CommitFull \/ CommitCannotGrow
  PROVE  IInv'
<1>t. /\ sample_buffer \in Object /\ received \in 0..MaxSamples
      /\ failures \in 0..MaxFailures /\ MaxFailures \in Nat
  BY PoolAssumption DEF IInv, TypeOK
<1>1. CommitStep /\ UNCHANGED <<queues, sample_buffer, committed, fault>>
  BY DEF CommitInvalid, CommitFull, CommitCannotGrow
<1>2. failures' \in 0..MaxFailures
  <2>1. \/ failures' = failures
        \/ failures < MaxFailures /\ failures' = failures + 1
    BY DEF CommitInvalid, CommitFull, CommitCannotGrow
  <2> QED
    BY <2>1, <1>t
<1>3. /\ capture' = "idle" /\ fault = "none"
      /\ UNCHANGED <<media, raw_buffer, received, encoder, peeked, taken>>
  BY <1>1 DEF CommitStep, CommitReturns, Running
<1>4. CaptureInv'
  BY <1>3 DEF CaptureInv
<1> QED
  BY <1>t, <1>1, <1>2, <1>3, <1>4, CaptureFrame

(* What the queues say about the types of their elements. *)
LEMMA SharedTypes ==
  ASSUME NEW p, NEW q, NEW r, Shared(p, q, r)
  PROVE  /\ p \in Seq(Object)
         /\ q \in Seq(1..Len(p)) /\ r \in Seq(1..Len(p))
<1>1. Members(q) \subseteq 1..Len(p) /\ Members(r) \subseteq 1..Len(p)
  BY DEF Shared
<1> QED
  BY <1>1, MembersSubset DEF Shared

(* The types and numbers the steps below rely on. *)
LEMMA Typing ==
  ASSUME IInv
  PROVE  /\ media \in {"audio", "video"} /\ media \in MediaTypes
         /\ pool \in Seq(Object) /\ Len(pool) \in Nat
         /\ inactive \in Seq(Nat) /\ active \in Seq(Nat)
         /\ Len(active) \in Nat
         /\ sample_buffer \in Object /\ raw_buffer \in Object
         /\ capture \in {"idle", "commit"} /\ received \in 0..MaxSamples
         /\ encoder \in {"idle", "got"} /\ peeked \in Nat \cup {NoTimestamp}
         /\ committed \in Seq(1..MaxSamples) /\ Len(committed) \in Nat
         /\ taken \in Nat /\ taken \in 0..Len(committed)
         /\ failures \in 0..MaxFailures
         /\ MaxSamples \in Nat /\ MaxFailures \in Nat
<1>1. TypeOK /\ Shared(pool, inactive, active)
  BY DEF IInv, QueueInv
<1>2. Len(pool) \in Nat /\ Len(active) \in Nat /\ Len(committed) \in Nat
  BY <1>1, LenProperties DEF TypeOK
<1> QED
  BY <1>1, <1>2, PoolAssumption DEF TypeOK, Shared

(* The elements of active are objects of the pool. *)
LEMMA ActiveObjects ==
  ASSUME IInv
  PROVE  \A i \in 1..Len(active) :
           active[i] \in Members(active) /\ active[i] \in 1..Len(pool)
<1>1. Shared(pool, inactive, active)
  BY DEF IInv, QueueInv
<1>2. \A i \in 1..Len(active) : active[i] \in Members(active)
  BY DEF Members
<1> QED
  BY <1>1, <1>2 DEF Shared

(* Commit takes the sample over, or fails to find storage for it.          *)
LEMMA CommitExchanges ==
  ASSUME IInv, CommitExchange
  PROVE  IInv'
<1>t. /\ media \in {"audio", "video"} /\ sample_buffer \in Object
      /\ failures \in 0..MaxFailures /\ MaxFailures \in Nat
      /\ received \in 0..MaxSamples /\ MaxSamples \in Nat
      /\ committed \in Seq(1..MaxSamples) /\ Len(committed) \in Nat
      /\ taken \in Nat /\ taken \in 0..Len(committed)
      /\ active \in Seq(Nat) /\ Len(active) \in Nat
  BY Typing
<1>u. /\ capture = "commit" /\ capture' = "idle" /\ fault = "none"
      /\ UNCHANGED <<media, raw_buffer, received, encoder, peeked, taken>>
      /\ sample_buffer.has_buffer
  BY DEF CommitExchange, CommitStep, CommitReturns, Running
<1> DEFINE o == Head(GrownInactive)
<1>1. PICK x \in Exchange(sample_buffer, Grown[o]) :
           /\ pool' = [Grown EXCEPT ![o] = x.target]
           /\ sample_buffer' = x.source
           /\ CountFailure(x)
           /\ IF x.status = "success"
              THEN /\ inactive' = Tail(GrownInactive)
                   /\ active' = Append(active, o)
                   /\ committed' = Append(committed, received)
              ELSE /\ inactive' = GrownInactive
                   /\ UNCHANGED <<active, committed>>
  BY DEF CommitExchange
<1>2. /\ Shared(Grown, GrownInactive, active) /\ GrownInactive # <<>>
      /\ \A k \in 1..Len(Grown) : Honest(Grown[k])
      /\ \A k \in Members(active) : k \in 1..Len(pool) /\ Grown[k] = pool[k]
  BY SharedGrown
<1>3. o \in 1..Len(Grown) /\ o \notin Members(active)
  BY <1>2, SharedMove
<1>4. Grown \in Seq(Object) /\ Grown[o] \in Object /\ Honest(Grown[o])
  <2>1. Grown \in Seq(Object) /\ o \in 1..Len(Grown) /\ Honest(Grown[o])
    BY <1>2, <1>3 DEF Shared
  <2> QED
    BY <2>1, ElementOfSeq
<1>5. received \in Nat \ {0} /\ Sound(sample_buffer, received)
  BY <1>t, <1>u DEF IInv, CaptureInv
<1>6. /\ x.status \in {"success", "no_memory"}
      /\ x.source \in Object /\ x.target \in Object
      /\ Honest(x.source) /\ Honest(x.target)
      /\ x.status = "success" => Sound(x.target, received)
      /\ x.status = "no_memory" =>
           x.source = sample_buffer /\ failures < MaxFailures
  BY <1>t, <1>4, <1>5, ExchangeOutcome
<1> DEFINE p == [Grown EXCEPT ![o] = x.target]
<1>7. /\ Shared(p, GrownInactive, active) /\ Len(p) = Len(Grown)
      /\ \A k \in 1..Len(Grown) : p[k] = IF k = o THEN x.target ELSE Grown[k]
  BY <1>2, <1>3, <1>6, SharedUpdate
<1>8. pool' = p
  BY <1>1
<1> HIDE DEF o, p
<1>9. Shared(pool', inactive', active')
  <2>1. CASE x.status = "success"
    <3>1. Shared(p, Tail(GrownInactive), Append(active, o))
      BY <1>2, <1>7, SharedMove DEF o
    <3> QED
      BY <1>1, <1>8, <2>1, <3>1
  <2>2. CASE x.status = "no_memory"
    BY <1>1, <1>7, <1>8, <2>2
  <2> QED
    BY <1>6, <2>1, <2>2
<1>10. StorageInv'
  <2>1. Honest(raw_buffer)
    BY DEF IInv, StorageInv
  <2>2. \A k \in 1..Len(p) : Honest(p[k])
    BY <1>2, <1>6, <1>7
  <2> QED
    BY <1>8, <1>u, <2>1, <2>2 DEF StorageInv, Honest
<1>11. ASSUME NEW i \in 1..Len(active)
       PROVE  pool'[active[i]] = pool[active[i]]
  <2>1. active[i] \in Members(active) /\ active[i] \in 1..Len(Grown)
    BY <1>2 DEF Members, Shared
  <2> QED
    BY <1>2, <1>3, <1>7, <1>8, <2>1
<1>12. /\ committed' \in Seq(1..MaxSamples) /\ Len(committed') \in Nat
       /\ Len(committed) <= Len(committed')
       /\ \A i \in 1..Len(committed) : committed'[i] = committed[i]
       /\ x.status = "success" =>
            /\ Len(committed') = Len(committed) + 1
            /\ committed'[Len(committed) + 1] = received
  <2>1. CASE x.status = "success"
    <3>1. committed' = Append(committed, received) /\ received \in 1..MaxSamples
      BY <1>1, <1>t, <1>5, <2>1
    <3> QED
      BY <1>t, <3>1, AppendProperties
  <2>2. CASE x.status = "no_memory"
    BY <1>1, <1>t, <2>2
  <2> QED
    BY <1>6, <2>1, <2>2
<1>13. taken + Len(active') = Len(committed')
  <2> DEFINE c == Len(committed)
             a == Len(active)
  <2>0. taken + a = c /\ a \in Nat /\ c \in Nat /\ taken \in Nat
    BY <1>t DEF IInv, ActiveInv
  <2>1. CASE x.status = "success"
    <3>1. Len(active') = a + 1 /\ Len(committed') = c + 1
      BY <1>1, <1>t, <1>3, <1>12, <2>1, AppendProperties, <1>2 DEF Shared
    <3> HIDE DEF a, c
    <3> QED
      BY <2>0, <3>1
  <2>2. CASE x.status = "no_memory"
    BY <1>1, <2>0, <2>2
  <2> QED
    BY <1>6, <2>1, <2>2
<1>14. ASSUME NEW i \in 1..Len(active)
       PROVE  Sound(pool[active[i]], committed[taken + i])'
  <2>0. taken + Len(active) = Len(committed)
    BY DEF IInv, ActiveInv
  <2>1. taken + i \in 1..Len(committed)
    BY <1>t, <2>0
  <2>2. active'[i] = active[i]
    <3>1. CASE x.status = "success"
      <4>1. active' = Append(active, o) /\ o \in Nat
        BY <1>1, <1>2, <1>3, <3>1 DEF Shared
      <4> QED
        BY <1>t, <4>1, AppendProperties
    <3>2. CASE x.status = "no_memory"
      BY <1>1, <3>2
    <3> QED
      BY <1>6, <3>1, <3>2
  <2>3. (pool[active[i]])' = pool[active[i]]
    BY <1>11, <2>2
  <2>4. (committed[taken + i])' = committed[taken + i]
    BY <1>12, <1>u, <2>1
  <2>5. Sound(pool[active[i]], committed[taken + i])
    BY DEF IInv, ActiveInv
  <2> QED
    BY <2>3, <2>4, <2>5, <1>u DEF Sound
<1>15. ActiveInv'
  <2>1. encoder = "got" =>
           taken > 0 /\ Holds(raw_buffer', committed'[taken])
    <3>1. encoder = "got" => taken > 0 /\ Holds(raw_buffer, committed[taken])
      BY DEF IInv, ActiveInv
    <3>2. taken > 0 => taken \in 1..Len(committed)
      BY <1>t
    <3> QED
      BY <1>u, <1>12, <3>1, <3>2
  <2>2. ASSUME x.status = "success",
               NEW i \in 1..Len(active'), i \notin 1..Len(active)
        PROVE  Sound(pool[active[i]], committed[taken + i])'
    <3> DEFINE a == Len(active)
               c == Len(committed)
    <3>0. o \in Nat
      BY <1>2, <1>3 DEF Shared
    <3>1. /\ Len(active') = a + 1 /\ active'[a + 1] = o
          /\ committed'[c + 1] = received
      BY <1>1, <1>t, <1>12, <2>2, <3>0, AppendProperties
    <3>2. taken + a = c /\ a \in Nat /\ c \in Nat
      BY <1>t DEF IInv, ActiveInv
    <3> HIDE DEF a, c
    <3>3. i = a + 1
      BY <2>2, <3>1, <3>2 DEF a
    <3>4. taken + i = c + 1
      BY <1>t, <3>2, <3>3
    <3>5. pool'[active'[i]] = x.target /\ committed'[taken + i] = received
      BY <1>3, <1>7, <1>8, <3>1, <3>3, <3>4
    <3> QED
      BY <1>6, <1>u, <2>2, <3>5 DEF Sound
  <2>3. x.status # "success" => active' = active
    BY <1>1
  <2>4. ASSUME NEW i \in 1..Len(active')
        PROVE  Sound(pool[active[i]], committed[taken + i])'
    BY <1>14, <2>2, <2>3
  <2> QED
    BY <1>13, <1>u, <2>1, <2>4 DEF ActiveInv
<1>16. PeekedIsNext'
  <2>1. CASE peeked = NoTimestamp
    BY <1>u, <2>1 DEF PeekedIsNext
  <2>2. CASE peeked # NoTimestamp
    <3>1. active # <<>> /\ pool[Head(active)].timestamp = peeked
      BY <2>2 DEF IInv, PeekedIsNext
    <3>2. 1 \in 1..Len(active) /\ Head(active) = active[1]
      BY <1>t, <3>1, EmptySeq, HeadTailProperties
    <3>3. active' # <<>> /\ Head(active') = Head(active)
      <4>1. CASE x.status = "success"
        <5>1. /\ active' = Append(active, o) /\ o \in Nat
          BY <1>1, <1>2, <1>3, <4>1 DEF Shared
        <5>2. /\ active' \in Seq(Nat) /\ active' # <<>>
              /\ active'[1] = active[1]
          <6>1. active \in Seq(Nat) /\ o \in Nat /\ 1 \in 1..Len(active)
            BY <1>t, <3>2, <5>1
          <6> HIDE DEF o
          <6>2. /\ Append(active, o) \in Seq(Nat)
                /\ Append(active, o) # <<>>
                /\ \A i \in 1..Len(active) : Append(active, o)[i] = active[i]
            BY <6>1, AppendProperties
          <6> QED
            BY <5>1, <6>1, <6>2
        <5>3. Head(active') = active'[1]
          BY <5>2, HeadTailProperties
        <5> QED
          BY <3>2, <5>2, <5>3
      <4>2. CASE x.status = "no_memory"
        BY <1>1, <3>1, <4>2
      <4> QED
        BY <1>6, <4>1, <4>2
    <3>4. pool'[Head(active)] = pool[Head(active)]
      BY <1>11, <3>2
    <3> QED
      BY <1>u, <3>1, <3>3, <3>4 DEF PeekedIsNext
  <2> QED
    BY <2>1, <2>2
<1>17. failures' \in 0..MaxFailures /\ fault' = "none"
  BY <1>1, <1>6, <1>t, <1>u DEF CountFailure, Survives
<1>18. CaptureInv' /\ PoolIsSafe'
  BY <1>u, <1>17 DEF CaptureInv, PoolIsSafe
<1>19. TypeOK'
  <2>1. /\ pool' \in Seq(Object) /\ inactive' \in Seq(1..Len(pool'))
        /\ active' \in Seq(1..Len(pool'))
    BY <1>9, SharedTypes
  <2>2. sample_buffer' \in Object /\ taken' \in 0..Len(committed')
    BY <1>1, <1>6, <1>12, <1>t, <1>u
  <2> QED
    BY <1>12, <1>17, <1>u, <2>1, <2>2 DEF IInv, TypeOK
<1> QED
  BY <1>9, <1>10, <1>15, <1>16, <1>18, <1>19 DEF IInv, QueueInv
-----------------------------------------------------------------------------
(* The encoder thread. *)

(* A step that leaves the sink filter's side alone. *)
LEMMA EncoderFrame ==
  ASSUME IInv, EncoderStep,
         Shared(pool, inactive, active)', StorageInv', ActiveInv',
         PeekedIsNext', raw_buffer' \in Object,
         encoder' \in {"idle", "got"}, taken' \in 0..Len(committed),
         peeked' \in Nat \cup {NoTimestamp},
         failures' \in 0..MaxFailures, fault' = "none"
  PROVE  IInv'
<1>1. UNCHANGED <<media, sample_buffer, capture, received, committed>>
  BY DEF EncoderStep
<1>2. /\ pool' \in Seq(Object) /\ inactive' \in Seq(1..Len(pool'))
      /\ active' \in Seq(1..Len(pool'))
  BY SharedTypes
<1>3. TypeOK'
  BY <1>1, <1>2 DEF IInv, TypeOK
<1>4. CaptureInv'
  BY <1>1 DEF IInv, CaptureInv, Sound
<1>5. PoolIsSafe'
  BY DEF PoolIsSafe
<1> QED
  BY <1>3, <1>4, <1>5 DEF IInv, QueueInv

(* The queue without its front: the samples behind it are still there,     *)
(* whatever becomes of the object in front.                                *)
LEMMA FrontLeaves ==
  ASSUME IInv, active # <<>>,
         media' = media, committed' = committed,
         active' = Tail(active), taken' = taken + 1,
         \A k \in 1..Len(pool) : k # Head(active) => pool'[k] = pool[k]
  PROVE  /\ taken' \in 0..Len(committed) /\ taken' > 0
         /\ (taken + Len(active) = Len(committed))'
         /\ (\A i \in 1..Len(active) :
               Sound(pool[active[i]], committed[taken + i]))'
<1>t. /\ Len(committed) \in Nat /\ taken \in Nat /\ active \in Seq(Nat)
  BY Typing
<1> DEFINE a == Len(active)
           c == Len(committed)
           t == Len(active')
<1>1. /\ a \in Nat \ {0} /\ c \in Nat /\ taken + a = c /\ t = a - 1
  BY <1>t, MembersTail, LenProperties, EmptySeq DEF IInv, ActiveInv
<1> HIDE DEF a, c, t
<1>2. taken' \in 0..c /\ taken' > 0 /\ taken' + t = c
  BY <1>t, <1>1
<1>3. ASSUME NEW i \in 1..t
      PROVE  Sound(pool[active[i]], committed[taken + i])'
  <2>1. i + 1 \in 1..a
    BY <1>1
  <2>2. active'[i] = active[i + 1]
    BY <1>t, <2>1, HeadTailProperties DEF a, t
  <2>3. active[i + 1] \in 1..Len(pool)
    BY <2>1, ActiveObjects DEF a
  <2>4. active[i + 1] # Head(active)
    <3>1. Distinct(active)
      BY DEF IInv, QueueInv, Shared
    <3>2. Head(active) \notin Members(active')
      BY <1>t, <3>1, MembersTail
    <3>3. active'[i] \in Members(active')
      BY DEF Members, t
    <3> QED
      BY <2>2, <3>2, <3>3
  <2>5. pool'[active'[i]] = pool[active[i + 1]]
    BY <2>2, <2>3, <2>4
  <2>6. Sound(pool[active[i + 1]], committed[taken + (i + 1)])
    BY <2>1 DEF IInv, ActiveInv, a
  <2>7. taken' + i = taken + (i + 1)
    BY <1>t
  <2> QED
    BY <2>5, <2>6, <2>7 DEF Sound
<1> QED
  BY <1>2, <1>3 DEF c, t

(* The sample at the front is the next of those that were committed.       *)
LEMMA FrontSample ==
  ASSUME IInv, active # <<>>
  PROVE  /\ Head(active) \in 1..Len(pool)
         /\ pool[Head(active)] \in Object /\ Honest(pool[Head(active)])
         /\ taken + 1 \in 1..Len(committed)
         /\ committed[taken + 1] \in Nat
         /\ Sound(pool[Head(active)], committed[taken + 1])
<1>t. /\ committed \in Seq(1..MaxSamples) /\ taken \in Nat
      /\ Len(committed) \in Nat /\ MaxSamples \in Nat
      /\ active \in Seq(Nat) /\ pool \in Seq(Object) /\ Len(active) \in Nat
  BY Typing
<1>1. 1 \in 1..Len(active) /\ Head(active) = active[1]
  BY <1>t, EmptySeq, HeadTailProperties
<1>2. /\ taken + Len(active) = Len(committed)
      /\ Sound(pool[active[1]], committed[taken + 1])
  BY <1>1 DEF IInv, ActiveInv
<1>3. Head(active) \in 1..Len(pool)
  BY <1>1, ActiveObjects
<1>4. pool[Head(active)] \in Object /\ Honest(pool[Head(active)])
  BY <1>t, <1>3, ElementOfSeq DEF IInv, StorageInv
<1>5. taken + 1 \in 1..Len(committed)
  BY <1>t, <1>1, <1>2
<1>6. committed[taken + 1] \in 1..MaxSamples
  BY <1>t, <1>5, ElementOfSeq
<1> QED
  BY <1>1, <1>2, <1>3, <1>4, <1>5, <1>6

(* The encoder thread looks at the timestamp in front. *)
LEMMA EncoderPeeks ==
  ASSUME IInv, ActiveBufferTimestamp
  PROVE  IInv'
<1>1. /\ EncoderStep /\ active # <<>>
      /\ peeked' = pool[Head(active)].timestamp
      /\ UNCHANGED <<pool, inactive, active, raw_buffer, encoder, taken,
                     failures, fault>>
  BY DEF ActiveBufferTimestamp, queues
<1>2. peeked' \in Nat
  BY <1>1, FrontSample DEF Object
<1>3. fault' = "none" /\ UNCHANGED <<media, committed>>
  BY <1>1 DEF EncoderStep, Running
<1>4. Shared(pool, inactive, active)'
  BY <1>1 DEF IInv, QueueInv
<1>5. StorageInv' /\ ActiveInv'
  BY <1>1, <1>3 DEF IInv, StorageInv, ActiveInv, Sound
<1>6. PeekedIsNext'
  BY <1>1 DEF PeekedIsNext
<1>7. /\ raw_buffer' \in Object /\ encoder' \in {"idle", "got"}
      /\ taken' \in 0..Len(committed) /\ failures' \in 0..MaxFailures
  BY <1>1, Typing
<1> QED
  BY <1>1, <1>2, <1>3, <1>4, <1>5, <1>6, <1>7, EncoderFrame

(* Decommit hands the sample in front over, or fails and leaves it there.  *)
LEMMA EncoderTakes ==
  ASSUME IInv, Decommit
  PROVE  IInv'
<1>t. /\ media \in {"audio", "video"} /\ raw_buffer \in Object
      /\ failures \in 0..MaxFailures /\ MaxFailures \in Nat
      /\ Len(pool) \in Nat /\ pool \in Seq(Object)
      /\ taken \in 0..Len(committed) /\ peeked \in Nat \cup {NoTimestamp}
  BY Typing
<1> DEFINE o == Head(active)
<1>1. /\ EncoderStep /\ active # <<>> /\ fault = "none" /\ encoder = "idle"
      /\ UNCHANGED <<media, sample_buffer, capture, received, committed>>
  BY DEF Decommit, EncoderStep, Running
<1>2. PICK x \in Exchange(pool[o], raw_buffer) :
           /\ pool' = [pool EXCEPT ![o] = x.source]
           /\ raw_buffer' = x.target
           /\ CountFailure(x)
           /\ IF x.status = "success"
              THEN /\ active' = Tail(active)
                   /\ inactive' = Append(inactive, o)
                   /\ taken' = taken + 1
                   /\ peeked' = NoTimestamp
                   /\ encoder' = "got"
              ELSE UNCHANGED <<active, inactive, taken, peeked, encoder>>
  BY DEF Decommit
<1> DEFINE n == committed[taken + 1]
<1>3. /\ o \in 1..Len(pool) /\ pool[o] \in Object /\ Honest(pool[o])
      /\ taken + 1 \in 1..Len(committed) /\ n \in Nat
      /\ Sound(pool[o], n)
  BY <1>1, FrontSample
<1>4. Honest(raw_buffer)
  BY DEF IInv, StorageInv
<1> HIDE DEF n
<1>5. /\ x.status \in {"success", "no_memory"}
      /\ x.source \in Object /\ x.target \in Object
      /\ Honest(x.source) /\ Honest(x.target)
      /\ x.status = "success" => Sound(x.target, n)
      /\ x.status = "no_memory" =>
           x.source = pool[o] /\ failures < MaxFailures
  BY <1>t, <1>3, <1>4, ExchangeOutcome
<1> DEFINE p == [pool EXCEPT ![o] = x.source]
<1>6. Shared(pool, inactive, active)
  BY DEF IInv, QueueInv
<1>7. /\ Shared(p, inactive, active) /\ Len(p) = Len(pool)
      /\ \A k \in 1..Len(pool) : p[k] = IF k = o THEN x.source ELSE pool[k]
  BY <1>3, <1>5, <1>6, SharedUpdate
<1>8. pool' = p
  BY <1>2
<1> HIDE DEF p
<1>9. StorageInv'
  <2>1. \A k \in 1..Len(p) : Honest(p[k])
    BY <1>5, <1>7 DEF IInv, StorageInv
  <2> QED
    BY <1>2, <1>5, <1>8, <2>1 DEF StorageInv
<1>10. failures' \in 0..MaxFailures /\ fault' = "none"
  BY <1>1, <1>2, <1>5, <1>t DEF CountFailure, Survives
<1>11. CASE x.status = "success"
  <2>1. /\ active' = Tail(active) /\ inactive' = Append(inactive, o)
        /\ taken' = taken + 1 /\ peeked' = NoTimestamp /\ encoder' = "got"
    BY <1>2, <1>11
  <2>2. Shared(pool, inactive, active)'
    <3>1. Shared(p, active, inactive)
      BY <1>7, SharedSwap
    <3>2. Shared(p, Tail(active), Append(inactive, o))
      BY <3>1, <1>1, SharedMove
    <3>3. Shared(p, Append(inactive, o), Tail(active))
      BY <3>2, SharedSwap
    <3> QED
      BY <1>8, <2>1, <3>3
  <2>3. /\ taken' \in 0..Len(committed) /\ taken' > 0
        /\ (taken + Len(active) = Len(committed))'
        /\ (\A i \in 1..Len(active) :
              Sound(pool[active[i]], committed[taken + i]))'
    <3>1. \A k \in 1..Len(pool) : k # Head(active) => pool'[k] = pool[k]
      BY <1>7, <1>8
    <3> QED
      BY <1>1, <2>1, <3>1, FrontLeaves
  <2>4. ActiveInv'
    <3>1. Holds(raw_buffer', committed'[taken'])
      BY <1>1, <1>2, <1>5, <1>11, <2>1 DEF Sound, n
    <3> QED
      BY <2>3, <3>1 DEF ActiveInv
  <2>5. PeekedIsNext'
    BY <2>1 DEF PeekedIsNext
  <2> QED
    BY <1>1, <1>2, <1>5, <1>9, <1>10, <2>1, <2>2, <2>3, <2>4, <2>5,
       EncoderFrame
<1>12. CASE x.status = "no_memory"
  <2>1. /\ UNCHANGED <<active, inactive, taken, peeked, encoder>>
        /\ x.source = pool[o]
    BY <1>2, <1>5, <1>12
  <2>2. Shared(pool, inactive, active)'
    BY <1>7, <1>8, <2>1
  <2>3. \A k \in 1..Len(pool) : pool'[k] = pool[k]
    BY <1>7, <1>8, <2>1
  <2>4. ActiveInv'
    <3>1. \A i \in 1..Len(active) : pool'[active[i]] = pool[active[i]]
      BY <2>3, ActiveObjects
    <3> QED
      BY <1>1, <2>1, <3>1 DEF IInv, ActiveInv, Sound
  <2>5. PeekedIsNext'
    BY <1>3, <2>1, <2>3 DEF IInv, PeekedIsNext
  <2>6. /\ encoder' \in {"idle", "got"} /\ taken' \in 0..Len(committed)
        /\ peeked' \in Nat \cup {NoTimestamp}
    BY <1>1, <1>t, <2>1
  <2> QED
    BY <1>1, <1>2, <1>5, <1>9, <1>10, <2>2, <2>4, <2>5, <2>6, EncoderFrame
<1> QED
  BY <1>5, <1>11, <1>12

(* The encoder thread's own object, before the sample is encoded. *)
LEMMA EncoderOffsets ==
  ASSUME IInv, OffsetTimestamp
  PROVE  IInv'
<1>1. /\ fault = "none" /\ encoder' = "idle"
      /\ raw_buffer' = [raw_buffer EXCEPT !.timestamp = @ + Offset]
      /\ UNCHANGED <<media, pool, inactive, active, sample_buffer, capture,
                     received, peeked, committed, taken, failures, fault>>
  BY DEF OffsetTimestamp, Running, queues
<1>2. raw_buffer \in Object /\ Offset \in Nat /\ Honest(raw_buffer)
  BY Typing, PoolAssumption DEF IInv, StorageInv
<1>3. raw_buffer' \in Object /\ Honest(raw_buffer')
  BY <1>1, <1>2 DEF Object, Honest
<1>4. TypeOK'
  BY <1>1, <1>3 DEF IInv, TypeOK
<1>5. QueueInv' /\ CaptureInv' /\ PeekedIsNext' /\ PoolIsSafe'
  BY <1>1 DEF IInv, QueueInv, CaptureInv, PeekedIsNext, PoolIsSafe, Sound
<1>6. StorageInv'
  BY <1>1, <1>3 DEF IInv, StorageInv
<1>7. ActiveInv'
  BY <1>1 DEF IInv, ActiveInv, Sound
<1> QED
  BY <1>4, <1>5, <1>6, <1>7 DEF IInv

(* DropActiveBuffer gives one sample up, Flush all of them. *)
LEMMA EncoderDrops ==
  ASSUME IInv, DropActiveBuffer
  PROVE  IInv'
<1>1. /\ EncoderStep /\ active # <<>> /\ fault = "none" /\ encoder = "idle"
      /\ inactive' = Append(inactive, Head(active))
      /\ active' = Tail(active) /\ taken' = taken + 1
      /\ peeked' = NoTimestamp
      /\ UNCHANGED <<media, committed, pool, raw_buffer, encoder, failures,
                     fault>>
  BY DEF DropActiveBuffer, EncoderStep, Running
<1>2. Shared(pool, inactive, active)'
  <2>1. Shared(pool, active, inactive)
    BY SharedSwap DEF IInv, QueueInv
  <2>2. Shared(pool, Tail(active), Append(inactive, Head(active)))
    BY <1>1, <2>1, SharedMove
  <2>3. Shared(pool, Append(inactive, Head(active)), Tail(active))
    BY <2>2, SharedSwap
  <2> QED
    BY <1>1, <2>3
<1>3. /\ taken' \in 0..Len(committed) /\ taken' > 0
      /\ (taken + Len(active) = Len(committed))'
      /\ (\A i \in 1..Len(active) :
            Sound(pool[active[i]], committed[taken + i]))'
  BY <1>1, FrontLeaves
<1>4. StorageInv' /\ ActiveInv' /\ PeekedIsNext'
  BY <1>1, <1>3 DEF IInv, StorageInv, ActiveInv, PeekedIsNext
<1>5. raw_buffer' \in Object /\ failures' \in 0..MaxFailures
  BY <1>1, Typing
<1> QED
  BY <1>1, <1>2, <1>3, <1>4, <1>5, EncoderFrame

LEMMA EncoderFlushes ==
  ASSUME IInv, Flush
  PROVE  IInv'
<1>1. /\ EncoderStep /\ fault = "none" /\ encoder = "idle"
      /\ inactive' = inactive \o active /\ active' = <<>>
      /\ taken' = Len(committed) /\ peeked' = NoTimestamp
      /\ UNCHANGED <<media, committed, pool, raw_buffer, encoder, failures,
                     fault>>
  BY DEF Flush, EncoderStep, Running
<1>2. Shared(pool, inactive, active)'
  <2>1. Shared(pool, inactive, active)
    BY DEF IInv, QueueInv
  <2>2. /\ inactive' \in Seq(Nat) /\ Distinct(inactive')
        /\ Len(inactive') = Len(pool) /\ Members(inactive') = 1..Len(pool)
    BY <1>1, <2>1, MembersConcat DEF Shared
  <2>3. /\ active' \in Seq(Nat) /\ Len(active') = 0
        /\ Members(active') = {} /\ Distinct(active')
    BY <1>1, EmptySeq DEF Members, Distinct
  <2>4. Len(pool) \in Nat
    BY Typing
  <2> QED
    BY <1>1, <2>1, <2>2, <2>3, <2>4 DEF Shared
<1>3. Len(committed) \in Nat /\ taken' \in 0..Len(committed)
  BY <1>1, Typing
<1>4. ActiveInv'
  <2>1. Len(active') = 0 /\ 1..Len(active') = {}
    BY <1>1, EmptySeq
  <2> QED
    BY <1>1, <1>3, <2>1 DEF ActiveInv
<1>5. StorageInv' /\ PeekedIsNext'
  BY <1>1 DEF IInv, StorageInv, PeekedIsNext
<1>6. raw_buffer' \in Object /\ failures' \in 0..MaxFailures
  BY <1>1, Typing
<1> QED
  BY <1>1, <1>2, <1>3, <1>4, <1>5, <1>6, EncoderFrame

-----------------------------------------------------------------------------
(* Every step of the two threads keeps the invariant. *)
LEMMA StepIInv == IInv /\ [Next]_vars => IInv'
<1> SUFFICES ASSUME IInv, [Next]_vars PROVE IInv'
  OBVIOUS
<1>1. CASE \E length \in SampleLengths :
             \/ InitAllocates(length) \/ InitCannotAllocate(length)
             \/ InitReuses(length) \/ InitCannotConvert(length)
  BY <1>1, InitActions
<1>2. CASE CommitInvalid \/ CommitFull \/ CommitCannotGrow
  BY <1>2, CommitRejects
<1>3. CASE CommitExchange
  BY <1>3, CommitExchanges
<1>4. CASE ActiveBufferTimestamp
  BY <1>4, EncoderPeeks
<1>5. CASE Decommit
  BY <1>5, EncoderTakes
<1>6. CASE OffsetTimestamp
  BY <1>6, EncoderOffsets
<1>7. CASE DropActiveBuffer
  BY <1>7, EncoderDrops
<1>8. CASE Flush
  BY <1>8, EncoderFlushes
<1>9. CASE UNCHANGED vars
  <2>1. UNCHANGED <<media, pool, inactive, active, sample_buffer, raw_buffer,
                    capture, received, encoder, peeked, committed, taken,
                    failures, fault>>
    BY <1>9 DEF vars
  <2>2. TypeOK' /\ QueueInv' /\ StorageInv'
    BY <2>1 DEF IInv, TypeOK, QueueInv, StorageInv
  <2>3. CaptureInv' /\ ActiveInv'
    BY <2>1 DEF IInv, CaptureInv, ActiveInv, Sound
  <2>4. PeekedIsNext' /\ PoolIsSafe'
    BY <2>1 DEF IInv, PeekedIsNext, PoolIsSafe
  <2> QED
    BY <2>2, <2>3, <2>4 DEF IInv
<1> QED
  BY <1>1, <1>2, <1>3, <1>4, <1>5, <1>6, <1>7, <1>8, <1>9 DEF Next

(* What the pool, the sink filter's object and the encoder's always are:   *)
(* the invariant the theorems below are read off.                          *)
THEOREM Invariance == Spec => []IInv
  BY InitIInv, StepIInv, PTL DEF Spec

(* The variables keep to their types; in particular the queues hold only   *)
(* numbers of objects the pool has, also after it has grown.               *)
THEOREM TypeCorrect == Spec => []TypeOK
<1>1. IInv => TypeOK
  BY DEF IInv
<1> QED
  BY <1>1, Invariance, PTL

(* No call of the two threads loses or doubles an object of the pool:      *)
(* BufferPool's destructor finds each of them once in the two queues.      *)
THEOREM ObjectsCorrect == Spec => []ObjectsConserved
<1>1. IInv => ObjectsConserved
  <2> SUFFICES ASSUME IInv PROVE ObjectsConserved
    OBVIOUS
  <2> DEFINE all == inactive \o active
  <2>1. Shared(pool, inactive, active)
    BY DEF IInv, QueueInv
  <2>2. Len(all) = Len(pool) /\ Members(all) = 1..Len(pool)
    BY <2>1, MembersConcat DEF Shared
  <2> QED
    BY <2>2 DEF ObjectsConserved, Members
<1> QED
  BY <1>1, Invariance, PTL

(* The encoder thread gets the samples that Commit accepted, in order and  *)
(* each with its own bytes and times, although Swap and Clone move them    *)
(* through every object of the pool and of both threads.                   *)
THEOREM SamplesCorrect == Spec => []SamplesIntact
<1>1. IInv => SamplesIntact
  BY DEF IInv, ActiveInv, SamplesIntact, Sound
<1> QED
  BY <1>1, Invariance, PTL

(* The timestamp that ActiveBufferTimestamp returned is that of the sample *)
(* the encoder thread takes next, whatever is committed in between.        *)
THEOREM PeekCorrect == Spec => []PeekedIsNext
<1>1. IInv => PeekedIsNext
  BY DEF IInv
<1> QED
  BY <1>1, Invariance, PTL

(* Neither Swap's CHECK_NOTNULL nor a write through a NULL buffer in Clone *)
(* ends the process, however often an allocation failed before.            *)
THEOREM SafeCorrect == Spec => []PoolIsSafe
<1>1. IInv => PoolIsSafe
  BY DEF IInv
<1> QED
  BY <1>1, Invariance, PTL
=============================================================================
