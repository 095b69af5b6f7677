----------------------------- MODULE BufferPool -----------------------------
(***************************************************************************)
(* The pool of sample objects between a capture thread and the encoder     *)
(* thread: BufferPool<Type> of encoder/buffer_pool-inl.h with Type one of  *)
(* AudioBuffer (encoder/audio_encoder.cc) and VideoFrame                   *)
(* (encoder/video_encoder.cc).                                             *)
(*                                                                         *)
(* The sink filter fills its own object (sample_buffer_ or frame_) with    *)
(* Init and hands it to Commit; the encoder thread takes samples with      *)
(* Decommit into its own object (raw_audio_buffer_ or raw_frame_).  No     *)
(* sample is copied once every object has storage: the pool swaps members  *)
(* between the two sides, so storage, capacities and stale times wander    *)
(* through the objects of both threads.                                    *)
(*                                                                         *)
(* Every method holds the pool's mutex from its first access to its last,  *)
(* so each is one step.  Init, on the capture thread's own object, and     *)
(* OffsetTimestamp, on the encoder's, happen outside the lock.             *)
(***************************************************************************)
EXTENDS Integers, Sequences

CONSTANTS
  MediaTypes,   \* the pools looked at: "audio", "video" or both
  NumBuffers,   \* Init argument num_buffers
  Offset,       \* WebmEncoder::timestamp_offset_
  Lengths,      \* data lengths of captured samples
  MaxSamples,   \* bound: samples the capture source delivers
  MaxFailures   \* bound: failing allocations

ASSUME PoolAssumption ==
  /\ MediaTypes \subseteq {"audio", "video"}
  /\ NumBuffers \in Nat \ {0}
  /\ Offset \in Nat
  /\ Lengths \subseteq Nat
  /\ MaxSamples \in Nat /\ MaxFailures \in Nat

VARIABLES
  media,         \* which Type the pool is instantiated with
  pool,          \* the objects the pool allocated; object o is pool[o]
  inactive,      \* inactive_buffers_: object numbers, front first
  active,        \* active_buffers_: object numbers, front first
  sample_buffer, \* the sink filter's object
  raw_buffer,    \* the encoder thread's object
  capture,       \* control point of the capture thread
  received,      \* number of samples delivered to the sink filter
  encoder,       \* control point of the encoder thread
  peeked,        \* timestamp the encoder read ahead, or NoTimestamp
  committed,     \* history: samples Commit accepted, in order
  taken,         \* history: how many of them have left active_buffers_
  failures,      \* number of failed allocations
  fault          \* how the process died, or "none"

queues == <<pool, inactive, active>>
vars == <<media, pool, inactive, active, sample_buffer, raw_buffer, capture,
          received, encoder, peeked, committed, taken, failures, fault>>

NoTimestamp == -1

(* Sample n has its own timestamp, duration and payload.                   *)
Timestamp(n) == 2 * n
Duration(n) == 2 * n + 1

(* The members of an AudioBuffer or VideoFrame.  has_buffer: buffer_ is    *)
(* not NULL.  data: the sample whose bytes the storage holds.              *)
NewObject == [has_buffer |-> FALSE, capacity |-> 0, length |-> 0,
              data |-> 0, timestamp |-> 0, duration |-> 0]

(* Object o holds sample n, complete and with its own times. *)
Holds(o, n) ==
  /\ o.has_buffer
  /\ o.data = n /\ o.timestamp = Timestamp(n) /\ o.duration = Duration(n)

(* After a successful BufferPool::Init; WebmEncoder::Init gives up         *)
(* otherwise.                                                              *)
Init ==
  /\ media \in MediaTypes
  /\ pool = [o \in 1..NumBuffers |-> NewObject]
  /\ inactive = [i \in 1..NumBuffers |-> i]
  /\ active = <<>>
  /\ sample_buffer = NewObject /\ raw_buffer = NewObject
  /\ capture = "idle" /\ received = 0
  /\ encoder = "idle" /\ peeked = NoTimestamp
  /\ committed = <<>> /\ taken = 0
  /\ failures = 0 /\ fault = "none"

Running == fault = "none"

(* WebmEncoder::Init lets the audio pool grow, and the video pool not.     *)
AllowGrowth == media = "audio"

(* AudioSinkFilter drops empty samples. *)
SampleLengths == IF media = "audio" THEN Lengths \ {0} ELSE Lengths
-----------------------------------------------------------------------------
(* AudioBuffer::Init and VideoFrame::Init on the sink filter's object, for *)
(* a new sample of the given length.                                       *)

(* Mutant: a sample without a stop time gets a duration all the same. *)
FilledWithoutStopTime(o, n, length) ==
  [o EXCEPT !.length = length, !.data = n,
            !.timestamp = Timestamp(n), !.duration = 0 - Timestamp(n)]

Filled(o, n, length) ==
  [o EXCEPT !.length = length, !.data = n,
            !.timestamp = Timestamp(n), !.duration = Duration(n)]

InitStep ==
  /\ Running
  /\ capture = "idle" /\ received < MaxSamples
  /\ received' = received + 1
  /\ UNCHANGED <<media, queues, raw_buffer, encoder, peeked, committed, taken>>

(* The capacity does not suffice: new storage. *)
InitAllocates(length) ==
  /\ InitStep
  /\ length > sample_buffer.capacity
  /\ sample_buffer' = [Filled(sample_buffer, received + 1, length)
                         EXCEPT !.has_buffer = TRUE, !.capacity = length]
  /\ capture' = "commit"
  /\ UNCHANGED <<failures, fault>>

(* The allocation fails: buffer_ was reset, buffer_capacity_ was not, and  *)
(* the sink filter drops the sample.                                       *)
InitCannotAllocate(length) ==
  /\ InitStep
  /\ length > sample_buffer.capacity
  /\ failures < MaxFailures
  /\ failures' = failures + 1
  /\ sample_buffer' = [sample_buffer EXCEPT !.has_buffer = FALSE]
  /\ UNCHANGED <<capture, fault>>

(* The capacity suffices: the bytes are copied through buffer_, even when  *)
(* an earlier failure left it NULL.                                        *)
InitReuses(length) ==
  /\ InitStep
  /\ length <= sample_buffer.capacity
  /\ IF sample_buffer.has_buffer \/ length = 0
     THEN /\ sample_buffer' = Filled(sample_buffer, received + 1, length)
          /\ capture' = "commit"
          /\ UNCHANGED fault
     ELSE fault' = "init" /\ UNCHANGED <<sample_buffer, capture>>
  /\ UNCHANGED failures

(* VideoFrame::ConvertToI420 fails after it has resized and overwritten    *)
(* the storage; the times keep their old values.                           *)
InitCannotConvert(length) ==
  /\ InitStep
  /\ media = "video"
  /\ sample_buffer.has_buffer \/ length > sample_buffer.capacity
  /\ sample_buffer' = [sample_buffer EXCEPT
                         !.has_buffer = TRUE,
                         !.capacity = IF length > @ THEN length ELSE @,
                         !.length = length, !.data = received + 1]
  /\ UNCHANGED <<capture, failures, fault>>

-----------------------------------------------------------------------------
(* Exchange(source, target): the possible outcomes, each with the status   *)
(* and the two objects afterwards.                                         *)

Outcome(status, source, target) ==
  [status |-> status, source |-> source, target |-> target]

(* Mutant: the storage is exchanged, the target's times are not. *)
SwapKeepsTargetTimes(source, target) ==
  Outcome("success", target,
          [source EXCEPT !.timestamp = target.timestamp,
                         !.duration = target.duration])

(* VideoFrame::Swap, called on the target. *)
VideoSwap(source, target) == Outcome("success", target, source)

(* AudioBuffer::Swap, called on the target.  Its last time assignment goes *)
(* to the source's duration: the source keeps its timestamp, and gets the  *)
(* target's old timestamp as its duration.                                 *)
AudioSwap(source, target) ==
  Outcome("success",
          [target EXCEPT !.timestamp = source.timestamp,
                         !.duration = target.timestamp],
          source)

(* Both start with CHECK_NOTNULL on both buffers, which abort the process. *)
Swap(source, target) ==
  IF ~(source.has_buffer /\ target.has_buffer)
  THEN Outcome("check", source, target)
  ELSE IF media = "video" THEN VideoSwap(source, target)
  ELSE AudioSwap(source, target)

(* VideoFrame::Clone always allocates the source's capacity.               *)
(* AudioBuffer::Clone is Init on the target, which allocates the source's  *)
(* length if the target's capacity is smaller.                             *)
CloneAllocates(source, target) ==
  media = "video" \/ source.length > target.capacity

CloneCapacity(source, target) ==
  IF ~CloneAllocates(source, target) THEN target.capacity
  ELSE IF media = "video" THEN source.capacity
  ELSE source.length

Clone(source, target) ==
  IF CloneAllocates(source, target)
  THEN {Outcome("success", source,
                [source EXCEPT !.capacity = CloneCapacity(source, target)])}
       \cup (IF failures < MaxFailures
             THEN {Outcome("no_memory", source,
                           [target EXCEPT !.has_buffer = FALSE])}
             ELSE {})
  ELSE {Outcome("null_write", source, target)}

(* Mutant: the storage of the target is not looked at. *)
ExchangeAlwaysSwaps(source, target) == {Swap(source, target)}

(* Swap if the target has storage, Clone otherwise. *)
Exchange(source, target) ==
  IF target.has_buffer THEN {Swap(source, target)} ELSE Clone(source, target)

(* What an outcome means for the process. *)
Survives(outcome) == outcome.status \in {"success", "no_memory"}

CountFailure(outcome) ==
  /\ failures' = IF outcome.status = "no_memory" THEN failures + 1 ELSE failures
  /\ fault' = IF Survives(outcome) THEN fault ELSE outcome.status

-----------------------------------------------------------------------------
(* Commit, on the capture thread. *)

CommitReturns ==
  /\ Running
  /\ capture = "commit"
  /\ capture' = "idle"
  /\ UNCHANGED <<media, raw_buffer, received, encoder, peeked>>

CommitStep == CommitReturns /\ UNCHANGED taken

(* kInvalidArg: no storage.  An empty video frame gets here. *)
CommitInvalid ==
  /\ CommitStep
  /\ ~sample_buffer.has_buffer
  /\ UNCHANGED <<queues, sample_buffer, committed, failures, fault>>

(* Mutant: a full pool makes room by recycling its oldest sample. *)
CommitDropsOldest ==
  /\ CommitReturns
  /\ inactive = <<>> /\ active # <<>>
  /\ inactive' = <<Head(active)>> /\ active' = Tail(active)
  /\ taken' = taken + 1
  /\ UNCHANGED <<pool, sample_buffer, committed, failures, fault>>

(* kFull: the sink filter drops the sample. *)
CommitFull ==
  /\ CommitStep
  /\ sample_buffer.has_buffer
  /\ inactive = <<>> /\ ~AllowGrowth
  /\ UNCHANGED <<queues, sample_buffer, committed, failures, fault>>

(* kNoMemory: the pool cannot grow. *)
CommitCannotGrow ==
  /\ CommitStep
  /\ sample_buffer.has_buffer
  /\ inactive = <<>> /\ AllowGrowth
  /\ failures < MaxFailures
  /\ failures' = failures + 1
  /\ UNCHANGED <<queues, sample_buffer, committed, fault>>

(* The pool with a free object at the front of inactive. *)
Grown == IF inactive = <<>> THEN Append(pool, NewObject) ELSE pool
GrownInactive == IF inactive = <<>> THEN <<Len(pool) + 1>> ELSE inactive

(* The front inactive object gets the sample and moves to active, unless   *)
(* the exchange fails, which leaves it where it is.                        *)
CommitExchange ==
  /\ CommitStep
  /\ sample_buffer.has_buffer
  /\ inactive # <<>> \/ AllowGrowth
  /\ LET o == Head(GrownInactive)
     IN  \E x \in Exchange(sample_buffer, Grown[o]) :
           /\ pool' = [Grown EXCEPT ![o] = x.target]
           /\ sample_buffer' = x.source
           /\ CountFailure(x)
           /\ IF x.status = "success"
              THEN /\ inactive' = Tail(GrownInactive)
                   /\ active' = Append(active, o)
                   /\ committed' = Append(committed, received)
              ELSE /\ inactive' = GrownInactive
                   /\ UNCHANGED <<active, committed>>

-----------------------------------------------------------------------------
(* The encoder thread. *)

EncoderStep ==
  /\ Running
  /\ encoder = "idle"
  /\ UNCHANGED <<media, sample_buffer, capture, received, committed>>

(* ActiveBufferTimestamp; kEmpty changes nothing. *)
ActiveBufferTimestamp ==
  /\ EncoderStep
  /\ active # <<>>
  /\ peeked' = pool[Head(active)].timestamp
  /\ UNCHANGED <<queues, raw_buffer, encoder, taken, failures, fault>>

(* Decommit: the front active object is exchanged with the encoder's and   *)
(* returns to inactive, unless the exchange fails.                         *)
Decommit ==
  /\ EncoderStep
  /\ active # <<>>
  /\ LET o == Head(active)
     IN  \E x \in Exchange(pool[o], raw_buffer) :
           /\ pool' = [pool EXCEPT ![o] = x.source]
           /\ raw_buffer' = x.target
           /\ CountFailure(x)
           /\ IF x.status = "success"
              THEN /\ active' = Tail(active)
                   /\ inactive' = Append(inactive, o)
                   /\ taken' = taken + 1
                   /\ peeked' = NoTimestamp
                   /\ encoder' = "got"
              ELSE UNCHANGED <<active, inactive, taken, peeked, encoder>>

(* OffsetTimestamp, before the sample is encoded. *)
OffsetTimestamp ==
  /\ Running
  /\ encoder = "got"
  /\ raw_buffer' = [raw_buffer EXCEPT !.timestamp = @ + Offset]
  /\ encoder' = "idle"
  /\ UNCHANGED <<media, queues, sample_buffer, capture, received, peeked,
                 committed, taken, failures, fault>>

(* Mutant: the dropped sample's object is not put back. *)
DropActiveBufferLeaks ==
  /\ EncoderStep
  /\ active # <<>>
  /\ active' = Tail(active)
  /\ taken' = taken + 1
  /\ peeked' = NoTimestamp
  /\ UNCHANGED <<pool, inactive, raw_buffer, encoder, failures, fault>>

(* DropActiveBuffer and Flush: samples are given up, their objects kept.   *)
DropActiveBuffer ==
  /\ EncoderStep
  /\ active # <<>>
  /\ inactive' = Append(inactive, Head(active))
  /\ active' = Tail(active)
  /\ taken' = taken + 1
  /\ peeked' = NoTimestamp
  /\ UNCHANGED <<pool, raw_buffer, encoder, failures, fault>>

Flush ==
  /\ EncoderStep
  /\ inactive' = inactive \o active
  /\ active' = <<>>
  /\ taken' = Len(committed)
  /\ peeked' = NoTimestamp
  /\ UNCHANGED <<pool, raw_buffer, encoder, failures, fault>>

-----------------------------------------------------------------------------
Next ==
  \/ \E length \in SampleLengths :
       \/ InitAllocates(length) \/ InitCannotAllocate(length)
       \/ InitReuses(length) \/ InitCannotConvert(length)
  \/ CommitInvalid \/ CommitFull \/ CommitCannotGrow \/ CommitExchange
  \/ ActiveBufferTimestamp \/ Decommit \/ OffsetTimestamp
  \/ DropActiveBuffer \/ Flush

Spec == Init /\ [][Next]_vars
-----------------------------------------------------------------------------
Object == [has_buffer : BOOLEAN, capacity : Nat, length : Nat,
           data : Nat, timestamp : Nat, duration : Nat]

(* Type invariant. *)
TypeOK ==
  /\ media \in MediaTypes
  /\ pool \in Seq(Object)
  /\ inactive \in Seq(1..Len(pool)) /\ active \in Seq(1..Len(pool))
  /\ sample_buffer \in Object /\ raw_buffer \in Object
  /\ capture \in {"idle", "commit"} /\ received \in 0..MaxSamples
  /\ encoder \in {"idle", "got"} /\ peeked \in Nat \cup {NoTimestamp}
  /\ committed \in Seq(1..MaxSamples) /\ taken \in 0..Len(committed)
  /\ failures \in 0..MaxFailures
  /\ fault \in {"none", "init", "check", "null_write"}

(* The pool never loses or doubles an object (the destructor deletes each  *)
(* exactly once): every object is in one queue, at one place, also after a *)
(* failed exchange or a failed growth.                                     *)
ObjectsConserved ==
  LET all == inactive \o active
  IN  /\ Len(all) = Len(pool)
      /\ {all[i] : i \in 1..Len(all)} = 1..Len(pool)

(* Samples leave in the order Commit accepted them, none missing, each     *)
(* with its own bytes, timestamp and duration, although storage and times  *)
(* are swapped through every object of both threads.                       *)
SamplesIntact ==
  /\ taken + Len(active) = Len(committed)
  /\ \A i \in 1..Len(active) : Holds(pool[active[i]], committed[taken + i])
  /\ encoder = "got" => Holds(raw_buffer, committed[taken])

(* A timestamp the encoder peeked is that of the next sample it will       *)
(* Decommit, however many samples are committed in between.                *)
PeekedIsNext ==
  peeked # NoTimestamp =>
    active # <<>> /\ pool[Head(active)].timestamp = peeked

(* The pool itself never kills the process: Swap's CHECK_NOTNULL hold and  *)
(* Clone never copies into missing storage, even after allocations failed. *)
PoolIsSafe == fault \notin {"check", "null_write"}

(* audio_encoder.h:58-59, Init "Allocates storage for |ptr_data|, sets     *)
(* internal fields to values of caller's args, and returns |kSuccess|":    *)
(* it never copies into storage it does not have.                          *)
InitHasStorage == fault # "init"
==============================================================================
