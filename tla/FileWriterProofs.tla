-------------------------- MODULE FileWriterProofs --------------------------
(***************************************************************************)
(* What holds of FileWriter for any number of buffers and any number of    *)
(* spurious wakeups.  The safety properties are not inductive by           *)
(* themselves: that the queue is still empty when the writer has decided   *)
(* to return needs that nobody can push any more, which follows from the   *)
(* order in which EncoderMain stops the threads (ProtocolInv).             *)
(***************************************************************************)
EXTENDS FileWriter, SequenceLemmas

(* Who holds which mutex, and how far Stop has come.  The last conjunct is *)
(* the order of EncoderMain: the encoder thread has ended before Stop.     *)
ProtocolInv ==
  /\ q_mutex = "encoder" <=> encoder = "push"
  /\ encoder = "push" => sent < MaxBuffers
  /\ mutex_ = "main" <=> main = "flag"
  /\ mutex_ = "writer" <=> writer = "wait"
  /\ stop_ <=> main \in {"notify", "join", "stopped"}
  /\ main # "running" => encoder = "exited"

(* The writer counts the queue, and returns, only after it saw stop_.      *)
ExitInv ==
  /\ writer \in {"count", "done"} => stop_
  /\ writer = "done" => buffer_q = <<>>
  /\ main = "stopped" => writer = "done"

IInv == TypeOK /\ ProtocolInv /\ ExitInv /\ FifoOrder

-----------------------------------------------------------------------------
LEMMA InitIInv == Init => IInv
<1> SUFFICES ASSUME Init PROVE IInv
  OBVIOUS
<1> USE BoundsAssumption DEF Init, QueueInit, Free, NoBuffer
<1>1. TypeOK
  <2>1. buffer_q \in Seq(Nat) /\ written \in Seq(Nat)
    BY EmptySeq
  <2>2. sent \in 0..MaxBuffers /\ spurious \in 0..MaxSpurious
    OBVIOUS
  <2>3. failed \subseteq Nat
    OBVIOUS
  <2> QED
    BY <2>1, <2>2, <2>3 DEF TypeOK
<1>2. ProtocolInv /\ ExitInv
  BY DEF ProtocolInv, ExitInv
<1>3. FifoOrder
  BY DEF FifoOrder, InHand
<1> QED
  BY <1>1, <1>2, <1>3 DEF IInv

(* The type invariant, one step per action. *)
LEMMA TypeStep == IInv /\ [Next]_vars => TypeOK'
<1> SUFFICES ASSUME IInv, [Next]_vars PROVE TypeOK'
  OBVIOUS
<1> USE BoundsAssumption DEF IInv, TypeOK, Free, NoBuffer, queue_vars,
        writer_vars, encoder_vars
<1>1. CASE WriteDataLock
  BY <1>1 DEF WriteDataLock, EnqueueLock
<1>2. CASE WriteDataPush
  <2>1. sent + 1 \in 0..MaxBuffers
    BY <1>2 DEF WriteDataPush, ProtocolInv
  <2>2. buffer_q' \in Seq(Nat)
    BY <1>2, AppendProperties DEF WriteDataPush, EnqueuePush
  <2> QED
    BY <1>2, <2>1, <2>2 DEF WriteDataPush, EnqueuePush
<1>3. CASE WriteDataNotify
  BY <1>3 DEF WriteDataNotify, NotifyOne
<1>4. CASE EncoderExit
  BY <1>4 DEF EncoderExit
<1>5. CASE StopLock \/ StopFlag \/ StopJoin
  BY <1>5 DEF StopLock, StopFlag, StopJoin
<1>6. CASE StopNotify
  BY <1>6 DEF StopNotify, NotifyOne
<1>7. CASE CheckStop \/ CountBuffers
  BY <1>7 DEF CheckStop, CountBuffers
<1>8. CASE Dequeue
  BY <1>8 DEF Dequeue, DequeueBuffer, DequeueResult, CanDequeue
<1>9. ASSUME NEW ok \in BOOLEAN, WriteFile(ok) PROVE TypeOK'
  BY <1>9 DEF WriteFile, FifoOrder, InHand
<1>10. CASE WaitLock \/ WaitPark \/ WaitReturn
  BY <1>10 DEF WaitLock, WaitPark, WaitReturn
<1>11. CASE SpuriousWakeup
  BY <1>11 DEF SpuriousWakeup
<1>12. CASE UNCHANGED vars
  BY <1>12 DEF vars
<1> QED
  BY <1>1, <1>2, <1>3, <1>4, <1>5, <1>6, <1>7, <1>8, <1>9, <1>10, <1>11, <1>12
     DEF Next, EncoderStep, StopStep, WriterStep

(* Locks and threads. *)
LEMMA ProtocolStep == IInv /\ [Next]_vars => ProtocolInv'
<1> SUFFICES ASSUME IInv, [Next]_vars PROVE ProtocolInv'
  OBVIOUS
<1> USE BoundsAssumption DEF IInv, TypeOK, ProtocolInv, Free, NoBuffer,
        queue_vars, writer_vars, encoder_vars
<1>1. CASE WriteDataLock \/ WriteDataPush
  BY <1>1 DEF WriteDataLock, EnqueueLock, WriteDataPush, EnqueuePush
<1>2. CASE WriteDataNotify \/ EncoderExit
  BY <1>2 DEF WriteDataNotify, NotifyOne, EncoderExit
<1>3. CASE StopLock \/ StopFlag \/ StopJoin
  BY <1>3 DEF StopLock, StopFlag, StopJoin
<1>4. CASE StopNotify
  BY <1>4 DEF StopNotify, NotifyOne
<1>5. CASE CheckStop \/ CountBuffers \/ Dequeue
  BY <1>5 DEF CheckStop, CountBuffers, Dequeue, DequeueBuffer
<1>6. ASSUME NEW ok \in BOOLEAN, WriteFile(ok) PROVE ProtocolInv'
  BY <1>6 DEF WriteFile
<1>7. CASE WaitLock \/ WaitPark \/ WaitReturn
  BY <1>7 DEF WaitLock, WaitPark, WaitReturn
<1>8. CASE SpuriousWakeup
  BY <1>8 DEF SpuriousWakeup
<1>9. CASE UNCHANGED vars
  BY <1>9 DEF vars
<1> QED
  BY <1>1, <1>2, <1>3, <1>4, <1>5, <1>6, <1>7, <1>8, <1>9
     DEF Next, EncoderStep, StopStep, WriterStep

(* Returning: a writer that counted an empty queue after a stop stays with *)
(* an empty queue, because the encoder thread is gone.                     *)
LEMMA ExitStep == IInv /\ [Next]_vars => ExitInv'
<1> SUFFICES ASSUME IInv, [Next]_vars PROVE ExitInv'
  OBVIOUS
<1> USE DEF IInv, TypeOK, ProtocolInv, ExitInv, Free, NoBuffer,
        queue_vars, writer_vars, encoder_vars
<1>1. CASE WriteDataLock \/ WriteDataPush
  BY <1>1 DEF WriteDataLock, EnqueueLock, WriteDataPush, EnqueuePush
<1>2. CASE WriteDataNotify \/ EncoderExit
  BY <1>2 DEF WriteDataNotify, NotifyOne, EncoderExit
<1>3. CASE StopLock \/ StopFlag \/ StopJoin
  BY <1>3 DEF StopLock, StopFlag, StopJoin
<1>4. CASE StopNotify
  BY <1>4 DEF StopNotify, NotifyOne
<1>5. CASE CheckStop
  BY <1>5 DEF CheckStop, StopRequested
<1>6. CASE CountBuffers
  <2>1. Len(buffer_q) > 0 \/ buffer_q = <<>>
    BY EmptySeq
  <2> QED
    BY <1>6, <2>1 DEF CountBuffers, NumBuffers
<1>7. CASE Dequeue
  BY <1>7 DEF Dequeue, DequeueBuffer, DequeueResult, CanDequeue
<1>8. ASSUME NEW ok \in BOOLEAN, WriteFile(ok) PROVE ExitInv'
  BY <1>8 DEF WriteFile
<1>9. CASE WaitLock \/ WaitPark \/ WaitReturn
  BY <1>9 DEF WaitLock, WaitPark, WaitReturn
<1>10. CASE SpuriousWakeup
  BY <1>10 DEF SpuriousWakeup
<1>11. CASE UNCHANGED vars
  BY <1>11 DEF vars
<1> QED
  BY <1>1, <1>2, <1>3, <1>4, <1>5, <1>6, <1>7, <1>8, <1>9, <1>10, <1>11
     DEF Next, EncoderStep, StopStep, WriterStep

(* Order and conservation.  Only the push, the dequeue and the write move  *)
(* a buffer; every other step leaves the five variables alone or moves the *)
(* writer between control points at which it holds none.                   *)
LEMMA FifoStep == IInv /\ [Next]_vars => FifoOrder'
<1> SUFFICES ASSUME IInv, [Next]_vars PROVE FifoOrder'
  OBVIOUS
<1>n. /\ Len(buffer_q) \in Nat /\ Len(written) \in Nat
      /\ sent \in Nat /\ InHand \in Nat
      /\ buffer_q \in Seq(Nat) /\ written \in Seq(Nat)
  BY LenProperties, BoundsAssumption DEF IInv, TypeOK, InHand
<1>f. /\ Len(written) + InHand + Len(buffer_q) = sent
      /\ \A i \in 1..Len(written) : written[i] = i
      /\ writer = "write" => buffer = Len(written) + 1
      /\ \A i \in 1..Len(buffer_q) : buffer_q[i] = Len(written) + InHand + i
  BY DEF IInv, FifoOrder
<1> USE DEF NoBuffer, queue_vars, writer_vars, encoder_vars
<1>1. CASE WriteDataPush
  <2>1. /\ Len(buffer_q') = Len(buffer_q) + 1
        /\ buffer_q'[Len(buffer_q) + 1] = sent + 1
        /\ \A i \in 1..Len(buffer_q) : buffer_q'[i] = buffer_q[i]
    BY <1>1, <1>n DEF WriteDataPush, EnqueuePush
  <2>2. /\ writer' = writer /\ buffer' = buffer /\ written' = written
        /\ sent' = sent + 1 /\ InHand' = InHand
    BY <1>1 DEF WriteDataPush, InHand
  <2>3. ASSUME NEW i \in 1..Len(buffer_q')
        PROVE  buffer_q'[i] = Len(written) + InHand + i
    <3>1. i \in 1..Len(buffer_q) \/ i = Len(buffer_q) + 1
      BY <1>n, <2>1
    <3> QED
      BY <3>1, <1>n, <1>f, <2>1
  <2> QED
    BY <1>n, <1>f, <2>1, <2>2, <2>3 DEF FifoOrder
<1>2. CASE Dequeue
  <2>0. /\ writer = "dequeue" /\ written' = written /\ sent' = sent
        /\ InHand = 0 /\ buffer' = DequeueResult
    BY <1>2 DEF Dequeue, InHand
  <2>1. CASE CanDequeue
    <3>1. /\ buffer_q # <<>> /\ buffer' = Head(buffer_q)
          /\ buffer_q' = Tail(buffer_q)
      BY <1>2, <2>1 DEF Dequeue, DequeueBuffer, DequeueResult, CanDequeue
    <3>2. Len(buffer_q) >= 1
      BY <1>n, <3>1, EmptySeq
    <3>3. /\ Len(buffer_q') = Len(buffer_q) - 1
          /\ \A i \in 1..Len(buffer_q') : buffer_q'[i] = buffer_q[i + 1]
      BY <1>n, <3>1, HeadTailProperties
    <3>4. buffer' = Len(written) + 1
      BY <1>n, <1>f, <2>0, <3>1, <3>2
    <3>5. writer' = "write" /\ InHand' = 1
      BY <1>2, <1>n, <2>0, <3>4 DEF Dequeue, InHand
    <3>6. ASSUME NEW i \in 1..Len(buffer_q')
          PROVE  buffer_q'[i] = Len(written) + 1 + i
      <4>1. i + 1 \in 1..Len(buffer_q)
        BY <1>n, <3>3
      <4> QED
        BY <1>n, <1>f, <2>0, <3>3, <4>1
    <3>7. Len(written) + 1 + Len(buffer_q') = sent
      <4> DEFINE w == Len(written)
                 b == Len(buffer_q)
      <4>1. w \in Nat /\ b \in Nat /\ w + 0 + b = sent
        BY <1>n, <1>f, <2>0
      <4>2. Len(buffer_q') = b - 1
        BY <3>3
      <4> HIDE DEF w, b
      <4>3. w + 1 + Len(buffer_q') = sent
        BY <4>1, <4>2
      <4> QED
        BY <4>3 DEF w
    <3>8. Len(written') + InHand' + Len(buffer_q') = sent'
      BY <2>0, <3>5, <3>7
    <3>9. \A i \in 1..Len(written') : written'[i] = i
      BY <1>f, <2>0
    <3> QED
      BY <2>0, <3>4, <3>5, <3>6, <3>8, <3>9 DEF FifoOrder
  <2>2. CASE ~CanDequeue
    <3>1. writer' = "lock" /\ buffer_q' = buffer_q /\ InHand' = InHand
      BY <1>2, <2>2, <2>0 DEF Dequeue, DequeueBuffer, DequeueResult, InHand
    <3> QED
      BY <1>f, <2>0, <3>1 DEF FifoOrder
  <2> QED
    BY <2>1, <2>2
<1>3. ASSUME NEW ok \in BOOLEAN, WriteFile(ok) PROVE FifoOrder'
  <2>1. /\ Len(written') = Len(written) + 1
        /\ written'[Len(written) + 1] = buffer
        /\ \A i \in 1..Len(written) : written'[i] = written[i]
    BY <1>3, <1>n DEF WriteFile
  <2>2. /\ writer = "write" /\ writer' = "check"
        /\ buffer_q' = buffer_q /\ sent' = sent
        /\ InHand = 1 /\ InHand' = 0
    BY <1>3 DEF WriteFile, InHand
  <2>3. ASSUME NEW i \in 1..Len(written') PROVE written'[i] = i
    <3>1. i \in 1..Len(written) \/ i = Len(written) + 1
      BY <1>n, <2>1
    <3> QED
      BY <3>1, <1>f, <2>1, <2>2
  <2> QED
    BY <1>n, <1>f, <2>1, <2>2, <2>3 DEF FifoOrder
<1> USE <1>f DEF FifoOrder, InHand
<1>4. CASE WriteDataLock \/ EncoderExit \/ StopLock \/ StopFlag \/ StopJoin
  BY <1>4 DEF WriteDataLock, EnqueueLock, EncoderExit, StopLock, StopFlag, StopJoin
<1>5. CASE WriteDataNotify \/ StopNotify
  BY <1>5 DEF WriteDataNotify, StopNotify, NotifyOne
<1>6. CASE CheckStop \/ CountBuffers
  BY <1>6 DEF CheckStop, CountBuffers
<1>7. CASE WaitLock \/ WaitPark \/ WaitReturn \/ SpuriousWakeup
  BY <1>7 DEF WaitLock, WaitPark, WaitReturn, SpuriousWakeup
<1>8. CASE UNCHANGED vars
  BY <1>8 DEF vars
<1> QED
  BY <1>1, <1>2, <1>3, <1>4, <1>5, <1>6, <1>7, <1>8
     DEF Next, EncoderStep, StopStep, WriterStep

-----------------------------------------------------------------------------
(* The strengthened invariant holds in every reachable state. *)
LEMMA Invariance == Spec => []IInv
<1>1. IInv /\ [Next]_vars => IInv'
  BY TypeStep, ProtocolStep, ExitStep, FifoStep DEF IInv
<1> QED
  BY InitIInv, <1>1, PTL DEF Spec

(* Type correctness of the file sink. *)
THEOREM TypeCorrect == Spec => []TypeOK
<1>1. IInv => TypeOK
  BY DEF IInv
<1> QED
  BY Invariance, <1>1, PTL

(* No chunk is lost, duplicated or reordered between WriteData and         *)
(* WriteFile, whatever the interleaving of the three threads.              *)
THEOREM FifoCorrect == Spec => []FifoOrder
<1>1. IInv => FifoOrder
  BY DEF IInv
<1> QED
  BY Invariance, <1>1, PTL

(* WriterThread returns only with an empty queue, and when Stop has        *)
(* returned every accepted buffer has been handed to WriteFile.            *)
THEOREM DrainCorrect == Spec => []DrainedOnExit
<1>1. IInv => DrainedOnExit
  BY DEF IInv, ExitInv, FifoOrder, InHand, DrainedOnExit
<1> QED
  BY Invariance, <1>1, PTL
-----------------------------------------------------------------------------
(* FileWriter implements FifoSink.                                         *)

(* The pending buffers of the refinement mapping. *)
Owed == (IF writer = "write" THEN <<buffer>> ELSE <<>>) \o buffer_q

LEMMA OwedWhileWriting ==
  ASSUME IInv, writer = "write"
  PROVE  Owed = <<buffer>> \o buffer_q
BY DEF Owed

LEMMA OwedOtherwise ==
  ASSUME IInv, writer # "write"
  PROVE  Owed = buffer_q
<1>1. buffer_q \in Seq(Nat)
  BY DEF IInv, TypeOK
<1> QED
  BY <1>1, ConcatEmptySeq DEF Owed

(* The number the next accepted buffer gets: its predecessors are either   *)
(* owed or handled.                                                        *)
LEMMA NextNumber == IInv => Len(Owed) + Len(written) = sent
<1> SUFFICES ASSUME IInv PROVE Len(Owed) + Len(written) = sent
  OBVIOUS
<1>1. /\ buffer_q \in Seq(Nat) /\ buffer \in Nat
      /\ Len(written) + InHand + Len(buffer_q) = sent
  BY DEF IInv, TypeOK, FifoOrder
<1>2. Len(buffer_q) \in Nat /\ Len(written) \in Nat
  BY LenProperties DEF IInv, TypeOK
<1>3. CASE writer = "write"
  <2>1. <<buffer>> \in Seq(Nat) /\ Len(<<buffer>>) = 1
    BY <1>1
  <2>2. Len(Owed) = 1 + Len(buffer_q)
    BY <1>1, <1>3, <2>1, OwedWhileWriting, ConcatProperties
  <2> QED
    BY <1>1, <1>2, <1>3, <2>2 DEF InHand
<1>4. CASE writer # "write"
  BY <1>1, <1>2, <1>4, OwedOtherwise DEF InHand
<1> QED
  BY <1>3, <1>4

(* Steps that move no buffer, and neither start nor end the thread. *)
LEMMA Stutter ==
  ASSUME IInv, IInv',
         buffer_q' = buffer_q, written' = written,
         \/ writer' = writer /\ buffer' = buffer
         \/ writer \notin {"write", "done"} /\ writer' \notin {"write", "done"}
  PROVE  UNCHANGED Abstract!sink_vars
<1>1. CASE writer' = writer /\ buffer' = buffer
  BY <1>1 DEF Abstract!sink_vars
<1>2. CASE writer \notin {"write", "done"} /\ writer' \notin {"write", "done"}
  BY <1>2 DEF Abstract!sink_vars
<1> QED
  BY <1>1, <1>2

LEMMA SimulationStep ==
  IInv /\ IInv' /\ [Next]_vars => [Abstract!Next]_Abstract!sink_vars
<1> SUFFICES ASSUME IInv, IInv', [Next]_vars
             PROVE  [Abstract!Next]_Abstract!sink_vars
  OBVIOUS
<1>t. /\ buffer_q \in Seq(Nat) /\ written \in Seq(Nat)
      /\ buffer \in Nat /\ sent \in Nat
  BY BoundsAssumption DEF IInv, TypeOK
<1> USE DEF NoBuffer, queue_vars, writer_vars, encoder_vars
<1>1. CASE WriteDataPush
  <2>1. /\ writer # "done" /\ writer' = writer /\ buffer' = buffer
        /\ written' = written /\ buffer_q' = Append(buffer_q, sent + 1)
    BY <1>1 DEF WriteDataPush, EnqueuePush, IInv, TypeOK, ProtocolInv, ExitInv
  <2>2. Owed' = Append(Owed, sent + 1)
    <3>1. CASE writer = "write"
      <4>1. <<buffer>> \in Seq(Nat) /\ sent + 1 \in Nat
        BY <1>t
      <4>2. <<buffer>> \o Append(buffer_q, sent + 1)
              = Append(<<buffer>> \o buffer_q, sent + 1)
        BY <1>t, <4>1, ConcatAppend
      <4> QED
        BY <2>1, <3>1, <4>2 DEF Owed
    <3>2. CASE writer # "write"
      <4>1. Owed' = buffer_q'
        BY <1>t, <2>1, <3>2, AppendProperties, ConcatEmptySeq DEF Owed, IInv, TypeOK
      <4> QED
        BY <2>1, <3>2, <4>1, OwedOtherwise
    <3> QED
      BY <3>1, <3>2
  <2>3. Len(Owed) + Len(written) = sent
    BY NextNumber
  <2>4. Abstract!Accept
    BY <2>1, <2>2, <2>3 DEF Abstract!Accept, Abstract!Accepted, Owed
  <2> QED
    BY <2>4 DEF Abstract!Next
<1>2. CASE Dequeue
  <2>1. CASE CanDequeue
    <3>1. /\ buffer_q # <<>> /\ buffer' = Head(buffer_q)
          /\ buffer_q' = Tail(buffer_q) /\ written' = written
          /\ writer = "dequeue"
      BY <1>2, <2>1 DEF Dequeue, DequeueBuffer, DequeueResult, CanDequeue
    <3>2. writer' = "write"
      <4>1. /\ Len(buffer_q) >= 1 /\ Len(written) \in Nat /\ InHand = 0
            /\ Head(buffer_q) = buffer_q[1]
        <5>1. Len(buffer_q) \in Nat /\ Len(buffer_q) # 0
          BY <1>t, <3>1, LenProperties, EmptySeq
        <5> QED
          BY <1>t, <3>1, <5>1, LenProperties DEF InHand
      <4>2. Head(buffer_q) = Len(written) + InHand + 1
        BY <4>1 DEF IInv, FifoOrder
      <4> QED
        BY <1>2, <2>1, <4>1, <4>2 DEF Dequeue, DequeueResult
    <3>3. Owed' = buffer_q
      BY <1>t, <3>1, <3>2, HeadConsTail DEF Owed
    <3>4. Owed = buffer_q
      BY <3>1, OwedOtherwise
    <3> QED
      BY <3>1, <3>2, <3>3, <3>4 DEF Abstract!sink_vars, Owed
  <2>2. CASE ~CanDequeue
    <3>1. /\ buffer_q' = buffer_q /\ written' = written
          /\ writer = "dequeue" /\ writer' = "lock"
      BY <1>2, <2>2 DEF Dequeue, DequeueBuffer, DequeueResult
    <3> QED
      BY <3>1, Stutter
  <2> QED
    BY <2>1, <2>2
<1>3. ASSUME NEW ok \in BOOLEAN, WriteFile(ok) PROVE Abstract!Next
  <2>1. /\ writer = "write" /\ writer' = "check"
        /\ buffer_q' = buffer_q /\ written' = Append(written, buffer)
    BY <1>3 DEF WriteFile
  <2>2. Owed = <<buffer>> \o buffer_q /\ Owed' = buffer_q
    <3>1. <<>> \o buffer_q = buffer_q
      BY <1>t, ConcatEmptySeq
    <3> QED
      BY <2>1, <3>1 DEF Owed
  <2>3. Owed # <<>> /\ Head(Owed) = buffer /\ Tail(Owed) = buffer_q
    BY <1>t, <2>2, ConsProperties
  <2>4. Abstract!Handle
    BY <2>1, <2>2, <2>3 DEF Abstract!Handle, Owed
  <2> QED
    BY <2>4 DEF Abstract!Next
<1>4. CASE CountBuffers
  <2>1. /\ writer = "count" /\ buffer_q' = buffer_q /\ written' = written
        /\ buffer' = buffer
    BY <1>4 DEF CountBuffers
  <2>2. CASE writer' = "done"
    <3>1. buffer_q = <<>>
      BY <2>1, <2>2 DEF IInv, ExitInv
    <3>2. Owed = <<>> /\ Owed' = <<>>
      BY <2>1, <2>2, <3>1 DEF Owed
    <3>3. Abstract!Close
      BY <2>1, <2>2, <3>2 DEF Abstract!Close, Owed
    <3> QED
      BY <3>3 DEF Abstract!Next
  <2>3. CASE writer' = "dequeue"
    BY <2>1, <2>3, Stutter
  <2> QED
    BY <1>4, <2>2, <2>3 DEF CountBuffers
<1>5. CASE WriteDataLock \/ EncoderExit \/ StopLock \/ StopFlag \/ StopJoin
  BY <1>5, Stutter
     DEF WriteDataLock, EnqueueLock, EncoderExit, StopLock, StopFlag, StopJoin
<1>6. CASE WriteDataNotify \/ StopNotify
  BY <1>6, Stutter DEF WriteDataNotify, StopNotify, NotifyOne
<1>7. CASE CheckStop
  BY <1>7, Stutter DEF CheckStop
<1>8. CASE WaitLock \/ WaitPark \/ WaitReturn \/ SpuriousWakeup
  BY <1>8, Stutter DEF WaitLock, WaitPark, WaitReturn, SpuriousWakeup
<1>9. CASE UNCHANGED vars
  BY <1>9, Stutter DEF vars
<1> QED
  BY <1>1, <1>2, <1>3, <1>4, <1>5, <1>6, <1>7, <1>8, <1>9
     DEF Next, EncoderStep, StopStep, WriterStep

(* The file sink implements the sink promise. *)
THEOREM Refinement == Spec => ImplementsFifoSink
<1>1. Init => Abstract!Init
  BY EmptySeq, ConcatEmptySeq
     DEF Init, QueueInit, Abstract!Init
<1>2. IInv /\ IInv' /\ [Next]_vars => [Abstract!Next]_Abstract!sink_vars
  BY SimulationStep
<1> QED
  BY Invariance, <1>1, <1>2, PTL DEF Spec, ImplementsFifoSink, Abstract!Spec
==============================================================================
