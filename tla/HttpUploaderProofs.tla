------------------------- MODULE HttpUploaderProofs -------------------------
(***************************************************************************)
(* What holds of HttpUploader for any number of buffers, units, polls and  *)
(* spurious wakeups.  mutex_ has three users here, so that a stop is seen  *)
(* by the progress callback at once needs that the main thread, which set  *)
(* it, does not take the lock again.                                       *)
(***************************************************************************)
EXTENDS HttpUploader, SequenceLemmas

(* Who holds which mutex, and how far Stop has come.                       *)
ProtocolInv ==
  /\ q_mutex = "encoder" <=> encoder = "push"
  /\ encoder = "push" => sent < MaxBuffers
  /\ mutex_ = "main" <=> main \in {"flag", "stats"}
  /\ mutex_ = "uploader" <=> uploader = "wait"
  /\ stop_ <=> main \in {"notify", "join", "stopped"}
  /\ main \notin {"polling", "stats"} => encoder = "exited"

(* UploadThread counts the queue, and returns, only after it saw stop_.    *)
ExitInv ==
  /\ uploader \in {"count", "done"} => stop_
  /\ uploader = "done" => buffer_q = <<>>
  /\ main = "stopped" => uploader = "done"

(* Nothing has been moved of a buffer whose upload has not begun.          *)
MovedInv ==
  uploader \notin {"progress", "report", "transfer", "tally"} => moved = 0

(* A unit moved after the stop was moved on the way to the next progress   *)
(* callback, which ends the upload, if there is one.                       *)
LateInv ==
  /\ ~stop_ => late = 0
  /\ curl # "no_progress" =>
       /\ late <= 1
       /\ uploader \in {"report", "transfer"} => late = 0

(* What the console shows has been moved, and is still in the statistics.  *)
ShownInv ==
  curl = "ready" /\ untallied = 0 =>
    shown <= bytes_sent_current + total_bytes_uploaded

InHand == IF Uploading THEN 1 ELSE 0

(* Every accepted buffer was handled, is being uploaded or is queued.      *)
CountInv ==
  /\ buffer_q \in Seq(Nat \ {0})
  /\ Len(handled) + InHand + Len(buffer_q) = sent

IInv == /\ TypeOK /\ ProtocolInv /\ ExitInv /\ MovedInv
        /\ StatsAccount /\ LateInv /\ ShownInv /\ CountInv
-----------------------------------------------------------------------------
LEMMA InitIInv == Init => IInv
<1> SUFFICES ASSUME Init PROVE IInv
  OBVIOUS
<1>s. /\ curl \in {"ready", "no_write", "no_progress", "none"}
      /\ bytes_sent_current \in Leftovers \cup {0}
      /\ total_bytes_uploaded \in Leftovers \cup {0}
      /\ residue = total_bytes_uploaded
      /\ curl = "ready" => bytes_sent_current = 0 /\ total_bytes_uploaded = 0
  BY DEF Init, SetUp
<1>i. bytes_sent_current \in Int /\ total_bytes_uploaded \in Int
  BY <1>s, BoundsAssumption
<1> USE BoundsAssumption DEF Init, QueueInit, Free, NoBuffer
<1>1. /\ buffer_q \in Seq(Nat \ {0}) /\ buffer_q \in Seq(Nat)
      /\ handled \in Seq(Nat) /\ Len(buffer_q) = 0 /\ Len(handled) = 0
  BY EmptySeq
<1>2. TypeOK
  <2>1. ThreadsOK
    BY <1>s DEF ThreadsOK
  <2>2. bytes_sent_current \in Leftovers \cup 0..BufferUnits
    BY <1>s
  <2>3. /\ moved \in 0..BufferUnits /\ sent \in 0..MaxBuffers
        /\ polls \in 0..MaxPolls /\ spurious \in 0..MaxSpurious
    OBVIOUS
  <2> QED
    BY <1>s, <1>i, <1>1, <2>1, <2>2, <2>3 DEF TypeOK, CountersOK
<1>3. ProtocolInv /\ ExitInv /\ MovedInv /\ LateInv
  BY DEF ProtocolInv, ExitInv, MovedInv, LateInv
<1>5. StatsAccount /\ ShownInv
  BY <1>s, <1>i DEF StatsAccount, ShownInv
<1>4. CountInv
  BY <1>1 DEF CountInv, InHand, Uploading
<1> QED
  BY <1>2, <1>3, <1>4, <1>5 DEF IInv

(* The type invariant, one step per action. *)
LEMMA ThreadsStep == IInv /\ [Next]_vars => ThreadsOK'
<1> SUFFICES ASSUME IInv, [Next]_vars PROVE ThreadsOK'
  OBVIOUS
<1> USE BoundsAssumption DEF IInv, TypeOK, ThreadsOK, Uploading, Free,
        CallsProgress, setup_vars, queue_vars, stats_vars, upload_vars,
        encoder_vars, poll_vars, history_vars
<1>1. CASE EnqueueBufferLock
  BY <1>1 DEF EnqueueBufferLock, EnqueueLock
<1>2. CASE EnqueueBufferPush
  BY <1>2 DEF EnqueueBufferPush, EnqueuePush
<1>3. CASE EnqueueBufferNotify \/ StopNotify
  BY <1>3 DEF EnqueueBufferNotify, StopNotify, NotifyOne
<1>4. CASE EncoderExit \/ GetStatsLock \/ GetStatsCopy
  BY <1>4 DEF EncoderExit, GetStatsLock, GetStatsCopy
<1>5. CASE StopLock \/ StopFlag \/ StopJoin
  <2>1. CASE StopLock
    BY <2>1 DEF StopLock
  <2>2. CASE StopFlag
    BY <2>2 DEF StopFlag
  <2>3. CASE StopJoin
    BY <2>3 DEF StopJoin
  <2> QED
    BY <1>5, <2>1, <2>2, <2>3
<1>6. CASE CheckStop \/ CountBuffers
  BY <1>6 DEF CheckStop, CountBuffers
<1>7. CASE Dequeue
  BY <1>7 DEF Dequeue, DequeueBuffer, DequeueResult, CanDequeue
<1>8. CASE WaitLock \/ WaitPark \/ WaitReturn \/ SpuriousWakeup
  BY <1>8 DEF WaitLock, WaitPark, WaitReturn, SpuriousWakeup
<1>9. ASSUME NEW ok \in BOOLEAN, UploadSetup(ok) PROVE ThreadsOK'
  BY <1>9 DEF UploadSetup, UploadReturns
<1>10. CASE \/ ProgressCheck \/ ProgressReport \/ SendUnit
            \/ Stall \/ PerformReturns
  BY <1>10 DEF ProgressCheck, ProgressReport, SendUnit, Stall, PerformReturns
<1>11. CASE Tally \/ TallyFails
  BY <1>11 DEF Tally, TallyFails, UploadReturns
<1>12. CASE UNCHANGED vars
  BY <1>12 DEF vars
<1> QED
  BY <1>1, <1>2, <1>3, <1>4, <1>5, <1>6, <1>7, <1>8, <1>9, <1>10, <1>11, <1>12
     DEF Next, EncoderStep, MainStep, ThreadStep, UploadStep

LEMMA CountersStep == IInv /\ [Next]_vars => CountersOK'
<1> SUFFICES ASSUME IInv, [Next]_vars PROVE CountersOK'
  OBVIOUS
<1>c. CountersOK
  BY DEF IInv, TypeOK
<1> USE BoundsAssumption DEF CallsProgress, setup_vars, queue_vars, stats_vars,
        upload_vars, encoder_vars, poll_vars, history_vars
<1>u. ASSUME UNCHANGED <<setup_vars, buffer_q, stats_vars, upload_vars, sent,
                         poll_vars, history_vars, spurious>>
      PROVE  CountersOK'
  BY <1>u, <1>c DEF CountersOK
<1>1. CASE EnqueueBufferLock \/ EnqueueBufferNotify \/ EncoderExit
  BY <1>1, <1>u DEF EnqueueBufferLock, EnqueueLock, EnqueueBufferNotify,
     EncoderExit
<1>2. CASE EnqueueBufferPush
  <2>1. sent + 1 \in 0..MaxBuffers
    BY <1>2, <1>c DEF EnqueueBufferPush, IInv, ProtocolInv, CountersOK
  <2>2. buffer_q' \in Seq(Nat)
    BY <1>2, <1>c, AppendProperties
       DEF EnqueueBufferPush, EnqueuePush, CountersOK
  <2> QED
    BY <1>2, <1>c, <2>1, <2>2 DEF EnqueueBufferPush, CountersOK
<1>3. CASE GetStatsLock
  BY <1>3, <1>c DEF GetStatsLock, CountersOK
<1>4. CASE GetStatsCopy
  <2>1. shown' \in Int
    BY <1>4, <1>c DEF GetStatsCopy, CountersOK
  <2> QED
    BY <1>4, <2>1, <1>c DEF GetStatsCopy, CountersOK
<1>5. CASE StopLock \/ StopFlag \/ StopNotify \/ StopJoin
  BY <1>5, <1>u DEF StopLock, StopFlag, StopNotify, StopJoin
<1>6. CASE CheckStop \/ CountBuffers \/ WaitLock \/ WaitPark \/ WaitReturn
  BY <1>6, <1>u DEF CheckStop, CountBuffers, WaitLock, WaitPark, WaitReturn
<1>7. CASE Dequeue
  <2>1. buffer_q' \in Seq(Nat) /\ buffer' \in Nat
    BY <1>7, <1>c DEF Dequeue, DequeueBuffer, DequeueResult, CanDequeue,
       NoBuffer, CountersOK
  <2> QED
    BY <1>7, <2>1, <1>c DEF Dequeue, CountersOK
<1>8. CASE SpuriousWakeup
  BY <1>8, <1>c DEF SpuriousWakeup, CountersOK
<1>r. ASSUME UploadReturns
      PROVE  /\ buffer' \in Nat /\ moved' \in 0..BufferUnits
             /\ handled' \in Seq(Nat)
  BY <1>r, <1>c, AppendProperties DEF UploadReturns, NoBuffer, CountersOK
<1>9. ASSUME NEW ok \in BOOLEAN, UploadSetup(ok) PROVE CountersOK'
  <2>1. CASE ok
    BY <1>9, <2>1, <1>u DEF UploadSetup
  <2>2. CASE ~ok
    BY <1>9, <2>2, <1>r, <1>c DEF UploadSetup, CountersOK
  <2> QED
    BY <2>1, <2>2
<1>10. CASE ProgressCheck \/ Stall \/ PerformReturns
  BY <1>10, <1>u DEF ProgressCheck, Stall, PerformReturns
<1>11. CASE ProgressReport
  BY <1>11, <1>c DEF ProgressReport, CountersOK
<1>12. CASE SendUnit
  <2>1. moved' \in 0..BufferUnits /\ carried' \in Nat /\ late' \in Nat
    BY <1>12, <1>c DEF SendUnit, CountersOK
  <2> QED
    BY <1>12, <2>1, <1>c DEF SendUnit, CountersOK
<1>13. CASE Tally
  <2>1. bytes_sent_current' \in 0..BufferUnits /\ total_bytes_uploaded' \in Int
    BY <1>13, <1>c DEF Tally, CountersOK
  <2> QED
    BY <1>13, <2>1, <1>r, <1>c DEF Tally, CountersOK
<1>14. CASE TallyFails
  <2>1. untallied' \in Nat
    BY <1>14, <1>c DEF TallyFails, CountersOK
  <2> QED
    BY <1>14, <2>1, <1>r, <1>c DEF TallyFails, CountersOK
<1>15. CASE UNCHANGED vars
  BY <1>15, <1>u DEF vars
<1> QED
  BY <1>1, <1>2, <1>3, <1>4, <1>5, <1>6, <1>7, <1>8, <1>9, <1>10, <1>11, <1>12,
     <1>13, <1>14, <1>15
     DEF Next, EncoderStep, MainStep, ThreadStep, UploadStep

LEMMA TypeStep == IInv /\ [Next]_vars => TypeOK'
BY ThreadsStep, CountersStep DEF TypeOK

(* Locks and threads. *)
LEMMA ProtocolStep == IInv /\ [Next]_vars => ProtocolInv'
<1> SUFFICES ASSUME IInv, [Next]_vars PROVE ProtocolInv'
  OBVIOUS
<1> USE BoundsAssumption DEF IInv, TypeOK, ThreadsOK, CountersOK,
        ProtocolInv, Free, NoBuffer, queue_vars,
        CallsProgress, setup_vars, stats_vars, upload_vars, encoder_vars,
        poll_vars, history_vars
<1>1. CASE EnqueueBufferLock \/ EnqueueBufferPush
  <2>1. CASE EnqueueBufferLock
    BY <2>1 DEF EnqueueBufferLock, EnqueueLock
  <2>2. CASE EnqueueBufferPush
    BY <2>2 DEF EnqueueBufferPush, EnqueuePush
  <2> QED
    BY <1>1, <2>1, <2>2
<1>2. CASE EnqueueBufferNotify \/ StopNotify
  <2>1. CASE EnqueueBufferNotify
    BY <2>1 DEF EnqueueBufferNotify, NotifyOne
  <2>2. CASE StopNotify
    BY <2>2 DEF StopNotify, NotifyOne
  <2> QED
    BY <1>2, <2>1, <2>2
<1>3. CASE EncoderExit \/ GetStatsLock \/ GetStatsCopy
  <2>1. CASE EncoderExit
    BY <2>1 DEF EncoderExit
  <2>2. CASE GetStatsLock
    BY <2>2 DEF GetStatsLock
  <2>3. CASE GetStatsCopy
    BY <2>3 DEF GetStatsCopy
  <2> QED
    BY <1>3, <2>1, <2>2, <2>3
<1>4. CASE StopLock \/ StopFlag \/ StopJoin
  <2>1. CASE StopLock
    BY <2>1 DEF StopLock
  <2>2. CASE StopFlag
    BY <2>2 DEF StopFlag
  <2>3. CASE StopJoin
    BY <2>3 DEF StopJoin
  <2> QED
    BY <1>4, <2>1, <2>2, <2>3
<1>5. CASE CheckStop \/ CountBuffers \/ Dequeue
  <2>1. CASE CheckStop
    BY <2>1 DEF CheckStop
  <2>2. CASE CountBuffers
    BY <2>2 DEF CountBuffers
  <2>3. CASE Dequeue
    BY <2>3 DEF Dequeue, DequeueBuffer
  <2> QED
    BY <1>5, <2>1, <2>2, <2>3
<1>6. CASE WaitLock \/ WaitPark \/ WaitReturn \/ SpuriousWakeup
  <2>1. CASE WaitLock
    BY <2>1 DEF WaitLock
  <2>2. CASE WaitPark
    BY <2>2 DEF WaitPark
  <2>3. CASE WaitReturn \/ SpuriousWakeup
    BY <2>3 DEF WaitReturn, SpuriousWakeup
  <2> QED
    BY <1>6, <2>1, <2>2, <2>3
<1>7. CASE UploadStep
  <2>1. CASE \E ok \in BOOLEAN : UploadSetup(ok)
    BY <2>1 DEF UploadSetup, UploadReturns
  <2>2. CASE ProgressCheck
    BY <2>2 DEF ProgressCheck
  <2>3. CASE ProgressReport
    BY <2>3 DEF ProgressReport
  <2>4. CASE SendUnit
    BY <2>4 DEF SendUnit
  <2>5. CASE Stall
    BY <2>5 DEF Stall
  <2>6. CASE PerformReturns
    BY <2>6 DEF PerformReturns
  <2>7. CASE Tally
    BY <2>7 DEF Tally, UploadReturns
  <2>8. CASE TallyFails
    BY <2>8 DEF TallyFails, UploadReturns
  <2> QED
    BY <1>7, <2>1, <2>2, <2>3, <2>4, <2>5, <2>6, <2>7, <2>8 DEF UploadStep
<1>8. CASE UNCHANGED vars
  BY <1>8 DEF vars
<1> QED
  BY <1>1, <1>2, <1>3, <1>4, <1>5, <1>6, <1>7, <1>8
     DEF Next, EncoderStep, MainStep, ThreadStep

(* Returning: an UploadThread that counted an empty queue after a stop     *)
(* stays with an empty queue, because the encoder thread is gone.          *)
LEMMA ExitStep == IInv /\ [Next]_vars => ExitInv'
<1> SUFFICES ASSUME IInv, [Next]_vars PROVE ExitInv'
  OBVIOUS
<1> USE DEF IInv, TypeOK, ThreadsOK, CountersOK, ProtocolInv, ExitInv,
        Free, NoBuffer, queue_vars,
        CallsProgress, setup_vars, stats_vars, upload_vars, encoder_vars,
        poll_vars, history_vars
<1>1. CASE EnqueueBufferLock \/ EnqueueBufferPush
  BY <1>1 DEF EnqueueBufferLock, EnqueueLock, EnqueueBufferPush, EnqueuePush
<1>2. CASE EnqueueBufferNotify \/ StopNotify
  BY <1>2 DEF EnqueueBufferNotify, StopNotify, NotifyOne
<1>3. CASE EncoderExit \/ GetStatsLock \/ GetStatsCopy
  BY <1>3 DEF EncoderExit, GetStatsLock, GetStatsCopy
<1>4. CASE StopLock \/ StopFlag \/ StopJoin
  BY <1>4 DEF StopLock, StopFlag, StopJoin
<1>5. CASE CheckStop
  BY <1>5 DEF CheckStop, StopRequested
<1>6. CASE CountBuffers
  <2>1. Len(buffer_q) > 0 \/ buffer_q = <<>>
    BY EmptySeq
  <2> QED
    BY <1>6, <2>1 DEF CountBuffers, NumBuffers
<1>7. CASE Dequeue
  BY <1>7 DEF Dequeue, DequeueBuffer, DequeueResult, CanDequeue
<1>8. CASE WaitLock \/ WaitPark \/ WaitReturn \/ SpuriousWakeup
  BY <1>8 DEF WaitLock, WaitPark, WaitReturn, SpuriousWakeup
<1>9. CASE UploadStep
  BY <1>9 DEF UploadStep, UploadSetup, UploadReturns, ProgressCheck,
     ProgressReport, SendUnit, Stall, PerformReturns, Tally, TallyFails
<1>10. CASE UNCHANGED vars
  BY <1>10 DEF vars
<1> QED
  BY <1>1, <1>2, <1>3, <1>4, <1>5, <1>6, <1>7, <1>8, <1>9, <1>10
     DEF Next, EncoderStep, MainStep, ThreadStep

(* The statistics and the stop: one step per action of an upload. *)
LEMMA StatsStep == IInv /\ [Next]_vars => MovedInv' /\ StatsAccount' /\ LateInv'
<1> SUFFICES ASSUME IInv, [Next]_vars
             PROVE  MovedInv' /\ StatsAccount' /\ LateInv'
  OBVIOUS
<1>c. /\ carried \in Nat /\ untallied \in Nat /\ late \in Nat /\ moved \in Nat
      /\ bytes_sent_current \in Int /\ total_bytes_uploaded \in Int
      /\ residue \in Int /\ stop_ \in BOOLEAN
  BY BoundsAssumption DEF IInv, TypeOK, ThreadsOK, CountersOK
<1>i. MovedInv /\ StatsAccount /\ LateInv
  BY DEF IInv
<1> USE DEF CallsProgress, setup_vars, queue_vars, stats_vars,
        upload_vars, encoder_vars, poll_vars, history_vars,
        MovedInv, StatsAccount, LateInv
<1>1. CASE \/ EnqueueBufferLock \/ EnqueueBufferPush \/ EncoderExit
           \/ GetStatsLock \/ GetStatsCopy \/ StopLock \/ StopJoin
  BY <1>1, <1>i DEF EnqueueBufferLock, EnqueueBufferPush, EncoderExit,
     GetStatsLock, GetStatsCopy, StopLock, StopJoin
<1>2. CASE EnqueueBufferNotify \/ StopNotify
  BY <1>2, <1>i DEF EnqueueBufferNotify, StopNotify, NotifyOne
<1>3. CASE StopFlag
  BY <1>3, <1>i DEF StopFlag
<1>4. CASE \/ CheckStop \/ CountBuffers \/ Dequeue
           \/ WaitLock \/ WaitPark \/ WaitReturn \/ SpuriousWakeup
  BY <1>4, <1>i DEF CheckStop, CountBuffers, Dequeue, WaitLock, WaitPark,
     WaitReturn, SpuriousWakeup
<1>5. ASSUME NEW ok \in BOOLEAN, UploadSetup(ok)
      PROVE  MovedInv' /\ StatsAccount' /\ LateInv'
  BY <1>5, <1>i DEF UploadSetup, UploadReturns
<1>6. CASE ProgressCheck
  <2>1. CASE stop_
    <3>1. mutex_ = Free
      <4>1. mutex_ \in {Free, "main", "uploader"} /\ ProtocolInv
        BY DEF IInv, TypeOK, ThreadsOK
      <4> QED
        BY <1>6, <2>1, <4>1 DEF ProgressCheck, ProtocolInv
    <3> QED
      BY <1>6, <2>1, <3>1, <1>i DEF ProgressCheck, StopRequested
  <2>2. CASE ~stop_
    BY <1>6, <2>2, <1>i DEF ProgressCheck
  <2> QED
    BY <2>1, <2>2
<1>7. CASE ProgressReport
  BY <1>7, <1>i, <1>c DEF ProgressReport
<1>8. CASE SendUnit
  BY <1>8, <1>i, <1>c DEF SendUnit
<1>9. CASE Stall \/ PerformReturns
  BY <1>9, <1>i DEF Stall, PerformReturns
<1>10. CASE Tally
  BY <1>10, <1>i, <1>c DEF Tally, UploadReturns
<1>11. CASE TallyFails
  BY <1>11, <1>i, <1>c DEF TallyFails, UploadReturns
<1>12. CASE UNCHANGED vars
  BY <1>12, <1>i DEF vars
<1> QED
  BY <1>1, <1>2, <1>3, <1>4, <1>5, <1>6, <1>7, <1>8, <1>9, <1>10, <1>11, <1>12
     DEF Next, EncoderStep, MainStep, ThreadStep, UploadStep

(* The counts on the console.  By StatsAccount the count of the upload in  *)
(* progress is at most what it has moved, so publishing that count and     *)
(* adding it to the total take nothing away.                               *)
LEMMA ShownStep == IInv /\ [Next]_vars => ShownInv'
<1> SUFFICES ASSUME IInv, [Next]_vars PROVE ShownInv'
  OBVIOUS
<1>c. /\ carried \in Nat /\ untallied \in Nat /\ moved \in Nat /\ shown \in Int
      /\ bytes_sent_current \in Int /\ total_bytes_uploaded \in Int
      /\ residue \in Int
      /\ StatsAccount /\ ShownInv
  BY BoundsAssumption DEF IInv, TypeOK, CountersOK
<1>u. ASSUME UNCHANGED <<curl, untallied, shown, bytes_sent_current,
                         total_bytes_uploaded>>
      PROVE  ShownInv'
  BY <1>u, <1>c DEF ShownInv
<1>m. curl = "ready" /\ untallied = 0 => bytes_sent_current <= moved
  BY <1>c DEF StatsAccount
<1> USE DEF CallsProgress, setup_vars, queue_vars, stats_vars,
        upload_vars, encoder_vars, poll_vars, history_vars
<1>1. CASE EncoderStep
  BY <1>1, <1>u DEF EncoderStep, EnqueueBufferLock, EnqueueBufferPush,
     EnqueueBufferNotify, EncoderExit
<1>2. CASE GetStatsLock \/ StopLock \/ StopFlag \/ StopNotify \/ StopJoin
  BY <1>2, <1>u DEF GetStatsLock, StopLock, StopFlag, StopNotify, StopJoin
<1>3. CASE GetStatsCopy
  BY <1>3, <1>c DEF GetStatsCopy, ShownInv
<1>4. CASE \/ CheckStop \/ CountBuffers \/ Dequeue
           \/ WaitLock \/ WaitPark \/ WaitReturn \/ SpuriousWakeup
  BY <1>4, <1>u DEF CheckStop, CountBuffers, Dequeue, WaitLock, WaitPark,
     WaitReturn, SpuriousWakeup
<1>5. CASE \/ \E ok \in BOOLEAN : UploadSetup(ok)
           \/ ProgressCheck \/ SendUnit \/ Stall \/ PerformReturns
  BY <1>5, <1>u DEF UploadSetup, ProgressCheck, SendUnit, Stall, PerformReturns
<1>6. CASE ProgressReport
  BY <1>6, <1>m, <1>c DEF ProgressReport, ShownInv
<1>7. CASE Tally
  BY <1>7, <1>m, <1>c DEF Tally, ShownInv
<1>8. CASE TallyFails
  BY <1>8, <1>c DEF TallyFails, ShownInv
<1>9. CASE UNCHANGED vars
  BY <1>9, <1>u DEF vars
<1> QED
  BY <1>1, <1>2, <1>3, <1>4, <1>5, <1>6, <1>7, <1>8, <1>9
     DEF Next, MainStep, ThreadStep, UploadStep

(* Conservation: only the push, the dequeue and the end of an upload move  *)
(* a buffer.                                                               *)
LEMMA CountStep == IInv /\ [Next]_vars => CountInv'
<1> SUFFICES ASSUME IInv, [Next]_vars PROVE CountInv'
  OBVIOUS
<1>c. /\ buffer_q \in Seq(Nat \ {0}) /\ handled \in Seq(Nat)
      /\ Len(buffer_q) \in Nat /\ Len(handled) \in Nat
      /\ sent \in Nat /\ buffer \in Nat
      /\ Len(handled) + InHand + Len(buffer_q) = sent
  BY LenProperties, BoundsAssumption DEF IInv, TypeOK, CountersOK, CountInv
<1>u. ASSUME UNCHANGED <<buffer_q, handled, sent>>, InHand' = InHand
      PROVE  CountInv'
  BY <1>u, <1>c DEF CountInv
<1> USE DEF CallsProgress, setup_vars, queue_vars, stats_vars,
        upload_vars, encoder_vars, poll_vars, history_vars
<1>1. CASE EnqueueBufferPush
  <2>1. /\ buffer_q' \in Seq(Nat \ {0}) /\ Len(buffer_q') = Len(buffer_q) + 1
    <3>1. sent + 1 \in Nat \ {0}
      BY <1>c
    <3> QED
      BY <1>1, <1>c, <3>1, AppendProperties DEF EnqueueBufferPush, EnqueuePush
  <2>2. InHand' = InHand /\ handled' = handled /\ sent' = sent + 1
    BY <1>1 DEF EnqueueBufferPush, InHand, Uploading
  <2>3. InHand \in Nat
    BY DEF InHand
  <2> QED
    BY <1>c, <2>1, <2>2, <2>3 DEF CountInv
<1>2. CASE Dequeue
  <2>1. /\ uploader = "dequeue" /\ InHand = 0
        /\ UNCHANGED <<handled, sent>>
    BY <1>2 DEF Dequeue, InHand, Uploading
  <2>2. CASE CanDequeue
    <3>1. /\ buffer_q # <<>> /\ buffer_q' = Tail(buffer_q)
          /\ DequeueResult = Head(buffer_q)
      BY <1>2, <2>2 DEF Dequeue, DequeueBuffer, DequeueResult, CanDequeue
    <3>2. /\ Head(buffer_q) \in Nat \ {0} /\ Tail(buffer_q) \in Seq(Nat \ {0})
          /\ Len(Tail(buffer_q)) = Len(buffer_q) - 1
      BY <1>c, <3>1, HeadTailProperties
    <3>3. InHand' = 1
      <4>1. DequeueResult # NoBuffer
        BY <3>1, <3>2 DEF NoBuffer
      <4>2. uploader' = "setup"
        BY <1>2, <4>1 DEF Dequeue
      <4> QED
        BY <4>2 DEF InHand, Uploading
    <3>4. /\ buffer_q' \in Seq(Nat \ {0})
          /\ Len(buffer_q') = Len(buffer_q) - 1
      BY <3>1, <3>2
    <3>5. Len(handled') + InHand' + Len(buffer_q') = sent'
      <4> DEFINE h == Len(handled)
                 q == Len(buffer_q)
      <4>1. h \in Nat /\ q \in Nat /\ h + 0 + q = sent
        BY <1>c, <2>1
      <4>2. Len(handled') = h /\ Len(buffer_q') = q - 1 /\ sent' = sent
        BY <2>1, <3>4
      <4> HIDE DEF h, q
      <4> QED
        BY <3>3, <4>1, <4>2
    <3> QED
      BY <3>4, <3>5 DEF CountInv
  <2>3. CASE ~CanDequeue
    BY <1>2, <2>1, <2>3, <1>u
       DEF Dequeue, DequeueBuffer, DequeueResult, InHand, Uploading
  <2> QED
    BY <2>2, <2>3
<1>3. ASSUME UploadReturns, Uploading, UNCHANGED <<buffer_q, sent>>
      PROVE  CountInv'
  <2>1. InHand = 1 /\ InHand' = 0
    BY <1>3 DEF UploadReturns, InHand, Uploading
  <2>2. Len(handled') = Len(handled) + 1
    BY <1>3, <1>c, AppendProperties DEF UploadReturns
  <2> QED
    BY <1>3, <1>c, <2>1, <2>2 DEF CountInv
<1>4. CASE Tally \/ TallyFails
  BY <1>4, <1>3 DEF Tally, TallyFails, Uploading
<1>5. ASSUME NEW ok \in BOOLEAN, UploadSetup(ok) PROVE CountInv'
  <2>1. CASE ok
    BY <1>5, <2>1, <1>u DEF UploadSetup, InHand, Uploading
  <2>2. CASE ~ok
    BY <1>5, <2>2, <1>3 DEF UploadSetup, Uploading
  <2> QED
    BY <2>1, <2>2
<1> USE DEF InHand, Uploading
<1>6. CASE EnqueueBufferLock \/ EncoderExit \/ GetStatsLock \/ GetStatsCopy
  BY <1>6, <1>u DEF EnqueueBufferLock, EnqueueLock, EncoderExit, GetStatsLock,
     GetStatsCopy
<1>7. CASE EnqueueBufferNotify \/ StopNotify
  BY <1>7, <1>u DEF EnqueueBufferNotify, StopNotify, NotifyOne
<1>8. CASE StopLock \/ StopFlag \/ StopJoin
  BY <1>8, <1>u DEF StopLock, StopFlag, StopJoin
<1>9. CASE \/ CheckStop \/ CountBuffers
           \/ WaitLock \/ WaitPark \/ WaitReturn \/ SpuriousWakeup
  BY <1>9, <1>u DEF CheckStop, CountBuffers, WaitLock, WaitPark, WaitReturn,
     SpuriousWakeup
<1>10. CASE \/ ProgressCheck \/ ProgressReport \/ SendUnit
            \/ Stall \/ PerformReturns
  BY <1>10, <1>u DEF ProgressCheck, ProgressReport, SendUnit, Stall,
     PerformReturns
<1>11. CASE UNCHANGED vars
  BY <1>11, <1>u DEF vars
<1> QED
  BY <1>1, <1>2, <1>4, <1>5, <1>6, <1>7, <1>8, <1>9, <1>10, <1>11
     DEF Next, EncoderStep, MainStep, ThreadStep, UploadStep

-----------------------------------------------------------------------------
(* The strengthened invariant holds in every reachable state. *)
LEMMA Invariance == Spec => []IInv
<1>1. IInv /\ [Next]_vars => IInv'
  BY TypeStep, ProtocolStep, ExitStep, StatsStep, ShownStep, CountStep DEF IInv
<1> QED
  BY InitIInv, <1>1, PTL DEF Spec

(* Type correctness of the HTTP sink. *)
THEOREM TypeCorrect == Spec => []TypeOK
<1>1. IInv => TypeOK
  BY DEF IInv
<1> QED
  BY Invariance, <1>1, PTL

(* Every unit libcurl moved is counted once, whatever Init left undone;    *)
(* and if it left nothing undone, GetStats never reads more than was moved. *)
THEOREM StatsCorrect == Spec => []StatsAccount
<1>1. IInv => StatsAccount
  BY DEF IInv
<1> QED
  BY Invariance, <1>1, PTL

(* After Stop has set stop_ at most one more unit leaves the machine,      *)
(* whatever is queued, if libcurl took the progress callback.              *)
THEOREM StopCorrect == Spec => []StopIsPrompt
<1>1. IInv => StopIsPrompt
  BY DEF IInv, LateInv, StopIsPrompt
<1> QED
  BY Invariance, <1>1, PTL

(* The byte count on the console does not go back while libcurl reports    *)
(* the size of each upload, if Init was completed.                         *)
THEOREM ShownCorrect == Spec => ShownNeverDecreases
<1>1. IInv /\ [Next]_vars
        => [curl = "ready" => shown' >= shown \/ untallied > 0]_vars
  <2> SUFFICES ASSUME IInv, [Next]_vars, curl = "ready"
               PROVE  shown' >= shown \/ untallied > 0
    OBVIOUS
  <2>c. /\ shown \in Int /\ bytes_sent_current \in Int
        /\ total_bytes_uploaded \in Int /\ untallied \in Nat /\ ShownInv
    BY BoundsAssumption DEF IInv, TypeOK, CountersOK
  <2> USE DEF poll_vars
  <2>1. CASE GetStatsCopy
    BY <2>1, <2>c DEF GetStatsCopy, ShownInv
  <2>2. CASE shown' = shown
    BY <2>2, <2>c
  <2>3. GetStatsCopy \/ shown' = shown
    BY DEF Next, EncoderStep, EnqueueBufferLock, EnqueueBufferPush,
       EnqueueBufferNotify, EncoderExit, MainStep, GetStatsLock, StopLock,
       StopFlag, StopNotify, StopJoin, ThreadStep, CheckStop, CountBuffers,
       Dequeue, WaitLock, WaitPark, WaitReturn, UploadStep, UploadSetup,
       ProgressCheck, ProgressReport, SendUnit, Stall, PerformReturns, Tally,
       TallyFails, SpuriousWakeup, vars
  <2> QED
    BY <2>1, <2>2, <2>3
<1> QED
  BY Invariance, <1>1, PTL DEF Spec, ShownNeverDecreases

-----------------------------------------------------------------------------
(* HttpUploader implements FifoSink.                                       *)

(* The pending buffers of the refinement mapping. *)
Owed == (IF Uploading THEN <<buffer>> ELSE <<>>) \o buffer_q

LEMMA OwedProperties ==
  ASSUME IInv
  PROVE  /\ Uploading => Owed = <<buffer>> \o buffer_q
         /\ ~Uploading => Owed = buffer_q
         /\ Len(Owed) + Len(handled) = sent
<1>1. /\ buffer_q \in Seq(Nat) /\ buffer \in Nat
      /\ Len(buffer_q) \in Nat /\ Len(handled) \in Nat
      /\ Len(handled) + InHand + Len(buffer_q) = sent
  BY LenProperties DEF IInv, TypeOK, CountersOK, CountInv
<1>2. CASE Uploading
  <2>1. <<buffer>> \in Seq(Nat) /\ Len(<<buffer>>) = 1
    BY <1>1
  <2>2. Owed = <<buffer>> \o buffer_q
    BY <1>2 DEF Owed
  <2>3. Len(Owed) = 1 + Len(buffer_q)
    BY <1>1, <2>1, <2>2, ConcatProperties
  <2> QED
    BY <1>1, <1>2, <2>2, <2>3 DEF InHand
<1>3. CASE ~Uploading
  <2>1. Owed = buffer_q
    BY <1>1, <1>3, ConcatEmptySeq DEF Owed
  <2> QED
    BY <1>1, <1>3, <2>1 DEF InHand
<1> QED
  BY <1>2, <1>3

(* Steps that move no buffer, and neither start nor end the thread. *)
LEMMA Stutter ==
  ASSUME UNCHANGED <<buffer_q, buffer, handled>>,
         Uploading' = Uploading, uploader # "done", uploader' # "done"
  PROVE  UNCHANGED Abstract!sink_vars
BY DEF Abstract!sink_vars

LEMMA SimulationStep ==
  IInv /\ IInv' /\ [Next]_vars => [Abstract!Next]_Abstract!sink_vars
<1> SUFFICES ASSUME IInv, IInv', [Next]_vars
             PROVE  [Abstract!Next]_Abstract!sink_vars
  OBVIOUS
<1>t. /\ buffer_q \in Seq(Nat) /\ handled \in Seq(Nat)
      /\ buffer \in Nat /\ sent \in Nat
  BY BoundsAssumption DEF IInv, TypeOK, CountersOK
<1>o. /\ Uploading => Owed = <<buffer>> \o buffer_q
      /\ ~Uploading => Owed = buffer_q
      /\ Len(Owed) + Len(handled) = sent
  BY OwedProperties
<1>p. /\ Uploading' => Owed' = <<buffer'>> \o buffer_q'
      /\ ~Uploading' => Owed' = buffer_q'
  <2>1. buffer_q' \in Seq(Nat)
    BY DEF IInv, TypeOK, CountersOK
  <2>2. <<>> \o buffer_q' = buffer_q'
    BY <2>1, ConcatEmptySeq
  <2> QED
    BY <2>2 DEF Owed
<1> USE DEF CallsProgress, setup_vars, queue_vars, stats_vars,
        upload_vars, encoder_vars, poll_vars, history_vars
<1>1. CASE EnqueueBufferPush
  <2>1. /\ uploader # "done" /\ uploader' = uploader /\ buffer' = buffer
        /\ handled' = handled /\ buffer_q' = Append(buffer_q, sent + 1)
    BY <1>1 DEF EnqueueBufferPush, EnqueuePush, IInv, ProtocolInv, ExitInv
  <2>2. Uploading' = Uploading
    BY <2>1 DEF Uploading
  <2>3. Owed' = Append(Owed, sent + 1)
    <3>1. CASE Uploading
      <4>1. <<buffer>> \in Seq(Nat) /\ sent + 1 \in Nat
        BY <1>t
      <4>2. <<buffer>> \o Append(buffer_q, sent + 1)
              = Append(<<buffer>> \o buffer_q, sent + 1)
        BY <1>t, <4>1, ConcatAppend
      <4> QED
        BY <1>o, <1>p, <2>1, <2>2, <3>1, <4>2
    <3>2. CASE ~Uploading
      BY <1>o, <1>p, <2>1, <2>2, <3>2
    <3> QED
      BY <3>1, <3>2
  <2>4. Abstract!Accept
    BY <2>1, <2>3, <1>o DEF Abstract!Accept, Abstract!Accepted, Owed
  <2> QED
    BY <2>4 DEF Abstract!Next
<1>2. CASE Dequeue
  <2>1. uploader = "dequeue" /\ ~Uploading /\ handled' = handled
    BY <1>2 DEF Dequeue, Uploading
  <2>2. Owed' = Owed /\ uploader' # "done"
    <3>1. CASE CanDequeue
      <4>1. /\ buffer_q # <<>> /\ buffer' = Head(buffer_q)
            /\ buffer_q' = Tail(buffer_q) /\ DequeueResult = Head(buffer_q)
        BY <1>2, <3>1 DEF Dequeue, DequeueBuffer, DequeueResult, CanDequeue
      <4>2. Head(buffer_q) # NoBuffer
        <5>1. buffer_q \in Seq(Nat \ {0})
          BY DEF IInv, CountInv
        <5>2. Head(buffer_q) \in Nat \ {0}
          BY <4>1, <5>1, HeadTailProperties
        <5> QED
          BY <5>2 DEF NoBuffer
      <4>3. uploader' = "setup" /\ Uploading'
        BY <1>2, <4>1, <4>2 DEF Dequeue, Uploading
      <4>4. <<Head(buffer_q)>> \o Tail(buffer_q) = buffer_q
        BY <1>t, <4>1, HeadConsTail
      <4> QED
        BY <1>o, <1>p, <2>1, <4>1, <4>3, <4>4
    <3>2. CASE ~CanDequeue
      <4>1. buffer_q' = buffer_q /\ uploader' = "lock" /\ ~Uploading'
        BY <1>2, <3>2 DEF Dequeue, DequeueBuffer, DequeueResult, Uploading
      <4> QED
        BY <1>o, <1>p, <2>1, <4>1
    <3> QED
      BY <3>1, <3>2
  <2> QED
    BY <2>1, <2>2 DEF Abstract!sink_vars, Owed
<1>3. ASSUME UploadReturns, Uploading, UNCHANGED buffer_q PROVE Abstract!Next
  <2>1. /\ ~Uploading' /\ handled' = Append(handled, buffer)
        /\ uploader # "done" /\ uploader' # "done"
    BY <1>3 DEF UploadReturns, Uploading
  <2>2. Owed = <<buffer>> \o buffer_q /\ Owed' = buffer_q
    BY <1>3, <1>o, <1>p, <2>1
  <2>3. Owed # <<>> /\ Head(Owed) = buffer /\ Tail(Owed) = buffer_q
    BY <1>t, <2>2, ConsProperties
  <2>4. Abstract!Handle
    BY <2>1, <2>2, <2>3 DEF Abstract!Handle, Owed
  <2> QED
    BY <2>4 DEF Abstract!Next
<1>4. CASE Tally \/ TallyFails
  BY <1>4, <1>3 DEF Tally, TallyFails, Uploading
<1>5. ASSUME NEW ok \in BOOLEAN, UploadSetup(ok)
      PROVE  [Abstract!Next]_Abstract!sink_vars
  <2>1. CASE ok
    BY <1>5, <2>1, Stutter DEF UploadSetup, Uploading
  <2>2. CASE ~ok
    BY <1>5, <2>2, <1>3 DEF UploadSetup, Uploading
  <2> QED
    BY <2>1, <2>2
<1>6. CASE CountBuffers
  <2>1. /\ uploader = "count" /\ ~Uploading /\ ~Uploading'
        /\ UNCHANGED <<buffer_q, buffer, handled>>
    BY <1>6 DEF CountBuffers, Uploading
  <2>2. CASE uploader' = "done"
    <3>1. buffer_q = <<>>
      BY <2>1, <2>2 DEF IInv, ExitInv
    <3>2. Owed = <<>> /\ Owed' = <<>>
      BY <1>o, <1>p, <2>1, <3>1
    <3>3. Abstract!Close
      BY <2>1, <2>2, <3>2 DEF Abstract!Close, Owed
    <3> QED
      BY <3>3 DEF Abstract!Next
  <2>3. CASE uploader' = "dequeue"
    BY <2>1, <2>3, Stutter DEF Uploading
  <2> QED
    BY <1>6, <2>2, <2>3 DEF CountBuffers
<1>7. ASSUME UNCHANGED <<buffer_q, buffer, handled, uploader>>
      PROVE  UNCHANGED Abstract!sink_vars
  BY <1>7 DEF Abstract!sink_vars, Uploading
<1>8. CASE \/ EnqueueBufferLock \/ EncoderExit \/ GetStatsLock \/ GetStatsCopy
           \/ StopLock \/ StopFlag \/ StopJoin
  BY <1>8, <1>7 DEF EnqueueBufferLock, EnqueueLock, EncoderExit, GetStatsLock,
     GetStatsCopy, StopLock, StopFlag, StopJoin
<1>9. CASE EnqueueBufferNotify \/ StopNotify
  BY <1>9, <1>7, Stutter
     DEF EnqueueBufferNotify, StopNotify, NotifyOne, Uploading
<1>10. CASE \/ CheckStop
            \/ WaitLock \/ WaitPark \/ WaitReturn \/ SpuriousWakeup
  BY <1>10, Stutter DEF CheckStop, WaitLock, WaitPark, WaitReturn,
     SpuriousWakeup, Uploading
<1>11. CASE \/ ProgressCheck \/ ProgressReport \/ SendUnit
            \/ Stall \/ PerformReturns
  BY <1>11, Stutter DEF ProgressCheck, ProgressReport, SendUnit, Stall,
     PerformReturns, Uploading
<1>12. CASE UNCHANGED vars
  BY <1>12, <1>7 DEF vars
<1> QED
  BY <1>1, <1>2, <1>4, <1>5, <1>6, <1>8, <1>9, <1>10, <1>11, <1>12
     DEF Next, EncoderStep, MainStep, ThreadStep, UploadStep

(* The HTTP sink implements the sink promise. *)
THEOREM Refinement == Spec => ImplementsFifoSink
<1>1. Init => Abstract!Init
  BY EmptySeq, ConcatEmptySeq
     DEF Init, QueueInit, Uploading, Abstract!Init
<1>2. IInv /\ IInv' /\ [Next]_vars => [Abstract!Next]_Abstract!sink_vars
  BY SimulationStep
<1> QED
  BY Invariance, <1>1, <1>2, PTL DEF Spec, ImplementsFifoSink, Abstract!Spec
=============================================================================
