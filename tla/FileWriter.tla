----------------------------- MODULE FileWriter -----------------------------
(***************************************************************************)
(* The file sink: encoder/file_writer.{h,cc} on top of SharedBufferQueue.  *)
(*                                                                         *)
(* Three threads meet here.  The encoder thread calls WriteData (through   *)
(* DataSink) and ends before anyone stops the writer, because EncoderMain  *)
(* joins it first.  WriterThread loops over the queue.  The main thread    *)
(* calls Stop.  Each control point below is a place where another thread   *)
(* may run: between taking and releasing mutex_, and between an operation  *)
(* and the wait or notification that follows it.                           *)
(*                                                                         *)
(* mutex_ protects stop_ only.  WriteData notifies without it, and         *)
(* WaitForUserData waits without a predicate, so a notification that       *)
(* arrives after the queue was found empty and before the thread is parked *)
(* is lost.                                                                *)
(***************************************************************************)
EXTENDS SharedBufferQueue

CONSTANTS
  MaxBuffers,   \* bound: buffers the encoder thread writes
  MaxSpurious   \* bound: wakeups of the condition variable without a notify

ASSUME BoundsAssumption == MaxBuffers \in Nat /\ MaxSpurious \in Nat

VARIABLES
  stop_,      \* FileWriter::stop_
  mutex_,     \* holder of FileWriter::mutex_, or Free
  writer,     \* control point of WriterThread
  buffer,     \* WriterThread's local: the buffer in hand, or NoBuffer
  written,    \* buffers WriteFile was called on, in order
  failed,     \* those for which WriteFile returned false
  encoder,    \* control point of the encoder thread in WriteData
  sent,       \* number of buffers accepted by WriteData
  main,       \* control point of the main thread in Stop
  spurious    \* number of spurious wakeups so far

writer_vars == <<writer, buffer, written, failed>>
encoder_vars == <<encoder, sent>>
vars == <<buffer_q, q_mutex, stop_, mutex_, writer, buffer, written, failed,
          encoder, sent, main, spurious>>

Init ==
  /\ QueueInit
  /\ stop_ = FALSE
  /\ mutex_ = Free
  /\ writer = "check" /\ buffer = NoBuffer
  /\ written = <<>> /\ failed = {}
  /\ encoder = "idle" /\ sent = 0
  /\ main = "running"
  /\ spurious = 0

(* notify_one wakes the writer if it is parked on wake_condition_; nothing *)
(* remembers a notification that finds nobody waiting.                     *)
NotifyOne == writer' = IF writer = "parked" THEN "woken" ELSE writer

-----------------------------------------------------------------------------
(* WriteData, on the encoder thread. *)

WriteDataLock ==
  /\ encoder = "idle" /\ sent < MaxBuffers
  /\ EnqueueLock("encoder")
  /\ encoder' = "push"
  /\ UNCHANGED <<stop_, mutex_, writer_vars, sent, main, spurious>>

WriteDataPush ==
  /\ encoder = "push"
  /\ EnqueuePush("encoder", sent + 1)
  /\ sent' = sent + 1
  /\ encoder' = "notify"
  /\ UNCHANGED <<stop_, mutex_, writer_vars, main, spurious>>

WriteDataNotify ==
  /\ encoder = "notify"
  /\ NotifyOne
  /\ encoder' = "idle"
  /\ UNCHANGED <<queue_vars, stop_, mutex_, buffer, written, failed, sent,
                 main, spurious>>

(* EncoderThread returns: after WebmEncoder::Stop, or on an error. *)
EncoderExit ==
  /\ encoder = "idle"
  /\ encoder' = "exited"
  /\ UNCHANGED <<queue_vars, stop_, mutex_, writer_vars, sent, main, spurious>>

-----------------------------------------------------------------------------
(* Stop, on the main thread.  EncoderMain calls it after encoder.Stop()    *)
(* has joined the encoder thread.                                          *)

StopLock ==
  /\ main = "running" /\ encoder = "exited"
  /\ mutex_ = Free
  /\ mutex_' = "main"
  /\ main' = "flag"
  /\ UNCHANGED <<queue_vars, stop_, writer_vars, encoder_vars, spurious>>

StopFlag ==
  /\ main = "flag"
  /\ stop_' = TRUE
  /\ mutex_' = Free
  /\ main' = "notify"
  /\ UNCHANGED <<queue_vars, writer_vars, encoder_vars, spurious>>

(* Mutant: Stop joins without waking the thread. *)
StopNotifyMissing ==
  /\ main = "notify"
  /\ main' = "join"
  /\ UNCHANGED <<queue_vars, stop_, mutex_, writer_vars, encoder_vars, spurious>>

StopNotify ==
  /\ main = "notify"
  /\ NotifyOne
  /\ main' = "join"
  /\ UNCHANGED <<queue_vars, stop_, mutex_, buffer, written, failed,
                 encoder_vars, spurious>>

StopJoin ==
  /\ main = "join" /\ writer = "done"
  /\ main' = "stopped"
  /\ UNCHANGED <<queue_vars, stop_, mutex_, writer_vars, encoder_vars, spurious>>

-----------------------------------------------------------------------------
(* WriterThread. *)

(* StopRequested only tries the lock and answers false when it is taken. *)
StopRequested == mutex_ = Free /\ stop_

(* Mutant: the loop ends on a stop without looking at the queue. *)
CheckStopNoDrain ==
  /\ writer = "check"
  /\ writer' = IF StopRequested THEN "done" ELSE "dequeue"
  /\ UNCHANGED <<queue_vars, stop_, mutex_, buffer, written, failed,
                 encoder_vars, main, spurious>>

(* Loop condition: !StopRequested() || GetNumBuffers() > 0.  The queue is  *)
(* counted only when a stop was seen.                                      *)
CheckStop ==
  /\ writer = "check"
  /\ writer' = IF StopRequested THEN "count" ELSE "dequeue"
  /\ UNCHANGED <<queue_vars, stop_, mutex_, buffer, written, failed,
                 encoder_vars, main, spurious>>

CountBuffers ==
  /\ writer = "count" /\ CanCount
  /\ writer' = IF NumBuffers > 0 THEN "dequeue" ELSE "done"
  /\ UNCHANGED <<queue_vars, stop_, mutex_, buffer, written, failed,
                 encoder_vars, main, spurious>>

Dequeue ==
  /\ writer = "dequeue"
  /\ buffer' = DequeueResult
  /\ DequeueBuffer
  /\ writer' = IF DequeueResult = NoBuffer THEN "lock" ELSE "write"
  /\ UNCHANGED <<stop_, mutex_, written, failed, encoder_vars, main, spurious>>

(* Mutant: a buffer that could not be written is queued again. *)
WriteFileRetries(ok) ==
  /\ writer = "write"
  /\ IF ok
     THEN written' = Append(written, buffer) /\ UNCHANGED <<buffer_q, failed>>
     ELSE /\ buffer_q' = Append(buffer_q, buffer)
          /\ failed' = failed \cup {buffer}
          /\ UNCHANGED written
  /\ buffer' = NoBuffer
  /\ writer' = "check"
  /\ UNCHANGED <<q_mutex, stop_, mutex_, encoder_vars, main, spurious>>

(* WriteFile: its failure is logged and the buffer is not tried again. *)
WriteFile(ok) ==
  /\ writer = "write"
  /\ written' = Append(written, buffer)
  /\ failed' = IF ok THEN failed ELSE failed \cup {buffer}
  /\ buffer' = NoBuffer
  /\ writer' = "check"
  /\ UNCHANGED <<queue_vars, stop_, mutex_, encoder_vars, main, spurious>>

(* WaitForUserData: lock mutex_, then release it and park in one step of   *)
(* the condition variable, then take and release it again once woken.      *)
WaitLock ==
  /\ writer = "lock" /\ mutex_ = Free
  /\ mutex_' = "writer"
  /\ writer' = "wait"
  /\ UNCHANGED <<queue_vars, stop_, buffer, written, failed, encoder_vars,
                 main, spurious>>

WaitPark ==
  /\ writer = "wait"
  /\ mutex_' = Free
  /\ writer' = "parked"
  /\ UNCHANGED <<queue_vars, stop_, buffer, written, failed, encoder_vars,
                 main, spurious>>

WaitReturn ==
  /\ writer = "woken" /\ mutex_ = Free
  /\ writer' = "check"
  /\ UNCHANGED <<queue_vars, stop_, mutex_, buffer, written, failed,
                 encoder_vars, main, spurious>>

(* A condition variable may wake its waiter without a notification. *)
SpuriousWakeup ==
  /\ writer = "parked" /\ spurious < MaxSpurious
  /\ spurious' = spurious + 1
  /\ writer' = "woken"
  /\ UNCHANGED <<queue_vars, stop_, mutex_, buffer, written, failed,
                 encoder_vars, main>>

-----------------------------------------------------------------------------
EncoderStep == WriteDataLock \/ WriteDataPush \/ WriteDataNotify \/ EncoderExit

StopStep == StopLock \/ StopFlag \/ StopNotify \/ StopJoin

WriterStep ==
  \/ CheckStop \/ CountBuffers \/ Dequeue
  \/ \E ok \in BOOLEAN : WriteFile(ok)
  \/ WaitLock \/ WaitPark \/ WaitReturn

Next == EncoderStep \/ StopStep \/ WriterStep \/ SpuriousWakeup

(* Every thread that can run is eventually scheduled.  Nothing forces the  *)
(* encoder to write, a user to stop the program, or a condition variable   *)
(* to wake by itself.                                                      *)
Fairness ==
  /\ WF_vars(WriterStep)
  /\ WF_vars(StopFlag \/ StopNotify \/ StopJoin)
  /\ WF_vars(WriteDataPush \/ WriteDataNotify)

Spec == Init /\ [][Next]_vars

FairSpec == Spec /\ Fairness

-----------------------------------------------------------------------------
(* Type invariant: threads are at known control points, a mutex is held by *)
(* a thread that uses it, buffers are numbers.                              *)
TypeOK ==
  /\ buffer_q \in Seq(Nat)
  /\ q_mutex \in {Free, "encoder"}
  /\ stop_ \in BOOLEAN
  /\ mutex_ \in {Free, "main", "writer"}
  /\ writer \in {"check", "count", "dequeue", "write", "lock", "wait",
                 "parked", "woken", "done"}
  /\ buffer \in Nat
  /\ written \in Seq(Nat)
  /\ failed \subseteq Nat
  /\ encoder \in {"idle", "push", "notify", "exited"}
  /\ sent \in 0..MaxBuffers
  /\ main \in {"running", "flag", "notify", "join", "stopped"}
  /\ spurious \in 0..MaxSpurious

(* The number of buffers WriterThread holds between Dequeue and WriteFile. *)
InHand == IF writer = "write" THEN 1 ELSE 0

(* No chunk is lost, duplicated or overtaken inside the sink, however the  *)
(* three threads interleave and however often a dequeue fails to get the   *)
(* lock: what was written, the buffer in hand and the queue are, in this   *)
(* order, exactly the buffers WriteData accepted.                          *)
FifoOrder ==
  /\ Len(written) + InHand + Len(buffer_q) = sent
  /\ \A i \in 1..Len(written) : written[i] = i
  /\ writer = "write" => buffer = Len(written) + 1
  /\ \A i \in 1..Len(buffer_q) : buffer_q[i] = Len(written) + InHand + i

(* WriterThread returns only after a stop, with nothing in the queue, and  *)
(* once Stop has returned every buffer WriteData ever accepted has been    *)
(* handed to WriteFile: the "|| GetNumBuffers() > 0" of the loop condition *)
(* drains the queue.                                                       *)
DrainedOnExit ==
  /\ writer = "done" => stop_ /\ buffer_q = <<>> /\ Len(written) = sent
  /\ main = "stopped" => writer = "done"

(* The sink promise, with the buffer in hand still pending. *)
Abstract == INSTANCE FifoSink WITH
  pending <- (IF writer = "write" THEN <<buffer>> ELSE <<>>) \o buffer_q,
  handled <- written,
  closed <- (writer = "done")

ImplementsFifoSink == Abstract!Spec

(* The control points from which WriterThread checks stop_ before it can   *)
(* wait again.                                                             *)
WillCheckStop == {"check", "count", "write", "parked", "woken"}

(* If stop_ is set while the writer is parked, is writing a file or is     *)
(* about to test the loop condition, Stop returns: the queue is drained    *)
(* and the thread joined.  (From "dequeue" on it need not: see             *)
(* StopReturns.)                                                           *)
StopHonoured ==
  (main = "notify" /\ writer \in WillCheckStop) ~> (main = "stopped")

(* file_writer.h:38, "Stops the writer thread. Blocks until thread stops." *)
(* A call of Stop returns.                                                 *)
StopReturns == (main = "flag") ~> (main = "stopped")
==============================================================================
