-------------------------- MODULE SharedBufferQueue --------------------------
(***************************************************************************)
(* The queue between the encoder thread and the worker thread of one data  *)
(* sink: class SharedBufferQueue of encoder/data_sink.{h,cc}.              *)
(*                                                                         *)
(* A buffer is the number of its EnqueueBuffer call: 1 for the first       *)
(* buffer a sink accepts, 2 for the second, and so on.  The id and the     *)
(* bytes it carries never influence the queue.                             *)
(*                                                                         *)
(* EnqueueBuffer takes two steps, because DequeueBuffer only tries the     *)
(* lock: a dequeue that falls between them finds the mutex taken and       *)
(* reports an empty queue.  The other methods hold the mutex for a single  *)
(* access that no other thread can observe half done, so each is one step. *)
(***************************************************************************)
EXTENDS Naturals, Sequences

VARIABLES
  buffer_q,   \* the queued buffers, oldest first
  q_mutex     \* the thread inside the queue's critical section, or Free

queue_vars == <<buffer_q, q_mutex>>

Free == "free"       \* value of a mutex nobody holds
NoBuffer == 0        \* the empty std::shared_ptr

QueueInit == buffer_q = <<>> /\ q_mutex = Free

(* EnqueueBuffer: lock_guard blocks until the mutex is free ... *)
EnqueueLock(t) ==
  /\ q_mutex = Free
  /\ q_mutex' = t
  /\ UNCHANGED buffer_q

(* ... then the buffer is pushed and the guard releases the mutex. *)
EnqueuePush(t, b) ==
  /\ q_mutex = t
  /\ buffer_q' = Append(buffer_q, b)
  /\ q_mutex' = Free

(* DequeueBuffer: the front buffer if the lock was obtained at once and    *)
(* the queue holds one, the empty pointer otherwise.                       *)
CanDequeue == q_mutex = Free /\ buffer_q # <<>>

DequeueResult == IF CanDequeue THEN Head(buffer_q) ELSE NoBuffer

(* Mutant: the lock is not released when the queue is empty. *)
DequeueBufferKeepsLock ==
  /\ buffer_q' = IF CanDequeue THEN Tail(buffer_q) ELSE buffer_q
  /\ q_mutex' = IF q_mutex = Free /\ buffer_q = <<>> THEN "consumer" ELSE q_mutex

(* Mutant: front() without pop(). *)
DequeueBufferNoPop == UNCHANGED <<buffer_q, q_mutex>>

DequeueBuffer ==
  /\ buffer_q' = IF CanDequeue THEN Tail(buffer_q) ELSE buffer_q
  /\ UNCHANGED q_mutex

(* GetNumBuffers blocks on the mutex: a caller proceeds only when it is    *)
(* free.                                                                   *)
CanCount == q_mutex = Free

NumBuffers == Len(buffer_q)
==============================================================================
