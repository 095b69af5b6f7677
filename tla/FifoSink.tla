------------------------------ MODULE FifoSink ------------------------------
(***************************************************************************)
(* What a data sink promises to the encoder, without threads or locks:     *)
(* buffers it accepted leave it one by one, in the order they came, each   *)
(* exactly once, and it closes only when none is left.  FileWriter and     *)
(* HttpUploader are shown to implement it.                                 *)
(***************************************************************************)
EXTENDS Naturals, Sequences

VARIABLES
  pending,   \* accepted buffers the sink still owes an attempt, in order
  handled,   \* buffers the sink is finished with, in order
  closed     \* the sink's thread has returned

sink_vars == <<pending, handled, closed>>

Accepted == Len(pending) + Len(handled)

Init == pending = <<>> /\ handled = <<>> /\ closed = FALSE

Accept ==
  /\ ~closed
  /\ pending' = Append(pending, Accepted + 1)
  /\ UNCHANGED <<handled, closed>>

Handle ==
  /\ ~closed
  /\ pending # <<>>
  /\ handled' = Append(handled, Head(pending))
  /\ pending' = Tail(pending)
  /\ UNCHANGED closed

Close ==
  /\ pending = <<>>
  /\ closed' = TRUE
  /\ UNCHANGED <<pending, handled>>

Next == Accept \/ Handle \/ Close

Spec == Init /\ [][Next]_sink_vars
==============================================================================
