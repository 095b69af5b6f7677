----------------------------- MODULE LiveStream -----------------------------
(***************************************************************************)
(* What a player at the far end of a stream relies on, without threads,    *)
(* buffers or names: the stream begins with a header, it gets its elements *)
(* from the first on, in chunks that end where the stream does or where a  *)
(* cluster begins, and what it got stays what it was.  The stream is over  *)
(* for it after the last chunk or as soon as a chunk was lost: then        *)
(* nothing follows.                                                        *)
(***************************************************************************)
EXTENDS Naturals, Sequences

VARIABLES
  made,      \* the kinds of the elements of the stream so far
  received,  \* the elements the player got, by their place in the stream
  over       \* nothing more will follow

stream_vars == <<made, received, over>>

Init == made = <<>> /\ received = <<>> /\ over = FALSE

(* The stream gets longer. *)
Grow ==
  /\ ~over
  /\ Len(made') > Len(made)
  /\ \A i \in 1..Len(made) : made'[i] = made[i]
  /\ made = <<>> => made'[1] = "header"
  /\ UNCHANGED <<received, over>>

(* A chunk arrives, which brings everything up to element number last. *)
Pass(last) ==
  /\ ~over
  /\ received' = [i \in 1..last |-> i]
  /\ IF last = Len(made) THEN over' = TRUE
     ELSE made[last + 1] = "cluster" /\ over' = FALSE
  /\ UNCHANGED made

Lose ==
  /\ ~over
  /\ over' = TRUE
  /\ UNCHANGED <<made, received>>

Next ==
  \/ Grow \/ Lose
  \/ \E last \in (Len(received) + 1)..Len(made) : Pass(last)

Spec == Init /\ [][Next]_stream_vars
=============================================================================
