--------------------------- MODULE CaptureSource ---------------------------
(***************************************************************************)
(* What the encoder relies on from a media source, whatever is behind it:  *)
(* the audio and video callbacks are called between Run and Stop only, one *)
(* call at a time per stream, and once Stop has brought every stream to    *)
(* rest no call is in progress and none follows.                           *)
(***************************************************************************)
CONSTANT Streams

VARIABLES
  phase,   \* "closed", "ready", "running", "stopped" or "gone"
  calls    \* the streams whose callback is running

vars == <<phase, calls>>

Init == phase = "closed" /\ calls = {}

Open == phase = "closed" /\ phase' = "ready" /\ UNCHANGED calls

Run == phase = "ready" /\ phase' = "running" /\ UNCHANGED calls

Call(s) ==
  /\ phase = "running"
  /\ s \notin calls
  /\ calls' = calls \cup {s}
  /\ UNCHANGED phase

Return(s) == s \in calls /\ calls' = calls \ {s} /\ UNCHANGED phase

Stop ==
  /\ phase = "running"
  /\ calls = {}
  /\ phase' = "stopped"
  /\ UNCHANGED calls

\* The source is destroyed, or the program with it.
Close == phase' = "gone" /\ calls' = {}

Next ==
  \/ Open \/ Run \/ Stop \/ Close
  \/ \E s \in Streams : Call(s) \/ Return(s)

Spec == Init /\ [][Next]_vars

=============================================================================
