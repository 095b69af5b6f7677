------------------------------ MODULE WebmMux ------------------------------
(***************************************************************************)
(* The live muxers of the encoder thread: LiveWebmMuxer and its            *)
(* WebmMuxWriter (encoder/webm_mux.cc), one per stream, only ever used by  *)
(* the encoder thread.                                                     *)
(*                                                                         *)
(* libwebm, outside the repository, writes a stream of elements into       *)
(* buffer_ and calls ElementStartNotify at the start of each cluster.  An  *)
(* element is its position in the stream, 1, 2, ...; one element stands    *)
(* for the bytes of one or more Write calls.  A chunk is what lies in      *)
(* front of chunk_end_: the muxer hands out everything before the last     *)
(* cluster start it was told of.                                           *)
(***************************************************************************)
EXTENDS Naturals, Sequences

CONSTANT Muxers   \* muxer ids: kAudioId and kVideoId in a DASH encode

VARIABLES
  buffer_,      \* buffer_[m]: elements written and not yet read
  chunk_end_,   \* chunk_end_[m]: how many of them the ready chunk has, 0: none
  chunks_read_, \* chunks_read_[m]: number of chunks read
  written       \* history, written[m]: kinds of all elements of the stream

mux_vars == <<buffer_, chunk_end_, chunks_read_, written>>

MuxInit ==
  /\ buffer_ = [m \in Muxers |-> <<>>]
  /\ chunk_end_ = [m \in Muxers |-> 0]
  /\ chunks_read_ = [m \in Muxers |-> 0]
  /\ written = [m \in Muxers |-> <<>>]

(* What libwebm writes for one frame: the first frame of a stream brings   *)
(* the header and a cluster, later ones may open a cluster.                *)
Elements(m, opens_cluster) ==
  IF written[m] = <<>> THEN <<"header", "cluster", "block">>
  ELSE IF opens_cluster THEN <<"cluster", "block">>
  ELSE <<"block">>

(* Mutant: chunk_end_ is the position in the stream, not in the buffer. *)
ChunkEndInStream(m, new) ==
  IF new[1] = "block" THEN chunk_end_[m]
  ELSE Len(written[m]) + (IF new[1] = "header" THEN 1 ELSE 0)

(* Mutant: chunk_end_ is taken after the cluster's start was written. *)
ChunkEndAfterStart(m, new) ==
  IF new[1] = "block" THEN chunk_end_[m]
  ELSE Len(buffer_[m]) + (IF new[1] = "header" THEN 2 ELSE 1)

(* ElementStartNotify: chunk_end_ is what the buffer holds when a cluster  *)
(* starts; a chunk end that nobody read is overwritten.                    *)
ChunkEndAfter(m, new) ==
  IF new[1] = "block" THEN chunk_end_[m]
  ELSE Len(buffer_[m]) + (IF new[1] = "header" THEN 1 ELSE 0)

(* WriteVideoFrame or WriteAudioBuffer, through Segment::AddFrame, Write   *)
(* and ElementStartNotify.                                                 *)
AddFrame(m, opens_cluster) ==
  LET new == Elements(m, opens_cluster)
      at == Len(written[m])
  IN  /\ buffer_' = [buffer_ EXCEPT ![m] = @ \o [i \in 1..Len(new) |-> at + i]]
      /\ written' = [written EXCEPT ![m] = @ \o new]
      /\ chunk_end_' = [chunk_end_ EXCEPT ![m] = ChunkEndAfter(m, new)]
      /\ UNCHANGED chunks_read_

ChunkReady(m) == chunk_end_[m] > 0

(* What ReadChunk copies out. *)
Chunk(m) == SubSeq(buffer_[m], 1, chunk_end_[m])

(* Mutant: the whole buffer is cleared, with the cluster just begun. *)
EraseWholeBuffer(m) ==
  /\ buffer_' = [buffer_ EXCEPT ![m] = <<>>]
  /\ chunk_end_' = [chunk_end_ EXCEPT ![m] = 0]
  /\ chunks_read_' = [chunks_read_ EXCEPT ![m] = @ + 1]
  /\ UNCHANGED written

(* ReadChunk of a ready chunk into storage that is large enough: copy,     *)
(* EraseChunk, count.                                                      *)
EraseChunk(m) ==
  /\ buffer_' = [buffer_ EXCEPT ![m] = SubSeq(@, chunk_end_[m] + 1, Len(@))]
  /\ chunk_end_' = [chunk_end_ EXCEPT ![m] = 0]
  /\ chunks_read_' = [chunks_read_ EXCEPT ![m] = @ + 1]
  /\ UNCHANGED written

(* Finalize when libwebm succeeds.  A live segment with a single track     *)
(* holds no frame back, so nothing is written; all that is buffered        *)
(* becomes the last chunk.                                                 *)
Finalize(m) ==
  /\ chunk_end_' = [chunk_end_ EXCEPT ![m] =
                      IF buffer_[m] = <<>> THEN @ ELSE Len(buffer_[m])]
  /\ UNCHANGED <<buffer_, chunks_read_, written>>
=============================================================================
