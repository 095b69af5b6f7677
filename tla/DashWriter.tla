----------------------------- MODULE DashWriter -----------------------------
(***************************************************************************)
(* DashWriter (encoder/dash_writer.cc): the DASH manifest, from which a    *)
(* player learns the names of the chunks it will ask for, and IdForChunk,  *)
(* which names the chunks when they are written.                           *)
(*                                                                         *)
(* A name is the sequence of its parts, without the separators. In a       *)
(* template of the manifest two parts stand for what the player fills in.  *)
(***************************************************************************)
EXTENDS Naturals, Sequences

CONSTANTS
  DashNames,   \* what --dash_name may be, "" among it
  StartNumber  \* --dash_start_number

ASSUME StartNumberAssumption == StartNumber \in Nat

VARIABLES
  dash_name,   \* config_.dash_name
  dash_writer  \* the DashWriter: initialized_ and the enabled adaptation
               \* sets of config_, by media type

dash_vars == <<dash_name, dash_writer>>

(* kAudioId and kVideoId, as muxer ids and as representations. *)
RepId(media_type) == IF media_type = "audio" THEN "1" ELSE "2"

ChunkPattern(name) == <<name, "$RepresentationID$", "$Number$", "chk">>

InitializationPattern(name) == <<name, "$RepresentationID$", "hdr">>

(* What a player needs of an adaptation set; the sizes, rates and codecs   *)
(* DashWriter::Init fills in next to it are left out.                      *)
AdaptationSet(media_type) ==
  [rep_id |-> RepId(media_type),
   media |-> ChunkPattern(dash_name),
   initialization |-> InitializationPattern(dash_name),
   start_number |-> StartNumber]

DashWriterInit ==
  /\ dash_name \in DashNames
  /\ dash_writer = [initialized |-> FALSE, sets |-> <<>>]

(* DashWriter::Init: an empty name is refused. *)
InitDashWriter(enabled) ==
  dash_writer' =
    IF dash_name = "" THEN dash_writer
    ELSE [initialized |-> TRUE,
          sets |-> [m \in enabled |-> AdaptationSet(m)]]

(* The adaptation sets of the manifest, audio first. A writer that is not  *)
(* initialized leaves the manifest empty.                                  *)
WriteManifest(writer) ==
  LET listed == (IF "audio" \in DOMAIN writer.sets THEN <<"audio">> ELSE <<>>)
                \o (IF "video" \in DOMAIN writer.sets THEN <<"video">> ELSE <<>>)
  IN IF writer.initialized
       THEN [i \in DOMAIN listed |-> writer.sets[listed[i]]]
       ELSE <<>>

(* The header is chunk 0, media chunks count from 1.                       *)
IdForChunk(media_type, chunk_num) ==
  IF chunk_num = 0
    THEN <<dash_name, RepId(media_type), "hdr">>
    ELSE <<dash_name, RepId(media_type), chunk_num, "chk">>

=============================================================================
