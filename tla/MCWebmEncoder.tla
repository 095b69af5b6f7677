--------------------------- MODULE MCWebmEncoder ---------------------------
(***************************************************************************)
(* WebmEncoder for TLC.  The two muxers are the two of a DASH encode, so   *)
(* the parameter of WebmMux is the set of streams; the other constants are *)
(* in the configurations.                                                  *)
(***************************************************************************)
EXTENDS WebmEncoder

MCMuxers == Streams
=============================================================================
