--------------------------- MODULE MCMediaSource ---------------------------
(***************************************************************************)
(* A video and an audio stream. The video source offers a type with a      *)
(* readable header and one the sink accepts without being able to read it; *)
(* the audio source offers a type and one the sink refuses. Two devices    *)
(* share a name and one has none.                                          *)
(***************************************************************************)
EXTENDS MediaSource

Type(major, sub, fmt, hdr, settings) ==
  [major |-> major, sub |-> sub, fmt |-> fmt, hdr |-> hdr,
   config |-> settings, blob |-> "device"]

MCOffers ==
  [s \in {"video", "audio"} |->
     IF s = "video"
       THEN {Type("video", "I420", "info", TRUE, "A"),
             Type("video", "YV12", "info", FALSE, "B")}
       ELSE {Type("audio", "PCM", "wave", TRUE, "C"),
             Type("audio", "AC3", "wave", TRUE, "D")}]

MCDevices == [s \in {"video", "audio"} |-> <<"cam", "", "cam">>]

MCSourcePins ==
  {<<[direction |-> "output", majors |-> {"video"}]>>,
   <<[direction |-> "output", majors |-> {"audio"}],
     [direction |-> "output", majors |-> {"video", "stream"}]>>,
   <<[direction |-> "input", majors |-> {"video", "audio"}]>>}

MCRequests ==
  [s \in {"video", "audio"} |->
     IF s = "video" THEN {"none", "A"} ELSE {"C"}]

MCManual == [s \in {"video", "audio"} |-> {TRUE}]

=============================================================================
