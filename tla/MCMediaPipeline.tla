--------------------------- MODULE MCMediaPipeline ---------------------------
(* Two sinks, as main registers: the recorder and the RTSP server. *)
EXTENDS MediaPipeline
=============================================================================
