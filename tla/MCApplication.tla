--------------------------- MODULE MCApplication ----------------------------
(* Two reports: the two streams of the PipeWire backend may both fail.     *)
EXTENDS Application

MCReports == {"capture", "playback"}
=============================================================================
