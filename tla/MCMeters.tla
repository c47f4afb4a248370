------------------------------ MODULE MCMeters ------------------------------
(* A viewer that reads and one that may hang.                              *)
EXTENDS Meters

CONSTANTS reader, sleeper

MCViewers == {reader, sleeper}
MCAttentive == {reader}
=============================================================================
