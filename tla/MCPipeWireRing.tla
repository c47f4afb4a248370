--------------------------- MODULE MCPipeWireRing ---------------------------
(* Values for TLC: the buffers of one or four frames fit and do not fit    *)
(* a ring of three, and fill one block of two or more.                    *)
EXTENDS PipeWireRing

MCBufferSizes == {1, 4}
MCRequestSizes == {1, 3}
=============================================================================
