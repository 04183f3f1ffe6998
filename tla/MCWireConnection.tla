--------------------------- MODULE MCWireConnection ---------------------------
(* WireConnection for TLC: the sets the configurations name.               *)
EXTENDS WireConnection

AllFaults  == {"split", "timeout", "server", "free"}
=============================================================================
