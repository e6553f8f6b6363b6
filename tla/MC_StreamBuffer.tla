--------------------------- MODULE MC_StreamBuffer ---------------------------
(* StreamBuffer for TLC: constants are given in the cfg. *)
EXTENDS StreamBuffer
=============================================================================
