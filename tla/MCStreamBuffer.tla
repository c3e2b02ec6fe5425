--------------------------- MODULE MCStreamBuffer ---------------------------
(* StreamBuffer for TLC; the cfgs give the sizes.                          *)
EXTENDS StreamBuffer
=============================================================================
