--------------------------- MODULE MCOutputBuffer ---------------------------
(* Messages on both sides of the limit for model checking OutputBuffer.    *)
EXTENDS OutputBuffer, TLC

CONSTANTS s1, s2, l1, l2

Sizes == (s1 :> 4095) @@ (s2 :> 4095) @@ (l1 :> 4096) @@ (l2 :> 4096)
=============================================================================
