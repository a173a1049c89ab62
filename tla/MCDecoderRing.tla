---------------------------- MODULE MCDecoderRing ----------------------------
(* The voice ring with a few nodes and a sound buffer that overflows.      *)
EXTENDS DecoderRing
=============================================================================
