-------------------------------- MODULE MCDigest --------------------------------
(* Model checking of Digest: blocks of 8 bytes, words of 2 bytes of 16       *)
(* values, so that 32 bytes of text overflow the low word.                   *)
EXTENDS Digest
=============================================================================
