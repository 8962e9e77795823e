------------------------------ MODULE MCFileConn ------------------------------
(* Model checking of FileConn: a buffer of two bytes, files of up to three,  *)
(* so that a file is empty, one chunk, or a full chunk and a rest, and       *)
(* records that are shorter and longer than the buffer.                      *)
EXTENDS FileConn, TLC

CONSTANTS u1, u2, d1, d2

Symmetry == Permutations(Up) \cup Permutations(Down)
=============================================================================
