------------------------------ MODULE MCMainConn ------------------------------
(* Model checking of MainConn: connections and users are model values; they  *)
(* are interchangeable, so the safety runs take them up to permutation.      *)
EXTENDS MainConn, TLC

Symmetry == Permutations(Conn) \cup Permutations(User)
=============================================================================
