------------------------------ MODULE MCAdmission ------------------------------
(* Model checking of Admission: two prompt clients and one that need not be; *)
(* each of the two flights of the handshake arrives in one piece, and the    *)
(* command in two.                                                           *)
EXTENDS Admission

CONSTANTS p1, p2, c1

Flights == << 0, 1, 2, 2 >>
=============================================================================
