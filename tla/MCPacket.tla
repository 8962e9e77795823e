------------------------------- MODULE MCPacket -------------------------------
(* Model checking of Packet: commands of the protocol, numbers at the edge   *)
(* of a byte, and strings of the lengths that names and tokens have.         *)
EXTENDS Packet

Text(n) == [i \in 1 .. n |-> IF i = n THEN 200 ELSE 97]

(* Commands whose low three bytes are below 128, and the largest length.     *)
PlainNumbers == {1, 31, 121, 127, 32639}
PlainStrings == {Text(n) : n \in {0, 1, 32, 127}}
=============================================================================
