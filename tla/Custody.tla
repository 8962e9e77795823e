-------------------------------- MODULE Custody --------------------------------
(***************************************************************************)
(* Who has a connection.  The acceptor has it first and gives it to one    *)
(* worker, once and for good; either may ask for its end; it is freed once *)
(* and only after that was asked for, and what was asked to end is not     *)
(* given away any more.                                                    *)
(***************************************************************************)
CONSTANTS Conn, Worker

VARIABLES owner,   \* connection: "nobody", "acceptor", a worker or "freed"
          asked    \* the connections whose end was asked for

vars == <<owner, asked>>

Init == owner = [c \in Conn |-> "nobody"] /\ asked = {}

Exists(c) == owner[c] \notin {"nobody", "freed"}

Accept(c) ==
  /\ owner[c] = "nobody"
  /\ owner' = [owner EXCEPT ![c] = "acceptor"]
  /\ UNCHANGED asked

HandOver(c, w) ==
  /\ owner[c] = "acceptor" /\ c \notin asked
  /\ owner' = [owner EXCEPT ![c] = w]
  /\ UNCHANGED asked

Ask(c) ==
  /\ Exists(c)
  /\ asked' = asked \cup {c}
  /\ UNCHANGED owner

Free(c) ==
  /\ Exists(c) /\ c \in asked
  /\ owner' = [owner EXCEPT ![c] = "freed"]
  /\ UNCHANGED asked

Next == \E c \in Conn : \/ Accept(c) \/ Ask(c) \/ Free(c)
                        \/ \E w \in Worker : HandOver(c, w)

Spec == Init /\ [][Next]_vars
=============================================================================
