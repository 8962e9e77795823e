------------------------------- MODULE FileStore -------------------------------
(***************************************************************************)
(* What uploads and downloads promise together.  A file is uploaded once;  *)
(* who asks for it after it was saved is sent all of it, who asks before   *)
(* that a part from its beginning.  A download gets pieces of what it is   *)
(* sent, in their order and each at most once; it may miss some.           *)
(*                                                                         *)
(* A byte of a file is its position: 1, 2, ...                             *)
(***************************************************************************)
EXTENDS Integers, Sequences

CONSTANTS Up, Down, Nobody

VARIABLES length,   \* of each file, 0 before it is uploaded
          saved,    \* uploads whose client was told that the file is saved
          wants,    \* the file of each download
          after,    \* downloads that were asked for after it was saved
          cur,      \* the download that is being served
          sending,  \* what it is sent
          got,      \* the bytes a download has got
          ended     \* downloads that were told of their end

vars == <<length, saved, wants, after, cur, sending, got, ended>>

Bytes(m, n) == [i \in 1 .. n - m + 1 |-> m + i - 1]

Init ==
  /\ length = [u \in Up |-> 0] /\ saved = {}
  /\ wants = [d \in Down |-> Nobody] /\ after = {}
  /\ cur = Nobody /\ sending = << >>
  /\ got = [d \in Down |-> << >>] /\ ended = {}

Upload(u) ==
  /\ u \notin saved /\ length[u] = 0
  /\ length'[u] \in Nat /\ length' = [length EXCEPT ![u] = length'[u]]
  /\ UNCHANGED <<saved, wants, after, cur, sending, got, ended>>

Save(u) ==
  /\ saved' = saved \cup {u}
  /\ UNCHANGED <<length, wants, after, cur, sending, got, ended>>

Ask(d) ==
  /\ wants[d] = Nobody
  /\ \E u \in Up : /\ wants' = [wants EXCEPT ![d] = u]
                   /\ after' = IF u \in saved THEN after \cup {d} ELSE after
  /\ UNCHANGED <<length, saved, cur, sending, got, ended>>

Serve(d) ==
  /\ cur = Nobody /\ wants[d] # Nobody /\ got[d] = << >> /\ d \notin ended
  /\ cur' = d
  /\ \E n \in 0 .. length[wants[d]] :
       sending' = Bytes(1, n) /\ (d \in after => n = length[wants[d]])
  /\ UNCHANGED <<length, saved, wants, after, got, ended>>

Got == IF got[cur] = << >> THEN 0 ELSE got[cur][Len(got[cur])]

Deliver ==
  /\ cur # Nobody
  /\ \E i, j \in Got + 1 .. Len(sending) :
       got' = [got EXCEPT ![cur] = @ \o Bytes(i, j)]
  /\ UNCHANGED <<length, saved, wants, after, cur, sending, ended>>

Finish ==
  /\ cur # Nobody
  /\ ended' = ended \cup {cur} \/ UNCHANGED ended
  /\ cur' = Nobody /\ sending' = << >>
  /\ UNCHANGED <<length, saved, wants, after, got>>

Next == \/ \E u \in Up : Upload(u) \/ Save(u)
        \/ \E d \in Down : Ask(d) \/ Serve(d)
        \/ Deliver \/ Finish

Spec == Init /\ [][Next]_vars
=============================================================================
