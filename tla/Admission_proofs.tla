---------------------------- MODULE Admission_proofs ----------------------------
(* Proofs about Admission, for every set of clients, every division of the   *)
(* handshake into pieces and every number of descriptors.                    *)
EXTENDS Admission, SequenceTheorems, FiniteSetTheorems, TLAPS

(* What erase leaves: the elements before i, then those after it. *)
LEMMA RemoveAtElements ==
  ASSUME NEW S, NEW s \in Seq(S), NEW i \in 1 .. Len(s)
  PROVE  /\ RemoveAt(s, i) \in Seq(S)
         /\ Len(RemoveAt(s, i)) = Len(s) - 1
         /\ \A k \in 1 .. i - 1 : RemoveAt(s, i)[k] = s[k]
         /\ \A k \in i .. Len(s) - 1 : RemoveAt(s, i)[k] = s[k + 1]
  <1> DEFINE a == SubSeq(s, 1, i - 1)
             b == SubSeq(s, i + 1, Len(s))
             r == a \o b
  <1>1. PICK n \in Nat : n = Len(s)
    OBVIOUS
  <1>2. /\ a \in Seq(S) /\ Len(a) = i - 1
        /\ \A k \in 1 .. i - 1 : a[k] = s[k]
    OBVIOUS
  <1>3. /\ b \in Seq(S) /\ Len(b) = n - i
        /\ \A k \in 1 .. n - i : b[k] = s[i + k]
    BY <1>1
  <1>4. RemoveAt(s, i) = r
    BY DEF RemoveAt
  <1> HIDE DEF a, b
  <1>5. /\ r \in Seq(S) /\ Len(r) = Len(a) + Len(b)
        /\ \A k \in 1 .. Len(a) + Len(b) :
             r[k] = IF k <= Len(a) THEN a[k] ELSE b[k - Len(a)]
    BY <1>2, <1>3, ConcatProperties
  <1> HIDE DEF r
  <1>6. i \in Nat /\ i >= 1 /\ i <= n
    BY <1>1
  <1>7. Len(r) = n - 1
    BY <1>2, <1>3, <1>5, <1>6
  <1>8. \A k \in 1 .. i - 1 : r[k] = s[k]
    BY <1>2, <1>3, <1>5, <1>6
  <1>9. ASSUME NEW k \in i .. n - 1
        PROVE  r[k] = s[k + 1]
    <2>1. r[k] = b[k - (i - 1)]
      BY <1>2, <1>3, <1>5, <1>6
    <2>2. k - (i - 1) \in 1 .. n - i /\ i + (k - (i - 1)) = k + 1
      BY <1>6
    <2> QED BY <2>1, <2>2, <1>3
  <1> QED BY <1>1, <1>4, <1>5, <1>7, <1>8, <1>9

(* The same, as membership. *)
LEMMA RemoveAtSet ==
  ASSUME NEW S, NEW s \in Seq(S), NEW i \in 1 .. Len(s)
  PROVE  /\ ToSet(RemoveAt(s, i)) \subseteq ToSet(s)
         /\ \A x \in ToSet(s) : x # s[i] => x \in ToSet(RemoveAt(s, i))
  <1> DEFINE t == RemoveAt(s, i)
  <1>1. /\ t \in Seq(S) /\ Len(t) = Len(s) - 1
        /\ \A k \in 1 .. i - 1 : t[k] = s[k]
        /\ \A k \in i .. Len(s) - 1 : t[k] = s[k + 1]
    BY RemoveAtElements
  <1> HIDE DEF t
  <1>2. ASSUME NEW k \in 1 .. Len(t)
        PROVE  t[k] \in ToSet(s)
    <2>1. CASE k < i
      <3>1. k \in 1 .. Len(s) /\ t[k] = s[k]
        BY <1>1, <2>1
      <3> QED BY <3>1 DEF ToSet
    <2>2. CASE k >= i
      <3>1. k + 1 \in 1 .. Len(s) /\ t[k] = s[k + 1]
        BY <1>1, <2>2
      <3> QED BY <3>1 DEF ToSet
    <2> QED BY <1>1, <2>1, <2>2
  <1>3. ASSUME NEW j \in 1 .. Len(s), j # i
        PROVE  s[j] \in ToSet(t)
    <2>1. CASE j < i
      BY <1>1, <2>1 DEF ToSet
    <2>2. CASE j > i
      <3>1. j - 1 \in 1 .. Len(t) /\ t[j - 1] = s[j]
        BY <1>1, <2>2
      <3> QED BY <1>1, <3>1 DEF ToSet
    <2> QED BY <1>3, <2>1, <2>2
  <1>4. ToSet(t) \subseteq ToSet(s)
    BY <1>1, <1>2 DEF ToSet
  <1>5. \A x \in ToSet(s) : x # s[i] => x \in ToSet(t)
    BY <1>3 DEF ToSet
  <1> QED BY <1>4, <1>5 DEF t

(* emplace_back adds its element to the elements of a vector. *)
LEMMA AppendSet ==
  ASSUME NEW S, NEW s \in Seq(S), NEW c \in S
  PROVE  ToSet(Append(s, c)) = ToSet(s) \cup {c}
  <1>1. Append(s, c)[Len(s) + 1] = c
    OBVIOUS
  <1> QED BY <1>1 DEF ToSet

(* A new element at the end leaves a vector without repetitions. *)
LEMMA AppendKeepsInjective ==
  ASSUME NEW S, NEW s \in Seq(S), NEW c \in S, IsInjective(s), c \notin ToSet(s)
  PROVE  IsInjective(Append(s, c))
  BY DEF IsInjective, ToSet

(* Erasing from a vector without repetitions takes one element out of it. *)
LEMMA RemoveAtInjective ==
  ASSUME NEW S, NEW s \in Seq(S), NEW i \in 1 .. Len(s), IsInjective(s)
  PROVE  /\ IsInjective(RemoveAt(s, i))
         /\ ToSet(RemoveAt(s, i)) = ToSet(s) \ {s[i]}
  <1> DEFINE t == RemoveAt(s, i)
  <1>1. /\ t \in Seq(S) /\ Len(t) = Len(s) - 1
        /\ \A k \in 1 .. i - 1 : t[k] = s[k]
        /\ \A k \in i .. Len(s) - 1 : t[k] = s[k + 1]
    BY RemoveAtElements
  <1> HIDE DEF t
  <1>2. \A x, y \in 1 .. Len(s) : s[x] = s[y] => x = y
    BY DEF IsInjective
  <1>3. IsInjective(t)
    <2>1. \A k \in 1 .. Len(t) : \E j \in 1 .. Len(s) :
            t[k] = s[j] /\ k = IF j < i THEN j ELSE j - 1
      <3> SUFFICES ASSUME NEW k \in 1 .. Len(t)
                   PROVE  \E j \in {k, k + 1} :
                            /\ j \in 1 .. Len(s) /\ t[k] = s[j]
                            /\ k = IF j < i THEN j ELSE j - 1
        OBVIOUS
      <3>1. CASE k < i
        BY <1>1, <3>1
      <3>2. CASE k >= i
        BY <1>1, <3>2
      <3> QED BY <1>1, <3>1, <3>2
    <2> QED BY <1>1, <1>2, <2>1 DEF IsInjective
  <1>4. s[i] \notin ToSet(t)
    BY <1>1, <1>2 DEF ToSet
  <1> QED BY <1>3, <1>4, RemoveAtSet DEF t

(* The acceptor shakes hands with one client at a time, and with nobody      *)
(* otherwise.                                                                *)
OneShaken ==
  IF pc \in {"accept", "read", "write"}
  THEN \E c \in Client : In("shaking") = {c}
  ELSE In("shaking") = {}

(* TypeOK, with what it says of the number of clients made usable.           *)
AcceptorInv ==
  /\ state \in [Client -> {"away", "queued", "shaking", "listed", "handed", "closed"}]
  /\ backlog \in Seq(Client) /\ IsInjective(backlog) /\ ToSet(backlog) = In("queued")
  /\ closing \cup broken \cup left \cup silent \subseteq Client
  /\ room \subseteq full /\ full \subseteq Client
  /\ sent \in [Client -> 0 .. Len(Behind)]
  /\ got \in [Client -> Nat] /\ \A c \in Client : got[c] <= sent[c]
  /\ pc \in {"build", "select", "door", "accept", "read", "write", "walk", "dead"}
  /\ OneShaken
  /\ ready \subseteq In("listed") /\ (pc = "build" => ready = {})

(* Whom the acceptor will close is not looked at any more, and is gone from  *)
(* the list when it waits for the next client.                               *)
ClosingSettled ==
  \A c \in closing :
    /\ state[c] \in {"listed", "closed"} /\ c \notin ready
    /\ state[c] = "listed" => pc \in {"walk", "build"}

(* What a client that does its part in time can rely on: it is still there,  *)
(* its handshake is complete when it is listed, and something of it can be   *)
(* read when it is in the select set.                                        *)
PromptSound ==
  /\ PromptNotRefused
  /\ ClosingSettled
  /\ \A c \in Prompt :
       /\ c \notin left \cup broken
       /\ state[c] = "listed" => Finished(c)
       /\ c \in ready => sent[c] > got[c]

(* Taking the first element of a queue without repetitions.                  *)
LEMMA TailInjective ==
  ASSUME NEW S, NEW s \in Seq(S), s # << >>, IsInjective(s)
  PROVE  /\ Tail(s) \in Seq(S) /\ IsInjective(Tail(s))
         /\ ToSet(Tail(s)) = ToSet(s) \ {Head(s)}
         /\ Head(s) \in ToSet(s)
  <1>1. Tail(s) = RemoveAt(s, 1) /\ Head(s) = s[1] /\ 1 \in 1 .. Len(s)
    BY DEF RemoveAt
  <1>2. s[1] \in ToSet(s)
    BY <1>1 DEF ToSet
  <1>3. /\ RemoveAt(s, 1) \in Seq(S) /\ IsInjective(RemoveAt(s, 1))
        /\ ToSet(RemoveAt(s, 1)) = ToSet(s) \ {s[1]}
    BY <1>1, RemoveAtElements, RemoveAtInjective
  <1> QED BY <1>1, <1>2, <1>3, Zenon

(* With one client at most in its handshake, Current is that client.         *)
LEMMA CurrentIs ==
  ASSUME OneShaken, pc \in {"accept", "read", "write"}
  PROVE  Current \in Client /\ In("shaking") = {Current}
  <1>1. PICK d \in Client : In("shaking") = {d}
    BY DEF OneShaken
  <1>2. d \in Client /\ state[d] = "shaking"
    BY <1>1 DEF In
  <1>3. Current \in Client /\ state[Current] = "shaking"
    BY <1>2 DEF Current
  <1>4. Current \in In("shaking")
    BY <1>3 DEF In
  <1> QED BY <1>1, <1>3, <1>4

LEMMA InvInit == Init => AcceptorInv
  <1> SUFFICES ASSUME Init PROVE AcceptorInv
    OBVIOUS
  <1>1. backlog \in Seq(Client) /\ IsInjective(backlog) /\ ToSet(backlog) = {}
    BY DEF Init, IsInjective, ToSet
  <1>2. In("queued") = {} /\ In("shaking") = {}
    BY DEF Init, In
  <1>3. Len(Behind) \in Nat
    BY BehindAssumption
  <1>4. state \in [Client -> {"away", "queued", "shaking", "listed", "handed", "closed"}]
    BY DEF Init
  <1>5. /\ sent \in [Client -> 0 .. Len(Behind)]
        /\ got \in [Client -> Nat] /\ \A c \in Client : got[c] <= sent[c]
    BY <1>3 DEF Init
  <1> QED BY <1>1, <1>2, <1>4, <1>5 DEF Init, AcceptorInv, OneShaken

(* A client's steps, and a worker's: they leave the acceptor where it is.    *)
LEMMA InvClient ==
  ASSUME AcceptorInv, NEW c \in Client,
         Connect(c) \/ Answers(c) \/ Leave(c) \/ FallSilent(c) \/ WorkerCloses(c)
  PROVE  AcceptorInv'
  <1>0. Len(Behind) \in Nat /\ Len(Behind) > 1
    BY BehindAssumption
  <1>1. CASE Connect(c)
    <2>1. c \notin ToSet(backlog)
      BY <1>1 DEF Connect, AcceptorInv, In
    <2>2. /\ backlog' \in Seq(Client) /\ IsInjective(backlog')
          /\ ToSet(backlog') = ToSet(backlog) \cup {c}
      BY <1>1, <2>1, AppendSet, AppendKeepsInjective DEF Connect, AcceptorInv
    <2>3. /\ In("queued")' = In("queued") \cup {c} /\ In("shaking")' = In("shaking")
          /\ In("listed")' = In("listed")
      BY <1>1 DEF Connect, AcceptorInv, In
    <2> QED BY <1>1, <2>2, <2>3 DEF Connect, AcceptorInv, OneShaken, sslVars, clientVars
  <1>2. CASE Send(c)
    <2>1. In("queued")' = In("queued") /\ In("shaking")' = In("shaking")
          /\ In("listed")' = In("listed")
      BY <1>2 DEF Send, In
    <2>2. sent' \in [Client -> 0 .. Len(Behind)] /\ \A d \in Client : got[d] <= sent'[d]
      BY <1>0, <1>2 DEF Send, AcceptorInv
    <2> QED BY <1>2, <2>1, <2>2 DEF Send, AcceptorInv, OneShaken, sslVars
  <1>3. CASE Drain(c)
    <2>1. In("queued")' = In("queued") /\ In("shaking")' = In("shaking")
          /\ In("listed")' = In("listed")
      BY <1>3 DEF Drain, In
    <2> QED BY <1>3, <2>1 DEF Drain, AcceptorInv, OneShaken, clientVars
  <1>4. CASE Leave(c)
    <2>1. CASE UNCHANGED <<state, backlog>>
      <3>1. In("queued")' = In("queued") /\ In("shaking")' = In("shaking")
            /\ In("listed")' = In("listed")
        BY <2>1 DEF In
      <3> QED BY <1>4, <2>1, <3>1 DEF Leave, AcceptorInv, OneShaken, sslVars
    <2>2. ASSUME state[c] = "queued", state' = [state EXCEPT ![c] = "closed"],
                 NEW i \in DOMAIN backlog, backlog[i] = c,
                 backlog' = RemoveAt(backlog, i)
          PROVE  AcceptorInv'
      <3>1. i \in 1 .. Len(backlog)
        BY DEF AcceptorInv
      <3>2. /\ IsInjective(backlog')
            /\ ToSet(backlog') = ToSet(backlog) \ {c}
        BY <2>2, <3>1, RemoveAtInjective DEF AcceptorInv
      <3>3. backlog' \in Seq(Client)
        BY <2>2, <3>1, RemoveAtElements DEF AcceptorInv
      <3>4. /\ In("queued")' = In("queued") \ {c} /\ In("shaking")' = In("shaking")
            /\ In("listed")' = In("listed")
        BY <2>2 DEF AcceptorInv, In
      <3>5. /\ UNCHANGED <<closing, broken, silent, room, full, sent, got, pc, ready>>
            /\ left' = left \cup {c}
        BY <1>4 DEF Leave, sslVars
      <3>6. OneShaken'
        BY <3>4, <3>5 DEF AcceptorInv, OneShaken
      <3>7. state' \in [Client -> {"away", "queued", "shaking", "listed", "handed", "closed"}]
        BY <2>2 DEF AcceptorInv
      <3>8. ToSet(backlog') = In("queued")'
        BY <3>2, <3>4 DEF AcceptorInv
      <3> QED BY <3>2, <3>3, <3>4, <3>5, <3>6, <3>7, <3>8 DEF AcceptorInv
    <2> QED BY <1>4, <2>1, <2>2 DEF Leave
  <1>5. CASE FallSilent(c)
    <2>1. In("queued")' = In("queued") /\ In("shaking")' = In("shaking")
          /\ In("listed")' = In("listed")
      BY <1>5 DEF FallSilent, In
    <2> QED BY <1>5, <2>1 DEF FallSilent, AcceptorInv, OneShaken, sslVars
  <1>6. CASE WorkerCloses(c)
    <2>1. In("queued")' = In("queued") /\ In("shaking")' = In("shaking")
          /\ In("listed")' = In("listed")
      BY <1>6 DEF WorkerCloses, AcceptorInv, In
    <2> QED BY <1>6, <2>1 DEF WorkerCloses, AcceptorInv, OneShaken, sslVars, clientVars
  <1> QED BY <1>1, <1>2, <1>3, <1>4, <1>5, <1>6 DEF Answers

(* The acceptor's own steps outside a handshake. *)
LEMMA InvLoop ==
  ASSUME AcceptorInv, Build \/ Select \/ AcceptFails \/ WalkEnd
  PROVE  AcceptorInv'
  <1>1. CASE Build
    <2>1. /\ In("queued")' = In("queued") /\ In("shaking")' = In("shaking")
      BY <1>1 DEF Build, AcceptorInv, In
    <2>2. ready = {}
      BY <1>1 DEF Build, AcceptorInv
    <2>3. state' \in [Client -> {"away", "queued", "shaking", "listed", "handed", "closed"}]
      BY <1>1 DEF Build, AcceptorInv
    <2> QED BY <1>1, <2>1, <2>2, <2>3 DEF Build, AcceptorInv, OneShaken, sslVars, clientVars
  <1>2. CASE Select
    <2>1. In("queued")' = In("queued") /\ In("shaking")' = In("shaking")
          /\ In("listed")' = In("listed")
      BY <1>2 DEF Select, In
    <2> QED BY <1>2, <2>1 DEF Select, AcceptorInv, OneShaken, sslVars, clientVars
  <1>3. CASE AcceptFails
    <2>1. In("queued")' = In("queued") /\ In("shaking")' = In("shaking")
          /\ In("listed")' = In("listed")
      BY <1>3 DEF AcceptFails, In
    <2> QED BY <1>3, <2>1 DEF AcceptFails, AcceptorInv, OneShaken, sslVars, clientVars
  <1>4. CASE WalkEnd
    <2>1. In("queued")' = In("queued") /\ In("shaking")' = In("shaking")
          /\ In("listed")' = In("listed")
      BY <1>4 DEF WalkEnd, In
    <2> QED BY <1>4, <2>1 DEF WalkEnd, AcceptorInv, OneShaken, sslVars, clientVars
  <1> QED BY <1>1, <1>2, <1>3, <1>4

(* The end of the process. *)
LEMMA InvDie ==
  ASSUME AcceptorInv, Die
  PROVE  AcceptorInv'
  <1>1. \A s \in {"queued", "shaking", "listed"} : In(s)' = {}
    BY DEF Die, In
  <1>2. << >> \in Seq(Client) /\ IsInjective(<< >>) /\ ToSet(<< >>) = {}
    BY DEF IsInjective, ToSet
  <1> QED BY <1>1, <1>2 DEF Die, AcceptorInv, OneShaken, sslVars, clientVars

(* The steps of a handshake.  Only the client that is shaken moves, and only *)
(* to the acceptor's list.                                                   *)
LEMMA InvShakes ==
  ASSUME AcceptorInv, NEW c \in Client, Shakes(c)
  PROVE  AcceptorInv'
  <1>0. /\ Len(Behind) \in Nat /\ Len(Behind) > 1
        /\ Pieces \in Nat
    BY BehindAssumption
  <1>1. /\ pc \in {"accept", "read", "write"} /\ c = Current
        /\ In("shaking") = {c}
    <2>1. pc \in {"accept", "read", "write"} /\ c = Current
      BY DEF Shakes, AcceptDone, AcceptWantsWrite, AcceptWantsRead, AcceptError,
             AcceptPipe, RoundReady, RoundTimeout, SSLAccept, Round
    <2> QED BY <2>1, CurrentIs DEF AcceptorInv
  <1>2. state[c] = "shaking"
    BY <1>1 DEF In
  <1>3. ASSUME UNCHANGED state
        PROVE  /\ In("queued")' = In("queued") /\ In("shaking")' = {c}
               /\ In("listed")' = In("listed")
    BY <1>1, <1>3 DEF In
  <1>4. ASSUME Admit(c)
        PROVE  /\ In("queued")' = In("queued") /\ In("shaking")' = {}
               /\ In("listed")' = In("listed") \cup {c}
               /\ state' \in [Client -> {"away", "queued", "shaking", "listed", "handed", "closed"}]
               /\ pc' = "walk"
    BY <1>1, <1>2, <1>4 DEF Admit, AcceptorInv, In
  <1>5. ASSUME Reads(c)
        PROVE  got' \in [Client -> Nat] /\ \A d \in Client : got'[d] <= sent[d]
    <2>1. sent[c] \in Nat /\ Shaken(c) \in Nat /\ Shaken(c) <= sent[c]
      BY <1>0 DEF AcceptorInv, Shaken
    <2> QED BY <1>5, <2>1 DEF Reads, AcceptorInv
  <1>6. CASE AcceptDone(c)
    <2>1. /\ Admit(c) /\ Reads(c) /\ full' = full \ {c} /\ room' = room \ {c}
          /\ UNCHANGED <<broken, backlog, closing, sent, left, silent, ready>>
      BY <1>6 DEF AcceptDone, SSLAccept, clientVars
    <2> QED BY <2>1, <1>4, <1>5 DEF AcceptorInv, OneShaken
  <1>7. CASE AcceptWantsWrite(c)
    <2>1. /\ pc' = "write" /\ Reads(c) /\ full' = full \cup {c} /\ room' = room \ {c}
          /\ UNCHANGED <<state, broken, backlog, closing, sent, left, silent, ready>>
      BY <1>7 DEF AcceptWantsWrite, SSLAccept, clientVars
    <2> QED BY <2>1, <1>3, <1>5 DEF AcceptorInv, OneShaken
  <1>8. CASE AcceptWantsRead(c)
    <2>1. /\ pc' = "read" /\ Reads(c) /\ full' = full \ {c} /\ room' = room \ {c}
          /\ UNCHANGED <<state, broken, backlog, closing, sent, left, silent, ready>>
      BY <1>8 DEF AcceptWantsRead, SSLAccept, clientVars
    <2> QED BY <2>1, <1>3, <1>5 DEF AcceptorInv, OneShaken
  <1>9. CASE AcceptError(c)
    <2>1. /\ Admit(c) /\ broken' = broken \cup {c}
          /\ UNCHANGED <<got, full, room, backlog, closing, sent, left, silent, ready>>
      BY <1>9 DEF AcceptError, SSLAccept, clientVars
    <2> QED BY <2>1, <1>4 DEF AcceptorInv, OneShaken
  <1>10. CASE AcceptPipe(c)
    BY <1>10, InvDie DEF AcceptPipe
  <1>11. CASE RoundReady(c)
    <2>1. /\ pc' = "accept"
          /\ UNCHANGED <<state, backlog, closing, broken, got, full, room, sent, left, silent, ready>>
      BY <1>11 DEF RoundReady, sslVars, clientVars
    <2> QED BY <2>1, <1>3 DEF AcceptorInv, OneShaken
  <1>12. CASE RoundTimeout(c)
    <2>1. /\ Admit(c)
          /\ UNCHANGED <<backlog, closing, broken, got, full, room, sent, left, silent, ready>>
      BY <1>12 DEF RoundTimeout, TimedOut, sslVars, clientVars
    <2> QED BY <2>1, <1>4 DEF AcceptorInv, OneShaken
  <1> QED BY <1>6, <1>7, <1>8, <1>9, <1>10, <1>11, <1>12 DEF Shakes

(* Taking a client from the listening socket, when nobody is being shaken.   *)
LEMMA InvAccept ==
  ASSUME AcceptorInv, Accept
  PROVE  AcceptorInv'
  <1> DEFINE h == Head(backlog)
  <1>1. /\ Tail(backlog) \in Seq(Client) /\ IsInjective(Tail(backlog))
        /\ ToSet(Tail(backlog)) = ToSet(backlog) \ {h} /\ h \in ToSet(backlog)
    BY TailInjective DEF Accept, AcceptorInv
  <1>2. h \in Client /\ state[h] = "queued"
    BY <1>1 DEF AcceptorInv, In
  <1>3. /\ state' = [state EXCEPT ![h] = "shaking"] /\ backlog' = Tail(backlog)
        /\ pc = "door" /\ pc' = "accept"
        /\ UNCHANGED <<closing, broken, got, full, room, sent, left, silent, ready>>
    BY DEF Accept, sslVars, clientVars
  <1> HIDE DEF h
  <1>4. /\ In("queued")' = In("queued") \ {h} /\ In("shaking")' = {h}
        /\ In("listed")' = In("listed")
    BY <1>2, <1>3 DEF AcceptorInv, OneShaken, In
  <1> QED BY <1>1, <1>2, <1>3, <1>4 DEF AcceptorInv, OneShaken

(* The classification moves a client that was reported in this pass, and     *)
(* takes it out of what is still to be looked at.                            *)
LEMMA InvWalk ==
  ASSUME AcceptorInv, NEW c \in Client,
         Classify(c) \/ RequestClose(c) \/ ReplyPipe(c)
  PROVE  AcceptorInv'
  <1>0. pc = "walk" /\ c \in ready /\ state[c] = "listed"
    BY DEF Classify, RequestClose, ReplyPipe, Walks, AcceptorInv, In
  <1>1. CASE Classify(c)
    <2>1. /\ got' = [got EXCEPT ![c] = sent[c]]
          /\ state' = [state EXCEPT ![c] = "handed"] \/ UNCHANGED state
          /\ closing' = closing \cup {c} \/ UNCHANGED closing
          /\ ready' = ready \ {c}
          /\ UNCHANGED <<backlog, broken, full, room, sent, left, silent, pc>>
      BY <1>1 DEF Classify, Refused, Walked, clientVars
    <2>2. got' \in [Client -> Nat] /\ \A d \in Client : got'[d] <= sent[d]
      BY <2>1, BehindAssumption DEF AcceptorInv
    <2>3. /\ In("queued")' = In("queued") /\ In("shaking")' = In("shaking")
          /\ In("listed") \ {c} \subseteq In("listed")'
      BY <1>0, <2>1 DEF AcceptorInv, In
    <2> QED BY <1>0, <2>1, <2>2, <2>3 DEF AcceptorInv, OneShaken
  <1>2. CASE RequestClose(c)
    <2>1. In("queued")' = In("queued") /\ In("shaking")' = In("shaking")
          /\ In("listed")' = In("listed")
      BY <1>2 DEF RequestClose, In
    <2>2. got' = got \/ got' = [got EXCEPT ![c] = sent[c]]
      BY <1>2 DEF RequestClose, ReadsHandshake, ReadsPart
    <2>3. got' \in [Client -> Nat] /\ \A d \in Client : got'[d] <= sent[d]
      <3>1. /\ got \in [Client -> Nat] /\ \A d \in Client : got[d] <= sent[d]
            /\ \A d \in Client : sent[d] \in Nat
        BY BehindAssumption DEF AcceptorInv
      <3>2. CASE got' = got
        BY <3>1, <3>2
      <3>3. CASE got' = [got EXCEPT ![c] = sent[c]]
        BY <3>1, <3>3
      <3> QED BY <2>2, <3>2, <3>3
    <2> QED BY <1>0, <1>2, <2>1, <2>3
            DEF RequestClose, Refused, Walked, AcceptorInv, OneShaken, clientVars
  <1>3. CASE ReplyPipe(c)
    BY <1>3, InvDie DEF ReplyPipe
  <1> QED BY <1>1, <1>2, <1>3

LEMMA InvNext ==
  ASSUME AcceptorInv, [Next]_vars
  PROVE  AcceptorInv'
  <1>1. CASE Acceptor
    BY <1>1, InvLoop, InvShakes, InvAccept, InvWalk DEF Acceptor
  <1>2. ASSUME NEW c \in Client,
               \/ Connect(c) \/ Answers(c) \/ Leave(c)
               \/ FallSilent(c) \/ WorkerCloses(c)
        PROVE  AcceptorInv'
    BY <1>2, InvClient
  <1>3. CASE UNCHANGED vars
    BY <1>3 DEF vars, sslVars, clientVars, AcceptorInv, OneShaken, In
  <1> QED BY <1>1, <1>2, <1>3 DEF Next

(* The acceptor's state is well formed for any number of clients, whatever   *)
(* ends a handshake: who is in one is Current, and nobody else is.           *)
THEOREM TypeCorrect == Spec => []TypeOK
  <1>1. AcceptorInv => TypeOK
    <2> SUFFICES ASSUME AcceptorInv PROVE TypeOK
      OBVIOUS
    <2>1. Cardinality(In("shaking")) = IF pc \in {"accept", "read", "write"} THEN 1 ELSE 0
      BY FS_EmptySet, FS_Singleton DEF AcceptorInv, OneShaken
    <2>2. \A c \in Client : got[c] \in 0 .. sent[c]
      BY BehindAssumption DEF AcceptorInv
    <2> QED BY <2>1, <2>2 DEF AcceptorInv, TypeOK
  <1> QED BY <1>1, InvInit, InvNext, PTL DEF Spec

LEMMA PromptInit == Init => PromptSound
  BY ClientAssumption DEF Init, PromptSound, PromptNotRefused, ClosingSettled

(* What others do does not concern a prompt client, and what it does itself  *)
(* only adds to what can be read of it.                                      *)
LEMMA PromptClient ==
  ASSUME AcceptorInv, PromptSound, NEW c \in Client,
         Connect(c) \/ Answers(c) \/ Leave(c) \/ FallSilent(c) \/ WorkerCloses(c)
  PROVE  PromptSound'
  <1>0. Prompt \subseteq Client /\ Len(Behind) \in Nat
    BY ClientAssumption, BehindAssumption
  <1>1. /\ UNCHANGED <<closing, broken, got, full, ready, pc>>
        /\ \A d \in Client : state'[d] = "listed" => state[d] = "listed"
        /\ \A d \in Client : state[d] \in {"listed", "closed"} => state'[d] = state[d]
        /\ \A d \in Client : d \in left' => d \in left \/ d \notin Prompt
        /\ \A d \in Client : sent'[d] >= sent[d]
    <2>1. UNCHANGED <<closing, broken, got, full, ready, pc>>
      BY DEF Connect, Answers, Send, Drain, Leave, FallSilent, WorkerCloses,
             sslVars, clientVars
    <2>2. \A d \in Client : /\ state'[d] = "listed" => state[d] = "listed"
                            /\ state[d] \in {"listed", "closed"} => state'[d] = state[d]
      BY DEF Connect, Answers, Send, Drain, Leave, FallSilent, WorkerCloses, AcceptorInv
    <2>3. \A d \in Client : d \in left' => d \in left \/ d \notin Prompt
      BY DEF Connect, Answers, Send, Drain, Leave, FallSilent, WorkerCloses, clientVars
    <2>4. sent' = sent \/ sent' = [sent EXCEPT ![c] = @ + 1]
      BY DEF Connect, Answers, Send, Drain, Leave, FallSilent, WorkerCloses, clientVars
    <2>5. sent \in [Client -> Nat]
      BY <1>0 DEF AcceptorInv
    <2>6. \A d \in Client : sent'[d] >= sent[d]
      BY <2>4, <2>5
    <2> QED BY <2>1, <2>2, <2>3, <2>6
  <1>2. \A d \in Client : got[d] \in Nat /\ sent[d] \in Nat /\ sent'[d] \in Nat
    BY <1>0, InvClient DEF AcceptorInv
  <1>3. ClosingSettled'
    BY <1>1 DEF PromptSound, ClosingSettled, AcceptorInv
  <1> QED BY <1>0, <1>1, <1>2, <1>3 DEF PromptSound, PromptNotRefused, Finished, Cut

(* Select reports a client of the list because something of it can be read;  *)
(* the other steps between two handshakes take out of the select set only.   *)
LEMMA PromptLoop ==
  ASSUME AcceptorInv, PromptSound, Build \/ Select \/ AcceptFails \/ WalkEnd \/ Accept
  PROVE  PromptSound'
  <1>0. Prompt \subseteq Client
    BY ClientAssumption
  <1>1. UNCHANGED <<closing, broken, got, full, sent, left>>
    BY DEF Build, Select, AcceptFails, WalkEnd, Accept, sslVars, clientVars
  <1>2. \A d \in Client : state'[d] = "listed" => state[d] = "listed"
    <2>1. CASE Accept
      <3>1. Head(backlog) \in Client
        BY <2>1, TailInjective DEF Accept, AcceptorInv, In
      <3> QED BY <2>1, <3>1 DEF Accept, AcceptorInv
    <2>2. CASE ~Accept
      BY <2>2 DEF Build, Select, AcceptFails, WalkEnd
    <2> QED BY <2>1, <2>2
  <1>3. \A d \in ready' : d \in ready \/ Readable(d)
    BY DEF Build, Select, AcceptFails, WalkEnd, Accept
  <1>4. ClosingSettled'
    <2> SUFFICES ASSUME NEW d \in closing
                 PROVE  /\ state'[d] \in {"listed", "closed"} /\ d \notin ready'
                        /\ state'[d] = "listed" => pc' \in {"walk", "build"}
      BY <1>1 DEF ClosingSettled
    <2>1. /\ d \in Client /\ state[d] \in {"listed", "closed"} /\ d \notin ready
          /\ state[d] = "listed" => pc \in {"walk", "build"}
      BY DEF PromptSound, ClosingSettled, AcceptorInv
    <2>2. CASE Build
      BY <2>1, <2>2 DEF Build
    <2>3. CASE Select
      BY <2>1, <2>3 DEF Select, In
    <2>4. CASE AcceptFails \/ WalkEnd
      BY <2>1, <2>4 DEF AcceptFails, WalkEnd
    <2>5. CASE Accept
      <3>1. state[Head(backlog)] = "queued"
        BY <2>5, TailInjective DEF Accept, AcceptorInv, In
      <3> QED BY <2>1, <2>5, <3>1 DEF Accept, AcceptorInv
    <2> QED BY <2>2, <2>3, <2>4, <2>5
  <1> QED BY <1>0, <1>1, <1>2, <1>3, <1>4
          DEF PromptSound, PromptNotRefused, Finished, Readable, Cut

(* The end of the process refuses nobody. *)
LEMMA PromptDie ==
  ASSUME AcceptorInv, PromptSound, Die
  PROVE  PromptSound'
  <1>1. \A d \in Client : state'[d] = "closed"
    BY DEF Die
  <1>2. UNCHANGED <<closing, broken, got, left>> /\ ready' = {}
    BY DEF Die, sslVars, clientVars
  <1>3. Prompt \subseteq Client /\ closing \subseteq Client
    BY ClientAssumption DEF AcceptorInv
  <1> QED BY <1>1, <1>2, <1>3
          DEF PromptSound, PromptNotRefused, ClosingSettled, Cut

(* A prompt client meets no error and no timeout: its handshake ends when    *)
(* all of it was read and the answer is out.                                 *)
LEMMA PromptShakes ==
  ASSUME AcceptorInv, PromptSound, NEW c \in Client, Shakes(c)
  PROVE  PromptSound'
  <1>0. Prompt \subseteq Client /\ Pieces \in Nat
    BY ClientAssumption, BehindAssumption
  <1>1. state[c] = "shaking"
    <2>1. pc \in {"accept", "read", "write"} /\ c = Current
      BY DEF Shakes, AcceptDone, AcceptWantsWrite, AcceptWantsRead, AcceptError,
             AcceptPipe, RoundReady, RoundTimeout, SSLAccept, Round
    <2>2. c \in In("shaking")
      BY <2>1, CurrentIs DEF AcceptorInv
    <2> QED BY <2>2 DEF In
  <1>2. c \notin ready
    BY <1>1 DEF AcceptorInv, In
  <1>3. ASSUME NEW d \in Client \ {c}, ~AcceptPipe(c)
        PROVE  /\ got'[d] = got[d]
               /\ d \in full' <=> d \in full
               /\ d \in broken' <=> d \in broken
               /\ state'[d] = state[d]
    BY <1>3 DEF Shakes, AcceptDone, AcceptWantsWrite, AcceptWantsRead, AcceptError,
                RoundReady, RoundTimeout, TimedOut, Admit, Reads, AcceptorInv, sslVars
  <1>4. ASSUME ~AcceptPipe(c)
        PROVE  UNCHANGED <<closing, sent, left, ready>>
    BY <1>4 DEF Shakes, AcceptDone, AcceptWantsWrite, AcceptWantsRead, AcceptError,
                RoundReady, RoundTimeout, SSLAccept, sslVars, clientVars
  <1>5. ASSUME c \in Prompt, ~AcceptPipe(c)
        PROVE  /\ c \notin broken'
               /\ state'[c] = "listed" => Finished(c)'
    <2>1. c \notin broken
      BY <1>5 DEF PromptSound
    <2>2. CASE AcceptDone(c)
      <3>1. Shaken(c) = Pieces /\ got' = [got EXCEPT ![c] = Shaken(c)]
            /\ full' = full \ {c} /\ broken' = broken
        BY <2>2 DEF AcceptDone, Reads
      <3>2. got'[c] = Pieces
        BY <3>1 DEF AcceptorInv
      <3> QED BY <1>0, <2>1, <3>1, <3>2 DEF Finished
    <2>3. CASE ~AcceptDone(c)
      BY <1>1, <1>5, <2>1, <2>3
         DEF Shakes, AcceptWantsWrite, AcceptWantsRead, AcceptError,
             RoundReady, RoundTimeout, sslVars
    <2> QED BY <2>2, <2>3
  <1>6. CASE ~AcceptPipe(c)
    <2>0. /\ c \notin closing
          /\ ClosingSettled'
          /\ \A d \in closing : Cut(d) => Cut(d)'
      <3>1. c \notin closing
        BY <1>1 DEF PromptSound, ClosingSettled
      <3>2. ASSUME NEW d \in closing
            PROVE  /\ d \in Client \ {c} /\ d \notin ready
                   /\ state[d] = "closed"
        <4>1. pc \notin {"walk", "build"}
          BY DEF Shakes, AcceptDone, AcceptWantsWrite, AcceptWantsRead, AcceptError,
                 AcceptPipe, RoundReady, RoundTimeout, SSLAccept, Round
        <4> QED BY <3>1, <3>2, <4>1 DEF PromptSound, ClosingSettled, AcceptorInv
      <3> QED BY <1>3, <1>4, <1>6, <3>1, <3>2 DEF ClosingSettled, Cut
    <2>1. \A d \in Prompt : d \notin broken' \cup left' /\ (d \in closing' => Cut(d)')
      BY <1>0, <1>3, <1>4, <1>5, <1>6, <2>0 DEF PromptSound, PromptNotRefused
    <2>2. \A d \in Prompt : state'[d] = "listed" => Finished(d)'
      <3> SUFFICES ASSUME NEW d \in Prompt, state'[d] = "listed"
                   PROVE  Finished(d)'
        OBVIOUS
      <3>1. CASE d = c
        BY <3>1, <1>5, <1>6
      <3>2. CASE d # c
        BY <3>2, <1>0, <1>3, <1>6 DEF PromptSound, Finished
      <3> QED BY <3>1, <3>2
    <2>3. \A d \in Prompt : d \in ready' => sent'[d] > got'[d]
      BY <1>0, <1>2, <1>3, <1>4, <1>6 DEF PromptSound
    <2> QED BY <2>0, <2>1, <2>2, <2>3 DEF PromptSound, PromptNotRefused
  <1>7. CASE AcceptPipe(c)
    BY <1>7, PromptDie DEF AcceptPipe
  <1> QED BY <1>6, <1>7

(* The walk reads the command of a prompt client it looks at, or a part of it. *)
LEMMA PromptWalk ==
  ASSUME AcceptorInv, PromptSound, NEW c \in Client,
         Classify(c) \/ RequestClose(c) \/ ReplyPipe(c)
  PROVE  PromptSound'
  <1>0. Prompt \subseteq Client /\ Pieces \in Nat /\ Len(Behind) \in Nat
    BY ClientAssumption, BehindAssumption
  <1>1. /\ c \in ready /\ state[c] = "listed" /\ c \notin closing
        /\ ~ReplyPipe(c) => pc = "walk" /\ pc' = "walk"
    BY DEF Classify, RequestClose, ReplyPipe, Walks, AcceptorInv, In, PromptSound,
           ClosingSettled
  <1>2. CASE Classify(c)
    <2>1. /\ got' = [got EXCEPT ![c] = sent[c]] /\ ready' = ready \ {c}
          /\ UNCHANGED <<broken, full, sent, left>>
          /\ \/ state' = [state EXCEPT ![c] = "handed"] /\ UNCHANGED closing
             \/ c \notin Prompt /\ closing' = closing \cup {c} /\ UNCHANGED state
      BY <1>2 DEF Classify, Refused, Walked, clientVars
    <2>2. \A d \in Client : /\ d # c => got'[d] = got[d] /\ state'[d] = state[d]
                            /\ state'[d] = "listed" => state[d] = "listed" /\ (d # c \/ d \notin Prompt)
      BY <2>1 DEF AcceptorInv
    <2>3. pc' = pc
      BY <1>2 DEF Classify
    <2>4. ClosingSettled'
      BY <1>1, <2>1, <2>2, <2>3, <1>2 DEF PromptSound, ClosingSettled, AcceptorInv, Classify, Walks
    <2> QED BY <1>0, <1>1, <2>1, <2>2, <2>4 DEF PromptSound, PromptNotRefused, Finished, Cut
  <1>3. CASE RequestClose(c)
    <2>1. /\ closing' = closing \cup {c} /\ ready' = ready \ {c}
          /\ UNCHANGED <<state, broken, full, sent, left, pc>>
          /\ ReadsHandshake(c) \/ ReadsPart(c)
          /\ pc = "walk"
      BY <1>3 DEF RequestClose, Refused, Walked, Walks, clientVars
    <2>2. ClosingSettled'
      BY <1>1, <2>1 DEF PromptSound, ClosingSettled
    <2>3. got' = got \/ got' = [got EXCEPT ![c] = sent[c]]
      BY <2>1 DEF ReadsHandshake, ReadsPart
    <2>4. /\ got \in [Client -> Nat] /\ sent[c] \in Nat /\ got[c] <= sent[c]
      BY <1>0 DEF AcceptorInv
    <2>5. \A d \in Client : d # c => got'[d] = got[d]
      BY <2>3, <2>4
    <2>6. ASSUME c \in Prompt
          PROVE  Cut(c)' /\ Finished(c)'
      <3>1. Finished(c) /\ sent[c] > got[c]
        BY <1>1, <2>6 DEF PromptSound
      <3>2. got' = [got EXCEPT ![c] = sent[c]] /\ sent[c] < Len(Behind)
        BY <2>1, <2>4, <3>1 DEF ReadsHandshake, ReadsPart
      <3>3. got'[c] = sent[c]
        BY <2>4, <3>2
      <3> QED BY <1>0, <2>1, <2>4, <3>1, <3>2, <3>3 DEF Cut, Finished
    <2>7. \A d \in Prompt : d \in closing' => Cut(d)'
      BY <1>0, <2>1, <2>5, <2>6 DEF PromptSound, PromptNotRefused, Cut
    <2>8. \A d \in Prompt : state'[d] = "listed" => Finished(d)'
      BY <1>0, <2>1, <2>5, <2>6 DEF PromptSound, Finished
    <2>9. \A d \in Prompt : /\ d \notin left' \cup broken'
                            /\ d \in ready' => sent'[d] > got'[d]
      BY <1>0, <2>1, <2>5 DEF PromptSound
    <2> QED BY <2>2, <2>7, <2>8, <2>9 DEF PromptSound, PromptNotRefused
  <1>4. CASE ReplyPipe(c)
    BY <1>4, PromptDie DEF ReplyPipe
  <1> QED BY <1>2, <1>3, <1>4

(* No client that does its part in time is refused but for a command of      *)
(* which a part had come when it was read, for any number of clients that    *)
(* do not: nothing that happens between its handshake, the select() that     *)
(* reports it and the walk that reads it makes its command come too late.    *)
THEOREM PromptStay == Spec => []PromptNotRefused
  <1>1. AcceptorInv /\ PromptSound /\ [Next]_vars => PromptSound'
    <2> SUFFICES ASSUME AcceptorInv, PromptSound, [Next]_vars
                 PROVE  PromptSound'
      OBVIOUS
    <2>1. CASE Acceptor
      BY <2>1, PromptLoop, PromptShakes, PromptWalk DEF Acceptor
    <2>2. ASSUME NEW c \in Client,
                 \/ Connect(c) \/ Answers(c) \/ Leave(c)
                 \/ FallSilent(c) \/ WorkerCloses(c)
          PROVE  PromptSound'
      BY <2>2, PromptClient
    <2>3. CASE UNCHANGED vars
      BY <2>3 DEF vars, sslVars, clientVars, PromptSound, PromptNotRefused, ClosingSettled,
                  Finished, Cut
    <2> QED BY <2>1, <2>2, <2>3 DEF Next
  <1>2. PromptSound => PromptNotRefused
    BY DEF PromptSound
  <1> QED BY <1>1, <1>2, InvInit, InvNext, PromptInit, PTL DEF Spec

(* The result of TLS_handshark is not used, yet a worker is only given       *)
(* clients whose handshake is complete: SSL_read gives classify_connection   *)
(* no command before that.                                                   *)
ServedAreShaken == \A c \in Client : state[c] = "handed" => Finished(c)

THEOREM OnlyShakenServed == Spec => []ServedAreShaken
  <1>1. Init => ServedAreShaken
    BY DEF Init, ServedAreShaken
  <1>2. AcceptorInv /\ ServedAreShaken /\ [Next]_vars => ServedAreShaken'
    <2> SUFFICES ASSUME AcceptorInv, ServedAreShaken, [Next]_vars,
                        NEW d \in Client, state'[d] = "handed"
                 PROVE  Finished(d)'
      BY DEF ServedAreShaken
    <2>1. ASSUME NEW c \in Client,
                 \/ Connect(c) \/ Answers(c) \/ Leave(c)
                 \/ FallSilent(c) \/ WorkerCloses(c)
          PROVE  Finished(d)'
      <3>1. state[d] = "handed"
        BY <2>1 DEF Connect, Answers, Send, Drain, Leave, FallSilent, WorkerCloses,
                    AcceptorInv
      <3>2. UNCHANGED <<got, broken, full>>
        BY <2>1 DEF Connect, Answers, Send, Drain, Leave, FallSilent, WorkerCloses,
                    sslVars
      <3> QED BY <3>1, <3>2 DEF ServedAreShaken, Finished
    <2>2. CASE Build \/ Select \/ AcceptFails \/ WalkEnd \/ Accept
      <3>1. state[d] = "handed"
        <4>1. CASE Accept
          <5>1. Head(backlog) \in Client
            BY <4>1, TailInjective DEF Accept, AcceptorInv, In
          <5> QED BY <4>1, <5>1 DEF Accept, AcceptorInv
        <4>2. CASE ~Accept
          BY <2>2, <4>2 DEF Build, Select, AcceptFails, WalkEnd, AcceptorInv
        <4> QED BY <4>1, <4>2
      <3>2. UNCHANGED <<got, broken, full>>
        BY <2>2 DEF Build, Select, AcceptFails, WalkEnd, Accept, sslVars
      <3> QED BY <3>1, <3>2 DEF ServedAreShaken, Finished
    <2>3. ASSUME NEW c \in Client, Shakes(c)
          PROVE  Finished(d)'
      <3>1. state[c] = "shaking"
        <4>1. pc \in {"accept", "read", "write"} /\ c = Current
          BY <2>3 DEF Shakes, AcceptDone, AcceptWantsWrite, AcceptWantsRead, AcceptError,
                      AcceptPipe, RoundReady, RoundTimeout, SSLAccept, Round
        <4>2. c \in In("shaking")
          BY <4>1, CurrentIs DEF AcceptorInv
        <4> QED BY <4>2 DEF In
      <3>2. state'[c] \in {"shaking", "listed", "closed"}
        BY <2>3, <3>1 DEF Shakes, AcceptDone, AcceptWantsWrite, AcceptWantsRead,
           AcceptError, AcceptPipe, RoundReady, RoundTimeout, TimedOut, Admit, Die,
           AcceptorInv
      <3>3. ~AcceptPipe(c)
        BY DEF AcceptPipe, Die
      <3>4. /\ got'[d] = got[d]
            /\ d \in full' <=> d \in full
            /\ d \in broken' <=> d \in broken
            /\ state'[d] = state[d]
        BY <2>3, <3>2, <3>3
           DEF Shakes, AcceptDone, AcceptWantsWrite, AcceptWantsRead, AcceptError,
               RoundReady, RoundTimeout, TimedOut, Admit, Reads, AcceptorInv, sslVars
      <3> QED BY <3>4 DEF ServedAreShaken, Finished
    <2>4. ASSUME NEW c \in Client, Classify(c) \/ RequestClose(c) \/ ReplyPipe(c)
          PROVE  Finished(d)'
      <3>1. ~ReplyPipe(c)
        BY DEF ReplyPipe, Die
      <3>2. UNCHANGED <<broken, full>>
        BY <2>4, <3>1 DEF Classify, RequestClose
      <3>3. state[d] = "handed" \/ (d = c /\ Finished(c))
        BY <2>4, <3>1 DEF Classify, RequestClose, AcceptorInv
      <3>4. got[d] \in Nat /\ got'[d] \in Nat /\ got'[d] >= got[d]
        <4>1. got' = got \/ got' = [got EXCEPT ![c] = sent[c]]
          BY <2>4, <3>1 DEF Classify, RequestClose, ReadsHandshake, ReadsPart
        <4>2. got \in [Client -> Nat] /\ sent[c] \in Nat /\ got[c] <= sent[c]
          BY BehindAssumption DEF AcceptorInv
        <4> QED BY <4>1, <4>2
      <3>5. Pieces \in Nat
        BY BehindAssumption
      <3> QED BY <3>2, <3>3, <3>4, <3>5 DEF ServedAreShaken, Finished
    <2>5. CASE UNCHANGED vars
      BY <2>5 DEF vars, sslVars, ServedAreShaken, Finished
    <2> QED BY <2>1, <2>2, <2>3, <2>4, <2>5 DEF Next, Acceptor
  <1> QED BY <1>1, <1>2, InvInit, InvNext, PTL DEF Spec
=============================================================================
