-------------------------- MODULE ServerCore_proofs --------------------------
(* Proofs about ServerCore, for every number of connections. *)
EXTENDS ServerCore, SequenceTheorems, TLAPS

(* A vector without its last element. *)
LEMMA FrontElements ==
  ASSUME NEW S, NEW s \in Seq(S), Len(s) > 0
  PROVE  /\ Front(s) \in Seq(S)
         /\ Len(Front(s)) = Len(s) - 1
         /\ \A k \in 1 .. Len(s) - 1 : Front(s)[k] = s[k]
  <1>1. PICK n \in Nat : n = Len(s) - 1
    OBVIOUS
  <1> QED BY <1>1 DEF Front

(* What erase leaves: the elements before i, then those after it. *)
LEMMA RemoveAtElements ==
  ASSUME NEW S, NEW s \in Seq(S), NEW i \in 1 .. Len(s)
  PROVE  /\ RemoveAt(s, i) \in Seq(S)
         /\ Len(RemoveAt(s, i)) = Len(s) - 1
         /\ \A k \in 1 .. i - 1 : RemoveAt(s, i)[k] = s[k]
         /\ \A k \in i .. Len(s) - 1 : RemoveAt(s, i)[k] = s[k + 1]
  <1> DEFINE a == SubSeq(s, 1, i - 1)
             b == SubSeq(s, i + 1, Len(s))
             r == a \o b
  <1>1. PICK n \in Nat : n = Len(s)
    OBVIOUS
  <1>2. /\ a \in Seq(S) /\ Len(a) = i - 1
        /\ \A k \in 1 .. i - 1 : a[k] = s[k]
    OBVIOUS
  <1>3. /\ b \in Seq(S) /\ Len(b) = n - i
        /\ \A k \in 1 .. n - i : b[k] = s[i + k]
    BY <1>1
  <1>4. RemoveAt(s, i) = r
    BY DEF RemoveAt
  <1> HIDE DEF a, b
  <1>5. /\ r \in Seq(S) /\ Len(r) = Len(a) + Len(b)
        /\ \A k \in 1 .. Len(a) + Len(b) :
             r[k] = IF k <= Len(a) THEN a[k] ELSE b[k - Len(a)]
    BY <1>2, <1>3, ConcatProperties
  <1> HIDE DEF r
  <1>6. i \in Nat /\ i >= 1 /\ i <= n
    BY <1>1
  <1>7. Len(r) = n - 1
    BY <1>2, <1>3, <1>5, <1>6
  <1>8. \A k \in 1 .. i - 1 : r[k] = s[k]
    BY <1>2, <1>3, <1>5, <1>6
  <1>9. ASSUME NEW k \in i .. n - 1
        PROVE  r[k] = s[k + 1]
    <2>1. r[k] = b[k - (i - 1)]
      BY <1>2, <1>3, <1>5, <1>6
    <2>2. k - (i - 1) \in 1 .. n - i /\ i + (k - (i - 1)) = k + 1
      BY <1>6
    <2> QED BY <2>1, <2>2, <1>3
  <1> QED BY <1>1, <1>4, <1>5, <1>7, <1>8, <1>9

(* The same, as membership. *)
LEMMA RemoveAtSet ==
  ASSUME NEW S, NEW s \in Seq(S), NEW i \in 1 .. Len(s)
  PROVE  /\ ToSet(RemoveAt(s, i)) \subseteq ToSet(s)
         /\ \A x \in ToSet(s) : x # s[i] => x \in ToSet(RemoveAt(s, i))
  <1> DEFINE t == RemoveAt(s, i)
  <1>1. /\ t \in Seq(S) /\ Len(t) = Len(s) - 1
        /\ \A k \in 1 .. i - 1 : t[k] = s[k]
        /\ \A k \in i .. Len(s) - 1 : t[k] = s[k + 1]
    BY RemoveAtElements
  <1> HIDE DEF t
  <1>2. ASSUME NEW k \in 1 .. Len(t)
        PROVE  t[k] \in ToSet(s)
    <2>1. CASE k < i
      <3>1. k \in 1 .. Len(s) /\ t[k] = s[k]
        BY <1>1, <2>1
      <3> QED BY <3>1 DEF ToSet
    <2>2. CASE k >= i
      <3>1. k + 1 \in 1 .. Len(s) /\ t[k] = s[k + 1]
        BY <1>1, <2>2
      <3> QED BY <3>1 DEF ToSet
    <2> QED BY <1>1, <2>1, <2>2
  <1>3. ASSUME NEW j \in 1 .. Len(s), j # i
        PROVE  s[j] \in ToSet(t)
    <2>1. CASE j < i
      BY <1>1, <2>1 DEF ToSet
    <2>2. CASE j > i
      <3>1. j - 1 \in 1 .. Len(t) /\ t[j - 1] = s[j]
        BY <1>1, <2>2
      <3> QED BY <1>1, <3>1 DEF ToSet
    <2> QED BY <1>3, <2>1, <2>2
  <1>4. ToSet(t) \subseteq ToSet(s)
    BY <1>1, <1>2 DEF ToSet
  <1>5. \A x \in ToSet(s) : x # s[i] => x \in ToSet(t)
    BY <1>3 DEF ToSet
  <1> QED BY <1>4, <1>5 DEF t

(* emplace_back adds its element to the elements of a vector. *)
LEMMA AppendSet ==
  ASSUME NEW S, NEW s \in Seq(S), NEW c \in S
  PROVE  ToSet(Append(s, c)) = ToSet(s) \cup {c}
  <1>1. Append(s, c)[Len(s) + 1] = c
    OBVIOUS
  <1> QED BY <1>1 DEF ToSet

(* The elements of a vector without its last one. *)
LEMMA FrontSet ==
  ASSUME NEW S, NEW s \in Seq(S), Len(s) > 0
  PROVE  ToSet(Front(s)) \subseteq ToSet(s)
  BY FrontElements DEF ToSet

(* A vector, and the same after a push. *)
LEMMA AppendFront ==
  ASSUME NEW S, NEW s \in Seq(S), NEW x \in S
  PROVE  /\ Append(s, x) \in Seq(S) /\ Append(s, x) # << >>
         /\ Front(Append(s, x)) = s /\ Last(Append(s, x)) = x
  BY DEF Front, Last

(* What the first half of the worker's erase leaves in its vector. *)
LEMMA MovedDownElements ==
  ASSUME NEW S, NEW s \in Seq(S), NEW i \in 1 .. Len(s)
  PROVE  /\ MovedDown(s, i) \in Seq(S)
         /\ Len(MovedDown(s, i)) = Len(s)
         /\ ToSet(MovedDown(s, i)) \subseteq ToSet(s)
  BY DEF MovedDown, ToSet

(* The acceptor's push, the racing ones included, keeps the list's type and *)
(* size and brings in no other connection.                                  *)
LEMMA PushElements ==
  ASSUME TypeOK, NEW w \in Worker, NEW c \in Conn, Push(w, c),
         pc[w] = "shrink" => Len(list[w]) > 0
  PROVE  /\ list' \in [Worker -> Seq(Conn)]
         /\ \A v \in Worker : v # w => list'[v] = list[v]
         /\ list'[w] = Append(list[w], c)
              \/ (pc[w] = "shrink" /\ list'[w] = Front(list[w]))
         /\ Len(list'[w]) <= Len(list[w]) + 1
         /\ ToSet(list'[w]) \subseteq ToSet(list[w]) \cup {c}
  <1>1. list \in [Worker -> Seq(Conn)] /\ list[w] \in Seq(Conn)
    BY DEF TypeOK
  <1>2. PICK l \in Seq(Conn) :
          /\ list' = [list EXCEPT ![w] = l]
          /\ l = Append(list[w], c) \/ (pc[w] = "shrink" /\ l = Front(list[w]))
    <2>1. Append(list[w], c) \in Seq(Conn)
      BY <1>1
    <2>2. pc[w] = "shrink" => Front(list[w]) \in Seq(Conn)
      BY <1>1, FrontElements
    <2> QED BY <1>1, <2>1, <2>2 DEF Push
  <1>3. Len(l) <= Len(list[w]) + 1
    BY <1>1, <1>2, FrontElements
  <1>4. ToSet(l) \subseteq ToSet(list[w]) \cup {c}
    <2>1. CASE l = Append(list[w], c)
      BY <1>1, <2>1, AppendSet
    <2>2. CASE pc[w] = "shrink" /\ l = Front(list[w])
      BY <1>1, <2>2, FrontSet
    <2> QED BY <1>2, <2>1, <2>2
  <1>5. list' \in [Worker -> Seq(Conn)]
    BY <1>1, <1>2
  <1>6. list'[w] = l /\ \A v \in Worker : v # w => list'[v] = list[v]
    BY <1>1, <1>2
  <1> QED BY <1>2, <1>3, <1>4, <1>5, <1>6

(* A position that is in use lies inside the list; TypeOK needs it because  *)
(* Front of an empty list is no list.                                       *)
PositionsStand ==
  \A w \in Worker :
    pc[w] \in {"shrink", "handle", "closing"} => pos[w] <= Len(list[w])

TInv == TypeOK /\ PositionsStand

(* The server starts with every variable in its type. *)
LEMMA TypeInit == Init => TInv
  BY MaxConnAssumption DEF Init, TInv, TypeOK, PositionsStand, Conn, Worker

(* The acceptor's walk keeps the types. *)
LEMMA TypeAcceptBuild ==
  ASSUME TInv, AcceptBuild
  PROVE  TInv'
  <1> USE DEF TInv, PositionsStand
  <1>1. CASE AcceptDelete
    <2>1. CASE Freed(Current)
      BY <1>1, <2>1 DEF AcceptDelete, Die, TypeOK, connVars, acceptVars,
         listVars, workerVars
    <2>2. CASE ~Freed(Current)
      <3>1. RemoveAt(connections, iA) \in Seq(Conn)
        BY <1>1, RemoveAtElements DEF AcceptDelete, AtElement, TypeOK
      <3> QED BY <1>1, <2>2, <3>1 DEF AcceptDelete, TypeOK, listVars, workerVars
    <2> QED BY <2>1, <2>2
  <1>2. CASE AcceptDrop
    <2>1. RemoveAt(connections, iA) \in Seq(Conn)
      BY <1>2, RemoveAtElements DEF AcceptDrop, AtElement, TypeOK
    <2> QED BY <1>2, <2>1 DEF AcceptDrop, TypeOK, connVars, listVars, workerVars
  <1>3. CASE AcceptKeep
    BY <1>3 DEF AcceptKeep, AtElement, Current, TypeOK, connVars, listVars,
       workerVars
  <1>4. CASE AcceptBuildEnd
    BY <1>4 DEF AcceptBuildEnd, TypeOK, connVars, listVars, workerVars
  <1> QED BY <1>1, <1>2, <1>3, <1>4 DEF AcceptBuild

(* The acceptor's select and accept keep the types. *)
LEMMA TypeAcceptWait ==
  ASSUME TInv, AcceptWait
  PROVE  TInv'
  <1> USE DEF TInv, PositionsStand
  <1>1. CASE AcceptSelect
    BY <1>1 DEF AcceptSelect, TypeOK, connVars, listVars, workerVars
  <1>2. CASE AcceptSelectFails
    BY <1>2 DEF AcceptSelectFails, Die, TypeOK, connVars, acceptVars, listVars,
       workerVars
  <1>3. CASE AcceptNew
    <2>1. nextId \in Conn /\ nextId + 1 \in 1 .. MaxConn + 1
      BY <1>3, MaxConnAssumption DEF AcceptNew, TypeOK, Conn
    <2>2. Append(connections, nextId) \in Seq(Conn)
      BY <2>1 DEF TypeOK
    <2> QED BY <1>3, <2>1, <2>2 DEF AcceptNew, TypeOK, listVars, workerVars
  <1>4. CASE AcceptFail
    BY <1>4 DEF AcceptFail, AcceptRestart, TypeOK, connVars, listVars,
       workerVars
  <1> QED BY <1>1, <1>2, <1>3, <1>4 DEF AcceptWait

(* Classification and hand-over keep the types. *)
LEMMA TypeAcceptRead ==
  ASSUME TInv, AcceptRead
  PROVE  TInv'
  <1> USE DEF TInv, PositionsStand
  <1>1. CASE AcceptSkip
    BY <1>1 DEF AcceptSkip, TypeOK, connVars, listVars, workerVars
  <1>2. CASE AcceptIsClassified
    BY <1>2 DEF AcceptIsClassified, ToHandOver, TypeOK, listVars, workerVars,
       Worker
  <1>3. CASE AcceptClassify
    <2>1. CASE Die
      BY <2>1 DEF Die, TypeOK, connVars, acceptVars, listVars, workerVars
    <2>2. CASE ToHandOver /\ UNCHANGED <<kind, closeReq>>
      BY <2>2 DEF ToHandOver, TypeOK, listVars, workerVars, Worker
    <2>3. ASSUME NEW k \in Kinds \cup {"none"},
                 kind' = [kind EXCEPT ![Current] = k],
                 closeReq' = [closeReq EXCEPT ![Current] = @ \/ k = "none"],
                 ToHandOver
          PROVE  TInv'
      <3>1. kind' \in [Conn -> Worker \cup {"none"}]
        BY <2>3, KindsAssumption DEF TypeOK
      <3>2. closeReq' \in [Conn -> BOOLEAN]
        BY <2>3 DEF TypeOK
      <3>3. UNCHANGED <<alive, obj, pushes, nextId, connections, iA, setA, list,
                        cap, stale, pc, pos, set>> /\ pcA' = "main"
        BY <2>3 DEF ToHandOver, listVars, workerVars
      <3> QED BY <3>1, <3>2, <3>3 DEF TypeOK, Worker
    <2> QED BY <1>3, <2>1, <2>2, <2>3 DEF AcceptClassify
  <1>4. ASSUME NEW w \in Worker, AcceptPush(w)
        PROVE  TInv'
    <2>1. Current \in Conn /\ Push(w, Current)
      BY <1>4 DEF AcceptPush, AtElement, Current, TypeOK
    <2>2. pc[w] = "shrink" => Len(list[w]) > 0
      BY DEF TypeOK
    <2>3. /\ list' \in [Worker -> Seq(Conn)]
          /\ \A v \in Worker : v # w => list'[v] = list[v]
          /\ list'[w] = Append(list[w], Current)
               \/ (pc[w] = "shrink" /\ list'[w] = Front(list[w]))
          /\ Len(list'[w]) <= Len(list[w]) + 1
      BY <2>1, <2>2, PushElements
    <2>4. cap' \in [Worker -> Nat] /\ \A v \in Worker : Len(list'[v]) <= cap'[v]
      <3>1. cap' \in [Worker -> Nat]
        BY <2>1 DEF Push, TypeOK, Grown
      <3>2. \A v \in Worker : v # w => cap'[v] = cap[v]
        BY <2>1 DEF Push, TypeOK
      <3>3. Len(list[w]) <= cap[w] /\ Len(list[w]) \in Nat /\ cap[w] \in Nat
            /\ Len(list'[w]) \in Nat
        BY <2>3 DEF TypeOK
      <3>4. cap'[w] = IF Full(w) THEN Grown(cap[w]) ELSE cap[w]
        BY <2>1 DEF Push, TypeOK
      <3>5. Len(list'[w]) <= cap'[w]
        BY <2>3, <3>3, <3>4 DEF Full, Grown
      <3> QED BY <2>3, <3>1, <3>2, <3>5 DEF TypeOK
    <2>5. /\ pc' \in [Worker -> {"top", "build", "shrink", "select", "read",
                                 "handle", "closing", "dead"}]
          /\ \A v \in Worker : pc'[v] = pc[v] \/ (v = w /\ pc'[v] = "build")
          /\ pos' = pos /\ set' = set
          /\ pc' = pc \/ pc[w] = "shrink"
      BY <2>1 DEF Push, TypeOK
    <2>6. /\ pushes' \in [Conn -> Nat]
          /\ stale' \in [Worker -> BOOLEAN]
      BY <2>1 DEF Push, TypeOK
    <2>7. /\ UNCHANGED <<alive, obj, kind, closeReq, nextId, connections, setA>>
          /\ pcA' \in {"file", "read"} /\ iA' \in {iA, iA + 1}
      BY <1>4 DEF AcceptPush, AfterHandOver
    <2>8. PositionsStand'
      <3> SUFFICES ASSUME NEW v \in Worker,
                          pc'[v] \in {"shrink", "handle", "closing"}
                   PROVE  pos'[v] <= Len(list'[v])
        OBVIOUS
      <3>1. CASE v # w
        BY <3>1, <2>3, <2>5
      <3>2. CASE v = w
        <4>1. pc'[w] = pc[w]
          BY <3>2, <2>5
        <4>2. pos[w] <= Len(list[w]) /\ pos[w] \in Nat /\ list[w] \in Seq(Conn)
          BY <3>2, <4>1 DEF TypeOK
        <4>3. list'[w] = Append(list[w], Current)
          BY <4>1, <3>2, <2>1, <1>4 DEF Push, TypeOK
        <4> QED BY <4>2, <4>3, <3>2, <2>5, <2>1
      <3> QED BY <3>1, <3>2
    <2>9. /\ connections' \in Seq(Conn)
          /\ pcA' \in {"build", "select", "accept", "read"} \cup Worker
          /\ iA' \in Nat \ {0}
      BY <2>7 DEF TypeOK, Worker
    <2>10. TypeOK'
      BY <2>3, <2>4, <2>5, <2>6, <2>7, <2>9 DEF TypeOK
    <2> QED BY <2>8, <2>10
  <1>5. ASSUME NEW w \in Worker, AcceptNoPush(w)
        PROVE  TInv'
    BY <1>5 DEF AcceptNoPush, AfterHandOver, TypeOK, listVars, workerVars, Worker
  <1>6. CASE AcceptReadEnd
    BY <1>6 DEF AcceptReadEnd, AcceptRestart, TypeOK, connVars, listVars,
       workerVars
  <1> QED BY <1>1, <1>2, <1>3, <1>4, <1>5, <1>6 DEF AcceptRead

(* A worker's walk keeps the types. *)
LEMMA TypeWorkerBuild ==
  ASSUME TInv, NEW w \in Worker, WorkerBuild(w)
  PROVE  TInv'
  <1> USE DEF TInv, PositionsStand
  <1>1. CASE BuildBegin(w)
    BY <1>1 DEF BuildBegin, TypeOK, connVars, acceptVars
  <1>2. CASE BuildKeep(w)
    <2>1. Element(w) \in Conn
      BY <1>2 DEF BuildKeep, Element, TypeOK
    <2> QED BY <1>2, <2>1 DEF BuildKeep, Building, TypeOK, connVars, acceptVars,
            listVars
  <1>3. CASE Delete(w)
    <2>1. CASE Freed(Element(w))
      BY <1>3, <2>1 DEF Delete, Die, TypeOK, connVars, acceptVars, listVars,
         workerVars
    <2>2. CASE ~Freed(Element(w))
      <3>1. pos[w] \in 1 .. Len(list[w]) /\ list[w] \in Seq(Conn)
        BY <1>3 DEF Delete, TypeOK
      <3>2. /\ MovedDown(list[w], pos[w]) \in Seq(Conn)
            /\ Len(MovedDown(list[w], pos[w])) = Len(list[w])
        BY <3>1, MovedDownElements
      <3>3. /\ list' = [list EXCEPT ![w] = MovedDown(list[w], pos[w])]
            /\ obj' = [obj EXCEPT ![Element(w)] = "freed"]
            /\ pc' = [pc EXCEPT ![w] = "shrink"]
            /\ UNCHANGED <<alive, kind, closeReq, pushes, nextId, connections,
                           pcA, iA, setA, cap, stale, pos, set>>
        BY <1>3, <2>2 DEF Delete, acceptVars, TypeOK
      <3>4. list' \in [Worker -> Seq(Conn)]
            /\ \A v \in Worker : Len(list'[v]) = Len(list[v])
        BY <3>2, <3>3 DEF TypeOK
      <3>5. PositionsStand'
        <4>1. \A v \in Worker : v # w => pc'[v] = pc[v]
          BY <3>3 DEF TypeOK
        <4> QED BY <3>1, <3>3, <3>4, <4>1
      <3>6. \A v \in Worker : Len(list'[v]) <= cap'[v]
        BY <3>3, <3>4 DEF TypeOK
      <3>7. /\ obj' \in [Conn -> {"absent", "live", "freed"}]
            /\ pc' \in [Worker -> {"top", "build", "shrink", "select", "read",
                                   "handle", "closing", "dead"}]
        BY <3>3 DEF TypeOK
      <3>8. TypeOK'
        BY <3>3, <3>4, <3>6, <3>7 DEF TypeOK
      <3> QED BY <3>5, <3>8
    <2> QED BY <2>1, <2>2
  <1>4. CASE Shrink(w)
    <2>1. /\ Front(list[w]) \in Seq(Conn)
          /\ Len(Front(list[w])) = Len(list[w]) - 1
      <3>1. list[w] \in Seq(Conn) /\ Len(list[w]) > 0
        BY <1>4 DEF Shrink, TypeOK
      <3> QED BY <3>1, FrontElements
    <2>2. /\ list' = [list EXCEPT ![w] = Front(list[w])]
          /\ pc' = [pc EXCEPT ![w] = "build"]
          /\ UNCHANGED <<alive, obj, kind, closeReq, pushes, nextId, connections,
                         pcA, iA, setA, cap, stale, pos, set>>
      BY <1>4 DEF Shrink, acceptVars, connVars, TypeOK
    <2>3. list' \in [Worker -> Seq(Conn)]
          /\ \A v \in Worker : Len(list'[v]) <= Len(list[v])
                               /\ (v # w => list'[v] = list[v])
      BY <2>1, <2>2 DEF TypeOK
    <2>4. \A v \in Worker : Len(list'[v]) <= cap'[v]
      BY <2>1, <2>2, <2>3 DEF TypeOK
    <2> QED BY <2>2, <2>3, <2>4 DEF TypeOK
  <1>5. CASE BuildEnd(w)
    BY <1>5 DEF BuildEnd, Building, TypeOK, connVars, acceptVars, listVars
  <1>6. CASE StaleIterator(w)
    BY <1>6 DEF StaleIterator, Die, TypeOK, connVars, acceptVars, listVars,
       workerVars
  <1> QED BY <1>1, <1>2, <1>3, <1>4, <1>5, <1>6 DEF WorkerBuild

(* A worker's select, reads and handler keep the types. *)
LEMMA TypeWorkerRest ==
  ASSUME TInv, NEW w \in Worker, WorkerRead(w) \/ WorkerHandler(w)
  PROVE  TInv'
  <1> USE DEF TInv, PositionsStand
  <1>1. CASE Select(w)
    <2>1. PICK ready \in SUBSET set[w] : set' = [set EXCEPT ![w] = ready]
      BY <1>1 DEF Select
    <2>2. set' \in [Worker -> SUBSET Conn]
      BY <2>1 DEF TypeOK
    <2> QED BY <1>1, <2>2 DEF Select, TypeOK, connVars, acceptVars, listVars
  <1>2. CASE SelectFails(w)
    BY <1>2 DEF SelectFails, TypeOK, connVars, acceptVars, listVars
  <1>3. CASE ReadSkip(w)
    BY <1>3 DEF ReadSkip, TypeOK, connVars, acceptVars, listVars
  <1>4. CASE Handle(w)
    BY <1>4 DEF Handle, TypeOK, connVars, acceptVars
  <1>5. CASE ReadEnd(w)
    BY <1>5 DEF ReadEnd, TypeOK, connVars, acceptVars, listVars
  <1>6. CASE RequestClose(w)
    <2>1. closeReq' \in [Conn -> BOOLEAN]
      BY <1>6 DEF RequestClose, TypeOK
    <2> QED BY <1>6, <2>1 DEF RequestClose, TypeOK, acceptVars, listVars
  <1>7. CASE Return(w)
    BY <1>7 DEF Return, TypeOK, connVars, acceptVars
  <1>8. CASE DanglingAccess(w)
    BY <1>8 DEF DanglingAccess, Die, TypeOK, connVars, acceptVars, listVars,
       workerVars
  <1> QED BY <1>1, <1>2, <1>3, <1>4, <1>5, <1>6, <1>7, <1>8
          DEF WorkerRead, WorkerHandler

(* A step that changes nothing keeps the types. *)
LEMMA TypeStutter == TInv /\ UNCHANGED vars => TInv'
  BY DEF TInv, TypeOK, PositionsStand, vars, connVars, acceptVars, listVars,
     workerVars

(* Every step keeps the types. *)
LEMMA TypeNext == TInv /\ [Next]_vars => TInv'
  BY TypeAcceptBuild, TypeAcceptWait, TypeAcceptRead, TypeWorkerBuild,
     TypeWorkerRest, TypeStutter DEF Next, Acceptor

(* Type correctness of the three threads' state, and every position a       *)
(* worker uses through an erase or a handler lies inside its list.          *)
THEOREM TypeCorrect == Spec => []TypeOK
  <1>1. Spec => []TInv
    BY TypeInit, TypeNext, PTL DEF Spec
  <1> QED BY <1>1, PTL DEF TInv
-----------------------------------------------------------------------------
(* Ownership.  The properties are not inductive: that a live connection is  *)
(* pushed once rests on which part of its vector the acceptor has read, on  *)
(* no connection standing there twice, and on new identifiers being new.    *)

(* Identifiers from nextId on have not been used anywhere. *)
Fresh ==
  \A c \in Conn :
    /\ (obj[c] = "absent") <=> (c >= nextId)
    /\ c >= nextId => /\ kind[c] = "none" /\ ~closeReq[c] /\ pushes[c] = 0
                      /\ c \notin ToSet(connections)
                      /\ \A w \in Worker : ~Listed(c, w)

(* No connection stands twice in the acceptor's vector. *)
Distinct ==
  \A i, j \in 1 .. Len(connections) : connections[i] = connections[j] => i = j

(* A live, unclassified connection has not been handed over. *)
NotYetPushed ==
  \A c \in Conn : Live(c) /\ kind[c] = "none" => pushes[c] = 0

(* A classified one has been, but for the one the acceptor is at. *)
PushedOnce ==
  \A c \in Conn : Live(c) /\ kind[c] # "none" =>
    \/ pushes[c] = 1
    \/ /\ pushes[c] = 0 /\ pcA \in Worker /\ Current = c
       /\ pcA = "file" => kind[c] = "file"

(* What the acceptor has still to read is unclassified, what it has kept    *)
(* in this round's build is neither classified nor to be closed.            *)
StillUnclassified(i) ==
  \/ pcA \in {"select", "accept"}
  \/ pcA = "read" /\ i >= iA
  \/ pcA \in Worker /\ i > iA
  \/ pcA = "build" /\ i < iA
KeptOpen(i) == pcA = "select" \/ (pcA = "build" /\ i < iA)

Unread ==
  \A i \in 1 .. Len(connections) : LET c == connections[i] IN Live(c) =>
    /\ StillUnclassified(i) => kind[c] = "none"
    /\ KeptOpen(i) => ~closeReq[c]
    /\ i = iA /\ (pcA = "main" \/ (pcA = "file" /\ kind[c] = "file"))
         => pushes[c] = 0

AtIsInside == pcA \in Worker => iA <= Len(connections)

(* An unclassified connection is the acceptor's. *)
UnclassifiedConfined ==
  \A c \in Conn : Live(c) /\ kind[c] = "none" =>
    /\ c \in ToSet(connections)
    /\ \A w \in Worker : ~Listed(c, w)

(* A worker's list holds its own kind. *)
OwnKindOnly ==
  \A w \in Worker, c \in Conn : Live(c) /\ Listed(c, w) => kind[c] = w

OwnInv ==
  /\ TInv
  /\ Fresh /\ Distinct /\ NotYetPushed /\ PushedOnce /\ Unread /\ AtIsInside
  /\ UnclassifiedConfined /\ OwnKindOnly

(* The server starts with nobody holding a connection. *)
LEMMA OwnInit == Init => OwnInv
  <1> SUFFICES ASSUME Init PROVE OwnInv
    OBVIOUS
  <1>1. TInv
    BY TypeInit
  <1>2. /\ connections = << >> /\ nextId = 1 /\ pcA = "build"
        /\ \A c \in Conn : obj[c] = "absent" /\ kind[c] = "none"
                          /\ ~closeReq[c] /\ pushes[c] = 0
        /\ \A w \in Worker : list[w] = << >>
    BY DEF Init
  <1>3. ToSet(connections) = {} /\ \A w \in Worker : ToSet(list[w]) = {}
    BY <1>2 DEF ToSet
  <1>4. \A c \in Conn : c >= nextId /\ ~Live(c)
    BY <1>2 DEF Conn, Live
  <1>5. Fresh
    BY <1>2, <1>3, <1>4 DEF Fresh, Listed
  <1>6. Distinct /\ Unread
    BY <1>2 DEF Distinct, Unread
  <1>7. NotYetPushed /\ PushedOnce /\ UnclassifiedConfined /\ OwnKindOnly
    BY <1>4 DEF NotYetPushed, PushedOnce, UnclassifiedConfined, OwnKindOnly
  <1>8. AtIsInside
    BY <1>2 DEF AtIsInside, Worker
  <1> QED BY <1>1, <1>5, <1>6, <1>7, <1>8 DEF OwnInv

(* A step that only takes connections out of the workers' lists, frees      *)
(* objects and requests closes of listed connections keeps the invariant:   *)
(* every step of a worker is one, and the end of the process.               *)
LEMMA WorkerFrame ==
  ASSUME OwnInv, TInv',
         UNCHANGED <<kind, pushes, nextId, connections, pcA, iA>>,
         \A w \in Worker : ToSet(list'[w]) \subseteq ToSet(list[w]),
         \A c \in Conn : obj'[c] = obj[c] \/ (Live(c) /\ obj'[c] = "freed"),
         \A c \in Conn : closeReq'[c] = closeReq[c]
                         \/ \E w \in Worker : Listed(c, w)
  PROVE  OwnInv'
  <1>1. \A c \in Conn : Live(c)' => Live(c)
    BY DEF Live
  <1>2. \A c \in Conn, w \in Worker : Listed(c, w)' => Listed(c, w)
    BY DEF Listed
  <1>3. Fresh'
    BY <1>2 DEF OwnInv, Fresh, Live
  <1>4. Distinct'
    BY DEF OwnInv, Distinct
  <1>5. NotYetPushed'
    BY <1>1 DEF OwnInv, NotYetPushed
  <1>6. PushedOnce'
    BY <1>1 DEF OwnInv, PushedOnce, Current
  <1>7. Unread'
    <2> SUFFICES ASSUME NEW i \in 1 .. Len(connections), Live(connections[i])'
                 PROVE  LET c == connections[i] IN
                        /\ StillUnclassified(i) => kind[c] = "none"
                        /\ KeptOpen(i) => ~closeReq'[c]
                        /\ i = iA /\ (pcA = "main"
                                      \/ (pcA = "file" /\ kind[c] = "file"))
                             => pushes[c] = 0
      BY DEF Unread, StillUnclassified, KeptOpen
    <2>1. connections[i] \in Conn
      BY DEF OwnInv, TInv, TypeOK
    <2>2. Live(connections[i])
      BY <1>1, <2>1
    <2>3. KeptOpen(i) => StillUnclassified(i)
      BY DEF KeptOpen, StillUnclassified
    <2>4. StillUnclassified(i) =>
            \A w \in Worker : ~Listed(connections[i], w)
      BY <2>1, <2>2 DEF OwnInv, Unread, UnclassifiedConfined
    <2> QED BY <2>1, <2>2, <2>3, <2>4 DEF OwnInv, Unread
  <1>8. AtIsInside'
    BY DEF OwnInv, AtIsInside
  <1>9. UnclassifiedConfined'
    BY <1>1, <1>2 DEF OwnInv, UnclassifiedConfined
  <1>10. OwnKindOnly'
    BY <1>1, <1>2 DEF OwnInv, OwnKindOnly
  <1> QED BY <1>3, <1>4, <1>5, <1>6, <1>7, <1>8, <1>9, <1>10 DEF OwnInv

(* A step of the acceptor that only changes where it stands. *)
LEMMA MoveFrame ==
  ASSUME OwnInv, TInv', PushedOnce', Unread', AtIsInside',
         UNCHANGED <<obj, kind, closeReq, pushes, nextId, connections, list>>
  PROVE  OwnInv'
  BY DEF OwnInv, Fresh, Distinct, NotYetPushed, UnclassifiedConfined,
     OwnKindOnly, Listed, Live

(* No step of a worker gives a connection to the wrong thread. *)
LEMMA OwnWorker ==
  ASSUME OwnInv, TInv', NEW w \in Worker,
         WorkerBuild(w) \/ WorkerRead(w) \/ WorkerHandler(w)
  PROVE  OwnInv'
  <1> USE DEF acceptVars, connVars, listVars
  <1>0. TypeOK /\ PositionsStand /\ list[w] \in Seq(Conn)
    BY DEF OwnInv, TInv, TypeOK
  <1>1. CASE Delete(w) /\ ~Freed(Element(w))
    <2>1. pos[w] \in 1 .. Len(list[w])
      BY <1>0, <1>1 DEF Delete, TypeOK
    <2>2. Element(w) \in Conn /\ Listed(Element(w), w)
      BY <1>0, <2>1 DEF Element, Listed, ToSet
    <2>3. Live(Element(w))
      BY <1>0, <1>1, <2>2 DEF OwnInv, Fresh, OwnKindOnly, Freed, Live,
         TypeOK
    <2>4. ToSet(MovedDown(list[w], pos[w])) \subseteq ToSet(list[w])
      BY <1>0, <2>1, MovedDownElements
    <2>5. \A v \in Worker : ToSet(list'[v]) \subseteq ToSet(list[v])
      BY <1>0, <1>1, <2>4 DEF Delete, TypeOK
    <2>6. \A c \in Conn : obj'[c] = obj[c] \/ (Live(c) /\ obj'[c] = "freed")
      BY <1>0, <1>1, <2>2, <2>3 DEF Delete, TypeOK
    <2>7. UNCHANGED <<kind, closeReq, pushes, nextId, connections, pcA, iA>>
      BY <1>1 DEF Delete
    <2> QED BY <2>5, <2>6, <2>7, WorkerFrame
  <1>2. CASE Shrink(w)
    <2>1. Len(list[w]) > 0
      BY <1>0, <1>2 DEF Shrink, PositionsStand, TypeOK
    <2>2. ToSet(Front(list[w])) \subseteq ToSet(list[w])
      BY <1>0, <2>1, FrontSet
    <2>3. \A v \in Worker : ToSet(list'[v]) \subseteq ToSet(list[v])
      BY <1>0, <1>2, <2>2 DEF Shrink, TypeOK
    <2>4. UNCHANGED <<obj, kind, closeReq, pushes, nextId, connections, pcA, iA>>
      BY <1>2 DEF Shrink
    <2> QED BY <2>3, <2>4, WorkerFrame
  <1>3. CASE RequestClose(w)
    <2>1. Element(w) \in Conn /\ Listed(Element(w), w)
      BY <1>0, <1>3 DEF RequestClose, PositionsStand, Element, Listed, ToSet,
         TypeOK
    <2>2. \A c \in Conn : closeReq'[c] = closeReq[c]
                          \/ \E v \in Worker : Listed(c, v)
      BY <1>0, <1>3, <2>1 DEF RequestClose, TypeOK
    <2>3. UNCHANGED <<obj, kind, pushes, nextId, connections, pcA, iA, list>>
      BY <1>3 DEF RequestClose
    <2> QED BY <2>2, <2>3, WorkerFrame
  <1>4. CASE UNCHANGED <<obj, kind, closeReq, pushes, nextId, connections, pcA,
                         iA, list>>
    BY <1>4, WorkerFrame
  <1>5. \/ (Delete(w) /\ ~Freed(Element(w))) \/ Shrink(w) \/ RequestClose(w)
        \/ UNCHANGED <<obj, kind, closeReq, pushes, nextId, connections, pcA,
                       iA, list>>
    BY DEF WorkerBuild, WorkerRead, WorkerHandler, BuildBegin, BuildKeep, Delete,
       BuildEnd, StaleIterator, Select, SelectFails, ReadSkip, Handle, ReadEnd,
       Return, DanglingAccess, Die
  <1> QED BY <1>1, <1>2, <1>3, <1>4, <1>5

(* The acceptor's select and accept keep the ownership. *)
LEMMA OwnAcceptWait ==
  ASSUME OwnInv, TInv', AcceptWait
  PROVE  OwnInv'
  <1> USE DEF acceptVars, connVars, listVars
  <1>1. CASE AcceptSelect
    <2>1. UNCHANGED <<obj, kind, closeReq, pushes, nextId, connections, list>>
          /\ pcA = "select" /\ pcA' \in {"accept", "read"} /\ iA' = 1
      BY <1>1 DEF AcceptSelect
    <2>2. PushedOnce'
      BY <2>1 DEF OwnInv, PushedOnce, Worker, Live
    <2>3. Unread'
      BY <2>1 DEF OwnInv, Unread, StillUnclassified, KeptOpen, Live
    <2>4. AtIsInside'
      BY <2>1 DEF AtIsInside, Worker
    <2> QED BY <2>1, <2>2, <2>3, <2>4, MoveFrame
  <1>2. CASE AcceptSelectFails
    <2>1. UNCHANGED <<obj, kind, closeReq, pushes, nextId, connections, pcA, iA,
                      list>>
      BY <1>2 DEF AcceptSelectFails, Die
    <2> QED BY <2>1, WorkerFrame
  <1>3. CASE AcceptNew
    <2>1. /\ pcA = "accept" /\ nextId \in Conn /\ pcA' = "read"
          /\ obj' = [obj EXCEPT ![nextId] = "live"]
          /\ connections' = Append(connections, nextId)
          /\ nextId' = nextId + 1
          /\ UNCHANGED <<kind, closeReq, pushes, iA, list>>
      BY <1>3 DEF AcceptNew, OwnInv, TInv, TypeOK, Conn
    <2>2. connections \in Seq(Conn) /\ obj \in [Conn -> {"absent", "live", "freed"}]
      BY DEF OwnInv, TInv, TypeOK
    <2>3. ToSet(connections') = ToSet(connections) \cup {nextId}
      BY <2>1, <2>2, AppendSet
    <2>4. /\ nextId \notin ToSet(connections) /\ kind[nextId] = "none"
          /\ ~closeReq[nextId] /\ pushes[nextId] = 0
          /\ \A w \in Worker : ~Listed(nextId, w)
      BY <2>1 DEF OwnInv, Fresh, Conn
    <2>5. Fresh'
      BY <2>1, <2>2, <2>3 DEF OwnInv, Fresh, Listed, Conn
    <2>6. Distinct'
      <3> SUFFICES ASSUME NEW i \in 1 .. Len(connections) + 1,
                          NEW j \in 1 .. Len(connections) + 1,
                          connections'[i] = connections'[j]
                   PROVE  i = j
        BY <2>1, <2>2 DEF Distinct
      <3>1. \A k \in 1 .. Len(connections) :
              connections'[k] = connections[k] /\ connections[k] # nextId
        BY <2>1, <2>2, <2>4 DEF ToSet
      <3>2. connections'[Len(connections) + 1] = nextId
        BY <2>1, <2>2
      <3> QED BY <3>1, <3>2, <2>2 DEF OwnInv, Distinct
    <2>7. NotYetPushed'
      BY <2>1, <2>2, <2>4 DEF OwnInv, NotYetPushed, Live
    <2>8. PushedOnce'
      BY <2>1, <2>2, <2>4 DEF OwnInv, PushedOnce, Live, Worker
    <2>9. Unread'
      <3> SUFFICES ASSUME NEW i \in 1 .. Len(connections) + 1,
                          obj'[connections'[i]] = "live"
                   PROVE  kind[connections'[i]] = "none"
        BY <2>1, <2>2 DEF Unread, StillUnclassified, KeptOpen, Live, Worker
      <3>1. CASE i = Len(connections) + 1
        BY <3>1, <2>1, <2>2, <2>4
      <3>2. CASE i <= Len(connections)
        <4>1. connections'[i] = connections[i] /\ connections[i] # nextId
              /\ connections[i] \in Conn
          BY <3>2, <2>1, <2>2, <2>4 DEF ToSet
        <4>2. Live(connections[i])
          BY <4>1, <2>1, <2>2 DEF Live
        <4> QED BY <3>2, <4>1, <4>2, <2>1 DEF OwnInv, Unread, StillUnclassified
      <3> QED BY <3>1, <3>2, <2>2
    <2>10. AtIsInside'
      BY <2>1 DEF AtIsInside, Worker
    <2>11. UnclassifiedConfined'
      BY <2>1, <2>2, <2>3, <2>4 DEF OwnInv, UnclassifiedConfined, Live, Listed
    <2>12. OwnKindOnly'
      BY <2>1, <2>2, <2>4 DEF OwnInv, OwnKindOnly, Live, Listed
    <2> QED BY <2>5, <2>6, <2>7, <2>8, <2>9, <2>10, <2>11, <2>12 DEF OwnInv
  <1>4. CASE AcceptFail
    <2>1. UNCHANGED <<obj, kind, closeReq, pushes, nextId, connections, list>>
          /\ pcA = "accept" /\ pcA' = "build" /\ iA' = 1
      BY <1>4 DEF AcceptFail, AcceptRestart
    <2>2. PushedOnce'
      BY <2>1 DEF OwnInv, PushedOnce, Worker, Live
    <2>3. Unread'
      BY <2>1 DEF Unread, StillUnclassified, KeptOpen, Worker
    <2>4. AtIsInside'
      BY <2>1 DEF AtIsInside, Worker
    <2> QED BY <2>1, <2>2, <2>3, <2>4, MoveFrame
  <1> QED BY <1>1, <1>2, <1>3, <1>4 DEF AcceptWait

(* The acceptor's walk keeps the ownership. *)
LEMMA OwnAcceptBuild ==
  ASSUME OwnInv, TInv', AcceptBuild
  PROVE  OwnInv'
  <1> USE DEF acceptVars, connVars, listVars
  <1>0. connections \in Seq(Conn) /\ iA \in Nat \ {0} /\ pcA = "build"
    BY DEF OwnInv, TInv, TypeOK, AcceptBuild, AcceptDelete, AcceptDrop,
       AcceptKeep, AcceptBuildEnd, AtElement
  <1>1. ASSUME iA <= Len(connections), connections' = RemoveAt(connections, iA),
               UNCHANGED <<kind, closeReq, pushes, nextId, pcA, iA, list>>,
               \A c \in Conn : obj'[c] = obj[c]
                               \/ (c = Current /\ Live(c) /\ obj'[c] = "freed"),
               obj'[Current] = "live" => kind[Current] # "none"
        PROVE  OwnInv'
    <2>1. iA \in 1 .. Len(connections)
      BY <1>0, <1>1
    <2>2. /\ connections' \in Seq(Conn) /\ Len(connections') = Len(connections) - 1
          /\ \A k \in 1 .. iA - 1 : connections'[k] = connections[k]
          /\ \A k \in iA .. Len(connections) - 1 :
                connections'[k] = connections[k + 1]
      BY <1>0, <1>1, <2>1, RemoveAtElements
    <2>3. /\ ToSet(connections') \subseteq ToSet(connections)
          /\ \A c \in ToSet(connections) : c # Current => c \in ToSet(connections')
      BY <1>0, <1>1, <2>1, RemoveAtSet DEF Current
    <2>4. \A c \in Conn : obj'[c] = "live" => obj[c] = "live"
      BY <1>1
    <2>5. Fresh'
      BY <1>1, <2>3 DEF OwnInv, Fresh, Listed, Live
    <2>6. Distinct'
      <3> SUFFICES ASSUME NEW i \in 1 .. Len(connections) - 1,
                          NEW j \in 1 .. Len(connections) - 1,
                          connections'[i] = connections'[j]
                   PROVE  i = j
        BY <2>2 DEF Distinct
      <3> DEFINE at(k) == IF k < iA THEN k ELSE k + 1
      <3>1. ASSUME NEW k \in 1 .. Len(connections) - 1
            PROVE  /\ at(k) \in 1 .. Len(connections)
                   /\ connections'[k] = connections[at(k)]
        <4>0. k \in Nat /\ k >= 1 /\ k <= Len(connections) - 1
              /\ Len(connections) \in Nat
          BY <1>0
        <4>1. CASE k < iA
          <5>1. at(k) = k
            BY <4>1
          <5>2. k \in 1 .. iA - 1 /\ k \in 1 .. Len(connections)
            BY <4>0, <4>1, <1>0
          <5> QED BY <5>1, <5>2, <2>2
        <4>2. CASE k >= iA
          BY <4>2, <2>1, <2>2, <1>0
        <4> QED BY <4>1, <4>2, <1>0
      <3>2. at(i) = at(j)
        BY <3>1 DEF OwnInv, Distinct
      <3> QED BY <3>2, <1>0
    <2>7. NotYetPushed' /\ PushedOnce'
      BY <1>0, <1>1, <2>4 DEF OwnInv, NotYetPushed, PushedOnce, Live, Worker
    <2>8. Unread'
      <3> SUFFICES ASSUME NEW i \in 1 .. Len(connections) - 1, i < iA,
                          obj'[connections'[i]] = "live"
                   PROVE  kind[connections'[i]] = "none"
                          /\ ~closeReq[connections'[i]]
        BY <1>0, <1>1, <2>2 DEF Unread, StillUnclassified, KeptOpen, Live, Worker
      <3>1. connections'[i] = connections[i] /\ connections[i] \in Conn
        BY <1>0, <2>2
      <3>2. obj[connections[i]] = "live"
        BY <3>1, <2>4
      <3> QED BY <1>0, <3>1, <3>2 DEF OwnInv, Unread, StillUnclassified,
              KeptOpen, Live
    <2>9. AtIsInside'
      BY <1>0, <1>1 DEF AtIsInside, Worker
    <2>10. UnclassifiedConfined'
      BY <1>1, <2>3, <2>4 DEF OwnInv, UnclassifiedConfined, Live, Listed
    <2>11. OwnKindOnly'
      BY <1>1, <2>4 DEF OwnInv, OwnKindOnly, Live, Listed
    <2> QED BY <2>5, <2>6, <2>7, <2>8, <2>9, <2>10, <2>11 DEF OwnInv
  <1>2. iA <= Len(connections) =>
          /\ Current \in Conn /\ obj[Current] # "absent"
          /\ obj \in [Conn -> {"absent", "live", "freed"}]
    <2>1. iA <= Len(connections) => Current \in ToSet(connections)
                                   /\ Current \in Conn
      BY <1>0 DEF Current, ToSet
    <2> QED BY <2>1 DEF OwnInv, TInv, TypeOK, Fresh
  <1>3. CASE AcceptDelete
    <2>1. CASE Freed(Current)
      <3>1. UNCHANGED <<obj, kind, closeReq, pushes, nextId, connections, pcA,
                        iA, list>>
        BY <1>3, <2>1 DEF AcceptDelete, Die
      <3> QED BY <3>1, WorkerFrame
    <2>2. CASE ~Freed(Current)
      BY <1>1, <1>2, <1>3, <2>2 DEF AcceptDelete, AtElement, Live, Freed
    <2> QED BY <2>1, <2>2
  <1>4. CASE AcceptDrop
    <2>1. obj'[Current] = "live" => kind[Current] # "none"
      BY <1>4 DEF AcceptDrop, MayBeClassified, MayBe, Freed
    <2> QED BY <1>1, <1>4, <2>1 DEF AcceptDrop, AtElement
  <1>5. CASE AcceptKeep
    <2>1. UNCHANGED <<obj, kind, closeReq, pushes, nextId, connections, list, pcA>>
          /\ iA' = iA + 1
      BY <1>5 DEF AcceptKeep
    <2>2. Live(Current) => kind[Current] = "none" /\ ~closeReq[Current]
      BY <1>5 DEF AcceptKeep, MayStay, MayBeUnclassified, MayBe, Freed, Live
    <2>3. PushedOnce'
      BY <1>0, <2>1 DEF OwnInv, PushedOnce, Worker, Live
    <2>4. Unread'
      <3> SUFFICES ASSUME NEW i \in 1 .. Len(connections), i < iA + 1,
                          Live(connections[i])
                   PROVE  kind[connections[i]] = "none"
                          /\ ~closeReq[connections[i]]
        BY <1>0, <2>1 DEF Unread, StillUnclassified, KeptOpen, Live, Worker
      <3>1. CASE i = iA
        BY <3>1, <2>2 DEF Current
      <3>2. CASE i < iA
        BY <3>2, <1>0 DEF OwnInv, Unread, StillUnclassified, KeptOpen
      <3> QED BY <3>1, <3>2, <1>0
    <2>5. AtIsInside'
      BY <1>0, <2>1 DEF AtIsInside, Worker
    <2> QED BY <2>1, <2>3, <2>4, <2>5, MoveFrame
  <1>6. CASE AcceptBuildEnd
    <2>1. UNCHANGED <<obj, kind, closeReq, pushes, nextId, connections, list, iA>>
          /\ pcA' = "select" /\ iA > Len(connections)
      BY <1>6 DEF AcceptBuildEnd
    <2>2. PushedOnce'
      BY <1>0, <2>1 DEF OwnInv, PushedOnce, Worker, Live
    <2>3. Unread'
      <3> SUFFICES ASSUME NEW i \in 1 .. Len(connections), Live(connections[i])
                   PROVE  kind[connections[i]] = "none"
                          /\ ~closeReq[connections[i]]
        BY <1>0, <2>1 DEF Unread, StillUnclassified, KeptOpen, Live, Worker
      <3>1. i < iA
        BY <1>0, <2>1
      <3> QED BY <3>1, <1>0 DEF OwnInv, Unread, StillUnclassified, KeptOpen
    <2>4. AtIsInside'
      BY <2>1 DEF AtIsInside, Worker
    <2> QED BY <2>1, <2>2, <2>3, <2>4, MoveFrame
  <1> QED BY <1>3, <1>4, <1>5, <1>6 DEF AcceptBuild

(* The acceptor's own moves while it reads its vector. *)
LEMMA OwnAcceptReadMoves ==
  ASSUME OwnInv, TInv',
         AcceptSkip \/ AcceptIsClassified \/ AcceptReadEnd
  PROVE  OwnInv'
  <1> USE DEF connVars, listVars
  <1>0. connections \in Seq(Conn) /\ iA \in Nat \ {0} /\ pcA = "read"
    BY DEF OwnInv, TInv, TypeOK, AcceptSkip, AcceptIsClassified, AcceptReadEnd,
       AtElement
  <1>1. UNCHANGED <<obj, kind, closeReq, pushes, nextId, connections, list>>
    BY DEF AcceptSkip, AcceptIsClassified, AcceptReadEnd, ToHandOver,
       AcceptRestart
  <1>2. PushedOnce'
    BY <1>0, <1>1 DEF OwnInv, PushedOnce, Worker, Live
  <1>3. CASE AcceptSkip
    <2>1. pcA' = "read" /\ iA' = iA + 1
      BY <1>0, <1>3 DEF AcceptSkip
    <2>2. Unread'
      BY <1>0, <1>1, <2>1 DEF OwnInv, Unread, StillUnclassified, KeptOpen, Live,
         Worker
    <2>3. AtIsInside'
      BY <2>1 DEF AtIsInside, Worker
    <2> QED BY <1>1, <1>2, <2>2, <2>3, MoveFrame
  <1>4. CASE AcceptIsClassified
    <2>1. pcA' = "main" /\ iA' = iA /\ iA <= Len(connections)
      BY <1>4 DEF AcceptIsClassified, ToHandOver, AtElement
    <2>2. ~Live(Current)
      <3>1. Live(Current) => kind[Current] # "none"
        BY <1>4 DEF AcceptIsClassified, MayBeClassified, MayBe, Freed, Live
      <3>2. Live(Current) => kind[Current] = "none"
        BY <1>0, <2>1 DEF OwnInv, Unread, StillUnclassified, Current
      <3> QED BY <3>1, <3>2
    <2>3. Unread'
      <3> SUFFICES ASSUME NEW i \in 1 .. Len(connections), Live(connections[i]),
                          i >= iA
                   PROVE  i # iA /\ kind[connections[i]] = "none"
        BY <1>0, <1>1, <2>1 DEF Unread, StillUnclassified, KeptOpen, Live, Worker
      <3>1. i # iA
        BY <2>2 DEF Current
      <3> QED BY <3>1, <1>0 DEF OwnInv, Unread, StillUnclassified
    <2>4. AtIsInside'
      BY <1>1, <2>1 DEF AtIsInside
    <2> QED BY <1>1, <1>2, <2>3, <2>4, MoveFrame
  <1>5. CASE AcceptReadEnd
    <2>1. pcA' = "build" /\ iA' = 1
      BY <1>5 DEF AcceptReadEnd, AcceptRestart
    <2>2. Unread'
      BY <2>1 DEF Unread, StillUnclassified, KeptOpen, Worker
    <2>3. AtIsInside'
      BY <2>1 DEF AtIsInside, Worker
    <2> QED BY <1>1, <1>2, <2>2, <2>3, MoveFrame
  <1> QED BY <1>3, <1>4, <1>5

(* classify_connection keeps the ownership. *)
LEMMA OwnAcceptClassify ==
  ASSUME OwnInv, TInv', AcceptClassify
  PROVE  OwnInv'
  <1> USE DEF connVars, listVars
  <1>0. /\ connections \in Seq(Conn) /\ iA \in Nat \ {0} /\ pcA = "read"
        /\ iA <= Len(connections) /\ iA \in 1 .. Len(connections)
        /\ Current \in Conn /\ Current \in ToSet(connections)
        /\ kind \in [Conn -> Worker \cup {"none"}]
        /\ closeReq \in [Conn -> BOOLEAN]
    BY DEF OwnInv, TInv, TypeOK, AcceptClassify, AtElement, Current, ToSet
  <1>1. CASE Die
    <2>1. UNCHANGED <<obj, kind, closeReq, pushes, nextId, connections, pcA, iA,
                      list>>
      BY <1>1 DEF Die, acceptVars
    <2> QED BY <2>1, WorkerFrame
  <1>2. CASE ~Die
    <2>1. /\ \A c \in Conn : c # Current =>
                kind'[c] = kind[c] /\ closeReq'[c] = closeReq[c]
          /\ Live(Current) \/ (kind' = kind /\ closeReq' = closeReq)
          /\ UNCHANGED <<obj, pushes, nextId, connections, iA, list>>
          /\ pcA' = "main"
      <3>1. CASE Freed(Current)
        BY <1>2, <3>1 DEF AcceptClassify, ToHandOver
      <3>2. CASE ~Freed(Current)
        <4>1. Live(Current)
          BY <1>0, <3>2 DEF OwnInv, TInv, TypeOK, Fresh, Freed, Live
        <4>2. PICK k \in Kinds \cup {"none"} :
                /\ kind' = [kind EXCEPT ![Current] = k]
                /\ closeReq' = [closeReq EXCEPT ![Current] = @ \/ k = "none"]
          BY <3>2 DEF AcceptClassify
        <4>3. ToHandOver
          BY <3>2 DEF AcceptClassify
        <4> QED BY <1>0, <4>1, <4>2, <4>3 DEF ToHandOver
      <3> QED BY <3>1, <3>2
    <2>2. Live(Current) =>
            /\ kind[Current] = "none" /\ pushes[Current] = 0
            /\ \A w \in Worker : ~Listed(Current, w)
      <3>1. Live(Current) => kind[Current] = "none"
        BY <1>0 DEF OwnInv, Unread, StillUnclassified, Current
      <3> QED BY <1>0, <3>1 DEF OwnInv, NotYetPushed, UnclassifiedConfined
    <2>3. \A i \in 1 .. Len(connections) : connections[i] = Current => i = iA
      BY <1>0 DEF OwnInv, Distinct, Current
    <2>4. Current < nextId
      BY <1>0 DEF OwnInv, Fresh, TInv, TypeOK, Conn
    <2>5. Fresh'
      BY <1>0, <2>1, <2>4 DEF OwnInv, Fresh, Listed, Conn
    <2>6. Distinct' /\ AtIsInside'
      BY <1>0, <2>1 DEF OwnInv, Distinct, AtIsInside
    <2>7. NotYetPushed'
      BY <2>1, <2>2 DEF OwnInv, NotYetPushed, Live
    <2>8. PushedOnce'
      <3> SUFFICES ASSUME NEW c \in Conn, Live(c), kind'[c] # "none"
                   PROVE  pushes[c] = 1 \/ (pushes[c] = 0 /\ Current = c)
        BY <2>1 DEF PushedOnce, Live, Current, Worker
      <3>1. CASE c = Current
        BY <3>1, <2>2
      <3>2. CASE c # Current
        BY <3>2, <1>0, <2>1 DEF OwnInv, PushedOnce, Worker
      <3> QED BY <3>1, <3>2
    <2>9. Unread'
      <3> SUFFICES ASSUME NEW i \in 1 .. Len(connections), Live(connections[i])
                   PROVE  /\ i > iA => kind'[connections[i]] = "none"
                          /\ i = iA => pushes[connections[i]] = 0
        BY <1>0, <2>1 DEF Unread, StillUnclassified, KeptOpen, Live, Worker
      <3>1. CASE i = iA
        BY <3>1, <1>0, <2>2 DEF Current
      <3>2. CASE i > iA
        <4>1. connections[i] # Current /\ connections[i] \in Conn
          BY <3>2, <1>0, <2>3
        <4>2. kind[connections[i]] = "none"
          BY <3>2, <1>0 DEF OwnInv, Unread, StillUnclassified
        <4> QED BY <3>2, <4>1, <4>2, <2>1
      <3> QED BY <3>1, <3>2, <1>0
    <2>10. UnclassifiedConfined'
      BY <1>0, <2>1, <2>2 DEF OwnInv, UnclassifiedConfined, Live, Listed
    <2>11. OwnKindOnly'
      BY <2>1, <2>2 DEF OwnInv, OwnKindOnly, Live, Listed
    <2> QED BY <2>5, <2>6, <2>7, <2>8, <2>9, <2>10, <2>11 DEF OwnInv
  <1> QED BY <1>1, <1>2

(* The push to a worker's list keeps the ownership, also when it is lost. *)
LEMMA OwnAcceptPush ==
  ASSUME OwnInv, TInv', NEW w \in Worker, AcceptPush(w)
  PROVE  OwnInv'
  <1>0. /\ connections \in Seq(Conn) /\ iA \in Nat \ {0} /\ pcA = w
        /\ iA \in 1 .. Len(connections) /\ Current \in Conn
        /\ Current \in ToSet(connections)
    <2>1. pcA = w /\ iA <= Len(connections)
      BY DEF AcceptPush, AtElement
    <2>2. connections \in Seq(Conn) /\ iA \in Nat \ {0}
      BY DEF OwnInv, TInv, TypeOK
    <2>3. iA \in 1 .. Len(connections)
      BY <2>1, <2>2
    <2> QED BY <2>1, <2>2, <2>3 DEF Current, ToSet
  <1>1. /\ UNCHANGED <<obj, kind, closeReq, nextId, connections>>
        /\ w = "main" => pcA' = "file" /\ iA' = iA
        /\ w = "file" => pcA' = "read" /\ iA' = iA + 1
    BY DEF AcceptPush, AfterHandOver
  <1>2. \A c \in Conn : c # Current => pushes'[c] = pushes[c]
    BY <1>0 DEF AcceptPush, Push, OwnInv, TInv, TypeOK
  <1>3. pushes'[Current] = pushes[Current] + 1
    BY <1>0 DEF AcceptPush, Push, OwnInv, TInv, TypeOK
  <1>4. Live(Current) => kind[Current] = w /\ pushes[Current] = 0
    <2>1. Live(Current) => kind[Current] = w
      BY DEF AcceptPush, MayBe, HasKind, Freed, Live
    <2> QED BY <1>0, <2>1 DEF OwnInv, Unread, Current, Worker
  <1>5. \A v \in Worker, c \in Conn :
          Listed(c, v)' => Listed(c, v) \/ (c = Current /\ v = w)
    <2>1. pc[w] = "shrink" => Len(list[w]) > 0
      BY DEF OwnInv, TInv, PositionsStand, TypeOK
    <2>2. /\ \A v \in Worker : v # w => list'[v] = list[v]
          /\ ToSet(list'[w]) \subseteq ToSet(list[w]) \cup {Current}
      BY <1>0, <2>1, PushElements DEF AcceptPush, OwnInv, TInv
    <2> QED BY <2>2 DEF Listed
  <1>6. Fresh'
    <2>1. Current < nextId
      BY <1>0 DEF OwnInv, Fresh, TInv, TypeOK, Conn
    <2>2. nextId \in Nat /\ Current \in Nat
      BY <1>0 DEF OwnInv, TInv, TypeOK, Conn
    <2>3. ASSUME NEW c \in Conn, c >= nextId
          PROVE  /\ kind[c] = "none" /\ ~closeReq[c] /\ pushes'[c] = 0
                 /\ c \notin ToSet(connections)
                 /\ \A v \in Worker : ~Listed(c, v)'
      <3>1. c # Current
        BY <2>1, <2>2, <2>3
      <3> QED BY <2>3, <3>1, <1>2, <1>5 DEF OwnInv, Fresh
    <2> QED BY <1>1, <2>3 DEF OwnInv, Fresh
  <1>7. Distinct' /\ AtIsInside'
    BY <1>0, <1>1 DEF OwnInv, Distinct, AtIsInside, Worker
  <1>8. NotYetPushed'
    BY <1>1, <1>2, <1>4 DEF OwnInv, NotYetPushed, Live, Worker
  <1>9. PushedOnce'
    <2> SUFFICES ASSUME NEW c \in Conn, Live(c), kind[c] # "none"
                 PROVE  pushes'[c] = 1
      BY <1>1 DEF PushedOnce, Live
    <2>1. CASE c = Current
      BY <2>1, <1>3, <1>4
    <2>2. CASE c # Current
      BY <2>2, <1>2 DEF OwnInv, PushedOnce
    <2> QED BY <2>1, <2>2
  <1>10. Unread'
    <2> SUFFICES ASSUME NEW i \in 1 .. Len(connections), Live(connections[i])
                 PROVE  /\ i > iA => kind[connections[i]] = "none"
                        /\ w = "main" /\ i = iA =>
                             kind[connections[i]] # "file"
      BY <1>0, <1>1 DEF Unread, StillUnclassified, KeptOpen, Live, Worker
    <2>1. CASE i > iA
      BY <2>1, <1>0 DEF OwnInv, Unread, StillUnclassified
    <2>2. CASE i = iA
      BY <2>2, <1>4 DEF Current
    <2> QED BY <2>1, <2>2, <1>0
  <1>11. UnclassifiedConfined'
    BY <1>0, <1>1, <1>4, <1>5 DEF OwnInv, UnclassifiedConfined, Live, Worker
  <1>12. OwnKindOnly'
    BY <1>1, <1>4, <1>5 DEF OwnInv, OwnKindOnly, Live
  <1> QED BY <1>6, <1>7, <1>8, <1>9, <1>10, <1>11, <1>12 DEF OwnInv

(* Passing over a connection keeps the ownership. *)
LEMMA OwnAcceptNoPush ==
  ASSUME OwnInv, TInv', NEW w \in Worker, AcceptNoPush(w)
  PROVE  OwnInv'
  <1>0. /\ connections \in Seq(Conn) /\ iA \in Nat \ {0} /\ pcA = w
        /\ iA \in 1 .. Len(connections) /\ Current \in Conn
    BY DEF OwnInv, TInv, TypeOK, AcceptNoPush, AtElement, Current
  <1>1. /\ UNCHANGED <<obj, kind, closeReq, pushes, nextId, connections, list>>
        /\ w = "main" => pcA' = "file" /\ iA' = iA
        /\ w = "file" => pcA' = "read" /\ iA' = iA + 1
    BY DEF AcceptNoPush, AfterHandOver, listVars
  <1>2. Live(Current) => kind[Current] # w
    BY DEF AcceptNoPush, MayBe, HasKind, Freed, Live
  <1>3. PushedOnce'
    <2> SUFFICES ASSUME NEW c \in Conn, Live(c), kind[c] # "none",
                        pushes[c] # 1
                 PROVE  /\ pushes[c] = 0 /\ w = "main" /\ Current = c
                        /\ kind[c] = "file"
      BY <1>1 DEF PushedOnce, Live, Current, Worker
    <2>1. /\ pushes[c] = 0 /\ Current = c
          /\ pcA = "file" => kind[c] = "file"
      BY DEF OwnInv, PushedOnce
    <2>2. kind[c] \in Worker
      BY DEF OwnInv, TInv, TypeOK
    <2> QED BY <1>0, <1>2, <2>1, <2>2 DEF Worker
  <1>4. Unread'
    <2> SUFFICES ASSUME NEW i \in 1 .. Len(connections), Live(connections[i])
                 PROVE  /\ i > iA => kind[connections[i]] = "none"
                        /\ w = "main" /\ i = iA => pushes[connections[i]] = 0
      BY <1>0, <1>1 DEF Unread, StillUnclassified, KeptOpen, Live, Worker
    <2>1. CASE i > iA
      BY <2>1, <1>0 DEF OwnInv, Unread, StillUnclassified
    <2>2. CASE i = iA
      BY <2>2, <1>0 DEF OwnInv, Unread
    <2> QED BY <2>1, <2>2, <1>0
  <1>5. AtIsInside'
    BY <1>0, <1>1 DEF AtIsInside, Worker
  <1> QED BY <1>1, <1>3, <1>4, <1>5, MoveFrame

(* A step that changes nothing keeps the ownership. *)
LEMMA OwnStutter == OwnInv /\ TInv' /\ UNCHANGED vars => OwnInv'
  <1> SUFFICES ASSUME OwnInv, TInv', UNCHANGED vars PROVE OwnInv'
    OBVIOUS
  <1>1. UNCHANGED <<obj, kind, closeReq, pushes, nextId, connections, pcA, iA,
                    list>>
    BY DEF vars, connVars, acceptVars, listVars
  <1> QED BY <1>1, WorkerFrame

(* Every step keeps the ownership. *)
LEMMA OwnNext == OwnInv /\ [Next]_vars => OwnInv'
  <1> SUFFICES ASSUME OwnInv, [Next]_vars PROVE OwnInv'
    OBVIOUS
  <1>1. TInv'
    BY TypeNext DEF OwnInv
  <1>2. CASE AcceptBuild
    BY <1>1, <1>2, OwnAcceptBuild
  <1>3. CASE AcceptWait
    BY <1>1, <1>3, OwnAcceptWait
  <1>4. CASE AcceptRead
    BY <1>1, <1>4, OwnAcceptReadMoves, OwnAcceptClassify, OwnAcceptPush,
       OwnAcceptNoPush DEF AcceptRead
  <1>5. ASSUME NEW w \in Worker,
               WorkerBuild(w) \/ WorkerRead(w) \/ WorkerHandler(w)
        PROVE  OwnInv'
    BY <1>1, <1>5, OwnWorker
  <1>6. CASE UNCHANGED vars
    BY <1>1, <1>6, OwnStutter
  <1> QED BY <1>2, <1>3, <1>4, <1>5, <1>6 DEF Next, Acceptor

(* Who may hold a connection, in every reachable state and for any number of *)
(* connections: the acceptor alone until it is classified, then also, once,  *)
(* the list of its kind; and the threads' positions agree with the lists.    *)
THEOREM Ownership == Spec => []OwnInv
  BY OwnInit, OwnNext, PTL DEF Spec

(* A live connection is where its kind says: the acceptor's alone before it *)
(* is classified, and then served by the thread of the kind it announced,   *)
(* in every interleaving and for any number of connections.                 *)
THEOREM ListsMatchKinds == Spec => []ListMatchesKind
  <1>1. OwnInv => ListMatchesKind
    BY DEF OwnInv, UnclassifiedConfined, OwnKindOnly, ListMatchesKind
  <1> QED BY <1>1, Ownership, PTL

(* The acceptor hands a live connection over exactly once. *)
THEOREM ExactlyOneHandOver == Spec => []HandedOverOnce
  <1>1. OwnInv => HandedOverOnce
    <2> SUFFICES ASSUME OwnInv, NEW c \in Conn, Live(c)
                 PROVE  /\ pushes[c] <= 1
                        /\ kind[c] # "none" /\ pushes[c] = 0
                             => pcA \in Worker /\ Current = c
      BY DEF HandedOverOnce
    <2>1. CASE kind[c] = "none"
      BY <2>1 DEF OwnInv, NotYetPushed
    <2>2. CASE kind[c] # "none"
      BY <2>2 DEF OwnInv, PushedOnce
    <2> QED BY <2>1, <2>2
  <1> QED BY <1>1, Ownership, PTL

(* Whenever the acceptor waits, it holds only what is still its own. *)
THEOREM AcceptorHoldsOnlyItsOwn == Spec => []AcceptorLetsGo
  <1>1. OwnInv => AcceptorLetsGo
    <2> SUFFICES ASSUME OwnInv, pcA = "select", NEW c \in ToSet(connections),
                        Live(c)
                 PROVE  kind[c] = "none" /\ ~closeReq[c]
      BY DEF AcceptorLetsGo
    <2>1. PICK i \in 1 .. Len(connections) : c = connections[i]
      BY DEF ToSet, OwnInv, TInv, TypeOK
    <2> QED BY <2>1 DEF OwnInv, Unread, StillUnclassified, KeptOpen
  <1> QED BY <1>1, Ownership, PTL

(* No thread frees a connection unless its close was requested before, and  *)
(* a connection stays open or freed for good: identifiers are not reused.   *)
FreedOnlyOnRequest ==
  [][\A c \in Conn : obj'[c] # obj[c] =>
       \/ obj[c] = "absent" /\ obj'[c] = "live"
       \/ obj[c] = "live" /\ obj'[c] = "freed" /\ closeReq[c]]_vars

(* An object is freed only after its close was requested, and an identifier *)
(* never comes back to life, for every interleaving of the three threads.   *)
THEOREM OnlyRequestedClosesFree == Spec => FreedOnlyOnRequest
  <1> DEFINE Change(c) ==
        \/ obj[c] = "absent" /\ obj'[c] = "live"
        \/ obj[c] = "live" /\ obj'[c] = "freed" /\ closeReq[c]
  <1>1. OwnInv /\ [Next]_vars =>
          [\A c \in Conn : obj'[c] # obj[c] => Change(c)]_vars
    <2> SUFFICES ASSUME OwnInv, Next, NEW c \in Conn, obj'[c] # obj[c]
                 PROVE  Change(c)
      OBVIOUS
    <2>0. obj \in [Conn -> {"absent", "live", "freed"}]
      BY DEF OwnInv, TInv, TypeOK
    <2>1. CASE AcceptDelete
      <3>1. ~Freed(Current) /\ obj' = [obj EXCEPT ![Current] = "freed"]
        BY <2>1 DEF AcceptDelete, Die, connVars
      <3>2. Current = c /\ Current \in ToSet(connections)
        BY <2>0, <2>1, <3>1 DEF AcceptDelete, AtElement, Current, ToSet, OwnInv,
           TInv, TypeOK
      <3>3. obj[c] = "live" /\ closeReq[c] /\ obj'[c] = "freed"
        BY <2>0, <2>1, <3>1, <3>2 DEF AcceptDelete, MayClose, MayBe, Freed,
           OwnInv, Fresh
      <3> QED BY <3>3
    <2>2. CASE AcceptNew
      BY <2>0, <2>2 DEF AcceptNew, OwnInv, Fresh
    <2>3. ASSUME NEW w \in Worker, Delete(w)
          PROVE  Change(c)
      <3>1. ~Freed(Element(w)) /\ obj' = [obj EXCEPT ![Element(w)] = "freed"]
        BY <2>3 DEF Delete, Die, connVars
      <3>2. Element(w) = c /\ Listed(c, w)
        BY <2>0, <2>3, <3>1 DEF Delete, Element, Listed, ToSet, OwnInv, TInv,
           TypeOK
      <3>3. obj[c] = "live" /\ closeReq[c] /\ obj'[c] = "freed"
        BY <2>0, <2>3, <3>1, <3>2 DEF Delete, MayClose, MayBe, Freed, OwnInv,
           Fresh
      <3> QED BY <3>3
    <2>4. \/ AcceptDelete \/ AcceptNew \/ \E w \in Worker : Delete(w)
          \/ UNCHANGED obj
      BY DEF Next, Acceptor, AcceptBuild, AcceptWait, AcceptRead, WorkerBuild,
         WorkerRead, WorkerHandler, AcceptDrop, AcceptKeep, AcceptBuildEnd,
         AcceptSelect, AcceptSelectFails, AcceptFail, AcceptRestart, AcceptSkip,
         AcceptIsClassified, AcceptClassify, ToHandOver, AcceptPush,
         AcceptNoPush, AfterHandOver, AcceptReadEnd, BuildBegin, BuildKeep,
         Shrink, BuildEnd, StaleIterator, Select, SelectFails, ReadSkip, Handle,
         RequestClose, Return, DanglingAccess, ReadEnd, Die, connVars
    <2> QED BY <2>1, <2>2, <2>3, <2>4
  <1> QED BY <1>1, Ownership, PTL DEF Spec, FreedOnlyOnRequest

-----------------------------------------------------------------------------
(* What a worker watches.  That a live connection of its set stays in its    *)
(* list through an erase the acceptor's push races with rests on the last    *)
(* element being a spare one while the erase is half done, and on a          *)
(* connection that is being pushed not having been in the list before.       *)

(* A live connection in a worker's list has been handed over. *)
ListedWasPushed ==
  \A w \in Worker, c \in Conn : Live(c) /\ Listed(c, w) => pushes[c] # 0

(* A worker's set holds connections that have been accepted. *)
WatchedExist == \A w \in Worker : \A c \in set[w] : obj[c] # "absent"

(* While the end of a list is about to move back, whatever live connection  *)
(* the worker watches stands before the last element.                       *)
LastIsSpare ==
  \A w \in Worker : pc[w] = "shrink" =>
    \A c \in set[w] : Live(c) => c \in ToSet(Front(list[w]))

WatchInv ==
  OwnInv /\ ListedWasPushed /\ WatchedExist /\ LastIsSpare /\ WatchedIsListed

(* The first half of an erase leaves every other element before the last. *)
LEMMA MovedDownKeeps ==
  ASSUME NEW S, NEW s \in Seq(S), NEW i \in 1 .. Len(s)
  PROVE  \A x \in ToSet(s) : x # s[i] => x \in ToSet(Front(MovedDown(s, i)))
  <1> DEFINE t == MovedDown(s, i)
             f == Front(t)
  <1>1. /\ t \in Seq(S) /\ Len(t) = Len(s) /\ Len(t) > 0
        /\ \A k \in 1 .. Len(s) - 1 : t[k] = IF k < i THEN s[k] ELSE s[k + 1]
    BY MovedDownElements DEF MovedDown
  <1> HIDE DEF t
  <1>2. /\ f \in Seq(S) /\ Len(f) = Len(s) - 1
        /\ \A k \in 1 .. Len(s) - 1 : f[k] = t[k]
    BY <1>1, FrontElements
  <1> HIDE DEF f
  <1> SUFFICES ASSUME NEW k \in 1 .. Len(s), s[k] # s[i]
               PROVE  s[k] \in ToSet(f)
    BY DEF f, t, ToSet
  <1>3. CASE k < i
    <2>1. k \in 1 .. Len(f) /\ f[k] = s[k]
      BY <1>1, <1>2, <1>3
    <2> QED BY <2>1 DEF ToSet
  <1>4. CASE k > i
    <2> DEFINE j == k - 1
    <2>1. j \in 1 .. Len(f) /\ f[j] = s[k]
      BY <1>1, <1>2, <1>4
    <2> HIDE DEF j
    <2> QED BY <2>1 DEF ToSet
  <1> QED BY <1>3, <1>4

(* The server starts with nothing watched and nothing listed. *)
LEMMA WatchInit == Init => WatchInv
  BY OwnInit DEF Init, WatchInv, ListedWasPushed, WatchedExist, LastIsSpare,
     WatchedIsListed, Live

(* A step that keeps the lists and brings nothing to life, keeps the rest.  *)
LEMMA WatchFrame ==
  ASSUME WatchInv, OwnInv', UNCHANGED <<pushes, list>>,
         \A c \in Conn : obj'[c] = obj[c] \/ (Live(c) /\ obj'[c] = "freed"),
         \A w \in Worker : set'[w] \subseteq set[w],
         \A w \in Worker : pc'[w] = "shrink" => pc[w] = "shrink"
  PROVE  WatchInv'
  <1>0. set \in [Worker -> SUBSET Conn] /\ set' \in [Worker -> SUBSET Conn]
    BY DEF WatchInv, OwnInv, TInv, TypeOK
  <1>1. \A c \in Conn : Live(c)' => Live(c)
    BY DEF Live
  <1>2. ListedWasPushed'
    BY <1>1 DEF WatchInv, ListedWasPushed, Listed
  <1>3. WatchedExist'
    BY <1>0 DEF WatchInv, WatchedExist, Live
  <1>4. LastIsSpare'
    BY <1>0, <1>1 DEF WatchInv, LastIsSpare
  <1>5. WatchedIsListed'
    BY <1>0, <1>1 DEF WatchInv, WatchedIsListed, Listed
  <1> QED BY <1>2, <1>3, <1>4, <1>5 DEF WatchInv

(* An accepted connection is new: nobody watches or lists it. *)
LEMMA WatchAcceptNew ==
  ASSUME WatchInv, OwnInv', AcceptNew
  PROVE  WatchInv'
  <1>0. /\ UNCHANGED <<pushes, list, set, pc>> /\ nextId \in Conn
        /\ set \in [Worker -> SUBSET Conn]
        /\ obj \in [Conn -> {"absent", "live", "freed"}]
        /\ obj' = [obj EXCEPT ![nextId] = "live"]
        /\ list \in [Worker -> Seq(Conn)]
    BY DEF AcceptNew, WatchInv, OwnInv, TInv, TypeOK, listVars, workerVars, Conn
  <1>1. obj[nextId] = "absent" /\ \A w \in Worker : ~Listed(nextId, w)
    BY <1>0 DEF WatchInv, OwnInv, Fresh, Conn
  <1>2. \A c \in Conn : c # nextId => obj'[c] = obj[c]
    BY <1>0
  <1>3. \A w \in Worker : nextId \notin set[w]
    BY <1>1 DEF WatchInv, WatchedExist
  <1>4. ListedWasPushed'
    BY <1>0, <1>1, <1>2 DEF WatchInv, ListedWasPushed, Listed, Live
  <1>5. WatchedExist'
    BY <1>0, <1>2, <1>3 DEF WatchInv, WatchedExist
  <1>6. LastIsSpare'
    <2> SUFFICES ASSUME NEW w \in Worker, pc[w] = "shrink", NEW c \in set[w],
                        Live(c)'
                 PROVE  c \in ToSet(Front(list[w]))
      BY <1>0 DEF LastIsSpare
    <2>1. c \in Conn /\ c # nextId
      BY <1>0, <1>3
    <2> QED BY <1>2, <2>1 DEF WatchInv, LastIsSpare, Live
  <1>7. WatchedIsListed'
    BY <1>0, <1>2, <1>3 DEF WatchInv, WatchedIsListed, Listed, Live
  <1> QED BY <1>4, <1>5, <1>6, <1>7 DEF WatchInv

(* A push brings in a connection that was not in the list; what it may lose *)
(* is that connection and the spare last element.                           *)
LEMMA WatchAcceptPush ==
  ASSUME WatchInv, OwnInv', NEW v \in Worker, AcceptPush(v)
  PROVE  WatchInv'
  <1>0. /\ list \in [Worker -> Seq(Conn)] /\ set \in [Worker -> SUBSET Conn]
        /\ pc \in [Worker -> {"top", "build", "shrink", "select", "read",
                              "handle", "closing", "dead"}]
        /\ pushes \in [Conn -> Nat]
        /\ pc[v] = "shrink" => Len(list[v]) > 0
    BY SMTT(30) DEF WatchInv, OwnInv, TInv, PositionsStand, TypeOK
  <1>1. Current \in Conn /\ Current \in ToSet(connections) /\ pcA = v
        /\ iA \in 1 .. Len(connections)
    <2>1. pcA = v /\ iA <= Len(connections)
      BY DEF AcceptPush, AtElement
    <2>2. connections \in Seq(Conn) /\ iA \in Nat \ {0}
      BY DEF WatchInv, OwnInv, TInv, TypeOK
    <2>3. iA \in 1 .. Len(connections)
      BY <2>1, <2>2
    <2> QED BY <2>1, <2>2, <2>3 DEF Current, ToSet
  <1>2. /\ UNCHANGED <<obj, set>>
        /\ \A c \in Conn : c # Current => pushes'[c] = pushes[c]
        /\ pushes'[Current] # 0
    BY <1>0, <1>1 DEF AcceptPush, Push, AfterHandOver
  <1>3. PICK l \in Seq(Conn) :
          /\ list' = [list EXCEPT ![v] = l]
          /\ \/ l = Append(list[v], Current) /\ pc' = pc
             \/ /\ pc[v] = "shrink"
                /\ pc' = [pc EXCEPT ![v] = "build"]
                /\ l = Append(list[v], Current) \/ l = Front(list[v])
    <2>1. Append(list[v], Current) \in Seq(Conn)
      BY <1>0, <1>1
    <2>2. pc[v] = "shrink" => Front(list[v]) \in Seq(Conn)
      BY <1>0, FrontElements
    <2> QED BY <1>0, <1>1, <2>1, <2>2 DEF AcceptPush, Push
  <1>4. Live(Current) => Current \notin set[v]
    <2>1. Live(Current) => kind[Current] = v /\ pushes[Current] = 0
      <3>1. Live(Current) => kind[Current] = v
        BY DEF AcceptPush, MayBe, HasKind, Freed, Live
      <3> QED BY <1>1, <3>1 DEF WatchInv, OwnInv, Unread, Current, Worker
    <2>2. Live(Current) => ~Listed(Current, v)
      BY <1>1, <2>1 DEF WatchInv, ListedWasPushed
    <2> QED BY <1>1, <2>2 DEF WatchInv, WatchedIsListed
  <1>5. /\ ToSet(Append(list[v], Current)) = ToSet(list[v]) \cup {Current}
        /\ ToSet(l) \subseteq ToSet(list[v]) \cup {Current}
        /\ pc[v] = "shrink" => ToSet(Front(list[v])) \subseteq ToSet(list[v])
    <2>1. ToSet(Append(list[v], Current)) = ToSet(list[v]) \cup {Current}
      BY <1>0, <1>1, AppendSet
    <2>2. pc[v] = "shrink" => ToSet(Front(list[v])) \subseteq ToSet(list[v])
      BY <1>0, FrontSet
    <2> QED BY <1>3, <2>1, <2>2
  <1>6. \A w \in Worker : w # v => list'[w] = list[w] /\ pc'[w] = pc[w]
    BY <1>0, <1>3
  <1>7. list'[v] = l
    BY <1>0, <1>3
  <1>8. ListedWasPushed'
    BY <1>1, <1>2, <1>5, <1>6, <1>7 DEF WatchInv, ListedWasPushed, Listed, Live
  <1>9. WatchedExist'
    BY <1>2 DEF WatchInv, WatchedExist
  <1>10. LastIsSpare'
    <2> SUFFICES ASSUME NEW w \in Worker, pc'[w] = "shrink", NEW c \in set[w],
                        Live(c)
                 PROVE  c \in ToSet(Front(list'[w]))
      BY <1>2 DEF LastIsSpare, Live
    <2>1. CASE w # v
      BY <2>1, <1>6 DEF WatchInv, LastIsSpare
    <2>2. CASE w = v
      <3>1. pc[v] = "shrink" /\ l = Append(list[v], Current)
        BY <2>2, <1>0, <1>3
      <3>2. Front(l) = list[v]
        BY <3>1, <1>0, <1>1, AppendFront
      <3>3. c \in ToSet(list[v])
        BY <2>2, <1>0 DEF WatchInv, WatchedIsListed, Listed
      <3> QED BY <2>2, <3>2, <3>3, <1>7
    <2> QED BY <2>1, <2>2
  <1>11. WatchedIsListed'
    <2> SUFFICES ASSUME NEW w \in Worker, NEW c \in Conn, Live(c), c \in set[w]
                 PROVE  c \in ToSet(list'[w])
      BY <1>2 DEF WatchedIsListed, Listed, Live
    <2>1. CASE w # v
      BY <2>1, <1>6 DEF WatchInv, WatchedIsListed, Listed
    <2>2. CASE w = v /\ l = Append(list[v], Current)
      BY <2>2, <1>5, <1>7 DEF WatchInv, WatchedIsListed, Listed
    <2>3. CASE w = v /\ l # Append(list[v], Current)
      BY <2>3, <1>3, <1>7 DEF WatchInv, LastIsSpare
    <2> QED BY <2>1, <2>2, <2>3
  <1> QED BY <1>8, <1>9, <1>10, <1>11 DEF WatchInv

(* A worker's own steps: only the erase changes its list. *)
LEMMA WatchWorker ==
  ASSUME WatchInv, OwnInv', NEW w \in Worker,
         WorkerBuild(w) \/ WorkerRead(w) \/ WorkerHandler(w)
  PROVE  WatchInv'
  <1> USE DEF acceptVars, connVars, listVars, workerVars
  <1>0. /\ list \in [Worker -> Seq(Conn)] /\ set \in [Worker -> SUBSET Conn]
        /\ pos \in [Worker -> Nat \ {0}]
        /\ obj \in [Conn -> {"absent", "live", "freed"}]
        /\ pc \in [Worker -> {"top", "build", "shrink", "select", "read",
                              "handle", "closing", "dead"}]
    BY DEF WatchInv, OwnInv, TInv, TypeOK
  <1>1. CASE Delete(w) /\ ~Freed(Element(w))
    <2>1. pos[w] \in 1 .. Len(list[w]) /\ list[w] \in Seq(Conn)
      BY <1>0, <1>1 DEF Delete
    <2>2. Element(w) \in Conn /\ Element(w) = list[w][pos[w]]
      BY <2>1 DEF Element
    <2> DEFINE m == MovedDown(list[w], pos[w])
    <2>3. /\ m \in Seq(Conn) /\ Len(m) = Len(list[w]) /\ Len(m) > 0
          /\ ToSet(m) \subseteq ToSet(list[w])
          /\ \A x \in ToSet(list[w]) :
               x # list[w][pos[w]] => x \in ToSet(Front(m))
      BY <2>1, MovedDownElements, MovedDownKeeps
    <2>4. /\ obj' = [obj EXCEPT ![Element(w)] = "freed"]
          /\ list' = [list EXCEPT ![w] = m]
          /\ pc' = [pc EXCEPT ![w] = "shrink"]
          /\ UNCHANGED <<set, pushes>>
      BY <1>0, <1>1 DEF Delete
    <2> HIDE DEF m
    <2>5. ToSet(Front(m)) \subseteq ToSet(m)
      BY <2>3, FrontSet
    <2>6. \A c \in Conn : Live(c)' => Live(c) /\ c # Element(w)
      BY <1>0, <2>2, <2>4 DEF Live
    <2>7. list'[w] = m /\ \A v \in Worker : v # w => list'[v] = list[v]
                                                /\ pc'[v] = pc[v]
      BY <1>0, <2>4
    <2>8. ListedWasPushed'
      BY <2>3, <2>4, <2>6, <2>7 DEF WatchInv, ListedWasPushed, Listed
    <2>9. WatchedExist'
      BY <1>0, <2>2, <2>4 DEF WatchInv, WatchedExist
    <2>10. \A c \in set[w] : Live(c)' => c \in ToSet(Front(m))
      BY <1>0, <2>2, <2>3, <2>6 DEF WatchInv, WatchedIsListed, Listed
    <2>11. LastIsSpare'
      BY <1>0, <2>4, <2>6, <2>7, <2>10 DEF WatchInv, LastIsSpare
    <2>12. WatchedIsListed'
      BY <1>0, <2>4, <2>5, <2>6, <2>7, <2>10 DEF WatchInv, WatchedIsListed,
         Listed
    <2> QED BY <2>8, <2>9, <2>11, <2>12 DEF WatchInv
  <1>2. CASE Shrink(w)
    <2>1. list[w] \in Seq(Conn) /\ Len(list[w]) > 0 /\ pc[w] = "shrink"
      BY <1>0, <1>2 DEF Shrink, WatchInv, OwnInv, TInv, PositionsStand
    <2>2. ToSet(Front(list[w])) \subseteq ToSet(list[w])
      BY <2>1, FrontSet
    <2>3. /\ list' = [list EXCEPT ![w] = Front(list[w])]
          /\ pc' = [pc EXCEPT ![w] = "build"]
          /\ UNCHANGED <<obj, set, pushes>>
      BY <1>0, <1>2 DEF Shrink
    <2>4. /\ list'[w] = Front(list[w]) /\ pc'[w] = "build"
          /\ \A v \in Worker : v # w => list'[v] = list[v] /\ pc'[v] = pc[v]
      BY <1>0, <2>3
    <2>5. ListedWasPushed'
      BY <2>2, <2>3, <2>4 DEF WatchInv, ListedWasPushed, Listed, Live
    <2>6. WatchedExist'
      BY <2>3 DEF WatchInv, WatchedExist
    <2>7. LastIsSpare'
      BY <2>3, <2>4 DEF WatchInv, LastIsSpare, Live
    <2>8. WatchedIsListed'
      BY <1>0, <2>1, <2>3, <2>4 DEF WatchInv, WatchedIsListed, LastIsSpare,
         Listed, Live
    <2> QED BY <2>5, <2>6, <2>7, <2>8 DEF WatchInv
  <1>3. CASE BuildKeep(w)
    <2>1. pos[w] \in 1 .. Len(list[w]) /\ list[w] \in Seq(Conn)
      BY <1>0, <1>3 DEF BuildKeep
    <2>2. Element(w) \in Conn /\ Listed(Element(w), w)
      BY <2>1 DEF Element, Listed, ToSet
    <2>3. /\ UNCHANGED <<obj, pushes, list, pc>> /\ pc[w] = "build"
          /\ set'[w] = set[w] \cup {Element(w)}
          /\ \A v \in Worker : v # w => set'[v] = set[v]
      BY <1>0, <1>3 DEF BuildKeep, Building
    <2>4. obj[Element(w)] # "absent"
      BY <2>2 DEF WatchInv, OwnInv, Fresh
    <2>5. ListedWasPushed'
      BY <2>3 DEF WatchInv, ListedWasPushed, Listed, Live
    <2>6. WatchedExist'
      BY <2>3, <2>4 DEF WatchInv, WatchedExist
    <2>7. LastIsSpare'
      BY <2>3 DEF WatchInv, LastIsSpare, Live
    <2>8. WatchedIsListed'
      BY <2>2, <2>3 DEF WatchInv, WatchedIsListed, Listed, Live
    <2> QED BY <2>5, <2>6, <2>7, <2>8 DEF WatchInv
  <1>4. CASE /\ UNCHANGED <<obj, pushes, list>>
             /\ \A v \in Worker : set'[v] \subseteq set[v]
             /\ \A v \in Worker : pc'[v] = "shrink" => pc[v] = "shrink"
    BY <1>4, WatchFrame
  <1>5. CASE BuildBegin(w)
    BY <1>0, <1>5, <1>4 DEF BuildBegin
  <1>6. CASE Select(w)
    BY <1>0, <1>6, <1>4 DEF Select
  <1>7. CASE /\ UNCHANGED <<obj, pushes, list, set>>
             /\ pc' = pc \/ \E p \in {"select", "read", "handle", "closing",
                                      "top", "dead"} :
                              pc' = [pc EXCEPT ![w] = p]
    BY <1>0, <1>7, <1>4
  <1>8. \/ (Delete(w) /\ ~Freed(Element(w))) \/ Shrink(w) \/ BuildKeep(w)
        \/ BuildBegin(w) \/ Select(w)
        \/ /\ UNCHANGED <<obj, pushes, list, set>>
           /\ pc' = pc \/ \E p \in {"select", "read", "handle", "closing",
                                    "top", "dead"} :
                            pc' = [pc EXCEPT ![w] = p]
    BY DEF WorkerBuild, WorkerRead, WorkerHandler, Delete, BuildEnd,
       StaleIterator, SelectFails, ReadSkip, Handle, ReadEnd, RequestClose,
       Return, DanglingAccess, Die
  <1> QED BY <1>1, <1>2, <1>3, <1>5, <1>6, <1>7, <1>8

(* Every other step of the acceptor leaves the workers' lists and sets. *)
LEMMA WatchAcceptor ==
  ASSUME WatchInv, OwnInv', Acceptor
  PROVE  WatchInv'
  <1>1. CASE AcceptDelete /\ ~Freed(Current)
    <2>1. /\ obj' = [obj EXCEPT ![Current] = "freed"]
          /\ UNCHANGED <<pushes, list, set, pc>>
      BY <1>1 DEF AcceptDelete, listVars, workerVars
    <2>2. /\ obj \in [Conn -> {"absent", "live", "freed"}]
          /\ Current \in Conn /\ Current \in ToSet(connections)
      BY <1>1 DEF AcceptDelete, AtElement, Current, ToSet, WatchInv, OwnInv,
         TInv, TypeOK
    <2>3. Live(Current)
      BY <1>1, <2>2 DEF WatchInv, OwnInv, Fresh, Live, Freed
    <2>4. \A c \in Conn : obj'[c] = obj[c] \/ (Live(c) /\ obj'[c] = "freed")
      BY <2>1, <2>2, <2>3
    <2> QED BY <2>1, <2>4, WatchFrame
  <1>2. CASE AcceptNew
    BY <1>2, WatchAcceptNew
  <1>3. ASSUME NEW w \in Worker, AcceptPush(w)
        PROVE  WatchInv'
    BY <1>3, WatchAcceptPush
  <1>4. CASE UNCHANGED <<obj, pushes, list, set, pc>>
    BY <1>4, WatchFrame
  <1>5. \/ (AcceptDelete /\ ~Freed(Current)) \/ AcceptNew
        \/ \E w \in Worker : AcceptPush(w)
        \/ UNCHANGED <<obj, pushes, list, set, pc>>
    BY DEF Acceptor, AcceptBuild, AcceptWait, AcceptRead, AcceptDelete,
       AcceptDrop, AcceptKeep, AcceptBuildEnd, AcceptSelect, AcceptSelectFails,
       AcceptFail, AcceptRestart, AcceptSkip, AcceptIsClassified,
       AcceptClassify, ToHandOver, AcceptNoPush, AfterHandOver, AcceptReadEnd,
       Die, connVars, acceptVars, listVars, workerVars
  <1> QED BY <1>1, <1>2, <1>3, <1>4, <1>5

(* Every step keeps what the workers watch. *)
LEMMA WatchNext == WatchInv /\ [Next]_vars => WatchInv'
  <1> SUFFICES ASSUME WatchInv, [Next]_vars PROVE WatchInv'
    OBVIOUS
  <1>1. OwnInv'
    BY OwnNext DEF WatchInv
  <1>2. CASE Acceptor
    BY <1>1, <1>2, WatchAcceptor
  <1>3. ASSUME NEW w \in Worker,
               WorkerBuild(w) \/ WorkerRead(w) \/ WorkerHandler(w)
        PROVE  WatchInv'
    BY <1>1, <1>3, WatchWorker
  <1>4. CASE UNCHANGED vars
    BY <1>1, <1>4, WatchFrame DEF vars, connVars, listVars, workerVars
  <1> QED BY <1>2, <1>3, <1>4 DEF Next

(* A live connection a worker's select waits for stays in the list it then  *)
(* walks, however the acceptor's pushes race with the worker's erase.       *)
THEOREM WatchedStaysListed == Spec => []WatchedIsListed
  <1>1. Spec => []WatchInv
    BY WatchInit, WatchNext, PTL DEF Spec
  <1> QED BY <1>1, PTL DEF WatchInv

-----------------------------------------------------------------------------
(* ServerCore implements Custody.  That nobody has asked for the end of a   *)
(* connection that is handed over rests on the walk, which deletes what was *)
(* refused before the next one is read.                                     *)

(* What the acceptor has still to read was not asked to end. *)
UnreadOpen ==
  \A i \in 1 .. Len(connections) :
    Live(connections[i]) /\ StillUnclassified(i) => ~closeReq[connections[i]]

(* Nor was what it has classified and not yet handed over. *)
PendingOpen ==
  \A c \in Conn : Live(c) /\ kind[c] # "none" /\ pushes[c] = 0 => ~closeReq[c]

OpenInv == WatchInv /\ UnreadOpen /\ PendingOpen

(* What a step of a worker does to the connections. *)
LEMMA WorkerChanges ==
  ASSUME OwnInv, NEW w \in Worker,
         WorkerBuild(w) \/ WorkerRead(w) \/ WorkerHandler(w)
  PROVE  /\ UNCHANGED <<kind, pushes, connections, pcA, iA>>
         /\ \A c \in Conn : obj'[c] = obj[c] \/ obj'[c] = "freed"
         /\ \A c \in Conn : closeReq'[c] = closeReq[c]
                            \/ \E v \in Worker : Listed(c, v)
  <1> USE DEF acceptVars, connVars, listVars
  <1>1. UNCHANGED <<kind, pushes, connections, pcA, iA>>
    BY DEF WorkerBuild, WorkerRead, WorkerHandler, BuildBegin, BuildKeep, Delete,
       Shrink, BuildEnd, StaleIterator, Select, SelectFails, ReadSkip, Handle,
       ReadEnd, RequestClose, Return, DanglingAccess, Die
  <1>2. CASE RequestClose(w)
    <2>1. Listed(Element(w), w)
      BY <1>2 DEF RequestClose, OwnInv, TInv, PositionsStand, Element, Listed,
         ToSet, TypeOK
    <2> QED BY <1>1, <1>2, <2>1 DEF RequestClose, OwnInv, TInv, TypeOK
  <1>3. CASE ~RequestClose(w)
    <2>1. /\ closeReq' = closeReq
          /\ obj' = obj \/ obj' = [obj EXCEPT ![Element(w)] = "freed"]
      BY <1>3 DEF WorkerBuild, WorkerRead, WorkerHandler, BuildBegin, BuildKeep,
         Delete, Shrink, BuildEnd, StaleIterator, Select, SelectFails, ReadSkip,
         Handle, ReadEnd, Return, DanglingAccess, Die
    <2> QED BY <1>1, <2>1 DEF OwnInv, TInv, TypeOK
  <1> QED BY <1>2, <1>3

(* A worker asks only for the end of what was handed over. *)
LEMMA OpenWorker ==
  ASSUME OpenInv, WatchInv',
         UNCHANGED <<kind, pushes, connections, pcA, iA>>,
         \A c \in Conn : obj'[c] = obj[c] \/ obj'[c] = "freed",
         \A c \in Conn : closeReq'[c] = closeReq[c]
                         \/ \E w \in Worker : Listed(c, w)
  PROVE  OpenInv'
  <1>1. \A c \in Conn : Live(c)' => Live(c)
    BY DEF Live
  <1>2. \A c \in Conn : Live(c) /\ pushes[c] = 0 => closeReq'[c] = closeReq[c]
    BY DEF OpenInv, WatchInv, ListedWasPushed
  <1>3. PendingOpen'
    BY <1>1, <1>2 DEF OpenInv, PendingOpen
  <1>4. UnreadOpen'
    <2> SUFFICES ASSUME NEW i \in 1 .. Len(connections), Live(connections[i])',
                        StillUnclassified(i)
                 PROVE  ~closeReq'[connections[i]]
      BY DEF UnreadOpen, StillUnclassified
    <2>1. connections[i] \in Conn /\ Live(connections[i])
      BY <1>1 DEF OpenInv, WatchInv, OwnInv, TInv, TypeOK
    <2>2. pushes[connections[i]] = 0
      BY <2>1 DEF OpenInv, WatchInv, OwnInv, Unread, NotYetPushed
    <2> QED BY <1>2, <2>1, <2>2 DEF OpenInv, UnreadOpen
  <1> QED BY <1>3, <1>4 DEF OpenInv

(* The acceptor goes on, and reads nothing it had passed. *)
LEMMA OpenMove ==
  ASSUME OpenInv, WatchInv', UNCHANGED <<obj, kind, closeReq, connections>>,
         \A c \in Conn : pushes'[c] = 0 => pushes[c] = 0,
         \A i \in 1 .. Len(connections) :
           Live(connections[i]) /\ StillUnclassified(i)' =>
             StillUnclassified(i) \/ ~closeReq[connections[i]]
  PROVE  OpenInv'
  <1>1. PendingOpen'
    BY DEF OpenInv, PendingOpen, Live
  <1>2. UnreadOpen'
    BY DEF OpenInv, UnreadOpen, Live
  <1> QED BY <1>1, <1>2 DEF OpenInv

(* The walk keeps what was not asked to end, and select follows it. *)
LEMMA OpenAcceptBuild ==
  ASSUME OpenInv, WatchInv', AcceptBuild
  PROVE  OpenInv'
  <1> USE DEF acceptVars, connVars, listVars
  <1>0. connections \in Seq(Conn) /\ iA \in Nat \ {0} /\ pcA = "build"
    BY DEF OpenInv, WatchInv, OwnInv, TInv, TypeOK, AcceptBuild, AcceptDelete,
       AcceptDrop, AcceptKeep, AcceptBuildEnd, AtElement
  <1>1. ASSUME iA <= Len(connections), connections' = RemoveAt(connections, iA),
               UNCHANGED <<kind, closeReq, pushes, pcA, iA>>,
               \A c \in Conn : obj'[c] = obj[c] \/ obj'[c] = "freed"
        PROVE  OpenInv'
    <2>1. iA \in 1 .. Len(connections)
      BY <1>0, <1>1
    <2>2. /\ Len(connections') = Len(connections) - 1
          /\ \A k \in 1 .. iA - 1 : connections'[k] = connections[k]
      BY <1>0, <1>1, <2>1, RemoveAtElements
    <2>3. PendingOpen'
      BY <1>1 DEF OpenInv, PendingOpen, Live
    <2>4. UnreadOpen'
      <3> SUFFICES ASSUME NEW i \in 1 .. Len(connections) - 1, i < iA,
                          obj'[connections'[i]] = "live"
                   PROVE  ~closeReq[connections'[i]]
        BY <1>0, <1>1, <2>2 DEF UnreadOpen, StillUnclassified, Live, Worker
      <3>1. /\ connections'[i] = connections[i] /\ connections[i] \in Conn
            /\ i \in 1 .. Len(connections)
        BY <1>0, <2>2
      <3>2. Live(connections[i]) /\ StillUnclassified(i)
        BY <1>0, <1>1, <3>1 DEF Live, StillUnclassified
      <3> QED BY <3>1, <3>2 DEF OpenInv, UnreadOpen
    <2> QED BY <2>3, <2>4 DEF OpenInv
  <1>2. CASE AcceptDelete
    <2>1. CASE Die
      BY <2>1, OpenWorker DEF Die
    <2>2. CASE ~Die
      BY <1>0, <1>1, <1>2, <2>2 DEF AcceptDelete, AtElement, OpenInv, WatchInv,
         OwnInv, TInv, TypeOK
    <2> QED BY <2>1, <2>2
  <1>3. CASE AcceptDrop
    BY <1>1, <1>3 DEF AcceptDrop, AtElement
  <1>4. CASE AcceptKeep
    <2>1. /\ UNCHANGED <<obj, kind, closeReq, pushes, connections, pcA>>
          /\ iA' = iA + 1
          /\ Live(Current) => ~closeReq[Current]
      BY <1>4 DEF AcceptKeep, MayStay, MayBe, Freed, Live
    <2>2. ASSUME NEW i \in 1 .. Len(connections), Live(connections[i]),
                 StillUnclassified(i)'
          PROVE  StillUnclassified(i) \/ ~closeReq[connections[i]]
      <3>1. i < iA \/ i = iA
        BY <1>0, <2>1, <2>2 DEF StillUnclassified, Worker
      <3> QED BY <1>0, <2>1, <2>2, <3>1 DEF StillUnclassified, Current
    <2> QED BY <2>1, <2>2, OpenMove
  <1>5. CASE AcceptBuildEnd
    <2>1. UNCHANGED <<obj, kind, closeReq, pushes, connections>>
          /\ iA > Len(connections)
      BY <1>5 DEF AcceptBuildEnd
    <2>2. \A i \in 1 .. Len(connections) : StillUnclassified(i)
      BY <1>0, <2>1 DEF StillUnclassified
    <2> QED BY <2>1, <2>2, OpenMove
  <1> QED BY <1>2, <1>3, <1>4, <1>5 DEF AcceptBuild

(* A new connection was not asked to end. *)
LEMMA OpenAcceptWait ==
  ASSUME OpenInv, WatchInv', AcceptWait
  PROVE  OpenInv'
  <1> USE DEF acceptVars, connVars, listVars
  <1>1. CASE AcceptSelect
    <2>1. UNCHANGED <<obj, kind, closeReq, pushes, connections>> /\ pcA = "select"
      BY <1>1 DEF AcceptSelect
    <2> QED BY <2>1, OpenMove DEF StillUnclassified
  <1>2. CASE AcceptSelectFails
    BY <1>2, OpenWorker DEF AcceptSelectFails, Die
  <1>3. CASE AcceptNew
    <2>1. /\ pcA = "accept" /\ nextId \in Conn
          /\ obj' = [obj EXCEPT ![nextId] = "live"]
          /\ connections' = Append(connections, nextId)
          /\ UNCHANGED <<kind, closeReq, pushes>>
          /\ connections \in Seq(Conn)
          /\ obj \in [Conn -> {"absent", "live", "freed"}]
      BY <1>3 DEF AcceptNew, OpenInv, WatchInv, OwnInv, TInv, TypeOK, Conn
    <2>2. ~closeReq[nextId]
      BY <2>1 DEF OpenInv, WatchInv, OwnInv, Fresh, Conn
    <2>3. PendingOpen'
      BY <2>1, <2>2 DEF OpenInv, PendingOpen, Live
    <2>4. UnreadOpen'
      <3> SUFFICES ASSUME NEW i \in 1 .. Len(connections) + 1,
                          obj'[connections'[i]] = "live"
                   PROVE  ~closeReq[connections'[i]]
        BY <2>1 DEF UnreadOpen, Live
      <3>1. CASE i = Len(connections) + 1
        BY <2>1, <2>2, <3>1
      <3>2. CASE i <= Len(connections)
        <4>1. connections'[i] = connections[i] /\ connections[i] \in Conn
          BY <2>1, <3>2
        <4>2. connections[i] = nextId \/ Live(connections[i])
          BY <2>1, <4>1 DEF Live
        <4> QED BY <2>1, <2>2, <3>2, <4>1, <4>2
                DEF OpenInv, UnreadOpen, StillUnclassified
      <3> QED BY <2>1, <3>1, <3>2
    <2> QED BY <2>3, <2>4 DEF OpenInv
  <1>4. CASE AcceptFail
    <2>1. UNCHANGED <<obj, kind, closeReq, pushes, connections>>
          /\ pcA' = "build" /\ iA' = 1
      BY <1>4 DEF AcceptFail, AcceptRestart
    <2> QED BY <2>1, OpenMove DEF StillUnclassified, Worker
  <1> QED BY <1>1, <1>2, <1>3, <1>4 DEF AcceptWait

(* A classification asks for the end of what it does not hand over. *)
LEMMA OpenAcceptRead ==
  ASSUME OpenInv, WatchInv', AcceptRead
  PROVE  OpenInv'
  <1> USE DEF acceptVars, connVars, listVars
  <1>0. connections \in Seq(Conn) /\ iA \in Nat \ {0}
        /\ pushes \in [Conn -> Nat]
    BY DEF OpenInv, WatchInv, OwnInv, TInv, TypeOK
  <1>1. CASE AcceptSkip \/ AcceptIsClassified \/ AcceptReadEnd
    <2>1. /\ UNCHANGED <<obj, kind, closeReq, pushes, connections>>
          /\ pcA = "read"
          /\ \/ pcA' = "read" /\ iA' = iA + 1
             \/ pcA' = "main" /\ iA' = iA
             \/ pcA' = "build" /\ iA' = 1
      BY <1>1 DEF AcceptSkip, AcceptIsClassified, AcceptReadEnd, AtElement,
         ToHandOver, AcceptRestart
    <2>2. \A i \in 1 .. Len(connections) :
            StillUnclassified(i)' => StillUnclassified(i)
      BY <1>0, <2>1 DEF StillUnclassified, Worker
    <2> QED BY <2>1, <2>2, OpenMove
  <1>2. ASSUME NEW w \in Worker, AcceptPush(w) \/ AcceptNoPush(w)
        PROVE  OpenInv'
    <2>1. /\ UNCHANGED <<obj, kind, closeReq, connections>>
          /\ pcA = w
          /\ \/ pcA' = "file" /\ iA' = iA
             \/ pcA' = "read" /\ iA' = iA + 1
      BY <1>2 DEF AcceptPush, AcceptNoPush, AtElement, AfterHandOver, Worker
    <2>2. \A i \in 1 .. Len(connections) :
            StillUnclassified(i)' => StillUnclassified(i)
      BY <1>0, <2>1 DEF StillUnclassified, Worker
    <2>3. pushes' = pushes \/ pushes' = [pushes EXCEPT ![Current] = @ + 1]
      BY <1>2 DEF AcceptPush, AcceptNoPush, Push
    <2>4. \A c \in Conn : pushes'[c] = 0 => pushes[c] = 0
      BY <1>0, <2>3
    <2> QED BY <2>1, <2>2, <2>4, OpenMove
  <1>3. CASE AcceptClassify
    <2>1. CASE Die
      BY <2>1, OpenWorker DEF Die
    <2>2. CASE ~Die
      <3>0. /\ pcA = "read" /\ iA \in 1 .. Len(connections) /\ Current \in Conn
            /\ ToHandOver /\ closeReq \in [Conn -> BOOLEAN]
            /\ kind \in [Conn -> Worker \cup {"none"}]
        BY <1>0, <1>3, <2>2 DEF AcceptClassify, AtElement, Current, OpenInv,
           WatchInv, OwnInv, TInv, TypeOK
      <3>1. /\ UNCHANGED <<obj, pushes, connections, iA>> /\ pcA' = "main"
        BY <3>0 DEF ToHandOver
      <3>2. Live(Current) => ~closeReq[Current]
        BY <3>0 DEF OpenInv, UnreadOpen, StillUnclassified, Current
      <3>3. /\ \A c \in Conn : c # Current =>
                  kind'[c] = kind[c] /\ closeReq'[c] = closeReq[c]
            /\ Live(Current) /\ kind'[Current] # "none" => ~closeReq'[Current]
        <4>1. CASE Freed(Current)
          <5>1. ~Live(Current)
            BY <4>1 DEF Freed, Live
          <5> QED BY <1>3, <2>2, <4>1, <5>1 DEF AcceptClassify
        <4>2. CASE ~Freed(Current)
          <5>1. PICK k \in Kinds \cup {"none"} :
                  /\ kind' = [kind EXCEPT ![Current] = k]
                  /\ closeReq' = [closeReq EXCEPT ![Current] = @ \/ k = "none"]
            BY <1>3, <4>2 DEF AcceptClassify
          <5> QED BY <3>0, <3>2, <5>1
        <4> QED BY <4>1, <4>2
      <3>4. PendingOpen'
        BY <3>1, <3>3 DEF OpenInv, PendingOpen, Live
      <3>5. UnreadOpen'
        <4> SUFFICES ASSUME NEW i \in 1 .. Len(connections), i > iA,
                            Live(connections[i])
                     PROVE  ~closeReq'[connections[i]]
          BY <3>1 DEF UnreadOpen, StillUnclassified, Live, Worker
        <4>1. connections[i] # Current /\ connections[i] \in Conn
          BY <1>0, <3>0 DEF OpenInv, WatchInv, OwnInv, Distinct, Current
        <4>2. StillUnclassified(i)
          BY <1>0, <3>0 DEF StillUnclassified
        <4> QED BY <3>3, <4>1, <4>2 DEF OpenInv, UnreadOpen
      <3> QED BY <3>4, <3>5 DEF OpenInv
    <2> QED BY <2>1, <2>2
  <1> QED BY <1>1, <1>2, <1>3 DEF AcceptRead

LEMMA OpenNext == OpenInv /\ [Next]_vars => OpenInv'
  <1> SUFFICES ASSUME OpenInv, [Next]_vars PROVE OpenInv'
    OBVIOUS
  <1>1. WatchInv'
    BY WatchNext DEF OpenInv
  <1>2. CASE Acceptor
    BY <1>1, <1>2, OpenAcceptBuild, OpenAcceptWait, OpenAcceptRead DEF Acceptor
  <1>3. ASSUME NEW w \in Worker,
               WorkerBuild(w) \/ WorkerRead(w) \/ WorkerHandler(w)
        PROVE  OpenInv'
    BY <1>1, <1>3, WorkerChanges, OpenWorker DEF OpenInv, WatchInv
  <1>4. CASE UNCHANGED vars
    BY <1>1, <1>4, OpenWorker DEF vars, connVars, acceptVars
  <1> QED BY <1>2, <1>3, <1>4 DEF Next

(* The owners, as the mapping has them. *)
OwnerMap == [c \in Conn |-> OwnerOf(c)]
AskedSet == {c \in Conn : closeReq[c]}

(* The owner of one connection changes. *)
LEMMA OwnerChanges ==
  ASSUME NEW x \in Conn, NEW v, OwnerOf(x)' = v,
         \A c \in Conn : c # x => OwnerOf(c)' = OwnerOf(c)
  PROVE  OwnerMap' = [OwnerMap EXCEPT ![x] = v]
  BY DEF OwnerMap

(* Nobody's owner changes. *)
LEMMA OwnersStay ==
  ASSUME \A c \in Conn : OwnerOf(c)' = OwnerOf(c)
  PROVE  OwnerMap' = OwnerMap
  BY DEF OwnerMap

(* What the owner of a connection depends on. *)
LEMMA OwnerDepends ==
  ASSUME NEW c \in Conn, obj'[c] = obj[c],
         obj[c] = "live" => pushes'[c] = pushes[c]
                            /\ (pushes[c] # 0 => kind'[c] = kind[c])
  PROVE  OwnerOf(c)' = OwnerOf(c)
  BY DEF OwnerOf, Live

(* A live connection has an owner. *)
LEMMA OwnerExists ==
  ASSUME TypeOK, NEW c \in Conn, Live(c)
  PROVE  OwnerMap[c] \notin {"nobody", "freed"}
  <1>1. kind[c] \in {"main", "file", "none"}
    BY DEF TypeOK, Worker
  <1> QED BY <1>1 DEF OwnerMap, OwnerOf, Live

(* A connection that is freed was asked to end. *)
LEMMA FreeIsCustody ==
  ASSUME OpenInv, NEW x \in Conn, Live(x), closeReq[x],
         obj' = [obj EXCEPT ![x] = "freed"], UNCHANGED <<kind, closeReq, pushes>>
  PROVE  Owners!Next
  <1>1. TypeOK /\ obj \in [Conn -> {"absent", "live", "freed"}]
    BY DEF OpenInv, WatchInv, OwnInv, TInv, TypeOK
  <1>2. OwnerOf(x)' = "freed"
    BY <1>1 DEF OwnerOf, Live
  <1>3. \A c \in Conn : c # x => OwnerOf(c)' = OwnerOf(c)
    <2>1. \A c \in Conn : c # x => obj'[c] = obj[c]
      BY <1>1
    <2> QED BY <2>1, OwnerDepends
  <1>4. OwnerMap' = [OwnerMap EXCEPT ![x] = "freed"]
    BY <1>2, <1>3, OwnerChanges
  <1>5. OwnerMap[x] \notin {"nobody", "freed"}
    BY <1>1, OwnerExists
  <1>6. Owners!Free(x)
    BY <1>4, <1>5 DEF Owners!Free, Owners!Exists, OwnerMap
  <1> QED BY <1>6 DEF Owners!Next

(* A step of a worker frees what was asked to end, or asks for an end. *)
LEMMA WorkerIsCustody ==
  ASSUME OpenInv, NEW w \in Worker,
         WorkerBuild(w) \/ WorkerRead(w) \/ WorkerHandler(w)
  PROVE  [Owners!Next]_(Owners!vars)
  <1> USE DEF acceptVars, connVars, listVars
  <1>0. /\ TypeOK /\ PositionsStand /\ list[w] \in Seq(Conn)
        /\ closeReq \in [Conn -> BOOLEAN]
    BY DEF OpenInv, WatchInv, OwnInv, TInv, TypeOK
  <1>1. CASE Delete(w) /\ ~Freed(Element(w))
    <2>1. Element(w) \in Conn /\ Listed(Element(w), w)
      BY <1>0, <1>1 DEF Delete, Element, Listed, ToSet, TypeOK
    <2>2. Live(Element(w)) /\ closeReq[Element(w)]
      BY <1>0, <1>1, <2>1 DEF OpenInv, WatchInv, OwnInv, Fresh, Freed, Live,
         TypeOK, Delete, MayClose, MayBe
    <2>3. /\ obj' = [obj EXCEPT ![Element(w)] = "freed"]
          /\ UNCHANGED <<kind, closeReq, pushes>>
      BY <1>1 DEF Delete
    <2> QED BY <2>1, <2>2, <2>3, FreeIsCustody
  <1>2. CASE RequestClose(w)
    <2>0. Element(w) \in Conn /\ Listed(Element(w), w)
      BY <1>0, <1>2 DEF RequestClose, PositionsStand, Element, Listed, ToSet,
         TypeOK
    <2>1. PICK x \in Conn : x = Element(w) /\ Listed(x, w)
      BY <2>0
    <2>2. /\ closeReq' = [closeReq EXCEPT ![x] = @ \/ ~Freed(x)]
          /\ UNCHANGED <<obj, kind, pushes>>
      BY <1>2, <2>1 DEF RequestClose
    <2>3. OwnerMap' = OwnerMap
      <3>1. \A c \in Conn : OwnerOf(c)' = OwnerOf(c)
        BY <2>2, OwnerDepends
      <3> QED BY <3>1, OwnersStay
    <2>4. CASE Freed(x)
      <3>1. AskedSet' = AskedSet
        BY <1>0, <2>1, <2>2, <2>4 DEF AskedSet
      <3> QED BY <2>3, <3>1 DEF Owners!vars, OwnerMap, AskedSet
    <2>5. CASE ~Freed(x)
      <3>1. AskedSet' = AskedSet \cup {x}
        BY <1>0, <2>1, <2>2, <2>5 DEF AskedSet
      <3>2. Live(x)
        BY <1>0, <2>1, <2>5 DEF OpenInv, WatchInv, OwnInv, Fresh, Freed, Live,
           TypeOK
      <3>3. OwnerMap[x] \notin {"nobody", "freed"}
        BY <1>0, <2>1, <3>2, OwnerExists
      <3>4. Owners!Ask(x)
        BY <2>3, <3>1, <3>3 DEF Owners!Ask, Owners!Exists, OwnerMap, AskedSet
      <3> QED BY <2>1, <3>4 DEF Owners!Next
    <2> QED BY <2>4, <2>5
  <1>3. CASE UNCHANGED <<obj, kind, closeReq, pushes>>
    <2>1. \A c \in Conn : OwnerOf(c)' = OwnerOf(c)
      BY <1>3, OwnerDepends
    <2>2. OwnerMap' = OwnerMap /\ AskedSet' = AskedSet
      BY <1>3, <2>1, OwnersStay DEF AskedSet
    <2> QED BY <2>2 DEF Owners!vars, OwnerMap, AskedSet
  <1>4. \/ Delete(w) /\ ~Freed(Element(w))
        \/ RequestClose(w)
        \/ UNCHANGED <<obj, kind, closeReq, pushes>>
    BY DEF WorkerBuild, WorkerRead, WorkerHandler, BuildBegin, BuildKeep, Delete,
       Shrink, BuildEnd, StaleIterator, Select, SelectFails, ReadSkip, Handle,
       ReadEnd, Return, DanglingAccess, Die
  <1> QED BY <1>1, <1>2, <1>3, <1>4

(* What is handed over was the acceptor's, and nobody asked for its end. *)
LEMMA PushIsCustody ==
  ASSUME OpenInv, NEW w \in Worker, AcceptPush(w)
  PROVE  [Owners!Next]_(Owners!vars)
  <1>a. /\ TypeOK /\ Current \in Conn /\ pcA = w /\ pushes \in [Conn -> Nat]
        /\ iA \in 1 .. Len(connections)
        /\ UNCHANGED <<obj, kind, closeReq>>
        /\ pushes' = [pushes EXCEPT ![Current] = @ + 1]
    <2>1. /\ UNCHANGED <<obj, kind, closeReq>>
          /\ pushes' = [pushes EXCEPT ![Current] = @ + 1]
          /\ pcA = w /\ iA <= Len(connections)
      BY DEF AcceptPush, Push, AfterHandOver, AtElement
    <2>2. TypeOK /\ pushes \in [Conn -> Nat]
      BY DEF OpenInv, WatchInv, OwnInv, TInv, TypeOK
    <2>3. iA \in 1 .. Len(connections) /\ Current \in Conn
      BY <2>1, <2>2 DEF TypeOK, Current
    <2> QED BY <2>1, <2>2, <2>3
  <1>b. PICK x \in Conn : x = Current
    BY <1>a
  <1>0. /\ TypeOK /\ pcA = w /\ pushes \in [Conn -> Nat]
        /\ iA \in 1 .. Len(connections)
        /\ UNCHANGED <<obj, kind, closeReq>>
        /\ pushes' = [pushes EXCEPT ![x] = @ + 1]
    BY <1>a, <1>b
  <1>1. AskedSet' = AskedSet
    BY <1>0 DEF AskedSet
  <1>2. \A c \in Conn : c # x => OwnerOf(c)' = OwnerOf(c)
    <2>1. \A c \in Conn : c # x => pushes'[c] = pushes[c]
      BY <1>0
    <2> QED BY <1>0, <2>1, OwnerDepends
  <1>3. CASE ~Live(x)
    <2>1. OwnerOf(x)' = OwnerOf(x)
      BY <1>0, <1>3, OwnerDepends DEF Live
    <2>2. OwnerMap' = OwnerMap
      BY <1>2, <2>1, OwnersStay
    <2> QED BY <1>1, <2>2 DEF Owners!vars, OwnerMap, AskedSet
  <1>4. CASE Live(x)
    <2>1. kind[x] = w
      BY <1>4, <1>b DEF AcceptPush, MayBe, HasKind, Freed, Live
    <2>2. pushes[x] = 0
      BY <1>0, <1>4, <1>b, <2>1 DEF OpenInv, WatchInv, OwnInv, Unread, Current,
         Worker
    <2>3. ~closeReq[x]
      BY <1>0, <1>4, <2>1, <2>2 DEF OpenInv, PendingOpen, Worker
    <2>4. OwnerOf(x) = "acceptor" /\ OwnerOf(x)' = w
      <3>1. pushes'[x] = 1 /\ Live(x)' /\ kind'[x] = w
        BY <1>0, <1>4, <2>1, <2>2 DEF Live
      <3> QED BY <1>4, <2>2, <3>1 DEF OwnerOf, Live
    <2>5. OwnerMap' = [OwnerMap EXCEPT ![x] = w]
      BY <1>0, <1>2, <2>4, OwnerChanges
    <2>6. Owners!HandOver(x, w)
      BY <1>0, <1>1, <2>3, <2>4, <2>5 DEF Owners!HandOver, OwnerMap, AskedSet
    <2> QED BY <1>0, <2>6 DEF Owners!Next
  <1> QED BY <1>3, <1>4

(* A classification leaves a connection with the acceptor, or asks for its  *)
(* end.                                                                     *)
LEMMA ClassifyIsCustody ==
  ASSUME OpenInv, AcceptClassify, ~Die
  PROVE  [Owners!Next]_(Owners!vars)
  <1>a. /\ TypeOK /\ Current \in Conn /\ Current \in ToSet(connections)
        /\ closeReq \in [Conn -> BOOLEAN] /\ kind \in [Conn -> Worker \cup {"none"}]
    BY DEF AcceptClassify, AtElement, Current, ToSet, OpenInv, WatchInv, OwnInv,
       TInv, TypeOK
  <1>b. PICK x \in Conn : x = Current
    BY <1>a
  <1>c. UNCHANGED <<obj, pushes>>
    <2>1. ToHandOver
      BY DEF AcceptClassify
    <2> QED BY <2>1 DEF ToHandOver
  <1>0. /\ TypeOK /\ x \in ToSet(connections)
        /\ closeReq \in [Conn -> BOOLEAN] /\ kind \in [Conn -> Worker \cup {"none"}]
        /\ UNCHANGED <<obj, pushes>>
    BY <1>a, <1>b, <1>c
  <1>1. CASE Freed(x)
    <2>1. UNCHANGED <<kind, closeReq>>
      BY <1>1, <1>b DEF AcceptClassify
    <2>2. \A c \in Conn : OwnerOf(c)' = OwnerOf(c)
      BY <1>0, <2>1, OwnerDepends
    <2>3. OwnerMap' = OwnerMap /\ AskedSet' = AskedSet
      BY <2>1, <2>2, OwnersStay DEF AskedSet
    <2> QED BY <2>3 DEF Owners!vars, OwnerMap, AskedSet
  <1>2. CASE ~Freed(x)
    <2>1. PICK k \in Kinds \cup {"none"} :
            /\ kind' = [kind EXCEPT ![x] = k]
            /\ closeReq' = [closeReq EXCEPT ![x] = @ \/ k = "none"]
      BY <1>2, <1>b DEF AcceptClassify
    <2>2. Live(x) /\ kind[x] = "none"
      BY <1>0, <1>2, <1>b DEF AcceptClassify, MayBeUnclassified, MayBe, OpenInv,
         WatchInv, OwnInv, Fresh, Freed, Live, TypeOK
    <2>3. pushes[x] = 0
      BY <1>0, <2>2 DEF OpenInv, WatchInv, OwnInv, NotYetPushed
    <2>4. \A c \in Conn : OwnerOf(c)' = OwnerOf(c)
      <3>1. \A c \in Conn : pushes[c] # 0 => kind'[c] = kind[c]
        BY <1>0, <2>1, <2>3
      <3> QED BY <1>0, <3>1, OwnerDepends
    <2>5. OwnerMap' = OwnerMap
      BY <2>4, OwnersStay
    <2>6. CASE k = "none"
      <3>1. AskedSet' = AskedSet \cup {x}
        BY <1>0, <2>1, <2>6 DEF AskedSet
      <3>2. OwnerMap[x] \notin {"nobody", "freed"}
        BY <1>0, <2>2, OwnerExists
      <3>3. Owners!Ask(x)
        BY <2>5, <3>1, <3>2 DEF Owners!Ask, Owners!Exists, OwnerMap, AskedSet
      <3> QED BY <1>0, <3>3 DEF Owners!Next
    <2>7. CASE k # "none"
      <3>1. AskedSet' = AskedSet
        BY <1>0, <2>1, <2>7 DEF AskedSet
      <3> QED BY <2>5, <3>1 DEF Owners!vars, OwnerMap, AskedSet
    <2> QED BY <2>6, <2>7
  <1> QED BY <1>1, <1>2

(* An accepted connection is the acceptor's. *)
LEMMA NewIsCustody ==
  ASSUME OpenInv, AcceptNew
  PROVE  Owners!Next
  <1>0. /\ nextId \in Conn /\ obj \in [Conn -> {"absent", "live", "freed"}]
        /\ obj' = [obj EXCEPT ![nextId] = "live"]
        /\ UNCHANGED <<kind, closeReq, pushes>>
    BY DEF AcceptNew, OpenInv, WatchInv, OwnInv, TInv, TypeOK, Conn
  <1>1. obj[nextId] = "absent" /\ pushes[nextId] = 0
    BY <1>0 DEF OpenInv, WatchInv, OwnInv, Fresh, Conn
  <1>2. OwnerOf(nextId) = "nobody"
    BY <1>1 DEF OwnerOf, Live
  <1> DEFINE x == nextId
  <1>3. x \in Conn /\ obj'[x] = "live" /\ pushes'[x] = 0
        /\ \A c \in Conn : c # x => obj'[c] = obj[c]
    BY <1>0, <1>1
  <1>4. OwnerMap' = [OwnerMap EXCEPT ![x] = "acceptor"]
    <2>1. PICK y \in Conn : y = x
      BY <1>3
    <2>2. OwnerOf(y)' = "acceptor"
      BY <1>3, <2>1 DEF OwnerOf, Live
    <2>3. \A c \in Conn : c # y => OwnerOf(c)' = OwnerOf(c)
      BY <1>0, <1>3, <2>1, OwnerDepends
    <2>4. OwnerMap' = [OwnerMap EXCEPT ![y] = "acceptor"]
      BY <2>2, <2>3, OwnerChanges
    <2> QED BY <2>1, <2>4
  <1>5. Owners!Accept(x)
    BY <1>0, <1>2, <1>4 DEF Owners!Accept, OwnerMap
  <1> QED BY <1>0, <1>5 DEF Owners!Next

LEMMA CustodyNext == OpenInv /\ [Next]_vars => [Owners!Next]_(Owners!vars)
  <1> SUFFICES ASSUME OpenInv, [Next]_vars PROVE [Owners!Next]_(Owners!vars)
    OBVIOUS
  <1> USE DEF connVars
  <1>1. CASE UNCHANGED <<obj, kind, closeReq, pushes>>
    <2>1. \A c \in Conn : OwnerOf(c)' = OwnerOf(c)
      BY <1>1, OwnerDepends
    <2>2. OwnerMap' = OwnerMap /\ AskedSet' = AskedSet
      BY <1>1, <2>1, OwnersStay DEF AskedSet
    <2> QED BY <2>2 DEF Owners!vars, OwnerMap, AskedSet
  <1>2. CASE AcceptDelete /\ ~Die
    <2>1. Current \in Conn /\ Current \in ToSet(connections)
      BY <1>2 DEF AcceptDelete, AtElement, Current, ToSet, OpenInv, WatchInv,
         OwnInv, TInv, TypeOK
    <2>2. ~Freed(Current) /\ Live(Current) /\ closeReq[Current]
      BY <1>2, <2>1 DEF AcceptDelete, MayClose, MayBe, OpenInv, WatchInv, OwnInv,
         Fresh, Freed, Live, TInv, TypeOK
    <2>3. /\ obj' = [obj EXCEPT ![Current] = "freed"]
          /\ UNCHANGED <<kind, closeReq, pushes>>
      BY <1>2, <2>2 DEF AcceptDelete
    <2> QED BY <2>1, <2>2, <2>3, FreeIsCustody
  <1>3. CASE AcceptBuild \/ AcceptWait \/ AcceptRead
    <2>1. \/ UNCHANGED <<obj, kind, closeReq, pushes>>
          \/ AcceptDelete /\ ~Die
          \/ AcceptNew
          \/ AcceptClassify /\ ~Die
          \/ \E w \in Worker : AcceptPush(w)
      BY <1>3 DEF AcceptBuild, AcceptDelete, AcceptDrop, AcceptKeep,
         AcceptBuildEnd, AcceptWait, AcceptSelect, AcceptSelectFails, AcceptFail,
         AcceptRestart, AcceptRead, AcceptSkip, AcceptIsClassified,
         ToHandOver, AcceptNoPush, AfterHandOver, AcceptReadEnd, Die
    <2> QED BY <1>1, <1>2, <2>1, NewIsCustody, ClassifyIsCustody, PushIsCustody
  <1>4. ASSUME NEW w \in Worker,
               WorkerBuild(w) \/ WorkerRead(w) \/ WorkerHandler(w)
        PROVE  [Owners!Next]_(Owners!vars)
    BY <1>4, WorkerIsCustody
  <1>5. CASE UNCHANGED vars
    BY <1>1, <1>5 DEF vars
  <1> QED BY <1>3, <1>4, <1>5 DEF Next, Acceptor

(* Three threads and their races keep custody of every connection: it goes  *)
(* from the acceptor to one worker, once, before anybody asks for its end,  *)
(* and is freed once, after that was asked for.                             *)
THEOREM CustodyImplemented == Spec => OwnersKept
  <1>1. Init => OpenInv
    <2> SUFFICES ASSUME Init PROVE OpenInv
      OBVIOUS
    <2>1. WatchInv
      BY WatchInit
    <2>2. connections = << >> /\ \A c \in Conn : ~Live(c)
      BY DEF Init, Live
    <2>3. UnreadOpen /\ PendingOpen
      BY <2>2 DEF UnreadOpen, PendingOpen
    <2> QED BY <2>1, <2>3 DEF OpenInv
  <1>2. Init => Owners!Init
    <2> SUFFICES ASSUME Init PROVE Owners!Init
      OBVIOUS
    <2>1. \A c \in Conn : OwnerOf(c) = "nobody" /\ ~closeReq[c]
      BY DEF Init, OwnerOf, Live
    <2> QED BY <2>1 DEF Owners!Init
  <1> QED BY <1>1, <1>2, OpenNext, CustodyNext, PTL DEF Spec, OwnersKept, Owners!Spec
=============================================================================
