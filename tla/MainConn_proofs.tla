---------------------------- MODULE MainConn_proofs ----------------------------
(***************************************************************************)
(* Proofs about MainConn, for any numbers of connections, users, messages  *)
(* and files: types, the session list, the users on line, the notices, and *)
(* the tokens as an implementation of Tokens.                              *)
(***************************************************************************)
EXTENDS MainConn, SequenceTheorems, WellFoundedInduction, TLAPS

(* What erase leaves: the elements before i, then those after it. *)
LEMMA RemoveAtElements ==
  ASSUME NEW S, NEW s \in Seq(S), NEW i \in 1 .. Len(s)
  PROVE  /\ RemoveAt(s, i) \in Seq(S)
         /\ Len(RemoveAt(s, i)) = Len(s) - 1
         /\ \A k \in 1 .. i - 1 : RemoveAt(s, i)[k] = s[k]
         /\ \A k \in i .. Len(s) - 1 : RemoveAt(s, i)[k] = s[k + 1]
  <1> DEFINE a == SubSeq(s, 1, i - 1)
             b == SubSeq(s, i + 1, Len(s))
             r == a \o b
  <1>1. PICK n \in Nat : n = Len(s)
    OBVIOUS
  <1>2. /\ a \in Seq(S) /\ Len(a) = i - 1
        /\ \A k \in 1 .. i - 1 : a[k] = s[k]
    OBVIOUS
  <1>3. /\ b \in Seq(S) /\ Len(b) = n - i
        /\ \A k \in 1 .. n - i : b[k] = s[i + k]
    BY <1>1
  <1>4. RemoveAt(s, i) = r
    BY DEF RemoveAt
  <1> HIDE DEF a, b
  <1>5. /\ r \in Seq(S) /\ Len(r) = Len(a) + Len(b)
        /\ \A k \in 1 .. Len(a) + Len(b) :
             r[k] = IF k <= Len(a) THEN a[k] ELSE b[k - Len(a)]
    BY <1>2, <1>3, ConcatProperties
  <1> HIDE DEF r
  <1>6. i \in Nat /\ i >= 1 /\ i <= n
    BY <1>1
  <1>7. Len(r) = n - 1
    BY <1>2, <1>3, <1>5, <1>6
  <1>8. \A k \in 1 .. i - 1 : r[k] = s[k]
    BY <1>2, <1>3, <1>5, <1>6
  <1>9. ASSUME NEW k \in i .. n - 1
        PROVE  r[k] = s[k + 1]
    <2>1. r[k] = b[k - (i - 1)]
      BY <1>2, <1>3, <1>5, <1>6
    <2>2. k - (i - 1) \in 1 .. n - i /\ i + (k - (i - 1)) = k + 1
      BY <1>6
    <2> QED BY <2>1, <2>2, <1>3
  <1> QED BY <1>1, <1>4, <1>5, <1>7, <1>8, <1>9

(* The same, as membership. *)
LEMMA RemoveAtSet ==
  ASSUME NEW S, NEW s \in Seq(S), NEW i \in 1 .. Len(s)
  PROVE  /\ ToSet(RemoveAt(s, i)) \subseteq ToSet(s)
         /\ \A x \in ToSet(s) : x # s[i] => x \in ToSet(RemoveAt(s, i))
  <1> DEFINE t == RemoveAt(s, i)
  <1>1. /\ t \in Seq(S) /\ Len(t) = Len(s) - 1
        /\ \A k \in 1 .. i - 1 : t[k] = s[k]
        /\ \A k \in i .. Len(s) - 1 : t[k] = s[k + 1]
    BY RemoveAtElements
  <1> HIDE DEF t
  <1>2. ASSUME NEW k \in 1 .. Len(t)
        PROVE  t[k] \in ToSet(s)
    <2>1. CASE k < i
      <3>1. k \in 1 .. Len(s) /\ t[k] = s[k]
        BY <1>1, <2>1
      <3> QED BY <3>1 DEF ToSet
    <2>2. CASE k >= i
      <3>1. k + 1 \in 1 .. Len(s) /\ t[k] = s[k + 1]
        BY <1>1, <2>2
      <3> QED BY <3>1 DEF ToSet
    <2> QED BY <1>1, <2>1, <2>2
  <1>3. ASSUME NEW j \in 1 .. Len(s), j # i
        PROVE  s[j] \in ToSet(t)
    <2>1. CASE j < i
      BY <1>1, <2>1 DEF ToSet
    <2>2. CASE j > i
      <3>1. j - 1 \in 1 .. Len(t) /\ t[j - 1] = s[j]
        BY <1>1, <2>2
      <3> QED BY <1>1, <3>1 DEF ToSet
    <2> QED BY <1>3, <2>1, <2>2
  <1>4. ToSet(t) \subseteq ToSet(s)
    BY <1>1, <1>2 DEF ToSet
  <1>5. \A x \in ToSet(s) : x # s[i] => x \in ToSet(t)
    BY <1>3 DEF ToSet
  <1> QED BY <1>4, <1>5 DEF t

(* emplace_back adds its element to the elements of a vector. *)
LEMMA AppendSet ==
  ASSUME NEW S, NEW s \in Seq(S), NEW c \in S
  PROVE  ToSet(Append(s, c)) = ToSet(s) \cup {c}
  <1>1. Append(s, c)[Len(s) + 1] = c
    OBVIOUS
  <1> QED BY <1>1 DEF ToSet

(* A new element at the end leaves a vector without repetitions. *)
LEMMA AppendKeepsInjective ==
  ASSUME NEW S, NEW s \in Seq(S), NEW c \in S, IsInjective(s), c \notin ToSet(s)
  PROVE  IsInjective(Append(s, c))
  BY DEF IsInjective, ToSet

(* Erasing from a vector without repetitions takes one element out of it. *)
LEMMA RemoveAtInjective ==
  ASSUME NEW S, NEW s \in Seq(S), NEW i \in 1 .. Len(s), IsInjective(s)
  PROVE  /\ IsInjective(RemoveAt(s, i))
         /\ ToSet(RemoveAt(s, i)) = ToSet(s) \ {s[i]}
  <1> DEFINE t == RemoveAt(s, i)
  <1>1. /\ t \in Seq(S) /\ Len(t) = Len(s) - 1
        /\ \A k \in 1 .. i - 1 : t[k] = s[k]
        /\ \A k \in i .. Len(s) - 1 : t[k] = s[k + 1]
    BY RemoveAtElements
  <1> HIDE DEF t
  <1>2. \A x, y \in 1 .. Len(s) : s[x] = s[y] => x = y
    BY DEF IsInjective
  <1>3. IsInjective(t)
    <2>1. \A k \in 1 .. Len(t) : \E j \in 1 .. Len(s) :
            t[k] = s[j] /\ k = IF j < i THEN j ELSE j - 1
      <3> SUFFICES ASSUME NEW k \in 1 .. Len(t)
                   PROVE  \E j \in {k, k + 1} :
                            /\ j \in 1 .. Len(s) /\ t[k] = s[j]
                            /\ k = IF j < i THEN j ELSE j - 1
        OBVIOUS
      <3>1. CASE k < i
        BY <1>1, <3>1
      <3>2. CASE k >= i
        BY <1>1, <3>2
      <3> QED BY <1>1, <3>1, <3>2
    <2> QED BY <1>1, <1>2, <2>1 DEF IsInjective
  <1>4. s[i] \notin ToSet(t)
    BY <1>1, <1>2 DEF ToSet
  <1> QED BY <1>3, <1>4, RemoveAtSet DEF t

(* The smallest of some numbers. *)
LEMMA Smallest ==
  ASSUME NEW D, D \subseteq Nat, D # {}
  PROVE  \E x \in D : \A y \in D : x <= y
  <1> DEFINE R == {p \in Nat \X Nat : p[1] < p[2]}
  <1>1. IsWellFoundedOn(R, Nat)
    BY NatLessThanWellFounded DEF OpToRel
  <1>2. \A x, y \in Nat : ~(<<y, x>> \in R) => x <= y
    OBVIOUS
  <1> HIDE DEF R
  <1>3. \E x \in D : \A y \in D : ~(<<y, x>> \in R)
    BY <1>1, WFMin
  <1> QED BY <1>2, <1>3

(* The steps fall into those of the clients, which touch no table of the    *)
(* server, those of the file thread, which touch only its own variables,    *)
(* and those of the main thread.                                            *)
ClientStep ==
  \E c \in Conn : \/ \E m \in Message : ClientSends(c, m)
                  \/ ClientSplits(c) \/ ClientLeaves(c) \/ ClientStalls(c)
FileStep == File \/ \E t \in Requests : Request(t)

(* Every step is a hand-over, a step of a client or of the file thread, the *)
(* end of the process, or one of the main thread's.                         *)
LEMMA NextCases ==
  ASSUME [Next]_vars
  PROVE  \/ \E c \in Conn : HandOver(c)
         \/ ClientStep \/ FileStep \/ Build \/ Read
         \/ UNCHANGED vars
  BY Zenon DEF Next, Client, ClientStep, FileStep

(* What a step of a client leaves alone. *)
LEMMA ClientFrame ==
  ASSUME ClientStep
  PROVE  UNCHANGED <<alive, connVars, tableVars, granted, mainVars, fileVars>>
  BY DEF ClientStep, ClientSends, ClientSplits, ClientLeaves, ClientStalls

(* What a step of the file thread leaves alone. *)
LEMMA FileFrame ==
  ASSUME FileStep
  PROVE  UNCHANGED <<connVars, tableVars, clientVars, mainVars>>
  BY DEF FileStep, File, Request, CopyBegin, CopyEnd, CheckToken, FileDone, Die

-----------------------------------------------------------------------------
(* Types. *)

(* A thread that is at a connection of the list is at a connection. *)
LEMMA CurrentIsConn ==
  ASSUME TypeOK, pos <= Len(list)
  PROVE  Current \in Conn /\ pos \in 1 .. Len(list)
  BY DEF TypeOK, Current

(* Marking a transaction makes a transaction. *)
LEMMA WrittenType ==
  ASSUME NEW t \in Transaction
  PROVE  /\ Written(t) \in Transaction
         /\ Written(t).receiver = t.receiver
         /\ Written(t).status = TRUE
         /\ Written(t).writes = t.writes + 1
  <1>1. t.writes \in Nat /\ t.writes + 1 \in Nat
    BY DEF Transaction
  <1>2. ASSUME NEW b \in BOOLEAN, NEW n \in Nat
        PROVE  [t EXCEPT !.status = b, !.writes = n] \in Transaction
    BY DEF Transaction
  <1>3. Written(t) \in Transaction
    BY <1>1, <1>2 DEF Written
  <1> QED BY <1>3 DEF Transaction, Written

(* Marking an element keeps a sequence of transactions. *)
LEMMA MarkedType ==
  ASSUME NEW s \in Seq(Transaction), NEW i
  PROVE  /\ [s EXCEPT ![i] = Written(@)] \in Seq(Transaction)
         /\ Len([s EXCEPT ![i] = Written(@)]) = Len(s)
  <1>1. CASE i \in 1 .. Len(s)
    <2>1. s[i] \in Transaction
      BY <1>1
    <2>2. Written(s[i]) \in Transaction
      BY <2>1, WrittenType
    <2> QED BY <1>1, <2>2, ExceptSeq
  <1>2. CASE i \notin 1 .. Len(s)
    <2>1. [s EXCEPT ![i] = Written(@)] = s
      BY <1>2
    <2> QED BY <2>1
  <1> QED BY <1>1, <1>2

(* Setting one flag keeps a map to flags. *)
LEMMA FlagSet ==
  ASSUME NEW S, NEW f \in [S -> BOOLEAN], NEW x, NEW b \in BOOLEAN
  PROVE  [f EXCEPT ![x] = b] \in [S -> BOOLEAN]
  OBVIOUS

(* The server starts with every variable in its type. *)
LEMMA TypeInit == Init => TypeOK
  BY DEF Init, TypeOK

(* Clients keep the types. *)
LEMMA TypeClient ==
  ASSUME TypeOK, ClientStep
  PROVE  TypeOK'
  <1>0. UNCHANGED <<alive, connVars, tableVars, granted, mainVars, fileVars>>
    BY ClientFrame
  <1>1. ASSUME NEW c \in Conn, NEW m \in Message, ClientSends(c, m)
        PROVE  TypeOK'
    BY <1>0, <1>1 DEF ClientSends, TypeOK, connVars, tableVars, mainVars, fileVars
  <1>2. ASSUME NEW c \in Conn,
               ClientSplits(c) \/ ClientLeaves(c) \/ ClientStalls(c)
        PROVE  TypeOK'
    BY <1>0, <1>2, ZenonT(60) DEF ClientSplits, ClientLeaves, ClientStalls, TypeOK, connVars,
       tableVars, mainVars, fileVars
  <1> QED BY <1>1, <1>2 DEF ClientStep

(* The file thread keeps the types. *)
LEMMA TypeFile ==
  ASSUME TypeOK, FileStep
  PROVE  TypeOK'
  <1>0. UNCHANGED <<connVars, tableVars, clientVars, mainVars>>
    BY FileFrame
  <1> USE <1>0 DEF TypeOK, connVars, tableVars, clientVars, mainVars
  <1>1. ASSUME NEW t \in Requests, Request(t)
        PROVE  TypeOK'
    BY <1>1, RequestsAssumption DEF Request
  <1>2. CASE CopyBegin
    <2>1. << sessions >> \in Seq(Seq(Conn))
      OBVIOUS
    <2> QED BY <1>2, <2>1 DEF CopyBegin
  <1>3. CASE CopyEnd
    <2>1. CASE Die
      BY <2>1 DEF Die, fileVars
    <2>2. CASE copy' \in Copies /\ fpc' = "check" /\ UNCHANGED <<alive, token, seen>>
      <3>1. PICK k \in DOMAIN seen :
              \E f \in [1 .. Len(seen[k]) -> Conn \cup {Nobody}] : copy' = ToSet(f)
        BY <2>2 DEF Copies
      <3>2. PICK f \in [1 .. Len(seen[k]) -> Conn \cup {Nobody}] : copy' = ToSet(f)
        BY <3>1
      <3>3. copy' \subseteq Conn \cup {Nobody}
        BY <3>2 DEF ToSet
      <3> QED BY <2>2, <3>3
    <2> QED BY <1>3, <2>1, <2>2 DEF CopyEnd
  <1>4. CASE CheckToken
    BY <1>4 DEF CheckToken
  <1>5. CASE FileDone
    BY <1>5 DEF FileDone
  <1> QED BY <1>1, <1>2, <1>3, <1>4, <1>5 DEF FileStep, File

(* So does what a copy meets. *)
LEMMA NotedType ==
  ASSUME TypeOK, Noted, sessions' \in Seq(Conn)
  PROVE  seen' \in Seq(Seq(Conn))
  BY DEF Noted, TypeOK

(* Building the select list keeps the types. *)
LEMMA TypeBuild ==
  ASSUME TypeOK, Build
  PROVE  TypeOK'
  <1>1. CASE BuildKeep
    <2>1. Current \in Conn
      BY <1>1, CurrentIsConn DEF BuildKeep, At
    <2> QED BY <1>1, <2>1 DEF BuildKeep, TypeOK, connVars, tableVars, clientVars,
            fileVars
  <1>2. CASE BuildRemoveSession
    <2>1. sessions' \in Seq(Conn)
      BY <1>2, RemoveAtElements DEF BuildRemoveSession, SessionRemoved, TypeOK
    <2>2. seen' \in Seq(Seq(Conn))
      BY <1>2, <2>1, NotedType DEF BuildRemoveSession
    <2> QED BY <1>2, <2>1, <2>2 DEF BuildRemoveSession, TypeOK, connVars, clientVars
  <1>3. CASE BuildClose
    <2>1. pos \in 1 .. Len(list) /\ list \in Seq(Conn)
      BY <1>3, CurrentIsConn DEF BuildClose, At, TypeOK
    <2>2. RemoveAt(list, pos) \in Seq(Conn)
      BY <2>1, RemoveAtElements
    <2> QED BY <1>3, <2>2 DEF BuildClose, TypeOK, tableVars, clientVars, fileVars
  <1>4. CASE BuildEnd \/ Select
    BY <1>4 DEF BuildEnd, Select, TypeOK, connVars, tableVars, clientVars,
       fileVars
  <1> QED BY <1>1, <1>2, <1>3, <1>4 DEF Build

(* Reading keeps the types. *)
LEMMA TypeRead ==
  ASSUME TypeOK, Read
  PROVE  TypeOK'
  <1> USE DEF connVars, tableVars, clientVars, mainVars, fileVars
  <1>1. CASE ReadSkip \/ ReadEnd
    BY <1>1, SMTT(30) DEF ReadSkip, ReadEnd, TypeOK
  <1>2. ASSUME Die PROVE TypeOK'
    BY <1>2 DEF Die, TypeOK
  <1>3. ASSUME Consume, inbox[Current] # << >>, Handles
        PROVE  /\ inbox' \in [Conn -> Seq(Message)]
               /\ Head(inbox[Current]) \in Message
    <2>1. Current \in Conn
      BY <1>3, CurrentIsConn DEF Handles, At
    <2> HIDE DEF connVars, tableVars, clientVars, mainVars, fileVars
    <2>2. inbox[Current] \in Seq(Message)
      BY <2>1 DEF TypeOK
    <2>3. Tail(inbox[Current]) \in Seq(Message) /\ Head(inbox[Current]) \in Message
      BY <2>2, <1>3
    <2> QED BY <2>1, <2>3, <1>3 DEF Consume, TypeOK
  <1>4. CASE Login
    <2>1. CASE Die
      BY <2>1, <1>2
    <2>2. CASE ~Die
      <3>1. /\ Consume /\ inbox[Current] # << >>
            /\ Current \in Conn /\ Head(inbox[Current]).name \in User
        BY <1>4, <2>2, CurrentIsConn DEF Login, Handles, At, GoodLogin, Received
      <3>2. inbox' \in [Conn -> Seq(Message)]
        BY <1>3, <1>4, <3>1 DEF Login
      <3> QED BY <1>4, <2>2, <3>1, <3>2, ZenonT(60) DEF Login, Arrives, TypeOK
    <2> QED BY <2>1, <2>2
  <1>5. CASE LoginRecorded
    <2>1. Current \in Conn
      BY <1>5, CurrentIsConn DEF LoginRecorded, At
    <2>2. sessions' \in Seq(Conn)
      BY <1>5, <2>1 DEF LoginRecorded, TypeOK
    <2>3. online' \in [User -> BOOLEAN]
      BY <1>5, FlagSet DEF LoginRecorded, TypeOK
    <2>4. seen' \in Seq(Seq(Conn))
      BY <1>5, <2>2, NotedType DEF LoginRecorded
    <2> QED BY <1>5, <2>2, <2>3, <2>4 DEF LoginRecorded, NextConn, TypeOK
  <1>6. CASE LoginRefused
    <2>1. inbox' \in [Conn -> Seq(Message)]
      <3>1. CASE inbox[Current] = << >>
        BY <1>6, <3>1 DEF LoginRefused, Consume, TypeOK
      <3> QED BY <1>3, <1>6, <3>1 DEF LoginRefused
    <2>2. closeReq' \in [Conn -> BOOLEAN]
      BY <1>6, FlagSet DEF LoginRefused, TypeOK
    <2> QED BY <1>6, <2>1, <2>2 DEF LoginRefused, NextConn, TypeOK
  <1>7. CASE PingPong
    <2>1. CASE Die
      BY <2>1, <1>2
    <2>2. CASE ~Die
      <3>1. inbox' \in [Conn -> Seq(Message)]
        BY <1>3, <1>7, <2>2 DEF PingPong, Ping, Received
      <3> QED BY <1>7, <2>2, <3>1, SMTT(30) DEF PingPong, NextConn, TypeOK
    <2> QED BY <2>1, <2>2
  <1>8. CASE PingNotice
    <2>1. inbox' \in [Conn -> Seq(Message)]
      BY <1>3, <1>8 DEF PingNotice, Ping, Received
    <2> QED BY <1>8, <2>1 DEF PingNotice, TypeOK
  <1>9. CASE Notify
    <2>1. CASE Die
      BY <2>1, <1>2
    <2>2. CASE ~Die
      <3> DEFINE i == FirstWaiting(user[Current])
      <3>1. transactions' = [transactions EXCEPT ![i] = Written(@)]
        BY <1>9, <2>2 DEF Notify
      <3>2. transactions' \in Seq(Transaction)
        BY <3>1, MarkedType DEF TypeOK
      <3> QED BY <1>9, <2>2, <3>2 DEF Notify, NextConn, TypeOK
    <2> QED BY <2>1, <2>2
  <1>10. CASE Announce
    <2>1. CASE Die
      BY <2>1, <1>2
    <2>2. CASE ~Die
      <3>1. /\ inbox' \in [Conn -> Seq(Message)]
            /\ Head(inbox[Current]) \in Message
        BY <1>3, <1>10, <2>2 DEF Announce, Received
      <3>2. transactions' \in Seq(Transaction)
        <4> DEFINE t == [receiver |-> Head(inbox[Current]).name,
                         status |-> FALSE, writes |-> 0]
        <4>1. t \in Transaction
          BY <3>1 DEF Message, Transaction
        <4>2. transactions' = Append(transactions, t) \/ transactions' = transactions
          BY <1>10, <2>2 DEF Announce
        <4>3. transactions \in Seq(Transaction)
          BY DEF TypeOK
        <4> HIDE DEF t
        <4> QED BY <4>1, <4>2, <4>3
      <3>3. /\ UNCHANGED <<alive, connVars, sessions, online, partial, gone,
                           stalled, granted, files, set, fileVars>>
            /\ pc' = "read" /\ pos' = pos + 1
        BY <1>10, <2>2 DEF Announce, NextConn
      <3> QED BY <3>1, <3>2, <3>3 DEF TypeOK
    <2> QED BY <2>1, <2>2
  <1>11. CASE Ignored
    <2>1. inbox' \in [Conn -> Seq(Message)]
      BY <1>3, <1>11 DEF Ignored, Received
    <2> QED BY <1>11, <2>1 DEF Ignored, NextConn, TypeOK
  <1>12. CASE CmdError
    <2>1. closeReq' \in [Conn -> BOOLEAN]
      BY <1>12, FlagSet DEF CmdError, CloseAsked, TypeOK
    <2>2. online' \in [User -> BOOLEAN]
      BY <1>12, FlagSet DEF CmdError, CloseAsked, WentOffline, TypeOK
    <2> QED BY <1>12, <2>1, <2>2 DEF CmdError, CloseAsked, NextConn, TypeOK
  <1> QED BY <1>1, <1>4, <1>5, <1>6, <1>7, <1>8, <1>9, <1>10, <1>11, <1>12 DEF Read

(* Every step keeps the types. *)
LEMMA TypeNext == TypeOK /\ [Next]_vars => TypeOK'
  <1> SUFFICES ASSUME TypeOK, [Next]_vars PROVE TypeOK'
    OBVIOUS
  <1>1. ASSUME NEW c \in Conn, HandOver(c)
        PROVE  TypeOK'
    BY <1>1 DEF HandOver, TypeOK, tableVars, clientVars, mainVars, fileVars
  <1>2. CASE UNCHANGED vars
    BY <1>2 DEF vars, TypeOK, connVars, tableVars, clientVars, mainVars, fileVars
  <1> QED BY <1>1, <1>2, NextCases, TypeClient, TypeFile, TypeBuild, TypeRead

(* Every variable keeps its type, whatever the clients send and when; an    *)
(* authenticated connection has the name of a user.                         *)
THEOREM TypeCorrect == Spec => []TypeOK
  BY TypeInit, TypeNext, PTL DEF Spec

-----------------------------------------------------------------------------
(* The session list and the users on line. *)

(* _listMainConnections holds the open connections, each once. *)
ListSound ==
  /\ IsInjective(list)
  /\ \A c \in Conn : c \in ToSet(list) <=> Open(c)

(* Nothing has happened to a connection that was not handed over yet. *)
NewSound == \A c \in Conn : state[c] = "new" => ~authen[c] /\ ~closeReq[c]

(* Between two steps for one connection the thread stays at it, and it is   *)
(* what the first of the two steps found.                                   *)
StepSound ==
  /\ pc \in {"close", "grant", "notify"} => pos <= Len(list)
  /\ pc = "close" => closeReq[Current]
  /\ pc = "grant" => authen[Current] /\ ~closeReq[Current]
  /\ pc = "notify" => authen[Current]

(* _mainConnSet: nobody in it has asked to be closed, but for those that    *)
(* the loop over the list has passed.                                       *)
SetSound ==
  /\ pc \in {"build", "close", "select"} => \A c \in set : ~closeReq[c]
  /\ pc \in {"read", "grant", "notify"} =>
       \A i \in pos .. Len(list) : list[i] \in set => ~closeReq[list[i]]

(* What keeps the session list and the users on line right. *)
SessionInv ==
  /\ TypeOK
  /\ ListSound
  /\ NewSound
  /\ StepSound
  /\ SetSound
  /\ SessionsSound
  /\ OnlineIsConnected

(* The server starts with no connection. *)
LEMMA SessionInit == Init => SessionInv
  BY TypeInit DEF Init, SessionInv, ListSound, NewSound, StepSound, SetSound,
     SessionsSound, OnlineIsConnected, Open, Authenticated, InStep, IsInjective,
     ToSet

(* Only the connections, the tables and the thread's position matter. *)
LEMMA SessionFrame ==
  ASSUME SessionInv, TypeOK',
         UNCHANGED <<connVars, sessions, online, mainVars>>
  PROVE  SessionInv'
  BY DEF SessionInv, ListSound, NewSound, StepSound, SetSound, SessionsSound,
     OnlineIsConnected, Open, Authenticated, InStep, Current, connVars, mainVars

(* A step of the thread's loops that is no login and no close. *)
LEMMA SessionMove ==
  ASSUME SessionInv, TypeOK', UNCHANGED <<connVars, sessions, online>>,
         pc \notin {"close", "grant"}, pc' \notin {"close", "grant"},
         StepSound', SetSound'
  PROVE  SessionInv'
  <1>1. UNCHANGED <<state, list, authen, user, closeReq>>
    BY DEF connVars
  <1>2. ListSound' /\ NewSound' /\ OnlineIsConnected'
    BY <1>1 DEF SessionInv, ListSound, NewSound, OnlineIsConnected, Open,
       Authenticated
  <1>3. SessionsSound'
    BY <1>1 DEF SessionInv, SessionsSound, Open, Authenticated, InStep
  <1> QED BY <1>2, <1>3 DEF SessionInv

(* The connection the thread is at is open, and nowhere else in the list. *)
LEMMA CurrentIsOpen ==
  ASSUME SessionInv, pos <= Len(list)
  PROVE  /\ Current \in Conn /\ Open(Current)
         /\ pos \in 1 .. Len(list)
         /\ \A i \in 1 .. Len(list) : list[i] = Current => i = pos
  <1>1. Current \in Conn /\ pos \in 1 .. Len(list) /\ list \in Seq(Conn)
    BY CurrentIsConn DEF SessionInv, TypeOK
  <1>2. Current \in ToSet(list)
    BY <1>1 DEF Current, ToSet
  <1> QED BY <1>1, <1>2 DEF SessionInv, ListSound, IsInjective, Current

(* A connection that is handed over is at the end of the list, not logged   *)
(* in, and the thread does not notice.                                      *)
LEMMA SessionHandOver ==
  ASSUME SessionInv, TypeOK', NEW c \in Conn, HandOver(c)
  PROVE  SessionInv'
  <1>1. /\ list \in Seq(Conn) /\ list' = Append(list, c)
        /\ state' = [state EXCEPT ![c] = "open"] /\ state[c] = "new"
        /\ UNCHANGED <<authen, user, closeReq, sessions, online, pc, pos, set>>
    BY DEF HandOver, SessionInv, TypeOK, tableVars, mainVars
  <1>2. /\ Len(list') = Len(list) + 1
        /\ \A i \in 1 .. Len(list) : list'[i] = list[i]
        /\ list'[Len(list) + 1] = c
        /\ Len(list) \in Nat /\ pos \in Nat \ {0}
    BY <1>1 DEF SessionInv, TypeOK
  <1>3. ListSound'
    <2>1. c \notin ToSet(list)
      BY <1>1 DEF SessionInv, ListSound, Open
    <2>2. IsInjective(list')
      BY <1>1, <2>1, AppendKeepsInjective DEF SessionInv, ListSound
    <2>3. ToSet(list') = ToSet(list) \cup {c}
      BY <1>1, AppendSet
    <2>4. \A d \in Conn : d \in ToSet(list') <=> Open(d)'
      BY <1>1, <2>3 DEF SessionInv, ListSound, Open, TypeOK
    <2> QED BY <2>2, <2>4 DEF ListSound
  <1>4. NewSound'
    BY <1>1 DEF SessionInv, NewSound, TypeOK
  <1>5. pc \in {"close", "grant", "notify"} => Current' = Current /\ pos <= Len(list)
    BY <1>1, <1>2 DEF SessionInv, StepSound, Current
  <1>6. StepSound'
    BY <1>1, <1>2, <1>5 DEF SessionInv, StepSound
  <1>7. SetSound'
    <2>1. ~closeReq[c]
      BY <1>1 DEF SessionInv, NewSound
    <2>2. ASSUME pc \in {"read", "grant", "notify"},
                 NEW i \in pos .. Len(list) + 1, list'[i] \in set
          PROVE  ~closeReq[list'[i]]
      BY <1>2, <2>1, <2>2 DEF SessionInv, SetSound
    <2> QED BY <1>1, <1>2, <2>2 DEF SessionInv, SetSound
  <1>8. SessionsSound'
    <2>1. \A d \in Conn : Authenticated(d)' <=> Authenticated(d)
      BY <1>1 DEF Authenticated, Open, SessionInv, NewSound, TypeOK
    <2>2. \A d \in Conn : /\ InStep(d, "grant")' <=> InStep(d, "grant")
                          /\ InStep(d, "close")' <=> InStep(d, "close")
      BY <1>1, <1>5 DEF InStep
    <2> QED BY <1>1, <2>1, <2>2 DEF SessionInv, SessionsSound
  <1>9. OnlineIsConnected'
    BY <1>1 DEF SessionInv, OnlineIsConnected, Authenticated, Open, TypeOK
  <1> QED BY <1>3, <1>4, <1>6, <1>7, <1>8, <1>9 DEF SessionInv

(* Building the select list keeps the session list. *)
LEMMA SessionBuild ==
  ASSUME SessionInv, TypeOK', Build
  PROVE  SessionInv'
  <1> USE DEF connVars, tableVars, mainVars
  <1>1. CASE BuildKeep
    <2>1. /\ UNCHANGED <<connVars, sessions, online, pc>> /\ pc = "build"
          /\ ~closeReq[Current] /\ set' = set \cup {Current}
      BY <1>1 DEF BuildKeep, At
    <2>2. StepSound' /\ SetSound'
      BY <2>1 DEF SessionInv, StepSound, SetSound
    <2> QED BY <2>1, <2>2, SessionMove
  <1>2. CASE BuildRemoveSession
    <2>1. /\ UNCHANGED <<state, list, authen, user, closeReq, online, pos, set>>
          /\ pc = "build" /\ pc' = "close" /\ pos <= Len(list)
          /\ closeReq[Current] /\ SessionRemoved(Current) /\ Current \in Conn
          /\ sessions \in Seq(Conn) /\ IsInjective(sessions)
      BY <1>2, CurrentIsOpen
         DEF BuildRemoveSession, At, SessionInv, SessionsSound, TypeOK
    <2>2. Current' = Current
      BY <2>1 DEF Current
    <2>3. IsInjective(sessions') /\ ToSet(sessions') = ToSet(sessions) \ {Current}
      <3>1. ASSUME NEW i \in 1 .. Len(sessions), sessions[i] = Current,
                   sessions' = RemoveAt(sessions, i)
            PROVE  /\ IsInjective(sessions')
                   /\ ToSet(sessions') = ToSet(sessions) \ {Current}
        BY <2>1, <3>1, RemoveAtInjective
      <3>2. CASE Current \notin ToSet(sessions) /\ UNCHANGED sessions
        BY <2>1, <3>2
      <3> QED BY <2>1, <3>1, <3>2 DEF SessionRemoved
    <2>4. SessionsSound'
      <3>1. \A c \in Conn : c \in ToSet(sessions) <=> Authenticated(c)
        BY <2>1 DEF SessionInv, SessionsSound, InStep
      <3>2. \A c \in Conn : Authenticated(c)' <=> Authenticated(c)
        BY <2>1 DEF Authenticated, Open
      <3>3. \A c \in Conn : /\ ~InStep(c, "grant")'
                            /\ InStep(c, "close")' <=> c = Current
        BY <2>1, <2>2 DEF InStep
      <3> QED BY <2>3, <3>1, <3>2, <3>3 DEF SessionsSound
    <2>5. StepSound' /\ SetSound'
      BY <2>1, <2>2 DEF SessionInv, StepSound, SetSound
    <2>6. ListSound' /\ NewSound' /\ OnlineIsConnected'
      BY <2>1 DEF SessionInv, ListSound, NewSound, OnlineIsConnected, Open,
         Authenticated
    <2> QED BY <2>4, <2>5, <2>6 DEF SessionInv
  <1>3. CASE BuildClose
    <2>1. /\ UNCHANGED <<authen, user, closeReq, sessions, online, pos, set>>
          /\ pc = "close" /\ pc' = "build" /\ closeReq[Current]
          /\ state' = [state EXCEPT ![Current] = "closed"]
          /\ list' = RemoveAt(list, pos)
      BY <1>3 DEF BuildClose, At, SessionInv, StepSound
    <2>2. /\ Current \in Conn /\ Open(Current) /\ pos \in 1 .. Len(list)
          /\ list \in Seq(Conn) /\ IsInjective(list) /\ Current = list[pos]
      BY <1>3, CurrentIsOpen
         DEF BuildClose, At, SessionInv, ListSound, TypeOK, Current
    <2>3. IsInjective(list') /\ ToSet(list') = ToSet(list) \ {Current}
      BY <2>1, <2>2, RemoveAtInjective
    <2>4. \A c \in Conn : state'[c] = IF c = Current THEN "closed" ELSE state[c]
      BY <2>1, <2>2 DEF SessionInv, TypeOK
    <2>5. ListSound'
      BY <2>2, <2>3, <2>4 DEF SessionInv, ListSound, Open
    <2>6. NewSound'
      BY <2>1, <2>4 DEF SessionInv, NewSound
    <2>7. StepSound' /\ SetSound'
      BY <2>1 DEF SessionInv, StepSound, SetSound
    <2>8. SessionsSound'
      <3>1. \A c \in Conn : c \in ToSet(sessions) <=> Authenticated(c) /\ c # Current
        BY <2>1 DEF SessionInv, SessionsSound, InStep
      <3>2. \A c \in Conn : Authenticated(c)' <=> Authenticated(c) /\ c # Current
        BY <2>1, <2>4 DEF Authenticated, Open
      <3> QED BY <2>1, <3>1, <3>2 DEF SessionInv, SessionsSound, InStep
    <2>9. OnlineIsConnected'
      BY <2>1, <2>4 DEF SessionInv, OnlineIsConnected, Authenticated, Open
    <2> QED BY <2>5, <2>6, <2>7, <2>8, <2>9 DEF SessionInv
  <1>4. CASE BuildEnd
    <2>1. UNCHANGED <<connVars, sessions, online, pos, set>>
          /\ pc = "build" /\ pc' = "select"
      BY <1>4 DEF BuildEnd
    <2>2. StepSound' /\ SetSound'
      BY <2>1 DEF SessionInv, StepSound, SetSound
    <2> QED BY <2>1, <2>2, SessionMove
  <1>5. CASE Select
    <2>1. UNCHANGED <<connVars, sessions, online>>
          /\ pc = "select" /\ pc' = "read" /\ set' \subseteq set
      BY <1>5 DEF Select
    <2>2. StepSound' /\ SetSound'
      BY <2>1 DEF SessionInv, StepSound, SetSound
    <2> QED BY <2>1, <2>2, SessionMove
  <1> QED BY <1>1, <1>2, <1>3, <1>4, <1>5 DEF Build

(* A login: the token is out and not yet in the list. *)
LEMMA SessionLogin ==
  ASSUME SessionInv, TypeOK', Login, ~Die
  PROVE  SessionInv'
  <1>1. /\ pc = "read" /\ pc' = "grant" /\ pos <= Len(list) /\ Current \in set
        /\ ~authen[Current]
        /\ authen' = [authen EXCEPT ![Current] = TRUE]
        /\ user' = [user EXCEPT ![Current] = Head(inbox[Current]).name]
        /\ UNCHANGED <<state, list, closeReq, sessions, online, pos, set>>
    BY DEF Login, Handles, At, tableVars
  <1>2. /\ Current \in Conn /\ Open(Current) /\ pos \in 1 .. Len(list)
        /\ Current' = Current
    BY <1>1, CurrentIsOpen DEF Current
  <1>3. /\ \A c \in Conn : authen'[c] = (IF c = Current THEN TRUE ELSE authen[c])
        /\ \A c \in Conn : c # Current => user'[c] = user[c]
    BY <1>1, <1>2 DEF SessionInv, TypeOK
  <1>4. ~closeReq[Current]
    BY <1>1, <1>2 DEF SessionInv, SetSound, Current
  <1>5. ListSound' /\ NewSound'
    BY <1>1, <1>2, <1>3 DEF SessionInv, ListSound, NewSound, Open
  <1>6. StepSound' /\ SetSound'
    BY <1>1, <1>2, <1>3, <1>4 DEF SessionInv, StepSound, SetSound
  <1>7. SessionsSound'
    <2>1. \A c \in Conn : c \in ToSet(sessions) <=> Authenticated(c)
      BY <1>1 DEF SessionInv, SessionsSound, InStep
    <2>2. \A c \in Conn : Authenticated(c)' <=> Authenticated(c) \/ c = Current
      BY <1>1, <1>2, <1>3 DEF Authenticated, Open
    <2>3. \A c \in Conn : /\ InStep(c, "grant")' <=> c = Current
                          /\ ~InStep(c, "close")'
      BY <1>1, <1>2 DEF InStep
    <2>4. ~Authenticated(Current)
      BY <1>1 DEF Authenticated
    <2> QED BY <1>1, <2>1, <2>2, <2>3, <2>4 DEF SessionInv, SessionsSound
  <1>8. OnlineIsConnected'
    BY <1>1, <1>3 DEF SessionInv, OnlineIsConnected, Authenticated, Open
  <1> QED BY <1>5, <1>6, <1>7, <1>8 DEF SessionInv

(* The token enters the list, and its user is on line. *)
LEMMA SessionRecorded ==
  ASSUME SessionInv, TypeOK', LoginRecorded
  PROVE  SessionInv'
  <1>1. /\ pc = "grant" /\ pc' = "read" /\ pos <= Len(list) /\ pos' = pos + 1
        /\ sessions' = Append(sessions, Current)
        /\ online' = [online EXCEPT ![user[Current]] = TRUE]
        /\ UNCHANGED <<state, list, authen, user, closeReq, set>>
    BY DEF LoginRecorded, At, NextConn, connVars
  <1>2. /\ Current \in Conn /\ Open(Current) /\ pos \in 1 .. Len(list)
        /\ authen[Current] /\ ~closeReq[Current] /\ sessions \in Seq(Conn)
    BY <1>1, CurrentIsOpen DEF SessionInv, StepSound, TypeOK
  <1>3. \A u \in User : online'[u] => online[u] \/ u = user[Current]
    BY <1>1 DEF SessionInv, TypeOK
  <1>4. ListSound' /\ NewSound' /\ StepSound' /\ SetSound'
    BY <1>1, <1>2 DEF SessionInv, ListSound, NewSound, StepSound, SetSound, Open
  <1>5. SessionsSound'
    <2>1. /\ IsInjective(sessions)
          /\ \A c \in Conn : c \in ToSet(sessions)
                               <=> Authenticated(c) /\ c # Current
      BY <1>1 DEF SessionInv, SessionsSound, InStep
    <2>2. IsInjective(sessions') /\ ToSet(sessions') = ToSet(sessions) \cup {Current}
      BY <1>1, <1>2, <2>1, AppendKeepsInjective, AppendSet
    <2>3. \A c \in Conn : Authenticated(c)' <=> Authenticated(c)
      BY <1>1 DEF Authenticated, Open
    <2>4. Authenticated(Current)
      BY <1>2 DEF Authenticated
    <2> QED BY <1>1, <2>1, <2>2, <2>3, <2>4 DEF SessionsSound, InStep
  <1>6. OnlineIsConnected'
    BY <1>1, <1>2, <1>3 DEF SessionInv, OnlineIsConnected, Authenticated, Open
  <1> QED BY <1>4, <1>5, <1>6 DEF SessionInv

(* A connection whose close is requested was not logged in, or its user is  *)
(* off line now.                                                            *)
LEMMA SessionRequest ==
  ASSUME SessionInv, TypeOK', LoginRefused \/ CmdError
  PROVE  SessionInv'
  <1>1. /\ pc = "read" /\ pc' = "read" /\ pos <= Len(list) /\ pos' = pos + 1
        /\ closeReq' = [closeReq EXCEPT ![Current] = TRUE]
        /\ UNCHANGED <<state, list, authen, user, sessions, set>>
    BY DEF LoginRefused, CmdError, CloseAsked, Handles, At, NextConn, tableVars
  <1>2. /\ Current \in Conn /\ Open(Current) /\ pos \in 1 .. Len(list)
        /\ \A i \in 1 .. Len(list) : list[i] = Current => i = pos
    BY <1>1, CurrentIsOpen
  <1>3. \A c \in Conn : c # Current => closeReq'[c] = closeReq[c]
    BY <1>1, <1>2 DEF SessionInv, TypeOK
  <1>4. ListSound' /\ NewSound' /\ StepSound'
    BY <1>1, <1>2, <1>3 DEF SessionInv, ListSound, NewSound, StepSound, Open
  <1>5. SetSound'
    <2>1. ASSUME NEW i \in pos + 1 .. Len(list), list[i] \in set
          PROVE  ~closeReq'[list[i]]
      <3>0. /\ i \in 1 .. Len(list) /\ i \in pos .. Len(list) /\ i # pos
            /\ list \in Seq(Conn)
        BY <1>2 DEF SessionInv, TypeOK
      <3>1. list[i] # Current /\ list[i] \in Conn
        BY <1>2, <3>0
      <3> QED BY <1>1, <1>3, <2>1, <3>0, <3>1 DEF SessionInv, SetSound
    <2> QED BY <1>1, <2>1 DEF SetSound
  <1>6. SessionsSound'
    BY <1>1 DEF SessionInv, SessionsSound, Authenticated, Open, InStep
  <1>7. OnlineIsConnected'
    <2>1. ASSUME NEW u \in User, online'[u]
          PROVE  \E c \in Conn : Authenticated(c) /\ user[c] = u /\ ~closeReq'[c]
      <3>1. online[u] /\ (authen[Current] => user[Current] # u)
        <4>1. CASE LoginRefused
          BY <2>1, <4>1 DEF LoginRefused, tableVars
        <4>2. CASE CmdError
          BY <2>1, <4>2 DEF CmdError, CloseAsked, WentOffline, SessionInv, TypeOK
        <4> QED BY <4>1, <4>2
      <3>2. PICK c \in Conn : Authenticated(c) /\ user[c] = u /\ ~closeReq[c]
        BY <3>1 DEF SessionInv, OnlineIsConnected
      <3>3. c # Current
        BY <3>1, <3>2 DEF Authenticated
      <3> QED BY <1>3, <3>2, <3>3
    <2> QED BY <1>1, <2>1 DEF OnlineIsConnected, Authenticated, Open
  <1> QED BY <1>4, <1>5, <1>6, <1>7 DEF SessionInv

(* The loop over the readable connections keeps the session list. *)
LEMMA SessionRead ==
  ASSUME SessionInv, TypeOK', Read
  PROVE  SessionInv'
  <1> USE DEF tableVars, connVars, mainVars
  <1>1. CASE Login \/ LoginRecorded \/ LoginRefused \/ CmdError
    <2>1. CASE Die
      BY <2>1, SessionFrame DEF Die
    <2> QED BY <1>1, <2>1, SessionLogin, SessionRecorded, SessionRequest
  <1>2. CASE PingPong \/ PingNotice \/ Notify \/ Announce \/ Ignored
    <2>1. CASE Die
      BY <2>1, SessionFrame DEF Die
    <2>2. CASE ~Die
      <3>1. /\ UNCHANGED <<connVars, sessions, online, set>>
            /\ pc \in {"read", "notify"} /\ pos <= Len(list)
            /\ \/ pc' = "read" /\ pos' = pos + 1
               \/ pc' = "notify" /\ pos' = pos /\ authen[Current]
        BY <1>2, <2>2 DEF PingPong, PingNotice, Ping, Notify, Announce, Ignored,
           Handles, At, NextConn
      <3>2. StepSound'
        BY <3>1 DEF SessionInv, StepSound, Current, TypeOK
      <3>3. SetSound'
        <4>1. ASSUME NEW i \in pos' .. Len(list), list[i] \in set
              PROVE  ~closeReq[list[i]]
          <5>1. i \in pos .. Len(list)
            BY <3>1 DEF SessionInv, TypeOK
          <5> QED BY <3>1, <4>1, <5>1 DEF SessionInv, SetSound
        <4> QED BY <3>1, <4>1 DEF SetSound
      <3> QED BY <3>1, <3>2, <3>3, SessionMove
    <2> QED BY <2>1, <2>2
  <1>3. CASE ReadSkip
    <2>1. /\ UNCHANGED <<connVars, sessions, online, set, pc>>
          /\ pc = "read" /\ pos' = pos + 1
      BY <1>3 DEF ReadSkip, At
    <2>2. StepSound' /\ SetSound'
      BY <2>1 DEF SessionInv, StepSound, SetSound, TypeOK
    <2> QED BY <2>1, <2>2, SessionMove
  <1>4. CASE ReadEnd
    <2>1. /\ UNCHANGED <<connVars, sessions, online>>
          /\ pc = "read" /\ pc' = "build" /\ set' = {}
      BY <1>4 DEF ReadEnd
    <2>2. StepSound' /\ SetSound'
      BY <2>1 DEF StepSound, SetSound
    <2> QED BY <2>1, <2>2, SessionMove
  <1> QED BY <1>1, <1>2, <1>3, <1>4 DEF Read

(* Every step keeps the session list right. *)
LEMMA SessionNext == SessionInv /\ [Next]_vars => SessionInv'
  <1> SUFFICES ASSUME SessionInv, [Next]_vars PROVE SessionInv'
    OBVIOUS
  <1>1. TypeOK'
    BY TypeNext DEF SessionInv
  <1>2. ASSUME NEW c \in Conn, HandOver(c)
        PROVE  SessionInv'
    BY <1>1, <1>2, SessionHandOver
  <1>3. CASE ClientStep \/ FileStep \/ UNCHANGED vars
    <2>1. UNCHANGED <<connVars, sessions, online, mainVars>>
      BY <1>3, ClientFrame, FileFrame DEF vars, tableVars
    <2> QED BY <1>1, <2>1, SessionFrame
  <1>4. CASE Build
    BY <1>1, <1>4, SessionBuild
  <1>5. CASE Read
    BY <1>1, <1>5, SessionRead
  <1> QED BY <1>2, <1>3, <1>4, <1>5, NextCases

(* The list of connections, the thread's position in it, its select set,    *)
(* the session list and the users on line agree with each other in every    *)
(* reachable state, for any number of connections and users.                *)
THEOREM Sessions == Spec => []SessionInv
  BY SessionInit, SessionNext, PTL DEF Spec

(* A token is in the session list while its connection is logged in and     *)
(* open, once: no early close, no second entry, none forgotten.             *)
THEOREM SessionListSound == Spec => []SessionsSound
  <1>1. SessionInv => SessionsSound
    BY DEF SessionInv
  <1> QED BY <1>1, Sessions, PTL

(* Whoever is on line has a connection that is logged in and has had no     *)
(* error.                                                                   *)
THEOREM OnlineUsersConnected == Spec => []OnlineIsConnected
  <1>1. SessionInv => OnlineIsConnected
    BY DEF SessionInv
  <1> QED BY <1>1, Sessions, PTL

-----------------------------------------------------------------------------
(* The notices. *)

(* The first waiting transaction of a user is one, and the first. *)
LEMMA FirstWaitingIsFirst ==
  ASSUME TypeOK, NEW u, Waiting(u) # {}
  PROVE  /\ FirstWaiting(u) \in Waiting(u)
         /\ FirstWaiting(u) \in 1 .. Len(transactions)
         /\ \A j \in Waiting(u) : FirstWaiting(u) <= j
  <1>1. Waiting(u) \subseteq 1 .. Len(transactions)
    BY DEF Waiting, TypeOK
  <1>2. \E i \in Waiting(u) : \A j \in Waiting(u) : i <= j
    BY <1>1, Smallest
  <1> HIDE DEF Waiting
  <1> QED BY <1>1, <1>2 DEF FirstWaiting

(* The thread goes to write a notice only when there is one. *)
NotifySound == pc = "notify" => Waiting(user[Current]) # {}

(* What keeps the notices in order. *)
NoticeInv == SessionInv /\ NotifySound /\ NoticesInOrder

(* The server starts with no transaction. *)
LEMMA NoticeInit == Init => NoticeInv
  BY SessionInit DEF Init, NoticeInv, NotifySound, NoticesInOrder

(* A step that leaves the transactions alone. *)
LEMMA NoticeFrame ==
  ASSUME NoticeInv, SessionInv', UNCHANGED transactions, NotifySound'
  PROVE  NoticeInv'
  BY DEF NoticeInv, NoticesInOrder

(* Notify marks the first transaction that waits, which keeps the order.    *)
LEMMA NoticeWritten ==
  ASSUME NoticeInv, SessionInv', Notify, ~Die
  PROVE  NoticeInv'
  <1> DEFINE u == user[Current]
             i == FirstWaiting(u)
  <1>1. /\ transactions' = [transactions EXCEPT ![i] = Written(@)]
        /\ pc = "notify" /\ pc' = "read"
    BY DEF Notify, At, NextConn
  <1>2. TypeOK /\ transactions \in Seq(Transaction)
    BY DEF NoticeInv, SessionInv, TypeOK
  <1>3. /\ i \in Waiting(u) /\ i \in 1 .. Len(transactions)
        /\ \A j \in Waiting(u) : i <= j
    BY <1>1, <1>2, FirstWaitingIsFirst DEF NoticeInv, NotifySound
  <1> HIDE DEF i
  <1> DEFINE t == transactions[i]
             w == Written(t)
  <1>4. t \in Transaction
    BY <1>2, <1>3
  <1>5. /\ t.receiver = u /\ ~t.status
        /\ w.receiver = u /\ w.status = TRUE /\ w.writes = t.writes + 1
    BY <1>3, <1>4, WrittenType DEF Waiting
  <1>6. t.writes = 0
    BY <1>3, <1>5 DEF NoticeInv, NoticesInOrder, Waiting
  <1>7. /\ DOMAIN transactions' = DOMAIN transactions
        /\ DOMAIN transactions = 1 .. Len(transactions)
        /\ \A j \in DOMAIN transactions :
             transactions'[j] = IF j = i THEN w ELSE transactions[j]
    BY <1>1, <1>2, <1>3
  <1> HIDE DEF w, t, u
  <1>8. \A j \in DOMAIN transactions :
          transactions'[j].writes = IF transactions'[j].status THEN 1 ELSE 0
    BY <1>5, <1>6, <1>7 DEF NoticeInv, NoticesInOrder
  <1>9. ASSUME NEW j \in DOMAIN transactions, NEW k \in DOMAIN transactions,
               j < k, transactions'[j].receiver = transactions'[k].receiver,
               transactions'[k].status
        PROVE  transactions'[j].status
    <2>1. CASE j = i
      BY <2>1, <1>5, <1>7
    <2>2. CASE j # i /\ k # i
      BY <2>2, <1>7, <1>9 DEF NoticeInv, NoticesInOrder
    <2>3. CASE j # i /\ k = i
      <3>1. transactions[j].receiver = u /\ transactions'[j] = transactions[j]
        BY <2>3, <1>5, <1>7, <1>9
      <3>2. j \notin Waiting(u)
        BY <2>3, <1>3, <1>7, <1>9
      <3> QED BY <3>1, <3>2 DEF Waiting
    <2> QED BY <2>1, <2>2, <2>3
  <1>10. NoticesInOrder'
    BY <1>7, <1>8, <1>9 DEF NoticesInOrder
  <1> QED BY <1>1, <1>10 DEF NoticeInv, NotifySound

(* Announce adds a transaction that is not marked, at the end, or none. *)
LEMMA NoticeAnnounced ==
  ASSUME NoticeInv, SessionInv', Announce, ~Die, transactions' # transactions
  PROVE  NoticeInv'
  <1> DEFINE t == [receiver |-> Head(inbox[Current]).name, status |-> FALSE,
                   writes |-> 0]
  <1>1. transactions' = Append(transactions, t) /\ pc' = "read"
    BY DEF Announce, NextConn
  <1>2. t.status = FALSE /\ t.writes = 0
    OBVIOUS
  <1>3. transactions \in Seq(Transaction)
    BY DEF NoticeInv, SessionInv, TypeOK
  <1> HIDE DEF t
  <1>4. /\ DOMAIN transactions = 1 .. Len(transactions)
        /\ Len(transactions) \in Nat
        /\ DOMAIN transactions' = 1 .. Len(transactions) + 1
        /\ \A j \in 1 .. Len(transactions) : transactions'[j] = transactions[j]
        /\ transactions'[Len(transactions) + 1] = t
    BY <1>1, <1>3
  <1>5. NoticesInOrder'
    BY <1>2, <1>4 DEF NoticeInv, NoticesInOrder
  <1> QED BY <1>1, <1>5 DEF NoticeInv, NotifySound

(* Every step keeps the notices in order. *)
LEMMA NoticeNext == NoticeInv /\ [Next]_vars => NoticeInv'
  <1> SUFFICES ASSUME NoticeInv, [Next]_vars PROVE NoticeInv'
    OBVIOUS
  <1> USE DEF tableVars, connVars, mainVars
  <1>0. SessionInv /\ SessionInv' /\ TypeOK
    BY SessionNext DEF NoticeInv, SessionInv
  <1>1. ASSUME NEW c \in Conn, HandOver(c)
        PROVE  NoticeInv'
    <2>1. /\ UNCHANGED <<user, pc, pos, transactions>> /\ list' = Append(list, c)
          /\ list \in Seq(Conn) /\ pos \in Nat \ {0}
      BY <1>0, <1>1 DEF HandOver, TypeOK
    <2>2. pc = "notify" => Current' = Current
      BY <1>0, <2>1 DEF SessionInv, StepSound, Current
    <2> QED BY <1>0, <2>1, <2>2, NoticeFrame DEF NoticeInv, NotifySound, Waiting
  <1>2. CASE ClientStep \/ FileStep \/ UNCHANGED vars \/ Die
    <2>1. UNCHANGED <<user, list, pc, pos, transactions>>
      BY <1>2, ClientFrame, FileFrame DEF vars, Die
    <2> QED BY <1>0, <2>1, NoticeFrame
            DEF NoticeInv, NotifySound, Waiting, Current
  <1>3. CASE Build
    <2>1. UNCHANGED transactions /\ pc' # "notify"
      BY <1>3 DEF Build, BuildKeep, BuildRemoveSession, BuildClose, BuildEnd,
         Select, At
    <2> QED BY <1>0, <2>1, NoticeFrame DEF NotifySound
  <1>4. CASE Notify /\ ~Die
    BY <1>0, <1>4, NoticeWritten
  <1>5. CASE Announce /\ ~Die
    <2>1. CASE transactions' = transactions
      <3>1. pc' # "notify"
        BY <1>5 DEF Announce, NextConn
      <3> QED BY <1>0, <2>1, <3>1, NoticeFrame DEF NotifySound
    <2>2. CASE transactions' # transactions
      BY <1>0, <1>5, <2>2, NoticeAnnounced
    <2> QED BY <2>1, <2>2
  <1>6. CASE PingNotice
    <2>1. /\ UNCHANGED <<user, list, pos, transactions>>
          /\ Waiting(user[Current]) # {}
      BY <1>6 DEF PingNotice
    <2> QED BY <1>0, <2>1, NoticeFrame DEF NotifySound, Waiting, Current
  <1>7. CASE Read /\ ~Notify /\ ~Announce /\ ~PingNotice /\ ~Die
    <2>1. UNCHANGED transactions /\ pc' # "notify"
      BY <1>7 DEF Read, ReadSkip, ReadEnd, Login, LoginRecorded, LoginRefused,
         PingPong, Ignored, CmdError, NextConn, At, Handles, Ping
    <2> QED BY <1>0, <2>1, NoticeFrame DEF NotifySound
  <1> QED BY <1>1, <1>2, <1>3, <1>4, <1>5, <1>6, <1>7, NextCases

(* No notice is written twice or marked unwritten, and the notices of a     *)
(* user go out in the order of the announcements, whichever of the user's   *)
(* connections asks, for any number of them.                                *)
THEOREM Notices == Spec => []NoticesInOrder
  <1>1. NoticeInv => NoticesInOrder
    BY DEF NoticeInv
  <1> QED BY <1>1, NoticeInit, NoticeNext, PTL DEF Spec

-----------------------------------------------------------------------------
(* The tokens: MainConn implements Tokens. *)

(* The connections whose token was ever valid, and those that have ended:   *)
(* "used" and "over" of Tokens.                                             *)
Granted == {c \in Conn : authen[c] /\ ~InStep(c, "grant")}
Ended == {c \in Conn : state[c] = "closed"}

(* The four things a step of a client or the main thread can do to the      *)
(* tokens: nothing, or one of these.                                        *)
TokenGranted(c) ==
  /\ c \notin Granted \cup Ended
  /\ sessions' = Append(sessions, c) /\ Granted' = Granted \cup {c}
  /\ Ended' = Ended
TokenWithdrawn(c) ==
  /\ \E i \in 1 .. Len(sessions) :
       sessions[i] = c /\ sessions' = RemoveAt(sessions, i)
  /\ Granted' = Granted /\ Ended' = Ended
TokenEnded(c) ==
  /\ c \notin ToSet(sessions) \cup Ended
  /\ Ended' = Ended \cup {c}
  /\ sessions' = sessions /\ Granted' = Granted
TokenLeft == sessions' = sessions /\ Granted' = Granted /\ Ended' = Ended

(* Only logins and closes change who has a token. *)
LEMMA GrantedKept ==
  ASSUME UNCHANGED <<state, authen>>, pc # "grant", pc' # "grant"
  PROVE  Granted' = Granted /\ Ended' = Ended
  BY DEF Granted, Ended, InStep

(* A login is one step before its token is valid. *)
LEMMA TokenLogin ==
  ASSUME SessionInv, Login, ~Die
  PROVE  TokenLeft
  <1>1. /\ pc = "read" /\ pc' = "grant" /\ pos <= Len(list) /\ ~authen[Current]
        /\ authen' = [authen EXCEPT ![Current] = TRUE]
        /\ UNCHANGED <<state, list, sessions, pos>>
    BY DEF Login, Handles, At, tableVars
  <1>2. Current \in Conn /\ Current' = Current
    BY <1>1, CurrentIsOpen DEF Current
  <1>3. \A c \in Conn : authen'[c] = (IF c = Current THEN TRUE ELSE authen[c])
    BY <1>1, <1>2 DEF SessionInv, TypeOK
  <1>4. Granted' = Granted
    BY <1>1, <1>2, <1>3 DEF Granted, InStep
  <1> QED BY <1>1, <1>4 DEF TokenLeft, Ended

(* A token is valid when it enters the list, and it never was before. *)
LEMMA TokenRecorded ==
  ASSUME SessionInv, LoginRecorded
  PROVE  TokenGranted(Current) /\ Current \in Conn
  <1>1. /\ pc = "grant" /\ pc' = "read" /\ pos <= Len(list)
        /\ sessions' = Append(sessions, Current)
        /\ UNCHANGED <<state, authen>>
    BY DEF LoginRecorded, At, NextConn, connVars
  <1>2. Current \in Conn /\ Open(Current) /\ authen[Current]
    BY <1>1, CurrentIsOpen DEF SessionInv, StepSound
  <1>3. Granted' = Granted \cup {Current} /\ Current \notin Granted
    BY <1>1, <1>2 DEF Granted, InStep
  <1>4. Ended' = Ended /\ Current \notin Ended
    BY <1>1, <1>2 DEF Ended, Open
  <1> QED BY <1>1, <1>2, <1>3, <1>4 DEF TokenGranted

(* A token is withdrawn before its connection is closed. *)
LEMMA TokenBuild ==
  ASSUME SessionInv, Build
  PROVE  TokenLeft \/ \E c \in Conn : TokenWithdrawn(c) \/ TokenEnded(c)
  <1>1. CASE BuildKeep \/ BuildEnd \/ Select
    <2>1. UNCHANGED <<state, authen, sessions>> /\ pc # "grant" /\ pc' # "grant"
      BY <1>1 DEF BuildKeep, BuildEnd, Select, At, connVars, tableVars
    <2> QED BY <2>1, GrantedKept DEF TokenLeft
  <1>2. CASE BuildRemoveSession
    <2>1. /\ UNCHANGED <<state, authen>> /\ pc # "grant" /\ pc' # "grant"
          /\ Current \in Conn /\ SessionRemoved(Current)
      BY <1>2, CurrentIsOpen DEF BuildRemoveSession, At, connVars
    <2>2. Granted' = Granted /\ Ended' = Ended
      BY <2>1, GrantedKept
    <2>3. DOMAIN sessions = 1 .. Len(sessions)
      BY DEF SessionInv, TypeOK
    <2> QED BY <2>1, <2>2, <2>3 DEF SessionRemoved, TokenWithdrawn, TokenLeft
  <1>3. CASE BuildClose
    <2>1. /\ UNCHANGED <<authen, sessions>> /\ pc = "close" /\ pc' = "build"
          /\ state' = [state EXCEPT ![Current] = "closed"]
          /\ Current \in Conn /\ Open(Current)
      BY <1>3, CurrentIsOpen DEF BuildClose, At, tableVars
    <2>2. Granted' = Granted
      BY <2>1 DEF Granted, InStep
    <2>3. Ended' = Ended \cup {Current} /\ Current \notin Ended
      BY <2>1 DEF Ended, Open, SessionInv, TypeOK
    <2>4. Current \notin ToSet(sessions)
      BY <2>1 DEF SessionInv, SessionsSound, InStep
    <2> QED BY <2>1, <2>2, <2>3, <2>4 DEF TokenEnded
  <1> QED BY <1>1, <1>2, <1>3 DEF Build

(* What a step does to the tokens, and that besides the file thread's steps *)
(* only the lists that its copy meets touch its variables.                  *)
LEMMA TokenCases ==
  ASSUME SessionInv, [Next]_vars
  PROVE  \/ FileStep
         \/ /\ UNCHANGED <<fpc, token, copy>> /\ Noted
            /\ \/ TokenLeft
               \/ \E c \in Conn :
                    TokenGranted(c) \/ TokenWithdrawn(c) \/ TokenEnded(c)
  <1>1. ASSUME NEW c \in Conn, HandOver(c)
        PROVE  TokenLeft /\ UNCHANGED fileVars
    <2>1. /\ UNCHANGED <<authen, sessions, pc, pos, fileVars>>
          /\ state' = [state EXCEPT ![c] = "open"] /\ state[c] = "new"
          /\ list' = Append(list, c) /\ list \in Seq(Conn) /\ pos \in Nat \ {0}
      BY <1>1 DEF HandOver, SessionInv, TypeOK, tableVars, mainVars
    <2>2. pc = "grant" => Current' = Current
      BY <2>1 DEF SessionInv, StepSound, Current
    <2>3. Granted' = Granted
      BY <2>1, <2>2 DEF Granted, InStep
    <2>4. Ended' = Ended
      BY <2>1 DEF Ended, SessionInv, TypeOK
    <2> QED BY <2>1, <2>3, <2>4 DEF TokenLeft
  <1>2. CASE ClientStep \/ Die \/ UNCHANGED vars
    <2>1. UNCHANGED <<state, authen, list, sessions, pc, pos, fileVars>>
      BY <1>2, ClientFrame DEF Die, vars, connVars, tableVars, mainVars
    <2>2. TokenLeft
      BY <2>1 DEF TokenLeft, Granted, Ended, InStep, Current
    <2>3. UNCHANGED <<fpc, token, copy>> /\ Noted
      BY <2>1 DEF Noted, fileVars
    <2> QED BY <2>2, <2>3
  <1>3. CASE Build
    <2>1. UNCHANGED <<fpc, token, copy>> /\ Noted
      BY <1>3 DEF Build, BuildKeep, BuildRemoveSession, BuildClose, BuildEnd, Select,
         Noted, fileVars, tableVars
    <2> QED BY <1>3, <2>1, TokenBuild
  <1>4. CASE Read /\ ~Die
    <2>1. UNCHANGED <<fpc, token, copy>> /\ Noted
      BY <1>4 DEF Read, ReadSkip, ReadEnd, Login, LoginRecorded, LoginRefused,
         PingPong, PingNotice, Notify, Announce, Ignored, CmdError, Die, Noted,
         fileVars, tableVars
    <2>2. CASE Login
      BY <1>4, <2>1, <2>2, TokenLogin
    <2>3. CASE LoginRecorded
      BY <2>1, <2>3, TokenRecorded
    <2>4. CASE ~Login /\ ~LoginRecorded
      <3>1. UNCHANGED <<state, authen, sessions>> /\ pc # "grant" /\ pc' # "grant"
        BY <1>4, <2>4 DEF Read, ReadSkip, ReadEnd, LoginRefused, PingPong,
           PingNotice, Ping, Notify, Announce, Ignored, CmdError, Handles, At,
           NextConn, Die, connVars, tableVars
      <3> QED BY <2>1, <3>1, GrantedKept DEF TokenLeft
    <2> QED BY <2>2, <2>3, <2>4
  <1>5. TokenLeft /\ UNCHANGED fileVars => UNCHANGED <<fpc, token, copy>> /\ Noted
    BY DEF TokenLeft, Noted, fileVars
  <1> QED BY <1>1, <1>2, <1>3, <1>4, <1>5, NextCases

(* What a copy has met ends with the list as it is; once the list changed,  *)
(* it held different tokens.                                                *)
SeenSound ==
  /\ fpc \in {"asked", "copying"} => token \in Conn
  /\ fpc = "copying" =>
       /\ Len(seen) >= 1 /\ seen[Len(seen)] = sessions
       /\ Len(seen) > 1 =>
            \E a, b \in 1 .. Len(seen) : ToSet(seen[a]) # ToSet(seen[b])

(* What the refinement rests on. *)
TokenInv == SessionInv /\ SeenSound

(* The server starts with no file connection. *)
LEMMA TokenInit == Init => TokenInv
  BY SessionInit DEF Init, TokenInv, SeenSound

(* A token that is granted was not in the list, one that is withdrawn is    *)
(* not any more.                                                            *)
LEMMA TokensChange ==
  ASSUME SessionInv, NEW c \in Conn, TokenGranted(c) \/ TokenWithdrawn(c)
  PROVE  /\ sessions' # sessions
         /\ \/ TokenGranted(c) /\ ToSet(sessions') = ToSet(sessions) \cup {c}
            \/ /\ TokenWithdrawn(c) /\ c \in ToSet(sessions)
               /\ ToSet(sessions') = ToSet(sessions) \ {c}
         /\ ToSet(sessions') # ToSet(sessions)
  <1>1. sessions \in Seq(Conn) /\ IsInjective(sessions)
    BY DEF SessionInv, SessionsSound, TypeOK
  <1>2. CASE TokenGranted(c)
    <2>1. ToSet(sessions') = ToSet(sessions) \cup {c}
      BY <1>1, <1>2, AppendSet DEF TokenGranted
    <2>2. c \notin ToSet(sessions)
      BY <1>2 DEF TokenGranted, Granted, SessionInv, SessionsSound, Authenticated
    <2> QED BY <1>2, <2>1, <2>2
  <1>3. CASE TokenWithdrawn(c)
    <2>1. PICK i \in 1 .. Len(sessions) :
            sessions[i] = c /\ sessions' = RemoveAt(sessions, i)
      BY <1>3 DEF TokenWithdrawn
    <2>2. c \in ToSet(sessions)
      BY <1>1, <2>1 DEF ToSet
    <2>3. ToSet(sessions') = ToSet(sessions) \ {c}
      BY <1>1, <2>1, RemoveAtInjective
    <2> QED BY <1>3, <2>2, <2>3
  <1> QED BY <1>2, <1>3

(* A list that has changed is met by the copy, with other tokens. *)
LEMMA SeenNext == TokenInv /\ [Next]_vars => TokenInv'
  <1> SUFFICES ASSUME TokenInv, [Next]_vars PROVE TokenInv'
    OBVIOUS
  <1>0. SessionInv /\ SessionInv'
    BY SessionNext DEF TokenInv
  <1>1. /\ sessions \in Seq(Conn) /\ sessions' \in Seq(Conn)
        /\ seen \in Seq(Seq(Conn)) /\ Len(seen) \in Nat
    BY <1>0 DEF SessionInv, TypeOK
  <1>2. CASE FileStep
    <2>0. UNCHANGED sessions
      BY <1>2, FileFrame DEF tableVars
    <2>1. CASE CopyBegin
      <3>1. seen' = << sessions >> /\ fpc' = "copying" /\ token' = token /\ fpc = "asked"
        BY <2>1 DEF CopyBegin
      <3>2. Len(seen') = 1 /\ seen'[1] = sessions
        BY <3>1
      <3> QED BY <1>0, <2>0, <3>1, <3>2 DEF TokenInv, SeenSound
    <2>2. CASE ~CopyBegin
      <3>1. /\ fpc' = "copying" => fpc = "copying" /\ UNCHANGED <<seen, token>>
            /\ fpc' = "asked" => token' \in Conn \/ (fpc = "asked" /\ token' = token)
        BY <1>2, <2>2, RequestsAssumption
           DEF FileStep, File, Request, CopyEnd, CheckToken, FileDone, Die, fileVars
      <3> QED BY <1>0, <2>0, <3>1 DEF TokenInv, SeenSound
    <2> QED BY <2>1, <2>2
  <1>3. CASE UNCHANGED <<fpc, token>> /\ Noted /\ sessions' = sessions
    <2>1. seen' = seen
      BY <1>3 DEF Noted
    <2> QED BY <1>0, <1>3, <2>1 DEF TokenInv, SeenSound
  <1>4. ASSUME UNCHANGED <<fpc, token>>, Noted,
               NEW c \in Conn, TokenGranted(c) \/ TokenWithdrawn(c)
        PROVE  TokenInv'
    <2>1. sessions' # sessions /\ ToSet(sessions') # ToSet(sessions)
      BY <1>0, <1>4, TokensChange
    <2>2. CASE fpc = "copying"
      <3> DEFINE n == Len(seen)
      <3>1. seen' = Append(seen, sessions') /\ n >= 1 /\ seen[n] = sessions
        BY <1>4, <2>1, <2>2 DEF Noted, TokenInv, SeenSound
      <3>2. /\ Len(seen') = n + 1 /\ seen'[n + 1] = sessions' /\ seen'[n] = sessions
            /\ n \in 1 .. n + 1 /\ n + 1 \in 1 .. n + 1
        BY <1>1, <3>1
      <3>3. \E a, b \in 1 .. Len(seen') : ToSet(seen'[a]) # ToSet(seen'[b])
        BY <2>1, <3>2
      <3>4. Len(seen') >= 1
        BY <1>1, <3>2
      <3> QED BY <1>0, <1>4, <3>2, <3>3, <3>4 DEF TokenInv, SeenSound
    <2>3. CASE fpc # "copying"
      BY <1>0, <1>4, <2>3 DEF TokenInv, SeenSound
    <2> QED BY <2>2, <2>3
  <1> QED BY <1>0, <1>2, <1>3, <1>4, TokenCases DEF TokenLeft, TokenEnded

(* What the valid tokens have been while they were copied: "past" of Tokens.*)
Past == {ToSet(seen[k]) : k \in DOMAIN seen}

LEMMA PastNoted ==
  ASSUME TokenInv, Noted, sessions' # sessions
  PROVE  Past' = IF fpc = "copying" THEN Past \cup {ToSet(sessions')} ELSE Past
  <1>1. seen \in Seq(Seq(Conn)) /\ Len(seen) \in Nat
    BY DEF TokenInv, SessionInv, TypeOK
  <1>2. CASE fpc = "copying"
    <2>1. seen' = Append(seen, sessions')
      BY <1>2 DEF Noted
    <2>2. /\ DOMAIN seen = 1 .. Len(seen) /\ DOMAIN seen' = 1 .. Len(seen) + 1
          /\ \A k \in 1 .. Len(seen) : seen'[k] = seen[k]
          /\ seen'[Len(seen) + 1] = sessions'
      BY <1>1, <2>1
    <2>3. 1 .. Len(seen) + 1 = 1 .. Len(seen) \cup {Len(seen) + 1}
      BY <1>1
    <2> QED BY <1>2, <2>2, <2>3 DEF Past
  <1>3. CASE fpc # "copying"
    BY <1>3 DEF Noted, Past
  <1> QED BY <1>2, <1>3

(* An unchanged list is copied as it is. *)
LEMMA CopyExact ==
  ASSUME TokenInv, fpc = "copying", Past = {ToSet(sessions)}, NEW S \in Copies
  PROVE  S = ToSet(sessions)
  <1>1. seen \in Seq(Seq(Conn)) /\ Len(seen) \in Nat /\ sessions \in Seq(Conn)
    BY DEF TokenInv, SessionInv, TypeOK
  <1>2. Len(seen) = 1 /\ seen[1] = sessions
    <2>1. ASSUME NEW k \in 1 .. Len(seen)
          PROVE  ToSet(seen[k]) = ToSet(sessions)
      <3>1. k \in DOMAIN seen
        BY <1>1
      <3>2. ToSet(seen[k]) \in Past
        BY <3>1 DEF Past
      <3> QED BY <3>2
    <2>2. ~(Len(seen) > 1)
      BY <2>1 DEF TokenInv, SeenSound
    <2>3. Len(seen) >= 1
      BY DEF TokenInv, SeenSound
    <2>4. seen[Len(seen)] = sessions
      BY DEF TokenInv, SeenSound
    <2>5. Len(seen) \in Nat
      BY <1>1
    <2>6. Len(seen) = 1
      <3> DEFINE n == Len(seen)
      <3>1. n \in Nat /\ n >= 1 /\ ~(n > 1)
        BY <2>2, <2>3, <2>5
      <3> HIDE DEF n
      <3>2. n = 1
        BY <3>1
      <3> QED BY <3>2 DEF n
    <2> QED BY <2>4, <2>6
  <1>3. ~Grown /\ DOMAIN seen = {1}
    BY <1>1, <1>2 DEF Grown
  <1>4. \A i \in 1 .. Len(sessions) : Slot(i) = {sessions[i]}
    BY <1>2, <1>3 DEF Slot
  <1>5. PICK f \in [1 .. Len(sessions) -> Conn \cup {Nobody}] :
          S = ToSet(f) /\ \A i \in DOMAIN f : f[i] \in Slot(i)
    BY <1>2, <1>3 DEF Copies
  <1>6. DOMAIN f = 1 .. Len(sessions) /\ DOMAIN sessions = 1 .. Len(sessions)
    BY <1>1
  <1>7. \A i \in 1 .. Len(sessions) : f[i] = sessions[i]
    BY <1>4, <1>5, <1>6
  <1> QED BY <1>5, <1>6, <1>7 DEF ToSet

(* A token that was copied was valid at some time. *)
LEMMA CopyMet ==
  ASSUME TokenInv, NEW S \in Copies, NEW t \in S, t # Nobody
  PROVE  \E tokens \in Past : t \in tokens
  <1>0. PICK k \in DOMAIN seen :
          \E f \in [1 .. Len(seen[k]) -> Conn \cup {Nobody}] :
            S = ToSet(f) /\ \A i \in DOMAIN f : f[i] \in Slot(i)
    BY DEF Copies
  <1>1. PICK f \in [1 .. Len(seen[k]) -> Conn \cup {Nobody}] :
          S = ToSet(f) /\ \A i \in DOMAIN f : f[i] \in Slot(i)
    BY <1>0
  <1>2. PICK i \in 1 .. Len(seen[k]) : t = f[i] /\ f[i] \in Slot(i)
    BY <1>1 DEF ToSet
  <1>3. PICK j \in DOMAIN seen : i <= Len(seen[j]) /\ t = seen[j][i]
    BY <1>2 DEF Slot
  <1>4. seen[j] \in Seq(Conn)
    BY DEF TokenInv, SessionInv, TypeOK
  <1>5. i \in DOMAIN seen[j]
    BY <1>2, <1>3, <1>4
  <1>6. t \in ToSet(seen[j])
    BY <1>3, <1>5 DEF ToSet
  <1> QED BY <1>6 DEF Past

(* The initial states of MainConn are initial states of Tokens. *)
LEMMA TokensInit == Init => T!Init
  BY DEF Init, T!Init, ToSet, InStep

(* The file thread begins and ends a check, and is asked, as Tokens allows: *)
(* what it took from a list that changed meanwhile was in the list at some  *)
(* time, and all of a list that did not change was taken.                   *)
LEMMA TokensFile ==
  ASSUME TokenInv, FileStep
  PROVE  T!Next \/ UNCHANGED T!vars
  <1>0. UNCHANGED <<state, authen, list, sessions, pc, pos>>
    BY FileFrame DEF connVars, tableVars, mainVars
  <1> DEFINE valid == ToSet(sessions)
             used == {c \in Conn : authen[c] /\ ~InStep(c, "grant")}
             over == {c \in Conn : state[c] = "closed"}
             step == CASE fpc = "copying" -> "checking"
                       [] fpc = "check" -> IF token \in copy THEN "accepted"
                                           ELSE "refused"
                       [] OTHER -> fpc
             past == {ToSet(seen[k]) : k \in DOMAIN seen}
  <1>1. valid' = valid /\ used' = used /\ over' = over
    BY <1>0 DEF InStep, Current
  <1> HIDE DEF valid, used, over, past
  <1>2. ASSUME NEW t \in Requests, Request(t)
        PROVE  T!Next
    <2>1. /\ step = "idle" /\ step' = "asked" /\ token' = t /\ past' = past
          /\ t \in Conn
      BY <1>2, RequestsAssumption DEF Request, past
    <2>2. T!Ask(t)
      BY <1>1, <2>1 DEF T!Ask, valid, used, over, past
    <2> QED BY <2>1, <2>2 DEF T!Next
  <1>3. CASE CopyBegin
    <2>1. /\ step = "asked" /\ step' = "checking" /\ seen' = << sessions >>
          /\ token' = token
      BY <1>3 DEF CopyBegin
    <2>2. DOMAIN seen' = {1} /\ seen'[1] = sessions
      BY <2>1
    <2>3. past' = {valid}
      BY <2>2 DEF past, valid
    <2>4. T!Begin
      BY <1>1, <2>1, <2>3 DEF T!Begin, valid, used, over, past
    <2> QED BY <2>4 DEF T!Next
  <1>4. CASE CopyEnd /\ ~Die
    <2>1. /\ step = "checking" /\ fpc = "copying" /\ past' = past
          /\ token' = token /\ fpc' = "check" /\ copy' \in Copies
          /\ step' = IF token \in copy' THEN "accepted" ELSE "refused"
      BY <1>4 DEF CopyEnd, past
    <2>2. past = Past /\ token \in Conn /\ token # Nobody
      BY <2>1, NobodyAssumption DEF past, Past, TokenInv, SeenSound
    <2>3. token \in copy' => \E tokens \in past : token \in tokens
      BY <2>1, <2>2, CopyMet
    <2>4. token \notin copy' => token \notin valid \/ past # {valid}
      BY <2>1, <2>2, CopyExact DEF valid
    <2>5. T!Answer
      BY <1>1, <2>1, <2>3, <2>4 DEF T!Answer, valid, used, over, past
    <2> QED BY <2>5 DEF T!Next
  <1>5. CASE CheckToken
    <2>1. step' = step /\ token' = token /\ past' = past
      BY <1>5 DEF CheckToken, past
    <2> QED BY <1>1, <2>1 DEF T!vars, valid, used, over, past
  <1>6. CASE FileDone
    <2>1. /\ step \in {"accepted", "refused"} /\ step' = "idle"
          /\ token' = Nobody /\ past' = {}
      BY <1>6 DEF FileDone, past
    <2>2. T!Done
      BY <1>1, <2>1 DEF T!Done, valid, used, over, past
    <2> QED BY <2>2 DEF T!Next
  <1>7. CASE Die
    <2>1. step' = step /\ token' = token /\ past' = past
      BY <1>7 DEF Die, fileVars, past
    <2> QED BY <1>1, <2>1 DEF T!vars, valid, used, over, past
  <1> QED BY <1>2, <1>3, <1>4, <1>5, <1>6, <1>7 DEF FileStep, File

(* Every step of MainConn is one of Tokens, or leaves what it sees alone. *)
LEMMA TokensNext == TokenInv /\ [Next]_vars => [T!Next]_T!vars
  <1> SUFFICES ASSUME TokenInv, [Next]_vars PROVE T!Next \/ UNCHANGED T!vars
    OBVIOUS
  <1>1. CASE FileStep
    BY <1>1, TokensFile
  <1>2. CASE UNCHANGED <<fpc, token, copy>> /\ Noted
    <2> DEFINE step == CASE fpc = "copying" -> "checking"
                         [] fpc = "check" -> IF token \in copy THEN "accepted"
                                             ELSE "refused"
                         [] OTHER -> fpc
               past == {ToSet(seen[k]) : k \in DOMAIN seen}
    <2>0. SessionInv /\ past = Past /\ past' = Past'
      BY DEF TokenInv, Past
    <2>1. step' = step /\ token' = token
      BY <1>2
    <2>2. step = "checking" <=> fpc = "copying"
      <3>1. fpc \in {"idle", "asked", "copying", "check", "accepted", "refused"}
        BY <2>0 DEF SessionInv, TypeOK
      <3> QED BY <3>1
    <2> HIDE DEF step, past
    <2>3. ASSUME NEW c \in Conn, TokenGranted(c)
          PROVE  T!Grant(c)
      <3>0. c \notin ToSet(sessions)
        BY <2>0, <2>3 DEF TokenGranted, Granted, SessionInv, SessionsSound,
           Authenticated
      <3>1. ToSet(sessions') = ToSet(sessions) \cup {c} /\ sessions' # sessions
        BY <2>0, <2>3, <3>0, TokensChange
      <3>2. past' = IF step = "checking" THEN past \cup {ToSet(sessions')} ELSE past
        BY <1>2, <2>0, <2>2, <3>1, PastNoted
      <3> QED BY <2>1, <2>3, <3>1, <3>2
              DEF T!Grant, T!Noted, TokenGranted, Granted, Ended, step, past
    <2>4. ASSUME NEW c \in Conn, TokenWithdrawn(c)
          PROVE  T!Withdraw(c)
      <3>1. /\ c \in ToSet(sessions) /\ sessions' # sessions
            /\ ToSet(sessions') = ToSet(sessions) \ {c}
        BY <2>0, <2>4, TokensChange DEF TokenGranted, TokenWithdrawn
      <3>2. past' = IF step = "checking" THEN past \cup {ToSet(sessions')} ELSE past
        BY <1>2, <2>0, <2>2, <3>1, PastNoted
      <3> QED BY <2>1, <2>4, <3>1, <3>2
              DEF T!Withdraw, T!Noted, TokenWithdrawn, Granted, Ended, step, past
    <2>5. sessions' = sessions => past' = past
      BY <1>2 DEF Noted, past
    <2>6. ASSUME NEW c \in Conn, TokenEnded(c)
          PROVE  T!End(c)
      BY <2>1, <2>5, <2>6 DEF T!End, TokenEnded, Granted, Ended, step, past
    <2>7. CASE TokenLeft
      BY <2>1, <2>5, <2>7 DEF T!vars, TokenLeft, Granted, Ended, step, past
    <2>8. \/ FileStep \/ TokenLeft
          \/ \E c \in Conn : TokenGranted(c) \/ TokenWithdrawn(c) \/ TokenEnded(c)
      BY <2>0, TokenCases
    <2> QED BY <1>1, <2>3, <2>4, <2>6, <2>7, <2>8 DEF T!Next
  <1> QED BY <1>1, <1>2, TokenCases DEF TokenInv

(* The session list, the steps that fill and clear it, and the file         *)
(* thread's search of a copy made without the lock are a service of tokens  *)
(* as Tokens specifies it, for every number of connections and requests.    *)
THEOREM TokensImplemented == Spec => TokensKept
  <1>1. Spec => []TokenInv
    BY TokenInit, SeenNext, PTL DEF Spec
  <1> QED BY <1>1, TokensInit, TokensNext, PTL DEF Spec, TokensKept, T!Spec
=============================================================================
