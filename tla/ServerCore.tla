------------------------------ MODULE ServerCore ------------------------------
(***************************************************************************)
(* The three threads of class servercore and the vectors of Connection*    *)
(* they share: the acceptor (start_Server) owns _connections, accepts and  *)
(* classifies clients and hands each one to _listMainConnections or        *)
(* _listFileConnections, which the main and the file thread each walk,     *)
(* serve and shrink.  _MUTEX_THREAD covers the acceptor's emplace_back     *)
(* only; the walks, the erases and the Connection objects are unlocked.    *)
(*                                                                         *)
(* One action is one step between two accesses to state another thread     *)
(* may touch.  Undefined behaviour is a choice over outcomes: a flag read  *)
(* from a freed object has any value (MayBe), a dangling access may end    *)
(* the process (alive), and an erase racing with an emplace_back leaves    *)
(* the vector in one of the states the two unsynchronised updates of its   *)
(* end pointer can leave it in (Push).                                     *)
(***************************************************************************)
EXTENDS Integers, SequencesExt

CONSTANTS MaxConn,    \* bound: connections accepted in one behaviour
          MaxPush,    \* bound: a freed connection pushed so often is not pushed again
          Kinds       \* the kinds of connection clients announce

Worker == {"main", "file"}

ASSUME MaxConnAssumption == MaxConn \in Nat \ {0}
ASSUME MaxPushAssumption == MaxPush \in Nat
ASSUME KindsAssumption == Kinds \subseteq Worker

Conn == 1 .. MaxConn

VARIABLES
  alive,        \* the process has neither crashed nor terminated
  obj,          \* Connection object: "absent", "live" or "freed"
  kind,         \* its flags _isMainSocket, _isFileSocket and _isClassified
  closeReq,     \* its flag _closureRequested
  pushes,       \* history: how often it was handed over to a worker
  nextId,       \* _connId + 1
  connections,  \* _connections, private to the acceptor
  pcA, iA,      \* the acceptor's step, and its position in connections
  setA,         \* _connectionsSet
  list,         \* _listMainConnections and _listFileConnections
  cap,          \* capacity() of each list
  pc, pos,      \* each worker's step, and its position in its list
  set,          \* _mainConnSet and _fileConnSet
  stale         \* the worker's iterator or reference is in a freed buffer

connVars == <<obj, kind, closeReq, pushes, nextId>>
acceptVars == <<connections, pcA, iA, setA>>
listVars == <<list, cap, stale>>
workerVars == <<pc, pos, set>>
vars == <<alive, connVars, acceptVars, listVars, workerVars>>

Init ==
  /\ alive = TRUE
  /\ obj = [c \in Conn |-> "absent"]
  /\ kind = [c \in Conn |-> "none"]
  /\ closeReq = [c \in Conn |-> FALSE]
  /\ pushes = [c \in Conn |-> 0]
  /\ nextId = 1
  /\ connections = << >>
  /\ pcA = "build" /\ iA = 1 /\ setA = {}
  /\ list = [w \in Worker |-> << >>]
  /\ cap = [w \in Worker |-> 0]
  /\ stale = [w \in Worker |-> FALSE]
  /\ pc = [w \in Worker |-> "top"]
  /\ pos = [w \in Worker |-> 1]
  /\ set = [w \in Worker |-> {}]

-----------------------------------------------------------------------------
(* Reads of an object's flags.  The bytes of a freed object are arbitrary. *)

Freed(c) == obj[c] = "freed"
MayBe(c, flag) == Freed(c) \/ flag
(* Fault: a classified connection is deleted instead of dropped. *)
MayClose_Classified(c) == MayBe(c, closeReq[c] \/ kind[c] # "none")
MayClose(c) == MayBe(c, closeReq[c])
MayStay(c) == MayBe(c, ~closeReq[c])
MayBeClassified(c) == MayBe(c, kind[c] # "none")
MayBeUnclassified(c) == MayBe(c, kind[c] = "none")

Die ==
  /\ alive' = FALSE
  /\ UNCHANGED <<connVars, acceptVars, listVars, workerVars>>

-----------------------------------------------------------------------------
(* Acceptor, build_Select_List_For_Connections: one step per element.       *)

Current == connections[iA]
AtElement(step) == alive /\ pcA = step /\ iA <= Len(connections)

(* Fault: the entry is erased and the object is not deleted. *)
AcceptDelete_Leak ==
  /\ AtElement("build")
  /\ MayClose(Current)
  /\ connections' = RemoveAt(connections, iA)
  /\ UNCHANGED <<alive, connVars, pcA, iA, setA, listVars, workerVars>>

(* A close request wins over the classified flag: delete and erase.  A      *)
(* second delete of the same object aborts.                                 *)
AcceptDelete ==
  /\ AtElement("build")
  /\ MayClose(Current)
  /\ IF Freed(Current) THEN Die
     ELSE /\ obj' = [obj EXCEPT ![Current] = "freed"]
          /\ connections' = RemoveAt(connections, iA)
          /\ UNCHANGED <<alive, kind, closeReq, pushes, nextId, pcA, iA, setA,
                         listVars, workerVars>>

(* Fault: the classified connection is passed over but not erased. *)
AcceptDrop_NoErase ==
  /\ AtElement("build")
  /\ MayStay(Current)
  /\ MayBeClassified(Current)
  /\ setA' = setA \cup {Current}
  /\ iA' = iA + 1
  /\ UNCHANGED <<alive, connVars, connections, pcA, listVars, workerVars>>

(* A classified connection leaves the vector and keeps its object. *)
AcceptDrop ==
  /\ AtElement("build")
  /\ MayStay(Current)
  /\ MayBeClassified(Current)
  /\ connections' = RemoveAt(connections, iA)
  /\ UNCHANGED <<alive, connVars, pcA, iA, setA, listVars, workerVars>>

AcceptKeep ==
  /\ AtElement("build")
  /\ MayStay(Current)
  /\ MayBeUnclassified(Current)
  /\ setA' = setA \cup {Current}
  /\ iA' = iA + 1
  /\ UNCHANGED <<alive, connVars, connections, pcA, listVars, workerVars>>

AcceptBuildEnd ==
  /\ alive /\ pcA = "build" /\ iA > Len(connections)
  /\ pcA' = "select"
  /\ UNCHANGED <<alive, connVars, connections, iA, setA, listVars, workerVars>>

(* select() with a timeout: any part of the set may be ready.  A closed     *)
(* descriptor makes it fail, start_Server returns and the destructors of    *)
(* its two joinable threads terminate the process; it does not fail when    *)
(* the number of the descriptor has been given to a newer socket.           *)
AcceptSelect ==
  /\ alive /\ pcA = "select"
  /\ \E ready \in SUBSET setA, incoming \in BOOLEAN :
       /\ setA' = ready
       /\ pcA' = IF incoming THEN "accept" ELSE "read"
  /\ iA' = 1
  /\ UNCHANGED <<alive, connVars, connections, listVars, workerVars>>

AcceptSelectFails ==
  /\ alive /\ pcA = "select"
  /\ \E c \in setA : Freed(c)
  /\ Die

(* handle_New_Connection: accept, construct, handshake (result ignored). *)
AcceptNew ==
  /\ alive /\ pcA = "accept"
  /\ nextId <= MaxConn
  /\ obj' = [obj EXCEPT ![nextId] = "live"]
  /\ connections' = Append(connections, nextId)
  /\ nextId' = nextId + 1
  /\ pcA' = "read"
  /\ UNCHANGED <<alive, kind, closeReq, pushes, iA, setA, listVars, workerVars>>

AcceptRestart ==
  /\ pcA' = "build" /\ iA' = 1 /\ setA' = {}
  /\ UNCHANGED <<alive, connVars, connections, listVars, workerVars>>

(* accept() or setsockopt() fails: read_Data_Main_Socket returns at once. *)
AcceptFail ==
  /\ alive /\ pcA = "accept"
  /\ AcceptRestart

-----------------------------------------------------------------------------
(* Acceptor, read_Data_Main_Socket: classify what is ready, hand it over.   *)

AcceptSkip ==
  /\ AtElement("read")
  /\ MayBe(Current, Current \notin setA)
  /\ iA' = iA + 1
  /\ UNCHANGED <<alive, connVars, connections, pcA, setA, listVars, workerVars>>

ToHandOver ==
  /\ pcA' = "main"
  /\ UNCHANGED <<alive, obj, pushes, nextId, connections, iA, setA, listVars,
                 workerVars>>

AcceptIsClassified ==
  /\ AtElement("read")
  /\ MayBe(Current, Current \in setA)
  /\ MayBeClassified(Current)
  /\ ToHandOver
  /\ UNCHANGED <<kind, closeReq>>

(* classify_connection: the client announces a kind, or anything else (a    *)
(* wrong command, a short read, end of file) requests the close.            *)
AcceptClassify ==
  /\ AtElement("read")
  /\ MayBe(Current, Current \in setA)
  /\ MayBeUnclassified(Current)
  /\ IF Freed(Current) THEN Die \/ (ToHandOver /\ UNCHANGED <<kind, closeReq>>)
     ELSE /\ \E k \in Kinds \cup {"none"} :
               /\ kind' = [kind EXCEPT ![Current] = k]
               /\ closeReq' = [closeReq EXCEPT ![Current] = @ \/ k = "none"]
          /\ ToHandOver

(* Fault: the buffer is replaced one element too late. *)
Full_Late(w) == Len(list[w]) > cap[w]

(* std::vector doubles its buffer and frees the old one. *)
Full(w) == Len(list[w]) = cap[w]
Grown(n) == IF n = 0 THEN 1 ELSE 2 * n
HoldsPosition(w) == pc[w] \in {"build", "shrink", "handle", "closing"}

(* emplace_back under _MUTEX_THREAD, which the worker's erase does not      *)
(* take: while the worker is about to move the end of the vector back       *)
(* ("shrink"), the acceptor's update of the end, the worker's, or neither   *)
(* may be lost.                                                             *)
Push(w, c) ==
  /\ pushes' = [pushes EXCEPT ![c] = @ + 1]
  /\ cap' = [cap EXCEPT ![w] = IF Full(w) THEN Grown(@) ELSE @]
  /\ stale' = [stale EXCEPT ![w] = @ \/ (Full(w) /\ HoldsPosition(w))]
  /\ \/ /\ list' = [list EXCEPT ![w] = Append(@, c)]
        /\ UNCHANGED pc
     \/ /\ pc[w] = "shrink"
        /\ pc' = [pc EXCEPT ![w] = "build"]
        /\ \E l \in {Append(list[w], c), Front(list[w])} :
             list' = [list EXCEPT ![w] = l]
  /\ UNCHANGED <<pos, set>>

(* Fault: every classified connection goes to both lists. *)
HasKind_Classified(c, w) == kind[c] # "none"
HasKind(c, w) == kind[c] = w

(* The test for the main list comes first, the one for the file list after  *)
(* it: the connection is read again when a worker may already have it.      *)
AfterHandOver(w) ==
  /\ pcA' = IF w = "main" THEN "file" ELSE "read"
  /\ iA' = IF w = "main" THEN iA ELSE iA + 1
  /\ UNCHANGED <<alive, obj, kind, closeReq, nextId, connections, setA>>

AcceptPush(w) ==
  /\ AtElement(w)
  /\ MayBe(Current, HasKind(Current, w))
  /\ Freed(Current) => pushes[Current] < MaxPush
  /\ Push(w, Current)
  /\ AfterHandOver(w)

AcceptNoPush(w) ==
  /\ AtElement(w)
  /\ MayBe(Current, ~HasKind(Current, w))
  /\ AfterHandOver(w)
  /\ UNCHANGED <<pushes, listVars, workerVars>>

AcceptReadEnd ==
  /\ alive /\ pcA = "read" /\ iA > Len(connections)
  /\ AcceptRestart

-----------------------------------------------------------------------------
(* A worker w, thread_Main_Connecion_Handle or thread_File_Connecion_Handle *)
(* (the list's begin() is taken in BuildBegin and kept for the whole loop). *)

Element(w) == list[w][pos[w]]
Dangling(w) == stale[w] \/ Freed(Element(w))

BuildBegin(w) ==
  /\ alive /\ pc[w] = "top"
  /\ pc' = [pc EXCEPT ![w] = "build"]
  /\ pos' = [pos EXCEPT ![w] = 1]
  /\ set' = [set EXCEPT ![w] = {}]
  /\ stale' = [stale EXCEPT ![w] = FALSE]
  /\ UNCHANGED <<alive, connVars, acceptVars, list, cap>>

Building(w) == alive /\ pc[w] = "build" /\ ~stale[w]

BuildKeep(w) ==
  /\ Building(w) /\ pos[w] <= Len(list[w])
  /\ MayStay(Element(w))
  /\ set' = [set EXCEPT ![w] = @ \cup {Element(w)}]
  /\ pos' = [pos EXCEPT ![w] = @ + 1]
  /\ UNCHANGED <<alive, connVars, acceptVars, listVars, pc>>

(* Fault: the erase starts at the element before. *)
MovedDown_Early(s, i) ==
  [k \in 1 .. Len(s) |-> IF k < i - 1 \/ k = Len(s) THEN s[k] ELSE s[k + 1]]

(* delete, then the first half of erase: the elements after it move down    *)
(* and the last one stands twice until the vector's end moves back.         *)
MovedDown(s, i) ==
  [k \in 1 .. Len(s) |-> IF k < i \/ k = Len(s) THEN s[k] ELSE s[k + 1]]

Delete(w) ==
  /\ Building(w) /\ pos[w] <= Len(list[w])
  /\ MayClose(Element(w))
  /\ IF Freed(Element(w)) THEN Die
     ELSE /\ obj' = [obj EXCEPT ![Element(w)] = "freed"]
          /\ list' = [list EXCEPT ![w] = MovedDown(@, pos[w])]
          /\ pc' = [pc EXCEPT ![w] = "shrink"]
          /\ UNCHANGED <<alive, kind, closeReq, pushes, nextId, acceptVars,
                         cap, stale, pos, set>>

Shrink(w) ==
  /\ alive /\ pc[w] = "shrink"
  /\ list' = [list EXCEPT ![w] = Front(@)]
  /\ pc' = [pc EXCEPT ![w] = "build"]
  /\ UNCHANGED <<alive, connVars, acceptVars, cap, stale, pos, set>>

(* Fault: the loop ends before the last element. *)
BuildEnd_Early(w) ==
  /\ Building(w) /\ pos[w] >= Len(list[w])
  /\ pc' = [pc EXCEPT ![w] = "select"]
  /\ UNCHANGED <<alive, connVars, acceptVars, listVars, pos, set>>

BuildEnd(w) ==
  /\ Building(w) /\ pos[w] > Len(list[w])
  /\ pc' = [pc EXCEPT ![w] = "select"]
  /\ UNCHANGED <<alive, connVars, acceptVars, listVars, pos, set>>

(* An iterator into the freed buffer never equals end(): the loop runs off  *)
(* that buffer and dereferences what lies behind it.                        *)
StaleIterator(w) ==
  /\ alive /\ pc[w] = "build" /\ stale[w]
  /\ Die

Select(w) ==
  /\ alive /\ pc[w] = "select"
  /\ \E ready \in SUBSET set[w] : set' = [set EXCEPT ![w] = ready]
  /\ pc' = [pc EXCEPT ![w] = "read"]
  /\ pos' = [pos EXCEPT ![w] = 1]
  /\ UNCHANGED <<alive, connVars, acceptVars, listVars>>

(* A descriptor of the set is closed: select fails and the thread returns. *)
SelectFails(w) ==
  /\ alive /\ pc[w] = "select"
  /\ \E c \in set[w] : Freed(c)
  /\ pc' = [pc EXCEPT ![w] = "dead"]
  /\ UNCHANGED <<alive, connVars, acceptVars, listVars, pos, set>>

Served(w) == Element(w) \in set[w] /\ HasKind(Element(w), w)

ReadSkip(w) ==
  /\ alive /\ pc[w] = "read" /\ pos[w] <= Len(list[w])
  /\ MayBe(Element(w), ~Served(w))
  /\ pos' = [pos EXCEPT ![w] = @ + 1]
  /\ UNCHANGED <<alive, connVars, acceptVars, listVars, pc, set>>

(* The handler receives a reference to the vector's slot. *)
Handle(w) ==
  /\ alive /\ pc[w] = "read" /\ pos[w] <= Len(list[w])
  /\ MayBe(Element(w), Served(w))
  /\ pc' = [pc EXCEPT ![w] = "handle"]
  /\ stale' = [stale EXCEPT ![w] = FALSE]
  /\ UNCHANGED <<alive, connVars, acceptVars, list, cap, pos, set>>

(* A failed login or token check, CMD_ERROR or a finished transfer.  After  *)
(* CMD_ERROR the main handler reads the connection once more.               *)
RequestClose(w) ==
  /\ alive /\ pc[w] = "handle"
  /\ closeReq' = [closeReq EXCEPT ![Element(w)] = @ \/ ~Freed(Element(w))]
  /\ pc' = [pc EXCEPT ![w] = "closing"]
  /\ UNCHANGED <<alive, obj, kind, pushes, nextId, acceptVars, listVars, pos,
                 set>>

Return(w) ==
  /\ alive /\ pc[w] \in {"handle", "closing"}
  /\ pc' = [pc EXCEPT ![w] = "read"]
  /\ pos' = [pos EXCEPT ![w] = @ + 1]
  /\ stale' = [stale EXCEPT ![w] = FALSE]
  /\ UNCHANGED <<alive, connVars, acceptVars, list, cap, set>>

DanglingAccess(w) ==
  /\ alive
  /\ pc[w] = "handle" \/ (pc[w] = "closing" /\ w = "main")
  /\ Dangling(w)
  /\ Die

ReadEnd(w) ==
  /\ alive /\ pc[w] = "read" /\ pos[w] > Len(list[w])
  /\ pc' = [pc EXCEPT ![w] = "top"]
  /\ UNCHANGED <<alive, connVars, acceptVars, listVars, pos, set>>

-----------------------------------------------------------------------------
AcceptBuild == AcceptDelete \/ AcceptDrop \/ AcceptKeep \/ AcceptBuildEnd
AcceptWait == AcceptSelect \/ AcceptSelectFails \/ AcceptNew \/ AcceptFail
AcceptRead == \/ AcceptSkip \/ AcceptIsClassified \/ AcceptClassify
              \/ \E w \in Worker : AcceptPush(w) \/ AcceptNoPush(w)
              \/ AcceptReadEnd
Acceptor == AcceptBuild \/ AcceptWait \/ AcceptRead

WorkerBuild(w) == BuildBegin(w) \/ BuildKeep(w) \/ Delete(w) \/ Shrink(w)
                  \/ BuildEnd(w) \/ StaleIterator(w)
WorkerRead(w) == Select(w) \/ SelectFails(w) \/ ReadSkip(w) \/ Handle(w)
                 \/ ReadEnd(w)
WorkerHandler(w) == RequestClose(w) \/ Return(w) \/ DanglingAccess(w)

Next ==
  \/ Acceptor
  \/ \E w \in Worker : WorkerBuild(w) \/ WorkerRead(w) \/ WorkerHandler(w)

Spec == Init /\ [][Next]_vars

(* Every select of the three loops has a timeout and every call of the      *)
(* acceptor one of its own, so each thread keeps going.  A handler need not *)
(* return: sends wait in a select without a timeout (WopenSSL.cpp,          *)
(* send_Download_CMD_MSG_FILE).                                             *)
Finish(w) == pc[w] = "closing" /\ Return(w)
Fairness ==
  /\ WF_vars(Acceptor)
  /\ \A w \in Worker : WF_vars(WorkerBuild(w) \/ WorkerRead(w) \/ Finish(w))

FairSpec == Spec /\ Fairness

-----------------------------------------------------------------------------
(* Every variable keeps its type, and no list outgrows its buffer (a push   *)
(* reallocates before it writes).                                           *)
TypeOK ==
  /\ alive \in BOOLEAN
  /\ obj \in [Conn -> {"absent", "live", "freed"}]
  /\ kind \in [Conn -> Worker \cup {"none"}]
  /\ closeReq \in [Conn -> BOOLEAN]
  /\ pushes \in [Conn -> Nat]
  /\ nextId \in 1 .. MaxConn + 1
  /\ connections \in Seq(Conn)
  /\ pcA \in {"build", "select", "accept", "read"} \cup Worker
  /\ iA \in Nat \ {0}
  /\ setA \subseteq Conn
  /\ list \in [Worker -> Seq(Conn)]
  /\ cap \in [Worker -> Nat]
  /\ pc \in [Worker -> {"top", "build", "shrink", "select", "read", "handle",
                        "closing", "dead"}]
  /\ pos \in [Worker -> Nat \ {0}]
  /\ set \in [Worker -> SUBSET Conn]
  /\ stale \in [Worker -> BOOLEAN]
  /\ \A w \in Worker : Len(list[w]) <= cap[w]

Live(c) == obj[c] = "live"
Listed(c, w) == c \in ToSet(list[w])

(* A live connection is where its kind says, whatever the threads' races do *)
(* to the lists: before it is classified the acceptor has it, and no worker *)
(* can serve or free it; later it is in no list but that of its kind.       *)
ListMatchesKind ==
  \A c \in Conn : Live(c) =>
    /\ kind[c] = "none" => c \in ToSet(connections)
    /\ \A w \in Worker : Listed(c, w) => kind[c] = w

(* The acceptor hands a live connection over exactly once: never twice, and *)
(* once it is classified the hand-over is done before the next select,      *)
(* although the connection stays in the acceptor's vector until then.       *)
HandedOverOnce ==
  \A c \in Conn : Live(c) =>
    /\ pushes[c] <= 1
    /\ kind[c] # "none" /\ pushes[c] = 0 => pcA \in Worker /\ Current = c

(* While the acceptor waits it holds no connection a worker owns and none   *)
(* that should be closed: the double ownership ends before each select.     *)
AcceptorLetsGo ==
  pcA = "select" =>
    \A c \in ToSet(connections) :
      Live(c) => kind[c] = "none" /\ ~closeReq[c]

(* A live connection a worker waits for is in the list it then walks.       *)
WatchedIsListed ==
  \A w \in Worker, c \in Conn : Live(c) /\ c \in set[w] => Listed(c, w)

(* The owner of a connection, as the history of its pushes tells it; one    *)
(* that was pushed twice would be shared.                                   *)
OwnerOf(c) ==
  CASE obj[c] = "absent" -> "nobody"
    [] obj[c] = "freed" -> "freed"
    [] Live(c) /\ pushes[c] = 0 -> "acceptor"
    [] Live(c) /\ pushes[c] = 1 -> kind[c]
    [] OTHER -> "shared"

Owners == INSTANCE Custody WITH
            owner <- [c \in Conn |-> OwnerOf(c)],
            asked <- {c \in Conn : closeReq[c]}

(* The three threads together keep custody of every connection: whatever    *)
(* they do to the lists, a connection goes from the acceptor to one worker, *)
(* the one it announced, and only while nobody asked for its end, and it is *)
(* freed once, by whichever thread sees the request first.                  *)
OwnersKept == Owners!Spec

(* A client that announced no kind is freed, whatever the workers do (also  *)
(* when a worker is stuck in a handler or dead).                            *)
RejectedFreed ==
  \A c \in Conn : (Live(c) /\ kind[c] = "none" /\ closeReq[c])
                  ~> (Freed(c) \/ ~alive)

(* A close a worker requested for a connection of its list is carried out,  *)
(* unless the process or the worker's thread ends or the worker stays in    *)
(* another connection's handler for ever.                                   *)
CloseHonoured ==
  \A w \in Worker, c \in Conn :
    [](Live(c) /\ closeReq[c] /\ Listed(c, w) =>
         <>(Freed(c) \/ ~alive \/ pc[w] = "dead" \/ [](pc[w] = "handle")))
=============================================================================
