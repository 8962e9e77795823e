------------------------------- MODULE MainConn -------------------------------
(***************************************************************************)
(* What the main thread does for the clients it serves: login, tokens      *)
(* (_listSession), users on line (_listUser), PING, and the notices of     *)
(* files sent to a user (_listFileTransaction); and the file thread's use  *)
(* of the tokens.  The list of connections and its races are ServerCore's: *)
(* here a hand-over is one step and no other thread touches the list.      *)
(*                                                                         *)
(* A message is a record of the protocol (command and the name it          *)
(* carries).  A token is written as the connection it was granted to: two  *)
(* sessions are taken to have different strings.  countPING is left out:   *)
(* its only increment serves a connection of the other kind, which         *)
(* ServerCore's ListMatchesKind excludes, so timeout_PING() is FALSE.      *)
(***************************************************************************)
EXTENDS Integers, FiniteSets, SequencesExt

CONSTANTS Conn,       \* the main connections of one behaviour
          User,       \* the users of the database
          Nobody,     \* a name that is no user's; also no name, no token
          Faults,     \* of "leave", "stall", "split", "body", "size": what
                      \* clients do
          Requests,   \* connections whose tokens file clients present
          MaxInbox,   \* bound: messages of one client not yet read
          MaxFiles    \* bound: files announced in one behaviour

ASSUME NobodyAssumption == Nobody \notin User \cup Conn
ASSUME FaultsAssumption ==
  Faults \subseteq {"leave", "stall", "split", "body", "size"}
ASSUME RequestsAssumption == Requests \subseteq Conn
ASSUME BoundsAssumption == MaxInbox \in Nat \ {0} /\ MaxFiles \in Nat

VARIABLES
  alive,         \* the process has not ended
  state,         \* connection: "new", "open" or "closed" (deleted)
  list,          \* _listMainConnections
  authen,        \* _ConfirmedState
  user,          \* _username
  closeReq,      \* _closureRequested
  sessions,      \* _listSession
  online,        \* _listUser[]._state
  transactions,  \* _listFileTransaction; writes is history
  inbox,         \* records that arrived and were not read
  partial,       \* a further record has arrived in part
  gone, stalled, \* the client closed its socket, stopped reading
  granted,       \* history: the client has received its token
  files,         \* files announced so far
  pc, pos, set,  \* the main thread's step and position, and _mainConnSet
  fpc,           \* the file thread's step
  token,         \* the token a file connection presents
  seen,          \* history: _listSession since its copy was begun
  copy           \* the tokens of the copy

connVars == <<state, list, authen, user, closeReq>>
tableVars == <<sessions, online, transactions>>
clientVars == <<inbox, partial, gone, stalled, granted, files>>
mainVars == <<pc, pos, set>>
fileVars == <<fpc, token, seen, copy>>
vars == <<alive, connVars, tableVars, clientVars, mainVars, fileVars>>

Message == [cmd : {"login", "ping", "file", "other"}, name : User \cup {Nobody}]
Transaction == [receiver : User \cup {Nobody}, status : BOOLEAN,
                writes : Nat]

Init ==
  /\ alive = TRUE
  /\ state = [c \in Conn |-> "new"]
  /\ list = << >>
  /\ authen = [c \in Conn |-> FALSE]
  /\ user = [c \in Conn |-> Nobody]
  /\ closeReq = [c \in Conn |-> FALSE]
  /\ sessions = << >>
  /\ online = [u \in User |-> FALSE]
  /\ transactions = << >>
  /\ inbox = [c \in Conn |-> << >>]
  /\ partial = [c \in Conn |-> FALSE]
  /\ gone = [c \in Conn |-> FALSE]
  /\ stalled = [c \in Conn |-> FALSE]
  /\ granted = [c \in Conn |-> FALSE]
  /\ files = 0
  /\ pc = "build" /\ pos = 1 /\ set = {}
  /\ fpc = "idle" /\ token = Nobody
  /\ seen = << >> /\ copy = {}

-----------------------------------------------------------------------------
(* The acceptor hands a classified connection over. *)

HandOver(c) ==
  /\ alive /\ state[c] = "new"
  /\ state' = [state EXCEPT ![c] = "open"]
  /\ list' = Append(list, c)
  /\ UNCHANGED <<alive, authen, user, closeReq, tableVars, clientVars,
                 mainVars, fileVars>>

-----------------------------------------------------------------------------
(* Clients: what arrives on a connection's socket.                          *)

Connected(c) == alive /\ state[c] = "open" /\ ~gone[c]

(* Clients log in once, before anything else, and announce files after it;  *)
(* a pinging client is not limited.  A record may arrive in two pieces.     *)
MaySend(c, m) ==
  /\ Connected(c)
  /\ Len(inbox[c]) < MaxInbox
  /\ m.cmd = "login" => ~authen[c] /\ inbox[c] = << >>
  /\ m.cmd = "file" => files < MaxFiles
  /\ m.cmd \in {"ping", "other"} => m.name = Nobody

ClientSends(c, m) ==
  /\ MaySend(c, m)
  /\ inbox' = [inbox EXCEPT ![c] = Append(@, m)]
  /\ files' = IF m.cmd = "file" THEN files + 1 ELSE files
  /\ partial' = [partial EXCEPT ![c] = FALSE]
  /\ UNCHANGED <<alive, connVars, tableVars, gone, stalled, granted, mainVars,
                 fileVars>>

ClientSplits(c) ==
  /\ "split" \in Faults
  /\ Connected(c) /\ Len(inbox[c]) < MaxInbox
  /\ ~partial[c]
  /\ partial' = [partial EXCEPT ![c] = TRUE]
  /\ UNCHANGED <<alive, connVars, tableVars, inbox, gone, stalled, granted,
                 files, mainVars, fileVars>>

ClientLeaves(c) ==
  /\ "leave" \in Faults
  /\ Connected(c)
  /\ gone' = [gone EXCEPT ![c] = TRUE]
  /\ UNCHANGED <<alive, connVars, tableVars, inbox, partial, stalled, granted,
                 files, mainVars, fileVars>>

ClientStalls(c) ==
  /\ "stall" \in Faults
  /\ Connected(c) /\ ~stalled[c]
  /\ stalled' = [stalled EXCEPT ![c] = TRUE]
  /\ UNCHANGED <<alive, connVars, tableVars, inbox, partial, gone, granted,
                 files, mainVars, fileVars>>

(* A write of the server arrives unless the client has left or its buffer   *)
(* is full (SSL_write's result is ignored); to a client that has left it    *)
(* may also raise SIGPIPE, which nothing handles.                           *)
Arrives(c) == ~gone[c] /\ ~stalled[c]
Die ==
  /\ alive' = FALSE
  /\ UNCHANGED <<connVars, tableVars, clientVars, mainVars, fileVars>>

-----------------------------------------------------------------------------
(* Main thread, build_Select_list_For_Main_Connection.                      *)

Current == list[pos]
At(step) == alive /\ pc = step /\ pos <= Len(list)

BuildKeep ==
  /\ At("build") /\ ~closeReq[Current]
  /\ set' = set \cup {Current}
  /\ pos' = pos + 1
  /\ UNCHANGED <<alive, connVars, tableVars, clientVars, pc, fileVars>>

(* The file thread's copy, while it is made, meets every list there is. *)
Noted ==
  seen' = IF fpc = "copying" /\ sessions' # sessions
            THEN Append(seen, sessions') ELSE seen

(* Fault: the session list is left alone. *)
SessionRemoved_Not(c) == UNCHANGED sessions

(* update_Remove_List_Session: the entry of connection c, if there is one. *)
SessionRemoved(c) ==
  \/ \E i \in DOMAIN sessions :
       sessions[i] = c /\ sessions' = RemoveAt(sessions, i)
  \/ c \notin ToSet(sessions) /\ UNCHANGED sessions

BuildRemoveSession ==
  /\ At("build") /\ closeReq[Current]
  /\ SessionRemoved(Current) /\ Noted
  /\ pc' = "close"
  /\ UNCHANGED <<alive, connVars, online, transactions, clientVars, pos, set,
                 fpc, token, copy>>

BuildClose ==
  /\ At("close")
  /\ state' = [state EXCEPT ![Current] = "closed"]
  /\ list' = RemoveAt(list, pos)
  /\ pc' = "build"
  /\ UNCHANGED <<alive, authen, user, closeReq, tableVars, clientVars, pos,
                 set, fileVars>>

BuildEnd ==
  /\ alive /\ pc = "build" /\ pos > Len(list)
  /\ pc' = "select"
  /\ UNCHANGED <<alive, connVars, tableVars, clientVars, pos, set, fileVars>>

(* select() reports the sockets with something to read, the end included.   *)
Readable(c) == inbox[c] # << >> \/ partial[c] \/ gone[c]

Select ==
  /\ alive /\ pc = "select"
  /\ set' = {c \in set : Readable(c)}
  /\ pc' = "read" /\ pos' = 1
  /\ UNCHANGED <<alive, connVars, tableVars, clientVars, fileVars>>

-----------------------------------------------------------------------------
(* Main thread, read_Data_Main_Connections and handle_Main_Connection.      *)

ReadSkip ==
  /\ At("read") /\ Current \notin set
  /\ pos' = pos + 1
  /\ UNCHANGED <<alive, connVars, tableVars, clientVars, pc, set, fileVars>>

ReadEnd ==
  /\ alive /\ pc = "read" /\ pos > Len(list)
  /\ pc' = "build" /\ pos' = 1 /\ set' = {}
  /\ UNCHANGED <<alive, connVars, tableVars, clientVars, fileVars>>

Handles == At("read") /\ Current \in set
Received(cmd) ==
  inbox[Current] # << >> /\ Head(inbox[Current]).cmd = cmd
Consume == inbox' = [inbox EXCEPT ![Current] = IF @ = << >> THEN @ ELSE Tail(@)]
NextConn == pc' = "read" /\ pos' = pos + 1 /\ UNCHANGED set

(* Fault: whoever sends a login is let in. *)
GoodLogin_Any == Received("login")
GoodLogin == Received("login") /\ Head(inbox[Current]).name \in User

(* The token is sent before it is in the list. *)
Login ==
  /\ Handles /\ ~authen[Current] /\ GoodLogin
  /\ \/ /\ authen' = [authen EXCEPT ![Current] = TRUE]
        /\ user' = [user EXCEPT ![Current] = Head(inbox[Current]).name]
        /\ granted' = [granted EXCEPT ![Current] = Arrives(Current)]
        /\ Consume
        /\ pc' = "grant"
        /\ UNCHANGED <<alive, state, list, closeReq, tableVars, partial, gone,
                       stalled, files, pos, set, fileVars>>
     \/ gone[Current] /\ Die

LoginRecorded ==
  /\ At("grant")
  /\ sessions' = Append(sessions, Current) /\ Noted
  /\ online' = [online EXCEPT ![user[Current]] = TRUE]
  /\ NextConn
  /\ UNCHANGED <<alive, connVars, transactions, clientVars, fpc, token, copy>>

(* Wrong credentials, another command, half a record or the end.            *)
LoginRefused ==
  /\ Handles /\ ~authen[Current] /\ ~GoodLogin
  /\ closeReq' = [closeReq EXCEPT ![Current] = TRUE]
  /\ Consume
  /\ NextConn
  /\ UNCHANGED <<alive, state, list, authen, user, tableVars, partial, gone,
                 stalled, granted, files, fileVars>>

(* Fault: index 0 is taken for "none". *)
Waiting_Positive(u) == {i \in DOMAIN transactions :
                 i > 1 /\ transactions[i].receiver = u /\ ~transactions[i].status}

(* check_File_Transaction_History: the first transaction of the user that   *)
(* is not marked.                                                           *)
Waiting(u) == {i \in DOMAIN transactions :
                 transactions[i].receiver = u /\ ~transactions[i].status}
(* Fault: the last one. *)
FirstWaiting_Last(u) == CHOOSE i \in Waiting(u) : \A j \in Waiting(u) : i >= j
FirstWaiting(u) == CHOOSE i \in Waiting(u) : \A j \in Waiting(u) : i <= j

Ping == Handles /\ authen[Current] /\ Received("ping")

PingPong ==
  /\ Ping /\ Waiting(user[Current]) = {}
  /\ \/ /\ Consume
        /\ NextConn
        /\ UNCHANGED <<alive, connVars, tableVars, partial, gone, stalled,
                       granted, files, fileVars>>
     \/ gone[Current] /\ Die

PingNotice ==
  /\ Ping /\ Waiting(user[Current]) # {}
  /\ Consume
  /\ pc' = "notify"
  /\ UNCHANGED <<alive, connVars, tableVars, partial, gone, stalled, granted,
                 files, pos, set, fileVars>>

Written(t) == [t EXCEPT !.status = TRUE, !.writes = @ + 1]

(* send_Download_CMD_MSG_FILE waits without a timeout until the socket      *)
(* takes data (or the connection is broken), then writes, and marks         *)
(* whatever the write returned.                                             *)
Notify ==
  /\ At("notify")
  /\ stalled[Current] => gone[Current]
  /\ \/ /\ LET i == FirstWaiting(user[Current])
           IN  transactions' = [transactions EXCEPT ![i] = Written(@)]
        /\ NextConn
        /\ UNCHANGED <<alive, connVars, sessions, online, clientVars, fileVars>>
     \/ gone[Current] /\ Die

(* The size is converted with std::stoi, which throws when it is no int.    *)
(* Without a transaction when the names are in a record of their own that   *)
(* has come in part.                                                        *)
Announce ==
  /\ Handles /\ authen[Current] /\ Received("file")
  /\ \/ /\ \/ transactions' = Append(transactions,
                [receiver |-> Head(inbox[Current]).name, status |-> FALSE,
                 writes |-> 0])
           \/ "body" \in Faults /\ UNCHANGED transactions
        /\ Consume
        /\ NextConn
        /\ UNCHANGED <<alive, connVars, sessions, online, partial, gone,
                       stalled, granted, files, fileVars>>
     \/ "size" \in Faults /\ Die

(* A command the switch has no case for is dropped: four bytes.  What else  *)
(* its record holds is read as the next commands, that is, as more messages.*)
Ignored ==
  /\ Handles /\ authen[Current] /\ Received("other")
  /\ Consume
  /\ NextConn
  /\ UNCHANGED <<alive, connVars, tableVars, partial, gone, stalled, granted,
                 files, fileVars>>

(* Fault: CMD_ERROR does not end the connection. *)
CloseAsked_Not(c) == UNCHANGED closeReq
CloseAsked(c) == closeReq' = [closeReq EXCEPT ![c] = TRUE]

(* Fault: the user stays on line. *)
WentOffline_Not(c) == UNCHANGED online
WentOffline(c) == online' = [online EXCEPT ![user[c]] = FALSE]

(* get_CMD_HEADER makes a CMD_ERROR of the end and of half a record. *)
CmdError ==
  /\ Handles /\ authen[Current] /\ inbox[Current] = << >>
  /\ CloseAsked(Current)
  /\ WentOffline(Current)
  /\ NextConn
  /\ UNCHANGED <<alive, state, list, authen, user, sessions, transactions,
                 clientVars, fileVars>>

-----------------------------------------------------------------------------
(* File thread: a file connection presents a token, the handler gets a copy *)
(* of _listSession made without the lock, and searches it.                  *)

Request(t) ==
  /\ alive /\ fpc = "idle" /\ granted[t]
  /\ fpc' = "asked" /\ token' = t
  /\ UNCHANGED <<alive, connVars, tableVars, clientVars, mainVars, seen, copy>>

CopyBegin ==
  /\ alive /\ fpc = "asked"
  /\ fpc' = "copying" /\ seen' = << sessions >>
  /\ UNCHANGED <<alive, connVars, tableVars, clientVars, mainVars, token, copy>>

(* The copy takes its length from one of the lists it meets, and each entry *)
(* from any of them.  When the list grew, the buffer that is read may have  *)
(* been freed, and the copy's may be too short: an entry may be no token,   *)
(* or the process end.                                                      *)
Grown == \E k \in 1 .. Len(seen) - 1 : Len(seen[k + 1]) > Len(seen[k])
Slot(i) ==
  {seen[k][i] : k \in {k \in DOMAIN seen : i <= Len(seen[k])}}
    \cup {x \in {Nobody} : Grown}
Copies ==
  UNION {{ToSet(f) : f \in {f \in [1 .. Len(seen[k]) -> Conn \cup {Nobody}] :
                               \A i \in DOMAIN f : f[i] \in Slot(i)}} :
         k \in DOMAIN seen}

CopyEnd ==
  /\ alive /\ fpc = "copying"
  /\ \/ /\ copy' \in Copies
        /\ fpc' = "check"
        /\ UNCHANGED <<alive, connVars, tableVars, clientVars, mainVars, token,
                       seen>>
     \/ Grown /\ Die

CheckToken ==
  /\ alive /\ fpc = "check"
  /\ fpc' = IF token \in copy THEN "accepted" ELSE "refused"
  /\ UNCHANGED <<alive, connVars, tableVars, clientVars, mainVars, token,
                 seen, copy>>

FileDone ==
  /\ alive /\ fpc \in {"accepted", "refused"}
  /\ fpc' = "idle" /\ token' = Nobody
  /\ copy' = {} /\ seen' = << >>
  /\ UNCHANGED <<alive, connVars, tableVars, clientVars, mainVars>>

-----------------------------------------------------------------------------
Client(c) == \/ HandOver(c)
             \/ \E m \in Message : ClientSends(c, m)
             \/ ClientSplits(c) \/ ClientLeaves(c) \/ ClientStalls(c)
Build == BuildKeep \/ BuildRemoveSession \/ BuildClose \/ BuildEnd \/ Select
Read == \/ ReadSkip \/ ReadEnd \/ Login \/ LoginRecorded \/ LoginRefused
        \/ PingPong \/ PingNotice \/ Notify \/ Announce \/ Ignored \/ CmdError
File == CopyBegin \/ CopyEnd \/ CheckToken \/ FileDone

Next == \/ Build \/ Read \/ File
        \/ \E c \in Conn : Client(c)
        \/ \E t \in Requests : Request(t)

Spec == Init /\ [][Next]_vars

(* The two threads run; clients, and a socket that takes no data, need not. *)
FairSpec == Spec /\ WF_vars(Build \/ Read) /\ WF_vars(File)

-----------------------------------------------------------------------------
Open(c) == state[c] = "open"
Authenticated(c) == Open(c) /\ authen[c]

(* Every variable keeps its type; an authenticated connection has the name  *)
(* of a user.                                                               *)
TypeOK ==
  /\ alive \in BOOLEAN
  /\ state \in [Conn -> {"new", "open", "closed"}]
  /\ list \in Seq(Conn)
  /\ authen \in [Conn -> BOOLEAN]
  /\ user \in [Conn -> User \cup {Nobody}]
  /\ \A c \in Conn : authen[c] => user[c] \in User
  /\ closeReq \in [Conn -> BOOLEAN]
  /\ sessions \in Seq(Conn)
  /\ online \in [User -> BOOLEAN]
  /\ transactions \in Seq(Transaction)
  /\ inbox \in [Conn -> Seq(Message)]
  /\ partial \in [Conn -> BOOLEAN]
  /\ gone \in [Conn -> BOOLEAN]
  /\ stalled \in [Conn -> BOOLEAN]
  /\ granted \in [Conn -> BOOLEAN]
  /\ files \in Nat
  /\ pc \in {"build", "close", "select", "read", "grant", "notify"}
  /\ pos \in Nat \ {0}
  /\ set \subseteq Conn
  /\ fpc \in {"idle", "asked", "copying", "check", "accepted", "refused"}
  /\ token \in Conn \cup {Nobody}
  /\ seen \in Seq(Seq(Conn))
  /\ copy \subseteq Conn \cup {Nobody}

InStep(c, step) == pc = step /\ c = Current

(* The session list holds the authenticated open connections, each once.    *)
(* The exceptions are the login that is being recorded and the connection   *)
(* that is being closed: update_Remove_List_Session finds every entry.      *)
SessionsSound ==
  /\ IsInjective(sessions)
  /\ \A c \in Conn :
       c \in ToSet(sessions)
         <=> Authenticated(c) /\ ~InStep(c, "grant") /\ ~InStep(c, "close")

(* Nobody is on line without a connection that is logged in and has had no  *)
(* error: every way out of a login takes the user off line.                 *)
OnlineIsConnected ==
  \A u \in User : online[u] =>
    \E c \in Conn : Authenticated(c) /\ user[c] = u /\ ~closeReq[c]

(* A notice is written once and marked, over all connections of a user, and *)
(* a user's notices go out in the order in which the files were announced.  *)
NoticesInOrder ==
  /\ \A i \in DOMAIN transactions :
       transactions[i].writes = IF transactions[i].status THEN 1 ELSE 0
  /\ \A i, j \in DOMAIN transactions :
       i < j /\ transactions[i].receiver = transactions[j].receiver
             /\ transactions[j].status
         => transactions[i].status

T == INSTANCE Tokens WITH
       Token <- Conn, NoToken <- Nobody,
       valid <- ToSet(sessions),
       used <- {c \in Conn : authen[c] /\ ~InStep(c, "grant")},
       over <- {c \in Conn : state[c] = "closed"},
       step <- CASE fpc = "copying" -> "checking"
                 [] fpc = "check" -> IF token \in copy THEN "accepted" ELSE "refused"
                 [] OTHER -> fpc,
       asked <- token,
       past <- {ToSet(seen[k]) : k \in DOMAIN seen}

(* The session list and the file thread's search of its unlocked copy are a *)
(* service of tokens: a token is withdrawn before its connection is closed, *)
(* and not accepted by a check that begins afterwards, whatever the copy    *)
(* met; a valid one is refused only when the list changed while it was      *)
(* copied.                                                                  *)
TokensKept == T!Spec

(* A connection whose client left is closed, with what was still to be read *)
(* from it handled first, unless the process ends or the thread waits for   *)
(* ever for another client to take a notice.                                *)
GoneDropped ==
  \A c \in Conn :
    [](Open(c) /\ gone[c] =>
         <>(~Open(c) \/ ~alive \/ [](pc = "notify")))

Due(i, c) == /\ i \in DOMAIN transactions /\ authen[c]
             /\ transactions[i].receiver = user[c]
Marked(i) == i \in DOMAIN transactions /\ transactions[i].status

(* A user who keeps pinging gets every notice: each ping that is read takes *)
(* one notice, if there is one.                                             *)
NoticeDelivered ==
  \A i \in 1 .. MaxFiles, c \in Conn :
    []<><<Ping /\ Current = c>>_vars => [](Due(i, c) => <>Marked(i))

=============================================================================
