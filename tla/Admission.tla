------------------------------- MODULE Admission -------------------------------
(***************************************************************************)
(* How a client gets past the acceptor: the TLS handshake, which the one   *)
(* thread that accepts carries out round by round before it looks at any   *)
(* other client, and the command that classifies the connection.  What the *)
(* workers do afterwards is ServerCore's; here they may close what they    *)
(* were given.                                                             *)
(*                                                                         *)
(* The handshake is TLS 1.2 (ssl.cpp:23): the client sends a first flight, *)
(* waits for the answer, sends a second one, waits, and sends its command. *)
(* A flight arrives in pieces, and so may the record of the command.       *)
(* Behind[k] is the number of pieces that the server must have read before *)
(* the client sends piece k; the pieces after those of the handshake are   *)
(* the command.  The result of TLS_handshark is not used: whatever ended   *)
(* it, the connection goes to the list.                                    *)
(***************************************************************************)
EXTENDS Integers, FiniteSets, SequencesExt

CONSTANTS Client,
          Prompt,        \* clients that do their part in less than 3 seconds
          Behind,
          Pieces,        \* those of the handshake
          Descriptors    \* how many connections the process may have open

ASSUME ClientAssumption == Prompt \subseteq Client
ASSUME BehindAssumption ==
  /\ Behind \in Seq(Nat) /\ Pieces \in 1 .. Len(Behind) - 1
  /\ \A k \in 1 .. Pieces : Behind[k] < k
  /\ \A k \in Pieces + 1 .. Len(Behind) : Behind[k] = Pieces
ASSUME DescriptorsAssumption == Descriptors \in Nat

VARIABLES
  state,      \* "away", "queued", "shaking", "listed", "handed", "closed"
  backlog,    \* connections that wait to be accepted
  closing,    \* those with _closureRequested
  broken,     \* those whose SSL object has met an error
  sent, got,  \* pieces the client has sent, and SSL has read
  full, room, \* SSL holds a part of its answer; the socket has room for it
  left,       \* clients that closed their socket
  silent,     \* clients that will not send or read any more
  pc,         \* the acceptor's step; "read" and "write" are what a round
              \* of the handshake waits for
  ready       \* _connectionsSet, without the listening socket

clientVars == <<sent, left, silent>>
sslVars == <<broken, got, full, room>>
vars == <<state, backlog, closing, sslVars, clientVars, pc, ready>>

Init ==
  /\ state = [c \in Client |-> "away"]
  /\ backlog = << >>
  /\ closing = {} /\ broken = {} /\ full = {} /\ room = {}
  /\ left = {} /\ silent = {}
  /\ sent = [c \in Client |-> 0] /\ got = [c \in Client |-> 0]
  /\ pc = "build" /\ ready = {}

In(s) == {c \in Client : state[c] = s}
Current == CHOOSE c \in Client : state[c] = "shaking"
Finished(c) == got[c] >= Pieces /\ c \notin broken \cup full
(* SSL_read has met a part of the command. *)
Cut(c) == Pieces < got[c] /\ got[c] < Len(Behind)
OutOfDescriptors ==
  Cardinality(In("shaking") \cup In("listed") \cup In("handed")) >= Descriptors

-----------------------------------------------------------------------------
(* Clients. *)

Connect(c) ==
  /\ state[c] = "away"
  /\ state' = [state EXCEPT ![c] = "queued"]
  /\ backlog' = Append(backlog, c)
  /\ UNCHANGED <<closing, sslVars, clientVars, pc, ready>>

Active(c) == state[c] \notin {"away", "closed"} /\ c \notin left \cup silent

Send(c) ==
  /\ Active(c) /\ sent[c] < Len(Behind)
  /\ got[c] >= Behind[sent[c] + 1] /\ c \notin full \cup broken
  /\ sent' = [sent EXCEPT ![c] = @ + 1]
  /\ UNCHANGED <<state, backlog, closing, sslVars, left, silent, pc, ready>>

(* It reads what fills the socket. *)
Drain(c) ==
  /\ Active(c) /\ c \in full \ room
  /\ room' = room \cup {c}
  /\ UNCHANGED <<state, backlog, closing, broken, got, full, clientVars, pc, ready>>

(* A connection that waits to be accepted may be reset: it is not there any *)
(* more when accept() is called.                                            *)
Leave(c) ==
  /\ Active(c) /\ c \notin Prompt
  /\ left' = left \cup {c}
  /\ \/ UNCHANGED <<state, backlog>>
     \/ /\ state[c] = "queued"
        /\ state' = [state EXCEPT ![c] = "closed"]
        /\ \E i \in DOMAIN backlog :
             backlog[i] = c /\ backlog' = RemoveAt(backlog, i)
  /\ UNCHANGED <<closing, sslVars, sent, silent, pc, ready>>

FallSilent(c) ==
  /\ Active(c) /\ c \notin Prompt
  /\ silent' = silent \cup {c}
  /\ UNCHANGED <<state, backlog, closing, sslVars, sent, left, pc, ready>>

-----------------------------------------------------------------------------
(* The workers. *)

WorkerCloses(c) ==
  /\ state[c] = "handed"
  /\ state' = [state EXCEPT ![c] = "closed"]
  /\ UNCHANGED <<backlog, closing, sslVars, clientVars, pc, ready>>

-----------------------------------------------------------------------------
(* The acceptor: build_Select_List_For_Connections and select().            *)

Build ==
  /\ pc = "build"
  /\ state' = [c \in Client |-> IF state[c] = "listed" /\ c \in closing
                                THEN "closed" ELSE state[c]]
  /\ pc' = "select"
  /\ UNCHANGED <<backlog, closing, sslVars, clientVars, ready>>

Readable(c) == sent[c] > got[c] \/ c \in left

(* It returns without a descriptor when _serverTimeout has passed. *)
Select ==
  /\ pc = "select"
  /\ ready' = {c \in In("listed") : Readable(c)}
  /\ pc' = IF backlog # << >> THEN "door" ELSE "walk"
  /\ UNCHANGED <<state, backlog, closing, sslVars, clientVars>>

-----------------------------------------------------------------------------
(* handle_New_Connection and TLS_handshark.                                 *)

(* accept() fails: the pass ends, and nobody is classified in it. *)
AcceptFails ==
  /\ pc = "door" /\ (backlog = << >> \/ OutOfDescriptors)
  /\ pc' = "build" /\ ready' = {}
  /\ UNCHANGED <<state, backlog, closing, sslVars, clientVars>>

Accept ==
  /\ pc = "door" /\ backlog # << >> /\ ~OutOfDescriptors
  /\ state' = [state EXCEPT ![Head(backlog)] = "shaking"]
  /\ backlog' = Tail(backlog)
  /\ pc' = "accept"
  /\ UNCHANGED <<closing, sslVars, clientVars, ready>>

(* SSL_accept reads all that has arrived, up to the end of the handshake.   *)
Shaken(c) == IF sent[c] < Pieces THEN sent[c] ELSE Pieces
Reads(c) == got' = [got EXCEPT ![c] = Shaken(c)]
Stuck(c) == c \in full \ room

(* Whatever SSL_accept or select() returned. *)
Admit(c) == state' = [state EXCEPT ![c] = "listed"] /\ pc' = "walk"

SSLAccept(c) ==
  /\ pc = "accept" /\ c = Current
  /\ UNCHANGED <<backlog, closing, clientVars, ready>>

(* SSL_ERROR_NONE. *)
AcceptDone(c) ==
  /\ SSLAccept(c) /\ ~Stuck(c) /\ Shaken(c) = Pieces
  /\ Reads(c) /\ Admit(c)
  /\ full' = full \ {c} /\ room' = room \ {c}
  /\ UNCHANGED broken

(* SSL_ERROR_WANT_WRITE: the answer does not fit into the socket. *)
AcceptWantsWrite(c) ==
  /\ SSLAccept(c) /\ c \notin left
  /\ Stuck(c) \/ sent[c] > got[c]
  /\ Reads(c) /\ full' = full \cup {c} /\ room' = room \ {c}
  /\ pc' = "write"
  /\ UNCHANGED <<state, broken>>

(* SSL_ERROR_WANT_READ. *)
AcceptWantsRead(c) ==
  /\ SSLAccept(c) /\ ~Stuck(c) /\ Shaken(c) < Pieces
  /\ sent[c] > got[c] \/ c \notin left
  /\ Reads(c) /\ full' = full \ {c} /\ room' = room \ {c}
  /\ pc' = "read"
  /\ UNCHANGED <<state, broken>>

(* SSL_ERROR_ZERO_RETURN, SSL_ERROR_SYSCALL, or the error of a piece that   *)
(* is no part of a handshake.                                               *)
AcceptError(c) ==
  /\ SSLAccept(c) /\ c \notin Prompt
  /\ c \in left \/ sent[c] > got[c]
  /\ broken' = broken \cup {c} /\ Admit(c)
  /\ UNCHANGED <<got, full, room>>

(* SIGPIPE: OpenSSL writes an answer to a client that has left.  The end of  *)
(* the process closes every connection.                                     *)
Die ==
  /\ state' = [c \in Client |-> "closed"] /\ backlog' = << >>
  /\ pc' = "dead" /\ ready' = {}
  /\ UNCHANGED <<closing, sslVars, clientVars>>

AcceptPipe(c) ==
  /\ pc = "accept" /\ c = Current /\ c \in left
  /\ sent[c] > got[c] \/ c \in full
  /\ Die

Round(c) == pc \in {"read", "write"} /\ c = Current
Expected(c) == c \in left \/ (IF pc = "read" THEN sent[c] > got[c] ELSE c \in room)

RoundReady(c) ==
  /\ Round(c) /\ Expected(c)
  /\ pc' = "accept"
  /\ UNCHANGED <<state, backlog, closing, sslVars, clientVars, ready>>

(* Fault: a timeout begins another round. *)
TimedOut_Again(c) == pc' = "accept" /\ UNCHANGED state
TimedOut(c) == Admit(c)

RoundTimeout(c) ==
  /\ Round(c) /\ ~Expected(c) /\ c \notin Prompt
  /\ TimedOut(c)
  /\ UNCHANGED <<backlog, closing, sslVars, clientVars, ready>>

-----------------------------------------------------------------------------
(* classify_connection.                                                     *)

(* Fault: whether the socket was reported is not looked at. *)
Walks_All(c) == pc = "walk" /\ state[c] = "listed"
Walks(c) == pc = "walk" /\ c \in ready
(* Fault: a connection that was handled is looked at again. *)
Walked_Again(c) == UNCHANGED ready
Walked(c) == ready' = ready \ {c}

(* Fault: the connection stays as it is. *)
Refused_Not(c) == UNCHANGED closing
Refused(c) == closing' = closing \cup {c}

(* SSL_read returns the command: all of its record has arrived.             *)
Classify(c) ==
  /\ Walks(c) /\ Finished(c) /\ got[c] < sent[c] /\ sent[c] = Len(Behind)
  /\ got' = [got EXCEPT ![c] = sent[c]]
  /\ \/ state' = [state EXCEPT ![c] = "handed"] /\ UNCHANGED closing
     \/ /\ c \notin Prompt     \* another command
        /\ Refused(c) /\ UNCHANGED state
  /\ Walked(c)
  /\ UNCHANGED <<backlog, broken, full, room, clientVars, pc>>

(* SSL_read fails in the middle of a handshake, in which whatever it reads  *)
(* is of no use any more.                                                   *)
ReadsHandshake(c) == ~Finished(c) /\ UNCHANGED got

(* SSL_read fails and keeps what it has read: a part of the record of the   *)
(* command, or nothing, because the client has left.                        *)
ReadsPart(c) ==
  /\ Finished(c) /\ (sent[c] < Len(Behind) \/ sent[c] = got[c])
  /\ got' = [got EXCEPT ![c] = sent[c]]

RequestClose(c) ==
  /\ Walks(c) /\ (ReadsHandshake(c) \/ ReadsPart(c))
  /\ Refused(c)
  /\ Walked(c)
  /\ UNCHANGED <<state, backlog, broken, full, room, clientVars, pc>>

(* The same when classify_connection replies, whatever it has read.         *)
ReplyPipe(c) ==
  /\ Walks(c) /\ c \in left
  /\ Die

WalkEnd ==
  /\ pc = "walk" /\ ready = {}
  /\ pc' = "build"
  /\ UNCHANGED <<state, backlog, closing, sslVars, clientVars, ready>>

-----------------------------------------------------------------------------
Shakes(c) == \/ AcceptDone(c) \/ AcceptWantsWrite(c) \/ AcceptWantsRead(c)
             \/ AcceptError(c) \/ AcceptPipe(c)
             \/ RoundReady(c) \/ RoundTimeout(c)
Acceptor == \/ Build \/ Select \/ Accept \/ AcceptFails \/ WalkEnd
            \/ \E c \in Client : \/ Shakes(c) \/ Classify(c)
                               \/ RequestClose(c) \/ ReplyPipe(c)

Answers(c) == Send(c) \/ Drain(c)

Next == \/ Acceptor
        \/ \E c \in Client : \/ Connect(c) \/ Answers(c) \/ Leave(c)
                             \/ FallSilent(c) \/ WorkerCloses(c)

Spec == Init /\ [][Next]_vars

(* The acceptor's thread runs, and select() has a timeout of three seconds. *)
(* A client that has not fallen silent goes on, at its own pace; nobody     *)
(* need connect, and no worker need close.                                  *)
FairSpec == Spec /\ WF_vars(Acceptor) /\ \A c \in Client : WF_vars(Answers(c))

-----------------------------------------------------------------------------
(* A connection is in one place, and SSL has read no more than was sent.    *)
TypeOK ==
  /\ state \in [Client -> {"away", "queued", "shaking", "listed", "handed", "closed"}]
  /\ backlog \in Seq(Client) /\ IsInjective(backlog) /\ ToSet(backlog) = In("queued")
  /\ closing \cup broken \cup left \cup silent \subseteq Client
  /\ room \subseteq full /\ full \subseteq Client
  /\ sent \in [Client -> 0 .. Len(Behind)]
  /\ \A c \in Client : got[c] \in 0 .. sent[c]
  /\ pc \in {"build", "select", "door", "accept", "read", "write", "walk", "dead"}
  /\ Cardinality(In("shaking")) = IF pc \in {"accept", "read", "write"} THEN 1 ELSE 0
  /\ ready \subseteq In("listed")

(* The acceptor does not look at what a handshake came to: it closes whom   *)
(* it cannot read a command from.  Of the clients that do their part in     *)
(* time that meets only those of whose command a part has come when it is   *)
(* read: when such a client is listed its handshake is complete and         *)
(* answered, and when it is read, in a later pass of its own select(),      *)
(* something of its command has arrived, whatever the acceptor did for      *)
(* others meanwhile.                                                        *)
PromptNotRefused == \A c \in Prompt \cap (closing \cup broken) : Cut(c)

(* A client that does its part in time is handed to a worker, although the  *)
(* acceptor waits for every other client's handshake first: each of its     *)
(* waits has an end, and none of them costs the prompt client its turn.  (It *)
(* is closed when its worker closes it, or the process ends.)  Left out is  *)
(* whoever sent a command that was read before all of it had come.          *)
(* Without a free descriptor accept() fails in every pass, and nobody is    *)
(* classified any more.                                                     *)
PromptHandedOver ==
  \A c \in Prompt :
    (state[c] = "queued" ~>
       (state[c] \in {"handed", "closed"} /\ c \notin closing) \/ Cut(c))
      \/ <>[]OutOfDescriptors

(* Only a client that has fallen silent, or one that waits for an answer of *)
(* which SSL holds the rest, stays with the acceptor for ever: who has      *)
(* left, who was too slow and goes on, and who says something else is       *)
(* closed, whichever way its handshake ended.                               *)
OnlySilentStay ==
  \A c \in Client :
    (state[c] = "listed" ~> state[c] # "listed" \/ c \in silent \cup full)
      \/ <>[]OutOfDescriptors
=============================================================================
