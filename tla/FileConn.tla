-------------------------------- MODULE FileConn --------------------------------
(***************************************************************************)
(* What the file thread does for the connections of its list: a client     *)
(* presents a token and uploads a file, which ends with CMD_UPLOAD_FINISH  *)
(* and CMD_SAVE_FILE_FINISH, or downloads one.  The list and its races are *)
(* ServerCore's, the check of the token is MainConn's.                     *)
(*                                                                         *)
(* The file a connection uploads is named after the connection (two        *)
(* uploads of one name at a time are what fileHandle.cpp:185 warns of);    *)
(* its bytes are 1, 2, ..  A socket carries TLS records: select() sees     *)
(* what is still in the socket, SSL_read hands out the rest of the record  *)
(* it has begun before it takes the next one, and fails when only a part   *)
(* of that has come.  The replies of a few bytes are taken at once by a    *)
(* client that is there, but for the last one of a download.               *)
(***************************************************************************)
EXTENDS Integers, SequencesExt

CONSTANTS Up, Down,    \* connections that upload, that download
          Faults,      \* of "leave", "stall", "split", "part", "open", "token",
                       \* "full"
          Buffer,      \* BUFFER_SIZE, BUFFSIZE
          Nobody,      \* no connection
          MaxSize,     \* bound: the longest file
          MaxRecord    \* bound: the longest record of data

Conn == Up \cup Down

ASSUME ConnAssumption == Up \cap Down = {} /\ Nobody \notin Conn
ASSUME FaultsAssumption ==
  Faults \subseteq {"leave", "stall", "split", "part", "open", "token", "full"}
ASSUME SizesAssumption ==
  Buffer \in Nat \ {0} /\ MaxSize \in Nat /\ MaxRecord \in Nat \ {0}

VARIABLES
  alive,        \* the process has not ended
  state,        \* connection: "new", "open" or "closed" (deleted)
  closing,      \* the connections with _closureRequested
  uploading,    \* the connections with _isUploadConnection
  received,     \* FileHandle::_dataReceived
  unopened,     \* the connections whose output stream has failed to open
  buffer,       \* what a connection's output stream has not yet written
  disk,         \* the file of an upload, as other programs see it
  wire,         \* records in the socket
  pend,         \* bytes of a record that SSL_read has begun
  part,         \* sockets that hold a part of a record, behind the whole ones
  phase,        \* client: "idle", "begun", "header", "asked", "finished"
  size, sent,   \* the length of an upload, and how much the client has sent
  wants, after, \* the file of a download; asked for after it was saved
  gone, stalled,\* clients that closed their socket, that stopped reading
  acked,        \* uploads whose client has got CMD_SAVE_FILE_FINISH
  got, ended,   \* bytes a download has got; it has got CMD_DOWNLOAD_FINISH
  pc, ready,    \* the file thread's step, and _fileConnSet
  cur, src,     \* the download that is sent, and the file it reads
  next, stuck   \* the next chunk, and one that OpenSSL holds back

connVars == <<state, closing, uploading, received, unopened>>
fileVars == <<buffer, disk>>
netVars == <<wire, pend, part>>
clientVars == <<phase, size, sent, wants, after, gone, stalled>>
replyVars == <<acked, got, ended>>
sendVars == <<cur, src, next, stuck>>
vars == <<alive, connVars, fileVars, netVars, clientVars, replyVars,
          pc, ready, sendVars>>

Record == [type : {"request", "header", "body", "data", "finish"},
           bytes : Seq(Nat)]
Message(type) == [type |-> type, bytes |-> << 0 >>]
Bytes(m, n) == [i \in 1 .. n - m + 1 |-> m + i - 1]

Init ==
  /\ alive = TRUE
  /\ state = [c \in Conn |-> "new"]
  /\ closing = {} /\ uploading = {} /\ unopened = {}
  /\ received = [u \in Up |-> 0]
  /\ buffer = [u \in Up |-> << >>]
  /\ disk = [u \in Up |-> << >>]
  /\ wire = [c \in Conn |-> << >>]
  /\ pend = [c \in Conn |-> << >>]
  /\ part = {}
  /\ phase = [c \in Conn |-> "idle"]
  /\ size = [u \in Up |-> 0] /\ sent = [u \in Up |-> 0]
  /\ wants = [d \in Down |-> Nobody] /\ after = [d \in Down |-> FALSE]
  /\ gone = {} /\ stalled = {}
  /\ acked = {} /\ got = [d \in Down |-> << >>] /\ ended = {}
  /\ pc = "build" /\ ready = {}
  /\ cur = Nobody /\ src = << >> /\ next = 1 /\ stuck = << >>

-----------------------------------------------------------------------------
(* The acceptor hands a classified connection over. *)

HandOver(c) ==
  /\ alive /\ state[c] = "new"
  /\ state' = [state EXCEPT ![c] = "open"]
  /\ UNCHANGED <<alive, closing, uploading, received, unopened, fileVars,
                 netVars, clientVars, replyVars, pc, ready, sendVars>>

-----------------------------------------------------------------------------
(* Clients. *)

Connected(c) == alive /\ state[c] = "open" /\ c \notin gone
Arrive(c, m) == wire' = [wire EXCEPT ![c] = Append(@, m)] /\ part' = part \ {c}
serverVars == <<connVars, fileVars, pend, replyVars, pc, ready, sendVars>>

(* A request is one record, or its command comes in a record of its own.    *)
Requests(c) ==
  \/ Arrive(c, Message("request")) /\ phase' = [phase EXCEPT ![c] = "asked"]
  \/ /\ "split" \in Faults
     /\ Arrive(c, Message("header")) /\ phase' = [phase EXCEPT ![c] = "header"]

(* The request is written, and has arrived, or a part of it has.            *)
Ask(c) ==
  /\ Connected(c) /\ phase[c] = "idle"
  /\ \/ Requests(c)
     \/ /\ "part" \in Faults
        /\ part' = part \cup {c} /\ phase' = [phase EXCEPT ![c] = "begun"]
        /\ UNCHANGED wire
  /\ \/ /\ c \in Up
        /\ \E n \in 0 .. MaxSize : size' = [size EXCEPT ![c] = n]
        /\ UNCHANGED <<wants, after>>
     \/ /\ c \in Down
        /\ \E u \in Up : /\ wants' = [wants EXCEPT ![c] = u]
                         /\ after' = [after EXCEPT ![c] = u \in acked]
        /\ UNCHANGED size
  /\ UNCHANGED <<alive, serverVars, sent, gone, stalled>>

AskRest(c) ==
  /\ Connected(c) /\ phase[c] = "begun"
  /\ Requests(c)
  /\ UNCHANGED <<alive, serverVars, size, sent, wants, after, gone, stalled>>

AskBody(c) ==
  /\ Connected(c) /\ phase[c] = "header"
  /\ Arrive(c, Message("body"))
  /\ phase' = [phase EXCEPT ![c] = "asked"]
  /\ UNCHANGED <<alive, serverVars, size, sent, wants, after, gone, stalled>>

SendData(u) ==
  /\ Connected(u) /\ phase[u] = "asked"
  /\ \E n \in 1 .. MaxRecord :
       /\ sent[u] + n <= size[u]
       /\ Arrive(u, [type |-> "data", bytes |-> Bytes(sent[u] + 1, sent[u] + n)])
       /\ sent' = [sent EXCEPT ![u] = @ + n]
  /\ UNCHANGED <<alive, serverVars, phase, size, wants, after, gone, stalled>>

SendFinish(u) ==
  /\ Connected(u) /\ phase[u] = "asked" /\ sent[u] = size[u]
  /\ Arrive(u, Message("finish"))
  /\ phase' = [phase EXCEPT ![u] = "finished"]
  /\ UNCHANGED <<alive, serverVars, size, sent, wants, after, gone, stalled>>

(* More has arrived of a request that was begun, or a part of the next      *)
(* record.                                                                  *)
ArriveInPart(c) ==
  /\ "part" \in Faults /\ Connected(c)
  /\ phase[c] \in {"begun", "header"} \/ (c \in Up /\ phase[c] = "asked")
  /\ part' = part \cup {c}
  /\ UNCHANGED <<alive, serverVars, wire, clientVars>>

Leave(c) ==
  /\ "leave" \in Faults /\ Connected(c)
  /\ gone' = gone \cup {c}
  /\ UNCHANGED <<alive, serverVars, wire, part, phase, size, sent, wants, after,
                 stalled>>

Stall(d) ==
  /\ "stall" \in Faults /\ Connected(d) /\ d \notin stalled
  /\ stalled' = stalled \cup {d}
  /\ UNCHANGED <<alive, serverVars, wire, part, phase, size, sent, wants, after,
                 gone>>

(* A write to a client that has left may raise SIGPIPE; an exception has no *)
(* handler in any thread.                                                   *)
Die ==
  /\ alive' = FALSE
  /\ UNCHANGED <<connVars, fileVars, netVars, clientVars, replyVars, pc, ready,
                 sendVars>>

-----------------------------------------------------------------------------
(* File thread: the walk over the list, and select().                       *)

(* Fault: the stream's last bytes are not written when it is closed. *)
Flushed_Not(u) == UNCHANGED disk

(* ~FileHandle closes the output stream. *)
Flushed(u) == disk' = [disk EXCEPT ![u] = @ \o buffer[u]]

Close(c) ==
  /\ alive /\ pc = "build" /\ c \in closing /\ state[c] = "open"
  /\ state' = [state EXCEPT ![c] = "closed"]
  /\ \/ c \in Up /\ Flushed(c) /\ buffer' = [buffer EXCEPT ![c] = << >>]
     \/ c \in Down /\ UNCHANGED fileVars
  /\ UNCHANGED <<alive, closing, uploading, received, unopened, netVars,
                 clientVars, replyVars, pc, ready, sendVars>>

(* Fault: select() before the walk has closed what was finished. *)
Walked_Not == TRUE
Walked == \A c \in closing : state[c] # "open"

(* select() does not see what SSL_read has begun. *)
Readable(c) == wire[c] # << >> \/ c \in part \cup gone

Select ==
  /\ alive /\ pc = "build" /\ Walked
  /\ pc' = "read"
  /\ ready' = {c \in Conn : state[c] = "open" /\ Readable(c)}
  /\ UNCHANGED <<alive, connVars, fileVars, netVars, clientVars, replyVars,
                 sendVars>>

ReadEnd ==
  /\ alive /\ pc = "read" /\ ready = {}
  /\ pc' = "build"
  /\ UNCHANGED <<alive, connVars, fileVars, netVars, clientVars, replyVars,
                 ready, sendVars>>

-----------------------------------------------------------------------------
(* File thread: a connection that has not said what it wants.               *)

Handles(c) == alive /\ pc = "read" /\ c \in ready
Handled(c) == ready' = ready \ {c}

AtRequest(c) == Handles(c) /\ c \notin uploading /\ wire[c] # << >>
Whole(c) == Head(wire[c]).type = "request" \/ Len(wire[c]) > 1
Requested(c) ==
  wire' = [wire EXCEPT ![c] =
             IF Head(@).type = "request" THEN Tail(@) ELSE Tail(Tail(@))]

(* The result -1 of SSL_read is used as the length of a std::string. *)
BodyMissing(c) == AtRequest(c) /\ ~Whole(c) /\ Die

(* SSL_read fails and keeps what has come of the record. *)
ReadPart(c) == part' = part \ {c} /\ UNCHANGED <<wire, pend>>

(* CMD_ERROR has no case. *)
NoRequest(c) ==
  /\ Handles(c) /\ c \notin uploading /\ wire[c] = << >>
  /\ ReadPart(c) /\ Handled(c)
  /\ UNCHANGED <<alive, connVars, fileVars, clientVars, replyVars, pc, sendVars>>

Refuse(c) ==
  /\ "token" \in Faults /\ AtRequest(c) /\ Whole(c)
  /\ closing' = closing \cup {c}
  /\ Requested(c) /\ Handled(c)
  /\ UNCHANGED <<alive, state, uploading, received, unopened, fileVars, pend, part,
                 clientVars, replyVars, pc, sendVars>>

(* Whether the file could be opened goes to the log only: CMD_UPLOAD_READY  *)
(* is sent in both cases.                                                   *)
StartUpload(u) ==
  /\ AtRequest(u) /\ Whole(u)
  /\ \/ /\ uploading' = uploading \cup {u}
        /\ \/ UNCHANGED unopened
           \/ "open" \in Faults /\ unopened' = unopened \cup {u}
        /\ Requested(u) /\ Handled(u)
        /\ UNCHANGED <<alive, state, closing, received, fileVars, pend, part,
                       clientVars, replyVars, pc, sendVars>>
     \/ u \in gone /\ Die

-----------------------------------------------------------------------------
(* File thread: wirte_Data.                                                 *)

(* Fault: the upload is complete when more has come than was announced. *)
AllReceived_More(u) == received[u] > size[u]
AllReceived(u) == received[u] = size[u]

WriteData(u) == Handles(u) /\ u \in uploading /\ ~AllReceived(u)

(* At most a buffer, and nothing behind the file's end. *)
Want(u) ==
  IF received[u] + Buffer <= size[u] THEN Buffer ELSE size[u] - received[u]

(* SSL_read: the record it takes from, and what it takes of it.             *)
From(u) == IF pend[u] # << >> THEN pend[u] ELSE Head(wire[u]).bytes
Taken(u) == SubSeq(From(u), 1, IF Len(From(u)) < Want(u) THEN Len(From(u)) ELSE Want(u))
SSLRead(u) ==
  /\ pend' = [pend EXCEPT ![u] = SubSeq(From(u), Len(Taken(u)) + 1, Len(From(u)))]
  /\ wire' = IF pend[u] # << >> THEN wire ELSE [wire EXCEPT ![u] = Tail(@)]
  /\ UNCHANGED part

(* Fault: the block's last byte is left out. *)
Written_Short(u) == SubSeq(Taken(u), 1, Len(Taken(u)) - 1)
Written(u) == Taken(u)

(* Fault: a whole buffer is counted, whatever SSL_read returned. *)
Counted_Buffer(u) == Buffer
Counted(u) == Len(Taken(u))

(* writeFileBlock: the stream buffers, and writes when it likes.            *)
WriteBlock(u) ==
  /\ WriteData(u) /\ u \notin unopened
  /\ pend[u] # << >> \/ wire[u] # << >>
  /\ SSLRead(u)
  /\ received' = [received EXCEPT ![u] = @ + Counted(u)]
  /\ \/ /\ buffer' = [buffer EXCEPT ![u] = @ \o Written(u)]
        /\ UNCHANGED disk
     \/ /\ disk' = [disk EXCEPT ![u] = @ \o buffer[u] \o Written(u)]
        /\ buffer' = [buffer EXCEPT ![u] = << >>]
  /\ Handled(u)
  /\ UNCHANGED <<alive, state, closing, uploading, unopened, clientVars,
                 replyVars, pc, sendVars>>

(* A stream that is not open takes nothing, and nothing is counted.         *)
DropBlock(u) ==
  /\ WriteData(u) /\ u \in unopened
  /\ pend[u] # << >> \/ wire[u] # << >>
  /\ SSLRead(u)
  /\ Handled(u)
  /\ UNCHANGED <<alive, connVars, fileVars, clientVars, replyVars, pc, sendVars>>

(* The client has left, or a part of the next record has come: no data,     *)
(* which is logged.                                                         *)
ReadNothing(u) ==
  /\ WriteData(u) /\ pend[u] = << >> /\ wire[u] = << >>
  /\ ReadPart(u) /\ Handled(u)
  /\ UNCHANGED <<alive, connVars, fileVars, clientVars, replyVars, pc, sendVars>>

(* The call after the last block finds the upload complete and reads the    *)
(* command that should follow it.  Close is requested in every case, and    *)
(* the upload is acknowledged if this is the command and has come whole.    *)
Announced(u) == wire[u] # << >> /\ Head(wire[u]).type = "finish"
CommandRead(u) ==
  IF wire[u] = << >> THEN ReadPart(u)
  ELSE wire' = [wire EXCEPT ![u] = Tail(@)] /\ UNCHANGED <<pend, part>>

Finish(u) ==
  /\ Handles(u) /\ u \in uploading /\ AllReceived(u)
  /\ \/ /\ closing' = closing \cup {u}
        /\ acked' = IF Announced(u) /\ u \notin gone THEN acked \cup {u} ELSE acked
        /\ CommandRead(u) /\ Handled(u)
        /\ UNCHANGED <<alive, state, uploading, received, unopened, fileVars,
                       clientVars, got, ended, pc, sendVars>>
     \/ Announced(u) /\ u \in gone /\ Die

-----------------------------------------------------------------------------
(* File thread: handle_CMD_DOWNLOAD_FILE and send_Data, which return when    *)
(* the file has been sent.  A file that is not there has size 0.            *)

StartDownload(d) ==
  /\ AtRequest(d) /\ Whole(d)
  /\ \/ /\ cur' = d /\ src' = disk[wants[d]] /\ next' = 1
        /\ pc' = "send"
        /\ Requested(d)
        /\ UNCHANGED <<alive, connVars, fileVars, pend, part, clientVars, replyVars,
                       ready, stuck>>
     \/ d \in gone /\ Die

(* Fault: the rest of the file that fills no chunk is not counted. *)
Chunks_Full == Len(src) \div Buffer
Chunks == (Len(src) + Buffer - 1) \div Buffer
Chunk == SubSeq(src, (next - 1) * Buffer + 1,
                IF next * Buffer <= Len(src) THEN next * Buffer ELSE Len(src))

Delivered(chunk) == got' = [got EXCEPT ![cur] = @ \o chunk]

(* Fault: the reader does not move on. *)
NextChunk_Again == UNCHANGED next
NextChunk == next' = next + 1

(* SSL_write.  A chunk is taken, or held back because only a part of it     *)
(* fitted into the socket; a further call sends what was held back and      *)
(* reports its own chunk as sent, or is an error when that is the shorter   *)
(* one.  The result goes to the log.                                        *)
SSLWrite ==
  \/ cur \in gone /\ UNCHANGED <<got, stuck>>
  \/ /\ cur \notin gone /\ stuck = << >>
     /\ \/ Delivered(Chunk) /\ UNCHANGED stuck
        \/ "full" \in Faults /\ stuck' = Chunk /\ UNCHANGED got
  \/ /\ cur \notin gone /\ stuck # << >>
     /\ \/ Len(Chunk) >= Len(stuck) /\ Delivered(stuck) /\ stuck' = << >>
        \/ UNCHANGED <<got, stuck>>

(* SF_SSL_WRITE waits without a timeout until the socket takes data.        *)
SendChunk ==
  /\ alive /\ pc = "send" /\ next <= Chunks
  /\ cur \in stalled => cur \in gone
  /\ \/ /\ SSLWrite
        /\ NextChunk
        /\ UNCHANGED <<alive, connVars, fileVars, netVars, clientVars, acked,
                       ended, pc, ready, cur, src>>
     \/ cur \in gone /\ Die

SendEnd ==
  /\ alive /\ pc = "send" /\ next > Chunks
  /\ \/ /\ closing' = closing \cup {cur}
        /\ \/ /\ cur \notin gone \cup stalled /\ stuck = << >>
              /\ ended' = ended \cup {cur}
           \/ /\ cur \in gone \cup stalled \/ stuck # << >> \/ "full" \in Faults
              /\ UNCHANGED ended
        /\ Handled(cur)
        /\ pc' = "read"
        /\ cur' = Nobody /\ src' = << >> /\ next' = 1 /\ stuck' = << >>
        /\ UNCHANGED <<alive, state, uploading, received, unopened, fileVars,
                       netVars, clientVars, acked, got>>
     \/ cur \in gone /\ Die

-----------------------------------------------------------------------------
Client(c) == \/ HandOver(c) \/ Ask(c) \/ AskRest(c) \/ AskBody(c)
             \/ ArriveInPart(c) \/ Leave(c)
Upload(u) == \/ StartUpload(u) \/ WriteBlock(u) \/ DropBlock(u)
             \/ ReadNothing(u) \/ Finish(u)
File == \/ Select \/ ReadEnd \/ SendChunk \/ SendEnd
        \/ \E c \in Conn : \/ Close(c) \/ BodyMissing(c) \/ NoRequest(c)
                           \/ Refuse(c)
        \/ \E u \in Up : Upload(u)
        \/ \E d \in Down : StartDownload(d)

Next == \/ File
        \/ \E c \in Conn : Client(c)
        \/ \E u \in Up : SendData(u) \/ SendFinish(u)
        \/ \E d \in Down : Stall(d)

Spec == Init /\ [][Next]_vars

(* The thread runs; clients need not, and a socket may stay full. *)
FairSpec == Spec /\ WF_vars(File)

-----------------------------------------------------------------------------
(* Every variable keeps its type; nothing is read past an upload's end.     *)
TypeOK ==
  /\ alive \in BOOLEAN
  /\ state \in [Conn -> {"new", "open", "closed"}]
  /\ closing \subseteq Conn /\ uploading \subseteq Up /\ unopened \subseteq Up
  /\ received \in [Up -> Nat]
  /\ \A u \in Up : received[u] <= size[u]
  /\ buffer \in [Up -> Seq(Nat)] /\ disk \in [Up -> Seq(Nat)]
  /\ wire \in [Conn -> Seq(Record)] /\ pend \in [Conn -> Seq(Nat)] /\ part \subseteq Conn
  /\ phase \in [Conn -> {"idle", "begun", "header", "asked", "finished"}]
  /\ size \in [Up -> 0 .. MaxSize] /\ sent \in [Up -> 0 .. MaxSize]
  /\ wants \in [Down -> Up \cup {Nobody}] /\ after \in [Down -> BOOLEAN]
  /\ gone \subseteq Conn /\ stalled \subseteq Down
  /\ acked \subseteq Up /\ got \in [Down -> Seq(Nat)] /\ ended \subseteq Down
  /\ pc \in {"build", "read", "send"} /\ ready \subseteq Conn
  /\ cur \in Down \cup {Nobody} /\ src \in Seq(Nat) /\ next \in Nat \ {0}
  /\ stuck \in Seq(Nat)

(* The file of an upload, as its client has it. *)
Everything(u) == Bytes(1, size[u])

(* While an upload lasts whose file could be opened, what is on disk, in    *)
(* the stream, in OpenSSL and in the socket is, in this order, what the     *)
(* client has sent: no byte is lost, repeated or moved, however records and *)
(* blocks overlap.                                                          *)
ReceivedIsStored ==
  \A u \in uploading \ unopened : state[u] = "open" =>
    disk[u] \o buffer[u] \o pend[u]
      \o FlattenSeq([i \in DOMAIN wire[u] |->
           IF wire[u][i].type = "data" THEN wire[u][i].bytes ELSE << >>])
    = Bytes(1, sent[u])

Store == INSTANCE FileStore WITH
           length <- size, saved <- acked, after <- {d \in Down : after[d]},
           sending <- src

(* The command that ends an upload waits in the socket until it is read as  *)
(* one: neither the request nor a block of data takes it, whatever is left  *)
(* of records and buffer, so the socket of an upload that is sent stays     *)
(* readable to the end.                                                     *)
FinishWaits ==
  \A u \in Up :
    phase[u] = "finished" /\ u \notin closing \cup unopened =>
      wire[u] # << >> /\ Last(wire[u]).type = "finish"

(* The client of an upload is told that its file is saved while the file is *)
(* still in the stream.  When the connection is closed, the whole file is   *)
(* on disk: nothing was left in the stream, in OpenSSL or in the socket,    *)
(* and nothing was missing when the command that ends the upload was read.  *)
AcknowledgedIsSaved ==
  \A u \in acked : state[u] = "closed" => disk[u] = Everything(u)

(* A client that is told that its download is complete has the whole file,  *)
(* when the file was saved before it asked.  send_Data drops what SSL_write *)
(* returns: this needs that a socket which select() reports as writable     *)
(* takes a whole chunk, that is, no fault "full".                           *)
EndedIsWhole ==
  \A d \in ended : after[d] => got[d] = Everything(wants[d])

(* Uploads and downloads together are a store of files.  Who asks for a     *)
(* file after its upload was acknowledged is sent all of it, although the   *)
(* acknowledgement goes out before the file is written: the walk that       *)
(* closes the file comes before the next select().  Who asks earlier is     *)
(* sent a part from its beginning.  What a download gets of it is in order  *)
(* and comes once, also when writes are held back.                          *)
IsStore == Store!Spec

(* The server has read for the command that ends the upload, and requested  *)
(* the close.                                                               *)
Ended(u) == u \in closing /\ received[u] = size[u]

(* An upload whose client has sent everything and stays is acknowledged,    *)
(* although select() does not see the rest of a record that was begun: the  *)
(* command that ends the upload keeps the socket readable.  The exceptions  *)
(* are a command that the server read before all of it had come, a file     *)
(* that could not be opened, the end of the process and a download that     *)
(* waits for ever.                                                          *)
UploadAnswered ==
  \A u \in Up :
    phase[u] = "finished" /\ ~Ended(u) ~>
      (u \in acked \cup gone \cup unopened \/ ~alive \/ [](pc = "send"))

(* A download of a saved file that OpenSSL takes at once arrives whole and  *)
(* is ended, unless the file could not be opened when it was uploaded, the  *)
(* client leaves or stops reading, the process ends, or another download    *)
(* waits for ever.                                                          *)
DownloadArrives ==
  \A d \in Down :
    after[d] /\ phase[d] = "asked" ~>
      \/ d \in ended /\ got[d] = Everything(wants[d])
      \/ wants[d] \in unopened
      \/ d \in gone \cup stalled \/ ~alive \/ [](pc = "send")

=============================================================================
