# FServer: models, checks and proofs

FServer is a file server over TLS. A client opens a *main* connection to log
in, to be told of files and to be pinged, and *file* connections to upload and
download. This directory holds TLA+ modules of its core, TLC configurations
that check them on small instances, and TLAPS proofs for every size.

Paths are relative to the repository; the core is in `src/resources/core/`.

## 1. Inventory

| Component | Code | State | Operations | Status |
|---|---|---|---|---|
| Acceptor | `servercore.cpp` | `_connections` and its select set, `_connId` | accept and handshake, classify, hand over to a worker, walk and delete | `ServerCore` |
| Main thread | `servercore_MainConn.cpp` | `_listMainConnections`, its select set | walk and delete, select, dispatch | `ServerCore` (list), `MainConn` (what it does) |
| File thread | `servercore_FileConn.cpp` | `_listFileConnections`, its select set | as above | `ServerCore` (list), `FileConn` (what it does) |
| Sessions and users | `servercore_MainConn.cpp`, `Session.cpp` | `_listSession`, `_listUser` | grant, remove, on line and off line, check of a token | `MainConn`; the hash that makes a token's string in `Digest` |
| Notices | `servercore_MainConn.cpp`, `connection_MainConn.cpp` | `_listFileTransaction` | announce, find the first one waiting, send, mark | `MainConn` |
| Connection | `connection*.cpp` | flags, socket, SSL object, file handle | handshake, classify, read a command, reply | `Admission` (handshake, classification), the rest spread over the three above |
| File transfer | `connection_FileConn.cpp`, `fileHandle.cpp` | sizes, counters, streams, files | request, blocks of an upload, finish; chunks of a download | `FileConn` |
| Packet | `Packet.cpp` | a vector of bytes | append and read integers and strings | `Packet` |
| Thread pool | `thread-pool/*.h` | queue, condition variable, shutdown flag | submit, worker, shutdown | `ThreadPool` |
| FileHandle's directories | `fileHandle.cpp` | stack of directories, lists of what was deleted | change, create, browse, recursive delete | `FileHandle` |
| MD5 | `md5.cpp` | buffer, state, count of bits | update, finalize, hexdigest | `Digest` |
| Database | `database.cpp` | none in the process | `User_Login` | a set of names |
| TLS set-up, wrappers, logger, `File.cpp`, `_Test` files, `CraftCode` | | | | not modelled: I/O, or code that nothing calls |

How they interact:

* Three threads share the three lists of connections. The acceptor pushes to
  the workers' lists under a mutex; the workers read and erase without it. A
  connection is in the acceptor's list *and* in a worker's list from the push
  until the acceptor's next walk.
* The main thread owns sessions, users and notices. The file thread copies
  `_listSession`, without a lock, for each request.
* All sockets are non-blocking (`servercore.cpp:208`), but several sends and
  reads wait in `select` with no timeout, inside the one thread that serves a
  whole list.
* The acceptor carries out a client's TLS handshake itself, round by round,
  before it looks at any other client.
* The only call-backs are the operating system's: SIGPIPE, and exceptions,
  which no thread handles: each ends the process.

What is hard: who may delete a connection; vectors that are reallocated under
an iterator or reference; two updates of a vector of which one is lost; a token
used before it is listed, or after it should be gone; what a socket's
readability says about bytes that OpenSSL holds; acknowledgements before the
data is safe; a wait with no timeout; a client that leaves at any time, or falls
silent in the middle of a handshake; a directory that changes while it is
deleted; a count that wraps, and a block that has no room for its length.
`PROJECT.json` lists each hazard at its line with the properties that cover it.

## 2. Modules

```
ServerCore           three threads, three lists      -> ServerCore_proofs, MCServerCore
  Custody            what ServerCore implements: one owner, handed over once
Admission            handshake, classification       -> Admission_proofs, MCAdmission
MainConn             login, sessions, notices        -> MainConn_proofs, MCMainConn
  Tokens             what MainConn implements: tokens granted, honoured, withdrawn
FileConn             uploads and downloads           -> FileConn_proofs, MCFileConn
  FileStore          what FileConn implements: saved files that can be fetched
Packet               bytes of the protocol           -> Packet_proofs, MCPacket
FileHandle           directories, recursive delete   -> FileHandle_proofs, MCFileHandle
Digest               class MD5                       -> Digest_proofs, MCDigest
  Hash               what Digest implements: RFC 1321's padding of the whole text
ThreadPool           queue, workers, shutdown        -> ThreadPool_proofs, MCThreadPool
```

`Admission` says which clients get past the acceptor, `ServerCore` which thread
may handle a connection at all; `MainConn` and `FileConn` say what its thread
does with it, and take a hand-over as one step.

Conventions. Constants are sets of connections, users, workers, tasks. A
variable keeps the name of the member it stands for where TLA+ allows it;
`\* history` marks variables that the code does not have. An operator named
`X_Suffix` above an operator `X`, with a comment that starts with "Fault:", is
`X` with a plausible bug; it is used to test that a property can fail.

### ServerCore

* `Conn` are the objects in the order of `accept`; `obj` says whether an object
  exists; `kind` stands for the three flags of the classification;
  `connections` and `list[w]` are the vectors; `setA` and `set[w]` the select
  sets; `pcA`/`iA` and `pc[w]`/`pos[w]` where the threads stand.
* One step of a walk per element (`AcceptDelete`, `AcceptDrop`, `AcceptKeep`);
  classification, and the push, are steps of their own because the workers
  interleave with them. A worker's erase is two steps ("shrink"): the elements
  move, then the vector's end is written, and a push in between loses one of
  the two updates or both.
* A push that exceeds `cap` reallocates; a worker that holds an iterator or a
  reference then works in a freed buffer (`stale`). Flags of a freed object read
  as anything; a second `delete` ends the process; a `select` with a closed
  descriptor ends the thread, and for the acceptor the process (a joinable
  `std::thread` is destroyed).
* The handshake is one step that succeeds or asks for the close; `Admission` has
  its rounds. Reuse of an address by a new object is
  abstracted: identifiers are not reused.
* `OwnersKept` is a refinement: the owner of a connection is nobody, the acceptor
  until the push, then the worker it was pushed to, and in the end it is freed.
  `Custody` demands that the acceptor gives a connection away once and only while
  nobody has asked for its end, and that it is freed once, after somebody has.
  Who frees it is left open: the code lets the acceptor do it after the
  hand-over (section 4).

### Admission

* `state` follows a client from `connect` over the listening socket's `backlog`
  and the handshake (`shaking`, at most one at a time) to the acceptor's list
  (`listed`) and a worker (`handed`), where it may be closed at any time.
* A client sends its part of the handshake in pieces, each when the server has
  read what it must have read before (`Behind`), and then its command, in pieces
  too: a record may arrive in parts. `Prompt` clients do their part within the
  three seconds of a round, stay, and announce a kind. The others may take longer,
  leave, fall silent, send something else.
* `TLS_handshark` is its loop: `SSL_accept` ends in one of its outcomes, a round
  waits in `select` for reading or writing until it is ready or times out. The
  result is not used: whatever it was the client is listed (`Admit`), and
  `classify_connection` finds out when it reads (`RequestClose`): then SSL goes on with the
  handshake, in which a command is of no use. A client that timed out and sends
  the rest later is therefore closed, not served.
* `classify_connection` gets the command only when all of its record has come
  (`Classify`). With a part of it `SSL_read` fails, and the close is requested
  (`ReadsPart`), of prompt clients too: that is what `Cut` names, the one
  exception of `PromptNotRefused`, and of `PromptHandedOver` beside the lack of
  descriptors (section 4).
* An answer or a reply to a client that has left may raise SIGPIPE, which ends the
  process and closes every connection (`Die`).
* `Descriptors` is how many connections the process may have open. Without one
  `accept` fails, the pass ends before the classification (`AcceptFails`), and
  the listening socket is ready again at once.
* `Build` and the walk of `read_Data_Main_Socket` take all elements in one step
  and in any order: the acceptor is alone with what is unclassified, which is
  part of `ServerCore`'s `ListMatchesKind`.

### MainConn

* A message is a command and the name it carries. A token is written as the
  connection it was granted to: two sessions are taken to have different
  strings (the string is made of id, address and the time in seconds).
* `handle_Main_Connection` is split where another thread or the socket can
  come between: the token is sent (`Login`) before it is listed
  (`LoginRecorded`); a notice waits for the socket (`Notify`).
* The copy of `_listSession` begins and ends in two steps, and `seen` is the
  history of every list there was in between. The vector is copied element by
  element without its lock, so the copy (`Copies`) has the length of one of these
  lists, and each entry is what stood in its place in any of them: an entry that an
  erase moved and a later one removed may be in it, twice even, and one that was
  moved past the reader may be missing. If the list grew in between, the buffer
  that is read may have been freed, also when the list is the same again at the
  end: then any entry may be no token (`Nobody`), or the process ends. What is
  assumed of the data race: writes are seen in program order, as on x86; what a
  freed buffer holds is no pointer to the session of a token that was withdrawn
  before. An entry is a pair with a pointer to a `Session`, and only the pointer
  is used; these objects are never deleted, so the search reads no freed string.
* A command that the switch does not know is dropped with its four bytes; what
  follows in its record is read as further commands, and stands for more
  messages of the client.
* `Faults` selects what clients do: leave, stop reading ("stall"), send a record
  in two pieces ("split"), announce a size that is no `int` ("size"), send the
  names of an announcement in a record of their own that comes in part ("body":
  `handle_Upload_CMD_MSG_FILE` returns NULL and there is no transaction).
* `TokensKept` is a refinement: `_listSession` is the set of valid tokens, a
  token is over when its connection is closed, and the copy of the list with the
  search in it is one check that begins and ends. `Tokens` demands that a token
  is withdrawn before its connection ends and never granted again, that a check
  accepts only a token that was valid at some time while it lasted, and that it
  refuses a valid one only if the valid tokens changed meanwhile.
* `_countPING` is left out: its only increment serves a connection of the other
  kind, and `ServerCore`'s `ListMatchesKind` shows that there is none.

### FileConn

* The file a connection uploads bears the connection's name, its bytes are
  1, 2, ... Two uploads of one name at a time are what the warning at
  `fileHandle.cpp:185` is about and are not modelled.
* `wire` holds the TLS records that have arrived whole, `part` the sockets in
  which a part of a further one stands behind them: `select` sees it, `SSL_read`
  fails on it and keeps it (`ReadPart`). For a request and for data that costs a
  turn of the loop; for the command that ends an upload the close is requested
  without the acknowledgement (`Finish`, `Announced`), which is an exception of
  `UploadAnswered` (section 4). `pend` is the rest of a record that `SSL_read` has
  begun, which `select` does not see. `buffer` is what the output stream has not
  written to `disk`; the stream may write at any block and writes at close.
* A pass of the thread handles the ready connections in any order, which
  includes the order of the vector. A download is sent inside one handler
  (`SendChunk`), during which the thread does nothing else.
* `stuck` is a chunk that OpenSSL holds back after a partial write; the next
  `SSL_write` sends it in place of its own, and fails if its own is shorter.
* `IsStore` is a refinement: `size` is the length of a file, `acked` are the saved
  ones, `src` is what a download is sent. `FileStore` demands that who asks after
  the save is sent the whole file, who asks before a part from its beginning, and
  that what arrives are pieces of it in their order, each at most once. It allows
  a piece to be missing, because the code loses one (section 4).
* `Faults`: leave, stall, a request in two records ("split"), records that
  arrive in part ("part"), a file that cannot
  be opened ("open"), a token that is refused ("token"), partial writes ("full").

### FileHandle

No thread of the server calls `deleteDirectory`, `createDirectory` or
`deleteFile`: a connection's handle only opens, writes and reads a file. The
module is about what the component promises to whoever does, several handles
at a time included, which is a use that the server does not make today.

* `files` and `dirs` are the tree below the root, as paths, shared by all
  handles; `path[h]` is `completePath` without the root. The lists of deleted
  files and directories are kept as lengths. `made` counts the entries that were
  made, less those that a cleared list has forgotten.
* `deleteDirectory` makes one system call after the other while other handles
  work on the tree: `stack[h]` holds its recursive calls, each with what is left
  of the listing that `browse` made when it began. That listing is one step here;
  the code opens the directory twice and reads it entry by entry, so another
  handle's change in between may or may not be on it. `DeleteEntry` removes a file
  of the listing, `Recurse` enters a directory, `Skip` passes "." and ".." and,
  once `cancel` is set, everything, `Return` is the `rmdir`.
* Names are sequences of characters where `stripServerRootString` looks at them;
  a name that is too short for its `substr` throws, and the process ends with
  the tree as it is (`OpenShort`).

### Digest and Hash

* A byte of the text is named by its position, so that a byte that is lost,
  doubled or moved is a difference. `transform` is a function of the state and a
  block, so the state is written as the blocks it has taken, end to end.
* `Updated` is `update` with its two `memcpy`s and the loop over whole blocks,
  `Counted` the two words of the count with their overflow and carry,
  `Finished` is `finalize`, which gives the padding and the length to `update`.
* `IsHash` is a refinement: `Hash` takes the text as one sequence and pads it as
  RFC 1321, 3.1 and 3.2 say. The text is `state` followed by what of the
  `buffer` is in use. `MaxBytes` may be anything whose bits fit the two words
  (2^61 bytes): beyond that the count no longer tells how long the text was.

### ThreadPool

The queue's mutex makes its operations single steps; `m_conditional_mutex` is
`holder`. `submit` enqueues and notifies in two steps, `shutdown` sets its flag,
notifies and joins. Wake-ups may be spurious. `func` is the worker's function
object, which stands outside its loop: it keeps its task, and what that holds, after
the call until `dequeue` finds another one. The server constructs a pool of
thirty threads (`servercore.cpp:21`) but neither submits to it nor shuts it down;
the module is about the component.

### Packet

Bytes are numbers 0 to 255 that count with a sign when they are read, since
`char` is signed on the platforms of the Makefile. `fields` is the history of
what was appended and not yet read.

## 3. Runs

Each run shows its properties on the instance of its configuration.

| Run | Instance | Shows |
|---|---|---|
| `core_owners` | 2 connections of either kind, fair | `TypeOK`; an unclassified connection is the acceptor's alone and a list holds its own kind only (`ListMatchesKind`); `OwnersKept`, the refinement of `Custody`; rejected clients are freed; requested closes are carried out |
| `core_erase` | 3 connections of the main kind | one hand-over; the acceptor lets go before it waits; a watched connection is listed |
| `main_tables` | 2 connections of 1 user, leave, split, both tokens presented | `TypeOK`; the session list is exact; who is on line is connected; `TokensKept`, the refinement of `Tokens` |
| `main_notices` | 2 connections, 2 files, leave, size, body, fair | each notice once and in order; who pings gets the notices |
| `main_live` | 2 connections, 1 file, leave, stall, fair | a client that left is closed |
| `file_saved` | 1 upload, 2 downloads, files of 0 to 3 bytes, buffer of 2, all faults but "open" and "stall" | `TypeOK`; no byte of an upload is lost or moved; the command that ends it is never taken for data (`FinishWaits`); what was acknowledged is whole on disk once closed (`AcknowledgedIsSaved`); `IsStore`, the refinement of `FileStore` |
| `file_live` | 1 upload, 2 downloads, stall, part, open, fair | uploads are acknowledged, downloads arrive; a download that ended is whole (`EndedIsWhole`) |
| `pool` | 2 workers, 3 tasks, a shutdown or none, fair | `TypeOK`; each task at most once; without a shutdown some worker is awake for a queued task (`SomebodyAwake`) and every task is run |
| `packet_plain` | 3 fields, bytes below 128 | `TypeOK`; reads return what was written, to the end |
| `digest` | blocks of 8 bytes, words of 2 bytes of radix 16, texts to 72 bytes in pieces of 0 to 37 | `TypeOK`; `IsHash`, the refinement of `Hash` |
| `tree` | 2 handles, 2 names, a tree of depth 2, 3 entries, fair | `TypeOK`; every removal is counted once; a recursive delete stays below its directory, is whole when undisturbed, and returns |
| `admission` | 2 prompt clients, 1 other, room for 2 connections, fair | `TypeOK`; prompt clients are refused only for a command that was read in part (`PromptNotRefused`), and are handed over otherwise; only silent clients, or ones whose answer is held back, stay for ever |

Bounds, and why they are enough:

* `MaxConn = 3` is the least number with which an erase moves an element while a
  push comes in and an element in front stays; two are enough for ownership.
  Both kinds at once need only two, since the lists meet only in the acceptor.
  `MaxPush` bounds how often the acceptor may push a *freed* object, whose flags
  read as anything; a live one is pushed once, which is proved.
* In `MainConn` two connections of one user are the case in which the tables
  per user and per connection disagree. `MaxInbox = 1`: a second unread message
  is read in a later pass, as it would be after the first. `MaxFiles = 2` gives
  the order of notices something to get wrong.
* In `FileConn` a buffer of 2 and files of 0 to 3 bytes give an empty file, a
  part of a chunk, one chunk, a chunk and a rest; records of 1 to 3 bytes are
  shorter than the buffer, equal to it and longer.
* In `ThreadPool` two workers are the least for which a lost wake-up is
  harmless, and three tasks are more than the workers can hold.
* In `Digest` a word of 2 bytes of radix 16 counts 256 bits, so that a text of 32
  bytes overflows the low word and one piece of 32 does so by itself; texts of 72
  bytes reach a second overflow and every index of a block, with the
  padding in one block and in two.
* In `FileHandle` depth 2 is the least at which `deleteDirectory` recurses, and
  three entries are a directory, one in it, and one that comes or goes meanwhile;
  `MaxPath = 1` lets a handle stand in the directory that another deletes. The
  names are `toc`, which is too short for `stripServerRootString`, and
  `topics.d`, of which it leaves a letter.
* In `Admission` two flights and a command in two pieces are a TLS 1.2 client; with three
  clients one can hold the acceptor while another is listed and a third waits, and
  `Descriptors = 2` makes that one's `accept` fail. One client that need not be
  prompt is enough to hold it up, to leave or to be lost in its handshake.
* `CHECK_DEADLOCK FALSE` stands where the system may stop: the process ends, or
  no client has anything left to do within the bounds.

Symmetry is used in the two configurations of `MainConn` and `FileConn` that
check no liveness; the abstract modules treat their clients alike as well.

## 4. What the code does not keep

The models reach the following. Where a formula is given, TLC finds it violated
on the instance named; the formulas are no part of the modules, because they are
not true.

| Where | What happens | Formula that fails |
|---|---|---|
| `servercore.cpp:107` | the acceptor deletes a connection that it has just handed over, when the worker asks for its close before the acceptor's next walk, although line 91 says "@NOTE: do not delete memory of connection push to list main or file connecions" | `core_owners`: `[][\A c \in Conn : Live(c) /\ obj'[c] = "freed" /\ connections' # connections => pushes[c] = 0]_vars` |
| `servercore.cpp:298` | when `accept` fails for want of a descriptor the pass ends before the classification, and the next pass finds the listening socket ready again: nobody is classified any more | `admission`: `PromptHandedOver` without the exception `<>[]OutOfDescriptors` |
| `connection.cpp:126`, `servercore.cpp:124` | a client that falls silent in its handshake, or before its command, stays in the acceptor's list for ever: only the rounds have a timeout. A handshake that timed out while it waited to *write* is not taken up again by itself either, since the acceptor selects for reading | `admission`: `OnlySilentStay` without `silent`, or without `full` |
| `connection.cpp:178` | a command whose record has arrived in part when it is read is taken for a failure, and the connection of a client that did everything in time is closed | `admission`: `Prompt \cap closing = {}` |
| `connection.cpp:148` | "SSL handshark successed" is logged, and the client listed, whatever the handshake came to | `admission`: `state[c] = "listed" => Finished(c) \/ c \in left` |
| `servercore.cpp:342` | a push that races with the worker's erase is lost: the connection is in no list, neither served nor closed | `core_erase`: `alive /\ ~stale[w] /\ Live(c) /\ kind[c] = w /\ pushes[c] = 1 => Listed(c, w)` |
| `servercore_FileConn.cpp:54` | a push reallocates the vector under the file thread's iterator or reference, in spite of line 65 ("handle case multi thread share memory") | `core_owners`: `pc["file"] \in {"build", "handle"} => ~stale["file"]` |
| `servercore_MainConn.cpp:187` | the token is sent before it is listed (line 195): a client that uses it at once is refused | `main_tables`: `fpc = "refused" => ~Open(token) \/ closeReq[token]` |
| `servercore_MainConn.cpp:86` | `_countPING` is never incremented for a main connection: a silent client is never dropped, although line 12 says "timeout" | `main_live`: `~<>[](Open(c) /\ inbox[c] = << >> /\ ~gone[c])` |
| `connection_MainConn.cpp:137` | a client that does not read when a notice is due holds the thread of all main connections | `main_live`: `inbox[c] # << >> /\ ~gone[c] ~> inbox[c] = << >> \/ ~Open(c)` |
| `servercore_MainConn.cpp:259` | a user goes off line when one of two connections ends | `main_tables`: `Authenticated(c) /\ ~closeReq[c] /\ ~InStep(c, "grant") => online[user[c]]` |
| `connection.cpp:84`, `:160`, `connection_MainConn.cpp:154`, `:105`, `connection_FileConn.cpp:28` | SIGPIPE on an answer or a reply to a client that left; `std::stoi` on a size of 2^31 or more; `std::string(_buffer, -1)` when a request comes in two records: each ends the process | `main_tables`, `main_notices`, `file_saved`: `alive`; `admission`: `pc # "dead"` |
| `connection.cpp:243` | a record that has arrived in part is taken for the client's end | `main_tables`: `Authenticated(c) /\ closeReq[c] => gone[c]` |
| `servercore_MainConn.cpp:232` | a notice is marked whatever the write returned | none: read from the code, and `Notify` does the same |
| `servercore_FileConn.cpp:129` | the acknowledgement of an upload goes out before the stream is flushed | `file_saved`: `u \in acked => disk[u] = Everything(u)` |
| `servercore_FileConn.cpp:128` | the command that ends an upload has arrived in part when it is read for: the connection is closed without `CMD_SAVE_FILE_FINISH`, although the client stays and its file is complete | `file_live`: `UploadAnswered` without `~Ended(u)` |
| `servercore_FileConn.cpp:114` | `CMD_ERROR` has no case: a file connection whose client left is readable for ever and never closed | `c \in gone ~> state[c] = "closed"` with "leave" and fairness |
| `connection_FileConn.cpp:159` | a chunk that OpenSSL held back in part is sent in place of the next one, whose bytes never arrive, and the download ends as complete; `DOC/cmd.md:5` says that it "sends the binary data of the specified file" | `file_saved` with "full" only and files to 4 bytes: `\A d \in ended : after[d] => got[d] = Everything(wants[d])` |
| `connection_FileConn.cpp:64` | a file that cannot be opened is only logged; every block is dropped and the upload never ends | `ReceivedIsStored` and `UploadAnswered` without their exception `unopened` |
| `ThreadPool.h:94` | a pool of one thread may sleep with a task in its queue: `submit` notifies between the test (line 31) and the wait (line 32) | `EveryTaskRun` with one worker |
| `ThreadPool.h:71` | `shutdown` notifies between a worker's test of `m_shutdown` and its wait, and joins for ever, although line 68 says it waits for the current task | `closing = "notify" ~> closing = "done"` |
| `Packet.cpp:104` | `CMD_ERROR` (500, `fileserver.h:60`) is stored as the bytes 0, 0, 1, 244; the last counts as -12, and the command is read back as 244 | `ReadsWhatWasWritten` with `Numbers = {500}` |
| `Packet.cpp:121` | a string of 128 to 250 characters has a length that is read as negative | `packet_plain` with strings of that length |
| `fileHandle.cpp:94` | `find_first_of` looks for any character of `SERVERROOTPATHSTRING`, though line 90 says that the root's string is stripped: `topics.d` is opened as `d`, and for `toc` the `substr` throws and ends the process | `tree`: `alive` |
| `fileHandle.cpp:306` | `deleteDirectory` reports success when `rmdir` failed because something was made there meanwhile, or when there is no such directory, although line 264 says "error = true" | `tree`: `[][\A h \in Handle : Deleting(h) /\ stack'[h] = << >> /\ ~cancel[h] => Target(h) \notin dirs' \/ ~alive']_vars`, and the same with `Target(h) \in dirs` at its beginning |
| `fileHandle.cpp:227` | `createFile` returns success when the file could not be created: a stream reports that by its state, not by an exception | none: read from the code |
| `fileHandle.cpp:453` | `getDirSize` takes 2 off for "." and "..", but at the root `browse` leaves ".." out | none: read from the code |
| `Session.cpp:44` | a token's text is number, address and time run together without a separator, with the hour of a 12-hour clock | none: read from the code |

## 5. Fairness

Weak fairness only, of the threads the code starts, since the operating system
runs them and their loops' selects have timeouts. A handler is not fair: it may
wait in a `select` without a timeout (`WopenSSL.cpp:18` and `:34`,
`connection_MainConn.cpp:137`), so liveness properties name the case that it
never returns (`[](pc = "notify")`, `[](pc = "send")`, `[](pc[w] = "handle")`).
In `Admission` the acceptor has no such wait: each `select` of a handshake ends
after three seconds. A client there that has neither left nor fallen silent goes
on with its handshake and reads its answers; that is what the word means, and
`silent` is a step every client but the prompt ones may take at any time. In
`FileHandle` a `deleteDirectory` that has begun goes on, since it is one call of
one thread. Otherwise nothing is assumed of clients, of who calls `submit`, of the order in which a
mutex is handed out, or of spurious wake-ups.

## 6. Proofs

For every value of the constants, from the assumptions named in the modules:
that bounds are natural numbers and the "no one" values are outside the sets;
that uploads and downloads are different connections (`ConnAssumption`) and a
buffer holds a byte; that prompt clients are clients, that each piece of a
client's handshake waits only for earlier ones and the pieces of its command for
the whole handshake (`BehindAssumption`); that there are finitely many handles, names are sequences
of characters, and none is empty, "." or ".."; that a block has room for the
length field and one byte, a word counts whole blocks, and the longest text's
bits fit the two words, and what a power is, since the provers know no `^`
(`PowersAssumption`). TLC evaluates all of them on the runs' instances.

A property is seldom inductive. Each component has an invariant that is; what it
adds to the properties, and why, is the argument. Each proof module begins with
the lemmas about sequences that its component's vectors and queues need.

### ServerCore

`TypeCorrect` first, with `PositionsStand`: a position that a worker uses
through an erase or a handler lies inside its list. That a live connection is
pushed once rests on which part of its vector the acceptor has read already.
`OwnInv` adds

* `Fresh`: identifiers from `nextId` on are nowhere;
* `Distinct`: no connection stands twice in the acceptor's vector;
* `NotYetPushed`, `PushedOnce`: how often a connection was pushed, by its kind
  and by where the acceptor stands;
* `Unread`: what lies ahead of the acceptor is unclassified, what it has kept in
  this walk is neither classified nor to be closed;
* `AtIsInside`: the element it is at exists.

One lemma per group of steps shows that they keep it, for every outcome of a
lost push or erase; `WorkerFrame` and `MoveFrame` carry what a step does not
touch. `Ownership` is the invariance; `ListsMatchKinds`, `ExactlyOneHandOver`,
`AcceptorHoldsOnlyItsOwn` and `OnlyRequestedClosesFree` follow from it, the last
as an action property that no run repeats, since it is part of `Custody`.

`WatchedStaysListed` needs more (`WatchInv`): a worker's erase is two steps, and
between them the last element is a spare copy that the second step drops, unless
a push has just replaced it. `LastIsSpare` says that no watched connection stands
only there, `ListedWasPushed` that the connection being pushed was not yet in the
list, `WatchedExist` that what is watched has been accepted.

`CustodyImplemented` is the refinement, with one lemma per group of steps. That
nobody has asked for the end of what is handed over is `OpenInv`: `UnreadOpen`
for what the acceptor has not read yet in this walk, `PendingOpen` for what it has classified
and will push. The acceptor's flags are tested before the push and not again, so
this is what makes that order safe; it holds because a worker can only ask for
the end of what is in its list already.

### Admission

`AcceptorInv` is `TypeOK` with `IsInjective(backlog)`, the backlog being exactly
the clients in state "queued", the select set taken from the list, and
`OneShaken`: the handshake is one client's, the one `TLS_handshark` was called
for, exactly while the acceptor is in it. `TypeCorrect` follows.

`PromptStay` proves `PromptNotRefused` with `PromptSound`: a prompt client that is
listed has a complete handshake, since `Admit` is reached for it only by
`SSL_accept` succeeding, and one that is in the select set has something to be
read, so that `classify_connection` finds its command or a part of it, and only
the latter is refused; once refused it is not read again (`ClosingSettled`), so
that `Cut` stays true of it. `OnlyShakenServed` says
of every client that a worker is given it only after a complete handshake,
although the result of `TLS_handshark` is thrown away; no run repeats it.

### MainConn

`SessionInv` holds `SessionsSound` and `OnlineIsConnected` with what is true
between two steps of the thread: `ListSound` (the list is the open connections,
each once), `StepSound` (the position is still inside the list, and what the
first of two steps found is still so at the second), `SetSound` (nobody whom the
loop has not passed yet, and who is in the select set, has asked to be closed: a
walk that erases precedes every select), `NewSound`. From it `Sessions`,
`SessionListSound`, `OnlineUsersConnected`. `Notices` adds `NotifySound`: the
thread goes to write a notice only when one waits for that user, so that the
first waiting one is what it marks.

`TokensImplemented` is the refinement of `Tokens`. What is granted and what is
over are functions of the state (`Granted`, `Ended`), and there is one lemma per
kind of step: it grants one token, withdraws one, ends one, or leaves all. What
a check met (`past`) is what `seen` holds, token by token (`Past`), and every
change of the list is noted in both (`PastNoted`). `CopyMet`: whatever mixture of
these lists the copy is, a token in it was valid in one of them. `CopyExact`: a
copy that met one set of tokens only is exact. That needs `SeenSound`, since
the list could have changed and changed back: what was met ends with the list as
it is, and once it changed it held different tokens, because every change adds or
takes one (`TokensChange`).

### FileConn

`StoreInv`. The heart is `Stored`: disk and stream are the bytes 1 to
`received`, what OpenSSL holds continues them, and the records in the socket
continue that as a chain (`IsChain`) up to what was sent. A chain is a function
that cuts the range, so that taking a record off its front or adding one at its
end can be proved without induction over the records. `TalkSound` says what may
be in a socket (a request first, once, in one record or two; the end of an upload
last), `PartSound` that nothing comes in part before a request was begun, `ReadySound` that a download that asked after the save is in the select
set only when that upload is closed, thus flushed; `SendSound` that what a
download got, what OpenSSL holds back of it and what is still to be sent do not
overlap. From it `FileTypes`, `Received`, `Acknowledged` (an acknowledged upload
is whole once its connection is closed), `UploadStaysReadable` (the command that
ends an upload waits in the socket, last, until it is read as one) and `StoreImplemented`, the refinement of `FileStore` step by step.

`DownloadsWhole` says that an ended download got the whole file, under the
hypothesis that no write is taken in part (`"full" \notin Faults`). That is no
assumption of the others and is needed: with partial writes a chunk is lost, the
row `connection_FileConn.cpp:159` of section 4.

### Packet

`NumberRoundTrip`: `getCMDHeader` returns the number that `buildIntField` wrote,
whatever follows it, if *and only if* its three low bytes are below 128: the
exact border between `packet_plain` and what section 4 says of the command 500.
The conversations are therefore proved for `AllPlain`, in which numbers and
lengths are on the good side of it, as in the run. `PacketInv` says that the
vector is `Framed`: there is a way to cut it so that between two cuts stand
the bytes of one unread field. A write adds a cut, a read drops the first.
`PacketTypes`, `ReadIsWritten`; the latter includes that a packet read to its
end is empty.

### FileHandle

`TreeInv`: every entry lies in a directory that is there (`TreeSound`), and the
calls of a `deleteDirectory` work below its target (`CallsSound`).

* `RemovesBelow` follows from it as an action property.
* `EntriesAccounted` is about a cardinality and a sum over the handles: `Sums`
  and `TotalsChange` say how a sum changes with one summand, and each step is
  shown to add or take at most one entry, or to forget a list. `TreeTypes` rests
  on it, since `made` stays in its range only if nothing is counted twice.
* `WholeDeletion`: the stack of an undisturbed deletion knows its directories
  (`WholeInv`). What is in them is still on the listing its call works on, but
  for the one subdirectory in which the next call is; so the listing is used up
  when the directory is empty, and `rmdir` succeeds. `touched`
  is a history variable: another handle's change below the target sets it.

### Digest

`Holds(c, t)` relates an object to the text it was given: the state has the whole
blocks, the buffer the rest, the count eight times the length, modulo both words.
`UpdatedHolds` shows that `update` keeps it for a piece of any length
(`UpdatedShort`, `UpdatedLong`), with `CountsOn` for the carry and `IndexIs` for
the position in the buffer, which is taken from the low word alone and is right
because a word counts whole blocks. `PadLengthIs` and `ZeroesAre` show that the
code's padding is RFC 1321's least number of zeroes, `Encoded` that the bytes of
the two words are the digits of the count; together `FinishedIs`. After
`finalize` the blocks stay in the state, and a late `update` adds to them:
`HashInv` says that the object then holds a text *behind* something else, and
that is why the digest must not be computed again. `DigestTypes`, and
`HashImplemented`, the refinement of `Hash`.

### ThreadPool

`PoolInv` joins the properties with: each task is enqueued once, a worker's
function object, empty or kept from its last task, was dequeued, and a returned shutdown has joined all. That the queue is
the rest of what was enqueued behind what was started is what makes order and
at-most-once inductive. `TypeCorrect` and `TasksRunAtMostOnce`; `QueueIsFifo`
and `ShutdownLeavesNoneHalfDone` are proved without a run that repeats them.

`NoTaskLeftAsleep` is the safety core of `EveryTaskRun`: with two threads or more,
when a task is queued, none is about to be announced and nothing was shut down,
some worker is awake and will look at the queue. A worker between its test and
its wait holds `m_conditional_mutex`, so only one at a time can miss a
notification: another sleeps already and gets it, or will test the queue
afterwards. With one thread it is false (section 4), hence the hypothesis that
there are two.

### Only model-checked

Every invariant, action property and refinement that a run checks is also a
theorem. The liveness properties are not:
`RejectedFreed`, `CloseHonoured`, `NoticeDelivered`, `GoneDropped`,
`UploadAnswered`, `DownloadArrives`, `EveryTaskRun`, `DeleteReturns`,
`PromptHandedOver`, `OnlySilentStay`. Liveness under fairness is out of the
prover's reach. The rounds of MD5 and the library's recursive definitions are
used as functions whose values are not computed.

## 7. Not modelled

* Certificates, and what OpenSSL does inside a piece of the handshake.
* Two sessions with the same string; two uploads of one name at a time.
* The replies of a few bytes that are held back by a full socket, except the
  last one of a download.
* The 64 rounds of `MD5::transform`: arithmetic that an operator would only copy,
  a function of the state and the block all the same.
* In `FileHandle` the clean-up of names (`getValidDir`, `getValidFile`; calls
  without "strict" and the names "." and ".." as what is to be deleted), the
  queries `getStats`, `getParentDir`, `getDirSize`, and failures of the file
  system other than those that the tree itself causes.
* The database's queries, logging.
* `_shutdown` of the server, which nothing sets.

## 8. Plan

1. A composition of `ServerCore` with `MainConn` for two connections, so that
   session tables are checked under the list's races.
2. `ServerCore`: that a freed connection is never pushed a second time without
   its flags having been read as something else, that is, the exact use of
   `MaxPush`.
3. The queries of `FileHandle` (`getDirSize`, `getStats`) on the shared tree.
