---------------------------- MODULE FileTransfer ----------------------------
(***************************************************************************)
(* A download: download_request and file_transfer of the server            *)
(* (src/server.c), download_file of the client (src/cli.c) and the TCP     *)
(* connection between them.                                                *)
(*                                                                         *)
(* A call of file_transfer is a step: it reads a chunk if the last one is  *)
(* sent, and sends as much of the chunk as the socket takes.  A byte is    *)
(* its position in the file, from 1 on; 0 is a byte that is not of it.     *)
(* stream is all the server has sent and taken how much of it the client   *)
(* has received; what is between fits into the buffers of the sockets.     *)
(* The names of the specification begin with Transfer so that one module   *)
(* can extend this one and EventLoop.                                      *)
(***************************************************************************)
EXTENDS Integers

CONSTANTS
  MaxSize,    \* sizes of files
  CHUNK,      \* FILE_TRANSFER_CHUNK_SIZE
  Capacity,   \* bytes the buffers of the two sockets hold
  Modulus     \* 2^32, what a size is sent modulo

ASSUME SizesAssumption ==
  /\ MaxSize \in Nat
  /\ CHUNK \in Nat \ {0}
  /\ Capacity \in Nat \ {0}
  /\ Modulus \in Nat \ {0}

VARIABLES
  file,        \* "readable", "unreadable" (open fails) or "missing" (from the tree)
  size,        \* file->size
  disk,        \* "writable", or "failing": fopen or fwrite of the client may fail
  srv,         \* what the server does with the connection
  pos,         \* bytes read from trans_info->file_fd
  buf,         \* trans_info->chunk_buffer
  chunkLen,    \* trans_info->chunk_len
  amountSent,  \* trans_info->chunk_amount_sent
  answered,    \* the answer, and the size if there is one, have been sent
  streamed,    \* bytes of the file sent
  stream,      \* the bytes
  taken,       \* how many of them the client has received
  cl,          \* where the client is in download_file
  expected,    \* file_size
  total,       \* bytes written
  got,         \* bytes of the current block received and not written
  out          \* what has been written to the new file

fileVars == <<file, size, disk>>
srvVars  == <<srv, pos, buf, chunkLen, amountSent, answered>>
connVars == <<streamed, stream>>
cliVars  == <<taken, cl, expected, total, got, out>>

transferVars == <<fileVars, srvVars, connVars, cliVars>>

Bytes == 0..MaxSize

Least(a, b) == IF a < b THEN a ELSE b

TransferTypeOK ==
  /\ file \in {"readable", "unreadable", "missing"}
  /\ size \in 0..MaxSize
  /\ disk \in {"writable", "failing"}
  /\ srv \in {"request", "transfer", "idle", "error", "closed", "down"}
  /\ pos \in 0..size
  /\ buf \in [1..CHUNK -> Bytes]
  /\ chunkLen \in -1..CHUNK
  /\ amountSent \in Nat
  /\ answered \in BOOLEAN
  /\ streamed \in Nat
  /\ stream \in [1..streamed -> Bytes]
  /\ taken \in 0..streamed
  /\ cl \in {"request", "answer", "receiving", "completed", "failed"}
  /\ expected \in 0..MaxSize
  /\ total \in 0..expected
  /\ got \in 0..CHUNK
  /\ out \in [1..total -> Bytes]

(* The connection has been accepted and nothing sent. *)
TransferInit ==
  /\ file \in {"readable", "unreadable", "missing"}
  /\ size \in 0..MaxSize
  /\ disk \in {"writable", "failing"}
  /\ srv = "request"
  /\ pos = 0
  /\ buf = [i \in 1..CHUNK |-> 0]
  /\ chunkLen = 0
  /\ amountSent = 0
  /\ answered = FALSE
  /\ streamed = 0
  /\ stream = [i \in 1..0 |-> 0]
  /\ taken = 0
  /\ cl = "request"
  /\ expected = 0
  /\ total = 0
  /\ got = 0
  /\ out = [i \in 1..0 |-> 0]

(* The n bytes of f followed by the k bytes of g that come after its first m. *)
Extend(f, n, g, m, k) ==
  [i \in 1..(n + k) |-> IF i <= n THEN f[i] ELSE g[m + (i - n)]]

-----------------------------------------------------------------------------
(* The server. *)

ClientClosed == cl \in {"completed", "failed"}

(* download_request of a file that is not in the tree. *)
AnswerNotFound ==
  /\ srv = "request"
  /\ cl = "answer"
  /\ ~answered
  /\ file = "missing"
  /\ answered' = TRUE
  /\ UNCHANGED <<srv, pos, buf, chunkLen, amountSent, fileVars, connVars, cliVars>>

(* Of one that is: the transfer starts whether or not open succeeds. *)
AnswerFound ==
  /\ srv = "request"
  /\ cl = "answer"
  /\ ~answered
  /\ file # "missing"
  /\ answered' = TRUE
  /\ srv' = "transfer"
  /\ chunkLen' = 0
  /\ amountSent' = 0
  /\ UNCHANGED <<pos, buf, fileVars, connVars, cliVars>>

(* How many of n bytes send takes: 0 stands for EAGAIN. *)
Sendable(n) ==
  LET room == Capacity - (streamed - taken)
  IN  IF room <= 0 THEN {0} ELSE 1..Least(n, room)

(* Mutant: what a send did not take is sent from the start of the chunk. *)
SendFromStart(b, from, k) ==
  /\ amountSent' = from + k
  /\ streamed' = streamed + k
  /\ stream' = Extend(stream, streamed, b, 0, k)

(* k bytes of the chunk b are sent after the first from of it. *)
Send(b, from, k) ==
  /\ amountSent' = from + k
  /\ streamed' = streamed + k
  /\ stream' = Extend(stream, streamed, b, from, k)

(* read returns the next bytes of the file, over those of the last chunk. *)
Fill(n) == [i \in 1..CHUNK |-> IF i <= n THEN pos + i ELSE buf[i]]

NextChunk ==
  /\ srv = "transfer"
  /\ file = "readable"
  /\ amountSent = chunkLen
  /\ pos < size
  /\ LET n == Least(CHUNK, size - pos)
     IN  /\ buf' = Fill(n)
         /\ pos' = pos + n
         /\ chunkLen' = n
         /\ \E k \in Sendable(n) : Send(buf', 0, k)
  /\ UNCHANGED <<srv, answered, fileVars, cliVars>>

RestOfChunk ==
  /\ srv = "transfer"
  /\ file = "readable"
  /\ amountSent # chunkLen
  /\ \E k \in Sendable(chunkLen - amountSent) : Send(buf, amountSent, k)
  /\ UNCHANGED <<srv, pos, buf, chunkLen, answered, fileVars, cliVars>>

(* Mutant: a transfer ends with the chunk that comes short of CHUNK. *)
EndOfFileShort ==
  /\ srv = "transfer"
  /\ file = "readable"
  /\ chunkLen < CHUNK /\ pos > 0
  /\ srv' = "idle"
  /\ UNCHANGED <<pos, buf, chunkLen, amountSent, answered, fileVars, connVars, cliVars>>

(* read returns 0. *)
EndOfFile ==
  /\ srv = "transfer"
  /\ file = "readable"
  /\ amountSent = chunkLen
  /\ pos = size
  /\ srv' = "idle"
  /\ chunkLen' = 0
  /\ amountSent' = 0
  /\ UNCHANGED <<pos, buf, answered, fileVars, connVars, cliVars>>

(* read returns -1 because open did, and this is the length of the chunk:   *)
(* as a size_t it is far more than the buffer.  What follows the buffer is  *)
(* sent, or send fails.                                                     *)
SendUnread ==
  /\ srv = "transfer"
  /\ file = "unreadable"
  /\ chunkLen' = -1
  /\ \/ /\ \E k \in Sendable(Capacity) :
             LET from == IF chunkLen = amountSent THEN 0 ELSE amountSent
             IN  Send([i \in 1..(from + k) |-> 0], from, k)
        /\ UNCHANGED srv
     \/ srv' = "error" /\ UNCHANGED <<amountSent, connVars>>
  /\ UNCHANGED <<pos, buf, answered, fileVars, cliVars>>

(* send fails as the client has closed: ERROR, or SIGPIPE. *)
SendFails ==
  /\ srv = "transfer"
  /\ ClientClosed
  /\ srv' \in {"error", "down"}
  /\ UNCHANGED <<pos, buf, chunkLen, amountSent, answered, fileVars, connVars, cliVars>>

(* EPOLLRDHUP on a connection with no transfer. *)
ClientHangsUp ==
  /\ srv \in {"request", "idle"}
  /\ ClientClosed
  /\ srv' = "closed"
  /\ UNCHANGED <<pos, buf, chunkLen, amountSent, answered, fileVars, connVars, cliVars>>

(* The node fails, and what the client has not received may be lost. *)
Crash ==
  /\ srv # "down"
  /\ srv' = "down"
  /\ \E n \in taken..streamed :
       /\ streamed' = n
       /\ stream' = [i \in 1..n |-> stream[i]]
  /\ UNCHANGED <<pos, buf, chunkLen, amountSent, answered, fileVars, cliVars>>

-----------------------------------------------------------------------------
(* The client. *)

EndOfStream == srv \in {"down", "closed"} /\ taken = streamed

SendRequest ==
  /\ cl = "request"
  /\ cl' = "answer"
  /\ UNCHANGED <<taken, expected, total, got, out, fileVars, srvVars, connVars>>

(* The size the header has room for. *)
Announced == size % Modulus

ReadAnswer ==
  /\ cl = "answer"
  /\ answered
  /\ \/ file = "missing" /\ cl' = "failed" /\ UNCHANGED expected
     \/ file # "missing" /\ cl' = "receiving" /\ expected' = Announced
  /\ UNCHANGED <<taken, total, got, out, fileVars, srvVars, connVars>>

(* recv returned nothing.  What answer then holds decides the message that  *)
(* is printed; each of them ends the download.                              *)
NoAnswer ==
  /\ cl = "answer"
  /\ srv = "down"
  /\ cl' = "failed"
  /\ UNCHANGED <<taken, expected, total, got, out, fileVars, srvVars, connVars>>

(* Mutant: bytes_to_read is a chunk, whatever is left. *)
BlockAlwaysChunk == CHUNK

(* bytes_to_read *)
Block == Least(expected - total, CHUNK)

Recv ==
  /\ cl = "receiving"
  /\ got < Block
  /\ \E k \in 1..Least(Block - got, streamed - taken) :
       /\ got' = got + k
       /\ taken' = taken + k
  /\ UNCHANGED <<cl, expected, total, out, fileVars, srvVars, connVars>>

(* A call of recv_tcp_message has returned some bytes: the block, or less   *)
(* of it at the end of the stream.                                          *)
BlockReceived == cl = "receiving" /\ got > 0 /\ (got = Block \/ EndOfStream)

(* How many of the bytes fwrite writes: nobody looks at what it returns.    *)
Written == IF disk = "writable" THEN {got} ELSE 0..got

(* The bytes received, of which those after the first k are lost. *)
Kept(k) == [i \in 1..got |-> IF i <= k THEN stream[total + i] ELSE 0]

(* Mutant: a block that came short is written as a whole. *)
WriteWholeBlock ==
  /\ BlockReceived
  /\ out' = Extend(out, total, [i \in 1..(taken + CHUNK) |-> IF i <= taken THEN stream[i] ELSE 0],
                   taken - got, Block)
  /\ total' = total + Block
  /\ got' = 0
  /\ UNCHANGED <<taken, cl, expected, fileVars, srvVars, connVars>>

(* total counts what was received, whatever was written. *)
WriteBlock ==
  /\ BlockReceived
  /\ \E k \in Written : out' = Extend(out, total, Kept(k), 0, got)
  /\ total' = total + got
  /\ got' = 0
  /\ UNCHANGED <<taken, cl, expected, fileVars, srvVars, connVars>>

(* fopen has returned NULL, and nobody looks at it: the process ends with   *)
(* the first fwrite or fclose.                                              *)
NoFileOpen ==
  /\ cl = "receiving"
  /\ disk = "failing"
  /\ total = 0
  /\ BlockReceived \/ expected = 0 \/ (got = 0 /\ EndOfStream)
  /\ cl' = "failed"
  /\ UNCHANGED <<taken, expected, total, got, out, fileVars, srvVars, connVars>>

(* It returns 0. *)
NothingReceived ==
  /\ cl = "receiving"
  /\ total < expected
  /\ got = 0
  /\ EndOfStream
  /\ cl' = "failed"
  /\ UNCHANGED <<taken, expected, total, got, out, fileVars, srvVars, connVars>>

(* Mutant: the loop is left at the end of the stream too. *)
ReportCompletedEarly ==
  /\ cl = "receiving"
  /\ total = expected \/ (got = 0 /\ EndOfStream)
  /\ cl' = "completed"
  /\ UNCHANGED <<taken, expected, total, got, out, fileVars, srvVars, connVars>>

(* The loop ends as total has come to file_size.  That the file is put into *)
(* the client's own tree then is not of this module.                        *)
ReportCompleted ==
  /\ cl = "receiving"
  /\ total = expected
  /\ cl' = "completed"
  /\ UNCHANGED <<taken, expected, total, got, out, fileVars, srvVars, connVars>>

-----------------------------------------------------------------------------
Server ==
  \/ AnswerNotFound \/ AnswerFound \/ NextChunk \/ RestOfChunk \/ EndOfFile
  \/ SendUnread \/ SendFails \/ ClientHangsUp

Client ==
  \/ SendRequest \/ ReadAnswer \/ NoAnswer \/ Recv \/ WriteBlock
  \/ NoFileOpen \/ NothingReceived \/ ReportCompleted

Done == ClientClosed /\ srv \in {"error", "closed", "down"} /\ UNCHANGED transferVars

TransferNext == Server \/ Client \/ Crash \/ Done

TransferSpec == TransferInit /\ [][TransferNext]_transferVars

(* A worker handles what epoll reports (module EventLoop) and the thread of *)
(* the cli runs; a node need not fail.                                      *)
FairTransferSpec == TransferSpec /\ WF_transferVars(Server) /\ WF_transferVars(Client)

-----------------------------------------------------------------------------
(* Properties. *)

(* However send splits the chunks, the bytes that leave the server are those*)
(* of the file, in order, none twice and none left out: chunk_amount_sent   *)
(* and the refills agree (server.c:28-60).                                  *)
StreamIsPrefix == file = "readable" => \A i \in 1..streamed : stream[i] = i

(* A download that is reported complete has all of the file, if all could   *)
(* be written: the client knows how much to read (server.c:100-107,         *)
(* cli.c:198-214).                                                          *)
CompletedIsWhole ==
  cl = "completed" /\ file = "readable" /\ disk = "writable" =>
    total = size /\ \A i \in 1..size : out[i] = i

(* A download that is reported complete has left all of the file on the     *)
(* disk (readme.md:50, cli.c:193-214).                                      *)
CompletedIsStored ==
  cl = "completed" /\ file = "readable" => out = [i \in 1..size |-> i]

(* A download ends, with the file or with an error, unless open has failed. *)
DownloadEnds ==
  cl = "answer" /\ file # "unreadable" ~> cl \in {"completed", "failed"}

(* The download does what Download promises. *)
Promise == INSTANCE Download WITH
  readable <- file # "unreadable" /\ disk = "writable",
  delivered <- out,
  phase <- IF ClientClosed THEN cl ELSE "waiting"

Refinement == Promise!Spec

=============================================================================
