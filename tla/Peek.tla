--------------------------------- MODULE Peek ---------------------------------
(***************************************************************************)
(* The list of a peer's files: see_files_request and send_file_name of the *)
(* server (src/server.c), cmd_peek and print_peeked_file of the client     *)
(* (src/cli.c), and the connection between them.                           *)
(*                                                                         *)
(* The server sends a header and a body for each file, with the mutex of   *)
(* the files held, and END_OF_REQUEST after it; a send that does not find  *)
(* room is given up and the next one made.  The client frames the stream   *)
(* by the headers and looks at no result of recv.  Bytes are numbers, as a *)
(* header that is out of step is made of whatever bytes come next.         *)
(***************************************************************************)
EXTENDS Integers, Sequences, FiniteSets, FiniteSetsExt, SequencesExt

CONSTANTS
  Files,        \* the files a peer may share: records of a name and a size
  MaxFiles,     \* how many of them it shares
  Capacity,     \* bytes the buffers of the two sockets hold
  BUFFER,       \* sizeof buffer in cmd_peek, 1024
  REQUEST,      \* strlen(PEEK_REQUEST_MSG)
  FILE_NAME_SPACE, FILE_SIZE_SPACE,  \* the columns of what it shows
  MaxListed     \* bound: the client's array grows no further

Byte == 0..255

Space == 32

(* "%s %zu" *)
Body(f) == f.name \o <<Space>> \o f.size

(* A name has 255 bytes at most, and a size no more than twenty digits.     *)
PeekConstants ==
  /\ \A f \in Files : /\ f.name \in Seq(1..255) \ {<<>>} /\ f.size \in Seq(48..57) \ {<<>>}
                      /\ Len(Body(f)) < BUFFER
  /\ {MaxFiles, Capacity, BUFFER, REQUEST, FILE_NAME_SPACE, FILE_SIZE_SPACE, MaxListed}
       \subseteq Nat \ {0}
  /\ REQUEST < BUFFER /\ BUFFER <= 255 * 256
  /\ MaxFiles <= MaxListed

ASSUME PeekAssumption == PeekConstants

VARIABLES
  files,     \* the server's files in the order of its tree
  srv,       \* what the server does with the connection
  queue,     \* the messages it has still to send, the first perhaps in part
  refused,   \* some send has found no room
  stream,    \* bytes sent and not received
  cl,        \* where the client is in cmd_peek
  msgLen,    \* msg_len
  got,       \* bytes of the current header or body
  listed,    \* its array files
  printed,   \* the places in it of what it has shown
  mixed      \* another thread was in strtok while it did

srvVars  == <<files, srv, queue, refused>>
cliVars  == <<cl, msgLen, got, listed, printed, mixed>>
peekVars == <<srvVars, stream, cliVars>>

END_OF_REQUEST == 65535

(* Mutant: the length is not converted to network order. *)
HeaderHostOrder(n) == <<n % 256, n \div 256>>

(* htons *)
Header(n) == <<n \div 256, n % 256>>

PeekTypeOK ==
  /\ files \in BoundedSeq(Files, MaxFiles)
  /\ srv \in {"request", "sending", "closed", "down"}
  /\ \A i \in DOMAIN queue : queue[i] # <<>> /\ queue[i] \in Seq(Byte)
  /\ refused \in BOOLEAN
  /\ stream \in Seq(Byte) /\ Len(stream) <= Capacity
  /\ cl \in {"request", "header", "body", "done", "failed", "undefined"}
  /\ msgLen \in 0..END_OF_REQUEST
  /\ cl = "header" => Len(got) <= 2
  /\ cl = "body" => Len(got) <= msgLen
  /\ Len(listed) <= MaxListed /\ printed \subseteq DOMAIN listed
  /\ mixed \in BOOLEAN

PeekInit ==
  /\ files \in BoundedSeq(Files, MaxFiles)
  /\ srv = "request"
  /\ queue = <<>>
  /\ refused = FALSE
  /\ stream = <<>>
  /\ cl = "request"
  /\ msgLen = REQUEST
  /\ got = <<>>
  /\ listed = <<>>
  /\ printed = {}
  /\ mixed = FALSE

-----------------------------------------------------------------------------
(* The server. *)

(* send_file_name for each file: two calls of send_tcp_message. *)
Frames(fs) ==
  [k \in 1..(2 * Len(fs)) |->
     LET body == Body(fs[(k + 1) \div 2])
     IN  IF k % 2 = 1 THEN Header(Len(body)) ELSE body]

(* Mutant: END_OF_REQUEST is forgotten. *)
AnswerWithoutEnd(fs) == Frames(fs)

(* The calls of send_tcp_message that a request makes. *)
Answer(fs) == Frames(fs) \o <<Header(END_OF_REQUEST)>>

ReceiveRequest ==
  /\ srv = "request"
  /\ cl = "header"
  /\ srv' = "sending"
  /\ queue' = Answer(files)
  /\ UNCHANGED <<files, refused, stream, cliVars>>

Room == Capacity - Len(stream)

(* Mutant: what send did not take is forgotten. *)
RestDropped(msg, k) == <<>>

(* The loop of send_tcp_message goes on with what send did not take. *)
Rest(msg, k) == SubSeq(msg, k + 1, Len(msg))

Send ==
  /\ srv = "sending" /\ queue # <<>> /\ Room > 0
  /\ \E k \in 1..Min({Room, Len(Head(queue))}) :
       /\ stream' = stream \o SubSeq(Head(queue), 1, k)
       /\ LET rest == Rest(Head(queue), k)
          IN  queue' = IF rest = <<>> THEN Tail(queue) ELSE <<rest>> \o Tail(queue)
  /\ UNCHANGED <<files, srv, refused, cliVars>>

(* MSG_DONTWAIT: send fails, the call returns -1, and the next one is made. *)
Refuse ==
  /\ srv = "sending" /\ queue # <<>> /\ Room = 0
  /\ queue' = Tail(queue)
  /\ refused' = TRUE
  /\ UNCHANGED <<files, srv, stream, cliVars>>

(* CLIENT_CLOSE_CONNECTION: bytes on their way still arrive. *)
Close ==
  /\ srv = "sending" /\ queue = <<>>
  /\ srv' = "closed"
  /\ UNCHANGED <<files, queue, refused, stream, cliVars>>

(* The node fails, and what the client has not received may be lost. *)
Crash ==
  /\ srv \in {"request", "sending"}
  /\ srv' = "down"
  /\ queue' = <<>>
  /\ \E n \in 0..Len(stream) : stream' = SubSeq(stream, 1, n)
  /\ UNCHANGED <<files, refused, cliVars>>

-----------------------------------------------------------------------------
(* The client. *)

EndOfStream == srv \in {"closed", "down"} /\ stream = <<>>

SendRequest ==
  /\ cl = "request"
  /\ \/ cl' = "header"
     \/ srv = "down" /\ cl' = "failed"
  /\ UNCHANGED <<srvVars, stream, msgLen, got, listed, printed, mixed>>

(* What the current call of recv_tcp_message waits for. *)
Wanted == IF cl = "header" THEN 2 ELSE msgLen

(* Mutant: recv is asked for the whole again. *)
AskedForAll == Wanted

(* len - total *)
Asked == Wanted - Len(got)

(* A body is written into the buffer whatever its length: beyond the end of *)
(* the buffer the program has no defined behaviour.                         *)
Recv ==
  /\ cl \in {"header", "body"}
  /\ \E k \in 1..Min({Asked, Len(stream)}) :
       /\ got' = got \o SubSeq(stream, 1, k)
       /\ stream' = SubSeq(stream, k + 1, Len(stream))
  /\ cl' = IF cl = "body" /\ Len(got') > BUFFER THEN "undefined" ELSE cl
  /\ UNCHANGED <<srvVars, msgLen, listed, printed, mixed>>

Returned == Len(got) = Wanted \/ EndOfStream

(* ntohs: the bytes that did not come are those of the header before. *)
Length ==
  LET byte(i) == IF i <= Len(got) THEN got[i] ELSE Header(msgLen)[i]
  IN  256 * byte(1) + byte(2)

(* Where strtok finds a word. *)
WordStarts(s) == {i \in DOMAIN s : s[i] # Space /\ (i = 1 \/ s[i - 1] = Space)}

(* print_peeked_file shows what strtok splits in two. *)
Shown == {i \in DOMAIN listed : Cardinality(WordStarts(listed[i])) = 2}

(* The first word is copied into the one column, the second into the other, *)
(* whatever its length; one that is too long is written beyond.             *)
Overruns(s) ==
  \E i \in WordStarts(s) :
    LET space == IF i = Min(WordStarts(s)) THEN FILE_NAME_SPACE ELSE FILE_SIZE_SPACE
    IN  i + space <= Len(s) /\ \A k \in i..(i + space) : s[k] # Space

(* Each is parsed with strtok: if a worker parses a message meanwhile, any  *)
(* of them may be shown, with any words (Commands).                         *)
PrintFiles ==
  \/ /\ cl' = IF \E i \in Shown : Overruns(listed[i]) THEN "undefined" ELSE "done"
     /\ printed' = Shown
     /\ UNCHANGED mixed
  \/ /\ listed # <<>>
     /\ cl' \in {"done", "undefined"}
     /\ printed' \in SUBSET DOMAIN listed
     /\ mixed' = TRUE

(* The loop's condition: any length but END_OF_REQUEST is that of a body.   *)
ReadHeader ==
  /\ cl = "header" /\ Returned
  /\ msgLen' = Length
  /\ got' = <<>>
  /\ IF Length = END_OF_REQUEST
     THEN PrintFiles
     ELSE cl' = "body" /\ UNCHANGED <<printed, mixed>>
  /\ UNCHANGED <<srvVars, stream, listed>>

(* What array_add copies: up to the first 0, or, if the body came short,    *)
(* what an earlier one has left in the buffer: <<>> stands for it.          *)
Copied ==
  LET zeros == {i \in DOMAIN got : got[i] = 0}
  IN  IF Len(got) < msgLen THEN <<>>
      ELSE IF zeros = {} THEN got
      ELSE SubSeq(got, 1, Min(zeros) - 1)

(* buffer[msg_len] is written, in the buffer or not. *)
ReadBody ==
  /\ cl = "body" /\ Returned
  /\ cl' = IF msgLen < BUFFER THEN "header" ELSE "undefined"
  /\ got' = <<>>
  /\ listed' = IF Len(listed) < MaxListed THEN Append(listed, Copied) ELSE listed
  /\ UNCHANGED <<srvVars, stream, msgLen, printed, mixed>>

-----------------------------------------------------------------------------
Server == ReceiveRequest \/ Send \/ Refuse \/ Close

Client == SendRequest \/ Recv \/ ReadHeader \/ ReadBody

Done == cl \in {"done", "failed", "undefined"} /\ srv \in {"closed", "down"} /\ UNCHANGED peekVars

PeekNext == Server \/ Client \/ Crash \/ Done

PeekSpec == PeekInit /\ [][PeekNext]_peekVars

(* The worker goes on whatever the client does. *)
FairSpec == PeekSpec /\ WF_peekVars(Server)

-----------------------------------------------------------------------------
(* Properties. *)

(* Spaces are at the ends of a name only. *)
OneWord(n) == \E i, j \in DOMAIN n : i <= j /\ \A k \in DOMAIN n : n[k] # Space <=> k \in i..j

(* If no send was refused a completed peek has listed every file, in order, *)
(* however sends and receives were split, and shown those whose names are   *)
(* one word, if no worker parsed a message meanwhile.  The client takes     *)
(* bytes that are no header for one, and writes beyond its buffers, only    *)
(* after a send was refused or the server failed, or to show a name that    *)
(* its column has no room for, or when its words were mixed up with those   *)
(* of a message (server.c:67-85, cli.c:50-65, 111-142).                     *)
RightUnlessRefused ==
  /\ cl = "done" /\ ~refused =>
       /\ listed = [i \in DOMAIN files |-> Body(files[i])]
       /\ mixed \/ printed = {i \in DOMAIN files : OneWord(files[i].name)}
  /\ cl = "undefined" =>
       \/ refused \/ srv = "down" \/ mixed
       \/ \E f \in Range(files) : OneWord(f.name) /\ Overruns(Body(f))

(* A peek whose words are not mixed up with others shows all files of a     *)
(* peer that does not fail (cli.c:39).                                      *)
ShowsAll == cl = "done" /\ srv # "down" /\ ~mixed => printed = DOMAIN files

(* A peek ends if the client goes on, the answer fits into the buffers and  *)
(* the server does not fail; otherwise cmd_peek may read for ever (cli.c:115).*)
PeekEnds ==
  WF_peekVars(Client) =>
    (cl = "header" /\ Len(FlattenSeq(Answer(files))) <= Capacity
       ~> cl \in {"done", "undefined"} \/ srv = "down")

=============================================================================
