------------------------------ MODULE EventLoop ------------------------------
(***************************************************************************)
(* The dispatcher of a shareIT node: NUM_THREADS threads that all run      *)
(* wait_epoll_events on one epoll instance (src/events.c) and call         *)
(* main_handler (src/server.c) for every event they are given.             *)
(*                                                                         *)
(* A descriptor is named by its fd_info: the listening socket, the UDP     *)
(* socket and the two timers, which live as long as the node, and one per  *)
(* client connection, allocated by accept_client_connection and freed by   *)
(* the loop.  Every registration is EPOLLONESHOT: epoll_wait disables what *)
(* it reports and only the epoll_ctl at the end of an iteration enables it *)
(* again.  The memory, the union fd_data and the open descriptors are      *)
(* guarded by nothing else.                                                *)
(*                                                                         *)
(* What the handlers do to the peers and the files is not of this module,  *)
(* nor are the bytes of a transfer: here a handler is what it does to its  *)
(* descriptor and the handler_status_t it returns.                         *)
(***************************************************************************)
EXTENDS Naturals, FiniteSets

CONSTANTS
  Workers,    \* the threads of start_node
  Clients,    \* client connections; an element is used again after a close
  Listener,   \* the fd_info of type SOCKET_TCP_LISTENER
  Tickers,    \* those of type SOCKET_UDP, SEND_HELLO_TIMEOUT, CLEANUP_TIMEOUT
  MaxEvents,  \* EPOLL_WAIT_MAX_EVENTS
  MaxOpen,    \* descriptors the process may have open beside its own four
  CtlFails,   \* whether epoll_ctl may fail
  WaitFails,  \* whether epoll_wait may: EINTR, when a stopped node is continued
  None        \* no descriptor in the handler, no status yet

Fds == {Listener} \cup Tickers \cup Clients

ASSUME FdsAssumption ==
  /\ Listener \notin Tickers \cup Clients
  /\ Tickers \cap Clients = {}
  /\ None \notin Fds

ASSUME LimitsAssumption ==
  /\ MaxEvents \in Nat \ {0}
  /\ MaxOpen \in Nat
  /\ CtlFails \in BOOLEAN
  /\ WaitFails \in BOOLEAN

(* fd->type; "FREE" is an fd_info that is not allocated. *)
Types == {"LISTENER", "TICKER", "TCP_CLIENT", "FILE_TRANSFER", "FREE"}

(* The members of union _fd_data: which one was stored last. *)
Members == {"integer", "trans_info"}

Statuses == {"CLIENT_CONTINUE_CONNECTION", "CLIENT_CLOSE_CONNECTION",
             "DOWNLOAD_REQUEST", "TIMEOUT_OR_BROADCAST", "ERROR"}

(* What a client can have sent, by the branch of main_handler it selects:   *)
(* PEEK_REQUEST, DOWNLOAD_REQUEST of a file that is shared, or of one that  *)
(* is not (a message without a token is treated the same and counted here), *)
(* a message that is longer than the buffer, any other.                     *)
Requests == {"peek", "download", "missing", "oversize", "other"}

(* "partial": the header or the body has not arrived whole. *)
Inputs == Requests \cup {"empty", "partial"}

VARIABLES
  running,    \* the process has not been killed by a signal and has not returned
  type,       \* fd->type
  data,       \* the member of fd->fd_data stored last
  armed,      \* descriptors epoll_wait may report
  batch,      \* per worker: what is left of eventsQueue
  cur,        \* per worker: the descriptor of the iteration it is in
  status,     \* per worker: what the handler returned, or that the thread has
  seen,       \* held descriptors whose reported event has HUP, RDHUP or ERR
  openFiles,  \* connections whose trans_info->file_fd is open
  conn,       \* per connection: "none", "backlog" or "open"
  inbox,      \* per connection: what is to be read on it
  gone,       \* connections whose client has closed or reset its end
  pending     \* tickers with a datagram or an expiration to be read

loopVars == <<armed, batch, cur, status, seen>>
fdVars   == <<type, data, openFiles>>
netVars  == <<conn, inbox, gone, pending>>
vars     == <<running, loopVars, fdVars, netVars>>

TypeOK ==
  /\ running \in BOOLEAN
  /\ type \in [Fds -> Types]
  /\ data \in [Fds -> Members]
  /\ armed \subseteq Fds
  /\ batch \in [Workers -> SUBSET Fds]
  /\ cur \in [Workers -> Fds \cup {None}]
  /\ status \in [Workers -> Statuses \cup {"pending", "exited"}]
  /\ seen \subseteq Fds
  /\ openFiles \subseteq Clients
  /\ conn \in [Clients -> {"none", "backlog", "open"}]
  /\ inbox \in [Clients -> Inputs]
  /\ gone \subseteq Clients
  /\ pending \subseteq Tickers

(* The state start_node reaches before it creates the threads. *)
Init ==
  /\ running = TRUE
  /\ type = [f \in Fds |-> IF f = Listener THEN "LISTENER"
                           ELSE IF f \in Tickers THEN "TICKER" ELSE "FREE"]
  /\ data = [f \in Fds |-> "integer"]
  /\ armed = {Listener} \cup Tickers
  /\ batch = [w \in Workers |-> {}]
  /\ cur = [w \in Workers |-> None]
  /\ status = [w \in Workers |-> "pending"]
  /\ seen = {}
  /\ openFiles = {}
  /\ conn = [c \in Clients |-> "none"]
  /\ inbox = [c \in Clients |-> "empty"]
  /\ gone = {}
  /\ pending = {}

-----------------------------------------------------------------------------
(* The clients and the clock. *)

EnvUnchanged == UNCHANGED <<running, loopVars, fdVars>>

(* connect() completes as soon as the connection is in the backlog. *)
Connect(c) ==
  /\ running
  /\ conn[c] = "none"
  /\ conn' = [conn EXCEPT ![c] = "backlog"]
  /\ UNCHANGED <<inbox, gone, pending>>
  /\ EnvUnchanged

(* A client sends a header and a body, which may arrive one after the other. *)
StartRequest(c) ==
  /\ running
  /\ conn[c] # "none"
  /\ c \notin gone
  /\ inbox[c] = "empty"
  /\ inbox' = [inbox EXCEPT ![c] = "partial"]
  /\ UNCHANGED <<conn, gone, pending>>
  /\ EnvUnchanged

FinishRequest(c, r) ==
  /\ running
  /\ c \notin gone
  /\ inbox[c] = "partial"
  /\ inbox' = [inbox EXCEPT ![c] = r]
  /\ UNCHANGED <<conn, gone, pending>>
  /\ EnvUnchanged

(* The client closes its socket, or its process or its host fails. *)
Leave(c) ==
  /\ running
  /\ conn[c] # "none"
  /\ gone' = gone \cup {c}
  /\ UNCHANGED <<conn, inbox, pending>>
  /\ EnvUnchanged

(* A timer expires, or a datagram arrives. *)
Tick(t) ==
  /\ running
  /\ pending' = pending \cup {t}
  /\ UNCHANGED <<conn, inbox, gone>>
  /\ EnvUnchanged

-----------------------------------------------------------------------------
(* wait_epoll_events up to the call of the handler. *)

(* A transfer is registered with EPOLLOUT; a socket whose buffer is full is *)
(* taken for a writable one whose send returns EAGAIN.                      *)
Ready(f) ==
  \/ f = Listener /\ \E c \in Clients : conn[c] = "backlog"
  \/ f \in pending
  \/ /\ f \in Clients
     /\ conn[f] = "open"
     /\ type[f] = "FILE_TRANSFER" \/ inbox[f] # "empty" \/ f \in gone

(* The descriptors a worker has been given and has not finished with. *)
Held(w) == batch[w] \cup ({cur[w]} \ {None})

(* EPOLLONESHOT; then two mutants, without it and with it for clients only. *)
Level(S) == armed' = armed
ClientsOnly(S) == armed' = armed \ (S \cap Clients)
Disarm(S) == armed' = armed \ S

EpollWait(w) ==
  /\ running
  /\ Held(w) = {}
  /\ status[w] = "pending"
  /\ LET ready == {f \in armed : Ready(f)}
     IN  \E S \in SUBSET ready :
           /\ S # {}
           /\ Cardinality(S) <= MaxEvents
           /\ S = ready \/ Cardinality(S) = MaxEvents
           /\ batch' = [batch EXCEPT ![w] = S]
           /\ Disarm(S)
           /\ seen' = seen \cup (S \cap gone)
  /\ UNCHANGED <<running, fdVars, netVars, cur, status>>

(* epoll_wait fails and the thread returns.  With the last one start_node    *)
(* returns, and the process with it.                                        *)
EpollWaitFails(w) ==
  /\ running
  /\ WaitFails
  /\ Held(w) = {}
  /\ status[w] = "pending"
  /\ status' = [status EXCEPT ![w] = "exited"]
  /\ running' = (\E v \in Workers \ {w} : status[v] # "exited")
  /\ UNCHANGED <<fdVars, netVars, armed, batch, cur, seen>>

(* Mutant: the loop ends after the first event. *)
FirstEventOnly(w) ==
  /\ running
  /\ cur[w] = None
  /\ \E f \in batch[w] : cur' = [cur EXCEPT ![w] = f]
  /\ batch' = [batch EXCEPT ![w] = {}]
  /\ UNCHANGED <<running, fdVars, netVars, armed, status, seen>>

(* The next event of eventsQueue, in an order the kernel chooses. *)
NextEvent(w) ==
  /\ running
  /\ cur[w] = None
  /\ \E f \in batch[w] : /\ cur' = [cur EXCEPT ![w] = f]
                         /\ batch' = [batch EXCEPT ![w] = @ \ {f}]
  /\ UNCHANGED <<running, fdVars, netVars, armed, status, seen>>

DescriptorLeft ==
  Cardinality({c \in Clients : conn[c] = "open"}) + Cardinality(openFiles) < MaxOpen

(* What an epoll_ctl whose result is ignored enables. *)
CtlResults(f) == {{f}} \cup (IF CtlFails THEN {{}} ELSE {})

(* accept and epoll_ctl(EPOLL_CTL_ADD). *)
Register(c) ==
  /\ conn[c] = "backlog"
  /\ DescriptorLeft
  /\ conn' = [conn EXCEPT ![c] = "open"]
  /\ type' = [type EXCEPT ![c] = "TCP_CLIENT"]
  /\ data' = [data EXCEPT ![c] = "integer"]
  /\ \E l \in CtlResults(Listener) : armed' = armed \cup {c} \cup l
  /\ UNCHANGED <<inbox, gone>>

(* The registration fails and the connection is closed. *)
Refuse(c) ==
  /\ conn[c] = "backlog"
  /\ DescriptorLeft
  /\ CtlFails
  /\ conn' = [conn EXCEPT ![c] = "none"]
  /\ inbox' = [inbox EXCEPT ![c] = "empty"]
  /\ gone' = gone \ {c}
  /\ \E l \in CtlResults(Listener) : armed' = armed \cup l
  /\ UNCHANGED <<type, data>>

(* Mutant: the iteration ends when accept fails. *)
AcceptFailsEarly ==
  /\ ~DescriptorLeft
  /\ UNCHANGED <<armed, type, data, conn, inbox, gone>>

(* Without a descriptor to spare accept leaves the backlog as it is. *)
AcceptFails ==
  /\ ~DescriptorLeft
  /\ \E l \in CtlResults(Listener) : armed' = armed \cup l
  /\ UNCHANGED <<type, data, conn, inbox, gone>>

AcceptClient(w) ==
  /\ running
  /\ cur[w] = Listener
  /\ \/ \E c \in Clients : Register(c) \/ Refuse(c)
     \/ AcceptFails
  /\ cur' = [cur EXCEPT ![w] = None]
  /\ UNCHANGED <<running, batch, status, seen, openFiles, pending>>

-----------------------------------------------------------------------------
(* main_handler: every action below is one way through it. *)

Handling(w, t) ==
  /\ running
  /\ cur[w] # None
  /\ status[w] = "pending"
  /\ type[cur[w]] = t

Return(w, s) ==
  /\ status' = [status EXCEPT ![w] = s]
  /\ UNCHANGED <<running, armed, batch, cur, seen>>

(* Mutant: recv_tcp_message does not stop when recv returns 0. *)
ReadsNoEof(c) == IF inbox[c] \in Requests THEN {inbox[c]} ELSE {}

(* The outcomes of reading a header and a body.  While the sender is there  *)
(* recv_tcp_message spins until it has every byte.  If the sender leaves in *)
(* the middle, what it did not send is whatever the stack held.             *)
Reads(c) ==
  IF inbox[c] \in Requests THEN {inbox[c]}
  ELSE IF c \in gone THEN Requests \cup {"eof"} ELSE {}

Consume(c, left) == inbox' = [inbox EXCEPT ![c] = left]

HangUp(w) ==
  /\ Handling(w, "TCP_CLIENT")
  /\ cur[w] \in seen
  /\ Return(w, "CLIENT_CLOSE_CONNECTION")
  /\ UNCHANGED <<fdVars, netVars>>

Received(w, r) ==
  /\ Handling(w, "TCP_CLIENT")
  /\ cur[w] \notin seen
  /\ r \in Reads(cur[w])

(* The files listed, the peer gone, or nothing in the header. *)
PeekOrEof(w) ==
  /\ \E r \in {"peek", "eof"} : Received(w, r)
  /\ Consume(cur[w], "empty")
  /\ Return(w, "CLIENT_CLOSE_CONNECTION")
  /\ UNCHANGED <<fdVars, conn, gone, pending>>

(* The answer is that there is no such file, or none. *)
Missing(w) ==
  /\ Received(w, "missing")
  /\ Consume(cur[w], "empty")
  /\ Return(w, "CLIENT_CONTINUE_CONNECTION")
  /\ UNCHANGED <<fdVars, conn, gone, pending>>

(* As many bytes of the body are dropped as the header has: the others stay *)
(* and are read as messages by the iterations that follow.                  *)
Oversize(w) ==
  /\ Received(w, "oversize")
  /\ \E left \in Requests \cup {"partial"} : Consume(cur[w], left)
  /\ Return(w, "CLIENT_CONTINUE_CONNECTION")
  /\ UNCHANGED <<fdVars, conn, gone, pending>>

(* A file of the tree that cannot be opened is a transfer all the same. *)
StartTransfer(w) ==
  /\ Received(w, "download")
  /\ Consume(cur[w], "empty")
  /\ type' = [type EXCEPT ![cur[w]] = "FILE_TRANSFER"]
  /\ data' = [data EXCEPT ![cur[w]] = "trans_info"]
  /\ \/ DescriptorLeft /\ openFiles' = openFiles \cup {cur[w]}
     \/ UNCHANGED openFiles
  /\ Return(w, "DOWNLOAD_REQUEST")
  /\ UNCHANGED <<conn, gone, pending>>

(* Mutant: main_handler ends without a return. *)
UnrecognizedNoReturn(w) ==
  /\ Received(w, "other")
  /\ Consume(cur[w], "empty")
  /\ Return(w, None)
  /\ UNCHANGED <<fdVars, conn, gone, pending>>

(* A message that is none of the protocol's. *)
Unrecognized(w) ==
  /\ Received(w, "other")
  /\ Consume(cur[w], "empty")
  /\ Return(w, "ERROR")
  /\ UNCHANGED <<fdVars, conn, gone, pending>>

(* file_transfer with something left to send, or nothing of it accepted. *)
SendChunk(w) ==
  /\ Handling(w, "FILE_TRANSFER")
  /\ Return(w, "DOWNLOAD_REQUEST")
  /\ UNCHANGED <<fdVars, netVars>>

(* Mutant: the connection is a client's again and the union is not. *)
CompleteTransferKeepsInfo(w) ==
  /\ Handling(w, "FILE_TRANSFER")
  /\ cur[w] \in openFiles
  /\ openFiles' = openFiles \ {cur[w]}
  /\ type' = [type EXCEPT ![cur[w]] = "TCP_CLIENT"]
  /\ Return(w, "CLIENT_CONTINUE_CONNECTION")
  /\ UNCHANGED <<data, netVars>>

(* read returns 0: never for a file that could not be opened. *)
CompleteTransfer(w) ==
  /\ Handling(w, "FILE_TRANSFER")
  /\ cur[w] \in openFiles
  /\ openFiles' = openFiles \ {cur[w]}
  /\ type' = [type EXCEPT ![cur[w]] = "TCP_CLIENT"]
  /\ data' = [data EXCEPT ![cur[w]] = "integer"]
  /\ Return(w, "CLIENT_CONTINUE_CONNECTION")
  /\ UNCHANGED netVars

(* send fails: the connection was reset, or the buffer's length is -1. *)
TransferError(w) ==
  /\ Handling(w, "FILE_TRANSFER")
  /\ cur[w] \in gone \/ cur[w] \notin openFiles
  /\ Return(w, "ERROR")
  /\ UNCHANGED <<fdVars, netVars>>

(* The second of two sends on a connection whose other end is closed raises *)
(* SIGPIPE: no send has MSG_NOSIGNAL and no handler is installed.  A reply  *)
(* to a missing file is one send, so it is not among them.                  *)
Killed(w) ==
  /\ \/ Handling(w, "FILE_TRANSFER")
     \/ \E r \in {"peek", "download"} : Received(w, r)
  /\ cur[w] \in gone
  /\ running' = FALSE
  /\ UNCHANGED <<loopVars, fdVars, netVars>>

(* Mutant: a datagram that is not a hello is an error. *)
HandleTickerError(w) ==
  /\ Handling(w, "TICKER")
  /\ pending' = pending \ {cur[w]}
  /\ \E s \in {"TIMEOUT_OR_BROADCAST", "ERROR"} : Return(w, s)
  /\ UNCHANGED <<fdVars, conn, inbox, gone>>

(* A timer that epoll has reported is read without an error, and whatever a *)
(* datagram has in it the socket is enabled again.                          *)
HandleTicker(w) ==
  /\ Handling(w, "TICKER")
  /\ pending' = pending \ {cur[w]}
  /\ Return(w, "TIMEOUT_OR_BROADCAST")
  /\ UNCHANGED <<fdVars, conn, inbox, gone>>

Handler(w) ==
  \/ HangUp(w) \/ PeekOrEof(w) \/ Missing(w) \/ Oversize(w)
  \/ StartTransfer(w) \/ Unrecognized(w) \/ SendChunk(w) \/ CompleteTransfer(w)
  \/ TransferError(w) \/ Killed(w) \/ HandleTicker(w)

-----------------------------------------------------------------------------
(* wait_epoll_events after the handler: the switch on its status. *)

EndIteration(w) ==
  /\ cur' = [cur EXCEPT ![w] = None]
  /\ status' = [status EXCEPT ![w] = "pending"]
  /\ seen' = seen \ {cur[w]}
  /\ UNCHANGED <<running, batch>>

(* close and free: the connection and its fd_info are there to be used again. *)
Release(c) ==
  /\ type' = [type EXCEPT ![c] = "FREE"]
  /\ conn' = [conn EXCEPT ![c] = "none"]
  /\ inbox' = [inbox EXCEPT ![c] = "empty"]
  /\ gone' = gone \ {c}
  /\ UNCHANGED <<data, pending>>

Rearm(w) ==
  /\ running
  /\ status[w] \in {"CLIENT_CONTINUE_CONNECTION", "DOWNLOAD_REQUEST", "TIMEOUT_OR_BROADCAST"}
  /\ armed' = armed \cup {cur[w]}
  /\ EndIteration(w)
  /\ UNCHANGED <<fdVars, netVars>>

(* Mutant: the file of the transfer stays open. *)
RearmClientFailsLeak(w) ==
  /\ running
  /\ CtlFails
  /\ status[w] \in {"CLIENT_CONTINUE_CONNECTION", "DOWNLOAD_REQUEST"}
  /\ Release(cur[w])
  /\ EndIteration(w)
  /\ UNCHANGED <<armed, openFiles>>

(* epoll_ctl(EPOLL_CTL_MOD) fails: the client is dropped, and its file. *)
RearmClientFails(w) ==
  /\ running
  /\ CtlFails
  /\ status[w] \in {"CLIENT_CONTINUE_CONNECTION", "DOWNLOAD_REQUEST"}
  /\ Release(cur[w])
  /\ openFiles' = IF status[w] = "DOWNLOAD_REQUEST" THEN openFiles \ {cur[w]}
                  ELSE openFiles
  /\ EndIteration(w)
  /\ UNCHANGED armed

(* It fails for a ticker, and nothing looks at the result. *)
RearmTickerFails(w) ==
  /\ running
  /\ CtlFails
  /\ status[w] = "TIMEOUT_OR_BROADCAST"
  /\ EndIteration(w)
  /\ UNCHANGED <<armed, fdVars, netVars>>

(* Mutant: the case before has no break. *)
CloseClientArmed(w) ==
  /\ running
  /\ status[w] = "CLIENT_CLOSE_CONNECTION"
  /\ Release(cur[w])
  /\ armed' = armed \cup {cur[w]}
  /\ EndIteration(w)
  /\ UNCHANGED openFiles

CloseClient(w) ==
  /\ running
  /\ status[w] = "CLIENT_CLOSE_CONNECTION"
  /\ Release(cur[w])
  /\ EndIteration(w)
  /\ UNCHANGED <<armed, openFiles>>

(* The default of the switch: neither enabled again nor closed. *)
IgnoreError(w) ==
  /\ running
  /\ status[w] = "ERROR"
  /\ EndIteration(w)
  /\ UNCHANGED <<armed, fdVars, netVars>>

WorkerStep(w) ==
  \/ EpollWait(w) \/ EpollWaitFails(w) \/ NextEvent(w) \/ AcceptClient(w) \/ Handler(w)
  \/ Rearm(w) \/ RearmClientFails(w) \/ RearmTickerFails(w)
  \/ CloseClient(w) \/ IgnoreError(w)

Terminated == ~running /\ UNCHANGED vars

Next ==
  \/ \E w \in Workers : WorkerStep(w)
  \/ \E c \in Clients : Connect(c) \/ StartRequest(c) \/ Leave(c)
  \/ \E c \in Clients, r \in Requests : FinishRequest(c, r)
  \/ \E t \in Tickers : Tick(t)
  \/ Terminated

Spec == Init /\ [][Next]_vars

(* The scheduler runs every thread that can run, and a client that has sent *)
(* part of a message sends the rest: cli.c makes the two calls in a row,    *)
(* and if it is stopped in between its kernel closes the connection.        *)
Fairness ==
  /\ \A w \in Workers : WF_vars(WorkerStep(w))
  /\ \A c \in Clients : WF_vars(\E r \in Requests : FinishRequest(c, r))

FairSpec == Spec /\ Fairness

-----------------------------------------------------------------------------
(* Properties. *)

(* EPOLLONESHOT gives every descriptor to one worker at a time: what one    *)
(* holds no other holds and epoll does not report it (events.c:37, 100-158).*)
ExclusiveHandling ==
  /\ \A w \in Workers : Held(w) \cap armed = {}
  /\ \A w \in Workers : cur[w] \notin batch[w]
  /\ \A v, w \in Workers : v # w => Held(v) \cap Held(w) = {}

(* The pointers kept by epoll and in the events queues point to memory that *)
(* is allocated: no free leaves one behind (events.c:100, 122-146).         *)
NoDanglingEvent ==
  \A f \in Fds :
    f \in armed \/ (\E w \in Workers : f \in Held(w)) => type[f] # "FREE"

(* A type other than FILE_TRANSFER goes with the integer (events.h:59-61).  *)
(* The epoll_ctl and close of an iteration rely on it twice: after the      *)
(* handler they choose the member by the status and not by the type.        *)
UnionMemberMatches ==
  /\ \A f \in Fds : type[f] # "FREE" =>
       (data[f] = "trans_info" <=> type[f] = "FILE_TRANSFER")
  /\ \A w \in Workers :
       /\ status[w] = "DOWNLOAD_REQUEST" => data[cur[w]] = "trans_info"
       /\ status[w] \in {"CLIENT_CONTINUE_CONNECTION", "CLIENT_CLOSE_CONNECTION",
                         "TIMEOUT_OR_BROADCAST"} => data[cur[w]] = "integer"

(* A file is open only on behalf of a transfer whose connection is open: no *)
(* way out of a transfer forgets its descriptor (server.c:39, events.c:142).*)
OpenFilesAreTransfers ==
  \A c \in openFiles : type[c] = "FILE_TRANSFER" /\ conn[c] = "open"

(* The listener and the UDP socket block, and so does a timer: a worker     *)
(* that is given one finds something to accept or to read, whatever the     *)
(* others did since (server.c:209, 244, 257, events.c:64).                  *)
NeverBlocksOnNothing ==
  \A w \in Workers, f \in Fds : f \in Held(w) =>
    /\ f = Listener => \E c \in Clients : conn[c] = "backlog"
    /\ f \in Tickers /\ ~(cur[w] = f /\ status[w] # "pending") => f \in pending

(* Every connection that is open is in epoll or in the hands of a worker,   *)
(* so that something will close it (events.h:22).                           *)
NoOrphan ==
  \A c \in Clients :
    conn[c] = "open" => c \in armed \/ \E w \in Workers : c \in Held(w)

(* A send to a client that is gone is an error of that send (network.h:27)  *)
(* and not the end of the node, also when no message was cut short.         *)
NodeStaysUp == running \/ \E c \in Clients : inbox[c] = "partial"

(* However the events come together, a worker that is stuck on half a       *)
(* message or busy with transfers does not stop the node from accepting.    *)
ListenerReturns == Listener \notin armed ~> Listener \in armed \/ ~running

(* Every hello datagram and every expiration is handled.                    *)
TickersHandled == \A t \in Tickers : t \in pending ~> t \notin pending \/ ~running

(* A request that is whole while its connection is in epoll is answered, or *)
(* the connection is closed, unless the node is killed first.  One that     *)
(* comes during a transfer waits for its end and is not of this property,   *)
(* and one that is too long is read again as long as bytes of it are left.  *)
RequestsHandled ==
  \A c \in Clients :
    type[c] = "TCP_CLIENT" /\ c \in armed /\ inbox[c] \in Requests \ {"oversize"}
      ~> inbox[c] \notin Requests \/ ~running

=============================================================================
