----------------------------- MODULE ServerProofs -----------------------------
(***************************************************************************)
(* Proofs about the server: how its threads handle the descriptors that    *)
(* epoll reports (EventLoop), for any number of workers, clients and       *)
(* tickers, and what it sends to one client (FileTransfer), for every size *)
(* of the file, of a chunk and of the buffers of the connection.           *)
(***************************************************************************)
EXTENDS EventLoop, FileTransfer, TLAPS

-----------------------------------------------------------------------------
(* EventLoop.  ExclusiveHandling is not inductive alone: a worker that      *)
(* enables a descriptor again must be the one that holds it, and a          *)
(* descriptor that is accepted must be held by nobody, which follows from   *)
(* the descriptor being free (Lifetimes) and from nobody holding a free one *)
(* (NoDanglingEvent).  That a worker closes only connections, and only      *)
(* those it holds, is StatusMatches.                                        *)

(* What lives as long as the node, and a connection that is allocated       *)
(* exactly while it is open.                                                *)
Lifetimes ==
  /\ type[Listener] = "LISTENER"
  /\ \A t \in Tickers : type[t] = "TICKER"
  /\ \A c \in Clients :
       /\ type[c] \in {"TCP_CLIENT", "FILE_TRANSFER", "FREE"}
       /\ conn[c] = "open" <=> type[c] # "FREE"

(* The kind of descriptor each status is returned for. *)
StatusMatches ==
  \A w \in Workers :
    /\ status[w] \notin {"pending", "exited"} => cur[w] # None
    /\ status[w] = "exited" => cur[w] = None /\ batch[w] = {}
    /\ status[w] \in {"CLIENT_CONTINUE_CONNECTION", "CLIENT_CLOSE_CONNECTION"} =>
         cur[w] \in Clients /\ type[cur[w]] = "TCP_CLIENT"
    /\ status[w] = "DOWNLOAD_REQUEST" =>
         cur[w] \in Clients /\ type[cur[w]] = "FILE_TRANSFER"
    /\ status[w] = "TIMEOUT_OR_BROADCAST" => cur[w] \in Tickers
    /\ status[w] = "ERROR" => cur[w] \in Clients

IInv ==
  /\ TypeOK
  /\ ExclusiveHandling
  /\ NoDanglingEvent
  /\ UnionMemberMatches
  /\ OpenFilesAreTransfers
  /\ Lifetimes
  /\ StatusMatches

USE FdsAssumption

(* The state start_node leaves satisfies the inductive invariant. *)
LEMMA InitIInv == Init => IInv
  <1> SUFFICES ASSUME Init PROVE IInv
    OBVIOUS
  <1>1. TypeOK
    BY DEF Init, TypeOK, Fds, Types, Members, Inputs
  <1>2. \A w \in Workers : Held(w) = {}
    BY DEF Init, Held
  <1>3. ExclusiveHandling
    BY <1>2 DEF Init, ExclusiveHandling
  <1>4. NoDanglingEvent
    BY <1>2 DEF Init, NoDanglingEvent, Fds
  <1>5. UnionMemberMatches /\ OpenFilesAreTransfers
    BY DEF Init, UnionMemberMatches, OpenFilesAreTransfers, Fds
  <1>6. Lifetimes /\ StatusMatches
    BY DEF Init, Lifetimes, StatusMatches, Fds
  <1> QED
    BY <1>1, <1>3, <1>4, <1>5, <1>6 DEF IInv

(* The clients and the clock touch none of what the workers share. *)
LEMMA EnvironmentIInv ==
  ASSUME IInv,
         \/ \E c \in Clients : Connect(c) \/ StartRequest(c) \/ Leave(c)
         \/ \E c \in Clients, r \in Requests : FinishRequest(c, r)
         \/ \E t \in Tickers : Tick(t)
         \/ Terminated
  PROVE  IInv'
  <1>1. UNCHANGED <<loopVars, fdVars>>
    BY DEF Connect, StartRequest, Leave, FinishRequest, Tick, Terminated, EnvUnchanged, vars
  <1> USE <1>1 DEF loopVars, fdVars
  <1>2. TypeOK'
    BY DEF IInv, TypeOK, Connect, StartRequest, Leave, FinishRequest, Tick, Terminated, EnvUnchanged,
           vars, netVars, Inputs, Requests
  <1>3. \A c \in Clients : conn'[c] = "open" <=> conn[c] = "open"
    BY DEF IInv, TypeOK, Connect, StartRequest, Leave, FinishRequest, Tick, Terminated, vars, netVars
  <1>4. ExclusiveHandling' /\ NoDanglingEvent' /\ UnionMemberMatches' /\ StatusMatches'
    BY DEF IInv, ExclusiveHandling, NoDanglingEvent, UnionMemberMatches, StatusMatches, Held
  <1>5. OpenFilesAreTransfers' /\ Lifetimes'
    BY <1>3 DEF IInv, TypeOK, OpenFilesAreTransfers, Lifetimes
  <1> QED
    BY <1>2, <1>4, <1>5 DEF IInv

(* epoll_wait hands out what was enabled, hence what nobody held. *)
LEMMA EpollWaitIInv ==
  ASSUME IInv, NEW w \in Workers, EpollWait(w)
  PROVE  IInv'
  <1>1. PICK S \in SUBSET armed :
          /\ batch' = [batch EXCEPT ![w] = S]
          /\ armed' = armed \ S
          /\ seen' = seen \cup (S \cap gone)
    BY DEF EpollWait, Disarm
  <1>2. /\ UNCHANGED <<fdVars, netVars, cur, status>> /\ running' = running
        /\ Held(w) = {} /\ status[w] = "pending"
    BY DEF EpollWait
  <1>3. S \subseteq Fds
    BY <1>1 DEF IInv, TypeOK
  <1>4. TypeOK'
    BY <1>1, <1>2, <1>3 DEF IInv, TypeOK, fdVars, netVars, Fds
  <1>5. /\ Held(w)' = S
        /\ \A v \in Workers : v # w => Held(v)' = Held(v)
    BY <1>1, <1>2 DEF IInv, TypeOK, Held
  <1>6. ExclusiveHandling'
    BY <1>1, <1>2, <1>5 DEF IInv, TypeOK, ExclusiveHandling, Held
  <1>7. NoDanglingEvent'
    BY <1>1, <1>2, <1>3, <1>5 DEF IInv, NoDanglingEvent, fdVars
  <1>8. UnionMemberMatches' /\ OpenFilesAreTransfers' /\ Lifetimes'
    BY <1>2 DEF IInv, UnionMemberMatches, OpenFilesAreTransfers, Lifetimes, fdVars, netVars
  <1>9. StatusMatches'
    BY <1>1, <1>2 DEF IInv, TypeOK, StatusMatches, fdVars
  <1> QED
    BY <1>4, <1>6, <1>7, <1>8, <1>9 DEF IInv

(* A worker leaves with empty hands. *)
LEMMA EpollWaitFailsIInv ==
  ASSUME IInv, NEW w \in Workers, EpollWaitFails(w)
  PROVE  IInv'
  <1>1. /\ status' = [status EXCEPT ![w] = "exited"]
        /\ UNCHANGED <<fdVars, netVars, armed, batch, cur, seen>>
        /\ running' \in BOOLEAN
    BY DEF EpollWaitFails
  <1>2. cur[w] = None /\ batch[w] = {}
    BY DEF EpollWaitFails, Held, IInv, TypeOK
  <1>3. TypeOK'
    BY <1>1 DEF IInv, TypeOK, fdVars, netVars
  <1>4. StatusMatches'
    BY <1>1, <1>2 DEF IInv, TypeOK, StatusMatches, Statuses, fdVars
  <1>5. UnionMemberMatches'
    BY <1>1 DEF IInv, TypeOK, UnionMemberMatches, fdVars
  <1> QED
    BY <1>1, <1>3, <1>4, <1>5 DEF IInv, ExclusiveHandling, NoDanglingEvent, OpenFilesAreTransfers,
       Lifetimes, Held, fdVars, netVars

(* The event a worker begins is still its own. *)
LEMMA NextEventIInv ==
  ASSUME IInv, NEW w \in Workers, NextEvent(w)
  PROVE  IInv'
  <1>1. PICK f \in batch[w] :
          /\ cur' = [cur EXCEPT ![w] = f]
          /\ batch' = [batch EXCEPT ![w] = @ \ {f}]
    BY DEF NextEvent
  <1>2. UNCHANGED <<running, fdVars, netVars, armed, status, seen>> /\ cur[w] = None
    BY DEF NextEvent
  <1>3. f \in Fds
    BY DEF IInv, TypeOK
  <1>4. TypeOK'
    BY <1>1, <1>2, <1>3 DEF IInv, TypeOK, fdVars, netVars
  <1>5. \A v \in Workers : Held(v)' = Held(v)
    BY <1>1, <1>2, <1>3 DEF IInv, TypeOK, Held
  <1>6. ExclusiveHandling'
    BY <1>1, <1>2, <1>5 DEF IInv, TypeOK, ExclusiveHandling
  <1>7. NoDanglingEvent'
    BY <1>2, <1>5 DEF IInv, NoDanglingEvent, fdVars
  <1>8. status[w] = "pending"
    BY <1>1, <1>2 DEF IInv, TypeOK, StatusMatches
  <1>9. UnionMemberMatches' /\ OpenFilesAreTransfers' /\ Lifetimes' /\ StatusMatches'
    BY <1>1, <1>2, <1>8 DEF IInv, TypeOK, UnionMemberMatches, OpenFilesAreTransfers, Lifetimes, StatusMatches,
       fdVars, netVars
  <1> QED
    BY <1>4, <1>6, <1>7, <1>9 DEF IInv

(* Accepting is safe because a connection in the backlog has no fd_info. *)
LEMMA AcceptClientIInv ==
  ASSUME IInv, NEW w \in Workers, AcceptClient(w)
  PROVE  IInv'
  <1>1. /\ cur[w] = Listener
        /\ cur' = [cur EXCEPT ![w] = None]
        /\ UNCHANGED <<running, batch, status, seen, openFiles, pending>>
    BY DEF AcceptClient
  <1>2. status[w] = "pending"
    BY <1>1 DEF IInv, TypeOK, StatusMatches, Statuses, Fds
  <1>3. \A v \in Workers : Held(v)' = Held(v) \ (IF v = w THEN {Listener} ELSE {})
    BY <1>1 DEF IInv, TypeOK, ExclusiveHandling, Held, Fds
  <1>4. \A v \in Workers : Listener \notin Held(v)'
    BY <1>1, <1>3 DEF IInv, ExclusiveHandling, Held, Fds
  <1>5. CASE \E c \in Clients : Register(c)
    <2>1. PICK c \in Clients : Register(c)
      BY <1>5
    <2>2. /\ conn' = [conn EXCEPT ![c] = "open"]
          /\ type' = [type EXCEPT ![c] = "TCP_CLIENT"]
          /\ data' = [data EXCEPT ![c] = "integer"]
          /\ UNCHANGED <<inbox, gone>>
          /\ conn[c] = "backlog"
      BY <2>1 DEF Register
    <2>3. PICK l \in SUBSET {Listener} : armed' = armed \cup {c} \cup l
      BY <2>1 DEF Register, CtlResults
    <2>4. type[c] = "FREE"
      BY <2>2 DEF IInv, Lifetimes
    <2>5. \A v \in Workers : c \notin Held(v) /\ cur[v] # c
      BY <2>4 DEF IInv, NoDanglingEvent, Held, Fds
    <2>6. TypeOK'
      BY <1>1, <2>2, <2>3 DEF IInv, TypeOK, Fds, Types, Members
    <2>7. ExclusiveHandling'
      BY <1>1, <1>3, <1>4, <2>3, <2>5 DEF IInv, TypeOK, ExclusiveHandling, Fds
    <2>8. NoDanglingEvent'
      BY <1>3, <2>2, <2>3 DEF IInv, TypeOK, NoDanglingEvent, Lifetimes, Fds
    <2>9. UnionMemberMatches'
      BY <1>1, <1>2, <2>2, <2>5 DEF IInv, TypeOK, UnionMemberMatches, StatusMatches, Fds
    <2>10. OpenFilesAreTransfers' /\ Lifetimes'
      BY <1>1, <2>2, <2>4 DEF IInv, TypeOK, OpenFilesAreTransfers, Lifetimes, Fds
    <2>11. StatusMatches'
      BY <1>1, <1>2, <2>2, <2>5 DEF IInv, TypeOK, StatusMatches, Fds
    <2> QED
      BY <2>6, <2>7, <2>8, <2>9, <2>10, <2>11 DEF IInv
  <1>6. CASE (\E c \in Clients : Refuse(c)) \/ AcceptFails
    <2>1. UNCHANGED <<type, data>>
      BY <1>6 DEF Refuse, AcceptFails
    <2>2. PICK l \in SUBSET {Listener} : armed' = armed \cup l
      BY <1>6 DEF Refuse, AcceptFails, CtlResults
    <2>3. /\ conn' \in [Clients -> {"none", "backlog", "open"}]
          /\ inbox' \in [Clients -> Inputs]
          /\ gone' \subseteq Clients
          /\ \A c \in Clients : conn'[c] = "open" <=> conn[c] = "open"
      BY <1>6 DEF Refuse, AcceptFails, IInv, TypeOK, Inputs
    <2>4. TypeOK'
      BY <1>1, <2>1, <2>2, <2>3 DEF IInv, TypeOK, Fds
    <2>5. ExclusiveHandling'
      BY <1>1, <1>3, <1>4, <2>2 DEF IInv, TypeOK, ExclusiveHandling, Fds
    <2>6. NoDanglingEvent'
      BY <1>3, <2>1, <2>2 DEF IInv, NoDanglingEvent, Lifetimes, Fds
    <2>7. UnionMemberMatches' /\ StatusMatches'
      BY <1>1, <1>2, <2>1 DEF IInv, TypeOK, UnionMemberMatches, StatusMatches
    <2>8. OpenFilesAreTransfers' /\ Lifetimes'
      BY <1>1, <2>1, <2>3 DEF IInv, TypeOK, OpenFilesAreTransfers, Lifetimes
    <2> QED
      BY <2>4, <2>5, <2>6, <2>7, <2>8 DEF IInv
  <1> QED
    BY <1>5, <1>6 DEF AcceptClient

(* A worker in a handler holds its descriptor, and no other worker does. *)
LEMMA HandlingOwns ==
  ASSUME IInv, NEW w \in Workers, NEW t, Handling(w, t)
  PROVE  /\ cur[w] \in Fds
         /\ t \in {"TCP_CLIENT", "FILE_TRANSFER"} => cur[w] \in Clients
         /\ t = "TICKER" => cur[w] \in Tickers
         /\ \A v \in Workers : v # w => cur[v] # cur[w]
  <1>1. cur[w] \in Fds
    BY DEF Handling, IInv, TypeOK
  <1>2. \A v \in Workers : v # w => cur[v] # cur[w]
    BY <1>1 DEF IInv, ExclusiveHandling, Held, Handling
  <1> QED
    BY <1>1, <1>2 DEF Handling, IInv, Lifetimes, Fds

(* Between the event and the epoll_ctl, the handler changes the descriptor  *)
(* only; which of its changes matter is in the assumptions.                 *)
LEMMA ReturnIInv ==
  ASSUME IInv, NEW w \in Workers, NEW s \in Statuses, Return(w, s),
         cur[w] \in Fds,
         \A v \in Workers : v # w => cur[v] # cur[w],
         TypeOK', Lifetimes', OpenFilesAreTransfers',
         \A f \in Fds : f # cur[w] => type'[f] = type[f] /\ data'[f] = data[f],
         type'[cur[w]] # "FREE" /\ type[cur[w]] # "FREE",
         data'[cur[w]] = "trans_info" <=> type'[cur[w]] = "FILE_TRANSFER",
         s \in {"CLIENT_CONTINUE_CONNECTION", "CLIENT_CLOSE_CONNECTION"} =>
           cur[w] \in Clients /\ type'[cur[w]] = "TCP_CLIENT",
         s = "DOWNLOAD_REQUEST" => cur[w] \in Clients /\ type'[cur[w]] = "FILE_TRANSFER",
         s = "TIMEOUT_OR_BROADCAST" => cur[w] \in Tickers,
         s = "ERROR" => cur[w] \in Clients
  PROVE  IInv'
  <1>1. /\ status' = [status EXCEPT ![w] = s]
        /\ UNCHANGED <<running, armed, batch, cur, seen>>
    BY DEF Return
  <1>2. ExclusiveHandling'
    BY <1>1 DEF IInv, ExclusiveHandling, Held
  <1>3. NoDanglingEvent'
    BY <1>1 DEF IInv, NoDanglingEvent, Held
  <1>4. StatusMatches'
    BY <1>1 DEF IInv, TypeOK, StatusMatches, Statuses, Fds
  <1>5. data'[cur[w]] \in Members
    BY DEF TypeOK
  <1>6. UnionMemberMatches'
    <2>1. \A f \in Fds : type'[f] # "FREE" => (data'[f] = "trans_info" <=> type'[f] = "FILE_TRANSFER")
      BY DEF IInv, UnionMemberMatches
    <2>2. \A v \in Workers :
            /\ status'[v] = "DOWNLOAD_REQUEST" => data'[cur'[v]] = "trans_info"
            /\ status'[v] \in {"CLIENT_CONTINUE_CONNECTION", "CLIENT_CLOSE_CONNECTION",
                               "TIMEOUT_OR_BROADCAST"} => data'[cur'[v]] = "integer"
      BY <1>4, <2>1 DEF StatusMatches, TypeOK, Lifetimes, Members, Fds
    <2> QED
      BY <2>1, <2>2 DEF UnionMemberMatches
  <1> QED
    BY <1>2, <1>3, <1>4, <1>6 DEF IInv

(* The ways through main_handler that leave type and union as they are. *)
LEMMA PlainHandlerIInv ==
  ASSUME IInv, NEW w \in Workers,
         \/ HangUp(w) \/ PeekOrEof(w) \/ Missing(w) \/ Oversize(w)
         \/ Unrecognized(w) \/ SendChunk(w) \/ TransferError(w) \/ HandleTicker(w)
  PROVE  IInv'
  <1>1. PICK s \in Statuses :
          /\ Return(w, s)
          /\ \/ Handling(w, "TCP_CLIENT") /\ s \in {"CLIENT_CONTINUE_CONNECTION",
                                                    "CLIENT_CLOSE_CONNECTION", "ERROR"}
             \/ Handling(w, "FILE_TRANSFER") /\ s \in {"DOWNLOAD_REQUEST", "ERROR"}
             \/ Handling(w, "TICKER") /\ s = "TIMEOUT_OR_BROADCAST"
    BY DEF HangUp, PeekOrEof, Missing, Oversize, Unrecognized, SendChunk, TransferError,
           HandleTicker, Received, Statuses
  <1>2. UNCHANGED <<fdVars, conn, gone>>
    BY DEF HangUp, PeekOrEof, Missing, Oversize, Unrecognized, SendChunk, TransferError,
           HandleTicker, netVars
  <1>3. inbox' \in [Clients -> Inputs] /\ pending' \subseteq Tickers
    BY DEF HangUp, PeekOrEof, Missing, Oversize, Unrecognized, SendChunk, TransferError,
           HandleTicker, Consume, netVars, IInv, TypeOK, Inputs
  <1>4. /\ cur[w] \in Fds
        /\ \A v \in Workers : v # w => cur[v] # cur[w]
        /\ s \in {"CLIENT_CONTINUE_CONNECTION", "CLIENT_CLOSE_CONNECTION"} =>
             cur[w] \in Clients /\ type[cur[w]] = "TCP_CLIENT"
        /\ s = "DOWNLOAD_REQUEST" => cur[w] \in Clients /\ type[cur[w]] = "FILE_TRANSFER"
        /\ s = "TIMEOUT_OR_BROADCAST" => cur[w] \in Tickers
        /\ s = "ERROR" => cur[w] \in Clients
        /\ type[cur[w]] # "FREE"
    BY <1>1, HandlingOwns DEF Handling
  <1>5. TypeOK'
    BY <1>1, <1>2, <1>3 DEF IInv, TypeOK, Return, fdVars
  <1>6. Lifetimes' /\ OpenFilesAreTransfers'
    BY <1>2 DEF IInv, Lifetimes, OpenFilesAreTransfers, fdVars
  <1>7. data[cur[w]] = "trans_info" <=> type[cur[w]] = "FILE_TRANSFER"
    BY <1>4 DEF IInv, UnionMemberMatches
  <1> QED
    BY <1>1, <1>2, <1>4, <1>5, <1>6, <1>7, ReturnIInv DEF fdVars

(* A transfer that starts stores trans_info along with the type. *)
LEMMA StartTransferIInv ==
  ASSUME IInv, NEW w \in Workers, StartTransfer(w)
  PROVE  IInv'
  <1>1. Handling(w, "TCP_CLIENT")
    BY DEF StartTransfer, Received
  <1>2. /\ cur[w] \in Clients
        /\ \A v \in Workers : v # w => cur[v] # cur[w]
    BY <1>1, HandlingOwns
  <1>3. /\ type' = [type EXCEPT ![cur[w]] = "FILE_TRANSFER"]
        /\ data' = [data EXCEPT ![cur[w]] = "trans_info"]
        /\ openFiles' \in SUBSET (openFiles \cup {cur[w]})
        /\ inbox' = [inbox EXCEPT ![cur[w]] = "empty"]
        /\ UNCHANGED <<conn, gone, pending>>
        /\ Return(w, "DOWNLOAD_REQUEST")
        /\ type[cur[w]] = "TCP_CLIENT"
    BY <1>1 DEF StartTransfer, Consume, Handling
  <1>4. conn[cur[w]] = "open"
    BY <1>2, <1>3 DEF IInv, Lifetimes
  <1>5. TypeOK'
    BY <1>2, <1>3 DEF IInv, TypeOK, Return, Types, Members, Inputs, Statuses, Fds
  <1>6. Lifetimes'
    BY <1>2, <1>3, <1>4 DEF IInv, TypeOK, Lifetimes, Fds
  <1>7. OpenFilesAreTransfers'
    BY <1>2, <1>3, <1>4 DEF IInv, TypeOK, OpenFilesAreTransfers, Fds
  <1>8. /\ \A f \in Fds : f # cur[w] => type'[f] = type[f] /\ data'[f] = data[f]
        /\ type'[cur[w]] = "FILE_TRANSFER" /\ data'[cur[w]] = "trans_info"
    BY <1>2, <1>3 DEF IInv, TypeOK, Fds
  <1> QED
    BY <1>2, <1>3, <1>5, <1>6, <1>7, <1>8, ReturnIInv DEF Fds, Statuses

(* One that completes closes its file and is a client's connection again. *)
LEMMA CompleteTransferIInv ==
  ASSUME IInv, NEW w \in Workers, CompleteTransfer(w)
  PROVE  IInv'
  <1>1. Handling(w, "FILE_TRANSFER")
    BY DEF CompleteTransfer
  <1>2. /\ cur[w] \in Clients
        /\ \A v \in Workers : v # w => cur[v] # cur[w]
    BY <1>1, HandlingOwns
  <1>3. /\ type' = [type EXCEPT ![cur[w]] = "TCP_CLIENT"]
        /\ data' = [data EXCEPT ![cur[w]] = "integer"]
        /\ openFiles' = openFiles \ {cur[w]}
        /\ UNCHANGED netVars
        /\ Return(w, "CLIENT_CONTINUE_CONNECTION")
        /\ type[cur[w]] = "FILE_TRANSFER"
    BY <1>1 DEF CompleteTransfer, Handling
  <1>4. TypeOK'
    BY <1>2, <1>3 DEF IInv, TypeOK, Return, Types, Members, Statuses, Fds, netVars
  <1>5. Lifetimes' /\ OpenFilesAreTransfers'
    BY <1>2, <1>3 DEF IInv, TypeOK, Lifetimes, OpenFilesAreTransfers, Fds, netVars
  <1>6. /\ \A f \in Fds : f # cur[w] => type'[f] = type[f] /\ data'[f] = data[f]
        /\ type'[cur[w]] = "TCP_CLIENT" /\ data'[cur[w]] = "integer"
    BY <1>2, <1>3 DEF IInv, TypeOK, Fds
  <1> QED
    BY <1>2, <1>3, <1>4, <1>5, <1>6, ReturnIInv DEF Fds, Statuses

LEMMA HandlerIInv ==
  ASSUME IInv, NEW w \in Workers, Handler(w)
  PROVE  IInv'
  <1>1. CASE Killed(w)
    <2>1. UNCHANGED <<loopVars, fdVars, netVars>> /\ running' = FALSE
      BY <1>1 DEF Killed
    <2>2. TypeOK'
      BY <2>1 DEF IInv, TypeOK, loopVars, fdVars, netVars
    <2> QED
      BY <2>1, <2>2 DEF IInv, ExclusiveHandling, NoDanglingEvent, UnionMemberMatches, OpenFilesAreTransfers,
         Lifetimes, StatusMatches, Held, loopVars, fdVars, netVars
  <1> QED
    BY <1>1, PlainHandlerIInv, StartTransferIInv, CompleteTransferIInv DEF Handler

(* What a worker that ends its iteration holds is what was left of its      *)
(* batch, and nobody holds what it held before.                             *)
LEMMA EndIterationHeld ==
  ASSUME IInv, NEW w \in Workers, EndIteration(w), status[w] \in Statuses
  PROVE  /\ cur[w] \in Fds
         /\ Held(w)' = Held(w) \ {cur[w]}
         /\ \A v \in Workers : v # w => Held(v)' = Held(v)
         /\ \A v \in Workers : cur[w] \notin Held(v)'
         /\ \A v \in Workers : v # w => cur[v] # cur[w]
         /\ type[cur[w]] # "FREE"
  <1>1. cur[w] \in Fds
    BY DEF IInv, TypeOK, StatusMatches, Statuses
  <1>2. /\ cur' = [cur EXCEPT ![w] = None]
        /\ batch' = batch
    BY DEF EndIteration
  <1>3. /\ Held(w)' = Held(w) \ {cur[w]}
        /\ \A v \in Workers : v # w => Held(v)' = Held(v)
    BY <1>1, <1>2 DEF IInv, TypeOK, ExclusiveHandling, Held
  <1>4. \A v \in Workers : v # w => cur[w] \notin Held(v) /\ cur[v] # cur[w]
    BY <1>1 DEF IInv, ExclusiveHandling, Held
  <1>5. type[cur[w]] # "FREE"
    BY <1>1 DEF IInv, NoDanglingEvent, Held
  <1> QED
    BY <1>1, <1>3, <1>4, <1>5

(* A descriptor that is enabled again, or forgotten, changes hands only. *)
LEMMA KeepIInv ==
  ASSUME IInv, NEW w \in Workers, EndIteration(w), status[w] \in Statuses,
         armed' = armed \cup {cur[w]} \/ armed' = armed,
         UNCHANGED <<fdVars, netVars>>
  PROVE  IInv'
  <1>1. /\ cur' = [cur EXCEPT ![w] = None]
        /\ status' = [status EXCEPT ![w] = "pending"]
        /\ UNCHANGED <<running, batch>> /\ seen' = seen \ {cur[w]}
    BY DEF EndIteration
  <1>2. TypeOK'
    BY <1>1, EndIterationHeld DEF IInv, TypeOK, fdVars, netVars
  <1>3. ExclusiveHandling'
    BY <1>1, EndIterationHeld DEF IInv, TypeOK, ExclusiveHandling, Fds
  <1>4. NoDanglingEvent'
    BY EndIterationHeld DEF IInv, NoDanglingEvent, fdVars
  <1>5. UnionMemberMatches' /\ StatusMatches'
    BY <1>1 DEF IInv, TypeOK, UnionMemberMatches, StatusMatches, fdVars
  <1>6. OpenFilesAreTransfers' /\ Lifetimes'
    BY DEF IInv, OpenFilesAreTransfers, Lifetimes, fdVars, netVars
  <1> QED
    BY <1>2, <1>3, <1>4, <1>5, <1>6 DEF IInv

(* A descriptor that is freed is one that epoll and the others do not have. *)
LEMMA ReleaseIInv ==
  ASSUME IInv, NEW w \in Workers, EndIteration(w), Release(cur[w]), UNCHANGED armed,
         \/ /\ status[w] \in {"CLIENT_CONTINUE_CONNECTION", "CLIENT_CLOSE_CONNECTION"}
            /\ openFiles' = openFiles
         \/ /\ status[w] = "DOWNLOAD_REQUEST"
            /\ openFiles' = openFiles \ {cur[w]}
  PROVE  IInv'
  <1>1. /\ cur' = [cur EXCEPT ![w] = None]
        /\ status' = [status EXCEPT ![w] = "pending"]
        /\ UNCHANGED <<running, batch>> /\ seen' = seen \ {cur[w]}
    BY DEF EndIteration
  <1>2. /\ type' = [type EXCEPT ![cur[w]] = "FREE"]
        /\ conn' = [conn EXCEPT ![cur[w]] = "none"]
        /\ inbox' = [inbox EXCEPT ![cur[w]] = "empty"]
        /\ gone' = gone \ {cur[w]}
        /\ UNCHANGED <<data, pending>>
    BY DEF Release
  <1>3. cur[w] \in Clients /\ cur[w] \notin openFiles'
    BY DEF IInv, StatusMatches, OpenFilesAreTransfers
  <1>4. cur[w] \notin armed
    BY <1>3 DEF IInv, ExclusiveHandling, Held, Fds
  <1>5. TypeOK'
    BY <1>1, <1>2, <1>3 DEF IInv, TypeOK, Types, Inputs, Fds
  <1>6. ExclusiveHandling'
    BY <1>1, EndIterationHeld DEF IInv, TypeOK, ExclusiveHandling, Fds
  <1>7. NoDanglingEvent'
    BY <1>2, <1>3, <1>4, EndIterationHeld DEF IInv, TypeOK, NoDanglingEvent, Fds
  <1>8. UnionMemberMatches' /\ StatusMatches'
    BY <1>1, <1>2, <1>3, EndIterationHeld DEF IInv, TypeOK, UnionMemberMatches, StatusMatches, Fds
  <1>9. OpenFilesAreTransfers' /\ Lifetimes'
    BY <1>2, <1>3 DEF IInv, TypeOK, OpenFilesAreTransfers, Lifetimes, Fds
  <1> QED
    BY <1>5, <1>6, <1>7, <1>8, <1>9 DEF IInv

(* Every step of the node preserves the invariant. *)
LEMMA NextIInv == IInv /\ [Next]_vars => IInv'
  <1> SUFFICES ASSUME IInv, [Next]_vars PROVE IInv'
    OBVIOUS
  <1>1. ASSUME NEW w \in Workers, WorkerStep(w) PROVE IInv'
    <2>1. CASE EpollWait(w) \/ EpollWaitFails(w) \/ NextEvent(w) \/ AcceptClient(w) \/ Handler(w)
      BY <2>1, EpollWaitIInv, EpollWaitFailsIInv, NextEventIInv, AcceptClientIInv, HandlerIInv
    <2>2. CASE Rearm(w) \/ RearmTickerFails(w) \/ IgnoreError(w)
      <3>1. /\ EndIteration(w) /\ status[w] \in Statuses
            /\ armed' = armed \cup {cur[w]} \/ armed' = armed
            /\ UNCHANGED <<fdVars, netVars>>
        BY <2>2 DEF Rearm, RearmTickerFails, IgnoreError, Statuses
      <3> QED
        BY <3>1, KeepIInv
    <2>3. CASE RearmClientFails(w) \/ CloseClient(w)
      BY <2>3, ReleaseIInv DEF RearmClientFails, CloseClient
    <2> QED
      BY <1>1, <2>1, <2>2, <2>3 DEF WorkerStep
  <1>2. CASE UNCHANGED vars
    BY <1>2, EnvironmentIInv DEF IInv, TypeOK, ExclusiveHandling, NoDanglingEvent, UnionMemberMatches,
       OpenFilesAreTransfers, Lifetimes, StatusMatches, Held, vars, loopVars, fdVars, netVars
  <1> QED
    BY <1>1, <1>2, EnvironmentIInv DEF Next

LEMMA Invariance == Spec => []IInv
  BY InitIInv, NextIInv, PTL DEF Spec

(* Every variable keeps its type whatever the workers and clients do. *)
THEOREM TypeCorrect == Spec => []TypeOK
  <1>1. IInv => TypeOK
    BY DEF IInv
  <1> QED
    BY <1>1, Invariance, PTL

(* EPOLLONESHOT and the epoll_ctl at the end of an iteration are enough     *)
(* for any number of threads: a descriptor has one holder.                  *)
THEOREM Exclusive == Spec => []ExclusiveHandling
  <1>1. IInv => ExclusiveHandling
    BY DEF IInv
  <1> QED
    BY <1>1, Invariance, PTL

(* No pointer kept by epoll or in an events queue outlives its fd_info. *)
THEOREM NoDangling == Spec => []NoDanglingEvent
  <1>1. IInv => NoDanglingEvent
    BY DEF IInv
  <1> QED
    BY <1>1, Invariance, PTL

(* The union is read as what was stored in it. *)
THEOREM UnionSafe == Spec => []UnionMemberMatches
  <1>1. IInv => UnionMemberMatches
    BY DEF IInv
  <1> QED
    BY <1>1, Invariance, PTL

(* A file stays open only as long as its transfer. *)
THEOREM FilesOwned == Spec => []OpenFilesAreTransfers
  <1>1. IInv => OpenFilesAreTransfers
    BY DEF IInv
  <1> QED
    BY <1>1, Invariance, PTL

-----------------------------------------------------------------------------
(* The descriptors that would block. *)

LEMMA HandlerNeverBlocks ==
  ASSUME IInv, NeverBlocksOnNothing, NEW w \in Workers, Handler(w)
  PROVE  NeverBlocksOnNothing'
  <1>1. UNCHANGED <<batch, cur, conn>>
    BY DEF Handler, HangUp, PeekOrEof, Missing, Oversize, StartTransfer, Unrecognized, SendChunk,
           CompleteTransfer, TransferError, Killed, HandleTicker, Return, loopVars, netVars
  <1>2. CASE HandleTicker(w)
    <2>1. /\ status' = [status EXCEPT ![w] = "TIMEOUT_OR_BROADCAST"]
          /\ pending' = pending \ {cur[w]}
          /\ Handling(w, "TICKER")
      BY <1>2 DEF HandleTicker, Return
    <2>2. cur[w] \in Tickers /\ \A v \in Workers : v # w => cur[w] \notin Held(v)
      BY <2>1, HandlingOwns DEF IInv, ExclusiveHandling, Held, Handling
    <2>3. cur[w] \notin batch[w]
      BY DEF IInv, ExclusiveHandling
    <2> QED
      BY <1>1, <2>1, <2>2, <2>3 DEF NeverBlocksOnNothing, Held, IInv, TypeOK
  <1>3. CASE ~HandleTicker(w)
    <2>1. pending' = pending /\ (status' = status \/ \E s : status' = [status EXCEPT ![w] = s] /\ s # "pending")
      BY <1>3 DEF Handler, HangUp, PeekOrEof, Missing, Oversize, StartTransfer, Unrecognized, SendChunk,
             CompleteTransfer, TransferError, Killed, Return, loopVars, netVars
    <2> QED
      BY <1>1, <2>1 DEF NeverBlocksOnNothing, Held, IInv, TypeOK
  <1> QED
    BY <1>2, <1>3

LEMMA WorkerNeverBlocks ==
  ASSUME IInv, NeverBlocksOnNothing, NEW w \in Workers, WorkerStep(w)
  PROVE  NeverBlocksOnNothing'
  <1>1. CASE EpollWait(w)
    <2>1. PICK S \in SUBSET {f \in armed : Ready(f)} : batch' = [batch EXCEPT ![w] = S]
      BY <1>1 DEF EpollWait
    <2>2. /\ UNCHANGED <<cur, status, conn, pending>>
          /\ Held(w) = {}
      BY <1>1 DEF EpollWait, netVars
    <2>3. \A f \in S : /\ f = Listener => \E c \in Clients : conn[c] = "backlog"
                       /\ f \in Tickers => f \in pending
      BY <2>1 DEF Ready, IInv, TypeOK
    <2>4. Held(w)' = S /\ \A v \in Workers : v # w => Held(v)' = Held(v)
      BY <2>1, <2>2 DEF Held, IInv, TypeOK
    <2> QED
      BY <2>2, <2>3, <2>4 DEF NeverBlocksOnNothing
  <1>6. CASE EpollWaitFails(w)
    BY <1>6 DEF EpollWaitFails, NeverBlocksOnNothing, Held, IInv, TypeOK, StatusMatches, netVars
  <1>2. CASE NextEvent(w)
    <2>1. \A v \in Workers : Held(v)' \subseteq Held(v)
      BY <1>2 DEF NextEvent, Held, IInv, TypeOK
    <2>2. cur[w] = None /\ UNCHANGED <<status, conn, pending>>
      BY <1>2 DEF NextEvent, netVars
    <2>3. \A v \in Workers : v # w => cur'[v] = cur[v]
      BY <1>2 DEF NextEvent, IInv, TypeOK
    <2>4. \A f \in Tickers : f \in Held(w) => f \in pending
      BY <2>2 DEF NeverBlocksOnNothing, Fds
    <2> QED
      BY <2>1, <2>2, <2>3, <2>4 DEF NeverBlocksOnNothing
  <1>3. CASE AcceptClient(w)
    <2>1. /\ cur[w] = Listener
          /\ cur' = [cur EXCEPT ![w] = None]
          /\ UNCHANGED <<batch, status, pending>>
      BY <1>3 DEF AcceptClient
    <2>2. \A v \in Workers : Listener \notin Held(v)' /\ Held(v)' \subseteq Held(v)
      BY <2>1 DEF IInv, TypeOK, ExclusiveHandling, Held, Fds
    <2>3. \A v \in Workers : v # w => cur'[v] = cur[v]
      BY <2>1 DEF IInv, TypeOK
    <2>4. \A f \in Tickers : f \in Held(w) => f \in pending
      BY <2>1 DEF NeverBlocksOnNothing, Fds
    <2> QED
      BY <2>1, <2>2, <2>3, <2>4 DEF NeverBlocksOnNothing
  <1>4. CASE Handler(w)
    BY <1>4, HandlerNeverBlocks
  <1>5. CASE Rearm(w) \/ RearmClientFails(w) \/ RearmTickerFails(w) \/ CloseClient(w) \/ IgnoreError(w)
    <2>1. EndIteration(w) /\ status[w] \in Statuses /\ pending' = pending
      BY <1>5 DEF Rearm, RearmClientFails, RearmTickerFails, CloseClient, IgnoreError, Release, netVars,
         Statuses
    <2>2. \A c \in Clients : conn[c] = "backlog" => conn'[c] = "backlog"
      BY <1>5, <2>1 DEF Rearm, RearmClientFails, RearmTickerFails, CloseClient, IgnoreError, Release, netVars,
         IInv, TypeOK, StatusMatches, Lifetimes
    <2>3. /\ \A v \in Workers : Held(v)' \subseteq Held(v)
          /\ cur[w] \notin Held(w)'
      BY <2>1, EndIterationHeld
    <2>4. \A v \in Workers : v # w => cur'[v] = cur[v] /\ status'[v] = status[v]
      BY <2>1 DEF EndIteration, IInv, TypeOK
    <2>5. \A f \in Tickers : f \in Held(w)' => f \in pending
      BY <2>3 DEF NeverBlocksOnNothing, Fds
    <2> QED
      BY <2>1, <2>2, <2>3, <2>4, <2>5 DEF NeverBlocksOnNothing
  <1> QED
    BY <1>1, <1>2, <1>3, <1>4, <1>5, <1>6 DEF WorkerStep

LEMMA EnvironmentNeverBlocks ==
  ASSUME IInv, NeverBlocksOnNothing,
         \/ \E c \in Clients : Connect(c) \/ StartRequest(c) \/ Leave(c)
         \/ \E c \in Clients, r \in Requests : FinishRequest(c, r)
         \/ \E t \in Tickers : Tick(t)
         \/ Terminated
         \/ UNCHANGED vars
  PROVE  NeverBlocksOnNothing'
  <1>1. UNCHANGED <<batch, cur, status>>
    BY DEF Connect, StartRequest, Leave, FinishRequest, Tick, Terminated, EnvUnchanged, vars, loopVars
  <1>2. pending \subseteq pending' /\ \A c \in Clients : conn[c] = "backlog" => conn'[c] = "backlog"
    BY DEF IInv, TypeOK, Connect, StartRequest, Leave, FinishRequest, Tick, Terminated, vars, netVars
  <1> QED
    BY <1>1, <1>2 DEF NeverBlocksOnNothing, Held

(* No worker waits in accept, recvfrom or the read of a timer for something *)
(* another worker has taken.                                                *)
THEOREM NeverBlocks == Spec => []NeverBlocksOnNothing
  <1>1. Init => NeverBlocksOnNothing
    BY DEF Init, NeverBlocksOnNothing, Held
  <1>2. IInv /\ NeverBlocksOnNothing /\ [Next]_vars => NeverBlocksOnNothing'
    BY WorkerNeverBlocks, EnvironmentNeverBlocks DEF Next
  <1> QED
    BY <1>1, <1>2, Invariance, PTL DEF Spec

-----------------------------------------------------------------------------
(* FileTransfer. *)


(* Where the server is in the file: what it has read is what it has sent    *)
(* and what is left of the chunk.                                           *)
ServerPosition ==
  /\ srv = "request" => pos = 0 /\ streamed = 0
  /\ file = "readable" /\ srv = "transfer" =>
       /\ amountSent <= chunkLen
       /\ pos = streamed + (chunkLen - amountSent)
       /\ \A j \in 1..chunkLen : buf[j] = (pos - chunkLen) + j

(* Where the client is: what it has received is what it has written and     *)
(* what it holds of the current block.                                      *)
ClientPosition ==
  /\ taken = total + got
  /\ total + got <= expected
  /\ expected \in {0, Announced}
  /\ cl \in {"request", "answer"} => expected = 0
  /\ cl \in {"receiving", "completed"} => expected = Announced
  /\ cl = "completed" => total = expected

(* What it has written, if all could be, is the beginning of the file. *)
WrittenIsPrefix == file = "readable" /\ disk = "writable" => \A i \in 1..total : out[i] = i

(* Nothing is transferred of a file that is not in the tree. *)
NothingMissing ==
  file = "missing" =>
    srv # "transfer" /\ cl \in {"request", "answer", "failed"} /\ expected = 0

(* The inductive invariant. *)
TransferInv ==
  /\ TransferTypeOK
  /\ ServerPosition
  /\ ClientPosition
  /\ StreamIsPrefix
  /\ WrittenIsPrefix
  /\ NothingMissing

(* A size that fits into the header is announced as it is.                  *)
LEMMA AnnouncedFits ==
  ASSUME MaxSize < Modulus, size \in 0..MaxSize
  PROVE  Announced = size
BY SizesAssumption DEF Announced

(* The header never announces more than there is. *)
LEMMA AnnouncedRange ==
  ASSUME size \in 0..MaxSize
  PROVE  Announced \in 0..MaxSize
BY SizesAssumption DEF Announced

(* What Extend returns. *)
LEMMA ExtendRange ==
  ASSUME NEW S, NEW n \in Nat, NEW k \in Nat, NEW m \in Nat,
         NEW f \in [1..n -> S], NEW g, \A i \in 1..k : g[m + i] \in S
  PROVE  Extend(f, n, g, m, k) \in [1..(n + k) -> S]
<1> SUFFICES ASSUME NEW i \in 1..(n + k)
             PROVE  (IF i <= n THEN f[i] ELSE g[m + (i - n)]) \in S
  BY DEF Extend
<1>1. CASE i <= n
  BY <1>1
<1>2. CASE ~(i <= n)
  <2>1. i - n \in 1..k
    BY <1>2
  <2> QED
    BY <1>2, <2>1
<1> QED
  BY <1>1, <1>2

(* send takes at least one of the bytes it is given, or none as there is no *)
(* room, and never more.                                                    *)
LEMMA SendableRange ==
  ASSUME TransferTypeOK, NEW n \in Nat, NEW k \in Sendable(n)
  PROVE  k \in Nat /\ k <= n
BY SizesAssumption DEF Sendable, Least, TransferTypeOK

LEMMA InitInvariant == TransferInit => TransferInv
<1> SUFFICES ASSUME TransferInit PROVE TransferInv
  OBVIOUS
<1>1. TransferTypeOK
  <2>1. answered \in BOOLEAN
    BY DEF TransferInit
  <2>2. /\ buf \in [1..CHUNK -> Bytes]
        /\ stream \in [1..streamed -> Bytes]
        /\ out \in [1..total -> Bytes]
    BY SizesAssumption DEF TransferInit, Bytes
  <2> QED
    BY <2>1, <2>2, SizesAssumption DEF TransferInit, TransferTypeOK
<1>2. ServerPosition /\ ClientPosition /\ NothingMissing
  BY DEF TransferInit, ServerPosition, ClientPosition, NothingMissing
<1>3. StreamIsPrefix /\ WrittenIsPrefix
  BY DEF TransferInit, StreamIsPrefix, WrittenIsPrefix
<1> QED
  BY <1>1, <1>2, <1>3 DEF TransferInv

-----------------------------------------------------------------------------
(* The steps of the server. *)

LEMMA AnswerStep == TransferInv /\ (AnswerNotFound \/ AnswerFound) => TransferInv'
<1> SUFFICES ASSUME TransferInv, AnswerNotFound \/ AnswerFound PROVE TransferInv'
  OBVIOUS
<1>1. TransferTypeOK'
  <2>1. /\ UNCHANGED <<file, size, disk, pos, buf, streamed, stream, taken, cl, expected, total,
                       got, out>>
        /\ srv' \in {srv, "transfer"}
        /\ chunkLen' \in {chunkLen, 0}
        /\ amountSent' \in {amountSent, 0}
    BY DEF AnswerNotFound, AnswerFound, fileVars, connVars, cliVars
  <2>2. answered' \in BOOLEAN
    BY DEF AnswerNotFound, AnswerFound
  <2> QED
    BY <2>1, <2>2, SizesAssumption DEF TransferInv, TransferTypeOK, Bytes
<1>2. ServerPosition'
  BY DEF AnswerNotFound, AnswerFound, fileVars, connVars, TransferInv, TransferTypeOK, ServerPosition
<1>3. ClientPosition' /\ StreamIsPrefix' /\ WrittenIsPrefix' /\ NothingMissing'
  BY DEF AnswerNotFound, AnswerFound, fileVars, connVars, cliVars, TransferInv, ClientPosition,
         StreamIsPrefix, WrittenIsPrefix, NothingMissing, Announced
<1> QED
  BY <1>1, <1>2, <1>3 DEF TransferInv

LEMMA NextChunkStep == TransferInv /\ NextChunk => TransferInv'
<1> SUFFICES ASSUME TransferInv, NextChunk PROVE TransferInv'
  OBVIOUS
<1> DEFINE n == Least(CHUNK, size - pos)
<1>1. n \in 1..CHUNK /\ pos + n <= size
  <2>1. size \in Nat /\ pos \in Nat /\ pos < size
    BY SizesAssumption DEF TransferInv, TransferTypeOK, NextChunk
  <2> QED
    BY <2>1, SizesAssumption DEF Least
<1>2. buf' = Fill(n) /\ pos' = pos + n /\ chunkLen' = n
  BY DEF NextChunk
<1>3. /\ \A j \in 1..n : buf'[j] = pos + j
      /\ buf' \in [1..CHUNK -> Bytes]
  <2>1. pos \in Nat /\ size \in 0..MaxSize /\ buf \in [1..CHUNK -> Bytes]
    BY DEF TransferInv, TransferTypeOK
  <2>2. buf' = [i \in 1..CHUNK |-> IF i <= n THEN pos + i ELSE buf[i]]
    BY <1>2 DEF Fill
  <2> HIDE DEF n
  <2>3. \A j \in 1..n : buf'[j] = pos + j
    BY <1>1, <2>2, SizesAssumption
  <2>4. \A i \in 1..CHUNK : (IF i <= n THEN pos + i ELSE buf[i]) \in Bytes
    BY <1>1, <2>1, SizesAssumption DEF Bytes
  <2> QED
    BY <2>2, <2>3, <2>4
<1>4. PICK k \in Sendable(n) : Send(buf', 0, k)
  BY DEF NextChunk
<1>5. k \in Nat /\ k <= n
  BY <1>1, <1>4, SendableRange DEF TransferInv
<1>6. /\ file = "readable" /\ srv = "transfer" /\ amountSent = chunkLen
      /\ UNCHANGED <<file, size, disk, srv, answered, taken, cl, expected, total, got, out>>
  BY DEF NextChunk, fileVars, cliVars
<1>7. streamed = pos
  BY <1>6 DEF TransferInv, ServerPosition, TransferTypeOK
<1>8. amountSent' = k /\ streamed' = streamed + k
  BY <1>4, <1>5 DEF Send
<1>9. \A i \in 1..k : buf'[0 + i] = streamed + i /\ buf'[0 + i] \in Bytes
  <2> HIDE DEF n
  <2> SUFFICES ASSUME NEW i \in 1..k
               PROVE  buf'[i] = streamed + i /\ buf'[i] \in Bytes
    BY <1>5
  <2>1. i \in 1..n /\ i \in 1..CHUNK
    BY <1>1, <1>5, SizesAssumption
  <2> QED
    BY <2>1, <1>3, <1>7
<1>10. stream' = Extend(stream, streamed, buf', 0, k)
  BY <1>4 DEF Send
<1>11. stream' \in [1..streamed' -> Bytes]
  <2>1. streamed \in Nat /\ stream \in [1..streamed -> Bytes]
    BY DEF TransferInv, TransferTypeOK
  <2> HIDE DEF n
  <2> QED
    BY <2>1, <1>5, <1>8, <1>9, <1>10, ExtendRange
<1>12. \A i \in 1..streamed' : stream'[i] = i
  <2>1. streamed \in Nat /\ \A i \in 1..streamed : stream[i] = i
    BY <1>6 DEF TransferInv, TransferTypeOK, StreamIsPrefix
  <2> HIDE DEF n
  <2>2. Extend(stream, streamed, buf', 0, k) = [i \in 1..(streamed + k) |-> i]
    BY <2>1, <1>5, <1>9 DEF Extend
  <2> QED
    BY <2>2, <1>8, <1>10
<1> HIDE DEF n
<1>13. TransferTypeOK'
  BY <1>1, <1>2, <1>3, <1>5, <1>6, <1>8, <1>11, SMTT(30) DEF TransferInv, TransferTypeOK, Bytes
<1>14. ServerPosition'
  BY <1>1, <1>2, <1>3, <1>5, <1>6, <1>7, <1>8 DEF TransferInv, TransferTypeOK, ServerPosition
<1>15. ClientPosition' /\ WrittenIsPrefix' /\ NothingMissing'
  BY <1>6 DEF TransferInv, ClientPosition, WrittenIsPrefix, NothingMissing, Announced
<1>16. StreamIsPrefix'
  BY <1>12 DEF StreamIsPrefix
<1> QED
  BY <1>13, <1>14, <1>15, <1>16 DEF TransferInv

LEMMA RestOfChunkStep == TransferInv /\ RestOfChunk => TransferInv'
<1> SUFFICES ASSUME TransferInv, RestOfChunk PROVE TransferInv'
  OBVIOUS
<1>1. PICK k \in Sendable(chunkLen - amountSent) : Send(buf, amountSent, k)
  BY DEF RestOfChunk
<1>2. /\ file = "readable" /\ srv = "transfer"
      /\ UNCHANGED <<file, size, disk, srv, pos, buf, chunkLen, answered,
                     taken, cl, expected, total, got, out>>
  BY DEF RestOfChunk, fileVars, cliVars
<1>3. /\ chunkLen \in 0..CHUNK /\ amountSent \in 0..chunkLen
      /\ pos = streamed + (chunkLen - amountSent)
      /\ \A j \in 1..chunkLen : buf[j] = (pos - chunkLen) + j
  BY <1>2, SizesAssumption DEF TransferInv, TransferTypeOK, ServerPosition
<1>4. k \in Nat /\ k <= chunkLen - amountSent
  BY <1>1, <1>3, SizesAssumption, SendableRange DEF TransferInv
<1>5. amountSent' = amountSent + k /\ streamed' = streamed + k
      /\ stream' = Extend(stream, streamed, buf, amountSent, k)
  BY <1>1 DEF Send
<1>6. \A i \in 1..k : buf[amountSent + i] = streamed + i /\ buf[amountSent + i] \in Bytes
  BY <1>3, <1>4, SizesAssumption DEF TransferInv, TransferTypeOK
<1>7. stream' \in [1..streamed' -> Bytes]
  <2>1. streamed \in Nat /\ stream \in [1..streamed -> Bytes] /\ amountSent \in Nat
    BY DEF TransferInv, TransferTypeOK
  <2> QED
    BY <2>1, <1>4, <1>5, <1>6, ExtendRange
<1>8. \A i \in 1..streamed' : stream'[i] = i
  <2>1. streamed \in Nat /\ (\A i \in 1..streamed : stream[i] = i) /\ amountSent \in Nat
    BY <1>2 DEF TransferInv, TransferTypeOK, StreamIsPrefix
  <2>2. Extend(stream, streamed, buf, amountSent, k) = [i \in 1..(streamed + k) |-> i]
    <3>1. k \in Nat /\ \A i \in 1..k : buf[amountSent + i] = streamed + i
      BY <1>4, <1>6
    <3> QED
      BY <2>1, <3>1 DEF Extend
  <2> QED
    BY <2>2, <1>5
<1>9. TransferTypeOK'
  BY <1>2, <1>3, <1>4, <1>5, <1>7 DEF TransferInv, TransferTypeOK, Bytes
<1>10. ServerPosition'
  BY <1>2, <1>3, <1>4, <1>5 DEF TransferInv, TransferTypeOK, ServerPosition
<1>11. ClientPosition' /\ WrittenIsPrefix' /\ NothingMissing'
  BY <1>2 DEF TransferInv, ClientPosition, WrittenIsPrefix, NothingMissing, Announced
<1> QED
  BY <1>8, <1>9, <1>10, <1>11 DEF TransferInv, StreamIsPrefix

LEMMA SendUnreadStep == TransferInv /\ SendUnread => TransferInv'
<1> SUFFICES ASSUME TransferInv, SendUnread PROVE TransferInv'
  OBVIOUS
<1>1. /\ file = "unreadable" /\ srv = "transfer" /\ chunkLen' = -1
      /\ UNCHANGED <<file, size, disk, pos, buf, answered, taken, cl, expected, total, got, out>>
  BY DEF SendUnread, fileVars, cliVars
<1>2. ServerPosition' /\ StreamIsPrefix' /\ NothingMissing' /\ WrittenIsPrefix'
      /\ ClientPosition'
  <2>1. srv' # "request"
    BY <1>1 DEF SendUnread
  <2> QED
    BY <1>1, <2>1 DEF TransferInv, ServerPosition, StreamIsPrefix, NothingMissing, WrittenIsPrefix,
                      ClientPosition, Announced
<1>3. CASE srv' = "error" /\ UNCHANGED <<amountSent, streamed, stream>>
  <2>1. TransferTypeOK'
    BY <1>1, <1>3, SizesAssumption DEF TransferInv, TransferTypeOK, Bytes
  <2> QED
    BY <1>2, <2>1 DEF TransferInv
<1>4. CASE \E k \in Sendable(Capacity) :
             LET from == IF chunkLen = amountSent THEN 0 ELSE amountSent
             IN  Send([i \in 1..(from + k) |-> 0], from, k) /\ UNCHANGED srv
  <2> DEFINE from == IF chunkLen = amountSent THEN 0 ELSE amountSent
  <2>1. PICK k \in Sendable(Capacity) : Send([i \in 1..(from + k) |-> 0], from, k)
    BY <1>4
  <2>2. k \in Nat /\ from \in Nat /\ streamed \in Nat /\ stream \in [1..streamed -> Bytes]
    BY SizesAssumption, SendableRange DEF TransferInv, TransferTypeOK
  <2> HIDE DEF from
  <2> DEFINE unread == [i \in 1..(from + k) |-> 0]
  <2>3. \A i \in 1..k : unread[from + i] \in Bytes
    BY <2>2, SizesAssumption DEF Bytes
  <2>4. /\ amountSent' = from + k /\ streamed' = streamed + k
        /\ stream' = Extend(stream, streamed, unread, from, k)
    BY <2>1 DEF Send
  <2> HIDE DEF unread
  <2>5. stream' \in [1..streamed' -> Bytes]
    BY <2>2, <2>3, <2>4, ExtendRange
  <2>6. srv' = srv
    BY <1>4
  <2>7. TransferTypeOK'
    BY <1>1, <2>2, <2>4, <2>5, <2>6, SizesAssumption, SMTT(30) DEF TransferInv, TransferTypeOK, Bytes
  <2> QED
    BY <1>2, <2>7 DEF TransferInv
<1> QED
  BY <1>3, <1>4 DEF SendUnread, connVars

LEMMA ServerEndStep == TransferInv /\ (EndOfFile \/ SendFails \/ ClientHangsUp) => TransferInv'
<1> SUFFICES ASSUME TransferInv, EndOfFile \/ SendFails \/ ClientHangsUp PROVE TransferInv'
  OBVIOUS
<1>1. TransferTypeOK'
  <2>1. /\ UNCHANGED <<file, size, disk, pos, buf, answered, streamed, stream, taken, cl, expected,
                       total, got, out>>
        /\ srv' \in {"idle", "error", "down", "closed"}
        /\ chunkLen' \in {chunkLen, 0}
        /\ amountSent' \in {amountSent, 0}
    BY DEF EndOfFile, SendFails, ClientHangsUp, fileVars, connVars, cliVars
  <2> QED
    BY <2>1, SizesAssumption, SMTT(30) DEF TransferInv, TransferTypeOK, Bytes
<1>2. srv' \notin {"request", "transfer"}
  BY DEF EndOfFile, SendFails, ClientHangsUp
<1>3. ServerPosition' /\ StreamIsPrefix'
  BY <1>2 DEF EndOfFile, SendFails, ClientHangsUp, fileVars, connVars, TransferInv, ServerPosition,
              StreamIsPrefix
<1>4. ClientPosition' /\ WrittenIsPrefix' /\ NothingMissing'
  BY <1>2 DEF EndOfFile, SendFails, ClientHangsUp, fileVars, cliVars, TransferInv, ClientPosition,
              WrittenIsPrefix, NothingMissing, Announced
<1> QED
  BY <1>1, <1>3, <1>4 DEF TransferInv

LEMMA CrashStep == TransferInv /\ Crash => TransferInv'
<1> SUFFICES ASSUME TransferInv, Crash PROVE TransferInv'
  OBVIOUS
<1>1. PICK n \in taken..streamed : streamed' = n /\ stream' = [i \in 1..n |-> stream[i]]
  BY DEF Crash
<1>2. srv' = "down" /\ UNCHANGED <<file, size, disk, pos, buf, chunkLen, amountSent, answered,
                                   taken, cl, expected, total, got, out>>
  BY DEF Crash, fileVars, cliVars
<1>3. TransferTypeOK'
  BY <1>1, <1>2 DEF TransferInv, TransferTypeOK, Bytes
<1>4. StreamIsPrefix'
  BY <1>1, <1>2 DEF TransferInv, TransferTypeOK, StreamIsPrefix
<1> QED
  BY <1>2, <1>3, <1>4 DEF TransferInv, ServerPosition, ClientPosition, WrittenIsPrefix,
                          NothingMissing, Announced

-----------------------------------------------------------------------------
(* The steps of the client. *)

LEMMA AnswerReadStep == TransferInv /\ (SendRequest \/ ReadAnswer \/ NoAnswer) => TransferInv'
<1> SUFFICES ASSUME TransferInv, SendRequest \/ ReadAnswer \/ NoAnswer PROVE TransferInv'
  OBVIOUS
<1>1. /\ UNCHANGED <<file, size, disk, srv, pos, buf, chunkLen, amountSent, answered, streamed,
                     stream, taken, total, got, out>>
      /\ cl \in {"request", "answer"}
  BY DEF SendRequest, ReadAnswer, NoAnswer, fileVars, srvVars, connVars
<1>2. /\ expected = 0 /\ total = 0 /\ got = 0 /\ taken = 0
  BY <1>1 DEF TransferInv, ClientPosition, TransferTypeOK
<1>3. /\ cl' \in {"answer", "receiving", "failed"}
      /\ expected' = IF cl' = "receiving" THEN Announced ELSE 0
      /\ file = "missing" => cl' # "receiving"
  BY <1>2 DEF SendRequest, ReadAnswer, NoAnswer
<1>4. Announced \in 0..MaxSize /\ Announced' = Announced
  BY <1>1, AnnouncedRange DEF TransferInv, TransferTypeOK, Announced
<1>5. TransferTypeOK'
  BY <1>1, <1>2, <1>3, <1>4, SizesAssumption DEF TransferInv, TransferTypeOK, Bytes
<1>6. ClientPosition'
  BY <1>1, <1>2, <1>3, <1>4 DEF ClientPosition
<1>7. NothingMissing'
  BY <1>1, <1>2, <1>3 DEF TransferInv, NothingMissing
<1> QED
  BY <1>1, <1>5, <1>6, <1>7 DEF TransferInv, ServerPosition, StreamIsPrefix, WrittenIsPrefix

LEMMA RecvStep == TransferInv /\ Recv => TransferInv'
<1> SUFFICES ASSUME TransferInv, Recv PROVE TransferInv'
  OBVIOUS
<1>1. PICK k \in 1..Least(Block - got, streamed - taken) : got' = got + k /\ taken' = taken + k
  BY DEF Recv
<1>2. /\ cl = "receiving"
      /\ UNCHANGED <<file, size, disk, srv, pos, buf, chunkLen, amountSent, answered, streamed,
                     stream, cl, expected, total, out>>
  BY DEF Recv, fileVars, srvVars, connVars
<1>3. k \in Nat /\ got + k <= Block /\ taken + k <= streamed
  BY <1>1, SizesAssumption DEF Least, Block, TransferInv, TransferTypeOK
<1>4. Block <= CHUNK /\ Block <= expected - total /\ Block \in Int
  BY SizesAssumption DEF Block, Least, TransferInv, TransferTypeOK
<1>5. TransferTypeOK'
  BY <1>1, <1>2, <1>3, <1>4, SizesAssumption, SMTT(30) DEF TransferInv, TransferTypeOK, Bytes
<1>6. ClientPosition'
  BY <1>1, <1>2, <1>3, <1>4 DEF TransferInv, TransferTypeOK, ClientPosition, Announced
<1> QED
  BY <1>2, <1>5, <1>6 DEF TransferInv, ServerPosition, StreamIsPrefix, WrittenIsPrefix, NothingMissing

(* What is kept of a block are bytes, and with nothing lost those received. *)
LEMMA KeptRange ==
  ASSUME TransferInv, NEW k \in Written
  PROVE  /\ k \in Nat
         /\ \A i \in 1..got : Kept(k)[i] \in Bytes
         /\ disk = "writable" => \A i \in 1..got : Kept(k)[i] = stream[total + i]
<1>1. /\ taken = total + got /\ taken <= streamed
      /\ total \in Nat /\ got \in Nat /\ streamed \in Nat
      /\ stream \in [1..streamed -> Bytes]
  BY DEF TransferInv, TransferTypeOK, ClientPosition
<1>2. k \in Nat /\ (disk = "writable" => k = got)
  BY <1>1 DEF Written
<1>3. \A i \in 1..got : stream[total + i] \in Bytes
  BY <1>1
<1>4. 0 \in Bytes
  BY SizesAssumption DEF Bytes
<1> QED
  BY <1>1, <1>2, <1>3, <1>4 DEF Kept

LEMMA WriteBlockStep == TransferInv /\ WriteBlock => TransferInv'
<1> SUFFICES ASSUME TransferInv, WriteBlock PROVE TransferInv'
  OBVIOUS
<1>1. PICK k \in Written : out' = Extend(out, total, Kept(k), 0, got)
  BY DEF WriteBlock
<1>2. /\ cl = "receiving"
      /\ total' = total + got
      /\ got' = 0
      /\ UNCHANGED <<file, size, disk, srv, pos, buf, chunkLen, amountSent, answered, streamed,
                     stream, taken, cl, expected>>
  BY DEF WriteBlock, BlockReceived, fileVars, srvVars, connVars
<1>3. /\ taken = total + got /\ total + got <= expected /\ taken <= streamed
      /\ total \in Nat /\ got \in Nat /\ expected \in Nat /\ streamed \in Nat
      /\ out \in [1..total -> Bytes]
  BY DEF TransferInv, TransferTypeOK, ClientPosition
<1> DEFINE kept == Kept(k)
<1>4. /\ \A i \in 1..got : kept[0 + i] \in Bytes
      /\ disk = "writable" => \A i \in 1..got : kept[0 + i] = stream[total + i]
  BY <1>3, KeptRange
<1>5. out' = Extend(out, total, kept, 0, got)
  BY <1>1
<1> HIDE DEF kept
<1>6. out' \in [1..total' -> Bytes]
  BY <1>2, <1>3, <1>4, <1>5, ExtendRange
<1>7. ASSUME file = "readable", disk = "writable"
      PROVE  \A i \in 1..total' : out'[i] = i
  <2>1. \A i \in 1..total : out[i] = i
    BY <1>7 DEF TransferInv, WrittenIsPrefix
  <2>2. \A i \in 1..got : kept[0 + i] = total + i
    BY <1>3, <1>4, <1>7 DEF TransferInv, StreamIsPrefix
  <2>3. Extend(out, total, kept, 0, got) = [i \in 1..(total + got) |-> i]
    <3>1. total \in Nat /\ got \in Nat
      BY <1>3
    <3> QED
      BY <2>1, <2>2, <3>1 DEF Extend
  <2> QED
    BY <1>2, <1>5, <2>3
<1>8. TransferTypeOK'
  BY <1>2, <1>3, <1>6, SizesAssumption DEF TransferInv, TransferTypeOK, Bytes
<1>9. ClientPosition'
  BY <1>2, <1>3 DEF TransferInv, ClientPosition, Announced
<1>10. WrittenIsPrefix'
  BY <1>2, <1>7 DEF WrittenIsPrefix
<1> QED
  BY <1>2, <1>8, <1>9, <1>10
  DEF TransferInv, ServerPosition, StreamIsPrefix, NothingMissing

LEMMA ClientEndStep ==
  TransferInv /\ (NoFileOpen \/ NothingReceived \/ ReportCompleted) => TransferInv'
BY SizesAssumption
DEF NoFileOpen, NothingReceived, ReportCompleted, fileVars, srvVars, connVars, TransferInv, TransferTypeOK, ServerPosition,
    ClientPosition, StreamIsPrefix, WrittenIsPrefix, NothingMissing, Bytes, Announced

LEMMA StutterStep == TransferInv /\ UNCHANGED transferVars => TransferInv'
BY DEF transferVars, fileVars, srvVars, connVars, cliVars, TransferInv, TransferTypeOK, ServerPosition,
       ClientPosition, StreamIsPrefix, WrittenIsPrefix, NothingMissing, Bytes, Announced

LEMMA StepInvariant == TransferInv /\ [TransferNext]_transferVars => TransferInv'
BY AnswerStep, NextChunkStep, RestOfChunkStep, SendUnreadStep, ServerEndStep, CrashStep,
   AnswerReadStep, RecvStep, WriteBlockStep, ClientEndStep, StutterStep
DEF TransferNext, Server, Client, Done

LEMMA TransferInvariance == TransferSpec => []TransferInv
BY InitInvariant, StepInvariant, PTL DEF TransferSpec

-----------------------------------------------------------------------------
(* The values of the variables, and with them the bounds of the buffers:    *)
(* a block never exceeds the buffer of the client, and total never exceeds  *)
(* the size that was announced.                                             *)
THEOREM TransferTypeCorrect == TransferSpec => []TransferTypeOK
<1>1. TransferInv => TransferTypeOK
  BY DEF TransferInv
<1> QED
  BY <1>1, TransferInvariance, PTL

(* The bytes sent are those of the file, in order. *)
THEOREM StreamOrdered == TransferSpec => []StreamIsPrefix
<1>1. TransferInv => StreamIsPrefix
  BY DEF TransferInv
<1> QED
  BY <1>1, TransferInvariance, PTL

(* If every size fits into the header, a download that is reported complete *)
(* has all of the file.                                                     *)
THEOREM CompleteDownload ==
  ASSUME MaxSize < Modulus
  PROVE  TransferSpec => []CompletedIsWhole
<1>1. TransferInv => CompletedIsWhole
  <2> SUFFICES ASSUME TransferInv PROVE CompletedIsWhole
    OBVIOUS
  <2>1. Announced = size
    BY AnnouncedFits DEF TransferInv, TransferTypeOK
  <2> QED
    BY <2>1 DEF TransferInv, ClientPosition, WrittenIsPrefix, CompletedIsWhole
<1> QED
  BY <1>1, TransferInvariance, PTL

-----------------------------------------------------------------------------
(* FileTransfer implements Download. *)

(* The file of the client is a prefix, also if the file is missing. *)
OutPrefix ==
  file # "unreadable" /\ disk = "writable" => out = Promise!Prefix(total) /\ total \in 0..size

LEMMA OutIsPrefix == TransferInv => OutPrefix
<1> SUFFICES ASSUME TransferInv, file # "unreadable", disk = "writable"
             PROVE  out = Promise!Prefix(total) /\ total \in 0..size
  BY DEF OutPrefix
<1>1. total \in 0..expected /\ out \in [1..total -> Bytes] /\ expected \in Nat
  BY DEF TransferInv, TransferTypeOK
<1>2. \A i \in 1..total : out[i] = i
  <2>1. CASE file = "readable"
    BY <2>1 DEF TransferInv, WrittenIsPrefix
  <2>2. CASE file = "missing"
    BY <1>1, <2>2 DEF TransferInv, NothingMissing
  <2> QED
    BY <2>1, <2>2 DEF TransferInv, TransferTypeOK
<1>3. expected <= size
  <2>1. expected = 0 \/ expected = Announced
    BY DEF TransferInv, ClientPosition
  <2>2. size \in Nat
    BY SizesAssumption DEF TransferInv, TransferTypeOK
  <2>3. Announced <= size
    BY <2>2, SizesAssumption DEF Announced
  <2> QED
    BY <2>1, <2>2, <2>3
<1>4. size \in Nat
  BY SizesAssumption DEF TransferInv, TransferTypeOK
<1> QED
  BY <1>1, <1>2, <1>3, <1>4 DEF Promise!Prefix

LEMMA InitRefines == TransferInit => Promise!Init
BY SizesAssumption DEF TransferInit, ClientClosed, Promise!Init, Promise!Prefix

(* A step of the client is one of Download, or none. *)
LEMMA ClientRefines ==
  ASSUME MaxSize < Modulus, TransferInv, OutPrefix', Client
  PROVE  [Promise!Next]_(Promise!vars)
<1>1. UNCHANGED <<file, size, disk>>
  BY DEF Client, SendRequest, ReadAnswer, NoAnswer, Recv, WriteBlock, NoFileOpen, NothingReceived,
         ReportCompleted, fileVars
<1>2. CASE file = "unreadable" \/ disk # "writable"
  BY <1>1, <1>2 DEF Promise!Next
<1> SUFFICES ASSUME file # "unreadable", disk = "writable"
             PROVE  [Promise!Next]_(Promise!vars)
  BY <1>2
<1>3. out = Promise!Prefix(total) /\ total \in 0..size
  BY OutIsPrefix DEF OutPrefix
<1>4. CASE WriteBlock
  <2>1. out' = Promise!Prefix(total') /\ total' \in 0..size
    BY <1>1 DEF OutPrefix
  <2>2. total < total'
    BY <1>4 DEF WriteBlock, BlockReceived, TransferInv, TransferTypeOK
  <2>3. cl = "receiving" /\ cl' = cl
    BY <1>4 DEF WriteBlock, BlockReceived
  <2>4. Promise!Deliver
    BY <1>3, <2>1, <2>2, <2>3 DEF Promise!Deliver, ClientClosed
  <2> QED
    BY <1>1, <2>4 DEF Promise!Next
<1>5. CASE ReportCompleted
  <2>1. total = size
    BY <1>5, AnnouncedFits DEF ReportCompleted, TransferInv, TransferTypeOK, ClientPosition
  <2>2. cl = "receiving" /\ cl' = "completed" /\ out' = out
    BY <1>5 DEF ReportCompleted
  <2>3. Promise!Complete
    BY <1>3, <2>1, <2>2 DEF Promise!Complete, ClientClosed
  <2> QED
    BY <1>1, <2>3 DEF Promise!Next
<1>6. CASE SendRequest \/ ReadAnswer \/ NoAnswer \/ Recv \/ NoFileOpen \/ NothingReceived
  <2>1. /\ out' = out
        /\ cl \in {"request", "answer", "receiving"}
        /\ cl' \in {"answer", "receiving", "failed"}
    BY <1>6 DEF SendRequest, ReadAnswer, NoAnswer, Recv, NoFileOpen, NothingReceived
  <2>2. CASE cl' = "failed"
    <3>1. Promise!Fail
      BY <2>1, <2>2 DEF Promise!Fail, ClientClosed
    <3> QED
      BY <1>1, <3>1 DEF Promise!Next
  <2>3. CASE cl' # "failed"
    BY <1>1, <2>1, <2>3 DEF Promise!vars, ClientClosed
  <2> QED
    BY <2>2, <2>3
<1> QED
  BY <1>4, <1>5, <1>6 DEF Client

LEMMA StepRefines ==
  ASSUME MaxSize < Modulus, TransferInv, OutPrefix', [TransferNext]_transferVars
  PROVE  [Promise!Next]_(Promise!vars)
<1>1. CASE Client
  BY <1>1, ClientRefines
<1>2. CASE ~Client
  <2>1. UNCHANGED <<file, size, disk, out, cl>>
    BY <1>2 DEF TransferNext, Server, Done, Crash, transferVars, AnswerNotFound, AnswerFound, NextChunk,
           RestOfChunk, EndOfFile, SendUnread, SendFails, ClientHangsUp, fileVars, cliVars
  <2> QED
    BY <2>1 DEF Promise!vars, ClientClosed
<1> QED
  BY <1>1, <1>2

(* With files of any size below 2^32 a download keeps what Download         *)
(* promises, however the chunks are split and whenever the node fails.      *)
THEOREM DownloadImplemented ==
  ASSUME MaxSize < Modulus
  PROVE  TransferSpec => Refinement
<1>1. TransferInv /\ OutPrefix' /\ [TransferNext]_transferVars => [Promise!Next]_(Promise!vars)
  BY StepRefines
<1>2. TransferSpec => []TransferInv /\ []OutPrefix
  BY TransferInvariance, OutIsPrefix, PTL
<1> QED
  BY <1>1, <1>2, InitRefines, PTL DEF TransferSpec, Refinement, Promise!Spec

=============================================================================
