-------------------------------- MODULE Start --------------------------------
(***************************************************************************)
(* How a node starts: main (src/main.c), which reads and parses            *)
(* config.json, start_node (src/server.c), which creates the sockets       *)
(* (src/network.c), the epoll instance and the timers (src/events.c) and   *)
(* the threads, and how it ends when no thread is left.                    *)
(*                                                                         *)
(* Every call to the system may fail.  start_node does not look at the     *)
(* results of the first three functions it calls: that a node without a    *)
(* socket does not run is left to the failures that follow from the first. *)
(***************************************************************************)
EXTENDS Json

CONSTANTS
  Files,        \* what config.json may be: bytes, and the item meant, or NULL if it is no JSON
  Unknown,      \* the item meant by a file of which nothing is said
  Stacks,       \* what config_buffer may hold behind the file, up to a 0 or its end
  BUFFER,       \* the size of config_buffer, 2048
  Addresses,    \* the strings that are IP addresses to inet_pton
  NUM_THREADS

ASSUME StartAssumption ==
  /\ {BUFFER, NUM_THREADS} \subseteq Nat \ {0}
  /\ \A f \in Files : DOMAIN f = {"bytes", "means"} /\ f.bytes \in Text
  /\ Stacks \subseteq Text

Workers == 1..NUM_THREADS

VARIABLES
  pc,        \* what the first thread is about to do, or where it has ended
  file,      \* config.json, of which all or the beginning was written
  stack,     \* an element of Stacks
  json,      \* the parse of it
  config,    \* the five values, by name
  fds,       \* the descriptors that are open
  got,       \* what the functions that create them have returned
  step,      \* the call such a function has come to
  epoll,     \* the descriptors in the epoll instance
  bound,     \* the port each socket is bound to
  worker,    \* the state of each thread
  arg        \* how the threads found &arg: "valid", or "stale" once start_node has returned

vars == <<pc, file, stack, json, config, fds, got, step, epoll, bound, worker, arg>>

nodeVars == <<fds, got, step, epoll, bound, worker, arg>>

(* The functions that create a descriptor, each with its calls after the    *)
(* one that opens it.  A call of epoll_ctl has the name of what it adds.    *)
ListenerCalls == <<"setsockopt", "inet_pton", "bind", "listen">>

UdpCalls == <<"setsockopt", "setsockopt", "bind">>

EpollCalls == <<"listener", "udp">>

HelloCalls == <<"timerfd_settime", "hello">>

CleanupCalls == <<"timerfd_settime", "cleanup">>

(* What the error branch of each of these calls closes before it returns    *)
(* -1, a branch for each.  The address of the udp socket is NULL: the       *)
(* branch for one that is none is not reached.                              *)
ListenerCloses == <<{"listener"}, {"listener"}, {"listener"}, {"listener"}>>

(* Mutant: the branch of SO_BROADCAST only returns. *)
UdpClosesLess == <<{"udp"}, {}, {"udp"}>>

UdpCloses == <<{"udp"}, {"udp"}, {"udp"}>>

EpollCloses == <<{"epoll"}, {"epoll"}>>

HelloCloses == <<{"hello"}, {"hello"}>>

CleanupCloses == <<{"cleanup"}, {"cleanup"}>>

Calls == [listener |-> ListenerCalls, udp |-> UdpCalls, epoll |-> EpollCalls,
          hello |-> HelloCalls, cleanup |-> CleanupCalls]

Closes == [listener |-> ListenerCloses, udp |-> UdpCloses, epoll |-> EpollCloses,
           hello |-> HelloCloses, cleanup |-> CleanupCloses]

Descriptors == DOMAIN Calls

Init ==
  /\ pc = "fopen"
  /\ \E f \in Files : \E k \in 0..Len(f.bytes) :
       file = [bytes |-> SubSeq(f.bytes, 1, k), whole |-> k = Len(f.bytes), means |-> f.means]
  /\ stack \in Stacks
  /\ json = [ok |-> FALSE, off |-> 0, item |-> NULL, live |-> 0, safe |-> TRUE]
  /\ config = NULL
  /\ fds = {} /\ epoll = {} /\ step = 0
  /\ got = [d \in Descriptors |-> "nothing"]
  /\ bound = [d \in {"listener", "udp"} |-> 0]
  /\ worker = [w \in Workers |-> "none"]
  /\ arg = "valid"

-----------------------------------------------------------------------------
(* main *)

(* fopen of the configuration or of the log fails. *)
NoFile ==
  /\ pc = "fopen"
  /\ pc' = "noFile"
  /\ UNCHANGED <<file, stack, json, config, nodeVars>>

(* fread: the buffer is not set to 0 before and not ended with one after. *)
Buffer ==
  LET all == file.bytes \o stack IN SubSeq(all, 1, Min({BUFFER, Len(all)}))

ParseConfig ==
  /\ pc = "fopen"
  /\ IF 0 \in Range(Buffer)
     THEN LET p == cJSON_Parse(Append(CString(Buffer), 0))
          IN  json' = p /\ pc' = IF p.ok THEN "fields" ELSE "noJson"
     ELSE pc' = "undefined" /\ UNCHANGED json   \* strlen goes on behind the buffer
  /\ UNCHANGED <<file, stack, config, nodeVars>>

Fields == [srv_name |-> "String", srv_port |-> "Number", srv_ip |-> "String",
           broadcast_port |-> "Number", broadcast_ip |-> "String"]

Field(item, f) == cJSON_GetObjectItemCaseSensitive(item, Bytes(f))

(* check_field_error, and what is kept of a field. *)
FieldOK(item, f) == Field(item, f) # NULL /\ Field(item, f).type = Fields[f]

FieldValue(item, f) ==
  IF Fields[f] = "Number" THEN Field(item, f).int ELSE CString(Field(item, f).string)

NoField ==
  /\ pc = "fields" /\ \E f \in DOMAIN Fields : ~FieldOK(json.item, f)
  /\ pc' = "noField"
  /\ UNCHANGED <<file, stack, json, config, nodeVars>>

GetFields ==
  /\ pc = "fields" /\ \A f \in DOMAIN Fields : FieldOK(json.item, f)
  /\ config' = [f \in DOMAIN Fields |-> FieldValue(json.item, f)]
  /\ json' = [Deleted(json, <<json.item>>) EXCEPT !.item = NULL]
  /\ pc' = "listener"
  /\ UNCHANGED <<file, stack, nodeVars>>

-----------------------------------------------------------------------------
(* start_node, one call to the system after the other. *)

PortOf(d) == IF d = "listener" THEN config.srv_port ELSE config.broadcast_port

(* What comes after each function.  The results of three are not looked at. *)
After(d, result) ==
  CASE d = "listener" -> "udp"
    [] d = "udp"      -> "epoll"
    [] d = "epoll"    -> "files"
    [] d = "hello"    -> IF result = "descriptor" THEN "cleanup" ELSE "returned"
    [] d = "cleanup"  -> IF result = "descriptor" THEN "threads" ELSE "returned"

Returns(d, result) ==
  /\ got' = [got EXCEPT ![d] = result]
  /\ step' = 0
  /\ pc' = After(d, result)

(* The checks of the arguments before the descriptor is opened. *)
ArgumentsOK(d) ==
  /\ d \in {"listener", "udp"} => PortOf(d) \in 1..65535
  /\ d \in {"hello", "cleanup"} => got["epoll"] = "descriptor"

Open(d) ==
  /\ pc = d /\ step = 0 /\ ArgumentsOK(d)
  /\ fds' = fds \cup {d}
  /\ step' = 1
  /\ UNCHANGED <<pc, file, stack, json, config, got, epoll, bound, worker, arg>>

OpenFails(d) ==
  /\ pc = d /\ step = 0
  /\ Returns(d, "-1")
  /\ UNCHANGED <<file, stack, json, config, fds, epoll, bound, worker, arg>>

(* Mutant: epoll_ctl takes any number for a descriptor. *)
PossibleAny(d, call) == call = "inet_pton" => config.srv_ip \in Addresses

(* A call cannot succeed with an address that is none, or a descriptor that *)
(* is -1.                                                                   *)
Possible(d, call) ==
  /\ call = "inet_pton" => config.srv_ip \in Addresses
  /\ d = "epoll" => got[call] = "descriptor"

Call(d) ==
  /\ pc = d /\ step \in DOMAIN Calls[d]
  /\ LET call == Calls[d][step]
     IN  /\ Possible(d, call)
         /\ epoll' = IF call \in Descriptors THEN epoll \cup {call} ELSE epoll
         /\ bound' = IF call = "bind" THEN [bound EXCEPT ![d] = PortOf(d)] ELSE bound
  /\ step' = step + 1
  /\ UNCHANGED <<pc, file, stack, json, config, fds, got, worker, arg>>

(* The branch of the call that failed is taken.  With the epoll instance    *)
(* goes what was in it.                                                     *)
CallFails(d) ==
  /\ pc = d /\ step \in DOMAIN Calls[d]
  /\ LET closed == Closes[d][step]
     IN  /\ fds' = fds \ closed
         /\ epoll' = IF "epoll" \in closed THEN {} ELSE epoll
  /\ Returns(d, "-1")
  /\ UNCHANGED <<file, stack, json, config, bound, worker, arg>>

Created(d) ==
  /\ pc = d /\ step = Len(Calls[d]) + 1
  /\ Returns(d, "descriptor")
  /\ UNCHANGED <<file, stack, json, config, fds, epoll, bound, worker, arg>>

Goto(to) == pc' = to /\ UNCHANGED <<file, stack, json, config, fds, got, step, epoll, bound, arg>>

(* opendir of the shared directory. *)
GetFiles == pc = "files" /\ Goto("hello") /\ UNCHANGED worker

NoDirectory == pc = "files" /\ Goto("returned") /\ UNCHANGED worker

(* After the last of them the thread of the cli is created and detached;     *)
(* the result is not looked at, and it is in no property here: left out.    *)
CreateThread(w) ==
  /\ pc = "threads" /\ worker[w] = "none" /\ \A v \in Workers : v < w => worker[v] # "none"
  /\ worker' = [worker EXCEPT ![w] = "created"]
  /\ Goto(IF w = NUM_THREADS THEN "join" ELSE "threads")

(* pthread_create fails: the threads there are go on until main returns. *)
NoThread == pc = "threads" /\ Goto("returned") /\ UNCHANGED worker

(* Mutant: only the first thread is waited for. *)
AllEndedEarly == worker[1] = "ended"

(* pthread_join of each. *)
AllEnded == \A w \in Workers : worker[w] = "ended"

Join ==
  /\ pc = "join" /\ AllEnded
  /\ pc' = "returned"
  /\ fds' = fds \ {"listener", "udp", "epoll"}
  /\ UNCHANGED <<file, stack, json, config, got, step, epoll, bound, worker, arg>>

(* main returns, with 0 whatever start_node returned. *)
Exit ==
  /\ pc = "returned"
  /\ pc' = "exited"
  /\ fds' = {} /\ epoll' = {}
  /\ worker' = [w \in Workers |-> "none"]
  /\ UNCHANGED <<file, stack, json, config, got, step, bound, arg>>

-----------------------------------------------------------------------------
(* wait_events: a thread reads arg, a variable of start_node, and runs      *)
(* until epoll_wait fails.                                                  *)
WorkerStarts(w) ==
  /\ worker[w] = "created"
  /\ worker' = [worker EXCEPT ![w] = "running"]
  /\ arg' = IF pc = "returned" THEN "stale" ELSE arg
  /\ UNCHANGED <<pc, file, stack, json, config, fds, got, step, epoll, bound>>

WorkerEnds(w) ==
  /\ worker[w] = "running"
  /\ worker' = [worker EXCEPT ![w] = "ended"]
  /\ UNCHANGED <<pc, file, stack, json, config, fds, got, step, epoll, bound, arg>>

Done == pc \in {"noFile", "noJson", "noField", "undefined", "exited"} /\ UNCHANGED vars

Next ==
  \/ NoFile \/ ParseConfig \/ NoField \/ GetFields
  \/ \E d \in Descriptors : Open(d) \/ OpenFails(d) \/ Call(d) \/ CallFails(d) \/ Created(d)
  \/ GetFiles \/ NoDirectory \/ NoThread \/ Join \/ Exit
  \/ \E w \in Workers : CreateThread(w) \/ WorkerStarts(w) \/ WorkerEnds(w)
  \/ Done

Spec == Init /\ [][Next]_vars

-----------------------------------------------------------------------------
(* Properties. *)

(* The file and what is behind it in the buffer say one thing: all of the   *)
(* file is there, and what follows is the end or cannot change its meaning. *)
Readable(item) ==
  /\ file.whole /\ Len(file.bytes) < BUFFER
  /\ stack[1] = 0 \/ item.type \in {"Array", "Object"}

(* A file that is JSON is parsed to its last byte, to the item it means, to *)
(* each escape, name and digit, and one that is not is refused              *)
(* (cJSON.c:1368-1777).                                                     *)
ParsedIsWritten ==
  /\ pc = "fields" /\ file.means = NULL => ~(file.whole /\ stack[1] = 0)
  /\ pc \in {"fields", "noJson"} /\ file.means \notin {NULL, Unknown} /\ Readable(file.means) =>
       json.ok /\ json.item = file.means /\ json.off = Len(file.bytes)

(* Of a file that was cut short while it was written nothing is accepted,   *)
(* however much of an array or object is there, if the buffer ends with it. *)
CutIsRefused ==
  pc = "fields" /\ ~file.whole /\ stack[1] = 0 =>
    file.means \in {NULL, Unknown} \/ file.means.type \notin {"Array", "Object"}

(* Whatever the text, the parser stays inside of it and of the memory it    *)
(* allocates, leaves nothing allocated when it fails and nothing but the    *)
(* item when it does not; cJSON_Delete frees all of that (cJSON.c:253-276). *)
ParserMemory ==
  /\ json.safe
  /\ json.live = IF json.item = NULL THEN 0 ELSE Blocks(<<json.item>>)

(* A node with a thread that handles events has both sockets, on the ports  *)
(* the file gives, both timers, and all of them in epoll, although three    *)
(* results on the way are not looked at (server.c:281-284).                 *)
ServesAsConfigured ==
  \A w \in Workers : worker[w] # "none" =>
    /\ Descriptors \ {"epoll"} = epoll /\ \A d \in epoll : got[d] = "descriptor"
    /\ pc = "join" => fds = Descriptors
    /\ file.means # Unknown =>
         /\ bound = [listener |-> FieldValue(file.means, "srv_port"),
                    udp |-> FieldValue(file.means, "broadcast_port")]
         /\ config = [f \in DOMAIN Fields |-> FieldValue(file.means, f)]

(* Whichever calls fail, in whichever functions, the descriptors that are   *)
(* open between two functions are those these have returned: none was left  *)
(* open by a function that returned -1, and none that a later function or a *)
(* thread is given is closed.  What is in the epoll instance is open, and   *)
(* so is the instance (network.c:15-73, 111-160; events.c:16-60, 167-250;   *)
(* server.c:281-284, 312-321).                                              *)
ReturnedIsOpen ==
  /\ \A d \in Descriptors : d \in fds /\ pc # d => got[d] = "descriptor"
  /\ pc \notin {"returned", "exited"} =>
       /\ \A d \in Descriptors : got[d] = "descriptor" => d \in fds
       /\ epoll \subseteq fds /\ (epoll # {} => "epoll" \in fds)

(* The variable of start_node that the threads read is read before it       *)
(* returns, unless it returned for want of a thread (server.c:329-340).     *)
ArgOutlivesThreads ==
  arg = "stale" => \E w \in Workers : worker[w] = "none"

=============================================================================
