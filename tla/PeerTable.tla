------------------------------ MODULE PeerTable ------------------------------
(***************************************************************************)
(* What a node knows of the others: srv_info->peers, a conc_AVL ordered by *)
(* address, which main_handler fills with the hello messages it receives,  *)
(* the cleanup timer empties of the peers that fell silent, and the cli    *)
(* searches by name (src/server.c, src/peer.c, src/cli.c).                 *)
(*                                                                         *)
(* Every call of the tree holds its mutex, but the pointer a search gives  *)
(* is used after the mutex is released.  A pointer is the address of its   *)
(* peer and whether the object is still allocated: the insertion of a peer *)
(* that is known, and a deletion, free objects.                            *)
(*                                                                         *)
(* EPOLLONESHOT lets one thread at a time handle hello messages and one    *)
(* the cleanup (module EventLoop).  There are NUM_THREADS of them, so that *)
(* hellos are handled between any two steps of a cleanup.                  *)
(***************************************************************************)
EXTENDS AvlTree

CONSTANTS
  Addrs,         \* addresses (ip and port) in the order of peer_compare
  Self,          \* the address of this node
  NameOf,        \* the name in the hello messages of each address
  MAX_TOLERANCE,
  None           \* no pointer

Peer(a, t) == [addr |-> a, name |-> NameOf[a], tolerance |-> t]

(* Tolerances stop at this bound: below 0 nothing tells them apart. *)
LowestTolerance == -1

Tolerances == LowestTolerance..MAX_TOLERANCE

ASSUME AddrsAssumption ==
  /\ Addrs \subseteq Nat /\ Self \in Addrs
  /\ NameOf \in [Addrs -> Nat]
  /\ MAX_TOLERANCE \in Nat \ {0}
  /\ Cmp = "addr" /\ "name" \in Fields
  /\ Keys = Addrs /\ Value \subseteq [addr : Addrs, name : Nat, tolerance : Int]
  /\ \A a \in Addrs, t \in Tolerances : Peer(a, t) \in Value

VARIABLES
  peers,    \* srv_info->peers->tree->root
  net,      \* hello messages on their way to this node
  forget,   \* names the cleanup still has to forget
  found,    \* what its search for the first of them returned
  cli,      \* what the search of a command of the cli returned
  silent    \* per address: cleanups since its last hello, at most MAX_TOLERANCE

vars == <<peers, net, forget, found, cli, silent>>

Pointers == [addr : Addrs, allocated : BOOLEAN]

Known == {v.addr : v \in Values(peers)}

CleanupIdle == forget = <<>>

TypeOK ==
  /\ peers # Crash
  /\ Values(peers) \subseteq {Peer(a, t) : a \in Addrs, t \in Tolerances}
  /\ net \subseteq Addrs
  /\ forget \in Seq(Nat)
  /\ found \in Pointers \cup {None}
  /\ cli \in Pointers \cup {None}
  /\ silent \in [Addrs -> 0..MAX_TOLERANCE]

Init ==
  /\ peers = Nil
  /\ net = {}
  /\ forget = <<>>
  /\ found = None
  /\ cli = None
  /\ silent = [a \in Addrs |-> MAX_TOLERANCE]

-----------------------------------------------------------------------------
(* The other nodes and the network.  Nodes start, stop and start again at    *)
(* any time, which shows in their hello messages only.                      *)

(* SEND_HELLO_TIMEOUT of a node, the broadcast included this node sends.    *)
SendHello(a) ==
  /\ net' = net \cup {a}
  /\ UNCHANGED <<peers, forget, found, cli, silent>>

LoseHello(a) ==
  /\ net' = net \ {a}
  /\ UNCHANGED <<peers, forget, found, cli, silent>>

-----------------------------------------------------------------------------
(* The pointer p once the objects of the addresses freed are released. *)
After(p, freed) ==
  IF p # None /\ p.addr \in freed THEN [p EXCEPT !.allocated = FALSE] ELSE p

(* Mutant: the tolerance of a new peer is one too many. *)
HelloPeerExtra(a) == Peer(a, MAX_TOLERANCE + 1)

(* Mutant: it is one too few. *)
HelloPeerShort(a) == Peer(a, MAX_TOLERANCE - 1)

HelloPeer(a) == Peer(a, MAX_TOLERANCE)

(* case SOCKET_UDP.  An insertion of a known peer frees the object it had.  *)
HandleHello(a) ==
  /\ a \in net
  /\ net' = net \ {a}
  /\ IF a = Self THEN UNCHANGED <<peers, found, cli, silent>>
     ELSE /\ peers' = InsertAux[peers][HelloPeer(a)]
          /\ found' = After(found, {a} \cap Known)
          /\ cli' = After(cli, {a} \cap Known)
          /\ silent' = [silent EXCEPT ![a] = 0]
  /\ UNCHANGED forget

(* Mutant: the tolerance is compared before it is decremented. *)
RunOutLate(t) == t = -1

(* Mutant: the last chance is not given. *)
RunOutEarly(t) == t = 1

(* The test of substract_tolerance, after the decrement. *)
RunOut(t) == t = 0

Lower == [v \in Value |->
  [v EXCEPT !.tolerance = IF @ > LowestTolerance THEN @ - 1 ELSE @]]

ASSUME LowerAssumption == Lower \in [Value -> Value]

(* The names of the peers that ran out, in the order map_aux comes to them. *)
RunOutNames[T \in Tree] ==
  IF T = Nil THEN <<>>
  ELSE RunOutNames[T.left] \o RunOutNames[T.right]
       \o (IF RunOut(T.value.tolerance) THEN <<T.value.name>> ELSE <<>>)

(* case CLEANUP_TIMEOUT, the map: every tolerance goes down by one, and the *)
(* names of the peers whose tolerance comes to 0 are copied.                *)
StartCleanup ==
  /\ CleanupIdle
  /\ peers' = MapAux[peers][Lower]
  /\ forget' = RunOutNames[peers']
  /\ silent' = [a \in Addrs |-> IF silent[a] < MAX_TOLERANCE THEN silent[a] + 1 ELSE silent[a]]
  /\ UNCHANGED <<net, found, cli>>

(* forget_peers, the search: by name in a tree that is ordered by address.  *)
SearchForgotten ==
  /\ forget # <<>>
  /\ found = None
  /\ LET v == SearchAux[peers]["name"][Head(forget)]
     IN  IF v = Nil THEN /\ forget' = Tail(forget)
                         /\ UNCHANGED found
         ELSE /\ found' = [addr |-> v.addr, allocated |-> TRUE]
              /\ UNCHANGED forget
  /\ UNCHANGED <<peers, net, cli, silent>>

(* Mutant: the pointer is only logged. *)
DeleteNothing ==
  /\ found # None
  /\ forget' = Tail(forget)
  /\ found' = None
  /\ UNCHANGED <<peers, net, cli, silent>>

(* forget_peers, the deletion.  The comparisons read the object found: once *)
(* it is not allocated they may lead to any peer or to none, if the process *)
(* survives them.                                                           *)
DeleteForgotten ==
  /\ found # None
  /\ \E a \in IF found.allocated THEN {found.addr} ELSE Addrs :
       /\ peers' = DeleteAux[peers][a]
       /\ cli' = After(cli, {v.addr : v \in Freed[peers][a]})
  /\ forget' = Tail(forget)
  /\ found' = None
  /\ UNCHANGED <<net, silent>>

-----------------------------------------------------------------------------
(* cmd_peek and cmd_download: a search by name, then the address is read.   *)
CliSearch(n) ==
  /\ cli = None
  /\ LET v == SearchAux[peers]["name"][n]
     IN  /\ v # Nil
         /\ cli' = [addr |-> v.addr, allocated |-> TRUE]
  /\ UNCHANGED <<peers, net, forget, found, silent>>

CliConnect ==
  /\ cli # None
  /\ cli' = None
  /\ UNCHANGED <<peers, net, forget, found, silent>>

Cleanup == StartCleanup \/ SearchForgotten \/ DeleteForgotten

Next ==
  \/ \E a \in Addrs : SendHello(a) \/ LoseHello(a) \/ HandleHello(a)
  \/ Cleanup
  \/ \E a \in Addrs : CliSearch(NameOf[a])
  \/ CliConnect

Spec == Init /\ [][Next]_vars

(* The timer expires for ever and a worker handles it (module EventLoop).   *)
FairSpec == Spec /\ WF_vars(Cleanup)

-----------------------------------------------------------------------------
(* Properties. *)

(* The tolerance of a peer is what is left of MAX_TOLERANCE after the       *)
(* cleanups it has been silent for: no hello and no cleanup is counted      *)
(* twice or lost, also when the tree is rearranged.  When a cleanup is over *)
(* no peer is left whose tolerance has run out: the next one would make it  *)
(* negative and it would be known for ever, since only 0 is tested          *)
(* (server.c:130-131, 137-147, 230).                                        *)
ToleranceIsSilence ==
  \A v \in Values(peers) :
    /\ v.tolerance = MAX_TOLERANCE - silent[v.addr]
    /\ CleanupIdle => v.tolerance > 0

(* A search by name finds every peer that is in the tree: cmd_peek, cmd_    *)
(* download and forget_peers rely on it (avl_concurrent.h:32-36).           *)
LookupFinds ==
  \A v \in Values(peers) :
    LET r == SearchAux[peers]["name"][v.name] IN r # Nil /\ r.addr = v.addr

(* The pointer a command found is still allocated when it reads the address *)
(* from it (cli.c:80-85, 229-236): violated when a hello of that peer or a  *)
(* cleanup comes in between.                                                *)
CliPointerAllocated == cli # None => cli.allocated

(* Whatever the names are, and however hellos and cleanups alternate, a     *)
(* peer has lost one of its tolerance for each cleanup since its last hello *)
(* until nothing is left, and then it has run out (server.c:130-131, 230).  *)
ToleranceCounts ==
  \A v \in Values(peers) :
    IF silent[v.addr] < MAX_TOLERANCE
    THEN v.tolerance = MAX_TOLERANCE - silent[v.addr]
    ELSE v.tolerance <= 0

(* Whatever the names are, and whatever hellos come between the steps of a  *)
(* cleanup, it removes no peer but of the name it is about, unless another  *)
(* hello of that peer has freed the object it compares with, and lists only *)
(* names of peers that were silent for MAX_TOLERANCE cleanups               *)
(* (server.c:126-147, 262-263).                                             *)
ForgottenHadRunOut ==
  [][/\ (found # None => found.allocated) => \A a \in Known \ Known' : NameOf[a] = Head(forget)
     /\ \A n \in Range(forget') \ Range(forget) :
          \E a \in Known : NameOf[a] = n /\ silent'[a] = MAX_TOLERANCE]_vars

(* A peer is forgotten only if no hello of it was handled for a while,      *)
(* MAX_TOLERANCE cleanups (server.c:143): violated by a hello between the   *)
(* map of a cleanup and its deletions.                                      *)
ForgottenOnlyIfSilent ==
  [][\A a \in Known \ Known' : silent[a] = MAX_TOLERANCE]_vars

(* A node that sends no hello any more, as it has stopped for good, is not  *)
(* known for ever, whatever hellos of it are still on their way (server.c:  *)
(* 126-147, 256-264).                                                       *)
StoppedIsForgotten ==
  \A a \in Addrs : <>[][~SendHello(a)]_vars => <>[](a \notin Known)

=============================================================================
