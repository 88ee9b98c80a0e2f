--------------------------- MODULE PeerTableProofs ---------------------------
(***************************************************************************)
(* The table of the peers, for any addresses, names, tolerance and number   *)
(* of threads.                                                              *)
(*                                                                         *)
(* Insertions after deletions may follow a null pointer (AvlTable, run     *)
(* avl_table_crash), which no property of the peers survives.  A node with *)
(* at most four peers has no such state (FewRun); for more, the theorems   *)
(* are about the behaviours that never come to one: Spec /\ []Running.     *)
(***************************************************************************)
EXTENDS PeerTable, AvlTreeProofs

(* The process is alive. *)
Running == peers # Crash

-----------------------------------------------------------------------------
(* The peers of the tree. *)

(* One call of map_aux with substract_tolerance: the names it copies. *)
RunOutNamesDef(g, T) ==
  IF T = Nil THEN <<>>
  ELSE g[T.left] \o g[T.right] \o (IF RunOut(T.value.tolerance) THEN <<T.value.name>> ELSE <<>>)

RunOutRecursion == INSTANCE Recursion WITH S <- Tree, rank <- TreeDepth, Def <- RunOutNamesDef

(* RunOutNames, as it is defined. *)
LEMMA RunOutNamesUnfold == \A T \in Tree : RunOutNames[T] = RunOutNamesDef(RunOutNames, T)
<1>1. ASSUME NEW T \in Tree, NEW g, NEW h,
             \A U \in Tree : TreeDepth[U] < TreeDepth[T] => g[U] = h[U]
      PROVE  RunOutNamesDef(g, T) = RunOutNamesDef(h, T)
  <2>1. T # Nil => g[T.left] = h[T.left] /\ g[T.right] = h[T.right]
    BY <1>1, SubtreesAgree
  <2> QED
    BY <2>1 DEF RunOutNamesDef
<1>2. RunOutNames = CHOOSE g : g = [T \in Tree |-> RunOutNamesDef(g, T)]
  BY DEF RunOutNames, RunOutNamesDef
<1> QED
  BY <1>1, <1>2, TreeDepthNat, RunOutRecursion!Unfolds

(* The fields of a value. *)
LEMMA PeerFields ==
  ASSUME NEW v \in Value
  PROVE  /\ v.addr \in Addrs /\ v.name \in Nat /\ v.tolerance \in Int /\ v[Cmp] = v.addr
         /\ Lower[v] \in Value /\ Lower[v].addr = v.addr /\ Lower[v].name = v.name
         /\ Lower[v].tolerance = IF v.tolerance > LowestTolerance THEN v.tolerance - 1 ELSE v.tolerance
         /\ v # Nil
<1>1. v \in [addr : Addrs, name : Nat, tolerance : Int] /\ Cmp = "addr"
  BY AddrsAssumption
<1>2. Lower[v] = [v EXCEPT !.tolerance = IF @ > LowestTolerance THEN @ - 1 ELSE @]
  BY DEF Lower
<1>3. Lower[v] \in Value
  BY LowerAssumption
<1>4. DOMAIN v = {"addr", "name", "tolerance"} /\ DOMAIN Nil = {"pointer"}
  BY <1>1 DEF Nil
<1>5. v # Nil
  BY <1>4
<1> QED
  BY <1>1, <1>2, <1>3, <1>5

(* The names copied are those of the peers of the tree that ran out.        *)
LEMMA RunOutNamesGood ==
  ASSUME NEW T, Good(T)
  PROVE  /\ RunOutNames[T] \in Seq(Nat)
         /\ Range(RunOutNames[T]) = {v.name : v \in {w \in Content(T) : w.tolerance = 0}}
<1> DEFINE Names(U) == {v.name : v \in {w \in Content(U) : w.tolerance = 0}}
           Copied(U) == RunOutNames[U] \in Seq(Nat) /\ Range(RunOutNames[U]) = Names(U)
           G == {U \in AnyTree : Good(U) => Copied(U)}
<1>1. ASSUME NEW U \in AnyTree, U # Nil => U.left \in G /\ U.right \in G
      PROVE  U \in G
  <2>1. SUFFICES ASSUME Good(U) PROVE Copied(U)
    OBVIOUS
  <2>2. RunOutNames[U] = RunOutNamesDef(RunOutNames, U)
    BY <2>1, GoodInTree, RunOutNamesUnfold
  <2>3. CASE U = Nil
    <3>1. RunOutNames[U] = <<>> /\ Range(<<>>) = {} /\ <<>> \in Seq(Nat)
      BY <2>2, <2>3 DEF Range, RunOutNamesDef
    <3> QED
      BY <2>3, <3>1, NilGood
  <2>4. CASE U # Nil
    <3> DEFINE one == IF RunOut(U.value.tolerance) THEN <<U.value.name>> ELSE <<>>
               a == RunOutNames[U.left]
               b == RunOutNames[U.right]
               c == a \o b
    <3>1. /\ U.value \in Value /\ Good(U.left) /\ Good(U.right)
          /\ Content(U) = Content(U.left) \cup {U.value} \cup Content(U.right)
      BY <2>1, <2>4, GoodNode
    <3>2. one \in Seq(Nat) /\ Range(one) = IF U.value.tolerance = 0 THEN {U.value.name} ELSE {}
      <4>1. U.value.name \in Nat
        BY <3>1, PeerFields
      <4>2. CASE U.value.tolerance = 0
        <5>1. one = <<U.value.name>>
          BY <4>2 DEF RunOut
        <5> QED
          BY <4>1, <4>2, <5>1 DEF Range
      <4>3. CASE U.value.tolerance # 0
        <5>1. one = <<>>
          BY <4>3 DEF RunOut
        <5> QED
          BY <4>3, <5>1 DEF Range
      <4> QED
        BY <4>2, <4>3
    <3>3. /\ a \in Seq(Nat) /\ Range(a) = Names(U.left)
          /\ b \in Seq(Nat) /\ Range(b) = Names(U.right)
          /\ RunOutNames[U] = c \o one
      BY <1>1, <2>2, <2>4, <3>1 DEF RunOutNamesDef
    <3> HIDE DEF one, a, b
    <3>4. c \in Seq(Nat) /\ Range(c) = Range(a) \cup Range(b)
      BY <3>3, RangeOfConcat
    <3> HIDE DEF c
    <3>5. RunOutNames[U] \in Seq(Nat) /\ Range(RunOutNames[U]) = Range(c) \cup Range(one)
      <4>1. c \in Seq(Nat) /\ one \in Seq(Nat)
        BY <3>2, <3>4
      <4>2. c \o one \in Seq(Nat) /\ Range(c \o one) = Range(c) \cup Range(one)
        BY <4>1, RangeOfConcat
      <4> QED
        BY <3>3, <4>2
    <3>6. Names(U) = Names(U.left) \cup (IF U.value.tolerance = 0 THEN {U.value.name} ELSE {}) \cup Names(U.right)
      BY <3>1
    <3> HIDE DEF Names
    <3>7. Range(RunOutNames[U]) = Names(U)
      BY <3>2, <3>3, <3>4, <3>5, <3>6
    <3> QED
      BY <3>5, <3>7
  <2> QED
    BY <2>3, <2>4
<1>2. G \in SUBSET AnyTree
  OBVIOUS
<1>3. AnyTree = G
  <2> HIDE DEF G
  <2> QED
    BY <1>1, <1>2, TreeInduction
<1> QED
  BY <1>3 DEF Good

(* The peers a node may know of: never itself. *)
Peers == {Peer(a, t) : a \in Addrs \ {Self}, t \in Tolerances}

(* The fields of a peer. *)
LEMMA PeerShape ==
  ASSUME NEW v \in Peers
  PROVE  /\ v.addr \in Addrs \ {Self} /\ v.tolerance \in Tolerances /\ v.name = NameOf[v.addr]
         /\ v = Peer(v.addr, v.tolerance) /\ v \in Value /\ v[Cmp] = v.addr /\ v # Nil
<1>1. PICK a \in Addrs \ {Self}, t \in Tolerances : v = Peer(a, t)
  BY DEF Peers
<1>2. v.addr = a /\ v.tolerance = t /\ v.name = NameOf[a]
  BY <1>1 DEF Peer
<1>3. v \in Value
  BY <1>1, AddrsAssumption
<1> QED
  BY <1>1, <1>2, <1>3, PeerFields

(* The peer a hello inserts. *)
LEMMA NewPeer ==
  ASSUME NEW a \in Addrs, a # Self
  PROVE  /\ HelloPeer(a) \in Peers /\ HelloPeer(a) \in Value /\ HelloPeer(a)[Cmp] = a
         /\ HelloPeer(a).addr = a /\ HelloPeer(a).tolerance = MAX_TOLERANCE
<1>1. MAX_TOLERANCE \in Tolerances
  BY AddrsAssumption DEF Tolerances, LowestTolerance
<1>2. HelloPeer(a) \in Peers
  BY <1>1 DEF HelloPeer, Peers
<1> QED
  BY <1>2, PeerShape DEF HelloPeer, Peer

-----------------------------------------------------------------------------
(* Types. *)

(* The tree is a good one of peers, and none of them is this node. *)
TreeOfPeers == Good(peers) /\ Content(peers) \subseteq Peers

(* The variables besides the tree. *)
Typed ==
  /\ net \subseteq Addrs
  /\ forget \in Seq(Nat)
  /\ found \in Pointers \cup {None}
  /\ cli \in Pointers \cup {None}
  /\ silent \in [Addrs -> 0..MAX_TOLERANCE]

(* The pointer of the cleanup is that of the first name on its list. *)
PointerOfName == found # None => forget # <<>>

(* The types, and that the tree is one of peers. *)
TypeInv == Typed /\ TreeOfPeers /\ PointerOfName

(* The values that are listed are those of the tree, and their addresses    *)
(* its keys.                                                                *)
LEMMA KnownPeers ==
  ASSUME TreeOfPeers
  PROVE  Values(peers) = Content(peers) /\ KeysIn(peers) = Known /\ Known \subseteq Addrs \ {Self}
<1>1. Values(peers) = Content(peers)
  BY ValuesAreContent DEF TreeOfPeers
<1>2. \A v \in Content(peers) : v[Cmp] = v.addr /\ v.addr \in Addrs \ {Self}
  BY PeerShape DEF TreeOfPeers
<1> QED
  BY <1>1, <1>2 DEF KeysIn, Known

(* A search by name gives a peer of that name or nothing.                   *)
LEMMA FoundByName ==
  ASSUME TreeOfPeers, NEW n \in Nat
  PROVE  LET v == SearchAux[peers]["name"][n]
         IN  v = Nil \/ (v \in Content(peers) /\ v \in Peers /\ v.name = n /\ v.addr \in Addrs)
<1>1. "name" \in Fields
  BY AddrsAssumption
<1> QED
  BY <1>1, SearchFromContent, PeerShape DEF TreeOfPeers

(* A pointer once something was freed. *)
LEMMA AfterType ==
  ASSUME NEW p \in Pointers \cup {None}, NEW freed
  PROVE  After(p, freed) \in Pointers \cup {None} /\ (p = None => After(p, freed) = None)
BY DEF After, Pointers

(* A hello of another node: its peer, with the tolerance of a new one, and  *)
(* the peers of the other addresses.                                        *)
LEMMA HelloStep ==
  ASSUME TypeInv, NEW a \in Addrs, HandleHello(a), a # Self, Running'
  PROVE  /\ TreeOfPeers'
         /\ Content(peers') = {v \in Content(peers) : v.addr # a} \cup {HelloPeer(a)}
<1>1. /\ Good(peers) /\ Content(peers) \subseteq Peers
      /\ peers' = InsertAux[peers][HelloPeer(a)] /\ peers' # Crash
  BY DEF TypeInv, TreeOfPeers, HandleHello, Running
<1>2. HelloPeer(a) \in Value /\ HelloPeer(a) \in Peers /\ HelloPeer(a)[Cmp] = a
  BY NewPeer
<1>3. Good(peers') /\ Content(peers') = With(Content(peers), HelloPeer(a))
  BY <1>1, <1>2, GoodInTree, InsertGood DEF GoodOf
<1>4. \A v \in Content(peers) : v[Cmp] = v.addr
  BY <1>1, PeerShape
<1>5. Content(peers') = {v \in Content(peers) : v.addr # a} \cup {HelloPeer(a)}
  BY <1>2, <1>3, <1>4 DEF With
<1> QED
  BY <1>1, <1>2, <1>3, <1>5 DEF TreeOfPeers

(* A cleanup: every tolerance goes down. *)
LEMMA CleanupStep ==
  ASSUME TypeInv, StartCleanup
  PROVE  /\ TreeOfPeers' /\ Content(peers') = {Lower[v] : v \in Content(peers)}
         /\ forget' \in Seq(Nat)
         /\ Range(forget') = {v.name : v \in {w \in Content(peers') : w.tolerance = 0}}
<1>1. Good(peers) /\ Content(peers) \subseteq Peers /\ peers' = MapAux[peers][Lower]
  BY DEF TypeInv, TreeOfPeers, StartCleanup
<1>2. \A v \in Value : Lower[v][Cmp] = v[Cmp]
  BY PeerFields
<1>3. Good(peers') /\ Content(peers') = {Lower[v] : v \in Content(peers)}
  BY <1>1, <1>2, LowerAssumption, MapGood
<1>4. ASSUME NEW v \in Peers PROVE Lower[v] \in Peers
  <2>1. PICK a \in Addrs \ {Self}, t \in Tolerances : v = Peer(a, t)
    BY DEF Peers
  <2> DEFINE u == IF t > LowestTolerance THEN t - 1 ELSE t
  <2>2. Lower[v] = Peer(a, u)
    <3>1. v \in Value
      BY PeerShape
    <3>2. Lower[v] = [v EXCEPT !.tolerance = IF @ > LowestTolerance THEN @ - 1 ELSE @]
      BY <3>1 DEF Lower
    <3> QED
      BY <2>1, <3>2 DEF Peer
  <2>3. u \in Tolerances
    BY AddrsAssumption DEF Tolerances, LowestTolerance
  <2> QED
    BY <2>2, <2>3 DEF Peers
<1>5. Content(peers') \subseteq Peers
  BY <1>1, <1>3, <1>4
<1>6. forget' = RunOutNames[peers']
  BY DEF StartCleanup
<1> QED
  BY <1>3, <1>5, <1>6, RunOutNamesGood DEF TreeOfPeers

(* The deletion of a peer: the others are left.                             *)
LEMMA DeletionStep ==
  ASSUME TypeInv, NEW a \in Addrs, peers' = DeleteAux[peers][a]
  PROVE  TreeOfPeers' /\ Running' /\ Content(peers') = {v \in Content(peers) : v.addr # a}
<1>1. Good(peers) /\ Content(peers) \subseteq Peers /\ a \in Nat
  BY AddrsAssumption DEF TypeInv, TreeOfPeers
<1>2. Good(peers') /\ peers' # Crash /\ Content(peers') = Without(Content(peers), a)
  BY <1>1, DeleteNeverCrashes
<1>3. \A v \in Content(peers) : v[Cmp] = v.addr
  BY <1>1, PeerShape
<1> QED
  BY <1>1, <1>2, <1>3 DEF Without, TreeOfPeers, Running

(* Nothing of the other nodes and the network is of the tree. *)
Outside == \E a \in Addrs : SendHello(a) \/ LoseHello(a)

(* The table starts empty. *)
LEMMA InitTyped == Init => TypeInv /\ Running
<1>1. SUFFICES ASSUME Init PROVE TypeInv /\ Running
  OBVIOUS
<1>2. [a \in Addrs |-> MAX_TOLERANCE] \in [Addrs -> 0..MAX_TOLERANCE]
  BY AddrsAssumption
<1>3. Typed
  BY <1>1, <1>2, AddrsAssumption DEF Init, Typed
<1> QED
  BY <1>1, <1>3, NilGood DEF Init, TypeInv, TreeOfPeers, PointerOfName, Running

(* The types are kept, and only a hello can end the process. *)
LEMMA NextTyped ==
  ASSUME TypeInv, [Next]_vars, Running'
  PROVE  TypeInv'
<1>1. Typed /\ TreeOfPeers /\ PointerOfName
  BY DEF TypeInv
<1>2. CASE UNCHANGED vars
  BY <1>1, <1>2 DEF vars, Typed, TypeInv, TreeOfPeers, PointerOfName
<1>3. CASE Outside
  BY <1>1, <1>3 DEF Outside, SendHello, LoseHello, Typed, TypeInv, TreeOfPeers, PointerOfName
<1>4. ASSUME NEW a \in Addrs, HandleHello(a) PROVE TypeInv'
  <2>1. net' \subseteq Addrs /\ forget' = forget
    BY <1>1, <1>4 DEF HandleHello, Typed
  <2>2. CASE a = Self
    BY <1>1, <1>4, <2>1, <2>2 DEF HandleHello, Typed, TypeInv, TreeOfPeers, PointerOfName
  <2>3. CASE a # Self
    <3>1. /\ found' \in Pointers \cup {None} /\ cli' \in Pointers \cup {None}
          /\ found' # None => found # None
      BY <1>1, <1>4, <2>3, AfterType DEF HandleHello, Typed
    <3>2. silent' \in [Addrs -> 0..MAX_TOLERANCE]
      BY <1>1, <1>4, <2>3, AddrsAssumption DEF HandleHello, Typed
    <3>3. TreeOfPeers'
      BY <1>4, <2>3, HelloStep
    <3> QED
      BY <1>1, <2>1, <3>1, <3>2, <3>3 DEF Typed, TypeInv, PointerOfName
  <2> QED
    BY <2>2, <2>3
<1>5. CASE StartCleanup
  <2>1. TreeOfPeers' /\ forget' \in Seq(Nat)
    BY <1>5, CleanupStep
  <2>2. silent' \in [Addrs -> 0..MAX_TOLERANCE]
    BY <1>1, <1>5, AddrsAssumption DEF StartCleanup, Typed
  <2>3. found' = None
    BY <1>1, <1>5 DEF StartCleanup, CleanupIdle, PointerOfName
  <2> QED
    BY <1>1, <1>5, <2>1, <2>2, <2>3 DEF StartCleanup, Typed, TypeInv, PointerOfName
<1>6. CASE SearchForgotten
  <2>1. forget # <<>> /\ forget \in Seq(Nat)
    BY <1>1, <1>6 DEF SearchForgotten, Typed
  <2>2. Head(forget) \in Nat /\ Tail(forget) \in Seq(Nat)
    BY <2>1
  <2> DEFINE v == SearchAux[peers]["name"][Head(forget)]
  <2>3. v = Nil \/ v.addr \in Addrs
    BY <1>1, <2>2, FoundByName
  <2>4. /\ peers' = peers /\ net' = net /\ cli' = cli /\ silent' = silent
        /\ \/ v = Nil /\ forget' = Tail(forget) /\ found' = found
           \/ v # Nil /\ found' = [addr |-> v.addr, allocated |-> TRUE] /\ forget' = forget
    BY <1>6 DEF SearchForgotten
  <2> HIDE DEF v
  <2>5. CASE v = Nil
    BY <1>1, <2>2, <2>4, <2>5, <1>6 DEF SearchForgotten, Typed, TypeInv, TreeOfPeers, PointerOfName
  <2>6. CASE v # Nil
    <3>1. [addr |-> v.addr, allocated |-> TRUE] \in Pointers
      BY <2>3, <2>6 DEF Pointers
    <3> QED
      BY <1>1, <2>1, <2>4, <2>6, <3>1 DEF Typed, TypeInv, TreeOfPeers, PointerOfName
  <2> QED
    BY <2>5, <2>6
<1>7. CASE DeleteForgotten
  <2>1. PICK a \in IF found.allocated THEN {found.addr} ELSE Addrs :
          peers' = DeleteAux[peers][a] /\ cli' = After(cli, {w.addr : w \in Freed[peers][a]})
    BY <1>7 DEF DeleteForgotten
  <2>2. found \in Pointers
    BY <1>1, <1>7 DEF DeleteForgotten, Typed
  <2>3. a \in Addrs
    BY <2>1, <2>2 DEF Pointers
  <2>4. TreeOfPeers'
    BY <2>1, <2>3, DeletionStep
  <2>5. cli' \in Pointers \cup {None}
    BY <1>1, <2>1, AfterType DEF Typed
  <2>6. net' = net /\ silent' = silent /\ found' = None /\ forget' = Tail(forget)
    BY <1>7 DEF DeleteForgotten
  <2>7. forget' \in Seq(Nat)
    BY <1>1, <1>7, <2>6 DEF DeleteForgotten, PointerOfName, Typed
  <2> QED
    BY <1>1, <2>4, <2>5, <2>6, <2>7 DEF Typed, TypeInv, PointerOfName
<1>8. ASSUME NEW a \in Addrs, CliSearch(NameOf[a]) PROVE TypeInv'
  <2> DEFINE v == SearchAux[peers]["name"][NameOf[a]]
  <2>1. NameOf[a] \in Nat
    BY AddrsAssumption
  <2>2. v = Nil \/ v.addr \in Addrs
    BY <1>1, <2>1, FoundByName
  <2>3. /\ v # Nil /\ cli' = [addr |-> v.addr, allocated |-> TRUE]
        /\ UNCHANGED <<peers, net, forget, found, silent>>
    BY <1>8 DEF CliSearch
  <2> HIDE DEF v
  <2>4. cli' \in Pointers
    BY <2>2, <2>3 DEF Pointers
  <2> QED
    BY <1>1, <2>3, <2>4 DEF Typed, TypeInv, TreeOfPeers, PointerOfName
<1>9. CASE CliConnect
  BY <1>1, <1>9 DEF CliConnect, Typed, TypeInv, TreeOfPeers, PointerOfName
<1> QED
  BY <1>2, <1>3, <1>4, <1>5, <1>6, <1>7, <1>8, <1>9 DEF Next, Outside, Cleanup

(* A node of few addresses cannot follow a null pointer. *)
LEMMA NextRuns ==
  ASSUME Cardinality(Addrs) <= 5, TypeInv, Running, [Next]_vars
  PROVE  Running'
<1>1. CASE peers' = peers
  BY <1>1 DEF Running
<1>2. ASSUME NEW a \in Addrs, HandleHello(a), a # Self PROVE Running'
  <2> DEFINE A == Addrs \ {Self}
  <2>1. IsFiniteSet(A) /\ Cardinality(A) <= 4
    <3>1. IsFiniteSet(Addrs) /\ Self \in Addrs
      BY TreeAssumption, AddrsAssumption
    <3>2. Cardinality(Addrs) \in Nat
      BY <3>1, FS_CardinalityType
    <3>3. IsFiniteSet(A) /\ Cardinality(A) = Cardinality(Addrs) - 1
      BY <3>1, FS_RemoveElement
    <3> QED
      BY <3>2, <3>3
  <2>2. Good(peers) /\ KeysIn(peers) \subseteq A
    BY KnownPeers DEF TypeInv, TreeOfPeers
  <2>3. HelloPeer(a) \in Value /\ HelloPeer(a)[Cmp] \in A
    BY <1>2, NewPeer
  <2> HIDE DEF A
  <2>4. InsertAux[peers][HelloPeer(a)] # Crash
    BY <2>1, <2>2, <2>3, FewNeverCrash
  <2> QED
    BY <1>2, <2>4 DEF HandleHello, Running
<1>3. CASE StartCleanup
  BY <1>3, CleanupStep, HeightType DEF TreeOfPeers, Good, Running
<1>4. CASE DeleteForgotten
  <2>1. PICK a \in IF found.allocated THEN {found.addr} ELSE Addrs : peers' = DeleteAux[peers][a]
    BY <1>4 DEF DeleteForgotten
  <2>2. found \in Pointers
    BY <1>4 DEF DeleteForgotten, TypeInv, Typed
  <2>3. a \in Addrs
    BY <2>1, <2>2 DEF Pointers
  <2> QED
    BY <2>1, <2>3, DeletionStep
<1>5. CASE \E a \in Addrs : HandleHello(a) /\ a = Self
  BY <1>1, <1>5 DEF HandleHello
<1> QED
  BY <1>1, <1>2, <1>3, <1>4, <1>5
     DEF Next, vars, SendHello, LoseHello, Cleanup, SearchForgotten, CliSearch, CliConnect

(* Up to five addresses, that of the node included, no null pointer is      *)
(* followed: nothing ends the process (insert_aux, avl_tree.c:117, 126).    *)
THEOREM FewRun ==
  ASSUME Cardinality(Addrs) <= 5
  PROVE  Spec => [](TypeInv /\ Running)
<1>1. TypeInv /\ Running /\ [Next]_vars => (TypeInv /\ Running)'
  BY NextRuns, NextTyped
<1> QED
  BY <1>1, InitTyped, PTL DEF Spec

(* With so many the variables keep their types and the tree is one of peers *)
(* in every state.                                                          *)
THEOREM TypeCorrect ==
  ASSUME Cardinality(Addrs) <= 5
  PROVE  Spec => []TypeOK
<1>1. TypeInv /\ Running => TypeOK
  <2>1. SUFFICES ASSUME TypeInv, Running PROVE TypeOK
    OBVIOUS
  <2>2. Values(peers) \subseteq Peers
    BY <2>1, KnownPeers DEF TypeInv, TreeOfPeers
  <2>3. Peers \subseteq {Peer(a, t) : a \in Addrs, t \in Tolerances}
    BY DEF Peers
  <2> QED
    BY <2>1, <2>2, <2>3 DEF TypeInv, Typed, Running, TypeOK
<1> QED
  BY <1>1, FewRun, PTL

(* With more of them they do so until a null pointer is followed. *)
THEOREM Types == Spec /\ []Running => []TypeInv
<1>1. TypeInv /\ Running' /\ [Next]_vars => TypeInv'
  BY NextTyped
<1> QED
  BY <1>1, InitTyped, PTL DEF Spec

-----------------------------------------------------------------------------
(* Tolerances. *)

(* One peer: what is left of its tolerance. *)
Counts(v) ==
  IF silent[v.addr] < MAX_TOLERANCE
  THEN v.tolerance = MAX_TOLERANCE - silent[v.addr]
  ELSE v.tolerance <= 0

(* The tolerance of every peer counts the cleanups since its last hello. *)
Counted == \A v \in Content(peers) : Counts(v)

(* The pointer of the cleanup is to a peer of the name it is about, as long *)
(* as it is a pointer to anything.                                          *)
PointerNamed == found # None /\ found.allocated => NameOf[found.addr] = Head(forget)

(* The inductive invariant. *)
CleanupInv == TypeInv /\ Counted /\ PointerNamed

(* The elements of a sequence that is not empty. *)
LEMMA HeadAndTail ==
  ASSUME NEW X, NEW s \in Seq(X), s # <<>>
  PROVE  Range(s) = {Head(s)} \cup Range(Tail(s))
<1>1. Len(s) \in Nat /\ Len(s) # 0 /\ DOMAIN s = 1..Len(s) /\ Head(s) = s[1]
  OBVIOUS
<1>2. /\ DOMAIN Tail(s) = 1..(Len(s) - 1)
      /\ \A i \in 1..(Len(s) - 1) : Tail(s)[i] = s[i + 1]
  OBVIOUS
<1>3. Head(s) \in Range(s)
  BY <1>1 DEF Range
<1>4. ASSUME NEW i \in DOMAIN Tail(s) PROVE Tail(s)[i] \in Range(s)
  <2>1. i + 1 \in DOMAIN s /\ Tail(s)[i] = s[i + 1]
    BY <1>1, <1>2
  <2> QED
    BY <2>1 DEF Range
<1>5. ASSUME NEW i \in DOMAIN s, i # 1 PROVE s[i] \in Range(Tail(s))
  <2>1. i - 1 \in DOMAIN Tail(s) /\ Tail(s)[i - 1] = s[i]
    BY <1>1, <1>2, <1>5
  <2> QED
    BY <2>1 DEF Range
<1> QED
  BY <1>1, <1>3, <1>4, <1>5 DEF Range

(* A hello inserts a peer that has the whole of its tolerance.              *)
LEMMA HelloCounts ==
  ASSUME CleanupInv, NEW a \in Addrs, HandleHello(a), Running'
  PROVE  Counted' /\ PointerNamed'
<1>1. TypeInv /\ Counted /\ PointerNamed /\ forget' = forget
  BY DEF CleanupInv, HandleHello
<1>2. CASE a = Self
  BY <1>1, <1>2 DEF HandleHello, Counted, Counts, PointerNamed
<1>3. CASE a # Self
  <2>1. Content(peers') = {v \in Content(peers) : v.addr # a} \cup {HelloPeer(a)}
    BY <1>1, <1>3, HelloStep
  <2>2. HelloPeer(a).addr = a /\ HelloPeer(a).tolerance = MAX_TOLERANCE
    BY <1>3, NewPeer
  <2>3. silent' = [silent EXCEPT ![a] = 0] /\ silent \in [Addrs -> 0..MAX_TOLERANCE]
        /\ found' = After(found, {a} \cap Known)
    BY <1>1, <1>3 DEF HandleHello, TypeInv, Typed
  <2>4. \A v \in Content(peers) : v.addr \in Addrs /\ Counts(v)
    BY <1>1, PeerShape DEF TypeInv, TreeOfPeers, Counted
  <2>5. MAX_TOLERANCE \in Nat /\ 0 < MAX_TOLERANCE
    BY AddrsAssumption
  <2>6. ASSUME NEW v \in Content(peers') PROVE Counts(v)'
    BY <2>1, <2>2, <2>3, <2>4, <2>5 DEF Counts
  <2>7. Counted'
    BY <2>6 DEF Counted
  <2>8. found \in Pointers \cup {None}
    BY <1>1 DEF TypeInv, Typed
  <2>9. found' # None /\ found'.allocated => found' = found
    BY <2>3, <2>8 DEF After, Pointers
  <2> QED
    BY <1>1, <2>7, <2>9 DEF PointerNamed
<1> QED
  BY <1>2, <1>3

(* A cleanup lowers them all, and lists names of those that run out.        *)
LEMMA StartCounts ==
  ASSUME CleanupInv, StartCleanup
  PROVE  /\ Counted' /\ PointerNamed' /\ Known' = Known
         /\ \A n \in Range(forget') : \E a \in Known : NameOf[a] = n /\ silent'[a] = MAX_TOLERANCE
<1>1. TypeInv /\ Counted /\ found = None /\ found' = None
  BY DEF CleanupInv, TypeInv, PointerOfName, StartCleanup, CleanupIdle
<1>2. /\ Content(peers') = {Lower[v] : v \in Content(peers)} /\ TreeOfPeers'
      /\ Range(forget') = {v.name : v \in {w \in Content(peers') : w.tolerance = 0}}
  BY <1>1, CleanupStep
<1>3. /\ silent' = [a \in Addrs |-> IF silent[a] < MAX_TOLERANCE THEN silent[a] + 1 ELSE silent[a]]
      /\ silent \in [Addrs -> 0..MAX_TOLERANCE] /\ MAX_TOLERANCE \in Nat /\ 0 < MAX_TOLERANCE
  BY <1>1, AddrsAssumption DEF StartCleanup, TypeInv, Typed
<1>4. ASSUME NEW v \in Content(peers)
      PROVE  v \in Value /\ v.addr \in Addrs /\ v.tolerance \in Int /\ Counts(v) /\ Lower[v].addr = v.addr
             /\ Lower[v].tolerance = IF v.tolerance > LowestTolerance THEN v.tolerance - 1 ELSE v.tolerance
  <2>1. v \in Value /\ v.addr \in Addrs /\ Counts(v)
    BY <1>1, PeerShape DEF TypeInv, TreeOfPeers, Counted
  <2> QED
    BY <2>1, PeerFields
<1>5. ASSUME NEW w \in Content(peers') PROVE Counts(w)'
  <2>1. PICK v \in Content(peers) : w = Lower[v]
    BY <1>2
  <2> DEFINE s == silent[v.addr]
  <2>2. s \in 0..MAX_TOLERANCE
    BY <1>3, <1>4
  <2>3. silent'[w.addr] = IF s < MAX_TOLERANCE THEN s + 1 ELSE s
    BY <1>3, <1>4, <2>1
  <2>4. IF s < MAX_TOLERANCE THEN v.tolerance = MAX_TOLERANCE - s ELSE v.tolerance <= 0
    BY <1>4 DEF Counts
  <2>5. v.tolerance \in Int /\ w.tolerance = IF v.tolerance > LowestTolerance THEN v.tolerance - 1 ELSE v.tolerance
    BY <1>4, <2>1
  <2> HIDE DEF s
  <2>6. IF silent'[w.addr] < MAX_TOLERANCE
        THEN w.tolerance = MAX_TOLERANCE - silent'[w.addr]
        ELSE w.tolerance <= 0
    <3>1. CASE s < MAX_TOLERANCE
      BY <1>3, <2>2, <2>3, <2>4, <2>5, <3>1 DEF LowestTolerance
    <3>2. CASE ~ (s < MAX_TOLERANCE)
      BY <1>3, <2>2, <2>3, <2>4, <2>5, <3>2 DEF LowestTolerance
    <3> QED
      BY <3>1, <3>2
  <2> QED
    BY <2>6 DEF Counts
<1>6. Known' = Known
  <2>1. Known = {v.addr : v \in Content(peers)}
    BY <1>1, KnownPeers DEF TypeInv, Known
  <2>2. Known' = {v.addr : v \in Content(peers')}
    BY <1>2, ValuesAreContent DEF TreeOfPeers, Known
  <2> QED
    BY <1>2, <1>4, <2>1, <2>2
<1>7. ASSUME NEW n \in Range(forget')
      PROVE  \E a \in Known : NameOf[a] = n /\ silent'[a] = MAX_TOLERANCE
  <2>1. PICK w \in Content(peers') : w.tolerance = 0 /\ w.name = n
    BY <1>2
  <2>2. w.addr \in Addrs /\ w.name = NameOf[w.addr]
    BY <1>2, PeerShape DEF TreeOfPeers
  <2>3. w.addr \in Known
    <3>1. Known' = {v.addr : v \in Content(peers')}
      BY <1>2, ValuesAreContent DEF TreeOfPeers, Known
    <3> QED
      BY <1>6, <3>1
  <2>4. silent'[w.addr] \in 0..MAX_TOLERANCE
    <3>1. silent[w.addr] \in 0..MAX_TOLERANCE
      BY <1>3, <2>2
    <3> QED
      BY <1>3, <2>2, <3>1
  <2>5. ~ (silent'[w.addr] < MAX_TOLERANCE)
    <3>1. silent'[w.addr] < MAX_TOLERANCE => w.tolerance = MAX_TOLERANCE - silent'[w.addr]
      BY <1>5 DEF Counts
    <3> QED
      BY <1>3, <2>1, <2>4, <3>1
  <2>6. silent'[w.addr] = MAX_TOLERANCE
    BY <1>3, <2>4, <2>5
  <2> QED
    BY <2>1, <2>2, <2>3, <2>6
<1> QED
  BY <1>1, <1>5, <1>6, <1>7 DEF Counted, PointerNamed

(* The search finds a peer of the name, or goes on to the next.             *)
LEMMA SearchNamed ==
  ASSUME CleanupInv, SearchForgotten
  PROVE  Counted' /\ PointerNamed' /\ Range(forget') \subseteq Range(forget)
<1> DEFINE v == SearchAux[peers]["name"][Head(forget)]
<1>1. /\ TypeInv /\ TreeOfPeers /\ Counted /\ forget # <<>> /\ forget \in Seq(Nat) /\ found = None
      /\ peers' = peers /\ silent' = silent
  BY DEF CleanupInv, TypeInv, Typed, SearchForgotten
<1>2. Head(forget) \in Nat /\ Range(Tail(forget)) \subseteq Range(forget)
  BY <1>1, HeadAndTail
<1>3. v = Nil \/ (v \in Peers /\ v.name = Head(forget) /\ v.addr \in Addrs)
  BY <1>1, <1>2, FoundByName
<1>4. \/ v = Nil /\ forget' = Tail(forget) /\ found' = found
      \/ v # Nil /\ found' = [addr |-> v.addr, allocated |-> TRUE] /\ forget' = forget
  BY DEF SearchForgotten
<1> HIDE DEF v
<1>5. Counted'
  BY <1>1 DEF Counted, Counts
<1>6. CASE v = Nil
  BY <1>1, <1>2, <1>4, <1>5, <1>6 DEF PointerNamed
<1>7. CASE v # Nil
  <2>1. found'.addr = v.addr /\ forget' = forget
    BY <1>4, <1>7
  <2>2. NameOf[v.addr] = Head(forget)
    BY <1>3, <1>7, PeerShape
  <2> QED
    BY <1>5, <2>1, <2>2 DEF PointerNamed
<1> QED
  BY <1>6, <1>7

(* The deletion removes the peer that was found, if the pointer is good.    *)
LEMMA DeletionNamed ==
  ASSUME CleanupInv, DeleteForgotten
  PROVE  /\ Counted' /\ PointerNamed' /\ Range(forget') \subseteq Range(forget)
         /\ found.allocated => \A b \in Known \ Known' : NameOf[b] = Head(forget)
<1>1. /\ TypeInv /\ TreeOfPeers /\ Counted /\ PointerNamed /\ found # None
      /\ forget # <<>> /\ forget \in Seq(Nat)
      /\ silent' = silent /\ forget' = Tail(forget) /\ found' = None
  BY DEF CleanupInv, TypeInv, Typed, PointerOfName, DeleteForgotten
<1>2. PICK a \in IF found.allocated THEN {found.addr} ELSE Addrs : peers' = DeleteAux[peers][a]
  BY DEF DeleteForgotten
<1>3. a \in Addrs
  BY <1>1, <1>2 DEF TypeInv, Typed, Pointers
<1>4. Content(peers') = {w \in Content(peers) : w.addr # a} /\ TreeOfPeers'
  BY <1>1, <1>2, <1>3, DeletionStep
<1>5. Counted'
  BY <1>1, <1>4 DEF Counted, Counts
<1>6. Range(forget') \subseteq Range(forget)
  BY <1>1, HeadAndTail
<1>7. ASSUME found.allocated, NEW b \in Known, b \notin Known' PROVE NameOf[b] = Head(forget)
  <2>1. Known = {w.addr : w \in Content(peers)}
    BY <1>1, ValuesAreContent DEF TreeOfPeers, Known
  <2>2. Known' = {w.addr : w \in Content(peers')}
    BY <1>4, ValuesAreContent DEF TreeOfPeers, Known
  <2>3. b = a
    BY <1>4, <1>7, <2>1, <2>2
  <2>4. a = found.addr
    BY <1>2, <1>7
  <2> QED
    BY <1>1, <1>7, <2>3, <2>4 DEF PointerNamed
<1> QED
  BY <1>1, <1>5, <1>6, <1>7 DEF PointerNamed

(* Every step keeps the invariant that does not follow a null pointer. *)
LEMMA NextCleanup ==
  ASSUME CleanupInv, [Next]_vars, Running'
  PROVE  CleanupInv'
<1>1. TypeInv'
  BY NextTyped DEF CleanupInv
<1>2. ASSUME NEW a \in Addrs, HandleHello(a) PROVE Counted' /\ PointerNamed'
  BY <1>2, HelloCounts
<1>3. Counted' /\ PointerNamed'
  <2>1. CASE StartCleanup
    BY <2>1, StartCounts
  <2>2. CASE SearchForgotten
    BY <2>2, SearchNamed
  <2>3. CASE DeleteForgotten
    BY <2>3, DeletionNamed
  <2>4. CASE UNCHANGED <<peers, forget, found, silent>>
    BY <2>4 DEF CleanupInv, Counted, Counts, PointerNamed
  <2> QED
    BY <1>2, <2>1, <2>2, <2>3, <2>4
       DEF Next, vars, SendHello, LoseHello, Cleanup, CliSearch, CliConnect
<1> QED
  BY <1>1, <1>3 DEF CleanupInv

(* Any names and any number of threads: the tolerances are right in every   *)
(* state.                                                                   *)
LEMMA Cleanups == Spec /\ []Running => []CleanupInv
<1>1. Init => CleanupInv
  BY InitTyped, NilGood DEF Init, CleanupInv, Counted, PointerNamed
<1>2. CleanupInv /\ Running' /\ [Next]_vars => CleanupInv'
  BY NextCleanup
<1> QED
  BY <1>1, <1>2, PTL DEF Spec

(* The tolerance of a peer is what is left of MAX_TOLERANCE after the       *)
(* cleanups since its last hello, until it has run out, whatever the names, *)
(* the number of threads and the order of hellos and cleanups               *)
(* (substract_tolerance, server.c:126-135, 230).                            *)
THEOREM TolerancesCount == Spec /\ []Running => []ToleranceCounts
<1>1. CleanupInv => ToleranceCounts
  <2>1. SUFFICES ASSUME CleanupInv, NEW v \in Values(peers) PROVE Counts(v)
    BY DEF ToleranceCounts, Counts
  <2>2. v \in Content(peers)
    BY <2>1, KnownPeers DEF CleanupInv, TypeInv
  <2> QED
    BY <2>1, <2>2 DEF CleanupInv, Counted
<1> QED
  BY <1>1, Cleanups, PTL

(* Whatever comes between the steps of a cleanup, it lists names of peers   *)
(* that ran out and removes peers of those names only, unless the object it *)
(* compares with has been freed (server.c:126-147, 262-263).                *)
THEOREM OnlyListedForgotten == Spec /\ []Running => ForgottenHadRunOut
<1> DEFINE Removes == (found # None => found.allocated) => \A a \in Known \ Known' : NameOf[a] = Head(forget)
           Lists == \A n \in Range(forget') \ Range(forget) :
                      \E a \in Known : NameOf[a] = n /\ silent'[a] = MAX_TOLERANCE
<1>1. CleanupInv /\ Running' /\ [Next]_vars => [Removes /\ Lists]_vars
  <2>1. SUFFICES ASSUME CleanupInv, Running', [Next]_vars PROVE [Removes /\ Lists]_vars
    OBVIOUS
  <2>2. CASE UNCHANGED <<peers, forget>>
    BY <2>2 DEF Known
  <2>3. TypeInv /\ TreeOfPeers /\ Known = {v.addr : v \in Content(peers)}
    BY <2>1, KnownPeers DEF CleanupInv, TypeInv, Known
  <2>4. ASSUME NEW a \in Addrs, HandleHello(a), a # Self PROVE Removes /\ Lists
    <3>1. Content(peers') = {v \in Content(peers) : v.addr # a} \cup {HelloPeer(a)} /\ TreeOfPeers'
      BY <2>1, <2>3, <2>4, HelloStep
    <3>2. Known' = {v.addr : v \in Content(peers')}
      BY <3>1, ValuesAreContent DEF TreeOfPeers, Known
    <3>3. HelloPeer(a).addr = a
      BY <2>4, NewPeer
    <3>4. Known \subseteq Known'
      BY <2>3, <3>1, <3>2, <3>3
    <3>5. forget' = forget
      BY <2>4 DEF HandleHello
    <3> QED
      BY <3>4, <3>5
  <2>5. CASE StartCleanup
    <3>1. Known' = Known /\ Lists
      BY <2>1, <2>5, StartCounts
    <3> QED
      BY <3>1
  <2>6. CASE SearchForgotten
    <3>1. Range(forget') \subseteq Range(forget) /\ peers' = peers
      BY <2>1, <2>6, SearchNamed DEF SearchForgotten
    <3> QED
      BY <3>1 DEF Known
  <2>7. CASE DeleteForgotten
    <3>1. /\ Range(forget') \subseteq Range(forget) /\ found # None
          /\ found.allocated => \A b \in Known \ Known' : NameOf[b] = Head(forget)
      BY <2>1, <2>7, DeletionNamed DEF DeleteForgotten
    <3> QED
      BY <3>1
  <2>8. CASE \E a \in Addrs : HandleHello(a) /\ a = Self
    BY <2>2, <2>8 DEF HandleHello
  <2> QED
    BY <2>1, <2>2, <2>4, <2>5, <2>6, <2>7, <2>8
       DEF Next, vars, SendHello, LoseHello, Cleanup, CliSearch, CliConnect
<1>2. [Removes /\ Lists]_vars =>
        [/\ (found # None => found.allocated) => \A a \in Known \ Known' : NameOf[a] = Head(forget)
         /\ \A n \in Range(forget') \ Range(forget) :
              \E a \in Known : NameOf[a] = n /\ silent'[a] = MAX_TOLERANCE]_vars
  OBVIOUS
<1> HIDE DEF Removes, Lists
<1> QED
  BY <1>1, <1>2, Cleanups, PTL DEF Spec, ForgottenHadRunOut

=============================================================================
