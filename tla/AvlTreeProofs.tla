--------------------------- MODULE AvlTreeProofs ---------------------------
(***************************************************************************)
(* What the functions of avl_tree.c do to a tree, for any values and any   *)
(* depth: insertion, deletion, search and map, and when they follow a null *)
(* pointer.  The proofs are by induction on the tree, from the theorem on  *)
(* recursion of the module Recursion: first that trees are built from      *)
(* smaller ones and that the functions are what their definitions say, then *)
(* what one call makes of the results of its recursive calls, then that.   *)
(***************************************************************************)
EXTENDS AvlTree, FiniteSetTheorems, TLAPS

-----------------------------------------------------------------------------
(* The trees. *)

(* One step of the recursion of Trees. *)
TreesDef(g, d) == IF d = 0 THEN {Nil} ELSE {Nil} \cup Nodes(g[d - 1])

NatRecursion == INSTANCE Recursion WITH S <- Nat, rank <- [n \in Nat |-> n], Def <- TreesDef

(* The trees of no more than d nodes' depth, as they are defined. *)
LEMMA TreesUnfold ==
  \A d \in Nat : Trees[d] = IF d = 0 THEN {Nil} ELSE {Nil} \cup Nodes(Trees[d - 1])
<1> DEFINE id == [n \in Nat |-> n]
<1>1. ASSUME NEW d \in Nat, NEW g, NEW h, \A e \in Nat : id[e] < id[d] => g[e] = h[e]
      PROVE  TreesDef(g, d) = TreesDef(h, d)
  <2>1. d # 0 => d - 1 \in Nat /\ id[d - 1] < id[d]
    OBVIOUS
  <2>2. d # 0 => g[d - 1] = h[d - 1]
    BY <1>1, <2>1
  <2> QED
    BY <2>2 DEF TreesDef
<1>2. \E f : f = [d \in Nat |-> TreesDef(f, d)]
  BY <1>1, NatRecursion!Defined
<1>3. Trees = CHOOSE f : f = [d \in Nat |-> TreesDef(f, d)]
  BY DEF Trees, TreesDef
<1>4. Trees = [d \in Nat |-> TreesDef(Trees, d)]
  <2> HIDE DEF Trees
  <2> QED
    BY <1>2, <1>3
<1>5. ASSUME NEW d \in Nat PROVE Trees[d] = TreesDef(Trees, d)
  <2> HIDE DEF Trees
  <2> QED
    BY <1>4
<1> QED
  BY <1>5 DEF TreesDef

(* The fields of a node, which is no pointer. *)
LEMMA NodeShape ==
  ASSUME NEW X, NEW T \in Nodes(X)
  PROVE  /\ T = [value |-> T.value, height |-> T.height, left |-> T.left, right |-> T.right]
         /\ T.value \in Value /\ T.height \in Nat /\ T.left \in X /\ T.right \in X
         /\ T # Nil /\ T # Crash
<1>1. DOMAIN T = {"value", "height", "left", "right"}
  BY DEF Nodes
<1>2. DOMAIN Nil = {"pointer"} /\ DOMAIN Crash = {"pointer"}
  BY DEF Nil, Crash
<1>3. T # Nil /\ T # Crash
  BY <1>1, <1>2
<1> QED
  BY <1>3 DEF Nodes

(* A tree of some depth counts as one of any larger depth. *)
LEMMA TreesGrow ==
  ASSUME NEW d \in Nat, NEW e \in Nat, d <= e
  PROVE  Trees[d] \subseteq Trees[e]
<1> DEFINE N == {n \in Nat : \A m \in Nat : m <= n => Trees[m] \subseteq Trees[n]}
<1>1. ASSUME NEW n \in Nat, \A k \in Nat : k < n => k \in N
      PROVE  n \in N
  <2>1. SUFFICES ASSUME NEW m \in Nat, m <= n, NEW T \in Trees[m] PROVE T \in Trees[n]
    OBVIOUS
  <2>2. CASE m = n
    BY <2>1, <2>2
  <2>3. CASE T = Nil
    BY <2>3, TreesUnfold
  <2>4. CASE m # n /\ T # Nil
    <3>1. m # 0 /\ T \in Nodes(Trees[m - 1])
      BY <2>1, <2>4, TreesUnfold
    <3>2. n # 0 /\ n - 1 \in N /\ m - 1 \in Nat /\ m - 1 <= n - 1
      BY <1>1, <2>1, <2>4, <3>1
    <3>3. Trees[m - 1] \subseteq Trees[n - 1]
      BY <3>2
    <3>4. T \in Nodes(Trees[n - 1])
      BY <3>1, <3>3 DEF Nodes
    <3> QED
      BY <3>2, <3>4, TreesUnfold
  <2> QED
    BY <2>2, <2>3, <2>4
<1>2. N \in SUBSET Nat
  OBVIOUS
<1>3. Nat = N
  <2> HIDE DEF N
  <2> QED
    BY <1>1, <1>2, NatRecursion!NatIsLeast
<1> QED
  BY <1>3

(* Trees of any depth. *)
AnyTree == UNION {Trees[d] : d \in Nat}

(* A tree is Nil or a node of two trees. *)
LEMMA AnyTreeNode == \A T : T \in AnyTree <=> T = Nil \/ T \in Nodes(AnyTree)
<1>1. ASSUME NEW T \in AnyTree, T # Nil PROVE T \in Nodes(AnyTree)
  <2>1. PICK d \in Nat : T \in Trees[d]
    BY DEF AnyTree
  <2>2. d # 0 /\ T \in Nodes(Trees[d - 1])
    BY <1>1, <2>1, TreesUnfold
  <2>3. d - 1 \in Nat /\ Trees[d - 1] \subseteq AnyTree
    BY <2>2 DEF AnyTree
  <2> QED
    BY <2>2, <2>3 DEF Nodes
<1>2. Nil \in AnyTree
  <2>1. Nil \in Trees[0]
    BY TreesUnfold
  <2> QED
    BY <2>1 DEF AnyTree
<1>3. ASSUME NEW T \in Nodes(AnyTree) PROVE T \in AnyTree
  <2>1. T.left \in AnyTree /\ T.right \in AnyTree
    BY NodeShape
  <2>2. PICK l \in Nat : T.left \in Trees[l]
    BY <2>1 DEF AnyTree
  <2>3. PICK r \in Nat : T.right \in Trees[r]
    BY <2>1 DEF AnyTree
  <2> DEFINE m == IF l > r THEN l ELSE r
  <2>4. m \in Nat /\ l <= m /\ r <= m
    OBVIOUS
  <2> HIDE DEF m
  <2>5. T.left \in Trees[m] /\ T.right \in Trees[m]
    BY <2>2, <2>3, <2>4, TreesGrow
  <2>6. T \in Nodes(Trees[m])
    BY <2>5, NodeShape DEF Nodes
  <2>7. m + 1 \in Nat /\ m + 1 # 0 /\ (m + 1) - 1 = m
    BY <2>4
  <2>8. T \in Trees[m + 1]
    BY <2>6, <2>7, TreesUnfold
  <2> QED
    BY <2>7, <2>8 DEF AnyTree
<1> QED
  BY <1>1, <1>2, <1>3

(* The least depth a tree counts for. *)
Depth(T) == CHOOSE d \in Nat : T \in Trees[d] /\ \A e \in Nat : T \in Trees[e] => d <= e

(* There is one for every tree. *)
LEMMA DepthIsLeast ==
  ASSUME NEW T \in AnyTree
  PROVE  Depth(T) \in Nat /\ T \in Trees[Depth(T)] /\ \A e \in Nat : T \in Trees[e] => Depth(T) <= e
<1> DEFINE D == {d \in Nat : T \in Trees[d]}
<1>1. D \in SUBSET Nat /\ D # {}
  BY DEF AnyTree
<1>2. PICK d \in D : \A e \in D : d <= e
  <2> HIDE DEF D
  <2> QED
    BY <1>1, NatRecursion!Least
<1>3. d \in Nat /\ T \in Trees[d] /\ \A e \in Nat : T \in Trees[e] => d <= e
  BY <1>2
<1> QED
  BY <1>3 DEF Depth

(* A subtree is less deep, and a tree of no more than MaxDepth if it is one *)
(* of such a tree.                                                          *)
LEMMA SubtreeDepth ==
  ASSUME NEW T \in AnyTree, T # Nil
  PROVE  /\ T.left \in AnyTree /\ T.right \in AnyTree
         /\ Depth(T.left) < Depth(T) /\ Depth(T.right) < Depth(T)
<1>1. T.left \in AnyTree /\ T.right \in AnyTree
  BY AnyTreeNode, NodeShape
<1>2. Depth(T) \in Nat /\ Depth(T) # 0 /\ T \in Nodes(Trees[Depth(T) - 1])
  BY DepthIsLeast, TreesUnfold
<1>3. T.left \in Trees[Depth(T) - 1] /\ T.right \in Trees[Depth(T) - 1] /\ Depth(T) - 1 \in Nat
  BY <1>2, NodeShape
<1>4. Depth(T.left) \in Nat /\ Depth(T.left) <= Depth(T) - 1
  BY <1>1, <1>3, DepthIsLeast
<1>5. Depth(T.right) \in Nat /\ Depth(T.right) <= Depth(T) - 1
  BY <1>1, <1>3, DepthIsLeast
<1> QED
  BY <1>1, <1>2, <1>4, <1>5

(* The trees the functions are defined on are trees. *)
LEMMA TreeIsAny == Tree \subseteq AnyTree
BY TreeAssumption DEF Tree, AnyTree

(* The functions are defined on the subtrees of a tree they are defined on. *)
LEMMA Subtrees ==
  ASSUME NEW T \in Tree, T # Nil
  PROVE  T.left \in Tree /\ T.right \in Tree
<1>0. MaxDepth \in Nat /\ T \in Trees[MaxDepth]
  BY TreeAssumption DEF Tree
<1>a. Trees[MaxDepth] = IF MaxDepth = 0 THEN {Nil} ELSE {Nil} \cup Nodes(Trees[MaxDepth - 1])
  BY <1>0, TreesUnfold
<1>1. MaxDepth # 0 /\ T \in Nodes(Trees[MaxDepth - 1])
  BY <1>0, <1>a
<1>2. T.left \in Trees[MaxDepth - 1] /\ T.right \in Trees[MaxDepth - 1]
  BY <1>1, NodeShape
<1>3. Trees[MaxDepth - 1] \subseteq Trees[MaxDepth]
  BY <1>0, <1>1, TreesGrow
<1> QED
  BY <1>2, <1>3 DEF Tree

(* The rank by which a recursion on any tree is founded. *)
AnyDepth == [T \in AnyTree |-> Depth(T)]

(* Induction on a tree: what holds of it if it does of its subtrees. *)
LEMMA TreeInduction ==
  ASSUME NEW G \in SUBSET AnyTree,
         \A T \in AnyTree : (T # Nil => T.left \in G /\ T.right \in G) => T \in G
  PROVE  AnyTree = G
<1> DEFINE N == {n \in Nat : \A T \in AnyTree : Depth(T) = n => T \in G}
<1>1. ASSUME NEW n \in Nat, \A m \in Nat : m < n => m \in N
      PROVE  n \in N
  <2>1. SUFFICES ASSUME NEW T \in AnyTree, Depth(T) = n PROVE T \in G
    OBVIOUS
  <2>2. ASSUME T # Nil PROVE T.left \in G /\ T.right \in G
    <3>1. /\ T.left \in AnyTree /\ Depth(T.left) \in Nat /\ Depth(T.left) < n
          /\ T.right \in AnyTree /\ Depth(T.right) \in Nat /\ Depth(T.right) < n
      BY <2>1, <2>2, SubtreeDepth, DepthIsLeast
    <3> QED
      BY <1>1, <3>1
  <2> QED
    BY <2>2
<1>2. N \in SUBSET Nat
  OBVIOUS
<1>3. Nat = N
  <2> HIDE DEF N
  <2> QED
    BY <1>1, <1>2, NatRecursion!NatIsLeast
<1>4. ASSUME NEW T \in AnyTree PROVE T \in G
  BY <1>3, DepthIsLeast
<1> QED
  BY <1>4

-----------------------------------------------------------------------------
(* The functions, as they are defined. *)

(* The same for the trees the functions are defined on. *)
TreeDepth == [T \in Tree |-> Depth(T)]

(* It is a number. *)
LEMMA TreeDepthNat == TreeDepth \in [Tree -> Nat]
BY TreeIsAny, DepthIsLeast DEF TreeDepth

(* What a definition by recursion may use: its values for the subtrees. *)
LEMMA SubtreesAgree ==
  ASSUME NEW T \in Tree, T # Nil, NEW g, NEW h,
         \A U \in Tree : TreeDepth[U] < TreeDepth[T] => g[U] = h[U]
  PROVE  g[T.left] = h[T.left] /\ g[T.right] = h[T.right]
<1>1. T \in AnyTree /\ T.left \in Tree /\ T.right \in Tree
  BY TreeIsAny, Subtrees
<1>2. TreeDepth[T.left] < TreeDepth[T] /\ TreeDepth[T.right] < TreeDepth[T]
  BY <1>1, SubtreeDepth DEF TreeDepth
<1> QED
  BY <1>1, <1>2

(* One call of insert_aux, g being what its recursive calls return. *)
InsertDef(g, T) == [v \in Value |->
  IF T = Nil THEN Leaf(v)
  ELSE IF T.value[Cmp] > v[Cmp] THEN GrownLeft(T, g[T.left][v])
  ELSE IF T.value[Cmp] < v[Cmp] THEN GrownRight(T, g[T.right][v])
  ELSE [T EXCEPT !.value = v]]

InsertRecursion == INSTANCE Recursion WITH S <- Tree, rank <- TreeDepth, Def <- InsertDef

(* InsertAux, as it is defined. *)
LEMMA InsertUnfold == \A T \in Tree : InsertAux[T] = InsertDef(InsertAux, T)
<1>1. ASSUME NEW T \in Tree, NEW g, NEW h,
             \A U \in Tree : TreeDepth[U] < TreeDepth[T] => g[U] = h[U]
      PROVE  InsertDef(g, T) = InsertDef(h, T)
  <2>1. T # Nil => g[T.left] = h[T.left] /\ g[T.right] = h[T.right]
    BY <1>1, SubtreesAgree
  <2> QED
    BY <2>1 DEF InsertDef
<1>2. InsertAux = CHOOSE g : g = [T \in Tree |-> InsertDef(g, T)]
  BY DEF InsertAux, InsertDef
<1> QED
  BY <1>1, <1>2, TreeDepthNat, InsertRecursion!Unfolds

(* One call of avl_search_aux. *)
SearchDef(g, T) == [cmp \in Fields |-> [x \in Nat |->
  IF T = Nil THEN Nil
  ELSE IF T.value[cmp] = x THEN T.value
  ELSE g[Toward(T, x, cmp)][cmp][x]]]

SearchRecursion == INSTANCE Recursion WITH S <- Tree, rank <- TreeDepth, Def <- SearchDef

(* SearchAux, as it is defined. *)
LEMMA SearchUnfold == \A T \in Tree : SearchAux[T] = SearchDef(SearchAux, T)
<1>1. ASSUME NEW T \in Tree, NEW g, NEW h,
             \A U \in Tree : TreeDepth[U] < TreeDepth[T] => g[U] = h[U]
      PROVE  SearchDef(g, T) = SearchDef(h, T)
  <2>1. T # Nil => g[T.left] = h[T.left] /\ g[T.right] = h[T.right]
    BY <1>1, SubtreesAgree
  <2>2. ASSUME NEW x, NEW cmp, T # Nil PROVE g[Toward(T, x, cmp)] = h[Toward(T, x, cmp)]
    BY <2>1, <2>2 DEF Toward
  <2> QED
    BY <2>2 DEF SearchDef
<1>2. SearchAux = CHOOSE g : g = [T \in Tree |-> SearchDef(g, T)]
  BY DEF SearchAux, SearchDef
<1> QED
  BY <1>1, <1>2, TreeDepthNat, SearchRecursion!Unfolds

(* The set Tree without Nil is the domain of GetMax. *)
NodeDepth == [T \in Tree \ {Nil} |-> Depth(T)]

(* One call of get_max. *)
GetMaxDef(g, T) == IF T.right = Nil THEN T.value ELSE g[T.right]

GetMaxRecursion == INSTANCE Recursion WITH S <- Tree \ {Nil}, rank <- NodeDepth, Def <- GetMaxDef

(* GetMax, as it is defined. *)
LEMMA GetMaxUnfold == \A T \in Tree \ {Nil} : GetMax[T] = GetMaxDef(GetMax, T)
<1>1. ASSUME NEW T \in Tree \ {Nil}, NEW g, NEW h,
             \A U \in Tree \ {Nil} : NodeDepth[U] < NodeDepth[T] => g[U] = h[U]
      PROVE  GetMaxDef(g, T) = GetMaxDef(h, T)
  <2>1. ASSUME T.right # Nil PROVE g[T.right] = h[T.right]
    <3>1. T.right \in Tree \ {Nil} /\ T \in AnyTree
      BY <2>1, TreeIsAny, Subtrees
    <3>2. NodeDepth[T.right] < NodeDepth[T]
      BY <3>1, SubtreeDepth DEF NodeDepth
    <3> QED
      BY <1>1, <3>1, <3>2
  <2> QED
    BY <2>1 DEF GetMaxDef
<1>2. GetMax = CHOOSE g : g = [T \in Tree \ {Nil} |-> GetMaxDef(g, T)]
  BY DEF GetMax, GetMaxDef
<1>3. NodeDepth \in [Tree \ {Nil} -> Nat]
  BY TreeIsAny, DepthIsLeast DEF NodeDepth
<1> QED
  BY <1>1, <1>2, <1>3, GetMaxRecursion!Unfolds

(* One call of avl_delete_aux. *)
DeleteDef(g, T) == [x \in Nat |->
  IF T = Nil THEN Nil
  ELSE IF T.value[Cmp] = x THEN
    IF T.left = Nil THEN T.right
    ELSE Replaced(T, GetMax[T.left], g[T.left][GetMax[T.left][Cmp]])
  ELSE IF T.value[Cmp] > x THEN ShrunkLeft(T, g[T.left][x])
  ELSE ShrunkRight(T, g[T.right][x])]

DeleteRecursion == INSTANCE Recursion WITH S <- Tree, rank <- TreeDepth, Def <- DeleteDef

(* DeleteAux, as it is defined. *)
LEMMA DeleteUnfold == \A T \in Tree : DeleteAux[T] = DeleteDef(DeleteAux, T)
<1>1. ASSUME NEW T \in Tree, NEW g, NEW h,
             \A U \in Tree : TreeDepth[U] < TreeDepth[T] => g[U] = h[U]
      PROVE  DeleteDef(g, T) = DeleteDef(h, T)
  <2>1. T # Nil => g[T.left] = h[T.left] /\ g[T.right] = h[T.right]
    BY <1>1, SubtreesAgree
  <2> QED
    BY <2>1 DEF DeleteDef
<1>2. DeleteAux = CHOOSE g : g = [T \in Tree |-> DeleteDef(g, T)]
  BY DEF DeleteAux, DeleteDef
<1> QED
  BY <1>1, <1>2, TreeDepthNat, DeleteRecursion!Unfolds

(* One step of the recursion of InOrder. *)
InOrderDef(g, T) == IF T = Nil THEN <<>> ELSE g[T.left] \o <<T.value>> \o g[T.right]

InOrderRecursion == INSTANCE Recursion WITH S <- Tree, rank <- TreeDepth, Def <- InOrderDef

(* InOrder, as it is defined. *)
LEMMA InOrderUnfold == \A T \in Tree : InOrder[T] = InOrderDef(InOrder, T)
<1>1. ASSUME NEW T \in Tree, NEW g, NEW h,
             \A U \in Tree : TreeDepth[U] < TreeDepth[T] => g[U] = h[U]
      PROVE  InOrderDef(g, T) = InOrderDef(h, T)
  <2>1. T # Nil => g[T.left] = h[T.left] /\ g[T.right] = h[T.right]
    BY <1>1, SubtreesAgree
  <2> QED
    BY <2>1 DEF InOrderDef
<1>2. InOrder = CHOOSE g : g = [T \in Tree |-> InOrderDef(g, T)]
  BY DEF InOrder, InOrderDef
<1> QED
  BY <1>1, <1>2, TreeDepthNat, InOrderRecursion!Unfolds

-----------------------------------------------------------------------------
(* What a tree holds, and when it is a good one. *)

(* The nodes of a tree. *)
NodesOf[T \in AnyTree] == IF T = Nil THEN {} ELSE {T} \cup NodesOf[T.left] \cup NodesOf[T.right]

(* One step of the recursion of NodesOf. *)
NodesOfDef(g, T) == IF T = Nil THEN {} ELSE {T} \cup g[T.left] \cup g[T.right]

NodesOfRecursion == INSTANCE Recursion WITH S <- AnyTree, rank <- AnyDepth, Def <- NodesOfDef

(* NodesOf, as it is defined. *)
LEMMA NodesOfUnfold ==
  \A T \in AnyTree : NodesOf[T] = IF T = Nil THEN {} ELSE {T} \cup NodesOf[T.left] \cup NodesOf[T.right]
<1>1. ASSUME NEW T \in AnyTree, NEW g, NEW h,
             \A U \in AnyTree : AnyDepth[U] < AnyDepth[T] => g[U] = h[U]
      PROVE  NodesOfDef(g, T) = NodesOfDef(h, T)
  <2>1. ASSUME T # Nil PROVE g[T.left] = h[T.left] /\ g[T.right] = h[T.right]
    <3>1. /\ T.left \in AnyTree /\ T.right \in AnyTree
          /\ AnyDepth[T.left] < AnyDepth[T] /\ AnyDepth[T.right] < AnyDepth[T]
      BY <2>1, SubtreeDepth DEF AnyDepth
    <3> QED
      BY <1>1, <3>1
  <2> QED
    BY <2>1 DEF NodesOfDef
<1>2. NodesOf = CHOOSE g : g = [T \in AnyTree |-> NodesOfDef(g, T)]
  BY DEF NodesOf, NodesOfDef
<1>3. AnyDepth \in [AnyTree -> Nat]
  BY DepthIsLeast DEF AnyDepth
<1>4. \A T \in AnyTree : NodesOf[T] = NodesOfDef(NodesOf, T)
  BY <1>1, <1>2, <1>3, NodesOfRecursion!Unfolds
<1> QED
  BY <1>4 DEF NodesOfDef

(* The values a tree holds. *)
Content(T) == {N.value : N \in NodesOf[T]}

(* v belongs between what l and what r holds. *)
Between(l, v, r) ==
  /\ \A w \in Content(l) : w[Cmp] < v[Cmp]
  /\ \A w \in Content(r) : v[Cmp] < w[Cmp]

(* Every node lies between its subtrees. *)
IsSearchTree(T) == \A N \in NodesOf[T] : Between(N.left, N.value, N.right)

(* The height of every node is what set_height computes. *)
HeightsRight(T) ==
  \A N \in NodesOf[T] : N.height = 1 + Larger(Height(N.left), Height(N.right))

(* No node has a subtree that is two higher than the other. *)
Balanced(T) == \A N \in NodesOf[T] : BalanceFactor(N) <= 1

(* What every tree the program builds is, balanced or not. *)
Good(T) == T \in AnyTree /\ IsSearchTree(T) /\ HeightsRight(T)

(* The empty tree. *)
LEMMA NilGood == Good(Nil) /\ Balanced(Nil) /\ Content(Nil) = {} /\ Height(Nil) = 0 /\ Nil # Crash
<1>1. Nil \in AnyTree /\ NodesOf[Nil] = {}
  BY AnyTreeNode, NodesOfUnfold
<1>2. Nil # Crash
  BY DEF Nil, Crash
<1> QED
  BY <1>1, <1>2 DEF Good, Balanced, Content, IsSearchTree, HeightsRight, Height

(* A tree holds values. *)
LEMMA ContentType == ASSUME NEW T \in AnyTree PROVE Content(T) \subseteq Value
<1> DEFINE G == {U \in AnyTree : Content(U) \subseteq Value}
<1>1. ASSUME NEW U \in AnyTree, U # Nil => U.left \in G /\ U.right \in G
      PROVE  U \in G
  <2>1. CASE U = Nil
    BY <2>1, NilGood
  <2>2. CASE U # Nil
    <3>1. NodesOf[U] = {U} \cup NodesOf[U.left] \cup NodesOf[U.right]
      BY <2>2, NodesOfUnfold
    <3>2. U.value \in Value
      BY <2>2, AnyTreeNode, NodeShape
    <3> QED
      BY <1>1, <2>2, <3>1, <3>2 DEF Content
  <2> QED
    BY <2>1, <2>2
<1>2. G \in SUBSET AnyTree
  OBVIOUS
<1>3. AnyTree = G
  <2> HIDE DEF G
  <2> QED
    BY <1>1, <1>2, TreeInduction
<1> QED
  BY <1>3

(* Keys are numbers. *)
LEMMA KeyType == ASSUME NEW v \in Value PROVE v[Cmp] \in Nat
BY TreeAssumption

(* Heights are numbers, and a tree is no null pointer that was followed. *)
LEMMA HeightType == ASSUME NEW T \in AnyTree PROVE Height(T) \in Nat /\ (T # Nil => Height(T) = T.height) /\ T # Crash
<1>1. T # Nil => T.height \in Nat /\ T # Crash
  BY AnyTreeNode, NodeShape
<1> QED
  BY <1>1, NilGood DEF Height

(* A node has its properties exactly if its subtrees have them and it does. *)
LEMMA AtNode ==
  ASSUME NEW T \in AnyTree, T # Nil
  PROVE  /\ T.value \in Value /\ T.height \in Nat /\ T.left \in AnyTree /\ T.right \in AnyTree
         /\ Content(T) = Content(T.left) \cup {T.value} \cup Content(T.right)
         /\ IsSearchTree(T) <=> Between(T.left, T.value, T.right) /\ IsSearchTree(T.left) /\ IsSearchTree(T.right)
         /\ HeightsRight(T) <=> /\ T.height = 1 + Larger(Height(T.left), Height(T.right))
                                /\ HeightsRight(T.left) /\ HeightsRight(T.right)
         /\ Balanced(T) <=> BalanceFactor(T) <= 1 /\ Balanced(T.left) /\ Balanced(T.right)
<1>1. T.value \in Value /\ T.height \in Nat /\ T.left \in AnyTree /\ T.right \in AnyTree
  BY AnyTreeNode, NodeShape
<1>2. NodesOf[T] = {T} \cup NodesOf[T.left] \cup NodesOf[T.right]
  BY NodesOfUnfold
<1>3. Content(T) = Content(T.left) \cup {T.value} \cup Content(T.right)
  BY <1>2 DEF Content
<1>4. IsSearchTree(T) <=> Between(T.left, T.value, T.right) /\ IsSearchTree(T.left) /\ IsSearchTree(T.right)
  BY <1>2 DEF IsSearchTree
<1>5. HeightsRight(T) <=> /\ T.height = 1 + Larger(Height(T.left), Height(T.right))
                          /\ HeightsRight(T.left) /\ HeightsRight(T.right)
  BY <1>2 DEF HeightsRight
<1>6. Balanced(T) <=> BalanceFactor(T) <= 1 /\ Balanced(T.left) /\ Balanced(T.right)
  BY <1>2 DEF Balanced
<1> QED
  BY <1>1, <1>3, <1>4, <1>5, <1>6

(* The node at the root of a good tree. *)
LEMMA GoodNode ==
  ASSUME NEW T, Good(T), T # Nil
  PROVE  /\ T \in AnyTree /\ T.value \in Value
         /\ Good(T.left) /\ Good(T.right) /\ Between(T.left, T.value, T.right)
         /\ Content(T) = Content(T.left) \cup {T.value} \cup Content(T.right)
         /\ Height(T) = 1 + Larger(Height(T.left), Height(T.right))
BY AtNode, HeightType DEF Good

(* What set_height makes of a value and two good trees. *)
LEMMA NodeGood ==
  ASSUME NEW v \in Value, NEW l, NEW r, Good(l), Good(r), Between(l, v, r)
  PROVE  /\ Good(Node(v, l, r))
         /\ Content(Node(v, l, r)) = Content(l) \cup {v} \cup Content(r)
         /\ Height(Node(v, l, r)) = 1 + Larger(Height(l), Height(r))
         /\ Node(v, l, r) # Nil /\ Node(v, l, r) # Crash
         /\ Node(v, l, r).value = v /\ Node(v, l, r).left = l /\ Node(v, l, r).right = r
<1> DEFINE N == Node(v, l, r)
<1>1. N.value = v /\ N.left = l /\ N.right = r /\ N.height = 1 + Larger(Height(l), Height(r))
  BY DEF Node
<1>2. l \in AnyTree /\ r \in AnyTree
  BY DEF Good
<1>3. Height(l) \in Nat /\ Height(r) \in Nat
  BY <1>2, HeightType
<1>4. 1 + Larger(Height(l), Height(r)) \in Nat
  BY <1>3 DEF Larger
<1>5. N \in Nodes(AnyTree)
  BY <1>2, <1>4 DEF Nodes, Node
<1>6. N \in AnyTree /\ N # Nil /\ N # Crash
  BY <1>5, AnyTreeNode, NodeShape
<1> HIDE DEF N
<1>7. Good(N) /\ Content(N) = Content(l) \cup {v} \cup Content(r)
  BY <1>1, <1>6, AtNode DEF Good
<1>8. Height(N) = 1 + Larger(Height(l), Height(r))
  BY <1>1, <1>6, HeightType
<1> QED
  BY <1>1, <1>6, <1>7, <1>8 DEF N

-----------------------------------------------------------------------------
(* Rotations. *)

(* What a node of l, v and r holds. *)
Holds(l, v, r) == Content(l) \cup {v} \cup Content(r)

(* A node of two good trees, whatever height it says it has. *)
Joins(T) ==
  /\ T # Nil /\ T.value \in Value
  /\ Good(T.left) /\ Good(T.right) /\ Between(T.left, T.value, T.right)

(* R is a good tree of the values that T joins. *)
Rearranged(T, R) == Good(R) /\ Content(R) = Holds(T.left, T.value, T.right) /\ R # Nil

(* A tree that is rearranged is still one. *)
LEMMA RearrangedIsTree == \A T, R : Rearranged(T, R) => R # Crash
BY HeightType DEF Rearranged, Good

(* The order of the values. *)
LEMMA Transitive ==
  ASSUME NEW u \in Value, NEW v \in Value, NEW w \in Value, u[Cmp] < v[Cmp], v[Cmp] < w[Cmp]
  PROVE  u[Cmp] < w[Cmp]
BY KeyType

(* A simple rotation rearranges a node if its left subtree is there         *)
(* (simple_rotation_left, avl_tree.c).                                      *)
LEMMA RotLeftGood ==
  ASSUME NEW T, Joins(T), T.left # Nil
  PROVE  Rearranged(T, SimpleRotLeft(T))
<1> DEFINE l == T.left
           r == T.right
           v == T.value
           m == Node(v, l.right, r)
           R == Node(l.value, l.left, m)
<1>1. /\ l.value \in Value /\ v \in Value /\ Good(l.left) /\ Good(l.right) /\ Good(r)
      /\ Between(l.left, l.value, l.right)
      /\ Content(l) = Content(l.left) \cup {l.value} \cup Content(l.right)
  BY GoodNode DEF Joins
<1>2. Between(l.right, v, r)
  BY <1>1 DEF Joins, Between
<1>3. Good(m) /\ Content(m) = Content(l.right) \cup {v} \cup Content(r)
  <2> HIDE DEF l, r, v
  <2> QED
    BY <1>1, <1>2, NodeGood
<1>4. Between(l.left, l.value, m)
  <2>1. \A w \in Content(r) : w \in Value /\ v[Cmp] < w[Cmp]
    BY <1>1, ContentType DEF Joins, Between, Good
  <2>2. l.value[Cmp] < v[Cmp]
    BY <1>1 DEF Joins, Between
  <2>3. \A w \in Content(r) : l.value[Cmp] < w[Cmp]
    BY <1>1, <2>1, <2>2, Transitive
  <2> HIDE DEF l, r, v, m
  <2> QED
    BY <1>1, <1>3, <2>2, <2>3 DEF Between
<1>5. Good(R) /\ R # Nil /\ Content(R) = Content(l.left) \cup {l.value} \cup Content(m)
  <2> HIDE DEF l, r, v, m
  <2> QED
    BY <1>1, <1>3, <1>4, NodeGood
<1>6. Content(R) = Content(l) \cup {v} \cup Content(r)
  <2> HIDE DEF l, r, v, m, R
  <2> QED
    BY <1>1, <1>3, <1>5
<1>7. SimpleRotLeft(T) = R
  BY DEF SimpleRotLeft, Joins
<1> HIDE DEF R
<1> QED
  BY <1>5, <1>6, <1>7 DEF Rearranged, Holds

(* A simple rotation rearranges a node if its right subtree is there        *)
(* (simple_rotation_right).                                                 *)
LEMMA RotRightGood ==
  ASSUME NEW T, Joins(T), T.right # Nil
  PROVE  Rearranged(T, SimpleRotRight(T))
<1> DEFINE l == T.left
           r == T.right
           v == T.value
           m == Node(v, l, r.left)
           R == Node(r.value, m, r.right)
<1>1. /\ r.value \in Value /\ v \in Value /\ Good(r.left) /\ Good(r.right) /\ Good(l)
      /\ Between(r.left, r.value, r.right)
      /\ Content(r) = Content(r.left) \cup {r.value} \cup Content(r.right)
  BY GoodNode DEF Joins
<1>2. Between(l, v, r.left)
  BY <1>1 DEF Joins, Between
<1>3. Good(m) /\ Content(m) = Content(l) \cup {v} \cup Content(r.left)
  <2> HIDE DEF l, r, v
  <2> QED
    BY <1>1, <1>2, NodeGood
<1>4. Between(m, r.value, r.right)
  <2>1. \A w \in Content(l) : w \in Value /\ w[Cmp] < v[Cmp]
    BY <1>1, ContentType DEF Joins, Between, Good
  <2>2. v[Cmp] < r.value[Cmp]
    BY <1>1 DEF Joins, Between
  <2>3. \A w \in Content(l) : w[Cmp] < r.value[Cmp]
    BY <1>1, <2>1, <2>2, Transitive
  <2> HIDE DEF l, r, v, m
  <2> QED
    BY <1>1, <1>3, <2>2, <2>3 DEF Between
<1>5. Good(R) /\ R # Nil /\ Content(R) = Content(m) \cup {r.value} \cup Content(r.right)
  <2> HIDE DEF l, r, v, m
  <2> QED
    BY <1>1, <1>3, <1>4, NodeGood
<1>6. Content(R) = Content(l) \cup {v} \cup Content(r)
  <2> HIDE DEF l, r, v, m, R
  <2> QED
    BY <1>1, <1>3, <1>5
<1>7. SimpleRotRight(T) = R
  BY DEF SimpleRotRight, Joins
<1> HIDE DEF R
<1> QED
  BY <1>5, <1>6, <1>7 DEF Rearranged, Holds

(* A good tree, as a node, joins its subtrees. *)
LEMMA GoodJoins == ASSUME NEW T, Good(T), T # Nil PROVE Joins(T) /\ Content(T) = Holds(T.left, T.value, T.right)
BY GoodNode DEF Joins, Holds

(* Two good trees and a value between them are joined by a node. *)
LEMMA NodeJoins ==
  ASSUME NEW v \in Value, NEW l, NEW r, Good(l), Good(r), Between(l, v, r)
  PROVE  Joins(Node(v, l, r)) /\ Node(v, l, r).left = l /\ Node(v, l, r).value = v /\ Node(v, l, r).right = r
BY NodeGood DEF Joins

(* balance_left rearranges a node; it follows a null pointer only if the    *)
(* left subtree is a leaf or is not there.                                  *)
LEMMA BalanceLeftGood ==
  ASSUME NEW v \in Value, NEW l, NEW r, Good(l), Good(r), Between(l, v, r)
  PROVE  LET n == Node(v, l, r) IN (BalanceLeft(n) = Crash /\ Height(l) < 2) \/ Rearranged(n, BalanceLeft(n))
<1> DEFINE n == Node(v, l, r)
<1>1. Joins(n) /\ n.left = l /\ n.value = v /\ n.right = r
  BY NodeJoins
<1>2. n = [value |-> v, height |-> n.height, left |-> l, right |-> r]
  BY DEF Node
<1> HIDE DEF n
<1>3. CASE l = Nil
  BY <1>1, <1>3, NilGood DEF BalanceLeft, n
<1>4. CASE l # Nil /\ Height(l.left) > Height(l.right)
  <2>1. BalanceLeft(n) = SimpleRotLeft(n)
    BY <1>1, <1>4 DEF BalanceLeft
  <2> QED
    BY <1>1, <1>4, <2>1, RotLeftGood DEF n
<1>5. CASE l # Nil /\ ~ (Height(l.left) > Height(l.right))
  <2>1. BalanceLeft(n) = DoubleRotLR(n)
    BY <1>1, <1>5 DEF BalanceLeft
  <2>2. CASE l.right = Nil
    <3>1. SimpleRotRight(l) = Crash
      BY <2>2 DEF SimpleRotRight
    <3>2. BalanceLeft(n) = Crash
      BY <1>1, <2>1, <3>1 DEF DoubleRotLR
    <3>3. Height(l) < 2
      <4>1. /\ Height(l) = 1 + Larger(Height(l.left), Height(l.right))
            /\ Height(l.left) \in Nat /\ Height(l.right) \in Nat /\ Height(l.right) = 0
        BY <1>5, <2>2, GoodNode, HeightType, NilGood DEF Good
      <4> QED
        BY <1>5, <4>1 DEF Larger
    <3> QED
      BY <3>2, <3>3 DEF n
  <2>3. CASE l.right # Nil
    <3> DEFINE k == SimpleRotRight(l)
    <3>1. Rearranged(l, k) /\ Content(l) = Holds(l.left, l.value, l.right)
      BY <1>5, <2>3, GoodJoins, RotRightGood
    <3>2. k # Crash /\ k # Nil
      BY <3>1, RearrangedIsTree DEF Rearranged
    <3> HIDE DEF k
    <3>3. Good(k) /\ Content(k) = Content(l)
      BY <3>1 DEF Rearranged
    <3> DEFINE w == [n EXCEPT !.left = k]
    <3>4. w = [value |-> v, height |-> n.height, left |-> k, right |-> r]
      BY <1>2
    <3>5. w # Nil /\ w.value = v /\ w.left = k /\ w.right = r
      <4>1. DOMAIN w = {"value", "height", "left", "right"} /\ DOMAIN Nil = {"pointer"}
        BY <3>4 DEF Nil
      <4> QED
        BY <3>4, <4>1
    <3>6. BalanceLeft(n) = SimpleRotLeft(w)
      BY <1>1, <2>1, <3>2 DEF DoubleRotLR, k
    <3> HIDE DEF w
    <3>7. Joins(w)
      BY <3>3, <3>5 DEF Joins, Between
    <3>8. Rearranged(w, SimpleRotLeft(w))
      BY <3>2, <3>5, <3>7, RotLeftGood
    <3>9. Rearranged(n, BalanceLeft(n))
      BY <1>1, <3>3, <3>5, <3>6, <3>8 DEF Rearranged, Holds
    <3> QED
      BY <3>9 DEF n
  <2> QED
    BY <2>2, <2>3
<1> QED
  BY <1>3, <1>4, <1>5 DEF n

(* balance_right rearranges a node; it follows a null pointer only if the   *)
(* right subtree is a leaf or is not there.                                 *)
LEMMA BalanceRightGood ==
  ASSUME NEW v \in Value, NEW l, NEW r, Good(l), Good(r), Between(l, v, r)
  PROVE  LET n == Node(v, l, r) IN (BalanceRight(n) = Crash /\ Height(r) < 2) \/ Rearranged(n, BalanceRight(n))
<1> DEFINE n == Node(v, l, r)
<1>1. Joins(n) /\ n.left = l /\ n.value = v /\ n.right = r
  BY NodeJoins
<1>2. n = [value |-> v, height |-> n.height, left |-> l, right |-> r]
  BY DEF Node
<1> HIDE DEF n
<1>3. CASE r = Nil
  BY <1>1, <1>3, NilGood DEF BalanceRight, n
<1>4. CASE r # Nil /\ Height(r.right) > Height(r.left)
  <2>1. BalanceRight(n) = SimpleRotRight(n)
    BY <1>1, <1>4 DEF BalanceRight
  <2> QED
    BY <1>1, <1>4, <2>1, RotRightGood DEF n
<1>5. CASE r # Nil /\ ~ (Height(r.right) > Height(r.left))
  <2>1. BalanceRight(n) = DoubleRotRL(n)
    BY <1>1, <1>5 DEF BalanceRight
  <2>2. CASE r.left = Nil
    <3>1. SimpleRotLeft(r) = Crash
      BY <2>2 DEF SimpleRotLeft
    <3>2. BalanceRight(n) = Crash
      BY <1>1, <2>1, <3>1 DEF DoubleRotRL
    <3>3. Height(r) < 2
      <4>1. /\ Height(r) = 1 + Larger(Height(r.left), Height(r.right))
            /\ Height(r.left) \in Nat /\ Height(r.right) \in Nat /\ Height(r.left) = 0
        BY <1>5, <2>2, GoodNode, HeightType, NilGood DEF Good
      <4> QED
        BY <1>5, <4>1 DEF Larger
    <3> QED
      BY <3>2, <3>3 DEF n
  <2>3. CASE r.left # Nil
    <3> DEFINE k == SimpleRotLeft(r)
    <3>1. Rearranged(r, k) /\ Content(r) = Holds(r.left, r.value, r.right)
      BY <1>5, <2>3, GoodJoins, RotLeftGood
    <3>2. k # Crash /\ k # Nil
      BY <3>1, RearrangedIsTree DEF Rearranged
    <3> HIDE DEF k
    <3>3. Good(k) /\ Content(k) = Content(r)
      BY <3>1 DEF Rearranged
    <3> DEFINE w == [n EXCEPT !.right = k]
    <3>4. w = [value |-> v, height |-> n.height, left |-> l, right |-> k]
      BY <1>2
    <3>5. w # Nil /\ w.value = v /\ w.left = l /\ w.right = k
      <4>1. DOMAIN w = {"value", "height", "left", "right"} /\ DOMAIN Nil = {"pointer"}
        BY <3>4 DEF Nil
      <4> QED
        BY <3>4, <4>1
    <3>6. BalanceRight(n) = SimpleRotRight(w)
      BY <1>1, <2>1, <3>2 DEF DoubleRotRL, k
    <3> HIDE DEF w
    <3>7. Joins(w)
      BY <3>3, <3>5 DEF Joins, Between
    <3>8. Rearranged(w, SimpleRotRight(w))
      BY <3>2, <3>5, <3>7, RotRightGood
    <3>9. Rearranged(n, BalanceRight(n))
      BY <1>1, <3>3, <3>5, <3>6, <3>8 DEF Rearranged, Holds
    <3> QED
      BY <3>9 DEF n
  <2> QED
    BY <2>2, <2>3
<1> QED
  BY <1>3, <1>4, <1>5 DEF n

-----------------------------------------------------------------------------
(* Insertion and deletion: the values afterwards. *)

(* A content C once v is inserted, and once the value of key x is deleted. *)
With(C, v) == {w \in C : w[Cmp] # v[Cmp]} \cup {v}

Without(C, x) == {w \in C : w[Cmp] # x}

(* What is good is one of the values C, if the program has not crashed. *)
GoodOf(R, C) == R = Crash \/ (Good(R) /\ Content(R) = C)

(* A node whose left subtree was inserted into is good again, if nothing    *)
(* followed a null pointer.                                                 *)
LEMMA GrownLeftGood ==
  ASSUME NEW T, Good(T), T # Nil, NEW v \in Value, v[Cmp] < T.value[Cmp],
         NEW l, GoodOf(l, With(Content(T.left), v))
  PROVE  GoodOf(GrownLeft(T, l), With(Content(T), v))
<1>1. CASE l = Crash
  BY <1>1 DEF GrownLeft, GoodOf
<1>2. CASE l # Crash
  <2> DEFINE n == Node(T.value, l, T.right)
  <2>1. /\ Good(l) /\ Content(l) = With(Content(T.left), v)
        /\ T.value \in Value /\ Good(T.right) /\ Between(T.left, T.value, T.right)
        /\ Content(T) = Content(T.left) \cup {T.value} \cup Content(T.right)
    BY <1>2, GoodNode DEF GoodOf
  <2>2. Between(l, T.value, T.right)
    BY <2>1 DEF Between, With
  <2>3. \A w \in Content(T.right) : w[Cmp] # v[Cmp]
    <3>1. ASSUME NEW w \in Content(T.right) PROVE w[Cmp] # v[Cmp]
      <4>1. w \in Value /\ T.value[Cmp] < w[Cmp]
        BY <2>1, ContentType DEF Between, Good
      <4> QED
        BY <2>1, <4>1, KeyType
    <3> QED
      BY <3>1
  <2>4. T.value[Cmp] # v[Cmp]
    BY <2>1, KeyType
  <2>5. Holds(l, T.value, T.right) = With(Content(T), v)
    BY <2>1, <2>3, <2>4 DEF Holds, With
  <2>6. /\ Good(n) /\ Content(n) = Holds(l, T.value, T.right)
        /\ n.left = l /\ n.value = T.value /\ n.right = T.right
    BY <2>1, <2>2, NodeGood DEF Holds
  <2>7. BalanceLeft(n) = Crash \/ Rearranged(n, BalanceLeft(n))
    BY <2>1, <2>2, BalanceLeftGood
  <2>8. GrownLeft(T, l) = IF BalanceFactor(n) > 1 THEN BalanceLeft(n) ELSE n
    BY <1>2 DEF GrownLeft
  <2> HIDE DEF n
  <2> QED
    BY <2>5, <2>6, <2>7, <2>8 DEF GoodOf, Rearranged
<1> QED
  BY <1>1, <1>2

(* The same of the right subtree. *)
LEMMA GrownRightGood ==
  ASSUME NEW T, Good(T), T # Nil, NEW v \in Value, T.value[Cmp] < v[Cmp],
         NEW r, GoodOf(r, With(Content(T.right), v))
  PROVE  GoodOf(GrownRight(T, r), With(Content(T), v))
<1>1. CASE r = Crash
  BY <1>1 DEF GrownRight, GoodOf
<1>2. CASE r # Crash
  <2> DEFINE n == Node(T.value, T.left, r)
  <2>1. /\ Good(r) /\ Content(r) = With(Content(T.right), v)
        /\ T.value \in Value /\ Good(T.left) /\ Between(T.left, T.value, T.right)
        /\ Content(T) = Content(T.left) \cup {T.value} \cup Content(T.right)
    BY <1>2, GoodNode DEF GoodOf
  <2>2. Between(T.left, T.value, r)
    BY <2>1 DEF Between, With
  <2>3. \A w \in Content(T.left) : w[Cmp] # v[Cmp]
    <3>1. ASSUME NEW w \in Content(T.left) PROVE w[Cmp] # v[Cmp]
      <4>1. w \in Value /\ w[Cmp] < T.value[Cmp]
        BY <2>1, ContentType DEF Between, Good
      <4> QED
        BY <2>1, <4>1, KeyType
    <3> QED
      BY <3>1
  <2>4. T.value[Cmp] # v[Cmp]
    BY <2>1, KeyType
  <2>5. Holds(T.left, T.value, r) = With(Content(T), v)
    BY <2>1, <2>3, <2>4 DEF Holds, With
  <2>6. /\ Good(n) /\ Content(n) = Holds(T.left, T.value, r)
        /\ n.left = T.left /\ n.value = T.value /\ n.right = r
    BY <2>1, <2>2, NodeGood DEF Holds
  <2>7. BalanceRight(n) = Crash \/ Rearranged(n, BalanceRight(n))
    BY <2>1, <2>2, BalanceRightGood
  <2>8. GrownRight(T, r) = IF BalanceFactor(n) > 1 THEN BalanceRight(n) ELSE n
    BY <1>2 DEF GrownRight
  <2> HIDE DEF n
  <2> QED
    BY <2>5, <2>6, <2>7, <2>8 DEF GoodOf, Rearranged
<1> QED
  BY <1>1, <1>2

(* The node whose value is replaced. *)
LEMMA ReplacedGood ==
  ASSUME NEW T, Good(T), T # Nil, NEW v \in Value, v[Cmp] = T.value[Cmp]
  PROVE  /\ Good([T EXCEPT !.value = v])
         /\ Content([T EXCEPT !.value = v]) = With(Content(T), v)
         /\ [T EXCEPT !.value = v] # Nil
<1> DEFINE R == [T EXCEPT !.value = v]
<1>1. /\ T \in AnyTree /\ Good(T.left) /\ Good(T.right) /\ Between(T.left, T.value, T.right)
      /\ Content(T) = Content(T.left) \cup {T.value} \cup Content(T.right)
      /\ T.height = 1 + Larger(Height(T.left), Height(T.right))
  BY GoodNode, HeightType DEF Good
<1>2. T \in Nodes(AnyTree)
  BY <1>1, AnyTreeNode
<1>3. /\ R.value = v /\ R.left = T.left /\ R.right = T.right /\ R.height = T.height
      /\ R \in Nodes(AnyTree)
  BY <1>2 DEF Nodes
<1>4. R \in AnyTree /\ R # Nil
  BY <1>3, AnyTreeNode, NodeShape
<1> HIDE DEF R
<1>5. Between(R.left, R.value, R.right)
  BY <1>1, <1>3 DEF Between
<1>6. Good(R) /\ Content(R) = Content(T.left) \cup {v} \cup Content(T.right)
  BY <1>1, <1>3, <1>4, <1>5, AtNode DEF Good
<1>7. \A w \in Content(T.left) \cup Content(T.right) : w[Cmp] # v[Cmp]
  <2>1. ASSUME NEW w \in Content(T.left) PROVE w[Cmp] # v[Cmp]
    <3>1. w \in Value /\ w[Cmp] < v[Cmp]
      BY <1>1, ContentType DEF Between, Good
    <3> QED
      BY <3>1, KeyType
  <2>2. ASSUME NEW w \in Content(T.right) PROVE w[Cmp] # v[Cmp]
    <3>1. w \in Value /\ v[Cmp] < w[Cmp]
      BY <1>1, ContentType DEF Between, Good
    <3> QED
      BY <3>1, KeyType
  <2> QED
    BY <2>1, <2>2
<1>8. Content(R) = With(Content(T), v)
  BY <1>1, <1>6, <1>7 DEF With
<1> QED
  BY <1>4, <1>6, <1>8 DEF R

(* insert_aux, one call. *)
LEMMA InsertStep ==
  ASSUME NEW T \in Tree, NEW v \in Value
  PROVE  /\ T = Nil => InsertAux[T][v] = Leaf(v)
         /\ T # Nil /\ v[Cmp] < T.value[Cmp] => InsertAux[T][v] = GrownLeft(T, InsertAux[T.left][v])
         /\ T # Nil /\ T.value[Cmp] < v[Cmp] => InsertAux[T][v] = GrownRight(T, InsertAux[T.right][v])
         /\ T # Nil /\ v[Cmp] = T.value[Cmp] => InsertAux[T][v] = [T EXCEPT !.value = v]
<1>1. InsertAux[T][v] = InsertDef(InsertAux, T)[v]
  BY InsertUnfold
<1>2. T # Nil => T.value \in Value
  BY TreeIsAny, AnyTreeNode, NodeShape
<1>3. v[Cmp] \in Nat /\ (T # Nil => T.value[Cmp] \in Nat)
  BY <1>2, KeyType
<1> QED
  BY <1>1, <1>3 DEF InsertDef

(* The node that is made for a new key. *)
LEMMA LeafGood ==
  ASSUME NEW v \in Value
  PROVE  /\ Good(Leaf(v)) /\ Balanced(Leaf(v)) /\ Content(Leaf(v)) = {v} /\ Height(Leaf(v)) = 1
         /\ Leaf(v) # Nil /\ Leaf(v) # Crash
<1>1. Between(Nil, v, Nil)
  BY NilGood DEF Between
<1>2. /\ Good(Leaf(v)) /\ Content(Leaf(v)) = {v} /\ Height(Leaf(v)) = 1 + Larger(0, 0)
      /\ Leaf(v) # Nil /\ Leaf(v) # Crash /\ Leaf(v).left = Nil /\ Leaf(v).right = Nil
  BY <1>1, NilGood, NodeGood DEF Leaf
<1>3. Balanced(Leaf(v))
  BY <1>2, NilGood, AtNode DEF Good, BalanceFactor, Abs
<1> QED
  BY <1>2, <1>3 DEF Larger

(* An insertion into a good tree gives a good tree of its values with the   *)
(* new one in the place of the one that had its key.                        *)
THEOREM InsertGood ==
  ASSUME NEW T \in Tree, Good(T), NEW v \in Value
  PROVE  GoodOf(InsertAux[T][v], With(Content(T), v))
<1> DEFINE G == {U \in AnyTree : U \in Tree /\ Good(U) => GoodOf(InsertAux[U][v], With(Content(U), v))}
<1>1. ASSUME NEW U \in AnyTree, U # Nil => U.left \in G /\ U.right \in G
      PROVE  U \in G
  <2>1. SUFFICES ASSUME U \in Tree, Good(U) PROVE GoodOf(InsertAux[U][v], With(Content(U), v))
    OBVIOUS
  <2>2. CASE U = Nil
    <3>1. With(Content(U), v) = {v}
      BY <2>2, NilGood DEF With
    <3> QED
      BY <2>1, <2>2, <3>1, InsertStep, LeafGood DEF GoodOf
  <2>3. CASE U # Nil
    <3>1. /\ U.left \in Tree /\ U.right \in Tree /\ Good(U.left) /\ Good(U.right) /\ U.value \in Value
      BY <2>1, <2>3, Subtrees, GoodNode
    <3>2. /\ GoodOf(InsertAux[U.left][v], With(Content(U.left), v))
          /\ GoodOf(InsertAux[U.right][v], With(Content(U.right), v))
      BY <1>1, <2>3, <3>1
    <3>3. v[Cmp] < U.value[Cmp] \/ U.value[Cmp] < v[Cmp] \/ v[Cmp] = U.value[Cmp]
      BY <3>1, KeyType
    <3>4. CASE v[Cmp] < U.value[Cmp]
      <4>1. InsertAux[U][v] = GrownLeft(U, InsertAux[U.left][v])
        BY <2>1, <2>3, <3>4, InsertStep
      <4>2. GoodOf(GrownLeft(U, InsertAux[U.left][v]), With(Content(U), v))
        BY <2>1, <2>3, <3>2, <3>4, GrownLeftGood
      <4> QED
        BY <4>1, <4>2
    <3>5. CASE U.value[Cmp] < v[Cmp]
      <4>1. InsertAux[U][v] = GrownRight(U, InsertAux[U.right][v])
        BY <2>1, <2>3, <3>5, InsertStep
      <4>2. GoodOf(GrownRight(U, InsertAux[U.right][v]), With(Content(U), v))
        BY <2>1, <2>3, <3>2, <3>5, GrownRightGood
      <4> QED
        BY <4>1, <4>2
    <3>6. CASE v[Cmp] = U.value[Cmp]
      <4>1. InsertAux[U][v] = [U EXCEPT !.value = v]
        BY <2>1, <2>3, <3>6, InsertStep
      <4> QED
        BY <2>1, <2>3, <3>6, <4>1, ReplacedGood DEF GoodOf
    <3> QED
      BY <3>3, <3>4, <3>5, <3>6
  <2> QED
    BY <2>2, <2>3
<1>2. G \in SUBSET AnyTree
  OBVIOUS
<1>3. AnyTree = G
  <2> HIDE DEF G
  <2> QED
    BY <1>1, <1>2, TreeInduction
<1> QED
  BY <1>3, TreeIsAny

(* get_max finds the largest value. *)
LEMMA GetMaxIsLargest ==
  ASSUME NEW T \in Tree, Good(T), T # Nil
  PROVE  GetMax[T] \in Content(T) /\ \A w \in Content(T) : w = GetMax[T] \/ w[Cmp] < GetMax[T][Cmp]
<1> DEFINE Largest(U) == GetMax[U] \in Content(U) /\ \A w \in Content(U) : w = GetMax[U] \/ w[Cmp] < GetMax[U][Cmp]
           G == {U \in AnyTree : U \in Tree /\ Good(U) /\ U # Nil => Largest(U)}
<1>1. ASSUME NEW U \in AnyTree, U # Nil => U.left \in G /\ U.right \in G
      PROVE  U \in G
  <2>1. SUFFICES ASSUME U \in Tree, Good(U), U # Nil PROVE Largest(U)
    OBVIOUS
  <2>2. /\ U.right \in Tree /\ Good(U.right) /\ U.value \in Value
        /\ Between(U.left, U.value, U.right)
        /\ Content(U) = Content(U.left) \cup {U.value} \cup Content(U.right)
    BY <2>1, Subtrees, GoodNode
  <2>3. GetMax[U] = IF U.right = Nil THEN U.value ELSE GetMax[U.right]
    BY <2>1, GetMaxUnfold DEF GetMaxDef
  <2>4. CASE U.right = Nil
    <3>1. GetMax[U] = U.value /\ Content(U.right) = {}
      BY <2>3, <2>4, NilGood
    <3> QED
      BY <2>2, <3>1 DEF Between
  <2>5. CASE U.right # Nil
    <3>1. GetMax[U] = GetMax[U.right] /\ Largest(U.right)
      BY <1>1, <2>1, <2>2, <2>3, <2>5
    <3>2. GetMax[U] \in Content(U.right) /\ GetMax[U] \in Value /\ U.value[Cmp] < GetMax[U][Cmp]
      BY <2>2, <3>1, ContentType DEF Between, Good
    <3>3. ASSUME NEW w \in Content(U.left) PROVE w[Cmp] < GetMax[U][Cmp]
      <4>1. w \in Value /\ w[Cmp] < U.value[Cmp]
        BY <2>1, <2>2, ContentType DEF Between, Good
      <4> QED
        BY <2>2, <3>2, <4>1, Transitive
    <3> QED
      BY <2>2, <3>1, <3>2, <3>3
  <2> QED
    BY <2>4, <2>5
<1>2. G \in SUBSET AnyTree
  OBVIOUS
<1>3. AnyTree = G
  <2> HIDE DEF G
  <2> QED
    BY <1>1, <1>2, TreeInduction
<1> QED
  BY <1>3, TreeIsAny

(* A node whose left subtree was deleted from is good again, if nothing     *)
(* followed a null pointer.                                                 *)
LEMMA ShrunkLeftGood ==
  ASSUME NEW T, Good(T), T # Nil, NEW x \in Nat, x < T.value[Cmp],
         NEW l, GoodOf(l, Without(Content(T.left), x))
  PROVE  GoodOf(ShrunkLeft(T, l), Without(Content(T), x))
<1>1. CASE l = Crash
  BY <1>1 DEF ShrunkLeft, GoodOf
<1>2. CASE l # Crash
  <2> DEFINE n == Node(T.value, l, T.right)
  <2>1. /\ Good(l) /\ Content(l) = Without(Content(T.left), x)
        /\ T.value \in Value /\ Good(T.right) /\ Between(T.left, T.value, T.right)
        /\ Content(T) = Content(T.left) \cup {T.value} \cup Content(T.right)
    BY <1>2, GoodNode DEF GoodOf
  <2>2. Between(l, T.value, T.right)
    BY <2>1 DEF Between, Without
  <2>3. \A w \in Content(T.right) : w[Cmp] # x
    <3>1. ASSUME NEW w \in Content(T.right) PROVE w[Cmp] # x
      <4>1. w \in Value /\ T.value[Cmp] < w[Cmp]
        BY <2>1, ContentType DEF Between, Good
      <4> QED
        BY <2>1, <4>1, KeyType
    <3> QED
      BY <3>1
  <2>4. T.value[Cmp] # x
    BY <2>1, KeyType
  <2>5. Holds(l, T.value, T.right) = Without(Content(T), x)
    BY <2>1, <2>3, <2>4 DEF Holds, Without
  <2>6. /\ Good(n) /\ Content(n) = Holds(l, T.value, T.right)
        /\ n.left = l /\ n.value = T.value /\ n.right = T.right
    BY <2>1, <2>2, NodeGood DEF Holds
  <2>7. BalanceRight(n) = Crash \/ Rearranged(n, BalanceRight(n))
    BY <2>1, <2>2, BalanceRightGood
  <2>8. ShrunkLeft(T, l) \in {BalanceRight(n), n}
    BY <1>2 DEF ShrunkLeft
  <2> HIDE DEF n
  <2> QED
    BY <2>5, <2>6, <2>7, <2>8 DEF GoodOf, Rearranged
<1> QED
  BY <1>1, <1>2

(* The same of the right subtree. *)
LEMMA ShrunkRightGood ==
  ASSUME NEW T, Good(T), T # Nil, NEW x \in Nat, T.value[Cmp] < x,
         NEW r, GoodOf(r, Without(Content(T.right), x))
  PROVE  GoodOf(ShrunkRight(T, r), Without(Content(T), x))
<1>1. CASE r = Crash
  BY <1>1 DEF ShrunkRight, GoodOf
<1>2. CASE r # Crash
  <2> DEFINE n == Node(T.value, T.left, r)
  <2>1. /\ Good(r) /\ Content(r) = Without(Content(T.right), x)
        /\ T.value \in Value /\ Good(T.left) /\ Between(T.left, T.value, T.right)
        /\ Content(T) = Content(T.left) \cup {T.value} \cup Content(T.right)
    BY <1>2, GoodNode DEF GoodOf
  <2>2. Between(T.left, T.value, r)
    BY <2>1 DEF Between, Without
  <2>3. \A w \in Content(T.left) : w[Cmp] # x
    <3>1. ASSUME NEW w \in Content(T.left) PROVE w[Cmp] # x
      <4>1. w \in Value /\ w[Cmp] < T.value[Cmp]
        BY <2>1, ContentType DEF Between, Good
      <4> QED
        BY <2>1, <4>1, KeyType
    <3> QED
      BY <3>1
  <2>4. T.value[Cmp] # x
    BY <2>1, KeyType
  <2>5. Holds(T.left, T.value, r) = Without(Content(T), x)
    BY <2>1, <2>3, <2>4 DEF Holds, Without
  <2>6. /\ Good(n) /\ Content(n) = Holds(T.left, T.value, r)
        /\ n.left = T.left /\ n.value = T.value /\ n.right = r
    BY <2>1, <2>2, NodeGood DEF Holds
  <2>7. BalanceLeft(n) = Crash \/ Rearranged(n, BalanceLeft(n))
    BY <2>1, <2>2, BalanceLeftGood
  <2>8. ShrunkRight(T, r) \in {BalanceLeft(n), n}
    BY <1>2 DEF ShrunkRight
  <2> HIDE DEF n
  <2> QED
    BY <2>5, <2>6, <2>7, <2>8 DEF GoodOf, Rearranged
<1> QED
  BY <1>1, <1>2

(* The node whose value is deleted and that has a left subtree. *)
LEMMA MovedUpGood ==
  ASSUME NEW T \in Tree, Good(T), T # Nil, T.left # Nil, NEW l,
         GoodOf(l, Without(Content(T.left), GetMax[T.left][Cmp]))
  PROVE  GoodOf(Replaced(T, GetMax[T.left], l), Without(Content(T), T.value[Cmp]))
<1> DEFINE m == GetMax[T.left]
<1>1. CASE l = Crash
  BY <1>1 DEF Replaced, GoodOf
<1>2. CASE l # Crash
  <2>1. /\ Good(l) /\ Content(l) = Without(Content(T.left), m[Cmp])
        /\ T.value \in Value /\ Good(T.left) /\ Good(T.right) /\ T.left \in Tree
        /\ Between(T.left, T.value, T.right)
        /\ Content(T) = Content(T.left) \cup {T.value} \cup Content(T.right)
    BY <1>2, GoodNode, Subtrees DEF GoodOf
  <2>2. /\ m \in Content(T.left) /\ \A w \in Content(T.left) : w = m \/ w[Cmp] < m[Cmp]
    BY <2>1, GetMaxIsLargest
  <2>3. m \in Value /\ m[Cmp] < T.value[Cmp]
    BY <2>1, <2>2, ContentType DEF Between, Good
  <2>4. Replaced(T, m, l) = Node(m, l, T.right)
    BY <1>2 DEF Replaced, TakeMax
  <2> HIDE DEF m
  <2>5. ASSUME NEW w \in Content(T.left) PROVE w[Cmp] # T.value[Cmp] /\ (w # m => w[Cmp] < m[Cmp] /\ w[Cmp] # m[Cmp])
    <3>1. w \in Value /\ w[Cmp] < T.value[Cmp]
      BY <2>1, ContentType DEF Between, Good
    <3> QED
      BY <2>1, <2>2, <2>3, <3>1, KeyType
  <2>6. ASSUME NEW w \in Content(T.right) PROVE w[Cmp] # T.value[Cmp] /\ m[Cmp] < w[Cmp]
    <3>1. w \in Value /\ T.value[Cmp] < w[Cmp]
      BY <2>1, ContentType DEF Between, Good
    <3> QED
      BY <2>1, <2>3, <3>1, KeyType, Transitive
  <2>7. Between(l, m, T.right)
    BY <2>1, <2>2, <2>5, <2>6 DEF Between, Without
  <2>8. Content(l) \cup {m} = Content(T.left)
    BY <2>1, <2>2, <2>5 DEF Without
  <2>9. Content(T.left) \cup Content(T.right) = Without(Content(T), T.value[Cmp])
    BY <2>1, <2>5, <2>6 DEF Without
  <2>10. Good(Node(m, l, T.right)) /\ Content(Node(m, l, T.right)) = Content(l) \cup {m} \cup Content(T.right)
    BY <2>1, <2>3, <2>7, NodeGood
  <2> QED
    BY <2>4, <2>8, <2>9, <2>10 DEF GoodOf, m
<1> QED
  BY <1>1, <1>2

(* The node whose value is deleted and that has none. *)
LEMMA UnlinkedGood ==
  ASSUME NEW T, Good(T), T # Nil, T.left = Nil
  PROVE  GoodOf(T.right, Without(Content(T), T.value[Cmp]))
<1>1. /\ T.value \in Value /\ Good(T.right) /\ Between(T.left, T.value, T.right)
      /\ Content(T) = {T.value} \cup Content(T.right)
  BY GoodNode, NilGood
<1>2. ASSUME NEW w \in Content(T.right) PROVE w[Cmp] # T.value[Cmp]
  <2>1. w \in Value /\ T.value[Cmp] < w[Cmp]
    BY <1>1, ContentType DEF Between, Good
  <2> QED
    BY <1>1, <2>1, KeyType
<1> QED
  BY <1>1, <1>2 DEF GoodOf, Without

(* avl_delete_aux, one call. *)
LEMMA DeleteStep ==
  ASSUME NEW T \in Tree, NEW x \in Nat
  PROVE  /\ T = Nil => DeleteAux[T][x] = Nil
         /\ T # Nil /\ T.value[Cmp] = x /\ T.left = Nil => DeleteAux[T][x] = T.right
         /\ T # Nil /\ T.value[Cmp] = x /\ T.left # Nil =>
              DeleteAux[T][x] = Replaced(T, GetMax[T.left], DeleteAux[T.left][GetMax[T.left][Cmp]])
         /\ T # Nil /\ x < T.value[Cmp] => DeleteAux[T][x] = ShrunkLeft(T, DeleteAux[T.left][x])
         /\ T # Nil /\ T.value[Cmp] < x => DeleteAux[T][x] = ShrunkRight(T, DeleteAux[T.right][x])
<1>1. DeleteAux[T][x] = DeleteDef(DeleteAux, T)[x]
  BY DeleteUnfold
<1>2. T # Nil => T.value \in Value
  BY TreeIsAny, AnyTreeNode, NodeShape
<1>3. T # Nil => T.value[Cmp] \in Nat
  BY <1>2, KeyType
<1> QED
  BY <1>1, <1>3 DEF DeleteDef

(* A deletion from a good tree gives, if it does not crash, a good tree of  *)
(* its other values.                                                        *)
THEOREM DeleteGood ==
  ASSUME NEW T \in Tree, Good(T), NEW x \in Nat
  PROVE  GoodOf(DeleteAux[T][x], Without(Content(T), x))
<1> DEFINE G == {U \in AnyTree : U \in Tree /\ Good(U) =>
                   \A y \in Nat : GoodOf(DeleteAux[U][y], Without(Content(U), y))}
<1>1. ASSUME NEW U \in AnyTree, U # Nil => U.left \in G /\ U.right \in G
      PROVE  U \in G
  <2>1. SUFFICES ASSUME U \in Tree, Good(U), NEW y \in Nat
                 PROVE  GoodOf(DeleteAux[U][y], Without(Content(U), y))
    OBVIOUS
  <2>2. CASE U = Nil
    <3>1. Without(Content(U), y) = {}
      BY <2>2, NilGood DEF Without
    <3> QED
      BY <2>1, <2>2, <3>1, DeleteStep, NilGood DEF GoodOf
  <2>3. CASE U # Nil
    <3>1. /\ U.left \in Tree /\ U.right \in Tree /\ Good(U.left) /\ Good(U.right)
          /\ U.value \in Value /\ U.value[Cmp] \in Nat
      BY <2>1, <2>3, Subtrees, GoodNode, KeyType
    <3>2. \A z \in Nat : /\ GoodOf(DeleteAux[U.left][z], Without(Content(U.left), z))
                         /\ GoodOf(DeleteAux[U.right][z], Without(Content(U.right), z))
      BY <1>1, <2>3, <3>1
    <3>3. y < U.value[Cmp] \/ U.value[Cmp] < y \/ U.value[Cmp] = y
      BY <3>1
    <3>4. CASE y < U.value[Cmp]
      <4>1. DeleteAux[U][y] = ShrunkLeft(U, DeleteAux[U.left][y])
        BY <2>1, <2>3, <3>4, DeleteStep
      <4> QED
        BY <2>1, <2>3, <3>2, <3>4, <4>1, ShrunkLeftGood
    <3>5. CASE U.value[Cmp] < y
      <4>1. DeleteAux[U][y] = ShrunkRight(U, DeleteAux[U.right][y])
        BY <2>1, <2>3, <3>5, DeleteStep
      <4> QED
        BY <2>1, <2>3, <3>2, <3>5, <4>1, ShrunkRightGood
    <3>6. CASE U.value[Cmp] = y /\ U.left = Nil
      <4>1. DeleteAux[U][y] = U.right
        BY <2>1, <2>3, <3>6, DeleteStep
      <4> QED
        BY <2>1, <2>3, <3>6, <4>1, UnlinkedGood
    <3>7. CASE U.value[Cmp] = y /\ U.left # Nil
      <4> DEFINE l == DeleteAux[U.left][GetMax[U.left][Cmp]]
      <4>1. DeleteAux[U][y] = Replaced(U, GetMax[U.left], l)
        BY <2>1, <2>3, <3>7, DeleteStep
      <4>2. GetMax[U.left][Cmp] \in Nat
        <5>1. GetMax[U.left] \in Value
          BY <3>1, <3>7, GetMaxIsLargest, ContentType DEF Good
        <5> QED
          BY <5>1, KeyType
      <4>3. GoodOf(l, Without(Content(U.left), GetMax[U.left][Cmp]))
        BY <3>2, <4>2
      <4> HIDE DEF l
      <4> QED
        BY <2>1, <2>3, <3>7, <4>1, <4>3, MovedUpGood
    <3> QED
      BY <3>3, <3>4, <3>5, <3>6, <3>7
  <2> QED
    BY <2>2, <2>3
<1>2. G \in SUBSET AnyTree
  OBVIOUS
<1>3. AnyTree = G
  <2> HIDE DEF G
  <2> QED
    BY <1>1, <1>2, TreeInduction
<1> QED
  BY <1>3, TreeIsAny

-----------------------------------------------------------------------------
(* How large a tree is. *)

(* The keys of the values of a tree. *)
KeysIn(T) == {w[Cmp] : w \in Content(T)}

(* The keys below a node are other keys than its own, and it is higher and  *)
(* deeper than its subtrees by no more than one: a good tree has as many    *)
(* keys as it is high or deep at least.                                     *)
LEMMA GoodSize ==
  ASSUME NEW T, Good(T)
  PROVE  /\ IsFiniteSet(KeysIn(T)) /\ KeysIn(T) \subseteq Keys
         /\ Depth(T) <= Cardinality(KeysIn(T)) /\ Height(T) <= Cardinality(KeysIn(T))
<1> DEFINE Sized(U) == /\ IsFiniteSet(KeysIn(U))
                       /\ Depth(U) <= Cardinality(KeysIn(U)) /\ Height(U) <= Cardinality(KeysIn(U))
           G == {U \in AnyTree : Good(U) => Sized(U)}
<1>1. ASSUME NEW U \in AnyTree, U # Nil => U.left \in G /\ U.right \in G
      PROVE  U \in G
  <2>1. SUFFICES ASSUME Good(U) PROVE Sized(U)
    OBVIOUS
  <2>2. CASE U = Nil
    <3>1. KeysIn(U) = {} /\ Height(U) = 0
      BY <2>2, NilGood DEF KeysIn
    <3>2. Depth(U) <= 0
      <4>1. U \in Trees[0]
        BY <2>2, TreesUnfold
      <4> QED
        BY <4>1, DepthIsLeast
    <3> QED
      BY <3>1, <3>2, FS_EmptySet
  <2>3. CASE U # Nil
    <3> DEFINE l == U.left
               r == U.right
               k == U.value[Cmp]
    <3>1. /\ U.value \in Value /\ Good(l) /\ Good(r) /\ Between(l, U.value, r)
          /\ Content(U) = Content(l) \cup {U.value} \cup Content(r)
          /\ Height(U) = 1 + Larger(Height(l), Height(r))
      BY <2>1, <2>3, GoodNode
    <3>2. Sized(l) /\ Sized(r)
      BY <1>1, <2>3, <3>1
    <3>3. KeysIn(U) = KeysIn(l) \cup {k} \cup KeysIn(r)
      BY <3>1 DEF KeysIn
    <3>4. k \notin KeysIn(l) /\ k \notin KeysIn(r)
      <4>1. ASSUME NEW w \in Content(l) PROVE w[Cmp] # k
        BY <3>1, <4>1, ContentType, KeyType DEF Between, Good
      <4>2. ASSUME NEW w \in Content(r) PROVE w[Cmp] # k
        BY <3>1, <4>2, ContentType, KeyType DEF Between, Good
      <4> QED
        BY <4>1, <4>2 DEF KeysIn
    <3>5. /\ l \in AnyTree /\ r \in AnyTree
          /\ Height(l) \in Nat /\ Height(r) \in Nat /\ Depth(l) \in Nat /\ Depth(r) \in Nat
      BY <3>1, HeightType, DepthIsLeast DEF Good
    <3>6. Depth(U) \in Nat /\ Depth(U) <= 1 + Larger(Depth(l), Depth(r))
      <4> DEFINE m == Larger(Depth(l), Depth(r))
      <4>1. m \in Nat /\ Depth(l) <= m /\ Depth(r) <= m
        BY <3>5 DEF Larger
      <4> HIDE DEF m
      <4>2. l \in Trees[m] /\ r \in Trees[m]
        BY <3>5, <4>1, DepthIsLeast, TreesGrow
      <4>3. U \in Nodes(AnyTree)
        BY <2>3, AnyTreeNode
      <4>4. U \in Nodes(Trees[m])
        BY <4>2, <4>3, NodeShape DEF Nodes
      <4>5. m + 1 \in Nat /\ m + 1 # 0 /\ (m + 1) - 1 = m
        BY <4>1
      <4>6. U \in Trees[m + 1]
        BY <4>4, <4>5, TreesUnfold
      <4>7. Depth(U) \in Nat /\ Depth(U) <= m + 1
        BY <4>5, <4>6, DepthIsLeast
      <4> QED
        BY <4>1, <4>7 DEF m
    <3> HIDE DEF l, r, k
    <3>7. /\ IsFiniteSet(KeysIn(l) \cup {k}) /\ Cardinality(KeysIn(l) \cup {k}) = Cardinality(KeysIn(l)) + 1
          /\ IsFiniteSet(KeysIn(r) \cup {k}) /\ Cardinality(KeysIn(r) \cup {k}) = Cardinality(KeysIn(r)) + 1
      BY <3>2, <3>4, FS_AddElement
    <3>8. IsFiniteSet(KeysIn(U))
      <4>1. IsFiniteSet((KeysIn(l) \cup {k}) \cup KeysIn(r))
        BY <3>2, <3>7, FS_Union
      <4> QED
        BY <3>3, <4>1
    <3>9. /\ Cardinality(KeysIn(U)) \in Nat
          /\ Cardinality(KeysIn(l)) \in Nat /\ Cardinality(KeysIn(r)) \in Nat
      BY <3>2, <3>8, FS_CardinalityType
    <3>10. Cardinality(KeysIn(l)) + 1 <= Cardinality(KeysIn(U))
      BY <3>3, <3>7, <3>8, FS_Subset
    <3>11. Cardinality(KeysIn(r)) + 1 <= Cardinality(KeysIn(U))
      BY <3>3, <3>7, <3>8, FS_Subset
    <3> QED
      BY <3>1, <3>2, <3>5, <3>6, <3>8, <3>9, <3>10, <3>11 DEF Larger
  <2> QED
    BY <2>2, <2>3
<1>2. G \in SUBSET AnyTree
  OBVIOUS
<1>3. AnyTree = G
  <2> HIDE DEF G
  <2> QED
    BY <1>1, <1>2, TreeInduction
<1>4. KeysIn(T) \subseteq Keys
  BY ContentType DEF KeysIn, Keys, Good
<1> QED
  BY <1>3, <1>4 DEF Good

(* The keys of a node are its own and those of its subtrees, no one twice. *)
LEMMA NodeSize ==
  ASSUME NEW T, Good(T), T # Nil
  PROVE  /\ Cardinality(KeysIn(T)) = Cardinality(KeysIn(T.left)) + 1 + Cardinality(KeysIn(T.right))
         /\ Cardinality(KeysIn(T.left)) \in Nat /\ Cardinality(KeysIn(T.right)) \in Nat
<1> DEFINE l == T.left
           r == T.right
           k == T.value[Cmp]
<1>1. /\ T.value \in Value /\ Good(l) /\ Good(r) /\ Between(l, T.value, r)
      /\ Content(T) = Content(l) \cup {T.value} \cup Content(r)
  BY GoodNode
<1>2. /\ \A w \in Content(l) : w \in Value /\ w[Cmp] \in Nat /\ w[Cmp] < k
      /\ \A w \in Content(r) : w \in Value /\ w[Cmp] \in Nat /\ k < w[Cmp]
      /\ k \in Nat
  BY <1>1, ContentType, KeyType DEF Between, Good
<1>3. KeysIn(T) = (KeysIn(l) \cup {k}) \cup KeysIn(r)
  BY <1>1 DEF KeysIn
<1>4. k \notin KeysIn(l) /\ (KeysIn(l) \cup {k}) \cap KeysIn(r) = {}
  <2>1. /\ \A x \in KeysIn(l) : x \in Nat /\ x < k
        /\ \A x \in KeysIn(r) : x \in Nat /\ k < x
    BY <1>2 DEF KeysIn
  <2> QED
    BY <1>2, <2>1
<1>5. IsFiniteSet(KeysIn(l)) /\ IsFiniteSet(KeysIn(r))
  BY <1>1, GoodSize
<1> HIDE DEF l, r, k
<1>6. /\ IsFiniteSet(KeysIn(l) \cup {k})
      /\ Cardinality(KeysIn(l) \cup {k}) = Cardinality(KeysIn(l)) + 1
  BY <1>4, <1>5, FS_AddElement
<1>7. Cardinality(KeysIn(T)) = Cardinality(KeysIn(l) \cup {k}) + Cardinality(KeysIn(r))
                               - Cardinality((KeysIn(l) \cup {k}) \cap KeysIn(r))
  BY <1>3, <1>5, <1>6, FS_Union
<1>8. Cardinality((KeysIn(l) \cup {k}) \cap KeysIn(r)) = 0
  BY <1>4, FS_EmptySet
<1>9. Cardinality(KeysIn(l)) \in Nat /\ Cardinality(KeysIn(r)) \in Nat
  BY <1>5, FS_CardinalityType
<1> QED
  BY <1>6, <1>7, <1>8, <1>9 DEF l, r

(* No good tree is too deep for the functions to be defined on it. *)
THEOREM GoodInTree == ASSUME NEW T, Good(T) PROVE T \in Tree
<1>1. /\ KeysIn(T) \subseteq Keys /\ Depth(T) <= Cardinality(KeysIn(T)) /\ IsFiniteSet(KeysIn(T))
      /\ Depth(T) \in Nat /\ T \in Trees[Depth(T)]
  BY GoodSize, DepthIsLeast DEF Good
<1>2. Cardinality(KeysIn(T)) \in Nat /\ Cardinality(KeysIn(T)) <= MaxDepth /\ MaxDepth \in Nat
  <2>1. Cardinality(KeysIn(T)) <= Cardinality(Keys) /\ IsFiniteSet(Keys)
    BY <1>1, TreeAssumption, FS_Subset
  <2> QED
    BY <1>1, <2>1, TreeAssumption, FS_CardinalityType
<1>3. Depth(T) <= MaxDepth
  BY <1>1, <1>2
<1>4. Trees[Depth(T)] \subseteq Trees[MaxDepth]
  BY <1>1, <1>2, <1>3, TreesGrow
<1> QED
  BY <1>1, <1>4 DEF Tree

-----------------------------------------------------------------------------
(* Searches. *)

(* The field f orders the values C as the keys do. *)
Agrees(C, f) == \A v, w \in C : v[Cmp] < w[Cmp] => v[f] < w[f]

(* avl_search_aux, one call. *)
LEMMA SearchStep ==
  ASSUME NEW T \in Tree, NEW f \in Fields, NEW x \in Nat
  PROVE  SearchAux[T][f][x] = IF T = Nil THEN Nil
                              ELSE IF T.value[f] = x THEN T.value
                              ELSE SearchAux[Toward(T, x, f)][f][x]
<1>1. SearchAux[T] = SearchDef(SearchAux, T)
  BY SearchUnfold
<1>2. SearchAux[T][f] = [y \in Nat |->
        IF T = Nil THEN Nil
        ELSE IF T.value[f] = y THEN T.value
        ELSE SearchAux[Toward(T, y, f)][f][y]]
  BY <1>1 DEF SearchDef
<1> QED
  BY <1>2

(* A search by a field that orders the values of the tree as its keys do    *)
(* finds the value it looks for if it is there, and otherwise nothing.      *)
THEOREM SearchGood ==
  ASSUME NEW T, Good(T), NEW f \in Fields, Agrees(Content(T), f), NEW x \in Nat
  PROVE  \/ SearchAux[T][f][x] \in Content(T) /\ SearchAux[T][f][x][f] = x
         \/ SearchAux[T][f][x] = Nil /\ \A w \in Content(T) : w[f] # x
<1> DEFINE Right(U) == \/ SearchAux[U][f][x] \in Content(U) /\ SearchAux[U][f][x][f] = x
                       \/ SearchAux[U][f][x] = Nil /\ \A w \in Content(U) : w[f] # x
           G == {U \in AnyTree : Good(U) /\ Agrees(Content(U), f) => Right(U)}
<1>1. ASSUME NEW U \in AnyTree, U # Nil => U.left \in G /\ U.right \in G
      PROVE  U \in G
  <2>1. SUFFICES ASSUME Good(U), Agrees(Content(U), f) PROVE Right(U)
    OBVIOUS
  <2>2. U \in Tree
    BY <2>1, GoodInTree
  <2>3. CASE U = Nil
    BY <2>2, <2>3, SearchStep, NilGood
  <2>4. CASE U # Nil
    <3>1. /\ U.value \in Value /\ Good(U.left) /\ Good(U.right) /\ Between(U.left, U.value, U.right)
          /\ Content(U) = Content(U.left) \cup {U.value} \cup Content(U.right)
      BY <2>1, <2>4, GoodNode
    <3>2. Right(U.left) /\ Right(U.right)
      BY <1>1, <2>1, <2>4, <3>1 DEF Agrees
    <3>3. /\ \A w \in Content(U.left) : w[f] < U.value[f] /\ w[f] \in Nat
          /\ \A w \in Content(U.right) : U.value[f] < w[f] /\ w[f] \in Nat
          /\ U.value[f] \in Nat
      <4>1. \A w \in Value : w[f] \in Nat
        BY TreeAssumption
      <4> QED
        BY <2>1, <3>1, <4>1, ContentType DEF Agrees, Between, Good
    <3>4. CASE U.value[f] = x
      BY <2>2, <2>4, <3>1, <3>4, SearchStep
    <3>5. CASE U.value[f] > x
      <4>1. SearchAux[U][f][x] = SearchAux[U.left][f][x]
        BY <2>2, <2>4, <3>3, <3>5, SearchStep DEF Toward
      <4>2. \A w \in Content(U.right) \cup {U.value} : w[f] # x
        BY <3>3, <3>5
      <4> QED
        BY <3>1, <3>2, <4>1, <4>2
    <3>6. CASE U.value[f] < x
      <4>1. SearchAux[U][f][x] = SearchAux[U.right][f][x]
        BY <2>2, <2>4, <3>3, <3>6, SearchStep DEF Toward
      <4>2. \A w \in Content(U.left) \cup {U.value} : w[f] # x
        BY <3>3, <3>6
      <4> QED
        BY <3>1, <3>2, <4>1, <4>2
    <3> QED
      BY <3>3, <3>4, <3>5, <3>6
  <2> QED
    BY <2>3, <2>4
<1>2. G \in SUBSET AnyTree
  OBVIOUS
<1>3. AnyTree = G
  <2> HIDE DEF G
  <2> QED
    BY <1>1, <1>2, TreeInduction
<1> QED
  BY <1>3 DEF Good

-----------------------------------------------------------------------------
(* Listing. *)

(* The elements of two sequences put together. *)
LEMMA RangeOfConcat ==
  ASSUME NEW X, NEW s \in Seq(X), NEW t \in Seq(X)
  PROVE  /\ s \o t \in Seq(X) /\ Len(s \o t) = Len(s) + Len(t)
         /\ Range(s \o t) = Range(s) \cup Range(t)
<1>1. s \o t \in Seq(X) /\ Len(s \o t) = Len(s) + Len(t)
  OBVIOUS
<1>2. /\ DOMAIN s = 1..Len(s) /\ DOMAIN t = 1..Len(t) /\ DOMAIN (s \o t) = 1..(Len(s) + Len(t))
      /\ Len(s) \in Nat /\ Len(t) \in Nat
  OBVIOUS
<1>3. ASSUME NEW i \in DOMAIN (s \o t) PROVE (s \o t)[i] \in Range(s) \cup Range(t)
  <2>1. CASE i <= Len(s)
    <3>1. i \in DOMAIN s /\ (s \o t)[i] = s[i]
      BY <1>2, <2>1
    <3> QED
      BY <3>1 DEF Range
  <2>2. CASE i > Len(s)
    <3>1. i - Len(s) \in DOMAIN t /\ (s \o t)[i] = t[i - Len(s)]
      BY <1>2, <2>2
    <3> QED
      BY <3>1 DEF Range
  <2> QED
    BY <1>2, <2>1, <2>2
<1>4. ASSUME NEW i \in DOMAIN s PROVE s[i] \in Range(s \o t)
  <2>1. i \in DOMAIN (s \o t) /\ (s \o t)[i] = s[i]
    BY <1>2
  <2> QED
    BY <2>1 DEF Range
<1>5. ASSUME NEW i \in DOMAIN t PROVE t[i] \in Range(s \o t)
  <2>1. i + Len(s) \in DOMAIN (s \o t) /\ (s \o t)[i + Len(s)] = t[i]
    BY <1>2
  <2> QED
    BY <2>1 DEF Range
<1> QED
  BY <1>1, <1>3, <1>4, <1>5 DEF Range

(* The values of a tree in order: each one that is held, and each once. *)
THEOREM InOrderGood ==
  ASSUME NEW T, Good(T)
  PROVE  /\ InOrder[T] \in Seq(Value) /\ Range(InOrder[T]) = Content(T)
         /\ Len(InOrder[T]) = Cardinality(KeysIn(T))
<1> DEFINE Listed(U) == /\ InOrder[U] \in Seq(Value) /\ Range(InOrder[U]) = Content(U)
                        /\ Len(InOrder[U]) = Cardinality(KeysIn(U))
           G == {U \in AnyTree : Good(U) => Listed(U)}
<1>1. ASSUME NEW U \in AnyTree, U # Nil => U.left \in G /\ U.right \in G
      PROVE  U \in G
  <2>1. SUFFICES ASSUME Good(U) PROVE Listed(U)
    OBVIOUS
  <2>2. InOrder[U] = IF U = Nil THEN <<>> ELSE InOrder[U.left] \o <<U.value>> \o InOrder[U.right]
    <3>1. U \in Tree
      BY <2>1, GoodInTree
    <3> QED
      BY <3>1, InOrderUnfold DEF InOrderDef
  <2>3. CASE U = Nil
    <3>1. Content(U) = {} /\ KeysIn(U) = {}
      BY <2>3, NilGood DEF KeysIn
    <3>2. InOrder[U] = <<>> /\ Range(<<>>) = {} /\ Len(<<>>) = 0 /\ <<>> \in Seq(Value)
      BY <2>2, <2>3 DEF Range
    <3> QED
      BY <3>1, <3>2, FS_EmptySet
  <2>4. CASE U # Nil
    <3> DEFINE l == U.left
               r == U.right
    <3>1. /\ U.value \in Value /\ Good(l) /\ Good(r)
          /\ Content(U) = Content(l) \cup {U.value} \cup Content(r)
      BY <2>1, <2>4, GoodNode
    <3>2. Listed(l) /\ Listed(r)
      BY <1>1, <2>4, <3>1
    <3> DEFINE one == <<U.value>>
               a == InOrder[l]
               b == InOrder[r]
               c == a \o one
    <3>3. one \in Seq(Value) /\ Range(one) = {U.value} /\ Len(one) = 1
      BY <3>1 DEF Range
    <3>a. a \in Seq(Value) /\ b \in Seq(Value) /\ InOrder[U] = c \o b
      BY <2>2, <2>4, <3>2
    <3> HIDE DEF one, a, b
    <3>c. c \in Seq(Value) /\ Len(c) = Len(a) + Len(one) /\ Range(c) = Range(a) \cup Range(one)
      BY <3>3, <3>a, RangeOfConcat
    <3>4. c \in Seq(Value) /\ Len(c) = Len(a) + 1 /\ Range(c) = Range(a) \cup {U.value}
      BY <3>3, <3>c
    <3> HIDE DEF c
    <3>b. InOrder[U] \in Seq(Value) /\ Len(InOrder[U]) = Len(c) + Len(b) /\ Range(InOrder[U]) = Range(c) \cup Range(b)
      BY <3>a, <3>4, RangeOfConcat
    <3>5. /\ InOrder[U] \in Seq(Value)
          /\ Range(InOrder[U]) = Content(l) \cup {U.value} \cup Content(r)
          /\ Len(InOrder[U]) = Cardinality(KeysIn(l)) + 1 + Cardinality(KeysIn(r))
      BY <3>2, <3>4, <3>b DEF a, b
    <3>6. /\ Cardinality(KeysIn(U)) = Cardinality(KeysIn(l)) + 1 + Cardinality(KeysIn(r))
      BY <2>1, <2>4, NodeSize
    <3> QED
      BY <3>1, <3>5, <3>6
  <2> QED
    BY <2>3, <2>4
<1>2. G \in SUBSET AnyTree
  OBVIOUS
<1>3. AnyTree = G
  <2> HIDE DEF G
  <2> QED
    BY <1>1, <1>2, TreeInduction
<1> QED
  BY <1>3 DEF Good

(* The values that are listed are those the tree holds. *)
LEMMA ValuesAreContent == ASSUME NEW T, Good(T) PROVE Values(T) = Content(T)
BY InOrderGood DEF Values

-----------------------------------------------------------------------------
(* When a null pointer is followed. *)

(* A deletion rotates a side that is two nodes high at least, and the node  *)
(* a rotation needs is there.                                               *)
LEMMA ShrunkLeftSafe ==
  ASSUME NEW T, Good(T), T # Nil, NEW l, Good(l), Between(l, T.value, T.right)
  PROVE  ShrunkLeft(T, l) # Crash
<1> DEFINE n == Node(T.value, l, T.right)
<1>1. /\ T.value \in Value /\ Good(T.right) /\ l # Crash
      /\ Height(l) \in Nat /\ Height(T.right) \in Nat
  BY GoodNode, HeightType DEF Good
<1>2. n # Crash
  BY <1>1, NodeGood
<1>3. BalanceRight(n) = Crash => Height(T.right) < 2
  BY <1>1, BalanceRightGood, RearrangedIsTree
<1> HIDE DEF n
<1>4. CASE Height(l) < Height(T.right) - 1
  BY <1>1, <1>3, <1>4 DEF ShrunkLeft, n
<1>5. CASE ~ (Height(l) < Height(T.right) - 1)
  BY <1>1, <1>2, <1>5 DEF ShrunkLeft, n
<1> QED
  BY <1>4, <1>5

(* Nor does it if it was deleted from on the right. *)
LEMMA ShrunkRightSafe ==
  ASSUME NEW T, Good(T), T # Nil, NEW r, Good(r), Between(T.left, T.value, r)
  PROVE  ShrunkRight(T, r) # Crash
<1> DEFINE n == Node(T.value, T.left, r)
<1>1. /\ T.value \in Value /\ Good(T.left) /\ r # Crash
      /\ Height(r) \in Nat /\ Height(T.left) \in Nat
  BY GoodNode, HeightType DEF Good
<1>2. n # Crash
  BY <1>1, NodeGood
<1>3. BalanceLeft(n) = Crash => Height(T.left) < 2
  BY <1>1, BalanceLeftGood, RearrangedIsTree
<1> HIDE DEF n
<1>4. CASE Height(r) < Height(T.left) - 1
  BY <1>1, <1>3, <1>4 DEF ShrunkRight, n
<1>5. CASE ~ (Height(r) < Height(T.left) - 1)
  BY <1>1, <1>2, <1>5 DEF ShrunkRight, n
<1> QED
  BY <1>4, <1>5

(* A deletion from a good tree, balanced or not, never follows a null       *)
(* pointer: what can is an insertion afterwards.                            *)
THEOREM DeleteNeverCrashes ==
  ASSUME NEW T, Good(T), NEW x \in Nat
  PROVE  /\ DeleteAux[T][x] # Crash /\ Good(DeleteAux[T][x])
         /\ Content(DeleteAux[T][x]) = Without(Content(T), x)
<1> DEFINE G == {U \in AnyTree : Good(U) => \A y \in Nat : DeleteAux[U][y] # Crash}
<1>1. ASSUME NEW U \in AnyTree, U # Nil => U.left \in G /\ U.right \in G
      PROVE  U \in G
  <2>1. SUFFICES ASSUME Good(U), NEW y \in Nat PROVE DeleteAux[U][y] # Crash
    OBVIOUS
  <2>2. U \in Tree
    BY <2>1, GoodInTree
  <2>3. CASE U = Nil
    BY <2>2, <2>3, DeleteStep, NilGood
  <2>4. CASE U # Nil
    <3>1. /\ U.left \in Tree /\ U.right \in Tree /\ Good(U.left) /\ Good(U.right)
          /\ U.value \in Value /\ U.value[Cmp] \in Nat /\ Between(U.left, U.value, U.right)
      BY <2>1, <2>2, <2>4, Subtrees, GoodNode, KeyType
    <3>2. \A z \in Nat : DeleteAux[U.left][z] # Crash /\ DeleteAux[U.right][z] # Crash
      BY <1>1, <2>4, <3>1
    <3>3. \A z \in Nat : /\ Good(DeleteAux[U.left][z]) /\ Good(DeleteAux[U.right][z])
                         /\ Between(DeleteAux[U.left][z], U.value, DeleteAux[U.right][z])
                         /\ Between(DeleteAux[U.left][z], U.value, U.right)
                         /\ Between(U.left, U.value, DeleteAux[U.right][z])
      <4>1. ASSUME NEW z \in Nat
            PROVE  /\ Good(DeleteAux[U.left][z]) /\ Content(DeleteAux[U.left][z]) = Without(Content(U.left), z)
                   /\ Good(DeleteAux[U.right][z]) /\ Content(DeleteAux[U.right][z]) = Without(Content(U.right), z)
        BY <3>1, <3>2, DeleteGood DEF GoodOf
      <4> QED
        BY <3>1, <4>1 DEF Between, Without
    <3>4. CASE y < U.value[Cmp]
      BY <2>1, <2>2, <2>4, <3>3, <3>4, DeleteStep, ShrunkLeftSafe
    <3>5. CASE U.value[Cmp] < y
      BY <2>1, <2>2, <2>4, <3>3, <3>5, DeleteStep, ShrunkRightSafe
    <3>6. CASE U.value[Cmp] = y /\ U.left = Nil
      <4>1. DeleteAux[U][y] = U.right
        BY <2>1, <2>2, <2>4, <3>6, DeleteStep
      <4> QED
        BY <3>1, <4>1, HeightType DEF Good
    <3>7. CASE U.value[Cmp] = y /\ U.left # Nil
      <4> DEFINE m == GetMax[U.left]
                 l == DeleteAux[U.left][m[Cmp]]
      <4>1. m \in Content(U.left) /\ m \in Value /\ m[Cmp] \in Nat
        BY <3>1, <3>7, GetMaxIsLargest, ContentType, KeyType DEF Good
      <4>2. DeleteAux[U][y] = Replaced(U, m, l)
        BY <2>1, <2>2, <2>4, <3>7, DeleteStep
      <4>3. l # Crash
        BY <3>2, <4>1
      <4>4. Replaced(U, m, l) # Crash
        <5> HIDE DEF l, m
        <5>1. Replaced(U, m, l) = [value |-> m, height |-> 1 + Larger(Height(l), Height(U.right)),
                                   left |-> l, right |-> U.right]
          BY <4>3 DEF Replaced, TakeMax, Node
        <5>2. DOMAIN Replaced(U, m, l) = {"value", "height", "left", "right"} /\ DOMAIN Crash = {"pointer"}
          BY <5>1 DEF Crash
        <5> QED
          BY <5>2
      <4> QED
        BY <4>2, <4>4
    <3> QED
      BY <2>1, <3>1, <3>4, <3>5, <3>6, <3>7
  <2> QED
    BY <2>3, <2>4
<1>2. G \in SUBSET AnyTree
  OBVIOUS
<1>3. AnyTree = G
  <2> HIDE DEF G
  <2> QED
    BY <1>1, <1>2, TreeInduction
<1>4. DeleteAux[T][x] # Crash
  BY <1>3 DEF Good
<1> QED
  BY <1>4, GoodInTree, DeleteGood DEF GoodOf

(* A node is balanced if its subtrees are and are about as high. *)
LEMMA NodeBalanced ==
  ASSUME NEW v \in Value, NEW l, NEW r, Good(l), Good(r), Between(l, v, r),
         Balanced(l), Balanced(r), Height(l) <= Height(r) + 1, Height(r) <= Height(l) + 1
  PROVE  Balanced(Node(v, l, r))
<1> DEFINE n == Node(v, l, r)
<1>1. n \in AnyTree /\ n # Nil /\ n.left = l /\ n.right = r
  BY NodeGood DEF Good
<1>2. Height(l) \in Nat /\ Height(r) \in Nat
  BY HeightType DEF Good
<1> HIDE DEF n
<1>3. BalanceFactor(n) <= 1
  BY <1>1, <1>2 DEF BalanceFactor, Abs
<1>4. Balanced(n)
  BY <1>1, <1>3, AtNode
<1> QED
  BY <1>4 DEF n

(* The root of a balanced tree and its subtrees. *)
LEMMA BalancedNode ==
  ASSUME NEW T, Good(T), Balanced(T), T # Nil
  PROVE  /\ Balanced(T.left) /\ Balanced(T.right)
         /\ Height(T.left) <= Height(T.right) + 1 /\ Height(T.right) <= Height(T.left) + 1
<1>1. /\ T \in AnyTree /\ Height(T.left) \in Nat /\ Height(T.right) \in Nat
  BY GoodNode, HeightType DEF Good
<1>2. BalanceFactor(T) <= 1 /\ Balanced(T.left) /\ Balanced(T.right)
  BY <1>1, AtNode
<1> QED
  BY <1>1, <1>2 DEF BalanceFactor, Abs

(* The rotations of a left side that is two higher and leans to one side:    *)
(* the tree is as high as it was before that side grew.                     *)
LEMMA BalanceLeftBalances ==
  ASSUME NEW v \in Value, NEW l, NEW r, Good(l), Good(r), Between(l, v, r),
         Balanced(l), Balanced(r),
         Height(l) = Height(r) + 2, Height(l.left) # Height(l.right)
  PROVE  LET R == BalanceLeft(Node(v, l, r))
         IN  Balanced(R) /\ R # Crash /\ Height(R) = Height(l)
<1> DEFINE n == Node(v, l, r)
           h == Height(r)
           near == l.left
           far == l.right
<1>1. /\ n.left = l /\ n.value = v /\ n.right = r /\ n # Nil
      /\ n = [value |-> v, height |-> n.height, left |-> l, right |-> r]
  BY NodeGood DEF Node
<1>2. l # Nil /\ h \in Nat /\ Height(l) = h + 2
  BY NilGood, HeightType DEF Good
<1>3. /\ l.value \in Value /\ Good(near) /\ Good(far) /\ Balanced(near) /\ Balanced(far)
      /\ Between(near, l.value, far)
      /\ Height(near) \in Nat /\ Height(far) \in Nat /\ Height(near) # Height(far)
      /\ Height(l) = 1 + Larger(Height(near), Height(far))
      /\ Height(near) <= Height(far) + 1 /\ Height(far) <= Height(near) + 1
      /\ Content(l) = Content(near) \cup {l.value} \cup Content(far)
  BY <1>2, GoodNode, BalancedNode, HeightType DEF Good, Larger
<1>4. \A w \in Content(l) : w[Cmp] < v[Cmp]
  BY DEF Between
<1> HIDE DEF n, h
<1>5. CASE Height(near) > Height(far)
  <2> DEFINE m == Node(v, far, r)
             R == Node(l.value, near, m)
  <2>1. Height(near) = h + 1 /\ Height(far) = h
    BY <1>2, <1>3, <1>5 DEF Larger
  <2>2. Between(far, v, r)
    BY <1>3, <1>4 DEF Between
  <2>3. Good(m) /\ Height(m) = h + 1 /\ Balanced(m) /\ Content(m) = Content(far) \cup {v} \cup Content(r)
    <3> HIDE DEF near, far
    <3>1. Good(m) /\ Height(m) = 1 + Larger(h, h) /\ Content(m) = Content(far) \cup {v} \cup Content(r)
      BY <1>3, <2>1, <2>2, NodeGood DEF h
    <3>2. Balanced(m)
      BY <1>2, <1>3, <2>1, <2>2, NodeBalanced DEF h
    <3> QED
      BY <1>2, <3>1, <3>2 DEF Larger
  <2>4. Between(near, l.value, m)
    <3>1. Rearranged(n, SimpleRotLeft(n))
      BY <1>1, <1>2, NodeJoins, RotLeftGood DEF n
    <3>2. SimpleRotLeft(n) = R
      BY <1>1, <1>2 DEF SimpleRotLeft
    <3>3. R \in AnyTree /\ R # Nil /\ R.value = l.value /\ R.left = near /\ R.right = m
      BY <3>1, <3>2 DEF Rearranged, Good, Node
    <3>4. Between(R.left, R.value, R.right)
      BY <3>1, <3>2, <3>3, GoodNode DEF Rearranged
    <3> QED
      BY <3>3, <3>4
  <2>5. BalanceLeft(n) = R
    BY <1>1, <1>2, <1>5 DEF BalanceLeft, SimpleRotLeft
  <2> HIDE DEF m, near, far
  <2>6. Balanced(R)
    BY <1>2, <1>3, <2>1, <2>3, <2>4, NodeBalanced
  <2>7. R # Crash /\ Height(R) = 1 + Larger(h + 1, h + 1)
    BY <1>3, <2>1, <2>3, <2>4, NodeGood
  <2> HIDE DEF R
  <2> QED
    BY <1>2, <2>5, <2>6, <2>7 DEF Larger, n
<1>6. CASE Height(near) < Height(far)
  <2> DEFINE a == far.left
             b == far.right
             c == Node(l.value, near, a)
             k == Node(far.value, c, b)
             w == [n EXCEPT !.left = k]
             m == Node(v, b, r)
             R == Node(far.value, c, m)
  <2>1. Height(far) = h + 1 /\ Height(near) = h /\ far # Nil
    BY <1>2, <1>3, <1>6, NilGood DEF Larger
  <2>2. /\ far.value \in Value /\ Good(a) /\ Good(b) /\ Balanced(a) /\ Balanced(b)
        /\ Between(a, far.value, b)
        /\ Height(a) \in Nat /\ Height(b) \in Nat /\ Height(a) <= h /\ Height(b) <= h
        /\ h <= Height(a) + 1 /\ h <= Height(b) + 1
        /\ Content(far) = Content(a) \cup {far.value} \cup Content(b)
    <3> HIDE DEF near, far
    <3>1. /\ far.value \in Value /\ Good(a) /\ Good(b) /\ Balanced(a) /\ Balanced(b)
          /\ Between(a, far.value, b)
          /\ Height(far) = 1 + Larger(Height(a), Height(b))
          /\ Height(a) <= Height(b) + 1 /\ Height(b) <= Height(a) + 1
          /\ Content(far) = Content(a) \cup {far.value} \cup Content(b)
      BY <1>3, <2>1, GoodNode, BalancedNode DEF Larger
    <3>2. Height(a) \in Nat /\ Height(b) \in Nat
      BY <3>1, HeightType DEF Good
    <3> QED
      BY <1>2, <2>1, <3>1, <3>2 DEF Larger
  <2>3. /\ \A x \in Content(near) : x \in Value
        /\ \A x \in Content(a) : x \in Value
        /\ \A x \in Content(b) : x \in Value
        /\ \A x \in Content(r) : x \in Value
    BY <1>3, <2>2, ContentType DEF Good
  <2>4. l.value[Cmp] < far.value[Cmp] /\ far.value[Cmp] < v[Cmp]
    BY <1>3, <1>4, <2>2 DEF Between
  <2> HIDE DEF near, far, a, b
  <2>5. Between(near, l.value, a) /\ Between(b, v, r)
    BY <1>3, <1>4, <2>2 DEF Between
  <2>6. Good(c) /\ Balanced(c) /\ Height(c) = h + 1 /\ Content(c) = Content(near) \cup {l.value} \cup Content(a)
    <3>1. Good(c) /\ Height(c) = 1 + Larger(Height(near), Height(a)) /\ Content(c) = Content(near) \cup {l.value} \cup Content(a)
      BY <1>3, <2>2, <2>5, NodeGood
    <3>2. Balanced(c)
      BY <1>2, <1>3, <2>1, <2>2, <2>5, NodeBalanced
    <3> QED
      BY <1>2, <2>1, <2>2, <3>1, <3>2 DEF Larger
  <2>7. Good(m) /\ Balanced(m) /\ Height(m) = h + 1 /\ Content(m) = Content(b) \cup {v} \cup Content(r)
    <3>1. Good(m) /\ Height(m) = 1 + Larger(Height(b), Height(r)) /\ Content(m) = Content(b) \cup {v} \cup Content(r)
      BY <1>3, <2>2, <2>5, NodeGood
    <3>2. Balanced(m)
      BY <1>2, <1>3, <2>1, <2>2, <2>5, NodeBalanced DEF h
    <3> QED
      BY <1>2, <2>1, <2>2, <3>1, <3>2 DEF Larger, h
  <2> HIDE DEF m, c
  <2>8. Between(c, far.value, m)
    <3>1. \A x \in Content(near) : x[Cmp] < l.value[Cmp]
      BY <1>3 DEF Between
    <3>2. \A x \in Content(near) : x[Cmp] < far.value[Cmp]
      BY <1>3, <2>2, <2>3, <2>4, <3>1, Transitive
    <3>3. \A x \in Content(r) : v[Cmp] < x[Cmp]
      BY DEF Between
    <3>4. \A x \in Content(r) : far.value[Cmp] < x[Cmp]
      BY <2>2, <2>3, <2>4, <3>3, Transitive
    <3> QED
      BY <2>2, <2>4, <2>6, <2>7, <3>2, <3>4 DEF Between
  <2>9. Balanced(R) /\ R # Crash /\ Height(R) = h + 2
    <3>1. Balanced(R)
      BY <1>2, <2>2, <2>6, <2>7, <2>8, NodeBalanced
    <3>2. R # Crash /\ Height(R) = 1 + Larger(h + 1, h + 1)
      BY <2>2, <2>6, <2>7, <2>8, NodeGood
    <3> HIDE DEF R
    <3> QED
      BY <1>2, <3>1, <3>2 DEF Larger
  <2>10. BalanceLeft(n) = R
    <3>1. SimpleRotRight(l) = k
      BY <1>2, <2>1 DEF SimpleRotRight, near, far, a, b, c
    <3>2. k # Nil /\ k # Crash /\ k.value = far.value /\ k.left = c /\ k.right = b
      <4>1. DOMAIN k = {"value", "height", "left", "right"} /\ DOMAIN Nil = {"pointer"} /\ DOMAIN Crash = {"pointer"}
        BY DEF Node, Nil, Crash
      <4>2. k # Nil /\ k # Crash
        BY <4>1
      <4> QED
        BY <4>2 DEF Node
    <3> HIDE DEF k
    <3>3. w = [value |-> v, height |-> n.height, left |-> k, right |-> r]
      BY <1>1
    <3>4. w # Nil /\ w.value = v /\ w.left = k /\ w.right = r
      <4>1. DOMAIN w = {"value", "height", "left", "right"} /\ DOMAIN Nil = {"pointer"}
        BY <3>3 DEF Nil
      <4> QED
        BY <3>3, <4>1
    <3>5. BalanceLeft(n) = DoubleRotLR(n)
      BY <1>1, <1>2, <1>3, <1>6 DEF BalanceLeft, near, far
    <3>6. DoubleRotLR(n) = SimpleRotLeft(w)
      BY <1>1, <3>1, <3>2 DEF DoubleRotLR
    <3> HIDE DEF w
    <3>7. SimpleRotLeft(w) = R
      BY <3>2, <3>4 DEF SimpleRotLeft, m
    <3> QED
      BY <3>5, <3>6, <3>7
  <2> HIDE DEF R
  <2> QED
    BY <1>2, <2>9, <2>10 DEF n
<1> QED
  BY <1>3, <1>5, <1>6

(* The rotations of a right side that is two higher and leans to one side:    *)
(* the tree is as high as it was before that side grew.                     *)
LEMMA BalanceRightBalances ==
  ASSUME NEW v \in Value, NEW l, NEW r, Good(l), Good(r), Between(l, v, r),
         Balanced(l), Balanced(r),
         Height(r) = Height(l) + 2, Height(r.left) # Height(r.right)
  PROVE  LET R == BalanceRight(Node(v, l, r))
         IN  Balanced(R) /\ R # Crash /\ Height(R) = Height(r)
<1> DEFINE n == Node(v, l, r)
           h == Height(l)
           near == r.right
           far == r.left
<1>1. /\ n.left = l /\ n.value = v /\ n.right = r /\ n # Nil
      /\ n = [value |-> v, height |-> n.height, left |-> l, right |-> r]
  BY NodeGood DEF Node
<1>2. r # Nil /\ h \in Nat /\ Height(r) = h + 2
  BY NilGood, HeightType DEF Good
<1>3. /\ r.value \in Value /\ Good(near) /\ Good(far) /\ Balanced(near) /\ Balanced(far)
      /\ Between(far, r.value, near)
      /\ Height(near) \in Nat /\ Height(far) \in Nat /\ Height(near) # Height(far)
      /\ Height(r) = 1 + Larger(Height(near), Height(far))
      /\ Height(near) <= Height(far) + 1 /\ Height(far) <= Height(near) + 1
      /\ Content(r) = Content(near) \cup {r.value} \cup Content(far)
  BY <1>2, GoodNode, BalancedNode, HeightType DEF Good, Larger
<1>4. \A w \in Content(r) : v[Cmp] < w[Cmp]
  BY DEF Between
<1> HIDE DEF n, h
<1>5. CASE Height(near) > Height(far)
  <2> DEFINE m == Node(v, l, far)
             R == Node(r.value, m, near)
  <2>1. Height(near) = h + 1 /\ Height(far) = h
    BY <1>2, <1>3, <1>5 DEF Larger
  <2>2. Between(l, v, far)
    BY <1>3, <1>4 DEF Between
  <2>3. Good(m) /\ Height(m) = h + 1 /\ Balanced(m) /\ Content(m) = Content(far) \cup {v} \cup Content(l)
    <3> HIDE DEF near, far
    <3>1. Good(m) /\ Height(m) = 1 + Larger(h, h) /\ Content(m) = Content(far) \cup {v} \cup Content(l)
      BY <1>3, <2>1, <2>2, NodeGood DEF h
    <3>2. Balanced(m)
      BY <1>2, <1>3, <2>1, <2>2, NodeBalanced DEF h
    <3> QED
      BY <1>2, <3>1, <3>2 DEF Larger
  <2>4. Between(m, r.value, near)
    <3>1. Rearranged(n, SimpleRotRight(n))
      BY <1>1, <1>2, NodeJoins, RotRightGood DEF n
    <3>2. SimpleRotRight(n) = R
      BY <1>1, <1>2 DEF SimpleRotRight
    <3>3. R \in AnyTree /\ R # Nil /\ R.value = r.value /\ R.right = near /\ R.left = m
      BY <3>1, <3>2 DEF Rearranged, Good, Node
    <3>4. Between(R.left, R.value, R.right)
      BY <3>1, <3>2, <3>3, GoodNode DEF Rearranged
    <3> QED
      BY <3>3, <3>4
  <2>5. BalanceRight(n) = R
    BY <1>1, <1>2, <1>5 DEF BalanceRight, SimpleRotRight
  <2> HIDE DEF m, near, far
  <2>6. Balanced(R)
    BY <1>2, <1>3, <2>1, <2>3, <2>4, NodeBalanced
  <2>7. R # Crash /\ Height(R) = 1 + Larger(h + 1, h + 1)
    BY <1>3, <2>1, <2>3, <2>4, NodeGood
  <2> HIDE DEF R
  <2> QED
    BY <1>2, <2>5, <2>6, <2>7 DEF Larger, n
<1>6. CASE Height(near) < Height(far)
  <2> DEFINE a == far.right
             b == far.left
             c == Node(r.value, a, near)
             k == Node(far.value, b, c)
             w == [n EXCEPT !.right = k]
             m == Node(v, l, b)
             R == Node(far.value, m, c)
  <2>1. Height(far) = h + 1 /\ Height(near) = h /\ far # Nil
    BY <1>2, <1>3, <1>6, NilGood DEF Larger
  <2>2. /\ far.value \in Value /\ Good(a) /\ Good(b) /\ Balanced(a) /\ Balanced(b)
        /\ Between(b, far.value, a)
        /\ Height(a) \in Nat /\ Height(b) \in Nat /\ Height(a) <= h /\ Height(b) <= h
        /\ h <= Height(a) + 1 /\ h <= Height(b) + 1
        /\ Content(far) = Content(a) \cup {far.value} \cup Content(b)
    <3> HIDE DEF near, far
    <3>1. /\ far.value \in Value /\ Good(a) /\ Good(b) /\ Balanced(a) /\ Balanced(b)
          /\ Between(b, far.value, a)
          /\ Height(far) = 1 + Larger(Height(b), Height(a))
          /\ Height(a) <= Height(b) + 1 /\ Height(b) <= Height(a) + 1
          /\ Content(far) = Content(a) \cup {far.value} \cup Content(b)
      BY <1>3, <2>1, GoodNode, BalancedNode DEF Larger
    <3>2. Height(a) \in Nat /\ Height(b) \in Nat
      BY <3>1, HeightType DEF Good
    <3> QED
      BY <1>2, <2>1, <3>1, <3>2 DEF Larger
  <2>3. /\ \A x \in Content(near) : x \in Value
        /\ \A x \in Content(a) : x \in Value
        /\ \A x \in Content(b) : x \in Value
        /\ \A x \in Content(l) : x \in Value
    BY <1>3, <2>2, ContentType DEF Good
  <2>4. far.value[Cmp] < r.value[Cmp] /\ v[Cmp] < far.value[Cmp]
    BY <1>3, <1>4, <2>2 DEF Between
  <2> HIDE DEF near, far, a, b
  <2>5. Between(a, r.value, near) /\ Between(l, v, b)
    BY <1>3, <1>4, <2>2 DEF Between
  <2>6. Good(c) /\ Balanced(c) /\ Height(c) = h + 1 /\ Content(c) = Content(near) \cup {r.value} \cup Content(a)
    <3>1. Good(c) /\ Height(c) = 1 + Larger(Height(a), Height(near)) /\ Content(c) = Content(near) \cup {r.value} \cup Content(a)
      BY <1>3, <2>2, <2>5, NodeGood
    <3>2. Balanced(c)
      BY <1>2, <1>3, <2>1, <2>2, <2>5, NodeBalanced
    <3> QED
      BY <1>2, <2>1, <2>2, <3>1, <3>2 DEF Larger
  <2>7. Good(m) /\ Balanced(m) /\ Height(m) = h + 1 /\ Content(m) = Content(b) \cup {v} \cup Content(l)
    <3>1. Good(m) /\ Height(m) = 1 + Larger(Height(l), Height(b)) /\ Content(m) = Content(b) \cup {v} \cup Content(l)
      BY <1>3, <2>2, <2>5, NodeGood
    <3>2. Balanced(m)
      BY <1>2, <1>3, <2>1, <2>2, <2>5, NodeBalanced DEF h
    <3> QED
      BY <1>2, <2>1, <2>2, <3>1, <3>2 DEF Larger, h
  <2> HIDE DEF m, c
  <2>8. Between(m, far.value, c)
    <3>1. \A x \in Content(near) : r.value[Cmp] < x[Cmp]
      BY <1>3 DEF Between
    <3>2. \A x \in Content(near) : far.value[Cmp] < x[Cmp]
      BY <1>3, <2>2, <2>3, <2>4, <3>1, Transitive
    <3>3. \A x \in Content(l) : x[Cmp] < v[Cmp]
      BY DEF Between
    <3>4. \A x \in Content(l) : x[Cmp] < far.value[Cmp]
      BY <2>2, <2>3, <2>4, <3>3, Transitive
    <3> QED
      BY <2>2, <2>4, <2>6, <2>7, <3>2, <3>4 DEF Between
  <2>9. Balanced(R) /\ R # Crash /\ Height(R) = h + 2
    <3>1. Balanced(R)
      BY <1>2, <2>2, <2>6, <2>7, <2>8, NodeBalanced
    <3>2. R # Crash /\ Height(R) = 1 + Larger(h + 1, h + 1)
      BY <2>2, <2>6, <2>7, <2>8, NodeGood
    <3> HIDE DEF R
    <3> QED
      BY <1>2, <3>1, <3>2 DEF Larger
  <2>10. BalanceRight(n) = R
    <3>1. SimpleRotLeft(r) = k
      BY <1>2, <2>1 DEF SimpleRotLeft, near, far, a, b, c
    <3>2. k # Nil /\ k # Crash /\ k.value = far.value /\ k.right = c /\ k.left = b
      <4>1. DOMAIN k = {"value", "height", "left", "right"} /\ DOMAIN Nil = {"pointer"} /\ DOMAIN Crash = {"pointer"}
        BY DEF Node, Nil, Crash
      <4>2. k # Nil /\ k # Crash
        BY <4>1
      <4> QED
        BY <4>2 DEF Node
    <3> HIDE DEF k
    <3>3. w = [value |-> v, height |-> n.height, left |-> l, right |-> k]
      BY <1>1
    <3>4. w # Nil /\ w.value = v /\ w.right = k /\ w.left = l
      <4>1. DOMAIN w = {"value", "height", "left", "right"} /\ DOMAIN Nil = {"pointer"}
        BY <3>3 DEF Nil
      <4> QED
        BY <3>3, <4>1
    <3>5. BalanceRight(n) = DoubleRotRL(n)
      BY <1>1, <1>2, <1>3, <1>6 DEF BalanceRight, near, far
    <3>6. DoubleRotRL(n) = SimpleRotRight(w)
      BY <1>1, <3>1, <3>2 DEF DoubleRotRL
    <3> HIDE DEF w
    <3>7. SimpleRotRight(w) = R
      BY <3>2, <3>4 DEF SimpleRotRight, m
    <3> QED
      BY <3>5, <3>6, <3>7
  <2> HIDE DEF R
  <2> QED
    BY <1>2, <2>9, <2>10 DEF n
<1> QED
  BY <1>3, <1>5, <1>6

(* What an insertion into the balanced tree T may make of it: a balanced    *)
(* tree that is one higher at most and then, unless it was empty, leans to  *)
(* one side, which is what a rotation above it needs.                       *)
GrowsInto(T, R) ==
  /\ R # Crash /\ Balanced(R)
  /\ Height(R) \in {Height(T), Height(T) + 1}
  /\ Height(R) # Height(T) /\ T # Nil => Height(R.left) # Height(R.right)

(* A balanced node whose left subtree grew into a balanced one grows into a *)
(* balanced one too.                                                        *)
LEMMA GrownLeftBalanced ==
  ASSUME NEW T, Good(T), Balanced(T), T # Nil,
         NEW l, Good(l), Between(l, T.value, T.right), GrowsInto(T.left, l)
  PROVE  GrowsInto(T, GrownLeft(T, l))
<1> DEFINE n == Node(T.value, l, T.right)
<1>1. /\ T.value \in Value /\ Good(T.left) /\ Good(T.right) /\ l # Crash
      /\ Balanced(T.left) /\ Balanced(T.right) /\ Balanced(l)
      /\ Height(T.left) <= Height(T.right) + 1 /\ Height(T.right) <= Height(T.left) + 1
      /\ Height(T) = 1 + Larger(Height(T.left), Height(T.right))
      /\ Height(l) \in {Height(T.left), Height(T.left) + 1}
      /\ Height(l) # Height(T.left) /\ T.left # Nil => Height(l.left) # Height(l.right)
  BY GoodNode, BalancedNode DEF GrowsInto
<1>2. Height(l) \in Nat /\ Height(T.left) \in Nat /\ Height(T.right) \in Nat
  BY <1>1, HeightType DEF Good
<1>3. /\ n # Crash /\ n # Nil /\ n.left = l /\ n.right = T.right
      /\ Height(n) = 1 + Larger(Height(l), Height(T.right))
  BY <1>1, NodeGood
<1>4. CASE Height(l) = Height(T.right) + 2
  <2>1. Height(T.left) = Height(T.right) + 1 /\ T.left # Nil
    BY <1>1, <1>2, <1>4, NilGood
  <2>2. Balanced(BalanceLeft(n)) /\ BalanceLeft(n) # Crash /\ Height(BalanceLeft(n)) = Height(l)
    BY <1>1, <1>2, <1>4, <2>1, BalanceLeftBalances
  <2> HIDE DEF n
  <2>3. BalanceFactor(n) > 1
    BY <1>2, <1>3, <1>4 DEF BalanceFactor, Abs
  <2>4. GrownLeft(T, l) = BalanceLeft(n)
    BY <1>1, <2>3 DEF GrownLeft, n
  <2>5. Height(l) = Height(T)
    BY <1>1, <1>2, <1>4, <2>1 DEF Larger
  <2> QED
    BY <2>2, <2>4, <2>5 DEF GrowsInto
<1>5. CASE Height(l) # Height(T.right) + 2
  <2>1. Height(l) <= Height(T.right) + 1 /\ Height(T.right) <= Height(l) + 1
    BY <1>1, <1>2, <1>5
  <2>2. Balanced(n)
    BY <1>1, <2>1, NodeBalanced
  <2> HIDE DEF n
  <2>3. ~ (BalanceFactor(n) > 1)
    BY <1>2, <1>3, <2>1 DEF BalanceFactor, Abs
  <2>4. GrownLeft(T, l) = n
    BY <1>1, <2>3 DEF GrownLeft, n
  <2>5. Height(n) \in {Height(T), Height(T) + 1}
    BY <1>1, <1>2, <1>3, <2>1 DEF Larger
  <2>6. Height(n) # Height(T) => Height(n.left) # Height(n.right)
    BY <1>1, <1>2, <1>3, <2>1 DEF Larger
  <2> QED
    BY <1>3, <2>2, <2>4, <2>5, <2>6 DEF GrowsInto
<1> QED
  BY <1>4, <1>5

(* The same of the right subtree. *)
LEMMA GrownRightBalanced ==
  ASSUME NEW T, Good(T), Balanced(T), T # Nil,
         NEW r, Good(r), Between(T.left, T.value, r), GrowsInto(T.right, r)
  PROVE  GrowsInto(T, GrownRight(T, r))
<1> DEFINE n == Node(T.value, T.left, r)
<1>1. /\ T.value \in Value /\ Good(T.left) /\ Good(T.right) /\ r # Crash
      /\ Balanced(T.left) /\ Balanced(T.right) /\ Balanced(r)
      /\ Height(T.left) <= Height(T.right) + 1 /\ Height(T.right) <= Height(T.left) + 1
      /\ Height(T) = 1 + Larger(Height(T.left), Height(T.right))
      /\ Height(r) \in {Height(T.right), Height(T.right) + 1}
      /\ Height(r) # Height(T.right) /\ T.right # Nil => Height(r.left) # Height(r.right)
  BY GoodNode, BalancedNode DEF GrowsInto
<1>2. Height(r) \in Nat /\ Height(T.left) \in Nat /\ Height(T.right) \in Nat
  BY <1>1, HeightType DEF Good
<1>3. /\ n # Crash /\ n # Nil /\ n.left = T.left /\ n.right = r
      /\ Height(n) = 1 + Larger(Height(T.left), Height(r))
  BY <1>1, NodeGood
<1>4. CASE Height(r) = Height(T.left) + 2
  <2>1. Height(T.right) = Height(T.left) + 1 /\ T.right # Nil
    BY <1>1, <1>2, <1>4, NilGood
  <2>2. Balanced(BalanceRight(n)) /\ BalanceRight(n) # Crash /\ Height(BalanceRight(n)) = Height(r)
    BY <1>1, <1>2, <1>4, <2>1, BalanceRightBalances
  <2> HIDE DEF n
  <2>3. BalanceFactor(n) > 1
    BY <1>2, <1>3, <1>4 DEF BalanceFactor, Abs
  <2>4. GrownRight(T, r) = BalanceRight(n)
    BY <1>1, <2>3 DEF GrownRight, n
  <2>5. Height(r) = Height(T)
    BY <1>1, <1>2, <1>4, <2>1 DEF Larger
  <2> QED
    BY <2>2, <2>4, <2>5 DEF GrowsInto
<1>5. CASE Height(r) # Height(T.left) + 2
  <2>1. Height(r) <= Height(T.left) + 1 /\ Height(T.left) <= Height(r) + 1
    BY <1>1, <1>2, <1>5
  <2>2. Balanced(n)
    BY <1>1, <2>1, NodeBalanced
  <2> HIDE DEF n
  <2>3. ~ (BalanceFactor(n) > 1)
    BY <1>2, <1>3, <2>1 DEF BalanceFactor, Abs
  <2>4. GrownRight(T, r) = n
    BY <1>1, <2>3 DEF GrownRight, n
  <2>5. Height(n) \in {Height(T), Height(T) + 1}
    BY <1>1, <1>2, <1>3, <2>1 DEF Larger
  <2>6. Height(n) # Height(T) => Height(n.left) # Height(n.right)
    BY <1>1, <1>2, <1>3, <2>1 DEF Larger
  <2> QED
    BY <1>3, <2>2, <2>4, <2>5, <2>6 DEF GrowsInto
<1> QED
  BY <1>4, <1>5

(* An insertion into a good and balanced tree never follows a null pointer  *)
(* and gives a balanced tree.                                               *)
THEOREM InsertBalanced ==
  ASSUME NEW T, Good(T), Balanced(T), NEW v \in Value
  PROVE  /\ InsertAux[T][v] # Crash /\ Good(InsertAux[T][v]) /\ Balanced(InsertAux[T][v])
         /\ Content(InsertAux[T][v]) = With(Content(T), v)
<1> DEFINE G == {U \in AnyTree : Good(U) /\ Balanced(U) => GrowsInto(U, InsertAux[U][v])}
<1>1. ASSUME NEW U \in AnyTree, U # Nil => U.left \in G /\ U.right \in G
      PROVE  U \in G
  <2>1. SUFFICES ASSUME Good(U), Balanced(U) PROVE GrowsInto(U, InsertAux[U][v])
    OBVIOUS
  <2>2. U \in Tree
    BY <2>1, GoodInTree
  <2>3. CASE U = Nil
    <3>1. InsertAux[U][v] = Leaf(v) /\ Height(U) = 0
      BY <2>2, <2>3, InsertStep, NilGood
    <3>2. Balanced(Leaf(v)) /\ Leaf(v) # Crash /\ Height(Leaf(v)) = 1
      BY LeafGood
    <3> QED
      BY <2>3, <3>1, <3>2 DEF GrowsInto
  <2>4. CASE U # Nil
    <3>1. /\ U.left \in Tree /\ U.right \in Tree /\ Good(U.left) /\ Good(U.right)
          /\ Balanced(U.left) /\ Balanced(U.right)
          /\ U.value \in Value /\ Between(U.left, U.value, U.right)
      BY <2>1, <2>2, <2>4, Subtrees, GoodNode, BalancedNode
    <3>2. GrowsInto(U.left, InsertAux[U.left][v]) /\ GrowsInto(U.right, InsertAux[U.right][v])
      BY <1>1, <2>4, <3>1
    <3>3. /\ Good(InsertAux[U.left][v]) /\ Content(InsertAux[U.left][v]) = With(Content(U.left), v)
          /\ Good(InsertAux[U.right][v]) /\ Content(InsertAux[U.right][v]) = With(Content(U.right), v)
      BY <3>1, <3>2, InsertGood DEF GoodOf, GrowsInto
    <3>4. v[Cmp] < U.value[Cmp] \/ U.value[Cmp] < v[Cmp] \/ v[Cmp] = U.value[Cmp]
      BY <3>1, KeyType
    <3>5. CASE v[Cmp] < U.value[Cmp]
      <4>1. Between(InsertAux[U.left][v], U.value, U.right)
        BY <3>1, <3>3, <3>5 DEF Between, With
      <4>2. InsertAux[U][v] = GrownLeft(U, InsertAux[U.left][v])
        BY <2>2, <2>4, <3>5, InsertStep
      <4> QED
        BY <2>1, <2>4, <3>2, <3>3, <4>1, <4>2, GrownLeftBalanced
    <3>6. CASE U.value[Cmp] < v[Cmp]
      <4>1. Between(U.left, U.value, InsertAux[U.right][v])
        BY <3>1, <3>3, <3>6 DEF Between, With
      <4>2. InsertAux[U][v] = GrownRight(U, InsertAux[U.right][v])
        BY <2>2, <2>4, <3>6, InsertStep
      <4> QED
        BY <2>1, <2>4, <3>2, <3>3, <4>1, <4>2, GrownRightBalanced
    <3>7. CASE v[Cmp] = U.value[Cmp]
      <4> DEFINE R == [U EXCEPT !.value = v]
      <4>1. InsertAux[U][v] = R
        BY <2>2, <2>4, <3>7, InsertStep
      <4>2. Good(R) /\ R # Nil
        BY <2>1, <2>4, <3>7, ReplacedGood
      <4>3. R.left = U.left /\ R.right = U.right /\ R.height = U.height
        BY <2>4, AnyTreeNode DEF Nodes
      <4> HIDE DEF R
      <4>4. BalanceFactor(R) = BalanceFactor(U)
        BY <4>3 DEF BalanceFactor
      <4>5. Balanced(R)
        BY <2>1, <2>4, <4>2, <4>3, <4>4, AtNode DEF Good
      <4>6. R # Crash /\ Height(R) = Height(U)
        BY <2>4, <4>2, <4>3, HeightType DEF Good
      <4> QED
        BY <4>1, <4>5, <4>6 DEF GrowsInto
    <3> QED
      BY <3>4, <3>5, <3>6, <3>7
  <2> QED
    BY <2>3, <2>4
<1>2. G \in SUBSET AnyTree
  OBVIOUS
<1>3. AnyTree = G
  <2> HIDE DEF G
  <2> QED
    BY <1>1, <1>2, TreeInduction
<1>4. GrowsInto(T, InsertAux[T][v])
  BY <1>3 DEF Good
<1> QED
  BY <1>4, GoodInTree, InsertGood DEF GoodOf, GrowsInto

(* To rotate the wrong side an insertion needs the other side to be three   *)
(* nodes high, and five keys.                                               *)
LEMMA GrownLeftSafe ==
  ASSUME NEW T, Good(T), T # Nil,
         NEW l, Good(l), l # Nil, Between(l, T.value, T.right),
         Cardinality(KeysIn(Node(T.value, l, T.right))) <= 4
  PROVE  GrownLeft(T, l) # Crash
<1> DEFINE n == Node(T.value, l, T.right)
<1>1. T.value \in Value /\ Good(T.right)
  BY GoodNode
<1>2. /\ Height(l) \in Nat /\ Height(T.right) \in Nat /\ l # Crash
  BY <1>1, HeightType DEF Good
<1>3. /\ Good(n) /\ n # Crash /\ n # Nil /\ n.left = l /\ n.right = T.right
  BY <1>1, NodeGood
<1>4. BalanceLeft(n) = Crash => Height(l) < 2
  BY <1>1, BalanceLeftGood, RearrangedIsTree
<1> HIDE DEF n
<1>5. /\ Cardinality(KeysIn(n)) = Cardinality(KeysIn(l)) + 1 + Cardinality(KeysIn(T.right))
      /\ Cardinality(KeysIn(l)) \in Nat /\ Cardinality(KeysIn(T.right)) \in Nat
  BY <1>3, NodeSize
<1>6. Height(T.right) <= Cardinality(KeysIn(T.right))
  BY <1>1, GoodSize
<1>7. Height(l) >= 1
  <2>1. Good(l.left) /\ Good(l.right) /\ Height(l) = 1 + Larger(Height(l.left), Height(l.right))
    BY GoodNode
  <2>2. Height(l.left) \in Nat /\ Height(l.right) \in Nat
    BY <2>1, HeightType DEF Good
  <2> QED
    BY <2>1, <2>2 DEF Larger
<1>8. Cardinality(KeysIn(l)) >= Height(l)
  BY GoodSize
<1>9. Height(T.right) <= 2
  BY <1>2, <1>5, <1>6, <1>7, <1>8 DEF n
<1>10. BalanceFactor(n) > 1 => Height(l) >= 2
  BY <1>2, <1>3, <1>7, <1>9 DEF BalanceFactor, Abs
<1>11. BalanceFactor(n) > 1 => BalanceLeft(n) # Crash
  BY <1>2, <1>4, <1>10
<1> QED
  BY <1>2, <1>3, <1>11 DEF GrownLeft, n

(* The same of an insertion on the right. *)
LEMMA GrownRightSafe ==
  ASSUME NEW T, Good(T), T # Nil,
         NEW r, Good(r), r # Nil, Between(T.left, T.value, r),
         Cardinality(KeysIn(Node(T.value, T.left, r))) <= 4
  PROVE  GrownRight(T, r) # Crash
<1> DEFINE n == Node(T.value, T.left, r)
<1>1. T.value \in Value /\ Good(T.left)
  BY GoodNode
<1>2. /\ Height(r) \in Nat /\ Height(T.left) \in Nat /\ r # Crash
  BY <1>1, HeightType DEF Good
<1>3. /\ Good(n) /\ n # Crash /\ n # Nil /\ n.left = T.left /\ n.right = r
  BY <1>1, NodeGood
<1>4. BalanceRight(n) = Crash => Height(r) < 2
  BY <1>1, BalanceRightGood, RearrangedIsTree
<1> HIDE DEF n
<1>5. /\ Cardinality(KeysIn(n)) = Cardinality(KeysIn(T.left)) + 1 + Cardinality(KeysIn(r))
      /\ Cardinality(KeysIn(T.left)) \in Nat /\ Cardinality(KeysIn(r)) \in Nat
  BY <1>3, NodeSize
<1>6. Height(T.left) <= Cardinality(KeysIn(T.left))
  BY <1>1, GoodSize
<1>7. Height(r) >= 1
  <2>1. Good(r.left) /\ Good(r.right) /\ Height(r) = 1 + Larger(Height(r.left), Height(r.right))
    BY GoodNode
  <2>2. Height(r.left) \in Nat /\ Height(r.right) \in Nat
    BY <2>1, HeightType DEF Good
  <2> QED
    BY <2>1, <2>2 DEF Larger
<1>8. Cardinality(KeysIn(r)) >= Height(r)
  BY GoodSize
<1>9. Height(T.left) <= 2
  BY <1>2, <1>5, <1>6, <1>7, <1>8 DEF n
<1>10. BalanceFactor(n) > 1 => Height(r) >= 2
  BY <1>2, <1>3, <1>7, <1>9 DEF BalanceFactor, Abs
<1>11. BalanceFactor(n) > 1 => BalanceRight(n) # Crash
  BY <1>2, <1>4, <1>10
<1> QED
  BY <1>2, <1>3, <1>11 DEF GrownRight, n

(* In a tree of no more than four keys, balanced or not, an insertion never *)
(* follows a null pointer.                                                  *)
THEOREM FewNeverCrash ==
  ASSUME NEW T, Good(T), NEW v \in Value, NEW A, IsFiniteSet(A), Cardinality(A) <= 4,
         KeysIn(T) \subseteq A, v[Cmp] \in A
  PROVE  /\ InsertAux[T][v] # Crash /\ Good(InsertAux[T][v])
         /\ Content(InsertAux[T][v]) = With(Content(T), v)
<1> DEFINE G == {U \in AnyTree : Good(U) /\ KeysIn(U) \subseteq A => InsertAux[U][v] # Crash}
<1>1. ASSUME NEW U \in AnyTree, U # Nil => U.left \in G /\ U.right \in G
      PROVE  U \in G
  <2>1. SUFFICES ASSUME Good(U), KeysIn(U) \subseteq A PROVE InsertAux[U][v] # Crash
    OBVIOUS
  <2>2. U \in Tree
    BY <2>1, GoodInTree
  <2>3. CASE U = Nil
    BY <2>2, <2>3, InsertStep, LeafGood
  <2>4. CASE U # Nil
    <3>1. /\ U.left \in Tree /\ U.right \in Tree /\ Good(U.left) /\ Good(U.right)
          /\ U.value \in Value /\ Between(U.left, U.value, U.right)
          /\ Content(U) = Content(U.left) \cup {U.value} \cup Content(U.right)
      BY <2>1, <2>2, <2>4, Subtrees, GoodNode
    <3>2. InsertAux[U.left][v] # Crash /\ InsertAux[U.right][v] # Crash
      BY <1>1, <2>1, <2>4, <3>1 DEF KeysIn
    <3>3. /\ Good(InsertAux[U.left][v]) /\ Content(InsertAux[U.left][v]) = With(Content(U.left), v)
          /\ Good(InsertAux[U.right][v]) /\ Content(InsertAux[U.right][v]) = With(Content(U.right), v)
      BY <3>1, <3>2, InsertGood DEF GoodOf
    <3>4. InsertAux[U.left][v] # Nil /\ InsertAux[U.right][v] # Nil
      BY <3>3, NilGood DEF With
    <3>5. v[Cmp] < U.value[Cmp] \/ U.value[Cmp] < v[Cmp] \/ v[Cmp] = U.value[Cmp]
      BY <3>1, KeyType
    <3>6. CASE v[Cmp] < U.value[Cmp]
      <4> DEFINE n == Node(U.value, InsertAux[U.left][v], U.right)
      <4>1. Between(InsertAux[U.left][v], U.value, U.right)
        BY <3>1, <3>3, <3>6 DEF Between, With
      <4>2. Content(n) = With(Content(U.left), v) \cup {U.value} \cup Content(U.right)
        BY <3>1, <3>3, <4>1, NodeGood
      <4> HIDE DEF n
      <4>3. KeysIn(n) \subseteq A
        BY <2>1, <3>1, <4>2 DEF KeysIn, With
      <4>4. Cardinality(KeysIn(n)) <= 4
        <5>1. IsFiniteSet(KeysIn(n)) /\ Cardinality(KeysIn(n)) <= Cardinality(A)
          BY <4>3, FS_Subset
        <5> QED
          BY <5>1, FS_CardinalityType
      <4>5. InsertAux[U][v] = GrownLeft(U, InsertAux[U.left][v])
        BY <2>2, <2>4, <3>6, InsertStep
      <4> QED
        BY <2>1, <2>4, <3>3, <3>4, <4>1, <4>4, <4>5, GrownLeftSafe DEF n
    <3>7. CASE U.value[Cmp] < v[Cmp]
      <4> DEFINE n == Node(U.value, U.left, InsertAux[U.right][v])
      <4>1. Between(U.left, U.value, InsertAux[U.right][v])
        BY <3>1, <3>3, <3>7 DEF Between, With
      <4>2. Content(n) = Content(U.left) \cup {U.value} \cup With(Content(U.right), v)
        BY <3>1, <3>3, <4>1, NodeGood
      <4> HIDE DEF n
      <4>3. KeysIn(n) \subseteq A
        BY <2>1, <3>1, <4>2 DEF KeysIn, With
      <4>4. Cardinality(KeysIn(n)) <= 4
        <5>1. IsFiniteSet(KeysIn(n)) /\ Cardinality(KeysIn(n)) <= Cardinality(A)
          BY <4>3, FS_Subset
        <5> QED
          BY <5>1, FS_CardinalityType
      <4>5. InsertAux[U][v] = GrownRight(U, InsertAux[U.right][v])
        BY <2>2, <2>4, <3>7, InsertStep
      <4> QED
        BY <2>1, <2>4, <3>3, <3>4, <4>1, <4>4, <4>5, GrownRightSafe DEF n
    <3>8. CASE v[Cmp] = U.value[Cmp]
      <4>1. InsertAux[U][v] = [U EXCEPT !.value = v]
        BY <2>2, <2>4, <3>8, InsertStep
      <4>2. Good([U EXCEPT !.value = v])
        BY <2>1, <2>4, <3>8, ReplacedGood
      <4> QED
        BY <4>1, <4>2, HeightType DEF Good
    <3> QED
      BY <3>5, <3>6, <3>7, <3>8
  <2> QED
    BY <2>3, <2>4
<1>2. G \in SUBSET AnyTree
  OBVIOUS
<1>3. AnyTree = G
  <2> HIDE DEF G
  <2> QED
    BY <1>1, <1>2, TreeInduction
<1>4. InsertAux[T][v] # Crash
  BY <1>3 DEF Good
<1> QED
  BY <1>4, GoodInTree, InsertGood DEF GoodOf

-----------------------------------------------------------------------------
(* Mapping a function. *)

(* One call of map_aux. *)
MapDef(h, T) == [g \in [Value -> Value] |->
  IF T = Nil THEN Nil
  ELSE [T EXCEPT !.value = g[@], !.left = h[@][g], !.right = h[@][g]]]

MapRecursion == INSTANCE Recursion WITH S <- Tree, rank <- TreeDepth, Def <- MapDef

(* MapAux, as it is defined. *)
LEMMA MapUnfold == \A T \in Tree : MapAux[T] = MapDef(MapAux, T)
<1>1. ASSUME NEW T \in Tree, NEW g, NEW h,
             \A U \in Tree : TreeDepth[U] < TreeDepth[T] => g[U] = h[U]
      PROVE  MapDef(g, T) = MapDef(h, T)
  <2>1. T # Nil => g[T.left] = h[T.left] /\ g[T.right] = h[T.right]
    BY <1>1, SubtreesAgree
  <2> QED
    BY <2>1 DEF MapDef
<1>2. MapAux = CHOOSE g : g = [T \in Tree |-> MapDef(g, T)]
  BY DEF MapAux, MapDef
<1> QED
  BY <1>1, <1>2, TreeDepthNat, MapRecursion!Unfolds

(* What it does to a node: the shape stays. *)
LEMMA MapStep ==
  ASSUME NEW T \in Tree, NEW g \in [Value -> Value]
  PROVE  MapAux[T][g] = IF T = Nil THEN Nil
                        ELSE [value |-> g[T.value], height |-> T.height,
                              left |-> MapAux[T.left][g], right |-> MapAux[T.right][g]]
<1>1. MapAux[T] = MapDef(MapAux, T)
  BY MapUnfold
<1>2. MapAux[T][g] = IF T = Nil THEN Nil
        ELSE [T EXCEPT !.value = g[@], !.left = MapAux[@][g], !.right = MapAux[@][g]]
  BY <1>1 DEF MapDef
<1>3. T # Nil => T = [value |-> T.value, height |-> T.height, left |-> T.left, right |-> T.right]
  BY TreeIsAny, AnyTreeNode, NodeShape
<1> QED
  BY <1>2, <1>3

(* A function that keeps the keys maps a good tree to a good tree. *)
THEOREM MapGood ==
  ASSUME NEW T, Good(T), NEW g \in [Value -> Value], \A v \in Value : g[v][Cmp] = v[Cmp]
  PROVE  Good(MapAux[T][g]) /\ Content(MapAux[T][g]) = {g[w] : w \in Content(T)}
<1> DEFINE Mapped(U) == /\ Good(MapAux[U][g]) /\ Content(MapAux[U][g]) = {g[w] : w \in Content(U)}
                        /\ Height(MapAux[U][g]) = Height(U)
           G == {U \in AnyTree : Good(U) => Mapped(U)}
<1>1. ASSUME NEW U \in AnyTree, U # Nil => U.left \in G /\ U.right \in G
      PROVE  U \in G
  <2>1. SUFFICES ASSUME Good(U) PROVE Mapped(U)
    OBVIOUS
  <2>2. U \in Tree
    BY <2>1, GoodInTree
  <2>3. CASE U = Nil
    <3>1. MapAux[U][g] = U
      BY <2>2, <2>3, MapStep
    <3> QED
      BY <2>3, <3>1, NilGood
  <2>4. CASE U # Nil
    <3> DEFINE l == MapAux[U.left][g]
               r == MapAux[U.right][g]
    <3>1. /\ U.value \in Value /\ Good(U.left) /\ Good(U.right) /\ Between(U.left, U.value, U.right)
          /\ Content(U) = Content(U.left) \cup {U.value} \cup Content(U.right)
          /\ Height(U) = 1 + Larger(Height(U.left), Height(U.right)) /\ Height(U) = U.height
      BY <2>1, <2>4, GoodNode, HeightType
    <3>2. /\ Good(l) /\ Content(l) = {g[w] : w \in Content(U.left)} /\ Height(l) = Height(U.left)
          /\ Good(r) /\ Content(r) = {g[w] : w \in Content(U.right)} /\ Height(r) = Height(U.right)
      BY <1>1, <2>4, <3>1
    <3>3. MapAux[U][g] = Node(g[U.value], l, r)
      BY <2>2, <2>4, <3>1, <3>2, MapStep DEF Node
    <3> HIDE DEF l, r
    <3>4. g[U.value] \in Value
      BY <3>1
    <3>5. Between(l, g[U.value], r)
      <4>1. (\A w \in Content(U.left) : w \in Value) /\ (\A w \in Content(U.right) : w \in Value)
        BY <3>1, ContentType DEF Good
      <4> QED
        BY <3>1, <3>2, <4>1 DEF Between
    <3>6. /\ Good(MapAux[U][g]) /\ Content(MapAux[U][g]) = Content(l) \cup {g[U.value]} \cup Content(r)
          /\ Height(MapAux[U][g]) = 1 + Larger(Height(l), Height(r))
      BY <3>2, <3>3, <3>4, <3>5, NodeGood
    <3> QED
      BY <3>1, <3>2, <3>6
  <2> QED
    BY <2>3, <2>4
<1>2. G \in SUBSET AnyTree
  OBVIOUS
<1>3. AnyTree = G
  <2> HIDE DEF G
  <2> QED
    BY <1>1, <1>2, TreeInduction
<1> QED
  BY <1>3 DEF Good

(* Whatever it is ordered by, a search finds nothing but a value of the     *)
(* tree that has what is looked for.                                        *)
LEMMA SearchFromContent ==
  ASSUME NEW T, Good(T), NEW f \in Fields, NEW x \in Nat
  PROVE  SearchAux[T][f][x] = Nil \/ (SearchAux[T][f][x] \in Content(T) /\ SearchAux[T][f][x][f] = x)
<1> DEFINE From(U) == \/ SearchAux[U][f][x] = Nil
                      \/ SearchAux[U][f][x] \in Content(U) /\ SearchAux[U][f][x][f] = x
           G == {U \in AnyTree : Good(U) => From(U)}
<1>1. ASSUME NEW U \in AnyTree, U # Nil => U.left \in G /\ U.right \in G
      PROVE  U \in G
  <2>1. SUFFICES ASSUME Good(U) PROVE From(U)
    OBVIOUS
  <2>2. U \in Tree
    BY <2>1, GoodInTree
  <2>3. CASE U = Nil
    BY <2>2, <2>3, SearchStep
  <2>4. CASE U # Nil
    <3>1. /\ From(U.left) /\ From(U.right)
          /\ Content(U) = Content(U.left) \cup {U.value} \cup Content(U.right)
      BY <1>1, <2>1, <2>4, GoodNode
    <3>2. CASE U.value[f] = x
      BY <2>2, <2>4, <3>1, <3>2, SearchStep
    <3>3. CASE U.value[f] # x
      <4>1. \/ SearchAux[U][f][x] = SearchAux[U.left][f][x]
            \/ SearchAux[U][f][x] = SearchAux[U.right][f][x]
        BY <2>2, <2>4, <3>3, SearchStep DEF Toward
      <4> QED
        BY <3>1, <4>1
    <3> QED
      BY <3>2, <3>3
  <2> QED
    BY <2>3, <2>4
<1>2. G \in SUBSET AnyTree
  OBVIOUS
<1>3. AnyTree = G
  <2> HIDE DEF G
  <2> QED
    BY <1>1, <1>2, TreeInduction
<1> QED
  BY <1>3 DEF Good

=============================================================================
