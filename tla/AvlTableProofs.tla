--------------------------- MODULE AvlTableProofs ---------------------------
(***************************************************************************)
(* The concurrent AVL tree is a map: the properties of AvlTable for any    *)
(* keys and data.  What its calls do to a tree is in AvlTreeProofs; here   *)
(* the tree and the table it stands for are kept together.                 *)
(***************************************************************************)
EXTENDS AvlTable, AvlTreeProofs

-----------------------------------------------------------------------------
(* The two properties of a tree that AvlTable computes. *)

(* One step of the recursion of HeightsIn. *)
HeightsDef(g, T) ==
  T = Nil \/ /\ T.height = 1 + Larger(Height(T.left), Height(T.right))
             /\ g[T.left] /\ g[T.right]

HeightsRecursion == INSTANCE Recursion WITH S <- Tree, rank <- TreeDepth, Def <- HeightsDef

(* HeightsIn, as it is defined. *)
LEMMA HeightsUnfold == \A T \in Tree : HeightsIn[T] = HeightsDef(HeightsIn, T)
<1>1. ASSUME NEW T \in Tree, NEW g, NEW h,
             \A U \in Tree : TreeDepth[U] < TreeDepth[T] => g[U] = h[U]
      PROVE  HeightsDef(g, T) = HeightsDef(h, T)
  <2>1. T # Nil => g[T.left] = h[T.left] /\ g[T.right] = h[T.right]
    BY <1>1, SubtreesAgree
  <2> QED
    BY <2>1 DEF HeightsDef
<1>2. HeightsIn = CHOOSE g : g = [T \in Tree |-> HeightsDef(g, T)]
  BY DEF HeightsIn, HeightsDef
<1> QED
  BY <1>1, <1>2, TreeDepthNat, HeightsRecursion!Unfolds

(* One step of the recursion of BalancedIn. *)
BalancedDef(g, T) == T = Nil \/ (BalanceFactor(T) <= 1 /\ g[T.left] /\ g[T.right])

BalancedRecursion == INSTANCE Recursion WITH S <- Tree, rank <- TreeDepth, Def <- BalancedDef

(* BalancedIn, as it is defined. *)
LEMMA BalancedUnfold == \A T \in Tree : BalancedIn[T] = BalancedDef(BalancedIn, T)
<1>1. ASSUME NEW T \in Tree, NEW g, NEW h,
             \A U \in Tree : TreeDepth[U] < TreeDepth[T] => g[U] = h[U]
      PROVE  BalancedDef(g, T) = BalancedDef(h, T)
  <2>1. T # Nil => g[T.left] = h[T.left] /\ g[T.right] = h[T.right]
    BY <1>1, SubtreesAgree
  <2> QED
    BY <2>1 DEF BalancedDef
<1>2. BalancedIn = CHOOSE g : g = [T \in Tree |-> BalancedDef(g, T)]
  BY DEF BalancedIn, BalancedDef
<1> QED
  BY <1>1, <1>2, TreeDepthNat, BalancedRecursion!Unfolds

(* They are those of AvlTreeProofs. *)
LEMMA ComputedRight ==
  ASSUME NEW T, Good(T)
  PROVE  HeightsIn[T] /\ (Balanced(T) => BalancedIn[T])
<1> DEFINE Computed(U) == HeightsIn[U] /\ (Balanced(U) => BalancedIn[U])
           G == {U \in AnyTree : Good(U) => Computed(U)}
<1>1. ASSUME NEW U \in AnyTree, U # Nil => U.left \in G /\ U.right \in G
      PROVE  U \in G
  <2>1. SUFFICES ASSUME Good(U) PROVE Computed(U)
    OBVIOUS
  <2>2. HeightsIn[U] = HeightsDef(HeightsIn, U) /\ BalancedIn[U] = BalancedDef(BalancedIn, U)
    BY <2>1, GoodInTree, HeightsUnfold, BalancedUnfold
  <2>3. CASE U = Nil
    BY <2>2, <2>3 DEF HeightsDef, BalancedDef
  <2>4. CASE U # Nil
    <3>1. /\ Good(U.left) /\ Good(U.right)
          /\ U.height = 1 + Larger(Height(U.left), Height(U.right))
          /\ Balanced(U) => BalanceFactor(U) <= 1 /\ Balanced(U.left) /\ Balanced(U.right)
      BY <2>1, <2>4, GoodNode, AtNode DEF Good
    <3>2. Computed(U.left) /\ Computed(U.right)
      BY <1>1, <2>4, <3>1
    <3>3. HeightsIn[U]
      BY <2>2, <3>1, <3>2 DEF HeightsDef
    <3>4. Balanced(U) => BalancedIn[U]
      BY <2>2, <3>1, <3>2 DEF BalancedDef
    <3> QED
      BY <3>3, <3>4
  <2> QED
    BY <2>3, <2>4
<1>2. G \in SUBSET AnyTree
  OBVIOUS
<1>3. AnyTree = G
  <2> HIDE DEF G
  <2> QED
    BY <1>1, <1>2, TreeInduction
<1> QED
  BY <1>3 DEF Good

-----------------------------------------------------------------------------
(* The inductive invariant. *)

(* The value that stands for data under a key. *)
Entry(k, d) == [key |-> k, data |-> d]

(* The values that stand for a table. *)
Entries(t) == {Entry(k, t[k]) : k \in DOMAIN t}

(* The table, as a function of some keys. *)
TableType ==
  /\ deleted \in BOOLEAN
  /\ DOMAIN table \subseteq Keys /\ \A k \in DOMAIN table : table[k] \in Data

(* While the program runs the tree is a good one of what is in the table.   *)
TreeIsTable == tree # Crash => Good(tree) /\ Content(tree) = Entries(table)

(* Nothing but a deletion unbalances the tree: until then it cannot crash.  *)
OnlyDeletionUnbalances == ~deleted => tree # Crash /\ Balanced(tree)

(* The inductive invariant. *)
Inv == TableType /\ TreeIsTable /\ OnlyDeletionUnbalances

(* The values are the pairs of a key and data, keys are numbers.            *)
LEMMA EntryType ==
  /\ Cmp = "key" /\ Keys \subseteq Nat
  /\ \A k \in Keys, d \in Data : Entry(k, d) \in Value /\ Entry(k, d)[Cmp] = k /\ Entry(k, d) # Nil
<1>1. Cmp = "key" /\ Value = [key : Keys, data : Data]
  BY TableAssumption
<1>2. Keys \subseteq Nat
  BY TreeAssumption DEF Keys
<1>3. ASSUME NEW k \in Keys, NEW d \in Data
      PROVE  Entry(k, d) \in Value /\ Entry(k, d)[Cmp] = k /\ Entry(k, d) # Nil
  <2>1. Entry(k, d) \in Value /\ Entry(k, d)[Cmp] = k
    BY <1>1 DEF Entry
  <2>2. DOMAIN Entry(k, d) = {"key", "data"} /\ DOMAIN Nil = {"pointer"}
    BY DEF Entry, Nil
  <2> QED
    BY <2>1, <2>2
<1> QED
  BY <1>1, <1>2, <1>3

(* The keys of the tree are those of the table. *)
LEMMA KeysAreDomain == Inv /\ tree # Crash => KeysIn(tree) = DOMAIN table
<1>1. SUFFICES ASSUME Inv, tree # Crash PROVE KeysIn(tree) = DOMAIN table
  OBVIOUS
<1>2. KeysIn(tree) = {w[Cmp] : w \in Entries(table)}
  BY <1>1 DEF KeysIn, Inv, TreeIsTable
<1>3. \A k \in DOMAIN table : Entry(k, table[k])[Cmp] = k
  BY <1>1, EntryType DEF Inv, TableType
<1> QED
  BY <1>2, <1>3 DEF Entries

(* The empty tree is the empty table. *)
LEMMA InitInv == Init => Inv
<1>1. SUFFICES ASSUME Init PROVE Inv
  OBVIOUS
<1>2. table = <<>> /\ DOMAIN <<>> = {}
  BY <1>1 DEF Init
<1>3. TableType
  BY <1>1, <1>2 DEF Init, TableType
<1>4. Entries(table) = {}
  BY <1>2 DEF Entries
<1> QED
  BY <1>1, <1>3, <1>4, NilGood DEF Init, Inv, TreeIsTable, OnlyDeletionUnbalances

(* avl_insert: the new entry replaces the one of its key. *)
LEMMA InsertInv ==
  ASSUME Inv, NEW k \in Keys, NEW d \in Data, Insert(k, d)
  PROVE  Inv'
<1> DEFINE v == Entry(k, d)
<1>1. /\ tree # Crash /\ tree' = InsertAux[tree][v] /\ deleted' = deleted
      /\ table' = [x \in DOMAIN table \cup {k} |-> IF x = k THEN d ELSE table[x]]
  BY DEF Insert, Entry
<1>2. v \in Value /\ v[Cmp] = k
  BY EntryType
<1>3. Good(tree) /\ Content(tree) = Entries(table) /\ TableType
  BY <1>1 DEF Inv, TreeIsTable
<1>4. DOMAIN table' = DOMAIN table \cup {k} /\ table'[k] = d /\ \A x \in DOMAIN table \ {k} : table'[x] = table[x]
  BY <1>1
<1>5. TableType'
  BY <1>1, <1>3 DEF TableType
<1>6. With(Entries(table), v) = Entries(table')
  <2>1. \A x \in DOMAIN table : Entry(x, table[x])[Cmp] = x
    BY <1>3, EntryType DEF TableType
  <2>2. {w \in Entries(table) : w[Cmp] # k} = {Entry(x, table[x]) : x \in DOMAIN table \ {k}}
    BY <2>1 DEF Entries
  <2>3. Entries(table') = {Entry(x, table[x]) : x \in DOMAIN table \ {k}} \cup {v}
    BY <1>4 DEF Entries
  <2> HIDE DEF v
  <2> QED
    BY <1>2, <2>2, <2>3 DEF With
<1>7. TreeIsTable'
  <2> HIDE DEF v
  <2>1. GoodOf(tree', With(Content(tree), v))
    BY <1>1, <1>2, <1>3, GoodInTree, InsertGood
  <2> QED
    BY <1>3, <1>6, <2>1 DEF TreeIsTable, GoodOf
<1>8. OnlyDeletionUnbalances'
  <2> HIDE DEF v
  <2>1. SUFFICES ASSUME ~deleted PROVE tree' # Crash /\ Balanced(tree')
    BY <1>1 DEF OnlyDeletionUnbalances
  <2>2. Balanced(tree)
    BY <2>1 DEF Inv, OnlyDeletionUnbalances
  <2> QED
    BY <1>1, <1>2, <1>3, <2>2, InsertBalanced
<1> QED
  BY <1>5, <1>7, <1>8 DEF Inv

(* avl_delete: a key that is not there changes nothing, as the balance of   *)
(* the subtree that is searched stays what it was.                          *)
LEMMA DeleteAbsent ==
  ASSUME NEW T, Good(T), Balanced(T), NEW x \in Nat, \A w \in Content(T) : w[Cmp] # x
  PROVE  DeleteAux[T][x] # Crash /\ Balanced(DeleteAux[T][x]) /\ Height(DeleteAux[T][x]) = Height(T)
<1> DEFINE Same(U) == Balanced(DeleteAux[U][x]) /\ Height(DeleteAux[U][x]) = Height(U)
           G == {U \in AnyTree : Good(U) /\ Balanced(U) /\ (\A w \in Content(U) : w[Cmp] # x) => Same(U)}
<1>1. ASSUME NEW U \in AnyTree, U # Nil => U.left \in G /\ U.right \in G
      PROVE  U \in G
  <2>1. SUFFICES ASSUME Good(U), Balanced(U), \A w \in Content(U) : w[Cmp] # x PROVE Same(U)
    OBVIOUS
  <2>2. U \in Tree
    BY <2>1, GoodInTree
  <2>3. CASE U = Nil
    BY <2>2, <2>3, DeleteStep, NilGood
  <2>4. CASE U # Nil
    <3>1. /\ Good(U.left) /\ Good(U.right) /\ U.value \in Value /\ U.value[Cmp] \in Nat
          /\ Balanced(U.left) /\ Balanced(U.right)
          /\ Height(U.left) <= Height(U.right) + 1 /\ Height(U.right) <= Height(U.left) + 1
          /\ Between(U.left, U.value, U.right)
          /\ Content(U) = Content(U.left) \cup {U.value} \cup Content(U.right)
          /\ Height(U) = 1 + Larger(Height(U.left), Height(U.right))
      BY <2>1, <2>4, GoodNode, BalancedNode, KeyType
    <3>2. /\ Same(U.left) /\ Same(U.right)
      BY <1>1, <2>1, <2>4, <3>1
    <3>3. Height(U.left) \in Nat /\ Height(U.right) \in Nat
      BY <3>1, HeightType DEF Good
    <3>4. x < U.value[Cmp] \/ U.value[Cmp] < x
      BY <2>1, <3>1
    <3>5. CASE x < U.value[Cmp]
      <4> DEFINE l == DeleteAux[U.left][x]
                 n == Node(U.value, l, U.right)
      <4>1. Good(l) /\ l # Crash /\ Content(l) = Without(Content(U.left), x)
        BY <3>1, DeleteNeverCrashes
      <4>2. Between(l, U.value, U.right)
        BY <3>1, <4>1 DEF Between, Without
      <4>3. DeleteAux[U][x] = ShrunkLeft(U, l)
        BY <2>2, <2>4, <3>5, DeleteStep
      <4>4. Balanced(l) /\ Height(l) = Height(U.left)
        BY <3>2
      <4> HIDE DEF l
      <4>5. ShrunkLeft(U, l) = n
        BY <3>1, <3>3, <4>1, <4>4 DEF ShrunkLeft
      <4>6. Balanced(n) /\ Height(n) = Height(U)
        BY <3>1, <4>1, <4>2, <4>4, NodeGood, NodeBalanced
      <4> QED
        BY <4>3, <4>5, <4>6
    <3>6. CASE U.value[Cmp] < x
      <4> DEFINE r == DeleteAux[U.right][x]
                 n == Node(U.value, U.left, r)
      <4>1. Good(r) /\ r # Crash /\ Content(r) = Without(Content(U.right), x)
        BY <3>1, DeleteNeverCrashes
      <4>2. Between(U.left, U.value, r)
        BY <3>1, <4>1 DEF Between, Without
      <4>3. DeleteAux[U][x] = ShrunkRight(U, r)
        BY <2>2, <2>4, <3>6, DeleteStep
      <4>4. Balanced(r) /\ Height(r) = Height(U.right)
        BY <3>2
      <4> HIDE DEF r
      <4>5. ShrunkRight(U, r) = n
        BY <3>1, <3>3, <4>1, <4>4 DEF ShrunkRight
      <4>6. Balanced(n) /\ Height(n) = Height(U)
        BY <3>1, <4>1, <4>2, <4>4, NodeGood, NodeBalanced
      <4> QED
        BY <4>3, <4>5, <4>6
    <3> QED
      BY <3>4, <3>5, <3>6
  <2> QED
    BY <2>3, <2>4
<1>2. G \in SUBSET AnyTree
  OBVIOUS
<1>3. AnyTree = G
  <2> HIDE DEF G
  <2> QED
    BY <1>1, <1>2, TreeInduction
<1> QED
  BY <1>3, DeleteNeverCrashes DEF Good

(* avl_delete: the entry of the key is gone from the tree and the table.    *)
LEMMA DeleteInv ==
  ASSUME Inv, NEW k \in Keys, Delete(k)
  PROVE  Inv'
<1>1. /\ tree # Crash /\ tree' = DeleteAux[tree][k] /\ deleted' = (deleted \/ k \in DOMAIN table)
      /\ table' = Restrict(table, DOMAIN table \ {k})
  BY DEF Delete
<1>2. k \in Nat
  BY EntryType
<1>3. Good(tree) /\ Content(tree) = Entries(table) /\ TableType
  BY <1>1 DEF Inv, TreeIsTable
<1>4. DOMAIN table' = DOMAIN table \ {k} /\ \A x \in DOMAIN table \ {k} : table'[x] = table[x]
  BY <1>1 DEF Restrict
<1>5. TableType'
  BY <1>1, <1>3, <1>4 DEF TableType, Restrict
<1>6. \A x \in DOMAIN table : Entry(x, table[x])[Cmp] = x
  BY <1>3, EntryType DEF TableType
<1>7. Without(Entries(table), k) = Entries(table')
  BY <1>4, <1>6 DEF Without, Entries
<1>8. TreeIsTable'
  BY <1>1, <1>2, <1>3, <1>7, DeleteNeverCrashes DEF TreeIsTable
<1>9. OnlyDeletionUnbalances'
  <2>1. SUFFICES ASSUME ~deleted, k \notin DOMAIN table PROVE tree' # Crash /\ Balanced(tree')
    BY <1>1 DEF OnlyDeletionUnbalances
  <2>2. \A w \in Content(tree) : w[Cmp] # k
    BY <1>3, <1>6, <2>1 DEF Entries
  <2>3. Balanced(tree)
    BY <2>1 DEF Inv, OnlyDeletionUnbalances
  <2> QED
    BY <1>1, <1>2, <1>3, <2>2, <2>3, DeleteAbsent
<1> QED
  BY <1>5, <1>8, <1>9 DEF Inv

(* The tree stands for the table in every state. *)
THEOREM Invariant == Spec => []Inv
<1>1. Inv /\ [Next]_vars => Inv'
  <2>1. SUFFICES ASSUME Inv, [Next]_vars PROVE Inv'
    OBVIOUS
  <2>2. CASE \E k \in Keys, d \in Data : Insert(k, d)
    BY <2>1, <2>2, InsertInv
  <2>3. CASE \E k \in Keys : Delete(k)
    BY <2>1, <2>3, DeleteInv
  <2>4. CASE UNCHANGED vars
    BY <2>1, <2>4 DEF vars, Inv, TableType, TreeIsTable, OnlyDeletionUnbalances
  <2>5. CASE Killed
    BY <2>4, <2>5 DEF Killed
  <2> QED
    BY <2>1, <2>2, <2>3, <2>4, <2>5 DEF Next
<1> QED
  BY <1>1, InitInv, PTL DEF Spec

-----------------------------------------------------------------------------
(* The properties. *)

(* The height every node keeps is the height of its subtree, through all    *)
(* insertions and deletions (set_height, the rotations and avl_delete_aux). *)
THEOREM TypeCorrect == Spec => []TypeOK
<1>1. Inv => TypeOK
  <2>1. SUFFICES ASSUME Inv PROVE TypeOK
    OBVIOUS
  <2>2. tree # Crash => HeightsIn[tree]
    BY <2>1, ComputedRight DEF Inv, TreeIsTable
  <2> QED
    BY <2>1, <2>2 DEF TypeOK, Inv, TableType, Range
<1> QED
  BY <1>1, Invariant, PTL

(* A search finds what was inserted last under its key and not deleted, and *)
(* the tree lists every entry once (avl_search_aux, map_aux).               *)
THEOREM SearchesFind == Spec => []SearchFinds
<1>1. Inv => SearchFinds
  <2>1. SUFFICES ASSUME Inv, tree # Crash
        PROVE  /\ \A k \in Keys : SearchAux[tree]["key"][k] =
                    IF k \in DOMAIN table THEN [key |-> k, data |-> table[k]] ELSE Nil
               /\ Len(InOrder[tree]) = Cardinality(DOMAIN table)
    BY DEF SearchFinds
  <2>2. Good(tree) /\ Content(tree) = Entries(table) /\ TableType
    BY <2>1 DEF Inv, TreeIsTable
  <2>3. \A x \in DOMAIN table : Entry(x, table[x])[Cmp] = x /\ Entry(x, table[x]) # Nil
    BY <2>2, EntryType DEF TableType
  <2>4. ASSUME NEW k \in Keys
        PROVE  SearchAux[tree]["key"][k] = IF k \in DOMAIN table THEN Entry(k, table[k]) ELSE Nil
    <3> DEFINE s == SearchAux[tree]["key"][k]
    <3>1. "key" \in Fields /\ k \in Nat /\ Agrees(Content(tree), "key")
      BY TreeAssumption, EntryType DEF Agrees
    <3>2. \/ s \in Entries(table) /\ s["key"] = k
          \/ s = Nil /\ \A w \in Entries(table) : w["key"] # k
      BY <2>2, <3>1, SearchGood
    <3> HIDE DEF s
    <3>3. \A x \in DOMAIN table : Entry(x, table[x])["key"] = x
      BY <2>3, EntryType
    <3>4. CASE k \in DOMAIN table
      BY <3>2, <3>3, <3>4 DEF Entries, s
    <3>5. CASE k \notin DOMAIN table
      BY <3>2, <3>3, <3>5 DEF Entries, s
    <3> QED
      BY <3>4, <3>5
  <2>5. Len(InOrder[tree]) = Cardinality(DOMAIN table)
    BY <2>1, <2>2, InOrderGood, KeysAreDomain
  <2> QED
    BY <2>4, <2>5 DEF Entry
<1> QED
  BY <1>1, Invariant, PTL

(* A tree from which nothing was deleted stays balanced and follows no null *)
(* pointer, however many values are inserted (insert_aux, avl_tree.c:102).  *)
THEOREM InsertionKeepsBalance == Spec => []InsertKeepsBalance
<1>1. Inv => InsertKeepsBalance
  BY ComputedRight DEF Inv, TreeIsTable, OnlyDeletionUnbalances, InsertKeepsBalance
<1> QED
  BY <1>1, Invariant, PTL

=============================================================================
