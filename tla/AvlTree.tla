------------------------------- MODULE AvlTree -------------------------------
(***************************************************************************)
(* The functions of src/data_structures/avl_tree/avl_tree.c on a tree.     *)
(*                                                                         *)
(* A tree is Nil or a node [value, height, left, right]; a value is a      *)
(* record, and a comparison function is the name of the field it compares, *)
(* a number.  The memory of the nodes is not modelled but the values' is:  *)
(* Freed is what an operation passes to the del function.  Following a     *)
(* null pointer gives Crash, which no function recovers from.              *)
(*                                                                         *)
(* The recursive functions of the code are recursive functions on the set  *)
(* Tree.  What they have to be given besides the tree is the argument of   *)
(* the function they return: InsertAux[T][v] inserts v into T.             *)
(*                                                                         *)
(* The field size of the nodes is left out: nothing reads it.              *)
(***************************************************************************)
EXTENDS Integers, Sequences, FiniteSets, Functions

CONSTANTS
  Value,      \* the values a tree may hold: records
  Fields,     \* the fields of a value that some function compares
  Cmp,        \* the one that orders the tree: tree->cmp
  MaxDepth    \* how deep a tree can be: no deeper than there are keys

Keys == {v[Cmp] : v \in Value}

ASSUME TreeAssumption ==
  /\ Cmp \in Fields
  /\ \A v \in Value, f \in Fields : v[f] \in Nat
  /\ MaxDepth \in Nat
  /\ IsFiniteSet(Keys) /\ Cardinality(Keys) <= MaxDepth

(* A null pointer, and what following one gives: neither a node nor a value. *)
Nil == [pointer |-> "NULL"]
Crash == [pointer |-> "followed"]

Nodes(subtrees) == [value : Value, height : Nat, left : subtrees, right : subtrees]

(* The trees that are at most d nodes deep. *)
Trees[d \in Nat] == IF d = 0 THEN {Nil} ELSE {Nil} \cup Nodes(Trees[d - 1])

Tree == Trees[MaxDepth]

Larger(a, b) == IF a > b THEN a ELSE b

Height(T) == IF T = Nil THEN 0 ELSE T.height

(* Mutant: the height is that of one side. *)
NodeLeftHeight(v, l, r) ==
  [value |-> v, height |-> 1 + Height(l), left |-> l, right |-> r]

(* A node after set_height. *)
Node(v, l, r) ==
  [value |-> v, height |-> 1 + Larger(Height(l), Height(r)), left |-> l, right |-> r]

Leaf(v) == Node(v, Nil, Nil)

-----------------------------------------------------------------------------
(* Rotations.  As in the code, left is the side the new root comes from. *)

(* Mutant: the subtree between the two nodes is lost. *)
SimpleRotLeftLoses(T) ==
  IF T = Nil \/ T.left = Nil THEN Crash
  ELSE Node(T.left.value, T.left.left, Node(T.value, Nil, T.right))

SimpleRotLeft(T) ==
  IF T = Nil \/ T.left = Nil THEN Crash
  ELSE Node(T.left.value, T.left.left, Node(T.value, T.left.right, T.right))

SimpleRotRight(T) ==
  IF T = Nil \/ T.right = Nil THEN Crash
  ELSE Node(T.right.value, Node(T.value, T.left, T.right.left), T.right.right)

DoubleRotLR(T) ==
  LET l == SimpleRotRight(T.left)
  IN  IF l = Crash THEN Crash ELSE SimpleRotLeft([T EXCEPT !.left = l])

DoubleRotRL(T) ==
  LET r == SimpleRotLeft(T.right)
  IN  IF r = Crash THEN Crash ELSE SimpleRotRight([T EXCEPT !.right = r])

(* Mutant: the balance is restored by a simple rotation, always. *)
BalanceLeftSimple(T) == SimpleRotLeft(T)

BalanceLeft(T) ==
  IF T.left = Nil THEN Crash
  ELSE IF Height(T.left.left) > Height(T.left.right) THEN SimpleRotLeft(T)
  ELSE DoubleRotLR(T)

BalanceRight(T) ==
  IF T.right = Nil THEN Crash
  ELSE IF Height(T.right.right) > Height(T.right.left) THEN SimpleRotRight(T)
  ELSE DoubleRotRL(T)

Abs(n) == IF n < 0 THEN -n ELSE n

BalanceFactor(T) == Abs(Height(T.left) - Height(T.right))

-----------------------------------------------------------------------------
(* T after its left or right subtree was inserted into.  The test of the    *)
(* balance does not say which side is the higher one: the side that is      *)
(* rotated is the one the value went to.                                    *)
GrownLeft(T, l) ==
  LET n == Node(T.value, l, T.right)
  IN  IF l = Crash THEN Crash ELSE IF BalanceFactor(n) > 1 THEN BalanceLeft(n) ELSE n

GrownRight(T, r) ==
  LET n == Node(T.value, T.left, r)
  IN  IF r = Crash THEN Crash ELSE IF BalanceFactor(n) > 1 THEN BalanceRight(n) ELSE n

(* insert_aux; a value that is there is replaced by a copy of the new one.  *)
InsertAux[T \in Tree] == [v \in Value |->
  IF T = Nil THEN Leaf(v)
  ELSE IF T.value[Cmp] > v[Cmp] THEN GrownLeft(T, InsertAux[T.left][v])
  ELSE IF T.value[Cmp] < v[Cmp] THEN GrownRight(T, InsertAux[T.right][v])
  ELSE [T EXCEPT !.value = v]]

(* Mutant: the other way. *)
TowardSwapped(T, x, cmp) == IF T.value[cmp] > x THEN T.right ELSE T.left

(* The subtree a search goes on in. *)
Toward(T, x, cmp) == IF T.value[cmp] > x THEN T.left ELSE T.right

(* avl_search_aux: the value whose field cmp is x, or Nil. *)
SearchAux[T \in Tree] == [cmp \in Fields |-> [x \in Nat |->
  IF T = Nil THEN Nil
  ELSE IF T.value[cmp] = x THEN T.value
  ELSE SearchAux[Toward(T, x, cmp)][cmp][x]]]

GetMax[T \in Tree \ {Nil}] == IF T.right = Nil THEN T.value ELSE GetMax[T.right]

(* Mutant: the value that replaces the deleted one stays where it was too. *)
TakeMaxKeeps(l, rest) == l

(* What is left of the left subtree once its largest value has moved up. *)
TakeMax(l, rest) == rest

(* T after something was deleted from its left or right subtree. *)
ShrunkLeft(T, l) ==
  LET n == Node(T.value, l, T.right)
  IN  IF l = Crash THEN Crash ELSE IF Height(l) < Height(T.right) - 1 THEN BalanceRight(n) ELSE n

ShrunkRight(T, r) ==
  LET n == Node(T.value, T.left, r)
  IN  IF r = Crash THEN Crash ELSE IF Height(r) < Height(T.left) - 1 THEN BalanceLeft(n) ELSE n

(* T after max moved up from its left subtree, which left l of it.  This    *)
(* node is not balanced again, only those above it are.                     *)
Replaced(T, max, l) == IF l = Crash THEN Crash ELSE Node(max, TakeMax(T.left, l), T.right)

(* avl_delete_aux *)
DeleteAux[T \in Tree] == [x \in Nat |->
  IF T = Nil THEN Nil
  ELSE IF T.value[Cmp] = x THEN
    IF T.left = Nil THEN T.right
    ELSE Replaced(T, GetMax[T.left], DeleteAux[T.left][GetMax[T.left][Cmp]])
  ELSE IF T.value[Cmp] > x THEN ShrunkLeft(T, DeleteAux[T.left][x])
  ELSE ShrunkRight(T, DeleteAux[T.right][x])]

(* The values avl_delete_aux passes to del: the one that is deleted and,    *)
(* since the value that replaces it is a copy, that one, and so on down.    *)
Freed[T \in Tree] == [x \in Nat |->
  IF T = Nil THEN {}
  ELSE IF T.value[Cmp] = x THEN
    {T.value} \cup (IF T.left = Nil THEN {} ELSE Freed[T.left][GetMax[T.left][Cmp]])
  ELSE Freed[Toward(T, x, Cmp)][x]]

(* map_aux with the function g. *)
MapAux[T \in Tree] == [g \in [Value -> Value] |->
  IF T = Nil THEN Nil
  ELSE [T EXCEPT !.value = g[@], !.left = MapAux[@][g], !.right = MapAux[@][g]]]

InOrder[T \in Tree] ==
  IF T = Nil THEN <<>> ELSE InOrder[T.left] \o <<T.value>> \o InOrder[T.right]

(* The values of a tree. *)
Values(T) == Range(InOrder[T])

=============================================================================
