------------------------------ MODULE AvlTable ------------------------------
(***************************************************************************)
(* A conc_AVL under a sequence of calls: each holds the mutex for as long  *)
(* as it works on the tree (src/data_structures/avl_concurrent), so that a *)
(* call is a step.  table is what the tree promises to be, a map from keys *)
(* to the data stored last under each.                                     *)
(***************************************************************************)
EXTENDS AvlTree

CONSTANT Data

ASSUME TableAssumption == Cmp = "key" /\ Value = [key : Keys, data : Data]

VARIABLES
  tree,     \* ctree->tree->root
  table,    \* what was inserted and not deleted
  deleted   \* concurrent_avl_delete has been called with a value of the tree

vars == <<tree, table, deleted>>

Init ==
  /\ tree = Nil
  /\ table = <<>>
  /\ deleted = FALSE

Insert(k, d) ==
  /\ tree # Crash
  /\ tree' = InsertAux[tree][[key |-> k, data |-> d]]
  /\ table' = [x \in DOMAIN table \cup {k} |-> IF x = k THEN d ELSE table[x]]
  /\ UNCHANGED deleted

Delete(k) ==
  /\ tree # Crash
  /\ tree' = DeleteAux[tree][k]
  /\ table' = Restrict(table, DOMAIN table \ {k})
  /\ deleted' = (deleted \/ k \in DOMAIN table)

Killed == tree = Crash /\ UNCHANGED vars

Next ==
  \/ \E k \in Keys, d \in Data : Insert(k, d)
  \/ \E k \in Keys : Delete(k)
  \/ Killed

Spec == Init /\ [][Next]_vars

-----------------------------------------------------------------------------
HeightsIn[T \in Tree] ==
  T = Nil \/ /\ T.height = 1 + Larger(Height(T.left), Height(T.right))
             /\ HeightsIn[T.left] /\ HeightsIn[T.right]

BalancedIn[T \in Tree] ==
  T = Nil \/ (BalanceFactor(T) <= 1 /\ BalancedIn[T.left] /\ BalancedIn[T.right])

(* The height kept in every node is the height of its subtree, through all  *)
(* rotations and deletions: balancing is decided on it (avl_tree.c:44-50).  *)
TypeOK ==
  /\ deleted \in BOOLEAN
  /\ DOMAIN table \subseteq Keys /\ Range(table) \subseteq Data
  /\ tree # Crash => HeightsIn[tree]

(* The rotations and the way a value moves up keep the tree a search tree   *)
(* of exactly the values that were inserted and not deleted, each once: a   *)
(* search finds what is there, and avl_map and avl_print list nothing that  *)
(* a replacement or a deletion should have removed (avl_tree.c:56-234).     *)
SearchFinds ==
  tree # Crash =>
    /\ \A k \in Keys : SearchAux[tree]["key"][k] =
         IF k \in DOMAIN table THEN [key |-> k, data |-> table[k]] ELSE Nil
    /\ Len(InOrder[tree]) = Cardinality(DOMAIN table)

(* A tree that is only inserted into, as the one of the shared files is,    *)
(* never crashes and stays balanced (avl_tree.c:102-136).                   *)
InsertKeepsBalance == ~deleted => tree # Crash /\ BalancedIn[tree]

(* avl_insert inserts or updates, whatever was deleted (avl_tree.h:36).     *)
NeverCrashes == tree # Crash

=============================================================================
