-------------------------------- MODULE Tree --------------------------------
(***************************************************************************)
(* The commitment tree of the pool (tree.rs over Light's concurrent Merkle *)
(* tree): an append-only sequence of leaves and a ring of the most recent  *)
(* roots.  A root is the sequence of the leaves it commits to, so the      *)
(* current root of the tree is the sequence of its leaves.                 *)
(***************************************************************************)
EXTENDS Integers, Sequences

CONSTANTS
    TreeCapacity,  \* 2^TREE_HEIGHT leaves
    RootWindow     \* ROOTS_SIZE roots are remembered

ASSUME TreeAssumption ==
    /\ TreeCapacity \in Nat
    /\ RootWindow \in Nat /\ RootWindow > 0

EmptyTree == [leaves |-> << >>, roots |-> << << >> >>]

(* Seeded fault: the ring holds one root too many. *)
PushRootLate(roots, root) ==
    Append(IF Len(roots) <= RootWindow THEN roots ELSE Tail(roots), root)

(* A full ring forgets its oldest root for each new one. *)
PushRoot(roots, root) ==
    Append(IF Len(roots) < RootWindow THEN roots ELSE Tail(roots), root)

CanInsert(tree) == Len(tree.leaves) < TreeCapacity

(* Seeded fault: the index is read after the append. *)
NextIndexAfter(tree) == Len(tree.leaves) + 1

NextIndex(tree) == Len(tree.leaves)

Insert(tree, leaf) ==
    LET leaves == Append(tree.leaves, leaf) IN
    [leaves |-> leaves, roots |-> PushRoot(tree.roots, leaves)]

ContainsRoot(tree, root) == \E k \in DOMAIN tree.roots : tree.roots[k] = root

(* The root the tree had when it held its first n leaves. *)
RootAt(tree, n) == SubSeq(tree.leaves, 1, n)

=============================================================================
