----------------------------- MODULE MerkleTree -----------------------------
(***************************************************************************)
(* What the other modules leave out of the commitment tree: the nodes.     *)
(* Leaves are appended with a frontier of one remembered node per level;   *)
(* a wallet proves a leaf with its index and its siblings, and the bits of *)
(* the index choose the sides.  Tree, JoinSplit and Client say "the root   *)
(* is the sequence of its leaves" and "a path exists exactly for the leaf  *)
(* at that index"; the properties here are what entitles them to it.       *)
(*                                                                         *)
(* The two-input hash is a pair, hence injective; a leaf is no pair.       *)
(***************************************************************************)
EXTENDS Integers, Sequences

CONSTANTS
    Depth,   \* TREE_DEPTH
    Leaves,  \* commitments
    Empty    \* the zero leaf, which no commitment is

ASSUME MerkleAssumption == Depth \in Nat \ {0} /\ Empty \notin Leaves

VARIABLES
    leaves,    \* the commitments announced by NewCommitment events, in order
    frontier   \* [filled, next, root]

vars == <<leaves, frontier>>

Power[n \in 0 .. Depth] == IF n = 0 THEN 1 ELSE 2 * Power[n - 1]

Capacity       == Power[Depth]
Levels         == 0 .. Depth - 1
Places(height) == 0 .. Power[Depth - height] - 1

Node(left, right) == <<left, right>>

(* Poseidon::zero_bytes: the root of an empty subtree of each height. *)
Zero[height \in 0 .. Depth] ==
    IF height = 0 THEN Empty ELSE Node(Zero[height - 1], Zero[height - 1])

(* The places, from the bottom up, of the nodes above a leaf. *)
Above(index) ==
    LET place[height \in 0 .. Depth] ==
            IF height = 0 THEN index ELSE place[height - 1] \div 2
    IN place

Bit(index, level) == Above(index)[level] % 2

(* The nodes from a leaf up, given what each is joined with: an even place is a
   left child. *)
Climb(leaf, index, siblings) ==
    LET node[height \in 0 .. Depth] ==
            IF height = 0 THEN leaf
            ELSE IF Bit(index, height - 1) = 0
                 THEN Node(node[height - 1], siblings[height])
                 ELSE Node(siblings[height], node[height - 1])
    IN node

-----------------------------------------------------------------------------
(* The append of one leaf. *)

EmptyFrontier == [filled |-> [level \in Levels |-> Zero[level]], next |-> 0, root |-> Zero[Depth]]

(* Seeded fault: a node completed on the right is not joined with the one
   remembered on the left. *)
JoinedAlone(f) == [height \in 1 .. Depth |-> Zero[height - 1]]

(* A left child is joined with an empty subtree, a right child with the finished
   subtree to its left. *)
Joined(f) ==
    [height \in 1 .. Depth |->
        IF Bit(f.next, height - 1) = 0 THEN Zero[height - 1] ELSE f.filled[height - 1]]

Extended(f, leaf) ==
    LET node == Climb(leaf, f.next, Joined(f)) IN
    [filled |-> [level \in Levels |->
                    IF Bit(f.next, level) = 0 THEN node[level] ELSE f.filled[level]],
     next   |-> f.next + 1,
     root   |-> node[Depth]]

(* A full tree refuses. *)
AppendLeaf(leaf) ==
    /\ frontier.next < Capacity
    /\ frontier' = Extended(frontier, leaf)
    /\ leaves' = Append(leaves, leaf)

Init == leaves = << >> /\ frontier = EmptyFrontier

Next == \E leaf \in Leaves : AppendLeaf(leaf)

Spec == Init /\ [][Next]_vars

-----------------------------------------------------------------------------
(* The root that a leaf, an index and siblings lead to. *)

(* Seeded fault: the bits of the index are read from the root down. *)
MerkleRootFromTop(leaf, index, siblings) ==
    LET node[height \in 0 .. Depth] ==
            IF height = 0 THEN leaf
            ELSE IF Bit(index, Depth - height) = 0
                 THEN Node(node[height - 1], siblings[height])
                 ELSE Node(siblings[height], node[height - 1])
    IN node[Depth]

MerkleRoot(leaf, index, siblings) == Climb(leaf, index, siblings)[Depth]

(* Seeded fault: only the low bits of the index are looked at. *)
ProvesLowBits(root, leaf, index, siblings) == MerkleRoot(leaf, index, siblings) = root

(* compute_root, whose decomposition into DEPTH bits fails beyond the tree. *)
Proves(root, leaf, index, siblings) ==
    /\ index < Capacity
    /\ MerkleRoot(leaf, index, siblings) = root

-----------------------------------------------------------------------------
(* The tree over a whole sequence, padded with empty leaves. *)

NodesOf(seq) ==
    LET row[height \in 0 .. Depth] ==
            IF height = 0
            THEN [i \in Places(0) |-> IF i < Len(seq) THEN seq[i + 1] ELSE Empty]
            ELSE [i \in Places(height) |-> Node(row[height - 1][2 * i], row[height - 1][2 * i + 1])]
    IN row

RootOf(seq) == NodesOf(seq)[Depth][0]

Sibling(position) == IF position % 2 = 0 THEN position + 1 ELSE position - 1

(* The path a wallet reads from the events it has seen. *)
PathOf(seq, index) ==
    LET row == NodesOf(seq)  place == Above(index) IN
    [height \in 1 .. Depth |-> row[height - 1][Sibling(place[height - 1])]]

(* Paths to any place of the tree as it is or as it was. *)
WalletPaths ==
    {PathOf(SubSeq(leaves, 1, n), i) : n \in 0 .. Len(leaves), i \in Places(0)}

-----------------------------------------------------------------------------
(* The incremental root is the root of all leaves so far: what the program
   publishes is what wallets rebuild from its events. *)
FrontierIsTree ==
    /\ frontier.next = Len(leaves)
    /\ frontier.root = RootOf(leaves)

(* A path proves a leaf exactly when that leaf is at that index and the path is
   the one to it in the present tree.  In particular an index that only agrees
   with it in the bits the path uses proves nothing: the index also makes the
   nullifier, and a second index for a leaf would be a second nullifier. *)
PathsProveMembership ==
    \A leaf \in Leaves, index \in 0 .. 2 * Capacity - 1, siblings \in WalletPaths :
        Proves(frontier.root, leaf, index, siblings)
            <=> /\ index < Len(leaves)
                /\ leaves[index + 1] = leaf
                /\ siblings = PathOf(leaves, index)

(* The root a wallet computes for a note it remembers wrongly is that of the
   tree with the note put in its place. *)
PathReplacesLeaf ==
    \A leaf \in Leaves, index \in 0 .. Len(leaves) - 1 :
        MerkleRoot(leaf, index, PathOf(leaves, index))
            = RootOf([leaves EXCEPT ![index + 1] = leaf])

=============================================================================
