---------------------------- MODULE MerkleProofs ----------------------------
(***************************************************************************)
(* The commitment tree's nodes, for every depth: the frontier publishes    *)
(* the root of all leaves, a path proves exactly the leaf it leads to, and *)
(* a leaf remembered wrongly gives the root of another tree.               *)
(***************************************************************************)
EXTENDS MerkleTree, WellFoundedInduction, TLAPS

-----------------------------------------------------------------------------
(* Counting up to the depth.                                               *)

(* Pairs of naturals, the first below the second. *)
Below == {p \in Nat \X Nat : p[1] < p[2]}

(* A set that holds 0 and, up to a limit, the successor of each of its numbers
   holds all numbers up to the limit. *)
LEMMA CountingTo ==
    ASSUME NEW limit \in Nat, NEW T, 0 \in T,
           \A n \in 0 .. limit - 1 : n \in T => n + 1 \in T
    PROVE  \A n \in 0 .. limit : n \in T
<1> SUFFICES ASSUME NEW k \in 0 .. limit, k \notin T PROVE FALSE
  OBVIOUS
<1> DEFINE U == {n \in 0 .. limit : n \notin T}
<1>1. U \in SUBSET Nat /\ U # {}
  OBVIOUS
<1> HIDE DEF U
<1>2. PICK n \in U : \A m \in U : ~ (<<m, n>> \in Below)
  <2>1. IsWellFoundedOn(Below, Nat)
    BY NatLessThanWellFounded DEF OpToRel, Below
  <2> QED BY <1>1, <2>1, WFMin
<1>3. n \in 0 .. limit /\ n \notin T
  BY <1>2 DEF U
<1>4. n - 1 \in 0 .. limit - 1 /\ n - 1 \in T
  <2>1. n # 0
    BY <1>3
  <2>2. n - 1 \in 0 .. limit - 1 /\ n - 1 \in 0 .. limit /\ <<n - 1, n>> \in Below
    BY <2>1, <1>3 DEF Below
  <2> QED BY <2>2, <1>2 DEF U
<1> QED BY <1>3, <1>4

LEMMA DepthType == Depth \in Nat \ {0} /\ Empty \notin Leaves
BY MerkleAssumption

(* The recursive functions of the model are what their definitions say: there
   is one function for each that agrees with itself, made level by level. *)

LEMMA PowerDef == Power[0] = 1 /\ \A n \in 1 .. Depth : Power[n] = 2 * Power[n - 1]
<1> DEFINE Is(f, m) == f = [n \in 0 .. m |-> IF n = 0 THEN 1 ELSE 2 * f[n - 1]]
           T == {m \in Nat : \E f : Is(f, m)}
<1>1. 0 \in T
  <2>1. Is([n \in 0 .. 0 |-> 1], 0)
    OBVIOUS
  <2> QED BY <2>1
<1>2. ASSUME NEW m \in 0 .. Depth - 1, m \in T PROVE m + 1 \in T
  <2>1. PICK f : Is(f, m)
    BY <1>2
  <2> DEFINE g == [n \in 0 .. m + 1 |-> IF n <= m THEN f[n] ELSE 2 * f[m]]
  <2>2. Is(g, m + 1)
    BY <2>1
  <2> HIDE DEF Is, g
  <2>3. \E k : Is(k, m + 1)
    BY <2>2
  <2> QED BY <2>3
<1> HIDE DEF T
<1>3. Depth \in T
  BY <1>1, <1>2, CountingTo, DepthType
<1>4. Is(Power, Depth)
  BY <1>3 DEF T, Power
<1>5. \A n \in 0 .. Depth : Power[n] = IF n = 0 THEN 1 ELSE 2 * Power[n - 1]
  BY <1>4
<1> HIDE DEF Is
<1> QED BY <1>5, DepthType

LEMMA ZeroDef ==
    Zero[0] = Empty /\ \A h \in 1 .. Depth : Zero[h] = Node(Zero[h - 1], Zero[h - 1])
<1> DEFINE Is(f, m) == f = [h \in 0 .. m |-> IF h = 0 THEN Empty ELSE Node(f[h - 1], f[h - 1])]
           T == {m \in Nat : \E f : Is(f, m)}
<1>1. 0 \in T
  <2>1. Is([h \in 0 .. 0 |-> Empty], 0)
    OBVIOUS
  <2> QED BY <2>1
<1>2. ASSUME NEW m \in 0 .. Depth - 1, m \in T PROVE m + 1 \in T
  <2>1. PICK f : Is(f, m)
    BY <1>2
  <2> DEFINE g == [h \in 0 .. m + 1 |-> IF h <= m THEN f[h] ELSE Node(f[m], f[m])]
  <2>2. Is(g, m + 1)
    BY <2>1
  <2> HIDE DEF Is, g
  <2>3. \E k : Is(k, m + 1)
    BY <2>2
  <2> QED BY <2>3
<1> HIDE DEF T
<1>3. Depth \in T
  BY <1>1, <1>2, CountingTo, DepthType
<1>4. Is(Zero, Depth)
  BY <1>3 DEF T, Zero
<1>5. \A h \in 0 .. Depth : Zero[h] = IF h = 0 THEN Empty ELSE Node(Zero[h - 1], Zero[h - 1])
  BY <1>4
<1> HIDE DEF Is
<1> QED BY <1>5, DepthType

LEMMA AboveDef ==
    ASSUME NEW index
    PROVE  /\ Above(index)[0] = index
           /\ \A h \in 1 .. Depth : Above(index)[h] = Above(index)[h - 1] \div 2
<1> DEFINE Is(f, m) == f = [h \in 0 .. m |-> IF h = 0 THEN index ELSE f[h - 1] \div 2]
           T == {m \in Nat : \E f : Is(f, m)}
<1>1. 0 \in T
  <2>1. Is([h \in 0 .. 0 |-> index], 0)
    OBVIOUS
  <2> QED BY <2>1
<1>2. ASSUME NEW m \in 0 .. Depth - 1, m \in T PROVE m + 1 \in T
  <2>1. PICK f : Is(f, m)
    BY <1>2
  <2> DEFINE g == [h \in 0 .. m + 1 |-> IF h <= m THEN f[h] ELSE f[m] \div 2]
  <2>2. Is(g, m + 1)
    BY <2>1
  <2> HIDE DEF Is, g
  <2>3. \E k : Is(k, m + 1)
    BY <2>2
  <2> QED BY <2>3
<1> HIDE DEF T
<1>3. Depth \in T
  BY <1>1, <1>2, CountingTo, DepthType
<1>4. Is(Above(index), Depth)
  BY <1>3 DEF T, Above
<1>5. \A h \in 0 .. Depth : Above(index)[h] = IF h = 0 THEN index ELSE Above(index)[h - 1] \div 2
  BY <1>4
<1> HIDE DEF Is
<1> QED BY <1>5, DepthType

LEMMA ClimbDef ==
    ASSUME NEW leaf, NEW index, NEW siblings
    PROVE  LET node == Climb(leaf, index, siblings) IN
           /\ node[0] = leaf
           /\ \A h \in 1 .. Depth :
                 node[h] = IF Bit(index, h - 1) = 0 THEN Node(node[h - 1], siblings[h])
                                                    ELSE Node(siblings[h], node[h - 1])
<1> DEFINE Up(h, node) == IF Bit(index, h - 1) = 0 THEN Node(node, siblings[h])
                                                   ELSE Node(siblings[h], node)
<1> HIDE DEF Up
<1> DEFINE Is(f, m) == f = [h \in 0 .. m |-> IF h = 0 THEN leaf ELSE Up(h, f[h - 1])]
           T == {m \in Nat : \E f : Is(f, m)}
<1>1. 0 \in T
  <2>1. Is([h \in 0 .. 0 |-> leaf], 0)
    OBVIOUS
  <2> QED BY <2>1
<1>2. ASSUME NEW m \in 0 .. Depth - 1, m \in T PROVE m + 1 \in T
  <2>1. PICK f : Is(f, m)
    BY <1>2
  <2> DEFINE g == [h \in 0 .. m + 1 |-> IF h <= m THEN f[h] ELSE Up(m + 1, f[m])]
  <2>2. Is(g, m + 1)
    BY <2>1
  <2> HIDE DEF Is, g
  <2>3. \E k : Is(k, m + 1)
    BY <2>2
  <2> QED BY <2>3
<1> HIDE DEF T
<1>3. Depth \in T
  BY <1>1, <1>2, CountingTo, DepthType
<1>4. Is(Climb(leaf, index, siblings), Depth)
  BY <1>3 DEF T, Climb, Up
<1> DEFINE node == Climb(leaf, index, siblings)
<1> HIDE DEF node
<1>5. \A h \in 0 .. Depth : node[h] = IF h = 0 THEN leaf ELSE Up(h, node[h - 1])
  BY <1>4 DEF node
<1> HIDE DEF Is
<1>6. node[0] = leaf /\ \A h \in 1 .. Depth : node[h] = Up(h, node[h - 1])
  BY <1>5, DepthType
<1> QED BY <1>6 DEF Up, node

LEMMA NodesDef ==
    ASSUME NEW seq
    PROVE  /\ NodesOf(seq)[0] = [i \in Places(0) |-> IF i < Len(seq) THEN seq[i + 1] ELSE Empty]
           /\ \A h \in 1 .. Depth :
                 NodesOf(seq)[h] = [i \in Places(h) |-> Node(NodesOf(seq)[h - 1][2 * i],
                                                             NodesOf(seq)[h - 1][2 * i + 1])]
<1> DEFINE bottom == [i \in Places(0) |-> IF i < Len(seq) THEN seq[i + 1] ELSE Empty]
           Over(h, row) == [i \in Places(h) |-> Node(row[2 * i], row[2 * i + 1])]
<1> HIDE DEF bottom, Over
<1> DEFINE Is(f, m) == f = [h \in 0 .. m |-> IF h = 0 THEN bottom ELSE Over(h, f[h - 1])]
           T == {m \in Nat : \E f : Is(f, m)}
<1>1. 0 \in T
  <2>1. Is([h \in 0 .. 0 |-> bottom], 0)
    OBVIOUS
  <2> QED BY <2>1
<1>2. ASSUME NEW m \in 0 .. Depth - 1, m \in T PROVE m + 1 \in T
  <2>1. PICK f : Is(f, m)
    BY <1>2
  <2> DEFINE g == [h \in 0 .. m + 1 |-> IF h <= m THEN f[h] ELSE Over(m + 1, f[m])]
  <2>2. Is(g, m + 1)
    BY <2>1
  <2> HIDE DEF Is, g
  <2>3. \E k : Is(k, m + 1)
    BY <2>2
  <2> QED BY <2>3
<1> HIDE DEF T
<1>3. Depth \in T
  BY <1>1, <1>2, CountingTo, DepthType
<1>4. Is(NodesOf(seq), Depth)
  BY <1>3 DEF T, NodesOf, bottom, Over
<1> DEFINE row == NodesOf(seq)
<1> HIDE DEF row
<1>5. \A h \in 0 .. Depth : row[h] = IF h = 0 THEN bottom ELSE Over(h, row[h - 1])
  BY <1>4 DEF row
<1> HIDE DEF Is
<1>6. row[0] = bottom /\ \A h \in 1 .. Depth : row[h] = Over(h, row[h - 1])
  BY <1>5, DepthType
<1> QED BY <1>6 DEF bottom, Over, row

-----------------------------------------------------------------------------
(* Places: which nodes there are, and which of them are above a leaf. *)

LEMMA PowerType == \A n \in 0 .. Depth : Power[n] \in Nat \ {0}
<1> DEFINE T == {n \in Nat : n <= Depth => Power[n] \in Nat \ {0}}
<1>1. 0 \in T
  BY PowerDef
<1>2. ASSUME NEW n \in 0 .. Depth - 1, n \in T PROVE n + 1 \in T
  <2>1. Power[n + 1] = 2 * Power[n]
    BY PowerDef, DepthType
  <2> QED BY <1>2, <2>1, DepthType
<1> HIDE DEF T
<1>3. \A n \in 0 .. Depth : n \in T
  BY <1>1, <1>2, CountingTo, DepthType
<1> QED BY <1>3 DEF T

(* The children of a node have places, and so have the parents. *)
LEMMA PlacesStep ==
    ASSUME NEW h \in 1 .. Depth
    PROVE  /\ \A i \in Places(h) : /\ 2 * i \in Places(h - 1)
                                   /\ 2 * i + 1 \in Places(h - 1)
           /\ \A i \in Places(h - 1) : i \div 2 \in Places(h)
<1>1. /\ Depth - h + 1 \in 1 .. Depth /\ Depth - h \in 0 .. Depth
      /\ Depth - (h - 1) = Depth - h + 1 /\ (Depth - h + 1) - 1 = Depth - h
  BY DepthType
<1>2. Power[Depth - (h - 1)] = 2 * Power[Depth - h] /\ Power[Depth - h] \in Nat
  BY <1>1, PowerDef, PowerType
<1> DEFINE p == Power[Depth - h]
<1>3. Places(h) = 0 .. p - 1 /\ Places(h - 1) = 0 .. (2 * p) - 1 /\ p \in Nat
  BY <1>2 DEF Places
<1> HIDE DEF p
<1> QED BY <1>3

LEMMA TopPlace == Places(Depth) = {0} /\ Places(0) = 0 .. Capacity - 1 /\ Capacity \in Nat \ {0}
BY PowerDef, PowerType, DepthType DEF Places, Capacity

LEMMA AbovePlace ==
    ASSUME NEW index \in Places(0)
    PROVE  \A h \in 0 .. Depth : Above(index)[h] \in Places(h)
<1> DEFINE T == {h \in Nat : h <= Depth => Above(index)[h] \in Places(h)}
<1>1. 0 \in T
  BY AboveDef
<1>2. ASSUME NEW n \in 0 .. Depth - 1, n \in T PROVE n + 1 \in T
  <2>1. n + 1 \in 1 .. Depth /\ (n + 1) - 1 = n /\ n \in Nat /\ n <= Depth
    BY DepthType
  <2>2. Above(index)[n + 1] = Above(index)[n] \div 2
    BY <2>1, AboveDef
  <2>3. \A i \in Places(n) : i \div 2 \in Places(n + 1)
    BY <2>1, PlacesStep
  <2> QED BY <1>2, <2>1, <2>2, <2>3
<1> HIDE DEF T
<1>3. \A n \in 0 .. Depth : n \in T
  BY <1>1, <1>2, CountingTo, DepthType
<1> QED BY <1>3 DEF T

(* The node above a leaf is a child of the next one above it, on the side that
   the bit says, and its sibling is the other child. *)
LEMMA AboveStep ==
    ASSUME NEW index \in Places(0), NEW h \in 1 .. Depth
    PROVE  LET low == Above(index)[h - 1]  high == Above(index)[h] IN
           /\ low \in Places(h - 1) /\ low \in Nat /\ high \in Places(h) /\ high \in Nat
           /\ Sibling(low) \in Places(h - 1) /\ Sibling(low) # low
           /\ \/ Bit(index, h - 1) = 0 /\ low = 2 * high /\ Sibling(low) = 2 * high + 1
              \/ Bit(index, h - 1) = 1 /\ low = 2 * high + 1 /\ Sibling(low) = 2 * high
<1> DEFINE low == Above(index)[h - 1]
           high == Above(index)[h]
<1>1. low \in Places(h - 1) /\ high \in Places(h) /\ h - 1 \in 0 .. Depth
  BY AbovePlace, DepthType
<1>2. high = low \div 2 /\ Bit(index, h - 1) = low % 2
  BY AboveDef DEF Bit
<1>3. low \in Nat /\ high \in Nat
  BY <1>1 DEF Places
<1>4. 2 * high \in Places(h - 1) /\ 2 * high + 1 \in Places(h - 1)
  BY <1>1, PlacesStep
<1> HIDE DEF low, high
<1>5. \/ low % 2 = 0 /\ low = 2 * high /\ Sibling(low) = 2 * high + 1 /\ Sibling(low) # low
      \/ low % 2 = 1 /\ low = 2 * high + 1 /\ Sibling(low) = 2 * high /\ Sibling(low) # low
  BY <1>2, <1>3 DEF Sibling
<1>6. Sibling(low) \in Places(h - 1)
  BY <1>4, <1>5
<1> QED BY <1>1, <1>2, <1>3, <1>5, <1>6 DEF low, high

(* The leaves of the tree, *)
LEMMA LeafAt ==
    ASSUME NEW seq, NEW i \in Places(0)
    PROVE  NodesOf(seq)[0][i] = IF i < Len(seq) THEN seq[i + 1] ELSE Empty
<1>1. NodesOf(seq)[0] = [j \in Places(0) |-> IF j < Len(seq) THEN seq[j + 1] ELSE Empty]
  BY NodesDef
<1> QED BY <1>1

(* and a node over its two children. *)
LEMMA NodeOver ==
    ASSUME NEW seq, NEW h \in 1 .. Depth, NEW i \in Places(h)
    PROVE  NodesOf(seq)[h][i] = Node(NodesOf(seq)[h - 1][2 * i], NodesOf(seq)[h - 1][2 * i + 1])
<1>1. NodesOf(seq)[h] = [j \in Places(h) |-> Node(NodesOf(seq)[h - 1][2 * j],
                                                  NodesOf(seq)[h - 1][2 * j + 1])]
  BY NodesDef
<1> QED BY <1>1

-----------------------------------------------------------------------------
(* Paths. *)

(* A leaf of a tree climbs through that tree when it is joined with its
   siblings there. *)
LEMMA ClimbFollowsTree ==
    ASSUME NEW seq, NEW index \in Places(0), NEW siblings,
           \A h \in 1 .. Depth :
              siblings[h] = NodesOf(seq)[h - 1][Sibling(Above(index)[h - 1])],
           NEW leaf, leaf = NodesOf(seq)[0][index]
    PROVE  \A h \in 0 .. Depth :
              Climb(leaf, index, siblings)[h] = NodesOf(seq)[h][Above(index)[h]]
<1> DEFINE node == Climb(leaf, index, siblings)
           row  == NodesOf(seq)
           T    == {h \in Nat : h <= Depth => node[h] = row[h][Above(index)[h]]}
<1>1. 0 \in T
  BY ClimbDef, AboveDef
<1>2. ASSUME NEW n \in 0 .. Depth - 1, n \in T PROVE n + 1 \in T
  <2>1. n + 1 \in 1 .. Depth /\ (n + 1) - 1 = n /\ n \in Nat /\ n <= Depth
    BY DepthType
  <2> DEFINE low == Above(index)[n]
             high == Above(index)[n + 1]
  <2>2. node[n] = row[n][low]
    BY <1>2, <2>1
  <2>3. siblings[n + 1] = row[n][Sibling(low)]
    BY <2>1
  <2>4. row[n + 1][high] = Node(row[n][2 * high], row[n][2 * high + 1])
    BY <2>1, NodeOver, AboveStep
  <2>5. node[n + 1] = IF Bit(index, n) = 0 THEN Node(node[n], siblings[n + 1])
                                           ELSE Node(siblings[n + 1], node[n])
    BY <2>1, ClimbDef
  <2>6. \/ Bit(index, n) = 0 /\ low = 2 * high /\ Sibling(low) = 2 * high + 1
        \/ Bit(index, n) = 1 /\ low = 2 * high + 1 /\ Sibling(low) = 2 * high
    BY <2>1, AboveStep
  <2> HIDE DEF node, row, low, high
  <2>7. node[n + 1] = row[n + 1][high]
    BY <2>2, <2>3, <2>4, <2>5, <2>6
  <2> QED BY <2>1, <2>7 DEF high
<1> HIDE DEF T
<1>3. \A n \in 0 .. Depth : n \in T
  BY <1>1, <1>2, CountingTo, DepthType
<1> QED BY <1>3 DEF T

(* And only then: two leaves that reach one root from one place are one leaf,
   joined with the same siblings all the way up. *)
LEMMA ClimbOnlyFollowsTree ==
    ASSUME NEW seq, NEW index \in Places(0), NEW siblings, NEW leaf,
           Climb(leaf, index, siblings)[Depth] = RootOf(seq)
    PROVE  /\ leaf = NodesOf(seq)[0][index]
           /\ \A h \in 1 .. Depth :
                 siblings[h] = NodesOf(seq)[h - 1][Sibling(Above(index)[h - 1])]
<1> DEFINE node == Climb(leaf, index, siblings)
           row  == NodesOf(seq)
           On(h) == node[h] = row[h][Above(index)[h]]
           T    == {n \in Nat : n <= Depth => On(Depth - n)}
<1>1. ASSUME NEW h \in 1 .. Depth, On(h)
      PROVE  On(h - 1) /\ siblings[h] = row[h - 1][Sibling(Above(index)[h - 1])]
  <2> DEFINE low == Above(index)[h - 1]
             high == Above(index)[h]
  <2>1. node[h] = row[h][high]
    BY <1>1
  <2>2. row[h][high] = Node(row[h - 1][2 * high], row[h - 1][2 * high + 1])
    BY NodeOver, AboveStep
  <2>3. node[h] = IF Bit(index, h - 1) = 0 THEN Node(node[h - 1], siblings[h])
                                           ELSE Node(siblings[h], node[h - 1])
    BY ClimbDef
  <2>4. \/ Bit(index, h - 1) = 0 /\ low = 2 * high /\ Sibling(low) = 2 * high + 1
        \/ Bit(index, h - 1) = 1 /\ low = 2 * high + 1 /\ Sibling(low) = 2 * high
    BY AboveStep
  <2> HIDE DEF node, row, low, high, On
  <2>5. node[h - 1] = row[h - 1][low] /\ siblings[h] = row[h - 1][Sibling(low)]
    BY <2>1, <2>2, <2>3, <2>4 DEF Node
  <2> QED BY <2>5 DEF On, low
<1>2. 0 \in T
  <2>1. Above(index)[Depth] = 0
    BY AbovePlace, TopPlace, DepthType
  <2> QED BY <2>1, DepthType DEF RootOf
<1>3. ASSUME NEW n \in 0 .. Depth - 1, n \in T PROVE n + 1 \in T
  <2>1. Depth - n \in 1 .. Depth /\ (Depth - n) - 1 = Depth - (n + 1) /\ n \in Nat /\ n <= Depth
    BY DepthType
  <2>2. On((Depth - n) - 1)
    <3>1. On(Depth - n)
      BY <1>3, <2>1
    <3> HIDE DEF On
    <3> QED BY <3>1, <2>1, <1>1
  <2> HIDE DEF On
  <2> QED BY <2>1, <2>2
<1> HIDE DEF T, On
<1>4. \A n \in 0 .. Depth : n \in T
  BY <1>2, <1>3, CountingTo, DepthType
<1>5. ASSUME NEW h \in 0 .. Depth PROVE On(h)
  <2>1. Depth - h \in 0 .. Depth /\ Depth - (Depth - h) = h /\ Depth - h <= Depth
    BY DepthType
  <2> QED BY <2>1, <1>4 DEF T
<1>6. \A h \in 1 .. Depth : siblings[h] = row[h - 1][Sibling(Above(index)[h - 1])]
  BY <1>1, <1>5
<1>7. leaf = row[0][index]
  BY <1>5, ClimbDef, AboveDef, DepthType DEF On
<1> QED BY <1>6, <1>7

-----------------------------------------------------------------------------
(* Trees that differ in one leaf, and places no leaf has reached. *)

(* Two rows of leaves that differ at most at one index. *)
SameBut(s, t, index) == \A i \in Places(0) : i # index => NodesOf(s)[0][i] = NodesOf(t)[0][i]

(* Off the path of that index the two trees are the same. *)
LEMMA SameOffPath ==
    ASSUME NEW s, NEW t, NEW index \in Places(0), SameBut(s, t, index)
    PROVE  \A h \in 0 .. Depth : \A i \in Places(h) :
              i # Above(index)[h] => NodesOf(s)[h][i] = NodesOf(t)[h][i]
<1> DEFINE Same(h) == \A i \in Places(h) :
                         i # Above(index)[h] => NodesOf(s)[h][i] = NodesOf(t)[h][i]
           T == {h \in Nat : h <= Depth => Same(h)}
<1>1. 0 \in T
  BY AboveDef DEF SameBut
<1>2. ASSUME NEW n \in 0 .. Depth - 1, n \in T PROVE n + 1 \in T
  <2>1. n + 1 \in 1 .. Depth /\ (n + 1) - 1 = n /\ n \in Nat /\ n <= Depth
    BY DepthType
  <2>2. ASSUME NEW i \in Places(n + 1), i # Above(index)[n + 1]
        PROVE  NodesOf(s)[n + 1][i] = NodesOf(t)[n + 1][i]
    <3>1. 2 * i \in Places(n) /\ 2 * i + 1 \in Places(n) /\ i \in Nat
      BY <2>1, PlacesStep DEF Places
    <3>2. /\ Above(index)[n + 1] \in Nat
          /\ \/ Above(index)[n] = 2 * Above(index)[n + 1]
             \/ Above(index)[n] = 2 * Above(index)[n + 1] + 1
      BY <2>1, AboveStep
    <3>3. 2 * i # Above(index)[n] /\ 2 * i + 1 # Above(index)[n]
      BY <2>2, <3>1, <3>2
    <3>4. Same(n)
      BY <1>2, <2>1
    <3>5. NodesOf(s)[n][2 * i] = NodesOf(t)[n][2 * i]
          /\ NodesOf(s)[n][2 * i + 1] = NodesOf(t)[n][2 * i + 1]
      BY <3>1, <3>3, <3>4
    <3> QED BY <2>1, <3>5, NodeOver
  <2> QED BY <2>1, <2>2
<1> HIDE DEF T, Same
<1>3. \A n \in 0 .. Depth : n \in T
  BY <1>1, <1>2, CountingTo, DepthType
<1>4. \A h \in 0 .. Depth : Same(h)
  BY <1>3 DEF T
<1> QED BY <1>4 DEF Same

(* In particular a leaf has the same siblings in both. *)
LEMMA SameSiblings ==
    ASSUME NEW s, NEW t, NEW index \in Places(0), SameBut(s, t, index), NEW h \in 1 .. Depth
    PROVE  NodesOf(s)[h - 1][Sibling(Above(index)[h - 1])]
             = NodesOf(t)[h - 1][Sibling(Above(index)[h - 1])]
<1>1. Sibling(Above(index)[h - 1]) \in Places(h - 1)
      /\ Sibling(Above(index)[h - 1]) # Above(index)[h - 1]
  BY AboveStep
<1>2. h - 1 \in 0 .. Depth
  BY DepthType
<1> QED BY <1>1, <1>2, SameOffPath

(* Right of the last leaf there are empty subtrees only. *)
LEMMA EmptyBeyond ==
    ASSUME NEW seq, NEW index \in Places(0), Len(seq) \in Nat, Len(seq) <= index + 1
    PROVE  \A h \in 0 .. Depth : \A i \in Places(h) :
              i > Above(index)[h] => NodesOf(seq)[h][i] = Zero[h]
<1> DEFINE Beyond(h) == \A i \in Places(h) : i > Above(index)[h] => NodesOf(seq)[h][i] = Zero[h]
           T == {h \in Nat : h <= Depth => Beyond(h)}
<1>1. 0 \in T
  <2>1. ASSUME NEW i \in Places(0), i > index
        PROVE  NodesOf(seq)[0][i] = Empty
    <3>1. NodesOf(seq)[0][i] = IF i < Len(seq) THEN seq[i + 1] ELSE Empty
      BY LeafAt
    <3>2. ~ (i < Len(seq))
      BY <2>1 DEF Places
    <3> QED BY <3>1, <3>2
  <2> QED BY <2>1, ZeroDef, AboveDef
<1>2. ASSUME NEW n \in 0 .. Depth - 1, n \in T PROVE n + 1 \in T
  <2>1. n + 1 \in 1 .. Depth /\ (n + 1) - 1 = n /\ n \in Nat /\ n <= Depth
    BY DepthType
  <2>2. ASSUME NEW i \in Places(n + 1), i > Above(index)[n + 1]
        PROVE  NodesOf(seq)[n + 1][i] = Zero[n + 1]
    <3>1. 2 * i \in Places(n) /\ 2 * i + 1 \in Places(n) /\ i \in Nat
      BY <2>1, PlacesStep DEF Places
    <3>2. /\ Above(index)[n + 1] \in Nat
          /\ \/ Above(index)[n] = 2 * Above(index)[n + 1]
             \/ Above(index)[n] = 2 * Above(index)[n + 1] + 1
      BY <2>1, AboveStep
    <3>3. 2 * i > Above(index)[n] /\ 2 * i + 1 > Above(index)[n]
      BY <2>2, <3>1, <3>2
    <3>4. Beyond(n)
      BY <1>2, <2>1
    <3>5. NodesOf(seq)[n][2 * i] = Zero[n] /\ NodesOf(seq)[n][2 * i + 1] = Zero[n]
      BY <3>1, <3>3, <3>4
    <3>6. NodesOf(seq)[n + 1][i] = Node(Zero[n], Zero[n])
      BY <2>1, <3>5, NodeOver
    <3> QED BY <2>1, <3>6, ZeroDef
  <2> QED BY <2>1, <2>2
<1> HIDE DEF T, Beyond
<1>3. \A n \in 0 .. Depth : n \in T
  BY <1>1, <1>2, CountingTo, DepthType
<1>4. \A h \in 0 .. Depth : Beyond(h)
  BY <1>3 DEF T
<1> QED BY <1>4 DEF Beyond

(* The tree without a leaf. *)
LEMMA EmptyRoot == RootOf(<< >>) = Zero[Depth]
<1> DEFINE Zeroes(h) == \A i \in Places(h) : NodesOf(<< >>)[h][i] = Zero[h]
           T == {h \in Nat : h <= Depth => Zeroes(h)}
<1>1. 0 \in T
  <2>1. ASSUME NEW i \in Places(0) PROVE NodesOf(<< >>)[0][i] = Empty
    <3>1. NodesOf(<< >>)[0][i] = IF i < Len(<< >>) THEN << >>[i + 1] ELSE Empty
      BY LeafAt
    <3>2. ~ (i < Len(<< >>))
      BY DEF Places
    <3> QED BY <3>1, <3>2
  <2> QED BY <2>1, ZeroDef
<1>2. ASSUME NEW n \in 0 .. Depth - 1, n \in T PROVE n + 1 \in T
  <2>1. n + 1 \in 1 .. Depth /\ (n + 1) - 1 = n /\ n \in Nat /\ n <= Depth
    BY DepthType
  <2>2. ASSUME NEW i \in Places(n + 1) PROVE NodesOf(<< >>)[n + 1][i] = Zero[n + 1]
    <3>1. 2 * i \in Places(n) /\ 2 * i + 1 \in Places(n)
      BY <2>1, PlacesStep
    <3>2. NodesOf(<< >>)[n + 1][i] = Node(Zero[n], Zero[n])
      BY <1>2, <2>1, <3>1, NodeOver
    <3> QED BY <2>1, <3>2, ZeroDef
  <2> QED BY <2>1, <2>2
<1> HIDE DEF T, Zeroes
<1>3. Depth \in T
  BY <1>1, <1>2, CountingTo, DepthType
<1>4. Zeroes(Depth)
  BY <1>3, DepthType DEF T
<1> QED BY <1>4, TopPlace DEF Zeroes, RootOf

-----------------------------------------------------------------------------
(* The frontier.                                                           *)

(* What the next append joins a right child with: the finished subtree to its
   left. *)
Remembered(level) ==
    Bit(frontier.next, level) = 1 =>
        frontier.filled[level] = NodesOf(leaves)[level][Above(frontier.next)[level] - 1]

(* The inductive invariant behind FrontierIsTree. *)
FrontierInv ==
    /\ leaves \in Seq(Leaves)
    /\ frontier.next = Len(leaves) /\ frontier.next <= Capacity
    /\ frontier.root = RootOf(leaves)
    /\ frontier.next < Capacity => \A level \in Levels : Remembered(level)

LEMMA FrontierInit == Init => FrontierInv
<1> SUFFICES ASSUME Init PROVE FrontierInv
  OBVIOUS
<1>1. leaves = << >> /\ frontier.next = 0 /\ frontier.root = Zero[Depth]
  BY DEF Init, EmptyFrontier
<1>2. \A level \in Levels : Bit(0, level) = 0
  <2> DEFINE T == {h \in Nat : Above(0)[h] = 0}
  <2>1. 0 \in T
    BY AboveDef
  <2>2. ASSUME NEW n \in 0 .. Depth - 1, n \in T PROVE n + 1 \in T
    <3>1. n + 1 \in 1 .. Depth /\ (n + 1) - 1 = n
      BY DepthType
    <3> QED BY <2>2, <3>1, AboveDef
  <2> HIDE DEF T
  <2>3. \A n \in 0 .. Depth : n \in T
    BY <2>1, <2>2, CountingTo, DepthType
  <2>4. \A level \in Levels : Above(0)[level] = 0
    BY <2>3, DepthType DEF T, Levels
  <2> QED BY <2>4 DEF Bit
<1> QED BY <1>1, <1>2, EmptyRoot, TopPlace DEF FrontierInv, Remembered

(* Appending is putting the leaf in the first place that had none. *)
LEMMA AppendedRow ==
    ASSUME NEW seq \in Seq(Leaves), Len(seq) < Capacity, NEW leaf \in Leaves
    PROVE  /\ Len(seq) \in Places(0)
           /\ NodesOf(Append(seq, leaf))[0][Len(seq)] = leaf
           /\ SameBut(seq, Append(seq, leaf), Len(seq))
           /\ Len(Append(seq, leaf)) = Len(seq) + 1
<1>1. Len(seq) \in Places(0)
  BY TopPlace
<1>2. Len(Append(seq, leaf)) = Len(seq) + 1 /\ Append(seq, leaf)[Len(seq) + 1] = leaf
  OBVIOUS
<1>3. PICK t, n : t = Append(seq, leaf) /\ n = Len(seq)
  OBVIOUS
<1>4. /\ n \in Nat /\ n \in Places(0) /\ Len(t) = n + 1 /\ t[n + 1] = leaf
      /\ \A i \in Nat : i < n => t[i + 1] = seq[i + 1]
  BY <1>1, <1>2, <1>3
<1>5. NodesOf(t)[0][n] = leaf
  BY <1>4, LeafAt
<1>6. ASSUME NEW i \in Places(0), i # n
      PROVE  NodesOf(seq)[0][i] = NodesOf(t)[0][i]
  <2>1. i \in Nat
    BY DEF Places
  <2>2. NodesOf(seq)[0][i] = IF i < n THEN seq[i + 1] ELSE Empty
    BY <1>3, LeafAt
  <2>3. NodesOf(t)[0][i] = IF i < n + 1 THEN t[i + 1] ELSE Empty
    BY <1>4, LeafAt
  <2> QED BY <1>4, <1>6, <2>1, <2>2, <2>3
<1> QED BY <1>1, <1>2, <1>3, <1>5, <1>6 DEF SameBut

(* The nodes the append computes are those of the new tree. *)
LEMMA AppendClimbs ==
    ASSUME FrontierInv, frontier.next < Capacity, NEW leaf \in Leaves
    PROVE  \A h \in 0 .. Depth :
              Climb(leaf, frontier.next, Joined(frontier))[h]
                 = NodesOf(Append(leaves, leaf))[h][Above(frontier.next)[h]]
<1> DEFINE n == frontier.next
           t == Append(leaves, leaf)
<1>1. n = Len(leaves) /\ leaves \in Seq(Leaves) /\ n < Capacity
  BY DEF FrontierInv
<1>2. /\ n \in Places(0) /\ n \in Nat /\ NodesOf(t)[0][n] = leaf
      /\ SameBut(leaves, t, n) /\ Len(t) = n + 1
  BY <1>1, AppendedRow DEF Places
<1>3. ASSUME NEW h \in 1 .. Depth
      PROVE  Joined(frontier)[h] = NodesOf(t)[h - 1][Sibling(Above(n)[h - 1])]
  <2> DEFINE low == Above(n)[h - 1]
             high == Above(n)[h]
  <2>1. /\ Sibling(low) \in Places(h - 1) /\ low \in Nat /\ high \in Nat
        /\ \/ Bit(n, h - 1) = 0 /\ low = 2 * high /\ Sibling(low) = 2 * high + 1
           \/ Bit(n, h - 1) = 1 /\ low = 2 * high + 1 /\ Sibling(low) = 2 * high
    BY <1>2, AboveStep
  <2>2. h - 1 \in 0 .. Depth /\ h - 1 \in Levels
    BY DepthType DEF Levels
  <2>3. Joined(frontier)[h] = IF Bit(n, h - 1) = 0 THEN Zero[h - 1] ELSE frontier.filled[h - 1]
    BY DEF Joined
  <2>4. CASE Bit(n, h - 1) = 0
    <3>1. Sibling(low) > low
      BY <2>1, <2>4
    <3>2. Len(t) \in Nat /\ Len(t) <= n + 1
      BY <1>2
    <3>3. NodesOf(t)[h - 1][Sibling(low)] = Zero[h - 1]
      BY <1>2, <2>1, <2>2, <3>1, <3>2, EmptyBeyond
    <3> QED BY <2>3, <2>4, <3>3
  <2>5. CASE Bit(n, h - 1) = 1
    <3>1. Sibling(low) = low - 1
      BY <2>1, <2>5
    <3>2. frontier.filled[h - 1] = NodesOf(leaves)[h - 1][low - 1]
      BY <1>1, <2>2, <2>5 DEF FrontierInv, Remembered
    <3>3. NodesOf(leaves)[h - 1][Sibling(low)] = NodesOf(t)[h - 1][Sibling(low)]
      BY <1>2, SameSiblings
    <3> QED BY <2>3, <2>5, <3>1, <3>2, <3>3
  <2> QED BY <2>1, <2>4, <2>5
<1> HIDE DEF n, t
<1>4. \A h \in 0 .. Depth : Climb(leaf, n, Joined(frontier))[h] = NodesOf(t)[h][Above(n)[h]]
  BY <1>2, <1>3, ClimbFollowsTree
<1> QED BY <1>4 DEF n, t

(* From one index to the next a node above it stays or is the next one. *)
LEMMA AboveNext ==
    ASSUME NEW n \in Nat
    PROVE  \A h \in 0 .. Depth : /\ Above(n)[h] \in Nat
                                 /\ \/ Above(n + 1)[h] = Above(n)[h]
                                    \/ Above(n + 1)[h] = Above(n)[h] + 1
<1> DEFINE Close(h) == /\ Above(n)[h] \in Nat
                       /\ \/ Above(n + 1)[h] = Above(n)[h]
                          \/ Above(n + 1)[h] = Above(n)[h] + 1
           T == {h \in Nat : h <= Depth => Close(h)}
<1>1. 0 \in T
  BY AboveDef
<1>2. ASSUME NEW h \in 0 .. Depth - 1, h \in T PROVE h + 1 \in T
  <2>1. h + 1 \in 1 .. Depth /\ (h + 1) - 1 = h /\ h \in Nat /\ h <= Depth
    BY DepthType
  <2>2. /\ Above(n)[h + 1] = Above(n)[h] \div 2
        /\ Above(n + 1)[h + 1] = Above(n + 1)[h] \div 2
    BY <2>1, AboveDef
  <2>3. Close(h)
    BY <1>2, <2>1
  <2>4. Close(h + 1)
    BY <2>2, <2>3
  <2> QED BY <2>1, <2>4
<1> HIDE DEF T, Close
<1>3. \A h \in 0 .. Depth : h \in T
  BY <1>1, <1>2, CountingTo, DepthType
<1>4. \A h \in 0 .. Depth : Close(h)
  BY <1>3 DEF T
<1> QED BY <1>4 DEF Close

(* What the append remembers is what the next append needs. *)
LEMMA AppendRemembers ==
    ASSUME FrontierInv, frontier.next < Capacity, NEW leaf \in Leaves, NEW level \in Levels,
           Bit(frontier.next + 1, level) = 1, frontier.next + 1 < Capacity
    PROVE  Extended(frontier, leaf).filled[level]
             = NodesOf(Append(leaves, leaf))[level][Above(frontier.next + 1)[level] - 1]
<1> DEFINE n == frontier.next
           t == Append(leaves, leaf)
           node == Climb(leaf, n, Joined(frontier))
<1>1. n = Len(leaves) /\ leaves \in Seq(Leaves) /\ n < Capacity
  BY DEF FrontierInv
<1>2. n \in Places(0) /\ n + 1 \in Places(0) /\ n \in Nat /\ SameBut(leaves, t, n)
  <2>1. n \in Nat /\ n \in Places(0) /\ SameBut(leaves, t, n)
    BY <1>1, AppendedRow
  <2>2. n + 1 \in Places(0)
    BY <2>1, TopPlace
  <2> QED BY <2>1, <2>2
<1>3. level \in 0 .. Depth
  BY DepthType DEF Levels
<1>4. Extended(frontier, leaf).filled[level]
        = IF Bit(n, level) = 0 THEN node[level] ELSE frontier.filled[level]
  BY DEF Extended
<1>5. /\ Above(n)[level] \in Nat /\ Above(n)[level] \in Places(level)
      /\ \/ Above(n + 1)[level] = Above(n)[level]
         \/ Above(n + 1)[level] = Above(n)[level] + 1
      /\ Bit(n, level) = Above(n)[level] % 2 /\ Above(n + 1)[level] % 2 = 1
  BY <1>2, <1>3, AboveNext, AbovePlace DEF Bit
<1>6. node[level] = NodesOf(t)[level][Above(n)[level]]
  BY <1>1, <1>3, AppendClimbs
<1>7. CASE Bit(n, level) = 0
  <2>1. Above(n + 1)[level] - 1 = Above(n)[level]
    BY <1>5, <1>7
  <2> QED BY <1>4, <1>6, <1>7, <2>1
<1>8. CASE Bit(n, level) # 0
  <2>1. Bit(n, level) = 1 /\ Above(n + 1)[level] = Above(n)[level]
    BY <1>5, <1>8
  <2>2. frontier.filled[level] = NodesOf(leaves)[level][Above(n)[level] - 1]
    BY <1>1, <2>1 DEF FrontierInv, Remembered
  <2>3. Above(n)[level] - 1 \in Places(level) /\ Above(n)[level] - 1 # Above(n)[level]
    <3>1. Above(n)[level] # 0
      BY <1>5, <2>1
    <3>2. Depth - level \in 0 .. Depth
      BY <1>3, DepthType
    <3> QED BY <1>5, <3>1, <3>2, PowerType DEF Places
  <2>4. NodesOf(leaves)[level][Above(n)[level] - 1] = NodesOf(t)[level][Above(n)[level] - 1]
    BY <1>2, <1>3, <2>3, SameOffPath
  <2> QED BY <1>4, <1>8, <2>1, <2>2, <2>4
<1> QED BY <1>7, <1>8

LEMMA FrontierNext == FrontierInv /\ [Next]_vars => FrontierInv'
<1> SUFFICES ASSUME FrontierInv, [Next]_vars PROVE FrontierInv'
  OBVIOUS
<1>1. ASSUME NEW leaf \in Leaves, AppendLeaf(leaf)
      PROVE  FrontierInv'
  <2>1. /\ frontier.next < Capacity /\ frontier.next = Len(leaves) /\ leaves \in Seq(Leaves)
        /\ leaves' = Append(leaves, leaf)
        /\ frontier'.next = frontier.next + 1
        /\ frontier'.root = Climb(leaf, frontier.next, Joined(frontier))[Depth]
        /\ frontier'.filled = Extended(frontier, leaf).filled
    BY <1>1 DEF AppendLeaf, FrontierInv, Extended
  <2>2. leaves' \in Seq(Leaves) /\ Len(leaves') = Len(leaves) + 1
    BY <2>1
  <2>3. frontier'.next = Len(leaves') /\ frontier'.next <= Capacity
    BY <2>1, <2>2, TopPlace
  <2>4. frontier'.root = RootOf(leaves')
    <3>1. Above(frontier.next)[Depth] = 0
      BY <2>1, AppendedRow, AbovePlace, TopPlace, DepthType
    <3>2. Depth \in 0 .. Depth
      BY DepthType
    <3> QED BY <2>1, <3>1, <3>2, AppendClimbs DEF RootOf
  <2>5. ASSUME frontier'.next < Capacity, NEW level \in Levels, Bit(frontier'.next, level) = 1
        PROVE  frontier'.filled[level]
                 = NodesOf(leaves')[level][Above(frontier'.next)[level] - 1]
    BY <2>1, <2>5, AppendRemembers
  <2> QED BY <2>2, <2>3, <2>4, <2>5 DEF FrontierInv, Remembered
<1>2. CASE UNCHANGED vars
  BY <1>2 DEF vars, FrontierInv, Remembered
<1> QED BY <1>1, <1>2 DEF Next

LEMMA FrontierAlways == Spec => []FrontierInv
BY FrontierInit, FrontierNext, PTL DEF Spec

(* The root the pool publishes after each append, from one remembered node per
   level, is the root of the tree over all leaves announced so far, for every
   depth of the tree and any leaves. *)
THEOREM FrontierAlwaysTree == Spec => []FrontierIsTree
<1>1. FrontierInv => FrontierIsTree
  BY DEF FrontierInv, FrontierIsTree
<1> QED BY <1>1, FrontierAlways, PTL

-----------------------------------------------------------------------------
(* Membership. *)

LEMMA PathsProve == FrontierInv => PathsProveMembership
<1> SUFFICES ASSUME FrontierInv,
                    NEW leaf \in Leaves, NEW index \in 0 .. 2 * Capacity - 1,
                    NEW siblings \in WalletPaths
             PROVE  Proves(frontier.root, leaf, index, siblings)
                      <=> /\ index < Len(leaves)
                          /\ leaves[index + 1] = leaf
                          /\ siblings = PathOf(leaves, index)
  BY DEF PathsProveMembership
<1>1. /\ leaves \in Seq(Leaves) /\ Len(leaves) \in Nat /\ Len(leaves) <= Capacity
      /\ frontier.root = RootOf(leaves) /\ index \in Nat
  BY TopPlace DEF FrontierInv
<1>2. siblings = [h \in 1 .. Depth |-> siblings[h]]
  <2>1. PICK seq, i : siblings = PathOf(seq, i)
    BY DEF WalletPaths
  <2> QED BY <2>1 DEF PathOf
<1>3. PathOf(leaves, index)
        = [h \in 1 .. Depth |-> NodesOf(leaves)[h - 1][Sibling(Above(index)[h - 1])]]
  BY DEF PathOf
<1>4. siblings = PathOf(leaves, index)
        <=> \A h \in 1 .. Depth :
               siblings[h] = NodesOf(leaves)[h - 1][Sibling(Above(index)[h - 1])]
  BY <1>2, <1>3
<1>5. ASSUME Proves(frontier.root, leaf, index, siblings)
      PROVE  index < Len(leaves) /\ leaves[index + 1] = leaf /\ siblings = PathOf(leaves, index)
  <2>1. index \in Places(0) /\ Climb(leaf, index, siblings)[Depth] = RootOf(leaves)
    BY <1>1, <1>5, TopPlace DEF Proves, MerkleRoot
  <2>2. /\ leaf = NodesOf(leaves)[0][index]
        /\ \A h \in 1 .. Depth :
              siblings[h] = NodesOf(leaves)[h - 1][Sibling(Above(index)[h - 1])]
    BY <2>1, ClimbOnlyFollowsTree
  <2>3. leaf = IF index < Len(leaves) THEN leaves[index + 1] ELSE Empty
    BY <2>1, <2>2, LeafAt
  <2> QED BY <1>4, <2>2, <2>3, DepthType
<1>6. ASSUME index < Len(leaves), leaves[index + 1] = leaf, siblings = PathOf(leaves, index)
      PROVE  Proves(frontier.root, leaf, index, siblings)
  <2>1. index < Capacity /\ index \in Places(0)
    BY <1>1, <1>6, TopPlace
  <2>2. leaf = NodesOf(leaves)[0][index]
    BY <1>6, <2>1, LeafAt
  <2>3. Climb(leaf, index, siblings)[Depth] = NodesOf(leaves)[Depth][Above(index)[Depth]]
    <3>1. \A h \in 1 .. Depth :
             siblings[h] = NodesOf(leaves)[h - 1][Sibling(Above(index)[h - 1])]
      BY <1>4, <1>6
    <3> QED BY <2>1, <2>2, <3>1, ClimbFollowsTree, DepthType
  <2>4. Above(index)[Depth] = 0
    BY <2>1, AbovePlace, TopPlace, DepthType
  <2> QED BY <1>1, <2>1, <2>3, <2>4 DEF Proves, MerkleRoot, RootOf
<1> QED BY <1>5, <1>6

(* A path leads to the published root exactly from the leaf at its index, and
   only with that leaf's siblings, for every depth: there is no second index and
   no second path for a commitment, hence no second nullifier. *)
THEOREM PathsAlwaysProveMembership == Spec => []PathsProveMembership
BY FrontierAlways, PathsProve, PTL

LEMMA PathReplaces == FrontierInv => PathReplacesLeaf
<1> SUFFICES ASSUME FrontierInv, NEW leaf \in Leaves, NEW index \in 0 .. Len(leaves) - 1
             PROVE  MerkleRoot(leaf, index, PathOf(leaves, index))
                      = RootOf([leaves EXCEPT ![index + 1] = leaf])
  BY DEF PathReplacesLeaf
<1> DEFINE t == [leaves EXCEPT ![index + 1] = leaf]
           siblings == PathOf(leaves, index)
<1>1. /\ leaves \in Seq(Leaves) /\ Len(leaves) \in Nat /\ Len(leaves) <= Capacity
      /\ index \in Nat /\ index < Len(leaves)
  BY DEF FrontierInv
<1>2. index \in Places(0)
  BY <1>1, TopPlace
<1>3. t \in Seq(Leaves) /\ Len(t) = Len(leaves) /\ t[index + 1] = leaf
      /\ \A i \in Nat : i < Len(leaves) /\ i # index => t[i + 1] = leaves[i + 1]
  BY <1>1
<1> HIDE DEF t
<1>4. SameBut(leaves, t, index)
  <2> SUFFICES ASSUME NEW i \in Places(0), i # index
               PROVE  NodesOf(leaves)[0][i] = NodesOf(t)[0][i]
    BY DEF SameBut
  <2>1. i \in Nat
    BY DEF Places
  <2> QED BY <2>1, <1>3, LeafAt
<1>5. leaf = NodesOf(t)[0][index]
  BY <1>1, <1>2, <1>3, LeafAt
<1>6. \A h \in 1 .. Depth : siblings[h] = NodesOf(t)[h - 1][Sibling(Above(index)[h - 1])]
  BY <1>2, <1>4, SameSiblings DEF PathOf
<1> HIDE DEF siblings
<1>7. Climb(leaf, index, siblings)[Depth] = NodesOf(t)[Depth][Above(index)[Depth]]
  BY <1>2, <1>5, <1>6, ClimbFollowsTree, DepthType
<1>8. Above(index)[Depth] = 0
  BY <1>2, AbovePlace, TopPlace, DepthType
<1> QED BY <1>7, <1>8 DEF MerkleRoot, RootOf, siblings, t

(* A note that a wallet remembers wrongly leads, along its true path, to the root
   of the tree with that note in its place, for every depth. *)
THEOREM PathsAlwaysReplaceLeaf == Spec => []PathReplacesLeaf
BY FrontierAlways, PathReplaces, PTL

=============================================================================
