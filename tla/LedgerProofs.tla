---------------------------- MODULE LedgerProofs ----------------------------
(***************************************************************************)
(* The pool program keeps the ledger's promises, for every value of the    *)
(* constants: it implements Ledger, and the vault covers what it owes.     *)
(* So do wallets and program together: what the SDK prepares is accepted   *)
(* whenever the chain still knows its root and none of its notes is spent, *)
(* payloads stay with their notes, and padding burns no note.              *)
(***************************************************************************)
EXTENDS Client, PoolProofs, FiniteSetTheorems, WellFoundedInduction

(* Two elements at the end of a sequence. *)
LEMMA TwoAppended ==
    ASSUME NEW T, NEW list \in Seq(T), NEW a \in T, NEW b \in T
    PROVE  /\ list \o <<a, b>> \in Seq(T)
           /\ Len(list \o <<a, b>>) = Len(list) + 2
           /\ \A i \in 1 .. Len(list) : (list \o <<a, b>>)[i] = list[i]
           /\ (list \o <<a, b>>)[Len(list) + 1] = a
           /\ (list \o <<a, b>>)[Len(list) + 2] = b
OBVIOUS

(* The places of a sequence are finitely many. *)
LEMMA PlacesFinite == ASSUME NEW n \in Nat PROVE IsFiniteSet(1 .. n)
BY FS_Interval

-----------------------------------------------------------------------------
(* Sums over finite sets.  Facts about all sizes of a set come from the    *)
(* well-foundedness of < on the naturals.                                  *)

(* Pairs of naturals, the first below the second. *)
Below == {p \in Nat \X Nat : p[1] < p[2]}

(* A set of naturals that holds 0 and is closed under successor holds them all. *)
LEMMA Counting ==
    ASSUME NEW T, 0 \in T, \A n \in Nat : n \in T => n + 1 \in T
    PROVE  Nat \subseteq T
<1> SUFFICES ASSUME NEW k \in Nat, k \notin T PROVE FALSE
  OBVIOUS
<1> DEFINE U == {n \in Nat : n \notin T}
<1>1. U \in SUBSET Nat /\ U # {}
  OBVIOUS
<1> HIDE DEF U
<1>2. PICK n \in U : \A m \in U : ~ (<<m, n>> \in Below)
  <2>1. IsWellFoundedOn(Below, Nat)
    BY NatLessThanWellFounded DEF OpToRel, Below
  <2> QED BY <1>1, <2>1, WFMin
<1>3. n \in Nat /\ n \notin T
  BY <1>2 DEF U
<1>4. n - 1 \in Nat /\ n - 1 \in T
  <2>1. n # 0
    BY <1>3
  <2>2. n - 1 \in Nat /\ <<n - 1, n>> \in Below
    BY <2>1, <1>3 DEF Below
  <2> QED BY <2>2, <1>2 DEF U
<1> QED BY <1>3, <1>4

(* Sum of f over a finite set, as Pool!Owed computes it. *)
SumOver(f, S) == FoldFunctionOnSet(+, 0, f, S)

(* The element a sum over s adds next. *)
Chosen(s) == CHOOSE x \in s : TRUE

(* g is the table of the sums of f over the subsets of S. *)
IsTable(f, S, g) ==
    g = [s \in SUBSET S |-> IF s = {} THEN 0 ELSE f[Chosen(s)] + g[s \ {Chosen(s)}]]

(* g is right for the subsets of up to n elements. *)
IsTableUpTo(f, S, g, n) ==
    \A s \in SUBSET S : Cardinality(s) <= n =>
        g[s] = IF s = {} THEN 0 ELSE f[Chosen(s)] + g[s \ {Chosen(s)}]

(* Removing one of n + 1 elements leaves n. *)
LEMMA OneLess ==
    ASSUME NEW S, IsFiniteSet(S), NEW x \in S
    PROVE  /\ Cardinality(S) \in Nat /\ IsFiniteSet(S \ {x})
           /\ \A n \in Nat : Cardinality(S) = n + 1 => Cardinality(S \ {x}) = n
<1>1. Cardinality(S) \in Nat
  BY FS_CardinalityType
<1>2. IsFiniteSet(S \ {x}) /\ Cardinality(S \ {x}) = Cardinality(S) - 1
  BY FS_RemoveElement
<1> QED BY <1>1, <1>2

(* The table exists. *)
LEMMA TableExists ==
    ASSUME NEW S, IsFiniteSet(S), NEW f, \A x \in S : f[x] \in Nat
    PROVE  \E g \in [SUBSET S -> Nat] : IsTable(f, S, g)
<1> DEFINE T == {n \in Nat : \E g \in [SUBSET S -> Nat] : IsTableUpTo(f, S, g, n)}
<1>1. \A s \in SUBSET S : IsFiniteSet(s) /\ Cardinality(s) \in Nat /\ Cardinality(s) <= Cardinality(S)
  BY FS_Subset, FS_CardinalityType
<1>2. \A s \in SUBSET S : s # {} => Chosen(s) \in s /\ Chosen(s) \in S /\ s \ {Chosen(s)} \in SUBSET S
                                    /\ Cardinality(s \ {Chosen(s)}) = Cardinality(s) - 1
  <2> SUFFICES ASSUME NEW s \in SUBSET S, s # {} 
               PROVE Chosen(s) \in s /\ Cardinality(s \ {Chosen(s)}) = Cardinality(s) - 1
    OBVIOUS
  <2>1. Chosen(s) \in s
    BY DEF Chosen
  <2> QED BY <2>1, <1>1, FS_RemoveElement
<1>3. \A s \in SUBSET S : Cardinality(s) = 0 <=> s = {}
  BY <1>1, FS_EmptySet
<1>4. 0 \in T
  <2> DEFINE g == [s \in SUBSET S |-> 0]
  <2>1. g \in [SUBSET S -> Nat] /\ IsTableUpTo(f, S, g, 0)
    BY <1>1, <1>3 DEF IsTableUpTo
  <2> QED BY <2>1
<1>5. ASSUME NEW n \in Nat, n \in T
      PROVE  n + 1 \in T
  <2>1. PICK g \in [SUBSET S -> Nat] : IsTableUpTo(f, S, g, n)
    BY <1>5
  <2> DEFINE h == [s \in SUBSET S |-> IF Cardinality(s) = n + 1
                                      THEN f[Chosen(s)] + g[s \ {Chosen(s)}] ELSE g[s]]
  <2>2. h \in [SUBSET S -> Nat]
    <3> SUFFICES ASSUME NEW s \in SUBSET S, Cardinality(s) = n + 1 
                 PROVE f[Chosen(s)] + g[s \ {Chosen(s)}] \in Nat
      OBVIOUS
    <3>1. s # {}
      BY <1>3
    <3>2. f[Chosen(s)] \in Nat /\ g[s \ {Chosen(s)}] \in Nat
      BY <3>1, <1>2
    <3> QED BY <3>2
  <2>3. ASSUME NEW s \in SUBSET S, Cardinality(s) <= n + 1
        PROVE  h[s] = IF s = {} THEN 0 ELSE f[Chosen(s)] + h[s \ {Chosen(s)}]
    <3>1. CASE s = {}
      BY <3>1, <1>3, <2>1 DEF IsTableUpTo
    <3>2. CASE s # {}
      <4>1. s \ {Chosen(s)} \in SUBSET S /\ Cardinality(s \ {Chosen(s)}) = Cardinality(s) - 1
        BY <1>2, <3>2
      <4>2. h[s \ {Chosen(s)}] = g[s \ {Chosen(s)}]
        <5>1. Cardinality(s \ {Chosen(s)}) # n + 1
          BY ONLY <4>1, <1>1, <2>3, n \in Nat
        <5> QED BY <4>1, <5>1
      <4>3. h[s] = f[Chosen(s)] + g[s \ {Chosen(s)}]
        <5>1. CASE Cardinality(s) = n + 1
          BY <5>1
        <5>2. CASE Cardinality(s) # n + 1
          <6>1. Cardinality(s) <= n
            BY <5>2, <1>1, <2>3
          <6>2. g[s] = f[Chosen(s)] + g[s \ {Chosen(s)}]
            BY <6>1, <2>1, <3>2 DEF IsTableUpTo
          <6> QED BY <6>2, <5>2
        <5> QED BY <5>1, <5>2
      <4> QED BY <4>2, <4>3, <3>2
    <3> QED BY <3>1, <3>2
  <2> HIDE DEF h
  <2>4. IsTableUpTo(f, S, h, n + 1)
    BY <2>3 DEF IsTableUpTo
  <2>5. \E k \in [SUBSET S -> Nat] : IsTableUpTo(f, S, k, n + 1)
    BY <2>2, <2>4
  <2> QED BY <2>5
<1> HIDE DEF T
<1>6. Cardinality(S) \in T
  BY <1>1, <1>4, <1>5, Counting
<1>7. PICK g \in [SUBSET S -> Nat] : IsTableUpTo(f, S, g, Cardinality(S))
  BY <1>6 DEF T
<1>8. g = [s \in SUBSET S |-> IF s = {} THEN 0 ELSE f[Chosen(s)] + g[s \ {Chosen(s)}]]
  BY <1>1, <1>7 DEF IsTableUpTo
<1> QED BY <1>8 DEF IsTable

(* That table, if there is one. *)
Table(f, S) == CHOOSE g : IsTable(f, S, g)

(* A sum is what the table has for the whole set. *)
LEMMA SumIsTable ==
    ASSUME NEW S, IsFiniteSet(S), NEW f, \A x \in S : f[x] \in Nat
    PROVE  /\ SumOver(f, S) = Table(f, S)[S] /\ IsTable(f, S, Table(f, S))
<1>1. SumOver(f, S) = Table(f, S)[S]
  BY DEF SumOver, FoldFunctionOnSet, MapThenFoldSet, Table, IsTable, Chosen
<1>2. \E g : IsTable(f, S, g)
  BY TableExists
<1>3. IsTable(f, S, Table(f, S))
  BY <1>2 DEF Table
<1> QED BY <1>1, <1>3

(* Two tables agree wherever both are defined. *)
LEMMA TablesAgree ==
    ASSUME NEW S, IsFiniteSet(S), NEW R \in SUBSET S, NEW f, NEW g, NEW h,
           IsTable(f, S, g), IsTable(f, R, h)
    PROVE  \A s \in SUBSET R : g[s] = h[s]
<1> DEFINE T == {n \in Nat : \A s \in SUBSET R : Cardinality(s) = n => g[s] = h[s]}
<1>1. \A s \in SUBSET R : IsFiniteSet(s) /\ Cardinality(s) \in Nat /\ s \in SUBSET S
  BY FS_Subset, FS_CardinalityType
<1>2. \A s \in SUBSET R : g[s] = (IF s = {} THEN 0 ELSE f[Chosen(s)] + g[s \ {Chosen(s)}])
                         /\ h[s] = (IF s = {} THEN 0 ELSE f[Chosen(s)] + h[s \ {Chosen(s)}])
  BY <1>1 DEF IsTable
<1>3. 0 \in T
  <2>1. \A s \in SUBSET R : Cardinality(s) = 0 => s = {}
    BY <1>1, FS_EmptySet
  <2> QED BY <1>2, <2>1
<1>4. ASSUME NEW n \in Nat, n \in T
      PROVE  n + 1 \in T
  <2>1. SUFFICES ASSUME NEW s \in SUBSET R, Cardinality(s) = n + 1 PROVE g[s] = h[s]
    OBVIOUS
  <2>2. s # {}
    BY <2>1, FS_EmptySet
  <2>3. Chosen(s) \in s
    BY <2>2 DEF Chosen
  <2>4. s \ {Chosen(s)} \in SUBSET R /\ Cardinality(s \ {Chosen(s)}) = n
    BY <1>1, <2>1, <2>3, OneLess
  <2>5. g[s \ {Chosen(s)}] = h[s \ {Chosen(s)}]
    BY <1>4, <2>4
  <2> QED BY <1>2, <2>2, <2>5
<1> HIDE DEF T
<1>5. Nat \subseteq T
  BY <1>3, <1>4, Counting
<1> QED BY <1>1, <1>5 DEF T

(* The sum splits off the element the fold chooses. *)
LEMMA SumSplitsChosen ==
    ASSUME NEW S, IsFiniteSet(S), S # {}, NEW f, \A x \in S : f[x] \in Nat
    PROVE  Chosen(S) \in S /\ SumOver(f, S) = f[Chosen(S)] + SumOver(f, S \ {Chosen(S)})
<1> DEFINE R == S \ {Chosen(S)}
           g == Table(f, S)
           h == Table(f, R)
<1>1. Chosen(S) \in S
  BY DEF Chosen
<1>2. R \in SUBSET S /\ IsFiniteSet(R)
  BY FS_Subset
<1>3. /\ SumOver(f, S) = g[S] /\ IsTable(f, S, g)
      /\ SumOver(f, R) = h[R] /\ IsTable(f, R, h)
  BY <1>2, SumIsTable
<1> HIDE DEF g, h
<1>4. g[R] = h[R]
  <2>1. \A s \in SUBSET R : g[s] = h[s]
    BY <1>2, <1>3, TablesAgree
  <2> QED BY <2>1
<1>5. g[S] = f[Chosen(S)] + g[R]
  BY <1>3 DEF IsTable
<1> QED BY <1>1, <1>3, <1>4, <1>5

(* The sum over no elements is zero, and a sum of naturals is a natural. *)
LEMMA SumType ==
    ASSUME NEW S, IsFiniteSet(S), NEW f, \A x \in S : f[x] \in Nat
    PROVE  SumOver(f, S) \in Nat /\ (S = {} => SumOver(f, S) = 0)
<1>1. PICK h \in [SUBSET S -> Nat] : IsTable(f, S, h)
  BY TableExists
<1> DEFINE g == Table(f, S)
<1>2. SumOver(f, S) = g[S] /\ IsTable(f, S, g)
  BY SumIsTable
<1> HIDE DEF g
<1>3. g[S] = h[S]
  BY <1>1, <1>2, TablesAgree
<1>4. S = {} => h[S] = 0
  BY <1>1 DEF IsTable
<1> QED BY <1>1, <1>2, <1>3, <1>4

(* The sum splits off any element. *)
LEMMA SumSplits ==
    ASSUME NEW S, IsFiniteSet(S), NEW f, \A x \in S : f[x] \in Nat, NEW y \in S
    PROVE  SumOver(f, S) = f[y] + SumOver(f, S \ {y})
<1> DEFINE Splits(s) == \A x \in s : SumOver(f, s) = f[x] + SumOver(f, s \ {x})
           T == {n \in Nat : \A s \in SUBSET S : Cardinality(s) = n => Splits(s)}
<1>1. \A s \in SUBSET S : IsFiniteSet(s) /\ Cardinality(s) \in Nat
  BY FS_Subset, FS_CardinalityType
<1>2. \A s \in SUBSET S : SumOver(f, s) \in Nat
  BY <1>1, SumType
<1>3. 0 \in T
  <2>1. \A s \in SUBSET S : Cardinality(s) = 0 => s = {}
    BY <1>1, FS_EmptySet
  <2> QED BY <2>1
<1>4. ASSUME NEW n \in Nat, n \in T
      PROVE  n + 1 \in T
  <2>1. SUFFICES ASSUME NEW s \in SUBSET S, Cardinality(s) = n + 1, NEW x \in s
                 PROVE  SumOver(f, s) = f[x] + SumOver(f, s \ {x})
    OBVIOUS
  <2> DEFINE c == Chosen(s)
  <2>2. c \in s /\ SumOver(f, s) = f[c] + SumOver(f, s \ {c})
    BY <1>1, SumSplitsChosen
  <2> HIDE DEF c
  <2>3. CASE x = c
    BY <2>2, <2>3
  <2>4. CASE x # c
    <3>1. /\ s \ {c} \in SUBSET S /\ Cardinality(s \ {c}) = n
          /\ s \ {x} \in SUBSET S /\ Cardinality(s \ {x}) = n
      BY <1>1, <2>1, <2>2, OneLess
    <3>2. SumOver(f, s \ {c}) = f[x] + SumOver(f, (s \ {c}) \ {x})
      BY <1>4, <2>4, <3>1
    <3>3. SumOver(f, s \ {x}) = f[c] + SumOver(f, (s \ {x}) \ {c})
      BY <1>4, <2>2, <2>4, <3>1
    <3>4. (s \ {c}) \ {x} = (s \ {x}) \ {c}
      OBVIOUS
    <3>5. /\ f[c] \in Nat /\ f[x] \in Nat
          /\ (s \ {c}) \ {x} \in SUBSET S
      BY <2>2
    <3>6. SumOver(f, (s \ {c}) \ {x}) \in Nat
      BY <3>5, <1>2
    <3> QED BY <2>2, <3>2, <3>3, <3>4, <3>5, <3>6
  <2> QED BY <2>3, <2>4
<1> HIDE DEF T
<1>5. Nat \subseteq T
  BY <1>3, <1>4, Counting
<1>6. Splits(S)
  BY <1>1, <1>5 DEF T
<1> QED BY <1>6

(* A sum of no larger terms is no larger. *)
LEMMA SumMonotone ==
    ASSUME NEW S, IsFiniteSet(S), NEW f, NEW g,
           \A x \in S : f[x] \in Nat /\ g[x] \in Nat /\ g[x] <= f[x]
    PROVE  SumOver(g, S) <= SumOver(f, S)
<1> DEFINE T == {n \in Nat : \A s \in SUBSET S : Cardinality(s) = n => SumOver(g, s) <= SumOver(f, s)}
<1>1. \A s \in SUBSET S : IsFiniteSet(s) /\ Cardinality(s) \in Nat
  BY FS_Subset, FS_CardinalityType
<1>2. \A s \in SUBSET S : SumOver(f, s) \in Nat /\ SumOver(g, s) \in Nat
  BY <1>1, SumType
<1>3. 0 \in T
  <2>1. \A s \in SUBSET S : Cardinality(s) = 0 => s = {}
    BY <1>1, FS_EmptySet
  <2>2. SumOver(f, {}) = 0 /\ SumOver(g, {}) = 0
    BY FS_EmptySet, SumType
  <2> QED BY <2>1, <2>2
<1>4. ASSUME NEW n \in Nat, n \in T
      PROVE  n + 1 \in T
  <2>1. SUFFICES ASSUME NEW s \in SUBSET S, Cardinality(s) = n + 1
                 PROVE  SumOver(g, s) <= SumOver(f, s)
    OBVIOUS
  <2>2. PICK x \in s : TRUE
    BY <2>1, FS_EmptySet
  <2>3. s \ {x} \in SUBSET S /\ Cardinality(s \ {x}) = n
    BY <1>1, <2>1, OneLess
  <2>4. SumOver(g, s \ {x}) <= SumOver(f, s \ {x})
    BY <1>4, <2>3
  <2>5. /\ SumOver(f, s) = f[x] + SumOver(f, s \ {x})
        /\ SumOver(g, s) = g[x] + SumOver(g, s \ {x})
    BY <1>1, SumSplits
  <2>6. /\ SumOver(f, s \ {x}) \in Nat /\ SumOver(g, s \ {x}) \in Nat
        /\ f[x] \in Nat /\ g[x] \in Nat /\ g[x] <= f[x]
    BY <1>2, <2>3
  <2> QED BY <2>4, <2>5, <2>6
<1> HIDE DEF T
<1>5. Nat \subseteq T
  BY <1>3, <1>4, Counting
<1> QED BY <1>1, <1>5 DEF T

-----------------------------------------------------------------------------
(* The tree's capacity. *)

(* The tree never holds more leaves than the program's tree has room for. *)
TreeFits == Len(tree.leaves) <= TreeCapacity

(* Every insert checks that there is room first. *)
LEMMA FitsNext == TypeOK /\ TreeFits /\ [Next]_vars => TreeFits'
<1> SUFFICES ASSUME TypeOK, TreeFits, [Next]_vars PROVE TreeFits'
  OBVIOUS
<1>1. tree \in TreeType /\ Len(tree.leaves) \in Nat /\ TreeCapacity \in Nat
  BY TreeAssumption DEF TypeOK, TreeType
<1>2. CASE UNCHANGED vars
  BY <1>2 DEF vars, TreeFits
<1>3. CASE Next
  <2>1. ASSUME NEW signer \in Users, NEW config \in Deployments, InitPool(signer, config)
        PROVE  TreeFits'
    BY <2>1, <1>1 DEF InitPool, EmptyTree, TreeFits
  <2>2. ASSUME NEW depositor \in Users, NEW account \in TokenAccounts, NEW key \in Keys,
               NEW amount \in DepositAmounts, NEW note \in DepositPayloads,
               Shield(depositor, account, key, amount, note)
        PROVE  TreeFits'
    BY <2>2, <1>1 DEF Shield, CanInsert, Insert, TreeFits, TreeType
  <2>3. ASSUME NEW donor \in Users, NEW account \in TokenAccounts, NEW amount \in Donations,
               Donate(donor, account, amount)
        PROVE  TreeFits'
    BY <2>3 DEF Donate, TreeFits
  <2>4. ASSUME NEW root, NEW wit, NEW amount, NEW binding, Prove(root, wit, amount, binding)
        PROVE  TreeFits'
    BY <2>4 DEF Prove, TreeFits
  <2>5. ASSUME NEW proof \in proofs, NEW amount \in Amounts,
               NEW recipient \in Users \cup {PoolAddress}, NEW notes \in [Slots -> Payloads],
               NEW account \in TokenAccounts,
               Transact(proof, amount, recipient, notes, account)
        PROVE  TreeFits'
    <3>1. /\ Len(tree'.leaves) = Len(tree.leaves) + 2
          /\ Len(Insert(tree, proof.public.commitments[1]).leaves) = Len(tree.leaves) + 1
      BY <2>5, <1>1, OutputsInsertedType, InsertType DEF TypeOK, Transact
    <3>2. Len(Insert(tree, proof.public.commitments[1]).leaves) < TreeCapacity
      BY <2>5 DEF Transact, Accepts, RoomForOutputs, CanInsert
    <3> QED BY <3>1, <3>2, <1>1 DEF TreeFits
  <2> QED BY <1>3, <2>1, <2>2, <2>3, <2>4, <2>5, NextCases
<1> QED BY <1>2, <1>3

(* A tree with no leaves fits. *)
LEMMA FitsInit == Init => TreeFits
BY TreeAssumption DEF Init, EmptyTree, TreeFits

(* What LedgerNotes makes of the leaves of a tree and the ghosts of a state. *)
NotesOf(t, r) ==
    [k \in DOMAIN t.leaves |->
        [key |-> t.leaves[k].key, value |-> t.leaves[k].value, spent |-> r[k - 1] > 0]]

(* The leaves, with their ghosts, are a list of notes as long as the tree. *)
LEMMA NotesOfType ==
    ASSUME NEW t \in TreeType, NEW r \in [Indices -> Nat],
           Len(t.leaves) <= TreeCapacity,
           \A k \in DOMAIN t.leaves : t.leaves[k].value \in Values
    PROVE  /\ NotesOf(t, r) \in Seq(PoolLedger!Note)
           /\ Len(t.leaves) \in Nat /\ Len(NotesOf(t, r)) = Len(t.leaves)
           /\ DOMAIN NotesOf(t, r) = 1 .. Len(t.leaves)
           /\ \A k \in 1 .. Len(t.leaves) :
                 /\ k - 1 \in Indices
                 /\ NotesOf(t, r)[k] = [key |-> t.leaves[k].key, value |-> t.leaves[k].value,
                                        spent |-> r[k - 1] > 0]
<1>1. /\ t.leaves \in Seq(Commitments) /\ Len(t.leaves) \in Nat
      /\ DOMAIN t.leaves = 1 .. Len(t.leaves)
  BY DEF TreeType
<1>2. \A k \in 1 .. Len(t.leaves) : k - 1 \in Indices
  BY <1>1, PoolAssumption, TreeAssumption, FieldAssumption DEF Indices
<1>3. ASSUME NEW k \in 1 .. Len(t.leaves)
      PROVE  [key |-> t.leaves[k].key, value |-> t.leaves[k].value,
              spent |-> r[k - 1] > 0] \in PoolLedger!Note
  <2>1. t.leaves[k] \in Commitments
    BY <1>1
  <2> QED BY <2>1, <1>1 DEF PoolLedger!Note, Commitments
<1>4. NotesOf(t, r) \in [1 .. Len(t.leaves) -> PoolLedger!Note]
  BY <1>1, <1>3 DEF NotesOf
<1> QED BY <1>1, <1>2, <1>4 DEF NotesOf

(* The state before deployment is the empty ledger. *)
LEMMA LedgerInit == Init => PoolLedger!Init
<1> SUFFICES ASSUME Init PROVE PoolLedger!Init
  OBVIOUS
<1>1. tree.leaves = << >>
  BY DEF Init, EmptyTree
<1>2. LedgerNotes = << >>
  BY <1>1 DEF LedgerNotes
<1>3. balances[Vault] = 0
  BY PoolAssumption DEF Init
<1> QED BY <1>2, <1>3 DEF PoolLedger!Init

(* What Shield does to the tree, as an append of its note. *)
LEMMA ShieldTree ==
    ASSUME TypeOK, NEW depositor \in Users, NEW account \in TokenAccounts, NEW key \in Keys,
           NEW amount \in DepositAmounts, NEW note \in DepositPayloads,
           Shield(depositor, account, key, amount, note)
    PROVE  /\ amount \in Values /\ amount \in Nat /\ amount > 0
           /\ Len(tree.leaves) \in Nat /\ Len(tree'.leaves) = Len(tree.leaves) + 1
           /\ \A k \in 1 .. Len(tree.leaves) : tree'.leaves[k] = tree.leaves[k]
           /\ tree'.leaves[Len(tree.leaves) + 1] = Commitment(key, AssetId(pool.mint), amount)
           /\ balances'[Vault] = balances[Vault] + amount
           /\ nullifiers' = nullifiers /\ redeemed' = redeemed /\ proofs' = proofs
           /\ pool' = pool /\ pool # NoPool
<1> DEFINE commitment == Commitment(key, AssetId(pool.mint), amount)
<1>1. amount \in Values /\ amount \in Field /\ amount \in Nat /\ amount > 0
  BY PoolAssumption, FieldAssumption DEF Values, Field, Shield
<1>2. commitment \in Commitments
  BY <1>1 DEF Commitment, Commitments, AssetId, Assets, Config, Shield, TypeOK
<1>3. tree \in TreeType /\ Len(tree.leaves) \in Nat
  BY DEF TypeOK, TreeType
<1>4. tree' = Insert(tree, commitment)
  BY DEF Shield
<1> HIDE DEF commitment
<1>5. /\ Len(tree'.leaves) = Len(tree.leaves) + 1
      /\ \A k \in 1 .. Len(tree.leaves) : tree'.leaves[k] = tree.leaves[k]
      /\ tree'.leaves[Len(tree.leaves) + 1] = commitment
  BY <1>2, <1>3, <1>4, InsertType, InsertExtends
<1>6. balances'[Vault] = balances[Vault] + amount
  <2>1. account # Vault /\ Vault \in TokenAccounts
    BY PoolAssumption DEF Shield
  <2> QED BY <2>1, <1>1 DEF Shield, Transferred, TypeOK
<1> QED BY <1>1, <1>3, <1>5, <1>6 DEF Shield, commitment

(* A deposit is a deposit. *)
LEMMA LedgerShield ==
    ASSUME TypeOK, SafetyInv, TreeFits, TypeOK', SafetyInv', TreeFits',
           NEW depositor \in Users, NEW account \in TokenAccounts, NEW key \in Keys,
           NEW amount \in DepositAmounts, NEW note \in DepositPayloads,
           Shield(depositor, account, key, amount, note)
    PROVE  PoolLedger!Deposit(key, amount)
<1> DEFINE L == Len(tree.leaves)
<1>1. /\ amount \in Values /\ amount \in Nat /\ amount > 0
      /\ Len(tree'.leaves) = L + 1 /\ L \in Nat
      /\ \A k \in 1 .. L : tree'.leaves[k] = tree.leaves[k]
      /\ tree'.leaves[L + 1] = Commitment(key, AssetId(pool.mint), amount)
      /\ balances'[Vault] = balances[Vault] + amount
      /\ redeemed' = redeemed
  BY ShieldTree
<1>2. tree'.leaves[L + 1].key = key /\ tree'.leaves[L + 1].value = amount
  BY <1>1 DEF Commitment
<1>3. /\ tree \in TreeType /\ redeemed \in [Indices -> Nat] /\ Len(tree.leaves) <= TreeCapacity
      /\ \A k \in DOMAIN tree.leaves : tree.leaves[k].value \in Values
  BY DEF TypeOK, TreeType, TreeFits, SafetyInv, LeavesSound
<1>4. /\ tree' \in TreeType /\ Len(tree'.leaves) <= TreeCapacity
      /\ \A k \in DOMAIN tree'.leaves : tree'.leaves[k].value \in Values
  BY DEF TypeOK, TreeType, TreeFits, SafetyInv, LeavesSound
<1>5. /\ LedgerNotes = NotesOf(tree, redeemed)
      /\ LedgerNotes' = NotesOf(tree', redeemed)
  BY <1>1 DEF LedgerNotes, NotesOf
<1>6. /\ LedgerNotes \in Seq(PoolLedger!Note) /\ Len(LedgerNotes) = L
      /\ LedgerNotes' \in Seq(PoolLedger!Note) /\ Len(LedgerNotes') = L + 1
      /\ L \in Indices
      /\ \A k \in 1 .. L :
            LedgerNotes[k] = [key |-> tree.leaves[k].key, value |-> tree.leaves[k].value,
                              spent |-> redeemed[k - 1] > 0]
      /\ \A k \in 1 .. L + 1 :
            LedgerNotes'[k] = [key |-> tree'.leaves[k].key, value |-> tree'.leaves[k].value,
                               spent |-> redeemed[k - 1] > 0]
  <2>1. L + 1 \in 1 .. Len(tree'.leaves) /\ (L + 1) - 1 = L
    BY <1>1
  <2> QED BY <2>1, <1>1, <1>3, <1>4, <1>5, NotesOfType
<1>7. redeemed[(L + 1) - 1] = 0
  <2>1. (L + 1) - 1 = L /\ ~(L < L)
    BY <1>1
  <2> QED BY <2>1, <1>6 DEF SafetyInv, RedeemedIsRecorded, TypeOK
<1>8. LedgerNotes' = Append(LedgerNotes, PoolLedger!New(key, amount))
  <2>1. PoolLedger!New(key, amount) \in PoolLedger!Note
    BY <1>1 DEF PoolLedger!New, PoolLedger!Note
  <2>2. ASSUME NEW k \in 1 .. L PROVE LedgerNotes'[k] = LedgerNotes[k]
    <3>1. k \in 1 .. L + 1 /\ tree'.leaves[k] = tree.leaves[k]
      BY <1>1
    <3> QED BY <3>1, <1>6
  <2>3. LedgerNotes'[L + 1] = PoolLedger!New(key, amount)
    <3>1. L + 1 \in 1 .. L + 1
      BY <1>1
    <3>2. LedgerNotes'[L + 1] = [key |-> tree'.leaves[L + 1].key, value |-> tree'.leaves[L + 1].value,
                                 spent |-> redeemed[(L + 1) - 1] > 0]
      BY <3>1, <1>6
    <3>3. (redeemed[(L + 1) - 1] > 0) = FALSE
      BY <1>7
    <3> QED BY <1>2, <3>2, <3>3 DEF PoolLedger!New
  <2> QED BY <1>1, <1>6, <2>1, <2>2, <2>3
<1> QED BY <1>1, <1>8 DEF PoolLedger!Deposit

-----------------------------------------------------------------------------
(* A nullifier that is not recorded belongs to a leaf that is not spent: the
   leaf's key has one viewing key, and that one has no record at its index. *)
LEMMA FreshIsUnspent ==
    ASSUME TypeOK, SafetyInv, NEW proof \in proofs, KnownRoot(proof), FreshNullifiers(proof),
           NEW s \in Slots, proof.witness.inputs[s].value # 0
    PROVE  ~NoteSpent(proof.witness.inputs[s].index + 1)
<1> DEFINE in == proof.witness.inputs[s]
<1>1. /\ in.index \in Nat
      /\ tree.leaves[in.index + 1] = InputCommitment(proof.witness.asset, in)
      /\ proof.public.nullifiers[s] = Nullifier(in.view, in.index)
  BY RealInputIsLeaf
<1> HIDE DEF in
<1>2. tree.leaves[in.index + 1].key = NoteKey(Owner(in.spend, in.view), in.random)
  BY <1>1 DEF InputCommitment, Commitment
<1>3. SUFFICES ASSUME NEW n \in nullifiers, NEW spend \in SpendKeys, NEW random \in Blindings,
                      n.index + 1 = in.index + 1,
                      tree.leaves[in.index + 1].key = NoteKey(Owner(spend, n.view), random)
               PROVE  FALSE
  BY DEF NoteSpent, in
<1>4. n.view = in.view
  BY <1>2, <1>3 DEF NoteKey, Owner
<1>5. n \in Nullifiers
  BY DEF TypeOK
<1>6. n.index = in.index
  <2>1. n.index \in Int
    BY <1>5, FieldAssumption DEF Nullifiers, Field
  <2> QED BY <1>1, <1>3, <2>1
<1>7. n = proof.public.nullifiers[s]
  BY <1>1, <1>4, <1>5, <1>6 DEF Nullifiers, Nullifier
<1> QED BY <1>7 DEF FreshNullifiers

(* What one input of value contributes to an accepted transaction. *)
LEMMA RealInputSpends ==
    ASSUME TypeOK, SafetyInv, NEW proof \in proofs, NEW amount \in Amounts,
           NEW recipient \in Users \cup {PoolAddress}, NEW notes \in [Slots -> Payloads],
           NEW account \in TokenAccounts,
           Transact(proof, amount, recipient, notes, account),
           NEW s \in Slots, proof.witness.inputs[s].value # 0
    PROVE  LET in == proof.witness.inputs[s]
               k  == in.index + 1
           IN
           /\ k \in 1 .. Len(tree.leaves) /\ in.index \in Nat /\ in.index \in Indices
           /\ in.value \in Nat /\ tree.leaves[k].value = in.value
           /\ redeemed[in.index] = 0 /\ ~NoteSpent(k) /\ NoteSpent(k)'
           /\ \A t \in Slots : Redeems(proof.witness, t, in.index) => t = s
<1> DEFINE in == proof.witness.inputs[s]
<1>1. KnownRoot(proof) /\ FreshNullifiers(proof) /\ tree' = OutputsInserted(proof)
  BY DEF Transact, Accepts
<1>2. /\ in.index \in Nat /\ in.index < Len(tree.leaves) /\ in.index \in Indices
      /\ tree.leaves[in.index + 1] = InputCommitment(proof.witness.asset, in)
      /\ proof.public.nullifiers[s] = Nullifier(in.view, in.index)
  BY <1>1, RealInputIsLeaf
<1>3. in \in Input
  BY DEF TypeOK, Proof, Witness
<1>4. ~NoteSpent(in.index + 1)
  BY <1>1, FreshIsUnspent
<1>5. /\ redeemed[in.index] = 0
      /\ \A t \in Slots : Redeems(proof.witness, t, in.index) => t = s
  BY <1>1, <1>2, RedeemedOnce DEF Redeems
<1>6. /\ Len(tree.leaves) \in Nat
      /\ \A k \in 1 .. Len(tree.leaves) : tree'.leaves[k] = tree.leaves[k]
  BY <1>1, TransactTree
<1> HIDE DEF in
<1>7. in.index + 1 \in 1 .. Len(tree.leaves)
  BY <1>2, <1>6
<1>8. NoteSpent(in.index + 1)'
  <2>1. proof.public.nullifiers[s] \in nullifiers'
    BY DEF Transact
  <2>2. proof.public.nullifiers[s].index = in.index /\ proof.public.nullifiers[s].view = in.view
    BY <1>2 DEF Nullifier
  <2>3. tree'.leaves[in.index + 1].key = NoteKey(Owner(in.spend, in.view), in.random)
    BY <1>2, <1>6, <1>7 DEF InputCommitment, Commitment
  <2>4. in.spend \in SpendKeys /\ in.random \in Blindings
    BY <1>3 DEF Input
  <2> QED BY <2>1, <2>2, <2>3, <2>4 DEF NoteSpent
<1>9. in.value \in Nat /\ tree.leaves[in.index + 1].value = in.value
  BY <1>2, <1>3, FieldAssumption DEF InputCommitment, Commitment, Input, Field
<1> QED BY <1>2, <1>4, <1>5, <1>7, <1>8, <1>9 DEF in

(* An accepted transaction consumes one leaf or two, all unspent before and
   spent after, whose value is the total of its inputs. *)
LEMMA TransactConsumes ==
    ASSUME TypeOK, SafetyInv, NEW proof \in proofs, NEW amount \in Amounts,
           NEW recipient \in Users \cup {PoolAddress}, NEW notes \in [Slots -> Payloads],
           NEW account \in TokenAccounts,
           Transact(proof, amount, recipient, notes, account)
    PROVE  \E j, k \in 1 .. Len(tree.leaves) :
              /\ tree.leaves[j].value \in Nat \ {0} /\ tree.leaves[k].value \in Nat \ {0}
              /\ redeemed[j - 1] = 0 /\ redeemed[k - 1] = 0
              /\ ~NoteSpent(j) /\ ~NoteSpent(k) /\ NoteSpent(j)' /\ NoteSpent(k)'
              /\ InputTotal(proof.witness)
                   = IF j = k THEN tree.leaves[j].value ELSE tree.leaves[j].value + tree.leaves[k].value
              /\ \A i \in Indices : redeemed'[i] = IF i + 1 \in {j, k} THEN 1 ELSE redeemed[i]
<1> DEFINE In(s) == proof.witness.inputs[s]
           At(s) == In(s).index + 1
<1>1. /\ \A i \in Indices :
            /\ redeemed[i] \in Nat /\ i \in Nat
            /\ redeemed'[i] = redeemed[i] + (IF Redeems(proof.witness, 1, i) THEN 1 ELSE 0)
                                          + (IF Redeems(proof.witness, 2, i) THEN 1 ELSE 0)
  <2>1. redeemed \in [Indices -> Nat] /\ \A i \in Indices : i \in Nat
    BY FieldAssumption DEF TypeOK, Indices
  <2>2. redeemed' = [i \in Indices |->
                       redeemed[i] + (IF Redeems(proof.witness, 1, i) THEN 1 ELSE 0)
                                   + (IF Redeems(proof.witness, 2, i) THEN 1 ELSE 0)]
    BY DEF Transact
  <2> QED BY <2>1, <2>2
<1>2. \A s \in Slots : In(s).value \in Nat /\ In(s).index \in Nat
  BY FieldAssumption DEF TypeOK, Proof, Witness, Input, Field
<1>3. \A s \in Slots : In(s).value # 0 =>
        /\ At(s) \in 1 .. Len(tree.leaves) /\ In(s).index \in Indices
        /\ tree.leaves[At(s)].value = In(s).value
        /\ redeemed[In(s).index] = 0 /\ ~NoteSpent(At(s)) /\ NoteSpent(At(s))'
        /\ \A t \in Slots : Redeems(proof.witness, t, In(s).index) => t = s
  BY RealInputSpends
<1>4. \E s \in Slots : In(s).value # 0
  BY AssetIsPools DEF Transact, Accepts
<1>5. \A s \in Slots, i \in Indices : Redeems(proof.witness, s, i) <=> In(s).value # 0 /\ i + 1 = At(s)
  BY <1>1, <1>2 DEF Redeems
<1>6. InputTotal(proof.witness) = In(1).value + In(2).value
  BY DEF InputTotal
<1>7. \A s \in Slots : At(s) - 1 = In(s).index
  BY <1>2
<1> HIDE DEF In, At
<1>8. CASE In(1).value # 0 /\ In(2).value # 0
  <2>1. At(1) # At(2)
    <3>1. In(1).index # In(2).index
      BY <1>3, <1>8 DEF Slots, Redeems, In
    <3> QED BY <3>1, <1>2 DEF Slots, At
  <2>2. \A i \in Indices : redeemed'[i] = IF i + 1 \in {At(1), At(2)} THEN 1 ELSE redeemed[i]
    <3> SUFFICES ASSUME NEW i \in Indices
                 PROVE  redeemed'[i] = IF i + 1 \in {At(1), At(2)} THEN 1 ELSE redeemed[i]
      OBVIOUS
    <3>1. /\ Redeems(proof.witness, 1, i) <=> i + 1 = At(1)
          /\ Redeems(proof.witness, 2, i) <=> i + 1 = At(2)
      BY <1>5, <1>8 DEF Slots
    <3>2. \A s \in Slots : i + 1 = At(s) => i = In(s).index
      <4>1. i \in Nat
        BY <1>1
      <4> QED BY <4>1, <1>7
    <3>3. i + 1 \in {At(1), At(2)} => redeemed[i] = 0
      BY <3>2, <1>3, <1>8 DEF Slots
    <3> QED BY <3>1, <3>3, <2>1, <1>1
  <2> QED BY <2>1, <2>2, <1>2, <1>3, <1>6, <1>7, <1>8 DEF Slots
<1>9. ASSUME NEW s \in Slots, NEW t \in Slots, s # t, In(s).value # 0, In(t).value = 0
      PROVE  /\ \A i \in Indices : redeemed'[i] = IF i + 1 \in {At(s), At(s)} THEN 1 ELSE redeemed[i]
             /\ InputTotal(proof.witness) = In(s).value
  <2>1. ASSUME NEW i \in Indices
        PROVE  redeemed'[i] = IF i + 1 \in {At(s), At(s)} THEN 1 ELSE redeemed[i]
    <3>1. /\ Redeems(proof.witness, s, i) <=> i + 1 = At(s)
          /\ ~Redeems(proof.witness, t, i)
      BY <1>5, <1>9
    <3>2. i + 1 = At(s) => redeemed[i] = 0
      BY <1>1, <1>3, <1>7, <1>9
    <3> QED BY <3>1, <3>2, <1>1, <1>9 DEF Slots
  <2>2. In(1).value + In(2).value = In(s).value
    BY <1>2, <1>9 DEF Slots
  <2> QED BY <2>1, <2>2, <1>6
<1>10. CASE \E s, t \in Slots : s # t /\ In(s).value # 0 /\ In(t).value = 0
  <2>1. PICK s \in Slots : \E t \in Slots : s # t /\ In(s).value # 0 /\ In(t).value = 0
    BY <1>10
  <2> QED BY <2>1, <1>2, <1>3, <1>7, <1>9
<1> QED BY <1>4, <1>8, <1>10 DEF Slots

(* A function on 1 .. n is a sequence of length n. *)
LEMMA FunctionIsSeq ==
    ASSUME NEW T, NEW n \in Nat, NEW f \in [1 .. n -> T]
    PROVE  f \in Seq(T) /\ Len(f) = n
OBVIOUS

(* Marking a note changes its flag only. *)
LEMMA MarkedNote ==
    ASSUME NEW key, NEW value, NEW spent \in BOOLEAN, NEW mark \in BOOLEAN
    PROVE  [[key |-> key, value |-> value, spent |-> spent] EXCEPT !.spent = @ \/ mark]
             = [key |-> key, value |-> value, spent |-> spent \/ mark]
OBVIOUS

(* A transaction is a spend of the leaves its witness consumes, into the notes
   its commitments make. *)
LEMMA LedgerTransact ==
    ASSUME TypeOK, SafetyInv, TreeFits, TypeOK', SafetyInv', TreeFits',
           NEW proof \in proofs, NEW amount \in Amounts,
           NEW recipient \in Users \cup {PoolAddress}, NEW notes \in [Slots -> Payloads],
           NEW account \in TokenAccounts,
           Transact(proof, amount, recipient, notes, account)
    PROVE  PoolLedger!Next
<1> DEFINE L  == Len(tree.leaves)
           c1 == proof.public.commitments[1]
           c2 == proof.public.commitments[2]
<1>1. /\ Len(tree'.leaves) = L + 2 /\ L \in Nat
      /\ \A k \in 1 .. L : tree'.leaves[k] = tree.leaves[k]
      /\ tree'.leaves[L + 1] = c1 /\ tree'.leaves[L + 2] = c2
      /\ c1.value \in Values /\ c2.value \in Values
  BY TransactTree DEF Transact, Accepts, Slots
<1>2. c1.key \in Keys /\ c2.key \in Keys
  <2>1. c1 \in Commitments /\ c2 \in Commitments
    BY OutputsInsertedType DEF TypeOK, TreeType
  <2> QED BY <2>1 DEF Commitments
<1>3. PICK j \in 1 .. L, k \in 1 .. L :
              /\ tree.leaves[j].value \in Nat \ {0} /\ tree.leaves[k].value \in Nat \ {0}
              /\ redeemed[j - 1] = 0 /\ redeemed[k - 1] = 0
              /\ InputTotal(proof.witness)
                   = IF j = k THEN tree.leaves[j].value ELSE tree.leaves[j].value + tree.leaves[k].value
              /\ \A i \in Indices : redeemed'[i] = IF i + 1 \in {j, k} THEN 1 ELSE redeemed[i]
  BY TransactConsumes
<1>4. /\ tree \in TreeType /\ redeemed \in [Indices -> Nat] /\ L <= TreeCapacity
      /\ \A i \in DOMAIN tree.leaves : tree.leaves[i].value \in Values
  BY DEF TypeOK, TreeType, TreeFits, SafetyInv, LeavesSound
<1>5. /\ tree' \in TreeType /\ redeemed' \in [Indices -> Nat] /\ Len(tree'.leaves) <= TreeCapacity
      /\ \A i \in DOMAIN tree'.leaves : tree'.leaves[i].value \in Values
  BY DEF TypeOK, TreeType, TreeFits, SafetyInv, LeavesSound
<1>6. /\ LedgerNotes = NotesOf(tree, redeemed)
      /\ LedgerNotes' = NotesOf(tree', redeemed')
  BY DEF LedgerNotes, NotesOf
<1>7. /\ LedgerNotes \in Seq(PoolLedger!Note) /\ Len(LedgerNotes) = L
      /\ DOMAIN LedgerNotes = 1 .. L
      /\ \A i \in 1 .. L :
            /\ i - 1 \in Indices
            /\ LedgerNotes[i] = [key |-> tree.leaves[i].key, value |-> tree.leaves[i].value,
                                 spent |-> redeemed[i - 1] > 0]
  BY <1>4, <1>6, NotesOfType
<1>8. /\ LedgerNotes' \in Seq(PoolLedger!Note) /\ Len(LedgerNotes') = L + 2
      /\ \A i \in 1 .. L + 2 :
            /\ i - 1 \in Indices
            /\ LedgerNotes'[i] = [key |-> tree'.leaves[i].key, value |-> tree'.leaves[i].value,
                                  spent |-> redeemed'[i - 1] > 0]
  BY <1>1, <1>5, <1>6, NotesOfType
<1> DEFINE new1 == PoolLedger!New(c1.key, c1.value)
           new2 == PoolLedger!New(c2.key, c2.value)
           marked == PoolLedger!Marked(j, k)
<1>9. new1 \in PoolLedger!Note /\ new2 \in PoolLedger!Note
  BY <1>1, <1>2 DEF PoolLedger!New, PoolLedger!Note
<1>10. /\ marked \in Seq(PoolLedger!Note) /\ Len(marked) = L
       /\ \A i \in 1 .. L : LedgerNotes'[i] = marked[i]
  <2>1. marked = [i \in 1 .. L |-> [LedgerNotes[i] EXCEPT !.spent = @ \/ i \in {j, k}]]
    BY <1>7 DEF PoolLedger!Marked
  <2>2. \A i \in 1 .. L : LedgerNotes[i] \in PoolLedger!Note
    BY <1>7
  <2>3. marked \in [1 .. L -> PoolLedger!Note]
    BY <2>1, <2>2 DEF PoolLedger!Note
  <2>4. ASSUME NEW i \in 1 .. L
        PROVE  LedgerNotes'[i] = marked[i]
    <3>1. /\ i \in 1 .. L + 2 /\ i - 1 \in Indices /\ (i - 1) + 1 = i
          /\ tree'.leaves[i] = tree.leaves[i]
      <4>1. i - 1 \in Indices /\ tree'.leaves[i] = tree.leaves[i]
        BY <1>1, <1>7
      <4>2. i \in 1 .. L + 2 /\ (i - 1) + 1 = i
        BY <1>1
      <4> QED BY <4>1, <4>2
    <3>2. redeemed'[i - 1] = IF i \in {j, k} THEN 1 ELSE redeemed[i - 1]
      BY <3>1, <1>3
    <3>3. redeemed[i - 1] \in Nat
      BY <3>1, <1>4
    <3>4. (redeemed'[i - 1] > 0) <=> (redeemed[i - 1] > 0 \/ i \in {j, k})
      BY <3>2, <3>3
    <3>5. LedgerNotes'[i] = [key |-> tree.leaves[i].key, value |-> tree.leaves[i].value,
                             spent |-> redeemed'[i - 1] > 0]
      BY <3>1, <1>8
    <3>6. marked[i] = [key |-> tree.leaves[i].key, value |-> tree.leaves[i].value,
                       spent |-> redeemed[i - 1] > 0 \/ i \in {j, k}]
      <4>1. LedgerNotes[i] = [key |-> tree.leaves[i].key, value |-> tree.leaves[i].value,
                              spent |-> redeemed[i - 1] > 0]
        BY <1>7
      <4>2. marked[i] = [LedgerNotes[i] EXCEPT !.spent = @ \/ i \in {j, k}]
        BY <2>1
      <4> DEFINE spent == redeemed[i - 1] > 0
                 mark  == i \in {j, k}
                 note  == LedgerNotes[i]
      <4>3. spent \in BOOLEAN /\ mark \in BOOLEAN
        OBVIOUS
      <4> HIDE DEF marked, spent, mark
      <4>4. [[key |-> tree.leaves[i].key, value |-> tree.leaves[i].value, spent |-> spent]
                EXCEPT !.spent = @ \/ mark]
              = [key |-> tree.leaves[i].key, value |-> tree.leaves[i].value, spent |-> spent \/ mark]
        BY <4>3, MarkedNote
      <4>5. note = [key |-> tree.leaves[i].key, value |-> tree.leaves[i].value, spent |-> spent]
        BY <4>1 DEF spent
      <4>6. marked[i] = [note EXCEPT !.spent = @ \/ mark]
        BY <4>2 DEF mark
      <4> HIDE DEF note
      <4>7. marked[i] = [key |-> tree.leaves[i].key, value |-> tree.leaves[i].value,
                         spent |-> spent \/ mark]
        BY <4>4, <4>5, <4>6
      <4> QED BY <4>7 DEF spent, mark
    <3> QED BY <3>4, <3>5, <3>6
  <2> HIDE DEF marked
  <2>5. marked \in Seq(PoolLedger!Note) /\ Len(marked) = L
    <3>1. L \in Nat
      BY <1>1
    <3> HIDE DEF L
    <3> QED BY <2>3, <3>1, FunctionIsSeq
  <2> QED BY <2>4, <2>5
<1>11. LedgerNotes'[L + 1] = new1 /\ LedgerNotes'[L + 2] = new2
  <2>1. ASSUME NEW i \in {L, L + 1}
        PROVE  LedgerNotes'[i + 1] = PoolLedger!New(tree'.leaves[i + 1].key, tree'.leaves[i + 1].value)
    <3>1. i + 1 \in 1 .. L + 2 /\ (i + 1) - 1 = i /\ i + 1 \notin {j, k} /\ ~(i < L)
      BY <1>1
    <3>2. i \in Indices
      BY <3>1, <1>8
    <3>3. redeemed[i] = 0
      BY <3>1, <3>2 DEF SafetyInv, RedeemedIsRecorded
    <3>4. redeemed'[i] = 0
      BY <3>1, <3>2, <3>3, <1>3
    <3>5. LedgerNotes'[i + 1] = [key |-> tree'.leaves[i + 1].key, value |-> tree'.leaves[i + 1].value,
                                 spent |-> redeemed'[i] > 0]
      BY <3>1, <1>8
    <3>6. (redeemed'[i] > 0) = FALSE
      BY <3>4
    <3> QED BY <3>5, <3>6 DEF PoolLedger!New
  <2>2. (L + 1) + 1 = L + 2
    BY <1>1
  <2>3. LedgerNotes'[L + 1] = PoolLedger!New(tree'.leaves[L + 1].key, tree'.leaves[L + 1].value)
    BY <2>1
  <2>4. LedgerNotes'[(L + 1) + 1] = PoolLedger!New(tree'.leaves[(L + 1) + 1].key, tree'.leaves[(L + 1) + 1].value)
    BY <2>1
  <2> QED BY <2>2, <2>3, <2>4, <1>1
<1> HIDE DEF new1, new2, marked
<1>12. LedgerNotes' = marked \o <<new1, new2>>
  <2>1. /\ marked \o <<new1, new2>> \in Seq(PoolLedger!Note)
        /\ Len(marked \o <<new1, new2>>) = L + 2
        /\ \A i \in 1 .. L : (marked \o <<new1, new2>>)[i] = marked[i]
        /\ (marked \o <<new1, new2>>)[L + 1] = new1
        /\ (marked \o <<new1, new2>>)[L + 2] = new2
    BY <1>9, <1>10, TwoAppended
  <2>2. \A i \in 1 .. L + 2 : i \in 1 .. L \/ i = L + 1 \/ i = L + 2
    BY <1>1
  <2>3. \A i \in 1 .. L + 2 : LedgerNotes'[i] = (marked \o <<new1, new2>>)[i]
    BY <2>1, <2>2, <1>10, <1>11
  <2> QED BY <2>1, <2>3, <1>8, SeqEqual
<1>13. /\ balances[Vault] - balances'[Vault] = -amount
       /\ InputTotal(proof.witness) + amount = OutputTotal(proof.witness)
       /\ c1.value = proof.witness.outputs[1].value
       /\ c2.value = proof.witness.outputs[2].value
       /\ amount \in Int /\ amount <= 0
       /\ balances[Vault] \in Int /\ balances'[Vault] \in Int
  <2>1. /\ balances[Vault] - balances'[Vault] = -amount
        /\ proof.public.amount = PublicAmountField(amount)
    BY TransactPays
  <2>2. Circuit(proof.public, proof.witness) /\ proof.witness \in Witness
    BY DEF SafetyInv, ProofsSound, TypeOK, Proof
  <2>3. InputTotal(proof.witness) + amount = OutputTotal(proof.witness)
    BY <2>1, <2>2, CircuitConservesValue
  <2>4. c1.value = proof.witness.outputs[1].value /\ c2.value = proof.witness.outputs[2].value
    BY <2>2 DEF Circuit, OutputHolds, OutputCommitment, Commitment, Slots
  <2>5. amount \in Int /\ amount <= 0
    BY FieldAssumption DEF Transact, Accepts, ValidArguments, Amounts
  <2>6. balances[Vault] \in Int /\ balances'[Vault] \in Int
    BY PoolAssumption DEF TypeOK
  <2> QED BY <2>1, <2>3, <2>4, <2>5, <2>6
<1>14. /\ LedgerNotes[j].value = tree.leaves[j].value
       /\ LedgerNotes[k].value = tree.leaves[k].value
       /\ LedgerNotes[j].spent = FALSE /\ LedgerNotes[k].spent = FALSE
  <2>1. ASSUME NEW i \in {j, k}
        PROVE  LedgerNotes[i].value = tree.leaves[i].value /\ LedgerNotes[i].spent = FALSE
    <3>1. LedgerNotes[i] = [key |-> tree.leaves[i].key, value |-> tree.leaves[i].value,
                            spent |-> redeemed[i - 1] > 0]
      BY <1>7
    <3>2. (redeemed[i - 1] > 0) = FALSE
      BY <1>3
    <3>3. LedgerNotes[i] = [key |-> tree.leaves[i].key, value |-> tree.leaves[i].value,
                            spent |-> FALSE]
      BY <3>1, <3>2
    <3> QED BY <3>3
  <2> QED BY <2>1
<1>15. PoolLedger!Total(j, k) = InputTotal(proof.witness)
  BY <1>3, <1>14 DEF PoolLedger!Total
<1>16. c1.value \in Int /\ c2.value \in Int /\ InputTotal(proof.witness) \in Int
       /\ OutputTotal(proof.witness) = c1.value + c2.value
  <2>1. \A v \in Values : v \in Int
    BY FieldAssumption DEF Values
  <2>2. InputTotal(proof.witness) \in Int
    BY <1>3
  <2> QED BY <2>1, <2>2, <1>1, <1>13 DEF OutputTotal
<1>17. PoolLedger!Spend(j, k, c1.key, c1.value, c2.key, c2.value)
  <2>1. PoolLedger!Spendable(j) /\ PoolLedger!Spendable(k)
    BY <1>3, <1>14 DEF PoolLedger!Spendable
  <2>2. c1.value + c2.value <= PoolLedger!Total(j, k)
    BY <1>13, <1>15, <1>16
  <2>3. balances'[Vault] = balances[Vault] - (PoolLedger!Total(j, k) - c1.value - c2.value)
    <3> DEFINE v == balances[Vault]
               w == balances'[Vault]
               t == InputTotal(proof.witness)
               a == c1.value
               b == c2.value
    <3>1. /\ v - w = -amount /\ t + amount = a + b
          /\ v \in Int /\ w \in Int /\ t \in Int /\ a \in Int /\ b \in Int /\ amount \in Int
      BY <1>13, <1>16
    <3> HIDE DEF v, w, t, a, b
    <3>2. w = v - (t - a - b)
      BY <3>1
    <3> QED BY <3>2, <1>15 DEF v, w, t, a, b
  <2> QED BY <2>1, <2>2, <2>3, <1>12 DEF PoolLedger!Spend, new1, new2, marked
<1> QED BY <1>1, <1>2, <1>7, <1>17 DEF PoolLedger!Next

(* A step of the program is a step of the ledger, or changes nothing it sees. *)
LEMMA LedgerNext ==
    ASSUME TypeOK, SafetyInv, TreeFits, TypeOK', SafetyInv', TreeFits', [Next]_vars
    PROVE  [PoolLedger!Next]_<<LedgerNotes, balances[Vault]>>
<1> DEFINE Step == [PoolLedger!Next]_<<LedgerNotes, balances[Vault]>>
<1>1. tree'.leaves = tree.leaves /\ redeemed' = redeemed => LedgerNotes' = LedgerNotes
  BY DEF LedgerNotes
<1>2. CASE UNCHANGED vars
  BY <1>1, <1>2 DEF vars
<1>3. CASE Next
  <2>1. ASSUME NEW signer \in Users, NEW config \in Deployments, InitPool(signer, config)
        PROVE  Step
    BY <2>1, <1>1 DEF InitPool, EmptyTree, SafetyInv
  <2>2. ASSUME NEW depositor \in Users, NEW account \in TokenAccounts, NEW key \in Keys,
               NEW amount \in DepositAmounts, NEW note \in DepositPayloads,
               Shield(depositor, account, key, amount, note)
        PROVE  Step
    <3>1. amount \in Values
      BY PoolAssumption
    <3>2. PoolLedger!Deposit(key, amount)
      BY <2>2, LedgerShield
    <3> QED BY <3>1, <3>2 DEF PoolLedger!Next
  <2>3. ASSUME NEW donor \in Users, NEW account \in TokenAccounts, NEW amount \in Donations,
               Donate(donor, account, amount)
        PROVE  Step
    <3>1. /\ amount \in Nat /\ amount > 0 /\ account # Vault /\ Vault \in TokenAccounts
      BY <2>3, PoolAssumption DEF Donate
    <3>2. balances'[Vault] = balances[Vault] + amount /\ balances[Vault] \in Nat
      BY <2>3, <3>1 DEF Donate, Transferred, TypeOK
    <3>3. balances'[Vault] > balances[Vault]
      BY <3>1, <3>2
    <3>4. LedgerNotes' = LedgerNotes
      BY <2>3, <1>1 DEF Donate
    <3> QED BY <3>3, <3>4 DEF PoolLedger!Next, PoolLedger!Donation
  <2>4. ASSUME NEW root, NEW wit, NEW amount, NEW binding, Prove(root, wit, amount, binding)
        PROVE  Step
    BY <2>4, <1>1 DEF Prove
  <2>5. ASSUME NEW proof \in proofs, NEW amount \in Amounts,
               NEW recipient \in Users \cup {PoolAddress}, NEW notes \in [Slots -> Payloads],
               NEW account \in TokenAccounts,
               Transact(proof, amount, recipient, notes, account)
        PROVE  Step
    BY <2>5, LedgerTransact
  <2> QED BY <1>3, <2>1, <2>2, <2>3, <2>4, <2>5, NextCases
<1> QED BY <1>2, <1>3

(* The tree fits in every behaviour. *)
LEMMA FitsCorrect == Spec => []TreeFits
<1>1. Init => TreeFits
  BY FitsInit
<1>2. TypeOK /\ TreeFits /\ [Next]_vars => TreeFits'
  BY FitsNext
<1> QED BY <1>1, <1>2, TypeCorrect, PTL DEF Spec

(* lib.rs: init_pool, shield and transact, with late, rival and repeated proofs
   and donations between them, only ever make the steps of the ledger: deposits,
   donations, and spends of unspent notes whose outputs and payment make up
   their value. *)
THEOREM PoolImplementsLedger == Spec => ImplementsLedger
<1>1. Init => PoolLedger!Init
  BY LedgerInit
<1>2. TypeOK /\ SafetyInv /\ TreeFits /\ TypeOK' /\ SafetyInv' /\ TreeFits' /\ [Next]_vars
        => [PoolLedger!Next]_<<LedgerNotes, balances[Vault]>>
  BY LedgerNext
<1> QED BY <1>1, <1>2, TypeCorrect, SafetyCorrect, FitsCorrect, PTL
        DEF Spec, ImplementsLedger, PoolLedger!Spec

-----------------------------------------------------------------------------
(* Solvency. *)

(* A sum over one more position. *)
LEMMA SumAppend ==
    ASSUME NEW L \in Nat, NEW f, \A x \in 1 .. L + 1 : f[x] \in Nat
    PROVE  /\ SumOver(f, 1 .. L) \in Nat
           /\ SumOver(f, 1 .. L + 1) = SumOver(f, 1 .. L) + f[L + 1]
<1>1. IsFiniteSet(1 .. L) /\ IsFiniteSet(1 .. L + 1)
  BY FS_Interval
<1>2. (1 .. L + 1) \ {L + 1} = 1 .. L /\ L + 1 \in 1 .. L + 1
  OBVIOUS
<1>3. SumOver(f, 1 .. L + 1) = f[L + 1] + SumOver(f, 1 .. L)
  BY <1>1, <1>2, SumSplits
<1>4. SumOver(f, 1 .. L) \in Nat
  <2>1. \A x \in 1 .. L : f[x] \in Nat
    BY <1>2
  <2> QED BY <2>1, <1>1, SumType
<1> QED BY <1>2, <1>3, <1>4

(* Terms that become zero lower a sum by what they were. *)
LEMMA SumConsumes ==
    ASSUME NEW S, IsFiniteSet(S), NEW f, NEW g,
           \A x \in S : f[x] \in Nat /\ g[x] \in Nat /\ g[x] <= f[x],
           NEW j \in S, NEW k \in S, g[j] = 0, g[k] = 0
    PROVE  SumOver(g, S) + (IF j = k THEN f[j] ELSE f[j] + f[k]) <= SumOver(f, S)
<1> DEFINE R == S \ {j}
           Q == R \ {k}
<1>1. IsFiniteSet(R) /\ R \in SUBSET S /\ IsFiniteSet(Q) /\ Q \in SUBSET R
  BY FS_Subset
<1>2. /\ SumOver(f, S) = f[j] + SumOver(f, R)
      /\ SumOver(g, S) = g[j] + SumOver(g, R)
  BY SumSplits
<1>3. /\ SumOver(g, R) <= SumOver(f, R)
      /\ SumOver(f, R) \in Nat /\ SumOver(g, R) \in Nat
  BY <1>1, SumMonotone, SumType
<1>4. CASE j = k
  BY <1>2, <1>3, <1>4
<1>5. CASE j # k
  <2>1. /\ SumOver(f, R) = f[k] + SumOver(f, Q)
        /\ SumOver(g, R) = g[k] + SumOver(g, Q)
    BY <1>1, <1>5, SumSplits
  <2>2. /\ SumOver(g, Q) <= SumOver(f, Q)
        /\ SumOver(f, Q) \in Nat /\ SumOver(g, Q) \in Nat
    BY <1>1, SumMonotone, SumType
  <2>3. f[j] \in Nat /\ f[k] \in Nat
    OBVIOUS
  <2> HIDE DEF R, Q
  <2> QED BY <1>2, <1>5, <2>1, <2>2, <2>3
<1> QED BY <1>4, <1>5

(* What each leaf adds to what the pool owes. *)
Debts == [k \in DOMAIN tree.leaves |-> IF NoteSpent(k) THEN 0 ELSE tree.leaves[k].value]

(* What the pool owes, leaf by leaf. *)
OwedIsSumOfDebts ==
    /\ Owed = SumOver(Debts, 1 .. Len(tree.leaves)) /\ Owed \in Nat
    /\ Len(tree.leaves) \in Nat
    /\ \A k \in 1 .. Len(tree.leaves) :
          /\ tree.leaves[k].value \in Nat
          /\ Debts[k] \in Nat
          /\ Debts[k] = IF NoteSpent(k) THEN 0 ELSE tree.leaves[k].value

(* What the pool owes is a sum of naturals, one for each leaf. *)
LEMMA OwedIsSum == TypeOK => OwedIsSumOfDebts
<1> SUFFICES ASSUME TypeOK PROVE OwedIsSumOfDebts
  OBVIOUS
<1>1. /\ tree.leaves \in Seq(Commitments) /\ Len(tree.leaves) \in Nat
      /\ DOMAIN tree.leaves = 1 .. Len(tree.leaves)
  BY DEF TypeOK
<1>2. \A k \in 1 .. Len(tree.leaves) : tree.leaves[k].value \in Nat
  <2> SUFFICES ASSUME NEW k \in 1 .. Len(tree.leaves) PROVE tree.leaves[k].value \in Nat
    OBVIOUS
  <2>1. tree.leaves[k] \in Commitments
    BY <1>1
  <2> QED BY <2>1, FieldAssumption DEF Commitments, Field
<1>3. \A k \in 1 .. Len(tree.leaves) :
        /\ Debts[k] = IF NoteSpent(k) THEN 0 ELSE tree.leaves[k].value
        /\ Debts[k] \in Nat
  BY <1>1, <1>2 DEF Debts
<1>4. Owed = SumOver(Debts, 1 .. Len(tree.leaves))
  <2>1. Owed = FoldFunction(+, 0, Debts)
    BY DEF Owed, Debts
  <2>2. DOMAIN Debts = 1 .. Len(tree.leaves)
    BY <1>1 DEF Debts
  <2> QED BY <2>1, <2>2 DEF FoldFunction, SumOver
<1>5. IsFiniteSet(1 .. Len(tree.leaves))
  BY <1>1, PlacesFinite
<1> QED BY <1>1, <1>2, <1>3, <1>4, <1>5, SumType DEF OwedIsSumOfDebts

(* The same of the next state. *)
LEMMA OwedIsSumNext == TypeOK' => OwedIsSumOfDebts'
BY OwedIsSum, PTL

(* A leaf is owed at most its value. *)
LEMMA DebtsBounded ==
    ASSUME TypeOK', NEW k \in 1 .. Len(tree'.leaves)
    PROVE  Debts'[k] \in Nat /\ Debts'[k] <= tree'.leaves[k].value
<1>1. /\ Debts'[k] = IF NoteSpent(k)' THEN 0 ELSE tree'.leaves[k].value
      /\ tree'.leaves[k].value \in Nat
  BY OwedIsSumNext DEF OwedIsSumOfDebts
<1> QED BY <1>1

(* Whatever is appended, a leaf that stays adds no more than before. *)
LEMMA DebtsStay ==
    ASSUME TypeOK, TypeOK', nullifiers \subseteq nullifiers',
           Len(tree.leaves) <= Len(tree'.leaves),
           \A k \in 1 .. Len(tree.leaves) : tree'.leaves[k] = tree.leaves[k]
    PROVE  \A k \in 1 .. Len(tree.leaves) :
              Debts[k] \in Nat /\ Debts'[k] \in Nat /\ Debts'[k] <= Debts[k]
<1>1. OwedIsSumOfDebts /\ OwedIsSumOfDebts'
  BY OwedIsSum, OwedIsSumNext
<1> SUFFICES ASSUME NEW k \in 1 .. Len(tree.leaves)
             PROVE  Debts[k] \in Nat /\ Debts'[k] \in Nat /\ Debts'[k] <= Debts[k]
  OBVIOUS
<1>2. /\ Debts[k] \in Nat /\ tree.leaves[k].value \in Nat
      /\ Debts[k] = IF NoteSpent(k) THEN 0 ELSE tree.leaves[k].value
  BY <1>1 DEF OwedIsSumOfDebts
<1>3. k \in 1 .. Len(tree'.leaves)
  BY <1>1 DEF OwedIsSumOfDebts
<1>4. /\ Debts'[k] \in Nat
      /\ Debts'[k] = IF NoteSpent(k)' THEN 0 ELSE tree'.leaves[k].value
  BY <1>1, <1>3 DEF OwedIsSumOfDebts
<1>5. NoteSpent(k) => NoteSpent(k)'
  <2>1. k \in DOMAIN tree.leaves
    BY DEF TypeOK
  <2> QED BY <2>1, SpentStays
<1> QED BY <1>2, <1>4, <1>5

(* A deposit owes what it brings. *)
LEMMA SolventShield ==
    ASSUME TypeOK, TypeOK', Solvent, NEW depositor \in Users, NEW account \in TokenAccounts,
           NEW key \in Keys, NEW amount \in DepositAmounts, NEW note \in DepositPayloads,
           Shield(depositor, account, key, amount, note)
    PROVE  Solvent'
<1> DEFINE L == Len(tree.leaves)
<1>1. /\ amount \in Nat /\ L \in Nat /\ Len(tree'.leaves) = L + 1
      /\ \A k \in 1 .. L : tree'.leaves[k] = tree.leaves[k]
      /\ tree'.leaves[L + 1] = Commitment(key, AssetId(pool.mint), amount)
      /\ balances'[Vault] = balances[Vault] + amount
      /\ nullifiers' = nullifiers
  BY ShieldTree
<1>2. OwedIsSumOfDebts /\ OwedIsSumOfDebts'
  BY OwedIsSum, OwedIsSumNext
<1>3. \A k \in 1 .. L : Debts[k] \in Nat /\ Debts'[k] \in Nat /\ Debts'[k] <= Debts[k]
  BY <1>1, DebtsStay
<1>4. /\ Owed = SumOver(Debts, 1 .. L) /\ Owed \in Nat
      /\ Owed' = SumOver(Debts', 1 .. L + 1) /\ Owed' \in Nat
      /\ \A k \in 1 .. L + 1 : Debts'[k] \in Nat
  BY <1>1, <1>2 DEF OwedIsSumOfDebts
<1>5. Debts'[L + 1] <= amount /\ Debts'[L + 1] \in Nat
  <2>1. L + 1 \in 1 .. Len(tree'.leaves)
    BY <1>1
  <2>2. tree'.leaves[L + 1].value = amount
    BY <1>1 DEF Commitment
  <2> QED BY <2>1, <2>2, DebtsBounded
<1>6. /\ SumOver(Debts', 1 .. L) \in Nat
      /\ SumOver(Debts', 1 .. L + 1) = SumOver(Debts', 1 .. L) + Debts'[L + 1]
  BY <1>1, <1>4, SumAppend
<1>7. SumOver(Debts', 1 .. L) <= SumOver(Debts, 1 .. L)
  <2>1. IsFiniteSet(1 .. L)
    BY <1>1, PlacesFinite
  <2> QED BY <2>1, <1>3, SumMonotone
<1>8. balances[Vault] \in Nat /\ balances[Vault] >= Owed
  BY PoolAssumption DEF TypeOK, Solvent
<1>9. balances'[Vault] >= Owed'
  <2> HIDE DEF L
  <2> QED BY <1>1, <1>4, <1>5, <1>6, <1>7, <1>8
<1> QED BY <1>9 DEF Solvent

(* A transaction owes no more than before, less what it pays. *)
LEMMA SolventTransact ==
    ASSUME TypeOK, SafetyInv, TypeOK', Solvent, NEW proof \in proofs, NEW amount \in Amounts,
           NEW recipient \in Users \cup {PoolAddress}, NEW notes \in [Slots -> Payloads],
           NEW account \in TokenAccounts,
           Transact(proof, amount, recipient, notes, account)
    PROVE  Solvent'
<1> DEFINE L  == Len(tree.leaves)
           a  == proof.witness.outputs[1].value
           b  == proof.witness.outputs[2].value
<1>1. /\ Len(tree'.leaves) = L + 2 /\ L \in Nat
      /\ \A k \in 1 .. L : tree'.leaves[k] = tree.leaves[k]
      /\ tree'.leaves[L + 1] = proof.public.commitments[1]
      /\ tree'.leaves[L + 2] = proof.public.commitments[2]
      /\ nullifiers \subseteq nullifiers'
  BY TransactTree DEF Transact, Accepts
<1>2. OwedIsSumOfDebts /\ OwedIsSumOfDebts'
  BY OwedIsSum, OwedIsSumNext
<1>3. \A k \in 1 .. L : Debts[k] \in Nat /\ Debts'[k] \in Nat /\ Debts'[k] <= Debts[k]
  BY <1>1, DebtsStay
<1>4. /\ Owed = SumOver(Debts, 1 .. L) /\ Owed \in Nat
      /\ Owed' = SumOver(Debts', 1 .. L + 2) /\ Owed' \in Nat
      /\ \A k \in 1 .. L + 2 : Debts'[k] \in Nat
  BY <1>1, <1>2 DEF OwedIsSumOfDebts
<1>5. PICK j \in 1 .. L, k \in 1 .. L :
         /\ ~NoteSpent(j) /\ ~NoteSpent(k) /\ NoteSpent(j)' /\ NoteSpent(k)'
         /\ InputTotal(proof.witness)
              = IF j = k THEN tree.leaves[j].value ELSE tree.leaves[j].value + tree.leaves[k].value
  BY TransactConsumes
<1>6. /\ Debts[j] = tree.leaves[j].value /\ Debts[k] = tree.leaves[k].value
      /\ Debts'[j] = 0 /\ Debts'[k] = 0
      /\ tree.leaves[j].value \in Nat /\ tree.leaves[k].value \in Nat
  <2>1. /\ Debts[j] = tree.leaves[j].value /\ Debts[k] = tree.leaves[k].value
        /\ tree.leaves[j].value \in Nat /\ tree.leaves[k].value \in Nat
    BY <1>2, <1>5 DEF OwedIsSumOfDebts
  <2>2. j \in 1 .. Len(tree'.leaves) /\ k \in 1 .. Len(tree'.leaves)
    BY <1>1
  <2>3. Debts'[j] = 0 /\ Debts'[k] = 0
    BY <2>2, <1>2, <1>5 DEF OwedIsSumOfDebts
  <2> QED BY <2>1, <2>3
<1>7. SumOver(Debts', 1 .. L) + InputTotal(proof.witness) <= SumOver(Debts, 1 .. L)
  <2>1. IsFiniteSet(1 .. L)
    BY <1>1, PlacesFinite
  <2>2. SumOver(Debts', 1 .. L) + (IF j = k THEN Debts[j] ELSE Debts[j] + Debts[k])
          <= SumOver(Debts, 1 .. L)
    BY <2>1, <1>3, <1>6, SumConsumes
  <2> QED BY <2>2, <1>5, <1>6
<1>8. /\ Circuit(proof.public, proof.witness) /\ proof.witness \in Witness
      /\ balances[Vault] - balances'[Vault] = -amount
      /\ proof.public.amount = PublicAmountField(amount)
  BY TransactPays DEF SafetyInv, ProofsSound, TypeOK, Proof
<1>9. /\ InputTotal(proof.witness) + amount = a + b
      /\ a \in Nat /\ b \in Nat
  <2>1. /\ InputTotal(proof.witness) + amount = OutputTotal(proof.witness)
        /\ \A s \in Slots : proof.witness.outputs[s].value \in Values
    BY <1>8, CircuitConservesValue
  <2> QED BY <2>1, FieldAssumption DEF OutputTotal, Values, Slots
<1>10. Debts'[L + 1] <= a /\ Debts'[L + 2] <= b /\ Debts'[L + 1] \in Nat /\ Debts'[L + 2] \in Nat
  <2>1. proof.public.commitments[1].value = a /\ proof.public.commitments[2].value = b
    BY <1>8 DEF Circuit, OutputHolds, OutputCommitment, Commitment, Slots
  <2>2. L + 1 \in 1 .. Len(tree'.leaves) /\ L + 2 \in 1 .. Len(tree'.leaves)
    BY <1>1
  <2> QED BY <2>1, <2>2, <1>1, DebtsBounded
<1>11. /\ SumOver(Debts', 1 .. L) \in Nat
       /\ SumOver(Debts', 1 .. L + 2) = SumOver(Debts', 1 .. L) + Debts'[L + 1] + Debts'[L + 2]
  <2>1. L + 1 \in Nat /\ (L + 1) + 1 = L + 2 /\ 1 .. L + 1 \subseteq 1 .. L + 2
    BY <1>1
  <2>2. /\ SumOver(Debts', 1 .. L) \in Nat
        /\ SumOver(Debts', 1 .. L + 1) = SumOver(Debts', 1 .. L) + Debts'[L + 1]
    BY <2>1, <1>1, <1>4, SumAppend
  <2>3. SumOver(Debts', 1 .. (L + 1) + 1) = SumOver(Debts', 1 .. L + 1) + Debts'[(L + 1) + 1]
    BY <2>1, <1>4, SumAppend
  <2> QED BY <2>1, <2>2, <2>3
<1>12. /\ balances[Vault] \in Nat /\ balances'[Vault] \in Nat /\ balances[Vault] >= Owed
       /\ amount \in Int /\ InputTotal(proof.witness) \in Nat
  <2>1. amount \in Int
    BY FieldAssumption DEF Amounts
  <2>2. InputTotal(proof.witness) \in Nat
    BY <1>5, <1>6
  <2> QED BY <2>1, <2>2, PoolAssumption DEF TypeOK, Solvent
<1>13. balances'[Vault] >= Owed'
  <2> DEFINE v == balances[Vault]
             w == balances'[Vault]
             t == InputTotal(proof.witness)
             p == SumOver(Debts, 1 .. L)
             q == SumOver(Debts', 1 .. L)
             x == Debts'[L + 1]
             y == Debts'[L + 2]
  <2>1. /\ v - w = -amount /\ t + amount = a + b /\ q + t <= p /\ x <= a /\ y <= b /\ v >= p
        /\ v \in Nat /\ w \in Nat /\ t \in Nat /\ amount \in Int /\ a \in Nat /\ b \in Nat
        /\ p \in Nat /\ q \in Nat /\ x \in Nat /\ y \in Nat
        /\ Owed' = q + x + y
    BY <1>4, <1>7, <1>8, <1>9, <1>10, <1>11, <1>12
  <2> HIDE DEF v, w, t, p, q, x, y, a, b
  <2>2. w >= q + x + y
    BY <2>1
  <2> QED BY <2>1, <2>2 DEF w
<1> QED BY <1>13 DEF Solvent

(* What is owed depends on the leaves and the nullifiers only. *)
LEMMA OwedStays ==
    ASSUME TypeOK, TypeOK', tree'.leaves = tree.leaves, nullifiers' = nullifiers
    PROVE  Owed' = Owed
<1>1. Debts' = Debts
  BY DEF Debts, NoteSpent
<1> QED BY <1>1, OwedIsSum, OwedIsSumNext DEF OwedIsSumOfDebts

(* Nothing else touches the debts, and nothing else takes tokens. *)
LEMMA SolventNext == TypeOK /\ SafetyInv /\ TypeOK' /\ Solvent /\ [Next]_vars => Solvent'
<1> SUFFICES ASSUME TypeOK, SafetyInv, TypeOK', Solvent, [Next]_vars PROVE Solvent'
  OBVIOUS
<1>1. tree'.leaves = tree.leaves /\ nullifiers' = nullifiers => Owed' = Owed
  BY OwedStays
<1>2. balances[Vault] \in Nat /\ balances'[Vault] \in Nat /\ Owed \in Nat /\ balances[Vault] >= Owed
  BY PoolAssumption, OwedIsSum DEF TypeOK, OwedIsSumOfDebts, Solvent
<1>3. CASE UNCHANGED vars
  BY <1>1, <1>2, <1>3 DEF vars, Solvent
<1>4. CASE Next
  <2>1. ASSUME NEW signer \in Users, NEW config \in Deployments, InitPool(signer, config)
        PROVE  Solvent'
    BY <2>1, <1>1, <1>2 DEF InitPool, EmptyTree, SafetyInv, Solvent
  <2>2. ASSUME NEW depositor \in Users, NEW account \in TokenAccounts, NEW key \in Keys,
               NEW amount \in DepositAmounts, NEW note \in DepositPayloads,
               Shield(depositor, account, key, amount, note)
        PROVE  Solvent'
    BY <2>2, SolventShield
  <2>3. ASSUME NEW donor \in Users, NEW account \in TokenAccounts, NEW amount \in Donations,
               Donate(donor, account, amount)
        PROVE  Solvent'
    <3>1. amount \in Nat
      BY PoolAssumption
    <3>2. ~(balances'[Vault] < balances[Vault])
      BY <2>3, <3>1, VaultReceives DEF Donate
    <3>3. Owed' = Owed
      BY <2>3, <1>1 DEF Donate
    <3> QED BY <3>2, <3>3, <1>2 DEF Solvent
  <2>4. ASSUME NEW root, NEW wit, NEW amount, NEW binding, Prove(root, wit, amount, binding)
        PROVE  Solvent'
    BY <2>4, <1>1, <1>2 DEF Prove, Solvent
  <2>5. ASSUME NEW proof \in proofs, NEW amount \in Amounts,
               NEW recipient \in Users \cup {PoolAddress}, NEW notes \in [Slots -> Payloads],
               NEW account \in TokenAccounts,
               Transact(proof, amount, recipient, notes, account)
        PROVE  Solvent'
    BY <2>5, SolventTransact
  <2> QED BY <1>4, <2>1, <2>2, <2>3, <2>4, <2>5, NextCases
<1> QED BY <1>3, <1>4

(* A pool with no leaves owes nothing. *)
LEMMA SolventInit == Init => Solvent
<1> SUFFICES ASSUME Init PROVE Solvent
  OBVIOUS
<1>1. TypeOK /\ OwedIsSumOfDebts
  BY TypeInit, OwedIsSum
<1>2. Len(tree.leaves) = 0
  BY DEF Init, EmptyTree
<1>3. Owed = 0
  <2>1. 1 .. Len(tree.leaves) = {}
    BY <1>2
  <2>2. IsFiniteSet({})
    BY FS_EmptySet
  <2>3. Owed = SumOver(Debts, {})
    BY <1>1, <2>1 DEF OwedIsSumOfDebts
  <2> QED BY <2>2, <2>3, SumType
<1>4. balances[Vault] \in Nat
  BY <1>1, PoolAssumption DEF TypeOK
<1> QED BY <1>3, <1>4 DEF Solvent

(* transact.rs, shield.rs: whatever was deposited, spent, paid out and padded,
   the vault holds at least the value of every note that can still be spent. *)
THEOREM AlwaysSolvent == Spec => []Solvent
<1>1. Init => Solvent
  BY SolventInit
<1>2. TypeOK /\ SafetyInv /\ TypeOK' /\ Solvent /\ [Next]_vars => Solvent'
  BY SolventNext
<1> QED BY <1>1, <1>2, TypeCorrect, SafetyCorrect, PTL DEF Spec

-----------------------------------------------------------------------------
(* The log. *)

(* Logged, of any log. *)
EventsOf(log, kind) == {j \in DOMAIN log : log[j].event = kind}

(* LogRebuildsState, of any log, leaves and nullifiers. *)
LogMatches(log, leaves, recorded) ==
    /\ \A j \in EventsOf(log, "NewCommitment") : IsMember(leaves, log[j].index, log[j].commitment)
    /\ \A n \in 0 .. Len(leaves) - 1 :
          \E j \in EventsOf(log, "NewCommitment") : log[j].index = n
    /\ \A i, j \in EventsOf(log, "NewCommitment") : i < j => log[i].index < log[j].index
    /\ recorded = {log[j].nullifier : j \in EventsOf(log, "NewNullifier")}
    /\ \A i, j \in EventsOf(log, "NewNullifier") : log[i].nullifier = log[j].nullifier => i = j

(* One more commitment, announced at its index. *)
LEMMA LogCommitment ==
    ASSUME NEW log \in Seq(Event), NEW leaves \in Seq(Commitments), NEW recorded,
           LogMatches(log, leaves, recorded),
           NEW commitment \in Commitments, NEW note \in Payloads
    PROVE  /\ LogMatches(Append(log, NewCommitment(commitment, Len(leaves), note)),
                         Append(leaves, commitment), recorded)
           /\ Append(log, NewCommitment(commitment, Len(leaves), note)) \in Seq(Event)
<1> DEFINE e   == NewCommitment(commitment, Len(leaves), note)
           new == Append(log, e)
           all == Append(leaves, commitment)
           E   == Len(log)
           L   == Len(leaves)
<1>1. /\ E \in Nat /\ L \in Nat /\ DOMAIN log = 1 .. E
      /\ e.event = "NewCommitment" /\ e.commitment = commitment /\ e.index = L
      /\ e \in Event
  BY DEF NewCommitment, Event
<1> HIDE DEF e
<1>2. /\ new \in Seq(Event) /\ Len(new) = E + 1 /\ DOMAIN new = 1 .. E + 1
      /\ new[E + 1] = e /\ \A j \in 1 .. E : new[j] = log[j]
  BY <1>1
<1>3. /\ Len(all) = L + 1 /\ all[L + 1] = commitment
      /\ \A k \in 1 .. L : all[k] = leaves[k]
  BY <1>1
<1> HIDE DEF new, all
<1>4. /\ EventsOf(new, "NewCommitment") = EventsOf(log, "NewCommitment") \cup {E + 1}
      /\ EventsOf(new, "NewNullifier") = EventsOf(log, "NewNullifier")
      /\ E + 1 \notin EventsOf(log, "NewCommitment")
  BY <1>1, <1>2 DEF EventsOf
<1>5. \A kind : \A j \in EventsOf(log, kind) : j \in 1 .. E /\ new[j] = log[j] /\ log[j] \in Event
  BY <1>1, <1>2 DEF EventsOf
<1>6. \A j \in EventsOf(log, "NewCommitment") :
        log[j].index \in Nat /\ log[j].index < L /\ leaves[log[j].index + 1] = log[j].commitment
  <2> SUFFICES ASSUME NEW j \in EventsOf(log, "NewCommitment")
               PROVE  log[j].index \in Nat
    BY DEF LogMatches, IsMember
  <2>1. log[j].event = "NewCommitment" /\ log[j] \in Event
    BY <1>5 DEF EventsOf
  <2> QED BY <2>1 DEF Event
<1>7. \A j \in EventsOf(new, "NewCommitment") : IsMember(all, new[j].index, new[j].commitment)
  <2>1. ASSUME NEW j \in EventsOf(log, "NewCommitment")
        PROVE  IsMember(all, new[j].index, new[j].commitment)
    <3>1. log[j].index + 1 \in 1 .. L /\ log[j].index < L + 1
      BY <1>1, <1>6
    <3> QED BY <3>1, <1>3, <1>5, <1>6 DEF IsMember
  <2>2. IsMember(all, new[E + 1].index, new[E + 1].commitment)
    BY <1>1, <1>2, <1>3 DEF IsMember
  <2> QED BY <2>1, <2>2, <1>4
<1>8. \A n \in 0 .. Len(all) - 1 : \E j \in EventsOf(new, "NewCommitment") : new[j].index = n
  <2> SUFFICES ASSUME NEW n \in 0 .. L
               PROVE  \E j \in EventsOf(new, "NewCommitment") : new[j].index = n
    BY <1>1, <1>3
  <2>1. CASE n = L
    BY <2>1, <1>1, <1>2, <1>4
  <2>2. CASE n # L
    <3>1. n \in 0 .. L - 1
      BY <2>2, <1>1
    <3>2. PICK j \in EventsOf(log, "NewCommitment") : log[j].index = n
      BY <3>1 DEF LogMatches
    <3> QED BY <3>2, <1>4, <1>5
  <2> QED BY <2>1, <2>2
<1>9. \A i, j \in EventsOf(new, "NewCommitment") : i < j => new[i].index < new[j].index
  <2> SUFFICES ASSUME NEW i \in EventsOf(new, "NewCommitment"),
                      NEW j \in EventsOf(new, "NewCommitment"), i < j
               PROVE  new[i].index < new[j].index
    OBVIOUS
  <2>1. i \in EventsOf(log, "NewCommitment")
    <3>1. j \in 1 .. E + 1
      BY <1>2 DEF EventsOf
    <3>2. i # E + 1
      BY <3>1, <1>1
    <3> QED BY <3>2, <1>4
  <2>2. CASE j = E + 1
    BY <2>1, <2>2, <1>1, <1>2, <1>5, <1>6
  <2>3. CASE j \in EventsOf(log, "NewCommitment")
    BY <2>1, <2>3, <1>5 DEF LogMatches
  <2> QED BY <2>2, <2>3, <1>4
<1>10. recorded = {new[j].nullifier : j \in EventsOf(new, "NewNullifier")}
  BY <1>4, <1>5 DEF LogMatches
<1>11. \A i, j \in EventsOf(new, "NewNullifier") : new[i].nullifier = new[j].nullifier => i = j
  BY <1>4, <1>5 DEF LogMatches
<1>12. LogMatches(new, all, recorded)
  BY <1>7, <1>8, <1>9, <1>10, <1>11 DEF LogMatches
<1> QED BY <1>2, <1>12 DEF new, all, e

(* One more nullifier that was not recorded. *)
LEMMA LogNullifier ==
    ASSUME NEW log \in Seq(Event), NEW leaves, NEW recorded,
           LogMatches(log, leaves, recorded), NEW nullifier \in Nullifiers, nullifier \notin recorded
    PROVE  /\ LogMatches(Append(log, NewNullifier(nullifier)), leaves, recorded \cup {nullifier})
           /\ Append(log, NewNullifier(nullifier)) \in Seq(Event)
<1> DEFINE e   == NewNullifier(nullifier)
           new == Append(log, e)
           E   == Len(log)
<1>1. /\ E \in Nat /\ DOMAIN log = 1 .. E
      /\ e.event = "NewNullifier" /\ e.nullifier = nullifier
      /\ e \in Event
  BY DEF NewNullifier, Event
<1> HIDE DEF e
<1>2. /\ new \in Seq(Event) /\ Len(new) = E + 1 /\ DOMAIN new = 1 .. E + 1
      /\ new[E + 1] = e /\ \A j \in 1 .. E : new[j] = log[j]
  BY <1>1
<1> HIDE DEF new
<1>3. /\ EventsOf(new, "NewCommitment") = EventsOf(log, "NewCommitment")
      /\ EventsOf(new, "NewNullifier") = EventsOf(log, "NewNullifier") \cup {E + 1}
      /\ E + 1 \notin EventsOf(log, "NewNullifier")
  BY <1>1, <1>2 DEF EventsOf
<1>4. \A kind : \A j \in EventsOf(log, kind) : j \in 1 .. E /\ new[j] = log[j]
  BY <1>1, <1>2 DEF EventsOf
<1>5. \A j \in EventsOf(log, "NewNullifier") : log[j].nullifier \in recorded
  BY DEF LogMatches
<1>6. /\ \A j \in EventsOf(new, "NewCommitment") : IsMember(leaves, new[j].index, new[j].commitment)
      /\ \A n \in 0 .. Len(leaves) - 1 : \E j \in EventsOf(new, "NewCommitment") : new[j].index = n
      /\ \A i, j \in EventsOf(new, "NewCommitment") : i < j => new[i].index < new[j].index
  <2>1. PICK C : C = EventsOf(log, "NewCommitment") /\ C = EventsOf(new, "NewCommitment")
    BY <1>3
  <2>2. \A j \in C : new[j] = log[j]
    BY <2>1, <1>4
  <2>3. /\ \A j \in C : IsMember(leaves, log[j].index, log[j].commitment)
        /\ \A n \in 0 .. Len(leaves) - 1 : \E j \in C : log[j].index = n
        /\ \A i, j \in C : i < j => log[i].index < log[j].index
    BY <2>1 DEF LogMatches
  <2> QED BY <2>1, <2>2, <2>3
<1>7. recorded \cup {nullifier} = {new[j].nullifier : j \in EventsOf(new, "NewNullifier")}
  <2>1. recorded = {log[j].nullifier : j \in EventsOf(log, "NewNullifier")}
    BY DEF LogMatches
  <2> QED BY <2>1, <1>1, <1>2, <1>3, <1>4
<1>8. \A i, j \in EventsOf(new, "NewNullifier") : new[i].nullifier = new[j].nullifier => i = j
  <2>1. \A i, j \in EventsOf(log, "NewNullifier") : log[i].nullifier = log[j].nullifier => i = j
    BY DEF LogMatches
  <2> QED BY <2>1, <1>1, <1>2, <1>3, <1>4, <1>5
<1>9. LogMatches(new, leaves, recorded \cup {nullifier})
  BY <1>6, <1>7, <1>8 DEF LogMatches
<1> QED BY <1>2, <1>9 DEF new, e

(* A transaction announces its outputs, then its nullifiers. *)
LEMMA LogTransact ==
    ASSUME TypeOK, LogMatches(events, tree.leaves, nullifiers),
           NEW proof \in proofs, NEW amount \in Amounts,
           NEW recipient \in Users \cup {PoolAddress}, NEW notes \in [Slots -> Payloads],
           NEW account \in TokenAccounts,
           Transact(proof, amount, recipient, notes, account)
    PROVE  LogMatches(events', tree'.leaves, nullifiers')
<1> DEFINE c1 == proof.public.commitments[1]
           c2 == proof.public.commitments[2]
           n1 == proof.public.nullifiers[1]
           n2 == proof.public.nullifiers[2]
<1>1. /\ proof \in Proof /\ tree \in TreeType /\ events \in Seq(Event)
      /\ tree.leaves \in Seq(Commitments) /\ Len(tree.leaves) \in Nat
  BY DEF TypeOK, TreeType
<1>2. /\ c1 \in Commitments /\ c2 \in Commitments
      /\ tree'.leaves = Append(Append(tree.leaves, c1), c2)
      /\ Insert(tree, c1).leaves = Append(tree.leaves, c1)
  BY <1>1, OutputsInsertedType, InsertType DEF Transact
<1>3. /\ n1 \in Nullifiers /\ n2 \in Nullifiers /\ notes[1] \in Payloads /\ notes[2] \in Payloads
      /\ n1 \notin nullifiers /\ n2 \notin nullifiers /\ n1 # n2
      /\ nullifiers' = (nullifiers \cup {n1}) \cup {n2}
  <2>1. n1 \in Nullifiers /\ n2 \in Nullifiers /\ notes[1] \in Payloads /\ notes[2] \in Payloads
    BY <1>1 DEF Proof, Slots
  <2>2. n1 \notin nullifiers /\ n2 \notin nullifiers /\ n1 # n2
    BY DEF Transact, Accepts, FreshNullifiers, ValidArguments, Slots
  <2>3. nullifiers' = nullifiers \cup {proof.public.nullifiers[s] : s \in Slots}
    BY DEF Transact
  <2> QED BY <2>1, <2>2, <2>3 DEF Slots
<1>4. events' = events \o << NewCommitment(c1, Len(tree.leaves), notes[1]),
                             NewCommitment(c2, Len(Append(tree.leaves, c1)), notes[2]),
                             NewNullifier(n1), NewNullifier(n2) >>
  BY <1>2 DEF Transact, TransactEvents, NextIndex
<1> HIDE DEF c1, c2, n1, n2
<1> DEFINE once  == Append(tree.leaves, c1)
           twice == Append(once, c2)
           log1  == Append(events, NewCommitment(c1, Len(tree.leaves), notes[1]))
           log2  == Append(log1, NewCommitment(c2, Len(once), notes[2]))
           log3  == Append(log2, NewNullifier(n1))
           log4  == Append(log3, NewNullifier(n2))
<1>5. once \in Seq(Commitments) /\ twice \in Seq(Commitments)
  BY <1>1, <1>2
<1>6. LogMatches(log1, once, nullifiers) /\ log1 \in Seq(Event)
  BY <1>1, <1>2, <1>3, LogCommitment
<1> HIDE DEF once, log1
<1>7. LogMatches(log2, twice, nullifiers) /\ log2 \in Seq(Event)
  BY <1>2, <1>3, <1>5, <1>6, LogCommitment
<1> HIDE DEF twice, log2
<1>8. LogMatches(log3, twice, nullifiers \cup {n1}) /\ log3 \in Seq(Event)
  BY <1>3, <1>7, LogNullifier
<1> HIDE DEF log3
<1>9. LogMatches(log4, twice, (nullifiers \cup {n1}) \cup {n2}) /\ log4 \in Seq(Event)
  <2>1. n2 \notin nullifiers \cup {n1}
    BY <1>3
  <2> QED BY <2>1, <1>3, <1>8, LogNullifier
<1>10. events' = log4
  <2> DEFINE e1 == NewCommitment(c1, Len(tree.leaves), notes[1])
             e2 == NewCommitment(c2, Len(once), notes[2])
             e3 == NewNullifier(n1)
             e4 == NewNullifier(n2)
  <2>1. events' = events \o <<e1, e2, e3, e4>>
    BY <1>4 DEF once
  <2>2. e1 \in Event /\ e2 \in Event /\ e3 \in Event /\ e4 \in Event
    BY <1>1, <1>2, <1>3, <1>5 DEF NewCommitment, NewNullifier, Event
  <2> HIDE DEF e1, e2, e3, e4
  <2>3. events \o <<e1, e2, e3, e4>> = Append(Append(Append(Append(events, e1), e2), e3), e4)
    BY <1>1, <2>2
  <2> QED BY <2>1, <2>3 DEF log4, log3, log2, log1, e1, e2, e3, e4
<1> QED BY <1>2, <1>3, <1>9, <1>10 DEF twice, once

(* Every step announces what it appends and records, and nothing else. *)
LEMMA LogNext == TypeOK /\ SafetyInv /\ LogRebuildsState /\ [Next]_vars => LogRebuildsState'
<1> SUFFICES ASSUME TypeOK, SafetyInv, LogRebuildsState, [Next]_vars PROVE LogRebuildsState'
  OBVIOUS
<1>1. LogMatches(events, tree.leaves, nullifiers)
  BY DEF LogRebuildsState, Logged, LogMatches, EventsOf
<1>2. LogMatches(events', tree'.leaves, nullifiers') => LogRebuildsState'
  BY DEF LogRebuildsState, Logged, LogMatches, EventsOf
<1>3. events' = events /\ tree'.leaves = tree.leaves /\ nullifiers' = nullifiers => LogRebuildsState'
  BY <1>1, <1>2
<1>4. CASE UNCHANGED vars
  BY <1>3, <1>4 DEF vars
<1>5. CASE Next
  <2>1. ASSUME NEW signer \in Users, NEW config \in Deployments, InitPool(signer, config)
        PROVE  LogRebuildsState'
    BY <2>1, <1>3 DEF InitPool, EmptyTree, SafetyInv
  <2>2. ASSUME NEW depositor \in Users, NEW account \in TokenAccounts, NEW key \in Keys,
               NEW amount \in DepositAmounts, NEW note \in DepositPayloads,
               Shield(depositor, account, key, amount, note)
        PROVE  LogRebuildsState'
    <3> DEFINE commitment == Commitment(key, AssetId(pool.mint), amount)
    <3>1. amount \in Field /\ pool \in Config /\ note \in Payloads
      BY <2>2, PoolAssumption, FieldAssumption DEF Values, Field, Shield, TypeOK
    <3>2. commitment \in Commitments
      BY <3>1 DEF Commitment, Commitments, AssetId, Assets, Config
    <3>3. /\ events' = Append(events, NewCommitment(commitment, Len(tree.leaves), note))
          /\ tree'.leaves = Append(tree.leaves, commitment)
          /\ nullifiers' = nullifiers
      BY <2>2 DEF Shield, NextIndex, Insert
    <3>4. events \in Seq(Event) /\ tree.leaves \in Seq(Commitments)
      BY DEF TypeOK
    <3> HIDE DEF commitment
    <3> QED BY <1>1, <1>2, <3>1, <3>2, <3>3, <3>4, LogCommitment
  <2>3. ASSUME NEW donor \in Users, NEW account \in TokenAccounts, NEW amount \in Donations,
               Donate(donor, account, amount)
        PROVE  LogRebuildsState'
    BY <2>3, <1>3 DEF Donate
  <2>4. ASSUME NEW root, NEW wit, NEW amount, NEW binding, Prove(root, wit, amount, binding)
        PROVE  LogRebuildsState'
    BY <2>4, <1>3 DEF Prove
  <2>5. ASSUME NEW proof \in proofs, NEW amount \in Amounts,
               NEW recipient \in Users \cup {PoolAddress}, NEW notes \in [Slots -> Payloads],
               NEW account \in TokenAccounts,
               Transact(proof, amount, recipient, notes, account)
        PROVE  LogRebuildsState'
    BY <2>5, <1>1, <1>2, LogTransact
  <2> QED BY <1>5, <2>1, <2>2, <2>3, <2>4, <2>5, NextCases
<1> QED BY <1>4, <1>5

(* The empty log is the log of the empty tree. *)
LEMMA LogInit == Init => LogRebuildsState
<1> SUFFICES ASSUME Init PROVE LogRebuildsState
  OBVIOUS
<1>1. events = << >> /\ tree.leaves = << >> /\ nullifiers = {}
  BY DEF Init, EmptyTree
<1>2. \A kind : Logged(kind) = {}
  BY <1>1 DEF Logged
<1>3. ~ \E n \in 0 .. Len(tree.leaves) - 1 : TRUE
  BY <1>1
<1> QED BY <1>1, <1>2, <1>3 DEF LogRebuildsState

(* events of shield.rs and transact.rs: an indexer that sees only the log
   rebuilds the leaves, in their order and places, and the nullifier records. *)
THEOREM LogAlwaysRebuilds == Spec => []LogRebuildsState
<1>1. Init => LogRebuildsState
  BY LogInit
<1>2. TypeOK /\ SafetyInv /\ LogRebuildsState /\ [Next]_vars => LogRebuildsState'
  BY LogNext
<1> QED BY <1>1, <1>2, TypeCorrect, SafetyCorrect, PTL DEF Spec

-----------------------------------------------------------------------------
(***************************************************************************)
(* Wallets: the theorems about Client, which rest on the vault's.          *)
(***************************************************************************)

(* A note of the instruction's statement is padding, or one of its sends and
   carries the payload made for it. *)
SlotFollows(i, s) ==
    LET commitment == i.proof.public.commitments[s] IN
    \/ commitment.value = 0
    \/ \E send \in i.sends :
          commitment = OutputCommitment(AssetId(pool.mint), send) /\ i.notes[s] = send.encrypted

(* What Prepare leaves in an instruction. *)
InstructionSound(i) ==
    /\ i.proof \in proofs
    /\ i.amount \in Amounts /\ i.amount <= 0
    /\ i.recipient \in Users \cup {PoolAddress}
    /\ i.amount < 0 => i.recipient \in Users
    /\ i.account = RecipientAta(i.amount, i.recipient)
    /\ i.notes \in [Slots -> Payloads \ OversizedPayloads]
    /\ Verified(i.proof, i.amount, i.recipient, i.notes)
    /\ SdkAccepts(i.proof.public.root, i.proof.witness, i.amount)
    /\ \A s \in Slots :
          LET in == i.proof.witness.inputs[s] IN in.value = 0 => in.view \in DummyViews
    /\ \A s \in Slots : SlotFollows(i, s)

(* Every prepared instruction is sound, for the pool there is. *)
PreparedInv ==
    /\ prepared # {} => pool # NoPool
    /\ \A i \in prepared : InstructionSound(i)

(* A recorded nullifier is one of padding, or of a note that was redeemed. *)
RecordedInv ==
    \A n \in nullifiers : \/ n.view \in DummyViews
                          \/ n.index \in Indices /\ redeemed[n.index] # 0

(* The inductive invariant of wallets and pool. *)
ClientInv ==
    /\ TypeOK /\ SafetyInv /\ TreeFits /\ Solvent
    /\ PreparedInv /\ RecordedInv

-----------------------------------------------------------------------------
(* What Prepare makes. *)

(* Padding to two and shuffling adds nothing but the dummy. *)
LEMMA PaddedElements ==
    ASSUME NEW T, NEW list \in Seq(T), Len(list) <= 2, NEW dummy,
           NEW pair \in Shuffles(Padded(list, dummy)), NEW s \in Slots
    PROVE  pair[s] = dummy \/ \E k \in DOMAIN list : pair[s] = list[k]
<1> DEFINE all == list \o <<dummy, dummy>>
<1>1. /\ Len(list) \in Nat /\ DOMAIN list = 1 .. Len(list)
      /\ list \in Seq(T \cup {dummy}) /\ <<dummy, dummy>> \in Seq(T \cup {dummy})
  OBVIOUS
<1>2. /\ all \in Seq(T \cup {dummy}) /\ Len(all) = Len(list) + 2
      /\ \A k \in 1 .. Len(all) : all[k] = IF k <= Len(list) THEN list[k] ELSE dummy
  BY <1>1
<1> HIDE DEF all
<1>3. SubSeq(all, 1, 2)[1] = all[1] /\ SubSeq(all, 1, 2)[2] = all[2]
  BY <1>1, <1>2
<1>4. pair[s] \in {all[1], all[2]}
  BY <1>3 DEF Padded, Shuffles, Slots, all
<1>5. \A k \in {1, 2} : all[k] = dummy \/ \E j \in DOMAIN list : all[k] = list[j]
  BY <1>1, <1>2
<1> QED BY <1>4, <1>5

(* A spend of a plan is padding, or a note of the wallet with a path of this
   tree, at an index of that path. *)
SpendSound(spend) ==
    /\ spend.input \in Input
    /\ spend.input.value = 0 => spend.input.view \in DummyViews
    /\ spend.input.value # 0 => MerkleRoot(spend) \in Roots

(* A wallet's note, with a path read from the tree, is sound. *)
LEMMA WalletSpendSound ==
    ASSUME TypeOK, pool # NoPool, NEW spend \in Spends, spend.input.value # 0
    PROVE  SpendSound(spend)
<1>1. PICK in \in WalletInputs, lag \in {l \in PathLags : l <= Len(tree.leaves)} :
         /\ spend = [input |-> in, asset |-> AssetId(pool.mint),
                     path |-> RootAt(tree, Len(tree.leaves) - lag)]
         /\ spend.input.index < Len(spend.path)
  BY DEF Spends
<1> DEFINE n == Len(tree.leaves) - lag
           commitment == InputCommitment(spend.asset, spend.input)
<1>2. tree \in TreeType /\ n \in 0 .. Len(tree.leaves)
  <2>1. tree \in TreeType
    BY DEF TypeOK, TreeType
  <2>2. Len(tree.leaves) \in Nat
    BY <2>1 DEF TreeType
  <2>3. lag \in Nat /\ lag <= Len(tree.leaves)
    BY ClientAssumption
  <2> QED BY <2>1, <2>2, <2>3
<1>3. in \in Input /\ NoteKeyOf(in) \in Keys /\ in.index \in Nat /\ in.value \in Field
  BY ClientAssumption, FieldAssumption DEF Input, Field
<1>4. spend.path \in Seq(Commitments) /\ spend.input = in /\ spend.asset = AssetId(pool.mint)
  BY <1>1, <1>2, RootAtType DEF Roots
<1>5. commitment \in Commitments
  <2>1. pool.mint \in Mints
    BY DEF TypeOK, Config
  <2> QED BY <2>1, <1>3, <1>4
          DEF InputCommitment, Commitment, Commitments, NoteKeyOf, Assets, AssetId
<1> HIDE DEF commitment
<1>6. spend.input.index + 1 \in 1 .. Len(spend.path)
  BY <1>1, <1>3, <1>4
<1>7. [spend.path EXCEPT ![spend.input.index + 1] = commitment] \in Seq(Commitments)
  BY <1>4, <1>5, <1>6
<1> QED BY <1>3, <1>4, <1>7 DEF SpendSound, MerkleRoot, Roots, commitment

(* So is padding. *)
LEMMA DummySpendSound ==
    ASSUME NEW spends, NEW spend \in DummySpends(spends)
    PROVE  SpendSound(spend)
<1>1. PICK view \in FreshViews, i \in DummyIndices : spend = DummySpend(view, i)
  BY DEF DummySpends
<1>2. view \in DummyViews /\ view \in ViewKeys /\ i \in Field
  BY ClientAssumption, FieldAssumption DEF FreshViews, Indices, Field
<1>3. spend.input \in Input /\ spend.input.value = 0 /\ spend.input.view = view
  BY <1>1, <1>2, ClientAssumption DEF DummySpend, Input
<1> QED BY <1>2, <1>3 DEF SpendSound

(* Every spend of a plan is sound: the wallet's have value, padding has none. *)
LEMMA PlanSpends ==
    ASSUME TypeOK, pool # NoPool, NEW spends \in SpendLists, NEW sends,
           ValidArity(spends, sends), NEW plan \in Plans(spends, sends), NEW s \in Slots
    PROVE  SpendSound(plan.spends[s])
<1>1. PICK dummy \in DummySpends(spends) : plan.spends \in Shuffles(Padded(spends, dummy))
  <2>1. PICK ins \in UNION {Shuffles(Padded(spends, dummy)) : dummy \in DummySpends(spends)},
             outs \in Shuffles(Padded(sends, DummySend)) :
               plan = [spends |-> ins, sends |-> outs]
    BY DEF Plans
  <2> QED BY <2>1
<1>2. /\ spends \in Seq(Spends) /\ Len(spends) <= 2
      /\ \A k \in DOMAIN spends : spends[k] \in Spends
  <2>1. CASE \E a \in Spends : spends = <<a>>
    BY <2>1
  <2>2. CASE \E a, b \in Spends : spends = <<a, b>>
    BY <2>2
  <2> QED BY <2>1, <2>2 DEF SpendLists
<1>3. plan.spends[s] = dummy \/ \E k \in DOMAIN spends : plan.spends[s] = spends[k]
  BY <1>1, <1>2, PaddedElements
<1>4. ASSUME NEW k \in DOMAIN spends
      PROVE  SpendSound(spends[k])
  <2>1. spends[k] \in Spends /\ spends[k].input.value # 0
    BY <1>2 DEF ValidArity
  <2> QED BY <2>1, WalletSpendSound
<1> QED BY <1>1, <1>3, <1>4, DummySpendSound

(* Every send of a plan is one of the transaction's, or padding of no value. *)
LEMMA PlanSends ==
    ASSUME NEW spends, NEW sends \in SendLists, ValidArity(spends, sends),
           NEW plan \in Plans(spends, sends), NEW s \in Slots
    PROVE  /\ plan.sends[s].key \in Keys /\ plan.sends[s].value \in Field
           /\ plan.sends[s].encrypted \in Payloads
           /\ plan.sends[s].value = 0 \/ plan.sends[s] \in ToSet(sends)
<1>1. PICK outs \in Shuffles(Padded(sends, DummySend)) : plan.sends = outs
  <2>1. PICK ins \in UNION {Shuffles(Padded(spends, dummy)) : dummy \in DummySpends(spends)},
             outs \in Shuffles(Padded(sends, DummySend)) :
               plan = [spends |-> ins, sends |-> outs]
    BY DEF Plans
  <2> QED BY <2>1
<1>2. sends \in Seq(Send) /\ Len(sends) <= 2
  <2>1. sends \in Seq(Send)
    BY ClientAssumption
  <2>2. Len(sends) \in 0 .. 2
    BY DEF ValidArity
  <2>3. \A n \in 0 .. 2 : n <= 2
    OBVIOUS
  <2> QED BY <2>1, <2>2, <2>3
<1>3. outs[s] = DummySend \/ \E k \in DOMAIN sends : outs[s] = sends[k]
  BY <1>2, PaddedElements
<1>4. CASE outs[s] = DummySend
  BY <1>1, <1>4, ClientAssumption, FieldAssumption DEF Field
<1>5. ASSUME NEW k \in DOMAIN sends, outs[s] = sends[k]
      PROVE  outs[s] \in Send /\ outs[s] \in ToSet(sends)
  BY <1>2, <1>5 DEF ToSet
<1>6. CASE outs[s] \in Send /\ outs[s] \in ToSet(sends)
  BY <1>1, <1>6, FieldAssumption DEF Send, Values, Field
<1> QED BY <1>3, <1>4, <1>5, <1>6

(* The witness of a plan, its root and its statement are well typed. *)
LEMMA PlanTypes ==
    ASSUME TypeOK, pool # NoPool, NEW spends \in SpendLists, NEW sends \in SendLists,
           ValidArity(spends, sends), NEW plan \in Plans(spends, sends),
           NEW root \in SharedRoots(plan)
    PROVE  /\ WitnessOf(plan) \in Witness
           /\ WitnessOf(plan).asset = AssetId(pool.mint)
           /\ Encrypted(plan) \in [Slots -> Payloads]
           /\ root \in Roots
<1>1. \A s \in Slots : plan.spends[s].input \in Input
  BY PlanSpends DEF SpendSound
<1>2. \A s \in Slots : /\ plan.sends[s].key \in Keys /\ plan.sends[s].value \in Field
                       /\ plan.sends[s].encrypted \in Payloads
  BY PlanSends
<1>3. AssetId(pool.mint) \in Assets
  BY DEF TypeOK, Config, AssetId, Assets
<1>4. WitnessOf(plan) \in Witness
  <2>1. [s \in Slots |-> plan.spends[s].input] \in [Slots -> Input]
    BY <1>1
  <2>2. [s \in Slots |-> [key |-> plan.sends[s].key, value |-> plan.sends[s].value]]
          \in [Slots -> Output]
    BY <1>2 DEF Output
  <2> QED BY <1>3, <2>1, <2>2 DEF WitnessOf, Witness
<1>5. root \in Roots
  BY PlanSpends DEF SharedRoots, SpendSound
<1> QED BY <1>2, <1>4, <1>5 DEF WitnessOf, Encrypted

(* An amount the SDK gives has a field element, and a binding to go with. *)
LEMMA PreparedBinding ==
    ASSUME TypeOK, pool # NoPool, NEW amount \in Amounts,
           NEW recipient \in Users \cup {PoolAddress}, NEW notes \in [Slots -> Payloads]
    PROVE  /\ External(amount, recipient, notes) \in Binding
           /\ PublicAmountField(amount) \in Field
<1>1. pool \in Config
  BY DEF TypeOK
<1>2. External(amount, recipient, notes) \in Binding
  BY <1>1 DEF External, Binding, Config
<1> QED BY <1>2, FieldAssumption DEF PublicAmountField, Field, Amounts

(* A proof made for the hash and the amount the program recomputes is verified. *)
LEMMA StatementStays ==
    ASSUME NEW proof, NEW root, NEW wit, NEW amount, NEW recipient, NEW notes,
           proof.public = PublicInputs(root, wit, PublicAmountField(amount),
                                       ExtDataHash(amount, recipient, notes))
    PROVE  Verified(proof, amount, recipient, notes)
<1>1. PICK public, a, h : /\ public = PublicInputs(root, wit, a, h)
                          /\ a = PublicAmountField(amount)
                          /\ h = ExtDataHash(amount, recipient, notes)
  OBVIOUS
<1>2. [public EXCEPT !.amount = a] = public
  BY <1>1 DEF PublicInputs
<1>3. [public EXCEPT !.hash = h] = public
  BY <1>1 DEF PublicInputs
<1>4. [public EXCEPT !.amount = a, !.hash = h] = [[public EXCEPT !.amount = a] EXCEPT !.hash = h]
  OBVIOUS
<1>5. [public EXCEPT !.amount = a, !.hash = h] = public
  BY <1>2, <1>3, <1>4
<1> QED BY <1>1, <1>5 DEF Verified, StatementOf

(* The statement that Prepare makes of a plan. *)
PlanStatement(plan, root, recipient, amount) ==
    PublicInputs(root, WitnessOf(plan), PublicAmountField(amount),
                 External(amount, recipient, Encrypted(plan)))

(* The instruction. *)
MadeOf(plan, root, sends, recipient, amount) ==
    Instruction([public |-> PlanStatement(plan, root, recipient, amount), witness |-> WitnessOf(plan)],
                amount, recipient, Encrypted(plan), ToSet(sends))

(* Prepare, once its plan and root are chosen. *)
PreparedFrom(plan, root, sends, recipient, amount) ==
    /\ \A s \in Slots : Encrypted(plan)[s] \notin OversizedPayloads
    /\ BuildsWitness(PlanStatement(plan, root, recipient, amount), WitnessOf(plan), amount)
    /\ proofs' = proofs \cup {[public |-> PlanStatement(plan, root, recipient, amount),
                               witness |-> WitnessOf(plan)]}
    /\ prepared' = prepared \cup {MadeOf(plan, root, sends, recipient, amount)}

(* Prepare adds one proof of a true statement and one sound instruction. *)
LEMMA PrepareAdds ==
    ASSUME TypeOK, NEW spends \in SpendLists, NEW sends \in SendLists,
           NEW recipient \in Users \cup {PoolAddress}, NEW amount \in Amounts,
           amount <= 0, amount < 0 => recipient \in Users,
           Prepare(spends, sends, recipient, amount)
    PROVE  \E i : /\ i.proof \in Proof /\ Circuit(i.proof.public, i.proof.witness)
                  /\ proofs' = proofs \cup {i.proof}
                  /\ prepared' = prepared \cup {i}
                  /\ InstructionSound(i)'
<1>1. PICK plan \in Plans(spends, sends) : \E root \in SharedRoots(plan) :
         PreparedFrom(plan, root, sends, recipient, amount)
  BY DEF Prepare, PreparedFrom, MadeOf, PlanStatement
<1>2. PICK root \in SharedRoots(plan) : PreparedFrom(plan, root, sends, recipient, amount)
  BY <1>1
<1>a. PICK wit, notes, public, proof, i :
         /\ wit = WitnessOf(plan) /\ notes = Encrypted(plan)
         /\ public = PlanStatement(plan, root, recipient, amount)
         /\ proof = [public |-> public, witness |-> wit]
         /\ i = MadeOf(plan, root, sends, recipient, amount)
  OBVIOUS
<1>0. pool # NoPool /\ pool' = pool /\ ValidArity(spends, sends)
  BY DEF Prepare
<1>3. wit \in Witness /\ wit.asset = AssetId(pool.mint) /\ notes \in [Slots -> Payloads] /\ root \in Roots
  BY <1>0, <1>a, PlanTypes
<1>4. proof \in Proof
  BY <1>0, <1>3, <1>a, PreparedBinding, StatementType DEF PlanStatement
<1>5. /\ Circuit(public, wit) /\ SdkAccepts(public.root, wit, amount)
      /\ notes \in [Slots -> Payloads \ OversizedPayloads]
  BY <1>2, <1>3, <1>a DEF PreparedFrom, BuildsWitness
<1>6. /\ i.proof = proof /\ i.amount = amount /\ i.recipient = recipient /\ i.notes = notes
      /\ i.account = RecipientAta(amount, recipient) /\ i.sends = ToSet(sends)
      /\ proof.public = public /\ proof.witness = wit
  BY <1>a DEF MadeOf, Instruction
<1>7. proofs' = proofs \cup {proof} /\ prepared' = prepared \cup {i}
  BY <1>2, <1>a DEF PreparedFrom
<1>8. Verified(proof, amount, recipient, notes)'
  <2>1. public = PublicInputs(root, wit, PublicAmountField(amount),
                              ExtDataHash(amount, recipient, notes))
    BY <1>a DEF PlanStatement, External, ExtDataHash
  <2>2. Verified(proof, amount, recipient, notes)
    BY <1>6, <2>1, StatementStays
  <2> QED BY <1>0, <2>2 DEF Verified, StatementOf, ExtDataHash
<1>9. ASSUME NEW s \in Slots, wit.inputs[s].value = 0
      PROVE  wit.inputs[s].view \in DummyViews
  BY <1>0, <1>9, <1>a, PlanSpends DEF WitnessOf, SpendSound
<1>10. ASSUME NEW s \in Slots
       PROVE  SlotFollows(i, s)'
  <2>1. PICK send : send = plan.sends[s]
    OBVIOUS
  <2>2. /\ public.commitments[s] = Commitment(send.key, AssetId(pool.mint), send.value)
        /\ notes[s] = send.encrypted
    BY <1>a, <2>1 DEF PlanStatement, PublicInputs, OutputCommitment, WitnessOf, Encrypted
  <2>3. send.value = 0 \/ send \in ToSet(sends)
    BY <1>0, <2>1, PlanSends
  <2>4. AssetId(pool.mint)' = AssetId(pool.mint)
    BY <1>0
  <2> QED BY <1>6, <2>2, <2>3, <2>4 DEF SlotFollows, OutputCommitment, Commitment
<1>11. InstructionSound(i)'
  BY <1>5, <1>6, <1>7, <1>8, <1>9, <1>10 DEF InstructionSound
<1> QED BY <1>4, <1>5, <1>6, <1>7, <1>11

-----------------------------------------------------------------------------
(* The steps of wallets. *)

(* What a step of DoTransfer or DoWithdraw does. *)
AddsInstruction ==
    \E i : /\ i.proof \in Proof /\ Circuit(i.proof.public, i.proof.witness)
           /\ proofs' = proofs \cup {i.proof}
           /\ prepared' = prepared \cup {i}
           /\ InstructionSound(i)'

(* Such a step changes nothing on the chain. *)
OnlyPrepares ==
    /\ pool # NoPool /\ AddsInstruction
    /\ UNCHANGED <<pool, tree, nullifiers, balances, events, redeemed>>

(* A transfer prepares an instruction of amount zero to the pool itself. *)
LEMMA TransferPrepares == TypeOK /\ DoTransfer => OnlyPrepares
<1> SUFFICES ASSUME TypeOK, DoTransfer PROVE OnlyPrepares
  OBVIOUS
<1>1. PICK spends \in SpendLists, sends \in SendLists : Prepare(spends, sends, PoolAddress, 0)
  BY DEF DoTransfer, Transfer
<1>2. 0 \in Amounts /\ 0 <= 0
  BY FieldAssumption DEF Amounts
<1>3. AddsInstruction
  BY <1>1, <1>2, PrepareAdds DEF AddsInstruction
<1> QED BY <1>1, <1>3 DEF OnlyPrepares, Prepare

(* A withdrawal prepares one of a negative amount to a user. *)
LEMMA WithdrawPrepares == TypeOK /\ DoWithdraw => OnlyPrepares
<1> SUFFICES ASSUME TypeOK, DoWithdraw PROVE OnlyPrepares
  OBVIOUS
<1>1. PICK spends \in SpendLists, sends \in SendLists, recipient \in Users, withdrawal \in Withdrawals :
         Prepare(spends, sends, recipient, -withdrawal)
  BY DEF DoWithdraw, Withdraw, PublicAmount
<1>2. -withdrawal \in Amounts /\ -withdrawal <= 0
  BY ClientAssumption, FieldAssumption DEF Amounts
<1>3. AddsInstruction
  BY <1>1, <1>2, PrepareAdds DEF AddsInstruction
<1> QED BY <1>1, <1>3 DEF OnlyPrepares, Prepare

(* Submitting a sound instruction is a transaction of the pool. *)
LEMMA SubmitIsTransact ==
    ASSUME NEW i, InstructionSound(i), Submit(i)
    PROVE  /\ i.proof \in proofs /\ i.amount \in Amounts
           /\ i.recipient \in Users \cup {PoolAddress}
           /\ i.notes \in [Slots -> Payloads] /\ i.account \in TokenAccounts
           /\ Transact(i.proof, i.amount, i.recipient, i.notes, i.account)
           /\ prepared' = prepared
<1>1. i.account \in TokenAccounts
  BY PoolAssumption, ClientAssumption DEF InstructionSound, RecipientAta
<1>2. i.notes \in [Slots -> Payloads]
  BY DEF InstructionSound
<1> QED BY <1>1, <1>2 DEF InstructionSound, Submit

(* A step of wallets prepares an instruction, or is a step of the pool. *)
LEMMA ClientCases ==
    ASSUME TypeOK, PreparedInv, [ClientNext]_clientVars
    PROVE  \/ OnlyPrepares
           \/ /\ [Next]_vars /\ prepared' = prepared
              /\ \/ DoInitPool \/ DoShield \/ UNCHANGED vars
                 \/ \E i \in prepared : Submit(i)
<1>1. CASE DoSubmit
  <2>1. PICK i \in prepared : Submit(i)
    BY <1>1 DEF DoSubmit
  <2>2. /\ i.proof \in proofs /\ i.amount \in Amounts
        /\ i.recipient \in Users \cup {PoolAddress}
        /\ i.notes \in [Slots -> Payloads] /\ i.account \in TokenAccounts
        /\ Transact(i.proof, i.amount, i.recipient, i.notes, i.account)
        /\ prepared' = prepared
    BY <2>1, SubmitIsTransact DEF PreparedInv
  <2>3. DoTransact
    BY <2>2 DEF DoTransact
  <2> QED BY <2>1, <2>2, <2>3 DEF Next
<1>2. CASE DoTransfer \/ DoWithdraw
  BY <1>2, TransferPrepares, WithdrawPrepares
<1>3. CASE (DoInitPool \/ DoShield) /\ UNCHANGED prepared
  BY <1>3 DEF Next
<1>4. CASE UNCHANGED clientVars
  BY <1>4 DEF clientVars, vars
<1> QED BY <1>1, <1>2, <1>3, <1>4 DEF ClientNext

(* Preparing keeps what the pool's proofs establish: it adds one proof of a true
   statement. *)
LEMMA PoolInvPrepares ==
    ASSUME TypeOK, SafetyInv, TreeFits, Solvent, OnlyPrepares
    PROVE  TypeOK' /\ SafetyInv' /\ TreeFits' /\ Solvent'
<1>1. PICK i : /\ i.proof \in Proof /\ Circuit(i.proof.public, i.proof.witness)
               /\ proofs' = proofs \cup {i.proof}
  BY DEF OnlyPrepares, AddsInstruction
<1>2. TypeOK'
  BY <1>1 DEF OnlyPrepares, TypeOK
<1>3. SafetyInv'
  <2>1. ProofsSound'
    BY <1>1 DEF SafetyInv, ProofsSound
  <2> QED BY <2>1 DEF OnlyPrepares, SafetyInv, PastRoots, RedeemedIsRecorded, NoteSpent, LeavesSound
<1>4. TreeFits'
  BY DEF OnlyPrepares, TreeFits
<1>5. Solvent'
  <2>1. Owed' = Owed
    BY <1>2, OwedStays DEF OnlyPrepares
  <2> QED BY <2>1 DEF OnlyPrepares, Solvent
<1> QED BY <1>2, <1>3, <1>4, <1>5

(* The pool's invariants, in a step of wallets. *)
LEMMA PoolInvNext ==
    ASSUME TypeOK, SafetyInv, TreeFits, Solvent, PreparedInv, [ClientNext]_clientVars
    PROVE  TypeOK' /\ SafetyInv' /\ TreeFits' /\ Solvent'
<1>1. CASE OnlyPrepares
  BY <1>1, PoolInvPrepares
<1>2. CASE [Next]_vars
  BY <1>2, TypeNext, SafetyNext, FitsNext, SolventNext
<1> QED BY <1>1, <1>2, ClientCases

(* A prepared instruction stays as it was made for good. *)
LEMMA InstructionStays ==
    ASSUME NEW i, InstructionSound(i), proofs \subseteq proofs', pool' = pool
    PROVE  InstructionSound(i)'
<1>1. Verified(i.proof, i.amount, i.recipient, i.notes)'
  BY DEF InstructionSound, Verified, StatementOf, ExtDataHash
<1>2. \A s \in Slots : SlotFollows(i, s)'
  BY DEF InstructionSound, SlotFollows
<1> QED BY <1>1, <1>2 DEF InstructionSound

(* The pool account is written once, and no proof is forgotten. *)
LEMMA PoolStays ==
    ASSUME pool # NoPool, [Next]_vars
    PROVE  pool' = pool /\ proofs \subseteq proofs'
<1>1. CASE UNCHANGED vars
  BY <1>1 DEF vars
<1>2. CASE Next
  <2>1. ~DoInitPool
    BY DEF DoInitPool, InitPool
  <2>2. CASE DoShield
    BY <2>2 DEF DoShield, Shield
  <2>3. CASE DoDonate
    BY <2>3 DEF DoDonate, Donate
  <2>4. CASE DoProve
    BY <2>4 DEF DoProve, Prove
  <2>5. CASE DoTransact
    BY <2>5 DEF DoTransact, Transact
  <2> QED BY <1>2, <2>1, <2>2, <2>3, <2>4, <2>5 DEF Next
<1> QED BY <1>1, <1>2

(* Whatever the chain does, prepared instructions stay sound. *)
LEMMA PreparedNext ==
    ASSUME TypeOK, PreparedInv, [ClientNext]_clientVars
    PROVE  PreparedInv'
<1>1. CASE OnlyPrepares
  <2>1. PICK i : /\ proofs' = proofs \cup {i.proof} /\ prepared' = prepared \cup {i}
                 /\ InstructionSound(i)'
    BY <1>1 DEF OnlyPrepares, AddsInstruction
  <2>2. pool # NoPool /\ pool' = pool
    BY <1>1 DEF OnlyPrepares
  <2>3. \A j \in prepared : InstructionSound(j)'
    BY <2>1, <2>2, InstructionStays DEF PreparedInv
  <2> QED BY <2>1, <2>2, <2>3 DEF PreparedInv
<1>2. CASE [Next]_vars /\ prepared' = prepared
  <2>1. CASE prepared = {}
    BY <1>2, <2>1 DEF PreparedInv
  <2>2. CASE prepared # {}
    <3>1. pool # NoPool /\ pool' = pool /\ proofs \subseteq proofs'
      BY <1>2, <2>2, PoolStays DEF PreparedInv
    <3>2. \A j \in prepared : InstructionSound(j)'
      BY <3>1, InstructionStays DEF PreparedInv
    <3> QED BY <1>2, <3>1, <3>2 DEF PreparedInv
  <2> QED BY <2>1, <2>2
<1> QED BY <1>1, <1>2, ClientCases

(* A redeemed note stays redeemed. *)
LEMMA RedeemedStays ==
    ASSUME TypeOK, NEW proof, NEW i \in Indices, redeemed[i] # 0,
           redeemed' = [k \in Indices |->
                          redeemed[k] + (IF Redeems(proof.witness, 1, k) THEN 1 ELSE 0)
                                      + (IF Redeems(proof.witness, 2, k) THEN 1 ELSE 0)]
    PROVE  redeemed'[i] # 0
BY DEF TypeOK

(* Submitting records the nullifiers of padding and of the notes it redeems. *)
LEMMA RecordedSubmit ==
    ASSUME TypeOK, SafetyInv, RecordedInv, NEW i, InstructionSound(i), Submit(i)
    PROVE  RecordedInv'
<1>1. /\ i.proof \in proofs
      /\ Transact(i.proof, i.amount, i.recipient, i.notes, i.account)
      /\ KnownRoot(i.proof) /\ FreshNullifiers(i.proof)
  BY SubmitIsTransact DEF Transact, Accepts
<1> DEFINE wit == i.proof.witness
<1>2. /\ nullifiers' = nullifiers \cup {i.proof.public.nullifiers[s] : s \in Slots}
      /\ redeemed' = [k \in Indices |->
                        redeemed[k] + (IF Redeems(wit, 1, k) THEN 1 ELSE 0)
                                    + (IF Redeems(wit, 2, k) THEN 1 ELSE 0)]
  BY <1>1 DEF Transact
<1>3. \A s \in Slots : i.proof.public.nullifiers[s] = Nullifier(wit.inputs[s].view, wit.inputs[s].index)
  BY <1>1 DEF SafetyInv, ProofsSound, Circuit, InputHolds
<1>4. ASSUME NEW n \in nullifiers, n.view \notin DummyViews
      PROVE  n.index \in Indices /\ redeemed'[n.index] # 0
  BY <1>2, <1>4, RedeemedStays DEF RecordedInv
<1>5. ASSUME NEW s \in Slots, wit.inputs[s].view \notin DummyViews
      PROVE  wit.inputs[s].index \in Indices /\ redeemed'[wit.inputs[s].index] # 0
  <2>1. wit.inputs[s].value # 0
    BY <1>5 DEF InstructionSound
  <2>2. wit.inputs[s].index \in Indices
    BY <1>1, <2>1, RealInputIsLeaf
  <2>3. Redeems(wit, s, wit.inputs[s].index)
    BY <2>1 DEF Redeems
  <2>4. redeemed[wit.inputs[s].index] \in Nat
    BY <2>2 DEF TypeOK
  <2> QED BY <1>2, <2>2, <2>3, <2>4 DEF Slots
<1>6. ASSUME NEW s \in Slots
      PROVE  LET n == i.proof.public.nullifiers[s] IN
             \/ n.view \in DummyViews
             \/ n.index \in Indices /\ redeemed'[n.index] # 0
  <2>1. PICK n : n = i.proof.public.nullifiers[s]
    OBVIOUS
  <2>2. n = Nullifier(wit.inputs[s].view, wit.inputs[s].index)
    BY <1>3, <2>1
  <2>3. n.view = wit.inputs[s].view /\ n.index = wit.inputs[s].index
    BY <2>2 DEF Nullifier
  <2> QED BY <1>5, <2>1, <2>3
<1> QED BY <1>2, <1>4, <1>6 DEF RecordedInv

(* Only submitting records nullifiers. *)
LEMMA RecordedNext ==
    ASSUME TypeOK, SafetyInv, PreparedInv, RecordedInv, [ClientNext]_clientVars
    PROVE  RecordedInv'
<1>1. CASE OnlyPrepares
  BY <1>1 DEF OnlyPrepares, RecordedInv
<1>2. CASE DoInitPool
  BY <1>2 DEF DoInitPool, InitPool, RecordedInv
<1>3. CASE DoShield
  BY <1>3 DEF DoShield, Shield, RecordedInv
<1>4. CASE UNCHANGED vars
  BY <1>4 DEF vars, RecordedInv
<1>5. ASSUME NEW i \in prepared, Submit(i)
      PROVE  RecordedInv'
  BY <1>5, RecordedSubmit DEF PreparedInv
<1> QED BY <1>1, <1>2, <1>3, <1>4, <1>5, ClientCases

(* Nothing is prepared and nothing recorded at first. *)
LEMMA ClientInvInit == ClientInit => ClientInv
<1> SUFFICES ASSUME ClientInit PROVE ClientInv
  OBVIOUS
<1>1. TypeOK /\ SafetyInv /\ TreeFits /\ Solvent
  BY TypeInit, SafetyInit, FitsInit, SolventInit DEF ClientInit
<1>2. PreparedInv /\ RecordedInv
  BY DEF ClientInit, Init, PreparedInv, RecordedInv
<1> QED BY <1>1, <1>2 DEF ClientInv

(* Every step of wallets and pool keeps the invariant. *)
LEMMA ClientInvNext == ClientInv /\ [ClientNext]_clientVars => ClientInv'
<1> SUFFICES ASSUME ClientInv, [ClientNext]_clientVars PROVE ClientInv'
  OBVIOUS
<1>1. TypeOK' /\ SafetyInv' /\ TreeFits' /\ Solvent'
  BY PoolInvNext DEF ClientInv
<1>2. PreparedInv' /\ RecordedInv'
  BY PreparedNext, RecordedNext DEF ClientInv
<1> QED BY <1>1, <1>2 DEF ClientInv

(* The inductive invariant of wallets and pool holds in every behaviour. *)
THEOREM ClientCorrect == ClientSpec => []ClientInv
<1>1. ClientInit => ClientInv
  BY ClientInvInit
<1>2. ClientInv /\ [ClientNext]_clientVars => ClientInv'
  BY ClientInvNext
<1> QED BY <1>1, <1>2, PTL DEF ClientSpec

-----------------------------------------------------------------------------
(* What follows for wallets. *)

(* Padding takes no nullifier of a leaf: its owner has no note. *)
LEMMA BurnsNothing == ClientInv => NothingBurned
<1> SUFFICES ASSUME ClientInv, NEW k \in DOMAIN tree.leaves, NoteSpent(k)
             PROVE  redeemed[k - 1] = 1
  BY DEF NothingBurned
<1>1. PICK n \in nullifiers, spend \in SpendKeys, random \in Blindings :
         /\ n.index + 1 = k
         /\ tree.leaves[k].key = NoteKey(Owner(spend, n.view), random)
  BY DEF NoteSpent
<1>2. tree.leaves[k].key \in Keys
  <2>1. tree.leaves \in Seq(Commitments)
    BY DEF ClientInv, TypeOK
  <2>2. tree.leaves[k] \in Commitments
    BY <2>1
  <2> QED BY <2>2 DEF Commitments
<1>3. n.view \notin DummyViews
  BY <1>1, <1>2, ClientAssumption
<1>4. n.index \in Indices /\ redeemed[n.index] # 0
  BY <1>3 DEF ClientInv, RecordedInv
<1>5. redeemed[n.index] = 1
  BY <1>4 DEF ClientInv, SafetyInv, RedeemedIsRecorded
<1>6. k - 1 = n.index
  BY <1>1, <1>4, FieldAssumption DEF Indices
<1> QED BY <1>5, <1>6

(* note.rs, transaction.rs: padding is drawn fresh, so among SDK users a note is
   marked spent only by being spent. *)
THEOREM PaddingBurnsNothing == ClientSpec => []NothingBurned
<1>1. ClientInv => NothingBurned
  BY BurnsNothing
<1> QED BY <1>1, ClientCorrect, PTL

(* PayloadsFollowNotes, of one event. *)
EventFollows(e) ==
    e.event = "NewCommitment" =>
        \/ e.commitment.value = 0
        \/ e.note \in DepositPayloads
        \/ \E i \in prepared : \E send \in i.sends :
              e.commitment = OutputCommitment(AssetId(pool.mint), send) /\ e.note = send.encrypted

(* Every event of a log with another appended is one of theirs. *)
LEMMA AppendedEvents ==
    ASSUME NEW log \in Seq(Event), NEW more \in Seq(Event), NEW k \in DOMAIN (log \o more)
    PROVE  \/ \E j \in DOMAIN log : (log \o more)[k] = log[j]
           \/ \E j \in DOMAIN more : (log \o more)[k] = more[j]
OBVIOUS

(* The events of an instruction carry its notes with their payloads. *)
LEMMA SubmittedEventsFollow ==
    ASSUME TypeOK, NEW i \in prepared, InstructionSound(i),
           NEW j \in DOMAIN TransactEvents(i.proof, i.notes)
    PROVE  EventFollows(TransactEvents(i.proof, i.notes)[j])
<1>1. SUFFICES ASSUME NEW e, e = TransactEvents(i.proof, i.notes)[j]
              PROVE  EventFollows(e)
  OBVIOUS
<1>2. \/ e.event # "NewCommitment"
      \/ \E s \in Slots : e.commitment = i.proof.public.commitments[s] /\ e.note = i.notes[s]
  <2>1. PICK first, second, third, fourth :
           /\ TransactEvents(i.proof, i.notes) = <<first, second, third, fourth>>
           /\ first.commitment = i.proof.public.commitments[1] /\ first.note = i.notes[1]
           /\ second.commitment = i.proof.public.commitments[2] /\ second.note = i.notes[2]
           /\ third.event = "NewNullifier" /\ fourth.event = "NewNullifier"
    <3>1. PICK first, second, third, fourth :
             /\ first = TransactEvents(i.proof, i.notes)[1]
             /\ second = TransactEvents(i.proof, i.notes)[2]
             /\ third = TransactEvents(i.proof, i.notes)[3]
             /\ fourth = TransactEvents(i.proof, i.notes)[4]
      OBVIOUS
    <3>2. TransactEvents(i.proof, i.notes) = <<first, second, third, fourth>>
      BY <3>1 DEF TransactEvents
    <3>3. /\ first.commitment = i.proof.public.commitments[1] /\ first.note = i.notes[1]
          /\ second.commitment = i.proof.public.commitments[2] /\ second.note = i.notes[2]
          /\ third.event = "NewNullifier" /\ fourth.event = "NewNullifier"
      BY <3>1 DEF TransactEvents, NewCommitment, NewNullifier
    <3> QED BY <3>2, <3>3
  <2>2. e \in {first, second, third, fourth}
    BY <1>1, <2>1
  <2> QED BY <2>1, <2>2 DEF Slots
<1>3. ASSUME NEW s \in Slots, e.commitment = i.proof.public.commitments[s], e.note = i.notes[s]
      PROVE  EventFollows(e)
  <2>1. SlotFollows(i, s)
    BY DEF InstructionSound
  <2> QED BY <1>3, <2>1 DEF SlotFollows, EventFollows
<1>4. CASE e.event # "NewCommitment"
  BY <1>4 DEF EventFollows
<1> QED BY <1>2, <1>3, <1>4

(* An event that follows its note does so for good. *)
LEMMA EventStays ==
    ASSUME TypeOK, PreparedInv, [ClientNext]_clientVars, NEW e, EventFollows(e)
    PROVE  EventFollows(e)'
<1>1. prepared \subseteq prepared'
  BY ClientCases DEF OnlyPrepares, AddsInstruction
<1>2. prepared = {} \/ pool' = pool
  <2>1. CASE OnlyPrepares
    BY <2>1 DEF OnlyPrepares
  <2>2. CASE [Next]_vars
    BY <2>2, PoolStays DEF PreparedInv
  <2> QED BY <2>1, <2>2, ClientCases
<1> QED BY <1>1, <1>2 DEF EventFollows

(* Every step keeps payloads with their notes. *)
LEMMA PayloadsNext ==
    ASSUME ClientInv, PayloadsFollowNotes, [ClientNext]_clientVars
    PROVE  PayloadsFollowNotes'
<1>0. TypeOK /\ PreparedInv
  BY DEF ClientInv
<1>1. ASSUME NEW e, EventFollows(e)
      PROVE  EventFollows(e)'
  BY <1>0, <1>1, EventStays
<1>2. \A k \in DOMAIN events : EventFollows(events[k])
  BY DEF PayloadsFollowNotes, EventFollows
<1> SUFFICES ASSUME NEW k \in DOMAIN events', NEW e, e = events'[k]
             PROVE  EventFollows(e)'
  BY DEF PayloadsFollowNotes, EventFollows
<1>3. CASE events' = events
  BY <1>1, <1>2, <1>3
<1>4. CASE DoShield
  <2>1. PICK new : new.note \in DepositPayloads /\ events' = Append(events, new)
    BY <1>4 DEF DoShield, Shield, NewCommitment
  <2>2. e = new \/ \E j \in DOMAIN events : e = events[j]
    BY <1>0, <2>1 DEF TypeOK
  <2>3. CASE e = new
    BY <2>1, <2>3 DEF EventFollows
  <2> QED BY <1>1, <1>2, <2>2, <2>3
<1>5. ASSUME NEW i \in prepared, Submit(i)
      PROVE  EventFollows(e)'
  <2>1. InstructionSound(i)
    BY <1>0 DEF PreparedInv
  <2>2. /\ i.proof \in Proof /\ i.notes \in [Slots -> Payloads] /\ tree \in TreeType
        /\ Transact(i.proof, i.amount, i.recipient, i.notes, i.account)
    BY <1>0, <1>5, <2>1, SubmitIsTransact DEF TypeOK, TreeType
  <2>3. PICK more : more = TransactEvents(i.proof, i.notes)
    OBVIOUS
  <2>4. events \in Seq(Event) /\ more \in Seq(Event) /\ events' = events \o more
    BY <1>0, <2>2, <2>3, TransactEventsType DEF TypeOK, Transact
  <2>5. \/ \E j \in DOMAIN events : e = events[j]
        \/ \E j \in DOMAIN more : e = more[j]
    BY <2>4, AppendedEvents
  <2>6. ASSUME NEW j \in DOMAIN more
        PROVE  EventFollows(more[j])
    BY <1>0, <2>1, <2>3, SubmittedEventsFollow
  <2> QED BY <1>1, <1>2, <2>5, <2>6
<1>6. CASE OnlyPrepares \/ DoInitPool \/ UNCHANGED vars
  BY <1>3, <1>6 DEF OnlyPrepares, DoInitPool, InitPool, vars
<1> QED BY <1>0, <1>4, <1>5, <1>6, ClientCases

(* note.rs keeps a Send's note opening and its payload together: in the log,
   every note of value goes with the payload that was made for it. *)
THEOREM PayloadsStayWithNotes == ClientSpec => []PayloadsFollowNotes
<1>1. ClientInit => PayloadsFollowNotes
  BY DEF ClientInit, Init, PayloadsFollowNotes
<1>2. ClientInv /\ PayloadsFollowNotes /\ [ClientNext]_clientVars => PayloadsFollowNotes'
  BY PayloadsNext
<1> QED BY <1>1, <1>2, ClientCorrect, PTL DEF ClientSpec

-----------------------------------------------------------------------------
(* Why the vault covers every prepared withdrawal. *)

(* Two leaves that can still be spent, or one, are owed. *)
LEMMA TwoDebtsOwed ==
    ASSUME TypeOK, NEW j \in 1 .. Len(tree.leaves), NEW k \in 1 .. Len(tree.leaves),
           ~NoteSpent(j), ~NoteSpent(k)
    PROVE  (IF j = k THEN tree.leaves[j].value ELSE tree.leaves[j].value + tree.leaves[k].value) <= Owed
<1> DEFINE S == 1 .. Len(tree.leaves)
           none == [x \in S |-> 0]
<1>1. /\ Owed = SumOver(Debts, S) /\ Len(tree.leaves) \in Nat
      /\ \A x \in S : Debts[x] \in Nat
      /\ Debts[j] = tree.leaves[j].value /\ Debts[k] = tree.leaves[k].value
  BY OwedIsSum DEF OwedIsSumOfDebts
<1>2. IsFiniteSet(S)
  <2>1. \A n \in Nat : IsFiniteSet(1 .. n)
    BY PlacesFinite
  <2> QED BY <1>1, <2>1
<1>3. \A x \in S : none[x] \in Nat /\ none[x] = 0
  OBVIOUS
<1> HIDE DEF S, none
<1>4. SumOver(none, S) \in Nat
  BY <1>2, <1>3, SumType
<1>5. j \in S /\ k \in S
  BY DEF S
<1>6. \A x \in S : Debts[x] \in Nat /\ none[x] \in Nat /\ none[x] <= Debts[x]
  BY <1>1, <1>3
<1>7. SumOver(none, S) + (IF j = k THEN Debts[j] ELSE Debts[j] + Debts[k]) <= SumOver(Debts, S)
  BY <1>2, <1>3, <1>5, <1>6, SumConsumes
<1>8. SumOver(Debts, S) \in Nat
  BY <1>1, <1>2, SumType
<1> QED BY <1>1, <1>4, <1>5, <1>7, <1>8

(* A real input of a usable proof is a leaf that can still be spent. *)
LEMMA UsableInput ==
    ASSUME TypeOK, SafetyInv, NEW proof \in proofs, KnownRoot(proof), FreshNullifiers(proof),
           NEW s \in Slots, proof.witness.inputs[s].value # 0
    PROVE  LET in == proof.witness.inputs[s] IN
           /\ in.index + 1 \in 1 .. Len(tree.leaves) /\ in.index \in Nat
           /\ tree.leaves[in.index + 1].value = in.value
           /\ ~NoteSpent(in.index + 1)
           /\ \A t \in Slots : Redeems(proof.witness, t, in.index) => t = s
<1> DEFINE in == proof.witness.inputs[s]
<1>1. /\ in.index \in Nat /\ in.index < Len(tree.leaves) /\ in.index \in Indices
      /\ tree.leaves[in.index + 1] = InputCommitment(proof.witness.asset, in)
  BY RealInputIsLeaf
<1>2. Len(tree.leaves) \in Nat
  BY DEF TypeOK
<1>3. tree.leaves[in.index + 1].value = in.value
  BY <1>1 DEF InputCommitment, Commitment
<1>4. Redeems(proof.witness, s, in.index)
  BY DEF Redeems
<1>5. \A t \in Slots : Redeems(proof.witness, t, in.index) => t = s
  BY <1>1, <1>4, RedeemedOnce
<1> QED BY <1>1, <1>2, <1>3, <1>5, FreshIsUnspent

(* What a usable proof consumes is still owed. *)
LEMMA InputsOwed ==
    ASSUME TypeOK, SafetyInv, NEW proof \in proofs, KnownRoot(proof), FreshNullifiers(proof)
    PROVE  InputTotal(proof.witness) \in Nat /\ InputTotal(proof.witness) <= Owed
<1> DEFINE In(s) == proof.witness.inputs[s]
           At(s) == In(s).index + 1
<1>1. \A s \in Slots : In(s).value \in Nat /\ In(s).index \in Nat
  BY FieldAssumption DEF TypeOK, Proof, Witness, Input, Field
<1>2. \A s \in Slots : In(s).value # 0 =>
        /\ At(s) \in 1 .. Len(tree.leaves)
        /\ tree.leaves[At(s)].value = In(s).value
        /\ ~NoteSpent(At(s))
        /\ \A t \in Slots : Redeems(proof.witness, t, In(s).index) => t = s
  BY UsableInput
<1>3. InputTotal(proof.witness) = In(1).value + In(2).value
  BY DEF InputTotal
<1>4. \A s, t \in Slots : In(s).value # 0 /\ In(t).value # 0 /\ s # t => At(s) # At(t)
  <2> SUFFICES ASSUME NEW s \in Slots, NEW t \in Slots, In(s).value # 0, In(t).value # 0, At(s) = At(t)
               PROVE  s = t
    OBVIOUS
  <2>1. In(t).index = In(s).index
    BY <1>1
  <2>2. Redeems(proof.witness, t, In(s).index)
    BY <2>1 DEF Redeems
  <2> QED BY <1>2, <2>2
<1> HIDE DEF In, At
<1>5. ASSUME NEW s \in Slots, In(s).value # 0
      PROVE  In(s).value <= Owed
  BY <1>2, <1>5, TwoDebtsOwed
<1>6. CASE In(1).value # 0 /\ In(2).value # 0
  <2>1. At(1) # At(2)
    BY <1>4, <1>6 DEF Slots
  <2> QED BY <1>1, <1>2, <1>3, <1>6, <2>1, TwoDebtsOwed DEF Slots
<1>7. Owed \in Nat
  BY OwedIsSum DEF OwedIsSumOfDebts
<1> QED BY <1>1, <1>3, <1>5, <1>6, <1>7 DEF Slots

(* The account of a prepared withdrawal is the recipient's, never the vault. *)
LEMMA PreparedAccount ==
    ASSUME NEW i, InstructionSound(i), i.amount < 0
    PROVE  i.account # Vault /\ AccountOwner[i.account] = i.recipient
<1>1. i.recipient \in Users /\ i.account = Ata[i.recipient]
  BY DEF InstructionSound, RecipientAta
<1>2. AccountOwner[i.account] = i.recipient
  BY <1>1, ClientAssumption
<1> QED BY <1>1, <1>2, PoolAssumption

(* The vault covers it, whatever else happened since it was prepared. *)
LEMMA PreparedCovered ==
    ASSUME TypeOK, SafetyInv, Solvent, NEW i, InstructionSound(i),
           KnownRoot(i.proof), FreshNullifiers(i.proof)
    PROVE  VaultCovers(i.amount)
<1> DEFINE wit == i.proof.witness
<1>1. i.proof \in proofs /\ wit \in Witness
  BY DEF InstructionSound, TypeOK, Proof
<1>2. InputTotal(wit) \in Nat /\ InputTotal(wit) <= Owed
  BY <1>1, InputsOwed
<1>3. OutputTotal(wit) \in Nat
  BY <1>1, FieldAssumption DEF Witness, Output, Field, OutputTotal, Slots
<1>4. InputTotal(wit) + i.amount = OutputTotal(wit)
  BY DEF InstructionSound, SdkAccepts
<1>5. i.amount \in Int
  BY FieldAssumption DEF InstructionSound, Amounts
<1>6. balances[Vault] \in Nat /\ Owed \in Nat /\ balances[Vault] >= Owed
  BY PoolAssumption, OwedIsSum DEF TypeOK, OwedIsSumOfDebts, Solvent
<1> HIDE DEF wit
<1> QED BY <1>2, <1>3, <1>4, <1>5, <1>6 DEF VaultCovers

(* A sound instruction with a usable proof passes every check of transact. *)
LEMMA SucceedsWhenUsable == ClientInv => PreparedSucceeds
<1> SUFFICES ASSUME ClientInv, NEW i \in prepared, KnownRoot(i.proof),
                    FreshNullifiers(i.proof), RoomForOutputs(i.proof)
             PROVE  Accepts(i.proof, i.amount, i.recipient, i.notes, i.account)
  BY DEF PreparedSucceeds
<1>1. InstructionSound(i) /\ pool # NoPool
  BY DEF ClientInv, PreparedInv
<1>2. ValidArguments(i.proof, i.amount, i.notes, i.account)
  <2>1. i.amount <= 0 /\ \A s \in Slots : i.notes[s] \notin OversizedPayloads
    BY <1>1 DEF InstructionSound
  <2>2. i.proof.public.nullifiers[1] # i.proof.public.nullifiers[2]
    BY <1>1 DEF InstructionSound, ClientInv, SafetyInv, ProofsSound, Circuit
  <2> QED BY <1>1, <2>1, <2>2, PreparedAccount DEF ValidArguments
<1>3. Payable(i.amount, i.recipient, i.account)
  BY <1>1, PreparedAccount, PreparedCovered DEF Payable, ClientInv
<1>4. Verified(i.proof, i.amount, i.recipient, i.notes)
  BY <1>1 DEF InstructionSound
<1> QED BY <1>1, <1>2, <1>3, <1>4 DEF Accepts

(* client/mod.rs and transact.rs: what the SDK bound is what the program
   recomputes, and the vault covers it, so an instruction the SDK prepared is
   refused only because its root left the window, a nullifier of it is recorded
   or the tree is full. *)
THEOREM PreparedAlwaysSucceeds == ClientSpec => []PreparedSucceeds
<1>1. ClientInv => PreparedSucceeds
  BY SucceedsWhenUsable
<1> QED BY <1>1, ClientCorrect, PTL

(* Wallets and pool together still implement the ledger of deposits and spends. *)
THEOREM ClientsImplementLedger == ClientSpec => ImplementsLedger
<1>1. ClientInit => PoolLedger!Init
  BY LedgerInit DEF ClientInit
<1>2. ClientInv /\ ClientInv' /\ [ClientNext]_clientVars
        => [PoolLedger!Next]_<<LedgerNotes, balances[Vault]>>
  <2> SUFFICES ASSUME ClientInv, ClientInv', [ClientNext]_clientVars
               PROVE  [PoolLedger!Next]_<<LedgerNotes, balances[Vault]>>
    OBVIOUS
  <2>1. CASE OnlyPrepares
    BY <2>1 DEF OnlyPrepares, LedgerNotes
  <2>2. CASE [Next]_vars
    BY <2>2, LedgerNext DEF ClientInv
  <2> QED BY <2>1, <2>2, ClientCases DEF ClientInv
<1> QED BY <1>1, <1>2, ClientCorrect, PTL
        DEF ClientSpec, ImplementsLedger, PoolLedger!Spec

=============================================================================
