----------------------------- MODULE PoolProofs -----------------------------
(***************************************************************************)
(* The JoinSplit statement, the safety of the pool program and the window  *)
(* of its roots, for every value of the constants.                         *)
(***************************************************************************)
EXTENDS Pool, Statements, SequenceTheorems, TLAPS

-----------------------------------------------------------------------------
(* The statement, for every field and every width. *)

(* A field sum of two note values is their integer sum: u64 values are far
   below the modulus. *)
LEMMA FieldAddValues ==
    ASSUME NEW a \in Values, NEW b \in Values
    PROVE  FieldAdd(a, b) = a + b
BY FieldAssumption DEF FieldAdd, Values

(* main.nr adds the field image of a signed amount to the inputs and compares
   with the outputs: for in-range values that equation holds in the field
   exactly when it holds in the integers. *)
LEMMA FieldEquationExact ==
    ASSUME NEW a \in Values, NEW b \in Values, NEW c \in Values, NEW d \in Values,
           NEW amount \in Amounts
    PROVE  FieldAdd(FieldAdd(a, b), PublicAmountField(amount)) = FieldAdd(c, d)
             <=> a + b + amount = c + d
<1>1. FieldAdd(a, b) = a + b /\ FieldAdd(c, d) = c + d
  BY FieldAddValues
<1>2. /\ a \in Int /\ b \in Int /\ c \in Int /\ d \in Int /\ amount \in Int
      /\ 0 <= a /\ a <= MaxValue /\ 0 <= b /\ b <= MaxValue
      /\ 0 <= c /\ c <= MaxValue /\ 0 <= d /\ d <= MaxValue
      /\ -MaxAmount <= amount /\ amount < MaxAmount
  BY FieldAssumption DEF Values, Amounts
<1>3. /\ MaxValue \in Nat /\ MaxAmount \in Nat /\ Modulus \in Nat
      /\ MaxAmount <= MaxValue /\ 3 * MaxValue < Modulus
  BY FieldAssumption
<1>4. CASE amount >= 0
  <2>1. PublicAmountField(amount) = amount
    BY <1>4 DEF PublicAmountField
  <2>2. a + b + amount < Modulus
    BY <1>2, <1>3
  <2>3. FieldAdd(a + b, amount) = a + b + amount
    BY <2>2 DEF FieldAdd
  <2> QED BY <1>1, <2>1, <2>3
<1>5. CASE amount < 0
  <2>1. PublicAmountField(amount) = Modulus + amount
    BY <1>2, <1>5 DEF PublicAmountField
  <2>2. CASE a + b + amount < 0
    <3>1. FieldAdd(a + b, Modulus + amount) = a + b + Modulus + amount
      BY <2>2, <1>2, <1>3 DEF FieldAdd
    <3>2. c + d < a + b + Modulus + amount
      BY <1>2, <1>3
    <3>3. a + b + amount # c + d
      BY <2>2, <1>2
    <3> QED BY <1>1, <1>2, <1>3, <2>1, <3>1, <3>2, <3>3
  <2>3. CASE a + b + amount >= 0
    <3>1. FieldAdd(a + b, Modulus + amount) = a + b + amount
      BY <2>3, <1>2, <1>3 DEF FieldAdd
    <3> QED BY <1>1, <2>1, <3>1
  <2> QED BY <1>2, <2>2, <2>3
<1> QED BY <1>2, <1>4, <1>5

(* Whatever satisfies the circuit conserves value in the integers, for every
   signed amount the pool can ask about: no private values make the field
   equation wrap (main.nr with its range checks, utils.rs). *)
THEOREM CircuitConservesValue ==
    ASSUME NEW pub, NEW wit \in Witness, NEW amount \in Amounts,
           Circuit(pub, wit), pub.amount = PublicAmountField(amount)
    PROVE  /\ \A s \in Slots : wit.inputs[s].value \in Values /\ wit.outputs[s].value \in Values
           /\ InputTotal(wit) + amount = OutputTotal(wit)
<1>1. \A s \in Slots : wit.inputs[s].value \in Field /\ wit.outputs[s].value \in Field
  BY DEF Witness, Input, Output
<1>2. \A s \in Slots : wit.inputs[s].value <= MaxValue /\ wit.outputs[s].value <= MaxValue
  BY DEF Circuit, InputHolds, OutputHolds
<1>3. \A s \in Slots : wit.inputs[s].value \in Values /\ wit.outputs[s].value \in Values
  BY <1>1, <1>2, FieldAssumption DEF Field, Values
<1>4. FieldAdd(FieldAdd(wit.inputs[1].value, wit.inputs[2].value), PublicAmountField(amount))
        = FieldAdd(wit.outputs[1].value, wit.outputs[2].value)
  BY DEF Circuit, SumIn, SumOut
<1>5. wit.inputs[1].value + wit.inputs[2].value + amount
        = wit.outputs[1].value + wit.outputs[2].value
  BY <1>3, <1>4, FieldEquationExact DEF Slots
<1> QED BY <1>3, <1>5 DEF InputTotal, OutputTotal

(* The sum of the inputs is zero in the field only when both are padding. *)
LEMMA SumInZero ==
    ASSUME NEW wit \in Witness, \A s \in Slots : wit.inputs[s].value \in Values
    PROVE  SumIn(wit) # 0 <=> \E s \in Slots : wit.inputs[s].value # 0
<1>1. SumIn(wit) = wit.inputs[1].value + wit.inputs[2].value
  BY FieldAddValues DEF SumIn, Slots
<1>2. wit.inputs[1].value \in Nat /\ wit.inputs[2].value \in Nat
  BY FieldAssumption DEF Slots, Values
<1> QED BY <1>1, <1>2 DEF Slots

(* What a satisfied statement takes in is the value of the leaves it names, each
   counted once: were both inputs one leaf, they would show one nullifier, which
   main.nr refuses.  The keys alone do not prevent it, since the nullifier is
   made of the viewing key and the index only. *)
THEOREM CircuitTakesDistinctLeaves ==
    ASSUME NEW pub, NEW wit \in Witness, Circuit(pub, wit)
    PROVE  LET Real(s) == wit.inputs[s].value # 0
               leaf(s) == pub.root[wit.inputs[s].index + 1]
           IN /\ \E s \in Slots : Real(s)
              /\ \A s \in Slots : Real(s) => /\ wit.inputs[s].index < Len(pub.root)
                                             /\ leaf(s).value = wit.inputs[s].value
              /\ \A s, t \in Slots :
                    Real(s) /\ Real(t) /\ s # t => wit.inputs[s].index # wit.inputs[t].index
              /\ InputTotal(wit) = (IF Real(1) THEN leaf(1).value ELSE 0)
                                     + (IF Real(2) THEN leaf(2).value ELSE 0)
<1> DEFINE Real(s) == wit.inputs[s].value # 0
           leaf(s) == pub.root[wit.inputs[s].index + 1]
<1>1. \A s \in Slots : Real(s) =>
         /\ wit.inputs[s].index < Len(pub.root)
         /\ leaf(s) = InputCommitment(wit.asset, wit.inputs[s])
  BY DEF Circuit, InputHolds, IsMember
<1>2. \A s \in Slots : Real(s) =>
         /\ leaf(s).value = wit.inputs[s].value
         /\ leaf(s).key.owner.view = wit.inputs[s].view
  <2>1. ASSUME NEW asset, NEW in, NEW note, note = InputCommitment(asset, in)
        PROVE  note.value = in.value /\ note.key.owner.view = in.view
    BY <2>1 DEF InputCommitment, Commitment, NoteKey, Owner
  <2> HIDE DEF leaf, Real
  <2> QED BY <1>1, <2>1
<1>3. \E s \in Slots : Real(s)
  <2>1. \A s \in Slots : wit.inputs[s].value \in Values
    <3>1. \A s \in Slots : wit.inputs[s].value \in Field /\ wit.inputs[s].value <= MaxValue
      BY DEF Witness, Input, Circuit, InputHolds
    <3> QED BY <3>1, FieldAssumption DEF Field, Values
  <2> QED BY <2>1, SumInZero DEF Circuit
<1>4. ASSUME NEW s \in Slots, NEW t \in Slots, Real(s), Real(t), s # t,
             wit.inputs[s].index = wit.inputs[t].index
      PROVE  FALSE
  <2>1. wit.inputs[s].view = wit.inputs[t].view
    BY <1>2, <1>4
  <2>2. /\ pub.nullifiers[s] = Nullifier(wit.inputs[s].view, wit.inputs[s].index)
        /\ pub.nullifiers[t] = Nullifier(wit.inputs[t].view, wit.inputs[t].index)
        /\ pub.nullifiers[1] # pub.nullifiers[2]
    BY DEF Circuit, InputHolds
  <2> QED BY <1>4, <2>1, <2>2 DEF Slots
<1>5. InputTotal(wit) = (IF Real(1) THEN leaf(1).value ELSE 0)
                          + (IF Real(2) THEN leaf(2).value ELSE 0)
  BY <1>2 DEF InputTotal, Slots
<1> QED BY <1>1, <1>2, <1>3, <1>4, <1>5

(* transaction.rs and main.nr agree: a plan of u64 values passes the SDK's
   checks exactly when the statement the SDK derives from it is provable, so
   the SDK neither refuses what could be proved nor proves in vain. *)
THEOREM SdkMatchesCircuit ==
    ASSUME NEW root, NEW wit \in Witness, NEW amount \in Amounts, NEW hash,
           \A s \in Slots : wit.inputs[s].value \in Values /\ wit.outputs[s].value \in Values
    PROVE  SdkAccepts(root, wit, amount)
             <=> Circuit(PublicInputs(root, wit, PublicAmountField(amount), hash), wit)
<1> DEFINE pub == PublicInputs(root, wit, PublicAmountField(amount), hash)
<1>1. /\ pub.root = root
      /\ pub.amount = PublicAmountField(amount)
      /\ \A s \in Slots :
            /\ pub.nullifiers[s] = Nullifier(wit.inputs[s].view, wit.inputs[s].index)
            /\ pub.commitments[s] = OutputCommitment(wit.asset, wit.outputs[s])
  BY DEF PublicInputs
<1>2. \A s \in Slots : wit.inputs[s].value <= MaxValue /\ wit.outputs[s].value <= MaxValue
  BY FieldAssumption DEF Values
<1>3. \A s \in Slots :
        InputHolds(pub, wit, s)
          <=> /\ wit.inputs[s].index < Capacity
              /\ wit.inputs[s].value # 0 =>
                    IsMember(root, wit.inputs[s].index, InputCommitment(wit.asset, wit.inputs[s]))
  BY <1>1, <1>2 DEF InputHolds
<1>4. \A s \in Slots : OutputHolds(pub, wit, s)
  BY <1>1, <1>2 DEF OutputHolds
<1>5. pub.nullifiers[1] # pub.nullifiers[2]
        <=> Nullifier(wit.inputs[1].view, wit.inputs[1].index)
              # Nullifier(wit.inputs[2].view, wit.inputs[2].index)
  BY <1>1 DEF Slots
<1>6. FieldAdd(SumIn(wit), pub.amount) = SumOut(wit)
        <=> InputTotal(wit) + amount = OutputTotal(wit)
  BY <1>1, FieldEquationExact DEF SumIn, SumOut, InputTotal, OutputTotal, Slots
<1>7. SumIn(wit) # 0 <=> \E s \in Slots : wit.inputs[s].value # 0
  BY SumInZero
<1> HIDE DEF pub
<1> QED BY <1>3, <1>4, <1>5, <1>6, <1>7 DEF Circuit, SdkAccepts, pub

-----------------------------------------------------------------------------
(* What Statements says of one statement holds of every one: of any root, any
   private inputs the types allow, honest or not, and any i64. *)

(* Transaction::new and Plan::values refuse exactly the plans of u64 values that
   main.nr cannot prove. *)
THEOREM SdkAlwaysAgrees == AnyStatement => SdkAgreesWithCircuit
BY SdkMatchesCircuit DEF AnyStatement, SdkAgreesWithCircuit, TypedAsU64, Statement

(* main.nr, with its range checks, creates no value: not in the field, and so
   not in the integers. *)
THEOREM CircuitAlwaysConserves == AnyStatement => CircuitConserves
<1>1. Statement.amount = PublicAmountField(plannedAmount)
  BY DEF Statement, PublicInputs
<1> QED BY <1>1, CircuitConservesValue DEF AnyStatement, CircuitConserves

(* main.nr takes in leaves of the root, at their value, and no leaf twice. *)
THEOREM CircuitAlwaysConsumesLeaves == AnyStatement => CircuitConsumesLeaves
<1>1. Statement.root = plannedRoot
  BY DEF Statement, PublicInputs
<1> QED
  BY <1>1, CircuitTakesDistinctLeaves DEF AnyStatement, CircuitConsumesLeaves, Slots

-----------------------------------------------------------------------------
(* Steps. *)

(* Every step is one instruction, one transfer to the vault or one proof, with
   arguments from the sets the program and the clients draw them from. *)
LEMMA NextCases ==
    ASSUME Next,
           NEW G,
           \A signer \in Users, config \in Deployments : InitPool(signer, config) => G,
           \A depositor \in Users, account \in TokenAccounts, key \in Keys,
              amount \in DepositAmounts, note \in DepositPayloads :
                 Shield(depositor, account, key, amount, note) => G,
           \A donor \in Users, account \in TokenAccounts, amount \in Donations :
                 Donate(donor, account, amount) => G,
           \A root \in ProvableRoots, wit \in Witnesses, binding \in Bindings :
              \A amount \in {PublicAmountField(binding.amount)} \cup LooseAmounts :
                 Prove(root, wit, amount, binding) => G,
           \A proof \in proofs, amount \in Amounts, recipient \in Users \cup {PoolAddress},
              notes \in [Slots -> Payloads], account \in TokenAccounts :
                 Transact(proof, amount, recipient, notes, account) => G
    PROVE  G
BY DEF Next, DoInitPool, DoShield, DoDonate, DoProve, DoTransact

-----------------------------------------------------------------------------
(* Types. *)

(* Transfers keep balances natural when the source holds the amount. *)
LEMMA TransferredType ==
    ASSUME balances \in [TokenAccounts -> Nat],
           NEW from \in TokenAccounts, NEW to \in TokenAccounts, NEW amount \in Nat,
           CanTransfer(from, amount)
    PROVE  Transferred(from, to, amount) \in [TokenAccounts -> Nat]
BY DEF Transferred, CanTransfer

TreeType == [leaves : Seq(Commitments), roots : Seq(Roots)]

(* Appending a leaf keeps the tree a sequence of leaves and a ring of roots. *)
LEMMA InsertType ==
    ASSUME NEW t \in TreeType, NEW leaf \in Commitments
    PROVE  /\ Insert(t, leaf) \in TreeType
           /\ Insert(t, leaf).leaves = Append(t.leaves, leaf)
           /\ Len(Insert(t, leaf).leaves) = Len(t.leaves) + 1
<1>1. /\ t.leaves \in Seq(Commitments) /\ t.roots \in Seq(Roots)
  BY DEF TreeType
<1>2. Append(t.leaves, leaf) \in Roots
  BY <1>1 DEF Roots
<1>3. (IF Len(t.roots) < RootWindow THEN t.roots ELSE Tail(t.roots)) \in Seq(Roots)
  <2>1. CASE Len(t.roots) < RootWindow
    BY <1>1, <2>1
  <2>2. CASE ~(Len(t.roots) < RootWindow)
    <3>1. t.roots # << >>
      BY <2>2, <1>1, TreeAssumption
    <3> QED BY <3>1, <2>2, <1>1
  <2> QED BY <2>1, <2>2
<1>4. PushRoot(t.roots, Append(t.leaves, leaf)) \in Seq(Roots)
  BY <1>2, <1>3 DEF PushRoot
<1> QED BY <1>1, <1>2, <1>4 DEF Insert, TreeType, Roots

(* A root of the tree's past is a sequence of commitments. *)
LEMMA RootAtType ==
    ASSUME NEW t \in TreeType, NEW n \in 0 .. Len(t.leaves)
    PROVE  /\ RootAt(t, n) \in Roots
           /\ Len(RootAt(t, n)) = n
           /\ \A i \in 1 .. n : RootAt(t, n)[i] = t.leaves[i]
<1>1. t.leaves \in Seq(Commitments) /\ Len(t.leaves) \in Nat
  BY DEF TreeType
<1> QED BY <1>1, SubSeqProperties DEF RootAt, Roots

(* The statement of a witness has the type of a statement. *)
LEMMA StatementType ==
    ASSUME NEW root \in Roots, NEW wit \in Witness, NEW amount \in Field, NEW binding \in Binding
    PROVE  [public |-> PublicInputs(root, wit, amount, binding), witness |-> wit] \in Proof
<1>1. \A s \in Slots : wit.inputs[s] \in Input /\ wit.outputs[s] \in Output /\ wit.asset \in Assets
  BY DEF Witness
<1>2. \A s \in Slots : Nullifier(wit.inputs[s].view, wit.inputs[s].index) \in Nullifiers
  BY <1>1 DEF Nullifier, Nullifiers, Input
<1>3. \A s \in Slots : OutputCommitment(wit.asset, wit.outputs[s]) \in Commitments
  BY <1>1 DEF OutputCommitment, Commitment, Commitments, Output
<1> QED BY <1>2, <1>3 DEF PublicInputs, Proof

(* The amount a proof is made for is a field element. *)
LEMMA ProvedAmountType ==
    ASSUME NEW binding \in Bindings,
           NEW amount \in {PublicAmountField(binding.amount)} \cup LooseAmounts
    PROVE  amount \in Field
<1>1. binding.amount \in Amounts
  BY PoolAssumption DEF Binding
<1>2. PublicAmountField(binding.amount) \in Field
  BY <1>1, FieldAssumption DEF PublicAmountField, Amounts, Field
<1> QED BY <1>2, PoolAssumption

(* The two inserts of a transaction, as one append of both outputs. *)
LEMMA OutputsInsertedType ==
    ASSUME tree \in TreeType, NEW proof \in Proof
    PROVE  /\ proof.public.commitments[1] \in Commitments
           /\ proof.public.commitments[2] \in Commitments
           /\ Insert(tree, proof.public.commitments[1]) \in TreeType
           /\ OutputsInserted(proof) \in TreeType
           /\ Len(OutputsInserted(proof).leaves) = Len(tree.leaves) + 2
           /\ OutputsInserted(proof).leaves
                = Append(Append(tree.leaves, proof.public.commitments[1]),
                         proof.public.commitments[2])
<1>1. /\ proof.public.commitments[1] \in Commitments
      /\ proof.public.commitments[2] \in Commitments
  BY DEF Proof, Slots
<1>2. tree.leaves \in Seq(Commitments) /\ Len(tree.leaves) \in Nat
  BY DEF TreeType
<1> DEFINE once == Insert(tree, proof.public.commitments[1])
<1>3. /\ once \in TreeType
      /\ once.leaves = Append(tree.leaves, proof.public.commitments[1])
      /\ Len(once.leaves) = Len(tree.leaves) + 1
  BY <1>1, InsertType
<1>4. OutputsInserted(proof) = Insert(once, proof.public.commitments[2])
  BY DEF OutputsInserted
<1> HIDE DEF once
<1>5. /\ OutputsInserted(proof) \in TreeType
      /\ OutputsInserted(proof).leaves = Append(once.leaves, proof.public.commitments[2])
      /\ Len(OutputsInserted(proof).leaves) = Len(once.leaves) + 1
  BY <1>1, <1>3, <1>4, InsertType
<1>6. Len(OutputsInserted(proof).leaves) = Len(tree.leaves) + 2
  BY <1>2, <1>3, <1>5
<1> QED BY <1>1, <1>3, <1>5, <1>6 DEF once

(* Events are appended with the types of the event structs. *)
LEMMA TransactEventsType ==
    ASSUME tree \in TreeType, NEW proof \in Proof, NEW notes \in [Slots -> Payloads]
    PROVE  TransactEvents(proof, notes) \in Seq(Event)
<1>1. NextIndex(tree) \in Nat /\ NextIndex(Insert(tree, proof.public.commitments[1])) \in Nat
  BY OutputsInsertedType DEF NextIndex, TreeType
<1>2. notes[1] \in Payloads /\ notes[2] \in Payloads
  BY DEF Slots
<1>3. proof.public.nullifiers[1] \in Nullifiers /\ proof.public.nullifiers[2] \in Nullifiers
  BY DEF Proof, Slots
<1>4. \A commitment \in Commitments, index \in Nat, note \in Payloads :
        NewCommitment(commitment, index, note) \in Event
  BY DEF NewCommitment, Event
<1>5. \A nullifier \in Nullifiers : NewNullifier(nullifier) \in Event
  BY DEF NewNullifier, Event
<1> QED BY <1>1, <1>2, <1>3, <1>4, <1>5, OutputsInsertedType DEF TransactEvents

(* The accounts have the types state.rs and SPL give them at deployment. *)
LEMMA TypeInit == Init => TypeOK
<1> SUFFICES ASSUME Init PROVE TypeOK
  OBVIOUS
<1>1. tree \in [leaves : Seq(Commitments), roots : Seq(Roots)]
  BY DEF Init, EmptyTree, Roots
<1> QED BY <1>1, PoolAssumption DEF Init, TypeOK

(* InitPool keeps the types. *)
LEMMA TypeInitPool ==
    ASSUME TypeOK, NEW signer \in Users, NEW config \in Deployments, InitPool(signer, config)
    PROVE  TypeOK'
<1>1. tree' \in [leaves : Seq(Commitments), roots : Seq(Roots)]
  BY DEF InitPool, EmptyTree, Roots
<1>2. pool' \in Config
  BY PoolAssumption DEF InitPool
<1> QED BY <1>1, <1>2 DEF InitPool, TypeOK

(* Shield keeps the types: it takes no more than the depositor holds. *)
LEMMA TypeShield ==
    ASSUME TypeOK, NEW depositor \in Users, NEW account \in TokenAccounts, NEW key \in Keys,
           NEW amount \in DepositAmounts, NEW note \in DepositPayloads,
           Shield(depositor, account, key, amount, note)
    PROVE  TypeOK'
<1> DEFINE commitment == Commitment(key, AssetId(pool.mint), amount)
<1>1. amount \in Nat /\ amount \in Field
  BY PoolAssumption, FieldAssumption DEF Values, Field
<1>2. pool \in Config
  BY DEF Shield, TypeOK
<1>3. commitment \in Commitments
  BY <1>1, <1>2 DEF Commitment, Commitments, AssetId, Assets, Config
<1>4. Vault \in TokenAccounts
  BY PoolAssumption
<1>5. balances' \in [TokenAccounts -> Nat]
  BY <1>1, <1>4, TransferredType DEF Shield, TypeOK
<1>6. tree \in TreeType
  BY DEF TypeOK, TreeType
<1>7. tree' \in TreeType
  BY <1>3, <1>6, InsertType DEF Shield
<1>8. NewCommitment(commitment, NextIndex(tree), note) \in Event
  BY <1>3, <1>6, PoolAssumption DEF NewCommitment, Event, NextIndex, TreeType
<1>9. events' \in Seq(Event)
  BY <1>8 DEF Shield, TypeOK
<1> QED BY <1>5, <1>7, <1>9 DEF Shield, TypeOK, TreeType

(* Donations keep the types. *)
LEMMA TypeDonate ==
    ASSUME TypeOK, NEW donor \in Users, NEW account \in TokenAccounts, NEW amount \in Donations,
           Donate(donor, account, amount)
    PROVE  TypeOK'
<1>1. amount \in Nat /\ Vault \in TokenAccounts
  BY PoolAssumption
<1>2. balances' \in [TokenAccounts -> Nat]
  BY <1>1, TransferredType DEF Donate, TypeOK
<1> QED BY <1>2 DEF Donate, TypeOK

(* Proving keeps the types. *)
LEMMA TypeProve ==
    ASSUME TypeOK, NEW root \in ProvableRoots, NEW wit \in Witnesses, NEW binding \in Bindings,
           NEW amount \in {PublicAmountField(binding.amount)} \cup LooseAmounts,
           Prove(root, wit, amount, binding)
    PROVE  TypeOK'
<1>1. tree \in TreeType
  BY DEF TypeOK, TreeType
<1>2. root \in Roots
  BY <1>1, RootAtType, PoolAssumption DEF ProvableRoots
<1>3. wit \in Witness /\ binding \in Binding /\ amount \in Field
  BY PoolAssumption, ProvedAmountType
<1>4. proofs' \subseteq Proof
  BY <1>2, <1>3, StatementType DEF Prove, TypeOK
<1> QED BY <1>4 DEF Prove, TypeOK

(* Transact keeps the types: it pays no more than the vault holds. *)
LEMMA TypeTransact ==
    ASSUME TypeOK, NEW proof \in proofs, NEW amount \in Amounts,
           NEW recipient \in Users \cup {PoolAddress}, NEW notes \in [Slots -> Payloads],
           NEW account \in TokenAccounts,
           Transact(proof, amount, recipient, notes, account)
    PROVE  TypeOK'
<1>1. proof \in Proof /\ tree \in TreeType
  BY DEF TypeOK, TreeType
<1>2. \A s \in Slots : proof.public.nullifiers[s] \in Nullifiers
  BY <1>1 DEF Proof
<1>3. nullifiers' \subseteq Nullifiers
  BY <1>2 DEF Transact, TypeOK
<1>4. balances' \in [TokenAccounts -> Nat]
  <2>1. CASE amount < 0
    <3>1. -amount \in Nat
      BY <2>1, FieldAssumption DEF Amounts
    <3>2. CanTransfer(Vault, -amount)
      BY <2>1 DEF Transact, Accepts, Payable, VaultCovers, CanTransfer
    <3> QED BY <2>1, <3>1, <3>2, PoolAssumption, TransferredType DEF Transact, Paid, TypeOK
  <2>2. CASE ~(amount < 0)
    BY <2>2 DEF Transact, Paid, TypeOK
  <2> QED BY <2>1, <2>2
<1>5. tree' \in TreeType
  BY <1>1, OutputsInsertedType DEF Transact
<1>6. events' \in Seq(Event)
  <2>1. TransactEvents(proof, notes) \in Seq(Event)
    BY <1>1, TransactEventsType
  <2> QED BY <2>1, ConcatProperties DEF Transact, TypeOK
<1>7. redeemed' \in [Indices -> Nat]
  BY DEF Transact, TypeOK
<1> QED BY <1>3, <1>4, <1>5, <1>6, <1>7 DEF Transact, TypeOK, TreeType

(* Every step keeps the types. *)
LEMMA TypeNext == TypeOK /\ [Next]_vars => TypeOK'
<1> SUFFICES ASSUME TypeOK, [Next]_vars PROVE TypeOK'
  OBVIOUS
<1>1. CASE UNCHANGED vars
  BY <1>1 DEF vars, TypeOK
<1>2. CASE Next
  BY <1>2, NextCases, TypeInitPool, TypeShield, TypeDonate, TypeProve, TypeTransact
<1> QED BY <1>1, <1>2

(* The types of the accounts, the proofs and the log, in every behaviour. *)
THEOREM TypeCorrect == Spec => []TypeOK
<1>1. Init => TypeOK
  BY TypeInit
<1>2. TypeOK /\ [Next]_vars => TypeOK'
  BY TypeNext
<1> QED BY <1>1, <1>2, PTL DEF Spec

-----------------------------------------------------------------------------
(* The tree only grows, and remembers only roots it had. *)

(* An append changes no leaf and no root of the past. *)
LEMMA InsertExtends ==
    ASSUME NEW t \in TreeType, NEW leaf \in Commitments
    PROVE  LET u == Insert(t, leaf) IN
           /\ \A i \in 1 .. Len(t.leaves) : u.leaves[i] = t.leaves[i]
           /\ u.leaves[Len(t.leaves) + 1] = leaf
           /\ \A n \in 0 .. Len(t.leaves) : RootAt(u, n) = RootAt(t, n)
           /\ RootAt(u, Len(u.leaves)) = u.leaves
<1> DEFINE u == Insert(t, leaf)
<1>0. /\ u \in TreeType /\ u.leaves = Append(t.leaves, leaf)
      /\ Len(u.leaves) = Len(t.leaves) + 1
  BY InsertType
<1> HIDE DEF u
<1>1. /\ t.leaves \in Seq(Commitments) /\ Len(t.leaves) \in Nat
      /\ u \in TreeType /\ u.leaves = Append(t.leaves, leaf)
      /\ Len(u.leaves) = Len(t.leaves) + 1
      /\ u.leaves \in Seq(Commitments)
  BY <1>0 DEF TreeType
<1>2. \A i \in 1 .. Len(t.leaves) : u.leaves[i] = t.leaves[i]
  BY <1>1
<1>3. u.leaves[Len(t.leaves) + 1] = leaf
  BY <1>1
<1>4. ASSUME NEW n \in 0 .. Len(t.leaves)
      PROVE  RootAt(u, n) = RootAt(t, n)
  <2>1. n \in 0 .. Len(u.leaves)
    BY <1>1
  <2>2. /\ RootAt(u, n) \in Seq(Commitments) /\ Len(RootAt(u, n)) = n
        /\ \A i \in 1 .. n : RootAt(u, n)[i] = u.leaves[i]
    BY <2>1, <1>1, RootAtType DEF Roots
  <2>3. /\ RootAt(t, n) \in Seq(Commitments) /\ Len(RootAt(t, n)) = n
        /\ \A i \in 1 .. n : RootAt(t, n)[i] = t.leaves[i]
    BY RootAtType DEF Roots
  <2>4. \A i \in 1 .. n : RootAt(u, n)[i] = RootAt(t, n)[i]
    BY <1>2, <1>1, <2>2, <2>3
  <2> QED BY <2>2, <2>3, <2>4, SeqEqual
<1>5. RootAt(u, Len(u.leaves)) = u.leaves
  <2>1. Len(u.leaves) \in 0 .. Len(u.leaves)
    BY <1>1
  <2>2. /\ RootAt(u, Len(u.leaves)) \in Seq(Commitments)
        /\ Len(RootAt(u, Len(u.leaves))) = Len(u.leaves)
        /\ \A i \in 1 .. Len(u.leaves) : RootAt(u, Len(u.leaves))[i] = u.leaves[i]
    BY <2>1, <1>1, RootAtType DEF Roots
  <2> QED BY <2>2, <1>1, SeqEqual
<1> QED BY <1>2, <1>3, <1>4, <1>5 DEF u

(* The ring after an append holds the new root and roots it held before. *)
LEMMA InsertPastRoots ==
    ASSUME NEW t \in TreeType, NEW leaf \in Commitments, PastRoots(t)
    PROVE  PastRoots(Insert(t, leaf))
<1> DEFINE u == Insert(t, leaf)
<1>1. /\ t.roots \in Seq(Roots) /\ Len(t.leaves) \in Nat
      /\ u.leaves = Append(t.leaves, leaf) /\ Len(u.leaves) = Len(t.leaves) + 1
      /\ u.roots = PushRoot(t.roots, u.leaves)
  BY InsertType DEF TreeType, Insert
<1>2. /\ \A n \in 0 .. Len(t.leaves) : RootAt(u, n) = RootAt(t, n)
      /\ RootAt(u, Len(u.leaves)) = u.leaves
  BY InsertExtends
<1> HIDE DEF u
<1>3. ASSUME NEW k \in DOMAIN u.roots
      PROVE  u.roots[k] = u.leaves \/ \E j \in DOMAIN t.roots : u.roots[k] = t.roots[j]
  <2>1. CASE Len(t.roots) < RootWindow
    BY <2>1, <1>1 DEF PushRoot
  <2>2. CASE ~(Len(t.roots) < RootWindow)
    <3>1. t.roots # << >>
      BY <2>2, <1>1, TreeAssumption
    <3>2. /\ Tail(t.roots) \in Seq(Roots) /\ Len(Tail(t.roots)) = Len(t.roots) - 1
          /\ \A j \in 1 .. Len(t.roots) - 1 : Tail(t.roots)[j] = t.roots[j + 1]
      BY <3>1, <1>1, HeadTailProperties
    <3>3. u.roots = Append(Tail(t.roots), u.leaves)
      BY <2>2, <1>1 DEF PushRoot
    <3>4. Len(u.roots) = Len(t.roots) /\ k \in 1 .. Len(t.roots)
      BY <1>1, <3>2, <3>3
    <3>5. CASE k = Len(t.roots)
      BY <3>2, <3>3, <3>5, <1>1
    <3>6. CASE k # Len(t.roots)
      <4>1. k \in 1 .. Len(t.roots) - 1 /\ k + 1 \in DOMAIN t.roots
        BY <3>4, <3>6, <1>1
      <4>2. u.roots[k] = Tail(t.roots)[k]
        BY <3>2, <3>3, <4>1, <1>1
      <4> QED BY <4>1, <4>2, <3>2
    <3> QED BY <3>5, <3>6
  <2> QED BY <2>1, <2>2
<1>4. ASSUME NEW k \in DOMAIN u.roots
      PROVE  \E n \in 0 .. Len(u.leaves) : u.roots[k] = RootAt(u, n)
  <2>1. CASE u.roots[k] = u.leaves
    BY <2>1, <1>1, <1>2
  <2>2. CASE \E j \in DOMAIN t.roots : u.roots[k] = t.roots[j]
    <3>1. PICK n \in 0 .. Len(t.leaves) : u.roots[k] = RootAt(t, n)
      BY <2>2 DEF PastRoots
    <3>2. n \in 0 .. Len(u.leaves) /\ u.roots[k] = RootAt(u, n)
      BY <3>1, <1>1, <1>2
    <3> QED BY <3>2
  <2> QED BY <1>3, <2>1, <2>2
<1> QED BY <1>4 DEF PastRoots, u

-----------------------------------------------------------------------------
(* The inductive invariant. *)

(* While nothing but the ghosts' context changes, a spent note stays spent. *)
LEMMA SpentStays ==
    ASSUME NEW k \in DOMAIN tree.leaves, NoteSpent(k),
           nullifiers \subseteq nullifiers', tree'.leaves[k] = tree.leaves[k]
    PROVE  NoteSpent(k)'
BY DEF NoteSpent

(* A non-zero input of a proof with a known root is a leaf of the tree, and the
   nullifier the proof reveals is the one of that leaf and its owner. *)
LEMMA RealInputIsLeaf ==
    ASSUME TypeOK, SafetyInv, NEW proof \in proofs, KnownRoot(proof),
           NEW s \in Slots, proof.witness.inputs[s].value # 0
    PROVE  LET in == proof.witness.inputs[s] IN
           /\ in.index \in Nat /\ in.index < Len(tree.leaves) /\ in.index \in Indices
           /\ tree.leaves[in.index + 1] = InputCommitment(proof.witness.asset, in)
           /\ proof.public.nullifiers[s] = Nullifier(in.view, in.index)
<1> DEFINE in == proof.witness.inputs[s]
<1>1. Circuit(proof.public, proof.witness)
  BY DEF SafetyInv, ProofsSound
<1>2. /\ in.index < Capacity
      /\ in.index < Len(proof.public.root)
      /\ proof.public.root[in.index + 1] = InputCommitment(proof.witness.asset, in)
      /\ proof.public.nullifiers[s] = Nullifier(in.view, in.index)
  BY <1>1 DEF Circuit, InputHolds, IsMember
<1>3. in.index \in Nat
  <2>1. proof \in Proof
    BY DEF TypeOK
  <2>2. in \in Input
    BY <2>1 DEF Proof, Witness
  <2> QED BY <2>2, FieldAssumption DEF Input, Field
<1>4. PICK n \in 0 .. Len(tree.leaves) : proof.public.root = RootAt(tree, n)
  BY DEF KnownRoot, ContainsRoot, SafetyInv, PastRoots
<1>5. tree \in TreeType /\ Len(tree.leaves) \in Nat
  BY DEF TypeOK, TreeType
<1>6. Len(proof.public.root) = n /\ \A j \in 1 .. n : proof.public.root[j] = tree.leaves[j]
  BY <1>4, <1>5, RootAtType
<1>7. in.index + 1 \in 1 .. n
  BY <1>2, <1>3, <1>5, <1>6
<1> HIDE DEF in
<1>8. in.index \in Indices
  BY <1>2, <1>3, FieldAssumption DEF Indices
<1> QED BY <1>2, <1>3, <1>5, <1>6, <1>7, <1>8 DEF in

(* A transaction consumes only notes that were never an input before, each in
   one slot, and records the nullifier of each. *)
LEMMA RedeemedOnce ==
    ASSUME TypeOK, SafetyInv, NEW proof \in proofs,
           KnownRoot(proof), FreshNullifiers(proof),
           NEW i \in Indices, NEW s \in Slots, Redeems(proof.witness, s, i)
    PROVE  /\ redeemed[i] = 0
           /\ \A t \in Slots : Redeems(proof.witness, t, i) => t = s
           /\ i < Len(tree.leaves)
           /\ \E spend \in SpendKeys, random \in Blindings :
                 tree.leaves[i + 1].key
                   = NoteKey(Owner(spend, proof.public.nullifiers[s].view), random)
           /\ proof.public.nullifiers[s].index = i
<1> DEFINE in == proof.witness.inputs[s]
<1>1. /\ in.value # 0 /\ in.index = i
      /\ i < Len(tree.leaves)
      /\ tree.leaves[i + 1] = InputCommitment(proof.witness.asset, in)
      /\ proof.public.nullifiers[s] = Nullifier(in.view, i)
  BY RealInputIsLeaf DEF Redeems
<1>2. in.spend \in SpendKeys /\ in.random \in Blindings
  BY DEF TypeOK, Proof, Witness, Input
<1>3. tree.leaves[i + 1].key = NoteKey(Owner(in.spend, in.view), in.random)
  BY <1>1 DEF InputCommitment, Commitment
<1>4. proof.public.nullifiers[s] \notin nullifiers
  BY DEF FreshNullifiers
<1>5. redeemed[i] = 0
  <2>1. SUFFICES ASSUME redeemed[i] # 0 PROVE FALSE
    OBVIOUS
  <2>2. NoteSpent(i + 1)
    BY <2>1 DEF SafetyInv, RedeemedIsRecorded
  <2>3. PICK n \in nullifiers, spend \in SpendKeys, random \in Blindings :
          n.index + 1 = i + 1 /\ tree.leaves[i + 1].key = NoteKey(Owner(spend, n.view), random)
    BY <2>2 DEF NoteSpent
  <2>4. n \in Nullifiers
    BY <2>3 DEF TypeOK
  <2>5. n.view = in.view
    BY <1>3, <2>3 DEF NoteKey, Owner
  <2>6. n.index = i
    <3>1. n.index \in Int /\ i \in Int
      BY <2>4, FieldAssumption DEF Nullifiers, Field, Indices
    <3> QED BY <2>3, <3>1
  <2>7. n = Nullifier(in.view, i)
    BY <2>4, <2>5, <2>6 DEF Nullifiers, Nullifier
  <2> QED BY <1>1, <1>4, <2>3, <2>7
<1>6. ASSUME NEW t \in Slots, Redeems(proof.witness, t, i), t # s
      PROVE  FALSE
  <2>1. /\ tree.leaves[i + 1] = InputCommitment(proof.witness.asset, proof.witness.inputs[t])
        /\ proof.public.nullifiers[t] = Nullifier(proof.witness.inputs[t].view, i)
    BY <1>6, RealInputIsLeaf DEF Redeems
  <2>2. proof.witness.inputs[t].view = in.view
    BY <1>1, <2>1 DEF InputCommitment, Commitment, NoteKey, Owner
  <2>3. proof.public.nullifiers[t] = proof.public.nullifiers[s]
    BY <1>1, <2>1, <2>2
  <2>4. proof.public.nullifiers[1] # proof.public.nullifiers[2]
    BY DEF SafetyInv, ProofsSound, Circuit
  <2> QED BY <1>6, <2>3, <2>4 DEF Slots
<1> QED BY <1>1, <1>2, <1>3, <1>5, <1>6 DEF Nullifier

(* The pool's asset is the asset of every accepted transaction, because one of
   its inputs is a leaf and every leaf has the pool's asset. *)
LEMMA AssetIsPools ==
    ASSUME TypeOK, SafetyInv, NEW proof \in proofs, KnownRoot(proof)
    PROVE  /\ proof.witness.asset = AssetId(pool.mint)
           /\ \E s \in Slots : proof.witness.inputs[s].value # 0
<1>1. proof.witness \in Witness /\ Circuit(proof.public, proof.witness)
  BY DEF TypeOK, Proof, SafetyInv, ProofsSound
<1>2. \A s \in Slots : proof.witness.inputs[s].value \in Values
  BY <1>1, FieldAssumption DEF Witness, Input, Field, Values, Circuit, InputHolds
<1>3. PICK s \in Slots : proof.witness.inputs[s].value # 0
  BY <1>1, <1>2, SumInZero DEF Circuit
<1> DEFINE in == proof.witness.inputs[s]
<1>4. /\ in.index \in Nat /\ in.index < Len(tree.leaves)
      /\ tree.leaves[in.index + 1] = InputCommitment(proof.witness.asset, in)
  BY <1>3, RealInputIsLeaf
<1>5. in.index + 1 \in DOMAIN tree.leaves
  <2>1. tree.leaves \in Seq(Commitments)
    BY DEF TypeOK
  <2> QED BY <1>4, <2>1
<1>6. tree.leaves[in.index + 1].asset = AssetId(pool.mint)
  BY <1>5 DEF SafetyInv, LeavesSound
<1>7. tree.leaves[in.index + 1].asset = proof.witness.asset
  BY <1>4 DEF InputCommitment, Commitment
<1> QED BY <1>3, <1>6, <1>7

(* Before deployment there is nothing to get wrong. *)
LEMMA SafetyInit == Init => SafetyInv
<1> SUFFICES ASSUME Init PROVE SafetyInv
  OBVIOUS
<1>1. tree = EmptyTree /\ proofs = {} /\ redeemed = [j \in Indices |-> 0]
  BY DEF Init
<1>2. tree.leaves = << >> /\ tree.roots = << << >> >>
  BY <1>1 DEF EmptyTree
<1>3. PastRoots(tree)
  <2>1. RootAt(tree, 0) = << >>
    BY <1>2, SubSeqEmpty DEF RootAt
  <2>2. 0 \in 0 .. Len(tree.leaves)
    BY <1>2
  <2>3. \A k \in DOMAIN tree.roots : tree.roots[k] = << >>
    BY <1>2
  <2> QED BY <2>1, <2>2, <2>3 DEF PastRoots
<1> QED BY <1>1, <1>2, <1>3 DEF SafetyInv, ProofsSound, RedeemedIsRecorded, LeavesSound

(* InitPool starts from an empty tree, so nothing was ever redeemed. *)
LEMMA SafetyInitPool ==
    ASSUME TypeOK, SafetyInv, NEW signer \in Users, NEW config \in Deployments,
           InitPool(signer, config)
    PROVE  SafetyInv'
<1>1. tree' = EmptyTree /\ tree.leaves = << >> /\ tree'.leaves = << >> /\ tree'.roots = << << >> >>
  BY DEF InitPool, SafetyInv, EmptyTree
<1>2. PastRoots(tree')
  <2>1. RootAt(tree', 0) = << >>
    BY <1>1, SubSeqEmpty DEF RootAt
  <2>2. 0 \in 0 .. Len(tree'.leaves)
    BY <1>1
  <2>3. \A k \in DOMAIN tree'.roots : tree'.roots[k] = << >>
    BY <1>1
  <2> QED BY <2>1, <2>2, <2>3 DEF PastRoots
<1>3. \A i \in Indices : redeemed[i] = 0
  <2>1. ~ \E i \in Indices : i < Len(tree.leaves)
    BY <1>1, FieldAssumption DEF Indices
  <2> QED BY <2>1 DEF SafetyInv, RedeemedIsRecorded
<1>4. RedeemedIsRecorded'
  BY <1>3 DEF InitPool, RedeemedIsRecorded
<1>5. LeavesSound'
  BY <1>1 DEF LeavesSound
<1>6. ProofsSound'
  BY DEF InitPool, SafetyInv, ProofsSound
<1> QED BY <1>1, <1>2, <1>4, <1>5, <1>6 DEF SafetyInv, PastRoots

(* Appending leaves and recording nullifiers keeps what was redeemed recorded. *)
LEMMA RecordedStays ==
    ASSUME TypeOK, SafetyInv, NEW i \in Indices, redeemed[i] # 0,
           nullifiers \subseteq nullifiers',
           Len(tree.leaves) <= Len(tree'.leaves), Len(tree'.leaves) \in Nat,
           \A k \in 1 .. Len(tree.leaves) : tree'.leaves[k] = tree.leaves[k]
    PROVE  redeemed[i] = 1 /\ i < Len(tree'.leaves) /\ NoteSpent(i + 1)'
<1>1. redeemed[i] = 1 /\ i < Len(tree.leaves) /\ NoteSpent(i + 1)
  BY DEF SafetyInv, RedeemedIsRecorded
<1>2. tree.leaves \in Seq(Commitments) /\ Len(tree.leaves) \in Nat /\ i \in Nat
  BY FieldAssumption DEF TypeOK, Indices
<1>3. i + 1 \in 1 .. Len(tree.leaves) /\ i + 1 \in DOMAIN tree.leaves
  BY <1>1, <1>2
<1>4. tree'.leaves[i + 1] = tree.leaves[i + 1]
  BY <1>3
<1>5. NoteSpent(i + 1)'
  BY <1>1, <1>3, <1>4, SpentStays
<1> QED BY <1>1, <1>2, <1>5

(* Shield appends a note of the pool's asset and of a u64 value. *)
LEMMA SafetyShield ==
    ASSUME TypeOK, SafetyInv, NEW depositor \in Users, NEW account \in TokenAccounts,
           NEW key \in Keys, NEW amount \in DepositAmounts, NEW note \in DepositPayloads,
           Shield(depositor, account, key, amount, note)
    PROVE  SafetyInv'
<1> DEFINE commitment == Commitment(key, AssetId(pool.mint), amount)
<1>1. amount \in Values /\ amount \in Field
  BY PoolAssumption, FieldAssumption DEF Values, Field
<1>2. pool \in Config /\ pool' = pool /\ pool # NoPool
  BY DEF Shield, TypeOK
<1>3. commitment \in Commitments
  BY <1>1, <1>2 DEF Commitment, Commitments, AssetId, Assets, Config
<1>4. tree \in TreeType /\ tree.leaves \in Seq(Commitments) /\ Len(tree.leaves) \in Nat
  BY DEF TypeOK, TreeType
<1>5. tree' = Insert(tree, commitment)
  BY DEF Shield
<1> HIDE DEF commitment
<1>6. /\ tree' \in TreeType
      /\ tree'.leaves = Append(tree.leaves, commitment)
      /\ Len(tree'.leaves) = Len(tree.leaves) + 1
      /\ \A k \in 1 .. Len(tree.leaves) : tree'.leaves[k] = tree.leaves[k]
  BY <1>3, <1>4, <1>5, InsertType, InsertExtends
<1>7. PastRoots(tree')
  BY <1>3, <1>4, <1>5, InsertPastRoots DEF SafetyInv
<1>8. RedeemedIsRecorded'
  <2>1. redeemed' = redeemed /\ nullifiers' = nullifiers
    BY DEF Shield
  <2> QED BY <1>4, <1>6, <2>1, RecordedStays DEF RedeemedIsRecorded
<1>9. LeavesSound'
  <2>1. commitment.asset = AssetId(pool.mint) /\ commitment.value \in Values
    BY <1>1 DEF commitment, Commitment
  <2>2. ASSUME NEW k \in DOMAIN tree'.leaves
        PROVE  tree'.leaves[k].asset = AssetId(pool.mint) /\ tree'.leaves[k].value \in Values
    <3>1. k \in DOMAIN tree.leaves \/ tree'.leaves[k] = commitment
      BY <1>4, <1>6
    <3>2. CASE k \in DOMAIN tree.leaves
      <4>1. tree'.leaves[k] = tree.leaves[k]
        BY <1>4, <1>6, <3>2
      <4> QED BY <3>2, <4>1 DEF SafetyInv, LeavesSound
    <3>3. CASE tree'.leaves[k] = commitment
      BY <2>1, <3>3
    <3> QED BY <3>1, <3>2, <3>3
  <2> QED BY <1>2, <2>2 DEF LeavesSound
<1>10. ProofsSound'
  BY DEF Shield, SafetyInv, ProofsSound
<1> QED BY <1>2, <1>7, <1>8, <1>9, <1>10 DEF SafetyInv, PastRoots

(* A donation touches no part of the invariant. *)
LEMMA SafetyDonate ==
    ASSUME SafetyInv, NEW donor \in Users, NEW account \in TokenAccounts,
           NEW amount \in Donations, Donate(donor, account, amount)
    PROVE  SafetyInv'
BY DEF Donate, SafetyInv, ProofsSound, PastRoots, RedeemedIsRecorded, NoteSpent, LeavesSound

(* A proof is added only when its witness satisfies the circuit. *)
LEMMA SafetyProve ==
    ASSUME SafetyInv, NEW root, NEW wit, NEW amount, NEW binding,
           Prove(root, wit, amount, binding)
    PROVE  SafetyInv'
<1>1. ProofsSound'
  BY DEF Prove, SafetyInv, ProofsSound
<1> QED BY <1>1 DEF Prove, SafetyInv, PastRoots, RedeemedIsRecorded, NoteSpent, LeavesSound

(* What Transact does to the tree, as two appends of sound leaves. *)
LEMMA TransactTree ==
    ASSUME TypeOK, SafetyInv, NEW proof \in proofs, KnownRoot(proof),
           tree' = OutputsInserted(proof)
    PROVE  /\ Len(tree.leaves) \in Nat /\ Len(tree'.leaves) = Len(tree.leaves) + 2
           /\ tree'.leaves \in Seq(Commitments)
           /\ \A k \in 1 .. Len(tree.leaves) : tree'.leaves[k] = tree.leaves[k]
           /\ tree'.leaves[Len(tree.leaves) + 1] = proof.public.commitments[1]
           /\ tree'.leaves[Len(tree.leaves) + 2] = proof.public.commitments[2]
           /\ PastRoots(tree')
           /\ \A t \in Slots : /\ proof.public.commitments[t].asset = AssetId(pool.mint)
                               /\ proof.public.commitments[t].value \in Values
<1>1. proof \in Proof /\ tree \in TreeType
  BY DEF TypeOK, TreeType
<1>2. /\ proof.public.commitments[1] \in Commitments
      /\ proof.public.commitments[2] \in Commitments
  BY <1>1, OutputsInsertedType
<1> DEFINE once == Insert(tree, proof.public.commitments[1])
<1>3. /\ once \in TreeType /\ PastRoots(once)
      /\ Len(once.leaves) = Len(tree.leaves) + 1
      /\ \A k \in 1 .. Len(tree.leaves) : once.leaves[k] = tree.leaves[k]
      /\ once.leaves[Len(tree.leaves) + 1] = proof.public.commitments[1]
  BY <1>1, <1>2, InsertType, InsertExtends, InsertPastRoots DEF SafetyInv
<1>4. tree' = Insert(once, proof.public.commitments[2])
  BY DEF OutputsInserted
<1> HIDE DEF once
<1>5. /\ tree' \in TreeType /\ PastRoots(tree')
      /\ Len(tree'.leaves) = Len(once.leaves) + 1
      /\ \A k \in 1 .. Len(once.leaves) : tree'.leaves[k] = once.leaves[k]
      /\ tree'.leaves[Len(once.leaves) + 1] = proof.public.commitments[2]
  BY <1>2, <1>3, <1>4, InsertType, InsertExtends, InsertPastRoots
<1>6. Len(tree.leaves) \in Nat
  BY <1>1 DEF TreeType
<1>7. ASSUME NEW t \in Slots
      PROVE  /\ proof.public.commitments[t].asset = AssetId(pool.mint)
             /\ proof.public.commitments[t].value \in Values
  <2>1. /\ OutputHolds(proof.public, proof.witness, t)
        /\ proof.witness.outputs[t].value \in Field
    BY <1>1 DEF SafetyInv, ProofsSound, Circuit, Proof, Witness, Output
  <2>2. proof.witness.outputs[t].value \in Values
    BY <2>1, FieldAssumption DEF OutputHolds, Field, Values
  <2>3. proof.witness.asset = AssetId(pool.mint)
    BY AssetIsPools
  <2> QED BY <2>1, <2>2, <2>3 DEF OutputHolds, OutputCommitment, Commitment
<1>8. tree'.leaves \in Seq(Commitments)
  BY <1>5 DEF TreeType
<1>9. /\ Len(tree'.leaves) = Len(tree.leaves) + 2
      /\ \A k \in 1 .. Len(tree.leaves) : tree'.leaves[k] = tree.leaves[k]
      /\ tree'.leaves[Len(tree.leaves) + 1] = proof.public.commitments[1]
      /\ tree'.leaves[Len(tree.leaves) + 2] = proof.public.commitments[2]
  BY <1>3, <1>5, <1>6
<1> QED BY <1>5, <1>6, <1>7, <1>8, <1>9

(* Transact redeems only fresh notes, records them, and appends sound leaves. *)
LEMMA SafetyTransact ==
    ASSUME TypeOK, SafetyInv, NEW proof \in proofs, NEW amount \in Amounts,
           NEW recipient \in Users \cup {PoolAddress}, NEW notes \in [Slots -> Payloads],
           NEW account \in TokenAccounts,
           Transact(proof, amount, recipient, notes, account)
    PROVE  SafetyInv'
<1>1. KnownRoot(proof) /\ FreshNullifiers(proof) /\ tree' = OutputsInserted(proof)
  BY DEF Transact, Accepts
<1>2. /\ Len(tree.leaves) \in Nat /\ Len(tree'.leaves) = Len(tree.leaves) + 2
      /\ tree'.leaves \in Seq(Commitments)
      /\ \A k \in 1 .. Len(tree.leaves) : tree'.leaves[k] = tree.leaves[k]
      /\ tree'.leaves[Len(tree.leaves) + 1] = proof.public.commitments[1]
      /\ tree'.leaves[Len(tree.leaves) + 2] = proof.public.commitments[2]
      /\ PastRoots(tree')
      /\ \A t \in Slots : /\ proof.public.commitments[t].asset = AssetId(pool.mint)
                          /\ proof.public.commitments[t].value \in Values
  BY <1>1, TransactTree
<1>3. pool # NoPool /\ pool' = pool /\ proofs' = proofs
  BY DEF Transact, Accepts
<1>4. LeavesSound'
  <2>1. ASSUME NEW k \in DOMAIN tree'.leaves
        PROVE  tree'.leaves[k].asset = AssetId(pool.mint) /\ tree'.leaves[k].value \in Values
    <3>1. \/ k \in 1 .. Len(tree.leaves)
          \/ k = Len(tree.leaves) + 1
          \/ k = Len(tree.leaves) + 2
      BY <1>2
    <3>2. CASE k \in 1 .. Len(tree.leaves)
      <4>1. k \in DOMAIN tree.leaves
        BY <3>2 DEF TypeOK
      <4> QED BY <4>1, <3>2, <1>2 DEF SafetyInv, LeavesSound
    <3>3. CASE k = Len(tree.leaves) + 1
      BY <3>3, <1>2 DEF Slots
    <3>4. CASE k = Len(tree.leaves) + 2
      BY <3>4, <1>2 DEF Slots
    <3> QED BY <3>1, <3>2, <3>3, <3>4
  <2> QED BY <2>1, <1>3 DEF LeavesSound
<1>5. RedeemedIsRecorded'
  <2>1. SUFFICES ASSUME NEW j \in Indices, redeemed'[j] # 0
                 PROVE  redeemed'[j] = 1 /\ j < Len(tree'.leaves) /\ NoteSpent(j + 1)'
    BY DEF RedeemedIsRecorded
  <2>2. redeemed'[j] = redeemed[j] + (IF Redeems(proof.witness, 1, j) THEN 1 ELSE 0)
                                   + (IF Redeems(proof.witness, 2, j) THEN 1 ELSE 0)
    BY DEF Transact
  <2>3. nullifiers' = nullifiers \cup {proof.public.nullifiers[t] : t \in Slots}
    BY DEF Transact
  <2>4. redeemed[j] \in Nat
    BY DEF TypeOK
  <2>5. CASE \E s \in Slots : Redeems(proof.witness, s, j)
    <3>1. PICK s \in Slots : Redeems(proof.witness, s, j)
      BY <2>5
    <3>2. /\ redeemed[j] = 0
          /\ \A t \in Slots : Redeems(proof.witness, t, j) => t = s
          /\ j < Len(tree.leaves)
          /\ \E spend \in SpendKeys, random \in Blindings :
                tree.leaves[j + 1].key
                  = NoteKey(Owner(spend, proof.public.nullifiers[s].view), random)
          /\ proof.public.nullifiers[s].index = j
      BY <1>1, <3>1, RedeemedOnce
    <3>3. redeemed'[j] = 1
      BY <2>2, <3>1, <3>2 DEF Slots
    <3>4. j \in Nat /\ tree'.leaves[j + 1] = tree.leaves[j + 1]
      <4>1. j \in Nat
        BY FieldAssumption DEF Indices
      <4>2. j + 1 \in 1 .. Len(tree.leaves)
        BY <4>1, <1>2, <3>2
      <4> QED BY <4>1, <4>2, <1>2
    <3>5. NoteSpent(j + 1)'
      <4>1. proof.public.nullifiers[s] \in nullifiers'
        BY <2>3
      <4>2. proof.public.nullifiers[s].index + 1 = j + 1
        BY <3>2
      <4> QED BY <4>1, <4>2, <3>2, <3>4 DEF NoteSpent
    <3> QED BY <1>2, <3>2, <3>3, <3>4, <3>5
  <2>6. CASE ~ \E s \in Slots : Redeems(proof.witness, s, j)
    <3>1. redeemed'[j] = redeemed[j]
      BY <2>2, <2>4, <2>6 DEF Slots
    <3>2. nullifiers \subseteq nullifiers'
      BY <2>3
    <3>3. Len(tree.leaves) <= Len(tree'.leaves) /\ Len(tree'.leaves) \in Nat
      BY <1>2
    <3> QED BY <1>2, <2>1, <3>1, <3>2, <3>3, RecordedStays
  <2> QED BY <2>5, <2>6
<1>6. ProofsSound'
  BY <1>3 DEF SafetyInv, ProofsSound
<1> QED BY <1>2, <1>3, <1>4, <1>5, <1>6 DEF SafetyInv, PastRoots

(* Every step keeps the invariant. *)
LEMMA SafetyNext == TypeOK /\ SafetyInv /\ [Next]_vars => SafetyInv'
<1> SUFFICES ASSUME TypeOK, SafetyInv, [Next]_vars PROVE SafetyInv'
  OBVIOUS
<1>1. CASE UNCHANGED vars
  BY <1>1 DEF vars, SafetyInv, ProofsSound, PastRoots, RedeemedIsRecorded, NoteSpent, LeavesSound
<1>2. CASE Next
  BY <1>2, NextCases, SafetyInitPool, SafetyShield, SafetyDonate, SafetyProve, SafetyTransact
<1> QED BY <1>1, <1>2

(* The inductive invariant holds in every behaviour. *)
THEOREM SafetyCorrect == Spec => []SafetyInv
<1>1. Init => TypeOK /\ SafetyInv
  BY TypeInit, SafetyInit
<1>2. TypeOK /\ SafetyInv /\ [Next]_vars => (TypeOK /\ SafetyInv)'
  BY TypeNext, SafetyNext
<1> QED BY <1>1, <1>2, PTL DEF Spec

(* No note is ever an input of two accepted transactions or of two slots, for
   any number of owners, proofs, forged roots and rival submissions. *)
THEOREM NeverSpentTwice == Spec => []NoDoubleSpend
<1>1. TypeOK /\ SafetyInv => NoDoubleSpend
  BY DEF SafetyInv, RedeemedIsRecorded, NoDoubleSpend, TypeOK
<1> QED BY <1>1, TypeCorrect, SafetyCorrect, PTL

(* Every leaf is a note of the pool's mint in the range of a u64. *)
THEOREM LeavesAlwaysSound == Spec => []LeavesSound
<1>1. SafetyInv => LeavesSound
  BY DEF SafetyInv
<1> QED BY <1>1, SafetyCorrect, PTL

-----------------------------------------------------------------------------
(* What a transaction may do. *)

(* An accepted transaction pays what its hash binds, out of this pool. *)
LEMMA TransactPays ==
    ASSUME TypeOK, NEW proof \in proofs, NEW amount \in Amounts,
           NEW recipient \in Users \cup {PoolAddress}, NEW notes \in [Slots -> Payloads],
           NEW account \in TokenAccounts,
           Transact(proof, amount, recipient, notes, account)
    PROVE  /\ proof.public.amount = PublicAmountField(amount)
           /\ proof.public.hash = ExtDataHash(amount, recipient, notes)
           /\ balances' = Paid(amount, account)
           /\ balances[Vault] - balances'[Vault] = -amount
           /\ amount < 0 => AccountOwner[account] = recipient
<1>1. Accepts(proof, amount, recipient, notes, account) /\ balances' = Paid(amount, account)
  BY DEF Transact
<1>2. proof \in Proof
  BY DEF TypeOK
<1>3. /\ proof.public.amount = PublicAmountField(amount)
      /\ proof.public.hash = ExtDataHash(amount, recipient, notes)
  <2>1. proof.public = [proof.public EXCEPT !.amount = PublicAmountField(amount),
                                            !.hash = ExtDataHash(amount, recipient, notes)]
    BY <1>1 DEF Accepts, Verified, StatementOf
  <2> QED BY <1>2, <2>1 DEF Proof
<1>4. amount \in Int /\ amount <= 0
  BY <1>1, FieldAssumption DEF Amounts, Accepts, ValidArguments
<1>5. balances \in [TokenAccounts -> Nat] /\ Vault \in TokenAccounts
  BY PoolAssumption DEF TypeOK
<1>6. CASE amount < 0
  <2>1. account # Vault /\ AccountOwner[account] = recipient
    BY <1>1, <1>6 DEF Accepts, ValidArguments, Payable
  <2>2. balances' = [balances EXCEPT ![Vault] = @ - (-amount), ![account] = @ + (-amount)]
    BY <1>1, <1>6 DEF Paid, Transferred
  <2>3. balances'[Vault] = balances[Vault] - (-amount)
    BY <2>1, <2>2, <1>5
  <2> QED BY <1>1, <1>3, <1>4, <1>5, <2>1, <2>3
<1>7. CASE amount = 0
  <2>1. balances' = balances
    BY <1>1, <1>7 DEF Paid
  <2> QED BY <1>1, <1>3, <1>5, <1>7, <2>1
<1> QED BY <1>4, <1>6, <1>7

(* What is appended comes after what was there. *)
LEMMA AddedElement ==
    ASSUME NEW T, NEW list \in Seq(T), NEW more \in Seq(T), NEW k \in 1 .. Len(more)
    PROVE  /\ Len(list) + k \in DOMAIN (list \o more) \ DOMAIN list
           /\ (list \o more)[Len(list) + k] = more[k]
OBVIOUS

(* An accepted transaction announces its outputs at their indices, each with
   the payload given for it. *)
LEMMA TransactAnnounces ==
    ASSUME TypeOK, NEW proof \in proofs, NEW amount \in Amounts,
           NEW recipient \in Users \cup {PoolAddress}, NEW notes \in [Slots -> Payloads],
           NEW account \in TokenAccounts,
           Transact(proof, amount, recipient, notes, account),
           NEW s \in Slots
    PROVE  \E j \in DOMAIN events' \ DOMAIN events :
              events'[j] = NewCommitment(proof.public.commitments[s], NextIndex(tree) + s - 1, notes[s])
<1> DEFINE more == TransactEvents(proof, notes)
<1>1. events \in Seq(Event) /\ more \in Seq(Event) /\ events' = events \o more
  <2>1. events \in Seq(Event) /\ proof \in Proof /\ tree \in TreeType
    BY DEF TypeOK, TreeType
  <2>2. events' = events \o more
    BY DEF Transact
  <2> QED BY <2>1, <2>2, TransactEventsType
<1>2. NextIndex(Insert(tree, proof.public.commitments[1])) = NextIndex(tree) + 1
      /\ NextIndex(tree) \in Nat
  BY DEF TypeOK, TreeType, NextIndex, Insert
<1>3. Len(more) = 4 /\ more[s] = NewCommitment(proof.public.commitments[s], NextIndex(tree) + s - 1, notes[s])
  BY <1>2 DEF TransactEvents, Slots
<1> HIDE DEF more
<1>4. Len(events) + s \in DOMAIN events' \ DOMAIN events /\ events'[Len(events) + s] = more[s]
  <2>1. s \in 1 .. Len(more)
    BY <1>3 DEF Slots
  <2> QED BY <1>1, <2>1, AddedElement
<1> QED BY <1>3, <1>4

(* An accepted transaction is the spend its proof was made for. *)
LEMMA TransactSpends ==
    ASSUME TypeOK, SafetyInv, NEW proof \in proofs, NEW amount \in Amounts,
           NEW recipient \in Users \cup {PoolAddress}, NEW notes \in [Slots -> Payloads],
           NEW account \in TokenAccounts,
           Transact(proof, amount, recipient, notes, account)
    PROVE  SpendsAs(proof)
<1>1. /\ KnownRoot(proof) /\ FreshNullifiers(proof) /\ tree' = OutputsInserted(proof)
      /\ nullifiers' = nullifiers \cup {proof.public.nullifiers[s] : s \in Slots}
  BY DEF Transact, Accepts
<1>2. proof \in Proof /\ tree \in TreeType /\ tree.leaves \in Seq(Commitments)
  BY DEF TypeOK, TreeType
<1>3. /\ proof.public.amount = PublicAmountField(amount)
      /\ proof.public.hash = ExtDataHash(amount, recipient, notes)
      /\ balances' = Paid(amount, account)
      /\ balances[Vault] - balances'[Vault] = -amount
      /\ amount < 0 => AccountOwner[account] = recipient
  BY TransactPays
<1>4. /\ proof.public.hash.verifier = pool.verifier
      /\ proof.public.hash.mint = pool.mint
      /\ proof.public.hash.domain = pool.domain
      /\ proof.public.hash.recipient = recipient
      /\ proof.public.hash.amount = amount
      /\ proof.public.hash.notes = notes
  BY <1>3 DEF ExtDataHash
<1>5. \A s \in Slots : proof.public.nullifiers[s] \notin nullifiers
  BY <1>1 DEF FreshNullifiers
<1>6. tree'.leaves = tree.leaves \o <<proof.public.commitments[1], proof.public.commitments[2]>>
  <2>1. /\ proof.public.commitments[1] \in Commitments
        /\ proof.public.commitments[2] \in Commitments
        /\ tree'.leaves = Append(Append(tree.leaves, proof.public.commitments[1]),
                                 proof.public.commitments[2])
    BY <1>1, <1>2, OutputsInsertedType
  <2> QED BY <1>2, <2>1
<1>7. \E n \in 0 .. Len(tree.leaves) : proof.public.root = RootAt(tree, n)
  BY <1>1 DEF KnownRoot, ContainsRoot, SafetyInv, PastRoots
<1>8. ASSUME NEW s \in Slots, proof.witness.inputs[s].value # 0
      PROVE  IsMember(tree.leaves, proof.witness.inputs[s].index,
                      InputCommitment(AssetId(pool.mint), proof.witness.inputs[s]))
  BY <1>1, <1>8, RealInputIsLeaf, AssetIsPools DEF IsMember
<1>9. InputTotal(proof.witness) + amount = OutputTotal(proof.witness)
  <2>1. Circuit(proof.public, proof.witness) /\ proof.witness \in Witness
    BY <1>2 DEF SafetyInv, ProofsSound, Proof
  <2> QED BY <1>3, <2>1, CircuitConservesValue
<1>10. InputTotal(proof.witness) = OutputTotal(proof.witness) + (-amount)
  <2>1. InputTotal(proof.witness) \in Int /\ amount \in Int
    BY <1>2, FieldAssumption DEF Proof, Witness, Input, Field, InputTotal, Slots, Amounts
  <2> QED BY <1>9, <2>1
<1>11. amount \in Int
  BY FieldAssumption DEF Amounts
<1>12. \A s \in Slots : \E j \in DOMAIN events' \ DOMAIN events :
          events'[j] = NewCommitment(proof.public.commitments[s], NextIndex(tree) + s - 1,
                                     proof.public.hash.notes[s])
  BY <1>4, TransactAnnounces
<1> QED BY <1>1, <1>3, <1>4, <1>5, <1>6, <1>7, <1>8, <1>10, <1>11, <1>12 DEF SpendsAs

(* Tokens that reach the vault otherwise only add to it. *)
LEMMA VaultReceives ==
    ASSUME TypeOK, NEW payer \in Users, NEW account \in TokenAccounts, NEW amount \in Nat,
           AccountOwner[account] = payer, balances' = Transferred(account, Vault, amount)
    PROVE  ~(balances'[Vault] < balances[Vault])
<1>1. account # Vault /\ Vault \in TokenAccounts
  BY PoolAssumption
<1>2. balances'[Vault] = balances[Vault] + amount /\ balances[Vault] \in Nat
  BY <1>1 DEF Transferred, TypeOK
<1> QED BY <1>2

SpendStep ==
    nullifiers' # nullifiers \/ balances'[Vault] < balances[Vault]
      => \E proof \in proofs : SpendsAs(proof)

(* Every step that spends is the spend of one proof. *)
LEMMA SpendNext == TypeOK /\ SafetyInv /\ [Next]_vars => [SpendStep]_vars
<1> SUFFICES ASSUME TypeOK, SafetyInv, Next PROVE SpendStep
  OBVIOUS
<1>1. balances[Vault] \in Nat
  BY PoolAssumption DEF TypeOK
<1>2. ASSUME NEW signer \in Users, NEW config \in Deployments, InitPool(signer, config)
      PROVE  SpendStep
  BY <1>1, <1>2 DEF InitPool, SpendStep
<1>3. ASSUME NEW depositor \in Users, NEW account \in TokenAccounts, NEW key \in Keys,
             NEW amount \in DepositAmounts, NEW note \in DepositPayloads,
             Shield(depositor, account, key, amount, note)
      PROVE  SpendStep
  <2>1. amount \in Nat
    BY PoolAssumption, FieldAssumption DEF Values
  <2> QED BY <1>3, <2>1, VaultReceives DEF Shield, SpendStep
<1>4. ASSUME NEW donor \in Users, NEW account \in TokenAccounts, NEW amount \in Donations,
             Donate(donor, account, amount)
      PROVE  SpendStep
  <2>1. amount \in Nat
    BY PoolAssumption
  <2> QED BY <1>4, <2>1, VaultReceives DEF Donate, SpendStep
<1>5. ASSUME NEW root, NEW wit, NEW amount, NEW binding, Prove(root, wit, amount, binding)
      PROVE  SpendStep
  BY <1>1, <1>5 DEF Prove, SpendStep
<1>6. ASSUME NEW proof \in proofs, NEW amount \in Amounts,
             NEW recipient \in Users \cup {PoolAddress}, NEW notes \in [Slots -> Payloads],
             NEW account \in TokenAccounts,
             Transact(proof, amount, recipient, notes, account)
      PROVE  SpendStep
  BY <1>6, TransactSpends DEF SpendStep
<1> QED BY <1>2, <1>3, <1>4, <1>5, <1>6, NextCases

(* Nullifiers are recorded and tokens leave the vault only as one proof says, with
   its recipient, its amount and its payloads. *)
THEOREM SpendsOnlyAsProven == Spec => OnlyAsProven
<1>1. TypeOK /\ SafetyInv /\ [Next]_vars
        => [nullifiers' # nullifiers \/ balances'[Vault] < balances[Vault]
              => \E proof \in proofs : SpendsAs(proof)]_vars
  BY SpendNext DEF SpendStep
<1> QED BY <1>1, TypeCorrect, SafetyCorrect, PTL DEF Spec, OnlyAsProven

-----------------------------------------------------------------------------
(* How long a root is accepted, for every window and capacity: the ring    *)
(* holds exactly the roots of the latest appends, oldest first.            *)

RingLength(t) == IF Len(t.leaves) + 1 <= RootWindow THEN Len(t.leaves) + 1 ELSE RootWindow

(* The k-th root of the ring is the one the tree had so many leaves ago. *)
RingIsRecent(t) ==
    /\ Len(t.roots) = RingLength(t)
    /\ \A k \in 1 .. Len(t.roots) :
          t.roots[k] = RootAt(t, Len(t.leaves) - Len(t.roots) + k)

(* The ring of an empty tree holds the root of no leaves. *)
LEMMA EmptyRing == EmptyTree \in TreeType /\ RingIsRecent(EmptyTree)
<1>1. EmptyTree.leaves = << >> /\ EmptyTree.roots = << << >> >>
  BY DEF EmptyTree
<1>2. RootAt(EmptyTree, 0) = << >>
  BY <1>1, SubSeqEmpty DEF RootAt
<1>3. Len(EmptyTree.roots) = 1 /\ Len(EmptyTree.leaves) = 0
  BY <1>1
<1>4. RingLength(EmptyTree) = 1
  BY <1>3, TreeAssumption DEF RingLength
<1>5. \A k \in 1 .. 1 : EmptyTree.roots[k] = RootAt(EmptyTree, 0 - 1 + k)
  BY <1>1, <1>2
<1>6. EmptyTree \in TreeType
  BY DEF EmptyTree, TreeType, Roots
<1> QED BY <1>3, <1>4, <1>5, <1>6 DEF RingIsRecent

(* An append moves the window by one. *)
LEMMA InsertRing ==
    ASSUME NEW t \in TreeType, NEW leaf \in Commitments, RingIsRecent(t)
    PROVE  RingIsRecent(Insert(t, leaf))
<1> DEFINE u == Insert(t, leaf)
           L == Len(t.leaves)
           R == Len(t.roots)
<1>1. /\ t.roots \in Seq(Roots) /\ L \in Nat /\ R \in Nat
      /\ u \in TreeType /\ Len(u.leaves) = L + 1
      /\ u.roots = PushRoot(t.roots, u.leaves)
  BY InsertType DEF TreeType, Insert
<1>2. /\ \A n \in 0 .. L : RootAt(u, n) = RootAt(t, n)
      /\ RootAt(u, L + 1) = u.leaves
  BY <1>1, InsertExtends
<1>3. /\ R = RingLength(t)
      /\ \A k \in 1 .. R : t.roots[k] = RootAt(t, L - R + k)
  BY DEF RingIsRecent
<1>4. RootWindow \in Nat /\ RootWindow > 0
  BY TreeAssumption
<1> HIDE DEF u
<1>5. u.leaves \in Roots
  BY <1>1 DEF TreeType, Roots
<1>6. ASSUME R < RootWindow
      PROVE  RingIsRecent(u)
  <2>1. R = L + 1 /\ RingLength(u) = L + 2
    BY <1>1, <1>3, <1>4, <1>6 DEF RingLength
  <2>2. u.roots = Append(t.roots, u.leaves)
    BY <1>1, <1>6 DEF PushRoot
  <2>3. Len(u.roots) = R + 1 /\ u.roots[R + 1] = u.leaves
        /\ \A k \in 1 .. R : u.roots[k] = t.roots[k]
    <3>1. t.roots \in Seq(Roots)
      BY <1>1
    <3> QED BY ONLY <3>1, <2>2, <1>5, AppendProperties
  <2>4. ASSUME NEW k \in 1 .. R + 1
        PROVE  u.roots[k] = RootAt(u, (L + 1) - (R + 1) + k)
    <3>1. CASE k = R + 1
      BY <3>1, <2>1, <2>3, <1>1, <1>2
    <3>2. CASE k # R + 1
      <4>1. k \in 1 .. R /\ L - R + k \in 0 .. L /\ (L + 1) - (R + 1) + k = L - R + k
        BY <3>2, <2>1, <1>1
      <4> QED BY <4>1, <2>3, <1>2, <1>3
    <3> QED BY <3>1, <3>2
  <2> QED BY <2>1, <2>3, <2>4, <1>1 DEF RingIsRecent
<1>7. ASSUME ~(R < RootWindow)
      PROVE  RingIsRecent(u)
  <2>1. R = RootWindow /\ L + 1 >= R /\ RingLength(u) = R
    BY <1>1, <1>3, <1>4, <1>7 DEF RingLength
  <2>2. t.roots # << >>
    BY <2>1, <1>1, <1>4
  <2>3. /\ Tail(t.roots) \in Seq(Roots) /\ Len(Tail(t.roots)) = R - 1
        /\ \A j \in 1 .. R - 1 : Tail(t.roots)[j] = t.roots[j + 1]
    BY <2>2, <1>1, HeadTailProperties
  <2>4. u.roots = Append(Tail(t.roots), u.leaves)
    BY <1>1, <1>7 DEF PushRoot
  <2>5. Len(u.roots) = R /\ u.roots[R] = u.leaves
        /\ \A k \in 1 .. R - 1 : u.roots[k] = t.roots[k + 1]
    BY <2>3, <2>4, <1>1, <1>5, AppendProperties
  <2>6. ASSUME NEW k \in 1 .. R
        PROVE  u.roots[k] = RootAt(u, (L + 1) - R + k)
    <3>1. CASE k = R
      <4>1. (L + 1) - R + k = L + 1
        BY <3>1, <1>1
      <4> QED BY <4>1, <3>1, <2>5, <1>2
    <3>2. CASE k # R
      <4>1. /\ k \in 1 .. R - 1 /\ k + 1 \in 1 .. R
            /\ L - R + (k + 1) \in 0 .. L /\ (L + 1) - R + k = L - R + (k + 1)
        <5>1. L \in Nat /\ R \in Nat /\ k \in Nat /\ 1 <= k /\ k < R /\ R <= L + 1
          BY <3>2, <2>1, <1>1
        <5> HIDE DEF L, R
        <5> QED BY <5>1
      <4> QED BY <4>1, <2>5, <1>2, <1>3
    <3> QED BY <3>1, <3>2
  <2> QED BY <2>1, <2>5, <2>6, <1>1 DEF RingIsRecent
<1> QED BY <1>6, <1>7 DEF u

(* What the ring means: a root is in it as long as the window says. *)
LEMMA WindowExact ==
    ASSUME NEW t \in TreeType, RingIsRecent(t), NEW n \in 0 .. Len(t.leaves)
    PROVE  ContainsRoot(t, RootAt(t, n)) <=> Len(t.leaves) - n < RootWindow
<1> DEFINE L == Len(t.leaves)
           R == Len(t.roots)
<1>1. /\ L \in Nat /\ R \in Nat /\ DOMAIN t.roots = 1 .. R
      /\ RootWindow \in Nat /\ RootWindow > 0
  BY TreeAssumption DEF TreeType
<1>2. /\ R = RingLength(t)
      /\ \A k \in 1 .. R : t.roots[k] = RootAt(t, L - R + k)
  BY DEF RingIsRecent
<1>3. R <= RootWindow /\ R <= L + 1 /\ (R = L + 1 \/ R = RootWindow)
  BY <1>1, <1>2 DEF RingLength
<1> HIDE DEF L, R
<1>4. ASSUME ContainsRoot(t, RootAt(t, n))
      PROVE  L - n < RootWindow
  <2>1. PICK k \in 1 .. R : RootAt(t, L - R + k) = RootAt(t, n)
    BY <1>1, <1>2, <1>4 DEF ContainsRoot
  <2>2. L - R + k \in 0 .. L
    BY <2>1, <1>1, <1>3
  <2>3. \A m \in 0 .. L : Len(RootAt(t, m)) = m
    BY RootAtType DEF L
  <2>4. L - R + k = n
    BY <2>1, <2>2, <2>3 DEF L
  <2> QED BY <2>1, <2>4, <1>1, <1>3
<1>5. ASSUME L - n < RootWindow, n \in 0 .. L
      PROVE  ContainsRoot(t, RootAt(t, n))
  <2>1. n - (L - R) \in 1 .. R /\ L - R + (n - (L - R)) = n
    BY <1>1, <1>3, <1>5
  <2>2. t.roots[n - (L - R)] = RootAt(t, n)
    BY <2>1, <1>2
  <2> QED BY <2>1, <2>2, <1>1 DEF ContainsRoot
<1> QED BY <1>4, <1>5 DEF L

-----------------------------------------------------------------------------
(* The steps of the pool. *)

(* A step keeps the tree's past: InitPool apart, it appends leaves only. *)
Grown(t, u) ==
    /\ Len(t.leaves) <= Len(u.leaves)
    /\ \A n \in 0 .. Len(t.leaves) : RootAt(u, n) = RootAt(t, n)

(* One append grows the tree and keeps the ring. *)
LEMMA InsertGrows ==
    ASSUME NEW t \in TreeType, NEW leaf \in Commitments, RingIsRecent(t)
    PROVE  /\ Insert(t, leaf) \in TreeType /\ RingIsRecent(Insert(t, leaf))
           /\ Grown(t, Insert(t, leaf))
<1>1. Len(t.leaves) \in Nat
  BY DEF TreeType
<1> QED BY <1>1, InsertType, InsertExtends, InsertRing DEF Grown

(* So do two. *)
LEMMA GrownTwice ==
    ASSUME NEW t \in TreeType, NEW u \in TreeType, NEW v \in TreeType, Grown(t, u), Grown(u, v)
    PROVE  Grown(t, v)
<1>1. Len(t.leaves) \in Nat /\ Len(u.leaves) \in Nat /\ Len(v.leaves) \in Nat
  BY DEF TreeType
<1> QED BY <1>1 DEF Grown

(* A deposit or a transaction keeps the ring, and forgets nothing. *)
LEMMA RingNext ==
    ASSUME TypeOK, RingIsRecent(tree), [Next]_vars
    PROVE  /\ RingIsRecent(tree')
           /\ pool # NoPool => Grown(tree, tree') /\ nullifiers \subseteq nullifiers'
<1>1. tree \in TreeType /\ Len(tree.leaves) \in Nat
  BY DEF TypeOK, TreeType
<1>2. Grown(tree, tree)
  BY <1>1 DEF Grown
<1> DEFINE Goal == /\ RingIsRecent(tree')
                   /\ pool # NoPool => Grown(tree, tree') /\ nullifiers \subseteq nullifiers'
<1>3. tree' = tree /\ nullifiers \subseteq nullifiers' => Goal
  BY <1>2
<1>4. CASE UNCHANGED vars
  BY <1>3, <1>4 DEF vars
<1>5. CASE Next
  <2>1. ASSUME NEW signer \in Users, NEW config \in Deployments, InitPool(signer, config)
        PROVE  Goal
    BY <2>1, EmptyRing DEF InitPool
  <2>2. ASSUME NEW depositor \in Users, NEW account \in TokenAccounts, NEW key \in Keys,
               NEW amount \in DepositAmounts, NEW note \in DepositPayloads,
               Shield(depositor, account, key, amount, note)
        PROVE  Goal
    <3>1. amount \in Field /\ pool \in Config
      BY <2>2, PoolAssumption, FieldAssumption DEF Values, Field, Shield, TypeOK
    <3>2. Commitment(key, AssetId(pool.mint), amount) \in Commitments
      BY <3>1 DEF Commitment, Commitments, AssetId, Assets, Config
    <3> QED BY <2>2, <3>2, <1>1, InsertGrows DEF Shield
  <2>3. ASSUME NEW donor \in Users, NEW account \in TokenAccounts, NEW amount \in Donations,
               Donate(donor, account, amount)
        PROVE  Goal
    BY <2>3, <1>3 DEF Donate
  <2>4. ASSUME NEW root, NEW wit, NEW amount, NEW binding, Prove(root, wit, amount, binding)
        PROVE  Goal
    BY <2>4, <1>3 DEF Prove
  <2>5. ASSUME NEW proof \in proofs, NEW amount \in Amounts,
               NEW recipient \in Users \cup {PoolAddress}, NEW notes \in [Slots -> Payloads],
               NEW account \in TokenAccounts,
               Transact(proof, amount, recipient, notes, account)
        PROVE  Goal
    <3>1. proof \in Proof
      BY DEF TypeOK
    <3>2. /\ proof.public.commitments[1] \in Commitments
          /\ proof.public.commitments[2] \in Commitments
      BY <3>1, <1>1, OutputsInsertedType
    <3> DEFINE once == Insert(tree, proof.public.commitments[1])
    <3>3. once \in TreeType /\ RingIsRecent(once) /\ Grown(tree, once)
      BY <3>2, <1>1, InsertGrows
    <3>4. tree' = Insert(once, proof.public.commitments[2])
      BY <2>5 DEF Transact, OutputsInserted
    <3>5. nullifiers \subseteq nullifiers'
      BY <2>5 DEF Transact
    <3> HIDE DEF once
    <3>6. tree' \in TreeType /\ RingIsRecent(tree') /\ Grown(once, tree')
      BY <3>2, <3>3, <3>4, InsertGrows
    <3>7. Grown(tree, tree')
      BY <3>3, <3>6, <1>1, GrownTwice
    <3> QED BY <3>5, <3>6, <3>7
  <2> QED BY <1>5, <2>1, <2>2, <2>3, <2>4, <2>5, NextCases
<1> QED BY <1>4, <1>5

(* The ring holds the latest roots in every behaviour. *)
THEOREM RingCorrect == Spec => []RingIsRecent(tree)
<1>1. Init => RingIsRecent(tree)
  BY EmptyRing DEF Init
<1>2. TypeOK /\ RingIsRecent(tree) /\ [Next]_vars => RingIsRecent(tree)'
  BY RingNext
<1> QED BY <1>1, <1>2, TypeCorrect, PTL DEF Spec

(* A root is accepted exactly while fewer than RootWindow leaves followed it,
   by tree.rs and Light's ring of ROOTS_SIZE roots. *)
THEOREM RootsStayRecent == Spec => []RootsAreRecent
<1>1. TypeOK /\ RingIsRecent(tree) => RootsAreRecent
  BY WindowExact DEF TypeOK, TreeType, RootsAreRecent
<1> QED BY <1>1, RingCorrect, TypeCorrect, PTL

(* A root once out of the window, or a nullifier once recorded, stays so. *)
LEMMA DeadNext ==
    ASSUME TypeOK, TypeOK', RingIsRecent(tree), [Next]_vars, pool # NoPool,
           NEW proof \in proofs, Dead(proof)
    PROVE  Dead(proof)'
<1>1. /\ tree \in TreeType /\ tree' \in TreeType
      /\ Len(tree.leaves) \in Nat /\ Len(tree'.leaves) \in Nat /\ RootWindow \in Nat
  BY TreeAssumption DEF TypeOK, TreeType
<1>2. /\ RingIsRecent(tree') /\ nullifiers \subseteq nullifiers'
      /\ Len(tree.leaves) <= Len(tree'.leaves)
      /\ \A n \in 0 .. Len(tree.leaves) : RootAt(tree', n) = RootAt(tree, n)
  BY RingNext DEF Grown
<1>3. CASE ~FreshNullifiers(proof)
  BY <1>2, <1>3 DEF FreshNullifiers, Dead
<1>4. CASE \E n \in 0 .. Len(tree.leaves) : proof.public.root = RootAt(tree, n) /\ ~KnownRoot(proof)
  <2>1. PICK n \in 0 .. Len(tree.leaves) : proof.public.root = RootAt(tree, n) /\ ~KnownRoot(proof)
    BY <1>4
  <2>2. ~(Len(tree.leaves) - n < RootWindow)
    BY <2>1, <1>1, WindowExact DEF KnownRoot
  <2>3. n \in 0 .. Len(tree'.leaves) /\ proof.public.root = RootAt(tree', n)
    BY <2>1, <1>1, <1>2
  <2>4. ~(Len(tree'.leaves) - n < RootWindow)
    BY <2>2, <1>1, <1>2
  <2>5. ~ContainsRoot(tree', RootAt(tree', n))
    BY <2>3, <2>4, <1>1, <1>2, WindowExact
  <2>6. ~KnownRoot(proof)'
    BY <2>3, <2>5 DEF KnownRoot
  <2> QED BY <2>3, <2>6 DEF Dead
<1> QED BY <1>3, <1>4 DEF Dead

(* Once a proof is unusable nothing that happens later makes it usable: not an
   append, not a deposit, not another proof's success. *)
THEOREM DeadStaysDead == Spec => DeadForGood
<1> DEFINE Stay == pool # NoPool => \A proof \in proofs : Dead(proof) => Dead(proof)'
<1>1. TypeOK /\ TypeOK' /\ RingIsRecent(tree) /\ [Next]_vars => [Stay]_vars
  BY DeadNext
<1> QED BY <1>1, TypeCorrect, RingCorrect, PTL DEF Spec, DeadForGood

=============================================================================
