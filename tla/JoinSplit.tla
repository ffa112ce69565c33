------------------------------ MODULE JoinSplit ------------------------------
(***************************************************************************)
(* Notes, nullifiers and the 2-in / 2-out JoinSplit statement of veil402.  *)
(*                                                                         *)
(* Poseidon and Keccak are injective constructors here: the hash of a list *)
(* of values is the record of those values, so two hashes are equal only   *)
(* when everything hashed is equal.  A Merkle root is the sequence of the  *)
(* leaves it commits to.  Field elements that enter arithmetic are the     *)
(* canonical representatives 0 .. Modulus - 1.                             *)
(***************************************************************************)
EXTENDS Integers, Sequences

CONSTANTS
    Modulus,    \* order of the BN254 scalar field
    MaxValue,   \* u64::MAX, the largest note value
    MaxAmount,  \* 2^63: i64 amounts are -MaxAmount .. MaxAmount - 1
    Capacity,   \* 2^TREE_DEPTH, the number of leaves of the tree
    SpendKeys,  \* spending secrets
    ViewKeys,   \* viewing secrets
    Blindings,  \* per-note blinding values
    Keys,       \* note public keys an output or a deposit may carry
    Mints       \* SPL mints

(***************************************************************************)
(* 3 * MaxValue is what the largest two-note sum and the largest magnitude *)
(* of an i64 come to; BN254 is larger by some 190 bits.                    *)
(***************************************************************************)
ASSUME FieldAssumption ==
    /\ Modulus \in Nat /\ MaxValue \in Nat /\ MaxAmount \in Nat /\ Capacity \in Nat
    /\ 0 < MaxAmount /\ MaxAmount <= MaxValue
    /\ 3 * MaxValue < Modulus
    /\ Capacity <= Modulus

Slots   == {1, 2}
Field   == 0 .. (Modulus - 1)
Values  == 0 .. MaxValue
Amounts == (-MaxAmount) .. (MaxAmount - 1)
Indices == 0 .. (Capacity - 1)

-----------------------------------------------------------------------------
(* Hashes, as the records of what they hash. *)

AssetId(mint) == [mint |-> mint]

Owner(spend, view) == [spend |-> spend, view |-> view]

NoteKey(owner, random) == [owner |-> owner, random |-> random]

Commitment(key, asset, value) == [key |-> key, asset |-> asset, value |-> value]

Nullifier(view, index) == [view |-> view, index |-> index]

Assets      == [mint : Mints]
Commitments == [key : Keys, asset : Assets, value : Field]
Nullifiers  == [view : ViewKeys, index : Field]
Roots       == Seq(Commitments)

-----------------------------------------------------------------------------
(* The private and the public inputs of the circuit. *)

Input   == [spend : SpendKeys, view : ViewKeys, random : Blindings, value : Field, index : Field]
Output  == [key : Keys, value : Field]
Witness == [asset : Assets, inputs : [Slots -> Input], outputs : [Slots -> Output]]

InputCommitment(asset, in) ==
    Commitment(NoteKey(Owner(in.spend, in.view), in.random), asset, in.value)

OutputCommitment(asset, out) == Commitment(out.key, asset, out.value)

PublicInputs(root, wit, amount, hash) ==
    [root        |-> root,
     nullifiers  |-> [s \in Slots |-> Nullifier(wit.inputs[s].view, wit.inputs[s].index)],
     commitments |-> [s \in Slots |-> OutputCommitment(wit.asset, wit.outputs[s])],
     amount      |-> amount,
     hash        |-> hash]

-----------------------------------------------------------------------------
(* Field arithmetic, on canonical representatives. *)

(* Seeded fault: a sum is never brought back below the modulus. *)
FieldAddUnreduced(a, b) == a + b

FieldAdd(a, b) == IF a + b < Modulus THEN a + b ELSE a + b - Modulus

(* Seeded fault: a withdrawal is encoded without wrapping into the field. *)
PublicAmountRaw(amount) == amount

PublicAmountField(amount) == IF amount >= 0 THEN amount ELSE Modulus + amount

(***************************************************************************)
(* A path from a leaf to a root exists exactly when the root commits to    *)
(* that leaf at that index.                                                *)
(***************************************************************************)
IsMember(root, index, commitment) ==
    /\ index < Len(root)
    /\ root[index + 1] = commitment

(* Seeded fault: the path is not compared with the public root. *)
InputHoldsAnywhere(pub, wit, s) ==
    LET in == wit.inputs[s] IN
    /\ in.value <= MaxValue
    /\ in.index < Capacity
    /\ pub.nullifiers[s] = Nullifier(in.view, in.index)

InputHolds(pub, wit, s) ==
    LET in == wit.inputs[s] IN
    /\ in.value <= MaxValue
    /\ in.index < Capacity
    /\ in.value # 0 => IsMember(pub.root, in.index, InputCommitment(wit.asset, in))
    /\ pub.nullifiers[s] = Nullifier(in.view, in.index)

(* Seeded fault: outputs are not range-checked. *)
OutputHoldsUnranged(pub, wit, s) ==
    pub.commitments[s] = OutputCommitment(wit.asset, wit.outputs[s])

OutputHolds(pub, wit, s) ==
    /\ wit.outputs[s].value <= MaxValue
    /\ pub.commitments[s] = OutputCommitment(wit.asset, wit.outputs[s])

SumIn(wit)  == FieldAdd(wit.inputs[1].value, wit.inputs[2].value)
SumOut(wit) == FieldAdd(wit.outputs[1].value, wit.outputs[2].value)

Circuit(pub, wit) ==
    /\ \A s \in Slots : InputHolds(pub, wit, s)
    /\ SumIn(wit) # 0
    /\ pub.nullifiers[1] # pub.nullifiers[2]
    /\ \A s \in Slots : OutputHolds(pub, wit, s)
    /\ FieldAdd(SumIn(wit), pub.amount) = SumOut(wit)

-----------------------------------------------------------------------------
(* What the SDK accepts before it asks for a proof, in integers (i128). *)

InputTotal(wit)  == wit.inputs[1].value + wit.inputs[2].value
OutputTotal(wit) == wit.outputs[1].value + wit.outputs[2].value

SdkAccepts(root, wit, amount) ==
    /\ \A s \in Slots :
          LET in == wit.inputs[s] IN
          /\ in.index < Capacity
          /\ in.value # 0 => IsMember(root, in.index, InputCommitment(wit.asset, in))
    /\ Nullifier(wit.inputs[1].view, wit.inputs[1].index)
          # Nullifier(wit.inputs[2].view, wit.inputs[2].index)
    /\ InputTotal(wit) + amount = OutputTotal(wit)
    /\ \E s \in Slots : wit.inputs[s].value # 0

=============================================================================
