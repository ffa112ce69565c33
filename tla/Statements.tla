----------------------------- MODULE Statements -----------------------------
(***************************************************************************)
(* One statement of a wallet about the tree under a root, whatever notes,  *)
(* padding and amount its plan names, and what SDK and circuit say of it.  *)
(***************************************************************************)
EXTENDS JoinSplit

VARIABLES
    planned,       \* the private inputs its plan names
    plannedRoot,   \* the leaves of the tree
    plannedAmount  \* the public amount, negative for a withdrawal

(* What the types of circuit and SDK allow. *)
AnyStatement == planned \in Witness /\ plannedAmount \in Amounts

Statement == PublicInputs(plannedRoot, planned, PublicAmountField(plannedAmount), "hash")

(* What Rust's types already say of a plan: every value is a u64. *)
TypedAsU64 ==
    \A s \in Slots : planned.inputs[s].value \in Values /\ planned.outputs[s].value \in Values

(* transaction.rs checks in integers what main.nr checks in the field: a plan
   the SDK accepts is always provable, and one it refuses is never provable
   with the same keys, paths and amount. *)
SdkAgreesWithCircuit ==
    TypedAsU64 => (SdkAccepts(plannedRoot, planned, plannedAmount) <=> Circuit(Statement, planned))

(* The circuit's field equation never wraps: whatever satisfies it conserves
   value in the integers, for every i64 amount and any private values. *)
CircuitConserves ==
    Circuit(Statement, planned) => InputTotal(planned) + plannedAmount = OutputTotal(planned)

(* The value a satisfied statement takes in is that of the leaves it names,
   each counted once: what makes a second use of a leaf in the other slot fail
   is that both show the same nullifier. *)
CircuitConsumesLeaves ==
    LET Real(s) == planned.inputs[s].value # 0
        Leaf(s) == plannedRoot[planned.inputs[s].index + 1]
    IN  Circuit(Statement, planned) =>
            /\ \E s \in Slots : Real(s)
            /\ \A s \in Slots : Real(s) => /\ planned.inputs[s].index < Len(plannedRoot)
                                          /\ planned.inputs[s].value = Leaf(s).value
            /\ Real(1) /\ Real(2) => planned.inputs[1].index # planned.inputs[2].index

=============================================================================
