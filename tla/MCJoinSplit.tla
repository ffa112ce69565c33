----------------------------- MODULE MCJoinSplit -----------------------------
(***************************************************************************)
(* Every statement over a small field and a two-leaf tree, one per initial *)
(* state, to compare what the circuit proves with what the SDK accepts.    *)
(***************************************************************************)
EXTENDS Statements

CONSTANTS spendKey, otherSpendKey, viewKey, otherViewKey, blind, mint

NoteOf(spend, value) ==
    Commitment(NoteKey(Owner(spend, viewKey), blind), AssetId(mint), value)

(* Two notes of one viewing key, of different spending keys and values. *)
TwoNotes == <<NoteOf(spendKey, 1), NoteOf(otherSpendKey, MaxValue)>>

Leaf(spend, view, value, index) ==
    [spend |-> spend, view |-> view, random |-> blind, value |-> value, index |-> index]

(* Notes of the tree and of no tree, padding at free, taken and impossible
   indices, and values beyond 64 bits. *)
Inputs ==
    {Leaf(spendKey, viewKey, v, i) : v \in {0, 1, MaxValue, MaxValue + 1}, i \in {0, 1}}
    \cup {Leaf(otherSpendKey, viewKey, v, i) : v \in {0, MaxValue}, i \in {0, 1}}
    \cup {Leaf(spendKey, otherViewKey, 0, i) : i \in {0, Capacity}}

OutputKeys == {NoteKey(Owner(spendKey, viewKey), blind)}

Outputs == [key : OutputKeys, value : Field]

vars == <<planned, plannedRoot, plannedAmount>>

Init ==
    /\ \E in1, in2 \in Inputs, out1, out2 \in Outputs :
          planned = [asset   |-> AssetId(mint),
                     inputs  |-> <<in1, in2>>,
                     outputs |-> <<out1, out2>>]
    /\ plannedRoot = TwoNotes
    /\ plannedAmount \in Amounts
    /\ AnyStatement

Next == UNCHANGED vars

Spec == Init /\ [][Next]_vars

=============================================================================
