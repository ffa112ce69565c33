----------------------------- MODULE MCArtifacts -----------------------------
(* The first release, the same circuit with other keys under an ID of its own,
   and another circuit under the first ID. *)
EXTENDS Artifacts

CONSTANTS r1, r2, r3, joinSplit, joinSplitNext, v1, v2

MCCircuit == [r \in Releases |-> IF r = r3 THEN joinSplitNext ELSE joinSplit]

MCId == [r \in Releases |-> IF r = r2 THEN v2 ELSE v1]

=============================================================================
