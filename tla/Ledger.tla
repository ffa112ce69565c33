------------------------------- MODULE Ledger -------------------------------
(***************************************************************************)
(* What the shielded pool promises, with no trees, proofs or nullifiers: a *)
(* list of notes, each spendable once, over a vault of tokens.  A deposit  *)
(* adds a note and the tokens that back it; a spend consumes one or two    *)
(* unspent notes and turns exactly their value into two new notes and a    *)
(* payment out of the vault.  Anyone may add tokens.                       *)
(***************************************************************************)
EXTENDS Integers, Sequences

CONSTANTS NoteKeys, NoteValues

VARIABLES notes, vault

Note == [key : NoteKeys, value : NoteValues, spent : BOOLEAN]

Init ==
    /\ notes = << >>
    /\ vault = 0

New(key, value) == [key |-> key, value |-> value, spent |-> FALSE]

Deposit(key, value) ==
    /\ value > 0
    /\ notes' = Append(notes, New(key, value))
    /\ vault' = vault + value

Donation ==
    /\ vault' > vault
    /\ UNCHANGED notes

Spendable(k) == ~notes[k].spent /\ notes[k].value > 0

(* j = k is a spend of a single note. *)
Total(j, k) == IF j = k THEN notes[k].value ELSE notes[j].value + notes[k].value

Marked(j, k) ==
    [i \in DOMAIN notes |-> [notes[i] EXCEPT !.spent = @ \/ i \in {j, k}]]

Spend(j, k, key1, value1, key2, value2) ==
    /\ Spendable(j) /\ Spendable(k)
    /\ value1 + value2 <= Total(j, k)
    /\ vault' = vault - (Total(j, k) - value1 - value2)
    /\ notes' = Marked(j, k) \o <<New(key1, value1), New(key2, value2)>>

Next ==
    \/ \E key \in NoteKeys, value \in NoteValues : Deposit(key, value)
    \/ Donation
    \/ \E j, k \in DOMAIN notes, key1, key2 \in NoteKeys, value1, value2 \in NoteValues :
          Spend(j, k, key1, value1, key2, value2)

Spec == Init /\ [][Next]_<<notes, vault>>

=============================================================================
