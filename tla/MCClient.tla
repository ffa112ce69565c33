------------------------------ MODULE MCClient ------------------------------
(* Small instances of Client for TLC. *)
EXTENDS Client

CONSTANTS alice, vault, aliceAcc, pda, none, mint, domain, verifier,
          key, blind, dOut, d1, d2, d3, deposit, note, otherNote, noise, bigNote

(* Fresh random keys differ in nothing. *)
Symmetry == Permutations({d1, d2, d3})

KeyOf(view) == NoteKey(Owner(key, view), blind)

ClientKeys    == {KeyOf(alice), KeyOf(dOut)}
ClientOwner   == (vault :> pda) @@ (aliceAcc :> alice)
ClientGenesis == (vault :> 0) @@ (aliceAcc :> 3)
ClientAta     == (alice :> aliceAcc)
Deployment    == {[verifier |-> verifier, mint |-> mint, domain |-> domain]}

(* Notes of alice as she remembers them, some of them wrongly. *)
Remembered ==
    {[spend |-> key, view |-> alice, random |-> blind, value |-> v, index |-> i] :
        <<v, i>> \in {<<1, 0>>, <<2, 0>>, <<1, 1>>, <<2, 2>>}}

Padding     == [spend |-> key, view |-> dOut, random |-> blind, value |-> 0, index |-> 0]
PaddingSend == [key |-> KeyOf(dOut), value |-> 0, encrypted |-> noise]

SendOf(value, payload) == [key |-> KeyOf(alice), value |-> value, encrypted |-> payload]

ClientSends ==
    {<< >>, <<SendOf(1, note)>>, <<SendOf(1, bigNote)>>,
     <<SendOf(1, note), SendOf(2, otherNote)>>}

=============================================================================
