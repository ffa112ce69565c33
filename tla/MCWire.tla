------------------------------- MODULE MCWire -------------------------------
(* Two-digit words in base 4 over a field of 11: five elements can be written
   twice.  Three pools: a second program, and the first program again on a
   cluster that differs in its domain only. *)
EXTENDS Wire

CONSTANTS main, other, twin, alice, bob, prog1, prog2, verifier, mint, dom1, dom2

MCConfig ==
    [d \in Deployments |->
        [program  |-> IF d = other THEN prog2 ELSE prog1,
         verifier |-> verifier, mint |-> mint,
         domain   |-> IF d = twin THEN dom2 ELSE dom1]]

MCAmounts == {-3, -2, -1, 0, 1}

Plan(d, nullifiers, amount, recipient, notes) ==
    [deployment |-> d, root |-> 3, nullifiers |-> nullifiers, commitments |-> <<5, 10>>,
     amount |-> amount, recipient |-> recipient, notes |-> notes]

(* Rivals for element 2; a transfer and withdrawals;
   empty payloads and one that is too long. *)
MCPlans ==
    {Plan(d, <<1, 2>>, 0, PoolAddress(MCConfig[d]), << <<1, 0>>, <<3>> >>) : d \in Deployments}
    \cup {Plan(d, <<2, 9>>, -2, alice, << <<>>, <<1, 1>> >>) : d \in {main, twin}}
    \cup {Plan(main, <<4, 3>>, -3, bob, << <<2>>, <<>> >>),
          Plan(main, <<6, 7>>, -1, bob, << <<2, 1, 0>>, <<>> >>)}

=============================================================================
