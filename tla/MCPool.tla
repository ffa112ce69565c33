------------------------------- MODULE MCPool -------------------------------
(* Small instances of Pool for TLC. *)
EXTENDS Pool, TLC

CONSTANTS alice, bob, carol, spare,      \* wallets and spare viewing keys
          vault, aliceAcc, bobAcc,       \* token accounts
          pda, none,
          mint, otherMint, domain, otherDomain, verifier,
          key, blind, note, otherNote, bigNote

Deployment(dom) == [verifier |-> verifier, mint |-> mint, domain |-> dom]
OneDeployment == {Deployment(domain)}

(* Note keys of the viewing keys in "views". *)
KeysOf(views) == {NoteKey(Owner(key, v), blind) : v \in views}

In(view, value, index) ==
    [spend |-> key, view |-> view, random |-> blind, value |-> value, index |-> index]

Out(view, value) == [key |-> NoteKey(Owner(key, view), blind), value |-> value]

(* Every witness from these pairs of inputs and of outputs, in one asset. *)
WitnessesOf(asset, inputs, outputs) ==
    {[asset |-> asset, inputs |-> i, outputs |-> o] : i \in inputs, o \in outputs}

Bind(dom, recipient, amount, notes) ==
    [verifier |-> verifier, mint |-> mint, domain |-> dom,
     recipient |-> recipient, amount |-> amount, notes |-> notes]

-----------------------------------------------------------------------------
(* Values: one holder, notes up to 3 in a field of 11 elements, five leaves:
   room for a deposit and two transactions, so for a note and its successors. *)

ValueKeys    == KeysOf({alice})
ValueOwner   == (vault :> pda) @@ (aliceAcc :> alice)
ValueGenesis == (vault :> 0) @@ (aliceAcc :> 3)

ValuePaddings == {In(spare, 0, 0), In(spare, 0, 1), In(alice, 0, 0)}

(* One note and padding, or two notes at once; values above 3 are in no leaf. *)
ValueInputs ==
    {<<In(alice, v, i), p>> : v \in {2, 3}, i \in {0, 1}, p \in ValuePaddings}
    \cup {<<In(alice, v, i), In(alice, w, j)>> : v \in {1, 4}, w \in {1, 2}, i \in {1, 2}, j \in {0, 2}}
    \cup {<<In(spare, 0, 0), In(alice, 0, 0)>>}

(* 10 + 2 is 1 in the field: value out of nothing, were outputs not ranged. *)
ValueOutputs ==
    {<<Out(alice, v), Out(alice, w)>> :
        <<v, w>> \in {<<0, 0>>, <<1, 0>>, <<1, 1>>, <<3, 0>>, <<10, 2>>}}

ValueWitnesses ==
    WitnessesOf(AssetId(mint), ValueInputs, ValueOutputs)
    \cup WitnessesOf(AssetId(otherMint), {<<p, q>> : p, q \in ValuePaddings}, {<<Out(alice, 0), Out(alice, 0)>>})

ValueBindings == {Bind(domain, alice, a, <<note, note>>) : a \in {-2, -1, 0, 1}}

(* The root of somebody's own tree, holding a note of 3. *)
ValueForgedRoots == {<<Commitment(NoteKey(Owner(key, alice), blind), AssetId(mint), 3)>>}


-----------------------------------------------------------------------------
(* Races: notes of value 1, eight leaves and a window of three roots, so that
   deposits and rival transactions overtake proofs already made.  Amounts
   proved and amounts bound need not agree. *)

RaceOwner   == (vault :> pda) @@ (aliceAcc :> alice) @@ (bobAcc :> bob)
RaceGenesis == (vault :> 0) @@ (aliceAcc :> 4) @@ (bobAcc :> 0)

(* Proofs that share a note, a padding nullifier, or nothing. *)
RaceInputs ==
    {<<In(alice, 1, i), In(spare, 0, 0)>> : i \in 0 .. 1}
    \cup {<<In(alice, 1, 0), In(alice, 1, 1)>>, <<In(spare, 0, 1), In(alice, 1, 1)>>}

RaceWitnesses ==
    WitnessesOf(AssetId(mint), RaceInputs,
                {<<Out(alice, 1), Out(alice, 0)>>, <<Out(alice, 1), Out(alice, 1)>>})

(* For a transfer, for a withdrawal, and for one from another pool with a note
   that is too long. *)
RaceBindings ==
    {Bind(domain, alice, 0, <<note, note>>), Bind(domain, bob, -1, <<note, otherNote>>),
     Bind(otherDomain, alice, -1, <<note, bigNote>>)}

=============================================================================
