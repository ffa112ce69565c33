------------------------------- MODULE Client -------------------------------
(***************************************************************************)
(* Wallets that use the SDK against the pool: Veil::transfer and           *)
(* Veil::withdraw from a Transaction to a Prepared instruction, and the    *)
(* submission of prepared instructions, by anyone, late, in any order and  *)
(* any number of times.                                                    *)
(*                                                                         *)
(* A Merkle path is the leaf sequence it was read from; the root computed  *)
(* from a path is that of the sequence with the leaf put at its index,     *)
(* whether or not that leaf was the one there.  What the SDK draws from    *)
(* its random generator and nobody has drawn before is a member of         *)
(* DummyViews that no proof has used.                                      *)
(***************************************************************************)
EXTENDS Pool, SequencesExt

CONSTANTS
    Ata,            \* the associated token account of each user
    WalletInputs,   \* notes and owners wallets give as spends
    PathLags,       \* how many leaves old their Merkle paths may be
    SendLists,      \* the sends of a transaction
    Withdrawals,    \* amounts withdrawn
    DummyViews, DummyInput, DummyIndices, DummySend,  \* what padding is drawn from
    MaxPrepared     \* instructions prepared in one behaviour

VARIABLE prepared   \* instructions: [proof, amount, recipient, notes, account, sends]

clientVars == <<vars, prepared>>

Spend == [input : Input, asset : Assets, path : Roots]
Send  == [key : Keys, value : Values \ {0}, encrypted : Payloads]

NoteKeyOf(in) == NoteKey(Owner(in.spend, in.view), in.random)

(***************************************************************************)
(* A wallet gives notes that carry keys of its own; padding is worth       *)
(* nothing; and a viewing secret drawn for padding belongs to no note key  *)
(* anybody uses, in this pool or another.                                  *)
(***************************************************************************)
ASSUME ClientAssumption ==
    /\ Ata \in [Users -> TokenAccounts]
    /\ \A user \in Users : AccountOwner[Ata[user]] = user
    /\ WalletInputs \subseteq Input
    /\ \A in \in WalletInputs : NoteKeyOf(in) \in Keys
    /\ PathLags \subseteq Nat
    /\ SendLists \subseteq Seq(Send)
    /\ Withdrawals \subseteq 1 .. MaxAmount - 1
    /\ DummyViews \subseteq ViewKeys /\ DummyIndices \subseteq Indices
    /\ DummyInput \in Input /\ DummyInput.value = 0
    /\ \A view \in DummyViews, spend \in SpendKeys, random \in Blindings :
          NoteKey(Owner(spend, view), random) \notin Keys
    /\ DummySend \in [key : Keys, value : {0}, encrypted : Payloads]

ClientInit == Init /\ prepared = {}

-----------------------------------------------------------------------------
(* Transaction::new *)
ValidArity(spends, sends) ==
    /\ Len(spends) \in 1 .. 2 /\ Len(sends) \in 0 .. 2
    /\ \A k \in DOMAIN spends : spends[k].input.value # 0

(* Seeded fault: padding is owned by the owner of the first note. *)
DummySpendsOfOwner(spends) ==
    {[input |-> [spends[1].input EXCEPT !.value = 0, !.index = i],
      asset |-> AssetId(pool.mint), path |-> << >>] : i \in DummyIndices}

FreshViews == {v \in DummyViews : \A proof \in proofs, s \in Slots :
                                     proof.public.nullifiers[s].view # v}

DummySpend(view, index) ==
    [input |-> [DummyInput EXCEPT !.view = view, !.index = index],
     asset |-> AssetId(pool.mint), path |-> << >>]

(* A zero-valued note of an owner nobody else has, at any index. *)
DummySpends(spends) == {DummySpend(view, i) : view \in FreshViews, i \in DummyIndices}

Padded(list, dummy) == SubSeq(list \o <<dummy, dummy>>, 1, 2)

Shuffles(pair) == {pair, <<pair[2], pair[1]>>}

(* Transaction::plan *)
Plans(spends, sends) ==
    {[spends |-> ins, sends |-> outs] :
        ins  \in UNION {Shuffles(Padded(spends, dummy)) : dummy \in DummySpends(spends)},
        outs \in Shuffles(Padded(sends, DummySend))}

(* note::merkle_root *)
MerkleRoot(spend) ==
    [spend.path EXCEPT ![spend.input.index + 1] = InputCommitment(spend.asset, spend.input)]

SharedRoots(plan) ==
    {MerkleRoot(plan.spends[s]) : s \in {t \in Slots : plan.spends[t].input.value # 0}}

(* witness::input_map *)
WitnessOf(plan) ==
    [asset   |-> AssetId(pool.mint),
     inputs  |-> [s \in Slots |-> plan.spends[s].input],
     outputs |-> [s \in Slots |-> [key |-> plan.sends[s].key, value |-> plan.sends[s].value]]]

(* Witness::build: the plan's own checks, then the circuit is executed. *)
BuildsWitness(public, wit, amount) ==
    SdkAccepts(public.root, wit, amount) /\ Circuit(public, wit)

(* Seeded fault: payloads are not shuffled along with their notes. *)
EncryptedCrossed(plan) == [s \in Slots |-> plan.sends[3 - s].encrypted]

Encrypted(plan) == [s \in Slots |-> plan.sends[s].encrypted]

(* binding::external, with the configuration the SDK was given for this pool *)
External(amount, recipient, notes) ==
    [verifier |-> pool.verifier, mint |-> pool.mint, domain |-> pool.domain,
     recipient |-> recipient, amount |-> amount, notes |-> notes]

(* solana::instruction::transact *)
RecipientAta(amount, recipient) == IF amount < 0 THEN Ata[recipient] ELSE Vault

Instruction(proof, amount, recipient, notes, sends) ==
    [proof |-> proof, amount |-> amount, recipient |-> recipient, notes |-> notes,
     account |-> RecipientAta(amount, recipient), sends |-> sends]

(* Veil::prepare: plan, external data and its hash, the SDK's own checks, a  *)
(* proof of the statement, the instruction.                                 *)
Prepare(spends, sends, recipient, amount) ==
    /\ pool # NoPool
    /\ Cardinality(prepared) < MaxPrepared
    /\ ValidArity(spends, sends)
    /\ \A k \in DOMAIN spends : spends[k].asset = AssetId(pool.mint)
    /\ \E plan \in Plans(spends, sends) :
          LET notes == Encrypted(plan)
              wit   == WitnessOf(plan)
          IN
          /\ \A s \in Slots : notes[s] \notin OversizedPayloads
          /\ \E root \in SharedRoots(plan) :
                LET public == PublicInputs(root, wit, PublicAmountField(amount),
                                           External(amount, recipient, notes))
                    proof  == [public |-> public, witness |-> wit]
                IN
                /\ SharedRoots(plan) = {root}
                /\ BuildsWitness(public, wit, amount)
                /\ proofs' = proofs \cup {proof}
                /\ prepared' = prepared \cup
                      {Instruction(proof, amount, recipient, notes, ToSet(sends))}
    /\ UNCHANGED <<pool, tree, nullifiers, balances, events, redeemed>>

Transfer(spends, sends) == Prepare(spends, sends, PoolAddress, 0)

(* Seeded fault: a withdrawal is bound without its sign. *)
UnsignedAmount(withdrawal) == withdrawal

PublicAmount(withdrawal) == -withdrawal

Withdraw(spends, sends, recipient, withdrawal) ==
    /\ recipient # PoolAddress
    /\ Prepare(spends, sends, recipient, PublicAmount(withdrawal))

Submit(instruction) ==
    /\ Transact(instruction.proof, instruction.amount, instruction.recipient,
                instruction.notes, instruction.account)
    /\ UNCHANGED prepared

-----------------------------------------------------------------------------
(* A wallet's spends, each with a path read from a recent tree. *)
Spends ==
    {spend \in {[input |-> in, asset |-> AssetId(pool.mint),
                 path |-> RootAt(tree, Len(tree.leaves) - lag)] :
                   in \in WalletInputs, lag \in {l \in PathLags : l <= Len(tree.leaves)}} :
        spend.input.index < Len(spend.path)}

SpendLists == {<<a>> : a \in Spends} \cup {<<a, b>> : a, b \in Spends}

DoTransfer ==
    pool # NoPool /\ \E spends \in SpendLists, sends \in SendLists : Transfer(spends, sends)

DoWithdraw ==
    pool # NoPool /\ \E spends \in SpendLists, sends \in SendLists, recipient \in Users,
                        withdrawal \in Withdrawals :
                        Withdraw(spends, sends, recipient, withdrawal)

DoSubmit == \E instruction \in prepared : Submit(instruction)

ClientNext ==
    \/ DoInitPool /\ UNCHANGED prepared
    \/ DoShield /\ UNCHANGED prepared
    \/ DoTransfer
    \/ DoWithdraw
    \/ DoSubmit

ClientSpec == ClientInit /\ [][ClientNext]_clientVars

-----------------------------------------------------------------------------
(* An instruction the SDK prepared is refused for one of three reasons only:
   its root left the window, one of its nullifiers was recorded, or the tree is
   full.  In particular the vault always covers it, and what the SDK bound is
   what the program recomputes. *)
PreparedSucceeds ==
    \A i \in prepared :
        KnownRoot(i.proof) /\ FreshNullifiers(i.proof) /\ RoomForOutputs(i.proof)
            => Accepts(i.proof, i.amount, i.recipient, i.notes, i.account)

(* "A Send keeps the note opening and its encrypted payload together, so
   shuffling cannot separate a commitment from its ciphertext": in the log,
   every note of value goes with the payload that was made for it. *)
PayloadsFollowNotes ==
    \A k \in DOMAIN events :
        LET e == events[k] IN
        e.event = "NewCommitment" =>
            \/ e.commitment.value = 0
            \/ e.note \in DepositPayloads
            \/ \E i \in prepared : \E send \in i.sends :
                  e.commitment = OutputCommitment(AssetId(pool.mint), send) /\ e.note = send.encrypted

(* Among SDK users a note is marked spent only by being spent: padding never
   takes a nullifier that a leaf will need. *)
NothingBurned ==
    \A k \in DOMAIN tree.leaves : NoteSpent(k) => redeemed[k - 1] = 1

(* "Public Transaction values contain one or two Spend values and one or two
   Send values": every prepared instruction was made for at least one send. *)
AlwaysASend == \A i \in prepared : i.sends # {}

=============================================================================
