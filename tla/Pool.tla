-------------------------------- MODULE Pool --------------------------------
(***************************************************************************)
(* The pool program: one pool, its tree, its vault and its nullifier       *)
(* records, and the proofs clients hold against it.                        *)
(*                                                                         *)
(* A Solana transaction runs alone and is rolled back when it fails, so an *)
(* instruction is one action whose guard is every check the handler and    *)
(* its account constraints make.  Proving is separate from submitting: a   *)
(* proof made against a root stays in "proofs" for good, and may be        *)
(* submitted late, twice, never, after another proof of the same note, or  *)
(* with other arguments and accounts than its maker intended.              *)
(***************************************************************************)
EXTENDS JoinSplit, Tree, FiniteSets, Functions

CONSTANTS
    Users,             \* wallets that sign transactions
    TokenAccounts,     \* SPL token accounts of the pool's mint
    AccountOwner,      \* the wallet (or PoolAddress) that owns each of them
    Vault,             \* the pool's associated token account
    PoolAddress,       \* the pool PDA
    NoPool,            \* the pool account before InitPool
    UpgradeAuthority,  \* who may run InitPool
    Deployments,       \* configurations the authority may deploy
    Genesis,           \* token balances before the pool exists
    Payloads,          \* encrypted notes
    OversizedPayloads, \* those over MAX_ENCRYPTED_NOTE_LEN
    Domains, Verifiers

(* What the environment may try, and how often. *)
CONSTANTS
    DepositAmounts,    \* amounts given to shield
    DepositPayloads,   \* encrypted notes given to shield
    Donations,         \* amounts sent to the vault outside shield
    Witnesses,         \* private inputs clients prove with
    Bindings,          \* external data clients bind their proofs to
    LooseAmounts,      \* public amounts proved besides the one the hash binds
    ForgedRoots,       \* roots of trees other than the pool's
    MaxProofs          \* proofs made in one behaviour

Config  == [verifier : Verifiers, mint : Mints, domain : Domains]

(* The external-data hash, as the record of what is hashed. *)
Binding == [verifier : Verifiers, mint : Mints, domain : Domains,
            recipient : Users \cup {PoolAddress}, amount : Amounts,
            notes : [Slots -> Payloads]]

ASSUME PoolAssumption ==
    /\ AccountOwner \in [TokenAccounts -> Users \cup {PoolAddress}]
    /\ Vault \in TokenAccounts /\ AccountOwner[Vault] = PoolAddress
    /\ PoolAddress \notin Users
    /\ NoPool \notin Config
    /\ Deployments \subseteq Config
    /\ Genesis \in [TokenAccounts -> Nat] /\ Genesis[Vault] = 0
    /\ DepositAmounts \subseteq Values
    /\ DepositPayloads \subseteq Payloads /\ OversizedPayloads \subseteq Payloads
    /\ Donations \subseteq Nat \ {0}
    /\ Witnesses \subseteq Witness
    /\ Bindings \subseteq Binding
    /\ LooseAmounts \subseteq Field
    /\ ForgedRoots \subseteq Roots
    /\ MaxProofs \in Nat
    /\ TreeCapacity <= Capacity

VARIABLES
    pool,        \* the Pool account: NoPool or its configuration
    tree,        \* the tree account
    nullifiers,  \* the nullifiers that have a record account
    balances,    \* the token balance of each account
    proofs,      \* proofs made so far: [public, witness], the witness being a ghost
    events,      \* the program's log of NewCommitment and NewNullifier events
    redeemed     \* ghost: how often the note at each leaf index has been an input

vars == <<pool, tree, nullifiers, balances, proofs, events, redeemed>>

NewCommitment(commitment, index, note) ==
    [event |-> "NewCommitment", commitment |-> commitment, index |-> index, note |-> note]

NewNullifier(nullifier) == [event |-> "NewNullifier", nullifier |-> nullifier]

Init ==
    /\ pool = NoPool
    /\ tree = EmptyTree
    /\ nullifiers = {}
    /\ balances = Genesis
    /\ proofs = {}
    /\ events = << >>
    /\ redeemed = [i \in Indices |-> 0]

-----------------------------------------------------------------------------
(* SPL transfer_checked between accounts of the pool's mint. *)

CanTransfer(from, amount) == balances[from] >= amount

Transferred(from, to, amount) ==
    [balances EXCEPT ![from] = @ - amount, ![to] = @ + amount]

-----------------------------------------------------------------------------
(* Seeded fault: the pool account may be initialised again. *)
InitPoolAgain(signer, config) ==
    /\ signer = UpgradeAuthority
    /\ pool' = config
    /\ tree' = EmptyTree
    /\ UNCHANGED <<nullifiers, balances, proofs, events, redeemed>>

(* The pool PDA is a singleton created by the program's upgrade authority. *)
InitPool(signer, config) ==
    /\ pool = NoPool
    /\ signer = UpgradeAuthority
    /\ pool' = config
    /\ tree' = EmptyTree
    /\ UNCHANGED <<nullifiers, balances, proofs, events, redeemed>>

(* A public deposit: tokens into the vault, a note of that value appended. *)
Shield(depositor, account, key, amount, note) ==
    LET commitment == Commitment(key, AssetId(pool.mint), amount) IN
    /\ pool # NoPool
    /\ AccountOwner[account] = depositor
    /\ amount > 0
    /\ note \notin OversizedPayloads
    /\ CanTransfer(account, amount)
    /\ CanInsert(tree)
    /\ balances' = Transferred(account, Vault, amount)
    /\ tree' = Insert(tree, commitment)
    /\ events' = Append(events, NewCommitment(commitment, NextIndex(tree), note))
    /\ UNCHANGED <<pool, nullifiers, proofs, redeemed>>

(* Tokens sent to the vault without going through the program. *)
Donate(donor, account, amount) ==
    /\ pool # NoPool
    /\ AccountOwner[account] = donor
    /\ CanTransfer(account, amount)
    /\ balances' = Transferred(account, Vault, amount)
    /\ UNCHANGED <<pool, tree, nullifiers, proofs, events, redeemed>>

(* Any root the pool's tree has had, or the root of a tree made off-chain. *)
ProvableRoots == {RootAt(tree, n) : n \in 0 .. Len(tree.leaves)} \cup ForgedRoots

(***************************************************************************)
(* A client proves a statement.  The field element proved as the public    *)
(* amount and the amount bound into the hash are the prover's choice: the  *)
(* circuit ties neither to the other.                                      *)
(***************************************************************************)
Prove(root, wit, amount, binding) ==
    LET public == PublicInputs(root, wit, amount, binding) IN
    /\ Cardinality(proofs) < MaxProofs
    /\ Circuit(public, wit)
    /\ proofs' = proofs \cup {[public |-> public, witness |-> wit]}
    /\ UNCHANGED <<pool, tree, nullifiers, balances, events, redeemed>>

-----------------------------------------------------------------------------
(* The instruction transact.                                               *)
(* Its arguments are the proof, the proof's root, nullifiers and           *)
(* commitments, and an amount, a recipient and two encrypted notes that    *)
(* the sender is free to choose; "account" is recipient_ata.               *)

ExtDataHash(amount, recipient, notes) ==
    [verifier |-> pool.verifier, mint |-> pool.mint, domain |-> pool.domain,
     recipient |-> recipient, amount |-> amount, notes |-> notes]

(* What the program asks the verifier about. *)
StatementOf(proof, amount, recipient, notes) ==
    [proof.public EXCEPT !.amount = PublicAmountField(amount),
                         !.hash = ExtDataHash(amount, recipient, notes)]

(* Seeded fault: the recipient is not part of the hash. *)
VerifiedForAnyone(proof, amount, recipient, notes) ==
    proof.public = StatementOf(proof, amount, proof.public.hash.recipient, notes)

(* Seeded fault: the encrypted notes are not part of the hash. *)
VerifiedWithAnyNotes(proof, amount, recipient, notes) ==
    proof.public = StatementOf(proof, amount, recipient, proof.public.hash.notes)

(* Seeded fault: the amount is bound by the hash and not given to the circuit. *)
VerifiedForAnyAmount(proof, amount, recipient, notes) ==
    proof.public.hash = ExtDataHash(amount, recipient, notes)

Verified(proof, amount, recipient, notes) ==
    proof.public = StatementOf(proof, amount, recipient, notes)

ValidArguments(proof, amount, notes, account) ==
    /\ amount <= 0
    /\ proof.public.nullifiers[1] # proof.public.nullifiers[2]
    /\ \A s \in Slots : notes[s] \notin OversizedPayloads
    /\ amount < 0 => account # Vault

(* Seeded fault: the root is taken from the caller unchecked. *)
AnyRoot(proof) == TRUE

KnownRoot(proof) == ContainsRoot(tree, proof.public.root)

(* Seeded fault: only the first nullifier gets a record of its own. *)
FreshFirstNullifier(proof) == proof.public.nullifiers[1] \notin nullifiers

(* Both record accounts are created, so neither may exist. *)
FreshNullifiers(proof) == \A s \in Slots : proof.public.nullifiers[s] \notin nullifiers

VaultCovers(amount) == balances[Vault] >= -amount

Payable(amount, recipient, account) ==
    amount < 0 => VaultCovers(amount) /\ AccountOwner[account] = recipient

RoomForOutputs(proof) ==
    /\ CanInsert(tree)
    /\ CanInsert(Insert(tree, proof.public.commitments[1]))

Paid(amount, account) ==
    IF amount < 0 THEN Transferred(Vault, account, -amount) ELSE balances

(* Seeded fault: the first output is inserted in both places. *)
FirstOutputTwice(proof) ==
    Insert(Insert(tree, proof.public.commitments[1]), proof.public.commitments[1])

OutputsInserted(proof) ==
    Insert(Insert(tree, proof.public.commitments[1]), proof.public.commitments[2])

TransactEvents(proof, notes) ==
    << NewCommitment(proof.public.commitments[1], NextIndex(tree), notes[1]),
       NewCommitment(proof.public.commitments[2],
                     NextIndex(Insert(tree, proof.public.commitments[1])), notes[2]),
       NewNullifier(proof.public.nullifiers[1]),
       NewNullifier(proof.public.nullifiers[2]) >>

Redeems(wit, s, i) == wit.inputs[s].value # 0 /\ wit.inputs[s].index = i

Accepts(proof, amount, recipient, notes, account) ==
    /\ pool # NoPool
    /\ FreshNullifiers(proof)
    /\ ValidArguments(proof, amount, notes, account)
    /\ KnownRoot(proof)
    /\ Verified(proof, amount, recipient, notes)
    /\ Payable(amount, recipient, account)
    /\ RoomForOutputs(proof)

Transact(proof, amount, recipient, notes, account) ==
    /\ Accepts(proof, amount, recipient, notes, account)
    /\ nullifiers' = nullifiers \cup {proof.public.nullifiers[s] : s \in Slots}
    /\ balances' = Paid(amount, account)
    /\ tree' = OutputsInserted(proof)
    /\ events' = events \o TransactEvents(proof, notes)
    /\ redeemed' = [i \in Indices |->
                      redeemed[i] + (IF Redeems(proof.witness, 1, i) THEN 1 ELSE 0)
                                  + (IF Redeems(proof.witness, 2, i) THEN 1 ELSE 0)]
    /\ UNCHANGED <<pool, proofs>>

-----------------------------------------------------------------------------

DoInitPool == \E signer \in Users, config \in Deployments : InitPool(signer, config)

DoShield ==
    \E depositor \in Users, account \in TokenAccounts, key \in Keys,
       amount \in DepositAmounts, note \in DepositPayloads :
          Shield(depositor, account, key, amount, note)

DoDonate ==
    \E donor \in Users, account \in TokenAccounts, amount \in Donations :
        Donate(donor, account, amount)

DoProve ==
    \E root \in ProvableRoots, wit \in Witnesses, binding \in Bindings :
        \E amount \in {PublicAmountField(binding.amount)} \cup LooseAmounts :
            Prove(root, wit, amount, binding)

DoTransact ==
    \E proof \in proofs, amount \in Amounts, recipient \in Users \cup {PoolAddress},
       notes \in [Slots -> Payloads], account \in TokenAccounts :
          Transact(proof, amount, recipient, notes, account)

Next == DoInitPool \/ DoShield \/ DoDonate \/ DoProve \/ DoTransact

Spec == Init /\ [][Next]_vars

-----------------------------------------------------------------------------
(* Properties.                                                             *)

Proof == [public : [root        : Roots,
                    nullifiers  : [Slots -> Nullifiers],
                    commitments : [Slots -> Commitments],
                    amount      : Field,
                    hash        : Binding],
          witness : Witness]

Event == [event : {"NewCommitment"}, commitment : Commitments, index : Nat, note : Payloads]
         \cup [event : {"NewNullifier"}, nullifier : Nullifiers]

(* The accounts, the proofs and the log have the types the program gives them. *)
TypeOK ==
    /\ pool \in Config \cup {NoPool}
    /\ tree \in [leaves : Seq(Commitments), roots : Seq(Roots)]
    /\ nullifiers \subseteq Nullifiers
    /\ balances \in [TokenAccounts -> Nat]
    /\ proofs \subseteq Proof
    /\ events \in Seq(Event)
    /\ redeemed \in [Indices -> Nat]

(* transact.rs: the record accounts make the double-spend check atomic.  No
   note is an input of two accepted transactions, nor of both slots of one,
   however late, often or in whatever order proofs of it are submitted. *)
NoDoubleSpend == \A i \in Indices : redeemed[i] <= 1

(* What the circuit leaves private the pool keeps by induction: every leaf is
   a note of the pool's own mint, in the range of a u64. *)
LeavesSound ==
    \A k \in DOMAIN tree.leaves :
        /\ tree.leaves[k].asset = AssetId(pool.mint)
        /\ tree.leaves[k].value \in Values

NoteSpent(k) ==
    \E n \in nullifiers, spend \in SpendKeys, random \in Blindings :
        /\ n.index + 1 = k
        /\ tree.leaves[k].key = NoteKey(Owner(spend, n.view), random)

(* What the pool owes: the value of the notes that can still be spent. *)
Owed ==
    FoldFunction(+, 0, [k \in DOMAIN tree.leaves |->
                          IF NoteSpent(k) THEN 0 ELSE tree.leaves[k].value])

(* The vault always holds at least the value of all notes still spendable,
   across deposits, donations, transfers, withdrawals and zero-value inputs. *)
Solvent == balances[Vault] >= Owed

(* A root is accepted exactly while fewer than RootWindow leaves were appended
   after it: a proof made against the latest root survives RootWindow - 1
   appends of others and not one more (program.rs tests 65 appends to 64). *)
RootsAreRecent ==
    pool # NoPool =>
        \A n \in 0 .. Len(tree.leaves) :
            ContainsRoot(tree, RootAt(tree, n)) <=> Len(tree.leaves) - n < RootWindow

Logged(kind) == {j \in DOMAIN events : events[j].event = kind}

(* An indexer that sees only the log rebuilds the chain state: its
   NewCommitment events are the leaves in their order, each announced once and
   at its index, and its NewNullifier events the nullifier records, each
   announced once. *)
LogRebuildsState ==
    /\ \A j \in Logged("NewCommitment") :
          IsMember(tree.leaves, events[j].index, events[j].commitment)
    /\ \A n \in 0 .. Len(tree.leaves) - 1 :
          \E j \in Logged("NewCommitment") : events[j].index = n
    /\ \A i, j \in Logged("NewCommitment") : i < j => events[i].index < events[j].index
    /\ nullifiers = {events[j].nullifier : j \in Logged("NewNullifier")}
    /\ \A i, j \in Logged("NewNullifier") : events[i].nullifier = events[j].nullifier => i = j

(* The step that submits "proof", as its maker meant it. *)
SpendsAs(proof) ==
    LET public == proof.public
        binding == proof.public.hash
        paid    == balances[Vault] - balances'[Vault]
    IN
    /\ \A s \in Slots : public.nullifiers[s] \notin nullifiers
    /\ nullifiers' = nullifiers \cup {public.nullifiers[s] : s \in Slots}
    /\ tree'.leaves = tree.leaves \o <<public.commitments[1], public.commitments[2]>>
    /\ \E n \in 0 .. Len(tree.leaves) : public.root = RootAt(tree, n)
    /\ \A s \in Slots :
          LET in == proof.witness.inputs[s] IN
          in.value # 0 =>
              IsMember(tree.leaves, in.index, InputCommitment(AssetId(pool.mint), in))
    /\ <<binding.verifier, binding.mint, binding.domain>>
          = <<pool.verifier, pool.mint, pool.domain>>
    /\ paid = -binding.amount
    /\ InputTotal(proof.witness) = OutputTotal(proof.witness) + paid
    /\ \E account \in TokenAccounts :
          /\ balances' = Paid(binding.amount, account)
          /\ paid > 0 => AccountOwner[account] = binding.recipient
    /\ \A s \in Slots : \E j \in DOMAIN events' \ DOMAIN events :
          events'[j] = NewCommitment(public.commitments[s], NextIndex(tree) + s - 1, binding.notes[s])

(* Nullifiers are recorded and tokens leave the vault only by a transaction
   that does what one existing proof was made for: in this pool, against a root
   of its tree, consuming leaves of it, paying the bound amount to an account of
   the bound recipient, announcing each output with the payload bound for it, and
   creating exactly the value it consumes and does not pay out. *)
OnlyAsProven ==
    [][ nullifiers' # nullifiers \/ balances'[Vault] < balances[Vault]
          => \E proof \in proofs : SpendsAs(proof) ]_vars

(* A proof that lost the race for a note, or whose root left the window. *)
Dead(proof) ==
    \/ ~FreshNullifiers(proof)
    \/ \E n \in 0 .. Len(tree.leaves) : proof.public.root = RootAt(tree, n) /\ ~KnownRoot(proof)

(* Once a proof is unusable nothing that happens later makes it usable. *)
DeadForGood == [][ pool # NoPool => \A proof \in proofs : Dead(proof) => Dead(proof)' ]_vars

-----------------------------------------------------------------------------
(* What a reader of the leaves would call the pool's notes: which of them are
   spent is the ghost, which of them can be spent again is the nullifiers'. *)
LedgerNotes ==
    [k \in DOMAIN tree.leaves |->
        [key |-> tree.leaves[k].key, value |-> tree.leaves[k].value,
         spent |-> redeemed[k - 1] > 0]]

PoolLedger == INSTANCE Ledger WITH
    NoteKeys <- Keys, NoteValues <- Values, notes <- LedgerNotes, vault <- balances[Vault]

(* The program implements the ledger: roots, proofs and nullifiers only ever
   produce deposits, donations, and spends of unspent notes of the right total. *)
ImplementsLedger == PoolLedger!Spec

-----------------------------------------------------------------------------
(* The strengthening that makes the safety properties inductive. *)

PastRoots(t) ==
    \A k \in DOMAIN t.roots : \E n \in 0 .. Len(t.leaves) : t.roots[k] = RootAt(t, n)

ProofsSound == \A proof \in proofs : Circuit(proof.public, proof.witness)

RedeemedIsRecorded ==
    \A i \in Indices :
        redeemed[i] # 0 => redeemed[i] = 1 /\ i < Len(tree.leaves) /\ NoteSpent(i + 1)

(* Why the pool is safe: proofs satisfy the circuit, accepted roots are of this
   tree's past, a note that was an input has its own nullifier recorded, and
   the leaves are notes of this pool. *)
SafetyInv ==
    /\ pool = NoPool => tree.leaves = << >>
    /\ ProofsSound
    /\ PastRoots(tree)
    /\ RedeemedIsRecorded
    /\ LeavesSound

=============================================================================
