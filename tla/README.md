# veil402: TLA+ models and proofs

TLA+ modules for veil402, a shielded token pool on Solana with a Rust client SDK
and a Go proving worker. The modules are translated from the code under `src/`;
TLC checks them on small instances and TLAPS proves theorems about them for every
value of their constants. `PROJECT.json` maps every definition to source lines
and lists runs, seeded faults, hazards and theorems.

## 1. The system

| part | code | state | operations |
|---|---|---|---|
| pool program | `onchain/programs/pool/src` | `Pool` account, tree account, one record account per nullifier, vault token account, event log | `init_pool`, `shield`, `transact` |
| commitment tree | `tree.rs` | Light's append-only frontier (depth 20), a ring of the 64 latest roots | `init`, `insert`, `contains_root` |
| verifier | `verifier.rs`, external program | none | checks a Groth16 proof of seven public inputs |
| circuit | `circuits/transaction/src` | none | the relation a proof is a proof of |
| SDK protocol | `veil402-sdk/src/protocol` | none | notes, hashes, `Transaction::new`, `plan`, `values` |
| SDK client | `veil402-sdk/src/client`, `solana` | `Veil`: artifacts and a mutex around one optional worker | `transfer`, `withdraw`, `prove`, `instruction` |
| artifacts | `veil402-sdk/src/proving/artifacts.rs`, `prover/veil402-gnark/prover.go` | a manifest and four files on disk; what SDK and worker loaded of them | `Artifacts::open`, `openProver` |
| witness | `veil402-sdk/src/proving/witness.rs`, `prover/veil402-gnark/prover.go` | in the worker, a pipe and a goroutine for each call | `Witness::build`, `witnessFromBytes`, `prove` |
| worker client | `veil402-sdk/src/proving/worker` | a child process, its pipes, `next_request_id` | `start`, `prove`, `stop`, `drop` |
| gnark worker | `prover/veil402-gnark` | `next`, a reader goroutine, a main loop | `openProver`, `serve`, `readRequests`, `prove` |

**How they interact.** A wallet builds a `Transaction` from notes and Merkle paths
it knows. The SDK pads it to two inputs and two outputs, checks it with integers,
has the worker prove the same statement over the field, and builds an instruction.
Whoever pays the fee submits the instruction, at any later time, any number of
times. The program recomputes the public amount and the external-data hash from
the arguments, checks the proof, records both nullifiers, pays the vault's tokens
out and appends both outputs. Between reading a root and landing, deposits and
transactions of others append leaves.

**What is hard.**
- Proofs outlive what they were made against. Proofs of the same note made at
  different roots, with different partners, race; roots slide out of the window;
  a landed transaction may be sent again.
- The circuit keeps the asset, the values and the leaf indices private and skips
  membership of a zero-valued input, so soundness of the pool is an induction over
  all its transactions and not a check in one of them.
- The public amount is an `i64` in the program, an `i128` in the SDK and an element
  of a 254-bit field in the circuit.
- Half of a transaction's data is bound by the proof's inputs and half by a hash
  of arguments the sender chooses.
- The worker serves one request at a time to many tasks, each of which may be
  cancelled at any await, time out, or die with its whole process, while the
  worker may exit, hang or be slow at any point of its own.
- The program stores and compares bytes where the circuit and the SDK mean field
  elements, and one element can be written in several ways.
- The artifact files may be replaced while they are being opened, and the worker
  reads them a second time after checking them.
- The pool's authority is read from an account that its holder may hand on while a
  signed `init_pool` waits.

**What makes each part correct.** *Pool*: no note spent twice, the vault covers
every spendable note, tokens move only as a proof and its hash say, dead proofs
stay dead, the event log is enough to rebuild the state. *Tree*: a root is accepted
exactly while it is recent, the incremental root is that of the leaves announced, and
a path proves one leaf at one index. *Circuit and SDK*: they agree on every statement,
and it never wraps. *Encodings*: an element is spent once however it is written, and
an instruction executes only where and as its proof was bound. *Worker*: a call gets
the answer to its own request or an error, always returns, and leaves no process
behind. *Artifacts*: the circuit an answer was proved with is the one the witness was
built with, as long as the manifest that both of them compared stays in place.

## 2. Modules

```
Ledger <--implements-- Pool --EXTENDS--> JoinSplit, Tree
                        |                   |
       MCPool  PoolProofs  Client       Statements
                   |      /     \           |
                LedgerProofs  MCClient  MCJoinSplit

ProofService <--implements-- ProverClient --EXTENDS--> GnarkWorker
                                  |
                             ProverProofs

MerkleTree   (the nodes under Tree)
Wire         (the bytes under Pool, Client)
Artifacts    (the files under GnarkWorker!Open)
WitnessPipe  (one step of GnarkWorker's proving)
Deployment   (the authority under Pool!InitPool)
```

The last five modules each open up what one of the others takes for granted;
`MCWire`, `MCArtifacts`, `MerkleProofs`, `WireProofs`, `ArtifactsProofs`, `PipeProofs` and
`DeploymentProofs` belong to them. `PoolProofs` also extends `Statements`, whose three
variables are apart from the pool's.

| module | models | correspondence |
|---|---|---|
| `JoinSplit` | `main.nr`, `merkle.nr`, the note hashes, `Plan::values` | pure operators. `Circuit(public, wit)` is `main`; `SdkAccepts` is `values`. A hash is the record of what is hashed, so it is injective and domains are its tags. A root is the sequence of leaves it commits to, and a path is membership in it |
| `Statements` | one plan and its statement, under one root | `SdkAccepts` and `Circuit` side by side on any plan, honest or not; `MCJoinSplit` enumerates plans |
| `Tree` | `tree.rs` | `Insert` with capacity check, next index read before the append, ring of roots |
| `Pool` | the three instructions, their account constraints, the verifier call, SPL transfers, clients making proofs | one action per instruction; its guard is every check of handler and constraints, since a failing Solana transaction is rolled back as a whole. `proofs` holds all proofs ever made; each may be submitted with any arguments |
| `Ledger` | nothing in the code: the promise | notes with value and spent flag, a vault; `Deposit`, `Donation`, `Spend` |
| `Client` | `Transaction::new`, `plan`, `External`, `Witness::build`, `Veil::prepare`, `transfer`, `withdraw`, the instruction | `Prepare` is `Veil::prepare`, which builds the witness (`BuildsWitness`) before it proves, with the proof as one step (its await is the subject of `ProverClient`); `Submit` is `Pool!Transact` with the arguments prepared |
| `GnarkWorker` | `main.go`, `protocol.go` | one record per process: main loop, reader goroutine, both pipes |
| `ProverClient` | `Veil::prove`, `Worker`, `Process`, `Channel` | one action per stretch between two awaits; `line` is tokio's FIFO mutex, `slot` the `Option<Worker>` in it, `held` the worker the current call owns |
| `ProofService` | nothing in the code: what `Veil::prove` promises | how far each call is, the line, the worker with a living client, the calls whose proof is there to take. A call is served in its turn (`Serve`) and ends with its own proof and a worker that stays (`Return`), or without either (`Fail`); the worker may end at any time |
| `MerkleTree` | Light's append, `merkle_root` of the SDK, `merkle.nr`, the append of `stress.rs` | `frontier` is one remembered node per level and the root; `Above(index)` are the places the loops reach by halving the index, and `Climb` joins a leaf with one node per level by the bits on the way: the remembered nodes and empty subtrees in the append (`Joined`), the siblings of a path in `merkle_root`; `RootOf` is the tree over all leaves, from which wallets read paths |
| `Wire` | `field.rs`, `binding.rs`, `instruction.rs`, addresses, `public_witness`, `ExtData::hash`, the account constraints of `Transact` | words of `Width` bytes over a smaller field; `Encoded` and `Decoded` are Borsh, `Accounts` the account list by position, `Accepts` every check of the program on them. Each instruction is a prepared one, or one with the same elements and payload bytes in other words and another place |
| `Artifacts` | `Artifacts::open`, `openProver`, the handshake, what `prove` needs of the loaded files | one action per file read; `Install` replaces one file, or leaves half of it. A file holds what it was made from, so equal checksums are equal contents. The handshake compares `Id` alone, which several releases may have |
| `WitnessPipe` | `witnessFromBytes` | the goroutine, `GetWitness` and the caller around them, a byte at a time through a bounded pipe whose reading end is opened a second time by name |
| `Deployment` | the constraints of `init_pool`, with the loader and the permissionless creation of token accounts around them | `Sign` and `InitPool` are apart, since an instruction lands later than it is signed |
| `MC*` | | the values of constants for TLC |
| `*Proofs` | | theorems |

Definitions headed "Seeded fault" are not part of a specification. Each is a
plausible mistake in the definition after it; put in its place, TLC must find the
named property violated. They show that a property can fail.

### Abstractions

- Hashes are collision-free and proofs unforgeable; what is proved is the relation.
- `JoinSplit`, `Pool` and `Client` handle typed values: the checks for canonical
  field elements, for a zero nullifier and for accounts by position are in `Wire`,
  whose strings keep as one symbol what is never split (an address, an `i64`, a
  length, the 388 bytes of a proof). Protobuf frames are values everywhere.
- `Wire` takes the verifier as lenient: it reduces every word it is given, so that
  only the program's own checks tell two spellings of an element apart. gnark's
  verifier may well refuse them itself; nothing here relies on that.
- Roots in the other modules are sequences of leaves, and a path is membership;
  `MerkleTree` checks, node by node, what entitles them to that.
- Token accounts are those of the pool's mint; the classic SPL program moves them.
  The vault is created with the pool. An account that is frozen, closed or not yet
  created makes a transfer fail for reasons outside this code and is left out, so
  `PreparedSucceeds` speaks of accounts that exist.
- In `Artifacts`, a proof verifies only under the key it was made with, and a witness
  solves only the constraint system of its circuit. Which *setup* of a circuit a
  worker proves with is not determined when files change under it: the second read
  of the two keys is compared with nothing, and the property claims no more than one
  setup of one circuit.
- `Artifacts!Id` is what `Ready` carries, the manifest's ID and the protocol number
  (`worker/mod.rs:33`). The ID is a name somebody chose (`transaction-v4`), not a
  checksum, and nothing here assumes that it is unique: a worker of another release with
  the same ID passes the handshake. What then keeps an answer to the SDK's circuit is
  that each side compares the whole manifest on disk with the one compiled into it, and
  this only while the manifest stays: a release of another circuit, installed under the
  same ID over a running SDK together with its worker, is accepted by the handshake.
  `AnswersFitProgram` says as much and no more. What such a worker answers is compared
  with the statement's public inputs (`client/mod.rs:100`) and checked on chain.
- `redeemed` in `Pool` and the `witness` of a proof are ghosts, and so are `touched`,
  `replaced` and `answered` in `Artifacts`: nothing reads them but properties.
- Instructions carry no discriminator in `Wire`, nor do accounts: Anchor writes and
  compares them. Its token accounts are the associated ones, where the program takes any
  token account of the mint; `Pool!TokenAccounts` may be any set of them.
- The upgrade authority is a constant of `Pool`; `Deployment` lets it change.
- In `ProverClient`, time is absent: a deadline may fire at any moment of a timed
  phase. A worker's answer either passes or fails verification; its `public` is
  that of the request. Two branches are therefore never taken, and the runs show
  that: a valid answer with another statement's public inputs (`RejectAnswer`)
  and the client drawing request ID 0 (`Take`).
- A write to a pipe is one step; a write cut short by the client's death is `torn`.

## 3. Runs

| run | instance | asks |
|---|---|---|
| `joinsplit` | field of 11, values to 3, all pairs of inputs, outputs and amounts | do SDK and circuit agree, is value conserved in the integers, is what comes in the value of distinct leaves |
| `pool_value` | 5 leaves, values to 3, field of 11, one holder, foreign roots, donations, two mints | is the vault solvent, is each note spent once, does the program implement `Ledger` |
| `pool_race` | 8 leaves, window of 3, three proofs sharing notes or padding, three bindings (a transfer, a withdrawal by another, one of another domain with an oversized note), amounts proved and bound independently | is the window exact, do dead proofs stay dead, does the log rebuild the state, do tokens move, and are payloads published, only as proof and hash both say |
| `client` | 5 leaves, one wallet remembering two notes rightly and two wrongly, paths 0 or 1 leaf old, two instructions | is a prepared instruction refused only for an expired root, a taken nullifier or a full tree; do payloads stay with their notes; does padding burn a note |
| `client_sends` | the same | violated: see section 6 |
| `prover` | two callers, two process identifiers, IDs 1 to 3, fair | is the worker in the slot in step with its client, is each answer owed to the call that waits, is a process ever forgotten, does the client implement `ProofService`, does every call return, does every orphan exit |
| `prover_reuse` | the same, without fairness | violated: see section 6 |
| `merkle` | depth 3, two commitments | is the incremental root that of all leaves, does a path prove the leaf at its index and nothing else, does the path of a wrong leaf lead to the root of the tree with it in place |
| `wire` | two-digit words in base 4 over a field of 11, three pools (another program; the same program on a twin cluster), three proofs | is an element spent once however written, does an instruction execute only where and as bound, does the program accept what the SDK builds |
| `artifacts` | three releases, two of one circuit and two under one ID, half-written files, workers of each | is the SDK's program the pinned one, does an undisturbed worker hold its release, is an answer of the circuit that its worker pins and of the ID asked for, and of the SDK's circuit while the manifest stays |
| `witness_pipe` | witnesses up to 6 bytes, a pipe of 2 | does the call return, does it leave anything behind, is a partial witness ever used |
| `deployment` | two programs, two users, two mints, two instructions in flight | who can create the pool, is it ever changed, is an abandoned program's pool ever created |

**Bounds.** Five leaves are a deposit and two transactions: a note, its successor
and the successor's successor. Values to 3 with a field of 11 put every wrap-around
(two values and a negative amount) inside the instance, and the assumption
`3 * MaxValue < Modulus` is the relation of 64-bit values to the real field. A
window of 3 with 8 leaves slides twice by a deposit and twice by a transaction, whose
two appends may jump over a proof's last usable root. Three proofs allow two rivals
and a bystander. Two callers are one inside and one in the line; two process
identifiers are a dying worker (killed, or orphaned by a crash of its client) beside
a fresh one; `ProverProofs` covers any number of both. IDs that run out after two
accepted requests reach the worker's last-ID rule. Depth 3 has a level that is
neither the leaves' nor the root's, and every history of appends of two commitments
until the tree is full. A field of 11 in sixteen words gives five elements two
spellings each, and rivals for one of them are among the plans. A pipe smaller than
the witness is what makes its writer wait. Three releases are the pinned one, one
with other keys under an ID of its own, and one of another circuit under the pinned
ID, which only the manifests tell apart. `MaxProofs`, `DepositAmounts`, `Donations`, `Witnesses`, `Bindings`,
`LooseAmounts` and `ForgedRoots` bound the environment of `Pool`; `PathLags`,
`WalletInputs`, `SendLists`, `Withdrawals`, `DummyIndices` and `MaxPrepared` bound the
wallets of `Client`, of which `DummyViews` is the supply of fresh random owners (hence
the symmetry); `MaxProofs` and `MaxSigned` bound the environments of `Wire` and
`Deployment`, `MaxBytes` the witness of `WitnessPipe`. `ProverClient` and `Artifacts`
are finite as they stand: callers call, and releases are installed, for ever.

`CHECK_DEADLOCK FALSE` stands where the system stops: in the pool, client and `merkle`
runs a full tree accepts nothing more, which is what the program does at 2^20 leaves;
in `wire` every proof has been spent or refused; in `witness_pipe` the call has
returned.

**Fairness.** `Pool` has none and claims no liveness: nobody has to submit.
`ProverClient!FairSpec` is weakly fair to: a blocking task ending
(`spawn_blocking` with no await inside), the mutex being handed to the head of the
line (tokio's mutex is FIFO, so weak fairness is enough), a timer firing
(`tokio::time::timeout` around the handshake and around the exchange), a SIGKILL
being delivered and reaped, reading the artifact files ending, and runnable
goroutines running. It is *not* fair to proving, to answers arriving, to
cancellation or to crashes. `WitnessPipe` is weakly fair to its two goroutines, which
the Go scheduler runs, and to `GetWitness` ending, since it reads a bounded number of
bytes and stops. The other modules are safety only.

## 4. Proofs

All theorems hold for every value of the constants that meets the named assumptions:
`FieldAssumption`, `PoolAssumption` and `TreeAssumption` for the pool,
`ClientAssumption` for the wallets, `WireAssumption` for the bytes, `IdAssumption` for
the worker, `ArtifactsAssumption` for the files, `DeploymentAssumption` (the authority of an
immutable program is no user) for the deployment. `WitnessPipe` needs none. What
`ClientAssumption` says of wallets beyond types: the notes they give carry keys in use (`Keys`), padding is
worth nothing, and no key in use belongs to a viewing secret that padding will draw. The
last is that fresh random secrets are new and hashes collide nowhere. A wallet's note may
still be wrong: with another index, value, asset or path than the leaf it stands for.
`WireAssumption` says that two deployments of one program differ in their domain: a
program has one pool on a cluster, its pool address being derived from a constant, and
the domain is by `src/docs/spec/2026-09-19-withdrawal-integration.md:30` a deployment
identifier, normally the cluster's genesis hash. Without it a proof made for one of them
would execute on the other. `PlanAssumption` says of the plans what `Plan::values`
(`transaction.rs:156-212`) and `Veil::withdraw` (`client/mod.rs:142-157`) have checked
before anything is proved: elements in the field, nullifiers neither zero nor equal, an
amount that is not positive, and a recipient other than the pool. Only
`PreparedAlwaysAccepted` needs it.

- **`PoolProofs`**, the statement. `FieldEquationExact`: since three range-checked values fit
  in the field, `in1 + in2 + amount = out1 + out2` holds in the field exactly when it
  holds in the integers, with a negative amount represented as `P - |x|`. From it,
  `CircuitConservesValue` and `SdkMatchesCircuit` (the SDK's integer checks accept
  what the circuit accepts). `CircuitTakesDistinctLeaves`: the two real inputs of a
  statement are two leaves, because one leaf has one owner, hence one viewing key, hence
  one nullifier. They give the three properties of `Statements` as they are checked, for any
  statement at all (`AnyStatement`, of which `MCJoinSplit` enumerates some):
  `SdkAlwaysAgrees`, `CircuitAlwaysConserves`, `CircuitAlwaysConsumesLeaves`.
- **`PoolProofs`**, the program. `TypeCorrect` first. Then the inductive invariant `SafetyInv`:
  every proof satisfies the circuit (`ProofsSound`); every root in the ring is a root
  this tree has had (`PastRoots`); a redeemed leaf was redeemed once and a nullifier
  of its index and its owner's viewing key is recorded (`RedeemedIsRecorded`); every
  leaf is a ranged note in the pool's asset (`LeavesSound`).
  Why it is needed: `NoDoubleSpend` alone says nothing of nullifiers, so a step of
  `Transact` cannot be shown to preserve it. A non-zero input is a member of an
  accepted root, hence (`PastRoots`) a leaf of the tree at its own index
  (`RealInputIsLeaf`); the nullifier a proof shows for that index is determined by
  the leaf's key, so if the leaf had been redeemed, that nullifier would be on record
  and the record account could not be created (`RedeemedOnce`).
  `LeavesSound` feeds itself: a transaction's asset is that of its one real input
  (`AssetIsPools`).
  `NeverSpentTwice`, `LeavesAlwaysSound` follow; `SpendsOnlyAsProven` is the action
  property `OnlyAsProven` from the same invariant. What it says of the encrypted notes is
  about the event log: `TransactAnnounces` finds the payload of each output in the step's
  new events, at the output's index, next to its commitment, and the payloads are those
  of the external data that the proof's hash stands for.
  On the window, `RingIsRecent`: the ring's k-th root is the one the tree had a
  given number of leaves ago, and the ring is as long as the window allows. `InsertRing`
  shows that one append moves it by one, before and after the ring is full. A
  transaction appends twice, hence the lemma on two appends. `RootsStayRecent` is the
  exact window. For `DeadStaysDead`, a growing tree keeps its past (`Grown`), so the root of
  a dead proof still has as many leaves behind it, or more, and the exact window
  excludes it again; records are never removed.
- **`LedgerProofs`**, the vault. `PoolImplementsLedger` is the refinement of `Ledger`, a lemma for
  each action: the notes of the abstract ledger are the leaves with `redeemed` as their
  spent flag. `TransactConsumes` says that a transaction spends exactly the leaves of its
  non-zero inputs, which were unspent and differ, and `CircuitConservesValue` that the
  vault changes by what the notes do. `AlwaysSolvent` needs a sum over a tree of any
  size. The library's induction theorems cannot be used, so `Counting` derives a set form
  of induction from the well-foundedness of `<`; with it the fold that defines `Owed` is
  shown to have a table of its partial sums, and from that follow `SumSplits` and
  `SumMonotone`. A deposit adds one term (`SumAppend`), a transaction removes at most two
  and adds two (`SumConsumes`). `LogAlwaysRebuilds` goes event by event
  (`LogCommitment`, `LogNullifier`), in the order the transaction emits them.
- **`LedgerProofs`**, the wallets. `ClientInv` is the pool's `TypeOK`, `SafetyInv`, `TreeFits` and
  `Solvent` with two parts of its own. `PreparedInv`: each instruction in anybody's hands
  is as `Veil::prepare` left it (`InstructionSound`: verified, accepted by the SDK's
  checks, paid to the right account, every output padding or a send with its own
  payload). `RecordedInv`: a recorded nullifier is padding's, or that of a redeemed leaf.
  The second is what `PaddingBurnsNothing` needs and does not say by itself: a leaf marked
  spent has a nullifier on record, whose view is its owner's, hence not padding's, hence
  the leaf at its index was redeemed. `PreparedAlwaysSucceeds` goes through every check of
  the program; the hard one is that the vault can pay a withdrawal, since nothing in
  the instruction says so: its inputs with unrecorded nullifiers are distinct leaves
  nobody redeemed (`InputsOwed`), so by solvency the vault holds at least their sum.
  `PayloadsStayWithNotes` follows the shuffle (`PaddedElements`, `SlotFollows`) and
  `ClientsImplementLedger` carries the refinement over to wallets.
- **`ProverProofs`**. Knowing that the worker in the slot is in step (`SlotInSync`) is
  not inductive: it says nothing of the worker a call holds, which is put back later.
  `InStep` adds, for each await, the few states that worker can be in
  (`StartingState`, `QuietState`, `BodyState`, `ReceivingState`, `StoppedState`), with
  exactly the request of that call in its pipes; that only one call is inside; and
  that every other process is killed, gone or orphaned (`Released`). Each of the
  client's steps, whether it succeeds, fails, times out or is dropped, either keeps the worker of
  the call in the listed states or releases it. `SlotAlwaysInSync`,
  `AnswersAlwaysOwed`, `WorkersNeverStray`, `IdsDoNotWrap` and `ClientTypeCorrect`
  follow, for any number of callers and processes. So does `ClientImplementsService`,
  whose mapping says that a call inside the mutex is served (`Stage`), that the workers
  are the running processes with a living client, and that a call is answered when its
  own valid answer is first in the pipe. The invariant makes of these (`ServiceView`) the
  one worker of the call that is inside, or the one in the slot; each action of the
  client is then a step of the service or a stutter (`ClientImplements`). The worker's
  own steps are stutters, except that it ends (`LiveStep`, with an answer it wrote left
  to take: `AnsweredStep`) or makes the proof of the call that waits
  (`WorkerImplements`). The theorem is about safety; that calls return is
  `EveryCallReturns`.
- **`PipeProofs`**. Who has which end of the pipe open at each step (`Ends`), and that
  each side is content only with the whole witness (`Whole`).
- **`MerkleProofs`**. Five functions of the model are recursive over the levels; each is
  first shown to be what its definition says (`PowerDef` to `NodesDef`), by building it
  level by level. `CountingTo` is induction up to a limit, from the well-foundedness of
  `<`. Two facts carry everything. `ClimbFollowsTree`: a leaf joined with its siblings
  climbs through the tree; `ClimbOnlyFollowsTree`, downwards from the root: nothing else
  arrives there. `SameOffPath`: trees that differ in one leaf differ only above it, so it
  has the same siblings in both. `FrontierInv` says of each level at which the next leaf
  will be a right child that the node remembered there is the subtree left of it.
  That is kept because from one index to the next a place stays or moves by one
  (`AboveNext`): it becomes odd only where the append has just stored the node. With
  `EmptyBeyond` for the left children, the nodes an append joins are the siblings in the
  new tree, and `FrontierAlwaysTree` follows. `PathsAlwaysProveMembership` needs the index
  to be inside the tree and the empty leaf to be no commitment; `PathsAlwaysReplaceLeaf`
  is `SameOffPath` on the tree with the wrong note.
- **`WireProofs`**. `SpentInv`: the nullifiers of everything executed are canonical words
  whose record addresses are taken. A new record's address must be free and is a function
  of the word, so the word is new; and of two words for one element at most one is
  canonical (`CanonicalIsUnique`), so the element is new. `ElementsSpentOnce` follows, and
  needs no arithmetic. `BoundInv`: a proof's hash is that of its plan's external data.
  `AlwaysExecutesAsBound` needs three facts about strings of unknown length, all from
  "the part that follows a prefix is found again" (`PartFound`): Borsh is read back as it
  was written (`DecodesEncoded`), the external data can be read off its string
  (`ExternalParts`), hence no two share a hash input (`ExternalInjective`), and the hash
  is the last element of the public witness (`WitnessHash`).
  `PreparedAlwaysAccepted` adds the arithmetic. `Shifted` and `Number` are recursive
  functions over the digits, and reading undoes writing because before each digit the
  number read so far is the one that writing had left (`ReadBack`): so what is written is
  canonical, and distinct elements have distinct words, record addresses
  (`AddressesDiffer`) and places in the account list. With `MadeInv`, that a proof is of
  its plan's elements and external data, each check of `Accepts` follows in turn:
  accounts (`AccountsAccepted`), arguments (`ArgumentsAccepted`), proof
  (`ProofAccepted`, over all six words of `WitnessFields`).
- **`ArtifactsProofs`**. `WorkerPinned` follows the second reading: the ACIR that was
  loaded is that of the worker's manifest, whatever the first reading saw, because the
  program compares its identity again; the constraint system and the keys have no such
  check and are tied to it only by `ProofVerifies`. `WorkerQuiet` is what the first
  reading adds if nothing was installed in between. The handshake gives no more than
  equal IDs, so the worker's circuit is the SDK's for another reason, `ManifestShared`: as
  long as the manifest stays, it is the one compiled into the SDK, and a worker that has
  compared it is of the same release. `AnswersAlwaysFit` rests on the first and the last.
- **`DeploymentProofs`**. `AlwaysAuthorityInitialises` follows from the guard of `init_pool`
  alone, whatever was signed before. `AlwaysAbandonedForGood` does not: that nobody signs
  an `init_pool` as the missing authority is about who can sign, and that no authority
  comes back about the loader. `DeploymentInv` adds that a pool was created by a user,
  with its vault.

**Only model-checked.** Every safety property that a run checks has a theorem, the action
properties and the refinements included. Liveness (`EveryCallReturns`, `OrphansExit`,
`CallReturns`) stays with TLC, being out of the prover's reach under fairness.
So do the two violations of section 6.

## 5. Not modelled

Poseidon, Keccak and Groth16; what Light's tree keeps besides its frontier (change log,
canopy); ACIR solving and the serialisation of the solved witness, which are libraries;
generated protobuf code; the end-to-end tests, their mock verifier and `stress.rs`
beyond its reference tree; CI and scripts.

The stages of one instruction are not modelled apart from each other. Every instruction
after `init_pool` locks the tree and the vault for writing, so the runtime runs
them one after the other, and the rollback of a failing one is Solana's; a module of
stages would check the runtime rather than this code.

## 6. Findings

`prover_reuse`: the specification of the worker
(`src/docs/spec/2026-09-19-local-prover-worker.md:33-37`) says that process exit
invalidates a worker, that invalid workers are never reused and that a later proof
starts a fresh one. `Veil::prove` takes whatever the slot holds
(`client/mod.rs:89`) and does not ask whether the process lives. A worker that exits
while idle is taken by the next call, whose write or read fails; the call returns an
error and only the call after it starts a fresh worker.

`client_sends`: `src/docs/spec/2026-09-22-transaction-v4.md:30` says a `Transaction`
has one or two sends; `Transaction::new` (`transaction.rs:47`) accepts none, and
`withdraw` prepares a withdrawal without change from it. Nothing else depends on it:
both outputs are padding.

## 7. Plan

Done: the pool with its circuit, tree and ledger; the wallet; the worker and its
client; the nodes of the tree, the bytes of an instruction, the artifact files, the
witness pipe, the deployment; theorems about each of them, for every safety property
the runs check. What section 5 leaves out is left out for good reason; nothing else is
planned.
