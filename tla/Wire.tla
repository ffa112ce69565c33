-------------------------------- MODULE Wire --------------------------------
(***************************************************************************)
(* The bytes between the SDK and the pool program.  JoinSplit, Pool and    *)
(* Client speak of field elements, bound data and accounts; the program    *)
(* sees big-endian words, a hash of a flat string, and addresses, and      *)
(* stores nullifiers by their bytes.  This module writes all of that out   *)
(* for words of Width bytes below Base, a field smaller than the words,    *)
(* and several deployments, some on clusters of their own.                 *)
(*                                                                         *)
(* Fixed-width data that is never split (an address, an i64, a length, the *)
(* 388 bytes of a proof) is one symbol of a string.  A program-derived     *)
(* address is the record of what it is derived from, and the hash of a     *)
(* string is the string: both are injective.                               *)
(***************************************************************************)
EXTENDS Integers, Sequences, SequencesExt

CONSTANTS
    Base, Width,      \* values of a byte, bytes of a word
    P,                \* the field's modulus
    MaxPayload,       \* MAX_ENCRYPTED_NOTE_LEN
    Deployments,      \* pools, each of its own program or cluster
    Config,           \* [program, verifier, mint, domain] of each
    Wallets,
    TokenProgram, SystemProgram,
    Roots,            \* the field elements that are recent roots
    Amounts,          \* an i64's values
    Plans,            \* what SDK users want to prove
    MaxProofs         \* proofs made in one behaviour

(* How many words of n bytes there are. *)
Power[n \in 0 .. Width] == IF n = 0 THEN 1 ELSE Base * Power[n - 1]

Field == 0 .. P - 1
Bytes == 0 .. Base - 1
Word  == [1 .. Width -> Bytes]
Slots == 1 .. 2

(***************************************************************************)
(* A program has one pool on a cluster, and a deployment's domain names    *)
(* its cluster: two deployments differ in one or the other.                *)
(***************************************************************************)
ASSUME WireAssumption ==
    /\ Base \in Nat /\ Width \in Nat /\ P \in 2 .. Power[Width] - 1
    /\ MaxPayload \in Nat /\ MaxProofs \in Nat
    /\ Roots \subseteq Field \ {0}
    /\ Amounts \subseteq Int
    /\ \A d, e \in Deployments :
          Config[d].program = Config[e].program /\ Config[d].domain = Config[e].domain => d = e
    /\ \A plan \in Plans : /\ plan.deployment \in Deployments /\ plan.amount \in Amounts
                           /\ plan.notes \in [Slots -> Seq(Bytes)]

VARIABLES
    proofs,    \* proofs made: [fields, hash, plan], the plan being a ghost
    records,   \* the addresses of each deployment's nullifier records
    executed   \* ghost: [deployment, proof, args, account] of each accepted instruction

vars == <<proofs, records, executed>>

-----------------------------------------------------------------------------
(* Field elements and their bytes. *)

(* A big-endian number, byte by byte. *)
Number(word) ==
    LET upTo[k \in 0 .. Len(word)] == IF k = 0 THEN 0 ELSE upTo[k - 1] * Base + word[k]
    IN upTo

(* Fr::from_be_bytes_mod_order *)
ModOrder(word) == Number(word)[Len(word)] % P

(* A number without its last n bytes. *)
Shifted(value) ==
    LET rest[n \in 0 .. Width] == IF n = 0 THEN value ELSE rest[n - 1] \div Base
    IN rest

FieldBytes(value) ==
    LET rest == Shifted(value) IN [k \in 1 .. Width |-> rest[Width - k] % Base]

IsCanonicalField(word) == FieldBytes(ModOrder(word)) = word

Magnitude(amount) == IF amount < 0 THEN -amount ELSE amount

Negated(value) == (P - value) % P

(* Field::from_signed, in the SDK *)
FromSigned(amount) ==
    LET magnitude == Magnitude(amount) % P IN
    FieldBytes(IF amount < 0 THEN Negated(magnitude) ELSE magnitude)

(* Seeded fault: the sign is lost. *)
UnsignedAmountField(amount) == FieldBytes(Magnitude(amount) % P)

(* The same in the program. *)
PublicAmountField(amount) ==
    LET magnitude == Magnitude(amount) % P IN
    FieldBytes(IF amount >= 0 THEN magnitude ELSE Negated(magnitude))

-----------------------------------------------------------------------------
(* Addresses. *)

FindProgramAddress(program, seeds) == [program |-> program, seeds |-> FlattenSeq(seeds)]

PoolAddress(config) == FindProgramAddress(config.program, << <<"pool", "v4">> >>)
TreeAddress(config) == FindProgramAddress(config.program, << <<"tree", PoolAddress(config)>> >>)

NullifierAddress(config, word) ==
    FindProgramAddress(config.program, << <<"nullifier", PoolAddress(config)>>, word >>)

Ata(owner, mint) == [owner |-> owner, mint |-> mint]

TokenAccounts ==
    {Ata(owner, Config[d].mint) : owner \in Wallets, d \in Deployments}
        \cup {Ata(PoolAddress(Config[d]), Config[d].mint) : d \in Deployments}

-----------------------------------------------------------------------------
(* The external data under the proof's hash. *)

(* Seeded fault: the payloads are hashed without their lengths. *)
ExternalUnframed(config, recipient, amount, notes) ==
    <<"veil402:transact:v4", config.domain, config.program, PoolAddress(config),
      config.mint, config.verifier, recipient, amount>> \o notes[1] \o notes[2]

(* binding::external in the SDK, ExtData::hash in the program *)
External(config, recipient, amount, notes) ==
    <<"veil402:transact:v4", config.domain, config.program, PoolAddress(config),
      config.mint, config.verifier, recipient, amount, Len(notes[1])>>
        \o notes[1] \o <<Len(notes[2])>> \o notes[2]

-----------------------------------------------------------------------------
(* The public witness: a header with the count, then the elements. *)

Header == <<7, 0, 7>>

Witness(words, hash) == Header \o FlattenSeq(words) \o <<hash>>

(* What the verifier makes of it.  Taken as lenient: it reduces every word. *)
ReadWitness(witness) ==
    [fields |-> [k \in 1 .. 6 |->
                    LET start == Len(Header) + (k - 1) * Width
                    IN ModOrder(SubSeq(witness, start + 1, start + Width))],
     hash   |-> Last(witness)]

Verify(proof, witness) ==
    /\ proof \in proofs
    /\ ReadWitness(witness) = [fields |-> proof.fields, hash |-> proof.hash]

-----------------------------------------------------------------------------
(* The SDK: a plan is proved, and the proof made an instruction. *)

(* PublicInputs::fields, before the hash *)
Fields(plan) ==
    <<plan.root, plan.nullifiers[1], plan.nullifiers[2],
      plan.commitments[1], plan.commitments[2], ModOrder(FromSigned(plan.amount))>>

(***************************************************************************)
(* What a plan is after the SDK's own checks (Client): hashes are field    *)
(* elements, no nullifier is zero, the two differ, and tokens only leave,  *)
(* to a wallet that is not the pool itself.                                *)
(***************************************************************************)
ASSUME PlanAssumption ==
    \A plan \in Plans :
        /\ plan.root \in Field
        /\ plan.nullifiers \in [Slots -> Field \ {0}]
        /\ plan.nullifiers[1] # plan.nullifiers[2]
        /\ plan.commitments \in [Slots -> Field]
        /\ plan.amount <= 0
        /\ plan.amount < 0 =>
              plan.recipient \in Wallets \ {PoolAddress(Config[plan.deployment])}

(* A plan with oversized payloads is refused. *)
Prove(plan) ==
    /\ \A s \in Slots : Len(plan.notes[s]) <= MaxPayload
    /\ Cardinality(proofs) < MaxProofs
    /\ proofs' = proofs \cup
          {[fields |-> Fields(plan),
            hash   |-> External(Config[plan.deployment], plan.recipient, plan.amount, plan.notes),
            plan   |-> plan]}
    /\ UNCHANGED <<records, executed>>

SdkArgs(proof) ==
    [proof       |-> proof,
     root        |-> FieldBytes(proof.fields[1]),
     nullifiers  |-> [s \in Slots |-> FieldBytes(proof.fields[1 + s])],
     commitments |-> [s \in Slots |-> FieldBytes(proof.fields[3 + s])],
     amount      |-> proof.plan.amount,
     recipient   |-> proof.plan.recipient,
     notes       |-> proof.plan.notes]

RecipientAta(config, amount, recipient) ==
    Ata(IF amount < 0 THEN recipient ELSE PoolAddress(config), config.mint)

(* Borsh: lengths before what varies in length, the rest as it is. *)
Encoded(args) ==
    <<args.proof>> \o args.root \o args.nullifiers[1] \o args.nullifiers[2]
        \o args.commitments[1] \o args.commitments[2]
        \o <<args.amount, args.recipient, Len(args.notes[1])>> \o args.notes[1]
        \o <<Len(args.notes[2])>> \o args.notes[2]

Accounts(config, nullifiers, account, payer) ==
    <<PoolAddress(config), TreeAddress(config), Ata(PoolAddress(config), config.mint), config.mint,
      NullifierAddress(config, nullifiers[1]), NullifierAddress(config, nullifiers[2]),
      account, config.verifier, payer, TokenProgram, SystemProgram>>

Instruction(config, args, account, payer) ==
    [program  |-> config.program,
     accounts |-> Accounts(config, args.nullifiers, account, payer),
     data     |-> Encoded(args)]

-----------------------------------------------------------------------------
(* The program. *)

Decoded(data) ==
    LET word(k) == SubSeq(data, 2 + k * Width, 1 + (k + 1) * Width)
        tail    == 2 + 5 * Width
        first   == data[tail + 2]
        second  == data[tail + 3 + first]
    IN
    [proof       |-> data[1],
     root        |-> word(0),
     nullifiers  |-> <<word(1), word(2)>>,
     commitments |-> <<word(3), word(4)>>,
     amount      |-> data[tail],
     recipient   |-> data[tail + 1],
     notes       |-> << SubSeq(data, tail + 3, tail + 2 + first),
                        SubSeq(data, tail + 4 + first, tail + 3 + first + second) >>]

(* The constraints of the Transact accounts; both records are created. *)
AccountsValid(d, accounts, args) ==
    LET config == Config[d] IN
    /\ accounts[1] = PoolAddress(config)
    /\ accounts[2] = TreeAddress(config)
    /\ accounts[3] = Ata(accounts[1], accounts[4])
    /\ accounts[4] = config.mint
    /\ \A s \in Slots :
          /\ accounts[4 + s] = NullifierAddress(config, args.nullifiers[s])
          /\ accounts[4 + s] \notin records[d]
    /\ accounts[5] # accounts[6]
    /\ accounts[7] \in TokenAccounts /\ accounts[7].mint = accounts[4]
    /\ accounts[8] = config.verifier
    /\ accounts[9] \in Wallets
    /\ accounts[10] = TokenProgram /\ accounts[11] = SystemProgram

(* Seeded fault: the nullifiers may be written in any way. *)
CanonicalButNullifiers(args) ==
    IsCanonicalField(args.root) /\ \A s \in Slots : IsCanonicalField(args.commitments[s])

Canonical(args) ==
    /\ IsCanonicalField(args.root)
    /\ \A s \in Slots : /\ IsCanonicalField(args.nullifiers[s])
                        /\ IsCanonicalField(args.commitments[s])

ZeroWord == FieldBytes(0)

ValidArguments(accounts, args) ==
    /\ args.amount <= 0
    /\ Canonical(args)
    /\ \A s \in Slots : args.nullifiers[s] # ZeroWord
    /\ args.nullifiers[1] # args.nullifiers[2]
    /\ \A s \in Slots : Len(args.notes[s]) <= MaxPayload
    /\ args.amount < 0 => /\ accounts[7] # accounts[3]
                          /\ accounts[7].owner = args.recipient

(* Roots are compared as bytes. *)
ContainsRoot(word) == \E root \in Roots : word = FieldBytes(root)

VerifiedArgs(d, args) ==
    Verify(args.proof,
           Witness(<<args.root, args.nullifiers[1], args.nullifiers[2], args.commitments[1],
                     args.commitments[2], PublicAmountField(args.amount)>>,
                   External(Config[d], args.recipient, args.amount, args.notes)))

Accepts(d, instruction) ==
    LET args == Decoded(instruction.data) IN
    /\ instruction.program = Config[d].program
    /\ AccountsValid(d, instruction.accounts, args)
    /\ ValidArguments(instruction.accounts, args)
    /\ ContainsRoot(args.root)
    /\ VerifiedArgs(d, args)

Transact(d, instruction) ==
    LET args == Decoded(instruction.data) IN
    /\ Accepts(d, instruction)
    /\ records' = [records EXCEPT ![d] = @ \cup {instruction.accounts[5], instruction.accounts[6]}]
    /\ executed' = Append(executed, [deployment |-> d, proof |-> args.proof, args |-> args,
                                     account |-> instruction.accounts[7]])
    /\ UNCHANGED proofs

-----------------------------------------------------------------------------
(* What may be submitted: a prepared instruction, or one that puts the same
   elements and payload bytes in other words and another place. *)

Spellings(value) == {word \in Word : ModOrder(word) = value}

Resplits(notes) ==
    LET bytes == notes[1] \o notes[2] IN
    {<<SubSeq(bytes, 1, k), SubSeq(bytes, k + 1, Len(bytes))>> : k \in 0 .. Len(bytes)}

Rewrite(proof, root, nullifiers, notes, amount, recipient) ==
    [SdkArgs(proof) EXCEPT !.root = root, !.nullifiers = nullifiers, !.notes = notes,
                           !.amount = amount, !.recipient = recipient]

Rewritten(proof) ==
    {Rewrite(proof, root, <<first, second>>, notes, amount, recipient) :
        root \in Spellings(proof.fields[1]),
        first \in Spellings(proof.fields[2]), second \in Spellings(proof.fields[3]),
        notes \in Resplits(proof.plan.notes), amount \in Amounts,
        recipient \in Wallets \cup {proof.plan.recipient}}

Init ==
    /\ proofs = {}
    /\ records = [d \in Deployments |-> {}]
    /\ executed = << >>

DoProve == \E plan \in Plans : Prove(plan)

DoTransact ==
    \E d \in Deployments, proof \in proofs :
        \E args \in Rewritten(proof), payer \in Wallets :
            \E account \in {RecipientAta(Config[d], args.amount, args.recipient),
                            RecipientAta(Config[d], args.amount, payer)} :
                Transact(d, Instruction(Config[d], args, account, payer))

Next == DoProve \/ DoTransact

Spec == Init /\ [][Next]_vars

-----------------------------------------------------------------------------
NullifierValues(e) == {ModOrder(e.args.nullifiers[s]) : s \in Slots}

(* The record accounts are found by a nullifier's bytes, yet the nullifier is a
   field element: no element is recorded twice in a pool, however it is
   written, and each executed transaction records two. *)
ElementSpentOnce ==
    \A i, j \in DOMAIN executed :
        LET e == executed[i]  f == executed[j] IN
        /\ i # j /\ e.deployment = f.deployment => NullifierValues(e) \cap NullifierValues(f) = {}
        /\ Cardinality(NullifierValues(e)) = 2

(* An instruction is executed only by the pool its proof was made for, on the
   cluster it was made for, and with exactly the recipient, amount and payloads
   its maker bound: no two sets of external data share a hash input. *)
ExecutesAsBound ==
    \A k \in DOMAIN executed :
        LET e == executed[k]  plan == e.proof.plan IN
        /\ e.deployment = plan.deployment
        /\ e.args.recipient = plan.recipient
        /\ e.args.amount = plan.amount
        /\ e.args.notes = plan.notes
        /\ plan.amount < 0 => e.account.owner = plan.recipient

(* SDK and program agree on every encoding, address and position: what the SDK
   builds for a pool is accepted by it, by whomever it is paid for, while its
   root is known and neither nullifier's record exists. *)
PreparedAccepted ==
    \A proof \in proofs, payer \in Wallets :
        LET d      == proof.plan.deployment
            config == Config[d]
            args   == SdkArgs(proof)
        IN
        /\ proof.plan.root \in Roots
        /\ \A s \in Slots : NullifierAddress(config, args.nullifiers[s]) \notin records[d]
        => Accepts(d, Instruction(config, args,
                                  RecipientAta(config, args.amount, args.recipient), payer))

=============================================================================
