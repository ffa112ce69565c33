SPECIFICATION Spec
CONSTANTS
    alice = alice bob = bob carol = carol spare = spare
    vault = vault aliceAcc = aliceAcc bobAcc = bobAcc
    pda = pda none = none
    mint = mint otherMint = otherMint domain = domain otherDomain = otherDomain
    verifier = verifier key = key blind = blind note = note otherNote = otherNote bigNote = bigNote
    Modulus = 11 MaxValue = 3 MaxAmount = 2 Capacity = 8 TreeCapacity = 8 RootWindow = 3
    SpendKeys = {key}
    ViewKeys = {alice, spare}
    Blindings = {blind}
    Keys <- ValueKeys
    Mints = {mint}
    Users = {alice, bob}
    TokenAccounts = {vault, aliceAcc, bobAcc}
    AccountOwner <- RaceOwner
    Vault = vault PoolAddress = pda NoPool = none
    UpgradeAuthority = alice
    Deployments <- OneDeployment
    Genesis <- RaceGenesis
    Payloads = {note, otherNote, bigNote} OversizedPayloads = {bigNote}
    Domains = {domain, otherDomain} Verifiers = {verifier}
    DepositAmounts = {1}
    DepositPayloads = {note}
    Donations = {}
    Witnesses <- RaceWitnesses
    Bindings <- RaceBindings
    LooseAmounts = {0}
    ForgedRoots = {}
    MaxProofs = 3
INVARIANTS NoDoubleSpend Solvent RootsAreRecent LogRebuildsState
PROPERTIES OnlyAsProven DeadForGood
CHECK_DEADLOCK FALSE
