SPECIFICATION Spec
CONSTANTS
    alice = alice bob = bob carol = carol spare = spare
    vault = vault aliceAcc = aliceAcc bobAcc = bobAcc
    pda = pda none = none
    mint = mint otherMint = otherMint domain = domain otherDomain = otherDomain
    verifier = verifier key = key blind = blind note = note otherNote = otherNote bigNote = bigNote
    Modulus = 11 MaxValue = 3 MaxAmount = 2 Capacity = 5 TreeCapacity = 5 RootWindow = 3
    SpendKeys = {key}
    ViewKeys = {alice, spare}
    Blindings = {blind}
    Keys <- ValueKeys
    Mints = {mint, otherMint}
    Users = {alice}
    TokenAccounts = {vault, aliceAcc}
    AccountOwner <- ValueOwner
    Vault = vault PoolAddress = pda NoPool = none
    UpgradeAuthority = alice
    Deployments <- OneDeployment
    Genesis <- ValueGenesis
    Payloads = {note} OversizedPayloads = {}
    Domains = {domain} Verifiers = {verifier}
    DepositAmounts = {1, 2}
    DepositPayloads = {note}
    Donations = {1}
    Witnesses <- ValueWitnesses
    Bindings <- ValueBindings
    LooseAmounts = {}
    ForgedRoots <- ValueForgedRoots
    MaxProofs = 2
INVARIANTS TypeOK NoDoubleSpend LeavesSound Solvent
PROPERTIES OnlyAsProven ImplementsLedger
CHECK_DEADLOCK FALSE
