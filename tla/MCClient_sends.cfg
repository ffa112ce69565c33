SPECIFICATION ClientSpec
CONSTANTS
    alice = alice vault = vault aliceAcc = aliceAcc
    pda = pda none = none mint = mint domain = domain verifier = verifier
    key = key blind = blind dOut = dOut d1 = d1 d2 = d2 d3 = d3
    deposit = deposit note = note otherNote = otherNote noise = noise bigNote = bigNote
    Modulus = 11 MaxValue = 3 MaxAmount = 3 Capacity = 5 TreeCapacity = 5 RootWindow = 3
    SpendKeys = {key}
    ViewKeys = {alice, dOut, d1, d2, d3}
    Blindings = {blind}
    Keys <- ClientKeys
    Mints = {mint}
    Users = {alice}
    TokenAccounts = {vault, aliceAcc}
    AccountOwner <- ClientOwner
    Vault = vault PoolAddress = pda NoPool = none
    UpgradeAuthority = alice
    Deployments <- Deployment
    Genesis <- ClientGenesis
    Payloads = {deposit, note, otherNote, noise, bigNote} OversizedPayloads = {bigNote}
    Domains = {domain} Verifiers = {verifier}
    DepositAmounts = {1, 2}
    DepositPayloads = {deposit}
    Donations = {}
    Witnesses = {} Bindings = {} LooseAmounts = {} ForgedRoots = {}
    MaxProofs = 0
    Ata <- ClientAta
    WalletInputs <- Remembered
    PathLags = {0, 1}
    SendLists <- ClientSends
    Withdrawals = {1, 2}
    DummyViews = {d1, d2, d3}
    DummyInput <- Padding
    DummyIndices = {1}
    DummySend <- PaddingSend
    MaxPrepared = 2
SYMMETRY Symmetry
INVARIANT AlwaysASend
CHECK_DEADLOCK FALSE
