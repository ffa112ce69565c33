SPECIFICATION Spec
CONSTANTS
    main = main
    other = other
    twin = twin
    alice = alice
    bob = bob
    prog1 = prog1
    prog2 = prog2
    verifier = verifier
    mint = mint
    dom1 = dom1
    dom2 = dom2
    TokenProgram = TokenProgram
    SystemProgram = SystemProgram
    Base = 4
    Width = 2
    P = 11
    MaxPayload = 2
    Deployments = {main, other, twin}
    Config <- MCConfig
    Wallets = {alice, bob}
    Roots = {3, 8}
    Amounts <- MCAmounts
    Plans <- MCPlans
    MaxProofs = 3
INVARIANTS ElementSpentOnce ExecutesAsBound PreparedAccepted
CHECK_DEADLOCK FALSE
