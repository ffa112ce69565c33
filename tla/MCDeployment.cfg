SPECIFICATION Spec
CONSTANTS
    Users = {alice, bob}
    Programs = {veil, other}
    PoolProgram = veil
    Nobody = Nobody
    Mints = {usdc, usdt}
    Domains = {mainnet}
    NoPool = NoPool
    MaxSigned = 2
PROPERTIES OnlyAuthorityInitialises AbandonedForGood
