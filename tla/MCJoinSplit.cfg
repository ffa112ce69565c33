SPECIFICATION Spec
CONSTANTS
    spendKey = spendKey otherSpendKey = otherSpendKey
    viewKey = viewKey otherViewKey = otherViewKey
    blind = blind mint = mint
    Modulus = 11 MaxValue = 3 MaxAmount = 2 Capacity = 2
    SpendKeys = {spendKey, otherSpendKey}
    ViewKeys = {viewKey, otherViewKey}
    Blindings = {blind}
    Keys <- OutputKeys
    Mints = {mint}
INVARIANTS SdkAgreesWithCircuit CircuitConserves CircuitConsumesLeaves
