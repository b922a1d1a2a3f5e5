SPECIFICATION ConfigFlowSpec
CONSTANTS
    f1 = f1
    f2 = f2
    f3 = f3
    Flows <- ThreeFlows
    Typed <- Addresses
    Lower <- LowerCase
    Surprises <- AllSurprises
SYMMETRY SymmetricFlows
INVARIANTS
    OneEntryPerAccount
    NoSecondSetup
    EntryIsVerified
