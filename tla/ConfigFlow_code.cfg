SPECIFICATION ConfigFlowSpec
CONSTANTS
    f1 = f1
    f2 = f2
    f3 = f3
    Flows <- OneFlow
    Typed <- Addresses
    Lower <- LowerCase
    Surprises <- NoSurprises
INVARIANTS
    OnlyWrongCodesRefused
