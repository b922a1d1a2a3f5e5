SPECIFICATION FairIntegration
CONSTANTS
    Locks <- TwoLocks
    MaxChanges = 2
INVARIANTS
    IntegrationTypeOK
    TokensAgree
PROPERTIES
    LoadsFromCache
    KeysSurvive
    ForgetsOnlyTheGone
