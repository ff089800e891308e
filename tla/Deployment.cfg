\* Eleven networks, one crash anywhere, one restart before the signers are done.
CONSTANTS
    Networks  <- MCNetworks
    Contracts <- MCContracts
    Settings  <- MCSettings
    Plan      <- MCPlan
    Start     <- MCStart
    Multisig  <- MCMultisig
    Wealthy   <- MCWealthy
    Ephemeral <- MCEphemeral
    Adminless <- MCAdminless
    HTokens   <- MCHTokens
    SupportedChains <- MCChains
    Unread = Unread
    MaxCrashes = 1
    MaxEager = 1
    MaxPending = 1
SPECIFICATION Spec
INVARIANTS
    NoNonceGap
    SettledMeansDesired
    NothingLeftToTheDeployer
    FundedAtMostOnce
    RegisteredHasCode
PROPERTIES
    AbortsOnlyFor
    Settles
CHECK_DEADLOCK FALSE
