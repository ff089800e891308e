SPECIFICATION Spec
CONSTANTS
    Accounts = {a1, a2}
    START_DATE = 1
    INITIAL_MAX_SUPPLY = 3
    MINT_INTERVAL = 2
    Prices = {0, 2}
    Limits = {0, 3}
    Quantities = {0, 1, 2}
    Extras = {0, 1}
    MaxMinted = 4
    MaxTime = 7
INVARIANTS
    LastTokensCanBeBought
    SalesAreCollected
PROPERTIES
    PurchasesWithinSupply
