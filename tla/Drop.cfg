CONSTANTS
    a1 = a1
    a2 = a2
    Accounts = {a1, a2}
    OPEN_EDITION = 9
    EditionSizes = {2, 9}
    SalesConfigurations <- TwoConfigurations
    Quotes <- BothQuotes
    Fees = {0, 1}
    Quantities = {1, 2}
    Extras = {0, 1}
    MaxUsd = 4
    MaxMinted = 4
    MaxTime = 2
SPECIFICATION Spec
INVARIANTS
    TypeOK
    WithinEdition
    ProceedsCovered
PROPERTIES
    FinalizedEditionStays
