CONSTANTS
  a1 = a1
  a2 = a2
  Accounts = {a1, a2}
  Zero = Zero
  TokenIds = {0, 1, 2, 3}
  SourceApproved <- ApprovedBySource
  MaxBatch = 2
  Batches <- MintedTogether
SPECIFICATION Spec
INVARIANTS
  AllTokensEnumerated
  OwnedTokensEnumerated
  BurnedTokensHaveNoOwner
PROPERTIES
  ApprovalsEndWithOwnership
  ImplementsLedger
CHECK_DEADLOCK FALSE
