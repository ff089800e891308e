CONSTANTS
  Chains = {1, 3}
  Origin = 1
  Accounts = {a1, a2}
  Zero = Zero
  KnownOperators = {a1}
  Width = 1
  Numbers = {}
  Batches <- OneByOne
  Fees = {1}
  Amounts = {2}
  MaxNonce <- TwoAndOne
  MaxNative = 2
SPECIFICATION Spec
INVARIANTS
  TypeOK
  CoinsBacked
PROPERTIES
  ImplementsTeleport
CHECK_DEADLOCK FALSE
