CONSTANTS
  Chains = {1, 3}
  Origin = 1
  Accounts = {a1, a2}
  Zero = Zero
  KnownOperators = {}
  Width = 2
  Numbers = {1}
  Batches <- BatchOverTheEnd
  Fees = {0}
  Amounts = {}
  MaxNonce <- TwoAndOne
  MaxNative = 0
SPECIFICATION Spec
SYMMETRY AccountSymmetry
INVARIANTS
  TokenInOnePlace
PROPERTIES
  ImplementsTeleport
CHECK_DEADLOCK FALSE
