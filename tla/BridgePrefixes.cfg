CONSTANTS
  Chains = {1, 2}
  Origin = 2
  Accounts = {a1, a2}
  Zero = Zero
  KnownOperators = {}
  Width = 2
  Numbers = {0}
  Batches <- BatchOverTheEnd
  Fees = {0}
  Amounts = {}
  MaxNonce <- TwoAndOne
  MaxNative = 0
SPECIFICATION Spec
INVARIANTS
  NoOverlap
CHECK_DEADLOCK FALSE
