CONSTANTS
  Chains = {1, 3}
  Origin = 1
  Accounts = {a1, a2}
  Zero = Zero
  KnownOperators = {a1}
  Width = 1
  Numbers = {}
  Batches <- OneByOne
  Fees = {0, 1}
  Amounts = {1}
  MaxNonce <- TwoAndOne
  MaxNative = 1
SPECIFICATION Spec
INVARIANTS
  FailedJobsAreRecoverable
CHECK_DEADLOCK FALSE
