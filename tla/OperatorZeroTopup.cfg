CONSTANTS
  a1 = a1
  a2 = a2
  a3 = a3
  Accounts = {a1, a2}
  Zero = Zero
  This = This
  Treasury = Treasury
  Owner <- NoContracts
  JobHashes = {j1}
  BaseBondAmount = 1
  PodMultiplier = 2
  OperatorThreshold = 1000
  OperatorThresholdStep = 10
  OperatorThresholdDivisor = 100
  BlockTime = 1
  Fallbacks = 1
  Uint16Max = 65535
  MaxPods = 1
  MaxMessages = 2
  Amounts = {2}
  Gifts = {}
  InitialHLG <- TwoEach
SPECIFICATION Spec
INVARIANT
  ZeroAddressHoldsNoBond
CHECK_DEADLOCK FALSE
