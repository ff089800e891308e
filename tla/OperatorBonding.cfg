CONSTANTS
  a1 = a1
  a2 = a2
  a3 = a3
  Accounts = {a1, a2, a3}
  Zero = Zero
  This = This
  Treasury = Treasury
  Owner <- ContractOfA1
  JobHashes = {j1, j2}
  BaseBondAmount = 2
  PodMultiplier = 2
  OperatorThreshold = 1
  OperatorThresholdStep = 2
  OperatorThresholdDivisor = 2
  BlockTime = 1
  Fallbacks = 1
  Uint16Max = 65535
  MaxPods = 1
  MaxMessages = 2
  Amounts = {2, 3}
  Gifts = {2}
  InitialHLG <- ThreeThreeNone
SPECIFICATION Spec
INVARIANTS
  TypeOK
  PodsIndexed
  SelectedForOneJob
  BondIsLiveAndSufficient
  Solvent
  AppliedAtMostOnce
PROPERTIES
  OnlyLateOperatorsLoseBond
  FallbackIsRewarded
CHECK_DEADLOCK FALSE
