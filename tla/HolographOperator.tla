------------------------- MODULE HolographOperator -------------------------
(***************************************************************************)
(* The operator contract of one chain (contracts HolographOperator.sol):   *)
(* bonding HLG into pods, the selection of an operator for every incoming  *)
(* cross-chain message, the execution of the resulting job by the selected *)
(* operator, a fallback or an operator of last resort, the slashing of an  *)
(* operator who missed its slot, and the recovery of failed jobs.          *)
(*                                                                         *)
(* A transaction either reverts, and then it is a step that is not taken,  *)
(* or takes effect at once, so every external function is one action.      *)
(* Pods are numbered from 1, as in _bondedOperators.  Solidity index i of  *)
(* a pod is position i + 1 of its sequence; index 0 is the zero address.   *)
(***************************************************************************)
EXTENDS Integers, Sequences, FiniteSets, Functions

CONSTANTS
  Accounts,               \* addresses that send transactions or are bonded
  Zero,                   \* address(0)
  This,                   \* the operator contract as a holder of HLG
  Treasury,               \* the treasury as a holder of HLG
  Owner,                  \* owner() of the accounts that are contracts
  JobHashes,              \* keccak256 of the payloads that may be delivered
  BaseBondAmount,         \* _baseBondAmount
  PodMultiplier,          \* _podMultiplier
  OperatorThreshold,      \* _operatorThreshold
  OperatorThresholdStep,  \* _operatorThresholdStep
  OperatorThresholdDivisor, \* _operatorThresholdDivisor
  BlockTime,              \* _blockTime, the length of one slot
  Fallbacks,              \* number of fallback operators packed in a job (5)
  Uint16Max,              \* type(uint16).max, the limit on a pod's length
  MaxPods,                \* bound: highest pod anybody bonds to
  MaxMessages,            \* bound: messages delivered (below 2^32, see README)
  Amounts,                \* bound: the HLG amounts of bonds and topups
  Gifts,                  \* bound: the HLG amounts sent to the contract
  InitialHLG              \* HLG each account holds at the start

Addresses == Accounts \union {Zero}
Holders   == Accounts \union {This, Treasury}
Contracts == DOMAIN Owner
Pods      == 1 .. MaxPods
Slots     == 1 .. MaxMessages
\* From this many seconds on anybody may execute a job.
OpenSeason == BlockTime * (Fallbacks + 1)

(***************************************************************************)
(* _getBaseBondAmount and _getCurrentBondAmount, for pods numbered from 1. *)
(***************************************************************************)
GetBaseBondAmount(pod) == PodMultiplier ^ (pod - 1) * BaseBondAmount

GetCurrentBondAmount(pods, pod) ==
  LET base      == GetBaseBondAmount(pod)
      threshold == OperatorThreshold \div 2 ^ (pod - 1)
      excess    == Len(pods[pod]) - threshold
  IN  IF pod <= Len(pods) /\ excess > 0
        THEN base + (base \div OperatorThresholdDivisor)
                      * (excess \div OperatorThresholdStep)
        ELSE base

ASSUME AddressAssumption ==
  /\ Zero \notin Accounts /\ This \notin Accounts /\ Treasury \notin Accounts
  /\ Zero # This /\ Zero # Treasury /\ This # Treasury
  /\ Contracts \subseteq Accounts
  /\ \A c \in Contracts : Owner[c] \in Addresses

\* Addresses have 160 bits.
ASSUME FinitenessAssumption == IsFiniteSet(Accounts)

ASSUME BoundAssumption ==
  /\ Fallbacks \in Nat /\ BlockTime \in Nat \ {0}
  /\ Uint16Max \in Nat /\ MaxPods \in Nat \ {0} /\ MaxMessages \in Nat
  /\ Amounts \subseteq Nat /\ Gifts \subseteq Nat
  /\ InitialHLG \in [Accounts -> Nat]

\* The prover has no facts about powers: these two are positive.
ASSUME BondAssumption ==
  /\ OperatorThresholdDivisor \in Nat \ {0}
  /\ OperatorThresholdStep \in Nat \ {0}
  /\ \A pod \in Pods : /\ GetBaseBondAmount(pod) \in Nat \ {0}
                       /\ OperatorThreshold \div 2 ^ (pod - 1) \in Nat

VARIABLES
  operatorPods,            \* address[][] _operatorPods
  bondedOperators,         \* pod an address is listed in, 0 when in none
  operatorPodIndex,        \* its index there
  bondedAmounts,           \* HLG bonded for an address
  operatorJobs,            \* _operatorJobsV2, unpacked
  elapsed,                 \* seconds since a job's startTimestamp (saturating)
  operatorTempStorage,     \* slot -> selected operator
  operatorTempStorageCounter,
  inboundMessageCounter,
  failedJobs,              \* _failedJobsV2
  bridgedIn,               \* successful bridge calls made with a payload
  balance,                 \* HLG balances of the holders
  gasSpike                 \* network gas price above what the jobs allow

podVars  == <<operatorPods, bondedOperators, operatorPodIndex>>
hlgVars  == <<bondedAmounts, balance>>
jobVars  == <<operatorJobs, elapsed, operatorTempStorage,
              operatorTempStorageCounter, inboundMessageCounter,
              failedJobs, bridgedIn>>
vars == <<operatorPods, bondedOperators, operatorPodIndex, bondedAmounts,
          operatorJobs, elapsed, operatorTempStorage,
          operatorTempStorageCounter, inboundMessageCounter, failedJobs,
          bridgedIn, balance, gasSpike>>

-----------------------------------------------------------------------------
\* The packed word of a job that does not exist is zero, hence its pod is 0.
NoJob == [pod |-> 0, slot |-> 0, fallbacks |-> [n \in 1..Fallbacks |-> 0]]

Jobs == [pod : Nat, slot : Nat, fallbacks : [1..Fallbacks -> Nat]]

OperatorJobExists(j) == operatorJobs[j].pod > 0

\* getJobDetails(j).operator
JobOperator(j) == operatorTempStorage[operatorJobs[j].slot]

IsSelectedFor(a, j) == OperatorJobExists(j) /\ JobOperator(j) = a

InPod(a) == bondedOperators[a] # 0

-----------------------------------------------------------------------------
(***************************************************************************)
(* HLG transfers (the utility token is a HolographERC20).  A transfer of   *)
(* more than the sender holds reverts.  The operator contract may spend    *)
(* from any account without an allowance.                                  *)
(***************************************************************************)
Transfer(hlg, from, to, amount) ==
  [[hlg EXCEPT ![from] = @ - amount] EXCEPT ![to] = @ + amount]

\* Faulty: the payer's balance is not checked.
PayInUnchecked(sender, amount) ==
  balance' = Transfer(balance, sender, This, amount)

\* transferFrom(sender, address(this), amount)
PayIn(sender, amount) ==
  /\ amount <= balance[sender]
  /\ balance' = Transfer(balance, sender, This, amount)

(***************************************************************************)
(* Appending an operator to a pod of the array pods, and recording where.  *)
(***************************************************************************)
PushOperator(pods, pod, operator) ==
  /\ operatorPods' = [pods EXCEPT ![pod] = Append(@, operator)]
  /\ operatorPodIndex' = [operatorPodIndex EXCEPT ![operator] = Len(pods[pod])]
  /\ bondedOperators' = [bondedOperators EXCEPT ![operator] = pod]

\* Faulty: the operator moved into the gap keeps its old index.
PopWithoutReindex(pod, index) ==
  LET array == operatorPods[pod]
      last  == Len(array)
  IN  IF index = 0
        THEN UNCHANGED podVars
        ELSE /\ bondedOperators' = [bondedOperators EXCEPT ![array[index + 1]] = 0]
             /\ operatorPodIndex' = [operatorPodIndex EXCEPT ![array[index + 1]] = 0]
             /\ operatorPods' =
                  [operatorPods EXCEPT ![pod] =
                     SubSeq([array EXCEPT ![index + 1] = array[last]], 1, last - 1)]

\* Faulty: the operator stays in its pod.
PopNothing(pod, index) == UNCHANGED podVars

\* _popOperator: the last entry of the pod takes the place of the removed one.
PopOperator(pod, index) ==
  LET array     == operatorPods[pod]
      operator  == array[index + 1]
      lastIndex == Len(array) - 1
      last      == array[lastIndex + 1]
  IN  IF index = 0
        THEN UNCHANGED podVars
        ELSE /\ bondedOperators' = [bondedOperators EXCEPT ![operator] = 0]
             /\ operatorPodIndex' =
                  IF index # lastIndex
                    THEN [operatorPodIndex EXCEPT ![operator] = 0,
                                                  ![last] = index]
                    ELSE [operatorPodIndex EXCEPT ![operator] = 0]
             /\ operatorPods' =
                  [operatorPods EXCEPT ![pod] =
                     SubSeq([array EXCEPT ![index + 1] = last], 1, lastIndex)]

\* The pods after opening every pod up to the requested one.
OpenPods(pod) ==
  [p \in 1 .. (IF Len(operatorPods) < pod THEN pod ELSE Len(operatorPods)) |->
     IF p <= Len(operatorPods) THEN operatorPods[p] ELSE <<Zero>>]

-----------------------------------------------------------------------------
\* init: one pod holding the zero address, which is marked as bonded.
Init ==
  /\ operatorPods = << <<Zero>> >>
  /\ bondedOperators = [a \in Addresses |-> IF a = Zero THEN 1 ELSE 0]
  /\ operatorPodIndex = [a \in Addresses |-> 0]
  /\ bondedAmounts = [a \in Addresses |-> 0]
  /\ operatorJobs = [j \in JobHashes |-> NoJob]
  /\ elapsed = [j \in JobHashes |-> 0]
  /\ operatorTempStorage = [s \in {0} \union Slots |-> Zero]
  /\ operatorTempStorageCounter = 0
  /\ inboundMessageCounter = 0
  /\ failedJobs = [j \in JobHashes |-> FALSE]
  /\ bridgedIn = [j \in JobHashes |-> 0]
  /\ balance = [h \in Holders |-> IF h \in Accounts THEN InitialHLG[h] ELSE 0]
  /\ gasSpike = FALSE

(***************************************************************************)
(* Bonding.                                                                *)
(***************************************************************************)
BondUtilityToken(sender, operator, amount, pod) ==
  /\ bondedOperators[operator] = 0
  /\ bondedAmounts[operator] = 0
  /\ operator \in Contracts => Owner[operator] # Zero
  /\ GetCurrentBondAmount(operatorPods, pod) <= amount
  /\ Len(OpenPods(pod)[pod]) < Uint16Max
  /\ PushOperator(OpenPods(pod), pod, operator)
  /\ bondedAmounts' = [bondedAmounts EXCEPT ![operator] = amount]
  /\ PayIn(sender, amount)
  /\ UNCHANGED <<jobVars, gasSpike>>

TopupUtilityToken(sender, operator, amount) ==
  /\ bondedOperators[operator] # 0
  /\ bondedAmounts' = [bondedAmounts EXCEPT ![operator] = @ + amount]
  /\ PayIn(sender, amount)
  /\ UNCHANGED <<podVars, jobVars, gasSpike>>

UnbondUtilityToken(sender, operator, recipient) ==
  /\ bondedOperators[operator] # 0
  /\ sender # operator => operator \in Contracts /\ Owner[operator] = sender
  /\ bondedAmounts[operator] <= balance[This]
  /\ bondedAmounts' = [bondedAmounts EXCEPT ![operator] = 0]
  /\ PopOperator(bondedOperators[operator], operatorPodIndex[operator])
  /\ balance' = Transfer(balance, This, recipient, bondedAmounts[operator])
  /\ UNCHANGED <<jobVars, gasSpike>>

\* A plain transfer of HLG to the contract, which no code of it notices.
SendHLG(sender, amount) ==
  /\ PayIn(sender, amount)
  /\ UNCHANGED <<podVars, bondedAmounts, jobVars, gasSpike>>

-----------------------------------------------------------------------------
(***************************************************************************)
(* crossChainMessage.  The random numbers are any pod, any index of it and *)
(* any fallback indices below the pod's size after the pop.  The messaging *)
(* layer delivers a payload once.                                          *)
(***************************************************************************)
NeverDelivered(j) ==
  ~OperatorJobExists(j) /\ ~failedJobs[j] /\ bridgedIn[j] = 0

CrossChainMessage(j, pod, index, underpriced, fallbacks) ==
  LET slot == operatorTempStorageCounter + 1
  IN  /\ NeverDelivered(j)
      /\ slot \in Slots
      /\ underpriced => index = 0 /\ \A n \in 1..Fallbacks : fallbacks[n] = 0
      /\ operatorTempStorageCounter' = slot
      /\ operatorTempStorage' =
           [operatorTempStorage EXCEPT ![slot] = operatorPods[pod][index + 1]]
      /\ PopOperator(pod, index)
      /\ operatorJobs' =
           [operatorJobs EXCEPT ![j] =
              [pod |-> pod, slot |-> slot, fallbacks |-> fallbacks]]
      /\ elapsed' = [elapsed EXCEPT ![j] = 0]
      /\ UNCHANGED <<hlgVars, inboundMessageCounter, failedJobs, bridgedIn,
                     gasSpike>>

\* The size of a pod the fallback indices are reduced by.
FallbackRange(pod) ==
  IF Len(operatorPods[pod]) > 1 THEN Len(operatorPods[pod]) - 1 ELSE 1

-----------------------------------------------------------------------------
(***************************************************************************)
(* Executing a job.                                                        *)
(***************************************************************************)
TimeDifference(j) == elapsed[j] \div BlockTime

\* Index of the fallback whose slot is running, 0 when none or when stale.
CurrentFallbackIndex(j) ==
  LET job      == operatorJobs[j]
      podIndex == job.fallbacks[TimeDifference(j)]
  IN  IF TimeDifference(j) \in 1..Fallbacks
         /\ podIndex < Len(operatorPods[job.pod])
        THEN podIndex ELSE 0

\* Faulty: a replacement is possible before the selected operator's slot ends.
ReplaceAtOnce(sender, j) == ~gasSpike

\* Faulty: any bonded account may take a fallback slot.
ReplaceByAnyBonded(sender, j) ==
  TimeDifference(j) > 0 /\ ~gasSpike /\ bondedOperators[sender] # 0

\* The checks on a sender who is not the selected operator.
MayReplace(sender, j) ==
  /\ TimeDifference(j) > 0
  /\ ~gasSpike
  /\ TimeDifference(j) <= Fallbacks =>
       IF CurrentFallbackIndex(j) > 0
         THEN operatorPods[operatorJobs[j].pod][CurrentFallbackIndex(j) + 1]
                = sender
         ELSE bondedOperators[sender] = operatorJobs[j].pod

\* Faulty: the slashed operator stays in the pod with whatever is left.
SlashAndKeep(operator, sender, pod) ==
  LET amount   == GetBaseBondAmount(pod)
      rewarded == IF bondedAmounts[sender] # 0 THEN sender ELSE Treasury
  IN  /\ amount <= bondedAmounts[operator] /\ amount <= balance[This]
      /\ bondedAmounts' = [bondedAmounts EXCEPT ![operator] = @ - amount]
      /\ balance' = Transfer(balance, This, rewarded, amount)
      /\ PushOperator(operatorPods, pod, operator)

\* Faulty: the leftovers are paid out but stay recorded as bonded.
SlashWithoutClearing(operator, sender, pod) ==
  LET amount    == GetBaseBondAmount(pod)
      rest      == bondedAmounts[operator] - amount
      leftovers == IF rest >= amount THEN 0 ELSE rest
      rewarded  == IF bondedAmounts[sender] # 0 THEN sender ELSE Treasury
  IN  /\ rest >= 0 /\ amount + leftovers <= balance[This]
      /\ bondedAmounts' = [bondedAmounts EXCEPT ![operator] = rest]
      /\ balance' = Transfer(Transfer(balance, This, rewarded, amount),
                             This, operator, leftovers)
      /\ IF leftovers = 0 THEN PushOperator(operatorPods, pod, operator)
                          ELSE UNCHANGED podVars

\* Faulty: the slashed operator forfeits the leftovers to the executor.
SlashEverything(operator, sender, pod) ==
  LET rewarded == IF bondedAmounts[sender] # 0 THEN sender ELSE Treasury
  IN  /\ bondedAmounts[operator] <= balance[This]
      /\ bondedAmounts' = [bondedAmounts EXCEPT ![operator] = 0]
      /\ balance' = Transfer(balance, This, rewarded, bondedAmounts[operator])
      /\ UNCHANGED podVars

\* The selected operator pays the pod's base amount to the executor, if that
\* one is bonded, or to the treasury; it stays in the pod when it can pay again.
Slash(operator, sender, pod) ==
  LET amount    == GetBaseBondAmount(pod)
      rest      == bondedAmounts[operator] - amount
      stays     == rest >= amount
      leftovers == IF stays THEN 0 ELSE rest
      rewarded  == IF bondedAmounts[sender] # 0 THEN sender ELSE Treasury
  IN  /\ rest >= 0
      /\ amount + leftovers <= balance[This]
      /\ bondedAmounts' =
           [bondedAmounts EXCEPT ![operator] = IF stays THEN rest ELSE 0]
      /\ balance' = Transfer(Transfer(balance, This, rewarded, amount),
                             This, operator, leftovers)
      /\ IF stays THEN PushOperator(operatorPods, pod, operator)
                  ELSE UNCHANGED podVars

\* nonRevertingBridgeCall and its try/catch; success is the bridge's answer.
BridgeCall(j, success) ==
  IF success
    THEN /\ bridgedIn' = [bridgedIn EXCEPT ![j] = @ + 1]
         /\ UNCHANGED failedJobs
    ELSE /\ failedJobs' = [failedJobs EXCEPT ![j] = TRUE]
         /\ UNCHANGED bridgedIn

ExecuteJob(sender, j, success) ==
  LET operator == JobOperator(j)
      pod      == operatorJobs[j].pod
  IN  /\ OperatorJobExists(j)
      /\ operatorJobs' = [operatorJobs EXCEPT ![j] = NoJob]
      /\ elapsed' = [elapsed EXCEPT ![j] = 0]
      /\ \/ /\ operator = Zero
            /\ UNCHANGED <<podVars, hlgVars>>
         \/ /\ operator = sender
            /\ PushOperator(operatorPods, pod, sender)
            /\ UNCHANGED hlgVars
         \/ /\ operator \notin {Zero, sender}
            /\ MayReplace(sender, j)
            /\ Slash(operator, sender, pod)
      /\ inboundMessageCounter' = inboundMessageCounter + 1
      /\ BridgeCall(j, success)
      /\ UNCHANGED <<operatorTempStorage, operatorTempStorageCounter, gasSpike>>

\* Faulty: the failed flag is not deleted.
RecoverAndKeep(j) ==
  /\ failedJobs[j]
  /\ bridgedIn' = [bridgedIn EXCEPT ![j] = @ + 1]
  /\ UNCHANGED <<podVars, hlgVars, operatorJobs, elapsed, operatorTempStorage,
                 operatorTempStorageCounter, inboundMessageCounter, failedJobs,
                 gasSpike>>

\* recoverJob, called by the admin; when the bridge call fails it reverts.
RecoverJob(j) ==
  /\ failedJobs[j]
  /\ bridgedIn' = [bridgedIn EXCEPT ![j] = @ + 1]
  /\ failedJobs' = [failedJobs EXCEPT ![j] = FALSE]
  /\ UNCHANGED <<podVars, hlgVars, operatorJobs, elapsed, operatorTempStorage,
                 operatorTempStorageCounter, inboundMessageCounter, gasSpike>>

-----------------------------------------------------------------------------
(***************************************************************************)
(* The chain: time passes for every open job, and its gas price moves.     *)
(***************************************************************************)
Tick ==
  /\ \E j \in JobHashes : OperatorJobExists(j) /\ elapsed[j] < OpenSeason
  /\ elapsed' = [j \in JobHashes |->
                   IF OperatorJobExists(j) /\ elapsed[j] < OpenSeason
                     THEN elapsed[j] + 1 ELSE elapsed[j]]
  /\ UNCHANGED <<podVars, hlgVars, operatorJobs, operatorTempStorage,
                 operatorTempStorageCounter, inboundMessageCounter,
                 failedJobs, bridgedIn, gasSpike>>

GasPriceMoves ==
  /\ gasSpike' = ~gasSpike
  /\ UNCHANGED <<podVars, hlgVars, jobVars>>

Bonding ==
  \/ \E sender \in Accounts, operator \in Addresses, amount \in Amounts :
       \/ TopupUtilityToken(sender, operator, amount)
       \/ \E pod \in Pods : BondUtilityToken(sender, operator, amount, pod)
  \/ \E sender \in Accounts, operator \in Addresses, recipient \in Holders :
       UnbondUtilityToken(sender, operator, recipient)
  \/ \E sender \in Accounts, amount \in Gifts : SendHLG(sender, amount)

Messaging ==
  \E j \in JobHashes, pod \in DOMAIN operatorPods, underpriced \in BOOLEAN :
    \E index \in 0 .. Len(operatorPods[pod]) - 1,
       fallbacks \in [1..Fallbacks -> 0 .. FallbackRange(pod) - 1] :
      CrossChainMessage(j, pod, index, underpriced, fallbacks)

Executing ==
  \E j \in JobHashes :
    \/ \E sender \in Accounts, success \in BOOLEAN : ExecuteJob(sender, j, success)
    \/ RecoverJob(j)

Next == Bonding \/ Messaging \/ Executing \/ Tick \/ GasPriceMoves

Spec == Init /\ [][Next]_vars

(***************************************************************************)
(* Blocks keep coming and gas spikes do not last for ever.  The selected   *)
(* operator may never act; but of the others, if any may execute the job   *)
(* again and again while the gas price allows it, one does.                *)
(***************************************************************************)
Fairness ==
  /\ WF_vars(Tick)
  /\ WF_vars(gasSpike /\ GasPriceMoves)
  /\ \A j \in JobHashes :
       SF_vars(\E sender \in Accounts, success \in BOOLEAN :
                 /\ sender # JobOperator(j) /\ ~gasSpike
                 /\ ExecuteJob(sender, j, success))

FairSpec == Spec /\ Fairness

-----------------------------------------------------------------------------
(***************************************************************************)
(* Properties.                                                             *)
(***************************************************************************)
TypeOK ==
  /\ operatorPods \in Seq(Seq(Addresses))
  /\ bondedOperators \in [Addresses -> Nat]
  /\ operatorPodIndex \in [Addresses -> Nat]
  /\ bondedAmounts \in [Addresses -> Nat]
  /\ operatorJobs \in [JobHashes -> Jobs]
  /\ elapsed \in [JobHashes -> Nat]
  /\ operatorTempStorage \in [{0} \union Slots -> Addresses]
  /\ operatorTempStorageCounter \in {0} \union Slots
  /\ inboundMessageCounter \in Nat
  /\ failedJobs \in [JobHashes -> BOOLEAN]
  /\ bridgedIn \in [JobHashes -> Nat]
  /\ balance \in [Holders -> Nat]
  /\ gasSpike \in BOOLEAN

\* Index 0 of every pod is the zero address, every other entry is an account
\* whose recorded pod and index are exactly that entry, and an account with a
\* recorded pod is found there.  The pushes of bonding and of executing and the
\* swap of _popOperator all have to keep the three structures in step.
PodsIndexed ==
  /\ \A p \in DOMAIN operatorPods :
       /\ operatorPods[p] # << >> /\ operatorPods[p][1] = Zero
       /\ \A i \in 2 .. Len(operatorPods[p]) :
            LET a == operatorPods[p][i]
            IN  a \in Accounts /\ bondedOperators[a] = p
                /\ operatorPodIndex[a] = i - 1
  /\ \A a \in Accounts :
       IF InPod(a)
         THEN /\ bondedOperators[a] \in DOMAIN operatorPods
              /\ operatorPodIndex[a] + 1 \in 2 .. Len(operatorPods[bondedOperators[a]])
              /\ operatorPods[bondedOperators[a]][operatorPodIndex[a] + 1] = a
         ELSE operatorPodIndex[a] = 0

\* An operator selected for a job is in no pod, is selected for that job only,
\* and the job names an existing pod: two open jobs never share an operator or
\* a slot of the temporary storage.
SelectedForOneJob ==
  \A j \in JobHashes : OperatorJobExists(j) =>
    /\ operatorJobs[j].pod \in DOMAIN operatorPods
    /\ operatorJobs[j].slot \in 1 .. operatorTempStorageCounter
    /\ JobOperator(j) # Zero => ~InPod(JobOperator(j))
    /\ \A k \in JobHashes \ {j} : OperatorJobExists(k) =>
         /\ operatorJobs[k].slot # operatorJobs[j].slot
         /\ JobOperator(j) # Zero => JobOperator(k) # JobOperator(j)

\* Every account with HLG bonded is in a pod or selected for an open job, so it
\* can get the HLG back by unbonding, now or once the job is finished; and an
\* account that is in a pod or selected has bonded at least the base amount of
\* that pod, so taking the base amount in executeJob never underflows.
BondIsLiveAndSufficient ==
  /\ \A a \in Accounts : bondedAmounts[a] > 0 =>
       InPod(a) \/ \E j \in JobHashes : IsSelectedFor(a, j)
  /\ \A a \in Accounts : InPod(a) =>
       bondedAmounts[a] >= GetBaseBondAmount(bondedOperators[a])
  /\ \A j \in JobHashes : OperatorJobExists(j) /\ JobOperator(j) # Zero =>
       bondedAmounts[JobOperator(j)] >= GetBaseBondAmount(operatorJobs[j].pod)

\* The contract could pay out all recorded bonds at once.  It may hold more: HLG
\* also arrives by plain transfers and by unbonding to the contract itself.
Solvent == balance[This] >= SumFunction(bondedAmounts)

\* A payload is applied by the bridge at most once, and is open, failed or
\* applied but never two of these: a finished job cannot be executed again, and
\* a recovered one cannot be recovered again.
AppliedAtMostOnce ==
  \A j \in JobHashes :
    /\ bridgedIn[j] <= 1
    /\ ~(OperatorJobExists(j) /\ failedJobs[j])
    /\ ~(bridgedIn[j] = 1 /\ (OperatorJobExists(j) \/ failedJobs[j]))

\* The account unbonds, and takes all of its HLG out.
UnbondsAll(a) ==
  InPod(a) /\ ~InPod(a)' /\ bondedAmounts'[a] = 0 /\ UNCHANGED operatorJobs

\* Job j is finished after the slot of its operator a, which either stays in the
\* pod less the base amount or leaves with what is left after it.
PaysForBeingLate(a, j) ==
  LET pod == operatorJobs[j].pod
      due == bondedAmounts[a] - GetBaseBondAmount(pod)
  IN  /\ IsSelectedFor(a, j) /\ ~OperatorJobExists(j)'
      /\ elapsed[j] >= BlockTime /\ ~gasSpike
      /\ \/ bondedAmounts'[a] = due /\ bondedOperators'[a] = pod
         \/ /\ bondedAmounts'[a] = 0 /\ ~InPod(a)'
            /\ balance'[a] = balance[a] + due

\* HLG recorded as bonded for an account goes down only when the account
\* unbonds, or when it let its slot of an open job pass while the gas price was
\* not above the job's: then it loses the base amount of the pod and no more.
OnlyLateOperatorsLoseBond ==
  [][\A a \in Accounts : bondedAmounts'[a] < bondedAmounts[a] =>
       UnbondsAll(a) \/ \E j \in JobHashes : PaysForBeingLate(a, j)]_vars

\* While the slot of a fallback runs whose index is still occupied, the base
\* amount taken from the selected operator goes to the account at that index.
FallbackIsRewarded ==
  [][\A j \in JobHashes :
       LET pod   == operatorJobs[j].pod
           index == operatorJobs[j].fallbacks[elapsed[j] \div BlockTime]
       IN  /\ OperatorJobExists(j) /\ ~OperatorJobExists(j)'
           /\ elapsed[j] \div BlockTime \in 1..Fallbacks
           /\ index \in 1 .. Len(operatorPods[pod]) - 1
           /\ bondedAmounts'[JobOperator(j)] < bondedAmounts[JobOperator(j)]
           => balance'[operatorPods[pod][index + 1]]
                = balance[operatorPods[pod][index + 1]] + GetBaseBondAmount(pod)]_vars

\* Every open job is finished even when its operator never acts: after the last
\* fallback slot no account is refused, whatever happened to the operators, their
\* bonds and the pods meanwhile.
JobsFinish ==
  \A j \in JobHashes : OperatorJobExists(j) ~> ~OperatorJobExists(j)
=============================================================================
