---------------------- MODULE HolographOperatorProofs ----------------------
(***************************************************************************)
(* Proofs about HolographOperator for any number of accounts, pods and     *)
(* jobs: type correctness, the agreement of the pod arrays with the        *)
(* recorded pods and indices, the exclusiveness of a selection, that a     *)
(* selected operator can always pay for being late, that the contract      *)
(* holds the HLG recorded as bonded, that a fallback is rewarded, that an  *)
(* open job always finds somebody who can execute it, and that the contract*)
(* implements the staking specification step by step.                      *)
(***************************************************************************)
EXTENDS OperatorRefinement, SumTheorems, SequenceTheorems, TLAPS

\* The zero address counts as bonded, so nobody can be bonded in its name.
ZeroIsMarked == bondedOperators[Zero] # 0

\* The bound on the pods anybody bonds to bounds the pods that get opened.
PodsBounded == Len(operatorPods) \in Pods

IInv ==
  /\ TypeOK
  /\ PodsBounded
  /\ ZeroIsMarked
  /\ PodsIndexed
  /\ SelectedForOneJob
  /\ BondIsLiveAndSufficient

USE DEF Addresses, Holders

-----------------------------------------------------------------------------
(***************************************************************************)
(* Pushing to and popping from a pod.                                      *)
(***************************************************************************)

\* An array of pods extends the current one with pods that hold only Zero.
Extends(pods) ==
  /\ pods \in Seq(Seq(Addresses))
  /\ Len(operatorPods) <= Len(pods)
  /\ \A p \in DOMAIN pods :
       pods[p] = IF p <= Len(operatorPods) THEN operatorPods[p] ELSE <<Zero>>

\* Pushing an account that is in no pod keeps the arrays and records in step.
LEMMA PushKeepsPods ==
  ASSUME TypeOK, PodsIndexed,
         NEW pods, Extends(pods), NEW pod \in DOMAIN pods,
         NEW operator \in Accounts, ~InPod(operator),
         PushOperator(pods, pod, operator)
  PROVE  /\ operatorPods' \in Seq(Seq(Addresses))
         /\ bondedOperators' \in [Addresses -> Nat]
         /\ operatorPodIndex' \in [Addresses -> Nat]
         /\ Len(operatorPods') = Len(pods)
         /\ PodsIndexed'
PROOF
<1> DEFINE grown == Append(pods[pod], operator)
<1>1. /\ pods \in Seq(Seq(Addresses)) /\ pod \in 1..Len(pods)
      /\ pods[pod] \in Seq(Addresses)
      /\ grown \in Seq(Addresses)
      /\ Len(grown) = Len(pods[pod]) + 1
      /\ Len(pods[pod]) \in Nat
      /\ \A i \in 1..Len(pods[pod]) : grown[i] = pods[pod][i]
      /\ grown[Len(pods[pod]) + 1] = operator
  BY DEF Extends
<1>2. /\ operatorPods' = [pods EXCEPT ![pod] = grown]
      /\ operatorPods' \in Seq(Seq(Addresses))
      /\ Len(operatorPods') = Len(pods)
      /\ operatorPods'[pod] = grown
      /\ \A p \in DOMAIN pods \ {pod} : operatorPods'[p] = pods[p]
      /\ DOMAIN operatorPods' = DOMAIN pods
  BY <1>1 DEF PushOperator
<1>3. /\ bondedOperators' = [bondedOperators EXCEPT ![operator] = pod]
      /\ operatorPodIndex' =
           [operatorPodIndex EXCEPT ![operator] = Len(pods[pod])]
      /\ bondedOperators' \in [Addresses -> Nat]
      /\ operatorPodIndex' \in [Addresses -> Nat]
  BY <1>1 DEF PushOperator, TypeOK
<1>4. \A p \in DOMAIN pods :
        /\ pods[p] # << >> /\ pods[p][1] = Zero /\ Len(pods[p]) \in Nat \ {0}
        /\ \A i \in 2..Len(pods[p]) :
             /\ p <= Len(operatorPods) /\ pods[p][i] \in Accounts
             /\ bondedOperators[pods[p][i]] = p
             /\ operatorPodIndex[pods[p][i]] = i - 1
             /\ pods[p][i] # operator
  <2> TAKE p \in DOMAIN pods
  <2>1. CASE p <= Len(operatorPods)
    <3>1. p \in DOMAIN operatorPods /\ pods[p] = operatorPods[p]
          /\ operatorPods[p] \in Seq(Addresses)
      BY <1>1, <2>1 DEF Extends, TypeOK
    <3>2. /\ operatorPods[p] # << >> /\ operatorPods[p][1] = Zero
          /\ \A i \in 2 .. Len(operatorPods[p]) :
               /\ operatorPods[p][i] \in Accounts
               /\ bondedOperators[operatorPods[p][i]] = p
               /\ operatorPodIndex[operatorPods[p][i]] = i - 1
      BY <3>1 DEF PodsIndexed
    <3>3. p # 0 /\ bondedOperators[operator] = 0
      BY <3>1 DEF InPod, TypeOK
    <3> QED BY <2>1, <3>1, <3>2, <3>3
  <2>2. CASE ~(p <= Len(operatorPods))
    <3>1. pods[p] = <<Zero>>
      BY <2>2 DEF Extends
    <3>2. Len(<<Zero>>) = 1 /\ <<Zero>>[1] = Zero /\ <<Zero>> # << >>
      OBVIOUS
    <3> QED BY <3>1, <3>2
  <2> QED BY <2>1, <2>2
<1>5. ASSUME NEW p \in DOMAIN operatorPods'
      PROVE  /\ operatorPods'[p] # << >> /\ operatorPods'[p][1] = Zero
             /\ \A i \in 2 .. Len(operatorPods'[p]) :
                  LET a == operatorPods'[p][i]
                  IN  /\ a \in Accounts /\ bondedOperators'[a] = p
                      /\ operatorPodIndex'[a] = i - 1
  <2>0. p \in DOMAIN pods /\ Zero \notin Accounts
    BY <1>2, AddressAssumption
  <2>1. CASE p = pod
    <3>1. /\ operatorPods'[p] = grown
          /\ grown # << >> /\ grown[1] = Zero
      <4>1. Len(pods[pod]) \in Nat \ {0} /\ pods[pod][1] = Zero
        BY <1>4
      <4>2. 1 \in 1..Len(pods[pod]) /\ Len(grown) # 0
        BY <1>1, <4>1
      <4>3. grown # << >>
        BY <4>2
      <4> QED BY <1>1, <1>2, <2>1, <4>1, <4>2, <4>3
    <3>2. ASSUME NEW i \in 2 .. Len(grown)
          PROVE  /\ grown[i] \in Accounts
                 /\ bondedOperators'[grown[i]] = p
                 /\ operatorPodIndex'[grown[i]] = i - 1
      <4>1. CASE i = Len(pods[pod]) + 1
        BY <1>1, <1>3, <2>1, <4>1 DEF TypeOK
      <4>2. CASE i # Len(pods[pod]) + 1
        <5>1. i \in 2 .. Len(pods[pod]) /\ grown[i] = pods[pod][i]
          BY <1>1, <4>2
        <5>2. /\ pods[pod][i] \in Accounts /\ pods[pod][i] # operator
              /\ bondedOperators[pods[pod][i]] = pod
              /\ operatorPodIndex[pods[pod][i]] = i - 1
          BY <1>4, <5>1
        <5> HIDE DEF grown
        <5> QED BY <1>3, <2>1, <5>1, <5>2 DEF TypeOK
      <4> QED BY <4>1, <4>2
    <3> QED BY <3>1, <3>2
  <2>2. CASE p # pod
    <3>1. operatorPods'[p] = pods[p]
      BY <1>2, <2>0, <2>2
    <3> QED BY <1>3, <1>4, <2>0, <3>1 DEF TypeOK
  <2> QED BY <2>1, <2>2
<1>6. ASSUME NEW a \in Accounts
      PROVE  IF bondedOperators'[a] # 0
               THEN /\ bondedOperators'[a] \in DOMAIN operatorPods'
                    /\ operatorPodIndex'[a] + 1
                         \in 2 .. Len(operatorPods'[bondedOperators'[a]])
                    /\ operatorPods'[bondedOperators'[a]]
                                    [operatorPodIndex'[a] + 1] = a
               ELSE operatorPodIndex'[a] = 0
  <2>1. CASE a = operator
    BY <1>1, <1>2, <1>3, <1>4, <2>1 DEF TypeOK
  <2>2. CASE a # operator /\ bondedOperators[a] = 0
    BY <1>3, <2>2 DEF TypeOK, PodsIndexed, InPod
  <2>3. CASE a # operator /\ bondedOperators[a] # 0
    <3>1. /\ bondedOperators'[a] = bondedOperators[a]
          /\ operatorPodIndex'[a] = operatorPodIndex[a]
          /\ bondedOperators[a] \in DOMAIN operatorPods
          /\ operatorPodIndex[a] + 1 \in 2 .. Len(operatorPods[bondedOperators[a]])
          /\ operatorPods[bondedOperators[a]][operatorPodIndex[a] + 1] = a
      BY <1>3, <2>3 DEF TypeOK, PodsIndexed, InPod
    <3>2. /\ bondedOperators[a] \in DOMAIN pods
          /\ pods[bondedOperators[a]] = operatorPods[bondedOperators[a]]
      <4>1. /\ bondedOperators[a] \in 1 .. Len(operatorPods)
            /\ DOMAIN pods = 1 .. Len(pods)
            /\ Len(operatorPods) \in Nat /\ Len(pods) \in Nat
        <5>1. operatorPods \in Seq(Seq(Addresses)) /\ pods \in Seq(Seq(Addresses))
          BY <1>1 DEF TypeOK
        <5> HIDE DEF Addresses
        <5> QED BY <5>1, <3>1, LenProperties, Zenon
      <4> QED BY <4>1 DEF Extends
    <3>3. CASE bondedOperators[a] = pod
      BY <1>1, <1>2, <2>3, <3>1, <3>2, <3>3
    <3>4. CASE bondedOperators[a] # pod
      BY <1>2, <2>3, <3>1, <3>2, <3>4
    <3> QED BY <3>3, <3>4
  <2> QED BY <2>1, <2>2, <2>3
<1> QED BY <1>2, <1>3, <1>5, <1>6 DEF PodsIndexed, InPod

\* Popping an index above 0 keeps the arrays and records in step and takes only
\* the account at that index out.
LEMMA PopKeepsPods ==
  ASSUME TypeOK, PodsIndexed,
         NEW pod \in DOMAIN operatorPods,
         NEW index \in 1 .. Len(operatorPods[pod]) - 1,
         PopOperator(pod, index)
  PROVE  /\ operatorPods' \in Seq(Seq(Addresses))
         /\ bondedOperators' =
              [bondedOperators EXCEPT ![operatorPods[pod][index + 1]] = 0]
         /\ operatorPodIndex' \in [Addresses -> Nat]
         /\ Len(operatorPods') = Len(operatorPods)
         /\ PodsIndexed'
PROOF
<1> DEFINE array == operatorPods[pod]
           n == Len(array)
           gone == array[index + 1]
           last == array[n]
           shrunk == SubSeq([array EXCEPT ![index + 1] = last], 1, n - 1)
<1>1. /\ operatorPods \in Seq(Seq(Addresses)) /\ array \in Seq(Addresses)
      /\ n \in Nat /\ index + 1 \in 2..n /\ n \in 2..n
      /\ DOMAIN operatorPods = 1..Len(operatorPods) /\ pod # 0
  BY DEF TypeOK
<1>2. \A p \in DOMAIN operatorPods :
        /\ operatorPods[p] # << >> /\ operatorPods[p][1] = Zero
        /\ \A i \in 2..Len(operatorPods[p]) :
             /\ operatorPods[p][i] \in Accounts
             /\ bondedOperators[operatorPods[p][i]] = p
             /\ operatorPodIndex[operatorPods[p][i]] = i - 1
  BY DEF PodsIndexed
<1>3. /\ gone \in Accounts /\ last \in Accounts
      /\ operatorPodIndex[gone] = index /\ operatorPodIndex[last] = n - 1
      /\ bondedOperators[gone] = pod /\ bondedOperators[last] = pod
  <2>1. /\ \A i \in 2..n :
             /\ array[i] \in Accounts /\ bondedOperators[array[i]] = pod
             /\ operatorPodIndex[array[i]] = i - 1
    BY <1>2
  <2>2. /\ gone \in Accounts /\ bondedOperators[gone] = pod
        /\ operatorPodIndex[gone] = (index + 1) - 1
    BY <1>1, <2>1
  <2>3. /\ last \in Accounts /\ bondedOperators[last] = pod
        /\ operatorPodIndex[last] = n - 1
    BY <1>1, <2>1
  <2> QED BY <1>1, <2>2, <2>3
<1>4. /\ shrunk \in Seq(Addresses) /\ Len(shrunk) = n - 1
      /\ \A i \in 1 .. n - 1 :
           shrunk[i] = IF i = index + 1 THEN last ELSE array[i]
  <2> DEFINE swapped == [array EXCEPT ![index + 1] = last]
  <2>1. swapped \in Seq(Addresses) /\ Len(swapped) = n
        /\ \A i \in 1..n : swapped[i] = IF i = index + 1 THEN last ELSE array[i]
    BY <1>1, <1>3, ExceptSeq
  <2>2. \A i \in 1 .. n - 1 : swapped[i] \in Addresses
    BY <1>1, <2>1
  <2> HIDE DEF swapped
  <2>3. /\ SubSeq(swapped, 1, n - 1) \in Seq(Addresses)
        /\ Len(SubSeq(swapped, 1, n - 1)) = n - 1
        /\ \A i \in 1 .. n - 1 : SubSeq(swapped, 1, n - 1)[i] = swapped[i]
    BY <1>1, <2>2, SubSeqProperties
  <2> QED BY <1>1, <2>1, <2>3 DEF swapped
<1>5. /\ operatorPods' = [operatorPods EXCEPT ![pod] = shrunk]
      /\ bondedOperators' = [bondedOperators EXCEPT ![gone] = 0]
      /\ operatorPodIndex' =
           IF index # n - 1
             THEN [operatorPodIndex EXCEPT ![gone] = 0, ![last] = index]
             ELSE [operatorPodIndex EXCEPT ![gone] = 0]
  BY <1>1 DEF PopOperator
<1> HIDE DEF shrunk
<1>6. /\ operatorPods' \in Seq(Seq(Addresses))
      /\ Len(operatorPods') = Len(operatorPods)
      /\ DOMAIN operatorPods' = DOMAIN operatorPods
      /\ operatorPods'[pod] = shrunk
      /\ \A p \in DOMAIN operatorPods \ {pod} : operatorPods'[p] = operatorPods[p]
  BY <1>1, <1>4, <1>5
<1>7. /\ operatorPodIndex' \in [Addresses -> Nat]
      /\ bondedOperators' \in [Addresses -> Nat]
  BY <1>1, <1>3, <1>5 DEF TypeOK
<1>8. index # n - 1 <=> gone # last
  BY <1>1, <1>3
<1>9. /\ operatorPodIndex'[gone] = 0 /\ bondedOperators'[gone] = 0
      /\ gone # last => operatorPodIndex'[last] = index
      /\ \A a \in Accounts \ {gone} : bondedOperators'[a] = bondedOperators[a]
      /\ \A a \in Accounts \ {gone, last} :
            operatorPodIndex'[a] = operatorPodIndex[a]
  BY <1>3, <1>5, <1>8 DEF TypeOK
<1>10. ASSUME NEW p \in DOMAIN operatorPods'
       PROVE  /\ operatorPods'[p] # << >> /\ operatorPods'[p][1] = Zero
              /\ \A i \in 2 .. Len(operatorPods'[p]) :
                   LET a == operatorPods'[p][i]
                   IN  /\ a \in Accounts /\ bondedOperators'[a] = p
                       /\ operatorPodIndex'[a] = i - 1
  <2>1. CASE p # pod
    <3>1. p \in DOMAIN operatorPods /\ operatorPods'[p] = operatorPods[p]
      BY <1>6, <2>1
    <3>2. \A i \in 2 .. Len(operatorPods[p]) :
            operatorPods[p][i] # gone /\ operatorPods[p][i] # last
      BY <1>2, <1>3, <2>1, <3>1
    <3> QED BY <1>2, <1>9, <3>1, <3>2
  <2>2. CASE p = pod
    <3>1. shrunk[1] = Zero /\ Len(shrunk) # 0
      <4>1. 1 \in 1 .. n - 1 /\ 1 # index + 1 /\ array[1] = Zero
        BY <1>1, <1>2
      <4> HIDE DEF array, n, last, gone
      <4> QED BY <1>1, <1>4, <4>1
    <3>2. ASSUME NEW i \in 2 .. n - 1
          PROVE  /\ shrunk[i] \in Accounts /\ bondedOperators'[shrunk[i]] = p
                 /\ operatorPodIndex'[shrunk[i]] = i - 1
      <4>1. CASE i = index + 1
        <5>1. shrunk[i] = last /\ gone # last
          <6>1. i \in 1 .. n - 1 /\ index # n - 1
            BY <1>1, <4>1
          <6> HIDE DEF array, n, last, gone
          <6> QED BY <1>4, <1>8, <4>1, <6>1
        <5> QED BY <1>3, <1>9, <2>2, <4>1, <5>1
      <4>2. CASE i # index + 1
        <5>1. /\ shrunk[i] = array[i] /\ i \in 2..n /\ array[i] \in Accounts
              /\ bondedOperators[array[i]] = pod
              /\ operatorPodIndex[array[i]] = i - 1
          <6>1. i \in 1 .. n - 1 /\ i \in 2..n
            BY <1>1
          <6>2. /\ array[i] \in Accounts /\ bondedOperators[array[i]] = pod
                /\ operatorPodIndex[array[i]] = i - 1
            BY <1>2, <6>1
          <6> HIDE DEF array, n, last, gone
          <6> QED BY <1>4, <4>2, <6>1, <6>2
        <5>2. array[i] # gone /\ array[i] # last
          BY <1>1, <1>3, <4>2, <5>1
        <5> QED BY <1>9, <2>2, <5>1, <5>2
      <4> QED BY <4>1, <4>2
    <3>3. shrunk # << >>
      BY <3>1
    <3> QED BY <1>4, <1>6, <2>2, <3>1, <3>2, <3>3
  <2> QED BY <2>1, <2>2
<1>11. ASSUME NEW a \in Accounts
       PROVE  IF bondedOperators'[a] # 0
                THEN /\ bondedOperators'[a] \in DOMAIN operatorPods'
                     /\ operatorPodIndex'[a] + 1
                          \in 2 .. Len(operatorPods'[bondedOperators'[a]])
                     /\ operatorPods'[bondedOperators'[a]]
                                     [operatorPodIndex'[a] + 1] = a
                ELSE operatorPodIndex'[a] = 0
  <2>0. IF bondedOperators[a] # 0
          THEN /\ bondedOperators[a] \in DOMAIN operatorPods
               /\ operatorPodIndex[a] + 1 \in 2 .. Len(operatorPods[bondedOperators[a]])
               /\ operatorPods[bondedOperators[a]][operatorPodIndex[a] + 1] = a
          ELSE operatorPodIndex[a] = 0
    BY DEF PodsIndexed, InPod
  <2>1. CASE a = gone
    BY <1>9, <2>1
  <2>2. CASE a # gone /\ a = last
    <3>1. /\ bondedOperators'[a] = pod /\ operatorPodIndex'[a] = index
          /\ index + 1 \in 2 .. n - 1
      BY <1>1, <1>3, <1>8, <1>9, <2>2
    <3>2. shrunk[index + 1] = last
      BY <1>4, <3>1
    <3> QED BY <1>1, <1>4, <1>6, <2>2, <3>1, <3>2
  <2>3. CASE a # gone /\ a # last
    <3>1. /\ bondedOperators'[a] = bondedOperators[a]
          /\ operatorPodIndex'[a] = operatorPodIndex[a]
      BY <1>9, <2>3
    <3>2. CASE bondedOperators[a] = pod
      <4>1. /\ operatorPodIndex[a] + 1 \in 2..n
            /\ array[operatorPodIndex[a] + 1] = a
        BY <1>1, <2>0, <3>2
      <4>2. operatorPodIndex[a] + 1 # n /\ operatorPodIndex[a] + 1 # index + 1
        BY <2>3, <4>1
      <4>3. operatorPodIndex[a] + 1 \in 2 .. n - 1
        BY <1>1, <4>1, <4>2
      <4>4. shrunk[operatorPodIndex[a] + 1] = a
        <5>1. operatorPodIndex[a] + 1 \in 1 .. n - 1
          BY <1>1, <4>3
        <5> HIDE DEF array, n, last, gone
        <5> QED BY <1>4, <4>1, <4>2, <5>1
      <4> QED BY <1>1, <1>4, <1>6, <3>1, <3>2, <4>3, <4>4
    <3>3. CASE bondedOperators[a] # pod
      BY <1>6, <2>0, <3>1, <3>3
    <3> QED BY <3>2, <3>3
  <2> QED BY <2>1, <2>2, <2>3
<1> QED BY <1>5, <1>6, <1>7, <1>10, <1>11 DEF PodsIndexed, InPod

-----------------------------------------------------------------------------
(***************************************************************************)
(* Amounts.                                                                *)
(***************************************************************************)

\* The price of joining a pod is never below its base amount.
LEMMA CurrentBondCoversBase ==
  ASSUME NEW pods \in Seq(Seq(Addresses)), NEW pod \in Pods
  PROVE  /\ GetCurrentBondAmount(pods, pod) \in Nat
         /\ GetCurrentBondAmount(pods, pod) >= GetBaseBondAmount(pod)
PROOF
<1> DEFINE base == GetBaseBondAmount(pod)
           excess == Len(pods[pod]) - OperatorThreshold \div 2 ^ (pod - 1)
<1>1. base \in Nat /\ base >= base
  BY BondAssumption
<1>2. CASE pod <= Len(pods) /\ excess > 0
  <2>1. Len(pods[pod]) \in Nat
    BY <1>2, LenProperties DEF Pods
  <2>2. excess \in Nat
    BY <1>2, <2>1, BondAssumption
  <2> HIDE DEF base, excess
  <2>3. /\ base \div OperatorThresholdDivisor \in Nat
        /\ excess \div OperatorThresholdStep \in Nat
    BY <1>1, <2>2, BondAssumption
  <2> DEFINE x == base \div OperatorThresholdDivisor
             y == excess \div OperatorThresholdStep
  <2>4. x * y \in Nat
    <3> HIDE DEF x, y
    <3> SUFFICES ASSUME x \in Nat, y \in Nat PROVE x * y \in Nat
      BY <2>3 DEF x, y
    <3> QED OBVIOUS
  <2>5. GetCurrentBondAmount(pods, pod) = base + x * y
    BY <1>2 DEF GetCurrentBondAmount, base, excess
  <2> HIDE DEF x, y
  <2>6. base + x * y \in Nat /\ base + x * y >= base
    BY <1>1, <2>4
  <2> QED BY <2>5, <2>6 DEF base
<1>3. CASE ~(pod <= Len(pods) /\ excess > 0)
  <2>1. GetCurrentBondAmount(pods, pod) = base
    BY <1>3 DEF GetCurrentBondAmount
  <2> QED BY <1>1, <2>1
<1> QED BY <1>2, <1>3

\* A covered transfer between different holders keeps balances natural.
LEMMA TransferProperties ==
  ASSUME NEW hlg \in [Holders -> Nat], NEW from \in Holders, NEW to \in Holders,
         from # to, NEW amount \in Nat, amount <= hlg[from]
  PROVE  /\ Transfer(hlg, from, to, amount) \in [Holders -> Nat]
         /\ Transfer(hlg, from, to, amount)[from] = hlg[from] - amount
BY DEF Transfer

\* A transfer to oneself moves nothing.
LEMMA TransferToSelf ==
  ASSUME NEW hlg \in [Holders -> Nat], NEW h \in Holders, NEW amount \in Nat
  PROVE  Transfer(hlg, h, h, amount) = hlg
PROOF
<1> DEFINE result == Transfer(hlg, h, h, amount)
<1>1. hlg[h] \in Nat /\ hlg[h] - amount + amount = hlg[h]
  OBVIOUS
<1>2. result = [x \in Holders |-> IF x = h THEN hlg[h] - amount + amount ELSE hlg[x]]
  BY DEF Transfer
<1> HIDE DEF result, Holders
<1>3. result = [x \in Holders |-> hlg[x]]
  BY <1>1, <1>2
<1> QED BY <1>3 DEF result

\* Paying HLG in keeps balances natural.
LEMMA PayInKeepsBalances ==
  ASSUME TypeOK, NEW sender \in Accounts, NEW amount \in Nat,
         PayIn(sender, amount)
  PROVE  balance' \in [Holders -> Nat]
PROOF
<1>1. /\ sender \in Holders /\ This \in Holders /\ sender # This
      /\ balance \in [Holders -> Nat]
  BY AddressAssumption DEF TypeOK
<1>2. amount <= balance[sender] /\ balance' = Transfer(balance, sender, This, amount)
  BY DEF PayIn
<1> HIDE DEF Holders
<1> QED BY <1>1, <1>2, TransferProperties

\* The pods that exist have a base amount.
LEMMA BaseAmountOfPod ==
  ASSUME TypeOK, PodsBounded, NEW p \in DOMAIN operatorPods
  PROVE  p \in Pods /\ GetBaseBondAmount(p) \in Nat \ {0}
PROOF
<1>1. /\ DOMAIN operatorPods = 1..Len(operatorPods) /\ MaxPods \in Nat
      /\ Len(operatorPods) \in 1..MaxPods
  BY BoundAssumption DEF TypeOK, PodsBounded, Pods
<1>2. p \in Pods
  BY <1>1 DEF Pods
<1> QED BY <1>2, BondAssumption

-----------------------------------------------------------------------------
(***************************************************************************)
(* The invariant holds initially and every action keeps it.                *)
(***************************************************************************)

\* A job that exists has its slot in the temporary storage, so the invariants on
\* jobs carry over whenever neither jobs nor storage change.
LEMMA InitIInv == Init => IInv
PROOF
<1> SUFFICES ASSUME Init PROVE IInv
  OBVIOUS
<1>1. /\ operatorPods \in Seq(Seq(Addresses)) /\ Len(operatorPods) = 1
      /\ operatorPods[1] = <<Zero>> /\ DOMAIN operatorPods = {1}
      /\ Len(<<Zero>>) = 1 /\ <<Zero>>[1] = Zero /\ <<Zero>> # << >>
  BY DEF Init
<1>2. TypeOK
  <2>1. NoJob \in Jobs
    BY DEF NoJob, Jobs
  <2>2. balance \in [Holders -> Nat]
    BY BoundAssumption DEF Init
  <2> QED BY <1>1, <2>1, <2>2 DEF Init, TypeOK
<1>3. PodsBounded /\ ZeroIsMarked
  BY <1>1, BoundAssumption DEF Init, PodsBounded, ZeroIsMarked, Pods
<1>4. PodsIndexed
  BY <1>1, AddressAssumption DEF Init, PodsIndexed, InPod
<1>5. \A j \in JobHashes : ~OperatorJobExists(j)
  BY DEF Init, OperatorJobExists, NoJob
<1>6. SelectedForOneJob
  BY <1>5 DEF SelectedForOneJob
<1>7. BondIsLiveAndSufficient
  BY <1>5, AddressAssumption DEF Init, BondIsLiveAndSufficient, InPod
<1> QED BY <1>2, <1>3, <1>4, <1>6, <1>7 DEF IInv

\* What the invariant says of an open job.
LEMMA OpenJob ==
  ASSUME IInv, NEW j \in JobHashes, OperatorJobExists(j)
  PROVE  /\ operatorJobs[j] \in Jobs
         /\ operatorJobs[j].pod \in Pods
         /\ operatorJobs[j].pod \in DOMAIN operatorPods
         /\ operatorJobs[j].slot \in Slots
         /\ operatorJobs[j].slot <= operatorTempStorageCounter
         /\ JobOperator(j) \in Addresses
         /\ JobOperator(j) # Zero =>
              /\ JobOperator(j) \in Accounts /\ ~InPod(JobOperator(j))
              /\ bondedAmounts[JobOperator(j)] \in Nat \ {0}
              /\ bondedAmounts[JobOperator(j)]
                   >= GetBaseBondAmount(operatorJobs[j].pod)
PROOF
<1> USE DEF IInv
<1>1. operatorJobs[j] \in Jobs
  BY DEF TypeOK
<1>2. /\ operatorJobs[j].pod \in DOMAIN operatorPods
      /\ operatorJobs[j].slot \in 1 .. operatorTempStorageCounter
      /\ JobOperator(j) # Zero => ~InPod(JobOperator(j))
  BY DEF SelectedForOneJob
<1>3. operatorJobs[j].pod \in Pods
  BY <1>2, BoundAssumption DEF TypeOK, PodsBounded, Pods
<1>4. operatorJobs[j].slot \in Slots
      /\ operatorJobs[j].slot <= operatorTempStorageCounter
  BY <1>2, BoundAssumption DEF TypeOK, Slots
<1>5. JobOperator(j) \in Addresses
  BY <1>4 DEF JobOperator, TypeOK
<1>6. JobOperator(j) # Zero =>
        bondedAmounts[JobOperator(j)] >= GetBaseBondAmount(operatorJobs[j].pod)
  BY DEF BondIsLiveAndSufficient
<1>7. JobOperator(j) # Zero => bondedAmounts[JobOperator(j)] \in Nat \ {0}
  BY <1>3, <1>5, <1>6, BondAssumption DEF TypeOK
<1> QED BY <1>1, <1>2, <1>3, <1>4, <1>5, <1>6, <1>7

\* A step that leaves the jobs alone, and only changes the pod and the bond of
\* accounts that are not selected for a job, keeps the invariants on jobs and
\* bonds when these accounts end in a pod they can pay for or without a bond.
LEMMA UnselectedAccountsMove ==
  ASSUME IInv, TypeOK', NEW S \in SUBSET Accounts,
         UNCHANGED <<operatorJobs, operatorTempStorage, operatorTempStorageCounter>>,
         Len(operatorPods) <= Len(operatorPods'),
         \A a \in S, j \in JobHashes : ~IsSelectedFor(a, j),
         \A a \in Accounts \ S : /\ bondedOperators'[a] = bondedOperators[a]
                                /\ bondedAmounts'[a] = bondedAmounts[a],
         \A a \in S : IF InPod(a)'
                        THEN bondedAmounts'[a] >= GetBaseBondAmount(bondedOperators'[a])
                        ELSE bondedAmounts'[a] = 0
  PROVE  SelectedForOneJob' /\ BondIsLiveAndSufficient'
PROOF
<1> USE DEF IInv
<1>1. \A j \in JobHashes : /\ OperatorJobExists(j)' <=> OperatorJobExists(j)
                           /\ JobOperator(j)' = JobOperator(j)
  BY DEF OperatorJobExists, JobOperator
<1>2. \A j \in JobHashes : OperatorJobExists(j) /\ JobOperator(j) # Zero =>
        /\ JobOperator(j) \in Accounts \ S
        /\ bondedOperators'[JobOperator(j)] = bondedOperators[JobOperator(j)]
        /\ bondedAmounts'[JobOperator(j)] = bondedAmounts[JobOperator(j)]
  BY OpenJob DEF IsSelectedFor
<1>3. \A p \in DOMAIN operatorPods : p \in DOMAIN operatorPods'
  BY DEF TypeOK
<1>4. SelectedForOneJob'
  BY <1>1, <1>2, <1>3 DEF SelectedForOneJob, InPod
<1>5. ASSUME NEW a \in Accounts, bondedAmounts'[a] > 0
      PROVE  InPod(a)' \/ \E j \in JobHashes : IsSelectedFor(a, j)'
  <2>1. CASE a \in S
    BY <1>5, <2>1
  <2>2. CASE a \notin S
    <3>1. InPod(a) \/ \E j \in JobHashes : IsSelectedFor(a, j)
      BY <1>5, <2>2 DEF BondIsLiveAndSufficient
    <3> QED BY <1>1, <2>2, <3>1 DEF InPod, IsSelectedFor
  <2> QED BY <2>1, <2>2
<1>6. ASSUME NEW a \in Accounts, InPod(a)'
      PROVE  bondedAmounts'[a] >= GetBaseBondAmount(bondedOperators'[a])
  BY <1>6 DEF BondIsLiveAndSufficient, InPod
<1>7. ASSUME NEW j \in JobHashes, OperatorJobExists(j)', JobOperator(j)' # Zero
      PROVE  bondedAmounts'[JobOperator(j)'] >= GetBaseBondAmount(operatorJobs'[j].pod)
  BY <1>1, <1>2, <1>7 DEF BondIsLiveAndSufficient
<1>8. BondIsLiveAndSufficient'
  BY <1>5, <1>6, <1>7 DEF BondIsLiveAndSufficient, GetBaseBondAmount
<1> QED BY <1>4, <1>8

\* Bonding.
LEMMA BondKeepsIInv ==
  ASSUME IInv, NEW sender \in Accounts, NEW operator \in Addresses,
         NEW amount \in Amounts, NEW pod \in Pods,
         BondUtilityToken(sender, operator, amount, pod)
  PROVE  IInv'
PROOF
<1> USE DEF IInv
<1>1. operator \in Accounts /\ ~InPod(operator) /\ bondedAmounts[operator] = 0
  BY DEF BondUtilityToken, ZeroIsMarked, InPod
<1> DEFINE pods == OpenPods(pod)
<1>2. Extends(pods) /\ pod \in DOMAIN pods /\ Len(pods) \in Pods
  <2> DEFINE n == IF Len(operatorPods) < pod THEN pod ELSE Len(operatorPods)
  <2>1. /\ Len(operatorPods) \in 1..MaxPods /\ pod \in 1..MaxPods /\ MaxPods \in Nat
        /\ operatorPods \in Seq(Seq(Addresses))
    BY BoundAssumption DEF PodsBounded, Pods, TypeOK
  <2>2. n \in 1..MaxPods /\ pod \in 1..n /\ Len(operatorPods) <= n
    BY <2>1
  <2>3. \A p \in 1..n :
          (IF p <= Len(operatorPods) THEN operatorPods[p] ELSE <<Zero>>)
             \in Seq(Addresses)
    <3>1. <<Zero>> \in Seq(Addresses)
      OBVIOUS
    <3>2. ASSUME NEW p \in 1..n, p <= Len(operatorPods)
          PROVE  operatorPods[p] \in Seq(Addresses)
      <4>1. p \in 1..Len(operatorPods)
        BY <2>1, <3>2
      <4> QED BY <2>1, <4>1
    <3> QED BY <3>1, <3>2
  <2> HIDE DEF n
  <2>4. pods = [p \in 1..n |->
                  IF p <= Len(operatorPods) THEN operatorPods[p] ELSE <<Zero>>]
    BY DEF OpenPods, n
  <2>5. /\ pods \in Seq(Seq(Addresses)) /\ Len(pods) = n /\ DOMAIN pods = 1..n
    BY <2>2, <2>3, <2>4
  <2> QED BY <2>2, <2>4, <2>5 DEF Extends, Pods
<1>3. PushOperator(pods, pod, operator)
  BY DEF BondUtilityToken
<1>4. /\ operatorPods' \in Seq(Seq(Addresses))
      /\ bondedOperators' \in [Addresses -> Nat]
      /\ operatorPodIndex' \in [Addresses -> Nat]
      /\ Len(operatorPods') = Len(pods)
      /\ PodsIndexed'
  <2> HIDE DEF pods
  <2> QED BY <1>1, <1>2, <1>3, PushKeepsPods
<1>5. bondedOperators' = [bondedOperators EXCEPT ![operator] = pod]
  BY DEF BondUtilityToken, PushOperator
<1>6. /\ bondedAmounts' = [bondedAmounts EXCEPT ![operator] = amount]
      /\ amount \in Nat /\ amount >= GetBaseBondAmount(pod)
      /\ GetBaseBondAmount(pod) \in Nat
  <2>1. /\ GetCurrentBondAmount(operatorPods, pod) \in Nat
        /\ GetCurrentBondAmount(operatorPods, pod) >= GetBaseBondAmount(pod)
    BY CurrentBondCoversBase DEF TypeOK
  <2> QED BY <2>1, BoundAssumption, BondAssumption DEF BondUtilityToken
<1>7. balance' \in [Holders -> Nat]
  BY <1>6, PayInKeepsBalances DEF BondUtilityToken
<1>8. TypeOK'
  BY <1>4, <1>6, <1>7 DEF TypeOK, BondUtilityToken, jobVars
<1>9. PodsBounded' /\ ZeroIsMarked'
  BY <1>1, <1>2, <1>4, <1>5, AddressAssumption
     DEF PodsBounded, ZeroIsMarked, TypeOK
<1>10. \A j \in JobHashes : ~IsSelectedFor(operator, j)
  BY <1>1, OpenJob, AddressAssumption DEF IsSelectedFor
<1>11. \A a \in Accounts \ {operator} :
         /\ bondedOperators'[a] = bondedOperators[a]
         /\ bondedAmounts'[a] = bondedAmounts[a]
  BY <1>5, <1>6 DEF TypeOK
<1>12. /\ bondedOperators'[operator] = pod /\ bondedAmounts'[operator] = amount
  BY <1>1, <1>5, <1>6 DEF TypeOK
<1>13. Len(operatorPods) <= Len(operatorPods')
  BY <1>2, <1>4 DEF Extends
<1>14. UNCHANGED <<operatorJobs, operatorTempStorage, operatorTempStorageCounter>>
  BY DEF BondUtilityToken, jobVars
<1>15. SelectedForOneJob' /\ BondIsLiveAndSufficient'
  <2> DEFINE S == {operator}
  <2>1. S \in SUBSET Accounts
    BY <1>1
  <2>2. \A a \in S : InPod(a)' /\ bondedAmounts'[a] >= GetBaseBondAmount(bondedOperators'[a])
    BY <1>6, <1>12 DEF InPod, Pods
  <2>3. \A a \in S, j \in JobHashes : ~IsSelectedFor(a, j)
    BY <1>10
  <2>4. \A a \in Accounts \ S : /\ bondedOperators'[a] = bondedOperators[a]
                                /\ bondedAmounts'[a] = bondedAmounts[a]
    BY <1>11
  <2> HIDE DEF S, IInv
  <2> QED BY <1>8, <1>13, <1>14, <2>1, <2>2, <2>3, <2>4, UnselectedAccountsMove
<1> QED BY <1>4, <1>8, <1>9, <1>15

\* Topping up.
LEMMA TopupKeepsIInv ==
  ASSUME IInv, NEW sender \in Accounts, NEW operator \in Addresses,
         NEW amount \in Amounts,
         TopupUtilityToken(sender, operator, amount)
  PROVE  IInv'
PROOF
<1> USE DEF IInv
<1>1. /\ bondedOperators[operator] # 0 /\ amount \in Nat
      /\ bondedAmounts' = [bondedAmounts EXCEPT ![operator] = @ + amount]
      /\ UNCHANGED podVars /\ UNCHANGED jobVars
  BY BoundAssumption DEF TopupUtilityToken
<1>2. balance' \in [Holders -> Nat]
  BY <1>1, PayInKeepsBalances DEF TopupUtilityToken
<1>3. TypeOK'
  <2>1. bondedAmounts \in [Addresses -> Nat] BY DEF TypeOK
  <2>2. bondedAmounts' \in [Addresses -> Nat] BY ONLY <1>1, <2>1
  <2>3. gasSpike' = gasSpike BY DEF TopupUtilityToken
  <2> HIDE DEF IInv
  <2>4. TypeOK BY DEF IInv
  <2> QED BY ONLY <1>1, <1>2, <2>2, <2>3, <2>4 DEF TypeOK, jobVars, podVars
<1>4. PodsBounded' /\ ZeroIsMarked' /\ PodsIndexed'
  BY <1>1 DEF PodsBounded, ZeroIsMarked, PodsIndexed, InPod, podVars
<1>5. SelectedForOneJob' /\ BondIsLiveAndSufficient'
  <2> DEFINE S == {operator} \ {Zero}
  <2>1. S \in SUBSET Accounts
    OBVIOUS
  <2>2. \A a \in S : InPod(a)' /\ bondedAmounts'[a] >= GetBaseBondAmount(bondedOperators'[a])
    <3>1. ASSUME NEW a \in S
          PROVE  /\ InPod(a) /\ bondedOperators'[a] = bondedOperators[a]
                 /\ bondedAmounts'[a] = bondedAmounts[a] + amount
                 /\ bondedAmounts[a] \in Nat
                 /\ bondedAmounts[a] >= GetBaseBondAmount(bondedOperators[a])
      BY <1>1 DEF TypeOK, podVars, BondIsLiveAndSufficient, InPod
    <3>2. ASSUME NEW a \in S
          PROVE  GetBaseBondAmount(bondedOperators[a]) \in Nat
      <4>1. bondedOperators[a] \in DOMAIN operatorPods
        BY <3>1 DEF PodsIndexed
      <4> QED BY <4>1, BaseAmountOfPod
    <3> QED BY <1>1, <3>1, <3>2 DEF InPod
  <2>3. \A a \in S, j \in JobHashes : ~IsSelectedFor(a, j)
    BY <1>1, OpenJob DEF IsSelectedFor, InPod
  <2>4. \A a \in Accounts \ S : /\ bondedOperators'[a] = bondedOperators[a]
                                /\ bondedAmounts'[a] = bondedAmounts[a]
    BY <1>1, AddressAssumption DEF TypeOK, podVars
  <2>5. /\ Len(operatorPods) <= Len(operatorPods')
        /\ UNCHANGED <<operatorJobs, operatorTempStorage, operatorTempStorageCounter>>
    BY <1>1 DEF podVars, jobVars, TypeOK
  <2> HIDE DEF S, IInv
  <2> QED BY <1>3, <2>1, <2>2, <2>3, <2>4, <2>5, UnselectedAccountsMove
<1> QED BY <1>3, <1>4, <1>5

\* Unbonding.
LEMMA UnbondKeepsIInv ==
  ASSUME IInv, NEW sender \in Accounts, NEW operator \in Addresses,
         NEW recipient \in Holders,
         UnbondUtilityToken(sender, operator, recipient)
  PROVE  IInv'
PROOF
<1> USE DEF IInv
<1> DEFINE pod == bondedOperators[operator]
           index == operatorPodIndex[operator]
<1>1. operator \in Accounts /\ InPod(operator)
  BY AddressAssumption DEF UnbondUtilityToken, InPod
<1>2. /\ pod \in DOMAIN operatorPods /\ index \in 1 .. Len(operatorPods[pod]) - 1
      /\ operatorPods[pod][index + 1] = operator
  <2>1. /\ pod \in DOMAIN operatorPods /\ index + 1 \in 2 .. Len(operatorPods[pod])
        /\ operatorPods[pod][index + 1] = operator
    BY <1>1 DEF PodsIndexed
  <2>2. index \in Nat /\ Len(operatorPods[pod]) \in Nat
    BY <2>1 DEF TypeOK
  <2> QED BY <2>1, <2>2
<1>3. PopOperator(pod, index)
  BY DEF UnbondUtilityToken
<1>4. /\ operatorPods' \in Seq(Seq(Addresses))
      /\ bondedOperators' = [bondedOperators EXCEPT ![operator] = 0]
      /\ operatorPodIndex' \in [Addresses -> Nat]
      /\ Len(operatorPods') = Len(operatorPods)
      /\ PodsIndexed'
  <2> HIDE DEF pod, index
  <2> QED BY <1>2, <1>3, PopKeepsPods
<1>5. /\ bondedAmounts' = [bondedAmounts EXCEPT ![operator] = 0]
      /\ UNCHANGED jobVars
  BY DEF UnbondUtilityToken
<1>6. balance' \in [Holders -> Nat]
  <2>1. /\ bondedAmounts[operator] \in Nat /\ bondedAmounts[operator] <= balance[This]
        /\ balance' = Transfer(balance, This, recipient, bondedAmounts[operator])
        /\ balance \in [Holders -> Nat] /\ This \in Holders
    BY DEF UnbondUtilityToken, TypeOK
  <2> HIDE DEF IInv, Holders
  <2> QED BY <2>1, TransferProperties, TransferToSelf
<1>7. TypeOK'
  <2>1. /\ bondedOperators' \in [Addresses -> Nat]
        /\ bondedAmounts' \in [Addresses -> Nat]
    BY <1>4, <1>5 DEF TypeOK
  <2>2. gasSpike' = gasSpike
    BY DEF UnbondUtilityToken
  <2> QED BY <1>4, <1>5, <1>6, <2>1, <2>2 DEF TypeOK, jobVars
<1>8. PodsBounded' /\ ZeroIsMarked'
  BY <1>1, <1>4, AddressAssumption DEF PodsBounded, ZeroIsMarked, TypeOK
<1>9. SelectedForOneJob' /\ BondIsLiveAndSufficient'
  <2> DEFINE S == {operator}
  <2>1. S \in SUBSET Accounts
    BY <1>1
  <2>2. \A a \in S : ~InPod(a)' /\ bondedAmounts'[a] = 0
    BY <1>1, <1>4, <1>5 DEF InPod, TypeOK
  <2>3. \A a \in S, j \in JobHashes : ~IsSelectedFor(a, j)
    BY <1>1, OpenJob, AddressAssumption DEF IsSelectedFor
  <2>4. \A a \in Accounts \ S : /\ bondedOperators'[a] = bondedOperators[a]
                                /\ bondedAmounts'[a] = bondedAmounts[a]
    BY <1>4, <1>5 DEF TypeOK
  <2>5. /\ Len(operatorPods) <= Len(operatorPods')
        /\ UNCHANGED <<operatorJobs, operatorTempStorage, operatorTempStorageCounter>>
    BY <1>4, <1>5 DEF jobVars, TypeOK
  <2> HIDE DEF S, IInv
  <2> QED BY <1>7, <2>1, <2>2, <2>3, <2>4, <2>5, UnselectedAccountsMove
<1> QED BY <1>4, <1>7, <1>8, <1>9

\* A job that leaves nobody selected for it, while only its operator's pod and
\* bond change, keeps the invariants on jobs and bonds when that operator ends
\* in a pod it can pay for or without a bond.
LEMMA SelectedAccountMoves ==
  ASSUME IInv, TypeOK', NEW j \in JobHashes, OperatorJobExists(j),
         operatorJobs' = [operatorJobs EXCEPT ![j] = NoJob],
         UNCHANGED <<operatorTempStorage, operatorTempStorageCounter>>,
         Len(operatorPods) <= Len(operatorPods'),
         \A a \in Accounts \ {JobOperator(j)} :
           /\ bondedOperators'[a] = bondedOperators[a]
           /\ bondedAmounts'[a] = bondedAmounts[a],
         JobOperator(j) # Zero =>
           IF bondedOperators'[JobOperator(j)] # 0
             THEN bondedAmounts'[JobOperator(j)]
                    >= GetBaseBondAmount(bondedOperators'[JobOperator(j)])
             ELSE bondedAmounts'[JobOperator(j)] = 0
  PROVE  SelectedForOneJob' /\ BondIsLiveAndSufficient'
PROOF
<1> USE DEF IInv
<1> DEFINE operator == JobOperator(j)
<1>1. /\ ~OperatorJobExists(j)'
      /\ \A k \in JobHashes \ {j} :
           /\ operatorJobs'[k] = operatorJobs[k]
           /\ OperatorJobExists(k)' <=> OperatorJobExists(k)
           /\ JobOperator(k)' = JobOperator(k)
  BY DEF OperatorJobExists, JobOperator, TypeOK, NoJob
<1>2. \A k \in JobHashes \ {j} : OperatorJobExists(k) /\ JobOperator(k) # Zero =>
        /\ JobOperator(k) \in Accounts \ {operator}
        /\ bondedOperators'[JobOperator(k)] = bondedOperators[JobOperator(k)]
        /\ bondedAmounts'[JobOperator(k)] = bondedAmounts[JobOperator(k)]
  BY OpenJob DEF SelectedForOneJob
<1>3. \A p \in DOMAIN operatorPods : p \in DOMAIN operatorPods'
  BY DEF TypeOK
<1>4. SelectedForOneJob'
  BY <1>1, <1>2, <1>3 DEF SelectedForOneJob, InPod
<1>5. ASSUME NEW a \in Accounts, bondedAmounts'[a] > 0
      PROVE  InPod(a)' \/ \E k \in JobHashes : IsSelectedFor(a, k)'
  <2>1. CASE a = operator
    BY <1>5, <2>1, AddressAssumption DEF InPod
  <2>2. CASE a # operator
    <3>1. InPod(a) \/ \E k \in JobHashes : IsSelectedFor(a, k)
      BY <1>5, <2>2 DEF BondIsLiveAndSufficient
    <3>2. InPod(a) => InPod(a)'
      BY <2>2 DEF InPod
    <3>3. ASSUME NEW k \in JobHashes, IsSelectedFor(a, k)
          PROVE  k \in JobHashes \ {j} /\ IsSelectedFor(a, k)'
      BY <1>1, <2>2, <3>3 DEF IsSelectedFor
    <3> QED BY <3>1, <3>2, <3>3
  <2> QED BY <2>1, <2>2
<1>6. ASSUME NEW a \in Accounts, InPod(a)'
      PROVE  bondedAmounts'[a] >= GetBaseBondAmount(bondedOperators'[a])
  <2>1. CASE a = operator
    BY <1>6, <2>1, AddressAssumption DEF InPod
  <2>2. CASE a # operator
    BY <1>6, <2>2 DEF BondIsLiveAndSufficient, InPod
  <2> QED BY <2>1, <2>2
<1>7. ASSUME NEW k \in JobHashes, OperatorJobExists(k)', JobOperator(k)' # Zero
      PROVE  bondedAmounts'[JobOperator(k)'] >= GetBaseBondAmount(operatorJobs'[k].pod)
  <2>1. k \in JobHashes \ {j}
    BY <1>1, <1>7
  <2> QED BY <1>1, <1>2, <1>7, <2>1 DEF BondIsLiveAndSufficient
<1>8. BondIsLiveAndSufficient'
  BY <1>5, <1>6, <1>7 DEF BondIsLiveAndSufficient, GetBaseBondAmount
<1> QED BY <1>4, <1>8

\* The selection of the operator at an index of a pod for a job: the zero address
\* at index 0, and otherwise an account, which leaves the pod.  Other jobs and
\* accounts are not affected.
Selects(j, pod, index) ==
  LET picked == operatorPods[pod][index + 1]
  IN  /\ index = 0 => picked = Zero
      /\ index # 0 => picked \in Accounts /\ bondedOperators[picked] = pod
      /\ \A a \in Addresses :
           bondedOperators'[a] =
             IF index # 0 /\ a = picked THEN 0 ELSE bondedOperators[a]
      /\ OperatorJobExists(j)' /\ JobOperator(j)' = picked
      /\ operatorJobs'[j].pod = pod
      /\ \A k \in JobHashes \ {j} :
           /\ operatorJobs'[k] = operatorJobs[k]
           /\ OperatorJobExists(k)' <=> OperatorJobExists(k)
           /\ OperatorJobExists(k) => JobOperator(k)' = JobOperator(k)

\* A cross-chain message arrives and an operator is selected for it.
LEMMA CrossChainMessageKeepsIInv ==
  ASSUME IInv, NEW j \in JobHashes, NEW pod \in DOMAIN operatorPods,
         NEW index \in 0 .. Len(operatorPods[pod]) - 1,
         NEW underpriced \in BOOLEAN,
         NEW fallbacks \in [1..Fallbacks -> 0 .. FallbackRange(pod) - 1],
         CrossChainMessage(j, pod, index, underpriced, fallbacks)
  PROVE  IInv' /\ Selects(j, pod, index)
PROOF
<1> USE DEF IInv
<1> DEFINE slot   == operatorTempStorageCounter + 1
           picked == operatorPods[pod][index + 1]
           job    == [pod |-> pod, slot |-> slot, fallbacks |-> fallbacks]
<1>1. /\ ~OperatorJobExists(j) /\ slot \in Slots
      /\ operatorTempStorageCounter' = slot
      /\ operatorTempStorage' = [operatorTempStorage EXCEPT ![slot] = picked]
      /\ PopOperator(pod, index)
      /\ operatorJobs' = [operatorJobs EXCEPT ![j] = job]
      /\ elapsed' = [elapsed EXCEPT ![j] = 0]
      /\ UNCHANGED <<bondedAmounts, balance, inboundMessageCounter, failedJobs,
                     bridgedIn, gasSpike>>
  BY DEF CrossChainMessage, NeverDelivered, hlgVars
<1>2. /\ operatorPods[pod] \in Seq(Addresses) /\ pod \in Pods /\ pod \in Nat \ {0}
      /\ Len(operatorPods[pod]) \in Nat
  BY BaseAmountOfPod DEF TypeOK, Pods
<1>3. /\ picked \in Addresses
      /\ index = 0 => picked = Zero
      /\ index # 0 => picked \in Accounts /\ bondedOperators[picked] = pod
  <2>1. index + 1 \in 1 .. Len(operatorPods[pod])
    BY <1>2
  <2>2. operatorPods[pod][1] = Zero
        /\ \A i \in 2 .. Len(operatorPods[pod]) :
             operatorPods[pod][i] \in Accounts
             /\ bondedOperators[operatorPods[pod][i]] = pod
    BY DEF PodsIndexed
  <2>3. index # 0 => index + 1 \in 2 .. Len(operatorPods[pod])
    BY <2>1
  <2> QED BY <1>2, <2>1, <2>2, <2>3
<1>4. /\ operatorPods' \in Seq(Seq(Addresses))
      /\ bondedOperators' \in [Addresses -> Nat]
      /\ operatorPodIndex' \in [Addresses -> Nat]
      /\ Len(operatorPods') = Len(operatorPods)
      /\ PodsIndexed'
      /\ \A a \in Addresses :
           bondedOperators'[a] =
             IF index # 0 /\ a = picked THEN 0 ELSE bondedOperators[a]
  <2>1. CASE index = 0
    BY <1>1, <2>1 DEF PopOperator, podVars, TypeOK, PodsIndexed, InPod
  <2>2. CASE index # 0
    <3>1. index \in 1 .. Len(operatorPods[pod]) - 1
      BY <1>2, <2>2
    <3>2. /\ operatorPods' \in Seq(Seq(Addresses))
          /\ bondedOperators' = [bondedOperators EXCEPT ![picked] = 0]
          /\ operatorPodIndex' \in [Addresses -> Nat]
          /\ Len(operatorPods') = Len(operatorPods)
          /\ PodsIndexed'
      BY <1>1, <3>1, PopKeepsPods
    <3> HIDE DEF picked
    <3> QED BY <1>3, <2>2, <3>2 DEF TypeOK
  <2> QED BY <2>1, <2>2
<1>5. TypeOK'
  <2>1. job \in Jobs
    <3>1. FallbackRange(pod) \in Nat
      BY <1>2 DEF FallbackRange
    <3>2. fallbacks \in [1..Fallbacks -> Nat]
      BY <3>1
    <3> QED BY <1>1, <1>2, <3>2, BoundAssumption DEF Jobs, Slots
  <2>2. operatorJobs' \in [JobHashes -> Jobs]
    <3> HIDE DEF job
    <3> QED BY <1>1, <2>1 DEF TypeOK
  <2>3. operatorTempStorage' \in [{0} \union Slots -> Addresses]
    <3> HIDE DEF picked, slot
    <3> QED BY <1>1, <1>3 DEF TypeOK
  <2>4. /\ elapsed' \in [JobHashes -> Nat] /\ operatorTempStorageCounter' \in {0} \union Slots
        /\ bondedAmounts' \in [Addresses -> Nat] /\ balance' \in [Holders -> Nat]
        /\ inboundMessageCounter' \in Nat /\ failedJobs' \in [JobHashes -> BOOLEAN]
        /\ bridgedIn' \in [JobHashes -> Nat] /\ gasSpike' \in BOOLEAN
    <3> HIDE DEF slot
    <3> QED BY <1>1 DEF TypeOK
  <2> QED BY <1>4, <2>2, <2>3, <2>4 DEF TypeOK
<1>6. PodsBounded' /\ ZeroIsMarked'
  BY <1>3, <1>4, AddressAssumption DEF PodsBounded, ZeroIsMarked
<1>7. /\ OperatorJobExists(j)' /\ JobOperator(j)' = picked
      /\ operatorJobs'[j].pod = pod /\ operatorJobs'[j].slot = slot
  <2>1. operatorJobs'[j] = job
    BY <1>1 DEF TypeOK
  <2>2. operatorTempStorage'[slot] = picked
    BY <1>1 DEF TypeOK
  <2> QED BY <1>2, <2>1, <2>2 DEF OperatorJobExists, JobOperator
<1>8. ASSUME NEW k \in JobHashes \ {j}
      PROVE  /\ operatorJobs'[k] = operatorJobs[k]
             /\ OperatorJobExists(k)' <=> OperatorJobExists(k)
             /\ OperatorJobExists(k) =>
                  /\ JobOperator(k)' = JobOperator(k)
                  /\ operatorJobs[k].slot # slot
                  /\ JobOperator(k) # Zero => JobOperator(k) # picked
  <2>1. operatorJobs'[k] = operatorJobs[k]
    BY <1>1 DEF TypeOK
  <2>2. ASSUME OperatorJobExists(k)
        PROVE  /\ JobOperator(k)' = JobOperator(k) /\ operatorJobs[k].slot # slot
               /\ JobOperator(k) # Zero => JobOperator(k) # picked
    <3>1. /\ operatorJobs[k].slot \in Slots
          /\ operatorJobs[k].slot <= operatorTempStorageCounter
          /\ operatorTempStorageCounter \in Nat
          /\ operatorJobs[k].slot \in Nat
          /\ JobOperator(k) # Zero => ~InPod(JobOperator(k))
      <4>1. /\ operatorJobs[k].slot \in Slots
            /\ operatorJobs[k].slot <= operatorTempStorageCounter
            /\ JobOperator(k) # Zero => ~InPod(JobOperator(k))
        BY <2>2, OpenJob
      <4>2. operatorTempStorageCounter \in Nat /\ operatorJobs[k].slot \in Nat
        BY <4>1, BoundAssumption DEF TypeOK, Slots
      <4> QED BY <4>1, <4>2
    <3>2. operatorJobs[k].slot # slot
      BY <3>1
    <3>3. JobOperator(k)' = JobOperator(k)
      <4> HIDE DEF slot, picked
      <4> QED BY <1>1, <2>1, <3>1, <3>2 DEF JobOperator, TypeOK
    <3>4. JobOperator(k) # Zero => JobOperator(k) # picked
      BY <1>2, <1>3, <3>1 DEF InPod
    <3> QED BY <3>2, <3>3, <3>4
  <2> QED BY <2>1, <2>2 DEF OperatorJobExists
<1>12. Selects(j, pod, index)
  <2> HIDE DEF slot, job
  <2> QED BY <1>3, <1>4, <1>7, <1>8 DEF Selects
<1> HIDE DEF picked, slot, job
<1>9. \A a \in Accounts : InPod(a)' <=> InPod(a) /\ ~(index # 0 /\ a = picked)
  BY <1>4 DEF InPod
<1>10. SelectedForOneJob'
  <2>1. ASSUME NEW k \in JobHashes, OperatorJobExists(k)'
        PROVE  /\ operatorJobs'[k].pod \in DOMAIN operatorPods'
               /\ operatorJobs'[k].slot \in 1 .. operatorTempStorageCounter'
               /\ JobOperator(k)' # Zero => ~InPod(JobOperator(k))'
    <3>0. DOMAIN operatorPods' = DOMAIN operatorPods
      BY <1>4 DEF TypeOK
    <3>1. CASE k = j
      <4>1. slot \in 1 .. slot
        BY <1>1, BoundAssumption DEF Slots
      <4>2. picked # Zero => picked \in Accounts /\ bondedOperators'[picked] = 0
        BY <1>3, <1>4
      <4>3. JobOperator(k)' = picked
        BY <1>7, <3>1
      <4>4. JobOperator(k)' # Zero => ~InPod(JobOperator(k))'
        BY <4>2, <4>3 DEF InPod
      <4> QED BY <1>1, <1>7, <3>0, <3>1, <4>1, <4>4
    <3>2. CASE k # j
      <4>1. OperatorJobExists(k) /\ JobOperator(k)' = JobOperator(k)
            /\ operatorJobs'[k] = operatorJobs[k]
        BY <1>8, <2>1, <3>2
      <4>2. /\ operatorJobs[k].pod \in DOMAIN operatorPods
            /\ operatorJobs[k].slot \in 1 .. operatorTempStorageCounter
            /\ JobOperator(k) # Zero =>
                 JobOperator(k) \in Accounts /\ ~InPod(JobOperator(k))
        BY <4>1, OpenJob DEF SelectedForOneJob
      <4>3. operatorJobs[k].slot \in 1 .. operatorTempStorageCounter'
        <5>1. /\ operatorTempStorageCounter \in Nat
              /\ operatorTempStorageCounter' = operatorTempStorageCounter + 1
          BY <1>1, BoundAssumption DEF slot, TypeOK, Slots
        <5> QED BY <4>2, <5>1
      <4>4. JobOperator(k)' # Zero => ~InPod(JobOperator(k))'
        BY <1>4, <4>1, <4>2 DEF InPod
      <4> QED BY <3>0, <4>1, <4>2, <4>3, <4>4
    <3> QED BY <3>1, <3>2
  <2>2. ASSUME NEW k \in JobHashes, OperatorJobExists(k)',
               NEW l \in JobHashes \ {k}, OperatorJobExists(l)'
        PROVE  /\ operatorJobs'[l].slot # operatorJobs'[k].slot
               /\ JobOperator(k)' # Zero => JobOperator(l)' # JobOperator(k)'
    <3>1. CASE k = j
      BY <1>7, <1>8, <2>2, <3>1
    <3>2. CASE l = j
      BY <1>7, <1>8, <2>2, <3>2
    <3>3. CASE k # j /\ l # j
      BY <1>8, <2>2, <3>3 DEF SelectedForOneJob
    <3> QED BY <3>1, <3>2, <3>3
  <2> QED BY <2>1, <2>2 DEF SelectedForOneJob
<1>11. BondIsLiveAndSufficient'
  <2>1. ASSUME NEW a \in Accounts, bondedAmounts'[a] > 0
        PROVE  InPod(a)' \/ \E k \in JobHashes : IsSelectedFor(a, k)'
    <3>1. InPod(a) \/ \E k \in JobHashes : IsSelectedFor(a, k)
      BY <1>1, <2>1 DEF BondIsLiveAndSufficient
    <3>2. CASE InPod(a)
      BY <1>7, <1>9, <3>2 DEF IsSelectedFor
    <3>3. ASSUME NEW k \in JobHashes, IsSelectedFor(a, k)
          PROVE  IsSelectedFor(a, k)'
      BY <1>1, <1>8, <3>3 DEF IsSelectedFor
    <3> QED BY <3>1, <3>2, <3>3
  <2>2. ASSUME NEW a \in Accounts, InPod(a)'
        PROVE  bondedAmounts'[a] >= GetBaseBondAmount(bondedOperators'[a])
    <3>1. InPod(a) /\ bondedOperators'[a] = bondedOperators[a]
      BY <1>4, <2>2 DEF InPod
    <3> QED BY <1>1, <3>1 DEF BondIsLiveAndSufficient
  <2>3. ASSUME NEW k \in JobHashes, OperatorJobExists(k)', JobOperator(k)' # Zero
        PROVE  bondedAmounts'[JobOperator(k)'] >= GetBaseBondAmount(operatorJobs'[k].pod)
    <3>1. CASE k = j
      <4>1. picked \in Accounts /\ bondedOperators[picked] = pod /\ InPod(picked)
        BY <1>2, <1>3, <1>7, <2>3, <3>1 DEF InPod
      <4> QED BY <1>1, <1>7, <3>1, <4>1 DEF BondIsLiveAndSufficient
    <3>2. CASE k # j
      BY <1>1, <1>8, <2>3, <3>2 DEF BondIsLiveAndSufficient
    <3> QED BY <3>1, <3>2
  <2> QED BY <2>1, <2>2, <2>3 DEF BondIsLiveAndSufficient, GetBaseBondAmount
<1> QED BY <1>4, <1>5, <1>6, <1>10, <1>11, <1>12

\* Slashing an operator keeps balances natural, moves only that operator, and
\* leaves it in the pod with enough for the next time or without a bond.
LEMMA SlashEffects ==
  ASSUME IInv, NEW sender \in Accounts, NEW operator \in Accounts,
         operator # sender, ~InPod(operator),
         NEW pod \in DOMAIN operatorPods, Slash(operator, sender, pod)
  PROVE  /\ operatorPods' \in Seq(Seq(Addresses))
         /\ bondedOperators' \in [Addresses -> Nat]
         /\ operatorPodIndex' \in [Addresses -> Nat]
         /\ bondedAmounts' \in [Addresses -> Nat]
         /\ balance' \in [Holders -> Nat]
         /\ Len(operatorPods') = Len(operatorPods)
         /\ PodsIndexed'
         /\ \A a \in Addresses \ {operator} :
              /\ bondedOperators'[a] = bondedOperators[a]
              /\ bondedAmounts'[a] = bondedAmounts[a]
         /\ IF bondedOperators'[operator] # 0
              THEN bondedAmounts'[operator]
                     >= GetBaseBondAmount(bondedOperators'[operator])
              ELSE bondedAmounts'[operator] = 0
PROOF
<1> USE DEF IInv
<1> DEFINE amount    == GetBaseBondAmount(pod)
           rest      == bondedAmounts[operator] - amount
           stays     == rest >= amount
           leftovers == IF stays THEN 0 ELSE rest
           rewarded  == IF bondedAmounts[sender] # 0 THEN sender ELSE Treasury
           paid      == Transfer(balance, This, rewarded, amount)
<1>1. /\ amount \in Nat \ {0} /\ rest \in Nat /\ leftovers \in Nat
      /\ amount + leftovers <= balance[This]
      /\ bondedAmounts' =
           [bondedAmounts EXCEPT ![operator] = IF stays THEN rest ELSE 0]
      /\ balance' = Transfer(paid, This, operator, leftovers)
      /\ IF stays THEN PushOperator(operatorPods, pod, operator)
                  ELSE UNCHANGED podVars
  <2>1. amount \in Nat \ {0}
    BY BaseAmountOfPod
  <2>2. /\ rest >= 0
        /\ amount + leftovers <= balance[This]
        /\ bondedAmounts' =
             [bondedAmounts EXCEPT ![operator] = IF stays THEN rest ELSE 0]
        /\ balance' = Transfer(paid, This, operator, leftovers)
        /\ IF stays THEN PushOperator(operatorPods, pod, operator)
                    ELSE UNCHANGED podVars
    BY DEF Slash
  <2>3. bondedAmounts[operator] \in Nat
    BY DEF TypeOK
  <2> HIDE DEF amount
  <2> QED BY <2>1, <2>2, <2>3
<1>2. balance' \in [Holders -> Nat]
  <2>1. /\ This \in Holders /\ rewarded \in Holders /\ operator \in Holders
        /\ This # rewarded /\ This # operator
        /\ balance \in [Holders -> Nat] /\ balance[This] \in Nat
    BY AddressAssumption DEF TypeOK
  <2> HIDE DEF amount, rest, leftovers, rewarded, Holders
  <2>2. amount \in Nat /\ amount <= balance[This]
    BY <1>1, <2>1
  <2>3. paid \in [Holders -> Nat] /\ paid[This] = balance[This] - amount
    BY <2>1, <2>2, TransferProperties
  <2>4. leftovers <= paid[This]
    BY <1>1, <2>1, <2>3
  <2> HIDE DEF paid
  <2> QED BY <1>1, <2>1, <2>3, <2>4, TransferProperties
<1>3. /\ bondedAmounts' \in [Addresses -> Nat]
      /\ \A a \in Addresses \ {operator} : bondedAmounts'[a] = bondedAmounts[a]
      /\ bondedAmounts'[operator] = IF stays THEN rest ELSE 0
  <2> HIDE DEF amount, rest
  <2> QED BY <1>1 DEF TypeOK
<1>4. /\ operatorPods' \in Seq(Seq(Addresses))
      /\ bondedOperators' \in [Addresses -> Nat]
      /\ operatorPodIndex' \in [Addresses -> Nat]
      /\ Len(operatorPods') = Len(operatorPods)
      /\ PodsIndexed'
      /\ \A a \in Addresses \ {operator} : bondedOperators'[a] = bondedOperators[a]
      /\ bondedOperators'[operator] = IF stays THEN pod ELSE 0
  <2>1. CASE stays
    <3>1. PushOperator(operatorPods, pod, operator)
      BY <1>1, <2>1
    <3>2. Extends(operatorPods)
      BY DEF Extends, TypeOK
    <3>3. /\ operatorPods' \in Seq(Seq(Addresses))
          /\ bondedOperators' \in [Addresses -> Nat]
          /\ operatorPodIndex' \in [Addresses -> Nat]
          /\ Len(operatorPods') = Len(operatorPods)
          /\ PodsIndexed'
      BY <3>1, <3>2, PushKeepsPods
    <3>4. bondedOperators' = [bondedOperators EXCEPT ![operator] = pod]
      BY <3>1 DEF PushOperator
    <3> HIDE DEF stays
    <3> QED BY <2>1, <3>3, <3>4 DEF TypeOK
  <2>2. CASE ~stays
    <3>1. UNCHANGED podVars
      BY <1>1, <2>2
    <3> HIDE DEF stays
    <3> QED BY <2>2, <3>1 DEF podVars, TypeOK, PodsIndexed, InPod
  <2> QED BY <2>1, <2>2
<1>5. IF bondedOperators'[operator] # 0
        THEN bondedAmounts'[operator] >= GetBaseBondAmount(bondedOperators'[operator])
        ELSE bondedAmounts'[operator] = 0
  <2>1. pod # 0
    BY BaseAmountOfPod DEF Pods
  <2> QED BY <1>3, <1>4, <2>1
<1> QED BY <1>2, <1>3, <1>4, <1>5

\* Executing a job.
LEMMA ExecuteJobKeepsIInv ==
  ASSUME IInv, NEW sender \in Accounts, NEW j \in JobHashes,
         NEW success \in BOOLEAN, ExecuteJob(sender, j, success)
  PROVE  IInv'
PROOF
<1> USE DEF IInv
<1> DEFINE operator == JobOperator(j)
           pod      == operatorJobs[j].pod
<1>1. /\ OperatorJobExists(j)
      /\ operatorJobs' = [operatorJobs EXCEPT ![j] = NoJob]
      /\ elapsed' = [elapsed EXCEPT ![j] = 0]
      /\ inboundMessageCounter' = inboundMessageCounter + 1
      /\ BridgeCall(j, success)
      /\ UNCHANGED <<operatorTempStorage, operatorTempStorageCounter, gasSpike>>
      /\ \/ operator = Zero /\ UNCHANGED <<podVars, hlgVars>>
         \/ operator = sender /\ PushOperator(operatorPods, pod, sender)
            /\ UNCHANGED hlgVars
         \/ operator \notin {Zero, sender} /\ Slash(operator, sender, pod)
  BY DEF ExecuteJob
<1>2. /\ pod \in DOMAIN operatorPods /\ pod \in Pods /\ pod # 0 /\ operator \in Addresses
      /\ operator # Zero =>
           /\ operator \in Accounts /\ ~InPod(operator)
           /\ bondedAmounts[operator] >= GetBaseBondAmount(pod)
  BY <1>1, OpenJob DEF Pods
<1>3. /\ operatorPods' \in Seq(Seq(Addresses))
      /\ bondedOperators' \in [Addresses -> Nat]
      /\ operatorPodIndex' \in [Addresses -> Nat]
      /\ bondedAmounts' \in [Addresses -> Nat]
      /\ balance' \in [Holders -> Nat]
      /\ Len(operatorPods') = Len(operatorPods)
      /\ PodsIndexed'
      /\ operator = Zero =>
           UNCHANGED <<bondedOperators, bondedAmounts>>
      /\ \A a \in Addresses \ {operator} :
           /\ bondedOperators'[a] = bondedOperators[a]
           /\ bondedAmounts'[a] = bondedAmounts[a]
      /\ operator # Zero =>
           IF bondedOperators'[operator] # 0
             THEN bondedAmounts'[operator]
                    >= GetBaseBondAmount(bondedOperators'[operator])
             ELSE bondedAmounts'[operator] = 0
  <2> HIDE DEF operator, pod
  <2>1. CASE operator = Zero /\ UNCHANGED <<podVars, hlgVars>>
    BY <2>1 DEF podVars, hlgVars, TypeOK, PodsIndexed, InPod
  <2>2. CASE operator = sender /\ PushOperator(operatorPods, pod, sender)
             /\ UNCHANGED hlgVars
    <3>1. Extends(operatorPods)
      BY DEF Extends, TypeOK
    <3>2. sender \in Accounts /\ ~InPod(sender) /\ sender # Zero
      BY <1>2, <2>2, AddressAssumption
    <3>3. /\ operatorPods' \in Seq(Seq(Addresses))
          /\ bondedOperators' \in [Addresses -> Nat]
          /\ operatorPodIndex' \in [Addresses -> Nat]
          /\ Len(operatorPods') = Len(operatorPods)
          /\ PodsIndexed'
      BY <1>2, <2>2, <3>1, <3>2, PushKeepsPods
    <3>4. bondedOperators' = [bondedOperators EXCEPT ![sender] = pod]
          /\ UNCHANGED <<bondedAmounts, balance>>
      BY <2>2 DEF PushOperator, hlgVars
    <3> QED BY <1>2, <2>2, <3>2, <3>3, <3>4 DEF TypeOK
  <2>3. CASE operator \notin {Zero, sender} /\ Slash(operator, sender, pod)
    <3>1. operator \in Accounts /\ operator # sender /\ ~InPod(operator)
      BY <1>2, <2>3
    <3> QED BY <1>2, <2>3, <3>1, SlashEffects
  <2> QED BY <1>1, <2>1, <2>2, <2>3 DEF operator, pod
<1>4. TypeOK'
  <2>1. NoJob \in Jobs
    BY DEF NoJob, Jobs
  <2>2. /\ operatorJobs' \in [JobHashes -> Jobs]
        /\ elapsed' \in [JobHashes -> Nat]
        /\ operatorTempStorage' \in [{0} \union Slots -> Addresses]
        /\ operatorTempStorageCounter' \in {0} \union Slots
        /\ inboundMessageCounter' \in Nat
        /\ gasSpike' \in BOOLEAN
    BY <1>1, <2>1 DEF TypeOK
  <2>3. failedJobs' \in [JobHashes -> BOOLEAN] /\ bridgedIn' \in [JobHashes -> Nat]
    <3>1. CASE success
      BY <1>1, <3>1 DEF TypeOK, BridgeCall
    <3>2. CASE ~success
      BY <1>1, <3>2 DEF TypeOK, BridgeCall
    <3> QED BY <3>1, <3>2
  <2> QED BY <1>3, <2>2, <2>3 DEF TypeOK
<1>5. PodsBounded' /\ ZeroIsMarked'
  BY <1>2, <1>3, AddressAssumption DEF PodsBounded, ZeroIsMarked
<1>6. SelectedForOneJob' /\ BondIsLiveAndSufficient'
  <2>1. Len(operatorPods) <= Len(operatorPods')
    BY <1>3 DEF TypeOK
  <2> HIDE DEF IInv
  <2> QED BY <1>1, <1>3, <1>4, <2>1, SelectedAccountMoves
<1> QED BY <1>3, <1>4, <1>5, <1>6

\* Recovery of a failed job, HLG sent to the contract, time, gas price and
\* stuttering touch no part of the invariant but the types.
LEMMA OtherStepsKeepIInv ==
  ASSUME IInv,
         \/ \E j \in JobHashes : RecoverJob(j)
         \/ \E sender \in Accounts, amount \in Gifts : SendHLG(sender, amount)
         \/ Tick \/ GasPriceMoves \/ UNCHANGED vars
  PROVE  IInv'
PROOF
<1> USE DEF IInv
<1>1. UNCHANGED <<operatorPods, bondedOperators, operatorPodIndex, bondedAmounts,
                  operatorJobs, operatorTempStorage, operatorTempStorageCounter,
                  inboundMessageCounter>>
  BY DEF RecoverJob, SendHLG, Tick, GasPriceMoves, vars, podVars, hlgVars, jobVars
<1>0. balance' \in [Holders -> Nat]
  <2>1. CASE \E sender \in Accounts, amount \in Gifts : SendHLG(sender, amount)
    BY <2>1, PayInKeepsBalances, BoundAssumption DEF SendHLG
  <2>2. CASE (\E j \in JobHashes : RecoverJob(j)) \/ Tick \/ GasPriceMoves
               \/ UNCHANGED vars
    <3>1. balance' = balance
      BY <2>2 DEF RecoverJob, Tick, GasPriceMoves, vars, hlgVars
    <3> QED BY <3>1 DEF TypeOK
  <2> QED BY <2>1, <2>2
<1>2. /\ elapsed' \in [JobHashes -> Nat] /\ failedJobs' \in [JobHashes -> BOOLEAN]
      /\ bridgedIn' \in [JobHashes -> Nat] /\ gasSpike' \in BOOLEAN
  <2>1. CASE \E j \in JobHashes : RecoverJob(j)
    BY <2>1 DEF RecoverJob, TypeOK
  <2>2. CASE Tick
    BY <2>2 DEF Tick, TypeOK
  <2>3. CASE GasPriceMoves \/ UNCHANGED vars
    BY <2>3 DEF GasPriceMoves, vars, jobVars, TypeOK
  <2>4. CASE \E sender \in Accounts, amount \in Gifts : SendHLG(sender, amount)
    BY <2>4 DEF SendHLG, jobVars, TypeOK
  <2> QED BY <2>1, <2>2, <2>3, <2>4
<1>3. TypeOK' /\ PodsBounded' /\ ZeroIsMarked' /\ PodsIndexed'
  BY <1>0, <1>1, <1>2 DEF TypeOK, PodsBounded, ZeroIsMarked, PodsIndexed, InPod
<1>4. SelectedForOneJob' /\ BondIsLiveAndSufficient'
  <2>1. \A j \in JobHashes : /\ OperatorJobExists(j)' <=> OperatorJobExists(j)
                             /\ JobOperator(j)' = JobOperator(j)
    BY <1>1 DEF OperatorJobExists, JobOperator
  <2> QED BY <1>1, <2>1 DEF SelectedForOneJob, BondIsLiveAndSufficient, InPod,
                            IsSelectedFor, GetBaseBondAmount
<1> QED BY <1>3, <1>4

\* The invariant is inductive.
LEMMA NextKeepsIInv == IInv /\ [Next]_vars => IInv'
PROOF
<1> SUFFICES ASSUME IInv, [Next]_vars PROVE IInv'
  OBVIOUS
<1>1. CASE Bonding
  BY <1>1, BondKeepsIInv, TopupKeepsIInv, UnbondKeepsIInv, OtherStepsKeepIInv
     DEF Bonding
<1>2. CASE Messaging
  BY <1>2, CrossChainMessageKeepsIInv DEF Messaging
<1>3. CASE Executing
  BY <1>3, ExecuteJobKeepsIInv, OtherStepsKeepIInv DEF Executing
<1>4. CASE Tick \/ GasPriceMoves \/ UNCHANGED vars
  BY <1>4, OtherStepsKeepIInv
<1> QED BY <1>1, <1>2, <1>3, <1>4 DEF Next

LEMMA Invariance == Spec => []IInv
BY InitIInv, NextKeepsIInv, PTL DEF Spec

-----------------------------------------------------------------------------
(***************************************************************************)
(* The theorems.                                                           *)
(***************************************************************************)

\* Every variable keeps its type: no pod index, bond or balance that the
\* unsigned arithmetic of bonding, unbonding or slashing computes is negative.
THEOREM TypeCorrect == Spec => []TypeOK
BY Invariance, PTL DEF IInv

\* The pod arrays and the recorded pods and indices agree, whatever the order
\* of bonding, selection, re-entry and unbonding.
THEOREM PodsStayIndexed == Spec => []PodsIndexed
BY Invariance, PTL DEF IInv

\* Open jobs never share a slot of the temporary storage or an operator, and a
\* selected operator is in no pod.
THEOREM SelectionIsExclusive == Spec => []SelectedForOneJob
BY Invariance, PTL DEF IInv

\* Bonded HLG belongs to an account that is in a pod or selected, and covers
\* the base amount the account may have to pay.
THEOREM BondStaysLiveAndSufficient == Spec => []BondIsLiveAndSufficient
BY Invariance, PTL DEF IInv

\* An open payload has not been applied and has not failed, a failed one has not
\* been applied, and an applied one is neither.
LEMMA NextKeepsApplied == IInv /\ AppliedAtMostOnce /\ [Next]_vars => AppliedAtMostOnce'
PROOF
<1> SUFFICES ASSUME IInv, AppliedAtMostOnce, [Next]_vars, NEW k \in JobHashes
             PROVE  /\ bridgedIn'[k] <= 1
                    /\ ~(OperatorJobExists(k)' /\ failedJobs'[k])
                    /\ ~(bridgedIn'[k] = 1 /\ (OperatorJobExists(k)' \/ failedJobs'[k]))
  BY DEF AppliedAtMostOnce
<1>1. /\ bridgedIn[k] \in Nat /\ bridgedIn[k] <= 1
      /\ ~(OperatorJobExists(k) /\ failedJobs[k])
      /\ ~(bridgedIn[k] = 1 /\ (OperatorJobExists(k) \/ failedJobs[k]))
      /\ bridgedIn \in [JobHashes -> Nat] /\ failedJobs \in [JobHashes -> BOOLEAN]
      /\ operatorJobs \in [JobHashes -> Jobs]
  BY DEF AppliedAtMostOnce, IInv, TypeOK
<1>2. CASE UNCHANGED <<operatorJobs, failedJobs, bridgedIn>>
  BY <1>1, <1>2 DEF OperatorJobExists
<1>3. CASE Bonding
  <2>1. UNCHANGED <<operatorJobs, failedJobs, bridgedIn>>
    BY <1>3 DEF Bonding, BondUtilityToken, TopupUtilityToken,
                UnbondUtilityToken, SendHLG, jobVars
  <2> QED BY <1>2, <2>1
<1>4. CASE Messaging
  <2>1. PICK j \in JobHashes, pod \in DOMAIN operatorPods, underpriced \in BOOLEAN :
          \E index \in 0 .. Len(operatorPods[pod]) - 1,
             fallbacks \in [1..Fallbacks -> 0 .. FallbackRange(pod) - 1] :
            CrossChainMessage(j, pod, index, underpriced, fallbacks)
    BY <1>4 DEF Messaging
  <2>2. /\ NeverDelivered(j) /\ UNCHANGED <<failedJobs, bridgedIn>>
        /\ \A l \in JobHashes \ {j} : operatorJobs'[l] = operatorJobs[l]
    BY <1>1, <2>1 DEF CrossChainMessage
  <2> QED BY <1>1, <2>2 DEF NeverDelivered, OperatorJobExists
<1>5. CASE \E j \in JobHashes, sender \in Accounts, success \in BOOLEAN :
              ExecuteJob(sender, j, success)
  <2>1. PICK j \in JobHashes, success \in BOOLEAN :
          /\ OperatorJobExists(j) /\ BridgeCall(j, success)
          /\ operatorJobs' = [operatorJobs EXCEPT ![j] = NoJob]
    BY <1>5 DEF ExecuteJob
  <2>2. /\ ~OperatorJobExists(j)'
        /\ k # j => operatorJobs'[k] = operatorJobs[k]
    BY <1>1, <2>1 DEF OperatorJobExists, NoJob
  <2>3. CASE success
    BY <1>1, <2>1, <2>2, <2>3 DEF BridgeCall, OperatorJobExists
  <2>4. CASE ~success
    BY <1>1, <2>1, <2>2, <2>4 DEF BridgeCall, OperatorJobExists
  <2> QED BY <2>3, <2>4
<1>6. CASE \E j \in JobHashes : RecoverJob(j)
  BY <1>1, <1>6 DEF RecoverJob, OperatorJobExists
<1>7. CASE Tick \/ GasPriceMoves \/ UNCHANGED vars
  BY <1>2, <1>7 DEF Tick, GasPriceMoves, vars, jobVars
<1> QED BY <1>3, <1>4, <1>5, <1>6, <1>7 DEF Next, Executing

\* A payload is applied once: the state of a delivered payload only moves from
\* open to failed or applied, and from failed to applied.
THEOREM PayloadsAreAppliedAtMostOnce == Spec => []AppliedAtMostOnce
PROOF
<1>1. Init => AppliedAtMostOnce
  BY DEF Init, AppliedAtMostOnce, OperatorJobExists, NoJob
<1> QED BY <1>1, NextKeepsApplied, Invariance, PTL DEF Spec

\* Bonded HLG is lost by unbonding or by missing a slot, never to another
\* operation, and the base amount is all a late operator loses.
THEOREM OnlyLateOperatorsPay == Spec => OnlyLateOperatorsLoseBond
PROOF
<1> DEFINE Justified == \A a \in Accounts : bondedAmounts'[a] < bondedAmounts[a] =>
             UnbondsAll(a) \/ \E j \in JobHashes : PaysForBeingLate(a, j)
<1>1. IInv /\ [Next]_vars => [Justified]_vars
  <2> SUFFICES ASSUME IInv, Next, NEW a \in Accounts,
                      bondedAmounts'[a] < bondedAmounts[a]
               PROVE  UnbondsAll(a) \/ \E j \in JobHashes : PaysForBeingLate(a, j)
    OBVIOUS
  <2>1. bondedAmounts \in [Addresses -> Nat] /\ bondedAmounts[a] \in Nat
    BY DEF IInv, TypeOK
  <2>2. CASE UNCHANGED bondedAmounts
    BY <2>1, <2>2
  <2>3. CASE \E sender \in Accounts, operator \in Addresses, amount \in Amounts :
               \/ TopupUtilityToken(sender, operator, amount)
               \/ \E pod \in Pods : BondUtilityToken(sender, operator, amount, pod)
    <3>1. PICK operator \in Addresses, amount \in Amounts :
            \/ bondedAmounts' = [bondedAmounts EXCEPT ![operator] = @ + amount]
            \/ /\ bondedAmounts[operator] = 0
               /\ bondedAmounts' = [bondedAmounts EXCEPT ![operator] = amount]
      BY <2>3 DEF TopupUtilityToken, BondUtilityToken
    <3> QED BY <2>1, <3>1, BoundAssumption
  <2>4. CASE \E sender \in Accounts, operator \in Addresses, recipient \in Holders :
               UnbondUtilityToken(sender, operator, recipient)
    <3>1. PICK sender \in Accounts, operator \in Addresses, recipient \in Holders :
            UnbondUtilityToken(sender, operator, recipient)
      BY <2>4
    <3>2. /\ bondedAmounts' = [bondedAmounts EXCEPT ![operator] = 0]
          /\ operator = a => InPod(a) /\ UNCHANGED operatorJobs
      BY <3>1 DEF UnbondUtilityToken, InPod, jobVars
    <3>3. operator = a /\ bondedAmounts'[a] = 0
      BY <2>1, <3>2
    <3>4. IInv'
      BY <3>1, UnbondKeepsIInv
    <3>5. /\ bondedOperators[a] \in DOMAIN operatorPods
          /\ operatorPodIndex[a] + 1 \in 2 .. Len(operatorPods[bondedOperators[a]])
          /\ operatorPods[bondedOperators[a]][operatorPodIndex[a] + 1] = a
      BY <3>2, <3>3 DEF IInv, PodsIndexed
    <3>6. operatorPodIndex[a] # 0
      BY <3>5
    <3>7. bondedOperators' = [bondedOperators EXCEPT ![a] = 0]
      BY <3>1, <3>3, <3>5, <3>6 DEF UnbondUtilityToken, PopOperator
    <3>8. ~InPod(a)'
      BY <3>7 DEF InPod, IInv, TypeOK
    <3> QED BY <3>2, <3>3, <3>8 DEF UnbondsAll
  <2>5. CASE Messaging
    <3>1. UNCHANGED bondedAmounts
      BY <2>5 DEF Messaging, CrossChainMessage, hlgVars
    <3> QED BY <2>2, <3>1
  <2>6. CASE \E j \in JobHashes, sender \in Accounts, success \in BOOLEAN :
               ExecuteJob(sender, j, success)
    <3>1. PICK j \in JobHashes, sender \in Accounts, success \in BOOLEAN :
            ExecuteJob(sender, j, success)
      BY <2>6
    <3> DEFINE operator == JobOperator(j)
               pod      == operatorJobs[j].pod
    <3>2. CASE UNCHANGED hlgVars
      BY <2>2, <3>2 DEF hlgVars
    <3>3. CASE operator \notin {Zero, sender} /\ MayReplace(sender, j)
               /\ Slash(operator, sender, pod)
      <4> DEFINE amount    == GetBaseBondAmount(pod)
                 rest      == bondedAmounts[operator] - amount
                 stays     == rest >= amount
                 leftovers == IF stays THEN 0 ELSE rest
                 rewarded  == IF bondedAmounts[sender] # 0 THEN sender ELSE Treasury
      <4>1. /\ bondedAmounts' =
                 [bondedAmounts EXCEPT ![operator] = IF stays THEN rest ELSE 0]
            /\ balance' = Transfer(Transfer(balance, This, rewarded, amount),
                                   This, operator, leftovers)
            /\ IF stays THEN PushOperator(operatorPods, pod, operator)
                        ELSE UNCHANGED podVars
        BY <3>3 DEF Slash
      <4>2. operator = a
        BY <2>1, <4>1
      <4>3. /\ OperatorJobExists(j) /\ ~InPod(a) /\ pod \in DOMAIN operatorPods
        BY <3>1, <3>3, <4>2, OpenJob DEF ExecuteJob
      <4>4. ~OperatorJobExists(j)'
        BY <3>1 DEF ExecuteJob, OperatorJobExists, NoJob, IInv, TypeOK
      <4>5. elapsed[j] >= BlockTime /\ ~gasSpike
        <5>1. TimeDifference(j) > 0 /\ ~gasSpike
          BY <3>3 DEF MayReplace
        <5>2. elapsed[j] \in Nat /\ BlockTime \in Nat \ {0}
          BY BoundAssumption DEF IInv, TypeOK
        <5> QED BY <5>1, <5>2, Z3 DEF TimeDifference
      <4>6. bondedAmounts'[a] = IF stays THEN rest ELSE 0
        <5> HIDE DEF rest, stays, operator
        <5> QED BY <2>1, <4>1, <4>2
      <4>7. CASE stays
        <5>1. bondedOperators'[a] = pod
          BY <4>1, <4>2, <4>7 DEF PushOperator, IInv, TypeOK
        <5> QED BY <4>2, <4>3, <4>4, <4>5, <4>6, <4>7, <5>1
                DEF PaysForBeingLate, IsSelectedFor
      <4>8. CASE ~stays
        <5>1. ~InPod(a)'
          BY <4>1, <4>3, <4>8 DEF podVars, InPod
        <5>2. balance'[a] = balance[a] + rest
          <6>1. /\ a \in Holders /\ a # This /\ a # rewarded /\ This \in Holders
                /\ rewarded \in Holders /\ balance \in [Holders -> Nat]
            BY <3>3, <4>2, AddressAssumption DEF IInv, TypeOK
          <6>2. balance' = Transfer(Transfer(balance, This, rewarded, amount),
                                    This, a, rest)
            BY <4>1, <4>2, <4>8
          <6> HIDE DEF rewarded, amount, rest, Holders
          <6> QED BY <6>1, <6>2 DEF Transfer
        <5> QED BY <4>2, <4>3, <4>4, <4>5, <4>6, <4>8, <5>1, <5>2
                DEF PaysForBeingLate, IsSelectedFor
      <4> QED BY <4>7, <4>8
    <3> QED BY <3>1, <3>2, <3>3 DEF ExecuteJob
  <2>7. CASE \/ \E j \in JobHashes : RecoverJob(j)
             \/ \E sender \in Accounts, amount \in Gifts : SendHLG(sender, amount)
             \/ Tick \/ GasPriceMoves
    <3>1. UNCHANGED bondedAmounts
      BY <2>7 DEF RecoverJob, SendHLG, Tick, GasPriceMoves, hlgVars
    <3> QED BY <2>2, <3>1
  <2> QED BY <2>3, <2>4, <2>5, <2>6, <2>7 DEF Next, Bonding, Executing
<1> QED BY <1>1, Invariance, PTL DEF Spec, OnlyLateOperatorsLoseBond

-----------------------------------------------------------------------------
(***************************************************************************)
(* The HLG of the contract and the sum of the bonds.                       *)
(***************************************************************************)
\* There are finitely many addresses, so the bonds have a sum.
LEMMA AddressesFinite == IsFiniteSet(Addresses)
  BY FinitenessAssumption, FS_AddElement

\* What a covered transfer between different holders does to each of them.
LEMMA TransferEffects ==
  ASSUME NEW hlg \in [Holders -> Nat], NEW from \in Holders, NEW to \in Holders,
         from # to, NEW amount \in Nat, amount <= hlg[from]
  PROVE  /\ Transfer(hlg, from, to, amount) \in [Holders -> Nat]
         /\ Transfer(hlg, from, to, amount)[from] = hlg[from] - amount
         /\ Transfer(hlg, from, to, amount)[to] = hlg[to] + amount
         /\ \A h \in Holders \ {from, to} :
              Transfer(hlg, from, to, amount)[h] = hlg[h]
BY DEF Transfer

\* Paying in adds to what the contract holds.
LEMMA PayInEffect ==
  ASSUME TypeOK, NEW sender \in Accounts, NEW amount \in Nat,
         PayIn(sender, amount)
  PROVE  balance'[This] = balance[This] + amount
PROOF
<1>1. /\ sender \in Holders /\ This \in Holders /\ sender # This
      /\ balance \in [Holders -> Nat]
  BY AddressAssumption DEF TypeOK
<1>2. amount <= balance[sender] /\ balance' = Transfer(balance, sender, This, amount)
  BY DEF PayIn
<1> HIDE DEF Holders
<1> QED BY <1>1, <1>2, TransferEffects

\* What slashing moves: the base amount to the account that is rewarded, and the
\* rest to the slashed operator when it does not cover another base amount.
LEMMA SlashMoves ==
  ASSUME TypeOK, NEW operator \in Accounts, NEW sender \in Accounts,
         operator # sender, NEW pod \in Pods, Slash(operator, sender, pod)
  PROVE  LET amount    == GetBaseBondAmount(pod)
             rest      == bondedAmounts[operator] - amount
             stays     == rest >= amount
             rewarded  == IF bondedAmounts[sender] # 0 THEN sender ELSE Treasury
         IN  /\ amount \in Nat \ {0} /\ rest \in Nat
             /\ bondedAmounts' =
                  [bondedAmounts EXCEPT ![operator] = IF stays THEN rest ELSE 0]
             /\ balance'[rewarded] = balance[rewarded] + amount
             /\ balance'[operator] = balance[operator] + IF stays THEN 0 ELSE rest
             /\ balance'[This] + amount + (IF stays THEN 0 ELSE rest) = balance[This]
             /\ \A h \in Accounts \ {rewarded, operator} : balance'[h] = balance[h]
             /\ rewarded # Treasury => balance'[Treasury] = balance[Treasury]
PROOF
<1> DEFINE amount    == GetBaseBondAmount(pod)
           rest      == bondedAmounts[operator] - amount
           stays     == rest >= amount
           leftovers == IF stays THEN 0 ELSE rest
           rewarded  == IF bondedAmounts[sender] # 0 THEN sender ELSE Treasury
           paid      == Transfer(balance, This, rewarded, amount)
<1>1. /\ amount \in Nat \ {0} /\ rest \in Nat /\ leftovers \in Nat
      /\ amount + leftovers <= balance[This]
      /\ bondedAmounts' =
           [bondedAmounts EXCEPT ![operator] = IF stays THEN rest ELSE 0]
      /\ balance' = Transfer(paid, This, operator, leftovers)
  <2>1. amount \in Nat \ {0} /\ bondedAmounts[operator] \in Nat
    BY BondAssumption DEF TypeOK
  <2>2. rest \in Nat
    <3>1. rest >= 0
      BY DEF Slash
    <3> QED BY <2>1, <3>1
  <2>3. leftovers \in Nat
    BY <2>2
  <2> QED BY <2>1, <2>2, <2>3 DEF Slash
<1>2. /\ This \in Holders /\ rewarded \in Holders /\ operator \in Holders
      /\ Treasury \in Holders /\ Accounts \subseteq Holders /\ Treasury \notin Accounts
      /\ This \notin Accounts /\ This # Treasury
      /\ This # rewarded /\ This # operator /\ rewarded # operator
      /\ rewarded # Treasury => rewarded \in Accounts
      /\ balance \in [Holders -> Nat]
  BY AddressAssumption DEF TypeOK
<1>3. amount <= balance[This] /\ balance[This] \in Nat
  <2>1. balance[This] \in Nat
    BY <1>2
  <2> HIDE DEF amount, leftovers
  <2> QED BY <1>1, <2>1
<1> HIDE DEF amount, rest, leftovers, rewarded, Holders
<1>4. /\ paid \in [Holders -> Nat] /\ paid[This] = balance[This] - amount
      /\ paid[rewarded] = balance[rewarded] + amount
      /\ \A h \in Holders \ {This, rewarded} : paid[h] = balance[h]
  BY <1>1, <1>2, <1>3, TransferEffects
<1> HIDE DEF paid
<1>5. leftovers <= paid[This]
  BY <1>1, <1>3, <1>4
<1>6. /\ balance'[This] = paid[This] - leftovers
      /\ balance'[operator] = paid[operator] + leftovers
      /\ \A h \in Holders \ {This, operator} : balance'[h] = paid[h]
  BY <1>1, <1>2, <1>4, <1>5, TransferEffects
<1>7. balance'[This] + amount + leftovers = balance[This]
  BY <1>1, <1>3, <1>4, <1>6
<1>8. /\ balance'[rewarded] = balance[rewarded] + amount
      /\ balance'[operator] = balance[operator] + leftovers
      /\ \A h \in Accounts \ {rewarded, operator} : balance'[h] = balance[h]
      /\ rewarded # Treasury => balance'[Treasury] = balance[Treasury]
  BY <1>2, <1>4, <1>6
<1> QED BY <1>1, <1>7, <1>8 DEF amount, rest, leftovers, rewarded

\* When the bond of one account changes and the contract's HLG by at least as
\* much, the contract stays solvent.
LEMMA OneBondMoves ==
  ASSUME TypeOK, TypeOK', Solvent, NEW operator \in Addresses,
         \A a \in Addresses \ {operator} : bondedAmounts'[a] = bondedAmounts[a],
         balance'[This] + bondedAmounts[operator]
           >= balance[This] + bondedAmounts'[operator]
  PROVE  Solvent'
PROOF
<1>1. /\ bondedAmounts \in [Addresses -> Nat] /\ bondedAmounts' \in [Addresses -> Nat]
      /\ balance[This] \in Nat /\ balance'[This] \in Nat
      /\ bondedAmounts[operator] \in Nat /\ bondedAmounts'[operator] \in Nat
  BY DEF TypeOK
<1> HIDE DEF Addresses
<1>2. /\ SumFunction(bondedAmounts') + bondedAmounts[operator]
           = SumFunction(bondedAmounts) + bondedAmounts'[operator]
      /\ SumFunction(bondedAmounts) \in Nat /\ SumFunction(bondedAmounts') \in Nat
  BY <1>1, SumChange, SumType, AddressesFinite
<1>3. balance[This] >= SumFunction(bondedAmounts)
  BY DEF Solvent
<1>4. balance'[This] >= SumFunction(bondedAmounts')
  BY ONLY <1>1, <1>2, <1>3,
          balance'[This] + bondedAmounts[operator]
            >= balance[This] + bondedAmounts'[operator]
<1> QED BY <1>4 DEF Solvent

\* No bonds, no HLG.
LEMMA InitSolvent == Init => Solvent
PROOF
<1> SUFFICES ASSUME Init PROVE Solvent
  OBVIOUS
<1>1. /\ bondedAmounts \in [Addresses -> Nat]
      /\ \A a \in Addresses : bondedAmounts[a] = 0
  BY DEF Init
<1>2. balance[This] = 0
  BY AddressAssumption DEF Init
<1> HIDE DEF Addresses
<1> QED BY <1>1, <1>2, SumOfZeros, AddressesFinite DEF Solvent

\* No step moves more HLG out than it takes off the bonds.
LEMMA NextKeepsSolvent ==
  ASSUME IInv, IInv', Solvent, [Next]_vars
  PROVE  Solvent'
PROOF
<1>1. /\ TypeOK /\ TypeOK' /\ bondedAmounts \in [Addresses -> Nat]
      /\ balance \in [Holders -> Nat] /\ This \in Holders
      /\ balance[This] \in Nat /\ balance'[This] \in Nat
  BY DEF IInv, TypeOK
<1>2. CASE UNCHANGED hlgVars
  BY <1>2 DEF Solvent, hlgVars
<1>3. CASE \E sender \in Accounts, operator \in Addresses, amount \in Amounts :
             \/ TopupUtilityToken(sender, operator, amount)
             \/ \E pod \in Pods : BondUtilityToken(sender, operator, amount, pod)
  <2>1. PICK sender \in Accounts, operator \in Addresses, amount \in Amounts :
          /\ PayIn(sender, amount)
          /\ \/ bondedAmounts' = [bondedAmounts EXCEPT ![operator] = @ + amount]
             \/ /\ bondedAmounts[operator] = 0
                /\ bondedAmounts' = [bondedAmounts EXCEPT ![operator] = amount]
    BY <1>3 DEF TopupUtilityToken, BondUtilityToken
  <2>2. amount \in Nat /\ balance'[This] = balance[This] + amount
    BY <1>1, <2>1, PayInEffect, BoundAssumption
  <2>3. /\ bondedAmounts'[operator] = bondedAmounts[operator] + amount
        /\ bondedAmounts[operator] \in Nat
        /\ \A a \in Addresses \ {operator} : bondedAmounts'[a] = bondedAmounts[a]
    BY <1>1, <2>1, <2>2
  <2>4. balance'[This] + bondedAmounts[operator]
          >= balance[This] + bondedAmounts'[operator]
    BY <1>1, <2>2, <2>3
  <2> QED BY <1>1, <2>3, <2>4, OneBondMoves
<1>4. CASE \E sender \in Accounts, operator \in Addresses, recipient \in Holders :
             UnbondUtilityToken(sender, operator, recipient)
  <2>1. PICK operator \in Addresses, recipient \in Holders :
          /\ bondedAmounts[operator] <= balance[This]
          /\ bondedAmounts' = [bondedAmounts EXCEPT ![operator] = 0]
          /\ balance' = Transfer(balance, This, recipient, bondedAmounts[operator])
    BY <1>4 DEF UnbondUtilityToken
  <2>2. /\ bondedAmounts'[operator] = 0 /\ bondedAmounts[operator] \in Nat
        /\ \A a \in Addresses \ {operator} : bondedAmounts'[a] = bondedAmounts[a]
    BY <1>1, <2>1
  <2>3. ASSUME recipient # This
        PROVE  balance'[This] + bondedAmounts[operator] = balance[This]
    <3>1. balance'[This] = balance[This] - bondedAmounts[operator]
      <4> HIDE DEF Holders
      <4> QED BY <1>1, <2>1, <2>2, <2>3, TransferEffects
    <3> QED BY <1>1, <2>2, <3>1
  <2>4. ASSUME recipient = This
        PROVE  balance' = balance
    <3> HIDE DEF Holders
    <3> QED BY <1>1, <2>1, <2>2, <2>4, TransferToSelf
  <2>5. balance'[This] + bondedAmounts[operator]
          >= balance[This] + bondedAmounts'[operator]
    BY <1>1, <2>2, <2>3, <2>4
  <2> QED BY <1>1, <2>2, <2>5, OneBondMoves
<1>5. CASE Messaging
  BY <1>2, <1>5 DEF Messaging, CrossChainMessage
<1>6. CASE \E j \in JobHashes, sender \in Accounts, success \in BOOLEAN :
             ExecuteJob(sender, j, success)
  <2>1. PICK j \in JobHashes, sender \in Accounts :
          /\ OperatorJobExists(j)
          /\ \/ UNCHANGED hlgVars
             \/ /\ JobOperator(j) \notin {Zero, sender}
                /\ Slash(JobOperator(j), sender, operatorJobs[j].pod)
    BY <1>6 DEF ExecuteJob
  <2>2. CASE UNCHANGED hlgVars
    BY <1>2, <2>2
  <2>3. CASE /\ JobOperator(j) \notin {Zero, sender}
             /\ Slash(JobOperator(j), sender, operatorJobs[j].pod)
    <3>1. JobOperator(j) \in Accounts /\ operatorJobs[j].pod \in Pods
      BY <2>1, <2>3, OpenJob
    <3> DEFINE operator == JobOperator(j)
               amount == GetBaseBondAmount(operatorJobs[j].pod)
               rest == bondedAmounts[operator] - amount
               kept == IF rest >= amount THEN rest ELSE 0
               left == IF rest >= amount THEN 0 ELSE rest
    <3>2. /\ amount \in Nat /\ rest \in Nat
          /\ bondedAmounts' = [bondedAmounts EXCEPT ![operator] = kept]
          /\ balance'[This] + amount + left = balance[This]
      BY <1>1, <2>3, <3>1, SlashMoves
    <3>3. bondedAmounts[operator] \in Nat /\ balance'[This] \in Nat
      BY <1>1, <3>1 DEF TypeOK
    <3>4. /\ bondedAmounts'[operator] = kept
          /\ \A a \in Addresses \ {operator} : bondedAmounts'[a] = bondedAmounts[a]
      <4> HIDE DEF operator, kept
      <4> QED BY <1>1, <3>1, <3>2 DEF operator
    <3>5. kept + amount + left = bondedAmounts[operator] /\ kept \in Nat /\ left \in Nat
      <4> HIDE DEF operator, amount
      <4> QED BY <3>2, <3>3
    <3>6. balance'[This] + bondedAmounts[operator] >= balance[This] + kept
      <4> HIDE DEF operator, amount, left, kept, rest
      <4> QED BY <3>2, <3>3, <3>5, <1>1
    <3> HIDE DEF kept, amount, left, rest, operator
    <3> QED BY <1>1, <3>1, <3>4, <3>6, OneBondMoves DEF operator
  <2> QED BY <2>1, <2>2, <2>3
<1>7. CASE (\E j \in JobHashes : RecoverJob(j)) \/ Tick \/ GasPriceMoves \/ UNCHANGED vars
  BY <1>2, <1>7 DEF RecoverJob, Tick, GasPriceMoves, vars, hlgVars
<1>8. CASE \E sender \in Accounts, amount \in Gifts : SendHLG(sender, amount)
  <2>1. PICK sender \in Accounts, amount \in Nat :
          PayIn(sender, amount) /\ bondedAmounts' = bondedAmounts
    BY <1>8, BoundAssumption DEF SendHLG
  <2>2. balance'[This] = balance[This] + amount
    BY <1>1, <2>1, PayInEffect
  <2>3. SumFunction(bondedAmounts) \in Nat
    <3> HIDE DEF Addresses
    <3> QED BY <1>1, SumType, AddressesFinite
  <2> QED BY <1>1, <2>1, <2>2, <2>3 DEF Solvent
<1> QED BY <1>3, <1>4, <1>5, <1>6, <1>7, <1>8 DEF Next, Bonding, Executing

\* The contract's HLG covers the bonds, so that every bond can be paid out.
LEMMA SolventInvariance == Spec => [](IInv /\ Solvent)
PROOF
<1>1. IInv /\ Solvent /\ [Next]_vars => IInv' /\ Solvent'
  BY NextKeepsIInv, NextKeepsSolvent
<1> QED BY InitIInv, InitSolvent, <1>1, PTL DEF Spec

\* The contract could pay out all recorded bonds at once: no sequence of bonds,
\* topups, slashes and unbondings, to the contract itself too, takes HLG that is
\* still recorded for somebody.
THEOREM ContractStaysSolvent == Spec => []Solvent
BY SolventInvariance, PTL

\* What unbonding pays out is there: its transfer never reverts for lack of HLG,
\* whoever was slashed before.
BondsArePayable == \A a \in Accounts : bondedAmounts[a] <= balance[This]

LEMMA SolventPays ==
  ASSUME IInv, Solvent
  PROVE  BondsArePayable
PROOF
<1> SUFFICES ASSUME NEW a \in Accounts PROVE bondedAmounts[a] <= balance[This]
  BY DEF BondsArePayable
<1>1. /\ bondedAmounts \in [Addresses -> Nat] /\ a \in Addresses
      /\ bondedAmounts[a] \in Nat /\ balance[This] \in Nat
  BY DEF IInv, TypeOK
<1> HIDE DEF Addresses
<1>2. SumFunction(bondedAmounts) \in Nat /\ bondedAmounts[a] <= SumFunction(bondedAmounts)
  BY <1>1, SumType, SumAtLeast, AddressesFinite
<1>3. balance[This] >= SumFunction(bondedAmounts)
  BY DEF Solvent
<1> QED BY ONLY <1>1, <1>2, <1>3

\* In every reachable state the contract can pay any bond back in full.
THEOREM BondsStayPayable == Spec => []BondsArePayable
PROOF
<1>1. IInv /\ Solvent => BondsArePayable
  BY SolventPays
<1> QED BY <1>1, SolventInvariance, PTL

\* After n slots at least n slots have passed.
LEMMA SlotsPassed ==
  ASSUME NEW t \in Nat, NEW d \in Nat \ {0}, NEW n \in Nat, d * n <= t
  PROVE  t \div d >= n
PROOF
<1> DEFINE x == t \div d
<1>1. x \in Nat /\ t < d * (x + 1)
  BY Z3
<1>2. ~ (x + 1 <= n)
  <2> SUFFICES ASSUME x + 1 <= n PROVE FALSE
    OBVIOUS
  <2>1. d * (x + 1) <= d * n
    BY <1>1, Z3
  <2>2. d * n \in Nat /\ d * (x + 1) \in Nat
    BY <1>1, Z3
  <2> HIDE DEF x
  <2> QED BY <1>1, <2>1, <2>2
<1> QED BY <1>1, <1>2

-----------------------------------------------------------------------------
(***************************************************************************)
(* Who can finish a job.                                                   *)
(***************************************************************************)
\* The checked subtractions and the transfers of a slash do not revert.
CanSlash(operator, pod) ==
  LET amount    == GetBaseBondAmount(pod)
      rest      == bondedAmounts[operator] - amount
      leftovers == IF rest >= amount THEN 0 ELSE rest
  IN  rest >= 0 /\ amount + leftovers <= balance[This]

\* executeJob does not revert for this sender: nobody was drawn for the job, or it
\* was, or it is let in and the operator can pay.
CanExecute(sender, j) ==
  /\ OperatorJobExists(j)
  /\ \/ JobOperator(j) \in {Zero, sender}
     \/ MayReplace(sender, j) /\ CanSlash(JobOperator(j), operatorJobs[j].pod)

\* Nobody else executes a job.
LEMMA ExecutionNeeds ==
  ASSUME NEW sender \in Accounts, NEW j \in JobHashes, NEW success \in BOOLEAN,
         ExecuteJob(sender, j, success)
  PROVE  CanExecute(sender, j)
BY DEF ExecuteJob, CanExecute, Slash, CanSlash

\* A selected operator can always be made to pay: its bond covers the base amount,
\* and the contract holds its bond.
LEMMA OperatorsCanPay ==
  ASSUME IInv, BondsArePayable, NEW j \in JobHashes, OperatorJobExists(j),
         JobOperator(j) # Zero
  PROVE  CanSlash(JobOperator(j), operatorJobs[j].pod)
PROOF
<1> DEFINE a == JobOperator(j)
           amount == GetBaseBondAmount(operatorJobs[j].pod)
<1>1. a \in Accounts
  BY OpenJob
<1>2. operatorJobs[j].pod \in Pods
  BY OpenJob
<1>3. amount \in Nat /\ bondedAmounts[a] \in Nat /\ balance[This] \in Nat
  BY <1>1, <1>2, BondAssumption DEF IInv, TypeOK
<1>4. amount <= bondedAmounts[a]
  BY DEF IInv, BondIsLiveAndSufficient
<1>5. bondedAmounts[a] <= balance[This]
  BY <1>1 DEF BondsArePayable
<1> HIDE DEF a, amount
<1>6. LET rest      == bondedAmounts[a] - amount
          leftovers == IF rest >= amount THEN 0 ELSE rest
      IN  rest >= 0 /\ amount + leftovers <= balance[This]
  BY <1>3, <1>4, <1>5
<1> QED BY <1>6 DEF CanSlash, a, amount

\* From the first slot after the operator's on there is somebody else who can
\* execute a job, as long as the pod it was drawn from is not empty: the account at
\* the fallback index, or the whole pod when that index is stale.  After the last
\* slot it is everybody.
JobsFindExecutors ==
  \A j \in JobHashes : OperatorJobExists(j) /\ ~gasSpike =>
    /\ TimeDifference(j) > 0 /\ Len(operatorPods[operatorJobs[j].pod]) > 1 =>
         \E a \in Accounts \ {JobOperator(j)} : CanExecute(a, j)
    /\ elapsed[j] >= OpenSeason => \A a \in Accounts : CanExecute(a, j)

\* However operators bonded, unbonded, were selected and slashed since the job was
\* opened, executeJob finds somebody it does not refuse, and whoever that is, the
\* slash of the late operator goes through.
THEOREM JobsAlwaysFindExecutors == Spec => []JobsFindExecutors
PROOF
<1>1. IInv /\ BondsArePayable => JobsFindExecutors
  <2> SUFFICES ASSUME IInv, BondsArePayable, NEW j \in JobHashes,
                      OperatorJobExists(j), ~gasSpike
               PROVE  /\ TimeDifference(j) > 0
                         /\ Len(operatorPods[operatorJobs[j].pod]) > 1 =>
                           \E a \in Accounts \ {JobOperator(j)} : CanExecute(a, j)
                      /\ elapsed[j] >= OpenSeason =>
                           \A a \in Accounts : CanExecute(a, j)
    BY DEF JobsFindExecutors
  <2> DEFINE pod == operatorJobs[j].pod
             index == CurrentFallbackIndex(j)
  <2>1. ASSUME NEW a \in Accounts, JobOperator(j) # Zero => MayReplace(a, j)
        PROVE  CanExecute(a, j)
    BY <2>1, OperatorsCanPay DEF CanExecute
  <2>2. /\ elapsed[j] \in Nat /\ BlockTime \in Nat \ {0} /\ Fallbacks \in Nat
        /\ TimeDifference(j) \in Int
    BY BoundAssumption DEF IInv, TypeOK, TimeDifference
  <2>3. ASSUME TimeDifference(j) > 0, Len(operatorPods[pod]) > 1
        PROVE  \E a \in Accounts \ {JobOperator(j)} : CanExecute(a, j)
    <3>1. pod \in DOMAIN operatorPods /\ operatorPods[pod] \in Seq(Addresses)
          /\ Len(operatorPods[pod]) \in Nat
      BY DEF IInv, TypeOK, SelectedForOneJob
    <3>2. ASSUME NEW i \in 1 .. Len(operatorPods[pod]) - 1
          PROVE  /\ operatorPods[pod][i + 1] \in Accounts
                 /\ bondedOperators[operatorPods[pod][i + 1]] = pod
                 /\ InPod(operatorPods[pod][i + 1])
      <4>1. i + 1 \in 2 .. Len(operatorPods[pod])
        BY <3>1
      <4>2. /\ operatorPods[pod][i + 1] \in Accounts
            /\ bondedOperators[operatorPods[pod][i + 1]] = pod
        BY <3>1, <4>1 DEF IInv, PodsIndexed
      <4>3. pod # 0
        BY <3>1 DEF IInv, TypeOK
      <4> QED BY <4>2, <4>3 DEF InPod
    <3>3. ASSUME NEW a \in Accounts, InPod(a)
          PROVE  a # JobOperator(j)
      BY <3>3, AddressAssumption DEF IInv, SelectedForOneJob
    <3>4. CASE index > 0 /\ TimeDifference(j) <= Fallbacks
      <4>1. index \in 1 .. Len(operatorPods[pod]) - 1
        <5>1. TimeDifference(j) \in 1 .. Fallbacks
          BY <2>2, <2>3, <3>4
        <5>2. operatorJobs[j].fallbacks[TimeDifference(j)] \in Nat
          <6>1. operatorJobs[j] \in Jobs
            BY OpenJob
          <6>2. operatorJobs[j].fallbacks \in [1 .. Fallbacks -> Nat]
            BY <6>1 DEF Jobs
          <6> HIDE DEF pod, index
          <6> QED BY <5>1, <6>2
        <5>3. /\ index = operatorJobs[j].fallbacks[TimeDifference(j)]
              /\ operatorJobs[j].fallbacks[TimeDifference(j)] < Len(operatorPods[pod])
          BY <3>4 DEF CurrentFallbackIndex
        <5> HIDE DEF index
        <5> QED BY <3>1, <3>4, <5>2, <5>3
      <4> DEFINE a == operatorPods[pod][index + 1]
      <4>2. a \in Accounts /\ a # JobOperator(j)
        BY <3>2, <3>3, <4>1
      <4>3. MayReplace(a, j)
        BY <2>3, <3>4 DEF MayReplace
      <4> QED BY <2>1, <4>2, <4>3
    <3>5. CASE ~ (index > 0 /\ TimeDifference(j) <= Fallbacks)
      <4> DEFINE a == operatorPods[pod][1 + 1]
      <4>1. 1 \in 1 .. Len(operatorPods[pod]) - 1
        BY <2>3, <3>1
      <4>2. a \in Accounts /\ a # JobOperator(j) /\ bondedOperators[a] = pod
        BY <3>2, <3>3, <4>1
      <4> HIDE DEF a
      <4>3. MayReplace(a, j)
        BY <2>3, <3>5, <4>2 DEF MayReplace
      <4> QED BY <2>1, <4>2, <4>3
    <3> QED BY <3>4, <3>5
  <2>4. ASSUME elapsed[j] >= OpenSeason
        PROVE  \A a \in Accounts : CanExecute(a, j)
    <3>1. TimeDifference(j) >= Fallbacks + 1
      <4>1. BlockTime * (Fallbacks + 1) <= elapsed[j]
        BY <2>4 DEF OpenSeason
      <4> QED BY <2>2, <4>1, SlotsPassed DEF TimeDifference
    <3>2. ASSUME NEW a \in Accounts PROVE MayReplace(a, j)
      BY <2>2, <3>1 DEF MayReplace
    <3> QED BY <2>1, <3>2
  <2> QED BY <2>3, <2>4
<1>2. IInv /\ Solvent => BondsArePayable
  BY SolventPays
<1> QED BY <1>1, <1>2, SolventInvariance, PTL

-----------------------------------------------------------------------------
(***************************************************************************)
(* Who finishes a job, and what the others are left with.                  *)
(***************************************************************************)

\* A job stops being open in executeJob only, and the bond of its operator goes
\* down there only when the operator is slashed.
LEMMA JobIsFinishedByExecution ==
  ASSUME IInv, [Next]_vars, NEW j \in JobHashes,
         OperatorJobExists(j), ~OperatorJobExists(j)'
  PROVE  \E sender \in Accounts, success \in BOOLEAN : ExecuteJob(sender, j, success)
PROOF
<1>1. operatorJobs \in [JobHashes -> Jobs]
  BY DEF IInv, TypeOK
<1>2. operatorJobs'[j] # operatorJobs[j]
  BY DEF OperatorJobExists
<1>3. CASE Bonding
  BY <1>2, <1>3 DEF Bonding, BondUtilityToken, TopupUtilityToken,
                    UnbondUtilityToken, SendHLG, jobVars
<1>4. CASE Messaging
  <2>1. PICK k \in JobHashes, pod \in DOMAIN operatorPods, underpriced \in BOOLEAN :
          \E index \in 0 .. Len(operatorPods[pod]) - 1,
             fallbacks \in [1..Fallbacks -> 0 .. FallbackRange(pod) - 1] :
            CrossChainMessage(k, pod, index, underpriced, fallbacks)
    BY <1>4 DEF Messaging
  <2>2. NeverDelivered(k) /\ \A l \in JobHashes \ {k} : operatorJobs'[l] = operatorJobs[l]
    BY <1>1, <2>1 DEF CrossChainMessage
  <2> QED BY <1>2, <2>2 DEF NeverDelivered
<1>5. CASE Executing
  <2>1. CASE \E k \in JobHashes : RecoverJob(k)
    BY <1>2, <2>1 DEF RecoverJob
  <2>2. ASSUME NEW k \in JobHashes, NEW sender \in Accounts, NEW success \in BOOLEAN,
               ExecuteJob(sender, k, success)
        PROVE  k = j
    BY <1>1, <1>2, <2>2 DEF ExecuteJob
  <2> QED BY <1>5, <2>1, <2>2 DEF Executing
<1>6. CASE Tick \/ GasPriceMoves \/ UNCHANGED vars
  BY <1>2, <1>6 DEF Tick, GasPriceMoves, vars, jobVars
<1> QED BY <1>3, <1>4, <1>5, <1>6 DEF Next

\* A fallback that takes the slot of a late operator gets the base amount: the
\* account at the index drawn for the slot is the only one executeJob accepts
\* then, and it is bonded, so it is rewarded and not the treasury.
THEOREM FallbacksGetTheirReward == Spec => FallbackIsRewarded
PROOF
<1> DEFINE Rewarded == \A j \in JobHashes :
      LET pod   == operatorJobs[j].pod
          index == operatorJobs[j].fallbacks[elapsed[j] \div BlockTime]
      IN  /\ OperatorJobExists(j) /\ ~OperatorJobExists(j)'
          /\ elapsed[j] \div BlockTime \in 1..Fallbacks
          /\ index \in 1 .. Len(operatorPods[pod]) - 1
          /\ bondedAmounts'[JobOperator(j)] < bondedAmounts[JobOperator(j)]
          => balance'[operatorPods[pod][index + 1]]
               = balance[operatorPods[pod][index + 1]] + GetBaseBondAmount(pod)
<1>1. IInv /\ [Next]_vars => [Rewarded]_vars
  <2> SUFFICES ASSUME IInv, Next, NEW j \in JobHashes,
                      OperatorJobExists(j), ~OperatorJobExists(j)',
                      elapsed[j] \div BlockTime \in 1..Fallbacks,
                      operatorJobs[j].fallbacks[elapsed[j] \div BlockTime]
                        \in 1 .. Len(operatorPods[operatorJobs[j].pod]) - 1,
                      bondedAmounts'[JobOperator(j)] < bondedAmounts[JobOperator(j)]
               PROVE  LET pod   == operatorJobs[j].pod
                          index == operatorJobs[j].fallbacks[elapsed[j] \div BlockTime]
                      IN  balance'[operatorPods[pod][index + 1]]
                            = balance[operatorPods[pod][index + 1]]
                                + GetBaseBondAmount(pod)
    OBVIOUS
  <2> DEFINE pod      == operatorJobs[j].pod
             index    == operatorJobs[j].fallbacks[elapsed[j] \div BlockTime]
             operator == JobOperator(j)
  <2>1. PICK sender \in Accounts : \E success \in BOOLEAN : ExecuteJob(sender, j, success)
    BY JobIsFinishedByExecution
  <2>2. /\ pod \in DOMAIN operatorPods /\ pod \in Pods
        /\ operator \in Addresses
        /\ operator # Zero => operator \in Accounts
    BY OpenJob
  <2>3. bondedAmounts \in [Addresses -> Nat] /\ bondedAmounts[operator] \in Nat
    BY <2>2 DEF IInv, TypeOK
  <2>4. ~UNCHANGED hlgVars
    <3> SUFFICES ASSUME UNCHANGED hlgVars PROVE FALSE
      OBVIOUS
    <3>1. bondedAmounts' = bondedAmounts
      BY DEF hlgVars
    <3>2. bondedAmounts[operator] < bondedAmounts[operator]
      BY <3>1
    <3> QED BY <2>3, <3>2
  <2>5. /\ operator \notin {Zero, sender} /\ MayReplace(sender, j)
        /\ Slash(operator, sender, pod)
    BY <2>1, <2>4 DEF ExecuteJob
  <2>6. CurrentFallbackIndex(j) = index /\ index > 0
    <3>1. index < Len(operatorPods[pod]) /\ index \in Nat /\ index > 0
      <4>1. Len(operatorPods[pod]) \in Nat
        BY <2>2 DEF IInv, TypeOK
      <4> QED BY <4>1
    <3> QED BY <3>1 DEF CurrentFallbackIndex, TimeDifference
  <2>7. operatorPods[pod][index + 1] = sender
    <3>1. TimeDifference(j) <= Fallbacks
      BY BoundAssumption DEF TimeDifference
    <3> QED BY <2>5, <2>6, <3>1 DEF MayReplace
  <2>8. bondedAmounts[sender] # 0
    <3>1. index + 1 \in 2 .. Len(operatorPods[pod])
      <4>1. Len(operatorPods[pod]) \in Nat
        BY <2>2 DEF IInv, TypeOK
      <4> QED BY <4>1
    <3>2. bondedOperators[sender] = pod
      BY <2>2, <2>7, <3>1 DEF IInv, PodsIndexed
    <3>3. bondedAmounts[sender] >= GetBaseBondAmount(pod)
      <4>1. pod # 0
        BY <2>2 DEF Pods
      <4> QED BY <3>2, <4>1 DEF IInv, BondIsLiveAndSufficient, InPod
    <3>4. bondedAmounts[sender] \in Nat
      BY <2>3
    <3>5. GetBaseBondAmount(pod) \in Nat \ {0}
      BY <2>2, BondAssumption
    <3> QED BY ONLY <3>3, <3>4, <3>5
  <2>9. operator \in Accounts /\ operator # sender /\ TypeOK
    BY <2>2, <2>5 DEF IInv
  <2>10. balance'[sender] = balance[sender] + GetBaseBondAmount(pod)
    <3> HIDE DEF operator, pod
    <3> QED BY <2>2, <2>5, <2>8, <2>9, SlashMoves
  <2> QED BY <2>7, <2>10
<1> QED BY <1>1, Invariance, PTL DEF Spec, FallbackIsRewarded

-----------------------------------------------------------------------------
(***************************************************************************)
(* HolographOperator implements OperatorStaking.  What the staking         *)
(* specification sees of a state, variable by variable.                    *)
(***************************************************************************)
PlaceMap  == [a \in Accounts |-> PlaceOf(a)]
BondMap   == [a \in Accounts |-> bondedAmounts[a]]
FreeMap   == [h \in Accounts \union {Treasury} |-> balance[h]]
StatusMap == [j \in JobHashes |-> StatusOf(j)]
LateMap   == [j \in JobHashes |-> elapsed[j] >= BlockTime]

\* No time is counted for a job that is not open, so a job is never late before
\* it is opened.
TimesClosed == \A j \in JobHashes : ~OperatorJobExists(j) => elapsed[j] = 0

RInv == IInv /\ AppliedAtMostOnce /\ TimesClosed

\* An account is in one place.
LEMMA Places ==
  IInv => \A a \in Accounts :
    /\ InPod(a) => /\ PlaceOf(a) = <<"pod", bondedOperators[a]>>
                   /\ bondedOperators[a] \in Pods
    /\ \A j \in JobHashes : IsSelectedFor(a, j) =>
         /\ PlaceOf(a) = <<"job", j, operatorJobs[j].pod>> /\ ~InPod(a)
         /\ operatorJobs[j].pod \in Pods
    /\ ~InPod(a) /\ (\A j \in JobHashes : ~IsSelectedFor(a, j)) => PlaceOf(a) = <<"out">>
PROOF
<1> SUFFICES ASSUME IInv, NEW a \in Accounts
             PROVE  /\ InPod(a) => /\ PlaceOf(a) = <<"pod", bondedOperators[a]>>
                                   /\ bondedOperators[a] \in Pods
                    /\ \A j \in JobHashes : IsSelectedFor(a, j) =>
                         /\ PlaceOf(a) = <<"job", j, operatorJobs[j].pod>> /\ ~InPod(a)
                         /\ operatorJobs[j].pod \in Pods
                    /\ ~InPod(a) /\ (\A j \in JobHashes : ~IsSelectedFor(a, j))
                         => PlaceOf(a) = <<"out">>
  OBVIOUS
<1> DEFINE selected == {j \in JobHashes : IsSelectedFor(a, j)}
<1>1. a # Zero
  BY AddressAssumption
<1>2. ASSUME InPod(a)
      PROVE  PlaceOf(a) = <<"pod", bondedOperators[a]>> /\ bondedOperators[a] \in Pods
  <2>1. bondedOperators[a] \in DOMAIN operatorPods
    BY <1>2 DEF IInv, PodsIndexed
  <2> QED BY <1>2, <2>1, BaseAmountOfPod DEF PlaceOf, IInv
<1>3. ASSUME NEW j \in JobHashes, IsSelectedFor(a, j)
      PROVE  /\ PlaceOf(a) = <<"job", j, operatorJobs[j].pod>> /\ ~InPod(a)
             /\ operatorJobs[j].pod \in Pods
  <2>1. ~InPod(a) /\ operatorJobs[j].pod \in Pods
    BY <1>1, <1>3, OpenJob DEF IsSelectedFor
  <2>2. \A k \in JobHashes : IsSelectedFor(a, k) => k = j
    BY <1>1, <1>3 DEF IsSelectedFor, IInv, SelectedForOneJob
  <2>3. selected = {j}
    BY <1>3, <2>2
  <2>4. (CHOOSE k \in selected : TRUE) = j
    BY <2>3
  <2> QED BY <2>1, <2>3, <2>4 DEF PlaceOf
<1>4. ASSUME ~InPod(a), \A j \in JobHashes : ~IsSelectedFor(a, j)
      PROVE  PlaceOf(a) = <<"out">>
  <2>1. selected = {}
    BY <1>4
  <2> QED BY <1>4, <2>1 DEF PlaceOf
<1> QED BY <1>2, <1>3, <1>4

\* The same in the next state.
LEMMA NextPlaces ==
  IInv' => (\A a \in Accounts :
    /\ InPod(a) => /\ PlaceOf(a) = <<"pod", bondedOperators[a]>>
                   /\ bondedOperators[a] \in Pods
    /\ \A j \in JobHashes : IsSelectedFor(a, j) =>
         /\ PlaceOf(a) = <<"job", j, operatorJobs[j].pod>> /\ ~InPod(a)
         /\ operatorJobs[j].pod \in Pods
    /\ ~InPod(a) /\ (\A j \in JobHashes : ~IsSelectedFor(a, j)) => PlaceOf(a) = <<"out">>)'
BY Places, PTL

\* An account whose recorded pod and selections stay is in the same place.
LEMMA PlaceKept ==
  ASSUME IInv, IInv', NEW a \in Accounts,
         bondedOperators'[a] = bondedOperators[a],
         \A j \in JobHashes : /\ IsSelectedFor(a, j)' <=> IsSelectedFor(a, j)
                              /\ IsSelectedFor(a, j) => operatorJobs'[j] = operatorJobs[j]
  PROVE  PlaceOf(a)' = PlaceOf(a)
PROOF
<1>1. InPod(a)' <=> InPod(a)
  BY DEF InPod
<1>2. CASE InPod(a)
  BY <1>1, <1>2, Places, NextPlaces
<1>3. ASSUME NEW j \in JobHashes, IsSelectedFor(a, j)
      PROVE  PlaceOf(a)' = PlaceOf(a)
  <2>1. PlaceOf(a) = <<"job", j, operatorJobs[j].pod>>
    BY <1>3, Places
  <2>2. IsSelectedFor(a, j)' /\ operatorJobs'[j] = operatorJobs[j]
    BY <1>3
  <2>3. PlaceOf(a)' = <<"job", j, operatorJobs'[j].pod>>
    BY <2>2, NextPlaces
  <2> QED BY <2>1, <2>2, <2>3
<1>4. CASE ~InPod(a) /\ \A j \in JobHashes : ~IsSelectedFor(a, j)
  <2>1. PlaceOf(a) = <<"out">>
    BY <1>4, Places
  <2>2. ~InPod(a)' /\ \A j \in JobHashes : ~IsSelectedFor(a, j)'
    BY <1>1, <1>4
  <2>3. PlaceOf(a)' = <<"out">>
    BY <2>2, NextPlaces
  <2> QED BY <2>1, <2>3
<1> QED BY <1>2, <1>3, <1>4

\* One account moves.
LEMMA OnePlaceChanges ==
  ASSUME NEW a \in Accounts, NEW x, PlaceOf(a)' = x,
         \A b \in Accounts \ {a} : PlaceOf(b)' = PlaceOf(b)
  PROVE  PlaceMap' = [PlaceMap EXCEPT ![a] = x]
  BY DEF PlaceMap

\* Steps that leave the jobs alone move only the accounts whose pod changes.
LEMMA JobsAlone ==
  ASSUME IInv, IInv', UNCHANGED jobVars
  PROVE  /\ \A a \in Accounts : bondedOperators'[a] = bondedOperators[a] =>
              PlaceOf(a)' = PlaceOf(a)
         /\ StatusMap' = StatusMap /\ LateMap' = LateMap
         /\ \A a \in Accounts, j \in JobHashes : IsSelectedFor(a, j)' <=> IsSelectedFor(a, j)
PROOF
<1>1. /\ UNCHANGED <<operatorJobs, operatorTempStorage, failedJobs, bridgedIn, elapsed>>
      /\ \A a \in Accounts, j \in JobHashes : IsSelectedFor(a, j)' <=> IsSelectedFor(a, j)
  BY DEF jobVars, IsSelectedFor, OperatorJobExists, JobOperator
<1>2. ASSUME NEW a \in Accounts, bondedOperators'[a] = bondedOperators[a]
      PROVE  PlaceOf(a)' = PlaceOf(a)
  BY <1>1, <1>2, PlaceKept
<1>3. StatusMap' = StatusMap /\ LateMap' = LateMap
  BY <1>1 DEF StatusMap, StatusOf, OperatorJobExists, LateMap
<1> QED BY <1>1, <1>2, <1>3

\* HLG paid in leaves what its payer owns.
LEMMA PayInIsPay ==
  ASSUME TypeOK, NEW sender \in Accounts, NEW amount \in Nat,
         PayIn(sender, amount)
  PROVE  /\ amount <= FreeMap[sender]
         /\ FreeMap' = [FreeMap EXCEPT ![sender] = @ - amount]
PROOF
<1>1. /\ sender \in Holders /\ This \in Holders /\ sender # This
      /\ This \notin Accounts \union {Treasury}
      /\ Accounts \union {Treasury} \subseteq Holders
      /\ balance \in [Holders -> Nat]
  BY AddressAssumption DEF TypeOK
<1>2. amount <= balance[sender] /\ balance' = Transfer(balance, sender, This, amount)
  BY DEF PayIn
<1>3. /\ balance'[sender] = balance[sender] - amount
      /\ \A h \in Holders \ {sender, This} : balance'[h] = balance[h]
  <2> HIDE DEF Holders
  <2> QED BY <1>1, <1>2, TransferEffects
<1>4. amount <= FreeMap[sender]
  BY <1>2 DEF FreeMap
<1>5. \A h \in Accounts \union {Treasury} :
        balance'[h] = IF h = sender THEN balance[h] - amount ELSE balance[h]
  BY <1>1, <1>3
<1> QED BY <1>4, <1>5 DEF FreeMap

\* Bonding joins a pod.
LEMMA BondIsJoin ==
  ASSUME RInv, RInv', NEW sender \in Accounts, NEW operator \in Addresses,
         NEW amount \in Amounts, NEW pod \in Pods,
         BondUtilityToken(sender, operator, amount, pod)
  PROVE  operator \in Accounts /\ Staking!Join(sender, operator, amount, pod)
PROOF
<1> USE DEF RInv
<1>1. /\ operator \in Accounts /\ ~InPod(operator) /\ bondedAmounts[operator] = 0
      /\ pod # 0 /\ amount \in Nat
  BY BoundAssumption DEF BondUtilityToken, IInv, ZeroIsMarked, InPod, Pods
<1>2. \A j \in JobHashes : ~IsSelectedFor(operator, j)
  BY <1>1, OpenJob, AddressAssumption DEF IsSelectedFor
<1>3. /\ PayIn(sender, amount) /\ UNCHANGED jobVars
      /\ bondedOperators' = [bondedOperators EXCEPT ![operator] = pod]
      /\ bondedAmounts' = [bondedAmounts EXCEPT ![operator] = amount]
  BY DEF BondUtilityToken, PushOperator
<1>4. /\ bondedOperators \in [Addresses -> Nat] /\ bondedAmounts \in [Addresses -> Nat]
      /\ TypeOK
  BY DEF IInv, TypeOK
<1>5. PlaceOf(operator) = <<"out">>
  BY <1>1, <1>2, Places
<1>6. PlaceOf(operator)' = <<"pod", pod>>
  <2>1. bondedOperators'[operator] = pod
    BY <1>3, <1>4
  <2>2. InPod(operator)'
    BY <1>1, <2>1 DEF InPod
  <2> QED BY <1>1, <2>1, <2>2, NextPlaces
<1>7. PlaceMap' = [PlaceMap EXCEPT ![operator] = <<"pod", pod>>]
  <2>1. \A b \in Accounts \ {operator} : bondedOperators'[b] = bondedOperators[b]
    BY <1>3, <1>4
  <2>2. \A b \in Accounts \ {operator} : PlaceOf(b)' = PlaceOf(b)
    BY <1>3, <2>1, JobsAlone
  <2> QED BY <1>1, <1>6, <2>2, OnePlaceChanges
<1>8. BondMap' = [BondMap EXCEPT ![operator] = amount]
  BY <1>3, <1>4 DEF BondMap
<1>9. /\ amount <= FreeMap[sender]
      /\ FreeMap' = [FreeMap EXCEPT ![sender] = @ - amount]
  BY <1>1, <1>3, <1>4, PayInIsPay
<1>10. StatusMap' = StatusMap /\ LateMap' = LateMap
  BY <1>3, JobsAlone
<1>11. amount >= GetBaseBondAmount(pod)
  <2>1. operatorPods \in Seq(Seq(Addresses))
    BY <1>4 DEF TypeOK
  <2>2. /\ GetCurrentBondAmount(operatorPods, pod) \in Nat
        /\ GetCurrentBondAmount(operatorPods, pod) >= GetBaseBondAmount(pod)
    BY <2>1, CurrentBondCoversBase
  <2>3. GetCurrentBondAmount(operatorPods, pod) <= amount
    BY DEF BondUtilityToken
  <2>4. GetBaseBondAmount(pod) \in Nat
    BY BondAssumption
  <2> QED BY <1>1, <2>2, <2>3, <2>4
<1>12. PlaceMap[operator] = <<"out">>
  BY <1>1, <1>5 DEF PlaceMap
<1> QED BY <1>1, <1>7, <1>8, <1>9, <1>10, <1>11, <1>12
        DEF Staking!Join, Staking!Pay, Staking!Out, Staking!In,
            PlaceMap, BondMap, FreeMap, StatusMap, LateMap

\* A topup adds to a bond, or is forfeited when it names the zero address.
LEMMA TopupIsTopup ==
  ASSUME RInv, RInv', NEW sender \in Accounts, NEW operator \in Addresses,
         NEW amount \in Amounts, TopupUtilityToken(sender, operator, amount)
  PROVE  IF operator = Zero THEN Staking!Forfeit(sender, amount)
                            ELSE Staking!Topup(sender, operator, amount)
PROOF
<1> USE DEF RInv
<1>1. /\ PayIn(sender, amount) /\ UNCHANGED <<podVars, jobVars>> /\ amount \in Nat
      /\ bondedOperators[operator] # 0
      /\ bondedAmounts' = [bondedAmounts EXCEPT ![operator] = @ + amount]
  BY BoundAssumption DEF TopupUtilityToken
<1>2. bondedAmounts \in [Addresses -> Nat] /\ TypeOK
  BY DEF IInv, TypeOK
<1>3. /\ amount <= FreeMap[sender]
      /\ FreeMap' = [FreeMap EXCEPT ![sender] = @ - amount]
  BY <1>1, <1>2, PayInIsPay
<1>4. StatusMap' = StatusMap /\ LateMap' = LateMap
  BY <1>1, JobsAlone
<1>5. PlaceMap' = PlaceMap
  BY <1>1, JobsAlone DEF podVars, PlaceMap
<1>6. CASE operator = Zero
  <2>1. BondMap' = BondMap
    BY <1>1, <1>2, <1>6, AddressAssumption DEF BondMap
  <2> QED BY <1>3, <1>4, <1>5, <1>6, <2>1
          DEF Staking!Forfeit, Staking!Pay, PlaceMap, BondMap, FreeMap, StatusMap, LateMap
<1>7. CASE operator # Zero
  <2>1. BondMap' = [BondMap EXCEPT ![operator] = @ + amount]
    BY <1>1, <1>2, <1>7 DEF BondMap
  <2>2. \E p \in Pods : PlaceMap[operator] = <<"pod", p>>
    BY <1>1, <1>7, Places DEF PlaceMap, InPod
  <2> QED BY <1>3, <1>4, <1>5, <1>7, <2>1, <2>2
          DEF Staking!Topup, Staking!Pay, Staking!In,
              PlaceMap, BondMap, FreeMap, StatusMap, LateMap
<1> QED BY <1>6, <1>7

\* HLG that is sent to the contract is forfeited.
LEMMA SendIsForfeit ==
  ASSUME RInv, RInv', NEW sender \in Accounts, NEW amount \in Gifts,
         SendHLG(sender, amount)
  PROVE  Staking!Forfeit(sender, amount)
PROOF
<1> USE DEF RInv
<1>1. /\ PayIn(sender, amount) /\ UNCHANGED <<podVars, jobVars>> /\ amount \in Nat
      /\ bondedAmounts' = bondedAmounts /\ TypeOK
  BY BoundAssumption DEF SendHLG, IInv
<1>2. /\ amount <= FreeMap[sender]
      /\ FreeMap' = [FreeMap EXCEPT ![sender] = @ - amount]
  BY <1>1, PayInIsPay
<1>3. StatusMap' = StatusMap /\ LateMap' = LateMap
  BY <1>1, JobsAlone
<1>4. PlaceMap' = PlaceMap
  BY <1>1, JobsAlone DEF podVars, PlaceMap
<1>5. BondMap' = BondMap
  BY <1>1 DEF BondMap
<1> QED BY <1>2, <1>3, <1>4, <1>5
        DEF Staking!Forfeit, Staking!Pay, PlaceMap, BondMap, FreeMap, StatusMap, LateMap

\* Unbonding leaves the pod and takes the whole bond out of the contract, or
\* leaves it there when the contract is the recipient.
LEMMA UnbondIsLeave ==
  ASSUME RInv, RInv', NEW sender \in Accounts, NEW operator \in Addresses,
         NEW recipient \in Holders, UnbondUtilityToken(sender, operator, recipient)
  PROVE  /\ operator \in Accounts
         /\ IF recipient = This
              THEN Staking!LeaveBondBehind(operator)
              ELSE Staking!LeaveWithBond(operator, recipient)
PROOF
<1> USE DEF RInv
<1> DEFINE pod   == bondedOperators[operator]
           index == operatorPodIndex[operator]
<1>1. /\ operator \in Accounts /\ InPod(operator) /\ UNCHANGED jobVars
      /\ PopOperator(pod, index)
      /\ bondedAmounts[operator] <= balance[This]
      /\ bondedAmounts' = [bondedAmounts EXCEPT ![operator] = 0]
      /\ balance' = Transfer(balance, This, recipient, bondedAmounts[operator])
  BY AddressAssumption DEF UnbondUtilityToken, InPod
<1>2. /\ bondedOperators \in [Addresses -> Nat] /\ bondedAmounts \in [Addresses -> Nat]
      /\ balance \in [Holders -> Nat] /\ TypeOK /\ PodsIndexed
  BY DEF IInv, TypeOK
<1>3. /\ pod \in DOMAIN operatorPods /\ index \in 1 .. Len(operatorPods[pod]) - 1
      /\ operatorPods[pod][index + 1] = operator
  <2>1. /\ pod \in DOMAIN operatorPods /\ index + 1 \in 2 .. Len(operatorPods[pod])
        /\ operatorPods[pod][index + 1] = operator
    BY <1>1 DEF IInv, PodsIndexed
  <2>2. index \in Nat /\ Len(operatorPods[pod]) \in Nat
    BY <1>2, <2>1 DEF TypeOK
  <2> QED BY <2>1, <2>2
<1>4. bondedOperators' = [bondedOperators EXCEPT ![operator] = 0]
  <2> HIDE DEF pod, index
  <2> QED BY <1>1, <1>2, <1>3, PopKeepsPods
<1> HIDE DEF pod, index
<1>5. PlaceOf(operator)' = <<"out">>
  <2>1. ~InPod(operator)'
    BY <1>1, <1>2, <1>4 DEF InPod
  <2>2. \A j \in JobHashes : ~IsSelectedFor(operator, j)
    BY <1>1, Places
  <2>3. \A j \in JobHashes : ~IsSelectedFor(operator, j)'
    BY <1>1, <2>2, JobsAlone
  <2> QED BY <1>1, <2>1, <2>3, NextPlaces
<1>6. PlaceMap' = [PlaceMap EXCEPT ![operator] = <<"out">>]
  <2>1. \A b \in Accounts \ {operator} : bondedOperators'[b] = bondedOperators[b]
    BY <1>2, <1>4
  <2>2. \A b \in Accounts \ {operator} : PlaceOf(b)' = PlaceOf(b)
    BY <1>1, <2>1, JobsAlone
  <2> QED BY <1>1, <1>5, <2>2, OnePlaceChanges
<1>7. \E p \in Pods : PlaceMap[operator] = <<"pod", p>>
  BY <1>1, Places DEF PlaceMap
<1>8. BondMap' = [BondMap EXCEPT ![operator] = 0]
  BY <1>1, <1>2 DEF BondMap
<1>9. ASSUME recipient # This
      PROVE  FreeMap' = [FreeMap EXCEPT ![recipient] = @ + BondMap[operator]]
  <2>1. /\ This \in Holders /\ recipient \in Holders /\ This # recipient
        /\ This \notin Accounts \union {Treasury}
        /\ Accounts \union {Treasury} \subseteq Holders
        /\ bondedAmounts[operator] \in Nat
    BY <1>2, <1>9, AddressAssumption
  <2>2. /\ balance'[recipient] = balance[recipient] + bondedAmounts[operator]
        /\ \A h \in Holders \ {This, recipient} : balance'[h] = balance[h]
    <3> HIDE DEF Holders
    <3> QED BY <1>1, <1>2, <2>1, TransferEffects
  <2>3. \A h \in Accounts \union {Treasury} :
          balance'[h] = IF h = recipient THEN balance[h] + bondedAmounts[operator]
                                         ELSE balance[h]
    BY <2>1, <2>2
  <2>4. BondMap[operator] = bondedAmounts[operator]
    BY <1>1 DEF BondMap
  <2> QED BY <2>3, <2>4 DEF FreeMap
<1>10. StatusMap' = StatusMap /\ LateMap' = LateMap
  BY <1>1, JobsAlone
<1>11. ASSUME recipient = This PROVE FreeMap' = FreeMap
  <2>1. This \in Holders /\ bondedAmounts[operator] \in Nat
    BY <1>2
  <2>2. balance' = balance
    <3> HIDE DEF Holders
    <3> QED BY <1>1, <1>2, <1>11, <2>1, TransferToSelf
  <2> QED BY <2>2 DEF FreeMap
<1>12. Staking!Leave(operator)
  BY <1>1, <1>6, <1>7, <1>8, <1>10
     DEF Staking!Leave, Staking!In, Staking!Out,
         PlaceMap, BondMap, StatusMap, LateMap
<1> QED BY <1>1, <1>9, <1>11, <1>12
        DEF Staking!LeaveBondBehind, Staking!LeaveWithBond, BondMap, FreeMap

\* A message opens its job and takes at most one account out of its pod.
LEMMA MessageIsOpen ==
  ASSUME RInv, RInv', NEW j \in JobHashes, NEW pod \in DOMAIN operatorPods,
         NEW index \in 0 .. Len(operatorPods[pod]) - 1,
         NEW underpriced \in BOOLEAN,
         NEW fallbacks \in [1..Fallbacks -> 0 .. FallbackRange(pod) - 1],
         CrossChainMessage(j, pod, index, underpriced, fallbacks)
  PROVE  Staking!Open(j)
PROOF
<1> USE DEF RInv
<1>0. PICK picked : picked = operatorPods[pod][index + 1]
  OBVIOUS
<1>1. Selects(j, pod, index)
  BY CrossChainMessageKeepsIInv
<1>2. /\ NeverDelivered(j) /\ elapsed' = [elapsed EXCEPT ![j] = 0]
      /\ UNCHANGED <<bondedAmounts, balance, failedJobs, bridgedIn>>
  BY DEF CrossChainMessage, hlgVars
<1>3. pod \in Pods /\ pod # 0
  BY BaseAmountOfPod DEF IInv, Pods
<1>4. BondMap' = BondMap /\ FreeMap' = FreeMap
  BY <1>2 DEF BondMap, FreeMap
<1>5. LateMap' = LateMap
  <2>1. elapsed[j] = 0 /\ elapsed \in [JobHashes -> Nat]
    BY <1>2 DEF NeverDelivered, TimesClosed, IInv, TypeOK
  <2>2. elapsed' = elapsed
    BY <1>2, <2>1
  <2> QED BY <2>2 DEF LateMap
<1>6. StatusMap[j] = "never" /\ StatusMap' = [StatusMap EXCEPT ![j] = "open"]
  <2>1. StatusOf(j) = "never"
    <3>1. ~(bridgedIn[j] > 0)
      BY <1>2 DEF NeverDelivered
    <3> QED BY <1>2, <3>1 DEF NeverDelivered, StatusOf
  <2>2. StatusOf(j)' = "open"
    BY <1>1 DEF Selects, StatusOf
  <2>3. \A k \in JobHashes \ {j} : StatusOf(k)' = StatusOf(k)
    BY <1>1, <1>2 DEF Selects, StatusOf
  <2> QED BY <2>1, <2>2, <2>3 DEF StatusMap
<1>7. ASSUME NEW b \in Accounts, ~(index # 0 /\ b = picked)
      PROVE  PlaceOf(b)' = PlaceOf(b)
  <2>1. b # picked
    BY <1>0, <1>1, <1>7, AddressAssumption DEF Selects
  <2>2. bondedOperators'[b] = bondedOperators[b]
    BY <1>0, <1>1, <1>7 DEF Selects
  <2>3. ~IsSelectedFor(b, j) /\ ~IsSelectedFor(b, j)'
    BY <1>0, <1>1, <1>2, <2>1 DEF Selects, NeverDelivered, IsSelectedFor
  <2>4. ASSUME NEW k \in JobHashes \ {j}
        PROVE  /\ IsSelectedFor(b, k)' <=> IsSelectedFor(b, k)
               /\ operatorJobs'[k] = operatorJobs[k]
    BY <1>1 DEF Selects, IsSelectedFor
  <2> QED BY <2>2, <2>3, <2>4, PlaceKept
<1>8. CASE index = 0
  <2>1. PlaceMap' = PlaceMap
    BY <1>7, <1>8 DEF PlaceMap
  <2> QED BY <1>4, <1>5, <1>6, <2>1
          DEF Staking!Open, PlaceMap, BondMap, FreeMap, StatusMap, LateMap
<1>9. CASE index # 0
  <2>1. picked \in Accounts /\ bondedOperators[picked] = pod
    BY <1>0, <1>1, <1>9 DEF Selects
  <2>2. PlaceOf(picked) = <<"pod", pod>>
    BY <1>3, <2>1, Places DEF InPod
  <2>3. PlaceOf(picked)' = <<"job", j, pod>>
    <3>1. IsSelectedFor(picked, j)' /\ operatorJobs'[j].pod = pod
      BY <1>0, <1>1 DEF Selects, IsSelectedFor
    <3> QED BY <2>1, <3>1, NextPlaces
  <2>4. \A b \in Accounts \ {picked} : PlaceOf(b)' = PlaceOf(b)
    BY <1>7
  <2>5. PlaceMap' = [PlaceMap EXCEPT ![picked] = <<"job", j, pod>>]
    BY <2>1, <2>3, <2>4, OnePlaceChanges
  <2>6. PlaceMap[picked] = <<"pod", pod>>
    BY <2>1, <2>2 DEF PlaceMap
  <2> QED BY <1>3, <1>4, <1>5, <1>6, <2>1, <2>5, <2>6
          DEF Staking!Open, Staking!In, Staking!Away,
              PlaceMap, BondMap, FreeMap, StatusMap, LateMap
<1> QED BY <1>8, <1>9

\* A second passes: the slots of some open jobs expire.
LEMMA TickIsExpire ==
  ASSUME RInv, RInv', Tick
  PROVE  \E js \in SUBSET JobHashes : Staking!Expire(js)
PROOF
<1> USE DEF RInv
<1> DEFINE js == {j \in JobHashes : OperatorJobExists(j) /\ elapsed'[j] >= BlockTime}
<1>1. /\ elapsed' = [j \in JobHashes |->
                       IF OperatorJobExists(j) /\ elapsed[j] < OpenSeason
                         THEN elapsed[j] + 1 ELSE elapsed[j]]
      /\ UNCHANGED <<podVars, hlgVars, operatorJobs, operatorTempStorage,
                     operatorTempStorageCounter, failedJobs, bridgedIn>>
  BY DEF Tick
<1>2. elapsed \in [JobHashes -> Nat] /\ BlockTime \in Nat \ {0}
  BY BoundAssumption DEF IInv, TypeOK
<1>3. ASSUME NEW j \in JobHashes
      PROVE  (elapsed'[j] >= BlockTime) <=> (elapsed[j] >= BlockTime) \/ j \in js
  <2>1. elapsed'[j] = IF OperatorJobExists(j) /\ elapsed[j] < OpenSeason
                        THEN elapsed[j] + 1 ELSE elapsed[j]
    BY <1>1
  <2>2. elapsed[j] \in Nat
    BY <1>2
  <2>3. CASE OperatorJobExists(j)
    BY <1>2, <2>1, <2>2, <2>3
  <2>4. CASE ~OperatorJobExists(j)
    BY <1>2, <2>1, <2>2, <2>4
  <2> QED BY <2>3, <2>4
<1>4. \A j \in js : StatusMap[j] = "open"
  BY DEF StatusMap, StatusOf
<1>5. BondMap' = BondMap /\ FreeMap' = FreeMap /\ StatusMap' = StatusMap
  BY <1>1 DEF hlgVars, BondMap, FreeMap, StatusMap, StatusOf, OperatorJobExists
<1>6. PlaceMap' = PlaceMap
  <2>1. \A a \in Accounts, j \in JobHashes : IsSelectedFor(a, j)' <=> IsSelectedFor(a, j)
    BY <1>1 DEF IsSelectedFor, OperatorJobExists, JobOperator
  <2>2. UNCHANGED <<bondedOperators, operatorJobs>>
    BY <1>1 DEF podVars
  <2>3. \A a \in Accounts : PlaceOf(a)' = PlaceOf(a)
    BY <2>1, <2>2, PlaceKept
  <2> QED BY <2>3 DEF PlaceMap
<1>7. js \in SUBSET JobHashes
  OBVIOUS
<1> HIDE DEF js
<1>8. LateMap' = [j \in JobHashes |-> LateMap[j] \/ j \in js]
  <2>1. PICK late : late = LateMap
    OBVIOUS
  <2>2. \A j \in JobHashes : late[j] = (elapsed[j] >= BlockTime)
    BY <2>1 DEF LateMap
  <2>3. ASSUME NEW j \in JobHashes
        PROVE  (elapsed'[j] >= BlockTime) = (late[j] \/ j \in js)
    <3>1. CASE j \in js
      BY <1>3, <3>1
    <3>2. CASE j \notin js /\ elapsed[j] >= BlockTime
      <4>1. elapsed'[j] >= BlockTime /\ late[j] = TRUE
        BY <1>3, <2>2, <3>2
      <4> QED BY <4>1
    <3>3. CASE j \notin js /\ ~(elapsed[j] >= BlockTime)
      <4>1. ~(elapsed'[j] >= BlockTime) /\ ~late[j]
        BY <1>3, <2>2, <3>3
      <4> QED BY <3>3, <4>1
    <3> QED BY <3>1, <3>2, <3>3
  <2>4. LateMap' = [j \in JobHashes |-> elapsed'[j] >= BlockTime]
    BY DEF LateMap
  <2>5. LateMap' = [j \in JobHashes |-> late[j] \/ j \in js]
    BY <2>3, <2>4
  <2> QED BY <2>1, <2>5
<1> QED BY <1>4, <1>5, <1>6, <1>7, <1>8
        DEF Staking!Expire, PlaceMap, BondMap, FreeMap, StatusMap, LateMap

\* Executing a job closes it, takes the clock off it, and moves nobody but its
\* operator, who was away on it.
LEMMA ExecutionClosesJob ==
  ASSUME RInv, RInv', NEW sender \in Accounts, NEW j \in JobHashes,
         NEW success \in BOOLEAN, ExecuteJob(sender, j, success),
         NEW operator, operator = JobOperator(j)
  PROVE  /\ StatusMap[j] = "open"
         /\ \E outcome \in {"applied", "failed"} :
              StatusMap' = [StatusMap EXCEPT ![j] = outcome]
         /\ LateMap' = [LateMap EXCEPT ![j] = FALSE]
         /\ operatorJobs[j].pod \in Pods
         /\ \A b \in Accounts :
              b # operator /\ bondedOperators'[b] = bondedOperators[b]
                => PlaceOf(b)' = PlaceOf(b)
         /\ \A b \in Accounts : b # operator =>
              \A p \in Pods : PlaceOf(b) # <<"job", j, p>>
         /\ operator # Zero =>
              /\ operator \in Accounts
              /\ PlaceOf(operator) = <<"job", j, operatorJobs[j].pod>>
              /\ \A k \in JobHashes : ~IsSelectedFor(operator, k)'
PROOF
<1> USE DEF RInv
<1>1. /\ OperatorJobExists(j)
      /\ operatorJobs' = [operatorJobs EXCEPT ![j] = NoJob]
      /\ elapsed' = [elapsed EXCEPT ![j] = 0]
      /\ BridgeCall(j, success)
      /\ UNCHANGED operatorTempStorage
  BY DEF ExecuteJob
<1>2. /\ operatorJobs \in [JobHashes -> Jobs] /\ elapsed \in [JobHashes -> Nat]
      /\ failedJobs \in [JobHashes -> BOOLEAN] /\ bridgedIn \in [JobHashes -> Nat]
  BY DEF IInv, TypeOK
<1>3. /\ ~OperatorJobExists(j)'
      /\ \A k \in JobHashes \ {j} :
           /\ operatorJobs'[k] = operatorJobs[k]
           /\ OperatorJobExists(k)' <=> OperatorJobExists(k)
           /\ JobOperator(k)' = JobOperator(k)
  BY <1>1, <1>2 DEF OperatorJobExists, JobOperator, NoJob
<1>4. /\ operatorJobs[j].pod \in Pods /\ operatorJobs[j].pod # 0
      /\ operator # Zero => operator \in Accounts
  BY <1>1, OpenJob DEF Pods
<1>5. StatusMap[j] = "open"
  BY <1>1 DEF StatusMap, StatusOf
<1>6. \E outcome \in {"applied", "failed"} :
        StatusMap' = [StatusMap EXCEPT ![j] = outcome]
  <2>1. \A k \in JobHashes \ {j} : StatusOf(k)' = StatusOf(k)
    <3>1. \A k \in JobHashes \ {j} : /\ failedJobs'[k] = failedJobs[k]
                                     /\ bridgedIn'[k] = bridgedIn[k]
      BY <1>1, <1>2 DEF BridgeCall
    <3> QED BY <1>3, <3>1 DEF StatusOf
  <2>2. CASE success
    <3>1. ~failedJobs'[j] /\ bridgedIn'[j] > 0
      BY <1>1, <1>2, <2>2 DEF BridgeCall, AppliedAtMostOnce
    <3>2. StatusOf(j)' = "applied"
      BY <1>3, <3>1 DEF StatusOf
    <3> QED BY <2>1, <3>2 DEF StatusMap
  <2>3. CASE ~success
    <3>1. failedJobs'[j]
      BY <1>1, <1>2, <2>3 DEF BridgeCall
    <3>2. StatusOf(j)' = "failed"
      BY <1>3, <3>1 DEF StatusOf
    <3> QED BY <2>1, <3>2 DEF StatusMap
  <2> QED BY <2>2, <2>3
<1>7. LateMap' = [LateMap EXCEPT ![j] = FALSE]
  <2>1. (elapsed'[j] >= BlockTime) = FALSE
    <3>1. elapsed'[j] = 0 /\ BlockTime \in Nat \ {0}
      BY <1>1, <1>2, BoundAssumption
    <3> QED BY <3>1
  <2>2. \A k \in JobHashes \ {j} : elapsed'[k] = elapsed[k]
    BY <1>1, <1>2
  <2>3. \A k \in JobHashes :
          (elapsed'[k] >= BlockTime) = IF k = j THEN FALSE ELSE elapsed[k] >= BlockTime
    <3> SUFFICES ASSUME NEW k \in JobHashes
                 PROVE  (elapsed'[k] >= BlockTime)
                          = IF k = j THEN FALSE ELSE elapsed[k] >= BlockTime
      OBVIOUS
    <3>1. CASE k = j
      BY <2>1, <3>1
    <3>2. CASE k # j
      BY <2>2, <3>2
    <3> QED BY <3>1, <3>2
  <2> QED BY <2>3 DEF LateMap
<1>8. ASSUME NEW b \in Accounts, b # operator,
             bondedOperators'[b] = bondedOperators[b]
      PROVE  PlaceOf(b)' = PlaceOf(b)
  <2>1. ASSUME NEW k \in JobHashes
        PROVE  /\ IsSelectedFor(b, k)' <=> IsSelectedFor(b, k)
               /\ IsSelectedFor(b, k) => operatorJobs'[k] = operatorJobs[k]
    <3>1. CASE k = j
      BY <1>3, <1>8, <3>1 DEF IsSelectedFor
    <3>2. CASE k # j
      BY <1>3, <3>2 DEF IsSelectedFor
    <3> QED BY <3>1, <3>2
  <2> QED BY <1>8, <2>1, PlaceKept
<1>9. ASSUME NEW b \in Accounts, b # operator, NEW p \in Pods
      PROVE  PlaceOf(b) # <<"job", j, p>>
  <2>1. CASE InPod(b)
    BY <2>1, Places
  <2>2. ASSUME NEW k \in JobHashes, IsSelectedFor(b, k)
        PROVE  PlaceOf(b) # <<"job", j, p>>
    <3>1. k # j
      BY <1>9, <2>2 DEF IsSelectedFor
    <3>2. PlaceOf(b) = <<"job", k, operatorJobs[k].pod>>
      BY <2>2, Places
    <3> QED BY <3>1, <3>2
  <2>3. CASE ~InPod(b) /\ \A k \in JobHashes : ~IsSelectedFor(b, k)
    BY <2>3, Places
  <2> QED BY <2>1, <2>2, <2>3
<1>10. ASSUME operator # Zero
       PROVE  /\ PlaceOf(operator) = <<"job", j, operatorJobs[j].pod>>
              /\ \A k \in JobHashes : ~IsSelectedFor(operator, k)'
  <2>1. IsSelectedFor(operator, j)
    BY <1>1 DEF IsSelectedFor
  <2>2. PlaceOf(operator) = <<"job", j, operatorJobs[j].pod>>
    BY <1>4, <1>10, <2>1, Places
  <2>3. ASSUME NEW k \in JobHashes
        PROVE  ~(OperatorJobExists(k)' /\ JobOperator(k)' = operator)
    BY <1>1, <1>3, <1>10 DEF IInv, SelectedForOneJob
  <2> QED BY <2>2, <2>3 DEF IsSelectedFor
<1> QED BY <1>4, <1>5, <1>6, <1>7, <1>8, <1>9, <1>10

\* A slashed operator leaves the job as the staking specification replaces it.
LEMMA SlashIsReplace ==
  ASSUME RInv, RInv', NEW sender \in Accounts, NEW operator \in Accounts,
         operator # sender, NEW pod \in Pods, ~InPod(operator),
         NEW j \in JobHashes,
         Slash(operator, sender, pod),
         \A k \in JobHashes : ~IsSelectedFor(operator, k)',
         \A b \in Accounts : b # operator /\ bondedOperators'[b] = bondedOperators[b]
           => PlaceOf(b)' = PlaceOf(b)
  PROVE  \E rewarded \in Accounts \union {Treasury} :
           Staking!Replace(operator, pod, rewarded)
PROOF
<1> USE DEF RInv
<1>1. PICK amount : amount = GetBaseBondAmount(pod)
  OBVIOUS
<1>2. PICK rest : rest = bondedAmounts[operator] - amount
  OBVIOUS
<1>3. PICK rewarded : rewarded = IF bondedAmounts[sender] # 0 THEN sender ELSE Treasury
  OBVIOUS
<1>4. /\ bondedOperators \in [Addresses -> Nat] /\ bondedAmounts \in [Addresses -> Nat]
      /\ balance \in [Holders -> Nat] /\ TypeOK /\ PodsIndexed
  BY DEF IInv, TypeOK
<1>5. /\ amount \in Nat \ {0} /\ rest \in Nat
      /\ bondedAmounts' =
           [bondedAmounts EXCEPT ![operator] = IF rest >= amount THEN rest ELSE 0]
      /\ balance'[rewarded] = balance[rewarded] + amount
      /\ balance'[operator]
           = balance[operator] + IF rest >= amount THEN 0 ELSE rest
      /\ \A h \in Accounts \ {rewarded, operator} : balance'[h] = balance[h]
      /\ rewarded # Treasury => balance'[Treasury] = balance[Treasury]
  BY <1>1, <1>2, <1>3, <1>4, SlashMoves
<1>6. /\ rewarded \in Accounts \union {Treasury} /\ rewarded # operator
      /\ rewarded \in Accounts => bondedAmounts[rewarded] > 0
      /\ Treasury \notin Accounts
  <2>1. bondedAmounts[sender] \in Nat
    BY <1>4
  <2> QED BY <1>3, <2>1, AddressAssumption
<1>7. /\ bondedOperators'[operator] = IF rest >= amount THEN pod ELSE 0
      /\ \A b \in Accounts \ {operator} : bondedOperators'[b] = bondedOperators[b]
  <2>1. IF rest >= amount THEN PushOperator(operatorPods, pod, operator)
                          ELSE UNCHANGED podVars
    BY <1>1, <1>2 DEF Slash
  <2>2. CASE rest >= amount
    BY <1>4, <2>1, <2>2 DEF PushOperator
  <2>3. CASE ~(rest >= amount)
    BY <1>4, <2>1, <2>3 DEF podVars, InPod
  <2> QED BY <2>2, <2>3
<1>8. PlaceOf(operator)' = IF rest >= amount THEN <<"pod", pod>> ELSE <<"out">>
  <2>1. pod # 0
    BY DEF Pods
  <2>2. CASE rest >= amount
    BY <1>7, <2>1, <2>2, NextPlaces DEF InPod
  <2>3. CASE ~(rest >= amount)
    <3>1. ~InPod(operator)'
      BY <1>7, <2>3 DEF InPod
    <3> QED BY <2>3, <3>1, NextPlaces
  <2> QED BY <2>2, <2>3
<1>9. PlaceMap' =
        [PlaceMap EXCEPT ![operator] = IF rest >= amount THEN <<"pod", pod>> ELSE <<"out">>]
  BY <1>7, <1>8, OnePlaceChanges
<1>10. BondMap' = [BondMap EXCEPT ![operator] = IF rest >= amount THEN rest ELSE 0]
  BY <1>4, <1>5 DEF BondMap
<1>11. FreeMap' = [FreeMap EXCEPT ![rewarded] = @ + amount,
                                  ![operator] = @ + IF rest >= amount THEN 0 ELSE rest]
  <2>1. \A h \in Accounts \union {Treasury} :
          balance'[h] = IF h = operator
                          THEN balance[h] + IF rest >= amount THEN 0 ELSE rest
                          ELSE IF h = rewarded THEN balance[h] + amount ELSE balance[h]
    BY <1>5, <1>6
  <2> QED BY <1>6, <2>1 DEF FreeMap
<1>12. /\ BondMap[operator] = bondedAmounts[operator]
       /\ rewarded \in Accounts => BondMap[rewarded] = bondedAmounts[rewarded]
  BY DEF BondMap
<1> QED BY <1>1, <1>2, <1>6, <1>9, <1>10, <1>11, <1>12
        DEF Staking!Replace, Staking!In, Staking!Out, PlaceMap, BondMap, FreeMap

\* An executed job is closed: nobody was away on it, its operator is back with
\* its bond, or its late operator is slashed.
LEMMA ExecutionIsClose ==
  ASSUME RInv, RInv', NEW sender \in Accounts, NEW j \in JobHashes,
         NEW success \in BOOLEAN, ExecuteJob(sender, j, success)
  PROVE  Staking!Close(j)
PROOF
<1> USE DEF RInv
<1>1. PICK operator : operator = JobOperator(j)
  OBVIOUS
<1>2. PICK pod : pod = operatorJobs[j].pod
  OBVIOUS
<1>3. /\ StatusMap[j] = "open"
      /\ \E outcome \in {"applied", "failed"} :
           StatusMap' = [StatusMap EXCEPT ![j] = outcome]
      /\ LateMap' = [LateMap EXCEPT ![j] = FALSE]
      /\ pod \in Pods
      /\ \A b \in Accounts :
           b # operator /\ bondedOperators'[b] = bondedOperators[b]
             => PlaceOf(b)' = PlaceOf(b)
      /\ \A b \in Accounts : b # operator =>
           \A p \in Pods : PlaceOf(b) # <<"job", j, p>>
      /\ operator # Zero =>
           /\ operator \in Accounts
           /\ PlaceOf(operator) = <<"job", j, pod>>
           /\ \A k \in JobHashes : ~IsSelectedFor(operator, k)'
  BY <1>1, <1>2, ExecutionClosesJob
<1>4. bondedOperators \in [Addresses -> Nat] /\ TypeOK
  BY DEF IInv, TypeOK
<1>5. \/ operator = Zero /\ UNCHANGED <<podVars, hlgVars>>
      \/ /\ operator = sender /\ PushOperator(operatorPods, pod, sender)
         /\ UNCHANGED hlgVars
      \/ /\ operator \notin {Zero, sender} /\ MayReplace(sender, j)
         /\ Slash(operator, sender, pod)
  BY <1>1, <1>2 DEF ExecuteJob
<1>6. UNCHANGED hlgVars => BondMap' = BondMap /\ FreeMap' = FreeMap
  BY DEF hlgVars, BondMap, FreeMap
<1>7. CASE operator = Zero /\ UNCHANGED <<podVars, hlgVars>>
  <2>1. \A b \in Accounts : b # operator
    BY <1>7, AddressAssumption
  <2>2. \A b \in Accounts : PlaceOf(b)' = PlaceOf(b)
    BY <1>3, <1>7, <2>1 DEF podVars
  <2>3. PlaceMap' = PlaceMap
    BY <2>2 DEF PlaceMap
  <2>4. \A b \in Accounts, p \in Pods : PlaceMap[b] # <<"job", j, p>>
    BY <1>3, <2>1 DEF PlaceMap
  <2> QED BY <1>3, <1>6, <1>7, <2>3, <2>4
          DEF Staking!Close, Staking!Away,
              PlaceMap, BondMap, FreeMap, StatusMap, LateMap
<1>8. CASE operator = sender /\ PushOperator(operatorPods, pod, sender)
           /\ UNCHANGED hlgVars
  <2>1. operator \in Accounts /\ operator # Zero
    BY <1>8, AddressAssumption
  <2>2. bondedOperators' = [bondedOperators EXCEPT ![operator] = pod]
    BY <1>8 DEF PushOperator
  <2>3. PlaceOf(operator)' = <<"pod", pod>>
    <3>1. bondedOperators'[operator] = pod /\ pod # 0
      BY <1>3, <1>4, <2>1, <2>2 DEF Pods
    <3>2. InPod(operator)'
      BY <3>1 DEF InPod
    <3> QED BY <2>1, <3>1, <3>2, NextPlaces
  <2>4. PlaceMap' = [PlaceMap EXCEPT ![operator] = <<"pod", pod>>]
    <3>1. \A b \in Accounts \ {operator} : PlaceOf(b)' = PlaceOf(b)
      BY <1>3, <1>4, <2>2
    <3> QED BY <2>1, <2>3, <3>1, OnePlaceChanges
  <2>5. PlaceMap[operator] = <<"job", j, pod>>
    BY <1>3, <2>1 DEF PlaceMap
  <2>6. Staking!Return(operator, pod)
    BY <1>6, <1>8, <2>4 DEF Staking!Return, Staking!In, PlaceMap, BondMap, FreeMap
  <2> QED BY <1>3, <2>1, <2>5, <2>6
          DEF Staking!Close, Staking!Away, PlaceMap, StatusMap, LateMap
<1>9. CASE operator \notin {Zero, sender} /\ MayReplace(sender, j)
           /\ Slash(operator, sender, pod)
  <2>1. /\ operator \in Accounts /\ PlaceOf(operator) = <<"job", j, pod>>
        /\ \A k \in JobHashes : ~IsSelectedFor(operator, k)'
    BY <1>3, <1>9
  <2>2. ~InPod(operator)
    BY <2>1, Places
  <2>3. \E rewarded \in Accounts \union {Treasury} :
          Staking!Replace(operator, pod, rewarded)
    BY <1>3, <1>9, <2>1, <2>2, SlashIsReplace
  <2>4. LateMap[j]
    <3>1. elapsed[j] \div BlockTime > 0
      BY <1>9 DEF MayReplace, TimeDifference
    <3>2. elapsed[j] \in Nat /\ BlockTime \in Nat \ {0}
      BY BoundAssumption DEF IInv, TypeOK
    <3>3. elapsed[j] >= BlockTime
      BY <3>1, <3>2
    <3> QED BY <3>3 DEF LateMap
  <2>5. PlaceMap[operator] = <<"job", j, pod>>
    BY <2>1 DEF PlaceMap
  <2> QED BY <1>3, <2>1, <2>3, <2>4, <2>5
          DEF Staking!Close, Staking!Away, PlaceMap, StatusMap, LateMap
<1> QED BY <1>5, <1>7, <1>8, <1>9

\* recoverJob applies a payload that had failed.
LEMMA RecoveryIsRecover ==
  ASSUME RInv, RInv', NEW j \in JobHashes, RecoverJob(j)
  PROVE  Staking!Recover(j)
PROOF
<1> USE DEF RInv
<1>1. /\ failedJobs[j]
      /\ bridgedIn' = [bridgedIn EXCEPT ![j] = @ + 1]
      /\ failedJobs' = [failedJobs EXCEPT ![j] = FALSE]
      /\ UNCHANGED <<podVars, hlgVars, operatorJobs, elapsed, operatorTempStorage>>
  BY DEF RecoverJob
<1>2. /\ failedJobs \in [JobHashes -> BOOLEAN] /\ bridgedIn \in [JobHashes -> Nat]
      /\ ~OperatorJobExists(j)
  BY <1>1 DEF IInv, TypeOK, AppliedAtMostOnce
<1>3. /\ \A k \in JobHashes : OperatorJobExists(k)' <=> OperatorJobExists(k)
      /\ \A a \in Accounts, k \in JobHashes : IsSelectedFor(a, k)' <=> IsSelectedFor(a, k)
  BY <1>1 DEF IsSelectedFor, OperatorJobExists, JobOperator
<1>4. PlaceMap' = PlaceMap
  <2>1. UNCHANGED <<bondedOperators, operatorJobs>>
    BY <1>1 DEF podVars
  <2>2. \A a \in Accounts : PlaceOf(a)' = PlaceOf(a)
    BY <1>3, <2>1, PlaceKept
  <2> QED BY <2>2 DEF PlaceMap
<1>5. BondMap' = BondMap /\ FreeMap' = FreeMap /\ LateMap' = LateMap
  BY <1>1 DEF hlgVars, BondMap, FreeMap, LateMap
<1>6. StatusMap[j] = "failed"
  BY <1>1, <1>2 DEF StatusMap, StatusOf
<1>7. StatusMap' = [StatusMap EXCEPT ![j] = "applied"]
  <2>1. StatusOf(j)' = "applied"
    <3>1. ~failedJobs'[j] /\ bridgedIn'[j] > 0
      BY <1>1, <1>2
    <3> QED BY <1>2, <1>3, <3>1 DEF StatusOf
  <2>2. \A k \in JobHashes \ {j} : StatusOf(k)' = StatusOf(k)
    <3>1. \A k \in JobHashes \ {j} : failedJobs'[k] = failedJobs[k]
                                     /\ bridgedIn'[k] = bridgedIn[k]
      BY <1>1, <1>2
    <3> QED BY <1>3, <3>1 DEF StatusOf
  <2> QED BY <2>1, <2>2 DEF StatusMap
<1> QED BY <1>4, <1>5, <1>6, <1>7
        DEF Staking!Recover, PlaceMap, BondMap, FreeMap, StatusMap, LateMap

\* No time is counted for a job that is not open.
LEMMA NextKeepsTimesClosed == IInv /\ TimesClosed /\ [Next]_vars => TimesClosed'
PROOF
<1> SUFFICES ASSUME IInv, TimesClosed, [Next]_vars,
                    NEW k \in JobHashes, ~OperatorJobExists(k)'
             PROVE  elapsed'[k] = 0
  BY DEF TimesClosed
<1>1. /\ ~OperatorJobExists(k) => elapsed[k] = 0
      /\ elapsed \in [JobHashes -> Nat] /\ operatorJobs \in [JobHashes -> Jobs]
  BY DEF TimesClosed, IInv, TypeOK
<1>2. CASE UNCHANGED <<operatorJobs, elapsed>>
  BY <1>1, <1>2 DEF OperatorJobExists
<1>3. CASE Bonding
  <2>1. UNCHANGED <<operatorJobs, elapsed>>
    BY <1>3 DEF Bonding, BondUtilityToken, TopupUtilityToken,
                UnbondUtilityToken, SendHLG, jobVars
  <2> QED BY <1>2, <2>1
<1>4. CASE Messaging
  <2>1. PICK j \in JobHashes, pod \in DOMAIN operatorPods, underpriced \in BOOLEAN :
          \E index \in 0 .. Len(operatorPods[pod]) - 1,
             fallbacks \in [1..Fallbacks -> 0 .. FallbackRange(pod) - 1] :
            CrossChainMessage(j, pod, index, underpriced, fallbacks)
    BY <1>4 DEF Messaging
  <2>2. /\ elapsed' = [elapsed EXCEPT ![j] = 0]
        /\ \A l \in JobHashes \ {j} : operatorJobs'[l] = operatorJobs[l]
    BY <1>1, <2>1 DEF CrossChainMessage
  <2> QED BY <1>1, <2>2 DEF OperatorJobExists
<1>5. CASE \E j \in JobHashes, sender \in Accounts, success \in BOOLEAN :
              ExecuteJob(sender, j, success)
  <2>1. PICK j \in JobHashes :
          /\ operatorJobs' = [operatorJobs EXCEPT ![j] = NoJob]
          /\ elapsed' = [elapsed EXCEPT ![j] = 0]
    BY <1>5 DEF ExecuteJob
  <2> QED BY <1>1, <2>1 DEF OperatorJobExists
<1>6. CASE \E j \in JobHashes : RecoverJob(j)
  <2>1. UNCHANGED <<operatorJobs, elapsed>>
    BY <1>6 DEF RecoverJob
  <2> QED BY <1>2, <2>1
<1>7. CASE Tick
  <2>1. /\ ~OperatorJobExists(k)
        /\ elapsed'[k] = IF OperatorJobExists(k) /\ elapsed[k] < OpenSeason
                           THEN elapsed[k] + 1 ELSE elapsed[k]
    BY <1>7 DEF Tick, OperatorJobExists
  <2> QED BY <1>1, <2>1
<1>8. CASE GasPriceMoves \/ UNCHANGED vars
  BY <1>2, <1>8 DEF GasPriceMoves, vars, jobVars
<1> QED BY <1>3, <1>4, <1>5, <1>6, <1>7, <1>8 DEF Next, Executing

\* Before anything happens everybody is out, owns what it had, and no payload
\* has been delivered.
LEMMA InitStakes == Init => Staking!Init /\ RInv
PROOF
<1> SUFFICES ASSUME Init PROVE Staking!Init /\ RInv
  OBVIOUS
<1>1. IInv
  BY InitIInv
<1>2. RInv
  BY <1>1 DEF RInv, TimesClosed, AppliedAtMostOnce, Init, OperatorJobExists, NoJob
<1>3. \A j \in JobHashes : ~OperatorJobExists(j) /\ StatusOf(j) = "never"
  BY DEF Init, OperatorJobExists, NoJob, StatusOf
<1>4. \A a \in Accounts : PlaceOf(a) = <<"out">>
  <2>1. \A a \in Accounts : ~InPod(a)
    BY AddressAssumption DEF Init, InPod
  <2>2. \A a \in Accounts, j \in JobHashes : ~IsSelectedFor(a, j)
    BY <1>3 DEF IsSelectedFor
  <2> QED BY <1>1, <2>1, <2>2, Places
<1>5. BondMap = [a \in Accounts |-> 0]
  BY DEF Init, BondMap
<1>6. FreeMap = [h \in Accounts \union {Treasury} |->
                   IF h = Treasury THEN 0 ELSE InitialHLG[h]]
  BY AddressAssumption DEF Init, FreeMap
<1>7. LateMap = [j \in JobHashes |-> FALSE]
  <2>1. \A j \in JobHashes : (elapsed[j] >= BlockTime) = FALSE
    <3> SUFFICES ASSUME NEW j \in JobHashes PROVE (elapsed[j] >= BlockTime) = FALSE
      OBVIOUS
    <3>1. elapsed[j] = 0 /\ BlockTime \in Nat \ {0}
      BY BoundAssumption DEF Init
    <3> QED BY <3>1
  <2> QED BY <2>1 DEF LateMap
<1>8. PlaceMap = [a \in Accounts |-> <<"out">>]
  BY <1>4 DEF PlaceMap
<1>9. StatusMap = [j \in JobHashes |-> "never"]
  BY <1>3 DEF StatusMap
<1> QED BY <1>2, <1>5, <1>6, <1>7, <1>8, <1>9
        DEF Staking!Init, Staking!Out, PlaceMap, BondMap, FreeMap, StatusMap, LateMap

\* Every step of the contract is a step of the staking specification, or changes
\* nothing that it sees.
LEMMA NextStakes ==
  ASSUME RInv, RInv', [Next]_vars
  PROVE  [Staking!Next]_(Staking!vars)
PROOF
<1>1. ASSUME Bonding PROVE Staking!Next
  <2>1. ASSUME NEW sender \in Accounts, NEW operator \in Addresses,
               NEW amount \in Amounts, TopupUtilityToken(sender, operator, amount)
        PROVE  Staking!Next
    <3>1. CASE operator = Zero
      BY <2>1, <3>1, TopupIsTopup DEF Staking!Next
    <3>2. CASE operator # Zero
      BY <2>1, <3>2, TopupIsTopup DEF Staking!Next
    <3> QED BY <3>1, <3>2
  <2>2. ASSUME NEW sender \in Accounts, NEW operator \in Addresses,
               NEW amount \in Amounts, NEW pod \in Pods,
               BondUtilityToken(sender, operator, amount, pod)
        PROVE  Staking!Next
    BY <2>2, BondIsJoin DEF Staking!Next
  <2>3. ASSUME NEW sender \in Accounts, NEW operator \in Addresses,
               NEW recipient \in Holders,
               UnbondUtilityToken(sender, operator, recipient)
        PROVE  Staking!Next
    <3>1. CASE recipient = This
      BY <2>3, <3>1, UnbondIsLeave DEF Staking!Next
    <3>2. CASE recipient # This
      BY <2>3, <3>2, UnbondIsLeave DEF Staking!Next
    <3> QED BY <3>1, <3>2
  <2>4. ASSUME NEW sender \in Accounts, NEW amount \in Gifts, SendHLG(sender, amount)
        PROVE  Staking!Next
    BY <2>4, SendIsForfeit DEF Staking!Next
  <2> QED BY <1>1, <2>1, <2>2, <2>3, <2>4 DEF Bonding
<1>2. ASSUME Messaging PROVE Staking!Next
  <2>1. PICK j \in JobHashes, pod \in DOMAIN operatorPods, underpriced \in BOOLEAN :
          \E index \in 0 .. Len(operatorPods[pod]) - 1,
             fallbacks \in [1..Fallbacks -> 0 .. FallbackRange(pod) - 1] :
            CrossChainMessage(j, pod, index, underpriced, fallbacks)
    BY <1>2 DEF Messaging
  <2>2. Staking!Open(j)
    BY <2>1, MessageIsOpen
  <2> QED BY <2>2 DEF Staking!Next
<1>3. ASSUME Executing PROVE Staking!Next
  <2>1. ASSUME NEW j \in JobHashes, NEW sender \in Accounts, NEW success \in BOOLEAN,
               ExecuteJob(sender, j, success)
        PROVE  Staking!Next
    BY <2>1, ExecutionIsClose DEF Staking!Next
  <2>2. ASSUME NEW j \in JobHashes, RecoverJob(j)
        PROVE  Staking!Next
    BY <2>2, RecoveryIsRecover DEF Staking!Next
  <2> QED BY <1>3, <2>1, <2>2 DEF Executing
<1>4. ASSUME Tick PROVE Staking!Next
  BY <1>4, TickIsExpire DEF Staking!Next
<1>5. ASSUME GasPriceMoves \/ UNCHANGED vars PROVE UNCHANGED Staking!vars
  <2>1. UNCHANGED <<podVars, hlgVars, jobVars>>
    BY <1>5 DEF GasPriceMoves, vars, podVars, hlgVars, jobVars
  <2>2. BondMap' = BondMap /\ FreeMap' = FreeMap
    BY <2>1 DEF hlgVars, BondMap, FreeMap
  <2>3. PlaceMap' = PlaceMap /\ StatusMap' = StatusMap /\ LateMap' = LateMap
    BY <2>1, JobsAlone DEF RInv, podVars, PlaceMap
  <2> QED BY <2>2, <2>3
          DEF Staking!vars, PlaceMap, BondMap, FreeMap, StatusMap, LateMap
<1> QED BY <1>1, <1>2, <1>3, <1>4, <1>5 DEF Next

\* The contract implements the staking specification: with its pod arrays,
\* recorded indices, packed jobs and temporary storage it does what the promise
\* says of accounts that are out, in one pod or away on one job.
THEOREM OperatorImplementsStaking == Spec => ImplementsStaking
PROOF
<1>1. RInv /\ [Next]_vars => RInv'
  BY NextKeepsIInv, NextKeepsApplied, NextKeepsTimesClosed DEF RInv
<1>2. RInv /\ RInv' /\ [Next]_vars => [Staking!Next]_(Staking!vars)
  BY NextStakes
<1> QED BY <1>1, <1>2, InitStakes, PTL DEF Spec, ImplementsStaking, Staking!Spec
=============================================================================
