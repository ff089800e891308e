------------------------ MODULE OperatorRefinement ------------------------
(***************************************************************************)
(* HolographOperator implements OperatorStaking: its pod arrays, indices,  *)
(* packed jobs and temporary storage together say where each account is.   *)
(***************************************************************************)
EXTENDS HolographOperator

PlaceOf(a) ==
  LET selected == {j \in JobHashes : IsSelectedFor(a, j)}
  IN  IF InPod(a) THEN <<"pod", bondedOperators[a]>>
      ELSE IF selected = {} THEN <<"out">>
      ELSE LET j == CHOOSE k \in selected : TRUE
           IN  <<"job", j, operatorJobs[j].pod>>

StatusOf(j) ==
  IF OperatorJobExists(j) THEN "open"
  ELSE IF failedJobs[j] THEN "failed"
  ELSE IF bridgedIn[j] > 0 THEN "applied" ELSE "never"

Staking == INSTANCE OperatorStaking WITH
  BaseBond <- [pod \in Pods |-> GetBaseBondAmount(pod)],
  place    <- [a \in Accounts |-> PlaceOf(a)],
  bonded   <- [a \in Accounts |-> bondedAmounts[a]],
  free     <- [h \in Accounts \union {Treasury} |-> balance[h]],
  status   <- [j \in JobHashes |-> StatusOf(j)],
  late     <- [j \in JobHashes |-> elapsed[j] >= BlockTime]

\* Every step of the contract is a step of the staking specification or changes
\* nothing it can see.
ImplementsStaking == Staking!Spec

\* ... and no open job stays open for ever.
ImplementsFairStaking == Staking!FairSpec

=============================================================================
