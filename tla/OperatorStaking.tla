-------------------------- MODULE OperatorStaking --------------------------
(***************************************************************************)
(* What the operator contract promises, without arrays, indices, packed    *)
(* jobs and clock: an account is out, in one pod, or away on one job; HLG  *)
(* is free or bonded; a job is opened once, closed once, and applied once. *)
(***************************************************************************)
EXTENDS Integers

CONSTANTS
  Accounts,   \* the accounts that may be bonded
  Treasury,   \* receives what no bonded executor earns
  JobHashes,
  Pods,
  BaseBond,   \* [Pods -> Nat]: what an operator who is late loses
  Amounts,
  Gifts,
  InitialHLG

VARIABLES
  place,      \* where each account is
  bonded,     \* HLG bonded for each account
  free,       \* HLG each account and the treasury own
  status,     \* "never", "open", "failed" or "applied"
  late        \* the slot of the selected operator has passed

vars == <<place, bonded, free, status, late>>

Out        == <<"out">>
In(p)      == <<"pod", p>>
Away(j, p) == <<"job", j, p>>

Init ==
  /\ place = [a \in Accounts |-> Out]
  /\ bonded = [a \in Accounts |-> 0]
  /\ free = [a \in Accounts \union {Treasury} |->
               IF a = Treasury THEN 0 ELSE InitialHLG[a]]
  /\ status = [j \in JobHashes |-> "never"]
  /\ late = [j \in JobHashes |-> FALSE]

Pay(payer, amount) ==
  /\ amount <= free[payer]
  /\ free' = [free EXCEPT ![payer] = @ - amount]

Join(payer, a, amount, p) ==
  /\ place[a] = Out
  /\ amount >= BaseBond[p]
  /\ Pay(payer, amount)
  /\ place' = [place EXCEPT ![a] = In(p)]
  /\ bonded' = [bonded EXCEPT ![a] = amount]
  /\ UNCHANGED <<status, late>>

\* An operator who is away on a job cannot be topped up and cannot leave.
Topup(payer, a, amount) ==
  /\ \E p \in Pods : place[a] = In(p)
  /\ Pay(payer, amount)
  /\ bonded' = [bonded EXCEPT ![a] = @ + amount]
  /\ UNCHANGED <<place, status, late>>

\* A topup in the name of the zero address is accepted and credited to nobody, as
\* is HLG that is sent to the contract without being bonded.
Forfeit(payer, amount) ==
  /\ Pay(payer, amount)
  /\ UNCHANGED <<place, bonded, status, late>>

Leave(a) ==
  /\ \E p \in Pods : place[a] = In(p)
  /\ place' = [place EXCEPT ![a] = Out]
  /\ bonded' = [bonded EXCEPT ![a] = 0]
  /\ UNCHANGED <<status, late>>

LeaveWithBond(a, recipient) ==
  /\ Leave(a)
  /\ free' = [free EXCEPT ![recipient] = @ + bonded[a]]

\* Unbonding may name the contract itself as the recipient.
LeaveBondBehind(a) ==
  /\ Leave(a)
  /\ UNCHANGED free

Open(j) ==
  /\ status[j] = "never"
  /\ status' = [status EXCEPT ![j] = "open"]
  /\ \/ UNCHANGED place
     \/ \E a \in Accounts, p \in Pods :
          place[a] = In(p) /\ place' = [place EXCEPT ![a] = Away(j, p)]
  /\ UNCHANGED <<bonded, free, late>>

Expire(js) ==
  /\ \A j \in js : status[j] = "open"
  /\ late' = [j \in JobHashes |-> late[j] \/ j \in js]
  /\ UNCHANGED <<place, bonded, free, status>>

\* The selected operator is back in its pod, with its bond.
Return(a, p) ==
  /\ place' = [place EXCEPT ![a] = In(p)]
  /\ UNCHANGED <<bonded, free>>

\* A late operator loses the base bond to a bonded account or the treasury, and
\* is back in its pod if it can lose as much again; else it gets the rest back.
Replace(a, p, rewarded) ==
  LET rest  == bonded[a] - BaseBond[p]
      stays == rest >= BaseBond[p]
  IN  /\ rewarded \in Accounts => bonded[rewarded] > 0
      /\ rewarded # a
      /\ place' = [place EXCEPT ![a] = IF stays THEN In(p) ELSE Out]
      /\ bonded' = [bonded EXCEPT ![a] = IF stays THEN rest ELSE 0]
      /\ free' = [free EXCEPT ![rewarded] = @ + BaseBond[p],
                              ![a] = @ + (IF stays THEN 0 ELSE rest)]

Close(j) ==
  /\ status[j] = "open"
  /\ \E outcome \in {"applied", "failed"} :
       status' = [status EXCEPT ![j] = outcome]
  /\ \/ /\ \A a \in Accounts, p \in Pods : place[a] # Away(j, p)
        /\ UNCHANGED <<place, bonded, free>>
     \/ \E a \in Accounts, p \in Pods :
          /\ place[a] = Away(j, p)
          /\ \/ Return(a, p)
             \/ /\ late[j]
                /\ \E rewarded \in Accounts \union {Treasury} :
                     Replace(a, p, rewarded)
  /\ late' = [late EXCEPT ![j] = FALSE]

Recover(j) ==
  /\ status[j] = "failed"
  /\ status' = [status EXCEPT ![j] = "applied"]
  /\ UNCHANGED <<place, bonded, free, late>>

Next ==
  \/ \E payer, a \in Accounts, amount \in Amounts :
       \/ Topup(payer, a, amount)
       \/ \E p \in Pods : Join(payer, a, amount, p)
  \/ \E payer \in Accounts, amount \in Amounts \union Gifts : Forfeit(payer, amount)
  \/ \E a \in Accounts :
       \/ \E recipient \in Accounts \union {Treasury} : LeaveWithBond(a, recipient)
       \/ LeaveBondBehind(a)
  \/ \E j \in JobHashes : Open(j) \/ Close(j) \/ Recover(j)
  \/ \E js \in SUBSET JobHashes : Expire(js)

\* Every open job is closed in the end.
Spec == Init /\ [][Next]_vars
FairSpec == Spec /\ \A j \in JobHashes : WF_vars(Close(j))
=============================================================================
