--------------------------- MODULE AssetTeleport ---------------------------
(***************************************************************************)
(* What the bridge promises of assets, without payloads, jobs, burned marks*)
(* or balances: a token is unborn, on a chain, moving to one, or burned for*)
(* good; the coins of a chain in circulation are backed by what it holds.  *)
(***************************************************************************)
EXTENDS Integers

CONSTANTS Chains, Accounts, TokenIds, Fees, Amounts

VARIABLES
  place,        \* where each token is
  circulating,  \* coins of each chain, on all chains and moving
  native        \* native coin each chain holds for its coins

vars == <<place, circulating, native>>

Unborn        == <<"unborn">>
Burned        == <<"burned">>
At(c, a)      == <<"at", c, a>>
Moving(d, to) == <<"moving", d, to>>

Init ==
  /\ place = [id \in TokenIds |-> Unborn]
  /\ circulating = [h \in Chains |-> 0]
  /\ native = [h \in Chains |-> 0]

\* One mint, or a batch: only unborn tokens change.
Mint(c, a) ==
  \A id \in TokenIds :
    place'[id] = place[id] \/ (place[id] = Unborn /\ place'[id] = At(c, a))

Depart(id) ==
  /\ place[id][1] = "at"
  /\ \E d \in Chains \ {place[id][2]}, to \in Accounts :
       place' = [place EXCEPT ![id] = Moving(d, to)]

\* A token arrives at the account and chain it was sent to.
Arrive(id) ==
  /\ place[id][1] = "moving"
  /\ place' = [place EXCEPT ![id] = At(@[2], @[3])]

Burn(id) ==
  /\ place[id][1] = "at"
  /\ place' = [place EXCEPT ![id] = Burned]

\* Native coin comes in for as many coins: a deposit, or the fee of a request.
Deposit(h, amount) ==
  /\ circulating' = [circulating EXCEPT ![h] = @ + amount]
  /\ native' = [native EXCEPT ![h] = @ + amount]

Withdraw(h, amount) ==
  /\ amount <= circulating[h]
  /\ circulating' = [circulating EXCEPT ![h] = @ - amount]
  /\ native' = [native EXCEPT ![h] = @ - amount]

\* The fee of a recovered request is paid to nobody.
Forgo(h, fee) ==
  /\ fee <= circulating[h]
  /\ circulating' = [circulating EXCEPT ![h] = @ - fee]
  /\ UNCHANGED native

Coins == <<circulating, native>>

TokenStep(id) ==
  \/ Burn(id) /\ UNCHANGED Coins
  \/ Depart(id) /\ \E h \in Chains, fee \in Fees : Deposit(h, fee)
  \/ Arrive(id) /\ \/ UNCHANGED Coins
                   \/ \E h \in Chains, fee \in Fees : Forgo(h, fee)

CoinStep ==
  \E h \in Chains :
    \/ \E amount \in Amounts : Deposit(h, amount) \/ Withdraw(h, amount)
    \/ \E fee \in Fees : Deposit(h, fee) \/ Forgo(h, fee)

Next ==
  \/ \E c \in Chains, a \in Accounts : Mint(c, a) /\ UNCHANGED Coins
  \/ \E id \in TokenIds : TokenStep(id)
  \/ CoinStep /\ UNCHANGED place

Spec == Init /\ [][Next]_vars
=============================================================================
