--------------------------- MODULE DeploymentRunner ---------------------------
(***************************************************************************)
(* The machinery every deployment script runs on: how a script decides     *)
(* that something is left to do (code missing at the derived address, a    *)
(* getter that disagrees with the wanted value, an admin to hand over),    *)
(* how txParams numbers transactions with a counter of the process, how    *)
(* MultisigAwareTx picks who has to act, and how a transaction is waited   *)
(* for.  What the scripts do with it is the constant Plan (see             *)
(* DeploymentPlan); nothing here depends on a particular plan.             *)
(*                                                                         *)
(* Around the process: the node's mempool and the miner, the signers of    *)
(* the protocol multisig who execute the printed instructions, and the     *)
(* person who starts the command again after it failed, crashed, or asked  *)
(* for signatures.                                                         *)
(*                                                                         *)
(* Data: a setting is a name; only whether its value on chain is the one   *)
(* the scripts want ("stale" or not) matters.  A nonce is kept relative to *)
(* the number of the deployer's mined transactions.                        *)
(***************************************************************************)
EXTENDS Integers, Sequences, FiniteSets

CONSTANTS
    Networks,    \* deployments under consideration, one per behaviour
    Contracts,
    Settings,    \* storage values of the contracts that scripts manage
    Plan,        \* Plan[n]: the steps of the scripts on network n, in order
    Start,       \* Start[n]: the chain when the first command is started
    Multisig,    \* networks whose protocolMultisig is defined
    Wealthy,     \* networks where the deployer holds the utility token
    Ephemeral,   \* networks whose chain is thrown away with the process
    Adminless,   \* contracts without an admin() function
    Unread,      \* the transaction counter before its first use
    MaxCrashes,  \* bound: crashes of the process
    MaxEager,    \* bound: restarts before the signers are done
    MaxPending   \* bound: pending transactions when the command is restarted

Principals == {"deployer", "Holograph", "multisig"}
Creating   == {"genesis", "deploy", "factory", "mock"}
Calling    == {"set", "resend", "admin"}

\* A step of a script.  "sets": what it gives the wanted value; "needs": what
\* the called function requires to be set; "again": what makes it run although
\* the code exists; "when": in which branch of the code check of its block.
Steps == [kind  : Creating \cup Calling \cup {"fund", "recount"},
          on    : Contracts,
          sets  : SUBSET Settings,
          needs : SUBSET Settings,
          again : SUBSET Settings,
          when  : {"always", "existing", "fresh"},
          to    : Principals,
          raw   : BOOLEAN]

\* A call by itself or through Holograph.adminCall.
Ways == {"direct", "through"}

Transactions == [step : Steps, via : Ways]
Chains       == [code   : SUBSET Contracts,
                 stale  : SUBSET Settings,
                 admin  : [Contracts -> Principals \cup {"nobody"}],
                 funded : [Contracts -> Nat]]

ASSUME PlanType   == Plan \in [Networks -> Seq(Steps)]
ASSUME StartType  == Start \in [Networks -> Chains]
ASSUME NamesType  == /\ "Holograph" \in Contracts
                     /\ Multisig \subseteq Networks
                     /\ Ephemeral \subseteq Networks
ASSUME UnreadType == Unread \notin Int
ASSUME BoundsType == MaxCrashes \in Nat /\ MaxEager \in Nat /\ MaxPending \in Nat

\* A setting that only the branch of existing code compares is written by the
\* init code of the last contract the script checked.
ASSUME PlanBranches ==
    \A n \in Networks : \A i \in DOMAIN Plan[n] :
        Plan[n][i].kind = "set" /\ Plan[n][i].when = "existing" =>
            \E d \in 1 .. i - 1 :
                /\ Plan[n][d].kind = "deploy"
                /\ Plan[n][i].sets \subseteq Plan[n][d].sets
                /\ \A j \in d + 1 .. i - 1 : Plan[n][j].kind \notin {"genesis", "deploy"}

\* A contract is handed over to one admin, and none has one before it exists.
ASSUME PlanAdmins ==
    \A n \in Networks : \A i, j \in DOMAIN Plan[n] :
        /\ Plan[n][i].kind = "admin" /\ Plan[n][j].kind = "admin"
        /\ Plan[n][i].on = Plan[n][j].on
        => Plan[n][i].to = Plan[n][j].to
ASSUME StartAdmins ==
    \A n \in Networks : \A c \in Contracts \ Start[n].code :
        Start[n].admin[c] = "nobody"

\* Tokens are not sent by a raw call.  A transfer in the branch of missing code
\* follows the check of its receiver, and is the only one to it.
ASSUME PlanFunds ==
    \A n \in Networks : \A i \in DOMAIN Plan[n] : Plan[n][i].kind = "fund" =>
        /\ ~ Plan[n][i].raw
        /\ Plan[n][i].when = "fresh" =>
             /\ \E d \in 1 .. i - 1 :
                  /\ Plan[n][d].kind \in {"genesis", "deploy"}
                  /\ Plan[n][d].on = Plan[n][i].on
                  /\ \A j \in d + 1 .. i - 1 : Plan[n][j].kind \notin {"genesis", "deploy"}
             /\ \A j \in DOMAIN Plan[n] \ {i} :
                  ~ (Plan[n][j].kind = "fund" /\ Plan[n][j].on = Plan[n][i].on)

\* Nothing was sent twice before, nor to a contract that does not exist.
ASSUME StartFunds ==
    \A n \in Networks, c \in Contracts :
        /\ Start[n].funded[c] <= 1
        /\ c \notin Start[n].code => Start[n].funded[c] = 0

\* Genesis comes first; a contract and Holograph exist before they are called or
\* handed over; what a call needs is set on the same contract before; where nobody
\* else has to sign, what makes the factory act again is put right before; and
\* Holograph becomes the admin of all the others.
ASSUME PlanOrder ==
    \A n \in Networks : \A i \in DOMAIN Plan[n] :
        /\ Plan[n][i].kind = "genesis" => i = 1
        /\ Plan[n][i].kind \in Calling =>
             \A c \in {Plan[n][i].on, "Holograph"} : \E d \in 1 .. i - 1 :
                 Plan[n][d].kind \in Creating /\ Plan[n][d].on = c
        /\ Plan[n][i].kind = "set" =>
             \A x \in Plan[n][i].needs : \E d \in 1 .. i - 1 :
                 /\ Plan[n][d].kind = "set" /\ Plan[n][d].on = Plan[n][i].on
                 /\ x \in Plan[n][d].sets
        /\ Plan[n][i].kind = "factory" /\ n \notin Multisig =>
             \A x \in Plan[n][i].again : \E d \in 1 .. i - 1 :
                 Plan[n][d].kind = "set" /\ x \in Plan[n][d].sets
        /\ Plan[n][i].kind = "admin" =>
             Plan[n][i].to = IF Plan[n][i].on # "Holograph" THEN "Holograph"
                             ELSE IF n \in Multisig THEN "multisig" ELSE "deployer"

\* Every contract has somebody who can act for it, and the multisig gets the others
\* after Holograph.
ASSUME StartOrder ==
    \A n \in Networks :
        /\ \A c \in Start[n].code : Start[n].admin[c] # "nobody"
        /\ Start[n].admin["Holograph"] # "Holograph"
        /\ \A c \in Contracts : Start[n].admin[c] = "multisig" =>
              n \in Multisig /\ Start[n].admin["Holograph"] = "multisig"

\* A chain that lives in the process has no signers.
ASSUME LocalNetworks == Ephemeral \cap Multisig = {}

\* A mock comes after genesis on such a chain, where nobody but the deployer has
\* sent anything.
ASSUME PlanMocks ==
    \A n \in Networks : \A i \in DOMAIN Plan[n] : Plan[n][i].kind = "mock" =>
        n \in Ephemeral /\ i > 1 /\ Plan[n][1].kind = "genesis"

VARIABLES
    network,   \* chosen once
    chain,     \* code, settings, admins and funding on chain
    mempool,   \* the deployer's transactions accepted and not mined
    queue,     \* instructions printed for the multisig and not executed
    phase,     \* where the command is
    pc,        \* the step of the plan it is at
    existed,   \* the last code check of a block found code
    lead,      \* __txNonce minus the number of mined transactions
    printed,   \* this command printed an instruction
    foreign,   \* a transaction this command does not wait for may be mined
    crashes,
    eager

process == <<phase, pc, existed, lead, printed, foreign>>
bounds  == <<crashes, eager>>
vars    == <<network, chain, mempool, queue, process, bounds>>

steps   == Plan[network]
step    == steps[pc]
Running == phase \in {"check", "send", "wait"}

-----------------------------------------------------------------------------
(* The chain. *)

\* Effect of a step on chain c.
Apply(s, c) ==
    CASE s.kind \in Creating ->
           [c EXCEPT !.code = @ \cup {s.on}, !.stale = @ \ s.sets,
                     !.admin[s.on] = "deployer"]
      [] s.kind \in {"set", "resend"} -> [c EXCEPT !.stale = @ \ s.sets]
      [] s.kind = "admin"             -> [c EXCEPT !.admin[s.on] = s.to]
      [] s.kind = "fund"              -> [c EXCEPT !.funded[s.on] = @ + 1]
      [] OTHER                        -> c

\* onlyAdmin of the called contract when p calls it, itself or through
\* Holograph.adminCall.
Authorised(s, via, p, c) ==
    IF via = "direct" THEN c.admin[s.on] = p
    ELSE c.admin[s.on] = "Holograph" /\ c.admin["Holograph"] = p

Reverts(t, p, c) ==
    \/ t.step.kind \in Creating /\ t.step.on \in c.code
    \/ t.step.kind \in Calling /\ ~ Authorised(t.step, t.via, p, c)
    \/ t.step.kind = "set" /\ t.step.needs \cap c.stale # {}

Executed(t, p, c) == IF Reverts(t, p, c) THEN c ELSE Apply(t.step, c)

-----------------------------------------------------------------------------
(* The scripts. *)

\* Faulty: the admin is compared as the node spells it, in mixed case.
WantedComparingCase(s, c) ==
    CASE s.kind \in {"genesis", "deploy", "mock"} -> s.on \notin c.code
      [] s.kind = "factory" -> s.on \notin c.code \/ s.again \cap c.stale # {}
      [] s.kind = "set"     -> /\ s.when = "existing" => existed
                               /\ s.sets \cap c.stale # {}
      [] s.kind = "fund"    -> IF s.when = "fresh" THEN ~ existed
                               ELSE c.funded[s.on] = 0 /\ network \in Wealthy
      [] OTHER              -> TRUE

\* The condition the script evaluates before it acts.
Wanted(s, c) ==
    CASE s.kind \in {"genesis", "deploy", "mock"} -> s.on \notin c.code
      [] s.kind = "factory" -> s.on \notin c.code \/ s.again \cap c.stale # {}
      [] s.kind = "set"     -> /\ s.when = "existing" => existed
                               /\ s.sets \cap c.stale # {}
      [] s.kind = "admin"   -> c.admin[s.on] # s.to
      [] s.kind = "fund"    -> IF s.when = "fresh" THEN ~ existed
                               ELSE c.funded[s.on] = 0 /\ network \in Wealthy
      [] OTHER              -> TRUE

\* Evaluating the arguments of the transaction throws: a transfer is estimated
\* outside the try block, and "data" may hold a call instead of its encoding.
Throws(s, c) ==
    \/ s.kind = "fund" /\ network \notin Wealthy
    \/ s.raw /\ c.admin[s.on] # "deployer"

\* Faulty: nobody thinks of Holograph.adminCall.
MaySendDirectly(s, via, c) ==
    /\ via = "direct"
    /\ s.kind \in Calling => s.on \notin Adminless /\ c.admin[s.on] = "deployer"

\* Who has to act for a call, and how, as read from the admin of the target:
\* the deployer, or else the multisig.
MaySend(s, via, c) ==
    IF s.kind \in Calling
    THEN s.on \notin Adminless /\ Authorised(s, via, "deployer", c)
    ELSE via = "direct"

MayInstruct(s, via, c) ==
    /\ s.kind \in Calling
    /\ s.on \notin Adminless
    /\ network \in Multisig
    /\ Authorised(s, via, "multisig", c)

\* On to the next step, or the end of the scripts.
Advance ==
    /\ pc' = pc + 1
    /\ phase' = IF pc < Len(steps) THEN "check" ELSE "done"

Fail == phase' = "failed" /\ UNCHANGED pc

\* Faulty: the branch of a code check is not remembered.
SkipForgetting ==
    /\ phase = "check"
    /\ step.kind # "recount"
    /\ ~ Wanted(step, chain)
    /\ Advance
    /\ UNCHANGED <<network, chain, mempool, queue, existed, lead, printed, foreign, bounds>>

\* The check of a step finds nothing to do.
Skip ==
    /\ phase = "check"
    /\ step.kind # "recount"
    /\ ~ Wanted(step, chain)
    /\ existed' = (existed \/ step.kind \in {"genesis", "deploy"})
    /\ Advance
    /\ UNCHANGED <<network, chain, mempool, queue, lead, printed, foreign, bounds>>

\* 99_multisig reads the transaction count again.
Recount ==
    /\ phase = "check"
    /\ step.kind = "recount"
    /\ lead' = 0
    /\ Advance
    /\ UNCHANGED <<network, chain, mempool, queue, existed, printed, foreign, bounds>>

\* Faulty: the counter starts behind the pending transactions of others.
PrepareBehindPending ==
    /\ phase = "check"
    /\ step.kind # "recount"
    /\ Wanted(step, chain)
    /\ ~ Throws(step, chain)
    /\ existed' = (existed /\ step.kind \notin {"genesis", "deploy"})
    /\ lead' = IF step.kind = "genesis" THEN lead
               ELSE (IF lead = Unread THEN Len(mempool) ELSE lead) + 1
    /\ foreign' = (foreign \/ step.raw)
    /\ phase' = "send"
    /\ UNCHANGED <<network, chain, mempool, queue, pc, printed, bounds>>

\* The check finds something to do: txParams draws a nonce.  A transaction
\* with a nonce of its own (genesis) leaves the counter alone.  A raw call in
\* the arguments is sent by itself, behind what is pending.
Prepare ==
    /\ phase = "check"
    /\ step.kind # "recount"
    /\ Wanted(step, chain)
    /\ ~ Throws(step, chain)
    /\ existed' = (existed /\ step.kind \notin {"genesis", "deploy"})
    /\ lead' = IF step.kind = "genesis" THEN lead
               ELSE (IF lead = Unread THEN 0 ELSE lead) + 1
    /\ mempool' = IF step.raw
                  THEN Append(mempool, [step |-> step, via |-> "direct"])
                  ELSE mempool
    /\ foreign' = (foreign \/ step.raw)
    /\ phase' = "send"
    /\ UNCHANGED <<network, chain, queue, pc, printed, bounds>>

Throw ==
    /\ phase = "check"
    /\ Wanted(step, chain)
    /\ Throws(step, chain)
    /\ Fail
    /\ UNCHANGED <<network, chain, mempool, queue, existed, lead, printed, foreign, bounds>>

\* The nonce of the transaction about to be sent, relative to the mined ones.
Nonce == IF step.kind = "genesis" THEN 0 ELSE lead - 1

\* The node refuses a nonce that is mined or pending and a transaction whose
\* gas estimation failed; it parks one that leaves a gap, and wait() hangs.
Send ==
    /\ phase = "send"
    /\ \E via \in Ways :
         LET t == [step |-> step, via |-> via] IN
         /\ MaySend(step, via, chain)
         /\ IF Reverts(t, "deployer", chain) \/ Nonce < Len(mempool)
            THEN Fail /\ UNCHANGED mempool
            ELSE /\ mempool' = IF Nonce = Len(mempool) THEN Append(mempool, t) ELSE mempool
                 /\ phase' = IF Nonce = Len(mempool) THEN "wait" ELSE "hung"
                 /\ UNCHANGED pc
    /\ UNCHANGED <<network, chain, queue, existed, lead, printed, foreign, bounds>>

\* The mock names another account as its sender, but takes its nonce from the
\* deployer's counter.  Who signs is up to hardhat-deploy: the deployer (Send),
\* or that account, which has sent nothing yet: then the node parks it.
SendForAnother ==
    /\ phase = "send"
    /\ step.kind = "mock"
    /\ phase' = "hung"
    /\ UNCHANGED <<network, chain, mempool, queue, pc, existed, lead, printed, foreign, bounds>>

\* Faulty: the nonce of a transaction that is not sent is kept.
InstructKeepingNonce ==
    /\ phase = "send"
    /\ \E via \in Ways : /\ MayInstruct(step, via, chain)
                        /\ queue' = Append(queue, [step |-> step, via |-> via])
    /\ printed' = TRUE
    /\ Advance
    /\ UNCHANGED <<network, chain, mempool, existed, lead, foreign, bounds>>

\* The instructions are printed, the nonce is given back, and the script goes
\* on at once with a wait() that returns immediately.
Instruct ==
    /\ phase = "send"
    /\ \E via \in Ways : /\ MayInstruct(step, via, chain)
                        /\ queue' = Append(queue, [step |-> step, via |-> via])
    /\ lead' = lead - 1
    /\ printed' = TRUE
    /\ Advance
    /\ UNCHANGED <<network, chain, mempool, existed, foreign, bounds>>

Abort ==
    /\ phase = "send"
    /\ \A via \in Ways : ~ MaySend(step, via, chain) /\ ~ MayInstruct(step, via, chain)
    /\ Fail
    /\ UNCHANGED <<network, chain, mempool, queue, existed, lead, printed, foreign, bounds>>

-----------------------------------------------------------------------------
(* The node, the signers and the person at the keyboard. *)

\* The oldest pending transaction is mined.  If it is the one the script waits
\* for, wait() returns or, for a reverted transaction, throws.
Mine ==
    /\ mempool # <<>>
    /\ LET t == Head(mempool) IN
       /\ chain' = Executed(t, "deployer", chain)
       /\ IF phase = "wait" /\ Len(mempool) = 1
          THEN IF Reverts(t, "deployer", chain) THEN Fail ELSE Advance
          ELSE UNCHANGED <<phase, pc>>
    /\ mempool' = Tail(mempool)
    /\ lead' = IF lead = Unread THEN Unread ELSE lead - 1
    /\ UNCHANGED <<network, queue, existed, printed, foreign, bounds>>

\* The signers execute the instructions in the order of their Safe's nonces; a
\* transaction that would revert is dropped.
Execute ==
    /\ queue # <<>>
    /\ chain' = Executed(Head(queue), "multisig", chain)
    /\ queue' = Tail(queue)
    /\ UNCHANGED <<network, mempool, process, bounds>>

\* The process dies, or is killed when it hangs: its counter is lost, what it
\* sent is not.
Crash ==
    /\ Running \/ phase = "hung"
    /\ crashes < MaxCrashes
    /\ crashes' = crashes + 1
    /\ phase' = "down"
    /\ UNCHANGED <<network, chain, mempool, queue, pc, existed, lead, printed, foreign, eager>>

Settled == phase = "done" /\ ~ printed

\* The command is started again, as long as the last one did not find
\* everything in order.
Restart ==
    /\ phase \in {"down", "failed", "done"}
    /\ ~ Settled
    /\ Len(mempool) <= MaxPending
    /\ \/ queue = <<>> /\ UNCHANGED eager
       \/ queue # <<>> /\ eager < MaxEager /\ eager' = eager + 1
    /\ phase' = IF steps = <<>> THEN "done" ELSE "check"
    /\ pc' = 1
    /\ existed' = FALSE
    /\ lead' = Unread
    /\ printed' = FALSE
    /\ chain' = IF network \in Ephemeral THEN Start[network] ELSE chain
    /\ mempool' = IF network \in Ephemeral THEN <<>> ELSE mempool
    /\ foreign' = (mempool' # <<>>)
    /\ UNCHANGED <<network, queue, crashes>>

-----------------------------------------------------------------------------
Init ==
    /\ network \in Networks
    /\ chain = Start[network]
    /\ mempool = <<>>
    /\ queue = <<>>
    /\ phase = IF steps = <<>> THEN "done" ELSE "check"
    /\ pc = 1
    /\ existed = FALSE
    /\ lead = Unread
    /\ printed = FALSE
    /\ foreign = FALSE
    /\ crashes = 0
    /\ eager = 0

Script == Skip \/ Recount \/ Prepare \/ Throw \/ Send \/ SendForAnother \/ Instruct \/ Abort
Next   == Script \/ Mine \/ Execute \/ Crash \/ Restart

\* Scripts run on, transactions are mined, signers sign, and the command is
\* started again until it has nothing left to say.
Fairness == WF_vars(Script) /\ WF_vars(Mine) /\ WF_vars(Execute) /\ WF_vars(Restart)

Spec == Init /\ [][Next]_vars /\ Fairness

-----------------------------------------------------------------------------
(* Properties. *)

TypeOK ==
    /\ network \in Networks
    /\ chain \in Chains
    /\ mempool \in Seq(Transactions)
    /\ queue \in Seq(Transactions)
    /\ phase \in {"check", "send", "wait", "done", "failed", "down", "hung"}
    /\ pc \in 1 .. Len(steps) + 1
    /\ Running => pc \in 1 .. Len(steps)
    /\ existed \in BOOLEAN /\ printed \in BOOLEAN /\ foreign \in BOOLEAN
    /\ lead \in Int \cup {Unread}
    /\ crashes \in 0 .. MaxCrashes /\ eager \in 0 .. MaxEager

\* No transaction of the deployer is sent above its next free nonce, whatever
\* mixture of transactions, printed instructions and calls through Holograph
\* preceded it, and whatever an earlier process left in the mempool.  wait()
\* waits for a transaction that cannot be mined in one place only: the mock of a
\* local chain, when the account it names signs it with the deployer's number.
NoNonceGap == phase = "hung" => step.kind = "mock"

\* What the wanted state says about a step of the plan.
Achieved(s) ==
    /\ s.kind \in Creating => s.on \in chain.code
    /\ s.kind = "set" => s.sets \cap chain.stale = {}
    /\ s.kind = "admin" => chain.admin[s.on] = s.to

\* A command that ends without asking the signers for anything leaves every
\* contract deployed, every setting the scripts know of at its wanted value
\* (also those only one branch of a block looks at) and every admin handed
\* over, however often it was interrupted before.
SettledMeansDesired ==
    Settled => \A i \in DOMAIN steps : Achieved(steps[i])

\* Contracts whose settings the scripts change through MultisigAwareTx, other
\* than the ones the factory made, and which of them are handed over.
Configured == {steps[i].on : i \in {j \in DOMAIN steps : steps[j].kind \in {"set", "resend"}}}
Made       == {steps[i].on : i \in {j \in DOMAIN steps : steps[j].kind = "factory"}}
HandedOver == {steps[i].on : i \in {j \in DOMAIN steps : steps[j].kind = "admin"}}

\* Where the scripts hand contracts over at all, no contract they configure is
\* left to the key of the deployer when everything is in order.
NothingLeftToTheDeployer ==
    Settled /\ HandedOver # {} /\ network \in Multisig =>
        \A c \in Configured \ (Made \cup Adminless) : chain.admin[c] # "deployer"

\* Tokens are sent at most once to a contract, although the check that none
\* were sent is made against the last block while a transfer may be pending.
FundedAtMostOnce == \A c \in Contracts : chain.funded[c] <= 1

\* The command gives up for these reasons only: a nonce used by a transaction
\* of an earlier process (or of a raw call), the raw call itself, a contract
\* without admin(), a transfer of tokens the deployer does not hold, and the
\* second deployment of the utility token while its reference awaits the
\* signers.  In particular there is always somebody who can act.
AbortsOnlyFor ==
    [][phase # "failed" /\ phase' = "failed" =>
         \/ foreign
         \/ step.raw
         \/ step.on \in Adminless
         \/ step.kind = "fund" /\ network \notin Wealthy
         \/ step.again # {} /\ step.on \in chain.code /\ network \in Multisig]_vars

\* Where no further run gets past: the raw call when the deployer is not the
\* admin, a setting of a contract without admin(), a comparison that never holds
\* in front of a transaction of the multisig, and the parked mock.
Blocked ==
    \/ phase = "hung" /\ step.kind = "mock"
    \/ \E i \in DOMAIN steps : LET s == steps[i] IN
        \/ s.raw /\ s.sets \cap chain.stale # {} /\ Throws(s, chain)
        \/ s.on \in Adminless /\ s.kind = "set" /\ s.on \in chain.code
                             /\ s.sets \cap chain.stale # {}
        \/ s.kind = "resend" /\ \E via \in Ways : MayInstruct(s, via, chain)

\* Repeating the command ends: it comes to a run with nothing left to do, or
\* to one of the four dead ends above.
Settles == <>[](Settled \/ Blocked)
=============================================================================
