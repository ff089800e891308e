# Holograph protocol: TLA+ models, checks and proofs

This directory models the Holograph protocol: assets that exist on many EVM
chains under one address and are moved between them by a bridge, a messaging
layer and bonded operators. It covers two bodies of code: the Solidity contracts
(`src/src/**/*.sol`) and the TypeScript that deploys and serves them
(`src/deploy/*.ts`, `src/scripts/**/*.ts`). Every definition is a translation of
code; `PROJECT.json` maps it to its lines.

## 1. The system

| part | state | operations | interacts with |
|---|---|---|---|
| `HolographOperator` | pods (`_operatorPods`), recorded pod and index of an operator, HLG bonds, open jobs, slots with the selected operators, failed jobs | `bondUtilityToken`, `topupUtilityToken`, `unbondUtilityToken`, `crossChainMessage`, `executeJob`, `recoverJob`, `send` | messaging module (in: `crossChainMessage`, out: `send`), bridge (`bridgeInRequest` inside a try), HLG token |
| `HolographBridge` | job nonce | `bridgeOutRequest`, `bridgeInRequest`, dry runs | operator, registry, holographed contracts |
| `LayerZeroModule`, the endpoint | gas parameters; nonces, a stored payload | `send`, `lzReceive`, `retryPayload`, `forceResumeReceive` | operator of both chains |
| `HolographERC721` | owners, enumeration of all and of owned tokens, approvals, burned marks | mint, burn, transfer, approve, `bridgeIn`, `bridgeOut` | bridge, its source contract |
| `HolographERC20` | balances, allowances, nonces, total supply | mint, burn, transfer, approve, permit, `bridgeIn`, `bridgeOut`, `holographBridgeMint` | bridge, operator, its source contract |
| `hToken` | native coin backing a HolographERC20 | `holographNativeToken`, `extractNativeToken` | bridge (mints the fee of a job to its executor) |
| `HolographFactory`, `HolographRegistry`, `Holographer`, `Holograph`, `HolographInterfaces`, `HolographGenesis` | deployed contracts and their types, approved deployers and their nonces | deploy, register, reserve, approve | everything looks addresses up here |
| `HolographRoyalties`, `HolographTreasury`, `Faucet` | payout shares, fees, cooldowns | configure, pay out, withdraw, request | holographed contracts, drops |
| Drops: `HolographDropERC721(V2)`, `CustomERC721`, `CountdownERC721` with `LazyMint`, `BatchMintMetadata`, `DelayedReveal` | supply, sale windows, batches | purchase, mint, reveal, withdraw, finalize | HolographERC721 as its source contract, treasury |
| `abstract/*`, proxies, metadata renderers, price oracles, libraries, structs, enums, mocks | admin and owner slots, or none | | |
| `deploy/*.ts` | none: they compare the chain with the wanted values on every run | check code, deploy, compare, set, fund, hand over admins | the contracts, in the order of the file names; the transaction helpers |
| `scripts/utils/helpers.ts`, `multisig-aware-tx.ts` | the transaction counter `__txNonce` of the process | `txParams`, `genesisDeployHelper`, `MultisigAwareTx` | the node's mempool, the admins of contracts, the signers of the protocol multisig |
| `scripts/*_jobs_processing`, `scripts/utils/concurrency.ts` | queries in flight, results of a batch, the output file | `processInBatches`, `processEventsConcurrently`, a loop of its own in the script for incomplete jobs | the operator contracts of many chains, read only |
| `gas-service.ts`, other operational scripts and tasks | a price, or none | | |

What is hard: several accounts race for one job in an order nobody controls;
operators are drawn at random and leave their pod while they are away on a job;
indices stored in a job point into a pod that changes before they are used; a
bridge call may fail after the job is gone and be retried later; two chains
change the same token with only messages between them; unchecked and checked
arithmetic meet in one function; prices, limits, roots and dates of a sale change
between purchases. In the scripts: a counter numbers transactions that are sent,
printed or sent through another contract; a process dies between two steps of a
deployment and the next one has to find out what is left; signers execute printed
instructions while later scripts already compare values; a race of queries is won
in any order while a list of them is shortened and filled.

## 2. Plan

| stage | modules | state |
|---|---|---|
| 1 | `HolographOperator` with the abstract `OperatorStaking`, and the proofs of its invariants and of the refinement | done |
| 2 | `HolographBridge` with the abstract `AssetTeleport` and its refinement: two chains, the sending side, failed and recovered jobs, hToken fees; proofs of its invariants and of the refinement | done |
| 3 | `HolographERC721`: owners, approvals, enumerations, with the abstract `ERC721Ledger` and its refinement; proofs of its invariants and of the refinement | done, but for the mint to a list of wallets |
| 4 | `DeploymentRunner` (the transaction helpers, the node, the signers, crashes and restarts), `DeploymentPlan` (the deploy scripts as data), `MCDeployment` (eleven networks), with proofs for every plan | done |
| 5 | `JobScreening`: both screening scripts with the helpers for concurrency, with proofs for every size | done |
| 6 | `CountdownERC721` and `HolographDropERC721V2`, with proofs of their invariants | done |
| 7 | `HolographERC20` with allowances and permits | next |
| 8 | the LayerZero endpoint as the channel under the bridge: nonces, one stored payload, retries, dropped payloads | |
| 9 | `CustomERC721` with lazy minting and reveals, `HolographDropERC721` (V1) | |
| 10 | factory signatures, registry, genesis, faucet, royalties | |

Each module of a component has its constants with named assumptions, one action
per external function, invariants as conjunctions of named parts and no
`RECURSIVE` operator, so that it can be proved about. A theorem worth having
beyond those of section 5: allowances never let more be spent than was granted.

## 3. The modules

A transaction that reverts leaves no trace, so an external function is one action
whose guard is the conjunction of the function's `require`s, and a revert is a
step not taken. Events, gas accounting beyond "the price is above the job's" and
the bytes of payloads are left out.

### Operator

`HolographOperator` is one chain's contract. Its variables are the contract's
mappings under their names without the underscore (`operatorPods`,
`bondedOperators`, `operatorPodIndex`, `bondedAmounts`, `operatorJobs`,
`operatorTempStorage`, ...). Pods are numbered from 1, as `_bondedOperators`
stores them; Solidity's index i of a pod is position i+1 of its sequence. The
packed word of a job is a record of pod, slot and fallback indices.

| action | function |
|---|---|
| `BondUtilityToken`, `TopupUtilityToken`, `UnbondUtilityToken` | the functions of these names, the pushes and pops included |
| `CrossChainMessage` | `crossChainMessage`; the pseudo-random numbers are any pod, any index and any fallbacks below the size the code divides by |
| `ExecuteJob` | `executeJob` with the slot arithmetic, the slashing and `nonRevertingBridgeCall`; the answer of the bridge is free |
| `RecoverJob` | `recoverJob` |
| `SendHLG` | a plain transfer of HLG to the contract (`21_hlg.ts:256`, external) |
| `Tick`, `GasPriceMoves` | the clock and the gas price of the chain (external) |

`elapsed[j]` replaces the clock: the seconds since the job's start, which stop
counting after the last fallback slot because nothing later is told apart.
Two assumptions are made visible: `NeverDelivered` (LayerZero delivers a payload
once; payloads differ by their nonce) and `MaxMessages` (the 32 bit slot counter
does not wrap). HLG arrives by bonding and topups, by plain transfers, and stays when
an operator unbonds to the contract itself. `adminCall` (`abstract/Admin.sol:133`)
lets the admin act as the contract, also towards its HLG
(`test/14_holograph_operator_tests.ts:716` moves it that way), and is left out: no
property of a contract holds against an owner who can call anything in its name.
The owner of an account that is a contract is fixed. Calls made by the bridged asset back into
the operator during a job are not interleaved: the job is deleted and the
operator pushed back before the bridge is called, so a call from within has the
effect of the same call made just after.

`OperatorStaking` is what the contract promises without its data structures: an
account is out, in one pod or away on one job. `OperatorRefinement` maps the
arrays, indices, jobs and slots to it. `OperatorDocumentation` states what two
comments say and the code does not do.

### Bridge

`HolographBridge` has several chains at once: owners and burned marks of one
collection, the hToken of every chain with its balances on all chains and its
native coin, and the payloads on the wire, open and failed on every chain.

| action | code |
|---|---|
| `BridgeOutToken`, `BridgeOutCoins`, `BridgeOutCollection` | `bridgeOutRequest`, the `bridgeOut` of the asset, `HolographOperator.send` with the fee, `LayerZeroModule.send` |
| `LzReceive` | `lzReceive` and `crossChainMessage`, as far as the payload is concerned |
| `ExecuteJob`, `FailJob`, `RecoverJob` | the bridge part of `executeJob` and `recoverJob` with `bridgeInRequest` and the `bridgeIn` of the asset |
| `SourceMint`, `SourceMintBatchIncremental`, `Burn`, `DeployHolographableContract`, `HolographNativeToken`, `ExtractNativeToken` | the functions of these names |

A token id is the pair of its chain prefix and its number, and the batch
increment carries from one into the other. A request may be sent by an approved
account; it has the effect of one sent by the owner, so senders are left out. The
wire is a set: payloads of different chains and retried ones have no order.
`FailJob` is always possible, because a job may run out of the gas its sender
allowed. hTokens are taken to be deployed on every chain. Transfers of tokens
between accounts of a chain change nothing a bridge looks at and are left out.

What is summed up (`OnChain`, `Owed`, `Circulating`) is a sum of a finite function,
as `SumTheorems` can reason about; chains and accounts are finite sets because
their ids have 32 and 160 bits.

Coins are backed (`CoinsBacked`): the native coin is there for every hToken on any
chain. Taking it out is another matter: `extractNativeToken` serves six fixed
addresses (`hToken.sol:200`), which the action has as `KnownOperators`.

`AssetTeleport` says where a token is (unborn, at an account of a chain, moving to
one, burned) and how many coins circulate; `BridgeRefinement` maps owners, burned
marks and pending payloads to it.

### HolographERC721

`HolographERC721` is one collection on one chain in full: owners, approvals of a
token and of an account, burned marks, and the two enumerations as the contract
keeps them, arrays with maps of indices. `HolographBridge` has only the owners
and burned marks of it, on several chains.

| action | function |
|---|---|
| `Approve`, `SetApprovalForAll`, `Burn` | the functions of these names |
| `TransferFrom` | `transfer`, `transferFrom`, `safeTransferFrom` |
| `SourceMint` | `sourceMint`, `sourceMintBatch` to one account, `sourceMintBatchIncremental` |
| `SourceBurn`, `SourceTransfer`, `BridgeIn`, `BridgeOut` | the functions of these names |

A transfer removes a token from the enumerations and adds it again inside one
call, so `RemoveToken` and `AddTokens` map a record of the five variables to the
next one. The hooks that a source contract may register are taken to refuse or to
change nothing: those of the repository do no more, but `burn` and `bridgeOut`
read the owner before they call the hook and use it after, so a contract whose
hook moves the token would break the enumeration of an account.

`ERC721Ledger` is a collection without arrays: a set of tokens for every account, a
balance, a supply, who a token is approved to, who an account trusts, and what is
burned. `ERC721Refinement` reads the sets off `ownedTokens` and the numbers off
`ownedTokensCount` and the length of `allTokens`, as `tokenOfOwnerByIndex`,
`balanceOf` and `totalSupply` do, and not off `tokenOwner`: a stale index that
takes the wrong token out of an array is then a step the ledger does not have.

### Deployment

`DeploymentRunner` is the machinery all deploy scripts run on; what they do with
it is the constant `Plan`, a sequence of steps for every network. A step is a
code check with a deployment, a comparison with a setter, a deployment by the
factory, a hand-over of an admin, a transfer of tokens, the deployment of the mock
endpoint of a local network, or the reading of the transaction count. A setting is a name, and only whether its value on chain is
the wanted one (`chain.stale`) is kept.

| action | code |
|---|---|
| `Skip`, `Prepare` | the condition a script evaluates before it acts; `txParams`, which draws a nonce |
| `Throw` | arguments whose evaluation throws outside every try block |
| `Send`, `Instruct`, `Abort` | `MultisigAwareTx`: the deployer sends, itself or through `Holograph.adminCall`; the multisig is told; nobody can act |
| `SendForAnother` | the mock endpoint, if the account that `11_layer_zero.ts:30` names as its sender signs it: its number comes from the counter of the deployer, so the node parks it and the command hangs |
| `Recount` | `99_multisig`, which reads the transaction count again |
| `Mine` | the node mines the oldest pending transaction, and `wait()` returns or throws (external) |
| `Execute` | the signers execute a printed instruction, in the order of their nonces (external) |
| `Crash`, `Restart` | the process dies, the command is started again: the counter is lost, pending transactions are not |

`DeploymentPlan` has one definition per block of a script and puts them in the
order hardhat-deploy executes them. `MCDeployment` names the networks: fresh ones
and ones an earlier release left with code missing or settings that differ.
A network whose chain lives in the process (`Ephemeral`) starts empty each time.
Who signs the mock is decided in hardhat-deploy, which is not in the repository, so
both outcomes are steps: `Send` by the deployer, and `SendForAnother`.

### Job screening

`JobScreening` is both scripts, told apart by `script`. A job is its index in the
list, an answer the job, null or a rejection.

| action | code |
|---|---|
| `Answer` | a query comes back (`processJob`, and the callback of the script for incomplete jobs) |
| `StartConcurrently`, `Settle` | `processEventsConcurrently`: the first queries, and the winner of the race replaced by the next query |
| `WriteConcurrently`, `Retry` | `processInBatches`: the action writes and the batch grows; the action throws and the range is tried again at half the size |
| `StartLoop`, `Launch`, `RemoveOldest`, `WriteLoop` | `processBatch` of the script for incomplete jobs |
| `Finish` | the end of the list |

Whether the action handed to `processInBatches` throws is a free choice made
once. The action of the script for failed jobs never does, because
rejections become results; the helper is written for others that do.

### Sales

`CountdownERC721` and `HolographDropERC721V2` are each one contract with its
buyers, its minter or owner, and the clock. Time is the number the dates are
compared with. What the buyer sends is the price asked for and a surplus.

| action | function |
|---|---|
| `Purchase`, `MintTo`, `SetSaleConfiguration`, `Withdraw` (countdown) | the functions of these names; a buyer may refuse the refund, whose result the code does not look at |
| `Purchase`, `PurchasePresale`, `AdminMint`, `SetSaleConfiguration`, `FinalizeOpenEdition`, `Withdraw` (drop) | the functions of these names; `AdminMint` is `adminMintAirdrop` as well |
| `Tick`, `MarketMoves` | the clock; the oracle's answers and the protocol's fee |

`Settle` is how a drop passes on the fee and sends the rest back: the fee is
converted once for all tokens and reverts the sale when the drop cannot pay it,
the refund fails silently. The oracle is a function `quote` from dollars to
coins, any function: a conversion of twice the amount need not cost twice as
much. The counter `totalMintsByAddress` of a drop is written by no function, so it
is 0. A Merkle root is the set of its leaves.

## 4. What the runs check

| run | instance | shows |
|---|---|---|
| `operator_bonding` | 3 accounts, one a contract owned by another; 1 pod, 2 jobs, 1 fallback; base bond 2, bonds of 2 and 3 | the three records of a pod agree; a selected operator has one job and is in no pod; every bond is live and covers its base amount; the contract can pay out all bonds at once, with HLG sent to it and bonds left in it; payloads are applied once; only late operators lose a bond, and by the base amount; the running fallback is the one rewarded |
| `operator_jobs` | 2 accounts, 2 pods, 2 jobs, fairness | every open job is finished; the contract implements `OperatorStaking` with its liveness |
| `bridge_tokens` | 2 chains, 2 accounts, prefixes of 2 numbers, 3 requests, single mints and a batch over the end of a prefix | a token is in one place; teleport refinement |
| `bridge_coins` | 2 chains, 2 accounts, 3 requests, fee 1, amount 2 | types (no negative balance); hTokens are backed; teleport refinement for coins |
| `erc721_enumeration` | 2 accounts; ids 0 to 3, one of another chain; single mints and batches of 2 | enumerations agree with owners; burned tokens have no owner; approvals end with ownership; read through its arrays and counts the contract implements `ERC721Ledger` |
| `deployment` | eleven networks, one crash anywhere, one restart before the signers are done, at most one pending transaction at a restart, fairness | no transaction of the deployer above its next free nonce (only the mock can be left waiting); a command that ends silently leaves everything deployed, set and handed over, and nothing with the deployer; a faucet is funded once at most; a registered type has code; a command gives up for listed reasons only; repeating it ends |
| `screening` | 5 jobs, 2 queries at a time, batches of up to 4, at least 1, growing threefold, fairness | the script for failed jobs writes every existing job once; neither writes one twice; concurrency is bounded; both end |
| `countdown` | 2 accounts, 3 intervals of 2, from date 1 to 7, up to 2 tokens a call, 2 prices, with and without a limit | purchases stay within the supply computed from the clock; checked arithmetic refuses no allowed purchase; the price of what is sold stays with the contract |
| `drop` | 2 accounts, an edition of 2 and an open one, 2 configurations with a root each, 2 oracles, 2 fees, 1 or 2 tokens a call, 4 tokens | an edition keeps its size and, finalized with tokens in it, is closed; proceeds are covered whatever is refunded |
| `operator_zero_topup` | violation | HLG can be recorded for the zero address |
| `bridge_zero_recipient` | violation | coins sent to the zero address can never be recovered |
| `bridge_prefixes` | violation | a batch can mint ids of another chain |

The bounds. Bond amounts are such that a slashed operator leaves with nothing,
leaves with leftovers, or (after a topup) stays.
Plain transfers of 2 HLG reach the contract in `operator_bonding`; in
`operator_jobs`, where they change nothing a job or a bond looks at, there are none. With `BlockTime = 1` and one
fallback the slots of the selected operator, of a fallback and of everybody are
all reached; five fallbacks repeat the middle one. A threshold of 1 with a step of
2 and a divisor of 2 makes the third bond dearer than the base amount.
Two jobs are the least for operators to be taken and pushed back in different
orders, so that a fallback index points at another operator or past the end of
the pod; three accounts are the least for `_popOperator` to move an entry that is
not the popped one while another operator is away. Numbers of two per prefix let a batch cross
it. Two requests from one chain and one from the other let a token go out, come
back and leave again. Three tokens are the least for the last
entry of an array to be swapped into the place of one that is not its neighbour. The
theorems of section 5 remove the bounds where they
apply.

The networks of `deployment` are chosen one per behaviour: a local chain, a
testnet and a mainnet deployed from nothing, by a deployer that keeps its
contracts or hands them over; and earlier releases that miss code, differ in
settings behind the multisig, miss the utility token while its reference waits,
are owned by the deployer alone, or meet one of the steps that no number of
runs gets past (`Blocked`). One hToken on two chains has one transaction per
setting and chain. One crash may come between any two actions; a second one finds
nothing the first does not leave, because a restarted process remembers nothing.
The local chain gets the mock endpoint, as the zero address its network names
(`11_layer_zero.ts:24`) is a string that is not empty. 120,664 states.

In `screening` four jobs in the first batch are more than the two in flight,
the fifth needs a second batch, halves of four reach the least size, and tripling
meets `BATCH_SIZE` again. In `countdown` the three intervals and dates beyond them
let purchases come early, in the middle of an interval and too late; four tokens
minted are one more than the supply. In `drop` 9 stands for 2^64 - 1; two calls of
two tokens fill the edition and run over the limit of an address; the convex
oracle makes the fee for two tokens dearer than twice the fee for one. A quantity
of 0, which the drop accepts, changes nothing but the coins whose refund is
refused, and is left out.

Deadlock is not checked in most runs: the chain may stop receiving transactions in
any state, scripts end, and bounded counters make instances end. In `countdown` and
`drop` it is: a withdrawal is always possible.

Fairness (`FairSpec`). Time passes and gas spikes end. Of the accounts other than
the selected operator one executes a job that it is again and again allowed to
execute, because the reward for it (or, for a job with nobody selected, the
bridge fee) is there for the taking; the fairness is strong because gas spikes
may come and go. Nothing is assumed of the selected operator, and nothing of the
admin who recovers failed jobs. So `JobsFinish` rests on the contract letting
somebody else in, which is what it says. In `deployment` scripts run on,
transactions with the next free nonce are mined, signers sign what is printed and
the command is repeated until it has nothing to say: that is how the scripts are
meant to be used. In `screening` the event loop runs on and a query is answered,
by the node or by the provider giving up on it. The sales have no liveness: nobody
has to buy.

## 5. What is proved

`HolographOperatorProofs` proves for any number of accounts, pods, jobs, any
amounts and any bounds that satisfy the module's assumptions:
`TypeCorrect`, `PodsStayIndexed`, `SelectionIsExclusive`,
`BondStaysLiveAndSufficient`, `PayloadsAreAppliedAtMostOnce`,
`ContractStaysSolvent`, `BondsStayPayable` (no unbonding finds too little HLG in
the contract), as properties of every step `OnlyLateOperatorsPay` and
`FallbacksGetTheirReward`, and `OperatorImplementsStaking` and
`JobsAlwaysFindExecutors`.

The inductive invariant is

    IInv == TypeOK /\ PodsBounded /\ ZeroIsMarked /\ PodsIndexed
              /\ SelectedForOneJob /\ BondIsLiveAndSufficient

None of the parts is inductive alone. A bond stays sufficient through a slash
only because the slashed account is in no pod and on no other job
(`SelectedForOneJob`); an operator pushed back is not in its pod twice for the
same reason; `_popOperator` keeps the indices right only when they were right
(`PodsIndexed`); a type-correct slash (no negative bond) needs
`BondIsLiveAndSufficient`; `ZeroIsMarked` keeps the zero address out of the pods'
other positions, and `PodsBounded` bounds the pods that are opened by those
anybody bonds to. The lemmas `PushKeepsPods` and `PopKeepsPods` are about
the arrays alone; `SlashEffects` is the case distinction of `executeJob`;
one lemma per action combines them.
`AppliedAtMostOnce` is inductive beside `TypeOK` and proved on its own.

`ContractStaysSolvent` compares the contract's HLG with the sum of the bonds: no
operation takes more out than it takes off a bond, and none adds more to a bond than
it brings in (`SumChange` of `SumTheorems`). It is an inequality: a plain transfer adds
HLG that is nobody's bond, and so does unbonding to the contract. `FallbacksGetTheirReward` rests on `PodsIndexed`: the
account at the index drawn for the slot is the one `executeJob` accepts, and it is
bonded. The refinement is proved action by action under

    RInv == IInv /\ AppliedAtMostOnce /\ TimesClosed

with one lemma for what each action does to the place of an account, the bonds and
the status of a job; every step is a step of `OperatorStaking` or none of its
variables moves. `TimesClosed` (a job that is not open has no time counted) keeps
a job from being late before it exists.

`JobsAlwaysFindExecutors` is the safety part of `JobsFinish`: while gas is at the
price of an open job, there is an account other than the selected operator that
`executeJob` accepts from the slot after the operator's on, unless the pod has
nobody left but the zero address, and every account is accepted after the last slot.
An index drawn for a fallback may have become stale, which opens the job to the pod;
and no `require` behind the slash of the late operator fails, because its bond
covers the base amount (`BondIsLiveAndSufficient`) and the contract holds what it
pays out (`BondsArePayable`, from `Solvent`). What stays with TLC is the fairness,
that the accounts act.

`SumTheorems` has what these proofs and the bridge's say of sums. The sum of a
function over a finite set is a fold; a fact about folds by induction is out of
reach here, so the sum is shown to be the number of the function's units, the
pairs of an argument and a number below its value (`SumIsCount`), and `SumType`,
`SumRemove`, `SumAdd`, `SumChange`, `SumOfZeros` and `SumAtLeast` follow
from the cardinality of sets.

`HolographBridgeProofs` proves for any number of chains, accounts, ids and
requests `TypeCorrect`, `TokensInOnePlace`, `CoinsAreBacked`,
`BridgeTeleports` and `PayloadsStayDeliverable`. What a step does is told once, to
the pending payloads, to a token and to the coins of a chain; the invariants and the
refinement both use it.

- `PInv`: the nonces of a chain's payloads are used ones, one payload has one nonce
  and is in one stage on one chain, and finitely many are pending. So moving a
  payload on is not the same as copying it.
- `TInv` says of every token what `TokenInOnePlace` says, and that a chain that
  minted a token still has it or its burned mark (`MarkedAtHome`). That is what
  refuses to mint it again while it is away: the bridge burns what it sends.
- `CInv` is `CoinsBacked` with `PInv`, and inductive because a request takes from the
  balances what the payload carries and a delivery or recovery gives it back.

- `PayloadsStayDeliverable` follows from `TInv`: since a token on the wire is nowhere
  else, no `bridgeIn` of a pending payload meets a token that exists, on its first
  delivery or when it is recovered. It excepts payloads for the zero address, whose
  coins cannot land (run `bridge_zero_recipient`, section 6).

`TokensInOnePlace`, `BridgeTeleports` and `PayloadsStayDeliverable` have the hypothesis `PrefixesApart`: no id
can be minted by two chains. The code does not ensure it (run `bridge_prefixes`,
section 6), but two theorems say when it holds whatever the chain ids are:
`FittingBatchesKeepPrefixesApart`, when no batch runs over the last number of a
prefix, and `DistantPrefixesAreApart`, when no two chains have consecutive prefixes.
`TypeCorrect` and `CoinsAreBacked` need neither. Assumptions: `ChainAssumption`,
`FinitenessAssumption`, `TokenAssumption` and `BoundAssumption`, the kinds of the
constants.

`HolographERC721Proofs` proves for any accounts, ids and batches `TypeCorrect`,
`AllTokensStayEnumerated`, `OwnedTokensStayEnumerated`, `BurnedTokensStayUnowned`,
`TokensStayCounted`, for every step `ApprovalsEnd`, and
`CollectionImplementsLedger`, from

    IInv == TypeOK /\ AllTokensEnumerated /\ OwnedTokensEnumerated
              /\ BurnedTokensHaveNoOwner /\ ApprovedTokensExist

`ListsSwapPop` and `ListsAppend` say of one array and its map of indices that
removing a token leaves exactly the others and that adding tokens adds exactly
those; `RemoveAgrees` and `AddAgrees` lift them to all enumerations and
`MintEffects`, `BurnTokenKeepsIInv` and `MoveTokenKeepsIInv` to the contract.
The part of `OwnedTokensEnumerated` about the zero address is what lets
`SourceBurn` and `SourceTransfer` do without a check that the token exists
(`RemovableIsOwned`), and a mint gives out no old approval only because
`ApprovedTokensExist`.

The refinement is proved action by action. `HoldingsRead` says that in a state of
`IInv` the sets read off the arrays are the tokens of each owner, so what a call does
to the owners is what it does to the holdings; a batch adds to the count of its
receiver the cardinality of its ids, which is its length because ids of a batch are
distinct. `TokensStayCounted` counts an array without repetitions: balances and
the supply are the cardinalities of the sets of tokens.

`DeploymentProofs` proves for every plan, every chain the first command finds,
any number of crashes, restarts and pending transactions: `TypeCorrect`,
`DeployerNeverHangs` (no transaction of the deployer above the next free nonce; a
command can wait for ever only behind the mock endpoint), `DoneIsDesired` (a
command that ends silently leaves what its plan wants), `TransfersAreSentOnce`,
`SettingsFollowCode`, `TypesStayRegisteredWithCode`, `GivesUpOnlyFor` and
`NothingStaysWithTheDeployer`. The
inductive invariant of the first three is

    Inv == TypeOK /\ Counted /\ Planned /\ Unowned /\ FreshBranch /\ Passed

`Counted` bounds the counter by the pending transactions, by one more between
drawing a nonce and using it: that is why an instruction that is only printed has
to give its nonce back. `Passed` says of every step behind the command that it is
achieved, unless an instruction was printed; it survives the steps of others
because `Planned` makes what is pending or printed a step of the same plan,
`PlanAdmins` gives a contract one admin in it and `Unowned` keeps a contract
from having one before it exists. `FreshBranch` is about the settings only the
branch of existing code compares: when the code was missing, the deployment
wrote them (`PlanBranches`). `NothingStaysWithTheDeployer` follows from it for plans
with the hypothesis `HandsAllOver`.

`TransfersAreSentOnce` adds

    FundInv == Alone /\ OnlyCallsPrinted /\ CodePassed /\ FundsPending /\ FreshUnfunded

Whoever crashed may have left a transfer pending that the next process does not see in
the balance. It is not sent again, because a process that starts behind pending
transactions draws a nonce that is taken, and the node refuses it: what is
accepted was prepared with nothing pending and is the only one (`Alone`).
`OnlyCallsPrinted` and `CodePassed` say that nothing printed deploys or funds, and
that code checked by a script stays; `FreshUnfunded` that a contract
just found missing has nothing yet.

`GivesUpOnlyFor` adds

    ActInv == Alone /\ OnlyCallsPrinted /\ CodePassed
                /\ SignersExist /\ Owned /\ SetBehind /\ Undisturbed

`Owned` says that the deployer, Holograph or a multisig with Holograph in its hands
owns each contract, in every order in which an interrupted hand-over can leave
them, so somebody can act (`SomebodyActs`); `Undisturbed` that a process not
following another one's transactions waits only for what was estimated on the
chain as it is; `SetBehind` that what a call needs was set by then.

`SettingsFollowCode` says of any plan that a setting s never refers to the missing
contract x, if s follows x in the plan and at the start (`Follows`).
`TypesStayRegisteredWithCode` is `RegisteredHasCode` for all plans and networks with
the hypothesis `RegistersAfterDeploying`: each template but hToken is registered
behind its deployment.

Its assumptions `PlanType`, `StartType`, `NamesType`, `UnreadType` and `BoundsType`
are the kinds of the constants. The others say what the proofs need of the scripts
and of the networks they find, and TLC evaluates them for the eleven networks:
`PlanBranches`, `PlanAdmins`, `PlanFunds` (a transfer for a new contract follows its
code check and is the only one) and `PlanOrder` (contracts are deployed before
they are called and handed over, what a call needs is set before), `PlanMocks` (a
mock comes behind genesis on a chain that lives in the process); `StartAdmins`,
`StartFunds`, `StartOrder` and `LocalNetworks`. `HandsAllOver`, `Follows` and
`RegistersAfterDeploying` are hypotheses and not assumptions, because they are what could be wrong with the
scripts; the run checks their consequences `NothingLeftToTheDeployer` and
`RegisteredHasCode`. They hold for the eleven plans, `Follows` for every template
but hToken, which is the one the property excepts.

`JobScreeningProofs` proves for lists, levels, batches and rates of any size:
`TypeCorrect`, `ExistingJobsStayWritten`, `JobsStayWrittenOnce`,
`QueriesStayBounded` and `EveryStepLeavesLessToDo`, from

    Inv == TypeOK /\ Positioned /\ Raced /\ Answered /\ Collected /\ Recorded

`Raced` is the heart: the list of promises names each query without a result once
and nothing else, which is so only because the promise that won is the one that is
removed. `Positioned` keeps the batch inside the list, `Answered` and `Collected`
tie answers to batches, `Recorded` says that the output is final before the
batch and empty from there on, also when a range is tried again.

`EveryStepLeavesLessToDo` is the safety part of `Ends`: each step makes `ToDo` less
in a well-founded order (`ToDoIsWellFounded`). `ToDo` is compared like a word: the
jobs from the start of the batch on, the size of the batch (a retry halves it),
whether the batch has begun, the queries of the batch not sent, counted twice, with
the promises in the list, and the queries without an answer. `NeverStuck` adds that with all
queries answered a script in the middle of a batch can go on. What stays with TLC is
that steps are taken and answers come. Assumptions:
`SizesType` (in particular that a batch has at least one job) and `ScriptsType`.

`CountdownERC721Proofs` proves for all dates, supplies and intervals
`TypeCorrect`, `SoldWithinSupply`, `LastTokensAreSold` and `SalesStayCollected`,
from `TypeOK`, `SalesAreCollected` and `EndDateFollowsPurchases`: the end date is
the initial one less an interval for each token purchased. The lemma `PurchaseFits`
draws from it, with `WholeIntervals` on multiples of the interval, that a purchase
`canMintTokens` allows leaves a supply computed from the clock alone, rounded
down, at least as large as what is sold. Assumptions: `DatesType`, `AmountsType`.

`HolographDropERC721V2Proofs` proves for all sales configurations, roots, fees and
oracles `TypeCorrect`, `EditionsKeepTheirSize`, `FinalizedStays` and
`ProceedsStayCovered`, from the three invariants with `FinalSize` (a finalized
edition has the size 0 or exactly its tokens) and `Open` (an edition that is still
open was not finalized). The lemma `Settlement` is about `Settle` alone: whatever
the oracle asks, what leaves the drop is at most the fee and what exceeds the
price. Assumptions: `ConfigurationsType` (an open edition is larger than what is
ever minted), `AmountsType`.

Assumptions of `HolographERC721Proofs`: `AddressAssumption` and
`TokenAssumption`, the kinds of its constants.

Assumptions of `HolographOperatorProofs`: `AddressAssumption` (the zero address, the contract and the treasury
are not accounts and are different), `BoundAssumption` (the constants are
numbers of the right kind) and `BondAssumption` (the base amount of every pod is
positive and its threshold a number: the provers know nothing of powers). TLC
evaluates all of them in the runs.

Only model-checked: `JobsFinish`, `Settles`, `Ends` and the fairness the operator
promises (`ImplementsFairStaking`), because liveness and `ENABLED` are beyond TLAPS;
for `JobsFinish` and `Ends` it is said above which part is a theorem. Every invariant
and action property of the passing runs, and every refinement without fairness, is
one. The type invariants of `DeploymentRunner`, `CountdownERC721` and
`HolographERC721` are only proved, and so are the theorems about what no run names.

## 6. Where comments and code part

Three disagreements are runs that TLC finds violated (section 4). Others met while
modelling are part of the models as the code has them, without a run of their own:

- `11_layer_zero.ts:30` names the account `lzEndpoint` as the sender of the mock
  endpoint, and `txParams` gives it a number of the counter of the deployer
  (`helpers.ts:572`): numbers are counted per network, not per account. If that
  account signs, its first transaction waits for ever, and so does the command;
  `NoNonceGap` is claimed for the deployer's own transactions. The address recorded
  "from a localhost deployment" (`test/foundry/utils/Constants.sol:10`, L141) is the
  one a transaction of the deployer with the next number creates, so there the
  deployer signed.
- `docs/IMPORTANT_FLOWS.md:60` says only users in a pod finalize jobs. `executeJob`
  accepts any sender for a job the zero address was drawn for (L264) and, after
  the sixth slot (L289), for every job.
- `test/14_holograph_operator_tests.ts:636` takes 65535 for the limit of a pod.
  Only `bondUtilityToken` compares (L838); `executeJob` pushes an operator back
  (L325, L342) into a pod that may have been filled in the meantime.
- `process-json-incomplete-jobs.ts:132` says "Remove the resolved promise" and
  removes the first one of the list. A query still running is then waited for by
  nobody: there may be more than `CONCURRENCY_LEVEL` of them, and an answer that
  comes after its batch was written is lost. `utils/concurrency.ts:57` removes the
  right one, and only for it are `ExistingJobsWritten` and `QueriesBounded` claimed.
- `CountdownERC721.sol:230` says the end date is decreased after each mint;
  `mintTo` (L497) leaves it, so `PurchasesWithinSupply` counts purchases only.
- `SalesConfiguration.sol:10` calls `maxSalePurchasePerAddress` a limit per
  address. The counter it is compared with (`HolographDropERC721V2.sol:419`) is
  never written: the limit binds a single purchase, and a buyer of the presale
  is refused purchases smaller than what was bought there.
- `finalizeOpenEdition` (L636) on an edition without tokens sets the size 0, which
  `canMintTokens` (L181) takes for no limit; `FinalizedEditionStays` excepts it.
- `HolographDropERC721V2.sol:442` says "Refund any overpayment". The remainder
  (L411) is what exceeds the price without the fee, so the fee goes back to the
  buyer and is paid by the drop; `test/foundry/HolographDropERC721.t.sol:367`
  expects that, and `ProceedsCovered` counts proceeds less the fee.

## 7. What is not modelled

`PROJECT.json` lists every component with its status. The operator's and the
bridge's admin setters replace addresses (and the minimum gas price), one assignment
each; the bond parameters have no setter, so they are constants. `jobEstimator` and
the dry runs of the bridge always revert. Fee and gas formulas of the bridge are
arithmetic on prices; here the fee is an input. Of the sale contracts metadata,
`multicall` and the setters of roles are left out.

Of the deployment: the records of hardhat-deploy (a saved record is reused though
code is missing, `helpers.ts:634`; those of a local chain are not saved, which is
why it is `Ephemeral`), the companion networks whose counters `99_multisig.ts:18`
resets, the difference between the HLG recipients `01_sources.ts:276` and
`21_hlg.ts:108` compute for `localhost`, the oracle code injected into a local node, tables of gas parameters, addresses and interface
hashes (one setting each), the gas service (disabled in
`hardhat.config.ts:154-161`) and the loop that asks it for a price
(`helpers.ts:516`), hardware wallets, verification and tracing. A second command
against a running local node would send genesis with nonce 0 again and be
refused; `start-protocol.sh` starts fresh nodes.

Of the screening scripts: files and their formats, `withRetries`, which they do not
use, and a growth rate so small that a batch does not grow. The operational scripts
send a fixed list of transactions each.

Not modelled yet are stages 7 to 10 of the plan. Hazards of those parts
are in `PROJECT.json` with the note that no property covers them, or are these: the
division of a balance among royalties' recipients loses remainders; the faucet's
cooldown and its second transfer after `setToken`; registering a contract
again; a factory signature submitted on several chains
(`HolographFactory.sol:222`); a blocked payload of the endpoint
(`LZEndpointMock.sol:226`); the 32 bit slot counter, the 8 bits of a pod's
number and the gas limit of a job; withdrawals of the countdown that keep no
account of refunds (`CountdownERC721.sol:449`).
