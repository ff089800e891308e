-------------------------- MODULE HolographBridge --------------------------
(***************************************************************************)
(* Assets on several chains: one collection of HolographERC721 tokens and  *)
(* the hToken of every chain (a HolographERC20 backed by the chain's       *)
(* native coin), moved between the chains by HolographBridge, the sending  *)
(* side of HolographOperator, LayerZeroModule and the jobs of the receiving*)
(* operator.  Who executes a job and when is the business of the module    *)
(* HolographOperator; here an open job may be executed by anybody.         *)
(*                                                                         *)
(* A bridge request burns on the source chain and sends a payload; the job *)
(* of the payload mints on the destination chain, or fails and stays there *)
(* until the admin recovers it.  Whoever may send a request for an owner   *)
(* (an approved account) has the effect of the owner, so senders are left  *)
(* out.                                                                    *)
(***************************************************************************)
EXTENDS Integers, FiniteSets, Functions

CONSTANTS
  Chains,       \* Holograph chain ids
  Origin,       \* getOriginChain() of the collection
  Accounts,
  Zero,         \* address(0)
  KnownOperators, \* the accounts extractNativeToken serves
  Width,        \* token numbers per chain prefix, 2^224
  Numbers,      \* bound: the numbers sourceMint is called with
  Batches,      \* bound: <<start, length>> of sourceMintBatchIncremental
  Fees,         \* bound: the HLG fees getHlgFee returns
  Amounts,      \* bound: the amounts of hTokens moved at a time
  MaxNonce,     \* bound: requests sent from each chain
  MaxNative     \* bound: native coin deposited for hTokens on a chain

\* A token id is its upper 32 bits, the prefix, and the number below them.
Prefix(c) == IF c = Origin THEN 0 ELSE c

TokenId(c, n) == <<Prefix(c), n>>

\* The i-th id after id: the number carries into the prefix.
Plus(id, i) == <<id[1] + (id[2] + i) \div Width, (id[2] + i) % Width>>

Prefixes == {Prefix(c) : c \in Chains}
TokenIds == (Prefixes \union {p + 1 : p \in Prefixes}) \X (0 .. Width - 1)

ASSUME ChainAssumption ==
  /\ Chains \subseteq Nat \ {0} /\ Origin \in Chains
  /\ Zero \notin Accounts /\ KnownOperators \subseteq Accounts

\* Chain ids have 32 bits, and addresses 160.
ASSUME FinitenessAssumption == IsFiniteSet(Chains) /\ IsFiniteSet(Accounts)

ASSUME TokenAssumption ==
  /\ Width \in Nat \ {0} /\ Numbers \subseteq 0 .. Width - 1
  /\ Batches \subseteq (0 .. Width - 1) \X (1 .. Width)

ASSUME BoundAssumption ==
  /\ MaxNonce \in [Chains -> Nat] /\ MaxNative \in Nat
  /\ Fees \subseteq Nat /\ Amounts \subseteq Nat

VARIABLES
  deployed,      \* chains on which the collection is deployed and registered
  tokenOwner,    \* _tokenOwner on each chain
  burnedTokens,  \* _burnedTokens on each chain
  coins,         \* coins[h][c]: _balances on chain c of the hToken of chain h
  native,        \* native coin held by the hToken of each chain on that chain
  jobNonce,      \* job nonce of each chain's bridge
  wire,          \* payloads LayerZero is carrying to each chain
  openJobs,      \* _operatorJobsV2 of each chain
  failedJobs     \* _failedJobsV2 of each chain

tokenVars == <<tokenOwner, burnedTokens>>
sendVars  == <<native, jobNonce, wire>>
vars == <<deployed, tokenOwner, burnedTokens, coins, native, jobNonce, wire,
          openJobs, failedJobs>>

-----------------------------------------------------------------------------
(***************************************************************************)
(* What a payload carries, and the payloads.                               *)
(***************************************************************************)
TokenCargo(id, to)          == [kind |-> "token", id |-> id, to |-> to]
CoinCargo(h, to, amount)    == [kind |-> "coins", hToken |-> h, to |-> to,
                                amount |-> amount]
Collection                  == [kind |-> "collection"]

Cargos ==
  {TokenCargo(id, to) : id \in TokenIds, to \in Accounts}
    \union {CoinCargo(h, to, amount) : h \in Chains,
              to \in Accounts \union {Zero}, amount \in Amounts}
    \union {Collection}

\* The arguments of bridgeInRequest that tell payloads apart.
Payloads == [from : Chains, nonce : Nat, fee : Fees, cargo : Cargos]

Pending(c) == wire[c] \union openJobs[c] \union failedJobs[c]

Carries(p, id) == p.cargo.kind = "token" /\ p.cargo.id = id

Exists(c, id) == tokenOwner[c][id] # Zero

-----------------------------------------------------------------------------
Init ==
  /\ deployed = {}
  /\ tokenOwner = [c \in Chains |-> [id \in TokenIds |-> Zero]]
  /\ burnedTokens = [c \in Chains |-> [id \in TokenIds |-> FALSE]]
  /\ coins = [h \in Chains |-> [c \in Chains |-> [a \in Accounts |-> 0]]]
  /\ native = [h \in Chains |-> 0]
  /\ jobNonce = [c \in Chains |-> 0]
  /\ wire = [c \in Chains |-> {}]
  /\ openJobs = [c \in Chains |-> {}]
  /\ failedJobs = [c \in Chains |-> {}]

(***************************************************************************)
(* One chain: deploying, minting, burning, hTokens for native coin.        *)
(***************************************************************************)
DeployHolographableContract(c) ==
  /\ c \notin deployed
  /\ deployed' = deployed \union {c}
  /\ UNCHANGED <<tokenVars, coins, sendVars, openJobs, failedJobs>>

\* _mint's checks on a new id.
Mintable(c, id) == id # <<0, 0>> /\ ~Exists(c, id) /\ ~burnedTokens[c][id]

MintAll(c, ids, to) ==
  /\ c \in deployed
  /\ \A id \in ids : Mintable(c, id)
  /\ tokenOwner' = [tokenOwner EXCEPT ![c] =
                      [id \in TokenIds |-> IF id \in ids THEN to ELSE @[id]]]
  /\ UNCHANGED <<deployed, burnedTokens, coins, sendVars, openJobs, failedJobs>>

SourceMint(c, to, n) == MintAll(c, {TokenId(c, n)}, to)

SourceMintBatchIncremental(c, to, start, length) ==
  MintAll(c, {Plus(TokenId(c, start), i) : i \in 0 .. length - 1}, to)

\* Faulty: a burned token is not marked.
BurnUnmarked(c, id) ==
  /\ tokenOwner' = [tokenOwner EXCEPT ![c][id] = Zero]
  /\ UNCHANGED burnedTokens

\* _burn
BurnToken(c, id) ==
  /\ tokenOwner' = [tokenOwner EXCEPT ![c][id] = Zero]
  /\ burnedTokens' = [burnedTokens EXCEPT ![c][id] = TRUE]

Burn(c, id) ==
  /\ Exists(c, id)
  /\ BurnToken(c, id)
  /\ UNCHANGED <<deployed, coins, sendVars, openJobs, failedJobs>>

\* _mint and _burn of a HolographERC20, on its balances.
MintCoins(balances, h, c, to, amount) ==
  [balances EXCEPT ![h][c][to] = @ + amount]

BurnCoins(balances, h, c, from, amount) ==
  [balances EXCEPT ![h][c][from] = @ - amount]

\* holographNativeToken of the hToken of chain h, on chain h.
HolographNativeToken(h, recipient, amount) ==
  /\ amount > 0 /\ native[h] + amount <= MaxNative
  /\ native' = [native EXCEPT ![h] = @ + amount]
  /\ coins' = MintCoins(coins, h, h, recipient, amount)
  /\ UNCHANGED <<deployed, tokenVars, jobNonce, wire, openJobs, failedJobs>>

\* Faulty: the balance of the sender is not asked for.
ExtractUnchecked(h, sender, amount) ==
  /\ sender \in KnownOperators /\ amount <= native[h]
  /\ coins' = BurnCoins(coins, h, h, sender, amount)
  /\ native' = [native EXCEPT ![h] = @ - amount]
  /\ UNCHANGED <<deployed, tokenVars, jobNonce, wire, openJobs, failedJobs>>

\* extractNativeToken, for the fee of 0 that hTokens are deployed with.
ExtractNativeToken(h, sender, amount) ==
  /\ sender \in KnownOperators
  /\ amount <= coins[h][h][sender] /\ amount <= native[h]
  /\ coins' = BurnCoins(coins, h, h, sender, amount)
  /\ native' = [native EXCEPT ![h] = @ - amount]
  /\ UNCHANGED <<deployed, tokenVars, jobNonce, wire, openJobs, failedJobs>>

-----------------------------------------------------------------------------
(***************************************************************************)
(* Bridging out: bridgeOutRequest, the asset's bridgeOut, the operator's   *)
(* send, which pays the fee to the chain's hToken, and LayerZeroModule.send.*)
(* LayerZero carries payloads to other chains only.                        *)
(***************************************************************************)
Payload(c, fee, cargo) ==
  [from |-> c, nonce |-> jobNonce[c] + 1, fee |-> fee, cargo |-> cargo]

\* Faulty: the fee stays with the operator contract.
SendKeepingFee(c, d, fee, cargo) ==
  /\ c # d /\ jobNonce[c] < MaxNonce[c]
  /\ jobNonce' = [jobNonce EXCEPT ![c] = @ + 1]
  /\ wire' = [wire EXCEPT ![d] = @ \union {Payload(c, fee, cargo)}]
  /\ UNCHANGED native

Send(c, d, fee, cargo) ==
  /\ c # d /\ jobNonce[c] < MaxNonce[c]
  /\ jobNonce' = [jobNonce EXCEPT ![c] = @ + 1]
  /\ native' = [native EXCEPT ![c] = @ + fee]
  /\ wire' = [wire EXCEPT ![d] = @ \union {Payload(c, fee, cargo)}]

\* Faulty: the token stays with its owner.
BridgeOutUnburned(c, d, fee, id, to) ==
  /\ c \in deployed /\ Exists(c, id)
  /\ Send(c, d, fee, TokenCargo(id, to))
  /\ UNCHANGED <<deployed, tokenVars, coins, openJobs, failedJobs>>

BridgeOutToken(c, d, fee, id, to) ==
  /\ c \in deployed /\ Exists(c, id)
  /\ BurnToken(c, id)
  /\ Send(c, d, fee, TokenCargo(id, to))
  /\ UNCHANGED <<deployed, coins, openJobs, failedJobs>>

\* The recipient of an ERC20 is not checked here, unlike that of an ERC721.
BridgeOutCoins(c, d, fee, h, from, to, amount) ==
  /\ amount <= coins[h][c][from]
  /\ coins' = BurnCoins(coins, h, c, from, amount)
  /\ Send(c, d, fee, CoinCargo(h, to, amount))
  /\ UNCHANGED <<deployed, tokenVars, openJobs, failedJobs>>

\* The factory bridges a signed deployment configuration as it is.
BridgeOutCollection(c, d, fee) ==
  /\ Send(c, d, fee, Collection)
  /\ UNCHANGED <<deployed, tokenVars, coins, openJobs, failedJobs>>

(***************************************************************************)
(* Bridging in: lzReceive and crossChainMessage open a job; executing it   *)
(* calls bridgeInRequest and catches its revert; recoverJob calls it again.*)
(***************************************************************************)
LzReceive(d, p) ==
  /\ p \in wire[d]
  /\ wire' = [wire EXCEPT ![d] = @ \ {p}]
  /\ openJobs' = [openJobs EXCEPT ![d] = @ \union {p}]
  /\ UNCHANGED <<deployed, tokenVars, coins, native, jobNonce, failedJobs>>

\* bridgeInRequest would not revert for want of anything but gas.
CanBridgeIn(d, cargo) ==
  CASE cargo.kind = "token"      -> d \in deployed /\ ~Exists(d, cargo.id)
    [] cargo.kind = "coins"      -> cargo.to # Zero
    [] cargo.kind = "collection" -> d \notin deployed

\* bridgeInRequest and the bridgeIn it calls; the fee is minted to hTokenRecipient.
BridgeInRequest(d, p, hTokenRecipient) ==
  LET cargo     == p.cargo
      received  == IF cargo.kind = "coins"
                     THEN MintCoins(coins, cargo.hToken, d, cargo.to, cargo.amount)
                     ELSE coins
  IN  /\ CanBridgeIn(d, cargo)
      /\ coins' = IF hTokenRecipient # Zero
                    THEN MintCoins(received, p.from, d, hTokenRecipient, p.fee)
                    ELSE received
      /\ \/ /\ cargo.kind = "token"
            /\ tokenOwner' = [tokenOwner EXCEPT ![d][cargo.id] = cargo.to]
            /\ burnedTokens' = [burnedTokens EXCEPT ![d][cargo.id] = FALSE]
            /\ UNCHANGED deployed
         \/ /\ cargo.kind = "collection"
            /\ deployed' = deployed \union {d}
            /\ UNCHANGED tokenVars
         \/ /\ cargo.kind = "coins"
            /\ UNCHANGED <<deployed, tokenVars>>

ExecuteJob(d, p, executor) ==
  /\ p \in openJobs[d]
  /\ openJobs' = [openJobs EXCEPT ![d] = @ \ {p}]
  /\ BridgeInRequest(d, p, executor)
  /\ UNCHANGED <<sendVars, failedJobs>>

\* Faulty: the payload of a job that failed is not kept.
ForgetFailedJob(d, p) ==
  /\ p \in openJobs[d]
  /\ openJobs' = [openJobs EXCEPT ![d] = @ \ {p}]
  /\ UNCHANGED <<deployed, tokenVars, coins, sendVars, failedJobs>>

\* The bridge call reverts: it cannot be done, or runs out of the job's gas.
FailJob(d, p) ==
  /\ p \in openJobs[d]
  /\ openJobs' = [openJobs EXCEPT ![d] = @ \ {p}]
  /\ failedJobs' = [failedJobs EXCEPT ![d] = @ \union {p}]
  /\ UNCHANGED <<deployed, tokenVars, coins, sendVars>>

\* The admin calls the bridge with the payload as it was sent, in which the
\* recipient of the fee is the zero address.
RecoverJob(d, p) ==
  /\ p \in failedJobs[d]
  /\ failedJobs' = [failedJobs EXCEPT ![d] = @ \ {p}]
  /\ BridgeInRequest(d, p, Zero)
  /\ UNCHANGED <<sendVars, openJobs>>

-----------------------------------------------------------------------------
OnOneChain ==
  \E c \in Chains :
    \/ DeployHolographableContract(c)
    \/ \E to \in Accounts :
         \/ \E n \in Numbers : SourceMint(c, to, n)
         \/ \E batch \in Batches :
              SourceMintBatchIncremental(c, to, batch[1], batch[2])
    \/ \E id \in TokenIds : Burn(c, id)
    \/ \E a \in Accounts, amount \in Amounts :
         HolographNativeToken(c, a, amount) \/ ExtractNativeToken(c, a, amount)

BridgingOut ==
  \E c, d \in Chains, fee \in Fees :
    \/ \E id \in TokenIds, to \in Accounts : BridgeOutToken(c, d, fee, id, to)
    \/ \E h \in Chains, from \in Accounts, to \in Accounts \union {Zero},
          amount \in Amounts :
         BridgeOutCoins(c, d, fee, h, from, to, amount)
    \/ BridgeOutCollection(c, d, fee)

BridgingIn ==
  \E d \in Chains :
    \/ \E p \in wire[d] : LzReceive(d, p)
    \/ \E p \in openJobs[d] :
         FailJob(d, p) \/ \E executor \in Accounts : ExecuteJob(d, p, executor)
    \/ \E p \in failedJobs[d] : RecoverJob(d, p)

Next == OnOneChain \/ BridgingOut \/ BridgingIn

Spec == Init /\ [][Next]_vars

-----------------------------------------------------------------------------
(***************************************************************************)
(* Properties.                                                             *)
(***************************************************************************)
TypeOK ==
  /\ deployed \subseteq Chains
  /\ tokenOwner \in [Chains -> [TokenIds -> Accounts \union {Zero}]]
  /\ burnedTokens \in [Chains -> [TokenIds -> BOOLEAN]]
  /\ coins \in [Chains -> [Chains -> [Accounts -> Nat]]]
  /\ native \in [Chains -> Nat]
  /\ jobNonce \in [Chains -> Nat]
  /\ wire \in [Chains -> SUBSET Payloads]
  /\ openJobs \in [Chains -> SUBSET Payloads]
  /\ failedJobs \in [Chains -> SUBSET Payloads]

\* The chain prefix of an id keeps the mints of two chains apart.
NoOverlap ==
  \A id \in TokenIds, c, d \in Chains :
    Exists(c, id) /\ Exists(d, id) => c = d

\* A token is on one chain at most, or carried by one pending payload at most,
\* never both: whatever the order of mints, bridge requests, failures and
\* recoveries, no chain can mint what another one has.
TokenInOnePlace ==
  /\ NoOverlap
  /\ \A id \in TokenIds, c, d \in Chains :
       \A p \in Pending(c) : Carries(p, id) =>
            /\ ~Exists(d, id)
            /\ \A q \in Pending(d) : Carries(q, id) => c = d /\ p = q

\* The hTokens of chain h that a payload carries or will pay to its executor.
Owed(h, p) ==
  (IF p.from = h THEN p.fee ELSE 0)
    + (IF p.cargo.kind = "coins" /\ p.cargo.hToken = h
         THEN p.cargo.amount ELSE 0)

\* The hTokens of chain h on chain c, or pending there.
OnChain(h, c) ==
  SumFunction(coins[h][c]) + SumFunction([p \in Pending(c) |-> Owed(h, p)])

\* The hToken of chain h in circulation, on all chains.
Circulating(h) == SumFunction([c \in Chains |-> OnChain(h, c)])

\* Every hToken in circulation or on its way is backed: the hToken's chain holds
\* the native coin, also for the fees its bridge requests promised.
CoinsBacked == \A h \in Chains : Circulating(h) <= native[h]

\* A job that failed can be recovered once the collection is on its chain.
FailedJobsAreRecoverable ==
  \A d \in Chains : \A p \in failedJobs[d] :
    p.cargo.kind # "collection" /\ d \in deployed => CanBridgeIn(d, p.cargo)
=============================================================================
