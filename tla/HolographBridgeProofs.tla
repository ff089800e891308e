----------------------- MODULE HolographBridgeProofs -----------------------
(***************************************************************************)
(* Proofs about HolographBridge, for any number of chains, accounts, ids   *)
(* and requests: the types, that a token is in one place, that what is     *)
(* pending can land, that the hTokens in circulation are backed by native  *)
(* coin, and that the bridge implements AssetTeleport.                     *)
(*                                                                         *)
(* What a step does is told once, by lemmas on the pending payloads, on a  *)
(* token and on the coins in circulation; the invariants and the refinement*)
(* are both proved from these.                                             *)
(***************************************************************************)
EXTENDS BridgeRefinement, SumTheorems

\* The ids a chain can mint.
MintedBy(c) ==
  {TokenId(c, n) : n \in Numbers}
    \union UNION {{Plus(TokenId(c, b[1]), i) : i \in 0 .. b[2] - 1} : b \in Batches}

\* No id can be minted by two chains.
PrefixesApart ==
  \A c, d \in Chains : c # d => MintedBy(c) \cap MintedBy(d) = {}

(***************************************************************************)
(* Pending payloads.                                                       *)
(***************************************************************************)
\* The nonce of a pending payload has been used by its chain.
NoncesUsed == \A d \in Chains : \A p \in Pending(d) : p.nonce <= jobNonce[p.from]

\* A chain's nonce stands for one payload, on one chain...
OnePayload ==
  \A c, d \in Chains : \A p \in Pending(c), q \in Pending(d) :
    p.from = q.from /\ p.nonce = q.nonce => c = d /\ p = q

\* ... in one of the three stages.
OneStage ==
  \A d \in Chains : /\ wire[d] \cap openJobs[d] = {}
                    /\ wire[d] \cap failedJobs[d] = {}
                    /\ openJobs[d] \cap failedJobs[d] = {}

FinitelyPending == \A d \in Chains : IsFiniteSet(Pending(d))

PInv == TypeOK /\ NoncesUsed /\ OnePayload /\ OneStage /\ FinitelyPending

(***************************************************************************)
(* Tokens.                                                                 *)
(***************************************************************************)
\* Some chain knows the token, or a payload carries it.
Born(id) ==
  \E d \in Chains : \/ Exists(d, id) \/ burnedTokens[d][id]
                    \/ \E p \in Pending(d) : Carries(p, id)

\* A chain that minted a token has it, or its mark that it is burned.
MarkedAtHome(id) ==
  Born(id) =>
    \E h \in Chains : id \in MintedBy(h) /\ (Exists(h, id) \/ burnedTokens[h][id])

\* What TokenInOnePlace says of one token.
InOnePlace(id) ==
  /\ \A c, d \in Chains : Exists(c, id) /\ Exists(d, id) => c = d
  /\ \A c, d \in Chains : \A p \in Pending(c) : Carries(p, id) =>
       /\ ~Exists(d, id)
       /\ \A q \in Pending(d) : Carries(q, id) => c = d /\ p = q

TInv == PInv /\ \A id \in TokenIds : InOnePlace(id) /\ MarkedAtHome(id)
CInv == PInv /\ CoinsBacked

-----------------------------------------------------------------------------
(***************************************************************************)
(* Ids.                                                                    *)
(***************************************************************************)
LEMMA PrefixType ==
  ASSUME NEW c \in Chains
  PROVE  /\ Prefix(c) \in Nat /\ c \in Nat \ {0}
         /\ Prefix(c) \in Prefixes
  BY ChainAssumption DEF Prefix, Prefixes

\* At most one carries into the prefix.
LEMMA CarryOver ==
  ASSUME NEW k \in Nat, k < 2 * Width
  PROVE  k \div Width \in {0, 1} /\ k % Width \in 0 .. Width - 1
<1>1. Width \in Nat \ {0}
  BY TokenAssumption
<1>2. CASE k < Width
  BY <1>1, <1>2
<1>3. CASE k >= Width
  BY <1>1, <1>3
<1> QED
  BY <1>1, <1>2, <1>3

\* What a chain mints is a token id, and the chain is among its homes.
LEMMA MintedIds ==
  ASSUME NEW c \in Chains
  PROVE  \A id \in MintedBy(c) : id \in TokenIds /\ c \in Home(id)
<1> TAKE id \in MintedBy(c)
<1>1. CASE \E n \in Numbers : id = TokenId(c, n)
  <2>1. PICK n \in 0 .. Width - 1 : id = <<Prefix(c), n>>
    BY <1>1, TokenAssumption DEF TokenId
  <2>2. id[1] = Prefix(c) /\ id[1] - Prefix(c) = 0
    BY <2>1, PrefixType
  <2> QED
    BY <2>1, <2>2, PrefixType DEF TokenIds, Home
<1>2. CASE \E b \in Batches : \E i \in 0 .. b[2] - 1 :
              id = Plus(TokenId(c, b[1]), i)
  <2>1. PICK b \in Batches : \E i \in 0 .. b[2] - 1 :
              id = Plus(TokenId(c, b[1]), i)
    BY <1>2
  <2>2. PICK i \in 0 .. b[2] - 1 : id = Plus(TokenId(c, b[1]), i)
    BY <2>1
  <2>3. Width \in Nat \ {0} /\ b[1] \in 0 .. Width - 1 /\ b[2] \in 1 .. Width
    BY TokenAssumption
  <2>4. b[1] + i \in Nat /\ b[1] + i < 2 * Width
    BY <2>3
  <2>5. /\ (b[1] + i) \div Width \in {0, 1}
        /\ (b[1] + i) % Width \in 0 .. Width - 1
    BY <2>4, CarryOver
  <2> DEFINE carry == (b[1] + i) \div Width
             rest == (b[1] + i) % Width
  <2>6. id = <<Prefix(c) + carry, rest>>
    BY <2>2 DEF Plus, TokenId
  <2> HIDE DEF carry, rest
  <2>7. carry \in {0, 1} /\ rest \in 0 .. Width - 1
    BY <2>5 DEF carry, rest
  <2>8. Prefix(c) + carry \in Prefixes \union {p + 1 : p \in Prefixes}
    BY <2>7, PrefixType
  <2>9. id[1] - Prefix(c) \in {0, 1}
    BY <2>6, <2>7, PrefixType
  <2> QED
    BY <2>6, <2>7, <2>8, <2>9 DEF TokenIds, Home
<1> QED
  BY <1>1, <1>2 DEF MintedBy

-----------------------------------------------------------------------------
(***************************************************************************)
(* When the prefixes keep the ids of two chains apart.                     *)
(***************************************************************************)
\* Prefixes tell the chains apart.
LEMMA PrefixInjective ==
  ASSUME NEW c \in Chains, NEW d \in Chains, Prefix(c) = Prefix(d)
  PROVE  c = d
  BY PrefixType DEF Prefix

\* When no batch runs over the last number of a prefix, the id prefix of
\* sourceMint and sourceMintBatchIncremental does what its comment says: two
\* chains mint no id in common, whatever the chain ids are.
THEOREM FittingBatchesKeepPrefixesApart ==
  ASSUME \A b \in Batches : b[1] + b[2] <= Width
  PROVE  PrefixesApart
<1>1. ASSUME NEW c \in Chains, NEW id \in MintedBy(c) PROVE id[1] = Prefix(c)
  <2>1. CASE \E n \in Numbers : id = TokenId(c, n)
    BY <2>1 DEF TokenId
  <2>2. CASE \E b \in Batches : \E i \in 0 .. b[2] - 1 :
                id = Plus(TokenId(c, b[1]), i)
    <3>1. PICK b \in Batches : \E i \in 0 .. b[2] - 1 :
                id = Plus(TokenId(c, b[1]), i)
      BY <2>2
    <3>2. PICK i \in 0 .. b[2] - 1 : id = Plus(TokenId(c, b[1]), i)
      BY <3>1
    <3>3. Width \in Nat \ {0} /\ b[1] \in 0 .. Width - 1 /\ b[2] \in 1 .. Width
      BY TokenAssumption
    <3>4. b[1] + i \in 0 .. Width - 1
      BY <3>3
    <3>5. (b[1] + i) \div Width = 0
      BY <3>3, <3>4
    <3>6. id[1] = Prefix(c) + (b[1] + i) \div Width
      BY <3>2 DEF Plus, TokenId
    <3> QED
      BY <3>5, <3>6, PrefixType
  <2> QED
    BY <2>1, <2>2 DEF MintedBy
<1> QED
  BY <1>1, PrefixInjective DEF PrefixesApart

\* Even when batches run over it, no id is minted twice as long as no two chains
\* have consecutive prefixes: the carry ends in a prefix that no chain has.
THEOREM DistantPrefixesAreApart ==
  ASSUME \A c, d \in Chains : Prefix(c) # Prefix(d) + 1
  PROVE  PrefixesApart
<1> SUFFICES ASSUME NEW c \in Chains, NEW d \in Chains,
                    NEW id \in MintedBy(c), id \in MintedBy(d)
             PROVE  c = d
  BY DEF PrefixesApart
<1>1. c \in Home(id) /\ d \in Home(id) /\ id \in TokenIds
  BY MintedIds
<1>2. id[1] - Prefix(c) \in {0, 1} /\ id[1] - Prefix(d) \in {0, 1}
  BY <1>1 DEF Home
<1>3. Prefix(c) \in Nat /\ Prefix(d) \in Nat /\ id[1] \in Nat
  BY <1>1, PrefixType DEF TokenIds, Prefixes
<1>4. \/ Prefix(c) = Prefix(d) \/ Prefix(c) = Prefix(d) + 1
      \/ Prefix(d) = Prefix(c) + 1
  BY <1>2, <1>3
<1> QED
  BY <1>4, PrefixInjective

-----------------------------------------------------------------------------
(***************************************************************************)
(* Types.                                                                  *)
(***************************************************************************)
\* The balances of all hTokens on all chains.
Balances == [Chains -> [Chains -> [Accounts -> Nat]]]

\* A mint adds to one balance.
LEMMA MintCoinsEffect ==
  ASSUME NEW b \in Balances, NEW h \in Chains, NEW c \in Chains,
         NEW to \in Accounts, NEW amount \in Nat
  PROVE  /\ MintCoins(b, h, c, to, amount) \in Balances
         /\ \A g, e \in Chains : g # h \/ e # c =>
              MintCoins(b, h, c, to, amount)[g][e] = b[g][e]
         /\ \A a \in Accounts : MintCoins(b, h, c, to, amount)[h][c][a]
              = IF a = to THEN b[h][c][a] + amount ELSE b[h][c][a]
  BY DEF Balances, MintCoins

\* A burn that is covered takes from one balance.
LEMMA BurnCoinsEffect ==
  ASSUME NEW b \in Balances, NEW h \in Chains, NEW c \in Chains,
         NEW from \in Accounts, NEW amount \in Nat, amount <= b[h][c][from]
  PROVE  /\ BurnCoins(b, h, c, from, amount) \in Balances
         /\ \A g, e \in Chains : g # h \/ e # c =>
              BurnCoins(b, h, c, from, amount)[g][e] = b[g][e]
         /\ \A a \in Accounts : BurnCoins(b, h, c, from, amount)[h][c][a]
              = IF a = from THEN b[h][c][a] - amount ELSE b[h][c][a]
  BY DEF Balances, BurnCoins

\* The fields a cargo has, by its kind.
LEMMA CargoTypes ==
  ASSUME NEW cargo \in Cargos
  PROVE  /\ cargo.kind \in {"token", "coins", "collection"}
         /\ cargo.kind = "token" =>
              /\ cargo.id \in TokenIds /\ cargo.to \in Accounts
              /\ cargo = TokenCargo(cargo.id, cargo.to)
         /\ cargo.kind = "coins" =>
              /\ cargo.hToken \in Chains /\ cargo.to \in Accounts \union {Zero}
              /\ cargo.amount \in Amounts /\ cargo.amount \in Nat
<1>1. CASE cargo \in {TokenCargo(id, to) : id \in TokenIds, to \in Accounts}
  BY <1>1 DEF TokenCargo
<1>2. CASE cargo \in {CoinCargo(h, to, amount) : h \in Chains,
                         to \in Accounts \union {Zero}, amount \in Amounts}
  BY <1>2, BoundAssumption DEF CoinCargo
<1>3. CASE cargo = Collection
  BY <1>3 DEF Collection
<1> QED
  BY <1>1, <1>2, <1>3 DEF Cargos

\* The fields of a payload.
LEMMA PayloadTypes ==
  ASSUME NEW p \in Payloads
  PROVE  /\ p.from \in Chains /\ p.nonce \in Nat /\ p.cargo \in Cargos
         /\ p.fee \in Fees /\ p.fee \in Nat
  BY BoundAssumption DEF Payloads

\* What is pending was built by a request.
LEMMA PendingTypes ==
  ASSUME TypeOK, NEW d \in Chains
  PROVE  Pending(d) \subseteq Payloads
  BY DEF TypeOK, Pending

\* What is left alone by the steps that send and receive nothing.
LEMMA OnOneChainTypes ==
  ASSUME TypeOK, UNCHANGED <<jobNonce, wire, openJobs, failedJobs>>,
         deployed' \subseteq Chains,
         tokenOwner' \in [Chains -> [TokenIds -> Accounts \union {Zero}]],
         burnedTokens' \in [Chains -> [TokenIds -> BOOLEAN]],
         coins' \in Balances, native' \in [Chains -> Nat]
  PROVE  TypeOK'
  BY DEF TypeOK, Balances

\* Deploying the collection keeps the types.
LEMMA DeployTypes ==
  ASSUME TypeOK, NEW c \in Chains, DeployHolographableContract(c)
  PROVE  TypeOK'
<1>1. UNCHANGED <<tokenVars, coins, sendVars, openJobs, failedJobs>>
      /\ deployed' \subseteq Chains
  BY DEF DeployHolographableContract, TypeOK
<1> QED
  BY <1>1, OnOneChainTypes DEF TypeOK, Balances, tokenVars, sendVars

\* Minting touches the minted ids of its chain, and keeps the types.
LEMMA MintAllTypes ==
  ASSUME TypeOK, NEW c \in Chains, NEW ids, NEW to \in Accounts, MintAll(c, ids, to)
  PROVE  /\ TypeOK'
         /\ \A id \in TokenIds : tokenOwner'[c][id]
              = IF id \in ids THEN to ELSE tokenOwner[c][id]
         /\ \A d \in Chains : d # c => tokenOwner'[d] = tokenOwner[d]
<1> DEFINE minted == [id \in TokenIds |->
                        IF id \in ids THEN to ELSE tokenOwner[c][id]]
<1>1. tokenOwner' = [tokenOwner EXCEPT ![c] = minted]
  BY DEF MintAll
<1>2. minted \in [TokenIds -> Accounts \union {Zero}]
  BY DEF TypeOK
<1> HIDE DEF minted
<1>3. tokenOwner'[c] = minted /\ \A d \in Chains : d # c => tokenOwner'[d] = tokenOwner[d]
  BY <1>1 DEF TypeOK
<1>4. tokenOwner' \in [Chains -> [TokenIds -> Accounts \union {Zero}]]
  BY <1>1, <1>2 DEF TypeOK
<1>5. UNCHANGED <<deployed, burnedTokens, coins, sendVars, openJobs, failedJobs>>
  BY DEF MintAll
<1>6. TypeOK'
  BY <1>4, <1>5, OnOneChainTypes DEF TypeOK, Balances, sendVars
<1> QED
  BY <1>3, <1>6 DEF minted

\* _burn: the token has no owner and is marked on this chain; no other token, and
\* no other chain, is touched.
LEMMA BurnTokenEffect ==
  ASSUME TypeOK, NEW c \in Chains, NEW id \in TokenIds, BurnToken(c, id)
  PROVE  /\ tokenOwner' \in [Chains -> [TokenIds -> Accounts \union {Zero}]]
         /\ burnedTokens' \in [Chains -> [TokenIds -> BOOLEAN]]
         /\ tokenOwner'[c][id] = Zero /\ burnedTokens'[c][id]
         /\ \A d \in Chains, i \in TokenIds : d # c \/ i # id =>
              /\ tokenOwner'[d][i] = tokenOwner[d][i]
              /\ burnedTokens'[d][i] = burnedTokens[d][i]
<1>1. /\ tokenOwner \in [Chains -> [TokenIds -> Accounts \union {Zero}]]
      /\ burnedTokens \in [Chains -> [TokenIds -> BOOLEAN]]
  BY DEF TypeOK
<1>2. /\ tokenOwner' = [tokenOwner EXCEPT ![c][id] = Zero]
      /\ burnedTokens' = [burnedTokens EXCEPT ![c][id] = TRUE]
  BY DEF BurnToken
<1>3. /\ tokenOwner' \in [Chains -> [TokenIds -> Accounts \union {Zero}]]
      /\ tokenOwner'[c][id] = Zero
      /\ \A d \in Chains, i \in TokenIds : d # c \/ i # id =>
           tokenOwner'[d][i] = tokenOwner[d][i]
  BY <1>1, <1>2
<1>4. /\ burnedTokens' \in [Chains -> [TokenIds -> BOOLEAN]]
      /\ burnedTokens'[c][id] = TRUE
      /\ \A d \in Chains, i \in TokenIds : d # c \/ i # id =>
           burnedTokens'[d][i] = burnedTokens[d][i]
  BY <1>1, <1>2
<1> QED
  BY <1>3, <1>4

\* Burning keeps the types.
LEMMA BurnTypes ==
  ASSUME TypeOK, NEW c \in Chains, NEW id \in TokenIds, Burn(c, id)
  PROVE  TypeOK'
<1>1. BurnToken(c, id) /\ UNCHANGED <<deployed, coins, sendVars, openJobs, failedJobs>>
  BY DEF Burn
<1> QED
  BY <1>1, BurnTokenEffect, OnOneChainTypes DEF TypeOK, Balances, sendVars

\* Wrapping native coin keeps the types.
LEMMA HolographNativeTokenTypes ==
  ASSUME TypeOK, NEW h \in Chains, NEW a \in Accounts, NEW amount \in Amounts,
         HolographNativeToken(h, a, amount)
  PROVE  TypeOK'
<1>1. amount \in Nat /\ coins \in Balances /\ native \in [Chains -> Nat]
  BY BoundAssumption DEF TypeOK, Balances
<1>2. coins' \in Balances
  BY <1>1, MintCoinsEffect DEF HolographNativeToken
<1>3. native' \in [Chains -> Nat]
  BY <1>1 DEF HolographNativeToken
<1>4. UNCHANGED <<deployed, tokenVars, jobNonce, wire, openJobs, failedJobs>>
  BY DEF HolographNativeToken
<1> QED
  BY <1>2, <1>3, <1>4, OnOneChainTypes DEF TypeOK, tokenVars

\* Unwrapping keeps the types: the balance and the native coin cover the amount.
LEMMA ExtractNativeTokenTypes ==
  ASSUME TypeOK, NEW h \in Chains, NEW a \in Accounts, NEW amount \in Amounts,
         ExtractNativeToken(h, a, amount)
  PROVE  TypeOK'
<1>1. amount \in Nat /\ coins \in Balances /\ native \in [Chains -> Nat]
  BY BoundAssumption DEF TypeOK, Balances
<1>2. coins' \in Balances
  BY <1>1, BurnCoinsEffect DEF ExtractNativeToken
<1>3. native' \in [Chains -> Nat]
  BY <1>1 DEF ExtractNativeToken
<1>4. UNCHANGED <<deployed, tokenVars, jobNonce, wire, openJobs, failedJobs>>
  BY DEF ExtractNativeToken
<1> QED
  BY <1>2, <1>3, <1>4, OnOneChainTypes DEF TypeOK, tokenVars

\* What send puts on the wire is a payload.
LEMMA SendTypes ==
  ASSUME TypeOK, NEW c \in Chains, NEW d \in Chains, NEW fee \in Fees,
         NEW cargo \in Cargos, Send(c, d, fee, cargo)
  PROVE  /\ Payload(c, fee, cargo) \in Payloads
         /\ jobNonce' \in [Chains -> Nat] /\ native' \in [Chains -> Nat]
         /\ wire' \in [Chains -> SUBSET Payloads]
<1>1. /\ fee \in Nat /\ jobNonce \in [Chains -> Nat] /\ native \in [Chains -> Nat]
      /\ wire \in [Chains -> SUBSET Payloads]
  BY BoundAssumption DEF TypeOK
<1>2. Payload(c, fee, cargo) \in Payloads
  BY <1>1 DEF Payload, Payloads
<1> QED
  BY <1>1, <1>2 DEF Send

\* Sending a token keeps the types.
LEMMA BridgeOutTokenTypes ==
  ASSUME TypeOK, NEW c \in Chains, NEW d \in Chains, NEW fee \in Fees,
         NEW id \in TokenIds, NEW to \in Accounts, BridgeOutToken(c, d, fee, id, to)
  PROVE  TypeOK' /\ TokenCargo(id, to) \in Cargos
<1>1. /\ BurnToken(c, id) /\ Send(c, d, fee, TokenCargo(id, to))
      /\ UNCHANGED <<deployed, coins, openJobs, failedJobs>>
  BY DEF BridgeOutToken
<1>2. TokenCargo(id, to) \in Cargos
  BY DEF Cargos
<1> QED
  BY <1>1, <1>2, BurnTokenEffect, SendTypes DEF TypeOK

\* Sending coins keeps the types: the sender's balance covers them.
LEMMA BridgeOutCoinsTypes ==
  ASSUME TypeOK, NEW c \in Chains, NEW d \in Chains, NEW fee \in Fees,
         NEW h \in Chains, NEW from \in Accounts, NEW to \in Accounts \union {Zero},
         NEW amount \in Amounts, BridgeOutCoins(c, d, fee, h, from, to, amount)
  PROVE  TypeOK' /\ CoinCargo(h, to, amount) \in Cargos
<1>1. /\ amount <= coins[h][c][from] /\ coins' = BurnCoins(coins, h, c, from, amount)
      /\ Send(c, d, fee, CoinCargo(h, to, amount))
      /\ UNCHANGED <<deployed, tokenVars, openJobs, failedJobs>>
  BY DEF BridgeOutCoins
<1>2. CoinCargo(h, to, amount) \in Cargos
  BY DEF Cargos
<1>3. coins' \in Balances
  BY <1>1, BoundAssumption, BurnCoinsEffect DEF TypeOK, Balances
<1> QED
  BY <1>1, <1>2, <1>3, SendTypes DEF TypeOK, Balances, tokenVars

\* Sending the collection's deployment keeps the types.
LEMMA BridgeOutCollectionTypes ==
  ASSUME TypeOK, NEW c \in Chains, NEW d \in Chains, NEW fee \in Fees,
         BridgeOutCollection(c, d, fee)
  PROVE  TypeOK' /\ Collection \in Cargos
<1>1. /\ Send(c, d, fee, Collection)
      /\ UNCHANGED <<deployed, tokenVars, coins, openJobs, failedJobs>>
  BY DEF BridgeOutCollection
<1>2. Collection \in Cargos
  BY DEF Cargos
<1> QED
  BY <1>1, <1>2, SendTypes DEF TypeOK, tokenVars

\* A delivery keeps the types.
LEMMA LzReceiveTypes ==
  ASSUME TypeOK, NEW d \in Chains, NEW p \in wire[d], LzReceive(d, p)
  PROVE  TypeOK'
  BY DEF LzReceive, TypeOK, tokenVars

\* So does a job that fails.
LEMMA FailJobTypes ==
  ASSUME TypeOK, NEW d \in Chains, NEW p \in openJobs[d], FailJob(d, p)
  PROVE  TypeOK'
  BY DEF FailJob, TypeOK, tokenVars, sendVars

\* What bridgeInRequest does to the tokens.
LEMMA BridgeInTokens ==
  ASSUME TypeOK, NEW d \in Chains, NEW p \in Payloads,
         NEW r \in Accounts \union {Zero}, BridgeInRequest(d, p, r)
  PROVE  /\ deployed' \subseteq Chains
         /\ tokenOwner' \in [Chains -> [TokenIds -> Accounts \union {Zero}]]
         /\ burnedTokens' \in [Chains -> [TokenIds -> BOOLEAN]]
         /\ p.cargo.kind # "token" => UNCHANGED <<tokenOwner, burnedTokens>>
         /\ p.cargo.kind = "token" =>
              /\ p.cargo.id \in TokenIds /\ p.cargo.to \in Accounts
              /\ tokenOwner[d][p.cargo.id] = Zero
              /\ tokenOwner'[d][p.cargo.id] = p.cargo.to
              /\ burnedTokens'[d][p.cargo.id] = FALSE
              /\ \A e \in Chains, i \in TokenIds : e # d \/ i # p.cargo.id =>
                   /\ tokenOwner'[e][i] = tokenOwner[e][i]
                   /\ burnedTokens'[e][i] = burnedTokens[e][i]
<1>1. /\ tokenOwner \in [Chains -> [TokenIds -> Accounts \union {Zero}]]
      /\ burnedTokens \in [Chains -> [TokenIds -> BOOLEAN]]
      /\ deployed \subseteq Chains
  BY DEF TypeOK
<1>2. /\ p.cargo.kind \in {"token", "coins", "collection"}
      /\ p.cargo.kind = "token" => p.cargo.id \in TokenIds /\ p.cargo.to \in Accounts
  BY PayloadTypes, CargoTypes
<1>3. CASE p.cargo.kind = "token"
  <2> DEFINE id == p.cargo.id
             to == p.cargo.to
  <2>1. /\ tokenOwner' = [tokenOwner EXCEPT ![d][id] = to]
        /\ burnedTokens' = [burnedTokens EXCEPT ![d][id] = FALSE]
        /\ deployed' = deployed
    BY <1>3 DEF BridgeInRequest
  <2>2. tokenOwner[d][id] = Zero
    BY <1>3 DEF BridgeInRequest, CanBridgeIn, Exists
  <2>3. id \in TokenIds /\ to \in Accounts
    BY <1>2, <1>3
  <2> HIDE DEF id, to
  <2>4. /\ tokenOwner' \in [Chains -> [TokenIds -> Accounts \union {Zero}]]
        /\ tokenOwner'[d][id] = to
        /\ \A e \in Chains, i \in TokenIds : e # d \/ i # id =>
             tokenOwner'[e][i] = tokenOwner[e][i]
    BY <1>1, <2>1, <2>3
  <2>5. /\ burnedTokens' \in [Chains -> [TokenIds -> BOOLEAN]]
        /\ burnedTokens'[d][id] = FALSE
        /\ \A e \in Chains, i \in TokenIds : e # d \/ i # id =>
             burnedTokens'[e][i] = burnedTokens[e][i]
    BY <1>1, <2>1, <2>3
  <2> QED
    BY <1>1, <1>3, <2>1, <2>2, <2>3, <2>4, <2>5 DEF id, to
<1>4. CASE p.cargo.kind # "token"
  <2>1. UNCHANGED <<tokenOwner, burnedTokens>> /\ deployed' \subseteq Chains
    BY <1>1, <1>4 DEF BridgeInRequest, tokenVars
  <2> QED
    BY <1>1, <1>4, <2>1
<1> QED
  BY <1>3, <1>4

\* What bridging in credits of the hToken of chain g.
Credited(g, p, r) ==
  (IF p.from = g /\ r # Zero THEN p.fee ELSE 0)
    + (IF p.cargo.kind = "coins" /\ p.cargo.hToken = g
         THEN p.cargo.amount ELSE 0)

\* What is credited on arrival is what is owed, less the fee nobody executes for.
LEMMA OwedType ==
  ASSUME NEW p \in Payloads, NEW g \in Chains, NEW r
  PROVE  /\ Owed(g, p) \in Nat /\ Credited(g, p, r) \in Nat
         /\ r # Zero => Credited(g, p, r) = Owed(g, p)
         /\ r = Zero => Owed(g, p) = Credited(g, p, r)
                                       + (IF p.from = g THEN p.fee ELSE 0)
<1>1. /\ p.fee \in Nat
      /\ p.cargo.kind = "coins" => p.cargo.amount \in Nat
  BY PayloadTypes, CargoTypes
<1> DEFINE amount == IF p.cargo.kind = "coins" /\ p.cargo.hToken = g
                       THEN p.cargo.amount ELSE 0
           fee == IF p.from = g THEN p.fee ELSE 0
<1>2. amount \in Nat /\ fee \in Nat
  BY <1>1
<1>3. Owed(g, p) = fee + amount
  BY DEF Owed
<1>4. r # Zero => Credited(g, p, r) = fee + amount
  BY DEF Credited
<1>5. r = Zero => Credited(g, p, r) = 0 + amount
  BY DEF Credited
<1>6. (IF p.from = g THEN p.fee ELSE 0) = fee
  OBVIOUS
<1> HIDE DEF amount, fee
<1> QED
  BY <1>2, <1>3, <1>4, <1>5, <1>6

\* The sum of one chain's balances of one hToken after a mint or a burn.
LEMMA MintCoinsSum ==
  ASSUME NEW b \in Balances, NEW h \in Chains, NEW c \in Chains,
         NEW to \in Accounts, NEW amount \in Nat, NEW g \in Chains, NEW e \in Chains
  PROVE  SumFunction(MintCoins(b, h, c, to, amount)[g][e])
           = SumFunction(b[g][e]) + (IF g = h /\ e = c THEN amount ELSE 0)
<1> DEFINE f == b[h][c]
           k == MintCoins(b, h, c, to, amount)[h][c]
<1>1. /\ MintCoins(b, h, c, to, amount) \in Balances
      /\ g # h \/ e # c => MintCoins(b, h, c, to, amount)[g][e] = b[g][e]
      /\ \A a \in Accounts : k[a] = IF a = to THEN f[a] + amount ELSE f[a]
  BY MintCoinsEffect
<1>2. f \in [Accounts -> Nat] /\ k \in [Accounts -> Nat] /\ b[g][e] \in [Accounts -> Nat]
  BY <1>1 DEF Balances
<1>3. SumFunction(k) = SumFunction(f) + amount
  <2> HIDE DEF f, k
  <2>1. SumFunction(k) + f[to] = SumFunction(f) + k[to]
    BY <1>1, <1>2, SumChange, FinitenessAssumption
  <2>2. k[to] = f[to] + amount /\ f[to] \in Nat
    BY <1>1, <1>2
  <2>3. SumFunction(f) \in Nat /\ SumFunction(k) \in Nat
    BY <1>2, SumType, FinitenessAssumption
  <2> QED
    BY ONLY <2>1, <2>2, <2>3, amount \in Nat
<1>4. CASE g = h /\ e = c
  BY <1>3, <1>4
<1>5. CASE g # h \/ e # c
  <2>1. SumFunction(b[g][e]) \in Nat
    BY <1>2, SumType, FinitenessAssumption
  <2> QED BY <1>1, <1>5, <2>1
<1> QED
  BY <1>4, <1>5

\* ... the sum goes down by what is burned.
LEMMA BurnCoinsSum ==
  ASSUME NEW b \in Balances, NEW h \in Chains, NEW c \in Chains,
         NEW from \in Accounts, NEW amount \in Nat, amount <= b[h][c][from],
         NEW g \in Chains, NEW e \in Chains
  PROVE  SumFunction(b[g][e]) = SumFunction(BurnCoins(b, h, c, from, amount)[g][e])
                                  + (IF g = h /\ e = c THEN amount ELSE 0)
<1> DEFINE f == b[h][c]
           k == BurnCoins(b, h, c, from, amount)[h][c]
<1>1. /\ BurnCoins(b, h, c, from, amount) \in Balances
      /\ g # h \/ e # c => BurnCoins(b, h, c, from, amount)[g][e] = b[g][e]
      /\ \A a \in Accounts : k[a] = IF a = from THEN f[a] - amount ELSE f[a]
  BY BurnCoinsEffect
<1>2. f \in [Accounts -> Nat] /\ k \in [Accounts -> Nat] /\ b[g][e] \in [Accounts -> Nat]
  BY <1>1 DEF Balances
<1>3. SumFunction(f) = SumFunction(k) + amount
  <2> HIDE DEF f, k
  <2>1. SumFunction(k) + f[from] = SumFunction(f) + k[from]
    BY <1>1, <1>2, SumChange, FinitenessAssumption
  <2>2. k[from] = f[from] - amount /\ f[from] \in Nat
    BY <1>1, <1>2
  <2>3. SumFunction(f) \in Nat /\ SumFunction(k) \in Nat
    BY <1>2, SumType, FinitenessAssumption
  <2> QED
    BY ONLY <2>1, <2>2, <2>3, amount \in Nat
<1>4. CASE g = h /\ e = c
  BY <1>3, <1>4
<1>5. CASE g # h \/ e # c
  <2>1. SumFunction(b[g][e]) \in Nat
    BY <1>2, SumType, FinitenessAssumption
  <2> QED BY <1>1, <1>5, <2>1
<1> QED
  BY <1>4, <1>5

\* What bridgeInRequest does to the balances.
LEMMA BridgeInCoins ==
  ASSUME TypeOK, NEW d \in Chains, NEW p \in Payloads,
         NEW r \in Accounts \union {Zero}, BridgeInRequest(d, p, r)
  PROVE  /\ coins' \in Balances
         /\ \A g, e \in Chains : SumFunction(coins'[g][e]) =
              SumFunction(coins[g][e]) + (IF e = d THEN Credited(g, p, r) ELSE 0)
<1>1. coins \in Balances
  BY DEF TypeOK, Balances
<1>2. /\ p.from \in Chains /\ p.fee \in Nat
      /\ p.cargo.kind = "coins" =>
           /\ p.cargo.hToken \in Chains /\ p.cargo.amount \in Nat
           /\ p.cargo.to \in Accounts \union {Zero}
  BY PayloadTypes, CargoTypes
<1> DEFINE received ==
             IF p.cargo.kind = "coins"
               THEN MintCoins(coins, p.cargo.hToken, d, p.cargo.to, p.cargo.amount)
               ELSE coins
           amount(g) == IF p.cargo.kind = "coins" /\ p.cargo.hToken = g
                          THEN p.cargo.amount ELSE 0
           fee(g) == IF p.from = g /\ r # Zero THEN p.fee ELSE 0
<1>3. coins' = IF r # Zero THEN MintCoins(received, p.from, d, r, p.fee) ELSE received
  BY DEF BridgeInRequest
<1>4. p.cargo.kind = "coins" => p.cargo.to \in Accounts
  BY <1>2 DEF BridgeInRequest, CanBridgeIn
<1>5. received \in Balances
  BY <1>1, <1>2, <1>4, MintCoinsEffect
<1>6. ASSUME NEW g \in Chains, NEW e \in Chains
      PROVE  SumFunction(received[g][e])
               = SumFunction(coins[g][e]) + (IF e = d THEN amount(g) ELSE 0)
  <2>1. CASE p.cargo.kind = "coins"
    <3> DEFINE h == p.cargo.hToken
               to == p.cargo.to
               sent == p.cargo.amount
    <3>1. received = MintCoins(coins, h, d, to, sent)
      BY <2>1
    <3>2. h \in Chains /\ to \in Accounts /\ sent \in Nat
      BY <1>2, <1>4, <2>1
    <3>3. amount(g) = IF g = h THEN sent ELSE 0
      BY <2>1
    <3> HIDE DEF received, h, to, sent, amount
    <3>4. SumFunction(received[g][e])
            = SumFunction(coins[g][e]) + (IF g = h /\ e = d THEN sent ELSE 0)
      BY <1>1, <3>1, <3>2, MintCoinsSum
    <3> QED BY <3>3, <3>4
  <2>2. CASE p.cargo.kind # "coins"
    <3>1. SumFunction(coins[g][e]) \in Nat
      BY <1>1, SumType, FinitenessAssumption DEF Balances
    <3> QED BY <2>2, <3>1
  <2> QED BY <2>1, <2>2
<1> HIDE DEF received
<1>7. coins' \in Balances
  BY <1>2, <1>3, <1>5, MintCoinsEffect
<1>8. ASSUME NEW g \in Chains, NEW e \in Chains
      PROVE  SumFunction(coins'[g][e]) = SumFunction(coins[g][e])
               + (IF e = d THEN Credited(g, p, r) ELSE 0)
  <2>1. Credited(g, p, r) = fee(g) + amount(g) /\ fee(g) \in Nat /\ amount(g) \in Nat
    BY <1>2 DEF Credited
  <2>2. SumFunction(coins'[g][e])
          = SumFunction(received[g][e]) + (IF e = d THEN fee(g) ELSE 0)
    <3>1. CASE r # Zero
      <4>1. SumFunction(coins'[g][e]) = SumFunction(received[g][e])
              + (IF g = p.from /\ e = d THEN p.fee ELSE 0)
        BY <1>2, <1>3, <1>5, <3>1, MintCoinsSum
      <4> QED BY <3>1, <4>1
    <3>2. CASE r = Zero
      <4>1. SumFunction(received[g][e]) \in Nat
        BY <1>5, SumType, FinitenessAssumption DEF Balances
      <4> QED BY <1>3, <3>2, <4>1
    <3> QED BY <3>1, <3>2
  <2>3. SumFunction(coins[g][e]) \in Nat
    BY <1>1, SumType, FinitenessAssumption DEF Balances
  <2>4. SumFunction(received[g][e])
               = SumFunction(coins[g][e]) + (IF e = d THEN amount(g) ELSE 0)
    BY <1>6
  <2> HIDE DEF fee, amount
  <2> QED BY ONLY <2>1, <2>2, <2>3, <2>4
<1> QED
  BY <1>7, <1>8

\* A job that succeeds keeps the types.
LEMMA ExecuteJobTypes ==
  ASSUME TypeOK, NEW d \in Chains, NEW p \in openJobs[d], NEW executor \in Accounts,
         ExecuteJob(d, p, executor)
  PROVE  TypeOK'
<1>1. p \in Payloads
  BY DEF TypeOK
<1>2. /\ BridgeInRequest(d, p, executor) /\ UNCHANGED <<sendVars, failedJobs>>
      /\ openJobs' = [openJobs EXCEPT ![d] = @ \ {p}]
  BY DEF ExecuteJob
<1>3. coins' \in Balances
  BY <1>1, <1>2, BridgeInCoins
<1>4. openJobs' \in [Chains -> SUBSET Payloads]
  BY <1>2 DEF TypeOK
<1> QED
  BY <1>1, <1>2, <1>3, <1>4, BridgeInTokens DEF TypeOK, Balances, sendVars

\* A job that is recovered keeps the types.
LEMMA RecoverJobTypes ==
  ASSUME TypeOK, NEW d \in Chains, NEW p \in failedJobs[d], RecoverJob(d, p)
  PROVE  TypeOK'
<1>1. p \in Payloads
  BY DEF TypeOK
<1>2. /\ BridgeInRequest(d, p, Zero) /\ UNCHANGED <<sendVars, openJobs>>
      /\ failedJobs' = [failedJobs EXCEPT ![d] = @ \ {p}]
  BY DEF RecoverJob
<1>3. coins' \in Balances
  BY <1>1, <1>2, BridgeInCoins
<1>4. failedJobs' \in [Chains -> SUBSET Payloads]
  BY <1>2 DEF TypeOK
<1> QED
  BY <1>1, <1>2, <1>3, <1>4, BridgeInTokens DEF TypeOK, Balances, sendVars

\* The types are inductive by themselves.
LEMMA NextTypes ==
  ASSUME TypeOK, [Next]_vars
  PROVE  TypeOK'
<1>1. CASE UNCHANGED vars
  BY <1>1 DEF TypeOK, vars
<1>2. CASE OnOneChain
  <2>1. PICK c \in Chains :
          \/ DeployHolographableContract(c)
          \/ \E to \in Accounts, n \in Numbers : SourceMint(c, to, n)
          \/ \E to \in Accounts, b \in Batches :
               SourceMintBatchIncremental(c, to, b[1], b[2])
          \/ \E id \in TokenIds : Burn(c, id)
          \/ \E a \in Accounts, amount \in Amounts : HolographNativeToken(c, a, amount)
          \/ \E a \in Accounts, amount \in Amounts : ExtractNativeToken(c, a, amount)
    BY <1>2 DEF OnOneChain
  <2>2. CASE DeployHolographableContract(c)
    BY <2>2, DeployTypes
  <2>3. CASE \E to \in Accounts, n \in Numbers : SourceMint(c, to, n)
    BY <2>3, MintAllTypes DEF SourceMint
  <2>4. CASE \E to \in Accounts, b \in Batches :
               SourceMintBatchIncremental(c, to, b[1], b[2])
    BY <2>4, MintAllTypes DEF SourceMintBatchIncremental
  <2>5. CASE \E id \in TokenIds : Burn(c, id)
    BY <2>5, BurnTypes
  <2>6. CASE \E a \in Accounts, amount \in Amounts : HolographNativeToken(c, a, amount)
    BY <2>6, HolographNativeTokenTypes
  <2>7. CASE \E a \in Accounts, amount \in Amounts : ExtractNativeToken(c, a, amount)
    BY <2>7, ExtractNativeTokenTypes
  <2> QED
    BY <2>1, <2>2, <2>3, <2>4, <2>5, <2>6, <2>7
<1>3. CASE BridgingOut
  BY <1>3, BridgeOutTokenTypes, BridgeOutCoinsTypes, BridgeOutCollectionTypes
     DEF BridgingOut
<1>4. CASE BridgingIn
  BY <1>4, LzReceiveTypes, FailJobTypes, ExecuteJobTypes, RecoverJobTypes
     DEF BridgingIn
<1> QED
  BY <1>1, <1>2, <1>3, <1>4 DEF Next

\* The types of the bridge's state are kept whatever the chains, the accounts and
\* the bounds are: no balance and no nonce goes below zero, and no payload appears
\* that a bridge request could not have built.
THEOREM TypeCorrect == Spec => []TypeOK
<1>1. Init => TypeOK
  BY DEF Init, TypeOK
<1>2. TypeOK /\ [Next]_vars => TypeOK'
  BY NextTypes
<1> QED
  BY <1>1, <1>2, PTL DEF Spec

-----------------------------------------------------------------------------
(***************************************************************************)
(* What the steps do to the pending payloads.                              *)
(***************************************************************************)
\* Nothing becomes pending and nothing is done.
PendingSame == \A c \in Chains : Pending(c)' = Pending(c)

\* A payload for chain d is added.
PendingAdd(d, q) ==
  \A c \in Chains : Pending(c)' = IF c = d THEN Pending(c) \union {q} ELSE Pending(c)

\* A payload for chain d is done.
PendingDrop(d, p) ==
  \A c \in Chains : Pending(c)' = IF c = d THEN Pending(c) \ {p} ELSE Pending(c)

\* A step that sends and receives nothing keeps all that is said of payloads.
LEMMA NothingSent ==
  ASSUME PInv, TypeOK', UNCHANGED <<jobNonce, wire, openJobs, failedJobs>>
  PROVE  PInv' /\ PendingSame
<1>1. PendingSame
  BY DEF PendingSame, Pending
<1>2. NoncesUsed' /\ OnePayload' /\ FinitelyPending'
  BY <1>1 DEF PInv, NoncesUsed, OnePayload, FinitelyPending, PendingSame
<1>3. OneStage'
  BY DEF PInv, OneStage
<1> QED
  BY <1>1, <1>2, <1>3 DEF PInv

\* A request adds one payload, with a nonce its chain has not used.
LEMMA OneSent ==
  ASSUME PInv, TypeOK', NEW c \in Chains, NEW d \in Chains, NEW fee \in Fees,
         NEW cargo \in Cargos, Send(c, d, fee, cargo),
         UNCHANGED <<openJobs, failedJobs>>
  PROVE  /\ PInv'
         /\ PendingAdd(d, Payload(c, fee, cargo))
         /\ Payload(c, fee, cargo) \in Payloads
         /\ \A e \in Chains : Payload(c, fee, cargo) \notin Pending(e)
<1> DEFINE q == Payload(c, fee, cargo)
<1>1. /\ wire \in [Chains -> SUBSET Payloads] /\ jobNonce \in [Chains -> Nat]
      /\ \A e \in Chains : Pending(e) \subseteq Payloads
  BY PendingTypes DEF PInv, TypeOK
<1>2. q \in Payloads
  BY SendTypes DEF PInv
<1>3. q.from = c /\ q.nonce = jobNonce[c] + 1
  BY DEF Payload
<1>4. /\ jobNonce' = [jobNonce EXCEPT ![c] = @ + 1]
      /\ wire' = [wire EXCEPT ![d] = @ \union {q}]
  BY DEF Send
<1> HIDE DEF q
<1>5. \A e \in Chains : wire'[e] = IF e = d THEN wire[e] \union {q} ELSE wire[e]
  BY <1>1, <1>4
<1>6. PendingAdd(d, q)
  BY <1>5 DEF PendingAdd, Pending
<1>7. \A e \in Chains : \A p \in Pending(e) :
        /\ p.from \in Chains /\ p.nonce \in Nat /\ p.nonce <= jobNonce[p.from]
        /\ jobNonce[p.from] \in Nat
  BY <1>1, PayloadTypes DEF PInv, NoncesUsed
<1>8. \A e \in Chains : \A p \in Pending(e) : ~(p.from = c /\ p.nonce = q.nonce)
  BY <1>3, <1>7
<1>9. NoncesUsed'
  <2> SUFFICES ASSUME NEW e \in Chains, NEW p \in Pending(e)'
               PROVE  p.nonce <= jobNonce'[p.from]
    BY DEF NoncesUsed
  <2>1. CASE p = q
    BY <1>1, <1>3, <1>4, <2>1
  <2>2. CASE p \in Pending(e)
    BY <1>1, <1>4, <1>7, <2>2
  <2> QED
    BY <1>6, <2>1, <2>2 DEF PendingAdd
<1>10. OnePayload'
  <2> SUFFICES ASSUME NEW e \in Chains, NEW g \in Chains,
                      NEW p \in Pending(e)', NEW r \in Pending(g)',
                      p.from = r.from, p.nonce = r.nonce
               PROVE  e = g /\ p = r
    BY DEF OnePayload
  <2>1. (p \in Pending(e) \/ (p = q /\ e = d)) /\ (r \in Pending(g) \/ (r = q /\ g = d))
    BY <1>6 DEF PendingAdd
  <2>2. CASE p \in Pending(e) /\ r \in Pending(g)
    BY <2>2 DEF PInv, OnePayload
  <2>3. CASE p \in Pending(e) /\ r = q
    BY <1>3, <1>8, <2>3
  <2>4. CASE p = q /\ r \in Pending(g)
    BY <1>3, <1>8, <2>4
  <2> QED
    BY <2>1, <2>2, <2>3, <2>4
<1>11. q \notin Pending(d) /\ \A e \in Chains : q \notin Pending(e)
  BY <1>3, <1>8
<1>12. OneStage'
  BY <1>5, <1>11 DEF PInv, OneStage, Pending
<1>13. FinitelyPending'
  BY <1>6, FS_AddElement DEF PInv, FinitelyPending, PendingAdd
<1> QED
  BY <1>2, <1>6, <1>9, <1>10, <1>11, <1>12, <1>13 DEF PInv, q

\* A payload that moves from one stage to the next stays pending.
LEMMA OneMoved ==
  ASSUME PInv, TypeOK', UNCHANGED jobNonce, NEW d \in Chains,
         PendingSame, OneStage'
  PROVE  PInv'
  BY DEF PInv, NoncesUsed, OnePayload, FinitelyPending, PendingSame

\* A delivery moves a payload from the wire to the open jobs.
LEMMA LzReceivePending ==
  ASSUME PInv, NEW d \in Chains, NEW p \in wire[d], LzReceive(d, p)
  PROVE  PInv' /\ PendingSame
<1>1. TypeOK'
  BY LzReceiveTypes DEF PInv
<1>2. /\ wire' = [wire EXCEPT ![d] = @ \ {p}]
      /\ openJobs' = [openJobs EXCEPT ![d] = @ \union {p}]
      /\ UNCHANGED <<jobNonce, failedJobs>>
  BY DEF LzReceive
<1>3. /\ wire \in [Chains -> SUBSET Payloads]
      /\ openJobs \in [Chains -> SUBSET Payloads]
  BY DEF PInv, TypeOK
<1>4. \A e \in Chains :
        /\ wire'[e] = IF e = d THEN wire[e] \ {p} ELSE wire[e]
        /\ openJobs'[e] = IF e = d THEN openJobs[e] \union {p} ELSE openJobs[e]
  BY <1>2, <1>3
<1>5. PendingSame
  BY <1>2, <1>4 DEF PendingSame, Pending
<1>6. OneStage'
  BY <1>2, <1>4 DEF PInv, OneStage
<1> QED
  BY <1>1, <1>2, <1>5, <1>6, OneMoved

\* A failure moves a payload from the open jobs to the failed ones.
LEMMA FailJobPending ==
  ASSUME PInv, NEW d \in Chains, NEW p \in openJobs[d], FailJob(d, p)
  PROVE  PInv' /\ PendingSame
<1>1. TypeOK'
  BY FailJobTypes DEF PInv
<1>2. /\ openJobs' = [openJobs EXCEPT ![d] = @ \ {p}]
      /\ failedJobs' = [failedJobs EXCEPT ![d] = @ \union {p}]
      /\ UNCHANGED <<jobNonce, wire>>
  BY DEF FailJob, sendVars
<1>3. /\ openJobs \in [Chains -> SUBSET Payloads]
      /\ failedJobs \in [Chains -> SUBSET Payloads]
  BY DEF PInv, TypeOK
<1>4. \A e \in Chains :
        /\ openJobs'[e] = IF e = d THEN openJobs[e] \ {p} ELSE openJobs[e]
        /\ failedJobs'[e] = IF e = d THEN failedJobs[e] \union {p} ELSE failedJobs[e]
  BY <1>2, <1>3
<1>5. PendingSame
  BY <1>2, <1>4 DEF PendingSame, Pending
<1>6. OneStage'
  BY <1>2, <1>4 DEF PInv, OneStage
<1> QED
  BY <1>1, <1>2, <1>5, <1>6, OneMoved

\* A payload that is bridged in is no longer pending.
LEMMA OneDropped ==
  ASSUME PInv, TypeOK', UNCHANGED jobNonce, NEW d \in Chains, NEW p,
         PendingDrop(d, p), OneStage'
  PROVE  PInv'
<1>1. \A e \in Chains : Pending(e)' \subseteq Pending(e)
  BY DEF PendingDrop
<1>2. FinitelyPending'
  BY FS_RemoveElement DEF PInv, FinitelyPending, PendingDrop
<1> QED
  BY <1>1, <1>2 DEF PInv, NoncesUsed, OnePayload

\* A job that succeeds is no longer pending.
LEMMA ExecuteJobPending ==
  ASSUME PInv, NEW d \in Chains, NEW p \in openJobs[d], NEW executor \in Accounts,
         ExecuteJob(d, p, executor)
  PROVE  PInv' /\ PendingDrop(d, p) /\ p \in Pending(d) /\ p \in Payloads
<1>1. TypeOK'
  BY ExecuteJobTypes DEF PInv
<1>2. /\ openJobs' = [openJobs EXCEPT ![d] = @ \ {p}]
      /\ UNCHANGED <<jobNonce, wire, failedJobs>>
  BY DEF ExecuteJob, sendVars
<1>3. openJobs \in [Chains -> SUBSET Payloads]
  BY DEF PInv, TypeOK
<1>4. \A e \in Chains : openJobs'[e] = IF e = d THEN openJobs[e] \ {p} ELSE openJobs[e]
  BY <1>2, <1>3
<1>5. PendingDrop(d, p)
  BY <1>2, <1>4 DEF PendingDrop, Pending, PInv, OneStage
<1>6. OneStage'
  BY <1>2, <1>4 DEF PInv, OneStage
<1>7. p \in Pending(d) /\ p \in Payloads
  BY <1>3 DEF Pending
<1> QED
  BY <1>1, <1>2, <1>5, <1>6, <1>7, OneDropped

\* A job that is recovered is no longer pending.
LEMMA RecoverJobPending ==
  ASSUME PInv, NEW d \in Chains, NEW p \in failedJobs[d], RecoverJob(d, p)
  PROVE  PInv' /\ PendingDrop(d, p) /\ p \in Pending(d) /\ p \in Payloads
<1>1. TypeOK'
  BY RecoverJobTypes DEF PInv
<1>2. /\ failedJobs' = [failedJobs EXCEPT ![d] = @ \ {p}]
      /\ UNCHANGED <<jobNonce, wire, openJobs>>
  BY DEF RecoverJob, sendVars
<1>3. failedJobs \in [Chains -> SUBSET Payloads]
  BY DEF PInv, TypeOK
<1>4. \A e \in Chains :
        failedJobs'[e] = IF e = d THEN failedJobs[e] \ {p} ELSE failedJobs[e]
  BY <1>2, <1>3
<1>5. PendingDrop(d, p)
  BY <1>2, <1>4 DEF PendingDrop, Pending, PInv, OneStage
<1>6. OneStage'
  BY <1>2, <1>4 DEF PInv, OneStage
<1>7. p \in Pending(d) /\ p \in Payloads
  BY <1>3 DEF Pending
<1> QED
  BY <1>1, <1>2, <1>5, <1>6, <1>7, OneDropped

-----------------------------------------------------------------------------
(***************************************************************************)
(* What the steps do to a token.                                           *)
(***************************************************************************)
\* A token is carried by the payloads that carried it.
CarriersSame(id) ==
  \A e \in Chains : \A p :
    p \in Pending(e)' /\ Carries(p, id) <=> p \in Pending(e) /\ Carries(p, id)

\* A step that does not touch a token.
TokenSame(id) ==
  /\ \A e \in Chains : /\ tokenOwner'[e][id] = tokenOwner[e][id]
                       /\ burnedTokens'[e][id] = burnedTokens[e][id]
  /\ CarriersSame(id)

\* The invariants of a token that is not touched are kept.
LEMMA TokenSameKept ==
  ASSUME NEW id \in TokenIds, TokenSame(id), InOnePlace(id), MarkedAtHome(id)
  PROVE  InOnePlace(id)' /\ MarkedAtHome(id)'
<1>1. \A e \in Chains : Exists(e, id)' <=> Exists(e, id)
  BY DEF TokenSame, Exists
<1>2. \A p : Carries(p, id)' <=> Carries(p, id)
  BY DEF Carries
<1>3. InOnePlace(id)'
  BY <1>1, <1>2 DEF TokenSame, CarriersSame, InOnePlace
<1>4. Born(id)' => Born(id)
  BY <1>1, <1>2 DEF TokenSame, CarriersSame, Born
<1>5. MarkedAtHome(id)'
  BY <1>1, <1>4 DEF TokenSame, MarkedAtHome
<1> QED
  BY <1>3, <1>5

\* Only the chain that can mint an id mints it, and only before it is born.
LEMMA MintedUnborn ==
  ASSUME PrefixesApart, NEW id \in TokenIds, NEW c \in Chains, id \in MintedBy(c),
         MarkedAtHome(id), Mintable(c, id)
  PROVE  ~Born(id)
<1>1. \A h \in Chains : id \in MintedBy(h) => h = c
  BY DEF PrefixesApart
<1> QED
  BY <1>1 DEF MarkedAtHome, Mintable

\* The invariants of a token that is minted are kept.
LEMMA MintedKept ==
  ASSUME PrefixesApart, NEW id \in TokenIds, NEW c \in Chains, id \in MintedBy(c),
         MarkedAtHome(id), Mintable(c, id), PendingSame,
         tokenOwner'[c][id] # Zero,
         \A d \in Chains : d # c => tokenOwner'[d][id] = tokenOwner[d][id]
  PROVE  InOnePlace(id)' /\ MarkedAtHome(id)'
<1>1. ~Born(id)
  BY MintedUnborn
<1>2. /\ \A d \in Chains : ~Exists(d, id)
      /\ \A d \in Chains : \A p \in Pending(d)' : ~Carries(p, id)
  BY <1>1 DEF Born, PendingSame
<1>3. \A d \in Chains : Exists(d, id)' <=> d = c
  BY <1>2 DEF Exists
<1>4. \A p : Carries(p, id)' <=> Carries(p, id)
  BY DEF Carries
<1>5. InOnePlace(id)'
  BY <1>2, <1>3, <1>4 DEF InOnePlace
<1>6. MarkedAtHome(id)'
  BY <1>3 DEF MarkedAtHome
<1> QED
  BY <1>5, <1>6

\* A token that is burned exists nowhere.
BurnedOn(c, id) ==
  /\ tokenOwner'[c][id] = Zero /\ burnedTokens'[c][id]
  /\ \A d \in Chains : d # c => /\ tokenOwner'[d][id] = tokenOwner[d][id]
                                /\ burnedTokens'[d][id] = burnedTokens[d][id]

\* A token that is burned was in one place, so it is nowhere now, and marked.
LEMMA BurnedNowhere ==
  ASSUME NEW id \in TokenIds, NEW c \in Chains, Exists(c, id), BurnedOn(c, id),
         InOnePlace(id), MarkedAtHome(id)
  PROVE  /\ \A d \in Chains : ~Exists(d, id)'
         /\ \A d \in Chains : \A p \in Pending(d) : ~Carries(p, id)
         /\ \E h \in Chains : id \in MintedBy(h) /\ burnedTokens'[h][id]
         /\ MarkedAtHome(id)'
<1>1. \A d \in Chains : d # c => ~Exists(d, id)
  BY DEF InOnePlace
<1>2. \A d \in Chains : ~Exists(d, id)'
  BY <1>1 DEF BurnedOn, Exists
<1>3. \A d \in Chains : \A p \in Pending(d) : ~Carries(p, id)
  BY DEF InOnePlace
<1>4. PICK h \in Chains : id \in MintedBy(h) /\ (Exists(h, id) \/ burnedTokens[h][id])
  BY DEF MarkedAtHome, Born
<1>5. burnedTokens'[h][id]
  BY <1>1, <1>4 DEF BurnedOn
<1> QED
  BY <1>2, <1>3, <1>4, <1>5 DEF MarkedAtHome

\* The invariants of a token that is burned are kept.
LEMMA BurnedKept ==
  ASSUME NEW id \in TokenIds, NEW c \in Chains, Exists(c, id), BurnedOn(c, id),
         InOnePlace(id), MarkedAtHome(id), PendingSame
  PROVE  InOnePlace(id)' /\ MarkedAtHome(id)'
<1>1. \A p : Carries(p, id)' <=> Carries(p, id)
  BY DEF Carries
<1> QED
  BY <1>1, BurnedNowhere DEF InOnePlace, PendingSame

\* The invariants of a token that is burned and sent are kept.
LEMMA SentKept ==
  ASSUME NEW id \in TokenIds, NEW c \in Chains, Exists(c, id), BurnedOn(c, id),
         InOnePlace(id), MarkedAtHome(id), NEW d \in Chains, NEW q,
         PendingAdd(d, q)
  PROVE  InOnePlace(id)' /\ MarkedAtHome(id)'
<1>1. \A p : Carries(p, id)' <=> Carries(p, id)
  BY DEF Carries
<1>2. \A e \in Chains : \A p \in Pending(e)' : Carries(p, id) => e = d /\ p = q
  BY BurnedNowhere DEF PendingAdd
<1> QED
  BY <1>1, <1>2, BurnedNowhere DEF InOnePlace

\* The payload that carried a token is gone and the token is on its chain.
LEMMA ReceivedKept ==
  ASSUME NEW id \in TokenIds, NEW d \in Chains, NEW p \in Pending(d), Carries(p, id),
         InOnePlace(id), MarkedAtHome(id), PendingDrop(d, p),
         tokenOwner'[d][id] # Zero,
         \A e \in Chains : e # d => /\ tokenOwner'[e][id] = tokenOwner[e][id]
                                    /\ burnedTokens'[e][id] = burnedTokens[e][id]
  PROVE  InOnePlace(id)' /\ MarkedAtHome(id)'
<1>1. \A q : Carries(q, id)' <=> Carries(q, id)
  BY DEF Carries
<1>2. \A e \in Chains : \A q \in Pending(e)' : ~Carries(q, id)
  BY DEF InOnePlace, PendingDrop
<1>3. \A e \in Chains : ~Exists(e, id)
  BY DEF InOnePlace
<1>4. \A e \in Chains : Exists(e, id)' <=> e = d
  BY <1>3 DEF Exists
<1>5. InOnePlace(id)'
  BY <1>1, <1>2, <1>4 DEF InOnePlace
<1>6. PICK h \in Chains : id \in MintedBy(h) /\ burnedTokens[h][id]
  BY <1>3 DEF MarkedAtHome, Born
<1>7. Exists(h, id)' \/ burnedTokens'[h][id]
  BY <1>4, <1>6
<1> QED
  BY <1>5, <1>6, <1>7 DEF MarkedAtHome

\* The carriers of a token change only with the payloads that carry it.
LEMMA CarriersKept ==
  ASSUME NEW id,
         \/ PendingSame
         \/ \E d \in Chains : \E q : PendingAdd(d, q) /\ ~Carries(q, id)
         \/ \E d \in Chains : \E p : PendingDrop(d, p) /\ ~Carries(p, id)
  PROVE  CarriersSame(id)
<1>1. CASE PendingSame
  BY <1>1 DEF PendingSame, CarriersSame
<1>2. ASSUME NEW d \in Chains, NEW q, PendingAdd(d, q), ~Carries(q, id)
      PROVE  CarriersSame(id)
  BY <1>2 DEF PendingAdd, CarriersSame
<1>3. ASSUME NEW d \in Chains, NEW p, PendingDrop(d, p), ~Carries(p, id)
      PROVE  CarriersSame(id)
  BY <1>3 DEF PendingDrop, CarriersSame
<1> QED
  BY <1>1, <1>2, <1>3

-----------------------------------------------------------------------------
(***************************************************************************)
(* The steps keep every token in one place and marked at home.             *)
(***************************************************************************)
\* A step that leaves all tokens alone.
LEMMA NoTokenTouched ==
  ASSUME TInv, PInv', UNCHANGED <<tokenOwner, burnedTokens>>,
         \A id \in TokenIds : CarriersSame(id)
  PROVE  TInv' /\ \A id \in TokenIds : TokenSame(id)
<1>1. \A id \in TokenIds : TokenSame(id)
  BY DEF TokenSame
<1> QED
  BY <1>1, TokenSameKept DEF TInv

\* Minting is of tokens that were not born, and touches no other.
LEMMA MintAllTokens ==
  ASSUME PrefixesApart, TInv, NEW c \in Chains, NEW ids \in SUBSET MintedBy(c),
         NEW to \in Accounts, MintAll(c, ids, to)
  PROVE  /\ TInv' /\ PendingSame
         /\ \A id \in TokenIds \ ids : TokenSame(id)
         /\ \A id \in ids : ~Born(id) /\ tokenOwner'[c][id] = to
<1>1. /\ TypeOK'
      /\ \A id \in TokenIds : tokenOwner'[c][id]
              = IF id \in ids THEN to ELSE tokenOwner[c][id]
      /\ \A d \in Chains : d # c => tokenOwner'[d] = tokenOwner[d]
  BY MintAllTypes DEF TInv, PInv
<1>2. /\ \A id \in ids : Mintable(c, id)
      /\ UNCHANGED <<burnedTokens, jobNonce, wire, openJobs, failedJobs>>
  BY DEF MintAll, sendVars
<1>3. PInv' /\ PendingSame
  BY <1>1, <1>2, NothingSent DEF TInv
<1>4. ids \subseteq TokenIds /\ to # Zero
  BY MintedIds, ChainAssumption
<1>5. ASSUME NEW id \in TokenIds \ ids PROVE TokenSame(id)
  BY <1>1, <1>2, <1>3, CarriersKept DEF TokenSame
<1>6. ASSUME NEW id \in ids
      PROVE  ~Born(id) /\ tokenOwner'[c][id] = to /\ InOnePlace(id)' /\ MarkedAtHome(id)'
  <2>1. /\ id \in TokenIds /\ id \in MintedBy(c) /\ Mintable(c, id)
        /\ MarkedAtHome(id) /\ tokenOwner'[c][id] = to
        /\ \A d \in Chains : d # c => tokenOwner'[d][id] = tokenOwner[d][id]
    BY <1>1, <1>2, <1>4 DEF TInv
  <2>2. ~Born(id)
    BY <2>1, MintedUnborn
  <2> QED
    BY <1>3, <1>4, <2>1, <2>2, MintedKept
<1>7. \A id \in TokenIds : InOnePlace(id)' /\ MarkedAtHome(id)'
  BY <1>5, <1>6, TokenSameKept DEF TInv
<1> QED
  BY <1>3, <1>5, <1>6, <1>7 DEF TInv

\* A single mint is one of them.
LEMMA SourceMintTokens ==
  ASSUME PrefixesApart, TInv, NEW c \in Chains, NEW to \in Accounts,
         NEW n \in Numbers, SourceMint(c, to, n)
  PROVE  TInv'
<1>1. {TokenId(c, n)} \in SUBSET MintedBy(c)
  BY DEF MintedBy
<1> QED
  BY <1>1, MintAllTokens DEF SourceMint

\* An incremental batch is one too.
LEMMA SourceMintBatchTokens ==
  ASSUME PrefixesApart, TInv, NEW c \in Chains, NEW to \in Accounts,
         NEW b \in Batches, SourceMintBatchIncremental(c, to, b[1], b[2])
  PROVE  TInv'
<1>1. {Plus(TokenId(c, b[1]), i) : i \in 0 .. b[2] - 1} \in SUBSET MintedBy(c)
  BY DEF MintedBy
<1> QED
  BY <1>1, MintAllTokens DEF SourceMintBatchIncremental

\* Burning touches one token.
LEMMA BurnTokens ==
  ASSUME TInv, NEW c \in Chains, NEW id \in TokenIds, Burn(c, id)
  PROVE  /\ TInv' /\ PendingSame /\ Exists(c, id) /\ BurnedOn(c, id)
         /\ \A i \in TokenIds \ {id} : TokenSame(i)
<1>1. /\ Exists(c, id) /\ BurnToken(c, id)
      /\ UNCHANGED <<jobNonce, wire, openJobs, failedJobs>>
  BY DEF Burn, sendVars
<1>2. /\ BurnedOn(c, id)
      /\ \A d \in Chains, i \in TokenIds : i # id =>
           /\ tokenOwner'[d][i] = tokenOwner[d][i]
           /\ burnedTokens'[d][i] = burnedTokens[d][i]
  BY <1>1, BurnTokenEffect DEF BurnedOn, TInv, PInv
<1>3. PInv' /\ PendingSame
  BY <1>1, BurnTypes, NothingSent DEF TInv, PInv
<1>4. \A i \in TokenIds \ {id} : TokenSame(i)
  BY <1>2, <1>3, CarriersKept DEF TokenSame
<1>5. InOnePlace(id)' /\ MarkedAtHome(id)'
  BY <1>1, <1>2, <1>3, BurnedKept DEF TInv
<1> QED
  BY <1>1, <1>2, <1>3, <1>4, <1>5, TokenSameKept DEF TInv

\* Sending a token burns it and puts it in one payload.
LEMMA BridgeOutTokenTokens ==
  ASSUME TInv, NEW c \in Chains, NEW d \in Chains, NEW fee \in Fees,
         NEW id \in TokenIds, NEW to \in Accounts, BridgeOutToken(c, d, fee, id, to)
  PROVE  /\ TInv' /\ PendingAdd(d, Payload(c, fee, TokenCargo(id, to)))
         /\ Exists(c, id) /\ BurnedOn(c, id)
         /\ \A i \in TokenIds \ {id} : TokenSame(i)
<1> DEFINE q == Payload(c, fee, TokenCargo(id, to))
<1>1. /\ Exists(c, id) /\ BurnToken(c, id) /\ Send(c, d, fee, TokenCargo(id, to))
      /\ UNCHANGED <<openJobs, failedJobs>>
  BY DEF BridgeOutToken
<1>2. /\ BurnedOn(c, id)
      /\ \A e \in Chains, i \in TokenIds : i # id =>
           /\ tokenOwner'[e][i] = tokenOwner[e][i]
           /\ burnedTokens'[e][i] = burnedTokens[e][i]
  BY <1>1, BurnTokenEffect DEF BurnedOn, TInv, PInv
<1>3. TypeOK' /\ TokenCargo(id, to) \in Cargos
  BY BridgeOutTokenTypes DEF TInv, PInv
<1>4. PInv' /\ PendingAdd(d, q)
  BY <1>1, <1>3, OneSent DEF TInv
<1>5. \A i \in TokenIds \ {id} : ~Carries(q, i)
  BY DEF Carries, Payload, TokenCargo
<1> HIDE DEF q
<1>6. \A i \in TokenIds \ {id} : TokenSame(i)
  BY <1>2, <1>4, <1>5, CarriersKept DEF TokenSame
<1>7. InOnePlace(id)' /\ MarkedAtHome(id)'
  BY <1>1, <1>2, <1>4, SentKept DEF TInv
<1> QED
  BY <1>1, <1>2, <1>4, <1>6, <1>7, TokenSameKept DEF TInv, q

\* A request that bridges no token.
LEMMA OtherRequestTokens ==
  ASSUME TInv, TypeOK', UNCHANGED <<tokenOwner, burnedTokens, openJobs, failedJobs>>,
         NEW c \in Chains, NEW d \in Chains, NEW fee \in Fees, NEW cargo \in Cargos,
         cargo.kind # "token", Send(c, d, fee, cargo)
  PROVE  /\ TInv' /\ PendingAdd(d, Payload(c, fee, cargo))
         /\ \A id \in TokenIds : TokenSame(id)
<1>1. PInv' /\ PendingAdd(d, Payload(c, fee, cargo))
  BY OneSent DEF TInv
<1>2. \A id \in TokenIds : ~Carries(Payload(c, fee, cargo), id)
  BY DEF Carries, Payload
<1>3. \A id \in TokenIds : CarriersSame(id)
  BY <1>1, <1>2, CarriersKept
<1> QED
  BY <1>1, <1>3, NoTokenTouched

\* Sending coins touches no token.
LEMMA BridgeOutCoinsTokens ==
  ASSUME TInv, NEW c \in Chains, NEW d \in Chains, NEW fee \in Fees,
         NEW h \in Chains, NEW from \in Accounts, NEW to \in Accounts \union {Zero},
         NEW amount \in Amounts, BridgeOutCoins(c, d, fee, h, from, to, amount)
  PROVE  /\ TInv' /\ PendingAdd(d, Payload(c, fee, CoinCargo(h, to, amount)))
         /\ \A id \in TokenIds : TokenSame(id)
<1>1. TypeOK' /\ CoinCargo(h, to, amount) \in Cargos
  BY BridgeOutCoinsTypes DEF TInv, PInv
<1>2. CoinCargo(h, to, amount).kind # "token"
  BY DEF CoinCargo
<1> QED
  BY <1>1, <1>2, OtherRequestTokens DEF BridgeOutCoins, tokenVars

\* Sending the collection's deployment touches no token.
LEMMA BridgeOutCollectionTokens ==
  ASSUME TInv, NEW c \in Chains, NEW d \in Chains, NEW fee \in Fees,
         BridgeOutCollection(c, d, fee)
  PROVE  /\ TInv' /\ PendingAdd(d, Payload(c, fee, Collection))
         /\ \A id \in TokenIds : TokenSame(id)
<1>1. TypeOK' /\ Collection \in Cargos
  BY BridgeOutCollectionTypes DEF TInv, PInv
<1>2. Collection.kind # "token"
  BY DEF Collection
<1> QED
  BY <1>1, <1>2, OtherRequestTokens DEF BridgeOutCollection, tokenVars

\* Bridging in, whoever does it.
LEMMA BridgeInRequestTokens ==
  ASSUME TInv, PInv', NEW d \in Chains, NEW p \in Pending(d), p \in Payloads,
         NEW r \in Accounts \union {Zero}, BridgeInRequest(d, p, r), PendingDrop(d, p)
  PROVE  /\ TInv'
         /\ p.cargo.kind # "token" => \A id \in TokenIds : TokenSame(id)
         /\ p.cargo.kind = "token" =>
              /\ p.cargo.id \in TokenIds /\ p.cargo.to \in Accounts
              /\ tokenOwner'[d][p.cargo.id] = p.cargo.to
              /\ \A id \in TokenIds \ {p.cargo.id} : TokenSame(id)
<1>1. TypeOK
  BY DEF TInv, PInv
<1>2. CASE p.cargo.kind # "token"
  <2>1. UNCHANGED <<tokenOwner, burnedTokens>>
    BY <1>1, <1>2, BridgeInTokens
  <2>2. \A id \in TokenIds : CarriersSame(id)
    BY <1>2, CarriersKept DEF Carries
  <2> QED
    BY <1>2, <2>1, <2>2, NoTokenTouched
<1>3. CASE p.cargo.kind = "token"
  <2> DEFINE id == p.cargo.id
             to == p.cargo.to
  <2>1. /\ id \in TokenIds /\ to \in Accounts
        /\ tokenOwner'[d][id] = to
        /\ \A e \in Chains, i \in TokenIds : e # d \/ i # id =>
                   /\ tokenOwner'[e][i] = tokenOwner[e][i]
                   /\ burnedTokens'[e][i] = burnedTokens[e][i]
    BY <1>1, <1>3, BridgeInTokens
  <2>2. Carries(p, id) /\ \A i \in TokenIds \ {id} : ~Carries(p, i)
    BY <1>3 DEF Carries
  <2>3. to # Zero
    BY <2>1, ChainAssumption
  <2> HIDE DEF id, to
  <2>4. \A i \in TokenIds \ {id} : TokenSame(i)
    BY <2>1, <2>2, CarriersKept DEF TokenSame
  <2>5. InOnePlace(id)' /\ MarkedAtHome(id)'
    BY <2>1, <2>2, <2>3, ReceivedKept DEF TInv
  <2>6. TInv'
    BY <2>4, <2>5, TokenSameKept DEF TInv
  <2> QED
    BY <1>3, <2>1, <2>4, <2>6 DEF id, to
<1> QED
  BY <1>2, <1>3

\* The invariant on tokens is inductive.
LEMMA NextTokens ==
  ASSUME PrefixesApart, TInv, [Next]_vars
  PROVE  TInv'
<1>1. CASE UNCHANGED vars
  <2>1. PInv' /\ PendingSame
    BY <1>1, NextTypes, NothingSent DEF TInv, PInv, vars
  <2>2. \A id \in TokenIds : CarriersSame(id)
    BY <2>1, CarriersKept
  <2> QED
    BY <1>1, <2>1, <2>2, NoTokenTouched DEF vars
<1>2. CASE OnOneChain
  <2>1. PICK c \in Chains :
          \/ DeployHolographableContract(c)
          \/ \E to \in Accounts, n \in Numbers : SourceMint(c, to, n)
          \/ \E to \in Accounts, b \in Batches :
               SourceMintBatchIncremental(c, to, b[1], b[2])
          \/ \E id \in TokenIds : Burn(c, id)
          \/ \E a \in Accounts, amount \in Amounts :
               HolographNativeToken(c, a, amount) \/ ExtractNativeToken(c, a, amount)
    BY <1>2 DEF OnOneChain
  <2>2. ASSUME UNCHANGED <<tokenVars, jobNonce, wire, openJobs, failedJobs>>
        PROVE  TInv'
    <3>1. PInv' /\ PendingSame
      BY <1>2, <2>2, NextTypes, NothingSent DEF TInv, PInv, Next
    <3>2. \A id \in TokenIds : CarriersSame(id)
      BY <3>1, CarriersKept
    <3> QED
      BY <2>2, <3>1, <3>2, NoTokenTouched DEF tokenVars
  <2>3. CASE DeployHolographableContract(c)
    BY <2>2, <2>3 DEF DeployHolographableContract, sendVars
  <2>4. CASE \E to \in Accounts, n \in Numbers : SourceMint(c, to, n)
    BY <2>4, SourceMintTokens
  <2>5. CASE \E to \in Accounts, b \in Batches :
               SourceMintBatchIncremental(c, to, b[1], b[2])
    BY <2>5, SourceMintBatchTokens
  <2>6. CASE \E id \in TokenIds : Burn(c, id)
    BY <2>6, BurnTokens
  <2>7. CASE \E a \in Accounts, amount \in Amounts :
               HolographNativeToken(c, a, amount) \/ ExtractNativeToken(c, a, amount)
    BY <2>2, <2>7 DEF HolographNativeToken, ExtractNativeToken
  <2> QED
    BY <2>1, <2>3, <2>4, <2>5, <2>6, <2>7
<1>3. CASE BridgingOut
  BY <1>3, BridgeOutTokenTokens, BridgeOutCoinsTokens, BridgeOutCollectionTokens
     DEF BridgingOut
<1>4. CASE BridgingIn
  <2>1. ASSUME NEW d \in Chains, NEW p \in wire[d], LzReceive(d, p) PROVE TInv'
    <3>1. PInv' /\ PendingSame
      BY <2>1, LzReceivePending DEF TInv
    <3>2. \A id \in TokenIds : CarriersSame(id)
      BY <3>1, CarriersKept
    <3> QED
      BY <2>1, <3>1, <3>2, NoTokenTouched DEF LzReceive, tokenVars
  <2>2. ASSUME NEW d \in Chains, NEW p \in openJobs[d], FailJob(d, p) PROVE TInv'
    <3>1. PInv' /\ PendingSame
      BY <2>2, FailJobPending DEF TInv
    <3>2. \A id \in TokenIds : CarriersSame(id)
      BY <3>1, CarriersKept
    <3> QED
      BY <2>2, <3>1, <3>2, NoTokenTouched DEF FailJob, tokenVars
  <2>3. ASSUME NEW d \in Chains, NEW p \in openJobs[d], NEW executor \in Accounts,
               ExecuteJob(d, p, executor)
        PROVE  TInv'
    <3>1. PInv' /\ PendingDrop(d, p) /\ p \in Pending(d) /\ p \in Payloads
      BY <2>3, ExecuteJobPending DEF TInv
    <3> QED
      BY <2>3, <3>1, BridgeInRequestTokens DEF ExecuteJob
  <2>4. ASSUME NEW d \in Chains, NEW p \in failedJobs[d], RecoverJob(d, p)
        PROVE  TInv'
    <3>1. PInv' /\ PendingDrop(d, p) /\ p \in Pending(d) /\ p \in Payloads
      BY <2>4, RecoverJobPending DEF TInv
    <3> QED
      BY <2>4, <3>1, BridgeInRequestTokens DEF RecoverJob
  <2> QED
    BY <1>4, <2>1, <2>2, <2>3, <2>4 DEF BridgingIn
<1> QED
  BY <1>1, <1>2, <1>3, <1>4 DEF Next

\* Nothing is pending at first.
LEMMA InitPending ==
  ASSUME Init
  PROVE  PInv /\ \A c \in Chains : Pending(c) = {}
<1>1. TypeOK
  BY DEF Init, TypeOK
<1>2. \A c \in Chains : wire[c] = {} /\ openJobs[c] = {} /\ failedJobs[c] = {}
  BY DEF Init
<1>3. \A c \in Chains : Pending(c) = {}
  BY <1>2 DEF Pending
<1>4. NoncesUsed /\ OnePayload /\ OneStage
  BY <1>2, <1>3 DEF NoncesUsed, OnePayload, OneStage
<1>5. FinitelyPending
  BY <1>3, FS_EmptySet DEF FinitelyPending
<1> QED
  BY <1>1, <1>3, <1>4, <1>5 DEF PInv

\* No token is born at first.
LEMMA InitTokens ==
  ASSUME Init
  PROVE  TInv /\ \A id \in TokenIds : ~Born(id)
<1>1. PInv /\ \A c \in Chains : Pending(c) = {}
  BY InitPending
<1>2. \A id \in TokenIds, c \in Chains : ~Exists(c, id) /\ ~burnedTokens[c][id]
  BY DEF Init, Exists
<1>3. \A id \in TokenIds : ~Born(id)
  BY <1>1, <1>2 DEF Born
<1> QED
  BY <1>1, <1>2, <1>3 DEF TInv, InOnePlace, MarkedAtHome

\* The invariant, token by token, is the property.
LEMMA InOnePlaceIsTokenInOnePlace ==
  ASSUME TInv
  PROVE  TokenInOnePlace
<1>1. NoOverlap
  BY DEF TInv, InOnePlace, NoOverlap
<1> QED
  BY <1>1 DEF TInv, InOnePlace, TokenInOnePlace

\* When no two chains can mint the same id, a token exists on one chain at most, or
\* is carried by one pending payload at most, never both, whatever the order of
\* mints, burns, bridge requests, deliveries, failures and recoveries.
THEOREM TokensInOnePlace ==
  ASSUME PrefixesApart
  PROVE  Spec => []TokenInOnePlace
<1>1. Init => TInv
  BY InitTokens
<1>2. TInv /\ [Next]_vars => TInv'
  BY NextTokens
<1>3. TInv => TokenInOnePlace
  BY InOnePlaceIsTokenInOnePlace
<1> QED
  BY <1>1, <1>2, <1>3, PTL DEF Spec

\* Whatever is on its way to a chain can land there, now or when it is recovered,
\* once the collection is there; the one exception is what was sent to the zero
\* address, which the ERC20's bridgeOut does not refuse.
PayloadsCanLand ==
  \A d \in Chains : \A p \in Pending(d) :
    p.cargo.kind # "collection" /\ d \in deployed /\ p.cargo.to # Zero =>
      CanBridgeIn(d, p.cargo)

\* When no two chains can mint the same id, nothing that happens while a payload is
\* pending, on its chain or on another one, makes it impossible to land: no
\* bridgeIn ever meets a token that exists.
THEOREM PayloadsStayDeliverable ==
  ASSUME PrefixesApart
  PROVE  Spec => []PayloadsCanLand
<1>1. Init => TInv
  BY InitTokens
<1>2. TInv /\ [Next]_vars => TInv'
  BY NextTokens
<1>3. TInv => PayloadsCanLand
  <2> SUFFICES ASSUME TInv, NEW d \in Chains, NEW p \in Pending(d),
                      p.cargo.kind # "collection", d \in deployed, p.cargo.to # Zero
               PROVE  CanBridgeIn(d, p.cargo)
    BY DEF PayloadsCanLand
  <2>1. p \in Payloads
    BY DEF TInv, PInv, TypeOK, Pending
  <2>2. p.cargo \in Cargos
    BY <2>1 DEF Payloads
  <2>3. CASE p.cargo.kind = "token"
    <3>1. p.cargo.id \in TokenIds
      BY <2>2, <2>3 DEF Cargos, TokenCargo, CoinCargo, Collection
    <3>2. Carries(p, p.cargo.id)
      BY <2>3 DEF Carries
    <3>3. ~Exists(d, p.cargo.id)
      BY <3>1, <3>2 DEF TInv, InOnePlace
    <3> QED
      BY <2>3, <3>3 DEF CanBridgeIn
  <2>4. CASE p.cargo.kind = "coins"
    BY <2>4 DEF CanBridgeIn
  <2> QED
    BY <2>2, <2>3, <2>4 DEF Cargos, TokenCargo, CoinCargo, Collection
<1> QED
  BY <1>1, <1>2, <1>3, PTL DEF Spec

-----------------------------------------------------------------------------
(***************************************************************************)
(* What the steps do to the coins in circulation.                          *)
(***************************************************************************)
\* The hTokens of chain h that payloads for chain c carry or owe.
Carried(h, c) == SumFunction([p \in Pending(c) |-> Owed(h, p)])

\* A chain's part of the circulation is a natural number.
LEMMA CarriedType ==
  ASSUME PInv, NEW g \in Chains, NEW e \in Chains
  PROVE  /\ [p \in Pending(e) |-> Owed(g, p)] \in [Pending(e) -> Nat]
         /\ Carried(g, e) \in Nat /\ SumFunction(coins[g][e]) \in Nat
         /\ OnChain(g, e) = SumFunction(coins[g][e]) + Carried(g, e)
         /\ OnChain(g, e) \in Nat
<1>1. [p \in Pending(e) |-> Owed(g, p)] \in [Pending(e) -> Nat]
  BY PendingTypes, OwedType DEF PInv
<1>2. Carried(g, e) \in Nat
  BY <1>1, SumType DEF Carried, PInv, FinitelyPending
<1>3. SumFunction(coins[g][e]) \in Nat
  BY SumType, FinitenessAssumption DEF PInv, TypeOK
<1>4. OnChain(g, e) = SumFunction(coins[g][e]) + Carried(g, e)
  BY DEF OnChain, Carried
<1> QED
  BY <1>1, <1>2, <1>3, <1>4

\* The circulation is a natural number.
LEMMA CirculatingType ==
  ASSUME PInv, NEW g \in Chains
  PROVE  /\ [c \in Chains |-> OnChain(g, c)] \in [Chains -> Nat]
         /\ Circulating(g) \in Nat
<1>1. [c \in Chains |-> OnChain(g, c)] \in [Chains -> Nat]
  BY CarriedType
<1> QED
  BY <1>1, SumType, FinitenessAssumption DEF Circulating

\* The same in the next state.
LEMMA NextSumTypes ==
  PInv' => (\A g, e \in Chains : /\ OnChain(g, e) \in Nat
                                 /\ Carried(g, e) \in Nat
                                 /\ SumFunction(coins[g][e]) \in Nat
                                 /\ Circulating(g) \in Nat)'
<1>1. PInv => \A g, e \in Chains : /\ OnChain(g, e) \in Nat
                                   /\ Carried(g, e) \in Nat
                                   /\ SumFunction(coins[g][e]) \in Nat
                                   /\ Circulating(g) \in Nat
  BY CarriedType, CirculatingType
<1> QED
  BY <1>1, PTL

\* What is carried changes only with the payloads...
LEMMA CarriedSame ==
  ASSUME PendingSame, NEW g \in Chains, NEW e \in Chains
  PROVE  Carried(g, e)' = Carried(g, e)
  BY DEF PendingSame, Carried, Owed

\* ... it grows by what a new payload is owed...
LEMMA CarriedAdd ==
  ASSUME PInv, NEW d \in Chains, NEW q \in Payloads, PendingAdd(d, q),
         \A e \in Chains : q \notin Pending(e), NEW g \in Chains, NEW e \in Chains
  PROVE  Carried(g, e)' = Carried(g, e) + (IF e = d THEN Owed(g, q) ELSE 0)
<1> DEFINE old == [p \in Pending(e) |-> Owed(g, p)]
           new == [p \in Pending(e)' |-> Owed(g, p)]
<1>1. Carried(g, e) = SumFunction(old) /\ Carried(g, e)' = SumFunction(new)
  BY DEF Carried, Owed
<1>2. old \in [Pending(e) -> Nat] /\ Carried(g, e) \in Nat /\ IsFiniteSet(Pending(e))
  BY CarriedType DEF PInv, FinitelyPending
<1>3. Owed(g, q) \in Nat
  BY OwedType
<1>4. CASE e = d
  <2>1. Pending(e)' = Pending(e) \union {q} /\ q \notin Pending(e)
    BY <1>4 DEF PendingAdd
  <2>2. /\ new \in [Pending(e) \union {q} -> Nat] /\ new[q] = Owed(g, q)
        /\ \A p \in Pending(e) : new[p] = old[p]
    BY <1>2, <1>3, <2>1
  <2> HIDE DEF old, new
  <2>3. SumFunction(new) = SumFunction(old) + new[q]
    BY <1>2, <2>1, <2>2, SumAdd
  <2> QED
    BY <1>1, <1>4, <2>2, <2>3
<1>5. CASE e # d
  <2>1. new = old
    BY <1>5 DEF PendingAdd
  <2> QED
    BY <1>1, <1>2, <1>5, <2>1
<1> QED
  BY <1>4, <1>5

\* ... and shrinks by what a payload that is done was owed.
LEMMA CarriedDrop ==
  ASSUME PInv, NEW d \in Chains, NEW q \in Pending(d), PendingDrop(d, q),
         NEW g \in Chains, NEW e \in Chains
  PROVE  Carried(g, e) = Carried(g, e)' + (IF e = d THEN Owed(g, q) ELSE 0)
<1> DEFINE old == [p \in Pending(e) |-> Owed(g, p)]
           new == [p \in Pending(e)' |-> Owed(g, p)]
<1>1. Carried(g, e) = SumFunction(old) /\ Carried(g, e)' = SumFunction(new)
  BY DEF Carried, Owed
<1>2. old \in [Pending(e) -> Nat] /\ Carried(g, e) \in Nat /\ IsFiniteSet(Pending(e))
  BY CarriedType DEF PInv, FinitelyPending
<1>3. CASE e = d
  <2>1. Pending(e)' = Pending(e) \ {q} /\ q \in Pending(e)
    BY <1>3 DEF PendingDrop
  <2>2. /\ new \in [Pending(e) \ {q} -> Nat] /\ old[q] = Owed(g, q)
        /\ \A p \in Pending(e) \ {q} : new[p] = old[p]
    BY <1>2, <2>1
  <2>3. IsFiniteSet(Pending(e) \ {q}) /\ old[q] \in Nat
    BY <1>2, <2>1, FS_RemoveElement
  <2> HIDE DEF old, new
  <2>4. SumFunction(old) = old[q] + SumFunction(new)
    BY <1>2, <2>1, <2>2, SumRemove
  <2>5. SumFunction(new) \in Nat
    BY <2>2, <2>3, SumType
  <2> QED
    BY <1>1, <1>3, <2>2, <2>3, <2>4, <2>5
<1>4. CASE e # d
  <2>1. new = old
    BY <1>4 DEF PendingDrop
  <2> QED
    BY <1>1, <1>2, <1>4, <2>1
<1> QED
  BY <1>3, <1>4

\* From f to g, one summand shrinks and one grows.
Shifts(S, f, g, c, less, d, more) ==
  \A e \in S : g[e] + (IF e = c THEN less ELSE 0)
                 = f[e] + (IF e = d THEN more ELSE 0)

\* A sum whose summands move follows them.
LEMMA SumShift ==
  ASSUME NEW S, IsFiniteSet(S), NEW f \in [S -> Nat], NEW g \in [S -> Nat],
         NEW c \in S, NEW d \in S, NEW less \in Nat, NEW more \in Nat,
         Shifts(S, f, g, c, less, d, more)
  PROVE  SumFunction(g) + less = SumFunction(f) + more
<1> DEFINE mid == [f EXCEPT ![d] = @ + more]
<1>1. /\ mid \in [S -> Nat] /\ mid[d] = f[d] + more
      /\ \A e \in S \ {d} : mid[e] = f[e]
  OBVIOUS
<1>2. g[c] + less = mid[c] /\ \A e \in S \ {c} : g[e] = mid[e]
  BY <1>1 DEF Shifts
<1> HIDE DEF mid
<1>3. SumFunction(mid) + f[d] = SumFunction(f) + mid[d]
  BY <1>1, SumChange
<1>4. SumFunction(g) + mid[c] = SumFunction(mid) + g[c]
  BY <1>1, <1>2, SumChange
<1>5. /\ SumFunction(f) \in Nat /\ SumFunction(g) \in Nat /\ SumFunction(mid) \in Nat
      /\ f[d] \in Nat /\ g[c] \in Nat /\ mid[c] \in Nat /\ mid[d] \in Nat
  BY <1>1, SumType
<1>6. mid[d] = f[d] + more /\ g[c] + less = mid[c]
  BY <1>1, <1>2
<1> QED
  BY ONLY <1>3, <1>4, <1>5, <1>6, less \in Nat, more \in Nat

\* So does the circulation when coins leave one chain and reach another.
LEMMA CirculatingShift ==
  ASSUME PInv, PInv', NEW g \in Chains, NEW c \in Chains, NEW d \in Chains,
         NEW less \in Nat, NEW more \in Nat,
         \A e \in Chains : OnChain(g, e)' + (IF e = c THEN less ELSE 0)
                             = OnChain(g, e) + (IF e = d THEN more ELSE 0)
  PROVE  Circulating(g)' + less = Circulating(g) + more
<1> DEFINE f == [e \in Chains |-> OnChain(g, e)]
           k == [e \in Chains |-> OnChain(g, e)']
<1>1. f \in [Chains -> Nat] /\ k \in [Chains -> Nat]
  BY CarriedType, NextSumTypes
<1>2. Shifts(Chains, f, k, c, less, d, more)
  BY DEF Shifts
<1>3. Circulating(g)' = SumFunction(k) /\ Circulating(g) = SumFunction(f)
  BY DEF Circulating
<1> HIDE DEF f, k
<1>4. SumFunction(k) + less = SumFunction(f) + more
  <2>1. IsFiniteSet(Chains)
    BY FinitenessAssumption
  <2> QED
    BY ONLY <1>1, <1>2, <2>1, SumShift, c \in Chains, d \in Chains,
            less \in Nat, more \in Nat
<1> QED
  BY ONLY <1>3, <1>4

\* No coin moved.
LEMMA CoinsSame ==
  ASSUME PInv, PInv', PendingSame, UNCHANGED coins, NEW g \in Chains
  PROVE  Circulating(g)' = Circulating(g)
<1>1. \A e \in Chains : OnChain(g, e)' = OnChain(g, e)
  BY CarriedSame, CarriedType DEF OnChain, Carried
<1>2. [e \in Chains |-> OnChain(g, e)'] = [e \in Chains |-> OnChain(g, e)]
  BY <1>1
<1> QED
  BY <1>2 DEF Circulating

\* The parts of a chain's share in the next state.
LEMMA OnChainNext ==
  ASSUME NEW g \in Chains, NEW e \in Chains
  PROVE  OnChain(g, e)' = SumFunction(coins'[g][e]) + Carried(g, e)'
  BY DEF OnChain, Carried

\* Wrapping adds the amount to the circulation.
LEMMA HolographNativeTokenCoins ==
  ASSUME PInv, PInv', PendingSame, NEW h \in Chains, NEW a \in Accounts,
         NEW amount \in Amounts, HolographNativeToken(h, a, amount), NEW g \in Chains
  PROVE  Circulating(g)' = Circulating(g) + (IF g = h THEN amount ELSE 0)
<1> DEFINE more == IF g = h THEN amount ELSE 0
<1>1. coins \in Balances /\ coins' = MintCoins(coins, h, h, a, amount) /\ amount \in Nat
  BY BoundAssumption DEF HolographNativeToken, PInv, TypeOK, Balances
<1>2. more \in Nat
  BY <1>1
<1>3. ASSUME NEW e \in Chains
      PROVE  OnChain(g, e)' + (IF e = h THEN 0 ELSE 0)
               = OnChain(g, e) + (IF e = h THEN more ELSE 0)
  <2>1. SumFunction(coins'[g][e])
          = SumFunction(coins[g][e]) + (IF g = h /\ e = h THEN amount ELSE 0)
    BY <1>1, MintCoinsSum
  <2>2. (IF g = h /\ e = h THEN amount ELSE 0) = IF e = h THEN more ELSE 0
    OBVIOUS
  <2> HIDE DEF more
  <2>3. /\ OnChain(g, e)' = SumFunction(coins'[g][e]) + Carried(g, e)
        /\ OnChain(g, e) = SumFunction(coins[g][e]) + Carried(g, e)
    BY CarriedSame, CarriedType, OnChainNext
  <2>4. Carried(g, e) \in Nat /\ SumFunction(coins[g][e]) \in Nat
    BY CarriedType
  <2> QED
    BY ONLY <1>2, <2>1, <2>2, <2>3, <2>4
<1> HIDE DEF more
<1>4. Circulating(g)' + 0 = Circulating(g) + more
  BY <1>2, <1>3, CirculatingShift
<1>5. Circulating(g) \in Nat /\ Circulating(g)' \in Nat
  BY CirculatingType, NextSumTypes
<1> QED
  BY <1>2, <1>4, <1>5 DEF more

\* Unwrapping takes the amount out of it.
LEMMA ExtractNativeTokenCoins ==
  ASSUME PInv, PInv', PendingSame, NEW h \in Chains, NEW a \in Accounts,
         NEW amount \in Amounts, ExtractNativeToken(h, a, amount), NEW g \in Chains
  PROVE  Circulating(g) = Circulating(g)' + (IF g = h THEN amount ELSE 0)
<1> DEFINE less == IF g = h THEN amount ELSE 0
<1>1. /\ coins \in Balances /\ coins' = BurnCoins(coins, h, h, a, amount)
      /\ amount \in Nat /\ amount <= coins[h][h][a]
  BY BoundAssumption DEF ExtractNativeToken, PInv, TypeOK, Balances
<1>2. less \in Nat
  BY <1>1
<1>3. ASSUME NEW e \in Chains
      PROVE  OnChain(g, e)' + (IF e = h THEN less ELSE 0)
               = OnChain(g, e) + (IF e = h THEN 0 ELSE 0)
  <2>1. SumFunction(coins[g][e])
          = SumFunction(coins'[g][e]) + (IF g = h /\ e = h THEN amount ELSE 0)
    BY <1>1, BurnCoinsSum
  <2>2. (IF g = h /\ e = h THEN amount ELSE 0) = IF e = h THEN less ELSE 0
    OBVIOUS
  <2> HIDE DEF less
  <2>3. /\ OnChain(g, e)' = SumFunction(coins'[g][e]) + Carried(g, e)
        /\ OnChain(g, e) = SumFunction(coins[g][e]) + Carried(g, e)
    BY CarriedSame, CarriedType, OnChainNext
  <2>4. Carried(g, e) \in Nat /\ SumFunction(coins'[g][e]) \in Nat
    BY CarriedType, NextSumTypes
  <2> QED
    BY ONLY <1>2, <2>1, <2>2, <2>3, <2>4
<1> HIDE DEF less
<1>4. Circulating(g)' + less = Circulating(g) + 0
  BY <1>2, <1>3, CirculatingShift
<1>5. Circulating(g) \in Nat /\ Circulating(g)' \in Nat
  BY CirculatingType, NextSumTypes
<1> QED
  BY <1>2, <1>4, <1>5 DEF less

\* A request that carries no coins adds its fee to what is in circulation.
LEMMA RequestCoins ==
  ASSUME PInv, PInv', UNCHANGED coins, NEW c \in Chains, NEW d \in Chains,
         NEW fee \in Fees, NEW cargo, cargo.kind # "coins",
         Payload(c, fee, cargo) \in Payloads,
         PendingAdd(d, Payload(c, fee, cargo)),
         \A e \in Chains : Payload(c, fee, cargo) \notin Pending(e), NEW g \in Chains
  PROVE  Circulating(g)' = Circulating(g) + (IF g = c THEN fee ELSE 0)
<1> DEFINE q == Payload(c, fee, cargo)
           more == IF g = c THEN fee ELSE 0
<1>1. more \in Nat
  BY BoundAssumption
<1>2. Owed(g, q) = more
  BY <1>1 DEF Payload, Owed
<1> HIDE DEF q, more
<1>3. ASSUME NEW e \in Chains
      PROVE  OnChain(g, e)' + (IF e = d THEN 0 ELSE 0)
               = OnChain(g, e) + (IF e = d THEN more ELSE 0)
  <2>1. Carried(g, e)' = Carried(g, e) + (IF e = d THEN more ELSE 0)
    BY <1>2, CarriedAdd DEF q
  <2>2. /\ OnChain(g, e)' = SumFunction(coins[g][e]) + Carried(g, e)'
        /\ OnChain(g, e) = SumFunction(coins[g][e]) + Carried(g, e)
    BY CarriedType, OnChainNext
  <2>3. Carried(g, e) \in Nat /\ SumFunction(coins[g][e]) \in Nat
    BY CarriedType
  <2> QED
    BY ONLY <1>1, <2>1, <2>2, <2>3
<1>4. Circulating(g)' + 0 = Circulating(g) + more
  BY <1>1, <1>3, CirculatingShift
<1>5. Circulating(g) \in Nat /\ Circulating(g)' \in Nat
  BY CirculatingType, NextSumTypes
<1> QED
  BY <1>1, <1>4, <1>5 DEF more

\* So does one that carries coins: they leave a balance and stay in circulation.
LEMMA BridgeOutCoinsCoins ==
  ASSUME PInv, PInv', NEW c \in Chains, NEW d \in Chains, NEW fee \in Fees,
         NEW h \in Chains, NEW from \in Accounts, NEW to \in Accounts \union {Zero},
         NEW amount \in Amounts, BridgeOutCoins(c, d, fee, h, from, to, amount),
         NEW g \in Chains
  PROVE  Circulating(g)' = Circulating(g) + (IF g = c THEN fee ELSE 0)
<1> DEFINE q == Payload(c, fee, CoinCargo(h, to, amount))
           paid == IF g = c THEN fee ELSE 0
           less == IF g = h THEN amount ELSE 0
           more == paid + less
<1>1. /\ coins \in Balances /\ coins' = BurnCoins(coins, h, c, from, amount)
      /\ amount <= coins[h][c][from] /\ Send(c, d, fee, CoinCargo(h, to, amount))
      /\ UNCHANGED <<openJobs, failedJobs>>
  BY DEF BridgeOutCoins, PInv, TypeOK, Balances
<1>2. amount \in Nat /\ fee \in Nat /\ less \in Nat /\ paid \in Nat
  BY BoundAssumption
<1>3. Owed(g, q) = more
  BY DEF Payload, CoinCargo, Owed
<1>4. TypeOK' /\ CoinCargo(h, to, amount) \in Cargos
  BY BridgeOutCoinsTypes DEF PInv
<1>5. q \in Payloads /\ PendingAdd(d, q) /\ \A e \in Chains : q \notin Pending(e)
  BY <1>1, <1>4, OneSent
<1>6. more \in Nat
  BY <1>2
<1> HIDE DEF q, more
<1>7. ASSUME NEW e \in Chains
      PROVE  OnChain(g, e)' + (IF e = c THEN less ELSE 0)
               = OnChain(g, e) + (IF e = d THEN more ELSE 0)
  <2>1. SumFunction(coins[g][e])
          = SumFunction(coins'[g][e]) + (IF g = h /\ e = c THEN amount ELSE 0)
    BY <1>1, <1>2, BurnCoinsSum
  <2>2. (IF g = h /\ e = c THEN amount ELSE 0) = IF e = c THEN less ELSE 0
    OBVIOUS
  <2> HIDE DEF less
  <2>3. Carried(g, e)' = Carried(g, e) + (IF e = d THEN more ELSE 0)
    BY <1>3, <1>5, CarriedAdd
  <2>4. /\ OnChain(g, e)' = SumFunction(coins'[g][e]) + Carried(g, e)'
        /\ OnChain(g, e) = SumFunction(coins[g][e]) + Carried(g, e)
    BY CarriedType, OnChainNext
  <2>5. Carried(g, e) \in Nat /\ SumFunction(coins'[g][e]) \in Nat
    BY CarriedType, NextSumTypes
  <2> QED
    BY ONLY <1>2, <1>6, <2>1, <2>2, <2>3, <2>4, <2>5
<1> HIDE DEF less
<1>8. Circulating(g)' + less = Circulating(g) + more
  BY <1>2, <1>6, <1>7, CirculatingShift
<1>9. Circulating(g) \in Nat /\ Circulating(g)' \in Nat
  BY CirculatingType, NextSumTypes
<1>10. more = paid + less
  BY DEF more
<1> HIDE DEF paid
<1>11. Circulating(g)' = Circulating(g) + paid
  BY ONLY <1>2, <1>8, <1>9, <1>10
<1> QED
  BY <1>11 DEF paid

\* Bridging in takes the fee out of circulation when nobody receives it.
LEMMA BridgeInRequestCoins ==
  ASSUME PInv, PInv', NEW d \in Chains, NEW p \in Pending(d), p \in Payloads,
         NEW r \in Accounts \union {Zero}, BridgeInRequest(d, p, r), PendingDrop(d, p),
         NEW g \in Chains
  PROVE  Circulating(g) = Circulating(g)'
                            + (IF r = Zero /\ g = p.from THEN p.fee ELSE 0)
<1> DEFINE less == IF r = Zero /\ g = p.from THEN p.fee ELSE 0
           got  == Credited(g, p, r)
           owed == Owed(g, p)
<1>1. less \in Nat
  BY PayloadTypes
<1>2. got \in Nat /\ owed \in Nat /\ owed = got + less
  BY OwedType
<1> HIDE DEF less, got, owed
<1>3. ASSUME NEW e \in Chains
      PROVE  OnChain(g, e)' + (IF e = d THEN less ELSE 0)
               = OnChain(g, e) + (IF e = d THEN 0 ELSE 0)
  <2>1. SumFunction(coins'[g][e])
          = SumFunction(coins[g][e]) + (IF e = d THEN got ELSE 0)
    BY BridgeInCoins DEF got, PInv
  <2>2. Carried(g, e) = Carried(g, e)' + (IF e = d THEN owed ELSE 0)
    BY CarriedDrop DEF owed
  <2>3. /\ OnChain(g, e)' = SumFunction(coins'[g][e]) + Carried(g, e)'
        /\ OnChain(g, e) = SumFunction(coins[g][e]) + Carried(g, e)
    BY CarriedType, OnChainNext
  <2>4. Carried(g, e)' \in Nat /\ SumFunction(coins[g][e]) \in Nat
    BY CarriedType, NextSumTypes
  <2> QED
    BY ONLY <1>1, <1>2, <2>1, <2>2, <2>3, <2>4
<1>4. Circulating(g)' + less = Circulating(g) + 0
  BY <1>1, <1>3, CirculatingShift
<1>5. Circulating(g) \in Nat /\ Circulating(g)' \in Nat
  BY CirculatingType, NextSumTypes
<1> QED
  BY <1>1, <1>4, <1>5 DEF less

-----------------------------------------------------------------------------
(***************************************************************************)
(* Steps, as seen by the accounting: what comes into circulation, what goes*)
(* out of it, and what comes and goes in native coin.                      *)
(***************************************************************************)
\* amount of the hToken of chain h, in circulation and in native coin.
Deposited(h, amount) ==
  /\ amount \in Nat
  /\ \A g \in Chains : Circulating(g)' = Circulating(g) + (IF g = h THEN amount ELSE 0)
  /\ native' = [native EXCEPT ![h] = @ + amount]

\* Coins leave the circulation and the native coin behind them is paid out.
Withdrawn(h, amount) ==
  /\ amount \in Nat /\ amount <= native[h]
  /\ \A g \in Chains : Circulating(g) = Circulating(g)' + (IF g = h THEN amount ELSE 0)
  /\ native' = [native EXCEPT ![h] = @ - amount]

\* Coins leave the circulation and the native coin behind them stays.
Forgone(h, fee) ==
  /\ fee \in Nat
  /\ \A g \in Chains : Circulating(g) = Circulating(g)' + (IF g = h THEN fee ELSE 0)
  /\ UNCHANGED native

\* No coin moves.
CoinsKept == (\A g \in Chains : Circulating(g)' = Circulating(g)) /\ UNCHANGED native

\* The ways in which a step moves coins.
CoinsMove ==
  \/ CoinsKept
  \/ \E h \in Chains, amount \in Amounts : Deposited(h, amount) \/ Withdrawn(h, amount)
  \/ \E h \in Chains, fee \in Fees : Deposited(h, fee) \/ Forgone(h, fee)

\* Wrapping deposits native coin for what it mints.
LEMMA HolographNativeTokenMoves ==
  ASSUME PInv, NEW h \in Chains, NEW a \in Accounts, NEW amount \in Amounts,
         HolographNativeToken(h, a, amount)
  PROVE  PInv' /\ PendingSame /\ Deposited(h, amount)
<1>1. PInv' /\ PendingSame
  BY HolographNativeTokenTypes, NothingSent DEF PInv, HolographNativeToken
<1>2. native' = [native EXCEPT ![h] = @ + amount] /\ amount \in Nat
  BY BoundAssumption DEF HolographNativeToken
<1> QED
  BY <1>1, <1>2, HolographNativeTokenCoins DEF Deposited

\* Unwrapping withdraws native coin for what it burns.
LEMMA ExtractNativeTokenMoves ==
  ASSUME PInv, NEW h \in Chains, NEW a \in Accounts, NEW amount \in Amounts,
         ExtractNativeToken(h, a, amount)
  PROVE  PInv' /\ PendingSame /\ Withdrawn(h, amount)
<1>1. PInv' /\ PendingSame
  BY ExtractNativeTokenTypes, NothingSent DEF PInv, ExtractNativeToken
<1>2. /\ native' = [native EXCEPT ![h] = @ - amount] /\ amount \in Nat
      /\ amount <= native[h]
  BY BoundAssumption DEF ExtractNativeToken
<1> QED
  BY <1>1, <1>2, ExtractNativeTokenCoins DEF Withdrawn

\* A token's request deposits its fee.
LEMMA BridgeOutTokenMoves ==
  ASSUME PInv, NEW c \in Chains, NEW d \in Chains, NEW fee \in Fees,
         NEW id \in TokenIds, NEW to \in Accounts, BridgeOutToken(c, d, fee, id, to)
  PROVE  PInv' /\ Deposited(c, fee)
<1> DEFINE cargo == TokenCargo(id, to)
<1>1. /\ Send(c, d, fee, cargo) /\ UNCHANGED <<openJobs, failedJobs, coins>>
  BY DEF BridgeOutToken
<1>2. TypeOK' /\ cargo \in Cargos
  BY BridgeOutTokenTypes DEF PInv
<1>3. cargo.kind # "coins"
  BY DEF TokenCargo
<1> HIDE DEF cargo
<1>4. /\ PInv' /\ PendingAdd(d, Payload(c, fee, cargo))
      /\ Payload(c, fee, cargo) \in Payloads
      /\ \A e \in Chains : Payload(c, fee, cargo) \notin Pending(e)
  BY <1>1, <1>2, OneSent
<1>5. native' = [native EXCEPT ![c] = @ + fee] /\ fee \in Nat
  BY <1>1, BoundAssumption DEF Send
<1> QED
  BY <1>1, <1>3, <1>4, <1>5, RequestCoins DEF Deposited

\* A deployment's request deposits its fee.
LEMMA BridgeOutCollectionMoves ==
  ASSUME PInv, NEW c \in Chains, NEW d \in Chains, NEW fee \in Fees,
         BridgeOutCollection(c, d, fee)
  PROVE  PInv' /\ Deposited(c, fee)
<1>1. /\ Send(c, d, fee, Collection) /\ UNCHANGED <<openJobs, failedJobs, coins>>
  BY DEF BridgeOutCollection
<1>2. TypeOK' /\ Collection \in Cargos
  BY BridgeOutCollectionTypes DEF PInv
<1>3. Collection.kind # "coins"
  BY DEF Collection
<1>4. /\ PInv' /\ PendingAdd(d, Payload(c, fee, Collection))
      /\ Payload(c, fee, Collection) \in Payloads
      /\ \A e \in Chains : Payload(c, fee, Collection) \notin Pending(e)
  BY <1>1, <1>2, OneSent
<1>5. native' = [native EXCEPT ![c] = @ + fee] /\ fee \in Nat
  BY <1>1, BoundAssumption DEF Send
<1> QED
  BY <1>1, <1>3, <1>4, <1>5, RequestCoins DEF Deposited

\* A request of coins deposits its fee: the coins stay in circulation.
LEMMA BridgeOutCoinsMoves ==
  ASSUME PInv, NEW c \in Chains, NEW d \in Chains, NEW fee \in Fees,
         NEW h \in Chains, NEW from \in Accounts, NEW to \in Accounts \union {Zero},
         NEW amount \in Amounts, BridgeOutCoins(c, d, fee, h, from, to, amount)
  PROVE  PInv' /\ Deposited(c, fee)
<1>1. /\ Send(c, d, fee, CoinCargo(h, to, amount))
      /\ UNCHANGED <<openJobs, failedJobs>>
  BY DEF BridgeOutCoins
<1>2. TypeOK' /\ CoinCargo(h, to, amount) \in Cargos
  BY BridgeOutCoinsTypes DEF PInv
<1>3. PInv'
  BY <1>1, <1>2, OneSent
<1>4. native' = [native EXCEPT ![c] = @ + fee] /\ fee \in Nat
  BY <1>1, BoundAssumption DEF Send
<1> QED
  BY <1>3, <1>4, BridgeOutCoinsCoins DEF Deposited

\* An executed job pays its fee and credits its coins: nothing leaves.
LEMMA ExecuteJobMoves ==
  ASSUME PInv, NEW d \in Chains, NEW p \in openJobs[d], NEW executor \in Accounts,
         ExecuteJob(d, p, executor)
  PROVE  PInv' /\ CoinsKept
<1>1. PInv' /\ PendingDrop(d, p) /\ p \in Pending(d) /\ p \in Payloads
  BY ExecuteJobPending
<1>2. BridgeInRequest(d, p, executor) /\ UNCHANGED native
  BY DEF ExecuteJob, sendVars
<1>3. executor # Zero
  BY ChainAssumption
<1>4. ASSUME NEW g \in Chains PROVE Circulating(g)' = Circulating(g)
  <2>1. Circulating(g) = Circulating(g)' + 0
    BY <1>1, <1>2, <1>3, BridgeInRequestCoins
  <2> QED
    BY <1>1, <2>1, NextSumTypes
<1> QED
  BY <1>1, <1>2, <1>4 DEF CoinsKept

\* A recovered job pays nobody, so its fee leaves the circulation.
LEMMA RecoverJobMoves ==
  ASSUME PInv, NEW d \in Chains, NEW p \in failedJobs[d], RecoverJob(d, p)
  PROVE  PInv' /\ Forgone(p.from, p.fee) /\ p.from \in Chains /\ p.fee \in Fees
<1>1. PInv' /\ PendingDrop(d, p) /\ p \in Pending(d) /\ p \in Payloads
  BY RecoverJobPending
<1>2. BridgeInRequest(d, p, Zero) /\ UNCHANGED native
  BY DEF RecoverJob, sendVars
<1>3. \A g \in Chains :
        Circulating(g) = Circulating(g)' + (IF g = p.from THEN p.fee ELSE 0)
  BY <1>1, <1>2, BridgeInRequestCoins
<1> QED
  BY <1>1, <1>2, <1>3, PayloadTypes DEF Forgone

\* A step that moves no coin.
LEMMA StillMoves ==
  ASSUME PInv, PInv', PendingSame, UNCHANGED <<coins, native>>
  PROVE  CoinsKept
  BY CoinsSame DEF CoinsKept

\* Each step moves coins in one of these ways.
LEMMA NextMoves ==
  ASSUME PInv, [Next]_vars
  PROVE  PInv' /\ CoinsMove
<1>1. TypeOK'
  BY NextTypes DEF PInv
<1>2. CASE UNCHANGED vars
  <2>1. PInv' /\ PendingSame
    BY <1>1, <1>2, NothingSent DEF vars
  <2> QED
    BY <1>2, <2>1, StillMoves DEF vars, CoinsMove
<1>3. CASE OnOneChain
  <2>1. PICK c \in Chains :
          \/ DeployHolographableContract(c)
          \/ \E to \in Accounts, n \in Numbers : SourceMint(c, to, n)
          \/ \E to \in Accounts, b \in Batches :
               SourceMintBatchIncremental(c, to, b[1], b[2])
          \/ \E id \in TokenIds : Burn(c, id)
          \/ \E a \in Accounts, amount \in Amounts :
               HolographNativeToken(c, a, amount) \/ ExtractNativeToken(c, a, amount)
    BY <1>3 DEF OnOneChain
  <2>2. ASSUME UNCHANGED <<coins, native, jobNonce, wire, openJobs, failedJobs>>
        PROVE  PInv' /\ CoinsMove
    <3>1. PInv' /\ PendingSame
      BY <1>1, <2>2, NothingSent
    <3> QED
      BY <2>2, <3>1, StillMoves DEF CoinsMove
  <2>3. CASE \/ DeployHolographableContract(c)
             \/ \E to \in Accounts, n \in Numbers : SourceMint(c, to, n)
             \/ \E to \in Accounts, b \in Batches :
                  SourceMintBatchIncremental(c, to, b[1], b[2])
             \/ \E id \in TokenIds : Burn(c, id)
    BY <2>2, <2>3 DEF DeployHolographableContract, SourceMint,
         SourceMintBatchIncremental, MintAll, Burn, sendVars
  <2>4. CASE \E a \in Accounts, amount \in Amounts :
               HolographNativeToken(c, a, amount) \/ ExtractNativeToken(c, a, amount)
    BY <2>4, HolographNativeTokenMoves, ExtractNativeTokenMoves DEF CoinsMove
  <2> QED
    BY <2>1, <2>3, <2>4
<1>4. CASE BridgingOut
  BY <1>4, BridgeOutTokenMoves, BridgeOutCoinsMoves, BridgeOutCollectionMoves
     DEF BridgingOut, CoinsMove
<1>5. CASE BridgingIn
  <2>1. ASSUME NEW d \in Chains, NEW p \in wire[d], LzReceive(d, p)
        PROVE  PInv' /\ CoinsMove
    BY <2>1, LzReceivePending, StillMoves DEF LzReceive, CoinsMove
  <2>2. ASSUME NEW d \in Chains, NEW p \in openJobs[d], FailJob(d, p)
        PROVE  PInv' /\ CoinsMove
    BY <2>2, FailJobPending, StillMoves DEF FailJob, sendVars, CoinsMove
  <2> QED
    BY <1>5, <2>1, <2>2, ExecuteJobMoves, RecoverJobMoves DEF BridgingIn, CoinsMove
<1> QED
  BY <1>2, <1>3, <1>4, <1>5 DEF Next

\* None of these ways lets the circulation exceed the native coin.
LEMMA NextCoins ==
  ASSUME PInv, PInv', CoinsMove, CoinsBacked
  PROVE  CoinsBacked'
<1> SUFFICES ASSUME NEW g \in Chains PROVE Circulating(g)' <= native'[g]
  BY DEF CoinsBacked
<1>1. /\ native \in [Chains -> Nat] /\ native[g] \in Nat
      /\ Circulating(g) \in Nat /\ Circulating(g)' \in Nat
      /\ Circulating(g) <= native[g]
  BY CirculatingType, NextSumTypes DEF PInv, TypeOK, CoinsBacked
<1>2. CASE CoinsKept
  BY <1>1, <1>2 DEF CoinsKept
<1>3. ASSUME NEW h \in Chains, NEW amount, Deposited(h, amount)
      PROVE  Circulating(g)' <= native'[g]
  <2>1. /\ amount \in Nat
        /\ Circulating(g)' = Circulating(g) + (IF g = h THEN amount ELSE 0)
        /\ native'[g] = native[g] + (IF g = h THEN amount ELSE 0)
    BY <1>1, <1>3 DEF Deposited
  <2> QED
    BY ONLY <1>1, <2>1
<1>4. ASSUME NEW h \in Chains, NEW amount, Withdrawn(h, amount)
      PROVE  Circulating(g)' <= native'[g]
  <2>1. /\ amount \in Nat
        /\ Circulating(g) = Circulating(g)' + (IF g = h THEN amount ELSE 0)
        /\ native'[g] = native[g] - (IF g = h THEN amount ELSE 0)
    BY <1>1, <1>4 DEF Withdrawn
  <2> QED
    BY ONLY <1>1, <2>1
<1>5. ASSUME NEW h \in Chains, NEW fee, Forgone(h, fee)
      PROVE  Circulating(g)' <= native'[g]
  <2>1. /\ fee \in Nat
        /\ Circulating(g) = Circulating(g)' + (IF g = h THEN fee ELSE 0)
        /\ native'[g] = native[g]
    BY <1>1, <1>5 DEF Forgone
  <2> QED
    BY ONLY <1>1, <2>1
<1> QED
  BY <1>2, <1>3, <1>4, <1>5 DEF CoinsMove

\* Nothing circulates at first.
LEMMA InitCoins ==
  ASSUME Init
  PROVE  \A g \in Chains : Circulating(g) = 0
<1> SUFFICES ASSUME NEW g \in Chains PROVE Circulating(g) = 0
  OBVIOUS
<1>1. PInv /\ \A c \in Chains : Pending(c) = {}
  BY InitPending
<1>2. ASSUME NEW e \in Chains PROVE OnChain(g, e) = 0
  <2>1. coins[g][e] \in [Accounts -> Nat] /\ \A a \in Accounts : coins[g][e][a] = 0
    BY DEF Init
  <2>2. SumFunction(coins[g][e]) = 0
    BY <2>1, SumOfZeros, FinitenessAssumption
  <2> DEFINE f == [p \in Pending(e) |-> Owed(g, p)]
  <2>3. f \in [{} -> Nat] /\ \A p \in {} : f[p] = 0
    BY <1>1
  <2> HIDE DEF f
  <2>4. SumFunction(f) = 0
    BY <2>3, SumOfZeros, FS_EmptySet
  <2>5. Carried(g, e) = 0
    BY <2>4 DEF Carried, f
  <2> QED
    BY <1>1, <2>2, <2>5, CarriedType
<1> DEFINE f == [c \in Chains |-> OnChain(g, c)]
<1>3. f \in [Chains -> Nat] /\ \A c \in Chains : f[c] = 0
  BY <1>2
<1> HIDE DEF f
<1>4. SumFunction(f) = 0
  BY <1>3, SumOfZeros, FinitenessAssumption
<1> QED
  BY <1>4 DEF Circulating, f

\* The hTokens of a chain, on all chains and in all pending payloads, the fees
\* promised to executors included, never exceed the native coin the chain holds.
THEOREM CoinsAreBacked == Spec => []CoinsBacked
<1>1. Init => CInv
  <2> SUFFICES ASSUME Init PROVE CInv
    OBVIOUS
  <2>1. PInv /\ \A g \in Chains : Circulating(g) = 0 /\ native[g] = 0
    BY InitPending, InitCoins DEF Init
  <2> QED
    BY <2>1 DEF CInv, CoinsBacked
<1>2. CInv /\ [Next]_vars => CInv'
  BY NextMoves, NextCoins DEF CInv
<1>3. CInv => CoinsBacked
  BY DEF CInv
<1> QED
  BY <1>1, <1>2, <1>3, PTL DEF Spec

-----------------------------------------------------------------------------
(***************************************************************************)
(* HolographBridge implements AssetTeleport.                               *)
(***************************************************************************)
LEMMA PlaceAt ==
  \A id \in TokenIds : InOnePlace(id) =>
    \A c \in Chains : Exists(c, id) => PlaceOf(id) = <<"at", c, tokenOwner[c][id]>>
<1> SUFFICES ASSUME NEW id \in TokenIds, InOnePlace(id), NEW c \in Chains, Exists(c, id)
             PROVE  PlaceOf(id) = <<"at", c, tokenOwner[c][id]>>
  OBVIOUS
<1> DEFINE at == {e \in Chains : Exists(e, id)}
<1>1. at = {c}
  BY DEF InOnePlace
<1>2. at # {} /\ (CHOOSE e \in at : TRUE) = c
  BY <1>1
<1> QED
  BY <1>2 DEF PlaceOf

\* A token that is carried is moving to where it is carried.
LEMMA PlaceMoving ==
  \A id \in TokenIds : InOnePlace(id) =>
    \A d \in Chains : \A p \in Pending(d) :
      Carries(p, id) => PlaceOf(id) = <<"moving", d, p.cargo.to>>
<1> SUFFICES ASSUME NEW id \in TokenIds, InOnePlace(id), NEW d \in Chains,
                    NEW p \in Pending(d), Carries(p, id)
             PROVE  PlaceOf(id) = <<"moving", d, p.cargo.to>>
  OBVIOUS
<1> DEFINE at     == {e \in Chains : Exists(e, id)}
           moving == {e \in Chains : \E q \in Pending(e) : Carries(q, id)}
<1>1. at = {} /\ moving = {d}
  BY DEF InOnePlace
<1>2. moving # {} /\ (CHOOSE e \in moving : TRUE) = d
  BY <1>1
<1>3. \A q \in Pending(d) : Carries(q, id) <=> q = p
  BY DEF InOnePlace
<1>4. (CHOOSE q \in Pending(d) : Carries(q, id)) = p
  BY <1>3
<1> QED
  BY <1>1, <1>2, <1>4 DEF PlaceOf

\* A token that is nowhere is burned when a chain that can mint it says so.
LEMMA PlaceNowhere ==
  \A id \in TokenIds :
    /\ \A c \in Chains : ~Exists(c, id)
    /\ \A d \in Chains : \A p \in Pending(d) : ~Carries(p, id)
    => PlaceOf(id) = IF \E c \in Home(id) : burnedTokens[c][id]
                       THEN <<"burned">> ELSE <<"unborn">>
<1> SUFFICES ASSUME NEW id \in TokenIds, \A c \in Chains : ~Exists(c, id),
                    \A d \in Chains : \A p \in Pending(d) : ~Carries(p, id)
             PROVE  PlaceOf(id) = IF \E c \in Home(id) : burnedTokens[c][id]
                                    THEN <<"burned">> ELSE <<"unborn">>
  OBVIOUS
<1> DEFINE at     == {e \in Chains : Exists(e, id)}
           moving == {e \in Chains : \E q \in Pending(e) : Carries(q, id)}
<1>1. at = {} /\ moving = {}
  OBVIOUS
<1> QED
  BY <1>1 DEF PlaceOf

\* The same three facts in the next state.
LEMMA NextPlaceAt ==
  (\A id \in TokenIds : InOnePlace(id) =>
     \A c \in Chains : Exists(c, id) => PlaceOf(id) = <<"at", c, tokenOwner[c][id]>>)'
  BY PlaceAt, PTL

\* A carried token, in the next state.
LEMMA NextPlaceMoving ==
  (\A id \in TokenIds : InOnePlace(id) =>
     \A d \in Chains : \A p \in Pending(d) :
       Carries(p, id) => PlaceOf(id) = <<"moving", d, p.cargo.to>>)'
  BY PlaceMoving, PTL

\* A token that is nowhere, in the next state.
LEMMA NextPlaceNowhere ==
  (\A id \in TokenIds :
     /\ \A c \in Chains : ~Exists(c, id)
     /\ \A d \in Chains : \A p \in Pending(d) : ~Carries(p, id)
     => PlaceOf(id) = IF \E c \in Home(id) : burnedTokens[c][id]
                        THEN <<"burned">> ELSE <<"unborn">>)'
  BY PlaceNowhere, PTL

\* A step that does not touch a token leaves it where it is.
LEMMA TokenSamePlace ==
  ASSUME NEW id \in TokenIds, TokenSame(id), InOnePlace(id), InOnePlace(id)'
  PROVE  PlaceOf(id)' = PlaceOf(id)
<1>1. \A q : Carries(q, id)' <=> Carries(q, id)
  BY DEF Carries
<1>2. \A c \in Chains : Exists(c, id)' <=> Exists(c, id)
  BY DEF TokenSame, Exists
<1>3. ASSUME NEW c \in Chains, Exists(c, id) PROVE PlaceOf(id)' = PlaceOf(id)
  <2>1. PlaceOf(id) = <<"at", c, tokenOwner[c][id]>>
    BY <1>3, PlaceAt
  <2>2. PlaceOf(id)' = <<"at", c, tokenOwner'[c][id]>>
    BY <1>2, <1>3, NextPlaceAt
  <2> QED
    BY <2>1, <2>2 DEF TokenSame
<1>4. ASSUME NEW d \in Chains, NEW p \in Pending(d), Carries(p, id)
      PROVE  PlaceOf(id)' = PlaceOf(id)
  <2>1. PlaceOf(id) = <<"moving", d, p.cargo.to>>
    BY <1>4, PlaceMoving
  <2>2. p \in Pending(d)' /\ Carries(p, id)'
    BY <1>1, <1>4 DEF TokenSame, CarriersSame
  <2>3. PlaceOf(id)' = <<"moving", d, p.cargo.to>>
    BY <2>2, NextPlaceMoving
  <2> QED
    BY <2>1, <2>3
<1>5. ASSUME \A c \in Chains : ~Exists(c, id),
             \A d \in Chains : \A p \in Pending(d) : ~Carries(p, id)
      PROVE  PlaceOf(id)' = PlaceOf(id)
  <2>1. /\ \A c \in Chains : ~Exists(c, id)'
        /\ \A d \in Chains : \A p \in Pending(d)' : ~Carries(p, id)'
    BY <1>1, <1>2, <1>5 DEF TokenSame, CarriersSame
  <2>2. PlaceOf(id)' = IF \E c \in Home(id) : burnedTokens'[c][id]
                         THEN <<"burned">> ELSE <<"unborn">>
    BY <2>1, NextPlaceNowhere DEF Home
  <2>3. PlaceOf(id) = IF \E c \in Home(id) : burnedTokens[c][id]
                        THEN <<"burned">> ELSE <<"unborn">>
    BY <1>5, PlaceNowhere
  <2>4. \A c \in Home(id) : burnedTokens'[c][id] = burnedTokens[c][id]
    BY DEF TokenSame, Home
  <2> QED
    BY <2>2, <2>3, <2>4
<1> QED
  BY <1>3, <1>4, <1>5

\* The token part of a step.
LEMMA PlacesSame ==
  ASSUME TInv, TInv', \A id \in TokenIds : TokenSame(id)
  PROVE  [id \in TokenIds |-> PlaceOf(id)]' = [id \in TokenIds |-> PlaceOf(id)]
<1>1. \A id \in TokenIds : PlaceOf(id)' = PlaceOf(id)
  BY TokenSamePlace DEF TInv
<1> QED
  BY <1>1

\* A step that touches one token changes its place only.
LEMMA OnePlaceChanges ==
  ASSUME TInv, TInv', NEW id \in TokenIds, NEW x, PlaceOf(id)' = x,
         \A i \in TokenIds \ {id} : TokenSame(i)
  PROVE  [i \in TokenIds |-> PlaceOf(i)]'
           = [[i \in TokenIds |-> PlaceOf(i)] EXCEPT ![id] = x]
<1>1. \A i \in TokenIds \ {id} : PlaceOf(i)' = PlaceOf(i)
  BY TokenSamePlace DEF TInv
<1> QED
  BY <1>1

\* A mint of the bridge is a mint of the specification.
LEMMA MintIsMint ==
  ASSUME PrefixesApart, TInv, NEW c \in Chains, NEW ids \in SUBSET MintedBy(c),
         NEW to \in Accounts, MintAll(c, ids, to)
  PROVE  Teleport!Mint(c, to)
<1>1. /\ TInv' /\ PendingSame
      /\ \A id \in TokenIds \ ids : TokenSame(id)
      /\ \A id \in ids : ~Born(id) /\ tokenOwner'[c][id] = to
  BY MintAllTokens
<1>2. ids \subseteq TokenIds /\ to # Zero
  BY MintedIds, ChainAssumption
<1>3. ASSUME NEW id \in TokenIds \ ids PROVE PlaceOf(id)' = PlaceOf(id)
  BY <1>1, TokenSamePlace DEF TInv
<1>4. ASSUME NEW id \in ids
      PROVE  PlaceOf(id) = <<"unborn">> /\ PlaceOf(id)' = <<"at", c, to>>
  <2>1. /\ \A d \in Chains : ~Exists(d, id) /\ ~burnedTokens[d][id]
        /\ \A d \in Chains : \A p \in Pending(d) : ~Carries(p, id)
    BY <1>1 DEF Born
  <2>2. PlaceOf(id) = <<"unborn">>
    BY <1>2, <2>1, PlaceNowhere DEF Home
  <2>3. Exists(c, id)' /\ tokenOwner'[c][id] = to /\ InOnePlace(id)' /\ id \in TokenIds
    BY <1>1, <1>2 DEF Exists, TInv
  <2>4. PlaceOf(id)' = <<"at", c, to>>
    BY <2>3, NextPlaceAt
  <2> QED
    BY <2>2, <2>4
<1> QED
  BY <1>3, <1>4 DEF Teleport!Mint, Teleport!Unborn, Teleport!At

\* A burn is a burn.
LEMMA BurnIsBurn ==
  ASSUME TInv, NEW c \in Chains, NEW id \in TokenIds, Burn(c, id)
  PROVE  TInv' /\ Teleport!Burn(id)
<1>1. /\ TInv' /\ PendingSame /\ Exists(c, id) /\ BurnedOn(c, id)
      /\ \A i \in TokenIds \ {id} : TokenSame(i)
  BY BurnTokens
<1>2. PlaceOf(id) = <<"at", c, tokenOwner[c][id]>>
  BY <1>1, PlaceAt DEF TInv
<1>3. PlaceOf(id)' = <<"burned">>
  <2>1. /\ \A d \in Chains : ~Exists(d, id)'
        /\ \A d \in Chains : \A p \in Pending(d) : ~Carries(p, id)
        /\ \E h \in Chains : id \in MintedBy(h) /\ burnedTokens'[h][id]
    BY <1>1, BurnedNowhere DEF TInv
  <2>2. \A d \in Chains : \A p \in Pending(d)' : ~Carries(p, id)'
    BY <1>1, <2>1 DEF PendingSame, Carries
  <2>3. \E h \in Home(id) : burnedTokens'[h][id]
    BY <2>1, MintedIds
  <2>4. PlaceOf(id)' = IF \E h \in Home(id) : burnedTokens'[h][id]
                         THEN <<"burned">> ELSE <<"unborn">>
    BY <2>1, <2>2, NextPlaceNowhere DEF Home
  <2> QED
    BY <2>3, <2>4
<1>4. [i \in TokenIds |-> PlaceOf(i)]'
        = [[i \in TokenIds |-> PlaceOf(i)] EXCEPT ![id] = <<"burned">>]
  BY <1>1, <1>3, OnePlaceChanges
<1> QED
  BY <1>1, <1>2, <1>4 DEF Teleport!Burn, Teleport!Burned

\* A token's request is its departure.
LEMMA RequestIsDepart ==
  ASSUME TInv, NEW c \in Chains, NEW d \in Chains, NEW fee \in Fees,
         NEW id \in TokenIds, NEW to \in Accounts, BridgeOutToken(c, d, fee, id, to)
  PROVE  TInv' /\ Teleport!Depart(id)
<1>0. PICK q : q = Payload(c, fee, TokenCargo(id, to))
  OBVIOUS
<1>1. /\ TInv' /\ PendingAdd(d, q) /\ Exists(c, id) /\ BurnedOn(c, id)
      /\ \A i \in TokenIds \ {id} : TokenSame(i)
  BY <1>0, BridgeOutTokenTokens
<1>2. PlaceOf(id) = <<"at", c, tokenOwner[c][id]>>
  BY <1>1, PlaceAt DEF TInv
<1>3. q \in Pending(d)'
  BY <1>1 DEF PendingAdd
<1>4. Carries(q, id)' /\ q.cargo.to = to
  BY <1>0 DEF Carries, Payload, TokenCargo
<1>5. PlaceOf(id)' = <<"moving", d, to>>
  BY <1>1, <1>3, <1>4, NextPlaceMoving DEF TInv
<1>6. [i \in TokenIds |-> PlaceOf(i)]'
        = [[i \in TokenIds |-> PlaceOf(i)] EXCEPT ![id] = <<"moving", d, to>>]
  BY <1>1, <1>5, OnePlaceChanges
<1>7. c # d
  BY DEF BridgeOutToken, Send
<1> DEFINE place == [i \in TokenIds |-> PlaceOf(i)]
<1>8. place[id] = <<"at", c, tokenOwner[c][id]>>
  BY <1>2
<1>9. place[id][1] = "at" /\ place[id][2] = c
  BY <1>8
<1>10. d \in Chains \ {place[id][2]}
  BY <1>7, <1>9
<1>11. Teleport!Depart(id)
  BY <1>6, <1>9, <1>10 DEF Teleport!Depart, Teleport!Moving
<1> QED
  BY <1>1, <1>11

\* A token that is bridged in arrives; other payloads move no token.
LEMMA BridgeInIsArrive ==
  ASSUME TInv, PInv', NEW d \in Chains, NEW p \in Pending(d), p \in Payloads,
         NEW r \in Accounts \union {Zero}, BridgeInRequest(d, p, r), PendingDrop(d, p)
  PROVE  /\ TInv'
         /\ p.cargo.kind = "token" =>
              p.cargo.id \in TokenIds /\ Teleport!Arrive(p.cargo.id)
         /\ p.cargo.kind # "token" =>
              [i \in TokenIds |-> PlaceOf(i)]' = [i \in TokenIds |-> PlaceOf(i)]
<1>1. /\ TInv'
      /\ p.cargo.kind # "token" => \A id \in TokenIds : TokenSame(id)
      /\ p.cargo.kind = "token" =>
           /\ p.cargo.id \in TokenIds /\ p.cargo.to \in Accounts
           /\ tokenOwner'[d][p.cargo.id] = p.cargo.to
           /\ \A id \in TokenIds \ {p.cargo.id} : TokenSame(id)
  BY BridgeInRequestTokens
<1>2. CASE p.cargo.kind # "token"
  BY <1>1, <1>2, PlacesSame
<1>3. CASE p.cargo.kind = "token"
  <2> DEFINE id == p.cargo.id
             to == p.cargo.to
  <2>1. Carries(p, id)
    BY <1>3 DEF Carries
  <2>2. PlaceOf(id) = <<"moving", d, to>>
    BY <1>1, <1>3, <2>1, PlaceMoving DEF TInv
  <2>3. Exists(d, id)'
    BY <1>1, <1>3, ChainAssumption DEF Exists
  <2>4. PlaceOf(id)' = <<"at", d, to>>
    BY <1>1, <1>3, <2>3, NextPlaceAt DEF TInv
  <2>5. [i \in TokenIds |-> PlaceOf(i)]'
          = [[i \in TokenIds |-> PlaceOf(i)] EXCEPT ![id] = <<"at", d, to>>]
    BY <1>1, <1>3, <2>4, OnePlaceChanges
  <2> DEFINE place == [i \in TokenIds |-> PlaceOf(i)]
  <2>6. /\ id \in TokenIds /\ place[id] = <<"moving", d, to>>
        /\ place[id][1] = "moving" /\ place[id][2] = d /\ place[id][3] = to
    BY <1>1, <1>3, <2>2
  <2>7. place[id][1] = "moving" /\ place' = [place EXCEPT ![id] = <<"at", @[2], @[3]>>]
    BY <2>5, <2>6
  <2>8. Teleport!Arrive(id)
    <3> HIDE DEF id
    <3> QED
      BY <2>7 DEF Teleport!Arrive, Teleport!At
  <2> QED
    BY <1>1, <1>3, <2>6, <2>8
<1> QED
  BY <1>1, <1>2, <1>3

\* The coin part of a step.
LEMMA DepositedIsDeposit ==
  ASSUME PInv, NEW h \in Chains, NEW amount, Deposited(h, amount)
  PROVE  Teleport!Deposit(h, amount)
<1>1. \A g \in Chains : Circulating(g) \in Nat
  BY CirculatingType
<1>2. \A g \in Chains : Circulating(g)' = IF g = h THEN Circulating(g) + amount
                                                  ELSE Circulating(g)
  BY <1>1 DEF Deposited
<1>3. [g \in Chains |-> Circulating(g)]'
        = [[g \in Chains |-> Circulating(g)] EXCEPT ![h] = @ + amount]
  BY <1>2
<1> QED
  BY <1>3 DEF Deposited, Teleport!Deposit

\* A withdrawal of native coin is one of the specification.
LEMMA WithdrawnIsWithdraw ==
  ASSUME PInv, PInv', NEW h \in Chains, NEW amount, Withdrawn(h, amount)
  PROVE  Teleport!Withdraw(h, amount)
<1>1. \A g \in Chains : Circulating(g) \in Nat /\ Circulating(g)' \in Nat
  BY CirculatingType, NextSumTypes
<1>2. \A g \in Chains : Circulating(g)' = IF g = h THEN Circulating(g) - amount
                                                  ELSE Circulating(g)
  BY <1>1 DEF Withdrawn
<1>3. [g \in Chains |-> Circulating(g)]'
        = [[g \in Chains |-> Circulating(g)] EXCEPT ![h] = @ - amount]
  BY <1>2
<1>4. amount <= Circulating(h)
  BY <1>1 DEF Withdrawn
<1> QED
  BY <1>3, <1>4 DEF Withdrawn, Teleport!Withdraw

\* A fee that nobody gets is forgone.
LEMMA ForgoneIsForgo ==
  ASSUME PInv, PInv', NEW h \in Chains, NEW fee, Forgone(h, fee)
  PROVE  Teleport!Forgo(h, fee)
<1>1. \A g \in Chains : Circulating(g) \in Nat /\ Circulating(g)' \in Nat
  BY CirculatingType, NextSumTypes
<1>2. \A g \in Chains : Circulating(g)' = IF g = h THEN Circulating(g) - fee
                                                  ELSE Circulating(g)
  BY <1>1 DEF Forgone
<1>3. [g \in Chains |-> Circulating(g)]'
        = [[g \in Chains |-> Circulating(g)] EXCEPT ![h] = @ - fee]
  BY <1>2
<1>4. fee <= Circulating(h)
  BY <1>1 DEF Forgone
<1> QED
  BY <1>3, <1>4 DEF Forgone, Teleport!Forgo

\* No coin moves in the specification when none does in the bridge.
LEMMA KeptIsUnchanged ==
  ASSUME CoinsKept
  PROVE  UNCHANGED Teleport!Coins
<1>1. [g \in Chains |-> Circulating(g)]' = [g \in Chains |-> Circulating(g)]
  BY DEF CoinsKept
<1> QED
  BY <1>1 DEF CoinsKept, Teleport!Coins

\* A request's fee is a coin step.
LEMMA RequestedIsCoinStep ==
  ASSUME PInv, NEW h \in Chains, NEW fee \in Fees, Deposited(h, fee)
  PROVE  Teleport!CoinStep
  BY DepositedIsDeposit DEF Teleport!CoinStep

\* Each step of the bridge is a step of AssetTeleport or a stutter.
LEMMA NextTeleports ==
  ASSUME PrefixesApart, TInv, [Next]_vars
  PROVE  [Teleport!Next]_(Teleport!vars)
<1> DEFINE PlaceKept ==
             [id \in TokenIds |-> PlaceOf(id)]' = [id \in TokenIds |-> PlaceOf(id)]
<1>1. TInv' /\ PInv /\ PInv'
  <2>1. TInv'
    BY NextTokens
  <2> QED
    BY <2>1 DEF TInv
<1>2. ASSUME PlaceKept, CoinsKept PROVE [Teleport!Next]_(Teleport!vars)
  BY <1>2, KeptIsUnchanged DEF Teleport!vars, Teleport!Coins
<1>3. ASSUME PlaceKept, Teleport!CoinStep PROVE [Teleport!Next]_(Teleport!vars)
  BY <1>3 DEF Teleport!Next
<1>4. ASSUME UNCHANGED <<tokenOwner, burnedTokens, coins, native>>, PendingSame
      PROVE  PlaceKept /\ CoinsKept
  <2>1. CoinsKept
    BY <1>1, <1>4, StillMoves
  <2>2. \A id \in TokenIds : CarriersSame(id)
    BY <1>4, CarriersKept
  <2>3. \A id \in TokenIds : TokenSame(id)
    BY <1>4, <2>2 DEF TokenSame
  <2> QED
    BY <1>1, <2>1, <2>3, PlacesSame
<1>5. ASSUME UNCHANGED <<tokenOwner, burnedTokens>>, PendingSame
      PROVE  PlaceKept
  <2>1. \A id \in TokenIds : CarriersSame(id)
    BY <1>5, CarriersKept
  <2>2. \A id \in TokenIds : TokenSame(id)
    BY <1>5, <2>1 DEF TokenSame
  <2> QED
    BY <1>1, <2>2, PlacesSame
<1> HIDE DEF PlaceKept
<1>6. ASSUME NEW c \in Chains, NEW ids \in SUBSET MintedBy(c), NEW to \in Accounts,
             MintAll(c, ids, to)
      PROVE  [Teleport!Next]_(Teleport!vars)
  <2>1. Teleport!Mint(c, to)
    BY <1>6, MintIsMint
  <2>2. UNCHANGED Teleport!Coins
    BY <1>1, <1>6, MintAllTokens, StillMoves, KeptIsUnchanged DEF MintAll, sendVars
  <2> QED
    BY <2>1, <2>2 DEF Teleport!Next
<1>7. CASE UNCHANGED vars
  <2>1. PendingSame
    BY <1>7 DEF vars, PendingSame, Pending
  <2> QED
    BY <1>2, <1>4, <1>7, <2>1 DEF vars
<1>8. CASE OnOneChain
  <2>1. PICK c \in Chains :
          \/ DeployHolographableContract(c)
          \/ \E to \in Accounts, n \in Numbers : SourceMint(c, to, n)
          \/ \E to \in Accounts, b \in Batches :
               SourceMintBatchIncremental(c, to, b[1], b[2])
          \/ \E id \in TokenIds : Burn(c, id)
          \/ \E a \in Accounts, amount \in Amounts : HolographNativeToken(c, a, amount)
          \/ \E a \in Accounts, amount \in Amounts : ExtractNativeToken(c, a, amount)
    BY <1>8 DEF OnOneChain
  <2>2. CASE DeployHolographableContract(c)
    <3>1. PendingSame /\ UNCHANGED <<tokenOwner, burnedTokens, coins, native>>
      BY <2>2 DEF DeployHolographableContract, tokenVars, sendVars, PendingSame, Pending
    <3> QED
      BY <1>2, <1>4, <3>1
  <2>3. ASSUME NEW to \in Accounts, NEW n \in Numbers, SourceMint(c, to, n)
        PROVE  [Teleport!Next]_(Teleport!vars)
    <3>1. {TokenId(c, n)} \in SUBSET MintedBy(c)
      BY DEF MintedBy
    <3> QED
      BY <1>6, <2>3, <3>1 DEF SourceMint
  <2>4. ASSUME NEW to \in Accounts, NEW b \in Batches,
               SourceMintBatchIncremental(c, to, b[1], b[2])
        PROVE  [Teleport!Next]_(Teleport!vars)
    <3>1. {Plus(TokenId(c, b[1]), i) : i \in 0 .. b[2] - 1} \in SUBSET MintedBy(c)
      BY DEF MintedBy
    <3> QED
      BY <1>6, <2>4, <3>1 DEF SourceMintBatchIncremental
  <2>5. ASSUME NEW id \in TokenIds, Burn(c, id)
        PROVE  [Teleport!Next]_(Teleport!vars)
    <3>1. Teleport!Burn(id) /\ PendingSame
      BY <2>5, BurnIsBurn, BurnTokens
    <3>2. UNCHANGED Teleport!Coins
      BY <1>1, <2>5, <3>1, StillMoves, KeptIsUnchanged DEF Burn, sendVars
    <3>3. Teleport!TokenStep(id)
      BY <3>1, <3>2 DEF Teleport!TokenStep
    <3> QED
      BY <3>3 DEF Teleport!Next
  <2>6. ASSUME NEW a \in Accounts, NEW amount \in Amounts,
               HolographNativeToken(c, a, amount)
        PROVE  [Teleport!Next]_(Teleport!vars)
    <3>1. PendingSame /\ Deposited(c, amount)
      BY <1>1, <2>6, HolographNativeTokenMoves
    <3>2. PlaceKept
      BY <1>5, <2>6, <3>1 DEF HolographNativeToken, tokenVars
    <3>3. Teleport!CoinStep
      BY <1>1, <3>1, DepositedIsDeposit DEF Teleport!CoinStep
    <3> QED
      BY <1>3, <3>2, <3>3
  <2>7. ASSUME NEW a \in Accounts, NEW amount \in Amounts,
               ExtractNativeToken(c, a, amount)
        PROVE  [Teleport!Next]_(Teleport!vars)
    <3>1. PendingSame /\ Withdrawn(c, amount)
      BY <1>1, <2>7, ExtractNativeTokenMoves
    <3>2. PlaceKept
      BY <1>5, <2>7, <3>1 DEF ExtractNativeToken, tokenVars
    <3>3. Teleport!CoinStep
      BY <1>1, <3>1, WithdrawnIsWithdraw DEF Teleport!CoinStep
    <3> QED
      BY <1>3, <3>2, <3>3
  <2> QED
    BY <2>1, <2>2, <2>3, <2>4, <2>5, <2>6, <2>7
<1>9. CASE BridgingOut
  <2>1. PICK c \in Chains, d \in Chains, fee \in Fees :
          \/ \E id \in TokenIds, to \in Accounts : BridgeOutToken(c, d, fee, id, to)
          \/ \E h \in Chains, from \in Accounts, to \in Accounts \union {Zero},
                amount \in Amounts :
               BridgeOutCoins(c, d, fee, h, from, to, amount)
          \/ BridgeOutCollection(c, d, fee)
    BY <1>9 DEF BridgingOut
  <2>2. ASSUME NEW id \in TokenIds, NEW to \in Accounts,
               BridgeOutToken(c, d, fee, id, to)
        PROVE  [Teleport!Next]_(Teleport!vars)
    <3>1. Teleport!Depart(id)
      BY <2>2, RequestIsDepart
    <3>2. Teleport!Deposit(c, fee)
      BY <1>1, <2>2, BridgeOutTokenMoves, DepositedIsDeposit
    <3>3. Teleport!TokenStep(id)
      BY <3>1, <3>2 DEF Teleport!TokenStep
    <3> QED
      BY <3>3 DEF Teleport!Next
  <2>3. ASSUME NEW h \in Chains, NEW from \in Accounts,
               NEW to \in Accounts \union {Zero}, NEW amount \in Amounts,
               BridgeOutCoins(c, d, fee, h, from, to, amount)
        PROVE  [Teleport!Next]_(Teleport!vars)
    <3>1. PlaceKept
      <4>1. \A id \in TokenIds : TokenSame(id)
        BY <2>3, BridgeOutCoinsTokens
      <4> QED
        BY <1>1, <4>1, PlacesSame DEF PlaceKept
    <3>2. Deposited(c, fee)
      BY <1>1, <2>3, BridgeOutCoinsMoves
    <3>3. Teleport!CoinStep
      BY <1>1, <3>2, RequestedIsCoinStep
    <3> QED
      BY <1>3, <3>1, <3>3
  <2>4. CASE BridgeOutCollection(c, d, fee)
    <3>1. PlaceKept
      <4>1. \A id \in TokenIds : TokenSame(id)
        BY <2>4, BridgeOutCollectionTokens
      <4> QED
        BY <1>1, <4>1, PlacesSame DEF PlaceKept
    <3>2. Deposited(c, fee)
      BY <1>1, <2>4, BridgeOutCollectionMoves
    <3>3. Teleport!CoinStep
      BY <1>1, <3>2, RequestedIsCoinStep
    <3> QED
      BY <1>3, <3>1, <3>3
  <2> QED
    BY <2>1, <2>2, <2>3, <2>4
<1>10. CASE BridgingIn
  <2>1. ASSUME NEW d \in Chains, NEW p \in wire[d], LzReceive(d, p)
        PROVE  [Teleport!Next]_(Teleport!vars)
    <3>1. PendingSame
      BY <1>1, <2>1, LzReceivePending
    <3> QED
      BY <1>2, <1>4, <2>1, <3>1 DEF LzReceive, tokenVars
  <2>2. ASSUME NEW d \in Chains, NEW p \in openJobs[d], FailJob(d, p)
        PROVE  [Teleport!Next]_(Teleport!vars)
    <3>1. PendingSame
      BY <1>1, <2>2, FailJobPending
    <3> QED
      BY <1>2, <1>4, <2>2, <3>1 DEF FailJob, tokenVars, sendVars
  <2>3. ASSUME NEW d \in Chains, NEW p \in openJobs[d], NEW executor \in Accounts,
               ExecuteJob(d, p, executor)
        PROVE  [Teleport!Next]_(Teleport!vars)
    <3>1. PendingDrop(d, p) /\ p \in Pending(d) /\ p \in Payloads
      BY <1>1, <2>3, ExecuteJobPending
    <3>2. BridgeInRequest(d, p, executor)
      BY <2>3 DEF ExecuteJob
    <3>3. /\ p.cargo.kind = "token" =>
               p.cargo.id \in TokenIds /\ Teleport!Arrive(p.cargo.id)
          /\ p.cargo.kind # "token" => PlaceKept
      BY <1>1, <3>1, <3>2, BridgeInIsArrive DEF PlaceKept
    <3>4. CoinsKept
      BY <1>1, <2>3, ExecuteJobMoves
    <3>5. CASE p.cargo.kind = "token"
      <4>1. UNCHANGED Teleport!Coins
        BY <3>4, KeptIsUnchanged
      <4>2. Teleport!TokenStep(p.cargo.id)
        BY <3>3, <3>5, <4>1 DEF Teleport!TokenStep
      <4> QED
        BY <3>3, <3>5, <4>2 DEF Teleport!Next
    <3>6. CASE p.cargo.kind # "token"
      BY <1>2, <3>3, <3>4, <3>6
    <3> QED
      BY <3>5, <3>6
  <2>4. ASSUME NEW d \in Chains, NEW p \in failedJobs[d], RecoverJob(d, p)
        PROVE  [Teleport!Next]_(Teleport!vars)
    <3>1. PendingDrop(d, p) /\ p \in Pending(d) /\ p \in Payloads
      BY <1>1, <2>4, RecoverJobPending
    <3>2. BridgeInRequest(d, p, Zero)
      BY <2>4 DEF RecoverJob
    <3>3. /\ p.cargo.kind = "token" =>
               p.cargo.id \in TokenIds /\ Teleport!Arrive(p.cargo.id)
          /\ p.cargo.kind # "token" => PlaceKept
      BY <1>1, <3>1, <3>2, BridgeInIsArrive DEF PlaceKept
    <3>4. Teleport!Forgo(p.from, p.fee) /\ p.from \in Chains /\ p.fee \in Fees
      BY <1>1, <2>4, RecoverJobMoves, ForgoneIsForgo
    <3>5. CASE p.cargo.kind = "token"
      <4>1. Teleport!TokenStep(p.cargo.id)
        BY <3>3, <3>4, <3>5 DEF Teleport!TokenStep
      <4> QED
        BY <3>3, <3>5, <4>1 DEF Teleport!Next
    <3>6. CASE p.cargo.kind # "token"
      <4>1. Teleport!CoinStep
        BY <3>4 DEF Teleport!CoinStep
      <4> QED
        BY <1>3, <3>3, <3>6, <4>1
    <3> QED
      BY <3>5, <3>6
  <2> QED
    BY <1>10, <2>1, <2>2, <2>3, <2>4 DEF BridgingIn
<1> QED
  BY <1>7, <1>8, <1>9, <1>10 DEF Next

\* Initial states map to initial states.
LEMMA InitTeleports ==
  ASSUME Init
  PROVE  Teleport!Init
<1>1. /\ \A id \in TokenIds : ~Born(id)
      /\ \A g \in Chains : Circulating(g) = 0
  BY InitTokens, InitCoins
<1>2. ASSUME NEW id \in TokenIds PROVE PlaceOf(id) = <<"unborn">>
  <2>1. /\ \A d \in Chains : ~Exists(d, id) /\ ~burnedTokens[d][id]
        /\ \A d \in Chains : \A p \in Pending(d) : ~Carries(p, id)
    BY <1>1 DEF Born
  <2> QED
    BY <2>1, PlaceNowhere DEF Home
<1>3. [id \in TokenIds |-> PlaceOf(id)] = [id \in TokenIds |-> <<"unborn">>]
  BY <1>2
<1>4. [g \in Chains |-> Circulating(g)] = [g \in Chains |-> 0]
  BY <1>1
<1>5. native = [h \in Chains |-> 0]
  BY DEF Init
<1> QED
  BY <1>3, <1>4, <1>5 DEF Teleport!Init, Teleport!Unborn

\* When no two chains can mint the same id, the bridge implements AssetTeleport: a
\* token is minted once, moves to where its owner sent it and nowhere else, and
\* stays burned; hTokens come into circulation for native coin only.
THEOREM BridgeTeleports ==
  ASSUME PrefixesApart
  PROVE  Spec => ImplementsTeleport
<1>1. Init => Teleport!Init
  BY InitTeleports
<1>2. Init => TInv
  BY InitTokens
<1>3. TInv /\ [Next]_vars => TInv'
  BY NextTokens
<1>4. TInv /\ [Next]_vars => [Teleport!Next]_(Teleport!vars)
  BY NextTeleports
<1> QED
  BY <1>1, <1>2, <1>3, <1>4, PTL DEF Spec, ImplementsTeleport, Teleport!Spec
=============================================================================
