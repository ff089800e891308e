-------------------------- MODULE HolographERC721 --------------------------
(***************************************************************************)
(* One collection on one chain (enforcer/HolographERC721.sol): who owns    *)
(* each token, who may move it, and the enumerations of all tokens and of  *)
(* the tokens of every account, two arrays with maps of indices that every *)
(* mint, burn, transfer and bridge call updates by swapping and popping.   *)
(* Solidity index i of an array is position i + 1 of its sequence.         *)
(*                                                                         *)
(* The hooks of the source contract are taken to change nothing here, as   *)
(* those of the repository's contracts; a hook that refuses is a revert.   *)
(***************************************************************************)
EXTENDS Integers, Sequences, Functions

CONSTANTS
  Accounts,
  Zero,            \* address(0)
  TokenIds,        \* token ids, with their chain prefix
  SourceApproved,  \* <<wallet, spender>> the source contract approves of
  MaxBatch,        \* length a list of token ids stays below (1000)
  Batches          \* bound: the lists of ids of this chain minted at once

Addresses == Accounts \union {Zero}

ASSUME AddressAssumption == Zero \notin Accounts

ASSUME TokenAssumption ==
  /\ TokenIds \subseteq Nat /\ MaxBatch \in Nat
  /\ SourceApproved \subseteq Accounts \X Accounts
  /\ Batches \subseteq Seq(TokenIds)

VARIABLES
  tokenOwner,         \* _tokenOwner
  tokenApprovals,     \* _tokenApprovals
  operatorApprovals,  \* _operatorApprovals, the accounts each account approved
  burnedTokens,       \* _burnedTokens
  allTokens,          \* _allTokens
  allTokensIndex,     \* _allTokensIndex
  ownedTokens,        \* _ownedTokens
  ownedTokensIndex,   \* _ownedTokensIndex
  ownedTokensCount    \* _ownedTokensCount

enumVars == <<allTokens, allTokensIndex, ownedTokens, ownedTokensIndex,
              ownedTokensCount>>
vars == <<tokenOwner, tokenApprovals, operatorApprovals, burnedTokens,
          allTokens, allTokensIndex, ownedTokens, ownedTokensIndex,
          ownedTokensCount>>

Exists(id) == tokenOwner[id] # Zero

-----------------------------------------------------------------------------
(***************************************************************************)
(* The enumerations.  A transfer removes a token and adds it again, so both*)
(* steps are operators on a record of the five variables.                  *)
(***************************************************************************)
Enumeration ==
  [all |-> allTokens, allIndex |-> allTokensIndex, owned |-> ownedTokens,
   ownedIndex |-> ownedTokensIndex, count |-> ownedTokensCount]

Enumerate(e) ==
  /\ allTokens' = e.all /\ allTokensIndex' = e.allIndex
  /\ ownedTokens' = e.owned /\ ownedTokensIndex' = e.ownedIndex
  /\ ownedTokensCount' = e.count

Position(ids, id) == CHOOSE i \in DOMAIN ids : ids[i] = id

\* The indices of the ids once they are appended to an array of length n.
Appended(indices, ids, n) ==
  [id \in TokenIds |-> IF id \in Range(ids) THEN n + Position(ids, id) - 1
                                            ELSE indices[id]]

\* _addTokenToOwnerEnumeration of each of the ids in turn
AddTokens(e, to, ids) ==
  [all        |-> e.all \o ids,
   allIndex   |-> Appended(e.allIndex, ids, Len(e.all)),
   owned      |-> [e.owned EXCEPT ![to] = @ \o ids],
   ownedIndex |-> Appended(e.ownedIndex, ids, e.count[to]),
   count      |-> [e.count EXCEPT ![to] = @ + Len(ids)]]

\* The last entry of an array takes the place of the one at the index.
SwapPop(array, index) ==
  SubSeq([array EXCEPT ![index + 1] = array[Len(array)]], 1, Len(array) - 1)

\* The checked subtractions of the removal do not underflow.
Removable(e, from) == Len(e.all) > 0 /\ e.count[from] > 0

\* Faulty: the token moved within the owner's array keeps its index.
RemoveWithoutReindex(e, from, id) ==
  [all        |-> SwapPop(e.all, e.allIndex[id]),
   allIndex   |-> [[e.allIndex EXCEPT ![e.all[Len(e.all)]] = e.allIndex[id]]
                     EXCEPT ![id] = 0],
   owned      |-> [e.owned EXCEPT ![from] = SwapPop(@, e.ownedIndex[id])],
   ownedIndex |-> e.ownedIndex,
   count      |-> [e.count EXCEPT ![from] = @ - 1]]

\* Faulty: the token stays in the enumeration of all tokens.
RemoveFromOwnerOnly(e, from, id) ==
  [all        |-> e.all,
   allIndex   |-> e.allIndex,
   owned      |-> [e.owned EXCEPT ![from] = SwapPop(@, e.ownedIndex[id])],
   ownedIndex |-> [e.ownedIndex EXCEPT
                     ![e.owned[from][e.count[from]]] = e.ownedIndex[id]],
   count      |-> [e.count EXCEPT ![from] = @ - 1]]

\* _removeTokenFromAllTokensEnumeration and _removeTokenFromOwnerEnumeration
RemoveToken(e, from, id) ==
  [all        |-> SwapPop(e.all, e.allIndex[id]),
   allIndex   |-> [[e.allIndex EXCEPT ![e.all[Len(e.all)]] = e.allIndex[id]]
                     EXCEPT ![id] = 0],
   owned      |-> [e.owned EXCEPT ![from] = SwapPop(@, e.ownedIndex[id])],
   ownedIndex |-> [e.ownedIndex EXCEPT
                     ![e.owned[from][e.count[from]]] = e.ownedIndex[id]],
   count      |-> [e.count EXCEPT ![from] = @ - 1]]

-----------------------------------------------------------------------------
(***************************************************************************)
(* Minting, burning and moving tokens.                                     *)
(***************************************************************************)
Init ==
  /\ tokenOwner = [id \in TokenIds |-> Zero]
  /\ tokenApprovals = [id \in TokenIds |-> Zero]
  /\ operatorApprovals = [a \in Accounts |-> {}]
  /\ burnedTokens = [id \in TokenIds |-> FALSE]
  /\ allTokens = << >>
  /\ allTokensIndex = [id \in TokenIds |-> 0]
  /\ ownedTokens = [a \in Addresses |-> << >>]
  /\ ownedTokensIndex = [id \in TokenIds |-> 0]
  /\ ownedTokensCount = [a \in Addresses |-> 0]

\* _mint of each of the ids in turn, but for the check of the burned marks
Mint(to, ids) ==
  /\ to # Zero /\ IsInjective(ids)
  /\ \A id \in Range(ids) : id # 0 /\ ~Exists(id)
  /\ tokenOwner' = [id \in TokenIds |->
                      IF id \in Range(ids) THEN to ELSE tokenOwner[id]]
  /\ Enumerate(AddTokens(Enumeration, to, ids))

\* Faulty: the token leaves no mark behind.
BurnUnmarked(wallet, id) ==
  /\ Removable(Enumeration, wallet)
  /\ tokenApprovals' = [tokenApprovals EXCEPT ![id] = Zero]
  /\ tokenOwner' = [tokenOwner EXCEPT ![id] = Zero]
  /\ Enumerate(RemoveToken(Enumeration, wallet, id))
  /\ UNCHANGED <<burnedTokens, operatorApprovals>>

\* _burn
BurnToken(wallet, id) ==
  /\ Removable(Enumeration, wallet)
  /\ tokenApprovals' = [tokenApprovals EXCEPT ![id] = Zero]
  /\ tokenOwner' = [tokenOwner EXCEPT ![id] = Zero]
  /\ Enumerate(RemoveToken(Enumeration, wallet, id))
  /\ burnedTokens' = [burnedTokens EXCEPT ![id] = TRUE]
  /\ UNCHANGED operatorApprovals

\* Faulty: the approval goes with the token.
MoveApproved(from, to, id) ==
  /\ tokenOwner[id] = from /\ to # Zero
  /\ Removable(Enumeration, from)
  /\ tokenOwner' = [tokenOwner EXCEPT ![id] = to]
  /\ Enumerate(AddTokens(RemoveToken(Enumeration, from, id), to, <<id>>))
  /\ UNCHANGED <<tokenApprovals, operatorApprovals, burnedTokens>>

\* _transferFrom
MoveToken(from, to, id) ==
  /\ tokenOwner[id] = from /\ to # Zero
  /\ Removable(Enumeration, from)
  /\ tokenApprovals' = [tokenApprovals EXCEPT ![id] = Zero]
  /\ tokenOwner' = [tokenOwner EXCEPT ![id] = to]
  /\ Enumerate(AddTokens(RemoveToken(Enumeration, from, id), to, <<id>>))
  /\ UNCHANGED <<operatorApprovals, burnedTokens>>

IsApprovedStrict(spender, id) ==
  /\ Exists(id)
  /\ \/ spender = tokenOwner[id]
     \/ spender \in operatorApprovals[tokenOwner[id]]
     \/ <<tokenOwner[id], spender>> \in SourceApproved

IsApproved(spender, id) ==
  Exists(id) /\ (tokenApprovals[id] = spender \/ IsApprovedStrict(spender, id))

-----------------------------------------------------------------------------
(***************************************************************************)
(* The functions of the contract.                                          *)
(***************************************************************************)

Approve(sender, to, id) ==
  /\ to # tokenOwner[id]
  /\ IsApprovedStrict(sender, id)
  /\ tokenApprovals' = [tokenApprovals EXCEPT ![id] = to]
  /\ UNCHANGED <<tokenOwner, operatorApprovals, burnedTokens, enumVars>>

SetApprovalForAll(sender, to, approved) ==
  /\ to # sender
  /\ operatorApprovals' =
       [operatorApprovals EXCEPT ![sender] = IF approved THEN @ \union {to}
                                                         ELSE @ \ {to}]
  /\ UNCHANGED <<tokenOwner, tokenApprovals, burnedTokens, enumVars>>

Burn(sender, id) ==
  IsApproved(sender, id) /\ BurnToken(tokenOwner[id], id)

\* transfer, transferFrom and safeTransferFrom
TransferFrom(sender, from, to, id) ==
  IsApproved(sender, id) /\ MoveToken(from, to, id)

Consecutive(ids) == \A i \in 1 .. Len(ids) - 1 : ids[i + 1] = ids[i] + 1

\* Faulty: burned ids are minted again.
SourceMintAgain(to, ids) ==
  /\ Len(ids) < MaxBatch \/ Consecutive(ids)
  /\ Mint(to, ids)
  /\ UNCHANGED <<tokenApprovals, operatorApprovals, burnedTokens>>

\* sourceMint, sourceMintBatch to one account, sourceMintBatchIncremental
SourceMint(to, ids) ==
  /\ Len(ids) < MaxBatch \/ Consecutive(ids)
  /\ \A id \in Range(ids) : ~burnedTokens[id]
  /\ Mint(to, ids)
  /\ UNCHANGED <<tokenApprovals, operatorApprovals, burnedTokens>>

\* The source contract is not asked whether the token exists.
SourceBurn(id) == BurnToken(tokenOwner[id], id)

SourceTransfer(to, id) ==
  ~burnedTokens[id] /\ MoveToken(tokenOwner[id], to, id)

BridgeIn(to, id) ==
  /\ burnedTokens' = [burnedTokens EXCEPT ![id] = FALSE]
  /\ Mint(to, <<id>>)
  /\ UNCHANGED <<tokenApprovals, operatorApprovals>>

BridgeOut(sender, from, to, id) ==
  /\ to # Zero
  /\ IsApproved(sender, id)
  /\ from = tokenOwner[id]
  /\ BurnToken(from, id)

BySource ==
  \/ \E to \in Accounts, ids \in Batches : SourceMint(to, ids)
  \/ \E id \in TokenIds :
       SourceBurn(id) \/ \E to \in Addresses : SourceTransfer(to, id)

ByBridge ==
  \E id \in TokenIds, to \in Addresses :
    \/ BridgeIn(to, id)
    \/ \E sender, from \in Accounts : BridgeOut(sender, from, to, id)

ByAccount ==
  \E sender \in Accounts :
    \/ \E to \in Accounts, approved \in BOOLEAN :
         SetApprovalForAll(sender, to, approved)
    \/ \E id \in TokenIds :
         \/ Burn(sender, id)
         \/ \E to \in Addresses :
              \/ Approve(sender, to, id)
              \/ \E from \in Accounts : TransferFrom(sender, from, to, id)

Next == BySource \/ ByBridge \/ ByAccount

Spec == Init /\ [][Next]_vars

-----------------------------------------------------------------------------
(***************************************************************************)
(* Properties.                                                             *)
(***************************************************************************)
\* The id zero is never a token.
TypeOK ==
  /\ tokenOwner \in [TokenIds -> Addresses]
  /\ tokenApprovals \in [TokenIds -> Addresses]
  /\ operatorApprovals \in [Accounts -> SUBSET Accounts]
  /\ burnedTokens \in [TokenIds -> BOOLEAN]
  /\ allTokens \in Seq(TokenIds \ {0})
  /\ allTokensIndex \in [TokenIds -> Nat]
  /\ ownedTokens \in [Addresses -> Seq(TokenIds \ {0})]
  /\ ownedTokensIndex \in [TokenIds -> Nat]
  /\ ownedTokensCount \in [Addresses -> Nat]

\* The array lists the tokens of a set, each at the index recorded for it.
Lists(array, index, tokens) ==
  /\ \A i \in 1 .. Len(array) : array[i] \in tokens /\ index[array[i]] = i - 1
  /\ \A id \in tokens : index[id] < Len(array) /\ array[index[id] + 1] = id

\* The enumeration of all tokens lists exactly the tokens that exist.
AllTokensEnumerated ==
  Lists(allTokens, allTokensIndex, {id \in TokenIds : Exists(id)})

\* Every account's enumeration and count are exactly the tokens it owns; the
\* zero address has none, so removing a token that does not exist underflows
\* and reverts, which is all that keeps the source contract from burning or
\* transferring it.
OwnedTokensEnumerated ==
  /\ \A a \in Accounts :
       /\ Lists(ownedTokens[a], ownedTokensIndex,
                {id \in TokenIds : tokenOwner[id] = a})
       /\ ownedTokensCount[a] = Len(ownedTokens[a])
  /\ ownedTokensCount[Zero] = 0 /\ ownedTokens[Zero] = << >>

\* No token is owned while it is marked as burned, here or on its way over
\* another chain.
BurnedTokensHaveNoOwner ==
  \A id \in TokenIds : burnedTokens[id] => ~Exists(id)

\* An approval ends with the ownership it was given under, also when a token is
\* burned or leaves over the bridge and comes back: whoever gets a token gets it
\* without approvals, and a token nobody owns has none.
ApprovalsEndWithOwnership ==
  [][\A id \in TokenIds :
       /\ tokenOwner'[id] # tokenOwner[id] => tokenApprovals'[id] = Zero
       /\ ~Exists(id)' => tokenApprovals'[id] = Zero]_vars
=============================================================================
