-------------------------- MODULE ERC721Refinement --------------------------
(***************************************************************************)
(* HolographERC721 implements ERC721Ledger for those who read it through   *)
(* tokenOfOwnerByIndex, balanceOf and totalSupply: the holdings are read   *)
(* off the arrays of the enumerations and not off _tokenOwner.             *)
(***************************************************************************)
EXTENDS HolographERC721

HoldingsMap == [a \in Accounts |-> Range(ownedTokens[a])]
BalanceMap  == [a \in Accounts |-> ownedTokensCount[a]]
SupplyMap   == Len(allTokens)
BurnedMap   == {id \in TokenIds : burnedTokens[id]}
IssuesMap   == {Range(ids) : ids \in Batches}

Ledger == INSTANCE ERC721Ledger WITH
  Nobody   <- Zero,
  Issues   <- IssuesMap,
  holdings <- HoldingsMap,
  balance  <- BalanceMap,
  supply   <- SupplyMap,
  approved <- tokenApprovals,
  trusted  <- operatorApprovals,
  burned   <- BurnedMap

\* Every function of the contract does to the sets of tokens, to the balances and
\* to the supply what it should, or nothing: whatever index an array entry moved to
\* in earlier calls, exactly the token meant is taken out and put in.
ImplementsLedger == Ledger!Spec
=============================================================================
