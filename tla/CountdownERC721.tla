---------------------------- MODULE CountdownERC721 ----------------------------
(***************************************************************************)
(* A sale whose end comes closer with every token sold: CountdownERC721 on *)
(* top of HolographERC721.  Time is measured in the seconds the dates are  *)
(* compared with.  A transaction that reverts is a step not taken; the     *)
(* guards of checked arithmetic are written out.  Left out: the metadata,  *)
(* multicall (the same calls one after the other), the owner and the       *)
(* minter (each may always act), and the ids, which are handed out one by  *)
(* one because nothing else mints.                                         *)
(***************************************************************************)
EXTENDS Integers

CONSTANTS
    Accounts,
    START_DATE, INITIAL_MAX_SUPPLY, MINT_INTERVAL,
    Prices,      \* values of publicSalePrice
    Limits,      \* values of maxSalePurchasePerAddress, 0 for none
    Quantities,  \* bound: tokens of one call
    Extras,      \* bound: what a buyer sends above the price
    MaxMinted,   \* bound: tokens minted
    MaxTime      \* bound: last date considered

ASSUME DatesType ==
    /\ START_DATE \in Nat /\ INITIAL_MAX_SUPPLY \in Nat /\ MINT_INTERVAL \in Nat
    /\ MaxMinted \in Nat /\ MaxTime \in Nat
ASSUME AmountsType ==
    /\ Prices \subseteq Nat /\ Limits \subseteq Nat
    /\ Quantities \subseteq Nat /\ Extras \subseteq Nat

VARIABLES
    now,                  \* block.timestamp
    endDate,
    currentTokenId,
    totalMintsByAddress,
    publicSalePrice, maxSalePurchasePerAddress,
    balance,              \* native coins of the contract
    collected,            \* withdrawn by the funds recipient
    purchased, sales      \* history: tokens purchased, and their price

sale  == <<publicSalePrice, maxSalePurchasePerAddress>>
funds == <<balance, collected>>
vars  == <<now, endDate, currentTokenId, totalMintsByAddress, sale, funds, purchased, sales>>

INITIAL_END_DATE == START_DATE + INITIAL_MAX_SUPPLY * MINT_INTERVAL

\* Faulty: only the first token of the call is looked at.
CanMintFirstToken(quantity) == quantity >= 1 /\ now < endDate

CanMintTokens(quantity) ==
    /\ quantity >= 1
    /\ MINT_INTERVAL * (quantity - 1) <= endDate
    /\ now < endDate - MINT_INTERVAL * (quantity - 1)

PublicSaleActive == START_DATE <= now

CurrentTheoricalMaxSupply ==
    IF now <= START_DATE THEN INITIAL_MAX_SUPPLY
    ELSE IF now >= INITIAL_END_DATE THEN 0
    ELSE INITIAL_MAX_SUPPLY - (now - START_DATE) \div MINT_INTERVAL

MintNFTs(recipient, quantity) ==
    /\ currentTokenId + quantity <= MaxMinted
    /\ currentTokenId' = currentTokenId + quantity
    /\ totalMintsByAddress' = [totalMintsByAddress EXCEPT ![recipient] = @ + quantity]

\* A buyer may refuse the refund: the call's result is not looked at.
Refund(value, remainder) ==
    \E refund \in {0, remainder} : balance' = balance + value - refund

\* Faulty: what exceeds the price of one token is sent back.
PurchaseRefundingAll(buyer, quantity, value) ==
    /\ CanMintTokens(quantity)
    /\ PublicSaleActive
    /\ value >= publicSalePrice * quantity
    /\ quantity * MINT_INTERVAL <= endDate
    /\ endDate' = endDate - quantity * MINT_INTERVAL
    /\ \/ maxSalePurchasePerAddress = 0
       \/ totalMintsByAddress[buyer] + quantity <= maxSalePurchasePerAddress
    /\ MintNFTs(buyer, quantity)
    /\ Refund(value, value - publicSalePrice)
    /\ purchased' = purchased + quantity
    /\ sales' = sales + publicSalePrice * quantity
    /\ UNCHANGED <<now, sale, collected>>

\* Faulty: the end date moves back by one interval for each call.
PurchaseMovingOnce(buyer, quantity, value) ==
    /\ CanMintTokens(quantity)
    /\ PublicSaleActive
    /\ value >= publicSalePrice * quantity
    /\ MINT_INTERVAL <= endDate
    /\ endDate' = endDate - MINT_INTERVAL
    /\ \/ maxSalePurchasePerAddress = 0
       \/ totalMintsByAddress[buyer] + quantity <= maxSalePurchasePerAddress
    /\ MintNFTs(buyer, quantity)
    /\ Refund(value, value - publicSalePrice * quantity)
    /\ purchased' = purchased + quantity
    /\ sales' = sales + publicSalePrice * quantity
    /\ UNCHANGED <<now, sale, collected>>

Purchase(buyer, quantity, value) ==
    /\ CanMintTokens(quantity)
    /\ PublicSaleActive
    /\ value >= publicSalePrice * quantity
    /\ quantity * MINT_INTERVAL <= endDate
    /\ endDate' = endDate - quantity * MINT_INTERVAL
    /\ \/ maxSalePurchasePerAddress = 0
       \/ totalMintsByAddress[buyer] + quantity <= maxSalePurchasePerAddress
    /\ MintNFTs(buyer, quantity)
    /\ Refund(value, value - publicSalePrice * quantity)
    /\ purchased' = purchased + quantity
    /\ sales' = sales + publicSalePrice * quantity
    /\ UNCHANGED <<now, sale, collected>>

\* What was paid for elsewhere: neither the start nor the end date is touched.
MintTo(recipient, quantity) ==
    /\ CanMintTokens(quantity)
    /\ MintNFTs(recipient, quantity)
    /\ UNCHANGED <<now, endDate, sale, funds, purchased, sales>>

SetSaleConfiguration ==
    /\ publicSalePrice' \in Prices
    /\ maxSalePurchasePerAddress' \in Limits
    /\ UNCHANGED <<now, endDate, currentTokenId, totalMintsByAddress, funds, purchased, sales>>

Withdraw ==
    /\ collected' = collected + balance
    /\ balance' = 0
    /\ UNCHANGED <<now, endDate, currentTokenId, totalMintsByAddress, sale, purchased, sales>>

Tick ==
    /\ now < MaxTime
    /\ now' = now + 1
    /\ UNCHANGED <<endDate, currentTokenId, totalMintsByAddress, sale, funds, purchased, sales>>

Init ==
    /\ now = 0
    /\ endDate = INITIAL_END_DATE
    /\ currentTokenId = 0
    /\ totalMintsByAddress = [a \in Accounts |-> 0]
    /\ publicSalePrice \in Prices /\ maxSalePurchasePerAddress \in Limits
    /\ balance = 0 /\ collected = 0
    /\ purchased = 0 /\ sales = 0

Next ==
    \/ \E a \in Accounts, q \in Quantities :
         \/ MintTo(a, q)
         \/ \E x \in Extras : Purchase(a, q, publicSalePrice * q + x)
    \/ SetSaleConfiguration \/ Withdraw \/ Tick

Spec == Init /\ [][Next]_vars
-----------------------------------------------------------------------------
\* The variables have their types.
TypeOK ==
    /\ now \in Nat /\ endDate \in Nat /\ currentTokenId \in Nat
    /\ totalMintsByAddress \in [Accounts -> Nat]
    /\ publicSalePrice \in Prices /\ maxSalePurchasePerAddress \in Limits
    /\ balance \in Nat /\ collected \in Nat
    /\ purchased \in Nat /\ sales \in Nat

\* However late a purchase comes and however many tokens it asks for, what has
\* been sold by then is at most the theoretical supply of that moment, which
\* currentTheoricalMaxSupply computes from the clock and not from the end date
\* (canMintTokens looks one interval short of the end date a purchase leaves).
PurchasesWithinSupply ==
    [][purchased' # purchased => purchased' <= CurrentTheoricalMaxSupply]_vars

\* The checked subtraction of purchase never refuses what canMintTokens and the
\* start date allow, also for the last tokens of a sale that starts at once.
LastTokensCanBeBought ==
    \A quantity \in Quantities :
        CanMintTokens(quantity) /\ PublicSaleActive => quantity * MINT_INTERVAL <= endDate

\* Refunds and changes of the price between purchases never cost the recipient
\* of the funds any of the price that tokens were sold at.
SalesAreCollected == balance + collected >= sales
=============================================================================
