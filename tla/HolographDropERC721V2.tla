------------------------- MODULE HolographDropERC721V2 -------------------------
(***************************************************************************)
(* A drop: public sale, presale, free mints by the owner and an open       *)
(* edition that is closed later, priced in dollars and paid in native      *)
(* coins, with the protocol's fee paid to the treasury on every sale.  A   *)
(* transaction that reverts is a step not taken.  Left out: the metadata   *)
(* renderer, multicall, who owns the drop (the owner may always act) and   *)
(* the ids that exist before they are reached, which only a bridge from    *)
(* the same chain brings back, as ids that had been handed out.            *)
(***************************************************************************)
EXTENDS Integers

CONSTANTS
    Accounts,
    OPEN_EDITION,         \* type(uint64).max
    EditionSizes,         \* edition sizes a drop is created with
    SalesConfigurations,  \* records of the fields of the struct; the presale's
                          \* root is the set of its leaves
    Quotes,               \* functions of dollars to native coins: the oracle's
    Fees,                 \* holographMintFee, in dollars
    Quantities,           \* bound: tokens of one call
    Extras,               \* bound: what a buyer sends above the price
    MaxUsd,               \* bound: dollars converted at once
    MaxMinted,            \* bound: tokens minted
    MaxTime               \* bound: last date considered

ASSUME ConfigurationsType ==
    /\ OPEN_EDITION \in Nat /\ MaxMinted \in Nat /\ MaxMinted < OPEN_EDITION
    /\ EditionSizes \subseteq 0..OPEN_EDITION
    /\ MaxUsd \in Nat /\ MaxTime \in Nat
    /\ \A c \in SalesConfigurations :
         /\ c.publicSalePrice \in 0..MaxUsd /\ c.maxSalePurchasePerAddress \in Nat
         /\ \A leaf \in c.presaleMerkleRoot :
              leaf.account \in Accounts /\ leaf.maxQuantity \in Nat /\ leaf.price \in 0..MaxUsd
ASSUME AmountsType ==
    /\ Quantities \subseteq Nat /\ Extras \subseteq Nat
    /\ \A q \in Quotes : \A usd \in 0..MaxUsd : q[usd] \in Nat
    /\ \A fee \in Fees : fee \in 0..MaxUsd /\ \A q \in Quantities : fee * q \in 0..MaxUsd

VARIABLES
    now,                    \* block.timestamp
    editionSize,            \* config.editionSize
    salesConfig,
    currentTokenId,
    presaleMintsByAddress,
    holographMintFee,       \* of the treasury
    quote,                  \* the oracle's answers, as the market moves
    balance,                \* native coins of the drop
    collected,              \* withdrawn by the funds recipient
    proceeds,               \* history: price of all tokens sold, less the fees paid
    finalized               \* history: has finalizeOpenEdition been called

market  == <<now, holographMintFee, quote>>
money   == <<balance, proceeds>>
vars == <<market, money, finalized, editionSize, salesConfig, currentTokenId,
          presaleMintsByAddress, collected>>

UsdToWei(amount) == IF amount = 0 THEN 0 ELSE quote[amount]

\* Faulty: the tokens of the call itself are not counted.
CanMintOneMore(quantity) == editionSize # 0 => currentTokenId < editionSize

CanMintTokens(quantity) == editionSize # 0 => quantity + currentTokenId <= editionSize

PublicSaleActive == salesConfig.publicSaleStart <= now /\ now < salesConfig.publicSaleEnd

PresaleActive == salesConfig.presaleStart <= now /\ now < salesConfig.presaleEnd

\* The contract reads a counter of all mints that none of its functions writes.
TotalMintsByAddress(account) == 0

\* The subtraction is checked: a buyer of the presale is refused a quantity
\* smaller than what was bought there, wherever a limit is set.
WithinLimit(buyer, quantity) ==
    salesConfig.maxSalePurchasePerAddress # 0 =>
        /\ TotalMintsByAddress(buyer) + quantity >= presaleMintsByAddress[buyer]
        /\ TotalMintsByAddress(buyer) + quantity - presaleMintsByAddress[buyer]
             <= salesConfig.maxSalePurchasePerAddress

MintNFTs(quantity) ==
    /\ currentTokenId + quantity <= MaxMinted
    /\ currentTokenId' = currentTokenId + quantity

\* Faulty: the tokens are paid for once.
SettleOnce(value, price, quantity) ==
    LET fee       == UsdToWei(holographMintFee * quantity)
        remainder == value - price
    IN  /\ balance + value >= fee
        /\ \E refund \in {0} \union {r \in {remainder} : r <= balance + value - fee} :
             balance' = balance + value - fee - refund
        /\ proceeds' = proceeds + price * quantity - fee

\* The fee leaves first and reverts the sale when it cannot be paid; the refund is
\* what is above the price, fails silently when the drop is short of coins, and
\* may be refused by the buyer.
Settle(value, price, quantity) ==
    LET fee       == UsdToWei(holographMintFee * quantity)
        remainder == value - price * quantity
    IN  /\ balance + value >= fee
        /\ \E refund \in {0} \union {r \in {remainder} : r <= balance + value - fee} :
             balance' = balance + value - fee - refund
        /\ proceeds' = proceeds + price * quantity - fee

Purchase(buyer, quantity, extra) ==
    LET price == UsdToWei(salesConfig.publicSalePrice)
        due   == price + UsdToWei(holographMintFee)
    IN  /\ CanMintTokens(quantity)
        /\ PublicSaleActive
        /\ WithinLimit(buyer, quantity)
        /\ MintNFTs(quantity)
        /\ Settle(due * quantity + extra, price, quantity)
        /\ UNCHANGED <<market, editionSize, salesConfig, presaleMintsByAddress,
                       collected, finalized>>

\* The price of a leaf is what the buyer pays; the fee is taken out of it.
PurchasePresale(buyer, quantity, leaf, extra) ==
    LET price == UsdToWei(leaf.price)
    IN  /\ CanMintTokens(quantity)
        /\ PresaleActive
        /\ leaf \in salesConfig.presaleMerkleRoot /\ leaf.account = buyer
        /\ presaleMintsByAddress' = [presaleMintsByAddress EXCEPT ![buyer] = @ + quantity]
        /\ presaleMintsByAddress'[buyer] <= leaf.maxQuantity
        /\ MintNFTs(quantity)
        /\ Settle(price * quantity + extra, price, quantity)
        /\ UNCHANGED <<market, finalized, editionSize, salesConfig, collected>>

\* adminMint, and adminMintAirdrop with as many recipients.
AdminMint(quantity) ==
    /\ CanMintTokens(quantity)
    /\ MintNFTs(quantity)
    /\ UNCHANGED <<market, money, finalized, editionSize, salesConfig,
                   presaleMintsByAddress, collected>>

SetSaleConfiguration ==
    /\ salesConfig' \in SalesConfigurations
    /\ UNCHANGED <<market, money, finalized, editionSize, currentTokenId,
                   presaleMintsByAddress, collected>>

\* Faulty: the edition stays as open as it was.
FinalizeNothing ==
    /\ editionSize = OPEN_EDITION
    /\ finalized' = TRUE
    /\ UNCHANGED <<market, money, editionSize, salesConfig, currentTokenId,
                   presaleMintsByAddress, collected>>

\* Faulty: the number of the last token, counted from zero.
FinalizeLastToken ==
    /\ editionSize = OPEN_EDITION
    /\ editionSize' = currentTokenId - 1
    /\ finalized' = TRUE
    /\ UNCHANGED <<market, money, salesConfig, currentTokenId,
                   presaleMintsByAddress, collected>>

FinalizeOpenEdition ==
    /\ editionSize = OPEN_EDITION
    /\ editionSize' = currentTokenId
    /\ finalized' = TRUE
    /\ UNCHANGED <<market, money, salesConfig, currentTokenId,
                   presaleMintsByAddress, collected>>

Withdraw ==
    /\ collected' = collected + balance
    /\ balance' = 0
    /\ UNCHANGED <<market, finalized, proceeds, editionSize, salesConfig,
                   currentTokenId, presaleMintsByAddress>>

\* Time passes, the market moves, or the protocol's administrators set the fee.
MarketMoves ==
    /\ \/ now < MaxTime /\ now' = now + 1 /\ UNCHANGED <<holographMintFee, quote>>
       \/ quote' \in Quotes /\ UNCHANGED <<now, holographMintFee>>
       \/ holographMintFee' \in Fees /\ UNCHANGED <<now, quote>>
    /\ UNCHANGED <<money, finalized, editionSize, salesConfig, currentTokenId,
                   presaleMintsByAddress, collected>>

Init ==
    /\ now = 0
    /\ editionSize \in EditionSizes
    /\ salesConfig \in SalesConfigurations
    /\ currentTokenId = 0
    /\ presaleMintsByAddress = [a \in Accounts |-> 0]
    /\ holographMintFee \in Fees
    /\ quote \in Quotes
    /\ balance = 0 /\ collected = 0
    /\ proceeds = 0
    /\ finalized = FALSE

Next ==
    \/ \E q \in Quantities :
         \/ AdminMint(q)
         \/ \E a \in Accounts, x \in Extras :
              \/ Purchase(a, q, x)
              \/ \E leaf \in salesConfig.presaleMerkleRoot : PurchasePresale(a, q, leaf, x)
    \/ SetSaleConfiguration \/ FinalizeOpenEdition \/ Withdraw \/ MarketMoves

Spec == Init /\ [][Next]_vars
-----------------------------------------------------------------------------
\* The variables have their types; the counter of proceeds may go below zero when
\* fees exceed the price of what is sold, the balance never does.
TypeOK ==
    /\ now \in 0..MaxTime /\ editionSize \in 0..OPEN_EDITION
    /\ salesConfig \in SalesConfigurations /\ currentTokenId \in 0..MaxMinted
    /\ presaleMintsByAddress \in [Accounts -> Nat]
    /\ holographMintFee \in Fees /\ quote \in Quotes
    /\ balance \in Nat /\ collected \in Nat
    /\ proceeds \in Int /\ finalized \in BOOLEAN

\* No order of sales, presales, free mints and finalization takes an edition beyond
\* its size, which finalization sets to whatever has been minted by then.
WithinEdition == editionSize # 0 => currentTokenId <= editionSize

\* Once an open edition with tokens in it has been finalized, sales, presales and
\* free mints end for good at the number it was finalized with, whatever the sales
\* configuration becomes.
FinalizedEditionStays ==
    [][finalized /\ editionSize # 0 => UNCHANGED currentTokenId]_vars

\* What the recipient of the funds gets, now or earlier, is at least the price of
\* all tokens sold less the fees paid: refunds above the overpayment, fees whose
\* conversion costs more for many tokens than for each, and a drop short of coins
\* take nothing else (test/foundry/HolographDropERC721.t.sol expects this balance).
ProceedsCovered == balance + collected >= proceeds
=============================================================================
