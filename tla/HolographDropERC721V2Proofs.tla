---------------------- MODULE HolographDropERC721V2Proofs ----------------------
(***************************************************************************)
(* For all configurations, roots, fees and answers of the oracle: types,   *)
(* the size of the edition, its closing and what the recipient of the      *)
(* funds is left with.                                                     *)
(***************************************************************************)
EXTENDS HolographDropERC721V2, TLAPS

\* A finalized edition has the size it had when it was finalized: no action makes
\* it open again, so that only the empty one, of size 0, goes on growing.
FinalSize == finalized => editionSize = 0 \/ editionSize = currentTokenId

\* A bounded number of tokens never fills an open edition.
Open == editionSize = OPEN_EDITION => ~finalized

Inv ==
    /\ TypeOK
    /\ WithinEdition
    /\ FinalSize
    /\ Open
    /\ ProceedsCovered

-----------------------------------------------------------------------------
\* Arithmetic of a sale.

LEMMA Products ==
    ASSUME NEW m \in Nat, NEW k \in Nat
    PROVE  m * k \in Nat
OBVIOUS

\* Of v received for goods of the price p, f is passed on and r sent back.
LEMMA IncomeCovers ==
    ASSUME NEW b \in Nat, NEW c \in Nat, NEW s \in Int, NEW p \in Nat, NEW f \in Nat,
           NEW v \in Nat, NEW r \in Nat, b + c >= s, v >= p, r <= v - p
    PROVE  (b + v - f - r) + c >= s + p - f
OBVIOUS

LEMMA Conversion ==
    ASSUME TypeOK, NEW usd \in 0..MaxUsd
    PROVE  UsdToWei(usd) \in Nat
BY AmountsType DEF TypeOK, UsdToWei

LEMMA FeeConverts ==
    ASSUME TypeOK, NEW quantity \in Quantities
    PROVE  UsdToWei(holographMintFee) \in Nat /\ UsdToWei(holographMintFee * quantity) \in Nat
<1>1. holographMintFee \in 0..MaxUsd /\ holographMintFee * quantity \in 0..MaxUsd
  BY AmountsType DEF TypeOK
<1> QED BY <1>1, Conversion

\* The settlement of a sale that was paid at least its price.
LEMMA Settlement ==
    ASSUME TypeOK, ProceedsCovered, NEW value \in Nat, NEW price \in Nat,
           NEW quantity \in Quantities, value >= price * quantity,
           Settle(value, price, quantity), collected' = collected
    PROVE  balance' \in Nat /\ proceeds' \in Int /\ ProceedsCovered'
<1>1. PICK cost \in Nat : cost = price * quantity
  <2>1. quantity \in Nat
    BY AmountsType
  <2> QED BY <2>1, Products
<1>2. PICK fee \in Nat : fee = UsdToWei(holographMintFee * quantity)
  BY FeeConverts
<1>3. balance \in Nat /\ collected \in Nat /\ proceeds \in Int
  BY DEF TypeOK
<1>4. /\ balance + value >= fee
      /\ proceeds' = proceeds + cost - fee
      /\ \E refund \in {0} \union {r \in {value - cost} : r <= balance + value - fee} :
           balance' = balance + value - fee - refund
  BY <1>1, <1>2 DEF Settle
<1>5. value >= cost
  BY <1>1
<1>6. PICK refund \in Nat : /\ refund <= value - cost /\ refund <= balance + value - fee
                            /\ balance' = balance + value - fee - refund
  BY <1>3, <1>4, <1>5
<1>7. balance' \in Nat /\ proceeds' \in Int
  BY <1>3, <1>4, <1>6
<1>8. balance + collected >= proceeds
  BY DEF ProceedsCovered
<1>9. (balance + value - fee - refund) + collected >= proceeds + cost - fee
  BY <1>3, <1>5, <1>6, <1>8, IncomeCovers
<1> QED BY <1>4, <1>6, <1>7, <1>9 DEF ProceedsCovered

\* What a mint that passed canMintTokens leaves of the edition.
LEMMA Minting ==
    ASSUME TypeOK, WithinEdition, FinalSize, Open,
           NEW quantity \in Quantities, CanMintTokens(quantity), MintNFTs(quantity),
           UNCHANGED <<editionSize, finalized>>
    PROVE  /\ currentTokenId' \in 0..MaxMinted
           /\ WithinEdition' /\ FinalSize' /\ Open'
           /\ finalized /\ editionSize # 0 => currentTokenId' = currentTokenId
<1>1. quantity \in Nat
  BY AmountsType
<1>2. currentTokenId \in 0..MaxMinted /\ editionSize \in Nat /\ MaxMinted \in Nat
  BY ConfigurationsType DEF TypeOK
<1>3. currentTokenId' = currentTokenId + quantity /\ currentTokenId' <= MaxMinted
  BY DEF MintNFTs
<1>4. currentTokenId' \in 0..MaxMinted
  BY <1>1, <1>2, <1>3
<1>5. WithinEdition'
  BY <1>1, <1>2, <1>3 DEF WithinEdition, CanMintTokens
<1>6. finalized /\ editionSize # 0 => currentTokenId' = currentTokenId
  BY <1>1, <1>2, <1>3 DEF FinalSize, CanMintTokens
<1> QED BY <1>4, <1>5, <1>6 DEF FinalSize, Open

-----------------------------------------------------------------------------
\* The invariant, action by action.

LEMMA InitInv == Init => Inv
<1> SUFFICES ASSUME Init PROVE Inv
  OBVIOUS
<1> USE DEF Init
<1>1. TypeOK
  <2>1. now \in 0..MaxTime /\ editionSize \in 0..OPEN_EDITION /\ currentTokenId \in 0..MaxMinted
    BY ConfigurationsType
  <2>2. presaleMintsByAddress \in [Accounts -> Nat]
    OBVIOUS
  <2>3. balance \in Nat /\ collected \in Nat /\ proceeds \in Int
    OBVIOUS
  <2>4. finalized \in BOOLEAN
    OBVIOUS
  <2>5. /\ salesConfig \in SalesConfigurations
        /\ holographMintFee \in Fees /\ quote \in Quotes
    OBVIOUS
  <2> HIDE DEF Init
  <2> QED BY <2>1, <2>2, <2>3, <2>4, <2>5, Zenon DEF TypeOK
<1>2. WithinEdition
  BY ConfigurationsType DEF WithinEdition
<1>3. FinalSize /\ Open /\ ProceedsCovered
  BY DEF FinalSize, Open, ProceedsCovered
<1> QED BY <1>1, <1>2, <1>3 DEF Inv

LEMMA PurchaseInv ==
    ASSUME Inv, NEW buyer \in Accounts, NEW quantity \in Quantities, NEW extra \in Extras,
           Purchase(buyer, quantity, extra)
    PROVE  Inv'
<1> DEFINE price == UsdToWei(salesConfig.publicSalePrice)
           fee   == UsdToWei(holographMintFee)
           value == (price + fee) * quantity + extra
<1>1. TypeOK /\ WithinEdition /\ FinalSize /\ Open /\ ProceedsCovered
  BY DEF Inv
<1>2. price \in Nat /\ fee \in Nat
  <2>1. salesConfig.publicSalePrice \in 0..MaxUsd
    BY <1>1, ConfigurationsType DEF TypeOK
  <2> QED BY <1>1, <2>1, Conversion, FeeConverts
<1>3. /\ CanMintTokens(quantity) /\ MintNFTs(quantity) /\ Settle(value, price, quantity)
      /\ UNCHANGED <<market, editionSize, salesConfig, presaleMintsByAddress,
                     collected, finalized>>
  BY DEF Purchase
<1>4. quantity \in Nat /\ extra \in Nat
  BY AmountsType
<1> HIDE DEF price, fee
<1>5. value \in Nat /\ value >= price * quantity
  <2>1. price * quantity \in Nat /\ fee * quantity \in Nat
    BY <1>2, <1>4, Products
  <2>2. (price + fee) * quantity = price * quantity + fee * quantity
    BY <1>2, <1>4
  <2> QED BY <1>4, <2>1, <2>2
<1> HIDE DEF value
<1>6. balance' \in Nat /\ proceeds' \in Int /\ ProceedsCovered'
  BY <1>1, <1>2, <1>3, <1>5, Settlement
<1>7. currentTokenId' \in 0..MaxMinted /\ WithinEdition' /\ FinalSize' /\ Open'
  BY <1>1, <1>3, Minting
<1>8. TypeOK'
  BY <1>1, <1>3, <1>6, <1>7 DEF TypeOK, market
<1> QED BY <1>6, <1>7, <1>8 DEF Inv

LEMMA PresaleInv ==
    ASSUME Inv, NEW buyer \in Accounts, NEW quantity \in Quantities, NEW extra \in Extras,
           NEW leaf \in salesConfig.presaleMerkleRoot,
           PurchasePresale(buyer, quantity, leaf, extra)
    PROVE  Inv'
<1> DEFINE price == UsdToWei(leaf.price)
           value == price * quantity + extra
<1>1. TypeOK /\ WithinEdition /\ FinalSize /\ Open /\ ProceedsCovered
  BY DEF Inv
<1>2. salesConfig \in SalesConfigurations
  BY <1>1 DEF TypeOK
<1>3. price \in Nat
  <2>1. leaf.price \in 0..MaxUsd
    BY <1>2, ConfigurationsType
  <2> QED BY <1>1, <2>1, Conversion
<1>4. /\ CanMintTokens(quantity) /\ MintNFTs(quantity) /\ Settle(value, price, quantity)
      /\ presaleMintsByAddress' = [presaleMintsByAddress EXCEPT ![buyer] = @ + quantity]
      /\ UNCHANGED <<market, finalized, editionSize, salesConfig, collected>>
  BY DEF PurchasePresale
<1>5. quantity \in Nat /\ extra \in Nat
  BY AmountsType
<1> HIDE DEF price
<1>6. value \in Nat /\ value >= price * quantity
  <2>1. price * quantity \in Nat
    BY <1>3, <1>5, Products
  <2> QED BY <1>5, <2>1
<1> HIDE DEF value
<1>7. balance' \in Nat /\ proceeds' \in Int /\ ProceedsCovered'
  BY <1>1, <1>3, <1>4, <1>6, Settlement
<1>8. currentTokenId' \in 0..MaxMinted /\ WithinEdition' /\ FinalSize' /\ Open'
  BY <1>1, <1>4, Minting
<1>9. presaleMintsByAddress' \in [Accounts -> Nat]
  BY <1>1, <1>4, <1>5 DEF TypeOK
<1>10. TypeOK'
  BY <1>1, <1>4, <1>7, <1>8, <1>9 DEF TypeOK, market
<1> QED BY <1>7, <1>8, <1>10 DEF Inv

LEMMA NextInv == Inv /\ [Next]_vars => Inv'
<1> SUFFICES ASSUME Inv, [Next]_vars PROVE Inv'
  OBVIOUS
<1>1. ASSUME NEW a \in Accounts, NEW q \in Quantities, NEW x \in Extras, Purchase(a, q, x)
      PROVE  Inv'
  BY <1>1, PurchaseInv
<1>2. ASSUME NEW a \in Accounts, NEW q \in Quantities, NEW x \in Extras,
             NEW leaf \in salesConfig.presaleMerkleRoot, PurchasePresale(a, q, leaf, x)
      PROVE  Inv'
  BY <1>2, PresaleInv
<1>3. ASSUME NEW q \in Quantities, AdminMint(q) PROVE Inv'
  <2>1. currentTokenId' \in 0..MaxMinted /\ WithinEdition' /\ FinalSize' /\ Open'
    BY <1>3, Minting DEF AdminMint, Inv
  <2>2. TypeOK' /\ ProceedsCovered'
    BY <1>3, <2>1 DEF AdminMint, Inv, TypeOK, ProceedsCovered, market, money
  <2> QED BY <2>1, <2>2 DEF Inv
<1>4. CASE SetSaleConfiguration
  BY <1>4 DEF SetSaleConfiguration, Inv, TypeOK, WithinEdition, FinalSize, Open,
              ProceedsCovered, market, money
<1>5. CASE FinalizeOpenEdition
  <2>1. currentTokenId \in 0..MaxMinted /\ editionSize' = currentTokenId
        /\ currentTokenId' = currentTokenId /\ finalized' = TRUE
    BY <1>5 DEF FinalizeOpenEdition, Inv, TypeOK
  <2>2. editionSize' \in 0..OPEN_EDITION /\ editionSize' # OPEN_EDITION
    BY <2>1, ConfigurationsType
  <2>3. TypeOK'
    BY <1>5, <2>1, <2>2 DEF FinalizeOpenEdition, Inv, TypeOK, market, money
  <2>4. WithinEdition' /\ FinalSize' /\ Open'
    BY <2>1, <2>2, ConfigurationsType DEF WithinEdition, FinalSize, Open
  <2>5. ProceedsCovered'
    BY <1>5 DEF FinalizeOpenEdition, Inv, ProceedsCovered, money
  <2> QED BY <2>3, <2>4, <2>5 DEF Inv
<1>6. CASE Withdraw
  BY <1>6 DEF Withdraw, Inv, TypeOK, WithinEdition, FinalSize, Open,
              ProceedsCovered, market
<1>7. CASE MarketMoves
  BY <1>7, ConfigurationsType DEF MarketMoves, Inv, TypeOK, WithinEdition, FinalSize, Open,
              ProceedsCovered, money
<1>8. CASE UNCHANGED vars
  BY <1>8 DEF vars, Inv, TypeOK, WithinEdition, FinalSize, Open,
              ProceedsCovered, market, money
<1> QED BY <1>1, <1>2, <1>3, <1>4, <1>5, <1>6, <1>7, <1>8 DEF Next

LEMMA Invariance == Spec => []Inv
BY InitInv, NextInv, PTL DEF Spec

-----------------------------------------------------------------------------
\* The variables keep their types: the balance that pays fees and refunds never
\* becomes negative.
THEOREM TypeCorrect == Spec => []TypeOK
<1>1. Inv => TypeOK
  BY DEF Inv
<1> QED BY <1>1, Invariance, PTL

\* No edition is ever larger than its size.
THEOREM EditionsKeepTheirSize == Spec => []WithinEdition
<1>1. Inv => WithinEdition
  BY DEF Inv
<1> QED BY <1>1, Invariance, PTL

\* An edition finalized with tokens in it is closed for good.
THEOREM FinalizedStays == Spec => FinalizedEditionStays
<1>1. Inv /\ [Next]_vars => [finalized /\ editionSize # 0 => UNCHANGED currentTokenId]_vars
  <2> SUFFICES ASSUME Inv, Next, finalized, editionSize # 0
               PROVE  currentTokenId' = currentTokenId
    OBVIOUS
  <2>1. TypeOK /\ WithinEdition /\ FinalSize /\ Open
    BY DEF Inv
  <2>2. ASSUME NEW a \in Accounts, NEW q \in Quantities, NEW x \in Extras, Purchase(a, q, x)
        PROVE  currentTokenId' = currentTokenId
    BY <2>1, <2>2, Minting DEF Purchase
  <2>3. ASSUME NEW a \in Accounts, NEW q \in Quantities, NEW x \in Extras,
               NEW leaf \in salesConfig.presaleMerkleRoot, PurchasePresale(a, q, leaf, x)
        PROVE  currentTokenId' = currentTokenId
    BY <2>1, <2>3, Minting DEF PurchasePresale
  <2>4. ASSUME NEW q \in Quantities, AdminMint(q)
        PROVE  currentTokenId' = currentTokenId
    BY <2>1, <2>4, Minting DEF AdminMint
  <2>5. ASSUME SetSaleConfiguration \/ FinalizeOpenEdition \/ Withdraw \/ MarketMoves
        PROVE  currentTokenId' = currentTokenId
    BY <2>5 DEF SetSaleConfiguration, FinalizeOpenEdition, Withdraw, MarketMoves
  <2> QED BY <2>2, <2>3, <2>4, <2>5 DEF Next
<1> QED BY <1>1, Invariance, PTL DEF Spec, FinalizedEditionStays

\* The price of all tokens sold, less the fees passed on, is in the drop or has been
\* withdrawn, whatever the oracle answered and whichever refunds failed.
THEOREM ProceedsStayCovered == Spec => []ProceedsCovered
<1>1. Inv => ProceedsCovered
  BY DEF Inv
<1> QED BY <1>1, Invariance, PTL
=============================================================================
