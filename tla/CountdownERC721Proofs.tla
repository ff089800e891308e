------------------------ MODULE CountdownERC721Proofs ------------------------
(***************************************************************************)
(* For all dates, supplies and intervals, whatever is bought when: the end *)
(* date is INITIAL_END_DATE less an interval for each token purchased, and *)
(* from that follow both that purchases stay within the supply of their    *)
(* moment and that the checked subtraction refuses none of them.           *)
(***************************************************************************)
EXTENDS CountdownERC721, TLAPS

\* What the two claims need of the state: which tokens moved the end date.
EndDateFollowsPurchases ==
    /\ endDate = INITIAL_END_DATE - MINT_INTERVAL * purchased
    /\ purchased <= INITIAL_MAX_SUPPLY

Inv == TypeOK /\ EndDateFollowsPurchases /\ SalesAreCollected

-----------------------------------------------------------------------------
\* Arithmetic of whole intervals.

\* A multiple of m that is less than another is the multiple of a smaller number.
LEMMA SmallerFactor ==
    ASSUME NEW m \in Nat, NEW j \in Int, NEW k \in Int, m * j < m * k
    PROVE  j < k
<1>1. SUFFICES ASSUME j >= k PROVE FALSE
  OBVIOUS
<1>2. PICK d \in Nat : j = k + d
  <2>1. j - k \in Nat /\ j = k + (j - k)
    BY <1>1
  <2> QED BY <2>1
<1>3. m * j = m * k + m * d
  BY <1>2
<1>4. m * d >= 0
  OBVIOUS
<1> QED BY <1>3, <1>4

LEMMA Products ==
    ASSUME NEW m \in Nat, NEW k \in Nat
    PROVE  m * k \in Nat
OBVIOUS

\* The floor of a quotient, as the division of the EVM computes it.
LEMMA Floor ==
    ASSUME NEW n \in Nat, NEW m \in Nat, m > 0
    PROVE  n \div m \in Nat /\ m * (n \div m) <= n
OBVIOUS

\* With s intervals in all, p used up and less than s - p - q + 1 elapsed, what is
\* left of the supply covers the p + q tokens.
LEMMA WholeIntervals ==
    ASSUME NEW m \in Nat, NEW s \in Int, NEW p \in Int, NEW q \in Int, NEW t \in Nat,
           m > 0, t < m * s - m * p - m * (q - 1)
    PROVE  p + q <= s - t \div m
<1> DEFINE k == t \div m
<1>1. k \in Nat /\ m * k <= t
  BY Floor
<1> HIDE DEF k
<1>2. m * s - m * p - m * (q - 1) = m * (s - p - q + 1)
  OBVIOUS
<1>3. m * k < m * (s - p - q + 1)
  BY <1>1, <1>2
<1>4. k < s - p - q + 1
  BY <1>1, <1>3, SmallerFactor
<1>5. p + q <= s - k
  BY <1>1, <1>4
<1> QED BY <1>5 DEF k

\* What an income of p adds to one side of a sum covers p more on the other.
LEMMA IncomeCovers ==
    ASSUME NEW b \in Nat, NEW c \in Nat, NEW s \in Nat, NEW p \in Nat, NEW c2 \in Nat,
           b + c >= s, c2 >= b + p
    PROVE  c2 + c >= s + p
OBVIOUS

-----------------------------------------------------------------------------
\* One purchase.

\* What canMintTokens and the start date let through ends within the supply:
\* the whole of what is sold by then, and less than an interval is left over.
LEMMA PurchaseFits ==
    ASSUME Inv, NEW quantity \in Nat, CanMintTokens(quantity), PublicSaleActive
    PROVE  /\ MINT_INTERVAL > 0
           /\ purchased + quantity <= INITIAL_MAX_SUPPLY
           /\ quantity * MINT_INTERVAL <= endDate
           /\ now < INITIAL_END_DATE
           /\ purchased + quantity <= CurrentTheoricalMaxSupply
<1> USE DatesType DEF Inv, TypeOK
<1> DEFINE m == MINT_INTERVAL
           t == now - START_DATE
           s == INITIAL_MAX_SUPPLY
           p == purchased
           q == quantity
<1>1. t \in Nat /\ now = START_DATE + t
  BY DEF PublicSaleActive
<1>2. endDate = START_DATE + s * m - m * p
  BY DEF EndDateFollowsPurchases, INITIAL_END_DATE
<1>3. q >= 1 /\ now < endDate - m * (q - 1)
  BY DEF CanMintTokens
<1>4. m * p \in Nat /\ m * (q - 1) \in Nat /\ m * q \in Nat /\ s * m \in Nat
  <2>1. q - 1 \in Nat
    BY <1>3
  <2> QED BY <2>1, Products
<1>5. t < m * s - m * p - m * (q - 1)
  <2>1. s * m = m * s
    OBVIOUS
  <2> QED BY <1>1, <1>2, <1>3, <1>4, <2>1
<1>6. m > 0
  <2>1. SUFFICES ASSUME m = 0 PROVE FALSE
    OBVIOUS
  <2>2. m * s = 0 /\ m * p = 0 /\ m * (q - 1) = 0
    BY <2>1
  <2> QED BY <1>1, <1>5, <2>2
<1>7. p + q <= s - t \div m
  BY <1>1, <1>5, <1>6, WholeIntervals
<1>8. t \div m \in Nat
  BY <1>1, <1>6, Floor
<1>9. p + q <= s
  BY <1>7, <1>8
<1>10. m * q <= endDate
  <2>1. PICK r \in Nat : s = p + q + r
    <3>1. s - p - q \in Nat /\ s = p + q + (s - p - q)
      BY <1>9
    <3> QED BY <3>1
  <2>2. s * m = m * p + m * q + m * r
    BY <2>1
  <2>3. m * r \in Nat
    BY <2>1, Products
  <2> QED BY <1>2, <1>4, <2>2, <2>3
<1>11. now < INITIAL_END_DATE
  BY <1>1, <1>4, <1>5 DEF INITIAL_END_DATE
<1>12. p + q <= CurrentTheoricalMaxSupply
  <2>1. CASE now <= START_DATE
    BY <2>1, <1>9 DEF CurrentTheoricalMaxSupply
  <2>2. CASE ~(now <= START_DATE)
    <3>1. ~(now >= INITIAL_END_DATE)
      <4>1. INITIAL_END_DATE \in Nat
        BY <1>4 DEF INITIAL_END_DATE
      <4> QED BY <1>11, <4>1
    <3>2. CurrentTheoricalMaxSupply = s - t \div m
      BY <2>2, <3>1 DEF CurrentTheoricalMaxSupply
    <3> QED BY <1>7, <3>2
  <2> QED BY <2>1, <2>2
<1> QED
  <2>1. q * m = m * q
    OBVIOUS
  <2> QED BY <1>6, <1>9, <1>10, <1>11, <1>12, <2>1

\* The refund is sent or refused: the contract keeps at least the price.
LEMMA PurchaseKeeps ==
    ASSUME Inv, NEW buyer \in Accounts, NEW quantity \in Nat, NEW extra \in Nat,
           Purchase(buyer, quantity, publicSalePrice * quantity + extra)
    PROVE  balance' \in Nat /\ balance' >= balance + publicSalePrice * quantity
<1> USE AmountsType DEF Inv, TypeOK
<1> DEFINE price == publicSalePrice * quantity
<1>1. price \in Nat
  <2>1. publicSalePrice \in Nat
    OBVIOUS
  <2> QED BY <2>1, Products
<1>2. PICK refund \in {0, price + extra - price} : balance' = balance + (price + extra) - refund
  BY DEF Purchase, Refund
<1> HIDE DEF price
<1>3. refund = 0 \/ refund = extra
  BY <1>1, <1>2
<1>4. balance' \in Nat /\ balance' >= balance + price
  BY <1>1, <1>2, <1>3
<1> QED BY <1>4 DEF price

-----------------------------------------------------------------------------
\* The invariant.

LEMMA InitInv == Init => Inv
<1> SUFFICES ASSUME Init PROVE Inv
  OBVIOUS
<1> USE DatesType DEF Init
<1>1. INITIAL_MAX_SUPPLY * MINT_INTERVAL \in Nat
  BY Products
<1>2. INITIAL_END_DATE \in Nat
  BY <1>1 DEF INITIAL_END_DATE
<1>3. MINT_INTERVAL * purchased = 0
  OBVIOUS
<1> QED BY <1>2, <1>3 DEF Inv, TypeOK, EndDateFollowsPurchases, SalesAreCollected

LEMMA PurchaseInv ==
    ASSUME Inv, NEW buyer \in Accounts, NEW quantity \in Quantities, NEW extra \in Extras,
           Purchase(buyer, quantity, publicSalePrice * quantity + extra)
    PROVE  Inv'
<1> USE DatesType, AmountsType DEF Inv, TypeOK
<1>1. quantity \in Nat /\ extra \in Nat
  OBVIOUS
<1>2. CanMintTokens(quantity) /\ PublicSaleActive
  BY DEF Purchase
<1>3. purchased + quantity <= INITIAL_MAX_SUPPLY /\ quantity * MINT_INTERVAL <= endDate
  BY <1>1, <1>2, PurchaseFits
<1>4. quantity * MINT_INTERVAL \in Nat
  BY <1>1, Products
<1>5. balance' \in Nat
  BY <1>1, PurchaseKeeps
<1>6. publicSalePrice * quantity \in Nat
  <2>1. publicSalePrice \in Nat
    OBVIOUS
  <2> QED BY <1>1, <2>1, Products
<1>7. totalMintsByAddress' \in [Accounts -> Nat] /\ currentTokenId' \in Nat
  BY <1>1 DEF Purchase, MintNFTs
<1>8. endDate' \in Nat /\ purchased' \in Nat /\ sales' \in Nat
  BY <1>1, <1>3, <1>4, <1>6 DEF Purchase
<1>9. TypeOK'
  BY <1>5, <1>7, <1>8 DEF Purchase, sale
<1>10. MINT_INTERVAL * purchased' = MINT_INTERVAL * purchased + quantity * MINT_INTERVAL
  BY <1>1 DEF Purchase
<1>11. INITIAL_END_DATE' = INITIAL_END_DATE
  BY DEF INITIAL_END_DATE
<1>12. MINT_INTERVAL * purchased \in Nat /\ INITIAL_MAX_SUPPLY * MINT_INTERVAL \in Nat
  BY Products
<1>13. EndDateFollowsPurchases'
  <2>1. endDate' = endDate - quantity * MINT_INTERVAL /\ purchased' = purchased + quantity
    BY DEF Purchase
  <2>2. endDate = INITIAL_END_DATE - MINT_INTERVAL * purchased
    BY DEF EndDateFollowsPurchases
  <2>3. INITIAL_END_DATE \in Nat
    BY <1>12 DEF INITIAL_END_DATE
  <2>4. endDate' = INITIAL_END_DATE - MINT_INTERVAL * purchased'
    BY <1>4, <1>10, <1>12, <2>1, <2>2, <2>3
  <2> QED BY <1>3, <1>11, <2>1, <2>4 DEF EndDateFollowsPurchases
<1>14. SalesAreCollected'
  <2>1. PICK price \in Nat : price = publicSalePrice * quantity
    BY <1>6
  <2>2. balance' >= balance + price
    BY <1>1, <2>1, PurchaseKeeps
  <2>3. sales' = sales + price /\ collected' = collected
    BY <2>1 DEF Purchase
  <2>4. balance + collected >= sales
    BY DEF SalesAreCollected
  <2>5. balance \in Nat /\ collected \in Nat /\ sales \in Nat
    OBVIOUS
  <2>6. balance' + collected >= sales + price
    BY <1>5, <2>2, <2>4, <2>5, IncomeCovers
  <2> QED BY <2>3, <2>6 DEF SalesAreCollected
<1> QED BY <1>9, <1>13, <1>14

LEMMA NextInv == Inv /\ [Next]_vars => Inv'
<1> SUFFICES ASSUME Inv, [Next]_vars PROVE Inv'
  OBVIOUS
<1>1. ASSUME NEW a \in Accounts, NEW q \in Quantities, NEW x \in Extras,
             Purchase(a, q, publicSalePrice * q + x)
      PROVE  Inv'
  BY <1>1, PurchaseInv
<1>2. ASSUME NEW a \in Accounts, NEW q \in Quantities, MintTo(a, q) PROVE Inv'
  <2> USE AmountsType DEF Inv, TypeOK
  <2>1. totalMintsByAddress' \in [Accounts -> Nat] /\ currentTokenId' \in Nat
    BY <1>2 DEF MintTo, MintNFTs
  <2>2. TypeOK'
    BY <1>2, <2>1 DEF MintTo, sale, funds
  <2>3. EndDateFollowsPurchases'
    BY <1>2 DEF MintTo, EndDateFollowsPurchases, INITIAL_END_DATE
  <2>4. SalesAreCollected'
    BY <1>2 DEF MintTo, SalesAreCollected, funds
  <2> QED BY <2>2, <2>3, <2>4
<1>3. CASE SetSaleConfiguration
  BY <1>3 DEF SetSaleConfiguration, Inv, TypeOK, SalesAreCollected,
              EndDateFollowsPurchases, INITIAL_END_DATE, funds
<1>4. CASE Withdraw
  BY <1>4 DEF Withdraw, Inv, TypeOK, SalesAreCollected,
              EndDateFollowsPurchases, INITIAL_END_DATE, sale
<1>5. CASE Tick
  BY <1>5 DEF Tick, Inv, TypeOK, SalesAreCollected,
              EndDateFollowsPurchases, INITIAL_END_DATE, sale, funds
<1>6. CASE UNCHANGED vars
  BY <1>6 DEF vars, Inv, TypeOK, SalesAreCollected,
              EndDateFollowsPurchases, INITIAL_END_DATE, sale, funds
<1> QED BY <1>1, <1>2, <1>3, <1>4, <1>5, <1>6 DEF Next

LEMMA Invariance == Spec => []Inv
BY InitInv, NextInv, PTL DEF Spec

-----------------------------------------------------------------------------
\* The variables keep their types: endDate, an unsigned number of the code, never
\* drops below zero whatever quantity is asked for.
THEOREM TypeCorrect == Spec => []TypeOK
<1>1. Inv => TypeOK
  BY DEF Inv
<1> QED BY <1>1, Invariance, PTL

\* What is sold is at any time within the theoretical supply of that time.
THEOREM SoldWithinSupply == Spec => PurchasesWithinSupply
<1>1. Inv /\ [Next]_vars => [purchased' # purchased => purchased' <= CurrentTheoricalMaxSupply]_vars
  <2> SUFFICES ASSUME Inv, Next, purchased' # purchased
               PROVE  purchased' <= CurrentTheoricalMaxSupply
    OBVIOUS
  <2>1. PICK a \in Accounts, q \in Quantities, x \in Extras :
            Purchase(a, q, publicSalePrice * q + x)
    BY DEF Next, MintTo, SetSaleConfiguration, Withdraw, Tick
  <2>2. q \in Nat
    BY AmountsType
  <2>3. CanMintTokens(q) /\ PublicSaleActive /\ purchased' = purchased + q
    BY <2>1 DEF Purchase
  <2> QED BY <2>2, <2>3, PurchaseFits
<1> QED BY <1>1, Invariance, PTL DEF Spec, PurchasesWithinSupply

\* No purchase that the start date and canMintTokens allow fails on arithmetic.
THEOREM LastTokensAreSold == Spec => []LastTokensCanBeBought
<1>1. Inv => LastTokensCanBeBought
  <2> SUFFICES ASSUME Inv, NEW quantity \in Quantities,
                      CanMintTokens(quantity), PublicSaleActive
               PROVE  quantity * MINT_INTERVAL <= endDate
    BY DEF LastTokensCanBeBought
  <2>1. quantity \in Nat
    BY AmountsType
  <2> QED BY <2>1, PurchaseFits
<1> QED BY <1>1, Invariance, PTL

\* The price of every token sold is in the contract or has been withdrawn.
THEOREM SalesStayCollected == Spec => []SalesAreCollected
<1>1. Inv => SalesAreCollected
  BY DEF Inv
<1> QED BY <1>1, Invariance, PTL
=============================================================================
