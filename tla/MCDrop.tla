------------------------------- MODULE MCDrop -------------------------------
\* Sales configurations, roots and oracles for checking HolographDropERC721V2.
EXTENDS HolographDropERC721V2

CONSTANTS a1, a2

Leaf(account, maxQuantity, price) ==
    [account |-> account, maxQuantity |-> maxQuantity, price |-> price]

Configuration(price, limit, saleEnd, presaleStart, root) ==
    [publicSalePrice |-> price, maxSalePurchasePerAddress |-> limit,
     publicSaleStart |-> 0, publicSaleEnd |-> saleEnd,
     presaleStart |-> presaleStart, presaleEnd |-> 2, presaleMerkleRoot |-> root]

\* A sale with a limit beside a presale, and one that gives its tokens away after
\* the presale has a new root with two prices for the same account.
TwoConfigurations ==
    { Configuration(2, 2, 1, 0, {Leaf(a1, 1, 1)}),
      Configuration(0, 0, 2, 1, {Leaf(a1, 2, 0), Leaf(a1, 1, 2), Leaf(a2, 1, 1)}) }

\* The oracle asks for more per dollar when more is converted at once.
Linear == [usd \in 0..MaxUsd |-> usd]
Convex == [usd \in 0..MaxUsd |-> usd + usd \div 2]
BothQuotes == {Linear, Convex}
=============================================================================
