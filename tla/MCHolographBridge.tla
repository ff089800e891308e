-------------------------- MODULE MCHolographBridge --------------------------
(* Instances of HolographBridge for TLC. *)
EXTENDS BridgeRefinement, TLC

OneByOne == {}
\* Runs over the last number of a prefix.
BatchOverTheEnd == {<<1, 2>>}

\* Two requests from chain 1, one from the other chain.
TwoAndOne == [c \in Chains |-> IF c = 1 THEN 2 ELSE 1]

AccountSymmetry == Permutations(Accounts)
=============================================================================
