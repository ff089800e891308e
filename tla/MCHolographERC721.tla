------------------------- MODULE MCHolographERC721 -------------------------
(* Instances of HolographERC721 for TLC. *)
EXTENDS ERC721Refinement

CONSTANTS a1, a2

\* Single mints, a list that is as long as is allowed to consecutive ones only,
\* the same out of order, and one with an id twice.  The id 3 is of another
\* chain and gets here over the bridge.
MintedTogether == {<<0>>, <<1>>, <<2>>, <<1, 2>>, <<2, 1>>, <<1, 1>>}

\* The source contract approves a2 of the tokens of a1.
ApprovedBySource == {<<a1, a2>>}
=============================================================================
