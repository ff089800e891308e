----------------------- MODULE OperatorDocumentation -----------------------
(* A statement of the comments of the operator contract that its code does *)
(* not keep.                                                               *)
EXTENDS HolographOperator

\* "mark zero address as bonded operator, to prevent abuse" and "check that an
\* operator is currently bonded" (comments of init and topupUtilityToken): no
\* HLG is recorded for the zero address, from which nobody can unbond it.
ZeroAddressHoldsNoBond == bondedAmounts[Zero] = 0
=============================================================================
