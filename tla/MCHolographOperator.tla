------------------------ MODULE MCHolographOperator ------------------------
(* Instances of HolographOperator for TLC. *)
EXTENDS OperatorRefinement, OperatorDocumentation, TLC, FiniteSets
CONSTANTS a1, a2, a3

\* No account is a contract; every account has two (three) HLG.
NoContracts == [c \in {} |-> Zero]
TwoEach     == [a \in Accounts |-> 2]
ThreeEach   == [a \in Accounts |-> 3]

\* a3 is a contract owned by a1, and has no HLG of its own.
ContractOfA1 == [c \in {a3} |-> a1]
ThreeThreeNone == [a \in Accounts |-> IF a = a3 THEN 0 ELSE 3]

AccountSymmetry == Permutations(Accounts)
=============================================================================
