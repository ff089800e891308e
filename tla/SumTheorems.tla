---------------------------- MODULE SumTheorems ----------------------------
(***************************************************************************)
(* What SumFunction of the community modules computes, for functions from  *)
(* a finite set to Nat.  The contracts keep many of their amounts in       *)
(* mappings (bonds, balances, coins on their way) and a total next to      *)
(* them, so every proof about a total needs to know how a sum changes when *)
(* one summand does.                                                       *)
(*                                                                         *)
(* The library defines the sum by a recursive function; what such a        *)
(* function computes is found by counting.  Each f[x] stands for f[x]      *)
(* units, the cardinality of the set of units satisfies the recursion, and *)
(* a smallest set on which the sum and the count differ does not exist.    *)
(***************************************************************************)
EXTENDS Integers, FiniteSets, Functions, FiniteSetTheorems, WellFoundedInduction, TLAPS

\* The element the fold takes out of a set next.
SomeOf(T) == CHOOSE x \in T : TRUE

\* One unfolding of the recursion.
FoldBody(f, S, g) ==
  [T \in SUBSET S |-> IF T = {} THEN 0
                                ELSE f[SomeOf(T)] + g[T \ {SomeOf(T)}]]

\* The fold that SumFunction is defined by.
SumUp(f, S) == CHOOSE iter : iter = FoldBody(f, S, iter)

\* The library's SumFunction is that fold over the whole domain.
LEMMA SumFunctionIsFold ==
  ASSUME NEW f
  PROVE  SumFunction(f) = SumUp(f, DOMAIN f)[DOMAIN f]
  BY DEF SumFunction, SumFunctionOnSet, FoldFunctionOnSet, MapThenFoldSet,
         SumUp, FoldBody, SomeOf

\* A set with f[x] elements for every x of T.
Units(f, T) == {u \in T \X (UNION {1 .. f[x] : x \in T}) : u[2] \in 1 .. f[u[1]]}

\* The units of a set are those of one element and those of the rest.
LEMMA UnitsRemove ==
  ASSUME NEW S, NEW f \in [S -> Nat], NEW T \in SUBSET S, NEW x \in T,
         IsFiniteSet(Units(f, T \ {x}))
  PROVE  /\ IsFiniteSet(Units(f, T))
         /\ Cardinality(Units(f, T)) = f[x] + Cardinality(Units(f, T \ {x}))
<1> DEFINE Of == {x} \X (1 .. f[x])
           Rest == Units(f, T \ {x})
<1>1. f[x] \in Nat
  OBVIOUS
<1>2. IsFiniteSet(1 .. f[x]) /\ Cardinality(1 .. f[x]) = f[x]
  BY <1>1, FS_Interval
<1>3. IsFiniteSet({x}) /\ Cardinality({x}) = 1
  BY FS_Singleton
<1>4. IsFiniteSet(Of) /\ Cardinality(Of) = f[x]
  <2>1. IsFiniteSet(Of) /\ Cardinality(Of) = 1 * f[x]
    BY <1>2, <1>3, FS_Product
  <2> QED
    BY <2>1, <1>1
<1>5. Units(f, T) = Rest \union Of
  <2>1. ASSUME NEW u \in Units(f, T) PROVE u \in Rest \union Of
    <3>1. u = <<u[1], u[2]>> /\ u[1] \in T /\ u[2] \in 1 .. f[u[1]]
      BY <2>1 DEF Units
    <3>2. CASE u[1] = x
      BY <3>1, <3>2
    <3>3. CASE u[1] # x
      BY <3>1, <3>3 DEF Units
    <3> QED BY <3>2, <3>3
  <2>2. ASSUME NEW u \in Rest PROVE u \in Units(f, T)
    <3>1. u = <<u[1], u[2]>> /\ u[1] \in T /\ u[2] \in 1 .. f[u[1]]
      BY <2>2 DEF Units
    <3> QED BY <3>1 DEF Units
  <2>3. ASSUME NEW u \in Of PROVE u \in Units(f, T)
    <3>1. u = <<u[1], u[2]>> /\ u[1] = x /\ u[2] \in 1 .. f[u[1]]
      BY <2>3
    <3> QED BY <3>1 DEF Units
  <2> QED BY <2>1, <2>2, <2>3
<1>6. Rest \cap Of = {}
  BY DEF Units
<1>7. /\ IsFiniteSet(Rest \union Of)
      /\ Cardinality(Rest \union Of)
           = Cardinality(Rest) + Cardinality(Of) - Cardinality(Rest \cap Of)
  BY <1>4, FS_Union
<1>8. Cardinality(Rest) \in Nat /\ Cardinality({}) = 0
  BY FS_CardinalityType, FS_EmptySet
<1>9. Cardinality(Units(f, T)) = Cardinality(Rest) + f[x] - 0
  BY ONLY <1>4, <1>5, <1>6, <1>7, <1>8
<1>10. Cardinality(Units(f, T)) = f[x] + Cardinality(Rest)
  BY ONLY <1>1, <1>8, <1>9
<1> QED
  BY <1>5, <1>7, <1>10

\* A smallest subset with infinitely many units does not exist.
LEMMA UnitsFinite ==
  ASSUME NEW S, IsFiniteSet(S), NEW f \in [S -> Nat]
  PROVE  \A T \in SUBSET S : IsFiniteSet(Units(f, T))
<1> DEFINE Bad == {T \in SUBSET S : ~IsFiniteSet(Units(f, T))}
<1>1. SUFFICES ASSUME Bad # {} PROVE FALSE
  OBVIOUS
<1>2. IsWellFoundedOn(StrictSubsetOrdering(S), SUBSET S)
  BY FS_StrictSubsetOrderingWellFounded, FS_FiniteSubsetsOfFinite
<1>3. PICK T \in Bad : \A U \in Bad : ~(<<U, T>> \in StrictSubsetOrdering(S))
  <2>1. Bad \subseteq SUBSET S
    OBVIOUS
  <2> HIDE DEF Bad
  <2> QED BY <1>1, <1>2, <2>1, WFMin
<1>4. CASE T = {}
  <2>1. Units(f, T) = {}
    BY <1>4 DEF Units
  <2> QED BY <1>3, <2>1, FS_EmptySet
<1>5. ASSUME NEW x \in T PROVE FALSE
  <2>1. T \ {x} \notin Bad
    BY <1>3 DEF StrictSubsetOrdering
  <2>2. IsFiniteSet(Units(f, T \ {x}))
    BY <1>3, <2>1
  <2>3. IsFiniteSet(Units(f, T))
    BY <1>3, <2>2, UnitsRemove
  <2> QED BY <1>3, <2>3
<1> QED BY <1>4, <1>5

\* The count satisfies the recursion, and a smallest subset on which the fold
\* and the count differ does not exist.
LEMMA SumUpCounts ==
  ASSUME NEW S, IsFiniteSet(S), NEW f \in [S -> Nat]
  PROVE  SumUp(f, S)[S] = Cardinality(Units(f, S))
<1> DEFINE count == [T \in SUBSET S |-> Cardinality(Units(f, T))]
           up == SumUp(f, S)
           Bad == {T \in SUBSET S : up[T] # count[T]}
<1>1. ASSUME NEW T \in SUBSET S, T # {}
      PROVE  /\ SomeOf(T) \in T /\ T \ {SomeOf(T)} \in SUBSET S
             /\ count[T] = f[SomeOf(T)] + count[T \ {SomeOf(T)}]
  <2>1. SomeOf(T) \in T
    BY <1>1 DEF SomeOf
  <2>2. IsFiniteSet(Units(f, T \ {SomeOf(T)}))
    BY UnitsFinite
  <2>3. Cardinality(Units(f, T))
          = f[SomeOf(T)] + Cardinality(Units(f, T \ {SomeOf(T)}))
    BY <2>1, <2>2, UnitsRemove
  <2> QED BY <2>1, <2>3
<1>2. count[{}] = 0
  <2>1. Units(f, {}) = {}
    BY DEF Units
  <2> QED BY <2>1, FS_EmptySet
<1>3. count = FoldBody(f, S, count)
  <2>1. ASSUME NEW T \in SUBSET S PROVE count[T] = FoldBody(f, S, count)[T]
    <3>1. CASE T = {}
      BY <1>2, <3>1 DEF FoldBody
    <3>2. CASE T # {}
      BY <1>1, <3>2 DEF FoldBody
    <3> QED BY <3>1, <3>2
  <2> HIDE DEF count
  <2>2. count = [T \in SUBSET S |-> count[T]]
    BY DEF count
  <2> QED BY <2>1, <2>2 DEF FoldBody
<1>4. up = FoldBody(f, S, up)
  <2>1. \E g : g = FoldBody(f, S, g)
    <3> HIDE DEF count
    <3> QED BY <1>3
  <2>2. SumUp(f, S) = CHOOSE g : g = FoldBody(f, S, g)
    BY DEF SumUp
  <2> HIDE DEF up
  <2> QED BY <2>1, <2>2 DEF up
<1>5. ASSUME NEW T \in SUBSET S
      PROVE up[T] = IF T = {} THEN 0 ELSE f[SomeOf(T)] + up[T \ {SomeOf(T)}]
  <2> HIDE DEF up
  <2> QED BY <1>4 DEF FoldBody
<1>6. Bad = {}
  <2>1. SUFFICES ASSUME Bad # {} PROVE FALSE
    OBVIOUS
  <2>2. IsWellFoundedOn(StrictSubsetOrdering(S), SUBSET S)
    BY FS_StrictSubsetOrderingWellFounded, FS_FiniteSubsetsOfFinite
  <2>3. PICK T \in Bad : \A U \in Bad : ~(<<U, T>> \in StrictSubsetOrdering(S))
    <3>1. Bad \subseteq SUBSET S
      OBVIOUS
    <3> HIDE DEF Bad
    <3> QED BY <2>1, <2>2, <3>1, WFMin
  <2> HIDE DEF up, count
  <2>4. T # {}
    BY <2>3, <1>2, <1>5
  <2>5. T \ {SomeOf(T)} \notin Bad
    BY <2>3, <2>4, <1>1 DEF StrictSubsetOrdering
  <2>6. up[T \ {SomeOf(T)}] = count[T \ {SomeOf(T)}]
    BY <2>5, <2>4, <2>3, <1>1
  <2> QED BY <2>3, <2>4, <2>6, <1>1, <1>5
<1>7. up[S] = count[S]
  <2> HIDE DEF up, count
  <2> QED BY <1>6
<1> QED BY <1>7

\* A sum is the number of units.
LEMMA SumIsCount ==
  ASSUME NEW S, IsFiniteSet(S), NEW f \in [S -> Nat]
  PROVE  SumFunction(f) = Cardinality(Units(f, S))
<1>1. DOMAIN f = S
  OBVIOUS
<1> QED BY <1>1, SumFunctionIsFold, SumUpCounts

\* A sum of natural numbers is one.
THEOREM SumType ==
  ASSUME NEW S, IsFiniteSet(S), NEW f \in [S -> Nat]
  PROVE  SumFunction(f) \in Nat
  BY SumIsCount, UnitsFinite, FS_CardinalityType

\* A sum is one summand and the sum of the others.
THEOREM SumRemove ==
  ASSUME NEW S, IsFiniteSet(S), NEW f \in [S -> Nat], NEW x \in S,
         NEW g \in [S \ {x} -> Nat], \A y \in S \ {x} : g[y] = f[y]
  PROVE  SumFunction(f) = f[x] + SumFunction(g)
<1>1. IsFiniteSet(Units(f, S \ {x})) /\ IsFiniteSet(S \ {x})
  BY UnitsFinite, FS_RemoveElement
<1>2. Cardinality(Units(f, S)) = f[x] + Cardinality(Units(f, S \ {x}))
  BY <1>1, UnitsRemove
<1>3. Units(f, S \ {x}) = Units(g, S \ {x})
  BY DEF Units
<1> QED
  BY <1>1, <1>2, <1>3, SumIsCount

\* A new summand adds itself: a request that is sent joins the pending ones.
THEOREM SumAdd ==
  ASSUME NEW S, IsFiniteSet(S), NEW f \in [S -> Nat], NEW x, x \notin S,
         NEW g \in [S \union {x} -> Nat], \A y \in S : g[y] = f[y]
  PROVE  SumFunction(g) = SumFunction(f) + g[x]
<1> DEFINE More == S \union {x}
<1>1. IsFiniteSet(More)
  BY FS_AddElement
<1>2. x \in More /\ More \ {x} = S /\ g \in [More -> Nat]
  OBVIOUS
<1> HIDE DEF More
<1>3. f \in [More \ {x} -> Nat] /\ \A y \in More \ {x} : f[y] = g[y]
  BY <1>2
<1>4. SumFunction(g) = g[x] + SumFunction(f)
  BY <1>1, <1>2, <1>3, SumRemove
<1> QED
  BY <1>2, <1>4, SumType

\* When one summand changes, the sum changes by the same amount: an account's
\* bond or balance and the total of all of them.
THEOREM SumChange ==
  ASSUME NEW S, IsFiniteSet(S), NEW f \in [S -> Nat], NEW g \in [S -> Nat],
         NEW x \in S, \A y \in S \ {x} : g[y] = f[y]
  PROVE  SumFunction(g) + f[x] = SumFunction(f) + g[x]
<1> DEFINE others == [y \in S \ {x} |-> f[y]]
<1>1. others \in [S \ {x} -> Nat] /\ IsFiniteSet(S \ {x})
  BY FS_RemoveElement
<1>2. \A y \in S \ {x} : others[y] = f[y] /\ others[y] = g[y]
  OBVIOUS
<1> HIDE DEF others
<1>3. SumFunction(f) = f[x] + SumFunction(others)
  BY <1>1, <1>2, SumRemove
<1>4. SumFunction(g) = g[x] + SumFunction(others)
  BY <1>1, <1>2, SumRemove
<1>5. SumFunction(others) \in Nat /\ f[x] \in Nat /\ g[x] \in Nat
  BY <1>1, SumType
<1> QED
  BY ONLY <1>3, <1>4, <1>5

\* A total of nothing is zero: no bonds and no balances yet.
THEOREM SumOfZeros ==
  ASSUME NEW S, IsFiniteSet(S), NEW f \in [S -> Nat], \A x \in S : f[x] = 0
  PROVE  SumFunction(f) = 0
<1>1. Units(f, S) = {}
  BY DEF Units
<1> QED
  BY <1>1, SumIsCount, FS_EmptySet

\* A summand is at most the sum: what one account can take is there.
THEOREM SumAtLeast ==
  ASSUME NEW S, IsFiniteSet(S), NEW f \in [S -> Nat], NEW x \in S
  PROVE  f[x] <= SumFunction(f)
<1> DEFINE others == [y \in S \ {x} |-> f[y]]
<1>1. others \in [S \ {x} -> Nat] /\ IsFiniteSet(S \ {x})
  BY FS_RemoveElement
<1>2. SumFunction(f) = f[x] + SumFunction(others)
  BY <1>1, SumRemove
<1>3. SumFunction(others) \in Nat /\ f[x] \in Nat
  BY <1>1, SumType
<1> QED
  BY ONLY <1>2, <1>3
=============================================================================
