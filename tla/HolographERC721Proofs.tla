----------------------- MODULE HolographERC721Proofs -----------------------
(***************************************************************************)
(* Proofs about HolographERC721 for any accounts, token ids and batches:   *)
(* the enumerations agree with the owners after every mint, burn, transfer *)
(* and bridge call, burned tokens have no owner, approvals end with the    *)
(* ownership they were given under, and the collection implements the      *)
(* ledger of sets that balances and the supply count.                      *)
(***************************************************************************)
EXTENDS ERC721Refinement, SequenceTheorems, FiniteSetTheorems, TLAPS

\* A token nobody owns is approved to nobody.
ApprovedTokensExist == \A id \in TokenIds : ~Exists(id) => tokenApprovals[id] = Zero

IInv ==
  /\ TypeOK
  /\ AllTokensEnumerated
  /\ OwnedTokensEnumerated
  /\ BurnedTokensHaveNoOwner
  /\ ApprovedTokensExist

-----------------------------------------------------------------------------
(***************************************************************************)
(* One array with its map of indices.                                      *)
(***************************************************************************)

\* Indices that agree on the listed tokens list the same tokens.
LEMMA ListsSameIndices ==
  ASSUME NEW array, NEW index, NEW other, NEW tokens,
         Lists(array, index, tokens),
         \A id \in tokens : other[id] = index[id]
  PROVE  Lists(array, other, tokens)
BY DEF Lists

\* Swapping the last token with the one at the index of id, and popping, takes
\* exactly id out, if the index of the swapped token is updated.
LEMMA ListsSwapPop ==
  ASSUME NEW tokens \in SUBSET (TokenIds \ {0}), NEW array \in Seq(TokenIds \ {0}),
         NEW index \in [TokenIds -> Nat], NEW other \in [TokenIds -> Nat],
         Lists(array, index, tokens), NEW id \in tokens,
         array[Len(array)] # id => other[array[Len(array)]] = index[id],
         \A x \in tokens : x # id /\ x # array[Len(array)] => other[x] = index[x]
  PROVE  /\ SwapPop(array, index[id]) \in Seq(TokenIds \ {0})
         /\ Len(SwapPop(array, index[id])) = Len(array) - 1
         /\ Len(array) # 0 /\ array[Len(array)] \in tokens
         /\ Lists(SwapPop(array, index[id]), other, tokens \ {id})
PROOF
<1> DEFINE n == Len(array)
           k == index[id] + 1
           last == array[n]
           swapped == [array EXCEPT ![k] = last]
           shrunk == SubSeq(swapped, 1, n - 1)
<1>1. /\ n \in Nat /\ k \in 1..n /\ array[k] = id /\ DOMAIN array = 1..n
      /\ \A i \in 1..n : array[i] \in tokens /\ index[array[i]] = i - 1
      /\ \A x \in tokens : index[x] \in Nat /\ index[x] + 1 \in 1..n
                           /\ array[index[x] + 1] = x
  <2>1. n \in Nat /\ DOMAIN array = 1..n
    OBVIOUS
  <2>2. \A x \in tokens : index[x] \in Nat /\ index[x] < n /\ array[index[x] + 1] = x
    BY DEF Lists
  <2>3. \A i \in 1..n : array[i] \in tokens /\ index[array[i]] = i - 1
    BY DEF Lists
  <2>4. \A x \in tokens : index[x] + 1 \in 1..n
    <3> HIDE DEF n
    <3> QED BY <2>1, <2>2
  <2>5. id \in tokens
    OBVIOUS
  <2> HIDE DEF n
  <2> QED BY <2>1, <2>2, <2>3, <2>4, <2>5
<1>2. /\ n \in 1..n /\ last \in tokens /\ index[last] = n - 1 /\ n # 0
      /\ last = array[n] /\ index[id] = k - 1
      /\ last # id => other[last] = k - 1
      /\ \A x \in tokens : x # id /\ x # last => other[x] = index[x]
  BY <1>1
<1>3. /\ swapped \in Seq(TokenIds \ {0}) /\ Len(swapped) = n
      /\ \A i \in 1..n : swapped[i] = IF i = k THEN last ELSE array[i]
  BY <1>1, <1>2, ExceptSeq
<1>5. shrunk = SubSeq(swapped, 1, n - 1) /\ SwapPop(array, index[id]) = shrunk
  BY DEF SwapPop
<1> HIDE DEF swapped, shrunk, n, k, last
<1>0. n \in Nat /\ n # 0 /\ k \in Nat /\ k # 0 /\ k <= n
  BY <1>1, <1>2
<1>4. /\ shrunk \in Seq(TokenIds \ {0}) /\ Len(shrunk) = n - 1
      /\ \A i \in 1 .. n - 1 : shrunk[i] = swapped[i]
  <2>1. \A i \in 1 .. n - 1 : swapped[i] \in TokenIds \ {0}
    <3> TAKE i \in 1 .. n - 1
    <3>1. i \in 1..n
      BY <1>0
    <3> QED BY <1>3, <3>1
  <2>2. /\ SubSeq(swapped, 1, n - 1) \in Seq(TokenIds \ {0})
        /\ Len(SubSeq(swapped, 1, n - 1)) = n - 1
        /\ \A i \in 1 .. n - 1 : SubSeq(swapped, 1, n - 1)[i] = swapped[i]
    BY <1>0, <2>1, SubSeqProperties
  <2> QED BY <1>5, <2>2
<1>6. ASSUME NEW i \in 1 .. n - 1
      PROVE  shrunk[i] \in tokens \ {id} /\ other[shrunk[i]] = i - 1
  <2>1. i \in 1..n /\ i # n
    BY <1>2, <1>1
  <2>2. CASE i = k
    <3>1. shrunk[i] = last
      BY <1>3, <1>4, <2>1, <2>2
    <3>2. last # id
      BY <1>1, <1>2, <2>1, <2>2
    <3> QED BY <1>2, <2>2, <3>1, <3>2
  <2>3. CASE i # k
    <3>1. shrunk[i] = array[i]
      BY <1>3, <1>4, <2>1, <2>3
    <3>2. array[i] \in tokens /\ index[array[i]] = i - 1
      BY <1>1, <2>1
    <3>3. i - 1 # k - 1 /\ i - 1 # n - 1
      BY <1>0, <2>1, <2>3
    <3>4. array[i] # id /\ array[i] # last
      BY <1>2, <3>2, <3>3
    <3> QED BY <1>2, <3>1, <3>2, <3>4
  <2> QED BY <2>2, <2>3
<1>7. ASSUME NEW x \in tokens \ {id}
      PROVE  other[x] < n - 1 /\ shrunk[other[x] + 1] = x
  <2>1. /\ index[x] \in Nat /\ index[x] + 1 \in 1..n
        /\ array[index[x] + 1] = x /\ index[x] + 1 # k
    BY <1>1
  <2>2. CASE x = last
    <3>1. other[x] = k - 1 /\ k # n
      BY <1>1, <1>2, <2>2
    <3>2. k \in 1 .. n - 1 /\ other[x] + 1 = k /\ other[x] < n - 1
      BY <1>1, <3>1
    <3>3. shrunk[k] = last
      BY <1>1, <1>3, <1>4, <3>2
    <3> QED BY <2>2, <3>2, <3>3
  <2>3. CASE x # last
    <3>1. other[x] = index[x] /\ index[x] + 1 # n
      BY <1>2, <2>1, <2>3
    <3>2. index[x] + 1 \in 1 .. n - 1 /\ other[x] < n - 1
      BY <1>0, <2>1, <3>1
    <3>3. shrunk[index[x] + 1] = array[index[x] + 1]
      BY <1>1, <1>3, <1>4, <2>1, <3>2
    <3> QED BY <2>1, <3>1, <3>2, <3>3
  <2> QED BY <2>2, <2>3
<1> QED BY <1>5, <1>2, <1>4, <1>6, <1>7 DEF Lists, n, last

\* Appending tokens that are not listed lists them too, with their new indices.
LEMMA ListsAppend ==
  ASSUME NEW tokens \in SUBSET TokenIds, NEW array \in Seq(TokenIds \ {0}),
         NEW index \in [TokenIds -> Nat], Lists(array, index, tokens),
         NEW ids \in Seq(TokenIds \ {0}), IsInjective(ids),
         \A id \in Range(ids) : id \notin tokens
  PROVE  /\ array \o ids \in Seq(TokenIds \ {0})
         /\ Len(array \o ids) = Len(array) + Len(ids)
         /\ Appended(index, ids, Len(array)) \in [TokenIds -> Nat]
         /\ Lists(array \o ids, Appended(index, ids, Len(array)),
                  tokens \union Range(ids))
PROOF
<1> DEFINE n == Len(array)
           m == Len(ids)
           joined == array \o ids
           moved == Appended(index, ids, n)
<1>1. /\ n \in Nat /\ m \in Nat /\ DOMAIN ids = 1..m
      /\ joined \in Seq(TokenIds \ {0}) /\ Len(joined) = n + m
      /\ \A i \in 1 .. n + m : joined[i] = IF i <= n THEN array[i] ELSE ids[i - n]
  BY ConcatProperties
<1>2. Range(ids) = {ids[i] : i \in 1..m} /\ Range(ids) \subseteq TokenIds
  BY <1>1 DEF Range
<1>3. \A i \in 1..m : ids[i] \in Range(ids) /\ Position(ids, ids[i]) = i
  <2> SUFFICES ASSUME NEW i \in 1..m PROVE Position(ids, ids[i]) = i
    BY <1>2
  <2>1. \A j \in DOMAIN ids : ids[j] = ids[i] => j = i
    BY <1>1 DEF IsInjective
  <2> QED BY <1>1, <2>1 DEF Position
<1>4. /\ \A i \in 1..m : moved[ids[i]] = n + i - 1
      /\ \A id \in tokens : moved[id] = index[id]
      /\ moved \in [TokenIds -> Nat]
  <2>1. \A id \in TokenIds :
          moved[id] = IF id \in Range(ids) THEN n + Position(ids, id) - 1
                                           ELSE index[id]
    BY DEF Appended
  <2>2. \A i \in 1..m : moved[ids[i]] = n + i - 1
    BY <1>2, <1>3, <2>1
  <2>3. \A id \in TokenIds : moved[id] \in Nat
    <3> TAKE id \in TokenIds
    <3>1. CASE id \in Range(ids)
      <4>1. PICK i \in 1..m : id = ids[i]
        BY <1>2, <3>1
      <4> QED BY <1>1, <2>2, <4>1
    <3>2. CASE id \notin Range(ids)
      BY <2>1, <3>2
    <3> QED BY <3>1, <3>2
  <2>4. moved = [id \in TokenIds |-> moved[id]]
    BY DEF Appended
  <2> HIDE DEF moved
  <2> QED BY <2>1, <2>2, <2>3, <2>4
<1>0. n \in Nat /\ m \in Nat
  BY <1>1
<1> HIDE DEF joined, moved, n, m
<1>5. ASSUME NEW i \in 1 .. n + m
      PROVE  joined[i] \in tokens \union Range(ids) /\ moved[joined[i]] = i - 1
  <2>1. CASE i <= n
    <3>1. i \in 1..n /\ joined[i] = array[i]
      BY <1>1, <2>1
    <3>2. array[i] \in tokens /\ index[array[i]] = i - 1
      BY <3>1 DEF Lists, n
    <3> QED BY <1>4, <3>1, <3>2
  <2>2. CASE ~(i <= n)
    <3>1. i - n \in 1..m /\ joined[i] = ids[i - n]
      BY <1>1, <2>2
    <3>2. moved[ids[i - n]] = n + (i - n) - 1 /\ ids[i - n] \in Range(ids)
      BY <1>3, <1>4, <3>1
    <3>3. n + (i - n) - 1 = i - 1
      BY <1>0
    <3> QED BY <3>1, <3>2, <3>3
  <2> QED BY <2>1, <2>2
<1>6. ASSUME NEW id \in tokens \union Range(ids)
      PROVE  moved[id] < n + m /\ joined[moved[id] + 1] = id
  <2>1. CASE id \in tokens
    <3>1. /\ moved[id] = index[id] /\ index[id] \in Nat /\ index[id] < n
          /\ array[index[id] + 1] = id
      BY <1>4, <2>1 DEF Lists, n
    <3>2. index[id] + 1 \in 1 .. n + m /\ index[id] + 1 <= n
      BY <1>0, <3>1
    <3> QED BY <1>1, <3>1, <3>2
  <2>2. CASE id \in Range(ids)
    <3>1. PICK i \in 1..m : id = ids[i]
      BY <1>2, <2>2
    <3>2. moved[id] = n + i - 1
      BY <1>4, <3>1
    <3>3. n + i \in 1 .. n + m /\ ~(n + i <= n) /\ (n + i) - n = i
      BY <1>0
    <3>4. joined[n + i] = ids[i]
      BY <1>1, <3>3
    <3> QED BY <1>1, <3>1, <3>2, <3>4
  <2> QED BY <2>1, <2>2
<1> QED BY <1>1, <1>4, <1>5, <1>6 DEF Lists, joined, moved, n, m

-----------------------------------------------------------------------------
(***************************************************************************)
(* The enumerations of all tokens and of every account's.                  *)
(***************************************************************************)
Enumerations ==
  [all : Seq(TokenIds \ {0}), allIndex : [TokenIds -> Nat],
   owned : [Addresses -> Seq(TokenIds \ {0})],
   ownedIndex : [TokenIds -> Nat], count : [Addresses -> Nat]]

TokensOf(owner, a) == {id \in TokenIds : owner[id] = a}
OwnedTokens(owner) == {id \in TokenIds : owner[id] # Zero}

\* The record e enumerates the tokens of the owners.
Agrees(e, owner) ==
  /\ e \in Enumerations
  /\ Lists(e.all, e.allIndex, OwnedTokens(owner))
  /\ \A a \in Accounts : /\ Lists(e.owned[a], e.ownedIndex, TokensOf(owner, a))
                         /\ e.count[a] = Len(e.owned[a])
  /\ e.count[Zero] = 0 /\ e.owned[Zero] = << >>

LEMMA AgreesIsInvariant ==
  Agrees(Enumeration, tokenOwner)
    <=> /\ Enumeration \in Enumerations
        /\ AllTokensEnumerated
        /\ OwnedTokensEnumerated
BY DEF Agrees, Enumeration, AllTokensEnumerated, OwnedTokensEnumerated,
       Exists, OwnedTokens, TokensOf

\* The zero id is in no enumeration, so nobody owns it.
LEMMA ZeroIsNoToken ==
  ASSUME NEW e, NEW owner \in [TokenIds -> Addresses], Agrees(e, owner)
  PROVE  OwnedTokens(owner) \subseteq TokenIds \ {0}
PROOF
<1> SUFFICES ASSUME NEW id \in OwnedTokens(owner) PROVE id # 0
  BY DEF OwnedTokens
<1>1. /\ e.all \in Seq(TokenIds \ {0}) /\ id \in TokenIds
      /\ e.allIndex[id] \in Nat /\ e.allIndex[id] < Len(e.all)
      /\ e.all[e.allIndex[id] + 1] = id
  BY DEF Agrees, Enumerations, Lists, OwnedTokens
<1>2. e.allIndex[id] + 1 \in 1 .. Len(e.all)
  BY <1>1
<1>3. e.all[e.allIndex[id] + 1] \in TokenIds \ {0}
  BY <1>1, <1>2, ElementOfSeq
<1> QED BY <1>1, <1>3

LEMMA UpdatedMap ==
  ASSUME NEW S, NEW V, NEW map \in [S -> V], NEW x \in S, NEW v \in V
  PROVE  /\ [map EXCEPT ![x] = v] \in [S -> V]
         /\ [map EXCEPT ![x] = v][x] = v
         /\ \A y \in S \ {x} : [map EXCEPT ![x] = v][y] = map[y]
OBVIOUS

LEMMA UpdatedIndex ==
  ASSUME NEW index \in [TokenIds -> Nat], NEW x, NEW n \in Nat
  PROVE  /\ [index EXCEPT ![x] = n] \in [TokenIds -> Nat]
         /\ \A id \in TokenIds :
              [index EXCEPT ![x] = n][id] = IF id = x THEN n ELSE index[id]
OBVIOUS

\* Removing a token of an account leaves enumerations of the other tokens.
LEMMA RemoveAgrees ==
  ASSUME NEW e, NEW owner \in [TokenIds -> Addresses], Agrees(e, owner),
         NEW from \in Accounts, NEW id \in TokenIds, owner[id] = from
  PROVE  Agrees(RemoveToken(e, from, id), [owner EXCEPT ![id] = Zero])
PROOF
<1> DEFINE new == [owner EXCEPT ![id] = Zero]
           r == RemoveToken(e, from, id)
           lastAll == e.all[Len(e.all)]
           lastOwned == e.owned[from][Len(e.owned[from])]
<1>0. from \in Addresses /\ from # Zero /\ Zero \in Addresses
  BY AddressAssumption DEF Addresses
<1>1. /\ e.all \in Seq(TokenIds \ {0}) /\ e.allIndex \in [TokenIds -> Nat]
      /\ e.owned \in [Addresses -> Seq(TokenIds \ {0})]
      /\ e.ownedIndex \in [TokenIds -> Nat] /\ e.count \in [Addresses -> Nat]
      /\ Lists(e.all, e.allIndex, OwnedTokens(owner))
      /\ \A a \in Accounts : /\ Lists(e.owned[a], e.ownedIndex, TokensOf(owner, a))
                             /\ e.count[a] = Len(e.owned[a])
      /\ e.count[Zero] = 0 /\ e.owned[Zero] = << >>
  BY DEF Agrees, Enumerations
<1>2. /\ OwnedTokens(owner) \in SUBSET (TokenIds \ {0})
      /\ TokensOf(owner, from) \in SUBSET (TokenIds \ {0})
      /\ id \in OwnedTokens(owner) /\ id \in TokensOf(owner, from)
  BY <1>0, ZeroIsNoToken DEF OwnedTokens, TokensOf
<1>3. /\ OwnedTokens(new) = OwnedTokens(owner) \ {id}
      /\ TokensOf(new, from) = TokensOf(owner, from) \ {id}
      /\ \A a \in Accounts \ {from} : /\ TokensOf(new, a) = TokensOf(owner, a)
                                      /\ id \notin TokensOf(owner, a)
  BY <1>0, AddressAssumption DEF OwnedTokens, TokensOf
<1>4. /\ r.all = SwapPop(e.all, e.allIndex[id])
      /\ r.allIndex = [[e.allIndex EXCEPT ![lastAll] = e.allIndex[id]]
                          EXCEPT ![id] = 0]
      /\ r.owned = [e.owned EXCEPT ![from] = SwapPop(@, e.ownedIndex[id])]
      /\ r.ownedIndex = [e.ownedIndex EXCEPT ![lastOwned] = e.ownedIndex[id]]
      /\ r.count = [e.count EXCEPT ![from] = @ - 1]
      /\ r = [all |-> r.all, allIndex |-> r.allIndex, owned |-> r.owned,
              ownedIndex |-> r.ownedIndex, count |-> r.count]
  BY <1>1 DEF RemoveToken
<1> HIDE DEF r, new
<1>5. /\ r.all \in Seq(TokenIds \ {0}) /\ r.allIndex \in [TokenIds -> Nat]
      /\ Lists(r.all, r.allIndex, OwnedTokens(new))
  <2>1. /\ r.allIndex \in [TokenIds -> Nat]
        /\ \A x \in TokenIds :
             r.allIndex[x] = IF x = id THEN 0 ELSE
                             IF x = lastAll THEN e.allIndex[id] ELSE e.allIndex[x]
    <3> DEFINE moved == [e.allIndex EXCEPT ![lastAll] = e.allIndex[id]]
    <3>1. e.allIndex[id] \in Nat /\ e.allIndex \in [TokenIds -> Nat]
      BY <1>1
    <3> HIDE DEF lastAll
    <3>2. /\ moved \in [TokenIds -> Nat]
          /\ \A x \in TokenIds :
               moved[x] = IF x = lastAll THEN e.allIndex[id] ELSE e.allIndex[x]
      BY <3>1, UpdatedIndex
    <3>3. r.allIndex = [moved EXCEPT ![id] = 0]
      BY <1>4
    <3> HIDE DEF moved
    <3> QED BY <3>2, <3>3, UpdatedIndex
  <2>2. e.all \in Seq(TokenIds \ {0})
    BY <1>1
  <2>3. /\ lastAll # id => r.allIndex[lastAll] = e.allIndex[id]
        /\ \A x \in OwnedTokens(owner) :
             x # id /\ x # lastAll => r.allIndex[x] = e.allIndex[x]
    <3>1. lastAll \in TokenIds
      <4>1. Len(e.all) \in 1 .. Len(e.all)
        <5>1. /\ Len(e.all) \in Nat /\ e.allIndex[id] \in Nat
              /\ e.allIndex[id] < Len(e.all)
          <6>1. /\ id \in OwnedTokens(owner) /\ e.all \in Seq(TokenIds \ {0})
                /\ Lists(e.all, e.allIndex, OwnedTokens(owner))
                /\ e.allIndex[id] \in Nat
            BY <1>1, <1>2
          <6> QED BY <6>1 DEF Lists
        <5> QED BY <5>1
      <4> QED BY <1>1, <4>1, ElementOfSeq
    <3> HIDE DEF lastAll
    <3> QED BY <1>2, <2>1, <3>1
  <2>4. /\ SwapPop(e.all, e.allIndex[id]) \in Seq(TokenIds \ {0})
        /\ Len(SwapPop(e.all, e.allIndex[id])) = Len(e.all) - 1
        /\ Len(e.all) # 0 /\ lastAll \in OwnedTokens(owner)
        /\ Lists(SwapPop(e.all, e.allIndex[id]), r.allIndex,
                 OwnedTokens(owner) \ {id})
    <3>1. /\ e.allIndex \in [TokenIds -> Nat]
          /\ Lists(e.all, e.allIndex, OwnedTokens(owner))
      BY <1>1
    <3>2. r.allIndex \in [TokenIds -> Nat]
      BY <2>1
    <3>3. OwnedTokens(owner) \in SUBSET (TokenIds \ {0}) /\ id \in OwnedTokens(owner)
      BY <1>2
    <3> QED BY <2>2, <2>3, <3>1, <3>2, <3>3, ListsSwapPop
  <2> QED BY <1>3, <1>4, <2>1, <2>4
<1>6. /\ r.ownedIndex \in [TokenIds -> Nat]
      /\ SwapPop(e.owned[from], e.ownedIndex[id]) \in Seq(TokenIds \ {0})
      /\ Len(SwapPop(e.owned[from], e.ownedIndex[id])) = Len(e.owned[from]) - 1
      /\ Len(e.owned[from]) # 0 /\ lastOwned \in TokensOf(owner, from)
      /\ Lists(SwapPop(e.owned[from], e.ownedIndex[id]), r.ownedIndex,
               TokensOf(new, from))
  <2>1. /\ r.ownedIndex \in [TokenIds -> Nat]
        /\ \A x \in TokenIds :
             r.ownedIndex[x] = IF x = lastOwned THEN e.ownedIndex[id]
                                                ELSE e.ownedIndex[x]
    <3>1. e.ownedIndex[id] \in Nat /\ e.ownedIndex \in [TokenIds -> Nat]
      BY <1>1
    <3>2. r.ownedIndex = [e.ownedIndex EXCEPT ![lastOwned] = e.ownedIndex[id]]
      BY <1>4
    <3> HIDE DEF lastOwned
    <3> QED BY <3>1, <3>2, UpdatedIndex
  <2>2. e.owned[from] \in Seq(TokenIds \ {0})
        /\ Lists(e.owned[from], e.ownedIndex, TokensOf(owner, from))
    BY <1>0, <1>1
  <2>3. /\ lastOwned # id => r.ownedIndex[lastOwned] = e.ownedIndex[id]
        /\ \A x \in TokensOf(owner, from) :
             x # id /\ x # lastOwned => r.ownedIndex[x] = e.ownedIndex[x]
    <3>1. lastOwned \in TokenIds
      <4>1. Len(e.owned[from]) \in 1 .. Len(e.owned[from])
        BY <1>2, <1>1, <2>2 DEF Lists
      <4> QED BY <2>2, <4>1, ElementOfSeq
    <3> HIDE DEF lastOwned
    <3> QED BY <1>2, <2>1, <3>1
  <2>4. /\ SwapPop(e.owned[from], e.ownedIndex[id]) \in Seq(TokenIds \ {0})
        /\ Len(SwapPop(e.owned[from], e.ownedIndex[id])) = Len(e.owned[from]) - 1
        /\ Len(e.owned[from]) # 0 /\ lastOwned \in TokensOf(owner, from)
        /\ Lists(SwapPop(e.owned[from], e.ownedIndex[id]), r.ownedIndex,
                 TokensOf(owner, from) \ {id})
    <3>1. e.ownedIndex \in [TokenIds -> Nat]
      BY <1>1
    <3> QED BY <1>2, <2>1, <2>2, <2>3, <3>1, ListsSwapPop
  <2> QED BY <1>3, <2>1, <2>4
<1>7. /\ r.owned \in [Addresses -> Seq(TokenIds \ {0})]
      /\ r.count \in [Addresses -> Nat]
      /\ r.owned[from] = SwapPop(e.owned[from], e.ownedIndex[id])
      /\ r.count[from] = e.count[from] - 1
      /\ \A a \in Addresses \ {from} : r.owned[a] = e.owned[a] /\ r.count[a] = e.count[a]
  <2>1. e.count[from] - 1 \in Nat
    <3>1. e.count[from] \in Nat /\ e.count[from] # 0
      BY <1>0, <1>1, <1>6
    <3> QED BY <3>1
  <2>2. /\ e.owned \in [Addresses -> Seq(TokenIds \ {0})]
        /\ e.count \in [Addresses -> Nat]
    BY <1>1
  <2>3. /\ r.owned = [e.owned EXCEPT ![from] = SwapPop(e.owned[from], e.ownedIndex[id])]
        /\ r.count = [e.count EXCEPT ![from] = e.count[from] - 1]
    BY <1>4
  <2>4. /\ r.owned \in [Addresses -> Seq(TokenIds \ {0})]
        /\ r.owned[from] = SwapPop(e.owned[from], e.ownedIndex[id])
        /\ \A a \in Addresses \ {from} : r.owned[a] = e.owned[a]
    <3>1. SwapPop(e.owned[from], e.ownedIndex[id]) \in Seq(TokenIds \ {0})
      BY <1>6
    <3> DEFINE list == SwapPop(e.owned[from], e.ownedIndex[id])
               update == [e.owned EXCEPT ![from] = list]
    <3>2. r.owned = update /\ list = SwapPop(e.owned[from], e.ownedIndex[id])
      BY <2>3
    <3>3. list \in Seq(TokenIds \ {0}) /\ from \in Addresses
      BY <1>0, <3>1
    <3> HIDE DEF list, Addresses
    <3>4. /\ update \in [Addresses -> Seq(TokenIds \ {0})]
          /\ update[from] = list
          /\ \A a \in Addresses \ {from} : update[a] = e.owned[a]
      BY <2>2, <3>3, UpdatedMap
    <3> HIDE DEF update
    <3> QED BY <3>2, <3>4
  <2>5. /\ r.count \in [Addresses -> Nat] /\ r.count[from] = e.count[from] - 1
        /\ \A a \in Addresses \ {from} : r.count[a] = e.count[a]
    <3> DEFINE number == e.count[from] - 1
               update == [e.count EXCEPT ![from] = number]
    <3>1. r.count = update /\ number = e.count[from] - 1
      BY <2>3
    <3>2. number \in Nat /\ from \in Addresses
      BY <1>0, <2>1
    <3> HIDE DEF number, Addresses
    <3>3. /\ update \in [Addresses -> Nat]
          /\ update[from] = number
          /\ \A a \in Addresses \ {from} : update[a] = e.count[a]
      BY <2>2, <3>2, UpdatedMap
    <3> HIDE DEF update
    <3> QED BY <3>1, <3>3
  <2> QED BY <2>4, <2>5
<1>8. ASSUME NEW a \in Accounts
      PROVE  /\ Lists(r.owned[a], r.ownedIndex, TokensOf(new, a))
             /\ r.count[a] = Len(r.owned[a])
  <2>1. CASE a = from
    BY <1>1, <1>6, <1>7, <2>1
  <2>2. CASE a # from
    <3>1. /\ r.owned[a] = e.owned[a] /\ r.count[a] = Len(e.owned[a])
          /\ Lists(e.owned[a], e.ownedIndex, TokensOf(owner, a))
          /\ TokensOf(new, a) = TokensOf(owner, a)
      BY <1>1, <1>3, <1>7, <2>2 DEF Addresses
    <3>2. \A x \in TokensOf(owner, a) : r.ownedIndex[x] = e.ownedIndex[x]
      <4>1. \A x \in TokensOf(owner, a) : x \in TokenIds /\ x # lastOwned
        BY <1>6, <2>2 DEF TokensOf
      <4> HIDE DEF lastOwned
      <4> QED BY <1>1, <1>4, <4>1
    <3> QED BY <3>1, <3>2, ListsSameIndices
  <2> QED BY <2>1, <2>2
<1>9. r \in Enumerations
  BY <1>4, <1>5, <1>6, <1>7 DEF Enumerations
<1> QED BY <1>0, <1>1, <1>5, <1>7, <1>8, <1>9 DEF Agrees, r, new

\* The owners after the ids went to an account.
GivenTo(owner, to, ids) ==
  [id \in TokenIds |-> IF id \in Range(ids) THEN to ELSE owner[id]]

\* Adding tokens nobody owns to an account enumerates them with its others.
LEMMA AddAgrees ==
  ASSUME NEW e, NEW owner \in [TokenIds -> Addresses], Agrees(e, owner),
         NEW to \in Accounts, NEW ids \in Seq(TokenIds \ {0}), IsInjective(ids),
         \A id \in Range(ids) : owner[id] = Zero
  PROVE  Agrees(AddTokens(e, to, ids), GivenTo(owner, to, ids))
PROOF
<1> DEFINE new == GivenTo(owner, to, ids)
           r == AddTokens(e, to, ids)
<1>0. to \in Addresses /\ to # Zero /\ Zero \in Addresses
  BY AddressAssumption DEF Addresses
<1>1. /\ e.all \in Seq(TokenIds \ {0}) /\ e.allIndex \in [TokenIds -> Nat]
      /\ e.owned \in [Addresses -> Seq(TokenIds \ {0})]
      /\ e.ownedIndex \in [TokenIds -> Nat] /\ e.count \in [Addresses -> Nat]
      /\ Lists(e.all, e.allIndex, OwnedTokens(owner))
      /\ \A a \in Accounts : /\ Lists(e.owned[a], e.ownedIndex, TokensOf(owner, a))
                             /\ e.count[a] = Len(e.owned[a])
      /\ e.count[Zero] = 0 /\ e.owned[Zero] = << >>
  BY DEF Agrees, Enumerations
<1>2. Range(ids) \subseteq TokenIds /\ DOMAIN ids = 1 .. Len(ids) /\ Len(ids) \in Nat
  BY DEF Range
<1>3. /\ OwnedTokens(new) = OwnedTokens(owner) \union Range(ids)
      /\ TokensOf(new, to) = TokensOf(owner, to) \union Range(ids)
      /\ \A a \in Accounts \ {to} : TokensOf(new, a) = TokensOf(owner, a)
      /\ \A id \in Range(ids) :
            id \notin OwnedTokens(owner) /\ \A a \in Accounts : id \notin TokensOf(owner, a)
  BY <1>0, <1>2, AddressAssumption DEF OwnedTokens, TokensOf, GivenTo
<1>4. /\ r.all = e.all \o ids
      /\ r.allIndex = Appended(e.allIndex, ids, Len(e.all))
      /\ r.owned = [e.owned EXCEPT ![to] = @ \o ids]
      /\ r.ownedIndex = Appended(e.ownedIndex, ids, Len(e.owned[to]))
      /\ r.count = [e.count EXCEPT ![to] = @ + Len(ids)]
      /\ r = [all |-> r.all, allIndex |-> r.allIndex, owned |-> r.owned,
              ownedIndex |-> r.ownedIndex, count |-> r.count]
  BY <1>1 DEF AddTokens
<1> HIDE DEF r, new
<1>5. /\ r.all \in Seq(TokenIds \ {0}) /\ r.allIndex \in [TokenIds -> Nat]
      /\ Lists(r.all, r.allIndex, OwnedTokens(new))
  <2>1. OwnedTokens(owner) \in SUBSET TokenIds
    BY DEF OwnedTokens
  <2>2. /\ e.all \in Seq(TokenIds \ {0}) /\ e.allIndex \in [TokenIds -> Nat]
        /\ Lists(e.all, e.allIndex, OwnedTokens(owner))
        /\ \A id \in Range(ids) : id \notin OwnedTokens(owner)
    BY <1>1, <1>3
  <2>3. /\ e.all \o ids \in Seq(TokenIds \ {0})
        /\ Appended(e.allIndex, ids, Len(e.all)) \in [TokenIds -> Nat]
        /\ Lists(e.all \o ids, Appended(e.allIndex, ids, Len(e.all)),
                 OwnedTokens(owner) \union Range(ids))
    BY <2>1, <2>2, ListsAppend
  <2> QED BY <1>3, <1>4, <2>3
<1>6. /\ r.ownedIndex \in [TokenIds -> Nat]
      /\ e.owned[to] \o ids \in Seq(TokenIds \ {0})
      /\ Len(e.owned[to] \o ids) = Len(e.owned[to]) + Len(ids)
      /\ Lists(e.owned[to] \o ids, r.ownedIndex, TokensOf(new, to))
  <2>1. TokensOf(owner, to) \in SUBSET TokenIds
    BY DEF TokensOf
  <2>2. e.owned[to] \in Seq(TokenIds \ {0})
        /\ Lists(e.owned[to], e.ownedIndex, TokensOf(owner, to))
    BY <1>0, <1>1
  <2>3. /\ e.ownedIndex \in [TokenIds -> Nat]
        /\ \A id \in Range(ids) : id \notin TokensOf(owner, to)
    BY <1>1, <1>3
  <2>4. /\ e.owned[to] \o ids \in Seq(TokenIds \ {0})
        /\ Len(e.owned[to] \o ids) = Len(e.owned[to]) + Len(ids)
        /\ Appended(e.ownedIndex, ids, Len(e.owned[to])) \in [TokenIds -> Nat]
        /\ Lists(e.owned[to] \o ids, Appended(e.ownedIndex, ids, Len(e.owned[to])),
                 TokensOf(owner, to) \union Range(ids))
    BY <2>1, <2>2, <2>3, ListsAppend
  <2> QED BY <1>3, <1>4, <2>4
<1>7. /\ r.owned \in [Addresses -> Seq(TokenIds \ {0})]
      /\ r.count \in [Addresses -> Nat]
      /\ r.owned[to] = e.owned[to] \o ids
      /\ r.count[to] = e.count[to] + Len(ids)
      /\ \A a \in Addresses \ {to} : r.owned[a] = e.owned[a] /\ r.count[a] = e.count[a]
  <2>1. e.count[to] + Len(ids) \in Nat
    BY <1>0, <1>1, <1>2
  <2>2. /\ e.owned \in [Addresses -> Seq(TokenIds \ {0})]
        /\ e.count \in [Addresses -> Nat]
    BY <1>1
  <2>3. /\ r.owned = [e.owned EXCEPT ![to] = e.owned[to] \o ids]
        /\ r.count = [e.count EXCEPT ![to] = e.count[to] + Len(ids)]
    BY <1>4
  <2>4. /\ r.owned \in [Addresses -> Seq(TokenIds \ {0})]
        /\ r.owned[to] = e.owned[to] \o ids
        /\ \A a \in Addresses \ {to} : r.owned[a] = e.owned[a]
    <3>1. e.owned[to] \o ids \in Seq(TokenIds \ {0})
      BY <1>6
    <3> DEFINE list == e.owned[to] \o ids
               update == [e.owned EXCEPT ![to] = list]
    <3>2. r.owned = update /\ list = e.owned[to] \o ids
      BY <2>3
    <3>3. list \in Seq(TokenIds \ {0}) /\ to \in Addresses
      BY <1>0, <3>1
    <3> HIDE DEF list, Addresses
    <3>4. /\ update \in [Addresses -> Seq(TokenIds \ {0})]
          /\ update[to] = list
          /\ \A a \in Addresses \ {to} : update[a] = e.owned[a]
      BY <2>2, <3>3, UpdatedMap
    <3> HIDE DEF update
    <3> QED BY <3>2, <3>4
  <2>5. /\ r.count \in [Addresses -> Nat] /\ r.count[to] = e.count[to] + Len(ids)
        /\ \A a \in Addresses \ {to} : r.count[a] = e.count[a]
    <3> DEFINE number == e.count[to] + Len(ids)
               update == [e.count EXCEPT ![to] = number]
    <3>1. r.count = update /\ number = e.count[to] + Len(ids)
      BY <2>3
    <3>2. number \in Nat /\ to \in Addresses
      BY <1>0, <2>1
    <3> HIDE DEF number, Addresses
    <3>3. /\ update \in [Addresses -> Nat]
          /\ update[to] = number
          /\ \A a \in Addresses \ {to} : update[a] = e.count[a]
      BY <2>2, <3>2, UpdatedMap
    <3> HIDE DEF update
    <3> QED BY <3>1, <3>3
  <2> QED BY <2>4, <2>5
<1>8. ASSUME NEW a \in Accounts
      PROVE  /\ Lists(r.owned[a], r.ownedIndex, TokensOf(new, a))
             /\ r.count[a] = Len(r.owned[a])
  <2>1. CASE a = to
    BY <1>1, <1>6, <1>7, <2>1
  <2>2. CASE a # to
    <3>1. /\ r.owned[a] = e.owned[a] /\ r.count[a] = Len(e.owned[a])
          /\ Lists(e.owned[a], e.ownedIndex, TokensOf(owner, a))
          /\ TokensOf(new, a) = TokensOf(owner, a)
      BY <1>1, <1>3, <1>7, <2>2 DEF Addresses
    <3>2. \A x \in TokensOf(owner, a) : r.ownedIndex[x] = e.ownedIndex[x]
      <4>1. \A x \in TokensOf(owner, a) : x \in TokenIds /\ x \notin Range(ids)
        BY <1>3 DEF TokensOf
      <4> QED BY <1>4, <4>1 DEF Appended
    <3> QED BY <3>1, <3>2, ListsSameIndices
  <2> QED BY <2>1, <2>2
<1>9. r \in Enumerations
  BY <1>4, <1>5, <1>6, <1>7 DEF Enumerations
<1> QED BY <1>0, <1>1, <1>5, <1>7, <1>8, <1>9 DEF Agrees, r, new

-----------------------------------------------------------------------------
(***************************************************************************)
(* The steps of the contract.                                              *)
(***************************************************************************)
EnumerationTypeOK ==
  /\ allTokens \in Seq(TokenIds \ {0})
  /\ allTokensIndex \in [TokenIds -> Nat]
  /\ ownedTokens \in [Addresses -> Seq(TokenIds \ {0})]
  /\ ownedTokensIndex \in [TokenIds -> Nat]
  /\ ownedTokensCount \in [Addresses -> Nat]

LEMMA EnumerationAgrees ==
  ASSUME IInv PROVE Agrees(Enumeration, tokenOwner)
PROOF
<1>1. Enumeration \in Enumerations
  BY DEF IInv, TypeOK, Enumeration, Enumerations
<1> QED BY <1>1, AgreesIsInvariant DEF IInv

LEMMA EnumerateAgrees ==
  ASSUME NEW e, Enumerate(e), Agrees(e, tokenOwner')
  PROVE  EnumerationTypeOK' /\ AllTokensEnumerated' /\ OwnedTokensEnumerated'
PROOF
<1>1. /\ allTokens' = e.all /\ allTokensIndex' = e.allIndex
      /\ ownedTokens' = e.owned /\ ownedTokensIndex' = e.ownedIndex
      /\ ownedTokensCount' = e.count
  BY DEF Enumerate
<1>2. EnumerationTypeOK'
  BY <1>1 DEF Agrees, Enumerations, EnumerationTypeOK
<1>3. AllTokensEnumerated'
  BY <1>1 DEF Agrees, AllTokensEnumerated, OwnedTokens, Exists
<1>4. OwnedTokensEnumerated'
  BY <1>1 DEF Agrees, OwnedTokensEnumerated, TokensOf
<1> QED BY <1>2, <1>3, <1>4

\* A mint gives the ids, which nobody owned, to the account and enumerates them.
LEMMA MintEffects ==
  ASSUME IInv, NEW to \in Addresses, NEW ids \in Seq(TokenIds), Mint(to, ids)
  PROVE  /\ to \in Accounts
         /\ \A id \in Range(ids) : id \in TokenIds /\ ~Exists(id)
         /\ tokenOwner' = GivenTo(tokenOwner, to, ids)
         /\ tokenOwner' \in [TokenIds -> Addresses]
         /\ EnumerationTypeOK' /\ AllTokensEnumerated' /\ OwnedTokensEnumerated'
PROOF
<1>1. /\ to \in Accounts /\ IsInjective(ids)
      /\ \A id \in Range(ids) : id # 0 /\ ~Exists(id)
      /\ tokenOwner' = GivenTo(tokenOwner, to, ids)
      /\ Enumerate(AddTokens(Enumeration, to, ids))
  BY DEF Mint, Addresses, GivenTo
<1>2. \A id \in Range(ids) : id \in TokenIds /\ tokenOwner[id] = Zero
  BY <1>1 DEF Range, Exists
<1>3. ids \in Seq(TokenIds \ {0})
  <2>1. \A i \in 1 .. Len(ids) : ids[i] \in TokenIds \ {0}
    BY <1>1, <1>2 DEF Range
  <2> QED BY <2>1, SeqDef
<1>4. tokenOwner \in [TokenIds -> Addresses]
  BY DEF IInv, TypeOK
<1>5. Agrees(AddTokens(Enumeration, to, ids), tokenOwner')
  BY <1>1, <1>2, <1>3, <1>4, EnumerationAgrees, AddAgrees
<1>6. EnumerationTypeOK' /\ AllTokensEnumerated' /\ OwnedTokensEnumerated'
  BY <1>1, <1>5, EnumerateAgrees
<1>7. tokenOwner' \in [TokenIds -> Addresses]
  BY <1>1, <1>4 DEF GivenTo, Addresses
<1> QED BY <1>1, <1>2, <1>6, <1>7

\* The checked subtraction keeps tokens that nobody owns from being removed.
LEMMA RemovableIsOwned ==
  ASSUME IInv, NEW id \in TokenIds, Removable(Enumeration, tokenOwner[id])
  PROVE  tokenOwner[id] \in Accounts
PROOF
<1>1. ownedTokensCount[tokenOwner[id]] > 0 /\ ownedTokensCount[Zero] = 0
  BY DEF IInv, OwnedTokensEnumerated, Removable, Enumeration
<1>2. tokenOwner[id] \in Addresses
  BY DEF IInv, TypeOK
<1> QED BY <1>1, <1>2 DEF Addresses

LEMMA BurnTokenKeepsIInv ==
  ASSUME IInv, NEW id \in TokenIds, BurnToken(tokenOwner[id], id)
  PROVE  IInv'
PROOF
<1> DEFINE wallet == tokenOwner[id]
<1>1. wallet \in Accounts
  BY RemovableIsOwned DEF BurnToken
<1>2. /\ tokenApprovals' = [tokenApprovals EXCEPT ![id] = Zero]
      /\ tokenOwner' = [tokenOwner EXCEPT ![id] = Zero]
      /\ Enumerate(RemoveToken(Enumeration, wallet, id))
      /\ burnedTokens' = [burnedTokens EXCEPT ![id] = TRUE]
      /\ operatorApprovals' = operatorApprovals
  BY DEF BurnToken
<1>3. /\ tokenOwner \in [TokenIds -> Addresses]
      /\ tokenApprovals \in [TokenIds -> Addresses]
      /\ burnedTokens \in [TokenIds -> BOOLEAN]
      /\ operatorApprovals \in [Accounts -> SUBSET Accounts]
  BY DEF IInv, TypeOK
<1>4. Agrees(RemoveToken(Enumeration, wallet, id), tokenOwner')
  BY <1>1, <1>2, <1>3, EnumerationAgrees, RemoveAgrees
<1>5. EnumerationTypeOK' /\ AllTokensEnumerated' /\ OwnedTokensEnumerated'
  BY <1>2, <1>4, EnumerateAgrees
<1>6. TypeOK'
  BY <1>2, <1>3, <1>5 DEF TypeOK, EnumerationTypeOK, Addresses
<1>7. BurnedTokensHaveNoOwner'
  BY <1>2, <1>3 DEF BurnedTokensHaveNoOwner, IInv, Exists
<1>8. ApprovedTokensExist'
  BY <1>2, <1>3 DEF ApprovedTokensExist, IInv, Exists
<1> QED BY <1>5, <1>6, <1>7, <1>8 DEF IInv

LEMMA MoveTokenKeepsIInv ==
  ASSUME IInv, NEW from, NEW to \in Addresses, NEW id \in TokenIds,
         MoveToken(from, to, id)
  PROVE  IInv'
PROOF
<1> DEFINE freed == [tokenOwner EXCEPT ![id] = Zero]
           removed == RemoveToken(Enumeration, from, id)
<1>1. /\ from = tokenOwner[id] /\ from \in Accounts /\ to \in Accounts
  BY RemovableIsOwned DEF MoveToken, Addresses
<1>2. /\ tokenApprovals' = [tokenApprovals EXCEPT ![id] = Zero]
      /\ tokenOwner' = [tokenOwner EXCEPT ![id] = to]
      /\ Enumerate(AddTokens(removed, to, <<id>>))
      /\ burnedTokens' = burnedTokens
      /\ operatorApprovals' = operatorApprovals
  BY DEF MoveToken
<1>3. /\ tokenOwner \in [TokenIds -> Addresses]
      /\ tokenApprovals \in [TokenIds -> Addresses]
      /\ burnedTokens \in [TokenIds -> BOOLEAN]
      /\ operatorApprovals \in [Accounts -> SUBSET Accounts]
  BY DEF IInv, TypeOK
<1>4. id \in TokenIds \ {0}
  <2>1. id \in OwnedTokens(tokenOwner)
    BY <1>1, AddressAssumption DEF OwnedTokens
  <2> QED BY <1>3, <2>1, EnumerationAgrees, ZeroIsNoToken
<1>5. Agrees(removed, freed) /\ freed \in [TokenIds -> Addresses]
  BY <1>1, <1>3, EnumerationAgrees, RemoveAgrees DEF Addresses
<1>6. /\ <<id>> \in Seq(TokenIds \ {0}) /\ Range(<<id>>) = {id}
      /\ IsInjective(<<id>>)
  BY <1>4 DEF Range, IsInjective
<1>7. freed[id] = Zero /\ tokenOwner' = GivenTo(freed, to, <<id>>)
  BY <1>2, <1>3, <1>6 DEF GivenTo
<1> HIDE DEF freed, removed
<1>8. Agrees(AddTokens(removed, to, <<id>>), tokenOwner')
  BY <1>1, <1>5, <1>6, <1>7, AddAgrees
<1>9. EnumerationTypeOK' /\ AllTokensEnumerated' /\ OwnedTokensEnumerated'
  BY <1>2, <1>8, EnumerateAgrees
<1>10. TypeOK'
  BY <1>1, <1>2, <1>3, <1>9 DEF TypeOK, EnumerationTypeOK, Addresses
<1>11. BurnedTokensHaveNoOwner'
  BY <1>1, <1>2, <1>3, AddressAssumption DEF BurnedTokensHaveNoOwner, IInv, Exists
<1>12. ApprovedTokensExist'
  BY <1>2, <1>3 DEF ApprovedTokensExist, IInv, Exists
<1> QED BY <1>9, <1>10, <1>11, <1>12 DEF IInv

LEMMA SourceMintKeepsIInv ==
  ASSUME IInv, NEW to \in Accounts, NEW ids \in Batches, SourceMint(to, ids)
  PROVE  IInv'
PROOF
<1>1. /\ \A id \in Range(ids) : ~burnedTokens[id]
      /\ Mint(to, ids) /\ ids \in Seq(TokenIds) /\ to \in Addresses
      /\ tokenApprovals' = tokenApprovals /\ burnedTokens' = burnedTokens
      /\ operatorApprovals' = operatorApprovals
  BY TokenAssumption DEF SourceMint, Addresses
<1>2. /\ \A id \in Range(ids) : id \in TokenIds /\ ~Exists(id)
      /\ tokenOwner' = GivenTo(tokenOwner, to, ids)
      /\ tokenOwner' \in [TokenIds -> Addresses]
      /\ EnumerationTypeOK' /\ AllTokensEnumerated' /\ OwnedTokensEnumerated'
  BY <1>1, MintEffects
<1>3. TypeOK'
  BY <1>1, <1>2 DEF IInv, TypeOK, EnumerationTypeOK
<1>4. BurnedTokensHaveNoOwner'
  BY <1>1, <1>2 DEF BurnedTokensHaveNoOwner, IInv, Exists, GivenTo
<1>5. ApprovedTokensExist'
  BY <1>1, <1>2, AddressAssumption DEF ApprovedTokensExist, IInv, Exists, GivenTo
<1> QED BY <1>2, <1>3, <1>4, <1>5 DEF IInv

LEMMA BridgeInKeepsIInv ==
  ASSUME IInv, NEW to \in Addresses, NEW id \in TokenIds, BridgeIn(to, id)
  PROVE  IInv'
PROOF
<1>1. /\ Mint(to, <<id>>) /\ <<id>> \in Seq(TokenIds) /\ Range(<<id>>) = {id}
      /\ tokenApprovals' = tokenApprovals
      /\ burnedTokens' = [burnedTokens EXCEPT ![id] = FALSE]
      /\ operatorApprovals' = operatorApprovals
  BY DEF BridgeIn, Range
<1>2. /\ ~Exists(id) /\ to \in Accounts
      /\ tokenOwner' = GivenTo(tokenOwner, to, <<id>>)
      /\ tokenOwner' \in [TokenIds -> Addresses]
      /\ EnumerationTypeOK' /\ AllTokensEnumerated' /\ OwnedTokensEnumerated'
  BY <1>1, MintEffects
<1>3. TypeOK'
  BY <1>1, <1>2 DEF IInv, TypeOK, EnumerationTypeOK
<1>4. BurnedTokensHaveNoOwner'
  BY <1>1, <1>2 DEF BurnedTokensHaveNoOwner, IInv, TypeOK, Exists, GivenTo
<1>5. ApprovedTokensExist'
  BY <1>1, <1>2, AddressAssumption DEF ApprovedTokensExist, IInv, Exists, GivenTo
<1> QED BY <1>2, <1>3, <1>4, <1>5 DEF IInv

LEMMA ApprovalsKeepIInv ==
  ASSUME IInv, NEW sender \in Accounts,
         \/ \E to \in Accounts, approved \in BOOLEAN :
              SetApprovalForAll(sender, to, approved)
         \/ \E id \in TokenIds, to \in Addresses : Approve(sender, to, id)
         \/ UNCHANGED vars
  PROVE  IInv'
PROOF
<1>1. /\ tokenOwner' = tokenOwner /\ burnedTokens' = burnedTokens
      /\ UNCHANGED enumVars
  BY DEF SetApprovalForAll, Approve, vars, enumVars
<1>2. /\ operatorApprovals' \in [Accounts -> SUBSET Accounts]
      /\ tokenApprovals' \in [TokenIds -> Addresses]
      /\ \A x \in TokenIds : ~Exists(x) => tokenApprovals'[x] = tokenApprovals[x]
  <2>1. CASE \E to \in Accounts, approved \in BOOLEAN :
               SetApprovalForAll(sender, to, approved)
    BY <2>1 DEF SetApprovalForAll, IInv, TypeOK
  <2>2. CASE \E id \in TokenIds, to \in Addresses : Approve(sender, to, id)
    <3>1. PICK id \in TokenIds, to \in Addresses : Approve(sender, to, id)
      BY <2>2
    <3>2. /\ Exists(id) /\ operatorApprovals' = operatorApprovals
          /\ tokenApprovals' = [tokenApprovals EXCEPT ![id] = to]
      BY <3>1 DEF Approve, IsApprovedStrict
    <3> QED BY <3>2 DEF IInv, TypeOK
  <2>3. CASE UNCHANGED vars
    BY <2>3 DEF vars, IInv, TypeOK
  <2> QED BY <2>1, <2>2, <2>3
<1>3. TypeOK' /\ AllTokensEnumerated' /\ OwnedTokensEnumerated'
  BY <1>1, <1>2 DEF IInv, TypeOK, AllTokensEnumerated, OwnedTokensEnumerated,
                    enumVars, Exists
<1>4. BurnedTokensHaveNoOwner' /\ ApprovedTokensExist'
  BY <1>1, <1>2 DEF IInv, BurnedTokensHaveNoOwner, ApprovedTokensExist, Exists
<1> QED BY <1>3, <1>4 DEF IInv

-----------------------------------------------------------------------------
(***************************************************************************)
(* Theorems.                                                               *)
(***************************************************************************)
LEMMA InitIInv == Init => IInv
PROOF
<1> SUFFICES ASSUME Init PROVE IInv
  OBVIOUS
<1>1. TypeOK
  BY DEF Init, TypeOK, Addresses
<1>2. AllTokensEnumerated
  BY DEF Init, AllTokensEnumerated, Lists, Exists
<1>3. OwnedTokensEnumerated
  BY AddressAssumption DEF Init, OwnedTokensEnumerated, Lists, Addresses
<1>4. BurnedTokensHaveNoOwner /\ ApprovedTokensExist
  BY DEF Init, BurnedTokensHaveNoOwner, ApprovedTokensExist
<1> QED BY <1>1, <1>2, <1>3, <1>4 DEF IInv

LEMMA NextKeepsIInv == IInv /\ [Next]_vars => IInv'
PROOF
<1> SUFFICES ASSUME IInv, [Next]_vars PROVE IInv'
  OBVIOUS
<1>1. CASE BySource
  <2>1. ASSUME NEW to \in Accounts, NEW ids \in Batches, SourceMint(to, ids)
        PROVE  IInv'
    BY <2>1, SourceMintKeepsIInv
  <2>2. ASSUME NEW id \in TokenIds, SourceBurn(id) PROVE IInv'
    BY <2>2, BurnTokenKeepsIInv DEF SourceBurn
  <2>3. ASSUME NEW id \in TokenIds, NEW to \in Addresses, SourceTransfer(to, id)
        PROVE  IInv'
    BY <2>3, MoveTokenKeepsIInv DEF SourceTransfer
  <2> QED BY <1>1, <2>1, <2>2, <2>3 DEF BySource
<1>2. CASE ByBridge
  <2>1. ASSUME NEW id \in TokenIds, NEW to \in Addresses, BridgeIn(to, id)
        PROVE  IInv'
    BY <2>1, BridgeInKeepsIInv
  <2>2. ASSUME NEW id \in TokenIds, NEW to \in Addresses,
               NEW sender \in Accounts, NEW from \in Accounts,
               BridgeOut(sender, from, to, id)
        PROVE  IInv'
    BY <2>2, BurnTokenKeepsIInv DEF BridgeOut
  <2> QED BY <1>2, <2>1, <2>2 DEF ByBridge
<1>3. CASE ByAccount
  <2>1. PICK sender \in Accounts :
          \/ \E to \in Accounts, approved \in BOOLEAN :
               SetApprovalForAll(sender, to, approved)
          \/ \E id \in TokenIds :
               \/ Burn(sender, id)
               \/ \E to \in Addresses :
                    \/ Approve(sender, to, id)
                    \/ \E from \in Accounts : TransferFrom(sender, from, to, id)
    BY <1>3 DEF ByAccount
  <2>2. ASSUME NEW id \in TokenIds, Burn(sender, id) PROVE IInv'
    BY <2>2, BurnTokenKeepsIInv DEF Burn
  <2>3. ASSUME NEW id \in TokenIds, NEW to \in Addresses, NEW from \in Accounts,
               TransferFrom(sender, from, to, id)
        PROVE  IInv'
    BY <2>3, MoveTokenKeepsIInv DEF TransferFrom
  <2> QED BY <2>1, <2>2, <2>3, ApprovalsKeepIInv
<1>4. CASE UNCHANGED vars
  <2>1. TypeOK' /\ AllTokensEnumerated' /\ OwnedTokensEnumerated'
    BY <1>4 DEF IInv, TypeOK, AllTokensEnumerated, OwnedTokensEnumerated, Exists, vars
  <2>2. BurnedTokensHaveNoOwner' /\ ApprovedTokensExist'
    BY <1>4 DEF IInv, BurnedTokensHaveNoOwner, ApprovedTokensExist, Exists, vars
  <2> QED BY <2>1, <2>2 DEF IInv
<1> QED BY <1>1, <1>2, <1>3, <1>4 DEF Next

LEMMA Invariance == Spec => []IInv
PROOF
<1>1. Init => IInv
  BY InitIInv
<1>2. IInv /\ [Next]_vars => IInv'
  BY NextKeepsIInv
<1> QED BY <1>1, <1>2, PTL DEF Spec

\* Every variable keeps its type, and the id zero is never enumerated.
THEOREM TypeCorrect == Spec => []TypeOK
PROOF
<1>1. IInv => TypeOK
  BY DEF IInv
<1> QED BY <1>1, Invariance, PTL

\* _allTokens and _allTokensIndex list exactly the tokens that exist.
THEOREM AllTokensStayEnumerated == Spec => []AllTokensEnumerated
PROOF
<1>1. IInv => AllTokensEnumerated
  BY DEF IInv
<1> QED BY <1>1, Invariance, PTL

\* _ownedTokens, its indices and counts list exactly the tokens of each account.
THEOREM OwnedTokensStayEnumerated == Spec => []OwnedTokensEnumerated
PROOF
<1>1. IInv => OwnedTokensEnumerated
  BY DEF IInv
<1> QED BY <1>1, Invariance, PTL

\* A token marked as burned is owned by nobody until the bridge unmarks it.
THEOREM BurnedTokensStayUnowned == Spec => []BurnedTokensHaveNoOwner
PROOF
<1>1. IInv => BurnedTokensHaveNoOwner
  BY DEF IInv
<1> QED BY <1>1, Invariance, PTL

\* A step that changes the owner of a token leaves it approved to nobody.
LEMMA OwnersChangeWithoutApproval ==
  ASSUME IInv, Next, NEW id \in TokenIds, tokenOwner'[id] # tokenOwner[id]
  PROVE  tokenApprovals'[id] = Zero
PROOF
<1>1. /\ tokenOwner \in [TokenIds -> Addresses]
      /\ tokenApprovals \in [TokenIds -> Addresses]
      /\ \A x \in TokenIds : ~Exists(x) => tokenApprovals[x] = Zero
  BY DEF IInv, TypeOK, ApprovedTokensExist
<1>2. ASSUME NEW ids \in Seq(TokenIds), NEW to \in Addresses, Mint(to, ids),
             tokenApprovals' = tokenApprovals
      PROVE  tokenApprovals'[id] = Zero
  BY <1>1, <1>2, MintEffects DEF GivenTo
<1>3. ASSUME NEW x \in TokenIds, NEW wallet, BurnToken(wallet, x)
      PROVE  tokenApprovals'[id] = Zero
  BY <1>1, <1>3 DEF BurnToken
<1>4. ASSUME NEW x \in TokenIds, NEW from, NEW to, MoveToken(from, to, x)
      PROVE  tokenApprovals'[id] = Zero
  BY <1>1, <1>4 DEF MoveToken
<1>5. CASE BySource
  BY <1>2, <1>3, <1>4, <1>5, TokenAssumption
     DEF BySource, SourceMint, SourceBurn, SourceTransfer, Addresses
<1>6. CASE ByBridge
  <2>1. ASSUME NEW x \in TokenIds, NEW to \in Addresses, BridgeIn(to, x)
        PROVE  tokenApprovals'[id] = Zero
    <3>1. Mint(to, <<x>>) /\ <<x>> \in Seq(TokenIds) /\ tokenApprovals' = tokenApprovals
      BY <2>1 DEF BridgeIn
    <3> QED BY <1>2, <3>1
  <2> QED BY <1>3, <1>6, <2>1 DEF ByBridge, BridgeOut
<1>7. CASE ByAccount
  BY <1>3, <1>4, <1>7
     DEF ByAccount, Burn, TransferFrom, SetApprovalForAll, Approve
<1> QED BY <1>5, <1>6, <1>7 DEF Next

\* An approval of one token ends when its owner changes, and a token that nobody
\* owns has none.
THEOREM ApprovalsEnd == Spec => ApprovalsEndWithOwnership
PROOF
<1> DEFINE Ends(id) == /\ tokenOwner'[id] # tokenOwner[id] => tokenApprovals'[id] = Zero
                       /\ ~Exists(id)' => tokenApprovals'[id] = Zero
<1>1. IInv /\ IInv' /\ [Next]_vars => [\A id \in TokenIds : Ends(id)]_vars
  <2>1. IInv /\ IInv' /\ Next => \A id \in TokenIds : Ends(id)
    BY OwnersChangeWithoutApproval DEF IInv, ApprovedTokensExist
  <2> QED BY <2>1
<1>2. Spec => [][\A id \in TokenIds : Ends(id)]_vars
  <2> HIDE DEF Ends
  <2> QED BY <1>1, Invariance, PTL DEF Spec
<1> QED BY <1>2 DEF ApprovalsEndWithOwnership

-----------------------------------------------------------------------------
(***************************************************************************)
(* The collection implements the ledger.                                   *)
(***************************************************************************)
\* An array that lists the tokens of a set has exactly these tokens.
LEMMA ListsRange ==
  ASSUME NEW array \in Seq(TokenIds), NEW index \in [TokenIds -> Nat],
         NEW tokens \in SUBSET TokenIds, Lists(array, index, tokens)
  PROVE  Range(array) = tokens
PROOF
<1>1. DOMAIN array = 1 .. Len(array) /\ Len(array) \in Nat
  OBVIOUS
<1>2. ASSUME NEW id \in tokens PROVE id \in Range(array)
  <2>1. /\ index[id] \in Nat /\ index[id] < Len(array) /\ array[index[id] + 1] = id
    BY DEF Lists
  <2>2. index[id] + 1 \in DOMAIN array
    BY <1>1, <2>1
  <2> QED BY <2>1, <2>2 DEF Range
<1>3. ASSUME NEW id \in Range(array) PROVE id \in tokens
  BY <1>1, <1>3 DEF Range, Lists
<1> QED BY <1>2, <1>3

\* The ledger counts like everybody else.
LEMMA LedgerCounts == \A S : Ledger!Cardinality(S) = Cardinality(S)
BY DEF Ledger!Cardinality, Cardinality

LEMMA RangeCardinality ==
  ASSUME NEW S, NEW ids \in Seq(S), IsInjective(ids)
  PROVE  IsFiniteSet(Range(ids)) /\ Cardinality(Range(ids)) = Len(ids)
PROOF
<1>1. DOMAIN ids = 1 .. Len(ids) /\ Len(ids) \in Nat
  OBVIOUS
<1>2. ids \in [1 .. Len(ids) -> Range(ids)]
  BY <1>1 DEF Range
<1>3. ids \in Bijection(1 .. Len(ids), Range(ids))
  BY <1>1, <1>2 DEF Bijection, Injection, Surjection, IsInjective, Range
<1>4. IsFiniteSet(1 .. Len(ids)) /\ Cardinality(1 .. Len(ids)) = Len(ids)
  BY <1>1, FS_Interval
<1>5. ExistsBijection(1 .. Len(ids), Range(ids))
  BY <1>3 DEF ExistsBijection
<1> QED BY <1>4, <1>5, FS_Bijection

LEMMA SwapPopLength ==
  ASSUME NEW S, NEW array \in Seq(S), NEW index \in Nat, index < Len(array)
  PROVE  /\ SwapPop(array, index) \in Seq(S)
         /\ Len(SwapPop(array, index)) = Len(array) - 1
PROOF
<1> DEFINE n == Len(array)
           swapped == [array EXCEPT ![index + 1] = array[n]]
<1>1. n \in Nat \ {0} /\ index + 1 \in 1 .. n /\ array[n] \in S
  OBVIOUS
<1>2. swapped \in Seq(S) /\ Len(swapped) = n
  BY <1>1, ExceptSeq
<1>3. SwapPop(array, index) = SubSeq(swapped, 1, n - 1)
  BY DEF SwapPop
<1> HIDE DEF swapped, n
<1>4. \A i \in 1 .. n - 1 : swapped[i] \in S
  BY <1>1, <1>2
<1>5. /\ SubSeq(swapped, 1, n - 1) \in Seq(S)
      /\ Len(SubSeq(swapped, 1, n - 1)) = IF 1 <= n - 1 THEN (n - 1) - 1 + 1 ELSE 0
  <2>1. 1 \in Int /\ n - 1 \in Int
    BY <1>1
  <2> QED BY <1>4, <2>1, SubSeqProperties
<1>6. Len(SwapPop(array, index)) = n - 1
  BY <1>1, <1>3, <1>5
<1> QED BY <1>3, <1>5, <1>6 DEF n

\* The holdings, read off the arrays, are those of _tokenOwner.
HoldingsAreOwned ==
  /\ HoldingsMap = [a \in Accounts |-> TokensOf(tokenOwner, a)]
  /\ BalanceMap \in [Accounts -> Nat]
  /\ SupplyMap \in Nat

LEMMA HoldingsRead == IInv => HoldingsAreOwned
PROOF
<1> SUFFICES ASSUME IInv PROVE HoldingsAreOwned
  OBVIOUS
<1>1. /\ ownedTokens \in [Addresses -> Seq(TokenIds \ {0})]
      /\ ownedTokensIndex \in [TokenIds -> Nat]
      /\ ownedTokensCount \in [Addresses -> Nat]
      /\ allTokens \in Seq(TokenIds \ {0})
  BY DEF IInv, TypeOK
<1>2. ASSUME NEW a \in Accounts PROVE Range(ownedTokens[a]) = TokensOf(tokenOwner, a)
  <2>1. ownedTokens[a] \in Seq(TokenIds)
    BY <1>1 DEF Addresses
  <2>2. Lists(ownedTokens[a], ownedTokensIndex, TokensOf(tokenOwner, a))
    BY DEF IInv, OwnedTokensEnumerated, TokensOf
  <2>3. TokensOf(tokenOwner, a) \in SUBSET TokenIds
    BY DEF TokensOf
  <2> HIDE DEF TokensOf
  <2> QED BY <1>1, <2>1, <2>2, <2>3, ListsRange
<1>3. BalanceMap \in [Accounts -> Nat]
  BY <1>1 DEF BalanceMap, Addresses
<1> QED BY <1>1, <1>2, <1>3 DEF HoldingsAreOwned, HoldingsMap, SupplyMap

\* A token is held where it exists.
LEMMA HeldExists ==
  ASSUME IInv, HoldingsAreOwned, NEW id \in TokenIds
  PROVE  /\ Ledger!Held(id) <=> Exists(id)
         /\ \A a \in Accounts : id \in HoldingsMap[a] <=> tokenOwner[id] = a
PROOF
<1>1. \A a \in Accounts : id \in HoldingsMap[a] <=> tokenOwner[id] = a
  BY DEF HoldingsAreOwned, TokensOf
<1>2. tokenOwner[id] \in Accounts \union {Zero}
  BY DEF IInv, TypeOK, Addresses
<1> QED BY <1>1, <1>2, AddressAssumption DEF Ledger!Held, Exists

LEMMA MintIsReceive ==
  ASSUME IInv, HoldingsAreOwned, HoldingsAreOwned',
         NEW to \in Addresses, NEW ids \in Seq(TokenIds), Mint(to, ids),
         UNCHANGED <<tokenApprovals, operatorApprovals>>
  PROVE  to \in Accounts /\ Ledger!Receive(to, Range(ids))
PROOF
<1>1. /\ to \in Accounts
      /\ \A id \in Range(ids) : id \in TokenIds /\ ~Exists(id)
      /\ tokenOwner' = GivenTo(tokenOwner, to, ids)
  BY MintEffects
<1>2. /\ \A id \in Range(ids) : id # 0
      /\ IsInjective(ids)
      /\ allTokens' = allTokens \o ids
      /\ ownedTokensCount' = [ownedTokensCount EXCEPT ![to] = @ + Len(ids)]
  BY DEF Mint, Enumerate, Enumeration, AddTokens
<1>3. Cardinality(Range(ids)) = Len(ids)
  BY <1>2, RangeCardinality
<1>4. \A id \in Range(ids) : id # 0 /\ ~Ledger!Held(id)
  BY <1>1, <1>2, HeldExists
<1>5. HoldingsMap' = [HoldingsMap EXCEPT ![to] = @ \union Range(ids)]
  <2>1. /\ HoldingsMap = [a \in Accounts |-> TokensOf(tokenOwner, a)]
        /\ HoldingsMap' = [a \in Accounts |-> TokensOf(tokenOwner', a)]
    BY DEF HoldingsAreOwned
  <2>2. TokensOf(tokenOwner', to) = TokensOf(tokenOwner, to) \union Range(ids)
    BY <1>1 DEF TokensOf, GivenTo
  <2>3. ASSUME NEW a \in Accounts, a # to
        PROVE  TokensOf(tokenOwner', a) = TokensOf(tokenOwner, a)
    BY <1>1, <2>3, AddressAssumption DEF TokensOf, GivenTo, Exists
  <2> QED BY <1>1, <2>1, <2>2, <2>3
<1>6. BalanceMap' = [BalanceMap EXCEPT ![to] = @ + Cardinality(Range(ids))]
  BY <1>1, <1>2, <1>3 DEF BalanceMap, IInv, TypeOK, Addresses
<1>7. SupplyMap' = SupplyMap + Cardinality(Range(ids))
  <2>1. allTokens \in Seq(TokenIds)
    BY DEF IInv, TypeOK
  <2>2. Len(allTokens \o ids) = Len(allTokens) + Len(ids)
    BY <2>1, ConcatProperties
  <2>3. SupplyMap' = Len(allTokens \o ids) /\ SupplyMap = Len(allTokens)
    BY <1>2 DEF SupplyMap
  <2> QED BY ONLY <1>3, <2>2, <2>3
<1> QED BY <1>1, <1>4, <1>5, <1>6, <1>7, LedgerCounts DEF Ledger!Receive

\* What both burning and moving take from the numbers.
LEMMA RemovalCounts ==
  ASSUME IInv, NEW id \in TokenIds, Exists(id)
  PROVE  LET r == RemoveToken(Enumeration, tokenOwner[id], id)
         IN  /\ Len(r.all) = Len(allTokens) - 1
             /\ r.count = [ownedTokensCount EXCEPT ![tokenOwner[id]] = @ - 1]
             /\ r.all \in Seq(TokenIds)
PROOF
<1>1. /\ allTokens \in Seq(TokenIds) /\ allTokensIndex[id] \in Nat
      /\ allTokensIndex[id] < Len(allTokens)
  BY DEF IInv, TypeOK, AllTokensEnumerated, Lists
<1>2. /\ RemoveToken(Enumeration, tokenOwner[id], id).all
           = SwapPop(allTokens, allTokensIndex[id])
      /\ RemoveToken(Enumeration, tokenOwner[id], id).count
           = [ownedTokensCount EXCEPT ![tokenOwner[id]] = @ - 1]
  BY DEF RemoveToken, Enumeration
<1> QED BY <1>1, <1>2, SwapPopLength

LEMMA BurnIsDestroy ==
  ASSUME IInv, HoldingsAreOwned, HoldingsAreOwned',
         NEW id \in TokenIds, BurnToken(tokenOwner[id], id)
  PROVE  tokenOwner[id] \in Accounts /\ Ledger!Destroy(tokenOwner[id], id)
PROOF
<1> DEFINE holder == tokenOwner[id]
<1>1. holder \in Accounts /\ Exists(id)
  BY RemovableIsOwned, AddressAssumption DEF BurnToken, Exists
<1>2. /\ tokenApprovals' = [tokenApprovals EXCEPT ![id] = Zero]
      /\ tokenOwner' = [tokenOwner EXCEPT ![id] = Zero]
      /\ burnedTokens' = [burnedTokens EXCEPT ![id] = TRUE]
      /\ operatorApprovals' = operatorApprovals
      /\ allTokens' = RemoveToken(Enumeration, holder, id).all
      /\ ownedTokensCount' = RemoveToken(Enumeration, holder, id).count
  BY DEF BurnToken, Enumerate
<1>3. /\ tokenOwner \in [TokenIds -> Addresses] /\ burnedTokens \in [TokenIds -> BOOLEAN]
      /\ ownedTokensCount \in [Addresses -> Nat] /\ allTokens \in Seq(TokenIds)
  BY DEF IInv, TypeOK
<1>4. /\ SupplyMap' = SupplyMap - 1
      /\ ownedTokensCount' = [ownedTokensCount EXCEPT ![holder] = @ - 1]
  BY <1>1, <1>2, RemovalCounts DEF SupplyMap
<1>5. id \in HoldingsMap[holder]
  BY <1>1, HeldExists
<1>6. HoldingsMap' = [HoldingsMap EXCEPT ![holder] = @ \ {id}]
  <2>1. /\ HoldingsMap = [a \in Accounts |-> TokensOf(tokenOwner, a)]
        /\ HoldingsMap' = [a \in Accounts |-> TokensOf(tokenOwner', a)]
    BY DEF HoldingsAreOwned
  <2>2. TokensOf(tokenOwner', holder) = TokensOf(tokenOwner, holder) \ {id}
    BY <1>1, <1>2, <1>3, AddressAssumption DEF TokensOf
  <2>3. ASSUME NEW a \in Accounts, a # holder
        PROVE  TokensOf(tokenOwner', a) = TokensOf(tokenOwner, a)
    BY <1>1, <1>2, <1>3, <2>3, AddressAssumption DEF TokensOf
  <2> HIDE DEF holder
  <2> QED BY <1>1, <2>1, <2>2, <2>3
<1>7. BalanceMap' = [BalanceMap EXCEPT ![holder] = @ - 1]
  <2> HIDE DEF holder
  <2> QED BY <1>1, <1>3, <1>4 DEF BalanceMap, Addresses
<1>8. BurnedMap' = BurnedMap \union {id}
  BY <1>2, <1>3 DEF BurnedMap
<1> QED BY <1>1, <1>2, <1>4, <1>5, <1>6, <1>7, <1>8 DEF Ledger!Destroy

LEMMA MoveIsGive ==
  ASSUME IInv, HoldingsAreOwned, HoldingsAreOwned',
         NEW from, NEW to \in Addresses, NEW id \in TokenIds, MoveToken(from, to, id)
  PROVE  from \in Accounts /\ to \in Accounts /\ Ledger!Give(from, to, id)
PROOF
<1> DEFINE removed == RemoveToken(Enumeration, from, id)
<1>1. /\ from = tokenOwner[id] /\ from \in Accounts /\ to \in Accounts
      /\ Exists(id)
  BY RemovableIsOwned, AddressAssumption DEF MoveToken, Addresses, Exists
<1>2. /\ tokenApprovals' = [tokenApprovals EXCEPT ![id] = Zero]
      /\ tokenOwner' = [tokenOwner EXCEPT ![id] = to]
      /\ burnedTokens' = burnedTokens
      /\ operatorApprovals' = operatorApprovals
      /\ allTokens' = removed.all \o <<id>>
      /\ ownedTokensCount' = [removed.count EXCEPT ![to] = @ + Len(<<id>>)]
  BY DEF MoveToken, Enumerate, AddTokens
<1>3. /\ tokenOwner \in [TokenIds -> Addresses]
      /\ ownedTokensCount \in [Addresses -> Nat] /\ allTokens \in Seq(TokenIds)
  BY DEF IInv, TypeOK
<1>4. /\ Len(removed.all) = Len(allTokens) - 1 /\ removed.all \in Seq(TokenIds)
      /\ removed.count = [ownedTokensCount EXCEPT ![from] = @ - 1]
  BY <1>1, RemovalCounts
<1> HIDE DEF removed
<1>5. SupplyMap' = SupplyMap
  <2>1. Len(allTokens') = Len(removed.all) + 1
    BY <1>2, <1>4, ConcatProperties
  <2> QED BY <1>3, <1>4, <2>1 DEF SupplyMap
<1>6. id \in HoldingsMap[from]
  BY <1>1, HeldExists
<1>7. HoldingsMap' = [[HoldingsMap EXCEPT ![from] = @ \ {id}] EXCEPT ![to] = @ \union {id}]
  <2>1. /\ HoldingsMap = [a \in Accounts |-> TokensOf(tokenOwner, a)]
        /\ HoldingsMap' = [a \in Accounts |-> TokensOf(tokenOwner', a)]
    BY DEF HoldingsAreOwned
  <2>2. TokensOf(tokenOwner', to) = TokensOf(tokenOwner, to) \union {id}
    BY <1>1, <1>2, <1>3 DEF TokensOf
  <2>3. ASSUME NEW a \in Accounts, a # to
        PROVE  TokensOf(tokenOwner', a) = TokensOf(tokenOwner, a) \ {id}
    BY <1>1, <1>2, <1>3, <2>3 DEF TokensOf
  <2>4. ASSUME NEW a \in Accounts, a # from
        PROVE  id \notin TokensOf(tokenOwner, a)
    BY <1>1, <2>4 DEF TokensOf
  <2>5. HoldingsMap' = [a \in Accounts |-> IF a = to THEN TokensOf(tokenOwner, to) \union {id}
                                            ELSE TokensOf(tokenOwner, a) \ {id}]
    BY <2>1, <2>2, <2>3
  <2> HIDE DEF TokensOf
  <2>6. ASSUME NEW a \in Accounts
        PROVE  /\ HoldingsMap[a] = TokensOf(tokenOwner, a)
               /\ HoldingsMap'[a] = IF a = to THEN HoldingsMap[to] \union {id}
                                             ELSE HoldingsMap[a] \ {id}
               /\ a # from => HoldingsMap[a] \ {id} = HoldingsMap[a]
    BY <1>1, <2>1, <2>4, <2>5
  <2> DEFINE taken == [HoldingsMap EXCEPT ![from] = @ \ {id}]
             given == [taken EXCEPT ![to] = @ \union {id}]
  <2>7. /\ DOMAIN HoldingsMap = Accounts /\ DOMAIN HoldingsMap' = Accounts
        /\ HoldingsMap = [a \in Accounts |-> HoldingsMap[a]]
        /\ HoldingsMap' = [a \in Accounts |-> HoldingsMap'[a]]
    BY <2>1
  <2>8. taken = [a \in Accounts |-> IF a = from THEN HoldingsMap[from] \ {id}
                                               ELSE HoldingsMap[a]]
    BY <2>7
  <2>9. given = [a \in Accounts |-> IF a = to THEN taken[to] \union {id} ELSE taken[a]]
    BY <2>8
  <2>10. taken[to] \union {id} = HoldingsMap[to] \union {id}
    BY <1>1, <2>8
  <2>11. ASSUME NEW a \in Accounts PROVE given[a] = HoldingsMap'[a]
    BY <2>6, <2>8, <2>9, <2>10
  <2> HIDE DEF taken, given
  <2>12. HoldingsMap' = given
    BY <2>7, <2>9, <2>11
  <2> QED BY <2>12 DEF given, taken
<1>8. BalanceMap' = [[BalanceMap EXCEPT ![from] = @ - 1] EXCEPT ![to] = @ + 1]
  BY <1>1, <1>2, <1>3, <1>4 DEF BalanceMap, Addresses
<1>9. BurnedMap' = BurnedMap
  BY <1>2 DEF BurnedMap
<1> QED BY <1>1, <1>2, <1>5, <1>6, <1>7, <1>8, <1>9 DEF Ledger!Give

LEMMA ApproveIsAllow ==
  ASSUME IInv, HoldingsAreOwned, NEW sender \in Accounts, NEW to \in Addresses,
         NEW id \in TokenIds, Approve(sender, to, id)
  PROVE  Ledger!Allow(to, id)
PROOF
<1>1. /\ to # tokenOwner[id] /\ Exists(id)
      /\ tokenApprovals' = [tokenApprovals EXCEPT ![id] = to]
      /\ UNCHANGED <<tokenOwner, operatorApprovals, burnedTokens, enumVars>>
  BY DEF Approve, IsApprovedStrict
<1>2. tokenOwner[id] \in Accounts /\ id \in HoldingsMap[tokenOwner[id]]
  BY <1>1, HeldExists DEF Exists, IInv, TypeOK, Addresses
<1>3. UNCHANGED <<HoldingsMap, BalanceMap, SupplyMap, BurnedMap>>
  BY <1>1 DEF HoldingsMap, BalanceMap, SupplyMap, BurnedMap, enumVars
<1> QED BY <1>1, <1>2, <1>3 DEF Ledger!Allow

LEMMA InitIsLedger == Init => Ledger!Init
PROOF
<1> SUFFICES ASSUME Init PROVE Ledger!Init
  OBVIOUS
<1>1. HoldingsMap = [a \in Accounts |-> {}]
  BY DEF Init, HoldingsMap, Range, Addresses
<1>2. /\ BalanceMap = [a \in Accounts |-> 0] /\ SupplyMap = 0 /\ BurnedMap = {}
  BY DEF Init, BalanceMap, SupplyMap, BurnedMap, Addresses
<1> QED BY <1>1, <1>2 DEF Init, Ledger!Init

LEMMA NextIsLedger ==
  ASSUME IInv, HoldingsAreOwned, HoldingsAreOwned', [Next]_vars
  PROVE  [Ledger!Next]_(Ledger!vars)
PROOF
<1>1. ASSUME NEW id \in TokenIds, BurnToken(tokenOwner[id], id) PROVE Ledger!Next
  BY <1>1, BurnIsDestroy DEF Ledger!Next
<1>2. ASSUME NEW from, NEW to \in Addresses, NEW id \in TokenIds, MoveToken(from, to, id)
      PROVE  Ledger!Next
  BY <1>2, MoveIsGive DEF Ledger!Next
<1>3. CASE BySource
  <2>1. ASSUME NEW to \in Accounts, NEW ids \in Batches, SourceMint(to, ids)
        PROVE  Ledger!Next
    <3>1. /\ ids \in Seq(TokenIds) /\ to \in Addresses /\ Mint(to, ids)
          /\ \A id \in Range(ids) : ~burnedTokens[id]
          /\ UNCHANGED <<tokenApprovals, operatorApprovals, burnedTokens>>
      BY <2>1, TokenAssumption DEF SourceMint, Addresses
    <3>2. Ledger!Receive(to, Range(ids))
      BY <3>1, MintIsReceive
    <3>3. Range(ids) \intersect BurnedMap = {} /\ UNCHANGED BurnedMap
      BY <3>1 DEF BurnedMap
    <3>4. Ledger!Issue(to, Range(ids)) /\ Range(ids) \in IssuesMap
      BY <3>2, <3>3 DEF Ledger!Issue, IssuesMap
    <3> QED BY <3>4 DEF Ledger!Next
  <2>2. ASSUME NEW id \in TokenIds,
               SourceBurn(id) \/ \E to \in Addresses : SourceTransfer(to, id)
        PROVE  Ledger!Next
    BY <1>1, <1>2, <2>2 DEF SourceBurn, SourceTransfer
  <2> QED BY <1>3, <2>1, <2>2 DEF BySource
<1>4. CASE ByBridge
  <2>1. ASSUME NEW to \in Addresses, NEW id \in TokenIds, BridgeIn(to, id)
        PROVE  Ledger!Next
    <3>1. /\ Mint(to, <<id>>) /\ <<id>> \in Seq(TokenIds) /\ Range(<<id>>) = {id}
          /\ UNCHANGED <<tokenApprovals, operatorApprovals>>
          /\ burnedTokens' = [burnedTokens EXCEPT ![id] = FALSE]
      BY <2>1 DEF BridgeIn, Range
    <3>2. to \in Accounts /\ Ledger!Receive(to, Range(<<id>>))
      BY <3>1, MintIsReceive
    <3>3. BurnedMap' = BurnedMap \ {id}
      BY <3>1 DEF BurnedMap, IInv, TypeOK
    <3>4. Ledger!Return(to, id)
      BY <3>1, <3>2, <3>3 DEF Ledger!Return
    <3> QED BY <3>2, <3>4 DEF Ledger!Next
  <2> QED BY <1>1, <1>4, <2>1 DEF ByBridge, BridgeOut
<1>5. CASE ByAccount
  <2>1. PICK sender \in Accounts :
          \/ \E to \in Accounts, approved \in BOOLEAN :
               SetApprovalForAll(sender, to, approved)
          \/ \E id \in TokenIds :
               \/ Burn(sender, id)
               \/ \E to \in Addresses :
                    \/ Approve(sender, to, id)
                    \/ \E from \in Accounts : TransferFrom(sender, from, to, id)
    BY <1>5 DEF ByAccount
  <2>2. ASSUME NEW to \in Accounts, NEW approved \in BOOLEAN,
               SetApprovalForAll(sender, to, approved)
        PROVE  Ledger!Next
    <3>1. UNCHANGED <<HoldingsMap, BalanceMap, SupplyMap, BurnedMap>>
      BY <2>2 DEF SetApprovalForAll, HoldingsMap, BalanceMap, SupplyMap, BurnedMap, enumVars
    <3>2. Ledger!Trust(sender, to, approved)
      BY <2>2, <3>1 DEF SetApprovalForAll, Ledger!Trust
    <3> QED BY <3>2 DEF Ledger!Next
  <2>3. ASSUME NEW id \in TokenIds, NEW to \in Addresses, Approve(sender, to, id)
        PROVE  Ledger!Next
    BY <2>3, ApproveIsAllow DEF Ledger!Next, Addresses
  <2> QED BY <1>1, <1>2, <2>1, <2>2, <2>3 DEF Burn, TransferFrom
<1>6. CASE UNCHANGED vars
  <2>1. UNCHANGED Ledger!vars
    BY <1>6 DEF vars, Ledger!vars, HoldingsMap, BalanceMap, SupplyMap, BurnedMap
  <2> QED BY <2>1
<1> QED BY <1>3, <1>4, <1>5, <1>6 DEF Next

\* Read through tokenOfOwnerByIndex, balanceOf and totalSupply, a collection is a
\* ledger of sets: every call of every contract takes exactly the tokens meant out
\* of the enumerations and puts them in, for any accounts, ids, batches and
\* however often the array entries were moved before.
THEOREM CollectionImplementsLedger == Spec => ImplementsLedger
PROOF
<1>1. IInv' => HoldingsAreOwned'
  BY HoldingsRead, PTL
<1>2. IInv /\ IInv' /\ [Next]_vars => [Ledger!Next]_(Ledger!vars)
  BY <1>1, HoldingsRead, NextIsLedger
<1> QED BY <1>2, Invariance, InitIsLedger, PTL DEF Spec, ImplementsLedger, Ledger!Spec

\* balanceOf is the number of tokens an account owns, and totalSupply that of all
\* tokens that exist.
TokensAreCounted ==
  /\ \A a \in Accounts : ownedTokensCount[a] = Cardinality(TokensOf(tokenOwner, a))
  /\ Len(allTokens) = Cardinality(OwnedTokens(tokenOwner))

\* An array that lists a set is as long as the set is large.
LEMMA ListsCount ==
  ASSUME NEW array \in Seq(TokenIds), NEW index \in [TokenIds -> Nat],
         NEW tokens \in SUBSET TokenIds, Lists(array, index, tokens)
  PROVE  Cardinality(tokens) = Len(array)
PROOF
<1>1. DOMAIN array = 1 .. Len(array) /\ Len(array) \in Nat
  OBVIOUS
<1>2. ASSUME NEW i \in DOMAIN array, NEW k \in DOMAIN array, array[i] = array[k]
      PROVE  i = k
  <2>1. index[array[i]] = i - 1 /\ index[array[k]] = k - 1
    BY <1>1 DEF Lists
  <2> QED BY <1>1, <1>2, <2>1
<1>3. IsInjective(array)
  BY <1>2 DEF IsInjective
<1> QED BY <1>3, ListsRange, RangeCardinality

\* Balances and the supply are never off, however tokens were minted, burned, moved
\* and bridged before.
THEOREM TokensStayCounted == Spec => []TokensAreCounted
PROOF
<1>1. IInv => TokensAreCounted
  <2> SUFFICES ASSUME IInv PROVE TokensAreCounted
    OBVIOUS
  <2>1. /\ ownedTokens \in [Addresses -> Seq(TokenIds \ {0})]
        /\ ownedTokensIndex \in [TokenIds -> Nat] /\ allTokensIndex \in [TokenIds -> Nat]
        /\ allTokens \in Seq(TokenIds \ {0})
    BY DEF IInv, TypeOK
  <2>2. ASSUME NEW a \in Accounts
        PROVE  ownedTokensCount[a] = Cardinality(TokensOf(tokenOwner, a))
    <3>1. /\ ownedTokens[a] \in Seq(TokenIds)
          /\ TokensOf(tokenOwner, a) \in SUBSET TokenIds
      BY <2>1 DEF Addresses, TokensOf
    <3>2. /\ Lists(ownedTokens[a], ownedTokensIndex, TokensOf(tokenOwner, a))
          /\ ownedTokensCount[a] = Len(ownedTokens[a])
      BY DEF IInv, OwnedTokensEnumerated, TokensOf
    <3> QED BY <2>1, <3>1, <3>2, ListsCount
  <2>3. Len(allTokens) = Cardinality(OwnedTokens(tokenOwner))
    <3>1. allTokens \in Seq(TokenIds) /\ OwnedTokens(tokenOwner) \in SUBSET TokenIds
      BY <2>1 DEF OwnedTokens
    <3>2. Lists(allTokens, allTokensIndex, OwnedTokens(tokenOwner))
      BY DEF IInv, AllTokensEnumerated, OwnedTokens, Exists
    <3> QED BY <2>1, <3>1, <3>2, ListsCount
  <2> QED BY <2>2, <2>3 DEF TokensAreCounted
<1> QED BY <1>1, Invariance, PTL
=============================================================================
