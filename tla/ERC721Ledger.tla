---------------------------- MODULE ERC721Ledger ----------------------------
(***************************************************************************)
(* What an ERC-721 collection promises to those who read it: the tokens of *)
(* each account are a set, and balances and the supply count them.  There  *)
(* are no arrays and no indices here.                                      *)
(*                                                                         *)
(* The source contract may issue, destroy and move tokens of every account,*)
(* and a holder may approve whoever it likes, so no step asks who takes it.*)
(***************************************************************************)
EXTENDS Integers, FiniteSets

CONSTANTS
  Accounts,
  Nobody,     \* who a token is approved to without an approval
  TokenIds,
  Issues      \* the sets of tokens issued together

VARIABLES
  holdings,   \* the tokens of each account
  balance,    \* how many they are
  supply,     \* how many tokens there are
  approved,   \* the account each token is approved to
  trusted,    \* the accounts each account trusts with its tokens
  burned      \* destroyed or away on another chain

vars == <<holdings, balance, supply, approved, trusted, burned>>

Held(id) == \E a \in Accounts : id \in holdings[a]

Init ==
  /\ holdings = [a \in Accounts |-> {}]
  /\ balance = [a \in Accounts |-> 0]
  /\ supply = 0
  /\ approved = [id \in TokenIds |-> Nobody]
  /\ trusted = [a \in Accounts |-> {}]
  /\ burned = {}

\* No token has the id zero.
Receive(to, ids) ==
  /\ \A id \in ids : id # 0 /\ ~Held(id)
  /\ holdings' = [holdings EXCEPT ![to] = @ \union ids]
  /\ balance' = [balance EXCEPT ![to] = @ + Cardinality(ids)]
  /\ supply' = supply + Cardinality(ids)
  /\ UNCHANGED <<approved, trusted>>

\* What was burned, or has left for another chain, is not issued again ...
Issue(to, ids) ==
  /\ ids \intersect burned = {}
  /\ Receive(to, ids)
  /\ UNCHANGED burned

\* ... and comes back over the bridge only.
Return(to, id) ==
  /\ Receive(to, {id})
  /\ burned' = burned \ {id}

\* Only a token that is held, and so exists, can be burned, sent away or moved.
Destroy(holder, id) ==
  /\ id \in holdings[holder]
  /\ holdings' = [holdings EXCEPT ![holder] = @ \ {id}]
  /\ balance' = [balance EXCEPT ![holder] = @ - 1]
  /\ supply' = supply - 1
  /\ approved' = [approved EXCEPT ![id] = Nobody]
  /\ burned' = burned \union {id}
  /\ UNCHANGED trusted

Give(holder, to, id) ==
  /\ id \in holdings[holder]
  /\ holdings' = [[holdings EXCEPT ![holder] = @ \ {id}] EXCEPT ![to] = @ \union {id}]
  /\ balance' = [[balance EXCEPT ![holder] = @ - 1] EXCEPT ![to] = @ + 1]
  /\ approved' = [approved EXCEPT ![id] = Nobody]
  /\ UNCHANGED <<supply, trusted, burned>>

\* Only a token that is held is approved to somebody, and not to its holder.
Allow(to, id) ==
  /\ \E holder \in Accounts : id \in holdings[holder] /\ to # holder
  /\ approved' = [approved EXCEPT ![id] = to]
  /\ UNCHANGED <<holdings, balance, supply, trusted, burned>>

Trust(a, other, yes) ==
  /\ other # a
  /\ trusted' = [trusted EXCEPT ![a] = IF yes THEN @ \union {other}
                                              ELSE @ \ {other}]
  /\ UNCHANGED <<holdings, balance, supply, approved, burned>>

Next ==
  \/ \E to \in Accounts, ids \in Issues : Issue(to, ids)
  \/ \E to \in Accounts, id \in TokenIds : Return(to, id)
  \/ \E holder \in Accounts, id \in TokenIds :
       \/ Destroy(holder, id)
       \/ \E to \in Accounts : Give(holder, to, id)
  \/ \E to \in Accounts \union {Nobody}, id \in TokenIds : Allow(to, id)
  \/ \E a, other \in Accounts, yes \in BOOLEAN : Trust(a, other, yes)

Spec == Init /\ [][Next]_vars
=============================================================================
