-------------------------- MODULE BridgeRefinement --------------------------
(***************************************************************************)
(* HolographBridge implements AssetTeleport: owners and burned marks on all*)
(* chains and the pending payloads together say where each token is.       *)
(***************************************************************************)
EXTENDS HolographBridge

\* The chains that can mint an id, in a batch that runs over a prefix too.
Home(id) == {c \in Chains : id[1] - Prefix(c) \in {0, 1}}

PlaceOf(id) ==
  LET at     == {c \in Chains : Exists(c, id)}
      moving == {d \in Chains : \E p \in Pending(d) : Carries(p, id)}
  IN  IF at # {}
        THEN LET c == CHOOSE c \in at : TRUE IN <<"at", c, tokenOwner[c][id]>>
      ELSE IF moving # {}
        THEN LET d == CHOOSE d \in moving : TRUE
                 p == CHOOSE p \in Pending(d) : Carries(p, id)
             IN  <<"moving", d, p.cargo.to>>
      ELSE IF \E c \in Home(id) : burnedTokens[c][id]
        THEN <<"burned">>
      ELSE <<"unborn">>

Teleport == INSTANCE AssetTeleport WITH
  place       <- [id \in TokenIds |-> PlaceOf(id)],
  circulating <- [h \in Chains |-> Circulating(h)]

\* No request, delivery, failure or recovery in any order duplicates, loses or
\* revives a token, sends it elsewhere than it was sent, or makes coins.
ImplementsTeleport == Teleport!Spec
=============================================================================
