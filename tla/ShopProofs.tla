------------------------------ MODULE ShopProofs ------------------------------
(***************************************************************************)
(* The composition of Publisher and CartShards: what is proved of each     *)
(* holds of the two side by side, because a step of the composition is a   *)
(* step of one of them and a stutter of the other.                         *)
(***************************************************************************)
EXTENDS MCShop, PublisherProofs, CartShardsProofs

\* A run of the publisher's calls beside the nodes is a run of either: whichever
\* moves, the variables of the other stay as they are, since they share none.
LEMMA ShopRuns == MCShopSpec => Spec /\ ShardsSpec
<1>1. MCShopInit => Init /\ ShardsInit
  BY DEF MCShopInit, MCInit
<1>2. ASSUME [MCShopNext]_<<focus, vars, shardVars>>
      PROVE  [Next]_vars /\ [ShardsNext]_shardVars
  BY <1>2 DEF MCShopNext
<1>3. QED
  BY <1>1, <1>2, PTL DEF MCShopSpec, Spec, ShardsSpec

\* While calls publish and nodes come and go, the rows, flags and locks of the
\* publishing calls and the lists, plans and nodes of the shop are well typed.
THEOREM ShopTypeCorrect == MCShopSpec => []ShopTypeOK
<1>1. TypeOK /\ ShardsTypeOK => ShopTypeOK
  BY DEF ShopTypeOK
<1>2. QED
  BY <1>1, ShopRuns, TypeCorrect, ShardsTypeCorrect, PTL
=============================================================================
