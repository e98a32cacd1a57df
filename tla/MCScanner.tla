----------------------------- MODULE MCScanner -----------------------------
EXTENDS Scanner, TLC

CONSTANTS m1, m2, m3

(* A whitelisted jetton, one whose admin can mint, and one that TONAPI       *)
(* trusts although its admin can.                                            *)
Details ==
     m1 :> [verification |-> "whitelisted", admin |-> TRUE, mintable |-> TRUE, holders |-> 500]
  @@ m2 :> [verification |-> "none", admin |-> TRUE, mintable |-> TRUE, holders |-> Unread]
  @@ m3 :> [verification |-> "trusted", admin |-> TRUE, mintable |-> TRUE, holders |-> 500]

AssetLists  == {<<m1>>}
JettonLists == {<<>>, <<m1, m2, m3>>}
PoolAnswers == {[found |-> "pool", worth |-> 0, ton |-> 1],
                [found |-> "usdt pool", worth |-> 100, ton |-> 0]}
=============================================================================
