---------------------------- MODULE MCSwapRouter ----------------------------
EXTENDS SwapRouter, TLC

CONSTANTS b1, b2, b3, s1, s2, k1, n1, d1

(* Buys and sells by callers, a buy below a tier's cap through the           *)
(* coordinator, one through the execution node, and a sell through           *)
(* packages/dex.                                                             *)
All ==
     b1 :> [via |-> "caller", side |-> "buy", dex |-> "stonfi", tier |-> "low", amount |-> 100]
  @@ b2 :> [via |-> "caller", side |-> "buy", dex |-> "dedust", tier |-> "low", amount |-> 80]
  @@ s1 :> [via |-> "caller", side |-> "sell", dex |-> "stonfi", tier |-> "mid", amount |-> 0]
  @@ s2 :> [via |-> "caller", side |-> "sell", dex |-> "dedust", tier |-> "low", amount |-> 0]
  @@ b3 :> [via |-> "caller", side |-> "buy", dex |-> "stonfi", tier |-> "high", amount |-> 70]
  @@ k1 :> [via |-> "coordinator", side |-> "buy", dex |-> "stonfi", tier |-> "low", amount |-> 50]
  @@ n1 :> [via |-> "node", side |-> "buy", dex |-> "stonfi", tier |-> "low", amount |-> 50]
  @@ d1 :> [via |-> "library", side |-> "sell", dex |-> "stonfi", tier |-> "low", amount |-> 0]

Requests == [c \in Calls |-> All[c]]
=============================================================================
