---------------------------- MODULE MCWalletSend ----------------------------
(* Values of WalletSend's constants: two STON.fi buys and a DeDust sell, in  *)
(* a wallet that has enough for one buy and, after a deposit, for two.       *)
EXTENDS WalletSend

CONSTANTS b1, b2, s1

ThreeCalls == {b1, b2, s1}
Amounts    == [c \in ThreeCalls |-> 20]
=============================================================================
