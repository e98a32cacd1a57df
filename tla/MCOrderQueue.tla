---------------------------- MODULE MCOrderQueue ----------------------------
(***************************************************************************)
(* Three buys and two exits over one slot, after a restart that may have   *)
(* recovered one position more than the limit.                             *)
(***************************************************************************)
EXTENDS OrderQueue

CONSTANTS b1, b2, b3, x1, x2

MCOrders == {b1, b2, b3, x1, x2}
MCExits  == {x1, x2}
=============================================================================
