---------------------------- MODULE OrderService ----------------------------
(***************************************************************************)
(* What the executor's order queue promises its two clients, the gated     *)
(* feed (buys) and the position monitor (exits), without its queues, its   *)
(* busy flag or its event-loop callbacks:                                  *)
(*                                                                         *)
(*   - an order is executed at most once, and one order at a time;         *)
(*   - no buy starts while an exit waits, or while the portfolio is full;  *)
(*   - an order that started ends with one outcome, unless the process     *)
(*     dies under it.                                                      *)
(***************************************************************************)
EXTENDS Naturals

CONSTANTS Orders,            \* order requests, each submitted at most once
          Exits,             \* the sells among them, submitted with priority "high"
          MaxOpenPositions,  \* EXEC_CONFIG.maxOpenPositions
          MaxRecovered       \* most positions a restart may recover

VARIABLES outcome,    \* what became of each order
          openCount   \* open positions the executor tracks

vars == <<outcome, openCount>>

Outcome == {"new", "waiting", "executing", "resolved", "rejected", "lost"}

Waiting   == {o \in Orders : outcome[o] = "waiting"}
Executing == {o \in Orders : outcome[o] = "executing"}

Init == /\ outcome = [o \in Orders |-> "new"]
        /\ openCount \in 0..MaxRecovered

(* A client hands an order over. *)
Submit(o) == /\ outcome[o] = "new"
             /\ outcome' = [outcome EXCEPT ![o] = "waiting"]
             /\ UNCHANGED openCount

(* An order starts: alone, and if it is a buy, into a free slot and with no  *)
(* exit left behind.                                                         *)
Start(o) == /\ outcome[o] = "waiting"
            /\ Executing = {}
            /\ o \notin Exits => /\ Waiting \cap Exits = {}
                                 /\ openCount < MaxOpenPositions
            /\ outcome' = [outcome EXCEPT ![o] = "executing"]
            /\ UNCHANGED openCount

(* An order ends; a filled buy takes the slot it was started for. *)
Finish(o) == /\ outcome[o] = "executing"
             /\ \/ outcome' = [outcome EXCEPT ![o] = "resolved"]
                \/ outcome' = [outcome EXCEPT ![o] = "rejected"]
             /\ openCount' \in (IF o \in Exits THEN {openCount}
                                               ELSE {openCount, openCount + 1})

(* A position closes and frees its slot. *)
FreeSlot == /\ openCount > 0
            /\ openCount' = openCount - 1
            /\ UNCHANGED outcome

(* The process dies and starts again: what had not ended is lost. *)
Restart == /\ outcome' = [o \in Orders |->
                            IF outcome[o] \in {"waiting", "executing"} THEN "lost" ELSE outcome[o]]
           /\ openCount' \in 0..MaxRecovered

Next == \/ \E o \in Orders : Submit(o) \/ Start(o) \/ Finish(o)
        \/ FreeSlot
        \/ Restart

Spec == Init /\ [][Next]_vars
=============================================================================
