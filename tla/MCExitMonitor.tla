--------------------------- MODULE MCExitMonitor ---------------------------
EXTENDS ExitMonitor, TLC

CONSTANTS p1, p2

(* One position that falls, rises and jumps over its target, and one that    *)
(* stays where it is and shares the breakers.                                *)
QuotesOfTwo == (p1 :> {940, 1025, 1045, 1310}) @@ (p2 :> {1000})
Targets     == (p1 :> 1300) @@ (p2 :> 1150)
Stops       == (p1 :> 950) @@ (p2 :> 950)
=============================================================================
