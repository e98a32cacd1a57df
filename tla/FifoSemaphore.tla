--------------------------- MODULE FifoSemaphore ---------------------------
(***************************************************************************)
(* What a queue of slots promises: no more users than permits at a time,   *)
(* permits given in the order they were asked for, and, as long as users   *)
(* give them back, given to everybody who waits.                           *)
(***************************************************************************)
EXTENDS Naturals, Sequences, FiniteSets

CONSTANTS Users, Permits

VARIABLES waiting, holding

vars == <<waiting, holding>>

Init == waiting = <<>> /\ holding = {}

(* The first of w gets a permit, if one is free besides those of h. *)
First(w, h) == /\ w # <<>> /\ Cardinality(h) < Permits
               /\ waiting' = Tail(w) /\ holding' = h \cup {Head(w)}

Serve(w, h) == First(w, h) \/ (waiting' = w /\ holding' = h)

Request(u) == /\ u \notin holding /\ \A i \in DOMAIN waiting : waiting[i] # u
              /\ Serve(Append(waiting, u), holding)

Grant == First(waiting, holding)

Return(u) == u \in holding /\ Serve(waiting, holding \ {u})

Next == Grant \/ \E u \in Users : Request(u) \/ Return(u)

Spec == Init /\ [][Next]_vars /\ WF_vars(Grant \/ \E u \in Users : Return(u))
=============================================================================
