-------------------------- MODULE OrderQueueProofs --------------------------
(***************************************************************************)
(* Proofs about OrderQueue, for any number of orders, any capacity and any *)
(* number of recovered positions.                                          *)
(*                                                                         *)
(* The safety invariants are proved together (IInv).  CapacityRespected,   *)
(* a property of steps, rests on BuyKeepsItsSlot (a buy in flight still    *)
(* has its slot), which rests on OneAtATime (no second buy takes it);      *)
(* NoLostWakeup on the busy flag; and the refinement of OrderService on    *)
(* QueuesHoldWaiting, which ties the queues to the outcome of each order.  *)
(***************************************************************************)
EXTENDS OrderQueue, TLAPS

IInv == /\ TypeOK
        /\ OneAtATime
        /\ BuyKeepsItsSlot
        /\ NoLostWakeup
        /\ QueuesHoldWaiting
-----------------------------------------------------------------------------
(* What the queues' operations do to the elements of a sequence.             *)

(* push adds its element and no other. *)
LEMMA InAppend ==
  ASSUME NEW S, NEW s \in Seq(S), NEW e \in S, NEW o
  PROVE  InSeq(o, Append(s, e)) <=> InSeq(o, s) \/ o = e
<1> DEFINE t == Append(s, e)
<1>1. /\ Len(s) \in Nat /\ Len(t) = Len(s) + 1
      /\ \A i \in 1..Len(s) : t[i] = s[i]
      /\ t[Len(s) + 1] = e
  OBVIOUS
<1>2. ASSUME InSeq(o, t) PROVE InSeq(o, s) \/ o = e
  <2>1. PICK i \in 1..Len(t) : t[i] = o
    BY <1>2 DEF InSeq
  <2>2. CASE i = Len(s) + 1
    BY <1>1, <2>1, <2>2
  <2>3. CASE i \in 1..Len(s)
    BY <1>1, <2>1, <2>3 DEF InSeq
  <2> QED BY <1>1, <2>1, <2>2, <2>3
<1>3. ASSUME InSeq(o, s) PROVE InSeq(o, t)
  <2>1. PICK i \in 1..Len(s) : s[i] = o
    BY <1>3 DEF InSeq
  <2>2. i \in 1..Len(t) /\ t[i] = o
    BY <1>1, <2>1
  <2> QED BY <2>2 DEF InSeq
<1>4. ASSUME o = e PROVE InSeq(o, t)
  BY <1>1, <1>4 DEF InSeq
<1> QED BY <1>2, <1>3, <1>4

(* shift takes the head out of a queue that holds it once. *)
LEMMA InTail ==
  ASSUME NEW S, NEW s \in Seq(S), s # <<>>, Distinct(s), NEW o
  PROVE  InSeq(o, Tail(s)) <=> InSeq(o, s) /\ o # Head(s)
<1> DEFINE t == Tail(s)
<1>1. /\ Len(s) \in Nat \ {0} /\ Len(t) = Len(s) - 1
      /\ \A i \in 1..Len(t) : t[i] = s[i + 1]
      /\ Head(s) = s[1]
  OBVIOUS
<1>2. ASSUME InSeq(o, t) PROVE InSeq(o, s) /\ o # Head(s)
  <2>1. PICK i \in 1..Len(t) : t[i] = o
    BY <1>2 DEF InSeq
  <2>2. i + 1 \in 1..Len(s) /\ 1 \in 1..Len(s) /\ i + 1 # 1 /\ s[i + 1] = o
    BY <1>1, <2>1
  <2>3. s[i + 1] # s[1]
    BY <2>2 DEF Distinct
  <2> QED BY <1>1, <2>2, <2>3 DEF InSeq
<1>3. ASSUME InSeq(o, s), o # Head(s) PROVE InSeq(o, t)
  <2>1. PICK i \in 1..Len(s) : s[i] = o
    BY <1>3 DEF InSeq
  <2>2. i # 1
    BY <1>1, <1>3, <2>1
  <2>3. i - 1 \in 1..Len(t) /\ t[i - 1] = o
    BY <1>1, <2>1, <2>2
  <2> QED BY <2>3 DEF InSeq
<1> QED BY <1>2, <1>3

(* The head of a queue is in it. *)
LEMMA HeadIn ==
  ASSUME NEW S, NEW s \in Seq(S), s # <<>>
  PROVE  Head(s) \in S /\ InSeq(Head(s), s)
<1>1. 1 \in 1..Len(s) /\ Head(s) = s[1] /\ Head(s) \in S
  OBVIOUS
<1> QED BY <1>1 DEF InSeq

(* push and shift keep a queue free of duplicates. *)
LEMMA DistinctAppend ==
  ASSUME NEW S, NEW s \in Seq(S), NEW e \in S, Distinct(s), ~InSeq(e, s)
  PROVE  Distinct(Append(s, e))
<1> DEFINE t == Append(s, e)
<1>1. /\ Len(s) \in Nat /\ Len(t) = Len(s) + 1
      /\ \A i \in 1..Len(s) : t[i] = s[i] /\ s[i] # e
      /\ t[Len(s) + 1] = e
  BY DEF InSeq
<1> SUFFICES ASSUME NEW i \in 1..Len(t), NEW j \in 1..Len(t), t[i] = t[j]
             PROVE  i = j
  BY DEF Distinct
<1>2. CASE i \in 1..Len(s) /\ j \in 1..Len(s)
  BY <1>1, <1>2 DEF Distinct
<1>3. CASE i = Len(s) + 1 \/ j = Len(s) + 1
  BY <1>1, <1>3
<1> QED BY <1>1, <1>2, <1>3

LEMMA DistinctTail ==
  ASSUME NEW S, NEW s \in Seq(S), s # <<>>, Distinct(s)
  PROVE  Distinct(Tail(s))
<1> DEFINE t == Tail(s)
<1>1. /\ Len(s) \in Nat \ {0} /\ Len(t) = Len(s) - 1
      /\ \A i \in 1..Len(t) : t[i] = s[i + 1]
  OBVIOUS
<1> SUFFICES ASSUME NEW i \in 1..Len(t), NEW j \in 1..Len(t), t[i] = t[j]
             PROVE  i = j
  BY DEF Distinct
<1>2. i + 1 \in 1..Len(s) /\ j + 1 \in 1..Len(s) /\ s[i + 1] = s[j + 1]
  BY <1>1
<1> QED BY <1>2 DEF Distinct

(* Membership, the other way round: what holds of every element. *)
LEMMA AllAppend ==
  ASSUME NEW S, NEW s \in Seq(S), NEW e \in S, NEW T,
         \A i \in 1..Len(s) : s[i] \in T, e \in T
  PROVE  \A i \in 1..Len(Append(s, e)) : Append(s, e)[i] \in T
<1>1. /\ Len(s) \in Nat /\ Len(Append(s, e)) = Len(s) + 1
      /\ \A i \in 1..Len(s) : Append(s, e)[i] = s[i]
      /\ Append(s, e)[Len(s) + 1] = e
  OBVIOUS
<1> QED BY <1>1

LEMMA AllTail ==
  ASSUME NEW S, NEW s \in Seq(S), s # <<>>, NEW T,
         \A i \in 1..Len(s) : s[i] \in T
  PROVE  \A i \in 1..Len(Tail(s)) : Tail(s)[i] \in T
<1>1. /\ Len(s) \in Nat \ {0} /\ Len(Tail(s)) = Len(s) - 1
      /\ \A i \in 1..Len(Tail(s)) : Tail(s)[i] = s[i + 1]
  OBVIOUS
<1> QED BY <1>1
-----------------------------------------------------------------------------
(* A call of scheduleProcess adds one callback at most. *)
LEMMA ScheduledNat ==
  ASSUME NEW busy \in BOOLEAN
  PROVE  Scheduled(busy) \in Nat
BY DEF Scheduled

(* Where each part starts. *)
LEMMA InitIInv == Init => IInv
<1> SUFFICES ASSUME Init PROVE IInv
  OBVIOUS
<1> USE DEF Init, QueueInit
<1>1. TypeOK
  <2>1. openCount \in Nat
    BY CapacityAssumption
  <2>2. highQueue \in Seq(Orders) /\ normalQueue \in Seq(Orders)
    OBVIOUS
  <2>3. outcome \in [Orders -> Outcome]
    BY DEF Outcome
  <2> QED BY <2>1, <2>2, <2>3 DEF TypeOK
<1>2. OneAtATime /\ BuyKeepsItsSlot
  BY DEF OneAtATime, BuyKeepsItsSlot
<1>3. NoLostWakeup
  BY DEF NoLostWakeup, Dispatchable
<1>4. QueuesHoldWaiting
  BY DEF QueuesHoldWaiting, WaitingIsQueued, ExecutingIsHeld, QueuedOnce, QueuedByPriority,
         InSeq, Distinct
<1> QED BY <1>1, <1>2, <1>3, <1>4 DEF IInv

(* Type correctness is inductive by itself. *)
LEMMA TypePreserved == TypeOK /\ [Next]_vars => TypeOK'
<1> SUFFICES ASSUME TypeOK, [Next]_vars PROVE TypeOK'
  OBVIOUS
<1> USE DEF TypeOK
<1>1. ASSUME NEW o \in Orders, ClientEnqueues(o) PROVE TypeOK'
  <2>1. wakeups' \in Nat
    BY <1>1, ScheduledNat DEF ClientEnqueues, Enqueue
  <2>2. highQueue' \in Seq(Orders) /\ normalQueue' \in Seq(Orders)
    <3>1. CASE o \in Exits
      BY <1>1, <3>1 DEF ClientEnqueues, Enqueue
    <3>2. CASE o \notin Exits
      <4>1. normalQueue' = Append(normalQueue, o) /\ highQueue' = highQueue
        BY <1>1, <3>2 DEF ClientEnqueues, Enqueue
      <4> QED BY <4>1
    <3> QED BY <3>1, <3>2
  <2>3. outcome' \in [Orders -> Outcome]
    <3>1. outcome' = [outcome EXCEPT ![o] = "waiting"]
      BY <1>1 DEF ClientEnqueues, Enqueue
    <3> QED BY <3>1 DEF Outcome
  <2> QED BY <1>1, <2>1, <2>2, <2>3 DEF ClientEnqueues, Enqueue
<1>2. ASSUME NEW o \in Orders, OrderEnds(o) PROVE TypeOK'
  <2>1. PICK result \in {"resolved", "rejected"} : SubmitSettles(o, result)
    BY <1>2 DEF OrderEnds
  <2>2. openCount' \in Nat
    BY <1>2 DEF OrderEnds
  <2>3. wakeups' \in Nat
    <3>1. PICK n \in Nat : n = Scheduled(FALSE)
      BY ScheduledNat
    <3>2. wakeups' = wakeups + n
      BY <2>1, <3>1 DEF SubmitSettles
    <3> QED BY <3>2
  <2>4. outcome' \in [Orders -> Outcome]
    BY <2>1 DEF SubmitSettles, Outcome
  <2> QED BY <2>1, <2>2, <2>3, <2>4 DEF SubmitSettles
<1>3. ASSUME Worker PROVE TypeOK'
  <2>1. wakeups' \in Nat /\ isRunning' \in BOOLEAN /\ openCount' \in Nat
    BY <1>3 DEF Worker, ProcessNext
  <2>2. CASE DispatchExit
    <3>1. Head(highQueue) \in Orders /\ Tail(highQueue) \in Seq(Orders)
      BY <2>2 DEF DispatchExit
    <3> QED BY <2>1, <2>2, <3>1 DEF DispatchExit, Take, Outcome
  <2>3. CASE DispatchBuy
    <3>1. Head(normalQueue) \in Orders /\ Tail(normalQueue) \in Seq(Orders)
      BY <2>3 DEF DispatchBuy
    <3> QED BY <2>1, <2>3, <3>1 DEF DispatchBuy, Take, Outcome
  <2>4. CASE NothingToDispatch
    BY <2>1, <2>4 DEF NothingToDispatch
  <2> QED BY <1>3, <2>2, <2>3, <2>4 DEF Worker, ProcessNext
<1>4. ASSUME PositionCloses PROVE TypeOK'
  BY <1>4, ScheduledNat DEF PositionCloses, NotifySlotAvailable
<1>5. ASSUME ClientStops PROVE TypeOK'
  BY <1>5 DEF ClientStops, Stop
<1>6. ASSUME Restart PROVE TypeOK'
  <2>1. openCount' \in Nat
    BY <1>6, CapacityAssumption DEF Restart
  <2>2. outcome' \in [Orders -> Outcome]
    BY <1>6 DEF Restart, QueueRestart, Outcome
  <2>3. highQueue' \in Seq(Orders) /\ normalQueue' \in Seq(Orders)
    BY <1>6 DEF Restart, QueueRestart
  <2> QED BY <1>6, <2>1, <2>2, <2>3 DEF Restart, QueueRestart
<1>7. ASSUME UNCHANGED vars PROVE TypeOK'
  BY <1>7 DEF vars, qvars
<1> QED BY <1>1, <1>2, <1>3, <1>4, <1>5, <1>6, <1>7 DEF Next

(* The busy flag, and the slot of the buy in flight. *)
LEMMA BusyPreserved ==
  TypeOK /\ OneAtATime /\ BuyKeepsItsSlot /\ QueuedByPriority /\ [Next]_vars
    => OneAtATime' /\ BuyKeepsItsSlot'
<1> SUFFICES ASSUME TypeOK, OneAtATime, BuyKeepsItsSlot, QueuedByPriority, [Next]_vars
             PROVE  OneAtATime' /\ BuyKeepsItsSlot'
  OBVIOUS
<1> USE DEF OneAtATime, BuyKeepsItsSlot
<1>1. ASSUME NEW o \in Orders, ClientEnqueues(o) PROVE OneAtATime' /\ BuyKeepsItsSlot'
  BY <1>1 DEF ClientEnqueues, Enqueue
<1>2. ASSUME NEW o \in Orders, OrderEnds(o) PROVE OneAtATime' /\ BuyKeepsItsSlot'
  <2>1. executing' = executing \ {o} /\ isProcessing' = FALSE /\ o \in executing
    BY <1>2 DEF OrderEnds, SubmitSettles
  <2>2. executing' = {}
    BY <2>1
  <2> QED BY <2>1, <2>2
<1>3. ASSUME Worker PROVE OneAtATime' /\ BuyKeepsItsSlot'
  <2>1. CASE DispatchExit
    <3>1. executing' = {Head(highQueue)} /\ isProcessing' = TRUE
      BY <2>1 DEF DispatchExit, Take
    <3>2. Head(highQueue) \in Exits
      BY <2>1 DEF DispatchExit, QueuedByPriority, TypeOK
    <3> QED BY <3>1, <3>2
  <2>2. CASE DispatchBuy
    <3>1. executing' = {Head(normalQueue)} /\ isProcessing' = TRUE
      BY <2>2 DEF DispatchBuy, Take
    <3>2. openCount' < MaxOpenPositions
      BY <1>3, <2>2 DEF DispatchBuy, CanExecuteBuy, Worker
    <3> QED BY <3>1, <3>2
  <2>3. CASE NothingToDispatch
    BY <1>3, <2>3 DEF NothingToDispatch, Worker
  <2> QED BY <1>3, <2>1, <2>2, <2>3 DEF Worker, ProcessNext
<1>4. ASSUME PositionCloses PROVE OneAtATime' /\ BuyKeepsItsSlot'
  BY <1>4, CapacityAssumption DEF PositionCloses, NotifySlotAvailable, TypeOK
<1>5. ASSUME ClientStops PROVE OneAtATime' /\ BuyKeepsItsSlot'
  BY <1>5 DEF ClientStops, Stop
<1>6. ASSUME Restart PROVE OneAtATime' /\ BuyKeepsItsSlot'
  BY <1>6 DEF Restart, QueueRestart
<1>7. ASSUME UNCHANGED vars PROVE OneAtATime' /\ BuyKeepsItsSlot'
  BY <1>7 DEF vars, qvars
<1> QED BY <1>1, <1>2, <1>3, <1>4, <1>5, <1>6, <1>7 DEF Next

(* A step that may add a position. *)
WithinLimit == Restart \/ openCount' <= openCount \/ openCount' <= MaxOpenPositions

(* Only the end of a buy adds a position, into the slot it kept. *)
LEMMA CapacityKept == TypeOK /\ BuyKeepsItsSlot /\ [Next]_vars => WithinLimit
<1> SUFFICES ASSUME TypeOK, BuyKeepsItsSlot, [Next]_vars
             PROVE  WithinLimit
  OBVIOUS
<1> USE CapacityAssumption DEF TypeOK, WithinLimit
<1>1. ASSUME NEW o \in Orders, OrderEnds(o) PROVE WithinLimit
  <2>1. CASE openCount' = openCount
    BY <2>1
  <2>2. CASE openCount' = openCount + 1
    <3>1. o \in executing
      BY <1>1 DEF OrderEnds, SubmitSettles
    <3>2. o \notin Exits
      BY <1>1, <2>2 DEF OrderEnds
    <3>3. openCount < MaxOpenPositions
      BY <3>1, <3>2 DEF BuyKeepsItsSlot
    <3> QED BY <2>2, <3>3
  <2> QED BY <1>1, <2>1, <2>2 DEF OrderEnds
<1>2. ASSUME PositionCloses PROVE WithinLimit
  BY <1>2 DEF PositionCloses
<1>3. ASSUME UNCHANGED openCount PROVE WithinLimit
  BY <1>3
<1> QED BY <1>1, <1>2, <1>3 DEF Next, vars, ClientEnqueues, Worker, ClientStops

(* Whatever makes an order dispatchable, or the worker free, adds a callback; *)
(* and a callback that leaves an order behind leaves the worker busy, or the  *)
(* order undispatchable.                                                      *)
LEMMA WakeupPreserved == TypeOK /\ NoLostWakeup /\ [Next]_vars => NoLostWakeup'
<1> SUFFICES ASSUME TypeOK, NoLostWakeup, [Next]_vars PROVE NoLostWakeup'
  OBVIOUS
<1> USE DEF TypeOK, NoLostWakeup, Dispatchable, Scheduled
<1>1. ASSUME NEW o \in Orders, ClientEnqueues(o) PROVE NoLostWakeup'
  BY <1>1 DEF ClientEnqueues, Enqueue
<1>2. ASSUME NEW o \in Orders, OrderEnds(o) PROVE NoLostWakeup'
  <2>1. wakeups' = wakeups + Scheduled(FALSE) /\ isRunning' = isRunning
    BY <1>2 DEF OrderEnds, SubmitSettles
  <2>2. CASE isRunning
    BY <2>1, <2>2
  <2>3. CASE ~isRunning
    BY <2>1, <2>3
  <2> QED BY <2>2, <2>3
<1>3. ASSUME Worker PROVE NoLostWakeup'
  <2>1. CASE DispatchExit
    BY <2>1 DEF DispatchExit, Take
  <2>2. CASE DispatchBuy
    BY <2>2 DEF DispatchBuy, Take
  <2>3. CASE NothingToDispatch
    BY <1>3, <2>3 DEF NothingToDispatch, Worker, ProcessNext, CanExecuteBuy
  <2> QED BY <1>3, <2>1, <2>2, <2>3 DEF Worker, ProcessNext
<1>4. ASSUME PositionCloses PROVE NoLostWakeup'
  BY <1>4 DEF PositionCloses, NotifySlotAvailable
<1>5. ASSUME ClientStops PROVE NoLostWakeup'
  BY <1>5 DEF ClientStops, Stop
<1>6. ASSUME Restart PROVE NoLostWakeup'
  BY <1>6 DEF Restart, QueueRestart
<1>7. ASSUME UNCHANGED vars PROVE NoLostWakeup'
  BY <1>7 DEF vars, qvars, CanExecuteBuy
<1> QED BY <1>1, <1>2, <1>3, <1>4, <1>5, <1>6, <1>7 DEF Next
-----------------------------------------------------------------------------
(* The queues against the outcomes, one part per conjunct.                   *)
LEMMA QueuesPreserved ==
  TypeOK /\ OneAtATime /\ QueuesHoldWaiting /\ [Next]_vars => QueuesHoldWaiting'
<1> SUFFICES ASSUME TypeOK, OneAtATime, QueuesHoldWaiting, [Next]_vars
             PROVE  QueuesHoldWaiting'
  OBVIOUS
<1> USE DEF TypeOK
<1> DEFINE Queued(o) == InSeq(o, highQueue) \/ InSeq(o, normalQueue)
<1>a. /\ WaitingIsQueued /\ ExecutingIsHeld /\ Distinct(highQueue) /\ Distinct(normalQueue)
      /\ \A i \in 1..Len(highQueue) : highQueue[i] \in Exits
      /\ \A i \in 1..Len(normalQueue) : normalQueue[i] \in Orders \ Exits
  BY DEF QueuesHoldWaiting, QueuedOnce, QueuedByPriority
<1>b. /\ \A o : InSeq(o, highQueue) => o \in Exits
      /\ \A o : InSeq(o, normalQueue) => o \in Orders \ Exits
  BY <1>a DEF InSeq

<1>1. ASSUME NEW o \in Orders, ClientEnqueues(o) PROVE QueuesHoldWaiting'
  <2>1. outcome[o] = "new" /\ outcome' = [outcome EXCEPT ![o] = "waiting"] /\ executing' = executing
    BY <1>1 DEF ClientEnqueues, Enqueue
  <2>2. ~InSeq(o, highQueue) /\ ~InSeq(o, normalQueue) /\ o \notin executing
    BY <1>a, <2>1 DEF WaitingIsQueued, ExecutingIsHeld
  <2>3. ExecutingIsHeld'
    BY <1>a, <2>1, <2>2 DEF ExecutingIsHeld
  <2>4. CASE o \in Exits
    <3>1. highQueue' = Append(highQueue, o) /\ normalQueue' = normalQueue
      BY <1>1, <2>4 DEF ClientEnqueues, Enqueue
    <3>2. \A p \in Orders : Queued(p)' <=> Queued(p) \/ p = o
      BY <3>1, InAppend
    <3>3. WaitingIsQueued'
      BY <1>a, <2>1, <3>2 DEF WaitingIsQueued
    <3>4. Distinct(highQueue') /\ Distinct(normalQueue')
      BY <1>a, <2>2, <3>1, DistinctAppend
    <3>5. \A i \in 1..Len(highQueue') : highQueue'[i] \in Exits
      BY <1>a, <2>4, <3>1, AllAppend
    <3> QED BY <1>a, <2>3, <3>1, <3>3, <3>4, <3>5
            DEF QueuesHoldWaiting, QueuedOnce, QueuedByPriority
  <2>5. CASE o \notin Exits
    <3>1. normalQueue' = Append(normalQueue, o) /\ highQueue' = highQueue
      BY <1>1, <2>5 DEF ClientEnqueues, Enqueue
    <3>2. \A p \in Orders : Queued(p)' <=> Queued(p) \/ p = o
      BY <3>1, InAppend
    <3>3. WaitingIsQueued'
      BY <1>a, <2>1, <3>2 DEF WaitingIsQueued
    <3>4. Distinct(highQueue') /\ Distinct(normalQueue')
      BY <1>a, <2>2, <3>1, DistinctAppend
    <3>5. \A i \in 1..Len(normalQueue') : normalQueue'[i] \in Orders \ Exits
      BY <1>a, <2>5, <3>1, AllAppend
    <3> QED BY <1>a, <2>3, <3>1, <3>3, <3>4, <3>5
            DEF QueuesHoldWaiting, QueuedOnce, QueuedByPriority
  <2> QED BY <2>4, <2>5

<1>2. ASSUME NEW o \in Orders, OrderEnds(o) PROVE QueuesHoldWaiting'
  <2>1. PICK result \in {"resolved", "rejected"} : SubmitSettles(o, result)
    BY <1>2 DEF OrderEnds
  <2>2. /\ o \in executing /\ executing' = executing \ {o}
        /\ outcome' = [outcome EXCEPT ![o] = result]
        /\ highQueue' = highQueue /\ normalQueue' = normalQueue
    BY <2>1 DEF SubmitSettles
  <2>3. outcome[o] = "executing" /\ result # "waiting" /\ result # "executing"
    BY <1>a, <2>2 DEF ExecutingIsHeld
  <2>4. ExecutingIsHeld'
    BY <1>a, <2>2, <2>3 DEF ExecutingIsHeld
  <2>5. WaitingIsQueued'
    BY <1>a, <2>2, <2>3 DEF WaitingIsQueued
  <2> QED BY <2>2, <2>4, <2>5 DEF QueuesHoldWaiting, QueuedOnce, QueuedByPriority

<1>3. ASSUME Worker PROVE QueuesHoldWaiting'
  <2>1. CASE DispatchExit
    <3> DEFINE h == Head(highQueue)
    <3>1. /\ highQueue # <<>> /\ highQueue' = Tail(highQueue) /\ normalQueue' = normalQueue
          /\ outcome' = [outcome EXCEPT ![h] = "executing"]
          /\ executing' = executing \cup {h}
      BY <2>1 DEF DispatchExit, Take
    <3>2. h \in Orders /\ InSeq(h, highQueue) /\ ~InSeq(h, normalQueue)
      BY <1>b, <3>1, HeadIn
    <3>3. outcome[h] = "waiting"
      BY <1>a, <3>2 DEF WaitingIsQueued
    <3>4. \A p \in Orders : Queued(p)' <=> Queued(p) /\ p # h
      BY <1>a, <3>1, <3>2, InTail
    <3>5. WaitingIsQueued'
      BY <1>a, <3>1, <3>4 DEF WaitingIsQueued
    <3>6. ExecutingIsHeld'
      BY <1>a, <3>1, <3>3 DEF ExecutingIsHeld
    <3>7. Distinct(highQueue') /\ Distinct(normalQueue')
      BY <1>a, <3>1, DistinctTail
    <3>8. \A i \in 1..Len(highQueue') : highQueue'[i] \in Exits
      BY <1>a, <3>1, AllTail
    <3> QED BY <1>a, <3>1, <3>5, <3>6, <3>7, <3>8
            DEF QueuesHoldWaiting, QueuedOnce, QueuedByPriority
  <2>2. CASE DispatchBuy
    <3> DEFINE h == Head(normalQueue)
    <3>1. /\ normalQueue # <<>> /\ normalQueue' = Tail(normalQueue) /\ highQueue' = highQueue
          /\ outcome' = [outcome EXCEPT ![h] = "executing"]
          /\ executing' = executing \cup {h}
      BY <2>2 DEF DispatchBuy, Take
    <3>2. h \in Orders /\ InSeq(h, normalQueue) /\ ~InSeq(h, highQueue)
      BY <1>b, <3>1, HeadIn
    <3>3. outcome[h] = "waiting"
      BY <1>a, <3>2 DEF WaitingIsQueued
    <3>4. \A p \in Orders : Queued(p)' <=> Queued(p) /\ p # h
      BY <1>a, <3>1, <3>2, InTail
    <3>5. WaitingIsQueued'
      BY <1>a, <3>1, <3>4 DEF WaitingIsQueued
    <3>6. ExecutingIsHeld'
      BY <1>a, <3>1, <3>3 DEF ExecutingIsHeld
    <3>7. Distinct(highQueue') /\ Distinct(normalQueue')
      BY <1>a, <3>1, DistinctTail
    <3>8. \A i \in 1..Len(normalQueue') : normalQueue'[i] \in Orders \ Exits
      BY <1>a, <3>1, AllTail
    <3> QED BY <1>a, <3>1, <3>5, <3>6, <3>7, <3>8
            DEF QueuesHoldWaiting, QueuedOnce, QueuedByPriority
  <2>3. CASE NothingToDispatch
    BY <2>3 DEF NothingToDispatch, QueuesHoldWaiting, WaitingIsQueued, ExecutingIsHeld,
                QueuedOnce, QueuedByPriority
  <2> QED BY <1>3, <2>1, <2>2, <2>3 DEF Worker, ProcessNext

<1>4. ASSUME Restart PROVE QueuesHoldWaiting'
  <2>1. /\ highQueue' = <<>> /\ normalQueue' = <<>> /\ executing' = {}
        /\ outcome' = [o \in Orders |->
             IF outcome[o] \in {"waiting", "executing"} THEN "lost" ELSE outcome[o]]
    BY <1>4 DEF Restart, QueueRestart
  <2>2. \A o \in Orders : outcome'[o] # "waiting" /\ outcome'[o] # "executing"
    BY <2>1
  <2>3. WaitingIsQueued' /\ ExecutingIsHeld'
    BY <2>1, <2>2 DEF WaitingIsQueued, ExecutingIsHeld, InSeq
  <2>4. QueuedOnce' /\ QueuedByPriority'
    BY <2>1 DEF QueuedOnce, QueuedByPriority, Distinct
  <2> QED BY <2>3, <2>4 DEF QueuesHoldWaiting

<1>5. ASSUME UNCHANGED <<highQueue, normalQueue, executing, outcome>>
      PROVE  QueuesHoldWaiting'
  BY <1>5 DEF QueuesHoldWaiting, WaitingIsQueued, ExecutingIsHeld, QueuedOnce, QueuedByPriority
<1> QED BY <1>1, <1>2, <1>3, <1>4, <1>5
        DEF Next, vars, qvars, PositionCloses, NotifySlotAvailable, ClientStops, Stop
-----------------------------------------------------------------------------
LEMMA NextIInv == IInv /\ [Next]_vars => IInv'
BY TypePreserved, BusyPreserved, WakeupPreserved, QueuesPreserved
   DEF IInv, QueuesHoldWaiting

(* The inductive invariant holds in every state. *)
THEOREM Invariance == Spec => []IInv
BY InitIInv, NextIInv, PTL DEF Spec

(* The queue's fields keep their types, whatever its clients do.             *)
THEOREM TypeCorrect == Spec => []TypeOK
<1>1. IInv => TypeOK
  BY DEF IInv
<1> QED BY <1>1, Invariance, PTL

(* One order at a time is at the wallet, so no two swaps compete for a seqno. *)
THEOREM OneSwapAtATime == Spec => []OneAtATime
<1>1. IInv => OneAtATime
  BY DEF IInv
<1> QED BY <1>1, Invariance, PTL

(* The slot a buy was dispatched for is still free when its fill opens the   *)
(* position.                                                                 *)
THEOREM SlotKept == Spec => []BuyKeepsItsSlot
<1>1. IInv => BuyKeepsItsSlot
  BY DEF IInv
<1> QED BY <1>1, Invariance, PTL

(* Whatever a restart found, no later step takes the portfolio beyond its    *)
(* limit: the slot is tested at the dispatch and still there at the fill.    *)
THEOREM PortfolioBounded == Spec => CapacityRespected
<1>1. IInv /\ [Next]_vars => [WithinLimit]_vars
  BY CapacityKept DEF IInv
<1>2. CapacityRespected <=> [][WithinLimit]_vars
  BY DEF CapacityRespected, WithinLimit
<1> QED BY <1>1, <1>2, Invariance, PTL DEF Spec

(* The worker never sleeps while it could dispatch.                          *)
THEOREM WorkerWakes == Spec => []NoLostWakeup
<1>1. IInv => NoLostWakeup
  BY DEF IInv
<1> QED BY <1>1, Invariance, PTL

(* No promise is dropped or kept twice: the queues hold what waits.          *)
THEOREM PromisesKept == Spec => []QueuesHoldWaiting
<1>1. IInv => QueuesHoldWaiting
  BY DEF IInv
<1> QED BY <1>1, Invariance, PTL
-----------------------------------------------------------------------------
(* The refinement of OrderService: outcome and openCount map to themselves,  *)
(* a callback that dispatches maps to Start, one that does not to a stutter. *)

LEMMA InitRefines == Init => Service!Init
BY DEF Init, QueueInit, Service!Init

(* A dispatched order is waiting, alone, and overtakes no exit.              *)
LEMMA DispatchStarts ==
  ASSUME IInv, Worker, outcome' # outcome
  PROVE  \E o \in Orders : Service!Start(o)
<1> USE DEF TypeOK
<1>a. TypeOK /\ OneAtATime /\ WaitingIsQueued /\ ExecutingIsHeld /\ QueuedByPriority
  BY DEF IInv, QueuesHoldWaiting
<1>b. openCount' = openCount
  BY DEF Worker
<1>c. ASSUME ~isProcessing PROVE Service!Executing = {}
  <2>1. executing = {}
    BY <1>a, <1>c DEF OneAtATime
  <2> QED BY <1>a, <2>1 DEF ExecutingIsHeld, Service!Executing
<1>1. CASE DispatchExit
  <2> DEFINE h == Head(highQueue)
  <2>1. highQueue # <<>> /\ ~isProcessing /\ outcome' = [outcome EXCEPT ![h] = "executing"]
    BY <1>1 DEF DispatchExit, Take
  <2>2. h \in Orders /\ InSeq(h, highQueue)
    BY <1>a, <2>1, HeadIn
  <2>3. h \in Exits
    BY <1>a, <2>1 DEF QueuedByPriority
  <2>4. outcome[h] = "waiting"
    BY <1>a, <2>2 DEF WaitingIsQueued
  <2>5. Service!Start(h)
    BY <1>b, <1>c, <2>1, <2>3, <2>4 DEF Service!Start
  <2> QED BY <2>2, <2>5
<1>2. CASE DispatchBuy
  <2> DEFINE h == Head(normalQueue)
  <2>1. /\ normalQueue # <<>> /\ highQueue = <<>> /\ ~isProcessing
        /\ outcome' = [outcome EXCEPT ![h] = "executing"]
    BY <1>2 DEF DispatchBuy, Take
  <2>2. h \in Orders /\ InSeq(h, normalQueue)
    BY <1>a, <2>1, HeadIn
  <2>3. outcome[h] = "waiting"
    BY <1>a, <2>2 DEF WaitingIsQueued
  <2>4. \A o \in Exits : ~InSeq(o, highQueue) /\ ~InSeq(o, normalQueue)
    BY <1>a, <2>1 DEF InSeq, QueuedByPriority
  <2>5. Service!Waiting \cap Exits = {}
    BY <1>a, <2>4, ExitsAssumption DEF WaitingIsQueued, Service!Waiting
  <2>6. openCount < MaxOpenPositions
    BY <1>2 DEF DispatchBuy, CanExecuteBuy
  <2>7. Service!Start(h)
    BY <1>b, <1>c, <2>1, <2>3, <2>5, <2>6 DEF Service!Start
  <2> QED BY <2>2, <2>7
<1>3. CASE NothingToDispatch
  BY <1>3 DEF NothingToDispatch
<1> QED BY <1>1, <1>2, <1>3 DEF Worker, ProcessNext

(* Every step of the queue is a step of the service, or none.                *)
LEMMA NextRefines == IInv /\ [Next]_vars => [Service!Next]_(Service!vars)
<1> SUFFICES ASSUME IInv, [Next]_vars PROVE Service!Next \/ UNCHANGED <<outcome, openCount>>
  BY DEF Service!vars
<1>1. ASSUME NEW o \in Orders, ClientEnqueues(o) PROVE Service!Submit(o)
  BY <1>1 DEF ClientEnqueues, Enqueue, Service!Submit
<1>2. ASSUME NEW o \in Orders, OrderEnds(o) PROVE Service!Finish(o)
  <2>1. outcome[o] = "executing"
    BY <1>2 DEF OrderEnds, SubmitSettles, IInv, QueuesHoldWaiting, ExecutingIsHeld
  <2>2. \/ outcome' = [outcome EXCEPT ![o] = "resolved"]
        \/ outcome' = [outcome EXCEPT ![o] = "rejected"]
    BY <1>2 DEF OrderEnds, SubmitSettles
  <2>3. openCount' \in (IF o \in Exits THEN {openCount} ELSE {openCount, openCount + 1})
    BY <1>2 DEF OrderEnds
  <2> QED BY <2>1, <2>2, <2>3 DEF Service!Finish
<1>3. ASSUME Worker PROVE (\E o \in Orders : Service!Start(o)) \/ UNCHANGED <<outcome, openCount>>
  <2>1. openCount' = openCount
    BY <1>3 DEF Worker
  <2> QED BY <1>3, <2>1, DispatchStarts
<1>4. ASSUME PositionCloses PROVE Service!FreeSlot
  BY <1>4 DEF PositionCloses, NotifySlotAvailable, Service!FreeSlot
<1>5. ASSUME ClientStops PROVE UNCHANGED <<outcome, openCount>>
  BY <1>5 DEF ClientStops, Stop
<1>6. ASSUME Restart PROVE Service!Restart
  BY <1>6 DEF Restart, QueueRestart, Service!Restart
<1>7. ASSUME UNCHANGED vars PROVE UNCHANGED <<outcome, openCount>>
  BY <1>7 DEF vars, qvars
<1> QED BY <1>1, <1>2, <1>3, <1>4, <1>5, <1>6, <1>7 DEF Next, Service!Next

(* The queue implements the service its clients rely on: one order at a      *)
(* time, exits before buys, buys into free slots, one outcome each.          *)
THEOREM Refinement == Spec => ServiceSpec
BY InitRefines, NextRefines, Invariance, PTL DEF Spec, ServiceSpec, Service!Spec
=============================================================================
