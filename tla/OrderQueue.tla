----------------------------- MODULE OrderQueue -----------------------------
(***************************************************************************)
(* OrderQueueManager (packages/executor/src/order-queue.ts): the two       *)
(* queues between the executor's clients and Executor.submit, drained by   *)
(* processNext callbacks that setImmediate puts on the event loop.         *)
(*                                                                         *)
(* A callback is never attached to one order: every enqueue, every         *)
(* notifySlotAvailable and every end of an order may add one, and each     *)
(* looks at the queues when it runs.  wakeups counts the callbacks not yet *)
(* run.  JavaScript runs each callback to its first await, so a step of    *)
(* this module is the code between two awaits.                             *)
(*                                                                         *)
(* The queue reads the size of the executor's position map through its     *)
(* canExecuteBuy callback; openCount stands for that size here.            *)
(***************************************************************************)
EXTENDS Naturals, Sequences

CONSTANTS Orders,            \* order requests; ids are fresh, so each is enqueued once
          Exits,             \* those enqueued with priority "high"
          MaxOpenPositions,  \* EXEC_CONFIG.maxOpenPositions
          MaxRecovered       \* most positions a restart may recover from the journals

ASSUME ExitsAssumption    == Exits \subseteq Orders
ASSUME CapacityAssumption == MaxOpenPositions \in Nat /\ MaxRecovered \in Nat

VARIABLES highQueue,     \* QueueItem[]: exits
          normalQueue,   \* QueueItem[]: buys
          isProcessing,  \* the worker's busy flag
          isRunning,     \* cleared by stop()
          wakeups,       \* processNext callbacks waiting on the event loop
          executing,     \* items whose executor.submit has not returned
          outcome,       \* what became of each order's promise
          openCount      \* openPositionsMap.size

qvars == <<highQueue, normalQueue, isProcessing, isRunning, wakeups, executing, outcome>>
vars  == <<qvars, openCount>>

Outcome == {"new", "waiting", "executing", "resolved", "rejected", "lost"}

TypeOK == /\ highQueue \in Seq(Orders)
          /\ normalQueue \in Seq(Orders)
          /\ isProcessing \in BOOLEAN
          /\ isRunning \in BOOLEAN
          /\ wakeups \in Nat
          /\ executing \in SUBSET Orders
          /\ outcome \in [Orders -> Outcome]
          /\ openCount \in Nat

QueueInit == /\ highQueue = <<>>
             /\ normalQueue = <<>>
             /\ isProcessing = FALSE
             /\ isRunning = TRUE
             /\ wakeups = 0
             /\ executing = {}
             /\ outcome = [o \in Orders |-> "new"]

Init == QueueInit /\ openCount \in 0..MaxRecovered
-----------------------------------------------------------------------------
(* scheduleProcess, as the number of callbacks it adds: none when stopped    *)
(* or busy.  Its argument is the busy flag at the moment of the call.        *)
Scheduled(busy) == IF isRunning /\ ~busy THEN 1 ELSE 0

CanAlwaysExecuteBuy == TRUE   \* slip: the limit is not asked
CanExecuteBuy == openCount < MaxOpenPositions

(* enqueue(order, priority): the item joins its queue, and the worker is     *)
(* woken.  Nothing here looks at isRunning: an order enqueued after stop()   *)
(* is accepted and never ends.                                               *)
Enqueue(o) == /\ outcome[o] = "new"
              /\ IF o \in Exits
                   THEN highQueue' = Append(highQueue, o) /\ UNCHANGED normalQueue
                   ELSE normalQueue' = Append(normalQueue, o) /\ UNCHANGED highQueue
              /\ outcome' = [outcome EXCEPT ![o] = "waiting"]
              /\ wakeups' = wakeups + Scheduled(isProcessing)
              /\ UNCHANGED <<isProcessing, isRunning, executing>>

(* notifySlotAvailable() *)
NotifySlotAvailable == /\ wakeups' = wakeups + Scheduled(isProcessing)
                       /\ UNCHANGED <<highQueue, normalQueue, isProcessing, isRunning,
                                      executing, outcome>>

(* stop() *)
Stop == /\ isRunning
        /\ isRunning' = FALSE
        /\ UNCHANGED <<highQueue, normalQueue, isProcessing, wakeups, executing, outcome>>

(* A processNext callback runs, up to the await of executor.submit.          *)
Take(o) == /\ isProcessing' = TRUE
           /\ executing' = executing \cup {o}
           /\ outcome' = [outcome EXCEPT ![o] = "executing"]

DispatchExitPeeking ==   \* slip: highQueue[0] instead of shift()
  /\ isRunning /\ ~isProcessing
  /\ highQueue # <<>>
  /\ Take(Head(highQueue))
  /\ UNCHANGED <<highQueue, normalQueue>>

DispatchExit == /\ isRunning /\ ~isProcessing
                /\ highQueue # <<>>
                /\ highQueue' = Tail(highQueue)
                /\ Take(Head(highQueue))
                /\ UNCHANGED normalQueue

DispatchBuyFirst ==   \* slip: an exit that waits does not go first
  /\ isRunning /\ ~isProcessing
  /\ normalQueue # <<>>
  /\ CanExecuteBuy
  /\ normalQueue' = Tail(normalQueue)
  /\ Take(Head(normalQueue))
  /\ UNCHANGED highQueue

DispatchBuy == /\ isRunning /\ ~isProcessing
               /\ highQueue = <<>> /\ normalQueue # <<>>
               /\ CanExecuteBuy
               /\ normalQueue' = Tail(normalQueue)
               /\ Take(Head(normalQueue))
               /\ UNCHANGED highQueue

(* ... and returns without an order: stopped, busy, empty, or holding the    *)
(* buys because the portfolio is full.                                       *)
NothingToDispatch == /\ \/ ~isRunning
                        \/ isProcessing
                        \/ highQueue = <<>> /\ normalQueue = <<>>
                        \/ highQueue = <<>> /\ ~CanExecuteBuy
                     /\ UNCHANGED <<highQueue, normalQueue, isProcessing, executing, outcome>>

ProcessNext == /\ wakeups > 0
               /\ wakeups' = wakeups - 1
               /\ UNCHANGED isRunning
               /\ DispatchExit \/ DispatchBuy \/ NothingToDispatch

SubmitSettlesUnscheduled(o, result) ==   \* slip: scheduled before the flag is cleared
  /\ o \in executing
  /\ executing' = executing \ {o}
  /\ outcome' = [outcome EXCEPT ![o] = result]
  /\ isProcessing' = FALSE
  /\ wakeups' = wakeups + Scheduled(isProcessing)
  /\ UNCHANGED <<highQueue, normalQueue, isRunning>>

(* executor.submit returns or throws: the promise settles, the busy flag is  *)
(* cleared and the worker scheduled again.                                   *)
SubmitSettles(o, result) ==
  /\ o \in executing
  /\ executing' = executing \ {o}
  /\ outcome' = [outcome EXCEPT ![o] = result]
  /\ isProcessing' = FALSE
  /\ wakeups' = wakeups + Scheduled(FALSE)
  /\ UNCHANGED <<highQueue, normalQueue, isRunning>>

(* The process is killed and started again with an empty queue. *)
QueueRestart ==
  /\ highQueue' = <<>>
  /\ normalQueue' = <<>>
  /\ isProcessing' = FALSE
  /\ isRunning' = TRUE
  /\ wakeups' = 0
  /\ executing' = {}
  /\ outcome' = [o \in Orders |->
                   IF outcome[o] \in {"waiting", "executing"} THEN "lost" ELSE outcome[o]]
-----------------------------------------------------------------------------
(* The queue with its clients reduced to what they do to it.                 *)

ClientEnqueues(o) == Enqueue(o) /\ UNCHANGED openCount

Worker == ProcessNext /\ UNCHANGED openCount

(* onOrderExecuted runs between the resolve and the finally: a buy that did  *)
(* not bounce adds a position, unless its token already has one.             *)
OrderEnds(o) ==
  \/ /\ SubmitSettles(o, "resolved")
     /\ openCount' \in (IF o \in Exits THEN {openCount} ELSE {openCount, openCount + 1})
  \/ SubmitSettles(o, "rejected") /\ UNCHANGED openCount

(* The monitor drops a position and calls notifySlotAvailable at once. *)
PositionCloses == /\ openCount > 0
                  /\ openCount' = openCount - 1
                  /\ NotifySlotAvailable

ClientStops == Stop /\ UNCHANGED openCount

Restart == QueueRestart /\ openCount' \in 0..MaxRecovered

Next == \/ \E o \in Orders : ClientEnqueues(o) \/ OrderEnds(o)
        \/ Worker
        \/ PositionCloses
        \/ ClientStops
        \/ Restart

(* The event loop runs every callback it holds; a submit returns, because    *)
(* every wait inside it is bounded; and a position is closed in the end, by  *)
(* the hard time-stop when by nothing else.                                  *)
Fairness == /\ WF_vars(Worker)
            /\ \A o \in Orders : WF_vars(OrderEnds(o))
            /\ WF_vars(PositionCloses)

Spec     == Init /\ [][Next]_vars
FairSpec == Spec /\ Fairness
-----------------------------------------------------------------------------
InSeq(o, s) == \E i \in 1..Len(s) : s[i] = o

(* One order is on its way to the chain at a time, and the busy flag says    *)
(* so, although any number of callbacks may run while it is.                 *)
OneAtATime == /\ \A o, p \in executing : o = p
              /\ isProcessing <=> executing # {}

(* A buy in flight still has the slot it was dispatched for: nothing that    *)
(* happens during its broadcast can fill the portfolio under it.             *)
BuyKeepsItsSlot == \A o \in executing : o \notin Exits => openCount < MaxOpenPositions

(* Only a restart takes the position map over its limit: whatever it found,  *)
(* no step of a running process adds a position beyond MaxOpenPositions.     *)
CapacityRespected ==
  [][Restart \/ openCount' <= openCount \/ openCount' <= MaxOpenPositions]_vars

(* No lost wakeup: while the worker is free and an order could be            *)
(* dispatched, a callback is on its way.                                     *)
Dispatchable == highQueue # <<>> \/ (normalQueue # <<>> /\ CanExecuteBuy)
NoLostWakeup == isRunning /\ ~isProcessing /\ Dispatchable => wakeups > 0

(* Every promise handed out is accounted for: an order waits exactly when    *)
(* it is in one queue, once, and executes exactly when submit holds it.      *)
Distinct(s) == \A i, j \in 1..Len(s) : s[i] = s[j] => i = j
WaitingIsQueued  == \A o \in Orders :
                      outcome[o] = "waiting" <=> InSeq(o, highQueue) \/ InSeq(o, normalQueue)
ExecutingIsHeld  == \A o \in Orders : outcome[o] = "executing" <=> o \in executing
QueuedOnce       == Distinct(highQueue) /\ Distinct(normalQueue)
QueuedByPriority == /\ \A i \in 1..Len(highQueue) : highQueue[i] \in Exits
                    /\ \A i \in 1..Len(normalQueue) : normalQueue[i] \notin Exits
QueuesHoldWaiting == WaitingIsQueued /\ ExecutingIsHeld /\ QueuedOnce /\ QueuedByPriority

(* An order that waits in a running queue ends: an exit whatever the         *)
(* portfolio holds, a buy because slots come free.                           *)
Ended(o) == outcome[o] \in {"resolved", "rejected", "lost"} \/ ~isRunning
OrdersEnd == \A o \in Orders : outcome[o] = "waiting" ~> Ended(o)

(* The queue implements the service its clients rely on. *)
Service == INSTANCE OrderService
ServiceSpec == Service!Spec
=============================================================================
