---------------------- MODULE ContinuousExecutorProofs ----------------------
(***************************************************************************)
(* Proofs about the continuous executor, for any envelopes, tokens, modes, *)
(* numbers of slots and bounces, crashes and failing appends.              *)
(*                                                                         *)
(* The invariant has a part for each partner of the executor: the queue    *)
(* and submit (QueueInv), the tasks of a scan (TasksInv), the ids of       *)
(* processed envelopes (BuysInv), the lots in the wallet (LotsInv), the    *)
(* exits that reduced a position (TakesInv), the rests that sales left     *)
(* (RestsInv) and the journals (JournalsInv).                              *)
(***************************************************************************)
EXTENDS ContinuousExecutor, SubsequencesProofs

Buys      == Order \ Sells
OrderRow  == [kind : {"buy", "sell"}, lot : Envs, fill : Result]
CloseWhy  == {"sent", "surfaced", "unsellable", "force_cleared", "dust"}
PositionRow == [kind : {"open", "closed"}, lot : Envs, reason : CloseWhy \cup {"none"}]

IsPending(o) == outcome[o] \in Pending
-----------------------------------------------------------------------------
(* The queue: it holds waiting orders, each once and by priority; the order  *)
(* that submit has is alone and is the one the stages are about; and when an *)
(* exit has settled none executes until its task has run on.                 *)
Unique(s) == \A i, j \in 1..Len(s) : s[i] = s[j] => i = j

QueuesWait ==
  /\ highQueue \in Seq(Sells) /\ normalQueue \in Seq(Buys) /\ outcome \in [Order -> OrderQ!Outcome]
  /\ Unique(highQueue) /\ \A i \in 1..Len(highQueue) : outcome[highQueue[i]] = "waiting"
  /\ Unique(normalQueue) /\ \A i \in 1..Len(normalQueue) : outcome[normalQueue[i]] = "waiting"

SubmitHolds ==
  /\ isProcessing \in BOOLEAN /\ isRunning \in BOOLEAN /\ wakeups \in Nat
  /\ \A o \in executing : o \in Order /\ outcome[o] = "executing"
  /\ \A o, p \in executing : o = p
  /\ isProcessing <=> executing # {}
  /\ stage = "idle" <=> executing = {}
  /\ stage \in {"idle", "swap", "append", "return"} /\ result \in Result
  /\ resolved # NoExit => resolved \in [lot : Envs, result : Result] /\ executing = {}

QueueInv == QueuesWait /\ SubmitHolds

(* The feed, the journals and the world.                                     *)
RestTypes ==
  /\ feed \in Seq(Envs) /\ published \in [Envs -> 0..MaxCopies]
  /\ cursor \in 0..Len(feed) /\ processedEnvIds \in SUBSET Envs
  /\ ordersJournal \in Seq(OrderRow) /\ positionsJournal \in Seq(PositionRow)
  /\ held \in SUBSET Envs /\ due \in SUBSET Envs /\ rests \in SUBSET Envs
  /\ sends \in [Envs -> Nat] /\ afloat \in SUBSET doubted /\ doubted \in SUBSET Order
  /\ mode \in Modes /\ faults \in 0..MaxFaults /\ crashes \in Nat

(* A task has its position in the map, one that was not marked when the scan *)
(* began; and tasks run during a scan.  Each failed append allows a bounce   *)
(* beyond the limit.                                                         *)
PositionAt(t) == positions[t] # NoPosition =>
                   TokenOf[positions[t].lot] = t /\ positions[t].bounces < BounceLimit + faults

Snap(t) == monitor[t].snap
TaskAt(t) == monitor[t] # NoTask =>
               /\ TokenOf[Snap(t).lot] = t /\ Snap(t).bounces < BounceLimit + faults
               /\ ~Snap(t).exitInFlight
               /\ positions[t] # NoPosition /\ scan = "monitor"

TaskTypes == /\ scan \in {"idle", "ingest", "monitor"}
             /\ positions \in [Tokens -> Position \cup {NoPosition}]
             /\ monitor \in [Tokens -> Task \cup {NoTask}]
             /\ \A t \in Tokens : PositionAt(t) /\ TaskAt(t)

(* An exit that is offered has its task, which waits for it: so no position  *)
(* is offered twice, and every mark has somebody to clear it.                *)
SellingLot(l) == LET t == TokenOf[l] IN monitor[t].step = "selling" /\ Snap(t).lot = l
ExitsHaveTasks ==
  /\ \A o \in Sells : IsPending(o) => SellingLot(o.env)
  /\ resolved # NoExit => /\ SellingLot(resolved.lot)
                          /\ \A o \in Sells : IsPending(o) => TokenOf[o.env] # TokenOf[resolved.lot]
ThrownByFaults == /\ result = "threw" => faults > 0
                  /\ resolved # NoExit /\ resolved.result = "threw" => faults > 0

TasksInv == /\ TaskTypes /\ ExitsHaveTasks /\ ThrownByFaults
            /\ OneExitPerPosition /\ NoStuckExit
-----------------------------------------------------------------------------
(* The ids: one buy of an envelope is pending at a time, because its id is   *)
(* known while it is; and while appends succeed, an envelope whose fill is   *)
(* among the rows that are read back is known.                               *)
OneBuyPending == \A o, p \in Buys : IsPending(o) /\ IsPending(p) /\ o.env = p.env => o = p
PendingKnown  == \A o \in Buys : IsPending(o) => o.env \in processedEnvIds
FillsKnown    == \A e \in Envs : FillInTail(e) => e \in processedEnvIds
NotYetFilled(o) ==
  outcome[o] = "waiting" \/ (o \in executing /\ (stage \in {"swap", "append"} \/ result # "sent"))

BuysInv == /\ OneBuyPending /\ PendingKnown
           /\ faults = 0 => /\ FillsKnown
                            /\ \A o \in Buys : NotYetFilled(o) => ~FillInTail(o.env)
-----------------------------------------------------------------------------
(* The wallet.  Answered: the swap of this order has been answered so.       *)
Answered(o, r) == o \in executing /\ stage \in {"append", "return"} /\ result = r
BuyFilled(l)  == \E o \in Buys : o.env = l /\ Answered(o, "sent")
SaleFilled(l) == \/ \E o \in Sells : o.env = l /\ Answered(o, "sent")
                 \/ resolved # NoExit /\ resolved.lot = l /\ resolved.result = "sent"
SaleAnswered(t) ==
  \/ \E o \in Sells, r \in Result \ {"bounced"} : TokenOf[o.env] = t /\ Answered(o, r)
  \/ resolved # NoExit /\ TokenOf[resolved.lot] = t /\ resolved.result # "bounced"

TracksLot(l) == positions[TokenOf[l]] # NoPosition /\ positions[TokenOf[l]].lot = l

SendsCounted ==
  /\ \A l \in held : sends[l] > 0
  /\ \A o \in Buys : o \in doubted \/ Answered(o, "sent") => sends[o.env] > 0
  /\ \A o \in Buys : Answered(o, "sent") => o.env \in held \/ InDoubt(TokenOf[o.env])

SentLots == \A t \in Tokens :
  /\ positions[t] # NoPosition => sends[positions[t].lot] > 0
  /\ monitor[t] # NoTask => sends[Snap(t).lot] > 0

HeldLots == \A l \in held :
  \/ InDoubt(TokenOf[l])
  \/ /\ OnlyLot(l) => TracksLot(l) \/ GivenUp(l) \/ BuyFilled(l) \/ l \in rests
     /\ SaleFilled(l) => l \in rests

LiveLots == \A t \in Tokens :
  \/ InDoubt(t)
  \/ /\ positions[t] # NoPosition => positions[t].lot \in held \/ monitor[t].step = "selling"
     /\ monitor[t] # NoTask => Snap(t).lot \in held \/ SaleAnswered(t)

LotsInv == /\ SendsCounted
           /\ crashes = 0 /\ faults = 0 => /\ SentLots /\ HeldLots
                                           /\ Modes = {"auto"} => LiveLots
(* What a partial take leaves of a position is offered only after the exit   *)
(* that took it has bounced: before, the position is marked.                 *)
TakesAt(t) == /\ positions[t] # NoPosition /\ positions[t].taken =>
                   positions[t].exitInFlight \/ ExitBounced(positions[t].lot)
              /\ monitor[t] # NoTask /\ ~monitor[t].whole => ExitBounced(Snap(t).lot)
              /\ monitor[t].step = "pricing" /\ Snap(t).taken => ~monitor[t].whole
TakesInv == faults = 0 => \A t \in Tokens : TakesAt(t)

(* So a sale leaves a rest of such a lot only, or of a surplus one.          *)
RestsInv == crashes = 0 /\ faults = 0 => \A l \in rests :
  OnlyLot(l) /\ ~InDoubt(TokenOf[l]) => l \in Surplus \/ ExitBounced(l)
-----------------------------------------------------------------------------
(* The journals, while every journaled order filled, no token was bought     *)
(* twice and a tail holds them: all rows and positions of a token are about  *)
(* one lot.                                                                  *)
HasRow(journal, kind, t) ==
  \E i \in 1..Len(journal) : journal[i].kind = kind /\ TokenOf[journal[i].lot] = t
Bought(t)  == HasRow(ordersJournal, "buy", t)
Sold(t)    == HasRow(ordersJournal, "sell", t)
OpenedRow(t) == HasRow(positionsJournal, "open", t)
ClosedRow(t) == HasRow(positionsJournal, "closed", t)

BuyReturns(t)  == \E o \in Buys : TokenOf[o.env] = t /\ o \in executing /\ stage = "return"
SaleReturns(t) == \/ \E o \in Sells : TokenOf[o.env] = t /\ o \in executing /\ stage = "return"
                  \/ resolved # NoExit /\ TokenOf[resolved.lot] = t

RowsSent == /\ \A i \in 1..Len(ordersJournal) : sends[ordersJournal[i].lot] > 0
            /\ \A i \in 1..Len(positionsJournal) : sends[positionsJournal[i].lot] > 0
BuyRowFirst == \A t \in Tokens : Sold(t) \/ OpenedRow(t) \/ ClosedRow(t) => Bought(t)
ClosedForGood == \A i, j \in 1..Len(positionsJournal) :
  i < j /\ positionsJournal[i].kind = "closed"
        /\ TokenOf[positionsJournal[i].lot] = TokenOf[positionsJournal[j].lot]
    => positionsJournal[j].kind = "closed"
TrackedRows == \A t \in Tokens : positions[t] # NoPosition =>
  Bought(t) /\ ~ClosedRow(t) /\ (Sold(t) => SaleReturns(t))
UntrackedRows == \A t \in Tokens : positions[t] = NoPosition /\ Bought(t) =>
  Sold(t) \/ ClosedRow(t) \/ BuyReturns(t)
NewRows == \A t \in Tokens : BuyReturns(t) =>
  Bought(t) /\ ~Sold(t) /\ ~ClosedRow(t) /\ positions[t] = NoPosition

(* The row of the order that submit returns from, or whose exit settled.     *)
RowWritten(side, l, r) == \E i \in 1..Len(ordersJournal) :
  ordersJournal[i] = [kind |-> side, lot |-> l, fill |-> r]
LastRow == /\ \A o \in executing : stage = "return" => RowWritten(o.side, o.env, result)
           /\ resolved # NoExit => RowWritten("sell", resolved.lot, resolved.result)

JournalsInv ==
  faults = 0 =>
    /\ LastRow
    /\ AllFilled /\ BoughtOnce /\ JournalsFitTail =>
         /\ RowsSent /\ SentLots /\ BuyRowFirst /\ ClosedForGood
         /\ TrackedRows /\ UntrackedRows /\ NewRows

ExecutorInv == /\ QueueInv /\ RestTypes /\ TasksInv /\ BuysInv
               /\ LotsInv /\ TakesInv /\ RestsInv /\ JournalsInv
-----------------------------------------------------------------------------
LEMMA ConstantFacts ==
  /\ TokenOf \in [Envs -> Tokens] /\ IsFiniteSet(Tokens) /\ IsFiniteSet(Inherited)
  /\ Inherited \in SUBSET Envs /\ Modes \in SUBSET {"notify_only", "paper", "auto"} /\ Modes # {}
  /\ BounceLimit \in Nat \ {0} /\ MaxOpenPositions \in Nat /\ MaxCopies \in Nat /\ MaxFaults \in Nat
  /\ TailRows \in Nat \ {0} /\ Cardinality(Inherited) <= TailRows
BY ExecutorAssumption

LEMMA NoRecord == NoPosition \notin Position /\ NoTask \notin Task
                  /\ NoExit \notin [lot : Envs, result : Result]
PROOF
  <1>1. NoPosition \notin Position
    BY DEF NoPosition, Position
  <1>2. NoTask \notin Task
    BY DEF NoTask, Task
  <1>3. NoExit \notin [lot : Envs, result : Result]
    BY DEF NoExit
  <1>4. QED
    BY <1>1, <1>2, <1>3

LEMMA OrderFields ==
  ASSUME NEW o \in Order
  PROVE  /\ o.side \in {"buy", "sell"} /\ o.env \in Envs /\ TokenOf[o.env] \in Tokens
         /\ o \in Sells <=> o.side = "sell"
         /\ o \in Buys <=> o.side = "buy"
BY ConstantFacts DEF Order, Sells, Buys

(* newId gives an order that is new. *)
LEMMA FreshOrderIsNew ==
  ASSUME NEW side, NEW e, CanIssue(side, e)
  PROVE  LET o == FreshOrder(side, e)
         IN o \in Order /\ o.side = side /\ o.env = e /\ outcome[o] = "new"
BY DEF CanIssue, FreshOrder
-----------------------------------------------------------------------------
(* What push and shift do to a queue.                                        *)
LEMMA UniqueAppend ==
  ASSUME NEW S, NEW s \in Seq(S), NEW e \in S, Unique(s), \A i \in 1..Len(s) : s[i] # e
  PROVE  /\ Append(s, e) \in Seq(S) /\ Unique(Append(s, e))
         /\ \A i \in 1..Len(Append(s, e)) :
              Append(s, e)[i] = e \/ \E j \in 1..Len(s) : Append(s, e)[i] = s[j]
PROOF
  <1> DEFINE t == Append(s, e)
  <1>1. /\ Len(s) \in Nat /\ t \in Seq(S) /\ Len(t) = Len(s) + 1
        /\ \A i \in 1..Len(s) : t[i] = s[i]
        /\ t[Len(s) + 1] = e
    OBVIOUS
  <1> HIDE DEF t
  <1>2. \A i \in 1..Len(t) : i \in 1..Len(s) \/ i = Len(s) + 1
    BY <1>1
  <1>3. Unique(t)
    BY <1>1, <1>2 DEF Unique
  <1>4. \A i \in 1..Len(t) : t[i] = e \/ \E j \in 1..Len(s) : t[i] = s[j]
    BY <1>1, <1>2
  <1>5. QED
    BY <1>1, <1>3, <1>4 DEF t

LEMMA UniqueTail ==
  ASSUME NEW S, NEW s \in Seq(S), s # <<>>, Unique(s)
  PROVE  /\ Tail(s) \in Seq(S) /\ Head(s) \in S /\ Unique(Tail(s))
         /\ \E j \in 1..Len(s) : Head(s) = s[j]
         /\ \A i \in 1..Len(Tail(s)) :
              Tail(s)[i] # Head(s) /\ \E j \in 1..Len(s) : Tail(s)[i] = s[j]
PROOF
  <1> DEFINE t == Tail(s)
  <1>1. /\ Len(s) \in Nat \ {0} /\ t \in Seq(S) /\ Len(t) = Len(s) - 1
        /\ \A i \in 1..Len(t) : t[i] = s[i + 1]
        /\ Head(s) = s[1] /\ Head(s) \in S
    OBVIOUS
  <1> HIDE DEF t
  <1>2. \A i \in 1..Len(t) : i + 1 \in 1..Len(s) /\ i + 1 # 1 /\ 1 \in 1..Len(s)
    BY <1>1
  <1>3. Unique(t)
    <2> SUFFICES ASSUME NEW i \in 1..Len(t), NEW j \in 1..Len(t), t[i] = t[j] PROVE i = j
      BY DEF Unique
    <2>1. i + 1 = j + 1
      BY <1>1, <1>2 DEF Unique
    <2>2. QED
      BY <1>1, <2>1
  <1>4. \A i \in 1..Len(t) : t[i] # Head(s) /\ \E j \in 1..Len(s) : t[i] = s[j]
    BY <1>1, <1>2 DEF Unique
  <1>5. 1 \in 1..Len(s)
    BY <1>1
  <1>6. QED
    BY <1>1, <1>3, <1>4, <1>5 DEF t
-----------------------------------------------------------------------------
(* The queue, operation by operation.  A queue keeps its orders waiting when *)
(* the outcomes that change are of others.                                   *)
LEMMA WakeupsCount == OrderQ!Scheduled(isProcessing) \in Nat
BY DEF OrderQ!Scheduled

LEMMA EnqueueKeepsQueue ==
  ASSUME QueueInv, NEW o \in Order, OrderQ!Enqueue(o), UNCHANGED submitVars
  PROVE  QueueInv'
PROOF
  <1>1. /\ outcome[o] = "new" /\ outcome' = [outcome EXCEPT ![o] = "waiting"]
        /\ UNCHANGED <<isProcessing, isRunning, executing>>
        /\ wakeups' = wakeups + OrderQ!Scheduled(isProcessing)
    BY DEF OrderQ!Enqueue
  <1>2. wakeups' \in Nat
    BY <1>1, WakeupsCount DEF QueueInv, QueuesWait, SubmitHolds
  <1>3. /\ outcome' \in [Order -> OrderQ!Outcome] /\ outcome'[o] = "waiting"
        /\ \A p \in Order : p # o => outcome'[p] = outcome[p]
    BY <1>1 DEF QueueInv, QueuesWait, SubmitHolds, OrderQ!Outcome
  <1>4. /\ \A i \in 1..Len(highQueue) : highQueue[i] \in Order /\ highQueue[i] # o
        /\ \A i \in 1..Len(normalQueue) : normalQueue[i] \in Order /\ normalQueue[i] # o
        /\ \A p \in executing : p \in Order /\ p # o
    BY <1>1 DEF QueueInv, QueuesWait, SubmitHolds, Sells, Buys
  <1>5. /\ SubmitHolds'
        /\ \A i \in 1..Len(highQueue) : outcome'[highQueue[i]] = "waiting"
        /\ \A i \in 1..Len(normalQueue) : outcome'[normalQueue[i]] = "waiting"
    <2>1. SubmitHolds'
      BY <1>1, <1>2, <1>3, <1>4 DEF QueueInv, SubmitHolds, submitVars
    <2>2. QED
      BY <1>3, <1>4, <2>1 DEF QueueInv, QueuesWait
  <1>6. CASE o \in Sells
    <2>1. highQueue' = Append(highQueue, o) /\ normalQueue' = normalQueue
      BY <1>6 DEF OrderQ!Enqueue
    <2>2. highQueue \in Seq(Sells) /\ Unique(highQueue) /\ \A i \in 1..Len(highQueue) : highQueue[i] # o
      BY <1>4 DEF QueueInv, QueuesWait
    <2>3. /\ highQueue' \in Seq(Sells) /\ Unique(highQueue')
          /\ \A i \in 1..Len(highQueue') :
               highQueue'[i] = o \/ \E j \in 1..Len(highQueue) : highQueue'[i] = highQueue[j]
      BY <1>6, <2>1, <2>2, UniqueAppend
    <2>4. \A i \in 1..Len(highQueue') : outcome'[highQueue'[i]] = "waiting"
      BY <1>3, <1>5, <2>3
    <2>5. \A i \in 1..Len(normalQueue') : outcome'[normalQueue'[i]] = "waiting"
      BY <1>5, <2>1
    <2>6. QED
      BY <1>3, <1>5, <2>1, <2>3, <2>4, <2>5 DEF QueueInv, QueuesWait, Unique
  <1>7. CASE o \notin Sells
    <2>1. normalQueue' = Append(normalQueue, o) /\ highQueue' = highQueue /\ o \in Buys
      BY <1>7 DEF OrderQ!Enqueue, Buys
    <2>2. /\ normalQueue \in Seq(Buys) /\ Unique(normalQueue)
          /\ \A i \in 1..Len(normalQueue) : normalQueue[i] # o
      BY <1>4 DEF QueueInv, QueuesWait
    <2>3. /\ normalQueue' \in Seq(Buys) /\ Unique(normalQueue')
          /\ \A i \in 1..Len(normalQueue') :
               normalQueue'[i] = o \/ \E j \in 1..Len(normalQueue) : normalQueue'[i] = normalQueue[j]
      BY <2>1, <2>2, UniqueAppend
    <2>4. \A i \in 1..Len(normalQueue') : outcome'[normalQueue'[i]] = "waiting"
      BY <1>3, <1>5, <2>3
    <2>5. \A i \in 1..Len(highQueue') : outcome'[highQueue'[i]] = "waiting"
      BY <1>5, <2>1
    <2>6. QED
      BY <1>3, <1>5, <2>1, <2>3, <2>4, <2>5 DEF QueueInv, QueuesWait, Unique
  <1>8. QED
    BY <1>6, <1>7

LEMMA NotifyKeepsQueue ==
  ASSUME QueueInv, OrderQ!NotifySlotAvailable \/ UNCHANGED qvars,
         UNCHANGED <<stage, result>>, resolved' \in {resolved, NoExit}
  PROVE  QueueInv' /\ UNCHANGED <<outcome, executing>>
PROOF
  <1>1. wakeups' \in Nat
    BY WakeupsCount DEF OrderQ!NotifySlotAvailable, QueueInv, QueuesWait, SubmitHolds, qvars
  <1>2. UNCHANGED <<highQueue, normalQueue, isProcessing, isRunning, executing, outcome>>
    BY DEF OrderQ!NotifySlotAvailable, qvars
  <1>3. QueuesWait'
    BY <1>2 DEF QueueInv, QueuesWait, Unique
  <1>4. SubmitHolds'
    BY <1>1, <1>2 DEF QueueInv, SubmitHolds
  <1>5. QED
    BY <1>2, <1>3, <1>4 DEF QueueInv

LEMMA StopKeepsQueue ==
  ASSUME QueueInv, OrderQ!Stop, UNCHANGED submitVars
  PROVE  QueueInv'
PROOF
  <1>1. QueuesWait'
    BY DEF OrderQ!Stop, QueueInv, QueuesWait, Unique
  <1>2. SubmitHolds'
    BY DEF OrderQ!Stop, submitVars, QueueInv, SubmitHolds
  <1>3. QED
    BY <1>1, <1>2 DEF QueueInv

(* What a dispatch takes: the head of the exits, or of the buys when no exit *)
(* waits and a slot is free.                                                 *)
Dispatches(o) ==
  /\ o \in Order /\ outcome[o] = "waiting" /\ executing = {} /\ isRunning
  /\ executing' = {o} /\ isProcessing' = TRUE /\ stage' = "swap"
  /\ outcome' = [outcome EXCEPT ![o] = "executing"]
  /\ UNCHANGED <<isRunning, result, resolved>>

LEMMA WorkerDispatches ==
  ASSUME QueueInv, Worker
  PROVE  /\ resolved = NoExit
         /\ QueueInv'
         /\ \/ \E o \in Order : Dispatches(o)
            \/ UNCHANGED <<executing, outcome, stage, result, resolved>>
PROOF
  <1>1. /\ wakeups' \in Nat /\ UNCHANGED <<isRunning, result, resolved>> /\ resolved = NoExit
        /\ stage' = IF executing' = executing THEN stage ELSE "swap"
    BY DEF Worker, OrderQ!ProcessNext, QueueInv, QueuesWait, SubmitHolds, Idle
  <1>2. CASE OrderQ!DispatchExit
    <2> DEFINE o == Head(highQueue)
    <2>1. /\ highQueue # <<>> /\ highQueue' = Tail(highQueue) /\ normalQueue' = normalQueue
          /\ isRunning /\ ~isProcessing /\ isProcessing' = TRUE
          /\ executing' = executing \cup {o} /\ outcome' = [outcome EXCEPT ![o] = "executing"]
      BY <1>2 DEF OrderQ!DispatchExit, OrderQ!Take
    <2>2. /\ highQueue' \in Seq(Sells) /\ o \in Sells /\ Unique(highQueue')
          /\ \E j \in 1..Len(highQueue) : o = highQueue[j]
          /\ \A i \in 1..Len(highQueue') :
               highQueue'[i] # o /\ \E j \in 1..Len(highQueue) : highQueue'[i] = highQueue[j]
      BY <2>1, UniqueTail DEF QueueInv, QueuesWait, SubmitHolds
    <2> HIDE DEF o
    <2>3. executing = {} /\ executing' = {o} /\ stage' = "swap"
      BY <1>1, <2>1 DEF QueueInv, QueuesWait, SubmitHolds
    <2>4. o \in Order /\ outcome[o] = "waiting"
      BY <2>2 DEF QueueInv, QueuesWait, SubmitHolds, Sells
    <2>5. /\ outcome' \in [Order -> OrderQ!Outcome] /\ outcome'[o] = "executing"
          /\ \A p \in Order : p # o => outcome'[p] = outcome[p]
      BY <2>1, <2>4 DEF QueueInv, QueuesWait, SubmitHolds, OrderQ!Outcome
    <2>6. \A i \in 1..Len(highQueue) : highQueue[i] \in Order
      BY DEF QueueInv, QueuesWait, SubmitHolds, Sells
    <2>7. \A i \in 1..Len(highQueue') : outcome'[highQueue'[i]] = "waiting"
      BY <2>2, <2>5, <2>6 DEF QueueInv, QueuesWait, SubmitHolds
    <2>8. \A i \in 1..Len(normalQueue) : normalQueue[i] \in Buys /\ normalQueue[i] # o
      BY <2>2 DEF QueueInv, QueuesWait, SubmitHolds, Buys
    <2>9. \A i \in 1..Len(normalQueue') : outcome'[normalQueue'[i]] = "waiting"
      BY <2>1, <2>5, <2>8 DEF QueueInv, QueuesWait, SubmitHolds, Buys
    <2>10. Dispatches(o)
      BY <1>1, <2>1, <2>3, <2>4 DEF Dispatches
    <2>11. QueuesWait'
      BY <2>1, <2>2, <2>5, <2>7, <2>9 DEF QueueInv, QueuesWait, Unique
    <2>12. SubmitHolds'
      BY <1>1, <2>1, <2>3, <2>4, <2>5 DEF QueueInv, SubmitHolds
    <2>13. QED
      BY <1>1, <2>4, <2>10, <2>11, <2>12 DEF QueueInv
  <1>3. CASE OrderQ!DispatchBuy
    <2> DEFINE o == Head(normalQueue)
    <2>1. /\ normalQueue # <<>> /\ normalQueue' = Tail(normalQueue) /\ highQueue' = highQueue
          /\ isRunning /\ ~isProcessing /\ isProcessing' = TRUE
          /\ executing' = executing \cup {o} /\ outcome' = [outcome EXCEPT ![o] = "executing"]
      BY <1>3 DEF OrderQ!DispatchBuy, OrderQ!Take
    <2>2. /\ normalQueue' \in Seq(Buys) /\ o \in Buys /\ Unique(normalQueue')
          /\ \E j \in 1..Len(normalQueue) : o = normalQueue[j]
          /\ \A i \in 1..Len(normalQueue') :
               normalQueue'[i] # o /\ \E j \in 1..Len(normalQueue) : normalQueue'[i] = normalQueue[j]
      BY <2>1, UniqueTail DEF QueueInv, QueuesWait, SubmitHolds
    <2> HIDE DEF o
    <2>3. executing = {} /\ executing' = {o} /\ stage' = "swap"
      BY <1>1, <2>1 DEF QueueInv, QueuesWait, SubmitHolds
    <2>4. o \in Order /\ outcome[o] = "waiting"
      BY <2>2 DEF QueueInv, QueuesWait, SubmitHolds, Buys
    <2>5. /\ outcome' \in [Order -> OrderQ!Outcome] /\ outcome'[o] = "executing"
          /\ \A p \in Order : p # o => outcome'[p] = outcome[p]
      BY <2>1, <2>4 DEF QueueInv, QueuesWait, SubmitHolds, OrderQ!Outcome
    <2>6. \A i \in 1..Len(normalQueue) : normalQueue[i] \in Order
      BY DEF QueueInv, QueuesWait, SubmitHolds, Buys
    <2>7. \A i \in 1..Len(normalQueue') : outcome'[normalQueue'[i]] = "waiting"
      BY <2>2, <2>5, <2>6 DEF QueueInv, QueuesWait, SubmitHolds
    <2>8. \A i \in 1..Len(highQueue) : highQueue[i] \in Sells /\ highQueue[i] # o
      BY <2>2 DEF QueueInv, QueuesWait, SubmitHolds, Buys
    <2>9. \A i \in 1..Len(highQueue') : outcome'[highQueue'[i]] = "waiting"
      BY <2>1, <2>5, <2>8 DEF QueueInv, QueuesWait, SubmitHolds, Sells
    <2>10. Dispatches(o)
      BY <1>1, <2>1, <2>3, <2>4 DEF Dispatches
    <2>11. QueuesWait'
      BY <2>1, <2>2, <2>5, <2>7, <2>9 DEF QueueInv, QueuesWait, Unique
    <2>12. SubmitHolds'
      BY <1>1, <2>1, <2>3, <2>4, <2>5 DEF QueueInv, SubmitHolds
    <2>13. QED
      BY <1>1, <2>4, <2>10, <2>11, <2>12 DEF QueueInv
  <1>4. CASE OrderQ!NothingToDispatch
    <2>1. UNCHANGED <<highQueue, normalQueue, isProcessing, executing, outcome, stage, result, resolved>>
      BY <1>1, <1>4 DEF OrderQ!NothingToDispatch
    <2>2. QueuesWait'
      BY <2>1 DEF QueueInv, QueuesWait, Unique
    <2>3. SubmitHolds'
      BY <1>1, <2>1 DEF QueueInv, SubmitHolds
    <2>4. QED
      BY <1>1, <2>1, <2>2, <2>3 DEF QueueInv
  <1>5. QED
    BY <1>2, <1>3, <1>4 DEF Worker, OrderQ!ProcessNext

(* An order that settles leaves submit idle. *)
LEMMA SettleKeepsQueue ==
  ASSUME QueueInv, NEW o \in Order, NEW r \in {"resolved", "rejected"},
         OrderQ!SubmitSettles(o, r), stage' = "idle", result' = "none",
         resolved' \in {resolved, [lot |-> o.env, result |-> result]}
  PROVE  /\ QueueInv' /\ executing = {o} /\ executing' = {}
         /\ outcome[o] = "executing" /\ outcome' = [outcome EXCEPT ![o] = r]
PROOF
  <1>1. /\ o \in executing /\ executing' = executing \ {o} /\ isProcessing' = FALSE
        /\ outcome' = [outcome EXCEPT ![o] = r]
        /\ UNCHANGED <<highQueue, normalQueue, isRunning>>
    BY DEF OrderQ!SubmitSettles
  <1>2. executing = {o} /\ executing' = {} /\ outcome[o] = "executing" /\ resolved = NoExit
    BY <1>1 DEF QueueInv, QueuesWait, SubmitHolds
  <1>3. wakeups' \in Nat
    <2>1. wakeups' = wakeups \/ wakeups' = wakeups + 1
      BY DEF OrderQ!SubmitSettles, OrderQ!Scheduled, QueueInv, SubmitHolds
    <2>2. wakeups \in Nat
      BY DEF QueueInv, SubmitHolds
    <2>3. QED
      BY <2>1, <2>2
  <1>4. /\ outcome' \in [Order -> OrderQ!Outcome]
        /\ \A p \in Order : p # o => outcome'[p] = outcome[p]
    BY <1>1 DEF QueueInv, QueuesWait, SubmitHolds, OrderQ!Outcome
  <1>5. /\ \A i \in 1..Len(highQueue) : highQueue[i] \in Order /\ highQueue[i] # o
        /\ \A i \in 1..Len(normalQueue) : normalQueue[i] \in Order /\ normalQueue[i] # o
    BY <1>2 DEF QueueInv, QueuesWait, SubmitHolds, Sells, Buys
  <1>6. /\ \A i \in 1..Len(highQueue) : outcome'[highQueue[i]] = "waiting"
        /\ \A i \in 1..Len(normalQueue) : outcome'[normalQueue[i]] = "waiting"
    BY <1>4, <1>5 DEF QueueInv, QueuesWait, SubmitHolds
  <1>7. resolved' # NoExit => resolved' \in [lot : Envs, result : Result]
    BY <1>2, OrderFields DEF QueueInv, QueuesWait, SubmitHolds
  <1>8. QueuesWait'
    BY <1>1, <1>4, <1>6 DEF QueueInv, QueuesWait, Unique
  <1>9. SubmitHolds'
    BY <1>1, <1>2, <1>3, <1>7 DEF QueueInv, SubmitHolds, Result
  <1>10. QED
    BY <1>1, <1>2, <1>8, <1>9 DEF QueueInv

LEMMA RestartKeepsQueue ==
  ASSUME QueueInv, Restart
  PROVE  QueueInv' /\ executing' = {} /\ \A o \in Order : ~IsPending(o)'
PROOF
  <1>1. /\ highQueue' = <<>> /\ normalQueue' = <<>> /\ isProcessing' = FALSE /\ isRunning' = TRUE
        /\ wakeups' = 0 /\ executing' = {} /\ stage' = "idle" /\ result' = "none" /\ resolved' = NoExit
        /\ outcome' = [o \in Order |->
             IF outcome[o] \in {"waiting", "executing"} THEN "lost" ELSE outcome[o]]
    BY DEF Restart, OrderQ!QueueRestart
  <1>2. highQueue' \in Seq(Sells) /\ normalQueue' \in Seq(Buys)
    BY <1>1
  <1>3. outcome' \in [Order -> OrderQ!Outcome] /\ \A o \in Order : outcome'[o] \notin Pending
    BY <1>1 DEF QueueInv, QueuesWait, SubmitHolds, OrderQ!Outcome, Pending
  <1>4. QueuesWait'
    BY <1>1, <1>2, <1>3 DEF QueuesWait, Unique
  <1>5. SubmitHolds'
    BY <1>1 DEF SubmitHolds, Result
  <1>6. QED
    BY <1>1, <1>3, <1>4, <1>5 DEF QueueInv, IsPending
-----------------------------------------------------------------------------
(* What the start of runContinuousExecutor makes of the journals.            *)

(* The last and the first element of a filtered list.                        *)
LEMMA EndsOfSubsequence ==
  ASSUME NEW S, NEW s \in Seq(S), NEW I \in SUBSET (1..Len(s))
  PROVE  LET sub == Subsequence(s, I)
         IN /\ sub = <<>> <=> I = {}
            /\ I # {} => /\ \E m \in I : sub[Len(sub)] = s[m] /\ \A i \in I : i <= m
                         /\ \E m \in I : sub[1] = s[m]
PROOF
  <1> DEFINE sub == Subsequence(s, I)
  <1>1. sub \in Seq(S) /\ Len(sub) = Cardinality(I) /\ \E at : Places(at, s, I)
    BY SubsequenceFacts
  <1>2. PICK at : Places(at, s, I)
    BY <1>1
  <1>3. /\ at \in [1..Len(sub) -> I]
        /\ \A k \in 1..Len(sub) : sub[k] = s[at[k]]
        /\ \A k, l \in 1..Len(sub) : k < l => at[k] < at[l]
        /\ \A i \in I : \E k \in 1..Len(sub) : at[k] = i
    BY <1>2 DEF Places
  <1> HIDE DEF sub
  <1>4. Len(sub) \in Nat /\ (sub = <<>> <=> Len(sub) = 0)
    BY <1>1
  <1>5. sub = <<>> => I = {}
    BY <1>3, <1>4
  <1>6. I # {} => sub # <<>>
    BY <1>5
  <1>7. ASSUME I # {}
        PROVE  /\ \E m \in I : sub[Len(sub)] = s[m] /\ \A i \in I : i <= m
               /\ \E m \in I : sub[1] = s[m]
    <2>1. PICK i \in I : TRUE
      BY <1>7
    <2>2. Len(sub) # 0
      BY <1>3, <1>4, <2>1
    <2>3. Len(sub) \in 1..Len(sub) /\ 1 \in 1..Len(sub)
      BY <1>4, <2>2
    <2>4. \A j \in I : j <= at[Len(sub)]
      <3> SUFFICES ASSUME NEW j \in I PROVE j <= at[Len(sub)]
        OBVIOUS
      <3>1. PICK k \in 1..Len(sub) : at[k] = j
        BY <1>3
      <3>2. k = Len(sub) \/ k < Len(sub)
        BY <1>4, <3>1
      <3>3. j \in Nat /\ at[Len(sub)] \in Nat
        <4>1. at[Len(sub)] \in I
          BY <1>3, <2>3
        <4>2. I \in SUBSET Nat
          OBVIOUS
        <4>3. QED
          BY <4>1, <4>2
      <3>4. QED
        BY <1>3, <2>3, <3>1, <3>2, <3>3
    <2>5. QED
      BY <1>3, <2>3, <2>4
  <1>8. I = {} => sub = <<>>
    <2>1. SUFFICES ASSUME I = {} PROVE sub = <<>>
      OBVIOUS
    <2>2. Cardinality(I) = 0
      BY <2>1, FS_EmptySet
    <2>3. QED
      BY <1>1, <1>4, <2>2 DEF sub
  <1>9. QED
    BY <1>5, <1>7, <1>8 DEF sub

JournalTypes == ordersJournal \in Seq(OrderRow) /\ positionsJournal \in Seq(PositionRow)

(* The tail that readJournal returns, and what an append does to it.         *)
LEMMA TailFacts ==
  ASSUME NEW S, NEW file \in Seq(S)
  PROVE  LET rows == readJournal(file)
         IN  /\ rows \in Seq(S)
             /\ Len(file) <= TailRows => rows = file
             /\ Len(file) > TailRows =>
                  /\ Len(rows) = TailRows
                  /\ \A i \in 1..TailRows : rows[i] = file[Len(file) - TailRows + i]
PROOF
  <1> DEFINE n == Len(file) - TailRows
  <1>1. Len(file) \in Nat /\ TailRows \in Nat
    BY ConstantFacts
  <1>2. CASE Len(file) <= TailRows
    BY <1>1, <1>2 DEF readJournal
  <1>3. CASE ~(Len(file) <= TailRows)
    <2>1. readJournal(file) = SubSeq(file, n + 1, Len(file))
      BY <1>3 DEF readJournal
    <2>2. n \in Nat /\ Len(file) - n = TailRows
      BY <1>1, <1>3
    <2> HIDE DEF n
    <2>3. /\ readJournal(file) \in Seq(S) /\ Len(readJournal(file)) = Len(file) - n
          /\ \A i \in 1..Len(file) - n : readJournal(file)[i] = file[n + i]
      BY <1>1, <2>1, <2>2
    <2>4. QED
      BY <1>1, <1>3, <2>2, <2>3 DEF n
  <1>4. QED
    BY <1>2, <1>3

LEMMA TailAppended ==
  ASSUME NEW S, NEW file \in Seq(S), NEW row \in S
  PROVE  LET old == readJournal(file)
             new == readJournal(Append(file, row))
         IN  \A i \in 1..Len(new) : new[i] = row \/ \E j \in 1..Len(old) : new[i] = old[j]
PROOF
  <1> DEFINE old  == readJournal(file)
             more == Append(file, row)
             new  == readJournal(more)
  <1>1. /\ Len(file) \in Nat /\ TailRows \in Nat \ {0} /\ more \in Seq(S) /\ Len(more) = Len(file) + 1
        /\ more[Len(file) + 1] = row /\ \A i \in 1..Len(file) : more[i] = file[i]
    BY ConstantFacts
  <1> HIDE DEF more
  <1>2. /\ Len(file) <= TailRows => old = file
        /\ Len(file) > TailRows =>
             Len(old) = TailRows /\ \A i \in 1..TailRows : old[i] = file[Len(file) - TailRows + i]
    BY TailFacts
  <1>3. /\ Len(more) <= TailRows => new = more
        /\ Len(more) > TailRows =>
             Len(new) = TailRows /\ \A i \in 1..TailRows : new[i] = more[Len(more) - TailRows + i]
    BY <1>1, TailFacts
  <1> HIDE DEF old, new
  <1>4. CASE Len(more) <= TailRows
    <2>1. new = more /\ old = file
      BY <1>1, <1>2, <1>3, <1>4
    <2>2. \A i \in 1..Len(more) : i \in 1..Len(file) \/ i = Len(file) + 1
      BY <1>1
    <2>3. \A i \in 1..Len(new) : new[i] = row \/ \E j \in 1..Len(old) : new[i] = old[j]
      BY <1>1, <2>1, <2>2
    <2>4. QED
      BY <2>3 DEF old, new, more
  <1>5. CASE ~(Len(more) <= TailRows)
    <2>1. /\ Len(new) = TailRows /\ Len(old) = TailRows
          /\ \A i \in 1..TailRows : new[i] = more[Len(file) + 1 - TailRows + i]
      BY <1>1, <1>2, <1>3, <1>5
    <2>2. \A i \in 1..TailRows : old[i] = file[Len(file) - TailRows + i]
      BY <1>1, <1>2, <1>5
    <2>3. SUFFICES ASSUME NEW i \in 1..TailRows PROVE new[i] = row \/ \E j \in 1..TailRows : new[i] = old[j]
      BY <2>1 DEF old, new, more
    <2>4. CASE i = TailRows
      <3>1. Len(file) + 1 - TailRows + i = Len(file) + 1
        BY <1>1, <2>4
      <3>2. QED
        BY <1>1, <2>1, <3>1
    <2>5. CASE i # TailRows
      <3>0. Len(file) \in Nat /\ TailRows \in Nat /\ i \in Nat /\ i < TailRows /\ TailRows <= Len(file)
        BY <1>1, <1>5, <2>5
      <3>1. /\ i + 1 \in 1..TailRows
            /\ Len(file) + 1 - TailRows + i = Len(file) - TailRows + (i + 1)
            /\ Len(file) + 1 - TailRows + i \in 1..Len(file)
        BY <3>0
      <3>2. new[i] = more[Len(file) - TailRows + (i + 1)]
        BY <2>1, <3>1
      <3>3. more[Len(file) - TailRows + (i + 1)] = file[Len(file) - TailRows + (i + 1)]
        BY <1>1, <3>1
      <3>4. old[i + 1] = file[Len(file) - TailRows + (i + 1)]
        BY <2>2, <3>1
      <3>5. QED
        BY <3>1, <3>2, <3>3, <3>4
    <2>6. QED
      BY <2>4, <2>5
  <1>6. QED
    BY <1>4, <1>5

(* The last row of a token among some rows, if it opens a position.          *)
LastOpensIn(rows, t, m) ==
  /\ m \in 1..Len(rows) /\ TokenOf[rows[m].lot] = t /\ rows[m].kind = "open"
  /\ \A i \in 1..Len(rows) : TokenOf[rows[i].lot] = t => i <= m
OpenIn(rows, t, l) == \E m \in 1..Len(rows) : LastOpensIn(rows, t, m) /\ rows[m].lot = l
BuyIn(rows, l)     == \E i \in 1..Len(rows) : IsBuy(rows[i]) /\ rows[i].lot = l

LastOpens(t, m) == LastOpensIn(positionsJournal, t, m)
OpenOf(t, l)    == OpenIn(positionsJournal, t, l)
BuyOf(l)        == BuyIn(ordersJournal, l)

LEMMA OpenInJournal ==
  ASSUME JournalTypes, NEW t \in Tokens
  PROVE  LET rows == readJournal(positionsJournal)
         IN /\ OpenInPositionsJournal(t) => OpenIn(rows, t, LastOpened(t))
            /\ ~OpenInPositionsJournal(t) => \A m \in 1..Len(rows) : ~LastOpensIn(rows, t, m)
PROOF
  <1> DEFINE rows == readJournal(positionsJournal)
             I    == {i \in 1..Len(rows) : TokenOf[rows[i].lot] = t}
             sub  == RowsOf(t)
  <1>1. rows \in Seq(PositionRow) /\ I \in SUBSET (1..Len(rows))
    BY TailFacts DEF JournalTypes
  <1>2. sub = Subsequence(rows, I)
    BY DEF RowsOf, RowsWith
  <1>3. /\ sub = <<>> <=> I = {}
        /\ I # {} => \E m \in I : sub[Len(sub)] = rows[m] /\ \A i \in I : i <= m
    <2> HIDE DEF I, sub, rows
    <2>1. QED
      BY <1>1, <1>2, EndsOfSubsequence
  <1>4. /\ OpenInPositionsJournal(t) <=> sub # <<>> /\ IsOpen(sub[Len(sub)])
        /\ LastOpened(t) = sub[Len(sub)].lot
    BY DEF OpenInPositionsJournal, LastOpened
  <1> HIDE DEF sub, rows
  <1>5. ASSUME OpenInPositionsJournal(t) PROVE OpenIn(rows, t, LastOpened(t))
    <2>1. PICK m \in I : sub[Len(sub)] = rows[m] /\ \A i \in I : i <= m
      BY <1>3, <1>4, <1>5
    <2>2. LastOpensIn(rows, t, m) /\ m \in 1..Len(rows)
      BY <1>4, <1>5, <2>1 DEF LastOpensIn, IsOpen
    <2>3. QED
      BY <1>4, <2>1, <2>2 DEF OpenIn
  <1>6. ASSUME NEW m \in 1..Len(rows), LastOpensIn(rows, t, m) PROVE OpenInPositionsJournal(t)
    <2>1. m \in I /\ \A i \in I : i <= m
      BY <1>6 DEF LastOpensIn
    <2>2. PICK n \in I : sub[Len(sub)] = rows[n] /\ \A i \in I : i <= n
      BY <1>3, <2>1
    <2>3. n = m
      BY <2>1, <2>2
    <2>4. QED
      BY <1>3, <1>4, <1>6, <2>1, <2>2, <2>3 DEF LastOpensIn, IsOpen
  <1>7. QED
    BY <1>5, <1>6 DEF rows

LEMMA BuysInJournal ==
  ASSUME JournalTypes, NEW t \in Tokens
  PROVE  LET orders == readJournal(ordersJournal)
         IN /\ BuysOf(t) # <<>> <=> HasRow(orders, "buy", t)
            /\ BuysOf(t) # <<>> => BuyIn(orders, BuysOf(t)[1].lot) /\ TokenOf[BuysOf(t)[1].lot] = t
PROOF
  <1> DEFINE orders == readJournal(ordersJournal)
             I == {i \in 1..Len(orders) : IsBuy(orders[i]) /\ TokenOf[orders[i].lot] = t}
  <1>1. orders \in Seq(OrderRow) /\ I \in SUBSET (1..Len(orders))
    BY TailFacts DEF JournalTypes
  <1>2. BuysOf(t) = Subsequence(orders, I)
    BY DEF BuysOf, RowsWith
  <1>3. /\ BuysOf(t) = <<>> <=> I = {}
        /\ I # {} => \E m \in I : BuysOf(t)[1] = orders[m]
    <2> HIDE DEF I, orders
    <2>1. QED
      BY <1>1, <1>2, EndsOfSubsequence
  <1> HIDE DEF orders
  <1>4. I # {} <=> HasRow(orders, "buy", t)
    BY DEF HasRow, IsBuy
  <1>5. BuysOf(t) # <<>> => BuyIn(orders, BuysOf(t)[1].lot) /\ TokenOf[BuysOf(t)[1].lot] = t
    BY <1>3 DEF BuyIn
  <1>6. QED
    BY <1>3, <1>4, <1>5 DEF orders

LEMMA EnvIdsAreEnvs == JournalTypes => EnvIdsInOrders \in SUBSET Envs
PROOF
  <1> SUFFICES ASSUME JournalTypes PROVE EnvIdsInOrders \in SUBSET Envs
    OBVIOUS
  <1> DEFINE orders == readJournal(ordersJournal)
  <1>1. orders \in Seq(OrderRow)
    BY TailFacts DEF JournalTypes
  <1>2. EnvIdsInOrders = {orders[i].lot : i \in {j \in 1..Len(orders) : IsBuy(orders[j])}}
    BY DEF EnvIdsInOrders
  <1> HIDE DEF orders
  <1>3. \A i \in 1..Len(orders) : orders[i] \in OrderRow
    BY <1>1
  <1>4. QED
    BY <1>2, <1>3 DEF OrderRow

(* An envelope whose fill is in the tail is one of the ids rebuilt from it.  *)
LEMMA TailFillsKnown == \A e \in Envs : FillInTail(e) => e \in EnvIdsInOrders
PROOF
  <1> SUFFICES ASSUME NEW e \in Envs, FillInTail(e) PROVE e \in EnvIdsInOrders
    OBVIOUS
  <1> DEFINE orders == readJournal(ordersJournal)
  <1>1. /\ EnvIdsInOrders = {orders[i].lot : i \in {j \in 1..Len(orders) : IsBuy(orders[j])}}
        /\ \E i \in 1..Len(orders) : orders[i] = [kind |-> "buy", lot |-> e, fill |-> "sent"]
    BY DEF EnvIdsInOrders, FillInTail, Shows
  <1> HIDE DEF orders
  <1>2. PICK i \in 1..Len(orders) : orders[i] = [kind |-> "buy", lot |-> e, fill |-> "sent"]
    BY <1>1
  <1>3. orders[i].kind = "buy" /\ orders[i].lot = e
    BY <1>2
  <1>4. QED
    BY <1>1, <1>3 DEF IsBuy

LEMMA SoldAndClosed ==
  ASSUME NEW t \in Tokens
  PROVE  /\ t \in TokensWith(readJournal(ordersJournal), IsSell)
              <=> HasRow(readJournal(ordersJournal), "sell", t)
         /\ t \in TokensWith(readJournal(positionsJournal), IsClosed)
              <=> HasRow(readJournal(positionsJournal), "closed", t)
PROOF
  <1>1. \A rows : t \in TokensWith(rows, IsSell) <=> HasRow(rows, "sell", t)
    BY DEF TokensWith, IsSell, HasRow
  <1>2. \A rows : t \in TokensWith(rows, IsClosed) <=> HasRow(rows, "closed", t)
    BY DEF TokensWith, IsClosed, HasRow
  <1>3. QED
    BY <1>1, <1>2

(* A position is recovered from a last row that opens it, or from a buy when *)
(* no row closes it; and from nothing once a sell is journaled: all this as  *)
(* far as the tails of the journals tell.                                    *)
LEMMA RecoveredFacts ==
  ASSUME JournalTypes, NEW t \in Tokens
  PROVE  LET orders == readJournal(ordersJournal)
             rows   == readJournal(positionsJournal)
         IN /\ Recovered(t) # NoPosition =>
                 \E l \in Envs : /\ TokenOf[l] = t /\ Recovered(t) = Opened(l)
                                 /\ ~HasRow(orders, "sell", t)
                                 /\ \/ OpenIn(rows, t, l)
                                    \/ ~HasRow(rows, "closed", t) /\ BuyIn(orders, l)
            /\ Recovered(t) = NoPosition =>
                 \/ HasRow(orders, "sell", t)
                 \/ /\ \A m \in 1..Len(rows) : ~LastOpensIn(rows, t, m)
                    /\ HasRow(rows, "closed", t) \/ ~HasRow(orders, "buy", t)
PROOF
  <1> DEFINE orders == readJournal(ordersJournal)
             rows   == readJournal(positionsJournal)
             sold   == HasRow(orders, "sell", t)
             closed == HasRow(rows, "closed", t)
  <1>1. Recovered(t) = IF sold THEN NoPosition
                       ELSE IF OpenInPositionsJournal(t) THEN Opened(LastOpened(t))
                       ELSE IF ~closed /\ BuysOf(t) # <<>> THEN Opened(BuysOf(t)[1].lot)
                       ELSE NoPosition
    BY SoldAndClosed DEF Recovered
  <1>2. /\ OpenInPositionsJournal(t) => OpenIn(rows, t, LastOpened(t))
        /\ ~OpenInPositionsJournal(t) => \A m \in 1..Len(rows) : ~LastOpensIn(rows, t, m)
    BY OpenInJournal
  <1>3. /\ BuysOf(t) # <<>> <=> HasRow(orders, "buy", t)
        /\ BuysOf(t) # <<>> => BuyIn(orders, BuysOf(t)[1].lot) /\ TokenOf[BuysOf(t)[1].lot] = t
    BY BuysInJournal
  <1>4. orders \in Seq(OrderRow) /\ rows \in Seq(PositionRow)
    BY TailFacts DEF JournalTypes
  <1> HIDE DEF orders, rows
  <1>5. /\ \A l : OpenIn(rows, t, l) => l \in Envs /\ TokenOf[l] = t
        /\ \A l : BuyIn(orders, l) => l \in Envs
    <2>1. /\ \A i \in 1..Len(orders) : orders[i] \in OrderRow
          /\ \A i \in 1..Len(rows) : rows[i] \in PositionRow
      BY <1>4
    <2>2. /\ \A row \in OrderRow : row.lot \in Envs
          /\ \A row \in PositionRow : row.lot \in Envs
      BY DEF OrderRow, PositionRow
    <2>3. QED
      BY <2>1, <2>2 DEF OpenIn, BuyIn, LastOpensIn
  <1>6. \A l \in Envs : Opened(l) # NoPosition
    BY ConstantFacts DEF Opened, NoPosition
  <1> HIDE DEF sold, closed
  <1>7. Recovered(t) # NoPosition =>
          \E l \in Envs : /\ TokenOf[l] = t /\ Recovered(t) = Opened(l) /\ ~sold
                          /\ OpenIn(rows, t, l) \/ (~closed /\ BuyIn(orders, l))
    BY <1>1, <1>2, <1>3, <1>5
  <1>8. Recovered(t) = NoPosition =>
          sold \/ (/\ \A m \in 1..Len(rows) : ~LastOpensIn(rows, t, m)
                   /\ closed \/ ~HasRow(orders, "buy", t))
    BY <1>1, <1>2, <1>3, <1>5, <1>6
  <1>9. QED
    BY <1>7, <1>8 DEF sold, closed, rows, orders

(* And as the journals tell, when the tails are all of them.                 *)
LEMMA RecoveredInFull ==
  ASSUME JournalTypes, JournalsFitTail, NEW t \in Tokens
  PROVE  /\ Recovered(t) # NoPosition =>
              \E l \in Envs : /\ TokenOf[l] = t /\ Recovered(t) = Opened(l) /\ ~Sold(t)
                              /\ OpenOf(t, l) \/ (~ClosedRow(t) /\ BuyOf(l))
         /\ Recovered(t) = NoPosition =>
              Sold(t) \/ (/\ \A m \in 1..Len(positionsJournal) : ~LastOpens(t, m)
                          /\ ClosedRow(t) \/ ~Bought(t))
PROOF
  <1>1. readJournal(ordersJournal) = ordersJournal /\ readJournal(positionsJournal) = positionsJournal
    BY DEF JournalsFitTail, readJournal
  <1>2. QED
    BY <1>1, RecoveredFacts DEF OpenOf, BuyOf, LastOpens, Sold, ClosedRow, Bought
-----------------------------------------------------------------------------
(* A list of a finite set lists each of its elements.                        *)
LEMMA SetToSeqLists ==
  ASSUME NEW S, IsFiniteSet(S)
  PROVE  /\ SetToSeq(S) \in Seq(S) /\ Len(SetToSeq(S)) = Cardinality(S)
         /\ \A x \in S : \E i \in 1..Len(SetToSeq(S)) : SetToSeq(S)[i] = x
PROOF
  <1> DEFINE f == SetToSeq(S)
             n == Cardinality(S)
  <1>1. PICK m \in Nat : ExistsBijection(1..m, S)
    BY FS_NatBijection
  <1>2. n = m /\ n \in Nat
    BY <1>1, FS_CountingElements
  <1>3. \E g \in [1..n -> S] : IsInjective(g)
    BY <1>1, <1>2 DEF ExistsBijection, Bijection, Injection
  <1>4. f = CHOOSE g \in [1..n -> S] : IsInjective(g)
    BY DEF SetToSeq
  <1> HIDE DEF f, n
  <1>5. f \in [1..n -> S] /\ IsInjective(f)
    BY <1>3, <1>4
  <1>6. f \in Injection(1..n, S)
    BY <1>5 DEF Injection
  <1>7. Cardinality(1..n) = n
    BY <1>2, FS_Interval
  <1>8. f \in Surjection(1..n, S)
    BY <1>6, <1>7, FS_Injection DEF n
  <1>9. f \in Seq(S) /\ Len(f) = n
    BY <1>2, <1>5
  <1>10. QED
    BY <1>8, <1>9 DEF Surjection, f, n

(* The journals an earlier process left: one filled buy and one open         *)
(* position for each inherited lot.                                          *)
InheritedJournals ==
  /\ \A i \in 1..Len(ordersJournal) : \E e \in Inherited :
       ordersJournal[i] = [kind |-> "buy", lot |-> e, fill |-> "sent"]
  /\ \A e \in Inherited : \E i \in 1..Len(ordersJournal) :
       ordersJournal[i] = [kind |-> "buy", lot |-> e, fill |-> "sent"]
  /\ \A i \in 1..Len(positionsJournal) : \E e \in Inherited :
       positionsJournal[i] = [kind |-> "open", lot |-> e, reason |-> "none"]

LEMMA InitJournals == Init => JournalTypes /\ InheritedJournals /\ JournalsFitTail
PROOF
  <1> SUFFICES ASSUME Init PROVE JournalTypes /\ InheritedJournals /\ JournalsFitTail
    OBVIOUS
  <1> DEFINE BuyRow(e)  == [kind |-> "buy", lot |-> e, fill |-> "sent"]
             OpenRow(e) == [kind |-> "open", lot |-> e, reason |-> "none"]
             BuyRows    == {BuyRow(e) : e \in Inherited}
             OpenRows   == {OpenRow(e) : e \in Inherited}
  <1>1. /\ IsFiniteSet(BuyRows) /\ Cardinality(BuyRows) <= Cardinality(Inherited)
        /\ IsFiniteSet(OpenRows) /\ Cardinality(OpenRows) <= Cardinality(Inherited)
    <2> DEFINE f == [e \in Inherited |-> BuyRow(e)]
               g == [e \in Inherited |-> OpenRow(e)]
    <2>1. f \in Surjection(Inherited, BuyRows) /\ g \in Surjection(Inherited, OpenRows)
      BY DEF Surjection
    <2> HIDE DEF f, g, BuyRows, OpenRows
    <2>2. QED
      BY <2>1, FS_Surjection, ConstantFacts
  <1>2. BuyRows \in SUBSET OrderRow /\ OpenRows \in SUBSET PositionRow
    <2>1. \A e \in Inherited : e \in Envs
      BY ConstantFacts
    <2>2. "sent" \in Result /\ "none" \in CloseWhy \cup {"none"}
      BY DEF Result
    <2>3. \A e \in Envs : BuyRow(e) \in OrderRow /\ OpenRow(e) \in PositionRow
      BY <2>2 DEF OrderRow, PositionRow
    <2>4. QED
      BY <2>1, <2>3
  <1>3. ordersJournal = SetToSeq(BuyRows) /\ positionsJournal = SetToSeq(OpenRows)
    BY DEF Init
  <1> HIDE DEF BuyRows, OpenRows
  <1>4. /\ ordersJournal \in Seq(BuyRows) /\ Len(ordersJournal) = Cardinality(BuyRows)
        /\ positionsJournal \in Seq(OpenRows) /\ Len(positionsJournal) = Cardinality(OpenRows)
        /\ \A row \in BuyRows : \E i \in 1..Len(ordersJournal) : ordersJournal[i] = row
    BY <1>1, <1>3, SetToSeqLists
  <1>5. JournalTypes
    BY <1>2, <1>4 DEF JournalTypes
  <1>6. /\ \A i \in 1..Len(ordersJournal) : ordersJournal[i] \in BuyRows
        /\ \A i \in 1..Len(positionsJournal) : positionsJournal[i] \in OpenRows
    BY <1>4
  <1>7. InheritedJournals
    BY <1>4, <1>6 DEF InheritedJournals, BuyRows, OpenRows
  <1>8. JournalsFitTail
    <2>1. Cardinality(BuyRows) \in Nat /\ Cardinality(OpenRows) \in Nat /\ Cardinality(Inherited) \in Nat
      BY <1>1, ConstantFacts, FS_CardinalityType
    <2>2. TailRows \in Nat /\ Cardinality(Inherited) <= TailRows
      BY ConstantFacts
    <2>3. QED
      BY <1>1, <1>4, <2>1, <2>2 DEF JournalsFitTail
  <1>9. QED
    BY <1>5, <1>7, <1>8

LEMMA InitRows ==
  ASSUME Init
  PROVE  /\ \A i \in 1..Len(ordersJournal) :
              /\ ordersJournal[i].kind = "buy" /\ ordersJournal[i].lot \in Inherited
         /\ \A i \in 1..Len(positionsJournal) :
              /\ positionsJournal[i].kind = "open" /\ positionsJournal[i].lot \in Inherited
         /\ \A e \in Inherited : Bought(TokenOf[e])
PROOF
  <1>1. InheritedJournals
    BY InitJournals
  <1>2. \A i \in 1..Len(ordersJournal) :
          ordersJournal[i].kind = "buy" /\ ordersJournal[i].lot \in Inherited
    <2>1. TAKE i \in 1..Len(ordersJournal)
    <2>2. PICK e \in Inherited : ordersJournal[i] = [kind |-> "buy", lot |-> e, fill |-> "sent"]
      BY <1>1 DEF InheritedJournals
    <2>3. QED
      BY <2>2
  <1>3. \A i \in 1..Len(positionsJournal) :
          positionsJournal[i].kind = "open" /\ positionsJournal[i].lot \in Inherited
    <2>1. TAKE i \in 1..Len(positionsJournal)
    <2>2. PICK e \in Inherited : positionsJournal[i] = [kind |-> "open", lot |-> e, reason |-> "none"]
      BY <1>1 DEF InheritedJournals
    <2>3. positionsJournal[i].kind = "open"
      BY <2>2
    <2>4. positionsJournal[i].lot = e
      BY <2>2
    <2>5. QED
      BY <2>3, <2>4
  <1>4. \A e \in Inherited : Bought(TokenOf[e])
    <2>1. TAKE e \in Inherited
    <2>2. PICK i \in 1..Len(ordersJournal) :
            ordersJournal[i] = [kind |-> "buy", lot |-> e, fill |-> "sent"]
      BY <1>1 DEF InheritedJournals
    <2>3. ordersJournal[i].kind = "buy" /\ ordersJournal[i].lot = e
      BY <2>2
    <2>4. QED
      BY <2>3 DEF Bought, HasRow
  <1>5. QED
    BY <1>2, <1>3, <1>4

LEMMA InitPositions ==
  ASSUME Init
  PROVE  \A t \in Tokens :
           /\ ~Sold(t) /\ ~ClosedRow(t)
           /\ positions[t] # NoPosition => \E l \in Inherited : TokenOf[l] = t /\ positions[t] = Opened(l)
           /\ positions[t] = NoPosition => ~Bought(t)
PROOF
  <1> SUFFICES ASSUME NEW t \in Tokens
               PROVE  /\ ~Sold(t) /\ ~ClosedRow(t)
                      /\ positions[t] # NoPosition =>
                           \E l \in Inherited : TokenOf[l] = t /\ positions[t] = Opened(l)
                      /\ positions[t] = NoPosition => ~Bought(t)
    OBVIOUS
  <1>1. JournalTypes /\ JournalsFitTail /\ positions[t] = Recovered(t)
    BY InitJournals DEF Init
  <1>2. ~Sold(t) /\ ~ClosedRow(t)
    BY InitRows DEF Sold, ClosedRow, HasRow
  <1>3. \A l : OpenOf(t, l) \/ BuyOf(l) => l \in Inherited
    BY InitRows DEF OpenOf, BuyOf, OpenIn, BuyIn, LastOpensIn
  <1>4. positions[t] = NoPosition => ~Bought(t)
    BY <1>1, <1>2, RecoveredInFull
  <1>5. positions[t] # NoPosition => \E l \in Inherited : TokenOf[l] = t /\ positions[t] = Opened(l)
    BY <1>1, <1>3, RecoveredInFull
  <1>6. QED
    BY <1>2, <1>4, <1>5

LEMMA OpenedIsPosition ==
  ASSUME NEW l \in Envs, NEW n \in 0..MaxFaults
  PROVE  /\ Opened(l) \in Position /\ Opened(l) # NoPosition /\ Opened(l).lot = l
         /\ ~Opened(l).exitInFlight /\ ~Opened(l).taken /\ Opened(l).bounces < BounceLimit + n
PROOF
  <1>1. BounceLimit + MaxFaults - 1 \in Nat /\ 0 < BounceLimit + n
    BY ConstantFacts
  <1>2. 0 \in 0..BounceLimit + MaxFaults - 1
    BY <1>1
  <1>3. Opened(l) \in Position
    BY <1>2 DEF Opened, Position
  <1>4. QED
    BY <1>1, <1>3, NoRecord DEF Opened

LEMMA InitTypes == Init => QueueInv /\ RestTypes /\ TasksInv
PROOF
  <1> SUFFICES ASSUME Init PROVE QueueInv /\ RestTypes /\ TasksInv
    OBVIOUS
  <1>1. /\ highQueue = <<>> /\ normalQueue = <<>> /\ isProcessing = FALSE /\ isRunning = TRUE
        /\ wakeups = 0 /\ executing = {} /\ outcome = [o \in Order |-> "new"]
        /\ stage = "idle" /\ result = "none" /\ resolved = NoExit
    BY DEF Init, OrderQ!QueueInit
  <1>2. QueueInv
    <2>1. highQueue \in Seq(Sells) /\ normalQueue \in Seq(Buys)
      BY <1>1
    <2>2. outcome \in [Order -> OrderQ!Outcome]
      BY <1>1 DEF OrderQ!Outcome
    <2>3. QueuesWait
      BY <1>1, <2>1, <2>2 DEF QueuesWait, Unique
    <2>4. SubmitHolds
      BY <1>1 DEF SubmitHolds, Result
    <2>5. QED
      BY <2>3, <2>4 DEF QueueInv
  <1>3. RestTypes
    <2>1. feed \in Seq(Envs) /\ cursor \in 0..Len(feed)
      <3>1. feed = <<>> /\ cursor = 0
        BY DEF Init
      <3>2. <<>> \in Seq(Envs) /\ Len(<<>>) = 0
        OBVIOUS
      <3>3. QED
        BY <3>1, <3>2
    <2>2. published \in [Envs -> 0..MaxCopies] /\ sends \in [Envs -> Nat]
      <3>1. 0 \in 0..MaxCopies /\ MaxCopies \in 0..MaxCopies /\ 0 \in Nat /\ 1 \in Nat
        BY ConstantFacts
      <3>2. /\ published = [e \in Envs |-> IF e \in Inherited THEN MaxCopies ELSE 0]
            /\ sends = [e \in Envs |-> IF e \in Inherited THEN 1 ELSE 0]
        BY DEF Init
      <3>3. QED
        BY <3>1, <3>2
    <2>3. /\ held \in SUBSET Envs /\ due \in SUBSET Envs /\ rests \in SUBSET Envs
          /\ afloat \in SUBSET doubted /\ doubted \in SUBSET Order /\ mode \in Modes /\ crashes \in Nat
      BY ConstantFacts DEF Init
    <2>4. faults \in 0..MaxFaults
      <3>1. faults = 0 /\ MaxFaults \in Nat
        BY ConstantFacts DEF Init
      <3>2. QED
        BY <3>1
    <2>5. JournalTypes /\ processedEnvIds = EnvIdsInOrders
      BY InitJournals DEF Init
    <2>7. processedEnvIds \in SUBSET Envs
      BY <2>5, EnvIdsAreEnvs
    <2>8. QED
      BY <2>1, <2>2, <2>3, <2>4, <2>5, <2>7 DEF RestTypes, JournalTypes
  <1>4. TasksInv
    <2>1. /\ scan = "idle" /\ monitor = [t \in Tokens |-> NoTask] /\ faults = 0
          /\ positions = [t \in Tokens |-> Recovered(t)]
      BY DEF Init
    <2>2. \A t \in Tokens : positions[t] # NoPosition =>
            \E l \in Envs : TokenOf[l] = t /\ positions[t] = Opened(l)
      BY InitPositions, ConstantFacts
    <2>3. \A t \in Tokens : positions[t] # NoPosition =>
            positions[t] \in Position /\ ~positions[t].exitInFlight /\ PositionAt(t)
      <3>1. SUFFICES ASSUME NEW t \in Tokens, positions[t] # NoPosition
                     PROVE  positions[t] \in Position /\ ~positions[t].exitInFlight /\ PositionAt(t)
        OBVIOUS
      <3>2. PICK l \in Envs : TokenOf[l] = t /\ positions[t] = Opened(l)
        BY <2>2, <3>1
      <3>3. 0 \in 0..MaxFaults
        BY ConstantFacts
      <3>4. /\ Opened(l) \in Position /\ Opened(l).lot = l
            /\ ~Opened(l).exitInFlight /\ Opened(l).bounces < BounceLimit + 0
        BY <3>3, OpenedIsPosition
      <3>5. QED
        BY <2>1, <3>2, <3>4 DEF PositionAt
    <2>4. positions \in [Tokens -> Position \cup {NoPosition}]
      <3>1. DOMAIN positions = Tokens /\ positions = [t \in Tokens |-> positions[t]]
        BY <2>1
      <3>2. QED
        BY <2>3, <3>1
    <2>5. TaskTypes
      BY <2>1, <2>3, <2>4 DEF TaskTypes, TaskAt, PositionAt
    <2>6. NoStuckExit
      BY <2>3 DEF NoStuckExit, Tracked
    <2>7. \A o \in Order : ~IsPending(o)
      BY <1>1 DEF IsPending, Pending
    <2>8. ExitsHaveTasks /\ OneExitPerPosition
      BY <1>1, <2>7 DEF ExitsHaveTasks, OneExitPerPosition, IsPending, Sells
    <2>9. ThrownByFaults
      BY <1>1 DEF ThrownByFaults
    <2>10. QED
      BY <2>5, <2>6, <2>8, <2>9 DEF TasksInv
  <1>5. QED
    BY <1>2, <1>3, <1>4

LEMMA InitBuys == Init => BuysInv
PROOF
  <1> SUFFICES ASSUME Init PROVE BuysInv
    OBVIOUS
  <1>1. /\ executing = {} /\ outcome = [o \in Order |-> "new"] /\ processedEnvIds = EnvIdsInOrders
    BY DEF Init, OrderQ!QueueInit
  <1>2. \A o \in Buys : ~IsPending(o) /\ ~NotYetFilled(o)
    BY <1>1 DEF IsPending, Pending, NotYetFilled, Buys
  <1>3. FillsKnown
    BY <1>1, TailFillsKnown DEF FillsKnown
  <1>4. QED
    BY <1>2, <1>3 DEF BuysInv, OneBuyPending, PendingKnown

LEMMA OpenedLot == \A l : Opened(l).lot = l
BY DEF Opened

LEMMA InitLots == Init => LotsInv
PROOF
  <1> SUFFICES ASSUME Init PROVE LotsInv
    OBVIOUS
  <1>1. /\ executing = {} /\ held = Inherited /\ sends = [e \in Envs |-> IF e \in Inherited THEN 1 ELSE 0]
        /\ monitor = [t \in Tokens |-> NoTask] /\ resolved = NoExit /\ doubted = {} /\ rests = {}
    BY DEF Init, OrderQ!QueueInit
  <1>2. \A l \in Inherited : l \in Envs /\ sends[l] = 1
    BY <1>1, ConstantFacts
  <1>3. SendsCounted
    BY <1>1, <1>2 DEF SendsCounted, Answered
  <1>4. \A t \in Tokens : positions[t] # NoPosition =>
          \E l \in Inherited : TokenOf[l] = t /\ positions[t].lot = l
    BY InitPositions, OpenedLot
  <1>5. SentLots /\ LiveLots
    BY <1>1, <1>2, <1>4 DEF SentLots, LiveLots
  <1>6. ASSUME NEW l \in held PROVE TracksLot(l)
    <2>1. l \in Inherited /\ l \in Envs /\ TokenOf[l] \in Tokens
      BY <1>1, <1>2, <1>6, ConstantFacts
    <2>2. Bought(TokenOf[l])
      BY <2>1, InitRows
    <2>3. PICK m \in Inherited : TokenOf[m] = TokenOf[l] /\ positions[TokenOf[l]] = Opened(m)
      BY <2>1, <2>2, InitPositions
    <2>4. m = l
      BY <2>1, <2>3, ExecutorAssumption
    <2>5. Opened(l) # NoPosition
      BY <2>3, <2>4, OpenedLot, <2>2, InitPositions, <2>1
    <2>6. QED
      BY <2>3, <2>4, <2>5, OpenedLot DEF TracksLot
  <1>7. HeldLots
    BY <1>1, <1>6 DEF HeldLots, SaleFilled, Answered
  <1>8. QED
    BY <1>3, <1>5, <1>7 DEF LotsInv

LEMMA InitRests == Init => TakesInv /\ RestsInv
PROOF
  <1> SUFFICES ASSUME Init PROVE TakesInv /\ RestsInv
    OBVIOUS
  <1>1. rests = {} /\ \A t \in Tokens : monitor[t] = NoTask
    BY DEF Init
  <1>2. \A t \in Tokens : positions[t] # NoPosition => ~positions[t].taken
    <2> SUFFICES ASSUME NEW t \in Tokens, positions[t] # NoPosition PROVE ~positions[t].taken
      OBVIOUS
    <2>1. PICK l \in Inherited : positions[t] = Opened(l)
      BY InitPositions
    <2>2. QED
      BY <2>1 DEF Opened
  <1>3. RestsInv
    BY <1>1 DEF RestsInv
  <1>4. TakesInv
    BY <1>1, <1>2 DEF TakesInv, TakesAt, NoTask
  <1>5. QED
    BY <1>3, <1>4

LEMMA InitJournalsInv == Init => JournalsInv
PROOF
  <1> SUFFICES ASSUME Init PROVE JournalsInv
    OBVIOUS
  <1>1. /\ executing = {} /\ sends = [e \in Envs |-> IF e \in Inherited THEN 1 ELSE 0]
        /\ monitor = [t \in Tokens |-> NoTask] /\ resolved = NoExit
    BY DEF Init, OrderQ!QueueInit
  <1>2. \A l \in Inherited : l \in Envs /\ sends[l] = 1
    BY <1>1, ConstantFacts
  <1>3. JournalTypes /\ InheritedJournals
    BY InitJournals
  <1>4. RowsSent
    BY <1>2, InitRows DEF RowsSent
  <1>5. \A t \in Tokens : positions[t] # NoPosition =>
          \E l \in Inherited : TokenOf[l] = t /\ positions[t].lot = l
    BY InitPositions, OpenedLot
  <1>6. SentLots
    BY <1>1, <1>2, <1>5 DEF SentLots
  <1>7. \A t \in Tokens : (\E l \in Inherited : TokenOf[l] = t) => Bought(t)
    BY InitRows
  <1>8. \A t \in Tokens : OpenedRow(t) => Bought(t)
    BY InitRows, <1>7 DEF OpenedRow, HasRow
  <1>9. BuyRowFirst /\ TrackedRows /\ UntrackedRows
    BY <1>5, <1>7, <1>8, InitPositions DEF BuyRowFirst, TrackedRows, UntrackedRows
  <1>10. ClosedForGood
    BY InitRows DEF ClosedForGood
  <1>11. LastRow /\ NewRows
    BY <1>1 DEF LastRow, NewRows, BuyReturns
  <1>12. QED
    BY <1>4, <1>6, <1>9, <1>10, <1>11 DEF JournalsInv
-----------------------------------------------------------------------------
(* The queue and submit, step by step.                                       *)
LEMMA SwapKeepsQueue ==
  ASSUME QueueInv, NEW o \in Order, Swap(o)
  PROVE  QueueInv' /\ UNCHANGED <<outcome, executing, resolved>> /\ resolved = NoExit
PROOF
  <1>1. /\ o \in executing /\ stage = "swap" /\ stage' = "append" /\ result' \in Result
        /\ UNCHANGED <<highQueue, normalQueue, isProcessing, isRunning, wakeups, executing,
                       outcome, resolved>>
    BY DEF Swap, SwapLands, SwapInDoubt, NothingSwapped, Result, qvars
  <1>2. QueuesWait'
    BY <1>1 DEF QueueInv, QueuesWait, Unique
  <1>3. SubmitHolds'
    BY <1>1 DEF QueueInv, SubmitHolds
  <1>4. QED
    BY <1>1, <1>2, <1>3 DEF QueueInv, SubmitHolds

LEMMA JournalKeepsQueue ==
  ASSUME QueueInv, NEW o \in Order, JournalOrder(o)
  PROVE  QueueInv' /\ UNCHANGED <<outcome, executing, resolved>>
PROOF
  <1>1. /\ o \in executing /\ stage = "append" /\ stage' = "return" /\ result' \in Result
        /\ UNCHANGED <<highQueue, normalQueue, isProcessing, isRunning, wakeups, executing,
                       outcome, resolved>>
    BY DEF JournalOrder, Result, qvars, QueueInv, SubmitHolds
  <1>2. QueuesWait'
    BY <1>1 DEF QueueInv, QueuesWait, Unique
  <1>3. SubmitHolds'
    BY <1>1 DEF QueueInv, SubmitHolds
  <1>4. QED
    BY <1>1, <1>2, <1>3 DEF QueueInv

LEMMA QueueStep ==
  ASSUME QueueInv, [Next]_vars
  PROVE  QueueInv'
PROOF
  <1>1. ASSUME UNCHANGED vars PROVE QueueInv'
    <2>1. UNCHANGED qvars /\ UNCHANGED <<stage, result, resolved>>
      BY <1>1 DEF vars, submitVars
    <2>2. QED
      BY <2>1, NotifyKeepsQueue
  <1>2. ASSUME NEW e \in Envs, Publish(e) PROVE QueueInv'
    BY <1>2, NotifyKeepsQueue DEF Publish, submitVars
  <1>3. ASSUME NEW t \in Tokens, TimeStopPasses(t) PROVE QueueInv'
    BY <1>3, NotifyKeepsQueue DEF TimeStopPasses, submitVars
  <1>4. ASSUME ScanBegins \/ MonitoringBegins \/ MonitoringEnds PROVE QueueInv'
    BY <1>4, NotifyKeepsQueue DEF ScanBegins, MonitoringBegins, MonitoringEnds, submitVars
  <1>5. ASSUME IngestRow PROVE QueueInv'
    <2>1. CASE UNCHANGED qvars
      BY <1>5, <2>1, NotifyKeepsQueue DEF IngestRow, submitVars
    <2>2. CASE ~UNCHANGED qvars
      <3> DEFINE e == feed[cursor + 1]
      <3>1. CanIssue("buy", e) /\ OrderQ!Enqueue(FreshOrder("buy", e)) /\ UNCHANGED submitVars
        BY <1>5, <2>2 DEF IngestRow
      <3> HIDE DEF e
      <3>2. QED
        BY <3>1, FreshOrderIsNew, EnqueueKeepsQueue
    <2>3. QED
      BY <2>1, <2>2
  <1>6. ASSUME NEW t \in Tokens, StepHolds(t) PROVE QueueInv'
    BY <1>6, NotifyKeepsQueue DEF StepHolds, submitVars
  <1>7. ASSUME NEW t \in Tokens, StepEvictsDust(t) PROVE QueueInv'
    BY <1>7, NotifyKeepsQueue DEF StepEvictsDust, submitVars
  <1>8. ASSUME NEW t \in Tokens, StepExits(t) PROVE QueueInv'
    <2>1. /\ CanIssue("sell", Snap(t).lot) /\ OrderQ!Enqueue(FreshOrder("sell", Snap(t).lot))
          /\ UNCHANGED submitVars
      BY <1>8 DEF StepExits, Snap
    <2>2. QED
      BY <2>1, FreshOrderIsNew, EnqueueKeepsQueue
  <1>9. ASSUME NEW t \in Tokens, ExitCloses(t) \/ ExitBounces(t) \/ ExitThrows(t) PROVE QueueInv'
    <2>1. UNCHANGED <<stage, result>> /\ resolved' = NoExit
      BY <1>9 DEF ExitCloses, ExitBounces, ExitThrows, ExitResumes
    <2>2. OrderQ!NotifySlotAvailable \/ UNCHANGED qvars
      BY <1>9 DEF ExitCloses, ExitBounces, ExitThrows, ClosePosition
    <2>3. QED
      BY <2>1, <2>2, NotifyKeepsQueue
  <1>10. ASSUME Worker PROVE QueueInv'
    BY <1>10, WorkerDispatches
  <1>11. ASSUME NEW o \in Order, Swap(o) \/ JournalOrder(o) PROVE QueueInv'
    BY <1>11, SwapKeepsQueue, JournalKeepsQueue
  <1>12. ASSUME NEW o \in Order, BuySettles(o) \/ SellSettles(o) PROVE QueueInv'
    <2>1. \E r \in {"resolved", "rejected"} : OrderQ!SubmitSettles(o, r)
      BY <1>12 DEF BuySettles, SellSettles
    <2>2. /\ stage' = "idle" /\ result' = "none"
          /\ resolved' \in {resolved, [lot |-> o.env, result |-> result]}
      BY <1>12 DEF BuySettles, SellSettles
    <2>3. QED
      BY <2>1, <2>2, SettleKeepsQueue
  <1>13. ASSUME Shutdown PROVE QueueInv'
    BY <1>13, StopKeepsQueue DEF Shutdown
  <1>14. ASSUME Restart PROVE QueueInv'
    BY <1>14, RestartKeepsQueue
  <1>15. ASSUME NEW o \in Order, Lands(o) PROVE QueueInv'
    BY <1>15, NotifyKeepsQueue DEF Lands, submitVars
  <1>16. QED
    BY <1>1, <1>2, <1>3, <1>4, <1>5, <1>6, <1>7, <1>8, <1>9, <1>10, <1>11, <1>12, <1>13, <1>14, <1>15
       DEF Next, Monitoring, Submit, MessageLands
-----------------------------------------------------------------------------
(* Types: the feed, the journals and the world.                              *)
LEMMA TaskFacts ==
  ASSUME TaskTypes, NEW t \in Tokens
  PROVE  /\ monitor[t].step \in {"pricing", "selling"} <=> monitor[t] # NoTask
         /\ monitor[t] # NoTask =>
              /\ monitor[t] \in Task /\ monitor[t].whole \in BOOLEAN
              /\ Snap(t) \in Position /\ Snap(t).lot \in Envs
              /\ Snap(t) # NoPosition
              /\ TokenOf[Snap(t).lot] = t /\ Snap(t).bounces < BounceLimit + faults
              /\ ~Snap(t).exitInFlight /\ positions[t] # NoPosition /\ scan = "monitor"
PROOF
  <1>1. monitor[t] \in Task \cup {NoTask}
    BY DEF TaskTypes
  <1>2. NoTask.step = "off"
    BY DEF NoTask
  <1>3. \A k \in Task : k.step \in {"pricing", "selling"} /\ k.snap \in Position /\ k.whole \in BOOLEAN
    BY DEF Task
  <1>4. \A q \in Position : q.lot \in Envs
    BY DEF Position
  <1>5. monitor[t] # NoTask =>
          /\ TokenOf[Snap(t).lot] = t /\ Snap(t).bounces < BounceLimit + faults
          /\ ~Snap(t).exitInFlight /\ positions[t] # NoPosition /\ scan = "monitor"
    BY DEF TaskTypes, TaskAt
  <1>6. QED
    BY <1>1, <1>2, <1>3, <1>4, <1>5, NoRecord DEF Snap

(* What an exit makes of the position and of the task: the position is       *)
(* marked, and only a partial take is news to the task.                      *)
LEMMA ExitMarks ==
  ASSUME TaskTypes, NEW t \in Tokens, StepExits(t)
  PROVE  \E q \in Position, k \in Task :
           /\ positions' = [positions EXCEPT ![t] = q] /\ monitor' = [monitor EXCEPT ![t] = k]
           /\ q.lot = Snap(t).lot /\ q.bounces = Snap(t).bounces /\ q.exitInFlight
           /\ k.step = "selling" /\ k.whole = monitor[t].whole
           /\ k.snap.lot = Snap(t).lot /\ k.snap.bounces = Snap(t).bounces /\ ~k.snap.exitInFlight
PROOF
  <1>1. /\ monitor[t] \in Task /\ Snap(t) \in Position /\ ~Snap(t).exitInFlight
        /\ monitor \in [Tokens -> Task \cup {NoTask}]
    BY TaskFacts DEF TaskTypes, StepExits, Priced
  <1>2. PICK part \in BOOLEAN :
          LET stepped == [monitor[t].snap EXCEPT !.taken = @ \/ part]
          IN /\ part => monitor[t].snap.lot \notin due
             /\ positions' = [positions EXCEPT ![t] = [stepped EXCEPT !.exitInFlight = TRUE]]
             /\ monitor' = [monitor EXCEPT ![t].step = "selling", ![t].snap = stepped]
    BY Zenon DEF StepExits
  <1> DEFINE stepped == [Snap(t) EXCEPT !.taken = @ \/ part]
             q == [stepped EXCEPT !.exitInFlight = TRUE]
             k == [monitor[t] EXCEPT !.step = "selling", !.snap = stepped]
  <1>3. /\ stepped \in Position /\ stepped.lot = Snap(t).lot /\ stepped.bounces = Snap(t).bounces
        /\ stepped.exitInFlight = Snap(t).exitInFlight
    <2>1. (Snap(t).taken \/ part) \in BOOLEAN
      OBVIOUS
    <2>2. QED
      BY <1>1, <2>1 DEF Position
  <1>4. positions' = [positions EXCEPT ![t] = q] /\ monitor' = [monitor EXCEPT ![t] = k]
    BY <1>1, <1>2 DEF Snap
  <1> HIDE DEF stepped
  <1>5. q \in Position /\ q.lot = Snap(t).lot /\ q.bounces = Snap(t).bounces /\ q.exitInFlight
    BY <1>3 DEF Position
  <1>6. k \in Task /\ k.step = "selling" /\ k.whole = monitor[t].whole /\ k.snap = stepped
    BY <1>1, <1>3 DEF Task
  <1> HIDE DEF q, k
  <1>7. QED
    BY <1>1, <1>3, <1>4, <1>5, <1>6

(* The journals grow by rows of their types.                                 *)
LEMMA RowTypes ==
  /\ \A side \in {"buy", "sell"}, l \in Envs, r \in Result :
       [kind |-> side, lot |-> l, fill |-> r] \in OrderRow
  /\ \A kind \in {"open", "closed"}, l \in Envs, r \in CloseWhy \cup {"none"} :
       [kind |-> kind, lot |-> l, reason |-> r] \in PositionRow
BY DEF OrderRow, PositionRow

LEMMA AppendTypes ==
  ASSUME NEW S, NEW s \in Seq(S), NEW x \in S
  PROVE  /\ Append(s, x) \in Seq(S) /\ Len(Append(s, x)) = Len(s) + 1 /\ Len(s) \in Nat
         /\ Append(s, x)[Len(s) + 1] = x /\ \A i \in 1..Len(s) : Append(s, x)[i] = s[i]
OBVIOUS

LEMMA DiskTypes ==
  ASSUME RestTypes, DiskWorks \/ DiskFails
  PROVE  faults' \in 0..MaxFaults /\ faults \in Nat
         /\ (DiskWorks => faults' = faults) /\ (DiskFails => faults' = faults + 1)
BY ConstantFacts DEF RestTypes, DiskWorks, DiskFails

(* A closed position is that of a task, and the task is there.               *)
LEMMA ResumingTask ==
  ASSUME QueueInv, TasksInv, NEW t \in Tokens, ExitResumes(t)
  PROVE  /\ monitor[t].step = "selling" /\ monitor[t] # NoTask
         /\ resolved \in [lot : Envs, result : Result]
         /\ Snap(t).lot = resolved.lot /\ executing = {}
PROOF
  <1>1. resolved # NoExit /\ TokenOf[resolved.lot] = t
    BY DEF ExitResumes
  <1>2. resolved \in [lot : Envs, result : Result] /\ executing = {}
    BY <1>1 DEF QueueInv, SubmitHolds
  <1>3. monitor[t].step = "selling" /\ Snap(t).lot = resolved.lot
    BY <1>1 DEF TasksInv, ExitsHaveTasks, SellingLot
  <1>4. QED
    BY <1>2, <1>3, TaskFacts DEF TasksInv

(* What a landing message makes of the wallet. *)
LEMMA ChainTypes ==
  ASSUME RestTypes, NEW o \in Order, NEW reduced \in BOOLEAN
  PROVE  /\ BuyLands(o.env) => held' \in SUBSET Envs /\ rests' \in SUBSET Envs
         /\ SellLands(o.env, reduced) => held' \in SUBSET Envs /\ rests' \in SUBSET Envs
PROOF
  <1>1. o.env \in Envs /\ held \in SUBSET Envs /\ rests \in SUBSET Envs
    BY OrderFields DEF RestTypes
  <1>2. ASSUME NEW l, held' = held \ {l} /\ UNCHANGED rests
        PROVE  held' \in SUBSET Envs /\ rests' \in SUBSET Envs
    BY <1>1, <1>2
  <1>3. ASSUME NEW l, l \in held, rests' = rests \cup {l}, UNCHANGED held
        PROVE  held' \in SUBSET Envs /\ rests' \in SUBSET Envs
    BY <1>1, <1>3
  <1>4. QED
    BY <1>1, <1>2, <1>3 DEF BuyLands, SellLands

LEMMA RestStep ==
  ASSUME QueueInv, RestTypes, TasksInv, [Next]_vars
  PROVE  RestTypes'
PROOF
  <1> USE DEF RestTypes
  <1>1. ASSUME UNCHANGED vars PROVE RestTypes'
    BY <1>1 DEF vars, clientVars, journalVars, worldVars, chainVars, boundVars
  <1>2. ASSUME NEW e \in Envs, Publish(e) PROVE RestTypes'
    <2>1. /\ published[e] < MaxCopies /\ published' = [published EXCEPT ![e] = @ + 1]
          /\ feed' = Append(feed, e)
          /\ UNCHANGED <<cursor, processedEnvIds, ordersJournal, positionsJournal, held, due,
                         sends, rests, afloat, doubted, mode, faults, crashes>>
      BY <1>2 DEF Publish, journalVars, worldVars, chainVars, boundVars
    <2>2. feed' \in Seq(Envs) /\ cursor' \in 0..Len(feed')
      <3>1. Len(feed') = Len(feed) + 1 /\ Len(feed) \in Nat /\ feed' \in Seq(Envs)
        BY <2>1, AppendTypes
      <3>2. QED
        BY <2>1, <3>1
    <2>3. published' \in [Envs -> 0..MaxCopies]
      <3>1. published[e] + 1 \in 0..MaxCopies
        BY <2>1, ConstantFacts
      <3>2. QED
        BY <2>1, <3>1
    <2>4. QED
      BY <2>1, <2>2, <2>3
  <1>3. ASSUME NEW t \in Tokens, TimeStopPasses(t) PROVE RestTypes'
    <2>1. positions[t] \in Position
      BY <1>3 DEF TimeStopPasses, TasksInv, TaskTypes
    <2>2. positions[t].lot \in Envs
      BY <2>1 DEF Position
    <2>3. QED
      BY <1>3, <2>2 DEF TimeStopPasses, clientVars, journalVars, chainVars, boundVars
  <1>4. ASSUME ScanBegins \/ MonitoringBegins \/ MonitoringEnds PROVE RestTypes'
    BY <1>4 DEF ScanBegins, MonitoringBegins, MonitoringEnds, journalVars, worldVars, chainVars, boundVars
  <1>5. ASSUME IngestRow PROVE RestTypes'
    <2>1. /\ cursor < Len(feed) /\ cursor' = cursor + 1
          /\ processedEnvIds' = processedEnvIds \cup {feed[cursor + 1]}
          /\ UNCHANGED <<feed, published, ordersJournal, positionsJournal, held, due,
                         sends, rests, afloat, doubted, mode, faults, crashes>>
      BY <1>5 DEF IngestRow, journalVars, worldVars, chainVars, boundVars
    <2>2. Len(feed) \in Nat
      OBVIOUS
    <2>3. cursor' \in 0..Len(feed) /\ cursor + 1 \in 1..Len(feed)
      BY <2>1, <2>2
    <2>4. feed[cursor + 1] \in Envs
      BY <2>3
    <2>5. QED
      BY <2>1, <2>3, <2>4
  <1>6. ASSUME NEW t \in Tokens, StepHolds(t) \/ StepExits(t) PROVE RestTypes'
    <2>1. UNCHANGED <<feed, published, cursor, processedEnvIds, journalVars, worldVars, boundVars>>
      <3>1. CASE StepHolds(t)
        BY <3>1 DEF StepHolds
      <3>2. CASE StepExits(t)
        BY <3>2, Zenon DEF StepExits
      <3>3. QED
        BY <1>6, <3>1, <3>2
    <2>2. QED
      BY <2>1 DEF journalVars, worldVars, chainVars, boundVars
  <1>7. ASSUME NEW t \in Tokens, StepEvictsDust(t) PROVE RestTypes'
    <2> DEFINE row == [kind |-> "closed", lot |-> Snap(t).lot, reason |-> "dust"]
    <2>1. /\ DiskWorks \/ DiskFails
          /\ positionsJournal' \in {positionsJournal, Append(positionsJournal, row)}
          /\ UNCHANGED <<feed, published, cursor, processedEnvIds, ordersJournal, held, due, sends, rests, afloat, doubted,
                         mode, crashes>>
          /\ monitor[t].step = "pricing"
      BY <1>7 DEF StepEvictsDust, worldVars, chainVars, Snap, Priced
    <2>2. Snap(t).lot \in Envs
      BY <2>1, TaskFacts DEF TasksInv
    <2>3. row \in PositionRow
      BY <2>2, RowTypes DEF CloseWhy
    <2> HIDE DEF row
    <2>4. positionsJournal' \in Seq(PositionRow)
      <3>1. Append(positionsJournal, row) \in Seq(PositionRow)
        BY <2>3, AppendTypes
      <3>2. QED
        BY <2>1, <3>1
    <2>5. faults' \in 0..MaxFaults
      BY <2>1, DiskTypes
    <2>6. QED
      BY <2>1, <2>4, <2>5
  <1>8. ASSUME NEW t \in Tokens, ExitCloses(t) \/ ExitBounces(t) \/ ExitThrows(t) PROVE RestTypes'
    <2>1. ExitResumes(t)
      BY <1>8 DEF ExitCloses, ExitBounces, ExitThrows
    <2>2. UNCHANGED <<feed, published, cursor, processedEnvIds, ordersJournal, held, due, sends, rests, afloat, doubted,
                      mode, crashes>>
      BY <2>1 DEF ExitResumes, worldVars, chainVars
    <2>3. /\ faults' = faults \/ DiskFails
          /\ \/ UNCHANGED positionsJournal
             \/ \E r \in CloseWhy : positionsJournal' =
                  Append(positionsJournal, [kind |-> "closed", lot |-> Snap(t).lot, reason |-> r])
      BY <1>8 DEF ExitCloses, ExitBounces, ExitThrows, ClosePosition, DiskWorks, Snap, CloseWhy
    <2>4. Snap(t).lot \in Envs
      BY <2>1, ResumingTask, TaskFacts DEF TasksInv
    <2>5. positionsJournal' \in Seq(PositionRow)
      <3>1. CASE UNCHANGED positionsJournal
        BY <3>1
      <3>2. ASSUME NEW r \in CloseWhy, positionsJournal' =
                     Append(positionsJournal, [kind |-> "closed", lot |-> Snap(t).lot, reason |-> r])
            PROVE  positionsJournal' \in Seq(PositionRow)
        <4> DEFINE row == [kind |-> "closed", lot |-> Snap(t).lot, reason |-> r]
        <4>1. row \in PositionRow
          BY <2>4, RowTypes
        <4> HIDE DEF row
        <4>2. Append(positionsJournal, row) \in Seq(PositionRow)
          BY <4>1, AppendTypes
        <4>3. QED
          BY <3>2, <4>2 DEF row
      <3>3. QED
        BY <2>3, <3>1, <3>2
    <2>6. faults' \in 0..MaxFaults
      BY <2>3, DiskTypes
    <2>7. QED
      BY <2>2, <2>5, <2>6
  <1>9. ASSUME Worker \/ Shutdown PROVE RestTypes'
    BY <1>9 DEF Worker, Shutdown, clientVars, journalVars, worldVars, chainVars, boundVars
  <1>10. ASSUME NEW o \in Order, Swap(o) PROVE RestTypes'
    <2>1. UNCHANGED <<feed, published, cursor, processedEnvIds, ordersJournal, positionsJournal, due,
                      mode, faults, crashes>>
      BY <1>10 DEF Swap, clientVars, journalVars, boundVars
    <2>2. held' \in SUBSET Envs /\ rests' \in SUBSET Envs
      <3>1. CASE SwapLands(o)
        <4> DEFINE reduced == OfferedReduced(TokenOf[o.env])
        <4>1. BuyLands(o.env) \/ SellLands(o.env, reduced)
          BY <3>1 DEF SwapLands
        <4>2. reduced \in BOOLEAN
          BY DEF OfferedReduced
        <4> HIDE DEF reduced
        <4>3. QED
          BY <4>1, <4>2, ChainTypes
      <3>2. CASE SwapInDoubt(o) \/ NothingSwapped(o)
        BY <3>2 DEF SwapInDoubt, NothingSwapped, chainVars
      <3>3. QED
        BY <1>10, <3>1, <3>2 DEF Swap
    <2>3. sends' \in [Envs -> Nat]
      BY <1>10, OrderFields DEF Swap, SwapLands, SwapInDoubt, NothingSwapped, Leaves, chainVars
    <2>4. afloat' \in SUBSET doubted' /\ doubted' \in SUBSET Order
      BY <1>10 DEF Swap, SwapLands, SwapInDoubt, NothingSwapped, chainVars
    <2>5. QED
      BY <2>1, <2>2, <2>3, <2>4
  <1>11. ASSUME NEW o \in Order, JournalOrder(o) PROVE RestTypes'
    <2> DEFINE row(r) == [kind |-> o.side, lot |-> o.env, fill |-> r]
    <2>1. /\ DiskWorks \/ DiskFails
          /\ ordersJournal' \in {ordersJournal, Append(ordersJournal, row(result)),
                                 Append(ordersJournal, row("none"))}
          /\ UNCHANGED <<feed, published, cursor, processedEnvIds, positionsJournal, held, due, sends, rests, afloat, doubted,
                         mode, crashes>>
      BY <1>11 DEF JournalOrder, clientVars, worldVars, chainVars
    <2>2. result \in Result /\ "none" \in Result
      BY DEF QueueInv, SubmitHolds, Result
    <2>3. row(result) \in OrderRow /\ row("none") \in OrderRow
      BY <2>2, RowTypes, OrderFields
    <2> HIDE DEF row
    <2>4. ordersJournal' \in Seq(OrderRow)
      <3>1. /\ Append(ordersJournal, row(result)) \in Seq(OrderRow)
            /\ Append(ordersJournal, row("none")) \in Seq(OrderRow)
        BY <2>3, AppendTypes
      <3>2. QED
        BY <2>1, <3>1
    <2>5. faults' \in 0..MaxFaults
      BY <2>1, DiskTypes
    <2>6. QED
      BY <2>1, <2>4, <2>5
  <1>12. ASSUME NEW o \in Order, BuySettles(o) PROVE RestTypes'
    <2> DEFINE row == [kind |-> "open", lot |-> o.env, reason |-> "none"]
    <2>1. /\ faults' = faults \/ DiskFails
          /\ positionsJournal' \in {positionsJournal, Append(positionsJournal, row)}
          /\ processedEnvIds' \in {processedEnvIds, processedEnvIds \ {o.env}}
          /\ UNCHANGED <<feed, published, cursor, ordersJournal, held, due, sends, rests, afloat, doubted, mode, crashes>>
      BY <1>12 DEF BuySettles, worldVars, chainVars, DiskWorks
    <2>2. row \in PositionRow
      BY RowTypes, OrderFields
    <2> HIDE DEF row
    <2>3. positionsJournal' \in Seq(PositionRow)
      <3>1. Append(positionsJournal, row) \in Seq(PositionRow)
        BY <2>2, AppendTypes
      <3>2. QED
        BY <2>1, <3>1
    <2>4. faults' \in 0..MaxFaults
      BY <2>1, DiskTypes
    <2>5. QED
      BY <2>1, <2>3, <2>4
  <1>13. ASSUME NEW o \in Order, SellSettles(o) PROVE RestTypes'
    BY <1>13 DEF SellSettles, clientVars, journalVars, worldVars, chainVars, boundVars
  <1>14. ASSUME Restart PROVE RestTypes'
    <2>1. /\ feed' \in {feed, <<>>} /\ cursor' = 0 /\ crashes' = crashes + 1
          /\ processedEnvIds' = EnvIdsInOrders /\ mode' \in Modes
          /\ UNCHANGED <<published, ordersJournal, positionsJournal, held, due, sends, rests, afloat, doubted, faults>>
      BY <1>14 DEF Restart, journalVars, worldVars, chainVars
    <2>2. feed' \in Seq(Envs) /\ cursor' \in 0..Len(feed')
      <3>1. <<>> \in Seq(Envs) /\ feed \in Seq(Envs)
        OBVIOUS
      <3>2. \A q \in Seq(Envs) : Len(q) \in Nat /\ 0 \in 0..Len(q)
        OBVIOUS
      <3>3. QED
        BY <2>1, <3>1, <3>2
    <2>4. EnvIdsInOrders \in SUBSET Envs
      BY EnvIdsAreEnvs DEF JournalTypes
    <2>5. crashes' \in Nat
      BY <2>1
    <2>6. QED
      BY <2>1, <2>2, <2>4, <2>5
  <1>15. ASSUME NEW o \in Order, Lands(o) PROVE RestTypes'
    <2>1. /\ UNCHANGED <<feed, published, cursor, processedEnvIds, ordersJournal, positionsJournal, due,
                         sends, doubted, mode, faults, crashes>>
          /\ afloat' = afloat \ {o}
      BY <1>15 DEF Lands, clientVars, journalVars, boundVars
    <2>2. held' \in SUBSET Envs /\ rests' \in SUBSET Envs
      BY <1>15, ChainTypes DEF Lands
    <2>3. QED
      BY <2>1, <2>2
  <1>16. QED
    BY <1>1, <1>2, <1>3, <1>4, <1>5, <1>6, <1>7, <1>8, <1>9, <1>10, <1>11, <1>12, <1>13, <1>14, <1>15
       DEF Next, Monitoring, Submit, MessageLands
-----------------------------------------------------------------------------
(* The tasks.  Most steps touch the position and the task of one token.      *)
MapTypes == /\ scan \in {"idle", "ingest", "monitor"}
            /\ positions \in [Tokens -> Position \cup {NoPosition}]
            /\ monitor \in [Tokens -> Task \cup {NoTask}]

MarkAt(t) == faults = 0 /\ positions[t] # NoPosition /\ positions[t].exitInFlight
               => monitor[t].step = "selling"

OnlyTouches(t) == /\ \A u \in Tokens : u # t => positions'[u] = positions[u] /\ monitor'[u] = monitor[u]
                  /\ scan' = scan /\ faults' \in {faults, faults + 1}

LEMMA Marks == NoStuckExit <=> \A t \in Tokens : MarkAt(t)
BY DEF NoStuckExit, MarkAt, Tracked

LEMMA BoundGrows ==
  ASSUME NEW b \in Nat, NEW f \in Nat, NEW g \in {f, f + 1}, NEW n \in Int, n < b + f
  PROVE  n < b + g
OBVIOUS

LEMMA PositiveBound == \A b \in Nat \ {0}, f \in Nat : 0 < b + f
OBVIOUS

LEMMA TouchedTask ==
  ASSUME RestTypes, TasksInv, NEW t \in Tokens, OnlyTouches(t), MapTypes',
         PositionAt(t)', TaskAt(t)', MarkAt(t)'
  PROVE  TaskTypes' /\ NoStuckExit'
PROOF
  <1>1. \A u \in Tokens : PositionAt(u) /\ TaskAt(u) /\ MarkAt(u)
    BY Marks DEF TasksInv, TaskTypes
  <1>2. \A u \in Tokens : u # t => (PositionAt(u) /\ TaskAt(u) /\ MarkAt(u))'
    <2> SUFFICES ASSUME NEW u \in Tokens, u # t PROVE (PositionAt(u) /\ TaskAt(u) /\ MarkAt(u))'
      OBVIOUS
    <2>1. positions'[u] = positions[u] /\ monitor'[u] = monitor[u] /\ scan' = scan
      BY DEF OnlyTouches
    <2>2. faults \in Nat /\ BounceLimit \in Nat /\ faults' \in {faults, faults + 1}
      BY ConstantFacts DEF RestTypes, OnlyTouches
    <2>3. \A n \in Int : n < BounceLimit + faults => n < BounceLimit + faults'
      BY <2>2, BoundGrows
    <2>4. faults' = 0 => faults = 0
      BY <2>2
    <2>5. positions[u] # NoPosition => positions[u].bounces \in Int
      BY DEF TasksInv, TaskTypes, Position
    <2>6. monitor[u] # NoTask => Snap(u).bounces \in Int
      BY TaskFacts DEF TasksInv, Position
    <2>7. PositionAt(u)'
      BY <1>1, <2>1, <2>3, <2>5 DEF PositionAt
    <2>8. TaskAt(u)'
      BY <1>1, <2>1, <2>3, <2>6 DEF TaskAt, Snap
    <2>9. MarkAt(u)'
      BY <1>1, <2>1, <2>4 DEF MarkAt
    <2>10. QED
      BY <2>7, <2>8, <2>9
  <1>3. \A u \in Tokens : (PositionAt(u) /\ TaskAt(u) /\ MarkAt(u))'
    BY <1>2
  <1>4. TaskTypes'
    BY <1>3 DEF TaskTypes, MapTypes
  <1>5. NoStuckExit'
    BY <1>3 DEF NoStuckExit, MarkAt, Tracked
  <1>6. QED
    BY <1>4, <1>5

(* Writing one entry of the two maps.                                        *)
LEMMA SetPosition ==
  ASSUME MapTypes, NEW t \in Tokens, NEW q \in Position \cup {NoPosition},
         positions' = [positions EXCEPT ![t] = q]
  PROVE  /\ positions' \in [Tokens -> Position \cup {NoPosition}] /\ positions'[t] = q
         /\ \A u \in Tokens : u # t => positions'[u] = positions[u]
BY DEF MapTypes

LEMMA SetTask ==
  ASSUME MapTypes, NEW t \in Tokens, NEW k \in Task \cup {NoTask},
         monitor' = [monitor EXCEPT ![t] = k]
  PROVE  /\ monitor' \in [Tokens -> Task \cup {NoTask}] /\ monitor'[t] = k
         /\ \A u \in Tokens : u # t => monitor'[u] = monitor[u]
BY DEF MapTypes

LEMMA TypesOfMaps == TasksInv => MapTypes
BY DEF TasksInv, TaskTypes, MapTypes

(* A task that ends with the position of its token dropped or unmarked.      *)
LEMMA TaskEndsWell ==
  ASSUME RestTypes, TasksInv, NEW t \in Tokens, NEW q \in Position \cup {NoPosition},
         positions' = [positions EXCEPT ![t] = q], TaskEnds(t),
         q # NoPosition => TokenOf[q.lot] = t /\ q.bounces < BounceLimit + faults',
         faults' = 0 /\ q # NoPosition => ~q.exitInFlight,
         scan' = scan, faults' \in {faults, faults + 1}
  PROVE  TaskTypes' /\ NoStuckExit'
PROOF
  <1>1. MapTypes
    BY TypesOfMaps
  <1>2. /\ positions' \in [Tokens -> Position \cup {NoPosition}] /\ positions'[t] = q
        /\ \A u \in Tokens : u # t => positions'[u] = positions[u]
    BY <1>1, SetPosition
  <1>3. /\ monitor' \in [Tokens -> Task \cup {NoTask}] /\ monitor'[t] = NoTask
        /\ \A u \in Tokens : u # t => monitor'[u] = monitor[u]
    BY <1>1, SetTask DEF TaskEnds
  <1>4. OnlyTouches(t) /\ MapTypes'
    BY <1>1, <1>2, <1>3 DEF OnlyTouches, MapTypes
  <1>5. PositionAt(t)' /\ TaskAt(t)' /\ MarkAt(t)'
    BY <1>2, <1>3 DEF PositionAt, TaskAt, MarkAt
  <1>6. QED
    BY <1>4, <1>5, TouchedTask

(* The exits: those pending have the tasks they had.                         *)
LEMMA PendingExitsHeld ==
  ASSUME TasksInv, resolved' \in {resolved, NoExit},
         \A o \in Sells : IsPending(o)' => IsPending(o) /\ monitor'[TokenOf[o.env]] = monitor[TokenOf[o.env]],
         resolved' # NoExit => monitor'[TokenOf[resolved.lot]] = monitor[TokenOf[resolved.lot]]
  PROVE  ExitsHaveTasks' /\ OneExitPerPosition'
PROOF
  <1>1. \A o \in Sells : IsPending(o)' => SellingLot(o.env)'
    BY DEF TasksInv, ExitsHaveTasks, SellingLot, Snap
  <1>2. resolved' # NoExit => SellingLot(resolved.lot)' /\ resolved' = resolved
    BY DEF TasksInv, ExitsHaveTasks, SellingLot, Snap
  <1>3. OneExitPerPosition'
    BY DEF TasksInv, OneExitPerPosition, IsPending
  <1>4. QED
    BY <1>1, <1>2, <1>3 DEF TasksInv, ExitsHaveTasks

(* A token whose task does not sell has no exit pending or settled.          *)
LEMMA NoExitUnlessSelling ==
  ASSUME TasksInv, NEW t \in Tokens, monitor[t].step # "selling"
  PROVE  /\ \A o \in Sells : IsPending(o) => TokenOf[o.env] # t
         /\ resolved # NoExit => TokenOf[resolved.lot] # t
BY DEF TasksInv, ExitsHaveTasks, SellingLot

LEMMA SellsAreOrders == \A o \in Sells : o \in Order /\ o.side = "sell" /\ TokenOf[o.env] \in Tokens
BY OrderFields DEF Sells

(* An enqueued order waits, and the others are as before.                    *)
LEMMA EnqueuedWaits ==
  ASSUME QueueInv, NEW o \in Order, OrderQ!Enqueue(o)
  PROVE  /\ outcome[o] = "new" /\ outcome'[o] = "waiting" /\ executing' = executing
         /\ ~IsPending(o) /\ \A p \in Order : p # o => outcome'[p] = outcome[p]
BY DEF OrderQ!Enqueue, QueueInv, QueuesWait, IsPending, Pending

LEMMA TasksStep ==
  ASSUME QueueInv, RestTypes, TasksInv, [Next]_vars
  PROVE  TasksInv'
PROOF
  <1> DEFINE Exits == ExitsHaveTasks' /\ OneExitPerPosition' /\ ThrownByFaults'
  <1>0. /\ MapTypes /\ faults \in Nat /\ BounceLimit \in Nat \ {0} /\ MaxFaults \in Nat
        /\ faults \in 0..MaxFaults
    BY TypesOfMaps, ConstantFacts DEF RestTypes
  <1>a. SUFFICES (TaskTypes' /\ NoStuckExit') /\ Exits
    BY DEF TasksInv
  <1>b. ASSUME UNCHANGED <<positions, monitor, scan, faults>> PROVE TaskTypes' /\ NoStuckExit'
    BY <1>b DEF TasksInv, TaskTypes, PositionAt, TaskAt, Snap, NoStuckExit, Tracked
  <1>c. ASSUME UNCHANGED <<outcome, monitor, resolved, result, faults>> PROVE Exits
    BY <1>c DEF TasksInv, ExitsHaveTasks, SellingLot, Snap, OneExitPerPosition, ThrownByFaults, IsPending
  <1>d. ASSUME UNCHANGED <<result, resolved, faults>> PROVE ThrownByFaults'
    BY <1>d DEF TasksInv, ThrownByFaults
  <1>1. ASSUME UNCHANGED vars PROVE (TaskTypes' /\ NoStuckExit') /\ Exits
    <2>1. UNCHANGED <<positions, monitor, scan, faults, outcome, resolved, result>>
      BY <1>1 DEF vars, clientVars, submitVars, boundVars, qvars
    <2>2. QED
      BY <2>1, <1>b, <1>c
  <1>2. ASSUME NEW e \in Envs, Publish(e) PROVE (TaskTypes' /\ NoStuckExit') /\ Exits
    <2>1. UNCHANGED <<positions, monitor, scan, faults, outcome, resolved, result>>
      BY <1>2 DEF Publish, submitVars, boundVars, qvars
    <2>2. QED
      BY <2>1, <1>b, <1>c
  <1>3. ASSUME NEW t \in Tokens, TimeStopPasses(t) PROVE (TaskTypes' /\ NoStuckExit') /\ Exits
    <2>1. UNCHANGED <<positions, monitor, scan, faults, outcome, resolved, result>>
      BY <1>3 DEF TimeStopPasses, clientVars, submitVars, boundVars, qvars
    <2>2. QED
      BY <2>1, <1>b, <1>c
  <1>4. ASSUME ScanBegins \/ MonitoringEnds PROVE (TaskTypes' /\ NoStuckExit') /\ Exits
    <2>1. /\ UNCHANGED <<positions, monitor, faults, outcome, resolved, result>>
          /\ scan' \in {"ingest", "idle"}
          /\ \A t \in Tokens : monitor[t] = NoTask
      BY <1>4 DEF ScanBegins, MonitoringEnds, submitVars, boundVars, qvars, TasksInv, TaskTypes, TaskAt
    <2>2. TaskTypes' /\ NoStuckExit'
      BY <2>1 DEF TasksInv, TaskTypes, PositionAt, TaskAt, NoStuckExit, Tracked
    <2>3. QED
      BY <2>1, <2>2, <1>c
  <1>5. ASSUME IngestRow PROVE (TaskTypes' /\ NoStuckExit') /\ Exits
    <2>1. UNCHANGED <<positions, monitor, scan, faults, resolved, result>>
      BY <1>5 DEF IngestRow, submitVars, boundVars
    <2>2. Exits
      <3>1. CASE UNCHANGED qvars
        BY <2>1, <3>1, <1>c DEF qvars
      <3>2. CASE ~UNCHANGED qvars
        <4> DEFINE e == feed[cursor + 1]
                   o == FreshOrder("buy", e)
        <4>1. CanIssue("buy", e) /\ OrderQ!Enqueue(o)
          BY <1>5, <3>2 DEF IngestRow
        <4> HIDE DEF e
        <4>2. o \in Order /\ o.side = "buy"
          BY <4>1, FreshOrderIsNew
        <4> HIDE DEF o
        <4>3. o \notin Sells /\ \A p \in Order : p # o => outcome'[p] = outcome[p]
          BY <4>1, <4>2, OrderFields, EnqueuedWaits
        <4>4. \A p \in Sells : IsPending(p)' => IsPending(p)
          BY <4>3, SellsAreOrders DEF IsPending
        <4>5. QED
          BY <2>1, <4>4, <1>d, PendingExitsHeld
      <3>3. QED
        BY <3>1, <3>2
    <2>3. QED
      BY <2>1, <2>2, <1>b
  <1>6. ASSUME MonitoringBegins PROVE (TaskTypes' /\ NoStuckExit') /\ Exits
    <2>1. /\ UNCHANGED <<positions, faults, outcome, resolved, result>> /\ scan = "ingest"
          /\ \A t \in Tokens : monitor[t] = NoTask
      BY <1>6 DEF MonitoringBegins, submitVars, boundVars, qvars, TasksInv, TaskTypes, TaskAt
    <2> DEFINE stepped == {t \in Tracked : ~positions[t].exitInFlight}
    <2>2. /\ scan' = IF stepped = {} THEN "idle" ELSE "monitor"
          /\ monitor' = [t \in Tokens |-> IF t \in stepped
                                            THEN [step |-> "pricing", snap |-> positions[t],
                                                  whole |-> ~positions[t].taken]
                                            ELSE monitor[t]]
      BY <1>6 DEF MonitoringBegins
    <2>3. \A t \in stepped : /\ t \in Tokens /\ positions[t] # NoPosition /\ positions[t] \in Position
                             /\ ~positions[t].exitInFlight /\ scan' = "monitor"
                             /\ monitor'[t] = [step |-> "pricing", snap |-> positions[t],
                                               whole |-> ~positions[t].taken]
      BY <2>2 DEF Tracked, TasksInv, TaskTypes
    <2>4. \A t \in Tokens : t \notin stepped => monitor'[t] = NoTask
      BY <2>1, <2>2
    <2>5. monitor' \in [Tokens -> Task \cup {NoTask}]
      <3>1. \A q \in Position, b \in BOOLEAN : [step |-> "pricing", snap |-> q, whole |-> b] \in Task
        BY DEF Task
      <3>2. \A t \in stepped : (~positions[t].taken) \in BOOLEAN
        OBVIOUS
      <3> HIDE DEF stepped
      <3>4. \A t \in Tokens : monitor'[t] \in Task \cup {NoTask}
        BY <2>3, <2>4, <3>1, <3>2
      <3>3. QED
        BY <2>2, <3>4
    <2>6. \A t \in Tokens : PositionAt(t)' /\ TaskAt(t)'
      <3>1. \A t \in Tokens : PositionAt(t)
        BY DEF TasksInv, TaskTypes
      <3> HIDE DEF stepped
      <3> SUFFICES ASSUME NEW t \in Tokens PROVE PositionAt(t)' /\ TaskAt(t)'
        OBVIOUS
      <3>2. PositionAt(t)'
        BY <2>1, <3>1 DEF PositionAt
      <3>3. CASE t \notin stepped
        BY <2>4, <3>2, <3>3 DEF TaskAt
      <3>4. CASE t \in stepped
        <4>0. /\ monitor'[t] = [step |-> "pricing", snap |-> positions[t], whole |-> ~positions[t].taken]
              /\ scan' = "monitor" /\ positions[t] # NoPosition /\ ~positions[t].exitInFlight
          BY <2>3, <3>4, Zenon
        <4>1. /\ monitor'[t].snap = positions[t] /\ scan' = "monitor" /\ positions[t] # NoPosition
              /\ ~positions[t].exitInFlight
          BY <4>0
        <4>2. QED
          BY <2>1, <3>1, <3>2, <4>1 DEF PositionAt, TaskAt, Snap
      <3>5. QED
        BY <3>3, <3>4
    <2>7. TaskTypes'
      BY <2>1, <2>2, <2>5, <2>6 DEF TaskTypes, TasksInv
    <2>8. NoStuckExit'
      <3>1. \A t \in Tokens : monitor[t].step # "selling"
        BY <2>1 DEF NoTask
      <3>2. QED
        BY <2>1, <3>1 DEF TasksInv, NoStuckExit, Tracked
    <2>9. /\ \A o \in Sells : ~IsPending(o)
          /\ resolved = NoExit
      <3>1. \A t \in Tokens : monitor[t].step # "selling"
        BY <2>1 DEF NoTask
      <3>2. resolved # NoExit => TokenOf[resolved.lot] \in Tokens
        BY ConstantFacts DEF QueueInv, SubmitHolds
      <3>3. QED
        BY <3>1, <3>2, NoExitUnlessSelling, SellsAreOrders
    <2>10. ExitsHaveTasks' /\ OneExitPerPosition'
      BY <2>1, <2>9, PendingExitsHeld DEF IsPending
    <2>11. QED
      BY <2>1, <2>7, <2>8, <2>10, <1>d
  <1>7. ASSUME NEW t \in Tokens, StepHolds(t) PROVE (TaskTypes' /\ NoStuckExit') /\ Exits
    <2>1. /\ positions' = [positions EXCEPT ![t] = Snap(t)] /\ TaskEnds(t) /\ monitor[t].step = "pricing"
          /\ UNCHANGED <<scan, faults, outcome, resolved, result>>
      BY <1>7 DEF StepHolds, Snap, Priced, submitVars, boundVars, qvars
    <2>2. /\ Snap(t) \in Position /\ TokenOf[Snap(t).lot] = t
          /\ Snap(t).bounces < BounceLimit + faults /\ ~Snap(t).exitInFlight
      BY <2>1, TaskFacts DEF TasksInv
    <2>3. TaskTypes' /\ NoStuckExit'
      BY <2>1, <2>2, TaskEndsWell
    <2>4. \A u \in Tokens : u # t => monitor'[u] = monitor[u]
      BY <2>1, <1>0, SetTask DEF TaskEnds
    <2>5. ExitsHaveTasks' /\ OneExitPerPosition'
      <3>1. resolved # NoExit => TokenOf[resolved.lot] \in Tokens
        BY ConstantFacts DEF QueueInv, SubmitHolds
      <3>2. QED
        BY <2>1, <2>4, <3>1, NoExitUnlessSelling, SellsAreOrders, PendingExitsHeld DEF IsPending
    <2>6. QED
      BY <2>1, <2>3, <2>5, <1>d
  <1>8. ASSUME NEW t \in Tokens, StepEvictsDust(t) PROVE (TaskTypes' /\ NoStuckExit') /\ Exits
    <2>1. /\ positions' = [positions EXCEPT ![t] = NoPosition] /\ TaskEnds(t) /\ monitor[t].step = "pricing"
          /\ UNCHANGED <<scan, resolved, result, stage>> /\ resolved = NoExit
          /\ OrderQ!NotifySlotAvailable \/ UNCHANGED qvars
          /\ faults' \in {faults, faults + 1}
      BY <1>8 DEF StepEvictsDust, Priced, Idle, submitVars, DiskWorks, DiskFails
    <2>2. UNCHANGED outcome
      BY <2>1, NotifyKeepsQueue
    <2>3. TaskTypes' /\ NoStuckExit'
      BY <2>1, TaskEndsWell
    <2>4. \A u \in Tokens : u # t => monitor'[u] = monitor[u]
      BY <2>1, <1>0, SetTask DEF TaskEnds
    <2>5. ExitsHaveTasks' /\ OneExitPerPosition'
      BY <2>1, <2>2, <2>4, NoExitUnlessSelling, SellsAreOrders, PendingExitsHeld DEF IsPending
    <2>6. ThrownByFaults'
      BY <2>1, <1>0 DEF TasksInv, ThrownByFaults
    <2>7. QED
      BY <2>3, <2>5, <2>6
  <1>9. ASSUME NEW t \in Tokens, StepExits(t) PROVE (TaskTypes' /\ NoStuckExit') /\ Exits
    <2> DEFINE o == FreshOrder("sell", Snap(t).lot)
    <2>0. PICK q \in Position, k \in Task :
            /\ positions' = [positions EXCEPT ![t] = q] /\ monitor' = [monitor EXCEPT ![t] = k]
            /\ q.lot = Snap(t).lot /\ q.bounces = Snap(t).bounces /\ q.exitInFlight
            /\ k.step = "selling" /\ k.whole = monitor[t].whole
            /\ k.snap.lot = Snap(t).lot /\ k.snap.bounces = Snap(t).bounces /\ ~k.snap.exitInFlight
      BY <1>9, ExitMarks DEF TasksInv
    <2>1. /\ monitor[t].step = "pricing" /\ CanIssue("sell", Snap(t).lot) /\ OrderQ!Enqueue(o)
          /\ UNCHANGED <<scan, faults, resolved, result>> /\ resolved = NoExit
      BY <1>9 DEF StepExits, Snap, Priced, Idle, submitVars, boundVars
    <2>2. /\ monitor[t] \in Task /\ Snap(t) \in Position /\ TokenOf[Snap(t).lot] = t
          /\ Snap(t).bounces < BounceLimit + faults /\ ~Snap(t).exitInFlight /\ scan = "monitor"
      BY <2>1, TaskFacts DEF TasksInv
    <2>5. o \in Order /\ o.side = "sell" /\ o.env = Snap(t).lot
      BY <2>1, FreshOrderIsNew
    <2> HIDE DEF o
    <2>6. /\ positions' \in [Tokens -> Position \cup {NoPosition}] /\ positions'[t] = q
          /\ \A u \in Tokens : u # t => positions'[u] = positions[u]
      BY <2>0, <1>0, SetPosition
    <2>7. /\ monitor' \in [Tokens -> Task \cup {NoTask}] /\ monitor'[t] = k
          /\ \A u \in Tokens : u # t => monitor'[u] = monitor[u]
      BY <2>0, <1>0, SetTask
    <2>8. MapTypes' /\ OnlyTouches(t)
      BY <2>1, <2>6, <2>7, <1>0 DEF MapTypes, OnlyTouches
    <2>9. PositionAt(t)' /\ TaskAt(t)' /\ MarkAt(t)'
      <3>1. q # NoPosition
        BY NoRecord
      <3>2. QED
        BY <2>0, <2>1, <2>2, <2>6, <2>7, <3>1 DEF PositionAt, TaskAt, MarkAt, Snap
    <2>10. /\ outcome'[o] = "waiting" /\ o \in Sells
           /\ \A p \in Order : p # o => outcome'[p] = outcome[p]
      BY <2>1, <2>5, EnqueuedWaits, OrderFields
    <2>11. \A p \in Sells : IsPending(p) => TokenOf[p.env] # t
      BY <2>1, NoExitUnlessSelling
    <2>12. ExitsHaveTasks'
      <3>1. \A p \in Sells : IsPending(p)' => SellingLot(p.env)'
        <4> SUFFICES ASSUME NEW p \in Sells, IsPending(p)' PROVE SellingLot(p.env)'
          OBVIOUS
        <4>1. CASE p = o
          BY <2>0, <2>2, <2>5, <2>7, <4>1 DEF SellingLot, Snap
        <4>2. CASE p # o
          <5>1. IsPending(p) /\ TokenOf[p.env] # t /\ TokenOf[p.env] \in Tokens
            BY <2>10, <2>11, <4>2, SellsAreOrders DEF IsPending
          <5>2. QED
            BY <2>7, <5>1 DEF TasksInv, ExitsHaveTasks, SellingLot, Snap
        <4>3. QED
          BY <4>1, <4>2
      <3>2. QED
        BY <2>1, <3>1 DEF ExitsHaveTasks
    <2>13. OneExitPerPosition'
      <3> SUFFICES ASSUME NEW p \in Sells, NEW r \in Sells, outcome'[p] \in Pending, outcome'[r] \in Pending,
                          TokenOf[p.env] = TokenOf[r.env]
                   PROVE  p = r
        BY DEF OneExitPerPosition
      <3>1. p # o => IsPending(p) /\ TokenOf[p.env] # t
        BY <2>10, <2>11, SellsAreOrders DEF IsPending
      <3>2. r # o => IsPending(r) /\ TokenOf[r.env] # t
        BY <2>10, <2>11, SellsAreOrders DEF IsPending
      <3>3. TokenOf[o.env] = t
        BY <2>2, <2>5
      <3>4. QED
        BY <3>1, <3>2, <3>3 DEF TasksInv, OneExitPerPosition, IsPending
    <2>14. TaskTypes' /\ NoStuckExit'
      BY <2>8, <2>9, TouchedTask
    <2>15. QED
      BY <2>1, <2>12, <2>13, <2>14, <1>d
  <1>10. ASSUME NEW t \in Tokens, ExitCloses(t) \/ ExitBounces(t) \/ ExitThrows(t)
         PROVE  (TaskTypes' /\ NoStuckExit') /\ Exits
    <2> DEFINE retry == [Snap(t) EXCEPT !.bounces = Snap(t).bounces + 1]
    <2>1. ExitResumes(t)
      BY <1>10 DEF ExitCloses, ExitBounces, ExitThrows
    <2>2. /\ TaskEnds(t) /\ UNCHANGED <<scan, stage, result>> /\ resolved' = NoExit
          /\ TokenOf[resolved.lot] = t /\ resolved # NoExit
      BY <2>1 DEF ExitResumes
    <2>3. /\ monitor[t] # NoTask /\ Snap(t) \in Position /\ TokenOf[Snap(t).lot] = t
          /\ Snap(t).bounces < BounceLimit + faults /\ ~Snap(t).exitInFlight
      BY <2>1, ResumingTask, TaskFacts DEF TasksInv
    <2>4. /\ OrderQ!NotifySlotAvailable \/ UNCHANGED qvars
          /\ faults' \in {faults, faults + 1}
      BY <1>10 DEF ExitCloses, ExitBounces, ExitThrows, ClosePosition, DiskWorks, DiskFails
    <2>5. UNCHANGED outcome
      BY <2>2, <2>4, NotifyKeepsQueue
    <2>6. /\ Snap(t).bounces \in Nat /\ Snap(t).bounces + 1 <= BounceLimit + faults
          /\ retry.lot = Snap(t).lot /\ retry.bounces = Snap(t).bounces + 1 /\ ~retry.exitInFlight
          /\ Snap(t).bounces + 1 \in 0..BounceLimit + MaxFaults - 1 => retry \in Position
      BY <2>3, <1>0 DEF Position
    <2>7. \/ positions' = [positions EXCEPT ![t] = NoPosition]
          \/ positions' = positions /\ faults' > 0
          \/ /\ positions' = [positions EXCEPT ![t] = retry]
             /\ \/ Snap(t).bounces + 1 < BounceLimit /\ faults' = faults
                \/ faults < MaxFaults /\ faults' = faults + 1
      <3>1. CASE ExitCloses(t)
        BY <3>1, <1>0 DEF ExitCloses, ClosePosition, DiskFails
      <3>2. CASE ExitBounces(t)
        BY <3>2, <1>0 DEF ExitBounces, ClosePosition, DiskFails, Snap
      <3>3. CASE ExitThrows(t)
        <4>1. resolved.result = "threw" /\ UNCHANGED <<positions, faults>>
          BY <3>3 DEF ExitThrows
        <4>2. faults > 0
          BY <2>2, <4>1 DEF TasksInv, ThrownByFaults
        <4>3. QED
          BY <4>1, <4>2
      <3>4. QED
        BY <1>10, <3>1, <3>2, <3>3
    <2> HIDE DEF retry
    <2>8. TaskTypes' /\ NoStuckExit'
      <3>1. CASE positions' = [positions EXCEPT ![t] = NoPosition]
        BY <2>2, <2>4, <3>1, TaskEndsWell
      <3>2. CASE positions' = positions /\ faults' > 0
        <4> DEFINE q == positions[t]
        <4>1. /\ q \in Position \cup {NoPosition} /\ positions' = [positions EXCEPT ![t] = q]
              /\ q # NoPosition => TokenOf[q.lot] = t /\ q.bounces < BounceLimit + faults
          BY <3>2, <1>0 DEF MapTypes, TasksInv, TaskTypes, PositionAt
        <4>2. q # NoPosition => q.bounces \in Int
          BY <4>1 DEF Position
        <4> HIDE DEF q
        <4>3. q # NoPosition => q.bounces < BounceLimit + faults'
          BY <2>4, <4>1, <4>2, <1>0, BoundGrows
        <4>4. faults' # 0
          BY <3>2, <2>4, <1>0
        <4>5. QED
          BY <2>2, <2>4, <4>1, <4>3, <4>4, TaskEndsWell
      <3>3. CASE /\ positions' = [positions EXCEPT ![t] = retry]
                 /\ \/ Snap(t).bounces + 1 < BounceLimit /\ faults' = faults
                    \/ faults < MaxFaults /\ faults' = faults + 1
        <4>1. /\ Snap(t).bounces + 1 \in 0..BounceLimit + MaxFaults - 1
              /\ Snap(t).bounces + 1 < BounceLimit + faults'
          BY <2>6, <3>3, <1>0
        <4>2. retry \in Position /\ retry.bounces < BounceLimit + faults' /\ TokenOf[retry.lot] = t
          BY <2>3, <2>6, <4>1
        <4>3. QED
          BY <2>2, <2>4, <2>6, <3>3, <4>2, TaskEndsWell
      <3>4. QED
        BY <2>7, <3>1, <3>2, <3>3
    <2>9. \A u \in Tokens : u # t => monitor'[u] = monitor[u]
      BY <2>2, <1>0, SetTask DEF TaskEnds
    <2>10. \A o \in Sells : IsPending(o) => TokenOf[o.env] # t
      BY <2>2 DEF TasksInv, ExitsHaveTasks
    <2>11. ExitsHaveTasks' /\ OneExitPerPosition'
      BY <2>2, <2>5, <2>9, <2>10, SellsAreOrders, PendingExitsHeld DEF IsPending
    <2>12. ThrownByFaults'
      BY <2>2, <2>4, <1>0 DEF TasksInv, ThrownByFaults
    <2>13. QED
      BY <2>8, <2>11, <2>12
  <1>11. ASSUME Worker PROVE (TaskTypes' /\ NoStuckExit') /\ Exits
    <2>1. UNCHANGED <<positions, monitor, scan, faults, resolved, result>>
      BY <1>11 DEF Worker, clientVars, boundVars
    <2>2. \A o \in Order : IsPending(o)' <=> IsPending(o)
      <3>1. CASE UNCHANGED outcome
        BY <3>1 DEF IsPending
      <3>2. ASSUME NEW o \in Order, Dispatches(o) PROVE \A p \in Order : IsPending(p)' <=> IsPending(p)
        BY <3>2 DEF Dispatches, IsPending, Pending, QueueInv, QueuesWait
      <3>3. QED
        BY <1>11, <3>1, <3>2, WorkerDispatches
    <2>3. ExitsHaveTasks' /\ OneExitPerPosition'
      BY <2>1, <2>2, SellsAreOrders, PendingExitsHeld
    <2>4. QED
      BY <2>1, <2>3, <1>b, <1>d
  <1>12. ASSUME NEW o \in Order, Swap(o) PROVE (TaskTypes' /\ NoStuckExit') /\ Exits
    <2>1. UNCHANGED <<positions, monitor, scan, faults, resolved, outcome>>
      BY <1>12 DEF Swap, clientVars, boundVars, qvars
    <2>2. result' # "threw"
      BY <1>12 DEF Swap, SwapLands, SwapInDoubt, NothingSwapped
    <2>3. ThrownByFaults'
      BY <2>1, <2>2 DEF TasksInv, ThrownByFaults
    <2>4. ExitsHaveTasks' /\ OneExitPerPosition'
      BY <2>1, PendingExitsHeld DEF IsPending
    <2>5. QED
      BY <2>1, <2>3, <2>4, <1>b
  <1>13. ASSUME NEW o \in Order, JournalOrder(o) PROVE (TaskTypes' /\ NoStuckExit') /\ Exits
    <2>1. /\ UNCHANGED <<positions, monitor, scan, resolved, outcome>>
          /\ \/ faults' = faults /\ result' = result
             \/ faults' = faults + 1
      BY <1>13 DEF JournalOrder, clientVars, qvars, DiskWorks, DiskFails
    <2>2. ThrownByFaults'
      BY <2>1, <1>0 DEF TasksInv, ThrownByFaults
    <2>3. ExitsHaveTasks' /\ OneExitPerPosition'
      BY <2>1, PendingExitsHeld DEF IsPending
    <2>4. TaskTypes' /\ NoStuckExit'
      <3>1. \A t \in Tokens : PositionAt(t) /\ TaskAt(t) /\ MarkAt(t)
        BY Marks DEF TasksInv, TaskTypes
      <3>2. \A t \in Tokens : OnlyTouches(t)
        BY <2>1 DEF OnlyTouches
      <3>3. MapTypes'
        BY <2>1, <1>0 DEF MapTypes
      <3>4. CASE Tokens = {}
        BY <2>1, <3>3, <3>4 DEF TaskTypes, MapTypes, NoStuckExit, Tracked
      <3>5. CASE Tokens # {}
        <4>1. PICK t \in Tokens : TRUE
          BY <3>5
        <4>2. positions[t] # NoPosition => positions[t].bounces \in Int
          BY DEF TasksInv, TaskTypes, Position
        <4>3. monitor[t] # NoTask => Snap(t).bounces \in Int
          BY TaskFacts DEF TasksInv, Position
        <4>4. faults' \in {faults, faults + 1}
          BY <2>1
        <4>5. \A n \in Int : n < BounceLimit + faults => n < BounceLimit + faults'
          BY <4>4, <1>0, BoundGrows
        <4>6. PositionAt(t)'
          BY <2>1, <3>1, <4>2, <4>5 DEF PositionAt
        <4>7. TaskAt(t)'
          BY <2>1, <3>1, <4>3, <4>5 DEF TaskAt, Snap
        <4>8. MarkAt(t)'
          BY <2>1, <3>1, <4>4, <1>0 DEF MarkAt
        <4>9. QED
          BY <3>2, <3>3, <4>6, <4>7, <4>8, TouchedTask
      <3>6. QED
        BY <3>4, <3>5
    <2>5. QED
      BY <2>2, <2>3, <2>4
  <1>14. ASSUME NEW o \in Order, BuySettles(o) PROVE (TaskTypes' /\ NoStuckExit') /\ Exits
    <2> DEFINE t == TokenOf[o.env]
    <2>1. /\ o.side = "buy" /\ stage' = "idle" /\ result' = "none"
          /\ UNCHANGED <<scan, monitor, resolved>>
          /\ \E r \in {"resolved", "rejected"} : OrderQ!SubmitSettles(o, r)
          /\ faults' \in {faults, faults + 1}
          /\ \/ positions' = positions
             \/ positions' = [positions EXCEPT ![t] = Opened(o.env)]
      BY <1>14 DEF BuySettles, DiskWorks, DiskFails
    <2>2. t \in Tokens /\ o.env \in Envs /\ o \notin Sells
      BY <2>1, OrderFields
    <2>3. \A p \in Sells : IsPending(p)' => IsPending(p)
      <3>1. \A p \in Order : p # o => outcome'[p] = outcome[p]
        BY <2>1, SettleKeepsQueue DEF QueueInv, QueuesWait
      <3>2. QED
        BY <2>2, <3>1, SellsAreOrders DEF IsPending
    <2>4. ExitsHaveTasks' /\ OneExitPerPosition'
      BY <2>1, <2>3, PendingExitsHeld
    <2>5. ThrownByFaults'
      BY <2>1, <1>0 DEF TasksInv, ThrownByFaults
    <2>6. TaskTypes' /\ NoStuckExit'
      <3>1. /\ positions[t] \in Position \cup {NoPosition}
            /\ positions = [positions EXCEPT ![t] = positions[t]]
        BY <2>2, <1>0 DEF MapTypes
      <3>2. 0 \in 0..MaxFaults
        BY <1>0
      <3>3. /\ Opened(o.env) \in Position /\ Opened(o.env) # NoPosition /\ Opened(o.env).lot = o.env
            /\ ~Opened(o.env).exitInFlight /\ Opened(o.env).bounces < BounceLimit + 0
        BY <2>2, <3>2, OpenedIsPosition
      <3>4. PICK q \in {positions[t], Opened(o.env)} : positions' = [positions EXCEPT ![t] = q]
        BY <2>1, <3>1
      <3>5. /\ positions' \in [Tokens -> Position \cup {NoPosition}] /\ positions'[t] = q
            /\ \A u \in Tokens : u # t => positions'[u] = positions[u]
        BY <2>2, <3>1, <3>3, <3>4, <1>0, SetPosition
      <3>6. MapTypes' /\ OnlyTouches(t)
        BY <2>1, <3>5, <1>0 DEF MapTypes, OnlyTouches
      <3>7. positions[t] # NoPosition => positions[t].bounces \in Int
        BY <2>2 DEF TasksInv, TaskTypes, Position
      <3>8. monitor[t] # NoTask => Snap(t).bounces \in Int
        BY <2>2, TaskFacts DEF TasksInv, Position
      <3>9. \A n \in Int : n < BounceLimit + faults => n < BounceLimit + faults'
        BY <2>1, <1>0, BoundGrows
      <3>10. Opened(o.env).bounces < BounceLimit + faults'
        <4>1. Opened(o.env).bounces = 0
          BY DEF Opened
        <4>2. faults' \in Nat /\ BounceLimit \in Nat \ {0}
          BY <2>1, <1>0
        <4>3. 0 < BounceLimit + faults'
          BY <4>2, PositiveBound
        <4>4. QED
          BY <4>1, <4>3
      <3>11. PositionAt(t) /\ TaskAt(t) /\ MarkAt(t)
        BY <2>2, Marks DEF TasksInv, TaskTypes
      <3> HIDE DEF t
      <3>12. PositionAt(t)'
        BY <3>3, <3>5, <3>7, <3>9, <3>10, <3>11, <2>1, <2>2 DEF PositionAt, t
      <3>13. TaskAt(t)'
        BY <2>1, <3>3, <3>5, <3>8, <3>9, <3>11 DEF TaskAt, Snap
      <3>14. MarkAt(t)'
        BY <2>1, <3>3, <3>5, <3>11, <1>0 DEF MarkAt
      <3>15. QED
        BY <2>2, <3>6, <3>12, <3>13, <3>14, TouchedTask
    <2>7. QED
      BY <2>4, <2>5, <2>6
  <1>15. ASSUME NEW o \in Order, SellSettles(o) PROVE (TaskTypes' /\ NoStuckExit') /\ Exits
    <2>1. /\ o.side = "sell" /\ stage' = "idle" /\ result' = "none"
          /\ resolved' = [lot |-> o.env, result |-> result]
          /\ \E r \in {"resolved", "rejected"} : OrderQ!SubmitSettles(o, r)
          /\ UNCHANGED <<positions, scan, monitor, faults>>
      BY <1>15 DEF SellSettles, clientVars, boundVars
    <2>2. /\ outcome[o] = "executing" /\ outcome'[o] \in {"resolved", "rejected"}
          /\ \A p \in Order : p # o => outcome'[p] = outcome[p]
      BY <2>1, SettleKeepsQueue DEF QueueInv, QueuesWait
    <2>3. o \in Sells /\ IsPending(o) /\ ~IsPending(o)'
      BY <2>1, <2>2, OrderFields DEF IsPending, Pending
    <2>4. \A p \in Sells : IsPending(p)' => IsPending(p) /\ p # o
      BY <2>2, <2>3, SellsAreOrders DEF IsPending
    <2>5. resolved'.lot = o.env /\ resolved'.result = result
      BY <2>1
    <2>6. ExitsHaveTasks'
      <3>1. \A p \in Sells : IsPending(p)' => SellingLot(p.env)'
        BY <2>1, <2>4 DEF TasksInv, ExitsHaveTasks, SellingLot, Snap
      <3>2. SellingLot(resolved.lot)'
        BY <2>1, <2>3, <2>5 DEF TasksInv, ExitsHaveTasks, SellingLot, Snap
      <3>3. \A p \in Sells : IsPending(p)' => TokenOf[p.env] # TokenOf[o.env]
        BY <2>3, <2>4 DEF TasksInv, OneExitPerPosition, IsPending
      <3>4. QED
        BY <2>5, <3>1, <3>2, <3>3 DEF ExitsHaveTasks
    <2>7. OneExitPerPosition'
      BY <2>4 DEF TasksInv, OneExitPerPosition, IsPending
    <2>8. ThrownByFaults'
      BY <2>1, <2>5 DEF TasksInv, ThrownByFaults
    <2>9. QED
      BY <2>1, <2>6, <2>7, <2>8, <1>b
  <1>16. ASSUME Shutdown PROVE (TaskTypes' /\ NoStuckExit') /\ Exits
    <2>1. UNCHANGED <<positions, monitor, scan, faults, resolved, result>>
      BY <1>16 DEF Shutdown, clientVars, submitVars, boundVars
    <2>2. UNCHANGED outcome
      BY <1>16 DEF Shutdown, OrderQ!Stop
    <2>3. QED
      BY <2>1, <2>2, <1>b, <1>c
  <1>17. ASSUME Restart PROVE (TaskTypes' /\ NoStuckExit') /\ Exits
    <2>1. /\ positions' = [t \in Tokens |-> Recovered(t)] /\ monitor' = [t \in Tokens |-> NoTask]
          /\ scan' = "idle" /\ result' = "none" /\ resolved' = NoExit /\ faults' = faults
      BY <1>17 DEF Restart
    <2>2. \A o \in Order : ~IsPending(o)'
      BY <1>17, RestartKeepsQueue
    <2>3. Exits
      BY <2>1, <2>2, SellsAreOrders DEF ExitsHaveTasks, OneExitPerPosition, ThrownByFaults, IsPending
    <2>4. \A t \in Tokens : positions'[t] # NoPosition =>
            positions'[t] \in Position /\ ~positions'[t].exitInFlight /\ PositionAt(t)'
      <3> SUFFICES ASSUME NEW t \in Tokens, positions'[t] # NoPosition
                   PROVE  positions'[t] \in Position /\ ~positions'[t].exitInFlight /\ PositionAt(t)'
        OBVIOUS
      <3>1. positions'[t] = Recovered(t) /\ JournalTypes
        BY <2>1 DEF RestTypes, JournalTypes
      <3>2. PICK l \in Envs : TokenOf[l] = t /\ Recovered(t) = Opened(l)
        BY <3>1, RecoveredFacts
      <3>3. /\ Opened(l) \in Position /\ Opened(l).lot = l
            /\ ~Opened(l).exitInFlight /\ Opened(l).bounces < BounceLimit + faults
        BY <1>0, OpenedIsPosition
      <3>4. QED
        BY <2>1, <3>1, <3>2, <3>3 DEF PositionAt
    <2>5. positions' \in [Tokens -> Position \cup {NoPosition}]
      <3>1. positions' = [t \in Tokens |-> positions'[t]]
        BY <2>1
      <3>2. QED
        BY <2>4, <3>1
    <2>6. TaskTypes'
      BY <2>1, <2>4, <2>5 DEF TaskTypes, TaskAt, PositionAt
    <2>7. NoStuckExit'
      BY <2>4 DEF NoStuckExit, Tracked
    <2>8. QED
      BY <2>3, <2>6, <2>7
  <1>18. ASSUME NEW o \in Order, Lands(o) PROVE (TaskTypes' /\ NoStuckExit') /\ Exits
    <2>1. UNCHANGED <<positions, monitor, scan, faults, outcome, resolved, result>>
      BY <1>18 DEF Lands, clientVars, submitVars, boundVars, qvars
    <2>2. QED
      BY <2>1, <1>b, <1>c
  <1>19. QED
    BY <1>1, <1>2, <1>3, <1>4, <1>5, <1>6, <1>7, <1>8, <1>9, <1>10, <1>11, <1>12, <1>13, <1>14,
       <1>15, <1>16, <1>17, <1>18 DEF Next, Monitoring, Submit, MessageLands
-----------------------------------------------------------------------------
(* The ids of processed envelopes.                                           *)
FillRow(e) == [kind |-> "buy", lot |-> e, fill |-> "sent"]

LEMMA OrderRowFields ==
  ASSUME NEW side, NEW l, NEW r, NEW e
  PROVE  [kind |-> side, lot |-> l, fill |-> r] = FillRow(e) <=> side = "buy" /\ l = e /\ r = "sent"
PROOF
  <1> DEFINE row == [kind |-> side, lot |-> l, fill |-> r]
  <1>1. row.kind = side /\ row.lot = l /\ row.fill = r
    OBVIOUS
  <1>2. FillRow(e).kind = "buy" /\ FillRow(e).lot = e /\ FillRow(e).fill = "sent"
    BY DEF FillRow
  <1>3. side = "buy" /\ l = e /\ r = "sent" => row = FillRow(e)
    BY DEF FillRow
  <1> HIDE DEF row
  <1>4. QED
    BY <1>1, <1>2, <1>3 DEF row

(* The fills in the tail are the fills of its rows, whatever is appended.    *)
LEMMA TailUnchanged ==
  ASSUME UNCHANGED ordersJournal
  PROVE  \A e \in Envs : FillInTail(e)' <=> FillInTail(e)
BY DEF FillInTail, readJournal

LEMMA FillsAppended ==
  ASSUME RestTypes, NEW row \in OrderRow, ordersJournal' = Append(ordersJournal, row)
  PROVE  \A e \in Envs : FillInTail(e)' => FillInTail(e) \/ row = FillRow(e)
PROOF
  <1> DEFINE old == readJournal(ordersJournal)
             new == readJournal(Append(ordersJournal, row))
  <1>1. \A i \in 1..Len(new) : new[i] = row \/ \E j \in 1..Len(old) : new[i] = old[j]
    BY TailAppended DEF RestTypes
  <1>2. \A e \in Envs : FillInTail(e) <=> \E i \in 1..Len(old) : old[i] = FillRow(e)
    BY DEF FillInTail, Shows, FillRow
  <1>3. readJournal(ordersJournal)' = new
    BY DEF readJournal
  <1>4. \A e \in Envs : FillInTail(e)' <=> Shows(readJournal(ordersJournal)', e)
    BY DEF FillInTail
  <1>5. \A e \in Envs : FillInTail(e)' <=> \E i \in 1..Len(new) : new[i] = FillRow(e)
    BY <1>3, <1>4 DEF Shows, FillRow
  <1> HIDE DEF old, new
  <1>6. QED
    BY <1>1, <1>2, <1>5

LEMMA BuysKept ==
  ASSUME BuysInv, UNCHANGED ordersJournal, faults' = 0 => faults = 0,
         processedEnvIds \in SUBSET processedEnvIds',
         \A o \in Buys : (IsPending(o)' => IsPending(o)) /\ (NotYetFilled(o)' => NotYetFilled(o))
  PROVE  BuysInv'
PROOF
  <1>1. \A e \in Envs : FillInTail(e)' <=> FillInTail(e)
    BY TailUnchanged
  <1>2. OneBuyPending' /\ PendingKnown'
    BY DEF BuysInv, OneBuyPending, PendingKnown
  <1>3. ASSUME faults' = 0 PROVE FillsKnown' /\ \A o \in Buys : NotYetFilled(o)' => ~FillInTail(o.env)'
    <2>1. FillsKnown /\ \A o \in Buys : NotYetFilled(o) => ~FillInTail(o.env)
      BY <1>3 DEF BuysInv
    <2>2. \A o \in Buys : o.env \in Envs
      BY OrderFields DEF Buys
    <2>3. QED
      BY <1>1, <2>1, <2>2 DEF FillsKnown
  <1>4. QED
    BY <1>2, <1>3 DEF BuysInv

LEMMA BuysStep ==
  ASSUME QueueInv, RestTypes, TasksInv, BuysInv, [Next]_vars
  PROVE  BuysInv'
PROOF
  <1>0. /\ faults \in Nat
        /\ \A o \in Buys : o \in Order /\ o.side = "buy" /\ o.env \in Envs
    BY OrderFields DEF RestTypes, Buys
  <1>a. ASSUME UNCHANGED <<processedEnvIds, outcome, executing, stage, result, ordersJournal>>,
               faults' \in {faults, faults + 1}
        PROVE  BuysInv'
    <2>1. faults' = 0 => faults = 0
      BY <1>0, <1>a
    <2>2. \A o \in Buys : (IsPending(o)' => IsPending(o)) /\ (NotYetFilled(o)' => NotYetFilled(o))
      BY <1>a DEF IsPending, NotYetFilled
    <2>3. QED
      BY <1>a, <2>1, <2>2, BuysKept
  <1>1. ASSUME UNCHANGED vars PROVE BuysInv'
    BY <1>1, <1>a DEF vars, clientVars, qvars, submitVars, journalVars, boundVars
  <1>2. ASSUME NEW e \in Envs, Publish(e) PROVE BuysInv'
    BY <1>2, <1>a DEF Publish, qvars, submitVars, journalVars, boundVars
  <1>3. ASSUME NEW t \in Tokens, TimeStopPasses(t) PROVE BuysInv'
    BY <1>3, <1>a DEF TimeStopPasses, clientVars, qvars, submitVars, journalVars, boundVars
  <1>4. ASSUME ScanBegins \/ MonitoringBegins \/ MonitoringEnds PROVE BuysInv'
    BY <1>4, <1>a DEF ScanBegins, MonitoringBegins, MonitoringEnds, qvars, submitVars, journalVars, boundVars
  <1>5. ASSUME IngestRow PROVE BuysInv'
    <2> DEFINE e == feed[cursor + 1]
               o == FreshOrder("buy", e)
    <2>1. /\ processedEnvIds' = processedEnvIds \cup {e}
          /\ UNCHANGED <<stage, result, ordersJournal, faults>>
      BY <1>5 DEF IngestRow, submitVars, journalVars, boundVars
    <2>2. CASE UNCHANGED qvars
      <3>1. UNCHANGED <<outcome, executing>>
        BY <2>2 DEF qvars
      <3>2. \A p \in Buys : (IsPending(p)' => IsPending(p)) /\ (NotYetFilled(p)' => NotYetFilled(p))
        BY <2>1, <3>1 DEF IsPending, NotYetFilled
      <3> HIDE DEF e
      <3>3. QED
        BY <2>1, <3>2, BuysKept
    <2>3. CASE ~UNCHANGED qvars
      <3>1. CanIssue("buy", e) /\ OrderQ!Enqueue(o) /\ e \notin processedEnvIds
        BY <1>5, <2>3 DEF IngestRow
      <3> HIDE DEF e
      <3>2. o \in Order /\ o.side = "buy" /\ o.env = e
        BY <3>1, FreshOrderIsNew
      <3> HIDE DEF o
      <3>3. /\ outcome[o] = "new" /\ outcome'[o] = "waiting" /\ executing' = executing
            /\ ~IsPending(o) /\ \A p \in Order : p # o => outcome'[p] = outcome[p]
        BY <3>1, <3>2, EnqueuedWaits
      <3>4. e \in Envs
        BY <3>2, OrderFields
      <3>5. \A p \in Buys : p # o => /\ IsPending(p)' <=> IsPending(p)
                                     /\ NotYetFilled(p)' <=> NotYetFilled(p)
        BY <2>1, <3>3, <1>0 DEF IsPending, NotYetFilled
      <3>6. \A p \in Buys : IsPending(p) => p.env # e
        BY <3>1 DEF BuysInv, PendingKnown
      <3>7. OneBuyPending'
        <4> SUFFICES ASSUME NEW p \in Buys, NEW q \in Buys, IsPending(p)', IsPending(q)', p.env = q.env
                     PROVE  p = q
          BY DEF OneBuyPending
        <4>1. p # o => p.env # e
          BY <3>5, <3>6
        <4>2. q # o => q.env # e
          BY <3>5, <3>6
        <4>3. QED
          BY <3>2, <3>5, <4>1, <4>2 DEF BuysInv, OneBuyPending
      <3>8. PendingKnown'
        <4> SUFFICES ASSUME NEW p \in Buys, IsPending(p)' PROVE p.env \in processedEnvIds'
          BY DEF PendingKnown
        <4>1. QED
          BY <2>1, <3>2, <3>5 DEF BuysInv, PendingKnown
      <3>9. ASSUME faults' = 0
            PROVE  FillsKnown' /\ \A p \in Buys : NotYetFilled(p)' => ~FillInTail(p.env)'
        <4>1. FillsKnown /\ \A p \in Buys : NotYetFilled(p) => ~FillInTail(p.env)
          BY <2>1, <3>9 DEF BuysInv
        <4>2. \A d \in Envs : FillInTail(d)' <=> FillInTail(d)
          BY <2>1, TailUnchanged
        <4>3. FillsKnown'
          BY <2>1, <4>1, <4>2 DEF FillsKnown
        <4>4. ~FillInTail(e)
          BY <3>1, <3>4, <4>1 DEF FillsKnown
        <4>5. \A p \in Buys : NotYetFilled(p)' => ~FillInTail(p.env)'
          BY <3>2, <3>5, <4>1, <4>2, <4>4, <1>0
        <4>6. QED
          BY <4>3, <4>5
      <3>10. QED
        BY <3>7, <3>8, <3>9 DEF BuysInv
    <2>4. QED
      BY <2>2, <2>3
  <1>6. ASSUME NEW t \in Tokens, StepHolds(t) PROVE BuysInv'
    BY <1>6, <1>a DEF StepHolds, qvars, submitVars, journalVars, boundVars
  <1>7. ASSUME NEW t \in Tokens, StepEvictsDust(t) PROVE BuysInv'
    <2>1. /\ UNCHANGED <<processedEnvIds, stage, result, resolved, ordersJournal>>
          /\ OrderQ!NotifySlotAvailable \/ UNCHANGED qvars
          /\ faults' \in {faults, faults + 1}
      BY <1>7 DEF StepEvictsDust, submitVars, DiskWorks, DiskFails
    <2>2. QED
      BY <2>1, <1>a, NotifyKeepsQueue
  <1>8. ASSUME NEW t \in Tokens, StepExits(t) PROVE BuysInv'
    <2> DEFINE o == FreshOrder("sell", Snap(t).lot)
    <2>1. /\ CanIssue("sell", Snap(t).lot) /\ OrderQ!Enqueue(o)
          /\ UNCHANGED <<processedEnvIds, stage, result, ordersJournal, faults>>
      BY <1>8 DEF StepExits, Snap, submitVars, journalVars, boundVars
    <2>2. o \in Order /\ o.side = "sell"
      BY <2>1, FreshOrderIsNew
    <2> HIDE DEF o
    <2>3. executing' = executing /\ \A p \in Order : p # o => outcome'[p] = outcome[p]
      BY <2>1, <2>2, EnqueuedWaits
    <2>4. \A p \in Buys : (IsPending(p)' => IsPending(p)) /\ (NotYetFilled(p)' => NotYetFilled(p))
      BY <2>1, <2>2, <2>3, <1>0 DEF IsPending, NotYetFilled
    <2>5. QED
      BY <2>1, <2>4, BuysKept
  <1>9. ASSUME NEW t \in Tokens, ExitCloses(t) \/ ExitBounces(t) \/ ExitThrows(t) PROVE BuysInv'
    <2>1. /\ UNCHANGED <<processedEnvIds, stage, result, ordersJournal>> /\ resolved' = NoExit
      BY <1>9 DEF ExitCloses, ExitBounces, ExitThrows, ExitResumes
    <2>2. /\ OrderQ!NotifySlotAvailable \/ UNCHANGED qvars
          /\ faults' \in {faults, faults + 1}
      BY <1>9 DEF ExitCloses, ExitBounces, ExitThrows, ClosePosition, DiskWorks, DiskFails
    <2>3. QED
      BY <2>1, <2>2, <1>a, NotifyKeepsQueue
  <1>10. ASSUME Worker PROVE BuysInv'
    <2>1. UNCHANGED <<processedEnvIds, result, ordersJournal, faults>>
      BY <1>10 DEF Worker, clientVars, journalVars, boundVars
    <2>2. \A p \in Buys : (IsPending(p)' => IsPending(p)) /\ (NotYetFilled(p)' => NotYetFilled(p))
      <3>1. CASE UNCHANGED <<executing, outcome, stage, result, resolved>>
        BY <3>1 DEF IsPending, NotYetFilled
      <3>2. ASSUME NEW o \in Order, Dispatches(o)
            PROVE  \A p \in Buys : (IsPending(p)' => IsPending(p)) /\ (NotYetFilled(p)' => NotYetFilled(p))
        <4>1. /\ outcome[o] = "waiting" /\ executing = {} /\ executing' = {o}
              /\ outcome'[o] = "executing" /\ \A p \in Order : p # o => outcome'[p] = outcome[p]
          BY <3>2 DEF Dispatches, QueueInv, QueuesWait
        <4>2. QED
          BY <4>1, <1>0 DEF IsPending, Pending, NotYetFilled
      <3>3. QED
        BY <1>10, <3>1, <3>2, WorkerDispatches
    <2>3. QED
      BY <2>1, <2>2, BuysKept
  <1>11. ASSUME NEW o \in Order, Swap(o) PROVE BuysInv'
    <2>1. /\ UNCHANGED <<processedEnvIds, outcome, executing, ordersJournal, faults>>
          /\ o \in executing /\ stage = "swap"
      BY <1>11 DEF Swap, clientVars, qvars, journalVars, boundVars
    <2>2. \A p \in Buys : (IsPending(p)' => IsPending(p)) /\ (NotYetFilled(p)' => NotYetFilled(p))
      BY <2>1 DEF IsPending, NotYetFilled
    <2>3. QED
      BY <2>1, <2>2, BuysKept
  <1>12. ASSUME NEW o \in Order, JournalOrder(o) PROVE BuysInv'
    <2>1. /\ UNCHANGED <<processedEnvIds, outcome, executing>>
          /\ o \in executing /\ stage = "append" /\ stage' = "return"
      BY <1>12 DEF JournalOrder, clientVars, qvars
    <2>2. OneBuyPending' /\ PendingKnown'
      BY <2>1 DEF BuysInv, OneBuyPending, PendingKnown, IsPending
    <2>3. ASSUME faults' = 0
          PROVE  FillsKnown' /\ \A p \in Buys : NotYetFilled(p)' => ~FillInTail(p.env)'
      <3> DEFINE row == [kind |-> o.side, lot |-> o.env, fill |-> result]
      <3>1. faults = 0 /\ ordersJournal' = Append(ordersJournal, row) /\ UNCHANGED result
        BY <1>12, <2>3, <1>0 DEF JournalOrder, DiskWorks, DiskFails
      <3>2. row \in OrderRow
        BY RowTypes, OrderFields DEF QueueInv, SubmitHolds
      <3>3. \A e \in Envs : row = FillRow(e) <=> o.side = "buy" /\ o.env = e /\ result = "sent"
        BY OrderRowFields
      <3> HIDE DEF row
      <3>4. \A e \in Envs : FillInTail(e)' =>
              FillInTail(e) \/ (o.side = "buy" /\ o.env = e /\ result = "sent")
        BY <3>1, <3>2, <3>3, FillsAppended
      <3>5. FillsKnown /\ \A p \in Buys : NotYetFilled(p) => ~FillInTail(p.env)
        BY <3>1 DEF BuysInv
      <3>6. outcome[o] = "executing" /\ IsPending(o)
        BY <2>1 DEF QueueInv, SubmitHolds, IsPending, Pending
      <3>7. o.side = "buy" => o \in Buys /\ o.env \in processedEnvIds
        BY <3>6, OrderFields DEF BuysInv, PendingKnown
      <3>8. FillsKnown'
        BY <2>1, <3>4, <3>5, <3>7 DEF FillsKnown
      <3>9. \A p \in Buys : NotYetFilled(p)' => ~FillInTail(p.env)'
        <4> SUFFICES ASSUME NEW p \in Buys, NotYetFilled(p)' PROVE ~FillInTail(p.env)'
          OBVIOUS
        <4>1. p.env \in Envs /\ NotYetFilled(p)
          BY <2>1, <3>1, <1>0 DEF NotYetFilled
        <4>2. CASE p = o
          BY <2>1, <3>1, <3>4, <3>5, <3>6, <4>1, <4>2 DEF NotYetFilled
        <4>3. CASE p # o
          <5>1. outcome[p] = "waiting" /\ IsPending(p)
            BY <2>1, <4>1, <4>3 DEF NotYetFilled, IsPending, Pending, QueueInv, SubmitHolds
          <5>2. ~(o.side = "buy" /\ o.env = p.env)
            BY <3>6, <3>7, <4>3, <5>1 DEF BuysInv, OneBuyPending
          <5>3. QED
            BY <3>4, <3>5, <4>1, <5>2
        <4>4. QED
          BY <4>2, <4>3
      <3>10. QED
        BY <3>8, <3>9
    <2>4. QED
      BY <2>2, <2>3 DEF BuysInv
  <1>13. ASSUME NEW o \in Order, BuySettles(o) PROVE BuysInv'
    <2>1. /\ o.side = "buy" /\ stage = "return" /\ stage' = "idle" /\ result' = "none"
          /\ processedEnvIds' = IF result \in {"bounced", "threw"} THEN processedEnvIds \ {o.env}
                                                                    ELSE processedEnvIds
          /\ UNCHANGED <<resolved, ordersJournal>>
          /\ \E r \in {"resolved", "rejected"} : OrderQ!SubmitSettles(o, r)
          /\ faults' \in {faults, faults + 1}
      BY <1>13 DEF BuySettles, DiskWorks, DiskFails
    <2>2. /\ executing = {o} /\ executing' = {} /\ outcome[o] = "executing"
          /\ outcome'[o] \in {"resolved", "rejected"}
          /\ \A p \in Order : p # o => outcome'[p] = outcome[p]
      BY <2>1, SettleKeepsQueue DEF QueueInv, QueuesWait
    <2>3. o \in Buys /\ IsPending(o) /\ o.env \in Envs
      BY <2>1, <2>2, OrderFields DEF IsPending, Pending
    <2>4. \A p \in Buys : IsPending(p)' => p # o /\ IsPending(p) /\ p.env # o.env
      BY <2>2, <2>3, <1>0 DEF IsPending, Pending, BuysInv, OneBuyPending
    <2>5. OneBuyPending' /\ PendingKnown'
      BY <2>1, <2>4 DEF BuysInv, OneBuyPending, PendingKnown
    <2>6. ASSUME faults' = 0
          PROVE  FillsKnown' /\ \A p \in Buys : NotYetFilled(p)' => ~FillInTail(p.env)'
      <3>1. FillsKnown /\ \A p \in Buys : NotYetFilled(p) => ~FillInTail(p.env)
        BY <2>1, <2>6, <1>0 DEF BuysInv
      <3>2. result \in {"bounced", "threw"} => ~FillInTail(o.env)
        BY <2>2, <2>3, <3>1 DEF NotYetFilled
      <3>3. \A e \in Envs : FillInTail(e)' <=> FillInTail(e)
        BY <2>1, TailUnchanged
      <3>4. FillsKnown'
        BY <2>1, <3>1, <3>2, <3>3 DEF FillsKnown
      <3>5. \A p \in Buys : NotYetFilled(p)' => NotYetFilled(p)
        BY <2>2, <1>0 DEF NotYetFilled
      <3>6. QED
        BY <3>1, <3>3, <3>4, <3>5, <1>0
    <2>7. QED
      BY <2>5, <2>6 DEF BuysInv
  <1>14. ASSUME NEW o \in Order, SellSettles(o) PROVE BuysInv'
    <2>1. /\ o.side = "sell" /\ stage' = "idle" /\ result' = "none"
          /\ resolved' = [lot |-> o.env, result |-> result]
          /\ \E r \in {"resolved", "rejected"} : OrderQ!SubmitSettles(o, r)
          /\ UNCHANGED <<processedEnvIds, ordersJournal, faults>>
      BY <1>14 DEF SellSettles, clientVars, journalVars, boundVars
    <2>2. executing' = {} /\ \A p \in Order : p # o => outcome'[p] = outcome[p]
      BY <2>1, SettleKeepsQueue DEF QueueInv, QueuesWait
    <2>3. \A p \in Buys : (IsPending(p)' => IsPending(p)) /\ (NotYetFilled(p)' => NotYetFilled(p))
      BY <2>1, <2>2, <1>0 DEF IsPending, NotYetFilled
    <2>4. QED
      BY <2>1, <2>3, BuysKept
  <1>15. ASSUME Shutdown PROVE BuysInv'
    BY <1>15, <1>a DEF Shutdown, OrderQ!Stop, clientVars, submitVars, journalVars, boundVars
  <1>16. ASSUME Restart PROVE BuysInv'
    <2>1. processedEnvIds' = EnvIdsInOrders /\ UNCHANGED <<ordersJournal, faults>>
      BY <1>16 DEF Restart, journalVars
    <2>2. executing' = {} /\ \A p \in Order : ~IsPending(p)'
      BY <1>16, RestartKeepsQueue
    <2>3. \A p \in Buys : ~IsPending(p)' /\ ~NotYetFilled(p)'
      BY <2>2, <1>0 DEF NotYetFilled, IsPending, Pending
    <2>4. FillsKnown'
      BY <2>1, TailFillsKnown, TailUnchanged DEF FillsKnown
    <2>5. QED
      BY <2>3, <2>4 DEF BuysInv, OneBuyPending, PendingKnown
  <1>17. ASSUME NEW o \in Order, Lands(o) PROVE BuysInv'
    BY <1>17, <1>a DEF Lands, clientVars, qvars, submitVars, journalVars, boundVars
  <1>18. QED
    BY <1>1, <1>2, <1>3, <1>4, <1>5, <1>6, <1>7, <1>8, <1>9, <1>10, <1>11, <1>12, <1>13, <1>14,
       <1>15, <1>16, <1>17 DEF Next, Monitoring, Submit, MessageLands
-----------------------------------------------------------------------------
(* The number of open positions, which the queue reads.                      *)
LEMMA TrackedCounts ==
  ASSUME MapTypes
  PROVE  /\ IsFiniteSet(Tracked) /\ Cardinality(Tracked) \in Nat
         /\ Cardinality(Tracked) \in 0..Cardinality(Tokens)
PROOF
  <1>1. Tracked \in SUBSET Tokens /\ IsFiniteSet(Tokens)
    BY ConstantFacts DEF Tracked
  <1>2. IsFiniteSet(Tracked) /\ Cardinality(Tracked) <= Cardinality(Tokens)
    BY <1>1, FS_Subset
  <1>3. Cardinality(Tracked) \in Nat /\ Cardinality(Tokens) \in Nat
    BY <1>1, <1>2, FS_CardinalityType
  <1>4. QED
    BY <1>2, <1>3

LEMMA TrackedChanges ==
  ASSUME MapTypes, NEW t \in Tokens, \A u \in Tokens : u # t => positions'[u] = positions[u]
  PROVE  /\ positions'[t] # NoPosition /\ positions[t] # NoPosition => Tracked' = Tracked
         /\ positions'[t] = NoPosition /\ positions[t] # NoPosition =>
              Cardinality(Tracked)' = Cardinality(Tracked) - 1 /\ Cardinality(Tracked) > 0
         /\ positions'[t] # NoPosition /\ positions[t] = NoPosition =>
              Cardinality(Tracked)' = Cardinality(Tracked) + 1
PROOF
  <1>1. IsFiniteSet(Tracked) /\ Cardinality(Tracked) \in Nat
    BY TrackedCounts
  <1>2. ASSUME positions'[t] = NoPosition, positions[t] # NoPosition
        PROVE  Cardinality(Tracked)' = Cardinality(Tracked) - 1 /\ Cardinality(Tracked) > 0
    <2>1. Tracked' = Tracked \ {t} /\ t \in Tracked
      BY <1>2 DEF Tracked
    <2>2. Cardinality(Tracked \ {t}) = Cardinality(Tracked) - 1
      BY <1>1, <2>1, FS_RemoveElement
    <2>3. Cardinality(Tracked) # 0
      BY <1>1, <2>1, FS_EmptySet
    <2>4. QED
      BY <1>1, <2>1, <2>2, <2>3
  <1>3. ASSUME positions'[t] # NoPosition, positions[t] = NoPosition
        PROVE  Cardinality(Tracked)' = Cardinality(Tracked) + 1
    <2>1. Tracked' = Tracked \cup {t} /\ t \notin Tracked
      BY <1>3 DEF Tracked
    <2>2. Cardinality(Tracked \cup {t}) = Cardinality(Tracked) + 1
      BY <1>1, <2>1, FS_AddElement
    <2>3. QED
      BY <2>1, <2>2
  <1>4. positions'[t] # NoPosition /\ positions[t] # NoPosition => Tracked' = Tracked
    BY DEF Tracked
  <1>5. QED
    BY <1>2, <1>3, <1>4

(* A step of the executor, while appends succeed, is one of the queue with   *)
(* its clients, or one that the queue does not see.                          *)
LEMMA QueueRefinement ==
  ASSUME QueueInv, RestTypes, TasksInv, faults' = 0, [Next]_vars
  PROVE  [OrderQ!Next]_(OrderQ!vars)
PROOF
  <1> DEFINE Unseen == UNCHANGED qvars /\ Cardinality(Tracked)' = Cardinality(Tracked)
             Goal   == Unseen \/ OrderQ!Next
  <1>0. MapTypes /\ faults \in Nat
    BY TypesOfMaps DEF RestTypes
  <1>a. SUFFICES Goal
    BY DEF OrderQ!vars, OrderQ!qvars, qvars
  <1>b. ASSUME UNCHANGED positions PROVE Cardinality(Tracked)' = Cardinality(Tracked)
    BY <1>b DEF Tracked
  <1>1. ASSUME UNCHANGED vars PROVE Goal
    BY <1>1, <1>b DEF vars, clientVars
  <1>2. ASSUME NEW e \in Envs, Publish(e) PROVE Goal
    BY <1>2, <1>b DEF Publish
  <1>3. ASSUME NEW t \in Tokens, TimeStopPasses(t) PROVE Goal
    BY <1>3, <1>b DEF TimeStopPasses, clientVars
  <1>4. ASSUME ScanBegins \/ MonitoringBegins \/ MonitoringEnds PROVE Goal
    BY <1>4, <1>b DEF ScanBegins, MonitoringBegins, MonitoringEnds
  <1>5. ASSUME IngestRow PROVE Goal
    <2> DEFINE e == feed[cursor + 1]
    <2>1. UNCHANGED positions
      BY <1>5 DEF IngestRow
    <2>2. CASE UNCHANGED qvars
      BY <2>1, <2>2, <1>b
    <2>3. CASE ~UNCHANGED qvars
      <3>1. CanIssue("buy", e) /\ OrderQ!Enqueue(FreshOrder("buy", e))
        BY <1>5, <2>3 DEF IngestRow
      <3> HIDE DEF e
      <3>2. FreshOrder("buy", e) \in Order
        BY <3>1, FreshOrderIsNew
      <3>3. OrderQ!ClientEnqueues(FreshOrder("buy", e))
        BY <2>1, <3>1, <1>b DEF OrderQ!ClientEnqueues
      <3>4. QED
        BY <3>2, <3>3 DEF OrderQ!Next
    <2>4. QED
      BY <2>2, <2>3
  <1>6. ASSUME NEW t \in Tokens, StepHolds(t) PROVE Goal
    <2>1. /\ positions' = [positions EXCEPT ![t] = Snap(t)] /\ monitor[t].step = "pricing"
          /\ UNCHANGED qvars
      BY <1>6 DEF StepHolds, Snap, Priced
    <2>2. Snap(t) \in Position /\ Snap(t) # NoPosition /\ positions[t] # NoPosition
      BY <2>1, TaskFacts DEF TasksInv
    <2>3. Tracked' = Tracked
      BY <2>1, <2>2, <1>0, SetPosition, TrackedChanges
    <2>4. QED
      BY <2>1, <2>3
  <1>7. ASSUME NEW t \in Tokens, StepEvictsDust(t) PROVE Goal
    <2>1. /\ positions' = [positions EXCEPT ![t] = NoPosition] /\ monitor[t].step = "pricing"
          /\ OrderQ!NotifySlotAvailable
      BY <1>7, <1>0 DEF StepEvictsDust, Priced, DiskFails
    <2>2. positions[t] # NoPosition
      BY <2>1, TaskFacts DEF TasksInv
    <2>3. Cardinality(Tracked)' = Cardinality(Tracked) - 1 /\ Cardinality(Tracked) > 0
      BY <2>1, <2>2, <1>0, SetPosition, TrackedChanges
    <2>4. QED
      BY <2>1, <2>3 DEF OrderQ!Next, OrderQ!PositionCloses
  <1>8. ASSUME NEW t \in Tokens, StepExits(t) PROVE Goal
    <2> DEFINE o == FreshOrder("sell", Snap(t).lot)
    <2>1. CanIssue("sell", Snap(t).lot) /\ OrderQ!Enqueue(o) /\ monitor[t].step = "pricing"
      BY <1>8, Zenon DEF StepExits, Snap, Priced
    <2>2. Snap(t) \in Position /\ positions[t] # NoPosition
      BY <2>1, TaskFacts DEF TasksInv
    <2>3. PICK q \in Position : positions' = [positions EXCEPT ![t] = q]
      BY <1>8, ExitMarks DEF TasksInv
    <2>4. q # NoPosition
      BY <2>3, NoRecord
    <2>5. Tracked' = Tracked
      BY <2>2, <2>3, <2>4, <1>0, SetPosition, TrackedChanges
    <2>6. o \in Order
      BY <2>1, FreshOrderIsNew
    <2> HIDE DEF o
    <2>7. OrderQ!ClientEnqueues(o)
      BY <2>1, <2>5 DEF OrderQ!ClientEnqueues
    <2>8. QED
      BY <2>6, <2>7 DEF OrderQ!Next
  <1>9. ASSUME NEW t \in Tokens, ExitCloses(t) \/ ExitBounces(t) \/ ExitThrows(t) PROVE Goal
    <2> DEFINE retry == [Snap(t) EXCEPT !.bounces = Snap(t).bounces + 1]
    <2>1. ExitResumes(t)
      BY <1>9 DEF ExitCloses, ExitBounces, ExitThrows
    <2>2. /\ Snap(t) \in Position /\ positions[t] # NoPosition
          /\ Snap(t).bounces < BounceLimit + faults
      BY <2>1, ResumingTask, TaskFacts DEF TasksInv
    <2>3. CASE positions' = [positions EXCEPT ![t] = NoPosition] /\ OrderQ!NotifySlotAvailable
      <3>1. Cardinality(Tracked)' = Cardinality(Tracked) - 1 /\ Cardinality(Tracked) > 0
        BY <2>2, <2>3, <1>0, SetPosition, TrackedChanges
      <3>2. QED
        BY <2>3, <3>1 DEF OrderQ!Next, OrderQ!PositionCloses
    <2>4. CASE /\ positions' = [positions EXCEPT ![t] = retry] /\ UNCHANGED qvars
               /\ Snap(t).bounces + 1 < BounceLimit
      <3>1. Snap(t).bounces + 1 \in 0..BounceLimit + MaxFaults - 1
        BY <2>2, <2>4, ConstantFacts DEF Position
      <3>2. retry \in Position
        BY <2>2, <3>1 DEF Position
      <3>3. retry # NoPosition
        BY <3>2, NoRecord
      <3> HIDE DEF retry
      <3>4. Tracked' = Tracked
        BY <2>2, <2>4, <3>2, <3>3, <1>0, SetPosition, TrackedChanges
      <3>5. QED
        BY <2>4, <3>4
    <2>5. ~ExitThrows(t)
      <3> SUFFICES ASSUME ExitThrows(t) PROVE FALSE
        OBVIOUS
      <3>1. resolved.result = "threw" /\ faults' = faults /\ resolved # NoExit
        BY DEF ExitThrows, ExitResumes
      <3>2. QED
        BY <3>1, <1>0 DEF TasksInv, ThrownByFaults
    <2>6. \/ positions' = [positions EXCEPT ![t] = NoPosition] /\ OrderQ!NotifySlotAvailable
          \/ /\ positions' = [positions EXCEPT ![t] = retry] /\ UNCHANGED qvars
             /\ Snap(t).bounces + 1 < BounceLimit
      BY <1>9, <2>5, <1>0 DEF ExitCloses, ExitBounces, ClosePosition, DiskFails, Snap
    <2>7. QED
      BY <2>3, <2>4, <2>6
  <1>10. ASSUME Worker PROVE Goal
    <2>1. OrderQ!ProcessNext /\ UNCHANGED positions
      BY <1>10 DEF Worker, clientVars
    <2>2. OrderQ!Worker
      BY <2>1, <1>b DEF OrderQ!Worker
    <2>3. QED
      BY <2>2 DEF OrderQ!Next
  <1>11. ASSUME NEW o \in Order, Swap(o) \/ JournalOrder(o) PROVE Goal
    BY <1>11, <1>b DEF Swap, JournalOrder, clientVars
  <1>12. ASSUME NEW o \in Order, BuySettles(o) PROVE Goal
    <2>1. /\ o.side = "buy" /\ result \in Result
          /\ OrderQ!SubmitSettles(o, IF result = "threw" THEN "rejected" ELSE "resolved")
          /\ \/ UNCHANGED positions
             \/ result = "sent" /\ positions' = [positions EXCEPT ![TokenOf[o.env]] = Opened(o.env)]
      BY <1>12 DEF BuySettles, QueueInv, SubmitHolds
    <2>2. o \notin Sells /\ TokenOf[o.env] \in Tokens /\ o.env \in Envs
      BY <2>1, OrderFields
    <2>3. CASE UNCHANGED positions
      <3>1. OrderQ!OrderEnds(o)
        BY <2>1, <2>2, <2>3, <1>b DEF OrderQ!OrderEnds
      <3>2. QED
        BY <3>1 DEF OrderQ!Next
    <2>4. CASE result = "sent" /\ positions' = [positions EXCEPT ![TokenOf[o.env]] = Opened(o.env)]
      <3>1. 0 \in 0..MaxFaults
        BY ConstantFacts
      <3>2. Opened(o.env) \in Position /\ Opened(o.env) # NoPosition
        BY <2>2, <3>1, OpenedIsPosition
      <3>3. /\ positions'[TokenOf[o.env]] # NoPosition
            /\ \A u \in Tokens : u # TokenOf[o.env] => positions'[u] = positions[u]
        BY <2>2, <2>4, <3>2, <1>0, SetPosition
      <3>4. Cardinality(Tracked)' \in {Cardinality(Tracked), Cardinality(Tracked) + 1}
        BY <2>2, <3>3, <1>0, TrackedChanges
      <3>5. OrderQ!SubmitSettles(o, "resolved")
        BY <2>1, <2>4
      <3>6. OrderQ!OrderEnds(o)
        BY <2>2, <3>4, <3>5 DEF OrderQ!OrderEnds
      <3>7. QED
        BY <3>6 DEF OrderQ!Next
    <2>5. QED
      BY <2>1, <2>3, <2>4
  <1>13. ASSUME NEW o \in Order, SellSettles(o) PROVE Goal
    <2>1. /\ o.side = "sell" /\ UNCHANGED positions
          /\ OrderQ!SubmitSettles(o, IF result = "threw" THEN "rejected" ELSE "resolved")
      BY <1>13 DEF SellSettles, clientVars
    <2>2. o \in Sells
      BY <2>1, OrderFields
    <2>3. OrderQ!OrderEnds(o)
      BY <2>1, <2>2, <1>b DEF OrderQ!OrderEnds
    <2>4. QED
      BY <2>3 DEF OrderQ!Next
  <1>14. ASSUME Shutdown PROVE Goal
    <2>1. OrderQ!Stop /\ UNCHANGED positions
      BY <1>14 DEF Shutdown, clientVars
    <2>2. OrderQ!ClientStops
      BY <2>1, <1>b DEF OrderQ!ClientStops
    <2>3. QED
      BY <2>2 DEF OrderQ!Next
  <1>15. ASSUME Restart PROVE Goal
    <2>1. MapTypes'
      BY <1>15, TasksStep DEF Next, TasksInv, TaskTypes, MapTypes
    <2>2. Cardinality(Tracked)' \in 0..Cardinality(Tokens)
      <3>1. Tracked' \in SUBSET Tokens /\ IsFiniteSet(Tokens)
        BY ConstantFacts DEF Tracked
      <3>2. IsFiniteSet(Tracked') /\ Cardinality(Tracked') <= Cardinality(Tokens)
        BY <3>1, FS_Subset
      <3>3. Cardinality(Tracked') \in Nat /\ Cardinality(Tokens) \in Nat
        BY <3>1, <3>2, FS_CardinalityType
      <3>4. QED
        BY <3>2, <3>3
    <2>3. OrderQ!Restart
      BY <1>15, <2>2 DEF Restart, OrderQ!Restart
    <2>4. QED
      BY <2>3 DEF OrderQ!Next
  <1>16. ASSUME NEW o \in Order, Lands(o) PROVE Goal
    BY <1>16, <1>b DEF Lands, clientVars
  <1>17. QED
    BY <1>1, <1>2, <1>3, <1>4, <1>5, <1>6, <1>7, <1>8, <1>9, <1>10, <1>11, <1>12, <1>13, <1>14,
       <1>15, <1>16 DEF Next, Monitoring, Submit, MessageLands
-----------------------------------------------------------------------------
CoreInv == QueueInv /\ RestTypes /\ TasksInv /\ BuysInv

(* The invariant that the theorems below rest on: of the queue and submit,   *)
(* the types, the tasks of a scan and the ids of processed envelopes.        *)
THEOREM ExecutorCore == Spec => []CoreInv
PROOF
  <1>1. Init => CoreInv
    BY InitTypes, InitBuys DEF CoreInv
  <1>2. CoreInv /\ [Next]_vars => CoreInv'
    <2> SUFFICES ASSUME CoreInv, [Next]_vars PROVE CoreInv'
      OBVIOUS
    <2>1. QueueInv /\ RestTypes /\ TasksInv /\ BuysInv
      BY DEF CoreInv
    <2>2. QueueInv' /\ RestTypes' /\ TasksInv' /\ BuysInv'
      BY <2>1, QueueStep, RestStep, TasksStep, BuysStep
    <2>3. QED
      BY <2>2 DEF CoreInv
  <1>3. QED
    BY <1>1, <1>2, PTL DEF Spec

(* Types: what the executor keeps in its feed, maps, queues and journals.    *)
THEOREM ExecutorTypes == Spec => []TypeOK
PROOF
  <1>1. CoreInv => TypeOK
    <2> SUFFICES ASSUME CoreInv PROVE TypeOK
      OBVIOUS
    <2>1. QueueInv /\ RestTypes /\ TasksInv
      BY DEF CoreInv
    <2>2. /\ highQueue \in Seq(Order) /\ normalQueue \in Seq(Order)
          /\ isProcessing \in BOOLEAN /\ isRunning \in BOOLEAN /\ wakeups \in Nat
          /\ executing \in SUBSET Order /\ outcome \in [Order -> OrderQ!Outcome]
      <3>1. Seq(Sells) \in SUBSET Seq(Order) /\ Seq(Buys) \in SUBSET Seq(Order)
        <4>1. Sells \in SUBSET Order /\ Buys \in SUBSET Order
          BY DEF Sells, Buys
        <4>2. QED
          BY <4>1
      <3>2. QED
        BY <2>1, <3>1 DEF QueueInv, QueuesWait, SubmitHolds
    <2>3. Cardinality(Tracked) \in Nat
      BY <2>1, TypesOfMaps, TrackedCounts
    <2>4. OrderQ!TypeOK
      BY <2>2, <2>3 DEF OrderQ!TypeOK
    <2>5. QED
      BY <2>1, <2>4 DEF TypeOK, RestTypes, TasksInv, TaskTypes, QueueInv, SubmitHolds, OrderRow
  <1>2. QED
    BY <1>1, ExecutorCore, PTL

(* No position is offered for sale twice at once, whatever is overwritten in *)
(* the position map and whatever crashes or fails: the exit mark and the     *)
(* awaited scan see to it.                                                   *)
THEOREM OneExitAtATime == Spec => []OneExitPerPosition
PROOF
  <1>1. CoreInv => OneExitPerPosition
    BY DEF CoreInv, TasksInv
  <1>2. QED
    BY <1>1, ExecutorCore, PTL

(* While appends succeed, a position marked as exiting has a task that waits *)
(* for its sale and will close it or clear the mark.                         *)
THEOREM MarksAreWorkedOff == Spec => []NoStuckExit
PROOF
  <1>1. CoreInv => NoStuckExit
    BY DEF CoreInv, TasksInv
  <1>2. QED
    BY <1>1, ExecutorCore, PTL

(* While appends succeed, an order that waits or is being swapped is never   *)
(* for an envelope whose fill is among the rows of the orders journal that a *)
(* start reads back, however often the envelope is published and across      *)
(* restarts: the last TailRows rows bound what the ids remember.             *)
THEOREM FillsAreNotRepeated == Spec => []NoSecondBuy
PROOF
  <1>1. CoreInv => NoSecondBuy
    <2> SUFFICES ASSUME CoreInv, faults = 0, NEW o \in Order \ Sells, ToBeSent(o)
                 PROVE  ~FillInTail(o.env)
      BY DEF NoSecondBuy
    <2>1. o \in Buys /\ NotYetFilled(o)
      BY DEF Buys, ToBeSent, NotYetFilled
    <2>2. QED
      BY <2>1 DEF CoreInv, BuysInv
  <1>2. QED
    BY <1>1, ExecutorCore, PTL

(* While appends succeed, the executor uses its queue as OrderQueue says its *)
(* clients do: what is proved of the queue there holds of it here.           *)
THEOREM ExecutorUsesQueue == Spec /\ [](faults = 0) => QueueSpec
PROOF
  <1>1. Init => OrderQ!Init
    <2> SUFFICES ASSUME Init PROVE OrderQ!Init
      OBVIOUS
    <2>1. OrderQ!QueueInit
      BY DEF Init
    <2>2. TasksInv
      BY InitTypes
    <2>3. Cardinality(Tracked) \in 0..Cardinality(Tokens)
      BY <2>2, TypesOfMaps, TrackedCounts
    <2>4. QED
      BY <2>1, <2>3 DEF OrderQ!Init
  <1>2. CoreInv /\ [Next]_vars /\ (faults = 0)' => [OrderQ!Next]_(OrderQ!vars)
    BY QueueRefinement DEF CoreInv
  <1>3. QED
    BY <1>1, <1>2, ExecutorCore, PTL DEF Spec, QueueSpec, OrderQ!Spec
-----------------------------------------------------------------------------
(* The lots in the wallet.                                                   *)
LotFacts == SentLots /\ HeldLots /\ (Modes = {"auto"} => LiveLots)

LEMMA LotsParts ==
  /\ LotsInv <=> SendsCounted /\ (crashes = 0 /\ faults = 0 => LotFacts)
  /\ LotsInv' <=> SendsCounted' /\ (crashes' = 0 /\ faults' = 0 => LotFacts')
BY DEF LotsInv, LotFacts

LEMMA BuysAreOrders == \A o \in Buys : o \in Order /\ o.side = "buy" /\ o.env \in Envs /\ TokenOf[o.env] \in Tokens
BY OrderFields DEF Buys

(* While one token has had one lot, a task of the token is about that lot.   *)
LEMMA OnlyLotOfTask ==
  ASSUME TaskTypes, SentLots, NEW t \in Tokens, monitor[t] # NoTask, NEW l \in Envs,
         TokenOf[l] = t, OnlyLot(l)
  PROVE  l = Snap(t).lot
PROOF
  <1>1. Snap(t).lot \in Envs /\ TokenOf[Snap(t).lot] = t
    BY TaskFacts
  <1>2. sends[Snap(t).lot] > 0
    BY DEF SentLots
  <1>3. Snap(t).lot # l => sends[Snap(t).lot] = 0
    BY <1>1 DEF OnlyLot
  <1>4. QED
    BY <1>2, <1>3

(* What is given up stays so, and a closing row gives its lot up.            *)
LEMMA GivenUpGrows ==
  ASSUME RestTypes, NEW row \in PositionRow, positionsJournal' = Append(positionsJournal, row)
  PROVE  /\ \A l : GivenUp(l) => GivenUp(l)'
         /\ row.reason \in {"unsellable", "surfaced", "force_cleared", "dust"} => GivenUp(row.lot)'
PROOF
  <1>1. /\ Len(positionsJournal') = Len(positionsJournal) + 1 /\ Len(positionsJournal) \in Nat
        /\ positionsJournal'[Len(positionsJournal) + 1] = row
        /\ \A i \in 1..Len(positionsJournal) : positionsJournal'[i] = positionsJournal[i]
    BY AppendTypes DEF RestTypes
  <1>2. /\ \A i \in 1..Len(positionsJournal) : i \in 1..Len(positionsJournal')
        /\ Len(positionsJournal) + 1 \in 1..Len(positionsJournal')
    BY <1>1
  <1>3. QED
    BY <1>1, <1>2 DEF GivenUp

(* A step that leaves the lots, the positions and the answers alone.         *)
LEMMA LotsKept ==
  ASSUME LotsInv,
         UNCHANGED <<held, sends, rests, doubted, positions, positionsJournal, monitor, resolved>>,
         crashes' = 0 /\ faults' = 0 => crashes = 0 /\ faults = 0,
         \A o \in Order : \A r : Answered(o, r)' => r = "threw" \/ Answered(o, r),
         faults' = 0 => \A o \in Order : \A r : Answered(o, r)' <=> Answered(o, r)
  PROVE  LotsInv'
PROOF
  <1>1. SendsCounted'
    BY BuysAreOrders, LotsParts DEF SendsCounted, InDoubt
  <1>2. ASSUME crashes' = 0, faults' = 0 PROVE LotFacts'
    <2>1. LotFacts
      BY <1>2, LotsParts
    <2>2. \A o \in Order : \A r : Answered(o, r)' <=> Answered(o, r)
      BY <1>2
    <2>3. \A l : /\ BuyFilled(l)' <=> BuyFilled(l)
                 /\ OnlyLot(l)' <=> OnlyLot(l)
                 /\ TracksLot(l)' <=> TracksLot(l)
                 /\ GivenUp(l)' <=> GivenUp(l)
                 /\ SaleFilled(l)' <=> SaleFilled(l)
      BY <2>2, BuysAreOrders, SellsAreOrders DEF BuyFilled, OnlyLot, TracksLot, GivenUp, SaleFilled
    <2>4. /\ \A t \in Tokens : SaleAnswered(t)' <=> SaleAnswered(t)
          /\ \A t : InDoubt(t)' <=> InDoubt(t)
      BY <2>2, SellsAreOrders DEF SaleAnswered, InDoubt
    <2>5. SentLots' /\ HeldLots'
      BY <2>1, <2>3, <2>4 DEF LotFacts, SentLots, HeldLots, Snap
    <2>6. LiveLots => LiveLots'
      BY <2>4 DEF LiveLots, Snap
    <2>7. QED
      BY <2>1, <2>5, <2>6 DEF LotFacts
  <1>3. QED
    BY <1>1, <1>2, LotsParts

(* A step of a task, which closes the position of its token or writes back   *)
(* the one it has.                                                           *)
TaskWrites(t) ==
  /\ monitor[t] # NoTask
  /\ UNCHANGED <<held, sends, rests, doubted, executing, stage, result>>
  /\ resolved' \in {resolved, NoExit}
  /\ \A u \in Tokens : u # t => positions'[u] = positions[u] /\ monitor'[u] = monitor[u]
  /\ resolved' # resolved => TokenOf[resolved.lot] = t
  /\ positions'[t] = NoPosition \/ (positions'[t] # NoPosition /\ positions'[t].lot = Snap(t).lot)
  /\ \/ monitor'[t] = NoTask
     \/ monitor'[t].step = "selling" /\ monitor'[t].snap.lot = Snap(t).lot /\ resolved' = resolved
  /\ \A l : GivenUp(l) => GivenUp(l)'
  /\ positions'[t] = NoPosition => \A l \in {Snap(t).lot} : GivenUp(l)' \/ SaleFilled(l)
  /\ monitor'[t] = NoTask /\ positions'[t] # NoPosition => ~SaleAnswered(t)

LEMMA LotsOfTask ==
  ASSUME QueueInv, RestTypes, TasksInv, LotsInv, NEW t \in Tokens,
         crashes' = 0 /\ faults' = 0 => crashes = 0 /\ faults = 0 /\ TaskWrites(t),
         UNCHANGED <<held, sends, rests, doubted, executing, stage, result>>
  PROVE  LotsInv'
PROOF
  <1>1. SendsCounted'
    BY LotsParts DEF SendsCounted, Answered, InDoubt
  <1>2. ASSUME crashes' = 0, faults' = 0 PROVE LotFacts'
    <2>1. LotFacts /\ TaskWrites(t)
      BY <1>2, LotsParts
    <2>2. /\ Snap(t).lot \in Envs /\ TokenOf[Snap(t).lot] = t /\ sends[Snap(t).lot] > 0
      BY <2>1, TaskFacts DEF LotFacts, SentLots, TaskWrites, TasksInv
    <2>3. /\ \A u \in Tokens : u # t => positions'[u] = positions[u] /\ monitor'[u] = monitor[u]
          /\ UNCHANGED <<held, sends, rests, doubted>> /\ \A u : InDoubt(u)' <=> InDoubt(u)
      BY <2>1 DEF TaskWrites, InDoubt
    <2>4. SentLots'
      <3> SUFFICES ASSUME NEW u \in Tokens
                   PROVE  /\ positions'[u] # NoPosition => sends[positions'[u].lot] > 0
                          /\ monitor'[u] # NoTask => sends[monitor'[u].snap.lot] > 0
        BY <2>3 DEF SentLots, Snap
      <3>1. CASE u = t
        BY <2>1, <2>2, <3>1 DEF TaskWrites
      <3>2. CASE u # t
        BY <2>1, <2>3, <3>2 DEF LotFacts, SentLots, Snap
      <3>3. QED
        BY <3>1, <3>2
    <2>5. \A l : SaleFilled(l)' => SaleFilled(l)
      BY <2>1 DEF TaskWrites, SaleFilled, Answered
    <2>6. ASSUME NEW l \in held, ~InDoubt(TokenOf[l]), OnlyLot(l), l \notin rests
          PROVE  TracksLot(l)' \/ GivenUp(l)' \/ BuyFilled(l)'
      <3>1. l \in Envs /\ TokenOf[l] \in Tokens /\ ~SaleFilled(l)
        BY <2>1, <2>6, ConstantFacts DEF RestTypes, LotFacts, HeldLots
      <3>2. TracksLot(l) \/ GivenUp(l) \/ BuyFilled(l)
        BY <2>1, <2>6 DEF LotFacts, HeldLots
      <3>3. CASE GivenUp(l)
        BY <2>1, <3>3 DEF TaskWrites
      <3>4. CASE BuyFilled(l)
        BY <2>1, <3>4 DEF TaskWrites, BuyFilled, Answered
      <3>5. CASE TracksLot(l) /\ TokenOf[l] # t
        BY <2>3, <3>1, <3>5 DEF TracksLot
      <3>6. CASE TracksLot(l) /\ TokenOf[l] = t
        <4>1. l = Snap(t).lot
          BY <2>1, <2>6, <3>1, <3>6, OnlyLotOfTask DEF LotFacts, TaskWrites, TasksInv
        <4>2. CASE positions'[t] = NoPosition
          <5>1. l \in {Snap(t).lot}
            BY <4>1
          <5>2. GivenUp(l)' \/ SaleFilled(l)
            BY <2>1, <4>2, <5>1 DEF TaskWrites
          <5>3. QED
            BY <3>1, <5>2
        <4>3. CASE positions'[t] # NoPosition
          BY <2>1, <2>2, <4>1, <4>3 DEF TaskWrites, TracksLot
        <4>4. QED
          BY <4>2, <4>3
      <3>7. QED
        BY <3>2, <3>3, <3>4, <3>5, <3>6
    <2>7. HeldLots'
      <3>1. \A l \in held' : /\ l \in held /\ (OnlyLot(l)' <=> OnlyLot(l))
                             /\ InDoubt(TokenOf[l]) \/ (SaleFilled(l) => l \in rests)
        BY <2>1, <2>3 DEF OnlyLot, LotFacts, HeldLots
      <3>2. QED
        BY <2>3, <2>5, <2>6, <3>1 DEF HeldLots
    <2>8. ASSUME Modes = {"auto"} PROVE LiveLots'
      <3> SUFFICES ASSUME NEW u \in Tokens, ~InDoubt(u)
                   PROVE  /\ positions'[u] # NoPosition =>
                               positions'[u].lot \in held \/ monitor'[u].step = "selling"
                          /\ monitor'[u] # NoTask => monitor'[u].snap.lot \in held \/ SaleAnswered(u)'
        BY <2>3 DEF LiveLots, Snap
      <3>1. LiveLots
        BY <2>1, <2>8 DEF LotFacts
      <3>2. CASE u = t
        <4>1. Snap(t).lot \in held \/ SaleAnswered(t)
          BY <2>1, <3>1, <3>2 DEF LiveLots, TaskWrites
        <4>2. resolved' = resolved => (SaleAnswered(t)' <=> SaleAnswered(t))
          BY <2>1 DEF SaleAnswered, Answered, TaskWrites
        <4>3. QED
          BY <2>1, <3>2, <4>1, <4>2 DEF TaskWrites
      <3>3. CASE u # t
        <4>1. SaleAnswered(u) => SaleAnswered(u)'
          BY <2>1, <3>3 DEF SaleAnswered, Answered, TaskWrites
        <4>2. QED
          BY <2>3, <3>1, <3>3, <4>1 DEF LiveLots, Snap
      <3>4. QED
        BY <3>2, <3>3
    <2>9. QED
      BY <2>4, <2>7, <2>8 DEF LotFacts
  <1>3. QED
    BY <1>1, <1>2, LotsParts

(* What a sale takes from the wallet, or leaves a rest of, is of its token;  *)
(* and of the lot it is for it takes all, or leaves a rest.                  *)
LEMMA SaleTakes ==
  ASSUME RestTypes, NEW e \in Envs, NEW reduced, SellLands(e, reduced)
  PROVE  /\ held' \in SUBSET held /\ \A l \in held \ held' : TokenOf[l] = TokenOf[e]
         /\ rests \in SUBSET rests' /\ (e \in held' => e \in rests')
         /\ \A l \in rests' \ rests : TokenOf[l] = TokenOf[e] /\ (reduced \/ l \in Surplus)
PROOF
  <1> DEFINE offered == IF e \in held \/ Lots(TokenOf[e]) = {} THEN {e} ELSE Lots(TokenOf[e])
  <1>1. PICK l \in offered :
          \/ held' = held \ {l} /\ UNCHANGED rests
          \/ /\ l \in held /\ (reduced \/ l \in Surplus)
             /\ rests' = rests \cup {l} /\ UNCHANGED held
    BY DEF SellLands
  <1>2. TokenOf[l] = TokenOf[e] /\ (e \in held => l = e)
    BY DEF Lots
  <1> HIDE DEF offered
  <1>3. QED
    BY <1>1, <1>2

(* The swap lands, is left in doubt, or is answered without a fill.          *)
LEMMA LotsOfSwap ==
  ASSUME QueueInv, RestTypes, TasksInv, LotsInv, NEW o \in Order, Swap(o)
  PROVE  LotsInv'
PROOF
  <1>1. /\ o \in executing /\ stage = "swap" /\ stage' = "append"
        /\ UNCHANGED <<positions, monitor, positionsJournal, executing, resolved, crashes, faults>>
    BY DEF Swap, clientVars, qvars, journalVars, boundVars
  <1>2. /\ \A p : p \in executing <=> p = o
        /\ resolved = NoExit /\ IsPending(o) /\ o.env \in Envs /\ TokenOf[o.env] \in Tokens
    BY <1>1, OrderFields DEF QueueInv, SubmitHolds, IsPending, Pending
  <1>3. /\ \A p, r : ~Answered(p, r)
        /\ \A p, r : Answered(p, r)' <=> p = o /\ r = result'
    BY <1>1, <1>2 DEF Answered
  <1>4. /\ sends \in [Envs -> Nat] /\ held \in SUBSET Envs
        /\ \A l \in held : sends[l] > 0
        /\ \A p \in Buys : p \in doubted => sends[p.env] > 0
    BY LotsParts DEF RestTypes, SendsCounted
  <1>5. /\ \A l : ~BuyFilled(l) /\ (SaleFilled(l)' => l = o.env /\ o \in Sells /\ result' = "sent")
        /\ \A t : ~SaleAnswered(t)
    BY <1>1, <1>2, <1>3 DEF BuyFilled, SaleFilled, SaleAnswered
  <1>6. \A l : /\ TracksLot(l)' <=> TracksLot(l)
               /\ GivenUp(l)' <=> GivenUp(l)
    BY <1>1 DEF TracksLot, GivenUp
  <1>7. ASSUME SentLots, Leaves(o)
        PROVE  SentLots'
    <2>1. \A l \in Envs : sends[l] > 0 => sends'[l] > 0
      BY <1>2, <1>4, <1>7 DEF Leaves
    <2>2. SUFFICES ASSUME NEW u \in Tokens
                   PROVE  /\ positions[u] # NoPosition => sends'[positions[u].lot] > 0
                          /\ monitor[u] # NoTask => sends'[Snap(u).lot] > 0
      BY <1>1 DEF SentLots, Snap
    <2>3. /\ positions[u] # NoPosition => positions[u].lot \in Envs
          /\ monitor[u] # NoTask => Snap(u).lot \in Envs
      BY TaskFacts DEF TasksInv, TaskTypes, Position
    <2>4. QED
      BY <1>7, <2>1, <2>3 DEF SentLots
  <1>8. ASSUME Leaves(o)
        PROVE  /\ \A l \in Envs : (sends[l] > 0 => sends'[l] > 0) /\ (OnlyLot(l)' => OnlyLot(l))
               /\ o \in Buys => sends'[o.env] > 0
    <2>1. \A l \in Envs : sends[l] \in Nat /\ sends'[l] \in {sends[l], sends[l] + 1}
      BY <1>2, <1>4, <1>8 DEF Leaves
    <2>2. o \in Buys => sends'[o.env] = sends[o.env] + 1
      BY <1>2, <1>4, <1>8, OrderFields DEF Leaves
    <2>3. \A l \in Envs : (sends[l] > 0 => sends'[l] > 0) /\ (sends'[l] = 0 => sends[l] = 0)
      BY <2>1
    <2>4. QED
      BY <1>2, <2>1, <2>2, <2>3 DEF OnlyLot
  <1>9. CASE SwapLands(o) /\ o.side = "buy"
    <2>1. /\ result' = "sent" /\ Leaves(o) /\ held' = held \cup {o.env}
          /\ UNCHANGED <<rests, doubted>> /\ o \in Buys /\ o \notin Sells
      BY <1>9, OrderFields DEF SwapLands, BuyLands
    <2>2. \A t : InDoubt(t)' <=> InDoubt(t)
      BY <2>1 DEF InDoubt
    <2>3. SendsCounted'
      BY <1>2, <1>3, <1>4, <1>8, <2>1, BuysAreOrders DEF SendsCounted
    <2>4. ASSUME LotFacts PROVE LotFacts'
      <3>1. SentLots'
        BY <1>7, <2>1, <2>4 DEF LotFacts
      <3>2. BuyFilled(o.env)'
        BY <1>3, <2>1 DEF BuyFilled
      <3>3. HeldLots'
        <4> SUFFICES ASSUME NEW l \in held', ~InDoubt(TokenOf[l]), OnlyLot(l)', l \notin rests
                     PROVE  TracksLot(l) \/ GivenUp(l) \/ BuyFilled(l)'
          BY <1>5, <1>6, <2>1, <2>2 DEF HeldLots
        <4>1. CASE l = o.env
          BY <3>2, <4>1
        <4>2. CASE l \in held
          BY <1>4, <1>5, <1>8, <2>1, <2>4, <4>2 DEF LotFacts, HeldLots
        <4>3. QED
          BY <2>1, <4>1, <4>2
      <3>4. LiveLots => LiveLots'
        BY <1>1, <1>5, <2>1, <2>2 DEF LiveLots, Snap
      <3>5. QED
        BY <2>4, <3>1, <3>3, <3>4 DEF LotFacts
    <2>5. QED
      BY <1>1, <2>3, <2>4, LotsParts
  <1>10. CASE SwapLands(o) /\ o.side = "sell"
    <2>1. /\ result' = "sent" /\ sends' = sends /\ UNCHANGED doubted
          /\ SellLands(o.env, OfferedReduced(TokenOf[o.env])) /\ o \in Sells /\ o \notin Buys
      BY <1>10, OrderFields DEF SwapLands, Leaves
    <2>2. /\ held' \in SUBSET held /\ \A l \in held \ held' : TokenOf[l] = TokenOf[o.env]
          /\ rests \in SUBSET rests' /\ (o.env \in held' => o.env \in rests')
      BY <1>2, <2>1, SaleTakes
    <2>3. \A t : InDoubt(t)' <=> InDoubt(t)
      BY <2>1 DEF InDoubt
    <2>4. SendsCounted'
      BY <1>3, <1>4, <2>1, <2>2 DEF SendsCounted
    <2>5. ASSUME LotFacts PROVE LotFacts'
      <3>1. SentLots'
        BY <1>1, <2>1, <2>5 DEF LotFacts, SentLots, Snap
      <3>2. HeldLots'
        <4> SUFFICES ASSUME NEW l \in held', ~InDoubt(TokenOf[l])
                     PROVE  /\ OnlyLot(l) => TracksLot(l) \/ GivenUp(l) \/ l \in rests'
                            /\ SaleFilled(l)' => l \in rests'
          BY <1>6, <2>1, <2>3 DEF HeldLots, OnlyLot
        <4>1. l \in held /\ ~BuyFilled(l)
          BY <1>5, <2>2
        <4>2. OnlyLot(l) => TracksLot(l) \/ GivenUp(l) \/ l \in rests
          BY <2>5, <4>1 DEF LotFacts, HeldLots
        <4>3. QED
          BY <1>5, <2>2, <4>2
      <3>3. ASSUME LiveLots PROVE LiveLots'
        <4> DEFINE t == TokenOf[o.env]
        <4>1. monitor[t].step = "selling"
          BY <1>2, <2>1 DEF TasksInv, ExitsHaveTasks, SellingLot
        <4>2. SaleAnswered(t)'
          <5>1. Answered(o, "sent")' /\ "sent" \in Result \ {"bounced"}
            BY <1>3, <2>1 DEF Result
          <5>2. QED
            BY <2>1, <5>1 DEF SaleAnswered
        <4>3. \A u \in Tokens :
                /\ positions[u] # NoPosition => TokenOf[positions[u].lot] = u
                /\ monitor[u] # NoTask => TokenOf[Snap(u).lot] = u
          BY DEF TasksInv, TaskTypes, PositionAt, TaskAt
        <4> HIDE DEF t
        <4>4. ASSUME NEW u \in Tokens, ~InDoubt(u)
              PROVE  /\ positions[u] # NoPosition =>
                          positions[u].lot \in held' \/ monitor[u].step = "selling"
                     /\ monitor[u] # NoTask => Snap(u).lot \in held' \/ SaleAnswered(u)'
          <5>1. /\ positions[u] # NoPosition => positions[u].lot \in held \/ monitor[u].step = "selling"
                /\ monitor[u] # NoTask => Snap(u).lot \in held
            BY <1>5, <3>3, <4>4 DEF LiveLots
          <5>2. CASE u = t
            BY <4>1, <4>2, <5>2
          <5>3. CASE u # t
            BY <2>2, <4>3, <5>1, <5>3 DEF t
          <5>4. QED
            BY <5>2, <5>3
        <4>5. QED
          BY <1>1, <2>3, <4>4 DEF LiveLots, Snap
      <3>4. QED
        BY <2>5, <3>1, <3>2, <3>3 DEF LotFacts
    <2>6. QED
      BY <1>1, <2>4, <2>5, LotsParts
  <1>11. CASE SwapInDoubt(o)
    <2>1. /\ Leaves(o) /\ doubted' = doubted \cup {o} /\ UNCHANGED <<held, rests>>
      BY <1>11 DEF SwapInDoubt
    <2>2. InDoubt(TokenOf[o.env])' /\ \A t : InDoubt(t) => InDoubt(t)'
      BY <2>1 DEF InDoubt
    <2>3. SendsCounted'
      BY <1>2, <1>3, <1>4, <1>8, <2>1, <2>2, BuysAreOrders DEF SendsCounted
    <2>4. ASSUME LotFacts PROVE LotFacts'
      <3>1. SentLots'
        BY <1>7, <2>1, <2>4 DEF LotFacts
      <3>2. HeldLots'
        <4> SUFFICES ASSUME NEW l \in held, ~InDoubt(TokenOf[l])', OnlyLot(l)', l \notin rests
                     PROVE  TracksLot(l) \/ GivenUp(l)
          BY <1>5, <1>6, <2>1, <2>2 DEF HeldLots
        <4>1. QED
          BY <1>4, <1>5, <1>8, <2>1, <2>2, <2>4 DEF LotFacts, HeldLots
      <3>3. LiveLots => LiveLots'
        BY <1>1, <1>5, <2>1, <2>2 DEF LiveLots, Snap
      <3>4. QED
        BY <2>4, <3>1, <3>2, <3>3 DEF LotFacts
    <2>5. QED
      BY <1>1, <2>3, <2>4, LotsParts
  <1>12. CASE NothingSwapped(o)
    <2>1. /\ result' # "sent" /\ UNCHANGED <<held, sends, rests, doubted>>
      BY <1>12 DEF NothingSwapped, chainVars
    <2>2. \A t : InDoubt(t)' <=> InDoubt(t)
      BY <2>1 DEF InDoubt
    <2>3. SendsCounted'
      BY <1>3, <1>4, <2>1, LotsParts DEF SendsCounted
    <2>4. ASSUME LotFacts PROVE LotFacts'
      <3>1. SentLots'
        BY <1>1, <2>1, <2>4 DEF LotFacts, SentLots, Snap
      <3>2. HeldLots'
        BY <1>5, <1>6, <2>1, <2>2, <2>4 DEF LotFacts, HeldLots, OnlyLot
      <3>3. LiveLots => LiveLots'
        BY <1>1, <1>5, <2>1, <2>2 DEF LiveLots, Snap
      <3>4. QED
        BY <2>4, <3>1, <3>2, <3>3 DEF LotFacts
    <2>5. QED
      BY <1>1, <2>3, <2>4, LotsParts
  <1>13. QED
    BY <1>9, <1>10, <1>11, <1>12, OrderFields DEF Swap

(* A message lands that was reported on before: its token is in doubt.       *)
LEMMA LotsOfLanding ==
  ASSUME QueueInv, RestTypes, TasksInv, LotsInv, NEW o \in Order, Lands(o)
  PROVE  LotsInv'
PROOF
  <1>1. /\ UNCHANGED <<positions, monitor, positionsJournal, executing, stage, result, resolved,
                       sends, doubted, crashes, faults>>
        /\ IF o.side = "buy" THEN BuyLands(o.env) ELSE SellLands(o.env, TRUE)
        /\ o \in afloat
    BY DEF Lands, clientVars, qvars, submitVars, journalVars, boundVars
  <1>2. InDoubt(TokenOf[o.env]) /\ \A t : InDoubt(t)' <=> InDoubt(t)
    BY <1>1 DEF InDoubt, RestTypes
  <1>3. /\ \A l \in held' \ held : l = o.env /\ sends[l] > 0
        /\ \A l \in held \ held' : TokenOf[l] = TokenOf[o.env]
        /\ rests \in SUBSET rests'
    <2>1. CASE o.side = "buy"
      <3>1. o \in Buys /\ o \in doubted /\ held' = held \cup {o.env} /\ rests' = rests
        BY <1>1, <2>1, OrderFields DEF BuyLands, RestTypes
      <3>2. sends[o.env] > 0
        BY <3>1, LotsParts DEF SendsCounted
      <3>3. QED
        BY <3>1, <3>2
    <2>2. CASE o.side # "buy"
      BY <1>1, <2>2, SaleTakes, OrderFields
    <2>3. QED
      BY <2>1, <2>2
  <1>4. \A p, r : Answered(p, r)' <=> Answered(p, r)
    BY <1>1 DEF Answered
  <1>5. SendsCounted'
    <2>1. /\ \A l \in held : sends[l] > 0
          /\ \A p \in Buys : p \in doubted \/ Answered(p, "sent") => sends[p.env] > 0
          /\ \A p \in Buys : Answered(p, "sent") => p.env \in held \/ InDoubt(TokenOf[p.env])
      BY LotsParts DEF SendsCounted
    <2>2. \A l \in held' : sends[l] > 0
      BY <1>3, <2>1
    <2>3. \A p \in Buys : Answered(p, "sent") => p.env \in held' \/ InDoubt(TokenOf[p.env])
      BY <1>2, <1>3, <2>1
    <2>4. QED
      BY <1>1, <1>2, <1>4, <2>1, <2>2, <2>3 DEF SendsCounted
  <1>6. ASSUME LotFacts PROVE LotFacts'
    <2>1. SentLots'
      BY <1>1, <1>6 DEF LotFacts, SentLots, Snap
    <2>2. \A l : /\ TracksLot(l)' <=> TracksLot(l)
                 /\ GivenUp(l)' <=> GivenUp(l)
                 /\ BuyFilled(l)' <=> BuyFilled(l)
                 /\ SaleFilled(l)' <=> SaleFilled(l)
                 /\ OnlyLot(l)' <=> OnlyLot(l)
      BY <1>1, <1>4 DEF TracksLot, GivenUp, BuyFilled, SaleFilled, OnlyLot
    <2>3. HeldLots'
      BY <1>2, <1>3, <1>6, <2>2 DEF LotFacts, HeldLots
    <2>4. ASSUME LiveLots PROVE LiveLots'
      <3>1. \A t \in Tokens :
              /\ positions[t] # NoPosition => TokenOf[positions[t].lot] = t
              /\ monitor[t] # NoTask => TokenOf[Snap(t).lot] = t
        BY DEF TasksInv, TaskTypes, PositionAt, TaskAt
      <3>2. \A t : SaleAnswered(t)' <=> SaleAnswered(t)
        BY <1>1, <1>4 DEF SaleAnswered
      <3>3. ASSUME NEW t \in Tokens, ~InDoubt(t)
            PROVE  /\ positions[t] # NoPosition =>
                        positions[t].lot \in held' \/ monitor[t].step = "selling"
                   /\ monitor[t] # NoTask => Snap(t).lot \in held' \/ SaleAnswered(t)
        BY <1>2, <1>3, <2>4, <3>1, <3>3 DEF LiveLots
      <3>4. QED
        BY <1>1, <1>2, <3>2, <3>3 DEF LiveLots, Snap
    <2>5. QED
      BY <1>6, <2>1, <2>3, <2>4 DEF LotFacts
  <1>7. QED
    BY <1>1, <1>5, <1>6, LotsParts

LEMMA LotsStep ==
  ASSUME QueueInv, RestTypes, TasksInv, LotsInv, [Next]_vars
  PROVE  LotsInv'
PROOF
  <1>0. MapTypes /\ faults \in Nat /\ crashes \in Nat
    BY TypesOfMaps DEF RestTypes
  <1>a. ASSUME UNCHANGED <<held, sends, rests, doubted, positions, positionsJournal, monitor,
                           resolved, executing, stage, result, crashes, faults>>
        PROVE  LotsInv'
    BY <1>a, LotsKept DEF Answered
  <1>1. ASSUME UNCHANGED vars PROVE LotsInv'
    BY <1>1, <1>a DEF vars, clientVars, qvars, submitVars, journalVars, worldVars, chainVars, boundVars
  <1>2. ASSUME NEW e \in Envs, Publish(e) PROVE LotsInv'
    BY <1>2, <1>a DEF Publish, qvars, submitVars, journalVars, worldVars, chainVars, boundVars
  <1>3. ASSUME NEW t \in Tokens, TimeStopPasses(t) PROVE LotsInv'
    BY <1>3, <1>a DEF TimeStopPasses, clientVars, qvars, submitVars, journalVars, chainVars, boundVars
  <1>4. ASSUME ScanBegins \/ MonitoringEnds PROVE LotsInv'
    BY <1>4, <1>a DEF ScanBegins, MonitoringEnds, qvars, submitVars, journalVars, worldVars, chainVars, boundVars
  <1>5. ASSUME IngestRow PROVE LotsInv'
    <2>1. UNCHANGED executing
      BY <1>5 DEF IngestRow, OrderQ!Enqueue, qvars
    <2>2. QED
      BY <1>5, <2>1, <1>a DEF IngestRow, submitVars, journalVars, worldVars, chainVars, boundVars
  <1>6. ASSUME MonitoringBegins PROVE LotsInv'
    <2>1. /\ UNCHANGED <<held, sends, rests, doubted, positions, positionsJournal, resolved,
                         executing, stage, result, crashes, faults>>
          /\ \A t \in Tokens : monitor[t] = NoTask
          /\ \A t \in Tokens : monitor'[t] = NoTask
                               \/ (monitor'[t].snap = positions[t] /\ positions[t] # NoPosition)
      <3>1. UNCHANGED <<held, sends, rests, doubted, positions, positionsJournal, resolved,
                        executing, stage, result, crashes, faults>>
        BY <1>6 DEF MonitoringBegins, submitVars, journalVars, worldVars, chainVars, boundVars, qvars
      <3>2. \A t \in Tokens : monitor[t] = NoTask
        BY <1>6 DEF MonitoringBegins, TasksInv, TaskTypes, TaskAt
      <3>3. \A t \in Tokens : monitor'[t] = NoTask
              \/ (monitor'[t].snap = positions[t] /\ positions[t] # NoPosition)
        BY <1>6, <3>2 DEF MonitoringBegins, Tracked
      <3>4. QED
        BY <3>1, <3>2, <3>3
    <2>2. SendsCounted'
      BY <2>1, LotsParts DEF SendsCounted, Answered, InDoubt
    <2>3. ASSUME LotFacts PROVE LotFacts'
      <3>1. SentLots'
        BY <2>1, <2>3 DEF LotFacts, SentLots, Snap
      <3>2. HeldLots'
        BY <2>1, <2>3 DEF LotFacts, HeldLots, OnlyLot, TracksLot, GivenUp, BuyFilled, SaleFilled,
             Answered, InDoubt
      <3>3. ASSUME LiveLots PROVE LiveLots'
        <4>1. \A t \in Tokens : InDoubt(t) \/ (positions[t] # NoPosition => positions[t].lot \in held)
          BY <2>1, <3>3 DEF LiveLots, NoTask
        <4>2. QED
          BY <2>1, <4>1 DEF LiveLots, Snap, InDoubt
      <3>4. QED
        BY <2>3, <3>1, <3>2, <3>3 DEF LotFacts
    <2>4. QED
      BY <2>1, <2>2, <2>3, LotsParts
  <1>7. ASSUME NEW t \in Tokens, StepHolds(t) PROVE LotsInv'
    <2>1. /\ positions' = [positions EXCEPT ![t] = Snap(t)] /\ TaskEnds(t)
          /\ UNCHANGED <<held, sends, rests, doubted, positionsJournal, executing, stage, result,
                         resolved, crashes, faults>>
          /\ monitor[t].step = "pricing" /\ resolved = NoExit
      BY <1>7 DEF StepHolds, Snap, Priced, Idle, qvars, submitVars, journalVars, worldVars, chainVars, boundVars
    <2>2. monitor[t] # NoTask /\ Snap(t) \in Position /\ Snap(t) # NoPosition
      BY <2>1, TaskFacts DEF TasksInv
    <2>3. positions'[t] = Snap(t) /\ \A u \in Tokens : u # t => positions'[u] = positions[u]
      BY <2>1, <2>2, <1>0, SetPosition
    <2>4. monitor'[t] = NoTask /\ \A u \in Tokens : u # t => monitor'[u] = monitor[u]
      BY <2>1, <1>0, SetTask DEF TaskEnds
    <2>5. ~SaleAnswered(t)
      <3>1. \A o \in Sells : IsPending(o) => TokenOf[o.env] # t
        BY <2>1, NoExitUnlessSelling
      <3>2. \A o \in executing : IsPending(o)
        BY DEF QueueInv, SubmitHolds, IsPending, Pending
      <3>3. QED
        BY <2>1, <3>1, <3>2 DEF SaleAnswered, Answered
    <2>6. TaskWrites(t)
      BY <2>1, <2>2, <2>3, <2>4, <2>5 DEF TaskWrites, GivenUp
    <2>7. QED
      BY <2>1, <2>6, LotsOfTask
  <1>8. ASSUME NEW t \in Tokens, StepEvictsDust(t) PROVE LotsInv'
    <2> DEFINE row == [kind |-> "closed", lot |-> Snap(t).lot, reason |-> "dust"]
    <2>1. /\ positions' = [positions EXCEPT ![t] = NoPosition] /\ TaskEnds(t)
          /\ UNCHANGED <<held, sends, rests, doubted, stage, result, resolved, crashes>>
          /\ monitor[t].step = "pricing" /\ (OrderQ!NotifySlotAvailable \/ UNCHANGED qvars)
          /\ faults' \in {faults, faults + 1}
      BY <1>8 DEF StepEvictsDust, Priced, submitVars, worldVars, chainVars, DiskWorks, DiskFails
    <2>2. UNCHANGED executing
      BY <2>1, NotifyKeepsQueue
    <2>3. monitor[t] # NoTask /\ Snap(t).lot \in Envs
      BY <2>1, TaskFacts DEF TasksInv
    <2>4. positions'[t] = NoPosition /\ \A u \in Tokens : u # t => positions'[u] = positions[u]
      BY <2>1, <1>0, SetPosition
    <2>5. monitor'[t] = NoTask /\ \A u \in Tokens : u # t => monitor'[u] = monitor[u]
      BY <2>1, <1>0, SetTask DEF TaskEnds
    <2>6. ASSUME faults' = 0 PROVE faults = 0 /\ TaskWrites(t)
      <3>1. faults = 0 /\ positionsJournal' = Append(positionsJournal, row)
        BY <1>8, <2>6, <1>0 DEF StepEvictsDust, DiskWorks, DiskFails, Snap
      <3>2. row \in PositionRow /\ row.lot = Snap(t).lot /\ row.reason = "dust"
        BY <2>3, RowTypes DEF CloseWhy
      <3> HIDE DEF row
      <3>3. /\ \A l : GivenUp(l) => GivenUp(l)'
            /\ \A l \in {row.lot} : GivenUp(l)'
        BY <3>1, <3>2, GivenUpGrows
      <3>4. QED
        BY <2>1, <2>2, <2>3, <2>4, <2>5, <3>1, <3>2, <3>3 DEF TaskWrites
    <2>7. QED
      BY <2>1, <2>2, <2>6, LotsOfTask
  <1>9. ASSUME NEW t \in Tokens, StepExits(t) PROVE LotsInv'
    <2>1. PICK q \in Position, k \in Task :
            /\ positions' = [positions EXCEPT ![t] = q] /\ monitor' = [monitor EXCEPT ![t] = k]
            /\ q.lot = Snap(t).lot /\ k.step = "selling" /\ k.snap.lot = Snap(t).lot
      BY <1>9, ExitMarks DEF TasksInv
    <2>2. /\ monitor[t].step = "pricing" /\ UNCHANGED executing
          /\ UNCHANGED <<held, sends, rests, doubted, positionsJournal, stage, result, resolved,
                         crashes, faults>>
      BY <1>9, Zenon DEF StepExits, Priced, OrderQ!Enqueue, submitVars, journalVars, worldVars,
           chainVars, boundVars
    <2>3. monitor[t] # NoTask
      BY <2>2, TaskFacts DEF TasksInv
    <2>4. positions'[t] = q /\ \A u \in Tokens : u # t => positions'[u] = positions[u]
      BY <2>1, <1>0, SetPosition
    <2>5. monitor'[t] = k /\ \A u \in Tokens : u # t => monitor'[u] = monitor[u]
      BY <2>1, <1>0, SetTask
    <2>6. q # NoPosition /\ k # NoTask
      BY <2>1, NoRecord
    <2>7. TaskWrites(t)
      BY <2>1, <2>2, <2>3, <2>4, <2>5, <2>6 DEF TaskWrites, GivenUp
    <2>8. QED
      BY <2>2, <2>7, LotsOfTask
  <1>10. ASSUME NEW t \in Tokens, ExitCloses(t) \/ ExitBounces(t) \/ ExitThrows(t) PROVE LotsInv'
    <2> DEFINE retry == [Snap(t) EXCEPT !.bounces = Snap(t).bounces + 1]
               row(r) == [kind |-> "closed", lot |-> Snap(t).lot, reason |-> r]
    <2>1. ExitResumes(t)
      BY <1>10 DEF ExitCloses, ExitBounces, ExitThrows
    <2>2. /\ resolved # NoExit /\ TokenOf[resolved.lot] = t /\ resolved' = NoExit /\ TaskEnds(t)
          /\ UNCHANGED <<held, sends, rests, doubted, stage, result, crashes>>
      BY <2>1 DEF ExitResumes, worldVars, chainVars
    <2>3. /\ (OrderQ!NotifySlotAvailable \/ UNCHANGED qvars)
          /\ faults' \in {faults, faults + 1}
      BY <1>10 DEF ExitCloses, ExitBounces, ExitThrows, ClosePosition, DiskWorks, DiskFails
    <2>4. UNCHANGED executing
      BY <2>2, <2>3, NotifyKeepsQueue
    <2>5. /\ monitor[t] # NoTask /\ Snap(t) \in Position /\ Snap(t).lot \in Envs
          /\ Snap(t).lot = resolved.lot /\ executing = {} /\ Snap(t).bounces < BounceLimit + faults
      BY <2>1, ResumingTask, TaskFacts DEF TasksInv
    <2>6. monitor'[t] = NoTask /\ \A u \in Tokens : u # t => monitor'[u] = monitor[u]
      BY <2>2, <1>0, SetTask DEF TaskEnds
    <2>7. ASSUME faults' = 0 PROVE faults = 0 /\ TaskWrites(t)
      <3>1. faults = 0
        BY <2>3, <2>7, <1>0
      <3>2. ~ExitThrows(t)
        <4> SUFFICES ASSUME ExitThrows(t) PROVE FALSE
          OBVIOUS
        <4>1. resolved.result = "threw"
          BY DEF ExitThrows
        <4>2. QED
          BY <2>2, <3>1, <4>1 DEF TasksInv, ThrownByFaults
      <3>3. \/ \E r \in CloseWhy : /\ positions' = [positions EXCEPT ![t] = NoPosition]
                                   /\ positionsJournal' = Append(positionsJournal, row(r))
                                   /\ r = "sent" => resolved.result = "sent"
                                   /\ r # "dust"
            \/ /\ positions' = [positions EXCEPT ![t] = retry] /\ UNCHANGED positionsJournal
               /\ Snap(t).bounces + 1 < BounceLimit /\ resolved.result = "bounced"
        BY <1>10, <2>7, <3>1, <3>2 DEF ExitCloses, ExitBounces, ClosePosition, DiskFails, Snap, CloseWhy
      <3>4. ASSUME NEW r \in CloseWhy, positions' = [positions EXCEPT ![t] = NoPosition],
                   positionsJournal' = Append(positionsJournal, row(r)),
                   r = "sent" => resolved.result = "sent", r # "dust"
            PROVE  TaskWrites(t)
        <4>1. row(r) \in PositionRow /\ row(r).lot = Snap(t).lot /\ row(r).reason = r
          BY <2>5, RowTypes
        <4> HIDE DEF row
        <4>2. /\ \A l : GivenUp(l) => GivenUp(l)'
              /\ r # "sent" => \A l \in {Snap(t).lot} : GivenUp(l)'
          <5>1. r # "sent" => r \in {"unsellable", "surfaced", "force_cleared", "dust"}
            BY DEF CloseWhy
          <5>2. QED
            BY <3>4, <4>1, <5>1, GivenUpGrows
        <4>3. r = "sent" => \A l \in {Snap(t).lot} : SaleFilled(l)
          BY <2>2, <2>5, <3>4 DEF SaleFilled
        <4>4. positions'[t] = NoPosition /\ \A u \in Tokens : u # t => positions'[u] = positions[u]
          BY <3>4, <1>0, SetPosition
        <4>5. QED
          BY <2>2, <2>4, <2>5, <2>6, <4>2, <4>3, <4>4 DEF TaskWrites
      <3>5. CASE /\ positions' = [positions EXCEPT ![t] = retry] /\ UNCHANGED positionsJournal
                 /\ Snap(t).bounces + 1 < BounceLimit /\ resolved.result = "bounced"
        <4>1. Snap(t).bounces + 1 \in 0..BounceLimit + MaxFaults - 1
          BY <2>5, <3>5, ConstantFacts DEF Position
        <4>2. retry \in Position /\ retry.lot = Snap(t).lot
          BY <2>5, <4>1 DEF Position
        <4> HIDE DEF retry
        <4>3. /\ positions'[t] = retry /\ retry # NoPosition
              /\ \A u \in Tokens : u # t => positions'[u] = positions[u]
          BY <3>5, <4>2, <1>0, SetPosition, NoRecord
        <4>4. ~SaleAnswered(t)
          BY <2>5, <3>5 DEF SaleAnswered, Answered
        <4>5. \A l : GivenUp(l) => GivenUp(l)'
          BY <3>5 DEF GivenUp
        <4>6. QED
          BY <3>1, <2>2, <2>4, <2>5, <2>6, <4>2, <4>3, <4>4, <4>5 DEF TaskWrites
      <3>6. CASE \E r \in CloseWhy : /\ positions' = [positions EXCEPT ![t] = NoPosition]
                                     /\ positionsJournal' = Append(positionsJournal, row(r))
                                     /\ r = "sent" => resolved.result = "sent"
                                     /\ r # "dust"
        <4>1. PICK r \in CloseWhy : /\ positions' = [positions EXCEPT ![t] = NoPosition]
                                    /\ positionsJournal' = Append(positionsJournal, row(r))
                                    /\ r = "sent" => resolved.result = "sent"
                                    /\ r # "dust"
          BY <3>6
        <4>2. QED
          BY <3>1, <3>4, <4>1
      <3>7. TaskWrites(t)
        BY <3>3, <3>5, <3>6
      <3>8. QED
        BY <3>1, <3>7
    <2>8. QED
      BY <2>2, <2>4, <2>7, LotsOfTask
  <1>11. ASSUME Worker PROVE LotsInv'
    <2>1. UNCHANGED <<held, sends, rests, doubted, positions, positionsJournal, monitor, resolved,
                      crashes, faults>>
      BY <1>11 DEF Worker, clientVars, journalVars, worldVars, chainVars, boundVars
    <2>2. \A o \in Order : \A r : Answered(o, r)' <=> Answered(o, r)
      <3>1. CASE UNCHANGED <<executing, outcome, stage, result, resolved>>
        BY <3>1 DEF Answered
      <3>2. ASSUME NEW p \in Order, Dispatches(p) PROVE \A o \in Order : \A r : Answered(o, r)' <=> Answered(o, r)
        BY <3>2 DEF Dispatches, Answered
      <3>3. QED
        BY <1>11, <3>1, <3>2, WorkerDispatches
    <2>3. QED
      BY <2>1, <2>2, LotsKept
  <1>12. ASSUME NEW o \in Order, Swap(o) PROVE LotsInv'
    BY <1>12, LotsOfSwap
  <1>13. ASSUME NEW o \in Order, JournalOrder(o) PROVE LotsInv'
    <2>1. /\ UNCHANGED <<held, sends, rests, doubted, positions, positionsJournal, monitor,
                         resolved, executing, crashes>>
          /\ stage = "append" /\ stage' = "return"
          /\ \/ faults' = faults /\ result' = result
             \/ faults' = faults + 1 /\ result' = "threw"
      BY <1>13 DEF JournalOrder, clientVars, qvars, worldVars, chainVars, DiskWorks, DiskFails
    <2>2. \A p \in Order : \A r : Answered(p, r)' => r = "threw" \/ Answered(p, r)
      BY <2>1 DEF Answered
    <2>3. faults' = 0 => faults = 0 /\ \A p \in Order : \A r : Answered(p, r)' <=> Answered(p, r)
      BY <2>1, <1>0 DEF Answered
    <2>4. QED
      BY <2>1, <2>2, <2>3, LotsKept
  <1>14. ASSUME NEW o \in Order, BuySettles(o) PROVE LotsInv'
    <2> DEFINE t == TokenOf[o.env]
    <2>1. /\ o.side = "buy" /\ stage = "return" /\ stage' = "idle" /\ result' = "none"
          /\ UNCHANGED <<held, sends, rests, doubted, monitor, resolved, crashes>>
          /\ \E r \in {"resolved", "rejected"} : OrderQ!SubmitSettles(o, r)
          /\ faults' \in {faults, faults + 1}
          /\ \/ /\ result # "sent" /\ UNCHANGED <<positions, positionsJournal>>
             \/ /\ result = "sent" /\ positions' = [positions EXCEPT ![t] = Opened(o.env)]
                /\ \/ UNCHANGED positionsJournal
                   \/ positionsJournal' =
                        Append(positionsJournal, [kind |-> "open", lot |-> o.env, reason |-> "none"])
      BY <1>14 DEF BuySettles, worldVars, chainVars, DiskWorks, DiskFails
    <2>2. executing = {o} /\ executing' = {} /\ resolved = NoExit
      BY <2>1, SettleKeepsQueue DEF QueueInv, SubmitHolds
    <2>3. o \in Buys /\ o \notin Sells /\ t \in Tokens /\ o.env \in Envs
      BY <2>1, OrderFields
    <2>4. \A p, r : Answered(p, r) <=> p = o /\ r = result
      BY <2>1, <2>2 DEF Answered
    <2>5. \A p, r : ~Answered(p, r)'
      BY <2>2 DEF Answered
    <2>6. SendsCounted'
      BY <2>1, <2>5, LotsParts DEF SendsCounted, InDoubt
    <2>7. \A l : GivenUp(l) => GivenUp(l)'
      <3>1. CASE UNCHANGED positionsJournal
        BY <3>1 DEF GivenUp
      <3>2. CASE positionsJournal' = Append(positionsJournal, [kind |-> "open", lot |-> o.env, reason |-> "none"])
        <4> DEFINE row == [kind |-> "open", lot |-> o.env, reason |-> "none"]
        <4>1. row \in PositionRow
          BY <2>3, RowTypes
        <4> HIDE DEF row
        <4>2. QED
          BY <3>2, <4>1, GivenUpGrows DEF row
      <3>3. QED
        BY <2>1, <3>1, <3>2
    <2>8. \A u : ~SaleAnswered(u) /\ ~SaleAnswered(u)'
      BY <2>1, <2>2, <2>3, <2>4, <2>5 DEF SaleAnswered
    <2>9. /\ \A l : ~SaleFilled(l)' /\ ~BuyFilled(l)'
          /\ \A u : InDoubt(u)' <=> InDoubt(u)
      BY <2>1, <2>2, <2>5 DEF SaleFilled, BuyFilled, InDoubt
    <2>10. ASSUME LotFacts, result # "sent" PROVE LotFacts'
      <3>1. UNCHANGED <<positions, positionsJournal>>
        BY <2>1, <2>10
      <3>2. \A l : ~BuyFilled(l)
        BY <2>4, <2>10 DEF BuyFilled
      <3>3. SentLots'
        BY <2>1, <2>10, <3>1 DEF LotFacts, SentLots, Snap
      <3>4. HeldLots'
        <4> SUFFICES ASSUME NEW l \in held, ~InDoubt(TokenOf[l]), OnlyLot(l), l \notin rests
                     PROVE  TracksLot(l)' \/ GivenUp(l)'
          BY <2>1, <2>9 DEF HeldLots, OnlyLot
        <4>1. QED
          BY <2>7, <2>10, <3>1, <3>2 DEF LotFacts, HeldLots, TracksLot
      <3>5. LiveLots => LiveLots'
        BY <2>1, <2>8, <2>9, <3>1 DEF LiveLots, Snap
      <3>6. QED
        BY <2>10, <3>3, <3>4, <3>5 DEF LotFacts
    <2>11. ASSUME LotFacts, result = "sent" PROVE LotFacts'
      <3>1. sends[o.env] > 0 /\ (o.env \in held \/ InDoubt(t))
        BY <2>3, <2>4, <2>11, LotsParts DEF SendsCounted
      <3>2. /\ Opened(o.env) \in Position /\ Opened(o.env) # NoPosition /\ Opened(o.env).lot = o.env
        <4>1. 0 \in 0..MaxFaults
          BY ConstantFacts
        <4>2. QED
          BY <2>3, <4>1, OpenedIsPosition
      <3>3. /\ positions'[t] = Opened(o.env)
            /\ \A u \in Tokens : u # t => positions'[u] = positions[u]
        BY <2>1, <2>3, <2>11, <3>2, <1>0, SetPosition
      <3> HIDE DEF t
      <3>4. SentLots'
        <4> SUFFICES ASSUME NEW u \in Tokens
                     PROVE  /\ positions'[u] # NoPosition => sends[positions'[u].lot] > 0
                            /\ monitor[u] # NoTask => sends[Snap(u).lot] > 0
          BY <2>1 DEF SentLots, Snap
        <4>1. CASE u = t
          BY <2>11, <3>1, <3>2, <3>3, <4>1 DEF LotFacts, SentLots
        <4>2. CASE u # t
          BY <2>11, <3>3, <4>2 DEF LotFacts, SentLots
        <4>3. QED
          BY <4>1, <4>2
      <3>5. HeldLots'
        <4> SUFFICES ASSUME NEW l \in held, ~InDoubt(TokenOf[l]), OnlyLot(l), l \notin rests
                     PROVE  TracksLot(l)' \/ GivenUp(l)'
          BY <2>1, <2>9 DEF HeldLots, OnlyLot
        <4>1. l \in Envs /\ TokenOf[l] \in Tokens
          BY ConstantFacts DEF RestTypes
        <4>2. CASE l = o.env
          BY <3>2, <3>3, <4>2 DEF TracksLot, t
        <4>3. CASE l # o.env /\ TokenOf[l] = t
          BY <2>3, <3>1, <4>3 DEF OnlyLot, t
        <4>4. CASE l # o.env /\ TokenOf[l] # t
          <5>1. ~BuyFilled(l)
            BY <2>4, <4>4 DEF BuyFilled
          <5>2. TracksLot(l) \/ GivenUp(l)
            BY <2>11, <5>1 DEF LotFacts, HeldLots
          <5>3. QED
            BY <2>7, <3>3, <4>1, <4>4, <5>2 DEF TracksLot
        <4>5. QED
          BY <4>2, <4>3, <4>4
      <3>6. ASSUME LiveLots PROVE LiveLots'
        <4> SUFFICES ASSUME NEW u \in Tokens, ~InDoubt(u)
                     PROVE  /\ positions'[u] # NoPosition =>
                                 positions'[u].lot \in held \/ monitor[u].step = "selling"
                            /\ monitor[u] # NoTask => Snap(u).lot \in held
          BY <2>1, <2>9 DEF LiveLots, Snap
        <4>1. CASE u = t
          BY <2>8, <3>1, <3>2, <3>3, <3>6, <4>1 DEF LiveLots
        <4>2. CASE u # t
          BY <2>8, <3>3, <3>6, <4>2 DEF LiveLots
        <4>3. QED
          BY <4>1, <4>2
      <3>7. QED
        BY <2>11, <3>4, <3>5, <3>6 DEF LotFacts
    <2>12. crashes' = 0 /\ faults' = 0 => crashes = 0 /\ faults = 0
      BY <2>1, <1>0
    <2>13. QED
      BY <2>6, <2>10, <2>11, <2>12, LotsParts
  <1>15. ASSUME NEW o \in Order, SellSettles(o) PROVE LotsInv'
    <2>1. /\ o.side = "sell" /\ stage = "return" /\ stage' = "idle" /\ result' = "none"
          /\ UNCHANGED <<held, sends, rests, doubted, positions, positionsJournal, monitor,
                         crashes, faults>>
          /\ resolved' = [lot |-> o.env, result |-> result]
          /\ \E r \in {"resolved", "rejected"} : OrderQ!SubmitSettles(o, r)
      BY <1>15 DEF SellSettles, clientVars, journalVars, worldVars, chainVars, boundVars
    <2>2. executing = {o} /\ executing' = {} /\ resolved = NoExit /\ result \in Result
      BY <2>1, SettleKeepsQueue DEF QueueInv, SubmitHolds
    <2>3. o \in Sells /\ o \notin Buys
      BY <2>1, OrderFields
    <2>4. \A p, r : Answered(p, r) <=> p = o /\ r = result
      BY <2>1, <2>2 DEF Answered
    <2>5. \A p, r : ~Answered(p, r)'
      BY <2>2 DEF Answered
    <2>6. resolved'.lot = o.env /\ resolved'.result = result /\ resolved' # NoExit
      <3>1. resolved' \in [lot : Envs, result : Result]
        BY <2>1, <2>2, OrderFields
      <3>2. QED
        BY <2>1, <3>1, NoRecord
    <2>7. SendsCounted'
      BY <2>1, <2>5, LotsParts DEF SendsCounted, InDoubt
    <2>8. /\ \A l : (SaleFilled(l)' => SaleFilled(l)) /\ ~BuyFilled(l) /\ ~BuyFilled(l)'
          /\ \A u : InDoubt(u)' <=> InDoubt(u)
      BY <2>1, <2>3, <2>4, <2>5, <2>6 DEF SaleFilled, BuyFilled, InDoubt
    <2>9. \A u : SaleAnswered(u) => SaleAnswered(u)'
      BY <2>2, <2>4, <2>6 DEF SaleAnswered
    <2>10. ASSUME LotFacts PROVE LotFacts'
      <3>1. SentLots'
        BY <2>1, <2>10 DEF LotFacts, SentLots, Snap
      <3>2. HeldLots'
        BY <2>1, <2>8, <2>10 DEF LotFacts, HeldLots, OnlyLot, TracksLot, GivenUp
      <3>3. LiveLots => LiveLots'
        BY <2>1, <2>8, <2>9 DEF LiveLots, Snap
      <3>4. QED
        BY <2>10, <3>1, <3>2, <3>3 DEF LotFacts
    <2>11. QED
      BY <2>1, <2>7, <2>10, LotsParts
  <1>16. ASSUME Shutdown PROVE LotsInv'
    BY <1>16, <1>a DEF Shutdown, OrderQ!Stop, clientVars, submitVars, journalVars, worldVars, chainVars, boundVars
  <1>17. ASSUME Restart PROVE LotsInv'
    <2>1. UNCHANGED <<held, sends, rests, doubted>> /\ crashes' # 0
      BY <1>17, <1>0 DEF Restart, worldVars, chainVars
    <2>2. executing' = {}
      BY <1>17, RestartKeepsQueue
    <2>3. SendsCounted'
      BY <2>1, <2>2, LotsParts DEF SendsCounted, Answered, InDoubt
    <2>4. QED
      BY <2>1, <2>3, LotsParts
  <1>18. ASSUME NEW o \in Order, Lands(o) PROVE LotsInv'
    BY <1>18, LotsOfLanding
  <1>19. QED
    BY <1>1, <1>2, <1>3, <1>4, <1>5, <1>6, <1>7, <1>8, <1>9, <1>10, <1>11, <1>12, <1>13, <1>14,
       <1>15, <1>16, <1>17, <1>18 DEF Next, Monitoring, Submit, MessageLands
-----------------------------------------------------------------------------
(* What only grows: the journals, the buys that were sent, the doubts, the   *)
(* restarts and the faults.                                                  *)
LEMMA JournalsGrow ==
  ASSUME QueueInv, RestTypes, TasksInv, [Next]_vars
  PROVE  /\ UNCHANGED ordersJournal \/ \E row \in OrderRow : ordersJournal' = Append(ordersJournal, row)
         /\ UNCHANGED positionsJournal
            \/ \E row \in PositionRow : positionsJournal' = Append(positionsJournal, row)
PROOF
  <1> DEFINE OrdersGrow == UNCHANGED ordersJournal
                           \/ \E row \in OrderRow : ordersJournal' = Append(ordersJournal, row)
             PositionsGrow == UNCHANGED positionsJournal
                              \/ \E row \in PositionRow : positionsJournal' = Append(positionsJournal, row)
  <1>1. ASSUME NEW o \in Order, JournalOrder(o) PROVE OrdersGrow /\ PositionsGrow
    <2>1. UNCHANGED positionsJournal
      BY <1>1 DEF JournalOrder
    <2>2. \/ UNCHANGED ordersJournal
          \/ \E r \in Result : ordersJournal' =
               Append(ordersJournal, [kind |-> o.side, lot |-> o.env, fill |-> r])
      BY <1>1 DEF JournalOrder, QueueInv, SubmitHolds, Result
    <2>3. \A r \in Result : [kind |-> o.side, lot |-> o.env, fill |-> r] \in OrderRow
      BY RowTypes, OrderFields
    <2>4. QED
      BY <2>1, <2>2, <2>3
  <1>2. ASSUME NEW o \in Order, BuySettles(o) PROVE OrdersGrow /\ PositionsGrow
    <2>1. /\ UNCHANGED ordersJournal
          /\ \/ UNCHANGED positionsJournal
             \/ positionsJournal' =
                  Append(positionsJournal, [kind |-> "open", lot |-> o.env, reason |-> "none"])
      BY <1>2 DEF BuySettles
    <2>2. [kind |-> "open", lot |-> o.env, reason |-> "none"] \in PositionRow
      BY RowTypes, OrderFields
    <2>3. QED
      BY <2>1, <2>2
  <1>3. ASSUME NEW t \in Tokens, StepEvictsDust(t) \/ ExitCloses(t) \/ ExitBounces(t)
        PROVE  OrdersGrow /\ PositionsGrow
    <2>1. /\ UNCHANGED ordersJournal
          /\ \/ UNCHANGED positionsJournal
             \/ \E r \in CloseWhy : positionsJournal' =
                  Append(positionsJournal, [kind |-> "closed", lot |-> Snap(t).lot, reason |-> r])
      BY <1>3 DEF StepEvictsDust, ExitCloses, ExitBounces, ExitResumes, ClosePosition, Snap, CloseWhy
    <2>2. Snap(t).lot \in Envs
      <3>1. CASE StepEvictsDust(t)
        BY <3>1, TaskFacts DEF StepEvictsDust, Priced, TasksInv
      <3>2. CASE ExitCloses(t) \/ ExitBounces(t)
        BY <3>2, ResumingTask, TaskFacts DEF ExitCloses, ExitBounces, TasksInv
      <3>3. QED
        BY <1>3, <3>1, <3>2
    <2>3. \A r \in CloseWhy : [kind |-> "closed", lot |-> Snap(t).lot, reason |-> r] \in PositionRow
      BY <2>2, RowTypes
    <2>4. QED
      BY <2>1, <2>3
  <1>4. ASSUME UNCHANGED journalVars PROVE OrdersGrow /\ PositionsGrow
    BY <1>4 DEF journalVars
  <1>5. ASSUME NEW t \in Tokens, StepHolds(t) \/ StepExits(t) \/ ExitThrows(t) PROVE UNCHANGED journalVars
    BY <1>5, Zenon DEF StepHolds, StepExits, ExitThrows, ExitResumes, journalVars
  <1>6. \/ UNCHANGED journalVars
        \/ \E o \in Order : JournalOrder(o) \/ BuySettles(o)
        \/ \E t \in Tokens : StepEvictsDust(t) \/ ExitCloses(t) \/ ExitBounces(t)
    BY <1>5 DEF Next, Monitoring, Submit, MessageLands, Publish, TimeStopPasses, ScanBegins, IngestRow,
       MonitoringBegins, MonitoringEnds, Worker, Swap, SellSettles, Lands, Shutdown, Restart, vars
  <1>7. QED
    BY <1>1, <1>2, <1>3, <1>4, <1>6

LEMMA RowsKept ==
  ASSUME NEW S, NEW s \in Seq(S), NEW r, r = s \/ \E row \in S : r = Append(s, row)
  PROVE  Len(s) \in Nat /\ Len(r) \in Nat /\ Len(s) <= Len(r)
         /\ \A i \in 1..Len(s) : i \in 1..Len(r) /\ r[i] = s[i]
PROOF
  <1>1. CASE r = s
    BY <1>1
  <1>2. ASSUME NEW row \in S, r = Append(s, row)
        PROVE  /\ Len(r) = Len(s) + 1 /\ Len(s) \in Nat
               /\ \A i \in 1..Len(s) : r[i] = s[i]
    BY <1>2, AppendTypes
  <1>3. QED
    BY <1>1, <1>2

LEMMA SendsGrow ==
  ASSUME RestTypes, [Next]_vars
  PROVE  \A e \in Envs : sends[e] > 0 => sends'[e] > 0
PROOF
  <1>1. CASE UNCHANGED sends
    BY <1>1
  <1>2. ASSUME NEW o \in Order, Swap(o), sends' # sends PROVE \A e \in Envs : sends[e] > 0 => sends'[e] > 0
    <2>1. sends' = [sends EXCEPT ![o.env] = @ + 1]
      BY <1>2 DEF Swap, SwapLands, SwapInDoubt, NothingSwapped, Leaves, chainVars
    <2>2. sends \in [Envs -> Nat]
      BY DEF RestTypes
    <2>3. \A e \in Envs : sends[e] \in Nat /\ sends'[e] \in {sends[e], sends[e] + 1}
      BY <2>1, <2>2
    <2>4. QED
      BY <2>3
  <1>3. ASSUME NEW t \in Tokens, StepExits(t) PROVE UNCHANGED sends
    BY <1>3, Zenon DEF StepExits, worldVars, chainVars
  <1>4. QED
    BY <1>1, <1>2, <1>3 DEF Next, Monitoring, Submit, MessageLands, Publish, TimeStopPasses, ScanBegins,
       IngestRow, MonitoringBegins, MonitoringEnds, StepHolds, StepEvictsDust, ExitCloses,
       ExitBounces, ExitThrows, ExitResumes, Worker, JournalOrder, BuySettles, SellSettles, Lands,
       Shutdown, Restart, worldVars, chainVars, vars

LEMMA BoundsGrow ==
  ASSUME RestTypes, [Next]_vars
  PROVE  (faults' = 0 => faults = 0) /\ (crashes' = 0 => crashes = 0)
PROOF
  <1>1. faults \in Nat /\ crashes \in Nat
    BY DEF RestTypes
  <1>2. ASSUME NEW t \in Tokens, StepExits(t) PROVE UNCHANGED <<faults, crashes>>
    BY <1>2, Zenon DEF StepExits, boundVars
  <1>3. ASSUME NEW t \in Tokens, StepHolds(t) \/ StepEvictsDust(t) \/ ExitCloses(t) \/ ExitBounces(t)
                                 \/ ExitThrows(t)
        PROVE  faults' \in {faults, faults + 1} /\ crashes' = crashes
    BY <1>3 DEF StepHolds, StepEvictsDust, ExitCloses, ExitBounces, ExitThrows, ExitResumes,
       ClosePosition, DiskWorks, DiskFails, boundVars
  <1>4. ASSUME NEW o \in Order, Submit \/ Lands(o) PROVE faults' \in {faults, faults + 1} /\ crashes' = crashes
    BY <1>4 DEF Submit, Swap, JournalOrder, BuySettles, SellSettles, Lands, DiskWorks, DiskFails, boundVars
  <1>5. ASSUME \/ \E e \in Envs : Publish(e)
               \/ \E t \in Tokens : TimeStopPasses(t)
               \/ ScanBegins \/ IngestRow \/ MonitoringBegins \/ MonitoringEnds
               \/ Worker \/ Shutdown \/ UNCHANGED vars
        PROVE  UNCHANGED <<faults, crashes>>
    BY <1>5 DEF Publish, TimeStopPasses, ScanBegins, IngestRow, MonitoringBegins, MonitoringEnds,
       Worker, Shutdown, boundVars, vars
  <1>6. Restart => crashes' = crashes + 1 /\ faults' = faults
    BY DEF Restart
  <1>7. QED
    BY <1>1, <1>2, <1>3, <1>4, <1>5, <1>6 DEF Next, Monitoring, Submit, MessageLands

LEMMA DoubtsGrow ==
  ASSUME [Next]_vars
  PROVE  \A t : InDoubt(t) => InDoubt(t)'
PROOF
  <1>1. ASSUME NEW t \in Tokens, StepExits(t) PROVE UNCHANGED doubted
    BY <1>1, Zenon DEF StepExits, worldVars, chainVars
  <1>2. UNCHANGED doubted \/ \E o \in Order : doubted' = doubted \cup {o}
    BY <1>1 DEF Next, Monitoring, Submit, MessageLands, Publish, TimeStopPasses, ScanBegins,
       IngestRow, MonitoringBegins, MonitoringEnds, StepHolds, StepEvictsDust, ExitCloses,
       ExitBounces, ExitThrows, ExitResumes, Worker, Swap, SwapLands, SwapInDoubt, NothingSwapped,
       JournalOrder, BuySettles, SellSettles, Lands, Shutdown, Restart, worldVars, chainVars, vars
  <1>3. QED
    BY <1>2 DEF InDoubt

LEMMA BouncesGrow ==
  ASSUME QueueInv, RestTypes, TasksInv, [Next]_vars
  PROVE  \A l : ExitBounced(l) => ExitBounced(l)'
PROOF
  <1>1. \A i \in 1..Len(ordersJournal) :
          i \in 1..Len(ordersJournal') /\ ordersJournal'[i] = ordersJournal[i]
    BY JournalsGrow, RowsKept DEF RestTypes
  <1>2. QED
    BY <1>1 DEF ExitBounced
-----------------------------------------------------------------------------
(* The takes.                                                                *)
LEMMA TakesOfToken ==
  ASSUME TakesInv, NEW t \in Tokens, faults' = 0 => faults = 0 /\ TakesAt(t)', UNCHANGED ordersJournal,
         \A u \in Tokens : u # t => positions'[u] = positions[u] /\ monitor'[u] = monitor[u]
  PROVE  TakesInv'
PROOF
  <1> SUFFICES ASSUME faults' = 0, NEW u \in Tokens PROVE TakesAt(u)'
    BY DEF TakesInv
  <1>1. CASE u = t
    BY <1>1
  <1>2. CASE u # t
    <2>1. positions'[u] = positions[u] /\ monitor'[u] = monitor[u] /\ TakesAt(u)
      BY <1>2 DEF TakesInv
    <2>2. QED
      BY <2>1 DEF TakesAt, ExitBounced, Snap
  <1>3. QED
    BY <1>1, <1>2

LEMMA TakesKept ==
  ASSUME QueueInv, RestTypes, TasksInv, TakesInv, [Next]_vars, UNCHANGED <<positions, monitor>>
  PROVE  TakesInv'
PROOF
  <1> SUFFICES ASSUME faults' = 0, NEW t \in Tokens PROVE TakesAt(t)'
    BY DEF TakesInv
  <1>1. TakesAt(t) /\ \A l : ExitBounced(l) => ExitBounced(l)'
    BY BoundsGrow, BouncesGrow DEF TakesInv
  <1>2. QED
    BY <1>1 DEF TakesAt, Snap

LEMMA TakesStep ==
  ASSUME QueueInv, RestTypes, TasksInv, JournalsInv, TakesInv, [Next]_vars
  PROVE  TakesInv'
PROOF
  <1>0. MapTypes
    BY TypesOfMaps
  <1>a. faults' = 0 => faults = 0
    BY BoundsGrow
  <1>1. CASE UNCHANGED <<positions, monitor>>
    BY <1>1, TakesKept
  <1>2. ASSUME MonitoringBegins PROVE TakesInv'
    <2> SUFFICES ASSUME faults' = 0, NEW t \in Tokens PROVE TakesAt(t)'
      BY DEF TakesInv
    <2>1. UNCHANGED <<positions, ordersJournal>> /\ TakesAt(t) /\ monitor[t] = NoTask
      BY <1>2, <1>a DEF MonitoringBegins, journalVars, TakesInv, TasksInv, TaskTypes, TaskAt
    <2>2. CASE t \in Tracked /\ ~positions[t].exitInFlight
      <3>1. monitor'[t] = [step |-> "pricing", snap |-> positions[t], whole |-> ~positions[t].taken]
        BY <1>2, <2>2 DEF MonitoringBegins
      <3>2. positions[t].taken => ExitBounced(positions[t].lot)
        BY <2>1, <2>2 DEF TakesAt, Tracked
      <3>3. monitor'[t].snap = positions[t] /\ monitor'[t].whole = ~positions[t].taken
        BY <3>1
      <3>4. ~monitor'[t].whole <=> positions[t].taken
        BY <3>3, Zenon
      <3>5. QED
        BY <2>1, <2>2, <3>2, <3>3, <3>4 DEF TakesAt, ExitBounced, Snap
    <2>3. CASE ~(t \in Tracked /\ ~positions[t].exitInFlight)
      <3>1. monitor'[t] = monitor[t]
        BY <1>2, <2>3 DEF MonitoringBegins
      <3>2. QED
        BY <2>1, <3>1 DEF TakesAt, ExitBounced, Snap
    <2>4. QED
      BY <2>2, <2>3
  <1>3. ASSUME NEW t \in Tokens, StepHolds(t) PROVE TakesInv'
    <2>1. /\ positions' = [positions EXCEPT ![t] = Snap(t)] /\ TaskEnds(t) /\ UNCHANGED ordersJournal
          /\ monitor[t].step = "pricing"
      BY <1>3 DEF StepHolds, Snap, Priced, journalVars
    <2>2. monitor[t] # NoTask /\ Snap(t) \in Position
      BY <2>1, TaskFacts DEF TasksInv
    <2>3. positions'[t] = Snap(t) /\ \A u \in Tokens : u # t => positions'[u] = positions[u]
      BY <2>1, <2>2, <1>0, SetPosition
    <2>4. monitor'[t] = NoTask /\ \A u \in Tokens : u # t => monitor'[u] = monitor[u]
      BY <2>1, <1>0, SetTask DEF TaskEnds
    <2>5. ASSUME faults' = 0 PROVE TakesAt(t)'
      <3>1. Snap(t).taken => ExitBounced(Snap(t).lot)
        BY <1>a, <2>1, <2>2, <2>5 DEF TakesInv, TakesAt
      <3>2. QED
        BY <2>1, <2>3, <2>4, <3>1 DEF TakesAt, ExitBounced, NoTask
    <2>6. QED
      BY <1>a, <2>1, <2>3, <2>4, <2>5, TakesOfToken
  <1>4. ASSUME NEW t \in Tokens, StepEvictsDust(t) PROVE TakesInv'
    <2>1. /\ positions' = [positions EXCEPT ![t] = NoPosition] /\ TaskEnds(t) /\ UNCHANGED ordersJournal
      BY <1>4 DEF StepEvictsDust
    <2>2. positions'[t] = NoPosition /\ \A u \in Tokens : u # t => positions'[u] = positions[u]
      BY <2>1, <1>0, SetPosition
    <2>3. monitor'[t] = NoTask /\ \A u \in Tokens : u # t => monitor'[u] = monitor[u]
      BY <2>1, <1>0, SetTask DEF TaskEnds
    <2>4. TakesAt(t)'
      BY <2>2, <2>3 DEF TakesAt, NoTask
    <2>5. QED
      BY <1>a, <2>1, <2>2, <2>3, <2>4, TakesOfToken
  <1>5. ASSUME NEW t \in Tokens, StepExits(t) PROVE TakesInv'
    <2>1. PICK q \in Position, k \in Task :
            /\ positions' = [positions EXCEPT ![t] = q] /\ monitor' = [monitor EXCEPT ![t] = k]
            /\ q.exitInFlight /\ k.step = "selling" /\ k.whole = monitor[t].whole
            /\ k.snap.lot = Snap(t).lot
      BY <1>5, ExitMarks DEF TasksInv
    <2>2. monitor[t].step = "pricing" /\ UNCHANGED ordersJournal
      BY <1>5, Zenon DEF StepExits, Priced, journalVars
    <2>3. monitor[t] # NoTask
      BY <2>2, TaskFacts DEF TasksInv
    <2>4. positions'[t] = q /\ \A u \in Tokens : u # t => positions'[u] = positions[u]
      BY <2>1, <1>0, SetPosition
    <2>5. monitor'[t] = k /\ \A u \in Tokens : u # t => monitor'[u] = monitor[u]
      BY <2>1, <1>0, SetTask
    <2>6. ASSUME faults' = 0 PROVE TakesAt(t)'
      <3>1. ~monitor[t].whole => ExitBounced(Snap(t).lot)
        BY <1>a, <2>3, <2>6 DEF TakesInv, TakesAt
      <3>2. QED
        BY <2>1, <2>2, <2>4, <2>5, <3>1 DEF TakesAt, ExitBounced, Snap
    <2>7. QED
      BY <1>a, <2>2, <2>4, <2>5, <2>6, TakesOfToken
  <1>6. ASSUME NEW t \in Tokens, ExitCloses(t) \/ ExitBounces(t) \/ ExitThrows(t) PROVE TakesInv'
    <2> DEFINE retry == [Snap(t) EXCEPT !.bounces = Snap(t).bounces + 1]
    <2>1. ExitResumes(t)
      BY <1>6 DEF ExitCloses, ExitBounces, ExitThrows
    <2>2. resolved # NoExit /\ TaskEnds(t) /\ UNCHANGED ordersJournal
      BY <2>1 DEF ExitResumes
    <2>3. monitor'[t] = NoTask /\ \A u \in Tokens : u # t => monitor'[u] = monitor[u]
      BY <2>2, <1>0, SetTask DEF TaskEnds
    <2>4. Snap(t) \in Position /\ Snap(t).lot = resolved.lot /\ Snap(t).bounces < BounceLimit + faults
      BY <2>1, ResumingTask, TaskFacts DEF TasksInv
    <2>5. \A u \in Tokens : u # t => positions'[u] = positions[u]
      BY <1>6, <1>0 DEF ExitCloses, ExitBounces, ExitThrows, ClosePosition, MapTypes
    <2>6. ASSUME faults' = 0 PROVE TakesAt(t)'
      <3>1. faults = 0 /\ LastRow
        BY <1>a, <2>6 DEF JournalsInv
      <3>2. ~ExitThrows(t)
        BY <2>2, <3>1 DEF ExitThrows, TasksInv, ThrownByFaults
      <3>3. \/ positions' = [positions EXCEPT ![t] = NoPosition]
            \/ /\ positions' = [positions EXCEPT ![t] = retry] /\ resolved.result = "bounced"
               /\ Snap(t).bounces + 1 < BounceLimit
        BY <1>6, <2>6, <3>1, <3>2 DEF ExitCloses, ExitBounces, ClosePosition, DiskFails, Snap
      <3>4. CASE positions' = [positions EXCEPT ![t] = NoPosition]
        <4>1. positions'[t] = NoPosition
          BY <3>4, <1>0, SetPosition
        <4>2. QED
          BY <2>3, <4>1 DEF TakesAt, NoTask
      <3>5. CASE /\ positions' = [positions EXCEPT ![t] = retry] /\ resolved.result = "bounced"
                 /\ Snap(t).bounces + 1 < BounceLimit
        <4>1. Snap(t).bounces + 1 \in 0..BounceLimit + MaxFaults - 1
          BY <2>4, <3>5, ConstantFacts DEF Position
        <4>2. retry \in Position /\ retry.lot = resolved.lot
          BY <2>4, <4>1 DEF Position
        <4> HIDE DEF retry
        <4>3. positions'[t].lot = resolved.lot
          BY <3>5, <4>2, <1>0, SetPosition
        <4>4. ExitBounced(resolved.lot)
          BY <2>2, <3>1, <3>5 DEF LastRow, RowWritten, ExitBounced
        <4>5. QED
          BY <2>2, <2>3, <4>3, <4>4 DEF TakesAt, ExitBounced, NoTask
      <3>6. QED
        BY <3>3, <3>4, <3>5
    <2>7. QED
      BY <1>a, <2>2, <2>3, <2>5, <2>6, TakesOfToken
  <1>7. ASSUME NEW o \in Order, BuySettles(o) PROVE TakesInv'
    <2> DEFINE t == TokenOf[o.env]
    <2>1. /\ UNCHANGED <<monitor, ordersJournal>>
          /\ \/ UNCHANGED positions
             \/ positions' = [positions EXCEPT ![t] = Opened(o.env)]
      BY <1>7 DEF BuySettles
    <2>2. t \in Tokens /\ o.env \in Envs
      BY OrderFields
    <2>3. CASE UNCHANGED positions
      BY <2>1, <2>3, <1>1
    <2>4. CASE positions' = [positions EXCEPT ![t] = Opened(o.env)]
      <3>1. Opened(o.env) \in Position /\ ~Opened(o.env).taken
        <4>1. 0 \in 0..MaxFaults
          BY ConstantFacts
        <4>2. QED
          BY <2>2, <4>1, OpenedIsPosition
      <3>2. positions'[t] = Opened(o.env) /\ \A u \in Tokens : u # t => positions'[u] = positions[u]
        BY <2>2, <2>4, <3>1, <1>0, SetPosition
      <3> HIDE DEF t
      <3>3. ASSUME faults' = 0 PROVE TakesAt(t)'
        <4>1. TakesAt(t)
          BY <1>a, <2>2, <3>3 DEF TakesInv, t
        <4>2. QED
          BY <2>1, <3>1, <3>2, <4>1 DEF TakesAt, ExitBounced, Snap
      <3>4. t \in Tokens
        BY <2>2 DEF t
      <3>5. QED
        BY <1>a, <2>1, <3>2, <3>3, <3>4, TakesOfToken
    <2>5. QED
      BY <2>1, <2>3, <2>4
  <1>8. ASSUME Restart PROVE TakesInv'
    <2> SUFFICES ASSUME NEW t \in Tokens PROVE TakesAt(t)'
      BY DEF TakesInv
    <2>1. positions'[t] = Recovered(t) /\ monitor'[t] = NoTask
      BY <1>8 DEF Restart
    <2>2. positions'[t] # NoPosition => \E l \in Envs : positions'[t] = Opened(l)
      BY <2>1, RecoveredFacts DEF RestTypes, JournalTypes
    <2>3. QED
      BY <2>1, <2>2 DEF TakesAt, Opened, NoTask
  <1>9. \/ UNCHANGED <<positions, monitor>>
        \/ MonitoringBegins
        \/ \E t \in Tokens : \/ StepHolds(t) \/ StepEvictsDust(t) \/ StepExits(t)
                             \/ ExitCloses(t) \/ ExitBounces(t) \/ ExitThrows(t)
        \/ \E o \in Order : BuySettles(o)
        \/ Restart
    BY DEF Next, Monitoring, Submit, MessageLands, Publish, TimeStopPasses, ScanBegins, IngestRow,
       MonitoringEnds, Worker, Swap, JournalOrder, SellSettles, Lands, Shutdown, clientVars, vars
  <1>10. QED
    BY <1>1, <1>2, <1>3, <1>4, <1>5, <1>6, <1>7, <1>8, <1>9
-----------------------------------------------------------------------------
(* The rests.                                                                *)
LEMMA RestsStep ==
  ASSUME QueueInv, RestTypes, TasksInv, LotsInv, TakesInv, RestsInv, [Next]_vars
  PROVE  RestsInv'
PROOF
  <1> SUFFICES ASSUME crashes' = 0, faults' = 0, NEW l \in rests', OnlyLot(l)', ~InDoubt(TokenOf[l])'
               PROVE  (l \in Surplus \/ ExitBounced(l))'
    BY DEF RestsInv
  <1>1. crashes = 0 /\ faults = 0 /\ ~InDoubt(TokenOf[l]) /\ (ExitBounced(l) => ExitBounced(l)')
    BY BoundsGrow, DoubtsGrow, BouncesGrow
  <1>2. OnlyLot(l)
    <2>1. \A m \in Envs : sends[m] \in Nat /\ sends'[m] \in Nat
      BY RestStep DEF RestTypes
    <2>2. \A m \in Envs : sends'[m] = 0 => sends[m] = 0
      BY <2>1, SendsGrow
    <2>3. QED
      BY <2>2 DEF OnlyLot
  <1>3. CASE l \in rests
    BY <1>1, <1>2, <1>3 DEF RestsInv
  <1>4. ASSUME l \notin rests, NEW o \in Order, SwapLands(o), o \in executing PROVE l \in Surplus \/ ExitBounced(l)
    <2> DEFINE t == TokenOf[o.env]
    <2>1. o.side = "sell" /\ SellLands(o.env, OfferedReduced(t))
      BY <1>4, OrderFields DEF SwapLands, BuyLands
    <2>2. TokenOf[l] = t /\ (OfferedReduced(t) \/ l \in Surplus)
      BY <1>4, <2>1, SaleTakes, OrderFields
    <2>3. ASSUME OfferedReduced(t) PROVE ExitBounced(l)
      <3>1. o \in Sells /\ t \in Tokens /\ o.env \in Envs
        BY <2>1, OrderFields
      <3>2. monitor[t].step = "selling" /\ Snap(t).lot = o.env /\ monitor[t] # NoTask
        BY <1>4, <3>1, TaskFacts DEF QueueInv, SubmitHolds, TasksInv, ExitsHaveTasks, SellingLot, IsPending, Pending
      <3>3. ExitBounced(o.env)
        BY <1>1, <2>3, <3>1, <3>2 DEF TakesInv, TakesAt, OfferedReduced
      <3>4. sends[o.env] > 0
        BY <1>1, <3>1, <3>2 DEF LotsInv, SentLots
      <3>5. l = o.env
        BY <1>2, <2>2, <3>1, <3>4 DEF OnlyLot
      <3>6. QED
        BY <3>3, <3>5
    <2>4. QED
      BY <2>2, <2>3
  <1>5. ASSUME l \notin rests, NEW o \in Order, Lands(o) PROVE FALSE
    <2>1. InDoubt(TokenOf[o.env]) /\ IF o.side = "buy" THEN BuyLands(o.env) ELSE SellLands(o.env, TRUE)
      BY <1>5 DEF Lands, InDoubt, RestTypes
    <2>2. TokenOf[l] = TokenOf[o.env]
      BY <1>5, <2>1, SaleTakes, OrderFields DEF BuyLands
    <2>3. QED
      BY <1>1, <2>1, <2>2
  <1>6. ASSUME NEW t \in Tokens, StepExits(t) PROVE UNCHANGED rests
    BY <1>6, Zenon DEF StepExits, worldVars, chainVars
  <1>7. \/ UNCHANGED rests
        \/ \E o \in Order : SwapLands(o) /\ o \in executing
        \/ \E o \in Order : Lands(o)
    BY <1>6 DEF Next, Monitoring, Submit, MessageLands, Publish, TimeStopPasses, ScanBegins, IngestRow,
       MonitoringBegins, MonitoringEnds, StepHolds, StepEvictsDust, ExitCloses, ExitBounces,
       ExitThrows, ExitResumes, Worker, Swap, SwapInDoubt, NothingSwapped, JournalOrder, BuySettles,
       SellSettles, Shutdown, Restart, worldVars, chainVars, vars
  <1>8. QED
    BY <1>1, <1>3, <1>4, <1>5, <1>7
-----------------------------------------------------------------------------
(* The journals.                                                             *)
Regular  == AllFilled /\ BoughtOnce /\ JournalsFitTail
RowFacts == RowsSent /\ BuyRowFirst /\ ClosedForGood /\ TrackedRows /\ UntrackedRows /\ NewRows

LEMMA JournalParts ==
  /\ JournalsInv <=> (faults = 0 => LastRow /\ (Regular => SentLots /\ RowFacts))
  /\ JournalsInv' <=> (faults' = 0 => LastRow' /\ (Regular' => SentLots' /\ RowFacts'))
BY DEF JournalsInv, Regular, RowFacts

(* What one more row changes.                                                *)
LEMMA HasRowAppended ==
  ASSUME NEW S, NEW s \in Seq(S), NEW row \in S, NEW kind, NEW t
  PROVE  HasRow(Append(s, row), kind, t) <=> HasRow(s, kind, t) \/ (row.kind = kind /\ TokenOf[row.lot] = t)
PROOF
  <1> DEFINE r == Append(s, row)
  <1>1. /\ Len(r) = Len(s) + 1 /\ Len(s) \in Nat /\ r[Len(s) + 1] = row
        /\ \A i \in 1..Len(s) : r[i] = s[i]
    BY AppendTypes
  <1> HIDE DEF r
  <1>2. /\ \A i \in 1..Len(r) : i \in 1..Len(s) \/ i = Len(s) + 1
        /\ \A i \in 1..Len(s) : i \in 1..Len(r)
        /\ Len(s) + 1 \in 1..Len(r)
    BY <1>1
  <1>3. HasRow(r, kind, t) <=> HasRow(s, kind, t) \/ (row.kind = kind /\ TokenOf[row.lot] = t)
    BY <1>1, <1>2 DEF HasRow
  <1>4. QED
    BY <1>3 DEF r

LEMMA PositionRowsAppended ==
  ASSUME RestTypes, NEW row \in PositionRow, positionsJournal' = Append(positionsJournal, row)
  PROVE  /\ \A t : OpenedRow(t)' <=> OpenedRow(t) \/ (row.kind = "open" /\ TokenOf[row.lot] = t)
         /\ \A t : ClosedRow(t)' <=> ClosedRow(t) \/ (row.kind = "closed" /\ TokenOf[row.lot] = t)
         /\ \A i \in 1..Len(positionsJournal') :
              positionsJournal'[i] = row \/ \E j \in 1..Len(positionsJournal) : positionsJournal'[i] = positionsJournal[j]
         /\ ClosedForGood /\ (row.kind = "closed" \/ ~ClosedRow(TokenOf[row.lot])) => ClosedForGood'
PROOF
  <1> DEFINE n == Len(positionsJournal)
  <1>1. /\ Len(positionsJournal') = n + 1 /\ n \in Nat /\ positionsJournal'[n + 1] = row
        /\ \A i \in 1..n : positionsJournal'[i] = positionsJournal[i]
    BY AppendTypes DEF RestTypes
  <1>2. \A i \in 1..Len(positionsJournal') : i \in 1..n \/ i = n + 1
    BY <1>1
  <1>3. /\ \A t : OpenedRow(t)' <=> OpenedRow(t) \/ (row.kind = "open" /\ TokenOf[row.lot] = t)
        /\ \A t : ClosedRow(t)' <=> ClosedRow(t) \/ (row.kind = "closed" /\ TokenOf[row.lot] = t)
    BY HasRowAppended DEF RestTypes, OpenedRow, ClosedRow
  <1>4. \A i \in 1..Len(positionsJournal') :
          positionsJournal'[i] = row \/ \E j \in 1..n : positionsJournal'[i] = positionsJournal[j]
    BY <1>1, <1>2
  <1>5. ASSUME ClosedForGood, row.kind = "closed" \/ ~ClosedRow(TokenOf[row.lot]) PROVE ClosedForGood'
    <2> SUFFICES ASSUME NEW i \in 1..Len(positionsJournal'), NEW j \in 1..Len(positionsJournal'),
                        i < j, positionsJournal'[i].kind = "closed",
                        TokenOf[positionsJournal'[i].lot] = TokenOf[positionsJournal'[j].lot]
                 PROVE  positionsJournal'[j].kind = "closed"
      BY DEF ClosedForGood
    <2>1. i \in 1..n
      BY <1>1, <1>2
    <2>2. CASE j \in 1..n
      BY <1>1, <1>5, <2>1, <2>2 DEF ClosedForGood
    <2>3. CASE j = n + 1
      <3>1. ClosedRow(TokenOf[row.lot])
        BY <1>1, <2>1, <2>3 DEF ClosedRow, HasRow
      <3>2. QED
        BY <1>1, <1>5, <2>3, <3>1
    <2>4. QED
      BY <1>2, <2>2, <2>3
  <1>6. QED
    BY <1>3, <1>4, <1>5

LEMMA OrderRowsAppended ==
  ASSUME RestTypes, NEW row \in OrderRow, ordersJournal' = Append(ordersJournal, row)
  PROVE  /\ \A t : Bought(t)' <=> Bought(t) \/ (row.kind = "buy" /\ TokenOf[row.lot] = t)
         /\ \A t : Sold(t)' <=> Sold(t) \/ (row.kind = "sell" /\ TokenOf[row.lot] = t)
         /\ \A i \in 1..Len(ordersJournal') :
              ordersJournal'[i] = row \/ \E j \in 1..Len(ordersJournal) : ordersJournal'[i] = ordersJournal[j]
         /\ \E i \in 1..Len(ordersJournal') : ordersJournal'[i] = row
         /\ AllFilled' => AllFilled /\ row.fill = "sent"
PROOF
  <1> DEFINE n == Len(ordersJournal)
  <1>1. /\ Len(ordersJournal') = n + 1 /\ n \in Nat /\ ordersJournal'[n + 1] = row
        /\ \A i \in 1..n : ordersJournal'[i] = ordersJournal[i]
    BY AppendTypes DEF RestTypes
  <1>2. /\ \A i \in 1..Len(ordersJournal') : i \in 1..n \/ i = n + 1
        /\ \A i \in 1..n : i \in 1..Len(ordersJournal')
        /\ n + 1 \in 1..Len(ordersJournal')
    BY <1>1
  <1>3. /\ \A t : Bought(t)' <=> Bought(t) \/ (row.kind = "buy" /\ TokenOf[row.lot] = t)
        /\ \A t : Sold(t)' <=> Sold(t) \/ (row.kind = "sell" /\ TokenOf[row.lot] = t)
    BY HasRowAppended DEF RestTypes, Bought, Sold
  <1>4. AllFilled' => AllFilled /\ row.fill = "sent"
    BY <1>1, <1>2 DEF AllFilled
  <1>5. QED
    BY <1>1, <1>2, <1>3, <1>4

(* What is regular after a step was so before.                               *)
LEMMA RegularBefore ==
  ASSUME QueueInv, RestTypes, TasksInv, [Next]_vars
  PROVE  Regular' => Regular
PROOF
  <1>1. /\ Len(ordersJournal) \in Nat /\ Len(ordersJournal') \in Nat
        /\ Len(ordersJournal) <= Len(ordersJournal')
        /\ \A i \in 1..Len(ordersJournal) :
             i \in 1..Len(ordersJournal') /\ ordersJournal'[i] = ordersJournal[i]
    BY JournalsGrow, RowsKept DEF RestTypes
  <1>2. /\ Len(positionsJournal) \in Nat /\ Len(positionsJournal') \in Nat
        /\ Len(positionsJournal) <= Len(positionsJournal')
    BY JournalsGrow, RowsKept DEF RestTypes
  <1>3. AllFilled' => AllFilled
    BY <1>1 DEF AllFilled
  <1>4. BoughtOnce' => BoughtOnce
    BY SendsGrow DEF BoughtOnce
  <1>5. JournalsFitTail' => JournalsFitTail
    BY <1>1, <1>2, ConstantFacts DEF JournalsFitTail
  <1>6. QED
    BY <1>3, <1>4, <1>5 DEF Regular

(* Under regular journals the order that submit returns from, and the exit   *)
(* that settled, were filled.                                                *)
LEMMA ReturnsAreSent ==
  ASSUME QueueInv, LastRow, AllFilled
  PROVE  /\ \A o \in executing : stage = "return" => result = "sent"
         /\ resolved # NoExit => resolved.result = "sent"
PROOF
  <1>1. ASSUME NEW side, NEW l, NEW r, RowWritten(side, l, r) PROVE r = "sent"
    <2>1. PICK i \in 1..Len(ordersJournal) : ordersJournal[i] = [kind |-> side, lot |-> l, fill |-> r]
      BY <1>1 DEF RowWritten
    <2>2. ordersJournal[i].fill = r
      BY <2>1
    <2>3. QED
      BY <2>2 DEF AllFilled
  <1>2. QED
    BY <1>1 DEF LastRow

(* The lots of positions and tasks have been filled.                         *)
LEMMA SentKept ==
  ASSUME TasksInv, SentLots, \A e \in Envs : sends[e] > 0 => sends'[e] > 0,
         \A u \in Tokens : positions'[u] # NoPosition =>
           \/ positions[u] # NoPosition /\ positions'[u].lot = positions[u].lot
           \/ monitor[u] # NoTask /\ positions'[u].lot = Snap(u).lot
           \/ sends'[positions'[u].lot] > 0,
         \A u \in Tokens : monitor'[u] # NoTask =>
           \/ monitor[u] # NoTask /\ monitor'[u].snap.lot = Snap(u).lot
           \/ positions[u] # NoPosition /\ monitor'[u].snap.lot = positions[u].lot
  PROVE  SentLots'
PROOF
  <1>1. \A u \in Tokens : /\ positions[u] # NoPosition => positions[u].lot \in Envs
                          /\ monitor[u] # NoTask => Snap(u).lot \in Envs
    BY TaskFacts DEF TasksInv, TaskTypes, Position
  <1>2. QED
    BY <1>1 DEF SentLots, Snap

(* A step that changes neither the journals nor the position map.            *)
LEMMA JournalsKept ==
  ASSUME QueueInv, RestTypes, TasksInv, JournalsInv, [Next]_vars,
         UNCHANGED <<ordersJournal, positionsJournal, positions>>, faults' = 0 => faults = 0,
         \A u \in Tokens : monitor'[u] # NoTask =>
           \/ monitor[u] # NoTask /\ monitor'[u].snap.lot = Snap(u).lot
           \/ positions[u] # NoPosition /\ monitor'[u].snap.lot = positions[u].lot,
         LastRow => LastRow',
         \A t \in Tokens : (BuyReturns(t)' <=> BuyReturns(t)) /\ (SaleReturns(t)' <=> SaleReturns(t))
  PROVE  JournalsInv'
PROOF
  <1>1. \A e \in Envs : sends[e] > 0 => sends'[e] > 0
    BY SendsGrow
  <1>2. ASSUME faults' = 0, Regular' PROVE SentLots' /\ RowFacts'
    <2>1. Regular
      BY <1>2, RegularBefore
    <2>2. SentLots /\ RowFacts
      BY <1>2, <2>1, JournalParts
    <2>3. SentLots'
      BY <1>1, <2>2, SentKept
    <2>4. \A t \in Tokens : /\ Bought(t)' <=> Bought(t)
                            /\ Sold(t)' <=> Sold(t)
                            /\ OpenedRow(t)' <=> OpenedRow(t)
                            /\ ClosedRow(t)' <=> ClosedRow(t)
      BY DEF Bought, Sold, OpenedRow, ClosedRow
    <2>5. RowsSent'
      <3>1. \A row \in OrderRow : row.lot \in Envs
        BY DEF OrderRow
      <3>2. \A row \in PositionRow : row.lot \in Envs
        BY DEF PositionRow
      <3>3. /\ \A i \in 1..Len(ordersJournal) : ordersJournal[i].lot \in Envs
            /\ \A i \in 1..Len(positionsJournal) : positionsJournal[i].lot \in Envs
        BY <3>1, <3>2 DEF RestTypes
      <3>4. QED
        BY <1>1, <2>2, <3>3 DEF RowFacts, RowsSent
    <2>6. ClosedForGood'
      BY <2>2 DEF RowFacts, ClosedForGood
    <2>7. BuyRowFirst' /\ TrackedRows' /\ UntrackedRows' /\ NewRows'
      BY <2>2, <2>4 DEF RowFacts, BuyRowFirst, TrackedRows, UntrackedRows, NewRows
    <2>8. QED
      BY <2>3, <2>5, <2>6, <2>7 DEF RowFacts
  <1>3. faults' = 0 => LastRow'
    BY JournalParts
  <1>4. QED
    BY <1>2, <1>3, JournalParts

(* A step of a task: it writes the position of its token back, or closes it  *)
(* and says so in the positions journal.                                     *)
ClosesOrKeeps(t) ==
  /\ monitor[t] # NoTask
  /\ UNCHANGED <<sends, ordersJournal, executing, stage, result>>
  /\ \A u \in Tokens : u # t => positions'[u] = positions[u] /\ monitor'[u] = monitor[u]
  /\ \/ /\ positions'[t] # NoPosition /\ positions'[t].lot = Snap(t).lot
        /\ UNCHANGED <<positionsJournal, resolved>>
     \/ /\ positions'[t] = NoPosition
        /\ \E why \in CloseWhy : positionsJournal' =
             Append(positionsJournal, [kind |-> "closed", lot |-> Snap(t).lot, reason |-> why])
        /\ \/ UNCHANGED resolved
           \/ resolved # NoExit /\ resolved' = NoExit /\ TokenOf[resolved.lot] = t
  /\ monitor'[t] = NoTask \/ monitor'[t].snap.lot = Snap(t).lot

LEMMA JournalsOfTask ==
  ASSUME QueueInv, RestTypes, TasksInv, JournalsInv, [Next]_vars, NEW t \in Tokens,
         faults' = 0 => faults = 0 /\ (Regular => ClosesOrKeeps(t)),
         UNCHANGED <<ordersJournal, sends>>, faults' = 0 /\ LastRow => LastRow'
  PROVE  JournalsInv'
PROOF
  <1>1. faults' = 0 => LastRow'
    BY JournalParts
  <1>2. ASSUME faults' = 0, Regular' PROVE SentLots' /\ RowFacts'
    <2>1. Regular
      BY <1>2, RegularBefore
    <2>2. SentLots /\ RowFacts /\ ClosesOrKeeps(t)
      BY <1>2, <2>1, JournalParts
    <2>3. /\ Snap(t).lot \in Envs /\ TokenOf[Snap(t).lot] = t /\ positions[t] # NoPosition
          /\ sends[Snap(t).lot] > 0
      BY <2>2, TaskFacts DEF ClosesOrKeeps, TasksInv, SentLots
    <2>4. \A u \in Tokens : u # t => positions'[u] = positions[u] /\ monitor'[u] = monitor[u]
      BY <2>2 DEF ClosesOrKeeps
    <2>5. SentLots'
      <3> SUFFICES ASSUME NEW u \in Tokens
                   PROVE  /\ positions'[u] # NoPosition => sends[positions'[u].lot] > 0
                          /\ monitor'[u] # NoTask => sends[monitor'[u].snap.lot] > 0
        BY DEF SentLots, Snap
      <3>1. CASE u = t
        BY <2>2, <2>3, <3>1 DEF ClosesOrKeeps
      <3>2. CASE u # t
        BY <2>2, <2>4, <3>2 DEF SentLots, Snap
      <3>3. QED
        BY <3>1, <3>2
    <2>6. \A u \in Tokens : (Bought(u)' <=> Bought(u)) /\ (Sold(u)' <=> Sold(u))
      BY DEF Bought, Sold
    <2>7. \A u \in Tokens : BuyReturns(u)' <=> BuyReturns(u)
      BY <2>2 DEF BuyReturns, ClosesOrKeeps
    <2>8. Bought(t) /\ ~ClosedRow(t) /\ (Sold(t) => SaleReturns(t)) /\ ~BuyReturns(t)
      BY <2>2, <2>3 DEF RowFacts, TrackedRows, NewRows
    <2>9. CASE positions'[t] # NoPosition
      <3>1. UNCHANGED <<positionsJournal, resolved, executing, stage>>
        BY <2>2, <2>9 DEF ClosesOrKeeps
      <3>2. \A u \in Tokens : /\ OpenedRow(u)' <=> OpenedRow(u)
                              /\ ClosedRow(u)' <=> ClosedRow(u)
                              /\ SaleReturns(u)' <=> SaleReturns(u)
        BY <3>1 DEF OpenedRow, ClosedRow, SaleReturns
      <3>3. RowsSent' /\ ClosedForGood'
        BY <2>2, <3>1 DEF RowFacts, RowsSent, ClosedForGood
      <3>4. BuyRowFirst'
        BY <2>2, <2>6, <3>2 DEF RowFacts, BuyRowFirst
      <3>5. \A u \in Tokens : positions'[u] # NoPosition <=> positions[u] # NoPosition
        BY <2>3, <2>4, <2>9
      <3>6. TrackedRows' /\ UntrackedRows' /\ NewRows'
        BY <2>2, <2>6, <2>7, <3>2, <3>5 DEF RowFacts, TrackedRows, UntrackedRows, NewRows
      <3>7. QED
        BY <2>5, <3>3, <3>4, <3>6 DEF RowFacts
    <2>10. CASE positions'[t] = NoPosition
      <3>1. PICK why \in CloseWhy : positionsJournal' =
              Append(positionsJournal, [kind |-> "closed", lot |-> Snap(t).lot, reason |-> why])
        BY <2>2, <2>10 DEF ClosesOrKeeps
      <3> DEFINE row == [kind |-> "closed", lot |-> Snap(t).lot, reason |-> why]
      <3>2. row \in PositionRow /\ row.kind = "closed" /\ row.lot = Snap(t).lot
        BY <2>3, RowTypes
      <3>3. positionsJournal' = Append(positionsJournal, row)
        BY <3>1
      <3> HIDE DEF row
      <3>4. /\ \A u \in Tokens : /\ OpenedRow(u)' <=> OpenedRow(u)
                                 /\ ClosedRow(u)' <=> ClosedRow(u) \/ u = t
            /\ \A i \in 1..Len(positionsJournal') : positionsJournal'[i] = row
                 \/ \E j \in 1..Len(positionsJournal) : positionsJournal'[i] = positionsJournal[j]
            /\ ClosedForGood'
        <4>1. ClosedForGood
          BY <2>2 DEF RowFacts
        <4>2. QED
          BY <2>3, <3>2, <3>3, <4>1, PositionRowsAppended
      <3>5. RowsSent'
        <4>1. /\ \A i \in 1..Len(ordersJournal) : sends[ordersJournal[i].lot] > 0
              /\ \A i \in 1..Len(positionsJournal) : sends[positionsJournal[i].lot] > 0
          BY <2>2 DEF RowFacts, RowsSent
        <4>2. sends[row.lot] > 0
          BY <2>3, <3>2
        <4>3. \A i \in 1..Len(positionsJournal') : sends[positionsJournal'[i].lot] > 0
          BY <3>4, <4>1, <4>2
        <4>4. QED
          BY <4>1, <4>3 DEF RowsSent
      <3>6. BuyRowFirst'
        BY <2>2, <2>6, <2>8, <3>4 DEF RowFacts, BuyRowFirst
      <3>7. \A u \in Tokens : u # t /\ SaleReturns(u) => SaleReturns(u)'
        BY <2>2, <2>10 DEF SaleReturns, ClosesOrKeeps
      <3>8. TrackedRows'
        <4> SUFFICES ASSUME NEW u \in Tokens, positions'[u] # NoPosition
                     PROVE  Bought(u)' /\ ~ClosedRow(u)' /\ (Sold(u)' => SaleReturns(u)')
          BY DEF TrackedRows
        <4>1. u # t /\ positions[u] # NoPosition
          BY <2>4, <2>10
        <4>2. QED
          BY <2>2, <2>6, <3>4, <3>7, <4>1 DEF RowFacts, TrackedRows
      <3>9. UntrackedRows'
        <4> SUFFICES ASSUME NEW u \in Tokens, positions'[u] = NoPosition, Bought(u)'
                     PROVE  Sold(u)' \/ ClosedRow(u)' \/ BuyReturns(u)'
          BY DEF UntrackedRows
        <4>1. CASE u = t
          BY <3>4, <4>1
        <4>2. CASE u # t
          BY <2>2, <2>4, <2>6, <2>7, <3>4, <4>2 DEF RowFacts, UntrackedRows
        <4>3. QED
          BY <4>1, <4>2
      <3>10. NewRows'
        <4> SUFFICES ASSUME NEW u \in Tokens, BuyReturns(u)'
                     PROVE  Bought(u)' /\ ~Sold(u)' /\ ~ClosedRow(u)' /\ positions'[u] = NoPosition
          BY DEF NewRows
        <4>1. BuyReturns(u) /\ u # t
          BY <2>7, <2>8
        <4>2. QED
          BY <2>2, <2>4, <2>6, <3>4, <4>1 DEF RowFacts, NewRows
      <3>11. QED
        BY <2>5, <3>4, <3>5, <3>6, <3>8, <3>9, <3>10 DEF RowFacts
    <2>11. QED
      BY <2>9, <2>10
  <1>3. QED
    BY <1>1, <1>2, JournalParts

(* An order that is journaled was never journaled before: of a buy because   *)
(* its token was not bought before, of a sale because its position is        *)
(* tracked, whose token has no sell row yet.                                 *)
LEMMA JournalsOfOrder ==
  ASSUME QueueInv, RestTypes, TasksInv, BuysInv, LotsInv, JournalsInv, [Next]_vars,
         NEW o \in Order, JournalOrder(o)
  PROVE  JournalsInv'
PROOF
  <1> DEFINE t   == TokenOf[o.env]
             row == [kind |-> o.side, lot |-> o.env, fill |-> result]
  <1>1. /\ o \in executing /\ stage = "append" /\ stage' = "return"
        /\ UNCHANGED <<sends, positions, positionsJournal, monitor, executing, outcome, resolved>>
        /\ \/ faults' = faults /\ ordersJournal' = Append(ordersJournal, row) /\ result' = result
           \/ faults' = faults + 1
    BY DEF JournalOrder, clientVars, qvars, worldVars, chainVars, DiskWorks, DiskFails
  <1>2. /\ executing = {o} /\ resolved = NoExit /\ outcome[o] = "executing"
        /\ result \in Result /\ faults \in Nat
    BY <1>1 DEF QueueInv, SubmitHolds, RestTypes
  <1>3. /\ o.side \in {"buy", "sell"} /\ o.env \in Envs /\ t \in Tokens
        /\ o \in Sells <=> o.side = "sell"
        /\ o \in Buys <=> o.side = "buy"
    BY OrderFields
  <1>4. row \in OrderRow /\ row.kind = o.side /\ row.lot = o.env /\ row.fill = result
    BY <1>2, <1>3, RowTypes
  <1>5. ASSUME faults' = 0
        PROVE  faults = 0 /\ ordersJournal' = Append(ordersJournal, row) /\ result' = result
    BY <1>1, <1>2, <1>5
  <1>6. ASSUME faults' = 0 PROVE LastRow'
    <2>1. \E i \in 1..Len(ordersJournal') : ordersJournal'[i] = row
      <3> HIDE DEF row
      <3>1. QED
        BY <1>4, <1>5, <1>6, OrderRowsAppended
    <2>2. RowWritten(o.side, o.env, result)'
      BY <1>5, <1>6, <2>1 DEF RowWritten
    <2>3. QED
      BY <1>1, <1>2, <2>2 DEF LastRow
  <1> HIDE DEF row
  <1>7. ASSUME faults' = 0, Regular' PROVE SentLots' /\ RowFacts'
    <2>1. /\ \A u : Bought(u)' <=> Bought(u) \/ (o.side = "buy" /\ t = u)
          /\ \A u : Sold(u)' <=> Sold(u) \/ (o.side = "sell" /\ t = u)
          /\ \A i \in 1..Len(ordersJournal') : ordersJournal'[i] = row
               \/ \E j \in 1..Len(ordersJournal) : ordersJournal'[i] = ordersJournal[j]
          /\ AllFilled' => AllFilled /\ row.fill = "sent"
      BY <1>4, <1>5, <1>7, OrderRowsAppended
    <2>2. result = "sent" /\ Regular /\ faults = 0
      BY <1>4, <1>5, <1>7, <2>1, RegularBefore DEF Regular
    <2>3. SentLots /\ RowFacts
      BY <2>2, JournalParts
    <2>4. SentLots'
      BY <1>1, <2>3 DEF SentLots, Snap
    <2>5. \A u \in Tokens : /\ OpenedRow(u)' <=> OpenedRow(u)
                            /\ ClosedRow(u)' <=> ClosedRow(u)
                            /\ positions'[u] = positions[u]
      BY <1>1 DEF OpenedRow, ClosedRow
    <2>6. \A u \in Tokens : /\ ~BuyReturns(u) /\ ~SaleReturns(u)
                            /\ BuyReturns(u)' <=> u = t /\ o \in Buys
                            /\ SaleReturns(u)' <=> u = t /\ o \in Sells
      BY <1>1, <1>2 DEF BuyReturns, SaleReturns
    <2>7. o \in Sells => positions[t] # NoPosition /\ sends[o.env] > 0
      <3> SUFFICES ASSUME o \in Sells PROVE positions[t] # NoPosition /\ sends[o.env] > 0
        OBVIOUS
      <3>1. monitor[t].step = "selling" /\ Snap(t).lot = o.env
        BY <1>2 DEF TasksInv, ExitsHaveTasks, SellingLot, IsPending, Pending
      <3>2. monitor[t] # NoTask /\ positions[t] # NoPosition
        BY <1>3, <3>1, TaskFacts DEF TasksInv
      <3>3. QED
        BY <1>3, <2>3, <3>1, <3>2 DEF SentLots
    <2>8. sends[o.env] > 0
      BY <1>1, <1>3, <2>2, <2>7, LotsParts DEF SendsCounted, Answered
    <2>9. RowsSent'
      <3>1. /\ \A i \in 1..Len(ordersJournal) : sends[ordersJournal[i].lot] > 0
            /\ \A i \in 1..Len(positionsJournal) : sends[positionsJournal[i].lot] > 0
        BY <2>3 DEF RowFacts, RowsSent
      <3>2. \A i \in 1..Len(ordersJournal') : sends[ordersJournal'[i].lot] > 0
        BY <1>4, <2>1, <2>8, <3>1
      <3>3. QED
        BY <1>1, <3>1, <3>2 DEF RowsSent
    <2>10. ClosedForGood'
      BY <1>1, <2>3 DEF RowFacts, ClosedForGood
    <2>11. BuyRowFirst /\ TrackedRows /\ UntrackedRows
      BY <2>3 DEF RowFacts
    <2>12. CASE o \in Buys
      <3>1. ~Bought(t)
        <4> SUFFICES ASSUME Bought(t) PROVE FALSE
          OBVIOUS
        <4>1. PICK i \in 1..Len(ordersJournal) :
                ordersJournal[i].kind = "buy" /\ TokenOf[ordersJournal[i].lot] = t
          BY DEF Bought, HasRow
        <4>2. ordersJournal[i] \in OrderRow
          BY DEF RestTypes
        <4>3. ordersJournal[i].lot \in Envs /\ sends[ordersJournal[i].lot] > 0
          BY <2>3, <4>2 DEF RowFacts, RowsSent, OrderRow
        <4>4. ordersJournal[i].lot = o.env
          BY <1>3, <2>2, <2>8, <4>1, <4>3 DEF Regular, BoughtOnce
        <4>5. ordersJournal[i].fill = "sent"
          BY <2>2 DEF Regular, AllFilled
        <4>6. ordersJournal[i] = [kind |-> "buy", lot |-> o.env, fill |-> "sent"]
          BY <4>1, <4>2, <4>4, <4>5 DEF OrderRow
        <4>7. FillInTail(o.env)
          BY <2>2, <4>6 DEF Regular, JournalsFitTail, readJournal, FillInTail, Shows
        <4>8. NotYetFilled(o)
          BY <1>1 DEF NotYetFilled
        <4>9. QED
          BY <2>2, <2>12, <4>7, <4>8 DEF BuysInv
      <3>2. /\ ~Sold(t) /\ ~ClosedRow(t) /\ ~OpenedRow(t) /\ positions[t] = NoPosition
        BY <1>3, <2>11, <3>1 DEF BuyRowFirst, TrackedRows
      <3>3. o.side = "buy" /\ o \notin Sells
        BY <1>3, <2>12 DEF Buys
      <3>4. BuyRowFirst'
        BY <2>1, <2>5, <2>11, <3>3 DEF BuyRowFirst
      <3>5. TrackedRows'
        BY <2>1, <2>5, <2>6, <2>11, <3>2, <3>3 DEF TrackedRows
      <3>6. UntrackedRows'
        BY <2>1, <2>5, <2>6, <2>11, <2>12, <3>3 DEF UntrackedRows
      <3>7. NewRows'
        BY <2>1, <2>5, <2>6, <3>2, <3>3 DEF NewRows
      <3>8. QED
        BY <2>4, <2>9, <2>10, <3>4, <3>5, <3>6, <3>7 DEF RowFacts
    <2>13. CASE o \in Sells
      <3>1. o.side = "sell" /\ o \notin Buys /\ positions[t] # NoPosition
        BY <1>3, <2>7, <2>13 DEF Buys
      <3>2. Bought(t) /\ ~ClosedRow(t)
        BY <1>3, <2>11, <3>1 DEF TrackedRows
      <3>3. BuyRowFirst'
        BY <2>1, <2>5, <2>11, <3>1, <3>2 DEF BuyRowFirst
      <3>4. TrackedRows'
        BY <2>1, <2>5, <2>6, <2>11, <2>13, <3>1 DEF TrackedRows
      <3>5. UntrackedRows'
        BY <2>1, <2>5, <2>6, <2>11, <3>1 DEF UntrackedRows
      <3>6. NewRows'
        BY <2>6, <3>1 DEF NewRows
      <3>7. QED
        BY <2>4, <2>9, <2>10, <3>3, <3>4, <3>5, <3>6 DEF RowFacts
    <2>14. QED
      BY <1>3, <2>12, <2>13
  <1>8. QED
    BY <1>6, <1>7, JournalParts

(* A buy that settles has its row, and the position it opens is the first    *)
(* of its token.                                                             *)
LEMMA JournalsOfBuy ==
  ASSUME QueueInv, RestTypes, TasksInv, LotsInv, JournalsInv, [Next]_vars,
         NEW o \in Order, BuySettles(o)
  PROVE  JournalsInv'
PROOF
  <1> DEFINE t   == TokenOf[o.env]
             row == [kind |-> "open", lot |-> o.env, reason |-> "none"]
  <1>1. /\ o \in executing /\ stage = "return" /\ o.side = "buy"
        /\ \E r \in {"resolved", "rejected"} : OrderQ!SubmitSettles(o, r)
        /\ stage' = "idle" /\ result' = "none"
        /\ UNCHANGED <<sends, monitor, resolved, ordersJournal>>
        /\ result = "sent" /\ DiskWorks =>
              /\ positions' = [positions EXCEPT ![t] = Opened(o.env)]
              /\ positionsJournal' = Append(positionsJournal, row) \/ DiskFails
        /\ faults' = faults \/ faults' = faults + 1
    BY DEF BuySettles, worldVars, chainVars, DiskWorks, DiskFails
  <1>2. executing = {o} /\ executing' = {} /\ resolved = NoExit /\ faults \in Nat
    BY <1>1, SettleKeepsQueue DEF QueueInv, SubmitHolds, RestTypes
  <1>3. o \in Buys /\ o \notin Sells /\ t \in Tokens /\ o.env \in Envs
    BY <1>1, OrderFields
  <1>4. LastRow'
    BY <1>1, <1>2 DEF LastRow
  <1>5. ASSUME faults' = 0, Regular' PROVE SentLots' /\ RowFacts'
    <2>1. faults = 0 /\ Regular
      BY <1>1, <1>2, <1>5, RegularBefore
    <2>2. LastRow /\ SentLots /\ RowFacts
      BY <2>1, JournalParts
    <2>3. result = "sent"
      BY <1>1, <2>1, <2>2, ReturnsAreSent DEF Regular
    <2>4. /\ positions' = [positions EXCEPT ![t] = Opened(o.env)]
          /\ positionsJournal' = Append(positionsJournal, row)
      BY <1>1, <1>2, <1>5, <2>1, <2>3 DEF DiskWorks, DiskFails
    <2>5. Opened(o.env) \in Position /\ Opened(o.env) # NoPosition /\ Opened(o.env).lot = o.env
      <3>1. 0 \in 0..MaxFaults
        BY ConstantFacts
      <3>2. QED
        BY <1>3, <3>1, OpenedIsPosition
    <2>6. positions'[t] = Opened(o.env) /\ \A u \in Tokens : u # t => positions'[u] = positions[u]
      BY <1>3, <2>4, <2>5, TypesOfMaps, SetPosition
    <2>7. sends[o.env] > 0
      BY <1>1, <1>3, <2>3, LotsParts DEF SendsCounted, Answered
    <2>8. SentLots'
      <3> SUFFICES ASSUME NEW u \in Tokens
                   PROVE  /\ positions'[u] # NoPosition => sends[positions'[u].lot] > 0
                          /\ monitor[u] # NoTask => sends[Snap(u).lot] > 0
        BY <1>1 DEF SentLots, Snap
      <3>1. CASE u = t
        BY <2>2, <2>5, <2>6, <2>7, <3>1 DEF SentLots
      <3>2. CASE u # t
        BY <2>2, <2>6, <3>2 DEF SentLots
      <3>3. QED
        BY <3>1, <3>2
    <2>9. row \in PositionRow /\ row.kind = "open" /\ row.lot = o.env
      BY <1>3, RowTypes
    <2> HIDE DEF row
    <2>10. \A u \in Tokens : /\ BuyReturns(u) <=> u = t
                             /\ ~SaleReturns(u) /\ ~BuyReturns(u)' /\ ~SaleReturns(u)'
      BY <1>1, <1>2, <1>3 DEF BuyReturns, SaleReturns
    <2>11. Bought(t) /\ ~Sold(t) /\ ~ClosedRow(t) /\ positions[t] = NoPosition
      BY <1>3, <2>2, <2>10 DEF RowFacts, NewRows
    <2>12. BuyRowFirst /\ ClosedForGood /\ TrackedRows /\ UntrackedRows /\ RowsSent
      BY <2>2 DEF RowFacts
    <2>13. /\ \A u \in Tokens : /\ OpenedRow(u)' <=> OpenedRow(u) \/ u = t
                                /\ ClosedRow(u)' <=> ClosedRow(u)
           /\ \A i \in 1..Len(positionsJournal') : positionsJournal'[i] = row
                \/ \E j \in 1..Len(positionsJournal) : positionsJournal'[i] = positionsJournal[j]
           /\ ClosedForGood'
      BY <2>4, <2>9, <2>11, <2>12, PositionRowsAppended
    <2>14. \A u \in Tokens : (Bought(u)' <=> Bought(u)) /\ (Sold(u)' <=> Sold(u))
      BY <1>1 DEF Bought, Sold
    <2>15. RowsSent'
      <3>1. \A i \in 1..Len(positionsJournal') : sends[positionsJournal'[i].lot] > 0
        BY <2>7, <2>9, <2>12, <2>13 DEF RowsSent
      <3>2. QED
        BY <1>1, <2>12, <3>1 DEF RowsSent
    <2>16. BuyRowFirst'
      BY <2>11, <2>12, <2>13, <2>14 DEF BuyRowFirst
    <2>17. TrackedRows'
      <3> SUFFICES ASSUME NEW u \in Tokens, positions'[u] # NoPosition
                   PROVE  Bought(u)' /\ ~ClosedRow(u)' /\ (Sold(u)' => SaleReturns(u)')
        BY DEF TrackedRows
      <3>1. CASE u = t
        BY <2>11, <2>13, <2>14, <3>1
      <3>2. CASE u # t
        BY <2>6, <2>10, <2>12, <2>13, <2>14, <3>2 DEF TrackedRows
      <3>3. QED
        BY <3>1, <3>2
    <2>18. UntrackedRows'
      <3> SUFFICES ASSUME NEW u \in Tokens, positions'[u] = NoPosition, Bought(u)'
                   PROVE  Sold(u)' \/ ClosedRow(u)'
        BY DEF UntrackedRows
      <3>1. u # t
        BY <2>5, <2>6
      <3>2. QED
        BY <2>6, <2>10, <2>12, <2>13, <2>14, <3>1 DEF UntrackedRows
    <2>19. NewRows'
      BY <2>10 DEF NewRows
    <2>20. QED
      BY <2>8, <2>13, <2>15, <2>16, <2>17, <2>18, <2>19 DEF RowFacts
  <1>6. QED
    BY <1>4, <1>5, JournalParts

(* What the recovery makes of regular journals: the position of the one lot  *)
(* that was bought and neither sold nor closed.                              *)
LEMMA RecoveredLot ==
  ASSUME RestTypes, JournalsFitTail, RowsSent, BuyRowFirst, ClosedForGood, NEW t \in Tokens
  PROVE  /\ Recovered(t) # NoPosition =>
              \E l \in Envs : /\ TokenOf[l] = t /\ Recovered(t) = Opened(l) /\ sends[l] > 0
                              /\ Bought(t) /\ ~ClosedRow(t) /\ ~Sold(t)
         /\ Recovered(t) = NoPosition /\ Bought(t) => Sold(t) \/ ClosedRow(t)
PROOF
  <1>1. JournalTypes
    BY DEF RestTypes, JournalTypes
  <1>2. \A l : OpenOf(t, l) => ~ClosedRow(t) /\ OpenedRow(t)
    <2> SUFFICES ASSUME NEW l, OpenOf(t, l) PROVE ~ClosedRow(t) /\ OpenedRow(t)
      OBVIOUS
    <2>1. PICK m \in 1..Len(positionsJournal) : LastOpens(t, m)
      BY DEF OpenOf, OpenIn, LastOpens
    <2>2. OpenedRow(t)
      BY <2>1 DEF LastOpens, LastOpensIn, OpenedRow, HasRow
    <2>3. ASSUME ClosedRow(t) PROVE FALSE
      <3>1. PICK i \in 1..Len(positionsJournal) :
              positionsJournal[i].kind = "closed" /\ TokenOf[positionsJournal[i].lot] = t
        BY <2>3 DEF ClosedRow, HasRow
      <3>2. i <= m /\ i # m
        BY <2>1, <3>1 DEF LastOpens, LastOpensIn
      <3>3. i < m
        BY <3>2
      <3>4. positionsJournal[m].kind = "closed"
        BY <2>1, <3>1, <3>3 DEF ClosedForGood, LastOpens, LastOpensIn
      <3>5. QED
        BY <2>1, <3>4 DEF LastOpens, LastOpensIn
    <2>4. QED
      BY <2>2, <2>3
  <1>3. \A l : BuyOf(l) /\ TokenOf[l] = t => Bought(t)
    BY DEF BuyOf, BuyIn, Bought, HasRow, IsBuy
  <1>4. \A l : BuyOf(l) \/ OpenOf(t, l) => sends[l] > 0
    BY DEF BuyOf, BuyIn, OpenOf, OpenIn, LastOpensIn, RowsSent
  <1>5. ASSUME Recovered(t) # NoPosition
        PROVE  \E l \in Envs : /\ TokenOf[l] = t /\ Recovered(t) = Opened(l) /\ sends[l] > 0
                               /\ Bought(t) /\ ~ClosedRow(t) /\ ~Sold(t)
    <2>1. PICK l \in Envs : /\ TokenOf[l] = t /\ Recovered(t) = Opened(l) /\ ~Sold(t)
                            /\ OpenOf(t, l) \/ (~ClosedRow(t) /\ BuyOf(l))
      BY <1>1, <1>5, RecoveredInFull
    <2>2. Bought(t) /\ ~ClosedRow(t) /\ sends[l] > 0
      BY <1>2, <1>3, <1>4, <2>1 DEF BuyRowFirst
    <2>3. QED
      BY <2>1, <2>2
  <1>6. QED
    BY <1>1, <1>5, RecoveredInFull

(* A restart recovers what the journals say is bought and not sold or        *)
(* closed.                                                                   *)
LEMMA JournalsOfRestart ==
  ASSUME QueueInv, RestTypes, TasksInv, JournalsInv, [Next]_vars, Restart
  PROVE  JournalsInv'
PROOF
  <1>1. /\ positions' = [t \in Tokens |-> Recovered(t)] /\ monitor' = [t \in Tokens |-> NoTask]
        /\ resolved' = NoExit /\ stage' = "idle"
        /\ UNCHANGED <<ordersJournal, positionsJournal, sends, faults>>
    BY DEF Restart, journalVars, worldVars, chainVars
  <1>2. executing' = {}
    BY RestartKeepsQueue
  <1>3. LastRow'
    BY <1>1, <1>2 DEF LastRow
  <1>4. ASSUME faults' = 0, Regular' PROVE SentLots' /\ RowFacts'
    <2>1. Regular /\ SentLots /\ RowFacts
      BY <1>1, <1>4, JournalParts, RegularBefore
    <2>2. BuyRowFirst /\ ClosedForGood /\ RowsSent /\ JournalsFitTail
      BY <2>1 DEF RowFacts, Regular
    <2>3. \A t \in Tokens : Recovered(t) # NoPosition =>
            sends[Recovered(t).lot] > 0 /\ Bought(t) /\ ~ClosedRow(t) /\ ~Sold(t)
      <3> SUFFICES ASSUME NEW t \in Tokens, Recovered(t) # NoPosition
                   PROVE  sends[Recovered(t).lot] > 0 /\ Bought(t) /\ ~ClosedRow(t) /\ ~Sold(t)
        OBVIOUS
      <3>1. PICK l \in Envs : /\ TokenOf[l] = t /\ Recovered(t) = Opened(l) /\ sends[l] > 0
                              /\ Bought(t) /\ ~ClosedRow(t) /\ ~Sold(t)
        BY <2>2, RecoveredLot
      <3>2. Recovered(t).lot = l
        BY <3>1, OpenedLot
      <3>3. QED
        BY <3>1, <3>2
    <2>4. \A t \in Tokens : Recovered(t) = NoPosition /\ Bought(t) => Sold(t) \/ ClosedRow(t)
      BY <2>2, RecoveredLot
    <2>5. \A t \in Tokens : positions'[t] = Recovered(t) /\ monitor'[t] = NoTask
      BY <1>1
    <2>6. \A t \in Tokens : /\ Bought(t)' <=> Bought(t)
                            /\ Sold(t)' <=> Sold(t)
                            /\ OpenedRow(t)' <=> OpenedRow(t)
                            /\ ClosedRow(t)' <=> ClosedRow(t)
                            /\ ~BuyReturns(t)' /\ ~SaleReturns(t)'
      BY <1>1, <1>2 DEF Bought, Sold, OpenedRow, ClosedRow, BuyReturns, SaleReturns
    <2>7. SentLots'
      BY <1>1, <2>3, <2>5 DEF SentLots
    <2>8. RowsSent' /\ ClosedForGood'
      BY <1>1, <2>2 DEF RowsSent, ClosedForGood
    <2>9. BuyRowFirst'
      BY <2>2, <2>6 DEF BuyRowFirst
    <2>10. TrackedRows' /\ UntrackedRows' /\ NewRows'
      BY <2>3, <2>4, <2>5, <2>6 DEF TrackedRows, UntrackedRows, NewRows
    <2>11. QED
      BY <2>7, <2>8, <2>9, <2>10 DEF RowFacts
  <1>5. QED
    BY <1>3, <1>4, JournalParts

LEMMA JournalsStep ==
  ASSUME QueueInv, RestTypes, TasksInv, BuysInv, LotsInv, JournalsInv, [Next]_vars
  PROVE  JournalsInv'
PROOF
  <1>0. MapTypes /\ faults \in Nat
    BY TypesOfMaps DEF RestTypes
  <1>a. ASSUME UNCHANGED <<ordersJournal, positionsJournal, positions, monitor, resolved,
                           executing, stage, result, faults>>
        PROVE  JournalsInv'
    <2>1. LastRow => LastRow'
      BY <1>a DEF LastRow, RowWritten
    <2>2. \A u : (BuyReturns(u)' <=> BuyReturns(u)) /\ (SaleReturns(u)' <=> SaleReturns(u))
      BY <1>a DEF BuyReturns, SaleReturns
    <2>3. QED
      BY <1>a, <2>1, <2>2, JournalsKept DEF Snap
  <1>1. ASSUME UNCHANGED vars PROVE JournalsInv'
    BY <1>1, <1>a DEF vars, clientVars, qvars, submitVars, journalVars, boundVars
  <1>2. ASSUME NEW e \in Envs, Publish(e) PROVE JournalsInv'
    BY <1>2, <1>a DEF Publish, qvars, submitVars, journalVars, boundVars
  <1>3. ASSUME NEW t \in Tokens, TimeStopPasses(t) PROVE JournalsInv'
    BY <1>3, <1>a DEF TimeStopPasses, clientVars, qvars, submitVars, journalVars, boundVars
  <1>4. ASSUME ScanBegins \/ MonitoringEnds PROVE JournalsInv'
    BY <1>4, <1>a DEF ScanBegins, MonitoringEnds, qvars, submitVars, journalVars, boundVars
  <1>5. ASSUME IngestRow PROVE JournalsInv'
    <2>1. UNCHANGED executing
      BY <1>5 DEF IngestRow, OrderQ!Enqueue, qvars
    <2>2. QED
      BY <1>5, <2>1, <1>a DEF IngestRow, submitVars, journalVars, boundVars
  <1>6. ASSUME MonitoringBegins PROVE JournalsInv'
    <2>1. UNCHANGED <<ordersJournal, positionsJournal, positions, resolved, executing, stage,
                      result, faults>>
      BY <1>6 DEF MonitoringBegins, submitVars, journalVars, boundVars, qvars
    <2>2. \A u \in Tokens : monitor'[u] # NoTask =>
            \/ monitor[u] # NoTask /\ monitor'[u].snap.lot = Snap(u).lot
            \/ positions[u] # NoPosition /\ monitor'[u].snap.lot = positions[u].lot
      BY <1>6 DEF MonitoringBegins, Tracked, Snap
    <2>3. LastRow => LastRow'
      BY <2>1 DEF LastRow, RowWritten
    <2>4. \A u : (BuyReturns(u)' <=> BuyReturns(u)) /\ (SaleReturns(u)' <=> SaleReturns(u))
      BY <2>1 DEF BuyReturns, SaleReturns
    <2>5. QED
      BY <2>1, <2>2, <2>3, <2>4, JournalsKept
  <1>7. ASSUME NEW t \in Tokens, StepHolds(t) PROVE JournalsInv'
    <2>1. /\ positions' = [positions EXCEPT ![t] = Snap(t)] /\ TaskEnds(t)
          /\ UNCHANGED <<sends, ordersJournal, positionsJournal, executing, stage, result,
                         resolved, faults>>
          /\ monitor[t].step = "pricing"
      BY <1>7 DEF StepHolds, Snap, Priced, qvars, submitVars, journalVars, worldVars, chainVars, boundVars
    <2>2. monitor[t] # NoTask /\ Snap(t) \in Position /\ Snap(t) # NoPosition
      BY <2>1, TaskFacts DEF TasksInv
    <2>3. positions'[t] = Snap(t) /\ \A u \in Tokens : u # t => positions'[u] = positions[u]
      BY <2>1, <2>2, <1>0, SetPosition
    <2>4. monitor'[t] = NoTask /\ \A u \in Tokens : u # t => monitor'[u] = monitor[u]
      BY <2>1, <1>0, SetTask DEF TaskEnds
    <2>5. ClosesOrKeeps(t)
      BY <2>1, <2>2, <2>3, <2>4 DEF ClosesOrKeeps
    <2>6. LastRow => LastRow'
      BY <2>1 DEF LastRow, RowWritten
    <2>7. QED
      BY <2>1, <2>5, <2>6, JournalsOfTask
  <1>8. ASSUME NEW t \in Tokens, StepEvictsDust(t) PROVE JournalsInv'
    <2>1. /\ positions' = [positions EXCEPT ![t] = NoPosition] /\ TaskEnds(t)
          /\ UNCHANGED <<sends, ordersJournal, stage, result, resolved>>
          /\ monitor[t].step = "pricing"
          /\ OrderQ!NotifySlotAvailable \/ UNCHANGED qvars
          /\ \/ /\ faults' = faults
                /\ positionsJournal' = Append(positionsJournal,
                                              [kind |-> "closed", lot |-> Snap(t).lot, reason |-> "dust"])
             \/ faults' = faults + 1
      BY <1>8 DEF StepEvictsDust, Snap, Priced, submitVars, worldVars, chainVars, DiskWorks, DiskFails
    <2>2. UNCHANGED executing
      BY <2>1, NotifyKeepsQueue
    <2>3. monitor[t] # NoTask
      BY <2>1, TaskFacts DEF TasksInv
    <2>4. positions'[t] = NoPosition /\ \A u \in Tokens : u # t => positions'[u] = positions[u]
      BY <2>1, <1>0, SetPosition
    <2>5. monitor'[t] = NoTask /\ \A u \in Tokens : u # t => monitor'[u] = monitor[u]
      BY <2>1, <1>0, SetTask DEF TaskEnds
    <2>6. faults' = 0 => faults = 0 /\ ClosesOrKeeps(t)
      <3>1. "dust" \in CloseWhy
        BY DEF CloseWhy
      <3>2. QED
        BY <1>0, <2>1, <2>2, <2>3, <2>4, <2>5, <3>1 DEF ClosesOrKeeps
    <2>7. LastRow => LastRow'
      BY <2>1, <2>2 DEF LastRow, RowWritten
    <2>8. QED
      BY <2>1, <2>6, <2>7, JournalsOfTask
  <1>9. ASSUME NEW t \in Tokens, StepExits(t) PROVE JournalsInv'
    <2>1. PICK q \in Position, k \in Task :
            /\ positions' = [positions EXCEPT ![t] = q] /\ monitor' = [monitor EXCEPT ![t] = k]
            /\ q.lot = Snap(t).lot /\ k.snap.lot = Snap(t).lot
      BY <1>9, ExitMarks DEF TasksInv
    <2>2. /\ monitor[t].step = "pricing" /\ UNCHANGED executing
          /\ UNCHANGED <<sends, ordersJournal, positionsJournal, stage, result, resolved, faults>>
      BY <1>9, Zenon DEF StepExits, Priced, OrderQ!Enqueue, submitVars, journalVars, worldVars,
           chainVars, boundVars
    <2>3. monitor[t] # NoTask
      BY <2>2, TaskFacts DEF TasksInv
    <2>4. positions'[t] = q /\ \A u \in Tokens : u # t => positions'[u] = positions[u]
      BY <2>1, <1>0, SetPosition
    <2>5. monitor'[t] = k /\ \A u \in Tokens : u # t => monitor'[u] = monitor[u]
      BY <2>1, <1>0, SetTask
    <2>6. q # NoPosition
      BY <2>1, NoRecord
    <2>7. ClosesOrKeeps(t)
      BY <2>1, <2>2, <2>3, <2>4, <2>5, <2>6 DEF ClosesOrKeeps
    <2>8. LastRow => LastRow'
      BY <2>2 DEF LastRow, RowWritten
    <2>9. QED
      BY <2>2, <2>7, <2>8, JournalsOfTask
  <1>10. ASSUME NEW t \in Tokens, ExitCloses(t) \/ ExitBounces(t) \/ ExitThrows(t) PROVE JournalsInv'
    <2>1. ExitResumes(t)
      BY <1>10 DEF ExitCloses, ExitBounces, ExitThrows
    <2>2. /\ resolved # NoExit /\ TokenOf[resolved.lot] = t /\ resolved' = NoExit /\ TaskEnds(t)
          /\ UNCHANGED <<sends, ordersJournal, stage, result>>
      BY <2>1 DEF ExitResumes, worldVars, chainVars
    <2>3. /\ (OrderQ!NotifySlotAvailable \/ UNCHANGED qvars)
          /\ faults' \in {faults, faults + 1}
      BY <1>10 DEF ExitCloses, ExitBounces, ExitThrows, ClosePosition, DiskWorks, DiskFails
    <2>4. UNCHANGED executing
      BY <2>2, <2>3, NotifyKeepsQueue
    <2>5. monitor[t] # NoTask /\ executing = {}
      BY <2>1, ResumingTask
    <2>6. monitor'[t] = NoTask /\ \A u \in Tokens : u # t => monitor'[u] = monitor[u]
      BY <2>2, <1>0, SetTask DEF TaskEnds
    <2>7. LastRow'
      BY <2>2, <2>4, <2>5 DEF LastRow
    <2>8. ASSUME faults' = 0, Regular PROVE ClosesOrKeeps(t)
      <3>1. faults = 0
        BY <1>0, <2>3, <2>8
      <3>2. resolved.result = "sent"
        BY <2>2, <2>8, <3>1, JournalParts, ReturnsAreSent DEF Regular
      <3>3. /\ positions' = [positions EXCEPT ![t] = NoPosition]
            /\ positionsJournal' = Append(positionsJournal,
                                          [kind |-> "closed", lot |-> Snap(t).lot, reason |-> "sent"])
        BY <1>10, <2>8, <3>1, <3>2
           DEF ExitCloses, ExitBounces, ExitThrows, ClosePosition, DiskFails, Snap
      <3>4. positions'[t] = NoPosition /\ \A u \in Tokens : u # t => positions'[u] = positions[u]
        BY <3>3, <1>0, SetPosition
      <3>5. "sent" \in CloseWhy
        BY DEF CloseWhy
      <3>6. QED
        BY <2>2, <2>4, <2>5, <2>6, <3>3, <3>4, <3>5 DEF ClosesOrKeeps
    <2>9. faults' = 0 => faults = 0
      BY <1>0, <2>3
    <2>10. QED
      BY <2>2, <2>7, <2>8, <2>9, JournalsOfTask
  <1>11. ASSUME Worker PROVE JournalsInv'
    <2>1. UNCHANGED <<ordersJournal, positionsJournal, positions, monitor, faults>>
      BY <1>11 DEF Worker, clientVars, journalVars, boundVars
    <2>2. ASSUME NEW o \in Order, Dispatches(o) PROVE JournalsInv'
      <3>1. executing = {} /\ stage' = "swap" /\ resolved' = resolved /\ resolved = NoExit
        BY <1>11, <2>2, WorkerDispatches DEF Dispatches
      <3>2. LastRow'
        BY <3>1 DEF LastRow
      <3>3. \A u : (BuyReturns(u)' <=> BuyReturns(u)) /\ (SaleReturns(u)' <=> SaleReturns(u))
        BY <3>1 DEF BuyReturns, SaleReturns
      <3>4. QED
        BY <2>1, <3>2, <3>3, JournalsKept DEF Snap
    <2>3. QED
      BY <1>11, <1>a, <2>1, <2>2, WorkerDispatches
  <1>12. ASSUME NEW o \in Order, Swap(o) PROVE JournalsInv'
    <2>1. /\ UNCHANGED <<ordersJournal, positionsJournal, positions, monitor, faults, resolved>>
          /\ stage = "swap" /\ stage' = "append" /\ resolved = NoExit
      BY <1>12, SwapKeepsQueue DEF Swap, clientVars, journalVars, boundVars
    <2>2. LastRow'
      BY <2>1 DEF LastRow
    <2>3. \A u : (BuyReturns(u)' <=> BuyReturns(u)) /\ (SaleReturns(u)' <=> SaleReturns(u))
      BY <2>1 DEF BuyReturns, SaleReturns
    <2>4. QED
      BY <2>1, <2>2, <2>3, JournalsKept DEF Snap
  <1>13. ASSUME NEW o \in Order, JournalOrder(o) PROVE JournalsInv'
    BY <1>13, JournalsOfOrder
  <1>14. ASSUME NEW o \in Order, BuySettles(o) PROVE JournalsInv'
    BY <1>14, JournalsOfBuy
  <1>15. ASSUME NEW o \in Order, SellSettles(o) PROVE JournalsInv'
    <2>1. /\ o.side = "sell" /\ stage = "return" /\ o \in executing
          /\ UNCHANGED <<ordersJournal, positionsJournal, positions, monitor, faults>>
          /\ resolved' = [lot |-> o.env, result |-> result]
          /\ \E r \in {"resolved", "rejected"} : OrderQ!SubmitSettles(o, r)
          /\ stage' = "idle" /\ result' = "none"
      BY <1>15 DEF SellSettles, clientVars, journalVars, boundVars
    <2>2. executing = {o} /\ executing' = {} /\ resolved = NoExit /\ result \in Result
      BY <2>1, SettleKeepsQueue DEF QueueInv, SubmitHolds
    <2>3. o \in Sells /\ o \notin Buys
      BY <2>1, OrderFields
    <2>4. resolved'.lot = o.env /\ resolved'.result = result /\ resolved' # NoExit
      <3>1. resolved' \in [lot : Envs, result : Result]
        BY <2>1, <2>2, OrderFields
      <3>2. QED
        BY <2>1, <3>1, NoRecord
    <2>5. LastRow => LastRow'
      <3>1. LastRow => RowWritten("sell", o.env, result)
        BY <2>1 DEF LastRow
      <3>2. LastRow => \E i \in 1..Len(ordersJournal') :
                         ordersJournal'[i] = [kind |-> "sell", lot |-> resolved'.lot, fill |-> resolved'.result]
        BY <2>1, <2>4, <3>1 DEF RowWritten
      <3>3. QED
        BY <2>2, <3>2 DEF LastRow, RowWritten
    <2>6. \A u : (BuyReturns(u)' <=> BuyReturns(u)) /\ (SaleReturns(u)' <=> SaleReturns(u))
      BY <2>1, <2>2, <2>3, <2>4 DEF BuyReturns, SaleReturns
    <2>7. QED
      BY <2>1, <2>5, <2>6, JournalsKept DEF Snap
  <1>16. ASSUME Shutdown PROVE JournalsInv'
    BY <1>16, <1>a DEF Shutdown, OrderQ!Stop, clientVars, submitVars, journalVars, boundVars
  <1>17. ASSUME Restart PROVE JournalsInv'
    BY <1>17, JournalsOfRestart
  <1>18. ASSUME NEW o \in Order, Lands(o) PROVE JournalsInv'
    BY <1>18, <1>a DEF Lands, clientVars, qvars, submitVars, journalVars, boundVars
  <1>19. QED
    BY <1>1, <1>2, <1>3, <1>4, <1>5, <1>6, <1>7, <1>8, <1>9, <1>10, <1>11, <1>12, <1>13, <1>14,
       <1>15, <1>16, <1>17, <1>18 DEF Next, Monitoring, Submit, MessageLands
-----------------------------------------------------------------------------
(* The inductive invariant: the queue, the tasks, the ids, the wallet and    *)
(* the journals of the executor agree, as far as the reports of its swaps    *)
(* are borne out and the tails of the journals reach.                        *)
THEOREM ExecutorInvariant == Spec => []ExecutorInv
PROOF
  <1>1. Init => ExecutorInv
    BY InitTypes, InitBuys, InitLots, InitRests, InitJournalsInv DEF ExecutorInv
  <1>2. ExecutorInv /\ [Next]_vars => ExecutorInv'
    BY QueueStep, RestStep, TasksStep, BuysStep, LotsStep, TakesStep, RestsStep, JournalsStep
       DEF ExecutorInv
  <1>3. QED
    BY <1>1, <1>2, PTL DEF Spec

(* A live executor tracks nothing the wallet does not hold, except while the *)
(* sale of it settles, and except of a token of which a swap was reported    *)
(* before the chain decided it: a buy that is reported sent when the poll    *)
(* runs out is tracked whether it lands or not.                              *)
THEOREM TrackedAreHeld == Spec => []TrackedIsHeld
PROOF
  <1>1. ExecutorInv => TrackedIsHeld
    BY DEF ExecutorInv, LotsInv, LiveLots, TrackedIsHeld, Tracked
  <1>2. QED
    BY <1>1, ExecutorInvariant, PTL

(* While one process runs, each lot in the wallet that is the only one of    *)
(* its token is tracked, on its way through submit, or was given up by a row *)
(* of the positions journal; or it is what a sale left, of a surplus lot or  *)
(* of one an exit of which had bounced before, or a swap of its token was    *)
(* reported before the chain decided it.                                     *)
THEOREM HoldingsAreTracked == Spec => []HoldingsTracked
PROOF
  <1>1. ASSUME NEW l, BuyFilled(l) PROVE Settling(l)
    BY <1>1 DEF BuyFilled, Settling, Answered
  <1>2. ExecutorInv => HoldingsTracked
    BY <1>1 DEF ExecutorInv, LotsInv, HeldLots, RestsInv, HoldingsTracked, TracksLot
  <1>3. QED
    BY <1>2, ExecutorInvariant, PTL

(* Between two orders, a restart would recover exactly the positions that    *)
(* the process tracks, provided every journaled order was filled, no token   *)
(* was bought twice and the tails hold the journals.                         *)
THEOREM JournalsTellTheMap == Spec => []JournalsMatchMap
PROOF
  <1>1. ASSUME ExecutorInv, BetweenOrders, faults = 0, Regular, NEW t \in Tokens
        PROVE  IF positions[t] = NoPosition
                 THEN Recovered(t) = NoPosition
                 ELSE Recovered(t) = Opened(positions[t].lot)
    <2>1. RestTypes /\ TaskTypes /\ SentLots /\ RowFacts
      BY <1>1, JournalParts DEF ExecutorInv, TasksInv
    <2>2. ~BuyReturns(t) /\ ~SaleReturns(t)
      BY <1>1 DEF BetweenOrders, BuyReturns, SaleReturns
    <2>3. /\ Recovered(t) # NoPosition =>
               \E l \in Envs : /\ TokenOf[l] = t /\ Recovered(t) = Opened(l) /\ sends[l] > 0
                               /\ Bought(t) /\ ~ClosedRow(t) /\ ~Sold(t)
          /\ Recovered(t) = NoPosition /\ Bought(t) => Sold(t) \/ ClosedRow(t)
      BY <1>1, <2>1, RecoveredLot DEF RowFacts, Regular
    <2>4. CASE positions[t] = NoPosition
      BY <2>1, <2>2, <2>3, <2>4 DEF RowFacts, UntrackedRows
    <2>5. CASE positions[t] # NoPosition
      <3>1. Bought(t) /\ ~ClosedRow(t) /\ ~Sold(t)
        BY <2>1, <2>2, <2>5 DEF RowFacts, TrackedRows
      <3>2. PICK l \in Envs : TokenOf[l] = t /\ Recovered(t) = Opened(l) /\ sends[l] > 0
        BY <2>3, <3>1
      <3>3. positions[t] \in Position /\ TokenOf[positions[t].lot] = t
        BY <2>1, <2>5 DEF TaskTypes, PositionAt
      <3>4. positions[t].lot \in Envs /\ sends[positions[t].lot] > 0
        BY <2>1, <2>5, <3>3 DEF Position, SentLots
      <3>5. positions[t].lot = l
        BY <1>1, <3>2, <3>3, <3>4 DEF Regular, BoughtOnce
      <3>6. QED
        BY <2>5, <3>2, <3>5
    <2>6. QED
      BY <2>4, <2>5
  <1>2. ExecutorInv => JournalsMatchMap
    BY <1>1 DEF JournalsMatchMap, Regular
  <1>3. QED
    BY <1>2, ExecutorInvariant, PTL
=============================================================================
