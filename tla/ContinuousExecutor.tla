------------------------- MODULE ContinuousExecutor -------------------------
(***************************************************************************)
(* The continuous executor (packages/executor/src/continuous.ts) with      *)
(* Executor.submit (modes.ts): it ingests gated envelopes as buys, steps   *)
(* every open position, sells through the order queue, journals what it    *)
(* does, and recovers its positions from the journals when restarted.      *)
(*                                                                         *)
(* One process, one thread: a step is the code between two awaits.  The    *)
(* wallet and the chain, the risk gates that append to the feed, the clock *)
(* and the disk are the environment.                                       *)
(*                                                                         *)
(* A lot is what one filled buy brought into the wallet; it is named by    *)
(* the envelope that asked for it.  A position tracks one lot per token.   *)
(***************************************************************************)
EXTENDS Integers, SequencesExt, Subsequences

CONSTANTS Envs,              \* gated envelopes (ids)
          Tokens,            \* jetton addresses
          TokenOf,           \* the token each envelope is about
          Dust,              \* envelopes sized below EXEC_CONFIG.minOrderTon
          Inherited,         \* lots an earlier process bought and still holds
          Surplus,           \* lots of which the wallet got more than amountTon / entryTon
          Modes,             \* values EXECUTION_MODE has in the runs of the process
          MaxOpenPositions,  \* EXEC_CONFIG.maxOpenPositions
          BounceLimit,       \* failed exits before a position is force-cleared
          TailRows,          \* readJournal's max: 200
          MaxCopies,         \* bound: times the gates append one envelope
          MaxIssues,         \* bound: orders made for one envelope and side
          MaxCrashes,        \* bound: restarts
          MaxFaults,         \* bound: journal appends that fail
          MaxDoubts          \* bound: swaps that do not land when they are reported

ASSUME ExecutorAssumption ==
  /\ TokenOf \in [Envs -> Tokens] /\ IsFiniteSet(Tokens)
  /\ Dust \subseteq Envs /\ Surplus \subseteq Envs
  /\ Inherited \subseteq Envs /\ IsFiniteSet(Inherited) /\ Cardinality(Inherited) <= TailRows
  /\ Modes \subseteq {"notify_only", "paper", "auto"} /\ Modes # {}
  /\ \A d, e \in Inherited : TokenOf[d] = TokenOf[e] => d = e
  /\ {BounceLimit, TailRows} \subseteq Nat \ {0}
  /\ {MaxOpenPositions, MaxCopies, MaxFaults, MaxDoubts} \subseteq Nat

VARIABLES
  mode,                                   \* EXECUTION_MODE of this process
  feed, published,                        \* gated-*.ndjson, rows written per envelope
  cursor, processedEnvIds,                \* processedLines and processedEnvIds
  positions,                              \* openPositionsMap
  scan, monitor,                          \* scanAndProcess and its per-position tasks
  highQueue, normalQueue, isProcessing,   \* OrderQueueManager
  isRunning, wakeups, executing, outcome,
  stage, result,                          \* where Executor.submit is, and its fill
  resolved,                               \* the exit whose promise just settled
  ordersJournal, positionsJournal,        \* orders-*.ndjson, positions-*.ndjson
  held, due,                              \* lots in the wallet; lots past their time-stop
  afloat,                                 \* orders whose message may land though it was reported on
  sends, rests, doubted,                  \* history: buys sent per envelope; lots a sale left a rest of;
                                          \* orders that had not landed, or not only bounced, when reported
  crashes, faults                         \* restarts and failed appends so far

clientVars  == <<feed, published, cursor, processedEnvIds, positions, scan, monitor>>
submitVars  == <<stage, result, resolved>>
journalVars == <<ordersJournal, positionsJournal>>
chainVars   == <<held, afloat, sends, rests, doubted>>
worldVars   == <<due, chainVars>>
boundVars   == <<mode, crashes, faults>>
qvars       == <<highQueue, normalQueue, isProcessing, isRunning, wakeups, executing, outcome>>
vars == <<clientVars, qvars, submitVars, journalVars, worldVars, boundVars>>
-----------------------------------------------------------------------------
Order == [side : {"buy", "sell"}, env : Envs, n : 1..MaxIssues]
Sells == {o \in Order : o.side = "sell"}

NoPosition == [lot |-> "none"]
Position   == [lot : Envs, exitInFlight : BOOLEAN, bounces : 0..BounceLimit + MaxFaults - 1,
               taken : BOOLEAN]          \* a partial take has reduced remainingQty
NoTask     == [step |-> "off"]
Task       == [step : {"pricing", "selling"},
               snap : Position,          \* the position as the scan found it; then step.pos
               whole : BOOLEAN]          \* the scan found remainingQty = qty
NoExit     == [lot |-> "none"]

Result == {"none", "sent", "bounced", "unsellable", "surfaced", "threw"}

Opened(e) == [lot |-> e, exitInFlight |-> FALSE, bounces |-> 0, taken |-> FALSE]

Tracked == {t \in Tokens : positions[t] # NoPosition}

OrderQ == INSTANCE OrderQueue
            WITH Orders <- Order, Exits <- Sells,
                 openCount <- Cardinality(Tracked), MaxRecovered <- Cardinality(Tokens)

(* newId: a number not yet used for an order of this envelope, while         *)
(* MaxIssues leaves one.                                                     *)
CanIssue(side, e) == \E o \in Order : o.side = side /\ o.env = e /\ outcome[o] = "new"
FreshOrder(side, e) == CHOOSE o \in Order : o.side = side /\ o.env = e /\ outcome[o] = "new"
-----------------------------------------------------------------------------
(* What the journals say, as the start of runContinuousExecutor reads it:    *)
(* the last TailRows rows of each.                                           *)
readJournal(file) ==
  IF Len(file) <= TailRows THEN file ELSE SubSeq(file, Len(file) - TailRows + 1, Len(file))

RowsWith(rows, Test(_)) == Subsequence(rows, {i \in 1..Len(rows) : Test(rows[i])})
TokensWith(rows, Test(_)) == {TokenOf[rows[i].lot] : i \in {j \in 1..Len(rows) : Test(rows[j])}}

IsOpen(row)   == row.kind = "open"
IsClosed(row) == row.kind = "closed"
IsBuy(row)    == row.kind = "buy"
IsSell(row)   == row.kind = "sell"

RowsOf(t) == RowsWith(readJournal(positionsJournal), LAMBDA row : TokenOf[row.lot] = t)
BuysOf(t) == RowsWith(readJournal(ordersJournal), LAMBDA row : IsBuy(row) /\ TokenOf[row.lot] = t)

OpenInPositionsJournal(t) == RowsOf(t) # <<>> /\ IsOpen(RowsOf(t)[Len(RowsOf(t))])
LastOpened(t) == RowsOf(t)[Len(RowsOf(t))].lot

RecoveredOfClosed(t) ==   \* slip: closedTokens is not consulted
  IF t \in TokensWith(readJournal(ordersJournal), IsSell) THEN NoPosition
  ELSE IF OpenInPositionsJournal(t) THEN Opened(LastOpened(t))
  ELSE IF BuysOf(t) # <<>> THEN Opened(BuysOf(t)[1].lot)
  ELSE NoPosition

Recovered(t) ==
  LET sold   == t \in TokensWith(readJournal(ordersJournal), IsSell)
      closed == t \in TokensWith(readJournal(positionsJournal), IsClosed)
  IN IF sold THEN NoPosition
     ELSE IF OpenInPositionsJournal(t) THEN Opened(LastOpened(t))
     ELSE IF ~closed /\ BuysOf(t) # <<>> THEN Opened(BuysOf(t)[1].lot)
     ELSE NoPosition

EnvIdsForgotten == {}   \* slip: the recovery does not rebuild processedEnvIds
EnvIdsInOrders ==
  LET rows == readJournal(ordersJournal)
  IN {rows[i].lot : i \in {j \in 1..Len(rows) : IsBuy(rows[j])}}

Init ==
  /\ mode \in Modes
  /\ feed = <<>> /\ published = [e \in Envs |-> IF e \in Inherited THEN MaxCopies ELSE 0]
  /\ cursor = 0
  /\ OrderQ!QueueInit
  /\ ordersJournal = SetToSeq({[kind |-> "buy", lot |-> e, fill |-> "sent"] : e \in Inherited})
  /\ positionsJournal = SetToSeq({[kind |-> "open", lot |-> e, reason |-> "none"] : e \in Inherited})
  /\ processedEnvIds = EnvIdsInOrders
  /\ positions = [t \in Tokens |-> Recovered(t)]
  /\ scan = "idle" /\ monitor = [t \in Tokens |-> NoTask]
  /\ stage = "idle" /\ result = "none" /\ resolved = NoExit
  /\ held = Inherited /\ due = {} /\ afloat = {} /\ rests = {} /\ doubted = {}
  /\ sends = [e \in Envs |-> IF e \in Inherited THEN 1 ELSE 0]
  /\ crashes = 0 /\ faults = 0
-----------------------------------------------------------------------------
(* The environment.                                                          *)

(* The risk gates append an envelope to the feed, perhaps not for the first  *)
(* time: a restarted gate process re-reads its signals.                      *)
Publish(e) == /\ published[e] < MaxCopies
              /\ published' = [published EXCEPT ![e] = @ + 1]
              /\ feed' = Append(feed, e)
              /\ UNCHANGED <<cursor, processedEnvIds, positions, scan, monitor,
                             qvars, submitVars, journalVars, worldVars, boundVars>>

(* A tracked lot reaches the hard time-stop of stepPosition. *)
TimeStopPasses(t) == /\ positions[t] # NoPosition /\ positions[t].lot \notin due
                     /\ due' = due \cup {positions[t].lot}
                     /\ UNCHANGED <<clientVars, qvars, submitVars, journalVars, chainVars, boundVars>>

(* An append either writes its row or throws. *)
DiskWorks == UNCHANGED faults
DiskFails == faults < MaxFaults /\ faults' = faults + 1
-----------------------------------------------------------------------------
(* scanAndProcess: ingestion.  It has no real await, so no other task of     *)
(* the process runs before the snapshot of the positions is taken.           *)

(* The macrotasks (timers, setImmediate, network answers) run only when the  *)
(* continuation of a settled exit has run.                                   *)
Idle == resolved = NoExit /\ scan # "ingest"

ScanBegins == /\ Idle /\ scan = "idle" /\ isRunning
              /\ scan' = "ingest"
              /\ UNCHANGED <<feed, published, cursor, processedEnvIds, positions, monitor,
                             qvars, submitVars, journalVars, worldVars, boundVars>>

IngestRow ==
  /\ scan = "ingest" /\ cursor < Len(feed)
  /\ cursor' = cursor + 1
  /\ LET e == feed[cursor + 1]
     IN /\ processedEnvIds' = processedEnvIds \cup {e}
        /\ IF e \in processedEnvIds \/ e \in Dust
             THEN UNCHANGED qvars
             ELSE CanIssue("buy", e) /\ OrderQ!Enqueue(FreshOrder("buy", e))
  /\ UNCHANGED <<feed, published, positions, scan, monitor,
                 submitVars, journalVars, worldVars, boundVars>>

(* One task per tracked position, unless an exit of it is in flight. *)
MonitoringBegins ==
  LET stepped == {t \in Tracked : ~positions[t].exitInFlight}
  IN /\ scan = "ingest" /\ cursor = Len(feed)
     /\ scan' = IF stepped = {} THEN "idle" ELSE "monitor"
     /\ monitor' = [t \in Tokens |-> IF t \in stepped
                                       THEN [step |-> "pricing", snap |-> positions[t],
                                             whole |-> ~positions[t].taken]
                                       ELSE monitor[t]]
     /\ UNCHANGED <<feed, published, cursor, processedEnvIds, positions,
                    qvars, submitVars, journalVars, worldVars, boundVars>>

MonitoringEndsUnawaited ==   \* slip: the tasks are started and not awaited
  /\ Idle /\ scan = "monitor"
  /\ scan' = "idle"
  /\ UNCHANGED <<feed, published, cursor, processedEnvIds, positions, monitor,
                 qvars, submitVars, journalVars, worldVars, boundVars>>

(* allSettled resolves, and the next scan is timed. *)
MonitoringEnds ==
  /\ Idle /\ scan = "monitor" /\ monitor = [t \in Tokens |-> NoTask]
  /\ scan' = "idle"
  /\ UNCHANGED <<feed, published, cursor, processedEnvIds, positions, monitor,
                 qvars, submitVars, journalVars, worldVars, boundVars>>
-----------------------------------------------------------------------------
(* scanAndProcess: one position's task.  The price has come; stepPosition    *)
(* decides on the position as it was when the scan began, and the map is     *)
(* overwritten with its result.                                              *)
Priced(t) == Idle /\ monitor[t].step = "pricing"

TaskEnds(t) == monitor' = [monitor EXCEPT ![t] = NoTask]

StepHolds(t) ==
  /\ Priced(t)
  /\ monitor[t].snap.lot \notin due
  /\ positions' = [positions EXCEPT ![t] = monitor[t].snap]
  /\ TaskEnds(t)
  /\ UNCHANGED <<feed, published, cursor, processedEnvIds, scan,
                 qvars, submitVars, journalVars, worldVars, boundVars>>

(* An exit of a position below the minimum order: it is dropped unsold.      *)
(* When the append throws, the catch skips the notification.                 *)
StepEvictsDust(t) ==
  LET lot == monitor[t].snap.lot
  IN /\ Priced(t) /\ lot \in Dust
     /\ positions' = [positions EXCEPT ![t] = NoPosition]
     /\ TaskEnds(t)
     /\ \/ /\ DiskWorks
           /\ positionsJournal' = Append(positionsJournal,
                                         [kind |-> "closed", lot |-> lot, reason |-> "dust"])
           /\ OrderQ!NotifySlotAvailable
        \/ DiskFails /\ UNCHANGED <<positionsJournal, qvars>>
     /\ UNCHANGED <<feed, published, cursor, processedEnvIds, scan,
                    submitVars, ordersJournal, worldVars, mode, crashes>>

(* An exit, in part or in full: the position is marked, what the scan found  *)
(* of it is offered for sale with high priority, and the task waits for the  *)
(* sale.  A partial take reduces remainingQty at once; past the time-stop    *)
(* the exit is in full.                                                      *)
StepExits(t) ==
  LET lot == monitor[t].snap.lot
  IN /\ Priced(t) /\ lot \notin Dust /\ CanIssue("sell", lot)
     /\ \E part \in BOOLEAN :
          LET stepped == [monitor[t].snap EXCEPT !.taken = @ \/ part]
          IN /\ part => lot \notin due
             /\ positions' = [positions EXCEPT ![t] = [stepped EXCEPT !.exitInFlight = TRUE]]
             /\ monitor' = [monitor EXCEPT ![t].step = "selling", ![t].snap = stepped]
     /\ OrderQ!Enqueue(FreshOrder("sell", lot))
     /\ UNCHANGED <<feed, published, cursor, processedEnvIds, scan,
                    submitVars, journalVars, worldVars, boundVars>>
-----------------------------------------------------------------------------
(* The queue's worker and Executor.submit.                                   *)

Worker == /\ Idle
          /\ OrderQ!ProcessNext
          /\ stage' = IF executing' = executing THEN stage ELSE "swap"
          /\ UNCHANGED <<clientVars, result, resolved, journalVars, worldVars, boundVars>>

(* What a swap does to the wallet.  A sale of a reduced quantity leaves a    *)
(* rest of the lot, unless the wallet holds no more than is asked for; a     *)
(* surplus lot is more than the executor reckons.                            *)
Lots(t) == {l \in held : TokenOf[l] = t}

BuyLands(e) == held' = held \cup {e} /\ UNCHANGED rests

SellLands(e, reduced) ==
  \E l \in (IF e \in held \/ Lots(TokenOf[e]) = {} THEN {e} ELSE Lots(TokenOf[e])) :
    \/ held' = held \ {l} /\ UNCHANGED rests
    \/ /\ l \in held /\ (reduced \/ l \in Surplus)
       /\ rests' = rests \cup {l} /\ UNCHANGED held

OfferedReduced(t) == monitor[t].step = "selling" /\ ~monitor[t].whole

Leaves(o) == sends' = IF o.side = "buy" THEN [sends EXCEPT ![o.env] = @ + 1] ELSE sends

(* wallet.swap(order).  notify_only never calls it; the paper wallet fills   *)
(* every order; the live wallet sends, bounces, or finds nothing to sell (or *)
(* no pool, or no answer: a failed balance read counts as zero).  Sent means *)
(* handed to the chain: when the poll runs out the message may land later or *)
(* never, and a bounced one whose answer was lost may land after all.        *)
CanSend(o) == /\ mode # "notify_only"
              /\ mode = "auto" /\ o.side = "sell" => Lots(TokenOf[o.env]) # {}

SwapLands(o) == /\ CanSend(o)
                /\ result' = "sent"
                /\ Leaves(o)
                /\ IF o.side = "buy" THEN BuyLands(o.env)
                                     ELSE SellLands(o.env, OfferedReduced(TokenOf[o.env]))
                /\ UNCHANGED <<afloat, doubted>>

SwapInDoubt(o) == /\ CanSend(o) /\ mode = "auto" /\ Cardinality(doubted) < MaxDoubts
                  /\ result' \in {"sent", "bounced"}
                  /\ Leaves(o)
                  /\ afloat' = afloat \cup {o} /\ doubted' = doubted \cup {o}
                  /\ UNCHANGED <<held, rests>>

NothingSwapped(o) ==
  /\ \/ mode = "notify_only" /\ result' = "surfaced"
     \/ mode = "auto" /\ result' = "bounced"
     \/ mode = "auto" /\ o.side = "sell" /\ result' = "unsellable"
  /\ UNCHANGED chainVars

Swap(o) == /\ o \in executing /\ stage = "swap"
           /\ stage' = "append"
           /\ SwapLands(o) \/ SwapInDoubt(o) \/ NothingSwapped(o)
           /\ UNCHANGED <<clientVars, qvars, resolved, journalVars, due, boundVars>>

(* The chain executes a message that was reported on before it landed.       *)
Lands(o) == /\ o \in afloat
            /\ afloat' = afloat \ {o}
            /\ IF o.side = "buy" THEN BuyLands(o.env) ELSE SellLands(o.env, TRUE)
            /\ UNCHANGED <<clientVars, qvars, submitVars, journalVars, due, sends, doubted, boundVars>>

(* The rest of submit: the order, bounced or not, is appended to the orders  *)
(* journal and its fill to the fills journal; either append may throw.  A    *)
(* row of the model is an order with its fill, which no recovery reads.      *)
JournalOrder(o) ==
  LET Written(fill) == Append(ordersJournal, [kind |-> o.side, lot |-> o.env, fill |-> fill])
  IN /\ Idle /\ o \in executing /\ stage = "append"
     /\ stage' = "return"
     /\ \/ DiskWorks /\ ordersJournal' = Written(result) /\ UNCHANGED result
        \/ DiskFails /\ ordersJournal' \in {ordersJournal, Written("none")} /\ result' = "threw"
     /\ UNCHANGED <<clientVars, qvars, resolved, positionsJournal, worldVars, mode, crashes>>

(* processNext resumes.  A sent buy becomes a position (an append that       *)
(* throws here is swallowed: the promise is already resolved); a bounced or  *)
(* failed buy may be tried again should its envelope come again.             *)
BuySettles(o) ==
  LET t == TokenOf[o.env]
  IN /\ Idle /\ o \in executing /\ stage = "return" /\ o.side = "buy"
     /\ OrderQ!SubmitSettles(o, IF result = "threw" THEN "rejected" ELSE "resolved")
     /\ stage' = "idle" /\ result' = "none"
     /\ IF result = "sent"
          THEN /\ positions' = [positions EXCEPT ![t] = Opened(o.env)]
               /\ \/ /\ DiskWorks
                     /\ positionsJournal' = Append(positionsJournal,
                                              [kind |-> "open", lot |-> o.env, reason |-> "none"])
                  \/ DiskFails /\ UNCHANGED positionsJournal
          ELSE UNCHANGED <<positions, positionsJournal, faults>>
     /\ processedEnvIds' = IF result \in {"bounced", "threw"} THEN processedEnvIds \ {o.env}
                                                             ELSE processedEnvIds
     /\ UNCHANGED <<feed, published, cursor, scan, monitor, resolved,
                    ordersJournal, worldVars, mode, crashes>>

SellSettles(o) ==
  /\ Idle /\ o \in executing /\ stage = "return" /\ o.side = "sell"
  /\ OrderQ!SubmitSettles(o, IF result = "threw" THEN "rejected" ELSE "resolved")
  /\ stage' = "idle" /\ result' = "none"
  /\ resolved' = [lot |-> o.env, result |-> result]
  /\ UNCHANGED <<clientVars, journalVars, worldVars, boundVars>>
-----------------------------------------------------------------------------
(* The task that offered the exit resumes with its fill, before any other    *)
(* callback runs.                                                            *)
ExitResumes(t) == /\ resolved # NoExit /\ TokenOf[resolved.lot] = t
                  /\ resolved' = NoExit
                  /\ TaskEnds(t)
                  /\ UNCHANGED <<feed, published, cursor, processedEnvIds, scan, stage, result,
                                 ordersJournal, worldVars, mode, crashes>>

ClosePositionSilently(t, reason) ==   \* slip: no notifySlotAvailable
  /\ positions' = [positions EXCEPT ![t] = NoPosition]
  /\ positionsJournal' = Append(positionsJournal,
                                [kind |-> "closed", lot |-> monitor[t].snap.lot, reason |-> reason])
  /\ UNCHANGED qvars

ClosePositionInJournalOnly(t, reason) ==   \* slip: the map entry is not deleted
  /\ UNCHANGED positions
  /\ positionsJournal' = Append(positionsJournal,
                                [kind |-> "closed", lot |-> monitor[t].snap.lot, reason |-> reason])
  /\ OrderQ!NotifySlotAvailable

ClosePosition(t, reason) ==
  /\ positions' = [positions EXCEPT ![t] = NoPosition]
  /\ positionsJournal' = Append(positionsJournal,
                                [kind |-> "closed", lot |-> monitor[t].snap.lot, reason |-> reason])
  /\ OrderQ!NotifySlotAvailable

(* Anything but a bounce closes the position, and so does a bounce that says *)
(* there is nothing to sell.  A failed append leaves the exit in flight.     *)
ExitCloses(t) ==
  /\ ExitResumes(t) /\ resolved.result \in {"sent", "surfaced", "unsellable"}
  /\ \/ DiskWorks /\ ClosePosition(t, resolved.result)
     \/ DiskFails /\ UNCHANGED <<positions, positionsJournal, qvars>>

ExitBouncesKeepingMark(t) ==   \* slip: activeExitOrderId is not cleared
  LET bounces == monitor[t].snap.bounces + 1
  IN /\ ExitResumes(t) /\ resolved.result = "bounced"
     /\ positions' = [positions EXCEPT ![t].bounces = IF bounces < BounceLimit THEN bounces ELSE @]
     /\ UNCHANGED <<positionsJournal, qvars, faults>>

ExitBouncesOnceMore(t) ==   \* slip: the limit is off by one
  LET bounces == monitor[t].snap.bounces + 1
  IN /\ ExitResumes(t) /\ resolved.result = "bounced"
     /\ IF bounces <= BounceLimit
          THEN /\ positions' = [positions EXCEPT ![t] = [monitor[t].snap EXCEPT !.bounces = bounces]]
               /\ UNCHANGED <<positionsJournal, qvars, faults>>
          ELSE DiskWorks /\ ClosePosition(t, "force_cleared")

ExitBouncesAsSettled(t) ==   \* slip: a bounce is taken for a sale
  /\ ExitResumes(t) /\ resolved.result = "bounced"
  /\ DiskWorks /\ ClosePosition(t, "sent")

(* A bounced exit is cleared to be tried again, or given up at the limit.    *)
ExitBounces(t) ==
  LET bounces == monitor[t].snap.bounces + 1
      retry   == [positions EXCEPT ![t] = [monitor[t].snap EXCEPT !.bounces = bounces]]
  IN /\ ExitResumes(t) /\ resolved.result = "bounced"
     /\ \/ /\ bounces < BounceLimit
           /\ positions' = retry
           /\ UNCHANGED <<positionsJournal, qvars, faults>>
        \/ /\ bounces >= BounceLimit
           /\ \/ DiskWorks /\ ClosePosition(t, "force_cleared")
              \/ DiskFails /\ positions' = retry /\ UNCHANGED <<positionsJournal, qvars>>

(* The sale threw: the catch logs it, and the position keeps its exit mark.  *)
ExitThrows(t) ==
  /\ ExitResumes(t) /\ resolved.result = "threw"
  /\ UNCHANGED <<positions, positionsJournal, qvars, faults>>
-----------------------------------------------------------------------------
(* shutdown(): no more scans, no more dispatches. *)
Shutdown == /\ Idle
            /\ OrderQ!Stop
            /\ UNCHANGED <<clientVars, submitVars, journalVars, worldVars, boundVars>>

(* The process dies anywhere and is started again.  The container's start    *)
(* script removes the feed; the executor started alone finds it in place.    *)
Restart ==
  /\ crashes < MaxCrashes
  /\ crashes' = crashes + 1
  /\ positions' = [t \in Tokens |-> Recovered(t)]
  /\ processedEnvIds' = EnvIdsInOrders
  /\ cursor' = 0
  /\ feed' \in {feed, <<>>}
  /\ scan' = "idle" /\ monitor' = [t \in Tokens |-> NoTask]
  /\ OrderQ!QueueRestart
  /\ stage' = "idle" /\ result' = "none" /\ resolved' = NoExit
  /\ mode' \in Modes
  /\ UNCHANGED <<published, journalVars, worldVars, faults>>
-----------------------------------------------------------------------------
Monitoring == \/ ScanBegins
              \/ IngestRow
              \/ MonitoringBegins
              \/ MonitoringEnds
              \/ \E t \in Tokens : \/ StepHolds(t) \/ StepEvictsDust(t) \/ StepExits(t)
                                   \/ ExitCloses(t) \/ ExitBounces(t) \/ ExitThrows(t)

MessageLands == \E o \in Order : Lands(o)

Submit == \E o \in Order : Swap(o) \/ JournalOrder(o) \/ BuySettles(o) \/ SellSettles(o)

Next == \/ \E e \in Envs : Publish(e)
        \/ \E t \in Tokens : TimeStopPasses(t)
        \/ Monitoring
        \/ Worker
        \/ Submit
        \/ MessageLands
        \/ Shutdown
        \/ Restart

(* The event loop runs what is ready, wallet calls return, and time passes.  *)
(* A scan's synchronous part disables the other callbacks for its duration   *)
(* only and again and again, so those need strong fairness: the loop visits  *)
(* its setImmediate and network queues between two timers.  The gates need   *)
(* not publish, and nobody need stop or kill the process.                    *)
Fairness == /\ WF_vars(ScanBegins)
            /\ WF_vars(IngestRow)
            /\ WF_vars(MonitoringBegins)
            /\ WF_vars(MonitoringEnds)
            /\ \A t \in Tokens : /\ WF_vars(TimeStopPasses(t))
                                 /\ WF_vars(StepHolds(t) \/ StepEvictsDust(t) \/ StepExits(t))
                                 /\ WF_vars(ExitCloses(t) \/ ExitBounces(t) \/ ExitThrows(t))
            /\ SF_vars(Worker)
            /\ SF_vars(Submit)

Spec     == Init /\ [][Next]_vars
FairSpec == Spec /\ Fairness
-----------------------------------------------------------------------------
TypeOK ==
  /\ feed \in Seq(Envs) /\ published \in [Envs -> 0..MaxCopies]
  /\ cursor \in 0..Len(feed) /\ processedEnvIds \subseteq Envs
  /\ positions \in [Tokens -> Position \cup {NoPosition}]
  /\ scan \in {"idle", "ingest", "monitor"}
  /\ monitor \in [Tokens -> Task \cup {NoTask}]
  /\ OrderQ!TypeOK
  /\ stage \in {"idle", "swap", "append", "return"} /\ result \in Result
  /\ resolved = NoExit \/ resolved \in [lot : Envs, result : Result]
  /\ ordersJournal \in Seq([kind : {"buy", "sell"}, lot : Envs, fill : Result])
  /\ {held, due, rests} \subseteq SUBSET Envs
  /\ afloat \subseteq doubted /\ doubted \subseteq Order

Pending == {"waiting", "executing"}

(* A position is never offered for sale twice at once, whatever is           *)
(* overwritten in the map while its exit is in flight (the activeExitOrderId *)
(* guard and the awaited scan).                                              *)
OneExitPerPosition ==
  \A o, p \in {s \in Sells : outcome[s] \in Pending} :
    TokenOf[o.env] = TokenOf[p.env] => o = p

(* The exit mark of a position is always being worked off: while its append  *)
(* calls succeed, no position is left marked with nobody to clear the mark.  *)
NoStuckExit ==
  faults = 0 => \A t \in Tracked : positions[t].exitInFlight => monitor[t].step = "selling"

(* While appends succeed, a buy that the orders journal shows filled, among  *)
(* the rows that are read back, is not sent again: not when its envelope is  *)
(* published twice, nor after a restart, nor when it waited.  (A fill whose  *)
(* process died before the append, or one behind the tail, is sent again.)   *)
Shows(rows, e)  == \E i \in 1..Len(rows) : rows[i] = [kind |-> "buy", lot |-> e, fill |-> "sent"]
FillJournaled(e) == Shows(ordersJournal, e)
FillInTail(e)    == Shows(readJournal(ordersJournal), e)
ToBeSent(o) == outcome[o] = "waiting" \/ (o \in executing /\ stage = "swap")
NoSecondBuy ==
  faults = 0 => \A o \in Order \ Sells : ToBeSent(o) => ~FillInTail(o.env)

(* Until the swap of an order of the token was reported other than the chain *)
(* bore out, a live executor tracks nothing the wallet does not hold, except *)
(* while the sale of it settles: not even when a token is bought again while *)
(* its first lot is being sold, and a task writes back the position it       *)
(* started from.                                                             *)
InDoubt(t) == \E o \in doubted : TokenOf[o.env] = t
TrackedIsHeld ==
  Modes = {"auto"} /\ faults = 0 /\ crashes = 0 =>
    \A t \in Tracked : \/ positions[t].lot \in held
                       \/ monitor[t].step = "selling"
                       \/ InDoubt(t)

(* The wallet holds nothing the executor has forgotten: while one process    *)
(* runs, each lot is tracked, or still on its way through submit, or was     *)
(* given up by a recorded decision.  A sale may leave a rest, but only of a  *)
(* surplus lot or after a bounced exit (the bounce keeps the reduced         *)
(* remainingQty of a partial take, and the retry closes the position).  This *)
(* needs reports the chain bears out, and the token to have been bought      *)
(* once: the map has one entry per token, so a second lot of a token and the *)
(* first can overwrite each other.                                           *)
GivenUp(l) == \E i \in 1..Len(positionsJournal) :
                /\ positionsJournal[i].lot = l
                /\ positionsJournal[i].reason \in {"unsellable", "surfaced", "force_cleared", "dust"}
ExitBounced(l) == \E i \in 1..Len(ordersJournal) :
                    ordersJournal[i] = [kind |-> "sell", lot |-> l, fill |-> "bounced"]
Settling(l) == \E o \in executing : o.env = l
OnlyLot(l)  == \A m \in Envs \ {l} : TokenOf[m] = TokenOf[l] => sends[m] = 0
HoldingsTracked ==
  crashes = 0 /\ faults = 0 =>
    \A l \in held : \/ ~OnlyLot(l) \/ InDoubt(TokenOf[l])
                    \/ positions[TokenOf[l]] # NoPosition /\ positions[TokenOf[l]].lot = l
                    \/ Settling(l)
                    \/ GivenUp(l)
                    \/ l \in rests /\ (l \in Surplus \/ ExitBounced(l))

(* The journals determine the position map: between two orders, a restart    *)
(* would recover exactly the positions the process tracks, provided every    *)
(* journaled order was filled, no token was bought twice, and the journals   *)
(* are read in full.  Without one of these provisos it does not hold: the    *)
(* recovery takes every buy for a fill and every sell, bounced or of an      *)
(* earlier lot, for the end of a position, and forgets what is behind the    *)
(* tail.                                                                     *)
AllFilled  == \A i \in 1..Len(ordersJournal) : ordersJournal[i].fill = "sent"
BoughtOnce == \A d, e \in Envs : sends[d] > 0 /\ sends[e] > 0 /\ TokenOf[d] = TokenOf[e] => d = e
JournalsFitTail == Len(ordersJournal) <= TailRows /\ Len(positionsJournal) <= TailRows
BetweenOrders == stage \in {"idle", "swap"} /\ resolved = NoExit
JournalsMatchMap ==
  BetweenOrders /\ faults = 0 /\ AllFilled /\ BoughtOnce /\ JournalsFitTail =>
    \A t \in Tokens : IF positions[t] = NoPosition
                        THEN Recovered(t) = NoPosition
                        ELSE Recovered(t) = Opened(positions[t].lot)

(* The comment over the second half of the recovery: a position found in the *)
(* orders journal is that of a filled buy.                                   *)
ReconstructsFilledBuys ==
  \A t \in Tracked : FillJournaled(positions[t].lot)

(* A buy that waits ends, because every position that fills the portfolio    *)
(* is closed in the end, by its time-stop and three bounces at worst.        *)
BuysEnd ==
  [](faults = 0) => \A o \in Order \ Sells :
                      outcome[o] = "waiting" ~> OrderQ!Ended(o)
PositionsClose ==
  [](faults = 0) => \A t \in Tokens : t \in Tracked ~> t \notin Tracked \/ ~isRunning

(* The executor uses the queue as OrderQueue describes its clients. *)
QueueSpec == OrderQ!Spec
=============================================================================
