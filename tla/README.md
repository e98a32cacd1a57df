# openclaw-ton-agent in TLA+

Specifications, model-checking configurations and proofs for the trading agent
in `packages/`. Paths below are relative to `packages/` unless they say
otherwise.

## The system

Four processes share one data directory and talk through append-only journals
(`fly.toml`, `scripts/start-unified.sh`):

    scanner --signals-*.ndjson--> risk gates --gated-*.ndjson--> executor --> TON
                                      ^                             |
                                      +------positions-*.ndjson-----+
                                           orders-, fills-*.ndjson --> API

| component | state | operations | interacts by | hard because |
|---|---|---|---|---|
| order queue (`executor/src/order-queue.ts`) | two queues, busy flag, running flag, callbacks pending on the event loop | enqueue, notifySlotAvailable, stop, processNext | promises and callbacks of the executor | many callbacks, one worker; wakeups can be lost; capacity is tested long before it is used |
| continuous executor (`executor/src/continuous.ts`, `modes.ts`) | positions map, processed envelope ids and lines, three journals | ingest the feed, step positions, sell, recover | feed file, queue, wallet | map entries are read before an await and written after it; crashes between swap, append and map |
| exit manager (`exit-manager/src`) | a position: water marks, stops, partial takes, lifecycle | stepPosition, state machine, reconcile | called per tick; reconciler over a provider | priority of eight exit rules on one tick; pending settlements |
| live wallet (`executor/src/acton/acton-wallet.ts`, `simulation-wallet.ts`) | process-wide lock, chain seqno | swap: preflight, read seqno, send with retries, poll | TON RPC | lost answers, timeouts taken for success, failed reads taken for zero |
| DEX router (`executor/src/acton/router.ts`, `verify.ts`, `locked-wallet.ts`, `gas-guard.ts`) | dead-pool cache, one lock per tier | quote, executeSwap: guard, baseline, locked send, balance proof | TON RPC; called by `dex` and `orchestration` | a swap is proved by a balance that other swaps move too; guards that do not hold the lock |
| risk gates (`risk-gates/src`) | line cursor, processed ids, cooldowns | evaluate signals, append envelopes | signals and positions journals | stale positions, memory lost at restart, the journal's 200-row tail |
| resilience (`shared/src/resilience.ts`) | breaker state, counters, last failure time | execute, reset | wraps the executor's price requests | concurrent calls, late answers |
| journals (`shared/src/journal.ts`) | a file | append, rotate, tail, readJournal | every process | appends that throw; readers see the last 200 rows |
| scanner (`scanner/src`) | seen-token cache, queue of TONAPI slots, health | list, audit, score, publish | signals journal, signal bus, TONAPI, STON.fi | ticks overlap; slots that are freed and not given on; a failing append ends a tick |
| agents, orchestration (`agents/src`, `orchestration/src`) | bus handlers, tier coordinator | send, dispatch, gate, execute | Redis, in-process calls | delivery twice or not at all |
| API, storage (`api/src`, `storage/src`) | SQLite tables, journals, sockets | insert a decision, read | HTTP | insert, append and publish are three steps |
| market intelligence, backtest, dex, wallet, security libraries | none of their own to speak of | numeric or remote calls | function calls | out of scope: numbers, network, cryptography |

What makes each correct is listed with the lines at which it can go wrong under
`hazards` in `PROJECT.json`.

## What is modelled

### Subsequences

`Array.filter`, as a function on indices instead of `SelectSeq`: the place of an
element in the result is the number of indices kept before it (`Rank`). `SelectSeq`
is recursive, and nothing about it can be proved without induction.

### OrderService, OrderQueue

`OrderService` says what the executor may rely on when it hands an order over:
orders are executed one at a time and at most once, exits before buys, buys only
into a free slot, and each that started ends with one outcome.

`OrderQueue` is `OrderQueueManager`. JavaScript runs a callback to its first
await, so a step is the code between two awaits: `enqueue`, `stop`,
`notifySlotAvailable` and a `processNext` callback up to `await submit` are one
action each, and so is what follows the await (`SubmitSettles`: resolve or
reject, `onOrderExecuted`, the `finally`). `setImmediate` callbacks carry no
data, so the model counts them (`wakeups`); this is what makes lost wakeups
visible. `openCount` stands for `openPositionsMap.size`, which the queue reads
through `canExecuteBuy`. A minimal client (the actions from `ClientEnqueues` to
`Restart`) closes the module.

### ContinuousExecutor

`runContinuousExecutor` with `Executor.submit`, over an instance of `OrderQueue`
in which `openCount` is the size of the positions map.

| model | code |
|---|---|
| `feed`, `cursor`, `processedEnvIds` | `gated-*.ndjson`, `processedLines`, `processedEnvIds` |
| `positions[t]` (lot, exit mark, bounces, `taken`) | `openPositionsMap` entry, `activeExitOrderId`, `bounceCount`; `taken`: a partial take has reduced `remainingQty` |
| `scan`, `monitor[t]` | where `scanAndProcess` and its per-position tasks are; `snap` is the position a task read before its price request, then `step.pos`; `whole`: that position had `remainingQty = qty`, which is what its sale asks for (line 408) |
| `stage`, `result` | where `Executor.submit` is: in `wallet.swap`, before the appends, returned |
| `resolved` | the exit whose promise settled and whose task has not run on yet (a microtask: nothing else runs before it) |
| `ordersJournal`, `positionsJournal` | what the recovery reads |
| `held`, `due`, `afloat` | the wallet's lots, the lots past their time-stop, the orders whose message may still land: the world, not the program |
| `sends`, `rests`, `doubted` | history: buys handed to the chain per envelope; lots a sale left a rest of; orders whose report the chain had not borne out |

A *lot* is what one filled buy brought in, named by the envelope that asked for
it; the map has one entry per token, so two lots of a token compete for it.

`Recovered(t)` is the code at the top of `runContinuousExecutor` evaluated on the
journals, and `Restart` applies it. The feed may be gone after a restart
(`scripts/start-unified.sh` removes it) or still be there (the executor started
alone). `Shutdown` is the signal handler.

Abstractions, each on the side of more behaviour unless it says otherwise:

- `stepPosition` may exit at any tick, in part or in full, and must exit in full
  once the time-stop has passed; prices and stops are not in the state
  (`ExitMonitor` has them). The first exit of a position offers all of it, a
  partial one too, and the position is closed when that is reported done. A
  partial one that bounces leaves the reduced `remainingQty` behind
  (`continuous.ts:449`), which is all the retry offers: `SellLands` then may leave
  a rest in the wallet. So it may of a `Surplus` lot, one that brought more jettons
  than `amountTon / entryTon` or whose token has more than nine decimals, and of any
  sale that lands late.
- The live wallet answers `sent`, `bounced` or `unsellable` as it likes. A message
  that was reported `sent` when the poll ran out may land later or never, and one
  reported `bounced` after its answers were lost may land (`SwapInDoubt`, `Lands`);
  `MaxDoubts` bounds how many, and `WalletSend` has how they come about.
- The confirm-first rule (`order-builder.ts:60`) only makes orders bounce.
- The header of `order-queue.ts` (line 7) says that the monitoring loop never
  waits for a broadcast. It does: a position's task awaits its sale
  (`continuous.ts:414`) and the scan awaits the tasks (line 328). The model
  follows the code: no scan begins while an exit is pending.
- The recovery and the envelope ids are read from the last `TailRows` rows of
  their journals, as `readJournal` returns them. The feed is read whole here, which
  is less than the code: what the tail does to the cursors is in `GatedFeed`.
- A recovered position and a bought one are the same `Opened` record: the code takes
  the row that was appended when the position was opened, or computes its levels
  from the journaled order as it did then.
- Rows that fail validation, or carry no usable gate or quote, are skipped like
  dust envelopes and need no case of their own.
- `continuous.ts:225-227` assigns to a `const` when a health port is given, which
  throws a `TypeError` at start; the model is of a process started without it.

### GatedFeed

The loop of `runContinuousRiskGates` with `evaluateGates`, between the signals
journal and the gated journal, and `processFile` of the executor behind it. All
four files are read through `readJournal`, which returns a tail; here it decides
which rows the loops ever see.

| model | code |
|---|---|
| `signals`, `gated`, `orders`, `positions` | the four journals; of a row only its id and what is decided on is kept |
| `lastProcessedLine`, `newRows` | the gates' cursor and the rows of this poll still to visit |
| `processedSignalIds`, `cooldowns`, `killSwitch` | the gates' memory; the ids are rebuilt at a start, the cooldowns are not |
| `processedLines`, `processedEnvIds` | the executor's cursor and ids, the latter rebuilt from its buy orders |
| `gatedBefore` | history: how much of the gated journal was there when the gates started |

The loop has no await between rows, but the other processes write while it runs,
and it may die, so a step is one row. In `EvaluateRow` cursor, id and cooldown
change also when the append throws, as in the code; the `catch` is outside the
loop, so the rest of the poll is dropped until the next one.

Abstractions: the gates that are arithmetic on the envelope (score, quote, R:R,
size) are the constant set `Sound`. The loop passes neither `portfolioRisk` nor a
correlation group, so in `evaluateGates` the open positions decide nothing and do
not occur in `Verdict`; `ActiveTokens` is what the loop computes from them, and
serves the property that a document states of it. The executor's buys fill at
once and exits come at any time; `ContinuousExecutor` has the details.

### WalletSend

`ActonWallet.swap` and `sendSwapDirect` against the wallet contract, behind
`SimulationWallet` when `Simulated` (its preflight and dry run turn an order
away, or let it pass where `FailOpen` and `LogOnly` say so). A step is the code
between two remote calls. `tail`, `prev` and `released` are the promise
chain of `WalletMutex`; the locals `startSeqno` and `attempt` belong to a call;
`chainSeqno`, `balance`, `sent` and `landed` are the chain. A message is the call
it was made by and the seqno it carries: the attempts of one call carry one
seqno, so they are one message, and that is what makes a retry harmless.

Each remote answer may be wrong in the way the code allows: a failed `getSeqno`
counts as 0, a failed `getBalance` as no funds, a send may throw with its message
on its way, the poll may run out, and messages land late or never. `doubt` is a
history variable, set by each of these; it says where replies can be trusted.

Abstractions: amounts are in hundredths of a TON, and the gas constants are
those of the code. What is sent is the value checked in `Need`, except that a
DeDust message is worth more than the check (0.35 for a sell that is checked
for 0.15, amount + 0.25 for a buy): `ValueOfDedust` keeps that. The search for a
pool is a choice; the cells of the payload and the choice between the v4 and v5
contracts are not in the state. `Lands` and `Expires` are the wallet contract.

### SwapRouter

`getSwapQuote` and `executeSwap` of `acton/router.ts` with the four swap
functions, `sendTransferLocked`, the gas guards, the balance proofs of
`verify.ts` and the dead-pool cache; in front of it the callers of the
repository: `packages/dex`, `TierCoordinator.executeForTier` and `executionNode`.

| model | code |
|---|---|
| `at[c]` | the await a call is at |
| `before`, `start`, `reads`, `booked` | the balance it will be measured against, its start seqno, the balance reads it has left, the `amountTokens` it reports |
| `queue[t]` | `locks[tier]`: the promise chain of a tier's lock, the holder first |
| `rest[d]` | `deadPoolCache` |
| `seqno`, `ton`, `jettons`, `mempool`, `swapping` | the chain: wallet, messages that left, swaps under way |
| `outdated`, `moved` | history: what else happened to the wallet since a call read it |

The four swap functions take the same steps and differ in the value of their
message and in whether an address that cannot be resolved ends them; `Route`
says which. All calls share one wallet and one jetton, and a lock belongs to a
tier, so calls of different tiers race for a seqno, as they do in the code.
A request that comes through the coordinator never gets a wallet
(`coordinator.ts:104`), one through `executionNode` is refused by
`validateIngested` (`nodes/execution.ts:77`), and a sell through `packages/dex`
lacks the amount: these end where the code ends them. Requests `via "caller"`
stand for the users of the exported functions.

Abstractions: TON in hundredths, every swap moves `Lot` jettons (what a swap
delivers is the pool's business), and quotes are any of `Outs`; payload cells and
command lines are not in the state.

### FifoSemaphore, Scanner

`Scanner` is `runScanTick` and `startScanner` with the seen cache, the TONAPI
client and its slots, the audit, the score and the post to the signal bus.

| model | code |
|---|---|
| `phase`, `rest`, `todo` | where a tick is, and its views in later batches and in this one |
| `seen` | `SeenCache`, oldest first, with the age of each entry |
| `queue`, `inflight`, `gap`, `timers` | `tonapi.ts`: waiting calls, slots in use, `minGapMs` not yet over, pending `tryDrain` timers |
| `fetching`, `tries` | calls in a slot, and their attempts |
| `posting` | envelopes that are posted and not yet journaled |
| `visited`, `evicted` | history: when a jetton was last audited, whether the cache had to drop it |

`setInterval` starts a tick whether or not the last one has ended, hence
`Ticks`. The visits of one batch have no await between them: they are one step
each, and `~Visiting` keeps everything but the clock out of between.
`FifoSemaphore` is the abstract specification of the slots: never more holders
than permits, first come first served, nobody waits for ever beside a free
permit. `SlotsSpec` says `Scanner` implements it, including its fairness.

Abstractions: how answers are parsed, the fixture source, the sniper client and
health are left out (`tonapi-source.ts` declares STON.fi breakers and does not
use them). Liquidity and price are one number: a pool's worth is in TON at the
cached price. `tonapi-source.ts:152` takes a balance in nanotons for TON where
STON.fi names no LP price; `Liquidity` keeps that, with a `Nano` of 1000.

### ExitMonitor

The other side of the exits `ContinuousExecutor` leaves open: a scan asks
STON.fi and then DeDust for the price of every position, both through a
`CircuitBreaker` that the positions share, falls back to the entry price, steps
the position with every level and exit rule of mode `snipe`, and sells.

| model | code |
|---|---|
| `pos[p]` | the map entry: highest price, chandelier stop, trend and its flip level, break-even, partial takes, `bounceCount` |
| `task[p]` | where the task of a position is in this scan; `marked` keeps `activeExitOrderId` for good |
| `breaker[x]` | `stonFiBreaker`, `dedustBreaker`: state, counters, whether the reset timeout has still to pass |
| `rated` | the cached TON price is less than a minute old |
| `due` | positions past their time-stop |
| `blind`, `held`, `high` | history: exits decided on the fallback, the price a position was last held at, the highest it was stepped with |

A task is read-price, step, sell, with an await in each, so the tasks of two
positions interleave at the breaker: a call made before the breaker opened may
return after it has half-opened. Prices are thousandths of the entry price, and
what an exchange answers is any quote. A failure count past the threshold is not
counted further: only "at least" is ever asked of it.

Left out: ladder exits, the swing low and the other modes, which the executor
opens no position with; dust; a second buy of a token (`ContinuousExecutor`); and
the fixed prices `continuous.ts` has for tests.

## Model checking

An `MC` module for each component gives the constants their values. The
operators marked `slip` in the component modules are mutated forms of the
definition after them, with which a run must fail; no behaviour uses them.

| run | instance | shows |
|---|---|---|
| `order_queue` | 3 buys, 2 exits, 1 slot, up to 2 recovered positions | `CapacityRespected`, `QueuesHoldWaiting`, `NoLostWakeup`, `OrdersEnd`, and that the queue implements `OrderService` |
| `executor` | live mode, 2 envelopes of 2 tokens, 1 slot, 2 bounces allowed, no crash, reports that are true | `BuysEnd`, `PositionsClose`, and that the executor is a client as `OrderQueue` describes it (`QueueSpec`) |
| `executor_recovery` | live or notify-only from one restart to the next, 1 crash, 1 failing append, each envelope published twice, one inherited dust lot, a tail of 2 rows | `NoStuckExit`, `JournalsMatchMap`, `NoSecondBuy` |
| `executor_rebuy` | live mode, 2 envelopes of 1 token, 2 slots, one lot a surplus, one swap that lands late or never | `OneExitPerPosition`, `TrackedIsHeld` while a second buy races the exit of the first lot; `HoldingsTracked` with rests and doubtful reports |
| `recovery_unfilled` | 1 envelope, 1 crash | violated: a bounced buy is recovered as a position |
| `gated_feed` | 3 signals of 2 tokens, tail of 2 rows, 1 foreign row, 2 instants, 1 restart, 1 failing append | `GatedOnce`, `CooldownKept`, `NothingPassedOver`, `BoughtOnce`, and that signals are evaluated while their journal fits the tail |
| `gated_tail` | the same signals, tail of 2, no restarts or faults | violated: past the tail's length no signal is evaluated any more |
| `gated_open` | the same signals, tail of 3, 2 instants | violated: a token passes again while it is held |
| `wallet_send` | 2 STON.fi buys and 1 DeDust sell at once, simulated and failing open, 2 attempts, 1 deposit, 1 foreign spend, 1 restart | `OneSender`, `SwapsOnce`, `ReserveKept`, `RepliesTrue`, `LockPassedOn` |
| `swap_router` | any 2 of 8 calls: 3 buys and 2 sells by callers over 2 DEXes and 3 tiers, 1 through each of `dex`, coordinator and node; both networks, both clients, 1 fault | `BookingsTrue`, `ReserveKept`, `CallsReturn` |
| `scanner` | 2 overlapping ticks, 3 jettons, batches of 2, a cache of 2, 2 slots, 2 attempts, 1 failing append | `OncePerWindow`, `TradeableIsNotMintable`, `SlotsSpec`, `Reevaluated` |
| `exit_monitor` | 2 positions, one at 4 prices from below its stop to above a take, one at a constant price; 2 bounces, breakers of 2 failures; restarts | `StopsHold`, `BlindSales`, `BreakersRecover` |

Deadlock is not checked in the executor's runs: after `Shutdown` the process
stops. In the runs of `GatedFeed`, `WalletSend` and `SwapRouter` the bounds end a
behaviour: all signals evaluated, all calls returned. `Scanner` and `ExitMonitor`
never stop, and what their liveness properties say is more than no deadlock. It
is checked in `order_queue`.

Bounds. One slot and two recovered positions reach every capacity case: below,
at and above the limit. Two exits and three buys let one order execute while both
queues hold another and an exit arrives late. `BounceLimit` is 2 instead of 3:
one bounce that is retried and one that gives up. `MaxIssues` bounds the orders
made for one envelope and side; in the liveness run it is never exhausted (two
bounces end a position, an envelope is bought once), in the recovery run it cuts
behaviours off after the second order. `MaxCopies`, `MaxCrashes` and `MaxFaults`
bound the environment. `TailRows` is 2 instead of 200: three signals and a row
of another kind exceed it, and so do three verdicts and a buy with its exit. In
`ContinuousExecutor` it is 2 as well where there is a crash to read the journals
again: the inherited lot, a buy and its exit are three rows. The other runs of it
never read a journal back, or need one row of it. One doubtful swap (`MaxDoubts`) is a
buy that never comes, a buy that comes late, or a sale of either kind; a second
one adds nothing to a property that excepts the token of the first. A
`Cooldown` of one tick and two instants have a verdict during the cooldown and
one after it. In `WalletSend` the wallet can pay for one buy, and for two after
the deposit, so that an earlier message that lands late competes with a later
balance check; two attempts have one that is repeated and one that is the last.
In `SwapRouter` two calls are what a lock, a race for a seqno and a balance that
somebody else moves take, and the wallet can pay for one buy, or for a buy and a
sell by using up the reserve; `DeadTtl` is one tick, a verification reads
twice instead of five times. In `Scanner` two ticks overlap; three jettons are
one more than a batch, the cache and the slots take, so that a batch is left
over, an entry is pushed out and a call waits. `Ttl` is one tick of the clock: an
entry is fresh or not. `MaxTimers` is where timers are no longer counted: two
pending ones are as good as more, as each release sets one of its own. In
`ExitMonitor` the prices of the first position reach each rule but the time-stop,
which comes by itself; the second position has the breakers fail under the
first. `Threshold` is 2 instead of 5. `HalfOpenMaxCalls` is the code's 3 and has
no effect at any value: only a success resets the failures, so that the first
failure of a half-open breaker opens it by the threshold already.

Fairness. The event loop runs every callback it holds and wallet calls return,
because each wait inside them is bounded (`acton-wallet.ts:553-588`), so the
queue's `Worker` and the stages of submit are fair. In `ContinuousExecutor` they
are strongly fair: the synchronous part of a scan disables them again and again,
and the loop visits its other phases between two timers. A position's time-stop
passes in the end. Nothing is assumed of the gates, of `Shutdown` or of `Restart`.
In `GatedFeed` the gates (one action: their steps exclude each other) and the
executor's reader are weakly fair: both are timers that are never cleared while
the process runs. Nothing is assumed of the scanner, the clock, exits and restarts.
`WalletSend` has no liveness property; `LockPassedOn` is the safety part of "no
caller waits for ever". In `SwapRouter` it is weakly fair that some call takes a
step while one can: its reads time out, the poll ends after 45 seconds and
`execSync` after 120, and a call takes finitely many steps. Nothing is assumed of
the chain. In `Scanner` requests and posts time out and timers fire, the interval
is never cleared, and time passes: some step of the work under way, the start of
a tick and the clock are weakly fair. In `ExitMonitor`
the same goes for the tasks of a scan, the poll timer and the breakers' clocks;
nothing is assumed of prices, exchanges, buys and restarts.
The executor's liveness is stated for processes whose appends succeed: the code's
answer to a failed append is to leave the exit mark in place
(`continuous.ts:469`).

Where a property has a condition, the code violates it without: `HoldingsTracked`
needs one process, the token to have been bought once and no swap of it in doubt,
and excepts what the code really forgets: the rest of a surplus lot, and the rest
that the retry of a bounced partial exit leaves behind. `TrackedIsHeld` excepts
tokens with a swap in doubt: a buy that is reported `sent` and never lands is
tracked. `JournalsMatchMap` needs that every journaled
order filled, that tokens were bought once and that the journals fit the tail;
`NoSecondBuy` that appends succeed (a fills append that throws after the orders
append makes the code buy again), and it is about fills within the tail: one
behind it is bought again after a restart. `CapacityRespected` is about steps, as a
restart may find more positions than the limit: no other step adds one beyond it.
`NothingPassedOver` needs appends that succeed and a signals journal within the
tail, `CooldownKept` one process of the gates,
`RepliesTrue` that nothing was in doubt and that the message is worth no more
than was checked, and `ReserveKept` leaves DeDust out for the same reason.
`GatedOnce` and `BoughtOnce` say how far apart two verdicts on a signal, or two
buys of an envelope, must be: more than the tail from which a restart rebuilds the
ids. Closer ones never happen; farther ones can, once a journal is longer than
its tail. `BookingsTrue` is about calls with a baseline: a buy whose baseline could not be
read books the whole balance, and a sell with an empty one passes as done.
`ReserveKept` of `SwapRouter` needs that no other message was paid for since the
guard read the balance, because the guard is outside the lock and no seqno has
been read yet. `OncePerWindow` excepts jettons the full cache dropped. `BlindSales`
bounds what the fallback price can do, and does not exclude it: a position that
was ahead, is past its time-stop or whose exit bounced is sold on it. `StopsHold`
is told from the prices of one process, as a restart forgets the highest.

## Proofs

Every invariant and every action property that a run checks is proved by TLAPS
for all values of the constants; liveness is not. Each proof module has one
inductive invariant, shown to hold initially and to be preserved action by action,
and theorems that are conjuncts or consequences of it. A proof assumes what its
component's `ASSUME` says: the types of the constants, limits that are positive,
finite sets where something is counted, and in `Scanner` that a page of an API
names a jetton once (a visit is named by its tick and jetton) and that `Listing`
is no jetton. In `ContinuousExecutor`, tokens and inherited lots are finite and
no two inherited lots are of one token, since the map an earlier process left has
one entry per token. TLC checks these assumptions on every run.

### OrderQueueProofs

`TypeCorrect`, `OneSwapAtATime`, `SlotKept`, `PortfolioBounded`, `WorkerWakes`,
`PromisesKept`: each safety property of the queue, for every value of the constants.
Of these the run checks `CapacityRespected`, `NoLostWakeup` and `QueuesHoldWaiting`;
`TypeOK`, `OneAtATime` and `BuyKeepsItsSlot` are proved only: the run checks through
`ServiceSpec` what they are for. `Refinement`: `Spec => Service!Spec`.

The inductive invariant `IInv` is the conjunction of the invariants. The capacity
bound does not follow from a step alone: the slot is tested when the buy is dispatched and used
when its submit returns, so one needs `BuyKeepsItsSlot` in between, which survives
the end of other orders only because of `OneAtATime`, and needs
`QueuedByPriority` to know that what leaves the high queue takes no slot.
`NoLostWakeup` is inductive with types alone. The refinement uses
`QueuesHoldWaiting` to see that the head of a queue is a waiting order, and that
with an empty high queue no exit waits.

### ContinuousExecutorProofs

`ExecutorInvariant` is `Spec => []ExecutorInv`, and the rest follows from it:
`ExecutorTypes`, `OneExitAtATime`, `MarksAreWorkedOff`, `FillsAreNotRepeated`,
`TrackedAreHeld`, `HoldingsAreTracked`, `JournalsTellTheMap`. The parts of
`ExecutorInv`, each resting on those before it:

- `QueueInv`: the queues hold waiting orders, each once; the busy flag, the stage
  of submit and the one executing order agree; when an exit has settled, nothing
  executes until its task has run on.
- `RestTypes` and `TasksInv`: a task of a scan has its position in the map, in
  which nobody else deletes it; an exit that is pending has its task, which waits
  for it with the same lot. This is what `OneExitPerPosition` needs: the mark in
  the map can be overwritten by a second buy of the token, the task cannot, and no
  scan begins before the tasks are done.
- `BuysInv`: an envelope whose buy is pending, or whose fill is in the tail of the
  orders journal, is in `processedEnvIds`, and a buy that has not been filled has no
  such row. The journal only grows, so what leaves the tail makes the second part
  weaker and never false; a restart rebuilds the ids from the tail as it then is.
- `LotsInv`: where no swap of the token is in doubt, a lot in the wallet is tracked,
  in submit, given up, or the rest of a sale, and the sale under way is not yet
  answered; what the map and the tasks name has been sent. The two halves need each
  other: a task writes back the position it started from, which must still be in the
  wallet.
- `TakesInv` and `RestsInv`: a position that a partial take has reduced is marked, or
  its exit has bounced, so that a reduced quantity is offered only after a bounce;
  hence the condition on `rests` in `HoldingsTracked`. A message that lands late may
  leave a rest of any lot, but its token is in doubt by then.
- `JournalsInv`: under the provisos of `JournalsMatchMap`, a token that is tracked
  has a buy row and no closing row, and a sell row only while submit or the settled
  exit is about it; one that is not tracked is sold, closed, or its buy is just
  returning. That no buy row is written twice comes from `BuysInv`: with one lot
  per token, every row filled and the journals within the tail, a second row would be
  a fill already journaled. `JournalsFitTail` can only become false, as the journals
  grow (`RegularBefore`), so every step may assume it of the state before.

`ExecutorUsesQueue` is `Spec /\ [](faults = 0) => QueueSpec`: behaviours whose
appends succeed are behaviours of `OrderQueue`, as an append that throws while a
dust position is evicted frees a slot without a wakeup. The theorems of
`OrderQueueProofs` are therefore about the executor's queue too; tlapm 1.4.5 does
not instantiate theorems, so that last step is not machine-checked.

### GatedFeedProofs

`CooldownHolds` needs `EntryCoversPasses`, which ties the verdicts in the journal
to the map they are decided by: a token's entry is at least a cooldown after each
verdict of this process that passed it. It survives a failed append because the
entry is set first; after a restart it holds of no verdict, which is why
`CooldownKept` starts at `gatedBefore`.

`FeedTypesHold`, `VerdictsOnce`, `NoSignalPassedOver` and `EnvelopesBoughtOnce`
rest on `FeedInv`: the id sets of both loops cover the tails of the journals they
write (`TailKnown`, `BuysKnown`), and while the signals fit the tail the rows a
poll still has to visit are those behind the cursor (`PollFollowsCursor`) and
known signals are gated (`KnownIsGated`).

### WalletSendProofs

- `SwapsAtMostOnce`: `Stamped` says that every message carries the seqno its call
  read, which the chain has reached, and that a call has no message before it read
  one. Two messages of a call are then one, and `Lands` moves the seqno past it.
- `ReserveIsKept`: `FundsCover` says that a call past its balance check, and a
  message on its way, is covered by the balance *as long as its seqno is still the
  wallet's*. It holds because the seqno is read before the balance: whatever spends
  between the check and the landing moves the seqno and thereby voids the message.
  The lock is not needed for it.
- `SendTypes`, `OneSenderAtATime`, `LockIsPassedOn`: `LockInv` says that the calls
  that have not released the lock are a sequence in which each waits for the one
  before it and the last is `tail`; only the first can be past the lock. The types
  need it: attempts are counted by the one call that sends.
- `RepliesAreTrue`: while nothing is in doubt, only the call with the lock has a
  message on its way, so a seqno that moved is its own doing.

### SwapRouterProofs

`RouterTypes`, `ReserveIsKept`, `BookingsAreTrue` rest on `RouterInv`: a call pays
for one message and starts one swap, which delivers once (`PaidOnce`); the gas
guard of a call still covers it unless another message was paid for since
(`FundsCover`, with `outdated` in the place of the seqno of `WalletSend`, since
the guard is outside the lock); and a balance differs from a call's baseline by
exactly the swaps that moved since (`Measured`), which is a sum over sets of calls.

### ScannerProofs

`ScannerTypes`, `MintableIsNotTradeable`, `AuditedOncePerWindow` and `SlotsSafety`
rest on `ScannerInv`: slots in use are counted and nobody asks twice
(`SlotsInv`), what a tick still has to visit is disjoint from what it has asked
for (`TicksInv`), and the cache has one entry for each jetton visited within the
window and not pushed out (`SeenInv`). `SlotsSafety` is the safety part of
`SlotsSpec`, the initial states and the steps of `FifoSemaphore`; its fairness is
left to the run.

### ExitMonitorProofs

`MonitorTypes`, `NoPositionHeldThroughStops`, `FallbackSellsNoneAnew`: the
trailing stop, the break-even stop and the flip level follow from the highest
price a position was stepped with (`LevelsFollow`), which is what `high` says
(`LevelsTrue`). `HalfOpenLimitIdle` proves what the runs led to suspect: a breaker
that is not closed has its failures at the threshold, so the limit of half-open
probes in `resilience.ts` never decides anything.

### SubsequencesProofs

What filtering does to a list, `SubsequenceFacts`, for any list and indices: every
kept element occurs, and in order. Induction being out of reach, the argument is
about finite sets: ranks grow with the index and stay below the cardinality, so
they are an injection between sets of equal size and hence onto.

### Only model-checked

Liveness (`OrdersEnd`, `BuysEnd`, `PositionsClose`, `SignalsEvaluated`,
`CallsReturn`, `Reevaluated`, `BreakersRecover`, and the fairness in `SlotsSpec`),
which tlapm 1.4.5 cannot prove for lack of `ENABLED`; that `QueueSpec` holds of
behaviours with faults is not claimed; and the three findings, which are
counterexamples.

## Plan

The modules are written, and their invariants and action properties proved. Left:

1. `ContinuousExecutor`: that the executor implements `OrderService` directly, which
   takes the invariants of `OrderQueueProofs` restated for its instance.
2. Executor and wallet in one state: `SwapInDoubt` composed with the seqno and the
   poll of `WalletSend`, to say which replies a token in doubt can have had.

## Not modelled

- The settlement reconciler and the lifecycle state machine of `exit-manager`: no
  process calls them.
- Agents and their bus: `start-unified.sh` starts none, and the handlers log. The
  bus publishes direct messages on a channel nobody subscribes to
  (`bus.ts:25`), which no other part depends on.
- API and storage: inserts, appends and reads behind HTTP. A decision's insert,
  append and publication are three steps without a retry, and no process reads
  one to check it against another.
- `withRetry`, `withTimeout`, `executeWithResilience` and `reset` of
  `resilience.ts`: only tests call them. The systemic breaker and the sniper gates
  of `risk-gates`: not called by the trading processes.
- Market intelligence, backtests: numbers over API answers and files. Wallet and
  security libraries: key handling and remote calls.
