----------------------------- MODULE GatedFeed -----------------------------
(***************************************************************************)
(* The feed from the scanner to the executor: the risk gates' loop         *)
(* (packages/risk-gates/src/continuous.ts with evaluateGates) between the  *)
(* signals journal it reads and the gated journal it writes, and the       *)
(* executor's reading of the latter, over journals of which readJournal    *)
(* (packages/shared/src/journal.ts) returns a tail only.                   *)
(*                                                                         *)
(* Three processes share nothing but files.  The gates evaluate row after  *)
(* row without an await, so a step of the model is one row: the other      *)
(* processes, a crash and the clock come between rows.  ContinuousExecutor *)
(* has the executor's queue and wallet; here its orders fill at once.      *)
(***************************************************************************)
EXTENDS Integers, SequencesExt, Subsequences

CONSTANTS Signals,      \* ids of the envelopes the scanner publishes
          Tokens,       \* jetton addresses
          TokenOf,      \* the token a signal is about
          Sound,        \* signals that score, quote, R:R and size let through
          TailRows,     \* readJournal's max: 200
          Cooldown,     \* GATE_CONFIG.cooldownMs
          MaxNoise,     \* bound: rows of the scanner that are no envelopes
          MaxTime,      \* bound: ticks of the clock
          MaxCrashes,   \* bound: restarts of either process
          MaxFaults     \* bound: appends that throw

ASSUME GatedFeedAssumption ==
  /\ TokenOf \in [Signals -> Tokens] /\ Sound \subseteq Signals
  /\ TailRows \in Nat \ {0} /\ Cooldown \in Nat \ {0}
  /\ {MaxNoise, MaxTime, MaxCrashes, MaxFaults} \subseteq Nat

VARIABLES
  now,                         \* Date.now()
  signals,                     \* signals-*.ndjson: ids and other rows
  gated,                       \* gated-*.ndjson: envelopes with their meta.gate
  orders, positions,           \* orders-*.ndjson, positions-*.ndjson
  lastProcessedLine,           \* the gates' cursor
  newRows,                     \* rows of the current poll, not yet visited
  processedSignalIds, cooldowns,
  killSwitch,                  \* KILL_SWITCH_FLIPPED of this gates process
  gatedBefore,                 \* history: rows of gated when the gates process started
  processedLines, processedEnvIds,   \* the executor's cursor and envelope ids
  crashes, faults

gateVars     == <<lastProcessedLine, newRows, processedSignalIds, cooldowns, killSwitch,
                  gatedBefore>>
executorVars == <<orders, positions, processedLines, processedEnvIds>>
boundVars    == <<crashes, faults>>
vars == <<now, signals, gated, gateVars, executorVars, boundVars>>
-----------------------------------------------------------------------------
Noise    == "noise"
Verdicts == {"pass", "reject", "halt"}
Gated    == [id : Signals, verdict : Verdicts, ts : 0..MaxTime]

(* readJournal: the last TailRows rows, whatever the file's length.          *)
WholeFile(file) == file   \* slip: the tail is not cut off
readJournal(file) ==
  IF Len(file) <= TailRows THEN file ELSE SubSeq(file, Len(file) - TailRows + 1, Len(file))

RowsAfterNext(rows, n) == SubSeq(rows, n + 2, Len(rows))   \* slip: one row too far
RowsAfter(rows, n) == SubSeq(rows, n + 1, Len(rows))       \* rows.slice(n)

IdsOf(rows) == {rows[i].id : i \in 1..Len(rows)}

Init == /\ now = 0
        /\ signals = <<>> /\ gated = <<>> /\ orders = <<>> /\ positions = <<>>
        /\ lastProcessedLine = 0 /\ newRows = <<>>
        /\ processedSignalIds = {} /\ cooldowns = [t \in Tokens |-> 0]
        /\ killSwitch \in BOOLEAN /\ gatedBefore = 0
        /\ processedLines = 0 /\ processedEnvIds = {}
        /\ crashes = 0 /\ faults = 0

Tick == /\ now < MaxTime /\ now' = now + 1
        /\ UNCHANGED <<signals, gated, gateVars, executorVars, boundVars>>

(* The scanner: an envelope with a fresh id, or a row such as scan.drop.     *)
Publish(s) == /\ s \notin ToSet(signals)
              /\ signals' = Append(signals, s)
              /\ UNCHANGED <<now, gated, gateVars, executorVars, boundVars>>

PublishNoise == /\ Cardinality({i \in 1..Len(signals) : signals[i] = Noise}) < MaxNoise
                /\ signals' = Append(signals, Noise)
                /\ UNCHANGED <<now, gated, gateVars, executorVars, boundVars>>
-----------------------------------------------------------------------------
(* processNewSignals reads the journal; it has rows when the tail is longer  *)
(* than the cursor.                                                          *)
Poll == LET rows == readJournal(signals)
        IN /\ newRows = <<>> /\ Len(rows) > lastProcessedLine
           /\ newRows' = RowsAfter(rows, lastProcessedLine)
           /\ UNCHANGED <<now, signals, gated, lastProcessedLine, processedSignalIds, cooldowns,
                          killSwitch, gatedBefore, executorVars, boundVars>>

(* evaluateGates, as the loop calls it: the drawdown is 0, there is no macro *)
(* feed, and neither correlationGroup nor portfolioRisk is given, so the     *)
(* open positions it is handed decide nothing.                               *)
CoolingDown(t) == cooldowns[t] > now

VerdictIgnoringCooldown(s) ==   \* slip: the cooldown map is written, never read
  IF killSwitch THEN "halt" ELSE IF s \in Sound THEN "pass" ELSE "reject"
Verdict(s) == IF killSwitch THEN "halt"
              ELSE IF s \in Sound /\ ~CoolingDown(TokenOf[s]) THEN "pass" ELSE "reject"

SkipRow == /\ newRows # <<>>
           /\ Head(newRows) \in processedSignalIds \cup {Noise}
           /\ newRows' = Tail(newRows) /\ lastProcessedLine' = lastProcessedLine + 1
           /\ UNCHANGED <<now, signals, gated, processedSignalIds, cooldowns, killSwitch,
                          gatedBefore, executorVars, boundVars>>

EvaluateAhead ==   \* slip: the cursor is set before the loop, to the rows read
  LET s == Head(newRows)
  IN /\ newRows # <<>> /\ s \notin processedSignalIds \cup {Noise}
     /\ lastProcessedLine' = lastProcessedLine + Len(newRows)
     /\ processedSignalIds' = processedSignalIds \cup {s}
     /\ gated' = Append(gated, [id |-> s, verdict |-> Verdict(s), ts |-> now])
     /\ newRows' = <<>>
     /\ UNCHANGED <<now, signals, cooldowns, killSwitch, gatedBefore, executorVars, boundVars>>

(* A row that is an envelope not seen before.  Cursor, id and cooldown are   *)
(* set before the append; when it throws, the catch drops the other rows     *)
(* until the next poll and this one for good.                                *)
EvaluateRow ==
  LET s == Head(newRows)
  IN /\ newRows # <<>> /\ s \notin processedSignalIds \cup {Noise}
     /\ lastProcessedLine' = lastProcessedLine + 1
     /\ processedSignalIds' = processedSignalIds \cup {s}
     /\ cooldowns' = IF Verdict(s) = "pass"
                       THEN [cooldowns EXCEPT ![TokenOf[s]] = now + Cooldown] ELSE cooldowns
     /\ \/ /\ gated' = Append(gated, [id |-> s, verdict |-> Verdict(s), ts |-> now])
           /\ newRows' = Tail(newRows) /\ UNCHANGED faults
        \/ /\ faults < MaxFaults /\ faults' = faults + 1
           /\ newRows' = <<>> /\ UNCHANGED gated
     /\ UNCHANGED <<now, signals, killSwitch, gatedBefore, executorVars, crashes>>

(* The gates process dies and starts again, perhaps with another setting of  *)
(* the kill switch.  Its cooldowns are gone; its ids come from the journal.  *)
RestartGatesForgetting ==   \* slip: existingGated is not consulted
  /\ crashes < MaxCrashes /\ crashes' = crashes + 1
  /\ lastProcessedLine' = 0 /\ newRows' = <<>> /\ cooldowns' = [t \in Tokens |-> 0]
  /\ processedSignalIds' = {} /\ gatedBefore' = Len(gated) /\ UNCHANGED killSwitch
  /\ UNCHANGED <<now, signals, gated, executorVars, faults>>

RestartGates ==
  /\ crashes < MaxCrashes /\ crashes' = crashes + 1
  /\ lastProcessedLine' = 0 /\ newRows' = <<>>
  /\ cooldowns' = [t \in Tokens |-> 0]
  /\ processedSignalIds' = IdsOf(readJournal(gated))
  /\ gatedBefore' = Len(gated)
  /\ killSwitch' \in BOOLEAN
  /\ UNCHANGED <<now, signals, gated, executorVars, faults>>
-----------------------------------------------------------------------------
(* processFile of the executor: the rows of the tail past its cursor; those  *)
(* that pass and are new become buys, and the buys positions.  (By GatedOnce *)
(* a tail has no id twice.)                                                  *)
Row(kind, s) == [kind |-> kind, id |-> s]

ReadGated ==
  LET rows   == readJournal(gated)
      unread == RowsAfter(rows, processedLines)
      bought == Subsequence(unread, {i \in 1..Len(unread) : /\ unread[i].id \notin processedEnvIds
                                                            /\ unread[i].verdict = "pass"})
  IN /\ Len(rows) > processedLines
     /\ processedLines' = Len(rows)
     /\ processedEnvIds' = processedEnvIds \cup IdsOf(unread)
     /\ orders' = orders \o [i \in 1..Len(bought) |-> Row("buy", bought[i].id)]
     /\ positions' = positions \o [i \in 1..Len(bought) |-> Row("open", bought[i].id)]
     /\ UNCHANGED <<now, signals, gated, gateVars, boundVars>>

(* activeMap: the tokens whose last row, within the tail, opens a position.  *)
ActiveTokens ==
  LET rows == readJournal(positions)
      LastOf(t) == {i \in 1..Len(rows) : /\ TokenOf[rows[i].id] = t
                                         /\ \A j \in i + 1..Len(rows) : TokenOf[rows[j].id] # t}
  IN {t \in Tokens : \E i \in LastOf(t) : rows[i].kind = "open"}

(* The executor sells an open token.                                         *)
Exit(t) == \E i \in 1..Len(positions) :
  /\ positions[i].kind = "open" /\ TokenOf[positions[i].id] = t
  /\ \A j \in i + 1..Len(positions) : TokenOf[positions[j].id] # t
  /\ orders' = Append(orders, Row("sell", positions[i].id))
  /\ positions' = Append(positions, Row("closed", positions[i].id))
  /\ UNCHANGED <<now, signals, gated, gateVars, processedLines, processedEnvIds, boundVars>>

(* The executor starts again: the envelope ids come from its buy orders.     *)
BuysIn(rows) == {rows[i].id : i \in {j \in 1..Len(rows) : rows[j].kind = "buy"}}

RestartExecutorForgetting ==   \* slip: existingOrders is not consulted
  /\ crashes < MaxCrashes /\ crashes' = crashes + 1
  /\ processedLines' = 0 /\ processedEnvIds' = {}
  /\ UNCHANGED <<now, signals, gated, gateVars, orders, positions, faults>>

RestartExecutor ==
  /\ crashes < MaxCrashes /\ crashes' = crashes + 1
  /\ processedLines' = 0
  /\ processedEnvIds' = BuysIn(readJournal(orders))
  /\ UNCHANGED <<now, signals, gated, gateVars, orders, positions, faults>>
-----------------------------------------------------------------------------
Gates == Poll \/ SkipRow \/ EvaluateRow

Next == \/ Tick \/ PublishNoise \/ \E s \in Signals : Publish(s)
        \/ Gates \/ ReadGated \/ \E t \in Tokens : Exit(t)
        \/ RestartGates \/ RestartExecutor

Spec == /\ Init /\ [][Next]_vars
        /\ WF_vars(Gates) /\ WF_vars(ReadGated)
-----------------------------------------------------------------------------
TypeOK ==
  /\ now \in 0..MaxTime
  /\ signals \in Seq(Signals \cup {Noise})
  /\ gated \in Seq(Gated)
  /\ orders \in Seq([kind : {"buy", "sell"}, id : Signals])
  /\ positions \in Seq([kind : {"open", "closed"}, id : Signals])
  /\ lastProcessedLine \in 0..TailRows /\ newRows \in Seq(Signals \cup {Noise})
  /\ processedSignalIds \subseteq Signals
  /\ cooldowns \in [Tokens -> Nat] /\ killSwitch \in BOOLEAN
  /\ gatedBefore \in 0..Len(gated)
  /\ processedLines \in 0..TailRows /\ processedEnvIds \subseteq Signals
  /\ crashes \in Nat /\ faults \in Nat

(* The gates write one verdict per signal over all their restarts and failed *)
(* appends, as far back as the gated journal's tail tells them: two verdicts *)
(* on a signal are more than a tail apart.                                   *)
GatedOnce ==
  \A i, j \in 1..Len(gated) : i < j /\ gated[i].id = gated[j].id => j - i > TailRows

(* Between two starts of the gates, two verdicts that pass the same token    *)
(* are a cooldown apart, although its entry is written before the append.    *)
CooldownKept ==
  \A i, j \in gatedBefore + 1..Len(gated) :
    /\ i < j /\ gated[i].verdict = "pass" /\ gated[j].verdict = "pass"
    /\ TokenOf[gated[i].id] = TokenOf[gated[j].id]
    => gated[j].ts >= gated[i].ts + Cooldown

(* While the signals journal fits the tail and appends succeed, no signal    *)
(* behind the gates' cursor is without a verdict.                            *)
NothingPassedOver ==
  Len(signals) <= TailRows /\ faults = 0
    => \A i \in 1..lastProcessedLine : signals[i] # Noise => signals[i] \in IdsOf(gated)

(* The executor buys an envelope once, over restarts of both processes, as   *)
(* far back as the orders journal's tail tells it: two buys of an envelope   *)
(* are more than a tail apart.                                               *)
BoughtOnce ==
  \A i, j \in 1..Len(orders) :
    i < j /\ orders[i] = orders[j] /\ orders[i].kind = "buy" => j - i > TailRows

(* Every signal gets a verdict, as long as its journal fits the tail (and    *)
(* appends succeed, and processes do not restart for ever).                  *)
SignalsEvaluated ==
  \A s \in Signals : s \in ToSet(signals) ~> \/ s \in IdsOf(gated)
                                             \/ Len(signals) > TailRows
                                             \/ faults > 0

(* The loop "evaluates risk gates for new scanner signals in real-time"      *)
(* (risk-gates/src/continuous.ts:3): each of them, however many there are.   *)
EverySignalEvaluated == \A s \in Signals : s \in ToSet(signals) ~> s \in IdsOf(gated)

(* "Continuously reads active positions ... to prevent duplicate or          *)
(* over-correlated exposure" (docs/ARCHITECTURE_DESIGN.md:98): no verdict    *)
(* passes a token that is open in the positions journal.                     *)
NoPassWhileOpen ==
  [][\A s \in Signals : gated' = Append(gated, [id |-> s, verdict |-> "pass", ts |-> now])
                          => TokenOf[s] \notin ActiveTokens]_vars
=============================================================================
