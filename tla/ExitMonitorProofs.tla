------------------------- MODULE ExitMonitorProofs -------------------------
(***************************************************************************)
(* Proofs about the executor's exit monitor: its types, that no position   *)
(* is held through its stops, and what the fallback price can sell.        *)
(***************************************************************************)
EXTENDS ExitMonitor, TLAPS

(* The levels of a position follow from the highest price it was stepped     *)
(* with: the trailing stop is a chandelier below it, the break-even stop is  *)
(* armed if it was ahead far enough, and the flip level is below the stop.   *)
LevelsFollow(r) ==
  /\ r.peak >= Entry
  /\ r.trail = IF r.peak > Entry THEN r.peak - Chandelier ELSE None
  /\ r.flip # None => r.trail # None /\ r.flip <= r.trail
  /\ r.even <=> r.peak >= BreakEvenAt

(* What the map keeps is what the history variable high says, and only an    *)
(* exit that was decided turns the trend down.                               *)
LevelsTrue ==
  \A p \in Tracked :
    /\ LevelsFollow(pos[p]) /\ pos[p].peak = high[p]
    /\ pos[p].trend = "down" => pos[p].bounces > 0 \/ task[p] \in {"selling", "marked"}

(* Tasks are about tracked positions; only a sale is blind; and a position   *)
(* that is not tracked has no past.                                          *)
TasksTracked ==
  \A p \in Positions : /\ task[p] \in Under => p \in Tracked
                       /\ p \in blind => task[p] = "selling"
                       /\ p \notin Tracked => high[p] = Entry

(* A breaker that is not closed has as many failures as open it: only a      *)
(* success resets them.                                                      *)
FailuresStay ==
  \A x \in Dexes : breaker[x].state # "CLOSED" => breaker[x].failures = Threshold

PositionTypes ==
  /\ pos \in [Positions -> Position \cup {NoPosition}]
  /\ task \in [Positions -> Under \cup {"off", "marked"}]
  /\ due \subseteq Positions /\ blind \subseteq Positions
  /\ held \in [Positions -> Levels] /\ high \in [Positions -> Nat]

PositionInv == PositionTypes /\ LevelsTrue /\ TasksTracked /\ StopsHold /\ BlindSales

BreakerInv == breaker \in [Dexes -> Breaker] /\ rated \in BOOLEAN /\ FailuresStay

USE DEF Entry, None, BreakEvenAt, Chandelier
-----------------------------------------------------------------------------
LEMMA StopTypes ==
  ASSUME NEW p \in Positions
  PROVE  /\ StopLoss[p] \in Nat /\ StopLoss[p] < Entry
         /\ TakeProfit[p] \in Nat /\ TakeProfit[p] > Entry
PROOF
  <1>1. StopLoss \in [Positions -> 1..Entry - 1]
    BY MonitorAssumption
  <1>2. TakeProfit \in [Positions -> Nat] /\ \A q \in Positions : TakeProfit[q] > Entry
    BY MonitorAssumption
  <1>3. StopLoss[p] \in 1..Entry - 1
    BY <1>1
  <1>4. StopLoss[p] \in Nat /\ StopLoss[p] < Entry
    <2>1. Entry \in Int
      OBVIOUS
    <2> HIDE DEF Entry
    <2>2. QED
      BY <1>3, <2>1
  <1>5. TakeProfit[p] \in Nat /\ TakeProfit[p] > Entry
    BY <1>2
  <1>6. QED
    BY <1>4, <1>5

LEMMA NoPositionIsNone == NoPosition \notin Position
BY DEF NoPosition, Position

LEMMA OpenedType == /\ Opened \in Position /\ LevelsFollow(Opened) /\ Opened.trend # "down"
                    /\ Opened.peak = Entry
BY MonitorAssumption DEF Opened, Position, LevelsFollow, Levels, Take

(* What stepPosition does to the levels.                                     *)
LEMMA SteppedLevels ==
  ASSUME NEW r \in Position, LevelsFollow(r), NEW x \in Nat
  PROVE  /\ Stepped(r, x) \in Position
         /\ LevelsFollow(Stepped(r, x))
         /\ Stepped(r, x).peak = IF x > r.peak THEN x ELSE r.peak
         /\ Stepped(r, x).bounces = r.bounces
         /\ Stepped(r, x).trend = "down" => r.trend = "down"
PROOF
  <1> DEFINE s == Stepped(r, x)
  <1>1. /\ r.peak \in Nat /\ r.trail \in Levels /\ r.flip \in Levels
        /\ r.trend \in {"unknown", "up", "down"} /\ r.even \in BOOLEAN
        /\ r.takes \in SUBSET DOMAIN Take /\ r.bounces \in 0..BounceLimit - 1
    BY DEF Position
  <1>2. Peak(r, x) \in Nat /\ Peak(r, x) >= r.peak /\ Peak(r, x) >= x
    BY <1>1 DEF Peak
  <1>3. Trail(r, x) = IF Peak(r, x) > Entry THEN Peak(r, x) - Chandelier ELSE None
    BY <1>1, <1>2 DEF Trail, LevelsFollow, Peak
  <1>4. Trail(r, x) \in Levels
    BY <1>2, <1>3 DEF Levels
  <1>5. Flip(r, x) \in Levels /\ (Flip(r, x) # None => Trail(r, x) # None /\ Flip(r, x) <= Trail(r, x))
    BY <1>1, <1>2, <1>3, <1>4 DEF Flip, LevelsFollow, Levels
  <1>6. Trend(r, x) \in {"unknown", "up", "down"} /\ (Trend(r, x) = "down" => r.trend = "down")
    BY <1>1 DEF Trend
  <1>7. /\ s \in Position /\ s.peak = Peak(r, x) /\ s.trail = Trail(r, x) /\ s.flip = Flip(r, x)
        /\ s.trend = Trend(r, x) /\ s.bounces = r.bounces
        /\ s.even <=> r.even \/ x >= BreakEvenAt
    <2> DEFINE e == r.even \/ x >= BreakEvenAt
    <2>1. s = [r EXCEPT !.peak = Peak(r, x), !.trail = Trail(r, x), !.flip = Flip(r, x),
                        !.trend = Trend(r, x), !.even = e]
      BY DEF Stepped
    <2>2. e \in BOOLEAN
      OBVIOUS
    <2> HIDE DEF e, s
    <2>3. r = [peak |-> r.peak, trail |-> r.trail, flip |-> r.flip, trend |-> r.trend,
               even |-> r.even, takes |-> r.takes, bounces |-> r.bounces]
      BY DEF Position
    <2>4. s = [peak |-> Peak(r, x), trail |-> Trail(r, x), flip |-> Flip(r, x),
               trend |-> Trend(r, x), even |-> e, takes |-> r.takes, bounces |-> r.bounces]
      BY ONLY <2>1, <2>3
    <2>5. /\ s.peak = Peak(r, x) /\ s.trail = Trail(r, x) /\ s.flip = Flip(r, x)
          /\ s.trend = Trend(r, x) /\ s.bounces = r.bounces /\ s.even = e
      BY ONLY <2>4
    <2>6. s \in Position
      BY ONLY ZenonT(40), <1>1, <1>2, <1>4, <1>5, <1>6, <2>2, <2>4 DEF Position
    <2>7. QED
      BY <2>5, <2>6 DEF e
  <1> HIDE DEF s
  <1>8. LevelsFollow(s)
    BY <1>1, <1>2, <1>3, <1>5, <1>7 DEF LevelsFollow, Peak
  <1>9. QED
    BY <1>6, <1>7, <1>8 DEF Peak, s

(* What is decided on top of it leaves the levels alone, except that an exit *)
(* may turn the trend down.                                                  *)
LEMMA DecidedLevels ==
  ASSUME NEW p \in Positions, NEW r \in Position, LevelsFollow(r), NEW x \in Nat
  PROVE  LET d == Decided(r, x, Action(p, r, x))
         IN /\ d \in Position /\ LevelsFollow(d)
            /\ d.peak = r.peak /\ d.bounces = r.bounces
            /\ d.trend = "down" /\ r.trend # "down" => Action(p, r, x) # "hold"
PROOF
  <1> DEFINE act == Action(p, r, x)
             d == Decided(r, x, act)
  <1>1. CASE act = "partial_tp"
    <2> DEFINE i == CHOOSE i \in TakesReached(r, x) : \A j \in TakesReached(r, x) : i <= j
    <2>1. TakesReached(r, x) # {} /\ TakesReached(r, x) \subseteq {0, 1}
      BY <1>1 DEF Action, TakesReached, Take
    <2>2. \E k \in TakesReached(r, x) : \A j \in TakesReached(r, x) : k <= j
      <3>1. CASE 0 \in TakesReached(r, x)
        BY <2>1, <3>1
      <3>2. CASE 0 \notin TakesReached(r, x)
        BY <2>1, <3>2
      <3>3. QED
        BY <3>1, <3>2
    <2>3. i \in DOMAIN Take
      BY <2>1, <2>2 DEF Take
    <2>4. d = [r EXCEPT !.takes = r.takes \cup {i}]
      BY <1>1 DEF Decided
    <2> HIDE DEF d, i
    <2>5. d \in Position /\ d.peak = r.peak /\ d.trail = r.trail /\ d.flip = r.flip
          /\ d.trend = r.trend /\ d.even = r.even /\ d.bounces = r.bounces
      BY <2>3, <2>4 DEF Position
    <2>6. QED
      BY <2>5 DEF d, LevelsFollow
  <1>2. CASE act \in {"momentum_reversal", "trend_reversal"}
    <2>1. d = [r EXCEPT !.trend = "down"]
      BY <1>2 DEF Decided
    <2> HIDE DEF d
    <2>2. d \in Position /\ d.peak = r.peak /\ d.trail = r.trail /\ d.flip = r.flip
          /\ d.even = r.even /\ d.bounces = r.bounces
      BY <2>1 DEF Position
    <2>3. QED
      BY <1>2, <2>2 DEF d, LevelsFollow
  <1>3. CASE act \notin {"partial_tp", "momentum_reversal", "trend_reversal"}
    BY <1>3 DEF Decided
  <1>4. QED
    BY <1>1, <1>2, <1>3

(* A position is held only between its stops.                                *)
LEMMA HeldWithinStops ==
  ASSUME NEW p \in Positions, NEW r \in Position, LevelsFollow(r), NEW x \in Nat,
         Action(p, r, x) = "hold"
  PROVE  LET gain == r.peak - Entry
             left == x - Entry
         IN /\ StopLoss[p] < x /\ x < TakeProfit[p]
            /\ gain > 0 => gain - left < Chandelier
            /\ r.peak >= BreakEvenAt => left > 0
            /\ gain >= 35 => 2 * left > gain
            /\ gain >= 80 => 100 * left > 65 * gain
PROOF
  <1>1. ~Faded(r, x) /\ ~Stopped(r, x) /\ ~(x >= TakeProfit[p]) /\ ~(x <= StopLoss[p])
    BY DEF Action
  <1>2. r.peak \in Nat /\ StopLoss[p] \in Nat /\ TakeProfit[p] \in Nat
    BY StopTypes DEF Position
  <1>3. QED
    BY <1>1, <1>2 DEF Faded, Stopped, LevelsFollow

(* The entry price makes nobody sell a position that was never ahead.        *)
LEMMA EntryPriceHolds ==
  ASSUME NEW p \in Positions \ due, NEW r \in Position, LevelsFollow(r),
         r.peak < BreakEvenAt, r.trend # "down"
  PROVE  Action(p, r, Entry) = "hold"
PROOF
  <1>1. /\ r.peak \in Nat /\ r.flip \in Levels
        /\ StopLoss[p] \in Nat /\ TakeProfit[p] \in Nat
        /\ StopLoss[p] < Entry /\ TakeProfit[p] > Entry
    BY StopTypes DEF Position
  <1>2. TakesReached(r, Entry) = {}
    BY DEF TakesReached, Take
  <1>3. ~Faded(r, Entry) /\ ~Stopped(r, Entry)
    BY <1>1 DEF Faded, Stopped, LevelsFollow
  <1>4. ~TrendFlips(r, Entry)
    BY <1>1 DEF TrendFlips, LevelsFollow, Levels
  <1>5. QED
    BY <1>1, <1>2, <1>3, <1>4 DEF Action
-----------------------------------------------------------------------------
(* The breakers. *)
LEMMA BreakerOperators ==
  ASSUME NEW b \in Breaker, b.state # "CLOSED" => b.failures = Threshold
  PROVE  /\ Entered(b) \in Breaker
         /\ Entered(b).state # "CLOSED" => Entered(b).failures = Threshold
         /\ Succeeded(b) \in Breaker /\ Succeeded(b).state = "CLOSED"
         /\ Failed(b) \in Breaker
         /\ Failed(b).state # "CLOSED" => Failed(b).failures = Threshold
PROOF
  <1>1. /\ b.state \in {"CLOSED", "OPEN", "HALF_OPEN"} /\ b.failures \in 0..Threshold
        /\ b.probes \in 0..HalfOpenMaxCalls /\ b.cooling \in BOOLEAN
        /\ Threshold \in Nat \ {0} /\ HalfOpenMaxCalls \in Nat \ {0}
    BY MonitorAssumption DEF Breaker
  <1>2. Closed \in Breaker /\ Closed.state = "CLOSED"
    BY <1>1 DEF Closed, Breaker
  <1>3. Entered(b) \in Breaker /\ Entered(b).failures = b.failures
        /\ (b.state = "CLOSED" => Entered(b).state = "CLOSED")
    <2>1. CASE b.state = "OPEN"
      <3> DEFINE e == Entered(b)
      <3>1. e = [b EXCEPT !.state = "HALF_OPEN", !.probes = 0]
        BY <2>1 DEF Entered
      <3> HIDE DEF e
      <3>2. /\ e.state = "HALF_OPEN" /\ e.failures = b.failures
            /\ e.probes = 0 /\ e.cooling = b.cooling
        BY <3>1 DEF Breaker
      <3>3. e \in Breaker
        <4>1. 0 \in 0..HalfOpenMaxCalls
          BY <1>1
        <4>2. QED
          BY <3>1, <4>1 DEF Breaker
      <3>4. QED
        BY <2>1, <3>2, <3>3 DEF e
    <2>2. CASE b.state # "OPEN"
      BY <2>2 DEF Entered
    <2>3. QED
      BY <2>1, <2>2
  <1>4. Failed(b) \in Breaker /\ (Failed(b).state # "CLOSED" => Failed(b).failures = Threshold)
    <2> DEFINE counted == [b EXCEPT !.failures = IF b.failures < Threshold
                                                   THEN b.failures + 1 ELSE b.failures]
    <2>1. /\ counted \in Breaker /\ counted.state = b.state
          /\ counted.failures = IF b.failures < Threshold THEN b.failures + 1 ELSE b.failures
      BY <1>1 DEF Breaker
    <2>2. Failed(b) = IF counted.failures >= Threshold
                        THEN [counted EXCEPT !.state = "OPEN", !.cooling = TRUE]
                        ELSE IF b.state # "HALF_OPEN" THEN counted
                        ELSE IF b.probes + 1 >= HalfOpenMaxCalls
                               THEN [[counted EXCEPT !.probes = counted.probes + 1]
                                       EXCEPT !.state = "OPEN", !.cooling = TRUE]
                               ELSE [counted EXCEPT !.probes = counted.probes + 1]
      BY <1>1 DEF Failed, Breaker
    <2> HIDE DEF counted
    <2>3. CASE counted.failures >= Threshold
      <3>1. Failed(b) = [counted EXCEPT !.state = "OPEN", !.cooling = TRUE]
        BY <2>2, <2>3
      <3>2. counted.failures = Threshold
        BY <1>1, <2>1, <2>3
      <3>3. QED
        BY <2>1, <3>1, <3>2 DEF Breaker
    <2>4. CASE ~(counted.failures >= Threshold)
      <3>1. b.state = "CLOSED"
        BY <1>1, <2>1, <2>4
      <3>2. Failed(b) = counted
        BY <2>2, <2>4, <3>1
      <3>3. QED
        BY <2>1, <3>1, <3>2
    <2>5. QED
      BY <2>3, <2>4
  <1>5. QED
    BY <1>2, <1>3, <1>4 DEF Succeeded

LEMMA BreakerStep ==
  ASSUME BreakerInv, rated' \in BOOLEAN,
         \/ UNCHANGED breaker
         \/ \E x \in Dexes : Calls(x) \/ Answers(x) \/ Throws(x)
         \/ \E x \in Dexes : breaker' = [breaker EXCEPT ![x].cooling = FALSE]
         \/ breaker' = [x \in Dexes |-> Closed]
  PROVE  BreakerInv'
PROOF
  <1> USE DEF BreakerInv, FailuresStay
  <1>1. ASSUME NEW x \in Dexes, NEW b \in Breaker, b.state # "CLOSED" => b.failures = Threshold,
               breaker' = [breaker EXCEPT ![x] = b]
        PROVE  BreakerInv'
    BY <1>1
  <1>2. CASE UNCHANGED breaker
    BY <1>2
  <1>3. ASSUME NEW x \in Dexes, Calls(x) \/ Answers(x) \/ Throws(x)
        PROVE  BreakerInv'
    <2>1. \E b \in {Entered(breaker[x]), Succeeded(breaker[x]), Failed(breaker[x])} :
            breaker' = [breaker EXCEPT ![x] = b]
      BY <1>3 DEF Calls, Answers, Throws
    <2>2. breaker[x] \in Breaker
      OBVIOUS
    <2>3. QED
      BY <1>1, <2>1, <2>2, BreakerOperators
  <1>4. ASSUME NEW x \in Dexes, breaker' = [breaker EXCEPT ![x].cooling = FALSE]
        PROVE  BreakerInv'
    <2> DEFINE b == [breaker[x] EXCEPT !.cooling = FALSE]
    <2>1. breaker[x] \in Breaker /\ (breaker[x].state # "CLOSED" => breaker[x].failures = Threshold)
      OBVIOUS
    <2>2. b \in Breaker /\ b.state = breaker[x].state /\ b.failures = breaker[x].failures
      BY <2>1 DEF Breaker
    <2>3. breaker' = [breaker EXCEPT ![x] = b]
      BY <1>4
    <2> HIDE DEF b
    <2>4. QED
      BY <1>1, <2>1, <2>2, <2>3
  <1>5. CASE breaker' = [x \in Dexes |-> Closed]
    <2>1. Closed \in Breaker /\ Closed.state = "CLOSED"
      BY MonitorAssumption DEF Closed, Breaker
    <2>2. QED
      BY <1>5, <2>1
  <1>6. QED
    BY <1>2, <1>3, <1>4, <1>5
-----------------------------------------------------------------------------
(* The positions. *)
LEMMA PositionFacts ==
  ASSUME PositionTypes
  PROVE  \A q \in Positions : /\ pos[q] \in Position <=> q \in Tracked
                              /\ q \notin Tracked => pos[q] = NoPosition
BY NoPositionIsNone DEF PositionTypes, Tracked

(* A task goes on to its next request. *)
LEMMA AskingPreserves ==
  ASSUME PositionInv, NEW p \in Positions, NEW place \in Under \ {"selling"},
         task[p] \in Under \ {"selling"}, Goto(p, place),
         UNCHANGED <<pos, blind, held, high, due>>
  PROVE  PositionInv'
PROOF
  <1> USE DEF PositionInv
  <1>1. \A q \in Positions : task'[q] = IF q = p THEN place ELSE task[q]
    BY DEF Goto, PositionTypes
  <1>2. Tracked' = Tracked
    BY DEF Tracked
  <1>3. PositionTypes'
    BY DEF PositionTypes, Goto
  <1>4. LevelsTrue'
    <2> SUFFICES ASSUME NEW q \in Tracked
                 PROVE  (/\ LevelsFollow(pos[q]) /\ pos[q].peak = high[q]
                         /\ pos[q].trend = "down" =>
                              pos[q].bounces > 0 \/ task[q] \in {"selling", "marked"})'
      BY <1>2 DEF LevelsTrue
    <2>1. q \in Positions
      BY DEF Tracked
    <2>2. pos'[q] = pos[q] /\ high'[q] = high[q] /\ (task'[q] = task[q] \/ q = p)
      BY <1>1, <2>1
    <2>3. task[p] \notin {"selling", "marked"}
      BY DEF Under
    <2>4. QED
      BY <2>2, <2>3 DEF LevelsTrue, LevelsFollow
  <1>5. TasksTracked'
    BY <1>1, <1>2 DEF TasksTracked
  <1>6. StopsHold'
    BY DEF StopsHold
  <1>7. BlindSales'
    BY <1>1 DEF BlindSales, PositionTypes
  <1>8. QED
    BY <1>3, <1>4, <1>5, <1>6, <1>7

(* The position is stepped with a quote, or with the fallback. *)
LEMMA StepPreserves ==
  ASSUME PositionInv, NEW p \in Positions, NEW x \in Nat, NEW priced \in BOOLEAN,
         task[p] \in Under \ {"selling"}, priced \/ x = Fallback(p),
         Steps(p, x, priced)
  PROVE  PositionInv'
PROOF
  <1> DEFINE r == Stepped(pos[p], x)
             action == Action(p, r, x)
             d == Decided(r, x, action)
  <1>1. /\ PositionTypes /\ LevelsTrue /\ TasksTracked /\ StopsHold /\ BlindSales
        /\ p \in Tracked /\ pos[p] \in Position /\ p \notin blind
    BY PositionFacts DEF PositionInv, TasksTracked
  <1>2. /\ pos' = [pos EXCEPT ![p] = d]
        /\ task' = [task EXCEPT ![p] = IF action = "hold" THEN "off" ELSE "selling"]
        /\ blind' = IF action # "hold" /\ ~priced THEN blind \cup {p} ELSE blind \ {p}
        /\ held' = [held EXCEPT ![p] = IF action = "hold" THEN x ELSE None]
        /\ high' = [high EXCEPT ![p] = IF x > high[p] THEN x ELSE high[p]]
        /\ due' = due
    BY DEF Steps, Goto
  <1>3. /\ LevelsFollow(pos[p]) /\ pos[p].peak = high[p] /\ high[p] \in Nat
        /\ pos[p].trend = "down" => pos[p].bounces > 0
    BY <1>1 DEF LevelsTrue, Under, PositionTypes
  <1>4. /\ r \in Position /\ LevelsFollow(r) /\ r.bounces = pos[p].bounces
        /\ r.peak = IF x > high[p] THEN x ELSE high[p]
        /\ r.trend = "down" => pos[p].trend = "down"
    BY <1>1, <1>3, SteppedLevels
  <1> HIDE DEF r
  <1>5. /\ d \in Position /\ LevelsFollow(d)
        /\ d.peak = r.peak /\ d.bounces = r.bounces
        /\ d.trend = "down" /\ r.trend # "down" => action # "hold"
    BY <1>4, DecidedLevels
  <1> HIDE DEF action, d
  <1>6. \A q \in Positions :
          /\ pos'[q] = IF q = p THEN d ELSE pos[q]
          /\ task'[q] = IF q = p THEN IF action = "hold" THEN "off" ELSE "selling" ELSE task[q]
          /\ held'[q] = IF q = p THEN IF action = "hold" THEN x ELSE None ELSE held[q]
          /\ high'[q] = IF q = p THEN r.peak ELSE high[q]
    BY <1>1, <1>2, <1>4 DEF PositionTypes
  <1>7. Tracked' = Tracked
    BY <1>1, <1>5, <1>6, NoPositionIsNone DEF Tracked
  <1>8. PositionTypes'
    BY <1>1, <1>2, <1>5 DEF PositionTypes, Under, Levels
  <1>9. LevelsTrue'
    BY <1>1, <1>3, <1>4, <1>5, <1>6, <1>7 DEF LevelsTrue, Tracked
  <1>10. TasksTracked'
    BY <1>1, <1>2, <1>6, <1>7 DEF TasksTracked, Under
  <1>11. StopsHold'
    <2>1. ASSUME action = "hold"
          PROVE  LET gain == r.peak - Entry
                     left == x - Entry
                 IN /\ StopLoss[p] < x /\ x < TakeProfit[p]
                    /\ gain > 0 => gain - left < Chandelier
                    /\ r.peak >= BreakEvenAt => left > 0
                    /\ gain >= 35 => 2 * left > gain
                    /\ gain >= 80 => 100 * left > 65 * gain
      BY <1>4, <2>1, HeldWithinStops DEF action
    <2>2. QED
      BY <1>1, <1>6, <2>1 DEF StopsHold
  <1>12. BlindSales'
    <2>1. CASE priced \/ action = "hold"
      BY <1>1, <1>2, <1>6, <2>1 DEF BlindSales
    <2>2. CASE ~priced /\ action # "hold"
      <3>1. r.peak >= BreakEvenAt \/ p \in due \/ r.bounces > 0
        <4>1. x = Entry
          BY <2>2 DEF Fallback
        <4>2. r.peak \in Nat /\ r.bounces \in Nat
          BY <1>4, MonitorAssumption DEF Position
        <4>3. r.trend = "down" => r.bounces > 0
          BY <1>3, <1>4
        <4>4. QED
          BY <1>4, <2>2, <4>1, <4>2, <4>3, EntryPriceHolds DEF action
      <3>2. QED
        BY <1>1, <1>2, <1>5, <1>6, <3>1 DEF BlindSales
    <2>3. QED
      BY <2>1, <2>2
  <1>13. QED
    BY <1>8, <1>9, <1>10, <1>11, <1>12 DEF PositionInv

(* The queued sale ends: the position is forgotten, kept with one more       *)
(* bounce, or kept with its exit marked.                                     *)
LEMMA ForgetPreserves ==
  ASSUME PositionInv, NEW p \in Positions, Forget(p), Goto(p, "off")
  PROVE  PositionInv'
PROOF
  <1>1. /\ PositionTypes /\ LevelsTrue /\ TasksTracked /\ StopsHold /\ BlindSales
    BY DEF PositionInv
  <1>2. /\ pos' = [pos EXCEPT ![p] = NoPosition] /\ due' = due \ {p}
        /\ blind' = blind \ {p} /\ held' = [held EXCEPT ![p] = None]
        /\ high' = [high EXCEPT ![p] = Entry]
        /\ task' = [task EXCEPT ![p] = "off"]
    BY DEF Forget, Goto
  <1>3. \A q \in Positions :
          /\ pos'[q] = IF q = p THEN NoPosition ELSE pos[q]
          /\ task'[q] = IF q = p THEN "off" ELSE task[q]
          /\ held'[q] = IF q = p THEN None ELSE held[q]
          /\ high'[q] = IF q = p THEN Entry ELSE high[q]
    BY <1>1, <1>2 DEF PositionTypes
  <1>4. Tracked' = Tracked \ {p}
    BY <1>3 DEF Tracked
  <1>5. PositionTypes'
    BY <1>1, <1>2 DEF PositionTypes, Levels
  <1>6. LevelsTrue'
    BY <1>1, <1>3, <1>4 DEF LevelsTrue, Tracked
  <1>7. TasksTracked'
    BY <1>1, <1>2, <1>3, <1>4 DEF TasksTracked, Under
  <1>8. StopsHold'
    BY <1>1, <1>3 DEF StopsHold
  <1>9. BlindSales'
    BY <1>1, <1>2, <1>3 DEF BlindSales
  <1>10. QED
    BY <1>5, <1>6, <1>7, <1>8, <1>9 DEF PositionInv

LEMMA BouncePreserves ==
  ASSUME PositionInv, NEW p \in Positions, task[p] = "selling", SaleBounces(p)
  PROVE  PositionInv'
PROOF
  <1>1. /\ PositionTypes /\ LevelsTrue /\ TasksTracked /\ StopsHold /\ BlindSales
        /\ p \in Tracked /\ pos[p] \in Position
    BY PositionFacts DEF PositionInv, TasksTracked, Under
  <1>2. CASE pos[p].bounces + 1 >= BounceLimit
    BY <1>2, ForgetPreserves DEF SaleBounces
  <1>3. CASE ~(pos[p].bounces + 1 >= BounceLimit)
    <2> DEFINE r == [pos[p] EXCEPT !.bounces = pos[p].bounces + 1]
    <2>1. pos[p].bounces \in 0..BounceLimit - 1 /\ BounceLimit \in Nat
      BY <1>1, MonitorAssumption DEF Position
    <2>2. pos[p].bounces + 1 \in 0..BounceLimit - 1 /\ pos[p].bounces + 1 > 0
      BY <1>3, <2>1
    <2>3. /\ r \in Position /\ r.peak = pos[p].peak /\ r.trail = pos[p].trail
          /\ r.flip = pos[p].flip /\ r.trend = pos[p].trend /\ r.even = pos[p].even
          /\ r.bounces > 0
      BY <1>1, <2>2 DEF Position
    <2>4. /\ pos' = [pos EXCEPT ![p] = r]
          /\ task' = [task EXCEPT ![p] = "off"] /\ blind' = blind \ {p}
          /\ UNCHANGED <<due, held, high>>
      BY <1>3 DEF SaleBounces, Goto
    <2> HIDE DEF r
    <2>5. \A q \in Positions : /\ pos'[q] = IF q = p THEN r ELSE pos[q]
                               /\ task'[q] = IF q = p THEN "off" ELSE task[q]
      BY <1>1, <2>4 DEF PositionTypes
    <2>6. Tracked' = Tracked
      BY <1>1, <2>3, <2>5, NoPositionIsNone DEF Tracked
    <2>7. PositionTypes'
      BY <1>1, <2>3, <2>4 DEF PositionTypes
    <2>8. LevelsTrue'
      BY <1>1, <2>3, <2>4, <2>5, <2>6 DEF LevelsTrue, Tracked, LevelsFollow
    <2>9. TasksTracked'
      BY <1>1, <2>4, <2>5, <2>6 DEF TasksTracked, Under
    <2>10. StopsHold'
      BY <1>1, <2>4 DEF StopsHold
    <2>11. BlindSales'
      BY <1>1, <2>4, <2>5 DEF BlindSales
    <2>12. QED
      BY <2>7, <2>8, <2>9, <2>10, <2>11 DEF PositionInv
  <1>4. QED
    BY <1>2, <1>3

LEMMA ThrowPreserves ==
  ASSUME PositionInv, NEW p \in Positions, SaleThrows(p)
  PROVE  PositionInv'
PROOF
  <1>1. /\ PositionTypes /\ LevelsTrue /\ TasksTracked /\ StopsHold /\ BlindSales
    BY DEF PositionInv
  <1>2. /\ task' = [task EXCEPT ![p] = "marked"] /\ blind' = blind \ {p}
        /\ UNCHANGED <<pos, held, high, due>>
    BY DEF SaleThrows, Goto
  <1>3. \A q \in Positions : task'[q] = IF q = p THEN "marked" ELSE task[q]
    BY <1>1, <1>2 DEF PositionTypes
  <1>4. Tracked' = Tracked
    BY <1>2 DEF Tracked
  <1>5. PositionTypes'
    BY <1>1, <1>2 DEF PositionTypes
  <1>6. LevelsTrue'
    BY <1>1, <1>2, <1>3, <1>4 DEF LevelsTrue, Tracked, LevelsFollow
  <1>7. TasksTracked'
    BY <1>1, <1>2, <1>3, <1>4 DEF TasksTracked, Under
  <1>8. StopsHold'
    BY <1>1, <1>2 DEF StopsHold
  <1>9. BlindSales'
    BY <1>1, <1>2, <1>3 DEF BlindSales
  <1>10. QED
    BY <1>5, <1>6, <1>7, <1>8, <1>9 DEF PositionInv

(* A position opens: it has no past, so that its levels are those of the     *)
(* entry price.                                                              *)
LEMMA OpenPreserves ==
  ASSUME PositionInv, NEW p \in Positions, Opens(p)
  PROVE  PositionInv'
PROOF
  <1>1. /\ PositionTypes /\ LevelsTrue /\ TasksTracked /\ StopsHold /\ BlindSales
        /\ p \notin Tracked
    BY DEF PositionInv, Opens, Tracked
  <1>2. /\ pos' = [pos EXCEPT ![p] = Opened]
        /\ UNCHANGED <<task, blind, held, high, due>>
    BY DEF Opens
  <1>3. /\ Opened \in Position /\ LevelsFollow(Opened) /\ Opened.trend # "down"
        /\ Opened.peak = Entry
    BY OpenedType
  <1>4. \A q \in Positions : pos'[q] = IF q = p THEN Opened ELSE pos[q]
    BY <1>1, <1>2 DEF PositionTypes
  <1>5. Tracked' = Tracked \cup {p}
    BY <1>3, <1>4, NoPositionIsNone DEF Tracked
  <1>6. PositionTypes'
    BY <1>1, <1>2, <1>3 DEF PositionTypes
  <1>7. LevelsTrue'
    BY <1>1, <1>2, <1>3, <1>4, <1>5 DEF LevelsTrue, TasksTracked, Tracked
  <1>8. TasksTracked'
    BY <1>1, <1>2, <1>5 DEF TasksTracked
  <1>9. StopsHold'
    BY <1>1, <1>2 DEF StopsHold
  <1>10. BlindSales'
    <2>1. p \notin blind \/ task[p] # "selling"
      BY <1>1 DEF TasksTracked, Under
    <2>2. QED
      BY <1>1, <1>2, <1>4, <2>1 DEF BlindSales
  <1>11. QED
    BY <1>6, <1>7, <1>8, <1>9, <1>10 DEF PositionInv

LEMMA RestartPreserves ==
  ASSUME PositionInv, Restart
  PROVE  PositionInv'
PROOF
  <1>1. PositionTypes
    BY DEF PositionInv
  <1>2. PICK kept \in SUBSET Tracked :
               /\ pos' = [p \in Positions |-> IF p \in kept THEN Opened ELSE NoPosition]
               /\ due' = due \cap kept
    BY DEF Restart
  <1>3. /\ task' = [p \in Positions |-> "off"] /\ blind' = {}
        /\ held' = [p \in Positions |-> None] /\ high' = [p \in Positions |-> Entry]
    BY DEF Restart
  <1>4. /\ Opened \in Position /\ LevelsFollow(Opened) /\ Opened.trend # "down"
        /\ Opened.peak = Entry
    BY OpenedType
  <1>5. PositionTypes'
    BY <1>1, <1>2, <1>3, <1>4 DEF PositionTypes, Levels
  <1>6. LevelsTrue'
    BY <1>2, <1>3, <1>4 DEF LevelsTrue, Tracked
  <1>7. TasksTracked' /\ StopsHold' /\ BlindSales'
    BY <1>3 DEF TasksTracked, StopsHold, BlindSales, Under
  <1>8. QED
    BY <1>5, <1>6, <1>7 DEF PositionInv

LEMMA ScanPreserves ==
  ASSUME PositionInv, ScanBegins
  PROVE  PositionInv'
PROOF
  <1>1. /\ PositionTypes /\ LevelsTrue /\ TasksTracked /\ StopsHold /\ BlindSales
    BY DEF PositionInv
  <1>2. /\ task' = [p \in Positions |-> IF p \in Tracked /\ task[p] = "off"
                                            THEN "asking" ELSE task[p]]
        /\ held' = [p \in Positions |-> None]
        /\ UNCHANGED <<pos, due, blind, high>>
    BY DEF ScanBegins
  <1>3. Tracked' = Tracked
    BY <1>2 DEF Tracked
  <1>4. PositionTypes'
    BY <1>1, <1>2 DEF PositionTypes, Levels, Under
  <1>5. LevelsTrue'
    BY <1>1, <1>2, <1>3 DEF LevelsTrue, Tracked, LevelsFollow
  <1>6. TasksTracked'
    BY <1>1, <1>2, <1>3 DEF TasksTracked, Under
  <1>7. StopsHold' /\ BlindSales'
    BY <1>1, <1>2 DEF StopsHold, BlindSales, PositionTypes
  <1>8. QED
    BY <1>4, <1>5, <1>6, <1>7 DEF PositionInv

LEMMA TimeStopPreserves ==
  ASSUME PositionInv, NEW p \in Positions, TimeStopPasses(p)
  PROVE  PositionInv'
PROOF
  <1>1. /\ due' = due \cup {p} /\ UNCHANGED <<pos, task, blind, held, high>>
    BY DEF TimeStopPasses, positionVars
  <1>2. PositionTypes' /\ Tracked' = Tracked
    BY <1>1 DEF PositionInv, PositionTypes, Tracked
  <1>3. LevelsTrue' /\ TasksTracked' /\ StopsHold'
    BY <1>1, <1>2 DEF PositionInv, LevelsTrue, TasksTracked, StopsHold, LevelsFollow, Tracked
  <1>4. BlindSales'
    BY <1>1 DEF PositionInv, BlindSales
  <1>5. QED
    BY <1>2, <1>3, <1>4 DEF PositionInv
-----------------------------------------------------------------------------
LEMMA InitMonitorInv == Init => PositionInv /\ BreakerInv
PROOF
  <1> SUFFICES ASSUME Init PROVE PositionInv /\ BreakerInv
    OBVIOUS
  <1>1. /\ Opened \in Position /\ LevelsFollow(Opened) /\ Opened.trend # "down"
        /\ Opened.peak = Entry
    BY OpenedType
  <1>2. PositionTypes
    BY <1>1 DEF Init, PositionTypes, Levels
  <1>3. LevelsTrue
    BY <1>1 DEF Init, LevelsTrue, Tracked
  <1>4. TasksTracked /\ StopsHold /\ BlindSales
    BY DEF Init, TasksTracked, StopsHold, BlindSales, Under
  <1>5. BreakerInv
    <2>1. Closed \in Breaker /\ Closed.state = "CLOSED"
      BY MonitorAssumption DEF Closed, Breaker
    <2>2. QED
      BY <2>1 DEF Init, BreakerInv, FailuresStay
  <1>6. QED
    BY <1>2, <1>3, <1>4, <1>5 DEF PositionInv

(* What a task of the scan does, told for the positions and for the breakers *)
(* apart: it asks on, or it steps its position.                              *)
LEMMA PricedStep ==
  ASSUME PositionInv, NEW p \in Positions, task[p] \in Under \ {"selling"},
         Priced(p) \/ Steps(p, Fallback(p), FALSE)
  PROVE  PositionInv'
PROOF
  <1>1. CASE Priced(p)
    <2>1. PICK x \in Quotes[p] : Steps(p, x, TRUE)
      BY <1>1 DEF Priced
    <2>2. x \in Nat
      BY MonitorAssumption
    <2>3. QED
      BY <2>1, <2>2, StepPreserves
  <1>2. CASE Steps(p, Fallback(p), FALSE)
    <2>1. Fallback(p) \in Nat
      BY DEF Fallback
    <2>2. QED
      BY <1>2, <2>1, StepPreserves
  <1>3. QED
    BY <1>1, <1>2

LEMMA WorkPreserves ==
  ASSUME PositionInv, BreakerInv, NEW p \in Positions, Work(p)
  PROVE  PositionInv' /\ BreakerInv'
PROOF
  <1>1. CASE AsksStonfi(p)
    <2>1. PositionInv'
      BY <1>1, AskingPreserves DEF AsksStonfi, Under
    <2>2. BreakerInv'
      BY <1>1, BreakerStep DEF AsksStonfi, BreakerInv, Dexes
    <2>3. QED
      BY <2>1, <2>2
  <1>2. CASE StonfiAnswers(p)
    <2>1. PositionInv'
      BY <1>2, AskingPreserves, PricedStep DEF StonfiAnswers, Under
    <2>2. BreakerInv'
      BY <1>2, BreakerStep DEF StonfiAnswers, BreakerInv, Dexes
    <2>3. QED
      BY <2>1, <2>2
  <1>3. CASE StonfiThrows(p)
    <2>1. PositionInv'
      BY <1>3, AskingPreserves DEF StonfiThrows, Under
    <2>2. BreakerInv'
      BY <1>3, BreakerStep DEF StonfiThrows, BreakerInv, Dexes
    <2>3. QED
      BY <2>1, <2>2
  <1>4. CASE AsksRate(p)
    <2>1. PositionInv'
      BY <1>4, AskingPreserves, PricedStep DEF AsksRate, Under
    <2>2. BreakerInv'
      BY <1>4, BreakerStep DEF AsksRate, BreakerInv, Dexes
    <2>3. QED
      BY <2>1, <2>2
  <1>5. CASE RateAnswers(p)
    <2>1. PositionInv'
      BY <1>5, PricedStep DEF RateAnswers, Under
    <2>2. BreakerInv'
      BY <1>5, BreakerStep DEF RateAnswers, BreakerInv, Dexes
    <2>3. QED
      BY <2>1, <2>2
  <1>6. CASE RateThrows(p)
    <2>1. PositionInv'
      BY <1>6, PricedStep DEF RateThrows, Under
    <2>2. BreakerInv'
      BY <1>6, BreakerStep DEF RateThrows, BreakerInv, Dexes
    <2>3. QED
      BY <2>1, <2>2
  <1>7. CASE AsksDedust(p)
    <2>1. PositionInv'
      BY <1>7, AskingPreserves, PricedStep DEF AsksDedust, Under
    <2>2. BreakerInv'
      BY <1>7, BreakerStep DEF AsksDedust, BreakerInv, Dexes
    <2>3. QED
      BY <2>1, <2>2
  <1>8. CASE DedustAnswers(p)
    <2>1. PositionInv'
      BY <1>8, PricedStep DEF DedustAnswers, Under
    <2>2. BreakerInv'
      BY <1>8, BreakerStep DEF DedustAnswers, BreakerInv, Dexes
    <2>3. QED
      BY <2>1, <2>2
  <1>9. CASE DedustThrows(p)
    <2>1. PositionInv'
      BY <1>9, PricedStep DEF DedustThrows, Under
    <2>2. BreakerInv'
      BY <1>9, BreakerStep DEF DedustThrows, BreakerInv, Dexes
    <2>3. QED
      BY <2>1, <2>2
  <1>10. CASE SaleCloses(p) \/ SaleBounces(p) \/ SaleThrows(p)
    <2>1. PositionInv'
      BY <1>10, ForgetPreserves, BouncePreserves, ThrowPreserves DEF SaleCloses, SaleBounces
    <2>2. UNCHANGED <<breaker, rated>>
      BY <1>10 DEF SaleCloses, SaleBounces, SaleThrows
    <2>3. QED
      BY <2>1, <2>2, BreakerStep DEF BreakerInv
  <1>11. QED
    BY <1>1, <1>2, <1>3, <1>4, <1>5, <1>6, <1>7, <1>8, <1>9, <1>10 DEF Work

LEMMA NextMonitorInv == PositionInv /\ BreakerInv /\ [Next]_vars => PositionInv' /\ BreakerInv'
PROOF
  <1> SUFFICES ASSUME PositionInv, BreakerInv, [Next]_vars PROVE PositionInv' /\ BreakerInv'
    OBVIOUS
  <1>1. CASE ScanBegins
    <2>1. UNCHANGED <<breaker, rated>>
      BY <1>1 DEF ScanBegins
    <2>2. QED
      BY <1>1, <2>1, ScanPreserves, BreakerStep DEF BreakerInv
  <1>2. ASSUME UNCHANGED <<positionVars, due>>
        PROVE  PositionInv'
    BY <1>2 DEF positionVars, PositionInv, PositionTypes, LevelsTrue, TasksTracked, StopsHold,
                BlindSales, Tracked, LevelsFollow
  <1>3. CASE RateExpires
    BY <1>2, <1>3, BreakerStep DEF RateExpires, BreakerInv
  <1>4. CASE Restart
    <2>1. breaker' = [x \in Dexes |-> Closed] /\ rated' = FALSE
      BY <1>4 DEF Restart
    <2>2. QED
      BY <1>4, <2>1, RestartPreserves, BreakerStep
  <1>5. ASSUME NEW p \in Positions, Work(p) PROVE PositionInv' /\ BreakerInv'
    BY <1>5, WorkPreserves
  <1>6. ASSUME NEW p \in Positions, Opens(p) \/ TimeStopPasses(p)
        PROVE  PositionInv' /\ BreakerInv'
    <2>1. UNCHANGED <<breaker, rated>>
      BY <1>6 DEF Opens, TimeStopPasses
    <2>2. QED
      BY <1>6, <2>1, OpenPreserves, TimeStopPreserves, BreakerStep DEF BreakerInv
  <1>7. ASSUME NEW x \in Dexes, ResetTimePasses(x) PROVE PositionInv' /\ BreakerInv'
    BY <1>2, <1>7, BreakerStep DEF ResetTimePasses, BreakerInv
  <1>8. CASE UNCHANGED vars
    BY <1>2, <1>8, BreakerStep DEF vars, BreakerInv
  <1>9. QED
    BY <1>1, <1>3, <1>4, <1>5, <1>6, <1>7, <1>8 DEF Next

(* The inductive invariant: the levels of each position follow from the      *)
(* prices it was stepped with (exit-manager/decide.ts), and the counters of  *)
(* each breaker from its state (shared/resilience.ts).                       *)
THEOREM MonitorInvariant == Spec => [](PositionInv /\ BreakerInv)
BY InitMonitorInv, NextMonitorInv, PTL DEF Spec

(* The positions, the tasks of a scan and the breakers keep their types: a   *)
(* position is given up before its bounces reach the limit, and no breaker   *)
(* counts more failures than its threshold (executor/continuous.ts,          *)
(* shared/resilience.ts).                                                    *)
THEOREM MonitorTypes == Spec => []TypeOK
PROOF
  <1>1. PositionInv /\ BreakerInv => TypeOK
    BY DEF PositionInv, PositionTypes, BreakerInv, TypeOK
  <1>2. QED
    BY <1>1, MonitorInvariant, PTL

(* stepPosition (exit-manager/decide.ts) never holds a position through one  *)
(* of its stops, whatever prices it has been stepped with before, the        *)
(* fallback among them, and however often its exit bounced.                  *)
THEOREM NoPositionHeldThroughStops == Spec => []StopsHold
PROOF
  <1>1. PositionInv => StopsHold
    BY DEF PositionInv
  <1>2. QED
    BY <1>1, MonitorInvariant, PTL

(* The fallback price of fetchCurrentPriceTon (executor/continuous.ts) sells *)
(* only a position that was ahead, one past its time-stop, or one whose exit *)
(* had been decided before.                                                  *)
THEOREM FallbackSellsNoneAnew == Spec => []BlindSales
PROOF
  <1>1. PositionInv => BlindSales
    BY DEF PositionInv
  <1>2. QED
    BY <1>1, MonitorInvariant, PTL

(* A breaker that is not closed has its failures at the threshold, as only a *)
(* success resets them: any failure of a probe opens it again, and the limit *)
(* of half-open probes (shared/resilience.ts, onFailure) never decides.      *)
THEOREM HalfOpenLimitIdle == Spec => []FailuresStay
PROOF
  <1>1. BreakerInv => FailuresStay
    BY DEF BreakerInv
  <1>2. QED
    BY <1>1, MonitorInvariant, PTL
=============================================================================
