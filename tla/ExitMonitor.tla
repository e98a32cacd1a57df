---------------------------- MODULE ExitMonitor ----------------------------
(***************************************************************************)
(* How the executor prices its open positions and decides on them: each    *)
(* scan asks STON.fi for the price of every position, then DeDust, both    *)
(* through a circuit breaker that all positions share (shared/resilience), *)
(* falls back to the entry price (executor/continuous.ts), steps the       *)
(* position (exit-manager/decide.ts, mode snipe) and sells what it says.   *)
(*                                                                         *)
(* Prices are in thousandths of the entry price.  What an exchange answers *)
(* is any quote: the TON price it is divided by may be minutes old, or the *)
(* default.  The queue, the journals and a second buy of a token are in    *)
(* ContinuousExecutor; no position is dust, and none has ladder exits or a *)
(* swing low, as the executor opens none with them.                        *)
(***************************************************************************)
EXTENDS Integers, FiniteSets

CONSTANTS Positions,              \* tokens a position may be open of
          Quotes,                 \* prices each may be quoted at
          StopLoss, TakeProfit,   \* of each
          BounceLimit,            \* 3
          Threshold,              \* failureThreshold: 5
          HalfOpenMaxCalls        \* 3

Entry == 1000

ASSUME MonitorAssumption ==
  /\ Quotes \in [Positions -> SUBSET Nat]
  /\ StopLoss \in [Positions -> 1..(Entry - 1)]
  /\ TakeProfit \in [Positions -> Nat] /\ \A p \in Positions : TakeProfit[p] > Entry
  /\ BounceLimit \in Nat \ {0} /\ Threshold \in Nat \ {0} /\ HalfOpenMaxCalls \in Nat \ {0}

VARIABLES
  pos,       \* openPositionsMap
  task,      \* where the task of a position is, in this scan
  breaker,   \* stonFiBreaker and dedustBreaker
  rated,     \* the TON price was fetched in the last minute
  due,       \* positions past their time-stop
  blind,     \* history: positions whose exit was decided on the fallback,
  held,      \*   the price a position was held at in the last scan, or None,
  high       \*   and the highest price it was stepped with by this process

positionVars == <<pos, task, blind, held, high>>
vars == <<positionVars, breaker, rated, due>>
-----------------------------------------------------------------------------
Dexes == {"stonfi", "dedust"}
None == -1      \* null
NoPosition == [peak |-> None]

(* openPosition *)
Opened == [peak |-> Entry, trail |-> None, flip |-> None, trend |-> "unknown",
           even |-> FALSE, takes |-> {}, bounces |-> 0]

Tracked == {p \in Positions : pos[p] # NoPosition}

Closed == [state |-> "CLOSED", failures |-> 0, probes |-> 0, cooling |-> FALSE]

Init == /\ pos \in [Positions -> {NoPosition, Opened}]
        /\ task = [p \in Positions |-> "off"]
        /\ breaker = [x \in Dexes |-> Closed] /\ rated = FALSE
        /\ due = {}
        /\ blind = {} /\ held = [p \in Positions |-> None]
        /\ high = [p \in Positions |-> Entry]
-----------------------------------------------------------------------------
(* CircuitBreaker.  cooling: resetTimeoutMs has still to pass since the last *)
(* failure.  Failures past the threshold are not counted.                    *)
Refuses(b) == b.state = "OPEN" /\ b.cooling

Entered(b) == IF b.state = "OPEN" THEN [b EXCEPT !.state = "HALF_OPEN", !.probes = 0] ELSE b

SucceededInPlace(b) == [b EXCEPT !.failures = 0]   \* slip: the state is not set
Succeeded(b) == Closed

Failed(b) ==
  LET counted == [b EXCEPT !.failures = IF @ < Threshold THEN @ + 1 ELSE @]
      probed  == [counted EXCEPT !.probes = @ + 1]
      Opens(c) == [c EXCEPT !.state = "OPEN", !.cooling = TRUE]
  IN IF counted.failures >= Threshold THEN Opens(counted)
     ELSE IF b.state # "HALF_OPEN" THEN counted
     ELSE IF probed.probes >= HalfOpenMaxCalls THEN Opens(probed) ELSE probed

ResetTimePasses(x) == /\ breaker[x].cooling
                      /\ breaker' = [breaker EXCEPT ![x].cooling = FALSE]
                      /\ UNCHANGED <<positionVars, rated, due>>

(* execute: the call is refused, or made ... *)
Calls(x) == ~Refuses(breaker[x]) /\ breaker' = [breaker EXCEPT ![x] = Entered(@)]

(* ... and returns, with an answer good or bad, or throws. *)
Answers(x) == breaker' = [breaker EXCEPT ![x] = Succeeded(@)]
Throws(x)  == breaker' = [breaker EXCEPT ![x] = Failed(@)]
-----------------------------------------------------------------------------
(* stepPosition: the levels, raised by the price x.                          *)
BreakEvenAt == 1020           \* beActivatePct of snipe
Chandelier  == 60             \* 1.2 of an ATR of 5 %
Take == [i \in {0, 1} |-> IF i = 0 THEN 1300 ELSE 1500]   \* partialTakes

Peak(r, x) == IF x > r.peak THEN x ELSE r.peak

Trail(r, x) ==
  LET stop == Peak(r, x) - Chandelier
  IN CASE r.trail = None /\ Peak(r, x) > Entry           -> stop
       [] r.trail # None /\ Peak(r, x) > r.peak /\ stop > r.trail -> stop
       [] OTHER                                          -> r.trail

Trend(r, x) == IF r.flip = None /\ Trail(r, x) # None THEN "up" ELSE r.trend
Flip(r, x) ==
  IF r.flip = None \/ (r.trend = "up" /\ Trail(r, x) > r.flip) THEN Trail(r, x) ELSE r.flip

SteppedAnew(r, x) ==   \* slip: the break-even stop is armed for the tick only
  [r EXCEPT !.peak = Peak(r, x), !.trail = Trail(r, x), !.flip = Flip(r, x),
            !.trend = Trend(r, x), !.even = (x >= BreakEvenAt)]
Stepped(r, x) ==
  [r EXCEPT !.peak = Peak(r, x), !.trail = Trail(r, x), !.flip = Flip(r, x),
            !.trend = Trend(r, x), !.even = (@ \/ x >= BreakEvenAt)]

(* The levels, in the order in which they are tried. *)
TakesReached(r, x) == {i \in DOMAIN Take \ r.takes : x >= Take[i]}

(* 35 % of a strong peak gain are given back, or half of a moderate one.     *)
Faded(r, x) == LET gain == r.peak - Entry
               IN \/ gain >= 80 /\ 100 * (x - Entry) <= 65 * gain
                  \/ gain >= 35 /\ gain < 80 /\ 2 * (x - Entry) <= gain

TrendFlips(r, x) == /\ r.flip # None
                    /\ \/ r.trend = "up" /\ x <= r.flip
                       \/ r.trend = "down" /\ x >= r.flip

Stopped(r, x) == \/ r.even /\ x <= Entry
                 \/ r.trail # None /\ x <= r.trail

Action(p, r, x) ==
  IF p \in due THEN "time_stop"
  ELSE IF TakesReached(r, x) # {} THEN "partial_tp"
  ELSE IF Faded(r, x) THEN "momentum_reversal"
  ELSE IF TrendFlips(r, x) THEN "trend_reversal"
  ELSE IF Stopped(r, x) THEN "stop"
  ELSE IF x >= TakeProfit[p] THEN "tp"
  ELSE IF x <= StopLoss[p] THEN "sl"
  ELSE "hold"

(* The position as the map keeps it: an exit is remembered before it is sold. *)
Decided(r, x, action) ==
  CASE action = "partial_tp" ->
         [r EXCEPT !.takes = @ \cup {CHOOSE i \in TakesReached(r, x) :
                                       \A j \in TakesReached(r, x) : i <= j}]
    [] action \in {"momentum_reversal", "trend_reversal"} -> [r EXCEPT !.trend = "down"]
    [] OTHER -> r
-----------------------------------------------------------------------------
(* scanAndProcess: one task for every position, unless its exit is marked;   *)
(* the next scan waits for all of them.                                      *)
Under == {"asking", "stonfi", "rating", "rate", "turning", "dedust", "selling"}
Scanning == \E p \in Positions : task[p] \in Under

Goto(p, place) == task' = [task EXCEPT ![p] = place]

ScanBegins ==
  /\ ~Scanning
  /\ task' = [p \in Positions |-> IF p \in Tracked /\ task[p] = "off" THEN "asking" ELSE task[p]]
  /\ held' = [p \in Positions |-> None]
  /\ UNCHANGED <<pos, breaker, rated, due, blind, high>>

(* The position is stepped with the price x, and offered for sale unless the *)
(* step says hold.                                                           *)
Steps(p, x, priced) ==
  LET r      == Stepped(pos[p], x)
      action == Action(p, r, x)
  IN /\ pos' = [pos EXCEPT ![p] = Decided(r, x, action)]
     /\ Goto(p, IF action = "hold" THEN "off" ELSE "selling")
     /\ blind' = IF action # "hold" /\ ~priced THEN blind \cup {p} ELSE blind \ {p}
     /\ held' = [held EXCEPT ![p] = IF action = "hold" THEN x ELSE None]
     /\ high' = [high EXCEPT ![p] = IF x > @ THEN x ELSE @]
     /\ UNCHANGED due

Priced(p) == \E x \in Quotes[p] : Steps(p, x, TRUE)

FallbackNone(p) == 0   \* slip: no price counts as zero
(* fetchCurrentPriceTon's last resort. *)
Fallback(p) == Entry

AsksStonfi(p) ==
  /\ task[p] = "asking"
  /\ \/ Calls("stonfi") /\ Goto(p, "stonfi")
     \/ Refuses(breaker["stonfi"]) /\ Goto(p, "turning") /\ UNCHANGED breaker
  /\ UNCHANGED <<pos, blind, held, high, rated, due>>

(* A usable answer needs the TON price, which is fetched through the same    *)
(* breaker when it is a minute old; any other answer turns to DeDust.        *)
StonfiAnswers(p) ==
  /\ task[p] = "stonfi" /\ Answers("stonfi")
  /\ \/ rated /\ Priced(p)
     \/ /\ ~rated /\ Goto(p, "rating")
        /\ UNCHANGED <<pos, blind, held, high, due>>
     \/ /\ Goto(p, "turning")
        /\ UNCHANGED <<pos, blind, held, high, due>>
  /\ UNCHANGED rated

StonfiThrows(p) ==
  /\ task[p] = "stonfi" /\ Throws("stonfi") /\ Goto(p, "turning")
  /\ UNCHANGED <<pos, blind, held, high, rated, due>>

(* getTonPriceUsd *)
AsksRate(p) ==
  /\ task[p] = "rating"
  /\ \/ /\ Calls("stonfi") /\ Goto(p, "rate")
        /\ UNCHANGED <<pos, blind, held, high, due>>
     \/ Refuses(breaker["stonfi"]) /\ Priced(p) /\ UNCHANGED breaker
  /\ UNCHANGED rated

RateAnswers(p) ==
  /\ task[p] = "rate" /\ Answers("stonfi") /\ rated' \in {rated, TRUE}
  /\ Priced(p)

RateThrows(p) ==
  /\ task[p] = "rate" /\ Throws("stonfi") /\ Priced(p)
  /\ UNCHANGED rated

RateExpires == /\ rated /\ rated' = FALSE
               /\ UNCHANGED <<positionVars, breaker, due>>

AsksDedust(p) ==
  /\ task[p] = "turning"
  /\ \/ /\ Calls("dedust") /\ Goto(p, "dedust")
        /\ UNCHANGED <<pos, blind, held, high, due>>
     \/ Refuses(breaker["dedust"]) /\ Steps(p, Fallback(p), FALSE) /\ UNCHANGED breaker
  /\ UNCHANGED rated

DedustAnswers(p) ==
  /\ task[p] = "dedust" /\ Answers("dedust")
  /\ Priced(p) \/ Steps(p, Fallback(p), FALSE)
  /\ UNCHANGED rated

DedustThrows(p) ==
  /\ task[p] = "dedust" /\ Throws("dedust") /\ Steps(p, Fallback(p), FALSE)
  /\ UNCHANGED rated
-----------------------------------------------------------------------------
(* The queued sale ends. *)
Forget(p) == /\ pos' = [pos EXCEPT ![p] = NoPosition] /\ due' = due \ {p}
             /\ blind' = blind \ {p} /\ held' = [held EXCEPT ![p] = None]
             /\ high' = [high EXCEPT ![p] = Entry]

SaleCloses(p) == /\ task[p] = "selling" /\ Forget(p) /\ Goto(p, "off")
                 /\ UNCHANGED <<breaker, rated>>

SaleBouncesOnceMore(p) ==   \* slip: the limit is off by one
  /\ task[p] = "selling" /\ Goto(p, "off")
  /\ IF pos[p].bounces + 1 > BounceLimit THEN Forget(p)
     ELSE /\ pos' = [pos EXCEPT ![p].bounces = @ + 1] /\ blind' = blind \ {p}
          /\ UNCHANGED <<due, held, high>>
  /\ UNCHANGED <<breaker, rated>>

(* It is tried again in a later scan, or given up.                           *)
SaleBounces(p) ==
  /\ task[p] = "selling" /\ Goto(p, "off")
  /\ IF pos[p].bounces + 1 >= BounceLimit THEN Forget(p)
     ELSE /\ pos' = [pos EXCEPT ![p].bounces = @ + 1] /\ blind' = blind \ {p}
          /\ UNCHANGED <<due, held, high>>
  /\ UNCHANGED <<breaker, rated>>

(* It throws, or the row of its closing cannot be appended: the exit stays   *)
(* marked.                                                                   *)
SaleThrows(p) == /\ task[p] = "selling" /\ Goto(p, "marked")
                 /\ blind' = blind \ {p}
                 /\ UNCHANGED <<pos, held, high, breaker, rated, due>>
-----------------------------------------------------------------------------
(* A buy has filled. *)
Opens(p) == /\ pos[p] = NoPosition /\ pos' = [pos EXCEPT ![p] = Opened]
            /\ UNCHANGED <<task, blind, held, high, breaker, rated, due>>

(* A scan compares the age with the time at which it began. *)
TimeStopPasses(p) == /\ p \in Tracked \ due /\ ~Scanning /\ due' = due \cup {p}
                     /\ UNCHANGED <<positionVars, breaker, rated>>

(* The positions journal has the row of the opening only; a sell row of the  *)
(* token, be it of a bounce or of an earlier position, hides that.           *)
Restart == /\ \E kept \in SUBSET {p \in Tracked : pos[p].bounces = 0} :
                /\ pos' = [p \in Positions |-> IF p \in kept THEN Opened ELSE NoPosition]
                /\ due' = due \cap kept
           /\ task' = [p \in Positions |-> "off"]
           /\ breaker' = [x \in Dexes |-> Closed] /\ rated' = FALSE
           /\ blind' = {} /\ held' = [p \in Positions |-> None]
           /\ high' = [p \in Positions |-> Entry]
-----------------------------------------------------------------------------
Work(p) == \/ AsksStonfi(p) \/ StonfiAnswers(p) \/ StonfiThrows(p)
           \/ AsksRate(p) \/ RateAnswers(p) \/ RateThrows(p)
           \/ AsksDedust(p) \/ DedustAnswers(p) \/ DedustThrows(p)
           \/ SaleCloses(p) \/ SaleBounces(p) \/ SaleThrows(p)

Next == \/ ScanBegins \/ RateExpires \/ Restart
        \/ \E p \in Positions : Work(p) \/ Opens(p) \/ TimeStopPasses(p)
        \/ \E x \in Dexes : ResetTimePasses(x)

Spec == Init /\ [][Next]_vars

(* Fetches time out after three or four seconds, the poll timer is set again *)
(* after every scan, and the clock goes on.  The tasks of a scan take        *)
(* finitely many steps, so that some task steps while one can is enough.     *)
FairSpec == /\ Spec /\ WF_vars(ScanBegins \/ \E p \in Positions : Work(p))
            /\ \A x \in Dexes : WF_vars(ResetTimePasses(x))
-----------------------------------------------------------------------------
Levels == Nat \cup {None}
Position == [peak : Nat, trail : Levels, flip : Levels, trend : {"unknown", "up", "down"},
             even : BOOLEAN, takes : SUBSET DOMAIN Take, bounces : 0..BounceLimit - 1]
Breaker == [state : {"CLOSED", "OPEN", "HALF_OPEN"}, failures : 0..Threshold,
            probes : 0..HalfOpenMaxCalls, cooling : BOOLEAN]

TypeOK ==
  /\ pos \in [Positions -> Position \cup {NoPosition}]
  /\ task \in [Positions -> Under \cup {"off", "marked"}]
  /\ breaker \in [Dexes -> Breaker] /\ rated \in BOOLEAN
  /\ due \subseteq Positions /\ blind \subseteq Positions
  /\ held \in [Positions -> Levels] /\ high \in [Positions -> Nat]

(* What the stops of decide.ts add up to, told from the prices alone and not *)
(* from the levels a position carries: a position is held at a price only if *)
(* that is between its fixed stops, above its trailing stop, and with enough *)
(* of the highest gain this process has seen left, through any number of     *)
(* bounced exits.  (A restart forgets the gain.)                             *)
StopsHold ==
  \A p \in Positions : held[p] # None =>
    LET gain == high[p] - Entry
        left == held[p] - Entry
    IN /\ StopLoss[p] < held[p] /\ held[p] < TakeProfit[p]
       /\ gain > 0 => gain - left < Chandelier
       /\ high[p] >= BreakEvenAt => left > 0
       /\ gain >= 35 => 2 * left > gain
       /\ gain >= 80 => 100 * left > 65 * gain

(* The fallback to the entry price, when no exchange answers: it never makes *)
(* the executor sell a position one that this process has never seen ahead *)
(* by the break-even margin; only the time-stop does, or an exit already     *)
(* decided that bounced.                                                     *)
BlindSales ==
  \A p \in blind : task[p] = "selling" =>
    high[p] >= BreakEvenAt \/ p \in due \/ pos[p].bounces > 0

(* A breaker shuts an exchange out for a while and not for good: once calls  *)
(* to the exchange throw no longer, it closes and stays closed if there is   *)
(* something to ask, however many calls it refuses and in whatever order the *)
(* calls still in flight return.                                             *)
Wanted(x) == \E p \in Positions : task[p] = IF x = "stonfi" THEN "asking" ELSE "turning"
CallThrows(x) == \E p \in Positions : IF x = "stonfi" THEN StonfiThrows(p) \/ RateThrows(p)
                                                      ELSE DedustThrows(p)
BreakersRecover ==
  \A x \in Dexes :
    <>[][~CallThrows(x)]_vars /\ []<>Wanted(x) => <>[](breaker[x].state = "CLOSED")
=============================================================================
