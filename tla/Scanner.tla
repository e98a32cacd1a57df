------------------------------ MODULE Scanner ------------------------------
(***************************************************************************)
(* The scanner (packages/scanner/src): a tick every interval, whether the  *)
(* one before it has ended or not.  A tick lists jettons, visits them in   *)
(* batches, skips those seen lately, audits the others over TONAPI and     *)
(* publishes an envelope for each.  All TONAPI calls of the process share  *)
(* a few slots (tonapi.ts), given out in order and not too soon after one  *)
(* was given back.                                                         *)
(*                                                                         *)
(* A step is the code between two awaits; the visits of one batch, which   *)
(* have no await between them, are one step each and let nothing but the   *)
(* clock in between.  Ages are in ticks of the clock.                      *)
(***************************************************************************)
EXTENDS Integers, Sequences, FiniteSets, Subsequences

CONSTANTS Ticks,          \* bound: ticks under way at once
          Masters,        \* jettons
          Detail,         \* what TONAPI knows of each
          Assets,         \* lists STON.fi may answer with
          Jettons,        \* lists TONAPI may answer with
          Pools,          \* what STON.fi may tell of a jetton's pool
          BatchSize,      \* 6
          Ttl,            \* SCAN_SEEN_TTL_MS
          MaxEntries,     \* of the cache: 10 000
          MaxConcurrent, MaxAttempts,   \* of SCANNER_CONFIG.tonapi
          MaxTimers,      \* bound: timers that are counted
          MaxFaults       \* bound: appends that throw

Unread == -1   \* null
Verifications == {"whitelisted", "trusted", "none"}
Nano == 1000   \* nanotons in a TON, scaled down

Listing == "list"
Distinct(s) == \A i, j \in 1..Len(s) : s[i] = s[j] => i = j

ASSUME ScannerAssumption ==
  /\ Detail \in [Masters -> [verification : Verifications, admin : BOOLEAN,
                             mintable : BOOLEAN, holders : Int]]
  /\ Assets \subseteq Seq(Masters) /\ Jettons \subseteq Seq(Masters)
  /\ Listing \notin Masters
  /\ \A views \in Assets \cup Jettons : Distinct(views)   \* of a page of an API
  /\ Pools \subseteq [found : {"pool", "usdt pool", "price", "nothing"}, worth : Nat, ton : Nat]
  /\ BatchSize \in Nat \ {0} /\ Ttl \in Nat \ {0} /\ MaxEntries \in Nat \ {0}
  /\ MaxConcurrent \in Nat \ {0} /\ MaxAttempts \in Nat \ {0}
  /\ MaxTimers \in Nat \ {0} /\ MaxConcurrent <= MaxTimers /\ MaxFaults \in Nat

VARIABLES
  phase,      \* where a tick is
  rest, todo, \* views of a tick in later batches, and in this one not yet visited
  seen,       \* SeenCache: entries [master, age], the oldest first
  queue, inflight, gap, timers,  \* tonapi.ts: waiting calls, slots in use, whether
              \*   minGapMs since the last release has still to pass, tryDrain timers
  fetching,   \* calls that have a slot
  tries,      \* their attempts
  posting,    \* envelopes that are being posted
  visited,    \* history: how long ago each jetton was last visited,
  evicted,    \*   and those whose entry was pushed out since
  faults

tickVars == <<phase, rest, todo>>
slotVars == <<queue, inflight, gap, timers, fetching, tries>>
history  == <<visited, evicted>>
vars == <<tickVars, seen, slotVars, posting, history, faults>>
-----------------------------------------------------------------------------
Jobs == Ticks \X (Masters \cup {Listing})   \* TONAPI calls
Contains(s, x) == \E i \in DOMAIN s : s[i] = x
InQueue(j) == Contains(queue, j)

(* A token of a tick is still being audited or posted. *)
Underway(t) == \E m \in Masters : \/ InQueue(<<t, m>>) \/ <<t, m>> \in fetching
                                  \/ \E e \in posting : e.tick = t /\ e.master = m

Init == /\ phase = [t \in Ticks |-> "idle"]
        /\ rest = [t \in Ticks |-> <<>>] /\ todo = [t \in Ticks |-> <<>>]
        /\ seen = <<>>
        /\ queue = <<>> /\ inflight = 0 /\ gap = FALSE /\ timers = 0
        /\ fetching = {} /\ tries = [j \in Jobs |-> 0]
        /\ posting = {}
        /\ visited = [m \in Masters |-> Ttl] /\ evicted = {}
        /\ faults = 0
-----------------------------------------------------------------------------
(* SeenCache *)
FreshForever(e) == TRUE   \* slip: an entry is never dropped
Fresh(e) == e.age < Ttl

Has(s, m) == \E i \in DOMAIN s : s[i].master = m /\ Fresh(s[i])

Prune(s) == Subsequence(s, {i \in 1..Len(s) : Fresh(s[i])})

Without(s, m) == Subsequence(s, {i \in 1..Len(s) : s[i].master # m})

(* add: at the end; what is over the limit goes at the front. *)
Added(s, m) == Append(Without(s, m), [master |-> m, age |-> 0])

Drop(n, s) == IF n > 0 THEN SubSeq(s, n + 1, Len(s)) ELSE s

AddUnbounded(s, m) == Added(s, m)   \* slip: nothing is pushed out
Add(s, m) == Drop(Len(Added(s, m)) - MaxEntries, Added(s, m))
-----------------------------------------------------------------------------
(* tonapi.ts *)
Timer(n) == IF n < MaxTimers THEN n + 1 ELSE n

(* tryDrain, with q waiting and n timers left: it serves one call, or sets   *)
(* a timer for the end of the gap.                                           *)
TryDrain(q, n) ==
  IF q = <<>> \/ inflight >= MaxConcurrent
    THEN queue' = q /\ timers' = n /\ UNCHANGED <<inflight, fetching, tries>>
  ELSE IF gap
    THEN queue' = q /\ timers' = Timer(n) /\ UNCHANGED <<inflight, fetching, tries>>
  ELSE /\ queue' = Tail(q) /\ timers' = n
       /\ inflight' = inflight + 1 /\ fetching' = fetching \cup {Head(q)}
       /\ tries' = [tries EXCEPT ![Head(q)] = 1]

AcquireSlot(j) == TryDrain(Append(queue, j), timers) /\ UNCHANGED gap

ReleaseUnannounced(j) ==   \* slip: no timer is set
  /\ inflight' = inflight - 1 /\ fetching' = fetching \ {j} /\ gap' = TRUE
  /\ tries' = [tries EXCEPT ![j] = 0] /\ UNCHANGED <<queue, timers>>

(* The finally of tonapiGet. *)
Release(j) == /\ inflight' = inflight - 1 /\ fetching' = fetching \ {j}
              /\ gap' = TRUE /\ timers' = Timer(timers)
              /\ tries' = [tries EXCEPT ![j] = 0]
              /\ UNCHANGED queue

TimerFires == /\ timers > 0
              /\ TryDrain(queue, timers - 1)
              /\ UNCHANGED <<tickVars, seen, gap, posting, history, faults>>

GapElapses == /\ gap /\ gap' = FALSE
              /\ UNCHANGED <<tickVars, seen, queue, inflight, timers, fetching, tries,
                             posting, history, faults>>

(* 429, 5xx or no answer: the call sleeps and asks again, in its slot. *)
Retries(j) == /\ j \in fetching /\ tries[j] < MaxAttempts
              /\ tries' = [tries EXCEPT ![j] = @ + 1]
              /\ UNCHANGED <<tickVars, seen, queue, inflight, gap, timers, fetching,
                             posting, history, faults>>
-----------------------------------------------------------------------------
(* startScanner: a timer starts a tick. *)
TickStarts(t) ==
  /\ phase[t] = "idle" /\ ~Underway(t)
  /\ phase' = [phase EXCEPT ![t] = "assets"] /\ seen' = Prune(seen)
  /\ UNCHANGED <<rest, todo, slotVars, posting, history, faults>>

(* listRecent: STON.fi answers, or does not; then TONAPI is asked. *)
AssetsListed(t) ==
  /\ phase[t] = "assets" /\ phase' = [phase EXCEPT ![t] = "listing"]
  /\ \E views \in Assets : rest' = [rest EXCEPT ![t] = views]
  /\ AcquireSlot(<<t, Listing>>)
  /\ UNCHANGED <<todo, seen, posting, history, faults>>

(* What the first list does not have is added to it. *)
JettonsListed(t) ==
  /\ <<t, Listing>> \in fetching /\ Release(<<t, Listing>>)
  /\ \E views \in Jettons :
       LET new == {i \in 1..Len(views) : ~Contains(rest[t], views[i])}
       IN  rest' = [rest EXCEPT ![t] = @ \o Subsequence(views, new)]
  /\ phase' = [phase EXCEPT ![t] = "batches"]
  /\ UNCHANGED <<todo, seen, posting, history, faults>>

(* runScanTick *)
NextBatch(t) ==
  /\ phase[t] = "batches" /\ rest[t] # <<>> /\ ~Underway(t)
  /\ LET n == IF Len(rest[t]) < BatchSize THEN Len(rest[t]) ELSE BatchSize
     IN  /\ todo' = [todo EXCEPT ![t] = SubSeq(rest[t], 1, n)]
         /\ rest' = [rest EXCEPT ![t] = Drop(n, @)]
  /\ UNCHANGED <<phase, seen, slotVars, posting, history, faults>>

TickEnds(t) ==
  /\ phase[t] = "batches" /\ rest[t] = <<>> /\ ~Underway(t)
  /\ phase' = [phase EXCEPT ![t] = "idle"]
  /\ UNCHANGED <<rest, todo, seen, slotVars, posting, history, faults>>

(* One view of a batch, up to the await of its audit. *)
Skips(t) == /\ todo[t] # <<>> /\ Has(seen, Head(todo[t]))
            /\ todo' = [todo EXCEPT ![t] = Tail(@)]
            /\ UNCHANGED <<phase, rest, seen, slotVars, posting, history, faults>>

Remembered(s) == {s[i].master : i \in DOMAIN s}

MarksLater(m) == UNCHANGED <<seen, evicted>>   \* slip: not marked before the audit
Marks(m) == /\ seen' = Add(seen, m)
            /\ evicted' = (evicted \cup (Remembered(seen) \ Remembered(seen'))) \ {m}

Visits(t) ==
  /\ todo[t] # <<>> /\ ~Has(seen, Head(todo[t]))
  /\ LET m == Head(todo[t])
     IN  /\ Marks(m) /\ visited' = [visited EXCEPT ![m] = 0]
         /\ AcquireSlot(<<t, m>>)
  /\ todo' = [todo EXCEPT ![t] = Tail(@)]
  /\ UNCHANGED <<phase, rest, posting, faults>>
-----------------------------------------------------------------------------
(* auditJetton of a jetton that TONAPI describes. *)
Whitelisted(d) == d.verification = "whitelisted"
RenouncedIfKnown(d) ==   \* slip: trusted counts as whitelisted
  ~d.admin \/ ~d.mintable \/ d.verification # "none"
Renounced(d) == ~d.admin \/ ~d.mintable \/ Whitelisted(d)
Locked(d) == d.verification # "none" \/ Renounced(d)
Honeypot(d) == d.verification = "none" /\ d.mintable /\ d.admin

(* fetchPoolForMaster: the first that is found of a pool of the jetton, its   *)
(* pool with USDT, and its price.  A pool's liquidity is what its LP tokens   *)
(* are worth (here in TON); failing that, of a pool, twice the balance of its *)
(* second token, in the units of the chain and not in TON.                    *)
Liquidity(a) ==
  CASE a.found \in {"pool", "usdt pool"} /\ a.worth > 0   -> a.worth
    [] a.found = "pool" /\ a.worth = 0 /\ a.ton > 0      -> 2 * a.ton * Nano
    [] OTHER                                            -> Unread

(* computeScore, on a flag that is true of what is safe. *)
HoldersDeduction(n) == CASE n = Unread -> 20 [] n \in 0..9 -> 15 [] n \in 10..99 -> 10
                         [] n \in 100..499 -> 5 [] OTHER -> 0

LiquidityDeduction(l) == CASE l < 10 -> 10 [] l \in 10..99 -> 5 [] OTHER -> 0

Risk(d, l) == (IF Renounced(d) THEN 0 ELSE 25) + (IF Locked(d) THEN 0 ELSE 30)
              + (IF Honeypot(d) THEN 40 ELSE 0) + HoldersDeduction(d.holders)
              + 15   \* the age is never known
              + LiquidityDeduction(l)
Soft(d, l) == IF Risk(d, l) > 100 THEN 0 ELSE 100 - Risk(d, l)

(* The audit's slot is given back; its answer becomes an envelope, to be     *)
(* posted to the signal bus.                                                 *)
AuditAnswers(t, m) ==
  /\ <<t, m>> \in fetching /\ Release(<<t, m>>)
  /\ \E a \in Pools :
       posting' = posting \cup
                    {[tick |-> t, master |-> m, soft |-> Soft(Detail[m], Liquidity(a))]}
  /\ UNCHANGED <<tickVars, seen, history, faults>>

(* Promise.all rejects, the catch of tick takes over: the later batches are  *)
(* not visited, the other tokens of this one go on.                          *)
TickFails(t) == /\ faults < MaxFaults /\ faults' = faults + 1
                /\ phase' = [phase EXCEPT ![t] = "idle"] /\ rest' = [rest EXCEPT ![t] = <<>>]
                /\ UNCHANGED todo

(* A row is appended to the signals journal, or the append throws. *)
Appends(t) == UNCHANGED <<tickVars, faults>> \/ TickFails(t)

(* No detail, a scam, or an envelope that is not valid: a row says so.       *)
AuditDrops(t, m) == /\ <<t, m>> \in fetching /\ Release(<<t, m>>)
                    /\ Appends(t)
                    /\ UNCHANGED <<seen, posting, history>>

(* The bus answers, or five seconds have passed; the envelope is journaled.  *)
PostReturns(e) == /\ e \in posting /\ posting' = posting \ {e}
                  /\ Appends(e.tick)
                  /\ UNCHANGED <<seen, slotVars, history>>

Older(e) == [e EXCEPT !.age = IF @ < Ttl THEN @ + 1 ELSE @]

Clock == /\ seen' = [i \in DOMAIN seen |-> Older(seen[i])]
         /\ visited' = [m \in Masters |-> IF visited[m] < Ttl THEN visited[m] + 1 ELSE Ttl]
         /\ UNCHANGED <<tickVars, slotVars, posting, evicted, faults>>
-----------------------------------------------------------------------------
Visiting == \E t \in Ticks : todo[t] # <<>>

Visit == \E t \in Ticks : Skips(t) \/ Visits(t)

(* What a tick does once it has begun. *)
Work == \/ \E t \in Ticks : \/ AssetsListed(t) \/ JettonsListed(t)
                           \/ NextBatch(t) \/ TickEnds(t)
        \/ \E t \in Ticks, m \in Masters : AuditAnswers(t, m) \/ AuditDrops(t, m)
        \/ \E j \in fetching : Retries(j)
        \/ \E e \in posting : PostReturns(e)
        \/ TimerFires \/ GapElapses

Next == \/ Clock
        \/ Visit
        \/ ~Visiting /\ (Work \/ \E t \in Ticks : TickStarts(t))

Spec == Init /\ [][Next]_vars

(* Requests time out and timers fire; setInterval is never cleared; time     *)
(* passes.                                                                   *)
FairSpec == /\ Spec
            /\ WF_vars(Visit) /\ WF_vars(~Visiting /\ Work)
            /\ WF_vars(~Visiting /\ \E t \in Ticks : TickStarts(t))
            /\ WF_vars(Clock)
-----------------------------------------------------------------------------
Entry == [master : Masters, age : 0..Ttl]
Envelope == [tick : Ticks, master : Masters, soft : 0..100]

TypeOK ==
  /\ phase \in [Ticks -> {"idle", "assets", "listing", "batches"}]
  /\ rest \in [Ticks -> Seq(Masters)] /\ todo \in [Ticks -> Seq(Masters)]
  /\ seen \in Seq(Entry) /\ Len(seen) <= MaxEntries
  /\ queue \in Seq(Jobs) /\ inflight \in 0..MaxConcurrent
  /\ gap \in BOOLEAN /\ timers \in 0..MaxTimers
  /\ fetching \subseteq Jobs /\ tries \in [Jobs -> 0..MaxAttempts]
  /\ posting \subseteq Envelope
  /\ visited \in [Masters -> 0..Ttl] /\ evicted \subseteq Masters
  /\ faults \in 0..MaxFaults

(* pipeline.ts marks a jetton before it awaits the audit: however many ticks *)
(* overlap, and whether they fail, a jetton is audited again no sooner than  *)
(* SCAN_SEEN_TTL_MS after it was last, unless the cache had to push it out.  *)
Audited(t, m) == InQueue(<<t, m>>) \/ <<t, m>> \in fetching

OncePerWindow ==
  [][\A t \in Ticks, m \in Masters :
       ~Audited(t, m) /\ Audited(t, m)' /\ m \notin evicted => visited[m] = Ttl]_vars

(* "suppressed for a window, not forever" (index.ts): a jetton that is       *)
(* listed again and again is audited again and again, though every append    *)
(* that throws ends a tick before its later batches.                         *)
Listed(m) == \E t \in Ticks : Contains(todo[t], m)
Reevaluated ==
  \A m \in Masters : []<>Listed(m) => []<>(\E t \in Ticks : Audited(t, m))

(* Four calls at a time, first come first served, and nobody is left waiting *)
(* although a slot is free: each release has a timer that looks again.       *)
Slots == INSTANCE FifoSemaphore
           WITH Users <- Jobs, Permits <- MaxConcurrent, waiting <- queue, holding <- fetching
SlotsSpec == Slots!Spec

(* The score (score.ts, on the flags of audit.ts) keeps what can be minted   *)
(* by its admin below the gates' trade floor, unless it is whitelisted.      *)
TradeFloor == 70   \* risk-gates: GATE_TRADE_FLOOR_SCORE
TradeableIsNotMintable ==
  \A e \in posting :
    LET d == Detail[e.master]
    IN  e.soft >= TradeFloor => ~d.admin \/ ~d.mintable \/ Whitelisted(d)
=============================================================================
