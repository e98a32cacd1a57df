----------------------------- MODULE SwapRouter -----------------------------
(***************************************************************************)
(* The DEX router (packages/executor/src/acton/router.ts) with what it     *)
(* calls: the gas guards, the per-tier transfer lock (locked-wallet.ts),   *)
(* the balance-delta proofs (verify.ts) and the dead-pool cache; in front  *)
(* of it, packages/dex, the tier coordinator and the execution node.       *)
(*                                                                         *)
(* A call asks for a quote and swaps: it reads the TON balance, reads the  *)
(* jetton balance it will measure against, queues for the lock of its      *)
(* tier, sends one message, waits for the seqno to move, gives the lock    *)
(* back and measures the jetton balance.  All calls use one wallet and one *)
(* jetton; each tier has a lock of its own.  Any read may fail.  The chain *)
(* carries out one message per seqno, late or never, and the swap that a   *)
(* message starts delivers or bounces later still.  TON in hundredths.     *)
(***************************************************************************)
EXTENDS Integers, Sequences, FiniteSets

CONSTANTS Calls,            \* calls of the routers
          Request,          \* per call: via, side, dex, tier, amount
          Lot,              \* jettons one swap moves
          Outs,             \* outputs that quotes promise
          CeilingBps,       \* slippage ceiling of the caller
          DeadTtl,          \* DEAD_POOL_TTL_MS, in ticks
          Attempts,         \* balance reads of a verification: 5
          Networks, Clients,            \* EXEC_CONFIG.network; ways a client sends
          InitialTon, InitialJettons,   \* what the wallet holds
          MaxCalls,         \* bound: calls that are made
          MaxFaults         \* bound: reads and sends that fail

Dexes == {"stonfi", "dedust"}
Tiers == {"low", "mid", "high"}
Graph == {"coordinator", "node"}   \* of packages/orchestration

ASSUME RouterAssumption ==
  /\ Request \in [Calls -> [via : {"caller", "library"} \cup Graph, side : {"buy", "sell"},
                            dex : Dexes, tier : Tiers, amount : Nat]]
  /\ Lot \in Nat \ {0} /\ Outs \subseteq Nat /\ CeilingBps \in 0..10000
  /\ DeadTtl \in Nat /\ Attempts \in Nat \ {0}
  /\ Networks \subseteq {"mainnet", "testnet"} /\ Clients \subseteq {"external", "cli"}
  /\ InitialTon \in Nat /\ InitialJettons \in Nat
  /\ MaxCalls \in Nat /\ MaxFaults \in Nat

VARIABLES
  network, client,     \* of this process
  rest,                \* deadPoolCache: ticks until the pool of a DEX is tried again
  at,                  \* where a call is
  before, start, reads, booked,   \* its baseline, start seqno, reads left, amountTokens
  queue,               \* locks[tier]: the promise chain, the holder first
  seqno, ton, jettons, \* the wallet on the chain
  mempool, swapping,   \* messages that left; swaps that are under way
  outdated, moved,     \* history: another message was paid for since a call read the
                       \*   TON balance; swaps carried out since it read its baseline
  faults

processVars == <<network, client>>
localVars   == <<before, start, reads, booked>>
walletVars  == <<seqno, ton, jettons>>
chainVars   == <<walletVars, mempool, swapping, outdated, moved>>
vars == <<processVars, rest, at, localVars, queue, chainVars, faults>>
-----------------------------------------------------------------------------
Unread == -1   \* null: a balance that could not be read

Buys  == {c \in Calls : Request[c].side = "buy"}
Sells == Calls \ Buys
Tier(c) == Request[c].tier

(* There is no DeDust factory on testnet: its swaps fall back to STON.fi.    *)
IsTestnet == network = "testnet"
EffectiveDex(c) == IF IsTestnet THEN "stonfi" ELSE Request[c].dex

(* computeMinOut: the floor of a quote; one that rounds to zero is refused.  *)
MinOut(out) == (out * (10000 - CeilingBps)) \div 10000

(* checkPoolMinimum; what follows it for DeDust compares a total of at least *)
(* one TON with at most one TON.                                             *)
BelowPoolMinimum(c) == c \in Buys /\ Request[c].amount + 25 < 100

NeedUnreserved(c) ==   \* slip: the exit reserve is left out
  IF c \in Buys THEN Request[c].amount + 25 ELSE 35
ExitReserve == 40
(* evaluateBuyGasGuard and evaluateSellGasGuard. *)
Need(c) == IF c \in Buys THEN Request[c].amount + 25 + ExitReserve ELSE 35

(* What the four functions differ in: the TON their message carries, and     *)
(* whether they give up on an address that cannot be resolved (a STON.fi buy *)
(* has a fallback for each); the steps below are what they share.            *)
StonfiBuy(amount) == [value |-> amount + 24, resolves |-> FALSE]
StonfiSell        == [value |-> 25, resolves |-> TRUE]
DedustBuy(amount) == [value |-> amount + 25, resolves |-> TRUE]
DedustSell        == [value |-> 35, resolves |-> TRUE]

Route(c) ==
  CASE EffectiveDex(c) = "stonfi" /\ c \in Buys  -> StonfiBuy(Request[c].amount)
    [] EffectiveDex(c) = "stonfi" /\ c \in Sells -> StonfiSell
    [] EffectiveDex(c) = "dedust" /\ c \in Buys  -> DedustBuy(Request[c].amount)
    [] EffectiveDex(c) = "dedust" /\ c \in Sells -> DedustSell
Value(c) == Route(c).value

(* packages/dex hands no jettonAmountNano on: a sell through it throws.      *)
LacksAmount(c) == Request[c].via = "library" /\ c \in Sells

Message == [call : Calls, seqno : Nat]

Init == /\ network \in Networks /\ client \in Clients
        /\ rest = [d \in Dexes |-> 0]
        /\ at = [c \in Calls |-> "new"]
        /\ before = [c \in Calls |-> Unread] /\ start = [c \in Calls |-> 0]
        /\ reads = [c \in Calls |-> 0] /\ booked = [c \in Calls |-> 0]
        /\ queue = [t \in Tiers |-> <<>>]
        /\ seqno = 0 /\ ton = InitialTon /\ jettons = InitialJettons
        /\ mempool = {} /\ swapping = {}
        /\ outdated = [c \in Calls |-> FALSE] /\ moved = [c \in Calls |-> {}]
        /\ faults = 0
-----------------------------------------------------------------------------
Goto(c, place) == at' = [at EXCEPT ![c] = place]
Called == {c \in Calls : at[c] # "new"}
May(c) == c \in Called \/ Cardinality(Called) < MaxCalls
Fault == faults < MaxFaults /\ faults' = faults + 1

Holds(c) == queue[Tier(c)] # <<>> /\ Head(queue[Tier(c)]) = c
Release(c) == queue' = [queue EXCEPT ![Tier(c)] = Tail(@)]

(* An early return, or what the catch of executeSwap returns. *)
Fails(c) == Goto(c, "failed") /\ UNCHANGED queue

FailsKeepingLock(c) == Fails(c)   \* slip: no finally
(* The same from inside the lock, through the finally of sendTransferLocked. *)
FailsReleasing(c) == Goto(c, "failed") /\ Release(c)
-----------------------------------------------------------------------------
(* getSwapQuote: the pool of a DEX that failed rests for a while, and is     *)
(* answered for from the cache.                                              *)
IsPoolDead(dex) == rest[dex] > 0

MarkPoolDeadLonger(dex) == rest' = [rest EXCEPT ![dex] = @ + DeadTtl + 1]   \* slip: rests add up
MarkPoolDead(dex) == rest' = [rest EXCEPT ![dex] = DeadTtl + 1]

BeginQuote(c) ==
  /\ at[c] = "new" /\ May(c) /\ Request[c].via \notin Graph
  /\ Goto(c, IF IsPoolDead(Request[c].dex) THEN "failed" ELSE "quoting")
  /\ UNCHANGED <<processVars, rest, localVars, queue, chainVars, faults>>

(* A caller that was promised less than it can put a floor under stops.      *)
Promised(c) == \E out \in Outs : Goto(c, IF MinOut(out) > 0 THEN "quoted" ELSE "failed")

StonfiQuotes(c) == /\ at[c] = "quoting" /\ Request[c].dex = "stonfi"
                   /\ Promised(c)
                   /\ UNCHANGED <<processVars, rest, localVars, queue, chainVars, faults>>

DedustQuotes(c) == /\ at[c] = "quoting" /\ Request[c].dex = "dedust" /\ ~IsTestnet
                   /\ Promised(c)
                   /\ UNCHANGED <<processVars, rest, localVars, queue, chainVars, faults>>

(* A getter failed: no quote.  Where the answer itself is broken, or DeDust  *)
(* reserves are missing or empty, the pool is put to rest.                   *)
QuoteFails(c) ==
  /\ at[c] = "quoting" /\ Fails(c)
  /\ \/ UNCHANGED rest
     \/ /\ Request[c].dex = "stonfi" \/ ~IsTestnet
        /\ MarkPoolDead(Request[c].dex)
  /\ UNCHANGED <<processVars, localVars, chainVars, faults>>

Tick(dex) == /\ IsPoolDead(dex)
             /\ rest' = [rest EXCEPT ![dex] = @ - 1]
             /\ UNCHANGED <<processVars, at, localVars, queue, chainVars, faults>>
-----------------------------------------------------------------------------
(* executeForTier: the trade gate denies the trade, or executeSwap is called *)
(* without a wallet: no trade of the coordinator gets further.               *)
ExecuteForTier(c) ==
  /\ at[c] = "new" /\ May(c) /\ Request[c].via = "coordinator"
  /\ Fails(c)
  /\ UNCHANGED <<processVars, rest, localVars, chainVars, faults>>

(* executionNode: the cap check, the ticket's hash or its side stops the     *)
(* trade, or else the envelope made up for it is refused: validateIngested   *)
(* knows no source "orchestration".                                          *)
ExecutionNode(c) ==
  /\ at[c] = "new" /\ May(c) /\ Request[c].via = "node"
  /\ Fails(c)
  /\ UNCHANGED <<processVars, rest, localVars, chainVars, faults>>

(* executeSwap, with or without a quote. *)
ExecuteSwap(c) ==
  /\ at[c] \in {"new", "quoted"} /\ May(c) /\ Request[c].via \notin Graph
  /\ Goto(c, IF BelowPoolMinimum(c) \/ LacksAmount(c) THEN "failed" ELSE "funds")
  /\ UNCHANGED <<processVars, rest, localVars, queue, chainVars, faults>>

(* getBalance and the gas guard. *)
ReadFunds(c) ==
  /\ at[c] = "funds"
  /\ \/ ton >= Need(c) /\ Goto(c, "baseline") /\ UNCHANGED <<queue, faults>>
     \/ ton < Need(c) /\ Fails(c) /\ UNCHANGED faults
     \/ Fault /\ Fails(c)
  /\ UNCHANGED <<processVars, rest, localVars, chainVars>>

(* No pool, or no jetton wallet after three reads: a DeDust buy and any sell *)
(* end here, a STON.fi buy has fallbacks.                                    *)
Unresolved(c) ==
  /\ at[c] = "baseline" /\ Route(c).resolves
  /\ Fault /\ Fails(c)
  /\ UNCHANGED <<processVars, rest, localVars, chainVars>>

(* readUserJettonBalance, before the lock is asked for. *)
ReadBaseline(c) ==
  /\ at[c] = "baseline" /\ Goto(c, "locking")
  /\ \/ before' = [before EXCEPT ![c] = jettons] /\ UNCHANGED faults
     \/ before' = [before EXCEPT ![c] = Unread] /\ Fault
  /\ UNCHANGED <<processVars, rest, start, reads, booked, queue, chainVars>>
-----------------------------------------------------------------------------
(* sendTransferLocked. *)
Acquire(c) ==
  /\ at[c] = "locking" /\ Goto(c, "waiting")
  /\ queue' = [queue EXCEPT ![Tier(c)] = Append(@, c)]
  /\ UNCHANGED <<processVars, rest, localVars, chainVars, faults>>

ReadSeqno(c) ==
  /\ at[c] = "waiting" /\ Holds(c)
  /\ \/ /\ start' = [start EXCEPT ![c] = seqno] /\ Goto(c, "sending")
        /\ UNCHANGED <<queue, faults>>
     \/ Fault /\ FailsReleasing(c) /\ UNCHANGED start
  /\ UNCHANGED <<processVars, rest, before, reads, booked, chainVars>>

(* sendExternalMessage signs with the seqno the chain has now.               *)
Leaves(c) == mempool' = mempool \cup {[call |-> c, seqno |-> seqno]}

SendExternal(c) ==
  /\ at[c] = "sending" /\ client = "external"
  /\ Leaves(c) /\ Goto(c, "confirming")
  /\ UNCHANGED <<processVars, rest, localVars, queue, walletVars, swapping, outdated, moved, faults>>

(* The send throws; the message may have left. *)
SendThrows(c) ==
  /\ at[c] = "sending" /\ Fault /\ FailsReleasing(c)
  /\ Leaves(c) \/ UNCHANGED mempool
  /\ UNCHANGED <<processVars, rest, localVars, walletVars, swapping, outdated, moved>>

(* waitForConfirmation. *)
Confirmed(c) ==
  /\ at[c] = "confirming" /\ seqno > start[c]
  /\ Goto(c, "verifying") /\ Release(c)
  /\ reads' = [reads EXCEPT ![c] = Attempts]
  /\ UNCHANGED <<processVars, rest, before, start, booked, chainVars, faults>>

ConfirmationTimeout(c) ==
  /\ at[c] = "confirming" /\ FailsReleasing(c)
  /\ UNCHANGED <<processVars, rest, localVars, chainVars, faults>>
-----------------------------------------------------------------------------
(* The chain. *)
Watching(d) == at[d] \notin {"new", "quoting", "quoted", "funds"}
Measuring(d) == at[d] \in {"locking", "waiting", "sending", "confirming", "verifying"}

(* The wallet executes a message of c: it pays, if it can, and the swap of c *)
(* is under way.                                                             *)
Executes(c) ==
  /\ seqno' = seqno + 1
  /\ IF ton >= Value(c)
       THEN /\ ton' = ton - Value(c) /\ swapping' = swapping \cup {c}
            /\ outdated' = [d \in Calls |-> outdated[d] \/ (d # c /\ Watching(d))]
       ELSE UNCHANGED <<ton, swapping, outdated>>

Lands(m) == /\ m.seqno = seqno /\ Executes(m.call)
            /\ mempool' = mempool \ {m}
            /\ UNCHANGED <<processVars, rest, at, localVars, queue, jettons, moved, faults>>

(* Its seqno has passed, or its time. *)
Expires(m) == /\ mempool' = mempool \ {m}
              /\ UNCHANGED <<processVars, rest, at, localVars, queue, walletVars, swapping,
                             outdated, moved, faults>>

(* The swap moves its jettons, if the wallet has what it sells ... *)
Delivers(c) ==
  /\ c \in swapping /\ swapping' = swapping \ {c}
  /\ \/ c \in Buys /\ jettons' = jettons + Lot
     \/ c \in Sells /\ jettons >= Lot /\ jettons' = jettons - Lot
  /\ moved' = [d \in Calls |-> IF Measuring(d) THEN moved[d] \cup {c} ELSE moved[d]]
  /\ UNCHANGED <<processVars, rest, at, localVars, queue, seqno, ton, mempool, outdated, faults>>

(* ... or bounces. *)
Bounces(c) == /\ c \in swapping /\ swapping' = swapping \ {c}
              /\ UNCHANGED <<processVars, rest, at, localVars, queue, walletVars, mempool,
                             outdated, moved, faults>>

(* Without sendExternalMessage the Acton CLI is run: execSync blocks until   *)
(* it has seen the message executed.                                         *)
RunActon(c) ==
  /\ at[c] = "sending" /\ client = "cli"
  /\ Executes(c) /\ Release(c)
  /\ Goto(c, "verifying") /\ reads' = [reads EXCEPT ![c] = Attempts]
  /\ UNCHANGED <<processVars, rest, before, start, booked, jettons, mempool, moved, faults>>
-----------------------------------------------------------------------------
(* verify.ts *)
(* computeDeliveredIncrement of a balance that was read. *)
Increment(was, now) == IF was = Unread THEN now ELSE now - was

SpentAnything(was, now) == was - now >= 0   \* slip: bounces pass
(* verifySellDelta *)
SellMoved(was, now) == \/ was = 0
                       \/ was - now > 0 /\ was - now >= (Lot * 99) \div 100

ReadAgain(c) == /\ IF reads[c] = 1 THEN Goto(c, "failed") ELSE UNCHANGED at
                /\ reads' = [reads EXCEPT ![c] = @ - 1]
                /\ UNCHANGED booked

(* verifyBuyDelivered: until a read shows a gain, or the reads are used up.  *)
VerifyBuy(c) ==
  /\ at[c] = "verifying" /\ c \in Buys
  /\ \/ /\ Increment(before[c], jettons) > 0
        /\ Goto(c, "ok") /\ booked' = [booked EXCEPT ![c] = Increment(before[c], jettons)]
        /\ UNCHANGED <<reads, faults>>
     \/ Increment(before[c], jettons) <= 0 /\ ReadAgain(c) /\ UNCHANGED faults
     \/ Fault /\ ReadAgain(c)
  /\ UNCHANGED <<processVars, rest, before, start, queue, chainVars>>

(* verifySellExecuted: the first balance that can be read decides. *)
VerifySell(c) ==
  /\ at[c] = "verifying" /\ c \in Sells
  /\ \/ before[c] = Unread /\ Goto(c, "failed") /\ UNCHANGED <<reads, booked, faults>>
     \/ /\ before[c] # Unread
        /\ IF SellMoved(before[c], jettons)
             THEN Goto(c, "ok") /\ booked' = [booked EXCEPT ![c] = Lot]
             ELSE Goto(c, "failed") /\ UNCHANGED booked
        /\ UNCHANGED <<reads, faults>>
     \/ before[c] # Unread /\ Fault /\ ReadAgain(c)
  /\ UNCHANGED <<processVars, rest, before, start, queue, chainVars>>
-----------------------------------------------------------------------------
(* What a call does once it has begun. *)
Steps(c) == \/ StonfiQuotes(c) \/ DedustQuotes(c) \/ QuoteFails(c)
            \/ ReadFunds(c) \/ Unresolved(c) \/ ReadBaseline(c)
            \/ Acquire(c) \/ ReadSeqno(c) \/ SendExternal(c) \/ SendThrows(c) \/ RunActon(c)
            \/ Confirmed(c) \/ ConfirmationTimeout(c)
            \/ VerifyBuy(c) \/ VerifySell(c)

Next == \/ \E c \in Calls : BeginQuote(c) \/ ExecuteSwap(c) \/ Steps(c)
                           \/ ExecuteForTier(c) \/ ExecutionNode(c)
        \/ \E m \in mempool : Lands(m) \/ Expires(m)
        \/ \E c \in Calls : Delivers(c) \/ Bounces(c)
        \/ \E dex \in Dexes : Tick(dex)

Spec == Init /\ [][Next]_vars

(* Every await of a call settles: RPC reads time out, the poll has 45        *)
(* seconds, execSync has 120.  Nothing is asked of the chain.  A call takes  *)
(* finitely many steps, so that some call steps while one can is enough.     *)
FairSpec == Spec /\ WF_vars(\E c \in Calls : Steps(c))
-----------------------------------------------------------------------------
Places == {"new", "quoting", "quoted", "funds", "baseline", "locking", "waiting",
           "sending", "confirming", "verifying", "ok", "failed"}

TypeOK ==
  /\ network \in Networks /\ client \in Clients
  /\ rest \in [Dexes -> 0..DeadTtl + 1]
  /\ at \in [Calls -> Places]
  /\ before \in [Calls -> Int] /\ start \in [Calls -> Nat]
  /\ reads \in [Calls -> 0..Attempts] /\ booked \in [Calls -> Nat]
  /\ queue \in [Tiers -> Seq(Calls)]
  /\ seqno \in Nat /\ ton \in Nat /\ jettons \in Nat
  /\ mempool \subseteq Message /\ swapping \subseteq Calls
  /\ outdated \in [Calls -> BOOLEAN] /\ moved \in [Calls -> SUBSET Calls]
  /\ faults \in Nat

(* "fail closed ... never silently booked" (acton/index.ts): a swap that is  *)
(* reported done was done, after its baseline was read.  It holds of a call  *)
(* that read a baseline (for a sell, not an empty one) when no other swap    *)
(* moved jettons while it measured; a buy then books what was delivered.     *)
BookedSwapsHappened ==
  \A c \in Calls :
    at[c] = "ok" /\ before[c] # Unread /\ (c \in Sells => before[c] # 0) /\ moved[c] \subseteq {c}
      => c \in moved[c] /\ booked[c] = Lot

(* Other swaps in between can be taken for one's own, but not made up: what  *)
(* a buy books is never more than all the buys since its baseline delivered, *)
(* and a sell is booked only if some sell moved its jettons.                 *)
BookedIsBacked ==
  \A c \in Calls :
    at[c] = "ok" =>
      /\ c \in Buys /\ before[c] # Unread => booked[c] <= Lot * Cardinality(moved[c] \cap Buys)
      /\ c \in Sells /\ before[c] > 0 => moved[c] \cap Sells # {}

(* Both: no booking without jettons that moved, with and without other swaps *)
(* of the jetton in between.                                                 *)
BookingsTrue == BookedSwapsHappened /\ BookedIsBacked

(* gas-guard.ts: a buy leaves the reserve for the way out in the wallet,     *)
(* however late its message lands, unless another message was paid for since *)
(* its balance was read: the guard does not hold the lock.                   *)
ReserveKept ==
  [][\A c \in Buys : c \in swapping' \ swapping /\ ~outdated'[c] => ton' >= ExitReserve]_vars

(* A call that was given the wallet returns: every path out of               *)
(* sendTransferLocked releases the lock of its tier, and its poll ends.      *)
CallsReturn == \A c \in Calls : at[c] = "funds" ~> at[c] \in {"ok", "failed"}
=============================================================================
