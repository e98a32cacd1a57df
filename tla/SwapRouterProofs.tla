-------------------------- MODULE SwapRouterProofs --------------------------
(***************************************************************************)
(* Proofs about the DEX router: its types (which need the tier locks to    *)
(* exclude), that a buy leaves the reserve for the way out, and that what  *)
(* is booked has moved.                                                    *)
(***************************************************************************)
EXTENDS SwapRouter, FiniteSetTheorems, TLAPS

(* Before a call has sent its message; before it reads its baseline; between *)
(* its gas guard and its message.                                            *)
Fresh   == {"new", "quoting", "quoted", "funds", "baseline"}
Guarded == {"baseline", "locking", "waiting", "sending"}
Ahead   == Fresh \cup Guarded

OnItsWay(c) == \E m \in mempool : m.call = c

(* The lock of a tier excludes, and a verification has a read left.          *)
LocksHeld == \A c \in Calls : at[c] \in {"sending", "confirming"} => Holds(c)
ReadsLeft == \A c \in Calls : at[c] = "verifying" => reads[c] > 0

(* A call pays for one message and starts one swap, which delivers once.     *)
PaidOnce ==
  /\ \A m \in mempool : at[m.call] \notin Ahead
  /\ \A m, n \in mempool : m.call = n.call => m = n
  /\ \A c \in Calls : at[c] \in Ahead \/ OnItsWay(c) =>
       c \notin swapping /\ \A d \in Calls : c \notin moved[d]
  /\ \A c \in swapping : \A d \in Calls : c \notin moved[d]

(* The gas guard of a call still holds until its message is paid for, unless *)
(* another was.                                                              *)
FundsCover ==
  \A c \in Calls : (at[c] \in Guarded \/ OnItsWay(c)) /\ ~outdated[c] => ton >= Need(c)

(* A balance differs from a call's baseline by the swaps in between.         *)
BuysMoved(c)  == Cardinality(moved[c] \cap Buys)
SellsMoved(c) == Cardinality(moved[c] \cap Sells)

Measured ==
  \A c \in Calls :
    /\ IsFiniteSet(moved[c])
    /\ at[c] \in Fresh => moved[c] = {}
    /\ Measuring(c) /\ before[c] # Unread
         => jettons = before[c] + Lot * BuysMoved(c) - Lot * SellsMoved(c)

TypesInv  == TypeOK /\ LocksHeld /\ ReadsLeft
RouterInv == TypesInv /\ PaidOnce /\ FundsCover /\ Measured
-----------------------------------------------------------------------------
LEMMA RequestTypes ==
  ASSUME NEW c \in Calls
  PROVE  /\ Request[c].amount \in Nat /\ Tier(c) \in Tiers /\ Request[c].dex \in Dexes
         /\ Request[c].side \in {"buy", "sell"}
         /\ Need(c) \in Nat
BY RouterAssumption DEF Tier, Need, ExitReserve

(* A buy's message costs at most what its guard asks beyond the reserve.     *)
LEMMA ValueBelowNeed ==
  ASSUME NEW c \in Calls
  PROVE  Value(c) \in Nat /\ (c \in Buys => Value(c) + ExitReserve <= Need(c))
PROOF
  <1>1. EffectiveDex(c) \in {"stonfi", "dedust"}
    BY RequestTypes DEF EffectiveDex, Dexes
  <1>2. CASE c \in Buys
    <2>1. /\ EffectiveDex(c) = "stonfi" => Value(c) = Request[c].amount + 24
          /\ EffectiveDex(c) = "dedust" => Value(c) = Request[c].amount + 25
      BY <1>2 DEF Value, Route, StonfiBuy, DedustBuy, Sells
    <2>2. QED
      BY <1>1, <1>2, <2>1, RequestTypes DEF Need, ExitReserve
  <1>3. CASE c \in Sells
    <2>1. /\ EffectiveDex(c) = "stonfi" => Value(c) = 25
          /\ EffectiveDex(c) = "dedust" => Value(c) = 35
      BY <1>3 DEF Value, Route, StonfiSell, DedustSell, Sells
    <2>2. QED
      BY <1>1, <1>3, <2>1 DEF Sells
  <1>4. QED
    BY <1>2, <1>3 DEF Sells

LEMMA LotType == Lot \in Nat /\ Lot > 0
BY RouterAssumption

LEMMA MessageType ==
  ASSUME NEW m \in Message
  PROVE  m.call \in Calls /\ m.seqno \in Nat
BY DEF Message

LEMMA InitRouterInv == Init => RouterInv
PROOF
  <1> SUFFICES ASSUME Init PROVE RouterInv
    OBVIOUS
  <1>1. 0 \in 0..DeadTtl + 1 /\ 0 \in 0..Attempts /\ InitialTon \in Nat /\ InitialJettons \in Nat
    BY RouterAssumption
  <1>2. TypeOK
    BY <1>1 DEF Init, TypeOK, Places, Unread
  <1>3. LocksHeld /\ ReadsLeft
    BY DEF Init, LocksHeld, ReadsLeft
  <1>4. PaidOnce
    BY DEF Init, PaidOnce, OnItsWay
  <1>5. FundsCover
    BY DEF Init, FundsCover, Guarded, OnItsWay
  <1>6. Measured
    BY FS_EmptySet DEF Init, Measured, Measuring
  <1>7. QED
    BY <1>2, <1>3, <1>4, <1>5, <1>6 DEF RouterInv, TypesInv
-----------------------------------------------------------------------------
(* The lock of a tier. *)
LEMMA ReleaseFrees ==
  ASSUME TypesInv, NEW c \in Calls, Holds(c), Release(c), at'[c] \notin {"sending", "confirming"},
         \A d \in Calls \ {c} : at'[d] = at[d]
  PROVE  queue' \in [Tiers -> Seq(Calls)] /\ LocksHeld'
PROOF
  <1>1. queue \in [Tiers -> Seq(Calls)] /\ Tier(c) \in Tiers /\ LocksHeld
    BY RequestTypes DEF TypesInv, TypeOK
  <1>2. queue[Tier(c)] \in Seq(Calls) /\ queue[Tier(c)] # <<>>
    BY <1>1 DEF Holds
  <1>3. Tail(queue[Tier(c)]) \in Seq(Calls)
    BY <1>2
  <1>4. queue' \in [Tiers -> Seq(Calls)]
    BY <1>1, <1>3 DEF Release
  <1>5. LocksHeld'
    <2> SUFFICES ASSUME NEW d \in Calls, at'[d] \in {"sending", "confirming"}
                 PROVE  Holds(d)'
      BY DEF LocksHeld
    <2>1. d # c /\ Holds(d)
      BY <1>1 DEF LocksHeld
    <2>2. Tier(d) # Tier(c)
      BY <2>1 DEF Holds
    <2>3. queue'[Tier(d)] = queue[Tier(d)]
      BY <1>1, <2>2, RequestTypes DEF Release
    <2>4. QED
      BY <2>1, <2>3 DEF Holds, Tier
  <1>6. QED
    BY <1>4, <1>5

LEMMA LocksKept ==
  ASSUME LocksHeld, UNCHANGED queue,
         \A c \in Calls : at'[c] \in {"sending", "confirming"}
                            => at[c] \in {"sending", "confirming"} \/ Holds(c)
  PROVE  LocksHeld'
BY DEF LocksHeld, Holds, Tier

LEMMA CallTypes ==
  ASSUME TypesInv, NEW c \in Calls,
         BeginQuote(c) \/ ExecuteSwap(c) \/ ExecuteForTier(c) \/ ExecutionNode(c) \/ Steps(c)
  PROVE  TypesInv'
PROOF
  <1> USE DEF Goto, Fails, processVars, localVars, walletVars, chainVars, Fault
  <1>1. TypeOK /\ LocksHeld /\ ReadsLeft
    BY DEF TypesInv
  <1>2. /\ at \in [Calls -> Places] /\ reads \in [Calls -> 0..Attempts]
        /\ queue \in [Tiers -> Seq(Calls)] /\ Tier(c) \in Tiers /\ faults \in Nat
        /\ before \in [Calls -> Int] /\ start \in [Calls -> Nat] /\ booked \in [Calls -> Nat]
        /\ seqno \in Nat /\ ton \in Nat /\ jettons \in Nat
        /\ mempool \subseteq Message /\ swapping \subseteq Calls
        /\ rest \in [Dexes -> 0..DeadTtl + 1]
    BY <1>1, RequestTypes DEF TypeOK
  <1>3. ASSUME NEW place \in Places \ {"sending", "confirming", "verifying"},
               at' = [at EXCEPT ![c] = place], UNCHANGED <<queue, reads>>
        PROVE  at' \in [Calls -> Places] /\ LocksHeld' /\ ReadsLeft'
    <2>1. \A d \in Calls : at'[d] = IF d = c THEN place ELSE at[d]
      BY <1>2, <1>3
    <2>2. at' \in [Calls -> Places]
      BY <1>2, <1>3
    <2>3. QED
      BY <1>1, <1>3, <2>1, <2>2, LocksKept DEF ReadsLeft
  <1>4. [call |-> c, seqno |-> seqno] \in Message
    BY <1>2 DEF Message
  <1>5. CASE BeginQuote(c) \/ ExecuteSwap(c) \/ ExecuteForTier(c) \/ ExecutionNode(c)
             \/ StonfiQuotes(c) \/ DedustQuotes(c) \/ Unresolved(c) \/ ReadFunds(c)
    <2>1. PICK place \in {"quoting", "quoted", "funds", "baseline", "failed"} :
            at' = [at EXCEPT ![c] = place]
      BY <1>5 DEF BeginQuote, ExecuteSwap, ExecuteForTier, ExecutionNode, StonfiQuotes,
                  DedustQuotes, Promised, Unresolved, ReadFunds
    <2>2. /\ UNCHANGED <<processVars, rest, localVars, queue, chainVars>>
          /\ faults' \in Nat
      BY <1>2, <1>5 DEF BeginQuote, ExecuteSwap, ExecuteForTier, ExecutionNode, StonfiQuotes,
                  DedustQuotes, Promised, Unresolved, ReadFunds
    <2>3. at' \in [Calls -> Places] /\ LocksHeld' /\ ReadsLeft'
      BY <1>3, <2>1, <2>2 DEF Places
    <2>4. QED
      BY <1>1, <2>2, <2>3 DEF TypeOK, TypesInv
  <1>6. CASE QuoteFails(c)
    <2>1. at' = [at EXCEPT ![c] = "failed"] /\ UNCHANGED <<processVars, localVars, queue, chainVars, faults>>
      BY <1>6 DEF QuoteFails
    <2>2. DeadTtl + 1 \in 0..DeadTtl + 1
      BY RouterAssumption
    <2>3. rest' \in [Dexes -> 0..DeadTtl + 1]
      BY <1>2, <1>6, <2>2 DEF QuoteFails, MarkPoolDead
    <2>4. at' \in [Calls -> Places] /\ LocksHeld' /\ ReadsLeft'
      BY <1>3, <2>1 DEF Places
    <2>5. QED
      BY <1>1, <2>1, <2>3, <2>4 DEF TypeOK, TypesInv
  <1>7. CASE ReadBaseline(c)
    <2>1. at' = [at EXCEPT ![c] = "locking"]
          /\ UNCHANGED <<processVars, rest, start, reads, booked, queue, chainVars>>
      BY <1>7 DEF ReadBaseline
    <2>2. before' \in [Calls -> Int] /\ faults' \in Nat
      BY <1>2, <1>7 DEF ReadBaseline, Unread
    <2>3. at' \in [Calls -> Places] /\ LocksHeld' /\ ReadsLeft'
      BY <1>3, <2>1 DEF Places
    <2>4. QED
      BY <1>1, <2>1, <2>2, <2>3 DEF TypeOK, TypesInv
  <1>8. CASE Acquire(c)
    <2>1. /\ at' = [at EXCEPT ![c] = "waiting"]
          /\ queue' = [queue EXCEPT ![Tier(c)] = Append(queue[Tier(c)], c)]
          /\ UNCHANGED <<processVars, rest, localVars, chainVars, faults>>
      BY <1>8 DEF Acquire
    <2>2. \A d \in Calls : at'[d] = IF d = c THEN "waiting" ELSE at[d]
      BY <1>2, <2>1
    <2>3. queue' \in [Tiers -> Seq(Calls)] /\ at' \in [Calls -> Places]
      BY <1>2, <2>1 DEF Places
    <2>4. ASSUME NEW d \in Calls, Holds(d) PROVE Holds(d)'
      <3>1. queue[Tier(d)] \in Seq(Calls) /\ queue[Tier(d)] # <<>> /\ Head(queue[Tier(d)]) = d
        BY <1>2, <2>4, RequestTypes DEF Holds
      <3>2. CASE Tier(d) = Tier(c)
        <4>1. queue'[Tier(d)] = Append(queue[Tier(d)], c)
          BY <1>2, <2>1, <3>2
        <4>2. QED
          BY <3>1, <4>1 DEF Holds, Tier
      <3>3. CASE Tier(d) # Tier(c)
        BY <1>2, <2>1, <3>1, <3>3, RequestTypes DEF Holds, Tier
      <3>4. QED
        BY <3>2, <3>3
    <2>5. LocksHeld' /\ ReadsLeft'
      BY <1>1, <2>1, <2>2, <2>4 DEF LocksHeld, ReadsLeft
    <2>6. QED
      BY <1>1, <2>1, <2>3, <2>5 DEF TypeOK, TypesInv
  <1>9. ASSUME Holds(c), Release(c), NEW place \in Places \ {"sending", "confirming"},
               at' = [at EXCEPT ![c] = place], place = "verifying" => reads'[c] > 0,
               \A d \in Calls \ {c} : reads'[d] = reads[d]
        PROVE  /\ at' \in [Calls -> Places] /\ queue' \in [Tiers -> Seq(Calls)]
               /\ LocksHeld' /\ ReadsLeft'
    <2>1. \A d \in Calls : at'[d] = IF d = c THEN place ELSE at[d]
      BY <1>2, <1>9
    <2>2. queue' \in [Tiers -> Seq(Calls)] /\ LocksHeld'
      BY <1>9, <2>1, ReleaseFrees
    <2>3. ReadsLeft'
      BY <1>1, <1>9, <2>1 DEF ReadsLeft
    <2>4. QED
      BY <1>2, <1>9, <2>2, <2>3
  <1>10. CASE ReadSeqno(c)
    <2>1. Holds(c) /\ UNCHANGED <<processVars, rest, before, reads, booked, chainVars>> /\ faults' \in Nat
      BY <1>2, <1>10 DEF ReadSeqno
    <2>2. start' \in [Calls -> Nat]
      BY <1>2, <1>10 DEF ReadSeqno
    <2>3. CASE Goto(c, "sending") /\ UNCHANGED queue
      <3>1. \A d \in Calls : at'[d] = IF d = c THEN "sending" ELSE at[d]
        BY <1>2, <2>3
      <3>2. at' \in [Calls -> Places]
        BY <1>2, <2>3 DEF Places
      <3>3. LocksHeld' /\ ReadsLeft'
        BY <1>1, <2>1, <2>3, <3>1, LocksKept DEF ReadsLeft
      <3>4. QED
        BY <1>1, <2>1, <2>2, <2>3, <3>2, <3>3 DEF TypeOK, TypesInv
    <2>4. CASE FailsReleasing(c)
      <3>1. /\ at' \in [Calls -> Places] /\ queue' \in [Tiers -> Seq(Calls)]
            /\ LocksHeld' /\ ReadsLeft'
        BY <1>9, <2>1, <2>4 DEF FailsReleasing, Places
      <3>2. QED
        BY <1>1, <2>1, <2>2, <3>1 DEF TypeOK, TypesInv
    <2>5. QED
      BY <1>10, <2>3, <2>4 DEF ReadSeqno
  <1>11. CASE SendExternal(c)
    <2>1. /\ at[c] = "sending" /\ at' = [at EXCEPT ![c] = "confirming"]
          /\ UNCHANGED <<processVars, rest, localVars, queue, walletVars, swapping, outdated, moved, faults>>
          /\ mempool' = mempool \cup {[call |-> c, seqno |-> seqno]}
      BY <1>11 DEF SendExternal, Leaves
    <2>2. \A d \in Calls : at'[d] = IF d = c THEN "confirming" ELSE at[d]
      BY <1>2, <2>1
    <2>3. at' \in [Calls -> Places] /\ mempool' \subseteq Message
      BY <1>2, <1>4, <2>1 DEF Places
    <2>4. LocksHeld' /\ ReadsLeft'
      BY <1>1, <2>1, <2>2, LocksKept DEF ReadsLeft
    <2>5. QED
      BY <1>1, <2>1, <2>3, <2>4 DEF TypeOK, TypesInv
  <1>12. CASE SendThrows(c)
    <2>1. /\ at[c] = "sending" /\ FailsReleasing(c) /\ Holds(c) /\ faults' \in Nat
          /\ UNCHANGED <<processVars, rest, localVars, walletVars, swapping, outdated, moved>>
          /\ mempool' \subseteq Message
      BY <1>1, <1>2, <1>4, <1>12 DEF SendThrows, Leaves, LocksHeld
    <2>2. /\ at' \in [Calls -> Places] /\ queue' \in [Tiers -> Seq(Calls)]
          /\ LocksHeld' /\ ReadsLeft'
      BY <1>9, <2>1 DEF FailsReleasing, Places
    <2>3. QED
      BY <1>1, <2>1, <2>2 DEF TypeOK, TypesInv
  <1>13. CASE ConfirmationTimeout(c)
    <2>1. /\ at[c] = "confirming" /\ FailsReleasing(c) /\ Holds(c)
          /\ UNCHANGED <<processVars, rest, localVars, chainVars, faults>>
      BY <1>1, <1>13 DEF ConfirmationTimeout, LocksHeld
    <2>2. /\ at' \in [Calls -> Places] /\ queue' \in [Tiers -> Seq(Calls)]
          /\ LocksHeld' /\ ReadsLeft'
      BY <1>9, <2>1 DEF FailsReleasing, Places
    <2>3. QED
      BY <1>1, <2>1, <2>2 DEF TypeOK, TypesInv
  <1>14. CASE Confirmed(c) \/ RunActon(c)
    <2>1. /\ at[c] \in {"sending", "confirming"} /\ at' = [at EXCEPT ![c] = "verifying"]
          /\ Release(c) /\ Holds(c) /\ reads' = [reads EXCEPT ![c] = Attempts]
          /\ UNCHANGED <<processVars, rest, before, start, booked, jettons, mempool, moved, faults>>
      BY <1>1, <1>14 DEF Confirmed, RunActon, LocksHeld
    <2>2. Attempts \in 0..Attempts /\ Attempts > 0
      BY RouterAssumption
    <2>3. reads' \in [Calls -> 0..Attempts] /\ reads'[c] > 0
          /\ \A d \in Calls \ {c} : reads'[d] = reads[d]
      BY <1>2, <2>1, <2>2
    <2>4. /\ at' \in [Calls -> Places] /\ queue' \in [Tiers -> Seq(Calls)]
          /\ LocksHeld' /\ ReadsLeft'
      BY <1>9, <2>1, <2>3 DEF Places
    <2>5. seqno' \in Nat /\ ton' \in Nat /\ swapping' \subseteq Calls
      BY <1>2, <1>14, ValueBelowNeed DEF Confirmed, RunActon, Executes
    <2>6. outdated' \in [Calls -> BOOLEAN]
      <3>1. outdated \in [Calls -> BOOLEAN]
        BY <1>1 DEF TypeOK
      <3>2. \/ UNCHANGED outdated
            \/ outdated' = [d \in Calls |-> outdated[d] \/ (d # c /\ Watching(d))]
        BY <1>14 DEF Confirmed, RunActon, Executes
      <3>3. QED
        BY <3>1, <3>2
    <2>7. QED
      BY <1>1, <2>1, <2>3, <2>4, <2>5, <2>6 DEF TypeOK, TypesInv
  <1>15. CASE VerifyBuy(c) \/ VerifySell(c)
    <2>1. /\ at[c] = "verifying" /\ reads[c] > 0 /\ faults' \in Nat
          /\ UNCHANGED <<processVars, rest, before, start, queue, chainVars>>
      BY <1>1, <1>2, <1>15 DEF VerifyBuy, VerifySell, ReadsLeft
    <2>2. booked' \in [Calls -> Nat]
      <3>1. ASSUME NEW n \in Nat, booked' = [booked EXCEPT ![c] = n]
            PROVE  booked' \in [Calls -> Nat]
        BY <1>2, <3>1
      <3>2. \/ UNCHANGED booked
            \/ /\ Increment(before[c], jettons) > 0
               /\ booked' = [booked EXCEPT ![c] = Increment(before[c], jettons)]
            \/ booked' = [booked EXCEPT ![c] = Lot]
        BY <1>15 DEF VerifyBuy, VerifySell, ReadAgain
      <3>3. Increment(before[c], jettons) \in Int
        BY <1>2 DEF Increment
      <3>4. Increment(before[c], jettons) > 0 => Increment(before[c], jettons) \in Nat
        BY <3>3
      <3>5. Lot \in Nat
        BY RouterAssumption
      <3>6. QED
        BY <1>2, <3>1, <3>2, <3>4, <3>5
    <2>3. CASE ReadAgain(c)
      <3>1. reads[c] - 1 \in 0..Attempts /\ (reads[c] # 1 => reads[c] - 1 > 0)
        <4>1. reads[c] \in 0..Attempts /\ Attempts \in Nat
          BY <1>2, RouterAssumption
        <4>2. QED
          BY <2>1, <4>1
      <3>2. reads' \in [Calls -> 0..Attempts]
        BY <1>2, <2>3, <3>1 DEF ReadAgain
      <3>3. \A d \in Calls : /\ reads'[d] = IF d = c THEN reads[c] - 1 ELSE reads[d]
                             /\ at'[d] = IF d = c /\ reads[c] = 1 THEN "failed" ELSE at[d]
        BY <1>2, <2>3 DEF ReadAgain
      <3>4. at' \in [Calls -> Places]
        BY <1>2, <2>3 DEF ReadAgain, Places
      <3>5. ReadsLeft'
        BY <1>1, <3>1, <3>3 DEF ReadsLeft
      <3>6. LocksHeld'
        BY <1>1, <2>1, <3>3, LocksKept
      <3>7. QED
        BY <1>1, <2>1, <2>2, <3>2, <3>4, <3>5, <3>6 DEF TypeOK, TypesInv
    <2>4. CASE ~ReadAgain(c)
      <3>1. PICK place \in {"ok", "failed"} : at' = [at EXCEPT ![c] = place]
        BY <1>15, <2>4 DEF VerifyBuy, VerifySell
      <3>2. UNCHANGED reads
        BY <1>15, <2>4 DEF VerifyBuy, VerifySell
      <3>3. at' \in [Calls -> Places] /\ LocksHeld' /\ ReadsLeft'
        BY <1>3, <2>1, <3>1, <3>2 DEF Places
      <3>4. QED
        BY <1>1, <2>1, <2>2, <3>2, <3>3 DEF TypeOK, TypesInv
    <2>5. QED
      BY <2>3, <2>4
  <1>16. QED
    BY <1>5, <1>6, <1>7, <1>8, <1>10, <1>11, <1>12, <1>13, <1>14, <1>15 DEF Steps

LEMMA NextTypes == TypesInv /\ [Next]_vars => TypesInv'
PROOF
  <1> SUFFICES ASSUME TypesInv, [Next]_vars PROVE TypesInv'
    OBVIOUS
  <1> USE DEF processVars, localVars, walletVars, chainVars
  <1>1. TypeOK /\ LocksHeld /\ ReadsLeft
    BY DEF TypesInv
  <1>2. ASSUME UNCHANGED <<at, queue, reads>> PROVE LocksHeld' /\ ReadsLeft'
    BY <1>1, <1>2, LocksKept DEF ReadsLeft
  <1>3. ASSUME NEW m \in mempool, Lands(m) PROVE TypesInv'
    <2>1. m.call \in Calls /\ Value(m.call) \in Nat
      BY <1>1, MessageType, ValueBelowNeed DEF TypeOK
    <2>2. seqno' \in Nat /\ ton' \in Nat /\ swapping' \subseteq Calls
      <3>1. seqno \in Nat /\ ton \in Nat /\ swapping \subseteq Calls
        BY <1>1 DEF TypeOK
      <3>2. /\ seqno' = seqno + 1
            /\ \/ /\ ton >= Value(m.call) /\ ton' = ton - Value(m.call)
                  /\ swapping' = swapping \cup {m.call}
               \/ ton' = ton /\ swapping' = swapping
        BY <1>3 DEF Lands, Executes
      <3>3. QED
        BY <2>1, <3>1, <3>2
    <2>3. outdated' \in [Calls -> BOOLEAN]
      BY <1>1, <1>3 DEF Lands, Executes, TypeOK
    <2>4. /\ UNCHANGED <<processVars, rest, at, localVars, queue, jettons, moved, faults>>
          /\ mempool' \subseteq mempool
      BY <1>3 DEF Lands
    <2>5. QED
      BY <1>1, <1>2, <2>2, <2>3, <2>4 DEF TypeOK, TypesInv
  <1>4. ASSUME NEW m \in mempool, Expires(m) PROVE TypesInv'
    BY <1>1, <1>2, <1>4 DEF Expires, TypeOK, TypesInv
  <1>5. ASSUME NEW c \in Calls, Delivers(c) PROVE TypesInv'
    <2>1. jettons' \in Nat
      <3>1. jettons \in Nat /\ Lot \in Nat
        BY <1>1, RouterAssumption DEF TypeOK
      <3>2. jettons' = jettons + Lot \/ (jettons >= Lot /\ jettons' = jettons - Lot)
        BY <1>5 DEF Delivers
      <3>3. QED
        BY <3>1, <3>2
    <2>2. moved' \in [Calls -> SUBSET Calls] /\ swapping' \subseteq Calls
      BY <1>1, <1>5 DEF Delivers, TypeOK
    <2>3. UNCHANGED <<processVars, rest, at, localVars, queue, seqno, ton, mempool, outdated, faults>>
      BY <1>5 DEF Delivers
    <2>4. QED
      BY <1>1, <1>2, <2>1, <2>2, <2>3 DEF TypeOK, TypesInv
  <1>6. ASSUME NEW c \in Calls, Bounces(c) PROVE TypesInv'
    BY <1>1, <1>2, <1>6 DEF Bounces, TypeOK, TypesInv
  <1>7. ASSUME NEW dex \in Dexes, Tick(dex) PROVE TypesInv'
    <2>1. rest[dex] - 1 \in 0..DeadTtl + 1
      BY <1>1, <1>7, RouterAssumption DEF Tick, IsPoolDead, TypeOK
    <2>2. rest' \in [Dexes -> 0..DeadTtl + 1]
      BY <1>1, <1>7, <2>1 DEF Tick, TypeOK
    <2>3. QED
      BY <1>1, <1>2, <1>7, <2>2 DEF Tick, TypeOK, TypesInv
  <1>8. CASE UNCHANGED vars
    BY <1>1, <1>2, <1>8 DEF vars, TypeOK, TypesInv
  <1>9. QED
    BY <1>3, <1>4, <1>5, <1>6, <1>7, <1>8, CallTypes DEF Next
-----------------------------------------------------------------------------
(* Steps of a call that leave the chain alone: it goes no way back to where  *)
(* it had not sent, is guarded only after its gas guard, and measures        *)
(* against the baseline it read.                                             *)
Measures(place) == place \in {"locking", "waiting", "sending", "confirming", "verifying"}

Quiet(c) ==
  /\ UNCHANGED chainVars
  /\ \A d \in Calls \ {c} : at'[d] = at[d] /\ before'[d] = before[d]
  /\ at'[c] \in Ahead => at[c] \in Ahead
  /\ at'[c] \in Guarded => at[c] \in Guarded \/ ton >= Need(c)
  /\ at'[c] \in Fresh => at[c] \in Fresh
  /\ Measures(at'[c]) => \/ Measures(at[c]) /\ before'[c] = before[c]
                         \/ at[c] = "baseline" /\ before'[c] \in {jettons, Unread}

LEMMA QuietStep ==
  ASSUME RouterInv, NEW c \in Calls, Quiet(c)
  PROVE  PaidOnce' /\ FundsCover' /\ Measured'
PROOF
  <1> USE DEF Quiet
  <1>1. PaidOnce /\ FundsCover /\ Measured /\ mempool \subseteq Message
    BY DEF RouterInv, TypesInv, TypeOK
  <1>2. UNCHANGED <<ton, jettons, mempool, swapping, outdated, moved>>
    BY DEF chainVars, walletVars
  <1>3. PaidOnce'
    BY <1>1, <1>2, MessageType DEF PaidOnce, OnItsWay
  <1>4. FundsCover'
    BY <1>1, <1>2 DEF FundsCover, OnItsWay, Need, Buys
  <1>5. Measured'
    <2> SUFFICES ASSUME NEW d \in Calls
                 PROVE  /\ at'[d] \in Fresh => moved[d] = {}
                        /\ Measures(at'[d]) /\ before'[d] # Unread
                             => jettons = before'[d] + Lot * BuysMoved(d) - Lot * SellsMoved(d)
      BY <1>1, <1>2 DEF Measured, Measuring, Measures, BuysMoved, SellsMoved, Buys, Sells
    <2>1. /\ at[d] \in Fresh => moved[d] = {}
          /\ Measures(at[d]) /\ before[d] # Unread
               => jettons = before[d] + Lot * BuysMoved(d) - Lot * SellsMoved(d)
      BY <1>1 DEF Measured, Measuring, Measures
    <2>2. CASE d # c \/ Measures(at[d]) \/ ~Measures(at'[d])
      BY <2>1, <2>2 DEF Fresh, Measures
    <2>3. CASE d = c /\ at[c] = "baseline" /\ before'[c] = jettons
      <3>1. moved[c] = {} /\ BuysMoved(c) = 0 /\ SellsMoved(c) = 0
        BY <2>1, <2>3, FS_EmptySet DEF Fresh, BuysMoved, SellsMoved
      <3>2. jettons \in Nat /\ Lot \in Nat
        BY RouterAssumption DEF RouterInv, TypesInv, TypeOK
      <3>3. QED
        BY <2>1, <2>3, <3>1, <3>2
    <2>4. CASE d = c /\ at[c] = "baseline" /\ before'[c] = Unread
      BY <2>1, <2>4
    <2>5. QED
      BY <2>2, <2>3, <2>4
  <1>6. QED
    BY <1>3, <1>4, <1>5

(* A call's message leaves: it has not sent before. *)
LEMMA LeavesStep ==
  ASSUME RouterInv, NEW c \in Calls, at[c] = "sending", at'[c] \in {"confirming", "failed"},
         \A d \in Calls \ {c} : at'[d] = at[d],
         mempool' = mempool \cup {[call |-> c, seqno |-> seqno]},
         UNCHANGED <<before, ton, jettons, swapping, outdated, moved>>
  PROVE  PaidOnce' /\ FundsCover' /\ Measured'
PROOF
  <1> DEFINE m0 == [call |-> c, seqno |-> seqno]
  <1>1. PaidOnce /\ FundsCover /\ Measured /\ mempool \subseteq Message
    BY DEF RouterInv, TypesInv, TypeOK
  <1>2. m0.call = c /\ mempool' = mempool \cup {m0}
    OBVIOUS
  <1> HIDE DEF m0
  <1>3. at[c] \in Ahead /\ at[c] \in Guarded /\ at'[c] \notin Ahead
    BY DEF Ahead, Fresh, Guarded
  <1>4. \A m \in mempool : m.call \in Calls /\ m.call # c
    BY <1>1, <1>3, MessageType DEF PaidOnce
  <1>5. \A d \in Calls : OnItsWay(d)' => OnItsWay(d) \/ d = c
    BY <1>2 DEF OnItsWay
  <1>6. PaidOnce'
    BY <1>1, <1>2, <1>3, <1>4, <1>5 DEF PaidOnce
  <1>7. FundsCover'
    BY <1>1, <1>3, <1>5 DEF FundsCover, Need, Buys, Ahead
  <1>8. Measured'
    <2> SUFFICES ASSUME NEW d \in Calls
                 PROVE  (at'[d] \in Fresh => at[d] \in Fresh) /\ (Measuring(d)' => Measuring(d))
      BY <1>1 DEF Measured, BuysMoved, SellsMoved, Buys, Sells
    <2>1. QED
      BY DEF Fresh, Measuring
  <1>9. QED
    BY <1>6, <1>7, <1>8

(* The wallet executes the one message of a call. *)
LEMMA ExecuteStep ==
  ASSUME RouterInv, NEW c \in Calls, Executes(c), at[c] \in Ahead \/ OnItsWay(c),
         mempool' \subseteq mempool, ~OnItsWay(c)',
         at'[c] \notin Ahead, Measures(at'[c]) => Measures(at[c]),
         \A d \in Calls \ {c} : at'[d] = at[d],
         UNCHANGED <<before, jettons, moved>>
  PROVE  PaidOnce' /\ FundsCover' /\ Measured'
PROOF
  <1>1. /\ PaidOnce /\ FundsCover /\ Measured /\ mempool \subseteq Message
        /\ outdated \in [Calls -> BOOLEAN]
    BY DEF RouterInv, TypesInv, TypeOK
  <1>2. \A m \in mempool' : m.call \in Calls /\ m.call # c
    BY <1>1, MessageType DEF OnItsWay
  <1>3. swapping' \subseteq swapping \cup {c}
    BY DEF Executes
  <1>4. \A d \in Calls : OnItsWay(d)' => OnItsWay(d) /\ d # c
    BY DEF OnItsWay
  <1>5. PaidOnce'
    <2>1. \A m \in mempool' : at'[m.call] \notin Ahead
      BY <1>1, <1>2 DEF PaidOnce
    <2>2. \A m, n \in mempool' : m.call = n.call => m = n
      BY <1>1 DEF PaidOnce
    <2>3. \A d \in Calls : at'[d] \in Ahead \/ OnItsWay(d)' =>
            d \notin swapping' /\ \A e \in Calls : d \notin moved'[e]
      BY <1>1, <1>3, <1>4 DEF PaidOnce
    <2>4. \A d \in swapping' : \A e \in Calls : d \notin moved'[e]
      BY <1>1, <1>3 DEF PaidOnce
    <2>5. QED
      BY <2>1, <2>2, <2>3, <2>4 DEF PaidOnce
  <1>6. FundsCover'
    <2> SUFFICES ASSUME NEW d \in Calls, at'[d] \in Guarded \/ OnItsWay(d)', ~outdated'[d]
                 PROVE  ton' >= Need(d)
      BY DEF FundsCover, Need, Buys
    <2>1. d # c /\ (at[d] \in Guarded \/ OnItsWay(d))
      BY <1>4 DEF Ahead
    <2>2. Watching(d)
      <3>1. CASE at[d] \in Guarded
        BY <3>1 DEF Guarded, Watching
      <3>2. CASE OnItsWay(d)
        <4>1. at[d] \notin Ahead
          BY <1>1, <3>2 DEF PaidOnce, OnItsWay
        <4>2. QED
          BY <4>1 DEF Ahead, Fresh, Watching
      <3>3. QED
        BY <2>1, <3>1, <3>2
    <2>3. CASE ton >= Value(c)
      <3>1. outdated' = [e \in Calls |-> outdated[e] \/ (e # c /\ Watching(e))]
        BY <2>3 DEF Executes
      <3>2. outdated'[d]
        BY <2>1, <2>2, <3>1
      <3>3. QED
        BY <3>2
    <2>4. CASE ~(ton >= Value(c))
      BY <1>1, <2>1, <2>4 DEF Executes, FundsCover
    <2>5. QED
      BY <2>3, <2>4
  <1>7. Measured'
    <2> SUFFICES ASSUME NEW d \in Calls
                 PROVE  (at'[d] \in Fresh => at[d] \in Fresh) /\ (Measuring(d)' => Measuring(d))
      BY <1>1 DEF Measured, BuysMoved, SellsMoved, Buys, Sells
    <2>1. QED
      BY DEF Ahead, Measuring, Measures
  <1>8. QED
    BY <1>5, <1>6, <1>7

(* A swap delivers, to the account of every call that is measuring. *)
LEMMA DeliverStep ==
  ASSUME RouterInv, NEW c \in Calls, Delivers(c)
  PROVE  PaidOnce' /\ FundsCover' /\ Measured'
PROOF
  <1>1. /\ PaidOnce /\ FundsCover /\ Measured
        /\ moved \in [Calls -> SUBSET Calls] /\ jettons \in Nat /\ before \in [Calls -> Int]
        /\ mempool \subseteq Message /\ Lot \in Nat
    BY LotType DEF RouterInv, TypesInv, TypeOK
  <1>2. /\ c \in swapping /\ swapping' = swapping \ {c}
        /\ moved' = [d \in Calls |-> IF Measuring(d) THEN moved[d] \cup {c} ELSE moved[d]]
        /\ UNCHANGED <<at, before, mempool, ton, outdated>>
    BY DEF Delivers, localVars
  <1>3. \/ c \in Buys /\ c \notin Sells /\ jettons' = jettons + Lot
        \/ c \in Sells /\ c \notin Buys /\ jettons' = jettons - Lot
    BY DEF Delivers, Sells
  <1>4. \A d \in Calls : c \notin moved[d]
    BY <1>1, <1>2 DEF PaidOnce
  <1>5. \A d \in Calls : moved'[d] = IF Measuring(d) THEN moved[d] \cup {c} ELSE moved[d]
    BY <1>2
  <1>6. PaidOnce'
    <2>1. \A d \in Calls : OnItsWay(d)' <=> OnItsWay(d)
      BY <1>2 DEF OnItsWay
    <2>2. \A d \in Calls : at[d] \in Ahead \/ OnItsWay(d) => d # c
      BY <1>1, <1>2 DEF PaidOnce
    <2>3. \A d, e \in Calls : d \in moved'[e] => d \in moved[e] \/ d = c
      BY <1>5
    <2>4. QED
      BY <1>1, <1>2, <2>1, <2>2, <2>3 DEF PaidOnce
  <1>7. FundsCover'
    BY <1>1, <1>2 DEF FundsCover, OnItsWay, Need, Buys
  <1>8. Measured'
    <2> SUFFICES ASSUME NEW d \in Calls
                 PROVE  /\ IsFiniteSet(moved'[d])
                        /\ at[d] \in Fresh => moved'[d] = {}
                        /\ Measuring(d) /\ before[d] # Unread
                             => jettons' = before[d] + Lot * BuysMoved(d)' - Lot * SellsMoved(d)'
      BY <1>2 DEF Measured, Measuring
    <2>1. IsFiniteSet(moved[d]) /\ (at[d] \in Fresh => moved[d] = {})
      BY <1>1 DEF Measured
    <2>2. IsFiniteSet(moved'[d])
      <3>1. IsFiniteSet(moved[d] \cup {c})
        BY <2>1, FS_AddElement
      <3>2. QED
        BY <1>5, <2>1, <3>1
    <2>3. at[d] \in Fresh => moved'[d] = {}
      BY <1>5, <2>1 DEF Fresh, Measuring
    <2>4. ASSUME Measuring(d), before[d] # Unread
          PROVE  jettons' = before[d] + Lot * BuysMoved(d)' - Lot * SellsMoved(d)'
      <3>1. moved'[d] = moved[d] \cup {c} /\ c \notin moved[d]
        BY <1>4, <1>5, <2>4
      <3>2. /\ IsFiniteSet(moved[d] \cap Buys) /\ IsFiniteSet(moved[d] \cap Sells)
            /\ BuysMoved(d) \in Nat /\ SellsMoved(d) \in Nat
        BY <2>1, FS_Intersection, FS_CardinalityType DEF BuysMoved, SellsMoved
      <3>3. jettons = before[d] + Lot * BuysMoved(d) - Lot * SellsMoved(d)
        BY <1>1, <2>4 DEF Measured
      <3>4. CASE c \in Buys /\ c \notin Sells /\ jettons' = jettons + Lot
        <4>1. /\ moved'[d] \cap Buys = (moved[d] \cap Buys) \cup {c}
              /\ moved'[d] \cap Sells = moved[d] \cap Sells /\ c \notin moved[d] \cap Buys
          BY <3>1, <3>4
        <4>2. BuysMoved(d)' = BuysMoved(d) + 1 /\ SellsMoved(d)' = SellsMoved(d)
          BY <3>2, <4>1, FS_AddElement DEF BuysMoved, SellsMoved
        <4>3. Lot * (BuysMoved(d) + 1) = Lot * BuysMoved(d) + Lot
          BY <1>1, <3>2
        <4>4. QED
          BY <1>1, <3>2, <3>3, <3>4, <4>2, <4>3
      <3>5. CASE c \in Sells /\ c \notin Buys /\ jettons' = jettons - Lot
        <4>1. /\ moved'[d] \cap Sells = (moved[d] \cap Sells) \cup {c}
              /\ moved'[d] \cap Buys = moved[d] \cap Buys /\ c \notin moved[d] \cap Sells
          BY <3>1, <3>5
        <4>2. SellsMoved(d)' = SellsMoved(d) + 1 /\ BuysMoved(d)' = BuysMoved(d)
          BY <3>2, <4>1, FS_AddElement DEF BuysMoved, SellsMoved
        <4>3. Lot * (SellsMoved(d) + 1) = Lot * SellsMoved(d) + Lot
          BY <1>1, <3>2
        <4>4. QED
          BY <1>1, <3>2, <3>3, <3>5, <4>2, <4>3
      <3>6. QED
        BY <1>3, <3>4, <3>5
    <2>5. QED
      BY <2>2, <2>3, <2>4
  <1>9. QED
    BY <1>6, <1>7, <1>8

LEMMA CallStep ==
  ASSUME RouterInv, NEW c \in Calls,
         BeginQuote(c) \/ ExecuteSwap(c) \/ ExecuteForTier(c) \/ ExecutionNode(c) \/ Steps(c)
  PROVE  PaidOnce' /\ FundsCover' /\ Measured'
PROOF
  <1> USE DEF Goto, Fails, FailsReleasing, Ahead, Fresh, Guarded, Measures, localVars
  <1>1. /\ at \in [Calls -> Places] /\ before \in [Calls -> Int]
        /\ PaidOnce /\ mempool \subseteq Message
    BY DEF RouterInv, TypesInv, TypeOK
  <1>2. ASSUME NEW place, at' = [at EXCEPT ![c] = place]
        PROVE  at'[c] = place /\ \A d \in Calls \ {c} : at'[d] = at[d]
    BY <1>1, <1>2
  <1>3. CASE BeginQuote(c) \/ ExecuteSwap(c) \/ ExecuteForTier(c) \/ ExecutionNode(c)
             \/ StonfiQuotes(c) \/ DedustQuotes(c) \/ QuoteFails(c) \/ Unresolved(c)
    <2>1. PICK place \in {"quoting", "quoted", "funds", "failed"} : at' = [at EXCEPT ![c] = place]
      BY <1>3 DEF BeginQuote, ExecuteSwap, ExecuteForTier, ExecutionNode, StonfiQuotes,
                  DedustQuotes, Promised, QuoteFails, Unresolved
    <2>2. /\ UNCHANGED <<before, chainVars>>
          /\ at[c] \in {"new", "quoting", "quoted", "baseline"}
      BY <1>3 DEF BeginQuote, ExecuteSwap, ExecuteForTier, ExecutionNode, StonfiQuotes,
                  DedustQuotes, Promised, QuoteFails, Unresolved
    <2>3. QED
      BY <1>2, <2>1, <2>2, QuietStep DEF Quiet
  <1>4. CASE ReadFunds(c)
    <2>1. /\ at[c] = "funds" /\ UNCHANGED <<before, chainVars>>
          /\ \/ ton >= Need(c) /\ at' = [at EXCEPT ![c] = "baseline"]
             \/ at' = [at EXCEPT ![c] = "failed"]
      BY <1>4 DEF ReadFunds
    <2>2. QED
      BY <1>2, <2>1, QuietStep DEF Quiet
  <1>5. CASE ReadBaseline(c)
    <2>1. PICK b \in {jettons, Unread} : before' = [before EXCEPT ![c] = b]
      BY <1>5 DEF ReadBaseline
    <2>2. before'[c] = b /\ \A d \in Calls \ {c} : before'[d] = before[d]
      BY <1>1, <2>1
    <2>3. at[c] = "baseline" /\ at' = [at EXCEPT ![c] = "locking"] /\ UNCHANGED chainVars
      BY <1>5 DEF ReadBaseline
    <2>4. QED
      BY <1>2, <2>2, <2>3, QuietStep DEF Quiet
  <1>6. CASE Acquire(c) \/ ReadSeqno(c) \/ Confirmed(c) \/ ConfirmationTimeout(c)
             \/ VerifyBuy(c) \/ VerifySell(c)
    <2>1. /\ UNCHANGED <<before, chainVars>>
          /\ \/ at[c] = "locking" /\ at' = [at EXCEPT ![c] = "waiting"]
             \/ at[c] = "waiting" /\ at' = [at EXCEPT ![c] = "sending"]
             \/ at[c] = "confirming" /\ at' = [at EXCEPT ![c] = "verifying"]
             \/ at[c] \in {"waiting", "confirming", "verifying"} /\ at' = [at EXCEPT ![c] = "failed"]
             \/ at[c] = "verifying" /\ at' = [at EXCEPT ![c] = "ok"]
             \/ at[c] = "verifying" /\ UNCHANGED at
      BY <1>6 DEF Acquire, ReadSeqno, Confirmed, ConfirmationTimeout, VerifyBuy, VerifySell, ReadAgain
    <2>2. \A d \in Calls \ {c} : at'[d] = at[d] /\ before'[d] = before[d]
      BY <1>1, <2>1
    <2>3. UNCHANGED chainVars /\ before'[c] = before[c]
      BY <2>1
    <2>4. at'[c] \in Ahead => at[c] \in Ahead
      BY <1>1, <2>1
    <2>5. at'[c] \in Guarded => at[c] \in Guarded
      BY <1>1, <2>1
    <2>6. at'[c] \in Fresh => at[c] \in Fresh
      BY <1>1, <2>1
    <2>7. Measures(at'[c]) => Measures(at[c])
      BY <1>1, <2>1
    <2>8. Quiet(c)
      BY <2>2, <2>3, <2>4, <2>5, <2>6, <2>7 DEF Quiet
    <2>9. QED
      BY <2>8, QuietStep
  <1>7. CASE SendExternal(c)
    BY <1>2, <1>7, LeavesStep DEF SendExternal, Leaves, walletVars
  <1>8. CASE SendThrows(c)
    <2>1. /\ at[c] = "sending" /\ at' = [at EXCEPT ![c] = "failed"]
          /\ UNCHANGED <<before, walletVars, swapping, outdated, moved>>
          /\ Leaves(c) \/ UNCHANGED mempool
      BY <1>8 DEF SendThrows
    <2>2. QED
      BY <1>2, <2>1, QuietStep, LeavesStep DEF Quiet, Leaves, chainVars, walletVars
  <1>9. CASE RunActon(c)
    <2>1. /\ at[c] = "sending" /\ at' = [at EXCEPT ![c] = "verifying"] /\ Executes(c)
          /\ UNCHANGED <<before, jettons, mempool, moved>>
      BY <1>9 DEF RunActon
    <2>2. ~OnItsWay(c)'
      BY <1>1, <2>1, MessageType DEF PaidOnce, OnItsWay
    <2>3. at'[c] = "verifying" /\ \A d \in Calls \ {c} : at'[d] = at[d]
      BY <1>1, <2>1
    <2>4. QED
      BY <2>1, <2>2, <2>3, ExecuteStep
  <1>10. QED
    BY <1>3, <1>4, <1>5, <1>6, <1>7, <1>8, <1>9 DEF Steps

LEMMA NextRouterInv == RouterInv /\ [Next]_vars => RouterInv'
PROOF
  <1> SUFFICES ASSUME RouterInv, [Next]_vars PROVE RouterInv'
    OBVIOUS
  <1>1. TypesInv'
    BY NextTypes DEF RouterInv
  <1>2. PaidOnce /\ FundsCover /\ Measured /\ mempool \subseteq Message
    BY DEF RouterInv, TypesInv, TypeOK
  <1>3. ASSUME NEW m \in mempool, Lands(m)
        PROVE  PaidOnce' /\ FundsCover' /\ Measured'
    <2>1. m.call \in Calls /\ OnItsWay(m.call) /\ at[m.call] \notin Ahead
      BY <1>2, MessageType DEF OnItsWay, PaidOnce
    <2>2. mempool' = mempool \ {m} /\ UNCHANGED <<at, before, jettons, moved>> /\ Executes(m.call)
      BY <1>3 DEF Lands, localVars
    <2>3. ~OnItsWay(m.call)'
      BY <1>2, <2>2 DEF OnItsWay, PaidOnce
    <2>4. QED
      BY <2>1, <2>2, <2>3, ExecuteStep
  <1>4. ASSUME UNCHANGED <<at, before, ton, jettons, outdated, moved>>,
               mempool' \subseteq mempool, swapping' \subseteq swapping
        PROVE  PaidOnce' /\ FundsCover' /\ Measured'
    <2>1. \A c \in Calls : OnItsWay(c)' => OnItsWay(c)
      BY <1>4 DEF OnItsWay
    <2>2. PaidOnce' /\ FundsCover'
      BY <1>2, <1>4, <2>1 DEF PaidOnce, FundsCover, Need, Buys
    <2>3. Measured'
      BY <1>2, <1>4 DEF Measured, Measuring, BuysMoved, SellsMoved, Buys, Sells
    <2>4. QED
      BY <2>2, <2>3
  <1>5. ASSUME NEW m \in mempool, Expires(m)
        PROVE  PaidOnce' /\ FundsCover' /\ Measured'
    BY <1>4, <1>5 DEF Expires, localVars, walletVars
  <1>6. ASSUME NEW c \in Calls, Bounces(c)
        PROVE  PaidOnce' /\ FundsCover' /\ Measured'
    BY <1>4, <1>6 DEF Bounces, localVars, walletVars
  <1>7. ASSUME NEW dex \in Dexes, Tick(dex)
        PROVE  PaidOnce' /\ FundsCover' /\ Measured'
    BY <1>4, <1>7 DEF Tick, localVars, chainVars, walletVars
  <1>8. ASSUME UNCHANGED vars
        PROVE  PaidOnce' /\ FundsCover' /\ Measured'
    BY <1>4, <1>8 DEF vars, localVars, chainVars, walletVars
  <1>9. PaidOnce' /\ FundsCover' /\ Measured'
    BY <1>3, <1>5, <1>6, <1>7, <1>8, CallStep, DeliverStep DEF Next
  <1>10. QED
    BY <1>1, <1>9 DEF RouterInv

(* The invariant of the router's locks, messages and balances that the      *)
(* theorems below rest on.                                                   *)
THEOREM RouterInvariant == Spec => []RouterInv
BY InitRouterInv, NextRouterInv, PTL DEF Spec
-----------------------------------------------------------------------------
(* The router's calls, locks and cache keep their types: a lock is given     *)
(* back by the call that holds it, a verification reads no more often than   *)
(* it may, and a pool rests no longer than DEAD_POOL_TTL_MS (router.ts).     *)
THEOREM RouterTypes == Spec => []TypeOK
PROOF
  <1>1. RouterInv => TypeOK
    BY DEF RouterInv, TypesInv
  <1>2. QED
    BY <1>1, RouterInvariant, PTL

(* The gas guard of a buy (gas-guard.ts) keeps the reserve for the way out   *)
(* in the wallet, however late its message lands, unless another message was *)
(* paid for since it read the balance.                                       *)
THEOREM ReserveIsKept == Spec => ReserveKept
PROOF
  <1> DEFINE Kept == \A c \in Buys : c \in swapping' \ swapping /\ ~outdated'[c] => ton' >= ExitReserve
  <1>1. RouterInv /\ Next => Kept
    <2> SUFFICES ASSUME RouterInv, Next, NEW c \in Buys, c \in swapping' \ swapping, ~outdated'[c]
                 PROVE  ton' >= ExitReserve
      OBVIOUS
    <2>1. /\ PaidOnce /\ FundsCover /\ mempool \subseteq Message
          /\ outdated \in [Calls -> BOOLEAN] /\ ton \in Nat /\ c \in Calls
      BY DEF RouterInv, TypesInv, TypeOK, Buys
    <2>2. \/ \E m \in mempool : Lands(m)
          \/ \E d \in Calls : RunActon(d)
      BY DEF Next, Steps, BeginQuote, ExecuteSwap, ExecuteForTier, ExecutionNode, StonfiQuotes,
             DedustQuotes, QuoteFails, ReadFunds, Unresolved, ReadBaseline, Acquire, ReadSeqno,
             SendExternal, SendThrows, Confirmed, ConfirmationTimeout, VerifyBuy, VerifySell,
             Expires, Delivers, Bounces, Tick, chainVars
    <2>3. PICK d \in Calls : Executes(d) /\ (at[d] \in Guarded \/ OnItsWay(d))
      BY <2>1, <2>2, MessageType DEF Lands, RunActon, Guarded, OnItsWay
    <2>4. /\ d = c /\ ton >= Value(c) /\ ton' = ton - Value(c)
          /\ outdated' = [e \in Calls |-> outdated[e] \/ (e # d /\ Watching(e))]
      BY <2>3 DEF Executes
    <2>5. ~outdated[c]
      BY <2>1, <2>4
    <2>6. ton >= Need(c)
      BY <2>1, <2>3, <2>4, <2>5 DEF FundsCover
    <2>7. Value(c) \in Nat /\ Need(c) \in Nat /\ ExitReserve \in Nat /\ Value(c) + ExitReserve <= Need(c)
      BY <2>1, ValueBelowNeed, RequestTypes DEF ExitReserve
    <2>8. QED
      BY <2>1, <2>4, <2>6, <2>7
  <1>2. RouterInv /\ [Next]_vars => [Kept]_vars
    BY <1>1
  <1>3. QED
    BY <1>2, RouterInvariant, PTL DEF Spec, ReserveKept
-----------------------------------------------------------------------------
(* What a call is told at the end follows from what moved while it measured. *)
LEMMA SetFacts ==
  ASSUME RouterInv, NEW c \in Calls
  PROVE  /\ BuysMoved(c) \in Nat /\ SellsMoved(c) \in Nat
         /\ BuysMoved(c) = 0 <=> moved[c] \cap Buys = {}
         /\ SellsMoved(c) = 0 <=> moved[c] \cap Sells = {}
         /\ moved[c] \subseteq {c} => BuysMoved(c) <= 1
PROOF
  <1>1. IsFiniteSet(moved[c])
    BY DEF RouterInv, Measured
  <1>2. IsFiniteSet(moved[c] \cap Buys) /\ IsFiniteSet(moved[c] \cap Sells)
    BY <1>1, FS_Intersection
  <1>3. /\ BuysMoved(c) \in Nat /\ SellsMoved(c) \in Nat
        /\ BuysMoved(c) = 0 <=> moved[c] \cap Buys = {}
        /\ SellsMoved(c) = 0 <=> moved[c] \cap Sells = {}
    BY <1>2, FS_CardinalityType, FS_EmptySet DEF BuysMoved, SellsMoved
  <1>4. ASSUME moved[c] \subseteq {c} PROVE BuysMoved(c) <= 1
    <2>1. IsFiniteSet({c}) /\ Cardinality({c}) = 1 /\ moved[c] \cap Buys \in SUBSET {c}
      BY <1>4, FS_Singleton
    <2>2. Cardinality(moved[c] \cap Buys) <= Cardinality({c})
      BY <2>1, FS_Subset
    <2>3. QED
      BY <2>1, <2>2 DEF BuysMoved
  <1>5. QED
    BY <1>3, <1>4

BookedTrue(c) ==
  at[c] = "ok" =>
    /\ before[c] # Unread /\ (c \in Sells => before[c] # 0) /\ moved[c] \subseteq {c}
         => c \in moved[c] /\ booked[c] = Lot
    /\ c \in Buys /\ before[c] # Unread => booked[c] <= Lot * BuysMoved(c)
    /\ c \in Sells /\ before[c] > 0 => moved[c] \cap Sells # {}

LEMMA BuyBooks ==
  ASSUME RouterInv, NEW c \in Calls, VerifyBuy(c), at'[c] = "ok"
  PROVE  BookedTrue(c)'
PROOF
  <1>1. /\ at[c] = "verifying" /\ c \in Buys /\ c \notin Sells
        /\ Increment(before[c], jettons) > 0 /\ booked' = [booked EXCEPT ![c] = Increment(before[c], jettons)]
        /\ UNCHANGED <<before, moved>>
    BY DEF VerifyBuy, ReadAgain, Goto, Sells, RouterInv, TypesInv, TypeOK, chainVars
  <1>2. /\ jettons \in Nat /\ before[c] \in Int /\ Lot \in Nat /\ Lot > 0
        /\ booked'[c] = Increment(before[c], jettons)
    BY <1>1, LotType DEF RouterInv, TypesInv, TypeOK
  <1>3. SUFFICES ASSUME before[c] # Unread
                 PROVE  /\ moved[c] \subseteq {c} => c \in moved[c] /\ booked'[c] = Lot
                        /\ booked'[c] <= Lot * BuysMoved(c)
    BY <1>1 DEF BookedTrue, BuysMoved
  <1>4. jettons = before[c] + Lot * BuysMoved(c) - Lot * SellsMoved(c)
    BY <1>1, <1>3 DEF RouterInv, Measured, Measuring
  <1>5. booked'[c] = jettons - before[c] /\ jettons - before[c] > 0
    BY <1>1, <1>2, <1>3 DEF Increment
  <1>6. /\ Lot * BuysMoved(c) \in Nat /\ Lot * SellsMoved(c) \in Nat
        /\ BuysMoved(c) = 0 => Lot * BuysMoved(c) = 0
        /\ BuysMoved(c) = 1 => Lot * BuysMoved(c) = Lot
        /\ SellsMoved(c) = 0 => Lot * SellsMoved(c) = 0
    BY <1>2, SetFacts
  <1>7. BuysMoved(c) # 0
    BY <1>2, <1>4, <1>5, <1>6
  <1>8. ASSUME moved[c] \subseteq {c} PROVE c \in moved[c] /\ booked'[c] = Lot
    <2>1. c \in moved[c]
      BY <1>7, <1>8, SetFacts
    <2>2. BuysMoved(c) = 1
      BY <1>7, <1>8, SetFacts
    <2>3. SellsMoved(c) = 0
      BY <1>1, <1>8, SetFacts
    <2>4. QED
      BY <1>2, <1>4, <1>5, <1>6, <2>1, <2>2, <2>3
  <1>9. booked'[c] <= Lot * BuysMoved(c)
    BY <1>2, <1>4, <1>5, <1>6
  <1>10. QED
    BY <1>8, <1>9

LEMMA SellBooks ==
  ASSUME RouterInv, NEW c \in Calls, VerifySell(c), at'[c] = "ok"
  PROVE  BookedTrue(c)'
PROOF
  <1>1. /\ at[c] = "verifying" /\ c \in Sells /\ c \notin Buys
        /\ before[c] # Unread /\ SellMoved(before[c], jettons) /\ booked' = [booked EXCEPT ![c] = Lot]
        /\ UNCHANGED <<before, moved>>
    BY DEF VerifySell, ReadAgain, Goto, Sells, RouterInv, TypesInv, TypeOK, chainVars
  <1>2. /\ jettons \in Nat /\ before[c] \in Int /\ Lot \in Nat /\ booked'[c] = Lot
    BY <1>1, LotType DEF RouterInv, TypesInv, TypeOK
  <1>3. ASSUME before[c] # 0 PROVE moved[c] \cap Sells # {}
    <2>1. jettons = before[c] + Lot * BuysMoved(c) - Lot * SellsMoved(c)
      BY <1>1 DEF RouterInv, Measured, Measuring
    <2>2. before[c] - jettons > 0
      BY <1>1, <1>3 DEF SellMoved
    <2>3. /\ Lot * BuysMoved(c) \in Nat
          /\ SellsMoved(c) = 0 => Lot * SellsMoved(c) = 0
      BY <1>2, SetFacts
    <2>4. SellsMoved(c) # 0
      BY <1>2, <2>1, <2>2, <2>3
    <2>5. QED
      BY <2>4, SetFacts
  <1>4. QED
    BY <1>1, <1>2, <1>3 DEF BookedTrue

LEMMA NextBooks ==
  ASSUME RouterInv, \A c \in Calls : BookedTrue(c), [Next]_vars
  PROVE  \A c \in Calls : BookedTrue(c)'
PROOF
  <1> SUFFICES ASSUME NEW c \in Calls, at'[c] = "ok" PROVE BookedTrue(c)'
    BY DEF BookedTrue
  <1> USE DEF localVars, walletVars, chainVars
  <1>1. /\ at \in [Calls -> Places] /\ booked \in [Calls -> Nat] /\ before \in [Calls -> Int]
    BY DEF RouterInv, TypesInv, TypeOK
  <1>2. ASSUME at[c] = "ok", before'[c] = before[c], booked'[c] = booked[c], moved'[c] = moved[c]
        PROVE  BookedTrue(c)'
    BY <1>2 DEF BookedTrue, BuysMoved
  <1>3. ASSUME NEW d \in Calls,
               BeginQuote(d) \/ ExecuteSwap(d) \/ ExecuteForTier(d) \/ ExecutionNode(d) \/ Steps(d)
        PROVE  BookedTrue(c)'
    <2>1. CASE VerifyBuy(d) \/ VerifySell(d)
      <3>1. CASE d = c
        BY <2>1, <3>1, BuyBooks, SellBooks
      <3>2. CASE d # c
        BY <1>1, <1>2, <2>1, <3>2 DEF VerifyBuy, VerifySell, ReadAgain, Goto
      <3>3. QED
        BY <3>1, <3>2
    <2>2. CASE ~(VerifyBuy(d) \/ VerifySell(d))
      <3>1. UNCHANGED <<booked, moved>>
        BY <1>3, <2>2 DEF Steps, BeginQuote, ExecuteSwap, ExecuteForTier, ExecutionNode, StonfiQuotes,
             DedustQuotes, QuoteFails, ReadFunds, Unresolved, ReadBaseline, Acquire, ReadSeqno,
             SendExternal, SendThrows, Confirmed, ConfirmationTimeout, RunActon
      <3>2. PICK place \in Places \ {"ok"} : at' = [at EXCEPT ![d] = place]
        BY <1>3, <2>2 DEF Steps, BeginQuote, ExecuteSwap, ExecuteForTier, ExecutionNode, StonfiQuotes,
             DedustQuotes, Promised, QuoteFails, ReadFunds, Unresolved, ReadBaseline, Acquire, ReadSeqno,
             SendExternal, SendThrows, Confirmed, ConfirmationTimeout, RunActon, Goto, Fails,
             FailsReleasing, Places
      <3>3. d # c /\ at[c] = "ok"
        BY <1>1, <3>2
      <3>4. before'[c] = before[c]
        BY <1>1, <1>3, <2>2, <3>3 DEF Steps, BeginQuote, ExecuteSwap, ExecuteForTier, ExecutionNode,
             StonfiQuotes, DedustQuotes, QuoteFails, ReadFunds, Unresolved, ReadBaseline, Acquire,
             ReadSeqno, SendExternal, SendThrows, Confirmed, ConfirmationTimeout, RunActon
      <3>5. QED
        BY <1>2, <3>1, <3>3, <3>4
    <2>3. QED
      BY <2>1, <2>2
  <1>4. ASSUME NEW m \in mempool, Lands(m) \/ Expires(m) PROVE BookedTrue(c)'
    BY <1>2, <1>4 DEF Lands, Expires
  <1>5. ASSUME NEW d \in Calls, Delivers(d) \/ Bounces(d) PROVE BookedTrue(c)'
    <2>1. at[c] = "ok" /\ before'[c] = before[c] /\ booked'[c] = booked[c]
      BY <1>5 DEF Delivers, Bounces
    <2>2. moved'[c] = moved[c]
      BY <1>5, <2>1 DEF Delivers, Bounces, Measuring
    <2>3. QED
      BY <1>2, <2>1, <2>2
  <1>6. ASSUME NEW dex \in Dexes, Tick(dex) PROVE BookedTrue(c)'
    BY <1>2, <1>6 DEF Tick
  <1>7. CASE UNCHANGED vars
    BY <1>2, <1>7 DEF vars
  <1>8. QED
    BY <1>3, <1>4, <1>5, <1>6, <1>7 DEF Next

(* "Never silently booked": a swap that the router reports done, having read *)
(* a baseline, is one that moved jettons after it, and a buy books no more   *)
(* than was delivered (verify.ts); alone, it books exactly its own.          *)
THEOREM BookingsAreTrue == Spec => []BookingsTrue
PROOF
  <1> DEFINE AllBooked == \A c \in Calls : BookedTrue(c)
  <1>1. Init => AllBooked
    BY DEF Init, BookedTrue
  <1>2. RouterInv /\ AllBooked /\ [Next]_vars => AllBooked'
    BY NextBooks
  <1>3. AllBooked => BookingsTrue
    BY DEF BookedTrue, BookingsTrue, BookedSwapsHappened, BookedIsBacked, BuysMoved
  <1>4. QED
    BY <1>1, <1>2, <1>3, RouterInvariant, PTL DEF Spec
=============================================================================
