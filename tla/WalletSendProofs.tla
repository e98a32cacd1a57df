-------------------------- MODULE WalletSendProofs --------------------------
(***************************************************************************)
(* Proofs about the live wallet: a call swaps at most once, a buy that     *)
(* lands on STON.fi leaves the reserve for the way back, WalletMutex is a  *)
(* queue with one holder, and replies are true unless something went wrong.*)
(***************************************************************************)
EXTENDS WalletSend, Sequences, TLAPS

WalletTypes ==
  /\ pc \in [Calls -> Phases] /\ startSeqno \in [Calls -> Nat]
  /\ chainSeqno \in Nat /\ balance \in Nat
  /\ sent \subseteq Message /\ landed \subseteq Message

(* Before a call has read a seqno. *)
Early == {"asked", "dryrun", "idle", "locking", "seqno"}

(* A call's messages carry the seqno it read, which the chain has reached.   *)
Stamped ==
  /\ \A c \in Calls : startSeqno[c] <= chainSeqno
  /\ \A m \in sent \cup landed : /\ m.seqno = startSeqno[m.call]
                                 /\ pc[m.call] \notin Early

(* The balance check of a call whose seqno is still the wallet's still holds.*)
FundsCover ==
  /\ \A m \in sent : m.seqno = chainSeqno => balance >= Need(m.call)
  /\ \A c \in Calls : pc[c] \in {"routing", "sending", "polling"} /\ startSeqno[c] = chainSeqno
                        => balance >= Need(c)

WalletInv == WalletTypes /\ Stamped /\ FundsCover

LEMMA NeedType ==
  ASSUME NEW c \in Calls
  PROVE  Need(c) \in Nat /\ Value(c) \in Nat
BY WalletAssumption DEF Need, Value, ValueOfDedust, ValueOfStonfi, BuyGas

LEMMA MessageType ==
  ASSUME NEW m \in Message
  PROVE  m.call \in Calls /\ m.seqno \in Nat
BY DEF Message

LEMMA InitWalletInv == Init => WalletInv
BY WalletAssumption DEF Init, WalletInv, WalletTypes, Stamped, FundsCover, Phases, Entry

(* Steps of a call that neither send nor touch the seqno or the chain: they  *)
(* move one call to a phase that needs no cover, or to one it already had.   *)
LEMMA QuietStep ==
  ASSUME WalletInv, NEW c \in Calls, NEW phase \in Phases,
         pc' = [pc EXCEPT ![c] = phase],
         UNCHANGED <<startSeqno, chainVars>>,
         pc[c] \notin Early => phase \notin Early,
         phase \in {"routing", "sending", "polling"}
           => pc[c] \in {"routing", "sending", "polling"} \/ balance >= Need(c)
  PROVE  WalletInv'
PROOF
  <1> USE DEF WalletInv
  <1>1. WalletTypes'
    BY DEF WalletTypes, chainVars
  <1>2. \A d \in Calls : pc'[d] = IF d = c THEN phase ELSE pc[d]
    BY DEF WalletTypes
  <1>3. \A m \in sent \cup landed : m.call \in Calls
    BY MessageType DEF WalletTypes
  <1>4. Stamped'
    BY <1>2, <1>3 DEF Stamped, chainVars
  <1>5. FundsCover'
    BY <1>2 DEF FundsCover, chainVars
  <1>6. QED
    BY <1>1, <1>4, <1>5

(* A send, or a failed send whose message left.                              *)
LEMMA SendStep ==
  ASSUME WalletInv, NEW c \in Calls, NEW phase \in {"sending", "polling", "returned"},
         pc[c] = "sending", pc' = [pc EXCEPT ![c] = phase],
         sent' = sent \cup {SwapMessage(c)},
         UNCHANGED <<startSeqno, chainSeqno, balance, landed>>
  PROVE  WalletInv'
PROOF
  <1> USE DEF WalletInv
  <1>1. SwapMessage(c) \in Message /\ SwapMessage(c).call = c /\ SwapMessage(c).seqno = startSeqno[c]
    BY DEF SwapMessage, Message, WalletTypes
  <1>2. WalletTypes'
    BY <1>1 DEF WalletTypes, Phases
  <1>3. \A d \in Calls : pc'[d] = IF d = c THEN phase ELSE pc[d]
    BY DEF WalletTypes
  <1>4. \A m \in sent \cup landed : m.call \in Calls
    BY MessageType DEF WalletTypes
  <1>5. Stamped'
    BY <1>1, <1>3, <1>4 DEF Stamped, Early
  <1>6. FundsCover'
    BY <1>1, <1>3 DEF FundsCover
  <1>7. QED
    BY <1>2, <1>5, <1>6

(* The seqno moves: no message and no call has the new one.                  *)
LEMMA SeqnoStep ==
  ASSUME WalletInv, chainSeqno' = chainSeqno + 1, balance' \in Nat,
         landed' \subseteq landed \cup sent, UNCHANGED <<pc, startSeqno, sent>>
  PROVE  WalletInv'
PROOF
  <1> USE DEF WalletInv
  <1>1. WalletTypes'
    BY DEF WalletTypes
  <1>2. \A m \in sent \cup landed : m.call \in Calls /\ m.seqno \in Nat
    BY MessageType DEF WalletTypes
  <1>3. \A c \in Calls : startSeqno[c] \in Nat /\ startSeqno[c] < chainSeqno'
    BY DEF WalletTypes, Stamped
  <1>4. Stamped'
    BY <1>2, <1>3 DEF Stamped, WalletTypes
  <1>5. FundsCover'
    BY <1>2, <1>3, <1>4 DEF FundsCover, Stamped
  <1>6. QED
    BY <1>1, <1>4, <1>5

LEMMA CallPreserves ==
  ASSUME WalletInv, NEW c \in Calls, Preflight(c) \/ DryRun(c) \/ Refuses(c) \/ Acquires(c) \/ Steps(c)
  PROVE  WalletInv'
PROOF
  <1> USE DEF Goto, Returns, Bounced, SimulationFails, Phases, Early
  <1>1. CASE Refuses(c)
    BY <1>1, QuietStep DEF Refuses
  <1>2. CASE Acquires(c)
    BY <1>2, QuietStep DEF Acquires
  <1>3. CASE Enters(c)
    BY <1>3, QuietStep DEF Enters
  <1>4. CASE ReadsSeqno(c)
    <2> USE DEF WalletInv
    <2>1. PICK seqno \in {chainSeqno, 0} : startSeqno' = [startSeqno EXCEPT ![c] = seqno]
      BY <1>4 DEF ReadsSeqno
    <2>2. pc[c] = "seqno" /\ pc' = [pc EXCEPT ![c] = "funds"] /\ UNCHANGED chainVars
      BY <1>4 DEF ReadsSeqno
    <2>3. WalletTypes'
      BY <2>1, <2>2 DEF WalletTypes, chainVars
    <2>4. \A d \in Calls : /\ pc'[d] = IF d = c THEN "funds" ELSE pc[d]
                           /\ startSeqno'[d] = IF d = c THEN seqno ELSE startSeqno[d]
      BY <2>1, <2>2 DEF WalletTypes
    <2>5. \A m \in sent \cup landed : m.call \in Calls /\ m.call # c
      BY <2>2, MessageType DEF WalletTypes, Stamped
    <2>6. Stamped'
      BY <2>1, <2>2, <2>4, <2>5 DEF Stamped, Early, chainVars, WalletTypes
    <2>7. FundsCover'
      BY <2>2, <2>4 DEF FundsCover, chainVars
    <2>8. QED
      BY <2>3, <2>6, <2>7
  <1>5. CASE FundsSuffice(c)
    BY <1>5, QuietStep DEF FundsSuffice
  <1>6. CASE FundsMissing(c)
    BY <1>6, QuietStep DEF FundsMissing
  <1>7. CASE FindsPool(c)
    BY <1>7, QuietStep DEF FindsPool
  <1>8. CASE FindsNoPool(c)
    BY <1>8, QuietStep DEF FindsNoPool
  <1>9. CASE Sends(c)
    BY <1>9, SendStep DEF Sends
  <1>10. CASE SendFails(c)
    <2>1. PICK phase \in {"sending", "returned"} : pc' = [pc EXCEPT ![c] = phase]
      BY <1>10 DEF SendFails, WalletInv, WalletTypes
    <2>2. pc[c] = "sending" /\ UNCHANGED <<startSeqno, chainSeqno, balance, landed>>
      BY <1>10 DEF SendFails
    <2>3. CASE sent' = sent \cup {SwapMessage(c)}
      BY <2>1, <2>2, <2>3, SendStep
    <2>4. CASE UNCHANGED sent
      BY <2>1, <2>2, <2>4, QuietStep DEF chainVars
    <2>5. QED
      BY <1>10, <2>3, <2>4 DEF SendFails
  <1>11. CASE PollSees(c)
    BY <1>11, QuietStep DEF PollSees
  <1>12. CASE PollTimesOut(c)
    BY <1>12, QuietStep DEF PollTimesOut
  <1>13. CASE Preflight(c)
    <2>1. PICK phase \in {"dryrun", "idle", "returned"} : pc' = [pc EXCEPT ![c] = phase]
      BY <1>13 DEF Preflight
    <2>2. pc[c] = "asked" /\ UNCHANGED <<startSeqno, chainVars>>
      BY <1>13 DEF Preflight
    <2>3. QED
      BY <2>1, <2>2, QuietStep
  <1>14. CASE DryRun(c)
    <2>1. PICK phase \in {"idle", "returned"} : pc' = [pc EXCEPT ![c] = phase]
      BY <1>14 DEF DryRun
    <2>2. pc[c] = "dryrun" /\ UNCHANGED <<startSeqno, chainVars>>
      BY <1>14 DEF DryRun
    <2>3. QED
      BY <2>1, <2>2, QuietStep
  <1>15. QED
    BY <1>1, <1>2, <1>3, <1>4, <1>5, <1>6, <1>7, <1>8, <1>9, <1>10, <1>11, <1>12,
       <1>13, <1>14 DEF Steps

LEMMA NextWalletInv == WalletInv /\ [Next]_vars => WalletInv'
PROOF
  <1> SUFFICES ASSUME WalletInv, [Next]_vars
               PROVE  WalletInv'
    OBVIOUS
  <1> USE DEF WalletInv
  <1>1. ASSUME NEW c \in Calls, Preflight(c) \/ DryRun(c) \/ Refuses(c) \/ Acquires(c) \/ Steps(c)
        PROVE  WalletInv'
    BY <1>1, CallPreserves
  <1>2. ASSUME NEW m \in sent, Lands(m)
        PROVE  WalletInv'
    <2>1. m.call \in Calls
      BY MessageType DEF WalletTypes
    <2>2. balance' \in Nat
      BY <1>2, <2>1, NeedType DEF Lands, WalletTypes
    <2>3. QED
      BY <1>2, <2>2, SeqnoStep DEF Lands, callVars
  <1>3. ASSUME NEW m \in sent, Expires(m)
        PROVE  WalletInv'
    BY <1>3 DEF Expires, callVars, WalletTypes, Stamped, FundsCover
  <1>4. CASE Receives
    <2>1. balance' \in Nat /\ balance' >= balance
      BY <1>4, WalletAssumption DEF Receives, WalletTypes
    <2>2. UNCHANGED <<pc, startSeqno, chainSeqno, sent, landed>>
      BY <1>4 DEF Receives, callVars
    <2>3. \A m \in sent : m.call \in Calls
      BY MessageType DEF WalletTypes
    <2>4. FundsCover'
      BY <2>1, <2>2, <2>3, NeedType DEF FundsCover, WalletTypes
    <2>5. QED
      BY <2>1, <2>2, <2>4 DEF WalletTypes, Stamped
  <1>5. CASE OtherSpends
    <2>1. balance' \in Nat
      BY <1>5 DEF OtherSpends, WalletTypes
    <2>2. QED
      BY <1>5, <2>1, SeqnoStep DEF OtherSpends, callVars
  <1>6. CASE Restart
    <2>1. UNCHANGED <<startSeqno, chainVars>>
      BY <1>6 DEF Restart
    <2>2. \A c \in Calls : pc'[c] = IF pc[c] \in {Entry, "returned"} THEN pc[c] ELSE "dead"
      BY <1>6 DEF Restart
    <2>3. WalletTypes'
      BY <1>6, <2>1 DEF Restart, WalletTypes, Phases, chainVars
    <2>4. \A m \in sent \cup landed : m.call \in Calls
      BY MessageType DEF WalletTypes
    <2>5. Stamped'
      BY <2>1, <2>2, <2>4 DEF Stamped, Early, chainVars
    <2>6. FundsCover'
      BY <2>1, <2>2 DEF FundsCover, chainVars
    <2>7. QED
      BY <2>3, <2>5, <2>6
  <1>7. CASE UNCHANGED vars
    BY <1>7 DEF vars, callVars, chainVars, WalletTypes, Stamped, FundsCover
  <1>8. QED
    BY <1>1, <1>2, <1>3, <1>4, <1>5, <1>6, <1>7 DEF Next
-----------------------------------------------------------------------------
(* A call swaps at most once, however often its message is sent and however  *)
(* late it lands: all its messages carry one seqno.                          *)
THEOREM SwapsAtMostOnce == Spec => []SwapsOnce
PROOF
  <1>1. WalletInv => SwapsOnce
    BY DEF WalletInv, WalletTypes, Stamped, SwapsOnce, Message
  <1>2. QED
    BY <1>1, InitWalletInv, NextWalletInv, PTL DEF Spec

(* A buy that lands on STON.fi leaves RESERVE_SWAP_BACK_TON in the wallet,   *)
(* whatever happened between its balance check and its landing.              *)
THEOREM ReserveIsKept == Spec => ReserveKept
PROOF
  <1> DEFINE Kept == \A m \in landed' \ landed : m.call \in Buys \ Dedust => balance' >= Reserve
  <1>1. WalletInv /\ Next => Kept
    <2> SUFFICES ASSUME WalletInv, Next, NEW m \in landed' \ landed, m.call \in Buys \ Dedust
                 PROVE  balance' >= Reserve
      OBVIOUS
    <2>1. PICK n \in sent : Lands(n)
      BY DEF Next, Preflight, DryRun, Refuses, Acquires, Steps, Enters, ReadsSeqno, FundsSuffice, FundsMissing,
             FindsPool, FindsNoPool, Sends, SendFails, PollSees, PollTimesOut, Expires,
             Receives, OtherSpends, Restart, chainVars
    <2>2. n = m /\ m.seqno = chainSeqno /\ balance' = balance - Value(m.call)
      BY <2>1 DEF Lands
    <2>3. balance >= Need(m.call)
      BY <2>1, <2>2 DEF WalletInv, FundsCover
    <2>4. /\ Need(m.call) = Amount[m.call] + BuyGas + Reserve
          /\ Value(m.call) = Amount[m.call] + BuyGas
      BY DEF Need, Value, ValueOfStonfi
    <2>5. Amount[m.call] \in Nat /\ BuyGas \in Nat /\ Reserve \in Nat /\ balance \in Nat
      BY WalletAssumption DEF BuyGas, WalletInv, WalletTypes
    <2>6. QED
      BY <2>2, <2>3, <2>4, <2>5
  <1>2. WalletInv /\ [Next]_vars => [Kept]_vars
    BY <1>1
  <1>3. QED
    BY <1>2, InitWalletInv, NextWalletInv, PTL DEF Spec, ReserveKept
-----------------------------------------------------------------------------
(* WalletMutex: the calls that asked for the lock and have not given it back *)
(* are a queue, linked by the promises they wait for.                        *)
Queued == Holding \cup {"locking"}

LockOrder(q) ==
  /\ \A i \in 1..Len(q) : pc[q[i]] \in Queued /\ (i > 1 => pc[q[i]] = "locking")
  /\ \A i, j \in 1..Len(q) : q[i] = q[j] => i = j
  /\ \A c \in Calls : pc[c] \in Queued => \E i \in 1..Len(q) : q[i] = c
  /\ \A i \in 1..Len(q) : IF i = 1 THEN prev[q[i]] \in released \cup {NoCall}
                                    ELSE prev[q[i]] = q[i - 1]
  /\ IF Len(q) = 0 THEN tail \in released \cup {NoCall} ELSE tail = q[Len(q)]

LockInv == /\ \A c \in released : pc[c] = "returned"
           /\ \E q \in Seq(Calls) : LockOrder(q)

(* Attempts are counted up to the limit, where the call returns; and only a  *)
(* call that has returned has a reply.                                       *)
AttemptsLeft ==
  \A c \in Calls : pc[c] \notin {"returned", "dead"} => attempt[c] < MaxAttempts

Unanswered == \A c \in Calls : pc[c] # "returned" => reply[c] = "none"

TypesInv == TypeOK /\ AttemptsLeft /\ Unanswered

LEMMA InitTypes == Init => TypesInv /\ LockInv
PROOF
  <1> SUFFICES ASSUME Init PROVE TypesInv /\ LockInv
    OBVIOUS
  <1>1. TypesInv
    <2>1. 0 \in 0..MaxAttempts /\ 0 < MaxAttempts /\ InitialBalance \in Nat
      BY WalletAssumption
    <2>2. QED
      BY <2>1 DEF Init, TypesInv, TypeOK, AttemptsLeft, Unanswered, Phases, Replies, Entry
  <1>2. \A c \in Calls : pc[c] \notin Queued
    BY DEF Init, Entry, Queued, Holding
  <1>3. LockOrder(<<>>)
    BY <1>2 DEF LockOrder, Init
  <1>4. <<>> \in Seq(Calls) /\ released = {}
    BY DEF Init
  <1>5. QED
    BY <1>1, <1>3, <1>4 DEF LockInv

LEMMA NextTypes == TypesInv /\ [Next]_vars => TypesInv'
PROOF
  <1> SUFFICES ASSUME TypesInv, [Next]_vars PROVE TypesInv'
    OBVIOUS
  <1> USE DEF TypesInv, TypeOK, AttemptsLeft, Unanswered, lockVars, callVars, chainVars, boundVars
  <1>1. MaxAttempts \in Nat \ {0} /\ Deposit \in Nat /\ "returned" \in Phases
    BY WalletAssumption DEF Phases
  <1>2. ASSUME NEW c \in Calls, Preflight(c) \/ DryRun(c) \/ Refuses(c)
        PROVE  TypesInv'
    BY <1>2 DEF Preflight, DryRun, Refuses, Bounced, SimulationFails, Goto, Phases, Replies
  <1>3. ASSUME NEW c \in Calls, Acquires(c) \/ Enters(c) \/ FundsSuffice(c) \/ FindsPool(c)
        PROVE  TypesInv'
    BY <1>3 DEF Acquires, Enters, FundsSuffice, FindsPool, Goto, Phases
  <1>4. ASSUME NEW c \in Calls, ReadsSeqno(c)
        PROVE  TypesInv'
    BY <1>4 DEF ReadsSeqno, Goto, Phases
  <1>5. ASSUME NEW c \in Calls,
               FundsMissing(c) \/ FindsNoPool(c) \/ PollSees(c) \/ PollTimesOut(c)
        PROVE  TypesInv'
    <2>1. PICK r \in Replies : Returns(c, r)
      BY <1>5 DEF FundsMissing, FindsNoPool, PollSees, PollTimesOut, Replies
    <2>2. /\ pc' = [pc EXCEPT ![c] = "returned"] /\ reply' = [reply EXCEPT ![c] = r]
          /\ released' = released \cup {c}
      BY <2>1 DEF Returns, Goto
    <2>3. UNCHANGED <<tail, prev, startSeqno, attempt, chainVars, boundVars>> /\ doubt' \in BOOLEAN
      BY <1>5 DEF FundsMissing, FindsNoPool, PollSees, PollTimesOut
    <2>4. QED
      BY <1>1, <2>2, <2>3 DEF Returns, Goto
  <1>6. ASSUME NEW c \in Calls PROVE SwapMessage(c) \in Message
    BY DEF SwapMessage, Message
  <1>7. ASSUME NEW c \in Calls, Sends(c)
        PROVE  TypesInv'
    BY <1>6, <1>7 DEF Sends, Goto, Phases
  <1>8. ASSUME NEW c \in Calls, SendFails(c)
        PROVE  TypesInv'
    <2>1. attempt[c] < MaxAttempts /\ attempt[c] \in 0..MaxAttempts
      BY <1>8 DEF SendFails
    <2>2. attempt[c] + 1 \in 0..MaxAttempts
      BY <1>1, <2>1
    <2>3. attempt' \in [Calls -> 0..MaxAttempts] /\ sent' \subseteq Message /\ doubt' \in BOOLEAN
      BY <1>6, <1>8, <2>2 DEF SendFails
    <2>4. CASE attempt[c] + 1 < MaxAttempts
      BY <1>8, <2>3, <2>4 DEF SendFails
    <2>5. CASE ~(attempt[c] + 1 < MaxAttempts)
      BY <1>8, <2>3, <2>5 DEF SendFails, Returns, Goto, Phases, Replies
    <2>6. QED
      BY <2>4, <2>5
  <1>9. ASSUME NEW m \in sent, Lands(m) \/ Expires(m)
        PROVE  TypesInv'
    <2>1. m.call \in Calls /\ Value(m.call) \in Nat
      BY MessageType, NeedType
    <2>2. CASE Lands(m)
      <3>1. balance' \in Nat /\ landed' \subseteq Message /\ chainSeqno' \in Nat
        BY <2>1, <2>2 DEF Lands
      <3>2. QED
        BY <2>2, <3>1 DEF Lands
    <2>3. CASE Expires(m)
      BY <2>3 DEF Expires
    <2>4. QED
      BY <1>9, <2>2, <2>3
  <1>10. CASE Receives \/ OtherSpends
    <2>1. CASE Receives
      BY <1>1, <2>1 DEF Receives
    <2>2. CASE OtherSpends
      BY <2>2 DEF OtherSpends
    <2>3. QED
      BY <1>10, <2>1, <2>2
  <1>11. CASE Restart
    BY <1>11 DEF Restart, Phases
  <1>12. CASE UNCHANGED vars
    BY <1>12 DEF vars
  <1>13. QED
    BY <1>2, <1>3, <1>4, <1>5, <1>7, <1>8, <1>9, <1>10, <1>11, <1>12 DEF Next, Steps

(* The steps of one call, told for the lock. *)
LEMMA LockKept ==
  ASSUME TypesInv, LockInv, NEW c \in Calls, NEW phase \in Phases,
         pc' = [pc EXCEPT ![c] = phase], UNCHANGED lockVars, pc[c] # "returned",
         \/ pc[c] \notin Queued /\ phase \notin Queued
         \/ pc[c] \in Holding /\ phase \in Holding
  PROVE  LockInv'
PROOF
  <1>1. \A d \in Calls : pc'[d] = IF d = c THEN phase ELSE pc[d]
    BY DEF TypesInv, TypeOK
  <1>2. PICK q \in Seq(Calls) : LockOrder(q)
    BY DEF LockInv
  <1>3. \A i \in 1..Len(q) : q[i] \in Calls
    OBVIOUS
  <1>4. LockOrder(q)'
    BY <1>1, <1>2, <1>3 DEF LockOrder, lockVars, Queued, Holding
  <1>5. QED
    BY <1>1, <1>4 DEF LockInv, lockVars, TypesInv, TypeOK

LEMMA LockEntered ==
  ASSUME TypesInv, LockInv, NEW c \in Calls, Enters(c)
  PROVE  LockInv'
PROOF
  <1>1. /\ pc[c] = "locking" /\ prev[c] \in released \cup {NoCall}
        /\ pc' = [pc EXCEPT ![c] = "seqno"] /\ UNCHANGED lockVars
    BY DEF Enters, Goto
  <1>2. \A d \in Calls : pc'[d] = IF d = c THEN "seqno" ELSE pc[d]
    BY <1>1 DEF TypesInv, TypeOK
  <1>3. PICK q \in Seq(Calls) : LockOrder(q)
    BY DEF LockInv
  <1>4. \A i \in 1..Len(q) : q[i] \in Calls /\ q[i] \notin released /\ q[i] # NoCall
    <2> SUFFICES ASSUME NEW i \in 1..Len(q)
                 PROVE  q[i] \in Calls /\ q[i] \notin released /\ q[i] # NoCall
      OBVIOUS
    <2>1. q[i] \in Calls /\ q[i] # NoCall
      BY WalletAssumption
    <2>2. pc[q[i]] # "returned"
      BY <1>3 DEF LockOrder, Queued, Holding
    <2>3. QED
      BY <2>1, <2>2 DEF LockInv
  <1>5. \A i \in 1..Len(q) : i > 1 => q[i] # c
    <2> SUFFICES ASSUME NEW i \in 1..Len(q), i > 1, q[i] = c PROVE FALSE
      OBVIOUS
    <2>1. i - 1 \in 1..Len(q) /\ prev[c] = q[i - 1]
      BY <1>3 DEF LockOrder
    <2>2. QED
      BY <1>1, <1>4, <2>1
  <1>6. LockOrder(q)'
    BY <1>1, <1>2, <1>3, <1>4, <1>5 DEF LockOrder, lockVars, Queued, Holding
  <1>7. QED
    BY <1>1, <1>2, <1>6 DEF LockInv, lockVars, TypesInv, TypeOK

LEMMA LockAsked ==
  ASSUME TypesInv, LockInv, NEW c \in Calls, Acquires(c)
  PROVE  LockInv'
PROOF
  <1>1. /\ pc[c] = "idle" /\ pc' = [pc EXCEPT ![c] = "locking"]
        /\ prev' = [prev EXCEPT ![c] = tail] /\ tail' = c /\ released' = released
    BY DEF Acquires, Goto
  <1>2. \A d \in Calls : /\ pc'[d] = IF d = c THEN "locking" ELSE pc[d]
                         /\ prev'[d] = IF d = c THEN tail ELSE prev[d]
    BY <1>1 DEF TypesInv, TypeOK
  <1>3. PICK q \in Seq(Calls) : LockOrder(q)
    BY DEF LockInv
  <1> DEFINE r == Append(q, c)
  <1>4. /\ r \in Seq(Calls) /\ Len(r) = Len(q) + 1 /\ Len(q) \in Nat /\ r[Len(q) + 1] = c
        /\ \A i \in 1..Len(q) : r[i] = q[i] /\ q[i] \in Calls
    OBVIOUS
  <1>5. \A i \in 1..Len(q) : q[i] # c
    BY <1>1, <1>3 DEF LockOrder, Queued, Holding
  <1> HIDE DEF r
  <1>6. \A i \in 1..Len(r) : i \in 1..Len(q) \/ i = Len(q) + 1
    BY <1>4
  <1>7. LockOrder(r)'
    <2>1. \A i \in 1..Len(r) : pc'[r[i]] \in Queued /\ (i > 1 => pc'[r[i]] = "locking")
      BY <1>2, <1>3, <1>4, <1>5, <1>6 DEF LockOrder, Queued
    <2>2. \A i, j \in 1..Len(r) : r[i] = r[j] => i = j
      BY <1>3, <1>4, <1>5, <1>6 DEF LockOrder
    <2>3. \A d \in Calls : pc'[d] \in Queued => \E i \in 1..Len(r) : r[i] = d
      <3> SUFFICES ASSUME NEW d \in Calls, pc'[d] \in Queued, d # c
                   PROVE  \E i \in 1..Len(r) : r[i] = d
        BY <1>4
      <3>1. PICK i \in 1..Len(q) : q[i] = d
        BY <1>2, <1>3 DEF LockOrder
      <3>2. QED
        BY <1>4, <3>1
    <2>4. \A i \in 1..Len(r) : IF i = 1 THEN prev'[r[i]] \in released \cup {NoCall}
                                        ELSE prev'[r[i]] = r[i - 1]
      <3> SUFFICES ASSUME NEW i \in 1..Len(r)
                   PROVE  IF i = 1 THEN prev'[r[i]] \in released \cup {NoCall}
                                   ELSE prev'[r[i]] = r[i - 1]
        OBVIOUS
      <3>1. CASE i \in 1..Len(q)
        <4>1. r[i] = q[i] /\ prev'[r[i]] = prev[q[i]]
          BY <1>2, <1>4, <1>5, <3>1
        <4>2. i > 1 => r[i - 1] = q[i - 1]
          BY <1>4, <3>1
        <4>3. QED
          BY <1>3, <3>1, <4>1, <4>2 DEF LockOrder
      <3>2. CASE i = Len(q) + 1
        <4>1. prev'[r[i]] = tail
          BY <1>2, <1>4, <3>2
        <4>2. i # 1 => r[i - 1] = q[Len(q)] /\ Len(q) # 0
          BY <1>4, <3>2
        <4>3. QED
          BY <1>3, <1>4, <3>2, <4>1, <4>2 DEF LockOrder
      <3>3. QED
        BY <1>6, <3>1, <3>2
    <2>5. tail' = r[Len(r)] /\ Len(r) # 0
      BY <1>1, <1>4
    <2>6. QED
      BY <1>1, <2>1, <2>2, <2>3, <2>4, <2>5 DEF LockOrder
  <1>8. QED
    BY <1>1, <1>2, <1>4, <1>7 DEF LockInv, TypesInv, TypeOK

LEMMA LockReturned ==
  ASSUME TypesInv, LockInv, NEW c \in Calls, pc[c] \in Holding,
         pc' = [pc EXCEPT ![c] = "returned"], released' = released \cup {c},
         UNCHANGED <<tail, prev>>
  PROVE  LockInv'
PROOF
  <1>1. \A d \in Calls : pc'[d] = IF d = c THEN "returned" ELSE pc[d]
    BY DEF TypesInv, TypeOK
  <1>2. PICK q \in Seq(Calls) : LockOrder(q)
    BY DEF LockInv
  <1>3. Len(q) > 0 /\ q[1] = c
    BY <1>2 DEF LockOrder, Queued, Holding
  <1> DEFINE r == Tail(q)
  <1>4. /\ r \in Seq(Calls) /\ Len(r) = Len(q) - 1 /\ Len(q) \in Nat \ {0}
        /\ \A i \in 1..Len(r) : r[i] = q[i + 1] /\ i + 1 \in 1..Len(q) /\ r[i] \in Calls
    BY <1>3
  <1> HIDE DEF r
  <1>5. \A i \in 1..Len(r) : r[i] # c
    BY <1>2, <1>3, <1>4 DEF LockOrder
  <1>6. LockOrder(r)'
    <2>1. \A i \in 1..Len(r) : pc'[r[i]] = "locking"
      BY <1>1, <1>2, <1>4, <1>5 DEF LockOrder
    <2>2. \A i, j \in 1..Len(r) : r[i] = r[j] => i = j
      BY <1>2, <1>4 DEF LockOrder
    <2>3. \A d \in Calls : pc'[d] \in Queued => \E i \in 1..Len(r) : r[i] = d
      <3> SUFFICES ASSUME NEW d \in Calls, pc'[d] \in Queued
                   PROVE  \E i \in 1..Len(r) : r[i] = d
        OBVIOUS
      <3>1. d # c /\ pc[d] \in Queued
        BY <1>1 DEF Queued, Holding
      <3>2. PICK i \in 1..Len(q) : q[i] = d
        BY <1>2, <3>1 DEF LockOrder
      <3>3. i > 1 /\ i - 1 \in 1..Len(r) /\ r[i - 1] = q[(i - 1) + 1]
        BY <1>3, <1>4, <3>1, <3>2
      <3>4. QED
        BY <3>2, <3>3
    <2>4. \A i \in 1..Len(r) : IF i = 1 THEN prev[r[i]] \in released' \cup {NoCall}
                                        ELSE prev[r[i]] = r[i - 1]
      <3> SUFFICES ASSUME NEW i \in 1..Len(r)
                   PROVE  IF i = 1 THEN prev[r[i]] \in released' \cup {NoCall}
                                   ELSE prev[r[i]] = r[i - 1]
        OBVIOUS
      <3>1. prev[r[i]] = q[i]
        <4>1. i \in Nat \ {0} /\ i + 1 \in 1..Len(q) /\ i + 1 # 1 /\ (i + 1) - 1 = i
          BY <1>4
        <4>2. prev[q[i + 1]] = q[(i + 1) - 1]
          BY <1>2, <4>1 DEF LockOrder
        <4>3. QED
          BY <1>4, <4>1, <4>2
      <3>2. CASE i = 1
        BY <1>3, <3>1, <3>2
      <3>3. CASE i # 1
        <4>1. i - 1 \in 1..Len(r) /\ r[i - 1] = q[(i - 1) + 1]
          BY <1>4, <3>3
        <4>2. QED
          BY <3>1, <3>3, <4>1
      <3>4. QED
        BY <3>2, <3>3
    <2>5. IF Len(r) = 0 THEN tail \in released' \cup {NoCall} ELSE tail = r[Len(r)]
      <3>1. tail = q[Len(q)]
        BY <1>2, <1>3 DEF LockOrder
      <3>2. QED
        BY <1>3, <1>4, <3>1
    <2>6. QED
      BY <2>1, <2>2, <2>3, <2>4, <2>5 DEF LockOrder, Queued
  <1>7. QED
    BY <1>1, <1>4, <1>6 DEF LockInv, TypesInv, TypeOK

LEMMA LockStep ==
  ASSUME TypesInv, LockInv, NEW c \in Calls,
         Preflight(c) \/ DryRun(c) \/ Refuses(c) \/ Acquires(c) \/ Steps(c)
  PROVE  LockInv'
PROOF
  <1> USE DEF Goto, Phases, Queued, Holding
  <1>1. CASE Preflight(c) \/ DryRun(c) \/ Refuses(c)
    <2>1. PICK phase \in {"dryrun", "idle", "returned"} : pc' = [pc EXCEPT ![c] = phase]
      BY <1>1 DEF Preflight, DryRun, Refuses, Bounced, SimulationFails
    <2>2. pc[c] \in {"asked", "dryrun", "idle"} /\ UNCHANGED lockVars
      BY <1>1 DEF Preflight, DryRun, Refuses
    <2>3. QED
      BY <2>1, <2>2, LockKept
  <1>2. CASE Acquires(c)
    BY <1>2, LockAsked
  <1>3. CASE Enters(c)
    BY <1>3, LockEntered
  <1>4. CASE ReadsSeqno(c)
    BY <1>4, LockKept DEF ReadsSeqno
  <1>5. CASE FundsSuffice(c)
    BY <1>5, LockKept DEF FundsSuffice
  <1>6. CASE FindsPool(c)
    BY <1>6, LockKept DEF FindsPool
  <1>7. CASE Sends(c)
    BY <1>7, LockKept DEF Sends
  <1>8. CASE FundsMissing(c)
    BY <1>8, LockReturned DEF FundsMissing, Returns
  <1>9. CASE FindsNoPool(c)
    BY <1>9, LockReturned DEF FindsNoPool, Returns
  <1>10. CASE PollSees(c)
    BY <1>10, LockReturned DEF PollSees, Returns
  <1>11. CASE PollTimesOut(c)
    BY <1>11, LockReturned DEF PollTimesOut, Returns
  <1>12. CASE SendFails(c)
    <2>1. CASE attempt[c] + 1 < MaxAttempts
      <3>1. pc' = [pc EXCEPT ![c] = "sending"] /\ UNCHANGED lockVars /\ pc[c] = "sending"
        BY <1>12, <2>1 DEF SendFails, TypesInv, TypeOK, lockVars
      <3>2. QED
        BY <3>1, LockKept
    <2>2. CASE ~(attempt[c] + 1 < MaxAttempts)
      BY <1>12, <2>2, LockReturned DEF SendFails, Returns
    <2>3. QED
      BY <2>1, <2>2
  <1>13. QED
    BY <1>1, <1>2, <1>3, <1>4, <1>5, <1>6, <1>7, <1>8, <1>9, <1>10, <1>11, <1>12 DEF Steps

LEMMA NextLockInv == TypesInv /\ LockInv /\ [Next]_vars => LockInv'
PROOF
  <1> SUFFICES ASSUME TypesInv, LockInv, [Next]_vars PROVE LockInv'
    OBVIOUS
  <1>1. ASSUME UNCHANGED <<pc, lockVars>> PROVE LockInv'
    BY <1>1 DEF LockInv, LockOrder, lockVars
  <1>2. ASSUME NEW m \in sent, Lands(m) \/ Expires(m) PROVE LockInv'
    BY <1>1, <1>2 DEF Lands, Expires, callVars
  <1>3. CASE Receives \/ OtherSpends \/ UNCHANGED vars
    BY <1>1, <1>3 DEF Receives, OtherSpends, vars, callVars
  <1>4. CASE Restart
    <2>1. /\ \A c \in Calls : pc'[c] = IF pc[c] \in {Entry, "returned"} THEN pc[c] ELSE "dead"
          /\ tail' = NoCall /\ released' = released
      BY <1>4 DEF Restart
    <2>2. \A c \in Calls : pc'[c] \notin Queued
      BY <2>1 DEF Queued, Holding, Entry
    <2>3. LockOrder(<<>>)'
      BY <2>1, <2>2 DEF LockOrder
    <2>4. \A c \in released' : pc'[c] = "returned"
      BY <2>1 DEF LockInv, TypesInv, TypeOK
    <2>5. <<>> \in Seq(Calls)
      OBVIOUS
    <2>6. QED
      BY <2>3, <2>4, <2>5 DEF LockInv
  <1>5. QED
    BY <1>2, <1>3, <1>4, LockStep DEF Next

(* The inductive invariant of WalletMutex (acton-wallet.ts): the calls of    *)
(* this process that have not released the lock are a chain of promises, and *)
(* only its first can be past the lock.                                      *)
THEOREM WalletLock == Spec => [](TypesInv /\ LockInv)
BY InitTypes, NextTypes, NextLockInv, PTL DEF Spec

(* The wallet's calls, lock and messages keep their types: no call sends     *)
(* more often than its attempts allow (sendTransfer, acton-wallet.ts).       *)
THEOREM SendTypes == Spec => []TypeOK
PROOF
  <1>1. TypesInv => TypeOK
    BY DEF TypesInv
  <1>2. QED
    BY <1>1, WalletLock, PTL

LEMMA LockMeans == LockInv => OneSender /\ LockPassedOn
PROOF
  <1> SUFFICES ASSUME LockInv PROVE OneSender /\ LockPassedOn
    OBVIOUS
  <1>1. PICK q \in Seq(Calls) : LockOrder(q)
    BY DEF LockInv
  <1>2. OneSender
    <2>1. \A c \in Calls : pc[c] \in Holding => Len(q) > 0 /\ q[1] = c
      BY <1>1 DEF LockOrder, Queued, Holding
    <2>2. QED
      BY <2>1 DEF OneSender
  <1>3. LockPassedOn
    <2> SUFFICES ASSUME NEW c \in Calls, pc[c] = "locking"
                 PROVE  \/ prev[c] \in released \cup {NoCall}
                        \/ pc[prev[c]] \in Holding \cup {"locking"}
      BY DEF LockPassedOn
    <2>1. PICK i \in 1..Len(q) : q[i] = c
      BY <1>1 DEF LockOrder, Queued
    <2>2. CASE i = 1
      BY <1>1, <2>1, <2>2 DEF LockOrder
    <2>3. CASE i # 1
      <3>1. i - 1 \in 1..Len(q) /\ prev[c] = q[i - 1]
        BY <1>1, <2>1, <2>3 DEF LockOrder
      <3>2. QED
        BY <1>1, <3>1 DEF LockOrder, Queued
    <2>4. QED
      BY <2>2, <2>3
  <1>4. QED
    BY <1>2, <1>3

(* WalletMutex (acton-wallet.ts): between getSeqno and its return one call   *)
(* at a time uses the wallet, on every path, and across restarts.            *)
THEOREM OneSenderAtATime == Spec => []OneSender
BY WalletLock, LockMeans, PTL

(* Nobody waits for a promise that nobody will resolve: each waiting call's  *)
(* predecessor has released the lock, or holds it or waits itself.           *)
THEOREM LockIsPassedOn == Spec => []LockPassedOn
BY WalletLock, LockMeans, PTL
-----------------------------------------------------------------------------
(* While nothing has gone wrong: only the holder's message can still be      *)
(* carried out, a call that failed has sent none, and the seqno moves past   *)
(* that of a poll only with the call's own message.                          *)
Payable(c) == Value(c) <= Need(c)
Swapped(c) == \E m \in landed : m.call = c

OnlyHolderSends ==
  \A m \in sent \cup landed :
    /\ pc[m.call] \in {"polling", "returned"} /\ reply[m.call] # "failed"
    /\ m \in sent /\ m.seqno = chainSeqno => pc[m.call] = "polling"

SeqnoTold ==
  \A c \in Calls :
    /\ pc[c] \in {"funds", "routing", "sending"} => startSeqno[c] = chainSeqno
    /\ pc[c] = "polling" => startSeqno[c] = chainSeqno \/ (Payable(c) => Swapped(c))
    /\ reply[c] = "seen" => (Payable(c) => Swapped(c))

Undoubted == ~doubt => OnlyHolderSends /\ SeqnoTold

LEMMA InitUndoubted == Init => Undoubted
BY DEF Init, Entry, Undoubted, OnlyHolderSends, SeqnoTold

(* Steps that leave the chain alone: what a call that sent nothing does, and *)
(* that a poll has seen the seqno move.                                      *)
LEMMA QuietUndoubted ==
  ASSUME WalletInv, OnlyHolderSends, SeqnoTold, NEW c \in Calls,
         \A d \in Calls \ {c} : pc'[d] = pc[d] /\ reply'[d] = reply[d],
         UNCHANGED <<startSeqno, chainVars>>,
         \/ /\ pc[c] \notin {"polling", "returned"} /\ pc'[c] # "polling"
            /\ reply'[c] = "seen" => reply[c] = "seen"
            /\ pc'[c] \in {"funds", "routing", "sending"}
                 => pc[c] \in {"funds", "routing", "sending"}
         \/ /\ pc[c] = "polling" /\ pc'[c] = "returned" /\ reply'[c] = "seen"
            /\ startSeqno[c] # chainSeqno
  PROVE  OnlyHolderSends' /\ SeqnoTold'
PROOF
  <1>1. UNCHANGED <<startSeqno, chainSeqno, sent, landed>>
    BY DEF chainVars
  <1>2. \A m \in sent \cup landed : m.call \in Calls /\ m.seqno = startSeqno[m.call]
    BY MessageType DEF WalletInv, WalletTypes, Stamped
  <1>3. OnlyHolderSends'
    <2> SUFFICES ASSUME NEW m \in sent \cup landed
                 PROVE  /\ pc'[m.call] \in {"polling", "returned"}
                        /\ reply'[m.call] # "failed"
                        /\ m \in sent /\ m.seqno = chainSeqno => pc'[m.call] = "polling"
      BY <1>1 DEF OnlyHolderSends
    <2>1. CASE m.call = c
      BY <1>2, <2>1 DEF OnlyHolderSends
    <2>2. CASE m.call # c
      BY <1>2, <2>2 DEF OnlyHolderSends
    <2>3. QED
      BY <2>1, <2>2
  <1>4. SeqnoTold'
    <2>1. \A d \in Calls : (Payable(d) => Swapped(d))' <=> (Payable(d) => Swapped(d))
      BY <1>1 DEF Payable, Swapped, Value, ValueOfDedust, ValueOfStonfi, Need, BuyGas
    <2>2. QED
      BY <1>1, <2>1 DEF SeqnoTold
  <1>5. QED
    BY <1>3, <1>4

LEMMA CallUndoubted ==
  ASSUME TypesInv, WalletInv, OnlyHolderSends, SeqnoTold, ~doubt, ~doubt', NEW c \in Calls,
         Preflight(c) \/ DryRun(c) \/ Refuses(c) \/ Acquires(c) \/ Steps(c)
  PROVE  OnlyHolderSends' /\ SeqnoTold'
PROOF
  <1> USE DEF Goto, TypesInv, TypeOK, Unanswered
  <1>1. CASE Preflight(c) \/ DryRun(c) \/ Refuses(c)
    BY <1>1, QuietUndoubted DEF Preflight, DryRun, Refuses, Bounced, SimulationFails
  <1>2. CASE Acquires(c)
    BY <1>2, QuietUndoubted DEF Acquires
  <1>3. CASE Enters(c)
    BY <1>3, QuietUndoubted DEF Enters
  <1>4. CASE ReadsSeqno(c)
    <2>1. /\ startSeqno' = [startSeqno EXCEPT ![c] = chainSeqno]
          /\ pc[c] = "seqno" /\ pc' = [pc EXCEPT ![c] = "funds"]
          /\ UNCHANGED <<reply, chainSeqno, sent, landed>>
      BY <1>4 DEF ReadsSeqno, chainVars
    <2>2. \A m \in sent \cup landed : m.call \in Calls /\ m.call # c
      BY <2>1, MessageType DEF OnlyHolderSends, WalletInv, WalletTypes
    <2>3. OnlyHolderSends'
      BY <2>1, <2>2 DEF OnlyHolderSends
    <2>4. \A d \in Calls : (Payable(d) => Swapped(d))' <=> (Payable(d) => Swapped(d))
      BY <2>1 DEF Payable, Swapped, Value, ValueOfDedust, ValueOfStonfi, Need, BuyGas
    <2>5. SeqnoTold'
      BY <2>1, <2>4 DEF SeqnoTold
    <2>6. QED
      BY <2>3, <2>5
  <1>5. CASE FundsSuffice(c) \/ FindsPool(c)
    BY <1>5, QuietUndoubted DEF FundsSuffice, FindsPool
  <1>6. CASE FundsMissing(c) \/ FindsNoPool(c)
    BY <1>6, QuietUndoubted DEF FundsMissing, FindsNoPool, Returns
  <1>7. CASE Sends(c)
    <2>1. /\ pc[c] = "sending" /\ pc' = [pc EXCEPT ![c] = "polling"]
          /\ sent' = sent \cup {SwapMessage(c)}
          /\ UNCHANGED <<reply, startSeqno, chainSeqno, landed>>
      BY <1>7 DEF Sends
    <2>2. SwapMessage(c).call = c
      BY DEF SwapMessage
    <2>3. \A m \in sent \cup landed : m.call \in Calls /\ m.call # c
      BY <2>1, MessageType DEF OnlyHolderSends, WalletInv, WalletTypes
    <2>4. reply[c] # "failed" /\ startSeqno[c] = chainSeqno
      BY <2>1 DEF SeqnoTold, Unanswered
    <2>5. OnlyHolderSends'
      BY <2>1, <2>2, <2>3, <2>4 DEF OnlyHolderSends
    <2>6. \A d \in Calls : (Payable(d) => Swapped(d))' <=> (Payable(d) => Swapped(d))
      BY <2>1 DEF Payable, Swapped, Value, ValueOfDedust, ValueOfStonfi, Need, BuyGas
    <2>7. SeqnoTold'
      BY <2>1, <2>4, <2>6 DEF SeqnoTold
    <2>8. QED
      BY <2>5, <2>7
  <1>8. CASE SendFails(c)
    <2>1. UNCHANGED chainVars /\ pc[c] = "sending" /\ UNCHANGED startSeqno
      BY <1>8 DEF SendFails, chainVars
    <2>2. CASE attempt[c] + 1 < MaxAttempts
      BY <1>8, <2>1, <2>2, QuietUndoubted DEF SendFails
    <2>3. CASE ~(attempt[c] + 1 < MaxAttempts)
      BY <1>8, <2>1, <2>3, QuietUndoubted DEF SendFails, Returns
    <2>4. QED
      BY <2>2, <2>3
  <1>9. CASE PollSees(c)
    BY <1>9, QuietUndoubted DEF PollSees, Returns, SeqnoMoved
  <1>10. CASE PollTimesOut(c)
    BY <1>10 DEF PollTimesOut
  <1>11. QED
    BY <1>1, <1>2, <1>3, <1>4, <1>5, <1>6, <1>7, <1>8, <1>9, <1>10 DEF Steps

(* The chain carries out the holder's message: its balance check still       *)
(* holds, so that the swap of a call that asked no more than was checked is  *)
(* made.                                                                     *)
LEMMA LandsUndoubted ==
  ASSUME TypesInv, LockInv, WalletInv, OnlyHolderSends, SeqnoTold, NEW m \in sent, Lands(m)
  PROVE  OnlyHolderSends' /\ SeqnoTold'
PROOF
  <1> USE DEF TypesInv, TypeOK
  <1>1. /\ m.seqno = chainSeqno /\ chainSeqno' = chainSeqno + 1
        /\ landed' = IF balance >= Value(m.call) THEN landed \cup {m} ELSE landed
        /\ UNCHANGED <<pc, reply, startSeqno, sent>>
    BY DEF Lands, callVars
  <1>2. m.call \in Calls /\ pc[m.call] = "polling"
    BY <1>1, MessageType DEF OnlyHolderSends
  <1>3. \A n \in sent \cup landed : n.call \in Calls /\ n.seqno \in Nat /\ n.seqno <= chainSeqno
    BY MessageType DEF WalletInv, WalletTypes, Stamped
  <1>4. OnlyHolderSends'
    BY <1>1, <1>3 DEF OnlyHolderSends
  <1>5. Payable(m.call) => balance >= Value(m.call)
    <2>1. balance >= Need(m.call) /\ Need(m.call) \in Nat /\ Value(m.call) \in Nat
      BY <1>1, <1>2, NeedType DEF WalletInv, FundsCover
    <2>2. QED
      BY <2>1 DEF Payable
  <1>6. /\ \A d \in Calls : Payable(d)' <=> Payable(d)
        /\ \A d \in Calls : Swapped(d) => Swapped(d)'
        /\ Payable(m.call) => Swapped(m.call)'
    BY <1>1, <1>5 DEF Payable, Swapped, Value, ValueOfDedust, ValueOfStonfi, Need, BuyGas
  <1>7. \A d \in Calls : pc[d] \in Holding => d = m.call
    BY <1>2, LockMeans DEF OneSender, Holding
  <1>8. SeqnoTold'
    <2> SUFFICES ASSUME NEW d \in Calls
                 PROVE  /\ pc[d] \notin {"funds", "routing", "sending"}
                        /\ pc[d] = "polling" => (Payable(d) => Swapped(d))'
                        /\ reply[d] = "seen" => (Payable(d) => Swapped(d))'
      BY <1>1 DEF SeqnoTold
    <2>1. pc[d] \in Holding => d = m.call
      BY <1>7
    <2>2. QED
      BY <1>2, <1>6, <2>1 DEF SeqnoTold, Holding
  <1>9. QED
    BY <1>4, <1>8

LEMMA NextUndoubted ==
  TypesInv /\ LockInv /\ WalletInv /\ Undoubted /\ [Next]_vars => Undoubted'
PROOF
  <1> SUFFICES ASSUME TypesInv, LockInv, WalletInv, Undoubted, [Next]_vars, ~doubt'
               PROVE  OnlyHolderSends' /\ SeqnoTold'
    BY DEF Undoubted
  <1>1. ~doubt
    BY DEF Next, Preflight, DryRun, Refuses, Acquires, Steps, Enters, ReadsSeqno, FundsSuffice,
           FundsMissing, FindsPool, FindsNoPool, Sends, SendFails, PollSees, PollTimesOut, Lands,
           Expires, Receives, OtherSpends, Restart, vars
  <1>2. OnlyHolderSends /\ SeqnoTold
    BY <1>1 DEF Undoubted
  <1>3. ASSUME NEW c \in Calls, Preflight(c) \/ DryRun(c) \/ Refuses(c) \/ Acquires(c) \/ Steps(c)
        PROVE  OnlyHolderSends' /\ SeqnoTold'
    BY <1>1, <1>2, <1>3, CallUndoubted
  <1>4. ASSUME NEW m \in sent, Lands(m)
        PROVE  OnlyHolderSends' /\ SeqnoTold'
    BY <1>2, <1>4, LandsUndoubted
  <1>5. CASE /\ UNCHANGED <<pc, reply, startSeqno, chainSeqno, landed>>
             /\ sent' \subseteq sent
    <2>1. \A d \in Calls : (Payable(d) => Swapped(d))' <=> (Payable(d) => Swapped(d))
      BY <1>5 DEF Payable, Swapped, Value, ValueOfDedust, ValueOfStonfi, Need, BuyGas
    <2>2. QED
      BY <1>2, <1>5, <2>1 DEF OnlyHolderSends, SeqnoTold
  <1>6. CASE OtherSpends \/ Restart
    BY <1>6 DEF OtherSpends, Restart
  <1>7. QED
    BY <1>3, <1>4, <1>5, <1>6 DEF Next, Expires, Receives, vars, callVars, chainVars

(* When no read, answer or poll went wrong and nobody else spent, a call     *)
(* that saw the seqno move has swapped, and one that failed has left nothing *)
(* behind that could still be carried out (sendSwapDirect, acton-wallet.ts). *)
THEOREM RepliesAreTrue == Spec => []RepliesTrue
PROOF
  <1>1. WalletInv /\ Undoubted => RepliesTrue
    <2> SUFFICES ASSUME WalletInv, Undoubted, ~doubt, NEW c \in Calls
                 PROVE  /\ reply[c] = "seen" /\ Value(c) <= Need(c)
                              => \E m \in landed : m.call = c
                        /\ reply[c] = "failed" => \A m \in sent \cup landed : m.call # c
      BY DEF RepliesTrue
    <2>1. reply[c] = "seen" /\ Value(c) <= Need(c) => \E m \in landed : m.call = c
      BY DEF Undoubted, SeqnoTold, Payable, Swapped
    <2>2. reply[c] = "failed" => \A m \in sent \cup landed : m.call # c
      BY DEF Undoubted, OnlyHolderSends
    <2>3. QED
      BY <2>1, <2>2
  <1>2. QED
    BY <1>1, InitTypes, NextTypes, NextLockInv, InitWalletInv, NextWalletInv,
       InitUndoubted, NextUndoubted, PTL DEF Spec
=============================================================================
