----------------------------- MODULE WalletSend -----------------------------
(***************************************************************************)
(* The live wallet (packages/executor/src/acton/acton-wallet.ts): swap and *)
(* sendSwapDirect against a chain that executes one message per seqno.     *)
(*                                                                         *)
(* A call takes the process-wide lock, reads the wallet's seqno and then   *)
(* its balance, looks the pool up, sends one message (with retries) and    *)
(* polls until the seqno moves or 20 seconds have passed.  Every read may  *)
(* fail, and a failed read counts as zero; a send may fail although its    *)
(* message has left; a message may land long after its call returned, or   *)
(* never.  A crash frees the lock and leaves the messages on their way.    *)
(* A simulation (simulation-wallet.ts) may stand in front of it, which can *)
(* turn an order away.  Amounts are in hundredths of a TON.                *)
(***************************************************************************)
EXTENDS Naturals, FiniteSets

CONSTANTS Calls,         \* calls of ActonWallet.swap
          Buys,          \* those that buy; the others sell
          Dedust,        \* those routed to a DeDust pool; the others to STON.fi
          Amount,        \* amountTon of each call
          Reserve,       \* RESERVE_SWAP_BACK_TON
          Simulated, FailOpen, LogOnly,   \* SIMULATE_BEFORE_EXEC, ..._FAIL_OPEN, ..._LOG_ONLY
          MaxAttempts,   \* sends tried per call: 3
          InitialBalance, Deposit,   \* the wallet's TON, and what one deposit adds
          MaxDeposits,   \* bound: transfers into the wallet
          MaxOthers,     \* bound: transfers out of it by somebody else
          MaxCrashes     \* bound: restarts

NoCall == "none"   \* Promise.resolve()

ASSUME WalletAssumption ==
  /\ NoCall \notin Calls
  /\ Buys \subseteq Calls /\ Dedust \subseteq Calls
  /\ Amount \in [Calls -> Nat]
  /\ Simulated \in BOOLEAN /\ FailOpen \in BOOLEAN /\ LogOnly \in BOOLEAN
  /\ Reserve \in Nat /\ MaxAttempts \in Nat \ {0}
  /\ InitialBalance \in Nat /\ Deposit \in Nat
  /\ MaxDeposits \in Nat /\ MaxOthers \in Nat /\ MaxCrashes \in Nat

VARIABLES
  pc,                       \* where a call is
  reply,                    \* what it returned
  tail, prev, released,     \* WalletMutex: the promise chain
  startSeqno, attempt,      \* locals of sendSwapDirect
  chainSeqno, balance,      \* the wallet contract
  sent,                     \* messages that left: [call, seqno]
  landed,                   \* calls whose swap message was carried out
  doubt,                    \* history: some read, answer or poll went wrong
  deposits, others, crashes

lockVars  == <<tail, prev, released>>
callVars  == <<pc, reply, startSeqno, attempt>>
chainVars == <<chainSeqno, balance, sent, landed>>
boundVars == <<deposits, others, crashes>>
vars == <<lockVars, callVars, chainVars, doubt, boundVars>>
-----------------------------------------------------------------------------
Phases == {"asked", "dryrun", "idle", "locking", "seqno", "funds", "routing", "sending",
           "polling", "returned", "dead"}
Holding == {"seqno", "funds", "routing", "sending", "polling"}
Replies == {"none", "failed", "seen", "unseen"}   \* the last two are ok: true

BuyGas == 12
(* requiredNano, and the value of the swap message. *)
Need(c) == IF c \in Buys THEN Amount[c] + BuyGas + Reserve ELSE 15

ValueOfDedust(c) == IF c \in Buys THEN Amount[c] + 25 ELSE 35
ValueOfStonfi(c) == IF c \in Buys THEN Amount[c] + BuyGas ELSE 13
Value(c) == IF c \in Dedust THEN ValueOfDedust(c) ELSE ValueOfStonfi(c)

Message == [call : Calls, seqno : Nat]

(* Where a call begins: in the simulation, or in ActonWallet.swap. *)
Entry == IF Simulated THEN "asked" ELSE "idle"

Init == /\ pc = [c \in Calls |-> Entry] /\ reply = [c \in Calls |-> "none"]
        /\ tail = NoCall /\ prev = [c \in Calls |-> NoCall] /\ released = {}
        /\ startSeqno = [c \in Calls |-> 0] /\ attempt = [c \in Calls |-> 0]
        /\ chainSeqno = 0 /\ balance = InitialBalance
        /\ sent = {} /\ landed = {} /\ doubt = FALSE
        /\ deposits = 0 /\ others = 0 /\ crashes = 0
-----------------------------------------------------------------------------
Goto(c, phase) == pc' = [pc EXCEPT ![c] = phase]

ReturnsHoldingLock(c, r) ==   \* slip: the lock is not released on this path
  Goto(c, "returned") /\ reply' = [reply EXCEPT ![c] = r] /\ UNCHANGED released
Returns(c, r) ==              \* the finally block releases the lock
  Goto(c, "returned") /\ reply' = [reply EXCEPT ![c] = r] /\ released' = released \cup {c}

(* SimulationWallet.swap: a check that fails bounces the order, unless       *)
(* failures are only logged, or the RPC failed and that is tolerated.        *)
Tolerated(failure) == LogOnly \/ (FailOpen /\ failure = "rpc_error")

Bounced(c) == Goto(c, "returned") /\ reply' = [reply EXCEPT ![c] = "failed"]

SimulationFails(c, failure) ==
  IF Tolerated(failure) THEN Goto(c, "idle") /\ UNCHANGED reply ELSE Bounced(c)

(* The balance has to suffice, and for a sell a balance of jettons to be     *)
(* there and readable; any of it may also fail to be read.                   *)
Preflight(c) ==
  /\ pc[c] = "asked"
  /\ \/ balance >= Need(c) /\ Goto(c, "dryrun") /\ UNCHANGED reply
     \/ (balance < Need(c) \/ c \notin Buys) /\ SimulationFails(c, "preflight")
     \/ SimulationFails(c, "rpc_error")
  /\ UNCHANGED <<lockVars, startSeqno, attempt, chainVars, doubt, boundVars>>

(* The router is asked what it would pay. *)
DryRun(c) ==
  /\ pc[c] = "dryrun"
  /\ \/ Goto(c, "idle") /\ UNCHANGED reply
     \/ \E failure \in {"dryrun", "rpc_error"} : SimulationFails(c, failure)
  /\ UNCHANGED <<lockVars, startSeqno, attempt, chainVars, doubt, boundVars>>

(* swap: an order it refuses (mode, confirmation, size, quote), or a buy for *)
(* which the balance is too low or could not be read.                        *)
Refuses(c) == /\ pc[c] = "idle"
              /\ Bounced(c)
              /\ UNCHANGED <<lockVars, startSeqno, attempt, chainVars, doubt, boundVars>>

(* Otherwise sendSwapDirect asks for the lock: acquire puts this call's      *)
(* promise at the end of the chain and waits for the one before it.          *)
AcquiresUnchained(c) ==   \* slip: this.promise is not replaced
  /\ pc[c] = "idle" /\ (c \in Buys => balance >= Need(c))
  /\ Goto(c, "locking") /\ prev' = [prev EXCEPT ![c] = tail]
  /\ UNCHANGED <<tail, reply, released, startSeqno, attempt, chainVars, doubt, boundVars>>

Acquires(c) == /\ pc[c] = "idle"
               /\ c \in Buys => balance >= Need(c)
               /\ Goto(c, "locking")
               /\ prev' = [prev EXCEPT ![c] = tail] /\ tail' = c
               /\ UNCHANGED <<reply, released, startSeqno, attempt, chainVars, doubt, boundVars>>

Enters(c) == /\ pc[c] = "locking" /\ prev[c] \in released \cup {NoCall}
             /\ Goto(c, "seqno")
             /\ UNCHANGED <<lockVars, reply, startSeqno, attempt, chainVars, doubt, boundVars>>

(* getSeqno().catch(() => 0). *)
ReadsSeqno(c) == /\ pc[c] = "seqno"
                 /\ Goto(c, "funds")
                 /\ \E seqno \in {chainSeqno, 0} :
                      /\ startSeqno' = [startSeqno EXCEPT ![c] = seqno]
                      /\ doubt' = (doubt \/ seqno # chainSeqno)
                 /\ UNCHANGED <<lockVars, reply, attempt, chainVars, boundVars>>

(* getBalance().catch(() => 0n), compared with what the order needs.         *)
FundsUnchecked(c) ==   \* slip: the balance read before the lock is trusted
  /\ pc[c] = "funds" /\ Goto(c, "routing")
  /\ UNCHANGED <<lockVars, reply, startSeqno, attempt, chainVars, doubt, boundVars>>

FundsSuffice(c) == /\ pc[c] = "funds" /\ balance >= Need(c)
                   /\ Goto(c, "routing")
                   /\ UNCHANGED <<lockVars, reply, startSeqno, attempt, chainVars, doubt, boundVars>>

FundsMissing(c) == /\ pc[c] = "funds"
                   /\ Returns(c, "failed")
                   /\ UNCHANGED <<tail, prev, startSeqno, attempt, chainVars, doubt, boundVars>>

(* The pools are probed and the message is built; no pool, or no jettons to  *)
(* sell, ends the call.                                                      *)
FindsPool(c) == /\ pc[c] = "routing"
                /\ Goto(c, "sending")
                /\ UNCHANGED <<lockVars, reply, startSeqno, attempt, chainVars, doubt, boundVars>>

FindsNoPool(c) == /\ pc[c] = "routing"
                  /\ Returns(c, "failed")
                  /\ UNCHANGED <<tail, prev, startSeqno, attempt, chainVars, doubt, boundVars>>

(* sendTransfer: every attempt carries the seqno read at the start.          *)
MessageRereading(c) == [call |-> c, seqno |-> chainSeqno]   \* slip: read per attempt
SwapMessage(c) == [call |-> c, seqno |-> startSeqno[c]]

Sends(c) == /\ pc[c] = "sending"
            /\ sent' = sent \cup {SwapMessage(c)}
            /\ Goto(c, "polling")
            /\ UNCHANGED <<lockVars, reply, startSeqno, attempt, chainSeqno, balance, landed,
                           doubt, boundVars>>

SendFailsOnceMore(c) ==   \* slip: one attempt too many
  /\ pc[c] = "sending" /\ UNCHANGED <<sent, doubt>>
  /\ attempt' = [attempt EXCEPT ![c] = @ + 1]
  /\ IF attempt[c] < MaxAttempts THEN UNCHANGED <<pc, reply, released>> ELSE Returns(c, "failed")
  /\ UNCHANGED <<tail, prev, startSeqno, chainSeqno, balance, landed, boundVars>>

(* An attempt that throws, its message on its way or not.  After the last    *)
(* one the call fails.                                                       *)
SendFails(c) ==
  /\ pc[c] = "sending"
  /\ \/ sent' = sent \cup {SwapMessage(c)} /\ doubt' = TRUE
     \/ UNCHANGED <<sent, doubt>>
  /\ attempt' = [attempt EXCEPT ![c] = @ + 1]
  /\ IF attempt[c] + 1 < MaxAttempts THEN UNCHANGED <<pc, reply, released>>
                                     ELSE Returns(c, "failed")
  /\ UNCHANGED <<tail, prev, startSeqno, chainSeqno, balance, landed, boundVars>>

SeqnoAtLeast(c) == chainSeqno >= startSeqno[c]   \* slip: >= for >
SeqnoMoved(c)   == chainSeqno > startSeqno[c]

PollSees(c) == /\ pc[c] = "polling" /\ SeqnoMoved(c)
               /\ Returns(c, "seen")
               /\ UNCHANGED <<tail, prev, startSeqno, attempt, chainVars, doubt, boundVars>>

PollTimesOut(c) == /\ pc[c] = "polling"
                   /\ Returns(c, "unseen")
                   /\ doubt' = TRUE
                   /\ UNCHANGED <<tail, prev, startSeqno, attempt, chainVars, boundVars>>
-----------------------------------------------------------------------------
(* The chain.  A message counts once, while its seqno is the wallet's; if    *)
(* the wallet cannot pay its value, IGNORE_ERRORS drops the swap and the     *)
(* seqno moves all the same.                                                 *)
Lands(m) == /\ m \in sent /\ m.seqno = chainSeqno
            /\ chainSeqno' = chainSeqno + 1
            /\ IF balance >= Value(m.call)
                 THEN /\ balance' = balance - Value(m.call)
                      /\ landed' = landed \cup {m}
                 ELSE UNCHANGED <<balance, landed>>
            /\ UNCHANGED <<lockVars, callVars, sent, doubt, boundVars>>

Expires(m) == /\ m \in sent /\ m \notin landed
              /\ sent' = sent \ {m}
              /\ UNCHANGED <<lockVars, callVars, chainSeqno, balance, landed, doubt, boundVars>>

(* Proceeds of a sale, a refund, a top-up. *)
Receives == /\ deposits < MaxDeposits /\ deposits' = deposits + 1
            /\ balance' = balance + Deposit
            /\ UNCHANGED <<lockVars, callVars, chainSeqno, sent, landed, doubt, others, crashes>>

(* Somebody else who has the mnemonic spends from the wallet. *)
OtherSpends == /\ others < MaxOthers /\ others' = others + 1
               /\ chainSeqno' = chainSeqno + 1 /\ balance' = balance \div 2
               /\ doubt' = TRUE
               /\ UNCHANGED <<lockVars, callVars, sent, landed, deposits, crashes>>

(* The process dies: its calls are gone, and the next one has a fresh lock.  *)
Restart == /\ crashes < MaxCrashes /\ crashes' = crashes + 1
           /\ pc' = [c \in Calls |-> IF pc[c] \in {Entry, "returned"} THEN pc[c] ELSE "dead"]
           /\ tail' = NoCall /\ doubt' = TRUE
           /\ UNCHANGED <<prev, released, reply, startSeqno, attempt, chainVars, deposits, others>>
-----------------------------------------------------------------------------
(* The steps of sendSwapDirect once the lock is asked for. *)
Steps(c) == \/ Enters(c) \/ ReadsSeqno(c)
            \/ FundsSuffice(c) \/ FundsMissing(c) \/ FindsPool(c) \/ FindsNoPool(c)
            \/ Sends(c) \/ SendFails(c) \/ PollSees(c) \/ PollTimesOut(c)

Next == \/ \E c \in Calls : Preflight(c) \/ DryRun(c) \/ Refuses(c) \/ Acquires(c) \/ Steps(c)
        \/ \E m \in sent : Lands(m) \/ Expires(m)
        \/ Receives \/ OtherSpends \/ Restart

Spec == Init /\ [][Next]_vars
-----------------------------------------------------------------------------
TypeOK == /\ pc \in [Calls -> Phases] /\ reply \in [Calls -> Replies]
          /\ tail \in Calls \cup {NoCall} /\ prev \in [Calls -> Calls \cup {NoCall}]
          /\ released \subseteq Calls
          /\ startSeqno \in [Calls -> Nat] /\ attempt \in [Calls -> 0..MaxAttempts]
          /\ chainSeqno \in Nat /\ balance \in Nat
          /\ sent \subseteq Message /\ landed \subseteq Message
          /\ doubt \in BOOLEAN
          /\ deposits \in Nat /\ others \in Nat /\ crashes \in Nat

(* Between getSeqno and its return one call at a time uses the wallet: the   *)
(* promise chain of WalletMutex is a lock, on every path out of it.          *)
OneSender == \A c, d \in Calls : pc[c] \in Holding /\ pc[d] \in Holding => c = d

(* However often a message is sent, and whenever it arrives, a call swaps    *)
(* at most once.                                                             *)
SwapsOnce == \A m, n \in landed : m.call = n.call => m = n

(* "to preserve swap-back fee" (acton-wallet.ts:249): when a buy lands on    *)
(* STON.fi, what is left in the wallet pays for the way back.  The balance   *)
(* is read long before, and messages of earlier calls may land in between;   *)
(* but the seqno was read before the balance.                                *)
ReserveKept ==
  [][\A m \in landed' \ landed : m.call \in Buys \ Dedust => balance' >= Reserve]_vars

(* When no read failed, no answer was lost, no poll timed out and nobody     *)
(* else spent, replies are true: a call that saw the seqno move has swapped  *)
(* (if its message asks no more than was checked), and one that failed has   *)
(* left nothing behind that still could.                                     *)
RepliesTrue ==
  ~doubt => \A c \in Calls :
    /\ reply[c] = "seen" /\ Value(c) <= Need(c) => \E m \in landed : m.call = c
    /\ reply[c] = "failed" => \A m \in sent \cup landed : m.call # c

(* Nobody waits for a promise that nobody will resolve: the call before a    *)
(* waiting one has released the lock, or is alive and will.                  *)
LockPassedOn ==
  \A c \in Calls : pc[c] = "locking" =>
    prev[c] \in released \cup {NoCall} \/ pc[prev[c]] \in Holding \cup {"locking"}
=============================================================================
