-------------------------- MODULE GatedFeedProofs --------------------------
(***************************************************************************)
(* Proofs about the risk gates' loop and the executor behind it, for any   *)
(* signals, tail, cooldown, crashes and failed appends: types, cooldowns,  *)
(* and that no signal is passed over or decided twice, and no envelope     *)
(* bought twice, as far as the tails of the journals reach.                *)
(***************************************************************************)
EXTENDS GatedFeed, SubsequencesProofs

USE GatedFeedAssumption

(* The cooldown entry of a token covers every verdict of this process that   *)
(* passed it: what CooldownKept needs to be inductive.                       *)
EntryCoversPasses ==
  \A i \in gatedBefore + 1..Len(gated) :
    gated[i].verdict = "pass" => cooldowns[TokenOf[gated[i].id]] >= gated[i].ts + Cooldown

GateTypes == /\ now \in 0..MaxTime /\ gated \in Seq(Gated)
             /\ cooldowns \in [Tokens -> Nat]
             /\ gatedBefore \in 0..Len(gated)
             /\ newRows \in Seq(Signals \cup {Noise}) /\ signals \in Seq(Signals \cup {Noise})
             /\ lastProcessedLine \in Nat

CooldownInv == GateTypes /\ EntryCoversPasses /\ CooldownKept

LEMMA Bounds == TailRows \in Nat /\ TailRows > 0 /\ MaxTime \in Nat
OBVIOUS

(* A tail of a journal is a sequence of its rows.                            *)
LEMMA TailType ==
  ASSUME NEW S, NEW file \in Seq(S)
  PROVE  /\ readJournal(file) \in Seq(S)
         /\ \A n \in Nat : RowsAfter(readJournal(file), n) \in Seq(S)
PROOF
  <1>1. readJournal(file) \in Seq(S)
    <2>1. CASE Len(file) <= TailRows
      BY <2>1 DEF readJournal
    <2>2. CASE ~(Len(file) <= TailRows)
      BY <2>2 DEF readJournal
    <2>3. QED
      BY <2>1, <2>2
  <1>2. ASSUME NEW n \in Nat
        PROVE  RowsAfter(readJournal(file), n) \in Seq(S)
    BY <1>1, <1>2 DEF RowsAfter
  <1>3. QED
    BY <1>1, <1>2

LEMMA JournalGrows ==
  ASSUME NEW S, NEW file \in Seq(S), NEW row \in S
  PROVE  /\ Append(file, row) \in Seq(S)
         /\ Len(Append(file, row)) = Len(file) + 1
         /\ Append(file, row)[Len(file) + 1] = row
         /\ \A i \in 1..Len(file) : Append(file, row)[i] = file[i]
OBVIOUS

(* The first row of a poll is an envelope when it is neither noise nor seen. *)
LEMMA RowIsSignal ==
  ASSUME GateTypes, newRows # <<>>, Head(newRows) \notin processedSignalIds \cup {Noise}
  PROVE  Head(newRows) \in Signals /\ TokenOf[Head(newRows)] \in Tokens
BY DEF GateTypes

LEMMA InitCooldownInv == Init => CooldownInv
BY DEF Init, CooldownInv, GateTypes, EntryCoversPasses, CooldownKept

(* A step that leaves the verdicts and the cooldowns alone.                  *)
LEMMA VerdictsKept ==
  ASSUME CooldownInv, UNCHANGED <<gated, cooldowns, gatedBefore>>
  PROVE  EntryCoversPasses' /\ CooldownKept'
BY DEF CooldownInv, EntryCoversPasses, CooldownKept

LEMMA TypesPreserved ==
  ASSUME CooldownInv, [Next]_vars
  PROVE  GateTypes'
PROOF
  <1> USE DEF CooldownInv, GateTypes
  <1>1. CASE Tick
    BY <1>1 DEF Tick, gateVars
  <1>2. CASE PublishNoise
    BY <1>2 DEF PublishNoise, gateVars
  <1>3. ASSUME NEW s \in Signals, Publish(s)
        PROVE  GateTypes'
    BY <1>3 DEF Publish, gateVars
  <1>4. CASE Poll
    <2>1. newRows' \in Seq(Signals \cup {Noise})
      BY <1>4, TailType DEF Poll
    <2>2. QED
      BY <1>4, <2>1 DEF Poll
  <1>5. CASE SkipRow
    BY <1>5 DEF SkipRow
  <1>6. CASE EvaluateRow
    <2> DEFINE s == Head(newRows)
               row == [id |-> s, verdict |-> Verdict(s), ts |-> now]
    <2>1. s \in Signals /\ TokenOf[s] \in Tokens
      BY <1>6, RowIsSignal DEF EvaluateRow
    <2>2. row \in Gated
      BY <2>1 DEF Gated, Verdicts, Verdict
    <2>3. gated' \in Seq(Gated) /\ Len(gated') >= Len(gated)
      <3>1. gated' = Append(gated, row) \/ gated' = gated
        BY <1>6 DEF EvaluateRow
      <3> HIDE DEF row
      <3>2. Len(gated) \in Nat
        OBVIOUS
      <3>3. CASE gated' = gated
        BY <3>2, <3>3
      <3>4. CASE gated' = Append(gated, row)
        BY <2>2, <3>2, <3>4, JournalGrows
      <3>5. QED
        BY <3>1, <3>3, <3>4
    <2>4. cooldowns' \in [Tokens -> Nat]
      BY <1>6, <2>1 DEF EvaluateRow
    <2>5. newRows' \in Seq(Signals \cup {Noise}) /\ lastProcessedLine' \in Nat
      <3>1. newRows' = Tail(newRows) \/ newRows' = <<>>
        BY <1>6 DEF EvaluateRow
      <3>2. newRows # <<>> /\ lastProcessedLine' = lastProcessedLine + 1
        BY <1>6 DEF EvaluateRow
      <3>3. Tail(newRows) \in Seq(Signals \cup {Noise})
        BY <3>2
      <3>4. <<>> \in Seq(Signals \cup {Noise})
        OBVIOUS
      <3>5. lastProcessedLine' \in Nat
        BY <3>2
      <3>6. newRows' \in Seq(Signals \cup {Noise})
        BY ONLY <3>1, <3>3, <3>4
      <3>7. QED
        BY <3>5, <3>6
    <2>6. UNCHANGED <<now, signals, gatedBefore>>
      BY <1>6 DEF EvaluateRow
    <2>7. QED
      BY <2>3, <2>4, <2>5, <2>6
  <1>7. CASE ReadGated
    BY <1>7 DEF ReadGated, gateVars
  <1>8. ASSUME NEW t \in Tokens, Exit(t)
        PROVE  GateTypes'
    BY <1>8 DEF Exit, gateVars
  <1>9. CASE RestartGates
    BY <1>9 DEF RestartGates
  <1>10. CASE RestartExecutor
    BY <1>10 DEF RestartExecutor, gateVars
  <1>11. CASE UNCHANGED vars
    BY <1>11 DEF vars, gateVars
  <1>12. QED
    BY <1>1, <1>2, <1>3, <1>4, <1>5, <1>6, <1>7, <1>8, <1>9, <1>10, <1>11 DEF Next, Gates

(* A verdict that passes a token finds the token's entry run out, and the    *)
(* entry covers every earlier pass.                                          *)
LEMMA EvaluationKeepsCooldown ==
  ASSUME CooldownInv, EvaluateRow
  PROVE  EntryCoversPasses' /\ CooldownKept'
PROOF
  <1> DEFINE s == Head(newRows)
             row == [id |-> s, verdict |-> Verdict(s), ts |-> now]
             own == gatedBefore + 1..Len(gated)
  <1> USE DEF CooldownInv, GateTypes
  <1>1. s \in Signals /\ TokenOf[s] \in Tokens
    BY RowIsSignal DEF EvaluateRow
  <1>2. row \in Gated
    BY <1>1 DEF Gated, Verdicts, Verdict
  <1>3. gated' = Append(gated, row) \/ gated' = gated
    BY DEF EvaluateRow
  <1>b. Cooldown \in Nat
    OBVIOUS
  <1>c. now \in Int
    <2>1. now \in 0..MaxTime /\ MaxTime \in Nat
      BY Bounds
    <2>2. QED
      BY ONLY <2>1
  <1>a. row.id = s /\ row.ts = now /\ row.verdict = Verdict(s)
    OBVIOUS
  <1> HIDE DEF row
  <1>4. gatedBefore' = gatedBefore
    BY DEF EvaluateRow
  <1>5. \A i \in own : gated[i] \in Gated
    OBVIOUS
  <1>6. \A i \in own : gated[i].ts \in Nat /\ TokenOf[gated[i].id] \in Tokens
    <2> SUFFICES ASSUME NEW i \in own PROVE gated[i].ts \in Nat /\ TokenOf[gated[i].id] \in Tokens
      OBVIOUS
    <2>1. gated[i].ts \in 0..MaxTime /\ gated[i].id \in Signals
      BY <1>5 DEF Gated
    <2>2. QED
      BY <2>1, Bounds
  <1>7. \A t \in Tokens : /\ cooldowns[t] \in Nat /\ cooldowns'[t] \in Nat
                           /\ cooldowns'[t] >= cooldowns[t]
    <2>1. CASE Verdict(s) = "pass"
      <3>1. cooldowns' = [cooldowns EXCEPT ![TokenOf[s]] = now + Cooldown]
        BY <2>1 DEF EvaluateRow
      <3>2. ~(cooldowns[TokenOf[s]] > now)
        BY <2>1 DEF Verdict, CoolingDown
      <3>3. QED
        BY <1>1, <3>1, <3>2
    <2>2. CASE Verdict(s) # "pass"
      BY <2>2 DEF EvaluateRow
    <2>3. QED
      BY <2>1, <2>2
  <1>8. Verdict(s) = "pass" => /\ cooldowns'[TokenOf[s]] = now + Cooldown
                               /\ cooldowns[TokenOf[s]] <= now
    <2>1. CASE Verdict(s) = "pass"
      <3>1. cooldowns' = [cooldowns EXCEPT ![TokenOf[s]] = now + Cooldown]
        BY <2>1 DEF EvaluateRow
      <3>2. ~(cooldowns[TokenOf[s]] > now)
        BY <2>1 DEF Verdict, CoolingDown
      <3>3. cooldowns[TokenOf[s]] \in Nat /\ now \in Int
        BY <1>1
      <3>4. QED
        BY <1>1, <3>1, <3>2, <3>3
    <2>2. QED
      BY <2>1
  <1>9. CASE gated' = gated
    <2>1. EntryCoversPasses'
      <3> SUFFICES ASSUME NEW i \in own, gated[i].verdict = "pass"
                   PROVE  cooldowns'[TokenOf[gated[i].id]] >= gated[i].ts + Cooldown
        BY <1>4, <1>9 DEF EntryCoversPasses
      <3>1. cooldowns[TokenOf[gated[i].id]] >= gated[i].ts + Cooldown
        BY DEF EntryCoversPasses
      <3>2. /\ cooldowns[TokenOf[gated[i].id]] \in Nat /\ cooldowns'[TokenOf[gated[i].id]] \in Nat
            /\ cooldowns'[TokenOf[gated[i].id]] >= cooldowns[TokenOf[gated[i].id]]
        BY <1>6, <1>7
      <3>3. gated[i].ts \in Nat
        BY <1>6
      <3>4. QED
        <4> DEFINE before == cooldowns[TokenOf[gated[i].id]]
                   after  == cooldowns'[TokenOf[gated[i].id]]
                   ts     == gated[i].ts
        <4>1. /\ before \in Nat /\ after \in Nat /\ ts \in Nat /\ Cooldown \in Nat
              /\ before >= ts + Cooldown /\ after >= before
          BY <1>b, <3>1, <3>2, <3>3
        <4> HIDE DEF before, after, ts
        <4>2. after >= ts + Cooldown
          BY ONLY <4>1
        <4>3. QED
          BY <4>2 DEF after, ts
    <2>2. CooldownKept'
      BY <1>4, <1>9 DEF CooldownKept
    <2>3. QED
      BY <2>1, <2>2
  <1>10. CASE gated' = Append(gated, row)
    <2>1. /\ Len(gated') = Len(gated) + 1 /\ gated'[Len(gated) + 1] = row
          /\ \A i \in own : gated'[i] = gated[i]
      <3> HIDE DEF row
      <3>1. QED
        BY <1>2, <1>10, JournalGrows
    <2>2. \A i \in gatedBefore' + 1..Len(gated') : i \in own \/ i = Len(gated) + 1
      BY <1>4, <2>1
    <2>3. EntryCoversPasses'
      <3> SUFFICES ASSUME NEW i \in gatedBefore' + 1..Len(gated'),
                          gated'[i].verdict = "pass"
                   PROVE  cooldowns'[TokenOf[gated'[i].id]] >= gated'[i].ts + Cooldown
        BY DEF EntryCoversPasses
      <3>1. CASE i \in own
        <4>1. cooldowns[TokenOf[gated[i].id]] >= gated[i].ts + Cooldown
          BY <2>1, <3>1 DEF EntryCoversPasses
        <4>2. cooldowns'[TokenOf[gated[i].id]] >= cooldowns[TokenOf[gated[i].id]]
          BY <1>6, <1>7, <3>1
        <4>3. /\ cooldowns[TokenOf[gated[i].id]] \in Nat
              /\ cooldowns'[TokenOf[gated[i].id]] \in Nat
          BY <1>6, <1>7, <3>1
        <4>4. gated'[i] = gated[i] /\ gated[i].ts \in Nat
          BY <1>6, <2>1, <3>1
        <4>5. cooldowns'[TokenOf[gated[i].id]] >= gated[i].ts + Cooldown
          <5> DEFINE before == cooldowns[TokenOf[gated[i].id]]
                     after  == cooldowns'[TokenOf[gated[i].id]]
                     ts     == gated[i].ts
          <5>1. before \in Nat /\ after \in Nat /\ ts \in Nat /\ Cooldown \in Nat
            BY <4>3, <4>4, <1>b
          <5>2. before >= ts + Cooldown /\ after >= before
            BY <4>1, <4>2
          <5> HIDE DEF before, after, ts
          <5>3. after >= ts + Cooldown
            BY ONLY <5>1, <5>2
          <5>4. QED
            BY <5>3 DEF after, ts
        <4>6. QED
          BY <4>4, <4>5
      <3>2. CASE i = Len(gated) + 1
        BY <1>a, <1>8, <2>1, <3>2
      <3>3. QED
        BY <2>2, <3>1, <3>2
    <2>4. CooldownKept'
      <3> SUFFICES ASSUME NEW i \in gatedBefore' + 1..Len(gated'),
                          NEW j \in gatedBefore' + 1..Len(gated'),
                          i < j, gated'[i].verdict = "pass", gated'[j].verdict = "pass",
                          TokenOf[gated'[i].id] = TokenOf[gated'[j].id]
                   PROVE  gated'[j].ts >= gated'[i].ts + Cooldown
        BY DEF CooldownKept
      <3>1. i \in own
        BY <2>1, <2>2
      <3>2. CASE j \in own
        BY <2>1, <3>1, <3>2 DEF CooldownKept
      <3>3. CASE j = Len(gated) + 1
        <4>1. cooldowns[TokenOf[s]] >= gated[i].ts + Cooldown
          BY <1>a, <2>1, <3>1, <3>3 DEF EntryCoversPasses
        <4>2. cooldowns[TokenOf[s]] <= now
          BY <1>a, <1>8, <2>1, <3>3
        <4>3. gated'[j].ts = now /\ gated'[i].ts = gated[i].ts
          BY <1>a, <2>1, <3>1, <3>3
        <4>4. cooldowns[TokenOf[s]] \in Nat
          BY <1>1, <1>7
        <4>5. gated[i].ts \in Nat
          BY <1>6, <3>1
        <4>6. QED
          BY ONLY <1>b, <1>c, <4>1, <4>2, <4>3, <4>4, <4>5
      <3>4. QED
        BY <2>2, <3>2, <3>3
    <2>5. QED
      BY <2>3, <2>4
  <1>11. QED
    BY <1>3, <1>9, <1>10

LEMMA NextCooldownInv == CooldownInv /\ [Next]_vars => CooldownInv'
PROOF
  <1> SUFFICES ASSUME CooldownInv, [Next]_vars
               PROVE  EntryCoversPasses' /\ CooldownKept'
    BY TypesPreserved DEF CooldownInv
  <1>1. CASE EvaluateRow
    BY <1>1, EvaluationKeepsCooldown
  <1>2. CASE RestartGates
    <2>1. gatedBefore' = Len(gated) /\ gated' = gated
      BY <1>2 DEF RestartGates
    <2>2. Len(gated) \in Nat
      BY DEF CooldownInv, GateTypes
    <2>3. QED
      BY <2>1, <2>2 DEF EntryCoversPasses, CooldownKept
  <1>3. CASE UNCHANGED <<gated, cooldowns, gatedBefore>>
    BY <1>3, VerdictsKept
  <1>4. QED
    BY <1>1, <1>2, <1>3
    DEF Next, Gates, Tick, PublishNoise, Publish, Poll, SkipRow, ReadGated, Exit,
        RestartExecutor, vars, gateVars

(* Two verdicts of one gates process that pass the same token are at least   *)
(* GATE_CONFIG.cooldownMs apart, whatever the signals, appends and crashes.  *)
THEOREM CooldownHolds == Spec => []CooldownKept
PROOF
  <1>1. CooldownInv => CooldownKept
    BY DEF CooldownInv
  <1>2. QED
    BY <1>1, InitCooldownInv, NextCooldownInv, PTL DEF Spec
-----------------------------------------------------------------------------
(* The journals.  What a process knows of its output when it starts, and of  *)
(* every row it appends since, covers the tail of that journal; what it has  *)
(* read and not yet visited follows its cursor.                              *)
TailKnown ==
  \A i \in 1..Len(gated) : i > Len(gated) - TailRows => gated[i].id \in processedSignalIds

BuysKnown ==
  \A i \in 1..Len(orders) :
    i > Len(orders) - TailRows /\ orders[i].kind = "buy" => orders[i].id \in processedEnvIds

PollFollowsCursor ==
  Len(signals) <= TailRows /\ faults = 0
    => /\ lastProcessedLine + Len(newRows) <= Len(signals)
       /\ \A k \in 1..Len(newRows) : newRows[k] = signals[lastProcessedLine + k]

KnownIsGated == faults = 0 => processedSignalIds \subseteq IdsOf(gated)

FeedTypes == TypeOK /\ lastProcessedLine + Len(newRows) <= TailRows

FeedInv == /\ FeedTypes
           /\ TailKnown /\ GatedOnce
           /\ BuysKnown /\ BoughtOnce
           /\ PollFollowsCursor /\ KnownIsGated /\ NothingPassedOver

(* The tail that readJournal returns, row by row.                            *)
LEMMA TailFacts ==
  ASSUME NEW S, NEW file \in Seq(S)
  PROVE  LET rows == readJournal(file)
         IN  /\ rows \in Seq(S) /\ Len(rows) \in 0..TailRows /\ Len(rows) <= Len(file)
             /\ Len(rows) < Len(file) => Len(rows) = TailRows
             /\ \A i \in 1..Len(rows) : /\ Len(file) - Len(rows) + i \in 1..Len(file)
                                        /\ rows[i] = file[Len(file) - Len(rows) + i]
PROOF
  <1> DEFINE rows == readJournal(file)
             n == Len(file) - TailRows
             TailOf(t) == /\ t \in Seq(S) /\ Len(t) \in 0..TailRows /\ Len(t) <= Len(file)
                          /\ Len(t) < Len(file) => Len(t) = TailRows
                          /\ \A i \in 1..Len(t) : /\ Len(file) - Len(t) + i \in 1..Len(file)
                                                  /\ t[i] = file[Len(file) - Len(t) + i]
  <1>1. Len(file) \in Nat /\ TailRows \in Nat
    BY Bounds
  <1>2. ASSUME Len(file) <= TailRows PROVE TailOf(rows)
    <2>1. rows = file
      BY <1>2 DEF readJournal
    <2> HIDE DEF rows
    <2>2. \A i \in 1..Len(file) : Len(file) - Len(file) + i = i
      BY <1>1
    <2>3. TailOf(file)
      BY <1>1, <1>2, <2>2
    <2>4. QED
      BY <2>1, <2>3
  <1>3. ASSUME ~(Len(file) <= TailRows) PROVE TailOf(rows)
    <2>1. rows = SubSeq(file, n + 1, Len(file))
      BY <1>3 DEF readJournal
    <2>2. n \in Nat /\ Len(file) - n = TailRows
      BY <1>1, <1>3
    <2> HIDE DEF rows, n
    <2>3. /\ rows \in Seq(S) /\ Len(rows) = Len(file) - n
          /\ \A i \in 1..Len(file) - n : rows[i] = file[n + i]
      BY <1>1, <2>1, <2>2
    <2>4. Len(rows) = TailRows /\ Len(file) - Len(rows) = n
      BY <1>1, <2>2, <2>3
    <2>5. \A i \in 1..TailRows : n + i \in 1..Len(file)
      BY <1>1, <2>2
    <2>6. \A i \in 1..Len(rows) : /\ Len(file) - Len(rows) + i \in 1..Len(file)
                                 /\ rows[i] = file[Len(file) - Len(rows) + i]
      BY <2>2, <2>3, <2>4, <2>5
    <2>7. Len(rows) \in 0..TailRows /\ Len(rows) <= Len(file)
      BY <1>1, <1>3, <2>4
    <2>8. QED
      BY <2>3, <2>4, <2>6, <2>7
  <1>4. TailOf(rows)
    <2> HIDE DEF TailOf
    <2>1. QED
      BY <1>2, <1>3
  <1>5. QED
    BY <1>4

LEMMA UnreadFacts ==
  ASSUME NEW S, NEW rows \in Seq(S), NEW n \in 0..Len(rows)
  PROVE  /\ RowsAfter(rows, n) \in Seq(S) /\ Len(RowsAfter(rows, n)) = Len(rows) - n
         /\ \A i \in 1..Len(rows) - n : n + i \in 1..Len(rows) /\ RowsAfter(rows, n)[i] = rows[n + i]
BY DEF RowsAfter

LEMMA JoinFacts ==
  ASSUME NEW S, NEW s \in Seq(S), NEW t \in Seq(S)
  PROVE  /\ s \o t \in Seq(S) /\ Len(s \o t) = Len(s) + Len(t)
         /\ \A i \in 1..Len(s) : (s \o t)[i] = s[i]
         /\ \A i \in 1..Len(s \o t) :
              i \notin 1..Len(s) => /\ i - Len(s) \in 1..Len(t)
                                    /\ (s \o t)[i] = t[i - Len(s)]
OBVIOUS
-----------------------------------------------------------------------------
(* The signals: published, polled, visited. *)
LEMMA PublishStep ==
  ASSUME FeedInv, NEW s \in Signals \cup {Noise}, signals' = Append(signals, s),
         UNCHANGED <<now, gated, gateVars, executorVars, boundVars>>
  PROVE  FeedInv'
PROOF
  <1> USE DEF gateVars, executorVars, boundVars
  <1>1. /\ signals \in Seq(Signals \cup {Noise}) /\ Len(signals) \in Nat
        /\ lastProcessedLine \in Nat /\ Len(newRows) \in Nat
    BY Bounds DEF FeedInv, FeedTypes, TypeOK
  <1>2. /\ signals' \in Seq(Signals \cup {Noise}) /\ Len(signals') = Len(signals) + 1
        /\ \A i \in 1..Len(signals) : signals'[i] = signals[i]
    BY <1>1, JournalGrows
  <1>3. FeedTypes'
    BY <1>2 DEF FeedInv, FeedTypes, TypeOK
  <1>4. TailKnown' /\ GatedOnce' /\ BuysKnown' /\ BoughtOnce' /\ KnownIsGated'
    BY DEF FeedInv, TailKnown, GatedOnce, BuysKnown, BoughtOnce, KnownIsGated
  <1>5. ASSUME Len(signals') <= TailRows, faults' = 0
        PROVE  /\ lastProcessedLine + Len(newRows) <= Len(signals)
               /\ \A k \in 1..Len(newRows) : newRows[k] = signals[lastProcessedLine + k]
               /\ \A i \in 1..lastProcessedLine : signals[i] # Noise => signals[i] \in IdsOf(gated)
    <2>1. Len(signals) <= TailRows /\ faults = 0
      BY <1>1, <1>2, <1>5, Bounds
    <2>2. QED
      BY <2>1 DEF FeedInv, PollFollowsCursor, NothingPassedOver
  <1>6. PollFollowsCursor'
    <2> SUFFICES ASSUME Len(signals') <= TailRows, faults' = 0
                 PROVE  /\ lastProcessedLine + Len(newRows) <= Len(signals')
                        /\ \A k \in 1..Len(newRows) : newRows[k] = signals'[lastProcessedLine + k]
      BY DEF PollFollowsCursor
    <2>1. \A k \in 1..Len(newRows) : lastProcessedLine + k \in 1..Len(signals)
      BY <1>1, <1>5
    <2>2. QED
      BY <1>1, <1>2, <1>5, <2>1
  <1>7. NothingPassedOver'
    <2> SUFFICES ASSUME Len(signals') <= TailRows, faults' = 0, NEW i \in 1..lastProcessedLine
                 PROVE  signals'[i] # Noise => signals'[i] \in IdsOf(gated)
      BY DEF NothingPassedOver
    <2>1. i \in 1..Len(signals)
      BY <1>1, <1>5
    <2>2. QED
      BY <1>2, <1>5, <2>1
  <1>8. QED
    BY <1>3, <1>4, <1>6, <1>7 DEF FeedInv

LEMMA PollStep ==
  ASSUME FeedInv, Poll
  PROVE  FeedInv'
PROOF
  <1> DEFINE rows == readJournal(signals)
  <1>1. /\ Len(rows) > lastProcessedLine /\ newRows' = RowsAfter(rows, lastProcessedLine)
        /\ UNCHANGED <<now, signals, gated, lastProcessedLine, processedSignalIds, cooldowns,
                       killSwitch, gatedBefore, orders, positions, processedLines, processedEnvIds,
                       crashes, faults>>
    BY DEF Poll, executorVars, boundVars
  <1>2. signals \in Seq(Signals \cup {Noise}) /\ lastProcessedLine \in Nat /\ Len(signals) \in Nat
    BY Bounds DEF FeedInv, FeedTypes, TypeOK
  <1>3. /\ rows \in Seq(Signals \cup {Noise}) /\ Len(rows) \in 0..TailRows /\ Len(rows) <= Len(signals)
        /\ Len(rows) < Len(signals) => Len(rows) = TailRows
        /\ \A i \in 1..Len(rows) : rows[i] = signals[Len(signals) - Len(rows) + i]
    BY <1>2, TailFacts
  <1> HIDE DEF rows
  <1>4. /\ newRows' \in Seq(Signals \cup {Noise}) /\ Len(newRows') = Len(rows) - lastProcessedLine
        /\ \A i \in 1..Len(newRows') : newRows'[i] = rows[lastProcessedLine + i]
                                       /\ lastProcessedLine + i \in 1..Len(rows)
    <2>1. lastProcessedLine \in 0..Len(rows)
      BY <1>1, <1>2, <1>3
    <2> DEFINE unread == RowsAfter(rows, lastProcessedLine)
    <2>2. /\ unread \in Seq(Signals \cup {Noise}) /\ Len(unread) = Len(rows) - lastProcessedLine
          /\ \A i \in 1..Len(rows) - lastProcessedLine :
               lastProcessedLine + i \in 1..Len(rows) /\ unread[i] = rows[lastProcessedLine + i]
      BY <1>3, <2>1, UnreadFacts
    <2>3. newRows' = unread
      BY <1>1
    <2> HIDE DEF unread
    <2>4. QED
      BY <2>2, <2>3
  <1>5. lastProcessedLine + Len(newRows') = Len(rows)
    BY <1>2, <1>3, <1>4
  <1>6. FeedTypes'
    BY <1>1, <1>3, <1>4, <1>5, Bounds DEF FeedInv, FeedTypes, TypeOK
  <1>7. /\ TailKnown' /\ GatedOnce' /\ BuysKnown' /\ BoughtOnce' /\ KnownIsGated'
        /\ NothingPassedOver'
    BY <1>1 DEF FeedInv, TailKnown, GatedOnce, BuysKnown, BoughtOnce, KnownIsGated, NothingPassedOver
  <1>8. PollFollowsCursor'
    <2> SUFFICES ASSUME Len(signals) <= TailRows
                 PROVE  /\ lastProcessedLine + Len(newRows') <= Len(signals)
                        /\ \A k \in 1..Len(newRows') : newRows'[k] = signals[lastProcessedLine + k]
      BY <1>1 DEF PollFollowsCursor
    <2>1. Len(rows) = Len(signals)
      BY <1>2, <1>3, Bounds
    <2>2. \A i \in 1..Len(rows) : Len(signals) - Len(rows) + i = i
      BY <1>2, <2>1
    <2>3. QED
      BY <1>2, <1>3, <1>4, <1>5, <2>1, <2>2
  <1>9. QED
    BY <1>6, <1>7, <1>8 DEF FeedInv

(* The cursor moves over the first row of a poll.                            *)
LEMMA RowVisited ==
  ASSUME FeedInv, newRows # <<>>, newRows' = Tail(newRows),
         lastProcessedLine' = lastProcessedLine + 1, UNCHANGED signals
  PROVE  /\ newRows' \in Seq(Signals \cup {Noise})
         /\ lastProcessedLine' \in 0..TailRows
         /\ lastProcessedLine' + Len(newRows') = lastProcessedLine + Len(newRows)
         /\ Len(signals) <= TailRows /\ faults = 0
              => /\ lastProcessedLine' + Len(newRows') <= Len(signals)
                 /\ \A k \in 1..Len(newRows') : newRows'[k] = signals[lastProcessedLine' + k]
                 /\ signals[lastProcessedLine + 1] = Head(newRows)
PROOF
  <1>1. /\ newRows \in Seq(Signals \cup {Noise}) /\ lastProcessedLine \in Nat
        /\ lastProcessedLine + Len(newRows) <= TailRows
    BY Bounds DEF FeedInv, FeedTypes, TypeOK
  <1>2. /\ Len(newRows) \in Nat /\ Len(newRows) > 0 /\ Head(newRows) = newRows[1]
        /\ newRows' \in Seq(Signals \cup {Noise}) /\ Len(newRows') = Len(newRows) - 1
        /\ \A k \in 1..Len(newRows) - 1 : newRows'[k] = newRows[k + 1]
    BY <1>1
  <1>3. lastProcessedLine' + Len(newRows') = lastProcessedLine + Len(newRows)
    BY <1>1, <1>2
  <1>4. lastProcessedLine' \in 0..TailRows
    BY <1>1, <1>2, Bounds
  <1>5. ASSUME Len(signals) <= TailRows, faults = 0
        PROVE  /\ lastProcessedLine' + Len(newRows') <= Len(signals)
               /\ \A k \in 1..Len(newRows') : newRows'[k] = signals[lastProcessedLine' + k]
               /\ signals[lastProcessedLine + 1] = Head(newRows)
    <2>1. /\ lastProcessedLine + Len(newRows) <= Len(signals)
          /\ \A k \in 1..Len(newRows) : newRows[k] = signals[lastProcessedLine + k]
      BY <1>5 DEF FeedInv, PollFollowsCursor
    <2>2. \A k \in 1..Len(newRows) - 1 : /\ k + 1 \in 1..Len(newRows)
                                         /\ lastProcessedLine + (k + 1) = lastProcessedLine' + k
      BY <1>1, <1>2
    <2>3. 1 \in 1..Len(newRows)
      BY <1>2
    <2>4. QED
      BY <1>2, <1>3, <2>1, <2>2, <2>3
  <1>6. QED
    BY <1>2, <1>3, <1>4, <1>5

LEMMA SkipRowStep ==
  ASSUME FeedInv, SkipRow
  PROVE  FeedInv'
PROOF
  <1>1. /\ newRows # <<>> /\ Head(newRows) \in processedSignalIds \cup {Noise}
        /\ newRows' = Tail(newRows) /\ lastProcessedLine' = lastProcessedLine + 1
        /\ UNCHANGED <<now, signals, gated, processedSignalIds, cooldowns,
                       killSwitch, gatedBefore, orders, positions, processedLines, processedEnvIds,
                       crashes, faults>>
    BY DEF SkipRow, executorVars, boundVars
  <1>2. /\ newRows' \in Seq(Signals \cup {Noise}) /\ lastProcessedLine' \in 0..TailRows
        /\ lastProcessedLine' + Len(newRows') = lastProcessedLine + Len(newRows)
        /\ Len(signals) <= TailRows /\ faults = 0
             => /\ lastProcessedLine' + Len(newRows') <= Len(signals)
                /\ \A k \in 1..Len(newRows') : newRows'[k] = signals[lastProcessedLine' + k]
                /\ signals[lastProcessedLine + 1] = Head(newRows)
    BY <1>1, RowVisited
  <1>3. FeedTypes'
    BY <1>1, <1>2 DEF FeedInv, FeedTypes, TypeOK
  <1>4. TailKnown' /\ GatedOnce' /\ BuysKnown' /\ BoughtOnce' /\ KnownIsGated'
    BY <1>1 DEF FeedInv, TailKnown, GatedOnce, BuysKnown, BoughtOnce, KnownIsGated
  <1>5. PollFollowsCursor'
    BY <1>1, <1>2 DEF PollFollowsCursor
  <1>6. NothingPassedOver'
    <2> SUFFICES ASSUME Len(signals) <= TailRows, faults = 0,
                        NEW i \in 1..lastProcessedLine + 1, signals[i] # Noise
                 PROVE  signals[i] \in IdsOf(gated)
      BY <1>1 DEF NothingPassedOver
    <2>1. CASE i \in 1..lastProcessedLine
      BY <2>1 DEF FeedInv, NothingPassedOver
    <2>2. CASE i = lastProcessedLine + 1
      BY <1>1, <1>2, <2>2 DEF FeedInv, KnownIsGated
    <2>3. lastProcessedLine \in Nat
      BY Bounds DEF FeedInv, FeedTypes, TypeOK
    <2>4. QED
      BY <2>1, <2>2, <2>3
  <1>7. QED
    BY <1>3, <1>4, <1>5, <1>6 DEF FeedInv

(* A verdict is appended, or the append throws.                              *)
LEMMA EvaluateStep ==
  ASSUME FeedInv, EvaluateRow
  PROVE  FeedInv'
PROOF
  <1> DEFINE s == Head(newRows)
             row == [id |-> s, verdict |-> Verdict(s), ts |-> now]
             n == Len(gated)
  <1>1. /\ newRows # <<>> /\ s \notin processedSignalIds \cup {Noise}
        /\ lastProcessedLine' = lastProcessedLine + 1
        /\ processedSignalIds' = processedSignalIds \cup {s}
        /\ UNCHANGED <<now, signals, killSwitch, gatedBefore, orders, positions, processedLines,
                       processedEnvIds, crashes>>
    BY DEF EvaluateRow, executorVars
  <1>2. \/ gated' = Append(gated, row) /\ newRows' = Tail(newRows) /\ faults' = faults
        \/ faults' = faults + 1 /\ newRows' = <<>> /\ gated' = gated
    BY DEF EvaluateRow
  <1>3. cooldowns' = IF Verdict(s) = "pass" THEN [cooldowns EXCEPT ![TokenOf[s]] = now + Cooldown]
                                            ELSE cooldowns
    BY DEF EvaluateRow
  <1>4. /\ newRows \in Seq(Signals \cup {Noise}) /\ lastProcessedLine \in Nat /\ faults \in Nat
        /\ gated \in Seq(Gated) /\ n \in Nat /\ gatedBefore \in 0..n /\ now \in 0..MaxTime
        /\ cooldowns \in [Tokens -> Nat] /\ processedSignalIds \subseteq Signals
        /\ lastProcessedLine + Len(newRows) <= TailRows
    BY Bounds DEF FeedInv, FeedTypes, TypeOK
  <1>5. s \in Signals /\ TokenOf[s] \in Tokens
    BY <1>1, <1>4
  <1>6. row \in Gated /\ row.id = s
    BY <1>4, <1>5 DEF Gated, Verdicts, Verdict
  <1>7. cooldowns' \in [Tokens -> Nat]
    BY <1>3, <1>4, <1>5
  <1> HIDE DEF s, row, n
  <1>8. ASSUME gated' = Append(gated, row)
        PROVE  /\ gated' \in Seq(Gated) /\ Len(gated') = n + 1 /\ gated'[n + 1].id = s
               /\ \A i \in 1..n : gated'[i] = gated[i]
    BY <1>4, <1>6, <1>8, JournalGrows DEF n
  <1>9. TailKnown'
    <2>1. CASE gated' = gated
      BY <1>1, <2>1 DEF FeedInv, TailKnown
    <2>2. CASE gated' = Append(gated, row)
      <3>a. Len(gated') = n + 1
        BY <1>8, <2>2
      <3> SUFFICES ASSUME NEW i \in 1..n + 1, i > n + 1 - TailRows
                   PROVE  gated'[i].id \in processedSignalIds'
        BY <1>4, <3>a, Bounds DEF TailKnown
      <3>1. CASE i = n + 1
        BY <1>1, <1>8, <2>2, <3>1
      <3>2. CASE i \in 1..n
        <4>1. i > n - TailRows
          BY <1>4, <3>2, Bounds
        <4>2. gated[i].id \in processedSignalIds
          BY <3>2, <4>1 DEF FeedInv, TailKnown, n
        <4>3. QED
          BY <1>1, <1>8, <2>2, <3>2, <4>2
      <3>3. QED
        BY <1>4, <3>1, <3>2
    <2>3. QED
      BY <1>2, <2>1, <2>2
  <1>10. GatedOnce'
    <2>1. CASE gated' = gated
      BY <2>1 DEF FeedInv, GatedOnce
    <2>2. CASE gated' = Append(gated, row)
      <3> SUFFICES ASSUME NEW i \in 1..n + 1, NEW j \in 1..n + 1, i < j,
                          gated'[i].id = gated'[j].id
                   PROVE  j - i > TailRows
        BY <1>8, <2>2 DEF GatedOnce
      <3>1. i \in 1..n /\ (j \in 1..n \/ j = n + 1)
        BY <1>4
      <3>2. CASE j \in 1..n
        BY <1>8, <2>2, <3>1, <3>2 DEF FeedInv, GatedOnce, n
      <3>3. CASE j = n + 1
        <4>1. gated[i].id \notin processedSignalIds
          BY <1>1, <1>8, <2>2, <3>1, <3>3
        <4>2. ~(i > n - TailRows)
          BY <3>1, <4>1 DEF FeedInv, TailKnown, n
        <4>3. QED
          BY <1>4, <3>1, <3>3, <4>2, Bounds
      <3>4. QED
        BY <3>1, <3>2, <3>3
    <2>3. QED
      BY <1>2, <2>1, <2>2
  <1>11. IdsOf(gated) \subseteq IdsOf(gated') /\ (gated' # gated => s \in IdsOf(gated'))
    <2>1. CASE gated' = Append(gated, row)
      <3>1. 1..n \subseteq 1..n + 1 /\ n + 1 \in 1..n + 1
        BY <1>4
      <3>2. QED
        BY <1>8, <2>1, <3>1 DEF IdsOf, n
    <2>2. QED
      BY <1>2, <2>1
  <1>12. BuysKnown' /\ BoughtOnce'
    BY <1>1 DEF FeedInv, BuysKnown, BoughtOnce
  <1>13. CASE faults' = faults + 1 /\ newRows' = <<>> /\ gated' = gated
    <2>1. faults' \in Nat /\ faults' # 0
      BY <1>4, <1>13
    <2>2. PollFollowsCursor' /\ KnownIsGated' /\ NothingPassedOver'
      BY <2>1 DEF PollFollowsCursor, KnownIsGated, NothingPassedOver
    <2>3. /\ newRows' \in Seq(Signals \cup {Noise}) /\ Len(newRows') = 0
          /\ lastProcessedLine' \in 0..TailRows /\ lastProcessedLine' + 0 <= TailRows
      <3>1. Len(newRows) \in Nat /\ Len(newRows) > 0
        BY <1>1, <1>4
      <3>2. QED
        BY <1>1, <1>4, <1>13, <3>1, Bounds
    <2>4. FeedTypes'
      BY <1>1, <1>5, <1>7, <1>13, <2>1, <2>3 DEF FeedInv, FeedTypes, TypeOK
    <2>5. QED
      BY <1>9, <1>10, <1>12, <2>2, <2>4 DEF FeedInv
  <1>14. CASE gated' = Append(gated, row) /\ newRows' = Tail(newRows) /\ faults' = faults
    <2>1. /\ newRows' \in Seq(Signals \cup {Noise}) /\ lastProcessedLine' \in 0..TailRows
          /\ lastProcessedLine' + Len(newRows') = lastProcessedLine + Len(newRows)
          /\ Len(signals) <= TailRows /\ faults = 0
               => /\ lastProcessedLine' + Len(newRows') <= Len(signals)
                  /\ \A k \in 1..Len(newRows') : newRows'[k] = signals[lastProcessedLine' + k]
                  /\ signals[lastProcessedLine + 1] = Head(newRows)
      BY <1>1, <1>14, RowVisited
    <2>2. gatedBefore' \in 0..Len(gated')
      BY <1>1, <1>4, <1>8, <1>14
    <2>3. FeedTypes'
      BY <1>1, <1>4, <1>5, <1>7, <1>8, <1>14, <2>1, <2>2 DEF FeedInv, FeedTypes, TypeOK
    <2>4. PollFollowsCursor'
      BY <1>1, <1>14, <2>1 DEF PollFollowsCursor
    <2>5. s \in IdsOf(gated')
      <3>1. gated' # gated
        BY <1>4, <1>8, <1>14 DEF n
      <3>2. QED
        BY <1>11, <3>1
    <2>6. KnownIsGated'
      BY <1>1, <1>11, <1>14, <2>5 DEF FeedInv, KnownIsGated
    <2>7. NothingPassedOver'
      <3> SUFFICES ASSUME Len(signals) <= TailRows, faults = 0,
                          NEW i \in 1..lastProcessedLine + 1, signals[i] # Noise
                   PROVE  signals[i] \in IdsOf(gated')
        BY <1>1, <1>14 DEF NothingPassedOver
      <3>1. CASE i \in 1..lastProcessedLine
        BY <1>11, <3>1 DEF FeedInv, NothingPassedOver
      <3>2. CASE i = lastProcessedLine + 1
        BY <2>1, <2>5, <3>2 DEF s
      <3>3. QED
        BY <1>4, <3>1, <3>2
    <2>8. QED
      BY <1>9, <1>10, <1>12, <2>3, <2>4, <2>6, <2>7 DEF FeedInv
  <1>15. QED
    BY <1>2, <1>13, <1>14

(* The ids of the tail are known again after a restart of the gates.         *)
LEMMA RestartGatesStep ==
  ASSUME FeedInv, RestartGates
  PROVE  FeedInv'
PROOF
  <1> DEFINE rows == readJournal(gated)
  <1>1. /\ lastProcessedLine' = 0 /\ newRows' = <<>> /\ cooldowns' = [t \in Tokens |-> 0]
        /\ processedSignalIds' = IdsOf(rows) /\ gatedBefore' = Len(gated) /\ killSwitch' \in BOOLEAN
        /\ crashes' = crashes + 1
        /\ UNCHANGED <<now, signals, gated, orders, positions, processedLines, processedEnvIds, faults>>
    BY DEF RestartGates, executorVars
  <1>2. gated \in Seq(Gated) /\ Len(gated) \in Nat /\ crashes \in Nat
    BY DEF FeedInv, FeedTypes, TypeOK
  <1>3. /\ rows \in Seq(Gated) /\ Len(rows) \in 0..TailRows /\ Len(rows) <= Len(gated)
        /\ Len(rows) < Len(gated) => Len(rows) = TailRows
        /\ \A i \in 1..Len(rows) : /\ Len(gated) - Len(rows) + i \in 1..Len(gated)
                                   /\ rows[i] = gated[Len(gated) - Len(rows) + i]
    BY <1>2, TailFacts
  <1> HIDE DEF rows
  <1>4. IdsOf(rows) = {rows[i].id : i \in 1..Len(rows)} /\ IdsOf(gated) = {gated[i].id : i \in 1..Len(gated)}
    BY DEF IdsOf
  <1>5. \A i \in 1..Len(rows) : rows[i].id \in Signals
    <2>1. \A i \in 1..Len(rows) : rows[i] \in Gated
      BY <1>3
    <2>2. QED
      BY <2>1 DEF Gated
  <1>6. FeedTypes'
    <2>1. <<>> \in Seq(Signals \cup {Noise}) /\ Len(<<>>) = 0 /\ 0 \in 0..TailRows
      BY Bounds
    <2>2. [t \in Tokens |-> 0] \in [Tokens -> Nat]
      OBVIOUS
    <2>3. IdsOf(rows) \subseteq Signals
      BY <1>4, <1>5
    <2>4. Len(gated) \in 0..Len(gated) /\ crashes + 1 \in Nat
      BY <1>2
    <2>5. QED
      BY <1>1, <2>1, <2>2, <2>3, <2>4, Bounds DEF FeedInv, FeedTypes, TypeOK
  <1>7. TailKnown'
    <2> SUFFICES ASSUME NEW i \in 1..Len(gated), i > Len(gated) - TailRows
                 PROVE  gated[i].id \in IdsOf(rows)
      BY <1>1 DEF TailKnown
    <2> DEFINE k == i - (Len(gated) - Len(rows))
    <2>1. k \in 1..Len(rows) /\ Len(gated) - Len(rows) + k = i
      BY <1>2, <1>3, Bounds
    <2> HIDE DEF k
    <2>2. rows[k] = gated[i]
      BY <1>3, <2>1
    <2>3. QED
      BY <1>4, <2>1, <2>2
  <1>8. KnownIsGated'
    BY <1>1, <1>3, <1>4 DEF KnownIsGated
  <1>9. PollFollowsCursor' /\ NothingPassedOver'
    <2>1. signals \in Seq(Signals \cup {Noise}) /\ 0 + Len(<<>>) <= Len(signals)
      BY DEF FeedInv, FeedTypes, TypeOK
    <2>2. QED
      BY <1>1, <2>1 DEF PollFollowsCursor, NothingPassedOver
  <1>10. GatedOnce' /\ BuysKnown' /\ BoughtOnce'
    BY <1>1 DEF FeedInv, GatedOnce, BuysKnown, BoughtOnce
  <1>11. QED
    BY <1>6, <1>7, <1>8, <1>9, <1>10 DEF FeedInv
-----------------------------------------------------------------------------
(* The executor: what it buys of the tail it reads, each signal once.        *)
Order == [kind : {"buy", "sell"}, id : Signals]
Position == [kind : {"open", "closed"}, id : Signals]

Fresh(unread) == {i \in 1..Len(unread) : /\ unread[i].id \notin processedEnvIds
                                         /\ unread[i].verdict = "pass"}
Bought(unread) == Subsequence(unread, Fresh(unread))

(* The tail of the gated journal names a signal once, by GatedOnce.          *)
LEMMA BoughtFacts ==
  ASSUME FeedInv, NEW unread, unread = RowsAfter(readJournal(gated), processedLines),
         Len(readJournal(gated)) > processedLines
  PROVE  /\ Bought(unread) \in Seq(Gated) /\ Len(Bought(unread)) \in Nat
         /\ \A k \in 1..Len(Bought(unread)) : /\ Bought(unread)[k].id \in IdsOf(unread)
                                              /\ Bought(unread)[k].id \notin processedEnvIds
         /\ \A k, l \in 1..Len(Bought(unread)) : Bought(unread)[k].id = Bought(unread)[l].id => k = l
         /\ IdsOf(unread) \subseteq Signals
PROOF
  <1> DEFINE rows == readJournal(gated)
             d == Len(gated) - Len(rows) + processedLines
             b == Bought(unread)
  <1>1. gated \in Seq(Gated) /\ Len(gated) \in Nat /\ processedLines \in Nat
    BY Bounds DEF FeedInv, FeedTypes, TypeOK
  <1>2. /\ rows \in Seq(Gated) /\ Len(rows) \in 0..TailRows /\ Len(rows) <= Len(gated)
        /\ \A i \in 1..Len(rows) : /\ Len(gated) - Len(rows) + i \in 1..Len(gated)
                                   /\ rows[i] = gated[Len(gated) - Len(rows) + i]
    BY <1>1, TailFacts
  <1>a. Len(rows) > processedLines /\ unread = RowsAfter(rows, processedLines)
    OBVIOUS
  <1> HIDE DEF rows
  <1>3. /\ unread \in Seq(Gated) /\ Len(unread) = Len(rows) - processedLines
        /\ \A i \in 1..Len(rows) - processedLines : /\ processedLines + i \in 1..Len(rows)
                                                    /\ unread[i] = rows[processedLines + i]
    <2>1. processedLines \in 0..Len(rows)
      BY <1>1, <1>2, <1>a
    <2> DEFINE part == RowsAfter(rows, processedLines)
    <2>2. /\ part \in Seq(Gated) /\ Len(part) = Len(rows) - processedLines
          /\ \A i \in 1..Len(rows) - processedLines : /\ processedLines + i \in 1..Len(rows)
                                                      /\ part[i] = rows[processedLines + i]
      BY <1>2, <2>1, UnreadFacts
    <2>3. unread = part
      BY <1>a
    <2> HIDE DEF part
    <2>4. QED
      BY <2>2, <2>3
  <1>4. /\ d \in Nat /\ Len(unread) \in 0..TailRows
        /\ \A i \in 1..Len(unread) : d + i \in 1..Len(gated) /\ unread[i] = gated[d + i]
    <2>1. d \in Nat /\ Len(unread) \in 0..TailRows
      BY <1>1, <1>2, <1>3, <1>a, Bounds
    <2>2. \A i \in 1..Len(unread) : d + i = Len(gated) - Len(rows) + (processedLines + i)
      BY <1>1, <1>2
    <2>3. QED
      BY <1>2, <1>3, <2>1, <2>2
  <1> HIDE DEF d
  <1>5. \A i, j \in 1..Len(unread) : unread[i].id = unread[j].id => ~(i < j)
    <2> SUFFICES ASSUME NEW i \in 1..Len(unread), NEW j \in 1..Len(unread),
                        gated[d + i].id = gated[d + j].id, i < j
                 PROVE  FALSE
      BY <1>4
    <2>1. d + i \in 1..Len(gated) /\ d + j \in 1..Len(gated) /\ d + i < d + j
      BY <1>4
    <2>2. (d + j) - (d + i) > TailRows
      BY <2>1 DEF FeedInv, GatedOnce
    <2>3. QED
      BY <1>4, <2>2, Bounds
  <1>6. Fresh(unread) \in SUBSET (1..Len(unread))
    BY DEF Fresh
  <1>7. b \in Seq(Gated) /\ \E at : Places(at, unread, Fresh(unread))
    BY <1>3, <1>6, SubsequenceFacts DEF Bought
  <1>8. PICK at : Places(at, unread, Fresh(unread))
    BY <1>7
  <1>9. /\ \A k \in 1..Len(b) : at[k] \in Fresh(unread) /\ b[k] = unread[at[k]]
        /\ \A k, l \in 1..Len(b) : k < l => at[k] < at[l]
    BY <1>8 DEF Places, Bought
  <1> HIDE DEF b
  <1>10. \A k \in 1..Len(b) : /\ at[k] \in 1..Len(unread) /\ b[k].id = unread[at[k]].id
                              /\ b[k].id \notin processedEnvIds
    BY <1>9 DEF Fresh
  <1>11. \A k \in 1..Len(b) : b[k].id \in IdsOf(unread)
    BY <1>10 DEF IdsOf
  <1>12. Len(b) \in Nat
    BY <1>7
  <1>13. ASSUME NEW k \in 1..Len(b), NEW l \in 1..Len(b), b[k].id = b[l].id, k < l PROVE FALSE
    <2>1. at[k] < at[l] /\ unread[at[k]].id = unread[at[l]].id
      BY <1>9, <1>10, <1>13
    <2>2. at[k] \in 1..Len(unread) /\ at[l] \in 1..Len(unread)
      BY <1>10
    <2>3. QED
      BY <1>5, <2>1, <2>2
  <1>14. \A k, l \in 1..Len(b) : b[k].id = b[l].id => k = l
    <2> SUFFICES ASSUME NEW k \in 1..Len(b), NEW l \in 1..Len(b), b[k].id = b[l].id, k # l PROVE FALSE
      OBVIOUS
    <2>1. k < l \/ l < k
      BY <1>12
    <2>2. QED
      BY <1>13, <2>1
  <1>15. IdsOf(unread) \subseteq Signals
    <2>1. \A i \in 1..Len(unread) : unread[i] \in Gated
      <3>1. unread \in Seq(Gated)
        BY <1>3
      <3>2. QED
        BY ONLY <3>1
    <2>2. QED
      BY <2>1 DEF IdsOf, Gated
  <1>16. QED
    BY <1>7, <1>10, <1>11, <1>12, <1>14, <1>15 DEF b

LEMMA ReadGatedStep ==
  ASSUME FeedInv, ReadGated
  PROVE  FeedInv'
PROOF
  <1> DEFINE rows == readJournal(gated)
             unread == RowsAfter(rows, processedLines)
             b == Bought(unread)
             buys == [i \in 1..Len(b) |-> Row("buy", b[i].id)]
             opens == [i \in 1..Len(b) |-> Row("open", b[i].id)]
             n == Len(orders)
  <1>1. /\ Len(rows) > processedLines /\ processedLines' = Len(rows)
        /\ processedEnvIds' = processedEnvIds \cup IdsOf(unread)
        /\ orders' = orders \o buys /\ positions' = positions \o opens
        /\ UNCHANGED <<now, signals, gated, lastProcessedLine, newRows, processedSignalIds,
                       cooldowns, killSwitch, gatedBefore, crashes, faults>>
    BY DEF ReadGated, gateVars, boundVars, Bought, Fresh
  <1>2. /\ b \in Seq(Gated) /\ Len(b) \in Nat
        /\ \A k \in 1..Len(b) : b[k].id \in IdsOf(unread) /\ b[k].id \notin processedEnvIds
        /\ \A k, l \in 1..Len(b) : b[k].id = b[l].id => k = l
        /\ IdsOf(unread) \subseteq Signals
    BY <1>1, BoughtFacts
  <1>3. /\ gated \in Seq(Gated) /\ orders \in Seq(Order) /\ n \in Nat
        /\ positions \in Seq(Position) /\ processedEnvIds \subseteq Signals
    BY DEF FeedInv, FeedTypes, TypeOK, Order, Position
  <1>4. Len(rows) \in 0..TailRows
    BY <1>3, TailFacts
  <1> HIDE DEF rows, unread, b, n
  <1>5. \A k \in 1..Len(b) : b[k].id \in Signals
    BY <1>2
  <1>6. /\ buys \in Seq(Order) /\ Len(buys) = Len(b)
        /\ \A k \in 1..Len(b) : buys[k] = Row("buy", b[k].id)
    BY <1>2, <1>5 DEF Order, Row
  <1>7. opens \in Seq(Position)
    BY <1>2, <1>5 DEF Position, Row
  <1> HIDE DEF buys, opens
  <1>8. /\ orders' \in Seq(Order) /\ Len(orders') = n + Len(b)
        /\ \A i \in 1..n : orders'[i] = orders[i]
        /\ \A i \in 1..Len(orders') :
             i \notin 1..n => i - n \in 1..Len(b) /\ orders'[i] = Row("buy", b[i - n].id)
    <2> DEFINE all == orders \o buys
    <2>1. /\ all \in Seq(Order) /\ Len(all) = n + Len(b)
          /\ \A i \in 1..n : all[i] = orders[i]
          /\ \A i \in 1..Len(all) : i \notin 1..n => i - n \in 1..Len(b) /\ all[i] = buys[i - n]
      <3>1. buys \in Seq(Order) /\ Len(buys) = Len(b) /\ n = Len(orders) /\ orders \in Seq(Order)
        BY <1>3, <1>6 DEF n
      <3>2. /\ all \in Seq(Order) /\ Len(all) = Len(orders) + Len(buys)
            /\ \A i \in 1..Len(orders) : all[i] = orders[i]
            /\ \A i \in 1..Len(all) :
                 i \notin 1..Len(orders) => /\ i - Len(orders) \in 1..Len(buys)
                                            /\ all[i] = buys[i - Len(orders)]
        BY <3>1, JoinFacts, ZenonT(60)
      <3> HIDE DEF all
      <3>3. QED
        BY <3>1, <3>2
    <2>2. orders' = all
      BY <1>1
    <2> HIDE DEF all
    <2>3. QED
      BY <1>6, <2>1, <2>2
  <1>9. positions' \in Seq(Position)
    BY <1>1, <1>3, <1>7, JoinFacts
  <1>10. FeedTypes'
    BY <1>1, <1>2, <1>3, <1>4, <1>8, <1>9 DEF FeedInv, FeedTypes, TypeOK, Order, Position
  <1>11. \A i \in 1..Len(orders') : i \notin 1..n => i > n
    BY <1>3, <1>8
  <1>12. BuysKnown'
    <2> SUFFICES ASSUME NEW i \in 1..Len(orders'), i > Len(orders') - TailRows, orders'[i].kind = "buy"
                 PROVE  orders'[i].id \in processedEnvIds'
      BY DEF BuysKnown
    <2>1. CASE i \in 1..n
      <3>1. i > n - TailRows
        BY <1>2, <1>3, <1>8, <2>1, Bounds
      <3>2. QED
        BY <1>1, <1>8, <2>1, <3>1 DEF FeedInv, BuysKnown, n
    <2>2. CASE i \notin 1..n
      <3>1. i - n \in 1..Len(b) /\ orders'[i] = Row("buy", b[i - n].id)
        BY <1>8, <2>2
      <3>2. orders'[i].id = b[i - n].id
        BY <3>1 DEF Row
      <3>3. QED
        BY <1>1, <1>2, <3>1, <3>2
    <2>3. QED
      BY <2>1, <2>2
  <1>13. BoughtOnce'
    <2> SUFFICES ASSUME NEW i \in 1..Len(orders'), NEW j \in 1..Len(orders'), i < j,
                        orders'[i] = orders'[j], orders'[i].kind = "buy"
                 PROVE  j - i > TailRows
      BY DEF BoughtOnce
    <2>1. CASE i \in 1..n /\ j \in 1..n
      BY <1>8, <2>1 DEF FeedInv, BoughtOnce, n
    <2>2. CASE i \in 1..n /\ j \notin 1..n
      <3>1. orders[i].id \notin processedEnvIds /\ orders[i].kind = "buy"
        BY <1>2, <1>8, <2>2 DEF Row
      <3>2. ~(i > n - TailRows)
        BY <2>2, <3>1 DEF FeedInv, BuysKnown, n
      <3>3. QED
        BY <1>3, <1>11, <2>2, <3>2, Bounds
    <2>3. CASE i \notin 1..n /\ j \in 1..n
      BY <1>3, <1>11, <2>3
    <2>4. CASE i \notin 1..n /\ j \notin 1..n
      <3>1. b[i - n].id = b[j - n].id
        BY <1>8, <2>4 DEF Row
      <3>2. i - n = j - n
        BY <1>2, <1>8, <2>4, <3>1
      <3>3. QED
        BY <1>3, <3>2
    <2>5. QED
      BY <2>1, <2>2, <2>3, <2>4
  <1>14. /\ TailKnown' /\ GatedOnce' /\ PollFollowsCursor' /\ KnownIsGated' /\ NothingPassedOver'
    BY <1>1 DEF FeedInv, TailKnown, GatedOnce, PollFollowsCursor, KnownIsGated, NothingPassedOver
  <1>15. QED
    BY <1>10, <1>12, <1>13, <1>14 DEF FeedInv

LEMMA ExitStep ==
  ASSUME FeedInv, NEW t \in Tokens, Exit(t)
  PROVE  FeedInv'
PROOF
  <1>1. PICK p \in 1..Len(positions) :
          /\ orders' = Append(orders, Row("sell", positions[p].id))
          /\ positions' = Append(positions, Row("closed", positions[p].id))
    BY DEF Exit
  <1>2. UNCHANGED <<now, signals, gated, lastProcessedLine, newRows, processedSignalIds, cooldowns,
                    killSwitch, gatedBefore, processedLines, processedEnvIds, crashes, faults>>
    BY DEF Exit, gateVars, boundVars
  <1>3. /\ orders \in Seq(Order) /\ Len(orders) \in Nat /\ positions \in Seq(Position)
    BY DEF FeedInv, FeedTypes, TypeOK, Order, Position
  <1> DEFINE sale == Row("sell", positions[p].id)
             closed == Row("closed", positions[p].id)
  <1>4. sale \in Order /\ closed \in Position /\ sale.kind = "sell"
    <2>1. positions[p] \in Position
      BY <1>3
    <2>2. QED
      BY <2>1 DEF Order, Position, Row
  <1>5. orders' = Append(orders, sale) /\ positions' = Append(positions, closed)
    BY <1>1
  <1> HIDE DEF sale, closed
  <1>6. /\ orders' \in Seq(Order) /\ Len(orders') = Len(orders) + 1
        /\ orders'[Len(orders) + 1].kind = "sell"
        /\ \A i \in 1..Len(orders) : orders'[i] = orders[i]
    BY <1>3, <1>4, <1>5, JournalGrows
  <1>7. positions' \in Seq(Position)
    BY <1>3, <1>4, <1>5, JournalGrows
  <1>8. FeedTypes'
    BY <1>2, <1>6, <1>7 DEF FeedInv, FeedTypes, TypeOK, Order, Position
  <1>9. \A i \in 1..Len(orders') : orders'[i].kind = "buy" => i \in 1..Len(orders)
    BY <1>3, <1>6
  <1>10. BuysKnown'
    <2> SUFFICES ASSUME NEW i \in 1..Len(orders'), i > Len(orders') - TailRows,
                        orders'[i].kind = "buy"
                 PROVE  orders'[i].id \in processedEnvIds'
      BY DEF BuysKnown
    <2>1. i \in 1..Len(orders)
      BY <1>9
    <2>2. i > Len(orders) - TailRows
      <3>1. i \in Int
        OBVIOUS
      <3>2. QED
        BY <1>3, <1>6, <3>1, Bounds
    <2>3. orders[i].kind = "buy" /\ orders'[i] = orders[i] /\ processedEnvIds' = processedEnvIds
      BY <1>2, <1>6, <2>1
    <2>4. BuysKnown
      BY DEF FeedInv
    <2>5. QED
      BY <2>1, <2>2, <2>3, <2>4 DEF BuysKnown
  <1>11. BoughtOnce'
    BY <1>6, <1>9 DEF FeedInv, BoughtOnce
  <1>12. /\ TailKnown' /\ GatedOnce' /\ PollFollowsCursor' /\ KnownIsGated' /\ NothingPassedOver'
    BY <1>2 DEF FeedInv, TailKnown, GatedOnce, PollFollowsCursor, KnownIsGated, NothingPassedOver
  <1>13. QED
    BY <1>8, <1>10, <1>11, <1>12 DEF FeedInv

(* The buys of the tail are known again after a restart of the executor.     *)
LEMMA RestartExecutorStep ==
  ASSUME FeedInv, RestartExecutor
  PROVE  FeedInv'
PROOF
  <1> DEFINE rows == readJournal(orders)
  <1>1. /\ crashes' = crashes + 1 /\ processedLines' = 0 /\ processedEnvIds' = BuysIn(rows)
        /\ UNCHANGED <<now, signals, gated, lastProcessedLine, newRows, processedSignalIds,
                       cooldowns, killSwitch, gatedBefore, orders, positions, faults>>
    BY DEF RestartExecutor, gateVars
  <1>2. orders \in Seq(Order) /\ Len(orders) \in Nat /\ crashes \in Nat
    BY DEF FeedInv, FeedTypes, TypeOK, Order
  <1>3. /\ rows \in Seq(Order) /\ Len(rows) \in 0..TailRows /\ Len(rows) <= Len(orders)
        /\ Len(rows) < Len(orders) => Len(rows) = TailRows
        /\ \A i \in 1..Len(rows) : rows[i] = orders[Len(orders) - Len(rows) + i]
    BY <1>2, TailFacts
  <1> HIDE DEF rows
  <1>4. BuysIn(rows) \subseteq Signals
    <2>1. \A i \in 1..Len(rows) : rows[i] \in Order
      BY <1>3
    <2>2. QED
      BY <2>1 DEF BuysIn, Order
  <1>5. FeedTypes'
    BY <1>1, <1>2, <1>4, Bounds DEF FeedInv, FeedTypes, TypeOK
  <1>6. BuysKnown'
    <2> SUFFICES ASSUME NEW i \in 1..Len(orders), i > Len(orders) - TailRows, orders[i].kind = "buy"
                 PROVE  orders[i].id \in BuysIn(rows)
      BY <1>1 DEF BuysKnown
    <2> DEFINE k == i - (Len(orders) - Len(rows))
    <2>1. k \in 1..Len(rows) /\ Len(orders) - Len(rows) + k = i
      BY <1>2, <1>3, Bounds
    <2> HIDE DEF k
    <2>2. rows[k] = orders[i]
      BY <1>3, <2>1
    <2>3. QED
      BY <2>1, <2>2 DEF BuysIn
  <1>7. /\ TailKnown' /\ GatedOnce' /\ BoughtOnce' /\ PollFollowsCursor' /\ KnownIsGated'
        /\ NothingPassedOver'
    BY <1>1 DEF FeedInv, TailKnown, GatedOnce, BoughtOnce, PollFollowsCursor, KnownIsGated,
       NothingPassedOver
  <1>8. QED
    BY <1>5, <1>6, <1>7 DEF FeedInv
-----------------------------------------------------------------------------
LEMMA InitFeedInv == Init => FeedInv
PROOF
  <1> SUFFICES ASSUME Init PROVE FeedInv
    OBVIOUS
  <1>1. /\ <<>> \in Seq(Signals \cup {Noise}) /\ <<>> \in Seq(Gated) /\ Len(<<>>) = 0
        /\ <<>> \in Seq(Order) /\ <<>> \in Seq(Position)
        /\ 0 \in 0..TailRows /\ 0 \in 0..MaxTime /\ [t \in Tokens |-> 0] \in [Tokens -> Nat]
    BY Bounds
  <1>2. TypeOK
    BY <1>1 DEF Init, TypeOK, Order, Position
  <1>3. QED
    BY <1>1, <1>2, Bounds DEF Init, FeedInv, FeedTypes, TailKnown, GatedOnce, BuysKnown, BoughtOnce,
       PollFollowsCursor, KnownIsGated, NothingPassedOver

LEMMA NextFeedInv == FeedInv /\ [Next]_vars => FeedInv'
PROOF
  <1> SUFFICES ASSUME FeedInv, [Next]_vars PROVE FeedInv'
    OBVIOUS
  <1>1. CASE Tick
    <2>1. now' \in 0..MaxTime
      BY <1>1, Bounds DEF Tick, FeedInv, FeedTypes, TypeOK
    <2>2. QED
      BY <1>1, <2>1 DEF Tick, gateVars, executorVars, boundVars, FeedInv, FeedTypes, TypeOK, TailKnown,
         GatedOnce, BuysKnown, BoughtOnce, PollFollowsCursor, KnownIsGated, NothingPassedOver
  <1>2. CASE PublishNoise
    BY <1>2, PublishStep DEF PublishNoise
  <1>3. ASSUME NEW s \in Signals, Publish(s) PROVE FeedInv'
    BY <1>3, PublishStep DEF Publish
  <1>4. CASE Gates
    BY <1>4, PollStep, SkipRowStep, EvaluateStep DEF Gates
  <1>5. CASE ReadGated \/ RestartGates \/ RestartExecutor \/ \E t \in Tokens : Exit(t)
    BY <1>5, ReadGatedStep, RestartGatesStep, RestartExecutorStep, ExitStep
  <1>6. CASE UNCHANGED vars
    BY <1>6 DEF vars, gateVars, executorVars, boundVars, FeedInv, FeedTypes, TypeOK, TailKnown,
       GatedOnce, BuysKnown, BoughtOnce, PollFollowsCursor, KnownIsGated, NothingPassedOver
  <1>7. QED
    BY <1>1, <1>2, <1>3, <1>4, <1>5, <1>6 DEF Next

(* The inductive invariant of the feed: what each process remembers of the   *)
(* journal it writes covers the tail it could write again.                   *)
THEOREM FeedInvariant == Spec => []FeedInv
BY InitFeedInv, NextFeedInv, PTL DEF Spec

(* The cursors of both loops stay within a tail, and a restart or a failed   *)
(* append leaves every journal and every set of ids well formed.             *)
THEOREM FeedTypesHold == Spec => []TypeOK
PROOF
  <1>1. FeedInv => TypeOK
    BY DEF FeedInv, FeedTypes
  <1>2. QED
    BY <1>1, FeedInvariant, PTL

(* The gates write two verdicts on a signal only more than a tail apart,     *)
(* over all restarts and failed appends.                                     *)
THEOREM VerdictsOnce == Spec => []GatedOnce
PROOF
  <1>1. FeedInv => GatedOnce
    BY DEF FeedInv
  <1>2. QED
    BY <1>1, FeedInvariant, PTL

(* While the signals journal fits the tail and appends succeed, every signal *)
(* behind the cursor has its verdict, restarts included.                     *)
THEOREM NoSignalPassedOver == Spec => []NothingPassedOver
PROOF
  <1>1. FeedInv => NothingPassedOver
    BY DEF FeedInv
  <1>2. QED
    BY <1>1, FeedInvariant, PTL

(* The executor buys an envelope twice only more than a tail of orders       *)
(* apart, whatever restarts: the id set it rebuilds from its own journal and *)
(* the gates' verdicts are what that takes.                                  *)
THEOREM EnvelopesBoughtOnce == Spec => []BoughtOnce
PROOF
  <1>1. FeedInv => BoughtOnce
    BY DEF FeedInv
  <1>2. QED
    BY <1>1, FeedInvariant, PTL
=============================================================================
