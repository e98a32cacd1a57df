--------------------------- MODULE ScannerProofs ---------------------------
(***************************************************************************)
(* Proofs about the scanner: the slots of its TONAPI calls are the queue   *)
(* of slots that FifoSemaphore specifies, a jetton is audited once per     *)
(* window, and nothing an admin can mint is scored tradeable.              *)
(***************************************************************************)
EXTENDS Scanner, SubsequencesProofs

InSlots(j) == InQueue(j) \/ j \in fetching

SlotTypes ==
  /\ queue \in Seq(Jobs) /\ inflight \in 0..MaxConcurrent /\ gap \in BOOLEAN
  /\ timers \in 0..MaxTimers /\ fetching \subseteq Jobs /\ tries \in [Jobs -> 0..MaxAttempts]

(* The slots in use are counted, and nobody asks twice.                      *)
SlotsInv ==
  /\ SlotTypes
  /\ IsFiniteSet(fetching) /\ inflight = Cardinality(fetching)
  /\ Distinct(queue) /\ \A j \in fetching : ~InQueue(j)

TickTypes ==
  /\ phase \in [Ticks -> {"idle", "assets", "listing", "batches"}]
  /\ rest \in [Ticks -> Seq(Masters)] /\ todo \in [Ticks -> Seq(Masters)]
  /\ posting \subseteq Envelope

(* What a tick has asked for fits where it is: it lists before its batches,  *)
(* it visits while it works on a batch, and no jetton twice.                 *)
TicksInv ==
  /\ TickTypes
  /\ \A t \in Ticks :
       /\ InSlots(<<t, Listing>>) => phase[t] = "listing"
       /\ phase[t] \in {"assets", "listing"} => ~Underway(t)
       /\ phase[t] # "batches" => todo[t] = <<>>
       /\ Distinct(rest[t]) /\ Distinct(todo[t])
       /\ \A m \in Masters : Contains(todo[t], m) => ~InSlots(<<t, m>>)

(* The cache has one entry per jetton, and remembers every jetton visited    *)
(* within the window that it did not have to push out.                       *)
OneEntryEach(s) == \A i, j \in 1..Len(s) : s[i].master = s[j].master => i = j

SeenInv ==
  /\ seen \in Seq(Entry) /\ Len(seen) <= MaxEntries
  /\ visited \in [Masters -> 0..Ttl] /\ evicted \subseteq Masters
  /\ OneEntryEach(seen)
  /\ \A m \in Masters \ evicted :
       visited[m] < Ttl => \E i \in 1..Len(seen) : seen[i] = [master |-> m, age |-> visited[m]]

ScannerInv == SlotsInv /\ TicksInv /\ SeenInv /\ TradeableIsNotMintable /\ faults \in 0..MaxFaults
-----------------------------------------------------------------------------
LEMMA ConstantTypes ==
  /\ Ttl \in Nat /\ Ttl > 0 /\ MaxEntries \in Nat /\ MaxEntries > 0
  /\ MaxConcurrent \in Nat /\ MaxConcurrent > 0 /\ MaxAttempts \in Nat /\ MaxAttempts > 0
  /\ MaxTimers \in Nat /\ MaxTimers > 0 /\ BatchSize \in Nat /\ BatchSize > 0
  /\ MaxFaults \in Nat
PROOF
  <1>1. /\ Ttl \in Nat \ {0} /\ MaxEntries \in Nat \ {0} /\ MaxConcurrent \in Nat \ {0}
        /\ MaxAttempts \in Nat \ {0} /\ MaxTimers \in Nat \ {0} /\ BatchSize \in Nat \ {0}
        /\ MaxFaults \in Nat
    BY ZenonT(30), ScannerAssumption
  <1>2. QED
    BY <1>1

LEMMA JobTypes ==
  ASSUME NEW t \in Ticks
  PROVE  /\ <<t, Listing>> \in Jobs
         /\ \A m \in Masters : <<t, m>> \in Jobs /\ <<t, m>> # <<t, Listing>>
BY ScannerAssumption DEF Jobs
-----------------------------------------------------------------------------
(* The slots of tonapi.ts. *)
LEMMA SameCount == ASSUME NEW S PROVE Slots!Cardinality(S) = Cardinality(S)
BY Zenon DEF Slots!Cardinality, Cardinality

LEMMA ContainsTail ==
  ASSUME NEW S, NEW q \in Seq(S), q # <<>>, NEW j
  PROVE  Contains(q, j) <=> j = Head(q) \/ Contains(Tail(q), j)
PROOF
  <1>1. /\ Head(q) = q[1] /\ Len(q) \in Nat /\ Len(q) > 0
        /\ Tail(q) \in Seq(S) /\ Len(Tail(q)) = Len(q) - 1
        /\ \A i \in 1..Len(q) - 1 : Tail(q)[i] = q[i + 1]
    OBVIOUS
  <1>2. DOMAIN q = 1..Len(q) /\ DOMAIN Tail(q) = 1..Len(q) - 1
    BY <1>1
  <1>3. ASSUME Contains(q, j), j # Head(q) PROVE Contains(Tail(q), j)
    <2>1. PICK i \in 1..Len(q) : q[i] = j
      BY <1>2, <1>3 DEF Contains
    <2>2. i # 1
      BY <1>1, <1>3, <2>1
    <2>3. i - 1 \in 1..Len(q) - 1 /\ (i - 1) + 1 = i
      BY <1>1, <2>2
    <2>4. Tail(q)[i - 1] = j
      BY <1>1, <2>1, <2>3
    <2>5. QED
      BY <1>2, <2>3, <2>4 DEF Contains
  <1>4. ASSUME j = Head(q) PROVE Contains(q, j)
    <2>1. 1 \in DOMAIN q
      BY <1>1, <1>2
    <2>2. QED
      BY <1>1, <1>4, <2>1 DEF Contains
  <1>5. ASSUME Contains(Tail(q), j) PROVE Contains(q, j)
    <2>1. PICK i \in 1..Len(q) - 1 : Tail(q)[i] = j
      BY <1>2, <1>5 DEF Contains
    <2>2. i + 1 \in DOMAIN q /\ q[i + 1] = j
      BY <1>1, <1>2, <2>1
    <2>3. QED
      BY <2>2 DEF Contains
  <1>6. QED
    BY <1>3, <1>4, <1>5

LEMMA DrainStep ==
  ASSUME SlotsInv, NEW q \in Seq(Jobs), Distinct(q), \A j \in fetching : ~Contains(q, j),
         NEW n \in 0..MaxTimers, TryDrain(q, n), UNCHANGED gap
  PROVE  /\ SlotsInv' /\ Slots!Serve(q, fetching)
         /\ \A j \in Jobs : InSlots(j)' <=> Contains(q, j) \/ j \in fetching
PROOF
  <1> USE DEF SlotsInv, SlotTypes
  <1>1. CASE q = <<>> \/ inflight >= MaxConcurrent \/ gap
    <2>1. queue' = q /\ timers' \in {n, Timer(n)} /\ UNCHANGED <<inflight, fetching, tries>>
      BY <1>1 DEF TryDrain
    <2>2. timers' \in 0..MaxTimers
      BY <2>1, ConstantTypes DEF Timer
    <2>3. SlotsInv'
      BY <2>1, <2>2 DEF Distinct, InQueue, Contains
    <2>4. Slots!Serve(q, fetching)
      BY <2>1 DEF Slots!Serve
    <2>5. QED
      BY <2>1, <2>3, <2>4 DEF InSlots, InQueue, Contains
  <1>2. CASE ~(q = <<>> \/ inflight >= MaxConcurrent \/ gap)
    <2>0. q # <<>> /\ inflight < MaxConcurrent /\ ~gap
      BY <1>2, ConstantTypes
    <2>1. /\ queue' = Tail(q) /\ timers' = n
          /\ inflight' = inflight + 1 /\ fetching' = fetching \cup {Head(q)}
          /\ tries' = [tries EXCEPT ![Head(q)] = 1]
      BY <2>0, ConstantTypes DEF TryDrain
    <2>2. /\ Head(q) \in Jobs /\ Head(q) = q[1] /\ Len(q) \in Nat /\ Len(q) > 0
          /\ Tail(q) \in Seq(Jobs) /\ Len(Tail(q)) = Len(q) - 1
          /\ \A i \in 1..Len(q) - 1 : Tail(q)[i] = q[i + 1]
      BY <2>0
    <2>3. Head(q) \notin fetching
      <3>1. Contains(q, Head(q))
        BY <2>0, ContainsTail
      <3>2. QED
        BY <3>1
    <2>4. \A i \in 1..Len(Tail(q)) : i + 1 \in 1..Len(q) /\ Tail(q)[i] = q[i + 1]
      <3>1. \A i \in 1..Len(q) - 1 : i + 1 \in 1..Len(q)
        BY <2>2
      <3>2. QED
        BY <2>2, <3>1
    <2>5. \A j \in Jobs : Contains(q, j) <=> j = Head(q) \/ Contains(Tail(q), j)
      BY <2>0, ContainsTail
    <2>6. Distinct(Tail(q)) /\ ~Contains(Tail(q), Head(q))
      <3>1. ASSUME NEW i \in 1..Len(Tail(q)), NEW k \in 1..Len(Tail(q)), Tail(q)[i] = Tail(q)[k]
            PROVE  i = k
        <4>1. i + 1 = k + 1
          BY <2>4, <3>1 DEF Distinct
        <4>2. QED
          BY <2>2, <4>1
      <3>2. ASSUME NEW i \in 1..Len(Tail(q)) PROVE Tail(q)[i] # Head(q)
        <4>1. i + 1 # 1 /\ i + 1 \in 1..Len(q) /\ 1 \in 1..Len(q)
          BY <2>2, <2>4
        <4>2. QED
          BY <2>2, <2>4, <4>1 DEF Distinct
      <3>3. QED
        BY <2>2, <3>1, <3>2 DEF Distinct, Contains
    <2>7. /\ IsFiniteSet(fetching') /\ inflight' = Cardinality(fetching')
          /\ inflight' \in 0..MaxConcurrent
      <3>1. IsFiniteSet(fetching \cup {Head(q)})
            /\ Cardinality(fetching \cup {Head(q)}) = Cardinality(fetching) + 1
        BY <2>3, FS_AddElement
      <3>2. QED
        BY <2>0, <2>1, <3>1, ConstantTypes
    <2>8. tries' \in [Jobs -> 0..MaxAttempts]
      BY <2>1, <2>2, ConstantTypes
    <2>9. SlotTypes'
      BY <2>1, <2>2, <2>7, <2>8
    <2>10. \A j \in fetching' : ~InQueue(j)'
      BY <2>1, <2>2, <2>5, <2>6 DEF InQueue
    <2>11. SlotsInv'
      BY <2>1, <2>6, <2>7, <2>9, <2>10
    <2>12. Slots!Serve(q, fetching)
      <3>1. Cardinality(fetching) < MaxConcurrent
        BY <2>0
      <3>2. QED
        BY <2>0, <2>1, <3>1, SameCount DEF Slots!Serve, Slots!First
    <2>13. \A j \in Jobs : InSlots(j)' <=> Contains(q, j) \/ j \in fetching
      BY <2>1, <2>5 DEF InSlots, InQueue
    <2>14. QED
      BY <2>11, <2>12, <2>13
  <1>3. QED
    BY <1>1, <1>2

LEMMA AcquireStep ==
  ASSUME SlotsInv, NEW j \in Jobs, ~InSlots(j), AcquireSlot(j)
  PROVE  /\ SlotsInv' /\ Slots!Request(j)
         /\ \A k \in Jobs : InSlots(k)' <=> InSlots(k) \/ k = j
PROOF
  <1> DEFINE q == Append(queue, j)
  <1>1. /\ queue \in Seq(Jobs) /\ Len(queue) \in Nat /\ timers \in 0..MaxTimers
        /\ fetching \subseteq Jobs
    BY DEF SlotsInv, SlotTypes
  <1>2. /\ q \in Seq(Jobs) /\ Len(q) = Len(queue) + 1 /\ q[Len(queue) + 1] = j
        /\ \A i \in 1..Len(queue) : q[i] = queue[i]
    BY <1>1
  <1>3. TryDrain(q, timers) /\ UNCHANGED gap
    BY DEF AcquireSlot
  <1> HIDE DEF q
  <1>4. \A k \in Jobs : Contains(q, k) <=> InQueue(k) \/ k = j
    <2>1. \A i \in 1..Len(q) : i \in 1..Len(queue) \/ i = Len(queue) + 1
      BY <1>1, <1>2
    <2>2. 1..Len(queue) \subseteq 1..Len(q) /\ Len(queue) + 1 \in 1..Len(q)
      BY <1>1, <1>2
    <2>3. DOMAIN q = 1..Len(q) /\ DOMAIN queue = 1..Len(queue)
      BY <1>1, <1>2
    <2>4. QED
      BY <1>2, <2>1, <2>2, <2>3 DEF Contains, InQueue
  <1>5. \A i \in 1..Len(queue) : queue[i] # j
    BY <1>1 DEF InSlots, InQueue, Contains
  <1>6. Distinct(q)
    <2> SUFFICES ASSUME NEW i \in 1..Len(q), NEW k \in 1..Len(q), q[i] = q[k] PROVE i = k
      BY DEF Distinct
    <2>1. (i \in 1..Len(queue) \/ i = Len(queue) + 1) /\ (k \in 1..Len(queue) \/ k = Len(queue) + 1)
      BY <1>1, <1>2
    <2>2. QED
      BY <1>2, <1>5, <2>1 DEF SlotsInv, Distinct
  <1>7. \A k \in fetching : ~Contains(q, k)
    BY <1>1, <1>4 DEF SlotsInv, InSlots
  <1>8. /\ SlotsInv' /\ Slots!Serve(q, fetching)
        /\ \A k \in Jobs : InSlots(k)' <=> Contains(q, k) \/ k \in fetching
    BY <1>1, <1>2, <1>3, <1>6, <1>7, DrainStep
  <1>9. Slots!Request(j)
    BY <1>1, <1>5, <1>8 DEF Slots!Request, InSlots, q
  <1>10. QED
    BY <1>4, <1>8, <1>9 DEF InSlots

LEMMA ReleaseStep ==
  ASSUME SlotsInv, NEW j \in fetching, Release(j)
  PROVE  /\ SlotsInv' /\ Slots!Return(j)
         /\ \A k \in Jobs : InSlots(k)' <=> InSlots(k) /\ k # j
PROOF
  <1>1. /\ inflight' = inflight - 1 /\ fetching' = fetching \ {j} /\ gap' = TRUE
        /\ timers' = Timer(timers) /\ tries' = [tries EXCEPT ![j] = 0] /\ UNCHANGED queue
    BY DEF Release
  <1>2. SlotTypes /\ IsFiniteSet(fetching) /\ inflight = Cardinality(fetching) /\ ~InQueue(j)
    BY DEF SlotsInv
  <1>3. IsFiniteSet(fetching \ {j}) /\ Cardinality(fetching \ {j}) = Cardinality(fetching) - 1
        /\ Cardinality(fetching \ {j}) \in Nat
    BY <1>2, FS_RemoveElement, FS_CardinalityType
  <1>4. inflight' \in 0..MaxConcurrent
    BY <1>1, <1>2, <1>3, ConstantTypes DEF SlotTypes
  <1>5. timers' \in 0..MaxTimers
    BY <1>1, <1>2, ConstantTypes DEF SlotTypes, Timer
  <1>6. tries' \in [Jobs -> 0..MaxAttempts]
    BY <1>1, <1>2, ConstantTypes DEF SlotTypes
  <1>7. SlotTypes'
    BY <1>1, <1>2, <1>4, <1>5, <1>6 DEF SlotTypes
  <1>8. SlotsInv'
    BY <1>1, <1>2, <1>3, <1>7 DEF SlotsInv, InQueue
  <1>9. Slots!Return(j)
    BY <1>1 DEF Slots!Return, Slots!Serve
  <1>10. QED
    BY <1>1, <1>2, <1>8, <1>9 DEF InSlots, InQueue
-----------------------------------------------------------------------------
(* Sequences of jettons without duplicates. *)
LEMMA ContainsMember ==
  ASSUME NEW S, NEW s \in Seq(S), NEW x
  PROVE  Contains(s, x) <=> \E i \in 1..Len(s) : s[i] = x
BY DEF Contains

LEMMA TailDistinct ==
  ASSUME NEW S, NEW s \in Seq(S), s # <<>>, Distinct(s)
  PROVE  /\ Head(s) \in S /\ Contains(s, Head(s))
         /\ Tail(s) \in Seq(S) /\ Distinct(Tail(s))
         /\ \A x : Contains(Tail(s), x) => Contains(s, x) /\ x # Head(s)
PROOF
  <1>1. /\ Len(s) \in Nat /\ Len(s) > 0 /\ Head(s) = s[1] /\ s[1] \in S
        /\ Tail(s) \in Seq(S) /\ Len(Tail(s)) = Len(s) - 1
        /\ DOMAIN Tail(s) = 1..Len(s) - 1 /\ DOMAIN s = 1..Len(s)
    OBVIOUS
  <1>2. \A i \in 1..Len(s) - 1 : i + 1 \in 1..Len(s) /\ i + 1 # 1 /\ Tail(s)[i] = s[i + 1]
    BY <1>1
  <1>3. 1 \in 1..Len(s)
    BY <1>1
  <1>4. Distinct(Tail(s))
    <2> SUFFICES ASSUME NEW i \in 1..Len(s) - 1, NEW j \in 1..Len(s) - 1, Tail(s)[i] = Tail(s)[j]
                 PROVE  i = j
      BY <1>1 DEF Distinct
    <2>1. i + 1 = j + 1
      BY <1>2 DEF Distinct
    <2>2. QED
      BY <1>1, <2>1
  <1>5. ASSUME NEW x, Contains(Tail(s), x) PROVE Contains(s, x) /\ x # Head(s)
    <2>1. PICK i \in 1..Len(s) - 1 : s[i + 1] = x
      BY <1>1, <1>2, <1>5 DEF Contains
    <2>2. i + 1 \in 1..Len(s) /\ i + 1 # 1
      BY <1>2
    <2>3. QED
      BY <1>1, <1>3, <2>1, <2>2 DEF Contains, Distinct
  <1>6. QED
    BY <1>1, <1>3, <1>4, <1>5 DEF Contains

LEMMA BatchDistinct ==
  ASSUME NEW S, NEW s \in Seq(S), Distinct(s), NEW n \in 1..Len(s)
  PROVE  /\ SubSeq(s, 1, n) \in Seq(S) /\ Distinct(SubSeq(s, 1, n))
         /\ Drop(n, s) \in Seq(S) /\ Distinct(Drop(n, s))
PROOF
  <1>1. Len(s) \in Nat /\ n \in Nat /\ n > 0 /\ n <= Len(s)
    OBVIOUS
  <1>2. /\ SubSeq(s, 1, n) \in Seq(S) /\ Len(SubSeq(s, 1, n)) = n
        /\ \A i \in 1..n : SubSeq(s, 1, n)[i] = s[i]
    BY <1>1
  <1>3. Drop(n, s) = SubSeq(s, n + 1, Len(s))
    BY <1>1 DEF Drop
  <1>4. /\ SubSeq(s, n + 1, Len(s)) \in Seq(S) /\ Len(SubSeq(s, n + 1, Len(s))) = Len(s) - n
        /\ \A i \in 1..Len(s) - n : SubSeq(s, n + 1, Len(s))[i] = s[n + i]
    BY <1>1
  <1>5. Distinct(SubSeq(s, 1, n))
    <2>1. \A i \in 1..n : i \in 1..Len(s)
      BY <1>1
    <2>2. QED
      BY <1>2, <2>1 DEF Distinct
  <1>6. Distinct(Drop(n, s))
    <2> SUFFICES ASSUME NEW i \in 1..Len(s) - n, NEW j \in 1..Len(s) - n, s[n + i] = s[n + j]
                 PROVE  i = j
      BY <1>3, <1>4 DEF Distinct
    <2>1. n + i \in 1..Len(s) /\ n + j \in 1..Len(s)
      BY <1>1
    <2>2. n + i = n + j
      BY <2>1 DEF Distinct
    <2>3. QED
      BY <1>1, <2>2
  <1>7. QED
    BY <1>2, <1>3, <1>4, <1>5, <1>6

LEMMA MergedDistinct ==
  ASSUME NEW S, NEW s \in Seq(S), NEW views \in Seq(S), Distinct(s), Distinct(views)
  PROVE  LET new == {i \in 1..Len(views) : ~Contains(s, views[i])}
         IN  /\ s \o Subsequence(views, new) \in Seq(S)
             /\ Distinct(s \o Subsequence(views, new))
PROOF
  <1> DEFINE new == {i \in 1..Len(views) : ~Contains(s, views[i])}
             sub == Subsequence(views, new)
             all == s \o sub
  <1>1. new \in SUBSET (1..Len(views))
    OBVIOUS
  <1>2. sub \in Seq(S) /\ Len(sub) \in Nat
    <2> HIDE DEF new
    <2>1. sub \in Seq(S)
      BY <1>1, SubsequenceFacts
    <2>2. QED
      BY <2>1
  <1>3. PICK at : Places(at, views, new)
    <2> HIDE DEF new
    <2>1. QED
      BY <1>1, SubsequenceFacts
  <1>4. \A k \in 1..Len(sub) : at[k] \in 1..Len(views) /\ ~Contains(s, views[at[k]])
    BY <1>3 DEF Places
  <1> HIDE DEF sub
  <1>5. \A k, l \in 1..Len(sub) : sub[k] = sub[l] => k = l
    <2> SUFFICES ASSUME NEW k \in 1..Len(sub), NEW l \in 1..Len(sub), sub[k] = sub[l], k # l
                 PROVE  FALSE
      OBVIOUS
    <2>1. at[k] = at[l]
      BY <1>3, <1>4 DEF Distinct, Places, sub
    <2>2. (k < l => at[k] < at[l]) /\ (l < k => at[l] < at[k])
      BY <1>3 DEF Places, sub
    <2>3. at[k] \in Nat /\ at[l] \in Nat
      BY <1>4
    <2>4. k < l \/ l < k
      BY <1>2
    <2>5. QED
      BY <2>1, <2>2, <2>3, <2>4
  <1>6. /\ all \in Seq(S) /\ Len(all) = Len(s) + Len(sub) /\ Len(s) \in Nat
        /\ \A i \in 1..Len(s) : all[i] = s[i]
        /\ \A i \in 1..Len(all) : i \notin 1..Len(s) => i - Len(s) \in 1..Len(sub) /\ all[i] = sub[i - Len(s)]
    BY <1>2
  <1>7. \A i \in 1..Len(s), k \in 1..Len(sub) : s[i] # sub[k]
    BY <1>3, <1>4, ContainsMember DEF Places, sub
  <1> HIDE DEF all
  <1>8. ASSUME NEW i \in 1..Len(all), NEW j \in 1..Len(all), all[i] = all[j]
        PROVE  i = j
    <2>1. CASE i \in 1..Len(s) /\ j \in 1..Len(s)
      BY <1>6, <1>8, <2>1 DEF Distinct
    <2>2. CASE i \in 1..Len(s) /\ j \notin 1..Len(s)
      BY <1>6, <1>7, <1>8, <2>2
    <2>3. CASE i \notin 1..Len(s) /\ j \in 1..Len(s)
      BY <1>6, <1>7, <1>8, <2>3
    <2>4. CASE i \notin 1..Len(s) /\ j \notin 1..Len(s)
      <3>1. i - Len(s) = j - Len(s)
        BY <1>5, <1>6, <1>8, <2>4
      <3>2. QED
        BY <1>6, <3>1
    <2>5. QED
      BY <2>1, <2>2, <2>3, <2>4
  <1>9. QED
    BY <1>6, <1>8 DEF Distinct, sub, all
-----------------------------------------------------------------------------
(* The ticks.  A step that asks for nothing: ticks stay where they are or    *)
(* give up what they have not visited.                                       *)
SlotsStep == Slots!Next \/ UNCHANGED <<queue, fetching>>

UnderwayIn(t) == \E m \in Masters : \/ InSlots(<<t, m>>)
                                    \/ \E e \in posting : e.tick = t /\ e.master = m

LEMMA UnderwayMeans == ASSUME NEW t PROVE Underway(t) <=> UnderwayIn(t)
BY DEF Underway, UnderwayIn, InSlots

LEMMA CalmStep ==
  ASSUME TicksInv, UNCHANGED todo, posting' \subseteq Envelope,
         \A j \in Jobs : InSlots(j)' => InSlots(j),
         \A t \in Ticks : Underway(t)' => Underway(t),
         \/ UNCHANGED <<phase, rest>>
         \/ \E t \in Ticks : /\ ~Visiting /\ phase[t] \in {"idle", "batches"}
                             /\ phase' = [phase EXCEPT ![t] = "idle"]
                             /\ rest' = [rest EXCEPT ![t] = <<>>]
  PROVE  TicksInv'
PROOF
  <1>1. /\ phase \in [Ticks -> {"idle", "assets", "listing", "batches"}]
        /\ rest \in [Ticks -> Seq(Masters)] /\ todo \in [Ticks -> Seq(Masters)]
    BY DEF TicksInv, TickTypes
  <1>2. CASE UNCHANGED <<phase, rest>>
    <2>1. TickTypes'
      BY <1>1, <1>2 DEF TickTypes
    <2>2. \A t \in Ticks : InSlots(<<t, Listing>>)' => InSlots(<<t, Listing>>)
      BY JobTypes
    <2>3. \A t \in Ticks, m \in Masters : InSlots(<<t, m>>)' => InSlots(<<t, m>>)
      BY JobTypes
    <2>4. QED
      BY <1>2, <2>1, <2>2, <2>3 DEF TicksInv
  <1>3. ASSUME NEW t \in Ticks, ~Visiting, phase[t] \in {"idle", "batches"},
               phase' = [phase EXCEPT ![t] = "idle"], rest' = [rest EXCEPT ![t] = <<>>]
        PROVE  TicksInv'
    <2>1. \A u \in Ticks : todo[u] = <<>>
      BY <1>3 DEF Visiting
    <2>2. <<>> \in Seq(Masters) /\ Distinct(<<>>)
      BY DEF Distinct
    <2>3. \A u \in Ticks : /\ phase'[u] = IF u = t THEN "idle" ELSE phase[u]
                           /\ rest'[u] = IF u = t THEN <<>> ELSE rest[u]
      BY <1>1, <1>3
    <2>4. TickTypes'
      BY <1>1, <1>3, <2>2 DEF TickTypes
    <2>5. \A u \in Ticks : InSlots(<<u, Listing>>)' => phase[u] = "listing"
      BY JobTypes DEF TicksInv
    <2>6. \A u \in Ticks : Distinct(rest'[u]) /\ Distinct(todo'[u])
      BY <2>2, <2>3 DEF TicksInv
    <2>7. \A u \in Ticks, m \in Masters : ~Contains(todo'[u], m)
      BY <2>1 DEF Contains
    <2>8. ASSUME NEW u \in Ticks
          PROVE  /\ InSlots(<<u, Listing>>)' => phase'[u] = "listing"
                 /\ phase'[u] \in {"assets", "listing"} => ~Underway(u)'
                 /\ phase'[u] # "batches" => todo'[u] = <<>>
      BY <1>3, <2>1, <2>3, <2>5 DEF TicksInv
    <2>9. QED
      BY <2>4, <2>6, <2>7, <2>8 DEF TicksInv
  <1>4. QED
    BY <1>2, <1>3

LEMMA TickStartStep ==
  ASSUME SlotsInv, TicksInv, NEW t \in Ticks, TickStarts(t)
  PROVE  SlotsInv' /\ TicksInv' /\ SlotsStep
PROOF
  <1>1. /\ phase[t] = "idle" /\ ~Underway(t) /\ phase' = [phase EXCEPT ![t] = "assets"]
        /\ UNCHANGED <<rest, todo, queue, inflight, gap, timers, fetching, tries, posting>>
    BY DEF TickStarts, slotVars
  <1>2. SlotsInv' /\ SlotsStep
    BY <1>1 DEF SlotsInv, SlotTypes, SlotsStep, InQueue
  <1>3. TickTypes /\ phase \in [Ticks -> {"idle", "assets", "listing", "batches"}]
    BY DEF TicksInv, TickTypes
  <1>4. \A u \in Ticks : phase'[u] = IF u = t THEN "assets" ELSE phase[u]
    BY <1>1, <1>3
  <1>5. TickTypes'
    BY <1>1, <1>3 DEF TickTypes
  <1>6. \A j : InSlots(j)' <=> InSlots(j)
    BY <1>1 DEF InSlots, InQueue
  <1>7. \A u : Underway(u)' <=> Underway(u)
    BY <1>1 DEF Underway, InQueue
  <1>8. QED
    BY <1>1, <1>2, <1>4, <1>5, <1>6, <1>7 DEF TicksInv

LEMMA AssetsStep ==
  ASSUME SlotsInv, TicksInv, NEW t \in Ticks, AssetsListed(t)
  PROVE  SlotsInv' /\ TicksInv' /\ SlotsStep
PROOF
  <1>1. /\ phase[t] = "assets" /\ phase' = [phase EXCEPT ![t] = "listing"]
        /\ AcquireSlot(<<t, Listing>>) /\ UNCHANGED <<todo, posting>>
    BY DEF AssetsListed
  <1>2. PICK views \in Assets : rest' = [rest EXCEPT ![t] = views]
    BY DEF AssetsListed
  <1>3. views \in Seq(Masters) /\ Distinct(views)
    BY ScannerAssumption
  <1>4. /\ phase \in [Ticks -> {"idle", "assets", "listing", "batches"}]
        /\ rest \in [Ticks -> Seq(Masters)] /\ todo \in [Ticks -> Seq(Masters)]
        /\ posting \subseteq Envelope
    BY DEF TicksInv, TickTypes
  <1>5. ~InSlots(<<t, Listing>>) /\ ~Underway(t) /\ <<t, Listing>> \in Jobs
    BY <1>1, JobTypes DEF TicksInv
  <1>6. /\ SlotsInv' /\ Slots!Request(<<t, Listing>>)
        /\ \A j \in Jobs : InSlots(j)' <=> InSlots(j) \/ j = <<t, Listing>>
    BY <1>1, <1>5, AcquireStep
  <1>7. SlotsStep
    BY <1>5, <1>6 DEF SlotsStep, Slots!Next
  <1>8. \A u \in Ticks : /\ phase'[u] = IF u = t THEN "listing" ELSE phase[u]
                         /\ rest'[u] = IF u = t THEN views ELSE rest[u]
    BY <1>1, <1>2, <1>4
  <1>9. TickTypes'
    BY <1>1, <1>2, <1>3, <1>4 DEF TickTypes
  <1>10. \A u \in Ticks, m \in Masters : InSlots(<<u, m>>)' <=> InSlots(<<u, m>>)
    <2> SUFFICES ASSUME NEW u \in Ticks, NEW m \in Masters
                 PROVE  InSlots(<<u, m>>)' <=> InSlots(<<u, m>>)
      OBVIOUS
    <2>1. <<u, m>> \in Jobs /\ <<u, m>> # <<t, Listing>>
      BY ScannerAssumption DEF Jobs
    <2>2. QED
      BY <1>6, <2>1
  <1>11. \A u \in Ticks : Underway(u)' <=> Underway(u)
    BY <1>1, <1>10, UnderwayMeans DEF UnderwayIn, Underway, InSlots
  <1>12. \A u \in Ticks : u # t => (InSlots(<<u, Listing>>)' <=> InSlots(<<u, Listing>>))
    BY <1>6, JobTypes
  <1>13. QED
    BY <1>1, <1>3, <1>5, <1>6, <1>7, <1>8, <1>9, <1>10, <1>11, <1>12 DEF TicksInv

LEMMA JettonsStep ==
  ASSUME SlotsInv, TicksInv, NEW t \in Ticks, JettonsListed(t)
  PROVE  SlotsInv' /\ TicksInv' /\ SlotsStep
PROOF
  <1>1. /\ <<t, Listing>> \in fetching /\ Release(<<t, Listing>>)
        /\ phase' = [phase EXCEPT ![t] = "batches"] /\ UNCHANGED <<todo, posting>>
    BY DEF JettonsListed
  <1> DEFINE New(views) == {i \in 1..Len(views) : ~Contains(rest[t], views[i])}
  <1>2. PICK views \in Jettons : rest' = [rest EXCEPT ![t] = @ \o Subsequence(views, New(views))]
    BY DEF JettonsListed
  <1>3. views \in Seq(Masters) /\ Distinct(views)
    BY ScannerAssumption
  <1>4. /\ phase \in [Ticks -> {"idle", "assets", "listing", "batches"}]
        /\ rest \in [Ticks -> Seq(Masters)] /\ todo \in [Ticks -> Seq(Masters)]
        /\ posting \subseteq Envelope /\ Distinct(rest[t])
    BY DEF TicksInv, TickTypes
  <1> DEFINE merged == rest[t] \o Subsequence(views, New(views))
  <1>5. merged \in Seq(Masters) /\ Distinct(merged)
    BY <1>3, <1>4, MergedDistinct
  <1>6. rest' = [rest EXCEPT ![t] = merged]
    BY <1>2
  <1> HIDE DEF merged, New
  <1>7. InSlots(<<t, Listing>>) /\ phase[t] = "listing" /\ ~Underway(t) /\ todo[t] = <<>>
    BY <1>1 DEF InSlots, TicksInv
  <1>8. /\ SlotsInv' /\ Slots!Return(<<t, Listing>>)
        /\ \A j \in Jobs : InSlots(j)' <=> InSlots(j) /\ j # <<t, Listing>>
    BY <1>1, ReleaseStep
  <1>9. SlotsStep
    BY <1>8, JobTypes DEF SlotsStep, Slots!Next
  <1>10. \A u \in Ticks : /\ phase'[u] = IF u = t THEN "batches" ELSE phase[u]
                          /\ rest'[u] = IF u = t THEN merged ELSE rest[u]
    BY <1>1, <1>4, <1>6
  <1>11. TickTypes'
    BY <1>1, <1>4, <1>5, <1>6 DEF TickTypes
  <1>12. \A u \in Ticks : /\ InSlots(<<u, Listing>>)' => InSlots(<<u, Listing>>) /\ u # t
                          /\ \A m \in Masters : InSlots(<<u, m>>)' => InSlots(<<u, m>>)
    BY <1>8, JobTypes
  <1>13. \A u \in Ticks : Underway(u)' => Underway(u)
    BY <1>1, <1>12, UnderwayMeans DEF UnderwayIn, Underway, InSlots
  <1>14. QED
    BY <1>1, <1>5, <1>7, <1>8, <1>9, <1>10, <1>11, <1>12, <1>13 DEF TicksInv

LEMMA BatchStep ==
  ASSUME SlotsInv, TicksInv, NEW t \in Ticks, NextBatch(t)
  PROVE  SlotsInv' /\ TicksInv' /\ SlotsStep
PROOF
  <1> DEFINE n == IF Len(rest[t]) < BatchSize THEN Len(rest[t]) ELSE BatchSize
  <1>1. /\ phase[t] = "batches" /\ rest[t] # <<>> /\ ~Underway(t)
        /\ todo' = [todo EXCEPT ![t] = SubSeq(rest[t], 1, n)]
        /\ rest' = [rest EXCEPT ![t] = Drop(n, rest[t])]
        /\ UNCHANGED <<phase, queue, inflight, gap, timers, fetching, tries, posting>>
    BY DEF NextBatch, slotVars
  <1>2. /\ TickTypes /\ rest[t] \in Seq(Masters) /\ Distinct(rest[t])
        /\ rest \in [Ticks -> Seq(Masters)] /\ todo \in [Ticks -> Seq(Masters)]
    BY DEF TicksInv, TickTypes
  <1>3. n \in 1..Len(rest[t])
    BY <1>1, <1>2, ConstantTypes
  <1> HIDE DEF n
  <1>4. /\ SubSeq(rest[t], 1, n) \in Seq(Masters) /\ Distinct(SubSeq(rest[t], 1, n))
        /\ Drop(n, rest[t]) \in Seq(Masters) /\ Distinct(Drop(n, rest[t]))
    BY <1>2, <1>3, BatchDistinct
  <1>5. \A u \in Ticks : /\ todo'[u] = IF u = t THEN SubSeq(rest[t], 1, n) ELSE todo[u]
                         /\ rest'[u] = IF u = t THEN Drop(n, rest[t]) ELSE rest[u]
    BY <1>1, <1>2
  <1>6. TickTypes'
    BY <1>1, <1>2, <1>4 DEF TickTypes
  <1>7. SlotsInv' /\ SlotsStep
    BY <1>1 DEF SlotsInv, SlotTypes, SlotsStep, InQueue
  <1>8. (\A j : InSlots(j)' <=> InSlots(j)) /\ (\A u : Underway(u)' <=> Underway(u))
    BY <1>1 DEF InSlots, InQueue, Underway
  <1>9. \A m \in Masters : ~InSlots(<<t, m>>)
    BY <1>1 DEF Underway, InSlots
  <1>10. QED
    BY <1>1, <1>4, <1>5, <1>6, <1>7, <1>8, <1>9 DEF TicksInv

LEMMA TickEndStep ==
  ASSUME SlotsInv, TicksInv, ~Visiting, NEW t \in Ticks, TickEnds(t)
  PROVE  SlotsInv' /\ TicksInv' /\ SlotsStep
PROOF
  <1>1. /\ phase[t] = "batches" /\ rest[t] = <<>> /\ phase' = [phase EXCEPT ![t] = "idle"]
        /\ UNCHANGED <<rest, todo, queue, inflight, gap, timers, fetching, tries, posting>>
    BY DEF TickEnds, slotVars
  <1>2. SlotsInv' /\ SlotsStep
    BY <1>1 DEF SlotsInv, SlotTypes, SlotsStep, InQueue
  <1>3. (\A j : InSlots(j)' <=> InSlots(j)) /\ (\A u : Underway(u)' <=> Underway(u))
    BY <1>1 DEF InSlots, InQueue, Underway
  <1>4. rest \in [Ticks -> Seq(Masters)] /\ posting \subseteq Envelope
    BY DEF TicksInv, TickTypes
  <1>5. rest' = [rest EXCEPT ![t] = <<>>]
    BY <1>1, <1>4
  <1>6. QED
    BY <1>1, <1>2, <1>3, <1>4, <1>5, CalmStep

(* A step of a batch: the first of it is visited, or skipped.                *)
LEMMA SkipStep ==
  ASSUME SlotsInv, TicksInv, NEW t \in Ticks, Skips(t)
  PROVE  SlotsInv' /\ TicksInv' /\ SlotsStep
PROOF
  <1>1. /\ todo[t] # <<>> /\ todo' = [todo EXCEPT ![t] = Tail(todo[t])]
        /\ UNCHANGED <<phase, rest, queue, inflight, gap, timers, fetching, tries, posting>>
    BY DEF Skips, slotVars
  <1>2. /\ TickTypes /\ todo[t] \in Seq(Masters) /\ Distinct(todo[t]) /\ todo \in [Ticks -> Seq(Masters)]
    BY DEF TicksInv, TickTypes
  <1>3. /\ Tail(todo[t]) \in Seq(Masters) /\ Distinct(Tail(todo[t]))
        /\ \A m : Contains(Tail(todo[t]), m) => Contains(todo[t], m)
    BY <1>1, <1>2, TailDistinct
  <1>4. \A u \in Ticks : todo'[u] = IF u = t THEN Tail(todo[t]) ELSE todo[u]
    BY <1>1, <1>2
  <1>5. TickTypes'
    BY <1>1, <1>2, <1>3 DEF TickTypes
  <1>6. SlotsInv' /\ SlotsStep
    BY <1>1 DEF SlotsInv, SlotTypes, SlotsStep, InQueue
  <1>7. (\A j : InSlots(j)' <=> InSlots(j)) /\ (\A u : Underway(u)' <=> Underway(u))
    BY <1>1 DEF InSlots, InQueue, Underway
  <1>8. phase[t] = "batches"
    BY <1>1 DEF TicksInv
  <1>9. QED
    BY <1>1, <1>3, <1>4, <1>5, <1>6, <1>7, <1>8 DEF TicksInv

LEMMA VisitStep ==
  ASSUME SlotsInv, TicksInv, NEW t \in Ticks, Visits(t)
  PROVE  SlotsInv' /\ TicksInv' /\ SlotsStep
PROOF
  <1> DEFINE m == Head(todo[t])
  <1>1. /\ todo[t] # <<>> /\ todo' = [todo EXCEPT ![t] = Tail(todo[t])]
        /\ AcquireSlot(<<t, m>>) /\ UNCHANGED <<phase, rest, posting>>
    BY DEF Visits
  <1>2. /\ TickTypes /\ todo[t] \in Seq(Masters) /\ Distinct(todo[t]) /\ todo \in [Ticks -> Seq(Masters)]
    BY DEF TicksInv, TickTypes
  <1>3. /\ m \in Masters /\ Contains(todo[t], m)
        /\ Tail(todo[t]) \in Seq(Masters) /\ Distinct(Tail(todo[t]))
        /\ \A k : Contains(Tail(todo[t]), k) => Contains(todo[t], k) /\ k # m
    BY <1>1, <1>2, TailDistinct
  <1> HIDE DEF m
  <1>4. <<t, m>> \in Jobs /\ ~InSlots(<<t, m>>)
    BY <1>3, JobTypes DEF TicksInv
  <1>5. /\ SlotsInv' /\ Slots!Request(<<t, m>>)
        /\ \A j \in Jobs : InSlots(j)' <=> InSlots(j) \/ j = <<t, m>>
    BY <1>1, <1>4, AcquireStep
  <1>6. SlotsStep
    BY <1>4, <1>5 DEF SlotsStep, Slots!Next
  <1>7. \A u \in Ticks : todo'[u] = IF u = t THEN Tail(todo[t]) ELSE todo[u]
    BY <1>1, <1>2
  <1>8. TickTypes'
    BY <1>1, <1>2, <1>3 DEF TickTypes
  <1>9. \A u \in Ticks :
          /\ InSlots(<<u, Listing>>)' => InSlots(<<u, Listing>>)
          /\ \A k \in Masters : InSlots(<<u, k>>)' => InSlots(<<u, k>>) \/ (u = t /\ k = m)
    <2>1. ASSUME NEW u \in Ticks, InSlots(<<u, Listing>>)' PROVE InSlots(<<u, Listing>>)
      <3>1. <<u, Listing>> \in Jobs /\ <<u, Listing>> # <<t, m>>
        BY <1>3, JobTypes
      <3>2. QED
        BY <1>5, <2>1, <3>1
    <2>2. QED
      BY <1>5, <2>1, JobTypes
  <1>10. phase[t] = "batches"
    BY <1>1 DEF TicksInv
  <1>11. \A u \in Ticks : u # t /\ Underway(u)' => Underway(u)
    BY <1>1, <1>9, UnderwayMeans DEF UnderwayIn, Underway, InSlots
  <1>12. ASSUME NEW u \in Ticks
         PROVE  /\ InSlots(<<u, Listing>>)' => phase'[u] = "listing"
                /\ phase'[u] \in {"assets", "listing"} => ~Underway(u)'
                /\ phase'[u] # "batches" => todo'[u] = <<>>
                /\ Distinct(rest'[u]) /\ Distinct(todo'[u])
    BY <1>1, <1>3, <1>7, <1>9, <1>10, <1>11 DEF TicksInv
  <1>13. ASSUME NEW u \in Ticks, NEW k \in Masters, Contains(todo'[u], k)
         PROVE  ~InSlots(<<u, k>>)'
    <2>1. Contains(todo[u], k) /\ ~(u = t /\ k = m)
      BY <1>3, <1>7, <1>13
    <2>2. QED
      BY <1>9, <2>1 DEF TicksInv
  <1>14. QED
    BY <1>5, <1>6, <1>8, <1>12, <1>13 DEF TicksInv

LEMMA ScoreType ==
  ASSUME NEW m \in Masters, NEW a \in Pools
  PROVE  /\ Soft(Detail[m], Liquidity(a)) \in 0..100
         /\ Soft(Detail[m], Liquidity(a)) >= TradeFloor
              => LET d == Detail[m] IN ~d.admin \/ ~d.mintable \/ Whitelisted(d)
PROOF
  <1> DEFINE d == Detail[m]
             l == Liquidity(a)
  <1>1. HoldersDeduction(d.holders) \in {0, 5, 10, 15, 20}
    BY DEF HoldersDeduction
  <1>2. LiquidityDeduction(l) \in {0, 5, 10}
    BY DEF LiquidityDeduction
  <1> HIDE DEF d, l
  <1>3. /\ Risk(d, l) \in Nat /\ Risk(d, l) >= 15
        /\ ~Renounced(d) => Risk(d, l) >= 40
    <2> DEFINE r == IF Renounced(d) THEN 0 ELSE 25
               k == IF Locked(d) THEN 0 ELSE 30
               h == IF Honeypot(d) THEN 40 ELSE 0
    <2>1. r \in {0, 25} /\ k \in {0, 30} /\ h \in {0, 40} /\ (~Renounced(d) => r = 25)
      OBVIOUS
    <2>2. Risk(d, l) = r + k + h + HoldersDeduction(d.holders) + 15 + LiquidityDeduction(l)
      BY DEF Risk
    <2> HIDE DEF r, k, h
    <2>3. QED
      BY <1>1, <1>2, <2>1, <2>2
  <1>4. Soft(d, l) \in 0..100 /\ (~Renounced(d) => Soft(d, l) < 70)
    BY <1>3 DEF Soft
  <1>5. Soft(d, l) >= TradeFloor => Renounced(d)
    BY <1>4 DEF TradeFloor
  <1>6. QED
    BY <1>4, <1>5 DEF Renounced, d, l

LEMMA AnswerStep ==
  ASSUME SlotsInv, TicksInv, NEW t \in Ticks, NEW m \in Masters, AuditAnswers(t, m)
  PROVE  SlotsInv' /\ TicksInv' /\ SlotsStep
PROOF
  <1>1. <<t, m>> \in fetching /\ Release(<<t, m>>) /\ UNCHANGED <<phase, rest, todo>>
    BY DEF AuditAnswers, tickVars
  <1>2. PICK a \in Pools : posting' = posting \cup
                 {[tick |-> t, master |-> m, soft |-> Soft(Detail[m], Liquidity(a))]}
    BY DEF AuditAnswers
  <1>3. posting' \subseteq Envelope
    BY <1>2, ScoreType DEF TicksInv, TickTypes, Envelope
  <1>4. /\ SlotsInv' /\ Slots!Return(<<t, m>>)
        /\ \A j \in Jobs : InSlots(j)' <=> InSlots(j) /\ j # <<t, m>>
    BY <1>1, ReleaseStep
  <1>5. SlotsStep
    BY <1>4, JobTypes DEF SlotsStep, Slots!Next
  <1>6. Underway(t)
    BY <1>1 DEF Underway
  <1>7. \A u \in Ticks : Underway(u)' => Underway(u)
    <2> SUFFICES ASSUME NEW u \in Ticks, Underway(u)', u # t PROVE Underway(u)
      BY <1>6
    <2>1. \A k \in Masters : InSlots(<<u, k>>)' => InSlots(<<u, k>>)
      BY <1>4, JobTypes
    <2>2. \A e \in posting' : e.tick = u => e \in posting
      BY <1>2
    <2>3. QED
      BY <2>1, <2>2, UnderwayMeans DEF UnderwayIn, Underway, InSlots
  <1>8. QED
    BY <1>1, <1>3, <1>4, <1>5, <1>7, CalmStep

LEMMA DropStep ==
  ASSUME SlotsInv, TicksInv, ~Visiting, NEW t \in Ticks, NEW m \in Masters, AuditDrops(t, m)
  PROVE  SlotsInv' /\ TicksInv' /\ SlotsStep
PROOF
  <1>1. <<t, m>> \in fetching /\ Release(<<t, m>>) /\ Appends(t) /\ UNCHANGED posting
    BY DEF AuditDrops
  <1>2. /\ SlotsInv' /\ Slots!Return(<<t, m>>)
        /\ \A j \in Jobs : InSlots(j)' <=> InSlots(j) /\ j # <<t, m>>
    BY <1>1, ReleaseStep
  <1>3. SlotsStep
    BY <1>2, JobTypes DEF SlotsStep, Slots!Next
  <1>4. phase[t] \in {"idle", "batches"}
    <2>1. Underway(t)
      BY <1>1 DEF Underway
    <2>2. QED
      BY <2>1 DEF TicksInv, TickTypes
  <1>5. UNCHANGED todo /\ \/ UNCHANGED <<phase, rest>>
                          \/ phase' = [phase EXCEPT ![t] = "idle"] /\ rest' = [rest EXCEPT ![t] = <<>>]
    BY <1>1 DEF Appends, TickFails, tickVars
  <1>6. posting' \subseteq Envelope
    BY <1>1 DEF TicksInv, TickTypes
  <1>7. \A u \in Ticks : Underway(u)' => Underway(u)
    <2> SUFFICES ASSUME NEW u \in Ticks, Underway(u)' PROVE Underway(u)
      OBVIOUS
    <2>1. \A k \in Masters : InSlots(<<u, k>>)' => InSlots(<<u, k>>)
      BY <1>2, JobTypes
    <2>2. QED
      BY <1>1, <2>1, UnderwayMeans DEF UnderwayIn, Underway, InSlots
  <1>8. QED
    BY <1>2, <1>3, <1>4, <1>5, <1>6, <1>7, CalmStep

LEMMA PostStep ==
  ASSUME SlotsInv, TicksInv, ~Visiting, NEW e \in posting, PostReturns(e)
  PROVE  SlotsInv' /\ TicksInv' /\ SlotsStep
PROOF
  <1>1. /\ posting' = posting \ {e} /\ Appends(e.tick)
        /\ UNCHANGED <<queue, inflight, gap, timers, fetching, tries>>
    BY DEF PostReturns, slotVars
  <1>2. e.tick \in Ticks /\ e.master \in Masters
    BY DEF TicksInv, TickTypes, Envelope
  <1>3. SlotsInv' /\ SlotsStep
    BY <1>1 DEF SlotsInv, SlotTypes, SlotsStep, InQueue
  <1>4. (\A j : InSlots(j)' <=> InSlots(j)) /\ (\A u : Underway(u)' => Underway(u))
    BY <1>1 DEF InSlots, InQueue, Underway
  <1>5. phase[e.tick] \in {"idle", "batches"}
    <2>1. Underway(e.tick)
      BY <1>2 DEF Underway
    <2>2. QED
      BY <1>2, <2>1 DEF TicksInv, TickTypes
  <1>6. UNCHANGED todo /\ \/ UNCHANGED <<phase, rest>>
                          \/ /\ phase' = [phase EXCEPT ![e.tick] = "idle"]
                             /\ rest' = [rest EXCEPT ![e.tick] = <<>>]
    BY <1>1 DEF Appends, TickFails, tickVars
  <1>7. posting' \subseteq Envelope
    BY <1>1 DEF TicksInv, TickTypes
  <1>8. QED
    BY <1>2, <1>3, <1>4, <1>5, <1>6, <1>7, CalmStep

LEMMA TimerStep ==
  ASSUME SlotsInv, TicksInv, TimerFires
  PROVE  SlotsInv' /\ TicksInv' /\ SlotsStep
PROOF
  <1>1. /\ timers > 0 /\ TryDrain(queue, timers - 1) /\ UNCHANGED <<phase, rest, todo, gap, posting>>
    BY DEF TimerFires, tickVars
  <1>2. /\ queue \in Seq(Jobs) /\ Distinct(queue) /\ timers - 1 \in 0..MaxTimers
        /\ \A j \in fetching : ~Contains(queue, j)
    BY <1>1, ConstantTypes DEF SlotsInv, SlotTypes, InQueue
  <1>3. /\ SlotsInv' /\ Slots!Serve(queue, fetching)
        /\ \A j \in Jobs : InSlots(j)' <=> InSlots(j)
    BY <1>1, <1>2, DrainStep DEF InSlots, InQueue
  <1>4. SlotsStep
    BY <1>3 DEF SlotsStep, Slots!Next, Slots!Grant, Slots!Serve
  <1>5. \A u \in Ticks : Underway(u)' => Underway(u)
    <2> SUFFICES ASSUME NEW u \in Ticks, Underway(u)' PROVE Underway(u)
      OBVIOUS
    <2>1. \A k \in Masters : InSlots(<<u, k>>)' => InSlots(<<u, k>>)
      BY <1>3, JobTypes
    <2>2. QED
      BY <1>1, <2>1, UnderwayMeans DEF UnderwayIn, Underway, InSlots
  <1>6. posting' \subseteq Envelope
    BY <1>1 DEF TicksInv, TickTypes
  <1>7. QED
    BY <1>1, <1>3, <1>4, <1>5, <1>6, CalmStep

LEMMA QuietSlots ==
  ASSUME SlotsInv, TicksInv, UNCHANGED <<phase, rest, todo, posting, queue, fetching, inflight, timers>>,
         gap' \in BOOLEAN, tries' \in [Jobs -> 0..MaxAttempts]
  PROVE  SlotsInv' /\ TicksInv' /\ SlotsStep
PROOF
  <1>1. SlotsInv' /\ SlotsStep
    BY DEF SlotsInv, SlotTypes, SlotsStep, InQueue
  <1>2. (\A j : InSlots(j)' <=> InSlots(j)) /\ (\A u : Underway(u)' <=> Underway(u))
    BY DEF InSlots, InQueue, Underway
  <1>3. posting' \subseteq Envelope
    BY DEF TicksInv, TickTypes
  <1>4. QED
    BY <1>1, <1>2, <1>3, CalmStep

LEMMA NextTicks ==
  ASSUME SlotsInv, TicksInv, [Next]_vars
  PROVE  SlotsInv' /\ TicksInv' /\ SlotsStep
PROOF
  <1> USE DEF vars, tickVars, slotVars
  <1>1. gap \in BOOLEAN /\ tries \in [Jobs -> 0..MaxAttempts]
    BY DEF SlotsInv, SlotTypes
  <1>2. CASE Clock \/ UNCHANGED vars
    BY <1>1, <1>2, QuietSlots DEF Clock
  <1>3. CASE GapElapses
    BY <1>1, <1>3, QuietSlots DEF GapElapses
  <1>4. ASSUME NEW j \in fetching, Retries(j)
        PROVE  SlotsInv' /\ TicksInv' /\ SlotsStep
    <2>1. j \in Jobs /\ tries[j] \in 0..MaxAttempts /\ tries[j] < MaxAttempts
          /\ tries' = [tries EXCEPT ![j] = tries[j] + 1]
      BY <1>1, <1>4 DEF Retries, SlotsInv, SlotTypes
    <2>2. tries[j] + 1 \in 0..MaxAttempts
      BY <2>1, ConstantTypes
    <2>3. tries' \in [Jobs -> 0..MaxAttempts]
      BY <1>1, <2>1, <2>2
    <2>4. QED
      BY <1>1, <1>4, <2>3, QuietSlots DEF Retries
  <1>5. CASE Visit
    BY <1>5, SkipStep, VisitStep DEF Visit
  <1>6. CASE ~Visiting /\ \E t \in Ticks : TickStarts(t)
    BY <1>6, TickStartStep
  <1>7. CASE ~Visiting /\ Work
    BY <1>3, <1>4, <1>7, AssetsStep, JettonsStep, BatchStep, TickEndStep, AnswerStep, DropStep,
       PostStep, TimerStep DEF Work
  <1>8. QED
    BY <1>2, <1>5, <1>6, <1>7 DEF Next
-----------------------------------------------------------------------------
(* SeenCache. *)
LEMMA CacheFilter ==
  ASSUME NEW s \in Seq(Entry), OneEntryEach(s), NEW I \in SUBSET (1..Len(s))
  PROVE  /\ Subsequence(s, I) \in Seq(Entry) /\ Len(Subsequence(s, I)) <= Len(s)
         /\ OneEntryEach(Subsequence(s, I))
         /\ \A k \in 1..Len(Subsequence(s, I)) : \E i \in I : Subsequence(s, I)[k] = s[i]
         /\ \A i \in I : \E k \in 1..Len(Subsequence(s, I)) : Subsequence(s, I)[k] = s[i]
PROOF
  <1> DEFINE sub == Subsequence(s, I)
  <1>1. sub \in Seq(Entry) /\ Len(sub) <= Len(s)
    BY SubsequenceFacts
  <1>2. PICK at : Places(at, s, I)
    BY SubsequenceFacts
  <1>3. \A k \in 1..Len(sub) : at[k] \in I /\ at[k] \in 1..Len(s) /\ sub[k] = s[at[k]]
    BY <1>2 DEF Places
  <1>4. ASSUME NEW k \in 1..Len(sub), NEW l \in 1..Len(sub), sub[k].master = sub[l].master
        PROVE  k = l
    <2>1. at[k] = at[l]
      BY <1>3, <1>4 DEF OneEntryEach
    <2>2. (k < l => at[k] < at[l]) /\ (l < k => at[l] < at[k])
      BY <1>2 DEF Places
    <2>3. at[k] \in Nat
      BY <1>3
    <2>4. QED
      BY <2>1, <2>2, <2>3
  <1>5. \A i \in I : \E k \in 1..Len(sub) : sub[k] = s[i]
    BY <1>2, <1>3 DEF Places
  <1>6. QED
    BY <1>1, <1>3, <1>4, <1>5 DEF OneEntryEach

LEMMA AddedFacts ==
  ASSUME SeenInv, NEW m \in Masters
  PROVE  LET A == Added(seen, m)
         IN  /\ A \in Seq(Entry) /\ Len(A) > 0 /\ A[Len(A)] = [master |-> m, age |-> 0]
             /\ OneEntryEach(A)
             /\ \A i \in 1..Len(A) - 1 : A[i].master # m /\ \E k \in 1..Len(seen) : A[i] = seen[k]
PROOF
  <1> DEFINE I == {i \in 1..Len(seen) : seen[i].master # m}
             w == Subsequence(seen, I)
             e == [master |-> m, age |-> 0]
             A == Append(w, e)
  <1>1. Without(seen, m) = w /\ Added(seen, m) = A
    BY DEF Without, Added
  <1>2. /\ w \in Seq(Entry) /\ OneEntryEach(w)
        /\ \A k \in 1..Len(w) : \E i \in I : w[k] = seen[i]
    <2>1. I \in SUBSET (1..Len(seen)) /\ seen \in Seq(Entry) /\ OneEntryEach(seen)
      BY DEF SeenInv
    <2> HIDE DEF I
    <2>2. QED
      BY <2>1, CacheFilter
  <1>3. e \in Entry /\ e.master = m
    BY ConstantTypes DEF Entry
  <1> HIDE DEF w, e
  <1>4. /\ A \in Seq(Entry) /\ Len(A) = Len(w) + 1 /\ Len(w) \in Nat /\ A[Len(w) + 1] = e
        /\ \A i \in 1..Len(w) : A[i] = w[i]
    BY <1>2, <1>3
  <1>5. \A i \in 1..Len(w) : w[i].master # m /\ \E k \in 1..Len(seen) : w[i] = seen[k]
    BY <1>2
  <1> HIDE DEF A
  <1>6. \A i \in 1..Len(A) : i \in 1..Len(w) \/ i = Len(w) + 1
    BY <1>4
  <1>7. OneEntryEach(A)
    <2> SUFFICES ASSUME NEW i \in 1..Len(A), NEW j \in 1..Len(A), A[i].master = A[j].master
                 PROVE  i = j
      BY DEF OneEntryEach
    <2>1. CASE i \in 1..Len(w) /\ j \in 1..Len(w)
      <3>1. w[i].master = w[j].master
        BY <1>4, <2>1
      <3>2. QED
        BY <1>2, <2>1, <3>1 DEF OneEntryEach
    <2>2. CASE i \in 1..Len(w) /\ j = Len(w) + 1
      BY <1>3, <1>4, <1>5, <2>2
    <2>3. CASE i = Len(w) + 1 /\ j \in 1..Len(w)
      BY <1>3, <1>4, <1>5, <2>3
    <2>4. QED
      BY <1>6, <2>1, <2>2, <2>3
  <1>8. Len(A) > 0 /\ A[Len(A)] = e
    BY <1>4
  <1>9. \A i \in 1..Len(A) - 1 : A[i].master # m /\ \E k \in 1..Len(seen) : A[i] = seen[k]
    <2>1. Len(A) - 1 = Len(w)
      BY <1>4
    <2>2. QED
      BY <1>4, <1>5, <2>1
  <1>10. QED
    BY <1>1, <1>4, <1>7, <1>8, <1>9 DEF e

LEMMA AddFacts ==
  ASSUME SeenInv, NEW m \in Masters
  PROVE  LET A == Add(seen, m)
         IN  /\ A \in Seq(Entry) /\ Len(A) <= MaxEntries /\ OneEntryEach(A)
             /\ \E i \in 1..Len(A) : A[i] = [master |-> m, age |-> 0]
             /\ \A i \in 1..Len(A) :
                  A[i].master # m => \E k \in 1..Len(seen) : A[i] = seen[k]
PROOF
  <1> DEFINE B == Added(seen, m)
             n == Len(B) - MaxEntries
             A == Drop(n, B)
  <1>1. A = Add(seen, m)
    BY DEF Add
  <1>2. /\ B \in Seq(Entry) /\ Len(B) \in Nat /\ Len(B) > 0 /\ B[Len(B)] = [master |-> m, age |-> 0]
        /\ OneEntryEach(B)
        /\ \A i \in 1..Len(B) - 1 : B[i].master # m /\ \E k \in 1..Len(seen) : B[i] = seen[k]
    BY AddedFacts
  <1> HIDE DEF B
  <1>3. \A i \in 1..Len(B) : B[i].master # m => \E k \in 1..Len(seen) : B[i] = seen[k]
    <2>1. \A i \in 1..Len(B) : i \in 1..Len(B) - 1 \/ i = Len(B)
      BY <1>2
    <2>2. B[Len(B)].master = m
      BY <1>2
    <2>3. QED
      BY <1>2, <2>1, <2>2
  <1>4. CASE n > 0
    <2>1. A = SubSeq(B, n + 1, Len(B))
      BY <1>4 DEF Drop
    <2>2. n \in Nat /\ n < Len(B) /\ Len(B) - n = MaxEntries
      BY <1>2, <1>4, ConstantTypes
    <2> HIDE DEF A, n
    <2>3. /\ SubSeq(B, n + 1, Len(B)) \in Seq(Entry)
           /\ Len(SubSeq(B, n + 1, Len(B))) = Len(B) - n
           /\ \A i \in 1..Len(B) - n : SubSeq(B, n + 1, Len(B))[i] = B[n + i]
      BY <1>2, <2>2
    <2>4. /\ A \in Seq(Entry) /\ Len(A) = MaxEntries
           /\ \A i \in 1..MaxEntries : A[i] = B[n + i]
      BY <2>1, <2>2, <2>3
    <2>5. \A i \in 1..MaxEntries : n + i \in 1..Len(B)
      BY <1>2, <2>2, ConstantTypes
    <2>6. MaxEntries \in 1..MaxEntries /\ n + MaxEntries = Len(B)
      BY <1>2, <2>2, ConstantTypes
    <2>7. OneEntryEach(A)
      <3> SUFFICES ASSUME NEW i \in 1..MaxEntries, NEW j \in 1..MaxEntries, B[n + i].master = B[n + j].master
                   PROVE  i = j
        BY <2>4 DEF OneEntryEach
      <3>1. n + i = n + j
        BY <1>2, <2>5 DEF OneEntryEach
      <3>2. QED
        BY <2>2, <3>1, ConstantTypes
    <2>8. QED
      BY <1>1, <1>2, <1>3, <2>4, <2>5, <2>6, <2>7, ConstantTypes
  <1>5. CASE ~(n > 0)
    <2>1. A = B /\ Len(B) <= MaxEntries /\ Len(B) \in 1..Len(B)
      BY <1>2, <1>5, ConstantTypes DEF Drop
    <2> HIDE DEF A, n
    <2>2. QED
      BY <1>1, <1>2, <1>3, <2>1
  <1>6. QED
    BY <1>4, <1>5

LEMMA NextSeen ==
  ASSUME SeenInv, TickTypes, [Next]_vars
  PROVE  SeenInv'
PROOF
  <1>1. /\ seen \in Seq(Entry) /\ Len(seen) <= MaxEntries /\ Len(seen) \in Nat
        /\ visited \in [Masters -> 0..Ttl] /\ evicted \subseteq Masters /\ OneEntryEach(seen)
    BY DEF SeenInv
  <1>2. ASSUME NEW t \in Ticks, TickStarts(t) PROVE SeenInv'
    <2> DEFINE I == {i \in 1..Len(seen) : Fresh(seen[i])}
    <2>1. seen' = Subsequence(seen, I) /\ UNCHANGED <<visited, evicted>>
      BY <1>2 DEF TickStarts, Prune, history
    <2>2. I \in SUBSET (1..Len(seen)) /\ \A i \in 1..Len(seen) : i \in I <=> seen[i].age < Ttl
      BY DEF Fresh
    <2> HIDE DEF I
    <2>3. /\ seen' \in Seq(Entry) /\ Len(seen') <= Len(seen) /\ OneEntryEach(seen')
          /\ \A i \in I : \E k \in 1..Len(seen') : seen'[k] = seen[i]
      BY <1>1, <2>1, <2>2, CacheFilter
    <2>4. Len(seen') <= MaxEntries
      BY <1>1, <2>3, ConstantTypes
    <2>5. ASSUME NEW m \in Masters \ evicted, visited[m] < Ttl
          PROVE  \E k \in 1..Len(seen') : seen'[k] = [master |-> m, age |-> visited[m]]
      <3>1. PICK i \in 1..Len(seen) : seen[i] = [master |-> m, age |-> visited[m]]
        BY <2>5 DEF SeenInv
      <3>2. i \in I
        BY <2>2, <2>5, <3>1
      <3>3. QED
        BY <2>3, <3>1, <3>2
    <2>6. QED
      BY <1>1, <2>1, <2>3, <2>4, <2>5 DEF SeenInv
  <1>3. ASSUME NEW t \in Ticks, Visits(t) PROVE SeenInv'
    <2> DEFINE m == Head(todo[t])
    <2>1. /\ todo[t] # <<>> /\ Marks(m) /\ visited' = [visited EXCEPT ![m] = 0]
      BY <1>3 DEF Visits
    <2>2. m \in Masters
      BY <2>1 DEF TickTypes
    <2> HIDE DEF m
    <2>3. /\ seen' = Add(seen, m)
          /\ evicted' = (evicted \cup (Remembered(seen) \ Remembered(seen'))) \ {m}
      BY <2>1 DEF Marks
    <2>4. /\ seen' \in Seq(Entry) /\ Len(seen') <= MaxEntries /\ OneEntryEach(seen')
          /\ \E i \in 1..Len(seen') : seen'[i] = [master |-> m, age |-> 0]
          /\ \A i \in 1..Len(seen') :
               seen'[i].master # m => \E k \in 1..Len(seen) : seen'[i] = seen[k]
      BY <2>2, <2>3, AddFacts
    <2>5. \A k \in Masters : visited'[k] = IF k = m THEN 0 ELSE visited[k]
      BY <1>1, <2>1
    <2>6. visited' \in [Masters -> 0..Ttl]
      <3>1. 0 \in 0..Ttl
        BY ConstantTypes
      <3>2. QED
        BY <1>1, <2>1, <3>1
    <2>7. /\ Remembered(seen) = {seen[i].master : i \in 1..Len(seen)}
          /\ Remembered(seen') = {seen'[i].master : i \in 1..Len(seen')}
      BY <1>1, <2>4 DEF Remembered
    <2>8. evicted' \subseteq Masters
      <3>1. \A i \in 1..Len(seen) : seen[i] \in Entry
        BY <1>1
      <3>2. \A i \in 1..Len(seen) : seen[i].master \in Masters
        BY <3>1 DEF Entry
      <3>3. QED
        BY <1>1, <2>3, <2>7, <3>2
    <2>9. ASSUME NEW k \in Masters \ evicted', visited'[k] < Ttl, k # m
          PROVE  \E i \in 1..Len(seen') : seen'[i] = [master |-> k, age |-> visited'[k]]
      <3>1. k \notin evicted /\ visited[k] < Ttl /\ visited'[k] = visited[k]
        BY <2>3, <2>5, <2>9
      <3>2. PICK i \in 1..Len(seen) : seen[i] = [master |-> k, age |-> visited[k]]
        BY <3>1 DEF SeenInv
      <3>3. k \in Remembered(seen)
        BY <2>7, <3>2
      <3>4. PICK j \in 1..Len(seen') : seen'[j].master = k
        BY <2>3, <2>7, <2>9, <3>3
      <3>5. PICK l \in 1..Len(seen) : seen'[j] = seen[l]
        BY <2>4, <2>9, <3>4
      <3>6. l = i
        BY <1>1, <3>2, <3>4, <3>5 DEF OneEntryEach
      <3>7. QED
        BY <3>1, <3>2, <3>5, <3>6
    <2>10. ASSUME NEW k \in Masters \ evicted', visited'[k] < Ttl
           PROVE  \E i \in 1..Len(seen') : seen'[i] = [master |-> k, age |-> visited'[k]]
      BY <2>2, <2>4, <2>5, <2>9, <2>10
    <2>11. QED
      BY <2>4, <2>6, <2>8, <2>10 DEF SeenInv
  <1>4. CASE Clock
    <2>1. /\ seen' = [i \in 1..Len(seen) |-> Older(seen[i])] /\ UNCHANGED evicted
          /\ visited' = [m \in Masters |-> IF visited[m] < Ttl THEN visited[m] + 1 ELSE Ttl]
      BY <1>1, <1>4 DEF Clock
    <2>2. \A e \in Entry : /\ Older(e) \in Entry /\ Older(e).master = e.master
                           /\ e.age < Ttl => Older(e) = [master |-> e.master, age |-> e.age + 1]
      BY ConstantTypes DEF Older, Entry
    <2>3. \A i \in 1..Len(seen) : seen[i] \in Entry /\ Older(seen[i]) \in Entry
      BY <1>1, <2>2
    <2>4. seen' \in Seq(Entry) /\ Len(seen') = Len(seen) /\ \A i \in 1..Len(seen) : seen'[i] = Older(seen[i])
      BY <1>1, <2>1, <2>3
    <2>5. OneEntryEach(seen')
      BY <1>1, <2>2, <2>3, <2>4 DEF OneEntryEach
    <2>6. visited' \in [Masters -> 0..Ttl]
      <3>1. \A m \in Masters : visited[m] < Ttl => visited[m] + 1 \in 0..Ttl
        BY <1>1, ConstantTypes
      <3>2. Ttl \in 0..Ttl
        BY ConstantTypes
      <3>3. QED
        BY <2>1, <3>1, <3>2
    <2>7. ASSUME NEW m \in Masters \ evicted, visited'[m] < Ttl
          PROVE  \E i \in 1..Len(seen') : seen'[i] = [master |-> m, age |-> visited'[m]]
      <3>1. visited[m] < Ttl /\ visited'[m] = visited[m] + 1
        BY <2>1, <2>7, ConstantTypes
      <3>2. PICK i \in 1..Len(seen) : seen[i] = [master |-> m, age |-> visited[m]]
        BY <3>1 DEF SeenInv
      <3>3. QED
        BY <2>2, <2>3, <2>4, <3>1, <3>2
    <2>8. QED
      BY <1>1, <2>1, <2>4, <2>5, <2>6, <2>7 DEF SeenInv
  <1>5. CASE UNCHANGED <<seen, visited, evicted>>
    BY <1>5 DEF SeenInv
  <1>6. QED
    BY <1>2, <1>3, <1>4, <1>5 DEF Next, Visit, Skips, Work, AssetsListed, JettonsListed, NextBatch,
       TickEnds, AuditAnswers, AuditDrops, Retries, PostReturns, TimerFires, GapElapses, history, vars
-----------------------------------------------------------------------------
(* All of it. *)
LEMMA NextScores ==
  ASSUME TradeableIsNotMintable, [Next]_vars
  PROVE  TradeableIsNotMintable'
PROOF
  <1>1. ASSUME NEW t \in Ticks, NEW m \in Masters, AuditAnswers(t, m)
        PROVE  TradeableIsNotMintable'
    <2>1. PICK a \in Pools : posting' = posting \cup
                 {[tick |-> t, master |-> m, soft |-> Soft(Detail[m], Liquidity(a))]}
      BY <1>1 DEF AuditAnswers
    <2>2. QED
      BY <2>1, ScoreType DEF TradeableIsNotMintable
  <1>2. CASE posting' \subseteq posting
    BY <1>2 DEF TradeableIsNotMintable
  <1>3. QED
    BY <1>1, <1>2 DEF Next, Clock, Visit, Skips, Visits, Work, TickStarts, AssetsListed, JettonsListed,
       NextBatch, TickEnds, AuditDrops, Retries, PostReturns, TimerFires, GapElapses, vars

LEMMA NextFaults ==
  ASSUME faults \in 0..MaxFaults, [Next]_vars
  PROVE  faults' \in 0..MaxFaults
PROOF
  <1>1. ASSUME NEW t, Appends(t) PROVE faults' \in 0..MaxFaults
    BY <1>1, ConstantTypes DEF Appends, TickFails
  <1>2. QED
    BY <1>1 DEF Next, Clock, Visit, Skips, Visits, Work, TickStarts, AssetsListed, JettonsListed,
       NextBatch, TickEnds, AuditAnswers, AuditDrops, Retries, PostReturns, TimerFires, GapElapses, vars

LEMMA InitScannerInv == Init => ScannerInv
PROOF
  <1> SUFFICES ASSUME Init PROVE ScannerInv
    OBVIOUS
  <1> USE DEF Init
  <1>1. /\ 0 \in 0..MaxConcurrent /\ 0 \in 0..MaxTimers /\ 0 \in 0..MaxAttempts /\ Ttl \in 0..Ttl
        /\ 0 \in 0..MaxFaults
    BY ConstantTypes
  <1>2. <<>> \in Seq(Jobs) /\ <<>> \in Seq(Masters) /\ <<>> \in Seq(Entry) /\ Len(<<>>) = 0
    OBVIOUS
  <1>3. Distinct(<<>>) /\ OneEntryEach(<<>>) /\ \A x : ~Contains(<<>>, x)
    BY DEF Distinct, OneEntryEach, Contains
  <1>4. SlotTypes
    BY <1>1, <1>2 DEF SlotTypes
  <1>5. SlotsInv
    BY <1>3, <1>4, FS_EmptySet DEF SlotsInv
  <1>6. TickTypes
    BY <1>2 DEF TickTypes
  <1>7. TicksInv
    BY <1>3, <1>6 DEF TicksInv, InSlots, InQueue, Underway
  <1>8. SeenInv
    BY <1>1, <1>2, <1>3, ConstantTypes DEF SeenInv
  <1>9. QED
    BY <1>1, <1>5, <1>7, <1>8 DEF ScannerInv, TradeableIsNotMintable

(* The inductive invariant of the scanner: calls hold their slots, ticks ask *)
(* for nothing twice, the cache remembers what was visited.                  *)
THEOREM ScannerInvariant == Spec => []ScannerInv
PROOF
  <1>1. Init => ScannerInv
    BY InitScannerInv
  <1>2. ScannerInv /\ [Next]_vars => ScannerInv'
    BY NextTicks, NextSeen, NextScores, NextFaults DEF ScannerInv, TicksInv
  <1>3. QED
    BY <1>1, <1>2, PTL DEF Spec

(* The variables of the scanner keep their types: four calls at a time, a    *)
(* cache that does not outgrow its limit, scores from 0 to 100.              *)
THEOREM ScannerTypes == Spec => []TypeOK
PROOF
  <1>1. ScannerInv => TypeOK
    BY DEF ScannerInv, TypeOK, SlotsInv, SlotTypes, TicksInv, TickTypes, SeenInv
  <1>2. QED
    BY <1>1, ScannerInvariant, PTL

(* score.ts: a jetton that its admin can still mint is scored tradeable only *)
(* when it is whitelisted.                                                   *)
THEOREM MintableIsNotTradeable == Spec => []TradeableIsNotMintable
PROOF
  <1>1. ScannerInv => TradeableIsNotMintable
    BY DEF ScannerInv
  <1>2. QED
    BY <1>1, ScannerInvariant, PTL

(* Who asks for a slot: a visit, or the listing of a tick. *)
LEMMA WhoAsks ==
  ASSUME SlotsInv, TicksInv, Next, NEW j \in Jobs, ~InSlots(j), InSlots(j)'
  PROVE  \E t \in Ticks : \/ Visits(t) /\ j = <<t, Head(todo[t])>>
                          \/ j = <<t, Listing>>
PROOF
  <1>1. ASSUME NEW t \in Ticks, Visits(t) PROVE j = <<t, Head(todo[t])>>
    <2> DEFINE k == Head(todo[t])
    <2>1. todo[t] # <<>> /\ AcquireSlot(<<t, k>>)
      BY <1>1 DEF Visits
    <2>2. k \in Masters /\ Contains(todo[t], k)
      BY <2>1, TailDistinct DEF TicksInv, TickTypes
    <2> HIDE DEF k
    <2>3. <<t, k>> \in Jobs /\ ~InSlots(<<t, k>>)
      BY <2>2, JobTypes DEF TicksInv
    <2>4. InSlots(j)' <=> InSlots(j) \/ j = <<t, k>>
      BY <2>1, <2>3, AcquireStep
    <2>5. QED
      BY <2>4 DEF k
  <1>2. ASSUME NEW t \in Ticks, AssetsListed(t) PROVE j = <<t, Listing>>
    <2>1. phase[t] = "assets" /\ AcquireSlot(<<t, Listing>>)
      BY <1>2 DEF AssetsListed
    <2>2. <<t, Listing>> \in Jobs /\ ~InSlots(<<t, Listing>>)
      BY <2>1, JobTypes DEF TicksInv
    <2>3. InSlots(j)' <=> InSlots(j) \/ j = <<t, Listing>>
      BY <2>1, <2>2, AcquireStep
    <2>4. QED
      BY <2>3
  <1>3. ASSUME NEW k \in fetching, Release(k) PROVE FALSE
    <2>1. InSlots(j)' <=> InSlots(j) /\ j # k
      BY <1>3, ReleaseStep
    <2>2. QED
      BY <2>1
  <1>4. ASSUME TimerFires PROVE FALSE
    <2>1. timers > 0 /\ TryDrain(queue, timers - 1) /\ UNCHANGED gap
      BY <1>4 DEF TimerFires
    <2>2. /\ queue \in Seq(Jobs) /\ Distinct(queue) /\ timers - 1 \in 0..MaxTimers
          /\ \A k \in fetching : ~Contains(queue, k)
      BY <2>1, ConstantTypes DEF SlotsInv, SlotTypes, InQueue
    <2>3. InSlots(j)' <=> Contains(queue, j) \/ j \in fetching
      BY <2>1, <2>2, DrainStep
    <2>4. QED
      BY <2>3 DEF InSlots, InQueue
  <1>5. ASSUME UNCHANGED <<queue, fetching>> PROVE FALSE
    BY <1>5 DEF InSlots, InQueue
  <1>6. QED
    BY <1>1, <1>2, <1>3, <1>4, <1>5 DEF Next, Clock, Visit, Skips, Work, TickStarts, JettonsListed,
       NextBatch, TickEnds, AuditAnswers, AuditDrops, Retries, PostReturns, GapElapses, slotVars

(* pipeline.ts: a jetton is audited again only when its window has passed or *)
(* the cache had to push it out, however many ticks overlap.                 *)
THEOREM AuditedOncePerWindow == Spec => OncePerWindow
PROOF
  <1>1. ASSUME ScannerInv, [Next]_vars
        PROVE  [\A t \in Ticks, m \in Masters :
                  ~Audited(t, m) /\ Audited(t, m)' /\ m \notin evicted => visited[m] = Ttl]_vars
    <2> SUFFICES ASSUME Next, NEW t \in Ticks, NEW m \in Masters,
                        ~Audited(t, m), Audited(t, m)', m \notin evicted
                 PROVE  visited[m] = Ttl
      BY <1>1
    <2>1. SlotsInv /\ TicksInv /\ SeenInv /\ <<t, m>> \in Jobs
      BY <1>1, JobTypes DEF ScannerInv
    <2>2. ~InSlots(<<t, m>>) /\ InSlots(<<t, m>>)'
      BY DEF Audited, InSlots
    <2>3. PICK u \in Ticks : \/ Visits(u) /\ <<t, m>> = <<u, Head(todo[u])>>
                             \/ <<t, m>> = <<u, Listing>>
      BY <2>1, <2>2, WhoAsks
    <2>4. ~Has(seen, m)
      BY <2>3, JobTypes DEF Visits
    <2>5. ASSUME visited[m] < Ttl PROVE FALSE
      <3>1. PICK i \in 1..Len(seen) : seen[i] = [master |-> m, age |-> visited[m]]
        BY <2>1, <2>5 DEF SeenInv
      <3>2. i \in DOMAIN seen /\ Fresh(seen[i]) /\ seen[i].master = m
        BY <2>1, <2>5, <3>1 DEF Fresh, SeenInv
      <3>3. QED
        BY <2>4, <3>2 DEF Has
    <2>6. QED
      BY <2>1, <2>5, ConstantTypes DEF SeenInv
  <1>2. QED
    BY <1>1, ScannerInvariant, PTL DEF Spec, OncePerWindow

(* tonapi.ts: its slots are those of FifoSemaphore, step by step; that       *)
(* nobody waits for ever is left to the run.                                 *)
THEOREM SlotsSafety == Spec => Slots!Init /\ [][Slots!Next]_(Slots!vars)
PROOF
  <1>1. Init => Slots!Init
    BY DEF Init, Slots!Init
  <1>2. ScannerInv /\ [Next]_vars => [Slots!Next]_(Slots!vars)
    BY NextTicks DEF ScannerInv, SlotsStep, Slots!vars
  <1>3. QED
    BY <1>1, <1>2, ScannerInvariant, PTL DEF Spec
=============================================================================
