----------------------------- MODULE Dedupe_proof -----------------------------
(***************************************************************************)
(* Proofs about Dedupe, for every number of threads, ids and instants.     *)
(***************************************************************************)
EXTENDS Dedupe, TLAPS, SequenceTheorems

(* The lock section leaves the entries after the first n, and may put the  *)
(* call's own id behind them.                                              *)
Rest(n) == SubSeq(seen, n + 1, Len(seen))
Mine(t) == [id |-> call[t].id, at |-> call[t].now]
Hit(t, n) == /\ \E i \in 1..Len(Rest(n)) : Rest(n)[i].id = call[t].id
             /\ seen' = Rest(n) /\ freshAt' = freshAt
Miss(t, n) == /\ \A i \in 1..Len(Rest(n)) : Rest(n)[i].id # call[t].id
              /\ seen' = Append(Rest(n), Mine(t))
              /\ freshAt' = [freshAt EXCEPT ![call[t].id] = call[t].now]

(* What Check does, as a choice of the number of entries it evicts. *)
LEMMA CheckCases ==
    ASSUME NEW t \in Threads, Check(t)
    PROVE  /\ InFlight(t)
           /\ call' = [call EXCEPT ![t] = NoId] /\ clock' = clock
           /\ \E n \in 0..Len(seen) : Evicted(n, call[t].now) /\ (Hit(t, n) \/ Miss(t, n))
  BY DEF Check, Hit, Miss, Rest, Mine

(* The entries that survive an eviction are those behind the evicted ones. *)
LEMMA RestEntries ==
    ASSUME TypeOK, NEW n \in 0..Len(seen)
    PROVE  /\ Rest(n) \in Seq(Entries)
           /\ Len(Rest(n)) = Len(seen) - n
           /\ \A i \in 1..(Len(seen) - n) : Rest(n)[i] = seen[i + n]
  BY DEF TypeOK, Rest

(* When the id is found, the survivors are the dict. *)
LEMMA HitEntries ==
    ASSUME TypeOK, NEW t \in Threads, NEW n \in 0..Len(seen), Hit(t, n)
    PROVE  /\ Len(seen') = Len(seen) - n
           /\ \A i \in 1..(Len(seen) - n) : seen'[i] = seen[i + n]
  BY RestEntries DEF Hit

(* Appending to the survivors keeps them in place and adds one at the end. *)
LEMMA MissEntries ==
    ASSUME TypeOK, NEW t \in Threads, InFlight(t), NEW n \in 0..Len(seen), Miss(t, n)
    PROVE  /\ Mine(t) \in Entries
           /\ seen' \in Seq(Entries)
           /\ Len(seen') = Len(seen) - n + 1
           /\ \A i \in 1..(Len(seen) - n) : seen'[i] = seen[i + n]
           /\ seen'[Len(seen) - n + 1] = Mine(t)
  <1>1. Mine(t) \in Entries
    BY DEF TypeOK, Mine, Entries, InFlight, NoId
  <1>2. Rest(n) \in Seq(Entries) /\ Len(Rest(n)) = Len(seen) - n
    BY RestEntries
  <1>3. seen' \in Seq(Entries)
    BY <1>1, <1>2, AppendProperties DEF Miss
  <1>4. Len(seen') = Len(seen) - n + 1
    <2>1. Len(Append(Rest(n), Mine(t))) = Len(Rest(n)) + 1
      BY <1>1, <1>2, AppendProperties
    <2> QED BY <2>1, <1>2 DEF Miss
  <1>5. \A i \in 1..(Len(seen) - n) : seen'[i] = seen[i + n]
    BY <1>1, <1>2, RestEntries, AppendProperties DEF Miss
  <1>6. seen'[Len(seen) - n + 1] = Mine(t)
    BY <1>1, <1>2, AppendProperties DEF Miss
  <1> QED BY <1>1, <1>3, <1>4, <1>5, <1>6

(* The dict, the calls in flight and the verdicts keep their types through   *)
(* every clock reading, lock section and tick (dedupe.py:30-45).             *)
THEOREM TypeCorrect == Spec => []TypeOK
<1> USE ConstantsAssumption
<1>1. Init => TypeOK
  BY DEF Init, TypeOK, Times
<1>2. TypeOK /\ [Next]_vars => TypeOK'
  <2> SUFFICES ASSUME TypeOK, [Next]_vars PROVE TypeOK'
    OBVIOUS
  <2>1. ASSUME NEW t \in Threads, Check(t) PROVE TypeOK'
    <3>1. PICK n \in 0..Len(seen) : Hit(t, n) \/ Miss(t, n)
      BY <2>1, CheckCases
    <3>2. InFlight(t) /\ call[t] \in [id : Ids, now : Times]
      BY <2>1, CheckCases DEF InFlight, TypeOK, NoId
    <3>3. seen' \in Seq(Entries)
      BY <3>1, <3>2, RestEntries, MissEntries DEF Hit
    <3>4. freshAt' \in [Ids -> Times \union {Never}]
      BY <3>1, <3>2 DEF TypeOK, Hit, Miss
    <3>5. call' \in [Threads -> [id : Ids, now : Times] \union {NoId}] /\ clock' \in Times
      BY <2>1, CheckCases DEF TypeOK
    <3> QED BY <3>3, <3>4, <3>5 DEF TypeOK
  <2>2. ASSUME NEW t \in Threads, NEW id \in Ids, ReadClock(t, id) PROVE TypeOK'
    BY <2>2 DEF ReadClock, TypeOK
  <2>3. CASE Tick
    BY <2>3 DEF Tick, TypeOK, Times
  <2>4. CASE UNCHANGED vars
    BY <2>4 DEF vars, TypeOK
  <2> QED BY <2>1, <2>2, <2>3, <2>4 DEF Next
<1> QED BY <1>1, <1>2, PTL DEF Spec

-------------------------------------------------------------------------------
(* The inductive form of RetryIsCaught: no reading is ahead of the clock, and *)
(* the entry of an id found new carries the reading it was found new at.      *)
ReadingsArePast == \A t \in Threads : InFlight(t) => call[t].now <= clock
EntryOfEachFresh ==
    \A id \in Ids : freshAt[id] # Never /\ clock <= freshAt[id] + TTL =>
        \E i \in 1..Len(seen) : seen[i].id = id /\ seen[i].at = freshAt[id]
RetryInv == ReadingsArePast /\ EntryOfEachFresh

LEMMA CheckKeepsRetryInv ==
    ASSUME TypeOK, RetryInv, NEW t \in Threads, Check(t)
    PROVE  RetryInv'
<1> USE ConstantsAssumption DEF RetryInv
<1>1. PICK n \in 0..Len(seen) : Evicted(n, call[t].now) /\ (Hit(t, n) \/ Miss(t, n))
  BY CheckCases
<1>2. /\ InFlight(t) /\ call[t].id \in Ids /\ call[t].now \in Times /\ call[t].now <= clock
      /\ clock' = clock /\ call' = [call EXCEPT ![t] = NoId] /\ clock \in Nat
  BY CheckCases DEF ReadingsArePast, InFlight, TypeOK, NoId, Times
<1>3. ReadingsArePast'
  BY <1>2 DEF ReadingsArePast, InFlight, NoId, TypeOK
<1>4. EntryOfEachFresh'
  <2> SUFFICES ASSUME NEW id \in Ids, freshAt'[id] # Never, clock <= freshAt'[id] + TTL
               PROVE  \E i \in 1..Len(seen') : seen'[i].id = id /\ seen'[i].at = freshAt'[id]
    BY <1>2 DEF EntryOfEachFresh
  <2>1. CASE freshAt'[id] = freshAt[id]
    <3>1. PICK i \in 1..Len(seen) : seen[i].id = id /\ seen[i].at = freshAt[id]
      BY <2>1 DEF EntryOfEachFresh
    <3>2. freshAt[id] \in Times
      BY <2>1 DEF TypeOK
    <3>3. i > n
      BY <1>1, <1>2, <3>1, <3>2, <2>1 DEF Evicted, Times
    <3>4. i - n \in 1..(Len(seen) - n) /\ (i - n) + n = i
      BY <3>3 DEF TypeOK
    <3>5. i - n \in 1..Len(seen') /\ seen'[i - n] = seen[i]
      <4>1. CASE Hit(t, n)
        BY <3>4, <4>1, HitEntries
      <4>2. CASE Miss(t, n)
        <5>1. Len(seen') = Len(seen) - n + 1 /\ seen'[i - n] = seen[(i - n) + n]
          BY <1>2, <3>4, <4>2, MissEntries
        <5>2. Len(seen) \in Nat /\ n \in Nat /\ i \in Nat
          BY DEF TypeOK
        <5> QED BY <3>4, <5>1, <5>2
      <4> QED BY <1>1, <4>1, <4>2
    <3> QED BY <3>1, <3>5, <2>1
  <2>2. CASE freshAt'[id] # freshAt[id]
    <3>1. Miss(t, n) /\ id = call[t].id /\ freshAt'[id] = call[t].now
      BY <1>1, <2>2 DEF Hit, Miss, TypeOK
    <3>2. Len(seen) - n + 1 \in 1..Len(seen') /\ seen'[Len(seen) - n + 1] = Mine(t)
      BY <1>2, <3>1, MissEntries DEF TypeOK
    <3> QED BY <3>1, <3>2 DEF Mine
  <2> QED BY <2>1, <2>2
<1> QED BY <1>3, <1>4

LEMMA RetryInvariant == Spec => []RetryInv
<1> USE ConstantsAssumption DEF RetryInv
<1>1. Init => RetryInv
  BY DEF Init, ReadingsArePast, EntryOfEachFresh, InFlight, NoId
<1>2. TypeOK /\ RetryInv /\ [Next]_vars => RetryInv'
  <2> SUFFICES ASSUME TypeOK, RetryInv, [Next]_vars PROVE RetryInv'
    OBVIOUS
  <2>1. ASSUME NEW t \in Threads, Check(t) PROVE RetryInv'
    BY <2>1, CheckKeepsRetryInv
  <2>2. ASSUME NEW t \in Threads, NEW id \in Ids, ReadClock(t, id) PROVE RetryInv'
    BY <2>2 DEF ReadClock, TypeOK, ReadingsArePast, EntryOfEachFresh, InFlight, Times
  <2>3. CASE Tick
    <3>1. clock \in Nat /\ clock' = clock + 1 /\ UNCHANGED <<seen, call, freshAt>>
      BY <2>3 DEF Tick, TypeOK, Times
    <3>2. ReadingsArePast'
      <4> SUFFICES ASSUME NEW t \in Threads, InFlight(t) PROVE call[t].now <= clock + 1
        BY <3>1 DEF ReadingsArePast, InFlight
      <4>1. call[t].now \in Nat /\ call[t].now <= clock
        BY DEF TypeOK, InFlight, NoId, Times, ReadingsArePast
      <4> QED BY <3>1, <4>1
    <3>3. EntryOfEachFresh'
      <4> SUFFICES ASSUME NEW id \in Ids, freshAt[id] # Never, clock + 1 <= freshAt[id] + TTL
                   PROVE  \E i \in 1..Len(seen) : seen[i].id = id /\ seen[i].at = freshAt[id]
        BY <3>1 DEF EntryOfEachFresh
      <4>1. freshAt[id] \in Nat
        BY DEF TypeOK, Times
      <4> QED BY <3>1, <4>1 DEF EntryOfEachFresh
    <3> QED BY <3>2, <3>3
  <2>4. CASE UNCHANGED vars
    BY <2>4 DEF vars, ReadingsArePast, EntryOfEachFresh, InFlight
  <2> QED BY <2>1, <2>2, <2>3, <2>4 DEF Next
<1> QED BY <1>1, <1>2, TypeCorrect, PTL DEF Spec

(* A retry within ttl_seconds of the reading its message was found new at is *)
(* found in the store, whatever the order in which racing calls enter the    *)
(* lock: an eviction is never ahead of the clock (dedupe.py:30-45).          *)
THEOREM RetryCaught == Spec => []RetryIsCaught
<1>1. RetryInv => RetryIsCaught
  BY DEF RetryInv, EntryOfEachFresh, RetryIsCaught, SeenIds
<1> QED BY <1>1, RetryInvariant, PTL

-------------------------------------------------------------------------------
(* A call that waits at most MaxLag for the lock enters it with a reading at  *)
(* most that far behind the clock, and no entry is ahead of the clock.        *)
InOrder ==
    /\ \A t \in Threads : InFlight(t) => clock <= call[t].now + MaxLag
    /\ \A i \in 1..Len(seen) : seen[i].at <= clock
    /\ \A i, j \in 1..Len(seen) : i < j => seen[i].at <= seen[j].at + MaxLag

(* What one lock section leaves: the survivors in order, then perhaps its own. *)
LEMMA CheckOutcome ==
    ASSUME TypeOK, NEW t \in Threads, InFlight(t), NEW n \in 0..Len(seen),
           Hit(t, n) \/ Miss(t, n)
    PROVE  /\ Len(seen') \in Nat
           /\ \A i \in 1..Len(seen') :
                 \/ i + n \in 1..Len(seen) /\ seen'[i] = seen[i + n]
                 \/ i = Len(seen') /\ i + n = Len(seen) + 1 /\ seen'[i].at = call[t].now
<1>1. Len(seen) \in Nat /\ n \in Nat /\ n <= Len(seen)
  BY DEF TypeOK
<1>2. CASE Hit(t, n)
  BY <1>1, <1>2, HitEntries
<1>3. CASE Miss(t, n)
  <2>1. /\ Len(seen') = Len(seen) - n + 1
        /\ \A i \in 1..(Len(seen) - n) : seen'[i] = seen[i + n]
        /\ seen'[Len(seen) - n + 1] = Mine(t)
    BY <1>3, MissEntries
  <2>2. Mine(t).at = call[t].now
    BY DEF Mine
  <2> QED BY <1>1, <2>1, <2>2
<1> QED BY <1>2, <1>3

LEMMA LagAdds ==
    ASSUME NEW a \in Nat, NEW b \in Nat, NEW now \in Nat, NEW ttl \in Nat, NEW lag \in Nat,
           a >= now - ttl, a <= b + lag
    PROVE  b >= now - ttl - lag
  OBVIOUS

LEMMA LagOrder == Spec => []InOrder
<1> USE ConstantsAssumption
<1>1. Init => InOrder
  BY DEF Init, InOrder, InFlight, NoId
<1>2. TypeOK /\ RetryInv /\ InOrder /\ [Next]_vars => InOrder'
  <2> SUFFICES ASSUME TypeOK, RetryInv, InOrder, [Next]_vars PROVE InOrder'
    OBVIOUS
  <2>0. clock \in Nat /\ \A i \in 1..Len(seen) : seen[i].at \in Nat
    <3>1. clock \in Nat /\ \A i \in 1..Len(seen) : seen[i] \in Entries
      BY DEF TypeOK, Times
    <3> QED BY <3>1 DEF Entries, Times
  <2>1. ASSUME NEW t \in Threads, Check(t) PROVE InOrder'
    <3>1. PICK n \in 0..Len(seen) : Hit(t, n) \/ Miss(t, n)
      BY <2>1, CheckCases
    <3>2. /\ InFlight(t) /\ clock' = clock /\ call[t].now \in Nat
          /\ call[t].now <= clock /\ clock <= call[t].now + MaxLag
      BY <2>1, CheckCases DEF InOrder, RetryInv, ReadingsArePast, InFlight, NoId, TypeOK, Times
    <3>3. \A i \in 1..Len(seen') :
            \/ i + n \in 1..Len(seen) /\ seen'[i] = seen[i + n]
            \/ i = Len(seen') /\ i + n = Len(seen) + 1 /\ seen'[i].at = call[t].now
      BY <3>1, <3>2, CheckOutcome
    <3>4. \A i \in 1..Len(seen') : seen'[i].at <= clock'
      BY <3>2, <3>3 DEF InOrder
    <3>5. \A i, j \in 1..Len(seen') : i < j => seen'[i].at <= seen'[j].at + MaxLag
      <4> SUFFICES ASSUME NEW i \in 1..Len(seen'), NEW j \in 1..Len(seen'), i < j
                   PROVE  seen'[i].at <= seen'[j].at + MaxLag
        OBVIOUS
      <4>0. i + n \in 1..Len(seen) /\ seen'[i] = seen[i + n]
        BY <3>3
      <4>1. CASE j + n \in 1..Len(seen) /\ seen'[j] = seen[j + n]
        <5>1. i + n < j + n
          OBVIOUS
        <5>2. seen[i + n].at <= seen[j + n].at + MaxLag
          BY <4>0, <4>1, <5>1 DEF InOrder
        <5> QED BY <4>0, <4>1, <5>2
      <4>2. CASE seen'[j].at = call[t].now
        <5>1. seen[i + n].at \in Nat /\ seen[i + n].at <= clock
          BY <2>0, <4>0 DEF InOrder
        <5> QED BY <2>0, <3>2, <4>0, <4>2, <5>1
      <4> QED BY <3>3, <4>1, <4>2
    <3>6. \A u \in Threads : InFlight(u)' => clock' <= call'[u].now + MaxLag
      BY <2>1, <3>2, CheckCases DEF InOrder, InFlight, NoId, TypeOK
    <3> QED BY <3>4, <3>5, <3>6 DEF InOrder
  <2>2. ASSUME NEW t \in Threads, NEW id \in Ids, ReadClock(t, id) PROVE InOrder'
    <3>1. /\ clock' = clock /\ seen' = seen /\ call'[t].now = clock
          /\ \A u \in Threads : u # t => call'[u] = call[u]
      BY <2>2 DEF ReadClock, TypeOK
    <3> QED BY <2>0, <3>1 DEF InOrder, InFlight
  <2>3. CASE Tick
    <3>1. /\ clock' = clock + 1 /\ UNCHANGED <<seen, call>>
          /\ \A t \in Threads : InFlight(t) => clock < call[t].now + MaxLag
      BY <2>3 DEF Tick
    <3>2. \A t \in Threads : InFlight(t) => call[t].now \in Nat
      BY DEF TypeOK, InFlight, NoId, Times
    <3>3. \A t \in Threads : InFlight(t)' => clock' <= call'[t].now + MaxLag
      BY <2>0, <3>1, <3>2 DEF InFlight
    <3> QED BY <2>0, <3>1, <3>3 DEF InOrder
  <2>4. CASE UNCHANGED vars
    BY <2>4 DEF vars, InOrder, InFlight
  <2> QED BY <2>1, <2>2, <2>3, <2>4 DEF Next
<1> QED BY <1>1, <1>2, TypeCorrect, RetryInvariant, PTL DEF Spec

(* The dict is in the order of its readings but for the time a call waits     *)
(* between its reading and the lock; with no wait, its front is the oldest    *)
(* entry (dedupe.py:7-9).                                                     *)
THEOREM NearlyOrdered == Spec => []OldestFirstWithinLag
<1>1. InOrder => OldestFirstWithinLag
  BY DEF InOrder, OldestFirstWithinLag
<1> QED BY <1>1, LagOrder, PTL

(* ... and stopping the eviction at the first entry it keeps leaves no entry  *)
(* expired by more than that wait (dedupe.py:39-45).                          *)
THEOREM NoneExpired == Spec => NothingExpiredSurvives
<1> USE ConstantsAssumption
<1> DEFINE Kept == \A t \in Threads : InFlight(t) /\ call'[t] = NoId =>
                       \A i \in 1..Len(seen') : seen'[i].at >= call[t].now - TTL - MaxLag
<1>1. TypeOK /\ InOrder /\ [Next]_vars => [Kept]_vars
  <2> SUFFICES ASSUME TypeOK, InOrder, Next, NEW t \in Threads,
                      InFlight(t), call'[t] = NoId,
                      NEW i \in 1..Len(seen')
               PROVE  seen'[i].at >= call[t].now - TTL - MaxLag
    OBVIOUS
  <2>1. Check(t)
    <3>1. CASE \E u \in Threads : Check(u)
      <4>1. PICK u \in Threads : Check(u)
        BY <3>1
      <4>2. u = t
        BY <4>1, CheckCases DEF TypeOK, InFlight, NoId
      <4> QED BY <4>1, <4>2
    <3>2. CASE \E u \in Threads, id \in Ids : ReadClock(u, id)
      <4>1. clock # Never
        BY DEF TypeOK, Times, Never
      <4> QED BY <3>2, <4>1 DEF ReadClock, InFlight, TypeOK, NoId
    <3>3. CASE Tick
      BY <3>3 DEF Tick, InFlight, NoId
    <3> QED BY <3>1, <3>2, <3>3 DEF Next
  <2>2. PICK n \in 0..Len(seen) : Evicted(n, call[t].now) /\ (Hit(t, n) \/ Miss(t, n))
    BY <2>1, CheckCases
  <2>3. call[t].now \in Nat
    BY DEF InFlight, NoId, TypeOK, Times
  <2>4. CASE seen'[i].at = call[t].now
    BY <2>3, <2>4
  <2>5. CASE i + n \in 1..Len(seen) /\ seen'[i] = seen[i + n]
    <3>1. n < Len(seen) /\ n + 1 \in 1..Len(seen) /\ n + 1 <= i + n
      BY <2>5 DEF TypeOK
    <3>2. seen[n + 1].at >= call[t].now - TTL
      BY <2>2, <3>1 DEF Evicted
    <3>3. seen[n + 1].at \in Nat /\ seen[i + n].at \in Nat
      <4>1. seen[n + 1] \in Entries /\ seen[i + n] \in Entries
        BY <2>5, <3>1 DEF TypeOK
      <4> QED BY <4>1 DEF Entries, Times
    <3>4. seen[n + 1].at <= seen[i + n].at + MaxLag
      <4>1. CASE n + 1 = i + n
        BY <4>1, <3>3
      <4>2. CASE n + 1 < i + n
        BY <2>5, <3>1, <4>2 DEF InOrder
      <4> QED BY <3>1, <4>1, <4>2 DEF TypeOK
    <3>5. seen[i + n].at >= call[t].now - TTL - MaxLag
      BY <2>3, <3>2, <3>3, <3>4, LagAdds
    <3> QED BY <2>5, <3>5
  <2> QED BY <2>2, <2>4, <2>5, CheckOutcome
<1> QED BY <1>1, LagOrder, TypeCorrect, PTL DEF Spec, NothingExpiredSurvives
===============================================================================
