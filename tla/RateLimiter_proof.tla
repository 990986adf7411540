--------------------------- MODULE RateLimiter_proof ---------------------------
(***************************************************************************)
(* Proofs about RateLimiter, for any threads, keys, limit and window: the  *)
(* window is never overfull although calls take the lock in another order  *)
(* than they read the clock, and although the sweep forgets whole keys;    *)
(* and nobody is refused who had not filled it.                            *)
(***************************************************************************)
EXTENDS RateLimiter, TLAPS, FiniteSetTheorems

(* Each list is finite and no longer than the limit.                         *)
ListsBounded ==
    \A k \in DOMAIN timestamps :
        IsFiniteSet(timestamps[k]) /\ Cardinality(timestamps[k]) <= MaxPerWindow

(* A call waits MaxLag at most, so no stamp is later than its key's last     *)
(* reading by more; what is still in the window is still in the list, and a  *)
(* key the sweep dropped has nothing in the window.                          *)
LagOK ==
    /\ \A t \in Threads : InFlight(t) =>
          call[t].now <= clock /\ clock <= call[t].now + MaxLag
    /\ \A k \in Keys : \A s \in admitted[k] : s.at <= clock
    /\ \A k \in DOMAIN lastSeen : \A s \in admitted[k] : s.at <= lastSeen[k] + MaxLag
    /\ \A k \in Keys : \A s \in admitted[k] :
          s.at > clock - Window => k \in DOMAIN timestamps /\ s \in timestamps[k]

Types ==
    /\ clock \in Nat /\ clock <= MaxTime /\ count \in 0..MaxCalls
    /\ DOMAIN timestamps \subseteq Keys /\ timestamps \in [DOMAIN timestamps -> SUBSET Stamps]
    /\ DOMAIN lastSeen \subseteq Keys /\ lastSeen \in [DOMAIN lastSeen -> Times]
    /\ call \in [Threads -> [key : Keys, now : Times] \union {NoCall}]
    /\ admitted \in [Keys -> SUBSET Stamps]

Inv == Types /\ DictsAgree /\ ListsBounded /\ LagOK

-------------------------------------------------------------------------------
(* What of a key's list is recent is finite and no longer than the list.     *)
LEMMA RecentBounded ==
    ASSUME Types, ListsBounded, NEW k \in Keys, NEW now \in Times
    PROVE  /\ Recent(k, now) \in SUBSET Stamps /\ IsFiniteSet(Recent(k, now))
           /\ Cardinality(Recent(k, now)) \in Nat
           /\ Cardinality(Recent(k, now)) <= MaxPerWindow
<1>1. CASE k \in DOMAIN timestamps
  <2>1. Recent(k, now) \in SUBSET timestamps[k] /\ timestamps[k] \in SUBSET Stamps
    BY <1>1 DEF Recent, Types
  <2>2. /\ IsFiniteSet(timestamps[k]) /\ Cardinality(timestamps[k]) <= MaxPerWindow
        /\ Cardinality(timestamps[k]) \in Nat
    BY <1>1, FS_CardinalityType DEF ListsBounded
  <2>3. IsFiniteSet(Recent(k, now)) /\ Cardinality(Recent(k, now)) <= Cardinality(timestamps[k])
    BY <2>1, <2>2, FS_Subset
  <2>4. Cardinality(Recent(k, now)) \in Nat
    BY <2>3, FS_CardinalityType
  <2> QED BY <2>1, <2>2, <2>3, <2>4, ConstantsAssumption
<1>2. CASE k \notin DOMAIN timestamps
  BY <1>2, FS_EmptySet, ConstantsAssumption DEF Recent
<1> QED BY <1>1, <1>2

(* The list allow() stores: the recent stamps, and its own if there is room. *)
Listed(k, now) ==
    Recent(k, now) \union
      (IF Allowed(Recent(k, now)) THEN {[n |-> count + 1, at |-> now]} ELSE {})

LEMMA ListedBounded ==
    ASSUME Types, ListsBounded, NEW k \in Keys, NEW now \in Times, count < MaxCalls
    PROVE  /\ Listed(k, now) \in SUBSET Stamps
           /\ IsFiniteSet(Listed(k, now)) /\ Cardinality(Listed(k, now)) <= MaxPerWindow
<1> DEFINE own == [n |-> count + 1, at |-> now]
<1>1. own \in Stamps
  BY ConstantsAssumption DEF Types, Stamps
<1> HIDE DEF own
<1>2. CASE Allowed(Recent(k, now))
  <2>1. Listed(k, now) = Recent(k, now) \union {own}
    BY <1>2 DEF Listed, own
  <2>2. Cardinality(Recent(k, now)) + 1 <= MaxPerWindow
    BY <1>2, RecentBounded, ConstantsAssumption DEF Allowed
  <2>3. /\ IsFiniteSet(Recent(k, now) \union {own})
        /\ Cardinality(Recent(k, now) \union {own}) <= Cardinality(Recent(k, now)) + 1
    <3>1. IsFiniteSet(Recent(k, now)) /\ Cardinality(Recent(k, now)) \in Nat
      BY RecentBounded
    <3>2. /\ IsFiniteSet(Recent(k, now) \union {own})
          /\ Cardinality(Recent(k, now) \union {own}) =
               IF own \in Recent(k, now) THEN Cardinality(Recent(k, now))
               ELSE Cardinality(Recent(k, now)) + 1
      BY <3>1, FS_AddElement
    <3> QED BY <3>1, <3>2
  <2>4. Cardinality(Recent(k, now) \union {own}) \in Nat
    BY <2>3, FS_CardinalityType
  <2> QED BY <1>1, <2>1, <2>2, <2>3, <2>4, RecentBounded, ConstantsAssumption
<1>3. CASE ~Allowed(Recent(k, now))
  <2>1. Listed(k, now) = Recent(k, now)
    BY <1>3 DEF Listed
  <2> QED BY <2>1, RecentBounded
<1> QED BY <1>2, <1>3

(* The two dicts after the lock section: the swept keys are gone, the key of *)
(* the call has its new list, the rest is as it was.                         *)
LEMMA AllowDicts ==
    ASSUME Types, DictsAgree, NEW t \in Threads, Allow(t)
    PROVE  LET k == call[t].key
               now == call[t].now
               kept == DOMAIN timestamps'
           IN  /\ kept = DOMAIN lastSeen' /\ kept \subseteq DOMAIN timestamps \union {k}
               /\ \A x \in kept : /\ timestamps'[x] = IF x = k THEN Listed(k, now) ELSE timestamps[x]
                                  /\ lastSeen'[x] = IF x = k THEN now ELSE lastSeen[x]
               /\ \A x \in (DOMAIN timestamps \union {k}) \ kept :
                     (IF x = k THEN now ELSE lastSeen[x]) < now - IdleTTL
               /\ timestamps' = [x \in kept |-> timestamps'[x]]
               /\ lastSeen' = [x \in kept |-> lastSeen'[x]]
<1> DEFINE k == call[t].key
           now == call[t].now
           newStamps == Put(timestamps, k, Listed(k, now))
           newSeen == Put(lastSeen, k, now)
           live == {x \in DOMAIN newSeen : newSeen[x] >= now - IdleTTL}
<1>1. /\ DOMAIN newStamps = DOMAIN timestamps \union {k}
      /\ DOMAIN newSeen = DOMAIN timestamps \union {k}
      /\ \A x \in DOMAIN newStamps :
            /\ newStamps[x] = IF x = k THEN Listed(k, now) ELSE timestamps[x]
            /\ newSeen[x] = IF x = k THEN now ELSE lastSeen[x]
  BY DEF Put, DictsAgree
<1>2. k \in Keys /\ now \in Times
  BY DEF Allow, InFlight, Types
<1>3. \A x \in DOMAIN newSeen : newSeen[x] \in Int
  BY <1>1, <1>2 DEF Types, Times, DictsAgree
<1>4. \/ timestamps' = Keep(newStamps, live) /\ lastSeen' = Keep(newSeen, live)
      \/ timestamps' = newStamps /\ lastSeen' = newSeen
  BY DEF Allow, Swept, Listed
<1>5. CASE timestamps' = newStamps /\ lastSeen' = newSeen
  <2>1. timestamps' = [x \in DOMAIN newStamps |-> newStamps[x]]
        /\ lastSeen' = [x \in DOMAIN newStamps |-> newSeen[x]]
    BY <1>1, <1>5 DEF Put
  <2> HIDE DEF newStamps, newSeen
  <2> QED BY <1>1, <1>5, <2>1
<1>6. CASE timestamps' = Keep(newStamps, live) /\ lastSeen' = Keep(newSeen, live)
  <2> HIDE DEF newStamps, newSeen
  <2>1. /\ DOMAIN timestamps' = live /\ DOMAIN lastSeen' = live /\ live \subseteq DOMAIN newStamps
        /\ \A x \in live : timestamps'[x] = newStamps[x] /\ lastSeen'[x] = newSeen[x]
        /\ timestamps' = [x \in live |-> timestamps'[x]]
        /\ lastSeen' = [x \in live |-> lastSeen'[x]]
    BY <1>1, <1>6 DEF Keep
  <2>2. \A x \in DOMAIN newStamps \ live : newSeen[x] < now - IdleTTL
    BY <1>1, <1>2, <1>3, ConstantsAssumption DEF Times
  <2> QED BY <1>1, <2>1, <2>2
<1> QED BY <1>4, <1>5, <1>6

LEMMA AllowKeeps == ASSUME Inv, NEW t \in Threads, Allow(t) PROVE Inv'
<1> DEFINE k == call[t].key
           now == call[t].now
           own == [n |-> count + 1, at |-> now]
           kept == DOMAIN timestamps'
<1>1. /\ k \in Keys /\ now \in Times /\ now \in Nat /\ InFlight(t) /\ count < MaxCalls
      /\ count \in Nat /\ clock \in Nat /\ now <= clock /\ clock <= now + MaxLag
  BY ConstantsAssumption DEF Inv, Types, LagOK, Allow, InFlight, Times
<1>2. /\ kept = DOMAIN lastSeen' /\ kept \subseteq DOMAIN timestamps \union {k}
      /\ \A x \in kept : /\ timestamps'[x] = IF x = k THEN Listed(k, now) ELSE timestamps[x]
                         /\ lastSeen'[x] = IF x = k THEN now ELSE lastSeen[x]
      /\ \A x \in (DOMAIN timestamps \union {k}) \ kept :
            (IF x = k THEN now ELSE lastSeen[x]) < now - IdleTTL
      /\ timestamps' = [x \in kept |-> timestamps'[x]]
      /\ lastSeen' = [x \in kept |-> lastSeen'[x]]
  BY AllowDicts DEF Inv
<1>3. /\ Listed(k, now) \in SUBSET Stamps /\ IsFiniteSet(Listed(k, now))
      /\ Cardinality(Listed(k, now)) <= MaxPerWindow
  BY <1>1, ListedBounded DEF Inv
<1>4. /\ clock' = clock /\ count' = count + 1
      /\ call' = [call EXCEPT ![t] = NoCall]
      /\ admitted' = [admitted EXCEPT ![k] =
                        @ \union (IF Allowed(Recent(k, now)) THEN {own} ELSE {})]
  BY DEF Allow
<1>5. own \in Stamps /\ own.at = now
  BY <1>1, ConstantsAssumption DEF Stamps
<1>6. /\ \A x \in Keys \ {k} : admitted'[x] = admitted[x]
      /\ \A s \in admitted'[k] : s \in admitted[k] \/ (s = own /\ own \in Listed(k, now))
      /\ admitted' \in [Keys -> SUBSET Stamps]
  BY <1>1, <1>4, <1>5 DEF Inv, Types, Listed
<1>7. DOMAIN timestamps = DOMAIN lastSeen /\ DOMAIN timestamps \subseteq Keys
      /\ \A x \in DOMAIN timestamps : lastSeen[x] \in Times /\ timestamps[x] \in SUBSET Stamps
  BY DEF Inv, Types, DictsAgree
<1> HIDE DEF own, kept
<1>8. Types'
  <2>1. kept \subseteq Keys /\ timestamps' \in [kept -> SUBSET Stamps]
        /\ lastSeen' \in [kept -> Times]
    <3>1. \A x \in kept : timestamps'[x] \in SUBSET Stamps /\ lastSeen'[x] \in Times
      BY <1>1, <1>2, <1>3, <1>7
    <3> QED BY <1>1, <1>2, <1>7, <3>1
  <2>2. count' \in 0..MaxCalls /\ clock' \in Nat /\ clock' <= MaxTime
    BY <1>1, <1>4, ConstantsAssumption DEF Inv, Types
  <2>3. call' \in [Threads -> [key : Keys, now : Times] \union {NoCall}]
    BY <1>4 DEF Inv, Types
  <2> QED BY <1>2, <1>6, <2>1, <2>2, <2>3 DEF Types, kept
<1>9. DictsAgree'
  BY <1>2 DEF DictsAgree, kept
<1>10. ListsBounded'
  <2>1. \A x \in kept : IsFiniteSet(timestamps'[x]) /\ Cardinality(timestamps'[x]) <= MaxPerWindow
    BY <1>2, <1>3 DEF Inv, ListsBounded
  <2> QED BY <2>1 DEF ListsBounded, kept
<1>11. \A u \in Threads : InFlight(u)' => call'[u].now <= clock' /\ clock' <= call'[u].now + MaxLag
  BY <1>4 DEF Inv, Types, LagOK, InFlight
<1>12. \A x \in Keys : \A s \in admitted'[x] : s.at <= clock'
  BY <1>1, <1>4, <1>5, <1>6 DEF Inv, LagOK
<1>13. \A x \in DOMAIN lastSeen' : \A s \in admitted'[x] : s.at <= lastSeen'[x] + MaxLag
  <2> SUFFICES ASSUME NEW x \in kept, NEW s \in admitted'[x]
               PROVE  s.at <= lastSeen'[x] + MaxLag
    BY <1>2
  <2>1. CASE x = k
    <3>1. s.at <= clock /\ s.at \in Int
      <4>1. s \in Stamps
        BY <1>1, <1>6, <2>1
      <4> QED BY <1>1, <1>4, <1>12, <2>1, <4>1 DEF Stamps, Times
    <3> QED BY <1>1, <1>2, <2>1, <3>1, ConstantsAssumption
  <2>2. CASE x # k
    BY <1>2, <1>6, <1>7, <2>2 DEF Inv, LagOK
  <2> QED BY <2>1, <2>2
<1>14. \A x \in Keys : \A s \in admitted'[x] :
          s.at > clock' - Window => x \in DOMAIN timestamps' /\ s \in timestamps'[x]
  <2> SUFFICES ASSUME NEW x \in Keys, NEW s \in admitted'[x], s.at > clock - Window
               PROVE  x \in kept /\ s \in timestamps'[x]
    BY <1>4 DEF kept
  <2>0. s.at \in Nat /\ (s \in admitted[x] => s.at <= clock)
    <3>1. s \in Stamps
      BY <1>6
    <3> QED BY <3>1 DEF Stamps, Times, Inv, LagOK
  <2>1. s \in admitted[x] => x \in DOMAIN timestamps /\ s \in timestamps[x]
    BY DEF Inv, LagOK
  <2>2. CASE x = k
    <3>1. s \in Listed(k, now)
      <4>1. CASE s \in admitted[k]
        <5>1. s \in Recent(k, now)
          BY <1>1, <2>0, <2>1, <2>2, <4>1, ConstantsAssumption DEF Recent
        <5> QED BY <5>1 DEF Listed
      <4>2. CASE s \notin admitted[k]
        BY <1>6, <2>2, <4>2
      <4> QED BY <4>1, <4>2
    <3>2. k \in kept
      BY <1>1, <1>2, ConstantsAssumption
    <3> QED BY <1>2, <2>2, <3>1, <3>2
  <2>3. CASE x # k
    <3>1. s \in admitted[x] /\ x \in DOMAIN timestamps /\ s \in timestamps[x]
      BY <1>6, <2>1, <2>3
    <3>2. s.at <= lastSeen[x] + MaxLag /\ lastSeen[x] \in Nat
      BY <1>7, <3>1 DEF Inv, LagOK, Times
    <3>3. ~(lastSeen[x] < now - IdleTTL)
      BY <1>1, <2>0, <3>2, ConstantsAssumption
    <3>4. x \in kept
      BY <1>2, <2>3, <3>1, <3>3
    <3> QED BY <1>2, <2>3, <3>1, <3>4
  <2> QED BY <2>2, <2>3
<1> QED BY <1>8, <1>9, <1>10, <1>11, <1>12, <1>13, <1>14 DEF Inv, LagOK

LEMMA InvStep == Inv /\ [Next]_vars => Inv'
<1> SUFFICES ASSUME Inv, [Next]_vars PROVE Inv'
  OBVIOUS
<1>0. clock \in Nat /\ \A k \in Keys : \A s \in admitted[k] : s.at \in Nat
  BY DEF Inv, Types, Stamps, Times
<1>1. ASSUME NEW t \in Threads, Allow(t) PROVE Inv'
  BY <1>1, AllowKeeps
<1>2. ASSUME NEW t \in Threads, NEW k \in Keys, ReadClock(t, k) PROVE Inv'
  <2> DEFINE reading == [key |-> k, now |-> clock]
  <2>1. reading \in [key : Keys, now : Times] /\ reading.now = clock
    BY <1>0 DEF Inv, Types, Times
  <2>2. /\ call' = [call EXCEPT ![t] = reading]
        /\ UNCHANGED <<clock, timestamps, lastSeen, count, admitted>>
    BY <1>2 DEF ReadClock
  <2> HIDE DEF reading
  <2>3. Types' /\ DictsAgree' /\ ListsBounded'
    BY <2>1, <2>2 DEF Inv, Types, DictsAgree, ListsBounded
  <2>4. \A u \in Threads : InFlight(u)' => call'[u].now <= clock' /\ clock' <= call'[u].now + MaxLag
    BY <1>0, <2>1, <2>2, ConstantsAssumption DEF Inv, Types, LagOK, InFlight
  <2> QED BY <2>2, <2>3, <2>4 DEF Inv, LagOK
<1>3. CASE Tick
  <2>1. /\ clock' = clock + 1 /\ clock' \in Nat /\ clock' <= MaxTime
        /\ UNCHANGED <<timestamps, lastSeen, count, call, admitted>>
    BY <1>0, <1>3, ConstantsAssumption DEF Tick
  <2>2. Types' /\ DictsAgree' /\ ListsBounded'
    BY <2>1 DEF Inv, Types, DictsAgree, ListsBounded
  <2>3. \A u \in Threads : InFlight(u)' => call'[u].now <= clock' /\ clock' <= call'[u].now + MaxLag
    <3> SUFFICES ASSUME NEW u \in Threads, InFlight(u)
                 PROVE  call[u].now <= clock + 1 /\ clock + 1 <= call[u].now + MaxLag
      BY <2>1 DEF InFlight
    <3>1. call[u].now \in Nat
      BY DEF Inv, Types, InFlight, Times
    <3> QED BY <1>0, <1>3, <3>1, ConstantsAssumption DEF Tick, Inv, LagOK
  <2>4. \A k \in Keys : \A s \in admitted[k] : s.at <= clock + 1
    BY <1>0 DEF Inv, LagOK
  <2>5. \A k \in Keys : \A s \in admitted[k] :
            s.at > (clock + 1) - Window => k \in DOMAIN timestamps /\ s \in timestamps[k]
    BY <1>0, ConstantsAssumption DEF Inv, LagOK
  <2> QED BY <2>1, <2>2, <2>3, <2>4, <2>5 DEF Inv, LagOK
<1>4. CASE UNCHANGED vars
  BY <1>4 DEF vars, Inv, Types, DictsAgree, ListsBounded, LagOK, InFlight
<1> QED BY <1>1, <1>2, <1>3, <1>4 DEF Next

(* In every state the dicts agree, no list outgrows the limit, and every call  *)
(* let through within the window is listed (rate_limiter.py:42-64).            *)
THEOREM Invariant == Spec => []Inv
<1>1. Init => Inv
  <2>1. Init => Types
    BY ConstantsAssumption DEF Init, Types, Times
  <2>2. Init => DictsAgree /\ ListsBounded /\ LagOK
    BY DEF Init, DictsAgree, ListsBounded, LagOK, InFlight
  <2> QED BY <2>1, <2>2 DEF Inv
<1> QED BY <1>1, InvStep, PTL DEF Spec

(* The dicts, the calls in flight and the history have their types, and no   *)
(* key's list outgrows the limit (rate_limiter.py:42-57).                    *)
THEOREM TypeCorrect == Spec => []TypeOK
<1>1. Inv => TypeOK
  BY DEF Inv, Types, TypeOK, ListsBounded, Times
<1> QED BY <1>1, Invariant, PTL

(* The sweep never meets a key of one dict that the other lacks              *)
(* (rate_limiter.py:59-64).                                                  *)
THEOREM DictsAlwaysAgree == Spec => []DictsAgree
<1>1. Inv => DictsAgree
  BY DEF Inv
<1> QED BY <1>1, Invariant, PTL

(* For any number of threads and keys, any limit and any sweep interval, the *)
(* last Window seconds hold at most MaxPerWindow admitted calls of a key,    *)
(* provided no call waits longer for the lock than IdleTTL - Window          *)
(* (rate_limiter.py:42-64).                                                  *)
THEOREM WindowIsBounded == Spec => []WindowBound
<1>1. ASSUME Inv, NEW k \in Keys
      PROVE  Cardinality({s \in admitted[k] : s.at > clock - Window}) <= MaxPerWindow
  <2> DEFINE inWindow == {s \in admitted[k] : s.at > clock - Window}
  <2>1. CASE k \in DOMAIN timestamps
    <3>1. inWindow \in SUBSET timestamps[k]
      BY <1>1 DEF Inv, LagOK
    <3>2. /\ IsFiniteSet(timestamps[k]) /\ Cardinality(timestamps[k]) <= MaxPerWindow
      BY <1>1, <2>1 DEF Inv, ListsBounded
    <3> HIDE DEF inWindow
    <3>3. /\ IsFiniteSet(inWindow) /\ Cardinality(inWindow) <= Cardinality(timestamps[k])
      BY <3>1, <3>2, FS_Subset
    <3>4. Cardinality(inWindow) \in Nat /\ Cardinality(timestamps[k]) \in Nat
      BY <3>2, <3>3, FS_CardinalityType
    <3>5. Cardinality(inWindow) <= MaxPerWindow
      BY <3>2, <3>3, <3>4, ConstantsAssumption
    <3> QED BY <3>5 DEF inWindow
  <2>2. CASE k \notin DOMAIN timestamps
    <3>1. inWindow = {}
      BY <1>1, <2>2 DEF Inv, LagOK
    <3> QED BY <3>1, FS_EmptySet, ConstantsAssumption
  <2> QED BY <2>1, <2>2
<1>2. Inv => WindowBound
  BY <1>1 DEF WindowBound
<1> QED BY <1>2, Invariant, PTL

-------------------------------------------------------------------------------
(* What was let through has a number of its own, and only what was let       *)
(* through is listed.                                                        *)
HistoryOK ==
    /\ \A k \in Keys : /\ IsFiniteSet(admitted[k])
                       /\ \A s \in admitted[k] : s.n <= count
    /\ \A k \in DOMAIN timestamps : timestamps[k] \subseteq admitted[k]

LEMMA AllowKeepsHistory == ASSUME Inv, HistoryOK, NEW t \in Threads, Allow(t) PROVE HistoryOK'
<1> DEFINE k == call[t].key
           now == call[t].now
           own == [n |-> count + 1, at |-> now]
           mine == IF Allowed(Recent(k, now)) THEN {own} ELSE {}
<1>1. /\ k \in Keys /\ count \in Nat /\ count' = count + 1
      /\ admitted' = [admitted EXCEPT ![k] = @ \union mine]
      /\ admitted \in [Keys -> SUBSET Stamps]
  BY DEF Inv, Types, Allow, InFlight
<1>2. /\ DOMAIN timestamps' \subseteq DOMAIN timestamps \union {k}
      /\ \A x \in DOMAIN timestamps' :
            timestamps'[x] = IF x = k THEN Listed(k, now) ELSE timestamps[x]
  BY AllowDicts DEF Inv
<1>3. Listed(k, now) \subseteq admitted[k] \union mine
  <2>1. Recent(k, now) \subseteq admitted[k]
    BY DEF Recent, HistoryOK
  <2> QED BY <2>1 DEF Listed
<1>4. own.n = count + 1 /\ \A s \in mine : s.n = count + 1
  OBVIOUS
<1>5. IsFiniteSet(mine)
  BY FS_EmptySet, FS_Singleton
<1> HIDE DEF mine, k, now
<1>6. \A x \in Keys : admitted'[x] = IF x = k THEN admitted[k] \union mine ELSE admitted[x]
  BY <1>1
<1>7. \A x \in Keys : IsFiniteSet(admitted'[x])
  BY <1>1, <1>5, <1>6, FS_Union DEF HistoryOK
<1>8. \A x \in Keys : \A s \in admitted'[x] : s.n <= count'
  <2>1. \A x \in Keys : \A s \in admitted[x] : s.n \in Int
    BY <1>1 DEF Stamps
  <2> QED BY <1>1, <1>4, <1>6, <2>1 DEF HistoryOK
<1>9. \A x \in DOMAIN timestamps' : timestamps'[x] \subseteq admitted'[x]
  BY <1>1, <1>2, <1>3, <1>6 DEF HistoryOK, Inv, Types
<1> QED BY <1>7, <1>8, <1>9 DEF HistoryOK

(* In every state the lists hold only calls that were let through, each with a *)
(* number of its own (rate_limiter.py:46-52).                                  *)
THEOREM HistoryInvariant == Spec => []HistoryOK
<1>1. Init => HistoryOK
  BY FS_EmptySet DEF Init, HistoryOK
<1>2. HistoryOK /\ Inv /\ [Next]_vars => HistoryOK'
  <2> SUFFICES ASSUME HistoryOK, Inv, [Next]_vars PROVE HistoryOK'
    OBVIOUS
  <2>1. ASSUME NEW t \in Threads, Allow(t) PROVE HistoryOK'
    BY <2>1, AllowKeepsHistory
  <2>2. ASSUME NEW t \in Threads, NEW k \in Keys, ReadClock(t, k) PROVE HistoryOK'
    BY <2>2 DEF ReadClock, HistoryOK
  <2>3. CASE Tick
    BY <2>3 DEF Tick, HistoryOK
  <2>4. CASE UNCHANGED vars
    BY <2>4 DEF vars, HistoryOK
  <2> QED BY <2>1, <2>2, <2>3, <2>4 DEF Next
<1> QED BY <1>1, <1>2, Invariant, PTL DEF Spec

(* A refused call met a full window: behind its own reading its key had      *)
(* MaxPerWindow calls that were let through (rate_limiter.py:46-51), however *)
(* many calls with other readings and sweeps came between its reading and    *)
(* the lock.                                                                 *)
THEOREM RefusedWhenFull == Spec => RefusedOnlyWhenFull
<1> DEFINE Behind(t) == {s \in admitted[call[t].key] : s.at > call[t].now - Window}
<1>1. ASSUME Inv, HistoryOK, Next, NEW t \in Threads,
             InFlight(t), call'[t] = NoCall, admitted' = admitted
      PROVE  Cardinality(Behind(t)) >= MaxPerWindow
  <2> DEFINE k == call[t].key
             now == call[t].now
             own == [n |-> count + 1, at |-> now]
  <2>1. Allow(t)
    <3>1. ASSUME NEW u \in Threads, Allow(u), u # t PROVE FALSE
      BY <1>1, <3>1 DEF Allow, InFlight, Inv, Types
    <3>2. ASSUME NEW u \in Threads, NEW x \in Keys, ReadClock(u, x) PROVE FALSE
      BY <1>1, <3>2 DEF ReadClock, InFlight, Inv, Types
    <3>3. ~Tick
      BY <1>1 DEF Tick, InFlight
    <3> QED BY <1>1, <3>1, <3>2, <3>3 DEF Next
  <2>2. k \in Keys /\ now \in Times /\ count \in Nat /\ admitted \in [Keys -> SUBSET Stamps]
    BY <1>1 DEF InFlight, Inv, Types
  <2>3. ~Allowed(Recent(k, now))
    <3>1. SUFFICES ASSUME Allowed(Recent(k, now)) PROVE FALSE
      OBVIOUS
    <3>2. admitted' = [admitted EXCEPT ![k] = @ \union {own}]
      BY <2>1, <3>1 DEF Allow
    <3>3. own \in admitted[k]
      BY <1>1, <2>2, <3>2
    <3>4. own.n <= count
      BY <1>1, <2>2, <3>3 DEF HistoryOK
    <3> QED BY <2>2, <3>4
  <2>4. Cardinality(Recent(k, now)) \in Nat
    BY <1>1, <2>2, RecentBounded DEF Inv
  <2>5. Cardinality(Recent(k, now)) >= MaxPerWindow
    BY <2>3, <2>4, ConstantsAssumption DEF Allowed
  <2>6. Recent(k, now) \in SUBSET Behind(t) /\ Behind(t) \in SUBSET admitted[k]
    BY <1>1 DEF Recent, HistoryOK
  <2>7. IsFiniteSet(admitted[k])
    BY <1>1, <2>2 DEF HistoryOK
  <2> HIDE DEF Behind
  <2>8. IsFiniteSet(Behind(t))
    BY <2>6, <2>7, FS_Subset
  <2>9. Cardinality(Recent(k, now)) <= Cardinality(Behind(t)) /\ Cardinality(Behind(t)) \in Nat
    BY <2>6, <2>8, FS_Subset, FS_CardinalityType
  <2> QED BY <2>4, <2>5, <2>9, ConstantsAssumption
<1>2. Inv /\ HistoryOK /\ [Next]_vars =>
         [\A t \in Threads :
             InFlight(t) /\ call'[t] = NoCall /\ admitted' = admitted =>
                Cardinality({s \in admitted[call[t].key] : s.at > call[t].now - Window})
                   >= MaxPerWindow]_vars
  BY <1>1
<1> QED BY <1>2, Invariant, HistoryInvariant, PTL DEF Spec, RefusedOnlyWhenFull
===============================================================================
