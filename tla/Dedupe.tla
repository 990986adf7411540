-------------------------------- MODULE Dedupe --------------------------------
(***************************************************************************)
(* InMemoryDedupeStore (interface_layer/dedupe.py): message ids seen       *)
(* within the last ttl_seconds, oldest first.  is_duplicate reads the      *)
(* clock BEFORE it takes the lock, so calls on several worker threads may  *)
(* enter the lock in another order than they read the clock.               *)
(***************************************************************************)
EXTENDS Integers, Sequences

CONSTANTS
    Threads,  \* worker threads
    Ids,      \* message ids
    TTL,      \* ttl_seconds
    MaxLag,   \* how long a call may wait between its reading and the lock
    MaxTime   \* bound: the last instant

ASSUME ConstantsAssumption == TTL \in Nat /\ MaxLag \in Nat /\ MaxTime \in Nat

VARIABLES
    clock,    \* time.time()
    seen,     \* _seen: the dict, in insertion order
    call,     \* the call in flight on each thread: its id and its reading
    freshAt   \* history: the reading of the last call that found an id new

vars == <<clock, seen, call, freshAt>>

Times == 0..MaxTime
Never == -1
NoId == [id |-> "none", now |-> Never]
Entries == [id : Ids, at : Times]
SeenIds == {seen[i].id : i \in 1..Len(seen)}
InFlight(t) == call[t].now # Never

Init == /\ clock = 0 /\ seen = <<>>
        /\ call = [t \in Threads |-> NoId]
        /\ freshAt = [id \in Ids |-> Never]

(* now = self._now_fn(), outside the lock. *)
ReadClock(t, id) ==
    /\ ~InFlight(t)
    /\ call' = [call EXCEPT ![t] = [id |-> id, now |-> clock]]
    /\ UNCHANGED <<clock, seen, freshAt>>

(* Mutant: an entry as old as the cutoff expires too. *)
EvictedAtCutoff(n, now) ==
    /\ \A i \in 1..n : seen[i].at <= now - TTL
    /\ n < Len(seen) => seen[n + 1].at > now - TTL

(* Mutant: one entry a call is evicted, no more. *)
EvictedOneAtMost(n, now) ==
    /\ n \in {0, 1}
    /\ \A i \in 1..n : seen[i].at < now - TTL
    /\ n < Len(seen) /\ n = 0 => seen[1].at >= now - TTL

(* The loop of _evict_expired_locked pops the n entries before the first one *)
(* that is not older than the cutoff.                                        *)
Evicted(n, now) ==
    /\ \A i \in 1..n : seen[i].at < now - TTL
    /\ n < Len(seen) => seen[n + 1].at >= now - TTL

(* Mutant: an id seen again has its time refreshed where it stands. *)
CheckRefreshes(t) ==
    /\ InFlight(t)
    /\ \E n \in 0..Len(seen) :
        /\ Evicted(n, call[t].now)
        /\ LET rest == SubSeq(seen, n + 1, Len(seen))
               mine == [id |-> call[t].id, at |-> call[t].now] IN
           \/ /\ \E i \in 1..Len(rest) : rest[i].id = call[t].id
              /\ seen' = [i \in 1..Len(rest) |->
                            IF rest[i].id = call[t].id THEN mine ELSE rest[i]]
              /\ UNCHANGED freshAt
           \/ /\ \A i \in 1..Len(rest) : rest[i].id # call[t].id
              /\ seen' = Append(rest, mine)
              /\ freshAt' = [freshAt EXCEPT ![call[t].id] = call[t].now]
    /\ call' = [call EXCEPT ![t] = NoId]
    /\ UNCHANGED clock

(* Mutant: the cutoff is kept with the id, not the reading. *)
CheckKeepsCutoff(t) ==
    /\ InFlight(t)
    /\ \E n \in 0..Len(seen) :
        /\ Evicted(n, call[t].now)
        /\ LET rest == SubSeq(seen, n + 1, Len(seen)) IN
           \/ /\ \E i \in 1..Len(rest) : rest[i].id = call[t].id
              /\ seen' = rest
              /\ UNCHANGED freshAt
           \/ /\ \A i \in 1..Len(rest) : rest[i].id # call[t].id
              /\ seen' = Append(rest, [id |-> call[t].id, at |-> call[t].now - TTL])
              /\ freshAt' = [freshAt EXCEPT ![call[t].id] = call[t].now]
    /\ call' = [call EXCEPT ![t] = NoId]
    /\ UNCHANGED clock

(* The lock section: evict, then look the id up and keep it if it is new. *)
Check(t) ==
    /\ InFlight(t)
    /\ \E n \in 0..Len(seen) :
        /\ Evicted(n, call[t].now)
        /\ LET rest == SubSeq(seen, n + 1, Len(seen)) IN
           \/ /\ \E i \in 1..Len(rest) : rest[i].id = call[t].id
              /\ seen' = rest
              /\ UNCHANGED freshAt
           \/ /\ \A i \in 1..Len(rest) : rest[i].id # call[t].id
              /\ seen' = Append(rest, [id |-> call[t].id, at |-> call[t].now])
              /\ freshAt' = [freshAt EXCEPT ![call[t].id] = call[t].now]
    /\ call' = [call EXCEPT ![t] = NoId]
    /\ UNCHANGED clock

Tick == /\ clock < MaxTime
        /\ \A t \in Threads : InFlight(t) => clock < call[t].now + MaxLag
        /\ clock' = clock + 1
        /\ UNCHANGED <<seen, call, freshAt>>

Next == \/ \E t \in Threads : Check(t) \/ \E id \in Ids : ReadClock(t, id)
        \/ Tick

Spec == Init /\ [][Next]_vars

-------------------------------------------------------------------------------
(* The dict, the calls in flight and the verdicts have their types. *)
TypeOK ==
    /\ clock \in Times
    /\ seen \in Seq(Entries)
    /\ call \in [Threads -> [id : Ids, now : Times] \union {NoId}]
    /\ freshAt \in [Ids -> Times \union {Never}]

(* A retry is caught (dedupe.py:1-6): an id found new stays in the store, so   *)
(* every later call finds it, until more than ttl_seconds have passed.         *)
RetryIsCaught ==
    \A id \in Ids : freshAt[id] # Never /\ clock <= freshAt[id] + TTL => id \in SeenIds

(* "The front of the dict is always the oldest surviving entry" (dedupe.py:   *)
(* 7-9), which lets the eviction stop at the first entry it keeps, holds as    *)
(* far as calls enter the lock in the order of their readings: an entry is     *)
(* behind a newer one by no more than a call waits for the lock.               *)
OldestFirstWithinLag ==
    \A i, j \in 1..Len(seen) : i < j => seen[i].at <= seen[j].at + MaxLag

(* The store is bounded by the ids of one TTL: a call leaves no entry that    *)
(* had expired at its own reading by more than that wait.                      *)
NothingExpiredSurvives ==
    [][\A t \in Threads : InFlight(t) /\ call'[t] = NoId =>
          \A i \in 1..Len(seen') : seen'[i].at >= call[t].now - TTL - MaxLag]_vars
===============================================================================
