------------------------------ MODULE RateLimiter ------------------------------
(***************************************************************************)
(* RateLimiter (interface_layer/rate_limiter.py): a sliding-window log of  *)
(* the calls let through, per Customer key, and a sweep of idle keys every *)
(* SweepInterval calls.  As in the dedupe store, allow() reads the clock   *)
(* before it takes the lock.                                               *)
(*                                                                         *)
(* The list kept for a key is used as a bag, so it is a set of records     *)
(* told apart by the number of the call.                                   *)
(***************************************************************************)
EXTENDS Integers, FiniteSets

CONSTANTS
    Threads,       \* worker threads
    Keys,          \* rate-limit keys
    MaxPerWindow,  \* max_per_minute
    Window,        \* _WINDOW_SECONDS
    IdleTTL,       \* idle_ttl_seconds
    SweepInterval, \* _SWEEP_INTERVAL
    MaxLag,        \* how long a call may wait between its reading and the lock
    MaxTime,       \* bound: the last instant
    MaxCalls       \* bound: calls of allow

ASSUME ConstantsAssumption ==
    /\ MaxPerWindow \in Nat /\ Window \in Nat /\ IdleTTL \in Nat
    /\ MaxLag \in Nat /\ Window + MaxLag <= IdleTTL
    /\ SweepInterval \in Nat \ {0}
    /\ MaxTime \in Nat /\ MaxCalls \in Nat

VARIABLES
    clock,       \* time.time()
    timestamps,  \* _timestamps, of the keys it holds
    lastSeen,    \* _last_seen, of the keys it holds
    count,       \* _call_count
    call,        \* the call in flight on each thread: its key and its reading
    admitted     \* history: the calls let through, per key, each at its reading

vars == <<clock, timestamps, lastSeen, count, call, admitted>>

Times == 0..MaxTime
NoCall == [key |-> "none", now |-> -1]
InFlight(t) == call[t] # NoCall
Stamps == [n : 1..MaxCalls, at : Times]

Init == /\ clock = 0 /\ count = 0
        /\ timestamps = [k \in {} |-> {}] /\ lastSeen = [k \in {} |-> 0]
        /\ call = [t \in Threads |-> NoCall]
        /\ admitted = [k \in Keys |-> {}]

ReadClock(t, k) ==
    /\ ~InFlight(t)
    /\ call' = [call EXCEPT ![t] = [key |-> k, now |-> clock]]
    /\ UNCHANGED <<clock, timestamps, lastSeen, count, admitted>>

Put(f, k, v) == [x \in DOMAIN f \union {k} |-> IF x = k THEN v ELSE f[x]]
Keep(f, ks) == [x \in ks |-> f[x]]

(* Mutant: what has left the window is never dropped. *)
RecentForEver(k, now) ==
    IF k \in DOMAIN timestamps THEN timestamps[k] ELSE {}

(* Mutant: a call at the far end of the window no longer counts. *)
RecentOffByOne(k, now) ==
    IF k \in DOMAIN timestamps
    THEN {s \in timestamps[k] : s.at > now - Window + 1} ELSE {}

(* The stamps of a key within the window that ends now. *)
Recent(k, now) ==
    IF k \in DOMAIN timestamps THEN {s \in timestamps[k] : s.at > now - Window} ELSE {}

Allowed(recent) == Cardinality(recent) < MaxPerWindow

(* Mutant: the sweep drops the key from one of the two dicts. *)
SweptHalf(newStamps, newSeen, now) ==
    LET live == {k \in DOMAIN newSeen : newSeen[k] >= now - IdleTTL} IN
    /\ timestamps' = Keep(newStamps, live) /\ lastSeen' = newSeen

(* _sweep_locked: keys idle past the TTL leave both dicts. *)
Swept(newStamps, newSeen, now) ==
    LET live == {k \in DOMAIN newSeen : newSeen[k] >= now - IdleTTL} IN
    /\ timestamps' = Keep(newStamps, live) /\ lastSeen' = Keep(newSeen, live)

(* The lock section of allow. *)
Allow(t) ==
    /\ InFlight(t) /\ count < MaxCalls
    /\ LET k == call[t].key
           now == call[t].now
           recent == Recent(k, now)
           mine == IF Allowed(recent) THEN {[n |-> count + 1, at |-> now]} ELSE {}
           newStamps == Put(timestamps, k, recent \union mine)
           newSeen == Put(lastSeen, k, now)
       IN  /\ count' = count + 1
           /\ IF (count + 1) % SweepInterval = 0
              THEN Swept(newStamps, newSeen, now)
              ELSE timestamps' = newStamps /\ lastSeen' = newSeen
           /\ admitted' = [admitted EXCEPT ![k] = @ \union mine]
    /\ call' = [call EXCEPT ![t] = NoCall]
    /\ UNCHANGED clock

Tick == /\ clock < MaxTime
        /\ \A t \in Threads : InFlight(t) => clock < call[t].now + MaxLag
        /\ clock' = clock + 1
        /\ UNCHANGED <<timestamps, lastSeen, count, call, admitted>>

Next == \/ \E t \in Threads : Allow(t) \/ \E k \in Keys : ReadClock(t, k)
        \/ Tick

Spec == Init /\ [][Next]_vars

-------------------------------------------------------------------------------
DictsAgree == DOMAIN timestamps = DOMAIN lastSeen

(* The two dicts, the calls in flight and the history have their types; a    *)
(* key's list never outgrows the limit, so the dicts are as small as the     *)
(* Customers seen lately.  They hold the same keys: _sweep_locked deletes     *)
(* each stale key of _last_seen from _timestamps too (rate_limiter.py:59-64), *)
(* where it must be, for a KeyError there would leave the sweep half done.    *)
TypeOK ==
    /\ DictsAgree
    /\ clock \in Times /\ count \in 0..MaxCalls
    /\ DOMAIN timestamps \subseteq Keys /\ timestamps \in [DOMAIN timestamps -> SUBSET Stamps]
    /\ \A k \in DOMAIN timestamps : Cardinality(timestamps[k]) <= MaxPerWindow
    /\ DOMAIN lastSeen \subseteq Keys /\ lastSeen \in [DOMAIN lastSeen -> Times]
    /\ call \in [Threads -> [key : Keys, now : Times] \union {NoCall}]
    /\ admitted \in [Keys -> SUBSET Stamps]

(* At no instant have more than MaxPerWindow calls of one key been let through *)
(* with a reading in the Window seconds behind it, though a call may enter the *)
(* lock with an older reading than the one before it (rate_limiter.py:42-57),  *)
(* and the sweep drops keys.                                                   *)
WindowBound ==
    \A k \in Keys :
        Cardinality({s \in admitted[k] : s.at > clock - Window}) <= MaxPerWindow

(* A call that is refused met a full window: at its own reading the key had    *)
(* MaxPerWindow calls behind it, so an idle Customer is never turned away.     *)
RefusedOnlyWhenFull ==
    [][\A t \in Threads :
          InFlight(t) /\ call'[t] = NoCall /\ admitted' = admitted =>
             Cardinality({s \in admitted[call[t].key] : s.at > call[t].now - Window})
                >= MaxPerWindow]_vars
===============================================================================
