------------------------------ MODULE MCRegistry ------------------------------
(* Small instances of Registry for TLC. *)
EXTENDS Registry, TLC

CONSTANTS t1, t2, hotel, inn, shop, ama, esi, kofi, n1, n2

Symmetry == Permutations(Threads) \union Permutations({esi, kofi})

(* Bound: once the process has been restarted, requests come one at a time.   *)
AloneAfterACrash == crashes' = 0 \/ \A t, u \in Threads : Busy(t)' /\ Busy(u)' => t = u
BoundedSpec == RegInit /\ [][RegNext /\ AloneAfterACrash]_regVars

(* hotel and shop claim the same number; inn is signed up for. *)
InOrder == <<hotel, inn, shop>>
HotelHasAnOwner == [b \in Shipped |-> IF b = hotel THEN ama ELSE None]

WhatsApp(number) == [type |-> "whatsapp", enabled |-> TRUE, number |-> number]
ACli == [type |-> "cli", enabled |-> TRUE, number |-> Unregistered]
ClaimsOverlap ==
    [b \in BusinessIds |->
        CASE b = hotel -> <<ACli, WhatsApp(n1)>>
          [] b = inn -> <<ACli>>
          [] b = shop -> <<[WhatsApp(n1) EXCEPT !.enabled = FALSE], WhatsApp(Unregistered),
                           WhatsApp(n1), WhatsApp(n2)>>]

AllGood == [b \in Shipped |-> Default]
GoodFiles == {AllGood}
AnyFiles == {AllGood, [AllGood EXCEPT ![hotel] = None], [AllGood EXCEPT ![shop] = Undecodable]}
===============================================================================
