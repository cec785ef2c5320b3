------------------------------- MODULE Lease -------------------------------
(* What the distributed lock promises: for every lock name at most one      *)
(* caller relies on the lock, it gets it only while nobody relies on it,    *)
(* and time, an unlock or a failure may end any number of leases.           *)
CONSTANTS Callers, Names
VARIABLE holder       \* name -> the callers that rely on the lock

LeaseInit == holder = [n \in Names |-> {}]

Grant(c, n) == holder[n] = {} /\ holder' = [holder EXCEPT ![n] = {c}]

Lapse(S) == holder' = [n \in Names |-> IF n \in S THEN {} ELSE holder[n]]

LeaseNext == (\E c \in Callers, n \in Names : Grant(c, n)) \/ (\E S \in SUBSET Names : Lapse(S))

LeaseSpec == LeaseInit /\ [][LeaseNext]_holder
=============================================================================
