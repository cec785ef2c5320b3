------------------------- MODULE MCDistributedLock -------------------------
(***************************************************************************)
(* Instances of DistributedLock for TLC.                                   *)
(***************************************************************************)
EXTENDS DistributedLock

CONSTANTS c1, c2

TwoCallers  == {c1, c2}
TwoOwners   == [c \in TwoCallers |-> IF c = c1 THEN "user1" ELSE "user2"]
SecondAhead == [c \in TwoCallers |-> IF c = c1 THEN 0 ELSE 1]
=============================================================================
