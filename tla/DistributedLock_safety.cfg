SPECIFICATION FairSpec
CONSTANTS
    c1 = c1
    c2 = c2
    Callers <- TwoCallers
    Names = {"table"}
    Owner <- TwoOwners
    Offset <- SecondAhead
    Skew = 1
    TTL = 2
    Retries = 1
    MaxClock = 3
INVARIANTS LockSound HolderExclusive
PROPERTIES NoTheft LockReturns ImplementsLease
