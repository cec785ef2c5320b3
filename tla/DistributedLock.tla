--------------------------- MODULE DistributedLock ---------------------------
(***************************************************************************)
(* The lock of db/cassandra_client.go: a row per lock name in the table    *)
(* locks, changed only by Cassandra's conditional statements (AcquireLock, *)
(* ReleaseLock), and the retry loop around it (DistributedLock.Lock,       *)
(* LockRow, Unlock, UnlockRow).  A lock name is a table or a table with a  *)
(* row key.  Callers run in different processes, with clocks that differ   *)
(* by at most Skew, and may stop while they hold a lock.                   *)
(***************************************************************************)
EXTENDS Integers

CONSTANTS
    Callers,     \* goroutines that use locks
    Names,       \* lock names
    Owner,       \* the owner string each caller passes
    Offset,      \* how far the clock of a caller is ahead
    Skew,        \* bound on the offsets
    TTL,         \* seconds until a lock expires
    Retries,     \* DistributedLock.retries
    MaxClock     \* bound on time

NoOwner == "none"    \* no row; stands also for a blank owner, which Lock refuses

ASSUME ConstantsOK ==
    /\ \A c \in Callers : Owner[c] # NoOwner
    /\ Offset \in [Callers -> 0..Skew]
    /\ Skew \in Nat /\ TTL \in Nat \ {0} /\ Retries \in Nat
    /\ MaxClock \in Nat

VARIABLES
    clock,       \* time, in seconds
    locked_by,   \* name -> owner in the row, or NoOwner
    expires_at,  \* name -> expiry in the row
    pc,          \* caller -> step
    want,        \* caller -> name of the lock it asked for
    lockedAt,    \* caller -> time.Now() at the start of AcquireLock
    seen,        \* caller -> expires_at that the INSERT returned
    until,       \* caller -> expiry of the lock it was granted
    attempt,     \* caller -> loop variable of Lock
    calls        \* caller -> calls of AcquireLock in this Lock

rowVars == <<locked_by, expires_at>>
vars == <<clock, rowVars, pc, want, lockedAt, seen, until, attempt, calls>>

Now(c) == clock + Offset[c]
Owners == {Owner[c] : c \in Callers} \cup {NoOwner}
Steps == {"idle", "start", "insert", "check", "update", "sleep", "held"}

Init ==
    /\ clock = 0
    /\ locked_by = [n \in Names |-> NoOwner]
    /\ expires_at = [n \in Names |-> 0]
    /\ pc = [c \in Callers |-> "idle"]
    /\ want \in [Callers -> Names]
    /\ lockedAt = [c \in Callers |-> 0]
    /\ seen = [c \in Callers |-> 0]
    /\ until = [c \in Callers |-> 0]
    /\ attempt = [c \in Callers |-> 0]
    /\ calls = [c \in Callers |-> 0]

Tick ==
    /\ clock < MaxClock
    /\ clock' = clock + 1
    /\ UNCHANGED <<rowVars, pc, want, lockedAt, seen, until, attempt, calls>>

-----------------------------------------------------------------------------
Goto(c, step) == pc' = [pc EXCEPT ![c] = step]

(* The entry of Lock or LockRow.                                           *)
Lock(c, n) ==
    /\ pc[c] = "idle" /\ clock < MaxClock
    /\ want' = [want EXCEPT ![c] = n]
    /\ attempt' = [attempt EXCEPT ![c] = 0]
    /\ calls' = [calls EXCEPT ![c] = 0]
    /\ Goto(c, "start")
    /\ UNCHANGED <<clock, rowVars, lockedAt, seen, until>>

(* One call of AcquireLock, from the loop or after time.Sleep.             *)
AcquireStart(c) ==
    /\ pc[c] \in {"start", "sleep"}
    /\ lockedAt' = [lockedAt EXCEPT ![c] = Now(c)]
    /\ calls' = [calls EXCEPT ![c] = @ + 1]
    /\ Goto(c, "insert")
    /\ UNCHANGED <<clock, rowVars, want, seen, until, attempt>>

Expiry(c) == lockedAt[c] + TTL

WriteRow(c) ==
    /\ locked_by' = [locked_by EXCEPT ![want[c]] = Owner[c]]
    /\ expires_at' = [expires_at EXCEPT ![want[c]] = Expiry(c)]

Granted(c) ==
    /\ WriteRow(c)
    /\ until' = [until EXCEPT ![c] = Expiry(c)]
    /\ Goto(c, "held")
    /\ UNCHANGED <<attempt>>

AttemptRechecks(c) ==            \* tries again with the expiry it has seen
    Goto(c, "check") /\ UNCHANGED <<attempt, until>>
OneAttemptMore(c) ==             \* the loop ends one call too late
    /\ attempt' = [attempt EXCEPT ![c] = @ + 1]
    /\ Goto(c, IF attempt[c] <= Retries THEN "sleep" ELSE "idle")
    /\ UNCHANGED until

(* AcquireLock returned an error: sleep and try again, or give up.         *)
AttemptFailed(c) ==
    /\ attempt' = [attempt EXCEPT ![c] = @ + 1]
    /\ Goto(c, IF attempt[c] + 1 <= Retries THEN "sleep" ELSE "idle")
    /\ UNCHANGED until

(* INSERT ... IF NOT EXISTS                                                *)
InsertApplied(c) ==
    /\ pc[c] = "insert" /\ locked_by[want[c]] = NoOwner
    /\ Granted(c)
    /\ UNCHANGED <<clock, want, lockedAt, seen, calls>>

InsertRefused(c) ==
    /\ pc[c] = "insert" /\ locked_by[want[c]] # NoOwner
    /\ seen' = [seen EXCEPT ![c] = expires_at[want[c]]]
    /\ Goto(c, "check")
    /\ UNCHANGED <<clock, rowVars, want, lockedAt, until, attempt, calls>>

(* time.Now().Before(exExpiresAt)                                          *)
StillHeld(c) == Now(c) < seen[c]

CheckHeld(c) ==
    /\ pc[c] = "check" /\ StillHeld(c)
    /\ AttemptFailed(c)
    /\ UNCHANGED <<clock, rowVars, want, lockedAt, seen, calls>>

CheckExpired(c) ==
    /\ pc[c] = "check" /\ ~StillHeld(c)
    /\ Goto(c, "update")
    /\ UNCHANGED <<clock, rowVars, want, lockedAt, seen, until, attempt, calls>>

(* UPDATE ... IF expires_at < lockedAt; a row that is gone has no          *)
(* expires_at and the statement is not applied.                            *)
ExpiredAtLimit(c) ==
    locked_by[want[c]] # NoOwner /\ expires_at[want[c]] <= lockedAt[c]
ExpiredWhenSeen(c) ==            \* without the IF of the UPDATE
    locked_by[want[c]] # NoOwner
Expired(c) ==
    /\ locked_by[want[c]] # NoOwner
    /\ expires_at[want[c]] < lockedAt[c]

UpdateApplied(c) ==
    /\ pc[c] = "update" /\ Expired(c)
    /\ Granted(c)
    /\ UNCHANGED <<clock, want, lockedAt, seen, calls>>

UpdateRefused(c) ==
    /\ pc[c] = "update" /\ ~Expired(c)
    /\ AttemptFailed(c)
    /\ UNCHANGED <<clock, rowVars, want, lockedAt, seen, calls>>

(* The driver reports an error; the statement may have been applied.       *)
AcquireError(c) ==
    /\ \/ pc[c] = "insert" /\ locked_by[want[c]] = NoOwner
       \/ pc[c] = "update" /\ Expired(c)
    /\ WriteRow(c) \/ UNCHANGED rowVars
    /\ AttemptFailed(c)
    /\ UNCHANGED <<clock, want, lockedAt, seen, calls>>

(* Unlock and UnlockRow: DELETE ... IF locked_by = owner.  Callers also    *)
(* call it for a lock they do not hold; whatever it returns, the caller    *)
(* does not consider the lock its own afterwards.                          *)
UnlockAnyone(c, n) ==            \* without the IF of the DELETE
    /\ pc[c] \in {"idle", "held"}
    /\ pc[c] = "held" => n = want[c]
    /\ locked_by' = [locked_by EXCEPT ![n] = NoOwner]
    /\ Goto(c, "idle")
    /\ UNCHANGED <<clock, expires_at, want, lockedAt, seen, until, attempt, calls>>
Unlock(c, n) ==
    /\ pc[c] \in {"idle", "held"}
    /\ pc[c] = "held" => n = want[c]
    /\ locked_by' = [locked_by EXCEPT ![n] = IF @ = Owner[c] THEN NoOwner ELSE @]
    /\ Goto(c, "idle")
    /\ UNCHANGED <<clock, expires_at, want, lockedAt, seen, until, attempt, calls>>

(* ReleaseLock failed before it reached Cassandra, or the holder stopped:  *)
(* the row stays until it expires.                                         *)
Abandon(c) ==
    /\ pc[c] = "held"
    /\ Goto(c, "idle")
    /\ UNCHANGED <<clock, rowVars, want, lockedAt, seen, until, attempt, calls>>

-----------------------------------------------------------------------------
Acquire(c) ==
    \/ AcquireStart(c)
    \/ InsertApplied(c) \/ InsertRefused(c)
    \/ CheckHeld(c) \/ CheckExpired(c)
    \/ UpdateApplied(c) \/ UpdateRefused(c)

Next ==
    \/ Tick
    \/ \E c \in Callers :
         \/ Acquire(c) \/ AcquireError(c) \/ Abandon(c)
         \/ \E n \in Names : Lock(c, n) \/ Unlock(c, n)

Spec == Init /\ [][Next]_vars

(* Queries return and sleeping goroutines wake up.                         *)
FairSpec == Spec /\ \A c \in Callers : WF_vars(Acquire(c))

-----------------------------------------------------------------------------
(* Every variable has its type, the loop variable of Lock included.        *)
TypeOK ==
    /\ clock \in Nat
    /\ locked_by \in [Names -> Owners]
    /\ expires_at \in [Names -> Nat]
    /\ pc \in [Callers -> Steps]
    /\ want \in [Callers -> Names]
    /\ lockedAt \in [Callers -> Nat] /\ seen \in [Callers -> Nat]
    /\ until \in [Callers -> Nat]
    /\ attempt \in [Callers -> Nat] /\ calls \in [Callers -> Nat]

(* A caller may rely on its lock as long as the expiry, by its own clock,  *)
(* is at least the clock skew away.                                        *)
Relies(c) == pc[c] = "held" /\ Now(c) + Skew <= until[c]

(* No two callers rely on the same lock at the same time, with expiry,     *)
(* abandoned locks and lost answers (AcquireLock: "Lock exists, check if   *)
(* it's expired and try to update").                                       *)
MutualExclusion ==
    \A c, d \in Callers :
        c # d /\ want[c] = want[d] => ~(Relies(c) /\ Relies(d))

(* The row tells who relies on the lock and until when, so that a          *)
(* conditional statement of anyone else is refused.                        *)
RowOfHolder ==
    \A c \in Callers : Relies(c) =>
        /\ locked_by[want[c]] = Owner[c]
        /\ expires_at[want[c]] = until[c]

(* An unexpired lock, also one that its holder abandoned, changes hands    *)
(* only through ReleaseLock by the owner it names.                         *)
NoTheft ==
    [][\A n \in Names, c \in Callers :
         /\ locked_by[n] = Owner[c]
         /\ clock + Skew <= expires_at[n]
         /\ locked_by'[n] # locked_by[n]
         => \E d \in Callers : Owner[d] = Owner[c] /\ Unlock(d, n)]_vars

(* A call of Lock tries at most Retries + 1 times.                         *)
CallsBounded == \A c \in Callers : calls[c] <= Retries + 1

(* Lock returns: with the lock or with an error after a bounded number of  *)
(* attempts, whatever the other callers do.                                *)
LockReturns ==
    \A c \in Callers : pc[c] = "start" ~> pc[c] \in {"held", "idle"}

(* The callers that rely on each lock: the refinement mapping to Lease.    *)
holders == [n \in Names |-> {c \in Callers : want[c] = n /\ Relies(c)}]
L == INSTANCE Lease WITH holder <- holders

(* The lock implements the lease: with skewed clocks, lost answers and     *)
(* abandoned rows a caller comes to rely on a lock (Lock, LockRow) only    *)
(* when nobody does, and one caller at a time.                             *)
ImplementsLease == L!LeaseSpec

(* The variables of Lock and AcquireLock have their types and the loop of  *)
(* Lock ends in time.                                                      *)
LockSound == TypeOK /\ CallsBounded

(* Whoever relies on a lock is the one its row names, and nobody else      *)
(* relies on it (AcquireLock, ReleaseLock).                                *)
HolderExclusive == RowOfHolder /\ MutualExclusion
=============================================================================
