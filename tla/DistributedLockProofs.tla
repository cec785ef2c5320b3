------------------------ MODULE DistributedLockProofs ------------------------
(***************************************************************************)
(* Proofs about DistributedLock, for any number of callers and names, any  *)
(* ttl, clock skew and number of retries.                                  *)
(***************************************************************************)
EXTENDS DistributedLock, TLAPS

(* Two callers never pass the same owner string.                           *)
DistinctOwners == \A c, d \in Callers : c # d => Owner[c] # Owner[d]

(* lockedAt was read from the caller's own clock.                          *)
StampInPast == \A c \in Callers : lockedAt[c] <= Now(c)

(* attempt is the loop variable of Lock: it counts the calls that failed.  *)
InCall(c) == pc[c] \in {"insert", "check", "update"}
LoopCounts ==
    \A c \in Callers :
        /\ calls[c] <= Retries + 1
        /\ pc[c] \in {"start", "sleep"} => calls[c] = attempt[c] /\ attempt[c] <= Retries
        /\ InCall(c) => calls[c] = attempt[c] + 1 /\ attempt[c] <= Retries

(* The type of the lock table and of the callers' local variables is       *)
(* preserved by every statement of AcquireLock, ReleaseLock and Lock.      *)
THEOREM TypeCorrect == Spec => []TypeOK
<1>1. Init => TypeOK
  BY DEF Init, TypeOK, Steps, Owners
<1>2. TypeOK /\ [Next]_vars => TypeOK'
  <2> SUFFICES ASSUME TypeOK, [Next]_vars PROVE TypeOK'
    OBVIOUS
  <2> USE ConstantsOK DEF TypeOK, Owners
  <2>1. CASE Tick
    BY <2>1 DEF Tick, rowVars
  <2>2. ASSUME NEW c \in Callers, AcquireStart(c) PROVE TypeOK'
    BY <2>2 DEF AcquireStart, Now, Goto, Steps, rowVars
  <2>3. ASSUME NEW c \in Callers, InsertApplied(c) \/ UpdateApplied(c)
        PROVE TypeOK'
    BY <2>3 DEF InsertApplied, UpdateApplied, Granted, WriteRow, Expiry, Goto, Steps
  <2>4. ASSUME NEW c \in Callers, InsertRefused(c) \/ CheckExpired(c)
        PROVE TypeOK'
    BY <2>4 DEF InsertRefused, CheckExpired, Goto, Steps, rowVars
  <2>5. ASSUME NEW c \in Callers, CheckHeld(c) \/ UpdateRefused(c)
        PROVE TypeOK'
    BY <2>5 DEF CheckHeld, UpdateRefused, AttemptFailed, Goto, Steps, rowVars
  <2>6. ASSUME NEW c \in Callers, AcquireError(c) PROVE TypeOK'
    <3>1. locked_by' \in [Names -> Owners] /\ expires_at' \in [Names -> Nat]
      BY <2>6 DEF AcquireError, WriteRow, Expiry, rowVars
    <3>2. QED BY <2>6, <3>1 DEF AcquireError, AttemptFailed, Goto, Steps
  <2>7. ASSUME NEW c \in Callers, Abandon(c) PROVE TypeOK'
    BY <2>7 DEF Abandon, Goto, Steps, rowVars
  <2>8. ASSUME NEW c \in Callers, NEW n \in Names, Lock(c, n) PROVE TypeOK'
    BY <2>8 DEF Lock, Goto, Steps, rowVars
  <2>9. ASSUME NEW c \in Callers, NEW n \in Names, Unlock(c, n) PROVE TypeOK'
    BY <2>9 DEF Unlock, Goto, Steps
  <2>10. CASE UNCHANGED vars
    BY <2>10 DEF vars, rowVars
  <2>11. QED
    BY <2>1, <2>2, <2>3, <2>4, <2>5, <2>6, <2>7, <2>8, <2>9, <2>10
       DEF Next, Acquire
<1>3. QED BY <1>1, <1>2, PTL DEF Spec

-----------------------------------------------------------------------------
(* The local clock lies between the true time and the skew.                *)
LEMMA NowBounds ==
    ASSUME TypeOK, NEW c \in Callers
    PROVE  /\ Now(c) \in Nat /\ Offset[c] \in Nat
           /\ clock <= Now(c) /\ Now(c) <= clock + Skew
BY ConstantsOK DEF TypeOK, Now

(* No call of AcquireLock has read the clock yet.                          *)
LEMMA StampInit == Init => StampInPast
<1> SUFFICES ASSUME Init, NEW c \in Callers PROVE lockedAt[c] <= Now(c)
  BY DEF StampInPast
<1>1. Offset[c] \in Nat
  BY ConstantsOK
<1>2. lockedAt[c] = 0 /\ clock = 0
  BY DEF Init
<1>3. QED BY <1>1, <1>2 DEF Now

(* AcquireLock reads lockedAt from a clock that never goes back, so that   *)
(* it lies in the past when the statements are executed.                   *)
LEMMA StampStep == TypeOK /\ StampInPast /\ [Next]_vars => StampInPast'
<1> SUFFICES ASSUME TypeOK, StampInPast, [Next]_vars PROVE StampInPast'
  OBVIOUS
<1>1. \A c \in Callers : Offset[c] \in Nat /\ Now(c) \in Nat /\ lockedAt[c] \in Nat
  BY NowBounds DEF TypeOK
<1>2. CASE Tick
  BY <1>1, <1>2 DEF Tick, StampInPast, Now, TypeOK
<1>3. ASSUME NEW c \in Callers, AcquireStart(c) PROVE StampInPast'
  BY <1>1, <1>3 DEF AcquireStart, StampInPast, Now, TypeOK
<1>4. CASE UNCHANGED <<clock, lockedAt>>
  BY <1>4 DEF StampInPast, Now
<1>5. QED
  BY <1>2, <1>3, <1>4
     DEF Next, Acquire, InsertApplied, InsertRefused, CheckHeld, CheckExpired,
         UpdateApplied, UpdateRefused, AcquireError, Abandon, Lock, Unlock, vars

(* A row that is unexpired, even by the fastest clock, is not replaced.    *)
LEMMA UnexpiredIsSafe ==
    ASSUME TypeOK, StampInPast, NEW c \in Callers,
           clock + Skew <= expires_at[want[c]]
    PROVE  ~Expired(c)
<1>1. lockedAt[c] <= clock + Skew /\ lockedAt[c] \in Nat
  BY NowBounds, ConstantsOK DEF StampInPast, TypeOK
<1>2. expires_at[want[c]] \in Nat
  BY DEF TypeOK
<1>3. QED BY <1>1, <1>2, ConstantsOK DEF Expired, TypeOK

(* A caller that relies on a lock by its own clock relies on an expiry     *)
(* that no other clock has passed.                                         *)
LEMMA ReliesBounds ==
    ASSUME TypeOK, NEW c \in Callers, Relies(c)
    PROVE  clock + Skew <= until[c]
BY NowBounds, ConstantsOK DEF Relies, TypeOK

(* Every step keeps the row of a caller that relies on its lock.           *)
LEMMA RowStep ==
    ASSUME DistinctOwners, TypeOK, TypeOK', StampInPast, RowOfHolder, [Next]_vars
    PROVE  RowOfHolder'
<1> USE DEF RowOfHolder
<1> SUFFICES ASSUME NEW c \in Callers, Relies(c)'
             PROVE  /\ locked_by'[want'[c]] = Owner[c]
                    /\ expires_at'[want'[c]] = until'[c]
  OBVIOUS
<1>1. ASSUME pc'[c] = pc[c], until'[c] = until[c], want'[c] = want[c]
      PROVE  Relies(c) /\ locked_by[want[c]] = Owner[c]
             /\ expires_at[want[c]] = until[c]
  <2>1. clock <= clock' /\ clock \in Nat /\ clock' \in Nat
    BY DEF Next, Tick, Acquire, AcquireStart, InsertApplied, InsertRefused, CheckHeld,
           CheckExpired, UpdateApplied, UpdateRefused, AcquireError, Abandon,
           Lock, Unlock, vars, TypeOK
  <2>2. Relies(c)
    BY <1>1, <2>1, NowBounds, ConstantsOK DEF Relies, Now, TypeOK
  <2>3. QED BY <2>2
<1>2. CASE Tick \/ UNCHANGED vars
  BY <1>1, <1>2 DEF Tick, vars, rowVars
<1>3. ASSUME NEW d \in Callers, InsertApplied(d) \/ UpdateApplied(d)
      PROVE  /\ locked_by'[want'[c]] = Owner[c]
             /\ expires_at'[want'[c]] = until'[c]
  <2>1. CASE d = c
    BY <1>3, <2>1 DEF InsertApplied, UpdateApplied, Granted, WriteRow, TypeOK
  <2>2. CASE d # c
    <3>1. pc'[c] = pc[c] /\ until'[c] = until[c] /\ want' = want
      BY <1>3, <2>2 DEF InsertApplied, UpdateApplied, Granted, Goto, TypeOK
    <3>2. Relies(c) /\ locked_by[want[c]] = Owner[c]
          /\ expires_at[want[c]] = until[c]
      BY <1>1, <3>1
    <3>3. want[d] # want[c]
      <4>1. ASSUME want[d] = want[c] PROVE locked_by[want[d]] # NoOwner
        BY <3>2, <4>1, ConstantsOK
      <4>2. ASSUME want[d] = want[c] PROVE ~Expired(d)
        BY <3>2, <4>2, UnexpiredIsSafe, ReliesBounds
      <4>3. QED BY <1>3, <4>1, <4>2 DEF InsertApplied, UpdateApplied
    <3>4. QED
      BY <1>3, <3>1, <3>2, <3>3
         DEF InsertApplied, UpdateApplied, Granted, WriteRow, TypeOK
  <2>3. QED BY <2>1, <2>2
<1>4. ASSUME NEW d \in Callers, AcquireError(d)
      PROVE  /\ locked_by'[want'[c]] = Owner[c]
             /\ expires_at'[want'[c]] = until'[c]
  <2>1. pc'[c] = pc[c] /\ until'[c] = until[c] /\ want' = want
    BY <1>4 DEF AcquireError, AttemptFailed, Goto, Relies, TypeOK
  <2>2. Relies(c) /\ locked_by[want[c]] = Owner[c]
        /\ expires_at[want[c]] = until[c]
    BY <1>1, <2>1
  <2>3. want[d] # want[c]
    <3>1. ASSUME want[d] = want[c] PROVE locked_by[want[d]] # NoOwner
      BY <2>2, <3>1, ConstantsOK
    <3>2. ASSUME want[d] = want[c] PROVE ~Expired(d)
      BY <2>2, <3>2, UnexpiredIsSafe, ReliesBounds
    <3>3. QED BY <1>4, <3>1, <3>2 DEF AcquireError
  <2>4. QED BY <1>4, <2>1, <2>2, <2>3 DEF AcquireError, WriteRow, rowVars, TypeOK
<1>5. ASSUME NEW d \in Callers, NEW n \in Names, Unlock(d, n)
      PROVE  /\ locked_by'[want'[c]] = Owner[c]
             /\ expires_at'[want'[c]] = until'[c]
  <2>1. d # c /\ pc'[c] = pc[c]
    BY <1>5 DEF Unlock, Goto, Relies, TypeOK
  <2>2. Relies(c) /\ locked_by[want[c]] = Owner[c]
        /\ expires_at[want[c]] = until[c]
    BY <1>1, <1>5, <2>1 DEF Unlock
  <2>3. Owner[d] # Owner[c]
    BY <2>1 DEF DistinctOwners
  <2>4. QED BY <1>5, <2>2, <2>3 DEF Unlock, TypeOK
<1>6. ASSUME NEW d \in Callers, NEW n \in Names, Lock(d, n)
      PROVE  /\ locked_by'[want'[c]] = Owner[c]
             /\ expires_at'[want'[c]] = until'[c]
  <2>1. d # c /\ pc'[c] = pc[c] /\ want'[c] = want[c]
    BY <1>6 DEF Lock, Goto, Relies, TypeOK
  <2>2. QED BY <1>1, <1>6, <2>1 DEF Lock, rowVars
<1>7. ASSUME NEW d \in Callers,
             AcquireStart(d) \/ InsertRefused(d) \/ CheckHeld(d)
               \/ CheckExpired(d) \/ UpdateRefused(d) \/ Abandon(d)
      PROVE  /\ locked_by'[want'[c]] = Owner[c]
             /\ expires_at'[want'[c]] = until'[c]
  <2>1. pc'[c] = pc[c]
    BY <1>7 DEF AcquireStart, InsertRefused, CheckHeld, CheckExpired,
                UpdateRefused, Abandon, AttemptFailed, Goto, Relies, TypeOK
  <2>2. UNCHANGED <<locked_by, expires_at, want, until>>
    BY <1>7 DEF AcquireStart, InsertRefused, CheckHeld, CheckExpired,
                UpdateRefused, Abandon, AttemptFailed, rowVars
  <2>3. QED BY <1>1, <2>1, <2>2
<1>8. QED
  BY <1>2, <1>3, <1>4, <1>5, <1>6, <1>7 DEF Next, Acquire

(* While a caller relies on its lock, the row in the table names it and    *)
(* its expiry (AcquireLock, ReleaseLock).                                  *)
THEOREM HolderOwnsRow == ASSUME DistinctOwners PROVE Spec => []RowOfHolder
<1>1. Init => StampInPast /\ RowOfHolder
  BY ConstantsOK DEF Init, StampInPast, RowOfHolder, Relies, Now
<1>2. TypeOK /\ TypeOK' /\ StampInPast /\ RowOfHolder /\ [Next]_vars
        => StampInPast' /\ RowOfHolder'
  BY StampStep, RowStep
<1>3. QED BY <1>1, <1>2, TypeCorrect, PTL DEF Spec

(* At most one caller relies on a lock: the row names only one of them.    *)
THEOREM LockIsExclusive == ASSUME DistinctOwners PROVE Spec => []MutualExclusion
<1>1. RowOfHolder => MutualExclusion
  BY DEF RowOfHolder, MutualExclusion, DistinctOwners
<1>2. QED BY <1>1, HolderOwnsRow, PTL

-----------------------------------------------------------------------------
(* An unexpired row changes hands only when its owner releases it, with    *)
(* any assignment of owner strings to callers.                             *)
THEOREM UnexpiredLockIsKept == Spec => NoTheft
<1> DEFINE Kept ==
      \A n \in Names, c \in Callers :
         /\ locked_by[n] = Owner[c]
         /\ clock + Skew <= expires_at[n]
         /\ locked_by'[n] # locked_by[n]
         => \E d \in Callers : Owner[d] = Owner[c] /\ Unlock(d, n)
<1>1. Init => StampInPast
  BY StampInit
<1>2. TypeOK /\ StampInPast /\ [Next]_vars => Kept
  <2> SUFFICES ASSUME TypeOK, StampInPast, [Next]_vars,
                      NEW n \in Names, NEW c \in Callers,
                      locked_by[n] = Owner[c],
                      clock + Skew <= expires_at[n],
                      locked_by'[n] # locked_by[n]
               PROVE  \E d \in Callers : Owner[d] = Owner[c] /\ Unlock(d, n)
    OBVIOUS
  <2>1. locked_by[n] # NoOwner
    BY ConstantsOK
  <2>2. ASSUME NEW d \in Callers,
               InsertApplied(d) \/ UpdateApplied(d) \/ AcquireError(d)
        PROVE  FALSE
    <3>1. want[d] = n
      BY <2>2 DEF InsertApplied, UpdateApplied, AcquireError, Granted, WriteRow,
                  rowVars, TypeOK
    <3>2. ~Expired(d)
      BY <3>1, UnexpiredIsSafe
    <3>3. QED BY <2>1, <2>2, <3>1, <3>2 DEF InsertApplied, UpdateApplied, AcquireError
  <2>3. ASSUME NEW d \in Callers, NEW m \in Names, Unlock(d, m)
        PROVE  Owner[d] = Owner[c] /\ Unlock(d, n)
    <3>1. m = n /\ locked_by[n] = Owner[d]
      BY <2>3 DEF Unlock, TypeOK
    <3>2. QED BY <2>3, <3>1
  <2>4. ASSUME NEW d \in Callers,
               \/ AcquireStart(d) \/ InsertRefused(d) \/ CheckHeld(d)
               \/ CheckExpired(d) \/ UpdateRefused(d) \/ Abandon(d)
               \/ \E m \in Names : Lock(d, m)
        PROVE  FALSE
    BY <2>4 DEF AcquireStart, InsertRefused, CheckHeld, CheckExpired,
                UpdateRefused, Abandon, Lock, rowVars
  <2>5. CASE Tick \/ UNCHANGED vars
    BY <2>5 DEF Tick, vars, rowVars
  <2>6. QED BY <2>2, <2>3, <2>4, <2>5 DEF Next, Acquire
<1>3. Spec => [](TypeOK /\ StampInPast)
  BY <1>1, StampStep, TypeCorrect, PTL DEF Spec
<1>4. QED BY <1>2, <1>3, PTL DEF Spec, NoTheft

(* Lock calls AcquireLock at most retries + 1 times.                       *)
THEOREM RetriesAreBounded == Spec => []CallsBounded
<1>1. Init => LoopCounts
  <2> SUFFICES ASSUME Init, NEW c \in Callers
               PROVE  /\ calls[c] <= Retries + 1
                      /\ pc[c] \notin {"start", "sleep"} /\ ~InCall(c)
    BY DEF LoopCounts
  <2>1. calls[c] = 0 /\ pc[c] = "idle" /\ Retries \in Nat
    BY ConstantsOK DEF Init
  <2>2. QED BY <2>1 DEF InCall
<1>2. TypeOK /\ LoopCounts /\ [Next]_vars => LoopCounts'
  <2> SUFFICES ASSUME TypeOK, LoopCounts, [Next]_vars PROVE LoopCounts'
    OBVIOUS
  <2> USE ConstantsOK DEF TypeOK, LoopCounts, InCall, Goto
  <2>1. ASSUME NEW c \in Callers, AcquireStart(c) PROVE LoopCounts'
    BY <2>1 DEF AcquireStart
  <2>2. ASSUME NEW c \in Callers, InsertApplied(c) \/ UpdateApplied(c)
        PROVE LoopCounts'
    BY <2>2 DEF InsertApplied, UpdateApplied, Granted
  <2>3. ASSUME NEW c \in Callers, InsertRefused(c) \/ CheckExpired(c)
        PROVE LoopCounts'
    BY <2>3 DEF InsertRefused, CheckExpired
  <2>4. ASSUME NEW c \in Callers,
               CheckHeld(c) \/ UpdateRefused(c) \/ AcquireError(c)
        PROVE LoopCounts'
    BY <2>4 DEF CheckHeld, UpdateRefused, AcquireError, AttemptFailed
  <2>5. ASSUME NEW c \in Callers,
               Abandon(c) \/ \E n \in Names : Lock(c, n) \/ Unlock(c, n)
        PROVE LoopCounts'
    BY <2>5 DEF Abandon, Lock, Unlock
  <2>6. CASE Tick \/ UNCHANGED vars
    BY <2>6 DEF Tick, vars
  <2>7. QED BY <2>1, <2>2, <2>3, <2>4, <2>5, <2>6 DEF Next, Acquire
<1>3. LoopCounts => CallsBounded
  BY DEF LoopCounts, CallsBounded
<1>4. QED BY <1>1, <1>2, <1>3, TypeCorrect, PTL DEF Spec

(* Types and the bound on the attempts of Lock hold together.              *)
THEOREM LockIsSound == Spec => []LockSound
<1>1. TypeOK /\ CallsBounded => LockSound
  BY DEF LockSound
<1>2. QED BY <1>1, TypeCorrect, RetriesAreBounded, PTL

(* With distinct owner strings at most one caller relies on a lock, and    *)
(* the row names it.                                                       *)
THEOREM HolderIsExclusive == ASSUME DistinctOwners PROVE Spec => []HolderExclusive
<1>1. RowOfHolder /\ MutualExclusion => HolderExclusive
  BY DEF HolderExclusive
<1>2. QED BY <1>1, HolderOwnsRow, LockIsExclusive, PTL

-----------------------------------------------------------------------------
(* The refinement of Lease.  A step that grants no lock only ends leases.  *)
NoneAdded == \A c \in Callers : Relies(c)' => Relies(c) /\ want'[c] = want[c]

(* Time and the clocks never go back, so a caller that neither gets nor    *)
(* asks for a lock comes to rely on none.                                  *)
LEMMA OthersRelyLess ==
    ASSUME TypeOK, TypeOK', [Next]_vars, NEW c \in Callers, Relies(c)',
           pc'[c] = pc[c], until'[c] = until[c]
    PROVE  Relies(c)
<1>1. clock <= clock' /\ clock \in Nat /\ clock' \in Nat
  BY DEF Next, Tick, Acquire, AcquireStart, InsertApplied, InsertRefused, CheckHeld,
         CheckExpired, UpdateApplied, UpdateRefused, AcquireError, Abandon,
         Lock, Unlock, vars, TypeOK
<1>2. QED BY <1>1, NowBounds, ConstantsOK DEF Relies, Now, TypeOK

(* INSERT and UPDATE are applied only where nobody relies on the lock.     *)
LEMMA GrantIsExclusive ==
    ASSUME TypeOK, StampInPast, RowOfHolder, NEW c \in Callers,
           InsertApplied(c) \/ UpdateApplied(c), NEW d \in Callers, want[d] = want[c]
    PROVE  ~Relies(d)
<1> SUFFICES ASSUME Relies(d) PROVE FALSE
  OBVIOUS
<1>1. locked_by[want[c]] # NoOwner
  BY ConstantsOK DEF RowOfHolder
<1>2. ~Expired(c)
  BY UnexpiredIsSafe, ReliesBounds DEF RowOfHolder
<1>3. QED BY <1>1, <1>2 DEF InsertApplied, UpdateApplied

(* Everything but a granted lock ends leases at most.                      *)
LEMMA OtherStepsAddNone ==
    ASSUME TypeOK, TypeOK', [Next]_vars,
           \A d \in Callers : ~InsertApplied(d) /\ ~UpdateApplied(d)
    PROVE  NoneAdded
<1> SUFFICES ASSUME NEW c \in Callers, Relies(c)'
             PROVE  Relies(c) /\ want'[c] = want[c]
  BY DEF NoneAdded
<1>1. pc'[c] = pc[c] /\ until'[c] = until[c] /\ want'[c] = want[c]
  <2>1. CASE Tick \/ UNCHANGED vars
    BY <2>1 DEF Tick, vars
  <2>2. ASSUME NEW d \in Callers, AcquireStart(d) \/ InsertRefused(d) \/ CheckExpired(d)
        PROVE  pc'[c] = pc[c] /\ until'[c] = until[c] /\ want'[c] = want[c]
    BY <2>2 DEF AcquireStart, InsertRefused, CheckExpired, Goto, Relies, TypeOK
  <2>3. ASSUME NEW d \in Callers, CheckHeld(d) \/ UpdateRefused(d) \/ AcquireError(d)
        PROVE  pc'[c] = pc[c] /\ until'[c] = until[c] /\ want'[c] = want[c]
    BY <2>3 DEF CheckHeld, UpdateRefused, AcquireError, AttemptFailed, Goto, Relies, TypeOK
  <2>4. ASSUME NEW d \in Callers, NEW n \in Names, Abandon(d) \/ Lock(d, n) \/ Unlock(d, n)
        PROVE  pc'[c] = pc[c] /\ until'[c] = until[c] /\ want'[c] = want[c]
    BY <2>4 DEF Abandon, Lock, Unlock, Goto, Relies, TypeOK
  <2>5. Names # {}
    BY DEF TypeOK
  <2>6. QED BY <2>1, <2>2, <2>3, <2>4, <2>5 DEF Next, Acquire
<1>2. QED BY <1>1, OthersRelyLess

(* Such a step is one that lets leases lapse.                              *)
LEMMA NoneAddedIsLapse ==
    ASSUME TypeOK, TypeOK', MutualExclusion, NoneAdded
    PROVE  L!LeaseNext
<1> DEFINE S == {n \in Names : holders'[n] = {}}
<1>1. ASSUME NEW n \in Names, holders'[n] # {} PROVE holders'[n] = holders[n]
  <2>1. PICK c \in Callers : want'[c] = n /\ Relies(c)'
    BY <1>1 DEF holders
  <2>2. want[c] = n /\ Relies(c)
    BY <2>1 DEF NoneAdded
  <2>3. \A d \in Callers : want[d] = n /\ Relies(d) => d = c
    BY <2>2 DEF MutualExclusion
  <2>4. \A d \in Callers : want'[d] = n /\ Relies(d)' => d = c
    BY <2>3 DEF NoneAdded
  <2>5. holders[n] = {c} /\ holders'[n] = {c}
    BY <2>1, <2>2, <2>3, <2>4 DEF holders
  <2>6. QED BY <2>5
<1>2. holders' = [n \in Names |-> IF n \in S THEN {} ELSE holders[n]]
  BY <1>1 DEF holders
<1>3. L!Lapse(S) /\ S \in SUBSET Names
  BY <1>2 DEF L!Lapse
<1>4. QED BY <1>3 DEF L!LeaseNext

(* A granted lock is a lease for its caller, or none if its expiry is      *)
(* already too near to rely on.                                            *)
LEMMA GrantIsGrant ==
    ASSUME TypeOK, TypeOK', [Next]_vars, StampInPast, RowOfHolder, MutualExclusion,
           NEW c \in Callers, InsertApplied(c) \/ UpdateApplied(c)
    PROVE  L!LeaseNext
<1> DEFINE n == want[c]
<1>1. UNCHANGED <<clock, want>> /\ \A d \in Callers \ {c} : pc'[d] = pc[d] /\ until'[d] = until[d]
  BY DEF InsertApplied, UpdateApplied, Granted, Goto, TypeOK
<1>2. \A d \in Callers \ {c} : Relies(d)' <=> Relies(d)
  BY <1>1 DEF Relies, Now
<1>3. \A d \in Callers : want[d] = n => ~Relies(d)
  BY GrantIsExclusive
<1>4. n \in Names
  BY DEF TypeOK
<1>5. CASE Relies(c)'
  <2>1. holders[n] = {}
    BY <1>3, <1>4 DEF holders
  <2>2. \A m \in Names \ {n} : holders'[m] = holders[m]
    BY <1>1, <1>2, <1>3 DEF holders
  <2>3. holders'[n] = {c}
    BY <1>1, <1>2, <1>3, <1>4, <1>5 DEF holders
  <2>4. holders' = [holders EXCEPT ![n] = {c}]
    BY <2>2, <2>3, <1>4 DEF holders
  <2>5. L!Grant(c, n)
    BY <2>1, <2>4 DEF L!Grant
  <2>6. QED BY <2>5, <1>4 DEF L!LeaseNext
<1>6. CASE ~Relies(c)'
  <2>1. NoneAdded
    BY <1>1, <1>2, <1>6 DEF NoneAdded
  <2>2. QED BY <2>1, NoneAddedIsLapse
<1>7. QED BY <1>5, <1>6

(* With distinct owner strings, the lock table, its conditional statements *)
(* and the retry loop implement the lease: a caller comes to rely on a     *)
(* lock only when nobody does.                                             *)
THEOREM LockImplementsLease == ASSUME DistinctOwners PROVE Spec => ImplementsLease
<1>1. Init => L!LeaseInit
  <2> SUFFICES ASSUME Init PROVE holders = [n \in Names |-> {}]
    BY DEF L!LeaseInit
  <2>1. \A c \in Callers : ~Relies(c)
    BY DEF Init, Relies
  <2>2. QED BY <2>1 DEF holders
<1>2. /\ TypeOK /\ TypeOK' /\ StampInPast /\ RowOfHolder /\ MutualExclusion
      /\ [Next]_vars
      => [L!LeaseNext]_holders
  BY GrantIsGrant, OtherStepsAddNone, NoneAddedIsLapse
<1>3. Init => StampInPast
  BY StampInit
<1>4. Spec => [](TypeOK /\ StampInPast)
  BY <1>3, StampStep, TypeCorrect, PTL DEF Spec
<1>5. QED
  BY <1>1, <1>2, <1>4, HolderOwnsRow, LockIsExclusive, PTL
     DEF Spec, ImplementsLease, L!LeaseSpec
=============================================================================
