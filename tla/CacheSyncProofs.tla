--------------------------- MODULE CacheSyncProofs ---------------------------
(***************************************************************************)
(* Proofs about CacheSync, for any number of servers, keys, writes and     *)
(* retries: the types, the bound on the attempts, and that the time a      *)
(* ticker syncs from never moves back, hold under all faults; that the     *)
(* caches keep up with the database holds under the conditions of Benign.  *)
(***************************************************************************)
EXTENDS CacheSync, FiniteSetTheorems, TLAPS

T(s) == <<s, "ticker">>
Round == {"load", "apply", "wipe", "read", "put"}

(* refreshAttemptsLeft: a ticker in a full refresh has no attempts left,   *)
(* one in an incremental sync has some, so that it can be decremented.     *)
AttemptsOK ==
    \A s \in Servers :
        /\ attempts[s] <= (IF Retry = 0 THEN 1 ELSE Retry)
        /\ pc[T(s)] \in Round =>
             IF job[T(s)].full THEN attempts[s] = 0 ELSE attempts[s] > 0

(* An agent is a server with one of its three processes.                   *)
LEMMA AgentParts ==
    /\ \A a \in Agents : a[1] \in Servers /\ a[2] \in Procs /\ a = <<a[1], a[2]>>
    /\ \A s \in Servers, p \in Procs : <<s, p>> \in Agents
    /\ \A s \in Servers : T(s) \in Agents /\ T(s)[1] = s /\ T(s)[2] = "ticker"
    /\ \A a \in Agents : a[2] = "ticker" => a = T(a[1])
    /\ \A s \in Servers, t \in Servers : T(s) = T(t) => s = t
BY DEF Agents, Procs, T

LEMMA EmptyTypes == EmptyTable \in Table /\ NoJob \in Job
BY DEF EmptyTable, Table, Absent, NoJob, Job, NoLogRow

(* RowKey of a time is a number.                                           *)
LEMMA RowKeyType == \A t \in Nat : RowKey(t) \in Int
BY ConstantsOK DEF RowKey

LEMMA SizeType ==
    ASSUME NEW s, NEW k
    PROVE  Size(s) \in Nat /\ Cardinality(Cached(s) \cup {k}) \in Nat
<1>1. Cached(s) \subseteq Keys /\ IsFiniteSet(Keys)
  BY ConstantsOK DEF Cached
<1>2. IsFiniteSet(Cached(s))
  BY <1>1, FS_Subset
<1>3. IsFiniteSet(Cached(s) \cup {k})
  BY <1>2, FS_AddElement
<1>4. QED BY <1>2, <1>3, FS_CardinalityType DEF Size

(* A row of a cache, or a whole cache, is replaced by values of the type.  *)
LEMMA PutType ==
    ASSUME TypeOK, NEW s \in Servers, NEW k \in Keys, NEW v \in Nat
    PROVE  [cache EXCEPT ![s][k] = v] \in [Servers -> Table]
BY DEF TypeOK, Table

LEMMA EvictType ==
    ASSUME TypeOK, NEW s \in Servers, NEW K, Evict(s, K)
    PROVE  /\ cache' \in [Servers -> Table]
           /\ reload' \in [Servers -> SUBSET Keys]
           /\ fills' \in [Servers -> SUBSET Fill]
BY DEF TypeOK, Evict, Table, Absent

LEMMA InitType == Init => TypeOK /\ AttemptsOK
<1> SUFFICES ASSUME Init PROVE TypeOK /\ AttemptsOK
  OBVIOUS
<1>1. db \in Table
  BY DEF Init, Table, Absent
<1>2. cache \in [Servers -> Table] /\ job \in [Agents -> Job]
  BY EmptyTypes DEF Init
<1>3. pc \in [Agents -> Steps]
  BY DEF Init, Steps
<1>4. TypeOK
  BY <1>1, <1>2, <1>3, ConstantsOK DEF Init, TypeOK
<1>5. \A s \in Servers : pc[T(s)] = "boot" /\ attempts[s] = Retry
  BY AgentParts DEF Init
<1>6. QED BY <1>4, <1>5, ConstantsOK DEF AttemptsOK, Round

(* A record that is logged is of the type of the log.                      *)
LEMMA StampType ==
    ASSUME TypeOK, NEW g \in spawned
    PROVE  [seq |-> stamped + 1, ts |-> clock, key |-> g.key,
            origin |-> g.origin, operation |-> g.operation,
            size |-> g.size, known |-> TRUE] \in ChangedData
BY DEF TypeOK, PendingData, ChangedData

(* Writes, log records and loads keep the types; they do not touch the     *)
(* tickers.                                                                *)
LEMMA WriteTypes ==
    ASSUME TypeOK,
           \/ Tick \/ WriteStep
           \/ \E s \in Servers, k \in Keys :
                \/ SetOneStore(s, k) \/ DeleteOneStore(s, k) \/ SetOneTimeout(s, k)
                \/ ReloadFail(s, k) \/ LoadRow(s, k) \/ ReloadLand(s, k)
           \/ \E s \in Servers : \E f \in fills[s] : StoreRow(s, f)
           \/ \E r \in inflight : WriteCacheLogFail(r)
           \/ \E k \in Keys, o \in Operations : OtherServiceLogs(k, o)
    PROVE  TypeOK' /\ UNCHANGED taskVars
<1> USE DEF TypeOK
<1>1. CASE Tick
  BY <1>1 DEF Tick, logVars, cacheVars, taskVars
<1>2. ASSUME NEW s \in Servers, NEW k \in Keys, NEW v \in Nat,
             Store(s, k, v), writing' \subseteq Write
      PROVE TypeOK' /\ UNCHANGED taskVars
  BY <1>2 DEF Store, Table, logVars, cacheVars, taskVars
<1>3. ASSUME NEW s \in Servers, NEW k \in Keys,
             SetOneStore(s, k) \/ DeleteOneStore(s, k) \/ SetOneTimeout(s, k)
      PROVE TypeOK' /\ UNCHANGED taskVars
  <2>1. events + 1 \in Nat /\ Absent \in Nat
    BY DEF Absent
  <2>2. writing' \subseteq Write
    BY <1>3, <2>1 DEF SetOneStore, DeleteOneStore, SetOneTimeout, Write
  <2>3. QED BY <1>2, <1>3, <2>1, <2>2 DEF SetOneStore, DeleteOneStore, SetOneTimeout
<1>4. ASSUME NEW w \in writing, SetOneCache(w) \/ DeleteOneCache(w)
      PROVE TypeOK' /\ UNCHANGED taskVars
  <2>1. w.origin \in Servers /\ w.key \in Keys /\ w.val \in Nat
    BY DEF Write
  <2>2. spawned' \subseteq PendingData
    <3>1. ASSUME NEW o \in Operations, NEW n \in Int, SpawnLog(w, o, n)
          PROVE  spawned' \subseteq PendingData
      BY <2>1, <3>1 DEF SpawnLog, PendingData
    <3>2. CASE SetOneCache(w)
      <4>1. SpawnLog(w, "CREATE", Cardinality(Cached(w.origin) \cup {w.key}))
        BY <3>2 DEF SetOneCache
      <4>0. Cardinality(Cached(w.origin) \cup {w.key}) \in Nat
        BY SizeType, Zenon
      <4>2. Cardinality(Cached(w.origin) \cup {w.key}) \in Int
        BY <4>0
      <4>3. "CREATE" \in Operations
        BY DEF Operations
      <4>4. QED BY <3>1, <4>1, <4>2, <4>3
    <3>3. CASE DeleteOneCache(w)
      <4>1. SpawnLog(w, "DELETE", Size(w.origin) - 1)
        BY <3>3 DEF DeleteOneCache
      <4>0. Size(w.origin) \in Nat
        BY SizeType, Zenon
      <4>2. Size(w.origin) - 1 \in Int
        BY <4>0
      <4>3. "DELETE" \in Operations
        BY DEF Operations
      <4>4. QED BY <3>1, <4>1, <4>2, <4>3
    <3>4. QED BY <1>4, <3>2, <3>3
  <2>3. CASE SetOneCache(w)
    <3>1. cache' \in [Servers -> Table]
      BY <2>1, <2>3, PutType DEF SetOneCache
    <3>2. QED BY <2>2, <2>3, <3>1 DEF SetOneCache, dbVars, taskVars
  <2>4. CASE DeleteOneCache(w)
    <3>1. Evict(w.origin, {w.key})
      BY <2>4 DEF DeleteOneCache
    <3>2. QED BY <2>1, <2>2, <2>4, <3>1, EvictType DEF DeleteOneCache, dbVars, taskVars
  <2>5. QED BY <1>4, <2>3, <2>4
<1>5. ASSUME NEW g \in spawned, WriteCacheLogStamp(g)
      PROVE TypeOK' /\ UNCHANGED taskVars
  BY <1>5, StampType DEF WriteCacheLogStamp, dbVars, cacheVars, taskVars
<1>6. ASSUME NEW r \in inflight, WriteCacheLogLand(r) \/ WriteCacheLogFail(r)
      PROVE TypeOK' /\ UNCHANGED taskVars
  BY <1>6 DEF WriteCacheLogLand, WriteCacheLogFail, dbVars, cacheVars, taskVars
<1>7. ASSUME NEW k \in Keys, NEW o \in Operations, OtherServiceLogs(k, o)
      PROVE TypeOK' /\ UNCHANGED taskVars
  <2>1. db' \in Table
    BY <1>7 DEF OtherServiceLogs, Table, Absent
  <2>2. changed' \subseteq ChangedData
    <3>1. PICK known \in BOOLEAN : changed' = changed \cup
            {[seq |-> stamped + 1, ts |-> clock, key |-> k, origin |-> "other",
              operation |-> o, size |-> 1, known |-> known]}
      BY <1>7 DEF OtherServiceLogs
    <3>2. [seq |-> stamped + 1, ts |-> clock, key |-> k, origin |-> "other",
           operation |-> o, size |-> 1, known |-> known] \in ChangedData
      BY DEF ChangedData
    <3>3. QED BY <3>1, <3>2
  <2>3. QED BY <1>7, <2>1, <2>2 DEF OtherServiceLogs, cacheVars, taskVars
<1>8. ASSUME NEW s \in Servers, NEW k \in Keys, ReloadFail(s, k) \/ ReloadLand(s, k)
      PROVE TypeOK' /\ UNCHANGED taskVars
  <2>1. CASE ReloadLand(s, k)
    <3>1. cache[s][k] \in Nat /\ db[k] \in Nat
      BY DEF Table
    <3>2. cache' \in [Servers -> Table]
      BY <2>1, <3>1, PutType DEF ReloadLand
    <3>3. QED BY <2>1, <3>2 DEF ReloadLand, dbVars, logVars, taskVars
  <2>2. CASE ReloadFail(s, k)
    BY <2>2 DEF ReloadFail, logVars, taskVars
  <2>3. QED BY <1>8, <2>1, <2>2
<1>9. ASSUME NEW s \in Servers, NEW k \in Keys, LoadRow(s, k)
      PROVE TypeOK' /\ UNCHANGED taskVars
  <2>1. [key |-> k, val |-> db[k], entry |-> k \in reload[s]] \in Fill
    BY DEF Fill, Table
  <2>2. QED BY <1>9, <2>1 DEF LoadRow, dbVars, logVars, taskVars
<1>10. ASSUME NEW s \in Servers, NEW f \in fills[s], StoreRow(s, f)
       PROVE TypeOK' /\ UNCHANGED taskVars
  <2>1. f.key \in Keys /\ f.val \in Nat
    BY DEF Fill
  <2>2. cache' \in [Servers -> Table]
    BY <1>10, <2>1, PutType DEF StoreRow
  <2>3. QED BY <1>10, <2>2 DEF StoreRow, dbVars, logVars, taskVars
<1>11. QED
  BY <1>1, <1>3, <1>4, <1>5, <1>6, <1>7, <1>8, <1>9, <1>10 DEF WriteStep

-----------------------------------------------------------------------------
(* The outcome of a round is of the type of the task.                      *)
LEMMA FinishTypes ==
    ASSUME TypeOK, AttemptsOK, NEW a \in Agents, NEW err \in BOOLEAN,
           pc[a] \in Round, Finish(a, err)
    PROVE  /\ last' \in [Servers -> Nat] /\ attempts' \in [Servers -> Nat]
           /\ pc' \in [Agents -> Steps] /\ job' \in [Agents -> Job]
           /\ AttemptsOK'
<1> DEFINE s == a[1]
<1>1. s \in Servers /\ (a[2] = "ticker" => a = T(s))
  BY AgentParts
<1>2. job[a].now \in Nat /\ job[a].full \in BOOLEAN
  BY DEF TypeOK, Job
<1>3. LastAfter(a, err) \in Nat
  BY <1>1, <1>2 DEF LastAfter, TypeOK
<1>4. /\ AttemptsAfter(a, err) \in Nat
      /\ AttemptsAfter(a, err) <= (IF Retry = 0 THEN 1 ELSE Retry)
      /\ a[2] # "ticker" => AttemptsAfter(a, err) = attempts[s]
  <2>1. attempts[s] \in Nat /\ attempts[s] <= (IF Retry = 0 THEN 1 ELSE Retry)
    BY <1>1 DEF TypeOK, AttemptsOK
  <2>2. a[2] = "ticker" =>
          IF job[a].full THEN attempts[s] = 0 ELSE attempts[s] > 0
    BY <1>1 DEF AttemptsOK
  <2>3. QED BY <1>2, <2>1, <2>2, ConstantsOK DEF AttemptsAfter
<1>5. last' \in [Servers -> Nat] /\ attempts' \in [Servers -> Nat]
  BY <1>1, <1>3, <1>4 DEF Finish, TypeOK
<1>6. pc' \in [Agents -> Steps] /\ job' \in [Agents -> Job]
  BY EmptyTypes DEF Finish, TypeOK, Steps
<1>7. AttemptsOK'
  <2> SUFFICES ASSUME NEW t \in Servers
      PROVE /\ attempts'[t] <= (IF Retry = 0 THEN 1 ELSE Retry)
            /\ pc'[T(t)] \in Round =>
                 IF job'[T(t)].full THEN attempts'[t] = 0 ELSE attempts'[t] > 0
    BY DEF AttemptsOK
  <2>1. attempts'[t] <= (IF Retry = 0 THEN 1 ELSE Retry)
    BY <1>1, <1>4 DEF Finish, TypeOK, AttemptsOK
  <2>2. CASE a = T(t)
    <3>1. pc'[T(t)] = "idle"
      BY <2>2, AgentParts DEF Finish, TypeOK
    <3>2. QED BY <2>1, <3>1 DEF Round
  <2>3. CASE a # T(t)
    <3>1. pc'[T(t)] = pc[T(t)] /\ job'[T(t)] = job[T(t)]
      BY <2>3, AgentParts DEF Finish, TypeOK
    <3>2. attempts'[t] = attempts[t]
      BY <1>1, <1>4, <2>3 DEF Finish, TypeOK
    <3>3. QED BY <2>1, <3>1, <3>2 DEF AttemptsOK
  <2>4. QED BY <2>2, <2>3
<1>8. QED BY <1>5, <1>6, <1>7

(* AttemptsOK depends on the tickers only.                                 *)
LEMMA AttemptsFrame ==
    ASSUME AttemptsOK, UNCHANGED attempts,
           \A t \in Servers : pc'[T(t)] \in Round =>
               pc[T(t)] \in Round /\ job'[T(t)].full = job[T(t)].full
    PROVE  AttemptsOK'
BY DEF AttemptsOK

LEMMA BootTypes ==
    ASSUME TypeOK, AttemptsOK, NEW s \in Servers,
           BootRead(s) \/ BootDone(s) \/ Crash(s)
    PROVE  TypeOK' /\ AttemptsOK'
<1>0. T(s) \in Agents /\ T(s) = <<s, "ticker">>
  BY AgentParts DEF T
<1>1. CASE BootRead(s)
  <2>1. TypeOK'
    BY <1>0, <1>1 DEF BootRead, TypeOK, Steps, dbVars, logVars
  <2>2. \A t \in Servers : pc'[T(t)] \in Round => pc[T(t)] \in Round
    BY <1>0, <1>1, AgentParts DEF BootRead, TypeOK, Round
  <2>3. QED BY <1>1, <2>1, <2>2, AttemptsFrame DEF BootRead
<1>2. CASE BootDone(s)
  <2>1. TypeOK'
    BY <1>0, <1>2, ConstantsOK DEF BootDone, TypeOK, Steps, dbVars, logVars, cacheVars
  <2>2. \A t \in Servers : pc'[T(t)] \in Round => t # s /\ pc[T(t)] = pc'[T(t)]
    BY <1>0, <1>2, AgentParts DEF BootDone, TypeOK, Round
  <2>3. attempts'[s] = Retry /\ \A t \in Servers : t # s => attempts'[t] = attempts[t]
    BY <1>2 DEF BootDone, TypeOK
  <2>4. QED BY <1>2, <2>1, <2>2, <2>3, ConstantsOK DEF BootDone, AttemptsOK
<1>3. CASE Crash(s)
  <2>1. cache' \in [Servers -> Table]
    BY <1>3, EmptyTypes DEF Crash, TypeOK
  <2>2. job' \in [Agents -> Job]
    BY <1>3, EmptyTypes DEF Crash, TypeOK
  <2>3. pc' \in [Agents -> Steps]
    BY <1>3 DEF Crash, TypeOK, Steps
  <2>4. TypeOK'
    BY <1>3, <2>1, <2>2, <2>3 DEF Crash, TypeOK
  <2>5. \A t \in Servers : pc'[T(t)] \in Round =>
           pc[T(t)] \in Round /\ job'[T(t)] = job[T(t)]
    BY <1>3, AgentParts DEF Crash, TypeOK, Round
  <2>6. QED BY <1>3, <2>4, <2>5, AttemptsFrame DEF Crash
<1>4. QED BY <1>1, <1>2, <1>3

(* One record of the log is applied.                                       *)
LEMMA ApplyTypes ==
    ASSUME TypeOK, NEW a \in Agents, NEW r \in job[a].todo,
           \/ ApplySkip(a, r) \/ ApplyUnknown(a, r) \/ ApplyCreateCached(a, r)
           \/ ApplyCreateLoad(a, r) \/ ApplyCreateFail(a, r)
           \/ ApplyDelete(a, r) \/ ApplyTruncate(a, r)
    PROVE  /\ cache' \in [Servers -> Table]
           /\ reload' \in [Servers -> SUBSET Keys]
           /\ fills' \in [Servers -> SUBSET Fill]
           /\ job' \in [Agents -> Job]
           /\ \A b \in Agents : job'[b].full = job[b].full
<1> USE DEF TypeOK
<1>1. a[1] \in Servers
  BY AgentParts
<1>2. r.key \in Keys /\ r.ts \in Nat
  BY DEF Job, ChangedData
<1>3. ASSUME NEW b \in BOOLEAN, Consume(a, r, b)
      PROVE  job' \in [Agents -> Job] /\ \A c \in Agents : job'[c].full = job[c].full
  <2>1. RowKey(r.ts) \in Int
    BY <1>2, RowKeyType
  <2>2. job[a] \in Job
    OBVIOUS
  <2>3. /\ job[a].todo \ {r} \in SUBSET ChangedData
        /\ (job[a].wipe \/ b) \in BOOLEAN
    BY <2>2 DEF Job
  <2>4. job' = [job EXCEPT ![a] = [job[a] EXCEPT !.todo = @ \ {r},
                   !.row = RowKey(r.ts), !.wipe = @ \/ b]]
    BY <1>3, <2>2 DEF Consume, Job
  <2>5. [job[a] EXCEPT !.todo = @ \ {r}, !.row = RowKey(r.ts), !.wipe = @ \/ b] \in Job
    BY <2>1, <2>2, <2>3 DEF Job
  <2>6. QED BY <2>2, <2>4, <2>5 DEF Job
<1>4. ASSUME NEW b \in BOOLEAN, Stop(a, b)
      PROVE  job' \in [Agents -> Job] /\ \A c \in Agents : job'[c].full = job[c].full
  <2>1. job' = [job EXCEPT ![a] = [job[a] EXCEPT !.todo = {}, !.err = b]]
    BY <1>4 DEF Stop
  <2>2. job[a] \in Job
    OBVIOUS
  <2>3. [job[a] EXCEPT !.todo = {}, !.err = b] \in Job /\ [job[a] EXCEPT !.todo = {}, !.err = b].full = job[a].full
    BY <2>2 DEF Job
  <2>4. QED BY <2>1, <2>3
<1>5. CASE ApplySkip(a, r)
  BY <1>3, <1>5 DEF ApplySkip, cacheVars
<1>6. CASE ApplyUnknown(a, r)
  BY <1>4, <1>6 DEF ApplyUnknown, cacheVars
<1>7. CASE ApplyCreateCached(a, r)
  <2>1. (Size(a[1]) < r.size) \in BOOLEAN
    OBVIOUS
  <2>2. Consume(a, r, Size(a[1]) < r.size)
    BY <1>7 DEF ApplyCreateCached
  <2>3. reload' \in [Servers -> SUBSET Keys] /\ UNCHANGED <<cache, fills>>
    BY <1>1, <1>2, <1>7 DEF ApplyCreateCached
  <2>4. QED BY <1>3, <2>1, <2>2, <2>3
<1>8. CASE ApplyCreateLoad(a, r)
  <2>1. (Size(a[1]) + 1 < r.size) \in BOOLEAN /\ db[r.key] \in Nat
    BY <1>2 DEF Table
  <2>2. Consume(a, r, Size(a[1]) + 1 < r.size)
    BY <1>8 DEF ApplyCreateLoad
  <2>3. cache' \in [Servers -> Table]
    BY <1>1, <1>2, <1>8, <2>1, PutType DEF ApplyCreateLoad
  <2>4. QED BY <1>3, <1>8, <2>1, <2>2, <2>3 DEF ApplyCreateLoad
<1>9. CASE ApplyCreateFail(a, r)
  BY <1>4, <1>9 DEF ApplyCreateFail, cacheVars
<1>10. CASE ApplyDelete(a, r)
  <2>1. PICK n : Consume(a, r, n < r.size)
    BY <1>10 DEF ApplyDelete
  <2>2. (n < r.size) \in BOOLEAN
    OBVIOUS
  <2>3. Evict(a[1], {r.key})
    BY <1>10 DEF ApplyDelete
  <2>4. QED BY <1>1, <1>3, <2>1, <2>2, <2>3, EvictType
<1>11. CASE ApplyTruncate(a, r)
  <2>1. Evict(a[1], Keys) /\ Stop(a, FALSE)
    BY <1>11 DEF ApplyTruncate
  <2>2. QED BY <1>1, <1>4, <2>1, EvictType
<1>12. QED BY <1>5, <1>6, <1>7, <1>8, <1>9, <1>10, <1>11

(* A goroutine starts or continues a round, or a full refresh.             *)
LEMMA AgentTypes ==
    ASSUME TypeOK, AttemptsOK, NEW a \in Agents,
           AgentStep(a) \/ SyncLoadFail(a) \/ RefreshReadFail(a)
    PROVE  TypeOK' /\ AttemptsOK'
<1> DEFINE s == a[1]
<1>1. /\ s \in Servers /\ (a[2] = "ticker" => a = T(s))
      /\ \A t \in Servers : T(t) \in Agents /\ (a = T(t) => t = s /\ a[2] = "ticker")
  BY AgentParts
<1>2. /\ job[a] \in Job /\ pc[a] \in Steps
      /\ job[a].err \in BOOLEAN /\ job[a].full \in BOOLEAN
      /\ job[a].todo \subseteq ChangedData
  BY DEF TypeOK, Job
<1>3. ASSUME UNCHANGED attempts, job' \in [Agents -> Job],
             NEW p \in Round, pc' = [pc EXCEPT ![a] = p], pc[a] \in Round,
             \A b \in Agents : job'[b].full = job[b].full
      PROVE  AttemptsOK'
  BY <1>1, <1>3, AttemptsFrame DEF TypeOK, Round
<1>4. CASE SyncStart(a)
  <2>1. [NoJob EXCEPT !.from = last[s], !.now = clock] \in Job
    BY <1>1, EmptyTypes DEF TypeOK, Job
  <2>2. TypeOK'
    BY <1>4, <2>1 DEF SyncStart, TypeOK, Steps, dbVars, logVars, cacheVars
  <2>3. /\ attempts[s] > 0 /\ attempts' = attempts
        /\ ~job'[a].full
        /\ \A b \in Agents : b # a => pc'[b] = pc[b] /\ job'[b] = job[b]
    BY <1>1, <1>4, EmptyTypes DEF SyncStart, TypeOK, NoJob
  <2>4. QED BY <1>1, <2>2, <2>3 DEF AttemptsOK
<1>5. CASE FullStart(a)
  <2>1. [NoJob EXCEPT !.now = clock, !.full = TRUE] \in Job
    BY <1>1, EmptyTypes DEF TypeOK, Job
  <2>2. last' \in [Servers -> Nat]
    BY <1>1, <1>5 DEF FullStart, TypeOK
  <2>3. TypeOK'
    BY <1>5, <2>1, <2>2 DEF FullStart, TypeOK, Steps, dbVars, logVars, cacheVars
  <2>4. /\ a[2] = "ticker" => attempts[s] = 0
        /\ attempts' = attempts /\ job'[a].full
        /\ \A b \in Agents : b # a => pc'[b] = pc[b] /\ job'[b] = job[b]
    BY <1>1, <1>5, EmptyTypes DEF FullStart, TypeOK, NoJob
  <2>5. QED BY <1>1, <2>3, <2>4 DEF AttemptsOK
<1>6. CASE SyncLoad(a)
  <2>1. PICK seen \in SUBSET InRange(job[a].from, job[a].now) :
               job' = [job EXCEPT ![a].todo = seen]
    BY <1>6 DEF SyncLoad
  <2>2. seen \subseteq ChangedData
    BY DEF InRange, TypeOK
  <2>3. job' \in [Agents -> Job] /\ \A b \in Agents : job'[b].full = job[b].full
    BY <1>2, <2>1, <2>2 DEF TypeOK, Job
  <2>4. TypeOK'
    BY <1>6, <2>3 DEF SyncLoad, TypeOK, Steps, dbVars, logVars, cacheVars
  <2>5. QED BY <1>3, <1>6, <2>3, <2>4 DEF SyncLoad, Round
<1>7. CASE SyncLoadFail(a)
  <2>1. job' \in [Agents -> Job] /\ \A b \in Agents : job'[b].full = job[b].full
    BY <1>2, <1>7 DEF SyncLoadFail, TypeOK, Job
  <2>2. TypeOK'
    BY <1>7, <2>1 DEF SyncLoadFail, QueryFails, TypeOK, Steps, logVars, cacheVars
  <2>3. QED BY <1>3, <1>7, <2>1, <2>2 DEF SyncLoadFail, Round
<1>8. CASE SyncApply(a)
  <2>1. PICK r \in job[a].todo :
           /\ \/ ApplySkip(a, r) \/ ApplyUnknown(a, r) \/ ApplyCreateCached(a, r)
              \/ ApplyCreateLoad(a, r) \/ ApplyCreateFail(a, r)
              \/ ApplyDelete(a, r) \/ ApplyTruncate(a, r)
           /\ UNCHANGED events \/ ApplyCreateFail(a, r)
    BY <1>8 DEF SyncApply
  <2>2. /\ cache' \in [Servers -> Table]
        /\ reload' \in [Servers -> SUBSET Keys]
        /\ fills' \in [Servers -> SUBSET Fill]
        /\ job' \in [Agents -> Job]
        /\ \A b \in Agents : job'[b].full = job[b].full
    BY <2>1, ApplyTypes
  <2>3. events' \in Nat
    <3>1. events' = events \/ events' = events + 1
      BY <2>1, Zenon DEF ApplyCreateFail, QueryFails
    <3>2. QED BY <3>1 DEF TypeOK
  <2>4. TypeOK'
    BY <1>8, <2>2, <2>3 DEF SyncApply, TypeOK, logVars
  <2>5. QED BY <1>8, <2>2, <2>4, AttemptsFrame, AgentParts DEF SyncApply
<1>9. CASE SyncEnd(a)
  <2>1. CASE job[a].wipe
    <3>1. pc' = [pc EXCEPT ![a] = "wipe"] /\ UNCHANGED <<last, attempts, job>>
      BY <1>9, <2>1 DEF SyncEnd
    <3>2. TypeOK'
      BY <1>9, <3>1 DEF SyncEnd, TypeOK, Steps, dbVars, logVars, cacheVars
    <3>3. QED BY <1>3, <1>9, <3>1, <3>2 DEF SyncEnd, Round, TypeOK
  <2>2. CASE ~job[a].wipe
    <3>1. Finish(a, job[a].err) /\ pc[a] \in Round
      BY <1>9, <2>2 DEF SyncEnd, Round
    <3>2. QED BY <1>2, <1>9, <3>1, FinishTypes DEF SyncEnd, TypeOK, dbVars, logVars, cacheVars
  <2>3. QED BY <2>1, <2>2
<1>10. CASE RefreshWipe(a)
  <2>1. Evict(s, Keys)
    BY <1>10 DEF RefreshWipe
  <2>2. TypeOK'
    BY <1>1, <1>10, <2>1, EvictType DEF RefreshWipe, TypeOK, Steps, dbVars, logVars
  <2>3. QED BY <1>3, <1>10, <2>2 DEF RefreshWipe, Round, TypeOK
<1>11. CASE RefreshRead(a)
  <2>1. PICK K \in SUBSET Keys : job' = [job EXCEPT ![a].snap =
               [k \in Keys |-> IF k \in K THEN db[k] ELSE Absent]]
    BY <1>11 DEF RefreshRead
  <2>2. [k \in Keys |-> IF k \in K THEN db[k] ELSE Absent] \in Table
    BY DEF TypeOK, Table, Absent
  <2>3. job' \in [Agents -> Job] /\ \A b \in Agents : job'[b].full = job[b].full
    BY <1>2, <2>1, <2>2 DEF TypeOK, Job
  <2>4. TypeOK'
    BY <1>11, <2>3 DEF RefreshRead, TypeOK, Steps, dbVars, logVars, cacheVars
  <2>5. QED BY <1>3, <1>11, <2>3, <2>4 DEF RefreshRead, Round
<1>12. CASE RefreshReadFail(a)
  <2>1. Finish(a, job[a].full \/ job[a].err) /\ pc[a] \in Round
    BY <1>12 DEF RefreshReadFail, Round
  <2>2. (job[a].full \/ job[a].err) \in BOOLEAN
    OBVIOUS
  <2>3. PICK b \in BOOLEAN : Finish(a, b)
    BY <2>1, <2>2, Zenon
  <2>4. /\ last' \in [Servers -> Nat] /\ attempts' \in [Servers -> Nat]
        /\ pc' \in [Agents -> Steps] /\ job' \in [Agents -> Job]
        /\ AttemptsOK'
    BY <2>1, <2>3, FinishTypes
  <2>5. /\ events' = events + 1
        /\ UNCHANGED <<clock, db, changed, inflight, spawned, stamped, writing, cache, reload, fills>>
    BY <1>12 DEF RefreshReadFail, logVars, cacheVars
  <2>6. QED BY <2>4, <2>5 DEF TypeOK
<1>13. CASE RefreshPut(a)
  <2>1. Finish(a, job[a].err) /\ pc[a] \in Round
    BY <1>13 DEF RefreshPut, Round
  <2>2. [k \in Keys |-> IF job[a].snap[k] # Absent THEN job[a].snap[k]
                        ELSE cache[s][k]] \in Table
    BY <1>1, <1>2 DEF TypeOK, Job, Table
  <2>3. cache' \in [Servers -> Table]
    BY <1>13, <2>2 DEF RefreshPut, TypeOK
  <2>4. QED BY <1>2, <1>13, <2>1, <2>3, FinishTypes DEF RefreshPut, TypeOK, dbVars, logVars
<1>14. QED
  BY <1>4, <1>5, <1>6, <1>7, <1>8, <1>9, <1>10, <1>11, <1>12, <1>13 DEF AgentStep

(* Every step keeps the types and the bound on the attempts.               *)
LEMMA NextTypes == TypeOK /\ AttemptsOK /\ [Next]_vars => TypeOK' /\ AttemptsOK'
<1> SUFFICES ASSUME TypeOK, AttemptsOK, [Next]_vars PROVE TypeOK' /\ AttemptsOK'
  OBVIOUS
<1>1. CASE UNCHANGED taskVars /\ TypeOK'
  BY <1>1, AttemptsFrame DEF taskVars
<1>2. CASE UNCHANGED vars
  <2>1. TypeOK'
    BY <1>2 DEF vars, dbVars, logVars, cacheVars, taskVars, TypeOK
  <2>2. QED BY <1>1, <1>2, <2>1 DEF vars
<1>3. CASE Next
  <2>1. CASE Tick \/ WriteStep
    BY <1>1, <2>1, WriteTypes
  <2>2. ASSUME NEW t \in Servers, ServerStep(t) PROVE TypeOK' /\ AttemptsOK'
    BY <1>1, <2>2, WriteTypes, BootTypes DEF ServerStep
  <2>3. CASE \E a \in Agents : AgentStep(a)
    BY <2>3, AgentTypes
  <2>4. CASE Environment
    BY <1>1, <2>4, WriteTypes, BootTypes, AgentTypes DEF Environment
  <2>5. QED BY <1>3, <2>1, <2>2, <2>3, <2>4 DEF Next
<1>4. QED BY <1>2, <1>3

(* Whatever the environment does, every variable keeps its type; in        *)
(* particular refreshAttemptsLeft, which Run decrements on a failed sync   *)
(* and compares with zero, never becomes negative.                         *)
THEOREM TypeCorrect == Spec => []TypeOK
<1>1. TypeOK /\ AttemptsOK /\ [Next]_vars => TypeOK' /\ AttemptsOK'
  BY NextTypes
<1>2. QED BY <1>1, InitType, PTL DEF Spec

(* refreshAttemptsLeft stays within the configured number: "= Retry" after *)
(* a success and "++" after a full refresh never add up.                   *)
THEOREM AttemptsAreBounded == Spec => []AttemptsBounded
<1>1. TypeOK /\ AttemptsOK /\ [Next]_vars => TypeOK' /\ AttemptsOK'
  BY NextTypes
<1>2. AttemptsOK => AttemptsBounded
  BY DEF AttemptsOK, AttemptsBounded
<1>3. QED BY <1>1, <1>2, InitType, PTL DEF Spec

-----------------------------------------------------------------------------
(* The times a ticker keeps: what it will store in lastRefreshedTimestamp  *)
(* lies between the value it has and the present.                          *)
TimesOK ==
    \A s \in Servers :
        /\ last[s] <= clock /\ job[T(s)].now <= clock
        /\ pc[T(s)] \in Round => last[s] <= job[T(s)].now

(* TimesOK depends on the clock and on the tickers only.                   *)
LEMMA TimesFrame ==
    ASSUME TypeOK, TypeOK', TimesOK, last' = last, clock <= clock',
           \A t \in Servers : job'[T(t)].now = job[T(t)].now,
           \A t \in Servers : pc'[T(t)] \in Round => pc[T(t)] \in Round
    PROVE  TimesOK' /\ \A t \in Servers : last[t] <= last'[t]
<1> SUFFICES ASSUME NEW t \in Servers
    PROVE /\ last'[t] <= clock' /\ job'[T(t)].now <= clock'
          /\ pc'[T(t)] \in Round => last'[t] <= job'[T(t)].now
          /\ last[t] <= last'[t]
  BY DEF TimesOK
<1>1. T(t) \in Agents /\ job[T(t)] \in Job
  BY AgentParts DEF TypeOK
<1>2. /\ last[t] \in Nat /\ clock \in Nat /\ clock' \in Nat
      /\ job[T(t)].now \in Nat
  BY <1>1 DEF TypeOK, Job
<1>3. QED BY <1>2 DEF TimesOK

(* The end of a round.                                                     *)
LEMMA TimesFinish ==
    ASSUME TypeOK, TimesOK, NEW a \in Agents, NEW err \in BOOLEAN,
           pc[a] \in Round, Finish(a, err), clock' = clock
    PROVE  TimesOK' /\ \A t \in Servers : last[t] <= last'[t]
<1> SUFFICES ASSUME NEW t \in Servers
    PROVE /\ last'[t] <= clock' /\ job'[T(t)].now <= clock'
          /\ pc'[T(t)] \in Round => last'[t] <= job'[T(t)].now
          /\ last[t] <= last'[t]
  BY DEF TimesOK
<1>1. /\ T(t) \in Agents /\ a[1] \in Servers
      /\ a[2] = "ticker" => a = T(a[1])
      /\ a = T(t) => t = a[1]
  BY AgentParts
<1>2. /\ last[t] \in Nat /\ clock \in Nat
      /\ job[T(t)].now \in Nat
  BY <1>1 DEF TypeOK, Job
<1>3. /\ last[t] <= clock /\ job[T(t)].now <= clock
      /\ pc[T(t)] \in Round => last[t] <= job[T(t)].now
  BY DEF TimesOK
<1>4. CASE a = T(t)
  <2>1. pc'[T(t)] = "idle" /\ job'[T(t)] = NoJob
    BY <1>1, <1>4 DEF Finish, TypeOK
  <2>2. NoJob.now = 0
    BY DEF NoJob
  <2>3. last'[t] = last[t] \/ last'[t] = job[T(t)].now
    BY <1>1, <1>4 DEF Finish, TypeOK, LastAfter
  <2>4. QED BY <1>2, <1>3, <1>4, <2>1, <2>2, <2>3 DEF Round
<1>5. CASE a # T(t)
  <2>1. pc'[T(t)] = pc[T(t)] /\ job'[T(t)] = job[T(t)]
    BY <1>1, <1>5 DEF Finish, TypeOK
  <2>2. last'[t] = last[t]
    BY <1>1, <1>5 DEF Finish, TypeOK, LastAfter
  <2>3. QED BY <1>2, <1>3, <2>1, <2>2
<1>6. QED BY <1>4, <1>5

(* A server boots, or crashes.                                             *)
LEMMA TimesBoot ==
    ASSUME TypeOK, TypeOK', TimesOK, NEW s \in Servers,
           BootRead(s) \/ BootDone(s) \/ Crash(s)
    PROVE  TimesOK' /\ \A t \in Servers : last[t] <= last'[t]
<1>0. T(s) \in Agents /\ T(s) = <<s, "ticker">>
  BY AgentParts DEF T
<1>1. CASE BootRead(s)
  <2>1. \A t \in Servers : pc'[T(t)] \in Round => pc[T(t)] \in Round
    BY <1>0, <1>1, AgentParts DEF BootRead, TypeOK, Round
  <2>2. last' = last /\ clock' = clock /\ job' = job
    BY <1>1 DEF BootRead, dbVars
  <2>3. QED BY <2>1, <2>2, TimesFrame DEF TypeOK
<1>2. CASE BootDone(s)
  <2> SUFFICES ASSUME NEW t \in Servers
      PROVE /\ last'[t] <= clock' /\ job'[T(t)].now <= clock'
            /\ pc'[T(t)] \in Round => last'[t] <= job'[T(t)].now
            /\ last[t] <= last'[t]
    BY DEF TimesOK
  <2>1. /\ last[t] \in Nat /\ clock \in Nat /\ last[t] <= clock
        /\ job[T(t)].now <= clock
        /\ pc[T(t)] \in Round => last[t] <= job[T(t)].now
    BY DEF TypeOK, TimesOK
  <2>2. job' = job /\ clock' = clock
    BY <1>2 DEF BootDone, dbVars
  <2>3. /\ t = s => last'[t] = clock /\ pc'[T(t)] = "idle"
        /\ t # s => last'[t] = last[t] /\ pc'[T(t)] = pc[T(t)]
    BY <1>0, <1>2, AgentParts DEF BootDone, TypeOK
  <2>4. QED BY <2>1, <2>2, <2>3 DEF Round
<1>3. CASE Crash(s)
  <2> SUFFICES ASSUME NEW t \in Servers
      PROVE /\ last'[t] <= clock' /\ job'[T(t)].now <= clock'
            /\ pc'[T(t)] \in Round => last'[t] <= job'[T(t)].now
            /\ last[t] <= last'[t]
    BY DEF TimesOK
  <2>1. /\ last[t] \in Nat /\ clock \in Nat /\ last[t] <= clock
        /\ job[T(t)].now <= clock
        /\ pc[T(t)] \in Round => last[t] <= job[T(t)].now
    BY DEF TypeOK, TimesOK
  <2>2. last' = last /\ clock' = clock
    BY <1>3 DEF Crash
  <2>3. /\ t = s => job'[T(t)] = NoJob /\ pc'[T(t)] = "boot"
        /\ t # s => job'[T(t)] = job[T(t)] /\ pc'[T(t)] = pc[T(t)]
    BY <1>3, AgentParts DEF Crash, TypeOK
  <2>4. NoJob.now = 0
    BY DEF NoJob
  <2>5. QED BY <2>1, <2>2, <2>3, <2>4 DEF Round
<1>4. QED BY <1>1, <1>2, <1>3

(* A goroutine starts or continues a round.                                *)
LEMMA TimesAgent ==
    ASSUME TypeOK, TypeOK', TimesOK, NEW a \in Agents,
           AgentStep(a) \/ SyncLoadFail(a) \/ RefreshReadFail(a)
    PROVE  TimesOK' /\ \A t \in Servers : last[t] <= last'[t]
<1>1. /\ a[1] \in Servers /\ (a[2] = "ticker" => a = T(a[1]))
      /\ \A t \in Servers : T(t) \in Agents /\ (a = T(t) => t = a[1] /\ a[2] = "ticker")
  BY AgentParts
<1>2. job[a].err \in BOOLEAN /\ job[a].full \in BOOLEAN /\ clock \in Nat
  BY DEF TypeOK, Job
<1>3. CASE SyncStart(a) \/ FullStart(a)
  <2> SUFFICES ASSUME NEW t \in Servers
      PROVE /\ last'[t] <= clock' /\ job'[T(t)].now <= clock'
            /\ pc'[T(t)] \in Round => last'[t] <= job'[T(t)].now
            /\ last[t] <= last'[t]
    BY DEF TimesOK
  <2>1. /\ last[t] \in Nat /\ last[t] <= clock
        /\ job[T(t)].now <= clock
        /\ pc[T(t)] \in Round => last[t] <= job[T(t)].now
    BY DEF TypeOK, TimesOK
  <2>2. clock' = clock
    BY <1>3 DEF SyncStart, FullStart, dbVars
  <2>3. /\ a = T(t) => job'[T(t)].now = clock
        /\ a # T(t) => job'[T(t)] = job[T(t)] /\ pc'[T(t)] = pc[T(t)]
    <3>1. ASSUME NEW j, j.now = clock, job' = [job EXCEPT ![a] = j],
                 NEW p, pc' = [pc EXCEPT ![a] = p]
          PROVE  /\ a = T(t) => job'[T(t)].now = clock
                 /\ a # T(t) => job'[T(t)] = job[T(t)] /\ pc'[T(t)] = pc[T(t)]
      BY <1>1, <3>1 DEF TypeOK
    <3>2. /\ [NoJob EXCEPT !.from = last[a[1]], !.now = clock].now = clock
          /\ [NoJob EXCEPT !.now = clock, !.full = TRUE].now = clock
      BY DEF NoJob
    <3>3. QED BY <1>3, <3>1, <3>2 DEF SyncStart, FullStart
  <2>4. /\ last'[t] = last[t] \/ last'[t] = clock
        /\ a # T(t) => last'[t] = last[t]
    BY <1>1, <1>3 DEF SyncStart, FullStart, TypeOK
  <2>5. QED BY <1>2, <2>1, <2>2, <2>3, <2>4
<1>4. ASSUME last' = last, clock' = clock, pc[a] \in Round,
             \A b \in Agents : b # a => pc'[b] = pc[b],
             \A b \in Agents : job'[b].now = job[b].now
      PROVE  TimesOK' /\ \A t \in Servers : last[t] <= last'[t]
  <2>1. \A t \in Servers : pc'[T(t)] \in Round => pc[T(t)] \in Round
    BY <1>1, <1>4
  <2>2. \A t \in Servers : job'[T(t)].now = job[T(t)].now
    BY <1>1, <1>4
  <2>3. QED BY <1>2, <1>4, <2>1, <2>2, TimesFrame
<1>5. CASE SyncLoad(a) \/ SyncLoadFail(a) \/ RefreshRead(a)
  <2>1. \A b \in Agents : job'[b].now = job[b].now
    BY <1>5 DEF SyncLoad, SyncLoadFail, RefreshRead, TypeOK, Job
  <2>2. last' = last /\ clock' = clock /\ pc[a] \in Round
    BY <1>5 DEF SyncLoad, SyncLoadFail, RefreshRead, dbVars, Round
  <2>3. \A b \in Agents : b # a => pc'[b] = pc[b]
    BY <1>5 DEF SyncLoad, SyncLoadFail, RefreshRead, TypeOK
  <2>4. QED BY <1>4, <2>1, <2>2, <2>3
<1>6. CASE SyncApply(a)
  <2>1. PICK r \in job[a].todo : (\E b : Consume(a, r, b)) \/ (\E b : Stop(a, b))
    <3>1. PICK r \in job[a].todo :
             \/ ApplySkip(a, r) \/ ApplyUnknown(a, r) \/ ApplyCreateCached(a, r)
             \/ ApplyCreateLoad(a, r) \/ ApplyCreateFail(a, r)
             \/ ApplyDelete(a, r) \/ ApplyTruncate(a, r)
      BY <1>6 DEF SyncApply
    <3>2. CASE ApplySkip(a, r)
      BY <3>2, Zenon DEF ApplySkip
    <3>3. CASE ApplyUnknown(a, r)
      BY <3>3, Zenon DEF ApplyUnknown
    <3>4. CASE ApplyCreateCached(a, r)
      BY <3>4, Zenon DEF ApplyCreateCached
    <3>5. CASE ApplyCreateLoad(a, r)
      BY <3>5, Zenon DEF ApplyCreateLoad
    <3>6. CASE ApplyCreateFail(a, r)
      BY <3>6, Zenon DEF ApplyCreateFail
    <3>7. CASE ApplyDelete(a, r)
      BY <3>7, Zenon DEF ApplyDelete
    <3>8. CASE ApplyTruncate(a, r)
      BY <3>8, Zenon DEF ApplyTruncate
    <3>9. QED BY <3>1, <3>2, <3>3, <3>4, <3>5, <3>6, <3>7, <3>8
  <2>2. \A b \in Agents : job'[b].now = job[b].now
    <3>1. job[a] \in Job /\ job \in [Agents -> Job]
      BY DEF TypeOK
    <3>2. ASSUME NEW b, Consume(a, r, b)
          PROVE  \A c \in Agents : job'[c].now = job[c].now
      BY <3>1, <3>2 DEF Consume, Job
    <3>3. ASSUME NEW b, Stop(a, b)
          PROVE  \A c \in Agents : job'[c].now = job[c].now
      BY <3>1, <3>3 DEF Stop, Job
    <3>4. QED BY <2>1, <3>2, <3>3
  <2>3. QED BY <1>4, <1>6, <2>2 DEF SyncApply, Round
<1>7. CASE SyncEnd(a) /\ job[a].wipe
  BY <1>4, <1>7 DEF SyncEnd, dbVars, Round, TypeOK
<1>8. CASE SyncEnd(a) /\ ~job[a].wipe
  <2>1. Finish(a, job[a].err) /\ pc[a] \in Round /\ clock' = clock
    BY <1>8 DEF SyncEnd, dbVars, Round
  <2>2. QED BY <1>2, <2>1, TimesFinish
<1>9. CASE RefreshWipe(a)
  BY <1>4, <1>9 DEF RefreshWipe, dbVars, Round, TypeOK
<1>10. CASE RefreshReadFail(a)
  <2>1. Finish(a, job[a].full \/ job[a].err) /\ pc[a] \in Round /\ clock' = clock
    BY <1>10 DEF RefreshReadFail, Round
  <2>2. (job[a].full \/ job[a].err) \in BOOLEAN
    OBVIOUS
  <2>3. PICK b \in BOOLEAN : Finish(a, b)
    BY <2>1, <2>2, Zenon
  <2>4. QED BY <2>1, <2>3, TimesFinish
<1>11. CASE RefreshPut(a)
  <2>1. Finish(a, job[a].err) /\ pc[a] \in Round /\ clock' = clock
    BY <1>11 DEF RefreshPut, dbVars, Round
  <2>2. QED BY <1>2, <2>1, TimesFinish
<1>12. QED BY <1>3, <1>5, <1>6, <1>7, <1>8, <1>9, <1>10, <1>11 DEF AgentStep

(* Every step keeps the order of the times.                                *)
LEMMA NextTimes ==
    TypeOK /\ AttemptsOK /\ TimesOK /\ [Next]_vars =>
        TimesOK' /\ \A s \in Servers : last[s] <= last'[s]
<1> SUFFICES ASSUME TypeOK, AttemptsOK, TimesOK, [Next]_vars
    PROVE  TimesOK' /\ \A s \in Servers : last[s] <= last'[s]
  OBVIOUS
<1>0. TypeOK'
  BY NextTypes
<1>1. CASE UNCHANGED taskVars /\ clock' \in {clock, clock + 1}
  <2>1. clock <= clock' /\ pc' = pc /\ job' = job /\ last' = last
    BY <1>1 DEF taskVars, TypeOK
  <2>2. QED BY <1>0, <2>1, TimesFrame
<1>2. CASE UNCHANGED vars
  BY <1>1, <1>2 DEF vars, dbVars
<1>3. CASE Next
  <2>0. ASSUME \/ Tick \/ WriteStep
               \/ \E s \in Servers, k \in Keys :
                    \/ SetOneStore(s, k) \/ DeleteOneStore(s, k) \/ SetOneTimeout(s, k)
                    \/ ReloadFail(s, k) \/ LoadRow(s, k) \/ ReloadLand(s, k)
               \/ \E s \in Servers : \E f \in fills[s] : StoreRow(s, f)
               \/ \E r \in inflight : WriteCacheLogFail(r)
               \/ \E k \in Keys, o \in Operations : OtherServiceLogs(k, o)
        PROVE  TimesOK' /\ \A s \in Servers : last[s] <= last'[s]
    <3>1. UNCHANGED taskVars
      BY <2>0, WriteTypes
    <3>2. clock' \in {clock, clock + 1}
      BY <2>0 DEF Tick, WriteStep, SetOneCache, DeleteOneCache, WriteCacheLogStamp,
           WriteCacheLogLand, WriteCacheLogFail, SetOneStore, DeleteOneStore,
           SetOneTimeout, Store, ReloadFail, LoadRow, ReloadLand, StoreRow,
           OtherServiceLogs, dbVars
    <3>3. QED BY <1>1, <3>1, <3>2
  <2>1. CASE Tick \/ WriteStep
    BY <2>0, <2>1
  <2>2. ASSUME NEW t \in Servers, ServerStep(t)
        PROVE  TimesOK' /\ \A s \in Servers : last[s] <= last'[s]
    BY <1>0, <2>0, <2>2, TimesBoot DEF ServerStep
  <2>3. CASE \E a \in Agents : AgentStep(a)
    BY <1>0, <2>3, TimesAgent
  <2>4. CASE Environment
    BY <1>0, <2>0, <2>4, TimesBoot, TimesAgent DEF Environment
  <2>5. QED BY <1>3, <2>1, <2>2, <2>3, <2>4 DEF Next
<1>4. QED BY <1>2, <1>3

(* The start of the period that the next SyncChanges reads never moves     *)
(* back, whatever ForceSyncChanges, the refresh handler, failed queries    *)
(* and restarts do next to the ticker.                                     *)
THEOREM PeriodNeverMovesBack == Spec => LastNeverMovesBack
<1> DEFINE I == TypeOK /\ AttemptsOK /\ TimesOK
<1>1. Init => I
  <2> SUFFICES ASSUME Init PROVE TimesOK
    BY InitType
  <2>1. ASSUME NEW s \in Servers
        PROVE  last[s] = 0 /\ clock = 0 /\ job[T(s)] = NoJob
    BY AgentParts DEF Init
  <2>2. NoJob.now = 0
    BY DEF NoJob
  <2>3. QED BY <2>1, <2>2 DEF TimesOK
<1>2. I /\ [Next]_vars => I'
  BY NextTypes, NextTimes
<1>3. I /\ [Next]_vars => [\A s \in Servers : last[s] <= last'[s]]_vars
  BY NextTimes
<1>4. QED BY <1>1, <1>2, <1>3, PTL DEF Spec, LastNeverMovesBack

(* The refresh task keeps its types and its number of attempts together:   *)
(* the two facts the ticker's decision to reload everything rests on.      *)
THEOREM RefreshTaskIsSound == Spec => []TaskSound
<1>1. TypeOK /\ AttemptsBounded => TaskSound
  BY DEF TaskSound
<1>2. QED BY <1>1, TypeCorrect, AttemptsAreBounded, PTL

-----------------------------------------------------------------------------
(* The caches keep up with the database.  What has to hold for it: one     *)
(* writer, whose sizes are never zero because two rows are never deleted,  *)
(* a log of one row, and only the faults that the code recovers from.      *)
Benign ==
    /\ \A s, t \in Writers : s = t
    /\ \E p, q \in Pinned : p # q
    /\ Retry > 0 /\ MaxClock < Window
    /\ Faults \subseteq {"load_error", "reader_crash"}

Records == inflight \cup changed

(* Nobody but the tickers works on the caches, and no load is slow.        *)
OnlyTickers ==
    /\ \A a \in Agents : a[2] # "ticker" => pc[a] = "idle"
    /\ \A s \in Servers : fills[s] = {}

(* The change log: one write and one goroutine at a time, and records in   *)
(* the order of their times.                                               *)
LogOK ==
    /\ \A x \in writing : x.origin \in Writers /\ x.key \notin Pinned /\ ~Booting(x.origin)
    /\ \A x, y \in writing : x = y
    /\ \A g \in spawned : g.origin \in Writers /\ g.size # 0 /\ g.operation \in {"CREATE", "DELETE"}
    /\ \A g, h \in spawned : g = h
    /\ \A r \in Records : /\ r.origin \in Writers /\ r.known /\ r.size # 0
                          /\ r.operation \in {"CREATE", "DELETE"}
                          /\ r.seq <= stamped /\ r.ts <= clock
    /\ \A r \in inflight : r.ts = clock
    /\ \A q, r \in Records : q.seq < r.seq => q.ts <= r.ts
    /\ clock <= MaxClock

(* The last that is known of a row says whether the database holds it.     *)
Tells(o, k) == o = "CREATE" <=> db[k] # Absent
IsLatest(r) == \A q \in Records : q.key = r.key => q.seq <= r.seq
LatestTells ==
    /\ \A x \in writing : x.val = db[x.key]
    /\ \A g \in spawned : (\A x \in writing : x.key # g.key) => Tells(g.operation, g.key)
    /\ \A r \in Records :
         /\ \A x \in writing : x.key # r.key
         /\ \A g \in spawned : g.key # r.key
         /\ IsLatest(r)
         => Tells(r.operation, r.key)

(* Rows that are never written stay.                                       *)
PinnedStay == \A k \in Pinned : db[k] # Absent

(* A server reads the whole table when it starts, while nothing is written.*)
BootOK(s) == pc[T(s)] = "booted" => cache[s] = db

(* The writer: nothing but its own writes changes its cache.               *)
WriterOK(s) ==
    /\ pc[T(s)] \in {"boot", "booted", "idle", "load", "apply"}
    /\ ~job[T(s)].err /\ ~job[T(s)].wipe /\ ~job[T(s)].full
    /\ attempts[s] = Retry /\ reload[s] = {}
    /\ ~Booting(s) => \A k \in Keys : cache[s][k] = db[k] \/ \E x \in writing : x.key = k

(* A round of a ticker: the records it has to apply are those since last   *)
(* that were visible when it read them.                                    *)
RoundOK(s) ==
    LET j == job[T(s)] IN
    /\ pc[T(s)] = "load" => j.from = last[s]
    /\ pc[T(s)] \in {"load", "apply"} => ~j.full
    /\ j.todo # {} => pc[T(s)] = "apply"
    /\ j.todo \subseteq changed
    /\ \A r \in j.todo : last[s] <= r.ts
    /\ pc[T(s)] \in Round /\ j.full => last[s] = j.now
    /\ pc[T(s)] = "apply" =>
         \A q \in j.todo, r \in changed : q.key = r.key /\ q.seq < r.seq => r \in j.todo \/ j.now <= r.ts
    /\ pc[T(s)] \in {"read", "put"} => cache[s] = EmptyTable /\ reload[s] = {}

(* The time from which records reach server s after the round it is in.    *)
Since(s) ==
    IF pc[T(s)] \in {"apply", "wipe", "put"} /\ ~job[T(s)].err THEN job[T(s)].now ELSE last[s]
ToSee(s, k) ==
    \E r \in changed :
        /\ r.key = k
        /\ Since(s) <= r.ts \/ (pc[T(s)] = "apply" /\ r \in job[T(s)].todo)

(* A row of a reader that differs from the database is going to be         *)
(* corrected, and so is a row that a refresh is about to store.            *)
RowOK(s, k) ==
    /\ ~Booting(s) /\ pc[T(s)] # "put" /\ cache[s][k] # db[k] =>
         \/ Underway(k) \/ ToSee(s, k) \/ pc[T(s)] = "read" \/ attempts[s] = 0
         \/ k \in reload[s] /\ db[k] # Absent
    /\ pc[T(s)] = "put" /\ job[T(s)].snap[k] # db[k] => Underway(k) \/ ToSee(s, k)

ServerOK(s) ==
    /\ BootOK(s) /\ RoundOK(s)
    /\ IF s \in Writers THEN WriterOK(s) ELSE \A k \in Keys : RowOK(s, k)

SyncInv ==
    /\ TypeOK /\ AttemptsOK /\ TimesOK
    /\ OnlyTickers /\ LogOK /\ LatestTells /\ PinnedStay
    /\ \A s \in Servers : ServerOK(s)

(* The steps that happen under these conditions.                           *)
LEMMA BenignSteps ==
    ASSUME Benign, OnlyTickers, \A s \in Servers : s \in Writers => attempts[s] # 0, Next
    PROVE  \/ Tick
           \/ \E s \in Writers, k \in Keys : SetOneStore(s, k) \/ DeleteOneStore(s, k)
           \/ \E x \in writing : SetOneCache(x) \/ DeleteOneCache(x)
           \/ \E g \in spawned : WriteCacheLogStamp(g)
           \/ \E r \in inflight : WriteCacheLogLand(r)
           \/ \E s \in Servers :
                \/ BootRead(s) \/ BootDone(s) \/ (s \notin Writers /\ Crash(s))
                \/ \E k \in Keys : ReloadLand(s, k)
                \/ AgentStep(T(s)) \/ (s \notin Writers /\ SyncLoadFail(T(s)))
<1>1. /\ "write_timeout" \notin Faults /\ "reload_error" \notin Faults /\ "slow_load" \notin Faults
      /\ "log_loss" \notin Faults /\ "foreign" \notin Faults /\ "truncate" \notin Faults
      /\ "writer_error" \notin Faults /\ "bulk_error" \notin Faults /\ "writer_crash" \notin Faults
      /\ "side_refresh" \notin Faults
  BY DEF Benign
<1>2. CASE Environment
  <2>1. ASSUME NEW a \in Agents, SyncLoadFail(a) PROVE a = T(a[1]) /\ a[1] \in Servers \ Writers
    BY <1>1, <2>1, AgentParts DEF SyncLoadFail, QueryFails, OnlyTickers
  <2>2. ASSUME NEW s \in Servers, Crash(s) PROVE s \notin Writers
    BY <1>1, <2>2 DEF Crash
  <2>3. \A s \in Servers, k \in Keys : SetOneStore(s, k) \/ DeleteOneStore(s, k) => s \in Writers
    BY DEF SetOneStore, DeleteOneStore, Store, MayWrite
  <2>4. QED
    BY <1>1, <1>2, <2>1, <2>2, <2>3
    DEF Environment, SetOneTimeout, ReloadFail, LoadRow, WriteCacheLogFail, OtherServiceLogs, RefreshReadFail
<1>3. ASSUME NEW a \in Agents, AgentStep(a) PROVE a = T(a[1]) /\ a[1] \in Servers
  <2>1. a[2] = "ticker"
    <3>1. a[2] # "ticker" => pc[a] = "idle"
      BY DEF OnlyTickers
    <3>2. QED
      BY <1>1, <1>3, <3>1 DEF AgentStep, SyncStart, FullStart, MayStart, SyncLoad, SyncApply, SyncEnd,
         RefreshWipe, RefreshRead, RefreshPut
  <2>2. QED BY <2>1, AgentParts
<1>4. ASSUME NEW s \in Servers, NEW f \in fills[s], StoreRow(s, f) PROVE FALSE
  BY DEF OnlyTickers
<1>5. QED
  BY <1>2, <1>3, <1>4 DEF Next, ServerStep, WriteStep

-----------------------------------------------------------------------------
(* Steps of one server.                                                    *)

SameServer(t) ==
    /\ cache'[t] = cache[t] /\ reload'[t] = reload[t] /\ last'[t] = last[t]
    /\ attempts'[t] = attempts[t] /\ pc'[T(t)] = pc[T(t)] /\ job'[T(t)] = job[T(t)]

LEMMA OthersKept ==
    ASSUME NEW t, ServerOK(t), SameServer(t),
           UNCHANGED <<db, changed, inflight, spawned, writing>>
    PROVE  ServerOK(t)'
<1>1. Booting(t)' = Booting(t) /\ Since(t)' = Since(t)
  BY DEF SameServer, Booting, Since, T
<1>2. BootOK(t)' /\ RoundOK(t)'
  BY DEF SameServer, ServerOK, BootOK, RoundOK
<1>3. WriterOK(t) => WriterOK(t)'
  BY <1>1 DEF SameServer, WriterOK
<1>4. ASSUME NEW k, RowOK(t, k) PROVE RowOK(t, k)'
  <2>1. ToSee(t, k)' = ToSee(t, k)
    BY <1>1 DEF SameServer, ToSee
  <2>2. Underway(k)' = Underway(k)
    BY DEF Underway
  <2>3. QED BY <1>1, <1>4, <2>1, <2>2 DEF SameServer, RowOK
<1>5. QED BY <1>2, <1>3, <1>4 DEF ServerOK

(* What a step of server s leaves alone.                                   *)
Local(s) ==
    /\ UNCHANGED <<clock, db, changed, inflight, spawned, stamped, writing>>
    /\ \A t \in Servers \ {s} : SameServer(t)
    /\ \A t \in Servers : fills'[t] = {}
    /\ \A a \in Agents : a[2] # "ticker" => pc'[a] = "idle"

LEMMA LocalKeeps ==
    ASSUME SyncInv, TypeOK', AttemptsOK', TimesOK', NEW s \in Servers, Local(s),
           s \in Writers /\ Booting(s)' => Booting(s), ServerOK(s)'
    PROVE  SyncInv'
<1>1. OnlyTickers' /\ PinnedStay'
  BY DEF SyncInv, OnlyTickers, PinnedStay, Local
<1>2. \A t \in Servers : ServerOK(t)'
  BY OthersKept DEF SyncInv, Local
<1>3. \A x \in writing : ~Booting(x.origin)'
  <2> SUFFICES ASSUME NEW x \in writing PROVE ~Booting(x.origin)'
    OBVIOUS
  <2>1. x.origin \in Writers /\ x.origin \in Servers /\ ~Booting(x.origin)
    BY ConstantsOK DEF SyncInv, LogOK
  <2>2. CASE x.origin = s
    BY <2>1, <2>2
  <2>3. CASE x.origin # s
    BY <2>1, <2>3 DEF Local, SameServer, Booting, T
  <2>4. QED BY <2>2, <2>3
<1>4. LogOK'
  <2>1. UNCHANGED <<clock, inflight, changed, spawned, stamped, writing>>
    BY DEF Local
  <2>2. QED BY <1>3, <2>1 DEF SyncInv, LogOK, Records
<1>5. LatestTells'
  BY DEF SyncInv, LatestTells, Local, Records, IsLatest, Tells
<1>6. QED BY <1>1, <1>2, <1>4, <1>5 DEF SyncInv

LEMMA TickerApart ==
    ASSUME NEW s \in Servers
    PROVE  /\ T(s) \in Agents /\ T(s)[1] = s /\ T(s)[2] = "ticker" /\ T(s) = <<s, "ticker">>
           /\ \A t \in Servers \ {s} : T(t) \in Agents /\ T(t) # T(s)
           /\ \A a \in Agents : a[2] # "ticker" => a # T(s)
BY AgentParts DEF T

(* The ticker of s takes a step: pc and job change at T(s) only.           *)
LEMMA StepLocal ==
    ASSUME TypeOK, OnlyTickers, NEW s \in Servers,
           UNCHANGED <<clock, db, changed, inflight, spawned, stamped, writing>>,
           \A t \in Servers \ {s} : cache'[t] = cache[t] /\ reload'[t] = reload[t],
           \A t \in Servers \ {s} : last'[t] = last[t] /\ attempts'[t] = attempts[t],
           \A t \in Servers : fills'[t] = {},
           NEW p, pc' = [pc EXCEPT ![T(s)] = p],
           NEW j, job' = [job EXCEPT ![T(s)] = j]
    PROVE  Local(s) /\ pc'[T(s)] = p /\ job'[T(s)] = j
<1>1. pc \in [Agents -> Steps] /\ job \in [Agents -> Job]
  BY DEF TypeOK
<1>2. pc'[T(s)] = p /\ job'[T(s)] = j
  BY <1>1, TickerApart
<1>3. \A t \in Servers \ {s} : pc'[T(t)] = pc[T(t)] /\ job'[T(t)] = job[T(t)]
  BY <1>1, TickerApart
<1>4. \A a \in Agents : a[2] # "ticker" => pc'[a] = "idle"
  BY <1>1, TickerApart DEF OnlyTickers
<1>5. QED BY <1>2, <1>3, <1>4 DEF Local, SameServer

LEMMA SyncStartEffect ==
    ASSUME TypeOK, OnlyTickers, NEW s \in Servers, SyncStart(T(s))
    PROVE  /\ Local(s) /\ pc[T(s)] = "idle" /\ pc'[T(s)] = "load" /\ attempts[s] # 0
           /\ job'[T(s)] = [NoJob EXCEPT !.from = last[s], !.now = clock]
           /\ UNCHANGED <<cache, reload, last, attempts>>
<1>1. T(s)[1] = s
  BY TickerApart
<1> DEFINE j == [NoJob EXCEPT !.from = last[s], !.now = clock]
<1>2. /\ pc[T(s)] = "idle" /\ pc' = [pc EXCEPT ![T(s)] = "load"] /\ attempts[s] # 0
      /\ job' = [job EXCEPT ![T(s)] = j]
      /\ UNCHANGED <<cache, reload, last, attempts, fills>>
      /\ UNCHANGED <<clock, db, changed, inflight, spawned, stamped, writing>>
  BY <1>1 DEF SyncStart, MayStart, dbVars, logVars, cacheVars
<1>3. \A t \in Servers : fills'[t] = {}
  BY <1>2 DEF OnlyTickers
<1> HIDE DEF j
<1>4. Local(s) /\ pc'[T(s)] = "load" /\ job'[T(s)] = j
  BY <1>2, <1>3, StepLocal
<1>5. QED BY <1>2, <1>4 DEF j

LEMMA FullStartEffect ==
    ASSUME TypeOK, OnlyTickers, NEW s \in Servers, FullStart(T(s))
    PROVE  /\ Local(s) /\ pc[T(s)] = "idle" /\ pc'[T(s)] = "wipe" /\ attempts[s] = 0
           /\ job'[T(s)] = [NoJob EXCEPT !.now = clock, !.full = TRUE]
           /\ last'[s] = clock
           /\ UNCHANGED <<cache, reload, attempts>>
<1>1. T(s)[1] = s /\ T(s)[2] = "ticker"
  BY TickerApart
<1> DEFINE j == [NoJob EXCEPT !.now = clock, !.full = TRUE]
<1>2. /\ pc[T(s)] = "idle" /\ pc' = [pc EXCEPT ![T(s)] = "wipe"] /\ attempts[s] = 0
      /\ job' = [job EXCEPT ![T(s)] = j] /\ last' = [last EXCEPT ![s] = clock]
      /\ UNCHANGED <<cache, reload, attempts, fills>>
      /\ UNCHANGED <<clock, db, changed, inflight, spawned, stamped, writing>>
  BY <1>1 DEF FullStart, MayStart, dbVars, logVars, cacheVars
<1>3. \A t \in Servers : fills'[t] = {}
  BY <1>2 DEF OnlyTickers
<1>4. last'[s] = clock /\ \A t \in Servers \ {s} : last'[t] = last[t]
  BY <1>2 DEF TypeOK
<1> HIDE DEF j
<1>5. Local(s) /\ pc'[T(s)] = "wipe" /\ job'[T(s)] = j
  BY <1>2, <1>3, <1>4, StepLocal
<1>6. QED BY <1>2, <1>4, <1>5 DEF j

LEMMA LoadEffect ==
    ASSUME TypeOK, OnlyTickers, Benign, NEW s \in Servers, SyncLoad(T(s)) \/ SyncLoadFail(T(s))
    PROVE  /\ Local(s) /\ pc[T(s)] = "load" /\ pc'[T(s)] = "apply"
           /\ \/ job'[T(s)] = [job[T(s)] EXCEPT !.todo = InRange(job[T(s)].from, job[T(s)].now)]
              \/ SyncLoadFail(T(s)) /\ job'[T(s)] = [job[T(s)] EXCEPT !.err = TRUE]
           /\ UNCHANGED <<cache, reload, last, attempts>>
<1>1. T(s) \in Agents
  BY TickerApart
<1>2. /\ pc[T(s)] = "load" /\ pc' = [pc EXCEPT ![T(s)] = "apply"]
      /\ UNCHANGED <<cache, reload, last, attempts, fills>>
      /\ UNCHANGED <<clock, db, changed, inflight, spawned, stamped, writing>>
  BY DEF SyncLoad, SyncLoadFail, dbVars, logVars, cacheVars
<1> DEFINE j1 == [job[T(s)] EXCEPT !.todo = InRange(job[T(s)].from, job[T(s)].now)]
           j2 == [job[T(s)] EXCEPT !.err = TRUE]
<1>3. \/ job' = [job EXCEPT ![T(s)] = j1]
      \/ SyncLoadFail(T(s)) /\ job' = [job EXCEPT ![T(s)] = j2]
  <2>1. CASE SyncLoadFail(T(s))
    BY <2>1 DEF SyncLoadFail
  <2>2. CASE SyncLoad(T(s))
    <3>1. "lossy_read" \notin Faults
      BY DEF Benign
    <3>2. QED BY <2>2, <3>1 DEF SyncLoad
  <2>3. QED BY <2>1, <2>2
<1>4. \A t \in Servers : fills'[t] = {}
  BY <1>2 DEF OnlyTickers
<1> HIDE DEF j1, j2
<1>5. /\ Local(s) /\ pc'[T(s)] = "apply"
      /\ job'[T(s)] = j1 \/ (SyncLoadFail(T(s)) /\ job'[T(s)] = j2)
  BY <1>2, <1>3, <1>4, StepLocal
<1>6. QED BY <1>2, <1>5 DEF j1, j2

LEMMA FinishEffect ==
    ASSUME TypeOK, OnlyTickers, NEW s \in Servers, NEW err, Finish(T(s), err),
           UNCHANGED <<clock, db, changed, inflight, spawned, stamped, writing, reload, fills>>,
           \A t \in Servers \ {s} : cache'[t] = cache[t]
    PROVE  /\ Local(s) /\ pc'[T(s)] = "idle" /\ job'[T(s)] = NoJob
           /\ last'[s] = IF ~job[T(s)].full /\ ~err THEN job[T(s)].now ELSE last[s]
           /\ attempts'[s] = IF job[T(s)].full /\ err THEN attempts[s]
                             ELSE IF job[T(s)].full THEN attempts[s] + 1
                             ELSE IF err THEN attempts[s] - 1 ELSE Retry
<1>1. T(s)[1] = s /\ T(s)[2] = "ticker"
  BY TickerApart
<1>2. /\ pc' = [pc EXCEPT ![T(s)] = "idle"] /\ job' = [job EXCEPT ![T(s)] = NoJob]
      /\ last' = [last EXCEPT ![s] = LastAfter(T(s), err)]
      /\ attempts' = [attempts EXCEPT ![s] = AttemptsAfter(T(s), err)]
  BY <1>1 DEF Finish
<1>3. /\ last'[s] = LastAfter(T(s), err) /\ attempts'[s] = AttemptsAfter(T(s), err)
      /\ \A t \in Servers \ {s} : last'[t] = last[t] /\ attempts'[t] = attempts[t]
  BY <1>2 DEF TypeOK
<1>4. \A t \in Servers : fills'[t] = {}
  BY DEF OnlyTickers
<1>5. Local(s) /\ pc'[T(s)] = "idle" /\ job'[T(s)] = NoJob
  BY <1>2, <1>3, <1>4, StepLocal
<1>6. QED BY <1>1, <1>3, <1>5 DEF LastAfter, AttemptsAfter

LEMMA EndEffect ==
    ASSUME TypeOK, OnlyTickers, NEW s \in Servers, SyncEnd(T(s))
    PROVE  /\ Local(s) /\ pc[T(s)] = "apply" /\ job[T(s)].todo = {}
           /\ UNCHANGED <<cache, reload>>
           /\ \/ /\ job[T(s)].wipe /\ pc'[T(s)] = "wipe" /\ job'[T(s)] = job[T(s)]
                 /\ UNCHANGED <<last, attempts>>
              \/ /\ ~job[T(s)].wipe /\ pc'[T(s)] = "idle" /\ job'[T(s)] = NoJob
                 /\ last'[s] = IF ~job[T(s)].full /\ ~job[T(s)].err THEN job[T(s)].now ELSE last[s]
                 /\ ~job[T(s)].full /\ ~job[T(s)].err => attempts'[s] = Retry
<1>1. T(s) \in Agents
  BY TickerApart
<1>2. /\ UNCHANGED <<clock, db, changed, inflight, spawned, stamped, writing, cache, reload, fills>>
      /\ pc[T(s)] = "apply" /\ job[T(s)].todo = {}
  BY DEF SyncEnd, dbVars, logVars, cacheVars
<1>3. \A t \in Servers : fills'[t] = {}
  BY <1>2 DEF OnlyTickers
<1>4. CASE job[T(s)].wipe
  <2>1. /\ pc' = [pc EXCEPT ![T(s)] = "wipe"] /\ UNCHANGED <<last, attempts, job>>
    BY <1>4 DEF SyncEnd
  <2>2. job' = [job EXCEPT ![T(s)] = job[T(s)]]
    BY <1>1, <2>1 DEF TypeOK
  <2>3. Local(s) /\ pc'[T(s)] = "wipe" /\ job'[T(s)] = job[T(s)]
    BY <1>2, <1>3, <2>1, <2>2, StepLocal
  <2>4. QED BY <1>2, <1>4, <2>1, <2>3
<1>5. CASE ~job[T(s)].wipe
  <2>1. Finish(T(s), job[T(s)].err)
    BY <1>5 DEF SyncEnd
  <2>2. QED BY <1>2, <1>5, <2>1, FinishEffect
<1>6. QED BY <1>4, <1>5

LEMMA EvictEffect ==
    ASSUME TypeOK, OnlyTickers, NEW s \in Servers, NEW K \in SUBSET Keys, Evict(s, K)
    PROVE  /\ \A t \in Servers \ {s} : cache'[t] = cache[t] /\ reload'[t] = reload[t]
           /\ \A t \in Servers : fills'[t] = {}
           /\ cache'[s] = [k \in Keys |-> IF k \in K THEN Absent ELSE cache[s][k]]
           /\ reload'[s] = reload[s] \ K
<1>1. /\ cache' = [cache EXCEPT ![s] = [k \in Keys |-> IF k \in K THEN Absent ELSE cache[s][k]]]
      /\ reload' = [reload EXCEPT ![s] = @ \ K]
      /\ fills' = [fills EXCEPT ![s] = {f \in @ : ~(f.entry /\ f.key \in K)}]
  BY DEF Evict
<1>2. cache \in [Servers -> Table] /\ reload \in [Servers -> SUBSET Keys] /\ fills \in [Servers -> SUBSET Fill]
  BY DEF TypeOK
<1>3. \A t \in Servers : fills[t] = {}
  BY DEF OnlyTickers
<1>4. \A t \in Servers : fills'[t] = {}
  BY <1>1, <1>2, <1>3
<1>5. QED BY <1>1, <1>2, <1>4

LEMMA WipeEffect ==
    ASSUME TypeOK, OnlyTickers, NEW s \in Servers, RefreshWipe(T(s))
    PROVE  /\ Local(s) /\ pc[T(s)] = "wipe" /\ pc'[T(s)] = "read" /\ job'[T(s)] = job[T(s)]
           /\ cache'[s] = EmptyTable /\ reload'[s] = {}
           /\ UNCHANGED <<last, attempts>>
<1>1. T(s) \in Agents /\ T(s)[1] = s
  BY TickerApart
<1>2. /\ UNCHANGED <<clock, db, changed, inflight, spawned, stamped, writing, last, attempts, job>>
      /\ pc[T(s)] = "wipe" /\ pc' = [pc EXCEPT ![T(s)] = "read"] /\ Evict(s, Keys)
  BY <1>1 DEF RefreshWipe, dbVars, logVars
<1>3. /\ \A t \in Servers \ {s} : cache'[t] = cache[t] /\ reload'[t] = reload[t]
      /\ \A t \in Servers : fills'[t] = {}
      /\ cache'[s] = EmptyTable /\ reload'[s] = {}
  <2>1. reload[s] \ Keys = {}
    BY DEF TypeOK
  <2>2. [k \in Keys |-> IF k \in Keys THEN Absent ELSE cache[s][k]] = EmptyTable
    BY DEF EmptyTable
  <2>3. QED BY <1>2, <2>1, <2>2, EvictEffect
<1>4. job' = [job EXCEPT ![T(s)] = job[T(s)]]
  BY <1>1, <1>2 DEF TypeOK
<1>5. Local(s) /\ pc'[T(s)] = "read" /\ job'[T(s)] = job[T(s)]
  BY <1>2, <1>3, <1>4, StepLocal
<1>6. QED BY <1>2, <1>3, <1>5

LEMMA ReadEffect ==
    ASSUME TypeOK, OnlyTickers, Benign, NEW s \in Servers, RefreshRead(T(s))
    PROVE  /\ Local(s) /\ pc[T(s)] = "read" /\ pc'[T(s)] = "put"
           /\ job'[T(s)] = [job[T(s)] EXCEPT !.snap = db]
           /\ UNCHANGED <<cache, reload, last, attempts>>
<1>1. T(s) \in Agents
  BY TickerApart
<1>2. /\ UNCHANGED <<clock, db, changed, inflight, spawned, stamped, writing, last, attempts, cache, reload, fills>>
      /\ pc[T(s)] = "read" /\ pc' = [pc EXCEPT ![T(s)] = "put"]
  BY DEF RefreshRead, dbVars, logVars, cacheVars
<1> DEFINE j == [job[T(s)] EXCEPT !.snap = db]
<1>3. job' = [job EXCEPT ![T(s)] = j]
  <2>1. "lossy_read" \notin Faults
    BY DEF Benign
  <2>2. job' = [job EXCEPT ![T(s)].snap = [k \in Keys |-> IF k \in Keys THEN db[k] ELSE Absent]]
    BY <2>1 DEF RefreshRead
  <2>3. [k \in Keys |-> IF k \in Keys THEN db[k] ELSE Absent] = db
    BY DEF TypeOK, Table
  <2>4. QED BY <2>2, <2>3
<1>4. \A t \in Servers : fills'[t] = {}
  BY <1>2 DEF OnlyTickers
<1> HIDE DEF j
<1>5. Local(s) /\ pc'[T(s)] = "put" /\ job'[T(s)] = j
  BY <1>2, <1>3, <1>4, StepLocal
<1>6. QED BY <1>2, <1>5 DEF j

LEMMA PutEffect ==
    ASSUME TypeOK, OnlyTickers, NEW s \in Servers, RefreshPut(T(s))
    PROVE  /\ Local(s) /\ pc[T(s)] = "put" /\ pc'[T(s)] = "idle" /\ job'[T(s)] = NoJob
           /\ cache'[s] = [k \in Keys |-> IF job[T(s)].snap[k] # Absent THEN job[T(s)].snap[k] ELSE cache[s][k]]
           /\ last'[s] = IF ~job[T(s)].full /\ ~job[T(s)].err THEN job[T(s)].now ELSE last[s]
           /\ reload' = reload
<1>1. T(s) \in Agents /\ T(s)[1] = s
  BY TickerApart
<1> DEFINE c == [k \in Keys |-> IF job[T(s)].snap[k] # Absent THEN job[T(s)].snap[k] ELSE cache[s][k]]
<1>2. /\ UNCHANGED <<clock, db, changed, inflight, spawned, stamped, writing, reload, fills>>
      /\ pc[T(s)] = "put" /\ Finish(T(s), job[T(s)].err)
      /\ cache' = [cache EXCEPT ![s] = c]
  BY <1>1 DEF RefreshPut, dbVars, logVars
<1> HIDE DEF c
<1>3. cache'[s] = c /\ \A t \in Servers \ {s} : cache'[t] = cache[t]
  BY <1>2 DEF TypeOK
<1>4. QED BY <1>2, <1>3, FinishEffect DEF c

LEMMA ReloadEffect ==
    ASSUME TypeOK, OnlyTickers, NEW s \in Servers, NEW k \in Keys, ReloadLand(s, k)
    PROVE  /\ Local(s) /\ k \in reload[s] /\ reload'[s] = reload[s] \ {k}
           /\ \A i \in Keys \ {k} : cache'[s][i] = cache[s][i]
           /\ cache'[s][k] = IF db[k] # Absent THEN db[k] ELSE cache[s][k]
           /\ cache[s] = db => cache'[s] = db
           /\ UNCHANGED <<last, attempts, pc, job>>
<1> DEFINE v == IF db[k] # Absent THEN db[k] ELSE cache[s][k]
<1>1. /\ UNCHANGED <<clock, db, changed, inflight, spawned, stamped, writing, fills, last, attempts, pc, job>>
      /\ k \in reload[s] /\ reload' = [reload EXCEPT ![s] = @ \ {k}]
      /\ cache' = [cache EXCEPT ![s][k] = v]
  BY DEF ReloadLand, dbVars, logVars, taskVars
<1>2. cache \in [Servers -> Table] /\ reload \in [Servers -> SUBSET Keys] /\ v \in Nat /\ db \in Table
  BY DEF TypeOK, Table
<1> HIDE DEF v
<1>3. /\ \A t \in Servers \ {s} : cache'[t] = cache[t] /\ reload'[t] = reload[t]
      /\ reload'[s] = reload[s] \ {k}
  BY <1>1, <1>2
<1>4. cache'[s] = [cache[s] EXCEPT ![k] = v] /\ cache[s] \in Table
  BY <1>1, <1>2
<1>5. /\ \A i \in Keys \ {k} : cache'[s][i] = cache[s][i]
      /\ cache'[s][k] = v
  BY <1>4 DEF Table
<1>6. cache[s] = db => cache'[s] = db
  BY <1>2, <1>4 DEF Table, v
<1>7. Local(s)
  BY <1>1, <1>3 DEF Local, SameServer, OnlyTickers
<1>8. QED BY <1>1, <1>3, <1>5, <1>6, <1>7 DEF v

(* A record of the log is applied, skipped, or ends the round.             *)
Consumed(s, r) ==
    LET i == job[T(s)]  j == job'[T(s)] IN
    /\ j.todo = i.todo \ {r} /\ j.err = i.err /\ j.now = i.now /\ j.full = i.full
Stopped(s) ==
    LET i == job[T(s)]  j == job'[T(s)] IN
    /\ j.todo = {} /\ j.err /\ j.now = i.now /\ j.full = i.full

LEMMA ConsumeEffect ==
    ASSUME TypeOK, NEW s \in Servers, NEW r, NEW b, Consume(T(s), r, b)
    PROVE  /\ Consumed(s, r) /\ \E j : job' = [job EXCEPT ![T(s)] = j]
           /\ b = FALSE => job'[T(s)].wipe = job[T(s)].wipe
<1>1. job \in [Agents -> Job] /\ T(s) \in Agents /\ job[T(s)] \in Job
  BY TickerApart DEF TypeOK
<1> DEFINE j == [job[T(s)] EXCEPT !.todo = @ \ {r}, !.row = RowKey(r.ts), !.wipe = @ \/ b]
<1>2. job' = [job EXCEPT ![T(s)] = j]
  BY <1>1 DEF Consume, Job
<1>3. job'[T(s)] = j
  BY <1>1, <1>2
<1>4. j.todo = job[T(s)].todo \ {r} /\ j.err = job[T(s)].err /\ j.now = job[T(s)].now /\ j.full = job[T(s)].full
  BY <1>1 DEF Job
<1>5. b = FALSE => j.wipe = job[T(s)].wipe
  <2>1. job[T(s)].wipe \in BOOLEAN
    BY <1>1 DEF Job
  <2>2. j.wipe = (job[T(s)].wipe \/ b)
    BY <1>1 DEF Job
  <2>3. QED BY <2>1, <2>2
<1> HIDE DEF j
<1>6. QED BY <1>2, <1>3, <1>4, <1>5 DEF Consumed

LEMMA StopEffect ==
    ASSUME TypeOK, NEW s \in Servers, Stop(T(s), TRUE)
    PROVE  Stopped(s) /\ \E j : job' = [job EXCEPT ![T(s)] = j]
<1>1. job \in [Agents -> Job] /\ T(s) \in Agents /\ job[T(s)] \in Job
  BY TickerApart DEF TypeOK
<1> DEFINE j == [job[T(s)] EXCEPT !.todo = {}, !.err = TRUE]
<1>2. job' = [job EXCEPT ![T(s)] = j]
  BY <1>1 DEF Stop, Job
<1>3. job'[T(s)] = j
  BY <1>1, <1>2
<1>4. j.todo = {} /\ j.err = TRUE /\ j.now = job[T(s)].now /\ j.full = job[T(s)].full
  BY <1>1 DEF Job
<1> HIDE DEF j
<1>5. QED BY <1>2, <1>3, <1>4 DEF Stopped

LEMMA FirstRow == \A t \in Nat : t < Window => RowKey(t) = 0
BY ConstantsOK DEF RowKey

LEMMA OneRow ==
    ASSUME Benign, TypeOK, LogOK, NEW r \in Records
    PROVE  RowKey(r.ts) = 0
<1>1. r.ts \in Nat /\ r.ts < Window
  <2>1. r \in ChangedData /\ r.ts <= clock /\ clock <= MaxClock
    BY DEF TypeOK, LogOK, Records
  <2>2. r.ts \in Nat
    BY <2>1 DEF ChangedData
  <2>3. QED BY <2>1, <2>2, ConstantsOK DEF Benign, TypeOK
<1>2. QED BY <1>1, FirstRow

LEMMA ApplyEffect ==
    ASSUME Benign, TypeOK, OnlyTickers, LogOK, NEW s \in Servers, SyncApply(T(s)), RoundOK(s)
    PROVE  /\ Local(s) /\ pc[T(s)] = "apply" /\ pc'[T(s)] = "apply"
           /\ UNCHANGED <<last, attempts>>
           /\ \E r \in job[T(s)].todo :
                /\ \A q \in job[T(s)].todo : r.seq <= q.seq
                /\ \/ /\ s \in Writers /\ Consumed(s, r) /\ UNCHANGED <<cache, reload>>
                      /\ job'[T(s)].wipe = job[T(s)].wipe
                   \/ /\ s \notin Writers /\ Consumed(s, r)
                      /\ r.operation = "CREATE" /\ reload'[s] = reload[s] \cup {r.key} /\ cache'[s] = cache[s]
                   \/ /\ s \notin Writers /\ Consumed(s, r)
                      /\ r.operation = "CREATE" /\ reload'[s] = reload[s]
                      /\ cache'[s] = [cache[s] EXCEPT ![r.key] = db[r.key]]
                   \/ /\ s \notin Writers /\ Consumed(s, r)
                      /\ r.operation = "DELETE" /\ reload'[s] = reload[s] \ {r.key}
                      /\ cache'[s] = [k \in Keys |-> IF k \in {r.key} THEN Absent ELSE cache[s][k]]
                   \/ s \notin Writers /\ Stopped(s) /\ UNCHANGED <<cache, reload>>
<1>1. T(s) \in Agents /\ T(s)[1] = s
  BY TickerApart
<1>2. /\ pc[T(s)] = "apply" /\ UNCHANGED <<pc, last, attempts>>
      /\ UNCHANGED <<clock, db, changed, inflight, spawned, stamped, writing>>
  BY DEF SyncApply, logVars
<1>3. pc' = [pc EXCEPT ![T(s)] = pc[T(s)]]
  BY <1>1, <1>2 DEF TypeOK
<1>4. PICK r \in job[T(s)].todo :
        /\ IsNext(job[T(s)], r)
        /\ \/ ApplySkip(T(s), r) \/ ApplyUnknown(T(s), r)
           \/ ApplyCreateCached(T(s), r) \/ ApplyCreateLoad(T(s), r)
           \/ ApplyDelete(T(s), r) \/ ApplyTruncate(T(s), r) \/ ApplyCreateFail(T(s), r)
  BY DEF SyncApply
<1>5. job[T(s)].todo \subseteq Records
  BY DEF RoundOK, Records
<1>6. \A q \in job[T(s)].todo : r.seq <= q.seq
  BY <1>4, <1>5, OneRow DEF IsNext
<1>7. r.known /\ r.size # 0 /\ r.origin \in Writers /\ r.operation \in {"CREATE", "DELETE"} /\ r.key \in Keys
  BY <1>5 DEF LogOK, TypeOK, Records, ChangedData
<1>8. Skipped(s, r) <=> s \in Writers
  BY <1>7 DEF Skipped, Benign
<1>9. \A t \in Servers : fills[t] = {}
  BY DEF OnlyTickers
<1>10. ASSUME \A t \in Servers \ {s} : cache'[t] = cache[t] /\ reload'[t] = reload[t],
              \A t \in Servers : fills'[t] = {}, \E j : job' = [job EXCEPT ![T(s)] = j]
       PROVE  Local(s) /\ pc'[T(s)] = "apply"
  BY <1>2, <1>3, <1>10, StepLocal
<1>11. CASE ApplySkip(T(s), r)
  <2>1. Consume(T(s), r, FALSE) /\ UNCHANGED <<cache, reload, fills>> /\ s \in Writers
    BY <1>1, <1>8, <1>11 DEF ApplySkip, cacheVars
  <2>2. Consumed(s, r) /\ (\E j : job' = [job EXCEPT ![T(s)] = j]) /\ job'[T(s)].wipe = job[T(s)].wipe
    BY <2>1, ConsumeEffect
  <2>3. Local(s) /\ pc'[T(s)] = "apply"
    BY <1>9, <1>10, <2>1, <2>2
  <2>4. QED BY <1>2, <1>6, <2>1, <2>2, <2>3
<1>12. CASE ApplyCreateCached(T(s), r)
  <2>1. /\ s \notin Writers /\ r.operation = "CREATE" /\ UNCHANGED <<cache, fills>>
        /\ reload' = [reload EXCEPT ![s] = IF Reloading(s, r.key) THEN @ ELSE @ \cup {r.key}]
        /\ \E b : Consume(T(s), r, b)
    BY <1>1, <1>8, <1>12, Zenon DEF ApplyCreateCached
  <2>2. ~Reloading(s, r.key)
    BY <1>9 DEF Reloading
  <2>3. reload'[s] = reload[s] \cup {r.key} /\ \A t \in Servers \ {s} : reload'[t] = reload[t]
    BY <2>1, <2>2 DEF TypeOK
  <2>4. Consumed(s, r) /\ \E j : job' = [job EXCEPT ![T(s)] = j]
    BY <2>1, ConsumeEffect
  <2>5. Local(s) /\ pc'[T(s)] = "apply"
    BY <1>9, <1>10, <2>1, <2>3, <2>4
  <2>6. QED BY <1>2, <1>6, <2>1, <2>3, <2>4, <2>5
<1>13. CASE ApplyCreateLoad(T(s), r)
  <2>1. /\ s \notin Writers /\ r.operation = "CREATE" /\ UNCHANGED <<reload, fills>>
        /\ cache' = [cache EXCEPT ![s][r.key] = db[r.key]]
        /\ \E b : Consume(T(s), r, b)
    BY <1>1, <1>8, <1>13, Zenon DEF ApplyCreateLoad
  <2>2. cache'[s] = [cache[s] EXCEPT ![r.key] = db[r.key]] /\ \A t \in Servers \ {s} : cache'[t] = cache[t]
    BY <2>1 DEF TypeOK
  <2>3. Consumed(s, r) /\ \E j : job' = [job EXCEPT ![T(s)] = j]
    BY <2>1, ConsumeEffect
  <2>4. Local(s) /\ pc'[T(s)] = "apply"
    BY <1>9, <1>10, <2>1, <2>2, <2>3
  <2>5. QED BY <1>2, <1>6, <2>1, <2>2, <2>3, <2>4
<1>14. CASE ApplyDelete(T(s), r)
  <2>1. /\ s \notin Writers /\ r.operation = "DELETE" /\ Evict(s, {r.key})
        /\ \E b : Consume(T(s), r, b)
    BY <1>1, <1>8, <1>14, Zenon DEF ApplyDelete
  <2>2. /\ \A t \in Servers \ {s} : cache'[t] = cache[t] /\ reload'[t] = reload[t]
        /\ \A t \in Servers : fills'[t] = {}
        /\ cache'[s] = [k \in Keys |-> IF k \in {r.key} THEN Absent ELSE cache[s][k]]
        /\ reload'[s] = reload[s] \ {r.key}
    BY <1>7, <2>1, EvictEffect
  <2>3. Consumed(s, r) /\ \E j : job' = [job EXCEPT ![T(s)] = j]
    BY <2>1, ConsumeEffect
  <2>4. Local(s) /\ pc'[T(s)] = "apply"
    BY <1>10, <2>2, <2>3
  <2>5. QED BY <1>2, <1>6, <2>1, <2>2, <2>3, <2>4
<1>15. CASE ApplyCreateFail(T(s), r)
  <2>1. Stop(T(s), TRUE) /\ UNCHANGED <<cache, reload, fills>> /\ s \notin Writers
    BY <1>1, <1>8, <1>15 DEF ApplyCreateFail, cacheVars
  <2>2. Stopped(s) /\ \E j : job' = [job EXCEPT ![T(s)] = j]
    BY <2>1, StopEffect
  <2>3. Local(s) /\ pc'[T(s)] = "apply"
    BY <1>9, <1>10, <2>1, <2>2
  <2>4. QED BY <1>2, <1>6, <2>1, <2>2, <2>3
<1>16. CASE ApplyUnknown(T(s), r) \/ ApplyTruncate(T(s), r)
  BY <1>7, <1>16 DEF ApplyUnknown, ApplyTruncate
<1>17. QED BY <1>4, <1>11, <1>12, <1>13, <1>14, <1>15, <1>16

LEMMA BootReadEffect ==
    ASSUME TypeOK, OnlyTickers, NEW s \in Servers, BootRead(s)
    PROVE  /\ Local(s) /\ pc[T(s)] = "boot" /\ pc'[T(s)] = "booted" /\ job'[T(s)] = job[T(s)]
           /\ cache'[s] = db /\ UNCHANGED <<reload, last, attempts>>
<1>1. T(s) \in Agents /\ T(s) = <<s, "ticker">>
  BY TickerApart
<1>2. /\ UNCHANGED <<clock, db, changed, inflight, spawned, stamped, writing, reload, fills, last, attempts, job>>
      /\ pc[T(s)] = "boot" /\ pc' = [pc EXCEPT ![T(s)] = "booted"] /\ cache' = [cache EXCEPT ![s] = db]
  BY <1>1 DEF BootRead, dbVars, logVars
<1>3. job' = [job EXCEPT ![T(s)] = job[T(s)]]
  BY <1>1, <1>2 DEF TypeOK
<1>4. cache'[s] = db /\ \A t \in Servers \ {s} : cache'[t] = cache[t]
  BY <1>2 DEF TypeOK
<1>5. \A t \in Servers : fills'[t] = {}
  BY <1>2 DEF OnlyTickers
<1>6. Local(s) /\ pc'[T(s)] = "booted" /\ job'[T(s)] = job[T(s)]
  BY <1>2, <1>3, <1>4, <1>5, StepLocal
<1>7. QED BY <1>2, <1>4, <1>6

LEMMA BootDoneEffect ==
    ASSUME TypeOK, OnlyTickers, NEW s \in Servers, BootDone(s)
    PROVE  /\ Local(s) /\ pc[T(s)] = "booted" /\ pc'[T(s)] = "idle" /\ job'[T(s)] = job[T(s)]
           /\ attempts'[s] = Retry /\ UNCHANGED <<cache, reload>>
<1>1. T(s) \in Agents /\ T(s) = <<s, "ticker">>
  BY TickerApart
<1>2. /\ UNCHANGED <<clock, db, changed, inflight, spawned, stamped, writing, cache, reload, fills, job>>
      /\ pc[T(s)] = "booted" /\ pc' = [pc EXCEPT ![T(s)] = "idle"]
      /\ last' = [last EXCEPT ![s] = clock] /\ attempts' = [attempts EXCEPT ![s] = Retry]
  BY <1>1 DEF BootDone, dbVars, logVars, cacheVars
<1>3. job' = [job EXCEPT ![T(s)] = job[T(s)]]
  BY <1>1, <1>2 DEF TypeOK
<1>4. /\ attempts'[s] = Retry
      /\ \A t \in Servers \ {s} : last'[t] = last[t] /\ attempts'[t] = attempts[t]
  BY <1>2 DEF TypeOK
<1>5. \A t \in Servers : fills'[t] = {}
  BY <1>2 DEF OnlyTickers
<1>6. Local(s) /\ pc'[T(s)] = "idle" /\ job'[T(s)] = job[T(s)]
  BY <1>2, <1>3, <1>4, <1>5, StepLocal
<1>7. QED BY <1>2, <1>4, <1>6

LEMMA CrashEffect ==
    ASSUME TypeOK, OnlyTickers, LogOK, NEW s \in Servers \ Writers, Crash(s)
    PROVE  Local(s) /\ pc'[T(s)] = "boot" /\ job'[T(s)] = NoJob
<1>1. T(s) \in Agents /\ T(s)[1] = s /\ T(s)[2] = "ticker"
  BY TickerApart
<1>2. writing' = writing /\ spawned' = spawned /\ inflight' = inflight
  BY DEF Crash, LogOK, Records
<1>3. pc'[T(s)] = "boot" /\ job'[T(s)] = NoJob
  BY <1>1 DEF Crash
<1>4. \A t \in Servers \ {s} : SameServer(t)
  BY AgentParts DEF Crash, SameServer, TypeOK
<1>5. \A t \in Servers : fills'[t] = {}
  BY DEF Crash, OnlyTickers, TypeOK
<1>6. \A a \in Agents : a[2] # "ticker" => pc'[a] = "idle"
  BY DEF Crash, OnlyTickers
<1>7. QED BY <1>2, <1>3, <1>4, <1>5, <1>6 DEF Local, Crash

-----------------------------------------------------------------------------
(* Each step of a server keeps what is required of it.                     *)

LEMMA NoJobParts ==
    /\ NoJob.todo = {} /\ ~NoJob.err /\ ~NoJob.wipe /\ ~NoJob.full
    /\ \A f, n : LET j == [NoJob EXCEPT !.from = f, !.now = n]
                 IN  j.todo = {} /\ ~j.err /\ ~j.wipe /\ ~j.full /\ j.from = f /\ j.now = n
    /\ \A n : LET j == [NoJob EXCEPT !.now = n, !.full = TRUE]
              IN  j.todo = {} /\ ~j.err /\ ~j.wipe /\ j.full /\ j.now = n
BY DEF NoJob

LEMMA SyncStartOK ==
    ASSUME SyncInv, NEW s \in Servers, SyncStart(T(s))
    PROVE  Local(s) /\ (Booting(s)' => Booting(s)) /\ ServerOK(s)'
<1>1. /\ Local(s) /\ pc[T(s)] = "idle" /\ pc'[T(s)] = "load"
      /\ job'[T(s)] = [NoJob EXCEPT !.from = last[s], !.now = clock]
      /\ UNCHANGED <<cache, reload, last, attempts>>
  BY SyncStartEffect DEF SyncInv
<1>2. /\ job'[T(s)].todo = {} /\ ~job'[T(s)].err /\ ~job'[T(s)].wipe /\ ~job'[T(s)].full
      /\ job'[T(s)].from = last[s]
  BY <1>1, NoJobParts
<1>3. UNCHANGED <<db, changed, inflight, spawned, writing>>
  BY <1>1 DEF Local
<1>4. ~Booting(s) /\ ~Booting(s)'
  BY <1>1 DEF Booting, T
<1>5. BootOK(s)' /\ RoundOK(s)'
  BY <1>1, <1>2 DEF BootOK, RoundOK
<1>6. ASSUME s \in Writers PROVE WriterOK(s)'
  BY <1>1, <1>2, <1>3, <1>4, <1>6 DEF SyncInv, ServerOK, WriterOK
<1>7. ASSUME s \notin Writers, NEW k \in Keys PROVE RowOK(s, k)'
  <2>1. RowOK(s, k)
    BY <1>7 DEF SyncInv, ServerOK
  <2>2. ToSee(s, k)' = ToSee(s, k)
    BY <1>1, <1>3 DEF ToSee, Since
  <2>3. Underway(k)' = Underway(k)
    BY <1>3 DEF Underway
  <2>4. QED BY <1>1, <1>3, <1>4, <2>1, <2>2, <2>3 DEF RowOK
<1>8. QED BY <1>1, <1>4, <1>5, <1>6, <1>7 DEF ServerOK

LEMMA FullStartOK ==
    ASSUME Benign, SyncInv, NEW s \in Servers, FullStart(T(s))
    PROVE  Local(s) /\ (Booting(s)' => Booting(s)) /\ ServerOK(s)'
<1>1. /\ Local(s) /\ pc[T(s)] = "idle" /\ pc'[T(s)] = "wipe" /\ attempts[s] = 0
      /\ job'[T(s)] = [NoJob EXCEPT !.now = clock, !.full = TRUE]
      /\ last'[s] = clock
      /\ UNCHANGED <<cache, reload, attempts>>
  BY FullStartEffect DEF SyncInv
<1>2. job'[T(s)].todo = {} /\ job'[T(s)].now = clock
  BY <1>1, NoJobParts
<1>3. ~Booting(s)'
  BY <1>1 DEF Booting, T
<1>4. BootOK(s)' /\ RoundOK(s)'
  BY <1>1, <1>2 DEF BootOK, RoundOK
<1>5. s \notin Writers
  BY <1>1 DEF SyncInv, ServerOK, WriterOK, Benign
<1>6. \A k \in Keys : RowOK(s, k)'
  BY <1>1 DEF RowOK
<1>7. QED BY <1>1, <1>3, <1>4, <1>5, <1>6 DEF ServerOK

(* The records a sync reads are those since last.                          *)
LEMMA ReadsSince ==
    ASSUME Benign, TypeOK, LogOK, TimesOK, NEW s \in Servers, NEW r \in changed
    PROVE  r \in InRange(last[s], job[T(s)].now) <=> last[s] <= r.ts
<1>1. T(s) \in Agents /\ job[T(s)] \in Job
  BY TickerApart DEF TypeOK
<1>2. last[s] \in Nat /\ job[T(s)].now \in Nat /\ clock \in Nat
  BY <1>1 DEF TypeOK, Job
<1>3. last[s] < Window /\ job[T(s)].now < Window
  BY <1>2, ConstantsOK DEF TimesOK, LogOK, Benign
<1>4. RowKey(last[s]) = 0 /\ RowKey(job[T(s)].now) = 0
  BY <1>2, <1>3, FirstRow
<1>5. RowKey(r.ts) = 0
  BY OneRow DEF Records
<1>6. QED BY <1>4, <1>5 DEF InRange

LEMMA RecordTypes ==
    ASSUME TypeOK, NEW r \in Records
    PROVE  r.ts \in Nat /\ r.seq \in Nat /\ r.key \in Keys
BY DEF TypeOK, Records, ChangedData

LEMMA TaskTypes ==
    ASSUME TypeOK, NEW s \in Servers
    PROVE  /\ last[s] \in Nat /\ job[T(s)].now \in Nat /\ clock \in Nat /\ attempts[s] \in Nat
           /\ job[T(s)].err \in BOOLEAN /\ job[T(s)].full \in BOOLEAN /\ job[T(s)].wipe \in BOOLEAN
           /\ job[T(s)].snap \in Table /\ job[T(s)] \in Job
<1>1. T(s) \in Agents
  BY TickerApart
<1>2. job[T(s)] \in Job /\ last[s] \in Nat /\ clock \in Nat /\ attempts[s] \in Nat
  BY <1>1 DEF TypeOK
<1>3. QED BY <1>2 DEF Job

LEMMA LoadOK ==
    ASSUME Benign, SyncInv, NEW s \in Servers,
           SyncLoad(T(s)) \/ (s \notin Writers /\ SyncLoadFail(T(s)))
    PROVE  Local(s) /\ (Booting(s)' => Booting(s)) /\ ServerOK(s)'
<1> DEFINE j == job[T(s)]
<1>1. /\ Local(s) /\ pc[T(s)] = "load" /\ pc'[T(s)] = "apply"
      /\ \/ job'[T(s)] = [j EXCEPT !.todo = InRange(j.from, j.now)]
         \/ SyncLoadFail(T(s)) /\ job'[T(s)] = [j EXCEPT !.err = TRUE]
      /\ UNCHANGED <<cache, reload, last, attempts>>
  BY LoadEffect DEF SyncInv
<1>2. j.from = last[s] /\ j.todo = {} /\ j \in Job
  <2>1. RoundOK(s) /\ TypeOK
    BY DEF SyncInv, ServerOK
  <2>2. QED BY <1>1, <2>1, TaskTypes DEF RoundOK
<1>3. UNCHANGED <<db, changed, inflight, spawned, writing>>
  BY <1>1 DEF Local
<1>4. ~Booting(s) /\ ~Booting(s)'
  BY <1>1 DEF Booting, T
<1>5. /\ job'[T(s)].now = j.now /\ job'[T(s)].full = j.full /\ job'[T(s)].wipe = j.wipe
      /\ \/ job'[T(s)].todo = InRange(last[s], j.now) /\ job'[T(s)].err = j.err
         \/ SyncLoadFail(T(s)) /\ job'[T(s)].todo = {} /\ job'[T(s)].err = TRUE
  BY <1>1, <1>2 DEF Job
<1>6. \A r \in changed : r \in InRange(last[s], j.now) <=> last[s] <= r.ts
  BY ReadsSince DEF SyncInv
<1>7. BootOK(s)' /\ RoundOK(s)'
  <2>1. BootOK(s)'
    BY <1>1 DEF BootOK
  <2>2. job'[T(s)].todo \subseteq changed /\ \A r \in job'[T(s)].todo : last[s] <= r.ts
    BY <1>5, <1>6 DEF InRange
  <2>3. ASSUME NEW q \in job'[T(s)].todo, NEW r \in changed, q.key = r.key, q.seq < r.seq
        PROVE  r \in job'[T(s)].todo
    <3>1. job'[T(s)].todo = InRange(last[s], j.now)
      BY <1>5
    <3>2. q \in changed /\ last[s] <= q.ts /\ q.ts <= r.ts
      BY <2>2, <2>3 DEF SyncInv, LogOK, Records
    <3>3. last[s] <= r.ts
      BY <3>2, TaskTypes, RecordTypes DEF SyncInv, Records
    <3>4. QED BY <1>6, <3>1, <3>3
  <2>4. ~j.full
    BY <1>1 DEF SyncInv, ServerOK, RoundOK
  <2>5. QED BY <1>1, <1>3, <1>5, <2>1, <2>2, <2>3, <2>4 DEF RoundOK
<1>8. ASSUME s \in Writers PROVE WriterOK(s)'
  <2>1. WriterOK(s)
    BY <1>8 DEF SyncInv, ServerOK
  <2>2. ~SyncLoadFail(T(s))
    <3>1. T(s)[1] = s
      BY TickerApart
    <3>2. QED BY <1>8, <3>1 DEF SyncLoadFail, QueryFails, Benign
  <2>3. QED BY <1>1, <1>3, <1>4, <1>5, <2>1, <2>2 DEF WriterOK
<1>9. ASSUME s \notin Writers, NEW k \in Keys PROVE RowOK(s, k)'
  <2>1. RowOK(s, k)
    BY <1>9 DEF SyncInv, ServerOK
  <2>2. ToSee(s, k) => ToSee(s, k)'
    <3> SUFFICES ASSUME NEW r \in changed, r.key = k, last[s] <= r.ts PROVE ToSee(s, k)'
      BY <1>1 DEF ToSee, Since
    <3>1. CASE job'[T(s)].todo = InRange(last[s], j.now)
      BY <1>1, <1>3, <1>6, <3>1 DEF ToSee
    <3>2. CASE job'[T(s)].err = TRUE
      BY <1>1, <1>3, <3>2 DEF ToSee, Since
    <3>3. QED BY <1>5, <3>1, <3>2
  <2>3. Underway(k)' = Underway(k)
    BY <1>3 DEF Underway
  <2>4. QED BY <1>1, <1>3, <1>4, <2>1, <2>2, <2>3 DEF RowOK
<1>10. QED BY <1>1, <1>4, <1>7, <1>8, <1>9 DEF ServerOK

(* A record is the latest of its row, or a later one is still to be seen.  *)
LEMMA LaterToSee ==
    ASSUME SyncInv, NEW s \in Servers, pc[T(s)] = "apply", pc'[T(s)] = "apply",
           UNCHANGED <<changed, last>>,
           NEW r \in job[T(s)].todo, \A q \in job[T(s)].todo : r.seq <= q.seq,
           Consumed(s, r), ~Underway(r.key)
    PROVE  ToSee(s, r.key)' \/ Tells(r.operation, r.key)
<1>1. RoundOK(s) /\ TypeOK /\ LogOK /\ LatestTells /\ TimesOK
  BY DEF SyncInv, ServerOK
<1>2. r \in changed /\ r \in Records
  BY <1>1 DEF RoundOK, Records
<1>3. CASE \E q \in changed : q.key = r.key /\ r.seq < q.seq
  <2>1. PICK q \in changed : q.key = r.key /\ r.seq < q.seq
    BY <1>3
  <2>2. q \in job[T(s)].todo \/ job[T(s)].now <= q.ts
    BY <1>1, <2>1 DEF RoundOK
  <2>3. CASE q \in job[T(s)].todo
    <3>1. q # r
      BY <1>2, <1>1, <2>1, RecordTypes
    <3>2. q \in job'[T(s)].todo
      BY <2>3, <3>1 DEF Consumed
    <3>3. QED BY <2>1, <3>2 DEF ToSee
  <2>4. CASE job[T(s)].now <= q.ts
    <3>1. last[s] <= job[T(s)].now
      BY <1>1 DEF TimesOK, Round
    <3>2. last[s] <= q.ts
      <4>1. q.ts \in Nat /\ last[s] \in Nat /\ job[T(s)].now \in Nat
        BY <1>1, RecordTypes, TaskTypes DEF Records
      <4>2. QED BY <2>4, <3>1, <4>1
    <3>3. Since(s)' <= q.ts
      BY <2>4, <3>2 DEF Since, Consumed
    <3>4. QED BY <2>1, <3>3 DEF ToSee
  <2>5. QED BY <2>2, <2>3, <2>4
<1>4. CASE \A q \in changed : q.key = r.key => ~(r.seq < q.seq)
  <2>1. \A q \in Records : q.key = r.key => q \in changed
    BY DEF Underway, Records
  <2>2. IsLatest(r)
    BY <1>1, <1>2, <1>4, <2>1, RecordTypes DEF IsLatest
  <2>3. QED BY <1>1, <1>2, <2>2 DEF LatestTells, Underway
<1>5. QED BY <1>3, <1>4

LEMMA ApplyOK ==
    ASSUME Benign, SyncInv, NEW s \in Servers, SyncApply(T(s))
    PROVE  Local(s) /\ (Booting(s)' => Booting(s)) /\ ServerOK(s)'
<1> DEFINE j == job[T(s)]
<1>0. RoundOK(s) /\ TypeOK /\ LogOK /\ TimesOK /\ OnlyTickers
  BY DEF SyncInv, ServerOK
<1>1. Local(s) /\ pc[T(s)] = "apply" /\ pc'[T(s)] = "apply" /\ UNCHANGED <<last, attempts>>
  BY <1>0, ApplyEffect
<1>2. PICK r \in j.todo :
        /\ \A q \in j.todo : r.seq <= q.seq
        /\ \/ /\ s \in Writers /\ Consumed(s, r) /\ UNCHANGED <<cache, reload>>
              /\ job'[T(s)].wipe = j.wipe
           \/ /\ s \notin Writers /\ Consumed(s, r)
              /\ r.operation = "CREATE" /\ reload'[s] = reload[s] \cup {r.key} /\ cache'[s] = cache[s]
           \/ /\ s \notin Writers /\ Consumed(s, r)
              /\ r.operation = "CREATE" /\ reload'[s] = reload[s]
              /\ cache'[s] = [cache[s] EXCEPT ![r.key] = db[r.key]]
           \/ /\ s \notin Writers /\ Consumed(s, r)
              /\ r.operation = "DELETE" /\ reload'[s] = reload[s] \ {r.key}
              /\ cache'[s] = [k \in Keys |-> IF k \in {r.key} THEN Absent ELSE cache[s][k]]
           \/ s \notin Writers /\ Stopped(s) /\ UNCHANGED <<cache, reload>>
  BY <1>0, ApplyEffect
<1>3. UNCHANGED <<db, changed, inflight, spawned, writing>>
  BY <1>1 DEF Local
<1>4. ~Booting(s) /\ ~Booting(s)'
  BY <1>1 DEF Booting, T
<1>5. Consumed(s, r) \/ Stopped(s)
  BY <1>2
<1>6. /\ job'[T(s)].todo \subseteq j.todo /\ job'[T(s)].now = j.now /\ job'[T(s)].full = j.full
      /\ Stopped(s) => job'[T(s)].todo = {} /\ job'[T(s)].err
      /\ Consumed(s, r) => job'[T(s)].todo = j.todo \ {r} /\ job'[T(s)].err = j.err
  BY <1>5 DEF Consumed, Stopped
<1>7. BootOK(s)' /\ RoundOK(s)'
  <2>1. BootOK(s)'
    BY <1>1 DEF BootOK
  <2>2. ASSUME NEW q \in job'[T(s)].todo, NEW p \in changed, q.key = p.key, q.seq < p.seq
        PROVE  p \in job'[T(s)].todo \/ j.now <= p.ts
    <3>1. q \in j.todo /\ job'[T(s)].todo = j.todo \ {r}
      BY <1>5, <1>6
    <3>2. p \in j.todo \/ j.now <= p.ts
      BY <1>0, <1>1, <2>2, <3>1 DEF RoundOK
    <3>3. p # r
      <4>1. q \in Records /\ p \in Records
        BY <1>0, <3>1 DEF RoundOK, Records
      <4>2. q.seq \in Nat /\ p.seq \in Nat /\ r.seq <= q.seq
        BY <1>0, <1>2, <3>1, <4>1, RecordTypes
      <4>3. QED BY <2>2, <4>2
    <3>4. QED BY <3>1, <3>2, <3>3
  <2>3. ~j.full
    BY <1>0, <1>1 DEF RoundOK
  <2>4. job'[T(s)].todo \subseteq changed /\ \A q \in job'[T(s)].todo : last[s] <= q.ts
    BY <1>0, <1>6 DEF RoundOK
  <2>5. QED BY <1>1, <1>3, <1>6, <2>1, <2>2, <2>3, <2>4 DEF RoundOK
<1>8. ASSUME s \in Writers PROVE WriterOK(s)'
  <2>1. WriterOK(s)
    BY <1>8 DEF SyncInv, ServerOK
  <2>2. Consumed(s, r) /\ UNCHANGED <<cache, reload>> /\ job'[T(s)].wipe = j.wipe
    BY <1>2, <1>8
  <2>3. QED BY <1>1, <1>3, <1>4, <1>6, <2>1, <2>2 DEF WriterOK
<1>9. ASSUME s \notin Writers, NEW k \in Keys PROVE RowOK(s, k)'
  <2>1. RowOK(s, k)
    BY <1>9 DEF SyncInv, ServerOK
  <2>2. Underway(k)' = Underway(k)
    BY <1>3 DEF Underway
  <2>3. r \in changed /\ r \in Records /\ last[s] <= r.ts
    BY <1>0 DEF RoundOK, Records
  <2>4. r.key \in Keys
    BY <1>0, <2>3, RecordTypes
  <2>5. CASE k = r.key
    <3>1. CASE Stopped(s)
      <4>1. Since(s)' <= r.ts
        BY <1>1, <1>6, <2>3, <3>1 DEF Since
      <4>2. ToSee(s, k)'
        BY <1>3, <2>3, <2>5, <4>1 DEF ToSee
      <4>3. QED BY <1>1, <4>2 DEF RowOK
    <3>2. CASE Consumed(s, r) /\ ~Stopped(s)
      <4>1. CASE Underway(k)
        BY <1>1, <2>2, <4>1 DEF RowOK
      <4>2. CASE ~Underway(k)
        <5>1. ToSee(s, k)' \/ Tells(r.operation, k)
          BY <1>1, <1>2, <1>3, <2>5, <3>2, <4>2, LaterToSee
        <5>2. Tells(r.operation, k) => cache'[s][k] = db[k] \/ (k \in reload'[s] /\ db[k] # Absent)
          BY <1>0, <1>2, <1>9, <2>4, <2>5, <3>2 DEF Tells, TypeOK, Table
        <5>3. QED BY <1>1, <1>3, <5>1, <5>2 DEF RowOK
      <4>3. QED BY <4>1, <4>2
    <3>3. QED BY <1>5, <3>1, <3>2
  <2>6. CASE k # r.key
    <3>1. cache'[s][k] = cache[s][k] /\ (k \in reload'[s] <=> k \in reload[s])
      BY <1>0, <1>2, <1>9, <2>6 DEF TypeOK, Table
    <3>2. ToSee(s, k) => ToSee(s, k)'
      <4> SUFFICES ASSUME NEW q \in changed, q.key = k, Since(s) <= q.ts \/ q \in j.todo
                   PROVE  ToSee(s, k)'
        BY <1>1 DEF ToSee
      <4>1. q \in j.todo => last[s] <= q.ts
        BY <1>0 DEF RoundOK
      <4>2. last[s] <= Since(s) /\ Since(s) \in Nat /\ last[s] \in Nat /\ q.ts \in Nat
        <5>1. last[s] <= j.now
          BY <1>0, <1>1 DEF TimesOK, Round
        <5>2. last[s] \in Nat /\ j.now \in Nat /\ q.ts \in Nat
          BY <1>0, TaskTypes, RecordTypes DEF Records
        <5>3. QED BY <5>1, <5>2 DEF Since
      <4>3. last[s] <= q.ts
        BY <4>1, <4>2
      <4>4. CASE Stopped(s)
        <5>1. Since(s)' = last[s]
          BY <1>1, <1>6, <4>4 DEF Since
        <5>2. QED BY <1>3, <4>3, <5>1 DEF ToSee
      <4>5. CASE Consumed(s, r)
        <5>1. Since(s)' = Since(s)
          BY <1>1, <1>6, <4>5 DEF Since
        <5>2. q \in j.todo => q \in job'[T(s)].todo
          BY <1>6, <2>6, <4>5
        <5>3. QED BY <1>1, <1>3, <5>1, <5>2 DEF ToSee
      <4>6. QED BY <1>5, <4>4, <4>5
    <3>3. QED BY <1>1, <1>3, <1>4, <2>1, <2>2, <3>1, <3>2 DEF RowOK
  <2>7. QED BY <2>5, <2>6
<1>10. QED BY <1>1, <1>4, <1>7, <1>8, <1>9 DEF ServerOK

LEMMA EndOK ==
    ASSUME Benign, SyncInv, NEW s \in Servers, SyncEnd(T(s))
    PROVE  Local(s) /\ (Booting(s)' => Booting(s)) /\ ServerOK(s)'
<1> DEFINE j == job[T(s)]
<1>0. RoundOK(s) /\ TypeOK /\ AttemptsOK /\ OnlyTickers
  BY DEF SyncInv, ServerOK
<1>1. /\ Local(s) /\ pc[T(s)] = "apply" /\ j.todo = {} /\ UNCHANGED <<cache, reload>>
      /\ \/ /\ j.wipe /\ pc'[T(s)] = "wipe" /\ job'[T(s)] = j /\ UNCHANGED <<last, attempts>>
         \/ /\ ~j.wipe /\ pc'[T(s)] = "idle" /\ job'[T(s)] = NoJob
            /\ last'[s] = IF ~j.full /\ ~j.err THEN j.now ELSE last[s]
            /\ ~j.full /\ ~j.err => attempts'[s] = Retry
  BY <1>0, EndEffect
<1>2. ~j.full /\ attempts[s] # 0
  BY <1>0, <1>1, TaskTypes DEF RoundOK, AttemptsOK, Round
<1>3. UNCHANGED <<db, changed, inflight, spawned, writing>>
  BY <1>1 DEF Local
<1>4. ~Booting(s) /\ ~Booting(s)'
  BY <1>1 DEF Booting, T
<1>5. BootOK(s)' /\ RoundOK(s)'
  <2>1. BootOK(s)'
    BY <1>1 DEF BootOK
  <2>2. job'[T(s)].todo = {}
    BY <1>1, NoJobParts
  <2>3. pc'[T(s)] \in Round => ~job'[T(s)].full
    BY <1>1, <1>2 DEF Round
  <2>4. QED BY <1>1, <2>1, <2>2, <2>3 DEF RoundOK
<1>6. ASSUME s \in Writers PROVE WriterOK(s)'
  <2>1. WriterOK(s)
    BY <1>6 DEF SyncInv, ServerOK
  <2>2. pc'[T(s)] = "idle" /\ job'[T(s)] = NoJob /\ attempts'[s] = Retry
    BY <1>1, <2>1 DEF WriterOK
  <2>3. QED BY <1>1, <1>3, <1>4, <2>1, <2>2, NoJobParts DEF WriterOK
<1>7. ASSUME s \notin Writers, NEW k \in Keys PROVE RowOK(s, k)'
  <2>1. RowOK(s, k)
    BY <1>7 DEF SyncInv, ServerOK
  <2>2. Since(s)' = Since(s)
    BY <1>1, <1>2 DEF Since
  <2>3. ToSee(s, k) => ToSee(s, k)'
    BY <1>1, <1>3, <2>2 DEF ToSee
  <2>4. Underway(k)' = Underway(k)
    BY <1>3 DEF Underway
  <2>5. QED BY <1>1, <1>2, <1>3, <1>4, <2>1, <2>3, <2>4 DEF RowOK
<1>8. QED BY <1>1, <1>4, <1>5, <1>6, <1>7 DEF ServerOK

LEMMA WipeOK ==
    ASSUME Benign, SyncInv, NEW s \in Servers, RefreshWipe(T(s))
    PROVE  Local(s) /\ (Booting(s)' => Booting(s)) /\ ServerOK(s)'
<1>1. /\ Local(s) /\ pc[T(s)] = "wipe" /\ pc'[T(s)] = "read" /\ job'[T(s)] = job[T(s)]
      /\ cache'[s] = EmptyTable /\ reload'[s] = {}
      /\ UNCHANGED <<last, attempts>>
  BY WipeEffect DEF SyncInv
<1>2. s \notin Writers
  BY <1>1 DEF SyncInv, ServerOK, WriterOK
<1>3. ~Booting(s)' /\ BootOK(s)' /\ \A k \in Keys : RowOK(s, k)'
  BY <1>1 DEF Booting, T, BootOK, RowOK
<1>4. RoundOK(s)'
  BY <1>1 DEF SyncInv, ServerOK, RoundOK, Local, Round
<1>5. QED BY <1>1, <1>2, <1>3, <1>4 DEF ServerOK

LEMMA ReadOK ==
    ASSUME Benign, SyncInv, NEW s \in Servers, RefreshRead(T(s))
    PROVE  Local(s) /\ (Booting(s)' => Booting(s)) /\ ServerOK(s)'
<1>0. RoundOK(s) /\ TypeOK /\ OnlyTickers
  BY DEF SyncInv, ServerOK
<1>1. /\ Local(s) /\ pc[T(s)] = "read" /\ pc'[T(s)] = "put"
      /\ job'[T(s)] = [job[T(s)] EXCEPT !.snap = db]
      /\ UNCHANGED <<cache, reload, last, attempts>>
  BY <1>0, ReadEffect
<1>2. /\ job'[T(s)].snap = db /\ job'[T(s)].todo = job[T(s)].todo
      /\ job'[T(s)].now = job[T(s)].now /\ job'[T(s)].full = job[T(s)].full
  BY <1>0, <1>1, TaskTypes DEF Job
<1>3. s \notin Writers
  BY <1>1 DEF SyncInv, ServerOK, WriterOK
<1>4. UNCHANGED <<db, changed>>
  BY <1>1 DEF Local
<1>5. ~Booting(s)' /\ BootOK(s)' /\ \A k \in Keys : RowOK(s, k)'
  BY <1>1, <1>2, <1>4 DEF Booting, T, BootOK, RowOK
<1>6. RoundOK(s)'
  BY <1>0, <1>1, <1>2, <1>4 DEF RoundOK, Round
<1>7. QED BY <1>1, <1>3, <1>5, <1>6 DEF ServerOK

LEMMA PutOK ==
    ASSUME Benign, SyncInv, NEW s \in Servers, RefreshPut(T(s))
    PROVE  Local(s) /\ (Booting(s)' => Booting(s)) /\ ServerOK(s)'
<1> DEFINE j == job[T(s)]
<1>0. RoundOK(s) /\ TypeOK /\ OnlyTickers
  BY DEF SyncInv, ServerOK
<1>1. /\ Local(s) /\ pc[T(s)] = "put" /\ pc'[T(s)] = "idle" /\ job'[T(s)] = NoJob
      /\ cache'[s] = [k \in Keys |-> IF j.snap[k] # Absent THEN j.snap[k] ELSE cache[s][k]]
      /\ last'[s] = IF ~j.full /\ ~j.err THEN j.now ELSE last[s]
      /\ reload' = reload
  BY <1>0, PutEffect
<1>2. s \notin Writers
  BY <1>1 DEF SyncInv, ServerOK, WriterOK
<1>3. UNCHANGED <<db, changed, inflight, spawned, writing>>
  BY <1>1 DEF Local
<1>4. ~Booting(s)' /\ BootOK(s)'
  BY <1>1 DEF Booting, T, BootOK
<1>5. RoundOK(s)'
  BY <1>1, NoJobParts DEF RoundOK, Round
<1>6. ASSUME NEW k \in Keys PROVE RowOK(s, k)'
  <2>1. CASE j.snap[k] = db[k]
    <3>1. cache[s][k] = Absent
      BY <1>0, <1>1 DEF RoundOK, EmptyTable
    <3>2. cache'[s][k] = db[k]
      BY <1>1, <2>1, <3>1
    <3>3. QED BY <1>1, <1>3, <3>2 DEF RowOK
  <2>2. CASE j.snap[k] # db[k]
    <3>1. Underway(k) \/ ToSee(s, k)
      BY <1>1, <1>2, <2>2 DEF SyncInv, ServerOK, RowOK
    <3>2. Since(s)' = Since(s)
      <4>1. j.full => last[s] = j.now
        BY <1>0, <1>1 DEF RoundOK, Round
      <4>2. QED BY <1>1, <4>1 DEF Since
    <3>3. ToSee(s, k) => ToSee(s, k)'
      BY <1>1, <1>3, <3>2 DEF ToSee
    <3>4. Underway(k)' = Underway(k)
      BY <1>3 DEF Underway
    <3>5. QED BY <1>1, <3>1, <3>3, <3>4 DEF RowOK
  <2>3. QED BY <2>1, <2>2
<1>7. QED BY <1>1, <1>2, <1>4, <1>5, <1>6 DEF ServerOK

LEMMA ReloadOK ==
    ASSUME Benign, SyncInv, NEW s \in Servers, NEW k \in Keys, ReloadLand(s, k)
    PROVE  Local(s) /\ (Booting(s)' => Booting(s)) /\ ServerOK(s)'
<1>0. RoundOK(s) /\ BootOK(s) /\ TypeOK /\ OnlyTickers
  BY DEF SyncInv, ServerOK
<1>1. /\ Local(s) /\ k \in reload[s] /\ reload'[s] = reload[s] \ {k}
      /\ \A i \in Keys \ {k} : cache'[s][i] = cache[s][i]
      /\ cache'[s][k] = IF db[k] # Absent THEN db[k] ELSE cache[s][k]
      /\ cache[s] = db => cache'[s] = db
      /\ UNCHANGED <<last, attempts, pc, job>>
  BY <1>0, ReloadEffect
<1>2. s \notin Writers
  BY <1>1 DEF SyncInv, ServerOK, WriterOK
<1>3. UNCHANGED <<db, changed, inflight, spawned, writing>>
  BY <1>1 DEF Local
<1>4. (Booting(s)' = Booting(s)) /\ BootOK(s)'
  BY <1>0, <1>1, <1>3 DEF Booting, BootOK
<1>5. RoundOK(s)'
  BY <1>0, <1>1, <1>3 DEF RoundOK
<1>6. ASSUME NEW i \in Keys PROVE RowOK(s, i)'
  <2>1. RowOK(s, i)
    BY <1>2 DEF SyncInv, ServerOK
  <2>2. ToSee(s, i)' = ToSee(s, i) /\ Underway(i)' = Underway(i)
    BY <1>1, <1>3 DEF ToSee, Since, Underway
  <2>3. cache'[s][i] # db[i] => cache[s][i] # db[i] /\ (i \in reload[s] /\ db[i] # Absent => i \in reload'[s])
    BY <1>1
  <2>4. QED BY <1>1, <1>3, <1>4, <2>1, <2>2, <2>3 DEF RowOK
<1>7. QED BY <1>1, <1>2, <1>4, <1>5, <1>6 DEF ServerOK

LEMMA BootStepsOK ==
    ASSUME Benign, SyncInv, NEW s \in Servers,
           BootRead(s) \/ BootDone(s) \/ (s \notin Writers /\ Crash(s))
    PROVE  Local(s) /\ (s \in Writers /\ Booting(s)' => Booting(s)) /\ ServerOK(s)'
<1>0. RoundOK(s) /\ BootOK(s) /\ TypeOK /\ OnlyTickers /\ LogOK
  BY DEF SyncInv, ServerOK
<1>1. CASE BootRead(s)
  <2>1. /\ Local(s) /\ pc[T(s)] = "boot" /\ pc'[T(s)] = "booted" /\ job'[T(s)] = job[T(s)]
        /\ cache'[s] = db /\ UNCHANGED <<reload, last, attempts>>
    BY <1>0, <1>1, BootReadEffect
  <2>2. UNCHANGED <<db, changed>>
    BY <2>1 DEF Local
  <2>3. BootOK(s)' /\ RoundOK(s)' /\ Booting(s) /\ Booting(s)'
    BY <1>0, <2>1, <2>2 DEF BootOK, RoundOK, Round, Booting, T
  <2>4. s \in Writers => WriterOK(s)'
    BY <2>1, <2>3 DEF SyncInv, ServerOK, WriterOK
  <2>5. \A k \in Keys : RowOK(s, k)'
    BY <2>1, <2>3 DEF RowOK
  <2>6. QED BY <2>1, <2>3, <2>4, <2>5 DEF ServerOK
<1>2. CASE BootDone(s)
  <2>1. /\ Local(s) /\ pc[T(s)] = "booted" /\ pc'[T(s)] = "idle" /\ job'[T(s)] = job[T(s)]
        /\ attempts'[s] = Retry /\ UNCHANGED <<cache, reload>>
    BY <1>0, <1>2, BootDoneEffect
  <2>2. UNCHANGED <<db, changed>>
    BY <2>1 DEF Local
  <2>3. ~Booting(s)' /\ cache'[s] = db' /\ job'[T(s)].todo = {}
    BY <1>0, <2>1, <2>2 DEF Booting, T, BootOK, RoundOK
  <2>4. BootOK(s)' /\ RoundOK(s)'
    BY <2>1, <2>3 DEF BootOK, RoundOK, Round
  <2>5. s \in Writers => WriterOK(s)'
    BY <2>1, <2>3 DEF SyncInv, ServerOK, WriterOK
  <2>6. \A k \in Keys : RowOK(s, k)'
    BY <2>1, <2>3 DEF RowOK
  <2>7. QED BY <2>1, <2>3, <2>4, <2>5, <2>6 DEF ServerOK
<1>3. CASE s \notin Writers /\ Crash(s)
  <2>1. Local(s) /\ pc'[T(s)] = "boot" /\ job'[T(s)] = NoJob
    BY <1>0, <1>3, CrashEffect
  <2>2. BootOK(s)' /\ RoundOK(s)' /\ Booting(s)'
    BY <2>1, NoJobParts DEF BootOK, RoundOK, Round, Booting, T
  <2>3. \A k \in Keys : RowOK(s, k)'
    BY <2>1, <2>2 DEF RowOK
  <2>4. QED BY <1>3, <2>1, <2>2, <2>3 DEF ServerOK
<1>4. QED BY <1>1, <1>2, <1>3

-----------------------------------------------------------------------------
(* Steps of the writes and of the log.                                     *)

(* A server that the step does not touch.                                  *)
LEMMA RowsKeep ==
    ASSUME NEW t \in Servers, ServerOK(t), SameServer(t), changed' = changed,
           \A k \in Keys : Underway(k)' \/ (db'[k] = db[k] /\ ~Underway(k)),
           BootOK(t)', t \in Writers => WriterOK(t)'
    PROVE  ServerOK(t)'
<1>1. Booting(t)' = Booting(t) /\ Since(t)' = Since(t)
  BY DEF SameServer, Booting, Since, T
<1>2. RoundOK(t)'
  BY DEF SameServer, ServerOK, RoundOK
<1>3. ASSUME NEW k \in Keys, RowOK(t, k) PROVE RowOK(t, k)'
  <2>1. ToSee(t, k)' = ToSee(t, k)
    BY <1>1 DEF SameServer, ToSee
  <2>2. CASE Underway(k)'
    BY <2>2 DEF RowOK
  <2>3. CASE ~Underway(k) /\ db'[k] = db[k]
    BY <1>1, <1>3, <2>1, <2>3 DEF SameServer, RowOK
  <2>4. QED BY <2>2, <2>3
<1>4. QED BY <1>2, <1>3 DEF ServerOK

LEMMA TickOK ==
    ASSUME Benign, SyncInv, Tick, TypeOK', AttemptsOK', TimesOK'
    PROVE  SyncInv'
<1>1. /\ inflight = {} /\ clock' = clock + 1 /\ clock' <= MaxClock
      /\ UNCHANGED <<events, db, changed, inflight, spawned, stamped, writing>>
      /\ UNCHANGED <<cache, reload, fills, last, attempts, pc, job>>
  <2>1. clock \in Nat /\ clock < MaxClock /\ MaxClock \in Nat
    BY ConstantsOK DEF Tick, SyncInv, TypeOK
  <2>2. QED BY <2>1 DEF Benign, Tick, logVars, cacheVars, taskVars
<1>2. OnlyTickers' /\ PinnedStay' /\ LatestTells'
  BY <1>1 DEF SyncInv, OnlyTickers, PinnedStay, LatestTells, Records, IsLatest, Tells
<1>3. LogOK'
  <2>1. ASSUME NEW r \in Records PROVE r.ts <= clock'
    <3>1. r.ts \in Nat /\ clock \in Nat /\ r.ts <= clock
      BY DEF SyncInv, TypeOK, LogOK, Records, ChangedData
    <3>2. QED BY <1>1, <3>1
  <2>2. \A x \in writing : ~Booting(x.origin)'
    BY <1>1 DEF SyncInv, LogOK, Booting
  <2>3. QED BY <1>1, <2>1, <2>2 DEF SyncInv, LogOK, Records
<1>4. ASSUME NEW t \in Servers PROVE ServerOK(t)'
  <2>1. ServerOK(t) /\ SameServer(t)
    BY <1>1 DEF SyncInv, SameServer
  <2>2. QED BY <1>1, <2>1, OthersKept
<1>5. QED BY <1>2, <1>3, <1>4 DEF SyncInv

(* A record becomes visible: it is one of those that every round still     *)
(* has to see.                                                             *)
LEMMA LandOK ==
    ASSUME Benign, SyncInv, NEW r \in inflight, WriteCacheLogLand(r), TypeOK', AttemptsOK', TimesOK'
    PROVE  SyncInv'
<1>1. /\ inflight' = inflight \ {r} /\ changed' = changed \cup {r}
      /\ UNCHANGED <<clock, events, db, spawned, stamped, writing>>
      /\ UNCHANGED <<cache, reload, fills, last, attempts, pc, job>>
  BY DEF WriteCacheLogLand, dbVars, cacheVars, taskVars
<1>2. Records' = Records
  BY <1>1 DEF Records
<1>3. OnlyTickers' /\ PinnedStay' /\ LatestTells'
  BY <1>1, <1>2 DEF SyncInv, OnlyTickers, PinnedStay, LatestTells, IsLatest, Tells
<1>4. LogOK'
  <2>1. \A x \in writing : ~Booting(x.origin)'
    BY <1>1 DEF SyncInv, LogOK, Booting
  <2>2. QED BY <1>1, <1>2, <2>1 DEF SyncInv, LogOK
<1>5. r.ts = clock /\ clock \in Nat
  BY DEF SyncInv, LogOK, TypeOK
<1>6. ASSUME NEW t \in Servers PROVE ServerOK(t)'
  <2>1. BootOK(t) /\ RoundOK(t) /\ (Booting(t)' = Booting(t)) /\ (Since(t)' = Since(t))
    BY <1>1 DEF SyncInv, ServerOK, Booting, Since
  <2>2. BootOK(t)' /\ (t \in Writers => WriterOK(t)')
    BY <1>1, <2>1 DEF SyncInv, ServerOK, BootOK, WriterOK
  <2>3. job[T(t)].now <= clock /\ last[t] <= clock
    BY TickerApart DEF SyncInv, TimesOK
  <2>4. RoundOK(t)'
    BY <1>1, <1>5, <2>1, <2>3 DEF RoundOK
  <2>5. ASSUME NEW k \in Keys, RowOK(t, k) PROVE RowOK(t, k)'
    <3>1. ToSee(t, k) => ToSee(t, k)'
      BY <1>1, <2>1 DEF ToSee
    <3>2. Underway(k) => Underway(k)' \/ ToSee(t, k)'
      <4>1. Since(t) <= r.ts
        BY <1>5, <2>3 DEF Since
      <4>2. r.key = k => ToSee(t, k)'
        BY <1>1, <2>1, <4>1 DEF ToSee
      <4>3. QED BY <1>1, <4>2 DEF Underway
    <3>3. QED BY <1>1, <2>1, <2>5, <3>1, <3>2 DEF RowOK
  <2>6. QED BY <2>2, <2>4, <2>5 DEF SyncInv, ServerOK
<1>7. QED BY <1>3, <1>4, <1>6 DEF SyncInv

(* A record gets its time: it is the latest of its row.                    *)
LEMMA StampOK ==
    ASSUME Benign, SyncInv, NEW g \in spawned, WriteCacheLogStamp(g), TypeOK', AttemptsOK', TimesOK'
    PROVE  SyncInv'
<1> DEFINE new == [seq |-> stamped + 1, ts |-> clock, key |-> g.key, origin |-> g.origin,
                   operation |-> g.operation, size |-> g.size, known |-> TRUE]
<1>1. /\ inflight' = inflight \cup {new} /\ spawned' = spawned \ {g} /\ stamped' = stamped + 1
      /\ UNCHANGED <<clock, events, db, changed, writing>>
      /\ UNCHANGED <<cache, reload, fills, last, attempts, pc, job>>
  BY DEF WriteCacheLogStamp, dbVars, cacheVars, taskVars
<1>2. /\ new.seq = stamped + 1 /\ new.ts = clock /\ new.key = g.key /\ new.origin = g.origin
      /\ new.operation = g.operation /\ new.size = g.size /\ new.known
  OBVIOUS
<1> HIDE DEF new
<1>3. spawned' = {} /\ Records' = Records \cup {new}
  BY <1>1 DEF SyncInv, LogOK, Records
<1>4. stamped \in Nat /\ clock \in Nat
      /\ \A r \in Records : r.seq \in Nat /\ r.ts \in Nat /\ r.seq <= stamped /\ r.ts <= clock
  BY DEF SyncInv, TypeOK, LogOK, Records, ChangedData
<1>5. OnlyTickers' /\ PinnedStay'
  BY <1>1 DEF SyncInv, OnlyTickers, PinnedStay
<1>6. LogOK'
  <2>1. \A x \in writing : ~Booting(x.origin)'
    BY <1>1 DEF SyncInv, LogOK, Booting
  <2>2. \A r \in Records' : /\ r.origin \in Writers /\ r.known /\ r.size # 0
                            /\ r.operation \in {"CREATE", "DELETE"}
                            /\ r.seq <= stamped' /\ r.ts <= clock'
    <3>1. \A r \in Records : r.seq <= stamped'
      BY <1>1, <1>4
    <3>2. new.seq <= stamped' /\ new.ts <= clock'
      BY <1>1, <1>2, <1>4
    <3>3. QED BY <1>1, <1>2, <1>3, <3>1, <3>2 DEF SyncInv, LogOK
  <2>3. \A r \in inflight' : r.ts = clock'
    BY <1>1, <1>2 DEF SyncInv, LogOK
  <2>4. \A q, r \in Records' : q.seq < r.seq => q.ts <= r.ts
    <3>1. \A q \in Records : ~(new.seq < q.seq) /\ q.ts <= new.ts
      BY <1>2, <1>4
    <3>2. ~(new.seq < new.seq)
      BY <1>2, <1>4
    <3>3. QED BY <1>3, <3>1, <3>2 DEF SyncInv, LogOK
  <2>5. clock' <= MaxClock
    BY <1>1 DEF SyncInv, LogOK
  <2>6. /\ \A x \in writing' : x.origin \in Writers /\ x.key \notin Pinned /\ ~Booting(x.origin)'
        /\ \A x, y \in writing' : x = y
    BY <1>1, <2>1 DEF SyncInv, LogOK
  <2>7. QED BY <1>3, <2>2, <2>3, <2>4, <2>5, <2>6 DEF LogOK
<1>7. LatestTells'
  <2>1. ASSUME NEW r \in Records', \A x \in writing' : x.key # r.key, IsLatest(r)'
        PROVE  Tells(r.operation, r.key)'
    <3>1. CASE r = new
      BY <1>1, <1>2, <2>1, <3>1 DEF SyncInv, LatestTells, Tells
    <3>2. CASE r # new
      <4>1. r \in Records /\ new.seq > r.seq
        BY <1>2, <1>3, <1>4, <3>2
      <4>2. r.key # g.key
        BY <1>2, <1>3, <1>4, <2>1, <4>1 DEF IsLatest
      <4>3. \A h \in spawned : h.key # r.key
        BY <4>2 DEF SyncInv, LogOK
      <4>4. IsLatest(r)
        BY <1>3, <2>1 DEF IsLatest
      <4>5. Tells(r.operation, r.key)
        BY <1>1, <2>1, <4>1, <4>3, <4>4 DEF SyncInv, LatestTells
      <4>6. QED BY <1>1, <4>5 DEF Tells
    <3>3. QED BY <3>1, <3>2
  <2>2. \A x \in writing' : x.val = db'[x.key]
    BY <1>1 DEF SyncInv, LatestTells
  <2>3. QED BY <1>3, <2>1, <2>2 DEF LatestTells
<1>8. ASSUME NEW t \in Servers PROVE ServerOK(t)'
  <2>1. ServerOK(t) /\ SameServer(t) /\ (Booting(t)' = Booting(t))
    BY <1>1 DEF SyncInv, SameServer, Booting
  <2>2. \A k \in Keys : Underway(k)' = Underway(k)
    BY <1>1, <1>2, <1>3 DEF SyncInv, LogOK, Underway
  <2>3. BootOK(t)' /\ (t \in Writers => WriterOK(t)')
    BY <1>1, <2>1 DEF ServerOK, BootOK, WriterOK
  <2>4. QED BY <1>1, <2>1, <2>2, <2>3, RowsKeep
<1>9. QED BY <1>5, <1>6, <1>7, <1>8 DEF SyncInv

(* A statement reaches the database: until the log says so, the row is     *)
(* under way, and no server is reading the table at its start.             *)
LEMMA StoreOK ==
    ASSUME Benign, SyncInv, NEW s \in Writers, NEW k \in Keys,
           SetOneStore(s, k) \/ DeleteOneStore(s, k), TypeOK', AttemptsOK', TimesOK'
    PROVE  SyncInv'
<1>1. PICK v : /\ Store(s, k, v) /\ writing' = writing \cup {[origin |-> s, key |-> k, val |-> v]}
  BY DEF SetOneStore, DeleteOneStore
<1> DEFINE new == [origin |-> s, key |-> k, val |-> v]
<1>2. new.origin = s /\ new.key = k /\ new.val = v
  OBVIOUS
<1> HIDE DEF new
<1>3. /\ k \notin Pinned /\ db' = [db EXCEPT ![k] = v] /\ ~Booting(s)
      /\ UNCHANGED <<clock, changed, inflight, spawned, stamped>>
      /\ UNCHANGED <<cache, reload, fills, last, attempts, pc, job>>
      /\ \A x \in writing : x.origin # s
      /\ \A t \in Servers : ~Booting(t)
  BY <1>1 DEF Benign, Store, MayWrite, logVars, cacheVars, taskVars
<1>4. db'[k] = v /\ \A i \in Keys : i # k => db'[i] = db[i]
  BY <1>3 DEF SyncInv, TypeOK, Table
<1>5. writing = {} /\ writing' = {new}
  <2>1. \A x \in writing : x.origin = s
    BY DEF SyncInv, LogOK, Benign
  <2>2. QED BY <1>1, <1>3, <2>1 DEF new
<1>6. OnlyTickers' /\ PinnedStay'
  <2>1. \A i \in Pinned : i \in Keys /\ i # k
    BY <1>3, ConstantsOK
  <2>2. QED BY <1>3, <1>4, <2>1 DEF SyncInv, OnlyTickers, PinnedStay
<1>7. LogOK'
  <2>1. ~Booting(s)'
    BY <1>3 DEF Booting
  <2>2. QED BY <1>2, <1>3, <1>5, <2>1 DEF SyncInv, LogOK, Records
<1>8. LatestTells'
  <2>1. \A g \in spawned : g.key \in Keys
    BY DEF SyncInv, TypeOK, PendingData
  <2>2. \A r \in Records : r.key \in Keys
    BY DEF SyncInv, TypeOK, ChangedData, Records
  <2>3. \A g \in spawned : g.key # k => Tells(g.operation, g.key)'
    BY <1>4, <1>5, <2>1 DEF SyncInv, LatestTells, Tells
  <2>4. \A r \in Records : IsLatest(r)' = IsLatest(r) /\ Records' = Records
    BY <1>3 DEF IsLatest, Records
  <2>5. \A r \in Records : r.key # k /\ IsLatest(r) /\ (\A g \in spawned : g.key # r.key) => Tells(r.operation, r.key)'
    BY <1>4, <1>5, <2>2 DEF SyncInv, LatestTells, Tells
  <2>6. Records' = Records /\ spawned' = spawned
    BY <1>3 DEF Records
  <2>7. QED BY <1>2, <1>4, <1>5, <2>3, <2>4, <2>5, <2>6 DEF LatestTells
<1>9. ASSUME NEW t \in Servers PROVE ServerOK(t)'
  <2>1. ServerOK(t) /\ SameServer(t) /\ ~Booting(t)'
    BY <1>3 DEF SyncInv, SameServer, Booting
  <2>2. \A i \in Keys : Underway(i)' \/ (db'[i] = db[i] /\ (Underway(i)' = Underway(i)))
    BY <1>2, <1>3, <1>4, <1>5 DEF Underway
  <2>3. BootOK(t)'
    BY <2>1 DEF BootOK, Booting, T
  <2>4. t \in Writers => WriterOK(t)'
    BY <1>2, <1>3, <1>4, <1>5, <2>1 DEF ServerOK, WriterOK, Booting, T
  <2>5. \A i \in Keys : Underway(i)' \/ (db'[i] = db[i] /\ ~Underway(i))
    BY <2>2
  <2>6. QED BY <1>3, <2>1, <2>3, <2>4, <2>5, RowsKeep
<1>10. QED BY <1>6, <1>7, <1>8, <1>9 DEF SyncInv

(* The writer's own cache takes over a write, and the goroutine that logs  *)
(* it starts.                                                              *)
LEMMA OwnCacheOK ==
    ASSUME Benign, SyncInv, NEW x \in writing, NEW n, n # 0, NEW o, SpawnLog(x, o, n),
           o \in {"CREATE", "DELETE"}, o = "CREATE" <=> x.val # Absent,
           writing' = writing \ {x},
           UNCHANGED <<clock, db, changed, inflight, stamped>>,
           UNCHANGED <<last, attempts, pc, job>>,
           \A t \in Servers \ {x.origin} : cache'[t] = cache[t] /\ reload'[t] = reload[t],
           \A t \in Servers : fills'[t] = {},
           reload'[x.origin] = {},
           \A i \in Keys : cache'[x.origin][i] = IF i = x.key THEN x.val ELSE cache[x.origin][i],
           TypeOK', AttemptsOK', TimesOK'
    PROVE  SyncInv'
<1> DEFINE w == x.origin
           new == [key |-> x.key, origin |-> x.origin, operation |-> o, size |-> n]
<1>1. /\ w \in Writers /\ w \in Servers /\ ~Booting(w) /\ x.val = db[x.key] /\ x.key \in Keys
      /\ x.key \notin Pinned
  BY ConstantsOK DEF SyncInv, LogOK, LatestTells, TypeOK, Write
<1>2. writing = {x} /\ writing' = {}
  BY DEF SyncInv, LogOK
<1>3. new.key = x.key /\ new.origin = w /\ new.operation = o /\ new.size = n
  OBVIOUS
<1>4. spawned = {} /\ spawned' = {new}
  <2>1. \A g \in spawned : g.origin = w
    BY <1>1 DEF SyncInv, LogOK, Benign
  <2>2. spawned = {}
    BY <2>1 DEF SpawnLog, Benign
  <2>3. QED BY <2>2 DEF SpawnLog
<1> HIDE DEF new
<1>5. OnlyTickers' /\ PinnedStay' /\ (Records' = Records)
  BY DEF SyncInv, OnlyTickers, PinnedStay, Records
<1>6. LogOK'
  BY <1>1, <1>2, <1>3, <1>4, <1>5 DEF SyncInv, LogOK
<1>7. LatestTells'
  <2>1. Tells(o, x.key)'
    BY <1>1 DEF Tells
  <2>2. ASSUME NEW r \in Records, r.key # x.key, IsLatest(r)' PROVE Tells(r.operation, r.key)'
    <3>1. IsLatest(r)
      BY <1>5, <2>2 DEF IsLatest
    <3>2. Tells(r.operation, r.key)
      BY <1>2, <1>4, <2>2, <3>1 DEF SyncInv, LatestTells
    <3>3. QED BY <3>2 DEF Tells
  <2>3. QED BY <1>2, <1>3, <1>4, <1>5, <2>1, <2>2 DEF LatestTells
<1>8. \A i \in Keys : Underway(i)' = Underway(i)
  BY <1>2, <1>3, <1>4 DEF Underway
<1>9. ASSUME NEW t \in Servers, t # w PROVE ServerOK(t)'
  <2>1. ServerOK(t) /\ SameServer(t) /\ (Booting(t)' = Booting(t)) /\ t \notin Writers
    BY <1>1, <1>9 DEF SyncInv, SameServer, Booting, Benign
  <2>2. BootOK(t)'
    BY <2>1 DEF ServerOK, BootOK, SameServer
  <2>3. QED BY <1>8, <2>1, <2>2, RowsKeep
<1>10. ServerOK(w)'
  <2>1. RoundOK(w) /\ WriterOK(w) /\ ~Booting(w)'
    BY <1>1 DEF SyncInv, ServerOK, Booting
  <2>2. pc[T(w)] \in {"idle", "load", "apply"} /\ pc'[T(w)] = pc[T(w)] /\ job'[T(w)] = job[T(w)]
    BY <1>1, <2>1 DEF WriterOK, Booting, T
  <2>3. BootOK(w)' /\ RoundOK(w)'
    BY <2>1, <2>2 DEF BootOK, RoundOK
  <2>4. \A i \in Keys : cache'[w][i] = db[i]
    BY <1>1, <1>2, <2>1 DEF WriterOK
  <2>5. WriterOK(w)'
    BY <1>1, <2>1, <2>2, <2>4 DEF WriterOK
  <2>6. QED BY <1>1, <2>3, <2>5 DEF ServerOK
<1>11. \A t \in Servers : ServerOK(t)'
  BY <1>9, <1>10
<1>12. QED BY <1>5, <1>6, <1>7, <1>11 DEF SyncInv

(* The two rows that are never written are cached by the writer, so that   *)
(* the size that goes with a deletion is not zero.                         *)
LEMMA PinnedCached ==
    ASSUME Benign, SyncInv, NEW x \in writing
    PROVE  Size(x.origin) - 1 # 0 /\ Cardinality(Cached(x.origin) \cup {x.key}) # 0
<1> DEFINE w == x.origin
<1>1. w \in Writers /\ w \in Servers /\ ~Booting(w) /\ x.key \notin Pinned /\ writing = {x}
  BY ConstantsOK DEF SyncInv, LogOK
<1>2. PICK p \in Pinned, q \in Pinned : p # q
  BY DEF Benign
<1>3. \A i \in Pinned : i \in Keys /\ cache[w][i] = db[i] /\ db[i] # Absent
  BY <1>1, ConstantsOK DEF SyncInv, ServerOK, WriterOK, PinnedStay
<1>4. {p, q} \subseteq Cached(w)
  BY <1>3 DEF Cached
<1>5. IsFiniteSet(Cached(w)) /\ IsFiniteSet(Cached(w) \cup {x.key})
  <2>1. Cached(w) \subseteq Keys /\ IsFiniteSet(Keys)
    BY ConstantsOK DEF Cached
  <2>2. IsFiniteSet(Cached(w))
    BY <2>1, FS_Subset
  <2>3. QED BY <2>2, FS_AddElement
<1>6. Cardinality({p, q}) = 2
  <2>1. IsFiniteSet({p}) /\ Cardinality({p}) = 1
    BY FS_Singleton
  <2>2. q \notin {p} /\ {p} \cup {q} = {p, q}
    BY <1>2
  <2>3. QED BY <2>1, <2>2, FS_AddElement
<1>7. Cardinality({p, q}) <= Cardinality(Cached(w))
  BY <1>4, <1>5, FS_Subset
<1>8. Cardinality({p, q}) <= Cardinality(Cached(w) \cup {x.key})
  <2>1. {p, q} \subseteq Cached(w) \cup {x.key}
    BY <1>4
  <2>2. QED BY <1>5, <2>1, FS_Subset
<1>9. Size(w) \in Nat /\ Cardinality(Cached(w) \cup {x.key}) \in Nat
  BY SizeType
<1>10. QED BY <1>6, <1>7, <1>8, <1>9 DEF Size

LEMMA WriterCacheOK ==
    ASSUME Benign, SyncInv, NEW x \in writing, SetOneCache(x) \/ DeleteOneCache(x),
           TypeOK', AttemptsOK', TimesOK'
    PROVE  SyncInv'
<1> DEFINE w == x.origin
<1>1. /\ w \in Servers /\ w \in Writers /\ x.key \in Keys
      /\ reload[w] = {} /\ cache \in [Servers -> Table] /\ TypeOK /\ OnlyTickers
  BY ConstantsOK DEF SyncInv, LogOK, TypeOK, Write, ServerOK, WriterOK
<1>2. CASE SetOneCache(x)
  <2> DEFINE n == Cardinality(Cached(w) \cup {x.key})
  <2>1. /\ x.val # Absent /\ cache' = [cache EXCEPT ![w][x.key] = x.val]
        /\ SpawnLog(x, "CREATE", n) /\ writing' = writing \ {x}
        /\ UNCHANGED <<clock, db, changed, inflight, stamped>>
        /\ UNCHANGED <<last, attempts, pc, job>>
        /\ UNCHANGED <<reload, fills>>
    BY <1>2 DEF SetOneCache, dbVars, taskVars
  <2>2. n # 0
    BY PinnedCached
  <2>3. /\ \A t \in Servers \ {w} : cache'[t] = cache[t]
        /\ \A i \in Keys : cache'[w][i] = IF i = x.key THEN x.val ELSE cache[w][i]
    BY <1>1, <2>1 DEF Table
  <2>4. \A t \in Servers : fills'[t] = {}
    BY <1>1, <2>1 DEF OnlyTickers
  <2> HIDE DEF n
  <2>5. QED BY <1>1, <2>1, <2>2, <2>3, <2>4, OwnCacheOK
<1>3. CASE DeleteOneCache(x)
  <2>1. /\ x.val = Absent /\ Evict(w, {x.key})
        /\ SpawnLog(x, "DELETE", Size(w) - 1) /\ writing' = writing \ {x}
        /\ UNCHANGED <<clock, db, changed, inflight, stamped>>
        /\ UNCHANGED <<last, attempts, pc, job>>
    BY <1>3 DEF DeleteOneCache, dbVars, taskVars
  <2>2. Size(w) - 1 # 0
    BY PinnedCached
  <2>3. {x.key} \in SUBSET Keys
    BY <1>1
  <2>4. /\ \A t \in Servers \ {w} : cache'[t] = cache[t] /\ reload'[t] = reload[t]
        /\ \A t \in Servers : fills'[t] = {}
        /\ cache'[w] = [k \in Keys |-> IF k \in {x.key} THEN Absent ELSE cache[w][k]]
        /\ reload'[w] = reload[w] \ {x.key}
    BY <1>1, <2>1, <2>3, EvictEffect
  <2>5. \A i \in Keys : cache'[w][i] = IF i = x.key THEN x.val ELSE cache[w][i]
    BY <2>1, <2>4
  <2>6. reload'[w] = {}
    BY <1>1, <2>4
  <2> DEFINE n == Size(w) - 1
  <2> HIDE DEF n
  <2>7. n # 0 /\ SpawnLog(x, "DELETE", n)
    BY <2>1, <2>2 DEF n
  <2>8. QED BY <2>1, <2>4, <2>5, <2>6, <2>7, OwnCacheOK
<1>4. QED BY <1>2, <1>3

-----------------------------------------------------------------------------
(* The invariant holds at the start and every step keeps it.               *)

LEMMA SyncInit ==
    ASSUME Benign, Init
    PROVE  SyncInv
<1>1. TypeOK /\ AttemptsOK
  BY InitType
<1>2. /\ clock = 0 /\ changed = {} /\ inflight = {} /\ spawned = {} /\ writing = {}
      /\ db = [k \in Keys |-> IF k \in Pinned THEN 1 ELSE Absent]
  BY DEF Init
<1>3. \A s \in Servers : /\ pc[T(s)] = "boot" /\ job[T(s)] = NoJob /\ last[s] = 0
                         /\ attempts[s] = Retry /\ reload[s] = {} /\ fills[s] = {}
  BY TickerApart DEF Init
<1>4. TimesOK
  BY <1>2, <1>3 DEF TimesOK, NoJob
<1>5. OnlyTickers
  BY <1>3 DEF Init, OnlyTickers
<1>6. LogOK /\ LatestTells
  BY <1>2, ConstantsOK DEF LogOK, LatestTells, Records
<1>7. PinnedStay
  BY <1>2, ConstantsOK DEF PinnedStay, Absent
<1>8. ASSUME NEW s \in Servers PROVE ServerOK(s)
  <2>1. pc[T(s)] = "boot" /\ job[T(s)] = NoJob /\ Booting(s)
    BY <1>3 DEF Booting, T
  <2>2. BootOK(s) /\ RoundOK(s)
    BY <2>1, NoJobParts DEF BootOK, RoundOK, Round
  <2>3. WriterOK(s)
    BY <1>3, <2>1, NoJobParts DEF WriterOK
  <2>4. \A k \in Keys : RowOK(s, k)
    BY <2>1 DEF RowOK
  <2>5. QED BY <2>2, <2>3, <2>4 DEF ServerOK
<1>9. QED BY <1>1, <1>4, <1>5, <1>6, <1>7, <1>8 DEF SyncInv

LEMMA SyncNext ==
    ASSUME Benign, SyncInv, [Next]_vars
    PROVE  SyncInv'
<1>1. TypeOK' /\ AttemptsOK' /\ TimesOK'
  BY NextTypes, NextTimes DEF SyncInv
<1>2. CASE UNCHANGED vars
  <2>1. /\ UNCHANGED <<clock, db, changed, inflight, spawned, stamped, writing>>
        /\ UNCHANGED <<cache, reload, fills, last, attempts, pc, job>>
    BY <1>2 DEF vars, dbVars, logVars, cacheVars, taskVars
  <2>2. \A t \in Servers : ServerOK(t)'
    BY <2>1, OthersKept DEF SyncInv, SameServer
  <2>3. \A x \in writing : ~Booting(x.origin)'
    BY <2>1 DEF SyncInv, LogOK, Booting
  <2>4. OnlyTickers' /\ LogOK' /\ PinnedStay'
    BY <2>1, <2>3 DEF SyncInv, OnlyTickers, LogOK, PinnedStay, Records
  <2>5. LatestTells'
    BY <2>1 DEF SyncInv, LatestTells, Records, IsLatest, Tells
  <2>6. QED BY <1>1, <2>2, <2>4, <2>5 DEF SyncInv
<1>3. CASE Next
  <2>1. \A s \in Servers : s \in Writers => attempts[s] # 0
    BY DEF SyncInv, ServerOK, WriterOK, Benign
  <2>2. OnlyTickers
    BY DEF SyncInv
  <2>3. ASSUME NEW s \in Servers,
               \/ BootRead(s) \/ BootDone(s) \/ (s \notin Writers /\ Crash(s))
               \/ \E k \in Keys : ReloadLand(s, k)
               \/ AgentStep(T(s)) \/ (s \notin Writers /\ SyncLoadFail(T(s)))
        PROVE  SyncInv'
    <3>1. Local(s) /\ (s \in Writers /\ Booting(s)' => Booting(s)) /\ ServerOK(s)'
      <4>1. CASE BootRead(s) \/ BootDone(s) \/ (s \notin Writers /\ Crash(s))
        BY <4>1, BootStepsOK
      <4>2. CASE \E k \in Keys : ReloadLand(s, k)
        BY <4>2, ReloadOK
      <4>3. CASE SyncStart(T(s)) \/ FullStart(T(s))
        BY <4>3, SyncStartOK, FullStartOK
      <4>4. CASE SyncLoad(T(s)) \/ (s \notin Writers /\ SyncLoadFail(T(s)))
        BY <4>4, LoadOK
      <4>5. CASE SyncApply(T(s)) \/ SyncEnd(T(s))
        BY <4>5, ApplyOK, EndOK
      <4>6. CASE RefreshWipe(T(s)) \/ RefreshRead(T(s)) \/ RefreshPut(T(s))
        BY <4>6, WipeOK, ReadOK, PutOK
      <4>7. QED BY <2>3, <4>1, <4>2, <4>3, <4>4, <4>5, <4>6 DEF AgentStep
    <3>2. QED BY <1>1, <3>1, LocalKeeps
  <2>4. QED
    BY <1>1, <1>3, <2>1, <2>2, <2>3, BenignSteps, TickOK, StoreOK, WriterCacheOK, StampOK, LandOK
<1>4. QED BY <1>2, <1>3

(* What is still to be seen lies in the period of the next sync.           *)
LEMMA KeptUp == SyncInv => KeptInSync
<1> SUFFICES ASSUME SyncInv, NEW s \in Servers \ Writers, NEW k \in Keys,
                    ~Booting(s), cache[s][k] # db[k]
             PROVE  \/ Underway(k) \/ Logged(s, k) \/ Refreshing(s, k)
                    \/ k \in reload[s] /\ db[k] # Absent
  BY DEF KeptInSync
<1>1. RowOK(s, k) /\ RoundOK(s)
  BY DEF SyncInv, ServerOK
<1>2. <<s, "ticker">> \in {s} \X Procs /\ T(s) = <<s, "ticker">>
  BY DEF Procs, T
<1>3. ToSee(s, k) => Logged(s, k)
  <2> SUFFICES ASSUME NEW r \in changed, r.key = k,
                      Since(s) <= r.ts \/ (pc[T(s)] = "apply" /\ r \in job[T(s)].todo)
               PROVE  Logged(s, k)
    BY DEF ToSee
  <2>1. r.known /\ r.ts \in Nat
    BY DEF SyncInv, LogOK, TypeOK, ChangedData, Records
  <2>2. last[s] \in Nat /\ job[T(s)].now \in Nat
    BY TickerApart DEF SyncInv, TypeOK, Job
  <2>3. pc[T(s)] \in Round => last[s] <= job[T(s)].now
    BY DEF SyncInv, TimesOK
  <2>4. Since(s) <= r.ts => last[s] <= r.ts
    BY <2>1, <2>2, <2>3 DEF Since, Round
  <2>5. QED BY <1>1, <2>1, <2>4 DEF Logged, RoundOK
<1>4. pc[T(s)] = "read" \/ (pc[T(s)] = "put" /\ job[T(s)].snap[k] = db[k]) => Refreshing(s, k)
  BY <1>2 DEF Refreshing
<1>5. QED BY <1>1, <1>3, <1>4 DEF RowOK, Refreshing

(* "Apply changed data to keep cache in sync" (applyChanges): with one     *)
(* writer, failing queries and restarts of readers, no reader is ever left *)
(* with a row that differs from the database and that nothing under way,   *)
(* in the log, or being reloaded would correct.                            *)
THEOREM CachesKeepUp ==
    ASSUME Benign
    PROVE  Spec => []KeptInSync
<1>1. Init => SyncInv
  BY SyncInit
<1>2. SyncInv /\ [Next]_vars => SyncInv'
  BY SyncNext
<1>3. QED BY <1>1, <1>2, KeptUp, PTL DEF Spec

(* The writer never has to be told of its own changes (applyChanges skips  *)
(* them): its cache is the database but for the row it is writing, however *)
(* the steps of its requests, of its log and of its ticker interleave.     *)
THEOREM WriterIsFresh ==
    ASSUME Benign
    PROVE  Spec => []WriterFresh
<1>1. Init => SyncInv
  BY SyncInit
<1>2. SyncInv /\ [Next]_vars => SyncInv'
  BY SyncNext
<1>3. SyncInv => WriterFresh
  BY ConstantsOK DEF SyncInv, ServerOK, WriterOK, WriterFresh
<1>4. QED BY <1>1, <1>2, <1>3, PTL DEF Spec
=============================================================================
