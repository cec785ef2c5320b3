------------------------------ MODULE CacheSync ------------------------------
(***************************************************************************)
(* The table cache of an xconf server and the protocol that keeps the      *)
(* caches of several servers in step (db/cache_manager.go,                 *)
(* db/cache_dao.go).  Every server caches one table.  A write goes to the  *)
(* database, then to the writer's own cache, and then a goroutine appends  *)
(* a record to the shared table XconfChangedKeys4.  The ticker of every    *)
(* server reads that table for the period since its last successful sync   *)
(* and applies the records; after too many failed syncs it reloads the     *)
(* whole table.                                                            *)
(*                                                                         *)
(* The contents of a row are abstracted to the number of the event that    *)
(* stored it.  Faults names the events of the environment that may happen; *)
(* the code of the server is the same with and without them.               *)
(***************************************************************************)
EXTENDS Integers, FiniteSets

CONSTANTS
    Servers,      \* processes that share the database
    Writers,      \* the servers that change rows (the admin service)
    Keys,         \* row keys of the table
    Pinned,       \* rows that exist from the start and are never written
    Faults,       \* what the environment may do
    Retry,        \* cache_retryCountUntilFullRefresh
    Window,       \* cache_changedKeysTimeWindowSize, the span of a log row
    MaxClock,     \* bound on time
    MaxEvents     \* bound on writes, restarts, errors and foreign records

FaultKinds == {
    "late_log",      \* a log write is visible only after time has moved on
    "log_loss",      \* a log write fails
    "log_reorder",   \* log goroutines of one server run out of order
    "parallel",      \* two requests of one server write at the same time
    "lossy_read",    \* a query ends early and the iterator hides the error
    "load_error",    \* at a reader, a row or the log cannot be read
    "writer_error",  \* the same at a writer
    "reload_error",  \* reloading a cached row fails
    "slow_load",     \* time passes between reading a row and caching it
    "bulk_error",    \* a row cannot be decoded while the table is reloaded
    "write_timeout", \* a write is stored although it is reported as failed
    "boot_write",    \* rows change while a server preloads its cache
    "side_refresh",  \* GET /info/refreshAll or ForceSyncChanges is called
    "truncate",      \* another service logs TRUNCATE_CF
    "foreign",       \* another service stores and logs a row
    "reader_crash",  \* a server that is not a writer restarts
    "writer_crash" } \* a writer restarts

ASSUME ConstantsOK ==
    /\ Writers \subseteq Servers /\ Pinned \subseteq Keys
    /\ IsFiniteSet(Keys)
    /\ "other" \notin Servers
    /\ Faults \subseteq FaultKinds
    /\ Retry \in Nat /\ Window \in Nat \ {0}
    /\ MaxClock \in Nat /\ MaxEvents \in Nat

Absent == 0                      \* no such row / not cached
NoLogRow == -1
Procs == {"ticker", "force", "http"}
Agents == Servers \X Procs       \* the goroutines that update a cache

VARIABLES
    clock,     \* time.Now(), the same on every server
    events,    \* number of events so far
    db,        \* the table in Cassandra: key -> number of the write, or Absent
    changed,   \* records visible in XconfChangedKeys4
    inflight,  \* records being written to XconfChangedKeys4
    spawned,   \* writeCacheLog goroutines that have not read the clock yet
    stamped,   \* number of records stamped, the order of their TimeUUIDs
    writing,   \* writes stored in the database but not yet in the own cache
    cache,     \* server -> key -> cached value or Absent
    reload,    \* server -> keys whose asynchronous reload is pending
    fills,     \* server -> loaded rows not yet stored in the cache
    last,      \* server -> lastRefreshedTimestamp
    attempts,  \* server -> refreshAttemptsLeft
    pc,        \* agent -> step
    job        \* agent -> local variables of doSyncChanges / RefreshAll

dbVars    == <<clock, events, db>>
logVars   == <<changed, inflight, spawned, stamped>>
cacheVars == <<cache, reload, fills>>
taskVars  == <<last, attempts, pc, job>>
vars == <<dbVars, logVars, writing, cacheVars, taskVars>>

Table == [Keys -> Nat]
EmptyTable == [k \in Keys |-> Absent]
Write == [origin : Servers, key : Keys, val : Nat]
Fill == [key : Keys, val : Nat, entry : BOOLEAN]

(* ChangedData without the fields that no decision depends on.  "known" is *)
(* false for a table that this server does not cache.                      *)
Operations == {"CREATE", "DELETE", "TRUNCATE_CF"}
PendingData ==
    [key : Keys, origin : Servers, operation : Operations, size : Int]
ChangedData ==
    [seq : Nat, ts : Nat, key : Keys, origin : Servers \cup {"other"},
     operation : Operations, size : Int, known : BOOLEAN]

Steps == {"boot", "booted", "idle", "load", "apply", "wipe", "read", "put"}
Job == [from : Nat, now : Nat, todo : SUBSET ChangedData, row : Int,
        wipe : BOOLEAN, err : BOOLEAN, full : BOOLEAN, snap : Table]
NoJob == [from |-> 0, now |-> 0, todo |-> {}, row |-> NoLogRow,
          wipe |-> FALSE, err |-> FALSE, full |-> FALSE, snap |-> EmptyTable]

RowKey(ts) == ts - (ts % Window)
Cached(s) == {k \in Keys : cache[s][k] # Absent}
Size(s) == Cardinality(Cached(s))
Booting(s) == pc[<<s, "ticker">>] \in {"boot", "booted"}

-----------------------------------------------------------------------------
Init ==
    /\ clock = 0 /\ events = 1 /\ stamped = 0
    /\ db = [k \in Keys |-> IF k \in Pinned THEN 1 ELSE Absent]
    /\ changed = {} /\ inflight = {} /\ spawned = {} /\ writing = {}
    /\ cache = [s \in Servers |-> EmptyTable]
    /\ reload = [s \in Servers |-> {}]
    /\ fills = [s \in Servers |-> {}]
    /\ last = [s \in Servers |-> 0]
    /\ attempts = [s \in Servers |-> Retry]
    /\ pc = [a \in Agents |-> IF a[2] = "ticker" THEN "boot" ELSE "idle"]
    /\ job = [a \in Agents |-> NoJob]

MayHappen == clock < MaxClock /\ events < MaxEvents

(* Time passes.  The last instant is reached when no write is under way,   *)
(* so that what is pending can settle in it.                               *)
Tick ==
    /\ clock < MaxClock
    /\ "late_log" \in Faults \/ inflight = {}
    /\ clock + 1 = MaxClock => inflight = {} /\ spawned = {} /\ writing = {}
    /\ clock' = clock + 1
    /\ UNCHANGED <<events, db, logVars, writing, cacheVars, taskVars>>

-----------------------------------------------------------------------------
(* Writes: cachedSimpleDaoImpl.SetOne and DeleteOne.                       *)

MayWrite(s) ==
    /\ MayHappen /\ s \in Writers /\ ~Booting(s)
    /\ "parallel" \in Faults \/ \A w \in writing : w.origin # s
    /\ "boot_write" \in Faults \/ \A t \in Servers : ~Booting(t)

(* The statement reaches the database; v = Absent is a DELETE.             *)
Store(s, k, v) ==
    /\ MayWrite(s) /\ k \notin Pinned
    /\ db' = [db EXCEPT ![k] = v]
    /\ events' = events + 1
    /\ UNCHANGED <<clock, logVars, cacheVars, taskVars>>

SetOneStore(s, k) ==
    /\ Store(s, k, events + 1)
    /\ writing' = writing \cup {[origin |-> s, key |-> k, val |-> events + 1]}

DeleteOneStore(s, k) ==
    /\ Store(s, k, Absent)
    /\ writing' = writing \cup {[origin |-> s, key |-> k, val |-> Absent]}

(* The driver reports an error: neither the cache nor the log is touched,  *)
(* whether or not Cassandra has applied the statement.                     *)
SetOneTimeout(s, k) ==
    /\ "write_timeout" \in Faults
    /\ Store(s, k, events + 1)
    /\ UNCHANGED writing

(* After the statement succeeded: update the own cache, then start the     *)
(* goroutine that logs the change with the size the cache has now (for a   *)
(* deletion, one less than the size it had before).                        *)
SpawnLog(w, o, n) ==
    /\ "log_reorder" \in Faults \/ \A g \in spawned : g.origin # w.origin
    /\ spawned' = spawned \cup
         {[key |-> w.key, origin |-> w.origin, operation |-> o, size |-> n]}

SetOneCache(w) ==
    /\ w \in writing /\ w.val # Absent
    /\ cache' = [cache EXCEPT ![w.origin][w.key] = w.val]
    /\ SpawnLog(w, "CREATE", Cardinality(Cached(w.origin) \cup {w.key}))
    /\ writing' = writing \ {w}
    /\ UNCHANGED <<dbVars, changed, inflight, stamped, reload, fills, taskVars>>

(* A reload that is running for an entry ends without effect when the      *)
(* entry has been evicted.                                                 *)
Evict(s, K) ==
    /\ cache' = [cache EXCEPT ![s] =
                   [k \in Keys |-> IF k \in K THEN Absent ELSE cache[s][k]]]
    /\ reload' = [reload EXCEPT ![s] = @ \ K]
    /\ fills' = [fills EXCEPT ![s] = {f \in @ : ~(f.entry /\ f.key \in K)}]

DeleteOneCacheKeeps(w) ==
    /\ w \in writing /\ w.val = Absent
    /\ SpawnLog(w, "DELETE", Size(w.origin) - 1)
    /\ writing' = writing \ {w}
    /\ UNCHANGED <<dbVars, changed, inflight, stamped, cacheVars, taskVars>>
DeleteOneCache(w) ==
    /\ w \in writing /\ w.val = Absent
    /\ Evict(w.origin, {w.key})
    /\ SpawnLog(w, "DELETE", Size(w.origin) - 1)
    /\ writing' = writing \ {w}
    /\ UNCHANGED <<dbVars, changed, inflight, stamped, taskVars>>

(* The goroutine of writeCacheLog: first the clock and the TimeUUID ...    *)
WriteCacheLogStamp(g) ==
    /\ g \in spawned
    /\ spawned' = spawned \ {g}
    /\ stamped' = stamped + 1
    /\ inflight' = inflight \cup
         {[seq |-> stamped + 1, ts |-> clock, key |-> g.key,
           origin |-> g.origin, operation |-> g.operation,
           size |-> g.size, known |-> TRUE]}
    /\ UNCHANGED <<dbVars, changed, writing, cacheVars, taskVars>>

(* ... then the record itself; a failure is only written to the log file.  *)
WriteCacheLogLand(r) ==
    /\ r \in inflight
    /\ inflight' = inflight \ {r}
    /\ changed' = changed \cup {r}
    /\ UNCHANGED <<dbVars, spawned, stamped, writing, cacheVars, taskVars>>

WriteCacheLogFail(r) ==
    /\ "log_loss" \in Faults /\ r \in inflight
    /\ inflight' = inflight \ {r}
    /\ UNCHANGED <<dbVars, changed, spawned, stamped, writing, cacheVars, taskVars>>

(* Records that other services write to the same log (applyChanges names   *)
(* "Xconf AS"): about a row of another table, which is not cached here,    *)
(* about a row of this table, or after truncating this table.              *)
OtherServiceLogs(k, o) ==
    /\ MayHappen
    /\ \E known \in BOOLEAN :
         /\ \/ o = "CREATE" /\ "foreign" \in Faults /\ ~known /\ db' = db
            \/ /\ o = "CREATE" /\ "foreign" \in Faults /\ known /\ k \notin Pinned
               /\ db' = [db EXCEPT ![k] = events + 1]
            \/ /\ o = "TRUNCATE_CF" /\ "truncate" \in Faults /\ known
               /\ db' = [j \in Keys |-> IF j \in Pinned THEN db[j] ELSE Absent]
         /\ changed' = changed \cup
              {[seq |-> stamped + 1, ts |-> clock, key |-> k, origin |-> "other",
                operation |-> o, size |-> 1, known |-> known]}
    /\ stamped' = stamped + 1 /\ events' = events + 1
    /\ UNCHANGED <<clock, inflight, spawned, writing, cacheVars, taskVars>>

-----------------------------------------------------------------------------
(* Start of a server: initiatePrecaching, then the ticker.                 *)

BootRead(s) ==
    /\ pc[<<s, "ticker">>] = "boot"
    /\ cache' = [cache EXCEPT ![s] = db]
    /\ pc' = [pc EXCEPT ![<<s, "ticker">>] = "booted"]
    /\ UNCHANGED <<dbVars, logVars, writing, reload, fills, last, attempts, job>>

BootDone(s) ==
    /\ pc[<<s, "ticker">>] = "booted"
    /\ last' = [last EXCEPT ![s] = clock]
    /\ attempts' = [attempts EXCEPT ![s] = Retry]
    /\ pc' = [pc EXCEPT ![<<s, "ticker">>] = "idle"]
    /\ UNCHANGED <<dbVars, logVars, writing, cacheVars, job>>

Crash(s) ==
    /\ MayHappen /\ ~Booting(s)
    /\ (IF s \in Writers THEN "writer_crash" ELSE "reader_crash") \in Faults
    /\ events' = events + 1
    /\ cache' = [cache EXCEPT ![s] = EmptyTable]
    /\ reload' = [reload EXCEPT ![s] = {}]
    /\ fills' = [fills EXCEPT ![s] = {}]
    /\ writing' = {w \in writing : w.origin # s}
    /\ spawned' = {g \in spawned : g.origin # s}
    /\ inflight' = {r \in inflight : r.origin # s}
    /\ pc' = [a \in Agents |-> IF a[1] # s THEN pc[a]
                ELSE IF a[2] = "ticker" THEN "boot" ELSE "idle"]
    /\ job' = [a \in Agents |-> IF a[1] # s THEN job[a] ELSE NoJob]
    /\ UNCHANGED <<clock, db, changed, stamped, last, attempts>>

-----------------------------------------------------------------------------
(* One round of the ticker (CacheRefreshTask.Run), of ForceSyncChanges,    *)
(* which works on a copy of the task so that its changes of last and       *)
(* attempts are lost, or of the handler of /info/refreshAll.               *)

MayStart(a) ==
    /\ pc[a] = "idle" /\ ~Booting(a[1])
    /\ a[2] # "ticker" => "side_refresh" \in Faults

SyncStart(a) ==
    /\ MayStart(a) /\ a[2] # "http" /\ attempts[a[1]] # 0
    /\ job' = [job EXCEPT ![a] = [NoJob EXCEPT !.from = last[a[1]], !.now = clock]]
    /\ pc' = [pc EXCEPT ![a] = "load"]
    /\ UNCHANGED <<dbVars, logVars, writing, cacheVars, last, attempts>>

FullStart(a) ==
    /\ MayStart(a)
    /\ a[2] # "http" => attempts[a[1]] = 0
    /\ last' = [last EXCEPT ![a[1]] = IF a[2] = "ticker" THEN clock ELSE @]
    /\ job' = [job EXCEPT ![a] = [NoJob EXCEPT !.now = clock, !.full = TRUE]]
    /\ pc' = [pc EXCEPT ![a] = "wipe"]
    /\ UNCHANGED <<dbVars, logVars, writing, cacheVars, attempts>>

(* SyncChanges: the log rows of the period; the lower bound applies to the *)
(* first one, the upper bound to none.                                     *)
InRangeExclusive(from, now) ==
    {r \in changed :
        /\ RowKey(from) <= RowKey(r.ts) /\ RowKey(r.ts) <= RowKey(now)
        /\ RowKey(r.ts) = RowKey(from) => from < r.ts}
InRange(from, now) ==
    {r \in changed :
        /\ RowKey(from) <= RowKey(r.ts) /\ RowKey(r.ts) <= RowKey(now)
        /\ RowKey(r.ts) = RowKey(from) => from <= r.ts}

SyncLoad(a) ==
    /\ pc[a] = "load"
    /\ \E seen \in SUBSET InRange(job[a].from, job[a].now) :
         /\ "lossy_read" \in Faults \/ seen = InRange(job[a].from, job[a].now)
         /\ job' = [job EXCEPT ![a].todo = seen]
    /\ pc' = [pc EXCEPT ![a] = "apply"]
    /\ UNCHANGED <<dbVars, logVars, writing, cacheVars, last, attempts>>

QueryFails(s) ==
    /\ MayHappen
    /\ (IF s \in Writers THEN "writer_error" ELSE "load_error") \in Faults
    /\ events' = events + 1

SyncLoadFail(a) ==
    /\ pc[a] = "load" /\ QueryFails(a[1])
    /\ job' = [job EXCEPT ![a].err = TRUE]
    /\ pc' = [pc EXCEPT ![a] = "apply"]
    /\ UNCHANGED <<clock, db, logVars, writing, cacheVars, last, attempts>>

(* The records in the order of applyChanges: a log row in the order of its *)
(* TimeUUIDs, the rows in any order (loadChanges ranges over a map).       *)
IsNext(j, r) ==
    /\ r \in j.todo
    /\ (\E q \in j.todo : RowKey(q.ts) = j.row) => RowKey(r.ts) = j.row
    /\ \A q \in j.todo : RowKey(q.ts) = RowKey(r.ts) => r.seq <= q.seq

Skipped(s, r) == r.size = 0 \/ r.origin = s

Consume(a, r, wipe) ==
    job' = [job EXCEPT ![a].todo = @ \ {r}, ![a].row = RowKey(r.ts),
                       ![a].wipe = @ \/ wipe]
Stop(a, err) ==
    job' = [job EXCEPT ![a].todo = {}, ![a].err = err]

ApplySkip(a, r) ==
    /\ Skipped(a[1], r)
    /\ Consume(a, r, FALSE)
    /\ UNCHANGED cacheVars

ApplyUnknown(a, r) ==
    /\ ~Skipped(a[1], r) /\ ~r.known
    /\ Stop(a, TRUE)
    /\ UNCHANGED cacheVars

(* cache.Refresh and cache.Get of a cached key: the entry is reloaded by   *)
(* another goroutine, unless a reload of it is running.                    *)
Reloading(s, k) == \E f \in fills[s] : f.entry /\ f.key = k

ApplyCreateCached(a, r) ==
    LET s == a[1] IN
    /\ ~Skipped(s, r) /\ r.known /\ r.operation = "CREATE"
    /\ cache[s][r.key] # Absent
    /\ reload' = [reload EXCEPT ![s] =
                    IF Reloading(s, r.key) THEN @ ELSE @ \cup {r.key}]
    /\ Consume(a, r, Size(s) < r.size)
    /\ UNCHANGED <<cache, fills>>

(* A key that is not cached is loaded at once.                             *)
ApplyCreateLoad(a, r) ==
    LET s == a[1] IN
    /\ ~Skipped(s, r) /\ r.known /\ r.operation = "CREATE"
    /\ cache[s][r.key] = Absent /\ db[r.key] # Absent
    /\ cache' = [cache EXCEPT ![s][r.key] = db[r.key]]
    /\ Consume(a, r, Size(s) + 1 < r.size)
    /\ UNCHANGED <<reload, fills>>

ApplyCreateFail(a, r) ==
    LET s == a[1] IN
    /\ ~Skipped(s, r) /\ r.known /\ r.operation = "CREATE"
    /\ cache[s][r.key] = Absent
    /\ \/ db[r.key] = Absent /\ UNCHANGED events
       \/ db[r.key] # Absent /\ QueryFails(s)
    /\ Stop(a, TRUE)
    /\ UNCHANGED cacheVars

(* Whether Size() still counts an evicted entry is up to the library.      *)
ApplyDelete(a, r) ==
    LET s == a[1] IN
    /\ ~Skipped(s, r) /\ r.known /\ r.operation = "DELETE"
    /\ Evict(s, {r.key})
    /\ \E n \in {Cardinality(Cached(s) \ {r.key}), Size(s)} :
         Consume(a, r, n < r.size)

ApplyTruncate(a, r) ==
    /\ ~Skipped(a[1], r) /\ r.known /\ r.operation = "TRUNCATE_CF"
    /\ Evict(a[1], Keys)
    /\ Stop(a, FALSE)

SyncApply(a) ==
    /\ pc[a] = "apply"
    /\ \E r \in job[a].todo :
         /\ IsNext(job[a], r)
         /\ \/ /\ \/ ApplySkip(a, r) \/ ApplyUnknown(a, r)
                  \/ ApplyCreateCached(a, r) \/ ApplyCreateLoad(a, r)
                  \/ ApplyDelete(a, r) \/ ApplyTruncate(a, r)
               /\ UNCHANGED events
            \/ ApplyCreateFail(a, r)
    /\ UNCHANGED <<clock, db, logVars, writing, last, attempts, pc>>

(* The end of a round.  Only the ticker's own task keeps the outcome.      *)
LastAfterShared(a, err) ==       \* ForceSyncChanges works on the task itself
    IF ~job[a].full /\ ~err THEN job[a].now ELSE last[a[1]]
LastAfter(a, err) ==
    IF a[2] = "ticker" /\ ~job[a].full /\ ~err THEN job[a].now ELSE last[a[1]]

AttemptsAfterAdded(a, err) ==    \* a success adds to the attempts left
    IF a[2] = "ticker" /\ ~err THEN attempts[a[1]] + 1 ELSE attempts[a[1]]
AttemptsAfter(a, err) ==
    IF a[2] # "ticker" \/ (job[a].full /\ err) THEN attempts[a[1]]
    ELSE IF job[a].full THEN attempts[a[1]] + 1
    ELSE IF err THEN attempts[a[1]] - 1 ELSE Retry

Finish(a, err) ==
    /\ pc' = [pc EXCEPT ![a] = "idle"]
    /\ job' = [job EXCEPT ![a] = NoJob]
    /\ last' = [last EXCEPT ![a[1]] = LastAfter(a, err)]
    /\ attempts' = [attempts EXCEPT ![a[1]] = AttemptsAfter(a, err)]

(* The deferred refreshTables comes first when a size was found too small. *)
SyncEnd(a) ==
    /\ pc[a] = "apply" /\ job[a].todo = {}
    /\ IF job[a].wipe
       THEN /\ pc' = [pc EXCEPT ![a] = "wipe"]
            /\ UNCHANGED <<last, attempts, job>>
       ELSE Finish(a, job[a].err)
    /\ UNCHANGED <<dbVars, logVars, writing, cacheVars>>

-----------------------------------------------------------------------------
(* cachedSimpleDaoImpl.RefreshAll.  A full refresh holds refreshCacheMutex *)
(* until it ends; refreshTables does not take it.                          *)

RefreshWipe(a) ==
    /\ pc[a] = "wipe"
    /\ job[a].full =>
         \A b \in {a[1]} \X Procs : ~(job[b].full /\ pc[b] \in {"read", "put"})
    /\ Evict(a[1], Keys)
    /\ pc' = [pc EXCEPT ![a] = "read"]
    /\ UNCHANGED <<dbVars, logVars, writing, last, attempts, job>>

RefreshRead(a) ==
    /\ pc[a] = "read"
    /\ \E K \in SUBSET Keys :
         /\ "lossy_read" \in Faults \/ K = Keys
         /\ job' = [job EXCEPT ![a].snap =
                      [k \in Keys |-> IF k \in K THEN db[k] ELSE Absent]]
    /\ pc' = [pc EXCEPT ![a] = "put"]
    /\ UNCHANGED <<dbVars, logVars, writing, cacheVars, last, attempts>>

(* The error counts for a full refresh; a deferred one only logs it.       *)
RefreshReadFail(a) ==
    /\ pc[a] = "read" /\ "bulk_error" \in Faults /\ MayHappen
    /\ events' = events + 1
    /\ Finish(a, job[a].full \/ job[a].err)
    /\ UNCHANGED <<clock, db, logVars, writing, cacheVars>>

RefreshPutKnown(a) ==            \* only entries that are still cached
    /\ pc[a] = "put"
    /\ cache' = [cache EXCEPT ![a[1]] = [k \in Keys |->
         IF cache[a[1]][k] # Absent THEN job[a].snap[k] ELSE Absent]]
    /\ Finish(a, job[a].err)
    /\ UNCHANGED <<dbVars, logVars, writing, reload, fills>>

RefreshPut(a) ==
    LET s == a[1]  snap == job[a].snap IN
    /\ pc[a] = "put"
    /\ cache' = [cache EXCEPT ![s] =
         [k \in Keys |-> IF snap[k] # Absent THEN snap[k] ELSE cache[s][k]]]
    /\ Finish(a, job[a].err)
    /\ UNCHANGED <<dbVars, logVars, writing, reload, fills>>

-----------------------------------------------------------------------------
(* The loader of the LoadingCache, on its own goroutine for a reload and   *)
(* on that of a request for a row that is not cached.                      *)

ReloadLand(s, k) ==
    /\ k \in reload[s]
    /\ reload' = [reload EXCEPT ![s] = @ \ {k}]
    /\ cache' = [cache EXCEPT ![s][k] = IF db[k] # Absent THEN db[k] ELSE @]
    /\ UNCHANGED <<dbVars, logVars, writing, fills, taskVars>>

ReloadFail(s, k) ==
    /\ "reload_error" \in Faults /\ k \in reload[s] /\ MayHappen
    /\ events' = events + 1
    /\ reload' = [reload EXCEPT ![s] = @ \ {k}]
    /\ UNCHANGED <<clock, db, logVars, writing, cache, fills, taskVars>>

LoadRow(s, k) ==
    /\ "slow_load" \in Faults /\ ~Booting(s)
    /\ db[k] # Absent
    /\ \A f \in fills[s] : f.key # k
    /\ k \in reload[s] \/ cache[s][k] = Absent
    /\ reload' = [reload EXCEPT ![s] = @ \ {k}]
    /\ fills' = [fills EXCEPT ![s] = @ \cup
                   {[key |-> k, val |-> db[k], entry |-> k \in reload[s]]}]
    /\ UNCHANGED <<dbVars, logVars, writing, cache, taskVars>>

StoreRow(s, f) ==
    /\ f \in fills[s]
    /\ fills' = [fills EXCEPT ![s] = @ \ {f}]
    /\ cache' = [cache EXCEPT ![s][f.key] = f.val]
    /\ UNCHANGED <<dbVars, logVars, writing, reload, taskVars>>

-----------------------------------------------------------------------------
ServerStep(s) ==
    \/ BootRead(s) \/ BootDone(s)
    \/ \E k \in Keys : ReloadLand(s, k)
    \/ \E f \in fills[s] : StoreRow(s, f)

AgentStep(a) ==
    \/ SyncStart(a) \/ FullStart(a)
    \/ SyncLoad(a) \/ SyncApply(a) \/ SyncEnd(a)
    \/ RefreshWipe(a) \/ RefreshRead(a) \/ RefreshPut(a)

WriteStep ==
    \/ \E w \in writing : SetOneCache(w) \/ DeleteOneCache(w)
    \/ \E g \in spawned : WriteCacheLogStamp(g)
    \/ \E r \in inflight : WriteCacheLogLand(r)

Environment ==
    \/ \E s \in Servers, k \in Keys :
         \/ SetOneStore(s, k) \/ DeleteOneStore(s, k) \/ SetOneTimeout(s, k)
         \/ ReloadFail(s, k) \/ LoadRow(s, k)
    \/ \E r \in inflight : WriteCacheLogFail(r)
    \/ \E k \in Keys, o \in Operations : OtherServiceLogs(k, o)
    \/ \E s \in Servers : Crash(s)
    \/ \E a \in Agents : SyncLoadFail(a) \/ RefreshReadFail(a)

Next ==
    \/ Tick
    \/ \E s \in Servers : ServerStep(s)
    \/ \E a \in Agents : AgentStep(a)
    \/ WriteStep
    \/ Environment

Spec == Init /\ [][Next]_vars

(* The Go scheduler runs every goroutine that can run, tickers keep firing *)
(* and time passes.                                                        *)
Fairness ==
    /\ WF_vars(Tick)
    /\ WF_vars(WriteStep)
    /\ \A s \in Servers : WF_vars(ServerStep(s))
    /\ \A a \in Agents : WF_vars(AgentStep(a))

FairSpec == Spec /\ Fairness

-----------------------------------------------------------------------------
(* Every variable has its type: in particular refreshAttemptsLeft never    *)
(* becomes negative, which would disable the full refresh for good.        *)
TypeOK ==
    /\ clock \in Nat /\ events \in Nat /\ stamped \in Nat
    /\ db \in Table
    /\ changed \subseteq ChangedData /\ inflight \subseteq ChangedData
    /\ spawned \subseteq PendingData /\ writing \subseteq Write
    /\ cache \in [Servers -> Table]
    /\ reload \in [Servers -> SUBSET Keys]
    /\ fills \in [Servers -> SUBSET Fill]
    /\ last \in [Servers -> Nat] /\ attempts \in [Servers -> Nat]
    /\ pc \in [Agents -> Steps] /\ job \in [Agents -> Job]

(* What still has to happen for server s to learn of the last change of    *)
(* row k: the write is under way, or the log holds a record of k in the    *)
(* period the next sync reads, or the entry is being reloaded, or the      *)
(* whole table is, or will be by the next round.                           *)
Underway(k) ==
    \/ \E w \in writing : w.key = k
    \/ \E g \in spawned : g.key = k
    \/ \E r \in inflight : r.key = k
Logged(s, k) == \E r \in changed : r.key = k /\ r.known /\ last[s] <= r.ts
Refreshing(s, k) ==
    \/ attempts[s] = 0
    \/ \E a \in {s} \X Procs :
          \/ pc[a] = "read"
          \/ pc[a] = "put" /\ job[a].snap[k] = db[k]

(* A cached row of a reading server never differs from the database with   *)
(* nothing left that would correct it (applyChanges: "Apply changed data   *)
(* to keep cache in sync").                                                *)
KeptInSync ==
    \A s \in Servers \ Writers, k \in Keys :
        ~Booting(s) /\ cache[s][k] # db[k] =>
            \/ Underway(k) \/ Logged(s, k) \/ Refreshing(s, k)
            \/ k \in reload[s] /\ db[k] # Absent

(* The writer skips its own records, so its cache has to be right as soon  *)
(* as SetOne ("set Xconf record in DB and cache") or DeleteOne has         *)
(* returned, unless the whole table is being reloaded.                     *)
WriterFresh ==
    \A s \in Writers, k \in Keys :
        ~Booting(s) /\ cache[s][k] # db[k] =>
            (\E w \in writing : w.key = k) \/ Refreshing(s, k)

(* After a failed sync the ticker tries at most Retry times in all before  *)
(* it reloads everything, however the failures are spread.                 *)
AttemptsBounded ==
    \A s \in Servers : attempts[s] <= (IF Retry = 0 THEN 1 ELSE Retry)

(* lastRefreshedTimestamp never moves back, whoever refreshes the cache    *)
(* next to the ticker; it would make the ticker repeat old changes.        *)
LastNeverMovesBack ==
    [][\A s \in Servers : last[s] <= last'[s]]_vars

(* Once writes stop, every cache ends up equal to the database.            *)
Converges == <>[](\A s \in Servers : cache[s] = db)

(* The refresh task of a server: everything it keeps has its type, and     *)
(* refreshAttemptsLeft stays between zero and the configured number (Run,  *)
(* SyncChanges, RefreshAll).                                               *)
TaskSound == TypeOK /\ AttemptsBounded
=============================================================================
