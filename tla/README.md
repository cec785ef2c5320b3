# TLA+ models of the XConf DataService

The XConf DataService (`src/`) answers set-top boxes: which firmware to run, which
features and which log-upload and telemetry settings to use. It evaluates rules that
another program, the XConf admin service, writes to Cassandra. Both programs use the
packages modelled here. Requests are served from in-memory caches of the Cassandra
tables, so what a device is told is right only as far as the caches are.

## 1. Inventory

| Component | State | Operations | Talks to | Hard behaviour |
|---|---|---|---|---|
| Table cache and change log (`db/cache_manager.go`, `db/cache_dao.go`, `db/listing_dao.go`) | a loading cache per table; `lastRefreshedTimestamp`, `refreshAttemptsLeft`; the table `XconfChangedKeys4` shared by all servers | `SetOne`, `DeleteOne`, `writeCacheLog`, `initiatePrecaching`, `Run`, `ForceSyncChanges`, `SyncChanges`, `applyChanges`, `RefreshAll`, the loader | every handler reads through it; Cassandra | goroutines per log write, ticker, HTTP refresh, other servers, lost or late records, restarts |
| Distributed lock (`db/cassandra_client.go` 956-1174) | table `locks` | `Lock`, `LockRow`, `Unlock`, `UnlockRow` | Cassandra conditional statements | expiry, clock skew, lost answers, holders that stop |
| Compressed rows (`db/cassandra_client.go` 763-954, `db/compressing_data_dao.go`) | columns `part_i` and `parts_count` of a row | `SetOne`, `GetOne`, `GetAllAsMap`, `DeleteOne` | table cache | two queries per read, left-over columns |
| Query limit (`ConcurrentQueries`) | tokens in a buffered channel | entry and exit of every client operation | all of `CassandraClient` | waiting for a slot while holding one |
| Application cache, group-service cache (`db/cache_manager.go` 812-921) | values computed from tables | get, compute, set; delete all of a table | firmware rules, features | stale value set after the deletion |
| SAT tokens and HTTP client (`http/sat_token_manager.go`, `http/sat_connector.go`, `http/http_client.go`) | the default token and one per partner | get, renew, `Do`, `DoWithRetries` | remote services | shared pointer without a lock, several renewals at once, expiry between check and use, retries, timeouts |
| Request context (`dataapi/*_context.go`, `dataapi/dataapi_common.go`, the connectors of `http/`) | the context map of a request | account, device, group and tagging lookups | remote services, SAT tokens | one of several calls fails; answers about two accounts |
| Rules engine (`rulesengine/`) | none | evaluation of conditions and compound rules, comparison, factory rules | all evaluations | negation, relations, order |
| Firmware evaluation (`dataapi/estbfirmware/`, `shared/estbfirmware/`, `shared/firmware/`) | reads tables | rule, filters, percentage distribution, minimum and activation version, BSE | rules engine, caches | order of filters, boundaries of percentages |
| Firmware requests (`dataapi/estb_firmware_*.go`, `shared/estbfirmware/config_change_logs.go`, `http/security_manager.go`) | a ring of change logs per device and server, the last request, metrics | handlers, `LogResponse`, security tokens | firmware evaluation, listing DAO | goroutines after the answer, rows that cannot be read back |
| Forms of firmware rules (`shared/estbfirmware/*_filter.go`, `estb_converters.go`) | rows of the rule table | validate, convert, save, list | rules engine | what a conversion loses |
| Feature control (`dataapi/feature_control_*.go`, `dataapi/featurecontrol/`, `shared/rfc/`) | precooked data per device | evaluation, hash, 304 | rules engine, penetration metrics | stale hash or precooked data |
| Device configuration (`dataapi/log_uploader_*.go`, `dataapi/dcm/`) | none | log upload, settings, telemetry profiles | rules engine | several tables read one after the other |
| Tables of the admin service (`shared/generic_namespaced_List.go`, `shared/coretypes.go`, validations) | lists, settings, models, configurations, templates, telemetry profiles | validate, save, read by type | table cache | check and save are two steps, on several hosts |
| Penetration metrics, recooking status | a row per device or module | single statements | handlers | none of their own |
| Server, router, metrics, tracing, AES codec, protobuf | wiring, counters, generated code | | | not modelled |

What makes them correct: a cached row equals the row in the database or something is
pending that will correct it; a lock has one holder; a row read back is the row that was
written; calls return; a derived value is not older than the table it was computed from;
rules, filters and percentages choose the configuration the administrator entered. The
places where this is hard to test are the `hazards` of `PROJECT.json`.

## 2. Modules

| Module | Models | Used by |
|---|---|---|
| `CacheSync` | table cache of several servers, database, change log | `MCCacheSync`, `CacheSyncProofs` |
| `DistributedLock` | lock table and retry loop | `MCDistributedLock`, `DistributedLockProofs` |
| `Lease` | what the lock promises | `DistributedLock`, by refinement |
| `CompressedData` | one split row and its readers | `MCStorage`, `StorageProofs` |
| `QueryPool` | `ConcurrentQueries` | `MCStorage`, `StorageProofs` |
| `DerivedCache` | application cache of one table | `MCStorage`, `StorageProofs` |
| `AdminTables` | rows that operators edit, on several hosts | `MCStorage`, `StorageProofs` |
| `RulesEngine` | conditions, compound rules, their evaluation and comparison, two factory rules | `MCRules`, `MCRulesEngine`, `RuleProofs` |
| `RuleEdits` | normalisation, equality, duplicates, renaming | `MCRules`, `RuleProofs` |
| `RuleBeans` | forms, their validation and their conversion into rules and back | `MCRules`, `BeanProofs` |
| `FirmwareQueries` | configuration of a BSE request, on the rules of `RuleBeans` | `MCRules`, `BeanProofs` |
| `FirmwareEval` | the evaluation of a firmware request | `MCFirmware`, `FirmwareProofs` |
| `VersionQueries` | minimum firmware and activation version, on the tables of `FirmwareEval` | `MCFirmware`, `FirmwareProofs` |
| `FirmwareRequest` | handlers, change logs, metrics, tokens | `MCFirmware`, `MCFirmwareRequest`, `FirmwareProofs` |
| `RequestContext` | completion of the context of a request | `MCServices`, `ServiceProofs` |
| `ServiceCalls` | SAT tokens and retries | `MCServices`, `ServiceProofs` |
| `FeatureControl` | feature control with precooked data | `MCRequests`, `RequestProofs` |
| `DeviceConfig` | log upload, settings, telemetry | `MCRequests`, `RequestProofs` |

The modules of one MC module that share no state are checked in one run: a variable `part`
says which of them a behaviour is about, and the others stand still. What one module takes
as an input and another computes is named in each section. Operators that nothing uses (in
the newer modules their names begin with `Mut`) are the mutants of `PROJECT.json`: each is a
plausible mistake in a definition that follows it, and makes a property fail.

### CacheSync

One table, cached by each of `Servers`. The contents of a row are the number of the event
that stored it, so a stale row differs from the current one; 0 means that there is no row.

*Writes.* `SetOne` is three steps: the statement (`SetOneStore`), then `cache.Put` and the
start of the log goroutine (`SetOneCache`), then that goroutine, which takes time and
TimeUUID (`WriteCacheLogStamp`) before its record becomes visible (`WriteCacheLogLand`, or
`WriteCacheLogFail`). `DeleteOne` is the same with an eviction and with the size of the
cache minus one. A timed-out statement may be stored without the rest (`SetOneTimeout`).

*Rounds.* The ticker (`Run`), `ForceSyncChanges` and the handlers `/info/refreshAll` and
`/info/refresh/{table}` are the three agents `ticker`, `force` and `http` of a server.
`ForceSyncChanges` has a value receiver and works on a copy of the task, so only the ticker
changes `last` and `attempts`. `syncCacheLock` admits one forced sync at a time: there is
one `force` agent. A round takes its times (`SyncStart`, `FullStart`), reads the log
(`SyncLoad`), applies one record per step in the order of `applyChanges` (`SyncApply`), runs
the deferred `refreshTables` if a size was too small, and ends (`SyncEnd`). `RefreshAll` of
a table is `RefreshWipe`, `RefreshRead`, `RefreshPut`; only a full refresh holds
`refreshCacheMutex`.

*The loading cache* is the external library goburrow, modelled from how the code uses it:
`Refresh` of a cached key reloads it on another goroutine and keeps the old value until
then, a running reload makes a second one superfluous, a key that is not cached is loaded
at once, an evicted entry ignores its reload. `ReloadLand` is a load without delay;
`LoadRow` and `StoreRow` are one with time between query and cache, also for requests.

*Environment.* `Faults` lists what the environment may do. Nothing in the server's actions
depends on it beyond that; it selects which assumptions a run makes. Records of the server's own
table carry a flag `known`; a record of another table makes `applyChanges` return an error.

*Abstractions.* One table; the preload of a server is one read and puts all rows at once,
and so does `RefreshPut` (for each row the moments of the read and of the put are kept
apart). All servers have the same clock in this module. The rows `Pinned` exist from the
start, so that a cache with other rows is possible without writing them. UPDATE records are
treated as CREATE by the code and are not distinguished.

### DistributedLock

`AcquireLock` is split at every query: `INSERT ... IF NOT EXISTS`, the comparison of the
expiry with the caller's own clock, `UPDATE ... IF expires_at < lockedAt`. Each may be
applied although the driver reports an error (`AcquireError`). A holder may stop
(`Abandon`), and `Unlock` may be called at any time by anyone. A lock name stands for a
table (`Lock`) or a table and a row (`LockRow`); the code of the two is the same. A caller
*relies* on the lock while its expiry is at least `Skew` away by its own clock; that is the
use of the lock that can be safe at all. With that, the lock implements `Lease`
(`ImplementsLease`, with the callers that rely on a lock as its holders): a lease is granted
only to one caller, and only when nobody has it, while time, `Unlock` and failures may end it.

### CompressedData

A part is the number of the version that wrote it. snappy's `Decode` accepts exactly the
parts of one version in order. A write is one logged batch and hence atomic. `GetOne` and
`GetAllAsMap` read the count and the parts with two queries; the second one keeps the first
`count` columns in the order of their names.

### QueryPool

A call takes one token, a call of `SetXconfCompressedData` a second one while it holds the
first.

### DerivedCache

Lists that requests compute from a table (sorted formulas, rules by type) and keep in the
application cache. A request reads the kept value, else the table (`ReadTable`), and keeps
what it computed; `SetOne`, `DeleteOne` and `RefreshAll` change the table and drop the
derived values in a second step, and `applyChanges` drops those of the changed tables at its
end, which it does not reach after a truncation, an unknown table or a row it cannot read.
A value that was computed before a change and kept after the deletion stays; `dirty` records
that this, a reload that landed late, or an early end has happened, and the properties hold
for every other way. Rows are numbers of writes, a derived value is the table it was computed from.

### AdminTables

Two hosts, each with a cache; a row is validated against the cache (`Validate`) and saved in
a second call. The properties therefore allow two rows that exclude each other only when the
later one was validated without having seen the other (`ConflictsWereBlind`). A setting is
cached as it was given on the host that sets it, and as JSON gives it back on the others.

### RulesEngine

A rule is a condition, or a list of parts each joined to the ones before it by AND or OR;
`Rules[d]` are the rules of depth at most `d`, and `MaxDepth` bounds the depth. What the
program computes from a string (number, time of day, percent of its hash, patterns it
matches, lists it is in) is a constant. `Evaluate` is the recursion of
`RuleProcessor.Evaluate`, a function on the rules; `EvaluateParts` is its loop over the
parts, with the early end and the skipped parts as they are in the code. The actions are the functions that
build rules (`AndRules`, `OrRules`, `Not`, nesting) and two functions of the rule factory;
`EqualComplexRules` compares the rule with its `Twins`, which have the parts in another order,
or one relation or negation changed. What the model shows beyond its properties: OR binds
tighter than AND (`a AND b OR c` is `a AND (b OR c)`); `AndRules` on a compound base adds to
its list, so a later OR joins only the last part; a condition without evaluator is false even
when negated; `EqualComplexRules` ignores nesting and the negation of a compound rule, which
is why `EqualRulesAgree` is stated for rules without nesting, and two conditions without fixed
argument are unequal. It compares the name of a free argument and not its type, so that the
property needs `OneType`: conditions that it cannot tell apart are of one type.

`ValuesOK` and `WordsOK` say what the tables and the words are, `FiltersOK` that operators
fill in times that read as such and lists that exist, `ConditionsOK` that rules are built from
conditions.

### RuleEdits

What happens to a rule between an operator's form and the table. Spelling (trimming, case,
the canonical form of a MAC address) is given by constants, of which `SpellingsOK` says that
doing it twice changes nothing more; `NormalizeConditions`, `Rule.Equals` with
`Condition.Equals` and `FixedArg.Equals`, the searches for conditions given twice, and
`ChangeFixedArgToNewValue` are translated on rules of `RulesEngine`, and the properties
compare what a rule selects before and after, by `RulesEngine`'s evaluation. `ConditionsOf`
and `Mapped` are the walk of `ToConditions` and a change of every condition on it;
`EqualTo[d]` is the recursion of `Rule.Equals` by depth. `FormsOK` says that the rules come
from forms: IN carries a collection, IN_LIST the name of a list, and a list keeps its members
when it is renamed. `Rule.Equals` unwraps a compound rule of one part and forgets its
negation, so `EqualsAgree` leaves such rules out. `FixedArg.Equals` is commented to sort a
copy and sorts the collection itself; the order of a collection decides nothing.

### RuleBeans and FirmwareQueries

`store` is the table of firmware rules; `posted`, which is not in the program, is what was
saved. A form (percentage bean, IP rule and filter, MAC rule, time and download location
filter, activation version, global percentage, round robin filter) is validated, converted and
stored, and the properties compare the forms that are listed with the ones saved. Where the
conversion loses something, the property says for what it holds: nested and negated optional
conditions of a percentage bean are flattened, so that two beans with different conditions may
read alike, and explicit and implicit ranges in one bean may overlap. `LocationDrawn` is what `FirmwareEval` assumes of the round robin filter: its
percentages add up to 100. `FirmwareQueries` reads the same table for a BSE request, and
`BseAnswers` compares it with what the rules engine makes of those rules. Next to the filters
made from forms the table holds operators' own (`LocationRules`), for which the two agree only
if they are alternatives of addresses (`AddressAlternatives`).

### FirmwareEval

One request from `Eval` to its answer. Which rules match the device is an input (that is
`RulesEngine`), as are the position of its MAC or account between 0 and 100 percent and
whether it is whitelisted; the actions of the rules, the configurations and the download
location filter are the tables. The evaluation is cut where a table is read: templates of
each kind (`Start`, `StartFilters`, `Merge`), the bound configuration (`Bind`, `Load`), the
template of each property filter (`ApplyFilter`), and between them an administrator may
delete a template or a configuration (`Delete`). The sorted template lists come from an
application cache and may hold a template that was deleted before; for the evaluation that
is the same as a deletion just after the list was read. Templates of equal priority, and
rules that the code does not sort, are taken in any order.

Two paths end in a nil dereference: `ApplyPanics` (the template of a matched filter is gone
at its second read) and `MergePanics` (tftp with an IPv6 location when the download location
filter could not be read). Both are kept as steps to the phase `panic`. The comment at
`estb_firmware_rule_eval.go` 581 says that the location is drawn when it is empty; the code
draws it when it is not, and the model follows the code. An entry that has only a percentage
never fits, since its ends default to 0 and count as a range; and a paused entry stops only
devices that are distributed: a device that is whitelisted, or whose rule is not active, gets
the first entry that is not paused. `AppliedVersionInfo`, which is only logged, and the
rewriting of `http` and `https` in a full URL are left out.

`VersionQueries` asks the finished evaluation what `HasMinimumFirmware` and
`GetAppliedActivationVersionType` would answer from the same tables. The former ignores
`FirmwareCheckRequired`, the regular expressions of the latter never match (a match counts
only together with an error); both are in the model.

### FirmwareRequest

The requests of one device. The handler checks its parameters and answers (`StatusOf`); the
goroutine of `LogResponse` then writes the last request, finds the place of the change log
in the ring (`GetCurrentId`), writes it and last the metrics. Goroutines interleave and a
server may go down between any two steps. A log that holds an upgrade delay or a location
cannot be read back (`Unmarshal`), which ends the read of all logs of the device or, for the
delay, the server. `GetTimeInLocalTimezone` and the decision to add a security token are
part of the module; the keywords are tried in any order, as a Go map is.

### RequestContext

One request of each of the three APIs. Every call to a service is a step that may fail, and
what is known of an account is represented by the account it was read for, so that a context
that mixes two can be told. The order of the lookups, the early returns, the token that is
taken once and the connector that is chosen later are the code's. A pod answer of status 200
without data is the step to `panic`.

### ServiceCalls

Requests that need the token of a slot (the default route or a partner). The pointer of the
default route is read again after the renewal, the partner's token is the one looked up;
renewals run side by side and the last one stored wins. `Tick` counts time in read timeouts;
the retry loop is `FailAndRetry`, `Retry`, `FailForGood`, and a call that timed out may have
been served (`Issue`).

### FeatureControl

One device that changes its firmware, network and application type, tables that change, an
external job that precooks answers, and the goroutines that write the row of the metrics.
Hashes stand for their content. Application type and environment are not part of the context
hash, so `PrecookFits` leaves out devices that switch; features with equal instances keep
the order of a map, so `NotModifiedWhenSame` asks for distinct ones.

### DeviceConfig

One action is one read of a cached table: the formula, its device settings, its log upload
settings, the repository, the VOD settings, then telemetry and setting profiles. Changes of
an administrator come between the reads; `touched` and `held` record what changed during the
request. Cron expressions are minute and hour; the draws and the hash of the device are
inputs. A UTC schedule that is moved before midnight gets a negative hour, and a schedule
that is randomised over the whole day is sent to devices that are told not to upload; the
properties name both. The table of temporary telemetry profiles fails a type assertion as
soon as it has a row (`GetTelemetryForContext`).

## 3. Runs

`tlc -config X.cfg M` in this directory. Passing runs:

| Run | Instance | Shows |
|---|---|---|
| `sync_benign` | one writer, one reader, one row that changes and two that do not, 2 ticks, 3 events, `load_error` and `reader_crash`, fairness | `KeptInSync`, `WriterFresh`, `Converges` |
| `sync_chaos` | one server, all faults | `TaskSound`, `LastNeverMovesBack` |
| `lock_safety` | two callers, clocks one second apart, TTL 2, one retry, 3 seconds, fairness | `LockSound`, `HolderExclusive`, `NoTheft`, `LockReturns`, `ImplementsLease` |
| `storage` | rows of up to 4 parts, 4 writes; 2 plain and 2 batch calls on 3 slots; a table of 2 rows with 2 writes and one request; 2 hosts, 2 keys, 2 edits | `SplitRowsReadBack`, `PoolSound`, `EveryCallReturns`, `DerivedSound`, `StaleGoes`, `TablesConsistent`, `RowsReadSame` |
| `rules` | rules of up to 3 parts over 3 conditions, nested once, 12 contexts; 192 time filters and 23 reboot filters on 576 contexts; up to 3 stored forms of every kind; rules that are normalised, compared and renamed | `EvaluatesInGroups`, `FiltersSelect`, `EditsKeepSelection`, `FormsReadBack`, `BeansSound`, `BseAnswers` |
| `firmware` | 9 rules of 7 templates, 4 tables of actions, 720 requests, 3 download location filters, a template and a configuration deleted at any time; 3 requests of a device, 2 goroutines at a time, a ring of 2 logs | `TypeOK`, `NotHeldBack`, `AnswerSettled`, `FiltersApplied`, `ToldAlike`, `LogsKept`, `TokenIsBacked` |
| `services` | 8 configurations, all requests of 2 accounts and 2 partners, any call failing; 2 concurrent callers, 1 retry, 3 time units, fairness | `ContextOfOneAccount`, `TokenFitsConnector`, `CallsSound`, `HandedOutValid`, `EveryCallEnds` |
| `requests` | 2 requests with 2 changes of tables or device, starting from the first of the two sets of tables, precooked data of either; 2 formulas, 2 edits during 2 requests | `AnswerFitsDevice`, `FeaturesOfTables`, `PartsOfFormula`, `SchedulesKept`, `SharedRowsKept` |

Properties that say one thing together are checked as a conjunction of named parts, each with
its own comment in the module:

| Property | Parts |
|---|---|
| `TaskSound`, `LockSound` | `TypeOK` with `AttemptsBounded`, with `CallsBounded` |
| `HolderExclusive` | `RowOfHolder`, `MutualExclusion` |
| `SplitRowsReadBack` | `SplitTypeOK`, `QuietReadSucceeds`, `NoOldVersion` |
| `PoolSound` | `PoolTypeOK`, `NotStuck` |
| `DerivedSound` | `DTypeOK`, `DerivedFresh`, `NothingEmptyKept` |
| `TablesConsistent` | `AdminTypeOK`, `ConflictsWereBlind` |
| `RowsReadSame` | `TypedListsAgree`, `ElementsCompared`, `SettingsReadSame` |
| `FiltersSelect` | `TimeFilterBlocks`, `RiFilterSelects` |
| `EditsKeepSelection` | `EqualRulesAgree`, `EqualsAgree`, `NormalisedSelects`, `DuplicatesRedundant`, `RenameSelects` |
| `FormsReadBack` | `ReadBackSelects`, `IpFormsReadBack`, `TimeFilterReadsBack`, `ActivationReadsBack`, `LocationReadsBack`, `GlobalKept`, `MacRulesFound` |
| `BeansSound` | `BeansTypeOK`, `NoTwoConfigs`, `NobodyLeftOut`, `AcceptedAgain`, `DistinctBeans`, `LocationDrawn` |
| `NotHeldBack` | `MinimumNotHeldBack`, `BypassHonoured` |
| `AnswerSettled` | `MatchedFirst`, `ForcedReboot`, `DriAnswered`, `MandatoryIsMinimum` |
| `FiltersApplied` | `DefinePrecedence`, `PausingMovesNobody`, `ActivationReboots` |
| `ToldAlike` | `MinimumToldAlike`, `ActivationToldAlike` |
| `LogsKept` | `FwTypeOK`, `RingHoldsNewest`, `NewestVisible`, `LocalTimeOfOffset` |
| `ContextOfOneAccount` | `CtxTypeOK`, `AttributesOfAccount`, `HashOfAccount`, `TagsOfIdentity` |
| `CallsSound` | `SvcTypeOK`, `NotTheExpiredOne`, `TokenOfSlot`, `CallTimeBounded` |
| `AnswerFitsDevice` | `PrecookFits`, `PostProcessingFits`, `AccountIdSecured` |
| `FeaturesOfTables` | `FcTypeOK`, `BestRuleAnswers`, `NotModifiedWhenSame`, `RowHashOfFeatures` |
| `PartsOfFormula` | `DcTypeOK`, `FirstFormulaAnswers`, `OnlyActiveParts`, `TelemetryTwoComplete`, `ProfileAsRequested` |
| `SchedulesKept` | `NotUploadedNotScheduled`, `TimesOfDay`, `CheckInKept`, `LevelMinuteKept` |
| `SharedRowsKept` | `PartnerKept`, `CacheUntouched` |

The bounds are the constants whose names begin with `Max`, and `Bounds`, the size of the
ring. In the cache runs an
event is a write, a restart or a failed query. Three of them suffice for a change, a change
of the same row while the first is being applied, and a failure in between; two ticks give
a round that reads the log before, at and after the time of a record. The last instant is
entered only when no write is under way, so that pending work settles in it. Three seconds
let a lock of two seconds expire, be taken over and released late. Three parts (`MaxParts`)
are enough for every pair of relations in a row, before and after a nested rule. The firmware
instance has two rules or filters wherever an order matters (two templates of a kind, two
ENV_MODEL and two activation rules with different numbers of conditions), devices on and next
to the boundary of a percentage range, and rules with and without a minimum version. Two
requests and two changes let a request meet a table that changes between any two of its
reads, and the second one meet what the first has left; three firmware requests on a ring of
two wrap it and overwrite its oldest log while another goroutine is under way. Two callers
are enough for a renewal that overtakes another. Two hosts with two edits are enough for a
check that is stale when its row is saved. Deadlock
is checked only for the lock; the other instances end when the bounds are reached, a request
when it has been answered.

Runs that show a disagreement between the code and what its comments say (findings):

| Run | What happens |
|---|---|
| `sync_late` | a record that becomes visible after the reader has synced past its time is never read |
| `pool_full` | as many batch writes as slots wait for each other for ever |
| `fw_delay` | a stored change log with an upgrade delay panics when it is read back, in a goroutine, and the server stops |
| `rules_time` | the factory makes the argument `time` a STRING, which `ComparingEvaluator` does not compare: a time filter never blocks |

Other faults break `KeptInSync` too, and its passing run leaves them out: the deletion of the
last row of a table is logged with size 0 and skipped as malformed (the rows `Pinned` keep
the table from becoming empty); the log rows of a
period are visited in map order, so that with a `Window` of one second an older deletion can
undo a newer creation; with `boot_write` a change between the preload and
`lastRefreshedTimestamp` is missed; with `bulk_error` a failed deferred refresh leaves an
empty cache and a sync that counts as successful.

Two more faults break `WriterFresh`, whose run leaves them out: with `parallel`, two requests
of one server write a row and update its cache in opposite orders; with `writer_error`, a full
refresh at the writer puts a row it read before the writer's own newer write. The writer skips
its own log records, so neither is corrected before the row changes again.

`KeptInSync` accepts a difference between cache and database as long as the write or its
record is under way, a record of the row lies in the period of the next sync, the row is
being reloaded, or the whole table is or will be reloaded. It is weaker than equality, which
no asynchronous cache has, and strong enough that nothing may be forgotten.

*Fairness.* `FairSpec` of `CacheSync` assumes that the goroutines of a server run when they
can, that tickers keep firing and time passes. Faults and writes are not fair; they stop
because events are bounded, which is what "once writes stop" means. `DistributedLock`
assumes that queries return and sleeping callers wake up, `QueryPool` that a call that can
go on does, which holds for Go's channels (waiting senders are served in order) and the
driver's query timeout. `DerivedCache` assumes that an operation that began goes on and that
changes of other servers are applied, `ServiceCalls` that `net/http` ends every attempt by its
timeout and that sleeps end; time passes there with strong fairness, because requests that
are served from the cache disable the passing of time for a moment and may come forever.

`QuietReadSucceeds` is checked up to four parts. From eleven parts on the columns come in the
order of their names, `part_10` before `part_2`, and the bulk read, which keeps the first
`parts_count` columns, drops a row that has shrunk.

## 4. Proofs

`tlapm M.tla`. The theorems hold for all values of the constants that satisfy the `ASSUME`s
of the modules: any number of servers, rows, callers, hosts, requests and events. The
assumptions say of what kind a constant is (bounds are natural numbers, sets that are counted
are finite, tables hold rows of their type, what an id refers to exists), and that the values
which stand for "none" are none of the real ones (`NothingAssumption`, `NoHashAssumption`,
`d.ver # Nothing`: the service cannot tell an empty name from none). TLC evaluates them in the
runs. A theorem that needs more names it as a hypothesis:

| Hypothesis | Theorems | Why |
|---|---|---|
| `DistinctOwners` | `HolderOwnsRow`, `LockIsExclusive`, `HolderIsExclusive`, `LockImplementsLease` | callers with the same owner string release each other's lock |
| `FewBatches` | `PoolNotStuck`, `PoolIsSound` | otherwise the calls wait for each other (run `pool_full`) |
| `Benign` | `CachesKeepUp`, `WriterIsFresh` | the faults and limits of section 3 that break them |
| `TimeType = "TIME"` | `FiltersAreSound` | with the type STRING, which the factory gives, a time filter never blocks (run `rules_time`) |
| `OneType` | `EqualRulesSelectAlike`, `EditsAreSound` | `EqualComplexRules` compares the name of a free argument and not its type |
| `AddressAlternatives` | `BseRequestsAreAnswered` | `IsIpAddressInRange` takes the conditions on the address of an operator's own filter for alternatives and stops at the first single address, whatever joins or negates them |
| `MaxParts <= 10` | `SplitRowsAreReadBack` | from eleven parts on the order of the names is not that of the numbers |
| `ActivationDefines` | `FiltersAreApplied`, `QueriesTellAlike` | the template of activation versions is one that defines properties |
| `FwConf.logs`, `FwConf.metrics` | `TokensAreBacked` | without them the goroutine writes no metrics at all |
| `DistinctPriorities` | `FeaturesAreOfTables` | rules of equal priority are taken in any order, and the features with them |
| `OneDevice` | `SchedulesAreKept` | a device that moves to another zone is told another hour; a row is known by its name |

The instances of the passing runs satisfy all of them. `SyncInv`,
`PartsInv`, `TimedOK` and `CheckInOK` below, the largest of the strengthened invariants, were
also checked with TLC on those instances.

### CacheSyncProofs

Under all faults: `TypeCorrect` and `AttemptsAreBounded` from the inductive invariant
`TypeOK /\ AttemptsOK`. `TypeOK` alone is not inductive: that `refreshAttemptsLeft` can be
decremented needs that a ticker in an incremental round has attempts left and one in a full
refresh has none (`AttemptsOK`), which holds because no one but the ticker changes them.
`PeriodNeverMovesBack` adds `TimesOK`: the time a ticker will store lies between the one it
has stored and the present. `RefreshTaskIsSound` joins the first two.

`CachesKeepUp` and `WriterIsFresh` under `Benign`: one writer, two rows that are never
deleted, `Retry > 0`, all records in one row of the log (`MaxClock < Window`), and no faults
but failing queries and readers that restart; forced syncs, HTTP refreshes and slow loads are
among the excluded ones. `SyncInv` adds to the above that

* records are logged one at a time in the order of their times (`LogOK`), and the last record
  of a row, or the goroutine or write that will produce it, says whether the database holds
  the row (`LatestTells`). Without it an old CREATE that is applied last could bring back a
  deleted row, and applying records one by one would not preserve `KeptInSync`;
* a round has to apply only records that were visible when it read the log, and with a record
  also every later one of the same row that the next round will not read (`RoundOK`);
* a row of a reader that differs has a record at or after the time from which the reader will
  still see records (`Since`: the stored time, or that of a round which will succeed), is
  being reloaded, or the whole table is (`RowOK`), also for the snapshot that a full refresh
  is about to store;
* the writer reloads nothing and changes its cache only by its own writes (`WriterOK`).

The hypothesis on the log is real: `loadChanges` ranges over a Go map (`cache_manager.go` 578),
so the records of two log rows are applied in either order. Two pinned rows are needed since
`DeleteOne` logs the size minus one also for a row that was not there, and a record of size 0
is skipped.

### DistributedLockProofs

`TypeCorrect`; `HolderOwnsRow` and `LockIsExclusive`, together `HolderIsExclusive`;
`UnexpiredLockIsKept`; `RetriesAreBounded`, with the types `LockIsSound`. The inductive
invariant says in addition that the time a caller has taken for `AcquireLock` is not ahead of
its clock, so that an UPDATE is refused for a lock that is still relied on.
`LockImplementsLease` is the refinement, step by step: who relies on a lock is the abstract
holder; only an INSERT or UPDATE that is applied and answered adds one, and by
`MutualExclusion` in the next state nobody else is left; time, failures and `Unlock` only
remove some, and all other steps stutter.

### StorageProofs

* `DerivedIsSound` from `DInv`: a derived value that is not that of the table cache is marked,
  or an operation is under way that will drop it (`StaleIsCovered`), and what a request has
  computed and not yet kept is current unless something happened meanwhile that marks it
  (`PutsAreCurrent`). `DerivedFresh` speaks only of quiet states and is not inductive.
* `NoOldVersionRead` for any number of parts and `SplitRowsAreReadBack` for at most ten, from
  `SplitInv`: the first `count` columns are of the present version, whatever is left behind
  them, and a deletion leaves none (`RowIsWhole`); a call during which nothing was written holds
  the present count (`CountIsCurrent`). That the bulk read finds the row needs that columns in the order of their names begin
  with the present ones, which is a lemma on the names of at most ten columns.
* `TablesAreConsistent` and `RowsAreReadSame` from `AdminInv`: rows in the database and rows
  that a host has validated are well-formed (`RowsFine`), and a row that waits to be saved is
  in conflict only with rows that it has not seen (`ConflictsUnseen`), which is what a save
  makes into `ConflictsWereBlind`. The number of edits bounds the waiting rows.
* `PoolTypeCorrect`, `PoolNotStuck`, together `PoolIsSound`. The invariant counts the tokens of
  the channel by the steps of the calls.

### RuleProofs

Rules are trees, and the prover knows no induction over trees. It is replaced by induction
over depths: `Rules[d]` holds the rules of depth at most `d`, the parts of one of them are in
`Rules[d - 1]` (`LevelParts`), and a set of rules that holds a rule whenever it holds its parts
holds all (`RuleInduction`, from the least element of a set of numbers). That a function
defined by recursion on the parts exists and satisfies its equation is proved the same way
(`RuleRecursion`), level by level; `Evaluate`, `Means`, `ConditionsOf`, `Mapped` and
`HidesNegation` are instances. Loops over the parts are functions on `0..n` (`LoopExists`).

* `RuleInvariant`: what the operations build is in `AllRules`, and the rule of a filter is the
  factory's. `EvaluationIsSound`: by `LoopByGroups` the loop over the parts, whatever it skips, has
  after part `i` the value of the reference for the parts up to `i`, where a group that failed
  ends it for good; `EvaluateIsMeans` lifts that to rules of any depth.
* `FiltersAreSound`: the rule of a filter is a chain of conditions added one by one, and
  `AddState` says what each one does to the state of the loop; from the conditions of the
  factory (`IsCondition`, `ListCondition`, ...) follows what the whole chain selects, for any
  number of address groups.
* `EqualRulesSelectAlike` from `BuiltInv`, which adds that a rule is built from `Conditions`.
  `SameCollection` pairs each element with the first equal one that is left; when nothing is
  left, counting shows that each side is covered by the other (`CollectionCovered`), and rules
  whose parts are all joined alike evaluate to what the set of their parts says
  (`CoveredAlike`).
* `EditsAreSound` from `EditInv`: the rule in the table is the normal form of one that was not
  refused, or that with a list renamed. Normalising is shown condition by condition
  (`NormalizedCondition`: which canonical values it accepts; `NormalizedStays`: doing it
  again changes nothing) and carried over to rules (`MappedUnfolds`, `NormalizedRule`);
  `Rule.Equals` by depth (`EqualsSound`); duplicates by the first element of each class of equal
  conditions (`RepeatedFound`, `RepeatedReported`), of which the last can go without changing what the
  rest selects (`WithoutOne`).

### BeanProofs

On `RuleProofs`, for `BseSpec`, which saves and deletes forms of all kinds in any order.

* `BeanInvariant`: `BeanInv` says that every stored rule is the conversion of the form recorded
  with it (`SlotsOK`, `GlobalsOK`, `RobinsOK`) and that the form is one the validation
  accepts, so that what follows is a fact about one form and needs no history.
* `FormsAreReadBack`: `FlattenRule` of a chain of conditions is that chain, and the last of the
  conditions on a name is the one the form has put there; the nested conditions of a bean are
  flattened by `ParseEnvModelRule` part by part, and `OptionalOf`, the loop of `getOptionalRule`,
  gives the chain back with the relation of its first part removed. For `ReadBackSelects` the
  chain evaluates as the nested rule does (`EvaluatesInGroups` on both sides).
* `BeansStayApart` is the strengthening that `DistinctBeans` needs: beans that were read, not
  beans as posted, are what `ValidateAll` compares, and a bean saved under a smaller id is
  compared in the other order. So `EqualComplexRules` has to be symmetric, which is proved of
  `SameCollection` by pairing what each side removes (`CollectionRuns`, `CollectionBack`).
* `BeansStaySound`: ranges computed by `ConvertIntoPercentRange` are consecutive (`Totals`
  ascends), so that no two overlap and with 100 percent nobody is left out; a bean without
  ranges reads back as one with strictly ascending ranges of the same total, which is accepted
  again; a draw below the total of the shares lands on the first location whose total exceeds
  it.
* `BseRequestsAreAnswered`: by `BeanInv` the chain of conditions of a stored rule is known, so
  that `IsIpAddressInRange` and the rules engine decide alike for each kind of rule
  (`StoredServe`, `StoredLocate`). The sorted table lists every rule once; along it the first
  loop of `GetBseConfiguration` collects the models of exactly the rules that answer
  (`ModelsAre`) and the second keeps the location of the last filter that gives one
  (`BseSettled`), both by induction on the number of rules passed.

### ServiceProofs

* `CallsAreSound` and `HandedOutIsValid` from `SvcInv`: a token counts as expired here
  before the service stops to accept it (`TokensUsable`); an attempt began within the timeouts
  and pauses of the earlier ones (`AttemptsTimed`); and what a request knows of the token it is
  about to read again, after a renewal by itself or by another (`CallerKnows`), which is what
  the second read of the shared pointer depends on.
* `ContextIsOfOneAccount` and `TokensFitConnectors` from `CtxInv`: for each phase of the
  three APIs, that attributes come only when the account is final (`AttributesLate`), that the hash follows the account
  (`HashFollows`), that tags of account and partner are added only when both are final
  (`TagsLate`), and that the route of the token is kept until the call (`RouteKept`). The
  properties speak of the finished context only.

### FirmwareProofs

Evaluation. Whatever is deleted: `EvalTypeCorrect`, `MinimumVersionNotHeldBack`, `BypassIsHonoured`,
`ForcedRebootIsKept`, `DisasterRecoveryIsAnswered`, `MandatoryFlagIsMinimum`,
`FirstRuleIsMatched`, joined in `NobodyIsHeldBack` and `AnswerIsSettled`. The invariant says
what is still empty in which phase (`PhaseOK`); that the bypass and force filters hold what the
request, the matched rule's template and the minimum version put there (`BypassOK`, `ForceOK`),
which they never lose since they only grow; that every filter found or applied before the
blocking phase defines properties and has had its bypasses recorded (`FoundOK`, `AppliedOK`),
without which `BypassHonoured` is not inductive; that the answer is settled by `Merge`
(`AnswerOK`); and that the search has passed over no template with a matching rule (`SearchOK`).

`FiltersAreApplied` and `QueriesTellAlike` add `OrderInv`: filters are found and applied in
descending order of their templates (`Descending`), each property defined so far is the one of
the last filter that defines it (`SaidOK`), and the activation rules found are the most
specific ones and have had their effect (`ActFound`, `ActOK`). That pausing moves nobody is a
fact about `PartialSums`, the running total of `ExtractConfigFromAction`: pausing an entry changes
no total, so the same entries fit the device.

Requests. `FwTypes`. `TokensAreBacked`: a device with a token has metrics, or a goroutine that
will write them is under way or has not ended well. `LogsAreKept` from `FwInv`: while logs do
not overlap and their times increase, there is a place of the ring at which it ends, the logs
before it are the newest in order (`RingInOrder`), and a goroutine that is about to write has
been given the place after it; at most one goroutine of a server is there (`OneAtATime`).
`GetCurrentId` computes that place from the times alone, so the proof shows that the oldest
time is where the order says it is, also while the ring is not full.

### RequestProofs

* Feature control: `AnswersFitDevice`, `FeaturesAreOfTables`, and `BestRulesAnswer`, the part
  of the latter without hypothesis. `FcInv` records of each answer for which profile, tables
  and precooked data it was computed (`AnswerOK`, `RequestOK`), and of a goroutine that hash
  and features belong together (`RowOK`). The loops of `Eval` over rules and features
  are recursive functions; what they compute is proved by `SmallestCounterexample`, a form of
  induction whose predicate is a set of numbers.
* Device configuration: `PartsAreOfFormula` from `PartsInv`, one conjunct per stage of the
  request: what the request still has to do (`StagesOK`), that formulas are tried in the order
  of their ranks and a complete one that was passed over ranks no better than the one whose
  parts are given (`RankedOK`, `ServedOK`), that what was read of a formula is still so unless
  it was changed meanwhile (`ReadOK`, `ActiveOK`), that setting profiles are of their type
  (`ProfilesOK`), and that a bound telemetry profile has been answered once or is still to be
  read (`TwoOK`).
  `TimesAreOfDay` and `SchedulesAreKept` are about `Given`, the settings answered and those
  being filled: each has its times from one row of each kind (`TimedOK`, `CheckInOK`), and
  the hour that summer time adds is taken off again (`SummerHours`), so that a schedule is
  a function of row and zone. The offset is divided by 60 with truncation
  towards zero, so that a zone less than an hour west of UTC is rounded to 0 hours in winter and
  in summer alike; `OneDevice` leaves out such zones with a summer time, of which there are none
  today.
* `SharedRowsAreKept`: both action properties, from the steps.

### Only model-checked

* The liveness properties (`Converges`, `LockReturns`, `EveryCallReturns`, `StaleGoes`,
  `EveryCallEnds`): they need fairness, which is out of the prover's reach.
* What the four findings of section 3 violate.

## 5. Plan

Every component with logic of its own has a module, and every invariant of
the passing runs a theorem. What is left:

* `CachesKeepUp` with forced syncs and HTTP refreshes at the readers: `RowOK` for three agents
  instead of one.

## 6. Not modelled

* Metrics, tracing, routing and configuration (no state a property is about), the AES codec
  (cryptography over byte strings), generated protobuf code, statistics and formatting.
* Temporary telemetry profiles beyond the failing assertion of `GetTimestampedRules`; nothing
  behind it can be reached.
* `PercentFilterfilter` and `fitsPercent`, which have no callers; `CacheManager.Invalidate`,
  `InvalidateAll` and `RefreshOne`, which have none in this repository.
* `CompareRules`: the sort that uses it is not given an order, so the models take any of the
  matching rules. The textual parser of rules.
* The time to live of the rows of the log tables, the group service cache (put and read by
  key, nothing invalidates it) and the recooking status (single statements).
* The data race on the elements of a collection that `FixedArg.Equals` sorts while other
  requests evaluate the rule.
