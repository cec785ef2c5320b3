---------------------------- MODULE DerivedCache ----------------------------
(* The application cache: lists that requests derive from a cached table    *)
(* (sorted rules, rules by type) and keep under a key of that table until   *)
(* the table changes.  One table of one server: its rows in the table       *)
(* cache, the derived values, the requests that compute them, the writer    *)
(* (cachedSimpleDaoImpl.SetOne, DeleteOne, RefreshAll) and the job that     *)
(* applies the changes of other servers (applyChanges).                     *)
EXTENDS Integers, Sequences, FiniteSets

CONSTANTS
  Rows,               \* row keys
  MaxWrites,          \* bound on the changes and full refreshes of the table, which number its versions
  Readers,            \* requests that need a derived value
  NoValue

ASSUME DerivedConstants == MaxWrites \in Nat

\* "list" is derived from the table, "sorted" from "list" (GetDCMGenericRuleList, getSortedDcmRules).
DKeys == {"list", "sorted"}
Ops == {"writer", "sync"}

VARIABLES
  stored,    \* the table in Cassandra: a version of each row, 0 for no row
  writes,    \* number of changes so far
  rows,      \* the table cache
  log,       \* changes of other servers since the last batch: a sequence of [row, op]
  batch,     \* the changes the job still has to apply
  derived,   \* the application cache: [DKeys -> a table's contents or NoValue]
  op,        \* [Ops -> [pc, keys]]: where each operation is, and the keys its deletion still has to drop
  reload,    \* rows whose refresh was started and has not landed
  reader,    \* [Readers -> [pc, key, value, clean]]
  dirty      \* ghost: keys that hold a value which some change of the table was not followed by a deletion of

dVars == <<writes, batch, stored, rows, log, derived, op, reload, reader, dirty>>

Done == [pc |-> "idle", keys |-> {}]
Free == [pc |-> "idle", key |-> "list", value |-> NoValue, clean |-> TRUE]
Table == [Rows -> 0..MaxWrites + 1]
NoRows == [r \in Rows |-> 0]
Size(t) == Cardinality({r \in Rows : t[r] # 0})

\* Ghost: a change of the table makes what is being computed from it out of date.
Overtaken == reader' = [q \in Readers |-> IF reader[q].pc = "put" THEN [reader[q] EXCEPT !.clean = FALSE]
                                          ELSE reader[q]]
\* Ghost: a change that no deletion follows.
Unannounced == dirty' = dirty \cup {k \in DKeys : derived[k] # NoValue}

-----------------------------------------------------------------------------
(* Requests.                                                                *)

\* ApplicationCacheGet: a present value is the answer, else the source is read.
ApplicationCacheGet(q, k) ==
  /\ reader[q].pc = "idle" /\ derived[k] = NoValue
  /\ reader' = [reader EXCEPT ![q] = [pc |-> "read", key |-> k, value |-> NoValue, clean |-> TRUE]]
  /\ UNCHANGED <<writes, batch, stored, rows, log, derived, op, reload, dirty>>

\* GetAllAsList: the rows in the table cache at this moment.
GetAllAsList == rows

\* An empty table is answered but not kept.
ReadTable(q) ==
  /\ reader[q].pc = "read"
  /\ reader[q].key = "list" \/ derived["list"] = NoValue
  /\ LET most == IF reader[q].key = "list" THEN 0 ELSE 1   \* a list of one rule is not sorted, nor kept
         keep == Size(GetAllAsList) > most
     IN  reader' = [reader EXCEPT ![q] = IF keep THEN [@ EXCEPT !.pc = "put", !.value = GetAllAsList] ELSE Free]
  /\ UNCHANGED <<writes, batch, stored, rows, log, derived, op, reload, dirty>>

\* The sorted list is made from the cached list when there is one.
ReadList(q) ==
  /\ reader[q].pc = "read" /\ reader[q].key = "sorted" /\ derived["list"] # NoValue
  /\ reader' = [reader EXCEPT ![q] =
       IF Size(derived["list"]) > 1
       THEN [@ EXCEPT !.pc = "put", !.value = derived["list"],
                      !.clean = "list" \notin dirty /\ \A o \in Ops : op[o].pc = "idle"]
       ELSE Free]
  /\ UNCHANGED <<writes, batch, stored, rows, log, derived, op, reload, dirty>>

ApplicationCacheSet(q) ==
  /\ reader[q].pc = "put"
  /\ LET k == reader[q].key
     IN  /\ derived' = [derived EXCEPT ![k] = reader[q].value]
         /\ dirty' = IF reader[q].clean THEN dirty \ {k} ELSE dirty \cup {k}
  /\ reader' = [reader EXCEPT ![q] = Free]
  /\ UNCHANGED <<writes, batch, stored, rows, log, op, reload>>

-----------------------------------------------------------------------------
(* ApplicationCacheDeleteAll: the keys are listed, then dropped one by one. *)

ListKeys(o) ==
  /\ op[o].pc = "changed"
  /\ op' = [op EXCEPT ![o] = [pc |-> "delete", keys |-> {k \in DKeys : derived[k] # NoValue}]]
  /\ UNCHANGED <<writes, batch, stored, rows, log, derived, reload, reader, dirty>>

DropKey(o) ==
  /\ op[o].pc = "delete"
  /\ IF op[o].keys = {}
     THEN op' = [op EXCEPT ![o] = Done] /\ UNCHANGED <<derived, dirty>>
     ELSE \E k \in op[o].keys :
            /\ derived' = [derived EXCEPT ![k] = NoValue]
            /\ dirty' = dirty \ {k}
            /\ op' = [op EXCEPT ![o].keys = @ \ {k}]
  /\ UNCHANGED <<writes, batch, stored, rows, log, reload, reader>>

-----------------------------------------------------------------------------
(* The writer of this server.                                               *)

\* A change of Cassandra's table, numbered.
Write(r) == writes < MaxWrites /\ writes' = writes + 1 /\ stored' = [stored EXCEPT ![r] = writes + 2]
Remove(S) == writes < MaxWrites /\ writes' = writes + 1 /\ stored' = [r \in Rows |-> IF r \in S THEN 0 ELSE stored[r]]

\* Mutant: the derived values are dropped before the table changes.
MutDeleteFirst(r) ==
  /\ op["writer"].pc = "idle"
  /\ Write(r)
  /\ rows' = [rows EXCEPT ![r] = stored'[r]]
  /\ Overtaken
  /\ UNCHANGED <<batch, log, derived, op, reload, dirty>>

\* SetOne: Cassandra, then the table cache, then the derived values.
SetOne(r) ==
  /\ op["writer"].pc = "idle"
  /\ Write(r)
  /\ rows' = [rows EXCEPT ![r] = stored'[r]]
  /\ op' = [op EXCEPT !["writer"].pc = "changed"]
  /\ Overtaken
  /\ UNCHANGED <<batch, log, derived, reload, dirty>>

DeleteOne(r) ==
  /\ op["writer"].pc = "idle"
  /\ stored[r] # 0
  /\ Remove({r}) /\ rows' = [rows EXCEPT ![r] = 0]
  /\ op' = [op EXCEPT !["writer"].pc = "changed"]
  /\ Overtaken
  /\ UNCHANGED <<batch, log, derived, reload, dirty>>

\* RefreshAll empties the table cache; an error of the query then ends it without a deletion.
RefreshAllWipe ==
  /\ op["writer"].pc = "idle"
  /\ writes < MaxWrites /\ writes' = writes + 1
  /\ rows' = NoRows
  /\ op' = [op EXCEPT !["writer"].pc = "wiped"]
  /\ Overtaken
  /\ UNCHANGED <<batch, stored, log, derived, reload, dirty>>

RefreshAllLoad ==
  /\ op["writer"].pc = "wiped"
  /\ rows' = stored
  /\ op' = [op EXCEPT !["writer"].pc = "changed"]
  /\ Overtaken
  /\ UNCHANGED <<writes, batch, stored, log, derived, reload, dirty>>

RefreshAllFail ==
  /\ op["writer"].pc = "wiped"
  /\ op' = [op EXCEPT !["writer"] = Done]
  /\ Unannounced
  /\ UNCHANGED <<writes, batch, stored, rows, log, derived, reload, reader>>

-----------------------------------------------------------------------------
(* The changes of other servers.                                            *)

WriteElsewhere(r) ==
  /\ Write(r)
  /\ log' = Append(log, [row |-> r, op |-> "UPDATE"])
  /\ UNCHANGED <<batch, rows, derived, op, reload, reader, dirty>>

DeleteElsewhere(r) ==
  /\ stored[r] # 0 /\ Remove({r})
  /\ log' = Append(log, [row |-> r, op |-> "DELETE"])
  /\ UNCHANGED <<batch, rows, derived, op, reload, reader, dirty>>

TruncateElsewhere ==
  /\ stored # NoRows /\ Remove(Rows)
  /\ \E r \in Rows : log' = Append(log, [row |-> r, op |-> "TRUNCATE"])
  /\ UNCHANGED <<batch, rows, derived, op, reload, reader, dirty>>

ApplyStart ==
  /\ op["sync"].pc = "idle" /\ log # <<>>
  /\ op' = [op EXCEPT !["sync"].pc = "apply"]
  /\ batch' = log /\ log' = <<>>
  /\ UNCHANGED <<writes, stored, rows, derived, reload, reader, dirty>>

Applying == op["sync"].pc = "apply" /\ batch # <<>>

\* A cached row is refreshed behind the job's back; the job goes on with the old one.
ApplyRefresh ==
  /\ Applying /\ Head(batch).op = "UPDATE" /\ rows[Head(batch).row] # 0
  /\ reload' = reload \cup {Head(batch).row}
  /\ batch' = Tail(batch)
  /\ UNCHANGED <<writes, stored, rows, log, derived, op, reader, dirty>>

\* A row that is not cached is loaded at once; when it is gone the batch ends here, without a deletion.
ApplyLoad ==
  /\ Applying /\ Head(batch).op = "UPDATE" /\ rows[Head(batch).row] = 0
  /\ IF stored[Head(batch).row] # 0
     THEN /\ rows' = [rows EXCEPT ![Head(batch).row] = stored[Head(batch).row]]
          /\ batch' = Tail(batch)
          /\ UNCHANGED <<op, dirty>>
     ELSE /\ op' = [op EXCEPT !["sync"] = Done] /\ batch' = <<>>
          /\ Unannounced /\ UNCHANGED rows
  /\ Overtaken
  /\ UNCHANGED <<writes, stored, log, derived, reload>>

ApplyDelete ==
  /\ Applying /\ Head(batch).op = "DELETE"
  /\ rows' = [rows EXCEPT ![Head(batch).row] = 0]
  /\ batch' = Tail(batch)
  /\ Overtaken
  /\ UNCHANGED <<writes, stored, log, derived, op, reload, dirty>>

\* TRUNCATE empties the table cache and returns at once.
ApplyTruncate ==
  /\ Applying /\ Head(batch).op = "TRUNCATE"
  /\ rows' = NoRows /\ batch' = <<>>
  /\ op' = [op EXCEPT !["sync"] = Done]
  /\ Overtaken /\ Unannounced
  /\ UNCHANGED <<writes, stored, log, derived, reload>>

MutNoDeletion ==
  /\ op["sync"].pc = "apply" /\ batch = <<>>
  /\ op' = [op EXCEPT !["sync"] = Done]
  /\ UNCHANGED <<writes, stored, rows, log, batch, derived, reload, reader, dirty>>

\* The end of the batch: the changed table's derived values are deleted.
ApplyEnd ==
  /\ op["sync"].pc = "apply" /\ batch = <<>>
  /\ op' = [op EXCEPT !["sync"].pc = "changed"]
  /\ UNCHANGED <<writes, stored, rows, log, batch, derived, reload, reader, dirty>>

\* The refresh lands whenever its query returns; nothing is deleted for it.
ReloadLand(r) ==
  /\ r \in reload
  /\ reload' = reload \ {r}
  /\ rows' = IF stored[r] # 0 THEN [rows EXCEPT ![r] = stored[r]] ELSE rows
  /\ Overtaken /\ Unannounced
  /\ UNCHANGED <<writes, batch, stored, log, derived, op>>

-----------------------------------------------------------------------------
DInit ==
  /\ stored \in {[r \in Rows |-> 1]} /\ rows = stored /\ log = <<>> /\ batch = <<>> /\ writes = 0
  /\ derived = [k \in DKeys |-> NoValue] /\ op = [o \in Ops |-> Done] /\ reload = {}
  /\ reader = [q \in Readers |-> Free] /\ dirty = {}

Request(q) == (\E k \in DKeys : ApplicationCacheGet(q, k)) \/ ReadTable(q) \/ ReadList(q) \/ ApplicationCacheSet(q)
Writer == (\E r \in Rows : SetOne(r) \/ DeleteOne(r)) \/ RefreshAllWipe
Elsewhere == (\E r \in Rows : WriteElsewhere(r) \/ DeleteElsewhere(r)) \/ TruncateElsewhere
Refreshing == RefreshAllLoad \/ RefreshAllFail
ApplicationCacheDeleteAll(o) == ListKeys(o) \/ DropKey(o)
applyChanges == ApplyRefresh \/ ApplyLoad \/ ApplyDelete \/ ApplyTruncate \/ ApplyEnd
DNext == (\E q \in Readers : Request(q)) \/ Writer \/ Elsewhere \/ Refreshing \/ ApplyStart \/ applyChanges
         \/ (\E o \in Ops : ApplicationCacheDeleteAll(o)) \/ (\E r \in Rows : ReloadLand(r))

\* The goroutines of the server run: an operation that began goes on.
DFairness ==
  /\ WF_dVars(Refreshing) /\ WF_dVars(ApplyStart) /\ WF_dVars(applyChanges)
  /\ \A o \in Ops : WF_dVars(ApplicationCacheDeleteAll(o))
  /\ \A r \in Rows : WF_dVars(ReloadLand(r))

DSpec == DInit /\ [][DNext]_dVars /\ DFairness

-----------------------------------------------------------------------------
(* Properties.                                                              *)

\* Tables, derived values and operations keep their shape; a row that is gone is 0 everywhere (SetOne, DeleteOne).
DTypeOK ==
  /\ stored \in Table /\ rows \in Table
  /\ derived \in [DKeys -> Table \cup {NoValue}]
  /\ \A o \in Ops : op[o].pc \in {"idle", "changed", "delete", "wiped", "apply"} /\ op[o].keys \subseteq DKeys
  /\ \A q \in Readers : reader[q].pc \in {"idle", "read", "put"} /\ reader[q].key \in DKeys
  /\ dirty \subseteq DKeys /\ reload \subseteq Rows

Quiet == \A o \in Ops : op[o].pc = "idle"

\* When no operation is under way a derived value is that of the table cache, except after one of the
\* named overlaps: it was computed from contents that changed before it was kept, a refresh landed after
\* the deletion, or an operation ended early (SetOne, DeleteOne, RefreshAll, applyChanges with
\* ApplicationCacheDeleteAll).
DerivedFresh == Quiet => \A k \in DKeys : derived[k] # NoValue /\ k \notin dirty => derived[k] = rows

\* A list of no rows, or the sorted list of one, is never kept: a request cannot find it empty forever.
NothingEmptyKept ==
  /\ derived["list"] # NoValue => Size(derived["list"]) > 0
  /\ derived["sorted"] # NoValue => Size(derived["sorted"]) > 1

\* A derived value that is not that of the table goes away, unless one of the overlaps made it so.
StaleGoes ==
  \A k \in DKeys :
    (derived[k] # NoValue /\ derived[k] # rows) ~> (derived[k] = NoValue \/ derived[k] = rows \/ k \in dirty)

(* The application cache: outside the named overlaps a derived value is    *)
(* that of its table, and one of an empty table is not kept.               *)
DerivedSound == DTypeOK /\ DerivedFresh /\ NothingEmptyKept
=============================================================================
