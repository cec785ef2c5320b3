---------------------------- MODULE StorageProofs ----------------------------
(***************************************************************************)
(* Proofs about the storage layer, for any number of rows, readers, hosts  *)
(* and drafts: the lists derived from a cached table (DerivedCache), split *)
(* rows (CompressedData), the limit on concurrent queries (QueryPool, for  *)
(* any number of calls and slots) and the rows that operators edit         *)
(* (AdminTables).                                                          *)
(***************************************************************************)
EXTENDS CompressedData, QueryPool, DerivedCache, AdminTables, FiniteSetTheorems, TLAPS

-----------------------------------------------------------------------------
(* DerivedCache: the inductive invariant.                                  *)

Contents == Table \cup {NoValue}
Entry == [row : Rows, op : {"UPDATE", "DELETE", "TRUNCATE"}]

OpType == [pc : {"idle", "changed", "delete", "wiped", "apply"}, keys : SUBSET DKeys]
ReaderType == [pc : {"idle", "read", "put"}, key : DKeys, value : Contents, clean : BOOLEAN]

DTyped ==
  /\ writes \in 0..MaxWrites /\ stored \in Table /\ rows \in Table
  /\ log \in Seq(Entry) /\ batch \in Seq(Entry)
  /\ derived \in [DKeys -> Contents]
  /\ op \in [Ops -> OpType]
  /\ reload \subseteq Rows /\ dirty \subseteq DKeys
  /\ reader \in [Readers -> ReaderType]

(* An operation that will drop key k, or mark it, before it ends.          *)
WillDrop(o, k) ==
  \/ op[o].pc \in {"changed", "wiped", "apply"}
  \/ op[o].pc = "delete" /\ k \in op[o].keys

(* A derived value that is not that of the table cache, and not marked, is *)
(* about to be dropped.                                                    *)
StaleIsCovered ==
  \A k \in DKeys : (derived[k] # NoValue /\ k \notin dirty /\ derived[k] # rows) => \E o \in Ops : WillDrop(o, k)

(* What a request is about to keep is what the table cache holds, unless a *)
(* change has overtaken it.                                                *)
PutsAreCurrent ==
  \A q \in Readers : reader[q].pc = "put" /\ reader[q].clean => reader[q].value = rows

PutsAreLarge ==
  \A q \in Readers : reader[q].pc = "put" =>
    Size(reader[q].value) > (IF reader[q].key = "list" THEN 0 ELSE 1)

DInv == DTyped /\ StaleIsCovered /\ PutsAreCurrent /\ PutsAreLarge /\ NothingEmptyKept

LEMMA DInitInv == DInit => DInv
<1> SUFFICES ASSUME DInit PROVE DInv
  OBVIOUS
<1> USE DerivedConstants DEF DInit
<1>1. DTyped
  BY DEF DTyped, Table, Contents, Done, Free, DKeys, Ops, OpType, ReaderType
<1>2. StaleIsCovered /\ PutsAreCurrent /\ PutsAreLarge /\ NothingEmptyKept
  BY DEF StaleIsCovered, PutsAreCurrent, PutsAreLarge, NothingEmptyKept, Free, DKeys
<1>3. QED BY <1>1, <1>2 DEF DInv

LEMMA HeadTail ==
    ASSUME NEW S, NEW s \in Seq(S), s # <<>>
    PROVE  Head(s) \in S /\ Tail(s) \in Seq(S)
OBVIOUS

LEMMA DTypedStep == DTyped /\ [DNext]_dVars => DTyped'
<1> SUFFICES ASSUME DTyped, [DNext]_dVars PROVE DTyped'
  OBVIOUS
<1> USE DerivedConstants DEF DTyped
<1>1. CASE UNCHANGED dVars
  BY <1>1 DEF dVars
<1>2. Free \in ReaderType /\ Done \in OpType /\ NoRows \in Table /\ "writer" \in Ops /\ "sync" \in Ops
      /\ "list" \in DKeys /\ NoValue \in Contents /\ Table \subseteq Contents
  BY DEF Free, Done, NoRows, ReaderType, OpType, Contents, DKeys, Ops, Table
<1>3. ASSUME NEW q \in Readers, NEW k \in DKeys, ApplicationCacheGet(q, k) PROVE DTyped'
  BY <1>2, <1>3 DEF ApplicationCacheGet, ReaderType
<1>4. ASSUME NEW q \in Readers, ReadTable(q) PROVE DTyped'
  <2>1. [reader[q] EXCEPT !.pc = "put", !.value = rows] \in ReaderType
    BY <1>2 DEF ReaderType
  <2>2. QED BY <1>2, <1>4, <2>1 DEF ReadTable, GetAllAsList
<1>5. ASSUME NEW q \in Readers, ReadList(q) PROVE DTyped'
  <2>1. ASSUME NEW b \in BOOLEAN
        PROVE  [reader[q] EXCEPT !.pc = "put", !.value = derived["list"], !.clean = b] \in ReaderType
    BY <1>2 DEF ReaderType
  <2>2. ("list" \notin dirty /\ \A o \in Ops : op[o].pc = "idle") \in BOOLEAN
    OBVIOUS
  <2>3. reader' \in [Readers -> ReaderType]
    BY <1>2, <1>5, <2>1, <2>2 DEF ReadList
  <2>4. QED BY <1>5, <2>3 DEF ReadList
<1>6. ASSUME NEW q \in Readers, ApplicationCacheSet(q) PROVE DTyped'
  BY <1>2, <1>6 DEF ApplicationCacheSet, ReaderType
<1>7. ASSUME NEW o \in Ops, ListKeys(o) PROVE DTyped'
  BY <1>7 DEF ListKeys, OpType
<1>8. ASSUME NEW o \in Ops, DropKey(o) PROVE DTyped'
  <2>1. CASE op[o].keys = {}
    BY <1>2, <1>8, <2>1 DEF DropKey
  <2>2. CASE op[o].keys # {}
    <3>1. PICK k \in op[o].keys : /\ derived' = [derived EXCEPT ![k] = NoValue]
                                  /\ dirty' = dirty \ {k}
                                  /\ op' = [op EXCEPT ![o].keys = @ \ {k}]
      BY <1>8, <2>2 DEF DropKey
    <3>2. [op[o] EXCEPT !.keys = @ \ {k}] \in OpType
      BY DEF OpType
    <3>3. op' \in [Ops -> OpType] /\ derived' \in [DKeys -> Contents] /\ dirty' \subseteq DKeys
      BY <1>2, <3>1, <3>2
    <3>4. QED BY <1>8, <3>3 DEF DropKey
  <2>3. QED BY <2>1, <2>2
<1>9. ASSUME Overtaken PROVE reader' \in [Readers -> ReaderType]
  BY <1>9 DEF Overtaken, ReaderType
<1>10. ASSUME NEW o \in Ops, NEW x \in {"idle", "changed", "delete", "wiped", "apply"}
       PROVE  [op EXCEPT ![o].pc = x] \in [Ops -> OpType]
  <2>1. [op[o] EXCEPT !.pc = x] \in OpType
    BY DEF OpType
  <2>2. QED BY <2>1
<1>11. ASSUME NEW r \in Rows, NEW S \in SUBSET Rows, NEW n \in Nat, n <= MaxWrites + 1, NEW t \in Table
       PROVE  [t EXCEPT ![r] = n] \in Table /\ [s \in Rows |-> IF s \in S THEN 0 ELSE t[s]] \in Table
  BY <1>11 DEF Table
<1>12. ASSUME NEW r \in Rows, Write(r) PROVE stored' \in Table /\ stored'[r] \in Nat /\ stored'[r] <= MaxWrites + 1
                                             /\ writes' \in 0..MaxWrites
  BY <1>11, <1>12 DEF Write, Table
<1>13. ASSUME NEW S \in SUBSET Rows, Remove(S) PROVE stored' \in Table /\ writes' \in 0..MaxWrites
  BY <1>13 DEF Remove, Table
<1>14. ASSUME NEW r \in Rows, SetOne(r) PROVE DTyped'
  BY <1>2, <1>9, <1>10, <1>11, <1>12, <1>14 DEF SetOne
<1>15. ASSUME NEW r \in Rows, DeleteOne(r) PROVE DTyped'
  <2>1. stored' \in Table /\ writes' \in 0..MaxWrites
    BY <1>13, <1>15 DEF DeleteOne
  <2>2. rows' \in Table
    BY <1>15 DEF DeleteOne, Table
  <2>3. op' \in [Ops -> OpType]
    BY <1>2, <1>10, <1>15 DEF DeleteOne
  <2>4. QED BY <1>9, <1>15, <2>1, <2>2, <2>3 DEF DeleteOne
<1>16. CASE RefreshAllWipe \/ RefreshAllLoad
  <2>1. op' = [op EXCEPT !["writer"].pc = "wiped"] \/ op' = [op EXCEPT !["writer"].pc = "changed"]
    BY <1>16 DEF RefreshAllWipe, RefreshAllLoad
  <2>2. op' \in [Ops -> OpType]
    <3>1. CASE op' = [op EXCEPT !["writer"].pc = "wiped"]
      BY <1>2, <1>10, <3>1
    <3>2. CASE op' = [op EXCEPT !["writer"].pc = "changed"]
      BY <1>2, <1>10, <3>2
    <3>3. QED BY <2>1, <3>1, <3>2
  <2>3. writes' \in 0..MaxWrites
    BY <1>16 DEF RefreshAllWipe, RefreshAllLoad
  <2>4. QED BY <1>2, <1>9, <1>16, <2>2, <2>3 DEF RefreshAllWipe, RefreshAllLoad
<1>17. CASE RefreshAllFail
  BY <1>2, <1>17 DEF RefreshAllFail, Unannounced
<1>18. ASSUME NEW r \in Rows, WriteElsewhere(r) PROVE DTyped'
  <2>1. [row |-> r, op |-> "UPDATE"] \in Entry
    BY DEF Entry
  <2>2. QED BY <1>12, <1>18, <2>1 DEF WriteElsewhere
<1>19. ASSUME NEW r \in Rows, DeleteElsewhere(r) PROVE DTyped'
  <2>1. [row |-> r, op |-> "DELETE"] \in Entry
    BY DEF Entry
  <2>2. QED BY <1>13, <1>19, <2>1 DEF DeleteElsewhere
<1>20. CASE TruncateElsewhere
  <2>1. \A r \in Rows : [row |-> r, op |-> "TRUNCATE"] \in Entry
    BY DEF Entry
  <2>2. QED BY <1>13, <1>20, <2>1 DEF TruncateElsewhere
<1>21. CASE ApplyStart \/ ApplyEnd
  <2>1. op' = [op EXCEPT !["sync"].pc = "apply"] \/ op' = [op EXCEPT !["sync"].pc = "changed"]
    BY <1>21 DEF ApplyStart, ApplyEnd
  <2>2. op' \in [Ops -> OpType]
    BY <1>2, <1>10, <2>1
  <2>3. <<>> \in Seq(Entry)
    OBVIOUS
  <2>4. QED BY <1>21, <2>2, <2>3 DEF ApplyStart, ApplyEnd
<1>22. Applying => Head(batch).row \in Rows /\ Tail(batch) \in Seq(Entry)
  <2>1. Applying => Head(batch) \in Entry /\ Tail(batch) \in Seq(Entry)
    BY HeadTail DEF Applying
  <2>2. QED BY <2>1 DEF Entry
<1>23. CASE ApplyRefresh
  BY <1>22, <1>23 DEF ApplyRefresh
<1>24. CASE ApplyLoad
  <2>1. Head(batch).row \in Rows /\ Tail(batch) \in Seq(Entry) /\ reader' \in [Readers -> ReaderType]
    BY <1>9, <1>22, <1>24 DEF ApplyLoad
  <2>2. stored[Head(batch).row] \in Nat /\ stored[Head(batch).row] <= MaxWrites + 1
    BY <2>1 DEF Table
  <2>3. rows' \in Table
    BY <1>24, <2>1, <2>2 DEF ApplyLoad, Table
  <2>4. /\ dirty' \subseteq DKeys /\ op' \in [Ops -> OpType]
        /\ batch' = Tail(batch) \/ batch' = <<>>
    BY <1>2, <1>24 DEF ApplyLoad, Unannounced
  <2>5. <<>> \in Seq(Entry)
    OBVIOUS
  <2>6. QED BY <1>24, <2>1, <2>3, <2>4, <2>5 DEF ApplyLoad
<1>25. CASE ApplyDelete \/ ApplyTruncate
  <2>1. Head(batch).row \in Rows /\ Tail(batch) \in Seq(Entry) /\ reader' \in [Readers -> ReaderType]
    BY <1>9, <1>22, <1>25 DEF ApplyDelete, ApplyTruncate
  <2>2. rows' \in Table
    <3>1. rows' = NoRows \/ rows' = [rows EXCEPT ![Head(batch).row] = 0]
      BY <1>25 DEF ApplyDelete, ApplyTruncate
    <3>2. [rows EXCEPT ![Head(batch).row] = 0] \in Table
      BY <2>1 DEF Table
    <3>3. QED BY <1>2, <3>1, <3>2
  <2>3. /\ dirty' \subseteq DKeys /\ op' \in [Ops -> OpType]
        /\ batch' = Tail(batch) \/ batch' = <<>>
    BY <1>2, <1>25 DEF ApplyDelete, ApplyTruncate, Unannounced
  <2>4. <<>> \in Seq(Entry)
    OBVIOUS
  <2>5. QED BY <1>25, <2>1, <2>2, <2>3, <2>4 DEF ApplyDelete, ApplyTruncate
<1>26. ASSUME NEW r \in Rows, ReloadLand(r) PROVE DTyped'
  <2>1. stored[r] \in Nat /\ stored[r] <= MaxWrites + 1
    BY DEF Table
  <2>2. QED BY <1>9, <1>11, <1>26, <2>1 DEF ReloadLand, Unannounced
<1>27. QED
  BY <1>1, <1>3, <1>4, <1>5, <1>6, <1>7, <1>8, <1>14, <1>15, <1>16, <1>17, <1>18, <1>19, <1>20, <1>21, <1>23,
     <1>24, <1>25, <1>26
     DEF DNext, Request, Writer, Elsewhere, Refreshing, ApplicationCacheDeleteAll, applyChanges

\* A change of the table cache is followed by a deletion, or marks what it leaves behind.
LEMMA StaleStep == DInv /\ [DNext]_dVars => StaleIsCovered'
<1> SUFFICES ASSUME DInv, [DNext]_dVars, NEW k \in DKeys,
                    derived'[k] # NoValue, k \notin dirty', derived'[k] # rows'
             PROVE  \E o \in Ops : WillDrop(o, k)'
  BY DEF StaleIsCovered
<1> USE DEF DInv, DTyped
<1>1. "writer" \in Ops /\ "sync" \in Ops
  BY DEF Ops
<1>2. ASSUME UNCHANGED <<rows, derived, dirty>>, \A o \in Ops : WillDrop(o, k) => WillDrop(o, k)'
      PROVE  \E o \in Ops : WillDrop(o, k)'
  BY <1>2 DEF StaleIsCovered
<1>3. ASSUME Unannounced, UNCHANGED derived PROVE FALSE
  BY <1>3 DEF Unannounced
<1>4. CASE UNCHANGED dVars
  BY <1>2, <1>4 DEF dVars, WillDrop
<1>5. ASSUME NEW q \in Readers, Request(q) PROVE \E o \in Ops : WillDrop(o, k)'
  <2>1. CASE UNCHANGED <<rows, derived, dirty>>
    BY <1>2, <1>5, <2>1 DEF Request, ApplicationCacheGet, ReadTable, ReadList, ApplicationCacheSet, WillDrop
  <2>2. CASE ApplicationCacheSet(q)
    BY <2>2 DEF ApplicationCacheSet, PutsAreCurrent, StaleIsCovered, WillDrop
  <2>3. QED BY <1>5, <2>1, <2>2 DEF Request, ApplicationCacheGet, ReadTable, ReadList
<1>6. ASSUME NEW p \in Ops, ListKeys(p) PROVE \E o \in Ops : WillDrop(o, k)'
  <2>1. op'[p] = [pc |-> "delete", keys |-> {j \in DKeys : derived[j] # NoValue}]
    BY <1>6 DEF ListKeys
  <2>2. QED BY <1>6, <2>1 DEF ListKeys, WillDrop
<1>7. ASSUME NEW p \in Ops, DropKey(p) PROVE \E o \in Ops : WillDrop(o, k)'
  <2>1. CASE op[p].keys = {}
    <3>1. PICK o \in Ops : WillDrop(o, k)
      BY <1>7, <2>1 DEF DropKey, StaleIsCovered
    <3>2. o # p
      BY <1>7, <2>1, <3>1 DEF DropKey, WillDrop
    <3>3. op'[o] = op[o]
      BY <1>7, <2>1, <3>2 DEF DropKey
    <3>4. QED BY <3>1, <3>3 DEF WillDrop
  <2>2. CASE op[p].keys # {}
    <3>1. PICK j \in op[p].keys : /\ derived' = [derived EXCEPT ![j] = NoValue]
                                  /\ dirty' = dirty \ {j}
                                  /\ op' = [op EXCEPT ![p].keys = @ \ {j}]
      BY <1>7, <2>2 DEF DropKey
    <3>2. j # k /\ derived'[k] = derived[k] /\ k \notin dirty /\ rows' = rows
      BY <1>7, <3>1 DEF DropKey
    <3>3. PICK o \in Ops : WillDrop(o, k)
      BY <3>2 DEF StaleIsCovered
    <3>4. op'[o].pc = op[o].pc /\ (k \in op[o].keys => k \in op'[o].keys)
      BY <3>1, <3>2 DEF OpType
    <3>5. QED BY <3>3, <3>4 DEF WillDrop
  <2>3. QED BY <2>1, <2>2
<1>8. CASE Writer \/ RefreshAllLoad
  <2>1. op'["writer"].pc \in {"changed", "wiped"}
    BY <1>1, <1>8 DEF Writer, SetOne, DeleteOne, RefreshAllWipe, RefreshAllLoad, OpType
  <2>2. QED BY <1>1, <2>1 DEF WillDrop
<1>9. CASE RefreshAllFail \/ ApplyTruncate
  BY <1>3, <1>9 DEF RefreshAllFail, ApplyTruncate
<1>10. CASE Elsewhere
  BY <1>2, <1>10 DEF Elsewhere, WriteElsewhere, DeleteElsewhere, TruncateElsewhere, WillDrop
<1>11. CASE ApplyStart \/ ApplyRefresh \/ ApplyDelete \/ ApplyEnd
  <2>1. op'["sync"].pc \in {"apply", "changed"}
    BY <1>1, <1>11 DEF ApplyStart, ApplyRefresh, ApplyDelete, ApplyEnd, Applying, OpType
  <2>2. QED BY <1>1, <2>1 DEF WillDrop
<1>12. CASE ApplyLoad
  <2>1. CASE stored[Head(batch).row] # 0
    BY <1>1, <1>12, <2>1 DEF ApplyLoad, Applying, WillDrop
  <2>2. CASE stored[Head(batch).row] = 0
    BY <1>3, <1>12, <2>2 DEF ApplyLoad
  <2>3. QED BY <2>1, <2>2
<1>13. ASSUME NEW r \in Rows, ReloadLand(r) PROVE FALSE
  BY <1>3, <1>13 DEF ReloadLand
<1>14. QED
  BY <1>4, <1>5, <1>6, <1>7, <1>8, <1>9, <1>10, <1>11, <1>12, <1>13
     DEF DNext, Refreshing, applyChanges, ApplicationCacheDeleteAll

\* No change of the table cache passes a request by that is about to keep a value.
LEMMA PutsStep == DInv /\ [DNext]_dVars => PutsAreCurrent' /\ PutsAreLarge' /\ NothingEmptyKept'
<1> SUFFICES ASSUME DInv, [DNext]_dVars PROVE PutsAreCurrent' /\ PutsAreLarge' /\ NothingEmptyKept'
  OBVIOUS
<1> USE DEF DInv, DTyped
<1>1. ASSUME UNCHANGED <<derived, reader>>, UNCHANGED rows
      PROVE  PutsAreCurrent' /\ PutsAreLarge' /\ NothingEmptyKept'
  BY <1>1 DEF PutsAreCurrent, PutsAreLarge, NothingEmptyKept
<1>2. ASSUME Overtaken, UNCHANGED derived
      PROVE  PutsAreCurrent' /\ PutsAreLarge' /\ NothingEmptyKept'
  BY <1>2 DEF Overtaken, ReaderType, PutsAreCurrent, PutsAreLarge, NothingEmptyKept
<1>3. CASE UNCHANGED dVars
  BY <1>1, <1>3 DEF dVars
<1>4. ASSUME NEW q \in Readers, NEW k \in DKeys, ApplicationCacheGet(q, k)
      PROVE  PutsAreCurrent' /\ PutsAreLarge' /\ NothingEmptyKept'
  BY <1>4 DEF ApplicationCacheGet, PutsAreCurrent, PutsAreLarge, NothingEmptyKept
<1>5. ASSUME NEW q \in Readers, ReadTable(q)
      PROVE  PutsAreCurrent' /\ PutsAreLarge' /\ NothingEmptyKept'
  <2>1. \A p \in Readers \ {q} : reader'[p] = reader[p]
    BY <1>5 DEF ReadTable
  <2>2. reader'[q].pc = "put" =>
          /\ reader'[q].value = rows
          /\ Size(reader'[q].value) > (IF reader'[q].key = "list" THEN 0 ELSE 1)
    BY <1>5 DEF ReadTable, GetAllAsList, Free, ReaderType
  <2>3. QED BY <1>5, <2>1, <2>2 DEF ReadTable, PutsAreCurrent, PutsAreLarge, NothingEmptyKept
<1>6. ASSUME NEW q \in Readers, ReadList(q)
      PROVE  PutsAreCurrent' /\ PutsAreLarge' /\ NothingEmptyKept'
  <2>1. \A p \in Readers \ {q} : reader'[p] = reader[p]
    BY <1>6 DEF ReadList
  <2>2. reader'[q].pc = "put" =>
          /\ reader'[q].value = derived["list"] /\ reader'[q].key = "sorted"
          /\ Size(derived["list"]) > 1
          /\ reader'[q].clean => "list" \notin dirty /\ \A o \in Ops : op[o].pc = "idle"
    BY <1>6 DEF ReadList, Free, ReaderType
  <2>3. reader'[q].pc = "put" /\ reader'[q].clean => reader'[q].value = rows
    BY <1>6, <2>2 DEF ReadList, StaleIsCovered, WillDrop, DKeys
  <2>4. QED BY <1>6, <2>1, <2>2, <2>3 DEF ReadList, PutsAreCurrent, PutsAreLarge, NothingEmptyKept
<1>7. ASSUME NEW q \in Readers, ApplicationCacheSet(q)
      PROVE  PutsAreCurrent' /\ PutsAreLarge' /\ NothingEmptyKept'
  <2>1. PutsAreCurrent' /\ PutsAreLarge'
    BY <1>7 DEF ApplicationCacheSet, Free, PutsAreCurrent, PutsAreLarge
  <2>2. NothingEmptyKept'
    BY <1>7 DEF ApplicationCacheSet, PutsAreLarge, NothingEmptyKept, DKeys, ReaderType
  <2>3. QED BY <2>1, <2>2
<1>8. ASSUME NEW o \in Ops, ListKeys(o) PROVE PutsAreCurrent' /\ PutsAreLarge' /\ NothingEmptyKept'
  BY <1>1, <1>8 DEF ListKeys
<1>9. ASSUME NEW o \in Ops, DropKey(o) PROVE PutsAreCurrent' /\ PutsAreLarge' /\ NothingEmptyKept'
  <2>1. \A k \in DKeys : derived'[k] \in {derived[k], NoValue}
    BY <1>9 DEF DropKey, OpType
  <2>2. QED BY <1>9, <2>1 DEF DropKey, PutsAreCurrent, PutsAreLarge, NothingEmptyKept, DKeys
<1>10. CASE Writer \/ RefreshAllLoad
  BY <1>2, <1>10 DEF Writer, SetOne, DeleteOne, RefreshAllWipe, RefreshAllLoad
<1>11. CASE RefreshAllFail \/ Elsewhere \/ ApplyStart \/ ApplyRefresh \/ ApplyEnd
  BY <1>1, <1>11 DEF RefreshAllFail, Elsewhere, WriteElsewhere, DeleteElsewhere, TruncateElsewhere, ApplyStart,
                     ApplyRefresh, ApplyEnd
<1>12. CASE ApplyLoad \/ ApplyDelete \/ ApplyTruncate
  BY <1>2, <1>12 DEF ApplyLoad, ApplyDelete, ApplyTruncate
<1>13. ASSUME NEW r \in Rows, ReloadLand(r) PROVE PutsAreCurrent' /\ PutsAreLarge' /\ NothingEmptyKept'
  BY <1>2, <1>13 DEF ReloadLand
<1>14. QED
  BY <1>3, <1>4, <1>5, <1>6, <1>7, <1>8, <1>9, <1>10, <1>11, <1>12, <1>13
     DEF DNext, Request, Refreshing, applyChanges, ApplicationCacheDeleteAll

(* Outside the named overlaps a derived value is that of its table         *)
(* whenever no operation is under way, for any number of rows and of       *)
(* requests that compute the values concurrently.                          *)
THEOREM DerivedIsSound == DSpec => []DerivedSound
<1>1. DInv /\ [DNext]_dVars => DInv'
  BY DTypedStep, StaleStep, PutsStep DEF DInv
<1>2. DInv => DerivedSound
  <2> SUFFICES ASSUME DInv PROVE DerivedSound
    OBVIOUS
  <2>1. DTypeOK
    BY DEF DInv, DTyped, DTypeOK, OpType, ReaderType, Contents
  <2>2. DerivedFresh
    BY DEF DInv, StaleIsCovered, WillDrop, DerivedFresh, Quiet
  <2>3. QED BY <2>1, <2>2 DEF DInv, DerivedSound
<1>3. QED BY <1>1, <1>2, DInitInv, PTL DEF DSpec

-----------------------------------------------------------------------------
(* CompressedData: the inductive invariant.                                *)

(* The parts of the row as the last write left them: its own parts, and    *)
(* behind them parts of older versions or none.                            *)
RowIsWhole ==
  /\ \A v \in 1..version : size[v] \in 1..MaxParts
  /\ count = 0 => \A i \in Nums : parts[i] = 0
  /\ count # 0 =>
       /\ version > 0 /\ size[version] = count
       /\ \A i \in Nums : i < count => parts[i] = version

(* A call that the row was not written during holds its count.             *)
CountIsCurrent ==
  \A r \in SplitReaders : call[r].pc = "count" =>
    call[r].count # 0 /\ (call[r].clean => call[r].count = count)

SplitInv == SplitTypeOK /\ RowIsWhole /\ CountIsCurrent /\ NoOldVersion

CallType == [pc : {"idle", "count", "done"}, count : 0..MaxParts, result : Failed..MaxVersion, clean : BOOLEAN]

LEMMA SplitInitInv == SplitInit => SplitInv
<1> SUFFICES ASSUME SplitInit PROVE SplitInv
  OBVIOUS
<1> USE SplitConstants DEF SplitInit, NoCall
<1>1. SplitTypeOK
  BY DEF SplitTypeOK, Failed, Nums
<1>2. RowIsWhole /\ CountIsCurrent /\ NoOldVersion
  BY DEF RowIsWhole, CountIsCurrent, NoOldVersion, HasRow
<1>3. QED BY <1>1, <1>2 DEF SplitInv

LEMMA FirstOnes ==
    ASSUME NEW n \in Nat
    PROVE  IsFiniteSet(0..(n - 1)) /\ Cardinality(0..(n - 1)) = n
BY FS_Interval

LEMMA RowFacts ==
    ASSUME SplitInv
    PROVE  /\ count \in Nat /\ version \in Nat /\ MaxParts \in Nat /\ Nums = 0..(MaxParts - 1)
           /\ count <= MaxParts /\ Present \subseteq Nums /\ 0 \in Nums
           /\ \A v \in 1..version : size[v] \in Nat \ {0}
           /\ count = 0 => \A i \in Nums : parts[i] = 0
           /\ count # 0 =>
                /\ version \in 1..version /\ size[version] = count
                /\ 0..(count - 1) \subseteq Present
                /\ \A i \in 0..(count - 1) : parts[i] = version
<1> USE SplitConstants DEF SplitInv, SplitTypeOK, RowIsWhole
<1>1. count \in Nat /\ version \in Nat /\ MaxParts \in Nat /\ Nums = 0..(MaxParts - 1)
      /\ count <= MaxParts /\ Present \subseteq Nums /\ 0 \in Nums
  BY DEF Nums, Present
<1>2. \A v \in 1..version : size[v] \in Nat \ {0}
  OBVIOUS
<1>3. ASSUME count # 0
      PROVE  /\ version \in 1..version /\ size[version] = count
             /\ 0..(count - 1) \subseteq Present
             /\ \A i \in 0..(count - 1) : parts[i] = version
  <2>1. \A i \in 0..(count - 1) : i \in Nums /\ i < count
    BY <1>1
  <2>2. \A i \in 0..(count - 1) : parts[i] = version
    BY <1>3, <2>1
  <2>3. QED BY <1>1, <1>3, <2>1, <2>2 DEF Present
<1>4. QED BY <1>1, <1>2, <1>3

\* Decode finds the last version in its parts.
LEMMA DecodesLast ==
    ASSUME SplitInv, count # 0
    PROVE  Decode({<<i, parts[i]>> : i \in 0..(count - 1)}) = version
<1> DEFINE p == {<<i, parts[i]>> : i \in 0..(count - 1)}
           whole == {v \in 1..version : p = {<<i, v>> : i \in 0..(size[v] - 1)}}
<1>1. p = {<<i, version>> : i \in 0..(size[version] - 1)}
  BY RowFacts
<1>2. version \in whole
  BY <1>1, RowFacts
<1>3. <<0, version>> \in p
  <2>1. 0 \in 0..(count - 1) /\ parts[0] = version
    BY RowFacts
  <2>2. QED BY <2>1
<1>4. ASSUME NEW v \in whole PROVE v = version
  <2>1. <<0, version>> \in {<<i, v>> : i \in 0..(size[v] - 1)}
    BY <1>3, <1>4
  <2>2. QED BY <2>1
<1>5. whole = {version}
  BY <1>2, <1>4
<1>6. (CHOOSE v \in {version} : TRUE) = version
  OBVIOUS
<1>7. QED BY <1>5, <1>6 DEF Decode

\* What Decode returns when it does not fail.
LEMMA DecodeIs ==
    ASSUME NEW p, Decode(p) # Failed
    PROVE  Decode(p) \in {v \in 1..version : p = {<<i, v>> : i \in 0..(size[v] - 1)}}
<1> DEFINE whole == {v \in 1..version : p = {<<i, v>> : i \in 0..(size[v] - 1)}}
<1>1. whole # {}
  BY DEF Decode
<1>2. Decode(p) = CHOOSE v \in whole : TRUE
  BY <1>1 DEF Decode
<1>3. QED BY <1>1, <1>2

LEMMA DecodeRange == ASSUME SplitInv, NEW p PROVE Decode(p) \in Failed..MaxVersion
<1> USE SplitConstants DEF SplitInv, SplitTypeOK
<1>1. CASE Decode(p) = Failed
  BY <1>1 DEF Failed
<1>2. CASE Decode(p) # Failed
  <2>1. Decode(p) \in 1..version
    BY <1>2, DecodeIs
  <2>2. QED BY <2>1 DEF Failed
<1>3. QED BY <1>1, <1>2

\* What Decode accepts of parts of the row, its first part among them, is the last version.
LEMMA DecodesNoOther ==
    ASSUME SplitInv, NEW I \in SUBSET Nums, Decode({<<i, parts[i]>> : i \in I}) # Failed
    PROVE  count # 0 /\ Decode({<<i, parts[i]>> : i \in I}) = version
<1> DEFINE p == {<<i, parts[i]>> : i \in I}
           v == Decode(p)
<1>1. v \in {w \in 1..version : p = {<<i, w>> : i \in 0..(size[w] - 1)}}
  BY DecodeIs
<1> HIDE DEF v
<1>2. v \in 1..version /\ p = {<<i, v>> : i \in 0..(size[v] - 1)}
  BY <1>1
<1>3. 0 \in 0..(size[v] - 1)
  BY <1>2, RowFacts
<1>4. <<0, v>> \in p
  BY <1>2, <1>3
<1>5. parts[0] = v
  BY <1>4
<1>6. count # 0
  BY <1>2, <1>5, RowFacts
<1>7. parts[0] = version
  BY <1>6, RowFacts
<1>8. QED BY <1>5, <1>6, <1>7 DEF v

\* Before orders the names of at most ten columns by their numbers.
LEMMA NamesInOrder ==
    ASSUME MaxParts <= 10, NEW i \in Nums, NEW j \in Nums
    PROVE  Before(i, j) <=> i < j
BY SplitConstants DEF Nums, Before

\* The bulk read keeps the parts of the last version, and no left-over.
LEMMA KeepsLast ==
    ASSUME SplitInv, count # 0, MaxParts <= 10
    PROVE  Kept(count) = 0..(count - 1)
<1> USE RowFacts
<1>1. ASSUME NEW i \in Present
      PROVE  Cardinality({j \in Present : Before(j, i)}) < count <=> i < count
  <2> DEFINE L == {j \in Present : Before(j, i)}
  <2>1. L = {j \in Present : j < i}
    BY NamesInOrder
  <2>2. i \in Nat
    OBVIOUS
  <2> HIDE DEF L
  <2>3. CASE i < count
    <3>1. L = 0..(i - 1)
      <4>1. \A j \in L : j \in 0..(i - 1)
        BY <2>1, <2>2
      <4>2. \A j \in 0..(i - 1) : j \in 0..(count - 1) /\ j < i
        BY <2>2, <2>3
      <4>3. \A j \in 0..(i - 1) : j \in L
        BY <2>1, <4>2
      <4>4. QED BY <4>1, <4>3
    <3>2. Cardinality(L) = i
      BY <2>2, <3>1, FirstOnes
    <3>3. QED BY <2>3, <3>2 DEF L
  <2>4. CASE ~(i < count)
    <3>1. 0..(count - 1) \subseteq L
      BY <2>1, <2>2, <2>4
    <3>2. L \in SUBSET (0..(MaxParts - 1)) /\ IsFiniteSet(0..(MaxParts - 1))
      BY <2>1, FirstOnes
    <3>3. IsFiniteSet(L) /\ Cardinality(L) \in Nat
      BY <3>2, FS_Subset, FS_CardinalityType
    <3>4. Cardinality(0..(count - 1)) = count /\ Cardinality(0..(count - 1)) <= Cardinality(L)
      BY <3>1, <3>3, FirstOnes, FS_Subset
    <3>5. QED BY <2>4, <3>3, <3>4 DEF L
  <2>5. QED BY <2>3, <2>4
<1>2. Kept(count) = {i \in Present : i < count}
  BY <1>1 DEF Kept
<1>3. QED BY <1>2

\* The first of the functions that read a row finds it, whatever is left behind.
LEMMA OneFindsLast ==
    ASSUME SplitInv, count # 0
    PROVE  CombineOne(count) = version
<1> USE RowFacts
<1>1. IsFiniteSet(Present) /\ Cardinality(Present) \in Nat
  <2>1. IsFiniteSet(0..(MaxParts - 1))
    BY FirstOnes
  <2>2. Present \in SUBSET (0..(MaxParts - 1))
    OBVIOUS
  <2>3. QED BY <2>1, <2>2, FS_Subset, FS_CardinalityType
<1>2. Cardinality(0..(count - 1)) = count
  BY FirstOnes
<1>3. Cardinality(0..(count - 1)) <= Cardinality(Present)
  BY <1>1, FS_Subset
<1>4. ~(count > Cardinality(Present))
  BY <1>1, <1>2, <1>3
<1>5. QED BY <1>4, DecodesLast DEF CombineOne

LEMMA AllFindsLast ==
    ASSUME SplitInv, count # 0, MaxParts <= 10
    PROVE  CombineAll(count) = version
<1> USE RowFacts
<1>1. Kept(count) = 0..(count - 1)
  BY KeepsLast
<1>2. Cardinality(0..(count - 1)) = count
  BY FirstOnes
<1>3. {j \in Kept(count) : j < Cardinality(Kept(count))} = 0..(count - 1)
  BY <1>1, <1>2
<1>4. QED BY <1>3, DecodesLast DEF CombineAll

\* Neither function makes up a row.
LEMMA CombinesNoOther ==
    ASSUME SplitInv, NEW n \in Nat
    PROVE  /\ CombineOne(n) # Failed => count # 0 /\ CombineOne(n) = version
           /\ CombineAll(n) # Failed => count # 0 /\ CombineAll(n) = version
           /\ CombineOne(n) \in Failed..MaxVersion /\ CombineAll(n) \in Failed..MaxVersion
<1> USE SplitConstants
<1>1. Present \subseteq Nums /\ Kept(n) \subseteq Nums
  BY DEF Present, Kept
<1>2. CombineOne(n) # Failed => count # 0 /\ CombineOne(n) = version
  <2> SUFFICES ASSUME CombineOne(n) # Failed PROVE count # 0 /\ CombineOne(n) = version
    OBVIOUS
  <2>1. 0..(n - 1) \in SUBSET Nums /\ CombineOne(n) = Decode({<<i, parts[i]>> : i \in 0..(n - 1)})
    BY <1>1 DEF CombineOne
  <2>2. QED BY <2>1, DecodesNoOther
<1>3. CombineAll(n) # Failed => count # 0 /\ CombineAll(n) = version
  <2>1. {j \in Kept(n) : j < Cardinality(Kept(n))} \in SUBSET Nums
    BY <1>1
  <2>2. QED BY <2>1, DecodesNoOther DEF CombineAll
<1>4. Failed \in Failed..MaxVersion
  BY DEF Failed
<1>5. CombineOne(n) \in Failed..MaxVersion /\ CombineAll(n) \in Failed..MaxVersion
  BY <1>4, DecodeRange DEF CombineOne, CombineAll
<1>6. QED BY <1>2, <1>3, <1>5

LEMMA SplitStep == SplitInv /\ [SplitNext]_splitVars => SplitInv'
<1> SUFFICES ASSUME SplitInv, [SplitNext]_splitVars PROVE SplitInv'
  OBVIOUS
<1>1. /\ parts \in [Nums -> 0..MaxVersion] /\ count \in 0..MaxParts /\ version \in 0..MaxVersion
      /\ size \in [1..MaxVersion -> 0..MaxParts] /\ call \in [SplitReaders -> CallType]
  BY DEF SplitInv, SplitTypeOK, CallType
<1>2. NoCall \in CallType
  BY SplitConstants DEF NoCall, CallType, Failed
<1>3. SplitTypeOK' <=>
        /\ parts' \in [Nums -> 0..MaxVersion] /\ count' \in 0..MaxParts /\ version' \in 0..MaxVersion
        /\ size' \in [1..MaxVersion -> 0..MaxParts] /\ call' \in [SplitReaders -> CallType]
  BY DEF SplitTypeOK, CallType
<1>4. CASE UNCHANGED splitVars
  BY <1>4 DEF splitVars, SplitInv, SplitTypeOK, RowIsWhole, CountIsCurrent, NoOldVersion, HasRow
<1>5. ASSUME Disturb
      PROVE  call' \in [SplitReaders -> CallType] /\ CountIsCurrent' /\ NoOldVersion'
  <2>1. \A r \in SplitReaders :
          call'[r] = IF call[r].pc = "count" THEN [call[r] EXCEPT !.clean = FALSE] ELSE NoCall
    BY <1>5 DEF Disturb
  <2>2. \A r \in SplitReaders : call'[r] \in CallType
    <3> SUFFICES ASSUME NEW r \in SplitReaders PROVE call'[r] \in CallType
      OBVIOUS
    <3>1. call[r] \in CallType
      BY <1>1
    <3>2. [call[r] EXCEPT !.clean = FALSE] \in CallType
      BY <3>1 DEF CallType
    <3>3. QED BY <1>2, <2>1, <3>2
  <2>3. call' \in [SplitReaders -> CallType]
    BY <1>5, <2>1, <2>2 DEF Disturb
  <2>4. \A r \in SplitReaders :
          /\ call'[r].pc # "done"
          /\ call'[r].pc = "count" => call[r].pc = "count" /\ call'[r].count = call[r].count /\ ~call'[r].clean
    <3> SUFFICES ASSUME NEW r \in SplitReaders
                 PROVE  /\ call'[r].pc # "done"
                        /\ call'[r].pc = "count" =>
                             call[r].pc = "count" /\ call'[r].count = call[r].count /\ ~call'[r].clean
      OBVIOUS
    <3>1. CASE call[r].pc = "count"
      <4>1. call[r] \in CallType /\ call'[r] = [call[r] EXCEPT !.clean = FALSE]
        BY <1>1, <2>1, <3>1
      <4>2. QED BY <3>1, <4>1 DEF CallType
    <3>2. CASE call[r].pc # "count"
      <4>1. call'[r] = NoCall
        BY <2>1, <3>2
      <4>2. QED BY <4>1 DEF NoCall
    <3>3. QED BY <3>1, <3>2
  <2>5. QED BY <2>3, <2>4 DEF CountIsCurrent, NoOldVersion, HasRow, SplitInv
<1>6. ASSUME NEW n \in 1..MaxParts, SetXconfCompressedData(n) PROVE SplitInv'
  <2>1. version' = version + 1 /\ version' \in 1..MaxVersion /\ count' = n
        /\ size' = [size EXCEPT ![version + 1] = n]
        /\ parts' = [i \in Nums |-> IF i < n THEN version + 1 ELSE parts[i]]
    BY <1>1, <1>6, SplitConstants DEF SetXconfCompressedData
  <2>2. parts' \in [Nums -> 0..MaxVersion]
    <3>1. version + 1 \in 0..MaxVersion
      BY <2>1, SplitConstants
    <3>2. QED BY <1>1, <2>1, <3>1
  <2>3. size' \in [1..MaxVersion -> 0..MaxParts]
    BY <1>1, <2>1, SplitConstants
  <2>4. SplitTypeOK'
    BY <1>1, <1>3, <1>5, <1>6, <2>1, <2>2, <2>3, SplitConstants DEF SetXconfCompressedData
  <2>5. \A v \in 1..version' : size'[v] \in 1..MaxParts
    BY <1>1, <2>1, SplitConstants DEF SplitInv, RowIsWhole
  <2>6. RowIsWhole'
    BY <1>1, <2>1, <2>5, SplitConstants DEF RowIsWhole
  <2>7. QED BY <1>5, <1>6, <2>4, <2>6 DEF SetXconfCompressedData, SplitInv
<1>7. CASE DeleteXconfData
  <2>1. SplitTypeOK'
    BY <1>1, <1>3, <1>5, <1>7, SplitConstants DEF DeleteXconfData
  <2>2. RowIsWhole'
    BY <1>7 DEF DeleteXconfData, SplitInv, RowIsWhole
  <2>3. QED BY <1>5, <1>7, <2>1, <2>2 DEF DeleteXconfData, SplitInv
<1>8. ASSUME NEW r \in SplitReaders, call' = [call EXCEPT ![r] = call'[r]], call'[r] \in CallType,
             UNCHANGED <<parts, count, version, size>>,
             call'[r].pc = "count" => call'[r].count # 0 /\ call'[r].count = count,
             call'[r].pc = "done" /\ call'[r].result # Failed => count # 0 /\ call'[r].result = version
      PROVE  SplitInv'
  <2>1. \A p \in SplitReaders : p # r => call'[p] = call[p]
    BY <1>1, <1>8
  <2>2. SplitTypeOK'
    BY <1>1, <1>3, <1>8
  <2>3. RowIsWhole'
    BY <1>8 DEF SplitInv, RowIsWhole
  <2>4. CountIsCurrent' /\ NoOldVersion'
    BY <1>8, <2>1 DEF SplitInv, CountIsCurrent, NoOldVersion, HasRow
  <2>5. QED BY <2>2, <2>3, <2>4 DEF SplitInv
<1>9. ASSUME NEW r \in SplitReaders, ReadCount(r) PROVE SplitInv'
  <2>1. call'[r] = [pc |-> "count", count |-> count, result |-> 0, clean |-> TRUE]
    BY <1>1, <1>9 DEF ReadCount
  <2>2. call'[r] \in CallType
    BY <1>1, <2>1, SplitConstants DEF CallType, Failed
  <2>3. call' = [call EXCEPT ![r] = call'[r]] /\ UNCHANGED <<parts, count, version, size>> /\ count # 0
    BY <1>9, <2>1 DEF ReadCount
  <2>4. call'[r].pc = "count" /\ call'[r].count = count
    BY <2>1
  <2>5. QED BY <1>8, <2>2, <2>3, <2>4
<1>10. ASSUME NEW r \in SplitReaders, ReadParts(r) PROVE SplitInv'
  <2>1. call[r].count \in Nat
    BY <1>1, SplitConstants DEF CallType
  <2>2. PICK x \in Failed..MaxVersion :
          /\ call' = [call EXCEPT ![r].pc = "done", ![r].result = x]
          /\ x # Failed => count # 0 /\ x = version
    BY <1>10, <2>1, CombinesNoOther DEF ReadParts
  <2>3. call'[r] = [call[r] EXCEPT !.pc = "done", !.result = x]
    BY <1>1, <2>2
  <2>4. call'[r] \in CallType
    BY <1>1, <2>3 DEF CallType
  <2>5. call'[r].pc = "done" /\ call'[r].result = x
    BY <1>1, <2>3 DEF CallType
  <2>6. call' = [call EXCEPT ![r] = call'[r]]
    BY <1>1, <2>2, <2>3
  <2>7. QED BY <1>8, <1>10, <2>2, <2>4, <2>5, <2>6 DEF ReadParts
<1>11. ASSUME NEW r \in SplitReaders, ReturnRow(r) PROVE SplitInv'
  <2>1. call'[r] = NoCall /\ NoCall.pc = "idle"
    BY <1>1, <1>11 DEF ReturnRow, NoCall
  <2>2. QED BY <1>2, <1>8, <1>11, <2>1 DEF ReturnRow
<1>12. QED BY <1>4, <1>6, <1>7, <1>9, <1>10, <1>11 DEF SplitNext

(* A reader of a split row never returns a mixture of two versions, an     *)
(* older version or a deleted row, however many parts there are and        *)
(* whatever earlier writes left behind.                                    *)
THEOREM NoOldVersionRead == SplitSpec => []NoOldVersion
<1>1. SplitInv => NoOldVersion
  BY DEF SplitInv
<1>2. QED BY <1>1, SplitInitInv, SplitStep, PTL DEF SplitSpec

(* With at most ten parts, whose names sort as their numbers do, a call    *)
(* that no write overlaps finds the row.                                   *)
THEOREM SplitRowsAreReadBack == ASSUME MaxParts <= 10 PROVE SplitSpec => []SplitRowsReadBack
<1> DEFINE Inv == SplitInv /\ QuietReadSucceeds
<1>1. SplitInit => Inv
  BY SplitInitInv DEF SplitInit, NoCall, QuietReadSucceeds, HasRow
<1>2. Inv /\ [SplitNext]_splitVars => Inv'
  <2> SUFFICES ASSUME SplitInv, QuietReadSucceeds, [SplitNext]_splitVars PROVE QuietReadSucceeds'
    BY SplitStep
  <2>1. call \in [SplitReaders -> CallType]
    BY DEF SplitInv, SplitTypeOK, CallType
  <2>2. CASE UNCHANGED splitVars
    BY <2>2 DEF splitVars, QuietReadSucceeds, HasRow
  <2>3. ASSUME Disturb PROVE QuietReadSucceeds'
    <3>1. \A r \in SplitReaders : call'[r].pc # "done"
      BY <2>1, <2>3 DEF Disturb, NoCall, CallType
    <3>2. QED BY <3>1 DEF QuietReadSucceeds, HasRow
  <2>4. ASSUME NEW r \in SplitReaders, ReadParts(r) PROVE QuietReadSucceeds'
    <3>1. \A p \in SplitReaders : p # r => call'[p] = call[p]
      BY <2>1, <2>4 DEF ReadParts
    <3>2. call'[r].clean = call[r].clean
          /\ call'[r].result = IF r = "GetOne" THEN CombineOne(call[r].count) ELSE CombineAll(call[r].count)
      BY <2>1, <2>4 DEF ReadParts, CallType
    <3>3. call[r].clean => call[r].count = count /\ count # 0
      BY <2>4 DEF ReadParts, SplitInv, CountIsCurrent
    <3>4. call[r].clean => call'[r].result = version
      BY <3>2, <3>3, OneFindsLast, AllFindsLast
    <3>5. QED BY <2>4, <3>1, <3>2, <3>4 DEF ReadParts, QuietReadSucceeds, HasRow
  <2>5. ASSUME NEW r \in SplitReaders, ReadCount(r) \/ ReturnRow(r) PROVE QuietReadSucceeds'
    BY <2>1, <2>5 DEF ReadCount, ReturnRow, NoCall, QuietReadSucceeds, HasRow
  <2>6. QED BY <2>2, <2>3, <2>4, <2>5 DEF SplitNext, SetXconfCompressedData, DeleteXconfData
<1>3. Inv => SplitRowsReadBack
  BY DEF SplitInv, SplitRowsReadBack
<1>4. QED BY <1>1, <1>2, <1>3, PTL DEF SplitSpec

-----------------------------------------------------------------------------
(* AdminTables: the inductive invariant.                                   *)

RowSet == {None} \cup Drafts[topic] \cup {Encoded(d) : d \in Drafts[topic]}
Validated == [key : Keys, row : Drafts[topic], unseen : SUBSET Keys]
Waits(h) == pending[h] # <<>>
Held(h) == pending[h][1]
Waiting == {h \in Hosts : Waits(h)}

AdminShape ==
  /\ topic \in Tables
  /\ table \in [Keys -> RowSet] /\ cached \in [Hosts -> [Keys -> RowSet]]
  /\ pending \in [Hosts -> {<<>>} \cup {<<p>> : p \in Validated}]
  /\ blind \subseteq SUBSET Keys

(* Every host that waits may still save, beyond the bound on edits.        *)
EditsBounded ==
  edits \in Nat /\ edits + Cardinality(Waiting) <= MaxEdits + Cardinality(Hosts)

(* What the validations demand of a row by itself.                         *)
Fine(r) ==
  /\ topic = "list" =>
       /\ r.type = "IP_LIST" => \A s \in r.data : Covers[s] # {}
       /\ r.type = "MAC_LIST" => r.data \subseteq MacAddresses
  /\ topic = "telemetry" =>
       \A i, j \in DOMAIN r.elements : i < j => r.elements[i] # r.elements[j]
  /\ topic = "template" => r.class # "" /\ r.actionType # ""
  /\ topic = "config" => r.models # {} /\ r.app \in AppTypes
  /\ topic = "setting" => r.go \in {"float64", "bool", "string"}

RowsFine ==
  /\ \A k \in Keys : table[k] # None => Fine(table[k])
  /\ \A h \in Hosts : Waits(h) => Fine(Encoded(Held(h).row))

(* A validated row conflicts only with rows that its host had not seen, or *)
(* that were written since.                                                *)
ConflictsUnseen ==
  \A h \in Hosts : Waits(h) =>
    \A k \in Keys \ {Held(h).key} :
      table[k] # None /\ Conflict(Encoded(Held(h).row), table[k]) => k \in Held(h).unseen

AdminInv == AdminShape /\ EditsBounded /\ RowsFine /\ ConflictsUnseen /\ ConflictsWereBlind

LEMMA AdminInitInv == AdminInit => AdminInv
<1> SUFFICES ASSUME AdminInit PROVE AdminInv
  OBVIOUS
<1>1. AdminShape
  BY DEF AdminInit, AdminShape, RowSet
<1>2. \A h \in Hosts : ~Waits(h)
  BY DEF AdminInit, Waits
<1>3. EditsBounded
  <2>1. Waiting = {}
    BY <1>2 DEF Waiting
  <2>2. Cardinality({}) = 0 /\ Cardinality(Hosts) \in Nat
    BY AdminConstants, FS_EmptySet, FS_CardinalityType
  <2>3. edits = 0 /\ MaxEdits \in Nat
    BY AdminConstants DEF AdminInit
  <2>4. QED BY <2>1, <2>2, <2>3 DEF EditsBounded
<1>4. RowsFine /\ ConflictsUnseen /\ ConflictsWereBlind
  BY <1>2 DEF AdminInit, RowsFine, ConflictsUnseen, ConflictsWereBlind
<1>5. QED BY <1>1, <1>3, <1>4 DEF AdminInv

LEMMA ConflictSymmetric == ASSUME NEW r, NEW s PROVE Conflict(r, s) <=> Conflict(s, r)
<1>1. CASE topic = "list"
  BY <1>1 DEF Conflict
<1>2. CASE topic = "config"
  BY <1>2 DEF Conflict
<1>3. CASE topic = "rule"
  BY <1>3 DEF Conflict
<1>4. CASE topic = "telemetry2"
  BY <1>4 DEF Conflict
<1>5. CASE topic \notin {"list", "config", "rule", "telemetry2"}
  BY <1>5 DEF Conflict
<1>6. QED BY <1>1, <1>2, <1>3, <1>4, <1>5

\* What a host that waits holds.
LEMMA HeldType ==
    ASSUME AdminShape, NEW h \in Hosts, Waits(h)
    PROVE  Held(h) \in Validated /\ pending[h] = <<Held(h)>>
BY DEF AdminShape, Waits, Held

LEMMA SettingIsSome == ASSUME NEW g, NEW v PROVE [go |-> g, value |-> v] # None
<1>1. DOMAIN None = {"none"}
  BY DEF None
<1>2. DOMAIN [go |-> g, value |-> v] = {"go", "value"}
  OBVIOUS
<1>3. QED BY <1>1, <1>2

\* Validations look at the row by itself first.
LEMMA ValidIsFine ==
    ASSUME AdminShape, NEW h \in Hosts, NEW k \in Keys, NEW d \in Drafts[topic], Valid(h, k, d)
    PROVE  Fine(Encoded(d))
<1> USE AdminConstants DEF AdminShape
<1>1. CASE topic = "list"
  BY <1>1 DEF Valid, ValidateList, ValidateListData, ValidateListDataForAdmin, ParseIP, NewIpAddress, Fine, Encoded
<1>2. CASE topic = "config"
  BY <1>2 DEF Valid, ValidateConfig, ValidateApplicationType, Fine, Encoded
<1>3. CASE topic = "template"
  BY <1>3 DEF Valid, ValidateTemplate, IsValidApplicableActionType, isValidApplicableClass, Fine, Encoded
<1>4. CASE topic = "telemetry"
  BY <1>4 DEF Valid, ValidateTelemetryProfile, EqualTelemetryData, Fine, Encoded
<1>5. CASE topic = "setting"
  <2>1. d = [go |-> d.go, value |-> d.value] /\ d.go \in {"int", "float64", "bool", "string", "time"}
    BY <1>5
  <2>2. d # None
    BY <2>1, SettingIsSome
  <2>3. Encoded(d) = [d EXCEPT !.go = IF @ = "int" THEN "float64" ELSE IF @ = "time" THEN "string" ELSE @]
    BY <1>5, <2>2 DEF Encoded
  <2>4. Encoded(d).go = IF d.go = "int" THEN "float64" ELSE IF d.go = "time" THEN "string" ELSE d.go
    BY <2>1, <2>3
  <2>5. QED BY <1>5, <2>1, <2>4 DEF Fine
<1>6. CASE topic \in {"rule", "telemetry2"}
  BY <1>6 DEF Fine
<1>7. QED BY <1>1, <1>2, <1>3, <1>4, <1>5, <1>6

\* A row that was validated conflicts with none that its host sees.
LEMMA ValidIsClear ==
    ASSUME AdminShape, NEW h \in Hosts, NEW k \in Keys, NEW d \in Drafts[topic], Valid(h, k, d),
           NEW j \in Keys \ {k}, table[j] # None, Encoded(cached[h][j]) = table[j]
    PROVE  ~Conflict(Encoded(d), table[j])
<1> USE AdminConstants DEF AdminShape
<1>1. CASE topic \in {"list", "config", "rule", "telemetry2"}
  <2>1. cached[h][j] = table[j] /\ j \in RowsOf(h) \ {k} /\ Encoded(d) = d
    BY <1>1 DEF Encoded, RowsOf
  <2>2. CASE topic = "list"
    BY <2>1, <2>2 DEF Valid, ValidateList, ValidateDataIntersection, GetGenericNamedListListsByTypeDB, Conflict
  <2>3. CASE topic = "config"
    BY <2>1, <2>3 DEF Valid, ValidateName, Conflict
  <2>4. CASE topic = "rule"
    BY <2>1, <2>4 DEF Valid, ValidateRuleName, Conflict
  <2>5. CASE topic = "telemetry2"
    BY <2>1, <2>5 DEF Valid, ValidateAllTelemetryTwo, Conflict
  <2>6. QED BY <1>1, <2>2, <2>3, <2>4, <2>5
<1>2. CASE topic \in {"template", "telemetry", "setting"}
  BY <1>2 DEF Conflict
<1>3. QED BY <1>1, <1>2

\* The hosts that wait are told of a change, and nothing else changes for them.
LEMMA MissedTells ==
    ASSUME AdminShape, NEW h \in Hosts, NEW k \in Keys, NEW g \in Hosts, g # h
    PROVE  /\ Missed(h, k)[g] = <<>> <=> ~Waits(g)
           /\ Waits(g) => /\ Missed(h, k)[g][1] = [Held(g) EXCEPT !.unseen = @ \cup {k}]
                          /\ Missed(h, k)[g] \in {<<p>> : p \in Validated}
<1>1. Missed(h, k)[g] = IF pending[g] = <<>> THEN <<>> ELSE <<[pending[g][1] EXCEPT !.unseen = @ \cup {k}]>>
  BY DEF Missed
<1>2. CASE Waits(g)
  <2>1. Held(g) \in Validated
    BY <1>2, HeldType
  <2>2. [Held(g) EXCEPT !.unseen = @ \cup {k}] \in Validated
    BY <2>1 DEF Validated
  <2>3. Missed(h, k)[g] = <<[Held(g) EXCEPT !.unseen = @ \cup {k}]>>
    BY <1>1, <1>2 DEF Waits, Held
  <2>4. QED BY <1>2, <2>2, <2>3
<1>3. CASE ~Waits(g)
  BY <1>1, <1>3 DEF Waits
<1>4. QED BY <1>2, <1>3

\* What the steps that leave the topic and a row alone leave alone with them.
LEMMA SameTopic ==
    ASSUME topic' = topic
    PROVE  /\ RowSet' = RowSet /\ Validated' = Validated
           /\ \A r : Encoded(r)' = Encoded(r) /\ (Fine(r)' <=> Fine(r))
           /\ \A r, s : Conflict(r, s)' <=> Conflict(r, s)
<1>1. RowSet' = RowSet /\ Validated' = Validated /\ \A r : Encoded(r)' = Encoded(r)
  BY DEF RowSet, Validated, Encoded
<1>2. \A r : Fine(r)' <=> Fine(r)
  BY DEF Fine
<1>3. \A r, s : Conflict(r, s)' <=> Conflict(r, s)
  BY DEF Conflict
<1>4. QED BY <1>1, <1>2, <1>3

LEMMA WaitingCounted ==
    ASSUME NEW W \in SUBSET Hosts, NEW h \in Hosts
    PROVE  /\ Cardinality(W) \in Nat /\ Cardinality(Hosts) \in Nat /\ Cardinality(W) <= Cardinality(Hosts)
           /\ h \in W => Cardinality(W \ {h}) = Cardinality(W) - 1
<1>1. IsFiniteSet(Hosts) /\ IsFiniteSet(W)
  BY AdminConstants, FS_Subset
<1>2. QED BY <1>1, FS_CardinalityType, FS_Subset, FS_RemoveElement

\* The steps that change neither the database nor what is validated.
Aside ==
  \/ \E h \in Hosts, m \in Models : SetOneModel(h, m) \/ DeleteOneModel(h, m)
  \/ \E h \in Hosts, k \in Keys : Refresh(h, k)
  \/ \E h \in Hosts : RefreshModels(h)
  \/ UNCHANGED adminVars

LEMMA AsideKeeps ==
    ASSUME Aside
    PROVE  UNCHANGED <<topic, table, pending, blind>> /\ edits' \in {edits, edits + 1}
           /\ (edits' # edits => edits < MaxEdits)
BY DEF Aside, SetOneModel, DeleteOneModel, Refresh, RefreshModels, adminVars

LEMMA AdminCases ==
    ASSUME [AdminNext]_adminVars
    PROVE  \/ Aside
           \/ \E h \in Hosts, k \in Keys, d \in Drafts[topic] : Validate(h, k, d)
           \/ \E h \in Hosts : AdminSetOne(h)
           \/ \E h \in Hosts, k \in Keys : AdminDeleteOne(h, k)
BY DEF AdminNext, Aside

LEMMA AdminShapeStep == AdminInv /\ [AdminNext]_adminVars => AdminShape'
<1> SUFFICES ASSUME AdminInv, [AdminNext]_adminVars PROVE AdminShape'
  OBVIOUS
<1>1. AdminShape
  BY DEF AdminInv
<1>2. topic' = topic
  BY DEF AdminNext, Validate, AdminSetOne, AdminDeleteOne, SetOneModel, DeleteOneModel, Refresh, RefreshModels,
         adminVars
<1>3. RowSet' = RowSet /\ Validated' = Validated /\ Drafts[topic] \subseteq RowSet /\ None \in RowSet
      /\ \A d \in Drafts[topic] : Encoded(d) \in RowSet
  BY <1>2, SameTopic DEF RowSet
<1>4. CASE Aside
  <2>1. cached' \in [Hosts -> [Keys -> RowSet]]
    <3>1. cached' = cached \/ \E h \in Hosts, k \in Keys : cached' = [cached EXCEPT ![h][k] = table[k]]
      BY <1>4 DEF Aside, SetOneModel, DeleteOneModel, Refresh, RefreshModels, adminVars
    <3>2. cached \in [Hosts -> [Keys -> RowSet]] /\ table \in [Keys -> RowSet]
      BY <1>1 DEF AdminShape
    <3>3. QED BY <3>1, <3>2
  <2>2. QED BY <1>1, <1>3, <1>4, <2>1, AsideKeeps DEF AdminShape
<1>5. ASSUME NEW h \in Hosts, NEW k \in Keys, NEW d \in Drafts[topic], Validate(h, k, d) PROVE AdminShape'
  <2>1. [key |-> k, row |-> d, unseen |-> Unseen(h)] \in Validated
    BY DEF Validated, Unseen
  <2>2. QED BY <1>1, <1>3, <1>5, <2>1 DEF Validate, AdminShape
<1>6. ASSUME NEW h \in Hosts, NEW k \in Keys, NEW b \in BOOLEAN,
             pending' = IF b THEN Missed(h, k) ELSE [Missed(h, k) EXCEPT ![h] = pending[h]]
      PROVE  pending' \in [Hosts -> {<<>>} \cup {<<p>> : p \in Validated}]
  <2>1. Missed(h, k)[h] = <<>>
    BY DEF Missed
  <2>2. \A g \in Hosts : g # h => Missed(h, k)[g] \in {<<>>} \cup {<<p>> : p \in Validated}
    BY <1>1, MissedTells
  <2>3. Missed(h, k) \in [Hosts -> {<<>>} \cup {<<p>> : p \in Validated}]
    BY <2>1, <2>2 DEF Missed
  <2>4. pending[h] \in {<<>>} \cup {<<p>> : p \in Validated}
    BY <1>1 DEF AdminShape
  <2>5. QED BY <1>6, <2>3, <2>4
<1>7. ASSUME NEW h \in Hosts, AdminSetOne(h) PROVE AdminShape'
  <2>1. Held(h) \in Validated /\ Waits(h)
    BY <1>1, <1>7, HeldType DEF AdminSetOne, Waits
  <2> DEFINE p == Held(h)
  <2>2. p.key \in Keys /\ p.row \in Drafts[topic] /\ p.unseen \subseteq Keys
    BY <2>1 DEF Validated
  <2>3. /\ table' = [table EXCEPT ![p.key] = Encoded(p.row)]
        /\ cached' = [cached EXCEPT ![h][p.key] = p.row]
        /\ pending' = Missed(h, p.key)
        /\ blind' = {b \in blind : p.key \notin b} \cup {{p.key, j} : j \in p.unseen \ {p.key}}
    BY <1>7 DEF AdminSetOne, Held
  <2> HIDE DEF p
  <2>4. table' \in [Keys -> RowSet] /\ cached' \in [Hosts -> [Keys -> RowSet]]
    BY <1>1, <1>3, <2>2, <2>3 DEF AdminShape
  <2>5. blind' \subseteq SUBSET Keys
    BY <1>1, <2>2, <2>3 DEF AdminShape
  <2>6. pending' \in [Hosts -> {<<>>} \cup {<<q>> : q \in Validated}]
    BY <1>6, <2>2, <2>3
  <2>7. QED BY <1>1, <1>2, <1>3, <2>4, <2>5, <2>6 DEF AdminShape
<1>8. ASSUME NEW h \in Hosts, NEW k \in Keys, AdminDeleteOne(h, k) PROVE AdminShape'
  <2>1. table' \in [Keys -> RowSet] /\ cached' \in [Hosts -> [Keys -> RowSet]]
    BY <1>1, <1>3, <1>8 DEF AdminShape, AdminDeleteOne
  <2>2. pending' \in [Hosts -> {<<>>} \cup {<<q>> : q \in Validated}]
    BY <1>6, <1>8 DEF AdminDeleteOne
  <2>3. QED BY <1>1, <1>2, <1>3, <1>8, <2>1, <2>2 DEF AdminShape, AdminDeleteOne
<1>9. QED BY <1>4, <1>5, <1>7, <1>8, AdminCases

LEMMA EditsStep == AdminInv /\ [AdminNext]_adminVars => EditsBounded'
<1> SUFFICES ASSUME AdminInv, [AdminNext]_adminVars PROVE EditsBounded'
  OBVIOUS
<1>1. AdminShape /\ EditsBounded
  BY DEF AdminInv
<1>2. Waiting \in SUBSET Hosts /\ Waiting' \in SUBSET Hosts /\ MaxEdits \in Nat
  BY AdminConstants DEF Waiting
<1>3. ASSUME NEW h \in Hosts, edits < MaxEdits, edits' \in {edits, edits + 1} PROVE EditsBounded'
  <2>1. Cardinality(Waiting') \in Nat /\ Cardinality(Hosts) \in Nat /\ Cardinality(Waiting') <= Cardinality(Hosts)
    BY <1>2, <1>3, WaitingCounted
  <2>2. edits' \in Nat /\ edits' <= MaxEdits
    BY <1>1, <1>2, <1>3 DEF EditsBounded
  <2>3. QED BY <1>2, <2>1, <2>2 DEF EditsBounded
<1>4. CASE Aside
  <2>1. Waiting' = Waiting
    BY <1>4, AsideKeeps DEF Waiting, Waits
  <2>2. CASE edits' = edits
    BY <1>1, <2>1, <2>2 DEF EditsBounded
  <2>3. CASE edits' # edits
    <3>1. CASE Hosts = {}
      BY <1>1, <1>4, <2>3, <3>1 DEF Aside, SetOneModel, DeleteOneModel, Refresh, RefreshModels, adminVars
    <3>2. QED BY <1>3, <1>4, <2>3, <3>1, AsideKeeps
  <2>4. QED BY <2>2, <2>3
<1>5. ASSUME NEW h \in Hosts, NEW k \in Keys, NEW d \in Drafts[topic], Validate(h, k, d) PROVE EditsBounded'
  BY <1>3, <1>5 DEF Validate
<1>6. ASSUME NEW h \in Hosts, AdminSetOne(h) PROVE EditsBounded'
  <2>1. h \in Waiting /\ Held(h).key \in Keys
    BY <1>1, <1>6, HeldType DEF AdminSetOne, Waiting, Waits, Validated
  <2>2. \A g \in Hosts : Waits(g)' <=> g # h /\ Waits(g)
    BY <1>1, <1>6, <2>1, MissedTells DEF AdminSetOne, Waits, Held, Missed
  <2>3. Waiting' = Waiting \ {h}
    BY <2>2 DEF Waiting
  <2>4. QED BY <1>1, <1>2, <1>6, <2>1, <2>3, WaitingCounted DEF AdminSetOne, EditsBounded
<1>7. ASSUME NEW h \in Hosts, NEW k \in Keys, AdminDeleteOne(h, k) PROVE EditsBounded'
  BY <1>3, <1>7 DEF AdminDeleteOne
<1>8. QED BY <1>4, <1>5, <1>6, <1>7, AdminCases

LEMMA FineStep == AdminInv /\ [AdminNext]_adminVars => RowsFine'
<1> SUFFICES ASSUME AdminInv, [AdminNext]_adminVars PROVE RowsFine'
  OBVIOUS
<1>1. AdminShape /\ RowsFine
  BY DEF AdminInv
<1>2. topic' = topic
  BY DEF AdminNext, Validate, AdminSetOne, AdminDeleteOne, SetOneModel, DeleteOneModel, Refresh, RefreshModels,
         adminVars
<1>3. \A r : Encoded(r)' = Encoded(r) /\ (Fine(r)' <=> Fine(r))
  BY <1>2, SameTopic
<1>4. ASSUME NEW h \in Hosts, NEW k \in Keys, NEW g \in Hosts, g # h, pending'[g] = Missed(h, k)[g]
      PROVE  (Waits(g)' <=> Waits(g)) /\ (Waits(g) => Held(g)'.row = Held(g).row)
  <2>1. Waits(g)' <=> Waits(g)
    BY <1>1, <1>4, MissedTells DEF Waits
  <2>2. ASSUME Waits(g) PROVE Held(g)'.row = Held(g).row
    <3>1. Held(g)' = [Held(g) EXCEPT !.unseen = @ \cup {k}]
      BY <1>1, <1>4, <2>2, MissedTells DEF Held
    <3>2. Held(g) \in Validated
      BY <1>1, <2>2, HeldType
    <3>3. QED BY <3>1, <3>2 DEF Validated
  <2>3. QED BY <2>1, <2>2
<1>5. \A g \in Hosts : Waits(g) => Fine(Encoded(Held(g).row))
  BY <1>1 DEF RowsFine
<1>6. CASE Aside
  BY <1>1, <1>3, <1>6, AsideKeeps DEF RowsFine, Waits, Held
<1>7. ASSUME NEW h \in Hosts, NEW k \in Keys, NEW d \in Drafts[topic], Validate(h, k, d) PROVE RowsFine'
  <2>1. Fine(Encoded(d))
    BY <1>1, <1>7, ValidIsFine DEF Validate
  <2>2. pending' = [pending EXCEPT ![h] = <<[key |-> k, row |-> d, unseen |-> Unseen(h)]>>] /\ table' = table
    BY <1>7 DEF Validate
  <2>3. Held(h)'.row = d
    BY <1>1, <2>2 DEF Held, AdminShape
  <2>4. \A g \in Hosts : g # h => (Waits(g)' <=> Waits(g)) /\ Held(g)' = Held(g)
    BY <1>1, <2>2 DEF Held, Waits, AdminShape
  <2>5. \A g \in Hosts : Waits(g)' => Fine(Encoded(Held(g)'.row))
    BY <1>5, <2>1, <2>3, <2>4
  <2>6. QED BY <1>1, <1>3, <2>2, <2>5 DEF RowsFine
<1>8. ASSUME NEW h \in Hosts, AdminSetOne(h) PROVE RowsFine'
  <2>1. Waits(h) /\ Held(h).key \in Keys
    BY <1>1, <1>8, HeldType DEF AdminSetOne, Waits, Validated
  <2>2. table' = [table EXCEPT ![Held(h).key] = Encoded(Held(h).row)] /\ pending' = Missed(h, Held(h).key)
    BY <1>8 DEF AdminSetOne, Held
  <2>3. \A k \in Keys : table'[k] # None => Fine(table'[k])
    BY <1>1, <1>5, <2>1, <2>2 DEF RowsFine, AdminShape
  <2>4. ~Waits(h)'
    BY <2>2 DEF Waits, Missed
  <2>5. \A g \in Hosts : Waits(g)' => Fine(Encoded(Held(g)'.row))
    BY <1>4, <1>5, <2>1, <2>2, <2>4
  <2>6. QED BY <1>3, <2>3, <2>5 DEF RowsFine
<1>9. ASSUME NEW h \in Hosts, NEW k \in Keys, AdminDeleteOne(h, k) PROVE RowsFine'
  <2>1. table' = [table EXCEPT ![k] = None] /\ pending' = [Missed(h, k) EXCEPT ![h] = pending[h]]
        /\ pending[h] = <<>>
    BY <1>9 DEF AdminDeleteOne
  <2>2. \A j \in Keys : table'[j] # None => Fine(table'[j])
    BY <1>1, <2>1 DEF RowsFine, AdminShape
  <2>3. DOMAIN Missed(h, k) = Hosts
    BY DEF Missed
  <2>4. pending'[h] = <<>> /\ \A g \in Hosts : g # h => pending'[g] = Missed(h, k)[g]
    BY <2>1, <2>3
  <2>5. \A g \in Hosts : Waits(g)' => Fine(Encoded(Held(g)'.row))
    <3>1. ~Waits(h)'
      BY <2>4 DEF Waits
    <3>2. QED BY <1>4, <1>5, <2>4, <3>1
  <2>6. QED BY <1>3, <2>2, <2>5 DEF RowsFine
<1>10. QED BY <1>6, <1>7, <1>8, <1>9, AdminCases

\* A save marks the rows that its validation could not see, and tells the hosts that wait.
LEMMA ClearStep == AdminInv /\ [AdminNext]_adminVars => ConflictsUnseen' /\ ConflictsWereBlind'
<1> SUFFICES ASSUME AdminInv, [AdminNext]_adminVars PROVE ConflictsUnseen' /\ ConflictsWereBlind'
  OBVIOUS
<1>1. AdminShape /\ ConflictsUnseen /\ ConflictsWereBlind
  BY DEF AdminInv
<1>2. topic' = topic
  BY DEF AdminNext, Validate, AdminSetOne, AdminDeleteOne, SetOneModel, DeleteOneModel, Refresh, RefreshModels,
         adminVars
<1>3. (\A r : Encoded(r)' = Encoded(r)) /\ (\A r, s : Conflict(r, s)' <=> Conflict(r, s))
  BY <1>2, SameTopic
<1>4. ASSUME NEW h \in Hosts, NEW k \in Keys, NEW g \in Hosts, g # h, pending'[g] = Missed(h, k)[g]
      PROVE  /\ Waits(g)' <=> Waits(g)
             /\ Waits(g) => /\ Held(g)'.row = Held(g).row /\ Held(g)'.key = Held(g).key
                            /\ Held(g)'.unseen = Held(g).unseen \cup {k}
  <2>1. Waits(g)' <=> Waits(g)
    BY <1>1, <1>4, MissedTells DEF Waits
  <2>2. ASSUME Waits(g)
        PROVE  /\ Held(g)'.row = Held(g).row /\ Held(g)'.key = Held(g).key
               /\ Held(g)'.unseen = Held(g).unseen \cup {k}
    <3>1. Held(g)' = [Held(g) EXCEPT !.unseen = @ \cup {k}]
      BY <1>1, <1>4, <2>2, MissedTells DEF Held
    <3>2. Held(g) \in Validated
      BY <1>1, <2>2, HeldType
    <3>3. QED BY <3>1, <3>2 DEF Validated
  <2>3. QED BY <2>1, <2>2
<1>5. ASSUME NEW h \in Hosts, NEW k \in Keys, ~Waits(h)',
             \A g \in Hosts : g # h => pending'[g] = Missed(h, k)[g],
             \A j \in Keys : j # k => table'[j] = table[j]
      PROVE  ConflictsUnseen'
  <2> SUFFICES ASSUME NEW g \in Hosts, Waits(g)', NEW j \in Keys \ {Held(g)'.key},
                      table'[j] # None, Conflict(Encoded(Held(g)'.row), table'[j])
               PROVE  j \in Held(g)'.unseen
    BY <1>3 DEF ConflictsUnseen
  <2>1. /\ g # h /\ Waits(g) /\ Held(g)'.row = Held(g).row /\ Held(g)'.key = Held(g).key
        /\ Held(g)'.unseen = Held(g).unseen \cup {k}
    BY <1>4, <1>5
  <2>2. CASE j = k
    BY <2>1, <2>2
  <2>3. CASE j # k
    BY <1>1, <1>5, <2>1, <2>3 DEF ConflictsUnseen
  <2>4. QED BY <2>2, <2>3
<1>6. CASE Aside
  BY <1>1, <1>3, <1>6, AsideKeeps DEF ConflictsUnseen, ConflictsWereBlind, Waits, Held
<1>7. ASSUME NEW h \in Hosts, NEW k \in Keys, NEW d \in Drafts[topic], Validate(h, k, d)
      PROVE  ConflictsUnseen' /\ ConflictsWereBlind'
  <2>1. pending' = [pending EXCEPT ![h] = <<[key |-> k, row |-> d, unseen |-> Unseen(h)]>>]
        /\ table' = table /\ blind' = blind /\ Valid(h, k, d)
    BY <1>7 DEF Validate
  <2>2. Held(h)'.row = d /\ Held(h)'.key = k /\ Held(h)'.unseen = Unseen(h)
    BY <1>1, <2>1 DEF Held, AdminShape
  <2>3. \A g \in Hosts : g # h => (Waits(g)' <=> Waits(g)) /\ Held(g)' = Held(g)
    BY <1>1, <2>1 DEF Held, Waits, AdminShape
  <2>4. \A j \in Keys \ {k} : table[j] # None /\ Conflict(Encoded(d), table[j]) => j \in Unseen(h)
    BY <1>1, <2>1, ValidIsClear DEF Unseen
  <2>5. ConflictsUnseen'
    BY <1>1, <1>3, <2>1, <2>2, <2>3, <2>4 DEF ConflictsUnseen
  <2>6. ConflictsWereBlind'
    BY <1>1, <1>3, <2>1 DEF ConflictsWereBlind
  <2>7. QED BY <2>5, <2>6
<1>8. ASSUME NEW h \in Hosts, AdminSetOne(h) PROVE ConflictsUnseen' /\ ConflictsWereBlind'
  <2> DEFINE p == Held(h)
  <2>1. Waits(h) /\ p.key \in Keys
    BY <1>1, <1>8, HeldType DEF AdminSetOne, Waits, Validated
  <2>2. /\ table' = [table EXCEPT ![p.key] = Encoded(p.row)] /\ pending' = Missed(h, p.key)
        /\ blind' = {b \in blind : p.key \notin b} \cup {{p.key, j} : j \in p.unseen \ {p.key}}
    BY <1>8 DEF AdminSetOne, Held
  <2>3. \A j \in Keys \ {p.key} : table[j] # None /\ Conflict(Encoded(p.row), table[j]) => j \in p.unseen
    BY <1>1, <2>1 DEF ConflictsUnseen
  <2> HIDE DEF p
  <2>4. ~Waits(h)'
    BY <2>2 DEF Waits, Missed
  <2>5. table'[p.key] = Encoded(p.row) /\ \A j \in Keys : j # p.key => table'[j] = table[j]
    BY <1>1, <2>1, <2>2 DEF AdminShape
  <2>6. ConflictsUnseen'
    BY <1>5, <2>1, <2>2, <2>4, <2>5
  <2>7. ConflictsWereBlind'
    <3> SUFFICES ASSUME NEW i \in Keys, NEW j \in Keys, i # j, table'[i] # None, table'[j] # None,
                        Conflict(table'[i], table'[j])
                 PROVE  {i, j} \in blind'
      BY <1>3 DEF ConflictsWereBlind
    <3>1. CASE i = p.key
      <4>1. j \in p.unseen \ {p.key}
        BY <2>3, <2>5, <3>1
      <4>2. QED BY <2>2, <3>1, <4>1
    <3>2. CASE j = p.key
      <4>1. Conflict(Encoded(p.row), table[i])
        BY <2>5, <3>2, ConflictSymmetric
      <4>2. i \in p.unseen \ {p.key}
        BY <2>3, <2>5, <3>2, <4>1
      <4>3. {p.key, i} \in blind' /\ {p.key, i} = {i, j}
        BY <2>2, <3>2, <4>2
      <4>4. QED BY <4>3
    <3>3. CASE i # p.key /\ j # p.key
      <4>1. {i, j} \in blind
        BY <1>1, <2>5, <3>3 DEF ConflictsWereBlind
      <4>2. QED BY <2>2, <3>3, <4>1
    <3>4. QED BY <3>1, <3>2, <3>3
  <2>8. QED BY <2>6, <2>7
<1>9. ASSUME NEW h \in Hosts, NEW k \in Keys, AdminDeleteOne(h, k)
      PROVE  ConflictsUnseen' /\ ConflictsWereBlind'
  <2>1. table' = [table EXCEPT ![k] = None] /\ pending' = [Missed(h, k) EXCEPT ![h] = pending[h]]
        /\ pending[h] = <<>> /\ blind' = {b \in blind : k \notin b}
    BY <1>9 DEF AdminDeleteOne
  <2>2. DOMAIN Missed(h, k) = Hosts
    BY DEF Missed
  <2>3. pending'[h] = <<>> /\ \A g \in Hosts : g # h => pending'[g] = Missed(h, k)[g]
    BY <2>1, <2>2
  <2>4. table'[k] = None /\ \A j \in Keys : j # k => table'[j] = table[j]
    BY <1>1, <2>1 DEF AdminShape
  <2>5. ConflictsUnseen'
    BY <1>5, <2>3, <2>4 DEF Waits
  <2>6. ConflictsWereBlind'
    BY <1>1, <1>3, <2>1, <2>4 DEF ConflictsWereBlind
  <2>7. QED BY <2>5, <2>6
<1>10. QED BY <1>6, <1>7, <1>8, <1>9, AdminCases

LEMMA AdminInvariant == AdminSpec => []AdminInv
<1>1. AdminInv /\ [AdminNext]_adminVars => AdminInv'
  BY AdminShapeStep, EditsStep, FineStep, ClearStep DEF AdminInv
<1>2. QED BY <1>1, AdminInitInv, PTL DEF AdminSpec

-----------------------------------------------------------------------------
(* Sequences without repetition, as Validate leaves the elements of a      *)
(* profile.                                                                *)

Elements(s) == {s[i] : i \in DOMAIN s}
Distinct(s) == \A i, j \in DOMAIN s : i < j => s[i] # s[j]

LEMMA DistinctCount ==
    ASSUME NEW S, NEW s \in Seq(S), Distinct(s)
    PROVE  IsFiniteSet(Elements(s)) /\ Cardinality(Elements(s)) = Len(s)
<1>1. DOMAIN s = 1..Len(s) /\ Len(s) \in Nat
  OBVIOUS
<1>2. s \in [1..Len(s) -> Elements(s)]
  BY <1>1 DEF Elements
<1>3. \A i, j \in 1..Len(s) : s[i] = s[j] => i = j
  BY <1>1 DEF Distinct
<1>4. s \in Bijection(1..Len(s), Elements(s))
  BY <1>1, <1>2, <1>3 DEF Bijection, Injection, Surjection, Elements, IsInjective
<1>5. IsFiniteSet(1..Len(s)) /\ Cardinality(1..Len(s)) = Len(s)
  BY <1>1, FS_Interval
<1>6. QED BY <1>4, <1>5, FS_Bijection DEF ExistsBijection

\* Equal pairs of two such sequences are as many as the elements they share.
LEMMA EqualPairs ==
    ASSUME NEW S, NEW s \in Seq(S), Distinct(s), NEW t \in Seq(S), Distinct(t)
    PROVE  Cardinality({p \in (DOMAIN s) \X (DOMAIN t) : s[p[1]] = t[p[2]]})
             = Cardinality(Elements(s) \cap Elements(t))
<1> DEFINE P == {p \in (DOMAIN s) \X (DOMAIN t) : s[p[1]] = t[p[2]]}
           C == Elements(s) \cap Elements(t)
           f == [p \in P |-> s[p[1]]]
<1>1. DOMAIN s = 1..Len(s) /\ DOMAIN t = 1..Len(t) /\ Len(s) \in Nat /\ Len(t) \in Nat
  OBVIOUS
<1>2. \A p \in P : p[1] \in DOMAIN s /\ p[2] \in DOMAIN t /\ s[p[1]] = t[p[2]] /\ p = <<p[1], p[2]>>
  OBVIOUS
<1>3. f \in [P -> C]
  BY <1>2 DEF Elements
<1>4. \A i, j \in DOMAIN s : s[i] = s[j] => i = j
  BY <1>1 DEF Distinct
<1>5. \A i, j \in DOMAIN t : t[i] = t[j] => i = j
  BY <1>1 DEF Distinct
<1>6. \A p, q \in P : f[p] = f[q] => p = q
  BY <1>2, <1>4, <1>5
<1>7. \A c \in C : \E p \in P : f[p] = c
  <2> SUFFICES ASSUME NEW c \in C PROVE \E p \in P : f[p] = c
    OBVIOUS
  <2>1. PICK i \in DOMAIN s, j \in DOMAIN t : c = s[i] /\ c = t[j]
    BY DEF Elements
  <2>2. <<i, j>> \in P /\ f[<<i, j>>] = c
    BY <2>1
  <2>3. QED BY <2>2
<1>8. f \in Bijection(P, C)
  BY <1>3, <1>6, <1>7 DEF Bijection, Injection, Surjection, IsInjective
<1>9. IsFiniteSet(C)
  BY DistinctCount, FS_Subset
<1>10. IsFiniteSet(P) /\ Cardinality(P) = Cardinality(C)
  <2>1. f \in Injection(P, C) /\ f \in Surjection(P, C)
    BY <1>8 DEF Bijection
  <2>2. QED BY <1>9, <2>1, FS_Injection
<1>11. QED BY <1>10

\* Counting equal pairs tells whether the sequences have the same elements.
LEMMA PairsTellEqual ==
    ASSUME NEW S, NEW s \in Seq(S), Distinct(s), NEW t \in Seq(S), Distinct(t)
    PROVE  checkEqualTelemetryElements(s, t) <=> Elements(s) = Elements(t)
<1>1. /\ IsFiniteSet(Elements(s)) /\ Cardinality(Elements(s)) = Len(s)
      /\ IsFiniteSet(Elements(t)) /\ Cardinality(Elements(t)) = Len(t)
  BY DistinctCount
<1>2. Cardinality({p \in (DOMAIN s) \X (DOMAIN t) : s[p[1]] = t[p[2]]})
        = Cardinality(Elements(s) \cap Elements(t))
  BY EqualPairs
<1>3. ASSUME checkEqualTelemetryElements(s, t) PROVE Elements(s) = Elements(t)
  <2>1. Cardinality(Elements(s) \cap Elements(t)) = Len(s) /\ Len(s) = Len(t)
    BY <1>2, <1>3 DEF checkEqualTelemetryElements
  <2>2. Elements(s) = Elements(s) \cap Elements(t)
    BY <1>1, <2>1, FS_Subset
  <2>3. Elements(t) = Elements(s) \cap Elements(t)
    BY <1>1, <2>1, FS_Subset
  <2>4. QED BY <2>2, <2>3
<1>4. ASSUME Elements(s) = Elements(t) PROVE checkEqualTelemetryElements(s, t)
  <2>1. Elements(s) \cap Elements(t) = Elements(s)
    BY <1>4
  <2>2. QED BY <1>1, <1>2, <1>4, <2>1 DEF checkEqualTelemetryElements
<1>5. QED BY <1>3, <1>4

(* Rows of the database are well-formed, and two of them share an address  *)
(* or a name only when one was saved without having seen the other, for    *)
(* any number of hosts that validate and save concurrently.                *)
THEOREM TablesAreConsistent == AdminSpec => []TablesConsistent
<1>1. AdminInv => TablesConsistent
  <2> SUFFICES ASSUME AdminInv PROVE TablesConsistent
    OBVIOUS
  <2>1. edits \in 0..MaxEdits + Cardinality(Hosts)
    <3>1. Waiting \in SUBSET Hosts /\ IsFiniteSet(Hosts) /\ MaxEdits \in Nat
      BY AdminConstants DEF Waiting
    <3>2. Cardinality(Hosts) \in Nat /\ Cardinality(Waiting) \in Nat
      BY <3>1, FS_Subset, FS_CardinalityType
    <3>3. edits \in Nat /\ edits + Cardinality(Waiting) <= MaxEdits + Cardinality(Hosts)
      BY DEF AdminInv, EditsBounded
    <3>4. QED BY <3>1, <3>2, <3>3
  <2>2. ASSUME NEW k \in Keys, table[k] # None, topic = "telemetry"
        PROVE  Cardinality({table[k].elements[i] : i \in DOMAIN table[k].elements}) = Len(table[k].elements)
    <3> DEFINE s == table[k].elements
    <3>1. Distinct(s)
      BY <2>2 DEF AdminInv, RowsFine, Fine, Distinct
    <3>2. table[k] \in Drafts["telemetry"] /\ "telemetry" \in Tables
      BY <2>2 DEF AdminInv, AdminShape, RowSet, Encoded
    <3>3. s \in Seq(Elements(s))
      BY <3>2, AdminConstants DEF Elements
    <3> HIDE DEF s
    <3>4. Cardinality(Elements(s)) = Len(s)
      BY <3>1, <3>3, DistinctCount
    <3>5. QED BY <3>4 DEF Elements, s
  <2>3. AdminTypeOK
    BY <2>1, <2>2 DEF AdminInv, AdminShape, RowsFine, Fine, AdminTypeOK
  <2>4. QED BY <2>3 DEF TablesConsistent, AdminInv
<1>2. QED BY <1>1, AdminInvariant, PTL

(* A row means the same to every host and by every function that reads it, *)
(* for any lists, profiles and settings.                                   *)
THEOREM RowsAreReadSame == AdminSpec => []RowsReadSame
<1>1. AdminInv => TypedListsAgree
  <2> SUFFICES ASSUME AdminInv, topic = "list", NEW h \in Hosts, NEW k \in Keys, cached[h][k] \in {None, table[k]},
                      NEW t \in {"MAC_LIST", "IP_LIST"}
               PROVE  LET l == GetGenericNamedListOneByType(h, k, t)
                      IN  /\ l = GetGenericNamedListOneByTypeNonCached(k, t)
                          /\ l # None /\ cached[h][k] # None => l.data \subseteq GetGenericNamedListSetByType(h, t)
                          /\ l # None /\ t = "IP_LIST" =>
                               /\ \A s \in l.data : Covers[s] # {} /\ \A a \in Covers[s] : IsInIpRange(l, a)
                               /\ ConvertFromIpAddressGroup(ConvertToIpAddressGroup(l)).data = l.data
    BY DEF TypedListsAgree
  <2> DEFINE l == GetGenericNamedListOneByType(h, k, t)
  <2>1. l = OfListType(table[k], t) /\ l = GetGenericNamedListOneByTypeNonCached(k, t)
    BY DEF GetGenericNamedListOneByType, GetGenericNamedListOneByTypeNonCached, GetOne
  <2>2. l # None => l = table[k] /\ table[k].type = t
    BY <2>1 DEF OfListType
  <2> HIDE DEF l
  <2>3. l # None /\ cached[h][k] # None => l.data \subseteq GetGenericNamedListSetByType(h, t)
    BY <2>2 DEF GetGenericNamedListSetByType, GetGenericNamedListListsByTypeDB, RowsOf
  <2>4. ASSUME l # None, t = "IP_LIST", NEW s \in l.data PROVE Covers[s] # {}
    BY <2>2, <2>4 DEF AdminInv, RowsFine, Fine
  <2>5. ASSUME l # None, t = "IP_LIST", NEW s \in l.data, NEW a \in Covers[s] PROVE IsInIpRange(l, a)
    BY <2>5 DEF IsInIpRange, GroupIsInRange, NewIpAddressGroupWithAddrStrings, IsInRange, NewIpAddress
  <2>6. ConvertFromIpAddressGroup(ConvertToIpAddressGroup(l)).data = l.data
    BY DEF ConvertFromIpAddressGroup, ConvertToIpAddressGroup, NewIpAddressGroupWithAddrStrings
  <2>7. QED BY <2>1, <2>3, <2>4, <2>5, <2>6 DEF l
<1>2. AdminInv => ElementsCompared
  <2> SUFFICES ASSUME AdminInv, topic = "telemetry", NEW i \in Keys, NEW j \in Keys,
                      table[i] # None, table[j] # None
               PROVE  checkEqualTelemetryElements(table[i].elements, table[j].elements)
                        <=> {table[i].elements[n] : n \in DOMAIN table[i].elements}
                              = {table[j].elements[n] : n \in DOMAIN table[j].elements}
    BY DEF ElementsCompared
  <2> DEFINE s == table[i].elements
             t == table[j].elements
             S == Elements(s) \cup Elements(t)
  <2>1. Distinct(s) /\ Distinct(t)
    BY DEF AdminInv, RowsFine, Fine, Distinct
  <2>2. table[i] \in Drafts["telemetry"] /\ table[j] \in Drafts["telemetry"] /\ "telemetry" \in Tables
    BY DEF AdminInv, AdminShape, RowSet, Encoded
  <2>3. s \in Seq(Elements(s)) /\ t \in Seq(Elements(t))
    BY <2>2, AdminConstants DEF Elements
  <2> HIDE DEF s, t
  <2>4. s \in Seq(S) /\ t \in Seq(S)
    BY <2>3
  <2> HIDE DEF S
  <2>5. checkEqualTelemetryElements(s, t) <=> Elements(s) = Elements(t)
    BY <2>1, <2>4, PairsTellEqual
  <2>6. QED BY <2>5 DEF Elements, s, t
<1>3. AdminInv => SettingsReadSame
  <2> SUFFICES ASSUME AdminInv, topic = "setting", NEW h \in Hosts, NEW k \in Keys,
                      cached[h][k] # None, Encoded(cached[h][k]) = table[k]
               PROVE  LET s == cached[h][k]
                      IN  /\ s.go \in {"int", "float64"} => GetIntAppSetting(s) = GetIntAppSetting(table[k])
                                                            /\ GetIntAppSetting(s) # Panic
                          /\ s.go = "float64" => GetFloat64AppSetting(s) = GetFloat64AppSetting(table[k])
                          /\ s.go = "bool" => GetBooleanAppSetting(s) = GetBooleanAppSetting(table[k])
                          /\ s.go = "string" => GetStringAppSetting(s) = GetStringAppSetting(table[k])
    BY DEF SettingsReadSame
  <2> DEFINE s == cached[h][k]
             G == {"int", "float64", "bool", "string", "time"}
  <2>1. "setting" \in Tables /\ s \in RowSet
    BY DEF AdminInv, AdminShape
  <2>2. \A d \in Drafts["setting"] : d = [go |-> d.go, value |-> d.value] /\ d.go \in G /\ d.value # Panic
    BY <2>1, AdminConstants
  <2>3. ASSUME NEW d, d = [go |-> d.go, value |-> d.value], d.go \in G
        PROVE  /\ Encoded(d) = [go |-> IF d.go = "int" THEN "float64" ELSE IF d.go = "time" THEN "string" ELSE d.go,
                                value |-> d.value]
    <3>1. d # None
      BY <2>3, SettingIsSome
    <3>2. Encoded(d) = [d EXCEPT !.go = IF @ = "int" THEN "float64" ELSE IF @ = "time" THEN "string" ELSE @]
      BY <3>1 DEF Encoded
    <3>3. QED BY <2>3, <3>2
  <2>4. s = [go |-> s.go, value |-> s.value] /\ s.go \in G /\ s.value # Panic
    <3>1. CASE s \in Drafts[topic]
      BY <2>2, <3>1
    <3>2. CASE s \notin Drafts[topic]
      <4>1. PICK d \in Drafts[topic] : s = Encoded(d)
        BY <2>1, <3>2 DEF RowSet
      <4>2. d = [go |-> d.go, value |-> d.value] /\ d.go \in G /\ d.value # Panic
        BY <2>2
      <4>3. QED BY <2>3, <4>1, <4>2
    <3>3. QED BY <3>1, <3>2
  <2>5. /\ table[k].go = IF s.go = "int" THEN "float64" ELSE IF s.go = "time" THEN "string" ELSE s.go
        /\ table[k].value = s.value
    BY <2>3, <2>4
  <2>6. QED
    BY <2>4, <2>5 DEF GetIntAppSetting, GetFloat64AppSetting, GetBooleanAppSetting, GetStringAppSetting
<1>4. AdminInv => RowsReadSame
  BY <1>1, <1>2, <1>3 DEF RowsReadSame
<1>5. QED BY <1>4, AdminInvariant, PTL

-----------------------------------------------------------------------------
(* QueryPool.                                                              *)

(* Fewer concurrent calls of SetXconfCompressedData than slots.            *)
FewBatches == Cardinality(Batch) < Slots

(* The calls that have put a first, and a second token.                    *)
FirstTokens  == {c \in Calls : pc[c] \in {"holding", "running"}}
SecondTokens == {c \in Batch : pc[c] = "running"}

(* tokens counts the tokens of the calls; nothing is leaked.               *)
TokensCounted == tokens = Cardinality(FirstTokens) + Cardinality(SecondTokens)

PoolInv == PoolTypeOK /\ TokensCounted

(* Both sets are finite, so that their cardinalities are numbers.          *)
LEMMA TokensFinite ==
    /\ IsFiniteSet(FirstTokens) /\ Cardinality(FirstTokens) \in Nat
    /\ IsFiniteSet(SecondTokens) /\ Cardinality(SecondTokens) \in Nat
    /\ IsFiniteSet(Batch) /\ Cardinality(Batch) \in Nat
<1>1. FirstTokens \subseteq Calls /\ SecondTokens \subseteq Batch /\ Batch \subseteq Calls
  BY PoolConstants DEF FirstTokens, SecondTokens
<1>2. IsFiniteSet(Calls)
  BY PoolConstants
<1>3. IsFiniteSet(Batch)
  BY <1>1, <1>2, FS_Subset
<1>4. IsFiniteSet(FirstTokens) /\ IsFiniteSet(SecondTokens)
  BY <1>1, <1>2, <1>3, FS_Subset
<1>5. QED BY <1>3, <1>4, FS_CardinalityType

LEMMA PoolInitInv == PoolInit => PoolInv
<1> SUFFICES ASSUME PoolInit PROVE PoolInv
  OBVIOUS
<1>1. FirstTokens = {} /\ SecondTokens = {}
  BY PoolConstants DEF PoolInit, FirstTokens, SecondTokens
<1>2. Cardinality({}) = 0
  BY FS_EmptySet
<1>3. QED BY <1>1, <1>2, PoolConstants DEF PoolInit, PoolInv, PoolTypeOK, TokensCounted, Steps

(* Every step of a call moves tokens with the sets FirstTokens and SecondTokens.       *)
LEMMA PoolStepInv ==
    ASSUME PoolInv, NEW c \in Calls, Step(c) PROVE PoolInv'
<1> USE DEF PoolInv, PoolTypeOK
<1>0. c \in Batch => c \in Calls
  OBVIOUS
<1>1. CASE Call(c)
  <2>1. FirstTokens' = FirstTokens /\ SecondTokens' = SecondTokens
    BY <1>1, PoolConstants DEF Call, Goto, FirstTokens, SecondTokens
  <2>2. QED BY <1>1, <2>1 DEF Call, Goto, Steps, TokensCounted
<1>2. CASE Enter(c)
  <2>1. FirstTokens' = FirstTokens \cup {c} /\ c \notin FirstTokens /\ SecondTokens' = SecondTokens
    BY <1>2, PoolConstants DEF Enter, Goto, FirstTokens, SecondTokens
  <2>2. Cardinality(FirstTokens') = Cardinality(FirstTokens) + 1
    BY <2>1, TokensFinite, FS_AddElement
  <2>3. tokens' = tokens + 1 /\ tokens' \in 0..Slots
    BY <1>2, PoolConstants DEF Enter, Put
  <2>4. TokensCounted'
    BY <2>1, <2>2, <2>3, TokensFinite DEF TokensCounted
  <2>5. QED BY <1>2, <2>3, <2>4 DEF Enter, Goto, Steps
<1>3. CASE EnterBatch(c)
  <2>1. FirstTokens' = FirstTokens /\ SecondTokens' = SecondTokens \cup {c} /\ c \notin SecondTokens
    BY <1>3, PoolConstants DEF EnterBatch, Goto, FirstTokens, SecondTokens
  <2>2. Cardinality(SecondTokens') = Cardinality(SecondTokens) + 1
    BY <2>1, TokensFinite, FS_AddElement
  <2>3. tokens' = tokens + 1 /\ tokens' \in 0..Slots
    BY <1>3, PoolConstants DEF EnterBatch, Put
  <2>4. TokensCounted'
    BY <2>1, <2>2, <2>3, TokensFinite DEF TokensCounted
  <2>5. QED BY <1>3, <2>3, <2>4 DEF EnterBatch, Goto, Steps
<1>4. CASE Return(c)
  <2>1. FirstTokens' = FirstTokens \ {c} /\ c \in FirstTokens
    BY <1>4, PoolConstants DEF Return, Goto, FirstTokens
  <2>2. Cardinality(FirstTokens') = Cardinality(FirstTokens) - 1
    BY <2>1, TokensFinite, FS_RemoveElement
  <2>3. SecondTokens' = SecondTokens \ {c} /\ (c \in SecondTokens <=> c \in Batch)
    BY <1>4, PoolConstants DEF Return, Goto, SecondTokens
  <2>4. Cardinality(SecondTokens') = Cardinality(SecondTokens) - (IF c \in Batch THEN 1 ELSE 0)
    <3>1. CASE c \in Batch
      BY <2>3, <3>1, TokensFinite, FS_RemoveElement
    <3>2. CASE c \notin Batch
      <4>1. SecondTokens' = SecondTokens
        BY <2>3, <3>2
      <4>2. QED BY <4>1, <3>2, TokensFinite
    <3>3. QED BY <3>1, <3>2
  <2>5. TokensCounted'
    BY <1>4, <2>2, <2>4, TokensFinite DEF TokensCounted, Return
  <2>6. Cardinality(FirstTokens') \in Nat /\ Cardinality(SecondTokens') \in Nat
    <3>1. IsFiniteSet(FirstTokens') /\ IsFiniteSet(SecondTokens')
      BY <2>1, <2>3, TokensFinite, FS_Subset
    <3>2. QED BY <3>1, FS_CardinalityType
  <2>7. tokens' \in 0..Slots
    BY <1>4, <2>5, <2>6, PoolConstants DEF TokensCounted, Return
  <2>8. QED BY <1>4, <2>5, <2>7 DEF Return, Goto, Steps
<1>5. QED BY <1>1, <1>2, <1>3, <1>4 DEF Step

(* The tokens in ConcurrentQueries are those of the running calls.         *)
THEOREM PoolInvariant == PoolSpec => []PoolInv
<1>1. PoolInv /\ UNCHANGED poolVars => PoolInv'
  BY DEF PoolInv, PoolTypeOK, TokensCounted, FirstTokens, SecondTokens, poolVars
<1>2. PoolInv /\ [PoolNext]_poolVars => PoolInv'
  BY <1>1, PoolStepInv DEF PoolNext
<1>3. QED BY <1>2, PoolInitInv, PTL DEF PoolSpec

(* The channel respects its capacity at all times.                         *)
THEOREM PoolTypeCorrect == PoolSpec => []PoolTypeOK
<1>1. PoolInv => PoolTypeOK
  BY DEF PoolInv
<1>2. QED BY <1>1, PoolInvariant, PTL

(* With fewer calls of SetXconfCompressedData than slots the operations of *)
(* the client never wait for each other in a circle.                       *)
THEOREM PoolNotStuck == ASSUME FewBatches PROVE PoolSpec => []NotStuck
<1>1. PoolInv => NotStuck
  <2> SUFFICES ASSUME PoolInv, NEW c \in Calls, pc[c] # "done" PROVE NotStuck
    BY DEF NotStuck
  <2>1. CASE \E d \in Calls : pc[d] \in {"idle", "running"}
    BY <2>1 DEF NotStuck, CanMove
  <2>2. CASE \A d \in Calls : pc[d] \notin {"idle", "running"}
    <3>1. FirstTokens \subseteq Batch /\ SecondTokens = {}
      BY <2>2, PoolConstants DEF FirstTokens, SecondTokens, PoolInv, PoolTypeOK
    <3>2. Cardinality(FirstTokens) <= Cardinality(Batch) /\ Cardinality(SecondTokens) = 0
      BY <3>1, TokensFinite, FS_Subset, FS_EmptySet
    <3>3. tokens < Slots
      BY <3>2, TokensFinite, PoolConstants DEF PoolInv, TokensCounted, FewBatches
    <3>4. pc[c] \in {"queued", "holding"}
      BY <2>2 DEF PoolInv, PoolTypeOK, Steps
    <3>5. QED BY <3>3, <3>4 DEF NotStuck, CanMove
  <2>3. QED BY <2>1, <2>2
<1>2. QED BY <1>1, PoolInvariant, PTL

(* With fewer calls of SetXconfCompressedData than slots, the channel      *)
(* respects its capacity and some call can always go on.                   *)
THEOREM PoolIsSound == ASSUME FewBatches PROVE PoolSpec => []PoolSound
<1>1. PoolTypeOK /\ NotStuck => PoolSound
  BY DEF PoolSound
<1>2. QED BY <1>1, PoolTypeCorrect, PoolNotStuck, PTL
=============================================================================
