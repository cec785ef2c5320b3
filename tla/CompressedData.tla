--------------------------- MODULE CompressedData ---------------------------
(***************************************************************************)
(* A row of a compress-and-split table (GenericXconfNamedList): the        *)
(* compressed data is cut into parts, stored as the columns part_0,        *)
(* part_1, ... next to a column with their number (db/cassandra_client.go, *)
(* db/compressing_data_dao.go).  A write that needs fewer parts than the   *)
(* one before leaves the old parts behind.  SplitReaders fetch the number of    *)
(* parts and the parts with two queries, for one row (GetOne) or for the   *)
(* whole table (GetAllAsMap), while the row is rewritten.                  *)
(*                                                                         *)
(* A part is abstracted to the version that wrote it.  snappy.Decode, an   *)
(* external library, accepts exactly the parts of one version in order:    *)
(* the stream starts with the length of the whole.                         *)
(***************************************************************************)
EXTENDS Integers, FiniteSets

CONSTANTS
    MaxParts,    \* most parts of a version
    MaxVersion   \* bound on the number of writes

(* Before compares column names as strings of at most two digits.          *)
ASSUME SplitConstants == MaxParts \in 1..100 /\ MaxVersion \in Nat

VARIABLES
    parts,    \* part number -> version, 0 if there is no such column
    count,    \* value of the column parts_count, 0 if there is none
    version,  \* number of the last write
    size,     \* version -> number of parts
    call      \* reader -> state of its current call

splitVars == <<parts, count, version, size, call>>

Nums == 0..(MaxParts - 1)
SplitReaders == {"GetOne", "GetAllAsMap"}
Failed == -1

(* clean: the row was not written since the call started.                  *)
NoCall == [pc |-> "idle", count |-> 0, result |-> 0, clean |-> TRUE]

SplitInit ==
    /\ parts = [i \in Nums |-> 0] /\ count = 0
    /\ version = 0
    /\ size = [v \in 1..MaxVersion |-> 0]
    /\ call = [r \in SplitReaders |-> NoCall]

(* The row is written: calls between their queries overlap the write, and  *)
(* calls that have their result have returned before it.                   *)
Disturb == call' = [r \in SplitReaders |->
             IF call[r].pc = "count" THEN [call[r] EXCEPT !.clean = FALSE]
             ELSE NoCall]

-----------------------------------------------------------------------------
(* One logged batch: the count and all parts.                              *)
SetXconfCompressedData(n) ==
    /\ version < MaxVersion
    /\ version' = version + 1
    /\ size' = [size EXCEPT ![version + 1] = n]
    /\ count' = n
    /\ parts' = [i \in Nums |-> IF i < n THEN version + 1 ELSE parts[i]]
    /\ Disturb

(* DeleteXconfData removes the whole row.                                  *)
DeleteXconfData ==
    /\ count # 0
    /\ count' = 0 /\ parts' = [i \in Nums |-> 0]
    /\ Disturb
    /\ UNCHANGED <<version, size>>

(* The first query: the number of parts.                                   *)
ReadCount(r) ==
    /\ call[r].pc = "idle" /\ count # 0
    /\ call' = [call EXCEPT ![r] =
         [pc |-> "count", count |-> count, result |-> 0, clean |-> TRUE]]
    /\ UNCHANGED <<parts, count, version, size>>

-----------------------------------------------------------------------------
Present == {i \in Nums : parts[i] # 0}

(* What Decode makes of a set of parts with their numbers.                 *)
Decode(p) ==
    LET whole == {v \in 1..version :
                    p = {<<i, v>> : i \in 0..(size[v] - 1)}}
    IN IF whole = {} THEN Failed ELSE CHOOSE v \in whole : TRUE

(* GetXconfCompressedData: parts 0 .. n-1, all of which have to be there.  *)
CombineOne(n) ==
    IF n > Cardinality(Present) \/ ~(0..(n - 1) \subseteq Present) THEN Failed
    ELSE Decode({<<i, parts[i]>> : i \in 0..(n - 1)})

(* Columns come back in the order of their names, so part_10 comes before  *)
(* part_2.                                                                 *)
Before(i, j) ==
    LET lead(x) == IF x < 10 THEN x ELSE x \div 10 IN
    lead(i) < lead(j) \/ (lead(i) = lead(j) /\ i < j)

(* GetXconfCompressedDataRaw keeps the first n columns; the parts are then *)
(* combined by number, and a missing one adds nothing.                     *)
KeptAll(n) == Present            \* no limit
Kept(n) == {i \in Present : Cardinality({j \in Present : Before(j, i)}) < n}
CombineAll(n) ==
    Decode({<<i, parts[i]>> :
              i \in {j \in Kept(n) : j < Cardinality(Kept(n))}})

(* The second query, and Decode.                                           *)
ReadParts(r) ==
    /\ call[r].pc = "count"
    /\ call' = [call EXCEPT ![r].pc = "done", ![r].result =
         IF r = "GetOne" THEN CombineOne(call[r].count)
                         ELSE CombineAll(call[r].count)]
    /\ UNCHANGED <<parts, count, version, size>>

ReturnRow(r) ==
    /\ call[r].pc = "done"
    /\ call' = [call EXCEPT ![r] = NoCall]
    /\ UNCHANGED <<parts, count, version, size>>

SplitNext ==
    \/ \E n \in 1..MaxParts : SetXconfCompressedData(n)
    \/ DeleteXconfData
    \/ \E r \in SplitReaders : ReadCount(r) \/ ReadParts(r) \/ ReturnRow(r)

SplitSpec == SplitInit /\ [][SplitNext]_splitVars

-----------------------------------------------------------------------------
(* Counts, part numbers and versions stay in their ranges.                 *)
SplitTypeOK ==
    /\ parts \in [Nums -> 0..MaxVersion]
    /\ count \in 0..MaxParts /\ version \in 0..MaxVersion
    /\ size \in [1..MaxVersion -> 0..MaxParts]
    /\ call \in [SplitReaders -> [pc : {"idle", "count", "done"},
                               count : 0..MaxParts,
                               result : Failed..MaxVersion, clean : BOOLEAN]]

HasRow(r) == call[r].pc = "done"

(* A call during which the row was not written finds it, with either       *)
(* function, whatever was stored in the row before (the comment "skip      *)
(* extra data" of GetXconfCompressedDataRaw).                              *)
QuietReadSucceeds ==
    \A r \in SplitReaders : HasRow(r) /\ call[r].clean => call[r].result = version

(* A call that overlaps a write fails or returns the row as it is then;    *)
(* never a mixture, an older version or a row that was deleted.            *)
NoOldVersion ==
    \A r \in SplitReaders : HasRow(r) /\ call[r].result # Failed =>
        count # 0 /\ call[r].result = version

(* Split rows: what GetXconfCompressedData and the bulk read return is the *)
(* row as it is stored when they return, or an error, and an error only    *)
(* next to a write.                                                        *)
SplitRowsReadBack == SplitTypeOK /\ QuietReadSucceeds /\ NoOldVersion
=============================================================================
