SPECIFICATION Spec
CONSTANTS
  MaxParts = 4
  MaxVersion = 4
  Calls = {"q1", "q2", "b1", "b2"}
  Batch = {"b1", "b2"}
  Slots = 3
  Rows = {r1, r2}
  MaxWrites = 2
  Readers = {q1}
  NoValue = NoValue
  Hosts = {"h1", "h2"}
  Keys = {"k1", "k2"}
  Models = {"A"}
  Tables = {"list", "config", "rule", "template", "telemetry", "telemetry2", "setting"}
  Drafts <- MCDrafts
  Covers <- MCCovers
  Blocks = {"10.0.0.0/31"}
  MacAddresses = {"m1", "m2"}
  UpperCase <- MCUpperCase
  MaxEdits = 2
INVARIANTS SplitRowsReadBack PoolSound DerivedSound TablesConsistent 
PROPERTIES EveryCallReturns StaleGoes
CHECK_DEADLOCK FALSE
