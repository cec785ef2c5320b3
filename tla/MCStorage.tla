------------------------------ MODULE MCStorage ------------------------------
(***************************************************************************)
(* The storage layer for TLC: split rows (CompressedData), the limit on    *)
(* concurrent queries (QueryPool), the lists derived from a cached table   *)
(* (DerivedCache) and the rows that operators edit (AdminTables).  They    *)
(* share no state: part says which of them a behaviour is about, the       *)
(* others stand at an initial state.                                       *)
(***************************************************************************)
EXTENDS CompressedData, QueryPool, DerivedCache, AdminTables

VARIABLE part

mcVars == <<part, splitVars, poolVars, dVars, adminVars>>

MCCovers == [s \in {"10.0.0.1", "10.0.0.0/31", "10.0.0"} |->
    CASE s = "10.0.0.1" -> {1} [] s = "10.0.0.0/31" -> {0, 1} [] OTHER -> {}]
MCUpperCase == [s \in {"one", "ONE", "two"} |-> IF s = "one" THEN "ONE" ELSE s]

List(t, data, admin) == [type |-> t, data |-> data, admin |-> admin]
Config(app, description, m, n) ==
    [app |-> app, description |-> description, version |-> "v1", models |-> m, protocol |-> "http", properties |-> n]
Element(data, numeric) == [data |-> data, numeric |-> numeric]
Profile(scheme, elements) == [name |-> "p", scheme |-> scheme, elements |-> elements]

MCDrafts ==
    [list |->
        {List("IP_LIST", d, a) : d \in {{"10.0.0.0/31"}, {"10.0.0.1", "10.0.0"}}, a \in BOOLEAN} \cup
        {List("MAC_LIST", d, TRUE) : d \in {{}, {"m1"}, {"m1", "m2"}, {"m"}}} \cup {List("STRING", {"m1"}, FALSE)},
     config |-> {Config("stb", d, m, 1) : d \in {"one", "ONE"}, m \in {{}, {"A"}}}
                 \cup {Config("sky", "one", {"A"}, 1), Config("", "one", {"A"}, 1), Config("stb", "two", {"A"}, 21)},
     rule |-> {[app |-> a, name |-> n] : a \in {"stb", "sky"}, n \in {"one", "two"}},
     template |-> {[actionType |-> t, class |-> c] : t \in {"RULE", "RULE_TEMPLATE", ""}, c \in {".RuleAction", ""}},
     telemetry |-> {Profile(u, <<Element(a, TRUE), Element("b", TRUE), Element(c, n)>>) :
                       u \in {"https", "ftp"}, a \in {"a", "c"}, c \in {"a", "c"}, n \in BOOLEAN}
                   \cup {Profile("https", <<>>), Profile("s3", <<Element("a", TRUE), Element("b", TRUE)>>)},
     telemetry2 |-> {[name |-> n, json |-> j] : n \in {"", "one", "two"}, j \in BOOLEAN},
     setting |-> {Setting("int", "1"), Setting("float64", "1"), Setting("bool", "true"), Setting("string", "a"),
                  Setting("time", "t")}]

Init ==
  /\ part \in {"split", "pool", "derived", "admin"}
  /\ SplitInit /\ PoolInit /\ DInit /\ AdminInit
  /\ part # "admin" => topic = "list"

Next ==
  \/ part = "split" /\ SplitNext /\ UNCHANGED <<part, poolVars, dVars, adminVars>>
  \/ part = "pool" /\ PoolNext /\ UNCHANGED <<part, splitVars, dVars, adminVars>>
  \/ part = "derived" /\ DNext /\ UNCHANGED <<part, splitVars, poolVars, adminVars>>
  \/ part = "admin" /\ AdminNext /\ UNCHANGED <<part, splitVars, poolVars, dVars>>

\* The fairness of FairPoolSpec and of DSpec, in the behaviours that are about them.
OfPool(A) == part = "pool" /\ A
OfDerived(A) == part = "derived" /\ A

Spec ==
  /\ Init /\ [][Next]_mcVars
  /\ \A c \in Calls : WF_poolVars(OfPool(Step(c)))
  /\ WF_dVars(OfDerived(Refreshing)) /\ WF_dVars(OfDerived(ApplyStart)) /\ WF_dVars(OfDerived(applyChanges))
  /\ \A o \in Ops : WF_dVars(OfDerived(ApplicationCacheDeleteAll(o)))
  /\ \A r \in Rows : WF_dVars(OfDerived(ReloadLand(r)))
=============================================================================
