------------------------------ MODULE MCRequests ------------------------------
(***************************************************************************)
(* The requests whose answers are put together from tables that change     *)
(* meanwhile, for TLC: feature control (FeatureControl) and the device     *)
(* configuration (DeviceConfig).  The two share no state: part says which  *)
(* of them a behaviour is about, the other stands at an initial state.     *)
(***************************************************************************)
EXTENDS FeatureControl, DeviceConfig, TLC

CONSTANTS f1, f2, eponRow, partnerRow, twoA, twoB

Profile(account, passed, partner, gr, pod, other) ==
  [account |-> account, passed |-> passed, partner |-> partner, gr |-> gr, pod |-> pod, other |-> other]
MCProfiles == {Profile("A1", "P1", "P1", FALSE, None, 1), Profile("A1", Unknown, Unknown, FALSE, "A2", 1),
               Profile("A1", Unknown, "P1", TRUE, None, 2)}
MCDevices == {[profile |-> Profile("A1", "P1", "P1", FALSE, None, 1), app |-> "stb", fw |-> "v1", net |-> "n1"]}

Feature(name, instance, list) == [name |-> name, instance |-> instance, list |-> list]
FeatureRule(priority, fws, nets, features) ==
  [priority |-> priority, app |-> "stb", fws |-> fws, devices |-> MCProfiles \X nets, features |-> features]
MCTables ==
  {[features |-> [f \in {"f1", "f2", "f3"} |->
                    CASE f = "f1" -> Feature("n1", 1, None) [] f = "f2" -> Feature("n1", 2, "L") [] f = "f3" -> Feature("n2", 3, "L2")],
    lists |-> {"L"},
    rules |-> [id \in {"r1", "r2"} |->
                 IF id = "r1" THEN FeatureRule(1, {"v1"}, {"n1"}, <<"f1", "gone">>) ELSE FeatureRule(2, {"v1", "v2"}, {"n1", "n2"}, <<"f2", "f3">>)]],
   [features |-> [f \in {"f1", "f3"} |-> IF f = "f1" THEN Feature("n1", 1, None) ELSE Feature("n2", 1, None)],
    lists |-> {},
    rules |-> [id \in {"r1"} |-> FeatureRule(1, {"v1", "v2"}, {"n1", "n2"}, <<"f3", "f1">>)]]}
MCPayloads == {{"rules", "offeredRules", "post"}, {"post"}}
MCConfigs == {[can |-> TRUE, p304 |-> TRUE, offered |-> TRUE]}

\* f2 ranks before f1.
MCFormulaOf ==
  (f1 :> [priority |-> 3, percentage |-> 99, p1 |-> 0, p2 |-> 0, p3 |-> 99]) @@
  (f2 :> [priority |-> 2, percentage |-> 10, p1 |-> 0, p2 |-> 20, p3 |-> 20])

CronAt(h, m) == [ok |-> TRUE, given |-> TRUE, min |-> m, hour |-> h]
Dev(a, v, mode) == [active |-> a, ver |-> v, mode |-> mode, cron |-> CronAt(23, 50), window |-> 90]
Lus(a, v, mode, whole) ==
  [active |-> a, ver |-> v, mode |-> mode, cron |-> CronAt(22, 30), l1 |-> CronAt(1, 15), l2 |-> CronAt(2, 0),
   l3 |-> [NoCron EXCEPT !.given = TRUE], window |-> 120, whole |-> whole]
MCDevRows == {Dev(TRUE, "d", "UTC"), Dev(FALSE, "off", "Local time")}
MCLusRows == {Lus(TRUE, "l", "UTC", FALSE), Lus(TRUE, "day", "Local time", TRUE)}
MCProfileRows == {[ver |-> "perm", component |-> TRUE]}
MCSettingRules == {[bound |-> eponRow, match |-> TRUE, rank |-> 1], [bound |-> partnerRow, match |-> TRUE, rank |-> 2]}
MCTwoRules == <<[match |-> FALSE, noOp |-> FALSE, bound |-> <<twoB>>], [match |-> TRUE, noOp |-> TRUE, bound |-> <<twoB>>],
                [match |-> TRUE, noOp |-> FALSE, bound |-> <<twoA, twoB>>]>>
MCTwoRows == {[name |-> "n", parses |-> TRUE], [name |-> "m", parses |-> FALSE]}
MCFirstTables ==
  {[dev |-> [f \in Formulas |-> Dev(TRUE, "d", "UTC")],
    lus |-> [f \in Formulas |-> Lus(TRUE, l, "UTC", FALSE)],
    vod |-> [f \in Formulas |-> IF f = f1 THEN "v" ELSE Nothing],
    sprof |-> (eponRow :> "epon") @@ (partnerRow :> "partnersettings"),
    two |-> (twoA :> [name |-> "n", parses |-> TRUE]) @@ (twoB :> [name |-> "n", parses |-> TRUE])] : l \in {"l"}}
Zone(g, o, d) == [given |-> g, off |-> o, dst |-> d]
AskFor(k, m, z, v, ty) ==
  [kind |-> k, matches |-> m, zone |-> z, v20 |-> v, v21 |-> v, types |-> ty, immediately |-> v]
MCAsks ==
  {AskFor("settings", Formulas, Zone(TRUE, -480, TRUE), TRUE, <<"epon">>),
   AskFor("settings", {f1}, Zone(TRUE, -480, TRUE), FALSE, <<>>),
   AskFor("telemetry2", {}, Zone(FALSE, 0, FALSE), FALSE, <<>>),
   AskFor("checkNow", {}, Zone(FALSE, 0, FALSE), FALSE, <<>>)}

VARIABLE part

mcVars == <<part, fcVars, dcVars>>

Init ==
  /\ FcInit /\ DcInit
  /\ part \in {"feature control", "device configuration"}
  /\ table = CHOOSE x \in Tables : x.lists # {}

Next ==
  \/ part = "feature control" /\ FcNext /\ UNCHANGED <<part, dcVars>>
  \/ part = "device configuration" /\ DcNext /\ UNCHANGED <<part, fcVars>>

Spec == Init /\ [][Next]_mcVars

(* What requests share is not spoilt by one of them: the partner in the    *)
(* metrics row is never cleared and cached profiles are never changed.     *)
SharedRowsKept == PartnerKept /\ CacheUntouched
=============================================================================
