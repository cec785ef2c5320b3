---------------------------- MODULE MCRulesEngine ----------------------------
(* Small instances of RulesEngine.                                         *)
EXTENDS RulesEngine

MCValues == {"A", "B", "1", "2", "3", "30", "UTC", "http", "L1", "L2", "0-30", "*"}
MCAsNumber == [v \in MCValues |->
    CASE v = "1" -> 1 [] v = "2" -> 2 [] v = "3" -> 3 [] v = "30" -> 30 [] OTHER -> NaN]
MCAsRange == [v \in MCValues |-> IF v = "0-30" THEN <<0, 30>> ELSE <<NaN, NaN>>]
MCHash == [v \in MCValues |-> IF v = "A" THEN 30 ELSE 31]
MCMatches == {<<"A", "A">>, <<"*", "A">>}
MCGlobs == {<<"*", v>> : v \in MCValues}
MCLists == [l \in {"L1", "L2", "L3"} |-> IF l = "L2" THEN {"B"} ELSE {"A"}]

MCConditions ==
    {Cond("STRING", "env", "IS", Str("A")), Cond("STRING", "model", "IN", Coll({"A", "1"})),
     Cond("STRING", "model", "PERCENT", Str("30"))}
MCNested == {q \in MCConditions \X MCConditions : q[1].op = "IS" /\ q[2].op = "PERCENT"}
(* The hypothesis of EqualRulesSelectAlike holds of these conditions.      *)
ASSUME OneTypeHolds == OneType

MCContexts == [env : {"A", "1", Absent}, model : {"A", "1", Empty, Absent}]

MCFilterContexts ==
    {[time |-> t, timeZone |-> z, env |-> e, model |-> m, ipAddress |-> i, eStbMac |-> m,
      downloadProtocol |-> d, rebootDecoupled |-> r] :
        t \in {"1", "2", "3", Absent}, z \in {"UTC", "A", Absent}, e \in {"A", "B"},
        m \in {"A", "B"}, i \in {"A", "B", "1"}, d \in {"http", "A"}, r \in {Empty, Absent}}
MCFilters ==
    [start : {"1", "2", "3"}, end : {"1", "2"}, localTime : BOOLEAN, neverReboot : BOOLEAN,
     neverHttp : BOOLEAN, ips : {Empty, "L1"}, env : {Empty, "A"}, model : {Empty, "A"}]
MCRiFilters ==
    {p \in [ips : {<<>>, <<"L1">>, <<"L1", "L2">>}, macs : {{}, {"A"}},
            envs : {{}, {"A"}}, models : {{}, {"A", "B"}}] :
        p # [ips |-> <<>>, macs |-> {}, envs |-> {}, models |-> {}]}
=============================================================================
