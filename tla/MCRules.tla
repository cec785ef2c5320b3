------------------------------- MODULE MCRules -------------------------------
(***************************************************************************)
(* Rules for TLC: the rules engine (RulesEngine) and the forms that        *)
(* operators save as rules (RuleBeans).  part says which of them a         *)
(* behaviour is about: building and comparing rules, saving forms under    *)
(* the ids of operators, or saving the filters that have fixed ids.        *)
(***************************************************************************)
EXTENDS MCRulesEngine, FirmwareQueries, RuleEdits

VARIABLE part

mcVars == <<part, vars, beanVars, edit>>

MCLowerName ==
    [n \in MCValues \cup {"n1", "N1", "n2", Empty} |-> IF n = "N1" THEN "n1" ELSE n]
MCMacParts == [p \in {"A", "1", ":"} |-> IF p = ":" THEN {"A", "B", "1"} ELSE {p}]
MCFwConfigs ==
    [c \in {"c1", "c2", "c3"} |-> [version |-> c, app |-> IF c = "c3" THEN "sky" ELSE "stb"]]

Dist(c, p, s, e) == [config |-> c, percentage |-> p, start |-> s, end |-> e, paused |-> FALSE]
Bean0 ==
    [name |-> "n1", env |-> "A", model |-> "A", opt |-> <<>>, dists |-> <<>>, lkg |-> Empty,
     iv |-> Empty, check |-> FALSE, versions |-> {"c1", "c2"}, active |-> TRUE, app |-> "stb",
     whitelist |-> Empty, reboot |-> FALSE, account |-> FALSE]

\* One to three shares without ranges, negative ones and 0 too, and two ranges.
MCShares ==
    {<<Dist("c1", 100, 0, 0)>>} \cup
    {<<Dist("c1", p, 0, 0), Dist("c2", q, 0, 0)>> : p \in {60, 150}, q \in {-50, 0, 40}} \cup
    {<<Dist("c1", 60, 0, 0), Dist("c2", -30, 0, 0), Dist(c, q, 0, 0)>> : c \in {"c1", "c3"}, q \in {60, 70}}
MCRanges ==
    {<<Dist("c1", 20, s, s + 20), Dist(c, 20, t, t + 20)>> :
        s \in {20}, t \in {10, 20, 40}, c \in {"c1", "c2"}}
MCDists == MCShares \cup MCRanges \cup {<<Dist("c1", 20, 20, 40), Dist("c2", 20, 0, 0)>>}

Ip == IsText("ipAddress", "A")
Mac == InText("eStbMac", {"A", "B"})
Proto == IsText("downloadProtocol", "http")
MCOpts ==
    {Ip, Not(Ip), OrRules(Ip, Mac), AndRules(Mac, Ip), OrRules(Mac, Not(Ip)), AndRules(OrRules(Ip, Mac), Proto),
     OrRules(AndRules(Ip, Mac), Proto), AndRules(Ip, OrRules(Mac, Proto)), IsText("env", "A")}

MCBeans ==
    {[Bean0 EXCEPT !.dists = d, !.lkg = l] : d \in MCDists, l \in {"c1"}} \cup
    {[Bean0 EXCEPT !.dists = d] : d \in {<<Dist("c1", 100, 0, 0)>>, <<Dist("c1", 60, 0, 0), Dist("c2", 40, 0, 0)>>}} \cup
    {[Bean0 EXCEPT !.dists = <<Dist("c2", 40, 0, 0)>>, !.lkg = "c1", !.check = TRUE, !.iv = i, !.active = FALSE] :
        i \in {Empty, "c2"}} \cup
    {[Bean0 EXCEPT !.opt = <<o>>, !.name = IF o.compound THEN "N1" ELSE "n2"] : o \in MCOpts} \cup
    {[Bean0 EXCEPT !.opt = <<o>>, !.name = "n2"] : o \in {OrRules(Ip, Mac), OrRules(Mac, Ip)}} \cup
    {[Bean0 EXCEPT !.opt = <<OrRules(Mac, Ip)>>, !.name = n, !.env = Empty] : n \in {"n1", "n2"}} \cup
    {[Bean0 EXCEPT !.name = n, !.app = a] : n \in {"n1", "N1", "n2"}, a \in Apps}

MCBeanContexts ==
    {[env |-> e, model |-> "A", ipAddress |-> i, eStbMac |-> m, downloadProtocol |-> d] :
        e \in {"A", "B"}, i \in {"A", "B", Absent}, m \in {"A", "1"}, d \in {"http", Absent}}

MCIpBeans ==
    {[name |-> "n1", group |-> g[1], env |-> "A", model |-> "B", config |-> g[2]] :
        g \in {<<"L1", "c1">>, <<"L2", Empty>>}}
MCIpFilters == {[name |-> "n1", group |-> "L1"]}
MCTimeForms ==
    {f \in MCFilters : f.start = "1" /\ f.end = "2" /\ f.neverReboot # f.neverHttp /\ f.localTime = f.neverHttp
                       /\ (f.ips = Empty <=> f.env # Empty) /\ (f.neverHttp => f.model # Empty)}
MCMacForms ==
    {[name |-> n, rule |-> NewMacRule("L2")] : n \in {"n1", "N1"}} \cup
    {[name |-> "n2", rule |-> AndRules(IsText("model", "A"), IsText("eStbMac", "A"))]} \cup
    {[name |-> "n1", rule |-> OrRules(OrRules(IsText("eStbMac", "1"), NewMacRule("L1")), InText("eStbMac", {"A", "B"}))]}
MCActivations ==
    {[name |-> "n1", app |-> "stb", model |-> "A", partner |-> p, versions |-> {"1"}, regexs |-> r] :
        p \in {Empty, "B"}, r \in {{"*"}}}
MCLocations ==
    {[name |-> n, group |-> "L1", only |-> IF n = "n1" THEN Empty ELSE "http",
      protocol |-> IF n = "n1" THEN "tftp" ELSE Empty, location |-> IF n = "n1" THEN "A" ELSE "B", ipv6 |-> "B"] :
        n \in {"n1", "n2"}}
MCLocationRules ==
    {[name |-> "N1", rule |-> OrRules(InText("ipAddress", {"1", "B"}), IsText("ipAddress", "A")),
      protocol |-> "http", location |-> "1", ipv6 |-> Empty],
     [name |-> "n1", rule |-> OrRules(InList("ipAddress", "L2"), InText("ipAddress", {"A"})),
      protocol |-> "tftp", location |-> "2", ipv6 |-> Empty]}
MCNameRank ==
    [n \in {"GLOBAL_PERCENT", "N1", "n1", "n2"} |->
        CASE n = "GLOBAL_PERCENT" -> 1 [] n = "N1" -> 2 [] n = "n1" -> 3 [] OTHER -> 4]
MCGlobals == {[percentage |-> p, whitelist |-> w] : p \in {0, 50, 100}, w \in {Empty, "L1"}}

Loc(ip, t) == [ip |-> ip, tenths |-> t, isIpv6 |-> ip = "1"]
MCRoundRobins ==
    {[locations |-> <<Loc("A", x), Loc(b, y)>>, ipv6 |-> z] :
        x \in {0, 300}, y \in {695, 700, 705, 1000}, b \in {"A", "B"},
        z \in {<<>>, <<Loc("1", 1000)>>, <<Loc("1", 5)>>, <<Loc("1", 995)>>}}

\* An environment, a partner and MAC addresses in several spellings, "no" is
\* no address; L3 is the new name of the list L1.
MCSpellings == {"a", " A", "A", "B", "a-1", "A1", "A:1", "no", "L1", "L3", "env", " env", "model", "eStbMac", "partnerId", "ipAddress"}
MCTrim == [v \in MCSpellings |-> CASE v = " A" -> "A" [] v = " env" -> "env" [] OTHER -> v]
MCToUpper == [v \in MCSpellings |-> CASE v = "a" -> "A" [] OTHER -> v]
MCMacOf == [v \in MCSpellings |-> IF v \in {"a-1", "A1", "A:1"} THEN "A:1" ELSE NotMac]
MCEditLeaves ==
    {Leaf(c) : c \in {
        Cond("STRING", "env", "IS", Str(" A")), Cond("STRING", " env", "IN", Coll({"a", "B"})),
        Cond("STRING", "env", "IN", Coll({"B", " A"})), Cond("STRING", "model", "IS", Str("L1")),
        Cond("STRING", "eStbMac", "IN", Coll({"a-1", "A1"})), Cond("STRING", "eStbMac", "IS", Str("no")),
        Cond("MAC_ADDRESS", "eStbMac", "LIKE", Str("A1")),
        Cond("STRING", "partnerId", "IS", Str("a")), Cond("STRING", "partnerId", "IN", Coll({"a"})),
        Cond("STRING", "ipAddress", "IN_LIST", Str("L1"))}}
MCEditRules ==
    LET signed == MCEditLeaves \cup {Not(r) : r \in MCEditLeaves}
        few == {r \in MCEditLeaves : r.cond.op \in {"IN", "IN_LIST"} /\ r.cond.name # "partnerId"}
        pairs == {AndRules(r, x) : r \in few, x \in signed} \cup {OrRules(r, x) : r \in few, x \in signed}
    IN  MCEditLeaves \cup pairs \cup {Compound(<<r>>) : r \in signed}
        \cup {AndRules(AndRules(r, x), y) : r \in few, x \in few, y \in few \cup {Not(z) : z \in few}}
        \cup {OrRules(OrRules(r, x), y) : r \in few, x \in few, y \in few}
        \cup {AndRules(Not(OrRules(r, x)), y) : r \in few, x \in few, y \in few}
        \cup {AndRules(r, OrRules(x, y)) : r \in few, x \in few, y \in few}
MCEditContexts ==
    [env : {"A", "B"}, model : {"A", "L1", "L3"}, eStbMac : {"A:1", "B"}, partnerId : {"A", "B"}, ipAddress : {"A", "B"}]
MCRenames == {<<"L1", "L3">>}

ASSUME AlternativesHold == AddressAlternatives

RulesInit ==
    /\ Init /\ BeanInit /\ EditInit
    /\ part \in {"engine", "forms", "filters", "queries", "edits"}
    /\ part # "engine" => rule = Leaf(CHOOSE c \in Conditions : TRUE)

RulesNext ==
    \/ part = "engine" /\ Next /\ UNCHANGED <<part, beanVars, edit>>
    \/ part = "forms" /\ FormNext /\ store'["r3"] = NoRule /\ UNCHANGED <<part, vars, edit>>
    \/ part = "filters" /\ FilterNext /\ UNCHANGED <<part, vars, edit>>
    \/ part = "queries" /\ QueryNext /\ UNCHANGED <<part, vars, edit>>
    \/ part = "edits" /\ EditNext /\ UNCHANGED <<part, vars, beanVars>>

RulesSpec == RulesInit /\ [][RulesNext]_mcVars
=============================================================================
