--------------------------- MODULE FirmwareQueries ---------------------------
(***************************************************************************)
(* GetBseConfiguration: what firmware the models at an IP address get, and *)
(* from where (dataapi/estbfirmware/estb_firmware_rule_eval.go).  It reads *)
(* the stored rules of module RuleBeans by hand, without the rules engine. *)
(* An address is a member of the lists and sets that conditions name       *)
(* (module AdminTables has blocks of addresses).                           *)
(***************************************************************************)
EXTENDS RuleBeans

CONSTANTS
    Addresses4,     \* the IP addresses that are asked for
    NameRank,       \* [rule names -> Nat]: the order of strings.Compare
    LocationRules   \* download location filters that operators write as rules

ASSUME QueriesOK ==
    /\ Addresses4 \subseteq Values
    /\ NameRank \in [DOMAIN NameRank -> Nat]
    /\ LocationRules \subseteq
         [name : STRING, rule : AllRules, protocol : STRING, location : STRING, ipv6 : STRING]
    /\ \A f \in LocationForms \cup LocationRules : f.name \in DOMAIN NameRank

(* Filters for any of several addresses, sets and lists of them, a single  *)
(* address in the last place.                                              *)
AddressCondition(c) ==
    /\ On(c, "ipAddress") /\ c.op \in {"IS", "IN", "IN_LIST"}
    /\ c.fixed.kind = IF c.op = "IN" THEN "collection" ELSE "string"
Alternatives(r) == IF r.compound THEN r.parts ELSE <<r>>
AddressAlternatives ==
    \A f \in LocationRules :
        LET rs == Alternatives(f.rule)
        IN  /\ ~f.rule.negated /\ rs # <<>>
            /\ \A i \in DOMAIN rs :
                 /\ ~rs[i].compound /\ ~rs[i].negated /\ AddressCondition(rs[i].cond)
                 /\ i > 1 => rs[i].relation = "OR"
                 /\ i < Len(rs) => rs[i].cond.op # "IS"

(* A filter that was not made from a form.                                 *)
SaveLocationRule(id, f, app) ==
    CreateFirmwareRuleOneDB(id, FirmwareRule("DOWNLOAD_LOCATION_FILTER", f.name, app, f.rule,
        [NewApplicableActionAndType(".DefinePropertiesAction", "DEFINE_PROPERTIES", Empty)
            EXCEPT !.props = <<f.protocol, f.location, f.ipv6>>]), "locationRule", f)

QueryNext ==
    \/ \E id \in BeanIds, b \in IpRuleBeans, app \in Apps : SaveIpRule(id, b, app)
    \/ \E id \in BeanIds, f \in LocationForms, app \in Apps : SaveLocationFilter(id, f, app)
    \/ \E id \in BeanIds, f \in LocationRules : SaveLocationRule(id, f, "stb")
    \/ \E f \in RoundRobinForms : f.ipv6 # <<>> /\ SaveRoundRobin(f, "stb")
    \/ \E id \in BeanIds : DeleteRule(id)

BseSpec == BeanInit /\ [][BeanNext \/ QueryNext]_beanVars

-----------------------------------------------------------------------------
(* All rules, by name; rules of one name come in any order.                *)
GetFirmwareSortedRuleAllAsListDB ==
    {s \in SetToSeqs(Stored) : \A i, j \in DOMAIN s : i < j => NameRank[store[s[i]].name] <= NameRank[store[s[j]].name]}

InRange(c, a) ==
    \/ c.op = "IS" /\ c.fixed = Str(a)
    \/ c.op = "IN" /\ c.fixed.kind = "collection" /\ a \in c.fixed.set
    \/ c.op = "IN_LIST" /\ c.fixed.kind = "string" /\ IsInList(a, c.fixed.str)

(* The conditions on the address are alternatives, up to the first one     *)
(* that compares it with a single address.                                 *)
IsIpAddressInRange(r, a) ==
    LET cs == ToConditions(r)
        I == {i \in DOMAIN cs : On(cs[i], "ipAddress") /\ cs[i].fixed.kind # "nil"
                               /\ (cs[i].op = "IS" \/ InRange(cs[i], a))}
    IN  I # {} /\ InRange(cs[Min(I)], a)

IsNoopRule(fr) == fr.action.config = Empty /\ \A e \in Range(fr.action.entries) : e.config = Empty

Bse(models, protocol, location, ipv6) ==
    [models |-> models, protocol |-> protocol, location |-> location, ipv6 |-> ipv6]
NotFound == Bse(<<>>, Empty, Empty, Empty)

(* A slip: the first filter decides.                                       *)
MutFirstFilter(fr, c) ==
    IF fr.action.props[2] = Empty \/ c.protocol \in {"http", "tftp"} THEN c
    ELSE [c EXCEPT !.protocol = IF fr.action.props[1] = "tftp" THEN "tftp" ELSE "http", !.location = fr.action.props[2]]
(* A location replaces the one so far, an IPv6 location only when given.   *)
SetupLocations(fr, c) ==
    LET protocol == fr.action.props[1]
        location == fr.action.props[2]
        ipv6 == fr.action.props[3]
    IN  IF location = Empty THEN c
        ELSE [c EXCEPT !.protocol = IF protocol = "tftp" THEN "tftp" ELSE "http", !.location = location,
                       !.ipv6 = IF ipv6 # Empty THEN ipv6 ELSE c.ipv6]

(* The rules that answer for an address, one model each.                   *)
Answers(fr, a) ==
    /\ fr.type = "IP_RULE" /\ ~IsNoopRule(fr) /\ fr.app = "stb"
    /\ a \in Group(ConvertFirmwareRuleToIpRuleBean(fr).group).ips
    /\ fr.action.config \in DOMAIN FwConfigs
ModelConfig(fr) ==
    [model |-> ConvertFirmwareRuleToIpRuleBean(fr).model, version |-> FwConfigs[fr.action.config].version]

ModelConfigs(order, a) ==
    LET configs[i \in 0..Len(order)] ==
          IF i = 0 THEN <<>>
          ELSE IF Answers(store[order[i]], a) THEN Append(configs[i - 1], ModelConfig(store[order[i]]))
          ELSE configs[i - 1]
    IN  configs[Len(order)]

(* The round robin filter, whose draw is random, then the location filters *)
(* of any application type in the order of their names.                    *)
Drawn(models, random) ==
    IF roundRobins["stb"] = {} THEN Bse(models, Empty, Empty, Empty)
    ELSE LET d == GetDownloadLocations(CHOOSE f \in roundRobins["stb"] : TRUE, random)
         IN  Bse(models, "Tftp", d[1], d[2])
Locates(fr, a) == fr.type = "DOWNLOAD_LOCATION_FILTER" /\ IsIpAddressInRange(fr.rule, a)

GetBseConfiguration(order, a, random) ==
    LET models == ModelConfigs(order, a)
        after[i \in 0..Len(order)] ==
          IF i = 0 THEN Drawn(models, random)
          ELSE IF Locates(store[order[i]], a) THEN SetupLocations(store[order[i]], after[i - 1])
          ELSE after[i - 1]
    IN  IF models = <<>> THEN NotFound ELSE after[Len(order)]

-----------------------------------------------------------------------------
(* Eval gives the firmware of an IP rule to a device of its environment    *)
(* and model at that address.                                              *)
Serves(fr, a) ==
    LET b == ConvertFirmwareRuleToIpRuleBean(fr)
    IN  /\ fr.type = "IP_RULE" /\ fr.app = "stb" /\ fr.action.config \in DOMAIN FwConfigs
        /\ Evaluate(fr.rule, [ipAddress |-> a, env |-> b.env, model |-> b.model])

(* The BSE answer for an address names the model and the version of        *)
(* exactly the IP rules that Eval would serve there, and there is none     *)
(* when there are no such rules; it sends devices to the location of the   *)
(* last filter, by name, whose rule the rules engine finds true for that   *)
(* address (whatever protocol it asks for), else to a location of the      *)
(* round robin filter.  In all orders of rules with one name, and for all  *)
(* draws.                                                                  *)
BseAnswers ==
    \A a \in Addresses4, order \in GetFirmwareSortedRuleAllAsListDB, random \in {0, 999} :
        LET answer == GetBseConfiguration(order, a, random)
            served == {id \in Stored : Serves(store[id], a)}
            located == {id \in Stored : store[id].type = "DOWNLOAD_LOCATION_FILTER" /\ store[id].action.props[2] # Empty
                           /\ \E p \in {"http", "tftp"} : Evaluate(store[id].rule, [ipAddress |-> a, downloadProtocol |-> p])}
            last == {id \in located : \A j \in located : NameRank[store[j].name] <= NameRank[store[id].name]}
        IN  /\ Range(answer.models) = {ModelConfig(store[id]) : id \in served}
            /\ served = {} => answer = NotFound
            /\ served # {} /\ located # {} =>
                 \E id \in last : /\ answer.location = store[id].action.props[2]
                                  /\ answer.protocol = "tftp" <=> store[id].action.props[1] = "tftp"
            /\ served # {} /\ located = {} =>
                 \/ roundRobins["stb"] = {} /\ answer.location = Empty
                 \/ \E f \in roundRobins["stb"] : answer.location \in Addresses(f.locations)
=============================================================================
