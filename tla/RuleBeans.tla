------------------------------ MODULE RuleBeans ------------------------------
(***************************************************************************)
(* The forms in which operators see firmware rules: percentage beans, IP   *)
(* rules and filters, MAC rules, time and download location filters,       *)
(* activation versions, the global percentage (shared/estbfirmware and the *)
(* query services of dataapi/estbfirmware).                                *)
(*                                                                         *)
(* store is the table FirmwareRule4.  A form is converted into a rule when *)
(* it is saved and back when it is listed, and nothing but the rule is     *)
(* kept: posted, which is not in the program, remembers what was saved.    *)
(* Percentages are whole numbers (the code rounds to thousandths), except  *)
(* those of download locations, which are in tenths of a percent.          *)
(***************************************************************************)
EXTENDS RulesEngine

CONSTANTS
    BeanIds,        \* ids of the rules that operators save
    Apps,           \* application types, "stb" among them
    LowerName,      \* [strings -> strings]: strings.ToLower, strings.EqualFold
    FwConfigs,      \* [config ids -> version and application type]
    PercentageBeans, IpRuleBeans, IpFilterForms, TimeForms, MacForms, ActivationVersions,
    LocationForms, GlobalFilters, RoundRobinForms,   \* what operators save
    MacLists,       \* the namespaced lists that hold MAC addresses
    MacParts,       \* [search strings -> the addresses that contain them]
    BeanContexts    \* the requests on which stored rules are tried

EqualFold(x, y) == LowerName[x] = LowerName[y]
(* Ids of the global percentages.                                          *)
getGlobalPercentId(app) == IF app = "stb" THEN "GLOBAL_PERCENT" ELSE app \o "_GLOBAL_PERCENT"
GlobalIds == {"GLOBAL_PERCENT"} \cup {app \o "_GLOBAL_PERCENT" : app \in Apps \ {"stb"}}

VARIABLES
    store,          \* [rule ids -> the rule of that id, or NoRule]
    posted,         \* [rule ids, and application types for the global percentage -> <<kind, form>> last saved]
    roundRobins     \* the stored download location round robin filters, per application type

beanVars == <<store, posted, roundRobins>>

-----------------------------------------------------------------------------
(* Rules as they are stored.                                               *)
NoAction ==
    [class |-> "", type |-> "", config |-> Empty, entries |-> <<>>, active |-> FALSE,
     check |-> FALSE, reboot |-> FALSE, account |-> FALSE, whitelist |-> Empty, iv |-> Empty,
     versions |-> {}, regexs |-> {}, props |-> <<Empty, Empty, Empty>>]

NewApplicableActionAndType(class, type, config) ==
    [NoAction EXCEPT !.class = class, !.type = type, !.config = config, !.active = TRUE]

FirmwareRule(type, name, app, r, action) ==
    [type |-> type, name |-> name, app |-> app, rule |-> r, action |-> action]
NoRule == FirmwareRule("", Empty, Empty, Compound(<<>>), NoAction)
NoForm == <<"none", {}>>

IsValidApplicableActionType(t) == t \in {"RULE", "DEFINE_PROPERTIES", "BLOCKING_FILTER"}
isValidApplicableClass(c) == c \in {".RuleAction", ".DefinePropertiesAction", ".BlockingFilterAction"}

ValidRule(r) ==
    /\ r.type # ""
    /\ IsValidApplicableActionType(r.action.type)
    /\ isValidApplicableClass(r.action.class)

Stored == {id \in DOMAIN store : store[id].type # ""}
GetFirmwareRuleAllAsListDBForAdmin == {store[id] : id \in Stored}

(* The lists that the services start from: one application type, one type  *)
(* of rule.                                                                *)
OfType(app, type) == {id \in Stored : store[id].app = app /\ store[id].type = type}

(* ToConditions and FlattenRule walk a rule in the same order.             *)
ToConditions(r) == LET rs == FlattenRule(r) IN [i \in DOMAIN rs |-> rs[i].cond]
On(c, name) == c.type = "STRING" /\ c.name = name
(* The value of the last of the conditions I, as a loop over them leaves it.*)
LastOf(cs, I) == IF I = {} THEN Empty ELSE cs[Max(I)].fixed.str

-----------------------------------------------------------------------------
(* The sums of the first numbers of w.                                     *)
Totals(w) ==
    LET total[i \in 0..Len(w)] == IF i = 0 THEN 0 ELSE total[i - 1] + w[i] IN total

(* Distributions: a share, and its range of the devices' hashes when it    *)
(* was given.  An entry without a range begins where the widths of the     *)
(* entries before it add up to.                                            *)
NoRange(e) == e.start = 0 \/ e.end = 0
Width(e) == IF NoRange(e) THEN e.percentage ELSE e.end - e.start

ConvertIntoPercentRange(entries) ==
    LET prevPercentEnd == Totals([i \in DOMAIN entries |-> Width(entries[i])])
    IN  [i \in DOMAIN entries |->
            IF NoRange(entries[i])
            THEN [entries[i] EXCEPT !.start = prevPercentEnd[i - 1], !.end = prevPercentEnd[i - 1] + entries[i].percentage]
            ELSE entries[i]]

(* ConfigEntry.Equals compares IsPaused of the entry with itself.          *)
EqualEntries(d, e) == [d EXCEPT !.paused = e.paused] = e

GivenRange(e) == e.start > 0 /\ e.end > 0

MutStrictlyInside(e, d) ==
    ~EqualEntries(d, e) /\ GivenRange(d) /\ GivenRange(e) /\ e.start < d.start /\ d.start < e.end

validateDistributionOverlapping(e, d) ==
    ~EqualEntries(d, e) /\ GivenRange(d) /\ GivenRange(e) /\ e.start <= d.start /\ d.start < e.end

(* Both validations, up to the checks that Validate only pretends to make: *)
(* it builds the errors for duplicates and for numbers outside 0..100 and  *)
(* throws them away.                                                       *)
Total(b) == Totals([i \in DOMAIN b.dists |-> b.dists[i].percentage])[Len(b.dists)]
HasConfig(b, c) == c \in DOMAIN FwConfigs /\ FwConfigs[c].app = b.app

LastKnownGoodOK(b) ==
    /\ b.lkg # Empty =>
         HasConfig(b, b.lkg) /\ FwConfigs[b.lkg].version \in b.versions /\ Total(b) # 100
    /\ b.active /\ b.dists # <<>> /\ Total(b) < 100 => b.lkg # Empty

Validate(b) ==
    /\ b.name # Empty /\ b.model # Empty
    /\ \A i \in DOMAIN b.opt : \A c \in Range(ToConditions(b.opt[i])) :
         ~(c.type = "STRING" /\ c.name \in {"env", "model"})
    /\ b.app \in Apps
    /\ b.check => b.versions # {}
    /\ \A i \in DOMAIN b.dists :
         LET e == b.dists[i]
         IN  /\ \A j \in DOMAIN b.dists : ~validateDistributionOverlapping(e, b.dists[j])
             /\ GivenRange(e) => e.start < e.end
             /\ HasConfig(b, e.config) /\ (b.check => FwConfigs[e.config].version \in b.versions)
    /\ Total(b) <= 100
    /\ LastKnownGoodOK(b)
    /\ b.iv # Empty => b.check /\ HasConfig(b, b.iv)

validatePercentageRangeForAS(x) == x \in 0..100

ValidateForAS(b) ==
    /\ Validate(b)
    /\ IsInjective(b.dists)
    /\ \A e \in Range(b.dists) : \A x \in {e.percentage, e.start, e.end} : validatePercentageRangeForAS(x)

(* Two beans may not have one name, nor the same environment, model and    *)
(* optional conditions.                                                    *)
SameConditions(o, p) ==
    \/ o = <<>> /\ p = <<>>
    \/ o # <<>> /\ p # <<>> /\ EqualComplexRules(o[1], p[1])

ValidateAll(b, others) ==
    \A o \in others :
        /\ ~EqualFold(b.name, o.name)
        /\ ~(EqualFold(b.env, o.env) /\ EqualFold(b.model, o.model) /\ SameConditions(b.opt, o.opt))

-----------------------------------------------------------------------------
(* Percentage beans and rules.                                             *)
NewModelRule(model) == IsText("model", model)
NewEnvModelRule(env, model) == AndRules(IsText("env", env), IsText("model", model))

ConvertPercentageBeanToFirmwareRule(b) ==
    LET r == IF b.env # Empty THEN NewEnvModelRule(b.env, b.model) ELSE NewModelRule(b.model)
    IN  FirmwareRule("ENV_MODEL_RULE", b.name, b.app,
          IF b.opt # <<>> THEN AndRules(r, b.opt[1]) ELSE r,
          [NoAction EXCEPT !.class = ".RuleAction", !.type = "RULE", !.active = b.active,
             !.check = b.check, !.reboot = b.reboot, !.whitelist = b.whitelist, !.iv = b.iv,
             !.config = b.lkg, !.entries = ConvertIntoPercentRange(b.dists),
             !.versions = b.versions, !.account = b.account])

(* A condition is put behind the ones found so far; the first one loses    *)
(* its relation, any relation but AND becomes OR.                          *)
MutAlwaysAnd(opt, r) ==
    IF opt = <<>> THEN <<[r EXCEPT !.relation = ""]>> ELSE <<AndRules(opt[1], r)>>

getOptionalRule(opt, r) ==
    IF opt = <<>> THEN <<[r EXCEPT !.relation = ""]>>
    ELSE <<addRelatedCompound(opt[1], r, IF r.relation = "AND" THEN "AND" ELSE "OR")>>

IsEnvOrModel(r) == r.cond.op = "IS" /\ r.cond.type = "STRING" /\ r.cond.name \in {"env", "model"}

OptionalOf(rs) ==
    LET optionalRule[i \in 0..Len(rs)] ==
          IF i = 0 THEN <<>>
          ELSE IF IsEnvOrModel(rs[i]) THEN optionalRule[i - 1]
          ELSE getOptionalRule(optionalRule[i - 1], rs[i])
    IN  optionalRule[Len(rs)]

(* ParseEnvModelRule: the environment, the model, everything else.         *)
ParseEnvModelRule(r) ==
    LET cs == ToConditions(r)
        Value(name) == LastOf(cs, {i \in DOMAIN cs : On(cs[i], name) /\ cs[i].op = "IS"})
    IN  [env |-> Value("env"), model |-> Value("model"), opt |-> OptionalOf(FlattenRule(r))]

parseRuleAction(bean, a) ==
    [bean EXCEPT !.dists = ConvertIntoPercentRange(a.entries), !.lkg = a.config, !.iv = a.iv,
                 !.check = a.check, !.versions = a.versions, !.active = a.active,
                 !.whitelist = a.whitelist, !.reboot = a.reboot, !.account = a.account]

ConvertFirmwareRuleToPercentageBean(fr) ==
    LET m == ParseEnvModelRule(fr.rule)
    IN  parseRuleAction([name |-> fr.name, app |-> fr.app, env |-> m.env, model |-> m.model, opt |-> m.opt,
                         dists |-> <<>>, lkg |-> Empty, iv |-> Empty, check |-> FALSE, versions |-> {},
                         active |-> FALSE, whitelist |-> Empty, reboot |-> FALSE, account |-> FALSE], fr.action)

(* The beans of an application type, as GetEnvModelFirmwareRulesForAS      *)
(* finds their rules.                                                      *)
BeansOf(app, except) ==
    {ConvertFirmwareRuleToPercentageBean(store[id]) : id \in OfType(app, "ENV_MODEL_RULE") \ {except}}

-----------------------------------------------------------------------------
(* IP rules and filters.  A group is its name and its addresses; a list    *)
(* that does not exist gives a group without addresses.                    *)
NoGroup == [name |-> Empty, ips |-> {}]
Group(list) == [name |-> list, ips |-> IF list \in DOMAIN Lists THEN Lists[list] ELSE {}]

GetIpAddressGroup(c) ==
    IF c.op = "IN_LIST" THEN Group(c.fixed.str)
    ELSE IF c.op = "IN" THEN [name |-> c.name \o " in a set", ips |-> c.fixed.set] ELSE NoGroup

LastGroup(cs) ==
    LET I == {i \in DOMAIN cs : cs[i].name = "ipAddress" /\ cs[i].type \in {"STRING", "IP_ADDRESS"}}
    IN  IF I = {} THEN NoGroup ELSE GetIpAddressGroup(cs[Max(I)])

NewIpRule(list, env, model) ==
    AndRules(AndRules(InList("ipAddress", list), IsText("env", env)), IsText("model", model))
NewIpFilter(list) == InList("ipAddress", list)

ConvertIpRuleBeanToFirmwareRule(b) ==
    FirmwareRule("IP_RULE", b.name, Empty, NewIpRule(b.group, b.env, b.model),
                 [NoAction EXCEPT !.class = ".RuleAction", !.type = "RULE", !.config = b.config])

(* Every condition's value is taken for the model, so the last one is.     *)
ConvertFirmwareRuleToIpRuleBean(fr) ==
    LET cs == [i \in DOMAIN fr.rule.parts |-> fr.rule.parts[i].cond]
    IN  [name |-> fr.name, group |-> LastGroup(cs).name,
         env |-> LastOf(cs, {i \in DOMAIN cs : On(cs[i], "env")}),
         model |-> LastOf(cs, DOMAIN cs),
         config |-> IF fr.action.config \in DOMAIN FwConfigs THEN fr.action.config ELSE Empty]

IpRulesOf(app) == {ConvertFirmwareRuleToIpRuleBean(store[id]) : id \in OfType(app, "IP_RULE")}

ConvertIpFilterToFirmwareRule(f) ==
    FirmwareRule("IP_FILTER", f.name, Empty, NewIpFilter(f.group),
                 NewApplicableActionAndType(".BlockingFilterAction", "BLOCKING_FILTER", Empty))

ConvertFirmwareRuleToIpFilter(fr) ==
    [name |-> fr.name, group |-> LastGroup(ToConditions(fr.rule)).name]

IpFiltersByApplicationType(app) ==
    {ConvertFirmwareRuleToIpFilter(store[id]) : id \in OfType(app, "IP_FILTER")}

-----------------------------------------------------------------------------

(* Time filters.                                                           *)
convertConditions(parts) ==
    LET cs == [i \in DOMAIN parts |-> parts[i].cond]
        Of(name, op) == {i \in DOMAIN cs : cs[i].name = name /\ cs[i].op = op}
        Named(name) == {i \in DOMAIN cs : cs[i].name = name}
    IN  [neverReboot |-> Of("rebootDecoupled", "EXISTS") # {}, neverHttp |-> Of("downloadProtocol", "IS") # {},
         ips |-> LastGroup(cs).name, model |-> LastOf(cs, Named("model")), env |-> LastOf(cs, Named("env")),
         start |-> LastOf(cs, Of("time", "GTE")), end |-> LastOf(cs, Of("time", "LTE")),
         localTime |-> \E i \in DOMAIN parts : cs[i].name = "timeZone" /\ parts[i].negated]

TimeFiltersByApplicationType(app) ==
    {convertConditions(store[id].rule.parts) : id \in OfType(app, "TIME_FILTER")}

-----------------------------------------------------------------------------
(* MAC rules: listed without names that differ only in case, in the order  *)
(* in which the table happens to be listed, and searched for an address.   *)
NewMacRule(list) == InList("eStbMac", list)

GetByApplicationType(order) ==
    LET shown[i \in 0..Len(order)] ==
          IF i = 0 THEN <<>>
          ELSE IF \E d \in Range(shown[i - 1]) : EqualFold(store[d].name, store[order[i]].name)
          THEN shown[i - 1] ELSE Append(shown[i - 1], order[i])
    IN  shown[Len(order)]

IsExistConditionByFreeArgName(r, name) == \E c \in Range(ToConditions(r)) : c.name = name

GetFirmwareMacRules(app) ==
    {id \in Stored : store[id].app = app /\ store[id].action.type = "RULE"
                     /\ IsExistConditionByFreeArgName(store[id].rule, "eStbMac")}

isExistMacAddressInList(macs, part) == macs \cap MacParts[part] # {}
HitInList(c, part) ==
    c.op = "IN_LIST" /\ c.fixed.str \in MacLists /\ isExistMacAddressInList(Lists[c.fixed.str], part)
Listed(c) == IF c.op = "IS" THEN {c.fixed.str} ELSE IF c.op = "IN" THEN c.fixed.set ELSE {}

(* The conditions are tried in turn, the addresses of those passed add up; *)
(* the first success is reported.                                          *)
SearchMacRule(r, part) ==
    LET cs == ToConditions(r)
        OnMac(i) == cs[i].name = "eStbMac"
        Passed(i) == UNION {Listed(cs[j]) : j \in {j \in 1..i : OnMac(j)}}
        I == {i \in DOMAIN cs : OnMac(i) /\ (HitInList(cs[i], part) \/ isExistMacAddressInList(Passed(i), part))}
        c == cs[Min(I)]
    IN  IF I = {} THEN <<>>
        ELSE <<[ref |-> IF HitInList(c, part) THEN c.fixed.str ELSE Empty, macs |-> Passed(Min(I))]>>

-----------------------------------------------------------------------------
(* Activation versions.                                                    *)
newActivationRule(partner, model) ==
    AndIf(partner # Empty, IsText("model", model), IsText("partnerId", partner))

convertDefineProperties(a) ==
    [NoAction EXCEPT !.class = ".DefinePropertiesAction", !.type = "DEFINE_PROPERTIES",
                     !.versions = a.versions, !.regexs = a.regexs]

ConvertIntoRule(a) ==
    FirmwareRule("ACTIVATION_VERSION", a.name, a.app, newActivationRule(a.partner, a.model),
                 convertDefineProperties(a))

(* getMolelfromfirmwarerule, getPartneridFromFirmwarerule: the parts of a  *)
(* compound rule, the condition of a simple one.                           *)
ValueOf(r, name) ==
    LET cs == IF r.compound THEN [i \in DOMAIN r.parts |-> r.parts[i].cond] ELSE <<r.cond>>
    IN  LastOf(cs, {i \in DOMAIN cs : On(cs[i], name)})

ConvertIntoActivationVersion(fr) ==
    [name |-> fr.name, app |-> fr.app, model |-> ValueOf(fr.rule, "model"),
     partner |-> ValueOf(fr.rule, "partnerId"), versions |-> fr.action.versions, regexs |-> fr.action.regexs]

-----------------------------------------------------------------------------
(* Download locations.  props: protocol, location and IPv6 location.       *)
NewDownloadLocationFilter(list, protocol) ==
    AndIf(protocol # Empty, InList("ipAddress", list), IsText("downloadProtocol", protocol))

(* The group is read from a simple rule only; everything that is not tftp  *)
(* is taken for http.                                                      *)
setDownloadLocationFilter(fr) ==
    [group |-> IF fr.rule.compound THEN NoGroup ELSE GetIpAddressGroup(fr.rule.cond),
     http |-> fr.action.props[1] # "tftp", location |-> fr.action.props[2],
     ipv6 |-> IF fr.action.props[1] = "tftp" THEN fr.action.props[3] ELSE Empty]

DownloadLocationFiltersByApplicationType(app) ==
    {setDownloadLocationFilter(store[id]) : id \in OfType(app, "DOWNLOAD_LOCATION_FILTER")}

(* The sum of the shares is cut off to whole percents before it is checked.*)
Shares(locations) == Totals([i \in DOMAIN locations |-> locations[i].tenths])
Sum(locations) == Shares(locations)[Len(locations)]
Addresses(locations) == {l.ip : l \in Range(locations)}

ValidateRoundRobin(f) ==
    /\ \A l \in Range(f.locations) : l.tenths >= 0 /\ ~l.isIpv6
    /\ \A l \in Range(f.ipv6) : l.tenths >= 0 /\ l.isIpv6
    /\ Cardinality(Addresses(f.locations)) = Len(f.locations)
    /\ Cardinality(Addresses(f.ipv6)) = Len(f.ipv6)
    /\ Sum(f.locations) \div 10 = 100
    /\ Sum(f.ipv6) \div 10 \in {0, 100}

(* One draw for both lists: the first location whose shares, with those    *)
(* before it, exceed it.                                                   *)
DrawFrom(locations, random) ==
    LET I == {i \in DOMAIN locations : random < Shares(locations)[i]}
    IN  IF I = {} THEN Empty ELSE locations[Min(I)].ip
GetDownloadLocations(f, random) == <<DrawFrom(f.locations, random), DrawFrom(f.ipv6, random)>>

-----------------------------------------------------------------------------
(* The global percentage: a blocking filter under a fixed id.              *)

NewGlobalPercentFilter(percent, list) ==
    AndIf(list # Empty,
          AndRules(Not(InText("matchedRuleType", {"ENV_MODEL_RULE", "MIN_CHECK_RULE", "IV_RULE"})),
                   Leaf(Cond("STRING", "eStbMac", "PERCENT", Dbl(percent)))),
          InList("ipAddress", list))

ConvertIntoGlobalPercentage(f, app) ==
    FirmwareRule("GLOBAL_PERCENT", "GLOBAL_PERCENT", app, NewGlobalPercentFilter(100 - f.percentage, f.whitelist),
                 NewApplicableActionAndType(".BlockingFilterAction", "BLOCKING_FILTER", Empty))

ConvertIntoGlobalPercentageFirmwareRule(fr) ==
    LET cs == ToConditions(fr.rule)
        percents == {100 - c.fixed.num : c \in {x \in Range(cs) : x.op = "PERCENT"}}
    IN  [percentage |-> IF percents = {} THEN 100 ELSE CHOOSE x \in percents : TRUE,
         whitelist |-> LastOf(cs, {i \in DOMAIN cs : cs[i].op = "IN_LIST" /\ On(cs[i], "ipAddress")})]

-----------------------------------------------------------------------------
(* What operators fill in.  Optional conditions are a condition, or a list *)
(* of them that is not empty and whose first one is joined to nothing.     *)
OptionalRules ==
    {r \in Rules[MaxDepth - 1] :
        r.relation = "" /\ (r.compound => r.parts # <<>> /\ r.parts[1].relation = "")}
ConfigEntries == [config : STRING, percentage : Int, start : Int, end : Int, paused : BOOLEAN]
Locations == [ip : STRING \ {Empty}, tenths : Int, isIpv6 : BOOLEAN]

ASSUME BeanFormsOK ==
    /\ PercentageBeans \subseteq
         [name : STRING, env : STRING, model : STRING, opt : Seq(OptionalRules), dists : Seq(ConfigEntries),
          lkg : STRING, iv : STRING, check : BOOLEAN, versions : SUBSET STRING, active : BOOLEAN, app : STRING,
          whitelist : STRING, reboot : BOOLEAN, account : BOOLEAN]
    /\ \A b \in PercentageBeans : Len(b.opt) <= 1
    /\ IpRuleBeans \subseteq
         [name : STRING, group : STRING, env : Values, model : Values, config : DOMAIN FwConfigs \cup {Empty}]
    /\ IpFilterForms \subseteq [name : STRING, group : STRING]
    /\ TimeForms \subseteq Filters
    /\ MacForms \subseteq [name : STRING, rule : AllRules]
    /\ ActivationVersions \subseteq
         [name : STRING, app : STRING, model : STRING, partner : STRING, versions : SUBSET STRING, regexs : SUBSET STRING]
    /\ LocationForms \subseteq
         [name : STRING, group : STRING, only : {Empty, "http", "tftp"}, protocol : STRING, location : STRING, ipv6 : STRING]
    /\ GlobalFilters \subseteq [percentage : Int, whitelist : STRING]
    /\ RoundRobinForms \subseteq [locations : Seq(Locations), ipv6 : Seq(Locations)]
    /\ Empty \notin DOMAIN FwConfigs /\ MacLists \subseteq DOMAIN Lists

(* The ids of operators' rules are none of the fixed ones, of which each   *)
(* application type has its own.                                           *)
ASSUME BeanIdsOK ==
    /\ IsFiniteSet(BeanIds) /\ IsFiniteSet(Apps) /\ "stb" \in Apps
    /\ BeanIds \cap (GlobalIds \cup Apps) = {}
    /\ \A a, b \in Apps : getGlobalPercentId(a) = getGlobalPercentId(b) => a = b
    /\ {"tftp", "partnerId", "matchedRuleType", "PERCENT", "ENV_MODEL_RULE", "MIN_CHECK_RULE", "IV_RULE"} \subseteq STRING

BeanInit ==
    /\ store = [id \in BeanIds \cup GlobalIds |-> NoRule]
    /\ posted = [id \in BeanIds \cup Apps |-> NoForm]
    /\ roundRobins = [a \in Apps |-> {}]

Put(id, fr, kind, form) ==
    /\ store' = [store EXCEPT ![id] = fr]
    /\ posted' = [posted EXCEPT ![id] = <<kind, form>>]
    /\ UNCHANGED roundRobins

(* The admin service, which uses this module as its library, validates a   *)
(* bean and saves its rule.                                                *)
SavePercentageBean(id, b) ==
    /\ ValidateForAS(b) /\ ValidateAll(b, BeansOf(b.app, id))
    /\ Put(id, ConvertPercentageBeanToFirmwareRule(b), "bean", b)

(* The same with the validation that lets duplicates and any number pass:  *)
(* a save of what the other would have refused.                            *)
SaveLeniently(id, b) ==
    /\ Validate(b) /\ ~ValidateForAS(b) /\ ValidateAll(b, BeansOf(b.app, id))
    /\ Put(id, ConvertPercentageBeanToFirmwareRule(b), "lenient", b)

SaveIpRule(id, b, app) ==
    /\ ValidRule(ConvertIpRuleBeanToFirmwareRule(b))
    /\ Put(id, [ConvertIpRuleBeanToFirmwareRule(b) EXCEPT !.app = app], "ip", b)

SaveIpFilter(id, f, app) ==
    Put(id, [ConvertIpFilterToFirmwareRule(f) EXCEPT !.app = app], "ipFilter", f)

DeleteRule(id) ==
    /\ store[id] # NoRule
    /\ Put(id, NoRule, "none", {})

(* CreateFirmwareRuleOneDB, with what the admin service makes of a form.   *)
CreateFirmwareRuleOneDB(id, fr, kind, form) == ValidRule(fr) /\ Put(id, fr, kind, form)

SaveTimeFilter(id, p, app) ==
    CreateFirmwareRuleOneDB(id, FirmwareRule("TIME_FILTER", "n1", app, createTimeFilter(p),
        NewApplicableActionAndType(".BlockingFilterAction", "BLOCKING_FILTER", Empty)), "time", p)

SaveMacRule(id, f, app) ==
    CreateFirmwareRuleOneDB(id, FirmwareRule("MAC_RULE", f.name, app, f.rule,
        NewApplicableActionAndType(".RuleAction", "RULE", Empty)), "mac", f)

SaveActivationVersion(id, a) == CreateFirmwareRuleOneDB(id, ConvertIntoRule(a), "activation", a)

SaveLocationFilter(id, f, app) ==
    CreateFirmwareRuleOneDB(id, FirmwareRule("DOWNLOAD_LOCATION_FILTER", f.name, app,
        NewDownloadLocationFilter(f.group, f.only),
        [NewApplicableActionAndType(".DefinePropertiesAction", "DEFINE_PROPERTIES", Empty)
            EXCEPT !.props = <<f.protocol, f.location, f.ipv6>>]), "location", f)

(* PercentFilterService.Save: 100 percent without a white list makes no    *)
(* rule, and leaves the one there is in place.                             *)
SavePercentFilter(f, app) ==
    /\ ~(f.percentage = 100 /\ f.whitelist = Empty)
    /\ ValidRule(ConvertIntoGlobalPercentage(f, app))
    /\ store' = [store EXCEPT ![getGlobalPercentId(app)] = ConvertIntoGlobalPercentage(f, app)]
    /\ posted' = [posted EXCEPT ![app] = <<"global", f>>]
    /\ UNCHANGED roundRobins

SaveRoundRobin(f, app) ==
    /\ ValidateRoundRobin(f)
    /\ roundRobins' = [roundRobins EXCEPT ![app] = {f}]
    /\ UNCHANGED <<store, posted>>

FormNext ==
    \/ \E id \in BeanIds, b \in PercentageBeans : SavePercentageBean(id, b)
    \/ \E id \in BeanIds, b \in PercentageBeans : SaveLeniently(id, b)
    \/ \E id \in BeanIds, b \in IpRuleBeans, app \in Apps : SaveIpRule(id, b, app)
    \/ \E id \in BeanIds, f \in IpFilterForms, app \in Apps : SaveIpFilter(id, f, app)
    \/ \E id \in BeanIds, p \in TimeForms, app \in Apps : SaveTimeFilter(id, p, app)
    \/ \E id \in BeanIds, f \in MacForms, app \in Apps : SaveMacRule(id, f, app)
    \/ \E id \in BeanIds, a \in ActivationVersions : SaveActivationVersion(id, a)
    \/ \E id \in BeanIds, f \in LocationForms, app \in Apps : SaveLocationFilter(id, f, app)
    \/ \E id \in BeanIds : DeleteRule(id)

FilterNext ==
    \/ \E f \in GlobalFilters, app \in Apps : SavePercentFilter(f, app)
    \/ \E f \in RoundRobinForms, app \in Apps : SaveRoundRobin(f, app)

BeanNext == FormNext \/ FilterNext

BeanSpec == BeanInit /\ [][BeanNext]_beanVars

-----------------------------------------------------------------------------
(* Every stored rule passes FirmwareRule.Validate, also those that         *)
(* IpFilterService.save writes without asking.                             *)
BeansTypeOK ==
    /\ \A fr \in GetFirmwareRuleAllAsListDBForAdmin : ValidRule(fr)
    /\ \A id \in BeanIds : store[id] = NoRule <=> posted[id] = NoForm

Saved == Stored \cap BeanIds
Kind(id) == posted[id][1]
Form(id) == posted[id][2]
IsBean(id) == Kind(id) \in {"bean", "lenient"}

(* Optional conditions without nesting: the others come back flattened.    *)
FlatConditions(b) == b.opt = <<>> \/ ~b.opt[1].compound \/ Flat(b.opt[1])

(* A percentage bean that is read and saved again selects the same         *)
(* devices: ConvertFirmwareRuleToPercentageBean takes the rule apart, with *)
(* its one list of conditions, so that ConvertPercentageBeanToFirmwareRule *)
(* puts an equivalent one together.                                        *)
ReadBackSelects ==
    \A id \in Saved : IsBean(id) /\ FlatConditions(Form(id)) =>
        LET again == ConvertPercentageBeanToFirmwareRule(ConvertFirmwareRuleToPercentageBean(store[id]))
        IN  /\ again.action = store[id].action
            /\ \A ctx \in BeanContexts : Evaluate(again.rule, ctx) <=> Evaluate(store[id].rule, ctx)

Implicit(b) == \A e \in Range(b.dists) : NoRange(e)
Explicit(b) == \A e \in Range(b.dists) : GivenRange(e)
Hit(e, hash) == e.start < hash /\ hash <= e.end
(* The hashes at which a device may enter or leave a range.                *)
Edges(es) == ({1} \cup {e.start + 1 : e \in es} \cup {e.end + 1 : e \in es}) \cap 1..100

(* What ValidateForAS lets pass offers no device two different             *)
(* configurations, when all ranges are given or none is: with some of      *)
(* each, ConvertIntoPercentRange may put one over another.                 *)
NoTwoConfigs ==
    \A id \in Saved : Kind(id) = "bean" /\ (Implicit(Form(id)) \/ Explicit(Form(id))) =>
        LET es == Range(store[id].action.entries)
        IN  \A d, e \in es, hash \in Edges(es) : Hit(d, hash) /\ Hit(e, hash) => d.config = e.config

(* An active bean with distributions leaves nobody without firmware: the   *)
(* ranges it is given cover every device, or it has a last known good      *)
(* version, by either validation.                                          *)
NobodyLeftOut ==
    \A id \in Saved : IsBean(id) /\ Form(id).active /\ Form(id).dists # <<>> /\ Implicit(Form(id)) =>
        LET es == Range(store[id].action.entries)
        IN  store[id].action.config # Empty \/ \A hash \in Edges(es) : \E e \in es : Hit(e, hash)

(* A bean that was accepted is accepted again as it is read, whatever was  *)
(* saved since (given that its shares are positive and their ranges all or *)
(* none given, and that no bean of its application type has nested         *)
(* conditions, which may read like its own once they are flattened).       *)
AcceptedAgain ==
    \A id \in Saved :
        /\ Kind(id) = "bean" /\ (Implicit(Form(id)) \/ Explicit(Form(id)))
        /\ \A j \in OfType(store[id].app, "ENV_MODEL_RULE") : FlatConditions(Form(j))
        /\ \A e \in Range(Form(id).dists) : e.percentage > 0
        => LET b == ConvertFirmwareRuleToPercentageBean(store[id])
           IN  ValidateForAS(b) /\ ValidateAll(b, BeansOf(b.app, id))

(* ValidateAll keeps the rules of percentage beans apart: no two have      *)
(* names that differ at most in case, or select the same devices of the    *)
(* same environment and model by conditions that EqualComplexRules equates.*)
DistinctBeans ==
    \A i, j \in Saved : i # j /\ IsBean(i) /\ IsBean(j) /\ store[i].app = store[j].app =>
        LET b == ConvertFirmwareRuleToPercentageBean(store[i])
            c == ConvertFirmwareRuleToPercentageBean(store[j])
        IN  /\ ~EqualFold(b.name, c.name)
            /\ FlatConditions(Form(i)) /\ FlatConditions(Form(j)) =>
                 ~(EqualFold(b.env, c.env) /\ EqualFold(b.model, c.model) /\ SameConditions(b.opt, c.opt))

(* The global percentage that is read is the one saved last for its        *)
(* application type, whatever is saved for the others (a save of 100       *)
(* percent without a white list does nothing).                             *)
GlobalKept ==
    \A app \in Apps : posted[app] # NoForm =>
        LET fr == store[getGlobalPercentId(app)]
        IN  fr.app = app /\ ConvertIntoGlobalPercentageFirmwareRule(fr) = Form(app)

(* IP rules and IP filters are listed, for their application type, as they *)
(* were saved: it is the order of NewIpRule's conditions that saves the    *)
(* model.                                                                  *)
IpFormsReadBack ==
    \A id \in Saved :
        /\ Kind(id) = "ip" => Form(id) \in IpRulesOf(store[id].app)
        /\ Kind(id) = "ipFilter" => Form(id) \in IpFiltersByApplicationType(store[id].app)

(* convertConditions finds in the rule of createTimeFilter what it was     *)
(* made from; an environment or a model alone was never in it.             *)
TimeFilterReadsBack ==
    \A id \in Saved : Kind(id) = "time" =>
        LET p == Form(id)
            both == p.env # Empty /\ p.model # Empty
        IN  [p EXCEPT !.env = IF both THEN @ ELSE Empty, !.model = IF both THEN @ ELSE Empty]
                \in TimeFiltersByApplicationType(store[id].app)

(* An activation version comes back from its rule as it was, with or       *)
(* without a partner.                                                      *)
ActivationReadsBack ==
    \A id \in Saved : Kind(id) = "activation" => ConvertIntoActivationVersion(store[id]) = Form(id)

(* A listed download location filter says what a device is sent: its       *)
(* location, and over http unless the rule says tftp.                      *)
LocationReadsBack ==
    \A id \in Saved : Kind(id) = "location" =>
        \E f \in DownloadLocationFiltersByApplicationType(store[id].app) :
            /\ f.location = Form(id).location /\ (f.http <=> Form(id).protocol # "tftp")
            /\ f.ipv6 = IF f.http THEN Empty ELSE Form(id).ipv6
            /\ Form(id).only = Empty => f.group.name = Form(id).group

(* Once DownloadLocationRoundRobinFilterValue.Validate has accepted a      *)
(* filter, every draw of GetDownloadLocations lands on a location, and on  *)
(* an IPv6 one when their shares are given.                                *)
LocationDrawn ==
    \A a \in Apps : \A f \in roundRobins[a] :
      \A random \in {0, 999} \cup ({Shares(f.locations)[i] : i \in DOMAIN f.locations} \cap 0..999) :
        LET d == GetDownloadLocations(f, random)
        IN  d[1] # Empty /\ (d[2] = Empty => Sum(f.ipv6) < 10)

(* MAC rules are listed once per name whatever the order of the table, and *)
(* a search finds exactly the rules one of whose conditions holds the      *)
(* address, and shows where.                                               *)
MacRulesFound ==
    \A app \in Apps :
        /\ \A order \in SetToSeqs(OfType(app, "MAC_RULE")) :
             LET shown == GetByApplicationType(order)
                 Names(ids) == {LowerName[store[id].name] : id \in Range(ids)}
             IN  Names(shown) = Names(order) /\ Cardinality(Names(shown)) = Len(shown)
        /\ \A id \in GetFirmwareMacRules(app), part \in DOMAIN MacParts :
             LET answer == SearchMacRule(store[id].rule, part)
                 holds == {c \in Range(ToConditions(store[id].rule)) : c.name = "eStbMac" /\
                              (HitInList(c, part) \/ isExistMacAddressInList(Listed(c), part))}
             IN  /\ answer = <<>> <=> holds = {}
                 /\ answer # <<>> =>
                      \/ answer[1].ref # Empty /\ Lists[answer[1].ref] \cap MacParts[part] # {}
                      \/ answer[1].macs \cap MacParts[part] # {}

(* The forms of firmware rules and filters survive the conversion into a   *)
(* rule and back, whatever else is saved or deleted in the one table they  *)
(* share.                                                                  *)
FormsReadBack ==
    /\ ReadBackSelects
    /\ IpFormsReadBack
    /\ TimeFilterReadsBack
    /\ ActivationReadsBack
    /\ LocationReadsBack
    /\ GlobalKept
    /\ MacRulesFound

(* What the validations of percentage beans and of the round-robin filter  *)
(* let pass gives each device one answer: rules that are valid and         *)
(* distinct, distributions without overlap or gap, shares that cover every *)
(* draw.                                                                   *)
BeansSound ==
    /\ BeansTypeOK
    /\ NoTwoConfigs
    /\ NobodyLeftOut
    /\ AcceptedAgain
    /\ DistinctBeans
    /\ LocationDrawn
=============================================================================
