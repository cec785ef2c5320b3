------------------------------ MODULE BeanProofs ------------------------------
(***************************************************************************)
(* Proofs about the forms of firmware rules (RuleBeans) and the answers to *)
(* BSE requests (FirmwareQueries), for any forms, ids, lists and requests. *)
(***************************************************************************)
EXTENDS RuleProofs, FirmwareQueries, FiniteSetTheorems

-----------------------------------------------------------------------------
(* What is stored under the id of an operator's rule, and what was saved.  *)
IpRuleOf(b, app) == [ConvertIpRuleBeanToFirmwareRule(b) EXCEPT !.app = app]
IpFilterOf(f, app) == [ConvertIpFilterToFirmwareRule(f) EXCEPT !.app = app]
TimeRuleOf(p, app) ==
    FirmwareRule("TIME_FILTER", "n1", app, createTimeFilter(p),
        NewApplicableActionAndType(".BlockingFilterAction", "BLOCKING_FILTER", Empty))
MacRuleOf(f, app) ==
    FirmwareRule("MAC_RULE", f.name, app, f.rule, NewApplicableActionAndType(".RuleAction", "RULE", Empty))
Properties(f) ==
    [NewApplicableActionAndType(".DefinePropertiesAction", "DEFINE_PROPERTIES", Empty)
        EXCEPT !.props = <<f.protocol, f.location, f.ipv6>>]
LocationOf(f, app) ==
    FirmwareRule("DOWNLOAD_LOCATION_FILTER", f.name, app, NewDownloadLocationFilter(f.group, f.only), Properties(f))
LocationRuleOf(f, app) == FirmwareRule("DOWNLOAD_LOCATION_FILTER", f.name, app, f.rule, Properties(f))

IsNone(fr, q) == q = NoForm /\ fr = NoRule
IsStrict(fr, q) ==
    \E b \in PercentageBeans : q = <<"bean", b>> /\ ValidateForAS(b) /\ fr = ConvertPercentageBeanToFirmwareRule(b)
IsLenient(fr, q) ==
    \E b \in PercentageBeans : q = <<"lenient", b>> /\ Validate(b) /\ fr = ConvertPercentageBeanToFirmwareRule(b)
IsIpRule(fr, q) == \E b \in IpRuleBeans, app \in Apps : q = <<"ip", b>> /\ fr = IpRuleOf(b, app)
IsIpFilter(fr, q) == \E f \in IpFilterForms, app \in Apps : q = <<"ipFilter", f>> /\ fr = IpFilterOf(f, app)
IsTimeFilter(fr, q) == \E p \in TimeForms, app \in Apps : q = <<"time", p>> /\ fr = TimeRuleOf(p, app)
IsMacRule(fr, q) == \E f \in MacForms, app \in Apps : q = <<"mac", f>> /\ fr = MacRuleOf(f, app)
IsActivation(fr, q) == \E a \in ActivationVersions : q = <<"activation", a>> /\ fr = ConvertIntoRule(a)
IsLocation(fr, q) == \E f \in LocationForms, app \in Apps : q = <<"location", f>> /\ fr = LocationOf(f, app)
IsLocationRule(fr, q) == \E f \in LocationRules : q = <<"locationRule", f>> /\ fr = LocationRuleOf(f, "stb")

SavedAs(fr, q) ==
    \/ IsNone(fr, q) \/ IsStrict(fr, q) \/ IsLenient(fr, q) \/ IsIpRule(fr, q) \/ IsIpFilter(fr, q)
    \/ IsTimeFilter(fr, q) \/ IsMacRule(fr, q) \/ IsActivation(fr, q) \/ IsLocation(fr, q) \/ IsLocationRule(fr, q)

(* The global percentage of an application type, under its own id.         *)
IsGlobal(fr, q, app) ==
    \/ q = NoForm /\ fr = NoRule
    \/ \E f \in GlobalFilters : q = <<"global", f>> /\ fr = ConvertIntoGlobalPercentage(f, app)

SlotsOK == \A id \in BeanIds : SavedAs(store[id], posted[id])
GlobalsOK == \A app \in Apps : IsGlobal(store[getGlobalPercentId(app)], posted[app], app)
RobinsOK ==
    \A a \in Apps : roundRobins[a] = {} \/ \E f \in RoundRobinForms : ValidateRoundRobin(f) /\ roundRobins[a] = {f}
TablesOK ==
    /\ store = [id \in BeanIds \cup GlobalIds |-> store[id]]
    /\ posted = [id \in BeanIds \cup Apps |-> posted[id]]
    /\ roundRobins = [a \in Apps |-> roundRobins[a]]

(* Every id of an operator holds what the form saved under it last was     *)
(* converted into, and the form passed the validation it was saved by.     *)
BeanInv == TablesOK /\ SlotsOK /\ GlobalsOK /\ RobinsOK

LEMMA GlobalIdOf == \A app \in Apps : getGlobalPercentId(app) \in GlobalIds /\ getGlobalPercentId(app) \notin BeanIds /\ app \notin BeanIds
<1>1. ASSUME NEW app \in Apps PROVE getGlobalPercentId(app) \in GlobalIds
  <2>1. CASE app = "stb"
    BY <2>1 DEF getGlobalPercentId, GlobalIds
  <2>2. CASE app # "stb"
    <3>1. app \in Apps \ {"stb"}
      BY <2>2
    <3>2. getGlobalPercentId(app) = app \o "_GLOBAL_PERCENT"
      BY <2>2 DEF getGlobalPercentId
    <3>3. QED BY <3>1, <3>2, Zenon DEF GlobalIds
  <2>3. QED BY <2>1, <2>2
<1>2. \A x \in GlobalIds \cup Apps : x \notin BeanIds
  BY BeanIdsOK, Zenon
<1>3. QED BY <1>1, <1>2

LEMMA GlobalIdsOf == \A id \in GlobalIds : \E app \in Apps : id = getGlobalPercentId(app)
BY BeanIdsOK DEF getGlobalPercentId, GlobalIds

LEMMA BeanInitInv == BeanInit => BeanInv
<1> SUFFICES ASSUME BeanInit PROVE BeanInv
  OBVIOUS
<1>1. TablesOK
  BY DEF BeanInit, TablesOK
<1>2. SlotsOK
  BY DEF BeanInit, SlotsOK, SavedAs, IsNone
<1>3. GlobalsOK
  BY GlobalIdOf DEF BeanInit, GlobalsOK, IsGlobal
<1>4. RobinsOK
  BY DEF BeanInit, RobinsOK
<1>5. QED BY <1>1, <1>2, <1>3, <1>4 DEF BeanInv

(* Saving under the id of an operator's rule.                              *)
LEMMA PutInv ==
    ASSUME BeanInv, NEW id \in BeanIds, NEW fr, NEW kind, NEW form, Put(id, fr, kind, form), SavedAs(fr, <<kind, form>>)
    PROVE  BeanInv'
<1>0. /\ store = [i \in BeanIds \cup GlobalIds |-> store[i]] /\ posted = [i \in BeanIds \cup Apps |-> posted[i]]
      /\ store' = [store EXCEPT ![id] = fr] /\ posted' = [posted EXCEPT ![id] = <<kind, form>>]
      /\ roundRobins' = roundRobins
  BY DEF BeanInv, TablesOK, Put
<1>1. TablesOK'
  <2>1. store' = [i \in BeanIds \cup GlobalIds |-> store'[i]]
    BY <1>0
  <2>2. posted' = [i \in BeanIds \cup Apps |-> posted'[i]]
    BY <1>0
  <2>3. QED BY <1>0, <2>1, <2>2 DEF BeanInv, TablesOK
<1>2. \A i \in BeanIds : store'[i] = (IF i = id THEN fr ELSE store[i]) /\ posted'[i] = IF i = id THEN <<kind, form>> ELSE posted[i]
  BY <1>0
<1>3. SlotsOK'
  <2>1. ASSUME NEW i \in BeanIds PROVE SavedAs(store'[i], posted'[i])
    <3>1. CASE i = id
      <4>1. store'[i] = fr /\ posted'[i] = <<kind, form>>
        BY <1>2, <3>1
      <4>2. QED BY <4>1
    <3>2. CASE i # id
      <4>1. store'[i] = store[i] /\ posted'[i] = posted[i]
        BY <1>2, <3>2
      <4>2. QED BY <4>1 DEF BeanInv, SlotsOK
    <3>3. QED BY <3>1, <3>2
  <2>2. QED BY <2>1 DEF SlotsOK
<1>4. GlobalsOK'
  <2>1. ASSUME NEW app \in Apps PROVE store'[getGlobalPercentId(app)] = store[getGlobalPercentId(app)] /\ posted'[app] = posted[app]
    BY <1>0, GlobalIdOf
  <2>2. QED BY <2>1 DEF BeanInv, GlobalsOK
<1>5. RobinsOK'
  BY <1>0 DEF BeanInv, RobinsOK
<1>6. QED BY <1>1, <1>3, <1>4, <1>5 DEF BeanInv

LEMMA GlobalInv ==
    ASSUME BeanInv, NEW f \in GlobalFilters, NEW app \in Apps, SavePercentFilter(f, app)
    PROVE  BeanInv'
<1> DEFINE g == getGlobalPercentId(app)
           fr == ConvertIntoGlobalPercentage(f, app)
<1>0. /\ store = [i \in BeanIds \cup GlobalIds |-> store[i]] /\ posted = [i \in BeanIds \cup Apps |-> posted[i]]
      /\ store' = [store EXCEPT ![g] = fr] /\ posted' = [posted EXCEPT ![app] = <<"global", f>>]
      /\ roundRobins' = roundRobins
  BY DEF BeanInv, TablesOK, SavePercentFilter
<1>1. g \in GlobalIds /\ g \notin BeanIds /\ \A a \in Apps : a \notin BeanIds
  BY GlobalIdOf
<1> HIDE DEF g, fr
<1>2. TablesOK'
  <2>1. store' = [i \in BeanIds \cup GlobalIds |-> store'[i]]
    BY <1>0
  <2>2. posted' = [i \in BeanIds \cup Apps |-> posted'[i]]
    BY <1>0
  <2>3. QED BY <1>0, <2>1, <2>2 DEF BeanInv, TablesOK
<1>3. SlotsOK'
  <2>1. ASSUME NEW i \in BeanIds PROVE store'[i] = store[i] /\ posted'[i] = posted[i]
    BY <1>0, <1>1
  <2>2. QED BY <2>1 DEF BeanInv, SlotsOK
<1>4. GlobalsOK'
  <2>1. ASSUME NEW a \in Apps PROVE IsGlobal(store'[getGlobalPercentId(a)], posted'[a], a)
    <3>0. getGlobalPercentId(a) \in GlobalIds
      BY GlobalIdOf
    <3>1. CASE a = app
      <4>1. store'[getGlobalPercentId(a)] = fr /\ posted'[a] = <<"global", f>>
        BY <1>0, <1>1, <3>1 DEF g
      <4>2. QED BY <3>1, <4>1 DEF IsGlobal, fr
    <3>2. CASE a # app
      <4>1. getGlobalPercentId(a) # g
        BY <3>2, BeanIdsOK DEF g
      <4>2. store'[getGlobalPercentId(a)] = store[getGlobalPercentId(a)] /\ posted'[a] = posted[a]
        BY <1>0, <3>0, <3>2, <4>1
      <4>3. QED BY <4>2 DEF BeanInv, GlobalsOK
    <3>3. QED BY <3>1, <3>2
  <2>2. QED BY <2>1 DEF GlobalsOK
<1>5. RobinsOK'
  BY <1>0 DEF BeanInv, RobinsOK
<1>6. QED BY <1>2, <1>3, <1>4, <1>5 DEF BeanInv

LEMMA RobinInv ==
    ASSUME BeanInv, NEW f \in RoundRobinForms, NEW app \in Apps, SaveRoundRobin(f, app)
    PROVE  BeanInv'
<1>0. /\ roundRobins = [a \in Apps |-> roundRobins[a]] /\ roundRobins' = [roundRobins EXCEPT ![app] = {f}]
      /\ store' = store /\ posted' = posted /\ ValidateRoundRobin(f)
  BY DEF BeanInv, TablesOK, SaveRoundRobin
<1>1. TablesOK'
  <2>1. roundRobins' = [a \in Apps |-> roundRobins'[a]]
    BY <1>0
  <2>2. QED BY <1>0, <2>1 DEF BeanInv, TablesOK
<1>2. SlotsOK' /\ GlobalsOK'
  BY <1>0 DEF BeanInv, SlotsOK, GlobalsOK
<1>3. RobinsOK'
  <2>1. ASSUME NEW a \in Apps
        PROVE  roundRobins'[a] = {} \/ \E g \in RoundRobinForms : ValidateRoundRobin(g) /\ roundRobins'[a] = {g}
    <3>1. CASE a = app
      BY <1>0, <3>1
    <3>2. CASE a # app
      <4>1. roundRobins'[a] = roundRobins[a]
        BY <1>0, <3>2
      <4>2. QED BY <4>1 DEF BeanInv, RobinsOK
    <3>3. QED BY <3>1, <3>2
  <2>2. QED BY <2>1 DEF RobinsOK
<1>4. QED BY <1>1, <1>2, <1>3 DEF BeanInv

LEMMA BeanStepInv == BeanInv /\ [BeanNext \/ QueryNext]_beanVars => BeanInv'
<1> SUFFICES ASSUME BeanInv, [BeanNext \/ QueryNext]_beanVars PROVE BeanInv'
  OBVIOUS
<1>1. ASSUME NEW id \in BeanIds, NEW b \in PercentageBeans, SavePercentageBean(id, b) PROVE BeanInv'
  <2>1. SavedAs(ConvertPercentageBeanToFirmwareRule(b), <<"bean", b>>)
    BY <1>1 DEF SavePercentageBean, SavedAs, IsStrict
  <2>2. QED BY <1>1, <2>1, PutInv DEF SavePercentageBean
<1>2. ASSUME NEW id \in BeanIds, NEW b \in PercentageBeans, SaveLeniently(id, b) PROVE BeanInv'
  <2>1. SavedAs(ConvertPercentageBeanToFirmwareRule(b), <<"lenient", b>>)
    BY <1>2 DEF SaveLeniently, SavedAs, IsLenient
  <2>2. QED BY <1>2, <2>1, PutInv DEF SaveLeniently
<1>3. ASSUME NEW id \in BeanIds, NEW b \in IpRuleBeans, NEW app \in Apps, SaveIpRule(id, b, app) PROVE BeanInv'
  <2>1. SavedAs(IpRuleOf(b, app), <<"ip", b>>)
    BY DEF SavedAs, IsIpRule
  <2>2. QED BY <1>3, <2>1, PutInv DEF SaveIpRule, IpRuleOf
<1>4. ASSUME NEW id \in BeanIds, NEW f \in IpFilterForms, NEW app \in Apps, SaveIpFilter(id, f, app) PROVE BeanInv'
  <2>1. SavedAs(IpFilterOf(f, app), <<"ipFilter", f>>)
    BY DEF SavedAs, IsIpFilter
  <2>2. QED BY <1>4, <2>1, PutInv DEF SaveIpFilter, IpFilterOf
<1>5. ASSUME NEW id \in BeanIds, NEW p \in TimeForms, NEW app \in Apps, SaveTimeFilter(id, p, app) PROVE BeanInv'
  <2>1. SavedAs(TimeRuleOf(p, app), <<"time", p>>)
    BY DEF SavedAs, IsTimeFilter
  <2>2. QED BY <1>5, <2>1, PutInv DEF SaveTimeFilter, CreateFirmwareRuleOneDB, TimeRuleOf
<1>6. ASSUME NEW id \in BeanIds, NEW f \in MacForms, NEW app \in Apps, SaveMacRule(id, f, app) PROVE BeanInv'
  <2>1. SavedAs(MacRuleOf(f, app), <<"mac", f>>)
    BY DEF SavedAs, IsMacRule
  <2>2. QED BY <1>6, <2>1, PutInv DEF SaveMacRule, CreateFirmwareRuleOneDB, MacRuleOf
<1>7. ASSUME NEW id \in BeanIds, NEW a \in ActivationVersions, SaveActivationVersion(id, a) PROVE BeanInv'
  <2>1. SavedAs(ConvertIntoRule(a), <<"activation", a>>)
    BY DEF SavedAs, IsActivation
  <2>2. QED BY <1>7, <2>1, PutInv DEF SaveActivationVersion, CreateFirmwareRuleOneDB
<1>8. ASSUME NEW id \in BeanIds, NEW f \in LocationForms, NEW app \in Apps, SaveLocationFilter(id, f, app) PROVE BeanInv'
  <2>1. SavedAs(LocationOf(f, app), <<"location", f>>)
    BY DEF SavedAs, IsLocation
  <2>2. QED BY <1>8, <2>1, PutInv DEF SaveLocationFilter, CreateFirmwareRuleOneDB, LocationOf, Properties
<1>9. ASSUME NEW id \in BeanIds, NEW f \in LocationRules, SaveLocationRule(id, f, "stb") PROVE BeanInv'
  <2>1. SavedAs(LocationRuleOf(f, "stb"), <<"locationRule", f>>)
    BY DEF SavedAs, IsLocationRule
  <2>2. QED BY <1>9, <2>1, PutInv DEF SaveLocationRule, CreateFirmwareRuleOneDB, LocationRuleOf, Properties
<1>10. ASSUME NEW id \in BeanIds, DeleteRule(id) PROVE BeanInv'
  <2>1. SavedAs(NoRule, <<"none", {}>>)
    BY DEF SavedAs, IsNone, NoForm
  <2>2. QED BY <1>10, <2>1, PutInv DEF DeleteRule
<1>11. CASE FilterNext
  BY <1>11, GlobalInv, RobinInv DEF FilterNext
<1>12. CASE FormNext
  BY <1>1, <1>2, <1>3, <1>4, <1>5, <1>6, <1>7, <1>8, <1>10, <1>12 DEF FormNext
<1>13. CASE QueryNext
  BY <1>3, <1>8, <1>9, <1>10, <1>13, BeanIdsOK, RobinInv DEF QueryNext
<1>14. CASE UNCHANGED beanVars
  BY <1>14 DEF beanVars, BeanInv, TablesOK, SlotsOK, GlobalsOK, RobinsOK
<1>15. QED BY <1>11, <1>12, <1>13, <1>14 DEF BeanNext

(* Every stored rule is what the last form under its id was converted into.*)
THEOREM BeanInvariant == BseSpec => []BeanInv
BY BeanInitInv, BeanStepInv, PTL DEF BseSpec

-----------------------------------------------------------------------------
(* The fields of stored rules.                                             *)
LEMMA RuleFieldsOf ==
    ASSUME NEW t, NEW n, NEW a, NEW r, NEW x
    PROVE  LET fr == FirmwareRule(t, n, a, r, x)
           IN  fr.type = t /\ fr.name = n /\ fr.app = a /\ fr.rule = r /\ fr.action = x
BY DEF FirmwareRule

LEMMA ActionFields ==
    ASSUME NEW c, NEW t, NEW g
    PROVE  LET a == NewApplicableActionAndType(c, t, g)
           IN  a.class = c /\ a.type = t /\ a.config = g /\ a.entries = <<>>
BY DEF NewApplicableActionAndType, NoAction

LEMMA NoRuleFields == NoRule.type = "" /\ NoRule.app = Empty
BY DEF NoRule, FirmwareRule

LEMMA BeanFields ==
    ASSUME NEW b
    PROVE  LET fr == ConvertPercentageBeanToFirmwareRule(b)
           IN  /\ fr.type = "ENV_MODEL_RULE" /\ fr.name = b.name /\ fr.app = b.app
               /\ fr.action.class = ".RuleAction" /\ fr.action.type = "RULE"
BY DEF ConvertPercentageBeanToFirmwareRule, FirmwareRule, NoAction

LEMMA IpRuleFields ==
    ASSUME NEW b, NEW app
    PROVE  LET fr == IpRuleOf(b, app)
           IN  /\ fr.type = "IP_RULE" /\ fr.name = b.name /\ fr.app = app /\ fr.rule = NewIpRule(b.group, b.env, b.model)
               /\ fr.action.class = ".RuleAction" /\ fr.action.type = "RULE" /\ fr.action.config = b.config /\ fr.action.entries = <<>>
BY DEF IpRuleOf, ConvertIpRuleBeanToFirmwareRule, FirmwareRule, NoAction

LEMMA IpFilterFields ==
    ASSUME NEW f, NEW app
    PROVE  LET fr == IpFilterOf(f, app)
           IN  /\ fr.type = "IP_FILTER" /\ fr.name = f.name /\ fr.app = app /\ fr.rule = NewIpFilter(f.group)
               /\ fr.action.class = ".BlockingFilterAction" /\ fr.action.type = "BLOCKING_FILTER"
BY DEF IpFilterOf, ConvertIpFilterToFirmwareRule, FirmwareRule, NewApplicableActionAndType, NoAction

LEMMA TimeRuleFields ==
    ASSUME NEW p, NEW app
    PROVE  LET fr == TimeRuleOf(p, app)
           IN  /\ fr.type = "TIME_FILTER" /\ fr.app = app /\ fr.rule = createTimeFilter(p)
               /\ fr.action.class = ".BlockingFilterAction" /\ fr.action.type = "BLOCKING_FILTER"
BY RuleFieldsOf, ActionFields DEF TimeRuleOf

LEMMA MacRuleFields ==
    ASSUME NEW f, NEW app
    PROVE  LET fr == MacRuleOf(f, app)
           IN  /\ fr.type = "MAC_RULE" /\ fr.name = f.name /\ fr.app = app /\ fr.rule = f.rule
               /\ fr.action.class = ".RuleAction" /\ fr.action.type = "RULE"
BY RuleFieldsOf, ActionFields DEF MacRuleOf

LEMMA ActivationFields ==
    ASSUME NEW a
    PROVE  LET fr == ConvertIntoRule(a)
           IN  /\ fr.type = "ACTIVATION_VERSION" /\ fr.name = a.name /\ fr.app = a.app /\ fr.rule = newActivationRule(a.partner, a.model)
               /\ fr.action.class = ".DefinePropertiesAction" /\ fr.action.type = "DEFINE_PROPERTIES"
               /\ fr.action.versions = a.versions /\ fr.action.regexs = a.regexs
BY DEF ConvertIntoRule, FirmwareRule, convertDefineProperties, NoAction

LEMMA PropertiesOf ==
    ASSUME NEW f
    PROVE  /\ Properties(f).class = ".DefinePropertiesAction" /\ Properties(f).type = "DEFINE_PROPERTIES"
           /\ Properties(f).props = <<f.protocol, f.location, f.ipv6>>
BY DEF Properties, NewApplicableActionAndType, NoAction

LEMMA LocationFields ==
    ASSUME NEW f, NEW app
    PROVE  /\ LET fr == LocationOf(f, app)
              IN  /\ fr.type = "DOWNLOAD_LOCATION_FILTER" /\ fr.name = f.name /\ fr.app = app
                  /\ fr.rule = NewDownloadLocationFilter(f.group, f.only) /\ fr.action = Properties(f)
           /\ LET fr == LocationRuleOf(f, app)
              IN  /\ fr.type = "DOWNLOAD_LOCATION_FILTER" /\ fr.name = f.name /\ fr.app = app
                  /\ fr.rule = f.rule /\ fr.action = Properties(f)
BY RuleFieldsOf DEF LocationOf, LocationRuleOf

LEMMA GlobalFields ==
    ASSUME NEW f, NEW app
    PROVE  LET fr == ConvertIntoGlobalPercentage(f, app)
           IN  /\ fr.type = "GLOBAL_PERCENT" /\ fr.name = "GLOBAL_PERCENT" /\ fr.app = app
               /\ fr.rule = NewGlobalPercentFilter(100 - f.percentage, f.whitelist)
               /\ fr.action.class = ".BlockingFilterAction" /\ fr.action.type = "BLOCKING_FILTER"
BY RuleFieldsOf, ActionFields DEF ConvertIntoGlobalPercentage

(* The kind of a form tells how it was saved, the type of a rule too.      *)
Typed(fr, q, type, class, action) == fr.type = type /\ fr.action.class = class /\ fr.action.type = action /\ q # NoForm

LEMMA TypesOf ==
    ASSUME NEW fr, NEW q
    PROVE  /\ IsNone(fr, q) => fr.type = "" /\ fr = NoRule /\ q = NoForm /\ q[1] = "none"
           /\ IsStrict(fr, q) => Typed(fr, q, "ENV_MODEL_RULE", ".RuleAction", "RULE") /\ q[1] = "bean"
           /\ IsLenient(fr, q) => Typed(fr, q, "ENV_MODEL_RULE", ".RuleAction", "RULE") /\ q[1] = "lenient"
           /\ IsIpRule(fr, q) => Typed(fr, q, "IP_RULE", ".RuleAction", "RULE") /\ q[1] = "ip"
           /\ IsIpFilter(fr, q) => Typed(fr, q, "IP_FILTER", ".BlockingFilterAction", "BLOCKING_FILTER") /\ q[1] = "ipFilter"
           /\ IsTimeFilter(fr, q) => Typed(fr, q, "TIME_FILTER", ".BlockingFilterAction", "BLOCKING_FILTER") /\ q[1] = "time"
           /\ IsMacRule(fr, q) => Typed(fr, q, "MAC_RULE", ".RuleAction", "RULE") /\ q[1] = "mac"
           /\ IsActivation(fr, q) =>
                Typed(fr, q, "ACTIVATION_VERSION", ".DefinePropertiesAction", "DEFINE_PROPERTIES") /\ q[1] = "activation"
           /\ IsLocation(fr, q) =>
                Typed(fr, q, "DOWNLOAD_LOCATION_FILTER", ".DefinePropertiesAction", "DEFINE_PROPERTIES") /\ q[1] = "location"
           /\ IsLocationRule(fr, q) =>
                Typed(fr, q, "DOWNLOAD_LOCATION_FILTER", ".DefinePropertiesAction", "DEFINE_PROPERTIES") /\ q[1] = "locationRule"
<1>1. IsNone(fr, q) => fr.type = "" /\ fr = NoRule /\ q = NoForm /\ q[1] = "none"
  <2>1. NoForm[1] = "none"
    BY DEF NoForm
  <2>2. QED BY <2>1, NoRuleFields DEF IsNone
<1>2. IsStrict(fr, q) => Typed(fr, q, "ENV_MODEL_RULE", ".RuleAction", "RULE") /\ q[1] = "bean"
  BY BeanFields DEF IsStrict, NoForm, Typed
<1>3. IsLenient(fr, q) => Typed(fr, q, "ENV_MODEL_RULE", ".RuleAction", "RULE") /\ q[1] = "lenient"
  BY BeanFields DEF IsLenient, NoForm, Typed
<1>4. IsIpRule(fr, q) => Typed(fr, q, "IP_RULE", ".RuleAction", "RULE") /\ q[1] = "ip"
  BY IpRuleFields DEF IsIpRule, NoForm, Typed
<1>5. IsIpFilter(fr, q) => Typed(fr, q, "IP_FILTER", ".BlockingFilterAction", "BLOCKING_FILTER") /\ q[1] = "ipFilter"
  BY IpFilterFields DEF IsIpFilter, NoForm, Typed
<1>6. IsTimeFilter(fr, q) => Typed(fr, q, "TIME_FILTER", ".BlockingFilterAction", "BLOCKING_FILTER") /\ q[1] = "time"
  BY TimeRuleFields DEF IsTimeFilter, NoForm, Typed
<1>7. IsMacRule(fr, q) => Typed(fr, q, "MAC_RULE", ".RuleAction", "RULE") /\ q[1] = "mac"
  BY MacRuleFields DEF IsMacRule, NoForm, Typed
<1>8. IsActivation(fr, q) =>
         Typed(fr, q, "ACTIVATION_VERSION", ".DefinePropertiesAction", "DEFINE_PROPERTIES") /\ q[1] = "activation"
  BY ActivationFields DEF IsActivation, NoForm, Typed
<1>9. IsLocation(fr, q) =>
         Typed(fr, q, "DOWNLOAD_LOCATION_FILTER", ".DefinePropertiesAction", "DEFINE_PROPERTIES") /\ q[1] = "location"
  BY LocationFields, PropertiesOf DEF IsLocation, NoForm, Typed
<1>10. IsLocationRule(fr, q) =>
         Typed(fr, q, "DOWNLOAD_LOCATION_FILTER", ".DefinePropertiesAction", "DEFINE_PROPERTIES") /\ q[1] = "locationRule"
  BY LocationFields, PropertiesOf DEF IsLocationRule, NoForm, Typed
<1>11. QED BY <1>1, <1>2, <1>3, <1>4, <1>5, <1>6, <1>7, <1>8, <1>9, <1>10

LEMMA KindsOf ==
    ASSUME NEW fr, NEW q, SavedAs(fr, q)
    PROVE  /\ q[1] \in {"bean", "lenient"} => IsStrict(fr, q) \/ IsLenient(fr, q)
           /\ q[1] = "bean" => IsStrict(fr, q)
           /\ q[1] = "ip" => IsIpRule(fr, q)
           /\ q[1] = "ipFilter" => IsIpFilter(fr, q)
           /\ q[1] = "time" => IsTimeFilter(fr, q)
           /\ q[1] = "mac" => IsMacRule(fr, q)
           /\ q[1] = "activation" => IsActivation(fr, q)
           /\ q[1] = "location" => IsLocation(fr, q)
BY TypesOf DEF SavedAs

LEMMA RulesOf ==
    ASSUME NEW fr, NEW q, SavedAs(fr, q)
    PROVE  /\ fr.type = "ENV_MODEL_RULE" => IsStrict(fr, q) \/ IsLenient(fr, q)
           /\ fr.type = "IP_RULE" => IsIpRule(fr, q)
           /\ fr.type = "DOWNLOAD_LOCATION_FILTER" => IsLocation(fr, q) \/ IsLocationRule(fr, q)
           /\ fr.type # "GLOBAL_PERCENT"
           /\ fr = NoRule <=> q = NoForm
           /\ fr.type = "" <=> fr = NoRule
           /\ fr.type # "" => ValidRule(fr)
<1>1. /\ fr.type = "ENV_MODEL_RULE" => IsStrict(fr, q) \/ IsLenient(fr, q)
      /\ fr.type = "IP_RULE" => IsIpRule(fr, q)
      /\ fr.type = "DOWNLOAD_LOCATION_FILTER" => IsLocation(fr, q) \/ IsLocationRule(fr, q)
      /\ fr.type # "GLOBAL_PERCENT"
  BY TypesOf DEF SavedAs, Typed
<1>2. IsNone(fr, q) \/ (fr.type # "" /\ q # NoForm /\ ValidRule(fr))
  BY TypesOf DEF SavedAs, Typed, ValidRule, IsValidApplicableActionType, isValidApplicableClass
<1>3. QED BY <1>1, <1>2, TypesOf, NoRuleFields

(* The rules that are stored: those of operators and the global ones.      *)
LEMMA StoredRules ==
    ASSUME BeanInv
    PROVE  /\ Stored \subseteq BeanIds \cup GlobalIds
           /\ \A id \in Stored \cap BeanIds : SavedAs(store[id], posted[id]) /\ store[id] # NoRule
           /\ \A id \in Stored \ BeanIds :
                \E f \in GlobalFilters, app \in Apps : store[id] = ConvertIntoGlobalPercentage(f, app)
           /\ Saved = Stored \cap BeanIds
<1>1. DOMAIN store = BeanIds \cup GlobalIds
  BY DEF BeanInv, TablesOK
<1>2. Stored \subseteq BeanIds \cup GlobalIds /\ \A id \in Stored : store[id].type # ""
  BY <1>1 DEF Stored
<1>3. \A id \in Stored \cap BeanIds : SavedAs(store[id], posted[id]) /\ store[id] # NoRule
  BY <1>2, NoRuleFields DEF BeanInv, SlotsOK
<1>4. ASSUME NEW id \in Stored \ BeanIds
      PROVE  \E f \in GlobalFilters, app \in Apps : store[id] = ConvertIntoGlobalPercentage(f, app)
  <2>1. PICK app \in Apps : id = getGlobalPercentId(app)
    BY <1>2, GlobalIdsOf
  <2>2. IsGlobal(store[id], posted[app], app)
    BY <2>1 DEF BeanInv, GlobalsOK
  <2>3. store[id] # NoRule
    BY <1>2, NoRuleFields
  <2>4. QED BY <2>2, <2>3 DEF IsGlobal
<1>5. QED BY <1>2, <1>3, <1>4 DEF Saved

(* The ids of one type: only operators save rules of a type but the global *)
(* one.                                                                    *)
LEMMA OfTypeFacts ==
    ASSUME BeanInv, NEW type, type # "GLOBAL_PERCENT", NEW app
    PROVE  \A id \in OfType(app, type) : id \in Saved /\ store[id].app = app /\ store[id].type = type /\ SavedAs(store[id], posted[id])
<1>1. ASSUME NEW id \in OfType(app, type), id \notin BeanIds PROVE FALSE
  <2>1. id \in Stored \ BeanIds /\ store[id].type = type
    BY <1>1 DEF OfType
  <2>2. QED BY <2>1, StoredRules, GlobalFields
<1>2. QED BY <1>1, StoredRules DEF OfType

LEMMA BeansTypeHolds == BeanInv => BeansTypeOK
<1> SUFFICES ASSUME BeanInv PROVE BeansTypeOK
  OBVIOUS
<1>1. ASSUME NEW id \in Stored PROVE ValidRule(store[id])
  <2>1. CASE id \in BeanIds
    <3>1. SavedAs(store[id], posted[id]) /\ store[id].type # ""
      BY <2>1, StoredRules DEF Stored
    <3>2. QED BY <3>1, RulesOf
  <2>2. CASE id \notin BeanIds
    <3>1. PICK f \in GlobalFilters, app \in Apps : store[id] = ConvertIntoGlobalPercentage(f, app)
      BY <2>2, StoredRules
    <3>2. /\ store[id].type = "GLOBAL_PERCENT" /\ store[id].action.class = ".BlockingFilterAction"
          /\ store[id].action.type = "BLOCKING_FILTER"
      BY <3>1, GlobalFields
    <3>3. QED BY <3>2 DEF ValidRule, IsValidApplicableActionType, isValidApplicableClass
  <2>3. QED BY <2>1, <2>2
<1>2. \A id \in BeanIds : store[id] = NoRule <=> posted[id] = NoForm
  BY RulesOf DEF BeanInv, SlotsOK
<1>3. QED BY <1>1, <1>2 DEF BeansTypeOK, GetFirmwareRuleAllAsListDBForAdmin

-----------------------------------------------------------------------------
(* Rules that are put together part by part.                               *)
LEMMA MaxIs == ASSUME NEW S \in SUBSET Int, NEW m \in S, \A y \in S : m >= y PROVE Max(S) = m
<1>1. \E x \in S : \A y \in S : x >= y
  OBVIOUS
<1>2. Max(S) \in S /\ \A y \in S : Max(S) >= y
  BY <1>1 DEF Max
<1>3. Max(S) \in Int /\ m \in Int /\ Max(S) >= m /\ m >= Max(S)
  BY <1>2
<1>4. QED BY <1>3

LEMMA MinIs == ASSUME NEW S \in SUBSET Int, NEW m \in S, \A y \in S : m <= y PROVE Min(S) = m
<1>1. \E x \in S : \A y \in S : x <= y
  OBVIOUS
<1>2. Min(S) \in S /\ \A y \in S : Min(S) <= y
  BY <1>1 DEF Min
<1>3. Min(S) \in Int /\ m \in Int /\ Min(S) >= m /\ m >= Min(S)
  BY <1>2
<1>4. QED BY <1>3

RelatedBy(x, rel) == [x EXCEPT !.relation = rel]

LEMMA TwoOfThem ==
    ASSUME NEW x, NEW y
    PROVE  Append(<<x>>, y) = <<x, y>> /\ Append(<<>>, x) = <<x>>
<1> DEFINE S == {x, y}
<1>1. <<x>> \in Seq(S) /\ Len(<<x>>) = 1 /\ <<x>>[1] = x /\ x \in S /\ y \in S /\ <<>> \in Seq(S) /\ Len(<<>>) = 0
  OBVIOUS
<1>2. <<x, y>> \in Seq(S) /\ Len(<<x, y>>) = 2 /\ <<x, y>>[1] = x /\ <<x, y>>[2] = y
  OBVIOUS
<1> HIDE DEF S
<1> DEFINE s == Append(<<x>>, y)
           t == Append(<<>>, x)
<1>3. s \in Seq(S) /\ Len(s) = 1 + 1 /\ s[1 + 1] = y /\ \A i \in 1..1 : s[i] = <<x>>[i]
  BY <1>1, AppendFacts
<1>4. t \in Seq(S) /\ Len(t) = 0 + 1 /\ t[0 + 1] = x
  BY <1>1, AppendFacts
<1> HIDE DEF s, t
<1>5. \A i \in 1..2 : s[i] = <<x, y>>[i]
  <2>1. s[2] = y /\ s[1] = x
    BY <1>1, <1>3
  <2>2. QED BY <1>2, <2>1
<1>6. s = <<x, y>>
  <2>1. Len(s) = 2
    BY <1>3
  <2>2. QED BY <1>2, <1>3, <1>5, <2>1, SeqEqual
<1>7. t = <<x>>
  <2>1. Len(t) = 1 /\ t[1] = x
    BY <1>4
  <2>2. \A i \in 1..1 : t[i] = <<x>>[i]
    BY <1>1, <2>1
  <2>3. QED BY <1>1, <1>4, <2>1, <2>2, SeqEqual
<1>8. QED BY <1>6, <1>7 DEF s, t

LEMMA AddToLeaf ==
    ASSUME NEW x, ~x.compound, NEW y, NEW rel
    PROVE  addRelatedCompound(x, y, rel) = Compound(<<x, RelatedBy(y, rel)>>)
<1>1. Append(<<x>>, RelatedBy(y, rel)) = <<x, RelatedBy(y, rel)>>
  BY TwoOfThem
<1>2. QED BY <1>1 DEF addRelatedCompound, RelatedBy

LEMMA AddToCompound ==
    ASSUME NEW ps, NEW y, NEW rel
    PROVE  addRelatedCompound(Compound(ps), y, rel) = Compound(Append(ps, RelatedBy(y, rel)))
<1>1. Compound(ps).compound /\ Compound(ps).parts = ps
  BY DEF Compound
<1>2. ASSUME NEW qs PROVE [Compound(ps) EXCEPT !.parts = qs] = Compound(qs)
  <2> DEFINE yes == TRUE
             no == FALSE
             alone == ""
             none == Cond("", "", "", NoArg)
  <2>1. /\ Compound(ps) = [compound |-> yes, negated |-> no, relation |-> alone, parts |-> ps, cond |-> none]
        /\ Compound(qs) = [compound |-> yes, negated |-> no, relation |-> alone, parts |-> qs, cond |-> none]
    BY DEF Compound
  <2> HIDE DEF yes, no, alone, none
  <2>2. QED BY <2>1
<1>3. QED BY <1>1, <1>2 DEF addRelatedCompound, RelatedBy

LEMMA CompoundFields == ASSUME NEW ps PROVE Compound(ps).parts = ps /\ Compound(ps).compound /\ ~Compound(ps).negated
BY DEF Compound

(* The leaves of the factory, and the same joined to something.            *)
LEMMA RelatedFields ==
    ASSUME NEW x \in AllRules, NEW rel \in {"", "AND", "OR"}
    PROVE  /\ RelatedBy(x, rel) \in AllRules /\ RelatedBy(x, rel).cond = x.cond /\ RelatedBy(x, rel).relation = rel
           /\ RelatedBy(x, rel).compound = x.compound /\ RelatedBy(x, rel).negated = x.negated /\ RelatedBy(x, rel).parts = x.parts
<1> DEFINE y == [x EXCEPT !.relation = rel]
<1>1. MaxDepth \in 0..MaxDepth /\ x \in Rules[MaxDepth]
  BY DepthOK DEF AllRules
<1>2. y \in AllRules
  BY <1>1, SameLevel DEF AllRules
<1>3. y.compound = x.compound /\ y.negated = x.negated /\ y.parts = x.parts /\ y.cond = x.cond /\ y.relation = rel
  BY RuleShape DEF RuleOf
<1>4. RelatedBy(x, rel) = y
  BY DEF RelatedBy
<1> HIDE DEF y
<1>5. QED BY <1>2, <1>3, <1>4

LEMMA GoodLeafRule == ASSUME NEW x, GoodLeaf(x) PROVE x \in AllRules /\ ~x.compound
<1>1. 0 \in 0..MaxDepth
  BY DepthOK
<1>2. QED BY <1>1, RulesAreRules DEF GoodLeaf

LEMMA LeafFields ==
    ASSUME NEW c
    PROVE  /\ Leaf(c).cond = c /\ ~Leaf(c).compound /\ Leaf(c).negated = FALSE /\ Leaf(c).relation = ""
           /\ Not(Leaf(c)).cond = c /\ ~Not(Leaf(c)).compound /\ Not(Leaf(c)).negated = TRUE
BY DEF Leaf, Not

LEMMA CondFields ==
    ASSUME NEW t, NEW n, NEW o, NEW a
    PROVE  LET c == Cond(t, n, o, a) IN c.type = t /\ c.name = n /\ c.op = o /\ c.fixed = a
BY DEF Cond

LEMMA ArgFields ==
    /\ \A s : Str(s).kind = "string" /\ Str(s).str = s
    /\ \A n : Dbl(n).kind = "double" /\ Dbl(n).num = n /\ Dbl(n).str = ""
    /\ \A S : Coll(S).kind = "collection" /\ Coll(S).set = S /\ Coll(S).str = ""
    /\ NoArg.kind = "nil" /\ NoArg.str = ""
BY DEF Str, Dbl, Coll, NoArg, Empty

LEMMA FactoryLeaves ==
    ASSUME NEW n \in STRING, NEW s \in STRING
    PROVE  GoodLeaf(IsText(n, s)) /\ GoodLeaf(Not(IsText(n, s))) /\ GoodLeaf(InList(n, s)) /\ GoodLeaf(Not(InList(n, s)))
<1>1. Cond("STRING", n, "IS", Str(s)) \in AllConditions /\ Cond("STRING", n, "IN_LIST", Str(s)) \in AllConditions
  BY WordsOK, ArgTypes, CondType
<1>2. QED BY <1>1, LeafOf DEF IsText, InList

LEMMA FactoryFields ==
    ASSUME NEW n, NEW s
    PROVE  /\ IsText(n, s).cond = Cond("STRING", n, "IS", Str(s)) /\ ~IsText(n, s).compound /\ IsText(n, s).negated = FALSE
           /\ InList(n, s).cond = Cond("STRING", n, "IN_LIST", Str(s)) /\ ~InList(n, s).compound /\ InList(n, s).negated = FALSE
BY LeafFields DEF IsText, InList

-----------------------------------------------------------------------------
(* The last of the conditions.                                             *)
LEMMA LastAppend ==
    ASSUME NEW S, NEW cs \in Seq(S), NEW c \in S, NEW I \in SUBSET (1..Len(cs))
    PROVE  LastOf(Append(cs, c), I) = LastOf(cs, I) /\ LastOf(Append(cs, c), I \cup {Len(cs) + 1}) = c.fixed.str
<1>0. Len(cs) \in Nat /\ \A i \in 1..Len(cs) : Append(cs, c)[i] = cs[i]
  BY AppendFacts
<1>00. Append(cs, c)[Len(cs) + 1] = c
  BY AppendFacts
<1>1. LastOf(Append(cs, c), I) = LastOf(cs, I)
  <2>1. CASE I = {}
    BY <2>1 DEF LastOf
  <2>2. CASE I # {}
    <3>1. Max(I) \in 1..Len(cs)
      BY <1>0, <2>2, MaxFacts
    <3>2. QED BY <1>0, <2>2, <3>1 DEF LastOf
  <2>3. QED BY <2>1, <2>2
<1>2. LastOf(Append(cs, c), I \cup {Len(cs) + 1}) = c.fixed.str
  <2> DEFINE J == I \cup {Len(cs) + 1}
  <2>1. J \in SUBSET Int /\ Len(cs) + 1 \in J /\ (\A y \in J : Len(cs) + 1 >= y) /\ J # {}
    <3> DEFINE n == Len(cs)
    <3>1. n \in Nat /\ I \in SUBSET (1..n)
      BY <1>0
    <3> HIDE DEF n
    <3>2. \A y \in I : y \in Int /\ n + 1 >= y
      BY <3>1
    <3>3. n + 1 \in Int /\ n + 1 >= n + 1
      BY <3>1
    <3>4. QED BY <3>2, <3>3 DEF n
  <2> HIDE DEF J
  <2>2. Max(J) = Len(cs) + 1
    BY <2>1, MaxIs
  <2>3. LastOf(Append(cs, c), J) = c.fixed.str
    BY <1>00, <2>1, <2>2 DEF LastOf
  <2>4. QED BY <2>3 DEF J
<1>3. QED BY <1>1, <1>2

IsAddress(c) == c.name = "ipAddress" /\ c.type \in {"STRING", "IP_ADDRESS"}

LEMMA GroupAppend ==
    ASSUME NEW S, NEW cs \in Seq(S), NEW c \in S
    PROVE  LastGroup(Append(cs, c)) = IF IsAddress(c) THEN GetIpAddressGroup(c) ELSE LastGroup(cs)
<1> DEFINE ds == Append(cs, c)
           n == Len(cs)
           I == {i \in DOMAIN cs : IsAddress(cs[i])}
           J == {i \in DOMAIN ds : IsAddress(ds[i])}
<1>0. n \in Nat /\ DOMAIN cs = 1..n /\ DOMAIN ds = 1..(n + 1) /\ (\A i \in 1..n : ds[i] = cs[i]) /\ ds[n + 1] = c
  <2>1. ds \in Seq(S) /\ Len(ds) = n + 1
    BY AppendFacts
  <2>2. QED BY <2>1, AppendFacts, SeqFacts
<1>1. LastGroup(cs) = (IF I = {} THEN NoGroup ELSE GetIpAddressGroup(cs[Max(I)]))
  BY DEF LastGroup, IsAddress
<1>2. LastGroup(ds) = (IF J = {} THEN NoGroup ELSE GetIpAddressGroup(ds[Max(J)]))
  BY DEF LastGroup, IsAddress
<1> HIDE DEF ds, n
<1>3. CASE IsAddress(c)
  <2>1. J \in SUBSET Int /\ n + 1 \in J /\ \A y \in J : n + 1 >= y
    BY <1>0, <1>3
  <2>2. Max(J) = n + 1 /\ J # {}
    BY <2>1, MaxIs
  <2>3. LastGroup(ds) = GetIpAddressGroup(c)
    BY <1>0, <1>2, <2>2
  <2>4. QED BY <1>3, <2>3 DEF ds
<1>4. CASE ~IsAddress(c)
  <2>1. J = I
    BY <1>0, <1>4
  <2>2. CASE I = {}
    BY <1>1, <1>2, <1>4, <2>1, <2>2 DEF ds
  <2>3. CASE I # {}
    <3>1. I \in SUBSET (1..n)
      BY <1>0
    <3>2. Max(I) \in 1..n
      BY <1>0, <2>3, <3>1, MaxFacts
    <3>3. ds[Max(I)] = cs[Max(I)]
      BY <1>0, <3>2
    <3> HIDE DEF I, J
    <3>4. QED BY <1>1, <1>2, <1>4, <2>1, <2>3, <3>3 DEF ds
  <2>4. QED BY <2>2, <2>3
<1>5. QED BY <1>3, <1>4

LEMMA NothingLast == LastGroup(<<>>) = NoGroup /\ NoGroup.name = Empty
BY DEF LastGroup, NoGroup

-----------------------------------------------------------------------------
(* Time filters: what one more part adds to the form.                      *)
CondsOf(ps) == [i \in DOMAIN ps |-> ps[i].cond]

LEMMA CondsType ==
    ASSUME NEW ps \in Seq(AllRules)
    PROVE  CondsOf(ps) \in Seq(AllConditions) /\ Len(CondsOf(ps)) = Len(ps) /\ DOMAIN CondsOf(ps) = 1..Len(ps)
<1>1. Len(ps) \in Nat /\ DOMAIN ps = 1..Len(ps) /\ \A i \in DOMAIN ps : ps[i] \in AllRules
  BY SeqFacts
<1>2. CondsOf(ps) \in [1..Len(ps) -> AllConditions]
  BY <1>1, RuleParts DEF CondsOf
<1>3. CondsOf(ps) \in Seq(AllConditions)
  BY <1>1, <1>2, SeqDef
<1>4. QED BY <1>1, <1>2, <1>3

LEMMA CondsAppend ==
    ASSUME NEW ps \in Seq(AllRules), NEW x \in AllRules
    PROVE  CondsOf(Append(ps, x)) = Append(CondsOf(ps), x.cond)
<1> DEFINE n == Len(ps)
           qs == Append(ps, x)
           ds == Append(CondsOf(ps), x.cond)
<1>1. n \in Nat /\ qs \in Seq(AllRules) /\ Len(qs) = n + 1 /\ qs[n + 1] = x /\ \A i \in 1..n : qs[i] = ps[i]
  BY AppendFacts
<1>2. CondsOf(ps) \in Seq(AllConditions) /\ Len(CondsOf(ps)) = n /\ x.cond \in AllConditions /\ DOMAIN ps = 1..n
  BY CondsType, RuleParts, SeqFacts
<1>3. ds \in Seq(AllConditions) /\ Len(ds) = n + 1 /\ ds[n + 1] = x.cond /\ \A i \in 1..n : ds[i] = CondsOf(ps)[i]
  BY <1>2, AppendFacts
<1>4. CondsOf(qs) \in Seq(AllConditions) /\ Len(CondsOf(qs)) = n + 1 /\ DOMAIN qs = 1..(n + 1)
  BY <1>1, CondsType, SeqFacts
<1> HIDE DEF qs, ds, n
<1>5. ASSUME NEW i \in 1..(n + 1) PROVE CondsOf(qs)[i] = ds[i]
  <2>1. CondsOf(qs)[i] = qs[i].cond
    BY <1>4 DEF CondsOf
  <2>2. CASE i = n + 1
    BY <1>1, <1>3, <2>1, <2>2
  <2>3. CASE i # n + 1
    <3>1. i \in 1..n
      BY <1>1, <2>3
    <3>2. CondsOf(ps)[i] = ps[i].cond
      BY <1>2, <3>1 DEF CondsOf
    <3>3. QED BY <1>1, <1>3, <2>1, <3>1, <3>2
  <2>4. QED BY <2>2, <2>3
<1>6. QED BY <1>3, <1>4, <1>5, SeqEqual DEF qs, ds

OfCond(cs, name, op) == {i \in DOMAIN cs : cs[i].name = name /\ cs[i].op = op}
NamedCond(cs, name) == {i \in DOMAIN cs : cs[i].name = name}

LEMMA OfAppend ==
    ASSUME NEW S, NEW cs \in Seq(S), NEW c \in S, NEW name, NEW op
    PROVE  /\ OfCond(cs, name, op) \in SUBSET (1..Len(cs))
           /\ OfCond(Append(cs, c), name, op) =
                IF c.name = name /\ c.op = op THEN OfCond(cs, name, op) \cup {Len(cs) + 1} ELSE OfCond(cs, name, op)
           /\ NamedCond(cs, name) \in SUBSET (1..Len(cs))
           /\ NamedCond(Append(cs, c), name) =
                IF c.name = name THEN NamedCond(cs, name) \cup {Len(cs) + 1} ELSE NamedCond(cs, name)
<1> DEFINE ds == Append(cs, c)
           n == Len(cs)
<1>0. n \in Nat /\ DOMAIN cs = 1..n /\ DOMAIN ds = 1..(n + 1) /\ (\A i \in 1..n : ds[i] = cs[i]) /\ ds[n + 1] = c
  <2>1. ds \in Seq(S) /\ Len(ds) = n + 1
    BY AppendFacts
  <2>2. QED BY <2>1, AppendFacts, SeqFacts
<1>00. \A i \in 1..(n + 1) : i \in 1..n \/ i = n + 1
  BY <1>0
<1>000. \A i \in 1..n : i \in 1..(n + 1) /\ i # n + 1
  BY <1>0
<1>0000. n + 1 \in 1..(n + 1)
  BY <1>0
<1> HIDE DEF ds, n
<1>1. OfCond(cs, name, op) \in SUBSET (1..n) /\ NamedCond(cs, name) \in SUBSET (1..n)
  BY <1>0 DEF OfCond, NamedCond
<1>2. OfCond(ds, name, op) = IF c.name = name /\ c.op = op THEN OfCond(cs, name, op) \cup {n + 1} ELSE OfCond(cs, name, op)
  BY <1>0, <1>00, <1>000, <1>0000 DEF OfCond
<1>3. NamedCond(ds, name) = IF c.name = name THEN NamedCond(cs, name) \cup {n + 1} ELSE NamedCond(cs, name)
  BY <1>0, <1>00, <1>000, <1>0000 DEF NamedCond
<1>4. QED BY <1>1, <1>2, <1>3 DEF ds, n

LEMMA LastOfAppend ==
    ASSUME NEW S, NEW cs \in Seq(S), NEW c \in S, NEW name, NEW op
    PROVE  /\ LastOf(Append(cs, c), OfCond(Append(cs, c), name, op)) =
                IF c.name = name /\ c.op = op THEN c.fixed.str ELSE LastOf(cs, OfCond(cs, name, op))
           /\ LastOf(Append(cs, c), NamedCond(Append(cs, c), name)) =
                IF c.name = name THEN c.fixed.str ELSE LastOf(cs, NamedCond(cs, name))
<1>1. LastOf(Append(cs, c), OfCond(Append(cs, c), name, op)) =
        IF c.name = name /\ c.op = op THEN c.fixed.str ELSE LastOf(cs, OfCond(cs, name, op))
  <2>1. OfCond(cs, name, op) \in SUBSET (1..Len(cs))
    BY OfAppend
  <2>2. LastOf(Append(cs, c), OfCond(cs, name, op)) = LastOf(cs, OfCond(cs, name, op))
        /\ LastOf(Append(cs, c), OfCond(cs, name, op) \cup {Len(cs) + 1}) = c.fixed.str
    BY <2>1, LastAppend
  <2>3. OfCond(Append(cs, c), name, op) =
          IF c.name = name /\ c.op = op THEN OfCond(cs, name, op) \cup {Len(cs) + 1} ELSE OfCond(cs, name, op)
    BY OfAppend
  <2>4. QED BY <2>2, <2>3
<1>2. LastOf(Append(cs, c), NamedCond(Append(cs, c), name)) =
        IF c.name = name THEN c.fixed.str ELSE LastOf(cs, NamedCond(cs, name))
  <2>1. NamedCond(cs, name) \in SUBSET (1..Len(cs))
    BY OfAppend
  <2>2. LastOf(Append(cs, c), NamedCond(cs, name)) = LastOf(cs, NamedCond(cs, name))
        /\ LastOf(Append(cs, c), NamedCond(cs, name) \cup {Len(cs) + 1}) = c.fixed.str
    BY <2>1, LastAppend
  <2>3. NamedCond(Append(cs, c), name) =
          IF c.name = name THEN NamedCond(cs, name) \cup {Len(cs) + 1} ELSE NamedCond(cs, name)
    BY OfAppend
  <2>4. QED BY <2>2, <2>3
<1>3. QED BY <1>1, <1>2

(* The form that a list of parts is shown as.                              *)
View(lt, st, en, nr, nh, ips, env, model) ==
    [neverReboot |-> nr, neverHttp |-> nh, ips |-> ips, model |-> model, env |-> env, start |-> st, end |-> en, localTime |-> lt]
HasZone(ps) == \E i \in DOMAIN ps : ps[i].cond.name = "timeZone" /\ ps[i].negated

LEMMA ConvertFields ==
    ASSUME NEW ps, NEW cs, cs = CondsOf(ps)
    PROVE  convertConditions(ps) =
             View(HasZone(ps), LastOf(cs, OfCond(cs, "time", "GTE")), LastOf(cs, OfCond(cs, "time", "LTE")),
                  OfCond(cs, "rebootDecoupled", "EXISTS") # {}, OfCond(cs, "downloadProtocol", "IS") # {},
                  LastGroup(cs).name, LastOf(cs, NamedCond(cs, "env")), LastOf(cs, NamedCond(cs, "model")))
<1> DEFINE ds == [i \in DOMAIN ps |-> ps[i].cond]
<1>1. cs = ds
  BY DEF CondsOf
<1>2. (\E i \in DOMAIN ps : ds[i].name = "timeZone" /\ ps[i].negated) = HasZone(ps)
  <2>1. (\E i \in DOMAIN ps : ds[i].name = "timeZone" /\ ps[i].negated) <=> HasZone(ps)
    BY DEF HasZone
  <2> DEFINE A == \E i \in DOMAIN ps : ds[i].name = "timeZone" /\ ps[i].negated
             B == HasZone(ps)
  <2>2. A \in BOOLEAN /\ B \in BOOLEAN
    BY DEF HasZone
  <2> HIDE DEF A, B
  <2>3. (A <=> B) => A = B
    BY <2>2
  <2>4. QED BY <2>1, <2>3 DEF A, B
<1>3. convertConditions(ps) =
        View(\E i \in DOMAIN ps : ds[i].name = "timeZone" /\ ps[i].negated,
             LastOf(ds, OfCond(ds, "time", "GTE")), LastOf(ds, OfCond(ds, "time", "LTE")),
             OfCond(ds, "rebootDecoupled", "EXISTS") # {}, OfCond(ds, "downloadProtocol", "IS") # {},
             LastGroup(ds).name, LastOf(ds, NamedCond(ds, "env")), LastOf(ds, NamedCond(ds, "model")))
  BY Zenon DEF convertConditions, View, OfCond, NamedCond
<1> HIDE DEF ds
<1>4. QED BY <1>1, <1>2, <1>3, Zenon

LEMMA ZoneAppend ==
    ASSUME NEW ps \in Seq(AllRules), NEW x \in AllRules
    PROVE  HasZone(Append(ps, x)) <=> HasZone(ps) \/ (x.cond.name = "timeZone" /\ x.negated)
<1> DEFINE n == Len(ps)
           qs == Append(ps, x)
<1>1. n \in Nat /\ qs \in Seq(AllRules) /\ Len(qs) = n + 1 /\ qs[n + 1] = x /\ \A i \in 1..n : qs[i] = ps[i]
  BY AppendFacts
<1>2. DOMAIN ps = 1..n /\ DOMAIN qs = 1..(n + 1)
  BY <1>1, SeqFacts
<1>3. /\ \A i \in 1..(n + 1) : i \in 1..n \/ i = n + 1
      /\ \A i \in 1..n : i \in 1..(n + 1)
      /\ n + 1 \in 1..(n + 1)
  BY <1>1
<1> HIDE DEF qs, n
<1>4. HasZone(qs) <=> HasZone(ps) \/ (x.cond.name = "timeZone" /\ x.negated)
  BY <1>1, <1>2, <1>3 DEF HasZone
<1>5. QED BY <1>4 DEF qs

Shows(ps, v) == ps \in Seq(AllRules) /\ convertConditions(ps) = v

LEMMA ViewEqual ==
    ASSUME NEW lt \in BOOLEAN, NEW st, NEW en, NEW nr \in BOOLEAN, NEW nh \in BOOLEAN, NEW ips, NEW env, NEW model,
           NEW lt2 \in BOOLEAN, NEW st2, NEW en2, NEW nr2 \in BOOLEAN, NEW nh2 \in BOOLEAN, NEW ips2, NEW env2, NEW model2,
           lt <=> lt2, st = st2, en = en2, nr <=> nr2, nh <=> nh2, ips = ips2, env = env2, model = model2
    PROVE  View(lt, st, en, nr, nh, ips, env, model) = View(lt2, st2, en2, nr2, nh2, ips2, env2, model2)
<1>1. lt = lt2 /\ nr = nr2 /\ nh = nh2
  OBVIOUS
<1>2. QED BY <1>1, Zenon

LEMMA OneMore ==
    ASSUME NEW cs \in Seq(AllConditions), NEW c \in AllConditions
    PROVE  \A name, op :
           /\ LastOf(Append(cs, c), OfCond(Append(cs, c), name, op)) = IF c.name = name /\ c.op = op THEN c.fixed.str ELSE LastOf(cs, OfCond(cs, name, op))
           /\ LastOf(Append(cs, c), NamedCond(Append(cs, c), name)) = IF c.name = name THEN c.fixed.str ELSE LastOf(cs, NamedCond(cs, name))
           /\ (OfCond(Append(cs, c), name, op) # {}) <=> ((OfCond(cs, name, op) # {}) \/ (c.name = name /\ c.op = op))
           /\ LastGroup(Append(cs, c)) = IF IsAddress(c) THEN GetIpAddressGroup(c) ELSE LastGroup(cs)
<1> TAKE name, op
<1>1. /\ LastOf(Append(cs, c), OfCond(Append(cs, c), name, op)) = IF c.name = name /\ c.op = op THEN c.fixed.str ELSE LastOf(cs, OfCond(cs, name, op))
      /\ LastOf(Append(cs, c), NamedCond(Append(cs, c), name)) = IF c.name = name THEN c.fixed.str ELSE LastOf(cs, NamedCond(cs, name))
  BY LastOfAppend
<1>2. OfCond(Append(cs, c), name, op) =
        IF c.name = name /\ c.op = op THEN OfCond(cs, name, op) \cup {Len(cs) + 1} ELSE OfCond(cs, name, op)
  BY OfAppend
<1>3. LastGroup(Append(cs, c)) = IF IsAddress(c) THEN GetIpAddressGroup(c) ELSE LastGroup(cs)
  BY GroupAppend
<1>4. (OfCond(Append(cs, c), name, op) # {}) <=> ((OfCond(cs, name, op) # {}) \/ (c.name = name /\ c.op = op))
  BY <1>2
<1>5. QED BY <1>1, <1>3, <1>4

LEMMA ShowsAppend ==
    ASSUME NEW ps, NEW lt \in BOOLEAN, NEW st, NEW en, NEW nr \in BOOLEAN, NEW nh \in BOOLEAN, NEW ips, NEW env, NEW model,
           Shows(ps, View(lt, st, en, nr, nh, ips, env, model)), NEW x \in AllRules, NEW c, c = x.cond
    PROVE  Shows(Append(ps, x),
             View(lt \/ (c.name = "timeZone" /\ x.negated),
                  IF c.name = "time" /\ c.op = "GTE" THEN c.fixed.str ELSE st,
                  IF c.name = "time" /\ c.op = "LTE" THEN c.fixed.str ELSE en,
                  nr \/ (c.name = "rebootDecoupled" /\ c.op = "EXISTS"),
                  nh \/ (c.name = "downloadProtocol" /\ c.op = "IS"),
                  IF IsAddress(c) THEN GetIpAddressGroup(c).name ELSE ips,
                  IF c.name = "env" THEN c.fixed.str ELSE env,
                  IF c.name = "model" THEN c.fixed.str ELSE model))
<1> DEFINE qs == Append(ps, x)
           cs == CondsOf(ps)
           ds == Append(cs, c)
<1>0. ps \in Seq(AllRules) /\ convertConditions(ps) = View(lt, st, en, nr, nh, ips, env, model)
  BY DEF Shows
<1>1. qs \in Seq(AllRules) /\ CondsOf(qs) = ds /\ cs \in Seq(AllConditions) /\ c \in AllConditions
  BY <1>0, AppendFacts, CondsAppend, CondsType, RuleParts
<1>2. /\ lt = HasZone(ps) /\ st = LastOf(cs, OfCond(cs, "time", "GTE")) /\ en = LastOf(cs, OfCond(cs, "time", "LTE"))
      /\ nr = (OfCond(cs, "rebootDecoupled", "EXISTS") # {}) /\ nh = (OfCond(cs, "downloadProtocol", "IS") # {})
      /\ ips = LastGroup(cs).name /\ env = LastOf(cs, NamedCond(cs, "env")) /\ model = LastOf(cs, NamedCond(cs, "model"))
  <2> DEFINE a1 == HasZone(ps)
             a2 == LastOf(cs, OfCond(cs, "time", "GTE"))
             a3 == LastOf(cs, OfCond(cs, "time", "LTE"))
             a4 == OfCond(cs, "rebootDecoupled", "EXISTS") # {}
             a5 == OfCond(cs, "downloadProtocol", "IS") # {}
             a6 == LastGroup(cs).name
             a7 == LastOf(cs, NamedCond(cs, "env"))
             a8 == LastOf(cs, NamedCond(cs, "model"))
  <2>1. convertConditions(ps) = View(a1, a2, a3, a4, a5, a6, a7, a8)
    BY ConvertFields
  <2> HIDE DEF a1, a2, a3, a4, a5, a6, a7, a8
  <2>2. View(a1, a2, a3, a4, a5, a6, a7, a8) = View(lt, st, en, nr, nh, ips, env, model)
    BY <1>0, <2>1
  <2>3. lt = a1 /\ st = a2 /\ en = a3 /\ nr = a4 /\ nh = a5 /\ ips = a6 /\ env = a7 /\ model = a8
    BY <2>2 DEF View
  <2>4. QED BY <2>3 DEF a1, a2, a3, a4, a5, a6, a7, a8
<1>3. convertConditions(qs) =
        View(HasZone(qs), LastOf(ds, OfCond(ds, "time", "GTE")), LastOf(ds, OfCond(ds, "time", "LTE")),
             OfCond(ds, "rebootDecoupled", "EXISTS") # {}, OfCond(ds, "downloadProtocol", "IS") # {},
             LastGroup(ds).name, LastOf(ds, NamedCond(ds, "env")), LastOf(ds, NamedCond(ds, "model")))
  BY <1>1, ConvertFields
<1>4. HasZone(qs) <=> lt \/ (c.name = "timeZone" /\ x.negated)
  BY <1>0, <1>2, ZoneAppend
<1>6. \A name, op :
             /\ LastOf(ds, OfCond(ds, name, op)) = IF c.name = name /\ c.op = op THEN c.fixed.str ELSE LastOf(cs, OfCond(cs, name, op))
             /\ LastOf(ds, NamedCond(ds, name)) = IF c.name = name THEN c.fixed.str ELSE LastOf(cs, NamedCond(cs, name))
             /\ (OfCond(ds, name, op) # {}) <=> ((OfCond(cs, name, op) # {}) \/ (c.name = name /\ c.op = op))
             /\ LastGroup(ds) = IF IsAddress(c) THEN GetIpAddressGroup(c) ELSE LastGroup(cs)
  <2>1. cs \in Seq(AllConditions) /\ c \in AllConditions
    BY <1>1
  <2> HIDE DEF cs
  <2>2. QED BY <2>1, OneMore
<1>5. /\ LastOf(ds, OfCond(ds, "time", "GTE")) = IF c.name = "time" /\ c.op = "GTE" THEN c.fixed.str ELSE st
      /\ LastOf(ds, OfCond(ds, "time", "LTE")) = IF c.name = "time" /\ c.op = "LTE" THEN c.fixed.str ELSE en
      /\ LastOf(ds, NamedCond(ds, "env")) = IF c.name = "env" THEN c.fixed.str ELSE env
      /\ LastOf(ds, NamedCond(ds, "model")) = IF c.name = "model" THEN c.fixed.str ELSE model
  <2> HIDE DEF cs, ds
  <2>1. QED BY <1>2, <1>6
<1>7. LastGroup(ds).name = IF IsAddress(c) THEN GetIpAddressGroup(c).name ELSE ips
  BY <1>2, <1>6
<1>8. /\ (OfCond(ds, "rebootDecoupled", "EXISTS") # {}) <=> (nr \/ (c.name = "rebootDecoupled" /\ c.op = "EXISTS"))
      /\ (OfCond(ds, "downloadProtocol", "IS") # {}) <=> (nh \/ (c.name = "downloadProtocol" /\ c.op = "IS"))
  BY <1>2, <1>6
<1> DEFINE b1 == HasZone(qs)
           b4 == OfCond(ds, "rebootDecoupled", "EXISTS") # {}
           b5 == OfCond(ds, "downloadProtocol", "IS") # {}
           e1 == lt \/ (c.name = "timeZone" /\ x.negated)
           e4 == nr \/ (c.name = "rebootDecoupled" /\ c.op = "EXISTS")
           e5 == nh \/ (c.name = "downloadProtocol" /\ c.op = "IS")
<1>9. /\ b1 \in BOOLEAN /\ b4 \in BOOLEAN /\ b5 \in BOOLEAN /\ e1 \in BOOLEAN /\ e4 \in BOOLEAN /\ e5 \in BOOLEAN
      /\ (b1 <=> e1) /\ (b4 <=> e4) /\ (b5 <=> e5)
  BY <1>4, <1>8 DEF HasZone
<1> HIDE DEF b1, b4, b5, e1, e4, e5
<1>10. b1 = e1 /\ b4 = e4 /\ b5 = e5
  BY <1>9, BooleansEqual
<1>11. convertConditions(qs) =
        View(b1, LastOf(ds, OfCond(ds, "time", "GTE")), LastOf(ds, OfCond(ds, "time", "LTE")), b4, b5,
             LastGroup(ds).name, LastOf(ds, NamedCond(ds, "env")), LastOf(ds, NamedCond(ds, "model")))
  BY <1>3 DEF b1, b4, b5
<1>12. convertConditions(qs) =
        View(e1, IF c.name = "time" /\ c.op = "GTE" THEN c.fixed.str ELSE st,
             IF c.name = "time" /\ c.op = "LTE" THEN c.fixed.str ELSE en, e4, e5,
             IF IsAddress(c) THEN GetIpAddressGroup(c).name ELSE ips,
             IF c.name = "env" THEN c.fixed.str ELSE env,
             IF c.name = "model" THEN c.fixed.str ELSE model)
  <2> HIDE DEF qs, ds
  <2>1. QED BY <1>5, <1>7, <1>10, <1>11
<1>13. QED BY <1>1, <1>12 DEF Shows, e1, e4, e5
(* What each part of a time filter adds to the form.                       *)
OnTime(x, name, op) == x \in AllRules /\ x.cond.name = name /\ x.cond.op = op

LEMMA AddsZone ==
    ASSUME NEW ps, NEW lt \in BOOLEAN, NEW st, NEW en, NEW nr \in BOOLEAN, NEW nh \in BOOLEAN, NEW ips, NEW env, NEW model,
           Shows(ps, View(lt, st, en, nr, nh, ips, env, model)), NEW x, OnTime(x, "timeZone", "IS"), x.negated \in BOOLEAN
    PROVE  Shows(Append(ps, x), View(lt \/ x.negated, st, en, nr, nh, ips, env, model))
<1> DEFINE c == x.cond
           e1 == lt \/ (c.name = "timeZone" /\ x.negated)
           e2 == IF c.name = "time" /\ c.op = "GTE" THEN c.fixed.str ELSE st
           e3 == IF c.name = "time" /\ c.op = "LTE" THEN c.fixed.str ELSE en
           e4 == nr \/ (c.name = "rebootDecoupled" /\ c.op = "EXISTS")
           e5 == nh \/ (c.name = "downloadProtocol" /\ c.op = "IS")
           e6 == IF IsAddress(c) THEN GetIpAddressGroup(c).name ELSE ips
           e7 == IF c.name = "env" THEN c.fixed.str ELSE env
           e8 == IF c.name = "model" THEN c.fixed.str ELSE model
           t1 == lt \/ x.negated
<1>1. Shows(Append(ps, x), View(e1, e2, e3, e4, e5, e6, e7, e8))
  BY ShowsAppend DEF OnTime
<1>2. c.name = "timeZone" /\ c.op = "IS" /\ ~IsAddress(c)
  BY DEF OnTime, IsAddress
<1>3. e1 \in BOOLEAN /\ e4 \in BOOLEAN /\ e5 \in BOOLEAN /\ t1 \in BOOLEAN
      /\ (e1 <=> lt \/ x.negated) /\ (e4 <=> nr) /\ (e5 <=> nh)
  BY <1>2
<1>4. e2 = st /\ e3 = en /\ e6 = ips /\ e7 = env /\ e8 = model
  BY <1>2
<1> HIDE DEF e1, e2, e3, e4, e5, e6, e7, e8
<1>5. e1 = (lt \/ x.negated) /\ e4 = nr /\ e5 = nh
  BY <1>3, BooleansEqual
<1>6. QED BY <1>1, <1>4, <1>5, Zenon

LEMMA AddsStart ==
    ASSUME NEW ps, NEW lt \in BOOLEAN, NEW st, NEW en, NEW nr \in BOOLEAN, NEW nh \in BOOLEAN, NEW ips, NEW env, NEW model,
           Shows(ps, View(lt, st, en, nr, nh, ips, env, model)), NEW x, OnTime(x, "time", "GTE")
    PROVE  Shows(Append(ps, x), View(lt, x.cond.fixed.str, en, nr, nh, ips, env, model))
<1> DEFINE c == x.cond
           e1 == lt \/ (c.name = "timeZone" /\ x.negated)
           e2 == IF c.name = "time" /\ c.op = "GTE" THEN c.fixed.str ELSE st
           e3 == IF c.name = "time" /\ c.op = "LTE" THEN c.fixed.str ELSE en
           e4 == nr \/ (c.name = "rebootDecoupled" /\ c.op = "EXISTS")
           e5 == nh \/ (c.name = "downloadProtocol" /\ c.op = "IS")
           e6 == IF IsAddress(c) THEN GetIpAddressGroup(c).name ELSE ips
           e7 == IF c.name = "env" THEN c.fixed.str ELSE env
           e8 == IF c.name = "model" THEN c.fixed.str ELSE model
           t2 == x.cond.fixed.str
<1>1. Shows(Append(ps, x), View(e1, e2, e3, e4, e5, e6, e7, e8))
  BY ShowsAppend DEF OnTime
<1>2. c.name = "time" /\ c.op = "GTE" /\ ~IsAddress(c)
  BY DEF OnTime, IsAddress
<1>3. e1 \in BOOLEAN /\ e4 \in BOOLEAN /\ e5 \in BOOLEAN
      /\ (e1 <=> lt) /\ (e4 <=> nr) /\ (e5 <=> nh)
  BY <1>2
<1>4. e2 = x.cond.fixed.str /\ e3 = en /\ e6 = ips /\ e7 = env /\ e8 = model
  BY <1>2
<1> HIDE DEF e1, e2, e3, e4, e5, e6, e7, e8
<1>5. e1 = (lt) /\ e4 = nr /\ e5 = nh
  BY <1>3, BooleansEqual
<1>6. QED BY <1>1, <1>4, <1>5, Zenon

LEMMA AddsEnd ==
    ASSUME NEW ps, NEW lt \in BOOLEAN, NEW st, NEW en, NEW nr \in BOOLEAN, NEW nh \in BOOLEAN, NEW ips, NEW env, NEW model,
           Shows(ps, View(lt, st, en, nr, nh, ips, env, model)), NEW x, OnTime(x, "time", "LTE")
    PROVE  Shows(Append(ps, x), View(lt, st, x.cond.fixed.str, nr, nh, ips, env, model))
<1> DEFINE c == x.cond
           e1 == lt \/ (c.name = "timeZone" /\ x.negated)
           e2 == IF c.name = "time" /\ c.op = "GTE" THEN c.fixed.str ELSE st
           e3 == IF c.name = "time" /\ c.op = "LTE" THEN c.fixed.str ELSE en
           e4 == nr \/ (c.name = "rebootDecoupled" /\ c.op = "EXISTS")
           e5 == nh \/ (c.name = "downloadProtocol" /\ c.op = "IS")
           e6 == IF IsAddress(c) THEN GetIpAddressGroup(c).name ELSE ips
           e7 == IF c.name = "env" THEN c.fixed.str ELSE env
           e8 == IF c.name = "model" THEN c.fixed.str ELSE model
           t3 == x.cond.fixed.str
<1>1. Shows(Append(ps, x), View(e1, e2, e3, e4, e5, e6, e7, e8))
  BY ShowsAppend DEF OnTime
<1>2. c.name = "time" /\ c.op = "LTE" /\ ~IsAddress(c)
  BY DEF OnTime, IsAddress
<1>3. e1 \in BOOLEAN /\ e4 \in BOOLEAN /\ e5 \in BOOLEAN
      /\ (e1 <=> lt) /\ (e4 <=> nr) /\ (e5 <=> nh)
  BY <1>2
<1>4. e2 = st /\ e3 = x.cond.fixed.str /\ e6 = ips /\ e7 = env /\ e8 = model
  BY <1>2
<1> HIDE DEF e1, e2, e3, e4, e5, e6, e7, e8
<1>5. e1 = (lt) /\ e4 = nr /\ e5 = nh
  BY <1>3, BooleansEqual
<1>6. QED BY <1>1, <1>4, <1>5, Zenon

LEMMA AddsReboot ==
    ASSUME NEW ps, NEW lt \in BOOLEAN, NEW st, NEW en, NEW nr \in BOOLEAN, NEW nh \in BOOLEAN, NEW ips, NEW env, NEW model,
           Shows(ps, View(lt, st, en, nr, nh, ips, env, model)), NEW x, OnTime(x, "rebootDecoupled", "EXISTS")
    PROVE  Shows(Append(ps, x), View(lt, st, en, TRUE, nh, ips, env, model))
<1> DEFINE c == x.cond
           e1 == lt \/ (c.name = "timeZone" /\ x.negated)
           e2 == IF c.name = "time" /\ c.op = "GTE" THEN c.fixed.str ELSE st
           e3 == IF c.name = "time" /\ c.op = "LTE" THEN c.fixed.str ELSE en
           e4 == nr \/ (c.name = "rebootDecoupled" /\ c.op = "EXISTS")
           e5 == nh \/ (c.name = "downloadProtocol" /\ c.op = "IS")
           e6 == IF IsAddress(c) THEN GetIpAddressGroup(c).name ELSE ips
           e7 == IF c.name = "env" THEN c.fixed.str ELSE env
           e8 == IF c.name = "model" THEN c.fixed.str ELSE model
           t4 == TRUE
<1>1. Shows(Append(ps, x), View(e1, e2, e3, e4, e5, e6, e7, e8))
  BY ShowsAppend DEF OnTime
<1>2. c.name = "rebootDecoupled" /\ c.op = "EXISTS" /\ ~IsAddress(c)
  BY DEF OnTime, IsAddress
<1>3. e1 \in BOOLEAN /\ e4 \in BOOLEAN /\ e5 \in BOOLEAN /\ t4 \in BOOLEAN
      /\ (e1 <=> lt) /\ (e4 <=> TRUE) /\ (e5 <=> nh)
  BY <1>2
<1>4. e2 = st /\ e3 = en /\ e6 = ips /\ e7 = env /\ e8 = model
  BY <1>2
<1> HIDE DEF e1, e2, e3, e4, e5, e6, e7, e8
<1>5. e1 = (lt) /\ e4 = TRUE /\ e5 = nh
  BY <1>3, BooleansEqual
<1>6. QED BY <1>1, <1>4, <1>5, Zenon

LEMMA AddsHttp ==
    ASSUME NEW ps, NEW lt \in BOOLEAN, NEW st, NEW en, NEW nr \in BOOLEAN, NEW nh \in BOOLEAN, NEW ips, NEW env, NEW model,
           Shows(ps, View(lt, st, en, nr, nh, ips, env, model)), NEW x, OnTime(x, "downloadProtocol", "IS")
    PROVE  Shows(Append(ps, x), View(lt, st, en, nr, TRUE, ips, env, model))
<1> DEFINE c == x.cond
           e1 == lt \/ (c.name = "timeZone" /\ x.negated)
           e2 == IF c.name = "time" /\ c.op = "GTE" THEN c.fixed.str ELSE st
           e3 == IF c.name = "time" /\ c.op = "LTE" THEN c.fixed.str ELSE en
           e4 == nr \/ (c.name = "rebootDecoupled" /\ c.op = "EXISTS")
           e5 == nh \/ (c.name = "downloadProtocol" /\ c.op = "IS")
           e6 == IF IsAddress(c) THEN GetIpAddressGroup(c).name ELSE ips
           e7 == IF c.name = "env" THEN c.fixed.str ELSE env
           e8 == IF c.name = "model" THEN c.fixed.str ELSE model
           t5 == TRUE
<1>1. Shows(Append(ps, x), View(e1, e2, e3, e4, e5, e6, e7, e8))
  BY ShowsAppend DEF OnTime
<1>2. c.name = "downloadProtocol" /\ c.op = "IS" /\ ~IsAddress(c)
  BY DEF OnTime, IsAddress
<1>3. e1 \in BOOLEAN /\ e4 \in BOOLEAN /\ e5 \in BOOLEAN /\ t5 \in BOOLEAN
      /\ (e1 <=> lt) /\ (e4 <=> nr) /\ (e5 <=> TRUE)
  BY <1>2
<1>4. e2 = st /\ e3 = en /\ e6 = ips /\ e7 = env /\ e8 = model
  BY <1>2
<1> HIDE DEF e1, e2, e3, e4, e5, e6, e7, e8
<1>5. e1 = (lt) /\ e4 = nr /\ e5 = TRUE
  BY <1>3, BooleansEqual
<1>6. QED BY <1>1, <1>4, <1>5, Zenon

LEMMA AddsEnv ==
    ASSUME NEW ps, NEW lt \in BOOLEAN, NEW st, NEW en, NEW nr \in BOOLEAN, NEW nh \in BOOLEAN, NEW ips, NEW env, NEW model,
           Shows(ps, View(lt, st, en, nr, nh, ips, env, model)), NEW x, OnTime(x, "env", "IS")
    PROVE  Shows(Append(ps, x), View(lt, st, en, nr, nh, ips, x.cond.fixed.str, model))
<1> DEFINE c == x.cond
           e1 == lt \/ (c.name = "timeZone" /\ x.negated)
           e2 == IF c.name = "time" /\ c.op = "GTE" THEN c.fixed.str ELSE st
           e3 == IF c.name = "time" /\ c.op = "LTE" THEN c.fixed.str ELSE en
           e4 == nr \/ (c.name = "rebootDecoupled" /\ c.op = "EXISTS")
           e5 == nh \/ (c.name = "downloadProtocol" /\ c.op = "IS")
           e6 == IF IsAddress(c) THEN GetIpAddressGroup(c).name ELSE ips
           e7 == IF c.name = "env" THEN c.fixed.str ELSE env
           e8 == IF c.name = "model" THEN c.fixed.str ELSE model
           t7 == x.cond.fixed.str
<1>1. Shows(Append(ps, x), View(e1, e2, e3, e4, e5, e6, e7, e8))
  BY ShowsAppend DEF OnTime
<1>2. c.name = "env" /\ c.op = "IS" /\ ~IsAddress(c)
  BY DEF OnTime, IsAddress
<1>3. e1 \in BOOLEAN /\ e4 \in BOOLEAN /\ e5 \in BOOLEAN
      /\ (e1 <=> lt) /\ (e4 <=> nr) /\ (e5 <=> nh)
  BY <1>2
<1>4. e2 = st /\ e3 = en /\ e6 = ips /\ e7 = x.cond.fixed.str /\ e8 = model
  BY <1>2
<1> HIDE DEF e1, e2, e3, e4, e5, e6, e7, e8
<1>5. e1 = (lt) /\ e4 = nr /\ e5 = nh
  BY <1>3, BooleansEqual
<1>6. QED BY <1>1, <1>4, <1>5, Zenon

LEMMA AddsModel ==
    ASSUME NEW ps, NEW lt \in BOOLEAN, NEW st, NEW en, NEW nr \in BOOLEAN, NEW nh \in BOOLEAN, NEW ips, NEW env, NEW model,
           Shows(ps, View(lt, st, en, nr, nh, ips, env, model)), NEW x, OnTime(x, "model", "IS")
    PROVE  Shows(Append(ps, x), View(lt, st, en, nr, nh, ips, env, x.cond.fixed.str))
<1> DEFINE c == x.cond
           e1 == lt \/ (c.name = "timeZone" /\ x.negated)
           e2 == IF c.name = "time" /\ c.op = "GTE" THEN c.fixed.str ELSE st
           e3 == IF c.name = "time" /\ c.op = "LTE" THEN c.fixed.str ELSE en
           e4 == nr \/ (c.name = "rebootDecoupled" /\ c.op = "EXISTS")
           e5 == nh \/ (c.name = "downloadProtocol" /\ c.op = "IS")
           e6 == IF IsAddress(c) THEN GetIpAddressGroup(c).name ELSE ips
           e7 == IF c.name = "env" THEN c.fixed.str ELSE env
           e8 == IF c.name = "model" THEN c.fixed.str ELSE model
           t8 == x.cond.fixed.str
<1>1. Shows(Append(ps, x), View(e1, e2, e3, e4, e5, e6, e7, e8))
  BY ShowsAppend DEF OnTime
<1>2. c.name = "model" /\ c.op = "IS" /\ ~IsAddress(c)
  BY DEF OnTime, IsAddress
<1>3. e1 \in BOOLEAN /\ e4 \in BOOLEAN /\ e5 \in BOOLEAN
      /\ (e1 <=> lt) /\ (e4 <=> nr) /\ (e5 <=> nh)
  BY <1>2
<1>4. e2 = st /\ e3 = en /\ e6 = ips /\ e7 = env /\ e8 = x.cond.fixed.str
  BY <1>2
<1> HIDE DEF e1, e2, e3, e4, e5, e6, e7, e8
<1>5. e1 = (lt) /\ e4 = nr /\ e5 = nh
  BY <1>3, BooleansEqual
<1>6. QED BY <1>1, <1>4, <1>5, Zenon

LEMMA AddsAddresses ==
    ASSUME NEW ps, NEW lt \in BOOLEAN, NEW st, NEW en, NEW nr \in BOOLEAN, NEW nh \in BOOLEAN, NEW ips, NEW env, NEW model,
           Shows(ps, View(lt, st, en, nr, nh, ips, env, model)), NEW x, OnTime(x, "ipAddress", "IN_LIST"), x.cond.type = "STRING"
    PROVE  Shows(Append(ps, x), View(lt, st, en, nr, nh, x.cond.fixed.str, env, model))
<1> DEFINE c == x.cond
           e1 == lt \/ (c.name = "timeZone" /\ x.negated)
           e2 == IF c.name = "time" /\ c.op = "GTE" THEN c.fixed.str ELSE st
           e3 == IF c.name = "time" /\ c.op = "LTE" THEN c.fixed.str ELSE en
           e4 == nr \/ (c.name = "rebootDecoupled" /\ c.op = "EXISTS")
           e5 == nh \/ (c.name = "downloadProtocol" /\ c.op = "IS")
           e6 == IF IsAddress(c) THEN GetIpAddressGroup(c).name ELSE ips
           e7 == IF c.name = "env" THEN c.fixed.str ELSE env
           e8 == IF c.name = "model" THEN c.fixed.str ELSE model
<1>1. Shows(Append(ps, x), View(e1, e2, e3, e4, e5, e6, e7, e8))
  BY ShowsAppend DEF OnTime
<1>2. c.name = "ipAddress" /\ c.op = "IN_LIST" /\ IsAddress(c) /\ GetIpAddressGroup(c).name = c.fixed.str
  BY DEF OnTime, IsAddress, GetIpAddressGroup, Group
<1>3. e1 \in BOOLEAN /\ e4 \in BOOLEAN /\ e5 \in BOOLEAN
      /\ (e1 <=> lt) /\ (e4 <=> nr) /\ (e5 <=> nh)
  BY <1>2
<1>4. e2 = st /\ e3 = en /\ e6 = x.cond.fixed.str /\ e7 = env /\ e8 = model
  BY <1>2
<1> HIDE DEF e1, e2, e3, e4, e5, e6, e7, e8
<1>5. e1 = lt /\ e4 = nr /\ e5 = nh
  BY <1>3, BooleansEqual
<1>6. QED BY <1>1, <1>4, <1>5, Zenon

(* Leaves, negated or not, joined to something or not.                     *)
Carries(x, t, n, o, a) ==
    OnTime(x, n, o) /\ x.cond.type = t /\ x.cond.fixed = a /\ ~x.compound

LEMMA LeafCarries ==
    ASSUME NEW t \in STRING, NEW n \in STRING, NEW o \in STRING, NEW a \in FixedArgs
    PROVE  /\ Carries(Leaf(Cond(t, n, o, a)), t, n, o, a)
           /\ Carries(Not(Leaf(Cond(t, n, o, a))), t, n, o, a)
           /\ Leaf(Cond(t, n, o, a)).negated = FALSE /\ Not(Leaf(Cond(t, n, o, a))).negated = TRUE
<1>1. Cond(t, n, o, a) \in AllConditions
  BY CondType
<1>2. GoodLeaf(Leaf(Cond(t, n, o, a))) /\ GoodLeaf(Not(Leaf(Cond(t, n, o, a))))
  BY <1>1, LeafOf
<1> DEFINE c == Cond(t, n, o, a)
           x == Leaf(c)
           y == Not(Leaf(c))
<1>3. x \in AllRules /\ y \in AllRules /\ ~x.compound /\ ~y.compound
  BY <1>2, GoodLeafRule
<1>4. c.type = t /\ c.name = n /\ c.op = o /\ c.fixed = a
  BY CondFields
<1> HIDE DEF c
<1>40. x.cond = c /\ y.cond = c
  BY LeafFields
<1>5. x.negated = FALSE /\ y.negated = TRUE
  BY LeafFields, Zenon
<1> HIDE DEF x, y
<1>6. Carries(x, t, n, o, a) /\ Carries(y, t, n, o, a)
  BY <1>3, <1>4, <1>40, <1>5 DEF Carries, OnTime
<1>7. QED BY <1>5, <1>6, Zenon DEF x, y, c

LEMMA RelatedCarries ==
    ASSUME NEW x, NEW t, NEW n, NEW o, NEW a, Carries(x, t, n, o, a), NEW rel \in {"", "AND", "OR"}
    PROVE  Carries(RelatedBy(x, rel), t, n, o, a)
<1>1. x \in AllRules /\ ~x.compound
  BY DEF Carries, OnTime
<1>2. RelatedBy(x, rel) \in AllRules /\ RelatedBy(x, rel).cond = x.cond /\ (RelatedBy(x, rel).compound = x.compound)
  BY <1>1, RelatedFields
<1>3. QED BY <1>1, <1>2, Zenon DEF Carries, OnTime

LEMMA AndIfParts ==
    ASSUME NEW b, NEW ps, NEW x
    PROVE  AndIf(b, Compound(ps), x) = Compound(IF b THEN Append(ps, RelatedBy(x, "AND")) ELSE ps)
BY AddToCompound DEF AndIf, AndRules

LEMMA ShowsNothing == Shows(<<>>, View(FALSE, Empty, Empty, FALSE, FALSE, Empty, Empty, Empty))
<1> DEFINE ps == <<>>
           cs == CondsOf(ps)
           a1 == HasZone(ps)
           a4 == OfCond(cs, "rebootDecoupled", "EXISTS") # {}
           a5 == OfCond(cs, "downloadProtocol", "IS") # {}
<1>1. DOMAIN ps = {} /\ ps \in Seq(AllRules)
  OBVIOUS
<1>2. DOMAIN cs = {}
  BY <1>1 DEF CondsOf
<1>3. a1 = FALSE /\ a4 = FALSE /\ a5 = FALSE
  BY <1>1, <1>2 DEF HasZone, OfCond
<1>4. \A name, op : LastOf(cs, OfCond(cs, name, op)) = Empty /\ LastOf(cs, NamedCond(cs, name)) = Empty
  BY <1>2 DEF LastOf, OfCond, NamedCond
<1>5. LastGroup(cs).name = Empty
  BY <1>2 DEF LastGroup, NoGroup
<1>6. convertConditions(ps) =
        View(a1, LastOf(cs, OfCond(cs, "time", "GTE")), LastOf(cs, OfCond(cs, "time", "LTE")), a4, a5,
             LastGroup(cs).name, LastOf(cs, NamedCond(cs, "env")), LastOf(cs, NamedCond(cs, "model")))
  BY ConvertFields
<1> HIDE DEF a1, a4, a5, cs
<1>7. convertConditions(ps) = View(FALSE, Empty, Empty, FALSE, FALSE, Empty, Empty, Empty)
  BY <1>3, <1>4, <1>5, <1>6, Zenon
<1>8. QED BY <1>1, <1>7 DEF Shows

LEMMA TimeFilterShown ==
    ASSUME NEW p \in Filters
    PROVE  LET both == p.env # Empty /\ p.model # Empty
           IN  convertConditions(createTimeFilter(p).parts) =
                 View(p.localTime, p.start, p.end, p.neverReboot, p.neverHttp, p.ips,
                      IF both THEN p.env ELSE Empty, IF both THEN p.model ELSE Empty)
<1>1. /\ p.start \in STRING /\ p.end \in STRING /\ p.localTime \in BOOLEAN /\ p.neverReboot \in BOOLEAN /\ p.neverHttp \in BOOLEAN
      /\ p.ips \in STRING /\ p.env \in STRING /\ p.model \in STRING
  <2>1. p \in [start : Times, end : Times, localTime : BOOLEAN, neverReboot : BOOLEAN, neverHttp : BOOLEAN,
               ips : DOMAIN Lists \cup {Empty}, env : Values \cup {Empty}, model : Values \cup {Empty}]
    BY FiltersOK
  <2>2. Values \subseteq STRING /\ Times \subseteq Values /\ DOMAIN Lists \subseteq STRING /\ Empty \in STRING
    BY ValuesOK, FiltersOK, WordsOK DEF Times, Empty
  <2>3. QED BY <2>1, <2>2
<1>2. /\ "timeZone" \in STRING /\ "UTC" \in STRING /\ "rebootDecoupled" \in STRING /\ "downloadProtocol" \in STRING
      /\ "http" \in STRING /\ "ipAddress" \in STRING /\ "env" \in STRING /\ "model" \in STRING /\ "time" \in STRING
      /\ "STRING" \in STRING /\ "ANY" \in STRING /\ "IS" \in STRING /\ "IN_LIST" \in STRING /\ "GTE" \in STRING /\ "LTE" \in STRING
      /\ "EXISTS" \in STRING /\ TimeType \in STRING
  BY WordsOK, ValuesOK
<1> DEFINE zone == IsText("timeZone", "UTC")
           z == IF p.localTime THEN Not(zone) ELSE zone
           rel == IF AsNumber[p.start] < AsNumber[p.end] THEN "AND" ELSE "OR"
           x1 == RelatedBy(TimeIs("GTE", p.start), "AND")
           x2 == RelatedBy(TimeIs("LTE", p.end), rel)
           x3 == RelatedBy(Not(Leaf(Cond("ANY", "rebootDecoupled", "EXISTS", NoArg))), "AND")
           x4 == RelatedBy(Not(IsText("downloadProtocol", "http")), "AND")
           x5 == RelatedBy(Not(InList("ipAddress", p.ips)), "AND")
           x6 == RelatedBy(Not(IsText("env", p.env)), "AND")
           x7 == RelatedBy(Not(IsText("model", p.model)), "OR")
<1>3. Carries(z, "STRING", "timeZone", "IS", Str("UTC")) /\ z.negated = p.localTime
  <2>1. /\ Carries(zone, "STRING", "timeZone", "IS", Str("UTC")) /\ Carries(Not(zone), "STRING", "timeZone", "IS", Str("UTC"))
    BY <1>2, ArgTypes, LeafCarries DEF IsText
  <2>2. zone.negated = FALSE /\ Not(zone).negated = TRUE
    BY LeafFields, Zenon DEF IsText
  <2> HIDE DEF zone
  <2>3. QED BY <1>1, <2>1, <2>2
<1>4. Carries(x1, TimeType, "time", "GTE", Str(p.start))
  <2>1. Carries(TimeIs("GTE", p.start), TimeType, "time", "GTE", Str(p.start))
    BY <1>1, <1>2, ArgTypes, LeafCarries DEF TimeIs
  <2>2. QED BY <2>1, RelatedCarries
<1>5. Carries(x2, TimeType, "time", "LTE", Str(p.end))
  <2>1. Carries(TimeIs("LTE", p.end), TimeType, "time", "LTE", Str(p.end))
    BY <1>1, <1>2, ArgTypes, LeafCarries DEF TimeIs
  <2>2. QED BY <2>1, RelatedCarries
<1>6. Carries(x3, "ANY", "rebootDecoupled", "EXISTS", NoArg)
  <2>1. Carries(Not(Leaf(Cond("ANY", "rebootDecoupled", "EXISTS", NoArg))), "ANY", "rebootDecoupled", "EXISTS", NoArg)
    BY <1>2, NoArgType, LeafCarries
  <2>2. QED BY <2>1, RelatedCarries
<1>7. Carries(x4, "STRING", "downloadProtocol", "IS", Str("http"))
  <2>1. Carries(Not(IsText("downloadProtocol", "http")), "STRING", "downloadProtocol", "IS", Str("http"))
    BY <1>2, ArgTypes, LeafCarries DEF IsText
  <2>2. QED BY <2>1, RelatedCarries
<1>8. Carries(x5, "STRING", "ipAddress", "IN_LIST", Str(p.ips))
  <2>1. Carries(Not(InList("ipAddress", p.ips)), "STRING", "ipAddress", "IN_LIST", Str(p.ips))
    BY <1>1, <1>2, ArgTypes, LeafCarries DEF InList
  <2>2. QED BY <2>1, RelatedCarries
<1>9. Carries(x6, "STRING", "env", "IS", Str(p.env)) /\ Carries(x7, "STRING", "model", "IS", Str(p.model))
  <2>1. Carries(Not(IsText("env", p.env)), "STRING", "env", "IS", Str(p.env))
    BY <1>1, <1>2, ArgTypes, LeafCarries DEF IsText
  <2>2. Carries(Not(IsText("model", p.model)), "STRING", "model", "IS", Str(p.model))
    BY <1>1, <1>2, ArgTypes, LeafCarries DEF IsText
  <2>3. QED BY <2>1, <2>2, RelatedCarries
<1> DEFINE both == p.env # Empty /\ p.model # Empty
           q0 == Append(<<>>, z)
           q1 == Append(q0, x1)
           q2 == Append(q1, x2)
           q3 == IF p.neverReboot THEN Append(q2, x3) ELSE q2
           q4 == IF p.neverHttp THEN Append(q3, x4) ELSE q3
           q5 == IF p.ips # Empty THEN Append(q4, x5) ELSE q4
           q6 == IF both THEN Append(Append(q5, x6), x7) ELSE q5
<1>10. createTimeFilter(p) = Compound(q6)
  <2> DEFINE r1 == AndRules(z, TimeIs("GTE", p.start))
             r2 == IF AsNumber[p.start] < AsNumber[p.end] THEN AndRules(r1, TimeIs("LTE", p.end)) ELSE OrRules(r1, TimeIs("LTE", p.end))
             r3 == AndIf(p.neverReboot, r2, Not(Leaf(Cond("ANY", "rebootDecoupled", "EXISTS", NoArg))))
             r4 == AndIf(p.neverHttp, r3, Not(IsText("downloadProtocol", "http")))
             r5 == AndIf(p.ips # Empty, r4, Not(InList("ipAddress", p.ips)))
             r6 == IF both THEN OrRules(AndRules(r5, Not(IsText("env", p.env))), Not(IsText("model", p.model))) ELSE r5
  <2>0. createTimeFilter(p) = r6
    BY Zenon DEF createTimeFilter
  <2> HIDE DEF z, x1, x2, x3, x4, x5, x6, x7
  <2>1. r1 = Compound(q1)
    <3>1. ~z.compound
      BY <1>3 DEF Carries
    <3>2. r1 = Compound(<<z, x1>>)
      BY <3>1, AddToLeaf DEF AndRules, x1
    <3>3. QED BY <3>2, TwoOfThem
  <2> HIDE DEF r1, q1
  <2>2. r2 = Compound(q2)
    BY <2>1, AddToCompound DEF AndRules, OrRules, x2
  <2> HIDE DEF r2, q2
  <2>3. r3 = Compound(q3)
    BY <2>2, AndIfParts DEF x3
  <2> HIDE DEF r3, q3
  <2>4. r4 = Compound(q4)
    BY <2>3, AndIfParts DEF x4
  <2> HIDE DEF r4, q4
  <2>5. r5 = Compound(q5)
    BY <2>4, AndIfParts DEF x5
  <2> HIDE DEF r5, q5
  <2>6. r6 = Compound(q6)
    BY <2>5, AddToCompound DEF AndRules, OrRules, x6, x7
  <2>7. QED BY <2>0, <2>6
<1> HIDE DEF z, x1, x2, x3, x4, x5, x6, x7
<1>11. /\ x1.cond.fixed.str = p.start /\ x2.cond.fixed.str = p.end /\ x5.cond.fixed.str = p.ips
       /\ x6.cond.fixed.str = p.env /\ x7.cond.fixed.str = p.model /\ z.negated = p.localTime /\ x5.cond.type = "STRING"
  <2>1. z.negated = p.localTime
    BY <1>3
  <2>2. /\ x1.cond.fixed = Str(p.start) /\ x2.cond.fixed = Str(p.end) /\ x5.cond.fixed = Str(p.ips)
        /\ x6.cond.fixed = Str(p.env) /\ x7.cond.fixed = Str(p.model) /\ x5.cond.type = "STRING"
    BY <1>4, <1>5, <1>8, <1>9 DEF Carries
  <2>3. QED BY <2>1, <2>2, ArgFields
<1>12. /\ OnTime(z, "timeZone", "IS") /\ OnTime(x1, "time", "GTE") /\ OnTime(x2, "time", "LTE") /\ OnTime(x3, "rebootDecoupled", "EXISTS")
       /\ OnTime(x4, "downloadProtocol", "IS") /\ OnTime(x5, "ipAddress", "IN_LIST") /\ OnTime(x6, "env", "IS") /\ OnTime(x7, "model", "IS")
  BY <1>3, <1>4, <1>5, <1>6, <1>7, <1>8, <1>9 DEF Carries
<1> DEFINE lt == p.localTime
           nr == p.neverReboot
           nh == p.neverHttp
           no == FALSE
           yes == TRUE
<1>13. no \in BOOLEAN /\ yes \in BOOLEAN /\ lt \in BOOLEAN /\ nr \in BOOLEAN /\ nh \in BOOLEAN
  BY <1>1
<1>14. Shows(q0, View(lt, Empty, Empty, no, no, Empty, Empty, Empty))
  <2>1. Shows(<<>>, View(no, Empty, Empty, no, no, Empty, Empty, Empty))
    BY ShowsNothing
  <2>2. z.negated \in BOOLEAN
    BY <1>1, <1>11
  <2> DEFINE v == no \/ z.negated
  <2>3. (no \/ z.negated) = lt
    BY <1>11, <2>2
  <2> HIDE DEF no
  <2>4. Shows(q0, View(no \/ z.negated, Empty, Empty, no, no, Empty, Empty, Empty))
    BY <1>12, <1>13, <2>1, <2>2, AddsZone
  <2>5. QED BY <2>3, <2>4, Zenon
<1> HIDE DEF q0, no, yes, lt, nr, nh
<1>15. Shows(q1, View(lt, p.start, Empty, no, no, Empty, Empty, Empty))
  BY <1>11, <1>12, <1>13, <1>14, AddsStart
<1> HIDE DEF q1
<1>16. Shows(q2, View(lt, p.start, p.end, no, no, Empty, Empty, Empty))
  BY <1>11, <1>12, <1>13, <1>15, AddsEnd
<1> HIDE DEF q2
<1>17. Shows(q3, View(lt, p.start, p.end, nr, no, Empty, Empty, Empty))
  <2>1. CASE p.neverReboot
    <3>1. Shows(Append(q2, x3), View(lt, p.start, p.end, TRUE, no, Empty, Empty, Empty))
      BY <1>12, <1>13, <1>16, AddsReboot
    <3>2. nr = TRUE
      BY <1>1, <2>1 DEF nr
    <3>3. QED BY <2>1, <3>1, <3>2
  <2>2. CASE ~p.neverReboot
    <3>1. nr = no
      BY <1>1, <2>2 DEF nr, no
    <3>2. QED BY <1>16, <2>2, <3>1
  <2>3. QED BY <2>1, <2>2
<1> HIDE DEF q3
<1>18. Shows(q4, View(lt, p.start, p.end, nr, nh, Empty, Empty, Empty))
  <2>1. CASE p.neverHttp
    <3>1. Shows(Append(q3, x4), View(lt, p.start, p.end, nr, TRUE, Empty, Empty, Empty))
      BY <1>12, <1>13, <1>17, AddsHttp
    <3>2. nh = TRUE
      BY <1>1, <2>1 DEF nh
    <3>3. QED BY <2>1, <3>1, <3>2
  <2>2. CASE ~p.neverHttp
    <3>1. nh = no
      BY <1>1, <2>2 DEF nh, no
    <3>2. QED BY <1>17, <2>2, <3>1
  <2>3. QED BY <2>1, <2>2
<1> HIDE DEF q4
<1>19. Shows(q5, View(lt, p.start, p.end, nr, nh, p.ips, Empty, Empty))
  <2>1. CASE p.ips # Empty
    <3>1. Shows(Append(q4, x5), View(lt, p.start, p.end, nr, nh, x5.cond.fixed.str, Empty, Empty))
      BY <1>11, <1>12, <1>13, <1>18, AddsAddresses
    <3>2. QED BY <1>11, <2>1, <3>1
  <2>2. CASE p.ips = Empty
    BY <1>18, <2>2
  <2>3. QED BY <2>1, <2>2
<1> HIDE DEF q5
<1>20. Shows(q6, View(lt, p.start, p.end, nr, nh, p.ips, IF both THEN p.env ELSE Empty, IF both THEN p.model ELSE Empty))
  <2>1. CASE both
    <3>1. Shows(Append(q5, x6), View(lt, p.start, p.end, nr, nh, p.ips, x6.cond.fixed.str, Empty))
      BY <1>12, <1>13, <1>19, AddsEnv
    <3>2. Shows(Append(Append(q5, x6), x7), View(lt, p.start, p.end, nr, nh, p.ips, x6.cond.fixed.str, x7.cond.fixed.str))
      BY <1>12, <1>13, <3>1, AddsModel
    <3>3. QED BY <1>11, <2>1, <3>2
  <2>2. CASE ~both
    BY <1>19, <2>2
  <2>3. QED BY <2>1, <2>2
<1>21. createTimeFilter(p).parts = q6
  BY <1>10, CompoundFields
<1> HIDE DEF q6
<1>22. QED BY <1>20, <1>21 DEF Shows, lt, nr, nh

-----------------------------------------------------------------------------
(* Flattening a rule of at most two levels below it.                       *)
Levels(r, L1, L2) ==
    /\ L1 \in Seq(AllRules) /\ L2 \in Seq(AllRules)
    /\ Below(<<r>>) = L1 /\ Below(L1) = L2 /\ Below(L2) = <<>>
LeavesAre(r, L1, L2, K0, K1, K2) ==
    /\ K0 \in Seq(AllRules) /\ K1 \in Seq(AllRules) /\ K2 \in Seq(AllRules)
    /\ LeavesOf(<<r>>) = K0 /\ LeavesOf(L1) = K1 /\ LeavesOf(L2) = K2

LEMMA NothingBelow == Below(<<>>) = <<>> /\ LeavesOf(<<>>) = <<>>
<1>0. DOMAIN <<>> = 1..0 /\ 0 \in Nat
  OBVIOUS
<1>1. Below(<<>>) = <<>>
  <2> DEFINE s == [i \in DOMAIN <<>> |-> <<>>[i].parts]
  <2>1. RuleLists(s, 0)
    BY <1>0 DEF RuleLists
  <2> HIDE DEF s
  <2>2. s \in Seq(Seq(AllRules)) /\ Len(s) = 0
    BY <2>1, ListsOfRules
  <2>3. \A i \in 1..Len(s) : s[i] = <<>>
    BY <2>2
  <2>4. QED BY <2>2, <2>3, ConcatNothing DEF Below, s
<1>2. LeavesOf(<<>>) = <<>>
  <2> DEFINE s == [i \in DOMAIN <<>> |-> IF <<>>[i].compound THEN <<>> ELSE << <<>>[i] >>]
  <2>1. RuleLists(s, 0)
    BY <1>0 DEF RuleLists
  <2> HIDE DEF s
  <2>2. s \in Seq(Seq(AllRules)) /\ Len(s) = 0
    BY <2>1, ListsOfRules
  <2>3. \A i \in 1..Len(s) : s[i] = <<>>
    BY <2>2
  <2>4. QED BY <2>2, <2>3, ConcatNothing DEF LeavesOf, s
<1>3. QED BY <1>1, <1>2

LEMMA FlattenLevels ==
    ASSUME NEW r, NEW L1, NEW L2, Levels(r, L1, L2), NEW K0, NEW K1, NEW K2, LeavesAre(r, L1, L2, K0, K1, K2)
    PROVE  FlattenRule(r) = (K0 \o K1) \o K2
<1> DEFINE Level(d) == IF d = 0 THEN <<r>> ELSE IF d = 1 THEN L1 ELSE IF d = 2 THEN L2 ELSE <<>>
           Part(d) == IF d = 1 THEN K0 ELSE IF d = 2 THEN K1 ELSE IF d = 3 THEN K2 ELSE <<>>
           lv == [d \in 0..MaxDepth |-> Level(d)]
           Is(f) == f = [d \in 0..MaxDepth |-> IF d = 0 THEN <<r>> ELSE Below(f[d - 1])]
<1>0. MaxDepth \in Nat /\ MaxDepth >= 2
  BY ValuesOK
<1>1. /\ Below(<<r>>) = L1 /\ Below(L1) = L2 /\ Below(L2) = <<>> /\ Below(<<>>) = <<>>
      /\ LeavesOf(<<r>>) = K0 /\ LeavesOf(L1) = K1 /\ LeavesOf(L2) = K2 /\ LeavesOf(<<>>) = <<>>
      /\ K0 \in Seq(AllRules) /\ K1 \in Seq(AllRules) /\ K2 \in Seq(AllRules) /\ <<>> \in Seq(AllRules)
  BY NothingBelow DEF Levels, LeavesAre
<1>2. ASSUME NEW d \in 0..MaxDepth PROVE Level(d) = IF d = 0 THEN <<r>> ELSE Below(Level(d - 1))
  <2>1. d = 0 \/ d = 1 \/ d = 2 \/ d = 3 \/ d > 3
    BY <1>0
  <2>2. d \in Int
    BY <1>0
  <2>3. QED BY <1>1, <2>1, <2>2
<1>3. Is(lv)
  <2>1. ASSUME NEW d \in 0..MaxDepth PROVE Level(d) = IF d = 0 THEN <<r>> ELSE Below(lv[d - 1])
    <3>1. CASE d = 0
      BY <1>2, <3>1
    <3>2. CASE d # 0
      <4>1. d - 1 \in 0..MaxDepth
        BY <1>0, <3>2
      <4>2. lv[d - 1] = Level(d - 1)
        BY <4>1
      <4> HIDE DEF lv, Level
      <4>3. QED BY <1>2, <3>2, <4>2
    <3>3. QED BY <3>1, <3>2
  <2> HIDE DEF Level
  <2>2. QED BY <2>1
<1>4. PICK f : Is(f) /\ FlattenRule(r) = Concat([d \in 1..(MaxDepth + 1) |-> LeavesOf(f[d - 1])])
  <2> HIDE DEF lv
  <2>1. QED BY <1>3, ZenonT(60) DEF FlattenRule
<1>5. ASSUME NEW d \in 0..MaxDepth PROVE f[d] = Level(d)
  <2>1. SameSteps(MaxDepth, f, lv)
    <3>1. f[0] = <<r>> /\ lv[0] = <<r>>
      BY <1>0, <1>4
    <3>2. ASSUME NEW i \in 1..MaxDepth, f[i - 1] = lv[i - 1] PROVE f[i] = lv[i]
      <4>1. i \in 0..MaxDepth /\ i # 0
        BY <1>0
      <4> HIDE DEF lv
      <4>2. f[i] = Below(f[i - 1]) /\ lv[i] = Below(lv[i - 1])
        BY <1>3, <1>4, <4>1
      <4>3. QED BY <3>2, <4>2
    <3> HIDE DEF lv
    <3>3. QED BY <3>1, <3>2 DEF SameSteps
  <2>2. lv[d] = Level(d)
    OBVIOUS
  <2> HIDE DEF lv
  <2>3. QED BY <1>0, <2>1, <2>2, LoopUnique
<1> DEFINE s == [d \in 1..(MaxDepth + 1) |-> LeavesOf(f[d - 1])]
<1>6. ASSUME NEW d \in 1..(MaxDepth + 1) PROVE s[d] = Part(d)
  <2>1. d - 1 \in 0..MaxDepth
    BY <1>0
  <2>2. s[d] = LeavesOf(Level(d - 1))
    BY <1>5, <2>1
  <2>3. ((d - 1 = 0) <=> (d = 1)) /\ ((d - 1 = 1) <=> (d = 2)) /\ ((d - 1 = 2) <=> (d = 3))
    BY <1>0
  <2> HIDE DEF s
  <2>4. QED BY <1>1, <2>2, <2>3
<1>7. RuleLists(s, MaxDepth + 1)
  <2>1. \A d \in 1..(MaxDepth + 1) : s[d] \in Seq(AllRules)
    <3> HIDE DEF s
    <3>2. QED BY <1>1, <1>6
  <2>2. QED BY <1>0, <2>1 DEF RuleLists
<1>8. FlattenRule(r) = Concat(s)
  BY <1>4
<1> HIDE DEF s, Is, Level, lv
<1>10. s \in Seq(Seq(AllRules)) /\ Len(s) = MaxDepth + 1
  BY <1>7, ListsOfRules
<1> DEFINE A == K0 \o K1
           B == A \o K2
           h == [i \in 0..Len(s) |-> IF i = 0 THEN <<>> ELSE IF i = 1 THEN K0 ELSE IF i = 2 THEN A ELSE B]
<1>11. A \in Seq(AllRules) /\ B \in Seq(AllRules) /\ <<>> \o K0 = K0 /\ B \o <<>> = B
  <2>1. A \in Seq(AllRules)
    BY <1>1, ConcatProperties
  <2> HIDE DEF A
  <2>2. B \in Seq(AllRules)
    BY <1>1, <2>1, ConcatProperties
  <2> HIDE DEF B
  <2>3. QED BY <1>1, <2>1, <2>2
<1>12. ASSUME NEW i \in 1..Len(s) PROVE h[i] = h[i - 1] \o s[i]
  <2>1. i \in 0..Len(s) /\ i - 1 \in 0..Len(s) /\ s[i] = Part(i)
    BY <1>0, <1>6, <1>10
  <2>2. i = 1 \/ i = 2 \/ i = 3 \/ i > 3
    BY <1>0, <1>10
  <2> HIDE DEF A, B
  <2>3. CASE i = 1
    <3>1. h[i] = K0 /\ h[i - 1] = <<>> /\ s[i] = K0
      BY <2>1, <2>3
    <3> HIDE DEF h
    <3>2. QED BY <1>11, <3>1
  <2>4. CASE i = 2
    <3>1. h[i] = A /\ h[i - 1] = K0 /\ s[i] = K1
      BY <2>1, <2>4
    <3> HIDE DEF h
    <3>2. QED BY <3>1 DEF A
  <2>5. CASE i = 3
    <3>1. h[i] = B /\ h[i - 1] = A /\ s[i] = K2
      BY <2>1, <2>5
    <3> HIDE DEF h
    <3>2. QED BY <3>1 DEF B
  <2>6. CASE i > 3
    <3>1. i # 0 /\ i # 1 /\ i # 2 /\ i # 3 /\ i - 1 # 0 /\ i - 1 # 1 /\ i - 1 # 2
      BY <2>6
    <3>2. h[i] = B /\ h[i - 1] = B /\ s[i] = <<>>
      BY <2>1, <3>1
    <3> HIDE DEF h
    <3>3. QED BY <1>11, <3>2
  <2>7. QED BY <2>2, <2>3, <2>4, <2>5, <2>6
<1>13. h[0] = <<>> /\ h[Len(s)] = B
  <2>1. Len(s) \in 0..Len(s) /\ 0 \in 0..Len(s) /\ Len(s) # 0 /\ Len(s) # 1 /\ Len(s) # 2
    BY <1>0, <1>10
  <2> HIDE DEF A, B
  <2>2. QED BY <2>1
<1> HIDE DEF h, A, B
<1>14. Concat(s) = B
  BY <1>10, <1>12, <1>13, ConcatIs
<1>15. QED BY <1>8, <1>14 DEF A, B

(* A condition is flattened to itself.                                     *)
LEMMA FlattenLeaf ==
    ASSUME NEW r \in AllRules, ~r.compound PROVE FlattenRule(r) = <<r>>
<1> DEFINE p == r.parts
<1>0. DOMAIN <<r>> = 1..1 /\ <<r>>[1] = r /\ <<r>> \in Seq(AllRules) /\ <<>> \in Seq(AllRules) /\ 1 \in Nat
  OBVIOUS
<1>00. p = <<>>
  BY RuleParts
<1>000. r.parts = p /\ p \in Seq(AllRules)
  BY <1>00
<1> HIDE DEF p
<1>1. Below(<<r>>) = <<>>
  <2> DEFINE s == [i \in DOMAIN <<r>> |-> <<r>>[i].parts]
  <2>1. RuleLists(s, 1) /\ s[1] = p
    BY <1>0, <1>000 DEF RuleLists
  <2> HIDE DEF s
  <2>2. s \in Seq(Seq(AllRules)) /\ Len(s) = 1
    BY <2>1, ListsOfRules
  <2>3. \A i \in 1..Len(s) : s[i] = <<>>
    BY <1>00, <2>1, <2>2
  <2>4. QED BY <2>2, <2>3, ConcatNothing DEF Below, s
<1>2. LeavesOf(<<r>>) = <<r>>
  <2> DEFINE s == [i \in DOMAIN <<r>> |-> IF <<r>>[i].compound THEN <<>> ELSE << <<r>>[i] >>]
  <2>1. RuleLists(s, 1) /\ s[1] = <<r>>
    BY <1>0 DEF RuleLists
  <2> HIDE DEF s
  <2>2. s \in Seq(Seq(AllRules)) /\ Len(s) = 1
    BY <2>1, ListsOfRules
  <2>3. 1 \in 1..Len(s) /\ \A i \in 1..Len(s) : i # 1 => s[i] = <<>>
    BY <2>2
  <2>4. Concat(s) = <<r>>
    BY <2>1, <2>2, <2>3, ConcatOnly
  <2>5. QED BY <2>4 DEF LeavesOf, s
<1> DEFINE L == <<>>
           K == <<r>>
<1>3. Levels(r, L, L) /\ LeavesAre(r, L, L, K, L, L)
  BY <1>0, <1>1, <1>2, NothingBelow DEF Levels, LeavesAre
<1>4. FlattenRule(r) = (K \o L) \o L
  <2> HIDE DEF K, L
  <2>1. QED BY <1>3, FlattenLevels
<1>5. (K \o L) \o L = K
  OBVIOUS
<1>6. QED BY <1>4, <1>5

(* Some conditions, and behind them a list of conditions.                  *)
LEMMA FlattenNested ==
    ASSUME NEW ps \in Seq(AllRules), \A i \in DOMAIN ps : ~ps[i].compound,
           NEW o, Shallow(o), NEW r, r.compound, r \in AllRules, r.parts = Append(ps, o)
    PROVE  FlattenRule(r) = ps \o o.parts
<1> DEFINE n == Len(ps)
           q == o.parts
           m == Len(q)
           L1 == Append(ps, o)
<1>0. n \in Nat /\ DOMAIN ps = 1..n /\ o \in AllRules /\ o.compound /\ q \in Seq(AllRules) /\ m \in Nat
      /\ \A i \in 1..n : ps[i] \in AllRules /\ ~ps[i].compound /\ ps[i].parts = <<>>
  <2>1. n \in Nat /\ DOMAIN ps = 1..n /\ \A i \in 1..n : ps[i] \in AllRules /\ ~ps[i].compound
    BY SeqFacts
  <2>2. \A i \in 1..n : ps[i].parts = <<>>
    BY <2>1, RuleParts
  <2>3. o \in AllRules /\ o.compound /\ q \in Seq(AllRules)
    BY RuleParts DEF Shallow
  <2>4. QED BY <2>1, <2>2, <2>3, SeqFacts
<1>1. L1 \in Seq(AllRules) /\ Len(L1) = n + 1 /\ DOMAIN L1 = 1..(n + 1) /\ L1[n + 1] = o /\ \A i \in 1..n : L1[i] = ps[i]
  <2>1. L1 \in Seq(AllRules) /\ Len(L1) = n + 1 /\ L1[n + 1] = o /\ \A i \in 1..n : L1[i] = ps[i]
    BY <1>0, AppendFacts
  <2>2. QED BY <2>1, SeqFacts
<1>2. \A i \in 1..(n + 1) : i = n + 1 \/ i \in 1..n
  BY <1>0
<1>20. n + 1 \in 1..(n + 1) /\ n + 1 \in Nat /\ \A i \in 1..n : i \in 1..(n + 1) /\ i # n + 1
  BY <1>0
<1>3. Below(<<r>>) = L1
  <2> DEFINE s == [i \in DOMAIN <<r>> |-> <<r>>[i].parts]
  <2>0. DOMAIN <<r>> = 1..1 /\ <<r>>[1] = r /\ 1 \in Nat /\ r.parts = L1 /\ L1 \in Seq(AllRules)
    BY <1>1
  <2> HIDE DEF L1
  <2>1. RuleLists(s, 1) /\ s[1] = L1
    BY <2>0 DEF RuleLists
  <2> HIDE DEF s, L1
  <2>2. s \in Seq(Seq(AllRules)) /\ Len(s) = 1
    BY <2>1, ListsOfRules
  <2>3. 1 \in 1..Len(s) /\ \A i \in 1..Len(s) : i # 1 => s[i] = <<>>
    BY <2>2
  <2>4. Concat(s) = L1
    BY <2>1, <2>2, <2>3, ConcatOnly
  <2>5. QED BY <2>4 DEF Below, s
<1>4. LeavesOf(<<r>>) = <<>>
  <2> DEFINE s == [i \in DOMAIN <<r>> |-> IF <<r>>[i].compound THEN <<>> ELSE << <<r>>[i] >>]
  <2>1. RuleLists(s, 1) /\ s[1] = <<>>
    BY DEF RuleLists
  <2> HIDE DEF s
  <2>2. s \in Seq(Seq(AllRules)) /\ Len(s) = 1
    BY <2>1, ListsOfRules
  <2>3. \A i \in 1..Len(s) : s[i] = <<>>
    BY <2>1, <2>2
  <2>4. QED BY <2>2, <2>3, ConcatNothing DEF LeavesOf, s
<1> HIDE DEF n, q, L1
<1>5. Below(L1) = q
  <2> DEFINE s == [i \in DOMAIN L1 |-> L1[i].parts]
  <2>0. <<>> \in Seq(AllRules)
    OBVIOUS
  <2>1. RuleLists(s, n + 1) /\ s[n + 1] = q /\ \A i \in 1..n : s[i] = <<>>
    BY <1>0, <1>1, <1>2, <1>20, <2>0 DEF RuleLists, q
  <2> HIDE DEF s
  <2>2. s \in Seq(Seq(AllRules)) /\ Len(s) = n + 1
    BY <2>1, ListsOfRules
  <2>3. n + 1 \in 1..Len(s) /\ \A i \in 1..Len(s) : i # n + 1 => s[i] = <<>>
    BY <1>2, <1>20, <2>1, <2>2
  <2>4. Concat(s) = q
    BY <2>1, <2>2, <2>3, ConcatOnly
  <2>5. QED BY <2>4 DEF Below, s
<1>6. LeavesOf(L1) = ps
  <2> DEFINE s == [i \in DOMAIN L1 |-> IF L1[i].compound THEN <<>> ELSE <<L1[i]>>]
             t == [i \in 1..n |-> <<ps[i]>>]
  <2>0. <<>> \in Seq(AllRules) /\ \A i \in 1..n : <<ps[i]>> \in Seq(AllRules)
    BY <1>0
  <2>1. RuleLists(s, n + 1) /\ s[n + 1] = <<>> /\ \A i \in 1..n : s[i] = <<ps[i]>>
    BY <1>0, <1>1, <1>2, <1>20, <2>0 DEF RuleLists
  <2> HIDE DEF s
  <2>2. s \in Seq(Seq(AllRules)) /\ Len(s) = n + 1
    BY <2>1, ListsOfRules
  <2> DEFINE h == [i \in 0..Len(s) |-> IF i = n + 1 THEN ps ELSE SubSeq(ps, 1, i)]
  <2>3. ASSUME NEW i \in 1..Len(s) PROVE h[i] = h[i - 1] \o s[i]
    <3>1. i \in 0..Len(s) /\ i - 1 \in 0..Len(s) /\ i - 1 # n + 1
      BY <1>0, <2>2
    <3>2. h[i - 1] = SubSeq(ps, 1, i - 1)
      BY <3>1
    <3>3. CASE i = n + 1
      <4>1. h[i] = ps /\ s[i] = <<>> /\ i - 1 = n
        BY <1>0, <2>1, <3>1, <3>3
      <4>2. SubSeq(ps, 1, n) = ps /\ ps \o <<>> = ps
        BY <1>0 DEF n
      <4> HIDE DEF h
      <4>3. QED BY <3>2, <4>1, <4>2
    <3>4. CASE i \in 1..n
      <4>1. h[i] = SubSeq(ps, 1, i) /\ s[i] = <<ps[i]>>
        BY <1>0, <1>20, <2>1, <3>1, <3>4
      <4> HIDE DEF h
      <4>2. 1 \in 1..Len(ps) /\ i \in 1..Len(ps)
        BY <1>0, <3>4 DEF n
      <4>3. SubSeq(ps, 1, i) = SubSeq(ps, 1, i - 1) \o <<ps[i]>>
        BY <4>2, SubSeqRecursiveSecond
      <4>4. QED BY <3>2, <4>1, <4>3
    <3>5. QED BY <1>2, <2>2, <3>3, <3>4
  <2>4. h[0] = <<>> /\ h[Len(s)] = ps
    BY <1>0, <2>2
  <2> HIDE DEF h
  <2>5. Concat(s) = ps
    BY <2>2, <2>3, <2>4, ConcatIs
  <2>6. QED BY <2>5 DEF LeavesOf, s
<1>7. Below(q) = <<>> /\ LeavesOf(q) = q
  BY BelowFlat DEF q
<1> DEFINE K == <<>>
<1>8. Levels(r, L1, q) /\ LeavesAre(r, L1, q, K, ps, q)
  BY <1>0, <1>1, <1>3, <1>4, <1>5, <1>6, <1>7 DEF Levels, LeavesAre
<1>9. FlattenRule(r) = (K \o ps) \o q
  <2> HIDE DEF K
  <2>1. QED BY <1>8, FlattenLevels
<1>10. K \o ps = ps
  OBVIOUS
<1>11. QED BY <1>9, <1>10 DEF q

-----------------------------------------------------------------------------
(* Lists of one, two and three parts.                                      *)
LEMMA ThreeOfThem == ASSUME NEW x, NEW y, NEW z PROVE Append(<<x, y>>, z) = <<x, y, z>>
<1> DEFINE S == {x, y, z}
           s == Append(<<x, y>>, z)
           t == <<x, y, z>>
<1>1. <<x, y>> \in Seq(S) /\ Len(<<x, y>>) = 2 /\ <<x, y>>[1] = x /\ <<x, y>>[2] = y /\ z \in S
  OBVIOUS
<1>2. t \in Seq(S) /\ Len(t) = 3 /\ t[1] = x /\ t[2] = y /\ t[3] = z
  OBVIOUS
<1> HIDE DEF S
<1>3. s \in Seq(S) /\ Len(s) = 2 + 1 /\ s[2 + 1] = z /\ \A i \in 1..2 : s[i] = <<x, y>>[i]
  BY <1>1, AppendFacts
<1> HIDE DEF s, t
<1>4. Len(s) = 3 /\ s[1] = x /\ s[2] = y /\ s[3] = z
  BY <1>1, <1>3
<1>5. \A i \in 1..3 : s[i] = t[i]
  BY <1>2, <1>4
<1>6. s = t
  BY <1>2, <1>3, <1>4, <1>5, SeqEqual
<1>7. QED BY <1>6 DEF s, t

LEMMA CondsOfFew ==
    ASSUME NEW x, NEW y, NEW z
    PROVE  /\ CondsOf(<<x>>) = <<x.cond>> /\ CondsOf(<<x, y>>) = <<x.cond, y.cond>>
           /\ CondsOf(<<x, y, z>>) = <<x.cond, y.cond, z.cond>>
<1>1. CondsOf(<<x>>) = <<x.cond>>
  BY DEF CondsOf
<1>2. CondsOf(<<x, y>>) = <<x.cond, y.cond>>
  BY DEF CondsOf
<1>3. CondsOf(<<x, y, z>>) = <<x.cond, y.cond, z.cond>>
  BY DEF CondsOf
<1>4. QED BY <1>1, <1>2, <1>3

LEMMA ConditionsAre == ASSUME NEW r PROVE ToConditions(r) = CondsOf(FlattenRule(r))
BY DEF ToConditions, CondsOf

(* Conditions joined to the first of them.                                 *)
JoinedLeaf(x) == x \in AllRules /\ ~x.compound /\ x.relation # ""

LEMMA FlattenPair ==
    ASSUME NEW x \in AllRules, ~x.compound, NEW y, JoinedLeaf(y)
    PROVE  FlattenRule(Compound(<<x, y>>)) = <<x, y>> /\ Shallow(Compound(<<x, y>>))
<1> DEFINE ps == <<x, y>>
<1>0. y \in AllRules /\ ~y.compound /\ y.relation # ""
  BY DEF JoinedLeaf
<1>00. ps \in Seq(AllRules) /\ Len(ps) = 2 /\ ps[1] = x /\ ps[2] = y
  <2>1. x \in AllRules /\ y \in AllRules
    BY <1>0
  <2>2. QED BY ONLY <2>1
<1>000. DOMAIN ps = 1..2 /\ (\A i \in 1..2 : i = 1 \/ i = 2) /\ \A i \in 2..2 : i = 2
  BY <1>00, SeqFacts
<1> HIDE DEF ps
<1>1. LeafParts(ps)
  BY <1>0, <1>00, <1>000 DEF LeafParts
<1> HIDE DEF ps
<1>2. Shallow(Compound(ps)) /\ Compound(ps).parts = ps
  BY <1>1, MakeShallow
<1>3. FlattenRule(Compound(ps)) = ps
  BY <1>2, FlattenShallow
<1>4. QED BY <1>2, <1>3 DEF ps

LEMMA FlattenTriple ==
    ASSUME NEW x \in AllRules, ~x.compound, NEW y, JoinedLeaf(y), NEW z, JoinedLeaf(z)
    PROVE  FlattenRule(Compound(<<x, y, z>>)) = <<x, y, z>> /\ Shallow(Compound(<<x, y, z>>))
<1> DEFINE ps == <<x, y, z>>
<1>0. y \in AllRules /\ ~y.compound /\ y.relation # "" /\ z \in AllRules /\ ~z.compound /\ z.relation # ""
  BY DEF JoinedLeaf
<1>00. ps \in Seq(AllRules) /\ Len(ps) = 3 /\ ps[1] = x /\ ps[2] = y /\ ps[3] = z
  <2>1. x \in AllRules /\ y \in AllRules /\ z \in AllRules
    BY <1>0
  <2>2. QED BY ONLY <2>1
<1>000. DOMAIN ps = 1..3 /\ (\A i \in 1..3 : i = 1 \/ i = 2 \/ i = 3) /\ \A i \in 2..3 : i = 2 \/ i = 3
  BY <1>00, SeqFacts
<1> HIDE DEF ps
<1>1. LeafParts(ps)
  BY <1>0, <1>00, <1>000 DEF LeafParts
<1> HIDE DEF ps
<1>2. Shallow(Compound(ps)) /\ Compound(ps).parts = ps
  BY <1>1, MakeShallow
<1>3. FlattenRule(Compound(ps)) = ps
  BY <1>2, FlattenShallow
<1>4. QED BY <1>2, <1>3 DEF ps

LEMMA CarriedFacts ==
    ASSUME NEW x, NEW t, NEW n, NEW o, NEW a, Carries(x, t, n, o, a)
    PROVE  x \in AllRules /\ ~x.compound /\ x.cond.name = n /\ x.cond.op = o /\ x.cond.type = t /\ x.cond.fixed = a
BY DEF Carries, OnTime

LEMMA CarriedBy ==
    ASSUME NEW x, NEW t, NEW n, NEW o, NEW a, Carries(x, t, n, o, a), NEW rel \in {"AND", "OR"}
    PROVE  Carries(RelatedBy(x, rel), t, n, o, a) /\ JoinedLeaf(RelatedBy(x, rel))
<1>1. Carries(RelatedBy(x, rel), t, n, o, a)
  BY RelatedCarries
<1>2. ~RelatedBy(x, rel).compound /\ RelatedBy(x, rel) \in AllRules
  BY <1>1, CarriedFacts
<1>3. RelatedBy(x, rel).relation = rel
  <2>1. x \in AllRules /\ rel \in {"", "AND", "OR"}
    BY CarriedFacts
  <2>2. QED BY <2>1, RelatedFields
<1>4. QED BY <1>1, <1>2, <1>3 DEF JoinedLeaf

LEMMA TextCarries ==
    ASSUME NEW n \in STRING, NEW s \in STRING
    PROVE  /\ Carries(IsText(n, s), "STRING", n, "IS", Str(s))
           /\ Carries(InList(n, s), "STRING", n, "IN_LIST", Str(s))
<1>1. "STRING" \in STRING /\ "IS" \in STRING /\ "IN_LIST" \in STRING /\ Str(s) \in FixedArgs
  BY WordsOK, ArgTypes
<1>2. QED BY <1>1, LeafCarries DEF IsText, InList

(* Rules as they are listed.                                               *)
LEMMA SavedSlot ==
    ASSUME BeanInv, NEW id \in Saved
    PROVE  id \in Stored /\ SavedAs(store[id], posted[id]) /\ id \in OfType(store[id].app, store[id].type)
<1>1. id \in Stored /\ id \in BeanIds
  BY StoredRules
<1>2. QED BY <1>1, StoredRules DEF OfType

LEMMA ListGroup == ASSUME NEW c, c.op = "IN_LIST" PROVE GetIpAddressGroup(c).name = c.fixed.str
BY DEF GetIpAddressGroup, Group

LEMMA TimeFilterOK == BeanInv => TimeFilterReadsBack
<1> SUFFICES ASSUME BeanInv, NEW id \in Saved, Kind(id) = "time"
             PROVE  LET p == Form(id)
                        both == p.env # Empty /\ p.model # Empty
                    IN  [p EXCEPT !.env = IF both THEN @ ELSE Empty, !.model = IF both THEN @ ELSE Empty]
                            \in TimeFiltersByApplicationType(store[id].app)
  BY DEF TimeFilterReadsBack
<1>1. SavedAs(store[id], posted[id]) /\ id \in OfType(store[id].app, store[id].type)
  BY SavedSlot
<1>2. IsTimeFilter(store[id], posted[id])
  BY <1>1, KindsOf DEF Kind
<1>3. PICK p \in TimeForms, app \in Apps : posted[id] = <<"time", p>> /\ store[id] = TimeRuleOf(p, app)
  BY <1>2 DEF IsTimeFilter
<1>4. Form(id) = p /\ store[id].rule = createTimeFilter(p) /\ store[id].type = "TIME_FILTER"
  BY <1>3, TimeRuleFields DEF Form
<1>5. p \in Filters
  BY BeanFormsOK
<1> DEFINE both == p.env # Empty /\ p.model # Empty
           e == IF both THEN p.env ELSE Empty
           m == IF both THEN p.model ELSE Empty
<1>6. convertConditions(store[id].rule.parts) = View(p.localTime, p.start, p.end, p.neverReboot, p.neverHttp, p.ips, e, m)
  BY <1>4, <1>5, TimeFilterShown
<1>7. [p EXCEPT !.env = e, !.model = m] = View(p.localTime, p.start, p.end, p.neverReboot, p.neverHttp, p.ips, e, m)
  <2> HIDE DEF e, m
  <2>1. p \in [start : Times, end : Times, localTime : BOOLEAN, neverReboot : BOOLEAN, neverHttp : BOOLEAN,
               ips : DOMAIN Lists \cup {Empty}, env : Values \cup {Empty}, model : Values \cup {Empty}]
    BY <1>5, FiltersOK
  <2>2. PICK a1, a2, a3, a4, a5, a6, a7, a8 :
           p = [start |-> a1, end |-> a2, localTime |-> a3, neverReboot |-> a4, neverHttp |-> a5, ips |-> a6, env |-> a7, model |-> a8]
    BY <2>1
  <2> DEFINE q == [p EXCEPT !.env = e]
             r == [q EXCEPT !.model = m]
  <2>21. r = [p EXCEPT !.env = e, !.model = m]
    OBVIOUS
  <2>22. q = [start |-> a1, end |-> a2, localTime |-> a3, neverReboot |-> a4, neverHttp |-> a5, ips |-> a6, env |-> e, model |-> a8]
    BY ONLY <2>2
  <2> HIDE DEF q
  <2>23. r = [start |-> a1, end |-> a2, localTime |-> a3, neverReboot |-> a4, neverHttp |-> a5, ips |-> a6, env |-> e, model |-> m]
    BY ONLY <2>22
  <2> HIDE DEF r
  <2>3. [p EXCEPT !.env = e, !.model = m] =
          [start |-> a1, end |-> a2, localTime |-> a3, neverReboot |-> a4, neverHttp |-> a5, ips |-> a6, env |-> e, model |-> m]
    BY <2>21, <2>23
  <2>4. p.start = a1 /\ p.end = a2 /\ p.localTime = a3 /\ p.neverReboot = a4 /\ p.neverHttp = a5 /\ p.ips = a6
    BY <2>2
  <2>5. View(a3, a1, a2, a4, a5, a6, e, m) =
          [start |-> a1, end |-> a2, localTime |-> a3, neverReboot |-> a4, neverHttp |-> a5, ips |-> a6, env |-> e, model |-> m]
    BY DEF View
  <2>6. QED BY <2>3, <2>4, <2>5, Zenon
<1>8. convertConditions(store[id].rule.parts) \in TimeFiltersByApplicationType(store[id].app)
  BY <1>1, <1>4 DEF TimeFiltersByApplicationType
<1>9. QED BY <1>4, <1>6, <1>7, <1>8

LEMMA IpRuleParts ==
    ASSUME NEW g \in STRING, NEW e \in STRING, NEW m \in STRING
    PROVE  LET x == InList("ipAddress", g)
               y == RelatedBy(IsText("env", e), "AND")
               z == RelatedBy(IsText("model", m), "AND")
           IN  /\ NewIpRule(g, e, m) = Compound(<<x, y, z>>)
               /\ Carries(x, "STRING", "ipAddress", "IN_LIST", Str(g))
               /\ Carries(y, "STRING", "env", "IS", Str(e)) /\ JoinedLeaf(y)
               /\ Carries(z, "STRING", "model", "IS", Str(m)) /\ JoinedLeaf(z)
               /\ y.relation = "AND" /\ z.relation = "AND"
<1> DEFINE x == InList("ipAddress", g)
           y0 == IsText("env", e)
           z0 == IsText("model", m)
           y == RelatedBy(y0, "AND")
           z == RelatedBy(z0, "AND")
<1>0. "ipAddress" \in STRING /\ "env" \in STRING /\ "model" \in STRING
  BY WordsOK
<1>1. /\ Carries(x, "STRING", "ipAddress", "IN_LIST", Str(g)) /\ Carries(y0, "STRING", "env", "IS", Str(e))
      /\ Carries(z0, "STRING", "model", "IS", Str(m))
  BY <1>0, TextCarries
<1>2. ~x.compound
  BY <1>1, CarriedFacts
<1>20. y0 \in AllRules /\ z0 \in AllRules
  BY <1>1, CarriedFacts
<1>3. NewIpRule(g, e, m) = AndRules(AndRules(x, y0), z0)
  BY DEF NewIpRule
<1> HIDE DEF x, y0, z0
<1>30. y.relation = "AND" /\ z.relation = "AND"
  BY <1>20, RelatedFields
<1>4. Carries(y, "STRING", "env", "IS", Str(e)) /\ JoinedLeaf(y)
  BY <1>1, CarriedBy
<1>5. Carries(z, "STRING", "model", "IS", Str(m)) /\ JoinedLeaf(z)
  BY <1>1, CarriedBy
<1>6. AndRules(x, y0) = Compound(<<x, y>>)
  BY <1>2, AddToLeaf DEF AndRules
<1>7. AndRules(Compound(<<x, y>>), z0) = Compound(Append(<<x, y>>, z))
  BY AddToCompound DEF AndRules
<1>8. NewIpRule(g, e, m) = Compound(<<x, y, z>>)
  BY <1>3, <1>6, <1>7, ThreeOfThem
<1> HIDE DEF y, z
<1>9. /\ NewIpRule(g, e, m) = Compound(<<x, y, z>>) /\ Carries(x, "STRING", "ipAddress", "IN_LIST", Str(g))
      /\ Carries(y, "STRING", "env", "IS", Str(e)) /\ JoinedLeaf(y)
      /\ Carries(z, "STRING", "model", "IS", Str(m)) /\ JoinedLeaf(z) /\ y.relation = "AND" /\ z.relation = "AND"
  BY <1>1, <1>30, <1>4, <1>5, <1>8
<1>10. QED BY <1>9 DEF x, y, z, y0, z0

(* The bean of an IP rule.                                                 *)
LEMMA IpRuleReads ==
    ASSUME NEW b \in IpRuleBeans, NEW app
    PROVE  ConvertFirmwareRuleToIpRuleBean(IpRuleOf(b, app)) = b
<1> DEFINE fr == IpRuleOf(b, app)
<1>1. b \in [name : STRING, group : STRING, env : Values, model : Values, config : DOMAIN FwConfigs \cup {Empty}]
      /\ Empty \notin DOMAIN FwConfigs
  BY BeanFormsOK
<1>2. b.group \in STRING /\ b.env \in STRING /\ b.model \in STRING
  BY <1>1, ValuesOK
<1>3. fr.name = b.name /\ fr.rule = NewIpRule(b.group, b.env, b.model) /\ fr.action.config = b.config
  BY IpRuleFields
<1> DEFINE x == InList("ipAddress", b.group)
           y == RelatedBy(IsText("env", b.env), "AND")
           z == RelatedBy(IsText("model", b.model), "AND")
<1>4. /\ NewIpRule(b.group, b.env, b.model) = Compound(<<x, y, z>>)
      /\ Carries(x, "STRING", "ipAddress", "IN_LIST", Str(b.group))
      /\ Carries(y, "STRING", "env", "IS", Str(b.env)) /\ Carries(z, "STRING", "model", "IS", Str(b.model))
  BY <1>2, IpRuleParts
<1> HIDE DEF x, y, z
<1> HIDE DEF fr
<1> DEFINE ps == <<x, y, z>>
           cs == CondsOf(ps)
<1>5. fr.rule.parts = ps
  BY <1>3, <1>4, CompoundFields
<1>6. cs = <<x.cond, y.cond, z.cond>>
  BY CondsOfFew
<1>7. /\ x.cond.name = "ipAddress" /\ x.cond.op = "IN_LIST" /\ x.cond.type = "STRING" /\ x.cond.fixed = Str(b.group)
      /\ y.cond.name = "env" /\ y.cond.op = "IS" /\ y.cond.type = "STRING" /\ y.cond.fixed = Str(b.env)
      /\ z.cond.name = "model" /\ z.cond.op = "IS" /\ z.cond.type = "STRING" /\ z.cond.fixed = Str(b.model)
  <2>1. x.cond.name = "ipAddress" /\ x.cond.op = "IN_LIST" /\ x.cond.type = "STRING" /\ x.cond.fixed = Str(b.group)
    BY <1>4, CarriedFacts
  <2>2. y.cond.name = "env" /\ y.cond.op = "IS" /\ y.cond.type = "STRING" /\ y.cond.fixed = Str(b.env)
    BY <1>4, CarriedFacts
  <2>3. z.cond.name = "model" /\ z.cond.op = "IS" /\ z.cond.type = "STRING" /\ z.cond.fixed = Str(b.model)
    BY <1>4, CarriedFacts
  <2>4. QED BY <2>1, <2>2, <2>3
<1>70. x.cond.fixed.str = b.group /\ y.cond.fixed.str = b.env /\ z.cond.fixed.str = b.model
  <2>1. Str(b.group).str = b.group /\ Str(b.env).str = b.env /\ Str(b.model).str = b.model
    BY ArgFields
  <2>2. x.cond.fixed = Str(b.group) /\ y.cond.fixed = Str(b.env) /\ z.cond.fixed = Str(b.model)
    BY <1>7
  <2>3. QED BY <2>1, <2>2, Zenon
<1>8. DOMAIN cs = {1, 2, 3} /\ cs[1] = x.cond /\ cs[2] = y.cond /\ cs[3] = z.cond
  BY <1>6
<1> HIDE DEF cs, ps
<1>9. LastGroup(cs).name = b.group
  <2> DEFINE I == {i \in DOMAIN cs : cs[i].name = "ipAddress" /\ cs[i].type \in {"STRING", "IP_ADDRESS"}}
  <2>1. I = {1}
    BY <1>7, <1>8
  <2>2. Max({1}) = 1
    BY MaxIs
  <2>3. LastGroup(cs) = GetIpAddressGroup(x.cond)
    BY <1>8, <2>1, <2>2 DEF LastGroup
  <2>4. GetIpAddressGroup(x.cond).name = x.cond.fixed.str
    BY <1>7, ListGroup
  <2>5. QED BY <1>70, <2>3, <2>4
<1>10. LastOf(cs, {i \in DOMAIN cs : On(cs[i], "env")}) = b.env
  <2>1. {i \in DOMAIN cs : On(cs[i], "env")} = {2}
    BY <1>7, <1>8 DEF On
  <2>2. Max({2}) = 2
    BY MaxIs
  <2>3. QED BY <1>70, <1>8, <2>1, <2>2 DEF LastOf
<1>11. LastOf(cs, DOMAIN cs) = b.model
  <2>1. Max({1, 2, 3}) = 3
    BY MaxIs
  <2>2. QED BY <1>70, <1>8, <2>1 DEF LastOf
<1>12. (IF fr.action.config \in DOMAIN FwConfigs THEN fr.action.config ELSE Empty) = b.config
  BY <1>1, <1>3
<1>13. ConvertFirmwareRuleToIpRuleBean(fr) = [name |-> b.name, group |-> b.group, env |-> b.env, model |-> b.model, config |-> b.config]
  <2>1. cs = [i \in DOMAIN fr.rule.parts |-> fr.rule.parts[i].cond]
    BY <1>5 DEF cs, CondsOf
  <2>2. QED BY <1>3, <1>9, <1>10, <1>11, <1>12, <2>1 DEF ConvertFirmwareRuleToIpRuleBean
<1>14. QED BY <1>1, <1>13 DEF fr

LEMMA IpFilterReads ==
    ASSUME NEW f \in IpFilterForms, NEW app
    PROVE  ConvertFirmwareRuleToIpFilter(IpFilterOf(f, app)) = f
<1> DEFINE fr == IpFilterOf(f, app)
           x == InList("ipAddress", f.group)
           cs == <<x.cond>>
<1>1. f \in [name : STRING, group : STRING] /\ "ipAddress" \in STRING
  BY BeanFormsOK, WordsOK
<1>2. fr.name = f.name /\ fr.rule = x
  BY IpFilterFields DEF NewIpFilter
<1>3. Carries(x, "STRING", "ipAddress", "IN_LIST", Str(f.group))
  BY <1>1, TextCarries
<1> HIDE DEF x, fr
<1>4. /\ x \in AllRules /\ ~x.compound /\ x.cond.name = "ipAddress" /\ x.cond.op = "IN_LIST" /\ x.cond.type = "STRING"
      /\ x.cond.fixed = Str(f.group)
  BY <1>3, CarriedFacts
<1>5. ToConditions(fr.rule) = cs
  <2>1. FlattenRule(x) = <<x>>
    BY <1>4, FlattenLeaf
  <2>2. QED BY <1>2, <2>1, ConditionsAre, CondsOfFew
<1>6. LastGroup(cs).name = f.group
  <2> DEFINE I == {i \in DOMAIN cs : cs[i].name = "ipAddress" /\ cs[i].type \in {"STRING", "IP_ADDRESS"}}
  <2>0. DOMAIN cs = {1} /\ cs[1] = x.cond
    OBVIOUS
  <2> HIDE DEF cs
  <2>1. I = {1}
    BY <1>4, <2>0
  <2>2. Max({1}) = 1
    BY MaxIs
  <2>3. LastGroup(cs) = GetIpAddressGroup(x.cond)
    BY <2>0, <2>1, <2>2 DEF LastGroup
  <2>4. GetIpAddressGroup(x.cond).name = x.cond.fixed.str
    BY <1>4, ListGroup
  <2>5. x.cond.fixed.str = f.group
    BY <1>4, ArgFields
  <2>6. QED BY <2>3, <2>4, <2>5
<1>7. ConvertFirmwareRuleToIpFilter(fr) = [name |-> f.name, group |-> f.group]
  BY <1>2, <1>5, <1>6 DEF ConvertFirmwareRuleToIpFilter
<1>8. QED BY <1>1, <1>7 DEF fr

LEMMA IpFormsOK == BeanInv => IpFormsReadBack
<1> SUFFICES ASSUME BeanInv, NEW id \in Saved
             PROVE  /\ Kind(id) = "ip" => Form(id) \in IpRulesOf(store[id].app)
                    /\ Kind(id) = "ipFilter" => Form(id) \in IpFiltersByApplicationType(store[id].app)
  BY DEF IpFormsReadBack
<1>1. SavedAs(store[id], posted[id]) /\ id \in OfType(store[id].app, store[id].type)
  BY SavedSlot
<1>2. ASSUME Kind(id) = "ip" PROVE Form(id) \in IpRulesOf(store[id].app)
  <2>1. PICK b \in IpRuleBeans, app \in Apps : posted[id] = <<"ip", b>> /\ store[id] = IpRuleOf(b, app)
    BY <1>1, <1>2, KindsOf DEF Kind, IsIpRule
  <2>2. Form(id) = b /\ store[id].type = "IP_RULE"
    BY <2>1, IpRuleFields DEF Form
  <2>3. ConvertFirmwareRuleToIpRuleBean(store[id]) = b
    BY <2>1, IpRuleReads
  <2>4. QED BY <1>1, <2>2, <2>3 DEF IpRulesOf
<1>3. ASSUME Kind(id) = "ipFilter" PROVE Form(id) \in IpFiltersByApplicationType(store[id].app)
  <2>1. PICK f \in IpFilterForms, app \in Apps : posted[id] = <<"ipFilter", f>> /\ store[id] = IpFilterOf(f, app)
    BY <1>1, <1>3, KindsOf DEF Kind, IsIpFilter
  <2>2. Form(id) = f /\ store[id].type = "IP_FILTER"
    BY <2>1, IpFilterFields DEF Form
  <2>3. ConvertFirmwareRuleToIpFilter(store[id]) = f
    BY <2>1, IpFilterReads
  <2>4. QED BY <1>1, <2>2, <2>3 DEF IpFiltersByApplicationType
<1>4. QED BY <1>2, <1>3

-----------------------------------------------------------------------------
(* Activation versions, download locations, the global percentage.         *)
OnCond(cs, name) == {i \in DOMAIN cs : On(cs[i], name)}

LEMMA LastOfFew ==
    ASSUME NEW c, NEW d, NEW name
    PROVE  /\ LastOf(<<c>>, OnCond(<<c>>, name)) = IF On(c, name) THEN c.fixed.str ELSE Empty
           /\ LastOf(<<c, d>>, OnCond(<<c, d>>, name)) =
                IF On(d, name) THEN d.fixed.str ELSE IF On(c, name) THEN c.fixed.str ELSE Empty
<1>0. Max({1}) = 1 /\ Max({2}) = 2 /\ Max({1, 2}) = 2
  BY MaxIs
<1>1. LastOf(<<c>>, OnCond(<<c>>, name)) = IF On(c, name) THEN c.fixed.str ELSE Empty
  <2> DEFINE cs == <<c>>
  <2>1. DOMAIN cs = {1} /\ cs[1] = c
    OBVIOUS
  <2> HIDE DEF cs
  <2>2. CASE On(c, name)
    <3>1. OnCond(cs, name) = {1}
      BY <2>1, <2>2 DEF OnCond
    <3>2. QED BY <1>0, <2>1, <2>2, <3>1 DEF LastOf, cs
  <2>3. CASE ~On(c, name)
    <3>1. OnCond(cs, name) = {}
      BY <2>1, <2>3 DEF OnCond
    <3>2. QED BY <2>3, <3>1 DEF LastOf, cs
  <2>4. QED BY <2>2, <2>3
<1>2. LastOf(<<c, d>>, OnCond(<<c, d>>, name)) = IF On(d, name) THEN d.fixed.str ELSE IF On(c, name) THEN c.fixed.str ELSE Empty
  <2> DEFINE cs == <<c, d>>
  <2>1. DOMAIN cs = {1, 2} /\ cs[1] = c /\ cs[2] = d
    OBVIOUS
  <2> HIDE DEF cs
  <2>2. CASE On(d, name) /\ On(c, name)
    <3>1. OnCond(cs, name) = {1, 2}
      BY <2>1, <2>2 DEF OnCond
    <3>2. QED BY <1>0, <2>1, <2>2, <3>1 DEF LastOf, cs
  <2>3. CASE On(d, name) /\ ~On(c, name)
    <3>1. OnCond(cs, name) = {2}
      BY <2>1, <2>3 DEF OnCond
    <3>2. QED BY <1>0, <2>1, <2>3, <3>1 DEF LastOf, cs
  <2>4. CASE ~On(d, name) /\ On(c, name)
    <3>1. OnCond(cs, name) = {1}
      BY <2>1, <2>4 DEF OnCond
    <3>2. QED BY <1>0, <2>1, <2>4, <3>1 DEF LastOf, cs
  <2>5. CASE ~On(d, name) /\ ~On(c, name)
    <3>1. OnCond(cs, name) = {}
      BY <2>1, <2>5 DEF OnCond
    <3>2. QED BY <2>5, <3>1 DEF LastOf, cs
  <2>6. QED BY <2>2, <2>3, <2>4, <2>5
<1>3. QED BY <1>1, <1>2

LEMMA TextOf ==
    ASSUME NEW x, NEW n, NEW o, NEW s, Carries(x, "STRING", n, o, Str(s))
    PROVE  /\ x \in AllRules /\ ~x.compound /\ x.cond.op = o /\ x.cond.fixed.str = s
           /\ On(x.cond, n) /\ \A name : name # n => ~On(x.cond, name)
<1>1. x \in AllRules /\ ~x.compound /\ x.cond.name = n /\ x.cond.op = o /\ x.cond.type = "STRING" /\ x.cond.fixed = Str(s)
  BY CarriedFacts
<1>2. Str(s).str = s
  BY ArgFields
<1>3. QED BY <1>1, <1>2 DEF On

LEMMA ValueOfFew ==
    ASSUME NEW x, ~x.compound, NEW y, NEW name
    PROVE  /\ ValueOf(x, name) = IF On(x.cond, name) THEN x.cond.fixed.str ELSE Empty
           /\ ValueOf(Compound(<<x, y>>), name) =
                IF On(y.cond, name) THEN y.cond.fixed.str ELSE IF On(x.cond, name) THEN x.cond.fixed.str ELSE Empty
<1>1. ValueOf(x, name) = IF On(x.cond, name) THEN x.cond.fixed.str ELSE Empty
  <2>1. ValueOf(x, name) = LastOf(<<x.cond>>, OnCond(<<x.cond>>, name))
    BY DEF ValueOf, OnCond
  <2>2. QED BY <2>1, LastOfFew
<1>2. ValueOf(Compound(<<x, y>>), name) =
        IF On(y.cond, name) THEN y.cond.fixed.str ELSE IF On(x.cond, name) THEN x.cond.fixed.str ELSE Empty
  <2> DEFINE r == Compound(<<x, y>>)
             cs == CondsOf(<<x, y>>)
  <2>1. r.compound /\ r.parts = <<x, y>>
    BY CompoundFields
  <2>2. cs = <<x.cond, y.cond>>
    BY CondsOfFew
  <2>3. cs = [i \in DOMAIN r.parts |-> r.parts[i].cond]
    BY <2>1 DEF CondsOf
  <2> HIDE DEF r, cs
  <2>4. ValueOf(r, name) = LastOf(cs, OnCond(cs, name))
    BY <2>1, <2>3 DEF ValueOf, OnCond
  <2>5. QED BY <2>2, <2>4, LastOfFew DEF r
<1>3. QED BY <1>1, <1>2

LEMMA ActivationOK == BeanInv => ActivationReadsBack
<1> SUFFICES ASSUME BeanInv, NEW id \in Saved, Kind(id) = "activation"
             PROVE  ConvertIntoActivationVersion(store[id]) = Form(id)
  BY DEF ActivationReadsBack
<1>1. SavedAs(store[id], posted[id])
  BY SavedSlot
<1>2. PICK a \in ActivationVersions : posted[id] = <<"activation", a>> /\ store[id] = ConvertIntoRule(a)
  BY <1>1, KindsOf DEF Kind, IsActivation
<1> DEFINE fr == ConvertIntoRule(a)
           x == IsText("model", a.model)
           y0 == IsText("partnerId", a.partner)
           y == RelatedBy(y0, "AND")
<1>3. Form(id) = a /\ fr.name = a.name /\ fr.app = a.app /\ fr.rule = newActivationRule(a.partner, a.model)
      /\ fr.action.versions = a.versions /\ fr.action.regexs = a.regexs
  BY <1>2, ActivationFields DEF Form
<1>4. a \in [name : STRING, app : STRING, model : STRING, partner : STRING, versions : SUBSET STRING, regexs : SUBSET STRING]
  BY BeanFormsOK
<1>5. "model" \in STRING /\ "partnerId" \in STRING
  BY WordsOK, BeanIdsOK
<1>6. Carries(x, "STRING", "model", "IS", Str(a.model)) /\ Carries(y0, "STRING", "partnerId", "IS", Str(a.partner))
  BY <1>4, <1>5, TextCarries
<1>7. newActivationRule(a.partner, a.model) = IF a.partner # Empty THEN AndRules(x, y0) ELSE x
  BY DEF newActivationRule, AndIf
<1> HIDE DEF x, y0, fr
<1>8. Carries(y, "STRING", "partnerId", "IS", Str(a.partner))
  BY <1>6, CarriedBy
<1>9. ~x.compound /\ On(x.cond, "model") /\ ~On(x.cond, "partnerId") /\ x.cond.fixed.str = a.model
  BY <1>6, TextOf
<1>10. AndRules(x, y0) = Compound(<<x, y>>)
  BY <1>9, AddToLeaf DEF AndRules
<1> HIDE DEF y
<1>11. On(y.cond, "partnerId") /\ ~On(y.cond, "model") /\ y.cond.fixed.str = a.partner
  BY <1>8, TextOf
<1>12. ValueOf(fr.rule, "model") = a.model /\ ValueOf(fr.rule, "partnerId") = a.partner
  <2>1. CASE a.partner # Empty
    BY <1>3, <1>7, <1>9, <1>10, <1>11, <2>1, ValueOfFew
  <2>2. CASE a.partner = Empty
    <3>1. fr.rule = x
      BY <1>3, <1>7, <2>2
    <3>2. ValueOf(x, "model") = a.model /\ ValueOf(x, "partnerId") = Empty
      BY <1>9, ValueOfFew
    <3>3. QED BY <2>2, <3>1, <3>2
  <2>3. QED BY <2>1, <2>2
<1>13. ConvertIntoActivationVersion(fr) =
         [name |-> a.name, app |-> a.app, model |-> a.model, partner |-> a.partner, versions |-> a.versions, regexs |-> a.regexs]
  BY <1>3, <1>12 DEF ConvertIntoActivationVersion
<1>14. QED BY <1>2, <1>3, <1>4, <1>13 DEF fr

LEMMA LocationOK == BeanInv => LocationReadsBack
<1> SUFFICES ASSUME BeanInv, NEW id \in Saved, Kind(id) = "location"
             PROVE  \E f \in DownloadLocationFiltersByApplicationType(store[id].app) :
                      /\ f.location = Form(id).location /\ (f.http <=> Form(id).protocol # "tftp")
                      /\ f.ipv6 = IF f.http THEN Empty ELSE Form(id).ipv6
                      /\ Form(id).only = Empty => f.group.name = Form(id).group
  BY DEF LocationReadsBack
<1>1. SavedAs(store[id], posted[id]) /\ id \in OfType(store[id].app, store[id].type)
  BY SavedSlot
<1>2. PICK p \in LocationForms, app \in Apps : posted[id] = <<"location", p>> /\ store[id] = LocationOf(p, app)
  BY <1>1, KindsOf DEF Kind, IsLocation
<1> DEFINE fr == LocationOf(p, app)
           f == setDownloadLocationFilter(fr)
           x == InList("ipAddress", p.group)
<1>3. Form(id) = p /\ fr.type = "DOWNLOAD_LOCATION_FILTER" /\ fr.rule = NewDownloadLocationFilter(p.group, p.only)
      /\ fr.action.props = <<p.protocol, p.location, p.ipv6>>
  BY <1>2, LocationFields, PropertiesOf DEF Form
<1>4. fr.action.props[1] = p.protocol /\ fr.action.props[2] = p.location /\ fr.action.props[3] = p.ipv6
  BY <1>3
<1>5. p.group \in STRING /\ "ipAddress" \in STRING
  BY BeanFormsOK, WordsOK
<1>6. Carries(x, "STRING", "ipAddress", "IN_LIST", Str(p.group))
  BY <1>5, TextCarries
<1>7. p.only = Empty => fr.rule = x
  BY <1>3 DEF NewDownloadLocationFilter, AndIf
<1>8. f \in DownloadLocationFiltersByApplicationType(store[id].app)
  BY <1>1, <1>2, <1>3 DEF DownloadLocationFiltersByApplicationType
<1> HIDE DEF fr, x
<1>9. ~x.compound /\ x.cond.op = "IN_LIST" /\ x.cond.fixed.str = p.group
  BY <1>6, TextOf
<1>10. f.location = p.location /\ (f.http <=> p.protocol # "tftp") /\ f.ipv6 = IF f.http THEN Empty ELSE p.ipv6
  BY <1>4 DEF setDownloadLocationFilter
<1>11. p.only = Empty => f.group.name = p.group
  <2>1. f.group = IF fr.rule.compound THEN NoGroup ELSE GetIpAddressGroup(fr.rule.cond)
    BY DEF setDownloadLocationFilter
  <2>2. GetIpAddressGroup(x.cond).name = p.group
    BY <1>9, ListGroup
  <2> HIDE DEF f
  <2>3. QED BY <1>7, <1>9, <2>1, <2>2
<1> HIDE DEF f
<1>12. QED BY <1>3, <1>8, <1>10, <1>11

LEMMA GlobalParts ==
    ASSUME NEW n \in Int, NEW w \in STRING
    PROVE  LET x == Not(InText("matchedRuleType", {"ENV_MODEL_RULE", "MIN_CHECK_RULE", "IV_RULE"}))
               y == RelatedBy(Leaf(Cond("STRING", "eStbMac", "PERCENT", Dbl(n))), "AND")
               z == RelatedBy(InList("ipAddress", w), "AND")
           IN  /\ NewGlobalPercentFilter(n, w) = IF w # Empty THEN Compound(<<x, y, z>>) ELSE Compound(<<x, y>>)
               /\ x \in AllRules /\ ~x.compound /\ x.cond.op = "IN"
               /\ Carries(y, "STRING", "eStbMac", "PERCENT", Dbl(n)) /\ JoinedLeaf(y)
               /\ Carries(z, "STRING", "ipAddress", "IN_LIST", Str(w)) /\ JoinedLeaf(z)
<1> DEFINE T == {"ENV_MODEL_RULE", "MIN_CHECK_RULE", "IV_RULE"}
           x == Not(InText("matchedRuleType", T))
           y0 == Leaf(Cond("STRING", "eStbMac", "PERCENT", Dbl(n)))
           z0 == InList("ipAddress", w)
           y == RelatedBy(y0, "AND")
           z == RelatedBy(z0, "AND")
<1>0. /\ "ipAddress" \in STRING /\ "eStbMac" \in STRING /\ "PERCENT" \in STRING /\ "STRING" \in STRING /\ "IN" \in STRING
      /\ "matchedRuleType" \in STRING /\ T \in SUBSET STRING
  BY WordsOK, BeanIdsOK
<1>00. Coll(T) \in FixedArgs /\ Dbl(n) \in FixedArgs
  BY <1>0, ArgTypes
<1>1. Carries(x, "STRING", "matchedRuleType", "IN", Coll(T))
  <2> HIDE DEF T
  <2>1. QED BY <1>0, <1>00, LeafCarries DEF InText
<1>2. Carries(y0, "STRING", "eStbMac", "PERCENT", Dbl(n))
  BY <1>0, <1>00, LeafCarries
<1>3. Carries(z0, "STRING", "ipAddress", "IN_LIST", Str(w))
  BY <1>0, TextCarries
<1>4. NewGlobalPercentFilter(n, w) = IF w # Empty THEN AndRules(AndRules(x, y0), z0) ELSE AndRules(x, y0)
  BY DEF NewGlobalPercentFilter, AndIf
<1> HIDE DEF x, y0, z0
<1>5. x \in AllRules /\ ~x.compound /\ x.cond.op = "IN"
  BY <1>1, CarriedFacts
<1>6. Carries(y, "STRING", "eStbMac", "PERCENT", Dbl(n)) /\ JoinedLeaf(y)
  BY <1>2, CarriedBy
<1>7. Carries(z, "STRING", "ipAddress", "IN_LIST", Str(w)) /\ JoinedLeaf(z)
  BY <1>3, CarriedBy
<1>8. AndRules(x, y0) = Compound(<<x, y>>)
  BY <1>5, AddToLeaf DEF AndRules
<1>9. AndRules(Compound(<<x, y>>), z0) = Compound(Append(<<x, y>>, z))
  BY AddToCompound DEF AndRules
<1>10. NewGlobalPercentFilter(n, w) = IF w # Empty THEN Compound(<<x, y, z>>) ELSE Compound(<<x, y>>)
  BY <1>4, <1>8, <1>9, ThreeOfThem
<1> HIDE DEF y, z
<1>11. /\ NewGlobalPercentFilter(n, w) = IF w # Empty THEN Compound(<<x, y, z>>) ELSE Compound(<<x, y>>)
       /\ x \in AllRules /\ ~x.compound /\ x.cond.op = "IN"
       /\ Carries(y, "STRING", "eStbMac", "PERCENT", Dbl(n)) /\ JoinedLeaf(y)
       /\ Carries(z, "STRING", "ipAddress", "IN_LIST", Str(w)) /\ JoinedLeaf(z)
  BY <1>5, <1>6, <1>7, <1>10
<1>12. QED BY <1>11 DEF x, y, z, y0, z0, T

LEMMA GlobalReads ==
    ASSUME NEW f \in GlobalFilters, NEW app
    PROVE  ConvertIntoGlobalPercentageFirmwareRule(ConvertIntoGlobalPercentage(f, app)) = f
<1> DEFINE fr == ConvertIntoGlobalPercentage(f, app)
           n == 100 - f.percentage
           w == f.whitelist
           x == Not(InText("matchedRuleType", {"ENV_MODEL_RULE", "MIN_CHECK_RULE", "IV_RULE"}))
           y == RelatedBy(Leaf(Cond("STRING", "eStbMac", "PERCENT", Dbl(n))), "AND")
           z == RelatedBy(InList("ipAddress", w), "AND")
           cs == ToConditions(fr.rule)
           P == {c \in Range(cs) : c.op = "PERCENT"}
           W == {i \in DOMAIN cs : cs[i].op = "IN_LIST" /\ On(cs[i], "ipAddress")}
<1>1. f \in [percentage : Int, whitelist : STRING] /\ n \in Int /\ w \in STRING
  BY BeanFormsOK
<1>2. fr.rule = NewGlobalPercentFilter(n, w)
  BY GlobalFields
<1>3. /\ NewGlobalPercentFilter(n, w) = IF w # Empty THEN Compound(<<x, y, z>>) ELSE Compound(<<x, y>>)
      /\ x \in AllRules /\ ~x.compound /\ x.cond.op = "IN"
      /\ Carries(y, "STRING", "eStbMac", "PERCENT", Dbl(n)) /\ JoinedLeaf(y)
      /\ Carries(z, "STRING", "ipAddress", "IN_LIST", Str(w)) /\ JoinedLeaf(z)
  BY <1>1, GlobalParts
<1>30. 100 - n = f.percentage
  BY <1>1
<1>31. ConvertIntoGlobalPercentageFirmwareRule(fr) =
         LET percents == {100 - c.fixed.num : c \in P}
         IN  [percentage |-> IF percents = {} THEN 100 ELSE CHOOSE p \in percents : TRUE, whitelist |-> LastOf(cs, W)]
  BY DEF ConvertIntoGlobalPercentageFirmwareRule
<1> HIDE DEF x, y, z, fr, n
<1>4. /\ y.cond.op = "PERCENT" /\ y.cond.name = "eStbMac" /\ y.cond.fixed.num = n
      /\ z.cond.op = "IN_LIST" /\ On(z.cond, "ipAddress") /\ z.cond.fixed.str = w
  <2>1. y.cond.op = "PERCENT" /\ y.cond.name = "eStbMac" /\ y.cond.fixed = Dbl(n)
    BY <1>3, CarriedFacts
  <2>2. z.cond.op = "IN_LIST" /\ On(z.cond, "ipAddress") /\ z.cond.fixed.str = w
    BY <1>3, TextOf
  <2>3. Dbl(n).num = n
    BY ArgFields
  <2>4. QED BY <2>1, <2>2, <2>3
<1>5. P = {y.cond} /\ LastOf(cs, W) = w
  <2>1. CASE w # Empty
    <3>1. cs = <<x.cond, y.cond, z.cond>>
      <4>1. FlattenRule(fr.rule) = <<x, y, z>>
        BY <1>2, <1>3, <2>1, FlattenTriple
      <4>2. QED BY <4>1, ConditionsAre, CondsOfFew
    <3>2. DOMAIN cs = {1, 2, 3} /\ cs[1] = x.cond /\ cs[2] = y.cond /\ cs[3] = z.cond
      BY <3>1
    <3> HIDE DEF cs
    <3>3. Range(cs) = {x.cond, y.cond, z.cond}
      BY <3>2 DEF Range
    <3>4. P = {y.cond}
      BY <1>3, <1>4, <3>3
    <3>5. W = {3}
      BY <1>3, <1>4, <3>2
    <3>6. Max({3}) = 3
      BY MaxIs
    <3>7. LastOf(cs, W) = cs[3].fixed.str
      BY <3>5, <3>6 DEF LastOf
    <3>8. QED BY <1>4, <3>2, <3>4, <3>7
  <2>2. CASE w = Empty
    <3>1. cs = <<x.cond, y.cond>>
      <4>1. FlattenRule(fr.rule) = <<x, y>>
        BY <1>2, <1>3, <2>2, FlattenPair
      <4>2. QED BY <4>1, ConditionsAre, CondsOfFew
    <3>2. DOMAIN cs = {1, 2} /\ cs[1] = x.cond /\ cs[2] = y.cond
      BY <3>1
    <3> HIDE DEF cs
    <3>3. Range(cs) = {x.cond, y.cond}
      BY <3>2 DEF Range
    <3>4. P = {y.cond}
      BY <1>3, <1>4, <3>3
    <3>5. W = {}
      BY <1>3, <1>4, <3>2
    <3>6. QED BY <2>2, <3>4, <3>5 DEF LastOf
  <2>3. QED BY <2>1, <2>2
<1>6. {100 - c.fixed.num : c \in P} = {f.percentage}
  BY <1>30, <1>4, <1>5
<1> HIDE DEF P, W, cs
<1>7. ConvertIntoGlobalPercentageFirmwareRule(fr) = [percentage |-> f.percentage, whitelist |-> w]
  <2>1. (CHOOSE p \in {f.percentage} : TRUE) = f.percentage
    OBVIOUS
  <2>2. QED BY <1>31, <1>5, <1>6, <2>1
<1>8. QED BY <1>1, <1>7 DEF fr

LEMMA GlobalOK == BeanInv => GlobalKept
<1> SUFFICES ASSUME BeanInv, NEW app \in Apps, posted[app] # NoForm
             PROVE  LET fr == store[getGlobalPercentId(app)]
                    IN  fr.app = app /\ ConvertIntoGlobalPercentageFirmwareRule(fr) = Form(app)
  BY DEF GlobalKept
<1>1. PICK f \in GlobalFilters :
         posted[app] = <<"global", f>> /\ store[getGlobalPercentId(app)] = ConvertIntoGlobalPercentage(f, app)
  BY DEF BeanInv, GlobalsOK, IsGlobal
<1>2. QED BY <1>1, GlobalFields, GlobalReads DEF Form

-----------------------------------------------------------------------------
(* Flattening gives a list of conditions, however rules are nested.        *)
LEMMA BelowType ==
    ASSUME NEW rs \in Seq(AllRules)
    PROVE  Below(rs) \in Seq(AllRules) /\ LeavesOf(rs) \in Seq(AllRules)
<1> DEFINE n == Len(rs)
           s == [i \in DOMAIN rs |-> rs[i].parts]
           t == [i \in DOMAIN rs |-> IF rs[i].compound THEN <<>> ELSE <<rs[i]>>]
<1>1. n \in Nat /\ DOMAIN rs = 1..n /\ \A i \in 1..n : rs[i] \in AllRules /\ rs[i].parts \in Seq(AllRules)
  BY SeqFacts, RuleParts
<1>2. RuleLists(s, n)
  BY <1>1 DEF RuleLists
<1>3. RuleLists(t, n)
  <2>1. \A i \in 1..n : <<rs[i]>> \in Seq(AllRules) /\ <<>> \in Seq(AllRules)
    BY <1>1
  <2>2. QED BY <1>1, <2>1 DEF RuleLists
<1> HIDE DEF s, t
<1>4. s \in Seq(Seq(AllRules)) /\ t \in Seq(Seq(AllRules))
  BY <1>2, <1>3, ListsOfRules
<1>5. Concat(s) \in Seq(AllRules) /\ Concat(t) \in Seq(AllRules)
  BY <1>4, ConcatRange
<1>6. QED BY <1>5 DEF Below, LeavesOf, s, t

LEMMA FlattenType ==
    ASSUME NEW r \in AllRules
    PROVE  FlattenRule(r) \in Seq(AllRules)
<1> DEFINE n == MaxDepth
           X == Seq(AllRules)
           step == [i \in 1..n |-> [x \in X |-> Below(x)]]
           Is(f) == f = [d \in 0..n |-> IF d = 0 THEN <<r>> ELSE Below(f[d - 1])]
<1>0. n \in Nat /\ <<r>> \in X
  BY ValuesOK
<1>2. Steps(n, X, step)
  BY <1>0, BelowType DEF Steps
<1>3. PICK g : IsLoop(g, n, X, <<r>>, step)
  <2> HIDE DEF step, X
  <2>1. QED BY <1>0, <1>2, LoopExists
<1>4. g \in [0..n -> X] /\ g[0] = <<r>> /\ \A i \in 1..n : g[i] = step[i][g[i - 1]]
  BY <1>3 DEF IsLoop
<1>5. ASSUME NEW i \in 1..n PROVE g[i] = Below(g[i - 1])
  <2>1. i - 1 \in 0..n
    BY <1>0
  <2>2. g[i - 1] \in X
    BY <1>4, <2>1
  <2> HIDE DEF X
  <2>3. QED BY <1>4, <2>2
<1> HIDE DEF step, X, n
<1>6. Is(g)
  <2>1. ASSUME NEW i \in 0..n PROVE g[i] = IF i = 0 THEN <<r>> ELSE Below(g[i - 1])
    <3>1. CASE i = 0
      BY <1>4, <3>1
    <3>2. CASE i # 0
      <4>1. i \in 1..n
        BY <1>0, <3>2, FirstOrLater
      <4>2. QED BY <1>5, <3>2, <4>1
    <3>3. QED BY <3>1, <3>2
  <2>2. QED BY <1>4, <2>1
<1>7. PICK f : Is(f) /\ FlattenRule(r) = Concat([d \in 1..(n + 1) |-> LeavesOf(f[d - 1])])
  BY <1>6, ZenonT(60) DEF FlattenRule, n
<1>8. \A i \in 0..n : f[i] = g[i]
  <2>1. f[0] = g[0]
    BY <1>0, <1>4, <1>7
  <2>2. ASSUME NEW i \in 1..n, f[i - 1] = g[i - 1] PROVE f[i] = g[i]
    <3>1. i \in 0..n /\ i # 0
      BY <1>0
    <3>2. f[i] = Below(f[i - 1])
      BY <1>7, <3>1
    <3>3. QED BY <1>5, <2>2, <3>2
  <2>3. SameSteps(n, f, g)
    BY <2>1, <2>2 DEF SameSteps
  <2>4. QED BY <1>0, <2>3, LoopUnique
<1> DEFINE s == [d \in 1..(n + 1) |-> LeavesOf(f[d - 1])]
<1>9. RuleLists(s, n + 1)
  <2>1. ASSUME NEW d \in 1..(n + 1) PROVE LeavesOf(f[d - 1]) \in Seq(AllRules)
    <3>1. d - 1 \in 0..n
      BY <1>0
    <3>2. f[d - 1] \in Seq(AllRules)
      BY <1>4, <1>8, <3>1 DEF X
    <3>3. QED BY <3>2, BelowType
  <2>2. QED BY <1>0, <2>1 DEF RuleLists
<1>10. FlattenRule(r) = Concat(s)
  BY <1>7
<1> HIDE DEF s
<1>11. s \in Seq(Seq(AllRules))
  BY <1>9, ListsOfRules
<1>12. QED BY <1>10, <1>11, ConcatRange

LEMMA ConditionsType ==
    ASSUME NEW r \in AllRules
    PROVE  ToConditions(r) \in Seq(AllConditions)
<1>1. FlattenRule(r) \in Seq(AllRules) /\ ToConditions(r) = CondsOf(FlattenRule(r))
  BY FlattenType, ConditionsAre
<1>2. QED BY <1>1, CondsType

-----------------------------------------------------------------------------
(* The rules of percentage beans.                                          *)
EnvModel(b) == IF b.env # Empty THEN NewEnvModelRule(b.env, b.model) ELSE NewModelRule(b.model)
BeanRule(b) == IF b.opt # <<>> THEN AndRules(EnvModel(b), b.opt[1]) ELSE EnvModel(b)

LEMMA BeanRuleOf ==
    ASSUME NEW b
    PROVE  ConvertPercentageBeanToFirmwareRule(b).rule = BeanRule(b)
BY RuleFieldsOf DEF ConvertPercentageBeanToFirmwareRule, BeanRule, EnvModel

LEMMA LeafChain == ASSUME NEW x, GoodLeaf(x) PROVE Chain(x, MaxDepth) /\ x \in Rules[MaxDepth - 1]
<1>1. x \in Rules[0] /\ ~x.compound
  BY DEF GoodLeaf
<1>2. 0 \in Nat /\ MaxDepth \in 0..MaxDepth /\ 0 <= MaxDepth /\ MaxDepth - 1 \in 0..MaxDepth /\ 0 <= MaxDepth - 1
  BY ValuesOK
<1>3. x \in Rules[MaxDepth] /\ x \in Rules[MaxDepth - 1]
  BY <1>1, <1>2, LevelsGrow
<1>4. QED BY <1>1, <1>3 DEF Chain

LEMMA EnvModelChain ==
    ASSUME NEW b, b.env \in STRING, b.model \in STRING
    PROVE  /\ Chain(EnvModel(b), MaxDepth)
           /\ \A ctx : Evaluate(EnvModel(b), ctx) <=>
                (b.env # Empty => Evaluate(IsText("env", b.env), ctx)) /\ Evaluate(IsText("model", b.model), ctx)
<1> DEFINE x == IsText("env", b.env)
           y == IsText("model", b.model)
<1>1. "env" \in STRING /\ "model" \in STRING /\ MaxDepth \in 1..MaxDepth
  BY WordsOK, DepthOK
<1>2. GoodLeaf(x) /\ GoodLeaf(y)
  BY <1>1, FactoryLeaves
<1>3. EnvModel(b) = IF b.env # Empty THEN AndRules(x, y) ELSE y
  BY DEF EnvModel, NewEnvModelRule, NewModelRule
<1> HIDE DEF x, y
<1>4. Chain(x, MaxDepth) /\ Chain(y, MaxDepth) /\ y \in Rules[MaxDepth - 1]
  BY <1>2, LeafChain
<1>5. /\ Chain(AndRules(x, y), MaxDepth)
      /\ \A ctx : Evaluate(AndRules(x, y), ctx) <=> Evaluate(x, ctx) /\ Evaluate(y, ctx)
  BY <1>1, <1>4, AndHolds
<1>6. CASE b.env # Empty
  BY <1>3, <1>5, <1>6 DEF x, y
<1>7. CASE b.env = Empty
  BY <1>3, <1>4, <1>7 DEF x, y
<1>8. QED BY <1>6, <1>7

LEMMA OptionalType == ASSUME NEW o \in OptionalRules PROVE o \in Rules[MaxDepth - 1] /\ o \in AllRules
<1>1. o \in Rules[MaxDepth - 1]
  BY DEF OptionalRules
<1>2. MaxDepth - 1 \in 0..MaxDepth
  BY ValuesOK
<1>3. QED BY <1>1, <1>2, RulesAreRules

LEMMA BeanRuleChain ==
    ASSUME NEW b, b.env \in STRING, b.model \in STRING, b.opt \in Seq(Rules[MaxDepth - 1])
    PROVE  /\ Chain(BeanRule(b), MaxDepth) /\ BeanRule(b) \in AllRules
           /\ \A ctx : Evaluate(BeanRule(b), ctx) <=> Evaluate(EnvModel(b), ctx) /\ (b.opt # <<>> => Evaluate(b.opt[1], ctx))
<1>1. /\ Chain(EnvModel(b), MaxDepth) /\ MaxDepth \in 1..MaxDepth
  BY EnvModelChain, DepthOK
<1>2. CASE b.opt # <<>>
  <2>1. b.opt[1] \in Rules[MaxDepth - 1]
    BY <1>2
  <2>2. /\ Chain(AndRules(EnvModel(b), b.opt[1]), MaxDepth)
        /\ \A ctx : Evaluate(AndRules(EnvModel(b), b.opt[1]), ctx) <=> Evaluate(EnvModel(b), ctx) /\ Evaluate(b.opt[1], ctx)
    BY <1>1, <2>1, AndHolds
  <2>3. QED BY <1>2, <2>2 DEF BeanRule, Chain, AllRules
<1>3. CASE b.opt = <<>>
  BY <1>1, <1>3 DEF BeanRule, Chain, AllRules
<1>4. QED BY <1>2, <1>3

LEMMA BeanForms ==
    ASSUME NEW b \in PercentageBeans
    PROVE  /\ b.name \in STRING /\ b.env \in STRING /\ b.model \in STRING /\ b.opt \in Seq(OptionalRules) /\ Len(b.opt) <= 1
           /\ b.dists \in Seq(ConfigEntries) /\ b.app \in STRING /\ b.opt \in Seq(Rules[MaxDepth - 1])
<1>1. /\ b \in [name : STRING, env : STRING, model : STRING, opt : Seq(OptionalRules), dists : Seq(ConfigEntries),
          lkg : STRING, iv : STRING, check : BOOLEAN, versions : SUBSET STRING, active : BOOLEAN, app : STRING,
          whitelist : STRING, reboot : BOOLEAN, account : BOOLEAN]
      /\ Len(b.opt) <= 1
  BY BeanFormsOK
<1>2. OptionalRules \subseteq Rules[MaxDepth - 1]
  BY DEF OptionalRules
<1>3. b.opt \in Seq(OptionalRules)
  BY <1>1
<1>4. b.opt \in Seq(Rules[MaxDepth - 1])
  BY <1>2, <1>3
<1>5. QED BY <1>1, <1>3, <1>4

-----------------------------------------------------------------------------
(* MAC rules.                                                              *)
LEMMA MacRuleTypes ==
    ASSUME BeanInv, NEW id \in Stored, store[id].action.type = "RULE"
    PROVE  store[id].rule \in AllRules
<1>1. id \in BeanIds
  <2>1. ASSUME id \notin BeanIds PROVE FALSE
    <3>1. PICK f \in GlobalFilters, app \in Apps : store[id] = ConvertIntoGlobalPercentage(f, app)
      BY <2>1, StoredRules
    <3>2. QED BY <3>1, GlobalFields
  <2>2. QED BY <2>1
<1>2. SavedAs(store[id], posted[id]) /\ store[id].type # ""
  BY <1>1, StoredRules DEF Stored
<1>3. \/ IsStrict(store[id], posted[id]) \/ IsLenient(store[id], posted[id]) \/ IsIpRule(store[id], posted[id])
      \/ IsMacRule(store[id], posted[id])
  <2> DEFINE fr == store[id]
             q == posted[id]
  <2>0. SavedAs(fr, q) /\ fr.type # "" /\ fr.action.type = "RULE"
    BY <1>2
  <2> HIDE DEF fr, q
  <2>1. ~IsNone(fr, q) /\ ~IsIpFilter(fr, q) /\ ~IsTimeFilter(fr, q)
    BY <2>0, TypesOf DEF Typed
  <2>2. ~IsActivation(fr, q) /\ ~IsLocation(fr, q) /\ ~IsLocationRule(fr, q)
    BY <2>0, TypesOf DEF Typed
  <2>3. QED BY <2>0, <2>1, <2>2 DEF SavedAs, fr, q
<1>4. ASSUME NEW b \in PercentageBeans, store[id] = ConvertPercentageBeanToFirmwareRule(b) PROVE store[id].rule \in AllRules
  <2>1. store[id].rule = BeanRule(b)
    BY <1>4, BeanRuleOf
  <2>2. b.env \in STRING /\ b.model \in STRING /\ b.opt \in Seq(Rules[MaxDepth - 1])
    BY BeanForms
  <2>3. QED BY <2>1, <2>2, BeanRuleChain
<1>5. CASE IsIpRule(store[id], posted[id])
  <2>1. PICK b \in IpRuleBeans, app \in Apps : store[id] = IpRuleOf(b, app)
    BY <1>5 DEF IsIpRule
  <2>2. b.group \in STRING /\ b.env \in STRING /\ b.model \in STRING
    BY BeanFormsOK, ValuesOK
  <2>3. store[id].rule = NewIpRule(b.group, b.env, b.model)
    BY <2>1, IpRuleFields
  <2> DEFINE x == InList("ipAddress", b.group)
             y == RelatedBy(IsText("env", b.env), "AND")
             z == RelatedBy(IsText("model", b.model), "AND")
  <2>4. /\ NewIpRule(b.group, b.env, b.model) = Compound(<<x, y, z>>)
        /\ Carries(x, "STRING", "ipAddress", "IN_LIST", Str(b.group)) /\ JoinedLeaf(y) /\ JoinedLeaf(z)
    BY <2>2, IpRuleParts
  <2> HIDE DEF x, y, z
  <2>5. x \in AllRules /\ ~x.compound
    BY <2>4, CarriedFacts
  <2>6. QED BY <2>3, <2>4, <2>5, FlattenTriple DEF Shallow
<1>6. CASE IsMacRule(store[id], posted[id])
  <2>1. PICK f \in MacForms, app \in Apps : store[id] = MacRuleOf(f, app)
    BY <1>6 DEF IsMacRule
  <2>2. QED BY <2>1, MacRuleFields, BeanFormsOK
<1>7. QED BY <1>3, <1>4, <1>5, <1>6 DEF IsStrict, IsLenient

LEMMA MacSearch ==
    ASSUME NEW r \in AllRules, NEW part \in DOMAIN MacParts
    PROVE  LET answer == SearchMacRule(r, part)
               holds == {c \in Range(ToConditions(r)) : c.name = "eStbMac" /\
                            (HitInList(c, part) \/ isExistMacAddressInList(Listed(c), part))}
           IN  /\ answer = <<>> <=> holds = {}
               /\ answer # <<>> =>
                    \/ answer[1].ref # Empty /\ Lists[answer[1].ref] \cap MacParts[part] # {}
                    \/ answer[1].macs \cap MacParts[part] # {}
<1> DEFINE cs == ToConditions(r)
           OnMac(i) == cs[i].name = "eStbMac"
           Passed(i) == UNION {Listed(cs[j]) : j \in {j \in 1..i : OnMac(j)}}
           I == {i \in DOMAIN cs : OnMac(i) /\ (HitInList(cs[i], part) \/ isExistMacAddressInList(Passed(i), part))}
           c == cs[Min(I)]
           found == [ref |-> IF HitInList(c, part) THEN c.fixed.str ELSE Empty, macs |-> Passed(Min(I))]
           answer == SearchMacRule(r, part)
           holds == {d \in Range(cs) : d.name = "eStbMac" /\
                        (HitInList(d, part) \/ isExistMacAddressInList(Listed(d), part))}
<1>1. cs \in Seq(AllConditions) /\ Len(cs) \in Nat /\ DOMAIN cs = 1..Len(cs)
  BY ConditionsType, SeqFacts
<1>2. answer = IF I = {} THEN <<>> ELSE <<found>>
  BY DEF SearchMacRule
<1> HIDE DEF cs, answer
<1>3. ASSUME NEW i \in DOMAIN cs, OnMac(i), HitInList(cs[i], part) \/ isExistMacAddressInList(Listed(cs[i]), part) PROVE i \in I
  <2>1. i \in 1..i
    BY <1>1
  <2>2. Listed(cs[i]) \subseteq Passed(i)
    BY <1>3, <2>1
  <2>3. QED BY <1>3, <2>2 DEF isExistMacAddressInList
<1>4. ASSUME NEW i \in I PROVE holds # {}
  <2>1. i \in DOMAIN cs /\ OnMac(i) /\ (HitInList(cs[i], part) \/ isExistMacAddressInList(Passed(i), part))
    OBVIOUS
  <2>2. CASE HitInList(cs[i], part)
    <3>1. cs[i] \in holds
      BY <2>1, <2>2 DEF Range
    <3>2. QED BY <3>1
  <2>3. CASE isExistMacAddressInList(Passed(i), part)
    <3>1. PICK m \in Passed(i) : m \in MacParts[part]
      BY <2>3 DEF isExistMacAddressInList
    <3>2. PICK j \in 1..i : OnMac(j) /\ m \in Listed(cs[j])
      BY <3>1
    <3>3. j \in DOMAIN cs
      BY <1>1, <2>1
    <3>4. isExistMacAddressInList(Listed(cs[j]), part)
      BY <3>1, <3>2 DEF isExistMacAddressInList
    <3>5. cs[j] \in holds
      BY <3>2, <3>3, <3>4 DEF Range
    <3>6. QED BY <3>5
  <2>4. QED BY <2>1, <2>2, <2>3
<1>5. I = {} <=> holds = {}
  <2>1. ASSUME NEW d \in holds PROVE I # {}
    <3>1. PICK i \in DOMAIN cs : d = cs[i]
      BY DEF Range
    <3>2. i \in I
      BY <1>3, <3>1
    <3> HIDE DEF I
    <3>3. QED BY <3>2
  <2> HIDE DEF I, holds
  <2>2. QED BY <1>4, <2>1
<1>6. answer = <<>> <=> holds = {}
  <2> HIDE DEF I, holds, found
  <2>1. <<found>> # <<>>
    OBVIOUS
  <2>2. QED BY <1>2, <1>5, <2>1
<1>7. ASSUME answer # <<>>
      PROVE \/ answer[1].ref # Empty /\ Lists[answer[1].ref] \cap MacParts[part] # {}
            \/ answer[1].macs \cap MacParts[part] # {}
  <2> DEFINE m == Min(I)
  <2>1. I # {} /\ answer[1] = found
    <3> HIDE DEF I, found
    <3>1. QED BY <1>2, <1>7
  <2>2. I \in SUBSET Nat
    BY <1>1
  <2>3. m \in I
    <3> HIDE DEF I
    <3>1. QED BY <2>1, <2>2, MinFacts
  <2>4. HitInList(c, part) \/ isExistMacAddressInList(Passed(m), part)
    BY <2>3
  <2>5. found.ref = (IF HitInList(c, part) THEN c.fixed.str ELSE Empty) /\ found.macs = Passed(m)
    OBVIOUS
  <2> HIDE DEF I, found, c, m, Passed
  <2>6. CASE HitInList(c, part)
    <3>1. c.fixed.str \in MacLists /\ Lists[c.fixed.str] \cap MacParts[part] # {}
      BY <2>6 DEF HitInList, isExistMacAddressInList
    <3>2. c.fixed.str # Empty
      BY <3>1, BeanFormsOK, FiltersOK
    <3>3. QED BY <2>1, <2>5, <2>6, <3>1, <3>2
  <2>7. CASE ~HitInList(c, part)
    BY <2>1, <2>4, <2>5, <2>7 DEF isExistMacAddressInList
  <2>8. QED BY <2>6, <2>7
<1>8. QED BY <1>6, <1>7 DEF cs, answer

(* The list without repeated names.                                        *)
Lowered(id) == LowerName[store[id].name]
Shown(order, g) ==
    /\ g \in [0..Len(order) -> Seq(Range(order))] /\ g[0] = <<>>
    /\ \A i \in 1..Len(order) :
         g[i] = IF \E d \in Range(g[i - 1]) : Lowered(d) = Lowered(order[i]) THEN g[i - 1] ELSE Append(g[i - 1], order[i])
    /\ GetByApplicationType(order) = g[Len(order)]

LEMMA ShownLoop ==
    ASSUME NEW S, NEW order \in Seq(S)
    PROVE  \E g : Shown(order, g)
<1> DEFINE n == Len(order)
           X == Seq(Range(order))
           Next1(i, x) == IF \E d \in Range(x) : Lowered(d) = Lowered(order[i]) THEN x ELSE Append(x, order[i])
           step == [i \in 1..n |-> [x \in X |-> Next1(i, x)]]
           Is(f) == f = [i \in 0..n |-> IF i = 0 THEN <<>> ELSE Next1(i, f[i - 1])]
<1>0. n \in Nat /\ \A i \in 1..n : order[i] \in Range(order)
  <2>1. n \in Nat /\ DOMAIN order = 1..n
    BY SeqFacts
  <2>2. QED BY <2>1 DEF Range
<1>1. <<>> \in X
  BY EmptySeq
<1>2. Steps(n, X, step)
  <2>1. ASSUME NEW i \in 1..n, NEW x \in X PROVE Next1(i, x) \in X
    <3>1. Append(x, order[i]) \in X
      BY <1>0, AppendFacts
    <3>2. QED BY <3>1
  <2> HIDE DEF Next1, X
  <2>2. QED BY <2>1 DEF Steps
<1>3. PICK g : IsLoop(g, n, X, <<>>, step)
  <2> HIDE DEF step, X
  <2>1. QED BY <1>0, <1>1, <1>2, LoopExists
<1>4. g \in [0..n -> X] /\ g[0] = <<>> /\ \A i \in 1..n : g[i] = step[i][g[i - 1]]
  BY <1>3 DEF IsLoop
<1> HIDE DEF Next1
<1>5. ASSUME NEW i \in 1..n PROVE g[i] = Next1(i, g[i - 1])
  <2>1. i - 1 \in 0..n
    BY <1>0
  <2>2. g[i - 1] \in X
    BY <1>4, <2>1
  <2> HIDE DEF X
  <2>3. QED BY <1>4, <2>2
<1> HIDE DEF step, X, n
<1>6. Is(g)
  <2>1. ASSUME NEW i \in 0..n PROVE g[i] = IF i = 0 THEN <<>> ELSE Next1(i, g[i - 1])
    <3>1. CASE i = 0
      BY <1>4, <3>1
    <3>2. CASE i # 0
      <4>1. i \in 1..n
        BY <1>0, <3>2, FirstOrLater
      <4>2. QED BY <1>5, <3>2, <4>1
    <3>3. QED BY <3>1, <3>2
  <2>2. QED BY <1>4, <2>1
<1>7. PICK f : Is(f) /\ GetByApplicationType(order) = f[n]
  BY <1>6 DEF GetByApplicationType, EqualFold, Lowered, Next1, n
<1>8. \A i \in 0..n : f[i] = g[i]
  <2>1. f[0] = g[0]
    BY <1>0, <1>4, <1>7
  <2>2. ASSUME NEW i \in 1..n, f[i - 1] = g[i - 1] PROVE f[i] = g[i]
    <3>1. i \in 0..n /\ i # 0
      BY <1>0
    <3>2. f[i] = Next1(i, f[i - 1])
      BY <1>7, <3>1
    <3>3. QED BY <1>5, <2>2, <3>2
  <2>3. SameSteps(n, f, g)
    BY <2>1, <2>2 DEF SameSteps
  <2>4. QED BY <1>0, <2>3, LoopUnique
<1>9. GetByApplicationType(order) = g[n]
  BY <1>0, <1>7, <1>8
<1>10. Shown(order, g)
  BY <1>4, <1>5, <1>9 DEF Shown, X, n, Next1
<1>11. QED BY <1>10

NamesUpTo(order, i) == {Lowered(order[j]) : j \in 1..i}
NamesOf(s) == {Lowered(s[k]) : k \in 1..Len(s)}
OnePerName(s) == \A k, l \in 1..Len(s) : Lowered(s[k]) = Lowered(s[l]) => k = l

LEMMA ShownStep ==
    ASSUME NEW S, NEW s \in Seq(S), NEW e \in S, OnePerName(s), Lowered(e) \notin NamesOf(s)
    PROVE  OnePerName(Append(s, e)) /\ NamesOf(Append(s, e)) = NamesOf(s) \cup {Lowered(e)}
<1> DEFINE t == Append(s, e)
           n == Len(s)
<1>1. n \in Nat /\ Len(t) = n + 1 /\ t[n + 1] = e /\ \A i \in 1..n : t[i] = s[i]
  BY AppendFacts
<1> HIDE DEF t, n
<1>2. 1..(n + 1) = 1..n \cup {n + 1}
  BY <1>1
<1>3. \A k \in 1..n : Lowered(s[k]) # Lowered(e)
  BY DEF NamesOf, n
<1>4. OnePerName(t)
  BY <1>1, <1>2, <1>3 DEF OnePerName, n
<1>5. NamesOf(t) = NamesOf(s) \cup {Lowered(e)}
  BY <1>1, <1>2 DEF NamesOf, n
<1>6. QED BY <1>4, <1>5 DEF t

LEMMA ShownNames ==
    ASSUME NEW S, NEW order \in Seq(S)
    PROVE  LET s == GetByApplicationType(order)
           IN  s \in Seq(Range(order)) /\ OnePerName(s) /\ NamesOf(s) = NamesUpTo(order, Len(order))
<1> DEFINE n == Len(order)
<1>0. n \in Nat /\ \A i \in 1..n : order[i] \in Range(order)
  <2>1. n \in Nat /\ DOMAIN order = 1..n
    BY SeqFacts
  <2>2. QED BY <2>1 DEF Range
<1>1. PICK g : Shown(order, g)
  BY ShownLoop
<1>2. /\ g \in [0..n -> Seq(Range(order))] /\ g[0] = <<>>
      /\ GetByApplicationType(order) = g[n]
  BY <1>1 DEF Shown
<1>3. ASSUME NEW i \in 1..n
      PROVE g[i] = IF \E d \in Range(g[i - 1]) : Lowered(d) = Lowered(order[i]) THEN g[i - 1] ELSE Append(g[i - 1], order[i])
  BY <1>1 DEF Shown
<1> DEFINE G == {i \in 0..n : OnePerName(g[i]) /\ NamesOf(g[i]) = NamesUpTo(order, i)}
<1> HIDE DEF n
<1>4. 0 \in G
  <2>1. Len(<<>>) = 0 /\ 1..0 = {}
    OBVIOUS
  <2>2. OnePerName(<<>>) /\ NamesOf(<<>>) = {} /\ NamesUpTo(order, 0) = {}
    BY <2>1 DEF OnePerName, NamesOf, NamesUpTo
  <2>3. 0 \in 0..n
    BY <1>0
  <2>4. OnePerName(g[0]) /\ NamesOf(g[0]) = NamesUpTo(order, 0)
    BY <1>2, <2>2
  <2>5. QED BY <2>3, <2>4
<1>5. ASSUME NEW i \in 0..n, i < n, i \in G PROVE i + 1 \in G
  <2>1. i + 1 \in 1..n /\ (i + 1) - 1 = i /\ i + 1 \in 0..n /\ 1..(i + 1) = 1..i \cup {i + 1}
    <3> HIDE DEF G
    <3>1. QED BY <1>0, <1>5
  <2> DEFINE s == g[i]
             e == order[i + 1]
  <2>2. s \in Seq(Range(order)) /\ e \in Range(order) /\ OnePerName(s) /\ NamesOf(s) = NamesUpTo(order, i)
    BY <1>0, <1>2, <1>5, <2>1
  <2>3. g[i + 1] = IF \E d \in Range(s) : Lowered(d) = Lowered(e) THEN s ELSE Append(s, e)
    BY <1>3, <2>1
  <2>4. (\E d \in Range(s) : Lowered(d) = Lowered(e)) <=> Lowered(e) \in NamesOf(s)
    <3>1. DOMAIN s = 1..Len(s)
      BY <2>2, SeqFacts
    <3> HIDE DEF s
    <3>2. QED BY <3>1 DEF Range, NamesOf
  <2>5. NamesUpTo(order, i + 1) = NamesUpTo(order, i) \cup {Lowered(e)}
    BY <2>1 DEF NamesUpTo
  <2> HIDE DEF s, e
  <2>6. CASE Lowered(e) \in NamesOf(s)
    <3>1. g[i + 1] = s
      BY <2>3, <2>4, <2>6
    <3>2. QED BY <2>1, <2>2, <2>5, <2>6, <3>1
  <2>7. CASE Lowered(e) \notin NamesOf(s)
    <3>1. g[i + 1] = Append(s, e)
      BY <2>3, <2>4, <2>7
    <3>2. OnePerName(Append(s, e)) /\ NamesOf(Append(s, e)) = NamesOf(s) \cup {Lowered(e)}
      BY <2>2, <2>7, ShownStep
    <3>3. QED BY <2>1, <2>2, <2>5, <3>1, <3>2
  <2>8. QED BY <2>6, <2>7
<1>6. 0..n \subseteq G
  <2> HIDE DEF G
  <2>1. QED BY <1>0, <1>4, <1>5, Induction
<1>7. n \in G /\ n \in 0..n
  BY <1>0, <1>6
<1>8. QED BY <1>2, <1>7 DEF n

(* As many names as rules.                                                 *)
LEMMA CountNames ==
    ASSUME NEW S, NEW s \in Seq(S), OnePerName(s)
    PROVE  Cardinality(NamesOf(s)) = Len(s)
<1> DEFINE n == Len(s)
           f == [k \in 1..n |-> Lowered(s[k])]
           T == NamesOf(s)
<1>0. n \in Nat
  BY SeqFacts
<1>1. T = {Lowered(s[k]) : k \in 1..n}
  BY DEF NamesOf
<1>2. f \in [1..n -> T] /\ \A t \in T : \E k \in 1..n : f[k] = t
  BY <1>1
<1>3. \A k, l \in 1..n : f[k] = f[l] => k = l
  BY DEF OnePerName
<1> HIDE DEF f, T, n
<1>4. f \in Bijection(1..n, T)
  BY <1>2, <1>3 DEF Bijection, Injection, Surjection, IsInjective
<1>5. ExistsBijection(1..n, T)
  BY <1>4 DEF ExistsBijection
<1>6. IsFiniteSet(1..n) /\ Cardinality(1..n) = n
  <2>1. 1 \in Int /\ n \in Int
    BY <1>0
  <2>2. IsFiniteSet(1..n) /\ Cardinality(1..n) = IF 1 > n THEN 0 ELSE n - 1 + 1
    BY <2>1, FS_Interval
  <2>3. (IF 1 > n THEN 0 ELSE n - 1 + 1) = n
    BY <1>0
  <2>4. QED BY <2>2, <2>3
<1>7. Cardinality(T) = Cardinality(1..n)
  BY <1>5, <1>6, FS_Bijection
<1>8. QED BY <1>6, <1>7 DEF T, n

LEMMA RangeNames ==
    ASSUME NEW S, NEW s \in Seq(S)
    PROVE  {LowerName[store[id].name] : id \in Range(s)} = NamesOf(s) /\ NamesOf(s) = NamesUpTo(s, Len(s))
<1>1. DOMAIN s = 1..Len(s)
  BY SeqFacts
<1>2. QED BY <1>1 DEF Range, NamesOf, NamesUpTo, Lowered

LEMMA MacOK == BeanInv => MacRulesFound
<1> SUFFICES ASSUME BeanInv, NEW app \in Apps
             PROVE  /\ \A order \in SetToSeqs(OfType(app, "MAC_RULE")) :
                         LET shown == GetByApplicationType(order)
                             Names(ids) == {LowerName[store[id].name] : id \in Range(ids)}
                         IN  Names(shown) = Names(order) /\ Cardinality(Names(shown)) = Len(shown)
                    /\ \A id \in GetFirmwareMacRules(app), part \in DOMAIN MacParts :
                         LET answer == SearchMacRule(store[id].rule, part)
                             holds == {c \in Range(ToConditions(store[id].rule)) : c.name = "eStbMac" /\
                                          (HitInList(c, part) \/ isExistMacAddressInList(Listed(c), part))}
                         IN  /\ answer = <<>> <=> holds = {}
                             /\ answer # <<>> =>
                                  \/ answer[1].ref # Empty /\ Lists[answer[1].ref] \cap MacParts[part] # {}
                                  \/ answer[1].macs \cap MacParts[part] # {}
  BY DEF MacRulesFound
<1>1. ASSUME NEW order \in SetToSeqs(OfType(app, "MAC_RULE"))
      PROVE  LET shown == GetByApplicationType(order)
                 Names(ids) == {LowerName[store[id].name] : id \in Range(ids)}
             IN  Names(shown) = Names(order) /\ Cardinality(Names(shown)) = Len(shown)
  <2> DEFINE S == OfType(app, "MAC_RULE")
             shown == GetByApplicationType(order)
  <2>1. S \subseteq BeanIds
    BY OfTypeFacts, StoredRules
  <2>2. Cardinality(S) \in Nat
    BY <2>1, BeanIdsOK, FS_Subset, FS_CardinalityType
  <2>3. order \in [1..Cardinality(S) -> S]
    BY DEF SetToSeqs
  <2>4. order \in Seq(S)
    BY <2>2, <2>3, SeqDef
  <2>5. shown \in Seq(Range(order)) /\ OnePerName(shown) /\ NamesOf(shown) = NamesUpTo(order, Len(order))
    BY <2>4, ShownNames
  <2> HIDE DEF S, shown
  <2>6. {LowerName[store[id].name] : id \in Range(shown)} = NamesOf(shown)
    BY <2>5, RangeNames
  <2>7. {LowerName[store[id].name] : id \in Range(order)} = NamesUpTo(order, Len(order))
    BY <2>4, RangeNames
  <2>8. Cardinality(NamesOf(shown)) = Len(shown)
    BY <2>5, CountNames
  <2>9. QED BY <2>5, <2>6, <2>7, <2>8 DEF shown
<1>2. ASSUME NEW id \in GetFirmwareMacRules(app), NEW part \in DOMAIN MacParts
      PROVE  LET answer == SearchMacRule(store[id].rule, part)
                 holds == {c \in Range(ToConditions(store[id].rule)) : c.name = "eStbMac" /\
                              (HitInList(c, part) \/ isExistMacAddressInList(Listed(c), part))}
             IN  /\ answer = <<>> <=> holds = {}
                 /\ answer # <<>> =>
                      \/ answer[1].ref # Empty /\ Lists[answer[1].ref] \cap MacParts[part] # {}
                      \/ answer[1].macs \cap MacParts[part] # {}
  <2>1. id \in Stored /\ store[id].action.type = "RULE"
    BY DEF GetFirmwareMacRules
  <2>2. store[id].rule \in AllRules
    BY <2>1, MacRuleTypes
  <2>3. QED BY <2>2, MacSearch
<1>3. QED BY <1>1, <1>2


-----------------------------------------------------------------------------
(* The conditions of a bean's rule: the environment and the model, then    *)
(* the optional ones.                                                      *)
EnvParts(b) ==
    IF b.env # Empty THEN <<IsText("env", b.env), RelatedBy(IsText("model", b.model), "AND")>>
    ELSE <<IsText("model", b.model)>>

OptParts(b) ==
    IF b.opt = <<>> THEN <<>>
    ELSE IF b.opt[1].compound THEN b.opt[1].parts ELSE <<RelatedBy(b.opt[1], "AND")>>

Flattens(b) ==
    /\ b.env \in STRING /\ b.model \in STRING /\ b.opt \in Seq(Rules[MaxDepth - 1])
    /\ FlatConditions(b)

LEMMA OptFlat ==
    ASSUME NEW b, Flattens(b), b.opt # <<>>
    PROVE  /\ b.opt[1] \in AllRules /\ b.opt[1] \in Rules[MaxDepth - 1]
           /\ b.opt[1].compound => Shallow(b.opt[1]) /\ ~b.opt[1].negated
<1>1. b.opt[1] \in Rules[MaxDepth - 1]
  BY DEF Flattens
<1>2. MaxDepth - 1 \in 0..MaxDepth
  BY ValuesOK
<1>3. b.opt[1] \in AllRules
  BY <1>1, <1>2, RulesAreRules
<1>4. b.opt[1].compound => Flat(b.opt[1])
  BY DEF Flattens, FlatConditions
<1>5. QED BY <1>1, <1>3, <1>4 DEF Flat, Shallow

LEMMA EnvPartsFacts ==
    ASSUME NEW b, b.env \in STRING, b.model \in STRING
    PROVE  /\ LeafParts(EnvParts(b)) /\ Len(EnvParts(b)) \in {1, 2}
           /\ \A i \in 1..Len(EnvParts(b)) : IsEnvOrModel(EnvParts(b)[i])
           /\ \A y : AndRules(EnvModel(b), y) = Compound(Append(EnvParts(b), RelatedBy(y, "AND")))
           /\ FlattenRule(EnvModel(b)) = EnvParts(b)
<1> DEFINE x == IsText("env", b.env)
           y0 == IsText("model", b.model)
           y == RelatedBy(y0, "AND")
<1>1. "env" \in STRING /\ "model" \in STRING
  BY WordsOK
<1>2. Carries(x, "STRING", "env", "IS", Str(b.env)) /\ Carries(y0, "STRING", "model", "IS", Str(b.model))
  BY <1>1, TextCarries
<1>3. EnvModel(b) = IF b.env # Empty THEN AndRules(x, y0) ELSE y0
  BY DEF EnvModel, NewEnvModelRule, NewModelRule
<1>4. EnvParts(b) = IF b.env # Empty THEN <<x, y>> ELSE <<y0>>
  BY DEF EnvParts
<1> HIDE DEF x, y0
<1>5. Carries(y, "STRING", "model", "IS", Str(b.model)) /\ JoinedLeaf(y)
  BY <1>2, CarriedBy
<1>6. y.relation = "AND"
  <2>1. y0 \in AllRules
    BY <1>2, CarriedFacts
  <2>2. QED BY <2>1, RelatedFields
<1>7. x \in AllRules /\ ~x.compound /\ y0 \in AllRules /\ ~y0.compound /\ y \in AllRules /\ ~y.compound
  BY <1>2, <1>5, CarriedFacts
<1>8. IsEnvOrModel(x) /\ IsEnvOrModel(y0) /\ IsEnvOrModel(y)
  BY <1>2, <1>5, CarriedFacts DEF IsEnvOrModel
<1>9. AndRules(x, y0) = Compound(<<x, y>>)
  BY <1>7, AddToLeaf DEF AndRules
<1> HIDE DEF y
<1>10. CASE b.env # Empty
  <2>1. EnvParts(b) = <<x, y>> /\ EnvModel(b) = Compound(<<x, y>>)
    BY <1>3, <1>4, <1>9, <1>10
  <2>2. <<x, y>> \in Seq(AllRules)
    BY ONLY <1>7
  <2>3. LeafParts(<<x, y>>)
    <3>1. DOMAIN <<x, y>> = {1, 2} /\ Len(<<x, y>>) = 2 /\ 2..2 = {2} /\ <<x, y>>[1] = x /\ <<x, y>>[2] = y
      OBVIOUS
    <3>2. QED BY <1>6, <1>7, <2>2, <3>1 DEF LeafParts
  <2>4. \A i \in 1..2 : IsEnvOrModel(<<x, y>>[i])
    <3>1. 1..2 = {1, 2} /\ <<x, y>>[1] = x /\ <<x, y>>[2] = y
      OBVIOUS
    <3>2. QED BY <1>8, <3>1
  <2>5. \A z : AndRules(Compound(<<x, y>>), z) = Compound(Append(<<x, y>>, RelatedBy(z, "AND")))
    BY AddToCompound DEF AndRules
  <2>6. FlattenRule(Compound(<<x, y>>)) = <<x, y>>
    BY <1>5, <1>7, FlattenPair
  <2>7. Len(<<x, y>>) = 2
    OBVIOUS
  <2>8. QED BY <2>1, <2>3, <2>4, <2>5, <2>6, <2>7
<1>11. CASE b.env = Empty
  <2>1. EnvParts(b) = <<y0>> /\ EnvModel(b) = y0
    BY <1>3, <1>4, <1>11
  <2>2. <<y0>> \in Seq(AllRules)
    BY ONLY <1>7
  <2>3. LeafParts(<<y0>>)
    <3>1. DOMAIN <<y0>> = {1} /\ Len(<<y0>>) = 1 /\ 2..1 = {} /\ <<y0>>[1] = y0
      OBVIOUS
    <3>2. QED BY <1>7, <2>2, <3>1 DEF LeafParts
  <2>4. \A i \in 1..1 : IsEnvOrModel(<<y0>>[i])
    <3>1. 1..1 = {1} /\ <<y0>>[1] = y0
      OBVIOUS
    <3>2. QED BY <1>8, <3>1
  <2>5. ASSUME NEW z PROVE AndRules(y0, z) = Compound(Append(<<y0>>, RelatedBy(z, "AND")))
    <3> DEFINE z1 == RelatedBy(z, "AND")
    <3>1. AndRules(y0, z) = Compound(<<y0, z1>>)
      BY <1>7, AddToLeaf DEF AndRules
    <3> HIDE DEF z1
    <3>2. Append(<<y0>>, z1) = <<y0, z1>>
      BY TwoOfThem
    <3>3. QED BY <3>1, <3>2 DEF z1
  <2>6. FlattenRule(y0) = <<y0>>
    BY <1>7, FlattenLeaf
  <2>7. Len(<<y0>>) = 1
    OBVIOUS
  <2>8. QED BY <2>1, <2>3, <2>4, <2>5, <2>6, <2>7
<1>12. QED BY <1>10, <1>11

LEMMA AppendOne ==
    ASSUME NEW S, NEW s \in Seq(S), NEW e \in S
    PROVE  Append(s, e) = s \o <<e>>
OBVIOUS

LEMMA FlattenBean ==
    ASSUME NEW b, Flattens(b)
    PROVE  FlattenRule(BeanRule(b)) = EnvParts(b) \o OptParts(b)
<1> DEFINE P == EnvParts(b)
           o == b.opt[1]
           q == RelatedBy(o, "AND")
<1>1. b.env \in STRING /\ b.model \in STRING /\ b.opt \in Seq(Rules[MaxDepth - 1])
  BY DEF Flattens
<1>2. /\ LeafParts(P) /\ Len(P) \in {1, 2} /\ AndRules(EnvModel(b), o) = Compound(Append(P, q))
      /\ FlattenRule(EnvModel(b)) = P
  BY <1>1, EnvPartsFacts
<1>20. P \in Seq(AllRules) /\ \A i \in DOMAIN P : ~P[i].compound
  BY <1>2 DEF LeafParts
<1>3. CASE b.opt = <<>>
  <2>1. P \o <<>> = P
    BY <1>20
  <2>2. QED BY <1>2, <1>3, <2>1 DEF BeanRule, OptParts
<1>4. CASE b.opt # <<>>
  <2>0. BeanRule(b) = Compound(Append(P, q)) /\ BeanRule(b) \in AllRules
    BY <1>1, <1>2, <1>4, BeanRuleChain DEF BeanRule
  <2>1. o \in AllRules /\ (o.compound => Shallow(o) /\ ~o.negated)
    BY <1>4, OptFlat
  <2>2. q \in AllRules /\ q.relation = "AND" /\ q.compound = o.compound /\ q.parts = o.parts
    BY <2>1, RelatedFields
  <2>30. Compound(Append(P, q)).parts = Append(P, q) /\ Compound(Append(P, q)).compound
    BY CompoundFields
  <2>31. OptParts(b) = IF o.compound THEN o.parts ELSE <<q>>
    BY <1>4 DEF OptParts
  <2> HIDE DEF P, o, q
  <2>3. CASE o.compound
    <3>1. Shallow(q)
      BY <2>1, <2>2, <2>3 DEF Shallow
    <3>2. FlattenRule(BeanRule(b)) = P \o q.parts
      BY <1>20, <2>0, <2>30, <3>1, FlattenNested
    <3>3. QED BY <2>2, <2>3, <2>31, <3>2 DEF P
  <2>4. CASE ~o.compound
    <3> DEFINE ps == Append(P, q)
    <3>1. ps \in Seq(AllRules) /\ Len(P) \in Nat /\ Len(ps) = Len(P) + 1 /\ ps[Len(P) + 1] = q /\ \A i \in 1..Len(P) : ps[i] = P[i]
      BY <1>20, <2>2, AppendFacts
    <3>2. DOMAIN ps = 1..Len(ps) /\ DOMAIN P = 1..Len(P)
      BY <1>20, <3>1, SeqFacts
    <3>3. ps = P \o <<q>>
      BY <1>20, <2>2, AppendOne
    <3> HIDE DEF ps
    <3>4. \A i \in DOMAIN ps : ~ps[i].compound
      <4>1. ASSUME NEW i \in 1..(Len(P) + 1) PROVE ~ps[i].compound
        <5>1. CASE i = Len(P) + 1
          BY <2>2, <2>4, <3>1, <5>1
        <5>2. CASE i # Len(P) + 1
          <6>1. i \in 1..Len(P)
            BY <3>1, <5>2
          <6>2. QED BY <1>20, <3>1, <3>2, <6>1
        <5>3. QED BY <5>1, <5>2
      <4>2. QED BY <3>1, <3>2, <4>1
    <3>40. Shallow(BeanRule(b)) /\ BeanRule(b).parts = ps
      BY <2>0, <2>30, <3>4 DEF Shallow, ps
    <3>5. FlattenRule(BeanRule(b)) = ps
      BY <3>40, FlattenShallow
    <3>6. QED BY <2>31, <2>4, <3>3, <3>5 DEF P
  <2>5. QED BY <2>3, <2>4 DEF P, o
<1>5. QED BY <1>3, <1>4

-----------------------------------------------------------------------------
(* Reading the optional conditions: what comes after the environment and   *)
(* the model is put together again.                                        *)
OptionalStep(rs, i, opt) == IF IsEnvOrModel(rs[i]) THEN opt ELSE getOptionalRule(opt, rs[i])

LEMMA OptionalIs ==
    ASSUME NEW rs, Len(rs) \in Nat, NEW h, h[0] = <<>>, \A i \in 1..Len(rs) : h[i] = OptionalStep(rs, i, h[i - 1])
    PROVE  OptionalOf(rs) = h[Len(rs)]
<1> DEFINE n == Len(rs)
           g == [i \in 0..n |-> h[i]]
           Is(f) == f = [i \in 0..n |-> IF i = 0 THEN <<>> ELSE OptionalStep(rs, i, f[i - 1])]
<1>1. n \in Nat
  OBVIOUS
<1>2. \A i \in 0..n : g[i] = h[i]
  OBVIOUS
<1>3. ASSUME NEW i \in 1..n PROVE g[i] = OptionalStep(rs, i, g[i - 1])
  <2>1. i \in 0..n /\ i - 1 \in 0..n
    BY <1>1
  <2>2. QED BY <1>2, <2>1
<1>30. g[0] = <<>> /\ DOMAIN g = 0..n /\ 0 \in 0..n /\ n \in 0..n /\ g = [i \in 0..n |-> g[i]]
  BY <1>1
<1> HIDE DEF g, n
<1>6. Is(g)
  <2>1. ASSUME NEW i \in 0..n PROVE g[i] = IF i = 0 THEN <<>> ELSE OptionalStep(rs, i, g[i - 1])
    <3>1. CASE i = 0
      BY <1>30, <3>1
    <3>2. CASE i # 0
      <4>1. i \in 1..n
        BY <1>1, <3>2, FirstOrLater
      <4>2. QED BY <1>3, <3>2, <4>1
    <3>3. QED BY <3>1, <3>2
  <2>2. QED BY <1>30, <2>1
<1>7. PICK f : Is(f) /\ OptionalOf(rs) = f[n]
  BY <1>6 DEF OptionalOf, OptionalStep, n
<1>8. \A i \in 0..n : f[i] = g[i]
  <2>1. f[0] = g[0]
    BY <1>30, <1>7
  <2>2. ASSUME NEW i \in 1..n, f[i - 1] = g[i - 1] PROVE f[i] = g[i]
    <3>1. i \in 0..n /\ i # 0
      BY <1>1
    <3>2. f[i] = OptionalStep(rs, i, f[i - 1])
      BY <1>7, <3>1
    <3>3. QED BY <1>3, <2>2, <3>2
  <2>3. SameSteps(n, f, g)
    BY <2>1, <2>2 DEF SameSteps
  <2>4. QED BY <1>1, <2>3, LoopUnique
<1>9. QED BY <1>2, <1>30, <1>7, <1>8 DEF n

Prefix(F, k) == [j \in 1..k |-> F[j]]

LEMMA PrefixFacts ==
    ASSUME NEW S, NEW F \in Seq(S)
    PROVE  /\ Prefix(F, Len(F)) = F
           /\ Len(F) >= 2 => Prefix(F, 2) = <<F[1], F[2]>>
           /\ \A k \in 1..Len(F) : k < Len(F) => Prefix(F, k + 1) = Append(Prefix(F, k), F[k + 1])
<1>0. Len(F) \in Nat /\ DOMAIN F = 1..Len(F) /\ \A i \in 1..Len(F) : F[i] \in S
  BY SeqFacts
<1>1. Prefix(F, Len(F)) = F
  BY <1>0 DEF Prefix
<1>2. ASSUME Len(F) >= 2 PROVE Prefix(F, 2) = <<F[1], F[2]>>
  <2>1. 1..2 = {1, 2}
    OBVIOUS
  <2> DEFINE x == F[1]
             y == F[2]
  <2>2. DOMAIN <<x, y>> = {1, 2} /\ <<x, y>>[1] = x /\ <<x, y>>[2] = y /\ <<x, y>> = [i \in {1, 2} |-> <<x, y>>[i]]
    <3> HIDE DEF x, y
    <3>1. QED OBVIOUS
  <2>3. QED BY <2>1, <2>2 DEF Prefix
<1>3. ASSUME NEW k \in 1..Len(F), k < Len(F) PROVE Prefix(F, k + 1) = Append(Prefix(F, k), F[k + 1])
  <2> DEFINE s == Prefix(F, k)
             t == Append(s, F[k + 1])
  <2>1. k \in Nat /\ k + 1 \in 1..Len(F) /\ 1..(k + 1) = 1..k \cup {k + 1} /\ 1..k \subseteq 1..Len(F)
    BY <1>0, <1>3
  <2>2. s \in [1..k -> S] /\ F[k + 1] \in S
    BY <1>0, <2>1 DEF Prefix
  <2>3. s \in Seq(S) /\ Len(s) = k
    <3> HIDE DEF s
    <3>1. QED BY <2>1, <2>2, SeqDef
  <2>4. \A i \in 1..k : s[i] = F[i]
    BY DEF Prefix
  <2>5. t \in Seq(S) /\ Len(t) = k + 1 /\ t[k + 1] = F[k + 1] /\ \A i \in 1..k : t[i] = s[i]
    <3> HIDE DEF s
    <3>1. QED BY <2>2, <2>3, AppendFacts
  <2>6. t \in [1..(k + 1) -> S]
    <3> HIDE DEF t
    <3>1. QED BY <2>1, <2>5, SeqDef
  <2> HIDE DEF s, t
  <2>7. \A i \in 1..(k + 1) : t[i] = F[i]
    BY <2>1, <2>4, <2>5
  <2>8. t = [i \in 1..(k + 1) |-> F[i]]
    BY <2>6, <2>7
  <2>9. QED BY <2>8 DEF Prefix, s, t
<1>4. QED BY <1>1, <1>2, <1>3

LEMMA SameRelation ==
    ASSUME NEW x \in AllRules, NEW rel \in {"", "AND", "OR"}
    PROVE  /\ RelatedBy(x, x.relation) = x
           /\ RelatedBy(RelatedBy(x, rel), x.relation) = x
<1>1. x \in RuleOf(Joined(Rules[MaxDepth - 1]))
  BY RuleShape
<1>2. x = [compound |-> x.compound, negated |-> x.negated, relation |-> x.relation, cond |-> x.cond, parts |-> x.parts]
  BY <1>1, RuleFields
<1>3. QED BY <1>2 DEF RelatedBy

OptList(Q) ==
    /\ Q \in Seq(AllRules) /\ \A i \in 1..Len(Q) : ~Q[i].compound /\ ~IsEnvOrModel(Q[i])
    /\ \A i \in 2..Len(Q) : Q[i].relation \in {"AND", "OR"}
(* Q without the relation of its first condition.                          *)
Unjoined(Q, F) ==
    /\ F \in Seq(AllRules) /\ Len(F) = Len(Q)
    /\ \A i \in 1..Len(Q) : F[i] = IF i = 1 THEN RelatedBy(Q[1], "") ELSE Q[i]
OptionalUpTo(F, k) ==
    IF k <= 0 THEN <<>> ELSE IF k = 1 THEN <<F[1]>> ELSE <<Compound(Prefix(F, k))>>

LEMMA OptionalGrows ==
    ASSUME NEW Q, OptList(Q), NEW F, Unjoined(Q, F), NEW k \in 1..Len(Q)
    PROVE  getOptionalRule(OptionalUpTo(F, k - 1), Q[k]) = OptionalUpTo(F, k)
<1> DEFINE q == Q[k]
<1>0. Len(Q) \in Nat /\ q \in AllRules /\ Q[1] \in AllRules /\ ~Q[1].compound
  BY SeqFacts DEF OptList
<1>1. CASE k = 1
  <2>1. OptionalUpTo(F, k - 1) = <<>> /\ OptionalUpTo(F, k) = <<F[1]>> /\ F[1] = RelatedBy(Q[1], "")
    <3>1. k - 1 <= 0 /\ ~(1 <= 0) /\ 1 \in 1..Len(Q)
      BY <1>0, <1>1
    <3>2. OptionalUpTo(F, k - 1) = <<>>
      BY <3>1 DEF OptionalUpTo
    <3>3. OptionalUpTo(F, 1) = <<F[1]>>
      BY <3>1 DEF OptionalUpTo
    <3>4. F[1] = RelatedBy(Q[1], "")
      BY <3>1 DEF Unjoined
    <3>5. QED BY <1>1, <3>2, <3>3, <3>4
  <2>2. QED BY <1>1, <2>1 DEF getOptionalRule, RelatedBy
<1>2. CASE k # 1
  <2>0. k \in 2..Len(Q) /\ k - 1 \in 1..Len(Q) /\ 1 \in 1..Len(Q) /\ Len(Q) >= 2 /\ (k - 1) + 1 = k /\ k - 1 < Len(Q)
    BY <1>0, <1>2
  <2>1. q.relation \in {"AND", "OR"} /\ F[k] = q /\ F[1] = RelatedBy(Q[1], "")
    BY <1>2, <2>0 DEF OptList, Unjoined
  <2>2. RelatedBy(q, q.relation) = q
    BY <1>0, SameRelation
  <2>3. \A x : getOptionalRule(<<x>>, q) = <<addRelatedCompound(x, q, q.relation)>>
    <3>1. \A x : <<x>> # <<>> /\ <<x>>[1] = x
      OBVIOUS
    <3>2. (IF q.relation = "AND" THEN "AND" ELSE "OR") = q.relation
      BY <2>1
    <3>3. QED BY <3>1, <3>2 DEF getOptionalRule
  <2>4. F \in Seq(AllRules) /\ Len(F) = Len(Q)
    BY DEF Unjoined
  <2>5. CASE k = 2
    <3>1. OptionalUpTo(F, k - 1) = <<F[1]>> /\ OptionalUpTo(F, k) = <<Compound(Prefix(F, 2))>>
      BY <2>5 DEF OptionalUpTo
    <3>2. Prefix(F, 2) = <<F[1], F[2]>>
      BY <2>0, <2>4, PrefixFacts
    <3>3. ~F[1].compound
      <4> DEFINE x == Q[1]
      <4>1. x \in AllRules /\ ~x.compound
        BY <1>0
      <4> HIDE DEF x
      <4>2. RelatedBy(x, "").compound = x.compound
        BY <4>1, RelatedFields
      <4>3. QED BY <2>1, <4>1, <4>2 DEF x
    <3>4. addRelatedCompound(F[1], q, q.relation) = Compound(<<F[1], RelatedBy(q, q.relation)>>)
      BY <3>3, AddToLeaf
    <3> HIDE DEF q
    <3>5. QED BY <2>1, <2>2, <2>3, <2>5, <3>1, <3>2, <3>4 DEF q
  <2>6. CASE k # 2
    <3>0. k - 1 # 1 /\ ~(k - 1 <= 0) /\ ~(k <= 0)
      BY <2>0, <2>6
    <3>1. OptionalUpTo(F, k - 1) = <<Compound(Prefix(F, k - 1))>> /\ OptionalUpTo(F, k) = <<Compound(Prefix(F, k))>>
      BY <1>2, <3>0 DEF OptionalUpTo
    <3>2. Prefix(F, k) = Append(Prefix(F, k - 1), F[k])
      <4> DEFINE j == k - 1
      <4>1. j \in 1..Len(F) /\ j < Len(F) /\ j + 1 = k
        BY <2>0, <2>4
      <4> HIDE DEF j
      <4>2. Prefix(F, j + 1) = Append(Prefix(F, j), F[j + 1])
        BY <2>4, <4>1, PrefixFacts
      <4>3. QED BY <4>1, <4>2 DEF j
    <3>3. addRelatedCompound(Compound(Prefix(F, k - 1)), q, q.relation) = Compound(Append(Prefix(F, k - 1), RelatedBy(q, q.relation)))
      BY AddToCompound
    <3> HIDE DEF q
    <3>4. QED BY <2>1, <2>2, <2>3, <3>1, <3>2, <3>3 DEF q
  <2>7. QED BY <2>5, <2>6
<1>3. QED BY <1>1, <1>2

LEMMA OptionalParts ==
    ASSUME NEW P \in Seq(AllRules), \A i \in 1..Len(P) : IsEnvOrModel(P[i]), NEW Q, OptList(Q), NEW F, Unjoined(Q, F)
    PROVE  OptionalOf(P \o Q) = OptionalUpTo(F, Len(Q))
<1> DEFINE p == Len(P)
           q == Len(Q)
           rs == P \o Q
           h == [i \in 0..(p + q) |-> OptionalUpTo(F, i - p)]
<1>0. Q \in Seq(AllRules)
  BY DEF OptList
<1>1. p \in Nat /\ q \in Nat /\ Len(rs) = p + q /\ \A i \in 1..(p + q) : rs[i] = IF i <= p THEN P[i] ELSE Q[i - p]
  BY <1>0, SeqFacts
<1> HIDE DEF rs, p, q
<1>2. h[0] = <<>>
  <2>1. 0 \in 0..(p + q) /\ 0 - p <= 0
    BY <1>1
  <2>2. QED BY <2>1 DEF OptionalUpTo
<1>3. ASSUME NEW i \in 1..(p + q) PROVE h[i] = OptionalStep(rs, i, h[i - 1])
  <2>1. i \in 0..(p + q) /\ i - 1 \in 0..(p + q) /\ (i - 1) - p = (i - p) - 1
    BY <1>1
  <2>2. h[i] = OptionalUpTo(F, i - p) /\ h[i - 1] = OptionalUpTo(F, (i - p) - 1)
    BY <2>1
  <2> HIDE DEF h
  <2>3. CASE i <= p
    <3>1. i \in 1..p /\ i - p <= 0 /\ (i - p) - 1 <= 0
      BY <1>1, <2>3
    <3>2. IsEnvOrModel(rs[i])
      BY <1>1, <2>3, <3>1 DEF p
    <3>3. OptionalUpTo(F, i - p) = <<>> /\ OptionalUpTo(F, (i - p) - 1) = <<>>
      BY <3>1 DEF OptionalUpTo
    <3>4. QED BY <2>2, <3>2, <3>3 DEF OptionalStep
  <2>4. CASE ~(i <= p)
    <3> DEFINE k == i - p
    <3>1. k \in 1..q
      BY <1>1, <2>4
    <3>2. rs[i] = Q[k]
      BY <1>1, <2>4
    <3> HIDE DEF k
    <3>3. ~IsEnvOrModel(Q[k])
      BY <3>1 DEF OptList, q
    <3>4. getOptionalRule(OptionalUpTo(F, k - 1), Q[k]) = OptionalUpTo(F, k)
      BY <3>1, OptionalGrows DEF q
    <3>5. h[i] = OptionalUpTo(F, k) /\ h[i - 1] = OptionalUpTo(F, k - 1)
      BY <2>2 DEF k
    <3>6. QED BY <3>2, <3>3, <3>4, <3>5 DEF OptionalStep
  <2>5. QED BY <2>3, <2>4
<1>4. h[p + q] = OptionalUpTo(F, q)
  <2>1. p + q \in 0..(p + q) /\ (p + q) - p = q
    BY <1>1
  <2>2. QED BY <2>1
<1> HIDE DEF h
<1>5. Len(rs) \in Nat
  BY <1>1
<1>6. OptionalOf(rs) = h[Len(rs)]
  BY <1>1, <1>2, <1>3, <1>5, OptionalIs
<1>7. QED BY <1>1, <1>4, <1>6 DEF rs, q

(* A bean whose optional conditions Validate accepts, without nesting.     *)
GoodBean(b) ==
    /\ Flattens(b) /\ b.opt \in Seq(OptionalRules) /\ Len(b.opt) <= 1
    /\ \A i \in DOMAIN b.opt : \A c \in Range(ToConditions(b.opt[i])) :
         ~(c.type = "STRING" /\ c.name \in {"env", "model"})

(* What is read from its rule.                                             *)
ReadOpt(b) ==
    IF b.opt = <<>> THEN <<>>
    ELSE LET o == b.opt[1]
         IN  IF ~o.compound THEN <<o>> ELSE IF Len(o.parts) = 1 THEN <<o.parts[1]>> ELSE <<Compound(o.parts)>>

LEMMA OptFacts ==
    ASSUME NEW b, GoodBean(b), b.opt # <<>>
    PROVE  LET o == b.opt[1]
           IN  /\ o \in AllRules /\ o \in Rules[MaxDepth - 1] /\ o.relation = "" /\ (o.compound => Shallow(o) /\ ~o.negated)
               /\ o.compound => Len(o.parts) \in Nat \ {0} /\ o.parts[1].relation = ""
               /\ FlattenRule(o) = IF o.compound THEN o.parts ELSE <<o>>
               /\ ~o.compound => ~IsEnvOrModel(o)
               /\ o.compound => \A i \in 1..Len(o.parts) : ~IsEnvOrModel(o.parts[i])
<1> DEFINE o == b.opt[1]
<1>1. Flattens(b) /\ b.opt \in Seq(OptionalRules) /\ 1 \in DOMAIN b.opt
  BY DEF GoodBean
<1>2. o \in OptionalRules
  BY <1>1
<1>3. o \in AllRules /\ o \in Rules[MaxDepth - 1] /\ (o.compound => Shallow(o) /\ ~o.negated)
  BY <1>1, OptFlat
<1>4. o.relation = "" /\ (o.compound => o.parts # <<>> /\ o.parts[1].relation = "")
  BY <1>2 DEF OptionalRules
<1>5. \A c \in Range(ToConditions(o)) : ~(c.type = "STRING" /\ c.name \in {"env", "model"})
  BY <1>1 DEF GoodBean
<1> HIDE DEF o
<1>6. o.parts \in Seq(AllRules) /\ Len(o.parts) \in Nat /\ DOMAIN o.parts = 1..Len(o.parts)
  BY <1>3, RuleParts
<1>7. o.compound => Len(o.parts) # 0
  <2> DEFINE s == o.parts
  <2>1. s \in Seq(AllRules) /\ (Len(s) = 0 => s = <<>>)
    BY <1>6
  <2> HIDE DEF s
  <2>2. QED BY <1>4, <2>1 DEF s
<1>8. FlattenRule(o) = IF o.compound THEN o.parts ELSE <<o>>
  BY <1>3, FlattenShallow, FlattenLeaf
<1>9. ASSUME ~o.compound PROVE ~IsEnvOrModel(o)
  <2>1. ToConditions(o) = CondsOf(<<o>>)
    BY <1>8, <1>9, ConditionsAre
  <2>2. CondsOf(<<o>>) = <<o.cond>>
    BY CondsOfFew
  <2>3. o.cond \in Range(<<o.cond>>)
    <3>1. 1 \in DOMAIN <<o.cond>> /\ <<o.cond>>[1] = o.cond
      OBVIOUS
    <3>2. QED BY <3>1 DEF Range
  <2>4. QED BY <1>5, <2>1, <2>2, <2>3 DEF IsEnvOrModel
<1>10. ASSUME o.compound, NEW i \in 1..Len(o.parts) PROVE ~IsEnvOrModel(o.parts[i])
  <2>1. ToConditions(o) = CondsOf(o.parts)
    BY <1>8, <1>10, ConditionsAre
  <2>2. DOMAIN CondsOf(o.parts) = 1..Len(o.parts)
    BY <1>6, CondsType
  <2>3. CondsOf(o.parts)[i] = o.parts[i].cond
    BY <1>6 DEF CondsOf
  <2>4. o.parts[i].cond \in Range(ToConditions(o))
    BY <2>1, <2>2, <2>3 DEF Range
  <2>5. QED BY <1>5, <2>4 DEF IsEnvOrModel
<1>11. QED BY <1>3, <1>4, <1>6, <1>7, <1>8, <1>9, <1>10 DEF o

LEMMA ReadOptional ==
    ASSUME NEW b, GoodBean(b)
    PROVE  OptionalOf(FlattenRule(BeanRule(b))) = ReadOpt(b) /\ OptList(OptParts(b))
<1> DEFINE P == EnvParts(b)
           Q == OptParts(b)
<1>1. Flattens(b) /\ b.env \in STRING /\ b.model \in STRING
  BY DEF GoodBean, Flattens
<1>2. LeafParts(P) /\ \A i \in 1..Len(P) : IsEnvOrModel(P[i])
  BY <1>1, EnvPartsFacts
<1>3. P \in Seq(AllRules) /\ FlattenRule(BeanRule(b)) = P \o Q
  BY <1>1, <1>2, FlattenBean DEF LeafParts
<1> HIDE DEF P
<1>4. ASSUME NEW F, OptList(Q), Unjoined(Q, F) PROVE OptionalOf(FlattenRule(BeanRule(b))) = OptionalUpTo(F, Len(Q))
  <2> HIDE DEF Q
  <2>1. QED BY <1>2, <1>3, <1>4, OptionalParts
<1>5. CASE b.opt = <<>>
  <2>1. Q = <<>> /\ ReadOpt(b) = <<>>
    BY <1>5 DEF OptParts, ReadOpt
  <2>2. Len(<<>>) = 0 /\ <<>> \in Seq(AllRules) /\ 1..0 = {} /\ 2..0 = {}
    OBVIOUS
  <2> HIDE DEF Q
  <2>3. OptList(Q) /\ Unjoined(Q, <<>>)
    BY <2>1, <2>2 DEF OptList, Unjoined
  <2>4. OptionalUpTo(<<>>, Len(Q)) = <<>>
    <3>1. Len(Q) <= 0
      BY <2>1, <2>2
    <3>2. QED BY <3>1 DEF OptionalUpTo
  <2>5. QED BY <1>4, <2>1, <2>3, <2>4 DEF Q
<1>6. CASE b.opt # <<>>
  <2> DEFINE o == b.opt[1]
             q == RelatedBy(o, "AND")
  <2>1. /\ o \in AllRules /\ o \in Rules[MaxDepth - 1] /\ o.relation = "" /\ (o.compound => Shallow(o) /\ ~o.negated)
        /\ o.compound => Len(o.parts) \in Nat \ {0} /\ o.parts[1].relation = ""
        /\ ~o.compound => ~IsEnvOrModel(o)
        /\ o.compound => \A i \in 1..Len(o.parts) : ~IsEnvOrModel(o.parts[i])
    BY <1>6, OptFacts
  <2>2. Q = (IF o.compound THEN o.parts ELSE <<q>>)
    BY <1>6 DEF OptParts
  <2>3. ReadOpt(b) = IF ~o.compound THEN <<o>> ELSE IF Len(o.parts) = 1 THEN <<o.parts[1]>> ELSE <<Compound(o.parts)>>
    BY <1>6 DEF ReadOpt
  <2>4. q \in AllRules /\ q.relation = "AND" /\ q.compound = o.compound /\ q.cond = o.cond
    BY <2>1, RelatedFields
  <2>5. RelatedBy(q, "") = o
    BY <2>1, SameRelation
  <2> HIDE DEF o, q, Q
  <2>6. CASE ~o.compound
    <3>1. Q = <<q>>
      BY <2>2, <2>6
    <3>2. <<q>> \in Seq(AllRules) /\ <<o>> \in Seq(AllRules)
      <4>1. o \in AllRules /\ q \in AllRules
        BY <2>1, <2>4
      <4>2. QED BY ONLY <4>1
    <3>3. Len(<<q>>) = 1 /\ Len(<<o>>) = 1 /\ 1..1 = {1} /\ 2..1 = {} /\ <<q>>[1] = q /\ <<o>>[1] = o
      OBVIOUS
    <3>4. ~IsEnvOrModel(q)
      BY <2>1, <2>4, <2>6 DEF IsEnvOrModel
    <3>5. OptList(Q)
      BY <2>4, <2>6, <3>1, <3>2, <3>3, <3>4 DEF OptList
    <3>6. Unjoined(Q, <<o>>)
      BY <2>5, <3>1, <3>2, <3>3 DEF Unjoined
    <3>7. OptionalUpTo(<<o>>, Len(Q)) = <<o>>
      <4>1. Len(Q) = 1 /\ ~(1 <= 0)
        BY <3>1, <3>3
      <4>2. QED BY <3>3, <4>1 DEF OptionalUpTo
    <3>8. QED BY <1>4, <2>3, <2>6, <3>5, <3>6, <3>7 DEF Q
  <2>7. CASE o.compound
    <3>1. Q = o.parts /\ Len(Q) \in Nat /\ Len(Q) # 0 /\ Q[1].relation = ""
      BY <2>1, <2>2, <2>7
    <3>2. LeafParts(o.parts)
      BY <2>1, <2>7, ShallowParts
    <3>3. o.parts \in Seq(AllRules) /\ DOMAIN o.parts = 1..Len(o.parts) /\ \A i \in 2..Len(o.parts) : o.parts[i].relation \in {"AND", "OR"}
      BY <2>1, RuleParts
    <3>4. OptList(Q)
      BY <2>1, <2>7, <3>1, <3>2, <3>3 DEF OptList, LeafParts
    <3>5. Q[1] \in AllRules
      <4>1. 1 \in 1..Len(Q)
        <5> DEFINE m == Len(Q)
        <5>1. m \in Nat /\ m # 0
          BY <3>1
        <5> HIDE DEF m
        <5>2. QED BY <5>1 DEF m
      <4>11. Q \in Seq(AllRules)
        BY <3>1, <3>3
      <4>2. QED BY <4>1, <4>11
    <3>6. RelatedBy(Q[1], "") = Q[1]
      BY <3>1, <3>5, SameRelation
    <3>7. Unjoined(Q, Q)
      BY <3>1, <3>3, <3>6 DEF Unjoined
    <3>8. OptionalOf(FlattenRule(BeanRule(b))) = OptionalUpTo(Q, Len(Q))
      BY <1>4, <3>4, <3>7
    <3>9. ~(Len(Q) <= 0)
      <4> DEFINE m == Len(Q)
      <4>1. m \in Nat /\ m # 0
        BY <3>1
      <4> HIDE DEF m
      <4>2. QED BY <4>1 DEF m
    <3>10. Prefix(Q, Len(Q)) = Q
      BY <3>1, <3>3, PrefixFacts
    <3>11. OptionalUpTo(Q, Len(Q)) = IF Len(Q) = 1 THEN <<Q[1]>> ELSE <<Compound(Q)>>
      BY <3>9, <3>10 DEF OptionalUpTo
    <3>12. OptionalOf(FlattenRule(BeanRule(b))) = ReadOpt(b)
      BY <2>3, <2>7, <3>1, <3>8, <3>11
    <3>13. QED BY <3>4, <3>12 DEF Q
  <2>8. QED BY <2>6, <2>7
<1>7. QED BY <1>5, <1>6

(* The conditions that ParseEnvModelRule takes for a value.                *)
Gives(c, name) == On(c, name) /\ c.op = "IS"

LEMMA GivenValue ==
    ASSUME NEW P \in Seq(AllRules), NEW Q, OptList(Q), NEW name \in {"env", "model"}, NEW cs, cs = CondsOf(P \o Q)
    PROVE  /\ {i \in DOMAIN cs : Gives(cs[i], name)} = {i \in 1..Len(P) : Gives(P[i].cond, name)}
           /\ \A i \in 1..Len(P) : cs[i] = P[i].cond
<1> DEFINE p == Len(P)
           q == Len(Q)
           rs == P \o Q
<1>0. Q \in Seq(AllRules)
  BY DEF OptList
<1>1. p \in Nat /\ q \in Nat /\ Len(rs) = p + q /\ (\A i \in 1..(p + q) : rs[i] = IF i <= p THEN P[i] ELSE Q[i - p]) /\ rs \in Seq(AllRules)
  BY <1>0, SeqFacts
<1> HIDE DEF rs, p, q
<1>2. DOMAIN cs = 1..(p + q) /\ \A i \in 1..(p + q) : cs[i] = rs[i].cond
  <2>1. DOMAIN rs = 1..(p + q)
    BY <1>1, SeqFacts
  <2>2. cs = [i \in 1..(p + q) |-> rs[i].cond]
    BY <2>1 DEF CondsOf, rs
  <2>3. QED BY <2>2
<1>3. ASSUME NEW i \in 1..p PROVE i \in 1..(p + q) /\ cs[i] = P[i].cond
  <2>1. i \in 1..(p + q) /\ i <= p
    BY <1>1
  <2>2. QED BY <1>1, <1>2, <2>1
<1>4. ASSUME NEW i \in 1..(p + q), i \notin 1..p PROVE ~Gives(cs[i], name)
  <2>1. ~(i <= p) /\ i - p \in 1..q
    BY <1>1, <1>4
  <2>2. cs[i] = Q[i - p].cond
    BY <1>1, <1>2, <2>1
  <2>3. ~IsEnvOrModel(Q[i - p])
    BY <2>1 DEF OptList, q
  <2>4. QED BY <2>2, <2>3 DEF IsEnvOrModel, Gives, On
<1>5. {i \in DOMAIN cs : Gives(cs[i], name)} = {i \in 1..p : Gives(P[i].cond, name)}
  BY <1>2, <1>3, <1>4
<1>6. QED BY <1>3, <1>5 DEF p

LEMMA ReadNames ==
    ASSUME NEW b, GoodBean(b)
    PROVE  LET m == ParseEnvModelRule(BeanRule(b)) IN m.env = b.env /\ m.model = b.model /\ m.opt = ReadOpt(b)
<1> DEFINE P == EnvParts(b)
           Q == OptParts(b)
           r == BeanRule(b)
           cs == ToConditions(r)
           I(name) == {i \in DOMAIN cs : On(cs[i], name) /\ cs[i].op = "IS"}
           x == IsText("env", b.env)
           y0 == IsText("model", b.model)
           y == RelatedBy(y0, "AND")
<1>1. Flattens(b) /\ b.env \in STRING /\ b.model \in STRING
  BY DEF GoodBean, Flattens
<1>2. LeafParts(P)
  BY <1>1, EnvPartsFacts
<1>3. P \in Seq(AllRules) /\ FlattenRule(r) = P \o Q
  BY <1>1, <1>2, FlattenBean DEF LeafParts
<1>4. OptList(Q) /\ OptionalOf(FlattenRule(r)) = ReadOpt(b)
  BY ReadOptional
<1>5. cs = CondsOf(P \o Q)
  BY <1>3, ConditionsAre
<1>6. LET m == ParseEnvModelRule(r) IN m.env = LastOf(cs, I("env")) /\ m.model = LastOf(cs, I("model")) /\ m.opt = OptionalOf(FlattenRule(r))
  BY DEF ParseEnvModelRule
<1>7. P = IF b.env # Empty THEN <<x, y>> ELSE <<y0>>
  BY DEF EnvParts
<1>8. "env" \in STRING /\ "model" \in STRING
  BY WordsOK
<1>9. Carries(x, "STRING", "env", "IS", Str(b.env)) /\ Carries(y0, "STRING", "model", "IS", Str(b.model))
  BY <1>1, <1>8, TextCarries
<1> HIDE DEF P, Q, r, cs, x, y0
<1>10. Carries(y, "STRING", "model", "IS", Str(b.model))
  BY <1>9, CarriedBy
<1> HIDE DEF y
<1>11. /\ x.cond.op = "IS" /\ x.cond.fixed.str = b.env /\ On(x.cond, "env") /\ ~On(x.cond, "model")
       /\ y.cond.op = "IS" /\ y.cond.fixed.str = b.model /\ On(y.cond, "model") /\ ~On(y.cond, "env")
       /\ y0.cond.op = "IS" /\ y0.cond.fixed.str = b.model /\ On(y0.cond, "model") /\ ~On(y0.cond, "env")
  <2>1. x.cond.op = "IS" /\ x.cond.fixed.str = b.env /\ On(x.cond, "env") /\ ~On(x.cond, "model")
    BY <1>9, TextOf
  <2>2. y.cond.op = "IS" /\ y.cond.fixed.str = b.model /\ On(y.cond, "model") /\ ~On(y.cond, "env")
    BY <1>10, TextOf
  <2>3. y0.cond.op = "IS" /\ y0.cond.fixed.str = b.model /\ On(y0.cond, "model") /\ ~On(y0.cond, "env")
    BY <1>9, TextOf
  <2>4. QED BY <2>1, <2>2, <2>3
<1>12. /\ I("env") = {i \in 1..Len(P) : Gives(P[i].cond, "env")}
       /\ I("model") = {i \in 1..Len(P) : Gives(P[i].cond, "model")}
       /\ \A i \in 1..Len(P) : cs[i] = P[i].cond
  <2>1. I("env") = {i \in DOMAIN cs : Gives(cs[i], "env")} /\ I("model") = {i \in DOMAIN cs : Gives(cs[i], "model")}
    BY DEF Gives
  <2>2. QED BY <1>3, <1>4, <1>5, <2>1, GivenValue
<1>13. Max({1}) = 1 /\ Max({2}) = 2
  BY MaxIs
<1>14. LastOf(cs, I("env")) = b.env /\ LastOf(cs, I("model")) = b.model
  <2>1. CASE b.env # Empty
    <3>1. Len(P) = 2 /\ P[1] = x /\ P[2] = y /\ 1..2 = {1, 2}
      BY <1>7, <2>1
    <3>2. I("env") = {1} /\ I("model") = {2}
      BY <1>11, <1>12, <3>1 DEF Gives
    <3>3. cs[1] = x.cond /\ cs[2] = y.cond
      BY <1>12, <3>1
    <3> HIDE DEF I
    <3>4. QED BY <1>11, <1>13, <3>2, <3>3 DEF LastOf
  <2>2. CASE b.env = Empty
    <3>1. Len(P) = 1 /\ P[1] = y0 /\ 1..1 = {1}
      BY <1>7, <2>2
    <3>2. I("env") = {} /\ I("model") = {1}
      BY <1>11, <1>12, <3>1 DEF Gives
    <3>3. cs[1] = y0.cond
      BY <1>12, <3>1
    <3> HIDE DEF I
    <3>4. QED BY <1>11, <1>13, <2>2, <3>2, <3>3 DEF LastOf
  <2>3. QED BY <2>1, <2>2
<1>15. QED BY <1>4, <1>6, <1>14 DEF r

LEMMA OneOf == ASSUME NEW R, NEW r \in R PROVE <<r>> \in Seq(R)
OBVIOUS

(* The conditions that are read select what those that were saved select.  *)
LEMMA ReadOptHolds ==
    ASSUME NEW b, GoodBean(b)
    PROVE  /\ ReadOpt(b) \in Seq(Rules[MaxDepth - 1])
           /\ ReadOpt(b) = <<>> <=> b.opt = <<>>
           /\ b.opt # <<>> => /\ FlattenRule(ReadOpt(b)[1]) = FlattenRule(b.opt[1])
                              /\ ReadOpt(b)[1].compound => Shallow(ReadOpt(b)[1]) /\ ~ReadOpt(b)[1].negated
                              /\ \A ctx : Evaluate(ReadOpt(b)[1], ctx) = Evaluate(b.opt[1], ctx)
<1>1. CASE b.opt = <<>>
  <2>1. ReadOpt(b) = <<>>
    BY <1>1 DEF ReadOpt
  <2>2. <<>> \in Seq(Rules[MaxDepth - 1])
    BY EmptySeq
  <2>3. QED BY <1>1, <2>1, <2>2
<1>2. CASE b.opt # <<>>
  <2> DEFINE o == b.opt[1]
             D == MaxDepth - 1
  <2>1. /\ o \in AllRules /\ o \in Rules[D] /\ o.relation = "" /\ (o.compound => Shallow(o) /\ ~o.negated)
        /\ o.compound => Len(o.parts) \in Nat \ {0} /\ o.parts[1].relation = ""
        /\ FlattenRule(o) = IF o.compound THEN o.parts ELSE <<o>>
    BY <1>2, OptFacts
  <2>2. ReadOpt(b) = IF ~o.compound THEN <<o>> ELSE IF Len(o.parts) = 1 THEN <<o.parts[1]>> ELSE <<Compound(o.parts)>>
    BY <1>2 DEF ReadOpt
  <2> HIDE DEF o
  <2>3. SUFFICES ASSUME NEW x, ReadOpt(b) = <<x>>
                 PROVE  /\ x \in Rules[D] /\ FlattenRule(x) = FlattenRule(o) /\ (x.compound => Shallow(x) /\ ~x.negated)
                        /\ \A ctx : Evaluate(x, ctx) = Evaluate(o, ctx)
    <3>1. PICK x : ReadOpt(b) = <<x>>
      BY <2>2
    <3>2. /\ x \in Rules[D] /\ FlattenRule(x) = FlattenRule(o) /\ (x.compound => Shallow(x) /\ ~x.negated)
          /\ \A ctx : Evaluate(x, ctx) = Evaluate(o, ctx)
      BY <2>3, <3>1
    <3>3. <<x>> # <<>> /\ <<x>>[1] = x
      OBVIOUS
    <3>4. <<x>> \in Seq(Rules[D])
      <4>1. x \in Rules[D]
        BY <3>2
      <4>2. QED BY <4>1, OneOf
    <3>5. QED BY <1>2, <3>1, <3>2, <3>3, <3>4 DEF o
  <2>4. CASE ~o.compound
    <3>1. x = o
      BY <2>2, <2>3, <2>4
    <3>2. QED BY <2>1, <2>4, <3>1
  <2>5. CASE o.compound
    <3>1. D \in 0..MaxDepth /\ D \in 1..MaxDepth /\ D # 0 /\ 0 \in Nat /\ 0 <= D
      BY DepthOK
    <3> HIDE DEF D
    <3>2. o.parts \in Joined(Rules[D - 1])
      BY <2>1, <3>1, LevelParts
    <3>3. o.parts \in Seq(AllRules) /\ Len(o.parts) \in Nat /\ DOMAIN o.parts = 1..Len(o.parts) /\ o.parts # <<>>
      <4>1. o.parts \in Seq(AllRules) /\ Len(o.parts) \in Nat /\ DOMAIN o.parts = 1..Len(o.parts)
        BY <2>1, RuleParts
      <4>2. o.parts # <<>>
        <5>1. Len(<<>>) = 0
          OBVIOUS
        <5>2. QED BY <2>1, <2>5, <5>1
      <4>3. QED BY <4>1, <4>2
    <3>4. Shallow(o) /\ o.negated = FALSE
      BY <2>1, <2>5, RuleParts
    <3>5. LeafParts(o.parts)
      BY <3>4, ShallowParts
    <3>6. \A ctx : Evaluate(o, ctx) = (EvaluateParts(o.parts, Holds(o, ctx)) # FALSE)
      BY <2>1, <2>5, <3>4, EvaluateUnfolds DEF Holds
    <3>7. CASE Len(o.parts) = 1
      <4>1. x = o.parts[1]
        BY <2>2, <2>3, <2>5, <3>7
      <4>2. x \in AllRules /\ ~x.compound
        BY <3>3, <3>5, <3>7, <4>1 DEF LeafParts
      <4>3. x \in Rules[D]
        BY <3>1, <4>2, LeafLevel, LevelsGrow
      <4>4. FlattenRule(x) = <<x>>
        BY <4>2, FlattenLeaf
      <4>5. o.parts = <<x>>
        <5> DEFINE s == o.parts
        <5>1. s \in Seq(AllRules) /\ Len(s) = 1
          BY <3>3, <3>7
        <5> HIDE DEF s
        <5>2. s = <<s[1]>>
          BY <5>1
        <5>3. QED BY <4>1, <5>2 DEF s
      <4>6. ASSUME NEW ctx PROVE Evaluate(x, ctx) = Evaluate(o, ctx)
        <5>1. Holds(o, ctx) \in [1..Len(o.parts) -> BOOLEAN]
          BY <2>1, HoldsType
        <5>2. EvaluateParts(o.parts, Holds(o, ctx)) = Holds(o, ctx)[1]
          BY <3>7, <5>1, OneHolds
        <5>3. Holds(o, ctx)[1] = Evaluate(x, ctx)
          BY <3>3, <3>7, <4>1 DEF Holds
        <5>4. Evaluate(x, ctx) \in BOOLEAN /\ Evaluate(o, ctx) \in BOOLEAN
          BY <2>1, <4>2, EvaluateUnfolds
        <5>5. Evaluate(o, ctx) = (Evaluate(x, ctx) # FALSE)
          BY <3>6, <5>2, <5>3
        <5>6. Evaluate(o, ctx) <=> Evaluate(x, ctx)
          BY <5>4, <5>5
        <5>7. QED BY <5>4, <5>6, BooleansEqual
      <4>7. QED BY <2>1, <2>5, <4>2, <4>3, <4>4, <4>5, <4>6
    <3>8. CASE Len(o.parts) # 1
      <4>1. x = Compound(o.parts)
        BY <2>2, <2>3, <2>5, <3>8
      <4>2. Shallow(x) /\ x.parts = o.parts /\ ~x.negated /\ x.compound
        BY <3>5, <4>1, MakeShallow
      <4>3. x \in Rules[D]
        <5> DEFINE c == Cond("", "", "", NoArg)
        <5>1. c \in AllConditions
          BY NoArgType
        <5>2. x = [compound |-> TRUE, negated |-> FALSE, relation |-> "", cond |-> c, parts |-> o.parts]
          BY <4>1 DEF Compound
        <5> HIDE DEF c
        <5>3. QED BY <3>1, <3>2, <5>1, <5>2, MakeRule
      <4>4. FlattenRule(x) = o.parts
        BY <4>2, FlattenShallow
      <4>5. ASSUME NEW ctx PROVE Evaluate(x, ctx) = Evaluate(o, ctx)
        <5>1. x \in AllRules /\ x.negated = FALSE
          BY <4>2, RuleParts DEF Shallow
        <5>2. Evaluate(x, ctx) = (EvaluateParts(x.parts, Holds(x, ctx)) # FALSE)
          BY <4>2, <5>1, EvaluateUnfolds DEF Holds
        <5>3. Holds(x, ctx) = Holds(o, ctx)
          BY <4>2 DEF Holds
        <5>4. QED BY <3>6, <4>2, <5>2, <5>3
      <4>6. QED BY <2>1, <2>5, <4>2, <4>3, <4>4, <4>5
    <3>9. QED BY <3>7, <3>8
  <2>6. QED BY <2>4, <2>5
<1>3. QED BY <1>1, <1>2

-----------------------------------------------------------------------------
(* Distributions.                                                          *)
LEMMA TotalsLoop ==
    ASSUME NEW w \in Seq(Int)
    PROVE  /\ Totals(w) \in [0..Len(w) -> Int] /\ Totals(w)[0] = 0
           /\ \A i \in 1..Len(w) : Totals(w)[i] = Totals(w)[i - 1] + w[i]
<1> DEFINE n == Len(w)
           X == Int
           step == [i \in 1..n |-> [x \in X |-> x + w[i]]]
           Is(f) == f = [i \in 0..n |-> IF i = 0 THEN 0 ELSE f[i - 1] + w[i]]
<1>0. n \in Nat /\ 0 \in X /\ \A i \in 1..n : w[i] \in Int
  BY SeqFacts
<1>2. Steps(n, X, step)
  BY <1>0 DEF Steps
<1>3. PICK g : IsLoop(g, n, X, 0, step)
  <2> HIDE DEF step, X
  <2>1. QED BY <1>0, <1>2, LoopExists
<1>4. g \in [0..n -> X] /\ g[0] = 0 /\ \A i \in 1..n : g[i] = step[i][g[i - 1]]
  BY <1>3 DEF IsLoop
<1>5. ASSUME NEW i \in 1..n PROVE g[i] = g[i - 1] + w[i]
  <2>1. i - 1 \in 0..n
    BY <1>0
  <2>2. g[i - 1] \in X
    BY <1>4, <2>1
  <2> HIDE DEF X
  <2>3. QED BY <1>4, <2>2
<1> HIDE DEF step, X, n
<1>6. Is(g)
  <2>1. ASSUME NEW i \in 0..n PROVE g[i] = IF i = 0 THEN 0 ELSE g[i - 1] + w[i]
    <3>1. CASE i = 0
      BY <1>4, <3>1
    <3>2. CASE i # 0
      <4>1. i \in 1..n
        BY <1>0, <3>2, FirstOrLater
      <4>2. QED BY <1>5, <3>2, <4>1
    <3>3. QED BY <3>1, <3>2
  <2>2. QED BY <1>4, <2>1
<1>7. PICK f : Is(f) /\ Totals(w) = f
  BY <1>6 DEF Totals, n
<1>8. \A i \in 0..n : f[i] = g[i]
  <2>1. f[0] = g[0]
    BY <1>0, <1>4, <1>7
  <2>2. ASSUME NEW i \in 1..n, f[i - 1] = g[i - 1] PROVE f[i] = g[i]
    <3>1. i \in 0..n /\ i # 0
      BY <1>0
    <3>2. f[i] = f[i - 1] + w[i]
      BY <1>7, <3>1
    <3>3. QED BY <1>5, <2>2, <3>2
  <2>3. SameSteps(n, f, g)
    BY <2>1, <2>2 DEF SameSteps
  <2>4. QED BY <1>0, <2>3, LoopUnique
<1>9. f = g
  <2>1. f = [i \in 0..n |-> f[i]]
    BY <1>7
  <2>2. g = [i \in 0..n |-> g[i]]
    BY <1>4
  <2>3. QED BY <1>8, <2>1, <2>2
<1>10. QED BY <1>4, <1>5, <1>7, <1>9 DEF n, X

WidthsOf(es) == [i \in DOMAIN es |-> Width(es[i])]
Placed(e, start) == IF NoRange(e) THEN [e EXCEPT !.start = start, !.end = start + e.percentage] ELSE e

LEMMA EntryFields ==
    ASSUME NEW e \in ConfigEntries
    PROVE  /\ e.config \in STRING /\ e.percentage \in Int /\ e.start \in Int /\ e.end \in Int /\ e.paused \in BOOLEAN
           /\ Width(e) \in Int
BY DEF ConfigEntries, Width

LEMMA PlacedEntry ==
    ASSUME NEW e \in ConfigEntries, NEW t \in Int, NEW u \in Int
    PROVE  [e EXCEPT !.start = t, !.end = u] =
             [config |-> e.config, percentage |-> e.percentage, start |-> t, end |-> u, paused |-> e.paused]
<1>1. e = [config |-> e.config, percentage |-> e.percentage, start |-> e.start, end |-> e.end, paused |-> e.paused]
  BY DEF ConfigEntries
<1> DEFINE x == [e EXCEPT !.start = t, !.end = u]
<1>2. x = [e EXCEPT !.start = t, !.end = u]
  OBVIOUS
<1> HIDE DEF x
<1>3. x = [config |-> e.config, percentage |-> e.percentage, start |-> t, end |-> u, paused |-> e.paused]
  BY <1>1, <1>2
<1>4. QED BY <1>3 DEF x

LEMMA PlacedFacts ==
    ASSUME NEW e \in ConfigEntries, NEW t \in Int
    PROVE  /\ Placed(e, t) \in ConfigEntries /\ Width(Placed(e, t)) = Width(e)
           /\ Placed(Placed(e, t), t) = Placed(e, t)
           /\ Placed(e, t).config = e.config /\ Placed(e, t).percentage = e.percentage
           /\ NoRange(e) => Placed(e, t).start = t /\ Placed(e, t).end = t + e.percentage
<1> DEFINE x == Placed(e, t)
<1>1. e.config \in STRING /\ e.percentage \in Int /\ e.start \in Int /\ e.end \in Int /\ e.paused \in BOOLEAN
  BY EntryFields
<1>2. CASE ~NoRange(e)
  <2>1. x = e
    BY <1>2 DEF Placed
  <2>2. QED BY <1>2, <2>1
<1>3. CASE NoRange(e)
  <2>0. x = [e EXCEPT !.start = t, !.end = t + e.percentage]
    BY <1>3 DEF Placed
  <2>01. e = [config |-> e.config, percentage |-> e.percentage, start |-> e.start, end |-> e.end, paused |-> e.paused]
    BY DEF ConfigEntries
  <2>1. x = [config |-> e.config, percentage |-> e.percentage, start |-> t, end |-> t + e.percentage, paused |-> e.paused]
    BY <2>0, <2>01
  <2>2. t + e.percentage \in Int /\ (t + e.percentage) - t = e.percentage
    BY <1>1
  <2> HIDE DEF x
  <2>3. x \in ConfigEntries
    BY <1>1, <2>1, <2>2 DEF ConfigEntries
  <2>4. x.config = e.config /\ x.percentage = e.percentage /\ x.start = t /\ x.end = t + e.percentage
    BY <2>1
  <2>5. Width(x) = e.percentage /\ Width(e) = e.percentage
    BY <1>3, <2>2, <2>4 DEF Width
  <2>6. Placed(x, t) = x
    <3>1. [x EXCEPT !.start = t, !.end = t + x.percentage] = x
      <4> DEFINE u == t + e.percentage
      <4>1. x = [config |-> e.config, percentage |-> e.percentage, start |-> t, end |-> u, paused |-> e.paused]
        BY <2>1
      <4>2. t + x.percentage = u
        BY <2>4
      <4> HIDE DEF u
      <4>30. x = [config |-> x.config, percentage |-> x.percentage, start |-> x.start, end |-> x.end, paused |-> x.paused]
        BY <2>3 DEF ConfigEntries
      <4>31. [x EXCEPT !.start = t, !.end = u] =
               [config |-> x.config, percentage |-> x.percentage, start |-> t, end |-> u, paused |-> x.paused]
        BY <2>2, <2>3, PlacedEntry DEF u
      <4>3. [x EXCEPT !.start = t, !.end = u] = x
        BY <2>4, <4>30, <4>31 DEF u
      <4>4. QED BY <4>2, <4>3
    <3>2. QED BY <3>1 DEF Placed
  <2>7. QED BY <2>3, <2>4, <2>5, <2>6 DEF x
<1>4. QED BY <1>2, <1>3

LEMMA RangesAre ==
    ASSUME NEW es \in Seq(ConfigEntries)
    PROVE  LET T == Totals(WidthsOf(es))
               cs == ConvertIntoPercentRange(es)
           IN  /\ WidthsOf(es) \in Seq(Int) /\ Len(WidthsOf(es)) = Len(es)
               /\ T \in [0..Len(es) -> Int] /\ T[0] = 0 /\ \A i \in 1..Len(es) : T[i] = T[i - 1] + Width(es[i])
               /\ cs \in Seq(ConfigEntries) /\ Len(cs) = Len(es) /\ DOMAIN cs = 1..Len(es)
               /\ \A i \in 1..Len(es) : cs[i] = Placed(es[i], T[i - 1]) /\ T[i - 1] \in Int
               /\ WidthsOf(cs) = WidthsOf(es)
<1> DEFINE n == Len(es)
           w == WidthsOf(es)
           T == Totals(w)
           cs == ConvertIntoPercentRange(es)
<1>1. n \in Nat /\ DOMAIN es = 1..n /\ \A i \in 1..n : es[i] \in ConfigEntries
  BY SeqFacts
<1>2. w \in [1..n -> Int] /\ \A i \in 1..n : w[i] = Width(es[i])
  BY <1>1, EntryFields DEF WidthsOf
<1>3. w \in Seq(Int) /\ Len(w) = n
  <2> HIDE DEF w
  <2>1. QED BY <1>1, <1>2, SeqDef
<1>4. T \in [0..n -> Int] /\ T[0] = 0 /\ \A i \in 1..n : T[i] = T[i - 1] + w[i]
  <2> HIDE DEF w
  <2>1. QED BY <1>3, TotalsLoop
<1>5. cs = [i \in 1..n |-> Placed(es[i], T[i - 1])]
  BY <1>1 DEF ConvertIntoPercentRange, WidthsOf, Placed
<1> HIDE DEF T, cs, w, n
<1>6. ASSUME NEW i \in 1..n PROVE T[i - 1] \in Int
  <2>1. i - 1 \in 0..n
    BY <1>1
  <2>2. QED BY <1>4, <2>1
<1>7. ASSUME NEW i \in 1..n PROVE cs[i] \in ConfigEntries /\ Width(cs[i]) = Width(es[i]) /\ cs[i] = Placed(es[i], T[i - 1])
  BY <1>1, <1>5, <1>6, PlacedFacts
<1>8. cs \in [1..n -> ConfigEntries] /\ DOMAIN cs = 1..n
  BY <1>5, <1>7
<1>9. cs \in Seq(ConfigEntries) /\ Len(cs) = n
  BY <1>1, <1>8, SeqDef
<1>10. WidthsOf(cs) = w
  <2>1. WidthsOf(cs) = [i \in 1..n |-> Width(cs[i])]
    BY <1>8 DEF WidthsOf
  <2>2. w = [i \in 1..n |-> Width(es[i])]
    BY <1>1 DEF w, WidthsOf
  <2>3. QED BY <1>7, <2>1, <2>2
<1>11. QED BY <1>2, <1>3, <1>4, <1>6, <1>7, <1>8, <1>9, <1>10 DEF n, w, T, cs

LEMMA RangesOnce ==
    ASSUME NEW es \in Seq(ConfigEntries)
    PROVE  ConvertIntoPercentRange(ConvertIntoPercentRange(es)) = ConvertIntoPercentRange(es)
<1> DEFINE cs == ConvertIntoPercentRange(es)
           ds == ConvertIntoPercentRange(cs)
           T == Totals(WidthsOf(es))
           n == Len(es)
<1>1. /\ cs \in Seq(ConfigEntries) /\ Len(cs) = n /\ DOMAIN cs = 1..n /\ WidthsOf(cs) = WidthsOf(es)
      /\ \A i \in 1..n : cs[i] = Placed(es[i], T[i - 1]) /\ T[i - 1] \in Int
  BY RangesAre
<1>2. n \in Nat /\ \A i \in 1..n : es[i] \in ConfigEntries
  BY SeqFacts
<1>3. ds \in Seq(ConfigEntries) /\ DOMAIN ds = 1..n /\ \A i \in 1..n : ds[i] = Placed(cs[i], T[i - 1])
  <2> HIDE DEF cs
  <2>1. QED BY <1>1, RangesAre
<1> HIDE DEF cs, ds, T, n
<1>4. ASSUME NEW i \in 1..n PROVE ds[i] = cs[i]
  <2> DEFINE e == es[i]
             t == T[i - 1]
  <2>1. e \in ConfigEntries /\ t \in Int /\ cs[i] = Placed(e, t) /\ ds[i] = Placed(cs[i], t)
    BY <1>1, <1>2, <1>3
  <2> HIDE DEF e, t
  <2>2. Placed(Placed(e, t), t) = Placed(e, t)
    BY <2>1, PlacedFacts
  <2>3. QED BY <2>1, <2>2
<1>5. ds = [i \in 1..n |-> ds[i]] /\ cs = [i \in 1..n |-> cs[i]]
  BY <1>1, <1>3
<1>6. QED BY <1>4, <1>5 DEF ds, cs

-----------------------------------------------------------------------------
(* A bean read from its rule.                                              *)
ActionOf(active, check, reboot, whitelist, iv, config, entries, versions, account) ==
    [class |-> ".RuleAction", type |-> "RULE", config |-> config, entries |-> entries, active |-> active,
     check |-> check, reboot |-> reboot, account |-> account, whitelist |-> whitelist, iv |-> iv,
     versions |-> versions, regexs |-> {}, props |-> <<Empty, Empty, Empty>>]

LEMMA BeanAction ==
    ASSUME NEW b
    PROVE  LET a == ConvertPercentageBeanToFirmwareRule(b).action
           IN  /\ a = ActionOf(b.active, b.check, b.reboot, b.whitelist, b.iv, b.lkg, ConvertIntoPercentRange(b.dists), b.versions, b.account)
               /\ a.active = b.active /\ a.check = b.check /\ a.reboot = b.reboot /\ a.whitelist = b.whitelist /\ a.iv = b.iv
               /\ a.config = b.lkg /\ a.entries = ConvertIntoPercentRange(b.dists) /\ a.versions = b.versions /\ a.account = b.account
<1> DEFINE a == ConvertPercentageBeanToFirmwareRule(b).action
           es == ConvertIntoPercentRange(b.dists)
           n == NoAction
<1>1. a = [NoAction EXCEPT !.class = ".RuleAction", !.type = "RULE", !.active = b.active,
             !.check = b.check, !.reboot = b.reboot, !.whitelist = b.whitelist, !.iv = b.iv,
             !.config = b.lkg, !.entries = es, !.versions = b.versions, !.account = b.account]
  BY RuleFieldsOf DEF ConvertPercentageBeanToFirmwareRule
<1> HIDE DEF a, es
<1>2. a = ActionOf(b.active, b.check, b.reboot, b.whitelist, b.iv, b.lkg, es, b.versions, b.account)
  BY <1>1 DEF NoAction, ActionOf
<1>3. /\ a.active = b.active /\ a.check = b.check /\ a.reboot = b.reboot /\ a.whitelist = b.whitelist /\ a.iv = b.iv
      /\ a.config = b.lkg /\ a.entries = es /\ a.versions = b.versions /\ a.account = b.account
  BY <1>2 DEF ActionOf
<1>4. QED BY <1>2, <1>3 DEF a, es

LEMMA ReadFields ==
    ASSUME NEW fr
    PROVE  LET b == ConvertFirmwareRuleToPercentageBean(fr)
               m == ParseEnvModelRule(fr.rule)
               a == fr.action
           IN  /\ b.name = fr.name /\ b.app = fr.app /\ b.env = m.env /\ b.model = m.model /\ b.opt = m.opt
               /\ b.dists = ConvertIntoPercentRange(a.entries) /\ b.lkg = a.config /\ b.iv = a.iv /\ b.check = a.check
               /\ b.versions = a.versions /\ b.active = a.active /\ b.whitelist = a.whitelist /\ b.reboot = a.reboot
               /\ b.account = a.account
<1> DEFINE b == ConvertFirmwareRuleToPercentageBean(fr)
           m == ParseEnvModelRule(fr.rule)
           a == fr.action
           es == ConvertIntoPercentRange(a.entries)
           z == [name |-> fr.name, app |-> fr.app, env |-> m.env, model |-> m.model, opt |-> m.opt,
                 dists |-> <<>>, lkg |-> Empty, iv |-> Empty, check |-> FALSE, versions |-> {},
                 active |-> FALSE, whitelist |-> Empty, reboot |-> FALSE, account |-> FALSE]
<1>1. b = [z EXCEPT !.dists = es, !.lkg = a.config, !.iv = a.iv,
                 !.check = a.check, !.versions = a.versions, !.active = a.active,
                 !.whitelist = a.whitelist, !.reboot = a.reboot, !.account = a.account]
  BY DEF ConvertFirmwareRuleToPercentageBean, parseRuleAction
<1> HIDE DEF b, m, a, es
<1>2. b = [name |-> fr.name, app |-> fr.app, env |-> m.env, model |-> m.model, opt |-> m.opt,
                 dists |-> es, lkg |-> a.config, iv |-> a.iv, check |-> a.check, versions |-> a.versions,
                 active |-> a.active, whitelist |-> a.whitelist, reboot |-> a.reboot, account |-> a.account]
  BY <1>1
<1>3. /\ b.name = fr.name /\ b.app = fr.app /\ b.env = m.env /\ b.model = m.model /\ b.opt = m.opt
      /\ b.dists = es /\ b.lkg = a.config /\ b.iv = a.iv /\ b.check = a.check
      /\ b.versions = a.versions /\ b.active = a.active /\ b.whitelist = a.whitelist /\ b.reboot = a.reboot
      /\ b.account = a.account
  BY <1>2
<1>4. QED BY <1>3 DEF b, m, a, es

LEMMA GoodBeans ==
    ASSUME NEW b \in PercentageBeans, Validate(b), FlatConditions(b) PROVE GoodBean(b)
<1>1. /\ b.env \in STRING /\ b.model \in STRING /\ b.opt \in Seq(OptionalRules) /\ Len(b.opt) <= 1
      /\ b.opt \in Seq(Rules[MaxDepth - 1])
  BY BeanForms
<1>2. \A i \in DOMAIN b.opt : \A c \in Range(ToConditions(b.opt[i])) : ~(c.type = "STRING" /\ c.name \in {"env", "model"})
  BY DEF Validate
<1>3. QED BY <1>1, <1>2 DEF GoodBean, Flattens

ReadBean(b) == ConvertFirmwareRuleToPercentageBean(ConvertPercentageBeanToFirmwareRule(b))

LEMMA ReadBeanFields ==
    ASSUME NEW b, b.dists \in Seq(ConfigEntries)
    PROVE  LET c == ReadBean(b)
           IN  /\ c.name = b.name /\ c.app = b.app /\ c.lkg = b.lkg /\ c.iv = b.iv /\ c.check = b.check
               /\ c.versions = b.versions /\ c.active = b.active /\ c.whitelist = b.whitelist /\ c.reboot = b.reboot
               /\ c.account = b.account /\ c.dists = ConvertIntoPercentRange(b.dists)
               /\ GoodBean(b) => c.env = b.env /\ c.model = b.model /\ c.opt = ReadOpt(b)
<1> DEFINE fr == ConvertPercentageBeanToFirmwareRule(b)
           a == fr.action
           m == ParseEnvModelRule(fr.rule)
           c == ReadBean(b)
<1>1. fr.name = b.name /\ fr.app = b.app /\ fr.rule = BeanRule(b)
  BY BeanFields, BeanRuleOf
<1>2. /\ a.active = b.active /\ a.check = b.check /\ a.reboot = b.reboot /\ a.whitelist = b.whitelist /\ a.iv = b.iv
      /\ a.config = b.lkg /\ a.entries = ConvertIntoPercentRange(b.dists) /\ a.versions = b.versions /\ a.account = b.account
  BY BeanAction
<1>3. ReadBean(b) = ConvertFirmwareRuleToPercentageBean(fr)
  BY DEF ReadBean
<1> HIDE DEF fr
<1>4. /\ c.name = fr.name /\ c.app = fr.app /\ c.env = m.env /\ c.model = m.model /\ c.opt = m.opt
      /\ c.dists = ConvertIntoPercentRange(a.entries) /\ c.lkg = a.config /\ c.iv = a.iv /\ c.check = a.check
      /\ c.versions = a.versions /\ c.active = a.active /\ c.whitelist = a.whitelist /\ c.reboot = a.reboot
      /\ c.account = a.account
  BY <1>3, ReadFields
<1>5. ConvertIntoPercentRange(ConvertIntoPercentRange(b.dists)) = ConvertIntoPercentRange(b.dists)
  BY RangesOnce
<1>6. c.dists = ConvertIntoPercentRange(b.dists)
  BY <1>2, <1>4, <1>5
<1>7. GoodBean(b) => c.env = b.env /\ c.model = b.model /\ c.opt = ReadOpt(b)
  BY <1>1, <1>4, ReadNames
<1> HIDE DEF a, m, c
<1>8. QED BY <1>1, <1>2, <1>4, <1>6, <1>7 DEF c

LEMMA ReadAgain ==
    ASSUME NEW b \in PercentageBeans, GoodBean(b)
    PROVE  LET fr == ConvertPercentageBeanToFirmwareRule(b)
               again == ConvertPercentageBeanToFirmwareRule(ReadBean(b))
           IN  again.action = fr.action /\ \A ctx : Evaluate(again.rule, ctx) <=> Evaluate(fr.rule, ctx)
<1> DEFINE c == ReadBean(b)
           fr == ConvertPercentageBeanToFirmwareRule(b)
           again == ConvertPercentageBeanToFirmwareRule(c)
<1>0. /\ b.env \in STRING /\ b.model \in STRING /\ b.opt \in Seq(Rules[MaxDepth - 1]) /\ b.dists \in Seq(ConfigEntries)
  BY BeanForms
<1>1. /\ c.lkg = b.lkg /\ c.iv = b.iv /\ c.check = b.check
      /\ c.versions = b.versions /\ c.active = b.active /\ c.whitelist = b.whitelist /\ c.reboot = b.reboot
      /\ c.account = b.account /\ c.dists = ConvertIntoPercentRange(b.dists)
      /\ c.env = b.env /\ c.model = b.model /\ c.opt = ReadOpt(b)
  BY <1>0, ReadBeanFields
<1>2. ConvertIntoPercentRange(c.dists) = ConvertIntoPercentRange(b.dists)
  BY <1>0, <1>1, RangesOnce
<1>3. fr.rule = BeanRule(b) /\ again.rule = BeanRule(c)
  BY BeanRuleOf
<1>4. again.action = fr.action
  <2> HIDE DEF c
  <2>1. fr.action = ActionOf(b.active, b.check, b.reboot, b.whitelist, b.iv, b.lkg, ConvertIntoPercentRange(b.dists), b.versions, b.account)
    BY BeanAction
  <2>2. again.action = ActionOf(c.active, c.check, c.reboot, c.whitelist, c.iv, c.lkg, ConvertIntoPercentRange(c.dists), c.versions, c.account)
    BY BeanAction
  <2> HIDE DEF fr, again
  <2>3. QED BY <1>1, <1>2, <2>1, <2>2
<1> HIDE DEF c, fr, again
<1>5. /\ ReadOpt(b) \in Seq(Rules[MaxDepth - 1]) /\ (ReadOpt(b) = <<>> <=> b.opt = <<>>)
      /\ b.opt # <<>> => \A ctx : Evaluate(ReadOpt(b)[1], ctx) = Evaluate(b.opt[1], ctx)
  BY ReadOptHolds
<1>6. EnvModel(c) = EnvModel(b)
  BY <1>1 DEF EnvModel
<1>7. ASSUME NEW ctx PROVE Evaluate(BeanRule(c), ctx) <=> Evaluate(BeanRule(b), ctx)
  <2>1. Evaluate(BeanRule(b), ctx) <=> Evaluate(EnvModel(b), ctx) /\ (b.opt # <<>> => Evaluate(b.opt[1], ctx))
    BY <1>0, BeanRuleChain
  <2>2. c.env \in STRING /\ c.model \in STRING /\ c.opt \in Seq(Rules[MaxDepth - 1])
    BY <1>0, <1>1, <1>5
  <2>3. Evaluate(BeanRule(c), ctx) <=> Evaluate(EnvModel(c), ctx) /\ (c.opt # <<>> => Evaluate(c.opt[1], ctx))
    BY <2>2, BeanRuleChain
  <2>4. QED BY <1>1, <1>5, <1>6, <2>1, <2>3
<1>8. QED BY <1>3, <1>4, <1>7 DEF fr, again, c

LEMMA SavedBean ==
    ASSUME BeanInv, NEW id \in Saved, IsBean(id)
    PROVE  /\ Form(id) \in PercentageBeans /\ store[id] = ConvertPercentageBeanToFirmwareRule(Form(id)) /\ Validate(Form(id))
           /\ Kind(id) = "bean" => ValidateForAS(Form(id))
<1>1. SavedAs(store[id], posted[id])
  BY SavedSlot
<1>2. posted[id][1] \in {"bean", "lenient"}
  BY DEF IsBean, Kind
<1>3. IsStrict(store[id], posted[id]) \/ IsLenient(store[id], posted[id])
  BY <1>1, <1>2, KindsOf
<1>4. posted[id][1] = "bean" => IsStrict(store[id], posted[id])
  BY <1>1, KindsOf
<1>5. QED BY <1>3, <1>4 DEF IsStrict, IsLenient, Form, Kind, ValidateForAS

LEMMA ReadBackOK == BeanInv => ReadBackSelects
<1> SUFFICES ASSUME BeanInv, NEW id \in Saved, IsBean(id), FlatConditions(Form(id))
             PROVE  LET again == ConvertPercentageBeanToFirmwareRule(ConvertFirmwareRuleToPercentageBean(store[id]))
                    IN  /\ again.action = store[id].action
                        /\ \A ctx \in BeanContexts : Evaluate(again.rule, ctx) <=> Evaluate(store[id].rule, ctx)
  BY DEF ReadBackSelects
<1> DEFINE b == Form(id)
<1>1. b \in PercentageBeans /\ store[id] = ConvertPercentageBeanToFirmwareRule(b) /\ Validate(b)
  BY SavedBean
<1>2. GoodBean(b)
  BY <1>1, GoodBeans
<1> HIDE DEF b
<1>3. ConvertFirmwareRuleToPercentageBean(store[id]) = ReadBean(b)
  BY <1>1 DEF ReadBean
<1>4. QED BY <1>1, <1>2, <1>3, ReadAgain

LEMMA FormsAreRead == BeanInv => FormsReadBack
<1> SUFFICES ASSUME BeanInv PROVE FormsReadBack
  OBVIOUS
<1>1. ReadBackSelects
  BY ReadBackOK
<1>2. IpFormsReadBack
  BY IpFormsOK
<1>3. TimeFilterReadsBack
  BY TimeFilterOK
<1>4. ActivationReadsBack
  BY ActivationOK
<1>5. LocationReadsBack
  BY LocationOK
<1>6. GlobalKept
  BY GlobalOK
<1>7. MacRulesFound
  BY MacOK
<1>8. QED BY <1>1, <1>2, <1>3, <1>4, <1>5, <1>6, <1>7 DEF FormsReadBack

(* Forms are read back as they were saved, and a percentage bean that is   *)
(* read and saved again selects the same devices with the same action      *)
(* (ConvertPercentageBeanToFirmwareRule after                              *)
(* ConvertFirmwareRuleToPercentageBean), whatever is saved, deleted or     *)
(* listed in between.                                                      *)
THEOREM FormsAreReadBack == BseSpec => []FormsReadBack
BY BeanInvariant, FormsAreRead, PTL

-----------------------------------------------------------------------------
(* The ranges of distributions.                                            *)
LEMMA Ascending ==
    ASSUME NEW n \in Nat, NEW T \in [0..n -> Int], \A i \in 1..n : T[i - 1] <= T[i]
    PROVE  \A j \in 0..n : \A i \in 0..j : T[i] <= T[j]
<1> DEFINE G == {j \in 0..n : \A i \in 0..j : T[i] <= T[j]}
<1>1. 0 \in G
  <2>1. 0 \in 0..n /\ 0..0 = {0}
    OBVIOUS
  <2>2. T[0] \in Int
    BY <2>1
  <2>3. QED BY <2>1, <2>2
<1>2. ASSUME NEW j \in 0..n, j < n, j \in G PROVE j + 1 \in G
  <2>1. j + 1 \in 1..n /\ (j + 1) - 1 = j /\ j + 1 \in 0..n /\ 0..(j + 1) = 0..j \cup {j + 1} /\ 0..j \subseteq 0..n
    <3> HIDE DEF G
    <3>1. QED BY <1>2
  <2>2. T[j] \in Int /\ T[j + 1] \in Int /\ T[j] <= T[j + 1]
    BY <2>1
  <2>3. ASSUME NEW i \in 0..(j + 1) PROVE T[i] <= T[j + 1]
    <3>1. CASE i = j + 1
      BY <2>2, <3>1
    <3>2. CASE i \in 0..j
      <4>1. T[i] <= T[j] /\ T[i] \in Int
        BY <1>2, <2>1, <3>2
      <4>2. QED BY <2>2, <4>1
    <3>3. QED BY <2>1, <3>1, <3>2
  <2>4. QED BY <2>1, <2>3
<1>3. 0..n \subseteq G
  <2> HIDE DEF G
  <2>1. QED BY <1>1, <1>2, Induction
<1>4. QED BY <1>3

(* The first sum that reaches a number.                                    *)
LEMMA FirstReaches ==
    ASSUME NEW n \in Nat, NEW T \in [0..n -> Int], NEW h \in Int, T[0] < h, h <= T[n]
    PROVE  \E i \in 1..n : T[i - 1] < h /\ h <= T[i]
<1> DEFINE S == {i \in 0..n : h <= T[i]}
<1>1. n \in S /\ S \in SUBSET Nat
  OBVIOUS
<1>2. PICK i \in S : \A k \in S : i <= k
  <2> HIDE DEF S
  <2>1. QED BY <1>1, Smallest
<1>3. i \in 0..n /\ h <= T[i]
  OBVIOUS
<1>4. i # 0
  <2>1. 0 \in 0..n
    OBVIOUS
  <2>2. T[0] \in Int
    BY <2>1
  <2>3. QED BY <1>3, <2>2
<1>5. i \in 1..n /\ i - 1 \in 0..n /\ ~(i <= i - 1)
  BY <1>3, <1>4
<1>6. i - 1 \notin S
  <2> HIDE DEF S
  <2>1. QED BY <1>2, <1>5
<1>7. T[i - 1] \in Int /\ ~(h <= T[i - 1])
  BY <1>5, <1>6
<1>8. T[i - 1] < h
  BY <1>7
<1>9. QED BY <1>3, <1>5, <1>8

LEMMA ImplicitRanges ==
    ASSUME NEW es \in Seq(ConfigEntries), \A e \in Range(es) : NoRange(e)
    PROVE  LET T == Totals(WidthsOf(es))
               cs == ConvertIntoPercentRange(es)
           IN  /\ T \in [0..Len(es) -> Int] /\ T[0] = 0 /\ Len(es) \in Nat
               /\ cs \in Seq(ConfigEntries) /\ Len(cs) = Len(es) /\ DOMAIN cs = 1..Len(es)
               /\ \A i \in 1..Len(es) :
                    /\ es[i] \in ConfigEntries /\ es[i] \in Range(es) /\ T[i] = T[i - 1] + es[i].percentage
                    /\ cs[i].start = T[i - 1] /\ cs[i].end = T[i] /\ cs[i].config = es[i].config
                    /\ cs[i].percentage = es[i].percentage
               /\ WidthsOf(es) = [i \in DOMAIN es |-> es[i].percentage]
<1> DEFINE T == Totals(WidthsOf(es))
           cs == ConvertIntoPercentRange(es)
           n == Len(es)
<1>1. /\ T \in [0..n -> Int] /\ T[0] = 0 /\ \A i \in 1..n : T[i] = T[i - 1] + Width(es[i])
      /\ cs \in Seq(ConfigEntries) /\ Len(cs) = n /\ DOMAIN cs = 1..n
      /\ \A i \in 1..n : cs[i] = Placed(es[i], T[i - 1]) /\ T[i - 1] \in Int
  BY RangesAre
<1>2. n \in Nat /\ DOMAIN es = 1..n /\ \A i \in 1..n : es[i] \in ConfigEntries
  BY SeqFacts
<1> HIDE DEF n
<1>3. \A i \in 1..n : es[i] \in Range(es)
  BY <1>2 DEF Range
<1>4. \A i \in 1..n : NoRange(es[i]) /\ Width(es[i]) = es[i].percentage
  BY <1>3 DEF Width
<1> HIDE DEF T, cs
<1>5. ASSUME NEW i \in 1..n
      PROVE /\ T[i] = T[i - 1] + es[i].percentage /\ cs[i].start = T[i - 1] /\ cs[i].end = T[i] /\ cs[i].config = es[i].config
            /\ cs[i].percentage = es[i].percentage
  <2> DEFINE e == es[i]
             t == T[i - 1]
             c == cs[i]
  <2>1. e \in ConfigEntries /\ t \in Int /\ NoRange(e) /\ c = Placed(e, t) /\ T[i] = t + e.percentage
    BY <1>1, <1>2, <1>4
  <2> HIDE DEF e, t, c
  <2>2. c.start = t /\ c.end = t + e.percentage /\ c.config = e.config /\ c.percentage = e.percentage
    BY <2>1, PlacedFacts
  <2>3. QED BY <2>1, <2>2 DEF e, t, c
<1>6. WidthsOf(es) = [i \in DOMAIN es |-> es[i].percentage]
  BY <1>2, <1>4 DEF WidthsOf
<1>7. QED BY <1>1, <1>2, <1>3, <1>5, <1>6 DEF n, T, cs

(* Ranges that are all given stay as they are.                             *)
LEMMA ExplicitRanges ==
    ASSUME NEW es \in Seq(ConfigEntries), \A e \in Range(es) : GivenRange(e)
    PROVE  ConvertIntoPercentRange(es) = es
<1> DEFINE n == Len(es)
           cs == ConvertIntoPercentRange(es)
           T == Totals(WidthsOf(es))
<1>1. DOMAIN cs = 1..n /\ cs \in Seq(ConfigEntries) /\ \A i \in 1..n : cs[i] = Placed(es[i], T[i - 1])
  BY RangesAre
<1>2. n \in Nat /\ DOMAIN es = 1..n /\ \A i \in 1..n : es[i] \in ConfigEntries
  BY SeqFacts
<1> HIDE DEF n, cs, T
<1>3. ASSUME NEW i \in 1..n PROVE cs[i] = es[i]
  <2>1. es[i] \in Range(es)
    BY <1>2 DEF Range
  <2>2. GivenRange(es[i])
    BY <2>1
  <2>3. es[i].start \in Int /\ es[i].end \in Int
    BY <1>2, EntryFields
  <2>4. ~NoRange(es[i])
    BY <2>2, <2>3 DEF GivenRange, NoRange
  <2>5. QED BY <1>1, <2>4 DEF Placed
<1>4. cs = [i \in 1..n |-> cs[i]] /\ es = [i \in 1..n |-> es[i]]
  BY <1>1, <1>2
<1>5. QED BY <1>3, <1>4 DEF cs

LEMMA SameConfig == ASSUME NEW d \in ConfigEntries, NEW e \in ConfigEntries, EqualEntries(d, e) PROVE d.config = e.config
<1> DEFINE x == [d EXCEPT !.paused = e.paused]
<1>1. x.config = d.config
  BY DEF ConfigEntries
<1>2. x = e
  BY DEF EqualEntries
<1>3. QED BY <1>1, <1>2

LEMMA BeanEntries ==
    ASSUME BeanInv, NEW id \in Saved, IsBean(id)
    PROVE  /\ Form(id).dists \in Seq(ConfigEntries) /\ store[id].action.entries = ConvertIntoPercentRange(Form(id).dists)
           /\ store[id].action.config = Form(id).lkg /\ Validate(Form(id)) /\ (Kind(id) = "bean" => ValidateForAS(Form(id)))
<1>1. /\ Form(id) \in PercentageBeans /\ store[id] = ConvertPercentageBeanToFirmwareRule(Form(id)) /\ Validate(Form(id))
      /\ Kind(id) = "bean" => ValidateForAS(Form(id))
  BY SavedBean
<1>2. QED BY <1>1, BeanForms, BeanAction

LEMMA NoTwoImplicit ==
    ASSUME NEW es \in Seq(ConfigEntries), \A e \in Range(es) : NoRange(e), \A e \in Range(es) : e.percentage \in 0..100,
           NEW d \in Range(ConvertIntoPercentRange(es)), NEW e \in Range(ConvertIntoPercentRange(es)),
           NEW hash \in Int, Hit(d, hash), Hit(e, hash)
    PROVE  d = e
<1> DEFINE T == Totals(WidthsOf(es))
           cs == ConvertIntoPercentRange(es)
           n == Len(es)
<1>1. /\ T \in [0..n -> Int] /\ n \in Nat /\ DOMAIN cs = 1..n
      /\ \A i \in 1..n : /\ es[i] \in ConfigEntries /\ es[i] \in Range(es) /\ T[i] = T[i - 1] + es[i].percentage
                         /\ cs[i].start = T[i - 1] /\ cs[i].end = T[i]
  BY ImplicitRanges
<1>2. PICK i \in 1..n, j \in 1..n : d = cs[i] /\ e = cs[j]
  BY <1>1 DEF Range
<1> HIDE DEF T, n, cs
<1>3. ASSUME NEW k \in 1..n PROVE T[k - 1] <= T[k]
  <2>1. k - 1 \in 0..n /\ k \in 0..n
    BY <1>1
  <2>2. T[k - 1] \in Int /\ es[k].percentage \in 0..100 /\ T[k] = T[k - 1] + es[k].percentage
    BY <1>1, <2>1
  <2> DEFINE x == T[k - 1]
             p == es[k].percentage
  <2>3. x \in Int /\ p \in 0..100 /\ T[k] = x + p
    BY <2>2
  <2> HIDE DEF x, p
  <2>4. x <= x + p
    BY <2>3
  <2>5. QED BY <2>3, <2>4 DEF x
<1>4. \A l \in 0..n : \A k \in 0..l : T[k] <= T[l]
  BY <1>1, <1>3, Ascending
<1>5. i - 1 \in 0..n /\ i \in 0..n /\ j - 1 \in 0..n /\ j \in 0..n
  BY <1>1
<1>6. T[i - 1] \in Int /\ T[i] \in Int /\ T[j - 1] \in Int /\ T[j] \in Int
  BY <1>1, <1>5
<1>7. T[i - 1] < hash /\ hash <= T[i] /\ T[j - 1] < hash /\ hash <= T[j]
  BY <1>1, <1>2 DEF Hit
<1>8. ~(i < j)
  <2>1. ASSUME i < j PROVE FALSE
    <3>1. i \in 0..(j - 1)
      BY <1>1, <2>1
    <3>2. T[i] <= T[j - 1]
      BY <1>4, <1>5, <3>1
    <3>3. QED BY <1>6, <1>7, <3>2
  <2>2. QED BY <2>1
<1>9. ~(j < i)
  <2>1. ASSUME j < i PROVE FALSE
    <3>1. j \in 0..(i - 1)
      BY <1>1, <2>1
    <3>2. T[j] <= T[i - 1]
      BY <1>4, <1>5, <3>1
    <3>3. QED BY <1>6, <1>7, <3>2
  <2>2. QED BY <2>1
<1>10. i = j
  BY <1>1, <1>8, <1>9
<1>11. QED BY <1>2, <1>10

LEMMA NoTwoExplicit ==
    ASSUME NEW es \in Seq(ConfigEntries), \A e \in Range(es) : GivenRange(e),
           \A i, j \in DOMAIN es : ~validateDistributionOverlapping(es[i], es[j]),
           NEW d \in Range(es), NEW e \in Range(es), NEW hash \in Int, Hit(d, hash), Hit(e, hash)
    PROVE  d.config = e.config
<1>1. PICK i \in DOMAIN es, j \in DOMAIN es : d = es[i] /\ e = es[j]
  BY DEF Range
<1>2. d \in ConfigEntries /\ e \in ConfigEntries
  BY <1>1, SeqFacts
<1>3. d.start \in Int /\ d.end \in Int /\ e.start \in Int /\ e.end \in Int
  BY <1>2, EntryFields
<1>4. GivenRange(d) /\ GivenRange(e)
  OBVIOUS
<1>5. d.start < hash /\ hash <= d.end /\ e.start < hash /\ hash <= e.end
  BY DEF Hit
<1>6. CASE e.start <= d.start
  <2>1. d.start < e.end
    BY <1>3, <1>5
  <2>2. EqualEntries(d, e)
    BY <1>1, <1>4, <1>6, <2>1 DEF validateDistributionOverlapping
  <2>3. QED BY <1>2, <2>2, SameConfig
<1>7. CASE d.start <= e.start
  <2>1. e.start < d.end
    BY <1>3, <1>5
  <2>2. EqualEntries(e, d)
    BY <1>1, <1>4, <1>7, <2>1 DEF validateDistributionOverlapping
  <2>3. QED BY <1>2, <2>2, SameConfig
<1>8. QED BY <1>3, <1>6, <1>7

LEMMA EdgesAreInts == ASSUME NEW es, NEW hash \in Edges(es) PROVE hash \in Int /\ hash \in 1..100
BY DEF Edges

LEMMA NoTwoOK == BeanInv => NoTwoConfigs
<1> SUFFICES ASSUME BeanInv, NEW id \in Saved, Kind(id) = "bean", Implicit(Form(id)) \/ Explicit(Form(id)),
                    NEW d \in Range(store[id].action.entries), NEW e \in Range(store[id].action.entries),
                    NEW hash \in Edges(Range(store[id].action.entries)), Hit(d, hash), Hit(e, hash)
             PROVE  d.config = e.config
  BY DEF NoTwoConfigs
<1> DEFINE b == Form(id)
           es == b.dists
<1>0. IsBean(id) /\ hash \in Int
  BY EdgesAreInts DEF IsBean
<1>1. es \in Seq(ConfigEntries) /\ store[id].action.entries = ConvertIntoPercentRange(es) /\ ValidateForAS(b) /\ Validate(b)
  BY <1>0, BeanEntries
<1>2. \A x \in Range(es) : x.percentage \in 0..100
  BY <1>1 DEF ValidateForAS, validatePercentageRangeForAS
<1>3. \A i, j \in DOMAIN es : ~validateDistributionOverlapping(es[i], es[j])
  BY <1>1 DEF Validate
<1>4. CASE Implicit(b)
  <2>1. \A x \in Range(es) : NoRange(x)
    BY <1>4 DEF Implicit
  <2> HIDE DEF b, es
  <2>2. d = e
    BY <1>0, <1>1, <1>2, <2>1, NoTwoImplicit
  <2>3. QED BY <2>2
<1>5. CASE Explicit(b)
  <2>1. \A x \in Range(es) : GivenRange(x)
    BY <1>5 DEF Explicit
  <2> HIDE DEF b, es
  <2>2. ConvertIntoPercentRange(es) = es
    BY <1>1, <2>1, ExplicitRanges
  <2>3. QED BY <1>0, <1>1, <1>3, <2>1, <2>2, NoTwoExplicit
<1>6. QED BY <1>4, <1>5

LEMMA LeftOutOK == BeanInv => NobodyLeftOut
<1> SUFFICES ASSUME BeanInv, NEW id \in Saved, IsBean(id), Form(id).active, Form(id).dists # <<>>, Implicit(Form(id)),
                    store[id].action.config = Empty, NEW hash \in Edges(Range(store[id].action.entries))
             PROVE  \E e \in Range(store[id].action.entries) : Hit(e, hash)
  BY DEF NobodyLeftOut
<1> DEFINE b == Form(id)
           es == b.dists
           cs == ConvertIntoPercentRange(es)
           T == Totals(WidthsOf(es))
           n == Len(es)
<1>1. es \in Seq(ConfigEntries) /\ store[id].action.entries = cs /\ store[id].action.config = b.lkg /\ Validate(b)
  BY BeanEntries
<1>2. \A x \in Range(es) : NoRange(x)
  BY DEF Implicit
<1>3. /\ T \in [0..n -> Int] /\ T[0] = 0 /\ n \in Nat /\ DOMAIN cs = 1..n
      /\ \A i \in 1..n : cs[i].start = T[i - 1] /\ cs[i].end = T[i]
      /\ WidthsOf(es) = [i \in DOMAIN es |-> es[i].percentage]
  BY <1>1, <1>2, ImplicitRanges
<1>4. Total(b) = T[n]
  BY <1>3 DEF Total
<1>5. Total(b) <= 100 /\ ~(Total(b) < 100)
  BY <1>1 DEF Validate, LastKnownGoodOK
<1>6. T[n] \in Int
  BY <1>3
<1>7. hash \in 1..100
  BY EdgesAreInts
<1> HIDE DEF b, es, cs, T, n
<1>8. T[0] < hash /\ hash <= T[n] /\ hash \in Int
  <2> DEFINE t == T[n]
  <2>1. t \in Int /\ t <= 100 /\ ~(t < 100)
    BY <1>4, <1>5, <1>6
  <2> HIDE DEF t
  <2>2. hash <= t /\ hash \in Int /\ 0 < hash
    BY <1>7, <2>1
  <2>3. QED BY <1>3, <2>2 DEF t
<1>9. PICK i \in 1..n : T[i - 1] < hash /\ hash <= T[i]
  BY <1>3, <1>8, FirstReaches
<1>10. cs[i] \in Range(cs) /\ Hit(cs[i], hash)
  BY <1>3, <1>9 DEF Range, Hit
<1>11. QED BY <1>1, <1>10

-----------------------------------------------------------------------------
(* Download locations that are drawn.                                      *)
LEMMA Tenths == ASSUME NEW s \in Int PROVE (s \div 10 = 100 => s >= 1000) /\ (s \div 10 = 0 => s < 10)
OBVIOUS

LEMMA DrawnFrom ==
    ASSUME NEW ls \in Seq(Locations), NEW random \in Nat, random <= 999
    PROVE  Sum(ls) \in Int /\ (Sum(ls) >= 1000 => DrawFrom(ls, random) # Empty)
<1> DEFINE n == Len(ls)
           w == [i \in DOMAIN ls |-> ls[i].tenths]
           T == Shares(ls)
           I == {i \in DOMAIN ls : random < T[i]}
<1>1. n \in Nat /\ DOMAIN ls = 1..n /\ \A i \in 1..n : ls[i] \in Locations
  BY SeqFacts
<1>2. \A i \in 1..n : ls[i].tenths \in Int /\ ls[i].ip # Empty
  BY <1>1 DEF Locations
<1>3. w \in [1..n -> Int]
  BY <1>1, <1>2
<1>4. w \in Seq(Int) /\ Len(w) = n
  <2> HIDE DEF w
  <2>1. QED BY <1>1, <1>3, SeqDef
<1>5. T = Totals(w) /\ Sum(ls) = T[n]
  BY DEF Shares, Sum
<1> HIDE DEF w, T, n
<1>6. T \in [0..n -> Int] /\ T[0] = 0
  BY <1>4, <1>5, TotalsLoop
<1>7. Sum(ls) \in Int
  BY <1>1, <1>5, <1>6
<1>8. ASSUME Sum(ls) >= 1000 PROVE DrawFrom(ls, random) # Empty
  <2>1. n # 0
    <3>1. ~(0 >= 1000)
      OBVIOUS
    <3>2. QED BY <1>5, <1>6, <1>8, <3>1
  <2>2. n \in 1..n
    BY <1>1, <2>1
  <2>3. random < T[n]
    <3> DEFINE t == T[n]
    <3>1. t \in Int /\ t >= 1000
      BY <1>5, <1>7, <1>8
    <3> HIDE DEF t
    <3>2. random < t
      BY <3>1
    <3>3. QED BY <3>2 DEF t
  <2>4. I \in SUBSET Nat /\ n \in I
    BY <1>1, <2>2, <2>3
  <2>5. Min(I) \in I /\ I # {}
    <3> HIDE DEF I
    <3>1. QED BY <2>4, MinFacts
  <2>6. Min(I) \in 1..n
    BY <1>1, <2>5
  <2>7. DrawFrom(ls, random) = ls[Min(I)].ip
    <3>1. DrawFrom(ls, random) = IF I = {} THEN Empty ELSE ls[Min(I)].ip
      BY DEF DrawFrom, T
    <3> HIDE DEF I
    <3>2. QED BY <2>5, <3>1
  <2> HIDE DEF I
  <2>8. QED BY <1>2, <2>6, <2>7
<1>9. QED BY <1>7, <1>8

LEMMA RobinDrawn ==
    ASSUME NEW f \in RoundRobinForms, ValidateRoundRobin(f), NEW random \in Nat, random <= 999
    PROVE  LET d == GetDownloadLocations(f, random)
           IN  d[1] # Empty /\ (d[2] = Empty => Sum(f.ipv6) < 10)
<1> DEFINE ls == f.locations
           ms == f.ipv6
<1>2. ls \in Seq(Locations) /\ ms \in Seq(Locations)
  BY BeanFormsOK
<1>4. Sum(ls) \div 10 = 100 /\ Sum(ms) \div 10 \in {0, 100}
  BY DEF ValidateRoundRobin
<1>5. LET d == GetDownloadLocations(f, random) IN d[1] = DrawFrom(ls, random) /\ d[2] = DrawFrom(ms, random)
  BY DEF GetDownloadLocations
<1> HIDE DEF ls, ms
<1>6. DrawFrom(ls, random) # Empty
  <2>1. Sum(ls) \in Int /\ (Sum(ls) >= 1000 => DrawFrom(ls, random) # Empty)
    BY <1>2, DrawnFrom
  <2>2. QED BY <1>4, <2>1, Tenths
<1>7. DrawFrom(ms, random) = Empty => Sum(ms) < 10
  <2>1. Sum(ms) \in Int /\ (Sum(ms) >= 1000 => DrawFrom(ms, random) # Empty)
    BY <1>2, DrawnFrom
  <2>2. QED BY <1>4, <2>1, Tenths
<1>8. QED BY <1>5, <1>6, <1>7 DEF ms

LEMMA DrawnOK == BeanInv => LocationDrawn
<1> SUFFICES ASSUME BeanInv, NEW a \in Apps, NEW f \in roundRobins[a],
                    NEW random \in {0, 999} \cup ({Shares(f.locations)[i] : i \in DOMAIN f.locations} \cap 0..999)
             PROVE  LET d == GetDownloadLocations(f, random)
                    IN  d[1] # Empty /\ (d[2] = Empty => Sum(f.ipv6) < 10)
  BY DEF LocationDrawn
<1>1. f \in RoundRobinForms /\ ValidateRoundRobin(f)
  BY DEF BeanInv, RobinsOK
<1>2. random \in Nat /\ random <= 999
  OBVIOUS
<1>3. QED BY <1>1, <1>2, RobinDrawn
-----------------------------------------------------------------------------
(* EqualComplexRules is symmetric.  f pairs the elements of l with those   *)
(* of A behind the i-th, g those of B behind the i-th with elements of l.  *)
LEMMA EqualBack ==
    ASSUME NEW r, NEW s, equalNonCompoundRules(r, s) PROVE equalNonCompoundRules(s, r)
BY DEF equalNonCompoundRules, equalConditions

LEMMA EqualChain ==
    ASSUME NEW r, NEW s, NEW t, equalNonCompoundRules(r, s), equalNonCompoundRules(s, t)
    PROVE  equalNonCompoundRules(r, t)
BY DEF equalNonCompoundRules, equalConditions

Matched(l, A, i, n, f) ==
    /\ f \in [1..Len(l) -> (i + 1)..n]
    /\ \A j, k \in 1..Len(l) : f[j] = f[k] => j = k
    /\ \A j \in 1..Len(l) : equalNonCompoundRules(A[f[j]], l[j])

Matching(l, B, i, n, g) ==
    /\ g \in [(i + 1)..n -> 1..Len(l)]
    /\ \A j, k \in (i + 1)..n : g[j] = g[k] => j = k
    /\ \A j \in (i + 1)..n : equalNonCompoundRules(B[j], l[g[j]])

LEMMA LeftIs ==
    ASSUME NEW R, NEW l \in Seq(R), NEW a, Partners(a, l) # {}
    PROVE  \E m \in 1..Len(l) :
             /\ equalNonCompoundRules(a, l[m])
             /\ LeftAfter(a, l) \in Seq(R) /\ Len(LeftAfter(a, l)) = Len(l) - 1
             /\ \A i \in 1..(Len(l) - 1) : LeftAfter(a, l)[i] = IF i < m THEN l[i] ELSE l[i + 1]
<1> DEFINE J == Partners(a, l)
           m == Min(J)
           n == Len(l)
<1>1. n \in Nat /\ DOMAIN l = 1..n
  BY SeqFacts
<1>2. J \in SUBSET Nat
  BY <1>1 DEF Partners
<1>3. m \in J
  <2> HIDE DEF J
  <2>1. J # {}
    BY DEF J
  <2>2. QED BY <1>2, <2>1, MinFacts
<1>4. m \in 1..n /\ equalNonCompoundRules(a, l[m])
  BY <1>1, <1>3 DEF Partners
<1>5. LeftAfter(a, l) = RemoveAt(l, m)
  BY DEF LeftAfter
<1> HIDE DEF m
<1>6. RemoveAt(l, m) \in Seq(R) /\ Len(RemoveAt(l, m)) = n - 1 /\ \A i \in 1..(n - 1) : RemoveAt(l, m)[i] = IF i < m THEN l[i] ELSE l[i + 1]
  BY <1>4, Removed
<1>7. QED BY <1>4, <1>5, <1>6

LEMMA MatchedBefore ==
    ASSUME NEW R, NEW l \in Seq(R), NEW A, NEW n \in Nat, NEW i \in Nat, i < n, NEW f,
           Matched(LeftAfter(A[i + 1], l), A, i + 1, n, f)
    PROVE  \E g : Matched(l, A, i, n, g)
<1> DEFINE a == A[i + 1]
           h == LeftAfter(a, l)
           c == Len(l)
<1>0. c \in Nat /\ DOMAIN l = 1..c
  BY SeqFacts
<1>1. CASE Partners(a, l) = {}
  <2>1. h = l
    BY <1>1 DEF LeftAfter
  <2>2. f \in [1..c -> (i + 1 + 1)..n] /\ (\A j, k \in 1..c : f[j] = f[k] => j = k)
        /\ (\A j \in 1..c : equalNonCompoundRules(A[f[j]], l[j]))
    BY <2>1 DEF Matched
  <2> HIDE DEF c
  <2>3. (i + 1 + 1)..n \subseteq (i + 1)..n
    OBVIOUS
  <2>4. f \in [1..c -> (i + 1)..n]
    BY <2>2, <2>3
  <2>5. Matched(l, A, i, n, f)
    BY <2>2, <2>4 DEF Matched, c
  <2>6. QED BY <2>5
<1>2. CASE Partners(a, l) # {}
  <2>1. PICK m \in 1..c : /\ equalNonCompoundRules(a, l[m]) /\ Len(h) = c - 1
                          /\ \A j \in 1..(c - 1) : h[j] = IF j < m THEN l[j] ELSE l[j + 1]
    BY <1>2, LeftIs
  <2> HIDE DEF h
  <2>2. f \in [1..(c - 1) -> (i + 1 + 1)..n] /\ (\A j, k \in 1..(c - 1) : f[j] = f[k] => j = k)
        /\ (\A j \in 1..(c - 1) : equalNonCompoundRules(A[f[j]], h[j]))
    <3>1. Matched(h, A, i + 1, n, f)
      BY DEF h
    <3>2. QED BY <2>1, <3>1 DEF Matched
  <2> HIDE DEF c
  <2> DEFINE at(j) == IF j < m THEN j ELSE j - 1
             g == [j \in 1..c |-> IF j = m THEN i + 1 ELSE f[at(j)]]
  <2>3. ASSUME NEW j \in 1..c, j # m PROVE at(j) \in 1..(c - 1) /\ h[at(j)] = l[j]
    <3>1. CASE j < m
      <4>1. at(j) = j /\ j \in 1..(c - 1)
        BY <1>0, <3>1
      <4>2. QED BY <2>1, <3>1, <4>1
    <3>2. CASE j > m
      <4>1. at(j) = j - 1 /\ j - 1 \in 1..(c - 1) /\ ~(j - 1 < m) /\ (j - 1) + 1 = j
        BY <1>0, <3>2
      <4>2. QED BY <2>1, <4>1
    <3>3. QED BY <2>3, <3>1, <3>2
  <2>4. \A j, k \in 1..c : j # m /\ k # m /\ at(j) = at(k) => j = k
    BY <1>0
  <2> HIDE DEF at
  <2>5. ASSUME NEW j \in 1..c, j # m PROVE g[j] = f[at(j)] /\ g[j] \in (i + 1)..n /\ g[j] # i + 1 /\ equalNonCompoundRules(A[g[j]], l[j])
    <3>1. at(j) \in 1..(c - 1) /\ h[at(j)] = l[j] /\ g[j] = f[at(j)]
      BY <2>3, <2>5
    <3>2. f[at(j)] \in (i + 1 + 1)..n
      BY <2>2, <3>1
    <3>3. g[j] \in (i + 1)..n /\ g[j] # i + 1
      <4>1. f[at(j)] \in (i + 1)..n /\ f[at(j)] # i + 1
        BY <3>2
      <4>2. QED BY <3>1, <4>1
    <3>4. QED BY <2>2, <3>1, <3>3
  <2>6. g[m] = i + 1 /\ i + 1 \in (i + 1)..n
    OBVIOUS
  <2>7. g \in [1..c -> (i + 1)..n]
    <3>1. \A j \in 1..c : g[j] \in (i + 1)..n
      BY <2>5, <2>6
    <3>2. QED BY <3>1
  <2>8. \A j, k \in 1..c : g[j] = g[k] => j = k
    <3>1. ASSUME NEW j \in 1..c, NEW k \in 1..c, g[j] = g[k] PROVE j = k
      <4>1. CASE j = m \/ k = m
        <5> HIDE DEF g
        <5>1. QED BY <2>5, <2>6, <3>1, <4>1
      <4>2. CASE j # m /\ k # m
        <5>1. at(j) \in 1..(c - 1) /\ at(k) \in 1..(c - 1)
          BY <2>3, <4>2
        <5>2. f[at(j)] = f[at(k)]
          BY <2>5, <3>1, <4>2
        <5>3. QED BY <2>2, <2>4, <4>2, <5>1, <5>2
      <4>3. QED BY <4>1, <4>2
    <3>2. QED BY <3>1
  <2>9. \A j \in 1..c : equalNonCompoundRules(A[g[j]], l[j])
    <3> HIDE DEF g
    <3>1. QED BY <2>1, <2>5, <2>6
  <2> HIDE DEF g
  <2>10. Matched(l, A, i, n, g)
    BY <2>7, <2>8, <2>9 DEF Matched, c
  <2>11. QED BY <2>10
<1>3. QED BY <1>1, <1>2

LEMMA MatchingAfter ==
    ASSUME NEW R, NEW l \in Seq(R), NEW B, NEW n \in Nat, NEW i \in Nat, i < n, NEW g,
           Matching(l, B, i, n, g)
    PROVE  Len(LeftAfter(B[i + 1], l)) = Len(l) - 1 /\ \E f : Matching(LeftAfter(B[i + 1], l), B, i + 1, n, f)
<1> DEFINE a == B[i + 1]
           h == LeftAfter(a, l)
           c == Len(l)
<1>0. c \in Nat /\ DOMAIN l = 1..c
  BY SeqFacts
<1>1. /\ g \in [(i + 1)..n -> 1..c] /\ \A j, k \in (i + 1)..n : g[j] = g[k] => j = k
      /\ \A j \in (i + 1)..n : equalNonCompoundRules(B[j], l[g[j]])
  BY DEF Matching
<1>2. i + 1 \in (i + 1)..n /\ g[i + 1] \in 1..c
  BY <1>1
<1>3. Partners(a, l) # {}
  <2>1. equalNonCompoundRules(a, l[g[i + 1]])
    BY <1>1, <1>2
  <2>2. g[i + 1] \in DOMAIN l
    BY <1>0, <1>2
  <2>3. QED BY <2>1, <2>2 DEF Partners
<1>4. PICK m \in 1..c : /\ equalNonCompoundRules(a, l[m]) /\ Len(h) = c - 1
                        /\ \A j \in 1..(c - 1) : h[j] = IF j < m THEN l[j] ELSE l[j + 1]
  BY <1>3, LeftIs
<1> HIDE DEF h, c
<1> DEFINE D == (i + 1 + 1)..n
           p == g[i + 1]
           to(j) == IF g[j] = m THEN p ELSE g[j]
           down(x) == IF x < m THEN x ELSE x - 1
           f == [j \in D |-> down(to(j))]
<1>5. \A j \in D : j \in (i + 1)..n /\ j # i + 1
  OBVIOUS
<1> HIDE DEF D
<1>6. ASSUME NEW j \in D PROVE to(j) \in 1..c /\ to(j) # m /\ equalNonCompoundRules(B[j], l[to(j)])
  <2>1. g[j] \in 1..c /\ g[j] # p /\ equalNonCompoundRules(B[j], l[g[j]])
    BY <1>1, <1>2, <1>5
  <2>2. CASE g[j] = m
    <3>1. to(j) = p /\ p # m
      BY <2>1, <2>2
    <3>2. equalNonCompoundRules(B[j], l[m]) /\ equalNonCompoundRules(l[m], a)
      BY <1>4, <2>1, <2>2, EqualBack
    <3>3. equalNonCompoundRules(B[j], a)
      BY <3>2, EqualChain
    <3>4. equalNonCompoundRules(a, l[p])
      BY <1>1, <1>2
    <3>5. equalNonCompoundRules(B[j], l[p])
      BY <3>3, <3>4, EqualChain
    <3>6. QED BY <1>2, <3>1, <3>5
  <2>3. CASE g[j] # m
    BY <2>1, <2>3
  <2>4. QED BY <2>2, <2>3
<1>7. \A j, k \in D : to(j) = to(k) => j = k
  <2>1. ASSUME NEW j \in D, NEW k \in D, to(j) = to(k) PROVE j = k
    <3>1. g[j] # p /\ g[k] # p /\ (g[j] = g[k] => j = k)
      BY <1>1, <1>2, <1>5
    <3>2. QED BY <2>1, <3>1
  <2>2. QED BY <2>1
<1> HIDE DEF to, p
<1>8. ASSUME NEW x \in 1..c, x # m PROVE down(x) \in 1..(c - 1) /\ h[down(x)] = l[x]
  <2>1. CASE x < m
    <3>1. down(x) = x /\ x \in 1..(c - 1)
      BY <1>0, <2>1
    <3>2. QED BY <1>4, <2>1, <3>1
  <2>2. CASE x > m
    <3>1. down(x) = x - 1 /\ x - 1 \in 1..(c - 1) /\ ~(x - 1 < m) /\ (x - 1) + 1 = x
      BY <1>0, <2>2
    <3>2. QED BY <1>4, <3>1
  <2>3. QED BY <1>8, <2>1, <2>2
<1>9. \A x, y \in 1..c : x # m /\ y # m /\ down(x) = down(y) => x = y
  BY <1>0
<1> HIDE DEF down
<1>10. ASSUME NEW j \in D PROVE f[j] \in 1..(c - 1) /\ equalNonCompoundRules(B[j], h[f[j]]) /\ f[j] = down(to(j))
  BY <1>6, <1>8
<1>11. f \in [D -> 1..(c - 1)]
  BY <1>10
<1>12. \A j, k \in D : f[j] = f[k] => j = k
  <2>1. ASSUME NEW j \in D, NEW k \in D, f[j] = f[k] PROVE j = k
    <3>1. down(to(j)) = down(to(k))
      BY <1>10, <2>1
    <3>2. to(j) = to(k)
      BY <1>6, <1>9, <3>1
    <3>3. QED BY <1>7, <3>2
  <2>2. QED BY <2>1
<1>13. \A j \in D : equalNonCompoundRules(B[j], h[f[j]])
  BY <1>10
<1> HIDE DEF f
<1>14. Matching(h, B, i + 1, n, f)
  BY <1>4, <1>11, <1>12, <1>13 DEF Matching, D
<1>15. QED BY <1>4, <1>14 DEF h, c

CollectionRun(X, Y, R, left) ==
    /\ left \in [0..Len(X) -> Seq(R)] /\ left[0] = Y
    /\ \A i \in 1..Len(X) : left[i] = LeftAfter(X[i], left[i - 1])
    /\ SameCollection(X, Y) <=> left[Len(X)] = <<>>

LEMMA CollectionRuns ==
    ASSUME NEW R, NEW X, Len(X) \in Nat, NEW Y \in Seq(R) PROVE \E left : CollectionRun(X, Y, R, left)
<1>1. PICK left \in [0..Len(X) -> Seq(R)] :
         /\ left[0] = Y /\ \A i \in 1..Len(X) : left[i] = LeftAfter(X[i], left[i - 1])
         /\ SameCollection(X, Y) <=> left[Len(X)] = <<>>
  BY CollectionLoop
<1>2. CollectionRun(X, Y, R, left)
  BY <1>1 DEF CollectionRun
<1>3. QED BY <1>2

LEMMA CollectionBack ==
    ASSUME NEW R, NEW A \in Seq(R), NEW B \in Seq(R), Len(A) = Len(B), SameCollection(A, B)
    PROVE  SameCollection(B, A)
<1> DEFINE n == Len(A)
<1>0. n \in Nat /\ Len(B) = n /\ Len(A) \in Nat /\ Len(B) \in Nat /\ 0 \in 0..n /\ n \in 0..n
  BY SeqFacts
<1>1. PICK left \in [0..n -> Seq(R)] :
         left[0] = B /\ (\A i \in 1..n : left[i] = LeftAfter(A[i], left[i - 1])) /\ left[n] = <<>>
  <2>1. PICK left : CollectionRun(A, B, R, left)
    BY <1>0, CollectionRuns
  <2>2. QED BY <2>1 DEF CollectionRun
<1>2. PICK rest \in [0..n -> Seq(R)] :
         /\ rest[0] = A /\ \A i \in 1..n : rest[i] = LeftAfter(B[i], rest[i - 1])
         /\ SameCollection(B, A) <=> rest[n] = <<>>
  <2>1. PICK rest : CollectionRun(B, A, R, rest)
    BY <1>0, CollectionRuns
  <2>2. rest \in [0..n -> Seq(R)] /\ rest[0] = A
    BY <1>0, <2>1 DEF CollectionRun
  <2>3. \A i \in 1..n : rest[i] = LeftAfter(B[i], rest[i - 1])
    BY <1>0, <2>1 DEF CollectionRun
  <2>4. SameCollection(B, A) <=> rest[n] = <<>>
    BY <1>0, <2>1 DEF CollectionRun
  <2> HIDE DEF n
  <2>5. QED BY <2>2, <2>3, <2>4
<1> HIDE DEF n
<1>3. PICK f : Matched(B, A, 0, n, f)
  <2> DEFINE G == {k \in 0..n : \E f : Matched(left[n - k], A, n - k, n, f)}
  <2>1. 0 \in G
    <3>1. n - 0 = n /\ 0 \in 0..n
      BY <1>0
    <3>2. Len(<<>>) = 0 /\ 1..0 = {}
      OBVIOUS
    <3>3. Matched(<<>>, A, n, n, <<>>)
      BY <3>2 DEF Matched
    <3>4. QED BY <1>1, <3>1, <3>3
  <2>2. ASSUME NEW k \in 0..n, k < n, k \in G PROVE k + 1 \in G
    <3> DEFINE i == n - (k + 1)
    <3>1. i \in Nat /\ i < n /\ i + 1 = n - k /\ i + 1 \in 1..n /\ (i + 1) - 1 = i /\ i \in 0..n /\ k + 1 \in 0..n
      <4> HIDE DEF G
      <4>1. QED BY <1>0, <2>2
    <3>2. PICK g : Matched(left[n - k], A, n - k, n, g)
      BY <2>2
    <3> HIDE DEF i
    <3>3. left[i + 1] = LeftAfter(A[i + 1], left[i])
      <4>1. left[i + 1] = LeftAfter(A[i + 1], left[(i + 1) - 1])
        BY <1>1, <3>1
      <4>2. QED BY <3>1, <4>1
    <3>4. left[i] \in Seq(R)
      BY <3>1
    <3>5. Matched(LeftAfter(A[i + 1], left[i]), A, i + 1, n, g)
      BY <3>1, <3>2, <3>3
    <3>6. \E h : Matched(left[i], A, i, n, h)
      BY <1>0, <3>1, <3>4, <3>5, MatchedBefore
    <3>7. QED BY <3>1, <3>6 DEF i
  <2>3. 0..n \subseteq G
    <3> HIDE DEF G
    <3>1. QED BY <1>0, <2>1, <2>2, Induction
  <2>4. \E f : Matched(left[n - n], A, n - n, n, f)
    BY <1>0, <2>3
  <2>5. n - n = 0
    BY <1>0
  <2>6. QED BY <1>1, <2>4, <2>5
<1>4. Matching(A, B, 0, n, f)
  <2>1. /\ f \in [1..n -> (0 + 1)..n] /\ \A j, k \in 1..n : f[j] = f[k] => j = k
        /\ \A j \in 1..n : equalNonCompoundRules(A[f[j]], B[j])
    BY <1>0, <1>3 DEF Matched
  <2>2. \A j \in 1..n : equalNonCompoundRules(B[j], A[f[j]])
    BY <2>1, EqualBack
  <2>3. 0 + 1 = 1
    OBVIOUS
  <2>4. QED BY <1>0, <2>1, <2>2, <2>3 DEF Matching, n
<1>5. Len(rest[n]) = 0
  <2> DEFINE G == {i \in 0..n : Len(rest[i]) = n - i /\ \E g : Matching(rest[i], B, i, n, g)}
  <2>1. 0 \in G
    <3>1. Len(rest[0]) = n - 0
      BY <1>0, <1>2 DEF n
    <3>2. QED BY <1>0, <1>2, <1>4, <3>1
  <2>2. ASSUME NEW i \in 0..n, i < n, i \in G PROVE i + 1 \in G
    <3>1. i \in Nat /\ i + 1 \in 1..n /\ (i + 1) - 1 = i /\ i + 1 \in 0..n
      <4> HIDE DEF G
      <4>1. QED BY <1>0, <2>2
    <3>2. PICK g : Len(rest[i]) = n - i /\ Matching(rest[i], B, i, n, g)
      BY <2>2
    <3>3. rest[i + 1] = LeftAfter(B[i + 1], rest[i])
      <4>1. rest[i + 1] = LeftAfter(B[i + 1], rest[(i + 1) - 1])
        BY <1>2, <3>1
      <4>2. QED BY <3>1, <4>1
    <3>4. rest[i] \in Seq(R)
      OBVIOUS
    <3>5. Len(LeftAfter(B[i + 1], rest[i])) = Len(rest[i]) - 1 /\ \E h : Matching(LeftAfter(B[i + 1], rest[i]), B, i + 1, n, h)
      BY <1>0, <2>2, <3>1, <3>2, <3>4, MatchingAfter
    <3>6. Len(rest[i + 1]) = n - (i + 1)
      <4>1. (n - i) - 1 = n - (i + 1)
        BY <1>0
      <4>2. QED BY <3>2, <3>3, <3>5, <4>1
    <3>7. QED BY <3>1, <3>3, <3>5, <3>6
  <2>3. 0..n \subseteq G
    <3> HIDE DEF G
    <3>1. QED BY <1>0, <2>1, <2>2, Induction
  <2>4. Len(rest[n]) = n - n
    BY <1>0, <2>3
  <2>5. n - n = 0
    BY <1>0
  <2>6. QED BY <2>4, <2>5
<1>6. rest[n] = <<>>
  <2> DEFINE s == rest[n]
  <2>1. s \in Seq(R)
    BY <1>0
  <2>2. Len(s) = 0
    BY <1>5
  <2> HIDE DEF s
  <2>3. s = <<>>
    BY <2>1, <2>2
  <2>4. QED BY <2>3 DEF s
<1>7. QED BY <1>2, <1>6

LEMMA EqualComplexBack ==
    ASSUME NEW r, NEW s, LeafParts(FlattenRule(r)), LeafParts(FlattenRule(s)), EqualComplexRules(r, s)
    PROVE  EqualComplexRules(s, r)
<1> DEFINE rs == FlattenRule(r)
           ss == FlattenRule(s)
           n == Len(rs)
           rel == Last(rs).relation
           A == Joining(rs, rel)
           B == Joining(ss, rel)
           alike == n > 1 /\ allRulesHaveSameRelation(rs) /\ allRulesHaveSameRelation(ss)
<1>1. Len(ss) = n /\ IF alike THEN SameCollection(A, B) ELSE \A i \in DOMAIN rs : equalNonCompoundRules(rs[i], ss[i])
  BY DEF EqualComplexRules, Joining
<1>2. /\ rs \in Seq(AllRules) /\ ss \in Seq(AllRules) /\ n \in Nat /\ DOMAIN rs = 1..n /\ DOMAIN ss = 1..n
      /\ (\A i \in 2..n : rs[i].relation # "" /\ ss[i].relation # "") /\ LeafParts(rs) /\ LeafParts(ss)
  BY <1>1, SeqFacts DEF LeafParts
<1>3. CASE alike
  <2>1. n > 1 /\ allRulesHaveSameRelation(rs) /\ allRulesHaveSameRelation(ss) /\ SameCollection(A, B)
    BY <1>1, <1>3
  <2>0. n \in Nat /\ n > 1
    BY <1>2, <2>1
  <2> HIDE DEF rs, ss, n
  <2>2. n \in 2..n /\ n \in 1..n /\ 1 \in 1..n /\ n # 1
    BY <2>0
  <2>3. Last(rs) = rs[n] /\ Last(ss) = ss[n]
    BY <1>1 DEF Last, n
  <2>4. rel \in {"AND", "OR"}
    <3>1. rs[n] \in AllRules
      <4>1. \A i \in DOMAIN rs : rs[i] \in AllRules
        BY <1>2, SeqFacts
      <4>2. n \in DOMAIN rs
        BY <1>2, <2>2
      <4>3. QED BY <4>1, <4>2
    <3>2. rs[n].relation \in {"", "AND", "OR"}
      BY <3>1, RuleParts
    <3>3. rs[n].relation # ""
      BY <1>2, <2>2
    <3>4. QED BY <2>3, <3>2, <3>3
  <2> HIDE DEF rel
  <2>5. A \in Seq(AllRules) /\ Len(A) = n /\ \A i \in 1..n : A[i].relation = IF i = 1 THEN rel ELSE rs[i].relation
    BY <1>2, <2>1, <2>4, FirstJoined DEF n
  <2>6. B \in Seq(AllRules) /\ Len(B) = n /\ \A i \in 1..n : B[i].relation = IF i = 1 THEN rel ELSE ss[i].relation
    <3>1. Len(ss) > 1
      BY <1>1, <2>1
    <3>2. B \in Seq(AllRules) /\ Len(B) = Len(ss) /\ \A i \in 1..Len(ss) : B[i].relation = IF i = 1 THEN rel ELSE ss[i].relation
      BY <1>2, <2>4, <3>1, FirstJoined
    <3>3. QED BY <1>1, <3>2
  <2> HIDE DEF A, B
  <2>7. PICK i \in 1..n : equalNonCompoundRules(A[i], B[n])
    <3>1. Len(A) \in Nat /\ Len(A) = Len(B)
      BY <1>2, <2>5, <2>6
    <3>2. \A j \in 1..Len(B) : \E k \in 1..Len(A) : equalNonCompoundRules(A[k], B[j])
      BY <2>1, <2>6, <3>1, CollectionCovered
    <3>3. QED BY <2>2, <2>5, <2>6, <3>2
  <2>8. A[i].relation = B[n].relation
    BY <2>7 DEF equalNonCompoundRules
  <2>9. A[i].relation = rel
    <3>1. CASE i = 1
      BY <2>5, <3>1
    <3>2. CASE i # 1
      <4>0. i \in 2..n /\ i \in 1..n
        BY <2>0, <3>2
      <4>1. i \in 2..n /\ i \in DOMAIN rs
        BY <1>2, <4>0
      <4>2. rs[i].relation \in {"", rel} /\ rs[i].relation # ""
        BY <1>2, <2>1, <4>1 DEF allRulesHaveSameRelation, rel
      <4>3. QED BY <2>5, <3>2, <4>2
    <3>3. QED BY <3>1, <3>2
  <2>10. Last(ss).relation = rel
    <3>2. B[n].relation = ss[n].relation
      BY <2>2, <2>6
    <3>3. QED BY <2>3, <2>8, <2>9, <3>2
  <2>11. SameCollection(B, A)
    BY <2>1, <2>5, <2>6, CollectionBack
  <2>12. SameCollection([ss EXCEPT ![1].relation = Last(ss).relation], [rs EXCEPT ![1].relation = Last(ss).relation])
    BY <2>10, <2>11 DEF Joining, A, B
  <2>13. Len(ss) = Len(rs) /\ Len(ss) > 1
    BY <1>1, <2>1 DEF n
  <2>14. QED BY <2>1, <2>12, <2>13 DEF EqualComplexRules, rs, ss
<1>4. CASE ~alike
  <2>1. \A i \in DOMAIN rs : equalNonCompoundRules(rs[i], ss[i])
    BY <1>1, <1>4
  <2>2. \A i \in DOMAIN ss : equalNonCompoundRules(ss[i], rs[i])
    BY <1>2, <2>1, EqualBack
  <2>3. Len(ss) = Len(rs) /\ ~(Len(ss) > 1 /\ allRulesHaveSameRelation(ss) /\ allRulesHaveSameRelation(rs))
    BY <1>1, <1>4
  <2> HIDE DEF rs, ss
  <2>4. QED BY <2>2, <2>3 DEF EqualComplexRules, rs, ss
<1>5. QED BY <1>3, <1>4

-----------------------------------------------------------------------------
(* Beans stay distinct.                                                    *)
LEMMA ReadLeaves ==
    ASSUME NEW b, GoodBean(b), b.opt # <<>> PROVE LeafParts(FlattenRule(ReadOpt(b)[1]))
<1> DEFINE o == b.opt[1]
<1>1. FlattenRule(ReadOpt(b)[1]) = FlattenRule(o)
  BY ReadOptHolds
<1>2. o \in AllRules /\ (o.compound => Shallow(o)) /\ FlattenRule(o) = IF o.compound THEN o.parts ELSE <<o>>
  BY OptFacts
<1> HIDE DEF o
<1>3. CASE o.compound
  BY <1>1, <1>2, <1>3, ShallowParts
<1>4. CASE ~o.compound
  <2>1. <<o>> \in Seq(AllRules) /\ DOMAIN <<o>> = {1} /\ <<o>>[1] = o /\ Len(<<o>>) = 1 /\ 2..1 = {}
    BY <1>2
  <2>2. LeafParts(<<o>>)
    BY <1>4, <2>1 DEF LeafParts
  <2>3. QED BY <1>1, <1>2, <1>4, <2>2
<1>5. QED BY <1>3, <1>4

(* EqualComplexRules looks at nothing but the flattened rules.             *)
LEMMA EqualFlattened ==
    ASSUME NEW r, NEW s, NEW t, FlattenRule(r) = FlattenRule(s), EqualComplexRules(r, t)
    PROVE  EqualComplexRules(s, t)
BY DEF EqualComplexRules

LEMMA SameConditionsRead ==
    ASSUME NEW b, GoodBean(b), NEW o, SameConditions(ReadOpt(b), o) PROVE SameConditions(b.opt, o)
<1>1. (ReadOpt(b) = <<>> <=> b.opt = <<>>) /\ (b.opt # <<>> => FlattenRule(ReadOpt(b)[1]) = FlattenRule(b.opt[1]))
  BY ReadOptHolds
<1>2. QED BY <1>1, EqualFlattened DEF SameConditions

LEMMA SameConditionsBack ==
    ASSUME NEW b, GoodBean(b), NEW c, GoodBean(c), SameConditions(ReadOpt(c), ReadOpt(b))
    PROVE  SameConditions(ReadOpt(b), ReadOpt(c))
<1>1. (ReadOpt(b) = <<>> <=> b.opt = <<>>) /\ (ReadOpt(c) = <<>> <=> c.opt = <<>>)
  BY ReadOptHolds
<1>2. CASE ReadOpt(c) = <<>> /\ ReadOpt(b) = <<>>
  BY <1>2 DEF SameConditions
<1>3. CASE ReadOpt(c) # <<>> /\ ReadOpt(b) # <<>> /\ EqualComplexRules(ReadOpt(c)[1], ReadOpt(b)[1])
  <2>1. LeafParts(FlattenRule(ReadOpt(b)[1])) /\ LeafParts(FlattenRule(ReadOpt(c)[1]))
    BY <1>1, <1>3, ReadLeaves
  <2>2. EqualComplexRules(ReadOpt(b)[1], ReadOpt(c)[1])
    BY <1>3, <2>1, EqualComplexBack
  <2>3. QED BY <1>3, <2>2 DEF SameConditions
<1>4. QED BY <1>2, <1>3 DEF SameConditions

(* What DistinctBeans says of two ids.                                     *)
Beanlike(fr, q) == fr.type # "" /\ q[1] \in {"bean", "lenient"}
Differ(b, c) ==
    ~(EqualFold(b.env, c.env) /\ EqualFold(b.model, c.model) /\ SameConditions(b.opt, c.opt))
Apart(fr, q, gr, s) ==
    Beanlike(fr, q) /\ Beanlike(gr, s) /\ fr.app = gr.app =>
        /\ ~EqualFold(ConvertFirmwareRuleToPercentageBean(fr).name, ConvertFirmwareRuleToPercentageBean(gr).name)
        /\ FlatConditions(q[2]) /\ FlatConditions(s[2]) =>
             Differ(ConvertFirmwareRuleToPercentageBean(fr), ConvertFirmwareRuleToPercentageBean(gr))
BeansApart == \A i, j \in BeanIds : i # j => Apart(store[i], posted[i], store[j], posted[j])

LEMMA ApartIsDistinct == ASSUME BeanInv PROVE BeansApart <=> DistinctBeans
<1>1. DOMAIN store = BeanIds \cup GlobalIds
  BY DEF BeanInv, TablesOK
<1>2. \A i \in BeanIds : i \in Saved /\ IsBean(i) <=> Beanlike(store[i], posted[i])
  BY <1>1 DEF Saved, Stored, IsBean, Kind, Beanlike
<1>3. \A i \in Saved : i \in BeanIds
  BY DEF Saved
<1>4. QED BY <1>2, <1>3 DEF BeansApart, DistinctBeans, Apart, Differ, Form

(* A bean that ValidateAll accepts next to a stored one.                   *)
LEMMA ApartFrom ==
    ASSUME NEW b \in PercentageBeans, Validate(b), NEW kind, NEW gr, NEW s, SavedAs(gr, s),
           Beanlike(gr, s) /\ gr.app = b.app =>
               LET o == ConvertFirmwareRuleToPercentageBean(gr)
               IN  ~EqualFold(b.name, o.name) /\ Differ(b, o)
    PROVE  /\ Apart(ConvertPercentageBeanToFirmwareRule(b), <<kind, b>>, gr, s)
           /\ Apart(gr, s, ConvertPercentageBeanToFirmwareRule(b), <<kind, b>>)
<1> DEFINE fr == ConvertPercentageBeanToFirmwareRule(b)
           q == <<kind, b>>
           o == ConvertFirmwareRuleToPercentageBean(gr)
           d == ConvertFirmwareRuleToPercentageBean(fr)
<1>0. fr.app = b.app /\ q[2] = b
  BY BeanFields
<1>1. SUFFICES ASSUME Beanlike(gr, s), gr.app = b.app
               PROVE  /\ ~EqualFold(d.name, o.name) /\ ~EqualFold(o.name, d.name)
                      /\ FlatConditions(b) /\ FlatConditions(s[2]) => Differ(d, o) /\ Differ(o, d)
  <2> HIDE DEF fr, q, d, o
  <2>1. QED BY <1>0 DEF Apart, d, o, fr, q
<1>2. ~EqualFold(b.name, o.name) /\ Differ(b, o)
  BY <1>1
<1>3. b.dists \in Seq(ConfigEntries)
  BY BeanForms
<1>4. d = ReadBean(b)
  BY DEF ReadBean
<1>5. d.name = b.name /\ (GoodBean(b) => d.env = b.env /\ d.model = b.model /\ d.opt = ReadOpt(b))
  BY <1>3, <1>4, ReadBeanFields
<1>6. PICK c \in PercentageBeans : s[2] = c /\ Validate(c) /\ gr = ConvertPercentageBeanToFirmwareRule(c)
  <2>1. IsStrict(gr, s) \/ IsLenient(gr, s)
    BY <1>1, KindsOf DEF Beanlike
  <2>2. QED BY <2>1 DEF IsStrict, IsLenient, ValidateForAS
<1>7. c.dists \in Seq(ConfigEntries) /\ o = ReadBean(c)
  BY <1>6, BeanForms DEF ReadBean
<1>8. GoodBean(c) => o.opt = ReadOpt(c)
  BY <1>7, ReadBeanFields
<1> HIDE DEF d, o
<1>9. ~EqualFold(d.name, o.name) /\ ~EqualFold(o.name, d.name)
  BY <1>2, <1>5 DEF EqualFold
<1>10. ASSUME FlatConditions(b), FlatConditions(c) PROVE Differ(d, o) /\ Differ(o, d)
  <2>1. GoodBean(b) /\ GoodBean(c)
    BY <1>6, <1>10, GoodBeans
  <2>2. SameConditions(d.opt, o.opt) => SameConditions(b.opt, o.opt)
    BY <1>5, <2>1, SameConditionsRead
  <2>3. SameConditions(o.opt, d.opt) => SameConditions(d.opt, o.opt)
    BY <1>5, <1>8, <2>1, SameConditionsBack
  <2>4. d.env = b.env /\ d.model = b.model
    BY <1>5, <2>1
  <2>5. Differ(d, o)
    BY <1>2, <2>2, <2>4 DEF Differ
  <2>6. Differ(o, d)
    BY <2>3, <2>5 DEF Differ, EqualFold
  <2>7. QED BY <2>5, <2>6
<1>11. QED BY <1>6, <1>9, <1>10

LEMMA PutApart ==
    ASSUME BeanInv, BeansApart, NEW id \in BeanIds, NEW fr, NEW kind, NEW form, Put(id, fr, kind, form),
           \A j \in BeanIds : j # id =>
               /\ Apart(fr, <<kind, form>>, store[j], posted[j])
               /\ Apart(store[j], posted[j], fr, <<kind, form>>)
    PROVE  BeansApart'
<1>1. \A i \in BeanIds : store'[i] = (IF i = id THEN fr ELSE store[i]) /\ posted'[i] = IF i = id THEN <<kind, form>> ELSE posted[i]
  <2>1. /\ store = [i \in BeanIds \cup GlobalIds |-> store[i]] /\ posted = [i \in BeanIds \cup Apps |-> posted[i]]
        /\ store' = [store EXCEPT ![id] = fr] /\ posted' = [posted EXCEPT ![id] = <<kind, form>>]
    BY DEF BeanInv, TablesOK, Put
  <2>2. QED BY <2>1
<1> DEFINE q == <<kind, form>>
<1>2. ASSUME NEW i \in BeanIds, NEW j \in BeanIds, i # j PROVE Apart(store'[i], posted'[i], store'[j], posted'[j])
  <2> HIDE DEF q
  <2>1. CASE i = id
    <3>1. store'[i] = fr /\ posted'[i] = q /\ store'[j] = store[j] /\ posted'[j] = posted[j]
      BY <1>1, <1>2, <2>1 DEF q
    <3>2. Apart(fr, q, store[j], posted[j])
      BY <1>2, <2>1 DEF q
    <3>3. QED BY <3>1, <3>2
  <2>2. CASE j = id
    <3>1. store'[j] = fr /\ posted'[j] = q /\ store'[i] = store[i] /\ posted'[i] = posted[i]
      BY <1>1, <1>2, <2>2 DEF q
    <3>2. Apart(store[i], posted[i], fr, q)
      BY <1>2, <2>2 DEF q
    <3>3. QED BY <3>1, <3>2
  <2>3. CASE i # id /\ j # id
    <3>1. store'[i] = store[i] /\ posted'[i] = posted[i] /\ store'[j] = store[j] /\ posted'[j] = posted[j]
      BY <1>1, <2>3
    <3>2. Apart(store[i], posted[i], store[j], posted[j])
      BY <1>2 DEF BeansApart
    <3>3. QED BY <3>1, <3>2
  <2>4. QED BY <2>1, <2>2, <2>3
<1>3. QED BY <1>2 DEF BeansApart

LEMMA SaveApart ==
    ASSUME BeanInv, BeansApart, NEW id \in BeanIds, NEW b \in PercentageBeans, NEW kind, Validate(b),
           ValidateAll(b, BeansOf(b.app, id)), Put(id, ConvertPercentageBeanToFirmwareRule(b), kind, b)
    PROVE  BeansApart'
<1>1. ASSUME NEW j \in BeanIds, j # id
      PROVE  /\ Apart(ConvertPercentageBeanToFirmwareRule(b), <<kind, b>>, store[j], posted[j])
             /\ Apart(store[j], posted[j], ConvertPercentageBeanToFirmwareRule(b), <<kind, b>>)
  <2> DEFINE gr == store[j]
             s == posted[j]
             o == ConvertFirmwareRuleToPercentageBean(gr)
  <2>1. SavedAs(gr, s)
    BY DEF BeanInv, SlotsOK
  <2>2. ASSUME Beanlike(gr, s), gr.app = b.app PROVE ~EqualFold(b.name, o.name) /\ Differ(b, o)
    <3>1. gr.type = "ENV_MODEL_RULE"
      <4>1. IsStrict(gr, s) \/ IsLenient(gr, s)
        BY <2>1, <2>2, KindsOf DEF Beanlike
      <4>2. QED BY <4>1, TypesOf DEF Typed
    <3>2. j \in Stored
      BY <2>2 DEF BeanInv, TablesOK, Stored, Beanlike
    <3>3. j \in OfType(b.app, "ENV_MODEL_RULE") \ {id}
      BY <1>1, <2>2, <3>1, <3>2 DEF OfType
    <3>4. o \in BeansOf(b.app, id)
      BY <3>3 DEF BeansOf
    <3> HIDE DEF o
    <3>5. QED BY <3>4 DEF ValidateAll, Differ
  <2>3. Beanlike(gr, s) /\ gr.app = b.app =>
           LET x == ConvertFirmwareRuleToPercentageBean(gr) IN ~EqualFold(b.name, x.name) /\ Differ(b, x)
    BY <2>2
  <2> HIDE DEF gr, s
  <2>4. /\ Apart(ConvertPercentageBeanToFirmwareRule(b), <<kind, b>>, gr, s)
        /\ Apart(gr, s, ConvertPercentageBeanToFirmwareRule(b), <<kind, b>>)
    BY <2>1, <2>3, ApartFrom
  <2>5. QED BY <2>4 DEF gr, s
<1> DEFINE fr == ConvertPercentageBeanToFirmwareRule(b)
<1>2. \A j \in BeanIds : j # id => Apart(fr, <<kind, b>>, store[j], posted[j]) /\ Apart(store[j], posted[j], fr, <<kind, b>>)
  BY <1>1
<1> HIDE DEF fr
<1>3. Put(id, fr, kind, b)
  BY DEF fr
<1>4. QED BY <1>2, <1>3, PutApart

LEMMA OthersApart ==
    ASSUME BeanInv, BeansApart, NEW id \in BeanIds, NEW fr, NEW kind, NEW form, Put(id, fr, kind, form),
           kind \notin {"bean", "lenient"}
    PROVE  BeansApart'
<1>1. ~Beanlike(fr, <<kind, form>>)
  BY DEF Beanlike
<1>2. \A j \in BeanIds : Apart(fr, <<kind, form>>, store[j], posted[j]) /\ Apart(store[j], posted[j], fr, <<kind, form>>)
  BY <1>1 DEF Apart
<1>3. QED BY <1>2, PutApart

LEMMA FiltersApart ==
    ASSUME BeanInv, BeansApart, \A i \in BeanIds : store'[i] = store[i] /\ posted'[i] = posted[i]
    PROVE  BeansApart'
<1>1. ASSUME NEW i \in BeanIds, NEW j \in BeanIds, i # j PROVE Apart(store'[i], posted'[i], store'[j], posted'[j])
  <2>1. Apart(store[i], posted[i], store[j], posted[j])
    BY <1>1 DEF BeansApart
  <2>2. QED BY <2>1
<1>2. QED BY <1>1 DEF BeansApart

LEMMA ApartInit == BeanInit => BeansApart
<1> SUFFICES ASSUME BeanInit PROVE BeansApart
  OBVIOUS
<1>1. \A i \in BeanIds : store[i].type = ""
  BY NoRuleFields DEF BeanInit
<1>2. QED BY <1>1 DEF BeansApart, Apart, Beanlike

LEMMA ApartStep == BeanInv /\ BeansApart /\ [BeanNext \/ QueryNext]_beanVars => BeansApart'
<1> SUFFICES ASSUME BeanInv, BeansApart, [BeanNext \/ QueryNext]_beanVars PROVE BeansApart'
  OBVIOUS
<1>1. ASSUME NEW id \in BeanIds, NEW b \in PercentageBeans, SavePercentageBean(id, b) PROVE BeansApart'
  BY <1>1, SaveApart DEF SavePercentageBean, ValidateForAS
<1>2. ASSUME NEW id \in BeanIds, NEW b \in PercentageBeans, SaveLeniently(id, b) PROVE BeansApart'
  BY <1>2, SaveApart DEF SaveLeniently
<1>3. ASSUME NEW id \in BeanIds, NEW b \in IpRuleBeans, NEW app \in Apps, SaveIpRule(id, b, app) PROVE BeansApart'
  BY <1>3, OthersApart DEF SaveIpRule
<1>4. ASSUME NEW id \in BeanIds, NEW f \in IpFilterForms, NEW app \in Apps, SaveIpFilter(id, f, app) PROVE BeansApart'
  BY <1>4, OthersApart DEF SaveIpFilter
<1>5. ASSUME NEW id \in BeanIds, NEW p \in TimeForms, NEW app \in Apps, SaveTimeFilter(id, p, app) PROVE BeansApart'
  BY <1>5, OthersApart DEF SaveTimeFilter, CreateFirmwareRuleOneDB
<1>6. ASSUME NEW id \in BeanIds, NEW f \in MacForms, NEW app \in Apps, SaveMacRule(id, f, app) PROVE BeansApart'
  BY <1>6, OthersApart DEF SaveMacRule, CreateFirmwareRuleOneDB
<1>7. ASSUME NEW id \in BeanIds, NEW a \in ActivationVersions, SaveActivationVersion(id, a) PROVE BeansApart'
  BY <1>7, OthersApart DEF SaveActivationVersion, CreateFirmwareRuleOneDB
<1>8. ASSUME NEW id \in BeanIds, NEW f \in LocationForms, NEW app \in Apps, SaveLocationFilter(id, f, app) PROVE BeansApart'
  BY <1>8, OthersApart DEF SaveLocationFilter, CreateFirmwareRuleOneDB
<1>9. ASSUME NEW id \in BeanIds, NEW f \in LocationRules, SaveLocationRule(id, f, "stb") PROVE BeansApart'
  BY <1>9, OthersApart DEF SaveLocationRule, CreateFirmwareRuleOneDB
<1>10. ASSUME NEW id \in BeanIds, DeleteRule(id) PROVE BeansApart'
  BY <1>10, OthersApart DEF DeleteRule
<1>11. ASSUME NEW f \in RoundRobinForms, NEW app \in Apps, SaveRoundRobin(f, app) PROVE BeansApart'
  BY <1>11, FiltersApart DEF SaveRoundRobin
<1>12. ASSUME NEW f \in GlobalFilters, NEW app \in Apps, SavePercentFilter(f, app) PROVE BeansApart'
  <2>1. getGlobalPercentId(app) \notin BeanIds /\ app \notin BeanIds
    BY GlobalIdOf
  <2> DEFINE g == getGlobalPercentId(app)
             fr == ConvertIntoGlobalPercentage(f, app)
  <2>2. /\ store = [i \in BeanIds \cup GlobalIds |-> store[i]] /\ posted = [i \in BeanIds \cup Apps |-> posted[i]]
        /\ store' = [store EXCEPT ![g] = fr] /\ posted' = [posted EXCEPT ![app] = <<"global", f>>]
    BY <1>12 DEF BeanInv, TablesOK, SavePercentFilter
  <2> HIDE DEF g, fr
  <2>3. g \notin BeanIds
    BY <2>1 DEF g
  <2>4. \A i \in BeanIds : store'[i] = store[i] /\ posted'[i] = posted[i]
    BY <2>1, <2>2, <2>3
  <2>5. QED BY <2>4, FiltersApart
<1>13. CASE FilterNext
  BY <1>11, <1>12, <1>13 DEF FilterNext
<1>14. CASE FormNext
  BY <1>1, <1>2, <1>3, <1>4, <1>5, <1>6, <1>7, <1>8, <1>10, <1>14 DEF FormNext
<1>15. CASE QueryNext
  BY <1>3, <1>8, <1>9, <1>10, <1>11, <1>15, BeanIdsOK DEF QueryNext
<1>16. CASE UNCHANGED beanVars
  <2>1. \A i \in BeanIds : store'[i] = store[i] /\ posted'[i] = posted[i]
    BY <1>16 DEF beanVars
  <2>2. QED BY <2>1, FiltersApart
<1>17. QED BY <1>13, <1>14, <1>15, <1>16 DEF BeanNext

(* Beans that are saved one after the other stay apart: ValidateAll        *)
(* compares each with the ones that are read from the table, and           *)
(* EqualComplexRules does not mind which of two comes first.               *)
THEOREM BeansStayApart == BseSpec => [](BeanInv /\ BeansApart)
<1>1. BeanInit => BeanInv /\ BeansApart
  BY BeanInitInv, ApartInit
<1>2. BeanInv /\ BeansApart /\ [BeanNext \/ QueryNext]_beanVars => (BeanInv /\ BeansApart)'
  BY BeanStepInv, ApartStep
<1>3. QED BY <1>1, <1>2, PTL DEF BseSpec

-----------------------------------------------------------------------------
(* A bean that was accepted is accepted again.                             *)
Acceptable(cs) ==
    /\ IsInjective(cs)
    /\ \A i, j \in DOMAIN cs : ~validateDistributionOverlapping(cs[i], cs[j])
    /\ \A i \in DOMAIN cs : GivenRange(cs[i]) => cs[i].start < cs[i].end
    /\ \A i \in DOMAIN cs : cs[i].percentage \in 0..100 /\ cs[i].start \in 0..100 /\ cs[i].end \in 0..100

SharesOf(es) == [i \in DOMAIN es |-> es[i].percentage]
SameShares(cs, es) ==
    /\ Len(cs) = Len(es) /\ DOMAIN cs = DOMAIN es
    /\ \A i \in DOMAIN es : cs[i].config = es[i].config /\ cs[i].percentage = es[i].percentage

LEMMA StrictlyAscending ==
    ASSUME NEW n \in Nat, NEW T \in [0..n -> Int], \A i \in 1..n : T[i - 1] < T[i]
    PROVE  \A j \in 0..n : \A i \in 0..j : T[i] <= T[j] /\ (i < j => T[i] < T[j])
<1>1. ASSUME NEW i \in 1..n PROVE T[i - 1] <= T[i] /\ T[i - 1] \in Int /\ T[i] \in Int
  <2>1. i - 1 \in 0..n /\ i \in 0..n
    OBVIOUS
  <2>2. T[i - 1] \in Int /\ T[i] \in Int /\ T[i - 1] < T[i]
    BY <2>1
  <2>3. QED BY <2>2
<1>2. \A j \in 0..n : \A i \in 0..j : T[i] <= T[j]
  BY <1>1, Ascending
<1>3. ASSUME NEW j \in 0..n, NEW i \in 0..j, i < j PROVE T[i] < T[j]
  <2>1. j \in 1..n /\ j - 1 \in 0..n /\ i \in 0..(j - 1) /\ i \in 0..n
    BY <1>3
  <2>2. T[i] <= T[j - 1] /\ T[j - 1] < T[j] /\ T[i] \in Int /\ T[j - 1] \in Int /\ T[j] \in Int
    BY <1>1, <1>2, <2>1
  <2>3. QED BY <2>2
<1>4. QED BY <1>2, <1>3

LEMMA SameEntry == ASSUME NEW e \in ConfigEntries PROVE EqualEntries(e, e)
BY DEF EqualEntries, ConfigEntries

LEMMA ImplicitAccepted ==
    ASSUME NEW es \in Seq(ConfigEntries), \A e \in Range(es) : NoRange(e),
           \A e \in Range(es) : e.percentage \in 0..100 /\ e.percentage > 0,
           Totals(SharesOf(es))[Len(es)] <= 100
    PROVE  Acceptable(ConvertIntoPercentRange(es)) /\ SameShares(ConvertIntoPercentRange(es), es)
<1> DEFINE T == Totals(WidthsOf(es))
           cs == ConvertIntoPercentRange(es)
           n == Len(es)
<1>1. /\ T \in [0..n -> Int] /\ T[0] = 0 /\ n \in Nat /\ cs \in Seq(ConfigEntries) /\ Len(cs) = n /\ DOMAIN cs = 1..n
      /\ \A i \in 1..n :
           /\ es[i] \in ConfigEntries /\ es[i] \in Range(es) /\ T[i] = T[i - 1] + es[i].percentage
           /\ cs[i].start = T[i - 1] /\ cs[i].end = T[i] /\ cs[i].config = es[i].config
           /\ cs[i].percentage = es[i].percentage
      /\ WidthsOf(es) = SharesOf(es)
  BY ImplicitRanges DEF SharesOf
<1>2. DOMAIN es = 1..n
  BY SeqFacts
<1>3. T[n] <= 100
  BY <1>1
<1> HIDE DEF T, cs, n
<1>4. SameShares(cs, es)
  BY <1>1, <1>2 DEF SameShares, n
<1>5. ASSUME NEW k \in 1..n PROVE T[k - 1] < T[k]
  <2>1. k - 1 \in 0..n /\ k \in 0..n
    BY <1>1
  <2> DEFINE x == T[k - 1]
             p == es[k].percentage
  <2>2. x \in Int /\ p \in 0..100 /\ p > 0 /\ T[k] = x + p
    BY <1>1, <2>1
  <2> HIDE DEF x, p
  <2>3. x < x + p
    BY <2>2
  <2>4. QED BY <2>2, <2>3 DEF x
<1>6. \A j \in 0..n : \A i \in 0..j : T[i] <= T[j] /\ (i < j => T[i] < T[j])
  BY <1>1, <1>5, StrictlyAscending
<1>7. \A i \in 0..n : T[i] \in 0..100
  <2>1. ASSUME NEW i \in 0..n PROVE T[i] \in 0..100
    <3>1. 0 \in 0..i /\ i \in 0..n /\ n \in 0..n
      BY <1>1
    <3>2. T[0] <= T[i] /\ T[i] <= T[n]
      BY <1>6, <3>1
    <3>3. T[i] \in Int /\ T[n] \in Int
      BY <1>1, <3>1
    <3> DEFINE t == T[i]
               u == T[n]
    <3>4. t \in Int /\ u \in Int /\ 0 <= t /\ t <= u /\ u <= 100
      BY <1>1, <1>3, <3>2, <3>3
    <3> HIDE DEF t, u
    <3>5. t \in 0..100
      BY <3>4
    <3>6. QED BY <3>5 DEF t
  <2>2. QED BY <2>1
<1>8. ASSUME NEW i \in 1..n PROVE i - 1 \in 0..n /\ i \in 0..n /\ T[i - 1] \in Int /\ T[i] \in Int
  <2>1. i - 1 \in 0..n /\ i \in 0..n
    BY <1>1
  <2>2. QED BY <1>1, <2>1
<1>9. ASSUME NEW i \in 1..n, NEW j \in 1..n, T[i - 1] <= T[j - 1], T[j - 1] < T[i] PROVE i = j
  <2>1. ~(j < i)
    <3>1. ASSUME j < i PROVE FALSE
      <4>1. j - 1 \in 0..(i - 1) /\ j - 1 < i - 1
        BY <1>1, <3>1
      <4>2. T[j - 1] < T[i - 1]
        BY <1>6, <1>8, <4>1
      <4>3. QED BY <1>8, <1>9, <4>2
    <3>2. QED BY <3>1
  <2>2. ~(i < j)
    <3>1. ASSUME i < j PROVE FALSE
      <4>1. i \in 0..(j - 1)
        BY <1>1, <3>1
      <4>2. T[i] <= T[j - 1]
        BY <1>6, <1>8, <4>1
      <4>3. QED BY <1>8, <1>9, <4>2
    <3>2. QED BY <3>1
  <2>3. QED BY <1>1, <2>1, <2>2
<1>10. \A i, j \in DOMAIN cs : ~validateDistributionOverlapping(cs[i], cs[j])
  <2>1. ASSUME NEW i \in 1..n, NEW j \in 1..n, validateDistributionOverlapping(cs[i], cs[j]) PROVE FALSE
    <3>1. ~EqualEntries(cs[j], cs[i]) /\ cs[i].start <= cs[j].start /\ cs[j].start < cs[i].end
      BY <2>1 DEF validateDistributionOverlapping
    <3>2. T[i - 1] <= T[j - 1] /\ T[j - 1] < T[i]
      BY <1>1, <3>1
    <3>3. i = j
      BY <1>9, <3>2
    <3>4. cs[i] \in ConfigEntries
      BY <1>1, SeqFacts
    <3>5. QED BY <3>1, <3>3, <3>4, SameEntry
  <2>2. QED BY <1>1, <2>1
<1>11. IsInjective(cs)
  <2>1. ASSUME NEW i \in 1..n, NEW j \in 1..n, cs[i] = cs[j] PROVE i = j
    <3>1. T[i - 1] = T[j - 1]
      <4>1. cs[i].start = T[i - 1] /\ cs[j].start = T[j - 1]
        BY <1>1
      <4>2. cs[i].start = cs[j].start
        BY <2>1
      <4>3. QED BY <4>1, <4>2
    <3>2. T[i - 1] <= T[j - 1] /\ T[j - 1] < T[i]
      BY <1>5, <1>8, <3>1
    <3>3. QED BY <1>9, <3>2
  <2>2. QED BY <1>1, <2>1 DEF IsInjective
<1>12. \A i \in DOMAIN cs : cs[i].start < cs[i].end
  BY <1>1, <1>5
<1>13. \A i \in DOMAIN cs : cs[i].percentage \in 0..100 /\ cs[i].start \in 0..100 /\ cs[i].end \in 0..100
  <2>1. ASSUME NEW i \in 1..n PROVE cs[i].percentage \in 0..100 /\ cs[i].start \in 0..100 /\ cs[i].end \in 0..100
    <3>1. es[i].percentage \in 0..100
      BY <1>1
    <3>2. T[i - 1] \in 0..100 /\ T[i] \in 0..100
      BY <1>7, <1>8
    <3>3. QED BY <1>1, <3>1, <3>2
  <2>2. QED BY <1>1, <2>1
<1>14. Acceptable(cs)
  BY <1>10, <1>11, <1>12, <1>13 DEF Acceptable
<1>15. QED BY <1>4, <1>14 DEF cs

LEMMA SameTotal ==
    ASSUME NEW b, NEW c, SameShares(c.dists, b.dists)
    PROVE  Total(c) = Total(b)
<1>1. SharesOf(c.dists) = SharesOf(b.dists)
  BY DEF SharesOf, SameShares
<1>2. Len(c.dists) = Len(b.dists)
  BY DEF SameShares
<1>3. QED BY <1>1, <1>2 DEF Total, SharesOf

LEMMA StrictBean ==
    ASSUME NEW b, ValidateForAS(b) PROVE Acceptable(b.dists) /\ Validate(b) /\ \A e \in Range(b.dists) : e.percentage \in 0..100
<1> DEFINE es == b.dists
<1>1. \A e \in Range(es) : e.percentage \in 0..100 /\ e.start \in 0..100 /\ e.end \in 0..100
  BY DEF ValidateForAS, validatePercentageRangeForAS
<1>2. \A i \in DOMAIN es : es[i] \in Range(es)
  BY DEF Range
<1>3. /\ \A i, j \in DOMAIN es : ~validateDistributionOverlapping(es[i], es[j])
      /\ \A i \in DOMAIN es : GivenRange(es[i]) => es[i].start < es[i].end
  BY DEF ValidateForAS, Validate
<1>4. IsInjective(es) /\ Validate(b)
  BY DEF ValidateForAS
<1> HIDE DEF es
<1>5. \A i \in DOMAIN es : es[i].percentage \in 0..100 /\ es[i].start \in 0..100 /\ es[i].end \in 0..100
  BY <1>1, <1>2
<1>6. Acceptable(es)
  BY <1>3, <1>4, <1>5 DEF Acceptable
<1>7. QED BY <1>1, <1>4, <1>6 DEF es

LEMMA RangesAccepted ==
    ASSUME NEW b, b.dists \in Seq(ConfigEntries), ValidateForAS(b), Implicit(b) \/ Explicit(b),
           \A e \in Range(b.dists) : e.percentage > 0
    PROVE  Acceptable(ConvertIntoPercentRange(b.dists)) /\ SameShares(ConvertIntoPercentRange(b.dists), b.dists)
<1> DEFINE es == b.dists
<1>1. Acceptable(es) /\ Validate(b) /\ \A e \in Range(es) : e.percentage \in 0..100
  BY StrictBean
<1>2. CASE Explicit(b)
  <2>1. ConvertIntoPercentRange(es) = es
    BY <1>2, ExplicitRanges DEF Explicit
  <2>2. SameShares(es, es)
    BY DEF SameShares
  <2>3. QED BY <1>1, <2>1, <2>2
<1>3. CASE Implicit(b)
  <2>1. Totals(SharesOf(es))[Len(es)] <= 100
    BY <1>1 DEF Validate, Total, SharesOf
  <2>2. (\A e \in Range(es) : NoRange(e)) /\ \A e \in Range(es) : e.percentage \in 0..100 /\ e.percentage > 0
    BY <1>1, <1>3 DEF Implicit
  <2> HIDE DEF es
  <2>3. es \in Seq(ConfigEntries)
    BY DEF es
  <2>4. Acceptable(ConvertIntoPercentRange(es)) /\ SameShares(ConvertIntoPercentRange(es), es)
    BY <2>1, <2>2, <2>3, ImplicitAccepted
  <2>5. QED BY <2>4 DEF es
<1>4. QED BY <1>2, <1>3

NoEnvOrModel(opt) ==
    \A i \in DOMAIN opt : \A c \in Range(ToConditions(opt[i])) : ~(c.type = "STRING" /\ c.name \in {"env", "model"})

LEMMA ReadConditions ==
    ASSUME NEW b, GoodBean(b) PROVE NoEnvOrModel(ReadOpt(b))
<1>1. CASE b.opt = <<>>
  <2>1. ReadOpt(b) = <<>> /\ DOMAIN <<>> = {}
    BY <1>1 DEF ReadOpt
  <2>2. QED BY <2>1 DEF NoEnvOrModel
<1>2. CASE b.opt # <<>>
  <2>1. \E x : ReadOpt(b) = <<x>>
    BY <1>2 DEF ReadOpt
  <2>2. DOMAIN ReadOpt(b) = {1}
    BY <2>1
  <2>3. FlattenRule(ReadOpt(b)[1]) = FlattenRule(b.opt[1])
    BY <1>2, ReadOptHolds
  <2>4. ToConditions(ReadOpt(b)[1]) = ToConditions(b.opt[1])
    BY <2>3 DEF ToConditions
  <2>5. 1 \in DOMAIN b.opt
    BY <1>2 DEF GoodBean
  <2>6. QED BY <2>2, <2>4, <2>5 DEF NoEnvOrModel, GoodBean
<1>3. QED BY <1>1, <1>2

LEMMA ReadAccepted ==
    ASSUME NEW b \in PercentageBeans, GoodBean(b), ValidateForAS(b), Implicit(b) \/ Explicit(b),
           \A e \in Range(b.dists) : e.percentage > 0
    PROVE  ValidateForAS(ReadBean(b))
<1> DEFINE c == ReadBean(b)
           es == b.dists
           cs == c.dists
<1>0. es \in Seq(ConfigEntries)
  BY BeanForms
<1>1. /\ c.name = b.name /\ c.app = b.app /\ c.lkg = b.lkg /\ c.iv = b.iv /\ c.check = b.check
      /\ c.versions = b.versions /\ c.active = b.active /\ cs = ConvertIntoPercentRange(es)
      /\ c.env = b.env /\ c.model = b.model /\ c.opt = ReadOpt(b)
  BY <1>0, ReadBeanFields
<1>2. Acceptable(cs) /\ SameShares(cs, es)
  BY <1>0, <1>1, RangesAccepted
<1>3. Validate(b)
  BY DEF ValidateForAS
<1> HIDE DEF c
<1>4. Total(c) = Total(b)
  BY <1>2, SameTotal
<1>5. NoEnvOrModel(c.opt)
  BY <1>1, ReadConditions
<1>6. \A x : HasConfig(c, x) <=> HasConfig(b, x)
  BY <1>1 DEF HasConfig
<1>7. cs = <<>> <=> es = <<>>
  <2>1. DOMAIN cs = DOMAIN es /\ Len(cs) = Len(es)
    BY <1>2 DEF SameShares
  <2>2. cs \in Seq(ConfigEntries)
    BY <1>0, <1>1, RangesAre
  <2> HIDE DEF cs, es
  <2>3. QED BY <1>0, <2>1, <2>2
<1>8. LastKnownGoodOK(c)
  <2>1. LastKnownGoodOK(b)
    BY <1>3 DEF Validate
  <2>2. QED BY <1>1, <1>4, <1>6, <1>7, <2>1 DEF LastKnownGoodOK
<1>9. ASSUME NEW i \in DOMAIN cs
      PROVE  /\ \A j \in DOMAIN cs : ~validateDistributionOverlapping(cs[i], cs[j])
             /\ GivenRange(cs[i]) => cs[i].start < cs[i].end
             /\ HasConfig(c, cs[i].config) /\ (c.check => FwConfigs[cs[i].config].version \in c.versions)
  <2>1. i \in DOMAIN es /\ cs[i].config = es[i].config
    BY <1>2 DEF SameShares
  <2>2. HasConfig(b, es[i].config) /\ (b.check => FwConfigs[es[i].config].version \in b.versions)
    BY <1>3, <2>1 DEF Validate
  <2> HIDE DEF cs, es
  <2>3. QED BY <1>1, <1>2, <1>6, <2>1, <2>2 DEF Acceptable
<1>10. /\ c.name # Empty /\ c.model # Empty /\ c.app \in Apps /\ (c.check => c.versions # {}) /\ Total(c) <= 100
       /\ (c.iv # Empty => c.check /\ HasConfig(c, c.iv))
  BY <1>1, <1>3, <1>4, <1>6 DEF Validate
<1>11. Validate(c)
  BY <1>5, <1>8, <1>9, <1>10 DEF Validate, NoEnvOrModel
<1>12. ASSUME NEW e \in Range(cs), NEW x \in {e.percentage, e.start, e.end} PROVE validatePercentageRangeForAS(x)
  <2>1. PICK i \in DOMAIN cs : e = cs[i]
    BY DEF Range
  <2>2. QED BY <1>2, <1>12, <2>1 DEF Acceptable, validatePercentageRangeForAS
<1>13. IsInjective(cs)
  BY <1>2 DEF Acceptable
<1>14. ValidateForAS(c)
  BY <1>11, <1>12, <1>13 DEF ValidateForAS
<1>15. QED BY <1>14 DEF c

LEMMA AcceptedOK == BeanInv /\ DistinctBeans => AcceptedAgain
<1> SUFFICES ASSUME BeanInv, DistinctBeans, NEW id \in Saved, Kind(id) = "bean", Implicit(Form(id)) \/ Explicit(Form(id)),
                    \A j \in OfType(store[id].app, "ENV_MODEL_RULE") : FlatConditions(Form(j)),
                    \A e \in Range(Form(id).dists) : e.percentage > 0
             PROVE  LET b == ConvertFirmwareRuleToPercentageBean(store[id])
                    IN  ValidateForAS(b) /\ ValidateAll(b, BeansOf(b.app, id))
  BY DEF AcceptedAgain
<1> DEFINE b == Form(id)
           c == ConvertFirmwareRuleToPercentageBean(store[id])
<1>0. IsBean(id)
  BY DEF IsBean
<1>1. b \in PercentageBeans /\ store[id] = ConvertPercentageBeanToFirmwareRule(b) /\ Validate(b) /\ ValidateForAS(b)
  BY <1>0, SavedBean
<1>2. store[id].type = "ENV_MODEL_RULE" /\ store[id].app = b.app
  BY <1>1, BeanFields
<1>3. id \in OfType(store[id].app, "ENV_MODEL_RULE")
  BY <1>2, SavedSlot
<1>4. FlatConditions(b) /\ GoodBean(b)
  BY <1>1, <1>3, GoodBeans
<1>5. c = ReadBean(b)
  BY <1>1 DEF ReadBean
<1>6. c.app = b.app
  BY <1>1, <1>5, BeanForms, ReadBeanFields
<1>7. ValidateForAS(c)
  <2> HIDE DEF b, c
  <2>1. (Implicit(b) \/ Explicit(b)) /\ \A e \in Range(b.dists) : e.percentage > 0
    BY DEF b
  <2>2. QED BY <1>1, <1>4, <1>5, <2>1, ReadAccepted
<1>8. ASSUME NEW j \in OfType(b.app, "ENV_MODEL_RULE") \ {id}
      PROVE  LET o == ConvertFirmwareRuleToPercentageBean(store[j])
             IN  ~EqualFold(c.name, o.name) /\ Differ(c, o)
  <2>1. j \in Saved /\ store[j].app = b.app /\ store[j].type = "ENV_MODEL_RULE" /\ SavedAs(store[j], posted[j]) /\ j # id
    BY OfTypeFacts
  <2>2. IsBean(j)
    <3>1. IsStrict(store[j], posted[j]) \/ IsLenient(store[j], posted[j])
      BY <2>1, RulesOf
    <3>2. QED BY <3>1, TypesOf DEF IsBean, Kind
  <2>3. FlatConditions(Form(j))
    BY <1>2
  <2>4. store[id].app = store[j].app
    BY <1>2, <2>1
  <2> HIDE DEF b
  <2>5. QED BY <1>0, <1>4, <2>1, <2>2, <2>3, <2>4 DEF DistinctBeans, Differ, b
<1>9. ValidateAll(c, BeansOf(c.app, id))
  <2> HIDE DEF c
  <2>1. ASSUME NEW o \in BeansOf(b.app, id) PROVE ~EqualFold(c.name, o.name) /\ Differ(c, o)
    BY <1>8 DEF BeansOf
  <2>2. QED BY <1>6, <2>1 DEF ValidateAll, Differ
<1>10. QED BY <1>7, <1>9

LEMMA BeansAreSound == BeanInv /\ BeansApart => BeansSound
<1> SUFFICES ASSUME BeanInv, BeansApart PROVE BeansSound
  OBVIOUS
<1>1. DistinctBeans
  BY ApartIsDistinct
<1>2. BeansTypeOK /\ NoTwoConfigs /\ NobodyLeftOut /\ LocationDrawn
  BY BeansTypeHolds, NoTwoOK, LeftOutOK, DrawnOK
<1>3. AcceptedAgain
  BY <1>1, AcceptedOK
<1>4. QED BY <1>1, <1>2, <1>3 DEF BeansSound

(* Percentage beans that pass the validations are sound whatever is saved, *)
(* in which order, under which ids: no device is offered two               *)
(* configurations or none by one of them, no two of them are the same, and *)
(* each would be accepted again as ConvertFirmwareRuleToPercentageBean     *)
(* reads it; every draw of an accepted round robin filter lands on a       *)
(* location.                                                               *)
THEOREM BeansStaySound == BseSpec => []BeansSound
BY BeansStayApart, BeansAreSound, PTL
-----------------------------------------------------------------------------
(* BSE requests.  The rules engine and GetBseConfiguration agree on IP     *)
(* rules: membership of the list the rule names.                           *)
LEMMA NamedList ==
    ASSUME NEW n \in STRING, NEW l \in STRING, NEW ctx, ctx[n] \notin {Absent, Empty}
    PROVE  GoodLeaf(InList(n, l)) /\ (Evaluate(InList(n, l), ctx) <=> IsInList(ctx[n], l))
<1> DEFINE c == Cond("STRING", n, "IN_LIST", Str(l))
<1>1. "STRING" \in STRING /\ "IN_LIST" \in STRING
  BY WordsOK
<1>2. c \in AllConditions /\ HasEvaluator(c)
  BY <1>1, CondType, ArgTypes, EvaluatorFacts
<1>3. c.type = "STRING" /\ c.name = n /\ c.op = "IN_LIST" /\ c.fixed.kind = "string" /\ c.fixed.str = l
  BY DEF Cond, Str
<1>4. InList(n, l) = Leaf(c)
  BY DEF InList
<1> HIDE DEF c
<1>5. Satisfies(c, ctx[n]) <=> IsInList(ctx[n], l)
  BY <1>3 DEF Satisfies, Text, Comparisons
<1>6. EvaluateCondition(c, ctx) <=> IsInList(ctx[n], l)
  BY <1>3, <1>5 DEF EvaluateCondition
<1>7. QED BY <1>2, <1>4, <1>6, LeafOf, LeafEvaluates

LEMMA IpRuleHolds ==
    ASSUME NEW g \in STRING, NEW e \in Values, NEW m \in Values, NEW a \in Values
    PROVE  Evaluate(NewIpRule(g, e, m), [ipAddress |-> a, env |-> e, model |-> m]) <=> IsInList(a, g)
<1> DEFINE ctx == [ipAddress |-> a, env |-> e, model |-> m]
           x == InList("ipAddress", g)
           y == IsText("env", e)
           z == IsText("model", m)
<1>0. "ipAddress" \in STRING /\ "env" \in STRING /\ "model" \in STRING /\ e \in STRING /\ m \in STRING
      /\ a \notin {Absent, Empty} /\ e \notin {Absent, Empty} /\ m \notin {Absent, Empty}
  BY WordsOK, ValuesOK
<1>1. ctx["ipAddress"] = a /\ ctx["env"] = e /\ ctx["model"] = m
  OBVIOUS
<1> HIDE DEF ctx
<1>2. GoodLeaf(x) /\ (Evaluate(x, ctx) <=> IsInList(a, g))
  BY <1>0, <1>1, NamedList
<1>3. GoodLeaf(y) /\ Evaluate(y, ctx)
  BY <1>0, <1>1, TextLeaves
<1>4. GoodLeaf(z) /\ Evaluate(z, ctx)
  BY <1>0, <1>1, TextLeaves
<1>5. NewIpRule(g, e, m) = AndRules(AndRules(x, y), z)
  BY DEF NewIpRule
<1> HIDE DEF x, y, z
<1>6. 1 \in 1..MaxDepth /\ 1 - 1 = 0 /\ Chain(x, 1) /\ y \in Rules[0] /\ z \in Rules[0]
  BY <1>2, <1>3, <1>4, DepthOK DEF GoodLeaf
<1> DEFINE u == AndRules(x, y)
<1>7. Chain(u, 1) /\ (Evaluate(u, ctx) <=> Evaluate(x, ctx) /\ Evaluate(y, ctx))
  BY <1>6, AndHolds
<1> HIDE DEF u
<1>8. Evaluate(AndRules(u, z), ctx) <=> Evaluate(u, ctx) /\ Evaluate(z, ctx)
  BY <1>6, <1>7, AndHolds
<1>9. Evaluate(NewIpRule(g, e, m), ctx) <=> IsInList(a, g)
  BY <1>2, <1>3, <1>4, <1>5, <1>7, <1>8 DEF u
<1>10. QED BY <1>9 DEF ctx

LEMMA AnswersServe ==
    ASSUME NEW b \in IpRuleBeans, NEW app, NEW a \in Addresses4
    PROVE  Answers(IpRuleOf(b, app), a) <=> Serves(IpRuleOf(b, app), a)
<1> DEFINE fr == IpRuleOf(b, app)
<1>1. b \in [name : STRING, group : STRING, env : Values, model : Values, config : DOMAIN FwConfigs \cup {Empty}]
      /\ Empty \notin DOMAIN FwConfigs
  BY BeanFormsOK
<1>2. b.group \in STRING /\ b.env \in Values /\ b.model \in Values /\ a \in Values
  BY <1>1, QueriesOK
<1>3. fr.type = "IP_RULE" /\ fr.app = app /\ fr.rule = NewIpRule(b.group, b.env, b.model) /\ fr.action.config = b.config
  BY IpRuleFields
<1>4. ConvertFirmwareRuleToIpRuleBean(fr) = b
  BY IpRuleReads
<1> HIDE DEF fr
<1>5. Evaluate(fr.rule, [ipAddress |-> a, env |-> b.env, model |-> b.model]) <=> IsInList(a, b.group)
  <2> DEFINE g == b.group
             e == b.env
             m == b.model
  <2>1. g \in STRING /\ e \in Values /\ m \in Values /\ fr.rule = NewIpRule(g, e, m)
    BY <1>2, <1>3
  <2> HIDE DEF g, e, m
  <2>2. Evaluate(NewIpRule(g, e, m), [ipAddress |-> a, env |-> e, model |-> m]) <=> IsInList(a, g)
    BY <1>2, <2>1, IpRuleHolds
  <2>3. QED BY <2>1, <2>2 DEF g, e, m
<1>6. a \in Group(b.group).ips <=> IsInList(a, b.group)
  BY DEF Group, IsInList
<1>7. fr.action.config \in DOMAIN FwConfigs => ~IsNoopRule(fr)
  BY <1>1 DEF IsNoopRule
<1>8. Answers(fr, a) <=> fr.app = "stb" /\ fr.action.config \in DOMAIN FwConfigs /\ IsInList(a, b.group)
  BY <1>3, <1>4, <1>6, <1>7 DEF Answers
<1>9. Serves(fr, a) <=> fr.app = "stb" /\ fr.action.config \in DOMAIN FwConfigs /\ IsInList(a, b.group)
  BY <1>3, <1>4, <1>5 DEF Serves
<1>10. QED BY <1>8, <1>9 DEF fr

LEMMA StoredServe ==
    ASSUME BeanInv, NEW id \in Stored, NEW a \in Addresses4
    PROVE  Answers(store[id], a) <=> Serves(store[id], a)
<1>1. CASE store[id].type # "IP_RULE"
  BY <1>1 DEF Answers, Serves
<1>2. CASE store[id].type = "IP_RULE"
  <2>1. id \in OfType(store[id].app, "IP_RULE")
    BY <1>2 DEF OfType
  <2>2. SavedAs(store[id], posted[id])
    BY <2>1, OfTypeFacts
  <2>3. IsIpRule(store[id], posted[id])
    BY <1>2, <2>2, RulesOf
  <2>4. PICK b \in IpRuleBeans, app \in Apps : store[id] = IpRuleOf(b, app)
    BY <2>3 DEF IsIpRule
  <2>5. QED BY <2>4, AnswersServe
<1>3. QED BY <1>1, <1>2

(* The table as GetFirmwareSortedRuleAllAsListDB lists it.                 *)
LEMMA StoredFinite == ASSUME BeanInv PROVE IsFiniteSet(Stored)
<1> DEFINE f == [app \in Apps |-> getGlobalPercentId(app)]
<1>1. f \in [Apps -> GlobalIds]
  BY GlobalIdOf
<1>2. \A id \in GlobalIds : \E app \in Apps : f[app] = id
  BY GlobalIdsOf
<1>3. \A x, y \in Apps : f[x] = f[y] => x = y
  BY BeanIdsOK
<1> HIDE DEF f
<1>4. f \in Bijection(Apps, GlobalIds)
  BY <1>1, <1>2, <1>3 DEF Bijection, Injection, Surjection, IsInjective
<1>5. ExistsBijection(Apps, GlobalIds)
  BY <1>4 DEF ExistsBijection
<1>6. IsFiniteSet(GlobalIds)
  BY <1>5, BeanIdsOK, FS_Bijection
<1>7. IsFiniteSet(BeanIds \cup GlobalIds)
  BY <1>6, BeanIdsOK, FS_Union
<1>8. Stored \subseteq BeanIds \cup GlobalIds
  BY StoredRules
<1>9. QED BY <1>7, <1>8, FS_Subset

Rank(id) == NameRank[store[id].name]
SortedTable(order) ==
    /\ order \in Seq(Stored) /\ \A id \in Stored : \E i \in 1..Len(order) : order[i] = id
    /\ \A i, j \in 1..Len(order) : i < j => Rank(order[i]) <= Rank(order[j])

LEMMA OrderLists ==
    ASSUME BeanInv, NEW order \in GetFirmwareSortedRuleAllAsListDB PROVE SortedTable(order)
<1> DEFINE n == Cardinality(Stored)
           D == 1..n
<1>0. IsFiniteSet(Stored) /\ n \in Nat
  BY StoredFinite, FS_CardinalityType
<1>1. order \in SetToSeqs(Stored) /\ \A i, j \in DOMAIN order : i < j => Rank(order[i]) <= Rank(order[j])
  BY DEF GetFirmwareSortedRuleAllAsListDB, Rank
<1>2. order \in [D -> Stored] /\ \A i, j \in D : i # j => order[i] # order[j]
  BY <1>1 DEF SetToSeqs
<1>3. order \in Injection(D, Stored)
  BY <1>2 DEF Injection, IsInjective
<1>4. Cardinality(D) = n
  <2>1. 1 \in Int /\ n \in Int
    BY <1>0
  <2> HIDE DEF n
  <2>2. Cardinality(1..n) = IF 1 > n THEN 0 ELSE n - 1 + 1
    BY <2>1, FS_Interval
  <2>3. (IF 1 > n THEN 0 ELSE n - 1 + 1) = n
    BY <1>0
  <2>4. QED BY <2>2, <2>3
<1>5. order \in Surjection(D, Stored)
  BY <1>0, <1>3, <1>4, FS_Injection
<1>6. \A id \in Stored : \E i \in D : order[i] = id
  BY <1>5 DEF Surjection
<1> HIDE DEF n
<1>7. order \in Seq(Stored) /\ Len(order) = n /\ DOMAIN order = 1..n
  <2>1. order \in Seq(Stored)
    BY <1>0, <1>2, SeqDef
  <2>2. DOMAIN order = 1..n /\ Len(order) \in Nat /\ DOMAIN order = 1..Len(order)
    BY <1>2, <2>1, SeqFacts
  <2>3. Len(order) = n
    BY <1>0, <1>2, <2>1, LenProperties
  <2>4. QED BY <2>1, <2>2, <2>3
<1>8. QED BY <1>1, <1>6, <1>7 DEF SortedTable

(* The first loop of GetBseConfiguration.                                  *)
ModelsOf(order, a) ==
    {ModelConfig(store[order[j]]) : j \in {j \in 1..Len(order) : Answers(store[order[j]], a)}}
Collects(order, a, g) ==
    /\ g \in [0..Len(order) -> Seq(ModelsOf(order, a))] /\ g[0] = <<>>
    /\ \A i \in 1..Len(order) :
         g[i] = IF Answers(store[order[i]], a) THEN Append(g[i - 1], ModelConfig(store[order[i]])) ELSE g[i - 1]
    /\ ModelConfigs(order, a) = g[Len(order)]

LEMMA ModelsLoop ==
    ASSUME NEW S, NEW order \in Seq(S), NEW a PROVE \E g : Collects(order, a, g)
<1> DEFINE n == Len(order)
           X == Seq(ModelsOf(order, a))
           Next1(i, x) == IF Answers(store[order[i]], a) THEN Append(x, ModelConfig(store[order[i]])) ELSE x
           step == [i \in 1..n |-> [x \in X |-> Next1(i, x)]]
           Is(f) == f = [i \in 0..n |-> IF i = 0 THEN <<>> ELSE Next1(i, f[i - 1])]
<1>0. n \in Nat
  BY SeqFacts
<1>1. <<>> \in X
  BY EmptySeq
<1>2. Steps(n, X, step)
  <2>1. ASSUME NEW i \in 1..n, NEW x \in X PROVE Next1(i, x) \in X
    <3>1. CASE Answers(store[order[i]], a)
      <4>1. ModelConfig(store[order[i]]) \in ModelsOf(order, a)
        BY <3>1 DEF ModelsOf
      <4>2. Append(x, ModelConfig(store[order[i]])) \in X
        BY <4>1, AppendFacts
      <4>3. QED BY <3>1, <4>2
    <3>2. CASE ~Answers(store[order[i]], a)
      BY <3>2
    <3>3. QED BY <3>1, <3>2
  <2> HIDE DEF Next1, X
  <2>2. QED BY <2>1 DEF Steps
<1>3. PICK g : IsLoop(g, n, X, <<>>, step)
  <2> HIDE DEF step, X
  <2>1. QED BY <1>0, <1>1, <1>2, LoopExists
<1>4. g \in [0..n -> X] /\ g[0] = <<>> /\ \A i \in 1..n : g[i] = step[i][g[i - 1]]
  BY <1>3 DEF IsLoop
<1> HIDE DEF Next1
<1>5. ASSUME NEW i \in 1..n PROVE g[i] = Next1(i, g[i - 1])
  <2>1. i - 1 \in 0..n
    BY <1>0
  <2>2. g[i - 1] \in X
    BY <1>4, <2>1
  <2> HIDE DEF X
  <2>3. QED BY <1>4, <2>2
<1> HIDE DEF step, X, n
<1>6. Is(g)
  <2>1. ASSUME NEW i \in 0..n PROVE g[i] = IF i = 0 THEN <<>> ELSE Next1(i, g[i - 1])
    <3>1. CASE i = 0
      BY <1>4, <3>1
    <3>2. CASE i # 0
      <4>1. i \in 1..n
        BY <1>0, <3>2, FirstOrLater
      <4>2. QED BY <1>5, <3>2, <4>1
    <3>3. QED BY <3>1, <3>2
  <2>2. QED BY <1>4, <2>1
<1>7. PICK f : Is(f) /\ ModelConfigs(order, a) = f[n]
  BY <1>6 DEF ModelConfigs, Next1, n
<1>8. \A i \in 0..n : f[i] = g[i]
  <2>1. f[0] = g[0]
    BY <1>0, <1>4, <1>7
  <2>2. ASSUME NEW i \in 1..n, f[i - 1] = g[i - 1] PROVE f[i] = g[i]
    <3>1. i \in 0..n /\ i # 0
      BY <1>0
    <3>2. f[i] = Next1(i, f[i - 1])
      BY <1>7, <3>1
    <3>3. QED BY <1>5, <2>2, <3>2
  <2>3. SameSteps(n, f, g)
    BY <2>1, <2>2 DEF SameSteps
  <2>4. QED BY <1>0, <2>3, LoopUnique
<1>9. ModelConfigs(order, a) = g[n]
  BY <1>0, <1>7, <1>8
<1>10. Collects(order, a, g)
  BY <1>4, <1>5, <1>9 DEF Collects, X, n, Next1
<1>11. QED BY <1>10

LEMMA ModelsAre ==
    ASSUME NEW S, NEW order \in Seq(S), NEW a
    PROVE  ModelConfigs(order, a) \in Seq(ModelsOf(order, a)) /\ Range(ModelConfigs(order, a)) = ModelsOf(order, a)
<1> DEFINE n == Len(order)
           M == ModelsOf(order, a)
<1>0. n \in Nat
  BY SeqFacts
<1>1. PICK g : Collects(order, a, g)
  BY ModelsLoop
<1>2. g \in [0..n -> Seq(M)] /\ g[0] = <<>> /\ ModelConfigs(order, a) = g[n]
  BY <1>1 DEF Collects
<1>3. ASSUME NEW i \in 1..n
      PROVE  g[i] = IF Answers(store[order[i]], a) THEN Append(g[i - 1], ModelConfig(store[order[i]])) ELSE g[i - 1]
  BY <1>1 DEF Collects
<1> DEFINE In(i, j) == Answers(store[order[j]], a) => ModelConfig(store[order[j]]) \in Range(g[i])
           G == {i \in 0..n : \A j \in 1..i : In(i, j)}
<1>4. 0 \in G
  BY <1>0
<1>5. ASSUME NEW i \in 0..n, i < n, i \in G PROVE i + 1 \in G
  <2>1. i + 1 \in 1..n /\ (i + 1) - 1 = i /\ i + 1 \in 0..n /\ 1..(i + 1) = 1..i \cup {i + 1}
    <3> HIDE DEF G, n
    <3>1. QED BY <1>0, <1>5
  <2> DEFINE s == g[i]
             e == ModelConfig(store[order[i + 1]])
             t == Append(s, e)
  <2>2. s \in Seq(M) /\ \A j \in 1..i : In(i, j)
    BY <1>2, <1>5
  <2>3. g[i + 1] = IF Answers(store[order[i + 1]], a) THEN t ELSE s
    BY <1>3, <2>1
  <2>4. CASE ~Answers(store[order[i + 1]], a)
    <3>1. g[i + 1] = g[i]
      BY <2>3, <2>4
    <3>2. \A j \in 1..(i + 1) : In(i + 1, j)
      BY <2>1, <2>2, <2>4, <3>1
    <3>3. QED BY <2>1, <3>2
  <2>5. CASE Answers(store[order[i + 1]], a)
    <3>1. g[i + 1] = t
      BY <2>3, <2>5
    <3>2. e \in M
      BY <2>1, <2>5 DEF ModelsOf
    <3>3. e \in Range(t) /\ Range(s) \subseteq Range(t)
      <4> HIDE DEF M, e, s
      <4>1. Len(s) \in Nat /\ DOMAIN s = 1..Len(s)
        BY <2>2, SeqFacts
      <4>2. Len(t) = Len(s) + 1 /\ t[Len(s) + 1] = e /\ (\A k \in 1..Len(s) : t[k] = s[k]) /\ t \in Seq(M)
        BY <2>2, <3>2, AppendFacts
      <4>3. DOMAIN t = 1..(Len(s) + 1)
        BY <4>2, SeqFacts
      <4> HIDE DEF t
      <4>4. QED BY <4>1, <4>2, <4>3 DEF Range
    <3>4. \A j \in 1..(i + 1) : In(i + 1, j)
      BY <2>1, <2>2, <3>1, <3>3
    <3>5. QED BY <2>1, <3>4
  <2>6. QED BY <2>4, <2>5
<1>6. 0..n \subseteq G
  <2> HIDE DEF G, n
  <2>1. QED BY <1>0, <1>4, <1>5, Induction
<1>7. n \in G /\ n \in 0..n
  BY <1>0, <1>6
<1>8. M \subseteq Range(g[n])
  BY <1>7 DEF ModelsOf
<1>9. Range(g[n]) \subseteq M
  <2>1. g[n] \in Seq(M)
    BY <1>2, <1>7
  <2>2. \A k \in DOMAIN g[n] : g[n][k] \in M
    BY <2>1, SeqFacts
  <2>3. QED BY <2>2 DEF Range
<1>10. QED BY <1>2, <1>7, <1>8, <1>9

(* The second loop: the last filter that gives a location decides.         *)
GivesLocation(order, a, k) == Locates(store[order[k]], a) /\ store[order[k]].action.props[2] # Empty
Decides(order, a, c, i, k) ==
    /\ k \in 1..i /\ GivesLocation(order, a, k) /\ \A j \in 1..i : GivesLocation(order, a, j) => j <= k
    /\ c.location = store[order[k]].action.props[2]
    /\ c.protocol = IF store[order[k]].action.props[1] = "tftp" THEN "tftp" ELSE "http"
Settled(order, a, c0, c, i) ==
    /\ c.models = c0.models
    /\ (\A j \in 1..i : ~GivesLocation(order, a, j)) => c = c0
    /\ (\E j \in 1..i : GivesLocation(order, a, j)) => \E k : Decides(order, a, c, i, k)

Answered(models, P, L, V) == [models : {models}, protocol : P, location : L, ipv6 : V]

LEMMA SetupFacts ==
    ASSUME NEW m, NEW P, NEW L, NEW V, NEW c \in Answered(m, P, L, V), NEW fr,
           {"tftp", "http"} \subseteq P, fr.action.props[2] \in L, fr.action.props[3] \in V
    PROVE  LET d == SetupLocations(fr, c)
           IN  /\ d \in Answered(m, P, L, V)
               /\ fr.action.props[2] = Empty => d = c
               /\ fr.action.props[2] # Empty =>
                    d.location = fr.action.props[2] /\ d.protocol = IF fr.action.props[1] = "tftp" THEN "tftp" ELSE "http"
<1> DEFINE p == fr.action.props[1]
           l == fr.action.props[2]
           v == fr.action.props[3]
           q == IF p = "tftp" THEN "tftp" ELSE "http"
           w == IF v # Empty THEN v ELSE c.ipv6
           d == SetupLocations(fr, c)
<1>1. d = IF l = Empty THEN c ELSE [c EXCEPT !.protocol = q, !.location = l, !.ipv6 = w]
  BY DEF SetupLocations
<1>2. q \in P /\ l \in L /\ w \in V /\ c \in [models : {m}, protocol : P, location : L, ipv6 : V]
  BY DEF Answered
<1> HIDE DEF d, q, l, w
<1>3. CASE l = Empty
  BY <1>1, <1>3 DEF d, l
<1>4. CASE l # Empty
  <2>1. d \in [models : {m}, protocol : P, location : L, ipv6 : V] /\ d.location = l /\ d.protocol = q
    BY <1>1, <1>2, <1>4
  <2>2. QED BY <1>4, <2>1 DEF d, l, q, p, Answered
<1>5. QED BY <1>3, <1>4

Places(order) == {store[order[i]].action.props[2] : i \in 1..Len(order)}
Places6(order) == {store[order[i]].action.props[3] : i \in 1..Len(order)}
BseOf(order, c) ==
    Answered(c.models, {"tftp", "http", c.protocol}, Places(order) \cup {c.location}, Places6(order) \cup {c.ipv6})
AfterRule(order, a, i, c) == IF Locates(store[order[i]], a) THEN SetupLocations(store[order[i]], c) ELSE c

Sets(order, a, c0, g) ==
    /\ g \in [0..Len(order) -> BseOf(order, c0)] /\ g[0] = c0
    /\ \A i \in 1..Len(order) : g[i] = AfterRule(order, a, i, g[i - 1])

LEMMA LocationsLoop ==
    ASSUME NEW S, NEW order \in Seq(S), NEW a, NEW random, ModelConfigs(order, a) # <<>>,
           NEW c0, c0 = Drawn(ModelConfigs(order, a), random), c0 \in BseOf(order, c0)
    PROVE  \E g : Sets(order, a, c0, g) /\ GetBseConfiguration(order, a, random) = g[Len(order)]
<1> DEFINE n == Len(order)
           X == BseOf(order, c0)
           Next1(i, x) == AfterRule(order, a, i, x)
           step == [i \in 1..n |-> [x \in X |-> Next1(i, x)]]
           Is(f) == f = [i \in 0..n |-> IF i = 0 THEN c0 ELSE Next1(i, f[i - 1])]
<1>0. n \in Nat
  BY SeqFacts
<1>1. c0 \in X
  OBVIOUS
<1>2. Steps(n, X, step)
  <2>1. ASSUME NEW i \in 1..n, NEW x \in X PROVE Next1(i, x) \in X
    <3> DEFINE fr == store[order[i]]
               P == {"tftp", "http", c0.protocol}
               L == Places(order) \cup {c0.location}
               V == Places6(order) \cup {c0.ipv6}
    <3>1. x \in Answered(c0.models, P, L, V) /\ X = Answered(c0.models, P, L, V)
      BY DEF BseOf
    <3>2. {"tftp", "http"} \subseteq P /\ fr.action.props[2] \in L /\ fr.action.props[3] \in V
      BY DEF Places, Places6
    <3> HIDE DEF P, L, V, X, fr
    <3>3. SetupLocations(fr, x) \in Answered(c0.models, P, L, V)
      BY <3>1, <3>2, SetupFacts
    <3>4. QED BY <3>1, <3>3 DEF AfterRule, fr
  <2> HIDE DEF Next1, X
  <2>2. QED BY <2>1 DEF Steps
<1>3. PICK g : IsLoop(g, n, X, c0, step)
  <2> HIDE DEF step, X
  <2>1. QED BY <1>0, <1>1, <1>2, LoopExists
<1>4. g \in [0..n -> X] /\ g[0] = c0 /\ \A i \in 1..n : g[i] = step[i][g[i - 1]]
  BY <1>3 DEF IsLoop
<1> HIDE DEF Next1
<1>5. ASSUME NEW i \in 1..n PROVE g[i] = Next1(i, g[i - 1])
  <2>1. i - 1 \in 0..n
    BY <1>0
  <2>2. g[i - 1] \in X
    BY <1>4, <2>1
  <2> HIDE DEF X
  <2>3. QED BY <1>4, <2>2
<1> HIDE DEF step, X, n
<1>6. Is(g)
  <2>1. ASSUME NEW i \in 0..n PROVE g[i] = IF i = 0 THEN c0 ELSE Next1(i, g[i - 1])
    <3>1. CASE i = 0
      BY <1>4, <3>1
    <3>2. CASE i # 0
      <4>1. i \in 1..n
        BY <1>0, <3>2, FirstOrLater
      <4>2. QED BY <1>5, <3>2, <4>1
    <3>3. QED BY <3>1, <3>2
  <2>2. QED BY <1>4, <2>1
<1>7. PICK f : Is(f) /\ GetBseConfiguration(order, a, random) = f[n]
  BY <1>6 DEF GetBseConfiguration, AfterRule, Next1, n
<1>8. \A i \in 0..n : f[i] = g[i]
  <2>1. f[0] = g[0]
    BY <1>0, <1>4, <1>7
  <2>2. ASSUME NEW i \in 1..n, f[i - 1] = g[i - 1] PROVE f[i] = g[i]
    <3>1. i \in 0..n /\ i # 0
      BY <1>0
    <3>2. f[i] = Next1(i, f[i - 1])
      BY <1>7, <3>1
    <3>3. QED BY <1>5, <2>2, <3>2
  <2>3. SameSteps(n, f, g)
    BY <2>1, <2>2 DEF SameSteps
  <2>4. QED BY <1>0, <2>3, LoopUnique
<1>9. GetBseConfiguration(order, a, random) = g[n]
  BY <1>0, <1>7, <1>8
<1>10. Sets(order, a, c0, g)
  BY <1>4, <1>5 DEF Sets, X, n, Next1
<1>11. QED BY <1>9, <1>10 DEF n

(* One more rule of the list.                                              *)
LEMMA SettledStep ==
    ASSUME NEW order, NEW a, NEW c0, NEW i \in Nat, NEW c \in BseOf(order, c0), Settled(order, a, c0, c, i),
           i + 1 \in 1..Len(order)
    PROVE  Settled(order, a, c0, AfterRule(order, a, i + 1, c), i + 1)
<1> DEFINE fr == store[order[i + 1]]
           d == AfterRule(order, a, i + 1, c)
           m == c0.models
           P == {"tftp", "http", c0.protocol}
           L == Places(order) \cup {c0.location}
           V == Places6(order) \cup {c0.ipv6}
<1>1. c \in Answered(m, P, L, V) /\ {"tftp", "http"} \subseteq P /\ fr.action.props[2] \in L /\ fr.action.props[3] \in V
  BY DEF BseOf, Places, Places6
<1>2. d = IF Locates(fr, a) THEN SetupLocations(fr, c) ELSE c
  BY DEF AfterRule
<1>3. GivesLocation(order, a, i + 1) <=> Locates(fr, a) /\ fr.action.props[2] # Empty
  BY DEF GivesLocation
<1>4. 1..(i + 1) = 1..i \cup {i + 1} /\ i + 1 \in 1..(i + 1) /\ \A j \in 1..(i + 1) : j <= i + 1
  OBVIOUS
<1> HIDE DEF m, P, L, V
<1>5. /\ SetupLocations(fr, c) \in Answered(m, P, L, V)
      /\ fr.action.props[2] = Empty => SetupLocations(fr, c) = c
      /\ fr.action.props[2] # Empty =>
           /\ SetupLocations(fr, c).location = fr.action.props[2]
           /\ SetupLocations(fr, c).protocol = IF fr.action.props[1] = "tftp" THEN "tftp" ELSE "http"
  BY <1>1, SetupFacts
<1>6. SetupLocations(fr, c).models = m
  BY <1>5 DEF Answered
<1>7. CASE ~GivesLocation(order, a, i + 1)
  <2>1. d = c
    BY <1>2, <1>3, <1>5, <1>7
  <2> HIDE DEF d
  <2>2. (\A j \in 1..(i + 1) : ~GivesLocation(order, a, j)) <=> (\A j \in 1..i : ~GivesLocation(order, a, j))
    BY <1>4, <1>7
  <2>3. ASSUME NEW k, Decides(order, a, c, i, k) PROVE Decides(order, a, c, i + 1, k)
    BY <1>4, <1>7, <2>3 DEF Decides
  <2>4. QED BY <2>1, <2>2, <2>3 DEF Settled, d
<1>8. CASE GivesLocation(order, a, i + 1)
  <2>1. d = SetupLocations(fr, c) /\ fr.action.props[2] # Empty
    BY <1>2, <1>3, <1>8
  <2> HIDE DEF d
  <2>2. d.models = m /\ d.location = fr.action.props[2] /\ d.protocol = IF fr.action.props[1] = "tftp" THEN "tftp" ELSE "http"
    BY <1>5, <1>6, <2>1
  <2>3. Decides(order, a, d, i + 1, i + 1)
    BY <1>4, <1>8, <2>2 DEF Decides
  <2>4. QED BY <1>4, <1>8, <2>2, <2>3 DEF Settled, d, m
<1>9. QED BY <1>7, <1>8

LEMMA BseSettled ==
    ASSUME NEW S, NEW order \in Seq(S), NEW a, NEW random, ModelConfigs(order, a) # <<>>
    PROVE  Settled(order, a, Drawn(ModelConfigs(order, a), random), GetBseConfiguration(order, a, random), Len(order))
<1> DEFINE n == Len(order)
           c0 == Drawn(ModelConfigs(order, a), random)
<1>0. n \in Nat
  BY SeqFacts
<1>1. c0 \in BseOf(order, c0)
  BY DEF BseOf, Answered, Drawn, Bse
<1> HIDE DEF c0
<1>2. PICK g : Sets(order, a, c0, g) /\ GetBseConfiguration(order, a, random) = g[n]
  BY <1>1, LocationsLoop DEF c0
<1>3. g \in [0..n -> BseOf(order, c0)] /\ g[0] = c0 /\ \A i \in 1..n : g[i] = AfterRule(order, a, i, g[i - 1])
  BY <1>2 DEF Sets
<1> DEFINE G == {i \in 0..n : Settled(order, a, c0, g[i], i)}
<1>4. 0 \in G
  <2>1. 1..0 = {} /\ 0 \in 0..n
    BY <1>0
  <2>2. QED BY <1>3, <2>1 DEF Settled
<1> HIDE DEF n
<1>5. ASSUME NEW i \in 0..n, i < n, i \in G PROVE i + 1 \in G
  <2>1. i + 1 \in 1..n /\ (i + 1) - 1 = i /\ i + 1 \in 0..n /\ i \in Nat
    <3> HIDE DEF G
    <3>1. QED BY <1>0, <1>5
  <2>2. g[i] \in BseOf(order, c0) /\ Settled(order, a, c0, g[i], i) /\ g[i + 1] = AfterRule(order, a, i + 1, g[i])
    BY <1>3, <1>5, <2>1
  <2>3. Settled(order, a, c0, g[i + 1], i + 1)
    BY <2>1, <2>2, SettledStep DEF n
  <2>4. QED BY <2>1, <2>3
<1>6. 0..n \subseteq G
  <2> HIDE DEF G
  <2>1. QED BY <1>0, <1>4, <1>5, Induction
<1>7. n \in G
  BY <1>0, <1>6
<1>8. QED BY <1>2, <1>7 DEF c0, n

(* Location filters: the rules engine and IsIpAddressInRange agree.        *)
LEMMA AddressLeaf ==
    ASSUME NEW r \in AllRules, ~r.compound, ~r.negated, AddressCondition(r.cond),
           NEW ctx, NEW a \in Values, ctx["ipAddress"] = a
    PROVE  Evaluate(r, ctx) <=> InRange(r.cond, a)
<1> DEFINE c == r.cond
<1>1. /\ c.type = "STRING" /\ c.name = "ipAddress" /\ c.op \in {"IS", "IN", "IN_LIST"}
      /\ c.fixed.kind = IF c.op = "IN" THEN "collection" ELSE "string"
  BY DEF AddressCondition, On
<1>2. a \notin {Absent, Empty}
  BY ValuesOK
<1>3. Evaluate(r, ctx) = evaluateWithNegation(r, ctx)
  BY EvaluateUnfolds
<1>4. r.negated = FALSE
  BY RuleParts
<1> HIDE DEF c
<1>5. HasEvaluator(c)
  BY <1>1 DEF HasEvaluator, Evaluators
<1>6. Satisfies(c, a) <=> InRange(c, a)
  <2>1. CASE c.op = "IS"
    BY <1>1, <2>1 DEF Satisfies, InRange, Text, Comparisons
  <2>2. CASE c.op = "IN"
    BY <1>1, <2>2 DEF Satisfies, InRange, Text, Comparisons
  <2>3. CASE c.op = "IN_LIST"
    BY <1>1, <2>3 DEF Satisfies, InRange, Text, Comparisons
  <2>4. QED BY <1>1, <2>1, <2>2, <2>3
<1>7. EvaluateCondition(c, ctx) <=> Satisfies(c, a)
  BY <1>1, <1>2 DEF EvaluateCondition
<1>8. EvaluateCondition(c, ctx) \in BOOLEAN
  BY DEF EvaluateCondition
<1>9. evaluateWithNegation(r, ctx) <=> EvaluateCondition(c, ctx)
  BY <1>4, <1>5, <1>8 DEF evaluateWithNegation, c
<1>10. QED BY <1>3, <1>6, <1>7, <1>9 DEF c

AnyAddress(rs) ==
    /\ Len(rs) \in Nat /\ Len(rs) >= 1 /\ DOMAIN rs = 1..Len(rs)
    /\ \A i \in 1..Len(rs) :
         /\ rs[i] \in AllRules /\ ~rs[i].compound /\ ~rs[i].negated /\ AddressCondition(rs[i].cond)
         /\ i > 1 => rs[i].relation = "OR"
         /\ i < Len(rs) => rs[i].cond.op # "IS"

LEMMA AlternativesAre ==
    ASSUME AddressAlternatives, NEW f \in LocationRules
    PROVE  /\ f.rule \in AllRules /\ AnyAddress(Alternatives(f.rule)) /\ FlattenRule(f.rule) = Alternatives(f.rule)
           /\ f.rule.compound => AllJoined(f.rule, "OR")
<1> DEFINE r == f.rule
           rs == Alternatives(r)
<1>1. r \in AllRules
  BY QueriesOK
<1>2. /\ ~r.negated /\ rs # <<>>
      /\ \A i \in DOMAIN rs :
           /\ ~rs[i].compound /\ ~rs[i].negated /\ AddressCondition(rs[i].cond)
           /\ i > 1 => rs[i].relation = "OR"
           /\ i < Len(rs) => rs[i].cond.op # "IS"
  BY DEF AddressAlternatives
<1>3. rs \in Seq(AllRules)
  <2>1. r.parts \in Seq(AllRules)
    BY <1>1, RuleParts
  <2>2. <<r>> \in Seq(AllRules)
    BY <1>1, OneOf
  <2>3. QED BY <2>1, <2>2 DEF Alternatives
<1>4. FlattenRule(r) = rs
  <2>1. CASE ~r.compound
    BY <1>1, <2>1, FlattenLeaf DEF Alternatives
  <2>2. CASE r.compound
    <3>1. rs = r.parts
      BY <2>2 DEF Alternatives
    <3>2. Shallow(r)
      BY <1>1, <1>2, <2>2, <3>1 DEF Shallow
    <3>3. QED BY <3>1, <3>2, FlattenShallow
  <2>3. QED BY <2>1, <2>2
<1>5. Len(rs) \in Nat /\ DOMAIN rs = 1..Len(rs) /\ \A i \in 1..Len(rs) : rs[i] \in AllRules
  BY <1>3, SeqFacts
<1>6. Len(rs) # 0
  BY <1>2, <1>3, EmptySeq
<1> HIDE DEF rs
<1>7. AnyAddress(rs)
  BY <1>2, <1>5, <1>6 DEF AnyAddress
<1>8. r.compound => AllJoined(r, "OR")
  <2>1. ASSUME r.compound PROVE AllJoined(r, "OR")
    <3>1. rs = r.parts
      BY <2>1 DEF Alternatives, rs
    <3>2. Len(r.parts) >= 1 /\ \A i \in 2..Len(r.parts) : r.parts[i].relation = "OR"
      BY <1>7, <3>1 DEF AnyAddress
    <3>3. QED BY <1>2, <2>1, <3>2 DEF AllJoined
  <2>2. QED BY <2>1
<1>9. QED BY <1>1, <1>4, <1>7, <1>8 DEF rs

LEMMA OneInRange ==
    ASSUME NEW r, NEW rs, AnyAddress(rs), FlattenRule(r) = rs, NEW a
    PROVE  IsIpAddressInRange(r, a) <=> \E i \in 1..Len(rs) : InRange(rs[i].cond, a)
<1> DEFINE n == Len(rs)
           cs == ToConditions(r)
           Inside(i) == InRange(cs[i], a)
           I == {i \in DOMAIN cs : On(cs[i], "ipAddress") /\ cs[i].fixed.kind # "nil" /\ (cs[i].op = "IS" \/ InRange(cs[i], a))}
<1>1. n \in Nat /\ n >= 1 /\ DOMAIN rs = 1..n
  BY DEF AnyAddress
<1>2. DOMAIN cs = 1..n /\ \A i \in 1..n : cs[i] = rs[i].cond
  BY <1>1 DEF ToConditions
<1>3. \A i \in 1..n : On(cs[i], "ipAddress") /\ cs[i].fixed.kind # "nil" /\ (i < n => cs[i].op # "IS")
  BY <1>2 DEF AnyAddress, AddressCondition
<1>4. IsIpAddressInRange(r, a) <=> I # {} /\ Inside(Min(I))
  BY DEF IsIpAddressInRange
<1>5. I = {i \in 1..n : cs[i].op = "IS" \/ Inside(i)}
  BY <1>2, <1>3
<1> HIDE DEF I, cs, Inside, n
<1>6. I \in SUBSET Nat
  BY <1>1, <1>5
<1>7. ASSUME I # {}, Inside(Min(I)) PROVE \E i \in 1..n : Inside(i)
  <2>1. Min(I) \in I
    BY <1>6, <1>7, MinFacts
  <2>2. QED BY <1>5, <1>7, <2>1
<1>8. ASSUME NEW i \in 1..n, Inside(i) PROVE I # {} /\ Inside(Min(I))
  <2>1. i \in I
    BY <1>5, <1>8
  <2> DEFINE m == Min(I)
  <2>2. m \in I /\ m <= i
    BY <1>6, <2>1, MinFacts
  <2> HIDE DEF m
  <2>3. m \in 1..n /\ (cs[m].op = "IS" \/ Inside(m))
    BY <1>5, <2>2
  <2>4. CASE cs[m].op = "IS"
    <3>1. ~(m < n)
      BY <1>3, <2>3, <2>4
    <3>2. m = i
      BY <1>1, <2>2, <2>3, <3>1
    <3>3. QED BY <1>8, <2>1, <3>2 DEF m
  <2>5. QED BY <2>1, <2>3, <2>4 DEF m
<1>9. IsIpAddressInRange(r, a) <=> \E i \in 1..n : Inside(i)
  BY <1>4, <1>7, <1>8
<1>10. \A i \in 1..n : Inside(i) <=> InRange(rs[i].cond, a)
  BY <1>2 DEF Inside
<1>11. QED BY <1>9, <1>10 DEF n

LEMMA RulesLocate ==
    ASSUME AddressAlternatives, NEW f \in LocationRules, NEW a \in Values, NEW ctx, ctx["ipAddress"] = a
    PROVE  IsIpAddressInRange(f.rule, a) <=> Evaluate(f.rule, ctx)
<1> DEFINE r == f.rule
           rs == Alternatives(r)
<1>1. r \in AllRules /\ AnyAddress(rs) /\ FlattenRule(r) = rs /\ (r.compound => AllJoined(r, "OR"))
  BY AlternativesAre
<1>2. IsIpAddressInRange(r, a) <=> \E i \in 1..Len(rs) : InRange(rs[i].cond, a)
  <2> HIDE DEF r, rs
  <2>1. QED BY <1>1, OneInRange
<1>3. ASSUME NEW i \in 1..Len(rs) PROVE Evaluate(rs[i], ctx) <=> InRange(rs[i].cond, a)
  <2>1. rs[i] \in AllRules /\ ~rs[i].compound /\ ~rs[i].negated /\ AddressCondition(rs[i].cond)
    BY <1>1 DEF AnyAddress
  <2> HIDE DEF rs, r
  <2>2. QED BY <2>1, AddressLeaf
<1>4. Evaluate(r, ctx) <=> \E i \in 1..Len(rs) : Evaluate(rs[i], ctx)
  <2>1. CASE r.compound
    <3>1. rs = r.parts
      BY <2>1 DEF Alternatives
    <3> HIDE DEF rs, r
    <3>2. QED BY <1>1, <2>1, <3>1, OneOfThem
  <2>2. CASE ~r.compound
    <3>1. rs = <<r>>
      BY <2>2 DEF Alternatives
    <3> HIDE DEF rs, r
    <3>2. Len(rs) = 1 /\ rs[1] = r
      BY <3>1
    <3>3. 1..1 = {1}
      OBVIOUS
    <3>4. QED BY <3>2, <3>3
  <2>3. QED BY <2>1, <2>2
<1>5. QED BY <1>2, <1>3, <1>4

LEMMA ListInRange ==
    ASSUME NEW r, NEW cs, ToConditions(r) = cs, 1 \in DOMAIN cs, DOMAIN cs \subseteq Nat,
           On(cs[1], "ipAddress"), cs[1].op = "IN_LIST", NEW g, cs[1].fixed = Str(g),
           \A i \in DOMAIN cs : i # 1 => ~On(cs[i], "ipAddress"), NEW a
    PROVE  IsIpAddressInRange(r, a) <=> IsInList(a, g)
<1> DEFINE I == {i \in DOMAIN cs : On(cs[i], "ipAddress") /\ cs[i].fixed.kind # "nil" /\ (cs[i].op = "IS" \/ InRange(cs[i], a))}
<1>1. cs[1].fixed.kind = "string" /\ cs[1].fixed.str = g
  BY DEF Str
<1>2. InRange(cs[1], a) <=> IsInList(a, g)
  BY <1>1 DEF InRange
<1>3. I = IF IsInList(a, g) THEN {1} ELSE {}
  <2>1. \A i \in I : i = 1
    OBVIOUS
  <2>2. 1 \in I <=> IsInList(a, g)
    BY <1>1, <1>2
  <2> HIDE DEF I
  <2>3. QED BY <2>1, <2>2
<1>4. IsIpAddressInRange(r, a) <=> I # {} /\ InRange(cs[Min(I)], a)
  BY DEF IsIpAddressInRange
<1> HIDE DEF I
<1>5. Min({1}) = 1
  <2>1. {1} \in SUBSET Int /\ 1 \in {1} /\ \A y \in {1} : 1 <= y
    OBVIOUS
  <2>2. QED BY <2>1, MinIs
<1>6. QED BY <1>2, <1>3, <1>4, <1>5

LEMMA FormsLocate ==
    ASSUME NEW f \in LocationForms, NEW a \in Values
    PROVE  LET r == NewDownloadLocationFilter(f.group, f.only)
           IN  IsIpAddressInRange(r, a) <=> \E p \in {"http", "tftp"} : Evaluate(r, [ipAddress |-> a, downloadProtocol |-> p])
<1> DEFINE g == f.group
           o == f.only
           x == InList("ipAddress", g)
           y0 == IsText("downloadProtocol", o)
           y == RelatedBy(y0, "AND")
           r == NewDownloadLocationFilter(g, o)
           Ctx(p) == [ipAddress |-> a, downloadProtocol |-> p]
<1>1. g \in STRING /\ o \in {Empty, "http", "tftp"} /\ o \in STRING
  <2>1. g \in STRING /\ o \in {Empty, "http", "tftp"}
    BY BeanFormsOK
  <2>2. Empty \in STRING /\ "http" \in STRING /\ "tftp" \in STRING
    BY BeanIdsOK, WordsOK DEF Empty
  <2> HIDE DEF o
  <2>3. QED BY <2>1, <2>2
<1>2. "ipAddress" \in STRING /\ "downloadProtocol" \in STRING /\ a \notin {Absent, Empty}
  BY WordsOK, ValuesOK
<1>3. Carries(x, "STRING", "ipAddress", "IN_LIST", Str(g)) /\ Carries(y0, "STRING", "downloadProtocol", "IS", Str(o))
  BY <1>1, <1>2, TextCarries
<1>4. \A p : Ctx(p)["ipAddress"] = a /\ Ctx(p)["downloadProtocol"] = p
  OBVIOUS
<1>5. r = IF o # Empty THEN AndRules(x, y0) ELSE x
  BY DEF NewDownloadLocationFilter, AndIf
<1> HIDE DEF Ctx, g, o, r
<1>6. GoodLeaf(x) /\ \A p : Evaluate(x, Ctx(p)) <=> IsInList(a, g)
  <2>1. ASSUME NEW p PROVE GoodLeaf(x) /\ (Evaluate(x, Ctx(p)) <=> IsInList(a, g))
    <3> DEFINE ctx == Ctx(p)
    <3>1. ctx["ipAddress"] = a
      BY <1>4
    <3> HIDE DEF ctx
    <3>2. GoodLeaf(x) /\ (Evaluate(x, ctx) <=> IsInList(a, g))
      BY <1>1, <1>2, <3>1, NamedList
    <3>3. QED BY <3>2 DEF ctx
  <2>2. QED BY <2>1
<1>7. ASSUME o # Empty PROVE GoodLeaf(y0) /\ \A p : Evaluate(y0, Ctx(p)) <=> p = o
  <2>0. o \notin {Absent, Empty}
    BY <1>1, <1>7 DEF Absent, Empty
  <2>1. ASSUME NEW p PROVE GoodLeaf(y0) /\ (Evaluate(y0, Ctx(p)) <=> p = o)
    <3> DEFINE ctx == Ctx(p)
    <3>1. ctx["downloadProtocol"] = p
      BY <1>4
    <3> HIDE DEF ctx
    <3>2. GoodLeaf(y0) /\ (Evaluate(y0, ctx) <=> p = o)
      BY <1>1, <1>2, <2>0, <3>1, TextLeaves
    <3>3. QED BY <3>2 DEF ctx
  <2>2. QED BY <2>1
<1> HIDE DEF x, y0
<1>8. /\ x \in AllRules /\ ~x.compound /\ On(x.cond, "ipAddress") /\ x.cond.op = "IN_LIST" /\ x.cond.fixed = Str(g)
  BY <1>3, CarriedFacts DEF On
<1>9. Carries(y, "STRING", "downloadProtocol", "IS", Str(o)) /\ JoinedLeaf(y)
  BY <1>3, CarriedBy
<1> HIDE DEF y
<1>10. ~On(y.cond, "ipAddress")
  BY <1>9, CarriedFacts DEF On
<1>11. CASE o = Empty
  <2>1. r = x
    BY <1>5, <1>11
  <2> DEFINE cs == <<x.cond>>
  <2>2. ToConditions(r) = cs
    BY <1>8, <2>1, FlattenLeaf, ConditionsAre, CondsOfFew
  <2>3. DOMAIN cs = {1} /\ cs[1] = x.cond
    OBVIOUS
  <2> HIDE DEF cs
  <2>4. IsIpAddressInRange(r, a) <=> IsInList(a, g)
    BY <1>8, <2>2, <2>3, ListInRange
  <2>5. (\E p \in {"http", "tftp"} : Evaluate(r, Ctx(p))) <=> IsInList(a, g)
    BY <1>6, <2>1
  <2>6. QED BY <2>4, <2>5 DEF Ctx, r, g, o
<1>12. CASE o # Empty
  <2>1. r = AndRules(x, y0)
    BY <1>5, <1>12
  <2>2. AndRules(x, y0) = Compound(<<x, y>>)
    BY <1>8, AddToLeaf DEF AndRules, y
  <2> DEFINE cs == <<x.cond, y.cond>>
  <2>3. ToConditions(r) = cs
    <3>1. FlattenRule(Compound(<<x, y>>)) = <<x, y>>
      BY <1>8, <1>9, FlattenPair
    <3>2. FlattenRule(r) = <<x, y>>
      BY <2>1, <2>2, <3>1
    <3>3. CondsOf(<<x, y>>) = cs
      BY CondsOfFew
    <3>4. QED BY <3>2, <3>3, ConditionsAre
  <2>4. DOMAIN cs = {1, 2} /\ cs[1] = x.cond /\ cs[2] = y.cond
    OBVIOUS
  <2> HIDE DEF cs
  <2>5. IsIpAddressInRange(r, a) <=> IsInList(a, g)
    BY <1>8, <1>10, <2>3, <2>4, ListInRange
  <2>6. ASSUME NEW p PROVE Evaluate(r, Ctx(p)) <=> IsInList(a, g) /\ p = o
    <3> DEFINE ctx == Ctx(p)
    <3>1. (Evaluate(x, ctx) <=> IsInList(a, g)) /\ (Evaluate(y0, ctx) <=> p = o)
      BY <1>6, <1>7, <1>12
    <3>2. 1 \in 1..MaxDepth /\ 1 - 1 = 0 /\ Chain(x, 1) /\ y0 \in Rules[0]
      BY <1>6, <1>7, <1>12, DepthOK DEF GoodLeaf
    <3> HIDE DEF ctx
    <3>3. Evaluate(AndRules(x, y0), ctx) <=> Evaluate(x, ctx) /\ Evaluate(y0, ctx)
      BY <3>2, AndHolds
    <3>4. QED BY <2>1, <3>1, <3>3 DEF ctx
  <2>7. o \in {"http", "tftp"}
    BY <1>1, <1>12
  <2>8. (\E p \in {"http", "tftp"} : Evaluate(r, Ctx(p))) <=> IsInList(a, g)
    BY <2>6, <2>7
  <2>9. QED BY <2>5, <2>8 DEF Ctx, r, g, o
<1>13. QED BY <1>11, <1>12

Directs(fr, a) ==
    /\ fr.type = "DOWNLOAD_LOCATION_FILTER"
    /\ \E p \in {"http", "tftp"} : Evaluate(fr.rule, [ipAddress |-> a, downloadProtocol |-> p])

LEMMA StoredLocate ==
    ASSUME BeanInv, AddressAlternatives, NEW id \in Stored, NEW a \in Addresses4
    PROVE  /\ Locates(store[id], a) <=> Directs(store[id], a)
           /\ store[id].type = "DOWNLOAD_LOCATION_FILTER" => Rank(id) \in Nat
<1>0. a \in Values
  BY QueriesOK
<1>1. CASE store[id].type # "DOWNLOAD_LOCATION_FILTER"
  BY <1>1 DEF Locates, Directs
<1>2. CASE store[id].type = "DOWNLOAD_LOCATION_FILTER"
  <2>1. id \in OfType(store[id].app, "DOWNLOAD_LOCATION_FILTER")
    BY <1>2 DEF OfType
  <2>2. SavedAs(store[id], posted[id])
    BY <2>1, OfTypeFacts
  <2>3. IsLocation(store[id], posted[id]) \/ IsLocationRule(store[id], posted[id])
    BY <1>2, <2>2, RulesOf
  <2>4. CASE IsLocation(store[id], posted[id])
    <3>1. PICK f \in LocationForms, app \in Apps : store[id] = LocationOf(f, app)
      BY <2>4 DEF IsLocation
    <3>2. store[id].name = f.name /\ store[id].rule = NewDownloadLocationFilter(f.group, f.only)
      BY <3>1, LocationFields
    <3>3. f.name \in DOMAIN NameRank /\ Rank(id) \in Nat
      BY <3>2, QueriesOK DEF Rank
    <3> DEFINE r == NewDownloadLocationFilter(f.group, f.only)
    <3>4. IsIpAddressInRange(r, a) <=> \E p \in {"http", "tftp"} : Evaluate(r, [ipAddress |-> a, downloadProtocol |-> p])
      BY <1>0, FormsLocate
    <3> HIDE DEF r
    <3>5. store[id].rule = r
      BY <3>2 DEF r
    <3>6. QED BY <1>2, <3>3, <3>4, <3>5 DEF Locates, Directs
  <2>5. CASE IsLocationRule(store[id], posted[id])
    <3>1. PICK f \in LocationRules : store[id] = LocationRuleOf(f, "stb")
      BY <2>5 DEF IsLocationRule
    <3>2. store[id].name = f.name /\ store[id].rule = f.rule
      BY <3>1, LocationFields
    <3>3. f.name \in DOMAIN NameRank /\ Rank(id) \in Nat
      BY <3>2, QueriesOK DEF Rank
    <3>4. ASSUME NEW p PROVE IsIpAddressInRange(f.rule, a) <=> Evaluate(f.rule, [ipAddress |-> a, downloadProtocol |-> p])
      <4> DEFINE ctx == [ipAddress |-> a, downloadProtocol |-> p]
      <4>1. ctx["ipAddress"] = a
        OBVIOUS
      <4> HIDE DEF ctx
      <4>2. IsIpAddressInRange(f.rule, a) <=> Evaluate(f.rule, ctx)
        BY <1>0, <4>1, RulesLocate
      <4>3. QED BY <4>2 DEF ctx
    <3>5. QED BY <1>2, <3>2, <3>3, <3>4 DEF Locates, Directs
  <2>6. QED BY <2>3, <2>4, <2>5
<1>3. QED BY <1>1, <1>2

(* What is drawn is one of the locations.                                  *)
LEMMA DrawnIsListed ==
    ASSUME NEW ls \in Seq(Locations), NEW random, DrawFrom(ls, random) # Empty
    PROVE  DrawFrom(ls, random) \in Addresses(ls)
<1> DEFINE I == {i \in DOMAIN ls : random < Shares(ls)[i]}
<1>1. DrawFrom(ls, random) = IF I = {} THEN Empty ELSE ls[Min(I)].ip
  BY DEF DrawFrom
<1>2. I \subseteq DOMAIN ls /\ I \in SUBSET Nat
  <2>1. DOMAIN ls = 1..Len(ls) /\ Len(ls) \in Nat
    BY SeqFacts
  <2>2. QED BY <2>1
<1> HIDE DEF I
<1>3. I # {} /\ DrawFrom(ls, random) = ls[Min(I)].ip
  BY <1>1
<1>4. Min(I) \in I
  BY <1>2, <1>3, MinFacts
<1>5. QED BY <1>2, <1>3, <1>4 DEF Addresses, Range

LEMMA DrawnAnswer ==
    ASSUME BeanInv, NEW models, NEW random \in {0, 999}
    PROVE  /\ Drawn(models, random).models = models
           /\ \/ roundRobins["stb"] = {} /\ Drawn(models, random).location = Empty
              \/ \E f \in roundRobins["stb"] : Drawn(models, random).location \in Addresses(f.locations)
<1>1. roundRobins["stb"] = {} \/ \E f \in RoundRobinForms : ValidateRoundRobin(f) /\ roundRobins["stb"] = {f}
  BY BeanIdsOK DEF BeanInv, RobinsOK
<1>2. CASE roundRobins["stb"] = {}
  BY <1>2 DEF Drawn, Bse
<1>3. CASE roundRobins["stb"] # {}
  <2>1. PICK f \in RoundRobinForms : ValidateRoundRobin(f) /\ roundRobins["stb"] = {f}
    BY <1>1, <1>3
  <2>2. (CHOOSE x \in roundRobins["stb"] : TRUE) = f
    BY <2>1
  <2> DEFINE d == GetDownloadLocations(f, random)
  <2>3. Drawn(models, random) = Bse(models, "Tftp", d[1], d[2])
    BY <1>3, <2>2 DEF Drawn
  <2>4. random \in Nat /\ random <= 999
    OBVIOUS
  <2>5. d[1] # Empty
    BY <2>1, <2>4, RobinDrawn
  <2>6. d[1] = DrawFrom(f.locations, random)
    BY DEF GetDownloadLocations
  <2>7. f.locations \in Seq(Locations)
    BY BeanFormsOK
  <2>8. d[1] \in Addresses(f.locations)
    BY <2>5, <2>6, <2>7, DrawnIsListed
  <2> HIDE DEF d
  <2>9. Drawn(models, random).models = models /\ Drawn(models, random).location = d[1]
    BY <2>3 DEF Bse
  <2>10. QED BY <2>1, <2>8, <2>9
<1>4. QED BY <1>2, <1>3

(* The parts of BseAnswers, for one request.                               *)
ServedAt(a) == {id \in Stored : Serves(store[id], a)}
LocatedAt(a) ==
    {id \in Stored : store[id].type = "DOWNLOAD_LOCATION_FILTER" /\ store[id].action.props[2] # Empty
        /\ \E p \in {"http", "tftp"} : Evaluate(store[id].rule, [ipAddress |-> a, downloadProtocol |-> p])}
LastAt(a) == {id \in LocatedAt(a) : \A j \in LocatedAt(a) : NameRank[store[j].name] <= NameRank[store[id].name]}

LEMMA ModelsServed ==
    ASSUME BeanInv, NEW order, SortedTable(order), NEW a \in Addresses4
    PROVE  ModelsOf(order, a) = {ModelConfig(store[id]) : id \in ServedAt(a)}
<1>1. order \in Seq(Stored) /\ \A id \in Stored : \E i \in 1..Len(order) : order[i] = id
  BY DEF SortedTable
<1>2. \A i \in 1..Len(order) : order[i] \in Stored
  BY <1>1, SeqFacts
<1>3. \A id \in Stored : Answers(store[id], a) <=> Serves(store[id], a)
  BY StoredServe
<1>4. ASSUME NEW m \in ModelsOf(order, a) PROVE m \in {ModelConfig(store[id]) : id \in ServedAt(a)}
  <2>1. PICK i \in 1..Len(order) : Answers(store[order[i]], a) /\ m = ModelConfig(store[order[i]])
    BY <1>4 DEF ModelsOf
  <2>2. order[i] \in ServedAt(a)
    BY <1>2, <1>3, <2>1 DEF ServedAt
  <2>3. QED BY <2>1, <2>2
<1>5. ASSUME NEW id \in ServedAt(a) PROVE ModelConfig(store[id]) \in ModelsOf(order, a)
  <2>1. id \in Stored /\ Answers(store[id], a)
    BY <1>3 DEF ServedAt
  <2>2. PICK i \in 1..Len(order) : order[i] = id
    BY <1>1, <2>1
  <2>3. QED BY <2>1, <2>2 DEF ModelsOf
<1>6. QED BY <1>4, <1>5

LEMMA GivesLocated ==
    ASSUME BeanInv, AddressAlternatives, NEW order, SortedTable(order), NEW a \in Addresses4
    PROVE  /\ \A k \in 1..Len(order) : GivesLocation(order, a, k) <=> order[k] \in LocatedAt(a)
           /\ \A id \in LocatedAt(a) : (\E k \in 1..Len(order) : order[k] = id) /\ Rank(id) \in Nat
<1>1. order \in Seq(Stored) /\ \A id \in Stored : \E i \in 1..Len(order) : order[i] = id
  BY DEF SortedTable
<1>2. \A i \in 1..Len(order) : order[i] \in Stored
  BY <1>1, SeqFacts
<1>3. \A id \in Stored : Locates(store[id], a) <=> Directs(store[id], a)
  BY StoredLocate
<1>4. \A id \in Stored : store[id].type = "DOWNLOAD_LOCATION_FILTER" => Rank(id) \in Nat
  BY StoredLocate
<1>5. \A id \in Stored : id \in LocatedAt(a) <=> Directs(store[id], a) /\ store[id].action.props[2] # Empty
  BY DEF LocatedAt, Directs
<1>6. \A id \in LocatedAt(a) : id \in Stored /\ store[id].type = "DOWNLOAD_LOCATION_FILTER"
  BY DEF LocatedAt
<1>7. \A k \in 1..Len(order) : GivesLocation(order, a, k) <=> order[k] \in LocatedAt(a)
  BY <1>2, <1>3, <1>5 DEF GivesLocation
<1>8. QED BY <1>1, <1>4, <1>6, <1>7

AnswerIs(answer, a) ==
    /\ Range(answer.models) = {ModelConfig(store[id]) : id \in ServedAt(a)}
    /\ ServedAt(a) = {} => answer = NotFound
    /\ ServedAt(a) # {} /\ LocatedAt(a) # {} =>
         \E id \in LastAt(a) : /\ answer.location = store[id].action.props[2]
                               /\ answer.protocol = "tftp" <=> store[id].action.props[1] = "tftp"
    /\ ServedAt(a) # {} /\ LocatedAt(a) = {} =>
         \/ roundRobins["stb"] = {} /\ answer.location = Empty
         \/ \E f \in roundRobins["stb"] : answer.location \in Addresses(f.locations)

LEMMA OneAnswer ==
    ASSUME BeanInv, AddressAlternatives, NEW a \in Addresses4, NEW order, SortedTable(order), NEW random \in {0, 999}
    PROVE  AnswerIs(GetBseConfiguration(order, a, random), a)
<1> DEFINE answer == GetBseConfiguration(order, a, random)
           models == ModelConfigs(order, a)
           c0 == Drawn(models, random)
           n == Len(order)
           M == {ModelConfig(store[id]) : id \in ServedAt(a)}
<1>0. order \in Seq(Stored) /\ n \in Nat /\ \A i, j \in 1..n : i < j => Rank(order[i]) <= Rank(order[j])
  BY SeqFacts DEF SortedTable
<1>1. models \in Seq(M) /\ Range(models) = M
  <2>1. models \in Seq(ModelsOf(order, a)) /\ Range(models) = ModelsOf(order, a)
    BY <1>0, ModelsAre
  <2>2. ModelsOf(order, a) = M
    BY ModelsServed
  <2> HIDE DEF M, models
  <2>3. QED BY <2>1, <2>2
<1>2. M = {} <=> ServedAt(a) = {}
  OBVIOUS
<1>3. models = <<>> => answer = NotFound
  BY DEF GetBseConfiguration
<1>4. models # <<>> => Settled(order, a, c0, answer, n)
  BY <1>0, BseSettled
<1>5. /\ c0.models = models
      /\ \/ roundRobins["stb"] = {} /\ c0.location = Empty
         \/ \E f \in roundRobins["stb"] : c0.location \in Addresses(f.locations)
  BY DrawnAnswer
<1>6. models = <<>> <=> ServedAt(a) = {}
  <2> HIDE DEF models, M
  <2>1. DOMAIN models = 1..Len(models) /\ Len(models) \in Nat
    BY <1>1, SeqFacts
  <2>2. models = <<>> => Range(models) = {}
    BY DEF Range
  <2>3. ASSUME Range(models) = {} PROVE models = <<>>
    <3>1. DOMAIN models = {}
      BY <2>3 DEF Range
    <3>2. Len(models) = 0
      BY <2>1, <3>1
    <3>3. QED BY <1>1, <3>2, EmptySeq
  <2>4. QED BY <1>1, <1>2, <2>2, <2>3
<1> HIDE DEF answer, c0
<1>7. Range(answer.models) = M
  <2>1. CASE models = <<>>
    <3>1. answer.models = models
      BY <1>3, <2>1 DEF NotFound, Bse
    <3>2. QED BY <1>1, <3>1
  <2>2. CASE models # <<>>
    <3>1. answer.models = models
      BY <1>4, <1>5, <2>2 DEF Settled
    <3>2. QED BY <1>1, <3>1
  <2>3. QED BY <2>1, <2>2
<1> HIDE DEF models
<1>8. /\ \A k \in 1..n : GivesLocation(order, a, k) <=> order[k] \in LocatedAt(a)
      /\ \A id \in LocatedAt(a) : (\E k \in 1..n : order[k] = id) /\ Rank(id) \in Nat
  BY GivesLocated
<1>9. ASSUME ServedAt(a) # {}, LocatedAt(a) # {}
      PROVE  \E id \in LastAt(a) : /\ answer.location = store[id].action.props[2]
                                   /\ answer.protocol = "tftp" <=> store[id].action.props[1] = "tftp"
  <2>1. Settled(order, a, c0, answer, n)
    BY <1>4, <1>6, <1>9
  <2>2. \E j \in 1..n : GivesLocation(order, a, j)
    BY <1>8, <1>9
  <2>3. PICK k : Decides(order, a, answer, n, k)
    BY <2>1, <2>2 DEF Settled
  <2>4. /\ k \in 1..n /\ GivesLocation(order, a, k) /\ \A j \in 1..n : GivesLocation(order, a, j) => j <= k
        /\ answer.location = store[order[k]].action.props[2]
        /\ answer.protocol = IF store[order[k]].action.props[1] = "tftp" THEN "tftp" ELSE "http"
    BY <2>3 DEF Decides
  <2>5. order[k] \in LocatedAt(a)
    BY <1>8, <2>4
  <2>6. ASSUME NEW j \in LocatedAt(a) PROVE Rank(j) <= Rank(order[k])
    <3>1. PICK i \in 1..n : order[i] = j
      BY <1>8
    <3>2. i <= k
      BY <1>8, <2>4, <3>1
    <3>3. CASE i < k
      BY <1>0, <2>4, <3>1, <3>3
    <3>4. CASE i = k
      <4>1. Rank(j) \in Nat
        BY <1>8
      <4>2. Rank(j) <= Rank(j)
        BY <4>1
      <4>3. QED BY <3>1, <3>4, <4>2
    <3>5. i < k \/ i = k
      BY <1>0, <2>4, <3>2
    <3>6. QED BY <3>3, <3>4, <3>5
  <2>7. order[k] \in LastAt(a)
    BY <2>5, <2>6 DEF LastAt, Rank
  <2>8. answer.protocol = "tftp" <=> store[order[k]].action.props[1] = "tftp"
    BY <2>4
  <2>9. QED BY <2>4, <2>7, <2>8
<1>10. ASSUME ServedAt(a) # {}, LocatedAt(a) = {}
       PROVE  \/ roundRobins["stb"] = {} /\ answer.location = Empty
              \/ \E f \in roundRobins["stb"] : answer.location \in Addresses(f.locations)
  <2>1. answer = c0
    BY <1>4, <1>6, <1>8, <1>10 DEF Settled
  <2>2. QED BY <1>5, <2>1
<1>11. AnswerIs(answer, a)
  BY <1>3, <1>6, <1>7, <1>9, <1>10 DEF AnswerIs
<1>12. QED BY <1>11 DEF answer

LEMMA BseAnswersOK == ASSUME AddressAlternatives PROVE BeanInv => BseAnswers
<1>1. ASSUME BeanInv, NEW a \in Addresses4, NEW order \in GetFirmwareSortedRuleAllAsListDB, NEW random \in {0, 999}
      PROVE  AnswerIs(GetBseConfiguration(order, a, random), a)
  <2>1. SortedTable(order)
    BY <1>1, OrderLists
  <2>2. QED BY <1>1, <2>1, OneAnswer
<1>2. QED BY <1>1 DEF BseAnswers, AnswerIs, ServedAt, LocatedAt, LastAt

(* GetBseConfiguration, which reads the stored rules without the rules     *)
(* engine, answers as the rules engine does: with the models of exactly    *)
(* the IP rules that hold at the address, and with the location of the     *)
(* last filter that does, else one that was drawn.  Operators' own filters *)
(* are alternatives of addresses, sets and lists.                          *)
THEOREM BseRequestsAreAnswered == ASSUME AddressAlternatives PROVE BseSpec => []BseAnswers
<1>1. BeanInv => BseAnswers
  BY BseAnswersOK
<1>2. BseSpec => []BeanInv
  BY BeanInvariant
<1>3. QED BY <1>1, <1>2, PTL
=============================================================================
