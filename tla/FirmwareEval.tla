----------------------------- MODULE FirmwareEval -----------------------------
(***************************************************************************)
(* The answer to a firmware request: EstbFirmwareRuleBase.Eval finds the   *)
(* rule of the device, the configuration the rule binds it to, and the     *)
(* filters that change or block it (dataapi/estbfirmware).  Tables are     *)
(* read at several points of a request, and entries may disappear between  *)
(* them.                                                                   *)
(*                                                                         *)
(* Which rules a device matches is an input (module RulesEngine models     *)
(* that), so is where it lies between 0 and 100 percent.                   *)
(***************************************************************************)
EXTENDS Integers, Sequences, FiniteSets

CONSTANTS
    Templates,      \* ids of firmware rule templates
    Kind,           \* [Templates -> RULE, DEFINE or BLOCK]: type of the action
    Priority,       \* [Templates -> Int]
    ByPassFilters,  \* [Templates -> SUBSET Templates]
    Booleans,       \* [Templates -> SUBSET Keys]: properties validated as BOOLEAN
    Rules,          \* active firmware rules of the application
    Type,           \* [Rules -> Templates]
    Size,           \* [Rules -> Nat]: number of conditions
    Actions,        \* the actions the rules may have: functions on Rules
    Configs,        \* ids of firmware configurations
    AppConfigs,     \* those of the application the rules are for
    Version,        \* [Configs -> firmware versions]
    Properties,     \* [Configs -> [Keys -> values]]: ToPropertiesMap
    Keys,           \* names of properties of an answer
    Values,         \* values of properties
    Requests,       \* the requests that are tried
    RoundRobins,    \* the contents the download location filter may have
    Deletable       \* templates and configurations that may be deleted meanwhile

Unset == ""
None == ""
NoHash == -1
True == "<true>"
False == "<false>"

ENV_MODEL_RULE == "ENV_MODEL_RULE"
ACTIVATION_VERSION == "ACTIVATION_VERSION"
TIME_FILTER == "TIME_FILTER"
REBOOT_IMMEDIATELY_FILTER == "REBOOT_IMMEDIATELY_FILTER"

REBOOT_IMMEDIATELY == "rebootImmediately"
MANDATORY_UPDATE == "mandatoryUpdate"
PROTOCOL == "firmwareDownloadProtocol"
LOCATION == "firmwareLocation"
IPV6_LOCATION == "ipv6FirmwareLocation"

(* Configurations and properties an action, a configuration or the         *)
(* download location filter refers to.                                     *)
IsAction(a) ==
    /\ {"configId", "configEntries", "useAccountPercentage"} \subseteq DOMAIN a
    /\ a.configId \in Configs \cup {None}
    /\ a.configEntries \in Seq([configId : Configs \cup {None}, start : Int, end : Int,
                                percentage : Int, isPaused : BOOLEAN])
    /\ a.intermediateVersion \in Configs \cup {None}
    /\ DOMAIN a.properties \subseteq Keys
    /\ \A k \in DOMAIN a.properties : a.properties[k] \in Values

ASSUME ConstantsOK ==
    /\ Kind \in [Templates -> {"RULE", "DEFINE", "BLOCK"}] /\ Priority \in [Templates -> Int]
    /\ IsFiniteSet(Rules) /\ Type \in [Rules -> Templates] /\ Size \in [Rules -> Nat]
    /\ None \notin Configs /\ Properties \in [Configs -> [Keys -> Values]]
    /\ {REBOOT_IMMEDIATELY, MANDATORY_UPDATE, PROTOCOL, LOCATION, IPV6_LOCATION} \subseteq Keys
    /\ {Unset, True, False, "http"} \subseteq Values
    /\ \A A \in Actions : \A r \in Rules : IsAction(A[r])
    /\ \A q \in Requests : q.matches \subseteq Rules
    /\ \A f \in RoundRobins :
          /\ f.httpLocation \in Values /\ f.httpFullUrlLocation \in Values
          /\ f.locations \subseteq Values /\ f.ipv6locations \subseteq Values

VARIABLES
    req,            \* the request: a member of Requests
    action,         \* [Rules -> actions]: the applicable action of every rule
    roundRobin,     \* the download location filter
    templates,      \* the templates that exist
    configs,        \* the configurations that exist
    pc,             \* where the evaluation is
    rules,          \* the rules of the request's own map
    todo,           \* templates not yet visited by FindMatchedRules
    bypass,         \* BypassFilters of the converted context
    force,          \* ForceFilters of the converted context
    matched,        \* <<>>, or <<r>>: MatchedRule
    bound,          \* boundConfigId
    config,         \* the configuration of the answer
    props,          \* its properties
    found,          \* matched define-properties rules still to apply
    defined,        \* properties they have defined so far
    activation,     \* an activation-version rule has been seen
    applied,        \* the rules among AppliedFilters
    blocked         \* Blocked

inputs == <<req, action, roundRobin>>
tables == <<templates, configs>>
vars == <<inputs, tables, pc, rules, todo, bypass, force, matched, bound, config, props,
          found, defined, activation, applied, blocked>>

-----------------------------------------------------------------------------
(* Configuration of a rule.                                                *)
Smallest(S) == CHOOSE i \in S : \A j \in S : i <= j

FitsPercent(h, percent) == h # NoHash /\ h <= percent

(* HasFirmwareVersion; a device that does not tell its version has none.   *)
HasFirmwareVersion(versions, v) == v # Unset /\ v \in versions

BelowMinimum(a) == a.firmwareCheckRequired /\ ~HasFirmwareVersion(a.firmwareVersions, req.version)

(* The action of an ENV_MODEL rule distributes versions unless it is       *)
(* switched off or the device is in its whitelist.                         *)
Distributes(r) ==
    /\ Type[r] = ENV_MODEL_RULE
    /\ action[r].active
    /\ ~(action[r].whitelist /\ req.inWhitelist)

ExtractAnyPresentConfig(a) ==
    LET open == {i \in DOMAIN a.configEntries : ~a.configEntries[i].isPaused}
    IN  IF open = {} THEN a.configId ELSE a.configEntries[Smallest(open)].configId

(* Below the minimum version: the intermediate version, the last known     *)
(* good one, or whatever there is.                                         *)
MinimumConfig(a) ==
    IF a.intermediateVersion \in configs /\ Version[a.intermediateVersion] # req.version
    THEN a.intermediateVersion
    ELSE IF a.configId \in configs THEN a.configId ELSE ExtractAnyPresentConfig(a)

(* Entries with both ends of a range are compared with the range, others   *)
(* with the sum of the percentages so far.                                 *)
HasRange(e) == e.start >= 0 /\ e.end >= 0

Counted(e) == IF ~HasRange(e) /\ e.percentage > 0 THEN e.percentage ELSE 0

PartialSums(c) ==
    LET sum[i \in 0..Len(c)] == IF i = 0 THEN 0 ELSE sum[i - 1] + c[i]
    IN  sum

CurrentPercent(a) ==
    PartialSums([i \in DOMAIN a.configEntries |-> Counted(a.configEntries[i])])

GetSource(a) == IF a.useAccountPercentage THEN req.accountHash ELSE req.hash

FittingEntries(a) ==
    {i \in DOMAIN a.configEntries :
        LET e == a.configEntries[i]
            h == GetSource(a)
        IN  IF HasRange(e) THEN ~FitsPercent(h, e.start) /\ FitsPercent(h, e.end)
            ELSE e.percentage > 0 /\ FitsPercent(h, CurrentPercent(a)[i])}

(* The first entry the device falls into decides; a paused one gives       *)
(* nothing.                                                                *)
DistributedConfig(a) ==
    IF (a.useAccountPercentage /\ req.accountHash = NoHash) \/ FittingEntries(a) = {}
    THEN a.configId
    ELSE LET e == a.configEntries[Smallest(FittingEntries(a))]
         IN  IF e.isPaused THEN None ELSE e.configId

GetBoundConfigId(r) ==
    IF ~Distributes(r) THEN ExtractAnyPresentConfig(action[r])
    ELSE IF BelowMinimum(action[r]) THEN MinimumConfig(action[r])
    ELSE DistributedConfig(action[r])

IsNoop(a) == a.configId = None /\ \A i \in DOMAIN a.configEntries : a.configEntries[i].configId = None

-----------------------------------------------------------------------------
(* FindMatchedRules.                                                       *)
OfKind(kind) == {t \in templates : Kind[t] = kind}

(* A slip: always ascending.                                               *)
IsNextAscending(t, reverse) ==
    t \in todo /\ \A u \in todo : Priority[t] <= Priority[u]

(* GetSortedTemplate: by priority; templates of the same priority come in  *)
(* any order.                                                              *)
IsNext(t, reverse) ==
    t \in todo /\ \A u \in todo :
        IF reverse THEN Priority[u] <= Priority[t] ELSE Priority[t] <= Priority[u]

Bypassed(t) == bypass \cup ByPassFilters[t]
Matching(t) ==
    IF t \in Bypassed(t) THEN {} ELSE {r \in rules : Type[r] = t /\ r \in req.matches}

(* SortByConditionsSize; otherwise the order of the rules is arbitrary.    *)
InOrder(q, r, t) == t \in {ENV_MODEL_RULE, ACTIVATION_VERSION} => Size[q] >= Size[r]

FirstOf(S, t) == {r \in S : \A q \in S : InOrder(r, q, t)}

Orders(S, t) ==
    {s \in [1..Cardinality(S) -> S] :
        \A i, j \in 1..Cardinality(S) : i < j => s[i] # s[j] /\ InOrder(s[i], s[j], t)}

-----------------------------------------------------------------------------
Init ==
    /\ req \in Requests
    /\ action \in Actions
    /\ roundRobin \in RoundRobins
    /\ templates = Templates /\ configs = Configs
    /\ pc = "start" /\ rules = Rules /\ todo = {}
    /\ bypass = req.bypassFilters /\ force = req.forceFilters
    /\ matched = <<>> /\ bound = None /\ config = None
    /\ props = [k \in Keys |-> Unset]
    /\ found = <<>> /\ defined = [k \in {} |-> Unset]
    /\ activation = FALSE /\ applied = {} /\ blocked = FALSE

(* Eval looks for the matched rule.                                        *)
Start ==
    /\ pc = "start"
    /\ pc' = "rules" /\ todo' = OfKind("RULE")
    /\ UNCHANGED <<inputs, tables, rules, bypass, force, matched, bound, config, props,
                   found, defined, activation, applied, blocked>>

MatchRule(t) ==
    /\ pc = "rules" /\ IsNext(t, FALSE)
    /\ bypass' = Bypassed(t) /\ todo' = todo \ {t}
    /\ \/ Matching(t) = {} /\ UNCHANGED <<pc, matched>>
       \/ \E r \in FirstOf(Matching(t), t) : matched' = <<r>> /\ pc' = "bind"
    /\ UNCHANGED <<inputs, tables, rules, force, bound, config, props,
                   found, defined, activation, applied, blocked>>

NoRuleMatched ==
    /\ pc = "rules" /\ todo = {}
    /\ pc' = "done"
    /\ UNCHANGED <<inputs, tables, rules, todo, bypass, force, matched, bound, config, props,
                   found, defined, activation, applied, blocked>>

(* A slip: the time filter is not bypassed for a device that has to leave  *)
(* its version.                                                            *)
BindKeepsTimeFilter ==
    /\ pc = "bind" /\ bound' = GetBoundConfigId(matched[1]) /\ pc' = "load"
    /\ LET r == matched[1]
           below == Distributes(r) /\ BelowMinimum(action[r])
       IN  force' = IF below /\ action[r].rebootImmediately
                    THEN force \cup {REBOOT_IMMEDIATELY_FILTER} ELSE force
    /\ UNCHANGED <<inputs, tables, rules, todo, bypass, matched, config, props,
                   found, defined, activation, applied, blocked>>

(* GetBoundConfigId.  A device below the minimum version is not held back  *)
(* by the time filter.                                                     *)
Bind ==
    /\ pc = "bind"
    /\ LET r == matched[1]
           below == Distributes(r) /\ BelowMinimum(action[r])
       IN  /\ force' = IF below /\ action[r].rebootImmediately
                       THEN force \cup {REBOOT_IMMEDIATELY_FILTER} ELSE force
           /\ bypass' = IF below THEN bypass \cup {TIME_FILTER} ELSE bypass
           /\ bound' = GetBoundConfigId(r)
    /\ pc' = "load"
    /\ UNCHANGED <<inputs, tables, rules, todo, matched, config, props,
                   found, defined, activation, applied, blocked>>

(* Nothing bound: a no-op rule, or the device falls into a paused entry.   *)
LoadNothing ==
    /\ pc = "load" /\ bound = None
    /\ blocked' = ~IsNoop(action[matched[1]])
    /\ pc' = "done"
    /\ UNCHANGED <<inputs, tables, rules, todo, bypass, force, matched, bound, config, props,
                   found, defined, activation, applied>>

(* A slip: the filters run although there is no configuration.             *)
LoadAnyway ==
    /\ pc = "load" /\ bound # None /\ pc' = "filters"
    /\ \/ bound \in configs \cap AppConfigs /\ config' = bound /\ props' = Properties[bound]
       \/ bound \notin configs \cap AppConfigs /\ UNCHANGED <<config, props>>
    /\ UNCHANGED <<inputs, tables, rules, todo, bypass, force, matched, bound,
                   found, defined, activation, applied, blocked>>

(* GetFirmwareConfigOneDB; the configuration may be gone by now.           *)
Load ==
    /\ pc = "load" /\ bound # None
    /\ \/ /\ bound \in configs \cap AppConfigs
          /\ config' = bound /\ props' = Properties[bound] /\ pc' = "filters"
       \/ /\ bound \notin configs \cap AppConfigs
          /\ pc' = "done" /\ UNCHANGED <<config, props>>
    /\ UNCHANGED <<inputs, tables, rules, todo, bypass, force, matched, bound,
                   found, defined, activation, applied, blocked>>

(* DownloadLocationRoundRobinFilterFilter: the draw among the addresses is *)
(* a choice, their percentages add up to 100.                              *)
Drawn(addresses, old) == IF addresses = {} THEN {old} ELSE addresses

DownloadLocations(p) ==
    LET http == [p EXCEPT ![PROTOCOL] = "http"]
    IN  IF ~roundRobin.present THEN {p}
        ELSE IF roundRobin.httpLocation # Unset /\ roundRobin.httpFullUrlLocation # Unset
        THEN {[http EXCEPT ![LOCATION] = IF req.fullUrl THEN roundRobin.httpFullUrlLocation
                                         ELSE roundRobin.httpLocation]}
        ELSE {[http EXCEPT ![LOCATION] = a, ![IPV6_LOCATION] = b] :
                  a \in Drawn(roundRobin.locations, p[LOCATION]),
                  b \in Drawn(roundRobin.ipv6locations, p[IPV6_LOCATION])}

(* DoFilters.  Activation versions count only for ENV_MODEL rules.         *)
isPercentFilter == Type[matched[1]] = ENV_MODEL_RULE

StartFilters ==
    /\ pc = "filters"
    /\ props' \in DownloadLocations(props)
    /\ rules' = IF isPercentFilter THEN rules ELSE {r \in rules : Type[r] # ACTIVATION_VERSION}
    /\ pc' = "define" /\ todo' = OfKind("DEFINE")
    /\ UNCHANGED <<inputs, tables, bypass, force, matched, bound, config,
                   found, defined, activation, applied, blocked>>

MatchFilters(t) ==
    /\ pc = "define" /\ IsNext(t, TRUE)
    /\ bypass' = Bypassed(t) /\ todo' = todo \ {t}
    /\ \E s \in Orders(Matching(t), t) : found' = found \o s
    /\ UNCHANGED <<inputs, tables, pc, rules, force, matched, bound, config, props,
                   defined, activation, applied, blocked>>

AllFiltersMatched ==
    /\ pc = "define" /\ todo = {}
    /\ pc' = "apply"
    /\ UNCHANGED <<inputs, tables, rules, todo, bypass, force, matched, bound, config, props,
                   found, defined, activation, applied, blocked>>

(* ConvertProperties: "true" and "false" of a property that is validated   *)
(* as BOOLEAN become boolean values, anything else stays a string.         *)
ConvertProperties(t, p) ==
    [k \in DOMAIN p |-> IF k \in Booleans[t] /\ p[k] = "true" THEN True
                        ELSE IF k \in Booleans[t] /\ p[k] = "false" THEN False ELSE p[k]]

PutAll(p, q) ==
    [k \in DOMAIN p \cup DOMAIN q |-> IF k \in DOMAIN q THEN q[k] ELSE p[k]]

(* One rule of ApplyMatchedFilters.  Its template is read again, and the   *)
(* request fails if it has been deleted.                                   *)
ActivationVersions(a) == a.activationVersions \cup a.activationPatterns

ApplyFilter ==
    /\ pc = "apply" /\ found # <<>>
    /\ LET r == Head(found)
           t == Type[r]
           a == action[r]
           put == defined' = PutAll(defined, ConvertProperties(t, a.properties))
                  /\ applied' = applied \cup {r}
           skip == UNCHANGED <<defined, applied>>
       IN  /\ t \in templates
           /\ IF t # ACTIVATION_VERSION
              THEN put /\ bypass' = bypass \cup a.byPassFilters /\ UNCHANGED activation
              ELSE /\ activation' = (activation \/ req.version # Unset)
                   /\ UNCHANGED bypass
                   /\ IF activation \/ req.version = Unset THEN skip
                      ELSE IF req.version \in ActivationVersions(a) THEN put
                      ELSE /\ defined' = PutAll(defined, [k \in {REBOOT_IMMEDIATELY} |-> True])
                           /\ UNCHANGED applied
    /\ found' = Tail(found)
    /\ UNCHANGED <<inputs, tables, pc, rules, todo, force, matched, bound, config, props, blocked>>

ApplyPanics ==
    /\ pc = "apply" /\ found # <<>> /\ Type[Head(found)] \notin templates
    /\ pc' = "panic"
    /\ UNCHANGED <<inputs, tables, rules, todo, bypass, force, matched, bound, config, props,
                   found, defined, activation, applied, blocked>>

(* applyMandatoryUpdateFlag, after the filters have been applied.          *)
MandatoryFlag(p) ==
    LET a == action[matched[1]]
        due == a.firmwareCheckRequired /\ a.firmwareVersions # {} /\ req.version \notin a.firmwareVersions
    IN  IF ~isPercentFilter \/ req.version = Unset THEN p
        ELSE PutAll(p, [k \in {MANDATORY_UPDATE} |-> IF due THEN True ELSE False])

(* A slip: a reboot that is forced is set before the filters' properties.  *)
ForcedBeforeFilters(p) ==
    LET q == IF REBOOT_IMMEDIATELY_FILTER \in force
             THEN [p EXCEPT ![REBOOT_IMMEDIATELY] = True] ELSE p
    IN  PutAll(q, MandatoryFlag(defined))

(* The end of the define-properties filters.  The IPv6 address is drawn    *)
(* again for tftp when there is one already.                               *)
Defined(p) ==
    LET q == PutAll(p, MandatoryFlag(defined))
    IN  IF REBOOT_IMMEDIATELY_FILTER \in force
        THEN [q EXCEPT ![REBOOT_IMMEDIATELY] = True] ELSE q

UsesIpv6(p) == p[PROTOCOL] = "tftp" /\ p[IPV6_LOCATION] # Unset

Merge ==
    /\ pc = "apply" /\ found = <<>>
    /\ LET p == Defined(props)
       IN  /\ UsesIpv6(p) => roundRobin.present
           /\ props' \in IF UsesIpv6(p)
                         THEN {[p EXCEPT ![IPV6_LOCATION] = b] :
                                   b \in Drawn(roundRobin.ipv6locations, p[IPV6_LOCATION])}
                         ELSE {p}
    /\ pc' = "block" /\ todo' = OfKind("BLOCK")
    /\ UNCHANGED <<inputs, tables, rules, bypass, force, matched, bound, config,
                   found, defined, activation, applied, blocked>>

(* The draw dereferences the filter that could not be read.                *)
MergePanics ==
    /\ pc = "apply" /\ found = <<>>
    /\ UsesIpv6(Defined(props)) /\ ~roundRobin.present
    /\ pc' = "panic"
    /\ UNCHANGED <<inputs, tables, rules, todo, bypass, force, matched, bound, config, props,
                   found, defined, activation, applied, blocked>>

MatchBlocking(t) ==
    /\ pc = "block" /\ IsNext(t, FALSE)
    /\ bypass' = Bypassed(t) /\ todo' = todo \ {t}
    /\ \/ Matching(t) = {} /\ UNCHANGED <<pc, applied, blocked>>
       \/ \E r \in FirstOf(Matching(t), t) :
             applied' = applied \cup {r} /\ blocked' = TRUE /\ pc' = "dri"
    /\ UNCHANGED <<inputs, tables, rules, force, matched, bound, config, props,
                   found, defined, activation>>

NothingBlocks ==
    /\ pc = "block" /\ todo = {}
    /\ pc' = "dri"
    /\ UNCHANGED <<inputs, tables, rules, todo, bypass, force, matched, bound, config, props,
                   found, defined, activation, applied, blocked>>

(* A device in the state of disaster recovery always gets an answer.       *)
CheckForDRIState ==
    /\ pc = "dri" /\ pc' = "done"
    /\ blocked' = (blocked /\ ~req.dri)
    /\ props' = IF req.dri THEN [props EXCEPT ![REBOOT_IMMEDIATELY] = True] ELSE props
    /\ UNCHANGED <<inputs, tables, rules, todo, bypass, force, matched, bound, config,
                   found, defined, activation, applied>>

(* Meanwhile an administrator deletes a template or a configuration.       *)
Delete(x) ==
    /\ pc \notin {"done", "panic"} /\ x \in templates \cup configs
    /\ templates' = templates \ {x} /\ configs' = configs \ {x}
    /\ UNCHANGED <<inputs, pc, rules, todo, bypass, force, matched, bound, config, props,
                   found, defined, activation, applied, blocked>>

Next ==
    \/ Start
    \/ \E t \in Templates : MatchRule(t)
    \/ NoRuleMatched
    \/ Bind
    \/ LoadNothing
    \/ Load
    \/ StartFilters
    \/ \E t \in Templates : MatchFilters(t)
    \/ AllFiltersMatched
    \/ ApplyFilter
    \/ ApplyPanics
    \/ Merge
    \/ MergePanics
    \/ \E t \in Templates : MatchBlocking(t)
    \/ NothingBlocks
    \/ CheckForDRIState
    \/ \E x \in Deletable : Delete(x)

Spec == Init /\ [][Next]_vars

-----------------------------------------------------------------------------
Phases == {"start", "rules", "bind", "load", "filters", "define", "apply", "block",
           "dri", "done", "panic"}

(* Everything has its type, a rule is matched before it is bound, and the  *)
(* filters of DoFilters only run on a configuration that has been read.    *)
TypeOK ==
    /\ pc \in Phases /\ templates \subseteq Templates /\ configs \subseteq Configs
    /\ rules \subseteq Rules /\ todo \subseteq Templates /\ applied \subseteq Rules
    /\ bound \in Configs \cup {None} /\ config \in Configs \cup {None}
    /\ props \in [Keys -> Values] /\ DOMAIN defined \subseteq Keys
    /\ \A k \in DOMAIN defined : defined[k] \in Values
    /\ found \in Seq(Rules) /\ activation \in BOOLEAN /\ blocked \in BOOLEAN
    /\ matched = <<>> \/ \E r \in Rules : matched = <<r>>
    /\ pc \notin {"start", "rules", "done"} => matched # <<>>
    /\ pc \in {"filters", "define", "apply", "block", "dri", "panic"} => config # None

(* The device is below the minimum version of the rule it has matched.     *)
HasToUpdate ==
    matched # <<>> /\ Distributes(matched[1]) /\ BelowMinimum(action[matched[1]])

(* A device below the minimum version is never held back by the time       *)
(* filter: ExtractConfigFromAction adds it to the bypass filters, and      *)
(* DoFilters finds it there, whatever happens in between.                  *)
MinimumNotHeldBack == HasToUpdate => \A r \in applied : Type[r] # TIME_FILTER

(* A reboot that the request or a minimum-version check forces survives    *)
(* all properties that filters define.                                     *)
ForcedReboot ==
    /\ pc \in {"block", "dri", "done"} /\ config # None
    /\ \/ REBOOT_IMMEDIATELY_FILTER \in req.forceFilters
       \/ HasToUpdate /\ action[matched[1]].rebootImmediately
    => props[REBOOT_IMMEDIATELY] = True

(* A rule that blocks the answer is not of a type that the request, the    *)
(* template of the matched rule, or an applied filter bypasses.            *)
BypassHonoured ==
    \A b \in applied : Kind[Type[b]] = "BLOCK" =>
        /\ Type[b] \notin req.bypassFilters \cup ByPassFilters[Type[matched[1]]]
        /\ \A r \in applied : Kind[Type[r]] = "DEFINE" =>
              /\ Type[b] \notin ByPassFilters[Type[r]]
              /\ Type[r] # ACTIVATION_VERSION => Type[b] \notin action[r].byPassFilters

(* FindMatchedRule: no rule of an earlier template, and no rule with more  *)
(* conditions of an ENV_MODEL rule, has been passed over.                  *)
MatchedFirst ==
    pc = "bind" =>
        \A r \in req.matches :
            Kind[Type[r]] = "RULE" /\ Type[r] \in templates \ bypass =>
                /\ Priority[Type[matched[1]]] <= Priority[Type[r]]
                /\ Type[r] = Type[matched[1]] /\ Type[r] = ENV_MODEL_RULE =>
                      Size[r] <= Size[matched[1]]

(* Of several filters that define a property, the one whose template comes *)
(* first by priority decides: they are applied in descending order.        *)
DefinePrecedence ==
    pc = "done" /\ config # None =>
        \A k \in Keys \ {REBOOT_IMMEDIATELY, MANDATORY_UPDATE, IPV6_LOCATION} :
            LET D == {r \in applied : Kind[Type[r]] = "DEFINE" /\ k \in DOMAIN action[r].properties}
            IN  D # {} => \E r \in D :
                    /\ \A q \in D : Priority[Type[r]] <= Priority[Type[q]]
                    /\ props[k] = ConvertProperties(Type[r], action[r].properties)[k]

(* Pausing an entry of the distribution stops the devices in it and moves  *)
(* no device to another configuration.                                     *)
PausingMovesNobody ==
    matched # <<>> =>
        LET a == action[matched[1]]
        IN  \A i \in DOMAIN a.configEntries :
              DistributedConfig([a EXCEPT !.configEntries[i].isPaused = TRUE])
                  \in {None, DistributedConfig(a)}

(* A device in disaster recovery for which there is a configuration gets   *)
(* it, whatever filter matches, and reboots.                               *)
DriAnswered ==
    pc = "done" /\ req.dri /\ config # None =>
        ~blocked /\ props[REBOOT_IMMEDIATELY] = True

(* The mandatory flag of a percentage rule tells whether the device's      *)
(* version is outside the versions of the rule; no filter changes it.      *)
MandatoryIsMinimum ==
    pc = "done" /\ config # None /\ isPercentFilter /\ req.version # Unset =>
        LET a == action[matched[1]]
        IN  props[MANDATORY_UPDATE] = True <=>
              a.firmwareCheckRequired /\ a.firmwareVersions # {} /\ req.version \notin a.firmwareVersions

(* A device whose version is not among the activation versions of the most *)
(* specific activation rule reboots, unless a filter says otherwise.       *)
ActivationReboots ==
    LET M == {r \in req.matches : Type[r] = ACTIVATION_VERSION}
        best == {r \in M : \A q \in M : Size[q] <= Size[r]}
    IN  /\ pc = "done" /\ config # None /\ isPercentFilter /\ req.version # Unset
        /\ M # {} /\ ACTIVATION_VERSION \in templates \ bypass
        /\ \A r \in best : req.version \notin ActivationVersions(action[r])
        /\ \A r \in applied : REBOOT_IMMEDIATELY \notin DOMAIN action[r].properties
        => props[REBOOT_IMMEDIATELY] = True

(* Filters hold back no device that they may not: none below the minimum   *)
(* version, none for which they are bypassed (DoFilters).                  *)
NotHeldBack == MinimumNotHeldBack /\ BypassHonoured

(* What Eval has settled stays so until the answer: the rule it matched, a *)
(* forced reboot, disaster recovery, the mandatory flag.                   *)
AnswerSettled ==
    /\ MatchedFirst
    /\ ForcedReboot
    /\ DriAnswered
    /\ MandatoryIsMinimum

(* Properties, paused distributions and activation versions act on the     *)
(* answer in the order of their templates' priorities.                     *)
FiltersApplied == DefinePrecedence /\ PausingMovesNobody /\ ActivationReboots
=============================================================================
