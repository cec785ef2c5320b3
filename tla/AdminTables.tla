----------------------------- MODULE AdminTables -----------------------------
(***************************************************************************)
(* Rows that operators edit: namespaced lists, firmware configurations,    *)
(* models, firmware rules and templates, telemetry profiles, application   *)
(* settings (shared/generic_namespaced_List.go, shared/coretypes.go and    *)
(* the validations of shared/firmware, estbfirmware and logupload).        *)
(*                                                                         *)
(* A host validates a row against the tables as its own cache shows them,  *)
(* and saves it in a second call; namespacedListUpdateMutex, which might   *)
(* have joined the two, is never locked.  A save writes the row to the     *)
(* database as JSON and to the writer's cache as it is; the other hosts    *)
(* read it from the database later (module CacheSync models how).          *)
(***************************************************************************)
EXTENDS Integers, Sequences, FiniteSets

CONSTANTS
    Hosts,          \* servers that operators use
    Keys,           \* row keys of the table that is edited
    Models,         \* ids of models
    Tables,         \* the tables that behaviours are about
    Drafts,         \* [Tables -> the rows that operators try to save]
    Covers,         \* [strings -> the IP addresses each stands for, none if it does not parse]
    Blocks,         \* the strings among them that are CIDR blocks
    MacAddresses,   \* strings that IsValidMacAddress accepts
    UpperCase,      \* [descriptions -> descriptions]: strings.ToUpper
    MaxEdits        \* bound on saves and deletions

None == [none |-> TRUE]
MaxProperties == 20
AppTypes == {"stb", "xhome", "rdkcloud", "sky"}
Panic == "<panic>"

(* Drafts are what a request body can hold: the elements of a profile are  *)
(* a sequence, a setting has a type that one of the getters reads.         *)
ASSUME AdminConstants ==
    /\ IsFiniteSet(Hosts) /\ MaxEdits \in Nat
    /\ Tables \subseteq {"list", "config", "rule", "template", "telemetry", "telemetry2", "setting"}
    /\ "telemetry" \in Tables =>
         \A p \in Drafts["telemetry"] : p.elements \in Seq({p.elements[i] : i \in DOMAIN p.elements})
    /\ "setting" \in Tables =>
         \A s \in Drafts["setting"] :
             /\ s = [go |-> s.go, value |-> s.value]
             /\ s.go \in {"int", "float64", "bool", "string", "time"} /\ s.value # Panic

VARIABLES
    topic,          \* the table this behaviour is about
    table,          \* [Keys -> row or None]: the database
    cached,         \* [Hosts -> [Keys -> row or None]]
    models,         \* the models in the database
    knownModels,    \* [Hosts -> SUBSET Models]
    pending,        \* [Hosts -> <<>>, or <<row that has been validated>>]
    blind,          \* pairs of rows of which the later one was validated without the other
    edits

adminVars == <<topic, table, cached, models, knownModels, pending, blind, edits>>

-----------------------------------------------------------------------------
(* Addresses.                                                              *)
NewIpAddress(s) == Covers[s]
ParseIP(s) == IF s \in Blocks THEN {} ELSE Covers[s]
IsInRange(s, a) == a \in NewIpAddress(s)

(* A group keeps the raw strings and the addresses that parse.             *)
NewIpAddressGroupWithAddrStrings(raw) == [raw |-> raw, ips |-> {s \in raw : NewIpAddress(s) # {}}]
GroupIsInRange(g, a) == \E s \in g.ips : IsInRange(s, a)

IsInIpRange(l, a) == GroupIsInRange(NewIpAddressGroupWithAddrStrings(l.data), a)
ConvertToIpAddressGroup(l) == NewIpAddressGroupWithAddrStrings(l.data)
ConvertFromIpAddressGroup(g) == [type |-> "IP_LIST", data |-> g.raw, admin |-> TRUE]

-----------------------------------------------------------------------------
(* Namespaced lists.  Lists of type STRING and RI_MAC_LIST may hold        *)
(* anything.                                                               *)
IsValidType(t) == t \in {"STRING", "MAC_LIST", "IP_LIST", "RI_MAC_LIST"}

ValidateListData(l) ==
    /\ IsValidType(l.type) /\ l.data # {}
    /\ l.type = "IP_LIST" => \A s \in l.data : ParseIP(s) # {}
    /\ l.type = "MAC_LIST" => l.data \subseteq MacAddresses

ValidateListDataForAdmin(l) ==
    /\ IsValidType(l.type) /\ l.data # {}
    /\ l.type = "IP_LIST" => \A s \in l.data : NewIpAddress(s) # {}
    /\ l.type = "MAC_LIST" => l.data \subseteq MacAddresses

RowsOf(h) == {k \in Keys : cached[h][k] # None}
GetGenericNamedListListsByTypeDB(h, t) == {k \in RowsOf(h) : cached[h][k].type = t}
GetGenericNamedListSetByType(h, t) == UNION {cached[h][k].data : k \in GetGenericNamedListListsByTypeDB(h, t)}

MutSubsetOnly(h, k, l) ==
    l.type = "MAC_LIST" => \A j \in GetGenericNamedListListsByTypeDB(h, l.type) \ {k} : l.data # cached[h][j].data
ValidateDataIntersection(h, k, l) ==
    l.type = "MAC_LIST" =>
        \A j \in GetGenericNamedListListsByTypeDB(h, l.type) \ {k} : l.data \cap cached[h][j].data = {}

ValidateList(h, k, l) ==
    /\ IF l.admin THEN ValidateListDataForAdmin(l) ELSE ValidateListData(l)
    /\ ValidateDataIntersection(h, k, l)

(* Lookups by type: from the cache, which loads a row it does not have,    *)
(* and from the database.                                                  *)
GetOne(h, k) == IF cached[h][k] # None THEN cached[h][k] ELSE table[k]
OfListType(l, t) == IF l # None /\ l.type = t THEN l ELSE None
MutAnyListType(h, k, t) == GetOne(h, k)
GetGenericNamedListOneByType(h, k, t) == OfListType(GetOne(h, k), t)
GetGenericNamedListOneByTypeNonCached(k, t) ==
    IF t = "" THEN table[k] ELSE OfListType(table[k], t)

-----------------------------------------------------------------------------
(* Firmware configurations name models that exist, and have descriptions   *)
(* of their own; a model that is looked up is loaded into the cache.       *)
IsExistModel(h, m) == m \in knownModels[h] \cup models
ValidateApplicationType(app) == app \in AppTypes

ValidateConfig(h, c) ==
    /\ c.description # "" /\ c.version # "" /\ c.models # {}
    /\ \A m \in c.models : IsExistModel(h, m)
    /\ c.protocol \in {"", "tftp", "http", "https"} /\ c.properties <= MaxProperties
    /\ ValidateApplicationType(c.app)

ValidateName(h, k, c) ==
    \A j \in RowsOf(h) \ {k} :
        cached[h][j].app = c.app => UpperCase[cached[h][j].description] # UpperCase[c.description]

(* Firmware rules have names of their own within an application type.      *)
ValidateRuleName(h, k, r) ==
    \A j \in RowsOf(h) \ {k} : ~(cached[h][j].name = r.name /\ cached[h][j].app = r.app)

(* Templates.                                                              *)
IsValidApplicableActionType(t) ==
    t \in {"RULE", "DEFINE_PROPERTIES", "BLOCKING_FILTER",
           "RULE_TEMPLATE", "DEFINE_PROPERTIES_TEMPLATE", "BLOCKING_FILTER_TEMPLATE"}
isValidApplicableClass(c) ==
    c \in {".ApplicableAction", ".RuleAction", ".DefinePropertiesAction", ".DefinePropertiesTemplateAction",
           ".BlockingFilterAction"}
ValidateTemplate(t) == IsValidApplicableActionType(t.actionType) /\ isValidApplicableClass(t.class)

(* Telemetry profiles.  The scheme stands for the upload URL; the data of  *)
(* an element are its header, content, type and component, and its polling *)
(* frequency is a number or is not.  A profile of version 2 is JSON that   *)
(* fits its schema or is not.                                              *)
EqualTelemetryData(d, e) == d = e
IsValidUploadProtocol(p) == p \in {"tftp", "sftp", "scp", "http", "https", "s3"}
IsValidUrl(u) == IsValidUploadProtocol(u)

ValidateTelemetryProfile(p) ==
    /\ p.name # "" /\ IsValidUrl(p.scheme) /\ p.elements # <<>>
    /\ \A i \in DOMAIN p.elements : p.elements[i].numeric
    /\ \A i, j \in DOMAIN p.elements : i < j => ~EqualTelemetryData(p.elements[i], p.elements[j])

(* checkEqualTelemetryElements counts equal pairs.                         *)
checkEqualTelemetryElements(s, t) ==
    Len(s) = Len(t) /\ Cardinality({p \in (DOMAIN s) \X (DOMAIN t) : s[p[1]] = t[p[2]]}) = Len(s)

ValidateTelemetryTwo(p) == p.name # "" /\ p.json
ValidateAllTelemetryTwo(h, k, p) == \A j \in RowsOf(h) \ {k} : cached[h][j].name # p.name

-----------------------------------------------------------------------------
(* Application settings.  A number comes back from JSON as float64, a time *)
(* as a string.                                                            *)
Setting(go, value) == [go |-> go, value |-> value]

Encoded(row) ==
    IF topic # "setting" \/ row = None THEN row
    ELSE [row EXCEPT !.go = IF @ = "int" THEN "float64" ELSE IF @ = "time" THEN "string" ELSE @]

GetIntAppSetting(s) == IF s.go \in {"float64", "int"} THEN s.value ELSE Panic
GetFloat64AppSetting(s) == IF s.go = "float64" THEN s.value ELSE Panic
GetBooleanAppSetting(s) == IF s.go = "bool" THEN s.value ELSE Panic
GetStringAppSetting(s) == IF s.go = "string" THEN s.value ELSE Panic

-----------------------------------------------------------------------------
AdminInit ==
    /\ topic \in Tables
    /\ table = [k \in Keys |-> None]
    /\ cached = [h \in Hosts |-> table]
    /\ models \in {{}, Models} /\ (topic # "config" => models = Models)
    /\ knownModels = [h \in Hosts |-> models]
    /\ pending = [h \in Hosts |-> <<>>]
    /\ blind = {} /\ edits = 0

Valid(h, k, d) ==
    CASE topic = "list" -> ValidateList(h, k, d)
      [] topic = "config" -> ValidateConfig(h, d) /\ ValidateName(h, k, d)
      [] topic = "rule" -> ValidateRuleName(h, k, d)
      [] topic = "template" -> ValidateTemplate(d)
      [] topic = "telemetry" -> ValidateTelemetryProfile(d)
      [] topic = "telemetry2" -> ValidateTelemetryTwo(d) /\ ValidateAllTelemetryTwo(h, k, d)
      [] topic = "setting" -> TRUE

(* Rows that the host's cache shows otherwise than the database.           *)
Unseen(h) == {k \in Keys : Encoded(cached[h][k]) # table[k]}

Validate(h, k, d) ==
    /\ pending[h] = <<>> /\ edits < MaxEdits
    /\ Valid(h, k, d)
    /\ pending' = [pending EXCEPT ![h] = <<[key |-> k, row |-> d, unseen |-> Unseen(h)]>>]
    /\ knownModels' = IF topic = "config"
                      THEN [knownModels EXCEPT ![h] = @ \cup (d.models \cap models)] ELSE knownModels
    /\ UNCHANGED <<topic, table, cached, models, blind, edits>>

(* What the hosts that wait with a validated row have not seen.            *)
Missed(h, k) ==
    [g \in Hosts |-> IF g = h THEN <<>>
                     ELSE IF pending[g] = <<>> THEN <<>>
                     ELSE <<[pending[g][1] EXCEPT !.unseen = @ \cup {k}]>>]

(* CachedSimpleDao.SetOne: the database, then the writer's own cache.      *)
AdminSetOne(h) ==
    /\ pending[h] # <<>>
    /\ LET p == pending[h][1]
       IN  /\ table' = [table EXCEPT ![p.key] = Encoded(p.row)]
           /\ cached' = [cached EXCEPT ![h][p.key] = p.row]
           /\ pending' = Missed(h, p.key)
           /\ blind' = {b \in blind : p.key \notin b} \cup {{p.key, j} : j \in p.unseen \ {p.key}}
    /\ edits' = edits + 1
    /\ UNCHANGED <<topic, models, knownModels>>

AdminDeleteOne(h, k) ==
    /\ pending[h] = <<>> /\ edits < MaxEdits /\ table[k] # None
    /\ table' = [table EXCEPT ![k] = None]
    /\ cached' = [cached EXCEPT ![h][k] = None]
    /\ pending' = [Missed(h, k) EXCEPT ![h] = pending[h]]
    /\ blind' = {b \in blind : k \notin b}
    /\ edits' = edits + 1
    /\ UNCHANGED <<topic, models, knownModels>>

(* SetOneModel, DeleteOneModel; a host that knows a model may go on using  *)
(* it after another has deleted it.                                        *)
SetOneModel(h, m) ==
    /\ topic = "config" /\ edits < MaxEdits /\ m \notin models
    /\ models' = models \cup {m} /\ knownModels' = [knownModels EXCEPT ![h] = @ \cup {m}]
    /\ edits' = edits + 1
    /\ UNCHANGED <<topic, table, cached, pending, blind>>

DeleteOneModel(h, m) ==
    /\ topic = "config" /\ edits < MaxEdits /\ m \in models
    /\ models' = models \ {m} /\ knownModels' = [knownModels EXCEPT ![h] = @ \ {m}]
    /\ edits' = edits + 1
    /\ UNCHANGED <<topic, table, cached, pending, blind>>

(* A change of the database reaches a host.                                *)
Refresh(h, k) ==
    /\ cached[h][k] # table[k]
    /\ cached' = [cached EXCEPT ![h][k] = table[k]]
    /\ UNCHANGED <<topic, table, models, knownModels, pending, blind, edits>>

RefreshModels(h) ==
    /\ knownModels[h] # models
    /\ knownModels' = [knownModels EXCEPT ![h] = models]
    /\ UNCHANGED <<topic, table, cached, models, pending, blind, edits>>

AdminNext ==
    \/ \E h \in Hosts, k \in Keys, d \in Drafts[topic] : Validate(h, k, d)
    \/ \E h \in Hosts : AdminSetOne(h)
    \/ \E h \in Hosts, k \in Keys : AdminDeleteOne(h, k)
    \/ \E h \in Hosts, m \in Models : SetOneModel(h, m)
    \/ \E h \in Hosts, m \in Models : DeleteOneModel(h, m)
    \/ \E h \in Hosts, k \in Keys : Refresh(h, k)
    \/ \E h \in Hosts : RefreshModels(h)

AdminSpec == AdminInit /\ [][AdminNext]_adminVars

-----------------------------------------------------------------------------
(* The rows of the database: addresses that parse, elements that differ,   *)
(* types and classes that exist.                                           *)
AdminTypeOK ==
    /\ blind \subseteq SUBSET Keys /\ edits \in 0..MaxEdits + Cardinality(Hosts)
    /\ \A k \in Keys : table[k] # None =>
          /\ topic = "list" =>
               /\ table[k].type = "IP_LIST" => \A s \in table[k].data : Covers[s] # {}
               /\ table[k].type = "MAC_LIST" => table[k].data \subseteq MacAddresses
          /\ topic = "telemetry" => Cardinality({table[k].elements[i] : i \in DOMAIN table[k].elements})
                                       = Len(table[k].elements)
          /\ topic = "template" => table[k].class # "" /\ table[k].actionType # ""
          /\ topic = "config" => table[k].models # {} /\ table[k].app \in AppTypes
          /\ topic = "setting" => table[k].go \in {"float64", "bool", "string"}

(* Two rows that their validations keep apart.                             *)
Conflict(r, s) ==
    CASE topic = "list" -> r.type = "MAC_LIST" /\ s.type = "MAC_LIST" /\ r.data \cap s.data # {}
      [] topic = "config" -> r.app = s.app /\ UpperCase[r.description] = UpperCase[s.description]
      [] topic = "rule" -> r.app = s.app /\ r.name = s.name
      [] topic = "telemetry2" -> r.name = s.name
      [] OTHER -> FALSE

(* Two MAC lists share an address, or two rows a name, only when the later *)
(* one was validated by a host that had not seen the other:                *)
(* ValidateDataIntersection, ValidateName, ValidateRuleName and            *)
(* ValidateAll close every other way, the renaming and retyping of rows    *)
(* included.                                                               *)
ConflictsWereBlind ==
    \A i, j \in Keys : i # j /\ table[i] # None /\ table[j] # None /\ Conflict(table[i], table[j])
        => {i, j} \in blind

(* A list that is asked for by its type is found by a host whose cache is  *)
(* in step with the database as it is found in the database, and a member  *)
(* of an IP list is in its range, as every address of a block is.          *)
TypedListsAgree ==
    topic = "list" =>
        \A h \in Hosts, k \in Keys : cached[h][k] \in {None, table[k]} =>
            \A t \in {"MAC_LIST", "IP_LIST"} :
                LET l == GetGenericNamedListOneByType(h, k, t)
                IN  /\ l = GetGenericNamedListOneByTypeNonCached(k, t)
                    /\ l # None /\ cached[h][k] # None => l.data \subseteq GetGenericNamedListSetByType(h, t)
                    /\ l # None /\ t = "IP_LIST" =>
                         /\ \A s \in l.data : Covers[s] # {} /\ \A a \in Covers[s] : IsInIpRange(l, a)
                         /\ ConvertFromIpAddressGroup(ConvertToIpAddressGroup(l)).data = l.data

(* Telemetry profiles that were accepted have the same elements, in any    *)
(* order, exactly when checkEqualTelemetryElements says so: counting pairs *)
(* is enough because Validate lets no element occur twice.                 *)
ElementsCompared ==
    topic = "telemetry" =>
        \A i, j \in Keys : table[i] # None /\ table[j] # None =>
            LET s == table[i].elements
                t == table[j].elements
                All(e) == {e[n] : n \in DOMAIN e}
            IN  checkEqualTelemetryElements(s, t) <=> All(s) = All(t)

(* A setting reads the same on the host that set it and on the ones that   *)
(* got it from the database, by the getter of its type; not so a time, nor *)
(* a whole number that is read as a float64.                               *)
SettingsReadSame ==
    topic = "setting" =>
        \A h \in Hosts, k \in Keys :
            LET s == cached[h][k]
            IN  s # None /\ Encoded(s) = table[k] =>
                  /\ s.go \in {"int", "float64"} => GetIntAppSetting(s) = GetIntAppSetting(table[k])
                                                    /\ GetIntAppSetting(s) # Panic
                  /\ s.go = "float64" => GetFloat64AppSetting(s) = GetFloat64AppSetting(table[k])
                  /\ s.go = "bool" => GetBooleanAppSetting(s) = GetBooleanAppSetting(table[k])
                  /\ s.go = "string" => GetStringAppSetting(s) = GetStringAppSetting(table[k])

(* The rows that passed their validations are well-formed, and exclude     *)
(* each other as the validations demand, but for rows that were saved      *)
(* without having seen each other.                                         *)
TablesConsistent == AdminTypeOK /\ ConflictsWereBlind

(* A row means the same to every host and by every function that reads it: *)
(* lists by type, the elements of telemetry profiles, application          *)
(* settings.                                                               *)
RowsReadSame == TypedListsAgree /\ ElementsCompared /\ SettingsReadSame
=============================================================================
