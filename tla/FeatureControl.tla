---------------------------- MODULE FeatureControl ----------------------------
(***************************************************************************)
(* Feature control (RFC): GetFeatureControlSettingsHandler with the rule   *)
(* evaluation, the post-processing, the answers precooked by an external   *)
(* service, and the row of the penetration metrics that a goroutine writes *)
(* after the answer.  The context of the request is complete here; how it  *)
(* is completed is in RequestContext.                                      *)
(*                                                                         *)
(* A hash stands for its content: the config set hash is the sequence of   *)
(* feature responses it is computed from, and NoHash the empty header.     *)
(***************************************************************************)
EXTENDS Integers, SequencesExt

CONSTANTS Profiles,   \* contexts of a device, see ProfileType
          Apps, Firmwares, Networks,
          Devices,    \* what the device may be at first
          Tables,     \* contents of the tables, see Live
          Configs,    \* [can, p304, offered : BOOLEAN]: the precook flags
          Payloads,   \* what the XPC table may hold of "rules", "offeredRules" and "post"
          MaxRequests, \* bound on the requests of the device
          MaxChanges,  \* bound on what happens around them
          Unknown, Empty, None, NoHash

VARIABLES table,      \* feature rules, features and named lists
          config,     \* EnableRfcPrecook in its window, EnableRfcPrecook304, ...ForOfferedFw
          off,        \* precook lockdown, or the MAC is on the exclusion list
          precook,    \* the device's precook data in XDAS
          xpc,        \* which of its payloads the XPC table holds
          dev,        \* the device: profile, application type, firmware, network, held hash
          req, pre,   \* the request, and what the handler found out about precook
          ans, last,  \* the answer to this request, and to the one before
          goroutines, \* metrics to be written
          row,        \* row of the penetration metrics table
          asked, changes, pc

fcVars == <<table, config, off, precook, xpc, dev, req, pre, ans, last, goroutines, row, asked, changes, pc>>

(* partner is PARTNER_ID and passed PASSED_PARTNER_ID; gr says that the     *)
(* account management is xpc and the model starts with GR; pod is PodData. *)
ProfileType == [account : {Unknown, Empty, "A1", "A2"}, passed : {Unknown, Empty, "P1"},
                partner : {Unknown, Empty, "P1"}, gr : BOOLEAN, pod : {None, "A1", "A2"},
                other : {1, 2}]  \* MAC, model, serial number, experience and tags

(* A table is [rules, features, lists]: rules maps ids to [priority, app,  *)
(* fws, devices, features], features maps the ids that exist to [name,     *)
(* instance, list], and lists is the set of named lists that exist.        *)
IsTable(t) ==
  /\ IsFiniteSet(DOMAIN t.rules) /\ IsFiniteSet(DOMAIN t.features)
  /\ \A id \in DOMAIN t.rules :
        t.rules[id].priority \in Int /\ t.rules[id].features \in Seq(Range(t.rules[id].features))
  /\ \A f \in DOMAIN t.features : t.features[f].instance \in 0..20

ASSUME FeatureControlConstants ==
  /\ Profiles \subseteq ProfileType
  /\ Configs \subseteq [can : BOOLEAN, p304 : BOOLEAN, offered : BOOLEAN]
  /\ Payloads \subseteq SUBSET {"rules", "offeredRules", "post"}
  /\ MaxRequests \in Nat /\ MaxChanges \in Nat
  /\ Unknown # Empty /\ {Unknown, Empty} \cap {"P1", "P2"} = {}
  /\ \A t \in Tables : IsTable(t)

-----------------------------------------------------------------------------
(* Rule evaluation.                                                        *)

\* Equal ranks come in any order.
Orders(S, rank) ==
  {s \in SetToSeqs(S) : \A i, j \in DOMAIN s : i < j => rank[s[i]] <= rank[s[j]]}

Matches(rule, r) == r.app = rule.app /\ r.fw \in rule.fws /\ <<r.profile, r.net>> \in rule.devices

Matched(t, r) == {id \in DOMAIN t.rules : Matches(t.rules[id], r)}

ProcessFeatureRules(t, r) ==
  Orders(Matched(t, r), [id \in DOMAIN t.rules |-> t.rules[id].priority])

\* A whitelisted feature carries its named list if that exists.
ToRfcResponse(t, id) ==
  LET f == t.features[id]
  IN  [name |-> f.name, instance |-> f.instance, value |-> id,
       list |-> IF f.list \in t.lists THEN f.list ELSE None]

Put(t, featureMap, id) ==
  [n \in DOMAIN featureMap \cup {t.features[id].name} |->
     IF n = t.features[id].name THEN ToRfcResponse(t, id) ELSE featureMap[n]]

MutLastWins(t, featureMap, ids) ==
  LET m[i \in 0..Len(ids)] ==
        IF i = 0 THEN featureMap
        ELSE IF ids[i] \notin DOMAIN t.features THEN m[i - 1] ELSE Put(t, m[i - 1], ids[i])
  IN  m[Len(ids)]

\* A feature that is gone is skipped, and so is one whose name is taken.
AddFeature(t, featureMap, id) ==
  IF id \notin DOMAIN t.features \/ t.features[id].name \in DOMAIN featureMap THEN featureMap
  ELSE Put(t, featureMap, id)

AddFeaturesToResult(t, featureMap, ids) ==
  LET m[i \in 0..Len(ids)] == IF i = 0 THEN featureMap ELSE AddFeature(t, m[i - 1], ids[i])
  IN  m[Len(ids)]

\* The responses in the order of their instances; the order of equal ones is that
\* of a Go map.
SortedResponses(S) == Orders(S, [x \in S |-> x.instance])

\* Eval walks the matched rules, ...
FeatureMap(t, rules) ==
  LET m[i \in 0..Len(rules)] ==
        IF i = 0 THEN <<>> ELSE AddFeaturesToResult(t, m[i - 1], t.rules[rules[i]].features)
  IN  m[Len(rules)]

\* ... and CalculateHash sorts the responses in place.
Live(t, r) ==
  UNION {SortedResponses({FeatureMap(t, rules)[n] : n \in DOMAIN FeatureMap(t, rules)}) :
           rules \in ProcessFeatureRules(t, r)}

-----------------------------------------------------------------------------
(* Post-processing.  Its responses have the instances 21 to 23: they sort  *)
(* after those of the tables.                                              *)

Names == [i \in 21..23 |-> <<"AccountHash", "AccountId", "SyndicationPartner">>[i - 20]]
Extra(instance, value) == [name |-> Names[instance], instance |-> instance, value |-> value, list |-> None]
When(cond, s) == IF cond THEN s ELSE <<>>

PartnerFeature(p) ==
  CASE p.gr /\ p.passed = Unknown -> <<Extra(23, "DTGR")>>
    [] p.gr /\ p.passed # Unknown -> When(p.passed # Empty, <<Extra(23, p.passed)>>)
    [] ~p.gr /\ p.passed = Unknown -> When(p.partner # Empty, <<Extra(23, p.partner)>>)
    [] OTHER -> <<>>

\* The account id of the pod data, where there is any, and not that of the context.
AccountIdFeature(p, secured) ==
  IF p.gr THEN <<Extra(22, Unknown)>>
  ELSE When(secured /\ p.account # Empty, <<Extra(22, IF p.pod # None THEN p.pod ELSE p.account)>>)

PostProcessFeatureControl(p, secured) ==
  When(p.account # Empty, <<Extra(21, p.account)>>)
  \o AccountIdFeature(p, secured) \o PartnerFeature(p)

Responses(t) == {ToRfcResponse(t, id) : id \in DOMAIN t.features}

\* No hash of features is the empty header.
ASSUME NoHashAssumption ==
  NoHash \notin Seq((UNION {Responses(t) : t \in Tables})
                   \cup (UNION {Range(PostProcessFeatureControl(p, s)) : p \in Profiles, s \in BOOLEAN}))

-----------------------------------------------------------------------------
(* Precooked data.                                                         *)

\* CalculateHashForContextData: neither the application type nor the firmware,
\* nor what the device passed as its partner.
CtxHash(p) == <<p.account, p.partner, p.other>>

Change == changes < MaxChanges /\ changes' = changes + 1

\* External: the precook service computes what the server would answer to the
\* device over a secured connection, with its firmware and the one offered to it.
Cook ==
  /\ pc = "idle"
  /\ \E fw \in Firmwares \ {dev.fw}, complete \in BOOLEAN :
       \E live \in Live(table, dev), offered \in Live(table, [dev EXCEPT !.fw = fw]) :
         precook' = [ctx |-> CtxHash(dev.profile), profile |-> dev.profile, app |-> dev.app,
                     fw |-> dev.fw, net |-> dev.net, offered |-> fw, complete |-> complete,
                     rules |-> live, offeredRules |-> offered, table |-> table,
                     post |-> PostProcessFeatureControl(dev.profile, TRUE)]
  /\ xpc' \in Payloads  \* payloads expire
  /\ Change
  /\ UNCHANGED <<table, config, off, dev, req, pre, ans, last, goroutines, row, asked, pc>>

RfcHash(d) == d.rules \o d.post
OfferedFwRfcHash(d) == d.offeredRules \o d.post

-----------------------------------------------------------------------------
(* The request.                                                            *)

Receive ==
  /\ pc = "idle" /\ asked < MaxRequests
  /\ \E secured \in BOOLEAN, hash \in {dev.held, NoHash} :
       req' = [profile |-> dev.profile, app |-> dev.app, fw |-> dev.fw, net |-> dev.net,
               secured |-> secured, hash |-> hash]
  /\ last' = IF ans # None /\ ans.rules = "live" /\ ans.post = "live" THEN ans ELSE None
  /\ asked' = asked + 1 /\ ans' = None /\ pc' = "flags"
  /\ UNCHANGED <<table, config, off, precook, xpc, dev, pre, goroutines, row, changes>>

\* Switched on, and within its hours.
canPrecookRfcResponses == config.can

\* GetPreprocessedRfcRulesEngineResponse, ...PostProcessResponse: the payload is read from XPC, or nothing.
InXpc(payload) == payload \in xpc

\* The flags are turned off when the precook data does not fit the request, but
\* not when there is none or it has no RfcHash.
MutAnyFirmware(d) == d # None /\ d.complete
FwMatched(d) == d # None /\ d.complete /\ req.fw = d.fw
OfferedFwMatched(d) == d # None /\ d.complete /\ req.fw # d.fw /\ config.offered /\ req.fw = d.offered
Fits(d) ==
  d = None \/ ~d.complete
  \/ (CtxHash(req.profile) = d.ctx /\ req.net = d.net /\ (FwMatched(d) \/ OfferedFwMatched(d)))

CheckPrecook ==
  /\ pc = "flags"
  /\ \E data \in {precook, None} :  \* GetPreprocessedRfcData may fail
       LET on == ~off /\ (canPrecookRfcResponses \/ config.p304)
           d == IF on THEN data ELSE None
       IN  pre' = [data |-> d, can |-> on /\ canPrecookRfcResponses /\ Fits(d), p304 |-> on /\ config.p304 /\ Fits(d)]
  /\ pc' = "answer"
  /\ UNCHANGED <<table, config, off, precook, xpc, dev, req, ans, last, goroutines, row, asked, changes>>

getMatchedPrecookHash(d) ==
  /\ d # None /\ req.hash # NoHash
  /\ \/ d.complete /\ req.hash = RfcHash(d)
     \/ config.offered /\ req.hash = OfferedFwRfcHash(d)

Metrics(h, fs, post, precook304) ==
  [partner |-> req.profile.partner, hash |-> h, features |-> fs, post |-> post, skip |-> precook304]

\* A request that asks for no metrics is one whose insert fails, below.
StartGoroutine(m) == goroutines' = goroutines \cup {m}

ReturnNotModifiedFromPrecook ==
  /\ pc = "answer" /\ pre.p304 /\ getMatchedPrecookHash(pre.data)
  /\ ans' = [status |-> 304, rules |-> "precook", post |-> "precook", hash |-> req.hash,
             body |-> <<>>, req |-> req, data |-> pre.data, table |-> table]
  /\ StartGoroutine(Metrics(NoHash, None, <<>>, TRUE))
  /\ pc' = "idle" /\ req' = None /\ pre' = None
  /\ UNCHANGED <<table, config, off, precook, xpc, dev, last, row, asked, changes>>

RulesPart ==
  IF pre.can /\ InXpc("rules") /\ FwMatched(pre.data) THEN [from |-> "precook", in |-> {pre.data.rules}]
  ELSE IF pre.can /\ InXpc("offeredRules") /\ OfferedFwMatched(pre.data)
    THEN [from |-> "precook", in |-> {pre.data.offeredRules}]
  ELSE [from |-> "live", in |-> Live(table, req)]

PostPart ==
  IF pre.can /\ pre.data # None /\ req.secured /\ InXpc("post")
    THEN [from |-> "precook", resp |-> pre.data.post]
    ELSE [from |-> "live", resp |-> PostProcessFeatureControl(req.profile, req.secured)]

Answer ==
  /\ pc = "answer" /\ ~(pre.p304 /\ getMatchedPrecookHash(pre.data))
  /\ \E rules \in RulesPart.in :
       LET hash == rules \o PostPart.resp
           same == req.hash # NoHash /\ hash = req.hash
       IN  /\ ans' = [status |-> IF same THEN 304 ELSE 200, rules |-> RulesPart.from,
                      post |-> PostPart.from, hash |-> hash, body |-> IF same THEN <<>> ELSE hash,
                      req |-> req, data |-> pre.data, table |-> table]
           /\ StartGoroutine(Metrics(hash, hash, IF PostPart.from = "precook" THEN <<>> ELSE PostPart.resp, FALSE))
           /\ dev' = [dev EXCEPT !.held = hash]
  /\ pc' = "idle" /\ req' = None /\ pre' = None
  /\ UNCHANGED <<table, config, off, precook, xpc, last, row, asked, changes>>

-----------------------------------------------------------------------------
(* The row of the device.                                                  *)

\* SetRfcPenetrationMetrics: the partner is replaced but never cleared, the features
\* stay when the answer was 304 from precook data.
SetRfcPenetrationMetrics(m) ==
  [row EXCEPT !.partner = IF m.partner \in {Unknown, Empty} THEN @ ELSE m.partner,
              !.hash = m.hash, !.post = m.post, !.features = IF m.skip THEN @ ELSE m.features]

UpdatePenetrationMetrics ==
  /\ \E m \in goroutines :
       /\ row' \in {row, SetRfcPenetrationMetrics(m)}  \* the insert may fail
       /\ goroutines' = goroutines \ {m}
  /\ UNCHANGED <<table, config, off, precook, xpc, dev, req, pre, ans, last, asked, changes, pc>>

\* SetFwPenetrationMetrics and UpdateFwPenetrationMetrics of the firmware API write
\* other columns of the same row, and the partner under the same rule.
SetFwPenetrationMetrics ==
  /\ pc = "idle"
  /\ \E p \in {Unknown, "P2"} :
       row' = [row EXCEPT !.partner = IF p = Unknown THEN @ ELSE p]
  /\ row' # row /\ Change
  /\ UNCHANGED <<table, config, off, precook, xpc, dev, req, pre, ans, last, goroutines, asked, pc>>

-----------------------------------------------------------------------------
(* What changes around the handler.                                        *)

UpdateTables ==
  /\ table' \in Tables \ {table}
  /\ Change
  /\ UNCHANGED <<config, off, precook, xpc, dev, req, pre, ans, last, goroutines, row, asked, pc>>

SetLockdown ==
  /\ off' = ~off
  /\ Change
  /\ UNCHANGED <<table, config, precook, xpc, dev, req, pre, ans, last, goroutines, row, asked, pc>>

DeviceChanges ==
  /\ pc = "idle"
  /\ \/ \E p \in Profiles : dev' = [dev EXCEPT !.profile = p]
     \/ \E a \in Apps : dev' = [dev EXCEPT !.app = a]
     \/ \E fw \in Firmwares : dev' = [dev EXCEPT !.fw = fw]
     \/ \E n \in Networks : dev' = [dev EXCEPT !.net = n]
  /\ dev' # dev /\ Change
  /\ UNCHANGED <<table, config, off, precook, xpc, req, pre, ans, last, goroutines, row, asked, pc>>

FcInit ==
  /\ table \in Tables /\ config \in Configs /\ off = FALSE
  /\ precook = None /\ xpc = {}
  /\ dev \in [profile : Profiles, app : Apps, fw : Firmwares, net : Networks, held : {NoHash}]
  /\ [profile |-> dev.profile, app |-> dev.app, fw |-> dev.fw, net |-> dev.net] \in Devices
  /\ req = None /\ pre = None /\ ans = None /\ last = None /\ goroutines = {}
  /\ row = [partner |-> Empty, hash |-> NoHash, features |-> None, post |-> <<>>]
  /\ asked = 0 /\ changes = 0 /\ pc = "idle"

FcNext ==
  \/ Cook \/ Receive \/ CheckPrecook \/ ReturnNotModifiedFromPrecook \/ Answer
  \/ UpdatePenetrationMetrics \/ SetFwPenetrationMetrics
  \/ UpdateTables \/ SetLockdown \/ DeviceChanges

FcSpec == FcInit /\ [][FcNext]_fcVars

-----------------------------------------------------------------------------
(* Properties.                                                             *)

\* The tables, the device, the answer and the row of the metrics keep their shape (SetRfcPenetrationMetrics).
FcTypeOK ==
  /\ table \in Tables /\ config \in Configs /\ off \in BOOLEAN
  /\ xpc \subseteq {"rules", "offeredRules", "post"}
  /\ dev.profile \in Profiles /\ dev.app \in Apps /\ dev.fw \in Firmwares /\ dev.net \in Networks
  /\ pc \in {"idle", "flags", "answer"} /\ asked \in 0..MaxRequests /\ changes \in 0..MaxChanges
  /\ ans # None => ans.status \in {200, 304}
  /\ row.partner \in {Empty, "P1", "P2"}

(* Precooked features are those the server would have answered to this very *)
(* request when they were cooked: for its context, its application type and *)
(* its firmware, the running or the offered one, although the device may   *)
(* have changed all of them, and the administrator the tables, since.  The *)
(* handler does not compare the application type, so devices that switch   *)
(* it are left out.                                                        *)
PrecookFits ==
  (ans # None /\ ans.status = 200 /\ ans.rules = "precook" /\ ans.req.app = ans.data.app
     /\ ans.req.profile = ans.data.profile) =>
    \E live \in Live(ans.data.table, ans.req) : SubSeq(ans.hash, 1, Len(live)) = live

(* Precooked post-processing is given to a request of the context it was   *)
(* cooked for, when the precook data is complete.                          *)
PostProcessingFits ==
  (ans # None /\ ans.status = 200 /\ ans.post = "precook" /\ ans.data.complete) =>
    CtxHash(ans.req.profile) = ans.data.ctx

(* The account id of a device is only sent over a secured connection, even *)
(* when the post-processing was precooked for a secured one.               *)
AccountIdSecured ==
  ans # None =>
    \A i \in DOMAIN ans.body : ans.body[i].instance = 22 /\ ans.body[i].value # Unknown => ans.req.secured

Listed(t, id) == {f \in Range(t.rules[id].features) : f \in DOMAIN t.features}

(* A feature name is answered by the matching rule of the best priority    *)
(* that lists an existing feature of that name, and every name that a      *)
(* matching rule lists is answered: the reference for the loops over rules *)
(* and features in Eval.                                                   *)
BestRuleAnswers ==
  (ans # None /\ ans.rules = "live" /\ ans.status = 200) =>
    LET t == ans.table
        r == ans.req
        matching == {id \in DOMAIN t.rules : Matches(t.rules[id], r)}
        given == {ans.body[i] : i \in DOMAIN ans.body}
    IN  \A id \in matching : \A f \in Listed(t, id) :
          \E g \in given : /\ g.name = t.features[f].name
                           /\ g.value # f =>
                                \E better \in matching :
                                  /\ g.value \in Listed(t, better)
                                  /\ t.rules[better].priority <= t.rules[id].priority

DistinctInstances(t) ==
  \A f, g \in DOMAIN t.features : f # g => t.features[f].instance # t.features[g].instance

(* A device that asks again with the hash it was given, nothing having     *)
(* changed, is told 304: the order in which Eval meets the features does   *)
(* not show, as long as no two of them share their instance.               *)
NotModifiedWhenSame ==
  (/\ ans # None /\ last # None /\ ans.rules = "live" /\ ans.post = "live"
   /\ ans.table = last.table /\ DistinctInstances(ans.table)
   /\ [ans.req EXCEPT !.hash = NoHash] = [last.req EXCEPT !.hash = NoHash]
   /\ ans.req.hash = last.hash) => ans.status = 304

(* The hash in the row of the metrics is the hash of the features in the   *)
(* row, in whichever order the goroutines write; after a 304 from precook  *)
(* data, which keeps the features, there is none.                          *)
RowHashOfFeatures == row.hash # NoHash => row.features = row.hash

(* Once a partner is in the row it is replaced but never cleared (XPC-18738). *)
PartnerKept == [][row.partner # Empty => row'.partner \notin {Unknown, Empty}]_fcVars

(* Precooked data is delivered only to the request it fits.                *)
AnswerFitsDevice == PrecookFits /\ PostProcessingFits /\ AccountIdSecured

(* The features a device is answered, and those recorded for it, are those *)
(* of the tables, and their hash tells them apart.                         *)
FeaturesOfTables ==
    /\ FcTypeOK
    /\ BestRuleAnswers
    /\ NotModifiedWhenSame
    /\ RowHashOfFeatures
=============================================================================
