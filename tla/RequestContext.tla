---------------------------- MODULE RequestContext ----------------------------
(***************************************************************************)
(* How the context of a request is completed before rules are evaluated:   *)
(* AddFeatureControlContext (api "rfc"), AddEstbFirmwareContext            *)
(* ("firmware") and AddLogUploaderContext ("dcm"), with the helpers they   *)
(* share.  Each call to a remote service is a step of its own and may      *)
(* fail; the answers of different services about the same device need not  *)
(* agree.                                                                  *)
(*                                                                         *)
(* What is known about an account (country code, time zone, type, state,   *)
(* products) is represented by the account it was read for, and the hash   *)
(* of an account id by HashOf; so values of two accounts that end up in    *)
(* one context can be told apart.                                          *)
(***************************************************************************)

CONSTANTS Accounts,        \* account ids
          Partners,        \* partner ids
          RoutedPartners,  \* Xc.PartnerSet
          Unknown, Empty,  \* "unknown" or "NoAccount"; the empty string
          Error, None, Mac,
          Confs,           \* configurations of the server, see ConfType
          Requests         \* requests, see RequestType

ConfType == [xac : BOOLEAN,         \* EnableXacGroupService, for the model
             accountService : BOOLEAN,
             macAccount : BOOLEAN,  \* EnableMacAccountServiceCall
             deviceDB : BOOLEAN, deviceService : BOOLEAN,
             routing : BOOLEAN,     \* EnablePartnerRouting
             partnerConnector : BOOLEAN,
             country : SUBSET Partners,  \* RfcReturnCountryCode, for the model
             groups : BOOLEAN,      \* EnableGroupService, for the model
             tagging : BOOLEAN, ft : SUBSET {"mac", "account", "partner"},
             valid : SUBSET (Partners \cup {Unknown})]  \* ValidPartnerIdRegex

Ids == Accounts \cup {Unknown, Empty}
PartnerIds == Partners \cup {Unknown, Empty}
HashOf(a) == <<a>>
Hashes == {Unknown, Empty} \cup {HashOf(a) : a \in Ids}

RequestType == [api : {"rfc", "firmware", "dcm"}, account : Ids, partner : PartnerIds,
                hash : Hashes, mgmt : {"", "xpc", "XPC"}, gr : BOOLEAN,
                estb : BOOLEAN, ecm : BOOLEAN,      \* the MAC addresses are valid
                serial : BOOLEAN, macSerial : BOOLEAN]

ASSUME ConstantsOK ==
  /\ Confs \subseteq ConfType /\ Requests \subseteq RequestType
  /\ {Unknown, Empty, Error, None, Mac} \cap (Accounts \cup Partners) = {}
  /\ RoutedPartners \subseteq Partners
  /\ Unknown # Empty /\ Error # None
  /\ {Error, None, Mac} \cap {Unknown, Empty} = {} /\ Mac \notin {Error, None}
  /\ Unknown \notin {HashOf(a) : a \in Ids}

VARIABLES conf, req,   \* configuration and request, constant during a request
          ctx,         \* contextMap
          token,       \* the route whose SAT token is held
          connector,   \* the route of the account service connector
          pod, td,     \* *PodData, *AccountServiceData
          tags,        \* tags with the identity they were asked for
          failed,      \* the calls that failed
          used,        \* history: <<token, connector>> of account service calls
          pc

ctxVars == <<conf, req, ctx, token, connector, pod, td, tags, failed, used, pc>>

Routes == {"default", "partner"}
Known(a) == a \notin {Unknown, Empty}
Calls == {"sat", "accountId", "products", "devices", "account", "deviceDB", "mesh", "groups", "tagging", "ft"}

NoAnswer == [account |-> Empty, partner |-> Empty]
ContextOf(r) == [account |-> r.account, hash |-> r.hash, partner |-> r.partner,
                 passed |-> r.partner, country |-> Empty, tz |-> Empty, attrs |-> Empty]

CtxInit ==
  /\ conf \in Confs /\ req \in Requests
  /\ ctx = ContextOf(req)
  /\ token = None /\ connector = None /\ pod = None /\ td = None
  /\ tags = {} /\ failed = {} /\ used = {}
  /\ pc = "start"

-----------------------------------------------------------------------------
(* The answers of the services.                                            *)

AccountIdAnswers == {Error, Empty} \cup Accounts
\* The fields of an account may be missing, present but empty, or set.
ProductAnswers == {Error} \cup [partner : Partners \cup {Empty}, attrs : {"absent", "blank", "set"}]
DeviceAnswers == {Error} \cup [account : Accounts \cup {Empty}, partner : Partners \cup {Empty}]
AccountAnswers == {Error, "blank", "set"}

Failing(call, ans) == failed' = failed \cup (IF ans = Error THEN {call} ELSE {})

\* GetAccountIdData by the eSTB MAC and, if that gave nothing, by the eCM MAC.
IdAnswers == IF req.estb \/ req.ecm THEN AccountIdAnswers ELSE {None}

usePartnerRoute(c) == conf.routing /\ c.partner \in RoutedPartners
RouteOf(c) == IF usePartnerRoute(c) THEN "partner" ELSE "default"

\* The fields of GetAccountProductsData that are not empty overwrite the context.
Absorb(c, ans) ==
  [c EXCEPT !.partner = IF ans.partner = Empty THEN @ ELSE ans.partner,
            !.country = IF ans.attrs = "set" THEN c.account ELSE @,
            !.tz = IF ans.attrs = "set" THEN c.account ELSE @,
            !.attrs = IF ans.attrs = "set" THEN c.account ELSE @]

-----------------------------------------------------------------------------
(* Feature control.                                                        *)

MutTagsFirst ==
  /\ pc = "start" /\ req.api = "rfc"
  /\ token' = RouteOf(ctx) /\ pc' = "products"
  /\ tags' = {<<"coast", id>> : id \in {i \in {ctx.account, ctx.partner} : Known(i)}}
  /\ UNCHANGED <<conf, req, ctx, connector, pod, td, failed, used>>

\* The token is that of the partner the device passed, if its route is used.
AddFeatureControlContext ==
  /\ pc = "start" /\ req.api = "rfc"
  /\ \/ token' = RouteOf(ctx) /\ pc' = "products" /\ UNCHANGED failed
     \/ token' = None /\ pc' = "done" /\ failed' = failed \cup {"sat"}
  /\ UNCHANGED <<conf, req, ctx, connector, pod, td, tags, used>>

NextLookup(c) ==
  IF req.mgmt \in {"xpc", "XPC"} /\ c.account = Unknown THEN "pods"
  ELSE IF Unknown \in {c.account, c.partner, c.hash} THEN "lookup" ELSE "tagging"

\* A known account id: its products are read at once.  Unlike in Absorb, a field
\* that is present but empty is written too.
MutKeepsHash ==
  /\ pc = "products"
  /\ IF conf.xac /\ Known(ctx.account)
       THEN \E ans \in ProductAnswers \ {Error} : ctx' = Absorb(ctx, ans)
       ELSE UNCHANGED ctx
  /\ pc' = NextLookup(ctx')
  /\ UNCHANGED <<conf, req, token, connector, pod, td, tags, failed, used>>

FetchProducts ==
  /\ pc = "products"
  /\ IF conf.xac /\ Known(ctx.account)
       THEN \E ans \in ProductAnswers :
              /\ Failing("products", ans)
              /\ ctx' = IF ans = Error THEN ctx
                        ELSE [Absorb(ctx, ans) EXCEPT
                                !.hash = HashOf(ctx.account),
                                !.country = IF ans.attrs = "blank" THEN Empty ELSE @,
                                !.tz = IF ans.attrs = "blank" THEN Empty ELSE @]
       ELSE UNCHANGED <<ctx, failed>>
  /\ pc' = NextLookup(ctx')
  /\ UNCHANGED <<conf, req, token, connector, pod, td, tags, used>>

\* Both lookups give up when the partner's connector is missing.
ChooseConnector(from, group, service) ==
  /\ pc = from
  /\ connector' = RouteOf(ctx)
  /\ pc' = CASE usePartnerRoute(ctx) /\ ~conf.partnerConnector -> "tagging"
             [] conf.xac -> group
             [] OTHER -> service
  /\ UNCHANGED <<conf, req, ctx, token, pod, td, tags, failed, used>>

AddContextForPods == ChooseConnector("pods", "podId", "podDevices")
AddFeatureControlContextFromAccountService == ChooseConnector("lookup", "lookupId", "devices")

\* getAccountInfoFromGrpService: the account id, even an empty one, replaces the
\* one of the context before its products are known.
GetAccountInfoId ==
  /\ pc = "podId"
  /\ \E ans \in AccountIdAnswers :
       /\ Failing("accountId", ans)
       /\ ctx' = IF ans = Error THEN ctx ELSE [ctx EXCEPT !.account = ans, !.hash = HashOf(ans)]
       /\ pc' = IF ans = Error THEN "podDevices" ELSE "podProducts"
  /\ UNCHANGED <<conf, req, token, connector, pod, td, tags, used>>

GetAccountInfoProducts ==
  /\ pc = "podProducts"
  /\ \E ans \in ProductAnswers :
       /\ Failing("products", ans)
       /\ IF ans = Error
            THEN pc' = "podDevices" /\ UNCHANGED <<ctx, pod, td>>
            ELSE /\ ctx' = Absorb(ctx, ans)
                 /\ td' = [account |-> ctx.account, partner |-> ans.partner]
                 /\ pod' = [account |-> ctx.account, partner |-> ctx'.partner, tz |-> ctx'.tz]
                 /\ pc' = "tagging"
  /\ UNCHANGED <<conf, req, token, connector, tags, used>>

\* The old account service by serial number, or by the eCM MAC of the pod table.
BySerial == conf.macAccount /\ req.macSerial
ByTable == ~BySerial /\ conf.deviceDB /\ req.serial /\ ~req.gr
ByMesh == ~BySerial /\ ~ByTable /\ conf.deviceService /\ req.serial /\ ~req.gr

PodTable ==
  /\ pc = "podDevices" /\ ByTable
  /\ \/ pc' = "podService" /\ UNCHANGED failed
     \/ pc' = "tagging" /\ failed' = failed \cup {"deviceDB"}
  /\ UNCHANGED <<conf, req, ctx, token, connector, pod, td, tags, used>>

\* GetDevices, by serial number or by the eCM MAC that the pod table gave.
AskForPod ==
  /\ used' = used \cup {<<token, connector>>}
  /\ \E ans \in DeviceAnswers :
       /\ Failing("devices", ans)
       /\ td' = IF ans = Error THEN td ELSE ans
       /\ IF ans = Error \/ ans.account = Empty
            THEN pc' = "tagging" /\ UNCHANGED <<ctx, pod>>
            ELSE /\ pod' = [account |-> ans.account, partner |-> ans.partner, tz |-> Empty]
                 /\ ctx' = IF ctx.account = Unknown THEN [ctx EXCEPT !.account = ans.account] ELSE ctx
                 /\ pc' = "podAccount"
  /\ UNCHANGED <<conf, req, token, connector, tags>>

PodBySerialNumber == pc = "podDevices" /\ BySerial /\ AskForPod
PodByEcmMac == pc = "podService" /\ AskForPod

PodAccount ==
  /\ pc = "podAccount"
  /\ used' = used \cup {<<token, connector>>}
  /\ \E ans \in AccountAnswers :
       /\ Failing("account", ans)
       /\ pod' = IF ans = "set" THEN [pod EXCEPT !.tz = pod.account] ELSE pod
  /\ pc' = "tagging"
  /\ UNCHANGED <<conf, req, ctx, token, connector, td, tags>>

\* GetMeshPodAccountBySerialNum: an answer with status 200 and no data is
\* dereferenced while the account is unknown.
MeshAnswers == {Error} \cup [ok : BOOLEAN, data : {None} \cup [account : Accounts \cup {Empty}, partner : Partners \cup {Empty}]]
PodMesh ==
  /\ pc = "podDevices" /\ ByMesh
  /\ \E ans \in MeshAnswers :
       /\ Failing("mesh", ans)
       /\ IF ans = Error \/ (ans.data = None /\ ~(ans.ok /\ ctx.account = Unknown))
            THEN pc' = "tagging" /\ UNCHANGED <<ctx, pod>>
            ELSE IF ans.data = None THEN pc' = "panic" /\ UNCHANGED <<ctx, pod>>
            ELSE /\ pod' = [account |-> ans.data.account, partner |-> ans.data.partner, tz |-> ans.data.account]
                 /\ ctx' = IF ans.ok /\ ctx.account = Unknown /\ ans.data.account # Empty
                             THEN [ctx EXCEPT !.account = ans.data.account] ELSE ctx
                 /\ pc' = "tagging"
  /\ UNCHANGED <<conf, req, token, connector, td, tags, used>>

NoPodService ==
  /\ pc = "podDevices" /\ ~BySerial /\ ~ByTable /\ ~ByMesh
  /\ pc' = "tagging"
  /\ UNCHANGED <<conf, req, ctx, token, connector, pod, td, tags, failed, used>>

\* The group service finds the account, then its products.
LookupId ==
  /\ pc = "lookupId"
  /\ \E ans \in IdAnswers :
       /\ Failing("accountId", ans)
       /\ ctx' = IF ans \in Accounts THEN [ctx EXCEPT !.account = ans] ELSE ctx
       /\ pc' = IF ans # Error /\ Known(ctx'.account) THEN "lookupProducts" ELSE "devices"
  /\ UNCHANGED <<conf, req, token, connector, pod, td, tags, used>>

LookupProducts ==
  /\ pc = "lookupProducts"
  /\ \E ans \in ProductAnswers :
       /\ Failing("products", ans)
       /\ IF ans = Error
            THEN pc' = "devices" /\ UNCHANGED <<ctx, td>>
            ELSE /\ ctx' = [Absorb(ctx, ans) EXCEPT !.hash = HashOf(ctx.account)]
                 /\ td' = [account |-> ctx.account, partner |-> ans.partner]
                 /\ pc' = "tagging"
  /\ UNCHANGED <<conf, req, token, connector, pod, tags, used>>

\* The old account service, by the eSTB MAC and, when that says nothing, by the
\* eCM MAC.  It fills what is unknown and overwrites the partner.
GetDevices ==
  /\ pc = "devices"
  /\ IF ~conf.accountService
       THEN pc' = "tagging" /\ UNCHANGED <<ctx, td, failed, used>>
       ELSE /\ used' = IF req.estb \/ req.ecm THEN used \cup {<<token, connector>>} ELSE used
            /\ \E ans \in IF req.estb \/ req.ecm THEN DeviceAnswers ELSE {NoAnswer} :
                 /\ Failing("devices", ans)
                 /\ td' = CASE ans # Error /\ (req.estb \/ req.ecm) -> ans
                            [] ans = Error /\ req.ecm -> NoAnswer
                            [] OTHER -> td
                 /\ ctx' = IF ans = Error THEN ctx
                           ELSE [ctx EXCEPT
                                   !.partner = IF ans.partner = Empty THEN @ ELSE ans.partner,
                                   !.account = IF @ = Unknown /\ ans.account # Empty THEN ans.account ELSE @,
                                   !.hash = IF @ = Unknown /\ ans.account # Empty THEN HashOf(ans.account) ELSE @]
            /\ pc' = "country"
  /\ UNCHANGED <<conf, req, token, connector, pod, tags>>

AddCountryCode ==
  /\ pc = "country"
  /\ IF Known(ctx.account) /\ ctx.partner \in conf.country
       THEN /\ used' = used \cup {<<token, connector>>}
            /\ \E ans \in AccountAnswers :
                 /\ Failing("account", ans)
                 /\ ctx' = [ctx EXCEPT !.country = CASE ans = "set" -> ctx.account
                                                     [] ans = "blank" -> Empty
                                                     [] OTHER -> @]
       ELSE UNCHANGED <<ctx, failed, used>>
  /\ pc' = "tagging"
  /\ UNCHANGED <<conf, req, token, connector, pod, td, tags>>

-----------------------------------------------------------------------------
(* Firmware and log upload.                                                *)

\* The firmware api asks for the groups of the MAC before anything else.
AddGroupServiceContext ==
  /\ pc = "start" /\ req.api = "firmware"
  /\ IF conf.groups /\ req.estb
       THEN \/ tags' = {<<"group", Mac>>} /\ UNCHANGED failed
            \/ failed' = failed \cup {"groups"} /\ UNCHANGED tags
       ELSE UNCHANGED <<tags, failed>>
  /\ pc' = "token"
  /\ UNCHANGED <<conf, req, ctx, token, connector, pod, td, used>>

\* The token is always that of the default route.  The firmware handler goes on
\* with what it has when there is none; the log upload handler still asks for the
\* feature tags.
DefaultToken(otherwise) ==
  /\ \/ token' = "default" /\ pc' = "xacId" /\ UNCHANGED failed
     \/ token' = None /\ pc' = otherwise /\ failed' = failed \cup {"sat"}
  /\ UNCHANGED <<conf, req, ctx, connector, pod, td, tags, used>>

AddEstbFirmwareContext == pc = "token" /\ DefaultToken("done")
AddLogUploaderContext == pc = "start" /\ req.api = "dcm" /\ DefaultToken("ft")

\* The answer, even an empty one, replaces the account id of the device.
AskAccountId ==
  /\ \E ans \in IF conf.xac /\ Unknown \in {ctx.account, ctx.partner} THEN IdAnswers ELSE {None} :
       /\ Failing("accountId", ans)
       /\ ctx' = IF ans \in {Error, None} THEN ctx ELSE [ctx EXCEPT !.account = ans, !.hash = HashOf(ans)]
  /\ pc' = IF conf.xac /\ Known(ctx'.account) THEN "xacProducts" ELSE "partner"
  /\ UNCHANGED <<conf, req, token, connector, pod, td, tags, used>>

AskProducts ==
  /\ \E ans \in ProductAnswers :
       /\ Failing("products", ans)
       /\ ctx' = IF ans = Error THEN ctx ELSE Absorb(ctx, ans)
  /\ pc' = "partner"
  /\ UNCHANGED <<conf, req, token, connector, pod, td, tags, used>>

FirmwareAccountId == pc = "xacId" /\ req.api = "firmware" /\ AskAccountId
FirmwareProducts == pc = "xacProducts" /\ req.api = "firmware" /\ AskProducts
LogUploadAccountId == pc = "xacId" /\ req.api = "dcm" /\ AskAccountId
LogUploadProducts == pc = "xacProducts" /\ req.api = "dcm" /\ AskProducts

GetPartnerFromAccountServiceByHostMac ==
  /\ pc = "partner"
  /\ IF conf.accountService /\ ctx.partner = Unknown /\ req.estb
       THEN /\ used' = used \cup {<<token, "default">>}
            /\ \E ans \in DeviceAnswers :
                 /\ Failing("devices", ans)
                 /\ ctx' = IF ans = Error \/ ans.partner = Empty THEN ctx
                           ELSE [ctx EXCEPT !.partner = ans.partner]
       ELSE UNCHANGED <<ctx, failed, used>>
  /\ pc' = "tagging"
  /\ UNCHANGED <<conf, req, token, connector, pod, td, tags>>

-----------------------------------------------------------------------------
(* Tags.                                                                   *)

\* GetTagsForContext asks one question about all identities that are known.
Identities(c) == {id \in {c.account, c.partner} : Known(id)} \cup (IF req.estb THEN {Mac} ELSE {})

AddContextFromTaggingService ==
  /\ pc = "tagging"
  /\ IF conf.tagging /\ Identities(ctx) # {}
       THEN \/ tags' = tags \cup {<<"coast", id>> : id \in Identities(ctx)} /\ UNCHANGED failed
            \/ failed' = failed \cup {"tagging"} /\ UNCHANGED tags
       ELSE UNCHANGED <<tags, failed>>
  /\ pc' = "ft"
  /\ UNCHANGED <<conf, req, ctx, token, connector, pod, td, used>>

\* One question per identity to the /ft keyspace, an unknown one too; any may fail.
FtIdentities(c) ==
  (IF "mac" \in conf.ft THEN {Mac} ELSE {})
  \cup (IF "account" \in conf.ft THEN {c.account} ELSE {})
  \cup (IF "partner" \in conf.ft /\ c.partner \in conf.valid THEN {c.partner} ELSE {})

AddGroupServiceFTContext ==
  /\ pc = "ft"
  /\ \E got \in SUBSET FtIdentities(ctx) :
       /\ tags' = tags \cup {<<"ft", id>> : id \in got}
       /\ failed' = failed \cup (IF got = FtIdentities(ctx) THEN {} ELSE {"ft"})
  /\ pc' = "done"
  /\ UNCHANGED <<conf, req, ctx, token, connector, pod, td, used>>

CtxNext ==
  \/ AddFeatureControlContext \/ FetchProducts \/ AddContextForPods
  \/ AddFeatureControlContextFromAccountService
  \/ GetAccountInfoId \/ GetAccountInfoProducts \/ PodTable \/ PodBySerialNumber \/ PodByEcmMac \/ PodAccount
  \/ PodMesh \/ NoPodService \/ LookupId \/ LookupProducts \/ GetDevices \/ AddCountryCode
  \/ AddGroupServiceContext \/ AddEstbFirmwareContext \/ FirmwareAccountId \/ FirmwareProducts
  \/ AddLogUploaderContext \/ LogUploadAccountId \/ LogUploadProducts \/ GetPartnerFromAccountServiceByHostMac
  \/ AddContextFromTaggingService \/ AddGroupServiceFTContext

CtxSpec == CtxInit /\ [][CtxNext]_ctxVars

-----------------------------------------------------------------------------
(* Properties.                                                             *)

CtxPhases == {"start", "products", "pods", "lookup", "podId", "podProducts", "podDevices",
              "podService", "podAccount", "lookupId", "lookupProducts", "devices", "country",
              "token", "xacId", "xacProducts", "partner", "tagging", "ft", "done", "panic"}

\* The context, the token and the phase of the request keep their shape, and no answer that failed is used.
CtxTypeOK ==
  /\ pc \in CtxPhases /\ conf \in Confs /\ req \in Requests
  /\ ctx \in [account : Ids, hash : Hashes, partner : PartnerIds, passed : PartnerIds,
              country : Accounts \cup {Empty}, tz : Accounts \cup {Empty}, attrs : Accounts \cup {Empty}]
  /\ token \in Routes \cup {None} /\ connector \in Routes \cup {None}
  /\ pod \in {None} \cup [account : Accounts \cup {Empty}, partner : PartnerIds, tz : Accounts \cup {Empty}]
  /\ td \in {None} \cup [account : Accounts \cup {Empty}, partner : Partners \cup {Empty}]
  /\ tags \subseteq {"group", "coast", "ft"} \X (Ids \cup Partners \cup {Mac})
  /\ failed \subseteq Calls
  /\ used \subseteq (Routes \cup {None}) \X Routes

(* The account service of a route is only called with a SAT token of that  *)
(* route, although AddFeatureControlContext takes the token by the partner *)
(* the device passed, and the lookups choose the connector by the partner  *)
(* that is in the context when they start.                                 *)
TokenFitsConnector == \A u \in used : u[1] = u[2]

(* A device that does not name its account gets country code, time zone and *)
(* the other attributes of the account in its context, never those of      *)
(* another account, whichever of the calls fail.                           *)
AttributesOfAccount ==
  req.account \notin Accounts =>
    {ctx.country, ctx.tz, ctx.attrs} \subseteq {Empty, ctx.account}

(* The account hash in the finished context is the one the device sent or  *)
(* the hash of the account in the context, for a device whose account is   *)
(* unknown; only a failed products call after a successful account lookup  *)
(* lets the old account service contribute the hash of another account.    *)
HashOfAccount ==
  (pc = "done" /\ req.account = Unknown /\ "products" \notin failed) =>
    ctx.hash \in {req.hash, HashOf(ctx.account)}

(* Tags are asked for the account and partner that the finished context    *)
(* names: the lookups that may change them are over before.                *)
TagsOfIdentity ==
  pc = "done" => \A t \in tags : t[2] \in {Mac, ctx.account, ctx.partner}

(* A finished context describes one account, whichever services answered,  *)
(* failed or answered partly.                                              *)
ContextOfOneAccount ==
    /\ CtxTypeOK
    /\ AttributesOfAccount
    /\ HashOfAccount
    /\ TagsOfIdentity
=============================================================================
