---------------------------- MODULE VersionQueries ----------------------------
(***************************************************************************)
(* What the server tells a device about the version it runs: the answers   *)
(* of HasMinimumFirmware and GetAppliedActivationVersionType               *)
(* (dataapi/estbfirmware).  Both evaluate the request as module            *)
(* FirmwareEval does and look at the result, the second one also at the    *)
(* activation-version rules, which it matches once more.                   *)
(***************************************************************************)
EXTENDS FirmwareEval

(* The result of Eval that both look at.                                   *)
PercentRuleMatched ==
    pc = "done" /\ matched # <<>> /\ ~blocked /\ config # None /\ Type[matched[1]] = ENV_MODEL_RULE

HasMinimumFirmware ==
    PercentRuleMatched =>
        LET a == action[matched[1]]
        IN  ~(a.firmwareCheckRequired /\ ~HasFirmwareVersion(a.firmwareVersions, req.version))

-----------------------------------------------------------------------------
(* FindMatchedRuleByRules: the walk over the define-properties templates,  *)
(* from the last priority to the first, with the bypass filters of the     *)
(* request; templates of the same priority come in any order.              *)
FilterByAppType == Rules
Earlier(t, ties) == {u \in OfKind("DEFINE") : Priority[u] > Priority[t]} \cup ties \cup {t}

FilterByTemplate(t, ties) ==
    IF t \notin OfKind("DEFINE") \/ t \in req.bypassFilters \cup UNION {ByPassFilters[u] : u \in Earlier(t, ties)}
    THEN {}
    ELSE {r \in FilterByAppType : Type[r] = t /\ r \in req.matches}

Ties(t) == SUBSET {u \in OfKind("DEFINE") \ {t} : Priority[u] = Priority[t]}

(* A slip: any matching rule, not the one with most conditions.            *)
MutAnyRule(t) ==
    UNION {IF FilterByTemplate(t, T) = {} THEN {<<>>} ELSE {<<r>> : r \in FilterByTemplate(t, T)} : T \in Ties(t)}
FindMatchedRuleByRules(t) ==
    UNION {IF FilterByTemplate(t, T) = {} THEN {<<>>}
           ELSE {<<r>> : r \in FirstOf(FilterByTemplate(t, T), t)} : T \in Ties(t)}

(* The pattern that stands for a version; MatchString reports an error     *)
(* only for what is no regular expression, and then no match.              *)
MatchString(p, v) == [matched |-> p = v, failed |-> p = "("]

firmwareVersionIsMatched(v, a) == HasFirmwareVersion(a.activationVersions, v)
firmwareVersionRegExIsMatched(v, a) ==
    \E p \in a.activationPatterns : MatchString(p, v).failed /\ MatchString(p, v).matched

IsAmvRule(m) ==
    /\ m # <<>> /\ req.version # Unset
    /\ \/ firmwareVersionIsMatched(req.version, action[m[1]])
       \/ firmwareVersionRegExIsMatched(req.version, action[m[1]])

GetAppliedActivationVersionType ==
    IF ~PercentRuleMatched THEN {[minimum |-> TRUE, activation |-> TRUE]}
    ELSE {[minimum |-> HasFirmwareVersion(action[matched[1]].firmwareVersions, req.version),
           activation |-> IsAmvRule(m)] : m \in FindMatchedRuleByRules(ACTIVATION_VERSION)}

-----------------------------------------------------------------------------
(* A device that Eval gives the minimum version to is told that it does    *)
(* not have it, by both queries, and that the update is mandatory when it  *)
(* has told its version and the rule lists any.                            *)
MinimumToldAlike ==
    /\ HasToUpdate /\ PercentRuleMatched => ~HasMinimumFirmware
    /\ pc = "done" /\ ~HasMinimumFirmware =>
         /\ \A i \in GetAppliedActivationVersionType : ~i.minimum
         /\ req.version # Unset /\ action[matched[1]].firmwareVersions # {} => props[MANDATORY_UPDATE] = True

(* A device that Eval lets reboot because its version is not an activation *)
(* version is never told that it has one, as long as the most specific     *)
(* activation rules agree about that version.                              *)
ActivationToldAlike ==
    LET M == {r \in req.matches : Type[r] = ACTIVATION_VERSION}
    IN  /\ PercentRuleMatched /\ activation
        /\ \A r \in applied : Type[r] # ACTIVATION_VERSION
        /\ \A q, r \in FirstOf(M, ACTIVATION_VERSION) :
               req.version \in ActivationVersions(action[q]) <=> req.version \in ActivationVersions(action[r])
        => \A i \in GetAppliedActivationVersionType : ~i.activation

(* The queries for the minimum and the activation version tell a device    *)
(* nothing that contradicts Eval.                                          *)
ToldAlike == MinimumToldAlike /\ ActivationToldAlike
=============================================================================
