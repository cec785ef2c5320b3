---------------------------- MODULE MCFirmwareEval ----------------------------
(* A small instance of FirmwareEval: two rule templates, three templates   *)
(* that define properties and two that block.                              *)
EXTENDS FirmwareEval

MCTemplates == {"MAC_RULE", ENV_MODEL_RULE, "DOWNLOAD_LOCATION_FILTER",
                REBOOT_IMMEDIATELY_FILTER, ACTIVATION_VERSION, TIME_FILTER, "IP_FILTER"}
MCKind == [t \in MCTemplates |->
    CASE t \in {"MAC_RULE", ENV_MODEL_RULE} -> "RULE"
      [] t \in {TIME_FILTER, "IP_FILTER"} -> "BLOCK"
      [] OTHER -> "DEFINE"]
MCPriority == [t \in MCTemplates |->
    CASE t \in {ENV_MODEL_RULE, REBOOT_IMMEDIATELY_FILTER, "IP_FILTER"} -> 2
      [] t = ACTIVATION_VERSION -> 3 [] OTHER -> 1]
MCByPassFilters == [t \in MCTemplates |-> IF t = "MAC_RULE" THEN {"IP_FILTER"} ELSE {}]
MCKeys == {REBOOT_IMMEDIATELY, MANDATORY_UPDATE, PROTOCOL, LOCATION, IPV6_LOCATION}
MCValues == {Unset, True, False, "true", "false", "http", "tftp", "a", "b"}
MCBooleans == [t \in MCTemplates |-> {REBOOT_IMMEDIATELY}]

MCRules == {"mac", "env2", "env3", "act2", "act3", "reboot", "location", "time", "ip"}
MCType == [r \in MCRules |->
    CASE r = "mac" -> "MAC_RULE" [] r \in {"env2", "env3"} -> ENV_MODEL_RULE
      [] r \in {"act2", "act3"} -> ACTIVATION_VERSION [] r = "reboot" -> REBOOT_IMMEDIATELY_FILTER
      [] r = "location" -> "DOWNLOAD_LOCATION_FILTER" [] r = "time" -> TIME_FILTER
      [] r = "ip" -> "IP_FILTER"]
MCSize == [r \in MCRules |-> IF r \in {"env3", "act3"} THEN 3 ELSE 2]

Entry(c, lo, hi, pct, paused) ==
    [configId |-> c, start |-> lo, end |-> hi, percentage |-> pct, isPaused |-> paused]
NoProperties == [k \in {} |-> Unset]
Plain == [configId |-> "good", configEntries |-> <<>>, active |-> TRUE,
          useAccountPercentage |-> FALSE, firmwareCheckRequired |-> FALSE,
          rebootImmediately |-> FALSE, whitelist |-> FALSE, intermediateVersion |-> None,
          firmwareVersions |-> {}, properties |-> NoProperties, byPassFilters |-> {},
          activationVersions |-> {}, activationPatterns |-> {}]
Shares(paused) == <<Entry("good", 0, 30, 30, paused), Entry("new", 30, 60, 30, FALSE),
                    Entry("other", -1, -1, 80, FALSE)>>
Percent == [Plain EXCEPT !.configEntries = Shares(FALSE), !.firmwareVersions = {"v1"}]
Minimum == [Percent EXCEPT !.firmwareCheckRequired = TRUE, !.intermediateVersion = "middle"]

Act2 == [Plain EXCEPT !.activationVersions = {"v1"}, !.properties = [k \in {LOCATION} |-> "b"]]
Act3 == [Plain EXCEPT !.activationPatterns = {"v2"}, !.byPassFilters = {"IP_FILTER"}]
NoReboot == [Plain EXCEPT !.properties = [k \in {REBOOT_IMMEDIATELY, LOCATION} |->
                                              IF k = LOCATION THEN "b" ELSE "false"]]
Mandatory == [Plain EXCEPT !.properties = [k \in {MANDATORY_UPDATE} |-> True],
                           !.byPassFilters = {"IP_FILTER"}]
Tftp == [Plain EXCEPT !.properties = [k \in {LOCATION, PROTOCOL, IPV6_LOCATION} |->
                                          IF k = PROTOCOL THEN "tftp" ELSE "a"]]

Table(mac, env2, env3, reboot) == [r \in MCRules |->
    CASE r = "mac" -> mac [] r = "env2" -> env2 [] r = "env3" -> env3
      [] r = "act2" -> Act2 [] r = "act3" -> Act3 [] r = "reboot" -> reboot
      [] r = "location" -> Tftp [] OTHER -> Plain]
MCActions ==
    {Table(Plain, Percent, [Percent EXCEPT !.configEntries = Shares(TRUE), !.whitelist = TRUE], NoReboot),
     Table([Plain EXCEPT !.configId = None], Minimum, [Minimum EXCEPT !.rebootImmediately = TRUE], NoReboot),
     Table([Plain EXCEPT !.configId = "foreign"], [Percent EXCEPT !.useAccountPercentage = TRUE],
           [Minimum EXCEPT !.configId = None, !.firmwareVersions = {}], Mandatory),
     Table(Plain, [Minimum EXCEPT !.rebootImmediately = TRUE, !.active = FALSE], Minimum, Mandatory)}

MCConfigs == {"good", "new", "other", "middle", "foreign"}
MCAppConfigs == MCConfigs \ {"foreign"}
MCVersion == [c \in MCConfigs |-> IF c = "middle" THEN "v2" ELSE "v3"]
MCProperties == [c \in MCConfigs |-> [k \in MCKeys |->
    IF k \in {REBOOT_IMMEDIATELY, MANDATORY_UPDATE} THEN False
    ELSE IF k = PROTOCOL THEN "http" ELSE Unset]]

Blocking == {"time", "ip"}
Plainly == [inWhitelist |-> FALSE, dri |-> FALSE, bypassFilters |-> {}, forceFilters |-> {}]
Wishes == {Plainly, [Plainly EXCEPT !.inWhitelist = TRUE], [Plainly EXCEPT !.dri = TRUE],
           [Plainly EXCEPT !.bypassFilters = {"IP_FILTER"}],
           [Plainly EXCEPT !.forceFilters = {REBOOT_IMMEDIATELY_FILTER}]}
MCRequests ==
    {[matches |-> m \cup f, version |-> v, hash |-> h, accountHash |-> h, fullUrl |-> FALSE,
      inWhitelist |-> w.inWhitelist, dri |-> w.dri,
      bypassFilters |-> w.bypassFilters, forceFilters |-> w.forceFilters] :
        m \in {{}, {"mac"}, {"env2"}, {"env2", "env3"}},
        f \in {Blocking, {"act2", "act3", "reboot", "location"} \cup Blocking, {"act2", "location", "ip"}},
        v \in {Unset, "v1", "v2"}, h \in {NoHash, 30, 31, 90}, w \in Wishes}

RoundRobin(h) == [present |-> TRUE, httpLocation |-> h, httpFullUrlLocation |-> h,
                  locations |-> {"a"}, ipv6locations |-> {"b"}]
MCRoundRobins == {RoundRobin(Unset), RoundRobin("b"), [RoundRobin(Unset) EXCEPT !.present = FALSE]}
=============================================================================
