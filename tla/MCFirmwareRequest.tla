-------------------------- MODULE MCFirmwareRequest --------------------------
(* Instances of FirmwareRequest for TLC.                                   *)
EXTENDS FirmwareRequest

NoOffset == [given |-> FALSE, neg |-> FALSE, h |-> 0, m |-> 0]
Base == [kind |-> "swu", mac |-> "valid", ip |-> "valid", params |-> "given", secure |-> TRUE,
         recovery |-> FALSE, version |-> "v1", offset |-> NoOffset, result |-> "config", offered |-> "v2",
         delay |-> FALSE, keywords |-> {TRUE}, protocol |-> "other"]

\* Mostly changes, so that the ring wraps; one fixed zone, one request of each other outcome.
MCProfiles ==
  {[Base EXCEPT !.offset = [given |-> TRUE, neg |-> TRUE, h |-> 4, m |-> 30], !.keywords = {TRUE, FALSE}],
   [Base EXCEPT !.offset = [given |-> TRUE, neg |-> FALSE, h |-> 8, m |-> 0], !.protocol = "skipped"],
   [Base EXCEPT !.result = "blocked", !.version = "v2"],
   [Base EXCEPT !.kind = "bse", !.ip = "invalid"], [Base EXCEPT !.kind = "min", !.params = "missing"],
   [Base EXCEPT !.kind = "info", !.mac = "missing"]}

\* Changes only, one of them with an upgrade delay.
MCDelays == {Base, [Base EXCEPT !.delay = TRUE]}

MCFwConf == [logs |-> TRUE, metrics |-> TRUE, tokens |-> TRUE, onlyNew |-> FALSE]
=============================================================================
