--------------------------- MODULE FirmwareRequest ---------------------------
(***************************************************************************)
(* The firmware requests of one device: the handlers of                    *)
(* estb_firmware_handler.go and the goroutine LogResponse starts after the *)
(* answer, which keeps the last request, a ring of BOUNDS change logs per  *)
(* server and the firmware columns of the penetration metrics.  The        *)
(* goroutines of several requests interleave, on one server and on         *)
(* several.                                                                *)
(*                                                                         *)
(* The outcome of the rule evaluation is part of the request's profile     *)
(* (module FirmwareEval computes it).  A stored log is represented by what *)
(* decides whether it can be read back.                                    *)
(***************************************************************************)
EXTENDS Integers, Sequences, FiniteSets, FiniteSetsExt

CONSTANTS Servers,
          MaxFwRequests,    \* bound on the requests
          MaxActive,      \* bound on the goroutines that run at a time
          Bounds,         \* BOUNDS, 5 in the code
          MaxClock,       \* bound on the clock
          FwProfiles,       \* what a request carries and evaluates to, see FwProfileType
          FwConf,         \* configuration of the servers, see FwConfType
          NoLog

FwRequests == 1..MaxFwRequests   \* in the order in which they arrive

\* An offset "hh:mm" with or without a minus sign, if there is one.
Offsets == [given : BOOLEAN, neg : BOOLEAN, h : 0..23, m : 0..59]

Kinds == {"swu", "bse", "min", "info"}
Results == {"nomatch", "noop", "blockedPercent", "blocked", "config"}

FwProfileType ==
  [kind : Kinds, mac : {"missing", "invalid", "valid"}, ip : {"missing", "invalid", "valid"},
   params : {"missing", "empty", "given"},
   secure : BOOLEAN, recovery : BOOLEAN,   \* model and version are of a recovery firmware
   version : {"", "v1", "v2"}, offset : Offsets,
   result : Results, offered : {"v1", "v2"}, delay : BOOLEAN,  \* the config has an upgradeDelay
   keywords : SUBSET BOOLEAN,      \* flags of the configured keywords its location matches
   protocol : {"skipped", "other"}]
FwConfType == [logs : BOOLEAN, metrics : BOOLEAN, tokens : BOOLEAN, onlyNew : BOOLEAN]

\* What is stored of a change log: its request, its time, the name of its zone and
\* whether it has an upgradeDelay.
ChangeLogType ==
  [req : FwRequests, updated : Nat, zone : {"UTC", "UTC-8"}, delay : BOOLEAN]

ASSUME FwAssumption ==
  /\ Bounds \in Nat \ {0} /\ MaxClock \in Nat /\ MaxFwRequests \in Nat /\ MaxActive \in Nat
  /\ Servers # {} /\ FwProfiles # {}
  /\ FwProfiles \subseteq FwProfileType /\ FwConf \in FwConfType
  /\ NoLog \notin FwRequests \cup ChangeLogType

VARIABLES phase,      \* FwRequests -> where the request is
          profile,    \* FwRequests -> its profile
          server,     \* FwRequests -> the server that handles it
          answer,     \* FwRequests -> status and whether the location carries a token
          stamp,      \* FwRequests -> Updated of its change log
          slot,       \* FwRequests -> the id GetCurrentId chose
          ring,       \* Servers -> 1..Bounds -> change log or NoLog
          lastLog,    \* the row LAST_CONFIG_LOG_ID
          metrics,    \* the request whose firmware columns are stored
          clock, up,
          written,    \* history: Servers -> change logs in the order of their writes
          overlapped  \* history: two change log goroutines of a server overlapped

fwVars == <<phase, profile, server, answer, stamp, slot, ring, lastLog, metrics, clock, up,
            written, overlapped>>

AnyProfile == CHOOSE p \in FwProfiles : TRUE
NoAnswer == [status |-> 0, token |-> FALSE]

FwInit ==
  /\ phase = [r \in FwRequests |-> "idle"]
  /\ profile = [r \in FwRequests |-> AnyProfile]
  /\ server = [r \in FwRequests |-> CHOOSE s \in Servers : TRUE]
  /\ answer = [r \in FwRequests |-> NoAnswer]
  /\ stamp = [r \in FwRequests |-> 0] /\ slot = [r \in FwRequests |-> 0]
  /\ ring = [s \in Servers |-> [i \in 1..Bounds |-> NoLog]]
  /\ lastLog = NoLog /\ metrics = NoLog /\ clock = 0
  /\ up = [s \in Servers |-> TRUE]
  /\ written = [s \in Servers |-> << >>]
  /\ overlapped = [s \in Servers |-> FALSE]

-----------------------------------------------------------------------------
(* The context of the request.                                             *)

\* GetTimeInLocalTimezone, in minutes.  strconv.Atoi("-00") is 0, so the sign of
\* an offset of less than an hour is lost.
GetTimeInLocalTimezone(t, off) ==
  IF ~off.given THEN t
  ELSE LET hours == IF off.neg THEN -off.h ELSE off.h
           mins == IF hours < 0 THEN -off.m ELSE off.m
       IN  t + hours * 60 + mins

\* offsetToTimeZone: digits only; a sign makes the offset invalid, which is UTC.
\* Every other zone is named "UTC-8" and lies west of UTC.
offsetToTimeZone(off) ==
  IF ~off.given \/ off.neg THEN [name |-> "UTC", minutes |-> 0]
  ELSE [name |-> "UTC-8", minutes |-> -(off.h * 60 + off.m)]

\* IsAllowedRequest
IsAllowedRequest(p) == p.secure \/ p.recovery

\* GetFirmwareResponse: a result without a firmware config, or a blocked one.
GetFirmwareResponse(p) ==
  IF p.mac = "missing" THEN 400
  ELSE IF ~IsAllowedRequest(p) THEN 403
  ELSE IF p.mac = "invalid" THEN 400
  ELSE IF p.result = "config" THEN 200 ELSE 404

GetEstbFirmwareSwuBseHandler(p) ==
  IF p.ip # "valid" THEN 400 ELSE IF p.result = "config" THEN 200 ELSE 404
GetCheckMinFirmwareHandler(p) == IF p.params = "missing" THEN 400 ELSE 200
GetEstbFirmwareVersionInfoPath(p) ==
  IF p.mac = "missing" THEN 400 ELSE IF ~IsAllowedRequest(p) THEN 403 ELSE 200

StatusOf(p) ==
  CASE p.kind = "swu" -> GetFirmwareResponse(p)
    [] p.kind = "bse" -> GetEstbFirmwareSwuBseHandler(p)
    [] p.kind = "min" -> GetCheckMinFirmwareHandler(p)
    [] p.kind = "info" -> GetEstbFirmwareVersionInfoPath(p)

-----------------------------------------------------------------------------
(* The security token of the download location.                            *)

\* doesUrlNeedToken: the first match in map order decides, so any match may.
doesUrlNeedToken(p) == p.keywords \cup (IF p.keywords = {} THEN {FALSE} ELSE {})
getSecurityToken(p) == p.protocol # "skipped"
AddSecurityTokenToUrl(p) == {need /\ getSecurityToken(p) : need \in doesUrlNeedToken(p)}

TokenOutcomes(p) ==
  IF p.kind = "swu" /\ StatusOf(p) = 200 /\ FwConf.tokens
     /\ (~FwConf.onlyNew \/ p.offered # p.version)
    THEN AddSecurityTokenToUrl(p) ELSE {FALSE}

\* GetEstbFirmwareSwuHandler logs in a goroutine what it found or did not find.
StartsLog(p) == p.kind = "swu" /\ StatusOf(p) \in {200, 404} /\ FwConf.logs

Handle(r, s, p) ==
  /\ phase[r] = "idle" /\ up[s] /\ \A q \in 1..(r - 1) : phase[q] # "idle"
  /\ Cardinality({q \in FwRequests : phase[q] \in {"log", "id", "write", "metrics"}}) < MaxActive
  /\ profile' = [profile EXCEPT ![r] = IF StartsLog(p) THEN p ELSE AnyProfile]
  /\ server' = [server EXCEPT ![r] = s]
  /\ \E t \in TokenOutcomes(p) : answer' = [answer EXCEPT ![r] = [status |-> StatusOf(p), token |-> t]]
  /\ phase' = [phase EXCEPT ![r] = IF StartsLog(p) THEN "log" ELSE "done"]
  /\ UNCHANGED <<stamp, slot, ring, lastLog, metrics, clock, up, written, overlapped>>

-----------------------------------------------------------------------------
(* The goroutine of LogResponse.                                           *)

\* What is stored, and what json.Unmarshal makes of it: the name of a fixed zone
\* is not a location, and the number of an upgradeDelay is not an int64.
NewConfigChangeLog(r, updated) ==
  [req |-> r, updated |-> updated, zone |-> offsetToTimeZone(profile[r].offset).name,
   delay |-> profile[r].delay /\ profile[r].result \in {"config", "blocked"}]
HasLocation(entry) == entry.zone = "UTC"
Unmarshal(entry) == IF ~HasLocation(entry) THEN "error" ELSE IF entry.delay THEN "panic" ELSE "ok"

\* A change is a config that was matched, is not blocked and has another version.
ChangeLogged(p) == p.version # "" /\ p.result = "config" /\ p.offered # p.version
MutNoMetrics == IF FwConf.metrics THEN "done" ELSE "metrics"
AfterLogs == IF FwConf.metrics THEN "metrics" ELSE "done"
LogsChange(s) == {q \in FwRequests : server[q] = s /\ phase[q] \in {"id", "write"}}

\* The change log is stamped after the last request was stored: the clock is read
\* nowhere else, so it is here that time passes.
SetLastConfigLog(r) ==
  /\ phase[r] = "log"
  /\ IF profile[r].version # ""
       THEN lastLog' \in {lastLog, NewConfigChangeLog(r, 0)}
       ELSE UNCHANGED lastLog
  /\ IF ChangeLogged(profile[r])
       THEN /\ clock' \in {clock, clock + 1} \cap 0..MaxClock
            /\ stamp' = [stamp EXCEPT ![r] = clock']
            /\ phase' = [phase EXCEPT ![r] = "id"]
            /\ overlapped' = [overlapped EXCEPT ![server[r]] = @ \/ LogsChange(server[r]) # {}]
       ELSE /\ phase' = [phase EXCEPT ![r] = AfterLogs]
            /\ UNCHANGED <<clock, stamp, overlapped>>
  /\ UNCHANGED <<profile, server, answer, slot, ring, metrics, up, written>>

\* The rows of the server's ring, in the order of their keys; the first one that
\* cannot be read ends the call.
Stored(s) == {i \in 1..Bounds : ring[s][i] # NoLog}
RangeOutcome(s) ==
  LET bad == {i \in Stored(s) : Unmarshal(ring[s][i]) # "ok"}
  IN  IF bad = {} THEN "ok" ELSE Unmarshal(ring[s][Min(bad)])

\* sort.Slice is not stable: any of the rows with the newest Updated may be first.
Newest(s) == {i \in Stored(s) : \A j \in Stored(s) : ring[s][j].updated <= ring[s][i].updated}

MutAscending(s) ==
  IF Stored(s) = {} THEN {Bounds}
  ELSE {IF i = 1 THEN Bounds ELSE i - 1 :
          i \in {k \in Stored(s) : \A j \in Stored(s) : ring[s][j].updated >= ring[s][k].updated}}
GetCurrentId(s) ==
  LET after(count) == IF count = 1 THEN Bounds ELSE count - 1
  IN  IF Stored(s) = {} THEN {after(1)} ELSE {after(i) : i \in Newest(s)}

\* A panic in a goroutine ends the process, with every request in it.
SetConfigChangeLogId(r) ==
  LET s == server[r]
  IN  /\ phase[r] = "id"
      /\ CASE RangeOutcome(s) = "ok" ->
                /\ \E i \in GetCurrentId(s) : slot' = [slot EXCEPT ![r] = i]
                /\ phase' = [phase EXCEPT ![r] = "write"]
                /\ UNCHANGED up
           [] RangeOutcome(s) = "error" ->
                /\ phase' = [phase EXCEPT ![r] = AfterLogs]
                /\ UNCHANGED <<slot, up>>
           [] RangeOutcome(s) = "panic" ->
                /\ up' = [up EXCEPT ![s] = FALSE]
                /\ phase' = [q \in FwRequests |->
                               IF server[q] = s /\ phase[q] # "idle" THEN "lost" ELSE phase[q]]
                /\ UNCHANGED slot
      /\ UNCHANGED <<profile, server, answer, stamp, ring, lastLog, metrics, clock, written, overlapped>>

SetConfigChangeLog(r) ==
  LET s == server[r]
      entry == NewConfigChangeLog(r, stamp[r])
  IN  /\ phase[r] = "write"
      /\ \/ /\ ring' = [ring EXCEPT ![s][slot[r]] = entry]
            /\ written' = [written EXCEPT ![s] = Append(@, entry)]
         \/ UNCHANGED <<ring, written>>    \* the write failed, which is only logged
      /\ phase' = [phase EXCEPT ![r] = AfterLogs]
      /\ stamp' = [stamp EXCEPT ![r] = 0] /\ slot' = [slot EXCEPT ![r] = 0]
      /\ UNCHANGED <<profile, server, answer, lastLog, metrics, clock, up, overlapped>>

SetFwPenetrationMetrics(r) ==
  /\ phase[r] = "metrics"
  /\ \/ metrics' = r /\ phase' = [phase EXCEPT ![r] = "done"]
     \/ UNCHANGED metrics /\ phase' = [phase EXCEPT ![r] = "failed"]
  /\ profile' = [profile EXCEPT ![r] = AnyProfile]   \* the request is over
  /\ UNCHANGED <<server, answer, stamp, slot, ring, lastLog, clock, up, written, overlapped>>

FwNext ==
  \E r \in FwRequests :
       \/ \E s \in Servers, p \in FwProfiles : Handle(r, s, p)
       \/ SetLastConfigLog(r) \/ SetConfigChangeLogId(r)
       \/ SetConfigChangeLog(r) \/ SetFwPenetrationMetrics(r)

FwSpec == FwInit /\ [][FwNext]_fwVars

-----------------------------------------------------------------------------
(* What the log handlers answer.                                           *)

AllRows == {ring[s][i] : s \in Servers, i \in 1..Bounds} \ {NoLog}

\* A single row that cannot be read makes the answer empty.
GetConfigChangeLogsOnly ==
  LET all == AllRows \cup ({lastLog} \ {NoLog})
  IN  IF \E l \in all : Unmarshal(l) # "ok" THEN {} ELSE AllRows

-----------------------------------------------------------------------------
(* Properties.                                                             *)

\* Requests, rings and rows keep their shape; GetCurrentId names a place of the ring.
FwTypeOK ==
  /\ phase \in [FwRequests -> {"idle", "log", "id", "write", "metrics", "done", "failed", "lost"}]
  /\ profile \in [FwRequests -> FwProfiles] /\ server \in [FwRequests -> Servers]
  /\ answer \in [FwRequests -> [status : {0, 200, 400, 403, 404}, token : BOOLEAN]]
  /\ stamp \in [FwRequests -> 0..MaxClock] /\ slot \in [FwRequests -> 0..Bounds]
  /\ \A r \in FwRequests : phase[r] = "write" => slot[r] # 0
  /\ metrics \in FwRequests \cup {NoLog} /\ clock \in 0..MaxClock
  /\ up \in [Servers -> BOOLEAN] /\ overlapped \in [Servers -> BOOLEAN]

Increasing(q) == \A i, j \in DOMAIN q : i < j => q[i].updated < q[j].updated
LastOnes(q, n) == {q[i] : i \in {k \in DOMAIN q : k > Len(q) - n}}

(* As long as no two change logs of a server overlap or carry the same      *)
(* time, its ring holds the newest BOUNDS change logs it wrote, although    *)
(* GetCurrentId finds the place of the next one from the times it reads.    *)
RingHoldsNewest ==
  \A s \in Servers :
    (~overlapped[s] /\ Increasing(written[s])) =>
      {ring[s][i] : i \in Stored(s)} = LastOnes(written[s], Bounds)

(* A change log that was stored is among those GetConfigChangeLogsOnly      *)
(* answers until BOUNDS newer ones of its server were stored, unless a row  *)
(* of the device cannot be read back or logs overlapped.                    *)
NewestVisible ==
  \A s \in Servers :
    (written[s] # << >> /\ ~overlapped[s] /\ Increasing(written[s])
     /\ \A l \in AllRows \cup ({lastLog} \ {NoLog}) : Unmarshal(l) = "ok") =>
      written[s][Len(written[s])] \in GetConfigChangeLogsOnly

(* Once the goroutines of LogResponse have ended, a device that was sent to *)
(* a location with a security token is in the penetration metrics, where    *)
(* the download service looks the token up, unless a write failed or the    *)
(* server went down: the metrics are written after the answer and last,     *)
(* behind every early return of the change log.                             *)
TokenIsBacked ==
  (\E r \in FwRequests : answer[r].token) =>
    metrics # NoLog \/ \E r \in FwRequests : phase[r] \notin {"idle", "done"}

(* Of every offset but one between -00:59 and -00:01 the local time of the *)
(* device is computed as its sign, hours and minutes say.                  *)
LocalTimeOfOffset ==
  \A r \in FwRequests :
    LET off == profile[r].offset
    IN  (off.given /\ ~(off.neg /\ off.h = 0)) =>
          GetTimeInLocalTimezone(clock, off) =
            clock + (IF off.neg THEN -1 ELSE 1) * (60 * off.h + off.m)

(* No request stops a server: what LogResponse stored for a device can be  *)
(* read back by the next one.                                              *)
ServersStayUp == \A s \in Servers : up[s]

(* The change logs of a device: the ring of each server holds the newest   *)
(* ones, they can be listed, and the local times they are judged by follow *)
(* the offset of the device.                                               *)
LogsKept == FwTypeOK /\ RingHoldsNewest /\ NewestVisible /\ LocalTimeOfOffset
=============================================================================
