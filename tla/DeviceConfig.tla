---------------------------- MODULE DeviceConfig ----------------------------
(* The device configuration request (log upload settings, setting profiles *)
(* and telemetry).  GetLogUploaderSettings walks the formulas (DCM rules)   *)
(* in order of priority and reads, table by table, the parts that belong    *)
(* to each; an administrator's changes reach the table caches of this       *)
(* server between two of those reads.  One action is one read of a cached   *)
(* table; what is computed between two reads is an operator.                *)
EXTENDS Integers, Sequences, FiniteSets

CONSTANTS
  Formulas,      \* ids of the formulas
  FormulaOf,     \* [Formulas -> [priority, percentage, p1, p2, p3]]
  DevRows,       \* rows of DeviceSettings: [active, ver, mode, cron, window]
  LusRows,       \* rows of LogUploadSettings: [active, ver, mode, cron, l1, l2, l3, window, whole]
  VodRows,       \* rows of VodSettings (versions)
  FirstTables,        \* the first contents: records [dev, lus, vod, sprof, two] of functions
  SettingRules,  \* [id, bound, match, rank]
  SettingTypes,  \* types a row of SettingProfiles can have
  ProfileRows,   \* rows of PermanentTelemetry: [ver, component]
  TwoRules,      \* TelemetryTwoRules, a sequence of [match, noOp, bound]
  TwoRows,       \* rows of TelemetryTwoProfiles: [name, parses]
  Asks,          \* requests, see AskType; matches: formulas that apply to it
  Hash,          \* the hash of the device's MAC address
  Draws,         \* percentages util.RandomPercentage may draw (0..99)
  MaxAsks, MaxEdits,
  Nothing           \* no row, an empty string

ASSUME DrawsAssumption == Draws \subseteq 0..99
ASSUME HashAssumption == Hash \in Nat

\* A cron expression: its minute and hour, or text that validate refuses.
Cron == [ok : BOOLEAN, given : BOOLEAN, min : Int, hour : Int]
IsCron(c) == c \in Cron /\ (c.ok => c.min \in 0..59 /\ c.hour \in 0..23)

AskType ==
  [kind : {"settings", "telemetry2", "checkNow"}, matches : SUBSET Formulas,
   zone : [given : BOOLEAN, off : Int, dst : BOOLEAN], v20 : BOOLEAN, v21 : BOOLEAN,
   types : Seq(STRING), immediately : BOOLEAN]

\* Names are not empty, and what is bound by a rule is an id of the table.
ASSUME DeviceConfigConstants ==
  /\ IsFiniteSet(Formulas) /\ MaxAsks \in Nat /\ MaxEdits \in Nat
  /\ \A f \in Formulas : FormulaOf[f] \in [priority : Int, percentage : Int, p1 : Int, p2 : Int, p3 : Int]
  /\ \A d \in DevRows : d.active \in BOOLEAN /\ d.ver # Nothing /\ IsCron(d.cron) /\ d.window \in Nat
  /\ \A l \in LusRows : /\ l.active \in BOOLEAN /\ l.ver # Nothing /\ l.whole \in BOOLEAN /\ l.window \in Nat
                         /\ IsCron(l.cron) /\ IsCron(l.l1) /\ IsCron(l.l2) /\ IsCron(l.l3)
  /\ Asks \subseteq AskType
  /\ \A t \in FirstTables :
       /\ t.dev \in [Formulas -> DevRows \cup {Nothing}] /\ t.lus \in [Formulas -> LusRows \cup {Nothing}]
       /\ t.vod \in [Formulas -> VodRows \cup {Nothing}]
       /\ t.two \in [DOMAIN t.two -> TwoRows \cup {Nothing}] /\ t.sprof \in [DOMAIN t.sprof -> STRING]
       /\ DOMAIN t.two \cap DOMAIN t.sprof = {}
       /\ \A r \in SettingRules : r.bound \in DOMAIN t.sprof
       /\ TwoRules \in Seq([match : BOOLEAN, noOp : BOOLEAN, bound : Seq(DOMAIN t.two)])

VARIABLES
  sets, lus, vod, repo,   \* the tables of the formulas' parts; repo: the upload repository's row exists
  perm, sprof, two,      \* the permanent telemetry profile, SettingProfiles, TelemetryTwoProfiles
  temp,                  \* the table of temporary telemetry profiles has a row
  summer,                \* daylight saving time in the zones that have it
  at, ask, left, found, out, reply,   \* the request: next read, remaining rules, rows read, result
  touched,               \* ghost: formulas whose parts changed since the request began
  held,                  \* ghost: ids of profiles whose row has not changed since the request began
  answers,               \* ghost: answered settings, one device
  nreq, nchg

dcTables == <<sets, lus, vod, repo, perm, sprof, two, temp, summer>>
dcRequest == <<at, ask, left, found, out, reply>>
dcVars == <<dcTables, dcRequest, touched, held, answers, nreq, nchg>>

-----------------------------------------------------------------------------
(* Schedules.                                                               *)

NoCron == [ok |-> FALSE, given |-> FALSE, min |-> 0, hour |-> 0]

\* Go's / and % on a negative dividend.
GoDiv(a, b) == IF a < 0 THEN -((-a) \div b) ELSE a \div b
GoMod(a, b) == a - b * GoDiv(a, b)

\* Hours from the zone to the schedule's US/Eastern standard time; zone.off is in minutes east of UTC.
getAddedHoursToRandomizedCronByTimeZone(zone) ==
  IF ~zone.given THEN 0
  ELSE LET isDST == zone.dst /\ summer
           offset == zone.off + (IF isDST THEN 60 ELSE 0)
       IN  -5 - GoDiv(offset, 60) + (IF isDST THEN 1 ELSE 0)

\* The minutes a device's schedule is moved by: the same for one device and window.
getOffset(window) == Hash % window

\* NoCron stands for the empty string of an expression that validate refuses.
randomizeCronEx(cron, window, whole, zone, mode) ==
  LET minutes == (IF whole THEN 0 ELSE cron.min) + getOffset(IF whole THEN 1440 ELSE window)
      hours == (IF whole THEN 0 ELSE cron.hour) + minutes \div 60
      shift == IF mode = "UTC" THEN getAddedHoursToRandomizedCronByTimeZone(zone) ELSE 0
  IN  IF ~whole /\ ~cron.ok THEN NoCron
      ELSE [ok |-> TRUE, given |-> TRUE, min |-> minutes % 60, hour |-> GoMod(hours + shift, 24)]

randomizeCronIfNecessary(cron, window, whole, zone, mode) ==
  IF whole \/ (cron.given /\ window > 0) THEN randomizeCronEx(cron, window, whole, zone, mode) ELSE NoCron

\* What a caller keeps: the randomised expression, or the one it had.
Scheduled(cron, window, whole, zone, mode) ==
  LET random == randomizeCronIfNecessary(cron, window, whole, zone, mode)
  IN  IF random.given THEN random ELSE cron

-----------------------------------------------------------------------------
(* Settings.                                                                *)

NewSettings ==
  [group |-> Nothing, from |-> Nothing, cron |-> NoCron, mode |-> Nothing, lusName |-> Nothing, lusMode |-> Nothing,
   upload |-> FALSE, url |-> Nothing, lcron |-> NoCron, levels |-> [i \in 1..3 |-> NoCron], vod |-> Nothing,
   epon |-> Nothing, partner |-> Nothing, telemetry |-> Nothing, immediately |-> FALSE]

\* The settings that a request fills.
Opt(S) == S \cup {Nothing}
Vers(rows) == {r.ver : r \in rows}
Modes(rows) == {r.mode : r \in rows}
Urls == {"url", "old", "new"}
BoundIds == {r.bound : r \in SettingRules}
Settings ==
  [group : Opt(Vers(DevRows)), from : Opt(Formulas), cron : Cron, mode : Opt(Modes(DevRows)),
   lusName : Opt(Vers(LusRows)), lusMode : Opt(Modes(LusRows)), upload : BOOLEAN, url : Opt(Urls),
   lcron : Cron, levels : [1..3 -> Cron], vod : Opt(Formulas \X VodRows),
   epon : Opt(BoundIds \X STRING), partner : Opt(BoundIds \X STRING),
   telemetry : Opt(Vers(ProfileRows)), immediately : BOOLEAN]

ASSUME NothingAssumption == Nothing \notin Settings /\ Nothing \notin Formulas \X VodRows /\ Nothing # "UTC"

CopyLusSetting(s, row, url, set) ==
  IF set THEN [s EXCEPT !.lusName = row.ver, !.lusMode = row.mode, !.upload = TRUE, !.url = url]
  ELSE [s EXCEPT !.lusName = Nothing, !.lusMode = Nothing, !.upload = FALSE, !.url = Nothing]

\* The level that the second draw d selects, 0 for none.
LevelOf(f, d) ==
  LET r == FormulaOf[f]
  IN  CASE d <= r.p1 -> 1
        [] d > r.p1 /\ d <= r.p1 + r.p2 -> 2
        [] d > r.p1 + r.p2 /\ d <= r.p1 + r.p2 + r.p3 -> 3
        [] OTHER -> 0

\* Mutant: a level's schedule without the settings it needs.
MutLevelOnly(s, f, d, l, url, d1, d2) ==
  LET copied == d1 <= FormulaOf[f].percentage
      base == CopyLusSetting([s EXCEPT !.group = d.ver, !.from = f, !.mode = d.mode, !.cron = d.cron], l, url, copied)
  IN  [base EXCEPT !.levels = [i \in 1..3 |-> IF i = LevelOf(f, d2) THEN <<l.l1, l.l2, l.l3>>[i] ELSE NoCron]]

\* The device and log upload settings of formula f, with the draws d1 and d2.
CopyGroup(s, f, d, l, url, d1, d2) ==
  LET zone == ask.zone
      copied == d1 <= FormulaOf[f].percentage
      base == CopyLusSetting([s EXCEPT !.group = d.ver, !.from = f, !.mode = d.mode,
                                       !.cron = Scheduled(d.cron, d.window, FALSE, zone, d.mode)],
                             l, url, copied)
      window == IF copied THEN l.window ELSE 0
      level == LevelOf(f, d2)
      expr == <<l.l1, l.l2, l.l3>>
      levels == [i \in 1..3 |-> IF i # level THEN NoCron
                                ELSE Scheduled(expr[i], l.window, l.whole, zone, base.lusMode)]
      timed == [base EXCEPT !.lcron = Scheduled(IF copied THEN l.cron ELSE NoCron, window, l.whole, zone,
                                                base.lusMode),
                            !.levels = levels]
  IN  IF ~copied /\ level # 0 THEN CopyLusSetting(timed, l, url, TRUE) ELSE timed

\* CopySettings: the first formula with a part provides it.
CopySettings(s, f, p, d1, d2) ==
  LET grouped == IF s.group = Nothing /\ p.dev # Nothing THEN CopyGroup(s, f, p.dev, p.lus, p.url, d1, d2) ELSE s
  IN  IF s.vod = Nothing /\ p.vod # Nothing THEN [grouped EXCEPT !.vod = <<f, p.vod>>] ELSE grouped

AreFull(s) == s.group # Nothing /\ s.lusName # Nothing /\ s.vod # Nothing

MutByHighest(s) == \A i, j \in 1..Len(s) : i < j => FormulaOf[s[i]].priority >= FormulaOf[s[j]].priority

\* sort.Slice is not stable: equal priorities come in any order.
InPriorityOrder(s) == \A i, j \in 1..Len(s) : i < j => FormulaOf[s[i]].priority <= FormulaOf[s[j]].priority

Arrangements(S) ==
  {s \in [1..Cardinality(S) -> S] : \A i, j \in 1..Cardinality(S) : i # j => s[i] # s[j]}

-----------------------------------------------------------------------------
(* The request.                                                             *)

NoPart == [dev |-> Nothing, lus |-> Nothing, url |-> Nothing, vod |-> Nothing, bound |-> Nothing, type |-> Nothing]
Idle == [kind |-> "none"]

Begin(r, order) ==
  /\ at = "idle" /\ nreq < MaxAsks
  /\ nreq' = nreq + 1
  /\ ask' = r
  /\ at' = CASE r.kind = "settings" -> "rules" [] r.kind = "telemetry2" -> "two" [] OTHER -> "temporary"
  /\ left' = IF r.kind = "telemetry2" THEN TwoRules ELSE order
  /\ out' = IF r.kind = "telemetry2" THEN <<>> ELSE NewSettings
  /\ found' = NoPart /\ reply' = Nothing
  /\ touched' = {} /\ held' = {i \in DOMAIN two : two[i] # Nothing} \cup DOMAIN sprof
  /\ UNCHANGED <<dcTables, answers, nchg>>

\* The list of formulas, sorted by priority.
getSortedDcmRules(order) == order \in Arrangements(Formulas) /\ InPriorityOrder(order)

GetContextMapAndSettingTypes ==
  \E r \in Asks, order \in [1..Cardinality(Formulas) -> Formulas] :
    getSortedDcmRules(order) /\ Begin(r, order)

GhostsSame == UNCHANGED <<touched, held, answers, nreq, nchg>>

\* Eval: the next formula that applies, or the end of the list.
NextRule ==
  /\ at = "rules"
  /\ IF left = <<>> \/ AreFull(out)
     THEN at' = "evaluated" /\ UNCHANGED left
     ELSE IF Head(left) \in ask.matches
          THEN at' = "device" /\ UNCHANGED left
          ELSE at' = "rules" /\ left' = Tail(left)
  /\ UNCHANGED <<dcTables, ask, found, out, reply>> /\ GhostsSame

\* GetSettings reads the device settings, ...
ReadDevice ==
  /\ at = "device"
  /\ found' = [NoPart EXCEPT !.dev = sets[Head(left)]]
  /\ at' = "logupload"
  /\ UNCHANGED <<dcTables, ask, left, out, reply>> /\ GhostsSame

\* ... then the log upload settings: both must exist and be active, ...
ReadLogUpload ==
  /\ at = "logupload"
  /\ LET l == lus[Head(left)]
         both == found.dev # Nothing /\ l # Nothing
     IN  found' = IF both /\ found.dev.active /\ l.active
                 THEN [found EXCEPT !.lus = l] ELSE [found EXCEPT !.dev = Nothing]
  /\ at' = IF found'.dev = Nothing THEN "vod" ELSE "repository"
  /\ UNCHANGED <<dcTables, ask, left, out, reply>> /\ GhostsSame

\* ... the upload repository and the log files, ...
ReadRepository ==
  /\ at = "repository"
  /\ found' = [found EXCEPT !.url = IF repo THEN "url" ELSE Nothing]
  /\ at' = "vod"
  /\ UNCHANGED <<dcTables, ask, left, out, reply>> /\ GhostsSame

\* ... and the VOD settings; CopySettings then merges what was read.
ReadVodAndCopy(d1, d2) ==
  /\ at = "vod"
  /\ LET p == [found EXCEPT !.vod = vod[Head(left)]]
     IN  out' = CopySettings(out, Head(left), p, d1, d2)
  /\ left' = Tail(left) /\ found' = NoPart
  /\ at' = "rules"
  /\ UNCHANGED <<dcTables, ask, reply>> /\ GhostsSame

\* Mutant: the profile in the cache itself is rewritten for the answer.
MutNoClone ==
  /\ at = "telemetry"
  /\ out' = IF perm = Nothing THEN out
            ELSE [out EXCEPT !.telemetry = perm.ver, !.immediately = ask.immediately]
  /\ perm' = IF perm # Nothing THEN [perm EXCEPT !.component = FALSE] ELSE perm
  /\ at' = "types"
  /\ UNCHANGED <<sets, lus, vod, repo, sprof, two, temp, summer, ask, left, found, reply>> /\ GhostsSame

Evaluated ==
  /\ at = "evaluated"
  /\ IF out.group # Nothing \/ out.vod # Nothing
     THEN at' = "telemetry" /\ UNCHANGED out
     ELSE at' = "types" /\ out' = Nothing
  /\ UNCHANGED <<dcTables, ask, left, found, reply>> /\ GhostsSame

\* The bound permanent profile is cloned before its components become events.
GetPermanentProfileByTelemetryRule ==
  /\ at = "telemetry"
  /\ out' = [IF perm = Nothing THEN out
             ELSE [out EXCEPT !.telemetry = perm.ver, !.immediately = ask.immediately]
             EXCEPT !.url = IF @ = Nothing THEN Nothing ELSE IF ask.v20 THEN "new" ELSE "old"]
  /\ at' = "types"
  /\ UNCHANGED <<dcTables, ask, left, found, reply>> /\ GhostsSame

TypeKey(t) == IF t \in {"epon", "partnersettings"} THEN t ELSE "unknown"

\* Matching rules whose profile has the requested type; unknown types are all the same.
GetSettingRulesBySettingType(t) ==
  {r \in SettingRules : r.match /\ sprof[r.bound] # Nothing /\ TypeKey(sprof[r.bound]) = TypeKey(t)}

GetMaxRule(rules) == {r \in rules : \A q \in rules : q.rank <= r.rank}

\* The rule of the next requested type (ask.types is consumed), or the answer.
NextType ==
  /\ at = "types"
  /\ IF ask.v21 /\ ask.types # <<>>
     THEN LET rules == GetMaxRule(GetSettingRulesBySettingType(Head(ask.types)))
          IN  IF rules = {}
              THEN ask' = [ask EXCEPT !.types = Tail(@)] /\ UNCHANGED <<at, found, out, reply>>
              ELSE /\ \E r \in rules : found' = [NoPart EXCEPT !.bound = r.bound, !.type = Head(ask.types)]
                   /\ at' = "profile" /\ UNCHANGED <<ask, out, reply>>
     ELSE /\ reply' = IF out = Nothing THEN "notfound" ELSE "ok"
          /\ at' = "answered" /\ UNCHANGED <<ask, found, out>>
  /\ UNCHANGED <<dcTables, left>> /\ GhostsSame

\* The profile is read again by its id; its type now decides where it goes.
GetSettingProfileBySettingRule ==
  /\ at = "profile"
  /\ LET row == sprof[found.bound]
         base == IF out = Nothing THEN NewSettings ELSE out
     IN  out' = CASE row = Nothing -> out
                  [] row # Nothing /\ TypeKey(row) = "epon" -> [base EXCEPT !.epon = <<found.bound, found.type>>]
                  [] row # Nothing /\ TypeKey(row) = "partnersettings" ->
                       [base EXCEPT !.partner = <<found.bound, found.type>>]
                  [] OTHER -> base
  /\ ask' = [ask EXCEPT !.types = Tail(@)]
  /\ found' = NoPart /\ at' = "types"
  /\ UNCHANGED <<dcTables, left, reply>> /\ GhostsSame

\* checkNow: GetTimestampedRules asserts a type the cache's string keys do not have.
GetTelemetryForContext ==
  /\ at = "temporary"
  /\ reply' = IF temp THEN "aborted" ELSE "notfound"
  /\ at' = "answered"
  /\ UNCHANGED <<dcTables, ask, left, found, out>> /\ GhostsSame

\* One bound profile: skipped when it is missing or its name was already taken.
TakeProfile(id) ==
  out' = IF two[id] = Nothing \/ (\E i \in 1..Len(out) : out[i].name = two[id].name) THEN out
         ELSE Append(out, two[id])

\* GetTelemetryTwoProfileByTelemetryRules reads one bound profile after the other.
TelemetryTwo ==
  /\ at = "two" /\ left # <<>>
  /\ LET r == Head(left)
     IN  IF r.match /\ ~r.noOp /\ r.bound # <<>>
         THEN /\ TakeProfile(Head(r.bound))
              /\ left' = <<[r EXCEPT !.bound = Tail(@)]>> \o Tail(left)
         ELSE left' = Tail(left) /\ UNCHANGED out
  /\ UNCHANGED <<dcTables, at, ask, found, reply>> /\ GhostsSame

GetTelemetryTwoProfileResponeDicts ==
  /\ at = "two" /\ left = <<>>
  /\ reply' = CASE \E i \in 1..Len(out) : ~out[i].parses -> "error"
                [] (\A i \in 1..Len(out) : out[i].parses) /\ ~(\E i \in 1..Len(TwoRules) : TwoRules[i].match) ->
                     "notfound"
                [] OTHER -> "ok"
  /\ at' = "answered"
  /\ UNCHANGED <<dcTables, ask, left, found, out>> /\ GhostsSame

Finish ==
  /\ at = "answered"
  /\ answers' = IF ask.kind = "settings" /\ reply = "ok" THEN answers \cup {out} ELSE answers
  /\ at' = "idle" /\ ask' = Idle /\ left' = <<>> /\ found' = NoPart /\ out' = Nothing /\ reply' = Nothing
  /\ touched' = {} /\ held' = {}
  /\ UNCHANGED <<dcTables, nreq, nchg>>

-----------------------------------------------------------------------------
(* Changes that the cache manager applies to the tables of this server.     *)

Changed == nchg < MaxEdits /\ nchg' = nchg + 1

SetParts ==
  /\ Changed
  /\ \E f \in Formulas :
       /\ touched' = IF at = "idle" THEN {} ELSE touched \cup {f}
       /\ \/ \E r \in DevRows \cup {Nothing} : sets' = [sets EXCEPT ![f] = r] /\ UNCHANGED <<lus, vod>>
          \/ \E r \in LusRows \cup {Nothing} : lus' = [lus EXCEPT ![f] = r] /\ UNCHANGED <<sets, vod>>
          \/ \E r \in VodRows \cup {Nothing} : vod' = [vod EXCEPT ![f] = r] /\ UNCHANGED <<sets, lus>>
       /\ <<sets, lus, vod>>' # <<sets, lus, vod>>
  /\ UNCHANGED <<repo, perm, sprof, two, temp, summer, dcRequest, held, answers, nreq>>

SetProfiles ==
  /\ Changed
  /\ \/ \E r \in ProfileRows \cup {Nothing} : perm' = r /\ UNCHANGED <<sprof, two, temp, repo, summer, held>>
     \/ \E i \in DOMAIN sprof, t \in SettingTypes \cup {Nothing} :
          /\ sprof' = [sprof EXCEPT ![i] = t] /\ held' = held \ {i}
          /\ UNCHANGED <<perm, two, temp, repo, summer>>
     \/ \E i \in DOMAIN two, r \in TwoRows \cup {Nothing} :
          /\ two' = [two EXCEPT ![i] = r] /\ held' = held \ {i}
          /\ UNCHANGED <<perm, sprof, temp, repo, summer>>
     \/ temp' = ~temp /\ UNCHANGED <<perm, sprof, two, repo, summer, held>>
     \/ repo' = ~repo /\ UNCHANGED <<perm, sprof, two, temp, summer, held>>
     \/ summer' = ~summer /\ UNCHANGED <<perm, sprof, two, temp, repo, held>>
  /\ UNCHANGED <<sets, lus, vod, dcRequest, touched, answers, nreq>>
  /\ dcTables' # dcTables

DcInit ==
  /\ \E t \in FirstTables : sets = t.dev /\ lus = t.lus /\ vod = t.vod /\ two = t.two /\ sprof = t.sprof
  /\ repo = TRUE /\ temp = FALSE /\ summer = FALSE
  /\ perm \in ProfileRows
  /\ at = "idle" /\ ask = Idle /\ left = <<>> /\ found = NoPart /\ out = Nothing /\ reply = Nothing
  /\ touched = {} /\ held = {} /\ answers = {} /\ nreq = 0 /\ nchg = 0

Eval == NextRule \/ ReadDevice \/ ReadLogUpload \/ ReadRepository \/ (\E d1, d2 \in Draws : ReadVodAndCopy(d1, d2))
Serve == Eval \/ Evaluated \/ GetPermanentProfileByTelemetryRule \/ NextType \/ GetSettingProfileBySettingRule
          \/ GetTelemetryForContext \/ TelemetryTwo \/ GetTelemetryTwoProfileResponeDicts \/ Finish
DcNext == GetContextMapAndSettingTypes \/ Serve \/ SetParts \/ SetProfiles

DcSpec == DcInit /\ [][DcNext]_dcVars

-----------------------------------------------------------------------------
(* Properties.                                                              *)

\* The state of the tables and of the request has its shape.
DcTypeOK ==
  /\ sets \in [Formulas -> DevRows \cup {Nothing}] /\ lus \in [Formulas -> LusRows \cup {Nothing}]
  /\ vod \in [Formulas -> VodRows \cup {Nothing}] /\ perm \in ProfileRows \cup {Nothing}
  /\ at \in {"idle", "rules", "device", "logupload", "repository", "vod", "evaluated", "telemetry", "types",
             "profile", "temporary", "two", "answered"}
  /\ reply \in {Nothing, "ok", "notfound", "error", "aborted"}
  /\ touched \subseteq Formulas
  /\ \A a \in answers : a.cron \in Cron /\ a.lcron \in Cron /\ \A i \in 1..3 : a.levels[i] \in Cron

Answered(kind) == at = "answered" /\ ask.kind = kind

\* Untouched formulas that apply and can provide the group, or the VOD settings.
Complete(f) ==
  /\ f \notin touched /\ f \in ask.matches
  /\ sets[f] # Nothing /\ lus[f] # Nothing /\ sets[f].active /\ lus[f].active
HasVod(f) == f \notin touched /\ f \in ask.matches /\ vod[f] # Nothing

\* Whatever is changed while the request walks the formulas, a part comes from no formula that ranks
\* after an applicable one whose rows were complete all along, and such a formula is never missed
\* (LogUploadRuleBase.Eval with CopySettings and AreFull).
FirstFormulaAnswers ==
  Answered("settings") =>
    /\ \A f \in Formulas : Complete(f) =>
         /\ out # Nothing /\ out.group # Nothing
         /\ FormulaOf[out.from].priority <= FormulaOf[f].priority
    /\ \A f \in Formulas : HasVod(f) =>
         out # Nothing /\ out.vod # Nothing /\ FormulaOf[out.vod[1]].priority <= FormulaOf[f].priority

\* Inactive settings are not handed out: the group and log upload name of an untouched formula are those
\* of its active rows (GetSettings).
OnlyActiveParts ==
  Answered("settings") /\ out # Nothing /\ out.from # Nothing =>
    \/ out.from \in touched
    \/ Complete(out.from) /\ out.group = sets[out.from].ver /\ out.lusName \in {Nothing, lus[out.from].ver}

\* A device that is told not to upload has no level schedule, no repository and, unless the schedule is
\* randomised over the whole day, no upload schedule either (CopySettings).
NotUploadedNotScheduled ==
  \A a \in answers : a.group # Nothing /\ ~a.upload =>
    /\ \A i \in 1..3 : ~a.levels[i].given
    /\ a.lusName = Nothing /\ a.url = Nothing
    /\ a.lcron.given => \E l \in LusRows : l.whole

\* Randomised times are times of day: the minute always, the hour unless a zone east of US/Eastern moved
\* a UTC schedule before midnight (randomizeCronEx).
TimesOfDay ==
  \A a \in answers : \A c \in {a.cron, a.lcron, a.levels[1], a.levels[2], a.levels[3]} :
    c.ok => c.min \in 0..59 /\ c.hour < 24 /\ (a.mode # "UTC" /\ a.lusMode # "UTC" => c.hour >= 0)

\* A device keeps its check-in time from one request to the next, in summer and in winter, as long as its
\* device settings are the same (the comment of getOffset, for the check schedule).
CheckInKept ==
  \A a, b \in answers : a.group # Nothing /\ a.group = b.group => a.cron = b.cron

\* The first draw alone never changes what the second one schedules beyond the zone's shift: two answers from
\* the same rows have level times with the same minute.
LevelMinuteKept ==
  \A a, b \in answers :
    a.group # Nothing /\ a.group = b.group /\ a.lusName # Nothing /\ a.lusName = b.lusName
      => \A i \in 1..3 : a.levels[i].given /\ b.levels[i].given => a.levels[i].min = b.levels[i].min

\* Telemetry 2.0: no name is answered twice; every profile bound to a matching rule and unchanged during the
\* request has its name in the answer; not found exactly when no rule matched and every profile parsed.
TelemetryTwoComplete ==
  Answered("telemetry2") =>
    /\ \A i, j \in 1..Len(out) : out[i].name = out[j].name => i = j
    /\ \A k \in 1..Len(TwoRules) : TwoRules[k].match /\ ~TwoRules[k].noOp =>
         \A b \in 1..Len(TwoRules[k].bound) :
           LET id == TwoRules[k].bound[b]
           IN  id \in held => \E i \in 1..Len(out) : out[i].name = two[id].name
    /\ reply = "notfound" => \A k \in 1..Len(TwoRules) : ~TwoRules[k].match

\* A setting profile is answered under the type the device asked for, unless the profile's row changed
\* between the two reads of it (GetSettingRulesBySettingType, GetSettingProfileBySettingRule).
ProfileAsRequested ==
  Answered("settings") /\ out # Nothing =>
    /\ out.epon # Nothing /\ out.epon[1] \in held => TypeKey(out.epon[2]) = "epon"
    /\ out.partner # Nothing /\ out.partner[1] \in held => TypeKey(out.partner[2]) = "partnersettings"

\* A request never changes the permanent profile in the shared cache: it works on a clone.
CacheUntouched == [][dcRequest' # dcRequest => UNCHANGED <<perm, two, sprof, sets, lus, vod>>]_dcVars

(* Settings, setting profiles and telemetry profiles are answered from the *)
(* formulas and rules that apply, although their rows are read one by one  *)
(* while they change.                                                      *)
PartsOfFormula ==
    /\ DcTypeOK
    /\ FirstFormulaAnswers
    /\ OnlyActiveParts
    /\ TelemetryTwoComplete
    /\ ProfileAsRequested

(* Randomised schedules are times of day, stay the same from request to    *)
(* request, and are not given to a device that is told not to upload.      *)
SchedulesKept ==
    /\ NotUploadedNotScheduled
    /\ TimesOfDay
    /\ CheckInKept
    /\ LevelMinuteKept
=============================================================================
