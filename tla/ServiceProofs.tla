--------------------------- MODULE ServiceProofs ---------------------------
(***************************************************************************)
(* Proofs about what a request needs of the remote services, for any       *)
(* number of callers, partners, accounts and retries: the token manager    *)
(* and the HTTP client (ServiceCalls), and how the context of the request  *)
(* is completed (RequestContext).                                          *)
(***************************************************************************)
EXTENDS RequestContext, ServiceCalls, TLAPS

-----------------------------------------------------------------------------
(* ServiceCalls: the inductive invariant.                                  *)

(* What was known to a caller that renews a token is out of date.          *)
Outdated(c) == seen[c] = NoToken \/ seen[c].expiry < now

(* A token is refreshed before the service stops to accept it.             *)
TokensUsable ==
  /\ \A s \in Slots : satToken[s] # NoToken =>
       satToken[s].slot = s /\ satToken[s].expiry <= satToken[s].issued + TTL
  /\ \A c \in Callers : seen[c] # NoToken =>
       seen[c].slot = slot[c] /\ seen[c].expiry <= seen[c].issued + TTL

(* An attempt began after all earlier attempts and pauses, each within its *)
(* time; a token is made during the attempt whose answer it comes with.    *)
Elapsed(c) == attempt[c] * (Timeout + Wait)
AttemptsTimed ==
  \A c \in Callers :
    /\ at[c] \in {"calling", "store"} =>
         /\ since[c] <= began[c] + Elapsed(c)
         /\ since[c] <= now /\ now <= since[c] + Timeout
         /\ issued[c] # Never => since[c] <= issued[c] /\ issued[c] <= now
    /\ at[c] = "pause" =>
         /\ attempt[c] < Retries /\ issued[c] = Never
         /\ since[c] <= began[c] + Elapsed(c) + Timeout
         /\ since[c] <= now /\ now <= since[c] + Wait

(* What a caller knows at each of its steps.  Between the judgement of a   *)
(* token and its hand-out no time passes.                                  *)
CallerKnows ==
  \A c \in Callers :
    /\ at[c] = "idle" => issued[c] = Never
    /\ at[c] # "done" => given[c] = NoToken
    /\ at[c] \in {"calling", "pause", "store"} => Outdated(c)
    /\ at[c] = "store" => issued[c] # Never
    /\ at[c] = "read" =>
         /\ satToken[slot[c]] # NoToken /\ now <= satToken[slot[c]].expiry
         /\ issued[c] # Never => Outdated(c)
         /\ issued[c] = Never => seen[c] # NoToken /\ now <= seen[c].expiry

SvcInv ==
  /\ SvcTypeOK /\ TokensUsable /\ AttemptsTimed /\ CallerKnows
  /\ NotTheExpiredOne /\ TokenOfSlot

(* The times of the attempts are sums of products: what the proofs need of *)
(* multiplication.                                                         *)
LEMMA OneMore ==
    ASSUME NEW a \in Nat, NEW x \in Nat
    PROVE  a * x \in Nat /\ (a + 1) * x = a * x + x /\ 0 * x = 0
OBVIOUS

LEMMA Multiples ==
    ASSUME NEW a \in Nat, NEW b \in Nat, NEW x \in Nat, a <= b
    PROVE  a * x <= b * x
<1>1. b * x = a * x + (b - a) * x
  BY SMT
<1>2. (b - a) * x \in Nat
  BY SMT
<1>3. QED BY <1>1, <1>2, OneMore

(* The longest call: Retries + 1 attempts and a pause after each but the   *)
(* last.                                                                   *)
LEMMA LongestIs == LongestCall = Retries * (Timeout + Wait) + Timeout
<1>1. Retries \in Nat /\ Timeout \in Nat /\ Wait \in Nat
  BY ServiceConstants
<1>2. (Retries + 1) * Timeout = Retries * Timeout + Timeout
  BY <1>1, OneMore
<1>3. Retries * (Timeout + Wait) = Retries * Timeout + Retries * Wait
  BY <1>1
<1>4. Retries * Timeout \in Nat /\ Retries * Wait \in Nat
  BY <1>1, OneMore
<1>5. QED BY <1>1, <1>2, <1>3, <1>4 DEF LongestCall

LEMMA SvcInitInv == SvcInit => SvcInv
<1> SUFFICES ASSUME SvcInit PROVE SvcInv
  OBVIOUS
<1> USE ServiceConstants DEF SvcInit
<1>1. SvcTypeOK
  BY DEF SvcTypeOK, Slots, Never
<1>2. TokensUsable
  BY DEF TokensUsable
<1>3. AttemptsTimed /\ CallerKnows
  BY DEF AttemptsTimed, CallerKnows
<1>4. NotTheExpiredOne /\ TokenOfSlot
  BY DEF NotTheExpiredOne, TokenOfSlot
<1>5. QED BY <1>1, <1>2, <1>3, <1>4 DEF SvcInv

(* The types, one step per action.                                         *)
LEMMA SvcTypeStep == SvcInv /\ [SvcNext]_svcVars => SvcTypeOK'
<1> SUFFICES ASSUME SvcInv, [SvcNext]_svcVars PROVE SvcTypeOK'
  OBVIOUS
<1> USE ServiceConstants DEF SvcInv, SvcTypeOK, Never
<1>1. CASE Tick
  BY <1>1 DEF Tick
<1>2. ASSUME NEW c \in Callers, NEW s \in Slots, LookAt(c, s) PROVE SvcTypeOK'
  BY <1>2 DEF LookAt
<1>3. ASSUME NEW c \in Callers, at[c] = "store", Store(c) PROVE SvcTypeOK'
  <2>1. issued[c] \in 0..MaxTime
    BY <1>3 DEF CallerKnows
  <2>2. [issued |-> issued[c], expiry |-> GetTokenExpiryTime, slot |-> slot[c]] \in TokenType
    BY <2>1 DEF GetTokenExpiryTime, TokenType
  <2>3. QED BY <1>3, <2>2 DEF Store
<1>4. ASSUME NEW c \in Callers, HandOut(c) PROVE SvcTypeOK'
  BY <1>4 DEF HandOut, HandOutAs
<1>5. ASSUME NEW c \in Callers, Issue(c) \/ Succeed(c) \/ FailForGood(c) \/ FailAndRetry(c)
      PROVE  SvcTypeOK'
  BY <1>5 DEF Issue, Succeed, FailForGood, FailAndRetry
<1>6. ASSUME NEW c \in Callers, Retry(c) PROVE SvcTypeOK'
  <2>1. attempt[c] + 1 \in 0..Retries
    BY <1>6 DEF Retry, AttemptsTimed
  <2>2. QED BY <1>6, <2>1 DEF Retry
<1>7. ASSUME NEW c \in Callers, NextRequest(c) PROVE SvcTypeOK'
  BY <1>7 DEF NextRequest, Slots
<1>8. CASE UNCHANGED svcVars
  BY <1>8 DEF svcVars
<1>9. QED
  BY <1>1, <1>2, <1>3, <1>4, <1>5, <1>6, <1>7, <1>8
     DEF SvcNext, CallStep, GetLocalSatToken, GetLocalPartnerSatToken, SetLocalSatToken,
         SetLocalPartnerSatToken, Slots

(* The clock only stands still while a caller holds a token it has judged, *)
(* and passes within the time of each attempt and pause.                   *)
LEMMA AttemptsStep == SvcInv /\ [SvcNext]_svcVars => AttemptsTimed'
<1> SUFFICES ASSUME SvcInv, [SvcNext]_svcVars PROVE AttemptsTimed'
  OBVIOUS
<1> USE ServiceConstants DEF SvcInv, SvcTypeOK, AttemptsTimed, Never, Elapsed
<1>1. CASE Tick
  BY <1>1 DEF Tick, MayWait
<1>2. ASSUME NEW c \in Callers, NEW s \in Slots, LookAt(c, s) PROVE AttemptsTimed'
  <2>1. issued[c] = Never
    BY <1>2 DEF LookAt, CallerKnows
  <2>2. 0 * (Timeout + Wait) = 0
    BY OneMore
  <2>3. QED BY <1>2, <2>1, <2>2 DEF LookAt
<1>3. ASSUME NEW c \in Callers, Store(c) \/ HandOut(c) PROVE AttemptsTimed'
  BY <1>3 DEF Store, HandOut, HandOutAs
<1>4. ASSUME NEW c \in Callers, Issue(c) \/ Succeed(c) \/ FailForGood(c)
      PROVE  AttemptsTimed'
  BY <1>4 DEF Issue, Succeed, FailForGood
<1>5. ASSUME NEW c \in Callers, FailAndRetry(c) PROVE AttemptsTimed'
  <2>1. attempt[c] * (Timeout + Wait) \in Nat
    BY OneMore
  <2>2. QED BY <1>5, <2>1 DEF FailAndRetry
<1>6. ASSUME NEW c \in Callers, Retry(c) PROVE AttemptsTimed'
  <2>1. /\ attempt[c] * (Timeout + Wait) \in Nat
        /\ (attempt[c] + 1) * (Timeout + Wait) = attempt[c] * (Timeout + Wait) + (Timeout + Wait)
    BY OneMore
  <2>2. attempt' = [attempt EXCEPT ![c] = attempt[c] + 1]
    BY <1>6 DEF Retry
  <2>3. QED BY <1>6, <2>1, <2>2 DEF Retry
<1>7. ASSUME NEW c \in Callers, NextRequest(c) PROVE AttemptsTimed'
  BY <1>7 DEF NextRequest
<1>8. CASE UNCHANGED svcVars
  BY <1>8 DEF svcVars
<1>9. QED
  BY <1>1, <1>2, <1>3, <1>4, <1>5, <1>6, <1>7, <1>8
     DEF SvcNext, CallStep, GetLocalSatToken, GetLocalPartnerSatToken, SetLocalSatToken,
         SetLocalPartnerSatToken, Slots

(* A token that is stored was made at most Timeout ago.                    *)
LEMMA TokensStep == SvcInv /\ [SvcNext]_svcVars => TokensUsable'
<1> SUFFICES ASSUME SvcInv, [SvcNext]_svcVars PROVE TokensUsable'
  OBVIOUS
<1> USE ServiceConstants DEF SvcInv, SvcTypeOK, TokensUsable
<1>1. ASSUME NEW c \in Callers, NEW s \in Slots, LookAt(c, s) PROVE TokensUsable'
  BY <1>1 DEF LookAt
<1>2. ASSUME NEW c \in Callers, at[c] = "store", Store(c) PROVE TokensUsable'
  <2> DEFINE t == [issued |-> issued[c], expiry |-> GetTokenExpiryTime, slot |-> slot[c]]
  <2>1. now <= issued[c] + Timeout /\ issued[c] \in Nat
    BY <1>2 DEF AttemptsTimed, CallerKnows, Never
  <2>2. t.slot = slot[c] /\ t.expiry <= t.issued + TTL
    BY <2>1 DEF GetTokenExpiryTime
  <2>3. satToken' = [satToken EXCEPT ![slot[c]] = t] /\ UNCHANGED <<seen, slot>>
    BY <1>2 DEF Store
  <2> HIDE DEF t
  <2>4. QED BY <2>2, <2>3
<1>3. ASSUME NEW c \in Callers, NextRequest(c) PROVE TokensUsable'
  BY <1>3 DEF NextRequest
<1>4. CASE UNCHANGED <<satToken, seen, slot>>
  BY <1>4
<1>5. QED
  BY <1>1, <1>2, <1>3, <1>4
     DEF SvcNext, CallStep, GetLocalSatToken, GetLocalPartnerSatToken, SetLocalSatToken,
         SetLocalPartnerSatToken, HandOut, HandOutAs, Issue, Succeed, FailForGood, FailAndRetry, Retry,
         Tick, svcVars, Slots

(* What a caller knows outlasts the steps of the others: a renewal by one  *)
(* of them only brings a token that expires later.                         *)
LEMMA KnowsStep == SvcInv /\ [SvcNext]_svcVars => CallerKnows'
<1> SUFFICES ASSUME SvcInv, [SvcNext]_svcVars PROVE CallerKnows'
  OBVIOUS
<1> USE ServiceConstants DEF SvcInv, SvcTypeOK, CallerKnows, Outdated, Never
<1>1. CASE Tick
  <2>1. \A c \in Callers : at[c] \notin {"store", "read"}
    BY <1>1 DEF Tick, MayWait
  <2>2. \A c \in Callers : seen[c] = NoToken \/ seen[c].expiry \in Nat
    BY DEF TokenType
  <2>3. QED BY <1>1, <2>1, <2>2 DEF Tick
<1>2. ASSUME NEW c \in Callers, NEW s \in Slots, LookAt(c, s) PROVE CallerKnows'
  <2>1. satToken[s] = NoToken \/ satToken[s].expiry \in Nat
    BY DEF TokenType
  <2>2. QED BY <1>2, <2>1 DEF LookAt, IsTokenExpired
<1>3. ASSUME NEW c \in Callers, at[c] = "store", Store(c) PROVE CallerKnows'
  <2> DEFINE t == [issued |-> issued[c], expiry |-> GetTokenExpiryTime, slot |-> slot[c]]
  <2>1. t # NoToken /\ now <= t.expiry
    <3>1. issued[c] \in 0..MaxTime
      BY <1>3
    <3>2. t \in TokenType /\ now <= t.expiry
      BY <3>1 DEF GetTokenExpiryTime, TokenType
    <3>3. QED BY <3>2
  <2>2. satToken' = [satToken EXCEPT ![slot[c]] = t]
    BY <1>3 DEF Store
  <2> HIDE DEF t
  <2>3. \A s \in Slots : satToken'[s] = satToken[s] \/ satToken'[s] = t
    BY <2>2
  <2>4. satToken'[slot[c]] = t
    BY <2>2
  <2>5. QED BY <1>3, <2>1, <2>3, <2>4 DEF Store
<1>4. ASSUME NEW c \in Callers, HandOut(c) PROVE CallerKnows'
  BY <1>4 DEF HandOut, HandOutAs
<1>5. ASSUME NEW c \in Callers, Issue(c) \/ Succeed(c) \/ FailForGood(c) \/ FailAndRetry(c) \/ Retry(c)
      PROVE  CallerKnows'
  BY <1>5 DEF Issue, Succeed, FailForGood, FailAndRetry, Retry
<1>6. ASSUME NEW c \in Callers, NextRequest(c) PROVE CallerKnows'
  BY <1>6 DEF NextRequest
<1>7. CASE UNCHANGED svcVars
  BY <1>7 DEF svcVars
<1>8. QED
  BY <1>1, <1>2, <1>3, <1>4, <1>5, <1>6, <1>7
     DEF SvcNext, CallStep, GetLocalSatToken, GetLocalPartnerSatToken, SetLocalSatToken,
         SetLocalPartnerSatToken, Slots

(* The token that is handed out: for a caller that renewed it one that     *)
(* expires later than the one it had seen, for any caller one of its slot. *)
LEMMA HandedOut ==
    ASSUME SvcInv, NEW c \in Callers, HandOut(c)
    PROVE  /\ given'[c] # NoToken
           /\ given'[c].slot = slot[c]
           /\ now <= given'[c].issued + TTL
           /\ issued[c] # Never => given'[c] # seen[c]
<1> USE DEF SvcInv, SvcTypeOK, TokensUsable
<1> DEFINE t == IF slot[c] # Default /\ issued[c] = Never THEN seen[c] ELSE satToken[slot[c]]
<1>1. at[c] = "read" /\ given'[c] = t
  BY DEF HandOut, HandOutAs
<1>2. t # NoToken /\ now <= t.expiry /\ (issued[c] # Never => Outdated(c))
  BY <1>1 DEF CallerKnows
<1>3. t.slot = slot[c] /\ t.expiry <= t.issued + TTL
  BY <1>2
<1>4. t.expiry \in Nat /\ t.issued \in Nat /\ now \in Nat /\ TTL \in Nat
  BY <1>2, ServiceConstants DEF TokenType
<1>5. now <= t.issued + TTL
  BY <1>2, <1>3, <1>4
<1>6. ASSUME issued[c] # Never PROVE t # seen[c]
  <2>1. seen[c] = NoToken \/ seen[c].expiry < now
    BY <1>2, <1>6 DEF Outdated
  <2>2. QED BY <1>2, <1>4, <2>1
<1>7. QED BY <1>1, <1>2, <1>3, <1>5, <1>6

LEMMA AnswersStep == SvcInv /\ [SvcNext]_svcVars => NotTheExpiredOne' /\ TokenOfSlot'
<1> SUFFICES ASSUME SvcInv, [SvcNext]_svcVars PROVE NotTheExpiredOne' /\ TokenOfSlot'
  OBVIOUS
<1> USE DEF SvcInv, SvcTypeOK, NotTheExpiredOne, TokenOfSlot, Never
<1>1. CASE Tick \/ UNCHANGED svcVars
  BY <1>1 DEF Tick, svcVars
<1>2. ASSUME NEW c \in Callers, NEW s \in Slots, LookAt(c, s)
      PROVE  NotTheExpiredOne' /\ TokenOfSlot'
  BY <1>2 DEF LookAt, CallerKnows
<1>3. ASSUME NEW c \in Callers, Store(c) \/ Issue(c) \/ Succeed(c), at[c] # "done"
      PROVE  NotTheExpiredOne' /\ TokenOfSlot'
  BY <1>3 DEF Store, Issue, Succeed
<1>4. ASSUME NEW c \in Callers, HandOut(c) PROVE NotTheExpiredOne' /\ TokenOfSlot'
  <2>1. /\ given'[c].slot = slot[c]
        /\ issued[c] # Never => given'[c] # seen[c]
    BY <1>4, HandedOut
  <2>2. /\ \A d \in Callers \ {c} : given'[d] = given[d] /\ at'[d] = at[d]
        /\ UNCHANGED <<slot, issued, seen>>
    BY <1>4 DEF HandOut, HandOutAs
  <2>3. QED BY <2>1, <2>2
<1>5. ASSUME NEW c \in Callers, FailForGood(c) \/ FailAndRetry(c) \/ Retry(c)
      PROVE  NotTheExpiredOne' /\ TokenOfSlot'
  BY <1>5, ServiceConstants DEF FailForGood, FailAndRetry, Retry
<1>6. ASSUME NEW c \in Callers, NextRequest(c) PROVE NotTheExpiredOne' /\ TokenOfSlot'
  BY <1>6 DEF NextRequest
<1>7. QED
  BY <1>1, <1>2, <1>3, <1>4, <1>5, <1>6
     DEF SvcNext, CallStep, GetLocalSatToken, GetLocalPartnerSatToken, SetLocalSatToken,
         SetLocalPartnerSatToken, Slots, Issue, Succeed

LEMMA SvcInvariant == SvcSpec => []SvcInv
<1>1. SvcInv /\ [SvcNext]_svcVars => SvcInv'
  BY SvcTypeStep, AttemptsStep, TokensStep, KnowsStep, AnswersStep DEF SvcInv
<1>2. QED BY <1>1, SvcInitInv, PTL DEF SvcSpec

(* Requests that share the tokens of the SAT service without a lock get a  *)
(* token of their slot, never one they found expired, and DoWithRetries    *)
(* ends within its timeouts, for any number of requests and retries.       *)
THEOREM CallsAreSound == SvcSpec => []CallsSound
<1>1. SvcInv => CallTimeBounded
  <2> SUFFICES ASSUME SvcInv, NEW c \in Callers, at[c] \in {"calling", "pause", "store"}
               PROVE  now <= began[c] + LongestCall
    BY DEF CallTimeBounded
  <2> USE ServiceConstants DEF SvcInv, SvcTypeOK
  <2> DEFINE x == Timeout + Wait
  <2>1. attempt[c] * x \in Nat /\ Retries * x \in Nat /\ attempt[c] * x <= Retries * x
    BY OneMore, Multiples
  <2>2. CASE at[c] \in {"calling", "store"}
    BY <2>1, <2>2, LongestIs DEF AttemptsTimed, Elapsed
  <2>3. CASE at[c] = "pause"
    <3>1. (attempt[c] + 1) * x = attempt[c] * x + x /\ attempt[c] + 1 <= Retries
      BY <2>3, OneMore DEF AttemptsTimed
    <3>2. (attempt[c] + 1) * x <= Retries * x
      BY <3>1, Multiples
    <3>3. QED BY <2>1, <2>3, <3>1, <3>2, LongestIs DEF AttemptsTimed, Elapsed
  <2>4. QED BY <2>2, <2>3
<1>2. SvcInv => CallsSound
  BY <1>1 DEF SvcInv, CallsSound
<1>3. QED BY <1>2, SvcInvariant, PTL

(* A token is valid when it is handed out: the service accepts it although *)
(* renewals overwrite each other.                                          *)
THEOREM HandedOutIsValid == SvcSpec => HandedOutValid
<1> DEFINE Handed ==
      \A c \in Callers : (at[c] = "read" /\ at'[c] = "done") =>
        given'[c] # NoToken /\ now <= given'[c].issued + TTL
<1>1. SvcInv /\ [SvcNext]_svcVars => Handed
  <2> SUFFICES ASSUME SvcInv, [SvcNext]_svcVars, NEW c \in Callers, at[c] = "read", at'[c] = "done"
               PROVE  given'[c] # NoToken /\ now <= given'[c].issued + TTL
    OBVIOUS
  <2>1. at'[c] # at[c]
    OBVIOUS
  <2>2. ~Tick /\ ~UNCHANGED svcVars
    BY <2>1 DEF Tick, svcVars
  <2>3. PICK d \in Callers : CallStep(d)
    BY <2>2 DEF SvcNext
  <2>4. CASE HandOut(d)
    <3>1. d = c
      BY <2>1, <2>4 DEF HandOut, HandOutAs, SvcInv, SvcTypeOK
    <3>2. QED BY <2>4, <3>1, HandedOut
  <2>5. CASE GetLocalSatToken(d) \/ GetLocalPartnerSatToken(d)
    BY <2>5 DEF GetLocalSatToken, GetLocalPartnerSatToken, LookAt, SvcInv, SvcTypeOK
  <2>6. CASE SetLocalSatToken(d) \/ SetLocalPartnerSatToken(d)
    BY <2>6 DEF SetLocalSatToken, SetLocalPartnerSatToken, Store, SvcInv, SvcTypeOK
  <2>7. CASE Issue(d) \/ Succeed(d)
    BY <2>7 DEF Issue, Succeed, SvcInv, SvcTypeOK
  <2>8. CASE FailForGood(d) \/ FailAndRetry(d) \/ Retry(d) \/ NextRequest(d)
    BY <2>8 DEF FailForGood, FailAndRetry, Retry, NextRequest, SvcInv, SvcTypeOK
  <2>9. QED BY <2>3, <2>4, <2>5, <2>6, <2>7, <2>8 DEF CallStep
<1>2. QED BY <1>1, SvcInvariant, PTL DEF SvcSpec, HandedOutValid

-----------------------------------------------------------------------------
(* The context of a request.                                               *)

AskedAccounts == Accounts \cup {Empty}
CtxType == [account : Ids, hash : Hashes, partner : PartnerIds, passed : PartnerIds,
            country : AskedAccounts, tz : AskedAccounts, attrs : AskedAccounts]
PodType == [account : AskedAccounts, partner : PartnerIds, tz : AskedAccounts]

\* What a phase knows because a call has not yet been made, or has answered.
Answered ==
  /\ pc \in {"start", "products"} => ctx.account = req.account
  /\ pc = "podProducts" => ctx.account \in AskedAccounts
  /\ pc \in {"lookupProducts", "xacProducts"} => ctx.account \in Accounts
  /\ pc = "podAccount" => pod \in PodType

\* The phases in which an account service is called, or about to be, by connector.
Connected == {"podId", "podProducts", "podDevices", "podService", "podAccount", "lookupId",
              "lookupProducts", "devices", "country"}

\* The token that is held is that of the connector that is or will be chosen.
RouteKept ==
  /\ pc \in {"products", "pods", "lookup"} => token = RouteOf(ctx)
  /\ pc \in Connected => connector \in Routes /\ token = connector
  /\ pc \in {"xacId", "xacProducts", "partner"} => token = "default"

\* Before the attributes are read, a device that does not name its account has none,
\* so that its account may still change.
AttributesLate ==
  (req.account \notin Accounts /\ pc \notin {"partner", "tagging", "ft", "done"}) =>
    ctx.country = Empty /\ ctx.tz = Empty /\ ctx.attrs = Empty

\* How the hash follows the account of a device whose account is unknown.
HashFollows ==
  (req.account = Unknown /\ "products" \notin failed) =>
    /\ pc \in {"start", "products", "pods", "lookup", "podId", "lookupId", "devices"} => ctx.account = Unknown
    /\ pc \in {"start", "products", "pods", "lookup", "podId", "lookupId", "lookupProducts", "devices"} =>
         ctx.hash = req.hash
    /\ ctx.hash = req.hash \/ (ctx.hash = HashOf(ctx.account) /\ ctx.account # Unknown)

\* Tags of an account or a partner come when both are final.
TagsLate ==
  \A t \in tags : t[2] = Mac \/ (pc \in {"ft", "done"} /\ t[2] \in {ctx.account, ctx.partner})

CtxInv ==
  /\ CtxTypeOK /\ Answered /\ RouteKept /\ TokenFitsConnector
  /\ AttributesOfAccount /\ AttributesLate /\ HashFollows /\ TagsLate

LEMMA CtxInitInv == CtxInit => CtxInv
<1> SUFFICES ASSUME CtxInit PROVE CtxInv
  OBVIOUS
<1> USE ConstantsOK DEF CtxInit, ContextOf
<1>1. req \in RequestType
  OBVIOUS
<1>2. CtxTypeOK
  BY <1>1 DEF CtxTypeOK, CtxPhases, RequestType
<1>3. Answered /\ RouteKept /\ TokenFitsConnector /\ TagsLate
  BY DEF Answered, RouteKept, Connected, TokenFitsConnector, TagsLate
<1>4. AttributesOfAccount /\ AttributesLate
  BY DEF AttributesOfAccount, AttributesLate
<1>5. HashFollows
  BY DEF HashFollows
<1>6. QED BY <1>2, <1>3, <1>4, <1>5 DEF CtxInv

\* What Absorb keeps and where the attributes come from.
LEMMA AbsorbKeeps ==
    ASSUME NEW c \in CtxType, NEW ans \in ProductAnswers, ans # Error, c.account \in AskedAccounts
    PROVE  /\ Absorb(c, ans) \in CtxType
           /\ Absorb(c, ans).account = c.account /\ Absorb(c, ans).hash = c.hash
           /\ Absorb(c, ans).partner \in {c.partner} \cup Partners
           /\ {Absorb(c, ans).country, Absorb(c, ans).tz, Absorb(c, ans).attrs}
                \subseteq {c.country, c.tz, c.attrs, c.account}
BY DEF CtxType, ProductAnswers, Absorb, PartnerIds

\* What each part of the invariant says, in the form the steps use.
LEMMA CtxFacts ==
    ASSUME CtxInv
    PROVE  /\ pc \in CtxPhases /\ conf \in ConfType /\ req \in RequestType /\ ctx \in CtxType
           /\ Empty \in AskedAccounts /\ Accounts \subseteq AskedAccounts /\ AskedAccounts \subseteq Ids
           /\ Unknown \notin AskedAccounts /\ Unknown \notin Partners
BY ConstantsOK DEF CtxInv, CtxTypeOK, CtxType, AskedAccounts, Ids

LEMMA CtxTypeStep == CtxInv /\ [CtxNext]_ctxVars => CtxTypeOK' /\ Answered'
<1> SUFFICES ASSUME CtxInv, [CtxNext]_ctxVars PROVE CtxTypeOK' /\ Answered'
  OBVIOUS
<1> USE CtxFacts DEF Calls, Failing
<1> DEFINE Rest == /\ conf \in Confs /\ req \in Requests
                   /\ pod \in {None} \cup PodType
                   /\ td \in {None} \cup [account : AskedAccounts, partner : Partners \cup {Empty}]
                   /\ tags \subseteq {"group", "coast", "ft"} \X (Ids \cup Partners \cup {Mac})
                   /\ failed \subseteq Calls
                   /\ used \subseteq (Routes \cup {None}) \X Routes
                   /\ token \in Routes \cup {None} /\ connector \in Routes \cup {None}
           Typed == pc \in CtxPhases /\ ctx \in CtxType /\ Rest
<1>1. Typed /\ (CtxTypeOK' <=> Typed')
  BY DEF CtxInv, CtxTypeOK, CtxType, PodType, AskedAccounts
<1> SUFFICES Typed' /\ Answered'
  BY <1>1
<1>2. Answered
  BY DEF CtxInv
<1> USE <1>1, <1>2 DEF Answered
<1>3. CASE UNCHANGED ctxVars
  BY <1>3 DEF ctxVars
<1>4. CASE AddFeatureControlContext
  BY <1>4 DEF AddFeatureControlContext, RouteOf, Routes, CtxPhases
<1>5. CASE FetchProducts
  <2>1. pc' \in CtxPhases
        /\ pc' \notin {"start", "products", "podProducts", "lookupProducts", "xacProducts", "podAccount"}
    BY <1>5 DEF FetchProducts, NextLookup, CtxPhases
  <2>2. ctx' \in CtxType
    <3>1. ctx.account \in AskedAccounts \/ ~Known(ctx.account)
      BY DEF CtxType, Ids, Known
    <3>2. CASE ctx' = ctx
      BY <3>2
    <3>3. CASE ctx' # ctx
      <4>1. PICK ans \in ProductAnswers :
              /\ ans # Error /\ Known(ctx.account)
              /\ ctx' = [Absorb(ctx, ans) EXCEPT
                           !.hash = HashOf(ctx.account),
                           !.country = IF ans.attrs = "blank" THEN Empty ELSE @,
                           !.tz = IF ans.attrs = "blank" THEN Empty ELSE @]
        BY <1>5, <3>3 DEF FetchProducts
      <4>2. Absorb(ctx, ans) \in CtxType
        BY <4>1, <3>1, AbsorbKeeps
      <4>3. HashOf(ctx.account) \in Hashes
        BY DEF Hashes, CtxType
      <4>4. QED BY <4>1, <4>2, <4>3 DEF CtxType
    <3>4. QED BY <3>2, <3>3
  <2>3. Rest'
    BY <1>5 DEF FetchProducts
  <2>4. QED BY <2>1, <2>2, <2>3
<1>6. CASE AddContextForPods \/ AddFeatureControlContextFromAccountService
  BY <1>6 DEF AddContextForPods, AddFeatureControlContextFromAccountService, ChooseConnector, RouteOf,
              Routes, CtxPhases
<1>7. CASE GetAccountInfoId
  <2>1. PICK ans \in AccountIdAnswers :
          /\ failed' = failed \cup (IF ans = Error THEN {"accountId"} ELSE {})
          /\ ctx' = IF ans = Error THEN ctx ELSE [ctx EXCEPT !.account = ans, !.hash = HashOf(ans)]
          /\ pc' = IF ans = Error THEN "podDevices" ELSE "podProducts"
    BY <1>7 DEF GetAccountInfoId
  <2>2. ans # Error => ans \in AskedAccounts /\ HashOf(ans) \in Hashes
    BY <2>1 DEF AccountIdAnswers, AskedAccounts, Hashes, Ids
  <2>3. ctx' \in CtxType /\ (ans # Error => ctx'.account \in AskedAccounts)
    BY <2>1, <2>2 DEF CtxType
  <2>4. QED BY <1>7, <2>1, <2>3 DEF GetAccountInfoId, CtxPhases
<1>8. CASE GetAccountInfoProducts
  <2>1. PICK ans \in ProductAnswers :
          /\ failed' = failed \cup (IF ans = Error THEN {"products"} ELSE {})
          /\ IF ans = Error
               THEN pc' = "podDevices" /\ UNCHANGED <<ctx, pod, td>>
               ELSE /\ ctx' = Absorb(ctx, ans)
                    /\ td' = [account |-> ctx.account, partner |-> ans.partner]
                    /\ pod' = [account |-> ctx.account, partner |-> ctx'.partner, tz |-> ctx'.tz]
                    /\ pc' = "tagging"
    BY <1>8 DEF GetAccountInfoProducts
  <2>2. QED
    BY <1>8, <2>1, AbsorbKeeps DEF GetAccountInfoProducts, ProductAnswers, CtxPhases, PodType, CtxType
<1>9. CASE PodTable \/ NoPodService
  BY <1>9 DEF PodTable, NoPodService, CtxPhases

<1>10. CASE PodBySerialNumber \/ PodByEcmMac
  <2>1. AskForPod
    BY <1>10 DEF PodBySerialNumber, PodByEcmMac
  <2>2. pc \in Connected /\ connector \in Routes
    BY <1>10 DEF PodBySerialNumber, PodByEcmMac, CtxInv, RouteKept, Connected
  <2>3. PICK ans \in DeviceAnswers :
          /\ failed' = failed \cup (IF ans = Error THEN {"devices"} ELSE {})
          /\ td' = IF ans = Error THEN td ELSE ans
          /\ IF ans = Error \/ ans.account = Empty
               THEN pc' = "tagging" /\ UNCHANGED <<ctx, pod>>
               ELSE /\ pod' = [account |-> ans.account, partner |-> ans.partner, tz |-> Empty]
                    /\ ctx' = IF ctx.account = Unknown THEN [ctx EXCEPT !.account = ans.account] ELSE ctx
                    /\ pc' = "podAccount"
    BY <2>1 DEF AskForPod
  <2>4. td' \in {None} \cup [account : AskedAccounts, partner : Partners \cup {Empty}]
    BY <2>3 DEF DeviceAnswers, AskedAccounts
  <2>5. /\ pc' \in CtxPhases /\ ctx' \in CtxType /\ pod' \in {None} \cup PodType
        /\ failed' \subseteq Calls /\ Answered'
    BY <2>3 DEF DeviceAnswers, CtxType, PodType, PartnerIds, CtxPhases, AskedAccounts
  <2>6. used' \subseteq (Routes \cup {None}) \X Routes
    BY <2>1, <2>2 DEF AskForPod
  <2>7. QED BY <2>1, <2>4, <2>5, <2>6 DEF AskForPod
<1>11. CASE PodAccount
  <2>1. pod \in PodType /\ connector \in Routes
    BY <1>11 DEF PodAccount, CtxInv, RouteKept, Connected
  <2>2. PICK ans \in AccountAnswers :
          /\ failed' = failed \cup (IF ans = Error THEN {"account"} ELSE {})
          /\ pod' = IF ans = "set" THEN [pod EXCEPT !.tz = pod.account] ELSE pod
    BY <1>11 DEF PodAccount
  <2>3. pod' \in PodType /\ failed' \subseteq Calls
    BY <2>1, <2>2 DEF PodType
  <2>4. used' \subseteq (Routes \cup {None}) \X Routes
    BY <1>11, <2>1 DEF PodAccount
  <2>5. QED BY <1>11, <2>3, <2>4 DEF PodAccount, CtxPhases
<1>12. CASE PodMesh
  <2>1. PICK ans \in MeshAnswers :
          /\ failed' = failed \cup (IF ans = Error THEN {"mesh"} ELSE {})
          /\ IF ans = Error \/ (ans.data = None /\ ~(ans.ok /\ ctx.account = Unknown))
               THEN pc' = "tagging" /\ UNCHANGED <<ctx, pod>>
               ELSE IF ans.data = None THEN pc' = "panic" /\ UNCHANGED <<ctx, pod>>
               ELSE /\ pod' = [account |-> ans.data.account, partner |-> ans.data.partner, tz |-> ans.data.account]
                    /\ ctx' = IF ans.ok /\ ctx.account = Unknown /\ ans.data.account # Empty
                                THEN [ctx EXCEPT !.account = ans.data.account] ELSE ctx
                    /\ pc' = "tagging"
    BY <1>12 DEF PodMesh
  <2>2. /\ pc' \in CtxPhases /\ ctx' \in CtxType /\ pod' \in {None} \cup PodType
        /\ failed' \subseteq Calls /\ Answered'
    <3>1. CASE ans = Error \/ ans.data = None
      BY <2>1, <3>1 DEF CtxPhases
    <3>2. CASE ans # Error /\ ans.data # None
      <4>1. ans.data.account \in AskedAccounts /\ ans.data.partner \in PartnerIds
        BY <3>2 DEF MeshAnswers, AskedAccounts, PartnerIds
      <4>2. QED BY <2>1, <3>2, <4>1 DEF CtxType, PodType, CtxPhases
    <3>3. QED BY <3>1, <3>2
  <2>3. QED BY <1>12, <2>2 DEF PodMesh
<1>13. CASE LookupId
  BY <1>13 DEF LookupId, CtxType, Ids, Known, CtxPhases
<1>14. CASE LookupProducts
  <2>1. PICK ans \in ProductAnswers :
          /\ failed' = failed \cup (IF ans = Error THEN {"products"} ELSE {})
          /\ IF ans = Error
               THEN pc' = "devices" /\ UNCHANGED <<ctx, td>>
               ELSE /\ ctx' = [Absorb(ctx, ans) EXCEPT !.hash = HashOf(ctx.account)]
                    /\ td' = [account |-> ctx.account, partner |-> ans.partner]
                    /\ pc' = "tagging"
    BY <1>14 DEF LookupProducts
  <2>2. ctx.account \in Accounts /\ HashOf(ctx.account) \in Hashes
    BY <1>14 DEF LookupProducts, Hashes, AskedAccounts
  <2>3. CASE ans = Error
    BY <1>14, <2>1, <2>3 DEF LookupProducts, CtxPhases
  <2>4. CASE ans # Error
    <3>1. Absorb(ctx, ans) \in CtxType
      BY <2>2, <2>4, AbsorbKeeps
    <3>2. ctx' \in CtxType
      BY <2>1, <2>2, <2>4, <3>1 DEF CtxType
    <3>3. td' \in [account : AskedAccounts, partner : Partners \cup {Empty}]
      BY <2>1, <2>2, <2>4 DEF ProductAnswers
    <3>4. QED BY <1>14, <2>1, <2>4, <3>2, <3>3 DEF LookupProducts, CtxPhases
  <2>5. QED BY <2>3, <2>4
<1>15. CASE GetDevices
  <2>1. connector \in Routes
    BY <1>15 DEF GetDevices, CtxInv, RouteKept, Connected
  <2>2. used' \subseteq (Routes \cup {None}) \X Routes
    <3>1. used' = used \/ used' = used \cup {<<token, connector>>}
      BY <1>15 DEF GetDevices
    <3>2. QED BY <2>1, <3>1
  <2>3. CASE ~conf.accountService
    BY <1>15, <2>3 DEF GetDevices, CtxPhases
  <2>4. CASE conf.accountService
    <3>1. PICK ans \in IF req.estb \/ req.ecm THEN DeviceAnswers ELSE {NoAnswer} :
            /\ failed' = failed \cup (IF ans = Error THEN {"devices"} ELSE {})
            /\ td' = CASE ans # Error /\ (req.estb \/ req.ecm) -> ans
                       [] ans = Error /\ req.ecm -> NoAnswer
                       [] OTHER -> td
            /\ ctx' = IF ans = Error THEN ctx
                      ELSE [ctx EXCEPT
                              !.partner = IF ans.partner = Empty THEN @ ELSE ans.partner,
                              !.account = IF @ = Unknown /\ ans.account # Empty THEN ans.account ELSE @,
                              !.hash = IF @ = Unknown /\ ans.account # Empty THEN HashOf(ans.account) ELSE @]
      BY <1>15, <2>4 DEF GetDevices
    <3>2. ans # Error => ans \in [account : AskedAccounts, partner : Partners \cup {Empty}]
      BY <3>1 DEF DeviceAnswers, NoAnswer, AskedAccounts
    <3>3. td' \in {None} \cup [account : AskedAccounts, partner : Partners \cup {Empty}]
      BY <3>1, <3>2 DEF NoAnswer
    <3>4. ctx' \in CtxType
      <4>1. CASE ans = Error
        BY <3>1, <4>1
      <4>2. CASE ans # Error
        <5>1. HashOf(ans.account) \in Hashes /\ ans.partner \in PartnerIds /\ ans.account \in Ids
          BY <3>2, <4>2 DEF Hashes, PartnerIds
        <5>2. QED BY <3>1, <4>2, <5>1 DEF CtxType
      <4>3. QED BY <4>1, <4>2
    <3>5. QED BY <1>15, <2>2, <2>4, <3>1, <3>3, <3>4 DEF GetDevices, CtxPhases
  <2>5. QED BY <2>3, <2>4
<1>16. CASE AddCountryCode
  <2>1. connector \in Routes
    BY <1>16 DEF AddCountryCode, CtxInv, RouteKept, Connected
  <2>2. ctx' \in CtxType
    BY <1>16 DEF AddCountryCode, CtxType, Known, Ids, AskedAccounts
  <2>3. used' \subseteq (Routes \cup {None}) \X Routes
    BY <1>16, <2>1 DEF AddCountryCode
  <2>4. QED BY <1>16, <2>2, <2>3 DEF AddCountryCode, CtxPhases
<1>17. CASE AddGroupServiceContext
  <2>1. tags' = tags \/ tags' = {<<"group", Mac>>}
    BY <1>17 DEF AddGroupServiceContext
  <2>2. tags' \subseteq {"group", "coast", "ft"} \X (Ids \cup Partners \cup {Mac})
    BY <2>1
  <2>3. failed' = failed \/ failed' = failed \cup {"groups"}
    BY <1>17 DEF AddGroupServiceContext
  <2>4. QED BY <1>17, <2>2, <2>3 DEF AddGroupServiceContext, CtxPhases
<1>18. CASE AddEstbFirmwareContext \/ AddLogUploaderContext
  BY <1>18 DEF AddEstbFirmwareContext, AddLogUploaderContext, DefaultToken, CtxPhases, Routes
<1>19. CASE FirmwareAccountId \/ LogUploadAccountId
  <2>1. AskAccountId /\ pc = "xacId"
    BY <1>19 DEF FirmwareAccountId, LogUploadAccountId
  <2>2. PICK ans \in AccountIdAnswers \cup {None} :
          /\ failed' = failed \cup (IF ans = Error THEN {"accountId"} ELSE {})
          /\ ctx' = IF ans \in {Error, None} THEN ctx ELSE [ctx EXCEPT !.account = ans, !.hash = HashOf(ans)]
    BY <2>1 DEF AskAccountId, IdAnswers
  <2>3. ans \notin {Error, None} => ans \in Ids /\ HashOf(ans) \in Hashes
    BY <2>2 DEF AccountIdAnswers, Hashes, Ids
  <2>4. ctx' \in CtxType
    BY <2>2, <2>3 DEF CtxType
  <2>5. pc' \in {"xacProducts", "partner"} /\ (pc' = "xacProducts" => Known(ctx'.account))
    BY <2>1 DEF AskAccountId
  <2>6. Answered'
    BY <2>4, <2>5 DEF CtxType, Known, Ids
  <2>7. QED BY <2>1, <2>2, <2>4, <2>5, <2>6 DEF AskAccountId, CtxPhases
<1>20. CASE FirmwareProducts \/ LogUploadProducts
  <2>1. AskProducts /\ pc = "xacProducts"
    BY <1>20 DEF FirmwareProducts, LogUploadProducts
  <2>2. PICK ans \in ProductAnswers :
          /\ failed' = failed \cup (IF ans = Error THEN {"products"} ELSE {})
          /\ ctx' = IF ans = Error THEN ctx ELSE Absorb(ctx, ans)
    BY <2>1 DEF AskProducts
  <2>3. ctx' \in CtxType
    BY <2>1, <2>2, AbsorbKeeps
  <2>4. QED BY <2>1, <2>2, <2>3 DEF AskProducts, CtxPhases
<1>21. CASE GetPartnerFromAccountServiceByHostMac
  <2>1. token = "default"
    BY <1>21 DEF GetPartnerFromAccountServiceByHostMac, CtxInv, RouteKept
  <2>2. used' \subseteq (Routes \cup {None}) \X Routes
    BY <1>21, <2>1 DEF GetPartnerFromAccountServiceByHostMac, Routes
  <2>3. ctx' \in CtxType
    BY <1>21 DEF GetPartnerFromAccountServiceByHostMac, DeviceAnswers, CtxType, PartnerIds
  <2>4. QED BY <1>21, <2>2, <2>3 DEF GetPartnerFromAccountServiceByHostMac, CtxPhases
<1>22. CASE AddContextFromTaggingService
  <2>1. Identities(ctx) \subseteq Ids \cup Partners \cup {Mac}
    BY DEF Identities, CtxType, PartnerIds, Ids
  <2>2. tags' = tags \/ tags' = tags \cup {<<"coast", id>> : id \in Identities(ctx)}
    BY <1>22 DEF AddContextFromTaggingService
  <2>3. tags' \subseteq {"group", "coast", "ft"} \X (Ids \cup Partners \cup {Mac})
    BY <2>1, <2>2
  <2>4. failed' = failed \/ failed' = failed \cup {"tagging"}
    BY <1>22 DEF AddContextFromTaggingService
  <2>5. QED BY <1>22, <2>3, <2>4 DEF AddContextFromTaggingService, CtxPhases
<1>23. CASE AddGroupServiceFTContext
  <2>1. FtIdentities(ctx) \subseteq Ids \cup Partners \cup {Mac}
    BY DEF FtIdentities, CtxType, PartnerIds, Ids
  <2>2. QED BY <1>23, <2>1 DEF AddGroupServiceFTContext, CtxPhases
<1>24. QED
  BY <1>3, <1>4, <1>5, <1>6, <1>7, <1>8, <1>9, <1>10, <1>11, <1>12, <1>13, <1>14, <1>15, <1>16, <1>17,
     <1>18, <1>19, <1>20, <1>21, <1>22, <1>23 DEF CtxNext

\* A step that changes the route changes nothing that still waits for the connector:
\* once the products are known, no lookup follows.
LEMMA RouteStep == CtxInv /\ [CtxNext]_ctxVars => RouteKept' /\ TokenFitsConnector'
<1> SUFFICES ASSUME CtxInv, [CtxNext]_ctxVars PROVE RouteKept' /\ TokenFitsConnector'
  OBVIOUS
<1> USE CtxFacts
<1>1. RouteKept /\ TokenFitsConnector
  BY DEF CtxInv
<1>2. CASE UNCHANGED ctxVars
  BY <1>1, <1>2 DEF ctxVars, RouteKept, TokenFitsConnector, RouteOf, usePartnerRoute
<1>3. CASE AddFeatureControlContext
  BY <1>1, <1>3 DEF AddFeatureControlContext, RouteKept, TokenFitsConnector, Connected, RouteOf, usePartnerRoute
<1>4. CASE FetchProducts
  <2>1. pc = "products" /\ token = RouteOf(ctx) /\ pc' = NextLookup(ctx')
        /\ UNCHANGED <<conf, token, used>>
    BY <1>1, <1>4 DEF FetchProducts, RouteKept
  <2>2. pc' \in {"pods", "lookup", "tagging"}
    BY <2>1 DEF NextLookup
  <2>3. CASE ctx'.partner = ctx.partner
    BY <1>1, <2>1, <2>2, <2>3 DEF RouteKept, TokenFitsConnector, Connected, RouteOf, usePartnerRoute
  <2>4. CASE ctx'.partner # ctx.partner
    <3>1. PICK ans \in ProductAnswers :
            /\ ans # Error /\ Known(ctx.account)
            /\ ctx' = [Absorb(ctx, ans) EXCEPT
                         !.hash = HashOf(ctx.account),
                         !.country = IF ans.attrs = "blank" THEN Empty ELSE @,
                         !.tz = IF ans.attrs = "blank" THEN Empty ELSE @]
      BY <1>4, <2>4 DEF FetchProducts
    <3>2. ctx.account \in AskedAccounts
      BY <3>1 DEF CtxType, Ids, Known
    <3>3. Absorb(ctx, ans) \in CtxType /\ Absorb(ctx, ans).account = ctx.account
          /\ Absorb(ctx, ans).partner \in {ctx.partner} \cup Partners
      BY <3>1, <3>2, AbsorbKeeps
    <3>4. ctx'.partner \in Partners /\ ctx'.account = ctx.account /\ ctx'.hash = HashOf(ctx.account)
      BY <2>4, <3>1, <3>3 DEF CtxType
    <3>5. Unknown \notin {ctx'.account, ctx'.partner, ctx'.hash}
      BY <3>2, <3>4, ConstantsOK
    <3>6. pc' = "tagging"
      BY <2>1, <3>5 DEF NextLookup
    <3>7. QED BY <1>1, <2>1, <3>6 DEF RouteKept, TokenFitsConnector, Connected
  <2>5. QED BY <2>3, <2>4
<1>5. CASE AddContextForPods \/ AddFeatureControlContextFromAccountService
  <2>1. token = RouteOf(ctx) /\ connector' = RouteOf(ctx) /\ UNCHANGED <<token, used>>
        /\ pc' \in Connected \cup {"tagging"}
    BY <1>1, <1>5 DEF AddContextForPods, AddFeatureControlContextFromAccountService, ChooseConnector,
                      RouteKept, Connected
  <2>2. QED BY <1>1, <2>1 DEF RouteKept, TokenFitsConnector, Connected, RouteOf, Routes
<1>6. CASE \/ GetAccountInfoId \/ GetAccountInfoProducts \/ PodTable \/ PodMesh \/ NoPodService
           \/ LookupId \/ LookupProducts
  <2>1. pc \in Connected /\ pc' \in Connected \cup {"tagging", "panic"}
        /\ UNCHANGED <<token, connector, used>>
    BY <1>6 DEF GetAccountInfoId, GetAccountInfoProducts, PodTable, PodMesh, NoPodService, LookupId,
                LookupProducts, Connected
  <2>2. QED BY <1>1, <2>1 DEF RouteKept, TokenFitsConnector, Connected
<1>7. CASE PodBySerialNumber \/ PodByEcmMac \/ PodAccount \/ GetDevices \/ AddCountryCode
  <2>1. pc \in Connected /\ pc' \in Connected \cup {"tagging"} /\ UNCHANGED <<token, connector>>
    BY <1>7 DEF PodBySerialNumber, PodByEcmMac, AskForPod, PodAccount, GetDevices, AddCountryCode, Connected
  <2>2. used' \in {used, used \cup {<<token, connector>>}}
    BY <1>7 DEF PodBySerialNumber, PodByEcmMac, AskForPod, PodAccount, GetDevices, AddCountryCode
  <2>3. QED BY <1>1, <2>1, <2>2 DEF RouteKept, TokenFitsConnector, Connected
<1>8. CASE AddGroupServiceContext
  BY <1>1, <1>8 DEF AddGroupServiceContext, RouteKept, TokenFitsConnector, Connected
<1>9. CASE AddEstbFirmwareContext \/ AddLogUploaderContext
  BY <1>1, <1>9 DEF AddEstbFirmwareContext, AddLogUploaderContext, DefaultToken, RouteKept,
                    TokenFitsConnector, Connected
<1>10. CASE FirmwareAccountId \/ LogUploadAccountId \/ FirmwareProducts \/ LogUploadProducts
  <2>1. token = "default" /\ pc' \in {"xacProducts", "partner"} /\ UNCHANGED <<token, used>>
    BY <1>1, <1>10 DEF FirmwareAccountId, LogUploadAccountId, FirmwareProducts, LogUploadProducts,
                       AskAccountId, AskProducts, RouteKept
  <2>2. QED BY <1>1, <2>1 DEF RouteKept, TokenFitsConnector, Connected
<1>11. CASE GetPartnerFromAccountServiceByHostMac
  <2>1. token = "default" /\ pc' = "tagging" /\ used' \in {used, used \cup {<<token, "default">>}}
    BY <1>1, <1>11 DEF GetPartnerFromAccountServiceByHostMac, RouteKept
  <2>2. QED BY <1>1, <2>1 DEF RouteKept, TokenFitsConnector, Connected
<1>12. CASE AddContextFromTaggingService \/ AddGroupServiceFTContext
  BY <1>1, <1>12 DEF AddContextFromTaggingService, AddGroupServiceFTContext, RouteKept, TokenFitsConnector,
                     Connected
<1>13. QED
  BY <1>2, <1>3, <1>4, <1>5, <1>6, <1>7, <1>8, <1>9, <1>10, <1>11, <1>12 DEF CtxNext

\* Tags of an account or a partner are the last thing a request asks for.
LEMMA TagsStep == CtxInv /\ [CtxNext]_ctxVars => TagsLate'
<1> SUFFICES ASSUME CtxInv, [CtxNext]_ctxVars PROVE TagsLate'
  OBVIOUS
<1> USE CtxFacts
<1>1. TagsLate
  BY DEF CtxInv
<1>2. CASE UNCHANGED ctxVars
  BY <1>1, <1>2 DEF ctxVars, TagsLate
<1>3. CASE AddGroupServiceContext
  <2>1. tags' = tags \/ tags' = {<<"group", Mac>>}
    BY <1>3 DEF AddGroupServiceContext
  <2>2. QED BY <1>1, <1>3, <2>1 DEF AddGroupServiceContext, TagsLate
<1>4. CASE AddContextFromTaggingService
  <2>1. tags' = tags \/ tags' = tags \cup {<<"coast", id>> : id \in Identities(ctx)}
    BY <1>4 DEF AddContextFromTaggingService
  <2>2. Identities(ctx) \subseteq {Mac, ctx.account, ctx.partner}
    BY DEF Identities
  <2>3. QED BY <1>1, <1>4, <2>1, <2>2 DEF AddContextFromTaggingService, TagsLate
<1>5. CASE AddGroupServiceFTContext
  <2>1. FtIdentities(ctx) \subseteq {Mac, ctx.account, ctx.partner}
    BY DEF FtIdentities
  <2>2. QED BY <1>1, <1>5, <2>1 DEF AddGroupServiceFTContext, TagsLate
<1>6. ASSUME UNCHANGED tags, pc \notin {"ft", "done"} PROVE TagsLate'
  BY <1>1, <1>6 DEF TagsLate
<1>7. CASE \/ AddFeatureControlContext \/ FetchProducts \/ AddContextForPods
           \/ AddFeatureControlContextFromAccountService
           \/ GetAccountInfoId \/ GetAccountInfoProducts \/ PodTable \/ PodBySerialNumber \/ PodByEcmMac
           \/ PodAccount \/ PodMesh \/ NoPodService \/ LookupId \/ LookupProducts \/ GetDevices
           \/ AddCountryCode \/ AddEstbFirmwareContext \/ FirmwareAccountId \/ FirmwareProducts
           \/ AddLogUploaderContext \/ LogUploadAccountId \/ LogUploadProducts
           \/ GetPartnerFromAccountServiceByHostMac
  BY <1>6, <1>7
     DEF AddFeatureControlContext, FetchProducts, AddContextForPods, AddFeatureControlContextFromAccountService,
         ChooseConnector, GetAccountInfoId, GetAccountInfoProducts, PodTable, PodBySerialNumber, PodByEcmMac,
         AskForPod, PodAccount, PodMesh, NoPodService, LookupId, LookupProducts, GetDevices, AddCountryCode,
         AddEstbFirmwareContext, DefaultToken, FirmwareAccountId, FirmwareProducts, AddLogUploaderContext,
         LogUploadAccountId, LogUploadProducts, AskAccountId, AskProducts,
         GetPartnerFromAccountServiceByHostMac
<1>8. QED
  BY <1>2, <1>3, <1>4, <1>5, <1>7 DEF CtxNext

\* Attributes are written for the account in the context, and after that the account
\* of a device that did not name one does not change any more.
LEMMA AttributesStep == CtxInv /\ [CtxNext]_ctxVars => AttributesOfAccount' /\ AttributesLate'
<1> SUFFICES ASSUME CtxInv, [CtxNext]_ctxVars PROVE AttributesOfAccount' /\ AttributesLate'
  OBVIOUS
<1>1. req' = req
  BY DEF CtxNext, ctxVars, AddFeatureControlContext, FetchProducts, AddContextForPods,
         AddFeatureControlContextFromAccountService, ChooseConnector, GetAccountInfoId,
         GetAccountInfoProducts, PodTable, PodBySerialNumber, PodByEcmMac, AskForPod, PodAccount, PodMesh,
         NoPodService, LookupId, LookupProducts, GetDevices, AddCountryCode, AddGroupServiceContext,
         AddEstbFirmwareContext, DefaultToken, FirmwareAccountId, FirmwareProducts, AddLogUploaderContext,
         LogUploadAccountId, LogUploadProducts, AskAccountId, AskProducts,
         GetPartnerFromAccountServiceByHostMac, AddContextFromTaggingService, AddGroupServiceFTContext
<1> SUFFICES ASSUME req.account \notin Accounts PROVE AttributesOfAccount' /\ AttributesLate'
  BY <1>1 DEF AttributesOfAccount, AttributesLate
<1> USE CtxFacts
<1>2. /\ {ctx.country, ctx.tz, ctx.attrs} \subseteq {Empty, ctx.account}
      /\ pc \notin {"partner", "tagging", "ft", "done"} =>
           ctx.country = Empty /\ ctx.tz = Empty /\ ctx.attrs = Empty
  BY DEF CtxInv, AttributesOfAccount, AttributesLate
<1> DEFINE Late == pc \in {"partner", "tagging", "ft", "done"}
           Same == ctx'.country = ctx.country /\ ctx'.tz = ctx.tz /\ ctx'.attrs = ctx.attrs
<1>3. ASSUME Same, ctx'.account = ctx.account \/ ~Late, Late' \/ ~Late
      PROVE  AttributesOfAccount' /\ AttributesLate'
  BY <1>1, <1>2, <1>3 DEF AttributesOfAccount, AttributesLate
<1>4. ASSUME NEW ans \in ProductAnswers, ans # Error, ctx.account \in AskedAccounts, Late',
             \E h \in Hashes : ctx' = [Absorb(ctx, ans) EXCEPT !.hash = h]
      PROVE  AttributesOfAccount' /\ AttributesLate'
  <2>1. /\ Absorb(ctx, ans) \in CtxType /\ Absorb(ctx, ans).account = ctx.account
        /\ {Absorb(ctx, ans).country, Absorb(ctx, ans).tz, Absorb(ctx, ans).attrs}
             \subseteq {ctx.country, ctx.tz, ctx.attrs, ctx.account}
    BY <1>4, AbsorbKeeps
  <2>2. ctx'.account = ctx.account
        /\ {ctx'.country, ctx'.tz, ctx'.attrs} \subseteq {ctx.country, ctx.tz, ctx.attrs, ctx.account}
    BY <1>4, <2>1 DEF CtxType
  <2>3. QED BY <1>2, <1>4, <2>2 DEF AttributesOfAccount, AttributesLate
<1>5. CASE UNCHANGED ctxVars
  BY <1>3, <1>5 DEF ctxVars
<1>6. CASE FetchProducts
  <2>1. ctx.account = req.account /\ req.account \in Ids
    BY <1>6 DEF FetchProducts, CtxInv, Answered, RequestType
  <2>2. ctx' = ctx
    BY <1>6, <2>1 DEF FetchProducts, Known, Ids
  <2>3. QED BY <1>3, <1>6, <2>2 DEF FetchProducts
<1>7. CASE GetAccountInfoId \/ LookupId \/ FirmwareAccountId \/ LogUploadAccountId
  <2>1. Same
    BY <1>7 DEF GetAccountInfoId, LookupId, FirmwareAccountId, LogUploadAccountId, AskAccountId, CtxType
  <2>2. ~Late
    BY <1>7 DEF GetAccountInfoId, LookupId, FirmwareAccountId, LogUploadAccountId
  <2>3. QED BY <1>3, <2>1, <2>2
<1>8. CASE PodBySerialNumber \/ PodByEcmMac \/ PodMesh \/ GetDevices
  <2>1. Same
    BY <1>8 DEF PodBySerialNumber, PodByEcmMac, AskForPod, PodMesh, GetDevices, CtxType
  <2>2. ~Late
    BY <1>8 DEF PodBySerialNumber, PodByEcmMac, PodMesh, GetDevices
  <2>3. QED BY <1>3, <2>1, <2>2
<1>9. CASE GetAccountInfoProducts \/ LookupProducts \/ FirmwareProducts \/ LogUploadProducts
  <2>1. ctx.account \in AskedAccounts /\ ~Late
    BY <1>9 DEF GetAccountInfoProducts, LookupProducts, FirmwareProducts, LogUploadProducts, CtxInv, Answered
  <2>2. CASE ctx' = ctx
    BY <1>3, <2>1, <2>2
  <2>3. CASE ctx' # ctx
    <3>1. PICK ans \in ProductAnswers :
            /\ ans # Error /\ Late'
            /\ ctx' \in {Absorb(ctx, ans), [Absorb(ctx, ans) EXCEPT !.hash = HashOf(ctx.account)]}
      BY <1>9, <2>3 DEF GetAccountInfoProducts, LookupProducts, FirmwareProducts, LogUploadProducts, AskProducts
    <3>2. Absorb(ctx, ans) = [Absorb(ctx, ans) EXCEPT !.hash = ctx.hash]
          /\ ctx.hash \in Hashes /\ HashOf(ctx.account) \in Hashes
      BY <2>1, <3>1, AbsorbKeeps DEF CtxType, Hashes
    <3>3. QED BY <1>4, <2>1, <3>1, <3>2
  <2>4. QED BY <2>2, <2>3
<1>10. CASE AddCountryCode
  BY <1>1, <1>2, <1>10 DEF AddCountryCode, CtxType, AttributesOfAccount, AttributesLate
<1>11. CASE GetPartnerFromAccountServiceByHostMac
  <2>1. Same /\ ctx'.account = ctx.account
    BY <1>11 DEF GetPartnerFromAccountServiceByHostMac, CtxType
  <2>2. QED BY <1>3, <1>11, <2>1 DEF GetPartnerFromAccountServiceByHostMac
<1>12. CASE \/ AddFeatureControlContext \/ AddContextForPods \/ AddFeatureControlContextFromAccountService
            \/ PodTable \/ PodAccount \/ NoPodService \/ AddGroupServiceContext \/ AddEstbFirmwareContext
            \/ AddLogUploaderContext \/ AddContextFromTaggingService \/ AddGroupServiceFTContext
  <2>1. ctx' = ctx
    BY <1>12 DEF AddFeatureControlContext, AddContextForPods, AddFeatureControlContextFromAccountService,
                 ChooseConnector, PodTable, PodAccount, NoPodService, AddGroupServiceContext,
                 AddEstbFirmwareContext, AddLogUploaderContext, DefaultToken, AddContextFromTaggingService,
                 AddGroupServiceFTContext
  <2>2. Late' \/ ~Late
    BY <1>12 DEF AddFeatureControlContext, AddContextForPods, AddFeatureControlContextFromAccountService,
                 ChooseConnector, PodTable, PodAccount, NoPodService, AddGroupServiceContext,
                 AddEstbFirmwareContext, AddLogUploaderContext, DefaultToken, AddContextFromTaggingService,
                 AddGroupServiceFTContext
  <2>3. QED BY <1>3, <2>1, <2>2
<1>13. QED
  BY <1>5, <1>6, <1>7, <1>8, <1>9, <1>10, <1>11, <1>12 DEF CtxNext

\* The hash is written together with the account, or after it; only when the products
\* of an account that was found are not known may the two part.
LEMMA HashStep == CtxInv /\ [CtxNext]_ctxVars => HashFollows'
<1> SUFFICES ASSUME CtxInv, [CtxNext]_ctxVars PROVE HashFollows'
  OBVIOUS
<1>1. req' = req /\ failed \subseteq failed'
  BY DEF CtxNext, ctxVars, AddFeatureControlContext, FetchProducts, AddContextForPods,
         AddFeatureControlContextFromAccountService, ChooseConnector, GetAccountInfoId,
         GetAccountInfoProducts, PodTable, PodBySerialNumber, PodByEcmMac, AskForPod, PodAccount, PodMesh,
         NoPodService, LookupId, LookupProducts, GetDevices, AddCountryCode, AddGroupServiceContext,
         AddEstbFirmwareContext, DefaultToken, FirmwareAccountId, FirmwareProducts, AddLogUploaderContext,
         LogUploadAccountId, LogUploadProducts, AskAccountId, AskProducts, Failing,
         GetPartnerFromAccountServiceByHostMac, AddContextFromTaggingService, AddGroupServiceFTContext
<1> SUFFICES ASSUME req.account = Unknown, "products" \notin failed' PROVE HashFollows'
  BY <1>1 DEF HashFollows
<1> USE CtxFacts
<1> DEFINE Before == {"start", "products", "pods", "lookup", "podId", "lookupId", "devices"}
           Sent == Before \cup {"lookupProducts"}
<1>2. /\ pc \in Before => ctx.account = Unknown
      /\ pc \in Sent => ctx.hash = req.hash
      /\ ctx.hash = req.hash \/ (ctx.hash = HashOf(ctx.account) /\ ctx.account # Unknown)
  BY <1>1 DEF CtxInv, HashFollows
<1>3. ASSUME /\ pc' \in Before => ctx'.account = Unknown
             /\ pc' \in Sent => ctx'.hash = req.hash
             /\ ctx'.hash = req.hash \/ (ctx'.hash = HashOf(ctx'.account) /\ ctx'.account # Unknown)
      PROVE  HashFollows'
  BY <1>1, <1>3 DEF HashFollows
<1>4. CASE UNCHANGED ctxVars
  BY <1>2, <1>3, <1>4 DEF ctxVars
<1>5. CASE FetchProducts
  <2>1. ctx' = ctx
    BY <1>2, <1>5 DEF FetchProducts, Known
  <2>2. QED BY <1>2, <1>3, <1>5, <2>1 DEF FetchProducts, NextLookup
<1>6. CASE GetAccountInfoId
  <2>1. PICK ans \in AccountIdAnswers :
          /\ ctx' = IF ans = Error THEN ctx ELSE [ctx EXCEPT !.account = ans, !.hash = HashOf(ans)]
          /\ pc' = IF ans = Error THEN "podDevices" ELSE "podProducts"
    BY <1>6 DEF GetAccountInfoId
  <2>2. ans # Error => ans # Unknown
    BY <2>1, ConstantsOK DEF AccountIdAnswers
  <2>3. QED BY <1>2, <1>3, <2>1, <2>2 DEF CtxType
<1>7. CASE LookupId
  <2>1. pc = "lookupId" /\ ctx.account = Unknown /\ ctx.hash = req.hash /\ ctx'.hash = ctx.hash
    BY <1>2, <1>7 DEF LookupId, CtxType
  <2>2. PICK ans \in IdAnswers :
          /\ ctx' = IF ans \in Accounts THEN [ctx EXCEPT !.account = ans] ELSE ctx
          /\ pc' = IF ans # Error /\ Known(ctx'.account) THEN "lookupProducts" ELSE "devices"
    BY <1>7 DEF LookupId
  <2>3. pc' = "devices" => ctx'.account = Unknown
    BY <2>1, <2>2, ConstantsOK DEF CtxType, Known
  <2>4. QED BY <1>3, <2>1, <2>2, <2>3
<1>8. CASE LookupProducts \/ GetAccountInfoProducts \/ FirmwareProducts \/ LogUploadProducts
  <2>1. PICK ans \in ProductAnswers :
          /\ ans # Error
          /\ ctx' \in {Absorb(ctx, ans), [Absorb(ctx, ans) EXCEPT !.hash = HashOf(ctx.account)]}
          /\ pc' \in {"tagging", "partner"}
    BY <1>8 DEF LookupProducts, GetAccountInfoProducts, FirmwareProducts, LogUploadProducts, AskProducts, Failing
  <2>2. ctx.account \in AskedAccounts
    BY <1>8 DEF LookupProducts, GetAccountInfoProducts, FirmwareProducts, LogUploadProducts, CtxInv, Answered
  <2>3. /\ Absorb(ctx, ans) \in CtxType /\ Absorb(ctx, ans).account = ctx.account
        /\ Absorb(ctx, ans).hash = ctx.hash
    BY <2>1, <2>2, AbsorbKeeps
  <2>4. ctx'.account = ctx.account /\ ctx'.hash \in {ctx.hash, HashOf(ctx.account)}
    BY <2>1, <2>3 DEF CtxType
  <2>5. QED BY <1>2, <1>3, <2>1, <2>2, <2>4
<1>9. CASE PodBySerialNumber \/ PodByEcmMac \/ PodMesh
  <2>1. ctx'.hash = ctx.hash /\ (ctx'.account = ctx.account \/ ctx.account = Unknown)
    BY <1>9 DEF PodBySerialNumber, PodByEcmMac, AskForPod, PodMesh, CtxType
  <2>2. pc' \in {"tagging", "podAccount", "panic"}
    BY <1>9 DEF PodBySerialNumber, PodByEcmMac, AskForPod, PodMesh
  <2>3. QED BY <1>2, <1>3, <2>1, <2>2
<1>10. CASE GetDevices
  <2>1. ctx.account = Unknown /\ ctx.hash = req.hash /\ pc' \in {"tagging", "country"}
    BY <1>2, <1>10 DEF GetDevices
  <2>2. CASE ctx' = ctx
    BY <1>3, <2>1, <2>2
  <2>3. CASE ctx' # ctx
    <3>1. PICK ans \in DeviceAnswers \cup {NoAnswer} :
            /\ ans # Error
            /\ ctx' = [ctx EXCEPT
                         !.partner = IF ans.partner = Empty THEN @ ELSE ans.partner,
                         !.account = IF @ = Unknown /\ ans.account # Empty THEN ans.account ELSE @,
                         !.hash = IF @ = Unknown /\ ans.account # Empty THEN HashOf(ans.account) ELSE @]
      BY <1>10, <2>3 DEF GetDevices
    <3>2. ans.account \in AskedAccounts
      BY <3>1 DEF DeviceAnswers, NoAnswer, AskedAccounts
    <3>3. ctx'.hash = ctx.hash \/ (ctx'.hash = HashOf(ans.account) /\ ctx'.account = ans.account)
      BY <2>1, <3>1 DEF CtxType
    <3>4. QED BY <1>3, <2>1, <3>2, <3>3
  <2>4. QED BY <2>2, <2>3
<1>11. CASE AddCountryCode \/ GetPartnerFromAccountServiceByHostMac
  <2>1. ctx'.account = ctx.account /\ ctx'.hash = ctx.hash /\ pc' = "tagging"
    BY <1>11 DEF AddCountryCode, GetPartnerFromAccountServiceByHostMac, CtxType
  <2>2. QED BY <1>2, <1>3, <2>1
<1>12. CASE FirmwareAccountId \/ LogUploadAccountId
  <2>1. PICK ans \in AccountIdAnswers \cup {None} :
          ctx' = IF ans \in {Error, None} THEN ctx ELSE [ctx EXCEPT !.account = ans, !.hash = HashOf(ans)]
    BY <1>12 DEF FirmwareAccountId, LogUploadAccountId, AskAccountId, IdAnswers
  <2>2. ans \notin {Error, None} => ans # Unknown
    BY <2>1, ConstantsOK DEF AccountIdAnswers
  <2>3. pc' \in {"xacProducts", "partner"}
    BY <1>12 DEF FirmwareAccountId, LogUploadAccountId, AskAccountId
  <2>4. QED BY <1>2, <1>3, <2>1, <2>2, <2>3 DEF CtxType
<1>13. CASE AddFeatureControlContext \/ AddContextForPods \/ AddFeatureControlContextFromAccountService
  BY <1>2, <1>3, <1>13 DEF AddFeatureControlContext, AddContextForPods,
                           AddFeatureControlContextFromAccountService, ChooseConnector
<1>14. CASE PodTable \/ PodAccount \/ NoPodService
  BY <1>2, <1>3, <1>14 DEF PodTable, PodAccount, NoPodService
<1>15. CASE \/ AddGroupServiceContext \/ AddEstbFirmwareContext \/ AddLogUploaderContext
            \/ AddContextFromTaggingService \/ AddGroupServiceFTContext
  BY <1>2, <1>3, <1>15 DEF AddGroupServiceContext, AddEstbFirmwareContext, AddLogUploaderContext, DefaultToken,
                           AddContextFromTaggingService, AddGroupServiceFTContext
<1>16. QED
  BY <1>4, <1>5, <1>6, <1>7, <1>8, <1>9, <1>10, <1>11, <1>12, <1>13, <1>14, <1>15 DEF CtxNext

LEMMA CtxInvariant == CtxSpec => []CtxInv
<1>1. CtxInv /\ [CtxNext]_ctxVars => CtxInv'
  BY CtxTypeStep, RouteStep, TagsStep, AttributesStep, HashStep DEF CtxInv
<1>2. QED BY <1>1, CtxInitInv, PTL DEF CtxSpec

(* The finished context of a request describes one account: attributes,    *)
(* hash and tags belong to the account and the partner it names, whatever  *)
(* the services answer, for any accounts, partners and configurations.     *)
THEOREM ContextIsOfOneAccount == CtxSpec => []ContextOfOneAccount
<1>1. CtxInv => ContextOfOneAccount
  BY DEF CtxInv, ContextOfOneAccount, HashFollows, HashOfAccount, TagsLate, TagsOfIdentity
<1>2. QED BY <1>1, CtxInvariant, PTL

(* An account service is called with the token of its own route, although  *)
(* the partner of the context may change between token and call.           *)
THEOREM TokensFitConnectors == CtxSpec => []TokenFitsConnector
<1>1. CtxInv => TokenFitsConnector
  BY DEF CtxInv
<1>2. QED BY <1>1, CtxInvariant, PTL
=============================================================================
