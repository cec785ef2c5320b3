----------------------------- MODULE ServiceCalls -----------------------------
(***************************************************************************)
(* Calls to the SAT service: the HTTP client with its retries              *)
(* (DoWithRetries), the connector, and the token manager that keeps the    *)
(* token of the default route in an unguarded pointer and those of the     *)
(* partners in a map under a mutex.  Requests run concurrently; several    *)
(* may find a token expired and renew it at the same time.                 *)
(*                                                                         *)
(* Time is counted in units of the read timeout.  A step that needs no     *)
(* network is taken before time goes on: scheduling delays count as part   *)
(* of the timeout.                                                         *)
(***************************************************************************)
EXTENDS Naturals, FiniteSets

CONSTANTS Callers,       \* concurrent requests
          Default,       \* the slot stm.SatToken
          PartnerKeys,   \* the keys of partnerSatTokens
          Retries,       \* HttpClient.retries
          Timeout, Wait, \* read timeout, pause before a retry
          RefreshAfter,  \* refresh frequency minus buffer, GetTokenExpiryTime
          TTL,           \* for how long the service accepts a token
          MaxTime,       \* bound on time
          NoToken        \* the zero SatToken

Slots == {Default} \cup PartnerKeys

TokenType == [issued : 0..MaxTime, expiry : Nat, slot : Slots]

\* A token outlives its refresh time by as long as a call takes to store it.
ASSUME ServiceConstants ==
  /\ Retries \in Nat /\ Timeout \in Nat \ {0} /\ Wait \in Nat /\ MaxTime \in Nat
  /\ RefreshAfter \in Nat /\ TTL \in Nat
  /\ TTL >= RefreshAfter + Timeout
  /\ Default \notin PartnerKeys /\ NoToken \notin TokenType

VARIABLES now,
          satToken,     \* slot -> NoToken or [issued, expiry, slot]
          at,        \* caller -> where it is
          slot,      \* caller -> the slot it asks for
          attempt,   \* caller -> i of DoWithRetries
          since,     \* caller -> when the attempt or the pause began
          began,     \* caller -> when its call to DoWithRetries began
          issued,    \* caller -> when the service made the token of its answer
          seen,      \* caller -> the token it judged
          given      \* caller -> the token handed out, or an error

svcVars == <<now, satToken, at, slot, attempt, since, began, issued, seen, given>>

Never == MaxTime + 1

SvcInit ==
  /\ now = 0
  /\ satToken = [s \in Slots |-> NoToken]
  /\ at = [c \in Callers |-> "idle"]
  /\ slot = [c \in Callers |-> Default]
  /\ attempt = [c \in Callers |-> 0]
  /\ since = [c \in Callers |-> 0]
  /\ began = [c \in Callers |-> 0]
  /\ issued = [c \in Callers |-> Never]
  /\ seen = [c \in Callers |-> NoToken]
  /\ given = [c \in Callers |-> NoToken]

-----------------------------------------------------------------------------
(* The token manager.                                                      *)

MutNoExpiry(t) == t = NoToken

IsTokenExpired(t) == t = NoToken \/ now > t.expiry

LongestCall == (Retries + 1) * Timeout + Retries * Wait

\* The token of a slot is judged; an expired one is renewed.
LookAt(c, s) ==
  /\ at[c] = "idle" /\ (IsTokenExpired(satToken[s]) => now + LongestCall <= MaxTime)
  /\ slot' = [slot EXCEPT ![c] = s]
  /\ seen' = [seen EXCEPT ![c] = satToken[s]]
  /\ IF IsTokenExpired(satToken[s])
       THEN /\ at' = [at EXCEPT ![c] = "calling"]
            /\ attempt' = [attempt EXCEPT ![c] = 0]
            /\ since' = [since EXCEPT ![c] = now] /\ began' = [began EXCEPT ![c] = now]
       ELSE at' = [at EXCEPT ![c] = "read"] /\ UNCHANGED <<attempt, since, began>>
  /\ UNCHANGED <<now, satToken, issued, given>>

GetLocalSatToken(c) == LookAt(c, Default)
GetLocalPartnerSatToken(c) == \E p \in PartnerKeys : LookAt(c, p)

\* GetTokenExpiryTime: the expiry ignores ExpiresIn.
GetTokenExpiryTime == now + RefreshAfter

Store(c) ==
  /\ satToken' = [satToken EXCEPT ![slot[c]] =
                    [issued |-> issued[c], expiry |-> GetTokenExpiryTime, slot |-> slot[c]]]
  /\ at' = [at EXCEPT ![c] = "read"]
  /\ UNCHANGED <<now, slot, attempt, since, began, issued, seen, given>>

SetLocalSatToken(c) == at[c] = "store" /\ slot[c] = Default /\ Store(c)
SetLocalPartnerSatToken(c) == at[c] = "store" /\ slot[c] # Default /\ Store(c)

\* The slot is read once more; for a partner the token judged before is handed out.
HandOutAs(c, t) ==
  /\ at[c] = "read"
  /\ given' = [given EXCEPT ![c] = t]
  /\ at' = [at EXCEPT ![c] = "done"]
  /\ UNCHANGED <<now, satToken, slot, attempt, since, began, issued, seen>>

MutJudgedToken(c) == HandOutAs(c, seen[c])

HandOut(c) ==
  HandOutAs(c, IF slot[c] # Default /\ issued[c] = Never THEN seen[c] ELSE satToken[slot[c]])

-----------------------------------------------------------------------------
(* The HTTP client.  Do says whether a retry is useful: it is after a      *)
(* transport error, a timeout, or a status of 400 and more except 400,     *)
(* 403, 404 and 520.                                                       *)

\* External: the service makes a token for the attempt, whose answer may yet be lost.
Issue(c) ==
  /\ at[c] = "calling" /\ issued[c] = Never
  /\ issued' = [issued EXCEPT ![c] = now]
  /\ UNCHANGED <<now, satToken, at, slot, attempt, since, began, seen, given>>

Succeed(c) ==
  /\ at[c] = "calling" /\ issued[c] # Never
  /\ at' = [at EXCEPT ![c] = "store"]
  /\ UNCHANGED <<now, satToken, slot, attempt, since, began, issued, seen, given>>

\* No retry: such a status, a body that cannot be read, or an answer without a token.
FailForGood(c) ==
  /\ at[c] = "calling"
  /\ at' = [at EXCEPT ![c] = "done"] /\ issued' = [issued EXCEPT ![c] = Never]
  /\ UNCHANGED <<now, satToken, slot, attempt, since, began, seen, given>>

FailAndRetry(c) ==
  /\ at[c] = "calling"
  /\ at' = [at EXCEPT ![c] = IF attempt[c] = Retries THEN "done" ELSE "pause"]
  /\ since' = [since EXCEPT ![c] = now]
  /\ issued' = [issued EXCEPT ![c] = Never]
  /\ UNCHANGED <<now, satToken, slot, attempt, began, seen, given>>

MutSameAttempt(c) ==
  /\ at[c] = "pause" /\ now = since[c] + Wait
  /\ at' = [at EXCEPT ![c] = "calling"]
  /\ since' = [since EXCEPT ![c] = now]
  /\ UNCHANGED <<now, satToken, slot, attempt, began, issued, seen, given>>

Retry(c) ==
  /\ at[c] = "pause" /\ now = since[c] + Wait
  /\ at' = [at EXCEPT ![c] = "calling"]
  /\ attempt' = [attempt EXCEPT ![c] = @ + 1]
  /\ since' = [since EXCEPT ![c] = now]
  /\ UNCHANGED <<now, satToken, slot, began, issued, seen, given>>

\* The request is over, and its goroutine serves another one.
NextRequest(c) ==
  /\ at[c] = "done"
  /\ at' = [at EXCEPT ![c] = "idle"] /\ slot' = [slot EXCEPT ![c] = Default]
  /\ attempt' = [attempt EXCEPT ![c] = 0] /\ since' = [since EXCEPT ![c] = 0]
  /\ began' = [began EXCEPT ![c] = 0] /\ issued' = [issued EXCEPT ![c] = Never]
  /\ seen' = [seen EXCEPT ![c] = NoToken] /\ given' = [given EXCEPT ![c] = NoToken]
  /\ UNCHANGED <<now, satToken>>

MayWait(c) ==
  \/ at[c] \in {"idle", "done"}
  \/ at[c] = "calling" /\ now < since[c] + Timeout
  \/ at[c] = "pause" /\ now < since[c] + Wait

Tick ==
  /\ now < MaxTime /\ \A c \in Callers : MayWait(c)
  /\ now' = now + 1
  /\ UNCHANGED <<satToken, at, slot, attempt, since, began, issued, seen, given>>

CallStep(c) ==
  GetLocalSatToken(c) \/ GetLocalPartnerSatToken(c) \/ SetLocalSatToken(c) \/ SetLocalPartnerSatToken(c)
  \/ HandOut(c) \/ Issue(c) \/ Succeed(c) \/ FailForGood(c)
  \/ FailAndRetry(c) \/ Retry(c) \/ NextRequest(c)

SvcNext == Tick \/ \E c \in Callers : CallStep(c)

\* A call goes on: net/http ends every attempt by its timeout, and the sleep between
\* attempts ends; time goes on however many requests are served from the cache.
SvcFairness ==
  /\ SF_svcVars(Tick)
  /\ \A c \in Callers :
       /\ WF_svcVars(FailAndRetry(c)) /\ WF_svcVars(Retry(c))
       /\ WF_svcVars(SetLocalSatToken(c)) /\ WF_svcVars(SetLocalPartnerSatToken(c))
       /\ WF_svcVars(HandOut(c)) /\ WF_svcVars(NextRequest(c))

SvcSpec == SvcInit /\ [][SvcNext]_svcVars /\ SvcFairness

-----------------------------------------------------------------------------
(* Properties.                                                             *)

\* Tokens, slots and attempts keep their shape; DoWithRetries makes at most Retries + 1 attempts.
SvcTypeOK ==
  /\ now \in 0..MaxTime
  /\ satToken \in [Slots -> {NoToken} \cup TokenType]
  /\ at \in [Callers -> {"idle", "calling", "pause", "store", "read", "done"}]
  /\ slot \in [Callers -> Slots] /\ attempt \in [Callers -> 0..Retries]
  /\ since \in [Callers -> 0..MaxTime] /\ began \in [Callers -> 0..MaxTime]
  /\ issued \in [Callers -> 0..Never]
  /\ seen \in [Callers -> {NoToken} \cup TokenType]
  /\ given \in [Callers -> {NoToken} \cup TokenType]

(* A request that is handed a token can use it: the service still accepts  *)
(* it, although concurrent renewals overwrite each other's tokens and the  *)
(* one stored last may be the one made first.                              *)
HandedOutValid ==
  [][\A c \in Callers : (at[c] = "read" /\ at'[c] = "done") =>
       given'[c] # NoToken /\ now <= given'[c].issued + TTL]_svcVars

(* A request that found the token of its slot expired is not handed that   *)
(* token, even when it lost the race to store a new one.                   *)
NotTheExpiredOne ==
  \A c \in Callers : (at[c] = "done" /\ issued[c] # Never) => given[c] # seen[c]

(* The token handed out was made for the partner, or the default route,    *)
(* that the request asked for.                                             *)
TokenOfSlot == \A c \in Callers : given[c] # NoToken => given[c].slot = slot[c]

(* A call is over after all attempts have timed out and all pauses have    *)
(* passed: nothing else makes a request wait for the service.              *)
CallTimeBounded ==
  \A c \in Callers : at[c] \in {"calling", "pause", "store"} => now <= began[c] + LongestCall

(* Every request that calls the service comes back from it.                *)
EveryCallEnds == \A c \in Callers : at[c] = "calling" ~> at[c] \in {"read", "done"}

(* The calls of the SAT service: the right kind of token, none that the    *)
(* caller has found expired, in the time the retries allow (DoWithRetries, *)
(* GetLocalSatToken).                                                      *)
CallsSound == SvcTypeOK /\ NotTheExpiredOne /\ TokenOfSlot /\ CallTimeBounded
=============================================================================
