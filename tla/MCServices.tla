------------------------------ MODULE MCServices ------------------------------
(***************************************************************************)
(* What a request needs of the remote services, for TLC: how its context   *)
(* is completed (RequestContext), and the token manager and HTTP client    *)
(* below it (ServiceCalls).  The two share no state: part says which of    *)
(* them a behaviour is about.                                              *)
(***************************************************************************)
EXTENDS RequestContext, ServiceCalls

CONSTANTS A1, A2, P, R

MCConfs ==
  {[xac |-> x, accountService |-> TRUE, macAccount |-> v[1], deviceDB |-> v[2], deviceService |-> TRUE,
    routing |-> TRUE, partnerConnector |-> v[3], country |-> {P}, groups |-> x, valid |-> {P},
    tagging |-> TRUE, ft |-> {"account", "mac"}] :
     x \in BOOLEAN,
     v \in {<<TRUE, TRUE, TRUE>>, <<FALSE, TRUE, TRUE>>, <<FALSE, FALSE, TRUE>>, <<TRUE, TRUE, FALSE>>}}

Device(serial) ==
  {[api |-> a, account |-> ac, partner |-> p, hash |-> h, mgmt |-> m, gr |-> FALSE, estb |-> TRUE,
    ecm |-> FALSE, serial |-> serial, macSerial |-> serial] :
     a \in {"rfc", "firmware", "dcm"}, ac \in {A1, Unknown, Empty}, p \in {P, R, Unknown},
     h \in {Unknown, HashOf(A1)}, m \in {"", "xpc"}}

\* Only feature control looks at the account management and at a known hash.
MCRequests ==
  {r \in Device(TRUE) : r.api # "rfc" => r.mgmt = "" /\ r.hash = Unknown}
  \cup {r \in Device(FALSE) : r.account = Unknown /\ r.mgmt = "xpc" /\ r.api = "rfc"}

VARIABLE part

mcVars == <<part, ctxVars, svcVars>>

\* The half that a behaviour is not about stands at one of its initial states.
Init ==
  /\ CtxInit /\ SvcInit
  /\ \/ part = "context"
     \/ part = "calls" /\ conf = (CHOOSE c \in Confs : TRUE) /\ req = (CHOOSE r \in Requests : TRUE)

Next ==
  \/ part = "context" /\ CtxNext /\ UNCHANGED <<part, svcVars>>
  \/ part = "calls" /\ SvcNext /\ UNCHANGED <<part, ctxVars>>

\* SvcFairness, in the behaviours that are about the calls.
OfCalls(A) == part = "calls" /\ A

Spec ==
  /\ Init /\ [][Next]_mcVars
  /\ SF_svcVars(OfCalls(Tick))
  /\ \A c \in Callers :
       /\ WF_svcVars(OfCalls(FailAndRetry(c))) /\ WF_svcVars(OfCalls(Retry(c)))
       /\ WF_svcVars(OfCalls(SetLocalSatToken(c))) /\ WF_svcVars(OfCalls(SetLocalPartnerSatToken(c)))
       /\ WF_svcVars(OfCalls(HandOut(c))) /\ WF_svcVars(OfCalls(NextRequest(c)))
=============================================================================
