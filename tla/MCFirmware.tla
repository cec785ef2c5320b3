------------------------------ MODULE MCFirmware ------------------------------
(***************************************************************************)
(* Firmware requests for TLC: the evaluation of one request (FirmwareEval) *)
(* and what several leave in the logs and the metrics (FirmwareRequest).   *)
(* The two share no state: part says which of them a behaviour is about.   *)
(***************************************************************************)
EXTENDS MCFirmwareEval, MCFirmwareRequest, VersionQueries

VARIABLE part

mcVars == <<part, vars, fwVars>>

FirmwareInit ==
  /\ Init /\ FwInit
  /\ \/ part = "evaluation"
     \/ /\ part = "requests"
        /\ req = (CHOOSE r \in Requests : TRUE) /\ action = (CHOOSE a \in Actions : TRUE)
        /\ roundRobin = (CHOOSE f \in RoundRobins : TRUE)

FirmwareNext ==
  \/ part = "evaluation" /\ Next /\ UNCHANGED <<part, fwVars>>
  \/ part = "requests" /\ FwNext /\ UNCHANGED <<part, vars>>

FirmwareSpec == FirmwareInit /\ [][FirmwareNext]_mcVars
=============================================================================
