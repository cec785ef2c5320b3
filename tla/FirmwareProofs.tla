---------------------------- MODULE FirmwareProofs ----------------------------
(***************************************************************************)
(* Proofs about the evaluation of firmware requests, for all templates,    *)
(* rules, configurations and requests and whatever is deleted meanwhile    *)
(* (FirmwareEval, VersionQueries), and about firmware requests: for any    *)
(* number of servers, requests and goroutines, and any size of the ring,   *)
(* the change logs of a server are kept and a device that was given a      *)
(* security token is in the metrics (FirmwareRequest).                     *)
(***************************************************************************)
EXTENDS VersionQueries, FirmwareRequest, FiniteSetTheorems, WellFoundedInduction, TLAPS

-----------------------------------------------------------------------------
(* Operators.                                                              *)

(* A non-empty set of numbers has a smallest element, so that the first    *)
(* entry of a distribution that fits, or is not paused, is one of them.    *)
LEMMA SmallestIsMember ==
    ASSUME NEW S \in SUBSET Nat, S # {} PROVE Smallest(S) \in S
<1> DEFINE R == OpToRel(<, Nat)
<1>1. IsWellFoundedOn(R, Nat)
  BY NatLessThanWellFounded
<1>2. \A x, y \in Nat : x < y => <<x, y>> \in R
  BY DEF OpToRel
<1> HIDE DEF R
<1>3. PICK x \in S : \A y \in S : ~(<<y, x>> \in R)
  BY <1>1, WFMin
<1>4. ASSUME NEW y \in S PROVE x <= y
  <2>1. x \in Nat /\ y \in Nat
    OBVIOUS
  <2>2. ~(y < x)
    BY <1>2, <1>3, <2>1
  <2>3. QED BY <2>1, <2>2
<1>5. QED BY <1>4 DEF Smallest

ConfigIds == Configs \cup {None}

LEMMA EntryConfig ==
    ASSUME NEW a, IsAction(a), NEW S \in SUBSET (DOMAIN a.configEntries), S # {}
    PROVE  a.configEntries[Smallest(S)].configId \in ConfigIds
<1>1. S \in SUBSET Nat
  BY DEF IsAction
<1>2. Smallest(S) \in DOMAIN a.configEntries
  BY <1>1, SmallestIsMember
<1>3. ASSUME NEW E, NEW q \in Seq(E), NEW i \in DOMAIN q PROVE q[i] \in E
  OBVIOUS
<1>4. a.configEntries[Smallest(S)] \in
        [configId : ConfigIds, start : Int, end : Int, percentage : Int, isPaused : BOOLEAN]
  BY <1>2, <1>3 DEF IsAction, ConfigIds
<1>5. QED BY <1>4

LEMMA AnyPresentConfigType ==
    ASSUME NEW a, IsAction(a) PROVE ExtractAnyPresentConfig(a) \in ConfigIds
<1> DEFINE open == {i \in DOMAIN a.configEntries : ~a.configEntries[i].isPaused}
<1>1. open # {} => a.configEntries[Smallest(open)].configId \in ConfigIds
  BY EntryConfig
<1>2. a.configId \in ConfigIds
  BY DEF IsAction, ConfigIds
<1>3. QED BY <1>1, <1>2 DEF ExtractAnyPresentConfig

LEMMA MinimumConfigType ==
    ASSUME NEW a, IsAction(a) PROVE MinimumConfig(a) \in ConfigIds
<1>1. a.configId \in ConfigIds /\ a.intermediateVersion \in ConfigIds
  BY DEF IsAction, ConfigIds
<1>2. QED BY <1>1, AnyPresentConfigType DEF MinimumConfig

LEMMA DistributedConfigType ==
    ASSUME NEW a, IsAction(a) PROVE DistributedConfig(a) \in ConfigIds
<1>1. FittingEntries(a) \in SUBSET (DOMAIN a.configEntries)
  BY DEF FittingEntries
<1>2. FittingEntries(a) # {} =>
        a.configEntries[Smallest(FittingEntries(a))].configId \in ConfigIds
  BY <1>1, EntryConfig
<1>3. a.configId \in ConfigIds /\ None \in ConfigIds
  BY DEF IsAction, ConfigIds
<1>4. QED BY <1>2, <1>3 DEF DistributedConfig

(* GetBoundConfigId returns the id of a configuration or nothing.          *)
LEMMA BoundConfigType ==
    ASSUME action \in Actions, NEW r \in Rules PROVE GetBoundConfigId(r) \in ConfigIds
<1>1. IsAction(action[r])
  BY ConstantsOK
<1>2. QED
  BY <1>1, AnyPresentConfigType, MinimumConfigType, DistributedConfigType DEF GetBoundConfigId

(* PutAll keeps the keys of the first map when the second adds none.       *)
LEMMA PutAllType ==
    ASSUME NEW p \in [Keys -> Values], NEW q, DOMAIN q \subseteq Keys,
           \A k \in DOMAIN q : q[k] \in Values
    PROVE  PutAll(p, q) \in [Keys -> Values]
BY DEF PutAll

(* Properties that filters define, as long as they are ones of an answer.  *)
IsPartial(q) == DOMAIN q \subseteq Keys /\ \A k \in DOMAIN q : q[k] \in Values

LEMMA PutAllPartial ==
    ASSUME NEW p, NEW q, IsPartial(p), IsPartial(q) PROVE IsPartial(PutAll(p, q))
BY DEF PutAll, IsPartial

LEMMA ConvertPropertiesPartial ==
    ASSUME NEW t, NEW a, IsAction(a) PROVE IsPartial(ConvertProperties(t, a.properties))
BY ConstantsOK DEF ConvertProperties, IsPartial, IsAction

LEMMA MandatoryFlagPartial ==
    ASSUME IsPartial(defined) PROVE IsPartial(MandatoryFlag(defined))
<1> DEFINE flag(b) == [k \in {MANDATORY_UPDATE} |-> IF b THEN True ELSE False]
<1>1. \A b : IsPartial(flag(b))
  BY ConstantsOK DEF IsPartial
<1>2. \A b : IsPartial(PutAll(defined, flag(b)))
  BY <1>1, PutAllPartial
<1>3. QED BY <1>2 DEF MandatoryFlag

LEMMA DefinedType ==
    ASSUME NEW p \in [Keys -> Values], IsPartial(defined)
    PROVE  Defined(p) \in [Keys -> Values]
<1>1. IsPartial(MandatoryFlag(defined))
  BY MandatoryFlagPartial
<1>2. PutAll(p, MandatoryFlag(defined)) \in [Keys -> Values]
  BY <1>1, PutAllType DEF IsPartial
<1>3. QED BY <1>2, ConstantsOK DEF Defined

LEMMA DownloadLocationsType ==
    ASSUME roundRobin \in RoundRobins, NEW p \in [Keys -> Values], NEW q \in DownloadLocations(p)
    PROVE  q \in [Keys -> Values]
<1>1. p[LOCATION] \in Values /\ p[IPV6_LOCATION] \in Values
  BY ConstantsOK
<1>2. Drawn(roundRobin.locations, p[LOCATION]) \subseteq Values
  BY <1>1, ConstantsOK DEF Drawn
<1>3. Drawn(roundRobin.ipv6locations, p[IPV6_LOCATION]) \subseteq Values
  BY <1>1, ConstantsOK DEF Drawn
<1>4. roundRobin.httpLocation \in Values /\ roundRobin.httpFullUrlLocation \in Values
  BY ConstantsOK
<1>5. [p EXCEPT ![PROTOCOL] = "http"] \in [Keys -> Values]
  BY ConstantsOK
<1>6. QED BY <1>2, <1>3, <1>4, <1>5 DEF DownloadLocations

(* The orders of a finite set of rules are sequences of them.              *)
LEMMA OrdersType ==
    ASSUME NEW S \in SUBSET Rules, NEW t, NEW s \in Orders(S, t) PROVE s \in Seq(S)
<1>1. IsFiniteSet(S)
  BY ConstantsOK, FS_Subset
<1>2. Cardinality(S) \in Nat
  BY <1>1, FS_CardinalityType
<1>3. QED BY <1>2 DEF Orders

-----------------------------------------------------------------------------
(* Types.  The inputs of a request do not change.                          *)
InputsOK == req \in Requests /\ action \in Actions /\ roundRobin \in RoundRobins

TypeInv == InputsOK /\ TypeOK

LEMMA InitType == Init => TypeInv
<1> SUFFICES ASSUME Init PROVE TypeInv
  OBVIOUS
<1>1. InputsOK
  BY DEF Init, InputsOK
<1>2. props \in [Keys -> Values] /\ DOMAIN defined = {} /\ found \in Seq(Rules)
  BY ConstantsOK DEF Init
<1>3. TypeOK
  BY <1>2 DEF Init, TypeOK, Phases
<1>4. QED BY <1>1, <1>3 DEF TypeInv

LEMMA InputsStay == [Next]_vars => UNCHANGED inputs
<1> SUFFICES ASSUME [Next]_vars PROVE UNCHANGED inputs
  OBVIOUS
<1>1. QED
  BY DEF Next, vars, inputs, Start, MatchRule, NoRuleMatched, Bind, LoadNothing, Load,
         StartFilters, MatchFilters, AllFiltersMatched, ApplyFilter, ApplyPanics, Merge,
         MergePanics, MatchBlocking, NothingBlocks, CheckForDRIState, Delete

(* A rule that Matching returns is one of the rules of the template.       *)
LEMMA MatchingRules ==
    ASSUME NEW t, rules \subseteq Rules
    PROVE  /\ Matching(t) \subseteq Rules
           /\ \A r \in Matching(t) : Type[r] = t /\ t \notin Bypassed(t) /\ r \in req.matches
BY DEF Matching

LEMMA NextType == TypeInv /\ [Next]_vars => TypeInv'
<1> SUFFICES ASSUME TypeInv, [Next]_vars PROVE TypeInv'
  OBVIOUS
<1>0. InputsOK'
  BY InputsStay DEF TypeInv, InputsOK, inputs
<1> SUFFICES TypeOK'
  BY <1>0 DEF TypeInv
<1> USE DEF TypeInv, TypeOK
<1>s. matched # <<>> => matched[1] \in Rules /\ matched = <<matched[1]>>
  OBVIOUS
<1>1. CASE Start
  BY <1>1 DEF Start, OfKind, Phases, inputs, tables
<1>2. ASSUME NEW t \in Templates, MatchRule(t) PROVE TypeOK'
  <2>1. CASE matched' = matched /\ pc' = pc
    BY <1>2, <2>1 DEF MatchRule, Phases, inputs, tables
  <2>2. ASSUME NEW r \in FirstOf(Matching(t), t), matched' = <<r>>, pc' = "bind" PROVE TypeOK'
    <3>1. r \in Rules
      BY MatchingRules DEF FirstOf
    <3>2. QED BY <1>2, <2>2, <3>1 DEF MatchRule, Phases, inputs, tables
  <2>3. QED BY <1>2, <2>1, <2>2 DEF MatchRule
<1>3. CASE NoRuleMatched
  BY <1>3 DEF NoRuleMatched, Phases, inputs, tables
<1>4. CASE Bind
  <2>1. matched[1] \in Rules
    BY <1>4, <1>s DEF Bind
  <2>2. bound' \in Configs \cup {None}
    BY <1>4, <2>1, BoundConfigType DEF Bind, InputsOK, ConfigIds
  <2>3. QED BY <1>4, <2>2 DEF Bind, Phases, inputs, tables
<1>5. CASE LoadNothing
  BY <1>5 DEF LoadNothing, Phases, inputs, tables
<1>6. CASE Load
  <2>1. bound \in configs => Properties[bound] \in [Keys -> Values]
    BY ConstantsOK
  <2>2. QED BY <1>6, <2>1, ConstantsOK DEF Load, Phases, inputs, tables
<1>7. CASE StartFilters
  <2>1. props' \in [Keys -> Values]
    BY <1>7, DownloadLocationsType DEF StartFilters, InputsOK
  <2>2. QED BY <1>7, <2>1 DEF StartFilters, OfKind, Phases, inputs, tables
<1>8. ASSUME NEW t \in Templates, MatchFilters(t) PROVE TypeOK'
  <2>1. PICK s \in Orders(Matching(t), t) : found' = found \o s
    BY <1>8 DEF MatchFilters
  <2>2. s \in Seq(Rules)
    <3>1. Matching(t) \subseteq Rules
      BY MatchingRules
    <3>2. s \in Seq(Matching(t))
      BY <3>1, OrdersType
    <3>3. QED BY <3>1, <3>2
  <2>3. found' \in Seq(Rules)
    BY <2>1, <2>2
  <2>4. QED BY <1>8, <2>3 DEF MatchFilters, Phases, inputs, tables
<1>9. CASE AllFiltersMatched
  BY <1>9 DEF AllFiltersMatched, Phases, inputs, tables
<1>10. CASE ApplyFilter
  <2> DEFINE r == Head(found)
             a == action[r]
             q == ConvertProperties(Type[r], a.properties)
             reboot == [k \in {REBOOT_IMMEDIATELY} |-> True]
  <2>1. r \in Rules /\ Tail(found) \in Seq(Rules)
    BY <1>10 DEF ApplyFilter
  <2>2. IsAction(a)
    BY <2>1, ConstantsOK DEF InputsOK
  <2>3. IsPartial(defined)
    BY DEF IsPartial
  <2>4. IsPartial(PutAll(defined, q))
    BY <2>2, <2>3, PutAllPartial, ConvertPropertiesPartial
  <2>5. IsPartial(reboot)
    BY ConstantsOK DEF IsPartial
  <2>6. IsPartial(PutAll(defined, reboot))
    BY <2>3, <2>5, PutAllPartial
  <2>7. defined' \in {defined, PutAll(defined, q), PutAll(defined, reboot)}
    BY <1>10 DEF ApplyFilter
  <2>8. IsPartial(defined')
    BY <2>3, <2>4, <2>6, <2>7
  <2>9. DOMAIN defined' \subseteq Keys /\ \A k \in DOMAIN defined' : defined'[k] \in Values
    BY <2>8 DEF IsPartial
  <2>10. applied' \in {applied, applied \cup {r}} /\ activation' \in BOOLEAN
    BY <1>10 DEF ApplyFilter
  <2>11. QED
    BY <1>10, <2>1, <2>9, <2>10 DEF ApplyFilter, Phases, inputs, tables
<1>11. CASE ApplyPanics
  BY <1>11 DEF ApplyPanics, Phases, inputs, tables
<1>12. CASE Merge
  <2> DEFINE p == Defined(props)
             draw == Drawn(roundRobin.ipv6locations, p[IPV6_LOCATION])
  <2>1. p \in [Keys -> Values]
    BY DefinedType DEF IsPartial
  <2>2. draw \subseteq Values
    BY <2>1, ConstantsOK DEF Drawn, InputsOK
  <2> HIDE DEF p, draw
  <2>3. \A b \in draw : [p EXCEPT ![IPV6_LOCATION] = b] \in [Keys -> Values]
    BY <2>1, <2>2
  <2>4. props' \in {p} \cup {[p EXCEPT ![IPV6_LOCATION] = b] : b \in draw}
    BY <1>12 DEF Merge, p, draw
  <2>5. props' \in [Keys -> Values]
    BY <2>1, <2>3, <2>4
  <2>6. QED BY <1>12, <2>5 DEF Merge, OfKind, Phases, inputs, tables
<1>13. CASE MergePanics
  BY <1>13 DEF MergePanics, Phases, inputs, tables
<1>14. ASSUME NEW t \in Templates, MatchBlocking(t) PROVE TypeOK'
  <2>1. applied' \subseteq Rules /\ pc' \in {"block", "dri"} /\ blocked' \in BOOLEAN
    BY <1>14, MatchingRules DEF MatchBlocking, FirstOf
  <2>2. QED BY <1>14, <2>1 DEF MatchBlocking, Phases, inputs, tables
<1>15. CASE NothingBlocks
  BY <1>15 DEF NothingBlocks, Phases, inputs, tables
<1>16. CASE CheckForDRIState
  <2>1. props' \in [Keys -> Values] /\ blocked' \in BOOLEAN
    BY <1>16, ConstantsOK DEF CheckForDRIState
  <2>2. QED BY <1>16, <2>1 DEF CheckForDRIState, Phases, inputs, tables
<1>17. ASSUME NEW x \in Deletable, Delete(x) PROVE TypeOK'
  BY <1>17 DEF Delete, inputs, tables
<1>18. CASE UNCHANGED vars
  BY <1>18 DEF vars, inputs, tables
<1>19. QED
  BY <1>1, <1>2, <1>3, <1>4, <1>5, <1>6, <1>7, <1>8, <1>9, <1>10, <1>11, <1>12, <1>13,
     <1>14, <1>15, <1>16, <1>17, <1>18 DEF Next

(* Everything Eval keeps has its type, a rule is matched before it is      *)
(* bound, and the filters run only on a configuration that has been read,  *)
(* whatever is deleted in between.                                         *)
THEOREM EvalTypeCorrect == Spec => []TypeOK
<1>1. Init => TypeInv
  BY InitType
<1>2. TypeInv /\ [Next]_vars => TypeInv'
  BY NextType
<1>3. TypeInv => TypeOK
  BY DEF TypeInv
<1>4. QED BY <1>1, <1>2, <1>3, PTL DEF Spec

-----------------------------------------------------------------------------
(* What is still empty in which phase, and the templates being visited.    *)
PhaseOK ==
    /\ pc \in {"start", "rules"} => matched = <<>>
    /\ pc \in {"start", "rules", "bind", "load"} => config = None /\ rules = Rules
    /\ pc \in {"start", "rules", "bind", "load", "filters"} => found = <<>>
    /\ pc \in {"start", "rules", "bind", "load", "filters", "define"} => applied = {}
    /\ pc = "rules" => \A t \in todo : Kind[t] = "RULE"
    /\ pc = "define" => \A t \in todo : Kind[t] = "DEFINE"

LEMMA NextPhase == TypeInv /\ PhaseOK /\ [Next]_vars => PhaseOK'
<1> SUFFICES ASSUME TypeInv, PhaseOK, [Next]_vars PROVE PhaseOK'
  OBVIOUS
<1> USE DEF PhaseOK
<1>1. CASE Start
  BY <1>1 DEF Start, OfKind
<1>2. ASSUME NEW t \in Templates, MatchRule(t) PROVE PhaseOK'
  BY <1>2 DEF MatchRule
<1>3. CASE NoRuleMatched
  BY <1>3 DEF NoRuleMatched
<1>4. CASE Bind
  BY <1>4 DEF Bind
<1>5. CASE LoadNothing
  BY <1>5 DEF LoadNothing
<1>6. CASE Load
  BY <1>6 DEF Load
<1>7. CASE StartFilters
  BY <1>7 DEF StartFilters, OfKind
<1>8. ASSUME NEW t \in Templates, MatchFilters(t) PROVE PhaseOK'
  BY <1>8 DEF MatchFilters
<1>9. CASE AllFiltersMatched
  BY <1>9 DEF AllFiltersMatched
<1>10. CASE ApplyFilter
  BY <1>10 DEF ApplyFilter
<1>11. CASE ApplyPanics
  BY <1>11 DEF ApplyPanics
<1>12. CASE Merge
  BY <1>12 DEF Merge
<1>13. CASE MergePanics
  BY <1>13 DEF MergePanics
<1>14. ASSUME NEW t \in Templates, MatchBlocking(t) PROVE PhaseOK'
  BY <1>14 DEF MatchBlocking
<1>15. CASE NothingBlocks
  BY <1>15 DEF NothingBlocks
<1>16. CASE CheckForDRIState
  BY <1>16 DEF CheckForDRIState
<1>17. ASSUME NEW x \in Deletable, Delete(x) PROVE PhaseOK'
  BY <1>17 DEF Delete
<1>18. CASE UNCHANGED vars
  BY <1>18 DEF vars
<1>19. QED
  BY <1>1, <1>2, <1>3, <1>4, <1>5, <1>6, <1>7, <1>8, <1>9, <1>10, <1>11, <1>12, <1>13,
     <1>14, <1>15, <1>16, <1>17, <1>18 DEF Next

-----------------------------------------------------------------------------
(* The bypass and force filters only grow, and hold what the request, the  *)
(* template of the matched rule and the minimum version ask for.           *)
BypassOK ==
    /\ req.bypassFilters \subseteq bypass
    /\ matched # <<>> => ByPassFilters[Type[matched[1]]] \subseteq bypass
    /\ HasToUpdate /\ pc # "bind" => TIME_FILTER \in bypass

ForceOK ==
    /\ req.forceFilters \subseteq force
    /\ HasToUpdate /\ pc # "bind" /\ action[matched[1]].rebootImmediately =>
          REBOOT_IMMEDIATELY_FILTER \in force

(* Only MatchRule and Bind bring a device to or past the check of its      *)
(* version; any other step leaves it as it is.                             *)
Settled == UNCHANGED matched /\ (pc' # "bind" => pc # "bind")

LEMMA StepKinds ==
    [Next]_vars =>
        /\ bypass \subseteq bypass' /\ force \subseteq force'
        /\ (\E t \in Templates : MatchRule(t)) \/ Bind \/ Settled
<1> SUFFICES ASSUME [Next]_vars
             PROVE  /\ bypass \subseteq bypass' /\ force \subseteq force'
                    /\ (\E t \in Templates : MatchRule(t)) \/ Bind \/ Settled
  OBVIOUS
<1>1. bypass \subseteq bypass' /\ force \subseteq force'
  BY DEF Next, vars, inputs, tables, Bypassed, Start, MatchRule, NoRuleMatched, Bind,
         LoadNothing, Load, StartFilters, MatchFilters, AllFiltersMatched, ApplyFilter,
         ApplyPanics, Merge, MergePanics, MatchBlocking, NothingBlocks, CheckForDRIState, Delete
<1>2. (\E t \in Templates : MatchRule(t)) \/ Bind \/ Settled
  BY DEF Settled, Next, vars, inputs, tables, Start, NoRuleMatched,
         LoadNothing, Load, StartFilters, MatchFilters, AllFiltersMatched, ApplyFilter,
         ApplyPanics, Merge, MergePanics, MatchBlocking, NothingBlocks, CheckForDRIState, Delete
<1>3. QED BY <1>1, <1>2

LEMMA UpdateStays ==
    ASSUME UNCHANGED inputs, UNCHANGED matched PROVE HasToUpdate' <=> HasToUpdate
BY DEF inputs, HasToUpdate, Distributes, BelowMinimum, HasFirmwareVersion

LEMMA NextFilters ==
    TypeInv /\ PhaseOK /\ BypassOK /\ ForceOK /\ [Next]_vars => BypassOK' /\ ForceOK'
<1> SUFFICES ASSUME TypeInv, PhaseOK, BypassOK, ForceOK, [Next]_vars
             PROVE  BypassOK' /\ ForceOK'
  OBVIOUS
<1>0. UNCHANGED inputs
  BY InputsStay
<1>1. bypass \subseteq bypass' /\ force \subseteq force'
  BY StepKinds
<1>2. ASSUME NEW t \in Templates, MatchRule(t) PROVE BypassOK' /\ ForceOK'
  <2>1. CASE matched' = matched /\ pc' = pc
    <3>1. matched' = <<>>
      BY <1>2, <2>1 DEF MatchRule, PhaseOK
    <3>2. ~HasToUpdate'
      BY <3>1 DEF HasToUpdate
    <3>3. QED BY <1>0, <1>1, <3>1, <3>2 DEF inputs, BypassOK, ForceOK
  <2>2. ASSUME NEW r \in FirstOf(Matching(t), t), matched' = <<r>>, pc' = "bind"
        PROVE  BypassOK' /\ ForceOK'
    <3>1. Type[r] = t
      BY MatchingRules DEF FirstOf, TypeInv, TypeOK
    <3>2. ByPassFilters[t] \subseteq bypass'
      BY <1>2 DEF MatchRule, Bypassed
    <3>3. QED BY <1>0, <1>1, <2>2, <3>1, <3>2 DEF inputs, BypassOK, ForceOK
  <2>3. QED BY <1>2, <2>1, <2>2 DEF MatchRule
<1>3. CASE Bind
  <2>1. UNCHANGED matched /\ pc = "bind" /\ matched # <<>>
    BY <1>3 DEF Bind, TypeInv, TypeOK
  <2>2. HasToUpdate' <=> HasToUpdate
    BY <1>0, <2>1, UpdateStays
  <2>3. HasToUpdate =>
          /\ TIME_FILTER \in bypass'
          /\ action[matched[1]].rebootImmediately => REBOOT_IMMEDIATELY_FILTER \in force'
    BY <1>3 DEF Bind, HasToUpdate
  <2>4. QED BY <1>0, <1>1, <2>1, <2>2, <2>3 DEF inputs, BypassOK, ForceOK
<1>4. CASE Settled
  <2>1. HasToUpdate' <=> HasToUpdate
    BY <1>0, <1>4, UpdateStays DEF Settled
  <2>2. BypassOK'
    BY <1>0, <1>1, <1>4, <2>1 DEF inputs, BypassOK, Settled
  <2>3. ForceOK'
    BY <1>0, <1>1, <1>4, <2>1 DEF inputs, ForceOK, Settled
  <2>4. QED BY <2>2, <2>3
<1>5. QED BY <1>2, <1>3, <1>4, StepKinds

-----------------------------------------------------------------------------
(* A rule that defines properties: what its template bypasses has been     *)
(* recorded, and it is no time filter of a device that has to update.      *)
Harmless(r) ==
    /\ Kind[Type[r]] = "DEFINE"
    /\ ByPassFilters[Type[r]] \subseteq bypass
    /\ HasToUpdate => Type[r] # TIME_FILTER

FoundOK == \A i \in DOMAIN found : Harmless(found[i])

(* Until a filter blocks, only such rules have been applied, and what      *)
(* their actions bypass has been recorded too.                             *)
AppliedOK ==
    pc \notin {"dri", "done"} =>
        \A r \in applied :
            /\ Harmless(r)
            /\ Type[r] # ACTIVATION_VERSION => action[r].byPassFilters \subseteq bypass

FiltersInv == FoundOK /\ AppliedOK /\ MinimumNotHeldBack /\ BypassHonoured

(* Steps that neither find nor apply a rule.                               *)
Idle ==
    /\ UNCHANGED <<matched, found, applied>>
    /\ pc' \notin {"dri", "done"} => pc \notin {"dri", "done"}

LEMMA FilterStepKinds ==
    [Next]_vars =>
        \/ \E t \in Templates : MatchRule(t)
        \/ \E t \in Templates : MatchFilters(t)
        \/ ApplyFilter
        \/ \E t \in Templates : MatchBlocking(t)
        \/ Idle
BY DEF Idle, Next, vars, inputs, tables, Start, NoRuleMatched, Bind, LoadNothing, Load,
       StartFilters, AllFiltersMatched, ApplyPanics, Merge, MergePanics, NothingBlocks,
       CheckForDRIState, Delete

LEMMA NextFiltersInv ==
    TypeInv /\ PhaseOK /\ BypassOK /\ FiltersInv /\ [Next]_vars => FiltersInv'
<1> SUFFICES ASSUME TypeInv, PhaseOK, BypassOK, FiltersInv, [Next]_vars PROVE FiltersInv'
  OBVIOUS
<1>0. UNCHANGED inputs /\ bypass \subseteq bypass'
  BY InputsStay, StepKinds
<1>1. UNCHANGED matched => (HasToUpdate' <=> HasToUpdate)
  BY <1>0, UpdateStays
<1>h. ASSUME NEW r, Harmless(r), UNCHANGED matched PROVE Harmless(r)'
  BY <1>0, <1>1, <1>h DEF Harmless
<1>2. ASSUME NEW t \in Templates, MatchRule(t) PROVE FiltersInv'
  <2>1. found' = <<>> /\ applied' = {} 
    BY <1>2 DEF MatchRule, PhaseOK
  <2>2. QED
    BY <2>1 DEF FiltersInv, FoundOK, AppliedOK, MinimumNotHeldBack, BypassHonoured
<1>3. ASSUME NEW t \in Templates, MatchFilters(t) PROVE FiltersInv'
  <2>1. UNCHANGED <<matched, applied, pc>> /\ pc = "define" /\ t \in todo
    BY <1>3 DEF MatchFilters, IsNext
  <2>2. matched # <<>> /\ Kind[t] = "DEFINE" /\ applied = {}
    BY <2>1 DEF TypeInv, TypeOK, PhaseOK
  <2>3. PICK s \in Orders(Matching(t), t) : found' = found \o s
    BY <1>3 DEF MatchFilters
  <2>4. Matching(t) \subseteq Rules
    BY MatchingRules DEF TypeInv, TypeOK
  <2>5. s \in Seq(Matching(t))
    BY <2>4, OrdersType
  <2>6. ASSUME NEW r \in Matching(t) PROVE Harmless(r)'
    <3>1. Type[r] = t /\ t \notin bypass
      BY MatchingRules DEF TypeInv, TypeOK, Bypassed
    <3>2. ByPassFilters[t] \subseteq bypass'
      BY <1>3 DEF MatchFilters, Bypassed
    <3>3. HasToUpdate' => t # TIME_FILTER
      BY <1>1, <2>1, <3>1 DEF BypassOK
    <3>4. QED BY <2>2, <3>1, <3>2, <3>3 DEF Harmless
  <2>7. FoundOK'
    <3>1. found \in Seq(Rules)
      BY DEF TypeInv, TypeOK
    <3>2. ASSUME NEW i \in DOMAIN found' PROVE Harmless(found[i])'
      <4>1. PICK r : r = found'[i]
        OBVIOUS
      <4>2. (i \in DOMAIN found /\ r = found[i]) \/ r \in Matching(t)
        BY <2>3, <2>4, <2>5, <3>1, <4>1
      <4>3. Harmless(r)'
        BY <1>h, <2>1, <2>6, <4>2 DEF FiltersInv, FoundOK
      <4>4. QED BY <4>1, <4>3 DEF Harmless
    <3>3. QED BY <3>2 DEF FoundOK
  <2>8. AppliedOK' /\ MinimumNotHeldBack' /\ BypassHonoured'
    BY <2>1, <2>2 DEF AppliedOK, MinimumNotHeldBack, BypassHonoured
  <2>9. QED BY <2>7, <2>8 DEF FiltersInv
<1>4. CASE ApplyFilter
  <2> DEFINE r == Head(found)
  <2>1. UNCHANGED <<matched, pc>> /\ pc = "apply" /\ found # <<>> /\ found' = Tail(found)
    BY <1>4 DEF ApplyFilter
  <2>2. found \in Seq(Rules)
    BY DEF TypeInv, TypeOK
  <2>3. r = found[1] /\ 1 \in DOMAIN found
    BY <2>1, <2>2
  <2>4. Harmless(r)
    BY <2>3 DEF FiltersInv, FoundOK
  <2>5. FoundOK'
    <3>1. ASSUME NEW i \in DOMAIN found' PROVE Harmless(found[i])'
      <4>1. PICK q : q = found'[i]
        OBVIOUS
      <4>2. i + 1 \in DOMAIN found /\ q = found[i + 1]
        BY <2>1, <2>2, <4>1
      <4>3. Harmless(q)'
        BY <1>h, <2>1, <4>2 DEF FiltersInv, FoundOK
      <4>4. QED BY <4>1, <4>3 DEF Harmless
    <3>2. QED BY <3>1 DEF FoundOK
  <2>6. /\ applied' \in {applied, applied \cup {r}}
        /\ Type[r] # ACTIVATION_VERSION => bypass' = bypass \cup action[r].byPassFilters
    BY <1>4 DEF ApplyFilter
  <2>7. AppliedOK'
    <3>1. ASSUME NEW q \in applied'
          PROVE  /\ Harmless(q)'
                 /\ Type[q] # ACTIVATION_VERSION => action'[q].byPassFilters \subseteq bypass'
      <4>1. CASE q = r
        BY <1>0, <1>h, <2>1, <2>4, <2>6, <4>1 DEF inputs
      <4>2. CASE q \in applied
        <5>1. Harmless(q) /\ (Type[q] # ACTIVATION_VERSION => action[q].byPassFilters \subseteq bypass)
          BY <2>1, <4>2 DEF FiltersInv, AppliedOK
        <5>2. QED BY <1>0, <1>h, <2>1, <5>1 DEF inputs
      <4>3. QED BY <2>6, <4>1, <4>2
    <3>2. QED BY <3>1 DEF AppliedOK
  <2>8. MinimumNotHeldBack' /\ BypassHonoured'
    <3>1. pc' \notin {"dri", "done"}
      BY <2>1
    <3>2. \A q \in applied' :
            Harmless(q)' /\ (Type[q] # ACTIVATION_VERSION => action'[q].byPassFilters \subseteq bypass')
      BY <2>7, <3>1 DEF AppliedOK
    <3>3. QED BY <3>2 DEF Harmless, MinimumNotHeldBack, BypassHonoured
  <2>9. QED BY <2>5, <2>7, <2>8 DEF FiltersInv
<1>5. ASSUME NEW t \in Templates, MatchBlocking(t) PROVE FiltersInv'
  <2>1. UNCHANGED <<matched, found>> /\ pc = "block"
    BY <1>5 DEF MatchBlocking
  <2>2. matched # <<>>
    BY <2>1 DEF TypeInv, TypeOK
  <2>3. FoundOK'
    BY <1>h, <2>1 DEF FiltersInv, FoundOK
  <2>4. \A q \in applied :
           Harmless(q) /\ (Type[q] # ACTIVATION_VERSION => action[q].byPassFilters \subseteq bypass)
    BY <2>1 DEF FiltersInv, AppliedOK
  <2>5. CASE UNCHANGED <<pc, applied>>
    <3>1. AppliedOK'
      BY <1>0, <1>h, <2>1, <2>4, <2>5 DEF AppliedOK, inputs
    <3>2. MinimumNotHeldBack' /\ BypassHonoured'
      BY <1>0, <1>1, <2>1, <2>5 DEF FiltersInv, MinimumNotHeldBack, BypassHonoured, inputs
    <3>3. QED BY <2>3, <3>1, <3>2 DEF FiltersInv
  <2>6. ASSUME NEW b \in FirstOf(Matching(t), t), applied' = applied \cup {b}, pc' = "dri"
        PROVE  FiltersInv'
    <3>1. Type[b] = t /\ t \notin bypass
      BY MatchingRules DEF FirstOf, TypeInv, TypeOK, Bypassed
    <3>2. AppliedOK'
      BY <2>6 DEF AppliedOK
    <3>3. MinimumNotHeldBack'
      <4>1. HasToUpdate => TIME_FILTER \in bypass
        BY <2>1 DEF BypassOK
      <4>2. QED BY <1>1, <2>1, <2>4, <2>6, <3>1, <4>1 DEF MinimumNotHeldBack, Harmless
    <3>4. BypassHonoured'
      <4>1. req.bypassFilters \cup ByPassFilters[Type[matched[1]]] \subseteq bypass
        BY <2>2 DEF BypassOK
      <4>2. \A q \in applied : Kind[Type[q]] = "DEFINE" /\ ByPassFilters[Type[q]] \subseteq bypass
        BY <2>4 DEF Harmless
      <4>3. QED
        BY <1>0, <2>1, <2>4, <2>6, <3>1, <4>1, <4>2 DEF BypassHonoured, inputs
    <3>5. QED BY <2>3, <3>2, <3>3, <3>4 DEF FiltersInv
  <2>7. QED BY <1>5, <2>5, <2>6 DEF MatchBlocking
<1>6. CASE Idle
  <2>1. FoundOK'
    BY <1>h, <1>6 DEF FiltersInv, FoundOK, Idle
  <2>2. AppliedOK'
    BY <1>0, <1>h, <1>6 DEF FiltersInv, AppliedOK, Idle, inputs
  <2>3. MinimumNotHeldBack' /\ BypassHonoured'
    BY <1>0, <1>1, <1>6 DEF FiltersInv, MinimumNotHeldBack, BypassHonoured, Idle, inputs
  <2>4. QED BY <2>1, <2>2, <2>3 DEF FiltersInv
<1>7. QED BY <1>2, <1>3, <1>4, <1>5, <1>6, FilterStepKinds

-----------------------------------------------------------------------------
(* The answer, once the properties of the filters have been merged.        *)
Due ==
    LET a == action[matched[1]]
    IN  a.firmwareCheckRequired /\ a.firmwareVersions # {} /\ req.version \notin a.firmwareVersions

AnswerOK ==
    pc \in {"block", "dri", "done"} /\ config # None =>
        /\ REBOOT_IMMEDIATELY_FILTER \in force => props[REBOOT_IMMEDIATELY] = True
        /\ isPercentFilter /\ req.version # Unset => (props[MANDATORY_UPDATE] = True <=> Due)

AnswerInv == AnswerOK /\ DriAnswered

(* Defined: nothing the filters say survives a forced reboot or the flag.  *)
LEMMA DefinedAnswer ==
    ASSUME NEW p \in [Keys -> Values], IsPartial(defined)
    PROVE  /\ REBOOT_IMMEDIATELY_FILTER \in force => Defined(p)[REBOOT_IMMEDIATELY] = True
           /\ isPercentFilter /\ req.version # Unset =>
                 (Defined(p)[MANDATORY_UPDATE] = True <=> Due)
<1> DEFINE f == MandatoryFlag(defined)
           q == PutAll(p, f)
<1>1. IsPartial(f)
  BY MandatoryFlagPartial
<1>2. q \in [Keys -> Values]
  BY <1>1, PutAllType DEF IsPartial
<1>3. Defined(p) = IF REBOOT_IMMEDIATELY_FILTER \in force
                   THEN [q EXCEPT ![REBOOT_IMMEDIATELY] = True] ELSE q
  BY DEF Defined
<1>4. REBOOT_IMMEDIATELY_FILTER \in force => Defined(p)[REBOOT_IMMEDIATELY] = True
  BY <1>2, <1>3, ConstantsOK
<1>5. ASSUME isPercentFilter, req.version # Unset
      PROVE  Defined(p)[MANDATORY_UPDATE] = True <=> Due
  <2> DEFINE g == [k \in {MANDATORY_UPDATE} |-> IF Due THEN True ELSE False]
  <2>1. f = PutAll(defined, g)
    BY <1>5 DEF MandatoryFlag, Due
  <2>2. MANDATORY_UPDATE \in DOMAIN f /\ f[MANDATORY_UPDATE] = IF Due THEN True ELSE False
    BY <2>1 DEF PutAll
  <2>3. q[MANDATORY_UPDATE] = IF Due THEN True ELSE False
    BY <2>2 DEF PutAll
  <2>4. Defined(p)[MANDATORY_UPDATE] = q[MANDATORY_UPDATE]
    BY <1>2, <1>3, ConstantsOK DEF REBOOT_IMMEDIATELY, MANDATORY_UPDATE
  <2>5. QED BY <2>3, <2>4 DEF True, False
<1>6. QED BY <1>4, <1>5

(* Steps that leave the answer alone, or end the request without one.      *)
Unanswered ==
    \/ pc' \notin {"block", "dri", "done"}
    \/ config' = None
    \/ UNCHANGED <<matched, config, force, props>> /\ pc \in {"block", "dri", "done"}
         /\ (pc' = "done" => pc = "done" /\ UNCHANGED blocked)

LEMMA AnswerStepKinds ==
    PhaseOK /\ [Next]_vars => Merge \/ CheckForDRIState \/ Unanswered
BY DEF PhaseOK, Unanswered, Next, vars, inputs, tables, Start, MatchRule, NoRuleMatched, Bind,
       LoadNothing, Load, StartFilters, MatchFilters, AllFiltersMatched, ApplyFilter,
       ApplyPanics, MergePanics, MatchBlocking, NothingBlocks, Delete

LEMMA NextAnswer ==
    TypeInv /\ PhaseOK /\ AnswerInv /\ [Next]_vars => AnswerInv'
<1> SUFFICES ASSUME TypeInv, PhaseOK, AnswerInv, [Next]_vars PROVE AnswerInv'
  OBVIOUS
<1>0. UNCHANGED inputs
  BY InputsStay
<1>1. ASSUME UNCHANGED matched PROVE (isPercentFilter' <=> isPercentFilter) /\ (Due' <=> Due)
  BY <1>0, <1>1 DEF inputs, isPercentFilter, Due
<1>2. CASE Merge
  <2> DEFINE p == Defined(props)
             draw == Drawn(roundRobin.ipv6locations, p[IPV6_LOCATION])
  <2>1. p \in [Keys -> Values]
    BY DefinedType DEF TypeInv, TypeOK, IsPartial
  <2>2. /\ REBOOT_IMMEDIATELY_FILTER \in force => p[REBOOT_IMMEDIATELY] = True
        /\ isPercentFilter /\ req.version # Unset => (p[MANDATORY_UPDATE] = True <=> Due)
    BY DefinedAnswer DEF TypeInv, TypeOK, IsPartial
  <2> HIDE DEF p, draw
  <2>3. props' \in {p} \cup {[p EXCEPT ![IPV6_LOCATION] = b] : b \in draw}
    BY <1>2 DEF Merge, p, draw
  <2>4. /\ props'[REBOOT_IMMEDIATELY] = p[REBOOT_IMMEDIATELY]
        /\ props'[MANDATORY_UPDATE] = p[MANDATORY_UPDATE]
    BY <2>1, <2>3, ConstantsOK DEF REBOOT_IMMEDIATELY, MANDATORY_UPDATE, IPV6_LOCATION
  <2>5. UNCHANGED <<matched, force>> /\ pc' = "block"
    BY <1>2 DEF Merge
  <2>6. AnswerOK'
    BY <1>0, <1>1, <2>2, <2>4, <2>5 DEF AnswerOK, inputs
  <2>7. QED BY <2>5, <2>6 DEF AnswerInv, DriAnswered
<1>3. CASE CheckForDRIState
  <2>1. pc = "dri" /\ UNCHANGED <<matched, config, force>> /\ blocked' = (blocked /\ ~req.dri)
    BY <1>3 DEF CheckForDRIState
  <2>2. /\ req.dri => props'[REBOOT_IMMEDIATELY] = True
        /\ ~req.dri => props' = props
        /\ props'[MANDATORY_UPDATE] = props[MANDATORY_UPDATE]
    BY <1>3, ConstantsOK DEF CheckForDRIState, TypeInv, TypeOK, REBOOT_IMMEDIATELY, MANDATORY_UPDATE
  <2>3. AnswerOK'
    BY <1>0, <1>1, <2>1, <2>2 DEF AnswerInv, AnswerOK, inputs
  <2>4. DriAnswered'
    BY <1>0, <2>1, <2>2 DEF DriAnswered, inputs
  <2>5. QED BY <2>3, <2>4 DEF AnswerInv
<1>4. CASE Unanswered
  BY <1>0, <1>1, <1>4 DEF Unanswered, AnswerInv, AnswerOK, DriAnswered, inputs
<1>5. QED BY <1>2, <1>3, <1>4, AnswerStepKinds

-----------------------------------------------------------------------------
(* While the rule of the device is looked for, no template that exists, is *)
(* not bypassed and has a matching rule has been passed over.              *)
SearchOK ==
    pc = "rules" =>
        \A r \in req.matches :
            Kind[Type[r]] = "RULE" /\ Type[r] \in templates \ bypass => Type[r] \in todo

SearchInv == SearchOK /\ MatchedFirst

LEMMA NextSearch ==
    TypeInv /\ PhaseOK /\ SearchInv /\ [Next]_vars => SearchInv'
<1> SUFFICES ASSUME TypeInv, PhaseOK, SearchInv, [Next]_vars PROVE SearchInv'
  OBVIOUS
<1>0. UNCHANGED inputs
  BY InputsStay
<1>1. req.matches \subseteq Rules
  BY ConstantsOK DEF TypeInv, InputsOK
<1>2. CASE Start
  <2>1. pc' = "rules" /\ todo' = OfKind("RULE") /\ UNCHANGED <<templates, bypass>>
    BY <1>2 DEF Start, tables
  <2>2. QED BY <1>0, <2>1 DEF SearchInv, SearchOK, MatchedFirst, OfKind, inputs
<1>3. ASSUME NEW t \in Templates, MatchRule(t) PROVE SearchInv'
  <2>1. /\ pc = "rules" /\ t \in todo /\ \A u \in todo : Priority[t] <= Priority[u]
        /\ bypass' = bypass \cup ByPassFilters[t] /\ todo' = todo \ {t} /\ UNCHANGED templates
    BY <1>3 DEF MatchRule, IsNext, Bypassed, tables
  <2>2. rules = Rules
    BY <2>1 DEF PhaseOK
  <2>3. \A r \in req.matches :
           Type[r] = t /\ t \notin bypass' => r \in Matching(t)
    BY <1>1, <2>1, <2>2 DEF Matching, Bypassed
  <2>4. CASE Matching(t) = {} /\ UNCHANGED <<pc, matched>>
    <3>1. SearchOK'
      BY <1>0, <2>1, <2>3, <2>4 DEF SearchInv, SearchOK, inputs
    <3>2. QED BY <2>1, <2>4, <3>1 DEF SearchInv, MatchedFirst
  <2>5. ASSUME NEW m \in FirstOf(Matching(t), t), matched' = <<m>>, pc' = "bind"
        PROVE  SearchInv'
    <3>1. Type[m] = t /\ m \in Rules /\ matched'[1] = m
      BY <2>5, MatchingRules DEF FirstOf, TypeInv, TypeOK
    <3>2. ASSUME NEW r \in req.matches, Kind[Type[r]] = "RULE", Type[r] \in templates' \ bypass'
          PROVE  /\ Priority[t] <= Priority[Type[r]]
                 /\ Type[r] = t /\ Type[r] = ENV_MODEL_RULE => Size[r] <= Size[m]
      <4>1. Type[r] \in todo
        BY <2>1, <3>2 DEF SearchInv, SearchOK
      <4>2. Type[r] = t => r \in Matching(t)
        BY <2>3, <3>2
      <4>3. r \in Rules /\ Size[r] \in Nat /\ Size[m] \in Nat
        BY <1>1, <3>1, ConstantsOK
      <4>4. Type[r] = t /\ Type[r] = ENV_MODEL_RULE => Size[m] >= Size[r]
        BY <2>5, <4>2 DEF FirstOf, InOrder
      <4>5. QED BY <2>1, <4>1, <4>3, <4>4
    <3>3. MatchedFirst'
      BY <1>0, <3>1, <3>2 DEF MatchedFirst, inputs
    <3>4. QED BY <2>5, <3>3 DEF SearchInv, SearchOK
  <2>6. QED BY <1>3, <2>4, <2>5 DEF MatchRule
<1>4. ASSUME NEW x \in Deletable, Delete(x) PROVE SearchInv'
  <2>1. templates' \subseteq templates /\ UNCHANGED <<pc, todo, bypass, matched>>
    BY <1>4 DEF Delete
  <2>2. QED BY <1>0, <2>1 DEF SearchInv, SearchOK, MatchedFirst, inputs
<1>5. CASE UNCHANGED vars
  BY <1>5 DEF vars, tables, inputs, SearchInv, SearchOK, MatchedFirst
<1>6. CASE pc' \notin {"rules", "bind"}
  BY <1>6 DEF SearchInv, SearchOK, MatchedFirst
<1>7. \/ Start \/ (\E t \in Templates : MatchRule(t)) \/ (\E x \in Deletable : Delete(x))
      \/ UNCHANGED vars \/ pc' \notin {"rules", "bind"}
  BY DEF Next, NoRuleMatched, Bind, LoadNothing, Load, StartFilters, MatchFilters,
         AllFiltersMatched, ApplyFilter, ApplyPanics, Merge, MergePanics, MatchBlocking,
         NothingBlocks, CheckForDRIState
<1>8. QED BY <1>2, <1>3, <1>4, <1>5, <1>6, <1>7

-----------------------------------------------------------------------------
(* The inductive invariant.                                                *)
IInv ==
    /\ TypeInv /\ PhaseOK /\ BypassOK /\ ForceOK
    /\ FiltersInv /\ AnswerInv /\ SearchInv

LEMMA InitIInv == Init => IInv
<1> SUFFICES ASSUME Init PROVE IInv
  OBVIOUS
<1>1. TypeInv
  BY InitType
<1>2. PhaseOK
  BY DEF Init, PhaseOK
<1>3. ~HasToUpdate
  BY DEF Init, HasToUpdate
<1>4. BypassOK /\ ForceOK
  BY <1>3 DEF Init, BypassOK, ForceOK
<1>5. FiltersInv
  BY DEF Init, FiltersInv, FoundOK, AppliedOK, MinimumNotHeldBack, BypassHonoured
<1>6. AnswerInv /\ SearchInv
  BY DEF Init, AnswerInv, AnswerOK, DriAnswered, SearchInv, SearchOK, MatchedFirst
<1>7. QED BY <1>1, <1>2, <1>4, <1>5, <1>6 DEF IInv

LEMMA NextIInv == IInv /\ [Next]_vars => IInv'
BY NextType, NextPhase, NextFilters, NextFiltersInv, NextAnswer, NextSearch DEF IInv

LEMMA Invariance == Spec => []IInv
<1>1. Init => IInv
  BY InitIInv
<1>2. IInv /\ [Next]_vars => IInv'
  BY NextIInv
<1>3. QED BY <1>1, <1>2, PTL DEF Spec

(* A device below the minimum version of its rule is never held back by    *)
(* the time filter: what ExtractConfigFromAction puts into the bypass      *)
(* filters is still there when DoFilters looks for one that blocks.        *)
THEOREM MinimumVersionNotHeldBack == Spec => []MinimumNotHeldBack
<1>1. IInv => MinimumNotHeldBack
  BY DEF IInv, FiltersInv
<1>2. QED BY <1>1, Invariance, PTL

(* No filter blocks that the request, the template of the matched rule or  *)
(* a filter applied before bypasses.                                       *)
THEOREM BypassIsHonoured == Spec => []BypassHonoured
<1>1. IInv => BypassHonoured
  BY DEF IInv, FiltersInv
<1>2. QED BY <1>1, Invariance, PTL

(* A forced reboot survives the properties of all filters.                 *)
THEOREM ForcedRebootIsKept == Spec => []ForcedReboot
<1>1. IInv => ForcedReboot
  <2> SUFFICES ASSUME IInv, pc \in {"block", "dri", "done"}, config # None,
                      \/ REBOOT_IMMEDIATELY_FILTER \in req.forceFilters
                      \/ HasToUpdate /\ action[matched[1]].rebootImmediately
               PROVE  props[REBOOT_IMMEDIATELY] = True
    BY DEF ForcedReboot
  <2>1. REBOOT_IMMEDIATELY_FILTER \in force
    BY DEF IInv, ForceOK
  <2>2. QED BY <2>1 DEF IInv, AnswerInv, AnswerOK
<1>2. QED BY <1>1, Invariance, PTL

(* A device in disaster recovery is not blocked, and reboots.              *)
THEOREM DisasterRecoveryIsAnswered == Spec => []DriAnswered
<1>1. IInv => DriAnswered
  BY DEF IInv, AnswerInv
<1>2. QED BY <1>1, Invariance, PTL

(* The mandatory flag of a percentage rule says whether the version of the *)
(* device is outside the rule's versions, whatever filters define.         *)
THEOREM MandatoryFlagIsMinimum == Spec => []MandatoryIsMinimum
<1>1. IInv => MandatoryIsMinimum
  BY DEF IInv, AnswerInv, AnswerOK, MandatoryIsMinimum, Due
<1>2. QED BY <1>1, Invariance, PTL

(* FindMatchedRule passes over no rule of an earlier template and no       *)
(* ENV_MODEL rule with more conditions.                                    *)
THEOREM FirstRuleIsMatched == Spec => []MatchedFirst
<1>1. IInv => MatchedFirst
  BY DEF IInv, SearchInv
<1>2. QED BY <1>1, Invariance, PTL

(* No filter holds back a device that it may not.                          *)
THEOREM NobodyIsHeldBack == Spec => []NotHeldBack
<1>1. MinimumNotHeldBack /\ BypassHonoured => NotHeldBack
  BY DEF NotHeldBack
<1>2. QED BY <1>1, MinimumVersionNotHeldBack, BypassIsHonoured, PTL

(* The matched rule, a forced reboot, disaster recovery and the mandatory  *)
(* flag are settled whatever filters define afterwards.                    *)
THEOREM AnswerIsSettled == Spec => []AnswerSettled
<1>1. MatchedFirst /\ ForcedReboot /\ DriAnswered /\ MandatoryIsMinimum => AnswerSettled
  BY DEF AnswerSettled
<1>2. QED
  BY <1>1, FirstRuleIsMatched, ForcedRebootIsKept, DisasterRecoveryIsAnswered,
     MandatoryFlagIsMinimum, PTL

-----------------------------------------------------------------------------
(* The order in which filters are applied.  Under what a template of       *)
(* activation versions is for: it defines properties.                      *)
ActivationDefines == ACTIVATION_VERSION \in Templates => Kind[ACTIVATION_VERSION] = "DEFINE"

Merged == pc \in {"block", "dri", "done"} /\ config # None
IsAct(r) == Type[r] = ACTIVATION_VERSION
ActRules == {r \in req.matches : IsAct(r)}
BestActs == FirstOf(ActRules, ACTIVATION_VERSION)

(* Which rules the filters are matched among, and what is still empty.     *)
RulesOK ==
    /\ pc = "filters" => rules = Rules
    /\ pc = "define" => IF isPercentFilter THEN rules = Rules ELSE \A r \in rules : ~IsAct(r)
    /\ pc = "block" => \A t \in todo : Kind[t] = "BLOCK"
    /\ pc \in {"start", "rules", "bind", "load", "filters", "define"} => ~activation

(* Templates come in descending order, and so do the rules found for them  *)
(* and the rules applied.                                                  *)
Descending ==
    /\ \A i, j \in DOMAIN found : i < j => Priority[Type[found[j]]] <= Priority[Type[found[i]]]
    /\ pc = "define" => \A i \in DOMAIN found, t \in todo : Priority[t] <= Priority[Type[found[i]]]
    /\ pc = "apply" => \A i \in DOMAIN found, r \in applied : Priority[Type[found[i]]] <= Priority[Type[r]]

(* So the last one that has defined a property has the first priority.     *)
Others == Keys \ {REBOOT_IMMEDIATELY, MANDATORY_UPDATE, IPV6_LOCATION}
Definers(k) == {r \in applied : Kind[Type[r]] = "DEFINE" /\ k \in DOMAIN action[r].properties}
Says(p, k) ==
    Definers(k) # {} => \E r \in Definers(k) :
        /\ \A q \in Definers(k) : Priority[Type[r]] <= Priority[Type[q]]
        /\ k \in DOMAIN p /\ p[k] = ConvertProperties(Type[r], action[r].properties)[k]
SaidOK ==
    /\ pc = "apply" => \A k \in Others : Says(defined, k)
    /\ Merged => \A k \in Others : Says(props, k)

(* The first activation rule that is found is one with most conditions,    *)
(* and one is found when the template is neither deleted nor bypassed.     *)
Expected == isPercentFilter /\ req.version # Unset /\ ActRules # {} /\ ACTIVATION_VERSION \in templates \ bypass
FirstAct(i) == IsAct(found[i]) /\ \A j \in DOMAIN found : j < i => ~IsAct(found[j])
ActFound ==
    /\ pc = "define" /\ ACTIVATION_VERSION \in todo => \A i \in DOMAIN found : ~IsAct(found[i])
    /\ ~activation /\ req.version # Unset => \A i \in DOMAIN found : FirstAct(i) => found[i] \in BestActs
    /\ pc = "define" /\ Expected => ACTIVATION_VERSION \in todo \/ \E i \in DOMAIN found : IsAct(found[i])
    /\ pc = "apply" /\ Expected => activation \/ \E i \in DOMAIN found : IsAct(found[i])
    /\ Merged /\ Expected => activation

(* What it asks for has been done, or a filter has said something else.    *)
ActDone(p) ==
    \E q \in BestActs :
        IF req.version \in ActivationVersions(action[q]) THEN q \in applied
        ELSE \/ REBOOT_IMMEDIATELY \in DOMAIN p /\ p[REBOOT_IMMEDIATELY] = True
             \/ \E r \in applied : REBOOT_IMMEDIATELY \in DOMAIN action[r].properties
ActOK ==
    /\ pc = "apply" /\ activation => ActDone(defined)
    /\ Merged /\ activation => ActDone(props)

OrderInv == RulesOK /\ Descending /\ SaidOK /\ ActFound /\ ActOK

(* What the activation rules are does not change.                          *)
LEMMA ActsStay ==
    ASSUME UNCHANGED inputs
    PROVE  /\ ActRules' = ActRules /\ BestActs' = BestActs
           /\ \A k : Definers(k)' = {r \in applied' : Kind[Type[r]] = "DEFINE" /\ k \in DOMAIN action[r].properties}
BY DEF inputs, ActRules, IsAct, BestActs, FirstOf, InOrder, Definers

LEMMA ExpectedStays ==
    ASSUME [Next]_vars, UNCHANGED <<inputs, matched>>, Expected'
    PROVE  Expected
<1>1. bypass \subseteq bypass'
  BY StepKinds
<1>2. templates' \subseteq templates
  BY DEF Next, vars, tables, Start, MatchRule, NoRuleMatched, Bind, LoadNothing, Load, StartFilters,
         MatchFilters, AllFiltersMatched, ApplyFilter, ApplyPanics, Merge, MergePanics, MatchBlocking,
         NothingBlocks, CheckForDRIState, Delete
<1>3. ActRules' = ActRules /\ req' = req /\ isPercentFilter' = isPercentFilter
  BY ActsStay DEF inputs, isPercentFilter
<1>4. QED BY <1>1, <1>2, <1>3 DEF Expected

(* Steps before the filters, and steps that end without a configuration.   *)
Early ==
    /\ found' = <<>> /\ ~activation'
    /\ pc' \notin {"define", "apply", "block"} /\ ~Merged'
    /\ pc' = "filters" => rules' = Rules

(* Steps that look at the filters but change nothing.                      *)
Looks ==
    /\ UNCHANGED <<found, applied, defined, activation, matched, config, props, todo, rules>>
    /\ \/ pc' = pc
       \/ pc = "define" /\ pc' = "apply" /\ todo = {}
       \/ pc' = "panic"
       \/ pc = "block" /\ pc' = "dri"

LEMMA OrderStepKinds ==
    ASSUME TypeInv, PhaseOK, RulesOK, [Next]_vars
    PROVE  \/ Early \/ Looks \/ StartFilters \/ (\E t \in Templates : MatchFilters(t))
           \/ ApplyFilter \/ Merge \/ (\E t \in Templates : MatchBlocking(t)) \/ CheckForDRIState
<1>1. Start \/ (\E t \in Templates : MatchRule(t)) \/ NoRuleMatched \/ Bind \/ LoadNothing \/ Load => Early
  <2>1. pc \in {"start", "rules", "bind", "load"} =>
          found = <<>> /\ config = None /\ rules = Rules /\ ~activation
    BY DEF PhaseOK, RulesOK
  <2>2. CASE Start \/ NoRuleMatched \/ Bind \/ LoadNothing
    BY <2>1, <2>2 DEF Early, Merged, Start, NoRuleMatched, Bind, LoadNothing
  <2>3. ASSUME NEW t \in Templates, MatchRule(t) PROVE Early
    <3>1. pc = "rules" /\ pc' \in {"rules", "bind"} /\ UNCHANGED <<found, config, rules, activation>>
      BY <2>3 DEF MatchRule
    <3>2. QED BY <2>1, <3>1 DEF Early, Merged
  <2>4. CASE Load
    <3>1. /\ pc = "load"
          /\ pc' = "filters" \/ (pc' = "done" /\ config' = config)
          /\ UNCHANGED <<found, rules, activation>>
      BY <2>4 DEF Load
    <3>2. QED BY <2>1, <3>1 DEF Early, Merged
  <2>5. QED BY <2>2, <2>3, <2>4
<1>2. AllFiltersMatched \/ ApplyPanics \/ MergePanics \/ NothingBlocks \/ (\E x \in Deletable : Delete(x))
        \/ UNCHANGED vars => Looks
  BY DEF Looks, AllFiltersMatched, ApplyPanics, MergePanics, NothingBlocks, Delete, vars
<1>3. QED BY <1>1, <1>2 DEF Next

LEMMA EarlyOrder ==
    ASSUME Early PROVE OrderInv'
<1>1. DOMAIN found' = {}
  BY DEF Early
<1>2. RulesOK' /\ Descending' /\ SaidOK'
  BY <1>1 DEF Early, RulesOK, Descending, SaidOK, Merged
<1>3. ActFound' /\ ActOK'
  BY <1>1 DEF Early, ActFound, ActOK, Merged
<1>4. QED BY <1>2, <1>3 DEF OrderInv

LEMMA LooksOrder ==
    ASSUME TypeInv, PhaseOK, OrderInv, [Next]_vars, Looks PROVE OrderInv'
<1>0. UNCHANGED inputs
  BY InputsStay
<1>1. /\ ActRules' = ActRules /\ BestActs' = BestActs /\ (isPercentFilter' = isPercentFilter)
      /\ (Expected' => Expected) /\ \A k : Definers(k)' = Definers(k)
  BY <1>0, ActsStay, ExpectedStays DEF Looks, isPercentFilter, Definers
<1>2. RulesOK'
  BY <1>1 DEF OrderInv, RulesOK, Looks
<1>3. Descending'
  <2>1. pc = "define" => applied = {}
    BY DEF PhaseOK
  <2>2. QED BY <2>1 DEF OrderInv, Descending, Looks
<1>4. SaidOK'
  <2>1. \A k : pc = "define" => Definers(k) = {}
    BY DEF PhaseOK, Definers
  <2>2. \A k : (Says(defined, k) => Says(defined, k)') /\ (Says(props, k) => Says(props, k)')
    BY <1>0, <1>1 DEF Looks, Says, inputs
  <2>3. Merged' => Merged
    BY DEF Merged, Looks
  <2>4. \A k : pc = "define" => Says(defined, k)
    BY <2>1 DEF Says
  <2>5. QED BY <2>2, <2>3, <2>4 DEF OrderInv, SaidOK, Looks
<1>5. ActFound'
  <2>1. \A i : FirstAct(i)' = FirstAct(i)
    BY DEF FirstAct, IsAct, Looks
  <2>2. Merged' => Merged
    BY DEF Merged, Looks
  <2>3. pc = "define" => ~activation
    BY DEF OrderInv, RulesOK
  <2>4. req' = req
    BY <1>0 DEF inputs
  <2>5. QED BY <1>1, <2>1, <2>2, <2>3, <2>4 DEF OrderInv, ActFound, IsAct, Looks
<1>6. ActOK'
  <2>1. (ActDone(defined) => ActDone(defined)') /\ (ActDone(props) => ActDone(props)')
    BY <1>0, <1>1 DEF Looks, ActDone, inputs, ActivationVersions
  <2>2. Merged' => Merged
    BY DEF Merged, Looks
  <2>3. pc = "define" => ~activation
    BY DEF OrderInv, RulesOK
  <2>4. QED BY <2>1, <2>2, <2>3 DEF OrderInv, ActOK, Looks
<1>7. QED BY <1>2, <1>3, <1>4, <1>5, <1>6 DEF OrderInv

LEMMA StartFiltersOrder ==
    ASSUME ActivationDefines, TypeInv, PhaseOK, OrderInv, [Next]_vars, StartFilters PROVE OrderInv'
<1>0. UNCHANGED inputs
  BY InputsStay
<1>1. /\ pc = "filters" /\ pc' = "define" /\ found' = <<>> /\ UNCHANGED <<templates, matched, activation, applied>>
      /\ todo' = OfKind("DEFINE")
      /\ rules' = IF isPercentFilter THEN rules ELSE {r \in rules : Type[r] # ACTIVATION_VERSION}
  BY DEF StartFilters, PhaseOK, tables
<1>2. DOMAIN found' = {} /\ (isPercentFilter' = isPercentFilter) /\ ~Merged'
  BY <1>0, <1>1 DEF isPercentFilter, Merged, inputs
<1>3. RulesOK'
  BY <1>1, <1>2 DEF OrderInv, RulesOK, IsAct
<1>4. Descending' /\ SaidOK' /\ ActOK'
  BY <1>1, <1>2 DEF Descending, SaidOK, ActOK
<1>5. Expected' => ACTIVATION_VERSION \in todo'
  BY <1>1 DEF Expected, OfKind, ActivationDefines, TypeInv, TypeOK
<1>6. ActFound'
  BY <1>1, <1>2, <1>5 DEF ActFound
<1>7. QED BY <1>3, <1>4, <1>6 DEF OrderInv

(* An order of a set has all its rules, and a first one at its head.       *)
LEMMA OrdersHead ==
    ASSUME NEW S \in SUBSET Rules, NEW t, NEW s \in Orders(S, t)
    PROVE  /\ s \in Seq(S) /\ \A r \in S : \E i \in DOMAIN s : s[i] = r
           /\ S # {} => 1 \in DOMAIN s /\ s[1] \in FirstOf(S, t)
<1> DEFINE n == Cardinality(S)
<1>1. IsFiniteSet(S)
  BY ConstantsOK, FS_Subset
<1>2. n \in Nat
  BY <1>1, FS_CardinalityType
<1>3. /\ s \in [1..n -> S] /\ \A i, j \in 1..n : i < j => s[i] # s[j] /\ InOrder(s[i], s[j], t)
  BY DEF Orders
<1>4. s \in Injection(1..n, S)
  <2>1. \A i, j \in 1..n : s[i] = s[j] => i = j
    BY <1>2, <1>3
  <2>2. QED BY <1>3, <2>1 DEF Injection, IsInjective
<1>5. Cardinality(1..n) = n
  BY <1>2, FS_Interval
<1>6. s \in Surjection(1..n, S)
  BY <1>1, <1>4, <1>5, FS_Injection
<1>7. \A r \in S : \E i \in 1..n : s[i] = r
  BY <1>6 DEF Surjection
<1>8. s \in Seq(S) /\ DOMAIN s = 1..n
  BY <1>2, <1>3
<1> HIDE DEF n
<1>9. ASSUME S # {} PROVE 1 \in DOMAIN s /\ s[1] \in FirstOf(S, t)
  <2>1. 1 \in 1..n
    BY <1>2, <1>7, <1>9
  <2>2. ASSUME NEW q \in S PROVE InOrder(s[1], q, t)
    <3>1. PICK i \in 1..n : s[i] = q
      BY <1>7
    <3>2. CASE i = 1
      <4>1. Size[q] \in Nat
        BY ConstantsOK
      <4>2. QED BY <3>1, <3>2, <4>1 DEF InOrder
    <3>3. CASE i # 1
      <4>1. 1 < i
        BY <1>2, <3>3
      <4>2. QED BY <1>3, <2>1, <3>1, <4>1
    <3>4. QED BY <3>2, <3>3
  <2>3. QED BY <1>3, <1>8, <2>1, <2>2 DEF FirstOf
<1>10. QED BY <1>7, <1>8, <1>9

LEMMA Appended ==
    ASSUME NEW R, NEW f \in Seq(R), NEW s \in Seq(R), NEW g, g = f \o s, NEW n, n = Len(f)
    PROVE  /\ \A i \in DOMAIN g : \/ i \in DOMAIN f /\ g[i] = f[i] /\ i \in 1..n
                                  \/ i \in Nat /\ i > n /\ i - n \in DOMAIN s /\ g[i] = s[i - n]
           /\ \A i \in DOMAIN f : i \in DOMAIN g /\ i \in 1..n
           /\ \A i \in DOMAIN s : i \in Nat \ {0} /\ n + i \in DOMAIN g /\ g[n + i] = s[i] /\ (n + i) - n = i
<1>1. n \in Nat /\ Len(s) \in Nat /\ DOMAIN f = 1..n /\ DOMAIN s = 1..Len(s) /\ DOMAIN g = 1..(n + Len(s))
  OBVIOUS
<1>2. \A i \in DOMAIN g : i \in Nat /\ (i <= n => g[i] = f[i]) /\ (i > n => g[i] = s[i - n])
  OBVIOUS
<1>3. \A i \in 1..(n + Len(s)) : i > n => i - n \in 1..Len(s)
  BY <1>1
<1>4. \A i \in DOMAIN s : i \in Nat \ {0} /\ n + i \in DOMAIN g /\ n + i > n /\ (n + i) - n = i
  BY <1>1
<1>5. \A i \in DOMAIN g : \/ i \in DOMAIN f /\ g[i] = f[i] /\ i \in 1..n
                          \/ i \in Nat /\ i > n /\ i - n \in DOMAIN s /\ g[i] = s[i - n]
  BY <1>1, <1>2, <1>3
<1>6. \A i \in DOMAIN s : g[n + i] = s[i]
  BY <1>2, <1>4
<1>7. QED BY <1>1, <1>4, <1>5, <1>6

LEMMA MatchFiltersOrder ==
    ASSUME TypeInv, PhaseOK, OrderInv, [Next]_vars, NEW t \in Templates, MatchFilters(t) PROVE OrderInv'
<1> DEFINE S == Matching(t)
           n == Len(found)
<1>0. UNCHANGED inputs
  BY InputsStay
<1>1. /\ pc = "define" /\ pc' = "define" /\ t \in todo /\ todo' = todo \ {t} /\ bypass' = Bypassed(t)
      /\ \A u \in todo : Priority[u] <= Priority[t]
      /\ UNCHANGED <<templates, rules, matched, config, props, defined, activation, applied>>
  BY DEF MatchFilters, IsNext, tables
<1>2. PICK s \in Orders(S, t) : found' = found \o s
  BY DEF MatchFilters
<1>3. /\ S \subseteq Rules
      /\ \A r \in S : Type[r] = t /\ r \in req.matches /\ r \in rules
  BY DEF Matching, TypeInv, TypeOK
<1>4. /\ s \in Seq(S) /\ \A r \in S : \E i \in DOMAIN s : s[i] = r
      /\ S # {} => 1 \in DOMAIN s /\ s[1] \in FirstOf(S, t)
  BY <1>3, OrdersHead
<1>5. found \in Seq(Rules) /\ n \in Nat
  BY DEF TypeInv, TypeOK
<1> HIDE DEF S, n
<1>6. /\ \A i \in DOMAIN found' : \/ i \in DOMAIN found /\ found'[i] = found[i] /\ i \in 1..n
                                  \/ i \in Nat /\ i > n /\ i - n \in DOMAIN s /\ found'[i] = s[i - n] /\ found'[i] \in S
      /\ \A i \in DOMAIN found : i \in DOMAIN found' /\ i \in 1..n
      /\ \A i \in DOMAIN s : i \in Nat \ {0} /\ n + i \in DOMAIN found' /\ found'[n + i] = s[i] /\ (n + i) - n = i
  <2>1. s \in Seq(Rules) /\ \A i \in DOMAIN s : s[i] \in S
    BY <1>3, <1>4
  <2>2. QED BY <1>2, <1>5, <2>1, Appended DEF n
<1>7. (isPercentFilter' = isPercentFilter) /\ (Expected' => Expected) /\ (ActRules' = ActRules) /\ (BestActs' = BestActs)
  BY <1>0, <1>1, ActsStay, ExpectedStays DEF isPercentFilter, inputs
<1>8. RulesOK'
  BY <1>1, <1>7 DEF OrderInv, RulesOK
<1>9. Descending'
  <2>1. Priority[t] \in Int /\ \A i \in DOMAIN found : Priority[Type[found[i]]] \in Int
    BY <1>5, ConstantsOK
  <2>2. \A i \in DOMAIN found : Priority[t] <= Priority[Type[found[i]]]
    BY <1>1 DEF OrderInv, Descending
  <2>3. \A i \in DOMAIN found' : \/ i \in DOMAIN found /\ found'[i] = found[i]
                                 \/ Type[found'[i]] = t
    BY <1>3, <1>6
  <2>4. ASSUME NEW i \in DOMAIN found', NEW j \in DOMAIN found', i < j
        PROVE  Priority[Type[found'[j]]] <= Priority[Type[found'[i]]]
    <3>1. CASE j \in DOMAIN found /\ found'[j] = found[j] /\ j \in 1..n
      <4>1. i \in DOMAIN found /\ found'[i] = found[i]
        BY <1>5, <1>6, <2>4, <3>1
      <4>2. QED BY <2>4, <3>1, <4>1 DEF OrderInv, Descending
    <3>2. CASE Type[found'[j]] = t
      BY <2>1, <2>2, <2>3, <3>2
    <3>3. QED BY <1>3, <1>6, <3>1, <3>2
  <2>5. ASSUME NEW i \in DOMAIN found', NEW u \in todo' PROVE Priority[u] <= Priority[Type[found'[i]]]
    <3>1. u \in todo
      BY <1>1
    <3>2. CASE i \in DOMAIN found /\ found'[i] = found[i]
      BY <1>1, <3>1, <3>2 DEF OrderInv, Descending
    <3>3. CASE Type[found'[i]] = t
      BY <1>1, <3>1, <3>3
    <3>4. QED BY <2>3, <3>2, <3>3
  <2>6. QED BY <1>1, <2>4, <2>5 DEF Descending
<1>10. SaidOK' /\ ActOK'
  BY <1>1 DEF SaidOK, ActOK, Merged
<1>11. ActFound'
  <2>1. ~activation' /\ ~Merged' /\ (req' = req)
    BY <1>0, <1>1 DEF OrderInv, RulesOK, Merged, inputs
  <2>2. CASE t # ACTIVATION_VERSION
    <3>1. \A i \in DOMAIN found' : IsAct(found'[i]) => i \in DOMAIN found /\ found'[i] = found[i] /\ i \in 1..n
      BY <1>3, <1>6, <2>2 DEF IsAct
    <3>2. \A i \in DOMAIN found : found'[i] = found[i]
      BY <1>5, <1>6
    <3>3. \A i \in DOMAIN found' : FirstAct(i)' => i \in DOMAIN found /\ FirstAct(i)
      BY <1>6, <3>1, <3>2 DEF FirstAct, IsAct
    <3>4. (ACTIVATION_VERSION \in todo') = (ACTIVATION_VERSION \in todo)
      BY <1>1, <2>2
    <3>5. req.version # Unset => \A i \in DOMAIN found' : FirstAct(i)' => found'[i] \in BestActs
      BY <2>1, <1>1, <3>1, <3>2, <3>3 DEF OrderInv, ActFound
    <3>6. Expected => ACTIVATION_VERSION \in todo' \/ \E i \in DOMAIN found' : IsAct(found'[i])
      BY <1>1, <1>6, <3>2, <3>4 DEF OrderInv, ActFound
    <3>7. ACTIVATION_VERSION \in todo' => \A i \in DOMAIN found' : ~IsAct(found'[i])
      BY <1>1, <3>1, <3>4 DEF OrderInv, ActFound
    <3>8. QED BY <1>1, <1>7, <2>1, <3>5, <3>6, <3>7 DEF ActFound, IsAct
  <2>3. CASE t = ACTIVATION_VERSION
    <3>1. ACTIVATION_VERSION \notin todo'
      BY <1>1, <2>3
    <3>2. \A i \in DOMAIN found : ~IsAct(found[i])
      BY <1>1, <2>3 DEF OrderInv, ActFound
    <3>3. \A i \in DOMAIN found' : i > n <=> IsAct(found'[i])
      BY <1>3, <1>5, <1>6, <2>3, <3>2 DEF IsAct
    <3>4. S # {} => S = ActRules
      <4>1. req.matches \subseteq Rules
        BY ConstantsOK DEF TypeInv, InputsOK
      <4>2. S # {} => rules = Rules
        BY <1>1, <1>3, <2>3 DEF OrderInv, RulesOK, IsAct
      <4>3. QED BY <2>3, <4>1, <4>2 DEF S, Matching, ActRules, IsAct
    <3>5. ASSUME NEW i \in DOMAIN found', FirstAct(i)' PROVE found'[i] \in BestActs
      <4>1. i > n /\ i \in Nat /\ i - n \in DOMAIN s /\ S # {}
        BY <1>5, <1>6, <3>3, <3>5 DEF FirstAct, IsAct
      <4>2. n + 1 \in DOMAIN found' /\ found'[n + 1] = s[1] /\ s[1] \in FirstOf(S, t)
        BY <1>4, <1>6, <4>1
      <4>3. ~(n + 1 < i)
        BY <1>5, <3>3, <3>5, <4>2 DEF FirstAct, IsAct
      <4>4. i = n + 1
        BY <1>5, <4>1, <4>3
      <4>5. QED BY <2>3, <3>4, <4>1, <4>2, <4>4 DEF BestActs
    <3>6. Expected' => \E i \in DOMAIN found' : IsAct(found'[i])
      <4>1. ASSUME Expected' PROVE \E i \in DOMAIN found' : IsAct(found'[i])
        <5>1. ActRules # {} /\ t \notin Bypassed(t) /\ rules = Rules
          BY <1>1, <1>7, <2>3, <4>1 DEF Expected, OrderInv, RulesOK
        <5>2. S # {}
          <6>1. req.matches \subseteq Rules
            BY ConstantsOK DEF TypeInv, InputsOK
          <6>2. QED BY <2>3, <5>1, <6>1 DEF S, Matching, ActRules, IsAct
        <5>3. n + 1 \in DOMAIN found' /\ n + 1 > n
          BY <1>4, <1>5, <1>6, <5>2
        <5>4. QED BY <3>3, <5>3
      <4>2. QED BY <4>1
    <3>7. QED BY <1>1, <1>7, <2>1, <3>1, <3>5, <3>6 DEF ActFound, IsAct
  <2>4. QED BY <2>2, <2>3
<1>12. QED BY <1>8, <1>9, <1>10, <1>11 DEF OrderInv

(* One rule of ApplyMatchedFilters, r: it puts its properties, or lets the *)
(* device reboot, or does nothing.                                         *)
Puts(r) == defined' = PutAll(defined, ConvertProperties(Type[r], action[r].properties)) /\ applied' = applied \cup {r}
Reboots(r) == defined' = PutAll(defined, [k \in {REBOOT_IMMEDIATELY} |-> True]) /\ applied' = applied

LEMMA ApplyEffect ==
    ASSUME TypeInv, ApplyFilter
    PROVE  /\ pc = "apply" /\ pc' = "apply" /\ 1 \in DOMAIN found
           /\ \A i \in DOMAIN found' : i \in Nat \ {0} /\ i + 1 \in DOMAIN found /\ found'[i] = found[i + 1]
           /\ \A i \in DOMAIN found : i = 1 \/ (i \in Nat /\ i > 1 /\ i - 1 \in DOMAIN found' /\ found'[i - 1] = found[i])
           /\ IF ~IsAct(found[1]) THEN Puts(found[1]) /\ (activation' = activation)
              ELSE /\ activation' = (activation \/ req.version # Unset)
                   /\ IF activation \/ req.version = Unset THEN UNCHANGED <<defined, applied>>
                      ELSE IF req.version \in ActivationVersions(action[found[1]]) THEN Puts(found[1])
                      ELSE Reboots(found[1])
           /\ UNCHANGED <<matched, config, props>>
<1>1. found \in Seq(Rules) /\ found # <<>> /\ found' = Tail(found) /\ pc = "apply" /\ UNCHANGED <<pc, matched, config, props>>
  BY DEF TypeInv, TypeOK, ApplyFilter
<1>2. Head(found) = found[1] /\ 1 \in DOMAIN found
  BY <1>1
<1>3. \A i \in DOMAIN found' : i \in Nat \ {0} /\ i + 1 \in DOMAIN found /\ found'[i] = found[i + 1]
  BY <1>1
<1>4. \A i \in DOMAIN found : i = 1 \/ (i \in Nat /\ i > 1 /\ i - 1 \in DOMAIN found' /\ found'[i - 1] = found[i])
  <2>1. Len(found) \in Nat /\ DOMAIN found = 1..Len(found) /\ DOMAIN found' = 1..(Len(found) - 1)
    BY <1>1
  <2>2. ASSUME NEW i \in DOMAIN found, i # 1
        PROVE  i \in Nat /\ i > 1 /\ i - 1 \in DOMAIN found' /\ (i - 1) + 1 = i
    BY <2>1, <2>2
  <2>3. QED BY <1>3, <2>2
<1>5. /\ ~IsAct(found[1]) => Puts(found[1]) /\ (activation' = activation)
      /\ IsAct(found[1]) => (activation' = (activation \/ req.version # Unset))
  BY <1>2 DEF ApplyFilter, IsAct, Puts
<1>6. IsAct(found[1]) => IF activation \/ req.version = Unset THEN UNCHANGED <<defined, applied>>
                         ELSE IF req.version \in ActivationVersions(action[found[1]]) THEN Puts(found[1])
                         ELSE Reboots(found[1])
  BY <1>2 DEF ApplyFilter, IsAct, Puts, Reboots
<1>7. QED BY <1>1, <1>2, <1>3, <1>4, <1>5, <1>6

LEMMA ApplyDescending ==
    ASSUME TypeInv, OrderInv, ApplyFilter PROVE Descending' /\ (applied' \subseteq applied \cup {found[1]}) /\ (applied \subseteq applied')
<1>1. applied' \subseteq applied \cup {found[1]} /\ applied \subseteq applied'
  BY ApplyEffect DEF Puts, Reboots
<1>2. ASSUME NEW i \in DOMAIN found', NEW j \in DOMAIN found', i < j
      PROVE  Priority[Type[found'[j]]] <= Priority[Type[found'[i]]]
  <2>1. /\ i + 1 \in DOMAIN found /\ j + 1 \in DOMAIN found /\ i + 1 < j + 1
        /\ found'[i] = found[i + 1] /\ found'[j] = found[j + 1]
    BY <1>2, ApplyEffect
  <2>2. QED BY <2>1 DEF OrderInv, Descending
<1>3. ASSUME NEW i \in DOMAIN found', NEW q \in applied' PROVE Priority[Type[found'[i]]] <= Priority[Type[q]]
  <2>1. i + 1 \in DOMAIN found /\ 1 \in DOMAIN found /\ 1 < i + 1 /\ found'[i] = found[i + 1] /\ pc = "apply"
    BY ApplyEffect
  <2>2. Priority[Type[found[i + 1]]] <= Priority[Type[found[1]]]
    BY <2>1 DEF OrderInv, Descending
  <2>3. \A r \in applied : Priority[Type[found[i + 1]]] <= Priority[Type[r]]
    BY <2>1 DEF OrderInv, Descending
  <2>4. QED BY <1>1, <2>1, <2>2, <2>3
<1>4. pc' = "apply"
  BY ApplyEffect
<1>5. QED BY <1>1, <1>2, <1>3, <1>4 DEF Descending

(* The rule that puts a property is the last of its definers.              *)
LEMMA PutsSays ==
    ASSUME TypeInv, FoundOK, OrderInv, ApplyFilter, Puts(found[1]), UNCHANGED inputs, NEW k \in Others PROVE Says(defined, k)'
<1> DEFINE r == found[1]
           c == ConvertProperties(Type[r], action[r].properties)
<1>0. pc = "apply" /\ 1 \in DOMAIN found
  BY ApplyEffect
<1>1. Says(defined, k)
  BY <1>0 DEF OrderInv, SaidOK
<1>2. Kind[Type[r]] = "DEFINE" /\ r \in Rules /\ Priority[Type[r]] \in Int
  BY <1>0, ConstantsOK DEF FoundOK, Harmless, TypeInv, TypeOK
<1>3. \A q \in applied : Priority[Type[r]] <= Priority[Type[q]]
  BY <1>0 DEF OrderInv, Descending
<1>4. /\ Definers(k)' = {q \in applied' : Kind[Type[q]] = "DEFINE" /\ k \in DOMAIN action[q].properties}
      /\ applied' = applied \cup {r} /\ action' = action /\ defined' = PutAll(defined, c)
  BY ActsStay DEF Puts, inputs
<1>5. DOMAIN c = DOMAIN action[r].properties
  BY DEF ConvertProperties
<1>6. ASSUME Definers(k)' # {}, k \in DOMAIN action[r].properties PROVE Says(defined, k)'
  <2>1. r \in Definers(k)'
    BY <1>2, <1>4, <1>6
  <2>2. \A q \in Definers(k)' : Priority[Type[r]] <= Priority[Type[q]]
    BY <1>2, <1>3, <1>4
  <2>3. k \in DOMAIN defined' /\ defined'[k] = c[k]
    BY <1>4, <1>5, <1>6 DEF PutAll
  <2>4. QED BY <1>4, <2>1, <2>2, <2>3 DEF Says
<1>7. ASSUME k \notin DOMAIN action[r].properties PROVE Says(defined, k)'
  <2>1. Definers(k)' = Definers(k)
    BY <1>4, <1>7 DEF Definers
  <2>2. k \in DOMAIN defined => k \in DOMAIN defined' /\ defined'[k] = defined[k]
    BY <1>4, <1>5, <1>7 DEF PutAll
  <2>3. QED BY <1>1, <1>4, <2>1, <2>2 DEF Says
<1>8. Definers(k)' = {} => Says(defined, k)'
  BY DEF Says
<1>9. QED BY <1>6, <1>7, <1>8

LEMMA ApplyFilterOrder ==
    ASSUME TypeInv, PhaseOK, FoundOK, OrderInv, [Next]_vars, ApplyFilter PROVE OrderInv'
<1> DEFINE r == found[1]
           reboot == [k \in {REBOOT_IMMEDIATELY} |-> True]
<1>0. UNCHANGED inputs
  BY InputsStay
<1>1. /\ pc = "apply" /\ pc' = "apply" /\ 1 \in DOMAIN found /\ ~Merged' /\ UNCHANGED matched
      /\ req' = req /\ action' = action
  BY <1>0, ApplyEffect DEF Merged, inputs
<1>2. /\ ActRules' = ActRules /\ BestActs' = BestActs /\ (isPercentFilter' = isPercentFilter)
      /\ (Expected' => Expected)
  BY <1>0, <1>1, ActsStay, ExpectedStays DEF isPercentFilter
<1>3. RulesOK'
  BY <1>1 DEF RulesOK
<1>4. Descending' /\ (applied \subseteq applied')
  BY ApplyDescending
<1>5. SaidOK'
  <2>1. ASSUME NEW k \in Others PROVE Says(defined, k)'
    <3>1. Says(defined, k)
      BY <1>1 DEF OrderInv, SaidOK
    <3>2. CASE Puts(r)
      BY <1>0, <3>2, PutsSays
    <3>3. CASE UNCHANGED applied /\ (k \in DOMAIN defined => k \in DOMAIN defined' /\ defined'[k] = defined[k])
      <4>1. Definers(k)' = Definers(k)
        BY <1>1, <3>3 DEF Definers
      <4>2. QED BY <1>1, <3>1, <3>3, <4>1 DEF Says
    <3>4. CASE Reboots(r)
      <4>1. k # REBOOT_IMMEDIATELY
        BY DEF Others
      <4>2. k \in DOMAIN defined => k \in DOMAIN defined' /\ defined'[k] = defined[k]
        BY <3>4, <4>1 DEF Reboots, PutAll
      <4>3. QED BY <3>3, <3>4, <4>2 DEF Reboots
    <3>5. QED BY <3>2, <3>3, <3>4, ApplyEffect
  <2>2. QED BY <1>1, <2>1 DEF SaidOK
<1>6. ActFound'
  <2>1. ASSUME ~activation', req.version # Unset, NEW i \in DOMAIN found', FirstAct(i)' PROVE found'[i] \in BestActs
    <3>1. ~activation /\ ~IsAct(r)
      BY <2>1, ApplyEffect
    <3>2. i \in Nat \ {0} /\ i + 1 \in DOMAIN found /\ found'[i] = found[i + 1]
      BY ApplyEffect
    <3>3. ASSUME NEW j \in DOMAIN found, j < i + 1 PROVE ~IsAct(found[j])
      <4>1. CASE j = 1
        BY <3>1, <4>1
      <4>2. CASE j \in Nat /\ j > 1 /\ j - 1 \in DOMAIN found' /\ found'[j - 1] = found[j]
        <5>1. j - 1 < i
          BY <3>2, <3>3, <4>2
        <5>2. QED BY <2>1, <4>2, <5>1 DEF FirstAct, IsAct
      <4>3. QED BY <4>1, <4>2, ApplyEffect
    <3>4. FirstAct(i + 1)
      BY <2>1, <3>2, <3>3 DEF FirstAct, IsAct
    <3>5. QED BY <2>1, <3>1, <3>2, <3>4 DEF OrderInv, ActFound
  <2>2. ASSUME Expected' PROVE activation' \/ \E i \in DOMAIN found' : IsAct(found'[i])
    <3>1. activation \/ \E i \in DOMAIN found : IsAct(found[i])
      BY <1>1, <1>2, <2>2 DEF OrderInv, ActFound
    <3>2. req.version # Unset
      BY <1>1, <2>2 DEF Expected
    <3>3. activation => activation'
      BY ApplyEffect
    <3>4. IsAct(r) => activation'
      BY <3>2, ApplyEffect
    <3>5. \A i \in DOMAIN found : IsAct(found[i]) => IsAct(r) \/ \E j \in DOMAIN found' : IsAct(found'[j])
      BY ApplyEffect
    <3>6. QED BY <3>1, <3>3, <3>4, <3>5
  <2>3. QED BY <1>1, <1>2, <2>1, <2>2 DEF ActFound, IsAct
<1>7. ASSUME activation' PROVE ActDone(defined)'
  <2>1. CASE activation
    <3>1. PICK q \in BestActs :
            IF req.version \in ActivationVersions(action[q]) THEN q \in applied
            ELSE \/ REBOOT_IMMEDIATELY \in DOMAIN defined /\ defined[REBOOT_IMMEDIATELY] = True
                 \/ \E x \in applied : REBOOT_IMMEDIATELY \in DOMAIN action[x].properties
      BY <1>1, <2>1 DEF OrderInv, ActOK, ActDone
    <3>2. ASSUME REBOOT_IMMEDIATELY \in DOMAIN defined, defined[REBOOT_IMMEDIATELY] = True
          PROVE  \/ REBOOT_IMMEDIATELY \in DOMAIN defined' /\ defined'[REBOOT_IMMEDIATELY] = True
                 \/ \E x \in applied' : REBOOT_IMMEDIATELY \in DOMAIN action[x].properties
      <4>1. CASE Puts(r)
        <5>1. CASE REBOOT_IMMEDIATELY \in DOMAIN action[r].properties
          BY <4>1, <5>1 DEF Puts
        <5>2. CASE REBOOT_IMMEDIATELY \notin DOMAIN action[r].properties
          BY <3>2, <4>1, <5>2 DEF Puts, PutAll, ConvertProperties
        <5>3. QED BY <5>1, <5>2
      <4>2. CASE UNCHANGED <<defined, applied>>
        BY <3>2, <4>2
      <4>3. QED BY <2>1, <4>1, <4>2, ApplyEffect
    <3>3. IF req.version \in ActivationVersions(action[q]) THEN q \in applied'
          ELSE \/ REBOOT_IMMEDIATELY \in DOMAIN defined' /\ defined'[REBOOT_IMMEDIATELY] = True
               \/ \E x \in applied' : REBOOT_IMMEDIATELY \in DOMAIN action[x].properties
      BY <1>4, <3>1, <3>2
    <3>4. QED BY <1>1, <1>2, <3>3 DEF ActDone, ActivationVersions
  <2>2. CASE ~activation
    <3>1. IsAct(r) /\ req.version # Unset
      BY <1>7, <2>2, ApplyEffect
    <3>2. FirstAct(1)
      BY <3>1 DEF FirstAct, TypeInv, TypeOK
    <3>3. r \in BestActs
      BY <1>1, <2>2, <3>1, <3>2 DEF OrderInv, ActFound
    <3>4. IF req.version \in ActivationVersions(action[r]) THEN Puts(r) ELSE Reboots(r)
      BY <2>2, <3>1, ApplyEffect
    <3>5. Puts(r) => r \in applied'
      BY DEF Puts
    <3>6. Reboots(r) => REBOOT_IMMEDIATELY \in DOMAIN defined' /\ defined'[REBOOT_IMMEDIATELY] = True
      BY DEF Reboots, PutAll
    <3>7. QED BY <1>1, <1>2, <3>3, <3>4, <3>5, <3>6 DEF ActDone, ActivationVersions
  <2>3. QED BY <2>1, <2>2
<1>8. ActOK'
  BY <1>1, <1>7 DEF ActOK
<1>9. QED BY <1>3, <1>4, <1>5, <1>6, <1>8 DEF OrderInv

(* What filters have defined goes into the answer, but for the properties  *)
(* that are settled otherwise.                                             *)
LEMMA DefinedKeeps ==
    ASSUME NEW p \in [Keys -> Values], IsPartial(defined)
    PROVE  /\ \A k \in Others : k \in DOMAIN defined => Defined(p)[k] = defined[k]
           /\ REBOOT_IMMEDIATELY \in DOMAIN defined /\ defined[REBOOT_IMMEDIATELY] = True =>
                  Defined(p)[REBOOT_IMMEDIATELY] = True
<1> DEFINE f == MandatoryFlag(defined)
           q == PutAll(p, f)
<1>1. \A k \in DOMAIN defined : k # MANDATORY_UPDATE => k \in DOMAIN f /\ f[k] = defined[k]
  <2> DEFINE g == [k \in {MANDATORY_UPDATE} |-> IF Due THEN True ELSE False]
  <2>1. f = defined \/ f = PutAll(defined, g)
    BY DEF MandatoryFlag, Due
  <2>2. QED BY <2>1 DEF PutAll
<1>2. q \in [Keys -> Values]
  BY MandatoryFlagPartial, PutAllType DEF IsPartial
<1>3. \A k \in DOMAIN defined : k # MANDATORY_UPDATE => q[k] = defined[k]
  BY <1>1 DEF PutAll
<1>4. Defined(p) \in {q, [q EXCEPT ![REBOOT_IMMEDIATELY] = True]}
  BY DEF Defined
<1> HIDE DEF f, q
<1>5. \A k \in Keys : k # REBOOT_IMMEDIATELY => Defined(p)[k] = q[k]
  BY <1>2, <1>4
<1>6. Defined(p)[REBOOT_IMMEDIATELY] \in {q[REBOOT_IMMEDIATELY], True}
  BY <1>2, <1>4, ConstantsOK
<1>7. \A k \in Others : k \in Keys /\ k # REBOOT_IMMEDIATELY /\ k # MANDATORY_UPDATE
  BY DEF Others
<1>8. REBOOT_IMMEDIATELY # MANDATORY_UPDATE
  BY DEF REBOOT_IMMEDIATELY, MANDATORY_UPDATE
<1>9. QED BY <1>3, <1>5, <1>6, <1>7, <1>8

LEMMA MergeOrder ==
    ASSUME TypeInv, PhaseOK, OrderInv, [Next]_vars, Merge PROVE OrderInv'
<1> DEFINE p == Defined(props)
           draw == Drawn(roundRobin.ipv6locations, p[IPV6_LOCATION])
<1>0. UNCHANGED inputs
  BY InputsStay
<1>1. /\ pc = "apply" /\ pc' = "block" /\ found = <<>> /\ todo' = OfKind("BLOCK")
      /\ UNCHANGED <<matched, config, found, applied, activation>> /\ (req' = req) /\ (action' = action)
  BY <1>0 DEF Merge, inputs
<1>2. /\ ActRules' = ActRules /\ BestActs' = BestActs /\ (isPercentFilter' = isPercentFilter)
      /\ (Expected' => Expected) /\ \A k : Definers(k)' = Definers(k)
  BY <1>0, <1>1, ActsStay, ExpectedStays DEF isPercentFilter, Definers
<1>3. p \in [Keys -> Values]
  BY DefinedType DEF TypeInv, TypeOK, IsPartial
<1>4. /\ \A k \in Others : k \in DOMAIN defined => p[k] = defined[k]
      /\ REBOOT_IMMEDIATELY \in DOMAIN defined /\ defined[REBOOT_IMMEDIATELY] = True => p[REBOOT_IMMEDIATELY] = True
  BY DefinedKeeps DEF TypeInv, TypeOK, IsPartial
<1>5. props' \in {p} \cup {[p EXCEPT ![IPV6_LOCATION] = b] : b \in draw}
  BY DEF Merge
<1> HIDE DEF p, draw
<1>6. DOMAIN props' = Keys /\ \A k \in Keys : k # IPV6_LOCATION => props'[k] = p[k]
  BY <1>3, <1>5
<1>7. /\ \A k \in Others : k \in Keys /\ k # IPV6_LOCATION
      /\ REBOOT_IMMEDIATELY \in Keys /\ REBOOT_IMMEDIATELY # IPV6_LOCATION
  BY ConstantsOK DEF Others, REBOOT_IMMEDIATELY, IPV6_LOCATION
<1>8. DOMAIN found' = {} /\ DOMAIN found = {}
  BY <1>1
<1>9. RulesOK' /\ Descending'
  BY <1>1, <1>8 DEF RulesOK, Descending, OfKind
<1>10. SaidOK'
  <2>1. ASSUME NEW k \in Others PROVE Says(props, k)'
    <3>1. Says(defined, k)
      BY <1>1 DEF OrderInv, SaidOK
    <3>2. k \in DOMAIN defined => k \in DOMAIN props' /\ props'[k] = defined[k]
      BY <1>4, <1>6, <1>7
    <3>3. QED BY <1>1, <1>2, <3>1, <3>2 DEF Says
  <2>2. QED BY <1>1, <2>1 DEF SaidOK
<1>11. ActFound'
  BY <1>1, <1>2, <1>8 DEF OrderInv, ActFound
<1>12. ASSUME activation PROVE ActDone(props)'
  <2>1. REBOOT_IMMEDIATELY \in DOMAIN defined /\ defined[REBOOT_IMMEDIATELY] = True =>
          REBOOT_IMMEDIATELY \in DOMAIN props' /\ props'[REBOOT_IMMEDIATELY] = True
    BY <1>4, <1>6, <1>7
  <2>2. ActDone(defined)
    BY <1>1, <1>12 DEF OrderInv, ActOK
  <2>3. QED BY <1>1, <1>2, <2>1, <2>2 DEF ActDone, ActivationVersions
<1>13. ActOK'
  BY <1>1, <1>12 DEF ActOK
<1>14. QED BY <1>9, <1>10, <1>11, <1>13 DEF OrderInv

(* Filters that block, and disaster recovery, define no property.          *)
LEMMA AnsweredOrder ==
    ASSUME TypeInv, OrderInv, [Next]_vars, pc \in {"block", "dri"}, pc' \in {"block", "dri", "done"},
           UNCHANGED <<matched, config, found, activation>>,
           todo' \subseteq todo, applied \subseteq applied', \A r \in applied' \ applied : Kind[Type[r]] = "BLOCK",
           DOMAIN props' = DOMAIN props, \A k \in Others : props'[k] = props[k],
           props'[REBOOT_IMMEDIATELY] \in {props[REBOOT_IMMEDIATELY], True}
    PROVE  (pc' = "block" /\ pc = "dri") \/ OrderInv'
<1>0. UNCHANGED inputs
  BY InputsStay
<1>1. /\ ActRules' = ActRules /\ BestActs' = BestActs /\ (isPercentFilter' = isPercentFilter)
      /\ (Expected' => Expected) /\ req' = req /\ action' = action
      /\ \A k : Definers(k)' = {r \in applied' : Kind[Type[r]] = "DEFINE" /\ k \in DOMAIN action[r].properties}
  BY <1>0, ActsStay, ExpectedStays DEF isPercentFilter, inputs
<1>2. \A k : Definers(k)' = Definers(k)
  BY <1>1 DEF Definers
<1>3. Merged' => Merged
  BY DEF Merged
<1>4. Descending' /\ ((pc' = "block" /\ pc = "dri") \/ RulesOK')
  BY DEF OrderInv, RulesOK, Descending
<1>5. SaidOK'
  <2>1. \A k \in Others : Says(props, k) => Says(props, k)'
    BY <1>1, <1>2 DEF Says
  <2>2. QED BY <1>3, <2>1 DEF OrderInv, SaidOK
<1>6. ActFound'
  <2>1. \A i : FirstAct(i)' = FirstAct(i)
    BY DEF FirstAct, IsAct
  <2>2. QED BY <1>1, <1>3, <2>1 DEF OrderInv, ActFound, IsAct
<1>7. ActOK'
  <2>1. ActDone(props) => ActDone(props)'
    BY <1>1 DEF ActDone, ActivationVersions
  <2>2. QED BY <1>3, <2>1 DEF OrderInv, ActOK
<1>8. QED BY <1>4, <1>5, <1>6, <1>7 DEF OrderInv

LEMMA NextOrder ==
    ASSUME ActivationDefines, TypeInv, PhaseOK, FoundOK, OrderInv, [Next]_vars PROVE OrderInv'
<1>1. ASSUME NEW t \in Templates, MatchBlocking(t) PROVE OrderInv'
  <2>1. /\ pc = "block" /\ pc' \in {"block", "dri"} /\ t \in todo /\ todo' \subseteq todo
        /\ UNCHANGED <<matched, config, found, activation, props>>
        /\ (applied' = applied \/ \E r \in Matching(t) : applied' = applied \cup {r})
    BY <1>1 DEF MatchBlocking, IsNext, FirstOf
  <2>2. Kind[t] = "BLOCK" /\ \A r \in Matching(t) : Type[r] = t
    BY <2>1 DEF OrderInv, RulesOK, Matching
  <2>3. applied \subseteq applied' /\ \A r \in applied' \ applied : Kind[Type[r]] = "BLOCK"
    BY <2>1, <2>2
  <2>4. QED BY <2>1, <2>3, AnsweredOrder
<1>2. CASE CheckForDRIState
  <2>1. /\ pc = "dri" /\ pc' = "done" /\ UNCHANGED <<matched, config, found, activation, todo, applied>>
        /\ props' \in {props, [props EXCEPT ![REBOOT_IMMEDIATELY] = True]}
    BY <1>2 DEF CheckForDRIState
  <2>2. props \in [Keys -> Values] /\ REBOOT_IMMEDIATELY \in Keys /\ \A k \in Others : k \in Keys /\ k # REBOOT_IMMEDIATELY
    BY ConstantsOK DEF TypeInv, TypeOK, Others
  <2>3. /\ DOMAIN props' = DOMAIN props /\ \A k \in Others : props'[k] = props[k]
        /\ props'[REBOOT_IMMEDIATELY] \in {props[REBOOT_IMMEDIATELY], True}
    BY <2>1, <2>2
  <2>4. QED BY <2>1, <2>3, AnsweredOrder
<1>3. QED
  BY <1>1, <1>2, OrderStepKinds, EarlyOrder, LooksOrder, StartFiltersOrder, MatchFiltersOrder,
     ApplyFilterOrder, MergeOrder DEF OrderInv

LEMMA OrderInvariance == ASSUME ActivationDefines PROVE Spec => [](IInv /\ OrderInv)
<1>1. Init => OrderInv
  <2> SUFFICES ASSUME Init PROVE OrderInv
    OBVIOUS
  <2>1. found = <<>> /\ DOMAIN found = {} /\ pc = "start" /\ ~activation
    BY DEF Init
  <2>2. QED BY <2>1 DEF OrderInv, RulesOK, Descending, SaidOK, ActFound, ActOK, Merged
<1>2. IInv /\ OrderInv /\ [Next]_vars => (IInv /\ OrderInv)'
  BY NextIInv, NextOrder DEF IInv, FiltersInv
<1>3. QED BY <1>1, <1>2, InitIInv, PTL DEF Spec

-----------------------------------------------------------------------------
(* A paused entry keeps its place in the distribution: its percentage is   *)
(* counted for the entries after it.                                       *)
PauseEntry(a, i) == [a EXCEPT !.configEntries[i].isPaused = TRUE]

LEMMA PausingKeepsFitting ==
    ASSUME NEW a, IsAction(a), NEW i \in DOMAIN a.configEntries, NEW b, b = PauseEntry(a, i)
    PROVE  /\ b.configId = a.configId /\ b.useAccountPercentage = a.useAccountPercentage
           /\ FittingEntries(b) = FittingEntries(a)
           /\ \A j \in DOMAIN a.configEntries :
                 /\ b.configEntries[j].configId = a.configEntries[j].configId
                 /\ b.configEntries[j].isPaused = (j = i \/ a.configEntries[j].isPaused)
<1> DEFINE E == a.configEntries
           F == b.configEntries
           Entry == [configId : ConfigIds, start : Int, end : Int, percentage : Int, isPaused : BOOLEAN]
           Paused(e) == [e EXCEPT !.isPaused = TRUE]
<1>1. /\ b.configId = a.configId /\ b.useAccountPercentage = a.useAccountPercentage
      /\ F = [E EXCEPT ![i].isPaused = TRUE]
  BY DEF IsAction, PauseEntry
<1>2. E \in Seq(Entry)
  BY DEF IsAction, ConfigIds
<1>s. ASSUME NEW S, NEW q \in Seq(S), NEW j \in DOMAIN q PROVE q[j] \in S
  OBVIOUS
<1>3. \A j \in DOMAIN E : E[j] \in Entry
  <2> HIDE DEF E, Entry
  <2>1. QED BY <1>2, <1>s
<1>4. DOMAIN F = DOMAIN E /\ \A j \in DOMAIN E : F[j] = IF j = i THEN Paused(E[i]) ELSE E[j]
  BY <1>1
<1>5. ASSUME NEW e \in Entry
      PROVE  /\ Paused(e).configId = e.configId /\ Paused(e).start = e.start /\ Paused(e).end = e.end
             /\ Paused(e).percentage = e.percentage /\ Paused(e).isPaused = TRUE
  OBVIOUS
<1> HIDE DEF Entry, E, F, Paused
<1>6. ASSUME NEW j \in DOMAIN E
      PROVE  /\ F[j].configId = E[j].configId /\ F[j].start = E[j].start /\ F[j].end = E[j].end
             /\ F[j].percentage = E[j].percentage
  <2>1. E[j] \in Entry /\ (F[j] = Paused(E[j]) \/ F[j] = E[j])
    BY <1>3, <1>4
  <2>2. QED BY <1>5, <2>1
<1>7. ASSUME NEW j \in DOMAIN E PROVE F[j].isPaused = (j = i \/ E[j].isPaused)
  <2>1. E[j].isPaused \in BOOLEAN
    BY <1>3 DEF Entry
  <2>2. CASE j = i
    BY <1>3, <1>4, <1>5, <2>2 DEF E
  <2>3. CASE j # i
    BY <1>4, <2>1, <2>3
  <2>4. QED BY <2>2, <2>3
<1>8. \A j \in DOMAIN E : Counted(F[j]) = Counted(E[j]) /\ HasRange(F[j]) = HasRange(E[j])
  BY <1>6 DEF Counted, HasRange
<1>9. [j \in DOMAIN F |-> Counted(F[j])] = [j \in DOMAIN E |-> Counted(E[j])]
  BY <1>4, <1>8
<1>10. CurrentPercent(b) = CurrentPercent(a)
  BY <1>9 DEF CurrentPercent, E, F
<1>11. GetSource(b) = GetSource(a)
  BY <1>1 DEF GetSource
<1>12. FittingEntries(b) = FittingEntries(a)
  BY <1>4, <1>6, <1>8, <1>10, <1>11 DEF FittingEntries, E, F
<1>13. QED BY <1>1, <1>6, <1>7, <1>12 DEF E, F

LEMMA PausingMoves ==
    ASSUME NEW a, IsAction(a), NEW i \in DOMAIN a.configEntries
    PROVE  DistributedConfig(PauseEntry(a, i)) \in {None, DistributedConfig(a)}
<1>0. PICK b : b = PauseEntry(a, i)
  OBVIOUS
<1> DEFINE first == Smallest(FittingEntries(a))
<1>1. /\ b.configId = a.configId /\ b.useAccountPercentage = a.useAccountPercentage
      /\ FittingEntries(b) = FittingEntries(a)
      /\ \A j \in DOMAIN a.configEntries :
            /\ b.configEntries[j].configId = a.configEntries[j].configId
            /\ b.configEntries[j].isPaused = (j = i \/ a.configEntries[j].isPaused)
  BY <1>0, PausingKeepsFitting
<1>2. FittingEntries(a) # {} => first \in DOMAIN a.configEntries
  <2>1. FittingEntries(a) \subseteq DOMAIN a.configEntries /\ DOMAIN a.configEntries \subseteq Nat
    BY DEF FittingEntries, IsAction
  <2>2. QED BY <2>1, SmallestIsMember
<1> HIDE DEF first
<1>3. CASE (a.useAccountPercentage /\ req.accountHash = NoHash) \/ FittingEntries(a) = {}
  BY <1>0, <1>1, <1>3 DEF DistributedConfig
<1>4. CASE ~((a.useAccountPercentage /\ req.accountHash = NoHash) \/ FittingEntries(a) = {})
  <2>1. DistributedConfig(a) = IF a.configEntries[first].isPaused THEN None ELSE a.configEntries[first].configId
    BY <1>4 DEF DistributedConfig, first
  <2>2. DistributedConfig(b) = IF b.configEntries[first].isPaused THEN None ELSE b.configEntries[first].configId
    BY <1>1, <1>4 DEF DistributedConfig, first
  <2>3. QED BY <1>0, <1>1, <1>2, <1>4, <2>1, <2>2
<1>5. QED BY <1>3, <1>4

(* Of filters that define the same property, the one whose template comes  *)
(* first by priority decides; a paused distribution moves no device to     *)
(* another configuration; and a device outside the activation versions of  *)
(* the most specific activation rule reboots: ApplyMatchedFilters and      *)
(* ExtractConfigFromAction, whatever templates are deleted meanwhile.      *)
THEOREM FiltersAreApplied ==
    ASSUME ActivationDefines PROVE Spec => []FiltersApplied
<1>1. ASSUME OrderInv PROVE DefinePrecedence
  BY <1>1 DEF OrderInv, SaidOK, Says, Definers, Merged, Others, DefinePrecedence
<1>2. ASSUME IInv PROVE PausingMovesNobody
  <2>1. matched # <<>> => IsAction(action[matched[1]])
    BY <1>2, ConstantsOK DEF IInv, TypeInv, InputsOK, TypeOK
  <2>2. QED BY <2>1, PausingMoves DEF PausingMovesNobody, PauseEntry
<1>3. ASSUME IInv, OrderInv PROVE ActivationReboots
  <2> DEFINE best == {r \in ActRules : \A q \in ActRules : Size[q] <= Size[r]}
  <2>1. BestActs = best
    <3>1. \A r \in ActRules : Size[r] \in Nat
      BY <1>3, ConstantsOK DEF IInv, TypeInv, InputsOK, ActRules
    <3>2. QED BY <3>1 DEF BestActs, FirstOf, InOrder
  <2>2. SUFFICES ASSUME pc = "done", config # None, Expected,
                        \A r \in best : req.version \notin ActivationVersions(action[r]),
                        \A r \in applied : REBOOT_IMMEDIATELY \notin DOMAIN action[r].properties
                 PROVE  props[REBOOT_IMMEDIATELY] = True
    BY DEF ActivationReboots, Expected, ActRules, IsAct
  <2>3. ActDone(props)
    BY <1>3, <2>2 DEF OrderInv, ActFound, ActOK, Merged
  <2>4. QED BY <2>1, <2>2, <2>3 DEF ActDone
<1>4. IInv /\ OrderInv => FiltersApplied
  BY <1>1, <1>2, <1>3 DEF FiltersApplied
<1>5. QED BY <1>4, OrderInvariance, PTL

(* HasMinimumFirmware and GetAppliedActivationVersionType tell a device    *)
(* nothing about its version that contradicts the answer of Eval.          *)
THEOREM QueriesTellAlike ==
    ASSUME ActivationDefines PROVE Spec => []ToldAlike
<1>1. ASSUME IInv PROVE MinimumToldAlike
  <2>1. HasToUpdate /\ PercentRuleMatched => ~HasMinimumFirmware
    BY DEF HasToUpdate, BelowMinimum, HasMinimumFirmware
  <2>2. ASSUME pc = "done", ~HasMinimumFirmware
        PROVE  /\ \A x \in GetAppliedActivationVersionType : ~x.minimum
               /\ req.version # Unset /\ action[matched[1]].firmwareVersions # {} => props[MANDATORY_UPDATE] = True
    <3>1. /\ PercentRuleMatched /\ action[matched[1]].firmwareCheckRequired
          /\ ~HasFirmwareVersion(action[matched[1]].firmwareVersions, req.version)
      BY <2>2 DEF HasMinimumFirmware
    <3>2. \A x \in GetAppliedActivationVersionType : ~x.minimum
      BY <3>1 DEF GetAppliedActivationVersionType
    <3>3. MandatoryIsMinimum
      BY <1>1 DEF IInv, AnswerInv, AnswerOK, MandatoryIsMinimum, Due
    <3>4. QED BY <3>1, <3>2, <3>3 DEF MandatoryIsMinimum, PercentRuleMatched, isPercentFilter, HasFirmwareVersion
  <2>3. QED BY <2>1, <2>2 DEF MinimumToldAlike
<1>2. ASSUME IInv, OrderInv PROVE ActivationToldAlike
  <2>1. SUFFICES ASSUME PercentRuleMatched, activation, \A r \in applied : Type[r] # ACTIVATION_VERSION,
                        \A q, r \in BestActs :
                            req.version \in ActivationVersions(action[q]) <=> req.version \in ActivationVersions(action[r]),
                        NEW m \in FindMatchedRuleByRules(ACTIVATION_VERSION)
                 PROVE  ~IsAmvRule(m)
    BY DEF ActivationToldAlike, GetAppliedActivationVersionType, BestActs, ActRules, IsAct
  <2>2. ActDone(props)
    BY <1>2, <2>1 DEF OrderInv, ActOK, Merged, PercentRuleMatched
  <2>3. \A q \in BestActs : Type[q] = ACTIVATION_VERSION
    BY DEF BestActs, ActRules, IsAct, FirstOf
  <2>4. \A r \in BestActs : req.version \notin ActivationVersions(action[r])
    BY <2>1, <2>2, <2>3 DEF ActDone
  <2>5. m = <<>> \/ \E r \in BestActs : m = <<r>>
    <3>1. req.matches \subseteq Rules
      BY <1>2, ConstantsOK DEF IInv, TypeInv, InputsOK
    <3>2. \A T : FilterByTemplate(ACTIVATION_VERSION, T) \in {{}, ActRules}
      BY <3>1 DEF FilterByTemplate, FilterByAppType, ActRules, IsAct
    <3>3. QED BY <2>1, <3>2 DEF FindMatchedRuleByRules, BestActs
  <2>6. ASSUME NEW a, req.version \notin ActivationVersions(a)
        PROVE  ~firmwareVersionIsMatched(req.version, a) /\ ~firmwareVersionRegExIsMatched(req.version, a)
    BY <2>6 DEF ActivationVersions, firmwareVersionIsMatched, firmwareVersionRegExIsMatched, HasFirmwareVersion, MatchString
  <2>7. QED BY <2>4, <2>5, <2>6 DEF IsAmvRule
<1>3. IInv /\ OrderInv => ToldAlike
  BY <1>1, <1>2 DEF ToldAlike
<1>4. QED BY <1>3, OrderInvariance, PTL

-----------------------------------------------------------------------------
(* The inductive invariant.                                                *)

RowsTyped ==
  /\ ring \in [Servers -> [1..Bounds -> ChangeLogType \cup {NoLog}]]
  /\ written \in [Servers -> Seq(ChangeLogType)]
  /\ lastLog \in ChangeLogType \cup {NoLog}

(* As long as no two change logs overlapped, one goroutine of a server at  *)
(* a time is between the choice of a place and the write to it.            *)
OneAtATime ==
  \A s \in Servers : ~overlapped[s] => \A q, r \in LogsChange(s) : q = r

(* How many writes ago the place i of a ring was written when p is the     *)
(* place of the last write: places are used downwards, from Bounds again   *)
(* after 1.                                                                *)
Age(p, i) == IF i < p THEN i - p + Bounds ELSE i - p
After(p) == IF p = 1 THEN Bounds ELSE p - 1

(* Place p of the ring of s holds the last change log, the place above it  *)
(* the one before, and so on; places not yet used are empty.               *)
RingEndsAt(s, p) ==
  LET w == written[s]
  IN  /\ Len(w) = 0 => p = 1
      /\ \A i \in 1..Bounds :
           ring[s][i] = IF Age(p, i) < Len(w) THEN w[Len(w) - Age(p, i)] ELSE NoLog

(* While the times of the change logs tell their order, the ring is in the *)
(* order of the writes, and the place a goroutine has chosen is the next.  *)
RingInOrder ==
  \A s \in Servers :
    (~overlapped[s] /\ Increasing(written[s])) =>
      \E p \in 1..Bounds :
        /\ RingEndsAt(s, p)
        /\ \A q \in LogsChange(s) : phase[q] = "write" => slot[q] = After(p)

FwInv == FwTypeOK /\ RowsTyped /\ OneAtATime /\ RingInOrder

-----------------------------------------------------------------------------
(* Facts about the operators.                                              *)

LEMMA AnyProfileTyped == AnyProfile \in FwProfiles
BY FwAssumption DEF AnyProfile

LEMMA StatusTyped ==
    ASSUME NEW p \in FwProfiles
    PROVE  StatusOf(p) \in {200, 400, 403, 404}
<1>1. p.kind \in Kinds
  BY FwAssumption DEF FwProfileType
<1>2. QED
  BY <1>1 DEF StatusOf, Kinds, GetFirmwareResponse, GetEstbFirmwareSwuBseHandler,
              GetCheckMinFirmwareHandler, GetEstbFirmwareVersionInfoPath

LEMMA TokenTyped ==
    ASSUME NEW p \in FwProfiles, NEW t \in TokenOutcomes(p)
    PROVE  t \in BOOLEAN
BY DEF TokenOutcomes, AddSecurityTokenToUrl

LEMMA TokenStartsLog ==
    ASSUME NEW p \in FwProfiles, NEW t \in TokenOutcomes(p), t, FwConf.logs
    PROVE  StartsLog(p)
BY DEF TokenOutcomes, StartsLog

LEMMA ChangeLogTyped ==
    ASSUME FwTypeOK, NEW r \in FwRequests, NEW u \in Nat
    PROVE  /\ NewConfigChangeLog(r, u) \in ChangeLogType
           /\ NewConfigChangeLog(r, u).updated = u
<1>1. profile[r] \in FwProfileType
  BY FwAssumption DEF FwTypeOK
<1>2. (profile[r].delay /\ profile[r].result \in {"config", "blocked"}) \in BOOLEAN
  OBVIOUS
<1>3. offsetToTimeZone(profile[r].offset).name \in {"UTC", "UTC-8"}
  BY DEF offsetToTimeZone
<1>4. QED
  BY <1>2, <1>3 DEF NewConfigChangeLog, ChangeLogType

LEMMA OutcomeCases == ASSUME NEW s PROVE RangeOutcome(s) \in {"ok", "error", "panic"}
BY DEF RangeOutcome, Unmarshal

-----------------------------------------------------------------------------
(* The steps, outcome by outcome.                                          *)

LEMMA LastConfigLogSteps ==
    ASSUME NEW r \in FwRequests, SetLastConfigLog(r)
    PROVE  /\ phase[r] = "log"
           /\ lastLog' \in {lastLog, NewConfigChangeLog(r, 0)}
           /\ UNCHANGED <<profile, server, answer, slot, ring, metrics, up, written>>
           /\ \/ /\ clock' \in 0..MaxClock
                 /\ stamp' = [stamp EXCEPT ![r] = clock']
                 /\ phase' = [phase EXCEPT ![r] = "id"]
                 /\ overlapped' = [overlapped EXCEPT ![server[r]] = @ \/ LogsChange(server[r]) # {}]
              \/ /\ phase' = [phase EXCEPT ![r] = AfterLogs]
                 /\ UNCHANGED <<clock, stamp, overlapped>>
<1>1. lastLog' \in {lastLog, NewConfigChangeLog(r, 0)}
  BY DEF SetLastConfigLog
<1>2. CASE ChangeLogged(profile[r])
  BY <1>1, <1>2 DEF SetLastConfigLog
<1>3. CASE ~ChangeLogged(profile[r])
  BY <1>1, <1>3 DEF SetLastConfigLog
<1>4. QED BY <1>2, <1>3

LEMMA ChangeLogIdSteps ==
    ASSUME NEW r \in FwRequests, SetConfigChangeLogId(r)
    PROVE  /\ phase[r] = "id"
           /\ UNCHANGED <<profile, server, answer, stamp, ring, lastLog, metrics, clock, written, overlapped>>
           /\ \/ /\ \E i \in GetCurrentId(server[r]) : slot' = [slot EXCEPT ![r] = i]
                 /\ phase' = [phase EXCEPT ![r] = "write"]
                 /\ UNCHANGED up
              \/ /\ phase' = [phase EXCEPT ![r] = AfterLogs]
                 /\ UNCHANGED <<slot, up>>
              \/ /\ up' = [up EXCEPT ![server[r]] = FALSE]
                 /\ phase' = [q \in FwRequests |->
                               IF server[q] = server[r] /\ phase[q] # "idle" THEN "lost" ELSE phase[q]]
                 /\ UNCHANGED slot
<1>1. CASE RangeOutcome(server[r]) = "ok"
  BY <1>1 DEF SetConfigChangeLogId
<1>2. CASE RangeOutcome(server[r]) = "error"
  BY <1>2 DEF SetConfigChangeLogId
<1>3. CASE RangeOutcome(server[r]) = "panic"
  BY <1>3 DEF SetConfigChangeLogId
<1>4. QED BY <1>1, <1>2, <1>3, OutcomeCases

-----------------------------------------------------------------------------
(* Types.                                                                  *)

LEMMA FwInitTyped == FwInit => FwTypeOK /\ RowsTyped
<1> SUFFICES ASSUME FwInit PROVE FwTypeOK /\ RowsTyped
  OBVIOUS
<1>1. (CHOOSE s \in Servers : TRUE) \in Servers
  BY FwAssumption
<1>2. FwTypeOK
  BY <1>1, FwAssumption, AnyProfileTyped DEF FwInit, FwTypeOK, NoAnswer
<1>3. RowsTyped
  BY DEF FwInit, RowsTyped
<1>4. QED BY <1>2, <1>3

LEMMA GetCurrentIdTyped ==
    ASSUME FwTypeOK, RowsTyped, NEW s \in Servers
    PROVE  GetCurrentId(s) \subseteq 1..Bounds
BY FwAssumption DEF GetCurrentId, Newest, Stored

LogPhases == {"idle", "log", "id", "write", "metrics", "done", "failed", "lost"}

LEMMA AfterLogsCases == AfterLogs \in {"metrics", "done"}
BY DEF AfterLogs

LEMMA FwNextTyped == FwTypeOK /\ RowsTyped /\ [FwNext]_fwVars => FwTypeOK' /\ RowsTyped'
<1> SUFFICES ASSUME FwTypeOK, RowsTyped, [FwNext]_fwVars PROVE FwTypeOK' /\ RowsTyped'
  OBVIOUS
<1>1. CASE UNCHANGED fwVars
  BY <1>1 DEF fwVars, FwTypeOK, RowsTyped
<1>2. ASSUME NEW r \in FwRequests, NEW s \in Servers, NEW p \in FwProfiles, Handle(r, s, p)
      PROVE  FwTypeOK' /\ RowsTyped'
  <2>1. PICK t \in TokenOutcomes(p) :
          answer' = [answer EXCEPT ![r] = [status |-> StatusOf(p), token |-> t]]
    BY <1>2 DEF Handle
  <2>2. [status |-> StatusOf(p), token |-> t] \in [status : {0, 200, 400, 403, 404}, token : BOOLEAN]
    BY StatusTyped, TokenTyped
  <2>3. FwTypeOK'
    BY <1>2, <2>1, <2>2, AnyProfileTyped DEF Handle, FwTypeOK
  <2>4. QED
    BY <1>2, <2>3 DEF Handle, RowsTyped
<1>3. ASSUME NEW r \in FwRequests, SetLastConfigLog(r)
      PROVE  FwTypeOK' /\ RowsTyped'
  <2>1. lastLog' \in ChangeLogType \cup {NoLog}
    BY <1>3, ChangeLogTyped, LastConfigLogSteps DEF RowsTyped
  <2>2. RowsTyped'
    BY <1>3, <2>1, LastConfigLogSteps DEF RowsTyped
  <2>3. clock' \in 0..MaxClock /\ stamp' \in [FwRequests -> 0..MaxClock]
    <3>1. clock' \in 0..MaxClock
      BY <1>3, LastConfigLogSteps DEF FwTypeOK
    <3>2. stamp' = [stamp EXCEPT ![r] = clock'] \/ stamp' = stamp
      BY <1>3, LastConfigLogSteps
    <3>3. QED BY <3>1, <3>2 DEF FwTypeOK
  <2>4. phase' \in [FwRequests -> LogPhases] /\ overlapped' \in [Servers -> BOOLEAN]
    <3>1. phase' = [phase EXCEPT ![r] = "id"] \/ phase' = [phase EXCEPT ![r] = AfterLogs]
      BY <1>3, LastConfigLogSteps
    <3>2. \/ overlapped' = [overlapped EXCEPT ![server[r]] = @ \/ LogsChange(server[r]) # {}]
          \/ overlapped' = overlapped
      BY <1>3, LastConfigLogSteps
    <3> DEFINE more == overlapped[server[r]] \/ LogsChange(server[r]) # {}
    <3>b. more \in BOOLEAN
      OBVIOUS
    <3>c. overlapped' = [overlapped EXCEPT ![server[r]] = more] \/ overlapped' = overlapped
      BY <3>2
    <3> HIDE DEF more
    <3>3. overlapped' \in [Servers -> BOOLEAN]
      BY <3>b, <3>c DEF FwTypeOK
    <3>4. QED BY <3>1, <3>3, AfterLogsCases DEF FwTypeOK, LogPhases
  <2>5. \A q \in FwRequests : phase'[q] = "write" => slot'[q] # 0
    BY <1>3, LastConfigLogSteps, AfterLogsCases DEF FwTypeOK
  <2>6. UNCHANGED <<profile, server, answer, slot, metrics, up>>
    BY <1>3, LastConfigLogSteps
  <2>7. QED
    BY <2>2, <2>3, <2>4, <2>5, <2>6 DEF FwTypeOK, LogPhases
<1>4. ASSUME NEW r \in FwRequests, SetConfigChangeLogId(r)
      PROVE  FwTypeOK' /\ RowsTyped'
  <2>1. server[r] \in Servers /\ GetCurrentId(server[r]) \subseteq 1..Bounds
    BY GetCurrentIdTyped DEF FwTypeOK
  <2>2. slot' \in [FwRequests -> 0..Bounds]
    <3>1. (\E i \in GetCurrentId(server[r]) : slot' = [slot EXCEPT ![r] = i]) \/ slot' = slot
      BY <1>4, ChangeLogIdSteps
    <3>2. QED BY <2>1, <3>1, FwAssumption DEF FwTypeOK
  <2>3. \A q \in FwRequests : phase'[q] = "write" => slot'[q] # 0
    BY <1>4, <2>1, ChangeLogIdSteps, FwAssumption, AfterLogsCases DEF FwTypeOK
  <2>4. phase' \in [FwRequests -> LogPhases]
    BY <1>4, ChangeLogIdSteps, AfterLogsCases DEF FwTypeOK, LogPhases
  <2>5. up' \in [Servers -> BOOLEAN]
    <3>1. up' = [up EXCEPT ![server[r]] = FALSE] \/ up' = up
      BY <1>4, ChangeLogIdSteps
    <3>2. up \in [Servers -> BOOLEAN]
      BY DEF FwTypeOK
    <3>3. QED BY <3>1, <3>2
  <2>6. UNCHANGED <<profile, server, answer, stamp, ring, lastLog, metrics, clock, written, overlapped>>
    BY <1>4, ChangeLogIdSteps
  <2>7. QED
    BY <2>2, <2>3, <2>4, <2>5, <2>6 DEF FwTypeOK, RowsTyped, LogPhases
<1>5. ASSUME NEW r \in FwRequests, SetConfigChangeLog(r)
      PROVE  FwTypeOK' /\ RowsTyped'
  <2>1. NewConfigChangeLog(r, stamp[r]) \in ChangeLogType
    BY ChangeLogTyped, FwAssumption DEF FwTypeOK
  <2>2. FwTypeOK'
    BY <1>5, FwAssumption, AfterLogsCases DEF SetConfigChangeLog, FwTypeOK
  <2>3. server[r] \in Servers /\ slot[r] \in 1..Bounds
    BY <1>5, FwAssumption DEF SetConfigChangeLog, FwTypeOK
  <2>4. CASE UNCHANGED <<ring, written>>
    BY <1>5, <2>2, <2>4 DEF SetConfigChangeLog, RowsTyped
  <2>5. CASE /\ ring' = [ring EXCEPT ![server[r]][slot[r]] = NewConfigChangeLog(r, stamp[r])]
             /\ written' = [written EXCEPT ![server[r]] = Append(@, NewConfigChangeLog(r, stamp[r]))]
    <3>1. ring' \in [Servers -> [1..Bounds -> ChangeLogType \cup {NoLog}]]
      BY <2>1, <2>3, <2>5 DEF RowsTyped
    <3>2. written' \in [Servers -> Seq(ChangeLogType)]
      BY <2>1, <2>3, <2>5 DEF RowsTyped
    <3>3. lastLog' = lastLog
      BY <1>5 DEF SetConfigChangeLog
    <3>4. QED BY <2>2, <3>1, <3>2, <3>3 DEF RowsTyped
  <2>6. QED BY <1>5, <2>4, <2>5 DEF SetConfigChangeLog
<1>6. ASSUME NEW r \in FwRequests, SetFwPenetrationMetrics(r)
      PROVE  FwTypeOK' /\ RowsTyped'
  <2>1. phase' \in [FwRequests -> LogPhases] /\ profile' \in [FwRequests -> FwProfiles]
    BY <1>6, AnyProfileTyped DEF SetFwPenetrationMetrics, FwTypeOK, LogPhases
  <2>2. metrics' \in FwRequests \cup {NoLog} /\ \A q \in FwRequests : phase'[q] = "write" => slot'[q] # 0
    BY <1>6 DEF SetFwPenetrationMetrics, FwTypeOK
  <2>3. UNCHANGED <<server, answer, stamp, slot, ring, lastLog, clock, up, written, overlapped>>
    BY <1>6 DEF SetFwPenetrationMetrics
  <2>4. QED
    BY <2>1, <2>2, <2>3 DEF FwTypeOK, RowsTyped, LogPhases
<1>7. QED
  BY <1>1, <1>2, <1>3, <1>4, <1>5, <1>6 DEF FwNext

(* Every state of a firmware request has its shape.                        *)
THEOREM FwTypes == FwSpec => []FwTypeOK
<1>1. FwSpec => [](FwTypeOK /\ RowsTyped)
  BY FwInitTyped, FwNextTyped, PTL DEF FwSpec
<1>2. QED BY <1>1, PTL

-----------------------------------------------------------------------------
(* Tokens.                                                                 *)

(* A request that was answered with a token is on its way to the metrics,  *)
(* or was lost, unless the metrics are stored.                             *)
TokenOnItsWay ==
  \A r \in FwRequests : answer[r].token => metrics # NoLog \/ phase[r] \notin {"idle", "done"}

LEMMA TokenStep ==
    ASSUME FwConf.logs, FwConf.metrics, FwTypeOK, TokenOnItsWay, [FwNext]_fwVars
    PROVE  TokenOnItsWay'
<1>1. CASE UNCHANGED fwVars
  BY <1>1 DEF fwVars, TokenOnItsWay
<1>2. ASSUME NEW r \in FwRequests, NEW s \in Servers, NEW p \in FwProfiles, Handle(r, s, p)
      PROVE  TokenOnItsWay'
  <2>1. PICK t \in TokenOutcomes(p) :
          answer' = [answer EXCEPT ![r] = [status |-> StatusOf(p), token |-> t]]
    BY <1>2 DEF Handle
  <2>2. t => StartsLog(p)
    BY TokenStartsLog
  <2>3. QED
    BY <1>2, <2>1, <2>2 DEF Handle, FwTypeOK, TokenOnItsWay
<1>3. ASSUME NEW r \in FwRequests, SetLastConfigLog(r) PROVE TokenOnItsWay'
  BY <1>3, LastConfigLogSteps DEF AfterLogs, FwTypeOK, TokenOnItsWay
<1>4. ASSUME NEW r \in FwRequests, SetConfigChangeLogId(r) PROVE TokenOnItsWay'
  BY <1>4, ChangeLogIdSteps DEF AfterLogs, FwTypeOK, TokenOnItsWay
<1>5. ASSUME NEW r \in FwRequests, SetConfigChangeLog(r) PROVE TokenOnItsWay'
  BY <1>5 DEF SetConfigChangeLog, AfterLogs, FwTypeOK, TokenOnItsWay
<1>6. ASSUME NEW r \in FwRequests, SetFwPenetrationMetrics(r) PROVE TokenOnItsWay'
  BY <1>6, FwAssumption DEF SetFwPenetrationMetrics, FwTypeOK, TokenOnItsWay
<1>7. QED
  BY <1>1, <1>2, <1>3, <1>4, <1>5, <1>6 DEF FwNext

(* Where the goroutine of LogResponse writes change logs and penetration   *)
(* metrics, no order of the goroutines leaves a device with a token and    *)
(* without metrics once they have all ended well.                          *)
THEOREM TokensAreBacked ==
  ASSUME FwConf.logs, FwConf.metrics
  PROVE  FwSpec => []TokenIsBacked
<1>1. FwInit => TokenOnItsWay
  BY DEF FwInit, TokenOnItsWay, NoAnswer
<1>2. TokenOnItsWay => TokenIsBacked
  BY DEF TokenOnItsWay, TokenIsBacked
<1>3. FwTypeOK /\ TokenOnItsWay /\ [FwNext]_fwVars => TokenOnItsWay'
  BY TokenStep
<1>4. QED
  BY <1>1, <1>2, <1>3, FwTypes, PTL DEF FwSpec

-----------------------------------------------------------------------------
(* The order of the ring.                                                  *)

LEMMA AgeTyped ==
    ASSUME NEW p \in 1..Bounds, NEW i \in 1..Bounds
    PROVE  Age(p, i) \in 0..(Bounds - 1) /\ (Age(p, i) = 0 <=> i = p)
BY FwAssumption DEF Age

LEMMA AgeOnto ==
    ASSUME NEW p \in 1..Bounds, NEW a \in 0..(Bounds - 1)
    PROVE  \E i \in 1..Bounds : Age(p, i) = a
<1>1. CASE p + a <= Bounds
  <2>1. Age(p, p + a) = a /\ p + a \in 1..Bounds
    BY <1>1, FwAssumption DEF Age
  <2>2. QED BY <2>1
<1>2. CASE p + a > Bounds
  <2>1. Age(p, p + a - Bounds) = a /\ p + a - Bounds \in 1..Bounds
    BY <1>2, FwAssumption DEF Age
  <2>2. QED BY <2>1
<1>3. QED BY <1>1, <1>2, FwAssumption

LEMMA AgeAfter ==
    ASSUME NEW p \in 1..Bounds, NEW i \in 1..Bounds
    PROVE  /\ After(p) \in 1..Bounds
           /\ Age(After(p), i) = IF i = After(p) THEN 0 ELSE Age(p, i) + 1
BY FwAssumption DEF Age, After

(* What a place of an ordered ring holds.                                  *)
LEMMA PlaceHolds ==
    ASSUME RowsTyped, NEW s \in Servers, NEW p \in 1..Bounds, RingEndsAt(s, p),
           NEW i \in 1..Bounds
    PROVE  /\ i \in Stored(s) <=> Age(p, i) < Len(written[s])
           /\ i \in Stored(s) =>
                /\ Len(written[s]) - Age(p, i) \in 1..Len(written[s])
                /\ ring[s][i] = written[s][Len(written[s]) - Age(p, i)]
                /\ ring[s][i] \in ChangeLogType
<1> DEFINE w == written[s]
           k == Len(w) - Age(p, i)
<1>1. w \in Seq(ChangeLogType) /\ Len(w) \in Nat /\ Age(p, i) \in Nat
  BY AgeTyped, FwAssumption DEF RowsTyped
<1>2. ring[s][i] = IF Age(p, i) < Len(w) THEN w[k] ELSE NoLog
  BY DEF RingEndsAt
<1>3. CASE Age(p, i) < Len(w)
  <2>1. k \in 1..Len(w)
    BY <1>1, <1>3
  <2>2. w[k] \in ChangeLogType
    BY <1>1, <2>1
  <2>3. QED
    BY <1>2, <1>3, <2>1, <2>2, FwAssumption DEF Stored
<1>4. CASE ~(Age(p, i) < Len(w))
  BY <1>2, <1>4 DEF Stored
<1>5. QED BY <1>3, <1>4

(* The rows of an ordered ring whose times increase: the newest one by its *)
(* time is the last one written, so GetCurrentId finds the next place.     *)
LEMMA NextPlace ==
    ASSUME RowsTyped, NEW s \in Servers, NEW p \in 1..Bounds, RingEndsAt(s, p),
           Increasing(written[s])
    PROVE  GetCurrentId(s) = {After(p)}
<1> DEFINE w == written[s]
           n == Len(w)
<1>1. w \in Seq(ChangeLogType) /\ n \in Nat
  BY DEF RowsTyped
<1>2. CASE n = 0
  <2>1. p = 1
    BY <1>2 DEF RingEndsAt
  <2>2. \A i \in 1..Bounds : i \notin Stored(s)
    BY <1>2, PlaceHolds, AgeTyped
  <2>3. Stored(s) = {}
    BY <2>2 DEF Stored
  <2>4. QED
    BY <2>1, <2>3 DEF GetCurrentId, After
<1>3. CASE n # 0
  <2>1. p \in Stored(s) /\ ring[s][p] = w[n]
    BY <1>1, <1>3, PlaceHolds, AgeTyped
  <2>2. ASSUME NEW i \in Stored(s)
        PROVE  /\ ring[s][i].updated <= ring[s][p].updated
               /\ ring[s][i].updated \in Nat
               /\ i # p => ring[s][i].updated < ring[s][p].updated
    <3>1. i \in 1..Bounds
      BY DEF Stored
    <3> DEFINE k == n - Age(p, i)
    <3>2. k \in 1..n /\ ring[s][i] = w[k] /\ ring[s][i] \in ChangeLogType
      BY <2>2, <3>1, PlaceHolds
    <3>3. ring[s][i].updated \in Nat
      BY <3>2 DEF ChangeLogType
    <3>4. CASE i = p
      BY <3>3, <3>4
    <3>5. CASE i # p
      <4>1. k < n
        BY <1>1, <3>1, <3>5, AgeTyped
      <4>2. w[k].updated < w[n].updated
        BY <1>1, <3>2, <4>1 DEF Increasing
      <4>3. ring[s][p] \in ChangeLogType
        BY <2>1, PlaceHolds
      <4>4. ring[s][p].updated \in Nat
        BY <4>3 DEF ChangeLogType
      <4>5. QED BY <2>1, <3>2, <3>3, <4>2, <4>4
    <3>6. QED BY <3>4, <3>5
  <2>3. Newest(s) = {p}
    <3>1. p \in Newest(s)
      BY <2>1, <2>2 DEF Newest
    <3>2. ASSUME NEW i \in Newest(s) PROVE i = p
      <4>1. i \in Stored(s) /\ ring[s][p].updated <= ring[s][i].updated
        BY <2>1 DEF Newest
      <4>2. /\ ring[s][i].updated \in Nat /\ ring[s][p].updated \in Nat
            /\ i # p => ring[s][i].updated < ring[s][p].updated
        BY <2>1, <2>2, <4>1
      <4>3. QED BY <4>1, <4>2
    <3>3. QED BY <3>1, <3>2
  <2>4. Stored(s) # {}
    BY <2>1
  <2>5. QED
    BY <2>3, <2>4 DEF GetCurrentId, After
<1>4. QED BY <1>2, <1>3

(* A write to the next place keeps the ring in order.                      *)
LEMMA WriteKeepsOrder ==
    ASSUME RowsTyped, NEW s \in Servers, NEW p \in 1..Bounds, RingEndsAt(s, p),
           NEW e \in ChangeLogType,
           ring' = [ring EXCEPT ![s][After(p)] = e],
           written' = [written EXCEPT ![s] = Append(@, e)]
    PROVE  RingEndsAt(s, After(p))'
<1> DEFINE w == written[s]
           n == Len(w)
           v == Append(w, e)
           a == After(p)
<1>1. w \in Seq(ChangeLogType) /\ n \in Nat
  BY DEF RowsTyped
<1>2. a \in 1..Bounds
  BY AgeAfter
<1>3. written'[s] = v /\ Len(v) = n + 1 /\ v[n + 1] = e /\ \A k \in 1..n : v[k] = w[k]
  BY <1>1 DEF RowsTyped
<1>4. ASSUME NEW i \in 1..Bounds
      PROVE  ring'[s][i] = IF Age(a, i) < n + 1 THEN v[n + 1 - Age(a, i)] ELSE NoLog
  <2>1. CASE i = a
    <3>1. Age(a, i) = 0
      BY <2>1, <1>2, AgeTyped
    <3>2. ring'[s][i] = e
      BY <2>1, <1>2 DEF RowsTyped
    <3>3. QED BY <1>1, <1>3, <3>1, <3>2
  <2>2. CASE i # a
    <3>1. Age(a, i) = Age(p, i) + 1 /\ Age(p, i) \in Nat
      BY <2>2, AgeAfter, AgeTyped, FwAssumption
    <3>2. ring'[s][i] = ring[s][i]
      BY <2>2, <1>2 DEF RowsTyped
    <3>3. ring[s][i] = IF Age(p, i) < n THEN w[n - Age(p, i)] ELSE NoLog
      BY DEF RingEndsAt
    <3>4. CASE Age(p, i) < n
      <4>1. n - Age(p, i) \in 1..n /\ n + 1 - Age(a, i) = n - Age(p, i) /\ Age(a, i) < n + 1
        BY <1>1, <3>1, <3>4
      <4>2. QED BY <1>3, <3>2, <3>3, <3>4, <4>1
    <3>5. CASE ~(Age(p, i) < n)
      <4>1. ~(Age(a, i) < n + 1)
        BY <1>1, <3>1, <3>5
      <4>2. QED BY <3>2, <3>3, <3>5, <4>1
    <3>6. QED BY <3>4, <3>5
  <2>3. QED BY <2>1, <2>2
<1>5. Len(written'[s]) = n + 1 /\ Len(written'[s]) # 0
  BY <1>1, <1>3
<1> HIDE DEF w, n, v
<1>6. \A i \in 1..Bounds :
        ring'[s][i] = IF Age(a, i) < Len(written'[s]) THEN written'[s][Len(written'[s]) - Age(a, i)] ELSE NoLog
  <2> TAKE i \in 1..Bounds
  <2>1. ring'[s][i] = IF Age(a, i) < n + 1 THEN v[n + 1 - Age(a, i)] ELSE NoLog
    BY <1>4
  <2>2. written'[s] = v
    BY <1>3
  <2>3. Age(a, i) \in Nat /\ n \in Nat
    BY <1>1, <1>2, AgeTyped, FwAssumption
  <2>4. QED BY <1>5, <2>1, <2>2, <2>3
<1>7. QED
  BY <1>5, <1>6 DEF RingEndsAt

(* Steps that write no row keep the order.                                 *)
LEMMA OrderKept ==
    ASSUME RingInOrder, UNCHANGED <<ring, written>>,
           \A s \in Servers : ~overlapped'[s] => ~overlapped[s],
           \A s \in Servers : \A q \in LogsChange(s)' :
             phase'[q] = "write" => q \in LogsChange(s) /\ phase[q] = "write" /\ slot'[q] = slot[q]
    PROVE  RingInOrder'
<1> SUFFICES ASSUME NEW s \in Servers, ~overlapped'[s], Increasing(written[s])
             PROVE  \E p \in 1..Bounds :
                      /\ RingEndsAt(s, p)'
                      /\ \A q \in LogsChange(s)' : phase'[q] = "write" => slot'[q] = After(p)
  BY DEF RingInOrder, Increasing, After
<1>1. PICK p \in 1..Bounds :
        RingEndsAt(s, p) /\ \A q \in LogsChange(s) : phase[q] = "write" => slot[q] = After(p)
  BY DEF RingInOrder
<1>2. RingEndsAt(s, p)'
  BY <1>1 DEF RingEndsAt, Age
<1>3. QED BY <1>1, <1>2

LEMMA OneKept ==
    ASSUME OneAtATime,
           \A s \in Servers : ~overlapped'[s] => ~overlapped[s],
           \A s \in Servers : LogsChange(s)' \subseteq LogsChange(s)
    PROVE  OneAtATime'
BY DEF OneAtATime

-----------------------------------------------------------------------------
(* The actions keep the order.                                             *)

LEMMA HandleKeepsOrder ==
    ASSUME FwInv, NEW r \in FwRequests, NEW s \in Servers, NEW p \in FwProfiles, Handle(r, s, p)
    PROVE  OneAtATime' /\ RingInOrder'
<1>1. UNCHANGED <<ring, written, slot, overlapped>>
  BY DEF Handle
<1>2. ASSUME NEW x \in Servers, NEW q \in LogsChange(x)'
      PROVE  q \in LogsChange(x) /\ phase'[q] = phase[q]
  <2>1. q # r /\ q \in FwRequests
    BY DEF Handle, LogsChange, FwInv, FwTypeOK
  <2>2. phase'[q] = phase[q] /\ server'[q] = server[q]
    BY <2>1 DEF Handle, FwInv, FwTypeOK
  <2>3. QED BY <2>2 DEF LogsChange
<1>3. OneAtATime'
  BY <1>1, <1>2, OneKept DEF FwInv
<1>4. RingInOrder'
  BY <1>1, <1>2, OrderKept DEF FwInv
<1>5. QED BY <1>3, <1>4

LEMMA LastConfigLogKeepsOrder ==
    ASSUME FwInv, NEW r \in FwRequests, SetLastConfigLog(r)
    PROVE  OneAtATime' /\ RingInOrder'
<1>1. UNCHANGED <<ring, written, slot, server>> /\ phase[r] = "log" /\ server[r] \in Servers
  BY LastConfigLogSteps DEF FwInv, FwTypeOK
<1>2. \A q \in FwRequests \ {r} : phase'[q] = phase[q]
  BY LastConfigLogSteps DEF FwInv, FwTypeOK
<1>3. phase'[r] # "write"
  BY LastConfigLogSteps, AfterLogsCases DEF FwInv, FwTypeOK
<1>4. \A x \in Servers : ~overlapped'[x] => ~overlapped[x]
  <2>1. \/ overlapped' = [overlapped EXCEPT ![server[r]] = @ \/ LogsChange(server[r]) # {}]
        \/ overlapped' = overlapped
    BY LastConfigLogSteps
  <2>2. overlapped \in [Servers -> BOOLEAN]
    BY DEF FwInv, FwTypeOK
  <2>3. QED BY <2>1, <2>2
<1>5. ASSUME NEW x \in Servers, NEW q \in LogsChange(x)', q # r
      PROVE  q \in LogsChange(x) /\ phase'[q] = phase[q]
  BY <1>1, <1>2, <1>5 DEF LogsChange
<1>6. RingInOrder'
  <2>1. \A x \in Servers : \A q \in LogsChange(x)' :
          phase'[q] = "write" => q \in LogsChange(x) /\ phase[q] = "write" /\ slot'[q] = slot[q]
    BY <1>1, <1>3, <1>5
  <2>2. QED BY <1>1, <1>4, <2>1, OrderKept DEF FwInv
<1>7. OneAtATime'
  <2> SUFFICES ASSUME NEW x \in Servers, ~overlapped'[x], NEW q \in LogsChange(x)', NEW t \in LogsChange(x)',
                      q # t
               PROVE  FALSE
    BY DEF OneAtATime
  <2>1. q = r \/ t = r
    BY <1>4, <1>5 DEF FwInv, OneAtATime
  <2>2. r \in LogsChange(x)' /\ x = server[r] /\ phase'[r] = "id"
    BY <1>1, <1>3, <2>1 DEF LogsChange
  <2>3. overlapped' = [overlapped EXCEPT ![server[r]] = @ \/ LogsChange(server[r]) # {}]
    BY <2>2, LastConfigLogSteps, AfterLogsCases DEF FwInv, FwTypeOK
  <2>4. LogsChange(x) = {}
    <3>1. overlapped \in [Servers -> BOOLEAN]
      BY DEF FwInv, FwTypeOK
    <3>2. overlapped'[x] = (overlapped[x] \/ LogsChange(x) # {})
      BY <2>2, <2>3, <3>1
    <3>3. QED BY <3>2
  <2>5. QED BY <1>5, <2>1, <2>4
<1>8. QED BY <1>6, <1>7

LEMMA ChangeLogIdKeepsOrder ==
    ASSUME FwInv, NEW r \in FwRequests, SetConfigChangeLogId(r)
    PROVE  OneAtATime' /\ RingInOrder'
<1>1. UNCHANGED <<ring, written, server, overlapped>> /\ phase[r] = "id" /\ server[r] \in Servers
  BY ChangeLogIdSteps DEF FwInv, FwTypeOK
<1>2. r \in LogsChange(server[r])
  BY <1>1 DEF LogsChange
<1>3. ASSUME NEW x \in Servers, NEW q \in LogsChange(x)'
      PROVE  q \in LogsChange(x) /\ (q # r => phase'[q] = phase[q] /\ slot'[q] = slot[q])
  <2>1. q \in FwRequests /\ server[q] = x /\ phase'[q] \in {"id", "write"}
    BY <1>1 DEF LogsChange
  <2>2. CASE q = r
    BY <1>1, <1>2, <2>1, <2>2
  <2>3. CASE q # r
    <3>1. phase'[q] = phase[q] \/ phase'[q] = "lost"
      BY <2>1, <2>3, ChangeLogIdSteps DEF FwInv, FwTypeOK
    <3>2. slot'[q] = slot[q]
      BY <2>1, <2>3, ChangeLogIdSteps DEF FwInv, FwTypeOK
    <3>3. QED BY <2>1, <3>1, <3>2 DEF LogsChange
  <2>4. QED BY <2>2, <2>3
<1>4. OneAtATime'
  BY <1>1, <1>3, OneKept DEF FwInv
<1>5. RingInOrder'
  <2> SUFFICES ASSUME NEW x \in Servers, ~overlapped[x], Increasing(written[x])
               PROVE  \E p \in 1..Bounds :
                        /\ RingEndsAt(x, p)'
                        /\ \A q \in LogsChange(x)' : phase'[q] = "write" => slot'[q] = After(p)
    BY <1>1 DEF RingInOrder, Increasing, After
  <2>1. PICK p \in 1..Bounds :
          RingEndsAt(x, p) /\ \A q \in LogsChange(x) : phase[q] = "write" => slot[q] = After(p)
    BY DEF FwInv, RingInOrder
  <2>2. RingEndsAt(x, p)'
    BY <1>1, <2>1 DEF RingEndsAt, Age
  <2>3. ASSUME NEW q \in LogsChange(x)', phase'[q] = "write" PROVE slot'[q] = After(p)
    <3>1. CASE q # r
      BY <1>3, <2>1, <2>3, <3>1
    <3>2. CASE q = r
      <4>1. x = server[r]
        BY <1>1, <3>2 DEF LogsChange
      <4>2. GetCurrentId(x) = {After(p)}
        BY <2>1, NextPlace DEF FwInv
      <4>3. \E i \in GetCurrentId(server[r]) : slot' = [slot EXCEPT ![r] = i]
        BY <2>3, <3>2, ChangeLogIdSteps, AfterLogsCases DEF FwInv, FwTypeOK
      <4>4. QED BY <3>2, <4>1, <4>2, <4>3 DEF FwInv, FwTypeOK
    <3>3. QED BY <3>1, <3>2
  <2>4. QED BY <2>2, <2>3
<1>6. QED BY <1>4, <1>5

LEMMA ChangeLogKeepsOrder ==
    ASSUME FwInv, NEW r \in FwRequests, SetConfigChangeLog(r)
    PROVE  OneAtATime' /\ RingInOrder'
<1> DEFINE s == server[r]
           e == NewConfigChangeLog(r, stamp[r])
<1>1. /\ UNCHANGED <<server, overlapped>> /\ phase[r] = "write" /\ s \in Servers
      /\ phase' = [phase EXCEPT ![r] = AfterLogs] /\ slot' = [slot EXCEPT ![r] = 0]
  BY DEF SetConfigChangeLog, FwInv, FwTypeOK
<1>2. r \in LogsChange(s) /\ e \in ChangeLogType
  BY <1>1, ChangeLogTyped, FwAssumption DEF LogsChange, FwInv, FwTypeOK
<1>3. ASSUME NEW x \in Servers, NEW q \in LogsChange(x)'
      PROVE  q # r /\ q \in LogsChange(x) /\ phase'[q] = phase[q] /\ slot'[q] = slot[q]
  <2>1. q \in FwRequests /\ server[q] = x /\ phase'[q] \in {"id", "write"}
    BY <1>1 DEF LogsChange
  <2>2. q # r
    BY <1>1, <2>1, AfterLogsCases DEF FwInv, FwTypeOK
  <2>3. phase'[q] = phase[q] /\ slot'[q] = slot[q]
    BY <1>1, <2>1, <2>2 DEF FwInv, FwTypeOK
  <2>4. QED BY <2>1, <2>2, <2>3 DEF LogsChange
<1>4. OneAtATime'
  BY <1>1, <1>3, OneKept DEF FwInv
<1>5. CASE UNCHANGED <<ring, written>>
  BY <1>1, <1>3, <1>4, <1>5, OrderKept DEF FwInv
<1>6. CASE ring' = [ring EXCEPT ![s][slot[r]] = e] /\ written' = [written EXCEPT ![s] = Append(@, e)]
  <2> SUFFICES ASSUME NEW x \in Servers, ~overlapped[x], Increasing(written'[x])
               PROVE  \E p \in 1..Bounds :
                        /\ RingEndsAt(x, p)'
                        /\ \A q \in LogsChange(x)' : phase'[q] = "write" => slot'[q] = After(p)
    BY <1>1, <1>4 DEF RingInOrder, Increasing, After
  <2>1. CASE x = s
    <3>1. written[s] \in Seq(ChangeLogType) /\ written'[s] = Append(written[s], e)
      BY <1>1, <1>6 DEF FwInv, RowsTyped
    <3>2. Increasing(written[x])
      <4> DEFINE w == written[s]
                 v == written'[s]
      <4>1. \A i \in DOMAIN w : i \in DOMAIN v /\ v[i] = w[i]
        BY <3>1
      <4>2. Increasing(v)
        BY <2>1
      <4> HIDE DEF w, v
      <4>3. Increasing(w)
        BY <4>1, <4>2 DEF Increasing
      <4>4. QED BY <2>1, <4>3 DEF w
    <3>3. PICK p \in 1..Bounds :
            RingEndsAt(x, p) /\ \A q \in LogsChange(x) : phase[q] = "write" => slot[q] = After(p)
      BY <3>2 DEF FwInv, RingInOrder
    <3>4. slot[r] = After(p)
      BY <1>1, <1>2, <2>1, <3>3
    <3>5. RingEndsAt(x, After(p))'
      <4>1. ring' = [ring EXCEPT ![x][After(p)] = e] /\ written' = [written EXCEPT ![x] = Append(@, e)]
        BY <1>6, <2>1, <3>4
      <4>2. QED BY <1>2, <3>3, <4>1, WriteKeepsOrder DEF FwInv
    <3>6. LogsChange(x)' = {}
      BY <1>1, <1>2, <1>3, <2>1 DEF FwInv, OneAtATime
    <3>7. After(p) \in 1..Bounds
      BY AgeAfter
    <3>8. QED BY <3>5, <3>6, <3>7
  <2>2. CASE x # s
    <3>1. written'[x] = written[x] /\ ring'[x] = ring[x]
      BY <1>1, <1>6, <2>2 DEF FwInv, RowsTyped
    <3>2. PICK p \in 1..Bounds :
            RingEndsAt(x, p) /\ \A q \in LogsChange(x) : phase[q] = "write" => slot[q] = After(p)
      BY <3>1 DEF FwInv, RingInOrder
    <3>3. RingEndsAt(x, p)'
      BY <3>1, <3>2 DEF RingEndsAt, Age
    <3>4. QED BY <1>3, <3>2, <3>3
  <2>3. QED BY <2>1, <2>2
<1>7. QED
  BY <1>4, <1>5, <1>6 DEF SetConfigChangeLog

LEMMA MetricsKeepOrder ==
    ASSUME FwInv, NEW r \in FwRequests, SetFwPenetrationMetrics(r)
    PROVE  OneAtATime' /\ RingInOrder'
<1>1. UNCHANGED <<ring, written, slot, server, overlapped>>
  BY DEF SetFwPenetrationMetrics
<1>2. \A x \in Servers : \A q \in LogsChange(x)' : q \in LogsChange(x) /\ phase'[q] = phase[q]
  BY <1>1 DEF SetFwPenetrationMetrics, LogsChange, FwInv, FwTypeOK
<1>3. QED
  BY <1>1, <1>2, OneKept, OrderKept DEF FwInv

-----------------------------------------------------------------------------
(* The theorem.                                                            *)

LEMMA FwInitInv == FwInit => FwInv
<1> SUFFICES ASSUME FwInit PROVE FwInv
  OBVIOUS
<1>1. FwTypeOK /\ RowsTyped
  BY FwInitTyped
<1>2. \A s \in Servers : LogsChange(s) = {}
  BY DEF FwInit, LogsChange
<1>3. OneAtATime
  BY <1>2 DEF OneAtATime
<1>4. ASSUME NEW s \in Servers PROVE RingEndsAt(s, 1) /\ 1 \in 1..Bounds
  <2>1. written[s] = <<>> /\ 1 \in 1..Bounds
    BY FwAssumption DEF FwInit
  <2>2. \A i \in 1..Bounds : ring[s][i] = NoLog /\ ~(Age(1, i) < 0)
    BY <2>1, AgeTyped, FwAssumption DEF FwInit
  <2>3. QED BY <2>1, <2>2 DEF RingEndsAt
<1>5. RingInOrder
  BY <1>2, <1>4 DEF RingInOrder
<1>6. QED BY <1>1, <1>3, <1>5 DEF FwInv

LEMMA FwNextInv == FwInv /\ [FwNext]_fwVars => FwInv'
<1> SUFFICES ASSUME FwInv, [FwNext]_fwVars PROVE FwInv'
  OBVIOUS
<1>1. FwTypeOK' /\ RowsTyped'
  BY FwNextTyped DEF FwInv
<1>2. OneAtATime' /\ RingInOrder'
  <2>1. CASE UNCHANGED fwVars
    <3>1. UNCHANGED <<ring, written, slot, phase, server, overlapped>>
      BY <2>1 DEF fwVars
    <3>2. \A x \in Servers : LogsChange(x)' = LogsChange(x)
      BY <3>1 DEF LogsChange
    <3>3. QED BY <3>1, <3>2, OneKept, OrderKept DEF FwInv
  <2>2. CASE FwNext
    BY <2>2, HandleKeepsOrder, LastConfigLogKeepsOrder, ChangeLogIdKeepsOrder,
       ChangeLogKeepsOrder, MetricsKeepOrder DEF FwNext
  <2>3. QED BY <2>1, <2>2
<1>3. QED BY <1>1, <1>2 DEF FwInv

(* An ordered ring holds the newest change logs: its places are as old as  *)
(* the last Bounds writes are.                                             *)
LEMMA OrderedRingHolds ==
    ASSUME RowsTyped, NEW s \in Servers, NEW p \in 1..Bounds, RingEndsAt(s, p)
    PROVE  {ring[s][i] : i \in Stored(s)} = LastOnes(written[s], Bounds)
<1> DEFINE w == written[s]
           n == Len(w)
<1>1. w \in Seq(ChangeLogType) /\ n \in Nat /\ DOMAIN w = 1..n
  BY DEF RowsTyped
<1>2. ASSUME NEW i \in Stored(s) PROVE ring[s][i] \in LastOnes(w, Bounds)
  <2>1. i \in 1..Bounds
    BY DEF Stored
  <2>2. n - Age(p, i) \in 1..n /\ ring[s][i] = w[n - Age(p, i)]
    BY <2>1, PlaceHolds
  <2>3. n - Age(p, i) > n - Bounds
    BY <1>1, <2>1, AgeTyped, FwAssumption
  <2>4. QED BY <1>1, <2>2, <2>3 DEF LastOnes
<1>3. ASSUME NEW e \in LastOnes(w, Bounds) PROVE \E i \in Stored(s) : ring[s][i] = e
  <2>1. PICK k \in DOMAIN w : k > n - Bounds /\ e = w[k]
    BY DEF LastOnes
  <2>2. n - k \in 0..(Bounds - 1) /\ n - k < n /\ n - (n - k) = k
    BY <1>1, <2>1, FwAssumption
  <2>3. PICK i \in 1..Bounds : Age(p, i) = n - k
    BY <2>2, AgeOnto
  <2>4. i \in Stored(s) /\ ring[s][i] = w[n - (n - k)]
    BY <2>2, <2>3, PlaceHolds
  <2>5. QED BY <2>1, <2>2, <2>4
<1>4. QED BY <1>2, <1>3

LEMMA OffsetTime ==
    ASSUME NEW t \in Nat, NEW off \in Offsets, off.given, ~(off.neg /\ off.h = 0)
    PROVE  GetTimeInLocalTimezone(t, off) = t + (IF off.neg THEN -1 ELSE 1) * (60 * off.h + off.m)
<1>1. off.h \in 0..23 /\ off.m \in 0..59
  BY DEF Offsets
<1>2. CASE off.neg
  BY <1>1, <1>2 DEF GetTimeInLocalTimezone
<1>3. CASE ~off.neg
  BY <1>1, <1>3 DEF GetTimeInLocalTimezone
<1>4. QED BY <1>2, <1>3

LEMMA FwInvLogsKept == FwInv => LogsKept
<1> SUFFICES ASSUME FwInv PROVE LogsKept
  OBVIOUS
<1>1. RingHoldsNewest
  BY OrderedRingHolds DEF FwInv, RingInOrder, RingHoldsNewest
<1>2. NewestVisible
  <2> SUFFICES ASSUME NEW s \in Servers, written[s] # <<>>, ~overlapped[s], Increasing(written[s]),
                      \A l \in AllRows \cup ({lastLog} \ {NoLog}) : Unmarshal(l) = "ok"
               PROVE  written[s][Len(written[s])] \in GetConfigChangeLogsOnly
    BY DEF NewestVisible
  <2>1. PICK p \in 1..Bounds : RingEndsAt(s, p)
    BY DEF FwInv, RingInOrder
  <2>2. written[s] \in Seq(ChangeLogType) /\ Len(written[s]) \in Nat /\ Len(written[s]) # 0
    BY DEF FwInv, RowsTyped
  <2>3. Age(p, p) = 0
    BY AgeTyped
  <2>4. p \in Stored(s) /\ ring[s][p] = written[s][Len(written[s])]
    BY <2>1, <2>2, <2>3, PlaceHolds DEF FwInv
  <2>5. ring[s][p] \in AllRows
    BY <2>4 DEF AllRows, Stored
  <2>6. QED BY <2>4, <2>5 DEF GetConfigChangeLogsOnly
<1>3. LocalTimeOfOffset
  <2>1. ASSUME NEW r \in FwRequests PROVE profile[r].offset \in Offsets
    <3>1. profile[r] \in FwProfileType
      BY FwAssumption DEF FwInv, FwTypeOK
    <3>2. QED BY <3>1 DEF FwProfileType
  <2>2. clock \in Nat
    BY FwAssumption DEF FwInv, FwTypeOK
  <2>3. QED BY <2>1, <2>2, OffsetTime DEF LocalTimeOfOffset
<1>4. QED BY <1>1, <1>2, <1>3 DEF FwInv, LogsKept

(* Whatever the goroutines of LogResponse do, the ring of a server holds   *)
(* the newest BOUNDS change logs it wrote and lists them, as long as no    *)
(* two of them overlapped and their times increase: the place GetCurrentId *)
(* computes from the times is always the oldest one of the ring.           *)
THEOREM LogsAreKept == FwSpec => []LogsKept
BY FwInitInv, FwNextInv, FwInvLogsKept, PTL DEF FwSpec
=============================================================================
