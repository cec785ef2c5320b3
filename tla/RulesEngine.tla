----------------------------- MODULE RulesEngine -----------------------------
(***************************************************************************)
(* Rules: conditions on the parameters a device sends, joined by AND and   *)
(* OR, and the functions that build, evaluate and compare them             *)
(* (rulesengine/, and the rule factory of shared/estbfirmware).            *)
(*                                                                         *)
(* A parameter's value is a string of Values, Empty, or Absent when the    *)
(* device did not send it.  What the program computes from a string is     *)
(* given by constants: the number or the time it reads as, where its hash  *)
(* lies between 0 and 100 percent, which patterns it matches.              *)
(***************************************************************************)
EXTENDS Integers, Sequences, FiniteSets, SequencesExt

CONSTANTS
    Values,        \* non-empty strings, also list names, numbers and patterns
    AsNumber,      \* [Values -> Nat \cup {NaN}]: strconv.Atoi, ParseFloat, time.Parse
    AsRange,       \* [Values -> two of Nat \cup {NaN}]: "10-50" read as a range
    Hash,          \* [Values -> 0..100]: siphash of the string, in percent
    Matches,       \* pairs of a regular expression and a string it matches
    Globs,         \* pairs of a filepath pattern and a string it matches
    Lists,         \* [list names -> SUBSET Values]: the namespaced lists
    Conditions,    \* the conditions rules are built from
    Nested,        \* ... and the pairs of them that rules to be nested are built from
    Contexts,      \* the parameters of the requests that rules are tried on
    FilterContexts,\* ... and those that filters of the factory are tried on
    Filters,       \* the parameters of time filters
    RiFilters,     \* the parameters of reboot-immediately filters
    TimeType,      \* type of the free argument "time": STRING, or TIME in old rules
    MaxParts,      \* bound on the parts of a rule that is built
    MaxDepth       \* bound on the depth of a rule

NaN == -1
Empty == ""
Absent == "<absent>"

ASSUME ValuesOK ==
    /\ Values \subseteq STRING /\ Empty \notin Values /\ Absent \notin Values
    /\ AsNumber \in [Values -> Nat \cup {NaN}]
    /\ AsRange \in [Values -> (Nat \cup {NaN}) \X (Nat \cup {NaN})]
    /\ Hash \in [Values -> 0..100]
    /\ Matches \subseteq Values \X Values /\ Globs \subseteq Values \X Values
    /\ MaxParts \in Nat /\ TimeType \in {"STRING", "TIME"}
    /\ MaxDepth \in Nat /\ MaxDepth >= 2

VARIABLES
    rule,          \* the rule that has been built
    filter         \* <<>>, or <<p>>: the factory's parameters the rule was made from

vars == <<rule, filter>>

-----------------------------------------------------------------------------
(* Conditions: a typed free argument, an operation and a fixed argument.   *)
NoArg == [kind |-> "nil", str |-> Empty, num |-> 0, set |-> {}]
Str(s) == [kind |-> "string", str |-> s, num |-> 0, set |-> {}]
Dbl(n) == [kind |-> "double", str |-> Empty, num |-> n, set |-> {}]
Coll(S) == [kind |-> "collection", str |-> Empty, num |-> 0, set |-> S]

Cond(type, name, op, arg) == [type |-> type, name |-> name, op |-> op, fixed |-> arg]

FixedArgs ==
    {f \in [kind : {"nil", "string", "double", "collection"}, str : STRING, num : Int, set : SUBSET STRING] :
        /\ f.kind # "string" => f.str = Empty
        /\ f.kind # "double" => f.num = 0
        /\ f.kind # "collection" => f.set = {}}
AllConditions == [type : STRING, name : STRING, op : STRING, fixed : FixedArgs]

(* The words of the rules that the program itself makes.                   *)
ASSUME WordsOK ==
    {"", "STRING", "ANY", "TIME", "IS", "IN", "IN_LIST", "GTE", "LTE", "EXISTS", "UTC", "http", "time", "timeZone",
     "rebootDecoupled", "downloadProtocol", "ipAddress", "env", "model", "eStbMac"} \subseteq STRING

(* The operations that some evaluator handles, by type of free argument.   *)
(* VOID, whose PERCENT draws a random number, occurs in no rule of the     *)
(* program and is left out.                                                *)
Comparisons == {"GT", "GTE", "LT", "LTE"}
Text == {"STRING", "IP_ADDRESS", "MAC_ADDRESS"}
Evaluators ==
    [STRING      |-> Comparisons \cup {"IS", "LIKE", "IN", "ANY_MATCHED", "PERCENT",
                                       "IN_LIST", "MATCH", "RANGE"},
     ANY         |-> {"EXISTS"},
     LONG        |-> Comparisons \cup {"IS", "IN"},
     TIME        |-> Comparisons \cup {"IS"},
     IP_ADDRESS  |-> {"IS", "IN", "PERCENT", "IN_LIST"},
     MAC_ADDRESS |-> {"IS", "LIKE", "IN"}]

HasEvaluator(c) == c.type \in DOMAIN Evaluators /\ c.op \in Evaluators[c.type]

FitsPercent(v, percent) == Hash[v] <= percent

evalRange(v, s) ==
    LET low == AsRange[s][1]
        high == AsRange[s][2]
    IN  low >= 0 /\ high > 0 /\ ~FitsPercent(v, low) /\ FitsPercent(v, high)

(* ComparingEvaluator: whole numbers for LONG, times of day for TIME.  For *)
(* any other type, STRING included, the comparison is false.               *)
Compares(c, v) ==
    LET x == AsNumber[v]
        y == IF c.type = "LONG" THEN c.fixed.num ELSE AsNumber[c.fixed.str]
    IN  /\ \/ c.type = "LONG" /\ c.fixed.kind = "double"
           \/ c.type = "TIME" /\ c.fixed.kind = "string"
        /\ x # NaN /\ y # NaN
        /\ \/ c.op = "IS" /\ x = y
           \/ c.op = "GT" /\ x > y
           \/ c.op = "GTE" /\ x >= y
           \/ c.op = "LT" /\ x < y
           \/ c.op = "LTE" /\ x <= y

(* IpAddressEvaluator: a list that does not exist has no members.          *)
IsInList(v, list) == list \in DOMAIN Lists /\ v \in Lists[list]

(* The evaluators, for a value that was sent.  The fixed argument of       *)
(* (LONG, IN) would have to be a slice of int, which GetValue never        *)
(* returns: it holds for nothing.                                          *)
Satisfies(c, v) ==
    LET f == c.fixed
    IN  \/ c.op = "IS" /\ c.type \in Text /\ f = Str(v)
        \/ c.op = "IN" /\ c.type \in Text /\ f.kind = "collection" /\ v \in f.set
        \/ c.op = "LIKE" /\ f.kind = "string" /\ <<f.str, v>> \in Matches
        \/ c.op = "MATCH" /\ f.kind = "string" /\ <<f.str, v>> \in Globs
        \/ c.op = "ANY_MATCHED" /\ f.kind = "collection"
             /\ \E p \in f.set : <<p, v>> \in Matches
        \/ c.op = "PERCENT" /\ f.kind = "double" /\ FitsPercent(v, f.num)
        \/ c.op = "PERCENT" /\ c.type = "STRING" /\ f.kind = "string"
             /\ AsNumber[f.str] # NaN /\ FitsPercent(v, AsNumber[f.str])
        \/ c.op = "RANGE" /\ f.kind = "string" /\ evalRange(v, f.str)
        \/ c.op = "IN_LIST" /\ f.kind = "string" /\ IsInList(v, f.str)
        \/ c.op \in Comparisons \cup {"IS"} /\ c.type \notin Text /\ Compares(c, v)

(* Evaluate of an evaluator: a parameter that was not sent satisfies no    *)
(* condition, an empty one only that it exists.                            *)
EvaluateCondition(c, ctx) ==
    LET v == ctx[c.name]
    IN  \/ c.op = "EXISTS" /\ v # Absent
        \/ c.op # "EXISTS" /\ v \notin {Absent, Empty} /\ Satisfies(c, v)

-----------------------------------------------------------------------------
(* Rules.  A rule without a condition is compound; relation joins it to    *)
(* the parts before it.                                                    *)
Leaf(c) == [compound |-> FALSE, negated |-> FALSE, relation |-> "", cond |-> c, parts |-> <<>>]
Compound(parts) ==
    [compound |-> TRUE, negated |-> FALSE, relation |-> "", parts |-> parts,
     cond |-> Cond("", "", "", NoArg)]

(* A condition nobody can evaluate is false, negated or not.               *)
evaluateWithNegation(r, ctx) ==
    HasEvaluator(r.cond) /\ EvaluateCondition(r.cond, ctx) # r.negated

(* The rules of depth at most d.  addRelatedCompound gives every part but  *)
(* the first a relation.                                                   *)
Joined(R) == {ps \in Seq(R) : \A i \in 2..Len(ps) : ps[i].relation # ""}
RuleOf(P) ==
    {r \in [compound : BOOLEAN, negated : BOOLEAN, relation : {"", "AND", "OR"},
            cond : AllConditions, parts : P] : r.compound \/ r.parts = <<>>}
Rules[d \in 0..MaxDepth] == RuleOf(IF d = 0 THEN {<<>>} ELSE Joined(Rules[d - 1]))
AllRules == Rules[MaxDepth]

(* A slip: a part is skipped after a failed AND, and the loop goes on.     *)
EvaluatePartsSkips(parts, holds) ==
    LET result[i \in 0..Len(parts)] ==
          IF i = 0 THEN FALSE
          ELSE LET before == result[i - 1]
               IN  IF i > 1 /\ before = (parts[i].relation = "OR") THEN before ELSE holds[i]
    IN  result[Len(parts)]

(* The loop over the parts: an alternative is skipped after a success, the *)
(* first AND after a failure ends it.  holds tells what the parts evaluate *)
(* to.                                                                     *)
AfterPart(parts, holds, i, s) ==
    IF s.ended \/ (i > 1 /\ s.result /\ parts[i].relation = "OR") THEN s
    ELSE IF i > 1 /\ ~s.result /\ parts[i].relation = "AND" THEN [s EXCEPT !.ended = TRUE]
    ELSE [s EXCEPT !.result = holds[i]]

EvaluateParts(parts, holds) ==
    LET after[i \in 0..Len(parts)] ==
          IF i = 0 THEN [result |-> FALSE, ended |-> FALSE]
          ELSE AfterPart(parts, holds, i, after[i - 1])
    IN  after[Len(parts)].result

Evaluate(r, ctx) ==
    LET ev[x \in AllRules] ==
          IF x.compound
          THEN EvaluateParts(x.parts, [i \in DOMAIN x.parts |-> ev[x.parts[i]]]) # x.negated
          ELSE evaluateWithNegation(x, ctx)
    IN  ev[r]

Not(r) == [r EXCEPT !.negated = ~r.negated]

addRelatedCompound(base, part, relation) ==
    LET parts == IF base.compound THEN base.parts ELSE <<base>>
        added == Append(parts, [part EXCEPT !.relation = relation])
    IN  IF base.compound THEN [base EXCEPT !.parts = added] ELSE Compound(added)

AndRules(base, part) == addRelatedCompound(base, part, "AND")
OrRules(base, part) == addRelatedCompound(base, part, "OR")

-----------------------------------------------------------------------------
(* Comparison of rules, for the optional conditions of percentage filters. *)
(* FlattenRule lists the conditions breadth first, that is, level by       *)
(* level; the name of the free argument is compared and not its type, and  *)
(* two missing fixed arguments are not equal.                              *)
Concat(seqs) ==
    LET upTo[i \in 0..Len(seqs)] == IF i = 0 THEN <<>> ELSE upTo[i - 1] \o seqs[i]
    IN  upTo[Len(seqs)]

Below(rs) == Concat([i \in DOMAIN rs |-> rs[i].parts])
LeavesOf(rs) == Concat([i \in DOMAIN rs |-> IF rs[i].compound THEN <<>> ELSE <<rs[i]>>])

FlattenRule(r) ==
    LET level[d \in 0..MaxDepth] == IF d = 0 THEN <<r>> ELSE Below(level[d - 1])
    IN  Concat([d \in 1..(MaxDepth + 1) |-> LeavesOf(level[d - 1])])

equalConditions(c, d) ==
    c.name = d.name /\ c.op = d.op /\ c.fixed = d.fixed /\ c.fixed.kind # "nil"

equalNonCompoundRules(r, s) ==
    r.negated = s.negated /\ r.relation = s.relation /\ equalConditions(r.cond, s.cond)

allRulesHaveSameRelation(rs) ==
    \A i \in DOMAIN rs : rs[i].relation \in {"", Last(rs).relation}

(* equalNonCompoundRulesCollections: every element is paired with the      *)
(* first one left over that equals it, if any.                             *)
SameCollection(rs, ss) ==
    LET left[i \in 0..Len(rs)] ==
          IF i = 0 THEN ss
          ELSE LET l == left[i - 1]
                   J == {j \in DOMAIN l : equalNonCompoundRules(rs[i], l[j])}
               IN  IF J = {} THEN l ELSE RemoveAt(l, Min(J))
    IN  left[Len(rs)] = <<>>

EqualComplexRules(r, s) ==
    LET rs == FlattenRule(r)
        ss == FlattenRule(s)
        Alike(qs) == [qs EXCEPT ![1].relation = Last(rs).relation]
    IN  /\ Len(rs) = Len(ss)
        /\ IF Len(rs) > 1 /\ allRulesHaveSameRelation(rs) /\ allRulesHaveSameRelation(ss)
           THEN SameCollection(Alike(rs), Alike(ss))
           ELSE \A i \in DOMAIN rs : equalNonCompoundRules(rs[i], ss[i])

-----------------------------------------------------------------------------
(* Rules made by the factory.                                              *)
IsText(name, s) == Leaf(Cond("STRING", name, "IS", Str(s)))
InText(name, S) == Leaf(Cond("STRING", name, "IN", Coll(S)))
InList(name, l) == Leaf(Cond("STRING", name, "IN_LIST", Str(l)))
TimeIs(op, s) == Leaf(Cond(TimeType, "time", op, Str(s)))

(* Conditional steps of a factory function, and those of a loop.           *)
AndIf(b, base, part) == IF b THEN AndRules(base, part) ELSE base
JoinAll(rs, relation) ==
    LET joined[i \in 1..Len(rs)] ==
          IF i = 1 THEN rs[1] ELSE addRelatedCompound(joined[i - 1], rs[i], relation)
    IN  joined[Len(rs)]

createTimeFilter(p) ==
    LET zone == IsText("timeZone", "UTC")
        r1 == AndRules(IF p.localTime THEN Not(zone) ELSE zone, TimeIs("GTE", p.start))
        r2 == IF AsNumber[p.start] < AsNumber[p.end]
              THEN AndRules(r1, TimeIs("LTE", p.end))
              ELSE OrRules(r1, TimeIs("LTE", p.end))
        r3 == AndIf(p.neverReboot, r2, Not(Leaf(Cond("ANY", "rebootDecoupled", "EXISTS", NoArg))))
        r4 == AndIf(p.neverHttp, r3, Not(IsText("downloadProtocol", "http")))
        r5 == AndIf(p.ips # Empty, r4, Not(InList("ipAddress", p.ips)))
    IN  IF p.env # Empty /\ p.model # Empty
        THEN OrRules(AndRules(r5, Not(IsText("env", p.env))), Not(IsText("model", p.model)))
        ELSE r5

(* A slip: a single restriction besides the address groups is an           *)
(* alternative to them.                                                    *)
NewRiFilterAnyOf(p) ==
    LET ips == [i \in DOMAIN p.ips |-> InList("ipAddress", p.ips[i])]
    IN  JoinAll(Append(ips, InText("eStbMac", p.macs)), "OR")

(* The first given restriction starts the rule of NewRiFilter, the others  *)
(* are added to it; the address groups are alternatives.                   *)
NewRiFilter(p) ==
    LET ips == [i \in DOMAIN p.ips |-> InList("ipAddress", p.ips[i])]
        OneIf(b, r) == IF b THEN <<r>> ELSE <<>>
        all == Concat(<<OneIf(ips # <<>>, JoinAll(ips, "OR")),
                        OneIf(p.macs # {}, InText("eStbMac", p.macs)),
                        OneIf(p.envs # {}, InText("env", p.envs)),
                        OneIf(p.models # {}, InText("model", p.models))>>)
    IN  JoinAll(all, "AND")

-----------------------------------------------------------------------------
Init ==
    /\ rule \in {Leaf(c) : c \in Conditions}
    /\ filter = <<>>

(* What operators fill in: times that read as such, lists that exist, a    *)
(* reboot-immediately filter that restricts something.  A device sends     *)
(* strings.                                                                *)
ParamNames ==
    {"time", "timeZone", "rebootDecoupled", "downloadProtocol", "ipAddress", "env", "model", "eStbMac"}
Times == {v \in Values : AsNumber[v] # NaN}

ASSUME FiltersOK ==
    /\ Lists \in [DOMAIN Lists -> SUBSET Values] /\ DOMAIN Lists \subseteq STRING \ {Empty}
    /\ Filters \subseteq
         [start : Times, end : Times, localTime : BOOLEAN, neverReboot : BOOLEAN, neverHttp : BOOLEAN,
          ips : DOMAIN Lists \cup {Empty}, env : Values \cup {Empty}, model : Values \cup {Empty}]
    /\ RiFilters \subseteq
         [ips : Seq(DOMAIN Lists), macs : SUBSET Values, envs : SUBSET Values, models : SUBSET Values]
    /\ \A p \in RiFilters : p.ips # <<>> \/ p.macs # {} \/ p.envs # {} \/ p.models # {}
    /\ \A ctx \in FilterContexts : \A n \in ParamNames : ctx[n] \in Values \cup {Empty, Absent}

ASSUME ConditionsOK == Conditions \subseteq AllConditions /\ Nested \subseteq Conditions \X Conditions

(* What a caller adds: a condition, a negated one, or a compound rule of   *)
(* its own, as the optional conditions of a percentage filter are.         *)
Leaves == {Leaf(c) : c \in Conditions} \cup {Not(Leaf(c)) : c \in Conditions}
Operands ==
    Leaves \cup {Not(OrRules(Leaf(q[1]), Leaf(q[2]))) : q \in Nested}
           \cup {AndRules(Leaf(q[1]), Leaf(q[2])) : q \in Nested}

Size == IF rule.compound THEN Len(rule.parts) ELSE 1
Building == filter = <<>> /\ Size < MaxParts

AndStep(x) ==
    /\ Building
    /\ rule' = AndRules(rule, x)
    /\ UNCHANGED filter

OrStep(x) ==
    /\ Building
    /\ rule' = OrRules(rule, x)
    /\ UNCHANGED filter

(* The rule becomes the only part of a new one, which more is added to.    *)
NestStep ==
    /\ Building /\ rule.compound /\ \A i \in DOMAIN rule.parts : ~rule.parts[i].compound
    /\ rule' = Compound(<<rule>>)
    /\ UNCHANGED filter

NotStep ==
    /\ Building
    /\ rule' = Not(rule)
    /\ UNCHANGED filter

(* Another rule to compare with: the parts in another order, the relations *)
(* kept in place, and possibly another relation or negation.               *)
Permuted(r) ==
    {[i \in DOMAIN r.parts |-> [r.parts[f[i]] EXCEPT !.relation = r.parts[i].relation]] :
        f \in Bijection(DOMAIN r.parts, DOMAIN r.parts)}
Twins(r) ==
    {Compound(ps) : ps \in Permuted(r)}
    \cup {Compound([ps EXCEPT ![i].relation = rel]) :
            ps \in Permuted(r), i \in 2..Len(r.parts), rel \in {"AND", "OR"}}
    \cup {Compound([ps EXCEPT ![i] = Not(@)]) : ps \in Permuted(r), i \in DOMAIN r.parts}

Flat(r) == r.compound /\ ~r.negated /\ \A i \in DOMAIN r.parts : ~r.parts[i].compound

TimeFilterStep(p) ==
    /\ filter = <<>> /\ ~rule.compound
    /\ rule' = createTimeFilter(p)
    /\ filter' = <<[kind |-> "time", time |-> p, ri |-> {}]>>

RiFilterStep(p) ==
    /\ filter = <<>> /\ ~rule.compound
    /\ rule' = NewRiFilter(p)
    /\ filter' = <<[kind |-> "ri", time |-> {}, ri |-> p]>>

Next ==
    \/ \E x \in Operands : AndStep(x)
    \/ \E x \in Operands : OrStep(x)
    \/ NestStep
    \/ NotStep
    \/ \E p \in Filters : TimeFilterStep(p)
    \/ \E p \in RiFilters : RiFilterStep(p)

Spec == Init /\ [][Next]_vars

-----------------------------------------------------------------------------
(* The reference: every AND starts a group of alternatives, and one        *)
(* alternative of each group has to hold; OR binds tighter than AND.       *)
Starts(parts) == {1} \cup {i \in 2..Len(parts) : parts[i].relation = "AND"}
GroupOf(parts, i) == {j \in i..Len(parts) : \A k \in (i + 1)..j : parts[k].relation = "OR"}

Means(r, ctx) ==
    LET means[x \in AllRules] ==
          IF ~x.compound THEN evaluateWithNegation(x, ctx)
          ELSE (\A i \in Starts(x.parts) : \E j \in GroupOf(x.parts, i) : means[x.parts[j]]) # x.negated
    IN  means[r]

(* RuleProcessor.Evaluate, with its skipped and abandoned parts, agrees    *)
(* with the reference: nothing that could change the result is skipped,    *)
(* however rules are nested, negated and joined.                           *)
EvaluatesInGroups ==
    \A ctx \in (IF filter = <<>> THEN Contexts ELSE FilterContexts) :
        Evaluate(rule, ctx) <=> Means(rule, ctx)

(* What EqualComplexRules relies on, as it compares the name of a free     *)
(* argument and not its type: conditions it cannot tell apart are of one   *)
(* type.                                                                   *)
OneType ==
    \A c, d \in Conditions : c.name = d.name /\ c.op = d.op /\ c.fixed = d.fixed => c.type = d.type

(* EqualComplexRules: two rules without nesting that it calls equal match  *)
(* the same devices, although it ignores the order of the parts when they  *)
(* are all joined alike.                                                   *)
EqualRulesAgree ==
    filter = <<>> /\ Flat(rule) =>
        \A s \in Twins(rule) : EqualComplexRules(rule, s) =>
            \A ctx \in Contexts : Evaluate(rule, ctx) <=> Evaluate(s, ctx)

(* The time filter made by createTimeFilter blocks exactly the devices     *)
(* whose clock is between start and end, over midnight when end is not     *)
(* later than start, and that none of its exemptions covers.  Its parts    *)
(* form one list, so this depends on how AND and OR bind.                  *)
TimeFilterBlocks ==
    filter # <<>> /\ filter[1].kind = "time" =>
        LET p == filter[1].time
            At(ctx) == IF ctx["time"] \in Values THEN AsNumber[ctx["time"]] ELSE NaN
            From == AsNumber[p.start]
            To == AsNumber[p.end]
        IN  \A ctx \in FilterContexts :
              Evaluate(rule, ctx) <=>
                /\ At(ctx) # NaN
                /\ IF From < To THEN At(ctx) \in From..To ELSE At(ctx) >= From \/ At(ctx) <= To
                /\ p.localTime <=> ctx["timeZone"] # "UTC"
                /\ ~(p.neverReboot /\ ctx["rebootDecoupled"] # Absent)
                /\ ~(p.neverHttp /\ ctx["downloadProtocol"] = "http")
                /\ ~(p.ips # Empty /\ ctx["ipAddress"] \in Lists[p.ips])
                /\ ~(p.env # Empty /\ p.model # Empty /\ ctx["env"] = p.env /\ ctx["model"] = p.model)

(* The rule of NewRiFilter selects the devices that are in one of the      *)
(* address groups and satisfy every other restriction that was given.      *)
RiFilterSelects ==
    filter # <<>> /\ filter[1].kind = "ri" =>
        LET p == filter[1].ri
        IN  \A ctx \in FilterContexts :
              Evaluate(rule, ctx) <=>
                /\ p.ips # <<>> => \E i \in DOMAIN p.ips : ctx["ipAddress"] \in Lists[p.ips[i]]
                /\ p.macs # {} => ctx["eStbMac"] \in p.macs
                /\ p.envs # {} => ctx["env"] \in p.envs
                /\ p.models # {} => ctx["model"] \in p.models

(* The rules that the factory makes of time and reboot-immediately filters *)
(* select what the filters say (createTimeFilter, NewRiFilter).            *)
FiltersSelect == TimeFilterBlocks /\ RiFilterSelects
=============================================================================
