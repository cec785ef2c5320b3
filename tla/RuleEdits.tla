------------------------------ MODULE RuleEdits ------------------------------
(***************************************************************************)
(* What happens to a rule between an operator's form and the table: its    *)
(* conditions are normalised, it is searched for conditions given twice,   *)
(* compared with other rules, and later a list that it names is renamed    *)
(* (rulesengine/rule_utils.go, rule.go, condition.go, fixed_arg.go).       *)
(*                                                                         *)
(* How a string is spelled is given by constants.  A rule that is refused  *)
(* is dropped by its caller.                                               *)
(***************************************************************************)
EXTENDS RulesEngine

CONSTANTS
    Trim,          \* [spellings -> spellings]: strings.Trim(s, " ")
    ToUpper,       \* [spellings -> spellings]: strings.ToUpper
    MacOf,         \* [spellings -> spellings and NotMac]: the colon form of a MAC
    EditRules,     \* the rules of operators' forms
    EditContexts,  \* requests, whose parameters are in canonical spelling
    Renames        \* pairs of a list's old and its new name

NotMac == "<not a mac>"
Spellings == DOMAIN Trim

(* A spelling that was trimmed or put in upper case stays as it is when    *)
(* that is done again, as does the colon form of a MAC, for which case     *)
(* does not matter.                                                        *)
ASSUME SpellingsOK ==
    /\ Spellings \subseteq STRING /\ NotMac \notin Spellings
    /\ Trim \in [Spellings -> Spellings] /\ ToUpper \in [Spellings -> Spellings]
    /\ MacOf \in [Spellings -> Spellings \cup {NotMac}]
    /\ \A v \in Spellings :
         /\ Trim[Trim[v]] = Trim[v]
         /\ \A u \in {ToUpper[Trim[v]]} : Trim[u] = u /\ ToUpper[u] = u
         /\ MacOf[ToUpper[v]] = MacOf[v]
         /\ \A u \in {MacOf[v]} \ {NotMac} : Trim[u] = u /\ ToUpper[u] = u /\ MacOf[u] = u

VARIABLE edit      \* what was done last, to which rule, with which result

NoRuleYet == Compound(<<>>)
EditInit == edit = [step |-> "none", was |-> NoRuleYet, rule |-> NoRuleYet, list |-> Empty]

-----------------------------------------------------------------------------
(* ToConditions: the conditions of a rule, and the rule with each of them  *)
(* changed in place.                                                       *)
ConditionsOf(r) ==
    LET conditions[x \in AllRules] ==
          IF x.compound THEN UNION {conditions[x.parts[i]] : i \in DOMAIN x.parts} ELSE {x.cond}
    IN  conditions[r]

Mapped(r, f) ==
    LET mapped[x \in {x \in AllRules : ConditionsOf(x) \subseteq DOMAIN f}] ==
          IF x.compound THEN [x EXCEPT !.parts = [i \in DOMAIN x.parts |-> mapped[x.parts[i]]]]
          ELSE [x EXCEPT !.cond = f[x.cond]]
    IN  mapped[r]

(* The conditions of forms.  IN carries a collection: for a MAC address or *)
(* a partner, IN with a single string dereferences nil.  IN_LIST carries   *)
(* the name of a list.                                                     *)
ValuesOf(f) == IF f.kind = "string" THEN {f.str} ELSE f.set
FormConditions ==
    {c \in AllConditions :
        /\ {c.name} \cup ValuesOf(c.fixed) \subseteq Spellings
        /\ c.op = "IN" => c.fixed.kind = "collection"
        /\ c.fixed.kind = "collection" => c.op \in {"IN", "ANY_MATCHED"}
        /\ c.op = "IN_LIST" => c.fixed.kind = "string"}

(* A list keeps its members when it is renamed.                            *)
ASSUME FormsOK ==
    /\ EditRules \subseteq {r \in AllRules : ConditionsOf(r) \subseteq FormConditions}
    /\ \A p \in Renames : {p[1], p[2]} \subseteq DOMAIN Lists \cap Spellings
                          /\ p[1] # p[2] /\ Lists[p[1]] = Lists[p[2]]

(* A fixed argument, each of its strings changed.                          *)
Argument(f, to) ==
    IF f.kind = "string" THEN Str(to[f.str])
    ELSE IF f.kind = "collection" THEN Coll({to[v] : v \in f.set})
    ELSE f

-----------------------------------------------------------------------------
(* Normalising.                                                            *)
MacNames == {"eStbMac", "eCMMac", "ecmMacAddress", "estbMacAddress"}

modifyFixedArg(v, name, op) ==
    IF name \in {"model", "env", "eStbMac", "estbMacAddress"} /\ op \in {"IS", "IN"}
    THEN ToUpper[v] ELSE v

normalizeFixedArgValue(c) ==
    [c EXCEPT !.fixed = Argument(@, [v \in Spellings |-> modifyFixedArg(Trim[v], c.name, c.op)])]

MACAddressValidator(v) == MacOf[v] # NotMac
ValidateAndNormalizeMacAddress == MacOf

HasMacs(c) == c.name \in MacNames /\ c.op \in {"IS", "LIKE", "IN"}

normalizeMacAddress(c) ==
    IF HasMacs(c) THEN [c EXCEPT !.fixed = Argument(@, ValidateAndNormalizeMacAddress)] ELSE c

normalizePartnerId(c) ==
    IF c.name = "partnerId" /\ c.op \in {"IS", "IN"}
    THEN [c EXCEPT !.fixed = Argument(@, ToUpper)] ELSE c

Spelled(c) == normalizeFixedArgValue([c EXCEPT !.name = Trim[@]])

NormalizeCondition(c) == normalizePartnerId(normalizeMacAddress(Spelled(c)))

(* The first address that is not one ends the loop with an error.          *)
HasInvalidMac(given) ==
    LET c == Spelled(given)
    IN  HasMacs(c) /\ \E v \in ValuesOf(c.fixed) : ~MACAddressValidator(v)

Refused(r) == \E given \in ConditionsOf(r) : HasInvalidMac(given)

Accepted == {c \in FormConditions : ~HasInvalidMac(c)}
NormalizeConditions(r) == Mapped(r, [c \in Accepted |-> NormalizeCondition(c)])

-----------------------------------------------------------------------------
(* Equality, by which conditions given twice are found.  Collections are   *)
(* compared as sets: they are sorted, in place, and lose duplicates.       *)
FixedArgEquals(f, g) == f.kind = g.kind /\ f.str = g.str /\ f.num = g.num /\ f.set = g.set

ConditionEquals(c, d) ==
    c.op = d.op /\ c.type = d.type /\ c.name = d.name /\ FixedArgEquals(c.fixed, d.fixed)

(* A compound rule of one part is compared as that part: the part's own    *)
(* negation and relation count for nothing.                                *)
Unwrapped(r) == IF r.compound /\ Len(r.parts) = 1 THEN r.parts[1] ELSE r

Alike(r, x, equal) ==
    LET a == Unwrapped(r)
        b == Unwrapped(x)
    IN  /\ r.negated = x.negated /\ r.relation = x.relation
        /\ a.compound = b.compound
        /\ a.compound \/ ConditionEquals(a.cond, b.cond)
        /\ Len(a.parts) = Len(b.parts)
        /\ \A i \in DOMAIN a.parts : <<a.parts[i], b.parts[i]>> \in equal

(* The recursion of Rule.Equals, by the depth of the rules.                *)
EqualTo[d \in 0..MaxDepth] ==
    {p \in AllRules \X AllRules : Alike(p[1], p[2], IF d = 0 THEN {} ELSE EqualTo[d - 1])}

Equals(r, x) == <<r, x>> \in EqualTo[MaxDepth]

(* The first of each group of equal elements that has more than one.       *)
Repeated(s, Same(_, _)) ==
    LET first == {i \in DOMAIN s : \A j \in 1..(i - 1) : ~Same(s[i], s[j])}
    IN  {s[i] : i \in {i \in first : \E j \in DOMAIN s : j # i /\ Same(s[j], s[i])}}

(* A slip: a condition and its negation are the same.                      *)
MutAnyNegation(rs) ==
    Repeated([rs EXCEPT ![1].relation = "AND"],
             LAMBDA r, x : r.relation = x.relation /\ ConditionEquals(r.cond, x.cond))

(* getDuplicateNonCompoundRules: the first condition counts as joined by   *)
(* AND.                                                                    *)
getDuplicateNonCompoundRules(rs) == Repeated([rs EXCEPT ![1].relation = "AND"], Equals)

GetDuplicateConditionsFromRule(r) ==
    LET rs == FlattenRule(r)
    IN  IF Len(rs) > 1 THEN {x.cond : x \in getDuplicateNonCompoundRules(rs)} ELSE {}

GetDuplicateConditionsForAdmin(conds) == Repeated(conds, ConditionEquals)

(* Every OR starts a new group, and negations are ignored.                 *)
GetDuplicateConditionsBetweenOR(r) ==
    LET rs == FlattenRule(r)
        starts == {1} \cup {i \in DOMAIN rs : rs[i].relation = "OR"}
        end(i) == Min({j - 1 : j \in {j \in starts : j > i}} \cup {Len(rs)})
        group(i) == [k \in 1..(end(i) - i + 1) |-> rs[i + k - 1].cond]
    IN  UNION {GetDuplicateConditionsForAdmin(group(i)) : i \in starts}

-----------------------------------------------------------------------------
(* Lists.                                                                  *)
GetInListNames(r) ==
    {c.fixed.str : c \in {c \in ConditionsOf(r) : c.op = "IN_LIST"}}

ChangeFixedArgToNewValue(old, new, r, op) ==
    Mapped(r, [c \in FormConditions |->
                 IF c.op = op /\ c.fixed = Str(old) THEN [c EXCEPT !.fixed = Str(new)] ELSE c])

-----------------------------------------------------------------------------
Submit(r) ==
    /\ edit.step = "none"
    /\ edit' = IF Refused(r)
               THEN [step |-> "refused", was |-> r, rule |-> r, list |-> Empty]
               ELSE [step |-> "normalized", was |-> r, rule |-> NormalizeConditions(r), list |-> Empty]

RenameList(old, new) ==
    /\ edit.step = "normalized"
    /\ edit' = [step |-> "renamed", was |-> edit.rule, list |-> old,
                rule |-> ChangeFixedArgToNewValue(old, new, edit.rule, "IN_LIST")]

EditNext ==
    \/ \E r \in EditRules : Submit(r)
    \/ \E p \in Renames : RenameList(p[1], p[2])

EditSpec == EditInit /\ [][EditNext]_edit

-----------------------------------------------------------------------------
(* The one spelling of v that devices send for the parameter.              *)
Canonical(name, v) ==
    IF name \in MacNames THEN MacOf[Trim[v]]
    ELSE IF name \in {"env", "model", "partnerId"} THEN ToUpper[Trim[v]] ELSE Trim[v]

Selects(r, s) == \A ctx \in EditContexts : Evaluate(r, ctx) <=> Evaluate(s, ctx)

(* NormalizeConditions: a condition IS or IN accepts a canonical value     *)
(* exactly when the operator gave some spelling of it, whatever path the   *)
(* value took through the three normalisations; no other condition comes   *)
(* in; and what is normalised stays as it is when it is submitted again.   *)
NormalisedSelects ==
    edit.step = "normalized" =>
        /\ ~Refused(edit.rule) /\ NormalizeConditions(edit.rule) = edit.rule
        /\ ConditionsOf(edit.rule) = {NormalizeCondition(given) : given \in ConditionsOf(edit.was)}
        /\ \A given \in ConditionsOf(edit.was) :
             LET c == NormalizeCondition(given)
             IN  c.op \in {"IS", "IN"} /\ c.type \in Text =>
                   \A v \in {Canonical(c.name, w) : w \in Spellings} \ {NotMac} :
                       Satisfies(c, v) <=> \E w \in Spellings : Canonical(c.name, w) = v /\ Satisfies(given, w)

NormalRules == {NormalizeConditions(s) : s \in {s \in EditRules : ~Refused(s)}}

HidesNegation(r) ==
    LET hides[x \in AllRules] ==
          \/ x.compound /\ Len(x.parts) = 1 /\ x.parts[1].negated
          \/ \E i \in DOMAIN x.parts : hides[x.parts[i]]
    IN  hides[r]

Plain(r) == ~HidesNegation(r) /\ \A c \in ConditionsOf(r) : HasEvaluator(c)

(* Rule.Equals: rules that it calls equal select the same devices, when no *)
(* compound rule of one part hides a negation and every condition can be   *)
(* evaluated.                                                              *)
EqualsAgree ==
    edit.step = "normalized" /\ Plain(edit.rule) =>
        \A x \in NormalRules : Plain(x) /\ Equals(edit.rule, x) => Selects(edit.rule, x)

(* In a rule whose parts are all joined alike, a condition reported as     *)
(* given twice can be given once without changing which devices the rule   *)
(* selects; when they are joined by AND, none goes unreported, however the *)
(* operator had spelled it, and the search that ignores negations reports  *)
(* at least as many.                                                       *)
DuplicatesRedundant ==
    edit.step = "normalized" /\ Flat(edit.rule) /\ allRulesHaveSameRelation(edit.rule.parts) =>
        LET r == edit.rule
            dups == GetDuplicateConditionsFromRule(r)
            Same(i, j) == r.parts[i].negated = r.parts[j].negated /\ r.parts[i].cond = r.parts[j].cond
            again(c) == {i \in DOMAIN r.parts : r.parts[i].cond = c /\ \E j \in 1..(i - 1) : Same(i, j)}
        IN  /\ \A c \in dups : again(c) # {} /\ Selects(r, Compound(RemoveAt(r.parts, Max(again(c)))))
            /\ Last(r.parts).relation = "AND" =>
                 /\ \A i, j \in DOMAIN r.parts : i # j /\ Same(i, j) => r.parts[i].cond \in dups
                 /\ dups \subseteq GetDuplicateConditionsBetweenOR(r)

(* ChangeFixedArgToNewValue for a renamed list: the rule selects the same  *)
(* devices as before, although a value elsewhere may read like the list's  *)
(* name, and no condition names the old list any more.                     *)
RenameSelects ==
    edit.step = "renamed" =>
        Selects(edit.was, edit.rule) /\ edit.list \notin GetInListNames(edit.rule)

(* What the admin service does to a rule does not change the devices it    *)
(* selects: normalising its conditions, taking an equal rule for it,       *)
(* dropping a condition reported as a duplicate, renaming a list.          *)
EditsKeepSelection ==
    /\ EqualRulesAgree
    /\ EqualsAgree
    /\ NormalisedSelects
    /\ DuplicatesRedundant
    /\ RenameSelects
=============================================================================
