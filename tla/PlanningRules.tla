--------------------------- MODULE PlanningRules ---------------------------
(***************************************************************************)
(* Rules over a citizen's facts: what a valid rule is, its three-valued    *)
(* evaluation with the facts that are missing and those that decided, the  *)
(* facts derived from submitted ones, and the preparation of a case.       *)
(*                                                                         *)
(* A date is the number yyyymmdd, so that dates compare as numbers.        *)
(***************************************************************************)
EXTENDS TrustProjection, Sequences

CONSTANTS
  Definitions,  \* fact key -> [kind, derived, values]
  Rules         \* the rules in use, with all their parts

Keys       == DOMAIN Definitions
SourceKeys == {k \in Keys : ~Definitions[k].derived}

Leaves   == {"eq", "in", "lt", "lte", "gt", "gte", "exists"}
Ordering == {"lt", "lte", "gt", "gte"}

Parts(rule)   == IF rule.op \in Leaves THEN {} ELSE {rule.children[i] : i \in DOMAIN rule.children}
FactsOf(rule) == IF rule.op \in Leaves THEN {rule.fact} ELSE {}

\* A derived value is whatever its implementation computes; a submitted one
\* is a member of its definition's values.
WellTyped(key, value) == Definitions[key].derived \/ value \in Definitions[key].values

\* What the decoder accepts of one node.
WellFormedNode(rule) ==
  CASE rule.op \in {"all", "any"} -> rule.children # <<>>
    [] rule.op = "not"            -> Len(rule.children) = 1
    [] rule.op = "exists"         -> rule.fact \in SourceKeys
    [] rule.op \in Ordering       -> /\ rule.fact \in Keys
                                     /\ Definitions[rule.fact].kind \in {"integer", "date"}
                                     /\ WellTyped(rule.fact, rule.value)
    [] rule.op = "eq"             -> rule.fact \in Keys /\ WellTyped(rule.fact, rule.value)
    [] rule.op = "in"             -> /\ rule.fact \in Keys /\ rule.value # {}
                                     /\ \A v \in rule.value : WellTyped(rule.fact, v)

\* Every rule is one node of a finite tree: among any rules there is one that has
\* none of the others as a part.
ASSUME RulesAreValid ==
  /\ \A rule \in Rules :
       /\ rule.op \in Leaves \cup {"all", "any", "not"}
       /\ rule.op \notin Leaves => rule.children \in Seq(Rules)
       /\ WellFormedNode(rule)
  /\ \A some \in SUBSET Rules : some # {} => \E rule \in some : Parts(rule) \cap some = {}

-----------------------------------------------------------------------------
(* Evaluation.  An evaluation has a value, the facts without which it is
   unknown, and the submitted facts that decided it.                         *)

\* Fault: an unknown part of a disjunction counts as false.
KleeneLosesUnknown(op, values) ==
  IF op = "all" THEN IF "FALSE" \in values THEN "FALSE"
                     ELSE IF values = {"TRUE"} THEN "TRUE" ELSE "UNKNOWN"
  ELSE IF "TRUE" \in values THEN "TRUE" ELSE "FALSE"

\* Strong Kleene conjunction and disjunction of the values of the parts.
Kleene(op, values) ==
  LET decisive == IF op = "all" THEN "FALSE" ELSE "TRUE"
      neutral  == IF op = "all" THEN "TRUE" ELSE "FALSE"
  IN IF decisive \in values THEN decisive
     ELSE IF values = {neutral} THEN neutral ELSE "UNKNOWN"

\* Fault: only one of the parts that decide is traced.
DecidedByOne(value, parts) == (CHOOSE p \in parts : p.value = value).decided

\* Parts of another value are dominated and do not count (_dominated).
DecidedBy(value, parts) == UNION {p.decided : p \in {q \in parts : q.value = value}}

Compose(op, parts) ==
  LET value == Kleene(op, {p.value : p \in parts}) IN
  [value   |-> value,
   missing |-> IF value = "UNKNOWN"
               THEN UNION {p.missing : p \in {q \in parts : q.value = "UNKNOWN"}} ELSE {},
   decided |-> DecidedBy(value, parts)]

Truth(b) == IF b THEN "TRUE" ELSE "FALSE"

Negate(e) ==
  [e EXCEPT !.value = CASE @ = "TRUE" -> "FALSE" [] @ = "FALSE" -> "TRUE" [] OTHER -> "UNKNOWN"]

Matches(rule, actual) ==
  CASE rule.op = "eq"  -> actual = rule.value
    [] rule.op = "in"  -> actual \in rule.value
    [] rule.op = "lt"  -> actual < rule.value
    [] rule.op = "lte" -> actual <= rule.value
    [] rule.op = "gt"  -> actual > rule.value
    [] rule.op = "gte" -> actual >= rule.value

\* values: submitted and derived facts; submitted: the keys of the former.
EvaluateLeaf(rule, values, submitted) ==
  LET decided == submitted \cap {rule.fact} IN
  IF rule.op = "exists" THEN
    [value |-> Truth(rule.fact \in submitted), missing |-> {}, decided |-> decided]
  ELSE IF rule.fact \notin DOMAIN values THEN
    [value |-> "UNKNOWN", missing |-> {rule.fact}, decided |-> {}]
  ELSE [value |-> Truth(Matches(rule, values[rule.fact])), missing |-> {}, decided |-> decided]

\* The evaluation of every rule.
Evaluate(values, submitted) ==
  LET E[r \in Rules] ==
        IF r.op \in Leaves THEN EvaluateLeaf(r, values, submitted)
        ELSE IF r.op = "not" THEN Negate(E[r.children[1]])
        ELSE Compose(r.op, {E[part] : part \in Parts(r)})
  IN E

-----------------------------------------------------------------------------
(* Derived facts. *)

Year(d)  == d \div 10000
Month(d) == (d \div 100) % 100
MDay(d)  == d % 100

Leap(y) == y % 4 = 0 /\ (y % 100 # 0 \/ y % 400 = 0)

MonthLength(y, m) ==
  CASE m = 2 -> IF Leap(y) THEN 29 ELSE 28
    [] m \in {4, 6, 9, 11} -> 30
    [] OTHER -> 31

CompletedYears(birth, day) ==
  Year(day) - Year(birth) - IF day % 10000 < birth % 10000 THEN 1 ELSE 0

\* The same day of a later month, or the last one of it.
AddMonths(d, months) ==
  LET index == Month(d) - 1 + months
      y == Year(d) + (index \div 12)
      m == (index % 12) + 1
      last == MonthLength(y, m)
  IN (y * 10000) + (m * 100) + IF MDay(d) < last THEN MDay(d) ELSE last

DerivedFrom ==
  [age_years_on_evaluation_date        |-> {"birth_date"},
   card_expired_before_evaluation_date |-> {"national_id_expiry_date"},
   renewal_deadline_date               |-> {"national_id_expiry_date"},
   renewal_deadline_passed             |-> {"national_id_expiry_date"},
   only_son_candidate                  |-> {"father_alive", "other_living_sons_of_father_count"}]

DerivedKeys == Keys \cap DOMAIN DerivedFrom

\* A definition of a key that is derived says so (derived_definition_is_compatible).
ASSUME DefinitionsAssumption ==
  IsFiniteSet(Keys) /\ \A key \in DerivedKeys : Definitions[key].derived

Derive(key, facts, day) ==
  CASE key = "age_years_on_evaluation_date" -> CompletedYears(facts["birth_date"], day)
    [] key = "card_expired_before_evaluation_date" -> day > facts["national_id_expiry_date"]
    [] key = "renewal_deadline_date" -> AddMonths(facts["national_id_expiry_date"], 3)
    [] key = "renewal_deadline_passed" -> day > AddMonths(facts["national_id_expiry_date"], 3)
    [] key = "only_son_candidate" ->
         facts["father_alive"] /\ facts["other_living_sons_of_father_count"] = 0

-----------------------------------------------------------------------------
(* Preparation of a case: the submitted facts with those derived from them,
   and what each rule says of them, unless the facts are impossible or
   contradict each other.                                                    *)

Omitted(key, facts) == DerivedFrom[key] \ DOMAIN facts

CaseOf(values, facts) ==
  [values  |-> values,
   verdict |-> Evaluate(values, DOMAIN facts),
   omitted |-> [k \in DerivedKeys \ DOMAIN values |-> Omitted(k, facts)]]

Prepared(facts, day) ==
  LET known == {k \in DerivedKeys : Omitted(k, facts) = {}} IN
  CaseOf([k \in known \cup DOMAIN facts |->
            IF k \in DOMAIN facts THEN facts[k] ELSE Derive(k, facts, day)], facts)

Unsupported(facts) ==
  {k \in DOMAIN facts : k \notin SourceKeys \/ facts[k] \notin Definitions[k].values}

\* The age of someone born after the evaluation date is refused.
Unborn(facts, day) ==
  IF /\ "age_years_on_evaluation_date" \in DerivedKeys
     /\ "birth_date" \in DOMAIN facts /\ facts["birth_date"] > day
  THEN {"birth_date"} ELSE {}

\* The facts a rule mentions.
Referenced(rule) ==
  LET R[r \in Rules] == FactsOf(r) \cup UNION {R[part] : part \in Parts(r)} IN R[rule]

\* A contradiction is between two or more source facts.
Malformed(contradiction) ==
  Cardinality(Referenced(contradiction)) < 2 \/ ~(Referenced(contradiction) \subseteq SourceKeys)

Contradicted(contradictions, case) ==
  UNION {case.verdict[c].decided : c \in {d \in contradictions : case.verdict[d].value = "TRUE"}}

\* The keys of the facts that are refused; the case is accepted if there are none.
Refused(contradictions, facts, day) ==
  IF Unsupported(facts) # {} THEN Unsupported(facts)
  ELSE IF Unborn(facts, day) # {} THEN Unborn(facts, day)
  ELSE Contradicted(contradictions, Prepared(facts, day))
=============================================================================
