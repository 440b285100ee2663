---------------------- MODULE PlanningDialogue_proofs ----------------------
(***************************************************************************)
(* Proofs about the questionnaire and the planner together, for any        *)
(* catalogues, facts, rules and days: the version that is used is the one  *)
(* in force; what a citizen changes never slips under the answers that     *)
(* stay; plans and refusals stand in every case that may still be revealed *)
(* and nothing is dropped from a plan without a word; the facts blamed for *)
(* a contradiction suffice for it; every question is progress.             *)
(***************************************************************************)
EXTENDS PlanningDialogue, FiniteSetTheorems, WellFoundedInduction, TLAPS

-----------------------------------------------------------------------------
(* What an answer of the planner says of the version that was looked for. *)

VersionReasons == {"no_applicable_version", "not_yet_effective", "no_published_version"}

\* A question resolves source facts only.
LEMMA QuestionsAskSources ==
  ASSUME NEW q, QuestionResult(q).kind = "question"
  PROVE  QuestionResult(q).question.facts \subseteq SourceKeys
BY DEF QuestionResult, ConfigurationInvalid

LEMMA QuestionResultKinds ==
  ASSUME NEW q
  PROVE  QuestionResult(q).kind \in {"question", "configuration_invalid"}
BY DEF QuestionResult, ConfigurationInvalid

\* What a result may be that no version has been looked for yet.
Unversioned(r) ==
  /\ r.kind # "plan"
  /\ r.kind = "inconclusive" => r.reason \notin VersionReasons
  /\ r.kind = "question" => r.question.facts \subseteq SourceKeys

LEMMA QuestionsAreUnversioned ==
  ASSUME NEW q
  PROVE  Unversioned(QuestionResult(q))
BY QuestionsAskSources, QuestionResultKinds DEF Unversioned

\* The refusals of the parts of a plan.
Refusals ==
  {"procedure_version_not_applicable", "no_applicable_eligibility_basis",
   "checklist_applicability_unknown", "step_applicability_unknown"}

LEMMA AnswersAreUnversioned ==
  ASSUME NEW c, NEW case, NEW part, Obstructs(part), part.refusal \in Refusals \cup {None}
  PROVE  Unversioned(Answered(c, case, part))
<1>1. CASE part.defective
  BY <1>1 DEF Answered, ConfigurationInvalid, Unversioned
<1>2. CASE ~part.defective /\ part.missing # {}
  BY <1>2, QuestionsAreUnversioned DEF Answered
<1>3. CASE ~part.defective /\ part.missing = {}
  <2>1. part.refusal \in Refusals
    BY <1>3 DEF Obstructs
  <2>2. Answered(c, case, part) = [kind |-> "inconclusive", reason |-> part.refusal]
    BY <1>3 DEF Answered, Inconclusive
  <2> QED BY <2>1, <2>2 DEF Unversioned, Refusals, VersionReasons
<1> QED BY <1>1, <1>2, <1>3

\* The first part that stands in the way is one of the parts, and stands in the way.
LEMMA FirstObstacle ==
  ASSUME NEW a, NEW b, NEW d, NEW l, NEW s, NEW f, NEW first,
         first = SelectInSeq(<<a, b, d, l, s, f>>, Obstructs), first # 0
  PROVE  /\ first \in 1..6
         /\ Obstructs(<<a, b, d, l, s, f>>[first])
<1> DEFINE I == {i \in 1..6 : Obstructs(<<a, b, d, l, s, f>>[i])}
<1>1. first = Min(I) /\ I # {}
  BY DEF SelectInSeq
<1>2. \E i \in I : \A j \in I : i <= j
  <2>1. PICK x \in I : TRUE
    BY <1>1
  <2> QED
    BY <2>1
<1>3. first \in I
  BY <1>1, <1>2 DEF Min
<1> QED BY <1>3

LEMMA PlansUseTheVersion ==
  ASSUME NEW c, NEW v, NEW case, NEW day_
  PROVE  LET r == PlanVersion(c, v, case, day_) IN
         \/ r.kind = "plan" /\ r.version = v
         \/ Unversioned(r)
<1> DEFINE a == Applicable(case.verdict[v.applicability])
           b == SelectBases(v, case, day_)
           d == SelectDependencies(c, v, case, day_)
           l == SelectChecklistItems(v, case, day_, b.trusted)
           s == SelectSteps(v, case, day_, b.trusted)
           f == SelectFees(v, case, day_, b.trusted)
           parts == <<a, b, d, l, s, f>>
           first == SelectInSeq(parts, Obstructs)
<1>1. PlanVersion(c, v, case, day_) = PlanOf(c, v, case, day_, a, b, d, l, s, f)
  BY DEF PlanVersion, PlanWith
<1>2. a.refusal \in Refusals \cup {None}
  BY DEF Applicable, Refusals
<1>3. b.refusal \in Refusals \cup {None}
  BY DEF SelectBases, BasesBy, Refusals
<1>4. d.refusal \in Refusals \cup {None}
  BY DEF SelectDependencies, Refusals
<1>5. l.refusal \in Refusals \cup {None}
  BY DEF SelectChecklistItems, Section, Refusals
<1>6. s.refusal \in Refusals \cup {None}
  BY DEF SelectSteps, Section, Refusals
<1>7. f.refusal \in Refusals \cup {None}
  BY DEF SelectFees, Refusals
<1> HIDE DEF a, b, d, l, s, f
<1>8. CASE first = 0
  BY <1>1, <1>8 DEF PlanOf
<1>9. CASE first # 0
  <2>1. first \in 1..6 /\ Obstructs(parts[first])
    BY <1>9, FirstObstacle
  <2>2. parts[first].refusal \in Refusals \cup {None}
    BY <1>2, <1>3, <1>4, <1>5, <1>6, <1>7, <2>1
  <2>3. PlanVersion(c, v, case, day_) = Answered(c, case, parts[first])
    BY <1>1, <1>9 DEF PlanOf
  <2> QED BY <2>1, <2>2, <2>3, AnswersAreUnversioned
<1> QED BY <1>8, <1>9

(* What a result says of the version in force of some candidate's procedure. *)
AboutTheVersion(c, day_, r) ==
  \E x \in c.candidates :
    LET found == ResolveProcedureVersion(c, x.procedure, day_) IN
    \/ found.kind = "resolved" /\ r.kind = "plan" /\ r.version = found.version
    \/ found.kind = "unavailable" /\ r.kind = "inconclusive" /\ r.reason = found.reason

LEMMA ResolutionKinds ==
  ASSUME NEW c, NEW p, NEW day_
  PROVE  ResolveProcedureVersion(c, p, day_).kind \in {"resolved", "unavailable", "defective"}
BY DEF ResolveProcedureVersion, Resolved, Unavailable, Defective

LEMMA SelectedPlans ==
  ASSUME NEW c, NEW x \in c.candidates, NEW case, NEW day_
  PROVE  LET r == PlanSelected(c, ResolveProcedureVersion(c, x.procedure, day_), case, day_) IN
         Unversioned(r) \/ AboutTheVersion(c, day_, r)
<1> DEFINE found == ResolveProcedureVersion(c, x.procedure, day_)
           r     == PlanSelected(c, found, case, day_)
<1>1. CASE found.kind = "resolved"
  <2>1. r = PlanVersion(c, found.version, case, day_)
    BY <1>1 DEF PlanSelected
  <2>2. (r.kind = "plan" /\ r.version = found.version) \/ Unversioned(r)
    BY <2>1, PlansUseTheVersion
  <2> QED BY <1>1, <2>2 DEF AboutTheVersion
<1>2. CASE found.kind = "unavailable"
  <2>1. r = [kind |-> "inconclusive", reason |-> found.reason]
    BY <1>2 DEF PlanSelected, Inconclusive
  <2> QED BY <1>2, <2>1 DEF AboutTheVersion
<1>3. CASE found.kind = "defective"
  BY <1>3 DEF PlanSelected, ConfigurationInvalid, Unversioned
<1> QED BY <1>1, <1>2, <1>3, ResolutionKinds

\* A procedure is selected only if a candidate leads to it.
LEMMA SelectionsAreCandidates ==
  ASSUME NEW c, NEW case, NEW r, r = SelectProcedure(c, case)
  PROVE  \/ r.kind = "selected" /\ \E x \in c.candidates : r.procedure = x.procedure
         \/ r.kind # "selected" /\ Unversioned(r)
<1> DEFINE matching == {x \in c.candidates : case.verdict[x.when].value = "TRUE"}
<1>1. \/ \E q : r = QuestionResult(q)
      \/ r = Inconclusive("multiple_matching_procedures")
      \/ r = Inconclusive("no_matching_researched_procedure")
      \/ /\ matching # {}
         /\ r = [kind |-> "selected", procedure |-> (CHOOSE x \in matching : TRUE).procedure]
  BY DEF SelectProcedure
<1>2. CASE \E q : r = QuestionResult(q)
  BY <1>2, QuestionsAreUnversioned, QuestionResultKinds
<1>3. CASE \/ r = Inconclusive("multiple_matching_procedures")
           \/ r = Inconclusive("no_matching_researched_procedure")
  BY <1>3 DEF Inconclusive, Unversioned, VersionReasons
<1>4. CASE /\ matching # {}
           /\ r = [kind |-> "selected", procedure |-> (CHOOSE x \in matching : TRUE).procedure]
  <2>1. PICK y : y = CHOOSE x \in matching : TRUE
    OBVIOUS
  <2>2. y \in matching
    BY <1>4, <2>1
  <2>3. r = [kind |-> "selected", procedure |-> y.procedure]
    BY <1>4, <2>1
  <2> QED BY <2>2, <2>3
<1> QED BY <1>1, <1>2, <1>3, <1>4

LEMMA ResultsAreAboutTheVersion ==
  ASSUME NEW c, NEW fs, NEW day_
  PROVE  LET r == PlanStateless(c, fs, day_) IN Unversioned(r) \/ AboutTheVersion(c, day_, r)
<1> DEFINE r == PlanStateless(c, fs, day_)
<1>1. PICK case : case = Prepared(fs, day_)
  OBVIOUS
<1>2. PICK selection : selection = SelectProcedure(c, case)
  OBVIOUS
<1>3. \/ r = Inconclusive("inactive_service")
      \/ \E keys : r = Invalid(keys)
      \/ r = ConfigurationInvalid
      \/ r = PlanPrepared(c, selection, case, day_)
  BY <1>1, <1>2 DEF PlanStateless
<1>4. CASE \/ r = Inconclusive("inactive_service")
           \/ \E keys : r = Invalid(keys)
           \/ r = ConfigurationInvalid
  BY <1>4 DEF Inconclusive, Invalid, ConfigurationInvalid, Unversioned, VersionReasons
<1>5. CASE r = PlanPrepared(c, selection, case, day_)
  <2>1. CASE selection.kind # "selected"
    <3>1. r = selection
      BY <1>5, <2>1 DEF PlanPrepared
    <3> QED BY <1>2, <2>1, <3>1, SelectionsAreCandidates
  <2>2. CASE selection.kind = "selected"
    <3>1. PICK x \in c.candidates : selection.procedure = x.procedure
      BY <1>2, <2>2, SelectionsAreCandidates
    <3>2. r = PlanSelected(c, ResolveProcedureVersion(c, x.procedure, day_), case, day_)
      BY <1>5, <2>2, <3>1 DEF PlanPrepared
    <3> QED BY <3>2, SelectedPlans
  <2> QED BY <2>1, <2>2
<1> QED BY <1>3, <1>4, <1>5

-----------------------------------------------------------------------------
(* The version in force. *)

PublishedOf(c, p) == {v \in VersionsOf(c, p) : v.state = "published"}

LEMMA WindowsAreDays ==
  ASSUME NEW c \in Catalogues, NEW v \in c.versions, NEW d \in Days
  PROVE  d \in DaysOf(v) <=> Containing(v, d)
BY CataloguesAssumption DEF VersionHolds, DaysOf, Containing, NotAfter, NotBefore

\* Windows that share a day overlap.
LEMMA SharedDaysOverlap ==
  ASSUME NEW c \in Catalogues, NEW v \in c.versions, NEW w \in c.versions, NEW d \in Days,
         Containing(v, d), Containing(w, d)
  PROVE  WindowsOverlap(v, w)
BY CataloguesAssumption DEF VersionHolds, Containing, NotAfter, NotBefore, WindowsOverlap

\* A resolution that is no defect is the only published version of the day, or says
\* that there is none.
LEMMA ResolutionIsExact ==
  ASSUME NEW c \in Catalogues, NEW p, NEW day_ \in Days,
         NEW found, found = ResolveProcedureVersion(c, p, day_)
  PROVE  LET inForce == {v \in PublishedOf(c, p) : Containing(v, day_)} IN
         /\ found.kind = "resolved" =>
              /\ inForce = {found.version}
              /\ \A v, w \in PublishedOf(c, p) : v # w => ~WindowsOverlap(v, w)
         /\ found.kind = "unavailable" /\ found.reason \in VersionReasons => inForce = {}
<1> DEFINE versions == VersionsOf(c, p)
           published == PublishedOf(c, p)
           inForce == {v \in published : Containing(v, day_)}
<1>1. versions \subseteq c.versions /\ published \subseteq versions
  BY DEF VersionsOf, PublishedOf
<1>2. IsFiniteSet(inForce)
  BY <1>1, CataloguesAssumption, FS_Subset
<1>3. CASE \/ versions = {} /\ \A x \in c.candidates : x.procedure # p
           \/ \E v \in versions : MalformedVersion(v)
           \/ \E v, w \in published : v # w /\ WindowsOverlap(v, w)
  <2>1. found = Unavailable("unknown_procedure") \/ found = Defective
    BY <1>3 DEF ResolveProcedureVersion, PublishedOf
  <2> QED BY <2>1 DEF Unavailable, Defective, VersionReasons
<1>4. CASE /\ ~(versions = {} /\ \A x \in c.candidates : x.procedure # p)
           /\ ~\E v \in versions : MalformedVersion(v)
           /\ ~\E v, w \in published : v # w /\ WindowsOverlap(v, w)
  <2>1. CASE Cardinality(inForce) = 1
    <3>1. found = Resolved(CHOOSE v \in inForce : TRUE)
      BY <1>4, <2>1 DEF ResolveProcedureVersion, PublishedOf
    <3>2. PICK v : inForce = {v}
      BY <1>2, <2>1, FS_Singleton
    <3>3. (CHOOSE w \in inForce : TRUE) = v
      BY <3>2
    <3> QED BY <1>4, <3>1, <3>2, <3>3 DEF Resolved
  <2>2. CASE Cardinality(inForce) # 1
    <3>1. \E reason : found = Unavailable(reason)
      BY <1>4, <2>2 DEF ResolveProcedureVersion, PublishedOf
    <3>2. ASSUME NEW v \in inForce PROVE FALSE
      <4>1. \A w \in inForce : w = v
        BY <1>1, <1>4, SharedDaysOverlap
      <4>2. inForce = {v}
        BY <4>1
      <4> QED BY <2>2, <4>2, FS_Singleton
    <3> QED BY <3>1, <3>2 DEF Unavailable
  <2> QED BY <2>1, <2>2
<1> QED BY <1>3, <1>4

\* What is shown is always the answer to the case as it is.
ResultIsCurrent ==
  catalogue \in Catalogues /\ day \in Days /\ result = PlanStateless(catalogue, facts, day)

LEMMA StepsAnswerTheCase ==
  ASSUME ResultIsCurrent, [Next]_vars
  PROVE  ResultIsCurrent'
<1> USE DEF ResultIsCurrent, Request
<1>1. CASE Answer
  BY <1>1 DEF Answer
<1>2. CASE Change
  BY <1>2 DEF Change
<1>3. CASE Correct
  BY <1>3 DEF Correct
<1>4. CASE UseDate
  BY <1>4 DEF UseDate
<1>5. CASE UNCHANGED vars
  BY <1>5 DEF vars
<1> QED BY <1>1, <1>2, <1>3, <1>4, <1>5 DEF Next

LEMMA CurrentResultsUseTheVersionInForce ==
  ASSUME ResultIsCurrent
  PROVE  VersionInForceIsUsed
<1>1. Unversioned(result) \/ AboutTheVersion(catalogue, day, result)
  BY ResultsAreAboutTheVersion DEF ResultIsCurrent
<1> DEFINE published(p) == {v \in VersionsOf(catalogue, p) : v.state = "published"}
<1>2. \A p : published(p) = PublishedOf(catalogue, p) /\ published(p) \subseteq catalogue.versions
  BY DEF PublishedOf, VersionsOf
<1>3. ASSUME result.kind = "plan"
      PROVE  /\ ~\E v, w \in published(result.version.procedure) :
                  v # w /\ DaysOf(v) \cap DaysOf(w) # {}
             /\ {v \in published(result.version.procedure) : day \in DaysOf(v)} = {result.version}
  <2>1. PICK x \in catalogue.candidates :
          LET found == ResolveProcedureVersion(catalogue, x.procedure, day) IN
          found.kind = "resolved" /\ result.version = found.version
    BY <1>1, <1>3 DEF Unversioned, AboutTheVersion, ResultIsCurrent
  <2>2. PICK found : found = ResolveProcedureVersion(catalogue, x.procedure, day)
    OBVIOUS
  <2>3. /\ {v \in PublishedOf(catalogue, x.procedure) : Containing(v, day)} = {result.version}
        /\ \A v, w \in PublishedOf(catalogue, x.procedure) : v # w => ~WindowsOverlap(v, w)
    BY <2>1, <2>2, ResolutionIsExact DEF ResultIsCurrent
  <2>4. result.version.procedure = x.procedure
    BY <2>3 DEF PublishedOf, VersionsOf
  <2>5. ASSUME NEW v \in published(x.procedure), NEW w \in published(x.procedure), v # w
        PROVE  DaysOf(v) \cap DaysOf(w) = {}
    <3>1. \A d \in Days : ~(d \in DaysOf(v) /\ d \in DaysOf(w))
      BY <1>2, <2>3, <2>5, SharedDaysOverlap, WindowsAreDays DEF ResultIsCurrent
    <3> QED BY <3>1 DEF DaysOf
  <2>6. \A v \in published(x.procedure) : day \in DaysOf(v) <=> Containing(v, day)
    BY <1>2, WindowsAreDays DEF ResultIsCurrent
  <2>7. {v \in published(x.procedure) : day \in DaysOf(v)} = {result.version}
    BY <1>2, <2>3, <2>6
  <2> QED BY <2>4, <2>5, <2>7
<1>4. ASSUME result.kind = "inconclusive", result.reason \in VersionReasons
      PROVE  \E x \in catalogue.candidates : \A v \in published(x.procedure) : day \notin DaysOf(v)
  <2>1. PICK x \in catalogue.candidates :
          LET found == ResolveProcedureVersion(catalogue, x.procedure, day) IN
          found.kind = "unavailable" /\ result.reason = found.reason
    BY <1>1, <1>4 DEF Unversioned, AboutTheVersion, ResultIsCurrent
  <2>2. PICK found : found = ResolveProcedureVersion(catalogue, x.procedure, day)
    OBVIOUS
  <2>3. {v \in PublishedOf(catalogue, x.procedure) : Containing(v, day)} = {}
    BY <1>4, <2>1, <2>2, ResolutionIsExact DEF ResultIsCurrent
  <2>4. \A v \in published(x.procedure) : day \in DaysOf(v) <=> Containing(v, day)
    BY <1>2, WindowsAreDays DEF ResultIsCurrent
  <2> QED BY <1>2, <2>3, <2>4
<1> QED BY <1>3, <1>4 DEF VersionInForceIsUsed, VersionReasons

\* A plan is made from the one published version whose days include the evaluation
\* date, counted day by day; none is used while two published versions share a day
\* (resolve_procedure_version).
THEOREM PlansUseTheVersionInForce == Spec => []VersionInForceIsUsed
<1>1. Init => ResultIsCurrent
  BY DEF Init, ResultIsCurrent
<1>2. ResultIsCurrent /\ [Next]_vars => ResultIsCurrent'
  BY StepsAnswerTheCase
<1>3. ResultIsCurrent => VersionInForceIsUsed
  BY CurrentResultsUseTheVersionInForce
<1> QED BY <1>1, <1>2, <1>3, PTL DEF Spec

-----------------------------------------------------------------------------
(* What is done to a case.  Everything goes back to before some entry i of the
   history, perhaps past its end, and may then ask one question.              *)

IsCase(c) ==
  /\ c = [service |-> c.service, date |-> c.date, facts |-> c.facts, history |-> c.history,
          cleared |-> c.cleared]
  /\ c.history \in Seq(SUBSET SourceKeys)

AskedFrom(c, k, i) == \E j \in i..Len(c.history) : k \in c.history[j]
AskedBefore(c, k, i) == \E j \in 1..(i - 1) : k \in c.history[j]

LEMMA KeysOfEntries ==
  ASSUME NEW h \in Seq(SUBSET SourceKeys), NEW m \in 1..(Len(h) + 1), NEW k
  PROVE  /\ k \in Tab!KeysOf(h) <=> \E j \in 1..Len(h) : k \in h[j]
         /\ k \in Tab!KeysOf(SubSeq(h, 1, m - 1)) <=> \E j \in 1..(m - 1) : k \in h[j]
         /\ k \in Tab!KeysOf(SubSeq(h, m, Len(h))) <=> \E j \in m..Len(h) : k \in h[j]
<1>1. k \in Tab!KeysOf(h) <=> \E j \in 1..Len(h) : k \in h[j]
  BY DEF Tab!KeysOf, Tab!ToSet
<1>2. k \in Tab!KeysOf(SubSeq(h, 1, m - 1)) <=> \E j \in 1..(m - 1) : k \in h[j]
  <2>1. PICK g : g = SubSeq(h, 1, m - 1)
    OBVIOUS
  <2>2. DOMAIN g = 1..(m - 1) /\ \A j \in 1..(m - 1) : g[j] = h[j]
    BY <2>1
  <2> QED BY <2>1, <2>2 DEF Tab!KeysOf, Tab!ToSet
<1>3. k \in Tab!KeysOf(SubSeq(h, m, Len(h))) <=> \E j \in m..Len(h) : k \in h[j]
  <2>1. PICK g : g = SubSeq(h, m, Len(h))
    OBVIOUS
  <2>2. DOMAIN g = 1..(Len(h) - m + 1) /\ \A j \in 1..(Len(h) - m + 1) : g[j] = h[m + j - 1]
    BY <2>1
  <2>3. \A j \in m..Len(h) : j - m + 1 \in 1..(Len(h) - m + 1) /\ m + (j - m + 1) - 1 = j
    OBVIOUS
  <2>4. \A j \in m..Len(h) : j - m + 1 \in DOMAIN g /\ g[j - m + 1] = h[j]
    BY <2>2, <2>3
  <2>5. \A j \in DOMAIN g : m + j - 1 \in m..Len(h) /\ g[j] = h[m + j - 1]
    BY <2>2
  <2>6. k \in UNION {g[j] : j \in DOMAIN g} <=> \E j \in DOMAIN g : k \in g[j]
    OBVIOUS
  <2> QED BY <2>1, <2>4, <2>5, <2>6 DEF Tab!KeysOf, Tab!ToSet
<1> QED BY <1>1, <1>2, <1>3

\* The case b is c as it was before entry i.
Rewound(c, b, i) ==
  /\ IsCase(b)
  /\ i \in 1..(Len(c.history) + 1)
  /\ b.history = SubSeq(c.history, 1, i - 1)
  /\ \A k : k \in DOMAIN b.facts <=> k \in DOMAIN c.facts /\ ~AskedFrom(c, k, i)
  /\ \A k \in DOMAIN b.facts : b.facts[k] = c.facts[k]

LEMMA Rewinding ==
  ASSUME NEW c, IsCase(c), NEW x
  PROVE  Rewound(c, Tab!RewindCase(c, x), IF x \in 1..Len(c.history) THEN x ELSE Len(c.history) + 1)
<1>1. CASE x \notin 1..Len(c.history)
  <2>1. Tab!RewindCase(c, x) = c
    BY <1>1 DEF Tab!RewindCase
  <2>2. SubSeq(c.history, 1, (Len(c.history) + 1) - 1) = c.history
    BY DEF IsCase
  <2>3. Len(c.history) \in Nat
    BY DEF IsCase
  <2> QED BY <1>1, <2>1, <2>2, <2>3 DEF Rewound, AskedFrom
<1>2. CASE x \in 1..Len(c.history)
  <2> DEFINE gone == Tab!KeysOf(SubSeq(c.history, x, Len(c.history)))
             fs == [k \in (DOMAIN c.facts) \ gone |-> c.facts[k]]
             h == SubSeq(c.history, 1, x - 1)
  <2>1. \A k : k \in gone <=> AskedFrom(c, k, x)
    BY <1>2, KeysOfEntries DEF AskedFrom, IsCase
  <2>2. Tab!RewindCase(c, x) = [c EXCEPT !.facts = fs, !.history = h]
    BY <1>2 DEF Tab!RewindCase, Tab!Without, Tab!Restrict
  <2>3. h \in Seq(SUBSET SourceKeys)
    BY <1>2 DEF IsCase
  <2> HIDE DEF h, gone
  <2>4. PICK b : b = Tab!RewindCase(c, x)
    OBVIOUS
  <2>5. b = [service |-> c.service, date |-> c.date, facts |-> fs, history |-> h,
             cleared |-> c.cleared]
    BY <2>2, <2>4 DEF IsCase
  <2>6. IsCase(b) /\ b.facts = fs /\ b.history = h
    BY <2>3, <2>5 DEF IsCase
  <2>7. x \in 1..(Len(c.history) + 1)
    BY <1>2 DEF IsCase
  <2> QED BY <1>2, <2>1, <2>4, <2>6, <2>7 DEF Rewound, h
<1> QED BY <1>1, <1>2

\* Going back to the earliest entry that asked for one of the keys, if any did.
LEMMA RewindingToEarliest ==
  ASSUME NEW c, IsCase(c), NEW keys, NEW b, b = Tab!RewindCase(c, Tab!Earliest(c, keys))
  PROVE  \E i : Rewound(c, b, i) /\ \A k \in keys : ~AskedBefore(c, k, i)
<1> DEFINE I == {j \in 1..Len(c.history) : c.history[j] \cap keys # {}}
           e == Tab!Earliest(c, keys)
<1>1. e = IF I # {} THEN Tab!Min(I) ELSE 0
  BY DEF Tab!Earliest, Tab!SelectInSeq
<1>2. CASE I = {}
  <2>1. e \notin 1..Len(c.history)
    BY <1>1, <1>2
  <2>2. Rewound(c, b, Len(c.history) + 1)
    BY <2>1, Rewinding
  <2>3. \A k \in keys : ~AskedBefore(c, k, Len(c.history) + 1)
    BY <1>2 DEF AskedBefore, IsCase
  <2> QED BY <2>2, <2>3
<1>3. CASE I # {}
  <2>1. \E m \in I : \A j \in I : m <= j
    <3>1. I \in SUBSET Nat
      BY DEF IsCase
    <3> HIDE DEF I
    <3>2. PICK m \in I : \A j \in I : ~(<<j, m>> \in OpToRel(<, Nat))
      BY <1>3, <3>1, NatLessThanWellFounded, WFMin
    <3>3. \A j \in I : ~(j < m)
      BY <3>1, <3>2 DEF OpToRel
    <3> QED BY <3>1, <3>3
  <2>2. e \in I /\ \A j \in I : e <= j
    BY <1>1, <1>3, <2>1 DEF Tab!Min
  <2>3. Rewound(c, b, e)
    BY <2>2, Rewinding
  <2>4. \A k \in keys : ~AskedBefore(c, k, e)
    BY <2>2 DEF AskedBefore, IsCase
  <2> QED BY <2>3, <2>4
<1> QED BY <1>2, <1>3

\* What becomes of a history h.
CutBefore(h, i, asked, g) ==
  \/ asked = {} /\ g = SubSeq(h, 1, i - 1)
  \/ asked \subseteq SourceKeys /\ g = Append(SubSeq(h, 1, i - 1), asked)

(* What a citizen's step does to the case c, which becomes d: it goes back to
   before entry i and asks the facts of `asked` again, if any.               *)
Steps(c, d, i, asked) ==
  /\ IsCase(d)
  /\ i \in 1..(Len(c.history) + 1)
  /\ CutBefore(c.history, i, asked, d.history)
  /\ \A k \in DOMAIN d.facts : k \in asked \/ (k \in DOMAIN c.facts /\ ~AskedFrom(c, k, i))
  /\ \A k \in DOMAIN c.facts : AskedBefore(c, k, i) =>
       /\ k \in DOMAIN d.facts => d.facts[k] = c.facts[k]
       /\ k \in asked \/ ~AskedFrom(c, k, i) => k \in DOMAIN d.facts

LEMMA RewindSteps ==
  ASSUME NEW c, IsCase(c), NEW x
  PROVE  \E i : Steps(c, Tab!RewindCase(c, x), i, {})
<1>1. PICK i : Rewound(c, Tab!RewindCase(c, x), i)
  BY Rewinding
<1> QED BY <1>1 DEF Rewound, Steps, CutBefore

LEMMA CorrectSteps ==
  ASSUME NEW c, IsCase(c), NEW keys
  PROVE  \E i : Steps(c, Tab!CorrectDiagnostics(c, keys), i, {})
<1>1. PICK b : b = Tab!RewindCase(c, Tab!Earliest(c, keys))
  OBVIOUS
<1>2. PICK i : Rewound(c, b, i) /\ \A k \in keys : ~AskedBefore(c, k, i)
  BY <1>1, RewindingToEarliest
<1> DEFINE fs == [k \in (DOMAIN b.facts) \ keys |-> b.facts[k]]
<1>3. PICK d : d = Tab!CorrectDiagnostics(c, keys)
  OBVIOUS
<1>4. d = [b EXCEPT !.facts = fs]
  BY <1>1, <1>3 DEF Tab!CorrectDiagnostics, Tab!Without, Tab!Restrict
<1>5. d = [service |-> b.service, date |-> b.date, facts |-> fs, history |-> b.history,
           cleared |-> b.cleared]
  BY <1>2, <1>4 DEF Rewound, IsCase
<1>6. IsCase(d) /\ d.facts = fs /\ d.history = b.history
  BY <1>2, <1>5 DEF Rewound, IsCase
<1>7. Steps(c, d, i, {})
  BY <1>2, <1>6 DEF Rewound, Steps, CutBefore
<1> QED BY <1>3, <1>7

LEMMA SubmitSteps ==
  ASSUME NEW c, IsCase(c), NEW question \in SUBSET SourceKeys, NEW draft
  PROVE  \E i : Steps(c, Tab!Resubmitted(c, question, draft), i, question)
<1> DEFINE values  == Tab!Given(question, draft)
           changed == Tab!Changed(c, question, values)
<1>1. PICK b : b = Tab!RewindCase(c, Tab!Earliest(c, changed))
  OBVIOUS
<1>2. PICK i : Rewound(c, b, i) /\ \A k \in changed : ~AskedBefore(c, k, i)
  BY <1>1, RewindingToEarliest
<1>3. DOMAIN values \subseteq question
  BY DEF Tab!Given, Tab!Restrict
<1>4. \A k \in question \cap DOMAIN c.facts :
        k \notin changed => k \in DOMAIN values /\ values[k] = c.facts[k]
  BY DEF Tab!Changed
<1> DEFINE fs == Tab!Replaced(b.facts, question, values)
<1>5. PICK d : d = Tab!Resubmitted(c, question, draft)
  OBVIOUS
<1>6. d = [b EXCEPT !.facts = fs, !.history = Append(@, question)]
  BY <1>1, <1>5 DEF Tab!Resubmitted
<1> HIDE DEF values, changed
<1>7. DOMAIN fs = (DOMAIN values) \cup ((DOMAIN b.facts) \ question)
  BY DEF Tab!Replaced
<1>8. \A k \in DOMAIN fs : fs[k] = IF k \in DOMAIN values THEN values[k] ELSE b.facts[k]
  BY DEF Tab!Replaced
<1> HIDE DEF fs
<1>9. d = [service |-> b.service, date |-> b.date, facts |-> fs,
           history |-> Append(b.history, question), cleared |-> b.cleared]
  BY <1>2, <1>6 DEF Rewound, IsCase
<1>10. Append(b.history, question) \in Seq(SUBSET SourceKeys)
  BY <1>2 DEF Rewound, IsCase
<1>11. IsCase(d) /\ d.facts = fs /\ d.history = Append(b.history, question)
  BY <1>9, <1>10 DEF IsCase
<1>12. Steps(c, d, i, question)
  <2>1. \A k \in DOMAIN fs : k \in question \/ (k \in DOMAIN c.facts /\ ~AskedFrom(c, k, i))
    BY <1>2, <1>3, <1>7 DEF Rewound
  <2>2. ASSUME NEW k \in DOMAIN c.facts, AskedBefore(c, k, i)
        PROVE  /\ k \in DOMAIN fs => fs[k] = c.facts[k]
               /\ k \in question \/ ~AskedFrom(c, k, i) => k \in DOMAIN fs
    <3>1. k \notin changed
      BY <1>2, <2>2
    <3>2. k \in question => k \in DOMAIN values /\ values[k] = c.facts[k]
      BY <1>4, <3>1
    <3> QED BY <1>2, <1>3, <1>7, <1>8, <3>2 DEF Rewound
  <2> QED BY <1>2, <1>11, <2>1, <2>2 DEF Rewound, Steps, CutBefore
<1> QED BY <1>5, <1>12

-----------------------------------------------------------------------------
(* The history of the case. *)

\* Every answer that is known was asked by some entry of the history.
HistoryFits ==
  /\ history \in Seq(SUBSET SourceKeys)
  /\ DOMAIN facts \subseteq Tab!KeysOf(history)

LEMMA CaseIsCase ==
  ASSUME HistoryFits
  PROVE  IsCase(Case) /\ Case.facts = facts /\ Case.history = history
BY DEF HistoryFits, IsCase, Case

\* Whatever the citizen does is such a step of the case.
LEMMA CitizensSteps ==
  ASSUME ResultIsCurrent, HistoryFits, Next
  PROVE  \E d, i, asked : Steps(Case, d, i, asked) /\ facts' = d.facts /\ history' = d.history
<1>1. CASE Answer
  <2>1. result.question.facts \in SUBSET SourceKeys
    <3>1. Unversioned(result) \/ AboutTheVersion(catalogue, day, result)
      BY ResultsAreAboutTheVersion DEF ResultIsCurrent
    <3> QED BY <1>1, <3>1 DEF Answer, Unversioned, AboutTheVersion
  <2>2. PICK answers : Request(Tab!Resubmitted(Case, result.question.facts, answers))
    BY <1>1 DEF Answer
  <2> QED BY <2>1, <2>2, CaseIsCase, SubmitSteps DEF Request
<1>2. CASE Change
  <2>1. PICK x : Request(Tab!RewindCase(Case, x))
    BY <1>2 DEF Change
  <2> QED BY <2>1, CaseIsCase, RewindSteps DEF Request
<1>3. CASE Correct
  <2>1. Request(Tab!CorrectDiagnostics(Case, result.keys))
    BY <1>3 DEF Correct
  <2> QED BY <2>1, CaseIsCase, CorrectSteps DEF Request
<1>4. CASE UseDate
  <2>1. Request(Case)
    BY <1>4 DEF UseDate
  <2>2. Tab!RewindCase(Case, 0) = Case
    BY CaseIsCase DEF Tab!RewindCase, HistoryFits
  <2> QED BY <2>1, <2>2, CaseIsCase, RewindSteps DEF Request
<1> QED BY <1>1, <1>2, <1>3, <1>4 DEF Next

\* The entries of the history after such a step.
LEMMA HistoryAfter ==
  ASSUME NEW h \in Seq(SUBSET SourceKeys), NEW i \in 1..(Len(h) + 1), NEW asked, NEW g,
         CutBefore(h, i, asked, g)
  PROVE  /\ g \in Seq(SUBSET SourceKeys)
         /\ i - 1 <= Len(g) /\ Len(g) <= i
         /\ \A j \in 1..(i - 1) : g[j] = h[j]
         /\ Len(g) = i => g[i] = asked
         /\ asked # {} => Len(g) = i
<1>1. PICK p : p = SubSeq(h, 1, i - 1)
  OBVIOUS
<1>2. p \in Seq(SUBSET SourceKeys) /\ Len(p) = i - 1 /\ \A j \in 1..(i - 1) : p[j] = h[j]
  BY <1>1
<1>3. CASE asked = {} /\ g = p
  BY <1>2, <1>3
<1>4. CASE asked \subseteq SourceKeys /\ g = Append(p, asked)
  BY <1>2, <1>4
<1> QED BY <1>1, <1>3, <1>4 DEF CutBefore

LEMMA StepsFit ==
  ASSUME HistoryFits, NEW d, NEW i, NEW asked, Steps(Case, d, i, asked),
         facts' = d.facts, history' = d.history
  PROVE  HistoryFits'
<1>1. i \in 1..(Len(history) + 1) /\ history \in Seq(SUBSET SourceKeys)
  BY CaseIsCase DEF Steps, HistoryFits
<1>2. /\ history' \in Seq(SUBSET SourceKeys)
      /\ i - 1 <= Len(history') /\ Len(history') <= i
      /\ \A j \in 1..(i - 1) : history'[j] = history[j]
      /\ Len(history') = i => history'[i] = asked
      /\ asked # {} => Len(history') = i
  <2>1. CutBefore(history, i, asked, history')
    BY CaseIsCase DEF Steps
  <2> QED BY <1>1, <2>1, HistoryAfter
<1>3. ASSUME NEW k \in DOMAIN facts'
      PROVE  \E j \in 1..Len(history') : k \in history'[j]
  <2>1. CASE k \in asked
    BY <1>1, <1>2, <2>1
  <2>2. CASE k \in DOMAIN facts /\ ~AskedFrom(Case, k, i)
    <3>1. PICK j \in 1..Len(history) : k \in history[j]
      BY <1>1, <2>2, KeysOfEntries DEF HistoryFits
    <3>2. j \in 1..(i - 1)
      BY <1>1, <2>2, <3>1, CaseIsCase DEF AskedFrom
    <3> QED BY <1>1, <1>2, <3>1, <3>2
  <2> QED BY <1>3, <2>1, <2>2, CaseIsCase DEF Steps
<1>4. 1 \in 1..(Len(history') + 1)
  BY <1>2
<1>5. \A k \in DOMAIN facts' : k \in Tab!KeysOf(history')
  BY <1>2, <1>3, <1>4, KeysOfEntries
<1> QED BY <1>2, <1>5 DEF HistoryFits

LEMMA StepsStand ==
  ASSUME HistoryFits, NEW d, NEW i, NEW asked, Steps(Case, d, i, asked),
         facts' = d.facts, history' = d.history
  PROVE  KeptEntriesStand
<1>1. i \in 1..(Len(history) + 1) /\ history \in Seq(SUBSET SourceKeys)
  BY CaseIsCase DEF Steps, HistoryFits
<1>2. /\ history' \in Seq(SUBSET SourceKeys)
      /\ i - 1 <= Len(history') /\ Len(history') <= i
      /\ \A j \in 1..(i - 1) : history'[j] = history[j]
      /\ Len(history') = i => history'[i] = asked
  <2>1. CutBefore(history, i, asked, history')
    BY CaseIsCase DEF Steps
  <2> QED BY <1>1, <2>1, HistoryAfter
<1>3. SUFFICES ASSUME NEW m \in Kept,
                      NEW k \in Tab!KeysOf(SubSeq(history, 1, m - 1)) \cap DOMAIN facts
               PROVE  IF k \in DOMAIN facts' THEN facts'[k] = facts[k]
                      ELSE \E j \in (DOMAIN history) \ Kept : k \in history[j]
  BY DEF KeptEntriesStand
<1>4. m \in 1..Len(history) /\ m <= i
  BY <1>1, <1>2 DEF Kept
<1>5. \E j \in 1..(m - 1) : k \in history[j]
  <2>1. k \in Tab!KeysOf(SubSeq(history, 1, m - 1)) /\ m \in 1..(Len(history) + 1)
    BY <1>1, <1>4
  <2> QED BY <1>1, <2>1, KeysOfEntries
<1>6. AskedBefore(Case, k, i)
  BY <1>1, <1>4, <1>5, CaseIsCase DEF AskedBefore
<1>7. /\ k \in DOMAIN facts' => facts'[k] = facts[k]
      /\ k \in asked \/ ~AskedFrom(Case, k, i) => k \in DOMAIN facts'
  BY <1>6, CaseIsCase DEF Steps
<1>8. ASSUME k \notin DOMAIN facts'
      PROVE  \E j \in (DOMAIN history) \ Kept : k \in history[j]
  <2>1. k \notin asked /\ AskedFrom(Case, k, i)
    BY <1>7, <1>8
  <2>2. PICK j \in i..Len(history) : k \in history[j]
    BY <2>1, CaseIsCase DEF AskedFrom
  <2>3. j \in DOMAIN history
    BY <1>1, <2>2
  <2>4. ASSUME j \in Kept PROVE FALSE
    <3>1. j = i /\ Len(history') = i /\ history'[j] = history[j]
      BY <1>1, <1>2, <2>2, <2>4 DEF Kept
    <3> QED BY <1>2, <2>1, <2>2, <3>1
  <2> QED BY <2>2, <2>3, <2>4
<1> QED BY <1>7, <1>8

LEMMA AnswersAreShown ==
  ASSUME HistoryFits
  PROVE  EveryAnswerCanBeChanged
<1> SUFFICES ASSUME NEW k \in DOMAIN facts
             PROVE  \E i \in Tab!Reviewable(Case) : k \in history[i]
  BY DEF EveryAnswerCanBeChanged
<1> DEFINE I == {i \in 1..Len(history) : k \in history[i]}
<1>1. history \in Seq(SUBSET SourceKeys) /\ Len(history) \in Nat
  BY DEF HistoryFits
<1>2. I # {} /\ I \in SUBSET Nat
  BY <1>1, KeysOfEntries DEF HistoryFits
<1>3. PICK i \in I : \A j \in I : ~(<<j, i>> \in OpToRel(<, Nat))
  <2> HIDE DEF I
  <2> QED BY <1>2, NatLessThanWellFounded, WFMin
<1>4. \A j \in I : ~(j < i)
  BY <1>2, <1>3 DEF OpToRel
<1>5. i \in 1..(Len(history) + 1) /\ ~\E j \in 1..(i - 1) : k \in history[j]
  BY <1>1, <1>4
<1>6. k \notin Tab!KeysOf(SubSeq(history, 1, i - 1))
  BY <1>1, <1>5, KeysOfEntries
<1>7. i \in DOMAIN history /\ k \in history[i]
  BY <1>1
<1> QED BY <1>6, <1>7, CaseIsCase DEF Tab!Reviewable

\* Whatever was answered, changed and corrected, the citizen can still reach every
\* answer on the review list (rewindCase), and a change never slips under the entries
\* that stay on the case (submitAnswers, correctDiagnostics).
THEOREM HistoryStaysUsable == Spec => HistoryIsUsable
<1> DEFINE Fits == ResultIsCurrent /\ HistoryFits
<1>1. Init => Fits
  <2> SUFFICES ASSUME Init PROVE Fits OBVIOUS
  <2>1. history = <<>> /\ facts = <<>>
    BY DEF Init
  <2>2. DOMAIN facts = {} /\ history \in Seq(SUBSET SourceKeys)
    BY <2>1
  <2> QED BY <2>2 DEF Init, ResultIsCurrent, HistoryFits
<1>2. ASSUME Fits, [Next]_vars
      PROVE  Fits' /\ [KeptEntriesStand]_vars
  <2>1. CASE Next
    <3>1. PICK d, i, asked :
            Steps(Case, d, i, asked) /\ facts' = d.facts /\ history' = d.history
      BY <1>2, <2>1, CitizensSteps
    <3> QED BY <1>2, <3>1, StepsFit, StepsStand, StepsAnswerTheCase
  <2>2. CASE UNCHANGED vars
    BY <1>2, <2>2, StepsAnswerTheCase DEF vars, HistoryFits
  <2> QED BY <1>2, <2>1, <2>2
<1>3. Fits => EveryAnswerCanBeChanged
  BY AnswersAreShown
<1> QED BY <1>1, <1>2, <1>3, PTL DEF Spec, HistoryIsUsable
-----------------------------------------------------------------------------
(* Rules.  A rule is a finite tree, so that induction is along sets of rules:
   what holds of a rule when it holds of its parts holds of all rules.       *)

LEMMA RuleInduction ==
  ASSUME NEW Good, \A rule \in Rules : Parts(rule) \subseteq Good => rule \in Good
  PROVE  \A rule \in Rules : rule \in Good
<1> DEFINE Bad == Rules \ Good
<1> SUFFICES ASSUME Bad # {} PROVE FALSE
  OBVIOUS
<1>1. PICK rule \in Bad : Parts(rule) \cap Bad = {}
  BY RulesAreValid
<1>2. Parts(rule) \subseteq Rules
  BY RulesAreValid DEF Parts
<1> QED BY <1>1, <1>2

LEMMA PartsAreRules ==
  ASSUME NEW rule \in Rules
  PROVE  Parts(rule) \subseteq Rules
BY RulesAreValid DEF Parts

LEMMA PartsOfNodes ==
  ASSUME NEW rule \in Rules
  PROVE  /\ rule.op \in Leaves \cup {"all", "any", "not"}
         /\ rule.op \in {"all", "any"} => Parts(rule) # {}
         /\ rule.op = "not" => rule.children[1] \in Parts(rule)
         /\ rule.op \in Leaves => rule.fact \in Keys
<1>1. /\ rule.op \in Leaves \cup {"all", "any", "not"}
      /\ rule.op \notin Leaves => rule.children \in Seq(Rules)
      /\ WellFormedNode(rule)
  BY RulesAreValid
<1>2. ASSUME rule.op \in {"all", "any"} PROVE Parts(rule) # {}
  <2>1. rule.children \in Seq(Rules) /\ rule.children # <<>>
    BY <1>1, <1>2 DEF WellFormedNode, Leaves, Ordering
  <2>2. 1 \in DOMAIN rule.children
    BY <2>1
  <2> QED BY <1>2, <2>2 DEF Parts, Leaves
<1>3. ASSUME rule.op = "not" PROVE rule.children[1] \in Parts(rule)
  <2>1. rule.children \in Seq(Rules) /\ Len(rule.children) = 1
    BY <1>1, <1>3 DEF WellFormedNode, Leaves, Ordering
  <2>2. 1 \in DOMAIN rule.children
    BY <2>1
  <2> QED BY <1>3, <2>2 DEF Parts, Leaves
<1>4. ASSUME rule.op \in Leaves PROVE rule.fact \in Keys
  <2>1. CASE rule.op = "exists"
    BY <1>1, <2>1 DEF WellFormedNode, SourceKeys
  <2>2. CASE rule.op \in Ordering
    BY <1>1, <2>2 DEF WellFormedNode, Ordering
  <2>3. CASE rule.op = "eq"
    BY <1>1, <2>3 DEF WellFormedNode, Ordering
  <2>4. CASE rule.op = "in"
    BY <1>1, <2>4 DEF WellFormedNode, Ordering
  <2> QED BY <1>4, <2>1, <2>2, <2>3, <2>4 DEF Leaves, Ordering
<1> QED BY <1>1, <1>2, <1>3, <1>4

\* A set of rules with all their parts, and the solutions of a recursion on it.
Closed(T) == T \subseteq Rules /\ \A rule \in T : Parts(rule) \subseteq T
Solves(F, V, g, T) == g \in [Rules -> V] /\ \A rule \in T : g[rule] = F[g][rule]

\* F defines a value of V for every rule from those of its parts.
ByParts(F, V) ==
  /\ F \in [[Rules -> V] -> [Rules -> V]]
  /\ \A g, h \in [Rules -> V] : \A rule \in Rules :
       (\A part \in Parts(rule) : g[part] = h[part]) => F[g][rule] = F[h][rule]

LEMMA SolutionsAgree ==
  ASSUME NEW V, NEW F, ByParts(F, V), NEW T, NEW U, Closed(T), Closed(U),
         NEW g, NEW h, Solves(F, V, g, T), Solves(F, V, h, U)
  PROVE  \A rule \in T \cap U : g[rule] = h[rule]
<1> DEFINE Good == {rule \in Rules : rule \in T \cap U => g[rule] = h[rule]}
<1>1. ASSUME NEW rule \in Rules, Parts(rule) \subseteq Good
      PROVE  rule \in Good
  <2> SUFFICES ASSUME rule \in T \cap U PROVE g[rule] = h[rule]
    OBVIOUS
  <2>1. \A part \in Parts(rule) : g[part] = h[part]
    BY <1>1 DEF Closed
  <2> QED BY <2>1 DEF ByParts, Solves
<1>2. \A rule \in Rules : rule \in Good
  <2> HIDE DEF Good
  <2> QED BY <1>1, RuleInduction
<1> QED BY <1>2 DEF Closed

LEMMA RecursionOverRules ==
  ASSUME NEW V, NEW any \in V, NEW F, ByParts(F, V)
  PROVE  \E g \in [Rules -> V] : g = F[g]
<1> DEFINE Solved(rule, v) ==
             \E T, g : Closed(T) /\ rule \in T /\ Solves(F, V, g, T) /\ v = g[rule]
           W == {rule \in Rules : \E v \in V : Solved(rule, v)}
           G == [rule \in Rules |-> IF rule \in W THEN CHOOSE v \in V : Solved(rule, v) ELSE any]
<1>1. ASSUME NEW T, NEW g, Closed(T), Solves(F, V, g, T), NEW rule \in T
      PROVE  rule \in W /\ G[rule] = g[rule]
  <2>1. g[rule] \in V /\ Solved(rule, g[rule]) /\ rule \in Rules
    BY <1>1 DEF Closed, Solves
  <2>2. \A v : Solved(rule, v) => v = g[rule]
    BY <1>1, SolutionsAgree
  <2> HIDE DEF Solved
  <2> QED BY <2>1, <2>2
<1>2. G \in [Rules -> V]
  <2> HIDE DEF Solved
  <2> QED OBVIOUS
<1>3. ASSUME NEW rule \in W
      PROVE  \E T, g : Closed(T) /\ rule \in T /\ Solves(F, V, g, T)
  OBVIOUS
<1>4. W \subseteq Rules
  OBVIOUS
<1> HIDE DEF W, G
<1>5. Closed(W)
  BY <1>1, <1>3, <1>4 DEF Closed
<1>6. Solves(F, V, G, W)
  <2> SUFFICES ASSUME NEW rule \in W PROVE G[rule] = F[G][rule]
    BY <1>2 DEF Solves
  <2>1. PICK T, g : Closed(T) /\ rule \in T /\ Solves(F, V, g, T)
    BY <1>3
  <2>2. \A part \in Parts(rule) : G[part] = g[part]
    BY <1>1, <2>1 DEF Closed
  <2>3. F[G][rule] = F[g][rule]
    BY <1>2, <1>4, <2>1, <2>2 DEF ByParts, Solves
  <2> QED BY <1>1, <2>1, <2>3 DEF Solves
<1>7. ASSUME NEW rule \in Rules, Parts(rule) \subseteq W
      PROVE  rule \in W
  <2> SUFFICES ASSUME rule \notin W PROVE FALSE
    OBVIOUS
  <2> DEFINE T == W \cup {rule}
             h == [r \in Rules |-> IF r = rule THEN F[G][rule] ELSE G[r]]
  <2>1. Closed(T)
    BY <1>4, <1>5, <1>7 DEF Closed
  <2>2. F[G][rule] \in V
    BY <1>2 DEF ByParts
  <2>3. h \in [Rules -> V]
    BY <1>2, <2>2
  <2>4. \A r \in W : h[r] = G[r]
    BY <1>4
  <2>5. h[rule] = F[G][rule]
    OBVIOUS
  <2> HIDE DEF h
  <2>6. ASSUME NEW r \in T PROVE F[h][r] = F[G][r]
    <3>1. r \in Rules /\ Parts(r) \subseteq W
      BY <1>4, <1>5, <1>7, <2>6 DEF Closed
    <3> QED BY <1>2, <2>3, <2>4, <3>1 DEF ByParts
  <2>7. Solves(F, V, h, T)
    BY <1>6, <2>3, <2>4, <2>5, <2>6 DEF Solves
  <2>8. rule \in T
    OBVIOUS
  <2> HIDE DEF T
  <2> QED BY <1>1, <2>1, <2>7, <2>8
<1>8. \A rule \in Rules : rule \in W
  BY <1>7, RuleInduction
<1>9. F[G] \in [Rules -> V]
  BY <1>2 DEF ByParts
<1>10. \A rule \in Rules : G[rule] = F[G][rule]
  BY <1>6, <1>8 DEF Solves
<1>11. G = F[G]
  BY <1>2, <1>9, <1>10
<1> QED BY <1>2, <1>11

-----------------------------------------------------------------------------
(* The evaluation of rules. *)

\* What a rule evaluates to, from the evaluations g of its parts.
Evaluated(g, rule, values, submitted) ==
  IF rule.op \in Leaves THEN EvaluateLeaf(rule, values, submitted)
  ELSE IF rule.op = "not" THEN Negate(g[rule.children[1]])
  ELSE Compose(rule.op, {g[part] : part \in Parts(rule)})

Verdicts == {"TRUE", "FALSE", "UNKNOWN"}

\* Evaluations that are decided by submitted facts and unknown only for want of some fact.
Evaluations(submitted) ==
  {e \in [value : Verdicts, missing : SUBSET Keys, decided : SUBSET submitted] :
     e.value = "UNKNOWN" => e.missing # {}}

LEMMA CompositionIsEvaluation ==
  ASSUME NEW op \in {"all", "any"}, NEW submitted,
         NEW parts \in SUBSET Evaluations(submitted), parts # {}
  PROVE  Compose(op, parts) \in Evaluations(submitted)
<1> DEFINE vals  == {p.value : p \in parts}
           value == Kleene(op, vals)
           unsure == UNION {p.missing : p \in {q \in parts : q.value = "UNKNOWN"}}
<1>1. \A p \in parts : p.value \in Verdicts /\ p.missing \subseteq Keys /\ p.decided \subseteq submitted
  BY DEF Evaluations
<1>2. value \in Verdicts
  BY DEF Kleene, Verdicts
<1>3. value = "UNKNOWN" => "UNKNOWN" \in vals
  <2> SUFFICES ASSUME "UNKNOWN" \notin vals PROVE value # "UNKNOWN"
    OBVIOUS
  <2>1. vals \subseteq {"TRUE", "FALSE"} /\ vals # {}
    BY <1>1 DEF Verdicts
  <2> HIDE DEF vals
  <2>2. "TRUE" \in vals \/ "FALSE" \in vals
    BY <2>1
  <2>3. vals = {"TRUE"} \/ vals = {"FALSE"} \/ ("TRUE" \in vals /\ "FALSE" \in vals)
    BY <2>1
  <2> QED BY <2>3 DEF Kleene
<1>4. value = "UNKNOWN" => unsure # {}
  <2> SUFFICES ASSUME "UNKNOWN" \in vals PROVE unsure # {}
    BY <1>3
  <2>1. PICK p \in parts : p.value = "UNKNOWN"
    OBVIOUS
  <2>2. p.missing # {}
    BY <2>1 DEF Evaluations
  <2> QED BY <2>1, <2>2
<1>5. unsure \subseteq Keys
  BY <1>1
<1>6. DecidedBy(value, parts) \subseteq submitted
  BY <1>1 DEF DecidedBy
<1>7. Compose(op, parts) = [value |-> value, missing |-> IF value = "UNKNOWN" THEN unsure ELSE {},
                            decided |-> DecidedBy(value, parts)]
  BY DEF Compose
<1> HIDE DEF value, unsure
<1> QED BY <1>2, <1>4, <1>5, <1>6, <1>7 DEF Evaluations

LEMMA NegationIsEvaluation ==
  ASSUME NEW submitted, NEW e \in Evaluations(submitted)
  PROVE  /\ Negate(e) \in Evaluations(submitted)
         /\ Negate(e).decided = e.decided
         /\ Negate(e).value = "TRUE" <=> e.value = "FALSE"
         /\ Negate(e).value = "FALSE" <=> e.value = "TRUE"
<1>1. PICK v \in Verdicts, m \in SUBSET Keys, d \in SUBSET submitted :
        e = [value |-> v, missing |-> m, decided |-> d] /\ (v = "UNKNOWN" => m # {})
  BY DEF Evaluations
<1>2. CASE v = "TRUE"
  <2>1. Negate(e) = [value |-> "FALSE", missing |-> m, decided |-> d]
    BY <1>1, <1>2 DEF Negate
  <2> QED BY <1>1, <1>2, <2>1 DEF Evaluations, Verdicts
<1>3. CASE v = "FALSE"
  <2>1. Negate(e) = [value |-> "TRUE", missing |-> m, decided |-> d]
    BY <1>1, <1>3 DEF Negate
  <2> QED BY <1>1, <1>3, <2>1 DEF Evaluations, Verdicts
<1>4. CASE v = "UNKNOWN"
  <2>1. Negate(e) = [value |-> "UNKNOWN", missing |-> m, decided |-> d]
    BY <1>1, <1>4 DEF Negate
  <2> QED BY <1>1, <1>4, <2>1 DEF Evaluations, Verdicts
<1> QED BY <1>1, <1>2, <1>3, <1>4 DEF Verdicts

LEMMA LeafIsEvaluation ==
  ASSUME NEW rule \in Rules, rule.op \in Leaves, NEW values, NEW submitted
  PROVE  EvaluateLeaf(rule, values, submitted) \in Evaluations(submitted)
<1>1. rule.fact \in Keys
  BY PartsOfNodes
<1>2. \A b : Truth(b) \in Verdicts /\ Truth(b) # "UNKNOWN"
  BY DEF Truth, Verdicts
<1>3. PICK b : b = Matches(rule, values[rule.fact])
  OBVIOUS
<1>4. PICK c : c = (rule.fact \in submitted)
  OBVIOUS
<1> QED BY <1>1, <1>2, <1>3, <1>4 DEF EvaluateLeaf, Evaluations, Verdicts

LEMMA EvaluatedIsEvaluation ==
  ASSUME NEW g, NEW rule \in Rules, NEW values, NEW submitted,
         \A part \in Parts(rule) : g[part] \in Evaluations(submitted)
  PROVE  Evaluated(g, rule, values, submitted) \in Evaluations(submitted)
<1>1. CASE rule.op \in Leaves
  BY <1>1, LeafIsEvaluation DEF Evaluated
<1>2. CASE rule.op = "not"
  <2>1. g[rule.children[1]] \in Evaluations(submitted)
    BY <1>2, PartsOfNodes
  <2> QED BY <1>2, <2>1, NegationIsEvaluation DEF Evaluated, Leaves
<1>3. CASE rule.op \in {"all", "any"}
  <2> DEFINE parts == {g[part] : part \in Parts(rule)}
  <2>1. parts \in SUBSET Evaluations(submitted) /\ parts # {}
    BY <1>3, PartsOfNodes
  <2>2. Evaluated(g, rule, values, submitted) = Compose(rule.op, parts)
    BY <1>3 DEF Evaluated, Leaves
  <2> HIDE DEF parts
  <2> QED BY <1>3, <2>1, <2>2, CompositionIsEvaluation
<1> QED BY <1>1, <1>2, <1>3, PartsOfNodes

LEMMA EvaluatedByParts ==
  ASSUME NEW g, NEW h, NEW rule \in Rules, NEW values, NEW submitted,
         \A part \in Parts(rule) : g[part] = h[part]
  PROVE  Evaluated(g, rule, values, submitted) = Evaluated(h, rule, values, submitted)
<1>1. rule.op = "not" => g[rule.children[1]] = h[rule.children[1]]
  BY PartsOfNodes
<1>2. {g[part] : part \in Parts(rule)} = {h[part] : part \in Parts(rule)}
  OBVIOUS
<1> QED BY <1>1, <1>2 DEF Evaluated

\* Evaluating is well defined, and what it says of a rule follows from its parts.
LEMMA EvaluateIsRecursive ==
  ASSUME NEW values, NEW submitted
  PROVE  \A rule \in Rules :
           /\ Evaluate(values, submitted)[rule]
                = Evaluated(Evaluate(values, submitted), rule, values, submitted)
           /\ Evaluate(values, submitted)[rule] \in Evaluations(submitted)
<1> DEFINE V == Evaluations(submitted)
           Next_(g) == [rule \in Rules |-> Evaluated(g, rule, values, submitted)]
           F == [g \in [Rules -> V] |-> Next_(g)]
<1>1. \A g \in [Rules -> V] : Next_(g) \in [Rules -> V]
  BY EvaluatedIsEvaluation, PartsAreRules
<1>2. F \in [[Rules -> V] -> [Rules -> V]]
  <2> HIDE DEF Next_, V
  <2> QED BY <1>1
<1>3. ByParts(F, V)
  <2>1. ASSUME NEW g \in [Rules -> V], NEW h \in [Rules -> V], NEW rule \in Rules,
               \A part \in Parts(rule) : g[part] = h[part]
        PROVE  F[g][rule] = F[h][rule]
    <3>1. F[g] = Next_(g) /\ F[h] = Next_(h)
      OBVIOUS
    <3>2. Next_(g)[rule] = Next_(h)[rule]
      BY <2>1, EvaluatedByParts
    <3> HIDE DEF F, Next_
    <3> QED BY <3>1, <3>2
  <2> HIDE DEF F
  <2> QED BY <1>2, <2>1 DEF ByParts
<1>4. [value |-> "TRUE", missing |-> {}, decided |-> {}] \in V
  BY DEF Evaluations, Verdicts
<1>5. \E g \in [Rules -> V] : g = F[g]
  <2> HIDE DEF F, V
  <2> QED BY <1>3, <1>4, RecursionOverRules
<1>6. \E g : g = Next_(g)
  <2>1. PICK g \in [Rules -> V] : g = F[g]
    BY <1>5
  <2> QED BY <2>1
<1>7. PICK E : E = Evaluate(values, submitted)
  OBVIOUS
<1>8. E = CHOOSE g : g = Next_(g)
  BY <1>7 DEF Evaluate, Evaluated
<1>9. E = Next_(E)
  <2> HIDE DEF Next_
  <2> QED BY <1>6, <1>8
<1>10. \A rule \in Rules : E[rule] = Evaluated(E, rule, values, submitted)
  BY <1>9
<1> DEFINE Good == {rule \in Rules : E[rule] \in V}
<1>11. ASSUME NEW rule \in Rules, Parts(rule) \subseteq Good PROVE rule \in Good
  <2> HIDE DEF V
  <2>1. \A part \in Parts(rule) : E[part] \in V
    BY <1>11
  <2> QED BY <1>10, <2>1, EvaluatedIsEvaluation DEF V
<1>12. \A rule \in Rules : rule \in Good
  <2> HIDE DEF Good
  <2> QED BY <1>11, RuleInduction
<1> QED BY <1>7, <1>10, <1>12

\* Whether a rule holds of values, from whether its parts (h) do.
Held(h, rule, values, submitted) ==
  CASE rule.op = "all"    -> \A part \in Parts(rule) : h[part]
    [] rule.op = "any"    -> \E part \in Parts(rule) : h[part]
    [] rule.op = "not"    -> ~h[rule.children[1]]
    [] rule.op = "exists" -> rule.fact \in submitted
    [] OTHER              -> Matches(rule, values[rule.fact])

LEMMA HeldByParts ==
  ASSUME NEW g, NEW h, NEW rule \in Rules, NEW values, NEW submitted,
         \A part \in Parts(rule) : g[part] = h[part]
  PROVE  Held(g, rule, values, submitted) = Held(h, rule, values, submitted)
<1>1. rule.op = "not" => g[rule.children[1]] = h[rule.children[1]]
  BY PartsOfNodes
<1>2. (\A part \in Parts(rule) : g[part]) = (\A part \in Parts(rule) : h[part])
  OBVIOUS
<1>3. (\E part \in Parts(rule) : g[part]) = (\E part \in Parts(rule) : h[part])
  OBVIOUS
<1> QED BY <1>1, <1>2, <1>3 DEF Held

LEMMA HoldsIsRecursive ==
  ASSUME NEW values, NEW submitted
  PROVE  \E h : \A rule \in Rules :
           /\ Holds(rule, values, submitted) = h[rule]
           /\ h[rule] = Held(h, rule, values, submitted)
<1> DEFINE V == BOOLEAN \cup {Matches(rule, values[rule.fact]) : rule \in Rules}
           Next_(h) == [rule \in Rules |-> Held(h, rule, values, submitted)]
           F == [h \in [Rules -> V] |-> Next_(h)]
<1>1. ASSUME NEW h, NEW rule \in Rules PROVE Held(h, rule, values, submitted) \in V
  <2>1. CASE rule.op \in {"all", "any", "not", "exists"}
    <3>1. Held(h, rule, values, submitted) = TRUE \/ Held(h, rule, values, submitted) = FALSE
      <4>1. CASE rule.op = "all"
        <5>1. CASE \A part \in Parts(rule) : h[part]
          BY <4>1, <5>1 DEF Held
        <5>2. CASE ~\A part \in Parts(rule) : h[part]
          BY <4>1, <5>2 DEF Held
        <5> QED BY <5>1, <5>2
      <4>2. CASE rule.op = "any"
        <5>1. CASE \E part \in Parts(rule) : h[part]
          BY <4>2, <5>1 DEF Held
        <5>2. CASE ~\E part \in Parts(rule) : h[part]
          BY <4>2, <5>2 DEF Held
        <5> QED BY <5>1, <5>2
      <4>3. CASE rule.op = "not"
        <5>1. CASE h[rule.children[1]]
          BY <4>3, <5>1 DEF Held
        <5>2. CASE ~h[rule.children[1]]
          BY <4>3, <5>2 DEF Held
        <5> QED BY <5>1, <5>2
      <4>4. CASE rule.op = "exists"
        <5>1. CASE rule.fact \in submitted
          BY <4>4, <5>1 DEF Held
        <5>2. CASE rule.fact \notin submitted
          BY <4>4, <5>2 DEF Held
        <5> QED BY <5>1, <5>2
      <4> QED BY <2>1, <4>1, <4>2, <4>3, <4>4
    <3>2. Held(h, rule, values, submitted) \in BOOLEAN
      BY <3>1
    <3> QED BY <3>2
  <2>2. CASE rule.op \notin {"all", "any", "not", "exists"}
    <3>1. Held(h, rule, values, submitted) = Matches(rule, values[rule.fact])
      BY <2>2 DEF Held
    <3> QED BY <3>1
  <2> QED BY <2>1, <2>2
<1>2. \A h \in [Rules -> V] : Next_(h) \in [Rules -> V]
  <2> HIDE DEF V
  <2> QED BY <1>1
<1>3. F \in [[Rules -> V] -> [Rules -> V]]
  <2> HIDE DEF Next_, V
  <2> QED BY <1>2
<1>4. ByParts(F, V)
  <2>1. ASSUME NEW g \in [Rules -> V], NEW h \in [Rules -> V], NEW rule \in Rules,
               \A part \in Parts(rule) : g[part] = h[part]
        PROVE  F[g][rule] = F[h][rule]
    <3>1. F[g] = Next_(g) /\ F[h] = Next_(h)
      OBVIOUS
    <3>2. Next_(g)[rule] = Next_(h)[rule]
      BY <2>1, HeldByParts
    <3> HIDE DEF F, Next_
    <3> QED BY <3>1, <3>2
  <2> HIDE DEF F
  <2> QED BY <1>3, <2>1 DEF ByParts
<1>5. TRUE \in V
  OBVIOUS
<1>6. \E h \in [Rules -> V] : h = F[h]
  <2> HIDE DEF F, V
  <2> QED BY <1>4, <1>5, RecursionOverRules
<1>7. \E h : h = Next_(h)
  <2>1. PICK h \in [Rules -> V] : h = F[h]
    BY <1>6
  <2> QED BY <2>1
<1>8. PICK H : H = CHOOSE h : h = Next_(h)
  OBVIOUS
<1>9. \A rule \in Rules : Holds(rule, values, submitted) = H[rule]
  BY <1>8 DEF Holds, Held
<1>10. H = Next_(H)
  <2> HIDE DEF Next_
  <2> QED BY <1>7, <1>8
<1>11. \A rule \in Rules : H[rule] = Held(H, rule, values, submitted)
  BY <1>10
<1> QED BY <1>9, <1>11

\* What is said of a rule while facts are missing is so in every case that agrees.
LEMMA VerdictsAreSound ==
  ASSUME NEW values, NEW submitted, NEW all,
         \A key \in DOMAIN values : key \in DOMAIN all /\ all[key] = values[key]
  PROVE  \A rule \in Rules :
           /\ Evaluate(values, submitted)[rule].value = "TRUE" => Holds(rule, all, submitted)
           /\ Evaluate(values, submitted)[rule].value = "FALSE" => ~Holds(rule, all, submitted)
<1>1. PICK E : E = Evaluate(values, submitted)
  OBVIOUS
<1>2. \A rule \in Rules : /\ E[rule] = Evaluated(E, rule, values, submitted)
                          /\ E[rule] \in Evaluations(submitted)
  BY <1>1, EvaluateIsRecursive
<1>3. PICK H : \A rule \in Rules : /\ Holds(rule, all, submitted) = H[rule]
                                   /\ H[rule] = Held(H, rule, all, submitted)
  BY HoldsIsRecursive
<1> DEFINE Sound(rule) == /\ E[rule].value = "TRUE" => H[rule]
                          /\ E[rule].value = "FALSE" => ~H[rule]
           Good == {rule \in Rules : Sound(rule)}
<1>4. ASSUME NEW rule \in Rules, \A part \in Parts(rule) : part \in Rules /\ Sound(part)
      PROVE  Sound(rule)
  <2> HIDE DEF Good
  <2>0. E[rule] = Evaluated(E, rule, values, submitted)
    BY <1>2
  <2>1. CASE rule.op = "exists"
    <3>0. E[rule] = EvaluateLeaf(rule, values, submitted)
      BY <2>0, <2>1 DEF Evaluated, Leaves
    <3>1. E[rule].value = Truth(rule.fact \in submitted)
      BY <2>1, <3>0 DEF EvaluateLeaf
    <3>2. H[rule] = (rule.fact \in submitted)
      BY <1>3, <2>1 DEF Held
    <3> QED BY <3>1, <3>2 DEF Truth
  <2>2. CASE rule.op \in Leaves \ {"exists"}
    <3>0. E[rule] = EvaluateLeaf(rule, values, submitted)
      BY <2>0, <2>2 DEF Evaluated
    <3>1. CASE rule.fact \in DOMAIN values
      <4>1. E[rule].value = Truth(Matches(rule, values[rule.fact]))
        BY <2>2, <3>0, <3>1 DEF EvaluateLeaf
      <4>2. H[rule] = Matches(rule, all[rule.fact])
        BY <1>3, <2>2 DEF Held, Leaves
      <4>3. all[rule.fact] = values[rule.fact]
        BY <3>1
      <4> QED BY <4>1, <4>2, <4>3 DEF Truth
    <3>2. CASE rule.fact \notin DOMAIN values
      BY <2>2, <3>0, <3>2 DEF EvaluateLeaf
    <3> QED BY <3>1, <3>2
  <2>3. CASE rule.op = "not"
    <3>1. rule.children[1] \in Parts(rule)
      BY <2>3, PartsOfNodes
    <3>2. E[rule] = Negate(E[rule.children[1]])
      BY <1>2, <2>3 DEF Evaluated, Leaves
    <3>3. H[rule] = ~H[rule.children[1]]
      BY <1>3, <2>3 DEF Held
    <3>4. /\ E[rule].value = "TRUE" <=> E[rule.children[1]].value = "FALSE"
          /\ E[rule].value = "FALSE" <=> E[rule.children[1]].value = "TRUE"
      BY <1>2, <1>4, <3>1, <3>2, NegationIsEvaluation
    <3> QED BY <1>4, <3>1, <3>3, <3>4
  <2>4. CASE rule.op \in {"all", "any"}
    <3> DEFINE vals == {p.value : p \in {E[part] : part \in Parts(rule)}}
    <3>0. E[rule] = Compose(rule.op, {E[part] : part \in Parts(rule)})
      BY <2>0, <2>4 DEF Evaluated, Leaves
    <3>1. E[rule].value = Kleene(rule.op, vals)
      BY <3>0 DEF Compose
    <3>2. \A part \in Parts(rule) : E[part].value \in vals
      OBVIOUS
    <3>3. \A v \in vals : \E part \in Parts(rule) : E[part].value = v
      OBVIOUS
    <3> HIDE DEF vals
    <3>4. CASE rule.op = "all"
      <4>1. H[rule] = \A part \in Parts(rule) : H[part]
        BY <1>3, <3>4 DEF Held
      <4>2. E[rule].value = "FALSE" => "FALSE" \in vals
        BY <3>1, <3>4 DEF Kleene
      <4>3. E[rule].value = "TRUE" => vals = {"TRUE"}
        BY <3>1, <3>4 DEF Kleene
      <4>4. E[rule].value = "FALSE" => \E part \in Parts(rule) : ~H[part]
        BY <1>4, <3>3, <4>2
      <4>5. E[rule].value = "TRUE" => \A part \in Parts(rule) : H[part]
        BY <1>4, <3>2, <4>3
      <4> QED BY <4>1, <4>4, <4>5
    <3>5. CASE rule.op = "any"
      <4>1. H[rule] = \E part \in Parts(rule) : H[part]
        BY <1>3, <3>5 DEF Held
      <4>2. E[rule].value = "TRUE" => "TRUE" \in vals
        BY <3>1, <3>5 DEF Kleene
      <4>3. E[rule].value = "FALSE" => vals = {"FALSE"}
        BY <3>1, <3>5 DEF Kleene
      <4>4. E[rule].value = "TRUE" => \E part \in Parts(rule) : H[part]
        BY <1>4, <3>3, <4>2
      <4>5. E[rule].value = "FALSE" => \A part \in Parts(rule) : ~H[part]
        BY <1>4, <3>2, <4>3
      <4> QED BY <4>1, <4>4, <4>5
    <3> QED BY <2>4, <3>4, <3>5
  <2> QED BY <2>1, <2>2, <2>3, <2>4, PartsOfNodes
<1>5. ASSUME NEW rule \in Rules, Parts(rule) \subseteq Good PROVE rule \in Good
  <2>1. \A part \in Parts(rule) : part \in Rules /\ Sound(part)
    BY <1>5
  <2> HIDE DEF Sound
  <2> QED BY <1>4, <2>1
<1>6. \A rule \in Rules : rule \in Good
  <2> HIDE DEF Good
  <2> QED BY <1>5, RuleInduction
<1> QED BY <1>1, <1>3, <1>6

\* The facts that parts of a rule mention.
LEMMA ReferencedIsRecursive ==
  \A rule \in Rules : /\ FactsOf(rule) \subseteq Referenced(rule)
                      /\ \A part \in Parts(rule) : Referenced(part) \subseteq Referenced(rule)
<1> DEFINE V == SUBSET Keys
           Next_(g) == [rule \in Rules |-> FactsOf(rule) \cup UNION {g[part] : part \in Parts(rule)}]
           F == [g \in [Rules -> V] |-> Next_(g)]
<1>1. \A g \in [Rules -> V] : Next_(g) \in [Rules -> V]
  BY PartsAreRules, PartsOfNodes DEF FactsOf
<1>2. F \in [[Rules -> V] -> [Rules -> V]]
  <2> HIDE DEF Next_, V
  <2> QED BY <1>1
<1>3. ByParts(F, V)
  <2>1. ASSUME NEW g \in [Rules -> V], NEW h \in [Rules -> V], NEW rule \in Rules,
               \A part \in Parts(rule) : g[part] = h[part]
        PROVE  F[g][rule] = F[h][rule]
    <3>1. F[g] = Next_(g) /\ F[h] = Next_(h)
      OBVIOUS
    <3>2. {g[part] : part \in Parts(rule)} = {h[part] : part \in Parts(rule)}
      BY <2>1
    <3>3. Next_(g)[rule] = Next_(h)[rule]
      BY <3>2
    <3> HIDE DEF F, Next_
    <3> QED BY <3>1, <3>3
  <2> HIDE DEF F
  <2> QED BY <1>2, <2>1 DEF ByParts
<1>4. {} \in V
  OBVIOUS
<1>5. \E g \in [Rules -> V] : g = F[g]
  <2> HIDE DEF F, V
  <2> QED BY <1>3, <1>4, RecursionOverRules
<1>6. \E g : g = Next_(g)
  <2>1. PICK g \in [Rules -> V] : g = F[g]
    BY <1>5
  <2> QED BY <2>1
<1>7. PICK R : R = CHOOSE g : g = Next_(g)
  OBVIOUS
<1>8. \A rule : Referenced(rule) = R[rule]
  BY <1>7 DEF Referenced
<1>9. R = Next_(R)
  <2> HIDE DEF Next_
  <2> QED BY <1>6, <1>7
<1>10. \A rule \in Rules : R[rule] = FactsOf(rule) \cup UNION {R[part] : part \in Parts(rule)}
  BY <1>9
<1> QED BY <1>8, <1>10

LEMMA KleeneDecides ==
  ASSUME NEW op \in {"all", "any"}, NEW vals, NEW v \in {"TRUE", "FALSE"}
  PROVE  Kleene(op, vals) = v <=>
           IF v = (IF op = "all" THEN "FALSE" ELSE "TRUE") THEN v \in vals
           ELSE vals = {v}
BY DEF Kleene

\* The facts that decided a rule about source facts decide it without the others.
LEMMA DecidedFactsDecide ==
  ASSUME NEW values, NEW submitted, NEW some, NEW kept \in SUBSET submitted,
         \A key \in kept : key \in DOMAIN values /\ key \in DOMAIN some /\ some[key] = values[key],
         \A key \in SourceKeys \cap DOMAIN values : key \in submitted
  PROVE  \A rule \in Rules :
           LET e == Evaluate(values, submitted)[rule]
               f == Evaluate(some, kept)[rule] IN
           Referenced(rule) \subseteq SourceKeys /\ e.decided \subseteq kept /\ e.value # "UNKNOWN"
             => f.value = e.value /\ e.decided \subseteq f.decided
<1>1. PICK E : E = Evaluate(values, submitted)
  OBVIOUS
<1>2. PICK D : D = Evaluate(some, kept)
  OBVIOUS
<1>3. \A rule \in Rules : /\ E[rule] = Evaluated(E, rule, values, submitted)
                          /\ E[rule] \in Evaluations(submitted)
  BY <1>1, EvaluateIsRecursive
<1>4. \A rule \in Rules : /\ D[rule] = Evaluated(D, rule, some, kept)
                          /\ D[rule] \in Evaluations(kept)
  BY <1>2, EvaluateIsRecursive
<1> DEFINE Same(rule) ==
             Referenced(rule) \subseteq SourceKeys /\ E[rule].decided \subseteq kept
               /\ E[rule].value # "UNKNOWN"
             => D[rule].value = E[rule].value /\ E[rule].decided \subseteq D[rule].decided
           Good == {rule \in Rules : Same(rule)}
<1>5. ASSUME NEW rule \in Rules, \A part \in Parts(rule) : part \in Rules /\ Same(part)
      PROVE  Same(rule)
  <2> SUFFICES ASSUME Referenced(rule) \subseteq SourceKeys, E[rule].decided \subseteq kept,
                      E[rule].value # "UNKNOWN"
               PROVE  D[rule].value = E[rule].value /\ E[rule].decided \subseteq D[rule].decided
    OBVIOUS
  <2> HIDE DEF Good
  <2>1. E[rule] = Evaluated(E, rule, values, submitted) /\ E[rule] \in Evaluations(submitted)
    BY <1>3
  <2>2. D[rule] = Evaluated(D, rule, some, kept)
    BY <1>4
  <2>3. CASE rule.op \in Leaves
    <3>1. E[rule] = EvaluateLeaf(rule, values, submitted) /\ D[rule] = EvaluateLeaf(rule, some, kept)
      BY <2>1, <2>2, <2>3 DEF Evaluated
    <3>2. CASE rule.op = "exists"
      <4>1. E[rule] = [value |-> Truth(rule.fact \in submitted), missing |-> {},
                       decided |-> submitted \cap {rule.fact}]
        BY <3>1, <3>2 DEF EvaluateLeaf
      <4>2. D[rule] = [value |-> Truth(rule.fact \in kept), missing |-> {},
                       decided |-> kept \cap {rule.fact}]
        BY <3>1, <3>2 DEF EvaluateLeaf
      <4>3. submitted \cap {rule.fact} = kept \cap {rule.fact}
        BY <4>1
      <4>4. rule.fact \in submitted <=> rule.fact \in kept
        BY <4>3
      <4> QED BY <4>1, <4>2, <4>3, <4>4 DEF Truth
    <3>3. CASE rule.op # "exists"
      <4>1. rule.fact \in DOMAIN values
        BY <3>1, <3>3 DEF EvaluateLeaf
      <4>2. rule.fact \in SourceKeys
        BY <2>3, ReferencedIsRecursive DEF FactsOf
      <4>3. E[rule] = [value |-> Truth(Matches(rule, values[rule.fact])), missing |-> {},
                       decided |-> submitted \cap {rule.fact}]
        BY <3>1, <3>3, <4>1 DEF EvaluateLeaf
      <4>4. rule.fact \in submitted
        BY <4>1, <4>2
      <4>5. rule.fact \in kept
        BY <4>3, <4>4
      <4>6. D[rule] = [value |-> Truth(Matches(rule, some[rule.fact])), missing |-> {},
                       decided |-> kept \cap {rule.fact}]
        BY <3>1, <3>3, <4>5 DEF EvaluateLeaf
      <4>7. some[rule.fact] = values[rule.fact]
        BY <4>5
      <4> QED BY <4>3, <4>5, <4>6, <4>7
    <3> QED BY <3>2, <3>3
  <2>4. CASE rule.op = "not"
    <3>1. PICK part \in Parts(rule) : part = rule.children[1]
      BY <2>4, PartsOfNodes
    <3>2. E[rule] = Negate(E[part]) /\ D[rule] = Negate(D[part])
      BY <2>1, <2>2, <2>4, <3>1 DEF Evaluated, Leaves
    <3>3. part \in Rules /\ E[part] \in Evaluations(submitted) /\ D[part] \in Evaluations(kept)
      BY <1>3, <1>4, <1>5
    <3>4. /\ E[rule].decided = E[part].decided
          /\ E[rule].value = "TRUE" <=> E[part].value = "FALSE"
          /\ E[rule].value = "FALSE" <=> E[part].value = "TRUE"
      BY <3>2, <3>3, NegationIsEvaluation
    <3>5. /\ D[rule].decided = D[part].decided
          /\ D[rule].value = "TRUE" <=> D[part].value = "FALSE"
          /\ D[rule].value = "FALSE" <=> D[part].value = "TRUE"
      BY <3>2, <3>3, NegationIsEvaluation
    <3>6. E[rule].value \in {"TRUE", "FALSE"}
      BY <2>1 DEF Evaluations, Verdicts
    <3>7. Referenced(part) \subseteq SourceKeys /\ Same(part)
      BY <1>5, ReferencedIsRecursive
    <3>8. D[part].value = E[part].value /\ E[part].decided \subseteq D[part].decided
      BY <3>4, <3>6, <3>7
    <3> QED BY <3>4, <3>5, <3>6, <3>8
  <2>5. CASE rule.op \in {"all", "any"}
    <3> DEFINE v == E[rule].value
               es == {E[part] : part \in Parts(rule)}
               ds == {D[part] : part \in Parts(rule)}
               eValues == {p.value : p \in es}
               dValues == {p.value : p \in ds}
    <3>1. E[rule] = Compose(rule.op, es) /\ D[rule] = Compose(rule.op, ds)
      BY <2>1, <2>2, <2>5 DEF Evaluated, Leaves
    <3>2. /\ E[rule].value = Kleene(rule.op, eValues) /\ E[rule].decided = DecidedBy(E[rule].value, es)
          /\ D[rule].value = Kleene(rule.op, dValues) /\ D[rule].decided = DecidedBy(D[rule].value, ds)
      BY <3>1 DEF Compose
    <3>3. ASSUME NEW part \in Parts(rule), E[part].value = v
          PROVE  D[part].value = v /\ E[part].decided \subseteq D[part].decided
      <4>1. E[part] \in es
        OBVIOUS
      <4>2. E[part].decided \subseteq E[rule].decided
        <5> HIDE DEF es
        <5> QED BY <3>2, <3>3, <4>1 DEF DecidedBy
      <4>3. Referenced(part) \subseteq SourceKeys /\ Same(part)
        BY <1>5, ReferencedIsRecursive
      <4> QED BY <3>3, <4>2, <4>3
    <3>4. v \in {"TRUE", "FALSE"}
      BY <2>1 DEF Evaluations, Verdicts
    <3>5. \A part \in Parts(rule) : E[part].value \in eValues /\ D[part].value \in dValues
      OBVIOUS
    <3>6. \A x \in eValues : \E part \in Parts(rule) : E[part].value = x
      OBVIOUS
    <3>7. \A x \in dValues : \E part \in Parts(rule) : D[part].value = x
      OBVIOUS
    <3>8. Parts(rule) # {}
      BY <2>5, PartsOfNodes
    <3>9. Kleene(rule.op, dValues) = v
      <4> HIDE DEF v, es, ds, eValues, dValues
      <4>1. Kleene(rule.op, eValues) = v
        BY <3>2 DEF v
      <4>2. v \in eValues => v \in dValues
        BY <3>3, <3>5, <3>6
      <4>3. eValues = {v} => dValues = {v}
        BY <3>3, <3>5, <3>7, <3>8
      <4> QED BY <2>5, <3>4, <4>1, <4>2, <4>3, KleeneDecides
    <3>10. DecidedBy(v, es) \subseteq DecidedBy(v, ds)
      <4>1. ASSUME NEW key \in DecidedBy(v, es) PROVE key \in DecidedBy(v, ds)
        <5>1. PICK part \in Parts(rule) : E[part].value = v /\ key \in E[part].decided
          BY <4>1 DEF DecidedBy
        <5>2. D[part].value = v /\ key \in D[part].decided /\ D[part] \in ds
          BY <3>3, <5>1
        <5> HIDE DEF ds, es, v
        <5> QED BY <5>2 DEF DecidedBy
      <4> QED BY <4>1
    <3> QED BY <3>2, <3>9, <3>10
  <2> QED BY <2>3, <2>4, <2>5, PartsOfNodes
<1>6. ASSUME NEW rule \in Rules, Parts(rule) \subseteq Good PROVE rule \in Good
  <2>1. \A part \in Parts(rule) : part \in Rules /\ Same(part)
    BY <1>6
  <2> HIDE DEF Same
  <2> QED BY <1>5, <2>1
<1>7. \A rule \in Rules : rule \in Good
  <2> HIDE DEF Good
  <2> QED BY <1>6, RuleInduction
<1> QED BY <1>1, <1>2, <1>7

-----------------------------------------------------------------------------
(* Cases.  What is derived from some facts stays when others are added.      *)

LEMMA PreparedCases ==
  ASSUME NEW fs, NEW d, NEW case, case = Prepared(fs, d)
  PROVE  /\ case.verdict = Evaluate(case.values, DOMAIN fs)
         /\ DOMAIN case.values
              = {k \in DerivedKeys : DerivedFrom[k] \subseteq DOMAIN fs} \cup DOMAIN fs
         /\ \A k \in DOMAIN case.values :
              case.values[k] = IF k \in DOMAIN fs THEN fs[k] ELSE Derive(k, fs, d)
<1> DEFINE known == {k \in DerivedKeys : Omitted(k, fs) = {}}
           values == [k \in known \cup DOMAIN fs |->
                        IF k \in DOMAIN fs THEN fs[k] ELSE Derive(k, fs, d)]
<1>1. case = CaseOf(values, fs)
  BY DEF Prepared
<1>2. case.values = values /\ case.verdict = Evaluate(values, DOMAIN fs)
  <2> HIDE DEF values
  <2> QED BY <1>1 DEF CaseOf
<1>3. known = {k \in DerivedKeys : DerivedFrom[k] \subseteq DOMAIN fs}
  BY DEF Omitted
<1> QED BY <1>2, <1>3

LEMMA DerivedFromTheSame ==
  ASSUME NEW key \in DerivedKeys, NEW fs, NEW c, NEW d,
         \A k \in DerivedFrom[key] : fs[k] = c[k]
  PROVE  Derive(key, fs, d) = Derive(key, c, d)
BY DEF Derive, DerivedFrom, DerivedKeys

LEMMA PreparedCasesAgree ==
  ASSUME NEW fs, NEW c, NEW d, DOMAIN fs \subseteq SourceKeys, DOMAIN c = SourceKeys,
         \A k \in DOMAIN fs : c[k] = fs[k]
  PROVE  \A k \in DOMAIN Prepared(fs, d).values :
           k \in DOMAIN Prepared(c, d).values /\ Prepared(c, d).values[k] = Prepared(fs, d).values[k]
<1> SUFFICES ASSUME NEW k \in DOMAIN Prepared(fs, d).values
             PROVE  /\ k \in DOMAIN Prepared(c, d).values
                    /\ Prepared(c, d).values[k] = Prepared(fs, d).values[k]
  OBVIOUS
<1>1. CASE k \in DOMAIN fs
  BY <1>1, PreparedCases
<1>2. CASE k \notin DOMAIN fs
  <2>1. k \in DerivedKeys /\ DerivedFrom[k] \subseteq DOMAIN fs
    BY <1>2, PreparedCases
  <2>2. k \notin DOMAIN c
    BY <2>1, DefinitionsAssumption DEF SourceKeys
  <2>3. DerivedFrom[k] \subseteq DOMAIN c
    BY <2>1
  <2>4. Derive(k, fs, d) = Derive(k, c, d)
    BY <2>1, DerivedFromTheSame
  <2> QED BY <1>2, <2>1, <2>2, <2>3, <2>4, PreparedCases
<1> QED BY <1>1, <1>2

\* Valuations are built key by key.
Chosen(keys) == CHOOSE k \in keys : TRUE

ValuationEquation(g, keys) ==
  IF keys = {} THEN {<<>>} ELSE Extended(g[keys \ {Chosen(keys)}], Chosen(keys))

ValuationsOf(g, all) == g = [keys \in SUBSET all |-> ValuationEquation(g, keys)]

LEMMA ValuationsAreRecursive ==
  ASSUME NEW all, NEW h, ValuationsOf(h, all)
  PROVE  \E g : ValuationsOf(g, all) /\ Valuations(all) = g[all]
<1>1. Valuations(all) = (CHOOSE g : ValuationsOf(g, all))[all]
  BY DEF Valuations, FoldSet, MapThenFoldSet, ValuationsOf, ValuationEquation, Chosen
<1> QED BY <1>1

LEMMA LeastNatural ==
  ASSUME NEW T \in SUBSET Nat, T # {}
  PROVE  \E n \in T : \A m \in T : n <= m
<1>1. PICK n \in T : \A m \in T : ~(<<m, n>> \in OpToRel(<, Nat))
  BY NatLessThanWellFounded, WFMin
<1>2. \A m \in T : ~(m < n)
  BY <1>1 DEF OpToRel
<1> QED BY <1>2

\* An extension of some cases is one of them, with a value for one key.
LEMMA ExtendedCases ==
  ASSUME NEW cases, NEW k, NEW x \in Extended(cases, k)
  PROVE  \E c \in cases : DOMAIN x = {k} \cup DOMAIN c
<1>1. PICK vals : vals = Definitions[k].values
  OBVIOUS
<1>2. \E c \in cases, v \in vals : x = [j \in {k} \cup DOMAIN c |-> IF j = k THEN v ELSE c[j]]
  BY <1>1 DEF Extended
<1> QED BY <1>2

ValueExactly(cases, keys) == \A c \in cases : DOMAIN c = keys

LEMMA ExtendedDomains ==
  ASSUME NEW cases, NEW k, NEW keys, ValueExactly(cases, keys)
  PROVE  ValueExactly(Extended(cases, k), {k} \cup keys)
<1> SUFFICES ASSUME NEW x \in Extended(cases, k) PROVE DOMAIN x = {k} \cup keys
  BY DEF ValueExactly
<1>1. PICK c \in cases : DOMAIN x = {k} \cup DOMAIN c
  BY ExtendedCases
<1> QED BY <1>1 DEF ValueExactly

\* Each round of the equation settles the sets of one more key.
LEMMA ValuationsExist ==
  ASSUME NEW S, IsFiniteSet(S)
  PROVE  \E g : ValuationsOf(g, S)
<1> DEFINE Upto(n, g) == \A T \in SUBSET S : Cardinality(T) <= n => g[T] = ValuationEquation(g, T)
           Bad == {n \in Nat : ~\E g : DOMAIN g = SUBSET S /\ Upto(n, g)}
<1>1. \A T \in SUBSET S : IsFiniteSet(T) /\ Cardinality(T) \in Nat
  BY FS_Subset, FS_CardinalityType
<1>2. \A T \in SUBSET S : T # {} =>
        T \ {Chosen(T)} \in SUBSET S /\ Cardinality(T \ {Chosen(T)}) = Cardinality(T) - 1
  <2> SUFFICES ASSUME NEW T \in SUBSET S, T # {}
               PROVE  Cardinality(T \ {Chosen(T)}) = Cardinality(T) - 1
    OBVIOUS
  <2>1. Chosen(T) \in T
    BY DEF Chosen
  <2> QED BY <1>1, <2>1, FS_RemoveElement
<1>3. Bad = {}
  <2> SUFFICES ASSUME Bad # {} PROVE FALSE OBVIOUS
  <2>1. PICK n \in Bad : \A m \in Bad : n <= m
    <3>1. Bad \in SUBSET Nat
      OBVIOUS
    <3> HIDE DEF Bad
    <3> QED BY <3>1, LeastNatural
  <2>2. n # 0
    <3> DEFINE g == [T \in SUBSET S |-> {<<>>}]
    <3>1. \A T \in SUBSET S : Cardinality(T) <= 0 => T = {}
      BY <1>1, FS_EmptySet
    <3>2. Upto(0, g)
      BY <3>1 DEF ValuationEquation
    <3>3. DOMAIN g = SUBSET S
      OBVIOUS
    <3> HIDE DEF g, Upto
    <3> QED BY <3>2, <3>3
  <2>3. n - 1 \in Nat /\ n - 1 \notin Bad
    <3>1. n \in Nat
      OBVIOUS
    <3> HIDE DEF Bad
    <3> QED BY <2>1, <2>2, <3>1
  <2>4. PICK g : DOMAIN g = SUBSET S /\ Upto(n - 1, g)
    BY <2>3
  <2> DEFINE h == [T \in SUBSET S |-> ValuationEquation(g, T)]
  <2>5. ASSUME NEW T \in SUBSET S, Cardinality(T) <= n
        PROVE  h[T] = ValuationEquation(h, T)
    <3>1. CASE T = {}
      BY <3>1 DEF ValuationEquation
    <3>2. CASE T # {}
      <4> DEFINE U == T \ {Chosen(T)}
      <4>1. U \in SUBSET S /\ Cardinality(U) <= n - 1
        BY <1>1, <1>2, <2>1, <2>5, <3>2
      <4> HIDE DEF U
      <4>2. g[U] = ValuationEquation(g, U)
        BY <2>4, <4>1
      <4>3. h[U] = g[U]
        BY <4>1, <4>2
      <4> QED BY <3>2, <4>3 DEF ValuationEquation, U
    <3> QED BY <3>1, <3>2
  <2>6. DOMAIN h = SUBSET S
    OBVIOUS
  <2> HIDE DEF h
  <2>7. Upto(n, h)
    BY <2>5
  <2> HIDE DEF Upto
  <2> QED BY <2>6, <2>7
<1>4. Cardinality(S) \in Nat /\ \A T \in SUBSET S : Cardinality(T) <= Cardinality(S)
  BY <1>1, FS_Subset
<1>5. PICK g : DOMAIN g = SUBSET S /\ Upto(Cardinality(S), g)
  BY <1>3, <1>4
<1> DEFINE h == [T \in SUBSET S |-> g[T]]
<1>6. \A T \in SUBSET S : h[T] = ValuationEquation(h, T)
  BY <1>2, <1>4, <1>5 DEF ValuationEquation
<1>7. h = [T \in SUBSET S |-> ValuationEquation(h, T)]
  BY <1>6
<1> QED BY <1>7 DEF ValuationsOf

\* A valuation of some keys gives a value to exactly these.
LEMMA ValuationsValueTheirKeys ==
  ASSUME NEW S, IsFiniteSet(S), NEW c \in Valuations(S)
  PROVE  DOMAIN c = S
<1>1. PICK g : ValuationsOf(g, S) /\ Valuations(S) = g[S]
  BY ValuationsExist, ValuationsAreRecursive
<1>2. \A T \in SUBSET S : g[T] = ValuationEquation(g, T)
  BY <1>1 DEF ValuationsOf
<1> DEFINE Fits(T) == \A x \in g[T] : DOMAIN x = T
           Sizes == {n \in Nat : \E T \in SUBSET S : Cardinality(T) = n /\ ~Fits(T)}
<1>3. \A T \in SUBSET S : IsFiniteSet(T) /\ Cardinality(T) \in Nat
  BY FS_Subset, FS_CardinalityType
<1>4. Sizes = {}
  <2> SUFFICES ASSUME Sizes # {} PROVE FALSE OBVIOUS
  <2>1. PICK n \in Sizes : \A m \in Sizes : n <= m
    <3>1. Sizes \in SUBSET Nat
      OBVIOUS
    <3> HIDE DEF Sizes
    <3> QED BY <3>1, LeastNatural
  <2>2. PICK T \in SUBSET S : Cardinality(T) = n /\ ~Fits(T)
    OBVIOUS
  <2>3. CASE T = {}
    <3>1. g[T] = {<<>>}
      BY <1>2, <2>3 DEF ValuationEquation
    <3> QED BY <2>2, <2>3, <3>1
  <2>4. CASE T # {}
    <3> DEFINE k == Chosen(T)
               U == T \ {k}
    <3>1. k \in T
      BY <2>4 DEF Chosen
    <3> HIDE DEF k
    <3>2. Cardinality(U) = Cardinality(T) - 1 /\ U \in SUBSET S
      BY <1>3, <3>1, FS_RemoveElement
    <3>3. Fits(U)
      <4>1. Cardinality(U) \in Nat /\ ~(n <= Cardinality(U))
        BY <1>3, <2>2, <3>2
      <4>2. Cardinality(U) \notin Sizes
        <5> HIDE DEF Sizes
        <5> QED BY <2>1, <4>1
      <4> HIDE DEF Fits, U
      <4> QED BY <3>2, <4>1, <4>2
    <3>4. g[T] = Extended(g[U], k)
      BY <1>2, <2>4 DEF ValuationEquation, k
    <3>5. ValueExactly(g[U], U)
      BY <3>3 DEF ValueExactly
    <3>6. T = {k} \cup U
      BY <3>1
    <3> HIDE DEF U
    <3>7. ValueExactly(Extended(g[U], k), {k} \cup U)
      BY <3>5, ExtendedDomains
    <3>8. ValueExactly(g[T], T)
      BY <3>4, <3>6, <3>7
    <3> QED BY <2>2, <3>8 DEF ValueExactly
  <2> QED BY <2>3, <2>4
<1>5. Fits(S)
  <2>1. S \in SUBSET S
    OBVIOUS
  <2> HIDE DEF Fits
  <2> QED BY <1>3, <1>4, <2>1
<1> QED BY <1>1, <1>5

-----------------------------------------------------------------------------
(* What stands in every case that may still be revealed.  A result stands on
   the candidates whose rules are decided and on the parts of the plan.       *)

Matching(c, case) == {x \in c.candidates : case.verdict[x.when].value = "TRUE"}
Undecided(c, case) == {x \in c.candidates : case.verdict[x.when].value = "UNKNOWN"}

LEMMA SelectionsDecide ==
  ASSUME NEW c, NEW case, NEW r, r = SelectProcedure(c, case)
  PROVE  \/ \E q : r = QuestionResult(q)
         \/ Cardinality(Matching(c, case)) > 1 /\ r = Inconclusive("multiple_matching_procedures")
         \/ /\ Matching(c, case) = {} /\ Undecided(c, case) = {}
            /\ r = Inconclusive("no_matching_researched_procedure")
         \/ /\ ~(Cardinality(Matching(c, case)) > 1) /\ Undecided(c, case) = {}
            /\ \E x \in Matching(c, case) : r = [kind |-> "selected", procedure |-> x.procedure]
<1> DEFINE matching == Matching(c, case)
<1>1. CASE matching # {} /\ Undecided(c, case) = {} /\ ~(Cardinality(matching) > 1)
  <2>1. PICK y : y = CHOOSE x \in matching : TRUE
    OBVIOUS
  <2>2. y \in matching
    BY <1>1, <2>1
  <2>3. r = [kind |-> "selected", procedure |-> y.procedure]
    BY <1>1, <2>1 DEF SelectProcedure, Matching, Undecided
  <2> QED BY <1>1, <2>2, <2>3
<1>2. CASE ~(matching # {} /\ Undecided(c, case) = {} /\ ~(Cardinality(matching) > 1))
  BY <1>2 DEF SelectProcedure, Matching, Undecided
<1> QED BY <1>1, <1>2

PartsOf(c, v, case, d) ==
  LET b == SelectBases(v, case, d) IN
  <<Applicable(case.verdict[v.applicability]), b, SelectDependencies(c, v, case, d),
    SelectChecklistItems(v, case, d, b.trusted), SelectSteps(v, case, d, b.trusted),
    SelectFees(v, case, d, b.trusted)>>

\* A plan is made from parts of which none stands in the way.
Planned(r, v, parts) ==
  /\ \A i \in 1..6 : ~Obstructs(parts[i])
  /\ r.kind = "plan" /\ r.version = v /\ r.bases = parts[2] /\ r.dependencies = parts[3].items
  /\ r.checklist = parts[4].items /\ r.steps = parts[5].items /\ r.fees = parts[6].items
  /\ parts[4].distrusted => "checklist_items" \in r.held
  /\ parts[5].distrusted => "steps" \in r.held

LEMMA PlansStandOnTheirParts ==
  ASSUME NEW c, NEW v, NEW case, NEW d, NEW r, r = PlanVersion(c, v, case, d)
  PROVE  LET parts == PartsOf(c, v, case, d) IN
         \/ Planned(r, v, parts)
         \/ \E i \in 1..6 : Obstructs(parts[i]) /\ r = Answered(c, case, parts[i])
<1> DEFINE b == SelectBases(v, case, d)
<1>1. PICK p1, p2, p3, p4, p5, p6 :
        /\ p1 = Applicable(case.verdict[v.applicability])
        /\ p2 = b /\ p3 = SelectDependencies(c, v, case, d)
        /\ p4 = SelectChecklistItems(v, case, d, b.trusted)
        /\ p5 = SelectSteps(v, case, d, b.trusted)
        /\ p6 = SelectFees(v, case, d, b.trusted)
  OBVIOUS
<1>2. r = PlanOf(c, v, case, d, p1, p2, p3, p4, p5, p6)
  BY <1>1 DEF PlanVersion, PlanWith
<1>3. PartsOf(c, v, case, d) = <<p1, p2, p3, p4, p5, p6>>
  BY <1>1 DEF PartsOf
<1>4. PICK parts : parts = <<p1, p2, p3, p4, p5, p6>>
  OBVIOUS
<1>5. /\ parts[1] = p1 /\ parts[2] = p2 /\ parts[3] = p3 /\ parts[4] = p4 /\ parts[5] = p5
      /\ parts[6] = p6 /\ Len(parts) = 6
  BY <1>4
<1>6. PICK first : first = SelectInSeq(parts, Obstructs)
  OBVIOUS
<1>7. CASE first # 0
  <2>1. first \in 1..6 /\ Obstructs(parts[first])
    BY <1>4, <1>6, <1>7, FirstObstacle
  <2>2. r = Answered(c, case, parts[first])
    BY <1>2, <1>4, <1>6, <1>7 DEF PlanOf
  <2> QED BY <1>3, <1>4, <2>1, <2>2
<1>8. CASE first = 0
  <2> DEFINE I == {i \in 1..6 : Obstructs(parts[i])}
  <2>1. ASSUME I # {} PROVE FALSE
    <3>1. 0 = Min(I)
      BY <1>5, <1>6, <1>8, <2>1 DEF SelectInSeq
    <3>2. \E i \in I : \A j \in I : i <= j
      <4>1. I \in SUBSET Nat
        OBVIOUS
      <4> HIDE DEF I
      <4> QED BY <2>1, <4>1, LeastNatural
    <3>3. Min(I) \in I
      BY <3>2 DEF Min
    <3> QED BY <3>1, <3>3
  <2>2. \A i \in 1..6 : ~Obstructs(parts[i])
    BY <2>1
  <2>3. PICK warnings, routing, held :
          /\ warnings = SelectWarnings(v, case, d)
          /\ routing = SelectServicePoints(v, case, d)
          /\ held = (IF p4.distrusted THEN {"checklist_items"} ELSE {})
                    \cup (IF p5.distrusted THEN {"steps"} ELSE {})
    OBVIOUS
  <2>4. r = [kind |-> "plan", version |-> v, bases |-> p2, dependencies |-> p3.items,
             checklist |-> p4.items, steps |-> p5.items, fees |-> p6.items,
             warnings |-> warnings, routing |-> routing, held |-> held]
    BY <1>2, <1>4, <1>6, <1>8, <2>3 DEF PlanOf
  <2>5. /\ p4.distrusted => "checklist_items" \in held
        /\ p5.distrusted => "steps" \in held
    BY <2>3
  <2>6. Planned(r, v, parts)
    BY <1>5, <2>2, <2>4, <2>5 DEF Planned
  <2> QED BY <1>3, <1>4, <2>6
<1> QED BY <1>7, <1>8

LEMMA AnsweredKinds ==
  ASSUME NEW c, NEW case, NEW part
  PROVE  \/ Answered(c, case, part).kind \in {"question", "configuration_invalid"}
         \/ /\ ~part.defective /\ part.missing = {}
            /\ Answered(c, case, part) = Inconclusive(part.refusal)
<1>1. CASE part.defective
  BY <1>1 DEF Answered, ConfigurationInvalid
<1>2. CASE ~part.defective /\ part.missing # {}
  BY <1>2, QuestionResultKinds DEF Answered
<1>3. CASE ~part.defective /\ part.missing = {}
  BY <1>3 DEF Answered
<1> QED BY <1>1, <1>2, <1>3

LEMMA PlansAreNotInvalid ==
  ASSUME NEW c, NEW case, NEW d, NEW selection, selection = SelectProcedure(c, case)
  PROVE  PlanPrepared(c, selection, case, d).kind # "invalid"
<1>1. ASSUME NEW v PROVE PlanVersion(c, v, case, d).kind # "invalid"
  <2>1. PICK r : r = PlanVersion(c, v, case, d)
    OBVIOUS
  <2>2. r.kind = "plan" \/ \E part : r = Answered(c, case, part)
    BY <2>1, PlansStandOnTheirParts DEF Planned
  <2> QED BY <2>1, <2>2, AnsweredKinds DEF Inconclusive
<1>2. selection.kind = "selected" \/ selection.kind # "invalid"
  BY SelectionsDecide, QuestionResultKinds DEF Inconclusive
<1>3. CASE selection.kind # "selected"
  BY <1>3, SelectionsDecide, QuestionResultKinds DEF PlanPrepared, Inconclusive
<1>4. CASE selection.kind = "selected"
  <2>1. PICK found : found = ResolveProcedureVersion(c, selection.procedure, d)
    OBVIOUS
  <2>2. PlanPrepared(c, selection, case, d) = PlanSelected(c, found, case, d)
    BY <1>4, <2>1 DEF PlanPrepared
  <2>3. found.kind \in {"resolved", "unavailable", "defective"}
    BY <2>1, ResolutionKinds
  <2> QED BY <1>1, <2>2, <2>3 DEF PlanSelected, ConfigurationInvalid, Inconclusive
<1> QED BY <1>3, <1>4

\* The facts were accepted.
Accepted == Unsupported(facts) \cup Unborn(facts, day) = {}

LEMMA AcceptedFactsAreSources ==
  ASSUME Accepted
  PROVE  DOMAIN facts \subseteq SourceKeys
BY DEF Accepted, Unsupported

LEMMA SourcesAreNotDerived ==
  \A key \in SourceKeys : key \notin DerivedKeys
BY DefinitionsAssumption DEF SourceKeys

LEMMA BlameSuffices ==
  ASSUME ResultIsCurrent
  PROVE  BlamedFactsSuffice
<1> SUFFICES ASSUME result.kind = "invalid", Accepted, NEW blamed,
                    blamed = [k \in result.keys |-> facts[k]]
             PROVE  Contradicted(catalogue.contradictions, Prepared(blamed, day)) # {}
  BY DEF BlamedFactsSuffice, Accepted
<1>1. PICK case : case = Prepared(facts, day)
  OBVIOUS
<1>2. PICK selection : selection = SelectProcedure(catalogue, case)
  OBVIOUS
<1> DEFINE refused == Contradicted(catalogue.contradictions, case)
<1>3. Refused(catalogue.contradictions, facts, day) = refused
  BY <1>1 DEF Accepted, Refused
<1>4. /\ \A c \in catalogue.contradictions : ~Malformed(c)
      /\ refused # {} /\ result.keys = refused
  <2>1. \/ result = Inconclusive("inactive_service")
        \/ result = ConfigurationInvalid
        \/ /\ \A c \in catalogue.contradictions : ~Malformed(c)
           /\ refused # {} /\ result = Invalid(refused)
        \/ result = PlanPrepared(catalogue, selection, case, day)
    BY <1>1, <1>2, <1>3 DEF PlanStateless, ResultIsCurrent, Accepted
  <2>2. result.kind = "invalid" => result # PlanPrepared(catalogue, selection, case, day)
    BY <1>2, PlansAreNotInvalid
  <2> QED BY <2>1, <2>2 DEF Inconclusive, ConfigurationInvalid, Invalid
<1>5. PICK d \in catalogue.contradictions :
        case.verdict[d].value = "TRUE" /\ case.verdict[d].decided # {}
  BY <1>4 DEF Contradicted
<1>6. case.verdict[d].decided \subseteq refused
  BY <1>5 DEF Contradicted
<1>7. d \in Rules /\ catalogue.contradictions \subseteq Rules
  BY CataloguesAssumption DEF ResultIsCurrent
<1>8. Referenced(d) \subseteq SourceKeys
  BY <1>4 DEF Malformed
<1>9. refused \subseteq DOMAIN facts
  <2>1. \A c \in catalogue.contradictions : case.verdict[c].decided \subseteq DOMAIN facts
    BY <1>1, <1>7, PreparedCases, EvaluateIsRecursive DEF Evaluations
  <2> QED BY <2>1 DEF Contradicted
<1>10. PICK other : other = Prepared(blamed, day)
  OBVIOUS
<1> HIDE DEF refused
<1>11. DOMAIN blamed = refused /\ \A k \in refused : blamed[k] = facts[k]
  BY <1>4
<1>12. \A k \in refused : /\ k \in DOMAIN case.values /\ k \in DOMAIN other.values
                          /\ other.values[k] = case.values[k]
  BY <1>1, <1>9, <1>10, <1>11, PreparedCases
<1>13. \A k \in SourceKeys \cap DOMAIN case.values : k \in DOMAIN facts
  BY <1>1, PreparedCases, SourcesAreNotDerived
<1>14. /\ case.verdict = Evaluate(case.values, DOMAIN facts)
       /\ other.verdict = Evaluate(other.values, refused)
  BY <1>1, <1>10, <1>11, PreparedCases
<1>15. /\ other.verdict[d].value = "TRUE"
       /\ case.verdict[d].decided \subseteq other.verdict[d].decided
  BY <1>5, <1>6, <1>7, <1>8, <1>9, <1>12, <1>13, <1>14, DecidedFactsDecide
<1>16. other.verdict[d].decided # {} /\ other.verdict[d].decided
         \subseteq Contradicted(catalogue.contradictions, other)
  BY <1>5, <1>15 DEF Contradicted
<1> QED BY <1>10, <1>16

\* A verdict on the facts as they are stands in every completion; one that is unknown
\* says for want of which facts.
VerdictStands(when, case, c) ==
  /\ Verdict(when, case).value \in Verdicts
  /\ Verdict(when, case).value = "TRUE" => Applies(when, c)
  /\ Verdict(when, case).value = "FALSE" => ~Applies(when, c)
  /\ Verdict(when, case).value = "UNKNOWN" => Verdict(when, case).missing # {}

LEMMA VerdictsStand ==
  ASSUME ResultIsCurrent, Accepted, NEW case, case = Prepared(facts, day), NEW c \in Completions
  PROVE  \A when \in Optional : VerdictStands(when, case, c)
<1>1. c \in AllCases /\ \A k \in DOMAIN facts : c[k] = facts[k]
  BY DEF Completions
<1>2. IsFiniteSet(SourceKeys)
  BY DefinitionsAssumption, FS_Subset DEF SourceKeys
<1>3. DOMAIN c = SourceKeys
  BY <1>1, <1>2, ValuationsValueTheirKeys DEF AllCases
<1>4. PICK all : all = Prepared(c, day).values
  OBVIOUS
<1>5. FullCases[c][day] = all
  BY <1>1, <1>4 DEF FullCases, ResultIsCurrent
<1>6. \A k \in DOMAIN case.values : k \in DOMAIN all /\ all[k] = case.values[k]
  BY <1>1, <1>3, <1>4, AcceptedFactsAreSources, PreparedCasesAgree
<1>7. PICK E : E = Evaluate(case.values, DOMAIN facts)
  OBVIOUS
<1>8. case.verdict = E
  BY <1>7, PreparedCases
<1>9. \A rule \in Rules : /\ E[rule].value = "TRUE" => Holds(rule, all, DOMAIN facts)
                          /\ E[rule].value = "FALSE" => ~Holds(rule, all, DOMAIN facts)
  BY <1>6, <1>7, VerdictsAreSound
<1>10. \A rule \in Rules : /\ E[rule].value \in Verdicts
                           /\ E[rule].value = "UNKNOWN" => E[rule].missing # {}
  BY <1>7, EvaluateIsRecursive DEF Evaluations
<1>11. VerdictStands(None, case, c)
  BY DEF VerdictStands, Verdict, Applies, Verdicts
<1>12. ASSUME NEW when \in Rules PROVE VerdictStands(when, case, c)
  <2>1. Verdict(when, case) = E[when]
    BY <1>8, CataloguesAssumption DEF Verdict
  <2>2. Applies(when, c) <=> Holds(when, all, DOMAIN facts)
    BY <1>5, CataloguesAssumption DEF Applies
  <2> QED BY <1>9, <1>10, <2>1, <2>2 DEF VerdictStands
<1> QED BY <1>11, <1>12 DEF Optional

\* What each part may refuse a plan for.
LEMMA RefusalsOfParts ==
  ASSUME NEW c, NEW v, NEW case, NEW d, NEW parts, parts = PartsOf(c, v, case, d)
  PROVE  /\ parts[1].refusal \in {"procedure_version_not_applicable", None}
         /\ parts[2].refusal \in {"no_applicable_eligibility_basis", None}
         /\ parts[3].refusal = None /\ parts[6].refusal = None
         /\ parts[4].refusal \in {"checklist_applicability_unknown", None}
         /\ parts[5].refusal \in {"step_applicability_unknown", None}
<1>1. PICK p1, p2, p3, p4, p5, p6 :
        /\ p1 = Applicable(case.verdict[v.applicability])
        /\ p2 = SelectBases(v, case, d) /\ p3 = SelectDependencies(c, v, case, d)
        /\ p4 = SelectChecklistItems(v, case, d, p2.trusted)
        /\ p5 = SelectSteps(v, case, d, p2.trusted)
        /\ p6 = SelectFees(v, case, d, p2.trusted)
  OBVIOUS
<1>2. parts = <<p1, p2, p3, p4, p5, p6>>
  BY <1>1 DEF PartsOf
<1>3. p1.refusal \in {"procedure_version_not_applicable", None}
  BY <1>1 DEF Applicable
<1>4. p2.refusal \in {"no_applicable_eligibility_basis", None}
  BY <1>1 DEF SelectBases, BasesBy
<1>5. p3.refusal = None
  BY <1>1 DEF SelectDependencies
<1>6. p4.refusal \in {"checklist_applicability_unknown", None}
  BY <1>1 DEF SelectChecklistItems, Section
<1>7. p5.refusal \in {"step_applicability_unknown", None}
  BY <1>1 DEF SelectSteps, Section
<1>8. p6.refusal = None
  BY <1>1 DEF SelectFees
<1> QED BY <1>2, <1>3, <1>4, <1>5, <1>6, <1>7, <1>8

\* A refusal by one of the parts.
Refusing(r, parts) ==
  \E i \in 1..6 : /\ ~parts[i].defective /\ parts[i].missing = {} /\ parts[i].refusal # None
                  /\ r = Inconclusive(parts[i].refusal)

\* The version v is the only one published of the candidate's procedure on that day.
InForce(v, x) ==
  /\ v \in catalogue.versions /\ v.procedure = x.procedure
  /\ v.state = "published" /\ Within(v, day)

LEMMA ResultsRestOn ==
  ASSUME ResultIsCurrent, NEW case, case = Prepared(facts, day),
         result.kind \in {"plan", "inconclusive"}
  PROVE  \/ result = Inconclusive("inactive_service")
         \/ /\ Accepted
            /\ \/ /\ Cardinality(Matching(catalogue, case)) > 1
                  /\ result = Inconclusive("multiple_matching_procedures")
               \/ /\ Matching(catalogue, case) = {} /\ Undecided(catalogue, case) = {}
                  /\ result = Inconclusive("no_matching_researched_procedure")
               \/ \E x \in catalogue.candidates :
                    /\ Matching(catalogue, case) = {x} /\ Undecided(catalogue, case) = {}
                    /\ \/ \E reason \in VersionReasons \cup {"unknown_procedure"} :
                            result = Inconclusive(reason)
                       \/ \E v \in catalogue.versions :
                            /\ InForce(v, x)
                            /\ LET parts == PartsOf(catalogue, v, case, day) IN
                               Planned(result, v, parts) \/ Refusing(result, parts)
<1>1. PICK selection : selection = SelectProcedure(catalogue, case)
  OBVIOUS
<1>2. \/ result = Inconclusive("inactive_service")
      \/ Accepted /\ result = PlanPrepared(catalogue, selection, case, day)
  <2>1. result # ConfigurationInvalid /\ \A keys : result # Invalid(keys)
    BY DEF ConfigurationInvalid, Invalid
  <2> QED BY <1>1, <2>1 DEF PlanStateless, ResultIsCurrent, Accepted
<1> SUFFICES ASSUME Accepted, result = PlanPrepared(catalogue, selection, case, day)
             PROVE  \/ /\ Cardinality(Matching(catalogue, case)) > 1
                       /\ result = Inconclusive("multiple_matching_procedures")
                    \/ /\ Matching(catalogue, case) = {} /\ Undecided(catalogue, case) = {}
                       /\ result = Inconclusive("no_matching_researched_procedure")
                    \/ \E x \in catalogue.candidates :
                         /\ Matching(catalogue, case) = {x} /\ Undecided(catalogue, case) = {}
                         /\ \/ \E reason \in VersionReasons \cup {"unknown_procedure"} :
                                 result = Inconclusive(reason)
                            \/ \E v \in catalogue.versions :
                                 /\ InForce(v, x)
                                 /\ LET parts == PartsOf(catalogue, v, case, day) IN
                                    Planned(result, v, parts) \/ Refusing(result, parts)
  BY <1>2
<1>3. CASE selection.kind # "selected"
  <2>1. result = selection
    BY <1>3 DEF PlanPrepared
  <2>2. ~\E q : selection = QuestionResult(q)
    BY <2>1, QuestionResultKinds
  <2>3. ~\E x : selection = [kind |-> "selected", procedure |-> x.procedure]
    BY <1>3
  <2> QED BY <1>1, <2>1, <2>2, <2>3, SelectionsDecide
<1>4. CASE selection.kind = "selected"
  <2>1. \A reason : selection # Inconclusive(reason)
    BY <1>4 DEF Inconclusive
  <2>2. ~\E q : selection = QuestionResult(q)
    BY <1>4, QuestionResultKinds
  <2>3. PICK x \in Matching(catalogue, case) : selection = [kind |-> "selected", procedure |-> x.procedure]
    BY <1>1, <2>1, <2>2, SelectionsDecide
  <2>4. Undecided(catalogue, case) = {} /\ ~(Cardinality(Matching(catalogue, case)) > 1)
    BY <1>1, <2>1, <2>2, SelectionsDecide
  <2>5. x \in catalogue.candidates /\ Matching(catalogue, case) = {x}
    <3>1. IsFiniteSet(Matching(catalogue, case)) /\ x \in catalogue.candidates
      BY CataloguesAssumption, FS_Subset DEF Matching, ResultIsCurrent
    <3>2. Cardinality(Matching(catalogue, case)) \in Nat
      BY <3>1, FS_CardinalityType
    <3>3. Cardinality(Matching(catalogue, case)) # 0
      BY <2>3, <3>1, FS_EmptySet
    <3>4. Cardinality(Matching(catalogue, case)) = 1
      BY <2>4, <3>2, <3>3
    <3>5. PICK y : Matching(catalogue, case) = {y}
      BY <3>1, <3>4, FS_Singleton
    <3> QED BY <2>3, <3>1, <3>5
  <2>6. PICK found : found = ResolveProcedureVersion(catalogue, x.procedure, day)
    OBVIOUS
  <2>7. result = PlanSelected(catalogue, found, case, day)
    BY <1>4, <2>3, <2>6 DEF PlanPrepared
  <2>8. CASE found.kind = "defective"
    BY <2>7, <2>8 DEF PlanSelected, ConfigurationInvalid
  <2>9. CASE found.kind = "unavailable"
    <3>1. found.reason \in VersionReasons \cup {"unknown_procedure"}
      BY <2>6, <2>9 DEF ResolveProcedureVersion, Unavailable, Resolved, Defective, VersionReasons
    <3>2. result = Inconclusive(found.reason)
      BY <2>7, <2>9 DEF PlanSelected
    <3> QED BY <2>4, <2>5, <3>1, <3>2
  <2>10. CASE found.kind = "resolved"
    <3>1. PICK v : v = found.version
      OBVIOUS
    <3>2. {w \in PublishedOf(catalogue, x.procedure) : Containing(w, day)} = {v}
      BY <2>6, <2>10, <3>1, ResolutionIsExact DEF ResultIsCurrent
    <3>3. v \in catalogue.versions /\ InForce(v, x)
      BY <3>2 DEF PublishedOf, VersionsOf, Containing, Within, InForce
    <3>4. result = PlanVersion(catalogue, v, case, day)
      BY <2>7, <2>10, <3>1 DEF PlanSelected
    <3>5. PICK parts : parts = PartsOf(catalogue, v, case, day)
      OBVIOUS
    <3>6. Planned(result, v, parts) \/ \E i \in 1..6 : /\ Obstructs(parts[i])
                                                       /\ result = Answered(catalogue, case, parts[i])
      BY <3>4, <3>5, PlansStandOnTheirParts
    <3>7. ASSUME NEW i \in 1..6, Obstructs(parts[i]), result = Answered(catalogue, case, parts[i])
          PROVE  Refusing(result, parts)
      <4>1. ~parts[i].defective /\ parts[i].missing = {} /\ result = Inconclusive(parts[i].refusal)
        BY <3>7, AnsweredKinds
      <4> QED BY <3>7, <4>1 DEF Refusing, Obstructs
    <3> QED BY <2>4, <2>5, <3>3, <3>5, <3>6, <3>7
  <2> QED BY <2>6, <2>8, <2>9, <2>10, ResolutionKinds
<1> QED BY <1>3, <1>4

-----------------------------------------------------------------------------
(* What the parts of a plan say of a completion.                              *)

LEMMA AssertedIsFresh ==
  ASSUME NEW b, NEW d, Assessed(b, d) = "assert_current"
  PROVE  FreshnessState(b.trust, b.from, b.to, d) \notin NotWorthAsking
BY DEF Assessed, AssessTrust, FreshnessState, NotWorthAsking

\* The standing of a basis tells whether it unlocks guidance.
LEMMA StandingsAreExact ==
  ASSUME NEW b, NEW case, NEW c,
         VerdictStands(b.reachable, case, c), VerdictStands(b.when, case, c),
         NEW standing, standing = Standing(b, case, day)
  PROVE  /\ standing = "out" => ~(Applies(b.reachable, c) /\ Applies(b.when, c))
         /\ standing = "trusted" => /\ Applies(b.reachable, c) /\ Applies(b.when, c)
                                    /\ Assessed(b, day) = "assert_current" /\ Backed(b, FALSE)
         /\ standing \in {"idle", "inconclusive"} => Assessed(b, day) # "assert_current"
         /\ standing = "asked" => Qualification(b, case).missing # {}
         /\ standing \in {"out", "trusted", "idle", "inconclusive", "asked", "bare"}
<1>1. PICK q : q = Qualification(b, case)
  OBVIOUS
<1>2. /\ q.value \in Verdicts
      /\ q.value = "UNKNOWN" => q.missing # {}
      /\ q.value = "TRUE" => Applies(b.reachable, c) /\ Applies(b.when, c)
      /\ q.value = "FALSE" => ~(Applies(b.reachable, c) /\ Applies(b.when, c))
  BY <1>1 DEF Qualification, VerdictStands
<1>3. CASE q.value = "FALSE"
  <2>1. standing = "out"
    BY <1>1, <1>3 DEF Standing
  <2> QED BY <1>2, <1>3, <2>1
<1>4. CASE q.value = "UNKNOWN"
  <2>1. standing = IF FreshnessState(b.trust, b.from, b.to, day) \in NotWorthAsking
                   THEN "idle" ELSE "asked"
    BY <1>1, <1>4 DEF Standing
  <2> QED BY <1>1, <1>2, <1>4, <2>1, AssertedIsFresh
<1>5. CASE q.value = "TRUE"
  <2>1. standing = IF Assessed(b, day) # "assert_current" THEN "inconclusive"
                   ELSE IF SupportingSources(b.links, day, FALSE) = {} THEN "bare" ELSE "trusted"
    BY <1>1, <1>5 DEF Standing
  <2> QED BY <1>2, <1>5, <2>1 DEF Backed
<1> QED BY <1>2, <1>3, <1>4, <1>5 DEF Verdicts

\* The bases of a version once none of them obstructs.
LEMMA BasesStand ==
  ASSUME NEW v, NEW case, NEW c,
         \A b \in v.bases : VerdictStands(b.reachable, case, c) /\ VerdictStands(b.when, case, c),
         NEW bases, bases = SelectBases(v, case, day), ~bases.defective, bases.missing = {}
  PROVE  /\ bases.trusted = TrueBases(v, c)
         /\ bases.refusal # None =>
              \A b \in v.bases : ~(Within(b, day) /\ Applies(b.reachable, c) /\ Applies(b.when, c))
<1> DEFINE live == {x \in v.bases : Within(x, day)}
<1>1. PICK standing : standing = [b \in live |-> Standing(b, case, day)]
  OBVIOUS
<1> DEFINE In(standings) == {b \in DOMAIN standing : standing[b] \in standings}
<1>2. bases = BasesBy(v, standing, case)
  BY <1>1 DEF SelectBases
<1>3. /\ bases.trusted = {b.id : b \in In({"trusted"})}
      /\ bases.missing = UNION {Qualification(b, case).missing : b \in In({"asked"})}
      /\ bases.refusal = IF v.bases # {} /\ In({"trusted", "inconclusive", "idle"}) = {}
                         THEN "no_applicable_eligibility_basis" ELSE None
      /\ bases.defective = (In({"bare"}) # {})
  BY <1>2 DEF BasesBy
<1>4. DOMAIN standing = live /\ \A b \in live : standing[b] = Standing(b, case, day)
  BY <1>1
<1>5. \A b \in live : /\ standing[b] # "bare" /\ standing[b] # "asked"
                      /\ standing[b] \in {"out", "trusted", "idle", "inconclusive"}
  <2> SUFFICES ASSUME NEW b \in live
               PROVE  /\ standing[b] # "bare" /\ standing[b] # "asked"
                      /\ standing[b] \in {"out", "trusted", "idle", "inconclusive"}
    OBVIOUS
  <2>1. standing[b] # "bare"
    BY <1>3, <1>4
  <2>2. standing[b] = "asked" => Qualification(b, case).missing = {}
    BY <1>3, <1>4
  <2>3. /\ standing[b] = "asked" => Qualification(b, case).missing # {}
        /\ standing[b] \in {"out", "trusted", "idle", "inconclusive", "asked", "bare"}
    BY <1>4, StandingsAreExact
  <2> QED BY <2>1, <2>2, <2>3
<1>6. ASSUME NEW b \in live
      PROVE  standing[b] = "trusted" <=> /\ Applies(b.reachable, c) /\ Applies(b.when, c)
                                         /\ Assessed(b, day) = "assert_current" /\ Backed(b, FALSE)
  <2>1. /\ standing[b] = "out" => ~(Applies(b.reachable, c) /\ Applies(b.when, c))
        /\ standing[b] = "trusted" => /\ Applies(b.reachable, c) /\ Applies(b.when, c)
                                      /\ Assessed(b, day) = "assert_current" /\ Backed(b, FALSE)
        /\ standing[b] \in {"idle", "inconclusive"} => Assessed(b, day) # "assert_current"
    BY <1>4, StandingsAreExact
  <2> QED BY <1>5, <2>1
<1>7. In({"trusted"}) = {x \in v.bases :
        /\ Within(x, day) /\ Applies(x.reachable, c) /\ Applies(x.when, c)
        /\ Assessed(x, day) = "assert_current" /\ Backed(x, FALSE)}
  BY <1>4, <1>6
<1>8. ASSUME In({"trusted", "inconclusive", "idle"}) = {}, NEW b \in live
      PROVE  ~(Applies(b.reachable, c) /\ Applies(b.when, c))
  <2>1. standing[b] = "out"
    BY <1>4, <1>5, <1>8
  <2> QED BY <1>4, <2>1, StandingsAreExact
<1> QED BY <1>3, <1>7, <1>8 DEF TrueBases

\* Guidance shows what applies in every completion, and what applies in one of them is
\* shown, or marked as held back, or asked for.
Exact(g, items, live, backed, distrusted, c) ==
  /\ \A i \in items : i.id \in g.items => i \in live /\ Applies(i.when, c)
  /\ \A i \in live : g.missing = {} /\ Applies(i.when, c) =>
       /\ i \in backed => i.id \in g.items
       /\ i \in distrusted => g.distrusted

LEMMA GuidanceStands ==
  ASSUME NEW items, SectionHolds(items), NEW live \in SUBSET items, NEW backed, NEW distrusted,
         NEW case, NEW c, \A i \in items : VerdictStands(i.when, case, c),
         NEW g, g = Guidance(live, backed, distrusted, case)
  PROVE  Exact(g, items, live, backed, distrusted, c)
<1> DEFINE certain == {i \in live : Verdict(i.when, case).value = "TRUE"}
           unsure  == {i \in live : Verdict(i.when, case).value = "UNKNOWN"}
<1>1. /\ g.items = {i.id : i \in certain \cap backed}
      /\ g.missing = UNION {Verdict(i.when, case).missing : i \in unsure \cap backed}
      /\ g.distrusted = ((certain \cup unsure) \cap distrusted # {})
  BY DEF Guidance
<1>2. ASSUME NEW i \in items, i.id \in g.items PROVE i \in live /\ Applies(i.when, c)
  <2>1. PICK j \in certain \cap backed : j.id = i.id
    BY <1>1, <1>2
  <2>2. j = i
    BY <2>1 DEF SectionHolds
  <2> QED BY <2>1, <2>2 DEF VerdictStands
<1>3. ASSUME NEW i \in live, g.missing = {}, Applies(i.when, c)
      PROVE  /\ i \in backed => i.id \in g.items
             /\ i \in distrusted => g.distrusted
  <2>1. i \in certain \/ i \in unsure
    BY <1>3 DEF VerdictStands, Verdicts
  <2>2. i \in backed => i \notin unsure
    <3> SUFFICES ASSUME i \in backed, i \in unsure PROVE FALSE
      OBVIOUS
    <3>1. Verdict(i.when, case).missing # {}
      BY DEF VerdictStands
    <3> QED BY <1>1, <1>3, <3>1
  <2> HIDE DEF certain, unsure
  <2>3. i \in distrusted => (certain \cup unsure) \cap distrusted # {}
    BY <2>1
  <2> QED BY <1>1, <2>1, <2>2, <2>3
<1> QED BY <1>2, <1>3 DEF Exact

LEMMA ChecklistStands ==
  ASSUME NEW v, SectionHolds(v.checklist), NEW case, NEW c, NEW bases,
         \A i \in v.checklist : VerdictStands(i.when, case, c), bases = TrueBases(v, c),
         NEW list, list = SelectChecklistItems(v, case, day, bases)
  PROVE  /\ \A i \in v.checklist : i.id \in list.items => i \in Concerning(v.checklist, v, c)
         /\ \A i \in Concerning({x \in v.checklist : x.official}, v, c) :
              list.missing = {} =>
                \/ i.id \in list.items \/ list.distrusted
                \/ Disposition(i.trust, day) = "context_only"
<1>1. PICK live : live = {i \in v.checklist :
                            /\ InScope(i, bases) /\ Within(i, day)
                            /\ i.official \/ Verdict(i.when, case).value = "TRUE"}
  OBVIOUS
<1>2. PICK backed : backed = {i \in live : /\ Disposition(i.trust, day) = "assert_current"
                                           /\ SupportingSources(i.links, day, i.official) # {}}
  OBVIOUS
<1>3. PICK distrusted : distrusted = {i \in live \ backed :
                            i.official /\ Disposition(i.trust, day) # "context_only"}
  OBVIOUS
<1>4. PICK g : g = Guidance(live, backed, distrusted, case)
  OBVIOUS
<1>5. list.items = g.items /\ list.missing = g.missing /\ list.distrusted = g.distrusted
  BY <1>1, <1>2, <1>3, <1>4 DEF SelectChecklistItems, Section
<1>6. Exact(g, v.checklist, live, backed, distrusted, c)
  <2>1. live \in SUBSET v.checklist
    BY <1>1
  <2> QED BY <1>4, <2>1, GuidanceStands
<1>7. \A i \in v.checklist : i.id \in list.items => i \in Concerning(v.checklist, v, c)
  BY <1>1, <1>5, <1>6 DEF Concerning, Exact, Exact
<1>8. ASSUME NEW i \in Concerning({x \in v.checklist : x.official}, v, c), list.missing = {}
      PROVE  \/ i.id \in list.items \/ list.distrusted
             \/ Disposition(i.trust, day) = "context_only"
  <2>1. i \in v.checklist /\ i.official /\ Within(i, day) /\ InScope(i, bases) /\ Applies(i.when, c)
    BY DEF Concerning
  <2>2. i \in live
    BY <1>1, <2>1
  <2>3. i \in backed \/ i \in distrusted \/ Disposition(i.trust, day) = "context_only"
    BY <1>3, <2>1, <2>2
  <2> QED BY <1>5, <1>6, <1>8, <2>1, <2>2, <2>3 DEF Exact
<1> QED BY <1>7, <1>8

LEMMA StepListsStand ==
  ASSUME NEW v, SectionHolds(v.steps), NEW case, NEW c, NEW bases,
         \A i \in v.steps : VerdictStands(i.when, case, c), bases = TrueBases(v, c),
         NEW list, list = SelectSteps(v, case, day, bases)
  PROVE  /\ \A i \in v.steps : i.id \in list.items => i \in Concerning(v.steps, v, c)
         /\ \A i \in Concerning(v.steps, v, c) :
              list.missing = {} => i.id \in list.items \/ list.distrusted
<1>1. PICK live : live = {i \in v.steps : InScope(i, bases) /\ Within(i, day)}
  OBVIOUS
<1>2. PICK backed : backed = {i \in live : /\ Disposition(i.trust, day) = "assert_current"
                                           /\ SupportingSources(i.links, day, FALSE) # {}}
  OBVIOUS
<1>3. PICK g : g = Guidance(live, backed, live \ backed, case)
  OBVIOUS
<1>4. list.items = g.items /\ list.missing = g.missing /\ list.distrusted = g.distrusted
  BY <1>1, <1>2, <1>3 DEF SelectSteps, Section
<1>5. Exact(g, v.steps, live, backed, live \ backed, c)
  <2>1. live \in SUBSET v.steps
    BY <1>1
  <2> QED BY <1>3, <2>1, GuidanceStands
<1>6. \A i \in v.steps : i.id \in list.items => i \in Concerning(v.steps, v, c)
  BY <1>1, <1>4, <1>5 DEF Concerning, Exact, Exact
<1>7. ASSUME NEW i \in Concerning(v.steps, v, c), list.missing = {}
      PROVE  i.id \in list.items \/ list.distrusted
  <2>1. i \in v.steps /\ Within(i, day) /\ InScope(i, bases) /\ Applies(i.when, c)
    BY DEF Concerning
  <2>2. i \in live
    BY <1>1, <2>1
  <2> QED BY <1>4, <1>5, <1>7, <2>1, <2>2 DEF Exact
<1> QED BY <1>6, <1>7

\* An amount is stated only for a current and supported fee.
LEMMA KnownAmounts ==
  ASSUME NEW f, FeeState(f, day) = "known"
  PROVE  Assessed(f, day) = "assert_current" /\ Backed(f, FALSE)
BY DEF FeeState, Backed

\* Of the fees with a known amount, and of the current ones.
FeesExact(items, v, c) ==
  /\ \A f \in v.fees : [id |-> f.id, state |-> "known"] \in items
       => f \in Concerning(v.fees, v, c) /\ Backed(f, FALSE)
  /\ \A f \in Concerning(v.fees, v, c) :
       Assessed(f, day) = "assert_current" => \E shown \in items : shown.id = f.id

LEMMA FeesStand ==
  ASSUME NEW v, SectionHolds(v.fees), NEW case, NEW c, NEW bases,
         \A i \in v.fees : VerdictStands(i.when, case, c), bases = TrueBases(v, c),
         NEW fees, fees = SelectFees(v, case, day, bases), fees.missing = {}
  PROVE  FeesExact(fees.items, v, c)
<1> DEFINE live == {f \in v.fees : /\ Within(f, day) /\ InScope(f, bases)
                                   /\ Assessed(f, day) # "context_only"}
           unsure == {f \in live : /\ Verdict(f.when, case).value = "UNKNOWN"
                                   /\ Assessed(f, day) = "assert_current"}
           certain == {g \in live : Verdict(g.when, case).value = "TRUE"}
<1>1. /\ fees.items = {[id |-> f.id, state |-> FeeState(f, day)] : f \in certain}
      /\ fees.missing = UNION {Verdict(f.when, case).missing : f \in unsure}
  BY DEF SelectFees
<1>2. ASSUME NEW f \in v.fees, [id |-> f.id, state |-> "known"] \in fees.items
      PROVE  f \in Concerning(v.fees, v, c) /\ Backed(f, FALSE)
  <2>1. PICK g \in certain : [id |-> f.id, state |-> "known"] = [id |-> g.id, state |-> FeeState(g, day)]
    <3> HIDE DEF certain
    <3> QED BY <1>1, <1>2
  <2>2. g.id = f.id /\ FeeState(g, day) = "known"
    BY <2>1
  <2>3. g = f
    BY <2>2 DEF SectionHolds
  <2> QED BY <2>2, <2>3, KnownAmounts DEF Concerning, VerdictStands
<1>3. ASSUME NEW f \in Concerning(v.fees, v, c), Assessed(f, day) = "assert_current"
      PROVE  \E shown \in fees.items : shown.id = f.id
  <2>1. f \in v.fees /\ Within(f, day) /\ InScope(f, bases) /\ Applies(f.when, c)
    BY DEF Concerning
  <2>2. f \in live
    BY <1>3, <2>1
  <2>3. f \notin unsure
    <3> SUFFICES ASSUME f \in unsure PROVE FALSE
      OBVIOUS
    <3>1. Verdict(f.when, case).missing # {}
      BY <2>1 DEF VerdictStands
    <3> QED BY <1>1, <1>3, <3>1
  <2>4. f \in certain
    BY <1>3, <2>1, <2>2, <2>3 DEF VerdictStands, Verdicts
  <2>5. [id |-> f.id, state |-> FeeState(f, day)] \in fees.items
    <3> HIDE DEF certain
    <3> QED BY <1>1, <2>4
  <2> QED BY <2>5
<1> QED BY <1>2, <1>3 DEF FeesExact

\* Of the dependencies, with what is said of those that are assessed.
DependenciesExact(items, v, c) ==
  /\ \A d \in v.dependencies : \A status \in {"satisfied", "blocking"} :
       [id |-> d.id, status |-> status] \in items
         => Applies(d.when, c) /\ (status = "satisfied") = Applies(d.satisfied, c)
  /\ \A d \in v.dependencies :
       Within(d, day) /\ Applies(d.when, c) => \E shown \in items : shown.id = d.id

LEMMA DependenciesStand ==
  ASSUME NEW v, SectionHolds(v.dependencies), NEW case, NEW c,
         \A d \in v.dependencies :
           VerdictStands(d.when, case, c) /\ VerdictStands(d.satisfied, case, c),
         NEW part, part = SelectDependencies(catalogue, v, case, day),
         ~part.defective, part.missing = {}
  PROVE  DependenciesExact(part.items, v, c)
<1> DEFINE live    == {d \in v.dependencies :
                         Within(d, day) /\ Verdict(d.when, case).value # "FALSE"}
           current == {d \in live : Assessed(d, day) = "assert_current"}
           unsure  == {d \in current : Awaited(d, case) # {}}
           bare    == {d \in current \ unsure : SupportingSources(d.links, day, FALSE) = {}}
           Status(d) == DependencyStatus(catalogue, d, case, day)
<1>1. /\ part.items = {[id |-> d.id, status |-> Status(d)] : d \in live \ (unsure \cup bare)}
      /\ part.missing = UNION {Awaited(d, case) : d \in unsure}
      /\ part.defective = (bare # {})
  BY DEF SelectDependencies
<1>2. unsure = {} /\ bare = {}
  <2>1. unsure = {}
    <3>1. \A d \in unsure : Awaited(d, case) # {}
      OBVIOUS
    <3> HIDE DEF unsure
    <3> QED BY <1>1, <3>1
  <2>2. bare = {}
    <3> HIDE DEF bare
    <3> QED BY <1>1
  <2> QED BY <2>1, <2>2
<1>3. part.items = {[id |-> d.id, status |-> Status(d)] : d \in live}
  <2>1. live \ (unsure \cup bare) = live
    <3> HIDE DEF unsure, bare
    <3> QED BY <1>2
  <2> HIDE DEF live, unsure, bare, Status
  <2> QED BY <1>1, <2>1
<1>4. ASSUME NEW d \in v.dependencies, NEW status \in {"satisfied", "blocking"},
             [id |-> d.id, status |-> status] \in part.items
      PROVE  Applies(d.when, c) /\ (status = "satisfied") = Applies(d.satisfied, c)
  <2>1. PICK e \in live : [id |-> d.id, status |-> status] = [id |-> e.id, status |-> Status(e)]
    <3> HIDE DEF live, Status
    <3> QED BY <1>3, <1>4
  <2>2. e.id = d.id /\ Status(e) = status
    <3> HIDE DEF Status
    <3> QED BY <2>1
  <2>3. d \in live /\ Status(d) = status
    <3>1. e = d
      BY <2>2 DEF SectionHolds
    <3> HIDE DEF Status, live
    <3> QED BY <2>2, <3>1
  <2>4. Assessed(d, day) = "assert_current"
    BY <2>3 DEF DependencyStatus
  <2>5. Awaited(d, case) = {}
    <3>1. d \notin unsure
      <4> HIDE DEF unsure
      <4> QED BY <1>2
    <3> QED BY <2>3, <2>4, <3>1
  <2>6. Verdict(d.when, case).value = "TRUE"
    BY <2>3, <2>5 DEF Awaited, VerdictStands, Verdicts
  <2>7. Verdict(d.satisfied, case).value # "UNKNOWN"
    BY <2>5, <2>6 DEF Awaited, VerdictStands
  <2>8. status = "satisfied" <=> Verdict(d.satisfied, case).value = "TRUE"
    BY <2>3, <2>4 DEF DependencyStatus
  <2>9. status = "satisfied" <=> Applies(d.satisfied, c)
    BY <2>7, <2>8 DEF VerdictStands, Verdicts
  <2>10. Applies(d.when, c)
    BY <2>6 DEF VerdictStands
  <2>11. (status = "satisfied") = Applies(d.satisfied, c)
    BY <2>9 DEF Applies
  <2> QED BY <2>10, <2>11
<1>5. ASSUME NEW d \in v.dependencies, Within(d, day), Applies(d.when, c)
      PROVE  \E shown \in part.items : shown.id = d.id
  <2>1. d \in live
    BY <1>5 DEF VerdictStands
  <2>2. [id |-> d.id, status |-> Status(d)] \in part.items
    <3> HIDE DEF live, Status
    <3> QED BY <1>3, <2>1
  <2> HIDE DEF Status
  <2> QED BY <2>2
<1> QED BY <1>4, <1>5 DEF DependenciesExact

-----------------------------------------------------------------------------
(* What is shown stands in every completion.                                  *)

\* The verdicts on everything a version holds stand in a completion.
LEMMA VersionsStand ==
  ASSUME ResultIsCurrent, Accepted, NEW case, case = Prepared(facts, day),
         NEW c \in Completions, NEW v \in catalogue.versions
  PROVE  /\ VersionHolds(v) /\ VerdictStands(v.applicability, case, c)
         /\ v.applicability \in Rules
         /\ \A b \in v.bases : VerdictStands(b.reachable, case, c) /\ VerdictStands(b.when, case, c)
         /\ \A i \in v.checklist : VerdictStands(i.when, case, c)
         /\ \A i \in v.steps : VerdictStands(i.when, case, c)
         /\ \A i \in v.fees : VerdictStands(i.when, case, c)
         /\ \A d \in v.dependencies :
              VerdictStands(d.when, case, c) /\ VerdictStands(d.satisfied, case, c)
<1>1. VersionHolds(v)
  BY CataloguesAssumption DEF ResultIsCurrent
<1>2. \A when \in Optional : VerdictStands(when, case, c)
  BY VerdictsStand
<1>3. v.applicability \in Optional
  BY <1>1 DEF VersionHolds, Optional
<1> QED BY <1>1, <1>2, <1>3 DEF VersionHolds, SectionHolds

\* With one candidate matching and none undecided, it is the one that fits.
LEMMA OneFits ==
  ASSUME ResultIsCurrent, Accepted, NEW case, case = Prepared(facts, day),
         NEW c \in Completions, Undecided(catalogue, case) = {}
  PROVE  {x \in catalogue.candidates : Applies(x.when, c)} = Matching(catalogue, case)
<1> SUFFICES ASSUME NEW x \in catalogue.candidates
             PROVE  Applies(x.when, c) <=> case.verdict[x.when].value = "TRUE"
  BY DEF Matching
<1>1. x.when \in Rules
  BY CataloguesAssumption DEF ResultIsCurrent
<1>2. VerdictStands(x.when, case, c)
  BY <1>1, VerdictsStand DEF Optional
<1>3. Verdict(x.when, case) = case.verdict[x.when]
  BY <1>1, CataloguesAssumption DEF Verdict
<1>4. case.verdict[x.when].value # "UNKNOWN"
  BY DEF Undecided
<1> QED BY <1>2, <1>3, <1>4 DEF VerdictStands, Verdicts

\* Applicability, once it does not obstruct.
LEMMA ApplicabilityStands ==
  ASSUME ResultIsCurrent, Accepted, NEW case, case = Prepared(facts, day),
         NEW c \in Completions, NEW v \in catalogue.versions,
         NEW part, part = Applicable(case.verdict[v.applicability])
  PROVE  /\ ~Obstructs(part) => Applies(v.applicability, c)
         /\ part.refusal # None => ~Applies(v.applicability, c)
<1>1. VerdictStands(v.applicability, case, c) /\ v.applicability \in Rules
  BY VersionsStand
<1>2. Verdict(v.applicability, case) = case.verdict[v.applicability]
  BY <1>1, CataloguesAssumption DEF Verdict
<1> QED
  BY <1>1, <1>2, CataloguesAssumption DEF Applicable, Obstructs, VerdictStands, Verdicts

LEMMA PlansRestOn ==
  ASSUME ResultIsCurrent, NEW case, case = Prepared(facts, day), result.kind = "plan"
  PROVE  /\ Accepted /\ Undecided(catalogue, case) = {}
         /\ result.version \in catalogue.versions
         /\ \E x \in catalogue.candidates :
              Matching(catalogue, case) = {x} /\ result.version.procedure = x.procedure
         /\ Planned(result, result.version, PartsOf(catalogue, result.version, case, day))
<1>1. \A reason : result # Inconclusive(reason)
  BY DEF Inconclusive
<1>2. /\ Accepted
      /\ \E x \in catalogue.candidates :
           /\ Matching(catalogue, case) = {x} /\ Undecided(catalogue, case) = {}
           /\ \E v \in catalogue.versions :
                InForce(v, x) /\ Planned(result, v, PartsOf(catalogue, v, case, day))
  BY <1>1, ResultsRestOn DEF Refusing
<1> QED BY <1>2 DEF Planned, InForce

\* The parts of a plan, one by one.
MadeOf(v, case, a, b, d, l, s, f) ==
  /\ a = Applicable(case.verdict[v.applicability]) /\ ~Obstructs(a)
  /\ b = SelectBases(v, case, day) /\ ~b.defective /\ b.missing = {} /\ result.bases = b
  /\ d = SelectDependencies(catalogue, v, case, day) /\ ~d.defective /\ d.missing = {}
  /\ result.dependencies = d.items
  /\ l = SelectChecklistItems(v, case, day, b.trusted) /\ l.missing = {}
  /\ result.checklist = l.items /\ (l.distrusted => "checklist_items" \in result.held)
  /\ s = SelectSteps(v, case, day, b.trusted) /\ s.missing = {}
  /\ result.steps = s.items /\ (s.distrusted => "steps" \in result.held)
  /\ f = SelectFees(v, case, day, b.trusted) /\ f.missing = {}
  /\ result.fees = f.items

LEMMA PartsOfPlans ==
  ASSUME NEW v, NEW case, Planned(result, v, PartsOf(catalogue, v, case, day))
  PROVE  \E a, b, d, l, s, f : MadeOf(v, case, a, b, d, l, s, f)
<1>1. PICK a, b, d, l, s, f :
        /\ a = Applicable(case.verdict[v.applicability])
        /\ b = SelectBases(v, case, day) /\ d = SelectDependencies(catalogue, v, case, day)
        /\ l = SelectChecklistItems(v, case, day, b.trusted)
        /\ s = SelectSteps(v, case, day, b.trusted)
        /\ f = SelectFees(v, case, day, b.trusted)
  OBVIOUS
<1>2. PICK parts : parts = <<a, b, d, l, s, f>>
  OBVIOUS
<1>3. /\ parts[1] = a /\ parts[2] = b /\ parts[3] = d /\ parts[4] = l /\ parts[5] = s
      /\ parts[6] = f
  BY <1>2
<1>4. Planned(result, v, parts)
  BY <1>1, <1>2 DEF PartsOf
<1>5. \A i \in 1..6 : ~Obstructs(parts[i])
  BY <1>4 DEF Planned
<1>6. \A part \in {a, b, d, l, s, f} : ~Obstructs(part)
  BY <1>3, <1>5
<1>7. /\ ~Obstructs(a) /\ ~b.defective /\ b.missing = {} /\ ~d.defective /\ d.missing = {}
      /\ l.missing = {} /\ s.missing = {} /\ f.missing = {}
  BY <1>6 DEF Obstructs
<1>8. /\ result.bases = b /\ result.dependencies = d.items /\ result.checklist = l.items
      /\ result.steps = s.items /\ result.fees = f.items
      /\ l.distrusted => "checklist_items" \in result.held
      /\ s.distrusted => "steps" \in result.held
  BY <1>3, <1>4 DEF Planned
<1>9. MadeOf(v, case, a, b, d, l, s, f)
  BY <1>1, <1>7, <1>8 DEF MadeOf
<1> QED BY <1>9

LEMMA CurrentGuidanceStands ==
  ASSUME ResultIsCurrent
  PROVE  ShownGuidanceStands /\ NothingSilentlyDropped
<1> SUFFICES ASSUME result.kind = "plan", NEW c \in Completions, NEW v, v = result.version
             PROVE  /\ {x.procedure : x \in {y \in catalogue.candidates : Applies(y.when, c)}}
                         = {v.procedure}
                    /\ Applies(v.applicability, c)
                    /\ result.bases.trusted = TrueBases(v, c)
                    /\ \A i \in v.checklist :
                         i.id \in result.checklist => i \in Concerning(v.checklist, v, c)
                    /\ \A i \in v.steps : i.id \in result.steps => i \in Concerning(v.steps, v, c)
                    /\ \A f \in v.fees : [id |-> f.id, state |-> "known"] \in result.fees
                         => f \in Concerning(v.fees, v, c) /\ Backed(f, FALSE)
                    /\ \A d \in v.dependencies : \A status \in {"satisfied", "blocking"} :
                         [id |-> d.id, status |-> status] \in result.dependencies
                           => Applies(d.when, c) /\ (status = "satisfied") = Applies(d.satisfied, c)
                    /\ \A i \in Concerning({x \in v.checklist : x.official}, v, c) :
                         \/ i.id \in result.checklist \/ "checklist_items" \in result.held
                         \/ Disposition(i.trust, day) = "context_only"
                    /\ \A i \in Concerning(v.steps, v, c) :
                         i.id \in result.steps \/ "steps" \in result.held
                    /\ \A d \in v.dependencies : Within(d, day) /\ Applies(d.when, c)
                         => \E shown \in result.dependencies : shown.id = d.id
                    /\ \A f \in Concerning(v.fees, v, c) :
                         Assessed(f, day) = "assert_current"
                           => \E shown \in result.fees : shown.id = f.id
  BY DEF ShownGuidanceStands, NothingSilentlyDropped
<1>1. PICK case : case = Prepared(facts, day)
  OBVIOUS
<1>2. /\ Accepted /\ Undecided(catalogue, case) = {} /\ v \in catalogue.versions
      /\ \E x \in catalogue.candidates :
           Matching(catalogue, case) = {x} /\ v.procedure = x.procedure
      /\ Planned(result, v, PartsOf(catalogue, v, case, day))
  BY <1>1, PlansRestOn
<1>3. PICK a, b, d, l, s, f : MadeOf(v, case, a, b, d, l, s, f)
  <2>1. Planned(result, v, PartsOf(catalogue, v, case, day))
    BY <1>2
  <2> QED BY <2>1, PartsOfPlans
<1>4. /\ a = Applicable(case.verdict[v.applicability]) /\ ~Obstructs(a)
      /\ b = SelectBases(v, case, day) /\ ~b.defective /\ b.missing = {} /\ result.bases = b
      /\ d = SelectDependencies(catalogue, v, case, day) /\ ~d.defective /\ d.missing = {}
      /\ result.dependencies = d.items
      /\ l = SelectChecklistItems(v, case, day, b.trusted) /\ l.missing = {}
      /\ result.checklist = l.items /\ (l.distrusted => "checklist_items" \in result.held)
      /\ s = SelectSteps(v, case, day, b.trusted) /\ s.missing = {}
      /\ result.steps = s.items /\ (s.distrusted => "steps" \in result.held)
      /\ f = SelectFees(v, case, day, b.trusted) /\ f.missing = {}
      /\ result.fees = f.items
  BY <1>3 DEF MadeOf
<1>5. /\ SectionHolds(v.checklist) /\ SectionHolds(v.steps) /\ SectionHolds(v.fees)
      /\ SectionHolds(v.dependencies)
      /\ \A x \in v.bases : VerdictStands(x.reachable, case, c) /\ VerdictStands(x.when, case, c)
      /\ \A i \in v.checklist : VerdictStands(i.when, case, c)
      /\ \A i \in v.steps : VerdictStands(i.when, case, c)
      /\ \A i \in v.fees : VerdictStands(i.when, case, c)
      /\ \A x \in v.dependencies :
           VerdictStands(x.when, case, c) /\ VerdictStands(x.satisfied, case, c)
  BY <1>1, <1>2, VersionsStand DEF VersionHolds
<1>6. {x.procedure : x \in {y \in catalogue.candidates : Applies(y.when, c)}} = {v.procedure}
  <2>1. {y \in catalogue.candidates : Applies(y.when, c)} = Matching(catalogue, case)
    BY <1>1, <1>2, OneFits
  <2>2. PICK x : Matching(catalogue, case) = {x} /\ v.procedure = x.procedure
    BY <1>2
  <2> QED BY <2>1, <2>2
<1>7. Applies(v.applicability, c)
  BY <1>1, <1>2, <1>4, ApplicabilityStands
<1>8. b.trusted = TrueBases(v, c)
  <2>1. b = SelectBases(v, case, day) /\ ~b.defective /\ b.missing = {}
    BY <1>4
  <2>2. \A x \in v.bases : VerdictStands(x.reachable, case, c) /\ VerdictStands(x.when, case, c)
    BY <1>5
  <2> QED BY <2>1, <2>2, BasesStand
<1>9. /\ \A i \in v.checklist : i.id \in result.checklist => i \in Concerning(v.checklist, v, c)
      /\ \A i \in Concerning({x \in v.checklist : x.official}, v, c) :
           \/ i.id \in result.checklist \/ "checklist_items" \in result.held
           \/ Disposition(i.trust, day) = "context_only"
  <2>1. SectionHolds(v.checklist) /\ \A i \in v.checklist : VerdictStands(i.when, case, c)
    BY <1>5
  <2>2. /\ l = SelectChecklistItems(v, case, day, b.trusted) /\ l.missing = {}
        /\ result.checklist = l.items /\ (l.distrusted => "checklist_items" \in result.held)
    BY <1>4
  <2> QED BY <1>8, <2>1, <2>2, ChecklistStands
<1>10. /\ \A i \in v.steps : i.id \in result.steps => i \in Concerning(v.steps, v, c)
       /\ \A i \in Concerning(v.steps, v, c) : i.id \in result.steps \/ "steps" \in result.held
  <2>1. SectionHolds(v.steps) /\ \A i \in v.steps : VerdictStands(i.when, case, c)
    BY <1>5
  <2>2. /\ s = SelectSteps(v, case, day, b.trusted) /\ s.missing = {}
        /\ result.steps = s.items /\ (s.distrusted => "steps" \in result.held)
    BY <1>4
  <2> QED BY <1>8, <2>1, <2>2, StepListsStand
<1>11. FeesExact(result.fees, v, c)
  <2>1. SectionHolds(v.fees) /\ \A i \in v.fees : VerdictStands(i.when, case, c)
    BY <1>5
  <2>2. /\ f = SelectFees(v, case, day, b.trusted) /\ f.missing = {}
        /\ result.fees = f.items
    BY <1>4
  <2> QED BY <1>8, <2>1, <2>2, FeesStand
<1>12. DependenciesExact(result.dependencies, v, c)
  BY <1>4, <1>5, DependenciesStand
<1> QED BY <1>4, <1>6, <1>7, <1>8, <1>9, <1>10, <1>11, <1>12
  DEF FeesExact, DependenciesExact

LEMMA CurrentRefusalsStand ==
  ASSUME ResultIsCurrent
  PROVE  RefusalsStand
<1> SUFFICES ASSUME result.kind = "inconclusive", NEW c \in Completions,
                    NEW fitting, fitting = {x \in catalogue.candidates : Applies(x.when, c)}
             PROVE  /\ result.reason = "no_matching_researched_procedure" => fitting = {}
                    /\ result.reason = "multiple_matching_procedures" => Cardinality(fitting) > 1
                    /\ result.reason \in {"procedure_version_not_applicable",
                                          "no_applicable_eligibility_basis"}
                         => \A x \in fitting : \E v \in VersionsOf(catalogue, x.procedure) :
                              /\ v.state = "published" /\ Within(v, day)
                              /\ \/ ~Applies(v.applicability, c)
                                 \/ \A b \in v.bases :
                                      ~(/\ Within(b, day)
                                        /\ Applies(b.reachable, c) /\ Applies(b.when, c))
  BY DEF RefusalsStand
<1>1. PICK case : case = Prepared(facts, day)
  OBVIOUS
<1>2. \A reason : result = Inconclusive(reason) => result.reason = reason
  BY DEF Inconclusive
<1>3. CASE result = Inconclusive("inactive_service")
  BY <1>2, <1>3
<1>4. CASE /\ Accepted /\ Cardinality(Matching(catalogue, case)) > 1
           /\ result = Inconclusive("multiple_matching_procedures")
  <2>1. Matching(catalogue, case) \subseteq fitting
    <3> SUFFICES ASSUME NEW x \in catalogue.candidates, case.verdict[x.when].value = "TRUE"
                 PROVE  Applies(x.when, c)
      BY DEF Matching
    <3>1. x.when \in Rules
      BY CataloguesAssumption DEF ResultIsCurrent
    <3>2. VerdictStands(x.when, case, c) /\ Verdict(x.when, case) = case.verdict[x.when]
      BY <1>1, <1>4, <3>1, VerdictsStand, CataloguesAssumption DEF Optional, Verdict
    <3> QED BY <3>2 DEF VerdictStands
  <2>2. IsFiniteSet(fitting)
    BY CataloguesAssumption, FS_Subset DEF ResultIsCurrent
  <2>3. /\ Cardinality(Matching(catalogue, case)) <= Cardinality(fitting)
        /\ Cardinality(Matching(catalogue, case)) \in Nat /\ Cardinality(fitting) \in Nat
    BY <2>1, <2>2, FS_Subset, FS_CardinalityType
  <2>4. Cardinality(fitting) > 1
    BY <1>4, <2>3
  <2> QED BY <1>2, <1>4, <2>4
<1>5. CASE /\ Accepted /\ Matching(catalogue, case) = {} /\ Undecided(catalogue, case) = {}
           /\ result = Inconclusive("no_matching_researched_procedure")
  <2>1. fitting = {}
    BY <1>1, <1>5, OneFits
  <2> QED BY <1>2, <1>5, <2>1
<1>6. ASSUME Accepted, NEW x \in catalogue.candidates, Matching(catalogue, case) = {x},
             Undecided(catalogue, case) = {}, NEW v \in catalogue.versions, InForce(v, x),
             NEW parts, parts = PartsOf(catalogue, v, case, day), Refusing(result, parts),
             result.reason \in {"procedure_version_not_applicable",
                                "no_applicable_eligibility_basis"}
      PROVE  \/ ~Applies(v.applicability, c)
             \/ \A b \in v.bases :
                  ~(Within(b, day) /\ Applies(b.reachable, c) /\ Applies(b.when, c))
  <2>1. PICK i \in 1..6 :
          /\ ~parts[i].defective /\ parts[i].missing = {} /\ parts[i].refusal # None
          /\ result.reason = parts[i].refusal
    BY <1>2, <1>6 DEF Refusing
  <2>2. i = 1 \/ i = 2
    BY <1>6, <2>1, RefusalsOfParts
  <2>3. parts[1] = Applicable(case.verdict[v.applicability]) /\ parts[2] = SelectBases(v, case, day)
    BY <1>6 DEF PartsOf
  <2>4. CASE i = 1
    BY <1>1, <1>6, <2>1, <2>3, <2>4, ApplicabilityStands
  <2>5. CASE i = 2
    <3>1. \A b \in v.bases : VerdictStands(b.reachable, case, c) /\ VerdictStands(b.when, case, c)
      BY <1>1, <1>6, VersionsStand
    <3> QED BY <2>1, <2>3, <2>5, <3>1, BasesStand
  <2> QED BY <2>2, <2>4, <2>5
<1>7. ASSUME Accepted, NEW x \in catalogue.candidates, Matching(catalogue, case) = {x},
             Undecided(catalogue, case) = {}, NEW v \in catalogue.versions, InForce(v, x),
             Refusing(result, PartsOf(catalogue, v, case, day)),
             result.reason \in {"procedure_version_not_applicable",
                                "no_applicable_eligibility_basis"}
      PROVE  \A y \in fitting : \E w \in VersionsOf(catalogue, y.procedure) :
               /\ w.state = "published" /\ Within(w, day)
               /\ \/ ~Applies(w.applicability, c)
                  \/ \A b \in w.bases :
                       ~(/\ Within(b, day) /\ Applies(b.reachable, c) /\ Applies(b.when, c))
  <2>1. fitting = {x}
    BY <1>1, <1>7, OneFits
  <2>2. v \in VersionsOf(catalogue, x.procedure) /\ v.state = "published" /\ Within(v, day)
    BY <1>7 DEF InForce, VersionsOf
  <2> QED BY <1>6, <1>7, <2>1, <2>2
<1>8. ASSUME NEW v, Refusing(result, PartsOf(catalogue, v, case, day))
      PROVE  result.reason \notin {"no_matching_researched_procedure", "multiple_matching_procedures"}
  <2>1. PICK parts : parts = PartsOf(catalogue, v, case, day)
    OBVIOUS
  <2>2. PICK i \in 1..6 : parts[i].refusal # None /\ result.reason = parts[i].refusal
    BY <1>2, <1>8, <2>1 DEF Refusing
  <2> QED BY <2>1, <2>2, RefusalsOfParts
<1>9. CASE /\ Accepted
            /\ \E x \in catalogue.candidates :
                 /\ Matching(catalogue, case) = {x} /\ Undecided(catalogue, case) = {}
                 /\ \/ \E reason \in VersionReasons \cup {"unknown_procedure"} :
                         result = Inconclusive(reason)
                    \/ \E v \in catalogue.versions :
                         /\ InForce(v, x)
                         /\ LET parts == PartsOf(catalogue, v, case, day) IN
                            Planned(result, v, parts) \/ Refusing(result, parts)
  <2>1. PICK x \in catalogue.candidates :
          /\ Matching(catalogue, case) = {x} /\ Undecided(catalogue, case) = {}
          /\ \/ \E reason \in VersionReasons \cup {"unknown_procedure"} :
                  result = Inconclusive(reason)
             \/ \E v \in catalogue.versions :
                  InForce(v, x) /\ Refusing(result, PartsOf(catalogue, v, case, day))
    BY <1>9 DEF Planned
  <2>2. CASE \E reason \in VersionReasons \cup {"unknown_procedure"} : result = Inconclusive(reason)
    BY <1>2, <2>2 DEF VersionReasons
  <2>3. CASE \E v \in catalogue.versions :
               InForce(v, x) /\ Refusing(result, PartsOf(catalogue, v, case, day))
    BY <1>7, <1>8, <1>9, <2>1, <2>3
  <2> QED BY <2>1, <2>2, <2>3
<1> QED BY <1>1, <1>3, <1>4, <1>5, <1>9, ResultsRestOn

-----------------------------------------------------------------------------

\* A plan does not depend on what was not asked: its procedure, its version, the
\* bases that unlock guidance and every official requirement, step and amount it
\* shows are right in every case the citizen may still reveal (plan_stateless).
THEOREM ShownGuidanceStandsAlways == Spec => []ShownGuidanceStands
<1>1. Init => ResultIsCurrent
  BY DEF Init, ResultIsCurrent
<1>2. ResultIsCurrent /\ [Next]_vars => ResultIsCurrent'
  BY StepsAnswerTheCase
<1>3. ResultIsCurrent => ShownGuidanceStands
  BY CurrentGuidanceStands
<1> QED BY <1>1, <1>2, <1>3, PTL DEF Spec

\* Nothing that concerns the citizen is missing without a word: in every case that
\* may still be revealed an official requirement is on the checklist, or the section
\* is marked as incomplete, unless it is dated context; likewise steps, dependencies
\* and fees (ChecklistSelection.trust_inconclusive, StepSelection).
THEOREM NothingIsSilentlyDropped == Spec => []NothingSilentlyDropped
<1>1. Init => ResultIsCurrent
  BY DEF Init, ResultIsCurrent
<1>2. ResultIsCurrent /\ [Next]_vars => ResultIsCurrent'
  BY StepsAnswerTheCase
<1>3. ResultIsCurrent => NothingSilentlyDropped
  BY CurrentGuidanceStands
<1> QED BY <1>1, <1>2, <1>3, PTL DEF Spec

\* A citizen is turned away only for what no further answer can change: that no
\* procedure, several procedures, not this version or no basis fits
\* (select_procedure, select_eligibility_bases).
THEOREM RefusalsStandAlways == Spec => []RefusalsStand
<1>1. Init => ResultIsCurrent
  BY DEF Init, ResultIsCurrent
<1>2. ResultIsCurrent /\ [Next]_vars => ResultIsCurrent'
  BY StepsAnswerTheCase
<1>3. ResultIsCurrent => RefusalsStand
  BY CurrentRefusalsStand
<1> QED BY <1>1, <1>2, <1>3, PTL DEF Spec

\* The facts blamed for a contradiction are enough to contradict each other, so a
\* citizen who keeps all of them cannot repair the case elsewhere
\* (_influential_submitted_fact_keys).
THEOREM BlamedFactsSufficeAlways == Spec => []BlamedFactsSuffice
<1>1. Init => ResultIsCurrent
  BY DEF Init, ResultIsCurrent
<1>2. ResultIsCurrent /\ [Next]_vars => ResultIsCurrent'
  BY StepsAnswerTheCase
<1>3. ResultIsCurrent => BlamedFactsSuffice
  BY BlameSuffices
<1> QED BY <1>1, <1>2, <1>3, PTL DEF Spec

-----------------------------------------------------------------------------
(* What is asked is not known yet.                                            *)

\* A rule is unknown only for want of facts that have no value.
LEMMA MissingFactsHaveNoValue ==
  ASSUME NEW values, NEW submitted
  PROVE  \A rule \in Rules : Evaluate(values, submitted)[rule].missing \cap DOMAIN values = {}
<1>1. PICK E : E = Evaluate(values, submitted)
  OBVIOUS
<1>2. \A rule \in Rules : /\ E[rule] = Evaluated(E, rule, values, submitted)
                          /\ E[rule] \in Evaluations(submitted)
  BY <1>1, EvaluateIsRecursive
<1> DEFINE Good == {rule \in Rules : E[rule].missing \cap DOMAIN values = {}}
<1>3. ASSUME NEW rule \in Rules, Parts(rule) \subseteq Good
      PROVE  E[rule].missing \cap DOMAIN values = {}
  <2>1. \A part \in Parts(rule) : part \in Rules /\ E[part].missing \cap DOMAIN values = {}
    BY <1>3
  <2> HIDE DEF Good
  <2>2. CASE rule.op \in Leaves
    <3>1. E[rule] = EvaluateLeaf(rule, values, submitted)
      BY <1>2, <2>2 DEF Evaluated
    <3>2. E[rule].missing = {} \/ (E[rule].missing = {rule.fact} /\ rule.fact \notin DOMAIN values)
      BY <3>1 DEF EvaluateLeaf
    <3> QED BY <3>2
  <2>3. CASE rule.op = "not"
    <3>1. PICK part \in Parts(rule) : part = rule.children[1]
      BY <2>3, PartsOfNodes
    <3>2. E[rule] = Negate(E[part])
      BY <1>2, <2>3, <3>1 DEF Evaluated, Leaves
    <3>3. E[part] \in Evaluations(submitted)
      BY <1>2, <2>1
    <3>4. E[rule].missing = E[part].missing
      BY <3>2, <3>3 DEF Negate, Evaluations
    <3> QED BY <2>1, <3>4
  <2>4. CASE rule.op \in {"all", "any"}
    <3> DEFINE parts == {E[part] : part \in Parts(rule)}
    <3>1. E[rule] = Compose(rule.op, parts)
      BY <1>2, <2>4 DEF Evaluated, Leaves
    <3>2. \A p \in parts : p.missing \cap DOMAIN values = {}
      BY <2>1
    <3> HIDE DEF parts
    <3>3. E[rule].missing \subseteq UNION {p.missing : p \in {q \in parts : q.value = "UNKNOWN"}}
      BY <3>1 DEF Compose
    <3> QED BY <3>2, <3>3
  <2> QED BY <2>2, <2>3, <2>4, PartsOfNodes
<1>4. ASSUME NEW rule \in Rules, Parts(rule) \subseteq Good PROVE rule \in Good
  BY <1>3, <1>4
<1>5. \A rule \in Rules : rule \in Good
  <2> HIDE DEF Good
  <2> QED BY <1>4, RuleInduction
<1> QED BY <1>1, <1>5

\* Some question is first by priority and identifier.
LEMMA FirstQuestion ==
  ASSUME NEW some, some # {}, \A q \in some : q.priority \in Nat /\ q.id \in Nat
  PROVE  \E q \in some : \A other \in some :
           q.priority < other.priority \/ (q.priority = other.priority /\ q.id <= other.id)
<1> DEFINE priorities == {q.priority : q \in some}
<1>1. priorities \in SUBSET Nat /\ priorities # {}
  OBVIOUS
<1>2. PICK p \in priorities : \A n \in priorities : p <= n
  <2> HIDE DEF priorities
  <2> QED BY <1>1, LeastNatural
<1> DEFINE first == {q \in some : q.priority = p}
           ids   == {q.id : q \in first}
<1>3. ids \in SUBSET Nat /\ ids # {}
  OBVIOUS
<1>4. PICK i \in ids : \A n \in ids : i <= n
  <2> HIDE DEF ids
  <2> QED BY <1>3, LeastNatural
<1>5. PICK q \in first : q.id = i
  OBVIOUS
<1>6. ASSUME NEW other \in some
      PROVE  q.priority < other.priority \/ (q.priority = other.priority /\ q.id <= other.id)
  <2>1. q.priority = p /\ p <= other.priority /\ p \in Nat /\ other.priority \in Nat
    BY <1>2
  <2>2. other.priority = p => i <= other.id
    BY <1>4
  <2> QED BY <1>5, <2>1, <2>2
<1> QED BY <1>5, <1>6

\* A question for missing facts covers one that was not submitted.
LEMMA PickedQuestions ==
  ASSUME ResultIsCurrent, NEW case, case = Prepared(facts, day), NEW missing, NEW selecting,
         missing # {}, missing \cap DOMAIN case.values = {},
         NEW q, q = PickQuestion(catalogue, case, missing, selecting), q # None
  PROVE  q \in catalogue.questions /\ ~(q.facts \subseteq DOMAIN facts)
<1> DEFINE sources  == UNION {SourcesOf(k, case) : k \in missing}
           covered  == UNION {x.facts : x \in catalogue.questions}
           covering == {x \in catalogue.questions : x.facts \cap sources # {}}
           First(x) == \A other \in covering : \/ x.priority < other.priority
                                               \/ x.priority = other.priority /\ x.id <= other.id
<1>1. /\ Untraceable(missing, case, selecting) = {} /\ sources \subseteq covered
      /\ q = CHOOSE x \in covering : First(x)
  BY DEF PickQuestion
<1>2. \A k \in missing : SourcesOf(k, case) # {} /\ SourcesOf(k, case) \cap DOMAIN facts = {}
  <2> SUFFICES ASSUME NEW k \in missing
               PROVE  SourcesOf(k, case) # {} /\ SourcesOf(k, case) \cap DOMAIN facts = {}
    OBVIOUS
  <2>1. CASE k \in DerivedKeys
    <3>1. k \in DOMAIN case.omitted /\ case.omitted[k] # {}
      BY <1>1, <2>1 DEF Untraceable
    <3>2. case.omitted[k] = Omitted(k, facts)
      BY <3>1 DEF Prepared, CaseOf
    <3> QED BY <2>1, <3>1, <3>2 DEF SourcesOf, Omitted
  <2>2. CASE k \notin DerivedKeys
    <3>1. k \notin DOMAIN facts
      BY PreparedCases
    <3> QED BY <2>2, <3>1 DEF SourcesOf
  <2> QED BY <2>1, <2>2
<1>3. sources # {} /\ sources \cap DOMAIN facts = {}
  <2>1. PICK k \in missing : SourcesOf(k, case) # {}
    BY <1>2
  <2> QED BY <1>2, <2>1
<1>4. covering # {}
  BY <1>1, <1>3
<1>5. \A x \in covering : x.priority \in Nat /\ x.id \in Nat
  BY CataloguesAssumption DEF ResultIsCurrent
<1>6. \E x \in covering : First(x)
  <2> HIDE DEF covering
  <2> QED BY <1>4, <1>5, FirstQuestion
<1>7. q \in covering
  <2> HIDE DEF covering, First
  <2> QED BY <1>1, <1>6
<1> QED BY <1>3, <1>7

LEMMA QuestionsAreAsked ==
  ASSUME NEW q, QuestionResult(q).kind = "question"
  PROVE  q # None /\ QuestionResult(q).question = q
BY DEF QuestionResult, ConfigurationInvalid

\* The facts that a part waits for.
LEMMA PartsWaitForFacts ==
  ASSUME ResultIsCurrent, NEW case, case = Prepared(facts, day),
         NEW v \in catalogue.versions, NEW i \in 1..6
  PROVE  PartsOf(catalogue, v, case, day)[i].missing \cap DOMAIN case.values = {}
<1>1. \A rule \in Rules : case.verdict[rule].missing \cap DOMAIN case.values = {}
  BY PreparedCases, MissingFactsHaveNoValue
<1>2. \A when \in Optional : Verdict(when, case).missing \cap DOMAIN case.values = {}
  BY <1>1 DEF Optional, Verdict
<1>3. VersionHolds(v)
  BY CataloguesAssumption DEF ResultIsCurrent
<1>4. PICK a, b, d, l, s, f :
        /\ a = Applicable(case.verdict[v.applicability])
        /\ b = SelectBases(v, case, day) /\ d = SelectDependencies(catalogue, v, case, day)
        /\ l = SelectChecklistItems(v, case, day, b.trusted)
        /\ s = SelectSteps(v, case, day, b.trusted)
        /\ f = SelectFees(v, case, day, b.trusted)
  OBVIOUS
<1>5. PartsOf(catalogue, v, case, day) = <<a, b, d, l, s, f>>
  BY <1>4 DEF PartsOf
<1>6. a.missing \cap DOMAIN case.values = {}
  BY <1>1, <1>3, <1>4 DEF Applicable, VersionHolds
<1>7. b.missing \cap DOMAIN case.values = {}
  <2>1. \A x \in v.bases : Qualification(x, case).missing \cap DOMAIN case.values = {}
    BY <1>2, <1>3 DEF Qualification, VersionHolds
  <2>2. ASSUME NEW k \in b.missing
        PROVE  \E x \in v.bases : k \in Qualification(x, case).missing
    BY <1>4 DEF SelectBases, BasesBy
  <2> QED BY <2>1, <2>2
<1>8. d.missing \cap DOMAIN case.values = {}
  <2>1. \A x \in v.dependencies : Awaited(x, case) \cap DOMAIN case.values = {}
    BY <1>2, <1>3 DEF Awaited, VersionHolds, SectionHolds
  <2>2. ASSUME NEW k \in d.missing PROVE \E x \in v.dependencies : k \in Awaited(x, case)
    BY <1>4 DEF SelectDependencies
  <2> QED BY <2>1, <2>2
<1>9. l.missing \cap DOMAIN case.values = {}
  <2>1. \A x \in v.checklist : Verdict(x.when, case).missing \cap DOMAIN case.values = {}
    BY <1>2, <1>3 DEF VersionHolds, SectionHolds
  <2>2. ASSUME NEW k \in l.missing
        PROVE  \E x \in v.checklist : k \in Verdict(x.when, case).missing
    BY <1>4 DEF SelectChecklistItems, Section, Guidance
  <2> QED BY <2>1, <2>2
<1>10. s.missing \cap DOMAIN case.values = {}
  <2>1. \A x \in v.steps : Verdict(x.when, case).missing \cap DOMAIN case.values = {}
    BY <1>2, <1>3 DEF VersionHolds, SectionHolds
  <2>2. ASSUME NEW k \in s.missing
        PROVE  \E x \in v.steps : k \in Verdict(x.when, case).missing
    BY <1>4 DEF SelectSteps, Section, Guidance
  <2> QED BY <2>1, <2>2
<1>11. f.missing \cap DOMAIN case.values = {}
  <2>1. \A x \in v.fees : Verdict(x.when, case).missing \cap DOMAIN case.values = {}
    BY <1>2, <1>3 DEF VersionHolds, SectionHolds
  <2>2. ASSUME NEW k \in f.missing
        PROVE  \E x \in v.fees : k \in Verdict(x.when, case).missing
    BY <1>4 DEF SelectFees
  <2> QED BY <2>1, <2>2
<1> QED BY <1>5, <1>6, <1>7, <1>8, <1>9, <1>10, <1>11

\* Every question is one of the catalogue and resolves a fact that is not known yet, so
\* that an answer to it is progress (_pick_question).
QuestionsAdvance ==
  result.kind = "question" =>
    result.question \in catalogue.questions /\ ~(result.question.facts \subseteq DOMAIN facts)

LEMMA CurrentQuestionsAdvance ==
  ASSUME ResultIsCurrent
  PROVE  QuestionsAdvance
<1> SUFFICES ASSUME result.kind = "question"
             PROVE  /\ result.question \in catalogue.questions
                    /\ ~(result.question.facts \subseteq DOMAIN facts)
  BY DEF QuestionsAdvance
<1>1. PICK case : case = Prepared(facts, day)
  OBVIOUS
<1>2. PICK selection : selection = SelectProcedure(catalogue, case)
  OBVIOUS
<1>3. result = PlanPrepared(catalogue, selection, case, day)
  BY <1>1, <1>2 DEF PlanStateless, ResultIsCurrent, Inconclusive, Invalid, ConfigurationInvalid
<1>4. ASSUME NEW missing, NEW selecting, missing # {}, missing \cap DOMAIN case.values = {},
             result = QuestionResult(PickQuestion(catalogue, case, missing, selecting))
      PROVE  /\ result.question \in catalogue.questions
             /\ ~(result.question.facts \subseteq DOMAIN facts)
  <2>1. PICK q : q = PickQuestion(catalogue, case, missing, selecting)
    OBVIOUS
  <2>2. q # None /\ result.question = q
    BY <1>4, <2>1, QuestionsAreAsked
  <2> QED BY <1>1, <1>4, <2>1, <2>2, PickedQuestions
<1>5. CASE selection.kind # "selected"
  <2> DEFINE missing == UNION {case.verdict[x.when].missing : x \in Undecided(catalogue, case)}
  <2>1. result = selection
    BY <1>3, <1>5 DEF PlanPrepared
  <2>2. /\ Undecided(catalogue, case) # {}
        /\ selection = QuestionResult(PickQuestion(catalogue, case, missing, TRUE))
    BY <1>2, <1>5, <2>1 DEF SelectProcedure, Undecided, Inconclusive
  <2>3. \A x \in Undecided(catalogue, case) :
          /\ case.verdict[x.when].missing # {}
          /\ case.verdict[x.when].missing \cap DOMAIN case.values = {}
    <3> SUFFICES ASSUME NEW x \in catalogue.candidates, case.verdict[x.when].value = "UNKNOWN"
                 PROVE  /\ case.verdict[x.when].missing # {}
                        /\ case.verdict[x.when].missing \cap DOMAIN case.values = {}
      BY DEF Undecided
    <3>1. x.when \in Rules
      BY CataloguesAssumption DEF ResultIsCurrent
    <3>2. case.verdict = Evaluate(case.values, DOMAIN facts)
      BY <1>1, PreparedCases
    <3>3. case.verdict[x.when] \in Evaluations(DOMAIN facts)
      BY <3>1, <3>2, EvaluateIsRecursive
    <3> QED BY <3>1, <3>2, <3>3, MissingFactsHaveNoValue DEF Evaluations
  <2>4. missing # {} /\ missing \cap DOMAIN case.values = {}
    BY <2>2, <2>3
  <2> HIDE DEF missing
  <2> QED BY <1>4, <2>1, <2>2, <2>4
<1>6. CASE selection.kind = "selected"
  <2>1. PICK found : found = ResolveProcedureVersion(catalogue, selection.procedure, day)
    OBVIOUS
  <2>2. result = PlanSelected(catalogue, found, case, day)
    BY <1>3, <1>6, <2>1 DEF PlanPrepared
  <2>3. found.kind = "resolved"
    BY <2>1, <2>2, ResolutionKinds DEF PlanSelected, ConfigurationInvalid, Inconclusive
  <2>4. PICK v : v = found.version
    OBVIOUS
  <2>5. v \in catalogue.versions
    BY <2>1, <2>3, <2>4, ResolutionIsExact DEF ResultIsCurrent, PublishedOf, VersionsOf
  <2>6. result = PlanVersion(catalogue, v, case, day)
    BY <2>2, <2>3, <2>4 DEF PlanSelected
  <2>7. PICK parts : parts = PartsOf(catalogue, v, case, day)
    OBVIOUS
  <2>8. PICK i \in 1..6 : result = Answered(catalogue, case, parts[i])
    BY <2>6, <2>7, PlansStandOnTheirParts DEF Planned
  <2>9. /\ parts[i].missing # {}
        /\ result = QuestionResult(PickQuestion(catalogue, case, parts[i].missing, FALSE))
    BY <2>8 DEF Answered, ConfigurationInvalid, Inconclusive
  <2>10. parts[i].missing \cap DOMAIN case.values = {}
    BY <1>1, <2>5, <2>7, PartsWaitForFacts
  <2> QED BY <1>4, <2>9, <2>10
<1> QED BY <1>5, <1>6

\* Every question is one of the catalogue and resolves a fact that is not known yet, so
\* that an answer to it is progress (_pick_question).
THEOREM QuestionsAlwaysAdvance == Spec => []QuestionsAdvance
<1>1. Init => ResultIsCurrent
  BY DEF Init, ResultIsCurrent
<1>2. ResultIsCurrent /\ [Next]_vars => ResultIsCurrent'
  BY StepsAnswerTheCase
<1>3. ResultIsCurrent => QuestionsAdvance
  BY CurrentQuestionsAdvance
<1> QED BY <1>1, <1>2, <1>3, PTL DEF Spec
=============================================================================
