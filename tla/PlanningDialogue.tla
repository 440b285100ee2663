-------------------------- MODULE PlanningDialogue --------------------------
(***************************************************************************)
(* The questionnaire and the stateless planning operation together: every  *)
(* request carries all facts of the tab's case, a question is answered for *)
(* one or more of its facts, and earlier answers are changed or corrected. *)
(***************************************************************************)
EXTENDS PlanningEngine

CONSTANTS
  Catalogues,  \* the catalogues that may be published
  Days         \* evaluation dates

\* What the database keeps of a version: its rules are decoded, and the items of a
\* section have identifiers of their own (unique_step_id_per_version).
Optional == Rules \cup {None}

SectionHolds(items) ==
  /\ \A i \in items : i.when \in Optional
  /\ \A i, j \in items : i.id = j.id => i = j

VersionHolds(v) ==
  /\ v.from \in Int \cup {None} /\ v.to \in Int \cup {None}
  /\ v.applicability \in Rules
  /\ \A b \in v.bases : b.reachable \in Optional /\ b.when \in Optional
  /\ \A section \in {v.checklist, v.steps, v.fees, v.dependencies} : SectionHolds(section)
  /\ \A d \in v.dependencies : d.satisfied \in Optional

ASSUME CataloguesAssumption ==
  /\ Days \subseteq Int
  /\ None \notin Rules /\ None # "procedure_version_not_applicable"
  /\ \A c \in Catalogues :
       /\ IsFiniteSet(c.versions) /\ IsFiniteSet(c.candidates)
       /\ c.contradictions \subseteq Rules /\ \A x \in c.candidates : x.when \in Rules
       /\ \A q \in c.questions : q.priority \in Nat /\ q.id \in Nat
       /\ \A v \in c.versions : VersionHolds(v)

VARIABLES
  catalogue,  \* what is published; it does not change during a dialogue
  day,        \* the evaluation date
  facts,      \* submitted facts: key -> value
  history,    \* the sets of facts that were asked together, in order
  result      \* the answer to the last request

vars == <<catalogue, day, facts, history, result>>

Tab == INSTANCE TabCase WITH Today <- None, MaxFacts <- Cardinality(Keys)

Case == [service |-> None, date |-> day, facts |-> facts, history |-> history, cleared |-> None]

Init ==
  /\ catalogue \in Catalogues /\ day \in Days /\ facts = <<>> /\ history = <<>>
  /\ result = PlanStateless(catalogue, facts, day)

\* All ways to give each of the keys a value.
Extended(cases, k) ==
  UNION {{[j \in {k} \cup DOMAIN c |-> IF j = k THEN v ELSE c[j]] : v \in Definitions[k].values} :
            c \in cases}

Valuations(keys) == FoldSet(LAMBDA k, cases : Extended(cases, k), {<<>>}, keys)

\* A case of the tab becomes the next request.
Request(case) ==
  /\ facts' = case.facts /\ history' = case.history
  /\ result' = PlanStateless(catalogue, facts', day') /\ UNCHANGED catalogue

Answers ==
  UNION {Valuations(answered) : answered \in SUBSET result.question.facts}

Answer ==
  /\ result.kind = "question" /\ UNCHANGED day
  /\ \E answers \in Answers :
       /\ ~Tab!SubmitRefused(Case, result.question.facts, answers)
       /\ Request(Tab!Resubmitted(Case, result.question.facts, answers))

Change ==
  /\ UNCHANGED day /\ \E i \in Tab!Reviewable(Case) : Request(Tab!RewindCase(Case, i))

Correct ==
  /\ result.kind = "invalid" /\ UNCHANGED day
  /\ Request(Tab!CorrectDiagnostics(Case, result.keys))

UseDate ==
  /\ \E d \in Days \ {day} : day' = d
  /\ Request(Case)

Next == Answer \/ Change \/ Correct \/ UseDate

Spec == Init /\ [][Next]_vars

\* Something that was not known yet is answered, and nothing changed.
Reply ==
  /\ result.kind = "question"
  /\ \E answers \in Answers :
       ~(DOMAIN answers \subseteq DOMAIN facts) /\ facts' = facts @@ answers

\* A citizen who is asked replies in the end.
FairSpec == Spec /\ WF_facts(Reply)

\* The citizen takes an answer back or asks for another day.
Reconsider ==
  day' # day \/ ~(DOMAIN facts \subseteq DOMAIN facts' /\ \A k \in DOMAIN facts : facts'[k] = facts[k])

-----------------------------------------------------------------------------
(* Reference: what is the case once the citizen has said everything. *)

Holds(rule, values, submitted) ==
  LET H[r \in Rules] ==
        CASE r.op = "all"    -> \A part \in Parts(r) : H[part]
          [] r.op = "any"    -> \E part \in Parts(r) : H[part]
          [] r.op = "not"    -> ~H[r.children[1]]
          [] r.op = "exists" -> r.fact \in submitted
          [] OTHER           -> Matches(r, values[r.fact])
  IN H[rule]

AllCases == Valuations(SourceKeys)

\* The full cases that agree with what was submitted and are not refused.
Completions ==
  {c \in AllCases : /\ \A k \in DOMAIN facts : c[k] = facts[k]
                    /\ Refused(catalogue.contradictions, c, day) = {}}

FullCases == [c \in AllCases |-> [d \in Days |-> Prepared(c, d).values]]

Applies(when, c) == when = None \/ Holds(when, FullCases[c][day], DOMAIN facts)

Backed(item, officialOnly) == SupportingSources(item.links, day, officialOnly) # {}

\* The bases that unlock guidance in case c.
TrueBases(version, c) ==
  {b.id : b \in {x \in version.bases :
     /\ Within(x, day) /\ Applies(x.reachable, c) /\ Applies(x.when, c)
     /\ Assessed(x, day) = "assert_current" /\ Backed(x, FALSE)}}

\* The items of version that concern the citizen in case c.
Concerning(items, version, c) ==
  LET bases == TrueBases(version, c) IN
  {i \in items : Within(i, day) /\ Applies(i.when, c) /\ InScope(i, bases)}

-----------------------------------------------------------------------------
(* Properties *)

\* A citizen who replies to what is asked and stands by the answers is asked only
\* finitely often: a question always resolves a fact that is not yet known
\* (_pick_question).
DialogueEnds == <>[](result.kind # "question") \/ []<><<Reconsider>>_<<day, facts>>

\* Every answer can be changed: the review list of the tab shows it (rewindCase).
EveryAnswerCanBeChanged ==
  \A k \in DOMAIN facts : \E i \in Tab!Reviewable(Case) : k \in history[i]

\* The program does not keep this promise, and no run checks it: no answer outlives what
\* it was asked on, that is, each entry of the history is a question the planner asks
\* given some of the answers to earlier entries as they are now; only answers that were
\* withdrawn since, or that the entry asks again, may have been different ("its
\* downstream branch must be discarded", submitAnswers).
Cases == UNION {Valuations(keys) : keys \in SUBSET SourceKeys}

Asked(entry, earlier) ==
  \E before \in {c \in Cases : \A k \in (earlier \cap (DOMAIN c) \cap DOMAIN facts) \ entry : c[k] = facts[k]},
     d \in Days, q \in {x \in catalogue.questions : x.facts = entry} :
       PlanStateless(catalogue, before, d) = [kind |-> "question", question |-> q]

AnswersFitTheirQuestions ==
  \A i \in DOMAIN history : Asked(history[i], Tab!KeysOf(SubSeq(history, 1, i - 1)))

\* The entries of the history that a step keeps, with all before them.
Kept == {i \in DOMAIN history \cap DOMAIN history' : \A j \in 1..i : history'[j] = history[j]}

\* The program does keep this much: under an entry that stays, no earlier answer is given
\* differently, and one goes only with a later entry that asked for it again and is
\* dropped (submitAnswers, rewindCase, correctDiagnostics).
KeptEntriesStand ==
  \A i \in Kept : \A k \in Tab!KeysOf(SubSeq(history, 1, i - 1)) \cap DOMAIN facts :
    IF k \in DOMAIN facts' THEN facts'[k] = facts[k]
    ELSE \E j \in (DOMAIN history) \ Kept : k \in history[j]

\* Whatever was answered, changed and corrected, the citizen can still reach every
\* answer, and a change never slips under the entries that stay on the case.
HistoryIsUsable == []EveryAnswerCanBeChanged /\ [][KeptEntriesStand]_vars

\* A plan does not depend on what was not asked: its procedure, its version, the
\* bases that unlock guidance and every official requirement, step and amount it
\* shows are right in every case the citizen may still reveal (plan_stateless).
ShownGuidanceStands ==
  result.kind = "plan" =>
    LET version == result.version IN
    \A c \in Completions :
      /\ {x.procedure : x \in {y \in catalogue.candidates : Applies(y.when, c)}}
           = {version.procedure}
      /\ Applies(version.applicability, c)
      /\ result.bases.trusted = TrueBases(version, c)
      /\ \A i \in version.checklist :
           i.id \in result.checklist => i \in Concerning(version.checklist, version, c)
      /\ \A i \in version.steps :
           i.id \in result.steps => i \in Concerning(version.steps, version, c)
      /\ \A f \in version.fees :
           [id |-> f.id, state |-> "known"] \in result.fees
             => f \in Concerning(version.fees, version, c) /\ Backed(f, FALSE)
      /\ \A d \in version.dependencies :
           \A status \in {"satisfied", "blocking"} :
             [id |-> d.id, status |-> status] \in result.dependencies
               => Applies(d.when, c) /\ (status = "satisfied") = Applies(d.satisfied, c)

\* Nothing that concerns the citizen is missing without a word: in every case that
\* may still be revealed an official requirement is on the checklist, or the section
\* is marked as incomplete, unless it is dated context; likewise steps, dependencies
\* and fees (ChecklistSelection.trust_inconclusive, StepSelection).
NothingSilentlyDropped ==
  result.kind = "plan" =>
    LET version == result.version IN
    \A c \in Completions :
      /\ \A i \in Concerning({x \in version.checklist : x.official}, version, c) :
           \/ i.id \in result.checklist \/ "checklist_items" \in result.held
           \/ Disposition(i.trust, day) = "context_only"
      /\ \A i \in Concerning(version.steps, version, c) :
           i.id \in result.steps \/ "steps" \in result.held
      /\ \A d \in version.dependencies :
           Within(d, day) /\ Applies(d.when, c)
             => \E shown \in result.dependencies : shown.id = d.id
      /\ \A f \in Concerning(version.fees, version, c) :
           Assessed(f, day) = "assert_current" => \E shown \in result.fees : shown.id = f.id

\* A citizen is turned away only for what no further answer can change: that no
\* procedure, several procedures, not this version or no basis fits
\* (select_procedure, select_eligibility_bases).
RefusalsStand ==
  result.kind = "inconclusive" =>
    \A c \in Completions :
      LET fitting == {x \in catalogue.candidates : Applies(x.when, c)} IN
      /\ result.reason = "no_matching_researched_procedure" => fitting = {}
      /\ result.reason = "multiple_matching_procedures" => Cardinality(fitting) > 1
      /\ result.reason \in {"procedure_version_not_applicable", "no_applicable_eligibility_basis"}
           => \A x \in fitting : \E v \in VersionsOf(catalogue, x.procedure) :
                /\ v.state = "published" /\ Within(v, day)
                /\ \/ ~Applies(v.applicability, c)
                   \/ \A b \in v.bases : ~(/\ Within(b, day)
                                           /\ Applies(b.reachable, c) /\ Applies(b.when, c))

\* The facts blamed for a contradiction are enough to contradict each other, so a
\* citizen who keeps all of them cannot repair the case elsewhere
\* (_influential_submitted_fact_keys).
BlamedFactsSuffice ==
  result.kind = "invalid" /\ Unsupported(facts) \cup Unborn(facts, day) = {} =>
    LET blamed == [k \in result.keys |-> facts[k]] IN
    Contradicted(catalogue.contradictions, Prepared(blamed, day)) # {}

\* A plan is made from the one published version whose days include the evaluation
\* date, counted day by day; none is used while two published versions share a day
\* (resolve_procedure_version).
DaysOf(v) == {d \in Days : (v.from = None \/ d >= v.from) /\ (v.to = None \/ ~(d > v.to))}

VersionInForceIsUsed ==
  LET published(p) == {v \in VersionsOf(catalogue, p) : v.state = "published"}
      Shared(p) == \E v, w \in published(p) : v # w /\ DaysOf(v) \cap DaysOf(w) # {}
  IN /\ result.kind = "plan" =>
          /\ ~Shared(result.version.procedure)
          /\ {v \in published(result.version.procedure) : day \in DaysOf(v)} = {result.version}
     /\ result.kind = "inconclusive"
        /\ result.reason \in {"no_applicable_version", "not_yet_effective", "no_published_version"}
          => \E x \in catalogue.candidates : \A v \in published(x.procedure) : day \notin DaysOf(v)

=============================================================================
