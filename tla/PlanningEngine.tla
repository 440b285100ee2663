--------------------------- MODULE PlanningEngine ---------------------------
(***************************************************************************)
(* The stateless planning operation: a catalogue, the submitted facts and  *)
(* a date give a question, a plan, or the reason why there is none.        *)
(*                                                                         *)
(* A catalogue is one service with its published knowledge:                *)
(*   [active, candidates, questions, contradictions, versions].            *)
(* Material is [id, from, to, trust, links, ...]; trust is what            *)
(* AssessTrust takes, and a rule that is not authored is None.             *)
(***************************************************************************)
EXTENDS PlanningRules, SequencesExt

Within(item, day) == NotAfter(item.from, day) /\ NotBefore(item.to, day)

Verdict(when, case) ==
  IF when = None THEN [value |-> "TRUE", missing |-> {}, decided |-> {}]
  ELSE case.verdict[when]

-----------------------------------------------------------------------------
(* Provenance. *)

SourceIsCurrent(source, day) ==
  AssessTrust([state |-> "current", verifiedOn |-> None, reverifyOn |-> source.reverifyOn],
              source.from, source.to, source.retrievedOn, day) = "assert_current"

LinkIsCurrent(link, day) ==
  /\ AssessTrust(link.trust, link.from, link.to, link.retrievedOn, day) = "assert_current"
  /\ link.sources # {}
  /\ \A source \in link.sources : SourceIsCurrent(source, day)

\* Empty if nothing supports or something contradicts.
Supporting(current, officialOnly) ==
  IF \E l \in current : l.support = "contradicts" THEN {}
  ELSE UNION {link.sources : link \in
                {l \in current : /\ l.support = "supports"
                                 /\ officialOnly => \A source \in l.sources : source.official}}

SupportingSources(links, day, officialOnly) ==
  Supporting({l \in links : LinkIsCurrent(l, day)}, officialOnly)

\* The state that is shown with an assessment (Freshness).
FreshnessState(trust, from, to, day) ==
  IF ~NotAfter(trust.verifiedOn, day) THEN "unknown"
  ELSE IF trust.state # "current" THEN trust.state
  ELSE IF AssessTrust(trust, from, to, None, day) = "inconclusive" THEN "needs_reverification"
  ELSE "current"

Assessed(item, day) == AssessTrust(item.trust, item.from, item.to, None, day)

-----------------------------------------------------------------------------
(* Questions. *)

Defined(key) == key \in Keys

\* The source facts that the missing ones come from, and the keys for which
\* there are none.  Selection also takes undefined facts for source facts.
SourcesOf(key, case) == IF key \in DerivedKeys THEN case.omitted[key] ELSE {key}

Untraceable(missing, case, selecting) ==
  {k \in missing : \/ ~Defined(k) /\ ~selecting
                   \/ k \in DerivedKeys /\ (k \notin DOMAIN case.omitted \/ case.omitted[k] = {})}

\* Fault: a question that covers none of the missing facts may rank first.
PickUncovering(catalogue, case, missing, selecting) ==
  LET sources  == UNION {SourcesOf(k, case) : k \in missing}
      covered  == UNION {q.facts : q \in catalogue.questions}
  IN IF Untraceable(missing, case, selecting) # {} \/ ~(sources \subseteq covered) THEN None
     ELSE CHOOSE q \in catalogue.questions :
            \A other \in catalogue.questions :
              \/ q.priority < other.priority
              \/ q.priority = other.priority /\ q.id <= other.id

\* The question of lowest priority and identifier among those that cover a
\* missing fact, once every missing fact is covered; None is a defect.
PickQuestion(catalogue, case, missing, selecting) ==
  LET sources  == UNION {SourcesOf(k, case) : k \in missing}
      covered  == UNION {q.facts : q \in catalogue.questions}
      covering == {q \in catalogue.questions : q.facts \cap sources # {}}
  IN IF Untraceable(missing, case, selecting) # {} \/ ~(sources \subseteq covered) THEN None
     ELSE CHOOSE q \in covering :
            \A other \in covering : \/ q.priority < other.priority
                                    \/ q.priority = other.priority /\ q.id <= other.id

Invalid(keys)        == [kind |-> "invalid", keys |-> keys]
ConfigurationInvalid == [kind |-> "configuration_invalid"]
Inconclusive(reason) == [kind |-> "inconclusive", reason |-> reason]

\* A question is asked with the definitions of all facts it resolves.
QuestionResult(question) ==
  IF question = None \/ ~(question.facts \subseteq SourceKeys) THEN ConfigurationInvalid
  ELSE [kind |-> "question", question |-> question]

-----------------------------------------------------------------------------
(* Versions. *)

Containing(version, day) == NotAfter(version.from, day) /\ NotBefore(version.to, day)

\* Fault: a window that ends when another begins does not meet it.
WindowsOverlapInside(v, w) ==
  /\ v.from = None \/ w.to = None \/ v.from < w.to
  /\ w.from = None \/ v.to = None \/ w.from < v.to

\* Both bounds belong to a window.
WindowsOverlap(v, w) ==
  /\ v.from = None \/ w.to = None \/ v.from <= w.to
  /\ w.from = None \/ v.to = None \/ w.from <= v.to

VersionsOf(catalogue, procedure) == {v \in catalogue.versions : v.procedure = procedure}

MalformedVersion(v) ==
  \/ v.state \notin {"draft", "published", "withdrawn"}
  \/ v.from # None /\ v.to # None /\ v.from > v.to

Resolved(version)   == [kind |-> "resolved", version |-> version]
Unavailable(reason) == [kind |-> "unavailable", reason |-> reason]
Defective           == [kind |-> "defective"]

ResolveProcedureVersion(catalogue, procedure, day) ==
  LET versions   == VersionsOf(catalogue, procedure)
      published  == {v \in versions : v.state = "published"}
      applicable == {v \in published : Containing(v, day)}
  IN IF versions = {} /\ \A c \in catalogue.candidates : c.procedure # procedure
       THEN Unavailable("unknown_procedure")
     ELSE IF \/ \E v \in versions : MalformedVersion(v)
             \/ \E v, w \in published : v # w /\ WindowsOverlap(v, w) THEN Defective
     ELSE IF Cardinality(applicable) = 1 THEN Resolved(CHOOSE v \in applicable : TRUE)
     ELSE IF published = {} THEN Unavailable("no_published_version")
     ELSE IF \A v \in published : v.from # None /\ v.from > day
       THEN Unavailable("not_yet_effective")
     ELSE Unavailable("no_applicable_version")

-----------------------------------------------------------------------------
(* Selection of a procedure and of the bases of eligibility. *)

SelectProcedure(catalogue, case) ==
  LET matching == {c \in catalogue.candidates : case.verdict[c.when].value = "TRUE"}
      unknown  == {c \in catalogue.candidates : case.verdict[c.when].value = "UNKNOWN"}
  IN IF Cardinality(matching) > 1 THEN Inconclusive("multiple_matching_procedures")
     ELSE IF unknown # {} THEN
       QuestionResult(PickQuestion(catalogue, case, UNION {case.verdict[c.when].missing : c \in unknown}, TRUE))
     ELSE IF matching = {} THEN Inconclusive("no_matching_researched_procedure")
     ELSE [kind |-> "selected", procedure |-> (CHOOSE c \in matching : TRUE).procedure]

\* Material whose trust cannot be asserted is not worth a question.
NotWorthAsking == {"stale", "disputed", "unknown"}

\* A basis is "trusted", shown only as "inconclusive", "idle" or "asked" if it waits
\* for a fact, "bare" if it lacks its evidence (a defect), or "out".  Reachability
\* gates qualification: a basis out of reach asks for nothing.
Qualification(b, case) ==
  IF Verdict(b.reachable, case).value = "TRUE" THEN Verdict(b.when, case)
  ELSE Verdict(b.reachable, case)

Standing(b, case, day) ==
  CASE Qualification(b, case).value = "FALSE" -> "out"
    [] Qualification(b, case).value = "UNKNOWN" ->
         IF FreshnessState(b.trust, b.from, b.to, day) \in NotWorthAsking THEN "idle" ELSE "asked"
    [] OTHER -> IF Assessed(b, day) # "assert_current" THEN "inconclusive"
                ELSE IF SupportingSources(b.links, day, FALSE) = {} THEN "bare" ELSE "trusted"

BasesBy(version, standing, case) ==
  LET In(standings) == {b \in DOMAIN standing : standing[b] \in standings} IN
  [matched      |-> {b.id : b \in In({"trusted", "inconclusive"})},
   trusted      |-> {b.id : b \in In({"trusted"})},
   inconclusive |-> {b.id : b \in In({"idle", "inconclusive"})},
   missing      |-> UNION {Qualification(b, case).missing : b \in In({"asked"})},
   refusal      |-> IF version.bases # {} /\ In({"trusted", "inconclusive", "idle"}) = {}
                    THEN "no_applicable_eligibility_basis" ELSE None,
   defective    |-> In({"bare"}) # {}]

\* Fault: a basis that waits for a fact unlocks what is scoped to it.
SelectBasesEagerly(version, case, day) ==
  BasesBy(version, [b \in {x \in version.bases : Within(x, day)} |->
    IF Standing(b, case, day) = "asked" THEN "trusted" ELSE Standing(b, case, day)], case)

SelectBases(version, case, day) ==
  BasesBy(version, [b \in {x \in version.bases : Within(x, day)} |-> Standing(b, case, day)], case)

-----------------------------------------------------------------------------
(* Content of a version. *)

\* A dependency blocks or is satisfied; untrusted ones are shown as inconclusive.
DependencyStatus(catalogue, d, case, day) ==
  LET target == ResolveProcedureVersion(catalogue, d.target, day).kind IN
  IF Assessed(d, day) # "assert_current" THEN "inconclusive"
  ELSE IF Verdict(d.satisfied, case).value = "TRUE" THEN "satisfied"
  ELSE IF target = "resolved" THEN "blocking"
  ELSE IF target = "defective" THEN "inconclusive"
  ELSE "unsupported_target"

\* The facts it takes to know whether the dependency applies and whether it is met.
Awaited(d, case) ==
  IF Verdict(d.when, case).value = "UNKNOWN" THEN Verdict(d.when, case).missing
  ELSE Verdict(d.satisfied, case).missing

SelectDependencies(catalogue, version, case, day) ==
  LET live    == {d \in version.dependencies :
                    Within(d, day) /\ Verdict(d.when, case).value # "FALSE"}
      current == {d \in live : Assessed(d, day) = "assert_current"}
      unsure  == {d \in current : Awaited(d, case) # {}}
      bare    == {d \in current \ unsure : SupportingSources(d.links, day, FALSE) = {}}
  IN [items     |-> {[id |-> d.id, status |-> DependencyStatus(catalogue, d, case, day)] :
                       d \in live \ (unsure \cup bare)},
      missing   |-> UNION {Awaited(d, case) : d \in unsure},
      refusal   |-> None,
      defective |-> bare # {}]

BasisIds(version) == {b.id : b \in version.bases}
InScope(item, matched) == item.basis = None \/ item.basis \in matched
UnknownBasis(version, items) == \E i \in items : i.basis # None /\ i.basis \notin BasisIds(version)

\* Fault: what cannot be decided does not apply.
GuidanceDecided(live, backed, distrusted, case) ==
  LET certain == {i \in live : Verdict(i.when, case).value = "TRUE"}
  IN [items |-> {i.id : i \in certain \cap backed}, missing |-> {},
      distrusted |-> certain \cap distrusted # {}, inconclusive |-> FALSE]

\* Of the items that may apply: those shown, the facts that others wait for, and
\* whether some are held back because they are not trusted.
Guidance(live, backed, distrusted, case) ==
  LET certain == {i \in live : Verdict(i.when, case).value = "TRUE"}
      unsure  == {i \in live : Verdict(i.when, case).value = "UNKNOWN"}
  IN [items |-> {i.id : i \in certain \cap backed},
      missing |-> UNION {Verdict(i.when, case).missing : i \in unsure \cap backed},
      distrusted |-> (certain \cup unsure) \cap distrusted # {},
      inconclusive |-> ~(unsure \subseteq backed)]

\* A section of the plan: what it shows, and what keeps it from being shown.
Section(guidance, defective, reason) ==
  [items |-> guidance.items, missing |-> guidance.missing, distrusted |-> guidance.distrusted,
   refusal |-> IF guidance.inconclusive THEN reason ELSE None, defective |-> defective]

\* Practical preparation is dropped while it is not known to apply.
SelectChecklistItems(version, case, day, matched) ==
  LET live == {i \in version.checklist :
                 /\ InScope(i, matched) /\ Within(i, day)
                 /\ i.official \/ Verdict(i.when, case).value = "TRUE"}
      backed == {i \in live : /\ Disposition(i.trust, day) = "assert_current"
                              /\ SupportingSources(i.links, day, i.official) # {}}
      distrusted == {i \in live \ backed :
                       i.official /\ Disposition(i.trust, day) # "context_only"}
  IN Section(Guidance(live, backed, distrusted, case), UnknownBasis(version, version.checklist),
             "checklist_applicability_unknown")

SelectSteps(version, case, day, matched) ==
  LET live   == {i \in version.steps : InScope(i, matched) /\ Within(i, day)}
      backed == {i \in live : /\ Disposition(i.trust, day) = "assert_current"
                              /\ SupportingSources(i.links, day, FALSE) # {}}
  IN Section(Guidance(live, backed, live \ backed, case),
             UnknownBasis(version, {i \in version.steps : Within(i, day)}),
             "step_applicability_unknown")

\* The state a fee is shown in; only "known" comes with an amount.
FeeState(f, day) ==
  IF Assessed(f, day) = "assert_current"
  THEN IF f.value = "known" /\ SupportingSources(f.links, day, FALSE) = {} THEN "unverified"
       ELSE f.value
  ELSE IF f.value = "unknown" THEN "unknown" ELSE "unverified"

SelectFees(version, case, day, matched) ==
  LET live   == {f \in version.fees : /\ Within(f, day) /\ InScope(f, matched)
                                      /\ Assessed(f, day) # "context_only"}
      unsure == {f \in live : /\ Verdict(f.when, case).value = "UNKNOWN"
                              /\ Assessed(f, day) = "assert_current"}
  IN [items |-> {[id |-> f.id, state |-> FeeState(f, day)] :
                   f \in {g \in live : Verdict(g.when, case).value = "TRUE"}},
      missing |-> UNION {Verdict(f.when, case).missing : f \in unsure},
      refusal |-> None,
      defective |-> UnknownBasis(version, {f \in version.fees : Within(f, day)})]

\* The warning that guidance is regenerated is product policy and always shown.
SelectWarnings(version, case, day) ==
  {w.id : w \in {x \in version.warnings :
     IF x.role = "regeneration" THEN x.product /\ x.links = {}
     ELSE /\ Within(x, day) /\ Verdict(x.when, case).value = "TRUE"
          /\ Assessed(x, day) = "assert_current"
          /\ IF x.product THEN x.links = {} ELSE SupportingSources(x.links, day, FALSE) # {}}}

\* A destination needs a trusted association and trusted material of the point;
\* what is left open makes the routing partial, and never asks.
Serves(m, day) == Assessed(m, day) = "assert_current" /\ SupportingSources(m.links, day, FALSE) # {}

Reached(a, case, day) ==
  /\ Serves(a, day) /\ Verdict(a.when, case).value = "TRUE"
  /\ a.point # None /\ Within(a.point, day) /\ Serves(a.point, day)
  /\ a.point.availability \in {"available", "unknown"}

SelectServicePoints(version, case, day) ==
  LET live    == {a \in version.associations : Within(a, day)}
      reached == {a \in live : Reached(a, case, day)}
      closed  == {a \in live : Serves(a, day) /\ Verdict(a.when, case).value = "FALSE"}
  IN [destinations |-> {a.id : a \in reached},
      status |-> IF reached = {} THEN "unresolved"
                 ELSE IF version.associations = {} \/ live # reached \cup closed
                 THEN "partially_resolved" ELSE "resolved"]

-----------------------------------------------------------------------------
(* The operation. *)

\* What a part of the plan makes the whole operation answer instead of a plan.
Answered(catalogue, case, part) ==
  IF part.defective THEN ConfigurationInvalid
  ELSE IF part.missing # {} THEN QuestionResult(PickQuestion(catalogue, case, part.missing, FALSE))
  ELSE Inconclusive(part.refusal)

Obstructs(part) == part.defective \/ part.missing # {} \/ part.refusal # None

Applicable(verdict) ==
  [defective |-> FALSE, missing |-> verdict.missing,
   refusal |-> IF verdict.value = "FALSE" THEN "procedure_version_not_applicable" ELSE None]

\* The first part that stands in the way decides the answer.
PlanOf(catalogue, version, case, day, applies, bases, depends, list, steps, fees) ==
  LET parts == <<applies, bases, depends, list, steps, fees>>
      first == SelectInSeq(parts, Obstructs)
  IN IF first # 0 THEN Answered(catalogue, case, parts[first])
     ELSE [kind |-> "plan", version |-> version, bases |-> bases, dependencies |-> depends.items,
           checklist |-> list.items, steps |-> steps.items, fees |-> fees.items,
           warnings |-> SelectWarnings(version, case, day),
           routing |-> SelectServicePoints(version, case, day),
           held |-> (IF list.distrusted THEN {"checklist_items"} ELSE {})
                    \cup (IF steps.distrusted THEN {"steps"} ELSE {})]

\* Guidance is selected for the trusted bases.
PlanWith(catalogue, version, case, day, bases) ==
  PlanOf(catalogue, version, case, day, Applicable(case.verdict[version.applicability]), bases,
         SelectDependencies(catalogue, version, case, day),
         SelectChecklistItems(version, case, day, bases.trusted),
         SelectSteps(version, case, day, bases.trusted),
         SelectFees(version, case, day, bases.trusted))

\* The plan for a version, once a procedure is selected and the version found.
PlanVersion(catalogue, version, case, day) ==
  PlanWith(catalogue, version, case, day, SelectBases(version, case, day))

\* The plan for a procedure that was selected.
PlanSelected(catalogue, resolution, case, day) ==
  CASE resolution.kind = "defective"   -> ConfigurationInvalid
    [] resolution.kind = "unavailable" -> Inconclusive(resolution.reason)
    [] OTHER                           -> PlanVersion(catalogue, resolution.version, case, day)

PlanPrepared(catalogue, selection, case, day) ==
  IF selection.kind # "selected" THEN selection
  ELSE PlanSelected(catalogue, ResolveProcedureVersion(catalogue, selection.procedure, day), case, day)

PlanStateless(catalogue, facts, day) ==
  LET case    == Prepared(facts, day)
      refused == Refused(catalogue.contradictions, facts, day)
  IN IF ~catalogue.active THEN Inconclusive("inactive_service")
     ELSE IF Unsupported(facts) \cup Unborn(facts, day) # {} THEN Invalid(refused)
     ELSE IF \E c \in catalogue.contradictions : Malformed(c) THEN ConfigurationInvalid
     ELSE IF refused # {} THEN Invalid(refused)
     ELSE PlanPrepared(catalogue, SelectProcedure(catalogue, case), case, day)
=============================================================================
