-------------------------- MODULE PublicationClaims --------------------------
(***************************************************************************)
(* What a version claims: checklist items, steps, warnings and fees, each  *)
(* with the rule that says when it applies and the evidence links that     *)
(* support or contradict it.  Claims are judged twice, by code written     *)
(* twice: by the gates when a publisher publishes the version, and by the  *)
(* loader for every request after that, where one claim that is not        *)
(* accepted makes the loader refuse the whole catalogue.                   *)
(***************************************************************************)
EXTENDS Naturals

CONSTANTS Facts, None

-----------------------------------------------------------------------------
(* The rows, as the constraints of their tables let them be.  A rule is the *)
(* set of Facts it names; passage and context say that the link has them.   *)

Trusts == {"current", "needs_reverification", "stale", "disputed", "unknown"}

SourceRows == [classification : {"official", "field_report", "secondary"}, observed : BOOLEAN]

EvidenceLinks == [support : {"supports", "context", "contradicts"}, trust : Trusts,
                  passage : BOOLEAN, context : BOOLEAN, sources : SUBSET SourceRows]

ChecklistItems ==
  [classification : {"official_requirement", "practical_preparation", "candidate"},
   rule : SUBSET Facts, trust : Trusts, links : SUBSET EvidenceLinks]

\* The eligibility basis of a scoped claim: of its own version or of another.
Bases == {"none", "own", "foreign"}

Steps == [rule : SUBSET Facts, basis : Bases, trust : Trusts, links : SUBSET EvidenceLinks]

Warnings ==
  {w \in [id : Nat, role : {"general", "regeneration", "limitation"},
          kind : {"administrative", "product"},
          rule : SUBSET Facts, trust : Trusts, links : SUBSET EvidenceLinks] :
     w.role = "regeneration" => w.kind = "product"}

\* One amount, an ordered range, or nothing, as the state of the value says.
ValidValue(f) ==
  LET single == f.amount # None /\ f.minimum = None /\ f.maximum = None
      range  == f.amount = None /\ f.minimum # None /\ f.maximum # None /\ f.minimum <= f.maximum
  IN \/ f.value = "known" /\ single
     \/ f.value = "range" /\ range
     \/ f.value = "unknown" /\ {f.amount, f.minimum, f.maximum} = {None}
     \/ /\ f.value = "unverified"
        /\ single \/ range
        /\ f.trust \in {"needs_reverification", "stale", "disputed"}

Fees ==
  {f \in [value : {"known", "range", "unknown", "unverified"}, amount : {None} \cup Nat,
          minimum : {None} \cup Nat, maximum : {None} \cup Nat,
          rule : SUBSET Facts, basis : Bases, trust : Trusts, links : SUBSET EvidenceLinks] :
     ValidValue(f)}

Claims == [items : SUBSET ChecklistItems, steps : SUBSET Steps,
           warnings : SUBSET Warnings, fees : SUBSET Fees]

-----------------------------------------------------------------------------
(* The gates. *)

Complete(l) == l.sources # {} /\ l.passage /\ l.context

Supports(l) == l.support = "supports" /\ l.trust = "current" /\ Complete(l)
Contradicts(l) == l.support = "contradicts" /\ l.trust = "current"

Documented(l) == \A s \in l.sources : s.classification = "field_report" => s.observed
Official(l) == \A s \in l.sources : s.classification = "official"

\* A claim that is said to be current needs support and bears no contradiction.
ChecklistGate(i) ==
  /\ \A l \in i.links : Complete(l)
  /\ i.classification = "practical_preparation" => \A l \in i.links : Documented(l)
  /\ i.trust = "current" => /\ \E l \in i.links : Supports(l)
                            /\ \A l \in i.links : ~Contradicts(l)
  /\ i.classification = "official_requirement" /\ i.links # {} =>
       \E l \in i.links : Supports(l) /\ Official(l)

StepGate(s) ==
  /\ s.basis # "foreign"
  /\ \A l \in s.links : Complete(l) /\ Documented(l)
  /\ s.trust = "current" => /\ \E l \in s.links : Supports(l)
                            /\ \A l \in s.links : ~Contradicts(l)

\* What the product warns of rests on no evidence.
WarningGate(w) ==
  /\ w.kind = "product" => w.links = {}
  /\ \A l \in w.links : Complete(l) /\ Documented(l)
  /\ w.trust = "current" => \A l \in w.links : ~Contradicts(l)
  /\ w.kind = "administrative" /\ w.trust = "current" => \E l \in w.links : Supports(l)

NeedsEvidence(f) == f.value \in {"known", "range", "unverified"}
NeedsSupport(f) == f.value \in {"known", "range"} /\ f.trust = "current"

FeeGate(f) ==
  /\ ValidValue(f)
  /\ f.basis # "foreign"
  /\ \A l \in f.links : Complete(l) /\ Documented(l)
  /\ NeedsEvidence(f) => f.links # {}
  /\ NeedsSupport(f) => /\ \E l \in f.links : Supports(l)
                        /\ \A l \in f.links : ~Contradicts(l)

\* Who is guided or charged is told, once, that the guidance can be generated anew.
RegenerationGate(c) ==
  c.steps \cup c.warnings \cup c.fees # {} =>
    \E w \in c.warnings : /\ w.role = "regeneration"
                          /\ \A u \in c.warnings : u.role = "regeneration" => u = w

Rules(c) == UNION {x.rule : x \in c.items \cup c.steps \cup c.warnings \cup c.fees}

\* The claims whose rules decide what a plan contains.
Deciding(c) == {i \in c.items : i.classification = "official_requirement"} \cup c.steps \cup c.fees

Asked(c) == UNION {x.rule : x \in Deciding(c)}

ClaimGates(c) ==
  /\ \A i \in c.items : ChecklistGate(i)
  /\ \A s \in c.steps : StepGate(s)
  /\ \A w \in c.warnings : WarningGate(w)
  /\ \A f \in c.fees : FeeGate(f)
  /\ RegenerationGate(c)

-----------------------------------------------------------------------------
(* The loader. *)

Adequate(links) ==
  /\ \E l \in links : /\ l.trust = "current" /\ l.support = "supports"
                      /\ l.sources # {} /\ l.passage /\ l.context
  /\ \A l \in links : ~(l.trust = "current" /\ l.support = "contradicts")

ItemRead(i) ==
  /\ i.trust = "current" => i.links # {}
  /\ \A l \in i.links : l.sources # {}

StepRead(s) == s.basis # "foreign" /\ (s.trust = "current" => Adequate(s.links))

FeeRead(f) ==
  /\ f.basis # "foreign"
  /\ ValidValue(f)
  /\ NeedsEvidence(f) => f.links # {} /\ \A l \in f.links : l.sources # {}
  /\ NeedsSupport(f) => Adequate(f.links)

WarningRead(w) ==
  /\ w.kind = "product" => w.links = {}
  /\ w.kind = "administrative" /\ w.trust = "current" => Adequate(w.links)

ClaimsRead(c) ==
  /\ \A i \in c.items : ItemRead(i)
  /\ \A s \in c.steps : StepRead(s)
  /\ \A f \in c.fees : FeeRead(f)
  /\ \A w \in c.warnings : WarningRead(w)
=============================================================================
