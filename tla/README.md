# A verification project for Bardi

Bardi is a Django and PostgreSQL application that keeps a curated catalogue of
administrative procedures ("Procedure Versions" with their questions, steps,
checklist items, fees, warnings and evidence), puts versions under editorial
review, publishes them, and plans a citizen's case from what is published. A
React front end asks the questions one at a time and shows the plan.

This directory holds TLA+ modules that model the parts of Bardi whose
correctness depends on the order in which things happen, TLC configurations that
model-check them, and TLAPS proofs of what matters most. Everything is translated
from `src/`; paths below are relative to the repository.

    tlasany M.tla                  parse
    tlc -config X.cfg M.tla        model-check module M
    tlapm M_proofs.tla             check the proofs about module M

`PROJECT.json` lists the components, the runs, the fault of each property (a
mutated definition that makes TLC find the property violated), the source lines
behind every definition, the findings, the hazards and the theorems.

## 1. Inventory of the system

Each part: the state it keeps, its operations, with whom it interacts, what is
hard about it, and what would make it correct. The backend is under
`src/backend`, the front end under `src/frontend`.

### Editorial side (`knowledge/`)

**Publication lifecycle** (`publication.py`). State: `ProcedureVersion.state`
(draft, published, withdrawn), its effective interval, and append-only audit
events. Operations: `publish_procedure_version` locks the version, the Procedure
and every row of the version's aggregate, runs the configured gates, takes a
review decision in memory, recomputes the signature, and updates the state;
`withdraw_procedure_version`. Interacts with every editor of the rows it locks,
with the review workflow (decision and signature) and with the evidence workflow
(open discrepancies). Hard: READ COMMITTED isolation, ten to twenty row locks
per publication, a decision taken some statements before it is used, an
exclusion constraint. Correct when: what is public was gated and reviewed exactly
as it is, it never changes, at most one version of a Procedure is in force on any
day, the audit trail and the state agree.

**Review workflow** (`review_workflow.py`). State: one review policy per version
(accountable author, specialist risks), append-only approvals, each bound to a
signature of the draft. Operations: approve a dimension, approve a specialist
risk, and the publication gate, in solo or independent mode. Hard: approvals go
stale silently when the draft is edited; permissions, author and mode change
between an approval and the publication. Correct when: every published state was
approved, in each scope its policy and the mode call for, by someone who is
neither its author nor its publisher.

**Version aggregate and database guards** (`models.py`, `migrations/`). State: the
rows themselves. `VersionOwnedModel.save/delete` and BEFORE triggers refuse changes
of rows whose owner is not a draft; shared provenance is frozen while any
non-draft version cites it. Hard: both checks read the owner's state without
locking it. Correct when: nothing of a published version changes.

**Evidence workflow** (`evidence_workflow.py`, `evidence_workflow_admin.py`). State:
discrepancies (open or resolved, with a transition history) and append-only
reverifications of a subject's evidence. Operations: open, resolve, reverify;
a publication gate on open discrepancies. Interacts with publication through the
owners' row locks. Hard: evidence is read before the owners are locked and read
again after. Correct when: no record claims to verify evidence it did not cover,
and nothing disputed is published.

**Trust projection** (`evidence_trust_projection.py`,
`evidence_workflow_temporal.py`, `planning/trust.py`). Stateless: replays the
history of discrepancies and reverifications up to a date. Hard: order of
events of one day, cutoffs, precedence of statuses. Correct when: an open
discrepancy is never shown as verified.

**Draft packs** (`draft_packs/`, `draft_pack_admin.py`). State: the live draft with
its evidence, trust and scenarios, an import receipt per version, and signed
confirmation tokens in the hands of editors. Operations: export, inspect (the whole
import, rolled back), import, confirm. Interacts with every editor and publisher:
each import locks all tables with NOWAIT. Hard: retries after a lost answer, packs
and previews made stale by others, trust that rests on other rows, evidence history
that must survive, failures late in a long transaction. Correct when: an import
changes exactly the draft it was made from, into exactly what was shown, attests
nothing, and an answer tells the truth.

**Successor cloning** (`admin_lifecycle.py`): copies a published version to a new
draft under the source's row lock, without its history and with scenarios sealed
again. **Aggregate services** (`services.py`, `aggregate_guard.py`): replace a
service's candidates and question Facts, or a link's sources, under their owner's
lock. **Feature gates** (`planning_scenarios.py`, `fees.py`, `eligibility_bases.py`,
`procedure_dependencies.py`, `service_point_routing.py`, `selection_questions.py`):
models and the publication gates on them. Hard: they read rows that belong to other
versions, to the service and to shared material; the dependency gate looks for cycles
through versions that others publish at the same time. Correct when: what a gate read
still holds when the version becomes public.

**Snapshot composition** (`domain.py`, `snapshot_policy.py`,
`snapshot_validation.py`, `planning_scope.py`, `evidence_workflow_temporal.py`): in one
REPEATABLE READ transaction a request discovers its part of the catalogue, validates
the whole, materialises and projects the evidence history onto it. Hard: one bad row
refuses the catalogue for everybody; a part must answer as the whole would. Correct
when: published versions always load, and a request sees one instant.

**Importers** (`importers/`): each creates a researched package through the ordinary
models, or verifies what exists by digests and seals, and upgrades the scenarios of an
older release. Hard: two runs at once, rows shared between packages, reruns after
publication. Correct when: reruns verify, nothing is overwritten, repetition converges.

**Django Admin** (`admin.py`, `*_admin.py`, `forms.py`): views on the operations above.

### Planning side (`planning/`, `api/`)

**Rules and evaluation** (`rules.py`, `evaluator.py`, `facts.py`,
`case_preparation.py`): three-valued evaluation of applicability rules over answers
and derived facts; contradictions and the facts to blame for them. **Selection and
questions** (`selection.py`, `questions.py`, `versions.py`, `eligibility_bases.py`,
`operation.py`): choose a procedure, the version in force, the bases that unlock
guidance, and the next question. **Content selection** (`checklists.py`, `steps.py`,
`fees.py`, `warnings.py`, `dependencies.py`, `routing.py`, `provenance.py`): which items
are shown, withheld or held back for a fact. All stateless: a request carries every fact
of the case. Hard: unknown facts, inclusive dates, calendar arithmetic, termination of
the dialogue. Correct when: what is shown or refused stays right however the open facts
turn out, and nothing that may concern the citizen disappears without a mark.

**Public API** (`api/`): a stateless request handler, and a fixed-window **rate limiter**
(`rate_limit.py`) with a table of counters under one lock.

### Front end and operations

**Questionnaire and tab case** (`frontend/src/planning`, `frontend/src/api/client.ts`).
State: the case of the tab (facts, the order in which they were asked, the date), what the
session storage keeps of it, the requests in the air, a deadline set by the server, flags
of the document. Operations: answer, change, correct, set the date, retry, clear, mount,
unmount, reload. Hard: late answers, several mounts that share one case, storage that
fails, clearing on another page. Correct when: a result is only shown for the case it is
about, cleared answers stay away, the deadline holds, loading ends.

**Local sandbox** (`core/local_sandbox.py`, `core/local_database.py`,
`core/sandbox_state.py`): development containers and processes.

## 2. Plan

Modules, in the order in which they are written:

| Module | Models | Composes or refines | State |
|---|---|---|---|
| `VersionLifecycle` | abstract lifecycle of versions and frozen snapshots | | written |
| `Publication` | publish, withdraw, approve, edit, discrepancies and crashes as interleaved transactions | implements `VersionLifecycle` | written |
| `Publication_proofs` | theorems on `Publication`, and the refinement | extends it | written |
| `TrustProjection` | the replay of an evidence history, its overlay on what was authored, the assessment of material on a date: operators only | | written |
| `EvidenceHistory` | abstract history of discrepancies and reverifications, and what it shows | extends `TrustProjection` | written |
| `EvidenceWorkflow` | open, resolve, reverify and the Admin form as interleaved transactions, with the publication gate's own locks | extends `TrustProjection`, implements `EvidenceHistory` | written |
| `EvidenceHistory_proofs`, `EvidenceWorkflow_proofs` | theorems on them, and the refinement | extend them | written |
| `PlanningRules` | rules, three-valued evaluation, derived facts, contradictions: operators only | | written |
| `PlanningEngine` | selection, versions, bases, questions, content, `plan_stateless`: operators only | extends `PlanningRules`, `TrustProjection` | written |
| `TabCase` | what answers, changes, corrections and dates do to a case, and its storage: operators only | | written |
| `PlanningDialogue` | the questionnaire and the planner together | extends `PlanningEngine`, instantiates `TabCase` | written |
| `PlanningDialogue_proofs` | theorems on `PlanningDialogue` | extends it | written |
| `Questionnaire` | mounts, requests, deadlines, clearing and reloading | extends `TabCase` | written |
| `Questionnaire_proofs` | theorems on `Questionnaire` | extends it | written |
| `DraftImport` | packs, imports, retries, confirmations, editors, publishers and cloning over one draft | | written |
| `DraftImport_proofs` | theorems on `DraftImport` | extends it | written |
| `Importers` | importers of packages against each other and editors | | written |
| `Importers_proofs` | theorems on `Importers` | extends it | written |
| `PublicationClaims` | claims and their evidence, judged by the gates and by the loader: operators only | | written |
| `Catalog` | publishers of several services, editors of what they share, requests that load it | extends `PublicationClaims` | written |
| `Catalog_proofs` | theorems on `Catalog` | extends it | written |

Each `MC` module gives its module's constants for TLC; a component with several
instances has several `.cfg` files.

What is proved, and what is not. Every safety property of the passing runs is a theorem, for
every value of the constants that satisfies the named assumptions, and so are both
refinements. Liveness stays with TLC: `DialogueEnds`, `LoadingEnds` and `ImportsConverge`. The
safety core of the first is proved: every question is progress (`QuestionsAlwaysAdvance`).
That every transaction ends is no property of the code: transactions can wait in a circle, and
what is checked and proved is where circles can be (`DeadlocksNeedTheGates`, in two modules).

Some properties say what recursion computes: replay over a history of any length, evaluation
and the reference over rules of any depth, completions over any facts. The library's
induction theorems take an operator as a parameter and cannot be cited, and a recursive
function equals its recursive equation only if that equation has a solution. The proofs
supply both: a solution is put together from those on smaller domains, and induction is done
with sets, on the smallest number, the smallest domain or a rule none of whose parts is left
(`RuleInduction`, from `RulesAreValid`).

## 3. Publication

### State and actions

Every operation is a transaction `t \in Txns` cut at the statements that wait for a
row lock. Committed rows are in `db`, `state`, `window`, `discrepancy`,
`permission`, `approvals` and `audit`; what a transaction carries is in `job`
(its arguments), `seen` (a signature) and `accepted` (approvals); locks are
functions from rows to their holder, released by `Finish`, which is COMMIT as well
as ROLLBACK.

| Code | Actions |
|---|---|
| `publish_procedure_version` | `PublishLockVersion`, `PublishLockProcedure`, `PublishLockRow` (one step per row, in the code's order), `PublishGraph` (the cycle check of the dependency gate finds its rows), `PublishLockDependency` and `PublishLockDependent` (one step per row that it locks), `PublishDecide` or `PublishReject`, `PublishConfirm` (second signature), `PublishTransition` (UPDATE, exclusion constraint, audit event) |
| `withdraw_procedure_version` | `WithdrawLockVersion`, `WithdrawTransition` |
| `approve_review_dimension`, `approve_specialist_risk` | `ApproveLockVersion`, `ApproveLockPolicy` or `ApproveRefuse`, `ApproveRead` (one step per row read), `ApproveRecord` |
| `save()` and `delete()` of a row | `WriteBegin` (the Python guard), `WriteStatement` or `WriteRefuse` (row lock, then trigger), `WriteCommit` (deferred foreign key) |
| `ProcedureVersion.save()` | `ReviseWindow`, one statement |
| evidence workflow, as publication sees it | `OpenDiscrepancy` (service or Admin form: either needs an evidence row of the version that nobody holds), `ResolveDiscrepancy` |
| user administration, failures | `SetPermission`, `Crash` |

The behaviour of PostgreSQL is modelled from how the code uses it: a row lock is
exclusive until the end of the transaction; `SELECT ... FOR UPDATE` waits and then
sees the committed row; an uncommitted insertion is invisible to it and locks its
key; the deferred foreign key of an insertion takes KEY SHARE on its owner at
COMMIT, which waits for a FOR UPDATE holder and succeeds if the owner still exists.

The cycle check (`procedure_dependencies.py:328-336`) is one `SELECT ... FOR UPDATE` over the
dependencies of the version and of every published one, joined with their versions by
`select_related` and with no `of`: PostgreSQL finds the rows in a snapshot (`job.graph`) and
then locks of each the dependency and the version it is part of, in the order of `GraphRank`.
A version that is withdrawn while the check waits for it is locked all the same, and then
passed over. The gates before it run on the locks that the publisher took first, so
`PublishDecide` reads everything at the end; all gates run, whatever an earlier one found.

Data is abstract: a row is a member of `Values` (of which `Sound` pass the content
gates) or a policy `[author, risks]`; the signature, an injective digest, is the
digested state itself. Rows that the version owns and rows of shared provenance
are told apart by `Owners` and `Shared`.

Simplifications a reader should know: a writing transaction saves one row (an Admin
form with inlines saves several, so deadlocks among such forms are not in the
model); the first `SELECT ... FOR UPDATE` of a publication, which also locks the
Procedure through `select_related`, is two steps here; which version cites which
shared row is fixed; the pre-selection rows (candidates, questions, contradictions),
which are signed but have no owner, and the deletion of a draft are left out;
permissions of reviewers may be revoked between the gate and the commit, as in the
code, and no property forbids it. Of the locks that gates take, only those of the cycle check
are here. The routing gate locks contacts and hours of service points
(`service_point_routing.py:451`), the discrepancy gate disputed evidence (section 4), the
review gate its reviewers; a publisher that waits for one of these has its gates running, and
whoever waits in a circle with it is covered by what `DeadlocksNeedTheGates` says.

### Runs

| Run | Instance | Shows |
|---|---|---|
| `review` | independent mode, one draft with an item and a policy, two transactions, two users either of whom may be the author | `TypeOK`, `PublishedContentPreserved`, `PublishedStateReviewed`, `ApprovalsOfDraftsByOthers` |
| `capture` | solo mode, a policy that may have a risk or none, two approvals | `AuditIsTrue` (`AuditTellsState` and `AuditCapturesOnlyConsumed`) |
| `overlap` | two versions of one Procedure citing one source, one of them with a dependency on another Procedure; either row may be unsound, the evidence of the dependency disputed; three windows that touch or are apart | `OneVersionInForce`, `GatesHoldAtCommit`, `ImplementsLifecycle`, `DeadlocksNeedTheGates` |
| `aggregate_closed` | one draft | finding: `PublishedAggregateClosed` fails |

Bounds. Two transactions are enough for every race between a publication and one other
operation, and operations follow each other freely, so a race with the residue of any number of
earlier operations is covered. A circle needs two as well; `DeadlocksNeedTheGates` is proved for
any number. `MaxApprovals` (at most 2) lets two scopes be approved, or one scope in two states.
`TouchingDays` has a window open on the left, a closed one and one open on the right; neighbours
share a boundary day, the outer two do not overlap. `None` is SQL NULL, an open end. Symmetry is
used for transactions, and in `review` for row values; no run of this module checks liveness.

`overlap` reaches the circles that `DeadlocksNeedTheGates` allows: who withdraws or publishes
again the published version holds it and waits for the Procedure, which a publisher holds whose
cycle check waits for the version. Its one user is the author, so approvers are refused after
they waited; one that is not waits for nothing after that. The dependency itself may be inserted
into a version that is published meanwhile (the finding below), and is then locked by the next
cycle check.

`CHECK_DEADLOCK` is on in each of these runs, which says little here: new operations can
always start, so transactions that wait for each other show in `DeadlocksNeedTheGates` only.

### What is proved

`Publication_proofs.tla`, for every value of the constants that satisfies
`ConstantsAssumption` and `MarkersAssumption` (which TLC evaluates on every run):

| Theorem | States | Argument |
|---|---|---|
| `TypeCorrect` | `Spec => []TypeOK` | one step per action; `InHand` ties a transaction's place to what it carries |
| `LocksExclude` | `[]LockDiscipline` | `TypeOK /\ LockDiscipline` is inductive: a publisher keeps its version, and once the gates began, all rows of it; a writer past its trigger keeps its row, whose owners are drafts |
| `DecisionsAreFinal` | `[]DecisionsStand` | under `LockDiscipline` no step of another transaction or of the environment changes a decided version (`DecidedVersionFrozen`): writers need the rows, insertions and windows need the version, discrepancies the evidence row they are anchored to |
| `ContentPreserved` | `[]PublishedContentPreserved` | invariant `Preservation`: every version with a publication event is no draft any more, and its rows are as signed; writers past the trigger only hold rows of drafts |
| `GatesHold` | `[][...]` of `GatesHoldAtCommit` | from `DecisionsStand` at the transition, and the exclusion constraint |
| `PublicationsReviewed` | `[]PublishedStateReviewed` | invariant `Review`: what a publisher is about to record is already reviewed (`DecisionsReviewed`), approvals are never removed |

`LockDiscipline` is what the rest hangs on: none of the later invariants is inductive
without it, because the code reads the owner's state without locking it and is
saved by the row locks.

`DecisionsAreFinal` also says something about the code: the comparison of
signatures after the gates (`publication.py:560`) never fails for the rows modelled
here. It is a safeguard and not needed for correctness.

`LockDiscipline` and `DecisionsStand` are invariants of the proofs and are no
properties of a run: they say how the code gets its results, the runs check the results.

`Publication_proofs.tla` goes on from these, with `CalendarAssumption` (dates are integers)
where days are compared:

| Theorem | States | Argument |
|---|---|---|
| `OneInForce` | `[]OneVersionInForce` | `PublishedApart`, windows of published versions of one Procedure do not overlap, is kept by the exclusion constraint at the transition; inclusive ends and NULLs are compared once, at the end |
| `AuditIsKept` | `[]AuditIsTrue` | `AllTold`: a version has exactly the events its state tells, because only the two transitions write either (`LifecycleSteps`); and `DecisionsCalledFor`: what a publisher has accepted was called for by the mode and by the policy it signed |
| `ApprovalsByOthers` | `[][...]` of `ApprovalsOfDraftsByOthers` | `Approving`: an approver holds the version from the start, and the policy from the check of its author to the record |
| `LifecycleImplemented` | `Spec => ImplementsLifecycle` | a publication by a transaction is the abstract one of the live snapshot, and every other step leaves the snapshots of what is public alone, by `PublishedContentPreserved` and `TypeOK` |
| `DeadlocksGoThroughTheGates` | `[]DeadlocksNeedTheGates`: a set of transactions in which each waits for another of it, whatever its size, has a publisher whose gates are running | `HoldsInOrder`: what a transaction may hold where it stands, and that before its gates a publisher holds no row behind one it still has to lock. Rows to lock never become more, since an insertion needs the version that the publisher holds (`NothingComesToLock`); approvers wait only for writers of the policy, who wait for nobody; so a circle without gates is one of publishers that fight for shared rows, and one of these rows is last in the order |

The last theorem needs `LockOrderAssumption`: the rows of provenance are finitely many and
have one lock order, table by table and by key within a table (`publication.py:670-764`). It
says that this order keeps what it promises; two ways to break it that the code avoids, rows
locked in an order of each publisher's own and a publisher that waits for uncommitted
insertions, both violate it. `NeverDeadlocked`, that there are no circles at all, does not
hold (section 10). PostgreSQL ends a circle by failing one of its statements. If that is the
publisher's, the savepoint around each gate (`publication.py:544-557`) turns it into the
diagnostic `gate_execution_failed` and the publication is refused; `Crash` or `PublishReject`.

## 4. Evidence: workflow, history and projection

Three modules. `TrustProjection` holds the pure part as operators: `Replay` (the loop of
`project_evidence_trust`, a fold over the events in the code's order), `FinalState`
(an open discrepancy decides), `Overlaid` and `AssessTrust` (the early returns of
`planning/trust.py`). `EvidenceHistory` is the abstract specification: events are only
added, a discrepancy is opened once and resolved at most once and not before, and its
properties say without any replay what must be shown for an item on a day.
`EvidenceWorkflow` is what the code does: transactions, locks and tables. It implements
`EvidenceHistory` under the mapping `history <- Captured`, the rows that
`_captured_history_as_of` reads.

### State and actions of `EvidenceWorkflow`

Tables are in `state`, `owners`, `evidence`, `discrepancies`, `transitions` and `reviews`;
the clock is `now`, a day has `InstantsPerDay` instants. A transaction that has made its
changes keeps them in `job[t].made` until its COMMIT, where they become visible; they
carry the time at which they were made.

| Code | Actions |
|---|---|
| `open_evidence_discrepancy` | `OpenBegin` (reads), `LockNext` (versions, then links), `OpenRecord` or `OpenRefuse` (read again under the locks), `OpenCommit` |
| `resolve_evidence_discrepancy` | `ResolveRecord` (the discrepancy's lock), `DiscrepancyCommit` |
| `record_evidence_reverification` | `ReviewBegin`, `LockNext`, `ReviewRecord` or `ReviewRefuse`, `ReviewCommit` |
| Admin form of a discrepancy | `AdminOpen`, `OpenCommit`; `AdminRead` (form and `clean`), `AdminNotice` (the `pre_save` signal reads the status), `AdminUpdate` (UPDATE of every field) or `AdminRefuse` (unique constraint), `DiscrepancyCommit` |
| publication | `PublishBegin`, `LockNext`, `PublishGraph` (which dependencies the cycle check finds), `LockNext` (those and their versions), `PublishGate` (which discrepancies are open), `LockNext` (those and their anchors), `PublishDecide`; `Withdraw` |
| editors of drafts | `AddEvidence` (the statement with its trigger), `CommitEvidence` or `LoseEvidence`; `RemoveEvidence`, `Associate`, `Dissociate` |
| time, failures | `Tick`, `Crash` (a lost connection or the victim of deadlock detection) |

Two gates lock rows of other versions, after the publisher's own. The discrepancy gate's
query is `SELECT ... FOR UPDATE` over discrepancies joined with their anchors by
`select_related`, the cycle check's (`procedure_dependencies.py:328-336`) the same over
dependencies joined with their versions. PostgreSQL finds the rows in a snapshot and locks
each, which is why `PublishGate` and `PublishGraph` remember the set (`job.gate`, `job.graph`)
and the steps after them lock one row each (`GateRows`, `GraphRows`), looking at the row as it
then is.

An insertion of evidence is a transaction of its own (`inserting`). Its trigger reads the state
of the item's owners without a lock; its COMMIT, for the deferred foreign keys, waits for
whoever has locked the item or a cited source, and reads no state again. So the evidence of an
item may grow after the item was published, and between the second reading of a reverification
(`evidence_workflow.py:508`) and its commit. The variable `late` remembers for each
reverification what came that way; it is history, and no guard reads it.

A link that was deleted does not come back (`spare` holds those that never existed): keys
are not reused, and a job that has read a key can only find it missing. `Wanted(t)` is the
row a transaction waits for, also at the COMMIT of an opening, whose foreign key needs the
anchor.

Simplifications. Publication is cut down to the rows it shares with the workflow
(`Publication` has the rest). Which sources a link cites and which version a dependency is
part of are fixed. `Withdraw` is one step: the circle it can be part of is in `Publication`.
`Associate` does not wait for the service point's own row locks, so the model has more
behaviours than the code. The evidence rows
that the Admin form lets an editor add beside a discrepancy are left out. Replayed events
are those of one item; the code replays all and groups them. The code's cutoff is a date in
UTC, the project's `TIME_ZONE`. Primary keys are the least number above those in use,
which are the orders a sequence without gaps gives; crashes leave gaps that change no order.
`Guided` covers trust and leaves the applicability and contradictions of sources out.

### Runs

| Run | Instance | Shows |
|---|---|---|
| `trust_history` | two discrepancies, two reviews, two instants on two days | `ShownIsEstablished` (`OpenNeverMasked` and `GuidanceIsEstablished`), `LaterEventsDoNotCount`; and, of any material with any of five dates on any of four days, `AssessmentIsExact` (`AssertedExactlyWithin` and `ContextStays`) |
| `reverification` | one item with two links, two versions of a Procedure that may share it, two days | `ReverificationsStand`, `PastIsSettled` |
| `discrepancy_gate` | two Procedures, shared service point material, one source, a dependency of one version, one discrepancy with room for three transitions, no reviews | `NothingDisputedIsPublished`, `DeadlocksNeedTheGates`, `ImplementsHistory` |

Bounds. `Discrepancies`, `MaxTransitions`, `MaxReviews` and `MaxNow` bound how much is
recorded. Two discrepancies, which the masking of one by the other needs, and two reviews
are in `trust_history`, where transactions cannot matter because of the refinement; the
refinement is checked where discrepancies are opened and resolved by services and forms,
`MaxTransitions = 3` leaving room for a transition too many, and not where reviews are
recorded, which the theorem covers. `PastIsSettled` is checked
over two days with a review that edits, publication and association may overtake; that
discrepancies settle alike is `LaterEventsDoNotCount` of `trust_history`.
`MaterialDates` has three dates that may be before, on or behind each other and the
day. `trust_history` runs out of events, so `CHECK_DEADLOCK` is off there; in
`EvidenceWorkflow` editing never ends.

What these runs do not say: `PastIsSettled` has a premise. An event carries the time of its
statement, not of its commit, so a transaction that spans midnight changes what the day
before shows. The property states what remains true: once nothing made on a day awaits its
commit, that day is settled.

`ReverificationsStand` does not say that a reverification covers all the evidence its item has
at its commit, because that is not so (`ReverificationsComplete`, section 10). It says that all it
names is still the item's evidence, and that what it misses was committed to a public item after
the evidence was read again; evidence of an item none of whose versions is public is never missed.

`NothingDisputedIsPublished` speaks of discrepancies without a resolved transition: a
discrepancy that a form has set back to open (`ResolvedStaysResolved`, section 10) can do
so behind the gate.

### What is proved

From `WorkflowAssumption`, `DayAssumption` and, for waiting, `LockOrderAssumption` (each row
has its own place in the code's order, versions first), for any number of transactions,
versions, links and discrepancies. `EvidenceWorkflow_proofs.tla` has one inductive invariant,
`RecordsInv`, whose parts need each other:

- `TypeOK`, `AllHold`: which rows a transaction holds at each place;
- `RecordsAgree`: a discrepancy, its anchor and its recorded transitions belong together;
- `AllFit`, `KeysDiffer`: what is about to be committed fits what is recorded by then, though
  others commit meanwhile: a resolution is the only one because the discrepancy's lock is
  held, a form that writes an old status back finds its resolution on record;
- `AllSaw`: once the gate has looked, what it did not find open on its material is resolved,
  because the publisher holds the material that a new discrepancy would be anchored to;
- `AllStand`: what a reverification is about to record holds, by the locks on its owners
  and its successor, and what it does not name came late.

| Theorem | States |
|---|---|
| `WorkflowTyped` | `[]TypeOK` |
| `GateKeepsOut` | `[][...]` of `NothingDisputedIsPublished` |
| `ReviewsStandOnEvidence` | `[][...]` of `ReverificationsStand`: links are only removed from drafts, and the item is none from the second reading on; an insertion that commits meanwhile is entered in `late` |
| `HistoryImplemented` | `Spec => ImplementsHistory`: every commit is one abstract event, everything else a stutter |
| `PastStaysSettled` | `[][...]` of `PastIsSettled`: a new event is one that was pending, at its own time |
| `DeadlocksGoThroughTheGates` | `[]DeadlocksNeedTheGates`: `AllAscend` says that nobody outside the two gates holds a row behind one it still needs; of the rows that a circle fights for one has the highest rank, and who holds it waits for none of them |

`EvidenceHistory_proofs.tla` proves `EarlierDaysStand` (`LaterEventsDoNotCount`: the cutoff
removes the new event before anything is replayed), `AssessmentHasNoGaps`
(`AssessmentIsExact`, case by case through the early returns) and
`HistoryEstablishesWhatIsShown` (`[]ShownIsEstablished`). The last one says what `Replay`
computes for a history of any length. Its recursion has a solution, one event after the other
in the order of instants, kinds and keys, and an induction on the number of events replayed
shows that the result is the verification of the last event for whatever it changes and that
exactly the discrepancies opened and not resolved are open. That needs
`RecordsAreReplayable`, an invariant of the workflow: the order of the records is strict, and a
resolution follows the one opening of its discrepancy. The assumptions are
`HistoryAssumption` (instants and keys are numbers, outcomes are states) and `DayAssumption`
(days of instants are monotone; `None` is no state).

## 5. Planning

`PlanningRules` and `PlanningEngine` are pure: operators that take a catalogue, facts and a
day, as the code's functions do. Rules are decoded trees; `Evaluate` is a recursive function
over them: each rule's truth value, the missing facts and the facts that decided.
`Prepared` derives facts (ages, deadlines in calendar months) and keeps what every rule says
of them; `Refused` is contradictions with the facts to blame. `PlanStateless` follows
`plan_stateless` from refusals over selection and version to the parts of a plan
(applicability, bases, dependencies, checklist, steps, fees). A part that is defective, waits
for facts or refuses stands in the way (`Obstructs`), and the first one decides the answer
(`PlanOf`): that is the order of the code's early returns, and it decides which question is
asked. The code computes a part only when the earlier ones let it pass; the operators have no
effects, so computing all of them gives the same answer.

`TabCase` is what the front end does to a case (`state.ts`, `storage.ts`), also pure.
`PlanningDialogue` joins the two: its state is the catalogue, the day, the case's `facts`
and `history`, and the `result` of the last request.

| Code | Actions |
|---|---|
| `submitAnswers` and a request | `Answer`: any non-empty part of what was asked, known fields may be given differently or left out |
| `rewindCase` and a request | `Change`: back to an entry that the review list shows |
| `correctDiagnostics` and a request | `Correct` |
| another evaluation date | `UseDate` |

The reference is the *completions* of a case: every full assignment of the facts that
agrees with what was submitted and is not refused. `Holds` evaluates a rule in the ordinary
two-valued way there, without the engine's three values, and the properties compare.

| Run | Instance | Shows |
|---|---|---|
| `planning` | some 250 small catalogues, each with one feature in many forms (candidates, branching questions, defects, successive versions, checklist, bases, fees, steps, dependencies, places), five source facts, five derived ones, two days around a leap day | `HistoryIsUsable`, `ShownGuidanceStands`, `NothingSilentlyDropped`, `RefusalsStand`, `BlamedFactsSuffice`, `VersionInForceIsUsed`, `DialogueEnds` |

Bounds. Nothing is bounded but the catalogues and the values: the state space is finite
(9044 states) because a case holds each fact once. Each family of catalogues in `MCPlanning`
varies what its property depends on: rules with facts that are unknown, derived or both;
material that is trusted, due, stale or disputed with every kind of evidence; windows that
touch, meet or overlap. The family of a feature does not contain the others, so interactions
of, say, fees with dependencies are not covered, except for bases, which gate steps and fees.

Fairness. `WF_facts(Reply)`: a citizen who is asked replies in the end, giving something
new. `DialogueEnds` makes an exception for citizens who keep reconsidering. `CHECK_DEADLOCK`
is off: a dialogue may end with a plan and nothing to change.

Left out: a request for a historical version (`historical_version_id`), the verification
sources of routing, the display field `relation`, a dependency without `satisfied_when`,
incompatible definitions of derived facts, dates beyond the year 9999, totals and wording. A
fee of state "range" is a known one.

### What is proved

The theorems hold for any catalogues, rules, facts and days, under three assumptions:

- `RulesAreValid`: every rule is one node of a finite tree and passes `WellFormedNode`, which
  is the decoder's contract (`validate_rule_v1`, `rules.py:97`);
- `DefinitionsAssumption`: there are finitely many facts, and the definition of a derived one
  says so (`derived_definition_is_compatible`, `case_preparation.py:65`);
- `CataloguesAssumption`: a catalogue has finitely many versions and candidates, whose rules
  are such rules and whose dates, like the days, are integers or absent; priorities and keys of
  questions are numbers (`models.py:451`); the items of a section have different identifiers
  (unique constraints, e.g. `models.py:1093`).

| Theorem | States | Argument |
|---|---|---|
| `PlansUseTheVersionInForce` | `[]VersionInForceIsUsed` | the result answers the case as it is (`ResultIsCurrent`); a plan, or a refusal for want of a version, comes from one resolution for a candidate (`ResultsAreAboutTheVersion`, through every early return); that resolution, which compares windows by their ends, is exact day by day (`ResolutionIsExact`) |
| `HistoryStaysUsable` | `Spec => HistoryIsUsable` | `HistoryFits`, every known fact was asked by an entry; each of the citizen's steps goes back to before one entry and may ask one question (`Steps`), from which both parts follow |
| `ShownGuidanceStandsAlways` | `[]ShownGuidanceStands` | `Evaluate` and `Holds` satisfy their recursive equations (`EvaluateIsRecursive`, `HoldsIsRecursive`); then, by induction along rules, a verdict that is not unknown is the two-valued truth in every case with those facts (`VerdictsAreSound`), also after deriving facts, since whatever is derived from some facts is derived from more (`PreparedCasesAgree`). The result comes through every early return (`ResultsRestOn`, `PlansRestOn`), and what each part of a plan shows rests on such verdicts (`BasesStand`, `ChecklistStands`, `StepListsStand`, `FeesStand`, `DependenciesStand`) |
| `NothingIsSilentlyDropped` | `[]NothingSilentlyDropped` | the same lemmas from the other side: what applies in a completion has a verdict that is true or unknown, and an unknown one would have asked, refused or marked the section |
| `RefusalsStandAlways` | `[]RefusalsStand` | a refusal names the first part in the way (`Refusing`), whose verdicts stand in every completion; that several procedures fit counts the candidates with true verdicts |
| `BlamedFactsSufficeAlways` | `[]BlamedFactsSuffice` | by induction along rules, the facts that decided a verdict give the same verdict alone (`DecidedFactsDecide`), with derived facts traced back to what they are derived from |
| `QuestionsAlwaysAdvance` | `[]QuestionsAdvance`: every question is of the catalogue and resolves a fact not known yet | no verdict misses a fact that has a value (`MissingFactsHaveNoValue`), and the pick by priority and key exists and resolves one of the missing (`FirstQuestion`, `PartsWaitForFacts`) |

`HistoryIsUsable` says of changes what the program does keep. Its texts promise more, that
no answer outlives what it was asked on (`AnswersFitTheirQuestions`), and that fails: section
10. An answer can go from under the entries that stay when a later entry that asked for it
again is changed, and then come back different.

The run has one feature in each catalogue; the theorems have no such limit, so they cover
fees with dependencies, bases with steps and every other combination. With TLC stays
`DialogueEnds`, which is liveness.

## 6. Questionnaire

State: `tab` (the case, whether it is idle, the last failure, whether a server deadline is
running, a notice), `doc` (flags of the document that survive mounts), `owner` and `mounted`,
`view` (what the owner shows), `flights` (requests in the air, live until cancelled) and
`stored` (the session storage). `Planner` is the server, a constant operator: its answers
are those of section 5.

| Code | Actions |
|---|---|
| effects of a mount, `attach`, `release` | `Attach` (a new mount takes the case over), `Release` (an old cleanup may run late) |
| `run` and its callback | the operator `Run`; `SettleLive`, `SettleStale` (an answer or a failure arrives for a request that counts, or no longer does) |
| submit, retry, change, correct, date controls, clear | `Answer`, `Retry`, `Change`, `Correct`, `EditDate`, `UseDate`, `UseToday`, `ClearCase` |
| the privacy page's control | `ClearTabCase` |
| browser and time | `Reload`, `DeadlinePasses` |

Each access to the storage may be refused at any time: `Save`, `Load` and `ClearStorage` of
`TabCase` give the set of outcomes, so partial failures (cleared in memory, not in the
storage) are ordinary behaviours.

| Run | Instance | Shows |
|---|---|---|
| `questionnaire` | two mounts, two services, one fact, two dates, a planner that asks, plans, refuses and blames | `ViewIsCurrent` (`ShownIsCurrent` and `LoadingIsLive`), `ClearingLasts` (`PrivacyClearIsFinal` and `ReloadFindsTheCase`), `DeadlineHeld`, `LoadingEnds` |

Bounds: `MaxFlights = 2` keeps a superseded request beside the live one; a third changes
nothing, since all superseded ones are ignored alike. Two mounts are what "superseded"
needs. Fairness: `WF_vars(SettleLive)`, because the client ends each request with a deadline
of its own (`client.ts`). A request that was cancelled need never be answered.

### What is proved

`Questionnaire_proofs.tla`, for any pages, services, dates, values, numbers of requests and
any `Planner`. The inductive invariant `Sound` is `ViewIsCurrent` and

- `Shapes`: the fields of the tab, the document and the requests;
- `ClearedIsIgnored`: what the privacy page cleared and could not remove is behind a flag of
  the document, and is not the case of the tab;
- `StorageAgrees`: a tab without a notice of trouble is what the storage holds, and the flag
  that the next mount starts idle is only up while the storage is ignored, and empty unless
  clearing it failed;
- `WaitingIsQuiet`: while a deadline runs no request is live, which is why an answer cannot
  end the wait early.

From it: `OwnerSeesItsOwnCase` (`ViewIsCurrent`), `ClearedStaysAway` (`ClearingLasts`) and
`NothingBeforeTheDeadline` (`DeadlineHeld`). Model-checked only: `LoadingEnds`, liveness.

## 7. Draft packs and cloning

State: `db` (a published source version, the draft, one row of the shared catalogue, and
`other` for all unrelated rows), whether an editor's transaction is open (`editing`), what a
clone has read (`cloning`), the import that holds the tables (`importer`), what each client
holds (a pack and a confirmation token) and the answer of the step (`reply`).

| Code | Actions |
|---|---|
| export, composing a pack | `Prepare`: the live draft, or the source's content as a new version, with at most one change |
| inspect, import, confirm | `Begin` (locks with NOWAIT, retry recognition, revision and precondition checks), then `Write` (reconciliation, late refusals, receipt; an inspection rolls back and leaves a token) |
| failures | `Crash`; a lost answer is any further `Begin` with the same pack |
| editors in the Admin | `Open`, `Commit` (a row, its trust, its history, a scenario, publication, a shared row, an unrelated row) |
| `clone_published_procedure_version`, withdrawal | `CloneBegin`, `CloneCommit`, `Withdraw` |

Trust of a row and of its links is one flag; a digest is the digested content; a refusal of
NOWAIT is a step that changes nothing. Left out: permissions, identity mismatches, the list
of manual actions, the dependency check of an import, and dependency closures, which are
folded into the shared row and `other`. A cloned successor starts without the open
discrepancies of its source.

| Run | Instance | Shows |
|---|---|---|
| `draft_import` | two clients, a basis and a claim that may be scoped to it, two texts, one passage | `ImportWritesOnWhatItSaw`, `AnswerIsTrue`, `ImportsAttestNothing`, `HistoryAndRisksKept`, `ConfirmDoesWhatWasShown` |

`MaxWork = 2` bounds packs and transactions of editors *together*: a pack against one edit,
or two packs against each other; imports, retries, confirmations and crashes are unbounded.
`CHECK_DEADLOCK` is off because the bound ends some behaviours.

### What is proved

`DraftImport_proofs.tla`, for any number of clients, claims, texts, passages and editors'
transactions, from `PartsAssumption` and `AbsenceAssumption` (`None` is no row, text or
token). The inductive invariant `Consistent` is

- `Typed`, and `BasesAlone`: no basis is scoped to a basis, in the database or in a pack;
- `Undisturbed`: while an import holds the tables no editor and no clone is at work and the
  checks it began with still pass: this is where the table locks are used, without it nothing
  read at `Begin` could be relied on at `Write`;
- `ReceiptsTell`: the revision in a receipt has in place what its request asked for, so a
  retry that finds the live draft at that revision may answer "applied";
- `TokensTell`: a token carries the database that was inspected and what the pack makes of it,
  so a confirmation whose precondition still holds does what was shown.

| Theorem | States (`Spec => ...`) |
|---|---|
| `ImportsKnowWhatTheyOverwrite` | `ImportWritesOnWhatItSaw` |
| `AnswersAreTrue` | `AnswerIsTrue` |
| `PacksAttestNothing` | `ImportsAttestNothing` |
| `HistoryAndRisksStay` | `HistoryAndRisksKept` |
| `ConfirmationsDoWhatWasShown` | `ConfirmDoesWhatWasShown` |

The first part of the proofs states once what an import makes of a row, a scenario, a
version and the database (`RowsAfter`, `ScenarioAfter`, `VersionAfter`, `DatabaseAfter`); the
action properties are read off it.

## 8. Importers

State: whether the code's fact definitions are published, the shared rows (authorities,
sources, material; a package's questions and candidate), the versions with their text,
trust, state and sealed scenarios, the running jobs, and `accepted`: the packages that were
accepted and not edited since. A command is two steps, `Begin` (what it read, READ COMMITTED)
and `Finish` (what it commits): between them other importers and editors commit, and a row
that another creator has committed fails on its unique identity (`Collides`). Verification
holds the rows of the versions (`Locked`). Editors act through `EditText`, `EditTrust`,
`SaveScenario`, `Reverify`, `Publish`, `Withdraw`, `AddShared`, `EditShared`, `PublishFacts`.
The researched data are one text per row: dates, policy and material are folded into it.
`Finish` leaves out the last checks of a command, those of the whole catalogue
(`validate_core_catalog`, `services.py:141`) and of titles: they refuse a command that the model
lets through, and change nothing else.

| Run | Instance | Shows |
|---|---|---|
| `importers` | two packages that share a source, one of which has an older release; two processes, two edits | `RerunVerifies`, `NothingRewritten`, `ImportsConverge` |

`MaxEdits = 2`: each deviation from the research by two edits, so that one may hide the other,
against any order of runs; publication
and withdrawal are not counted. Fairness: a running command ends (weak), and the operator
runs each package again until it is in (strong, since a package can be refused for as long
as another command runs). `ImportsConverge` says nothing when an editor intervened, or when
the fact definitions are never published. `CHECK_DEADLOCK` is off: nothing is left to do when
everything is withdrawn and the bound is used up.

### What is proved

`Importers_proofs.tla`, for any packages that share records in any way, any number of
processes and edits, from `Partition` (each version belongs to one package) and
`AbsenceAssumption`. The inductive invariant `Accepted` is `RerunVerifies` with `Shapes` and
`QuestionsExist`: a package with a version has its questions, for otherwise an editor could add
them behind seals made without any. From it follow `RerunIsSafe` (`RerunVerifies`) and the
action property `ImportersRewriteNothing` (`NothingRewritten`). Model-checked only:
`ImportsConverge`, liveness.

## 9. Catalogue

State: what each draft says (`content`: the Facts its rules name, the Procedures it requires,
the material it routes to, and what it claims), the versions' `state`, the pre-selection `rows` of each service,
published `facts`, `sound` material, open `disputes`, publications in progress (`job`),
requests in progress (`request`).

| Code | Actions |
|---|---|
| `publish_procedure_version` with the gates that read shared rows | `Begin` (all row locks), `ReadGates`, `Publish` or `Reject` |
| withdrawal | `Withdraw` |
| editors of what services share (`services.py`, Admin) | `EditService`, `PublishFact`, `EditPoint`, `Dispute` |
| `execute_planning` | `Asks` (discovery of the service's part), `Load` (validation of everything, materialisation), `Project` (evidence history), `Leave` |

`PublicationClaims` spells out what is asked of the evidence of checklist items, steps,
warnings and fees, twice, as in the code: by the gates of each feature (`ClaimGates`) and by
the loader of every request (`ClaimsRead`, `snapshot_policy.py`), which refuses the whole
catalogue for one claim it does not accept. The two are different predicates over rule,
trust, kind, links, passages and sources.

`ReadGates` and `Publish` are two steps. The dependency gate's cycle check locks the published
versions it finds and their dependencies (`procedure_dependencies.py:328-336`), but not the drafts
of others: two drafts that are being published do not lock each other, and each check misses what
the other publisher commits after it. The waits that the check's locks cause, and the circles, are
in `Publication` and `EvidenceWorkflow`; without them the model has more behaviours.

Simplifications. A draft's content is fixed when the behaviour starts (edits against
publication are `Publication`'s subject); windows are unbounded, so overlapping means having
the same Procedure; publishers take their locks in one step, since lock order is the subject
of `Publication` and `EvidenceWorkflow`; insertions that race with a publication stay with
`aggregate_closed`; a version that requires its own Procedure is excluded by `clean` and by
the assumption on `Drafts`.

| Run | Instance | Shows |
|---|---|---|
| `catalog` | three versions that may require each other in pairs or in a ring, two services, one Fact, one place, a source that two of them cite, two publishers, one request | `PublicVersionsLoad`, `CyclesNeedStrangers`, `RequestsSeeOneInstant`, `GatesHoldAtPublication` |

Bounds: `MaxEdits = 1` edit of shared rows, against any number of publications, withdrawals
and requests. Two publishers and three versions make every cycle the gate can miss or see.
Symmetry of publishers; no liveness is checked.

What the code does not promise, and the model shows: a question or contradiction of an
*active* service may name a Fact that is not published, and then every request is refused,
whoever asks (`Refused`); `PublicVersionsLoad` says that a *version* is never the reason.

### What is proved

`Catalog_proofs.tla`, for all services, versions, citations, drafts and publishers that
satisfy `CatalogAssumption`. The inductive invariant `IInv` is

- `TypeOK`;
- `Exclusive`: two publishers at work have no row in common;
- `DecisionsHold`: what the gates admitted still holds while the publisher goes on, because
  the editor of each row it read waits for that row (this alone is not inductive: without
  `Exclusive`, another publisher could end the locks);
- `PublicLoads`: what is or was published names published Facts and sound material, because
  no Fact is ever unpublished and material of a published *or withdrawn* version is not
  edited.

From it: `CatalogTyped`, `PublishedIsLoadable` (`PublicVersionsLoad`) and `GatesOutlast`
(`GatesHoldAtPublication`). `PublicLoads` rests on `GatesAgreeWithLoader`: claims that every gate
accepts are claims that the loader accepts, for any rules, links and sources.

`CyclesTakeStrangers` (`CyclesNeedStrangers`) adds `ReadersKnow`: a publisher whose gates have read
knows every published version it has a row in common with. The version that would close a
cycle among versions that all share rows knows them all, so its own check has seen the
cycle; this needs no induction along the ring, and holds for rings of any length.
`RequestsReadOneInstant` (`RequestsSeeOneInstant`) adds `RequestsKeep`: at each step a request
carries what its part of the database it began with says, and that part answers as the whole.

## 10. Findings and known gaps

One run is expected to find its property violated.

- **`aggregate_closed`** (`PublishedAggregateClosed`): an insertion that passed its trigger
  while the version was a draft commits after the publication, so a published version gains
  a row that no gate and no reviewer saw. The trigger (`migrations/0009_service_point_routing.py:63`)
  reads the owner's state without a lock; `docs/architecture/knowledge-publication.md:15` calls
  a published version an "immutable public semantic snapshot". `PublishedContentPreserved`,
  proved, is what remains true: what *was* published does not change.

Other statements of the documents fail in the model as they would in the code. They are
stated in the modules, beside the property that does hold; to see one fail, add it to the
named configuration.

| Statement | Where it is said | Why it fails | Reproduce | What holds |
|---|---|---|---|---|
| `NoBlockingCycle` (`Catalog`) | `docs/architecture/domain-model.md:119`: "Blocking cycles are invalid knowledge." | two publishers with no row in common each check without the other (`procedure_dependencies.py:329`) | `Catalog.cfg` with `MaxEdits = 0`, `Requests = {}`, no symmetry | `CyclesNeedStrangers` |
| `ClearedAnswersStayAway` (`Questionnaire`) | the comment at `tab-case.ts:44`, which the questionnaire's own clear does not follow (`questionnaire.tsx:178`) | after a deletion that failed, opening another service and coming back can load the stored answers again | `Questionnaire.cfg` | `PrivacyClearIsFinal` |
| `DriftIsRejected` (`Importers`) | `docs/importer-development.md`, "fail-closed" | an editor changes a claim and saves every scenario again, which seals the change; a package without digests of its scenario texts is accepted | `Importers.cfg` with `SPECIFICATION Spec` | `RerunVerifies` |
| `AnswersFitTheirQuestions` (`PlanningDialogue`) | the texts at `state.ts:114` and `copy.ts:38` | a question that is half answered is asked again after others; changing one of those withdraws both answers (`state.ts:93`), but the entries between stay, asked on an answer that may then be given differently | `Planning.cfg` | `KeptEntriesStand` |
| `NeverDeadlocked` (`Publication`) | "one deterministic aggregate lock order", `publication.py` | the cycle check locks published versions (`procedure_dependencies.py:329`) while the publisher holds its Procedure; a withdrawal holds such a version and waits for the Procedure (`publication.py:804-805`) | `Overlap.cfg` | `DeadlocksNeedTheGates`; PostgreSQL ends one of them |
| `NeverDeadlocked` (`EvidenceWorkflow`) | the same | the cycle check and the discrepancy gate lock versions and evidence of *others* after the publisher's own | `Gate.cfg` | `DeadlocksNeedTheGates`; PostgreSQL ends one of them |
| `ReverificationsComplete` (`EvidenceWorkflow`) | "Re-verification must review the subject's complete evidence set.", `evidence_workflow.py:510` | an insertion whose trigger saw a draft (as in `aggregate_closed`) is invisible to the second comparison of the evidence and waits for none of its locks; it commits before the reverification does | `Reverification.cfg` | `ReverificationsStand` |
| `ResolvedStaysResolved` (`EvidenceWorkflow`) | "Resolved discrepancies are immutable.", `evidence_workflow.py` | an Admin form read before the resolution writes the old status back | `Gate.cfg` | `ImplementsHistory`: transitions are unaffected |

An approval may also bind to a state that never existed, since the signature is read by many
statements at READ COMMITTED; `PublishedStateReviewed`, proved, shows that such an approval
never counts for a publication.

## 11. What is not modelled

- **Rate limiter**: one counter per client, scope and window under one process-wide lock; each
  evaluation is a critical section, so there is nothing to interleave. What clients do with a
  refusal is in `Questionnaire`.
- **Django Admin views**: forms that call the modelled services. The two that add a protocol,
  the discrepancy form and the pack upload, are in `EvidenceWorkflow` and `DraftImport`.
- **Local sandbox and operations**: starts processes and containers; its behaviour is that of
  Docker and PostgreSQL.
- **Parsing, HTTP, redaction, rendering, the draft preview, the command line**: no state.
- **Gates on the shape or wording of a single row**: one predicate (`Sound` in `Publication`);
  those on rules, trust and evidence of claims are in `PublicationClaims`.
- **Field validation of single models**, and Admin forms that save several rows at once.
- **PostgreSQL itself** is external: locks, visibility and constraints as described above.

What each component's model leaves out is in its section and in `PROJECT.json`.
