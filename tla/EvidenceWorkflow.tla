------------------------- MODULE EvidenceWorkflow -------------------------
(***************************************************************************)
(* Discrepancies and reverifications of evidence as transactions at READ   *)
(* COMMITTED: the workflow's services, the Admin form of a discrepancy     *)
(* (which saves the row without the services' locks), and as much of       *)
(* publication as shares rows with them, with the two gates that lock rows *)
(* of their own: the cycle check of the dependencies and the discrepancies. *)
(*                                                                         *)
(* A transaction that has made its changes holds them in its job until it  *)
(* commits; what it recorded carries the time at which it was made, which  *)
(* may be on an earlier day than the commit.  An insertion of evidence is  *)
(* a transaction too, whose state is only that it is under way.            *)
(***************************************************************************)
EXTENDS TrustProjection

CONSTANTS
  Txns,           \* database transactions
  Versions,       \* Procedure Versions
  Procedures,     \* Procedures
  ProcedureOf,    \* [Versions -> Procedures]
  Subjects,       \* evidence-bearing items
  Shareable,      \* service point material: several versions may use it
  HomeOf,         \* [Subjects -> Versions]: the version an item starts in
  Links,          \* Evidence Links
  SubjectOf,      \* [Links -> Subjects]
  Sources,        \* preserved Sources
  Cites,          \* [Links -> SUBSET Sources]
  Dependencies,   \* Procedure Dependencies
  DependencyOf,   \* [Dependencies -> Versions]
  Rank,           \* [Ranked -> Nat]: the order in which publication locks rows
  GraphRank,      \* [Dependencies -> Nat]: the cycle check's order, by Procedure
  Outcomes,       \* verification states that are used
  ReviewDates,    \* [verifiedOn, reverifyOn] pairs a reverification may give
  Discrepancies,  \* bound: primary keys of discrepancies, natural numbers
  MaxTransitions, \* bound: the last primary key of a transition
  MaxReviews,     \* bound: the last primary key of a reverification
  MaxNow,         \* bound: the last instant
  Absent          \* no such row

Ranked == Versions \cup Procedures \cup Dependencies \cup Subjects \cup Links \cup Sources
Rows   == Ranked \cup Discrepancies

DiscrepancyRows ==
  [anchor : Links, links : SUBSET Links, status : {"open", "resolved"}, outcome : Outcomes]

ASSUME WorkflowAssumption ==
  /\ ProcedureOf \in [Versions -> Procedures]
  /\ Shareable \subseteq Subjects
  /\ HomeOf \in [Subjects -> Versions]
  /\ SubjectOf \in [Links -> Subjects]
  /\ Cites \in [Links -> SUBSET Sources]
  /\ DependencyOf \in [Dependencies -> Versions]
  /\ Rank \in [Ranked -> Nat] /\ GraphRank \in [Dependencies -> Nat]
  /\ Outcomes \subseteq VerificationStates
  /\ Discrepancies \subseteq Nat /\ MaxTransitions \in Nat /\ MaxReviews \in Nat /\ MaxNow \in Nat
  /\ None \notin Txns /\ None \notin Versions /\ Absent \notin DiscrepancyRows \cup {None}
  /\ \A dates \in ReviewDates :
       /\ dates.verifiedOn # None
       /\ dates.reverifyOn # None => dates.verifiedOn <= dates.reverifyOn

\* Every row has its place in the lock order: versions come first, and what
\* bears evidence before the evidence and its sources.
ASSUME LockOrderAssumption ==
  /\ IsFiniteSet(Ranked) /\ Ranked \cap Discrepancies = {}
  /\ \A r, q \in Ranked : Rank[r] = Rank[q] => r = q
  /\ \A v \in Versions, r \in Procedures \cup Dependencies \cup Subjects \cup Links \cup Sources :
       Rank[v] < Rank[r]
  /\ \A s \in Subjects, r \in Links \cup Sources : Rank[s] < Rank[r]

VARIABLES
  state,          \* [Versions -> {"draft", "published", "withdrawn"}]
  owners,         \* [Subjects -> SUBSET Versions]: the versions an item is part of
  evidence,       \* Evidence Links that exist
  spare,          \* Evidence Links that have never existed: keys are not reused
  inserting,      \* those of them whose insertion is under way
  discrepancies,  \* [Discrepancies -> [anchor, links, status, outcome] or Absent]
  transitions,    \* EvidenceDiscrepancyTransition rows
  reviews,        \* EvidenceReverificationEvent rows with their links
  now,            \* the clock
  lock,           \* [Rows -> Txns \cup {None}]: FOR UPDATE row locks
  pc,             \* where each transaction stands
  job,            \* what it was asked to do and has read and made so far
  late            \* history, [Txns -> SUBSET Links]: evidence that came to a public item
                  \* after the transaction, a reverification, read the item's evidence again

store == <<state, owners, evidence, spare, inserting, discrepancies, transitions, reviews>>
vars  == <<state, owners, evidence, spare, inserting, discrepancies, transitions, reviews,
           now, lock, pc, job, late>>

EvidenceOf(s)    == {l \in evidence : SubjectOf[l] = s}
OwnersOf(l)      == owners[SubjectOf[l]]
ItemsOf(v)       == {s \in Subjects : v \in owners[s]}
MaterialOf(v)    == {l \in evidence : v \in OwnersOf(l)}
Public(s)        == \E v \in owners[s] : state[v] # "draft"
Existing         == {d \in Discrepancies : discrepancies[d] # Absent}
Open             == {d \in Existing : discrepancies[d].status = "open"}

Init ==
  /\ state \in [Versions -> {"draft", "published"}]
  /\ owners = [s \in Subjects |-> {HomeOf[s]}]
  /\ evidence \in SUBSET Links /\ spare = Links \ evidence /\ inserting = {}
  /\ discrepancies = [d \in Discrepancies |-> Absent]
  /\ transitions = {} /\ reviews = {}
  /\ now = 0
  /\ lock = [r \in Rows |-> None]
  /\ pc = [t \in Txns |-> "idle"]
  /\ job = [t \in Txns |-> None]
  /\ late = [t \in Txns |-> {}]

-----------------------------------------------------------------------------
(* Transactions and row locks. *)

Begin(t, at, what) ==
  /\ pc[t] = "idle"
  /\ pc' = [pc EXCEPT ![t] = at]
  /\ job' = [job EXCEPT ![t] = what]
  /\ late' = late

\* COMMIT or ROLLBACK.
Finish(t) ==
  /\ pc' = [pc EXCEPT ![t] = "idle"]
  /\ job' = [job EXCEPT ![t] = None]
  /\ lock' = [r \in Rows |-> IF lock[r] = t THEN None ELSE lock[r]]
  /\ late' = [late EXCEPT ![t] = {}]

Rollback(t) == Finish(t) /\ UNCHANGED <<store, now>>

Held(t) == {r \in Rows : lock[r] = t}

Active == {t \in Txns : pc[t] # "idle"}

\* What transactions have made and not committed yet.
Made(kind) == {job[t].made : t \in {u \in Txns : pc[u] = kind}}

\* Primary keys come from a sequence: those that are in use are not handed out.
Reserved ==
  Existing \cup {job[t].discrepancy : t \in {u \in Active : pc[u] = "open_commit"}}

NextPk(used) == 1 + (IF used = {} THEN 0 ELSE CHOOSE n \in used : \A m \in used : m <= n)

TransitionPk ==
  NextPk({e.pk : e \in transitions
                       \cup Made("open_commit") \cup Made("resolve_commit")})
ReviewPk == NextPk({e.pk : e \in reviews \cup Made("review_commit")})

\* Fault: the evidence is locked before the versions.
EvidenceFirst(t, rows) ==
  {r \in rows : IF rows \cap Links # {} THEN r \in Links ELSE
     \A q \in rows : Rank[r] <= Rank[q]}

\* The rows a workflow transaction locks next: versions, then evidence, by pk.
InOrder(t, rows) == {r \in rows : \A q \in rows : Rank[r] <= Rank[q]}

\* _lock_workflow_evidence: every owning version and the successor, then the
\* links that still exist.
WorkflowRows(t) ==
  InOrder(t, (job[t].owners \cup job[t].successor \cup (job[t].links \cap evidence)) \ Held(t))

DependenciesOf(v) == {d \in Dependencies : DependencyOf[d] = v}

\* A version with what it owns, and the sources of its evidence.
Aggregate(v) ==
  {v, ProcedureOf[v]} \cup DependenciesOf(v) \cup ItemsOf(v) \cup MaterialOf(v)
    \cup UNION {Cites[l] : l \in MaterialOf(v)}

\* Fault: publication does not lock evidence.
PublishRowsButLinks(t) == InOrder(t, (Aggregate(job[t].version) \ Links) \ Held(t))

PublishRows(t) == InOrder(t, Aggregate(job[t].version) \ Held(t))

\* The cycle check's SELECT ... FOR UPDATE joins each dependency it found with
\* its version and locks both, by Procedure and not in the order of the rows.
GraphRows(t) ==
  LET pending == {d \in job[t].graph : {d, DependencyOf[d]} \ Held(t) # {}}
      first == {d \in pending : \A e \in pending : GraphRank[d] <= GraphRank[e]}
  IN  {IF lock[d] = t THEN DependencyOf[d] ELSE d : d \in first}

\* The discrepancy gate's SELECT ... FOR UPDATE joins each open discrepancy with its anchor
\* and locks both, in the order of the discrepancies.
GateRows(t) ==
  LET pending == {d \in job[t].gate \cap Open :
                    {d, discrepancies[d].anchor} \ Held(t) # {}}
      d == CHOOSE e \in pending : \A f \in pending : e <= f
  IN  IF pending = {} THEN {}
      ELSE IF lock[d] = t THEN {discrepancies[d].anchor} ELSE {d}

\* What transaction t has to lock next, or to see unlocked.
Wanted(t) ==
  CASE pc[t] \in {"open_lock", "review_lock"} -> WorkflowRows(t)
    [] pc[t] = "publish_rows" -> PublishRows(t)
    [] pc[t] = "publish_graph" -> GraphRows(t)
    [] pc[t] = "publish_gate" -> GateRows(t)
    [] pc[t] = "open_commit" -> {job[t].anchor}
    [] pc[t] = "admin_update" -> {job[t].discrepancy}
    [] OTHER -> {}

LockNext(t, r) ==
  /\ pc[t] \in {"open_lock", "review_lock", "publish_rows", "publish_graph", "publish_gate"}
  /\ r \in Wanted(t) /\ lock[r] = None
  /\ lock' = [lock EXCEPT ![r] = t]
  /\ UNCHANGED <<store, now, pc, job, late>>

-----------------------------------------------------------------------------
(* open_evidence_discrepancy *)

OpenBegin(t, links, l, outcome) ==
  /\ links \subseteq EvidenceOf(SubjectOf[l]) /\ l \in links
  /\ outcome \in OpenOutcomes
  /\ OwnersOf(l) # {}
  /\ Begin(t, "open_lock", [anchor |-> l, links |-> links, outcome |-> outcome,
                            owners |-> OwnersOf(l), successor |-> {}])
  /\ UNCHANGED <<store, now, lock>>

\* Evidence or its owners changed while the locks were awaited.
Moved(t) ==
  \/ ~(job[t].links \subseteq evidence)
  \/ \E l \in job[t].links : OwnersOf(l) # job[t].owners

OpeningOf(d, outcome) ==
  [kind |-> "opened", discrepancy |-> d, state |-> outcome, at |-> now, pk |-> TransitionPk]

OpenRecord(t) ==
  /\ pc[t] = "open_lock" /\ Wanted(t) = {} /\ ~Moved(t)
  /\ TransitionPk <= MaxTransitions
  /\ \E d \in Discrepancies \ Reserved :
       /\ \A e \in Discrepancies \ Reserved : d <= e
       /\ pc' = [pc EXCEPT ![t] = "open_commit"]
       /\ job' = [job EXCEPT ![t] =
            [anchor |-> job[t].anchor, links |-> job[t].links, outcome |-> job[t].outcome,
             discrepancy |-> d, made |-> OpeningOf(d, job[t].outcome)]]
  /\ UNCHANGED <<store, now, lock, late>>

OpenRefuse(t) == pc[t] = "open_lock" /\ Wanted(t) = {} /\ Moved(t) /\ Rollback(t)

\* The Admin form saves a new discrepancy without any of these locks.
AdminOpen(t, l, outcome) ==
  /\ l \in evidence /\ outcome \in OpenOutcomes
  /\ TransitionPk <= MaxTransitions
  /\ \E d \in Discrepancies \ Reserved :
       /\ \A e \in Discrepancies \ Reserved : d <= e
       /\ Begin(t, "open_commit", [anchor |-> l, links |-> {l}, outcome |-> outcome,
                                   discrepancy |-> d, made |-> OpeningOf(d, outcome)])
  /\ UNCHANGED <<store, now, lock>>

\* The deferred foreign key waits for whoever holds the anchor.
OpenCommit(t) ==
  LET j == job[t] IN
  /\ pc[t] = "open_commit"
  /\ lock[j.anchor] \in {None, t}
  /\ IF j.anchor \in evidence
     THEN /\ discrepancies' = [discrepancies EXCEPT ![j.discrepancy] =
                [anchor |-> j.anchor, links |-> j.links, status |-> "open",
                 outcome |-> j.outcome]]
          /\ transitions' = transitions \cup {j.made}
     ELSE UNCHANGED <<discrepancies, transitions>>
  /\ Finish(t)
  /\ UNCHANGED <<state, owners, evidence, spare, inserting, reviews, now>>

-----------------------------------------------------------------------------
(* resolve_evidence_discrepancy, and the Admin form that edits a discrepancy. *)

\* Fault: nothing keeps a second resolution from being recorded.
ResolvedMayRepeat(d) == FALSE

\* A second transition of the kind would violate the unique constraint.
AlreadyResolved(d) ==
  \E e \in transitions : e.discrepancy = d /\ e.kind = "resolved"

ResolutionOf(d, outcome) ==
  [kind |-> "resolved", discrepancy |-> d, state |-> outcome, at |-> now, pk |-> TransitionPk]

ResolveRecord(t, d, outcome) ==
  /\ d \in Open /\ lock[d] = None
  /\ ~AlreadyResolved(d) /\ TransitionPk <= MaxTransitions
  /\ Begin(t, "resolve_commit", [discrepancy |-> d, status |-> "resolved", outcome |-> outcome,
                                 made |-> ResolutionOf(d, outcome)])
  /\ lock' = [lock EXCEPT ![d] = t]
  /\ UNCHANGED <<store, now>>

\* The form reads the discrepancy without locking it.  It may resolve it, or
\* save it again as open (a corrected rationale) with the same outcome.
AdminRead(t, d, status, outcome) ==
  /\ d \in Open
  /\ status = "open" => outcome = discrepancies[d].outcome
  /\ Begin(t, "admin_notice", [discrepancy |-> d, status |-> status, outcome |-> outcome,
                               previous |-> "open", at |-> now])
  /\ UNCHANGED <<store, now, lock>>

\* The signal before the save reads the status once more, for the history.
AdminNotice(t) ==
  /\ pc[t] = "admin_notice"
  /\ pc' = [pc EXCEPT ![t] = "admin_update"]
  /\ job' = [job EXCEPT ![t].previous = discrepancies[job[t].discrepancy].status]
  /\ UNCHANGED <<store, now, lock, late>>

\* The saved row is a resolution to be recorded.
Resolves(t) == job[t].status = "resolved" /\ job[t].previous = "open"

\* The UPDATE waits for the row and writes every field of the form.
AdminUpdate(t) ==
  LET j == job[t] IN
  /\ pc[t] = "admin_update" /\ lock[j.discrepancy] = None
  /\ Resolves(t) => ~AlreadyResolved(j.discrepancy) /\ TransitionPk <= MaxTransitions
  /\ lock' = [lock EXCEPT ![j.discrepancy] = t]
  /\ pc' = [pc EXCEPT ![t] = IF Resolves(t) THEN "resolve_commit" ELSE "edit_commit"]
  /\ job' = [job EXCEPT ![t] =
       [discrepancy |-> j.discrepancy, status |-> j.status, outcome |-> j.outcome,
        made |-> [ResolutionOf(j.discrepancy, j.outcome) EXCEPT !.at = j.at]]]
  /\ UNCHANGED <<store, now, late>>

AdminRefuse(t) ==
  /\ pc[t] = "admin_update" /\ lock[job[t].discrepancy] = None
  /\ Resolves(t) /\ AlreadyResolved(job[t].discrepancy)
  /\ Rollback(t)

DiscrepancyCommit(t) ==
  LET j == job[t] IN
  /\ pc[t] \in {"resolve_commit", "edit_commit"}
  /\ discrepancies' = [discrepancies EXCEPT ![j.discrepancy] =
        [@ EXCEPT !.status = j.status, !.outcome = j.outcome]]
  /\ transitions' = IF pc[t] = "resolve_commit" THEN transitions \cup {j.made} ELSE transitions
  /\ Finish(t)
  /\ UNCHANGED <<state, owners, evidence, spare, inserting, reviews, now>>

-----------------------------------------------------------------------------
(* record_evidence_reverification *)

ReviewBegin(t, l, outcome, dates, successor) ==
  /\ l \in evidence
  /\ OwnersOf(l) # {}
  /\ Begin(t, "review_lock",
           [subject |-> SubjectOf[l], links |-> EvidenceOf(SubjectOf[l]), outcome |-> outcome,
            dates |-> dates, owners |-> OwnersOf(l), successor |-> successor])
  /\ UNCHANGED <<store, now, lock>>

\* Fault: the evidence set is not read again under the locks.
CompleteWhenRead(t) == TRUE

Complete(t) == EvidenceOf(job[t].subject) = job[t].links

\* The evidence is still complete, some owner is public already, and a change of
\* meaning names another draft of the one Procedure concerned.
ReviewStands(t) ==
  LET j == job[t] IN
  /\ ~Moved(t) /\ Complete(t)
  /\ Public(j.subject)
  /\ \A v \in j.successor : /\ state[v] = "draft" /\ v \notin j.owners
                            /\ {ProcedureOf[w] : w \in j.owners} = {ProcedureOf[v]}

ReviewRecord(t) ==
  LET j == job[t] IN
  /\ pc[t] = "review_lock" /\ Wanted(t) = {} /\ ReviewStands(t)
  /\ ReviewPk <= MaxReviews
  /\ pc' = [pc EXCEPT ![t] = "review_commit"]
  /\ job' = [job EXCEPT ![t] =
       [made |-> [subject |-> j.subject, links |-> j.links, state |-> j.outcome,
                  verifiedOn |-> j.dates.verifiedOn, reverifyOn |-> j.dates.reverifyOn,
                  successor |-> j.successor, at |-> now, pk |-> ReviewPk]]]
  /\ UNCHANGED <<store, now, lock, late>>

ReviewRefuse(t) ==
  pc[t] = "review_lock" /\ Wanted(t) = {} /\ ~ReviewStands(t) /\ Rollback(t)

ReviewCommit(t) ==
  /\ pc[t] = "review_commit"
  /\ reviews' = reviews \cup {job[t].made}
  /\ Finish(t)
  /\ UNCHANGED <<state, owners, evidence, spare, inserting, discrepancies, transitions, now>>

-----------------------------------------------------------------------------
(* Publication, as far as it meets the workflow. *)

PublishBegin(t, v) ==
  /\ lock[v] = None
  /\ Begin(t, "publish_rows", [version |-> v])
  /\ lock' = [lock EXCEPT ![v] = t]
  /\ UNCHANGED <<store, now>>

\* The cycle check finds its own dependencies and every published version's.
PublishGraph(t) ==
  LET v == job[t].version IN
  /\ pc[t] = "publish_rows" /\ Wanted(t) = {}
  /\ pc' = [pc EXCEPT ![t] = "publish_graph"]
  /\ job' = [job EXCEPT ![t] =
       [version |-> v,
        graph |-> {d \in Dependencies : DependencyOf[d] = v \/ state[DependencyOf[d]] = "published"}]]
  /\ UNCHANGED <<store, now, lock, late>>

PublishGate(t) ==
  /\ pc[t] = "publish_graph" /\ Wanted(t) = {}
  /\ pc' = [pc EXCEPT ![t] = "publish_gate"]
  /\ job' = [job EXCEPT ![t] = [version |-> job[t].version, gate |-> Open]]
  /\ UNCHANGED <<store, now, lock, late>>

Disputes(v, found) == {d \in found : v \in OwnersOf(discrepancies[d].anchor)}

PublishDecide(t) ==
  LET v == job[t].version IN
  /\ pc[t] = "publish_gate" /\ Wanted(t) = {}
  /\ state' = IF state[v] = "draft" /\ Disputes(v, job[t].gate \cap Open) = {}
              THEN [state EXCEPT ![v] = "published"] ELSE state
  /\ Finish(t)
  /\ UNCHANGED <<owners, evidence, spare, inserting, discrepancies, transitions, reviews, now>>

Withdraw(v) ==
  /\ lock[v] = None /\ lock[ProcedureOf[v]] = None
  /\ state[v] = "published"
  /\ state' = [state EXCEPT ![v] = "withdrawn"]
  /\ UNCHANGED <<owners, evidence, spare, inserting, discrepancies, transitions, reviews, now, lock, pc, job, late>>

-----------------------------------------------------------------------------
(* Editing drafts. *)

Publishing(v) ==
  \E t \in Txns : /\ pc[t] \in {"publish_rows", "publish_graph", "publish_gate"}
                  /\ job[t].version = v

Draft(s) == owners[s] # {} /\ \A v \in owners[s] : state[v] = "draft"

\* The trigger reads the state of the owners without a lock.
AddEvidence(l) ==
  /\ l \in spare \ inserting /\ Draft(SubjectOf[l])
  /\ inserting' = inserting \cup {l}
  /\ UNCHANGED <<state, owners, evidence, spare, discrepancies, transitions, reviews, now, lock, pc, job, late>>

\* Reverifications that have read the evidence of s again.
ReviewsOf(s) == {t \in Txns : pc[t] = "review_commit" /\ job[t].made.subject = s}

\* COMMIT waits for whoever has locked the item or a cited source (the foreign
\* keys), but does not read the state again.
CommitEvidence(l) ==
  LET s == SubjectOf[l] IN
  /\ l \in inserting
  /\ \A r \in {s} \cup Cites[l] : lock[r] = None
  /\ evidence' = evidence \cup {l} /\ spare' = spare \ {l} /\ inserting' = inserting \ {l}
  /\ late' = IF Public(s)
             THEN [t \in Txns |-> IF t \in ReviewsOf(s) THEN late[t] \cup {l} ELSE late[t]]
             ELSE late
  /\ UNCHANGED <<state, owners, discrepancies, transitions, reviews, now, lock, pc, job>>

LoseEvidence(l) ==
  /\ l \in inserting
  /\ inserting' = inserting \ {l}
  /\ UNCHANGED <<state, owners, evidence, spare, discrepancies, transitions, reviews, now, lock, pc, job, late>>

\* Evidence that the workflow's records refer to is protected.
ReferredTo(l) ==
  \/ \E d \in Existing : l \in discrepancies[d].links
  \/ \E r \in reviews : l \in r.links

RemoveEvidence(l) ==
  /\ l \in evidence /\ lock[l] = None
  /\ Draft(SubjectOf[l]) /\ ~ReferredTo(l)
  /\ evidence' = evidence \ {l}
  /\ UNCHANGED <<state, owners, spare, inserting, discrepancies, transitions, reviews, now, lock, pc, job, late>>

\* A draft starts or stops using shared service point material.
Associate(v, s) ==
  /\ s \in Shareable /\ v \notin owners[s]
  /\ state[v] = "draft" /\ lock[v] = None
  /\ owners' = [owners EXCEPT ![s] = @ \cup {v}]
  /\ UNCHANGED <<state, evidence, spare, inserting, discrepancies, transitions, reviews, now, lock, pc, job, late>>

Dissociate(v, s) ==
  /\ s \in Shareable /\ v \in owners[s]
  /\ state[v] = "draft" /\ ~Publishing(v)
  /\ owners' = [owners EXCEPT ![s] = @ \ {v}]
  /\ UNCHANGED <<state, evidence, spare, inserting, discrepancies, transitions, reviews, now, lock, pc, job, late>>

Tick == now < MaxNow /\ now' = now + 1 /\ UNCHANGED <<store, lock, pc, job, late>>

\* A lost connection, or the victim of PostgreSQL's deadlock detection.
Crash(t) == t \in Active /\ Rollback(t)

-----------------------------------------------------------------------------
Continue(t) ==
  \/ \E r \in Rows : LockNext(t, r)
  \/ OpenRecord(t) \/ OpenRefuse(t) \/ OpenCommit(t)
  \/ AdminNotice(t) \/ AdminUpdate(t) \/ AdminRefuse(t) \/ DiscrepancyCommit(t)
  \/ ReviewRecord(t) \/ ReviewRefuse(t) \/ ReviewCommit(t)
  \/ PublishGraph(t) \/ PublishGate(t) \/ PublishDecide(t)

Start(t) ==
  \/ \E links \in SUBSET Links, l \in Links, o \in Outcomes : OpenBegin(t, links, l, o)
  \/ \E l \in Links, o \in Outcomes : AdminOpen(t, l, o)
  \/ \E d \in Discrepancies, o \in Outcomes : ResolveRecord(t, d, o)
  \/ \E d \in Discrepancies, o \in Outcomes, status \in {"open", "resolved"} :
        AdminRead(t, d, status, o)
  \/ \E l \in Links, o \in Outcomes, dates \in ReviewDates,
        successor \in {{}} \cup {{v} : v \in Versions} : ReviewBegin(t, l, o, dates, successor)
  \/ \E v \in Versions : PublishBegin(t, v)

Edit ==
  \/ \E v \in Versions : Withdraw(v)
  \/ \E l \in Links : AddEvidence(l) \/ CommitEvidence(l) \/ LoseEvidence(l) \/ RemoveEvidence(l)
  \/ \E v \in Versions, s \in Subjects : Associate(v, s) \/ Dissociate(v, s)

Next == (\E t \in Txns : Continue(t) \/ Start(t) \/ Crash(t)) \/ Edit \/ Tick

Spec == Init /\ [][Next]_vars

-----------------------------------------------------------------------------
(* What the module promises. *)

(* A reverification stands on what it was read from, though that was read before
   the locks were taken: at the instant it is recorded all that it names is still
   the evidence of its item; what it misses was committed after it had read the
   evidence again, to an item that had become public while the insertion was
   under way; the item is part of something that is no draft any more, and the
   successor that a change of meaning names is a draft that does not use the
   item itself.                                                              *)
ReverificationsStand ==
  [][\A t \in Txns : LET r == job[t].made IN
       pc[t] = "review_commit" /\ r \in reviews' \ reviews =>
         /\ r.links \subseteq EvidenceOf(r.subject)
         /\ EvidenceOf(r.subject) \ r.links \subseteq late[t]
         /\ Public(r.subject)
         /\ \A v \in r.successor : state[v] = "draft" /\ v \notin owners[r.subject]]_vars

(* "Re-verification must review the subject's complete evidence set."
   (evidence_workflow.py:510): what is recorded covers all that the item then has. *)
ReverificationsComplete ==
  [][\A r \in reviews' \ reviews : r.links = EvidenceOf(r.subject)]_vars

(* No version becomes public while a discrepancy on its material, own or shared,
   is open that nobody has resolved, although discrepancies come from the Admin
   without a lock.                                                           *)
NothingDisputedIsPublished ==
  [][\A v \in Versions : state[v] = "draft" /\ state'[v] = "published" =>
       \A d \in Disputes(v, Open) : AlreadyResolved(d)]_vars

Waits(t, u) == u # t /\ \E r \in Wanted(t) : lock[r] = u

Deadlocked(S) == S # {} /\ \A t \in S : \E u \in S : Waits(t, u)

(* Versions are locked before evidence by everybody, so no transactions wait for
   each other in a circle, except around the rows that the gates of a publication
   lock: published versions for the cycle check, disputed evidence.          *)
DeadlocksNeedTheGates ==
  \A S \in SUBSET Txns :
    Deadlocked(S) => \E t \in S : pc[t] \in {"publish_graph", "publish_gate"}

(* The aggregate is locked in "one deterministic aggregate lock order"
   (publication.py): no transactions ever wait for each other in a circle.   *)
NeverDeadlocked == \A S \in SUBSET Txns : ~Deadlocked(S)

(* "Resolved discrepancies are immutable." (evidence_workflow.py)              *)
ResolvedStaysResolved ==
  [][\A d \in Existing : discrepancies[d].status = "resolved" =>
       discrepancies'[d] = discrepancies[d]]_vars

\* The events that are replayed: a change of meaning is not among them.
EventOf(e) ==
  [kind |-> e.kind, subject |-> SubjectOf[discrepancies[e.discrepancy].anchor],
   discrepancy |-> e.discrepancy, state |-> e.state, at |-> e.at, pk |-> e.pk]
ReviewEventOf(r) ==
  [kind |-> "review", subject |-> r.subject, state |-> r.state, verifiedOn |-> r.verifiedOn,
   reverifyOn |-> r.reverifyOn, at |-> r.at, pk |-> r.pk]

Captured ==
  {EventOf(e) : e \in transitions} \cup
  {ReviewEventOf(r) : r \in {q \in reviews : q.successor = {}}}

Overlay(s, day) == Replay(AsOf({e \in Captured : e.subject = s}, day))

\* What was made, or dated, on a day and is not committed yet.
Pending == Made("open_commit") \cup Made("resolve_commit") \cup Made("review_commit")
PendingDays ==
  {Day(e.at) : e \in Pending} \cup
  {Day(job[t].at) : t \in {u \in Txns : pc[u] \in {"admin_notice", "admin_update"}}}

(* Once a day is over and nothing made on it waits for its commit, what is shown
   for that day is settled: no later work rewrites it.                       *)
PastIsSettled ==
  [][\A day \in 0 .. Day(now) - 1 :
       (\A pending \in PendingDays : pending > day)
         => \A s \in Subjects : Overlay(s, day)' = Overlay(s, day)]_vars

EventHistory == INSTANCE EvidenceHistory
  WITH history <- Captured,
       authored <- [s \in Subjects |-> None], Authored <- {None},
       Instants <- 0 .. MaxNow,
       TransitionPks <- 1 .. MaxTransitions, ReviewPks <- 1 .. MaxReviews,
       ReviewDates <- UNION {{d.verifiedOn, d.reverifyOn} : d \in ReviewDates},
       MaterialDates <- {}

(* The tables grow as the abstract history does, whatever the transactions do. *)
ImplementsHistory == EventHistory!HistorySpec
=============================================================================
