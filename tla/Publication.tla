---------------------------- MODULE Publication ----------------------------
(***************************************************************************)
(* The editorial lifecycle of Procedure Versions: publication, withdrawal, *)
(* review approvals and the ordinary edits they race with.                 *)
(*                                                                         *)
(* Every operation is a database transaction (a member of Txns) that runs  *)
(* at READ COMMITTED and is cut at its row locks, so that the operations   *)
(* interleave where PostgreSQL lets them.  A row lock is owned by the      *)
(* transaction that took it until that transaction ends.  db holds what is *)
(* committed; a transaction's own write is in its job until it commits.    *)
(*                                                                         *)
(* Rows are the rows a draft is made of: children (checklist items, steps, *)
(* warnings, fees, bases, ..., with their evidence links), one review      *)
(* policy per version, and shared provenance (sources, authorities,        *)
(* document types), which several versions may cite.                       *)
(***************************************************************************)
EXTENDS Integers, FiniteSets

CONSTANTS
  Txns,          \* database transactions (Admin requests, management commands)
  Users,         \* staff users
  Versions,      \* Procedure Versions
  Procedures,    \* Procedures
  ProcedureOf,   \* [Versions -> Procedures]
  Windows,       \* effective intervals [from, to] an editor may give a version
  Rows,          \* rows that make up the versions' reviewed aggregates
  Shared,        \* the rows that are provenance: never inserted or deleted here
  Owners,        \* [Rows -> SUBSET Versions]: the versions a row is part of
  PolicyRow,     \* [Versions -> Rows]: the version's review policy
  LockRank,      \* [Rows -> Nat]: the order in which publication locks rows
  ReadRank,      \* [Rows -> Nat]: the order in which a signature reads rows
  DependencyRows, \* the rows that are dependencies on other Procedures
  GraphRank,     \* [DependencyRows -> Nat]: the order in which the cycle check locks
  Values,        \* contents of a row that is not a policy
  Sound,         \* the contents that every content gate accepts
  Policies,      \* review policies [author, risks] an editor may write
  Dimensions,    \* the core review dimensions
  Risks,         \* the specialist risks
  Mode,          \* PROCEDURE_VERSION_REVIEW_MODE of the deployment
  Disputable,    \* rows whose evidence a discrepancy may be opened on
  Days,          \* days of the calendar, for what is in force when
  MaxApprovals,  \* bound: no approval is started once this many are recorded
  None,          \* no transaction, no job, no signature, no (unbounded) date
  Absent,        \* there is no such row
  Unread         \* a row the running signature has not read yet

PolicyRows == {PolicyRow[v] : v \in Versions}
Contents   == Values \cup Policies
Scopes     == Dimensions \cup {"discrepancy"} \cup Risks
Permissions == {"review"} \cup Risks

ASSUME ConstantsAssumption ==
  /\ ProcedureOf \in [Versions -> Procedures]
  /\ Shared \subseteq Rows
  /\ Owners \in [Rows -> SUBSET Versions]
  /\ PolicyRow \in [Versions -> Rows \ Shared]
  /\ \A v \in Versions : Owners[PolicyRow[v]] = {v}
  /\ \A r \in Rows \ Shared : \E v \in Versions : Owners[r] = {v}
  /\ LockRank \in [Rows -> Nat] /\ ReadRank \in [Rows -> Nat]
  /\ DependencyRows \subseteq Rows \ Shared /\ GraphRank \in [DependencyRows -> Nat]
  /\ Sound \subseteq Values
  /\ Policies \subseteq [author : Users, risks : SUBSET Risks]
  /\ Mode \in {"solo", "independent"}
  /\ Disputable \subseteq Rows
  /\ MaxApprovals \in Nat

ASSUME MarkersAssumption ==
  /\ None \notin Txns
  /\ Absent \notin Contents /\ Unread \notin Contents /\ Absent # Unread

\* Provenance is locked table by table and by key within a table: one order for all.
ASSUME LockOrderAssumption ==
  /\ IsFiniteSet(Shared)
  /\ \A r, q \in Shared : LockRank[r] = LockRank[q] => r = q

\* Days are dates, and so are the ends of a window that has them.
ASSUME CalendarAssumption ==
  /\ Windows \subseteq [from : {None} \cup Int, to : {None} \cup Int]
  /\ Days \subseteq Int

VARIABLES
  state,          \* [Versions -> {"draft", "published", "withdrawn"}]
  window,         \* [Versions -> Windows]
  db,             \* [Rows -> Contents \cup {Absent}]: committed rows
  discrepancy,    \* [Versions -> {"none", "open", "resolved"}]
  permission,     \* [Users -> SUBSET Permissions]
  approvals,      \* ProcedureVersionReviewApproval rows
  audit,          \* ProcedureVersionAuditEvent rows with their approvals
  versionLock,    \* [Versions -> Txns \cup {None}]
  procedureLock,  \* [Procedures -> Txns \cup {None}]
  rowLock,        \* [Rows -> Txns \cup {None}]
  pc,             \* where each transaction stands
  job,            \* what it was asked to do
  seen,           \* the signature it is computing or has decided on
  accepted        \* the approvals its review decision accepted

lifecycle == <<state, window, audit>>
review    == <<permission, approvals, discrepancy>>
locks     == <<versionLock, procedureLock, rowLock>>
local     == <<pc, job, seen, accepted>>
vars      == <<state, window, db, discrepancy, permission, approvals, audit,
               versionLock, procedureLock, rowLock, pc, job, seen, accepted>>

-----------------------------------------------------------------------------
(* The reviewed state of a version and its signature. *)

Owned(v)   == {r \in Rows : v \in Owners[r]}
Present(v) == {r \in Owned(v) : db[r] # Absent}
Policy(v)  == db[PolicyRow[v]]

\* The signature is an injective digest, so it is the digested state itself.
Signature(v) ==
  [window |-> window[v],
   discrepancy |-> discrepancy[v],
   rows |-> [r \in Rows |-> IF r \in Owned(v) THEN db[r] ELSE Absent]]

\* Fault: the interval ends before its last day.
OverlapExclusive(a, b) ==
  /\ a.to = None \/ b.from = None \/ b.from < a.to
  /\ a.from = None \/ b.to = None \/ b.to > a.from

\* A NULL bound is unbounded and both bounds are inclusive.
Overlap(a, b) ==
  /\ a.to = None \/ b.from = None \/ b.from <= a.to
  /\ a.from = None \/ b.to = None \/ b.to >= a.from

Conflicts(v) ==
  {w \in Versions \ {v} : /\ state[w] = "published"
                          /\ ProcedureOf[w] = ProcedureOf[v]
                          /\ Overlap(window[v], window[w])}

-----------------------------------------------------------------------------
(* Review requirements. *)

PermissionFor(scope) == IF scope \in Risks THEN scope ELSE "review"

RequiredDimensions(v) ==
  Dimensions \cup (IF discrepancy[v] = "none" THEN {} ELSE {"discrepancy"})

RequiredScopes(v) ==
  Policy(v).risks \cup (IF Mode = "independent" THEN RequiredDimensions(v) ELSE {})

\* Fault: approvals of an earlier draft state still count.
AcceptedStaleApprovals(v, publisher) ==
  {a \in approvals : /\ a.version = v
                     /\ a.scope \in RequiredScopes(v)
                     /\ PermissionFor(a.scope) \in permission[a.reviewer]
                     /\ a.reviewer \notin {Policy(v).author, publisher}}

\* Fault: every fresh approval is captured, called for or not.
AcceptedUncalledApprovals(v, publisher) ==
  {a \in approvals : /\ a.version = v
                     /\ a.signature = Signature(v)
                     /\ PermissionFor(a.scope) \in permission[a.reviewer]
                     /\ a.reviewer \notin {Policy(v).author, publisher}}

\* Fresh approvals of the current state, by reviewers who still hold the
\* permission and are neither the accountable author nor the publisher.
AcceptedApprovals(v, publisher) ==
  {a \in approvals : /\ a.version = v
                     /\ a.signature = Signature(v)
                     /\ a.scope \in RequiredScopes(v)
                     /\ PermissionFor(a.scope) \in permission[a.reviewer]
                     /\ a.reviewer \notin {Policy(v).author, publisher}}

ReviewGate(v, publisher) ==
  /\ Policy(v) # Absent
  /\ \A s \in RequiredScopes(v) :
        \E a \in AcceptedApprovals(v, publisher) : a.scope = s

ContentGates(v)   == \A r \in Present(v) \ PolicyRows : db[r] \in Sound
DiscrepancyGate(v) == discrepancy[v] # "open"

PublicationGates(v, publisher) ==
  /\ state[v] = "draft"
  /\ Conflicts(v) = {}
  /\ ContentGates(v)
  /\ DiscrepancyGate(v)
  /\ ReviewGate(v, publisher)

-----------------------------------------------------------------------------
(* Transactions, their jobs and their row locks. *)

PublishJob == [version : Versions, user : Users, graph : SUBSET DependencyRows]
WithdrawJob == [version : Versions, user : Users]
ApproveJob == [version : Versions, user : Users, scope : Scopes]
WriteJob   == {j \in [row : Rows, value : Contents \cup {Absent}, adding : BOOLEAN] :
                 j.row \in PolicyRows => j.value \in Policies \cup {Absent}}

DecidedPcs  == {"publish_confirm", "publish_transition"}
GatePcs     == {"publish_graph"} \cup DecidedPcs
PublishPcs  == {"publish_procedure", "publish_rows"} \cup GatePcs
ApprovePcs  == {"approve_policy", "approve_read"}
WithdrawPcs == {"withdraw_procedure"}
WritePcs    == {"write_statement", "write_commit"}

Idle(t) == pc[t] = "idle"

Begin(t, at, what) ==
  /\ Idle(t)
  /\ pc' = [pc EXCEPT ![t] = at]
  /\ job' = [job EXCEPT ![t] = what]
  /\ UNCHANGED <<seen, accepted>>

Released(lock, t) == [k \in DOMAIN lock |-> IF lock[k] = t THEN None ELSE lock[k]]

\* The end of a transaction, by COMMIT or ROLLBACK: every row lock goes.
Finish(t) ==
  /\ pc' = [pc EXCEPT ![t] = "idle"]
  /\ job' = [job EXCEPT ![t] = None]
  /\ seen' = [seen EXCEPT ![t] = None]
  /\ accepted' = [accepted EXCEPT ![t] = {}]
  /\ versionLock' = Released(versionLock, t)
  /\ procedureLock' = Released(procedureLock, t)
  /\ rowLock' = Released(rowLock, t)

Init ==
  /\ state = [v \in Versions |-> "draft"]
  /\ window \in [Versions -> Windows]
  /\ \E provenance \in [Shared -> Values] :
        db = [r \in Rows |-> IF r \in Shared THEN provenance[r] ELSE Absent]
  /\ discrepancy = [v \in Versions |-> "none"]
  /\ permission = [u \in Users |-> {}]
  /\ approvals = {} /\ audit = {}
  /\ versionLock = [v \in Versions |-> None]
  /\ procedureLock = [p \in Procedures |-> None]
  /\ rowLock = [r \in Rows |-> None]
  /\ pc = [t \in Txns |-> "idle"]
  /\ job = [t \in Txns |-> None]
  /\ seen = [t \in Txns |-> None]
  /\ accepted = [t \in Txns |-> {}]

-----------------------------------------------------------------------------
(* publish_procedure_version *)

PublishLockVersion(t, v, u) ==
  /\ versionLock[v] = None
  /\ Begin(t, "publish_procedure", [version |-> v, user |-> u, graph |-> {}])
  /\ versionLock' = [versionLock EXCEPT ![v] = t]
  /\ UNCHANGED <<lifecycle, db, review, procedureLock, rowLock>>

PublishLockProcedure(t) ==
  LET p == ProcedureOf[job[t].version] IN
  /\ pc[t] = "publish_procedure"
  /\ procedureLock[p] = None
  /\ procedureLock' = [procedureLock EXCEPT ![p] = t]
  /\ pc' = [pc EXCEPT ![t] = "publish_rows"]
  /\ UNCHANGED <<lifecycle, db, review, versionLock, rowLock, job, seen, accepted>>

\* Fault: the publisher waits for rows whose insertion is not committed yet.
ToLockUncommitted(t) ==
  {r \in Owned(job[t].version) :
     (db[r] # Absent \/ rowLock[r] # None) /\ rowLock[r] # t}

\* The committed rows of the aggregate the publisher still has to lock.  A row
\* whose insertion is not committed is invisible to its SELECT ... FOR UPDATE.
ToLock(t) == {r \in Present(job[t].version) : rowLock[r] # t}

LowestToLock(t) == {r \in ToLock(t) : \A q \in ToLock(t) : LockRank[r] <= LockRank[q]}

PublishLockRow(t, r) ==
  /\ pc[t] = "publish_rows"
  /\ r \in LowestToLock(t)
  /\ rowLock[r] = None
  /\ rowLock' = [rowLock EXCEPT ![r] = t]
  /\ UNCHANGED <<lifecycle, db, review, versionLock, procedureLock, local>>

\* The cycle check reads the version's own dependencies and those of every version
\* published by now, whatever the gates before it said.
PublishGraph(t) ==
  LET v == job[t].version IN
  /\ pc[t] = "publish_rows"
  /\ ToLock(t) = {}
  /\ job' = [job EXCEPT ![t].graph =
       {r \in DependencyRows :
          db[r] # Absent /\ \A w \in Owners[r] : w = v \/ state[w] = "published"}]
  /\ pc' = [pc EXCEPT ![t] = "publish_graph"]
  /\ UNCHANGED <<lifecycle, db, review, locks, seen, accepted>>

\* What it has to lock of what it read: SELECT ... FOR UPDATE over the join takes
\* each dependency and the version that it is part of.
GraphToLock(t) ==
  {r \in job[t].graph : rowLock[r] # t \/ \E v \in Owners[r] : versionLock[v] # t}

LowestInGraph(t) ==
  {r \in GraphToLock(t) : \A q \in GraphToLock(t) : GraphRank[r] <= GraphRank[q]}

PublishLockDependency(t, r) ==
  /\ pc[t] = "publish_graph"
  /\ r \in LowestInGraph(t)
  /\ rowLock[r] = None
  /\ rowLock' = [rowLock EXCEPT ![r] = t]
  /\ UNCHANGED <<lifecycle, db, review, versionLock, procedureLock, local>>

PublishLockDependent(t, r) ==
  /\ pc[t] = "publish_graph"
  /\ r \in LowestInGraph(t)
  /\ rowLock[r] = t
  /\ \E v \in Owners[r] :
       /\ versionLock[v] = None
       /\ versionLock' = [versionLock EXCEPT ![v] = t]
  /\ UNCHANGED <<lifecycle, db, review, rowLock, procedureLock, local>>

\* Fault: the signature that was decided on is not kept.
PublishDecideUnsigned(t) ==
  LET v == job[t].version
      u == job[t].user
  IN
  /\ pc[t] = "publish_graph"
  /\ GraphToLock(t) = {}
  /\ PublicationGates(v, u)
  /\ accepted' = [accepted EXCEPT ![t] = AcceptedApprovals(v, u)]
  /\ pc' = [pc EXCEPT ![t] = "publish_confirm"]
  /\ UNCHANGED <<lifecycle, db, review, locks, job, seen>>

\* Every gate passed: the review decision is kept in memory for the transition,
\* while permissions may change in between.
PublishDecide(t) ==
  LET v == job[t].version
      u == job[t].user
  IN
  /\ pc[t] = "publish_graph"
  /\ GraphToLock(t) = {}
  /\ PublicationGates(v, u)
  /\ seen' = [seen EXCEPT ![t] = Signature(v)]
  /\ accepted' = [accepted EXCEPT ![t] = AcceptedApprovals(v, u)]
  /\ pc' = [pc EXCEPT ![t] = "publish_confirm"]
  /\ UNCHANGED <<lifecycle, db, review, locks, job>>

\* PublicationRejected: the whole transaction is rolled back.
PublishReject(t) ==
  /\ pc[t] = "publish_graph"
  /\ GraphToLock(t) = {}
  /\ ~PublicationGates(job[t].version, job[t].user)
  /\ Finish(t)
  /\ UNCHANGED <<lifecycle, db, review>>

\* The signature is computed again and compared with the decision.
PublishConfirm(t) ==
  /\ pc[t] = "publish_confirm"
  /\ IF seen[t] = Signature(job[t].version)
     THEN /\ pc' = [pc EXCEPT ![t] = "publish_transition"]
          /\ UNCHANGED <<locks, job, seen, accepted>>
     ELSE Finish(t)
  /\ UNCHANGED <<lifecycle, db, review>>

\* The state is updated only from draft and the exclusion constraint is checked
\* by the UPDATE; the audit event names the approvals that were accepted.
PublishTransition(t) ==
  LET v == job[t].version IN
  /\ pc[t] = "publish_transition"
  /\ IF state[v] = "draft" /\ Conflicts(v) = {}
     THEN /\ state' = [state EXCEPT ![v] = "published"]
          /\ audit' = audit \cup
               {[version |-> v, event |-> "published", actor |-> job[t].user,
                 signature |-> seen[t], approvals |-> accepted[t]]}
     ELSE UNCHANGED <<state, audit>>
  /\ Finish(t)
  /\ UNCHANGED <<window, db, review>>

-----------------------------------------------------------------------------
(* withdraw_procedure_version *)

WithdrawLockVersion(t, v, u) ==
  /\ versionLock[v] = None
  /\ Begin(t, "withdraw_procedure", [version |-> v, user |-> u])
  /\ versionLock' = [versionLock EXCEPT ![v] = t]
  /\ UNCHANGED <<lifecycle, db, review, procedureLock, rowLock>>

WithdrawTransition(t) ==
  LET v == job[t].version IN
  /\ pc[t] = "withdraw_procedure"
  /\ procedureLock[ProcedureOf[v]] = None
  /\ IF state[v] = "published"
     THEN /\ state' = [state EXCEPT ![v] = "withdrawn"]
          /\ audit' = audit \cup
               {[version |-> v, event |-> "withdrawn", actor |-> job[t].user,
                 signature |-> None, approvals |-> {}]}
     ELSE UNCHANGED <<state, audit>>
  /\ Finish(t)
  /\ UNCHANGED <<window, db, review>>

-----------------------------------------------------------------------------
(* approve_review_dimension and approve_specialist_risk *)

\* The permission is checked before the transaction opens.
ApproveLockVersion(t, v, u, s) ==
  /\ Cardinality(approvals) < MaxApprovals
  /\ PermissionFor(s) \in permission[u]
  /\ versionLock[v] = None
  /\ state[v] = "draft"
  /\ Begin(t, "approve_policy", [version |-> v, user |-> u, scope |-> s])
  /\ versionLock' = [versionLock EXCEPT ![v] = t]
  /\ UNCHANGED <<lifecycle, db, review, procedureLock, rowLock>>

ApprovalApplicable(v, u, s) ==
  /\ Policy(v) # Absent
  /\ u # Policy(v).author
  /\ s \in RequiredDimensions(v) \cup Policy(v).risks

\* Fault: the policy is read without its row lock.
ApproveReadPolicy(t) ==
  LET v == job[t].version IN
  /\ pc[t] = "approve_policy"
  /\ ApprovalApplicable(v, job[t].user, job[t].scope)
  /\ seen' = [seen EXCEPT ![t] =
       [window |-> window[v],
        discrepancy |-> discrepancy[v],
        rows |-> [r \in Rows |-> IF r \in Owned(v) THEN Unread ELSE Absent]]]
  /\ pc' = [pc EXCEPT ![t] = "approve_read"]
  /\ UNCHANGED <<lifecycle, db, review, locks, job, accepted>>

\* Only the policy row is locked: the signature is read row by row, by separate
\* statements, while other rows may change.
ApproveLockPolicy(t) ==
  LET v == job[t].version IN
  /\ pc[t] = "approve_policy"
  /\ rowLock[PolicyRow[v]] = None
  /\ ApprovalApplicable(v, job[t].user, job[t].scope)
  /\ rowLock' = [rowLock EXCEPT ![PolicyRow[v]] = t]
  /\ seen' = [seen EXCEPT ![t] =
       [window |-> window[v],
        discrepancy |-> discrepancy[v],
        rows |-> [r \in Rows |-> IF r \in Owned(v) THEN Unread ELSE Absent]]]
  /\ pc' = [pc EXCEPT ![t] = "approve_read"]
  /\ UNCHANGED <<lifecycle, db, review, versionLock, procedureLock, job, accepted>>

ApproveRefuse(t) ==
  LET v == job[t].version IN
  /\ pc[t] = "approve_policy"
  /\ Policy(v) # Absent => rowLock[PolicyRow[v]] = None
  /\ ~ApprovalApplicable(v, job[t].user, job[t].scope)
  /\ Finish(t)
  /\ UNCHANGED <<lifecycle, db, review>>

ToRead(t) == {r \in Rows : seen[t].rows[r] = Unread}

ApproveRead(t, r) ==
  /\ pc[t] = "approve_read"
  /\ r \in ToRead(t)
  /\ \A q \in ToRead(t) : ReadRank[r] <= ReadRank[q]
  /\ seen' = [seen EXCEPT ![t].rows[r] = db[r]]
  /\ UNCHANGED <<lifecycle, db, review, locks, pc, job, accepted>>

ApproveRecord(t) ==
  /\ pc[t] = "approve_read"
  /\ ToRead(t) = {}
  /\ approvals' = approvals \cup
       {[version |-> job[t].version, scope |-> job[t].scope,
         reviewer |-> job[t].user, signature |-> seen[t]]}
  /\ Finish(t)
  /\ UNCHANGED <<lifecycle, db, permission, discrepancy>>

-----------------------------------------------------------------------------
(* Ordinary editorial writes: Model.save() and Model.delete() of one row. *)

\* Fault: provenance is protected only once every citing version is published.
EditableByAnyDraft(r) == \E v \in Owners[r] : state[v] = "draft"

Editable(r) == \A v \in Owners[r] : state[v] = "draft"

Writable(r) == IF r \in PolicyRows THEN Policies ELSE Values

\* Model.save()/delete() reads the owner's state without locking it.
WriteBegin(t, r, value) ==
  /\ Editable(r)
  /\ value # db[r]
  /\ value \in Writable(r) \/ (value = Absent /\ r \notin Shared)
  /\ Begin(t, "write_statement",
           [row |-> r, value |-> value, adding |-> db[r] = Absent])
  /\ UNCHANGED <<lifecycle, db, review, locks>>

\* Fault: the write relies on the owner's state as it was before it waited.
WriteAllowedByEarlierCheck(t) ==
  LET r == job[t].row IN job[t].adding => db[r] = Absent

\* A row that is being added must not exist by now: its key is unique.  A row
\* that was loaded and has gone since is inserted again by save().
WriteAllowed(t) ==
  LET r == job[t].row IN Editable(r) /\ (job[t].adding => db[r] = Absent)

\* The statement takes the row (the unique key, for an insertion) and then its
\* BEFORE trigger reads the owner's state again, still without locking it.
WriteStatement(t) ==
  LET r == job[t].row IN
  /\ pc[t] = "write_statement"
  /\ rowLock[r] = None
  /\ WriteAllowed(t)
  /\ rowLock' = [rowLock EXCEPT ![r] = t]
  /\ pc' = [pc EXCEPT ![t] = "write_commit"]
  /\ UNCHANGED <<lifecycle, db, review, versionLock, procedureLock, job, seen, accepted>>

WriteRefuse(t) ==
  LET r == job[t].row IN
  /\ pc[t] = "write_statement"
  /\ rowLock[r] = None
  /\ ~WriteAllowed(t)
  /\ Finish(t)
  /\ UNCHANGED <<lifecycle, db, review>>

Inserts(t) == db[job[t].row] = Absent /\ job[t].value # Absent

\* COMMIT.  The deferred foreign key of an inserted row needs a KEY SHARE lock
\* on its owner, which waits for a FOR UPDATE holder and then succeeds.
WriteCommit(t) ==
  LET r == job[t].row IN
  /\ pc[t] = "write_commit"
  /\ Inserts(t) => \A v \in Owners[r] : versionLock[v] = None
  /\ db' = [db EXCEPT ![r] = job[t].value]
  /\ Finish(t)
  /\ UNCHANGED <<lifecycle, review>>

\* ProcedureVersion.save(): one UPDATE of the version row itself.
ReviseWindow(v, w) ==
  /\ versionLock[v] = None
  /\ state[v] = "draft"
  /\ w # window[v]
  /\ window' = [window EXCEPT ![v] = w]
  /\ UNCHANGED <<state, audit, db, review, locks, local>>

-----------------------------------------------------------------------------
(* The environment: the evidence workflow, user administration, failures. *)

\* Fault: the discrepancy does not wait for its anchor.
OpenDiscrepancyUnlocked(v) ==
  /\ \E r \in Disputable \cap Owned(v) : db[r] # Absent
  /\ discrepancy[v] = "none"
  /\ discrepancy' = [discrepancy EXCEPT ![v] = "open"]
  /\ UNCHANGED <<lifecycle, db, permission, approvals, locks, local>>

\* open_evidence_discrepancy locks the owning versions and the evidence.  The Admin
\* form locks nothing: its deferred foreign key alone waits for the evidence it names.
OpenDiscrepancy(v) ==
  /\ \E r \in Disputable \cap Owned(v) : db[r] # Absent /\ rowLock[r] = None
  /\ discrepancy[v] = "none"
  /\ discrepancy' = [discrepancy EXCEPT ![v] = "open"]
  /\ UNCHANGED <<lifecycle, db, permission, approvals, locks, local>>

\* resolve_evidence_discrepancy locks the discrepancy row only.
ResolveDiscrepancy(v) ==
  /\ discrepancy[v] = "open"
  /\ discrepancy' = [discrepancy EXCEPT ![v] = "resolved"]
  /\ UNCHANGED <<lifecycle, db, permission, approvals, locks, local>>

SetPermission(u, p) ==
  /\ permission' = [permission EXCEPT ![u] = IF p \in @ THEN @ \ {p} ELSE @ \cup {p}]
  /\ UNCHANGED <<lifecycle, db, approvals, discrepancy, locks, local>>

\* A worker dies, a statement fails or the connection is lost: ROLLBACK.
Crash(t) ==
  /\ ~Idle(t)
  /\ Finish(t)
  /\ UNCHANGED <<lifecycle, db, review>>

-----------------------------------------------------------------------------
\* What a transaction does once it is under way.
Continue(t) ==
  \/ PublishLockProcedure(t)
  \/ \E r \in Rows : PublishLockRow(t, r)
  \/ PublishGraph(t)
  \/ \E r \in DependencyRows : PublishLockDependency(t, r)
  \/ \E r \in DependencyRows : PublishLockDependent(t, r)
  \/ PublishDecide(t)
  \/ PublishReject(t)
  \/ PublishConfirm(t)
  \/ PublishTransition(t)
  \/ WithdrawTransition(t)
  \/ ApproveLockPolicy(t)
  \/ ApproveRefuse(t)
  \/ \E r \in Rows : ApproveRead(t, r)
  \/ ApproveRecord(t)
  \/ WriteStatement(t)
  \/ WriteRefuse(t)
  \/ WriteCommit(t)

Start(t) ==
  \/ \E v \in Versions, u \in Users : PublishLockVersion(t, v, u)
  \/ \E v \in Versions, u \in Users : WithdrawLockVersion(t, v, u)
  \/ \E v \in Versions, u \in Users, s \in Scopes : ApproveLockVersion(t, v, u, s)
  \/ \E r \in Rows, value \in Contents \cup {Absent} : WriteBegin(t, r, value)

Environment ==
  \/ \E v \in Versions, w \in Windows : ReviseWindow(v, w)
  \/ \E v \in Versions : OpenDiscrepancy(v)
  \/ \E v \in Versions : ResolveDiscrepancy(v)
  \/ \E u \in Users, p \in Permissions : SetPermission(u, p)

Next ==
  \/ \E t \in Txns : Continue(t) \/ Start(t) \/ Crash(t)
  \/ Environment

Spec == Init /\ [][Next]_vars

-----------------------------------------------------------------------------
(* What the module promises. *)

ReviewedStates ==
  [window : Windows, discrepancy : {"none", "open", "resolved"},
   rows : [Rows -> Contents \cup {Absent, Unread}]]

AuditRows ==
  [version : Versions, event : {"published"}, actor : Users,
   signature : ReviewedStates, approvals : SUBSET approvals]
  \cup
  [version : Versions, event : {"withdrawn"}, actor : Users,
   signature : {None}, approvals : {{}}]

\* A transaction has the job, and the signature in hand, that its step needs.
InHand(t) ==
  /\ pc[t] = "idle" => job[t] = None
  /\ pc[t] \in PublishPcs => job[t] \in PublishJob
  /\ pc[t] \in WithdrawPcs => job[t] \in WithdrawJob
  /\ pc[t] \in ApprovePcs => job[t] \in ApproveJob
  /\ pc[t] \in WritePcs => job[t] \in WriteJob
  /\ pc[t] \in DecidedPcs \cup {"approve_read"} => seen[t] \in ReviewedStates

StoreOK ==
  /\ state \in [Versions -> {"draft", "published", "withdrawn"}]
  /\ window \in [Versions -> Windows]
  /\ db \in [Rows -> Contents \cup {Absent}]
  /\ \A r \in PolicyRows : db[r] \in Policies \cup {Absent}
  /\ discrepancy \in [Versions -> {"none", "open", "resolved"}]
  /\ permission \in [Users -> SUBSET Permissions]
  /\ approvals \subseteq [version : Versions, scope : Scopes, reviewer : Users,
                          signature : ReviewedStates]
  /\ audit \subseteq AuditRows

LocksOK ==
  /\ versionLock \in [Versions -> Txns \cup {None}]
  /\ procedureLock \in [Procedures -> Txns \cup {None}]
  /\ rowLock \in [Rows -> Txns \cup {None}]

LocalOK ==
  /\ pc \in [Txns -> {"idle"} \cup PublishPcs \cup WithdrawPcs \cup ApprovePcs \cup WritePcs]
  /\ job \in [Txns -> PublishJob \cup WithdrawJob \cup ApproveJob \cup WriteJob \cup {None}]
  /\ seen \in [Txns -> ReviewedStates \cup {None}]
  /\ accepted \in [Txns -> SUBSET approvals]
  /\ \A t \in Txns : InHand(t)

(* Every variable has its type, and a transaction has in hand what the step it
   is at works on (its job, and the signature it reads or decided on).        *)
TypeOK == StoreOK /\ LocksOK /\ LocalOK

Publications == {e \in audit : e.event = "published"}

\* A publisher keeps its version; once its gates began it holds every row of it.
PublishersHold(t) ==
  /\ pc[t] \in PublishPcs => versionLock[job[t].version] = t
  /\ pc[t] \in GatePcs => \A r \in Present(job[t].version) : rowLock[r] = t

\* A writer that passed the trigger holds its row, whose owners are still drafts
\* unless it is inserting the row.
WritersHold(t) ==
  pc[t] = "write_commit" =>
    /\ rowLock[job[t].row] = t
    /\ db[job[t].row] # Absent => Editable(job[t].row)

(* Publishers and writers exclude each other by row locks: the publisher's cover
   everything its gates saw, and no version is published under a writer that was
   let through while it was a draft, insertions excepted.                     *)
LockDiscipline == \A t \in Txns : PublishersHold(t) /\ WritersHold(t)

DecisionStands(t) ==
  LET v == job[t].version IN
  /\ seen[t] = Signature(v)
  /\ ContentGates(v) /\ DiscrepancyGate(v) /\ Policy(v) # Absent

(* What a publisher decided on stays what the database holds until it publishes:
   its second comparison of the signatures never fails, and what the gates
   required of the content and of the discrepancies is still so.              *)
DecisionsStand == \A t \in Txns : pc[t] \in DecidedPcs => DecisionStands(t)

(* What the gates saw of a version when it was published (its window and every
   row of its aggregate) is what the database holds from then on: no edit that
   was under way, and none that comes later, changes or deletes any of it.    *)
PublishedContentPreserved ==
  \A e \in Publications :
    /\ window[e.version] = e.signature.window
    /\ \A r \in Rows : e.signature.rows[r] # Absent => db[r] = e.signature.rows[r]

\* Everything the reviewed state asks for is approved by others, in set by.
Reviewed(v, signature, publisher, by) ==
  LET policy == signature.rows[PolicyRow[v]]
      required == policy.risks \cup
        (IF Mode = "solo" THEN {}
         ELSE Dimensions \cup
              (IF signature.discrepancy = "none" THEN {} ELSE {"discrepancy"}))
  IN \A s \in required : \E a \in by :
        /\ a \in approvals
        /\ a.version = v /\ a.scope = s /\ a.signature = signature
        /\ a.reviewer # publisher /\ a.reviewer # policy.author

(* Every scope that a published version's own policy and the deployment's mode
   require was approved, for exactly the published state, by somebody who is
   neither its author nor its publisher; the audit event names that approval. *)
PublishedStateReviewed ==
  \A e \in Publications : Reviewed(e.version, e.signature, e.actor, e.approvals)

(* Solo publication captures specialist approvals only, and no publication
   captures an approval that its mode and risks did not call for.             *)
AuditCapturesOnlyConsumed ==
  \A e \in Publications : \A a \in e.approvals :
    \/ a.scope \in e.signature.rows[PolicyRow[e.version]].risks
    \/ Mode = "independent" /\ a.scope \in Dimensions \cup {"discrepancy"}

(* The gates run some steps before the state changes.  What they required of
   the content, the discrepancies and the other versions of the Procedure still
   holds at the instant a version becomes public.                             *)
GatesHoldAtCommit ==
  [][\A v \in Versions : state[v] = "draft" /\ state'[v] = "published" =>
        ContentGates(v) /\ DiscrepancyGate(v) /\ Conflicts(v) = {} /\ Policy(v) # Absent]_vars

(* An approval is only ever added, and only to a version that is a draft by a
   reviewer who is not its author at that instant, though the approver read the
   policy and the state some steps before.                                    *)
ApprovalsOfDraftsByOthers ==
  [][/\ approvals \subseteq approvals'
     /\ \A a \in approvals' \ approvals :
          /\ state[a.version] = "draft"
          /\ Policy(a.version) # Absent
          /\ a.reviewer # Policy(a.version).author]_vars

InForce(v, day) ==
  /\ state[v] = "published"
  /\ window[v].from = None \/ window[v].from <= day
  /\ window[v].to = None \/ day <= window[v].to

(* On any day at most one published version of a Procedure is in force.       *)
OneVersionInForce ==
  \A v, w \in Versions : \A day \in Days :
    ProcedureOf[v] = ProcedureOf[w] /\ InForce(v, day) /\ InForce(w, day) => v = w

(* The audit trail tells each version's state and who brought it there: one
   publication event unless draft, one withdrawal event iff withdrawn.        *)
AuditTellsState ==
  \A v \in Versions :
    /\ Cardinality({e \in audit : e.version = v /\ e.event = "published"})
         = IF state[v] = "draft" THEN 0 ELSE 1
    /\ Cardinality({e \in audit : e.version = v /\ e.event = "withdrawn"})
         = IF state[v] = "withdrawn" THEN 1 ELSE 0

(* The audit trail is true of what happened: it tells the state of every
   version, and as the basis of a publication only what that publication
   consumed, whichever approvals the table still holds.                       *)
AuditIsTrue == AuditTellsState /\ AuditCapturesOnlyConsumed

\* The rows a version was published with, as the database holds them now.
Captured(v) ==
  {r \in Rows : \E e \in Publications : e.version = v /\ e.signature.rows[r] # Absent}

LiveSnapshot(v) ==
  IF state[v] = "draft" THEN None
  ELSE [window |-> window[v], rows |-> [r \in Captured(v) |-> db[r]]]

AllSnapshots ==
  [window : Windows, rows : UNION {[S -> Contents] : S \in SUBSET Rows}]

Lifecycle == INSTANCE VersionLifecycle
  WITH Snapshots <- AllSnapshots, snapshot <- [v \in Versions |-> LiveSnapshot(v)]

(* The live rows of published versions behave as the lifecycle's frozen
   snapshots: no step of any transaction does more than publish or withdraw
   one version, and no two published snapshots of a Procedure overlap.        *)
ImplementsLifecycle == Lifecycle!Spec

\* The row locks that the next statement of t needs are held by u.
Waits(t, u) ==
  \/ /\ pc[t] \in {"publish_procedure", "withdraw_procedure"}
     /\ procedureLock[ProcedureOf[job[t].version]] = u
  \/ pc[t] = "publish_rows" /\ \E r \in LowestToLock(t) : rowLock[r] = u
  \/ /\ pc[t] = "publish_graph"
     /\ \E r \in LowestInGraph(t) :
          IF rowLock[r] # t THEN rowLock[r] = u ELSE \E v \in Owners[r] : versionLock[v] = u
  \/ pc[t] = "approve_policy" /\ Policy(job[t].version) # Absent
       /\ rowLock[PolicyRow[job[t].version]] = u
  \/ pc[t] = "write_statement" /\ rowLock[job[t].row] = u
  \/ pc[t] = "write_commit" /\ Inserts(t) /\ \E v \in Owners[job[t].row] : versionLock[v] = u

\* A circle of transactions each of which waits for another one of it, of any length.
Deadlocked(S) == S # {} /\ \A t \in S : \E u \in S : Waits(t, u)

(* The locks that publishers, withdrawals, approvers and writers take before the
   gates come in one order: whoever waits in a circle does so with a publisher
   whose gates are running, for the cycle check locks published versions while
   the publisher holds its own version, its Procedure and its rows.           *)
DeadlocksNeedTheGates ==
  \A S \in SUBSET Txns : Deadlocked(S) => \E t \in S : pc[t] = "publish_graph"

\* Too strong, and checked by no run: see README, "Findings and known gaps".
NeverDeadlocked == \A S \in SUBSET Txns : ~Deadlocked(S)

(* The whole public aggregate is the one that was gated and signed: a published
   version never gains a row (docs/architecture/knowledge-publication.md).    *)
PublishedAggregateClosed ==
  \A e \in Publications :
    \A r \in Owned(e.version) : e.signature.rows[r] = Absent => db[r] = Absent
=============================================================================
