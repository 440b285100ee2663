------------------------- MODULE Publication_proofs -------------------------
(***************************************************************************)
(* Proofs about Publication, for every value of its constants.             *)
(***************************************************************************)
EXTENDS Publication, FiniteSetTheorems, WellFoundedInduction, TLAPS

\* The program counters of a publisher whose gates passed are known throughout.
USE DEF DecidedPcs, GatePcs

-----------------------------------------------------------------------------
(* Types. *)

\* The signature of a well-typed version is a reviewed state.
LEMMA SignatureType ==
  ASSUME StoreOK, NEW v \in Versions
  PROVE  Signature(v) \in ReviewedStates
  BY DEF StoreOK, Signature, ReviewedStates

LEMMA InitTypeOK == Init => TypeOK
<1> SUFFICES ASSUME Init PROVE TypeOK OBVIOUS
<1>1. StoreOK
  BY ConstantsAssumption, MarkersAssumption
  DEF Init, StoreOK, Contents, PolicyRows, AuditRows, Permissions
<1>2. LocksOK BY DEF Init, LocksOK
<1>3. LocalOK
  BY DEF Init, LocalOK, InHand, PublishPcs, WithdrawPcs, ApprovePcs, WritePcs
<1> QED BY <1>1, <1>2, <1>3 DEF TypeOK

\* The end of a transaction leaves well-typed locks and local state behind.
LEMMA FinishType ==
  ASSUME TypeOK, NEW t \in Txns, Finish(t), approvals \subseteq approvals'
  PROVE  LocksOK' /\ LocalOK'
<1>1. LocksOK'
  BY DEF TypeOK, LocksOK, Finish, Released
<1>2. pc' \in [Txns -> {"idle"} \cup PublishPcs \cup WithdrawPcs \cup ApprovePcs \cup WritePcs]
  BY DEF TypeOK, LocalOK, Finish
<1>3. job' \in [Txns -> PublishJob \cup WithdrawJob \cup ApproveJob \cup WriteJob \cup {None}]
  BY DEF TypeOK, LocalOK, Finish
<1>4. seen' \in [Txns -> ReviewedStates \cup {None}]
  BY DEF TypeOK, LocalOK, Finish
<1>5. accepted' \in [Txns -> SUBSET approvals']
  BY DEF TypeOK, LocalOK, Finish
<1>6. ASSUME NEW s \in Txns PROVE InHand(s)'
  BY DEF TypeOK, LocalOK, Finish, InHand, PublishPcs, WithdrawPcs, ApprovePcs, WritePcs
<1> QED BY <1>1, <1>2, <1>3, <1>4, <1>5, <1>6 DEF LocalOK

\* Taking up a job leaves everything else about the transactions as it was.
LEMMA BeginType ==
  ASSUME TypeOK, NEW t \in Txns, NEW at, NEW what, Begin(t, at, what),
         UNCHANGED approvals,
         \/ at \in PublishPcs /\ what \in PublishJob
         \/ at \in WithdrawPcs /\ what \in WithdrawJob
         \/ at = "approve_policy" /\ what \in ApproveJob
         \/ at = "write_statement" /\ what \in WriteJob,
         at \notin DecidedPcs
  PROVE  LocalOK'
<1>1. at \in PublishPcs \cup WithdrawPcs \cup ApprovePcs \cup WritePcs
  BY DEF ApprovePcs, WritePcs
<1>2. what \in PublishJob \cup WithdrawJob \cup ApproveJob \cup WriteJob
  OBVIOUS
<1>3. /\ pc' = [pc EXCEPT ![t] = at] /\ job' = [job EXCEPT ![t] = what]
      /\ UNCHANGED <<seen, accepted>>
  BY DEF Begin
<1>4. ASSUME NEW s \in Txns PROVE InHand(s)'
  BY <1>3 DEF TypeOK, LocalOK, InHand, PublishPcs, WithdrawPcs, ApprovePcs, WritePcs
<1> QED BY <1>1, <1>2, <1>3, <1>4 DEF TypeOK, LocalOK

\* The store is untouched by a step that leaves its eight variables alone.
LEMMA StoreUnchanged ==
  ASSUME StoreOK, UNCHANGED <<lifecycle, db, review>>
  PROVE  StoreOK'
  BY DEF StoreOK, lifecycle, review, AuditRows

LEMMA LocksUnchanged ==
  ASSUME LocksOK, UNCHANGED locks
  PROVE  LocksOK'
  BY DEF LocksOK, locks

LEMMA LocalUnchanged ==
  ASSUME LocalOK, UNCHANGED local, UNCHANGED approvals
  PROVE  LocalOK'
  BY DEF LocalOK, local, InHand

LEMMA PublishStepsTypeOK ==
  ASSUME TypeOK, NEW t \in Txns,
         \/ PublishLockProcedure(t)
         \/ \E r \in Rows : PublishLockRow(t, r)
         \/ PublishGraph(t)
         \/ \E r \in DependencyRows : PublishLockDependency(t, r)
         \/ \E r \in DependencyRows : PublishLockDependent(t, r)
         \/ PublishDecide(t)
         \/ PublishReject(t)
         \/ PublishConfirm(t)
         \/ PublishTransition(t)
  PROVE  TypeOK'
<1> USE DEF TypeOK
<1>1. CASE PublishLockProcedure(t)
  <2>1. StoreOK' BY <1>1, StoreUnchanged DEF PublishLockProcedure
  <2>2. LocksOK' BY <1>1 DEF PublishLockProcedure, LocksOK
  <2>3. LocalOK'
    BY <1>1 DEF PublishLockProcedure, LocalOK, InHand, PublishPcs, WithdrawPcs, ApprovePcs,
                WritePcs, review
  <2> QED BY <2>1, <2>2, <2>3
<1>2. CASE \E r \in Rows : PublishLockRow(t, r)
  <2>1. StoreOK' BY <1>2, StoreUnchanged DEF PublishLockRow
  <2>2. LocksOK' BY <1>2 DEF PublishLockRow, LocksOK
  <2>3. LocalOK' BY <1>2, LocalUnchanged DEF PublishLockRow, review
  <2> QED BY <2>1, <2>2, <2>3
<1>7. CASE PublishGraph(t)
  <2>1. StoreOK' BY <1>7, StoreUnchanged DEF PublishGraph
  <2>2. LocksOK' BY <1>7, LocksUnchanged DEF PublishGraph
  <2>3. job[t] \in PublishJob
    BY <1>7 DEF PublishGraph, LocalOK, InHand, PublishPcs
  <2>4. PICK g \in SUBSET DependencyRows : job' = [job EXCEPT ![t].graph = g]
    BY <1>7 DEF PublishGraph
  <2>5. [job[t] EXCEPT !.graph = g] \in PublishJob
    BY <2>3 DEF PublishJob
  <2>6. job' = [job EXCEPT ![t] = [job[t] EXCEPT !.graph = g]]
    BY <2>4 DEF LocalOK
  <2>7. pc' = [pc EXCEPT ![t] = "publish_graph"] /\ UNCHANGED <<seen, accepted, approvals>>
    BY <1>7 DEF PublishGraph, review
  <2>8. LocalOK'
    BY <2>5, <2>6, <2>7
    DEF LocalOK, InHand, PublishPcs, WithdrawPcs, ApprovePcs, WritePcs
  <2> QED BY <2>1, <2>2, <2>8
<1>8. ASSUME NEW r \in DependencyRows, PublishLockDependency(t, r) \/ PublishLockDependent(t, r)
      PROVE  TypeOK'
  <2>1. r \in Rows /\ Owners[r] \subseteq Versions BY ConstantsAssumption
  <2>2. StoreOK' BY <1>8, StoreUnchanged DEF PublishLockDependency, PublishLockDependent
  <2>3. LocksOK' BY <1>8, <2>1 DEF PublishLockDependency, PublishLockDependent, LocksOK
  <2>4. LocalOK'
    BY <1>8, LocalUnchanged DEF PublishLockDependency, PublishLockDependent, review
  <2> QED BY <2>2, <2>3, <2>4
<1>3. CASE PublishDecide(t)
  <2>1. StoreOK' BY <1>3, StoreUnchanged DEF PublishDecide
  <2>2. LocksOK' BY <1>3, LocksUnchanged DEF PublishDecide
  <2>3. job[t].version \in Versions
    BY <1>3 DEF PublishDecide, LocalOK, InHand, PublishPcs, WithdrawPcs, PublishJob
  <2>4. Signature(job[t].version) \in ReviewedStates BY <2>3, SignatureType
  <2>5. AcceptedApprovals(job[t].version, job[t].user) \in SUBSET approvals
    BY DEF AcceptedApprovals
  <2>6. LocalOK'
    BY <1>3, <2>4, <2>5
    DEF PublishDecide, LocalOK, InHand, PublishPcs, WithdrawPcs, ApprovePcs, WritePcs, review
  <2> QED BY <2>1, <2>2, <2>6
<1>4. CASE PublishReject(t)
  BY <1>4, FinishType, StoreUnchanged DEF PublishReject, review
<1>5. CASE PublishTransition(t)
  <2>1. LocksOK' /\ LocalOK' BY <1>5, FinishType DEF PublishTransition, review
  <2>2. job[t] \in PublishJob /\ seen[t] \in ReviewedStates /\ accepted[t] \in SUBSET approvals
    BY <1>5 DEF PublishTransition, LocalOK, InHand, PublishPcs, WithdrawPcs
  <2>3. [version |-> job[t].version, event |-> "published", actor |-> job[t].user,
         signature |-> seen[t], approvals |-> accepted[t]] \in AuditRows
    BY <2>2 DEF AuditRows, PublishJob
  <2>4. state' \in [Versions -> {"draft", "published", "withdrawn"}]
    BY <1>5, <2>2 DEF PublishTransition, StoreOK, PublishJob
  <2>5. audit' \subseteq AuditRows' BY <1>5, <2>3 DEF PublishTransition, StoreOK, AuditRows, review
  <2>6. StoreOK' BY <1>5, <2>4, <2>5 DEF PublishTransition, StoreOK, review
  <2> QED BY <2>1, <2>6
<1>6. CASE PublishConfirm(t)
  <2>1. StoreOK' BY <1>6, StoreUnchanged DEF PublishConfirm
  <2>2. CASE Finish(t) BY <1>6, <2>1, <2>2, FinishType DEF PublishConfirm, review
  <2>3. CASE ~Finish(t)
    <3>1. LocksOK' BY <1>6, <2>3, LocksUnchanged DEF PublishConfirm
    <3>2. LocalOK'
      BY <1>6, <2>3
      DEF PublishConfirm, LocalOK, InHand, PublishPcs, WithdrawPcs, ApprovePcs, WritePcs, review
    <3> QED BY <2>1, <3>1, <3>2
  <2> QED BY <2>2, <2>3
<1> QED BY <1>1, <1>2, <1>3, <1>4, <1>5, <1>6, <1>7, <1>8

LEMMA WithdrawStepTypeOK ==
  ASSUME TypeOK, NEW t \in Txns, WithdrawTransition(t)
  PROVE  TypeOK'
<1> USE DEF TypeOK
<1>1. LocksOK' /\ LocalOK' BY FinishType DEF WithdrawTransition, review
<1>2. job[t] \in WithdrawJob
  BY DEF WithdrawTransition, LocalOK, InHand, WithdrawPcs
<1>3. [version |-> job[t].version, event |-> "withdrawn", actor |-> job[t].user,
       signature |-> None, approvals |-> {}] \in AuditRows
  BY <1>2 DEF AuditRows, WithdrawJob
<1>4. state' \in [Versions -> {"draft", "published", "withdrawn"}]
  BY <1>2 DEF WithdrawTransition, StoreOK, WithdrawJob
<1>5. audit' \subseteq AuditRows' BY <1>3 DEF WithdrawTransition, StoreOK, AuditRows, review
<1>6. StoreOK' BY <1>4, <1>5 DEF WithdrawTransition, StoreOK, review
<1> QED BY <1>1, <1>6

LEMMA ApproveStepsTypeOK ==
  ASSUME TypeOK, NEW t \in Txns,
         \/ ApproveLockPolicy(t)
         \/ ApproveRefuse(t)
         \/ \E r \in Rows : ApproveRead(t, r)
         \/ ApproveRecord(t)
  PROVE  TypeOK'
<1> USE DEF TypeOK
<1>1. CASE ApproveLockPolicy(t)
  <2>1. StoreOK' BY <1>1, StoreUnchanged DEF ApproveLockPolicy
  <2>2. LocksOK' BY <1>1 DEF ApproveLockPolicy, LocksOK
  <2>3. job[t].version \in Versions
    BY <1>1 DEF ApproveLockPolicy, LocalOK, InHand, ApprovePcs, ApproveJob
  <2>4. [window |-> window[job[t].version],
         discrepancy |-> discrepancy[job[t].version],
         rows |-> [r \in Rows |-> IF r \in Owned(job[t].version) THEN Unread ELSE Absent]]
          \in ReviewedStates
    BY <2>3 DEF ReviewedStates, StoreOK
  <2>5. LocalOK'
    BY <1>1, <2>4
    DEF ApproveLockPolicy, LocalOK, InHand, PublishPcs, WithdrawPcs, ApprovePcs, WritePcs, review
  <2> QED BY <2>1, <2>2, <2>5
<1>2. CASE ApproveRefuse(t)
  BY <1>2, FinishType, StoreUnchanged DEF ApproveRefuse, review
<1>3. ASSUME NEW r \in Rows, ApproveRead(t, r) PROVE TypeOK'
  <2>1. StoreOK' BY <1>3, StoreUnchanged DEF ApproveRead
  <2>2. LocksOK' BY <1>3, LocksUnchanged DEF ApproveRead
  <2>3. seen[t] \in ReviewedStates BY <1>3 DEF ApproveRead, LocalOK, InHand
  <2>4. [seen[t] EXCEPT !.rows[r] = db[r]] \in ReviewedStates
    BY <2>3 DEF ReviewedStates, StoreOK
  <2>5. seen' = [seen EXCEPT ![t] = [seen[t] EXCEPT !.rows[r] = db[r]]]
    BY <1>3 DEF ApproveRead, LocalOK
  <2>6. LocalOK'
    BY <1>3, <2>4, <2>5
    DEF ApproveRead, LocalOK, InHand, PublishPcs, WithdrawPcs, ApprovePcs, WritePcs, review
  <2> QED BY <2>1, <2>2, <2>6
<1>4. CASE ApproveRecord(t)
  <2>1. job[t] \in ApproveJob /\ seen[t] \in ReviewedStates
    BY <1>4 DEF ApproveRecord, LocalOK, InHand, ApprovePcs
  <2>2. [version |-> job[t].version, scope |-> job[t].scope,
         reviewer |-> job[t].user, signature |-> seen[t]]
           \in [version : Versions, scope : Scopes, reviewer : Users, signature : ReviewedStates]
    BY <2>1 DEF ApproveJob
  <2>3. approvals \subseteq approvals' BY <1>4 DEF ApproveRecord
  <2>4. LocksOK' /\ LocalOK' BY <1>4, <2>3, FinishType DEF ApproveRecord
  <2>5. audit' \subseteq AuditRows'
    BY <1>4, <2>3 DEF ApproveRecord, StoreOK, AuditRows, lifecycle
  <2>6. StoreOK' BY <1>4, <2>2, <2>5 DEF ApproveRecord, StoreOK, lifecycle
  <2> QED BY <2>4, <2>6
<1> QED BY <1>1, <1>2, <1>3, <1>4

LEMMA WriteStepsTypeOK ==
  ASSUME TypeOK, NEW t \in Txns, WriteStatement(t) \/ WriteRefuse(t) \/ WriteCommit(t)
  PROVE  TypeOK'
<1> USE DEF TypeOK
<1>1. CASE WriteStatement(t)
  <2>1. StoreOK' BY <1>1, StoreUnchanged DEF WriteStatement
  <2>2. LocksOK' BY <1>1 DEF WriteStatement, LocksOK
  <2>3. LocalOK'
    BY <1>1 DEF WriteStatement, LocalOK, InHand, PublishPcs, WithdrawPcs, ApprovePcs,
                WritePcs, review
  <2> QED BY <2>1, <2>2, <2>3
<1>2. CASE WriteRefuse(t)
  BY <1>2, FinishType, StoreUnchanged DEF WriteRefuse, review
<1>3. CASE WriteCommit(t)
  <2>1. LocksOK' /\ LocalOK' BY <1>3, FinishType DEF WriteCommit, review
  <2>2. job[t] \in WriteJob BY <1>3 DEF WriteCommit, LocalOK, InHand, WritePcs
  <2>3. StoreOK'
    BY <1>3, <2>2 DEF WriteCommit, WriteJob, StoreOK, AuditRows, lifecycle, review
  <2> QED BY <2>1, <2>3
<1> QED BY <1>1, <1>2, <1>3

LEMMA StartTypeOK ==
  ASSUME TypeOK, NEW t \in Txns, Start(t)
  PROVE  TypeOK'
<1> USE DEF TypeOK
<1>1. ASSUME NEW v \in Versions, NEW u \in Users,
             PublishLockVersion(t, v, u) \/ WithdrawLockVersion(t, v, u)
      PROVE  TypeOK'
  <2>1. /\ [version |-> v, user |-> u, graph |-> {}] \in PublishJob
        /\ [version |-> v, user |-> u] \in WithdrawJob
    BY DEF PublishJob, WithdrawJob
  <2>2. LocalOK'
    BY <1>1, <2>1, BeginType
    DEF PublishLockVersion, WithdrawLockVersion, PublishPcs, WithdrawPcs, review
  <2>3. StoreOK' BY <1>1, StoreUnchanged DEF PublishLockVersion, WithdrawLockVersion
  <2>4. LocksOK' BY <1>1 DEF PublishLockVersion, WithdrawLockVersion, LocksOK
  <2> QED BY <2>2, <2>3, <2>4
<1>2. ASSUME NEW v \in Versions, NEW u \in Users, NEW s \in Scopes, ApproveLockVersion(t, v, u, s)
      PROVE  TypeOK'
  <2>1. [version |-> v, user |-> u, scope |-> s] \in ApproveJob BY DEF ApproveJob
  <2>2. LocalOK' BY <1>2, <2>1, BeginType DEF ApproveLockVersion, review
  <2>3. StoreOK' BY <1>2, StoreUnchanged DEF ApproveLockVersion
  <2>4. LocksOK' BY <1>2 DEF ApproveLockVersion, LocksOK
  <2> QED BY <2>2, <2>3, <2>4
<1>3. ASSUME NEW r \in Rows, NEW value \in Contents \cup {Absent}, WriteBegin(t, r, value)
      PROVE  TypeOK'
  <2>1. [row |-> r, value |-> value, adding |-> db[r] = Absent] \in WriteJob
    BY <1>3 DEF WriteBegin, WriteJob, Writable
  <2>2. LocalOK' BY <1>3, <2>1, BeginType DEF WriteBegin, review
  <2>3. StoreOK' BY <1>3, StoreUnchanged DEF WriteBegin
  <2>4. LocksOK' BY <1>3, LocksUnchanged DEF WriteBegin
  <2> QED BY <2>2, <2>3, <2>4
<1> QED BY <1>1, <1>2, <1>3 DEF Start

LEMMA EnvironmentTypeOK ==
  ASSUME TypeOK, Environment
  PROVE  TypeOK'
<1> USE DEF TypeOK
<1>1. LocksOK'
  BY LocksUnchanged
  DEF Environment, ReviseWindow, OpenDiscrepancy, ResolveDiscrepancy, SetPermission
<1>2. LocalOK'
  BY LocalUnchanged
  DEF Environment, ReviseWindow, OpenDiscrepancy, ResolveDiscrepancy, SetPermission, review
<1>3. ASSUME NEW v \in Versions, NEW w \in Windows, ReviseWindow(v, w) PROVE StoreOK'
  BY <1>3 DEF ReviseWindow, StoreOK, AuditRows, review
<1>4. ASSUME NEW v \in Versions, OpenDiscrepancy(v) \/ ResolveDiscrepancy(v) PROVE StoreOK'
  BY <1>4 DEF OpenDiscrepancy, ResolveDiscrepancy, StoreOK, AuditRows, lifecycle
<1>5. ASSUME NEW u \in Users, NEW p \in Permissions, SetPermission(u, p) PROVE StoreOK'
  <2>1. permission' \in [Users -> SUBSET Permissions]
    BY <1>5 DEF SetPermission, StoreOK
  <2> QED BY <1>5, <2>1 DEF SetPermission, StoreOK, AuditRows, lifecycle
<1> QED BY <1>1, <1>2, <1>3, <1>4, <1>5 DEF Environment

LEMMA StepTypeOK == TypeOK /\ [Next]_vars => TypeOK'
<1> SUFFICES ASSUME TypeOK, [Next]_vars PROVE TypeOK' OBVIOUS
<1>1. ASSUME NEW t \in Txns, Continue(t) PROVE TypeOK'
  BY <1>1, PublishStepsTypeOK, WithdrawStepTypeOK, ApproveStepsTypeOK, WriteStepsTypeOK DEF Continue
<1>2. ASSUME NEW t \in Txns, Start(t) PROVE TypeOK' BY <1>2, StartTypeOK
<1>3. ASSUME NEW t \in Txns, Crash(t) PROVE TypeOK'
  BY <1>3, FinishType, StoreUnchanged DEF TypeOK, Crash, review
<1>4. CASE Environment BY <1>4, EnvironmentTypeOK
<1>5. CASE UNCHANGED vars
  BY <1>5, StoreUnchanged, LocksUnchanged, LocalUnchanged
  DEF TypeOK, vars, lifecycle, review, locks, local
<1> QED BY <1>1, <1>2, <1>3, <1>4, <1>5 DEF Next

(* Whatever the constants, every variable keeps its type and no step of a
   transaction runs without the job or the signature it works on.             *)
THEOREM TypeCorrect == Spec => []TypeOK
<1> QED BY InitTypeOK, StepTypeOK, PTL DEF Spec

-----------------------------------------------------------------------------
(* Published content is preserved.                                         *)
(*                                                                         *)
(* PublishedContentPreserved is not inductive: a writer at its COMMIT could *)
(* hold a row of a version that is published meanwhile.  LockDiscipline     *)
(* excludes it, because the publisher holds every row it signed, and what   *)
(* was signed are rows of the version, which is no longer a draft.          *)

LEMMA InitDiscipline == Init => LockDiscipline
  BY DEF Init, LockDiscipline, PublishersHold, WritersHold, PublishPcs

\* A transaction that ends breaks nobody's hold, unless it changes db or state.
LEMMA FinishDiscipline ==
  ASSUME TypeOK, LockDiscipline, NEW t \in Txns, Finish(t), UNCHANGED <<state, db>>
  PROVE  LockDiscipline'
  BY MarkersAssumption
  DEF TypeOK, LocksOK, LocalOK, LockDiscipline, PublishersHold, WritersHold, Finish, Released,
      Present, Owned, Editable, PublishPcs, InHand, PublishJob, WritePcs, WriteJob, WithdrawPcs

LEMMA PublishStepsDiscipline ==
  ASSUME TypeOK, LockDiscipline, NEW t \in Txns,
         \/ PublishLockProcedure(t)
         \/ \E r \in Rows : PublishLockRow(t, r)
         \/ PublishGraph(t)
         \/ \E r \in DependencyRows : PublishLockDependency(t, r)
         \/ \E r \in DependencyRows : PublishLockDependent(t, r)
         \/ PublishDecide(t)
         \/ PublishReject(t)
         \/ PublishConfirm(t)
  PROVE  LockDiscipline'
<1> USE DEF LockDiscipline, PublishersHold, WritersHold, Present, Owned, Editable
<1>1. CASE PublishLockProcedure(t)
  BY <1>1 DEF TypeOK, LocalOK, PublishLockProcedure, PublishPcs, lifecycle
<1>2. ASSUME NEW r \in Rows, PublishLockRow(t, r) PROVE LockDiscipline'
  BY <1>2, MarkersAssumption
  DEF TypeOK, LocksOK, LocalOK, InHand, PublishLockRow, PublishPcs, WritePcs, WriteJob,
      lifecycle, local
<1>3. CASE PublishDecide(t)
  BY <1>3 DEF TypeOK, LocalOK, PublishDecide, PublishPcs, lifecycle, locks
<1>4. CASE PublishReject(t)
  BY <1>4, FinishDiscipline DEF PublishReject, lifecycle
<1>5. CASE PublishConfirm(t)
  <2>1. CASE Finish(t) BY <1>5, <2>1, FinishDiscipline DEF PublishConfirm, lifecycle
  <2>2. CASE ~Finish(t)
    BY <1>5, <2>2 DEF TypeOK, LocalOK, PublishConfirm, PublishPcs, lifecycle, locks
  <2> QED BY <2>1, <2>2
<1>6. CASE PublishGraph(t)
  <2>1. /\ pc[t] = "publish_rows" /\ ToLock(t) = {}
        /\ pc' = [pc EXCEPT ![t] = "publish_graph"] /\ job'[t].version = job[t].version
        /\ \A s \in Txns \ {t} : job'[s] = job[s]
        /\ UNCHANGED <<state, db, versionLock, rowLock>>
    BY <1>6 DEF PublishGraph, TypeOK, LocalOK, InHand, PublishPcs, PublishJob, lifecycle, locks
  <2>2. PublishersHold(t)' /\ WritersHold(t)'
    BY <2>1 DEF TypeOK, LocalOK, ToLock, PublishPcs
  <2>3. ASSUME NEW s \in Txns, s # t PROVE PublishersHold(s)' /\ WritersHold(s)'
    BY <2>1, <2>3 DEF TypeOK, LocalOK
  <2> QED BY <2>2, <2>3
<1>7. ASSUME NEW r \in DependencyRows, PublishLockDependency(t, r) \/ PublishLockDependent(t, r)
      PROVE  LockDiscipline'
  <2>1. /\ UNCHANGED <<state, db, pc, job>>
        /\ \A q \in Rows : rowLock[q] # None => rowLock'[q] = rowLock[q]
        /\ \A v \in Versions : versionLock[v] # None => versionLock'[v] = versionLock[v]
    BY <1>7, ConstantsAssumption
    DEF PublishLockDependency, PublishLockDependent, TypeOK, LocksOK, lifecycle, local
  <2>2. ASSUME NEW s \in Txns PROVE PublishersHold(s)'
    <3>1. pc[s] \in PublishPcs => job[s].version \in Versions
      BY DEF TypeOK, LocalOK, InHand, PublishJob
    <3> QED BY <2>1, <3>1, MarkersAssumption DEF PublishPcs
  <2>3. ASSUME NEW s \in Txns PROVE WritersHold(s)'
    <3>1. pc[s] = "write_commit" => job[s].row \in Rows
      BY DEF TypeOK, LocalOK, InHand, WritePcs, WriteJob
    <3> QED BY <2>1, <3>1, MarkersAssumption
  <2> QED BY <2>2, <2>3
<1> QED BY <1>1, <1>2, <1>3, <1>4, <1>5, <1>6, <1>7

\* The publisher holds every present row of the version, so no writer holds one.
LEMMA PublishTransitionDiscipline ==
  ASSUME TypeOK, LockDiscipline, NEW t \in Txns, PublishTransition(t)
  PROVE  LockDiscipline'
<1>1. Finish(t) /\ UNCHANGED db /\ job[t].version \in Versions
  BY DEF PublishTransition, TypeOK, LocalOK, InHand, PublishPcs, WithdrawPcs, PublishJob
<1>2. \A v \in Versions \ {job[t].version} : state'[v] = state[v]
  BY DEF PublishTransition, TypeOK, StoreOK
<1>3. ASSUME NEW s \in Txns PROVE PublishersHold(s)'
  BY <1>1, <1>3, MarkersAssumption
  DEF TypeOK, LocksOK, LocalOK, LockDiscipline, PublishersHold, Finish, Released, Present, Owned,
      PublishPcs, InHand, PublishJob
<1>4. ASSUME NEW s \in Txns, pc'[s] = "write_commit" PROVE WritersHold(s)'
  <2>1. s # t /\ pc[s] = "write_commit" /\ job'[s] = job[s] /\ job[s].row \in Rows
    BY <1>1, <1>4 DEF Finish, TypeOK, LocalOK, InHand, WritePcs, WriteJob
  <2>2. rowLock'[job[s].row] = s
    BY <1>1, <2>1, MarkersAssumption
    DEF LockDiscipline, WritersHold, Finish, Released, TypeOK, LocksOK
  <2>3. ASSUME db[job[s].row] # Absent PROVE Editable(job[s].row)'
    <3>1. rowLock[job[s].row] = s /\ Editable(job[s].row)
      BY <2>1, <2>3 DEF LockDiscipline, WritersHold
    <3>2. job[t].version \notin Owners[job[s].row]
      BY <2>1, <2>3, <3>1 DEF LockDiscipline, PublishersHold, PublishTransition, Present, Owned
    <3>3. Owners[job[s].row] \subseteq Versions
      BY <2>1, ConstantsAssumption
    <3> QED BY <1>2, <2>1, <3>1, <3>2, <3>3 DEF Editable
  <2> QED BY <1>1, <2>1, <2>2, <2>3 DEF WritersHold
<1> QED BY <1>3, <1>4 DEF LockDiscipline, WritersHold

\* Only a published version is withdrawn, and writers hold rows of drafts.
LEMMA WithdrawDiscipline ==
  ASSUME TypeOK, LockDiscipline, NEW t \in Txns, WithdrawTransition(t)
  PROVE  LockDiscipline'
<1>1. Finish(t) /\ UNCHANGED db BY DEF WithdrawTransition
<1>2. \A v \in Versions : state[v] = "draft" => state'[v] = "draft"
  BY DEF WithdrawTransition, TypeOK, StoreOK
<1>3. \A r \in Rows : Owners[r] \subseteq Versions
  BY ConstantsAssumption
<1>4. ASSUME NEW s \in Txns PROVE PublishersHold(s)'
  BY <1>1, MarkersAssumption
  DEF TypeOK, LocksOK, LocalOK, LockDiscipline, PublishersHold, Finish, Released, Present, Owned,
      PublishPcs, InHand, PublishJob, WithdrawPcs
<1>5. ASSUME NEW s \in Txns PROVE WritersHold(s)'
  BY <1>1, <1>2, <1>3, MarkersAssumption
  DEF TypeOK, LocksOK, LocalOK, LockDiscipline, WritersHold, Finish, Released, Editable,
      InHand, WritePcs, WriteJob
<1> QED BY <1>4, <1>5 DEF LockDiscipline

LEMMA ApproveStepsDiscipline ==
  ASSUME TypeOK, LockDiscipline, NEW t \in Txns,
         \/ ApproveLockPolicy(t)
         \/ ApproveRefuse(t)
         \/ \E r \in Rows : ApproveRead(t, r)
         \/ ApproveRecord(t)
  PROVE  LockDiscipline'
<1>1. CASE ApproveLockPolicy(t)
  <2>1. job[t].version \in Versions
    BY <1>1 DEF ApproveLockPolicy, TypeOK, LocalOK, InHand, ApprovePcs, ApproveJob
  <2>2. PolicyRow[job[t].version] \in Rows BY <2>1, ConstantsAssumption
  <2> QED
    BY <1>1, <2>2, MarkersAssumption
    DEF ApproveLockPolicy, TypeOK, LocksOK, LocalOK, InHand, PublishPcs, WritePcs, WriteJob,
        LockDiscipline, PublishersHold, WritersHold, Present, Owned, Editable, lifecycle
<1>2. CASE ApproveRefuse(t)
  BY <1>2, FinishDiscipline DEF ApproveRefuse, lifecycle
<1>3. CASE \E r \in Rows : ApproveRead(t, r)
  BY <1>3
  DEF ApproveRead, LockDiscipline, PublishersHold, WritersHold, Present, Owned, Editable,
      lifecycle, locks
<1>4. CASE ApproveRecord(t)
  BY <1>4, FinishDiscipline DEF ApproveRecord, lifecycle
<1> QED BY <1>1, <1>2, <1>3, <1>4

\* A commit makes a row appear only in versions that no publisher has locked.
LEMMA WriteStepsDiscipline ==
  ASSUME TypeOK, LockDiscipline, NEW t \in Txns,
         WriteStatement(t) \/ WriteRefuse(t) \/ WriteCommit(t)
  PROVE  LockDiscipline'
<1>1. CASE WriteStatement(t)
  <2>1. job[t] \in WriteJob BY <1>1 DEF WriteStatement, TypeOK, LocalOK, InHand, WritePcs
  <2> QED
    BY <1>1, <2>1, MarkersAssumption
    DEF WriteStatement, WriteAllowed, TypeOK, LocksOK, LocalOK, InHand, PublishPcs, WritePcs,
        WriteJob, LockDiscipline, PublishersHold, WritersHold, Present, Owned, Editable, lifecycle
<1>2. CASE WriteRefuse(t)
  BY <1>2, FinishDiscipline DEF WriteRefuse, lifecycle
<1>3. CASE WriteCommit(t)
  <2> DEFINE r == job[t].row
  <2>1. job[t] \in WriteJob /\ r \in Rows
    BY <1>3 DEF WriteCommit, TypeOK, LocalOK, InHand, WritePcs, WriteJob
  <2>2. rowLock[r] = t BY <1>3 DEF WriteCommit, LockDiscipline, WritersHold
  <2>3. Finish(t) /\ UNCHANGED state /\ \A q \in Rows \ {r} : db'[q] = db[q]
    BY <1>3 DEF WriteCommit, lifecycle, TypeOK, StoreOK
  <2>4. ASSUME NEW s \in Txns PROVE PublishersHold(s)'
    <3>1. pc'[s] \in PublishPcs => s # t /\ pc[s] = pc'[s] /\ job'[s] = job[s]
                                 /\ job[s].version \in Versions
      BY <2>3 DEF Finish, TypeOK, LocalOK, InHand, PublishPcs, WithdrawPcs, PublishJob
    <3>2. pc'[s] \in PublishPcs => versionLock'[job[s].version] = s
      BY <2>3, <3>1, MarkersAssumption
      DEF Finish, Released, TypeOK, LocksOK, LockDiscipline, PublishersHold
    <3>3. ASSUME pc'[s] \in GatePcs, NEW q \in Present(job[s].version)'
          PROVE  rowLock'[q] = s
      <4>1. q \in Rows /\ job[s].version \in Owners[q] /\ db'[q] # Absent
        BY <3>1, <3>3 DEF Present, Owned, PublishPcs
      <4>2. CASE db[q] # Absent
        BY <2>3, <3>1, <3>3, <4>1, <4>2, MarkersAssumption
        DEF Finish, Released, TypeOK, LocksOK, LockDiscipline, PublishersHold, Present, Owned,
            PublishPcs
      <4>3. CASE db[q] = Absent
        <5>1. q = r BY <2>3, <4>1, <4>3
        <5>2. job[t].value # Absent BY <1>3, <4>1, <5>1 DEF WriteCommit, TypeOK, StoreOK
        <5>3. versionLock[job[s].version] = None
          BY <1>3, <4>1, <4>3, <5>1, <5>2 DEF WriteCommit, Inserts
        <5>4. versionLock[job[s].version] = s
          BY <3>1, <3>3 DEF LockDiscipline, PublishersHold, PublishPcs
        <5> QED BY <5>3, <5>4, MarkersAssumption
      <4> QED BY <4>2, <4>3
    <3> QED BY <3>1, <3>2, <3>3 DEF PublishersHold, PublishPcs
  <2>5. ASSUME NEW s \in Txns PROVE WritersHold(s)'
    <3>1. pc'[s] = "write_commit" => s # t /\ pc[s] = "write_commit" /\ job'[s] = job[s]
                                   /\ job[s].row \in Rows
      BY <2>3 DEF Finish, TypeOK, LocalOK, InHand, WritePcs, WriteJob
    <3> QED
      BY <2>2, <2>3, <3>1, MarkersAssumption
      DEF Finish, Released, TypeOK, LocksOK, LockDiscipline, WritersHold, Editable
  <2> QED BY <2>4, <2>5 DEF LockDiscipline
<1> QED BY <1>1, <1>2, <1>3

LEMMA StartDiscipline ==
  ASSUME TypeOK, LockDiscipline, NEW t \in Txns, Start(t)
  PROVE  LockDiscipline'
<1> USE DEF Begin, Idle, LockDiscipline, PublishersHold, WritersHold, Present, Owned, Editable,
            TypeOK, LocalOK, InHand, PublishPcs, WithdrawPcs, WritePcs, lifecycle, locks
<1>1. ASSUME NEW v \in Versions, NEW u \in Users,
             PublishLockVersion(t, v, u) \/ WithdrawLockVersion(t, v, u)
      PROVE  LockDiscipline'
  BY <1>1, MarkersAssumption DEF PublishLockVersion, WithdrawLockVersion, LocksOK, PublishJob
<1>2. ASSUME NEW v \in Versions, NEW u \in Users, NEW s \in Scopes, ApproveLockVersion(t, v, u, s)
      PROVE  LockDiscipline'
  BY <1>2, MarkersAssumption DEF ApproveLockVersion, LocksOK, PublishJob
<1>3. ASSUME NEW r \in Rows, NEW value \in Contents \cup {Absent}, WriteBegin(t, r, value)
      PROVE  LockDiscipline'
  BY <1>3 DEF WriteBegin
<1> QED BY <1>1, <1>2, <1>3 DEF Start

LEMMA EnvironmentDiscipline ==
  ASSUME LockDiscipline, Environment
  PROVE  LockDiscipline'
<1>1. UNCHANGED <<state, db, rowLock, versionLock, pc, job>>
  BY DEF Environment, ReviseWindow, OpenDiscrepancy, ResolveDiscrepancy, SetPermission,
         lifecycle, locks, local
<1> QED BY <1>1 DEF LockDiscipline, PublishersHold, WritersHold, Present, Owned, Editable

LEMMA StepDiscipline == TypeOK /\ LockDiscipline /\ [Next]_vars => LockDiscipline'
<1> SUFFICES ASSUME TypeOK, LockDiscipline, [Next]_vars PROVE LockDiscipline' OBVIOUS
<1>1. ASSUME NEW t \in Txns, Continue(t) PROVE LockDiscipline'
  BY <1>1, PublishStepsDiscipline, PublishTransitionDiscipline, WithdrawDiscipline,
     ApproveStepsDiscipline, WriteStepsDiscipline DEF Continue
<1>2. ASSUME NEW t \in Txns, Start(t) PROVE LockDiscipline' BY <1>2, StartDiscipline
<1>3. ASSUME NEW t \in Txns, Crash(t) PROVE LockDiscipline'
  BY <1>3, FinishDiscipline DEF Crash, lifecycle
<1>4. CASE Environment BY <1>4, EnvironmentDiscipline
<1>5. CASE UNCHANGED vars
  BY <1>5 DEF vars, LockDiscipline, PublishersHold, WritersHold, Present, Owned, Editable
<1> QED BY <1>1, <1>2, <1>3, <1>4, <1>5 DEF Next

(* Row locks exclude publishers and the writers of what they publish, whatever
   the number of transactions, versions and rows.                             *)
THEOREM LocksExclude == Spec => []LockDiscipline
<1> QED BY InitDiscipline, InitTypeOK, StepTypeOK, StepDiscipline, PTL DEF Spec

-----------------------------------------------------------------------------
(* What a step writes: the window, the rows, the lifecycle and the approvals
   have one writer each (the lifecycle two).                                *)

LEMMA ContinueWrites ==
  ASSUME NEW t \in Txns, Continue(t)
  PROVE  /\ UNCHANGED window
         /\ UNCHANGED db \/ WriteCommit(t)
         /\ UNCHANGED <<state, audit>> \/ PublishTransition(t) \/ WithdrawTransition(t)
         /\ UNCHANGED approvals \/ ApproveRecord(t)
<1>1. CASE \/ PublishLockProcedure(t)
           \/ \E r \in Rows : PublishLockRow(t, r)
           \/ PublishGraph(t)
           \/ \E r \in DependencyRows : PublishLockDependency(t, r) \/ PublishLockDependent(t, r)
           \/ PublishDecide(t) \/ PublishReject(t) \/ PublishConfirm(t)
  <2>1. UNCHANGED <<lifecycle, db, review>>
    BY <1>1
    DEF PublishLockProcedure, PublishLockRow, PublishGraph, PublishLockDependency,
        PublishLockDependent, PublishDecide, PublishReject, PublishConfirm
  <2> QED BY <2>1 DEF lifecycle, review
<1>2. CASE PublishTransition(t)
  BY <1>2 DEF PublishTransition, review
<1>3. CASE WithdrawTransition(t)
  BY <1>3 DEF WithdrawTransition, review
<1>4. CASE \/ ApproveLockPolicy(t) \/ ApproveRefuse(t)
           \/ \E r \in Rows : ApproveRead(t, r)
           \/ WriteStatement(t) \/ WriteRefuse(t)
  <2>1. UNCHANGED <<lifecycle, db, review>>
    BY <1>4 DEF ApproveLockPolicy, ApproveRefuse, ApproveRead, WriteStatement, WriteRefuse
  <2> QED BY <2>1 DEF lifecycle, review
<1>5. CASE ApproveRecord(t)
  BY <1>5 DEF ApproveRecord, lifecycle
<1>6. CASE WriteCommit(t)
  BY <1>6 DEF WriteCommit, lifecycle, review
<1> QED BY <1>1, <1>2, <1>3, <1>4, <1>5, <1>6 DEF Continue

LEMMA StepWrites ==
  ASSUME [Next]_vars
  PROVE  /\ UNCHANGED window \/ \E v \in Versions, w \in Windows : ReviseWindow(v, w)
         /\ UNCHANGED db \/ \E t \in Txns : WriteCommit(t)
         /\ \/ UNCHANGED <<state, audit>>
            \/ \E t \in Txns : PublishTransition(t) \/ WithdrawTransition(t)
         /\ UNCHANGED approvals \/ \E t \in Txns : ApproveRecord(t)
<1> DEFINE Goal == /\ UNCHANGED window \/ \E v \in Versions, w \in Windows : ReviseWindow(v, w)
                   /\ UNCHANGED db \/ \E t \in Txns : WriteCommit(t)
                   /\ \/ UNCHANGED <<state, audit>>
                      \/ \E t \in Txns : PublishTransition(t) \/ WithdrawTransition(t)
                   /\ UNCHANGED approvals \/ \E t \in Txns : ApproveRecord(t)
<1>1. ASSUME NEW t \in Txns, Continue(t) PROVE Goal
  BY <1>1, ContinueWrites
<1>2. ASSUME UNCHANGED <<lifecycle, db, approvals>> PROVE Goal
  BY <1>2 DEF lifecycle
<1>3. ASSUME NEW t \in Txns, Start(t) PROVE Goal
  <2>1. UNCHANGED <<lifecycle, db, approvals>>
    BY <1>3
    DEF Start, PublishLockVersion, WithdrawLockVersion, ApproveLockVersion, WriteBegin, review
  <2> QED BY <1>2, <2>1
<1>4. ASSUME NEW t \in Txns, Crash(t) PROVE Goal
  <2>1. UNCHANGED <<lifecycle, db, approvals>> BY <1>4 DEF Crash, review
  <2> QED BY <1>2, <2>1
<1>5. ASSUME NEW v \in Versions, NEW w \in Windows, ReviseWindow(v, w) PROVE Goal
  <2>1. UNCHANGED <<state, audit, db, approvals>> BY <1>5 DEF ReviseWindow, review
  <2> QED BY <1>5, <2>1
<1>6. ASSUME NEW v \in Versions, OpenDiscrepancy(v) \/ ResolveDiscrepancy(v) PROVE Goal
  <2>1. UNCHANGED <<lifecycle, db, approvals>>
    BY <1>6 DEF OpenDiscrepancy, ResolveDiscrepancy
  <2> QED BY <1>2, <2>1
<1>7. ASSUME NEW u \in Users, NEW p \in Permissions, SetPermission(u, p) PROVE Goal
  <2>1. UNCHANGED <<lifecycle, db, approvals>> BY <1>7 DEF SetPermission
  <2> QED BY <1>2, <2>1
<1>8. ASSUME UNCHANGED vars PROVE Goal
  <2>1. UNCHANGED <<lifecycle, db, approvals>> BY <1>8 DEF vars, lifecycle
  <2> QED BY <1>2, <2>1
<1> HIDE DEF Goal
<1>9. Goal
  BY <1>1, <1>3, <1>4, <1>5, <1>6, <1>7, <1>8 DEF Next, Environment
<1> QED BY <1>9 DEF Goal

-----------------------------------------------------------------------------
(* A decision stands until it is carried out.                              *)
(*                                                                         *)
(* Given LockDiscipline this is inductive: the window is behind the         *)
(* version's lock, the rows that exist behind their own, a discrepancy      *)
(* behind that of its evidence, and an insertion needs the lock of the      *)
(* version it adds to.                                                      *)

\* A decision depends on the publisher's local state and its version's signature.
LEMMA Undisturbed ==
  ASSUME NEW s \in Txns, DecisionStands(s),
         job'[s] = job[s], seen'[s] = seen[s],
         window'[job[s].version] = window[job[s].version],
         discrepancy'[job[s].version] = discrepancy[job[s].version],
         \A r \in Owned(job[s].version) : db'[r] = db[r],
         job[s].version \in Versions
  PROVE  DecisionStands(s)'
<1> DEFINE v == job[s].version
<1>1. Signature(v)' = Signature(v) BY DEF Signature, Owned
<1>2. Policy(v)' = Policy(v) BY ConstantsAssumption DEF Policy, Owned
<1>3. ContentGates(v)' BY DEF DecisionStands, ContentGates, Present, Owned
<1>4. DiscrepancyGate(v)' BY DEF DecisionStands, DiscrepancyGate
<1> QED BY <1>1, <1>2, <1>3, <1>4 DEF DecisionStands

\* No step but its own touches a publisher's local state.
LEMMA OthersLocalState ==
  ASSUME TypeOK, NEW s \in Txns, NEW t \in Txns, s # t, Continue(t) \/ Start(t) \/ Crash(t)
  PROVE  pc'[s] = pc[s] /\ job'[s] = job[s] /\ seen'[s] = seen[s] /\ accepted'[s] = accepted[s]
<1>1. CASE Continue(t)
  BY <1>1
  DEF TypeOK, LocalOK, Continue, PublishLockProcedure, PublishLockRow,
      PublishGraph, PublishLockDependency, PublishLockDependent,
      PublishDecide,
      PublishReject, PublishConfirm, PublishTransition, WithdrawTransition, ApproveLockPolicy,
      ApproveRefuse, ApproveRead, ApproveRecord, WriteStatement, WriteRefuse, WriteCommit,
      Finish, local
<1>2. CASE Start(t)
  BY <1>2
  DEF TypeOK, LocalOK, Start, PublishLockVersion, WithdrawLockVersion, ApproveLockVersion,
      WriteBegin, Begin
<1>3. CASE Crash(t) BY <1>3 DEF TypeOK, LocalOK, Crash, Finish
<1> QED BY <1>1, <1>2, <1>3

\* A publisher that has decided either decided just now or has kept its decision.
LEMMA DecisionKept ==
  ASSUME TypeOK, [Next]_vars, NEW s \in Txns, pc'[s] \in DecidedPcs, ~PublishDecide(s)
  PROVE  /\ pc[s] \in DecidedPcs
         /\ job'[s] = job[s] /\ seen'[s] = seen[s] /\ accepted'[s] = accepted[s]
<1>1. CASE Environment \/ UNCHANGED vars
  BY <1>1
  DEF Environment, ReviseWindow, OpenDiscrepancy, ResolveDiscrepancy, SetPermission, vars, local
<1>2. CASE Continue(s) \/ Start(s) \/ Crash(s)
  BY <1>2
  DEF TypeOK, LocalOK, Continue, PublishLockProcedure, PublishLockRow,
      PublishGraph, PublishLockDependency, PublishLockDependent,
      PublishReject,
      PublishConfirm, PublishTransition, WithdrawTransition, ApproveLockPolicy,
      ApproveRefuse, ApproveRead, ApproveRecord, WriteStatement, WriteRefuse, WriteCommit,
      Start, PublishLockVersion, WithdrawLockVersion, ApproveLockVersion, WriteBegin,
      Begin, Crash, Finish, local
<1>3. ASSUME NEW t \in Txns, t # s, Continue(t) \/ Start(t) \/ Crash(t)
      PROVE  /\ pc[s] \in DecidedPcs
             /\ job'[s] = job[s] /\ seen'[s] = seen[s] /\ accepted'[s] = accepted[s]
  BY <1>3, OthersLocalState
<1> QED BY <1>1, <1>2, <1>3 DEF Next

\* The window, the discrepancy and the rows of a version in decision are frozen.
LEMMA DecidedVersionFrozen ==
  ASSUME TypeOK, LockDiscipline, DecisionsStand, [Next]_vars,
         NEW s \in Txns, pc[s] \in DecidedPcs
  PROVE  LET v == job[s].version IN
         /\ v \in Versions
         /\ window'[v] = window[v] /\ discrepancy'[v] = discrepancy[v]
         /\ \A r \in Owned(v) : db'[r] = db[r]
<1> DEFINE v == job[s].version
<1>1. v \in Versions /\ versionLock[v] = s /\ versionLock[v] # None
  BY MarkersAssumption
  DEF TypeOK, LocalOK, InHand, PublishPcs, PublishJob, LockDiscipline, PublishersHold
<1>2. discrepancy[v] # "open"
  BY DEF DecisionsStand, DecisionStands, DiscrepancyGate
<1>3. window'[v] = window[v] /\ discrepancy'[v] = discrepancy[v]
  <2>1. ASSUME NEW t \in Txns, Continue(t) \/ Start(t) \/ Crash(t)
        PROVE  UNCHANGED <<window, discrepancy>>
    BY <2>1
    DEF Continue, PublishLockProcedure, PublishLockRow,
        PublishGraph, PublishLockDependency, PublishLockDependent,
        PublishDecide, PublishReject,
        PublishConfirm, PublishTransition, WithdrawTransition, ApproveLockPolicy, ApproveRefuse,
        ApproveRead, ApproveRecord, WriteStatement, WriteRefuse, WriteCommit, Start,
        PublishLockVersion, WithdrawLockVersion, ApproveLockVersion, WriteBegin, Crash,
        lifecycle, review
  <2>2. ASSUME NEW w \in Versions, NEW i \in Windows, ReviseWindow(w, i)
        PROVE  window'[v] = window[v] /\ discrepancy'[v] = discrepancy[v]
    BY <1>1, <2>2 DEF ReviseWindow, TypeOK, StoreOK, review
  <2>3. ASSUME NEW w \in Versions, OpenDiscrepancy(w) \/ ResolveDiscrepancy(w)
        PROVE  window'[v] = window[v] /\ discrepancy'[v] = discrepancy[v]
    <3>1. UNCHANGED window BY <2>3 DEF OpenDiscrepancy, ResolveDiscrepancy, lifecycle
    <3>2. CASE w # v
      BY <1>1, <2>3, <3>1, <3>2 DEF OpenDiscrepancy, ResolveDiscrepancy, TypeOK, StoreOK
    <3>3. ~OpenDiscrepancy(v)
      BY <1>1, MarkersAssumption
      DEF OpenDiscrepancy, LockDiscipline, PublishersHold, Present, Owned
    <3>4. CASE w = v BY <1>2, <2>3, <3>3, <3>4 DEF ResolveDiscrepancy
    <3> QED BY <3>2, <3>4
  <2>4. ASSUME NEW u \in Users, NEW p \in Permissions, SetPermission(u, p)
        PROVE  UNCHANGED <<window, discrepancy>>
    BY <2>4 DEF SetPermission, lifecycle
  <2>5. CASE UNCHANGED vars BY <2>5 DEF vars
  <2> QED BY <2>1, <2>2, <2>3, <2>4, <2>5 DEF Next, Environment
<1>4. ASSUME NEW r \in Owned(v) PROVE db'[r] = db[r]
  <2>1. r \in Rows /\ v \in Owners[r] BY DEF Owned
  <2>2. CASE UNCHANGED db BY <2>2
  <2>3. ASSUME NEW t \in Txns, WriteCommit(t) PROVE db'[r] = db[r]
    <3>1. CASE job[t].row # r BY <2>1, <2>3, <3>1 DEF WriteCommit, TypeOK, StoreOK
    <3>2. CASE job[t].row = r /\ db[r] # Absent
      <4>1. rowLock[r] = t BY <2>3, <3>2 DEF WriteCommit, LockDiscipline, WritersHold
      <4>2. rowLock[r] = s
        BY <2>1, <3>2 DEF LockDiscipline, PublishersHold, Present, Owned
      <4> QED BY <2>3, <4>1, <4>2 DEF WriteCommit
    <3>3. CASE job[t].row = r /\ db[r] = Absent
      <4>1. ~Inserts(t) BY <1>1, <2>1, <2>3, <3>3 DEF WriteCommit
      <4> QED BY <2>1, <2>3, <3>3, <4>1 DEF Inserts, WriteCommit, TypeOK, StoreOK
    <3> QED BY <3>1, <3>2, <3>3
  <2>4. UNCHANGED db \/ \E t \in Txns : WriteCommit(t)
    BY StepWrites
  <2> QED BY <2>2, <2>3, <2>4
<1> QED BY <1>1, <1>3, <1>4

LEMMA InitDecisions == Init => DecisionsStand
  BY DEF Init, DecisionsStand

LEMMA StepDecisions ==
  TypeOK /\ LockDiscipline /\ DecisionsStand /\ [Next]_vars => DecisionsStand'
<1> SUFFICES ASSUME TypeOK, LockDiscipline, DecisionsStand, [Next]_vars,
                    NEW s \in Txns, pc'[s] \in DecidedPcs
             PROVE  DecisionStands(s)'
  BY DEF DecisionsStand
<1>1. CASE PublishDecide(s)
  <2> DEFINE v == job[s].version
  <2>1. v \in Versions /\ job' = job /\ seen'[s] = Signature(v)
    BY <1>1 DEF PublishDecide, TypeOK, LocalOK, InHand, PublishPcs, PublishJob
  <2>2. UNCHANGED <<window, discrepancy, db>> BY <1>1 DEF PublishDecide, lifecycle, review
  <2>3. Signature(v)' = Signature(v) BY <2>1, <2>2 DEF Signature, Owned
  <2>4. ContentGates(v) /\ DiscrepancyGate(v) /\ Policy(v) # Absent
    BY <1>1 DEF PublishDecide, PublicationGates, ReviewGate
  <2> QED
    BY <2>1, <2>2, <2>3, <2>4
    DEF DecisionStands, ContentGates, DiscrepancyGate, Policy, Present, Owned
<1>2. CASE ~PublishDecide(s)
  <2>1. pc[s] \in DecidedPcs /\ job'[s] = job[s] /\ seen'[s] = seen[s]
    BY <1>2, DecisionKept
  <2>2. DecisionStands(s) BY <2>1 DEF DecisionsStand
  <2> QED BY <2>1, <2>2, DecidedVersionFrozen, Undisturbed
<1> QED BY <1>1, <1>2

(* The publisher's second comparison of the signatures never fails: nothing it
   decided on changes before it publishes.                                    *)
THEOREM DecisionsAreFinal == Spec => []DecisionsStand
<1> QED
  BY InitDecisions, InitDiscipline, InitTypeOK, StepTypeOK, StepDiscipline, StepDecisions, PTL
  DEF Spec

-----------------------------------------------------------------------------
(* With the locks, what is published stays as it was signed. *)

PublishedRowsOwned ==
  \A e \in Publications :
    /\ state[e.version] # "draft"
    /\ \A r \in Rows : e.signature.rows[r] # Absent => r \in Owned(e.version)

Preservation ==
  /\ TypeOK
  /\ LockDiscipline
  /\ DecisionsStand
  /\ PublishedRowsOwned
  /\ PublishedContentPreserved

LEMMA InitPreservation == Init => Preservation
<1> SUFFICES ASSUME Init PROVE Preservation OBVIOUS
<1>1. LockDiscipline /\ DecisionsStand BY InitDiscipline, InitDecisions
<1>2. PublishedRowsOwned /\ PublishedContentPreserved
  BY DEF Init, PublishedRowsOwned, PublishedContentPreserved, Publications
<1> QED BY InitTypeOK, <1>1, <1>2 DEF Preservation


LEMMA PublicationsOfVersions ==
  ASSUME TypeOK PROVE \A e \in Publications : e.version \in Versions
  BY DEF TypeOK, StoreOK, Publications, AuditRows

\* Nothing but a publication, a withdrawal, a commit or a new window touches the
\* state, the windows, the rows and the audit trail.
LEMMA PreservationFrame ==
  ASSUME PublishedRowsOwned, PublishedContentPreserved, UNCHANGED <<lifecycle, db>>
  PROVE  PublishedRowsOwned' /\ PublishedContentPreserved'
  BY DEF PublishedRowsOwned, PublishedContentPreserved, Publications, Owned, lifecycle

LEMMA PublicationPreserves ==
  ASSUME Preservation, NEW t \in Txns, PublishTransition(t)
  PROVE  PublishedRowsOwned' /\ PublishedContentPreserved'
<1> DEFINE v == job[t].version
           e0 == [version |-> v, event |-> "published", actor |-> job[t].user,
                  signature |-> seen[t], approvals |-> accepted[t]]
<1>1. v \in Versions
  BY DEF Preservation, TypeOK, LocalOK, InHand, PublishTransition, PublishPcs, WithdrawPcs, PublishJob
<1>2. UNCHANGED <<window, db>> BY DEF PublishTransition
<1>3. CASE state[v] = "draft" /\ Conflicts(v) = {}
  <2>1. state' = [state EXCEPT ![v] = "published"] /\ audit' = audit \cup {e0}
    BY <1>3 DEF PublishTransition
  <2>2. ASSUME NEW e \in Publications' PROVE e \in Publications \/ e = e0
    BY <2>1, <2>2 DEF Publications
  <2>3. \A w \in Versions : state[w] # "draft" => state'[w] # "draft"
    BY <2>1 DEF Preservation, TypeOK, StoreOK
  <2>4. \A e \in Publications : e.version \in Versions
    BY PublicationsOfVersions DEF Preservation
  <2>5. /\ state'[v] # "draft" /\ window[v] = seen[t].window
        /\ \A r \in Rows : seen[t].rows[r] # Absent => r \in Owned(v) /\ db[r] = seen[t].rows[r]
    <3>1. seen[t] = Signature(v)
      BY DEF Preservation, DecisionsStand, DecisionStands, PublishTransition
    <3> QED BY <1>1, <2>1, <3>1 DEF Signature, Preservation, TypeOK, StoreOK
  <2> QED
    BY <1>2, <2>2, <2>3, <2>4, <2>5
    DEF Preservation, PublishedRowsOwned, PublishedContentPreserved, Owned
<1>4. CASE ~(state[v] = "draft" /\ Conflicts(v) = {})
  BY <1>2, <1>4, PreservationFrame DEF PublishTransition, Preservation, lifecycle
<1> QED BY <1>3, <1>4

LEMMA WithdrawalPreserves ==
  ASSUME Preservation, NEW t \in Txns, WithdrawTransition(t)
  PROVE  PublishedRowsOwned' /\ PublishedContentPreserved'
<1>1. Publications' = Publications /\ UNCHANGED <<window, db>>
  BY DEF WithdrawTransition, Publications
<1>2. \A e \in Publications : state[e.version] # "draft" => state'[e.version] # "draft"
  BY PublicationsOfVersions DEF WithdrawTransition, Preservation, TypeOK, StoreOK
<1> QED BY <1>1, <1>2 DEF Preservation, PublishedRowsOwned, PublishedContentPreserved, Owned

\* A writer at its COMMIT changes a row of drafts only, or adds one.
LEMMA CommitPreserves ==
  ASSUME Preservation, NEW t \in Txns, WriteCommit(t)
  PROVE  PublishedRowsOwned' /\ PublishedContentPreserved'
<1>1. UNCHANGED <<state, window, audit>> BY DEF WriteCommit, lifecycle
<1>2. ASSUME NEW e \in Publications, NEW r \in Rows, e.signature.rows[r] # Absent
      PROVE  db'[r] = db[r]
  <2>1. r \in Owned(e.version) /\ state[e.version] # "draft"
    BY <1>2 DEF Preservation, PublishedRowsOwned
  <2>2. db[r] # Absent BY <1>2 DEF Preservation, PublishedContentPreserved
  <2>3. db[job[t].row] # Absent => Editable(job[t].row)
    BY DEF Preservation, LockDiscipline, WritersHold, WriteCommit
  <2>4. r # job[t].row BY <2>1, <2>2, <2>3 DEF Editable, Owned
  <2> QED BY <2>4 DEF WriteCommit, Preservation, TypeOK, StoreOK
<1> QED
  BY <1>1, <1>2
  DEF Preservation, PublishedRowsOwned, PublishedContentPreserved, Publications, Owned

LEMMA RevisionPreserves ==
  ASSUME Preservation, NEW v \in Versions, NEW w \in Windows, ReviseWindow(v, w)
  PROVE  PublishedRowsOwned' /\ PublishedContentPreserved'
<1>1. UNCHANGED <<state, db, audit>> /\ state[v] = "draft" BY DEF ReviseWindow
<1>2. ASSUME NEW e \in Publications PROVE window'[e.version] = window[e.version]
  BY <1>1, PublicationsOfVersions DEF Preservation, PublishedRowsOwned, ReviseWindow, TypeOK, StoreOK
<1> QED
  BY <1>1, <1>2
  DEF Preservation, PublishedRowsOwned, PublishedContentPreserved, Publications, Owned

LEMMA StepPreservation == Preservation /\ [Next]_vars => Preservation'
<1> SUFFICES ASSUME Preservation, [Next]_vars PROVE Preservation' OBVIOUS
<1>1. TypeOK' /\ LockDiscipline' /\ DecisionsStand'
  BY StepTypeOK, StepDiscipline, StepDecisions DEF Preservation
<1>2. ASSUME NEW t \in Txns, Continue(t) PROVE PublishedRowsOwned' /\ PublishedContentPreserved'
  <2>1. \/ PublishTransition(t) \/ WithdrawTransition(t) \/ WriteCommit(t)
        \/ UNCHANGED <<lifecycle, db>>
    BY <1>2
    DEF Continue, PublishLockProcedure, PublishLockRow,
        PublishGraph, PublishLockDependency, PublishLockDependent,
        PublishDecide, PublishReject,
        PublishConfirm, ApproveLockPolicy, ApproveRefuse, ApproveRead, ApproveRecord,
        WriteStatement, WriteRefuse
  <2> QED
    BY <2>1, PublicationPreserves, WithdrawalPreserves, CommitPreserves, PreservationFrame
    DEF Preservation
<1>3. ASSUME NEW t \in Txns, Start(t) \/ Crash(t)
      PROVE  PublishedRowsOwned' /\ PublishedContentPreserved'
  BY <1>3, PreservationFrame
  DEF Start, Crash, PublishLockVersion, WithdrawLockVersion, ApproveLockVersion, WriteBegin,
      Preservation
<1>4. ASSUME Environment
      PROVE  PublishedRowsOwned' /\ PublishedContentPreserved'
  <2>1. \/ \E v \in Versions, w \in Windows : ReviseWindow(v, w)
        \/ UNCHANGED <<lifecycle, db>>
    BY <1>4 DEF Environment, OpenDiscrepancy, ResolveDiscrepancy, SetPermission
  <2> QED BY <2>1, RevisionPreserves, PreservationFrame DEF Preservation
<1>5. ASSUME UNCHANGED vars
      PROVE  PublishedRowsOwned' /\ PublishedContentPreserved'
  <2>1. UNCHANGED <<lifecycle, db>> BY <1>5 DEF vars, lifecycle
  <2> QED BY <2>1, PreservationFrame DEF Preservation
<1> QED BY <1>1, <1>2, <1>3, <1>4, <1>5 DEF Next, Preservation

(* What the gates saw of a version when it was published is what the database
   holds of it from then on, in every deployment and under every interleaving. *)
THEOREM ContentPreserved == Spec => []PublishedContentPreserved
<1>1. Preservation => PublishedContentPreserved BY DEF Preservation
<1> QED BY <1>1, InitPreservation, StepPreservation, PTL DEF Spec

-----------------------------------------------------------------------------
(* What the gates required still holds when a version becomes public. *)

\* Only the transition of its own publisher publishes a version.
LEMMA PublishedByItsPublisher ==
  ASSUME TypeOK, [Next]_vars, NEW v \in Versions, state[v] = "draft", state'[v] = "published"
  PROVE  \E t \in Txns : PublishTransition(t) /\ job[t].version = v /\ Conflicts(v) = {}
<1>1. ASSUME NEW t \in Txns, PublishTransition(t)
      PROVE  job[t].version = v /\ Conflicts(v) = {}
  BY <1>1 DEF PublishTransition, TypeOK, StoreOK
<1>2. ASSUME NEW t \in Txns, WithdrawTransition(t) PROVE FALSE
  BY <1>2 DEF WithdrawTransition, TypeOK, StoreOK
<1>3. \/ UNCHANGED state
      \/ \E t \in Txns : PublishTransition(t) \/ WithdrawTransition(t)
  BY StepWrites
<1> QED BY <1>1, <1>2, <1>3

(* At the instant a version becomes public its content is what every gate
   accepts, no discrepancy is open on it and nothing published overlaps it.   *)
THEOREM GatesHold == Spec => GatesHoldAtCommit
<1>1. ASSUME TypeOK, DecisionsStand, [Next]_vars, NEW v \in Versions,
             state[v] = "draft", state'[v] = "published"
      PROVE  ContentGates(v) /\ DiscrepancyGate(v) /\ Conflicts(v) = {} /\ Policy(v) # Absent
  <2>1. PICK t \in Txns : PublishTransition(t) /\ job[t].version = v /\ Conflicts(v) = {}
    BY <1>1, PublishedByItsPublisher
  <2> QED BY <1>1, <2>1 DEF PublishTransition, DecisionsStand, DecisionStands
<1>2. TypeOK /\ DecisionsStand /\ [Next]_vars
        => [\A v \in Versions : state[v] = "draft" /\ state'[v] = "published" =>
              ContentGates(v) /\ DiscrepancyGate(v) /\ Conflicts(v) = {}
                /\ Policy(v) # Absent]_vars
  BY <1>1
<1> QED
  BY <1>2, TypeCorrect, DecisionsAreFinal, PTL DEF Spec, GatesHoldAtCommit

-----------------------------------------------------------------------------
(* Published states are reviewed states.                                   *)
(*                                                                         *)
(* The decision is reviewed when it is taken, approvals are never removed, *)
(* and a publisher's decision is its own: no lock is needed here.          *)

DecisionsReviewed ==
  \A t \in Txns : pc[t] \in DecidedPcs =>
    Reviewed(job[t].version, seen[t], job[t].user, accepted[t])

Review == TypeOK /\ DecisionsReviewed /\ PublishedStateReviewed

LEMMA InitReview == Init => Review
  BY InitTypeOK DEF Init, Review, DecisionsReviewed, PublishedStateReviewed, Publications

\* Approvals are append-only.
LEMMA ApprovalsKept == [Next]_vars => approvals \subseteq approvals'
  BY StepWrites DEF ApproveRecord

LEMMA ReviewedStays ==
  ASSUME approvals \subseteq approvals', NEW v, NEW signature, NEW publisher, NEW by,
         Reviewed(v, signature, publisher, by)
  PROVE  Reviewed(v, signature, publisher, by)'
  BY DEF Reviewed

\* What a transaction holds after a step is reviewed if it was with the approvals
\* there were before.
LEMMA ReviewedLater ==
  ASSUME approvals \subseteq approvals', NEW t \in Txns,
         Reviewed(job'[t].version, seen'[t], job'[t].user, accepted'[t])
  PROVE  Reviewed(job[t].version, seen[t], job[t].user, accepted[t])'
<1>1. PICK v, signature, publisher, by :
        /\ v = job'[t].version /\ signature = seen'[t]
        /\ publisher = job'[t].user /\ by = accepted'[t]
  OBVIOUS
<1>2. Reviewed(v, signature, publisher, by) BY <1>1
<1>3. Reviewed(v, signature, publisher, by)' BY <1>2, ReviewedStays
<1> QED BY <1>1, <1>3 DEF Reviewed

LEMMA DecisionReviewed ==
  ASSUME TypeOK, NEW t \in Txns, PublishDecide(t)
  PROVE  Reviewed(job[t].version, seen'[t], job[t].user, accepted'[t])
<1> DEFINE v == job[t].version
           u == job[t].user
<1>1. v \in Versions /\ seen'[t] = Signature(v) /\ accepted'[t] = AcceptedApprovals(v, u)
  BY DEF PublishDecide, TypeOK, LocalOK, InHand, PublishPcs, PublishJob
<1>2. PolicyRow[v] \in Rows /\ PolicyRow[v] \in Owned(v)
  BY <1>1, ConstantsAssumption DEF Owned
<1>3. Signature(v).rows[PolicyRow[v]] = Policy(v) /\ Signature(v).discrepancy = discrepancy[v]
  BY <1>2 DEF Signature, Policy
<1>4. ReviewGate(v, u) BY DEF PublishDecide, PublicationGates
<1> DEFINE required == Policy(v).risks \cup
             (IF Mode = "solo" THEN {}
              ELSE Dimensions \cup (IF discrepancy[v] = "none" THEN {} ELSE {"discrepancy"}))
<1>5. required = RequiredScopes(v)
  BY ConstantsAssumption DEF RequiredScopes, RequiredDimensions
<1>6. ASSUME NEW s \in required
      PROVE  \E a \in AcceptedApprovals(v, u) :
               /\ a \in approvals
               /\ a.version = v /\ a.scope = s /\ a.signature = Signature(v)
               /\ a.reviewer # u /\ a.reviewer # Policy(v).author
  <2>1. PICK a \in AcceptedApprovals(v, u) : a.scope = s BY <1>4, <1>5, <1>6 DEF ReviewGate
  <2> QED BY <2>1 DEF AcceptedApprovals
<1> HIDE DEF v, u
<1>7. Reviewed(v, Signature(v), u, AcceptedApprovals(v, u)) BY <1>3, <1>6 DEF Reviewed
<1> QED BY <1>1, <1>7 DEF v, u

LEMMA StepReview == Review /\ [Next]_vars => Review'
<1> SUFFICES ASSUME Review, [Next]_vars PROVE Review' OBVIOUS
<1>1. TypeOK /\ TypeOK' BY StepTypeOK DEF Review
<1>2. approvals \subseteq approvals' BY ApprovalsKept
<1>3. ASSUME NEW t \in Txns, pc'[t] \in DecidedPcs
      PROVE  Reviewed(job[t].version, seen[t], job[t].user, accepted[t])'
  <2>1. CASE PublishDecide(t)
    <3>1. Reviewed(job[t].version, seen'[t], job[t].user, accepted'[t])
      BY <1>1, <2>1, DecisionReviewed
    <3>2. job' = job BY <2>1 DEF PublishDecide
    <3> QED BY <1>2, <3>1, <3>2, ReviewedLater
  <2>2. CASE ~PublishDecide(t)
    <3>1. /\ pc[t] \in DecidedPcs
          /\ job'[t] = job[t] /\ seen'[t] = seen[t] /\ accepted'[t] = accepted[t]
      BY <1>1, <1>3, <2>2, DecisionKept
    <3>2. Reviewed(job[t].version, seen[t], job[t].user, accepted[t])
      BY <3>1 DEF Review, DecisionsReviewed
    <3> QED BY <1>2, <3>1, <3>2, ReviewedLater
  <2> QED BY <2>1, <2>2
<1>4. ASSUME NEW e \in Publications' PROVE Reviewed(e.version, e.signature, e.actor, e.approvals)'
  <2>1. CASE e \in Publications
    <3>1. Reviewed(e.version, e.signature, e.actor, e.approvals)
      BY <2>1 DEF Review, PublishedStateReviewed
    <3> QED BY <1>2, <3>1, ReviewedStays
  <2>2. CASE e \notin Publications
    <3>1. e \in audit' /\ e \notin audit /\ e.event = "published"
      BY <1>4, <2>2 DEF Publications
    <3>2. \/ UNCHANGED audit
          \/ \E t \in Txns : PublishTransition(t) \/ WithdrawTransition(t)
      BY StepWrites
    <3>3. ASSUME NEW t \in Txns, WithdrawTransition(t) PROVE FALSE
      BY <3>1, <3>3 DEF WithdrawTransition
    <3>4. PICK t \in Txns : PublishTransition(t) BY <3>1, <3>2, <3>3
    <3>5. /\ e.version = job[t].version /\ e.signature = seen[t]
          /\ e.actor = job[t].user /\ e.approvals = accepted[t]
      BY <3>1, <3>4 DEF PublishTransition
    <3>6. Reviewed(e.version, e.signature, e.actor, e.approvals)
      BY <3>4, <3>5 DEF PublishTransition, Review, DecisionsReviewed
    <3> QED BY <1>2, <3>6, ReviewedStays
  <2> QED BY <2>1, <2>2
<1>5. DecisionsReviewed' BY <1>3 DEF DecisionsReviewed
<1>6. PublishedStateReviewed' BY <1>4 DEF PublishedStateReviewed
<1> QED BY <1>1, <1>5, <1>6 DEF Review

(* No version is public whose published state was not approved, in every scope
   it called for, by somebody other than its author and its publisher.        *)
THEOREM PublicationsReviewed == Spec => []PublishedStateReviewed
<1>1. Review => PublishedStateReviewed BY DEF Review
<1> QED BY <1>1, InitReview, StepReview, PTL DEF Spec

-----------------------------------------------------------------------------
(* Beyond a single version: one version in force per day, an audit trail that
   is true, approvals of drafts by others, and the abstract lifecycle, which
   the transactions implement.                                                *)

-----------------------------------------------------------------------------
(* The two steps that change a version's state. *)

PublicationBy(t) ==
  [version |-> job[t].version, event |-> "published", actor |-> job[t].user,
   signature |-> seen[t], approvals |-> accepted[t]]

WithdrawalBy(t) ==
  [version |-> job[t].version, event |-> "withdrawn", actor |-> job[t].user,
   signature |-> None, approvals |-> {}]

Publishes(t, v) ==
  /\ PublishTransition(t)
  /\ v = job[t].version
  /\ state[v] = "draft" /\ Conflicts(v) = {}
  /\ state' = [state EXCEPT ![v] = "published"]
  /\ audit' = audit \cup {PublicationBy(t)}

Withdraws(t, v) ==
  /\ WithdrawTransition(t)
  /\ v = job[t].version
  /\ state[v] = "published"
  /\ state' = [state EXCEPT ![v] = "withdrawn"]
  /\ audit' = audit \cup {WithdrawalBy(t)}

LEMMA LifecycleSteps ==
  ASSUME TypeOK, [Next]_vars
  PROVE  \/ UNCHANGED <<state, audit>>
         \/ \E t \in Txns, v \in Versions : Publishes(t, v)
         \/ \E t \in Txns, v \in Versions : Withdraws(t, v)
<1>1. \/ UNCHANGED <<state, audit>>
      \/ \E t \in Txns : PublishTransition(t) \/ WithdrawTransition(t)
  BY StepWrites
<1>2. ASSUME NEW t \in Txns, PublishTransition(t)
      PROVE  UNCHANGED <<state, audit>> \/ \E v \in Versions : Publishes(t, v)
  <2>1. job[t].version \in Versions
    BY <1>2 DEF PublishTransition, TypeOK, LocalOK, InHand, PublishPcs, PublishJob
  <2> QED BY <1>2, <2>1 DEF PublishTransition, Publishes, PublicationBy
<1>3. ASSUME NEW t \in Txns, WithdrawTransition(t)
      PROVE  UNCHANGED <<state, audit>> \/ \E v \in Versions : Withdraws(t, v)
  <2>1. job[t].version \in Versions
    BY <1>3 DEF WithdrawTransition, TypeOK, LocalOK, InHand, WithdrawPcs, WithdrawJob
  <2> QED BY <1>3, <2>1 DEF WithdrawTransition, Withdraws, WithdrawalBy
<1> QED BY <1>1, <1>2, <1>3

\* Only drafts are given another window, and not in a step that does more.
LEMMA WindowsOfDrafts ==
  ASSUME TypeOK, [Next]_vars, NEW v \in Versions, state[v] # "draft" \/ state'[v] # "draft"
  PROVE  window'[v] = window[v]
<1>1. \/ UNCHANGED window
      \/ \E u \in Versions, w \in Windows : ReviseWindow(u, w)
  BY StepWrites
<1> QED BY <1>1 DEF ReviseWindow, TypeOK, StoreOK

\* The abstract order of two windows is the absence of the concrete overlap.
LEMMA OverlapOrDisjoint ==
  ASSUME NEW a \in Windows, NEW b \in Windows
  PROVE  /\ Lifecycle!Disjoint(a, b) <=> ~Overlap(a, b)
         /\ Overlap(a, b) <=> Overlap(b, a)
  BY CalendarAssumption DEF Lifecycle!Disjoint, Overlap

-----------------------------------------------------------------------------
(* One version in force.  Windows are compared when a version becomes       *)
(* public; afterwards neither of the two can change its own.                *)

PublishedApart ==
  \A v, w \in Versions :
    /\ v # w /\ ProcedureOf[v] = ProcedureOf[w]
    /\ state[v] = "published" /\ state[w] = "published"
    => ~Overlap(window[v], window[w])

LEMMA StepApart == TypeOK /\ PublishedApart /\ [Next]_vars => PublishedApart'
<1> SUFFICES ASSUME TypeOK, PublishedApart, [Next]_vars,
                    NEW v \in Versions, NEW w \in Versions, v # w, ProcedureOf[v] = ProcedureOf[w],
                    state'[v] = "published", state'[w] = "published"
             PROVE  ~Overlap(window'[v], window'[w])
  BY DEF PublishedApart, Overlap
<1>1. window'[v] = window[v] /\ window'[w] = window[w]
  BY WindowsOfDrafts
<1>2. window[v] \in Windows /\ window[w] \in Windows
  BY DEF TypeOK, StoreOK
<1>3. CASE UNCHANGED <<state, audit>>
  BY <1>1, <1>3 DEF PublishedApart
<1>4. ASSUME NEW t \in Txns, NEW u \in Versions, Publishes(t, u)
      PROVE  ~Overlap(window[v], window[w])
  <2>1. \A x \in Versions \ {u} : state'[x] = state[x]
    BY <1>4 DEF Publishes, TypeOK, StoreOK
  <2>2. CASE u = v
    BY <1>4, <2>1, <2>2 DEF Publishes, Conflicts
  <2>3. CASE u = w
    <3>1. ~Overlap(window[w], window[v])
      BY <1>4, <2>1, <2>3 DEF Publishes, Conflicts
    <3> QED BY <1>2, <3>1, OverlapOrDisjoint
  <2>4. CASE u # v /\ u # w
    BY <2>1, <2>4 DEF PublishedApart
  <2> QED BY <2>2, <2>3, <2>4
<1>5. ASSUME NEW t \in Txns, NEW u \in Versions, Withdraws(t, u)
      PROVE  ~Overlap(window[v], window[w])
  BY <1>5 DEF Withdraws, TypeOK, StoreOK, PublishedApart
<1> QED BY <1>1, <1>3, <1>4, <1>5, LifecycleSteps

LEMMA ApartIsInForceOnce ==
  ASSUME TypeOK, PublishedApart PROVE OneVersionInForce
<1> SUFFICES ASSUME NEW v \in Versions, NEW w \in Versions, NEW day \in Days,
                    ProcedureOf[v] = ProcedureOf[w], InForce(v, day), InForce(w, day), v # w
             PROVE  FALSE
  BY DEF OneVersionInForce
<1>1. window[v] \in Windows /\ window[w] \in Windows /\ day \in Int
  BY CalendarAssumption DEF TypeOK, StoreOK
<1>2. Overlap(window[v], window[w])
  BY <1>1, CalendarAssumption DEF InForce, Overlap
<1> QED BY <1>2 DEF PublishedApart, InForce

(* On any day at most one published version of a Procedure is in force, however
   publishers, withdrawals and changes of windows interleave.                 *)
THEOREM OneInForce == Spec => []OneVersionInForce
<1>1. Init => PublishedApart
  BY DEF Init, PublishedApart
<1>2. Spec => []PublishedApart
  BY <1>1, StepApart, TypeCorrect, PTL DEF Spec
<1> QED BY <1>2, ApartIsInForceOnce, TypeCorrect, PTL

-----------------------------------------------------------------------------
(* The audit trail.  Each of the two events is recorded by the step that    *)
(* changes the state, and that step is taken once.                          *)

EventsOf(v, kind) == {e \in audit : e.version = v /\ e.event = kind}

Told(v) ==
  /\ state[v] = "draft" => EventsOf(v, "published") = {}
  /\ state[v] # "draft" => \E e : EventsOf(v, "published") = {e}
  /\ state[v] # "withdrawn" => EventsOf(v, "withdrawn") = {}
  /\ state[v] = "withdrawn" => \E e : EventsOf(v, "withdrawn") = {e}

AllTold == \A v \in Versions : Told(v)

LEMMA StepTold == TypeOK /\ AllTold /\ [Next]_vars => AllTold'
<1> SUFFICES ASSUME TypeOK, AllTold, [Next]_vars, NEW v \in Versions PROVE Told(v)'
  BY DEF AllTold
<1>1. Told(v) BY DEF AllTold
<1>2. CASE UNCHANGED <<state, audit>>
  BY <1>1, <1>2 DEF Told, EventsOf
<1>3. ASSUME NEW t \in Txns, NEW u \in Versions, Publishes(t, u) PROVE Told(v)'
  <2>1. /\ EventsOf(v, "withdrawn")' = EventsOf(v, "withdrawn")
        /\ u # v => EventsOf(v, "published")' = EventsOf(v, "published") /\ state'[v] = state[v]
    BY <1>3 DEF EventsOf, Publishes, PublicationBy, TypeOK, StoreOK
  <2>2. u = v => /\ EventsOf(v, "published")' = EventsOf(v, "published") \cup {PublicationBy(t)}
                 /\ state[v] = "draft" /\ state'[v] = "published"
    BY <1>3 DEF EventsOf, Publishes, PublicationBy, TypeOK, StoreOK
  <2> QED BY <1>1, <2>1, <2>2 DEF Told
<1>4. ASSUME NEW t \in Txns, NEW u \in Versions, Withdraws(t, u) PROVE Told(v)'
  <2>1. /\ EventsOf(v, "published")' = EventsOf(v, "published")
        /\ u # v => EventsOf(v, "withdrawn")' = EventsOf(v, "withdrawn") /\ state'[v] = state[v]
    BY <1>4 DEF EventsOf, Withdraws, WithdrawalBy, TypeOK, StoreOK
  <2>2. u = v => /\ EventsOf(v, "withdrawn")' = EventsOf(v, "withdrawn") \cup {WithdrawalBy(t)}
                 /\ state[v] = "published" /\ state'[v] = "withdrawn"
    BY <1>4 DEF EventsOf, Withdraws, WithdrawalBy, TypeOK, StoreOK
  <2> QED BY <1>1, <2>1, <2>2 DEF Told
<1> QED BY <1>2, <1>3, <1>4, LifecycleSteps

LEMMA ToldIsCounted ==
  ASSUME AllTold PROVE AuditTellsState
<1> SUFFICES ASSUME NEW v \in Versions
             PROVE  /\ Cardinality(EventsOf(v, "published")) = IF state[v] = "draft" THEN 0 ELSE 1
                    /\ Cardinality(EventsOf(v, "withdrawn")) = IF state[v] = "withdrawn" THEN 1 ELSE 0
  BY DEF AuditTellsState, EventsOf
<1> QED BY FS_EmptySet, FS_Singleton DEF AllTold, Told

\* The scopes that a reviewed state of v called for when it was decided on.
CalledFor(v, signature, by) ==
  \A a \in by :
    \/ a.scope \in signature.rows[PolicyRow[v]].risks
    \/ Mode = "independent" /\ a.scope \in Dimensions \cup {"discrepancy"}

DecisionsCalledFor ==
  \A t \in Txns : pc[t] \in DecidedPcs => CalledFor(job[t].version, seen[t], accepted[t])

Captures == TypeOK /\ DecisionsCalledFor /\ AuditCapturesOnlyConsumed

LEMMA StepCaptures == Captures /\ [Next]_vars => Captures'
<1> SUFFICES ASSUME Captures, [Next]_vars PROVE Captures' OBVIOUS
<1>1. TypeOK /\ TypeOK' BY StepTypeOK DEF Captures
<1>2. ASSUME NEW t \in Txns, pc'[t] \in DecidedPcs
      PROVE  CalledFor(job'[t].version, seen'[t], accepted'[t])
  <2>1. CASE PublishDecide(t)
    <3> DEFINE v == job[t].version
    <3>1. /\ v \in Versions /\ job' = job /\ seen'[t] = Signature(v)
          /\ accepted'[t] = AcceptedApprovals(v, job[t].user)
      BY <1>1, <2>1 DEF PublishDecide, TypeOK, LocalOK, InHand, PublishPcs, PublishJob
    <3>2. PolicyRow[v] \in Rows /\ PolicyRow[v] \in Owned(v)
      BY <3>1, ConstantsAssumption DEF Owned
    <3>3. Signature(v).rows[PolicyRow[v]] = Policy(v)
      BY <3>2 DEF Signature, Policy
    <3>4. ASSUME NEW a \in AcceptedApprovals(v, job[t].user)
          PROVE  \/ a.scope \in Policy(v).risks
                 \/ Mode = "independent" /\ a.scope \in Dimensions \cup {"discrepancy"}
      BY DEF AcceptedApprovals, RequiredScopes, RequiredDimensions
    <3> QED BY <3>1, <3>3, <3>4 DEF CalledFor
  <2>2. CASE ~PublishDecide(t)
    <3>1. /\ pc[t] \in DecidedPcs
          /\ job'[t] = job[t] /\ seen'[t] = seen[t] /\ accepted'[t] = accepted[t]
      BY <1>1, <1>2, <2>2, DecisionKept
    <3> QED BY <3>1 DEF Captures, DecisionsCalledFor
  <2> QED BY <2>1, <2>2
<1>3. ASSUME NEW e \in Publications' PROVE CalledFor(e.version, e.signature, e.approvals)
  <2>1. ASSUME NEW t \in Txns, NEW v \in Versions, Publishes(t, v), e = PublicationBy(t)
        PROVE  CalledFor(e.version, e.signature, e.approvals)
    <3>1. CalledFor(job[t].version, seen[t], accepted[t])
      BY <2>1 DEF Captures, DecisionsCalledFor, Publishes, PublishTransition
    <3>2. e.version = job[t].version /\ e.signature = seen[t] /\ e.approvals = accepted[t]
      BY <2>1 DEF PublicationBy
    <3> QED BY <3>1, <3>2
  <2>2. CASE e \in Publications
    BY <2>2 DEF Captures, AuditCapturesOnlyConsumed, CalledFor
  <2>3. CASE e \notin Publications
    <3>1. e \in audit' /\ e \notin audit /\ e.event = "published"
      BY <1>3, <2>3 DEF Publications
    <3>2. ASSUME NEW t \in Txns, NEW v \in Versions, Withdraws(t, v) PROVE FALSE
      BY <3>1, <3>2 DEF Withdraws, WithdrawalBy
    <3> QED BY <1>1, <2>1, <3>1, <3>2, LifecycleSteps DEF Publishes
  <2> QED BY <2>2, <2>3
<1> QED BY <1>1, <1>2, <1>3 DEF Captures, DecisionsCalledFor, AuditCapturesOnlyConsumed, CalledFor

(* The audit trail tells the state of every version by one event for each of
   its transitions, and names no approval that its publication did not need.  *)
THEOREM AuditIsKept == Spec => []AuditIsTrue
<1>1. Init => AllTold
  BY DEF Init, AllTold, Told, EventsOf
<1>2. Init => Captures
  BY InitTypeOK DEF Init, Captures, DecisionsCalledFor, AuditCapturesOnlyConsumed, Publications
<1>3. Spec => []AllTold
  BY <1>1, StepTold, TypeCorrect, PTL DEF Spec
<1>4. Spec => []Captures
  BY <1>2, StepCaptures, PTL DEF Spec
<1>5. AllTold /\ Captures => AuditIsTrue
  BY ToldIsCounted DEF Captures, AuditIsTrue
<1> QED BY <1>3, <1>4, <1>5, PTL

-----------------------------------------------------------------------------
(* Approvals.  From the start to the record an approver holds the version,  *)
(* and from its check of the policy on it holds the policy's row.           *)

ApproversHold(t) ==
  LET v == job[t].version IN
  /\ pc[t] \in ApprovePcs => versionLock[v] = t /\ state[v] = "draft"
  /\ pc[t] = "approve_read" =>
       /\ rowLock[PolicyRow[v]] = t
       /\ Policy(v) # Absent /\ job[t].user # Policy(v).author

Approving == \A t \in Txns : ApproversHold(t)

\* Nobody takes a lock from the transaction that owns it.
LEMMA OthersLocks ==
  ASSUME TypeOK, NEW s \in Txns, NEW t \in Txns, s # t, Continue(s) \/ Start(s) \/ Crash(s)
  PROVE  /\ \A v \in Versions : versionLock[v] = t => versionLock'[v] = t
         /\ \A r \in Rows : rowLock[r] = t => rowLock'[r] = t
<1> USE MarkersAssumption DEF TypeOK, LocksOK
<1>1. ASSUME Finish(s)
      PROVE  /\ \A v \in Versions : versionLock[v] = t => versionLock'[v] = t
             /\ \A r \in Rows : rowLock[r] = t => rowLock'[r] = t
  BY <1>1 DEF Finish, Released
<1>2. CASE Continue(s)
  BY <1>1, <1>2
  DEF Continue, PublishLockProcedure, PublishLockRow,
      PublishGraph, PublishLockDependency, PublishLockDependent,
      PublishDecide, PublishReject,
      PublishConfirm, PublishTransition, WithdrawTransition, ApproveLockPolicy, ApproveRefuse,
      ApproveRead, ApproveRecord, WriteStatement, WriteRefuse, WriteCommit, locks
<1>3. CASE Start(s)
  BY <1>3 DEF Start, PublishLockVersion, WithdrawLockVersion, ApproveLockVersion, WriteBegin, locks
<1>4. CASE Crash(s)
  BY <1>1, <1>4 DEF Crash
<1> QED BY <1>2, <1>3, <1>4

\* A draft whose version another transaction holds stays one.
LEMMA OthersState ==
  ASSUME TypeOK, LockDiscipline, [Next]_vars, NEW t \in Txns, NEW v \in Versions,
         versionLock[v] = t, state[v] = "draft", pc[t] \in ApprovePcs
  PROVE  state'[v] = "draft"
<1>1. ASSUME NEW s \in Txns, NEW u \in Versions, Publishes(s, u) PROVE u # v
  <2>1. pc[s] = "publish_transition" /\ u = job[s].version
    BY <1>1 DEF Publishes, PublishTransition
  <2>2. versionLock[u] = s /\ s # t
    BY <2>1 DEF LockDiscipline, PublishersHold, PublishPcs, ApprovePcs
  <2> QED BY <2>2
<1>2. ASSUME NEW s \in Txns, NEW u \in Versions, Withdraws(s, u) PROVE u # v
  BY <1>2 DEF Withdraws
<1> QED BY <1>1, <1>2, LifecycleSteps DEF Publishes, Withdraws, TypeOK, StoreOK

\* A row another transaction holds is not written.
LEMMA OthersRows ==
  ASSUME TypeOK, LockDiscipline, NEW s \in Txns, NEW t \in Txns, s # t,
         Continue(s) \/ Start(s) \/ Crash(s), NEW r \in Rows, rowLock[r] = t
  PROVE  db'[r] = db[r]
<1>1. ASSUME WriteCommit(s) PROVE job[s].row # r
  BY <1>1 DEF WriteCommit, LockDiscipline, WritersHold
<1>2. WriteCommit(s) \/ UNCHANGED db
  BY DEF Continue, PublishLockProcedure, PublishLockRow,
  PublishGraph, PublishLockDependency, PublishLockDependent,
  PublishDecide, PublishReject,
         PublishConfirm, PublishTransition, WithdrawTransition, ApproveLockPolicy, ApproveRefuse,
         ApproveRead, ApproveRecord, WriteStatement, WriteRefuse, Start, PublishLockVersion,
         WithdrawLockVersion, ApproveLockVersion, WriteBegin, Crash
<1> QED BY <1>1, <1>2 DEF WriteCommit, TypeOK, StoreOK

\* An approver's own steps take the locks before they rely on what these cover.
LEMMA OwnApproval ==
  ASSUME TypeOK, NEW t \in Txns, ApproversHold(t), Continue(t) \/ Start(t) \/ Crash(t)
  PROVE  ApproversHold(t)'
<1> USE DEF TypeOK, LocalOK
<1>1. ASSUME pc'[t] \notin ApprovePcs PROVE ApproversHold(t)'
  BY <1>1 DEF ApproversHold, ApprovePcs
<1>2. Finish(t) => pc'[t] = "idle"
  BY DEF Finish
<1>3. ASSUME NEW v \in Versions, NEW u \in Users, NEW c \in Scopes, ApproveLockVersion(t, v, u, c)
      PROVE  ApproversHold(t)'
  BY <1>3 DEF ApproveLockVersion, Begin, ApproversHold, LocksOK, lifecycle
<1>4. ASSUME ApproveLockPolicy(t) PROVE ApproversHold(t)'
  <2>1. job[t].version \in Versions /\ PolicyRow[job[t].version] \in Rows
    BY <1>4, ConstantsAssumption DEF ApproveLockPolicy, InHand, ApprovePcs, ApproveJob
  <2>2. /\ pc[t] \in ApprovePcs /\ UNCHANGED <<lifecycle, db, versionLock, job>>
        /\ rowLock'[PolicyRow[job[t].version]] = t
    BY <1>4, <2>1 DEF ApproveLockPolicy, ApprovePcs, LocksOK
  <2>3. Policy(job[t].version) # Absent /\ job[t].user # Policy(job[t].version).author
    BY <1>4 DEF ApproveLockPolicy, ApprovalApplicable
  <2> QED BY <2>2, <2>3 DEF ApproversHold, Policy, lifecycle
<1>5. ASSUME NEW r \in Rows, ApproveRead(t, r) PROVE ApproversHold(t)'
  BY <1>5 DEF ApproveRead, ApproversHold, Policy, lifecycle, locks
<1>6. CASE Continue(t)
  <2>1. \/ pc'[t] \notin ApprovePcs
        \/ ApproveLockPolicy(t)
        \/ \E r \in Rows : ApproveRead(t, r)
    BY <1>2, <1>6
    DEF Continue, PublishLockProcedure, PublishLockRow,
        PublishGraph, PublishLockDependency, PublishLockDependent,
        PublishDecide, PublishReject,
        PublishConfirm, PublishTransition, WithdrawTransition, ApproveRefuse, ApproveRecord,
        WriteStatement, WriteRefuse, WriteCommit, local, ApprovePcs
  <2> QED BY <2>1, <1>1, <1>4, <1>5
<1>7. CASE Start(t)
  <2>1. \/ pc'[t] \notin ApprovePcs
        \/ \E v \in Versions, u \in Users, c \in Scopes : ApproveLockVersion(t, v, u, c)
    BY <1>7 DEF Start, PublishLockVersion, WithdrawLockVersion, WriteBegin, Begin, ApprovePcs
  <2> QED BY <2>1, <1>1, <1>3
<1>8. CASE Crash(t)
  BY <1>1, <1>2, <1>8 DEF Crash, ApprovePcs
<1> QED BY <1>6, <1>7, <1>8

LEMMA StepApproving == TypeOK /\ LockDiscipline /\ Approving /\ [Next]_vars => Approving'
<1> SUFFICES ASSUME TypeOK, LockDiscipline, Approving, [Next]_vars, NEW t \in Txns
             PROVE  ApproversHold(t)'
  BY DEF Approving
<1>1. ApproversHold(t) BY DEF Approving
<1>2. CASE pc'[t] = pc[t] /\ job'[t] = job[t]
           /\ \A v \in Versions : versionLock[v] = t => versionLock'[v] = t
           /\ \A r \in Rows : rowLock[r] = t => rowLock'[r] = t /\ db'[r] = db[r]
  <2>1. CASE pc[t] \in ApprovePcs
    <3>1. PICK v \in Versions : v = job[t].version
      BY <2>1 DEF TypeOK, LocalOK, InHand, ApproveJob
    <3>2. /\ versionLock[v] = t /\ state[v] = "draft"
          /\ pc[t] = "approve_read" => /\ rowLock[PolicyRow[v]] = t
                                      /\ db[PolicyRow[v]] # Absent
                                      /\ job[t].user # db[PolicyRow[v]].author
      BY <1>1, <2>1, <3>1 DEF ApproversHold, Policy
    <3>3. state'[v] = "draft"
      BY <2>1, <3>2, OthersState
    <3>4. PolicyRow[v] \in Rows
      BY ConstantsAssumption
    <3>5. /\ versionLock'[v] = t /\ v = job'[t].version /\ job'[t].user = job[t].user
          /\ pc'[t] = "approve_read" => /\ rowLock'[PolicyRow[v]] = t
                                       /\ db'[PolicyRow[v]] = db[PolicyRow[v]]
      BY <1>2, <3>1, <3>2, <3>4
    <3> QED BY <1>2, <3>2, <3>3, <3>5 DEF ApproversHold, Policy
  <2>2. CASE pc[t] \notin ApprovePcs
    BY <1>2, <2>2 DEF ApproversHold, ApprovePcs
  <2> QED BY <2>1, <2>2
<1>3. ASSUME NEW s \in Txns, Continue(s) \/ Start(s) \/ Crash(s) PROVE ApproversHold(t)'
  <2>1. CASE s = t
    BY <1>1, <1>3, <2>1, OwnApproval
  <2>2. CASE s # t
    BY <1>2, <1>3, <2>2, OthersLocks, OthersLocalState, OthersRows
  <2> QED BY <2>1, <2>2
<1>4. CASE Environment \/ UNCHANGED vars
  <2>1. UNCHANGED <<pc, job, versionLock, rowLock, db>>
    BY <1>4 DEF Environment, ReviseWindow, OpenDiscrepancy, ResolveDiscrepancy, SetPermission,
               vars, locks, local
  <2> QED BY <1>2, <2>1
<1> QED BY <1>3, <1>4 DEF Next

(* An approval, once recorded, stays, and it was recorded for a draft, by
   somebody who was not its author at that instant.                           *)
THEOREM ApprovalsByOthers == Spec => ApprovalsOfDraftsByOthers
<1> DEFINE Step == /\ approvals \subseteq approvals'
                   /\ \A a \in approvals' \ approvals :
                        /\ state[a.version] = "draft"
                        /\ Policy(a.version) # Absent
                        /\ a.reviewer # Policy(a.version).author
<1>1. TypeOK /\ Approving /\ [Next]_vars => Step
  <2> SUFFICES ASSUME TypeOK, Approving, [Next]_vars PROVE Step
    OBVIOUS
  <2>1. UNCHANGED approvals \/ \E t \in Txns : ApproveRecord(t)
    BY StepWrites
  <2>2. ASSUME NEW t \in Txns, ApproveRecord(t)
        PROVE  Step
    <3>1. ApproversHold(t) /\ pc[t] = "approve_read"
      BY <2>2 DEF Approving, ApproveRecord
    <3>2. /\ state[job[t].version] = "draft"
          /\ Policy(job[t].version) # Absent
          /\ job[t].user # Policy(job[t].version).author
      BY <3>1 DEF ApproversHold, ApprovePcs
    <3> QED BY <2>2, <3>2 DEF ApproveRecord
  <2> QED BY <2>1, <2>2
<1>2. Init => Approving
  BY DEF Init, Approving, ApproversHold, ApprovePcs
<1>3. Spec => []Approving
  BY <1>2, StepApproving, TypeCorrect, LocksExclude, PTL DEF Spec
<1>4. TypeOK /\ Approving /\ [Next]_vars => [Step]_vars
  BY <1>1
<1> QED
  BY <1>3, <1>4, TypeCorrect, PTL DEF Spec, ApprovalsOfDraftsByOthers

-----------------------------------------------------------------------------
(* The abstract lifecycle.  The snapshot of a version that is not a draft   *)
(* is what the database holds of the rows it was published with; that it is *)
(* frozen is PublishedContentPreserved, before and after the step.          *)

Live == [v \in Versions |-> LiveSnapshot(v)]

LEMMA PublicationsStay ==
  ASSUME TypeOK, [Next]_vars
  PROVE  /\ Publications \subseteq Publications'
         /\ \A v \in Versions : state'[v] = state[v] \/ state[v] # "draft" =>
              \A e \in Publications' : e.version = v => e \in Publications
<1>1. ASSUME NEW t \in Txns, NEW u \in Versions, Publishes(t, u)
      PROVE  /\ Publications' = Publications \cup {PublicationBy(t)}
             /\ PublicationBy(t).version = u /\ state[u] = "draft" /\ state'[u] = "published"
  BY <1>1 DEF Publishes, PublicationBy, Publications, TypeOK, StoreOK
<1>2. ASSUME NEW t \in Txns, NEW u \in Versions, Withdraws(t, u)
      PROVE  Publications' = Publications
  BY <1>2 DEF Withdraws, WithdrawalBy, Publications
<1> QED BY <1>1, <1>2, LifecycleSteps DEF Publications

\* What was captured of a version that stays public, or stays a draft, stays.
LEMMA CapturedStays ==
  ASSUME TypeOK, [Next]_vars, NEW v \in Versions, state'[v] = state[v] \/ state[v] # "draft"
  PROVE  Captured(v)' = Captured(v)
  BY PublicationsStay DEF Captured

LEMMA LiveStays ==
  ASSUME Preservation, Preservation', [Next]_vars, NEW v \in Versions,
         state[v] # "draft", state'[v] # "draft"
  PROVE  LiveSnapshot(v)' = LiveSnapshot(v)
<1>1. TypeOK /\ PublishedContentPreserved /\ PublishedContentPreserved'
  BY DEF Preservation
<1>2. window'[v] = window[v]
  BY <1>1, WindowsOfDrafts
<1>3. Captured(v)' = Captured(v)
  BY <1>1, CapturedStays
<1>4. ASSUME NEW r \in Captured(v) PROVE db'[r] = db[r]
  <2>1. PICK e \in Publications : e.version = v /\ e.signature.rows[r] # Absent /\ r \in Rows
    BY DEF Captured
  <2>2. e \in Publications'
    BY <1>1, PublicationsStay
  <2> QED BY <1>1, <2>1, <2>2 DEF PublishedContentPreserved
<1>5. [r \in Captured(v)' |-> db'[r]] = [r \in Captured(v) |-> db[r]]
  BY <1>3, <1>4
<1> QED BY <1>2, <1>5 DEF LiveSnapshot

\* A version that is public has a snapshot of committed contents.
SnapshotsHeld ==
  \A v \in Versions : state[v] # "draft" =>
    LiveSnapshot(v) \in AllSnapshots /\ LiveSnapshot(v).window = window[v]

LEMMA LiveIsSnapshot == TypeOK /\ PublishedContentPreserved => SnapshotsHeld
<1> SUFFICES ASSUME TypeOK, PublishedContentPreserved, NEW v \in Versions, state[v] # "draft"
             PROVE  LiveSnapshot(v) \in AllSnapshots /\ LiveSnapshot(v).window = window[v]
  BY DEF SnapshotsHeld
<1>1. \A r \in Captured(v) : r \in Rows /\ db[r] \in Contents
  BY DEF Captured, PublishedContentPreserved, TypeOK, StoreOK
<1>2. [r \in Captured(v) |-> db[r]] \in UNION {[S -> Contents] : S \in SUBSET Rows}
  <2>1. [r \in Captured(v) |-> db[r]] \in [Captured(v) -> Contents]
    BY <1>1
  <2>2. Captured(v) \in SUBSET Rows
    BY <1>1
  <2> QED BY <2>1, <2>2
<1>3. window[v] \in Windows
  BY DEF TypeOK, StoreOK
<1> QED BY <1>2, <1>3 DEF LiveSnapshot, AllSnapshots

LEMMA StepImplements ==
  ASSUME Preservation, Preservation', SnapshotsHeld', [Next]_vars
  PROVE  [Lifecycle!Next]_(Lifecycle!vars)
<1>1. TypeOK /\ TypeOK' BY DEF Preservation
<1>2. ASSUME NEW v \in Versions, state'[v] = state[v] PROVE LiveSnapshot(v)' = LiveSnapshot(v)
  <2>1. CASE state[v] = "draft" BY <1>2, <2>1 DEF LiveSnapshot
  <2>2. CASE state[v] # "draft" BY <1>2, <2>2, LiveStays
  <2> QED BY <2>1, <2>2
<1>3. CASE UNCHANGED <<state, audit>>
  <2>1. Live' = Live BY <1>2, <1>3 DEF Live
  <2> QED BY <1>3, <2>1 DEF Live, Lifecycle!vars
<1>4. ASSUME NEW t \in Txns, NEW v \in Versions, Publishes(t, v)
      PROVE  Lifecycle!Publish(v)
  <2>1. /\ state[v] = "draft" /\ state' = [state EXCEPT ![v] = "published"]
        /\ state'[v] = "published" /\ \A w \in Versions \ {v} : state'[w] = state[w]
    BY <1>1, <1>4 DEF Publishes, TypeOK, StoreOK
  <2>2. LiveSnapshot(v)' \in AllSnapshots /\ LiveSnapshot(v)'.window = window'[v]
    BY <2>1 DEF SnapshotsHeld
  <2>3. ASSUME NEW w \in Versions \ {v}, state[w] = "published", ProcedureOf[w] = ProcedureOf[v]
        PROVE  Lifecycle!Disjoint(LiveSnapshot(v)'.window, LiveSnapshot(w).window)
    <3>1. window'[v] = window[v] /\ window[v] \in Windows /\ window[w] \in Windows
      BY <1>1, <2>1, WindowsOfDrafts DEF TypeOK, StoreOK
    <3>2. ~Overlap(window[v], window[w])
      BY <1>4, <2>3 DEF Publishes, Conflicts
    <3>3. LiveSnapshot(w).window = window[w]
      BY <2>3 DEF LiveSnapshot
    <3> QED BY <2>2, <3>1, <3>2, <3>3, OverlapOrDisjoint
  <2>4. \A w \in Versions \ {v} : LiveSnapshot(w)' = LiveSnapshot(w)
    BY <1>2, <2>1
  <2> QED BY <2>1, <2>2, <2>3, <2>4 DEF Lifecycle!Publish
<1>5. ASSUME NEW t \in Txns, NEW v \in Versions, Withdraws(t, v)
      PROVE  Lifecycle!Withdraw(v)
  <2>1. /\ state[v] = "published" /\ state' = [state EXCEPT ![v] = "withdrawn"]
        /\ state'[v] = "withdrawn" /\ \A w \in Versions \ {v} : state'[w] = state[w]
    BY <1>1, <1>5 DEF Withdraws, TypeOK, StoreOK
  <2>2. \A w \in Versions : LiveSnapshot(w)' = LiveSnapshot(w)
    BY <1>2, <2>1, LiveStays
  <2>3. Live' = Live BY <2>2 DEF Live
  <2> QED BY <2>1, <2>3 DEF Live, Lifecycle!Withdraw
<1> QED BY <1>1, <1>3, <1>4, <1>5, LifecycleSteps DEF Lifecycle!Next

(* The transactions, with their locks, gates, approvals and edits, implement
   the abstract lifecycle for every deployment, catalogue and number of users. *)
THEOREM LifecycleImplemented == Spec => ImplementsLifecycle
<1>1. Init => Lifecycle!Init
  BY DEF Init, Lifecycle!Init, LiveSnapshot
<1>2. Spec => []Preservation
  BY InitPreservation, StepPreservation, PTL DEF Spec
<1>3. Preservation => SnapshotsHeld
  BY LiveIsSnapshot DEF Preservation
<1>4. Preservation /\ Preservation' /\ SnapshotsHeld' /\ [Next]_vars
        => [Lifecycle!Next]_(Lifecycle!vars)
  BY StepImplements
<1> QED
  BY <1>1, <1>2, <1>3, <1>4, PTL DEF Spec, ImplementsLifecycle, Lifecycle!Spec
-----------------------------------------------------------------------------
(* Deadlocks.  What a publisher locks before its gates comes in one order   *)
(* for all of them, and an insertion, which waits for a publisher at        *)
(* COMMIT, holds only a row that no publisher sees.  The cycle check is     *)
(* outside of that order; a publisher beyond it waits for nobody.           *)

\* What a transaction may hold where it stands, and that a publisher takes its rows
\* in order.
HoldsInOrder(t) ==
  /\ \A v \in Versions : versionLock[v] = t =>
       /\ pc[t] \in PublishPcs \cup WithdrawPcs \cup ApprovePcs
       /\ job[t].version = v \/ pc[t] \in GatePcs
  /\ \A p \in Procedures : procedureLock[p] = t => pc[t] \in {"publish_rows"} \cup GatePcs
  /\ \A r \in Rows : rowLock[r] = t =>
       \/ pc[t] \in GatePcs
       \/ pc[t] = "publish_rows" /\ r \in Owned(job[t].version)
       \/ pc[t] = "approve_read"
       \/ pc[t] = "write_commit" /\ r = job[t].row
  /\ pc[t] = "publish_rows" =>
       \A r \in Rows : \A q \in ToLock(t) : rowLock[r] = t => LockRank[r] <= LockRank[q]

AllHoldInOrder == \A t \in Txns : HoldsInOrder(t)

Ordering == TypeOK /\ LockDiscipline /\ Approving /\ AllHoldInOrder

LEMMA InitOrder == Init => AllHoldInOrder
  BY MarkersAssumption, ConstantsAssumption DEF Init, AllHoldInOrder, HoldsInOrder

\* A transaction that ends holds nothing.
LEMMA FinishedHoldsNothing ==
  ASSUME TypeOK, NEW t \in Txns, Finish(t)
  PROVE  HoldsInOrder(t)'
<1>1. /\ \A v \in Versions : versionLock'[v] # t
      /\ \A p \in Procedures : procedureLock'[p] # t
      /\ \A r \in Rows : rowLock'[r] # t
      /\ pc'[t] = "idle"
  BY MarkersAssumption DEF TypeOK, LocksOK, LocalOK, Finish, Released
<1> QED BY <1>1 DEF HoldsInOrder

\* The transaction that moves.
LEMMA MoverHoldsInOrder ==
  ASSUME TypeOK, NEW t \in Txns, HoldsInOrder(t), Continue(t) \/ Start(t) \/ Crash(t)
  PROVE  HoldsInOrder(t)'
<1> USE DEF TypeOK, LocalOK, LocksOK
<1>1. CASE Finish(t) BY <1>1, FinishedHoldsNothing
<1>2. CASE PublishLockProcedure(t)
  <2>1. /\ pc[t] = "publish_procedure" /\ pc'[t] = "publish_rows" /\ job' = job
        /\ UNCHANGED <<versionLock, rowLock>>
    BY <1>2 DEF PublishLockProcedure
  <2>2. \A r \in Rows : rowLock[r] # t
    BY <2>1 DEF HoldsInOrder
  <2>3. \A v \in Versions : versionLock'[v] = t => job'[t].version = v
    BY <2>1 DEF HoldsInOrder, PublishPcs
  <2> QED BY <2>1, <2>2, <2>3 DEF HoldsInOrder, PublishPcs
<1>3. ASSUME NEW r \in Rows, PublishLockRow(t, r) PROVE HoldsInOrder(t)'
  <2>1. /\ pc[t] = "publish_rows" /\ UNCHANGED <<pc, job, db, versionLock, procedureLock>>
        /\ r \in ToLock(t) /\ rowLock' = [rowLock EXCEPT ![r] = t]
        /\ \A q \in ToLock(t) : LockRank[r] <= LockRank[q]
    BY <1>3 DEF PublishLockRow, LowestToLock, local
  <2>2. r \in Owned(job[t].version) BY <2>1 DEF ToLock, Present
  <2>3. ToLock(t)' \subseteq ToLock(t)
    <3>1. Present(job[t].version)' = Present(job[t].version) BY <2>1 DEF Present, Owned
    <3>2. \A q \in Rows : rowLock'[q] # t => rowLock[q] # t BY <2>1
    <3> QED BY <2>1, <3>1, <3>2 DEF ToLock, Present, Owned
  <2>4. \A q \in Rows : rowLock'[q] = t => q = r \/ rowLock[q] = t
    BY <2>1
  <2>5. \A q \in Rows : rowLock'[q] = t => q \in Owned(job[t].version)
    BY <2>1, <2>2, <2>4 DEF HoldsInOrder
  <2>6. Owned(job[t].version)' = Owned(job[t].version) BY <2>1 DEF Owned
  <2>7. \A q \in Rows : \A s \in ToLock(t)' : rowLock'[q] = t => LockRank[q] <= LockRank[s]
    BY <2>1, <2>3, <2>4 DEF HoldsInOrder
  <2> QED BY <2>1, <2>5, <2>6, <2>7 DEF HoldsInOrder
<1>4. CASE PublishDecide(t) \/ (PublishConfirm(t) /\ ~Finish(t))
  <2>1. /\ pc[t] \in {"publish_graph", "publish_confirm"} /\ pc'[t] \in DecidedPcs
        /\ UNCHANGED <<versionLock, procedureLock, rowLock>>
    BY <1>4 DEF PublishDecide, PublishConfirm, locks
  <2> QED BY <2>1 DEF HoldsInOrder, PublishPcs
<1>11. CASE PublishGraph(t)
  <2>1. /\ pc[t] = "publish_rows" /\ pc'[t] = "publish_graph"
        /\ UNCHANGED <<versionLock, procedureLock, rowLock>>
    BY <1>11 DEF PublishGraph, locks
  <2> QED BY <2>1 DEF HoldsInOrder, PublishPcs
<1>12. ASSUME NEW r \in DependencyRows, PublishLockDependency(t, r) \/ PublishLockDependent(t, r)
       PROVE  HoldsInOrder(t)'
  <2>1. pc[t] = "publish_graph" /\ UNCHANGED <<pc, procedureLock>>
    BY <1>12 DEF PublishLockDependency, PublishLockDependent, local
  <2> QED BY <2>1 DEF HoldsInOrder, PublishPcs
<1>5. CASE ApproveLockPolicy(t)
  <2>1. /\ pc[t] = "approve_policy" /\ pc'[t] = "approve_read"
        /\ UNCHANGED <<job, versionLock, procedureLock>>
    BY <1>5 DEF ApproveLockPolicy
  <2> QED BY <2>1 DEF HoldsInOrder, ApprovePcs
<1>6. ASSUME NEW r \in Rows, ApproveRead(t, r) PROVE HoldsInOrder(t)'
  <2>1. pc[t] = "approve_read" /\ UNCHANGED <<pc, job, versionLock, procedureLock, rowLock>>
    BY <1>6 DEF ApproveRead, locks
  <2> QED BY <2>1 DEF HoldsInOrder
<1>7. CASE WriteStatement(t)
  <2>1. /\ pc[t] = "write_statement" /\ pc'[t] = "write_commit"
        /\ UNCHANGED <<job, versionLock, procedureLock>>
        /\ rowLock' = [rowLock EXCEPT ![job[t].row] = t]
    BY <1>7 DEF WriteStatement
  <2>2. \A r \in Rows : rowLock[r] # t BY <2>1 DEF HoldsInOrder
  <2>3. \A v \in Versions : versionLock[v] # t
    BY <2>1 DEF HoldsInOrder, PublishPcs, WithdrawPcs, ApprovePcs
  <2>4. \A p \in Procedures : procedureLock[p] # t BY <2>1 DEF HoldsInOrder
  <2> QED BY <2>1, <2>2, <2>3, <2>4 DEF HoldsInOrder
<1>8. ASSUME NEW at, NEW what, Begin(t, at, what), UNCHANGED <<procedureLock, rowLock>>,
             \/ versionLock' = versionLock /\ at = "write_statement"
             \/ \E v \in Versions : /\ versionLock' = [versionLock EXCEPT ![v] = t]
                                    /\ what.version = v
                                    /\ at \in {"publish_procedure", "withdraw_procedure",
                                               "approve_policy"}
      PROVE  HoldsInOrder(t)'
  <2>1. pc[t] = "idle" /\ pc'[t] = at /\ job'[t] = what BY <1>8 DEF Begin, Idle
  <2>2. /\ \A v \in Versions : versionLock[v] # t
        /\ \A p \in Procedures : procedureLock[p] # t
        /\ \A r \in Rows : rowLock[r] # t
    BY <2>1 DEF HoldsInOrder, PublishPcs, WithdrawPcs, ApprovePcs
  <2>3. at # "publish_rows" BY <1>8
  <2>4. \A v \in Versions : versionLock'[v] = t =>
          at \in PublishPcs \cup WithdrawPcs \cup ApprovePcs /\ what.version = v
    BY <1>8, <2>2 DEF PublishPcs, WithdrawPcs, ApprovePcs
  <2> QED BY <1>8, <2>1, <2>2, <2>3, <2>4 DEF HoldsInOrder
<1>9. CASE Start(t)
  <2>1. ASSUME NEW v \in Versions, NEW u \in Users,
               PublishLockVersion(t, v, u) \/ WithdrawLockVersion(t, v, u)
        PROVE  HoldsInOrder(t)'
    BY <1>8, <2>1 DEF PublishLockVersion, WithdrawLockVersion
  <2>2. ASSUME NEW v \in Versions, NEW u \in Users, NEW c \in Scopes, ApproveLockVersion(t, v, u, c)
        PROVE  HoldsInOrder(t)'
    BY <1>8, <2>2 DEF ApproveLockVersion
  <2>3. ASSUME NEW r \in Rows, NEW value \in Contents \cup {Absent}, WriteBegin(t, r, value)
        PROVE  HoldsInOrder(t)'
    BY <1>8, <2>3 DEF WriteBegin, locks
  <2> QED BY <1>9, <2>1, <2>2, <2>3 DEF Start
<1>10. CASE Continue(t)
  <2>1. \/ Finish(t) \/ PublishLockProcedure(t) \/ PublishDecide(t)
        \/ PublishConfirm(t) \/ ApproveLockPolicy(t) \/ WriteStatement(t)
        \/ \E r \in Rows : PublishLockRow(t, r) \/ ApproveRead(t, r)
        \/ PublishGraph(t)
        \/ \E r \in DependencyRows : PublishLockDependency(t, r) \/ PublishLockDependent(t, r)
    BY <1>10 DEF Continue, PublishReject, PublishTransition, WithdrawTransition, ApproveRefuse,
                 ApproveRecord, WriteRefuse, WriteCommit
  <2> QED BY <2>1, <1>1, <1>2, <1>3, <1>4, <1>5, <1>6, <1>7, <1>11, <1>12
<1> QED BY <1>1, <1>9, <1>10 DEF Crash

\* Nobody else gets a lock by a transaction's step.
LEMMA OthersGainNothing ==
  ASSUME TypeOK, NEW s \in Txns, NEW t \in Txns, s # t, Continue(s) \/ Start(s) \/ Crash(s)
  PROVE  /\ \A v \in Versions : versionLock'[v] = t => versionLock[v] = t
         /\ \A p \in Procedures : procedureLock'[p] = t => procedureLock[p] = t
         /\ \A r \in Rows : rowLock'[r] = t => rowLock[r] = t
<1> USE MarkersAssumption DEF TypeOK, LocksOK
<1> DEFINE Goal == /\ \A v \in Versions : versionLock'[v] = t => versionLock[v] = t
                   /\ \A p \in Procedures : procedureLock'[p] = t => procedureLock[p] = t
                   /\ \A r \in Rows : rowLock'[r] = t => rowLock[r] = t
<1>1. ASSUME Finish(s) PROVE Goal
  BY <1>1 DEF Finish, Released
<1>2. CASE Continue(s)
  BY <1>1, <1>2
  DEF Continue, PublishLockProcedure, PublishLockRow,
      PublishGraph, PublishLockDependency, PublishLockDependent,
      PublishDecide, PublishReject,
      PublishConfirm, PublishTransition, WithdrawTransition, ApproveLockPolicy, ApproveRefuse,
      ApproveRead, ApproveRecord, WriteStatement, WriteRefuse, WriteCommit, locks
<1>3. CASE Start(s)
  BY <1>3 DEF Start, PublishLockVersion, WithdrawLockVersion, ApproveLockVersion, WriteBegin, locks
<1>4. CASE Crash(s)
  BY <1>1, <1>4 DEF Crash
<1> QED BY <1>2, <1>3, <1>4

\* The rows that a publisher still has to lock never become more: an insertion needs
\* the version that the publisher holds.
LEMMA NothingComesToLock ==
  ASSUME TypeOK, LockDiscipline, NEW s \in Txns, NEW t \in Txns, s # t,
         Continue(s) \/ Start(s) \/ Crash(s), pc[t] = "publish_rows"
  PROVE  ToLock(t)' \subseteq ToLock(t)
<1> DEFINE v == job[t].version
<1>1. job'[t] = job[t] /\ v \in Versions
  BY OthersLocalState DEF TypeOK, LocalOK, InHand, PublishPcs, PublishJob
<1>2. versionLock[v] = t /\ t # None
  BY MarkersAssumption DEF LockDiscipline, PublishersHold, PublishPcs
<1>3. ASSUME NEW r \in Owned(v), db'[r] # Absent, db[r] = Absent PROVE FALSE
  <2>1. WriteCommit(s)
    BY <1>3
    DEF Continue, PublishLockProcedure, PublishLockRow,
        PublishGraph, PublishLockDependency, PublishLockDependent,
        PublishDecide, PublishReject,
        PublishConfirm, PublishTransition, WithdrawTransition, ApproveLockPolicy, ApproveRefuse,
        ApproveRead, ApproveRecord, WriteStatement, WriteRefuse, Start, PublishLockVersion,
        WithdrawLockVersion, ApproveLockVersion, WriteBegin, Crash
  <2>2. r \in Rows /\ v \in Owners[r] BY DEF Owned
  <2>3. r = job[s].row /\ job[s].value # Absent
    BY <1>3, <2>1, <2>2 DEF WriteCommit, TypeOK, StoreOK
  <2>4. versionLock[v] = None
    BY <1>3, <2>1, <2>2, <2>3 DEF WriteCommit, Inserts
  <2> QED BY <1>2, <2>4
<1>4. ASSUME NEW r \in ToLock(t)' PROVE r \in ToLock(t)
  <2>1. r \in Owned(v) /\ db'[r] # Absent /\ rowLock'[r] # t
    BY <1>1, <1>4 DEF ToLock, Present, Owned
  <2>2. r \in Rows BY <2>1 DEF Owned
  <2>3. rowLock[r] # t BY <2>1, <2>2, OthersLocks
  <2>4. db[r] # Absent BY <1>3, <2>1
  <2> QED BY <2>1, <2>3, <2>4 DEF ToLock, Present
<1> QED BY <1>4

LEMMA StepOrder ==
  ASSUME TypeOK, LockDiscipline, AllHoldInOrder, [Next]_vars
  PROVE  AllHoldInOrder'
<1> SUFFICES ASSUME NEW t \in Txns PROVE HoldsInOrder(t)' BY DEF AllHoldInOrder
<1>1. HoldsInOrder(t) BY DEF AllHoldInOrder
<1>2. ASSUME NEW s \in Txns, s # t, Continue(s) \/ Start(s) \/ Crash(s) PROVE HoldsInOrder(t)'
  <2>1. pc'[t] = pc[t] /\ job'[t] = job[t] BY <1>2, OthersLocalState
  <2>2. /\ \A v \in Versions : versionLock'[v] = t => versionLock[v] = t
        /\ \A p \in Procedures : procedureLock'[p] = t => procedureLock[p] = t
        /\ \A r \in Rows : rowLock'[r] = t => rowLock[r] = t
    BY <1>2, OthersGainNothing
  <2>3. pc[t] = "publish_rows" => ToLock(t)' \subseteq ToLock(t) BY <1>2, NothingComesToLock
  <2>4. Owned(job[t].version)' = Owned(job[t].version) BY <2>1 DEF Owned
  <2> QED BY <1>1, <2>1, <2>2, <2>3, <2>4 DEF HoldsInOrder
<1>3. ASSUME NEW s \in Txns, Continue(s) \/ Start(s) \/ Crash(s) PROVE HoldsInOrder(t)'
  BY <1>1, <1>2, <1>3, MoverHoldsInOrder
<1>4. CASE Environment \/ UNCHANGED vars
  <2>1. UNCHANGED <<pc, job, versionLock, procedureLock, rowLock, db>>
    BY <1>4 DEF Environment, ReviseWindow, OpenDiscrepancy, ResolveDiscrepancy, SetPermission,
               vars, locks, local
  <2>2. ToLock(t)' = ToLock(t) /\ Owned(job[t].version)' = Owned(job[t].version)
    BY <2>1 DEF ToLock, Present, Owned
  <2> QED BY <1>1, <2>1, <2>2 DEF HoldsInOrder
<1> QED BY <1>3, <1>4 DEF Next

\* Of numbered things, finitely many, one has the greatest number.
LEMMA LeastNatural ==
  ASSUME NEW T \in SUBSET Nat, T # {}
  PROVE  \E n \in T : \A m \in T : n <= m
<1>1. PICK n \in T : \A m \in T : ~(<<m, n>> \in OpToRel(<, Nat))
  BY NatLessThanWellFounded, WFMin
<1>2. \A m \in T : ~(m < n)
  BY <1>1 DEF OpToRel
<1> QED BY <1>2

LEMMA GreatestNumbered ==
  ASSUME NEW T, IsFiniteSet(T), T # {}, NEW f, \A x \in T : f[x] \in Nat
  PROVE  \E x \in T : \A y \in T : f[y] <= f[x]
<1> DEFINE n == Cardinality(T)
<1>1. n \in Nat /\ ExistsBijection(1 .. n, T)
  BY FS_CardinalityType
<1>2. PICK b \in Bijection(1 .. n, T) : TRUE
  BY <1>1 DEF ExistsBijection
<1>3. b \in [1 .. n -> T] /\ \A y \in T : \E k \in 1 .. n : b[k] = y
  BY <1>2 DEF Bijection, Injection, Surjection
<1> DEFINE Bad == {k \in 0 .. n : \A x \in T : \E j \in 1 .. k : f[b[j]] > f[x]}
<1> HIDE DEF n
<1>4. Bad = {}
  <2> SUFFICES ASSUME Bad # {} PROVE FALSE OBVIOUS
  <2>1. Bad \in SUBSET Nat BY <1>1
  <2>2. PICK k \in Bad : \A m \in Bad : k <= m
    <3> HIDE DEF Bad
    <3> QED BY <2>1, LeastNatural
  <2>3. k \in 0 .. n /\ \A y \in T : \E j \in 1 .. k : f[b[j]] > f[y] OBVIOUS
  <2>4. k # 0 BY <2>3
  <2>5. k - 1 \in 0 .. n /\ k - 1 \notin Bad /\ k \in 1 .. n
    <3> HIDE DEF Bad
    <3>1. k - 1 \in 0 .. n /\ k \in 1 .. n /\ ~(k <= k - 1) BY <1>1, <2>3, <2>4
    <3> QED BY <2>2, <3>1
  <2>6. PICK x \in T : ~\E j \in 1 .. (k - 1) : f[b[j]] > f[x] BY <2>5
  <2> HIDE DEF Bad
  <2>7. b[k] \in T /\ \A j \in 1 .. (k - 1) : b[j] \in T
    <3>1. \A j \in 1 .. (k - 1) : j \in 1 .. n BY <1>1, <2>5
    <3> QED BY <1>3, <2>5, <3>1
  <2>8. PICK z \in T : f[b[k]] <= f[z] /\ f[x] <= f[z]
    <3>1. f[b[k]] \in Nat /\ f[x] \in Nat BY <2>7
    <3>2. f[b[k]] <= f[x] \/ f[x] <= f[b[k]] BY <3>1
    <3>3. f[b[k]] <= f[b[k]] /\ f[x] <= f[x] BY <3>1
    <3> QED BY <2>7, <3>2, <3>3
  <2>9. PICK j \in 1 .. k : f[b[j]] > f[z] BY <2>3
  <2>10. CASE j = k
    <3>1. f[b[k]] \in Nat /\ f[z] \in Nat BY <2>7
    <3> QED BY <2>8, <2>9, <2>10, <3>1
  <2>11. CASE j # k
    <3>1. j \in 1 .. (k - 1) BY <1>1, <2>5, <2>11
    <3>2. f[b[j]] \in Nat /\ f[x] \in Nat /\ f[z] \in Nat BY <2>7, <3>1
    <3>3. ~(f[b[j]] > f[x]) BY <2>6, <3>1
    <3> QED BY <2>8, <2>9, <3>2, <3>3
  <2> QED BY <2>10, <2>11
<1>5. n \in 0 .. n /\ n \notin Bad
  <2>1. n \in 0 .. n BY <1>1
  <2> HIDE DEF Bad
  <2> QED BY <1>4, <2>1
<1>6. PICK x \in T : ~\E j \in 1 .. n : f[b[j]] > f[x]
  BY <1>5
<1>7. \A y \in T : f[y] <= f[x]
  <2> SUFFICES ASSUME NEW y \in T PROVE f[y] <= f[x] OBVIOUS
  <2>1. PICK j \in 1 .. n : b[j] = y BY <1>3
  <2> QED BY <1>6, <2>1
<1> QED BY <1>7

\* A circle in which no publisher's gates are running.
OrderedCircle(S) == Deadlocked(S) /\ \A t \in S : pc[t] # "publish_graph"

\* Within a circle only publishers and insertions hold rows, and these only rows
\* that do not exist yet.
LEMMA HoldersInACircle ==
  ASSUME Ordering, NEW S \in SUBSET Txns, OrderedCircle(S), NEW u \in S
  PROVE  /\ pc[u] \in {"publish_procedure", "withdraw_procedure", "publish_rows",
                       "approve_policy", "write_statement", "write_commit"}
         /\ \A p \in Procedures : procedureLock[p] = u => pc[u] = "publish_rows"
         /\ \A r \in Rows : rowLock[r] = u =>
              \/ pc[u] = "publish_rows" /\ r \in Owned(job[u].version)
              \/ pc[u] = "write_commit" /\ db[r] = Absent
<1>1. PICK w \in S : Waits(u, w) /\ pc[u] # "publish_graph" BY DEF OrderedCircle, Deadlocked
<1>2. /\ pc[u] \in {"publish_procedure", "withdraw_procedure", "publish_rows",
                    "approve_policy", "write_statement", "write_commit"}
      /\ pc[u] = "write_commit" => db[job[u].row] = Absent
  BY <1>1 DEF Waits, Inserts
<1>3. HoldsInOrder(u) BY DEF Ordering, AllHoldInOrder
<1> QED BY <1>2, <1>3 DEF HoldsInOrder

\* An approver waits for writers of the policy only, and these wait for nobody.
LEMMA ApproversWaitInNoCircle ==
  ASSUME Ordering, NEW S \in SUBSET Txns, OrderedCircle(S), NEW t \in S
  PROVE  pc[t] # "approve_policy"
<1> SUFFICES ASSUME pc[t] = "approve_policy" PROVE FALSE OBVIOUS
<1> DEFINE v == job[t].version
<1>1. v \in Versions BY DEF Ordering, TypeOK, LocalOK, InHand, ApprovePcs, ApproveJob
<1>2. PICK u \in S : db[PolicyRow[v]] # Absent /\ rowLock[PolicyRow[v]] = u
  BY DEF OrderedCircle, Deadlocked, Waits, Policy
<1>3. PolicyRow[v] \in Rows /\ Owners[PolicyRow[v]] = {v}
  BY <1>1, ConstantsAssumption
<1>4. pc[u] = "publish_rows" /\ PolicyRow[v] \in Owned(job[u].version)
  BY <1>2, <1>3, HoldersInACircle
<1>5. job[u].version = v BY <1>3, <1>4 DEF Owned
<1>6. versionLock[v] = u
  BY <1>4, <1>5 DEF Ordering, LockDiscipline, PublishersHold, PublishPcs
<1>7. versionLock[v] = t
  BY DEF Ordering, Approving, ApproversHold, ApprovePcs
<1> QED BY <1>4, <1>6, <1>7

\* A publisher is part of every circle, and takes rows.
LEMMA CirclesHavePublishers ==
  ASSUME Ordering, NEW S \in SUBSET Txns, OrderedCircle(S)
  PROVE  \E t \in S : pc[t] = "publish_rows"
<1>1. ASSUME NEW t \in S, pc[t] \in {"publish_procedure", "withdraw_procedure"}
      PROVE  \E u \in S : pc[u] = "publish_rows"
  <2>1. PICK u \in S : procedureLock[ProcedureOf[job[t].version]] = u
    BY <1>1 DEF OrderedCircle, Deadlocked, Waits
  <2>2. ProcedureOf[job[t].version] \in Procedures
    BY <1>1, ConstantsAssumption
    DEF Ordering, TypeOK, LocalOK, InHand, PublishPcs, WithdrawPcs, PublishJob, WithdrawJob
  <2> QED BY <2>1, <2>2, HoldersInACircle
<1>2. ASSUME NEW t \in S, pc[t] = "write_commit"
      PROVE  \E u \in S : pc[u] = "publish_rows"
  <2>1. job[t].row \in Rows
    BY <1>2 DEF Ordering, TypeOK, LocalOK, InHand, WritePcs, WriteJob
  <2>2. PICK u \in S, v \in Owners[job[t].row] : versionLock[v] = u
    BY <1>2 DEF OrderedCircle, Deadlocked, Waits
  <2>3. v \in Versions BY <2>1, ConstantsAssumption
  <2>4. pc[u] \in PublishPcs \cup WithdrawPcs \cup ApprovePcs
    BY <2>2, <2>3 DEF Ordering, AllHoldInOrder, HoldsInOrder
  <2>5. pc[u] \in {"publish_procedure", "withdraw_procedure", "publish_rows"}
    BY <2>4, HoldersInACircle, ApproversWaitInNoCircle DEF PublishPcs, WithdrawPcs, ApprovePcs
  <2> QED BY <1>1, <2>5
<1>3. ASSUME NEW t \in S, pc[t] = "write_statement"
      PROVE  \E u \in S : pc[u] = "publish_rows"
  <2>1. job[t].row \in Rows
    BY <1>3 DEF Ordering, TypeOK, LocalOK, InHand, WritePcs, WriteJob
  <2>2. PICK u \in S : rowLock[job[t].row] = u
    BY <1>3 DEF OrderedCircle, Deadlocked, Waits
  <2>3. pc[u] \in {"publish_rows", "write_commit"}
    BY <2>1, <2>2, HoldersInACircle
  <2> QED BY <1>2, <2>3
<1>4. PICK t \in S : TRUE BY DEF OrderedCircle, Deadlocked
<1> QED BY <1>1, <1>2, <1>3, <1>4, HoldersInACircle, ApproversWaitInNoCircle

LEMMA NoCircle ==
  ASSUME Ordering, NEW S \in SUBSET Txns
  PROVE  ~OrderedCircle(S)
<1> SUFFICES ASSUME OrderedCircle(S) PROVE FALSE OBVIOUS
<1> DEFINE Fought == {r \in Shared : \E t, u \in S : /\ pc[t] = "publish_rows"
                                                    /\ r \in LowestToLock(t)
                                                    /\ pc[u] = "publish_rows"
                                                    /\ rowLock[r] = u}
<1>1. ASSUME NEW t \in S, pc[t] = "publish_rows"
      PROVE  \E r \in Fought : r \in LowestToLock(t)
  <2>1. PICK u \in S, r \in LowestToLock(t) : rowLock[r] = u
    BY <1>1 DEF OrderedCircle, Deadlocked, Waits
  <2>2. /\ r \in Rows /\ job[t].version \in Owners[r] /\ db[r] # Absent /\ u # t
    BY <2>1 DEF LowestToLock, ToLock, Present, Owned
  <2>3. pc[u] = "publish_rows" /\ job[u].version \in Owners[r]
    BY <2>1, <2>2, HoldersInACircle DEF Owned
  <2>4. job[u].version # job[t].version
    <3>1. versionLock[job[t].version] = t /\ versionLock[job[u].version] = u
      BY <1>1, <2>3 DEF Ordering, LockDiscipline, PublishersHold, PublishPcs
    <3> QED BY <2>2, <3>1
  <2>5. r \in Shared
    BY <2>2, <2>3, <2>4, ConstantsAssumption
  <2>6. r \in Fought BY <1>1, <2>1, <2>3, <2>5
  <2> QED BY <2>1, <2>6
<1>2. Fought # {} BY <1>1, CirclesHavePublishers
<1>3. IsFiniteSet(Fought) BY LockOrderAssumption, FS_Subset
<1>4. ASSUME NEW r \in Fought PROVE \E q \in Fought : LockRank[r] < LockRank[q]
  <2>1. PICK u \in S : pc[u] = "publish_rows" /\ rowLock[r] = u
    OBVIOUS
  <2>2. PICK q \in Fought : q \in LowestToLock(u)
    BY <1>1, <2>1
  <2>3. q \in ToLock(u) /\ rowLock[q] # u
    BY <2>2 DEF LowestToLock, ToLock
  <2>4. r \in Rows /\ q \in Rows /\ r \in Shared /\ q \in Shared
    BY ConstantsAssumption
  <2>5. LockRank[r] <= LockRank[q]
    BY <2>1, <2>3, <2>4 DEF Ordering, AllHoldInOrder, HoldsInOrder
  <2>6. LockRank[r] # LockRank[q]
    BY <2>1, <2>3, <2>4, LockOrderAssumption
  <2>7. LockRank[r] \in Nat /\ LockRank[q] \in Nat
    BY <2>4, ConstantsAssumption
  <2> QED BY <2>5, <2>6, <2>7
<1>5. \A r \in Fought : LockRank[r] \in Nat
  BY ConstantsAssumption
<1> HIDE DEF Fought
<1>6. PICK r \in Fought : \A q \in Fought : LockRank[q] <= LockRank[r]
  BY <1>2, <1>3, <1>5, GreatestNumbered
<1> QED BY <1>4, <1>5, <1>6

(* Publishers, approvers, writers and withdrawals wait for each other in a circle
   only if a publisher's gates are running: of the shared rows that publishers
   fight for before their gates one is last in the lock order, and whoever holds
   it waits for no row before it.                                             *)
THEOREM DeadlocksGoThroughTheGates == Spec => []DeadlocksNeedTheGates
<1>1. Ordering => DeadlocksNeedTheGates
  BY NoCircle DEF DeadlocksNeedTheGates, OrderedCircle
<1>2. Init => Ordering
  BY InitTypeOK, InitDiscipline, InitOrder
  DEF Ordering, Init, Approving, ApproversHold, ApprovePcs
<1>3. Ordering /\ [Next]_vars => Ordering'
  BY StepTypeOK, StepDiscipline, StepApproving, StepOrder DEF Ordering
<1> QED BY <1>1, <1>2, <1>3, PTL DEF Spec
=============================================================================
