---------------------- MODULE EvidenceWorkflow_proofs ----------------------
(***************************************************************************)
(* Proofs about EvidenceWorkflow, for every value of its constants.        *)
(***************************************************************************)
EXTENDS EvidenceWorkflow, FiniteSetTheorems, WellFoundedInduction, TLAPS

-----------------------------------------------------------------------------
(* Types. *)

Statuses == {"open", "resolved"}
LifecycleStates == {"draft", "published", "withdrawn"}

\* Rows of the transitions whose primary key is one of pks.
TransitionRows(pks) ==
  [kind : {"opened", "resolved"}, discrepancy : Discrepancies, state : Outcomes,
   at : 0 .. MaxNow, pk : pks]

ReviewRows ==
  {r \in [subject : Subjects, links : SUBSET Links, state : Outcomes,
          verifiedOn : {d.verifiedOn : d \in ReviewDates},
          reverifyOn : {d.reverifyOn : d \in ReviewDates},
          successor : SUBSET Versions, at : 0 .. MaxNow, pk : 1 .. MaxReviews] :
     r.reverifyOn # None => r.verifiedOn <= r.reverifyOn}

OpenJobs ==
  {j \in [anchor : Links, links : SUBSET Links, outcome : Outcomes \cap OpenOutcomes,
          owners : SUBSET Versions, successor : {{}}] : j.anchor \in j.links}
OpenedJobs ==
  {j \in [anchor : Links, links : SUBSET Links, outcome : Outcomes \cap OpenOutcomes,
          discrepancy : Discrepancies, made : TransitionRows(1 .. MaxTransitions)] :
     /\ j.anchor \in j.links
     /\ j.made.kind = "opened" /\ j.made.discrepancy = j.discrepancy
     /\ j.made.state = j.outcome}
FormJobs ==
  [discrepancy : Discrepancies, status : Statuses, outcome : Outcomes,
   previous : Statuses, at : 0 .. MaxNow]
SaveJobs ==
  {j \in [discrepancy : Discrepancies, status : Statuses, outcome : Outcomes,
          made : TransitionRows(Nat)] :
     j.made.kind = "resolved" /\ j.made.discrepancy = j.discrepancy}
ReviewJobs ==
  [subject : Subjects, links : SUBSET Links, outcome : Outcomes, dates : ReviewDates,
   owners : SUBSET Versions, successor : SUBSET Versions]
ReviewedJobs == [made : ReviewRows]
PublishJobs  == [version : Versions]
GraphJobs    == [version : Versions, graph : SUBSET Dependencies]
GateJobs     == [version : Versions, gate : SUBSET Discrepancies]

Pcs == {"idle", "open_lock", "open_commit", "admin_notice", "admin_update",
        "resolve_commit", "edit_commit", "review_lock", "review_commit",
        "publish_rows", "publish_graph", "publish_gate"}

\* What a transaction carries where it stands.
JobAt(at, j) ==
  /\ at = "open_lock" => j \in OpenJobs
  /\ at = "open_commit" => j \in OpenedJobs
  /\ at \in {"admin_notice", "admin_update"} => j \in FormJobs
  /\ at \in {"resolve_commit", "edit_commit"} => j \in SaveJobs
  /\ at = "resolve_commit" => j.made.pk \in 1 .. MaxTransitions
  /\ at = "review_lock" => j \in ReviewJobs
  /\ at = "review_commit" => j \in ReviewedJobs
  /\ at = "publish_rows" => j \in PublishJobs
  /\ at = "publish_graph" => j \in GraphJobs
  /\ at = "publish_gate" => j \in GateJobs

StoreOK ==
  /\ state \in [Versions -> LifecycleStates]
  /\ owners \in [Subjects -> SUBSET Versions]
  /\ evidence \subseteq Links /\ spare \subseteq Links /\ evidence \cap spare = {}
  /\ inserting \subseteq spare
  /\ discrepancies \in [Discrepancies -> DiscrepancyRows \cup {Absent}]
  /\ transitions \subseteq TransitionRows(1 .. MaxTransitions)
  /\ reviews \subseteq ReviewRows
  /\ now \in 0 .. MaxNow

TxnsOK ==
  /\ lock \in [Rows -> Txns \cup {None}]
  /\ pc \in [Txns -> Pcs]
  /\ DOMAIN job = Txns /\ job = [t \in Txns |-> job[t]]
  /\ \A t \in Txns : JobAt(pc[t], job[t])
  /\ late \in [Txns -> SUBSET Links]

\* A discrepancy that is being saved exists.
SavePcs == {"admin_notice", "admin_update", "resolve_commit", "edit_commit"}
Known == \A t \in Txns : pc[t] \in SavePcs => job[t].discrepancy \in Existing

TypeOK == StoreOK /\ TxnsOK /\ Known

-----------------------------------------------------------------------------
(* The parts of the inductive invariants. *)

\* What a transaction holds where it stands.
Holds(t) ==
  /\ pc[t] \in {"idle", "admin_notice", "admin_update"} => Held(t) = {}
  /\ pc[t] = "open_commit" => Held(t) = {} \/ lock[job[t].anchor] = t
  /\ pc[t] \in {"resolve_commit", "edit_commit"} => lock[job[t].discrepancy] = t
  /\ pc[t] \in {"publish_rows", "publish_graph", "publish_gate"} => lock[job[t].version] = t
  /\ pc[t] \in {"publish_graph", "publish_gate"} =>
       \A r \in ItemsOf(job[t].version) \cup MaterialOf(job[t].version) : lock[r] = t
  /\ pc[t] \notin {"publish_gate", "resolve_commit", "edit_commit"}
       => Held(t) \cap Discrepancies = {}

\* The rows a transaction has to lock before it goes on, those it holds included.
NeededRows(t) ==
  IF pc[t] = "publish_rows" THEN Aggregate(job[t].version)
  ELSE job[t].owners \cup job[t].successor \cup (job[t].links \cap evidence)

\* It holds none of higher rank than one it needs, and no new row comes up
\* except above those.
Ascends(t) ==
  /\ pc[t] \in {"open_lock", "review_lock"} => job[t].links \cap spare = {}
  /\ pc[t] \in {"open_lock", "review_lock", "publish_rows"} =>
       \A h \in Held(t), r \in NeededRows(t) \ Held(t) : h \in Ranked /\ Rank[h] < Rank[r]

\* A discrepancy, its evidence and its transitions belong together.
RecordsAgree ==
  /\ \A d \in Existing :
       /\ discrepancies[d].anchor \in discrepancies[d].links \cap evidence
       /\ \E o \in transitions : o.kind = "opened" /\ o.discrepancy = d
       /\ discrepancies[d].status = "resolved" => AlreadyResolved(d)
  /\ \A e \in transitions : e.discrepancy \in Existing /\ e.at <= now

OpeningsOf(d) == {e \in transitions : e.kind = "opened" /\ e.discrepancy = d}

\* What a transaction is about to record fits what is recorded.
Fits(t) ==
  /\ pc[t] = "open_commit" => job[t].discrepancy \notin Existing
  /\ pc[t] \in {"admin_notice", "admin_update"} =>
       job[t].at <= now /\ \A o \in OpeningsOf(job[t].discrepancy) : o.at <= job[t].at
  /\ pc[t] = "admin_update" /\ job[t].previous = "resolved" => AlreadyResolved(job[t].discrepancy)
  /\ pc[t] = "edit_commit" /\ job[t].status = "resolved" => AlreadyResolved(job[t].discrepancy)
  /\ pc[t] = "resolve_commit" =>
       /\ ~AlreadyResolved(job[t].discrepancy)
       /\ \A o \in OpeningsOf(job[t].discrepancy) : o.at <= job[t].made.at /\ o.pk < job[t].made.pk
  /\ pc[t] \in {"open_commit", "resolve_commit"} =>
       job[t].made.at <= now /\ \A e \in transitions : e.pk # job[t].made.pk
  /\ pc[t] = "review_commit" => \A r \in reviews : r.pk # job[t].made.pk

\* No two transactions record the same key.
KeysDiffer ==
  \A t, u \in Txns : t # u =>
    /\ pc[t] \in {"open_commit", "resolve_commit"} /\ pc[u] \in {"open_commit", "resolve_commit"}
         => job[t].made.pk # job[u].made.pk
    /\ pc[t] = "open_commit" /\ pc[u] = "open_commit" => job[t].discrepancy # job[u].discrepancy
    /\ pc[t] = "review_commit" /\ pc[u] = "review_commit" => job[t].made.pk # job[u].made.pk

\* What the gate did not find open on the material of its version is resolved.
GateSaw(t) ==
  pc[t] = "publish_gate" =>
    \A d \in Existing \ job[t].gate :
      job[t].version \in OwnersOf(discrepancies[d].anchor) => AlreadyResolved(d)

\* A reverification that is about to be committed stands on its evidence.
Stands(t) ==
  /\ pc[t] = "review_lock" =>
       job[t].links # {} /\ \A l \in job[t].links : SubjectOf[l] = job[t].subject
  /\ pc[t] = "review_commit" =>
       /\ job[t].made.links \subseteq EvidenceOf(job[t].made.subject)
       /\ EvidenceOf(job[t].made.subject) \ job[t].made.links \subseteq late[t]
       /\ Public(job[t].made.subject)
       /\ \A v \in job[t].made.successor :
            lock[v] = t /\ state[v] = "draft" /\ v \notin owners[job[t].made.subject]

AllHold   == \A t \in Txns : Holds(t)
AllAscend == \A t \in Txns : Ascends(t)
AllFit    == \A t \in Txns : Fits(t)
AllSaw    == \A t \in Txns : GateSaw(t)
AllStand  == \A t \in Txns : Stands(t)

-----------------------------------------------------------------------------
(* Least and greatest elements, and what follows for keys and locks. *)

LEMMA LeastNatural ==
  ASSUME NEW T \in SUBSET Nat, T # {}
  PROVE  \E n \in T : \A m \in T : n <= m
<1>1. PICK n \in T : \A m \in T : ~(<<m, n>> \in OpToRel(<, Nat))
  BY NatLessThanWellFounded, WFMin
<1>2. \A m \in T : ~(m < n)
  BY <1>1 DEF OpToRel
<1> QED BY <1>2

LEMMA GreatestNumbered ==
  ASSUME NEW T, IsFiniteSet(T), T # {}, NEW f, \A x \in T : f[x] \in Nat
  PROVE  \E x \in T : \A y \in T : f[y] <= f[x]
<1> DEFINE n == Cardinality(T)
<1>1. n \in Nat /\ ExistsBijection(1 .. n, T)
  BY FS_CardinalityType
<1>2. PICK b \in Bijection(1 .. n, T) : TRUE
  BY <1>1 DEF ExistsBijection
<1>3. b \in [1 .. n -> T] /\ \A y \in T : \E k \in 1 .. n : b[k] = y
  BY <1>2 DEF Bijection, Injection, Surjection
<1> DEFINE Bad == {k \in 0 .. n : \A x \in T : \E j \in 1 .. k : f[b[j]] > f[x]}
<1> HIDE DEF n
<1>4. Bad = {}
  <2> SUFFICES ASSUME Bad # {} PROVE FALSE OBVIOUS
  <2>1. Bad \in SUBSET Nat BY <1>1
  <2>2. PICK k \in Bad : \A m \in Bad : k <= m
    <3> HIDE DEF Bad
    <3> QED BY <2>1, LeastNatural
  <2>3. k \in 0 .. n /\ \A y \in T : \E j \in 1 .. k : f[b[j]] > f[y] OBVIOUS
  <2>4. k # 0 BY <2>3
  <2>5. k - 1 \in 0 .. n /\ k - 1 \notin Bad /\ k \in 1 .. n
    <3> HIDE DEF Bad
    <3>1. k - 1 \in 0 .. n /\ k \in 1 .. n /\ ~(k <= k - 1) BY <1>1, <2>3, <2>4
    <3> QED BY <2>2, <3>1
  <2>6. PICK x \in T : ~\E j \in 1 .. (k - 1) : f[b[j]] > f[x] BY <2>5
  <2> HIDE DEF Bad
  <2>7. b[k] \in T /\ \A j \in 1 .. (k - 1) : b[j] \in T
    <3>1. \A j \in 1 .. (k - 1) : j \in 1 .. n BY <1>1, <2>5
    <3> QED BY <1>3, <2>5, <3>1
  <2>8. PICK z \in T : f[b[k]] <= f[z] /\ f[x] <= f[z]
    <3>1. f[b[k]] \in Nat /\ f[x] \in Nat BY <2>7
    <3>2. f[b[k]] <= f[x] \/ f[x] <= f[b[k]] BY <3>1
    <3>3. f[b[k]] <= f[b[k]] /\ f[x] <= f[x] BY <3>1
    <3> QED BY <2>7, <3>2, <3>3
  <2>9. PICK j \in 1 .. k : f[b[j]] > f[z] BY <2>3
  <2>10. CASE j = k
    <3>1. f[b[k]] \in Nat /\ f[z] \in Nat BY <2>7
    <3> QED BY <2>8, <2>9, <2>10, <3>1
  <2>11. CASE j # k
    <3>1. j \in 1 .. (k - 1) BY <1>1, <2>5, <2>11
    <3>2. f[b[j]] \in Nat /\ f[x] \in Nat /\ f[z] \in Nat BY <2>7, <3>1
    <3>3. ~(f[b[j]] > f[x]) BY <2>6, <3>1
    <3> QED BY <2>8, <2>9, <3>2, <3>3
  <2> QED BY <2>10, <2>11
<1>5. n \in 0 .. n /\ n \notin Bad
  <2>1. n \in 0 .. n BY <1>1
  <2> HIDE DEF Bad
  <2> QED BY <1>4, <2>1
<1>6. PICK x \in T : ~\E j \in 1 .. n : f[b[j]] > f[x]
  BY <1>5
<1>7. \A y \in T : f[y] <= f[x]
  <2> SUFFICES ASSUME NEW y \in T PROVE f[y] <= f[x] OBVIOUS
  <2>1. PICK j \in 1 .. n : b[j] = y BY <1>3
  <2> QED BY <1>6, <2>1
<1> QED BY <1>7

\* A primary key that is handed out is above all that are in use.
LEMMA NextPkAbove ==
  ASSUME NEW m \in Nat, NEW used \in SUBSET (1 .. m)
  PROVE  NextPk(used) \in Nat \ {0} /\ \A n \in used : n < NextPk(used)
<1>1. CASE used = {} BY <1>1 DEF NextPk
<1>2. CASE used # {}
  <2>1. IsFiniteSet(used)
    <3>1. IsFiniteSet(1 .. m) BY FS_Interval
    <3> QED BY <3>1, FS_Subset
  <2> DEFINE f == [n \in used |-> n]
  <2>2. \A n \in used : f[n] \in Nat OBVIOUS
  <2> HIDE DEF f
  <2>3. PICK n \in used : \A k \in used : f[k] <= f[n]
    BY <1>2, <2>1, <2>2, GreatestNumbered
  <2>4. \A k \in used : k <= n
    BY <2>3 DEF f
  <2> DEFINE g == CHOOSE i \in used : \A j \in used : j <= i
  <2>5. g \in used /\ \A j \in used : j <= g
    BY <2>4
  <2>6. NextPk(used) = 1 + g
    BY <1>2 DEF NextPk
  <2> HIDE DEF g
  <2> QED BY <2>5, <2>6
<1> QED BY <1>1, <1>2

\* As long as ranked rows are to be locked, one of them is next.
LEMMA InOrderEmpty ==
  ASSUME NEW t, NEW rows \in SUBSET Ranked, InOrder(t, rows) = {}
  PROVE  rows = {}
<1> SUFFICES ASSUME rows # {} PROVE FALSE OBVIOUS
<1> DEFINE T == {Rank[r] : r \in rows}
<1>1. T \in SUBSET Nat /\ T # {}
  BY WorkflowAssumption
<1>2. PICK n \in T : \A m \in T : n <= m
  BY <1>1, LeastNatural
<1>3. PICK r \in rows : n = Rank[r]
  OBVIOUS
<1>4. r \in InOrder(t, rows)
  BY <1>2, <1>3 DEF InOrder
<1> QED BY <1>4

-----------------------------------------------------------------------------
(* Type correctness. *)

LEMMA TransitionKeys ==
  ASSUME TypeOK
  PROVE  /\ TransitionPk \in Nat \ {0}
         /\ \A e \in transitions : e.pk < TransitionPk
         /\ \A t \in Txns : pc[t] \in {"open_commit", "resolve_commit"}
              => job[t].made.pk < TransitionPk
<1> DEFINE used == {e.pk : e \in transitions \cup Made("open_commit") \cup Made("resolve_commit")}
<1>1. ASSUME NEW e \in transitions PROVE e.pk \in 1 .. MaxTransitions
  BY DEF TypeOK, StoreOK, TransitionRows
<1>2. ASSUME NEW t \in Txns, pc[t] \in {"open_commit", "resolve_commit"}
      PROVE  job[t].made.pk \in 1 .. MaxTransitions
  BY <1>2 DEF TypeOK, TxnsOK, JobAt, OpenedJobs, TransitionRows
<1>3. used \in SUBSET (1 .. MaxTransitions)
  BY <1>1, <1>2 DEF Made
<1>4. \A t \in Txns : pc[t] \in {"open_commit", "resolve_commit"} => job[t].made.pk \in used
  BY DEF Made
<1>5. \A e \in transitions : e.pk \in used
  OBVIOUS
<1>6. MaxTransitions \in Nat BY WorkflowAssumption
<1>7. TransitionPk = NextPk(used) BY DEF TransitionPk
<1> HIDE DEF used
<1>8. NextPk(used) \in Nat \ {0} /\ \A n \in used : n < NextPk(used)
  BY <1>3, <1>6, NextPkAbove
<1> QED BY <1>4, <1>5, <1>7, <1>8

LEMMA ReviewKeys ==
  ASSUME TypeOK
  PROVE  /\ ReviewPk \in Nat \ {0}
         /\ \A r \in reviews : r.pk < ReviewPk
         /\ \A t \in Txns : pc[t] = "review_commit" => job[t].made.pk < ReviewPk
<1> DEFINE used == {e.pk : e \in reviews \cup Made("review_commit")}
<1>1. ASSUME NEW e \in reviews PROVE e.pk \in 1 .. MaxReviews
  BY DEF TypeOK, StoreOK, ReviewRows
<1>2. ASSUME NEW t \in Txns, pc[t] = "review_commit"
      PROVE  job[t].made.pk \in 1 .. MaxReviews
  BY <1>2 DEF TypeOK, TxnsOK, JobAt, ReviewedJobs, ReviewRows
<1>3. used \in SUBSET (1 .. MaxReviews)
  BY <1>1, <1>2 DEF Made
<1>4. \A t \in Txns : pc[t] = "review_commit" => job[t].made.pk \in used
  BY DEF Made
<1>5. \A r \in reviews : r.pk \in used
  OBVIOUS
<1>6. MaxReviews \in Nat BY WorkflowAssumption
<1>7. ReviewPk = NextPk(used) BY DEF ReviewPk
<1> HIDE DEF used
<1>8. NextPk(used) \in Nat \ {0} /\ \A n \in used : n < NextPk(used)
  BY <1>3, <1>6, NextPkAbove
<1> QED BY <1>4, <1>5, <1>7, <1>8

\* A transaction goes to another place with something else in its hands.
LEMMA TurnType ==
  ASSUME TxnsOK, Known, NEW t \in Txns, NEW at \in Pcs, NEW what, JobAt(at, what),
         at \in SavePcs => what.discrepancy \in Existing', Existing \subseteq Existing',
         pc' = [pc EXCEPT ![t] = at], job' = [job EXCEPT ![t] = what],
         lock' \in [Rows -> Txns \cup {None}],
         late' = late \/ late' = [late EXCEPT ![t] = {}]
  PROVE  TxnsOK' /\ Known'
<1>1. pc' \in [Txns -> Pcs] BY DEF TxnsOK
<1>2. DOMAIN job' = Txns /\ job' = [u \in Txns |-> job'[u]]
  BY DEF TxnsOK
<1>3. ASSUME NEW u \in Txns PROVE JobAt(pc[u], job[u])'
  BY <1>1 DEF TxnsOK, JobAt
<1>4. Known' BY <1>1 DEF TxnsOK, Known
<1>5. late' \in [Txns -> SUBSET Links] BY DEF TxnsOK
<1> QED BY <1>1, <1>2, <1>3, <1>4, <1>5 DEF TxnsOK

LEMMA FinishType ==
  ASSUME TxnsOK, Known, NEW t \in Txns, Finish(t), Existing \subseteq Existing'
  PROVE  TxnsOK' /\ Known'
<1>1. lock' \in [Rows -> Txns \cup {None}] BY DEF Finish, TxnsOK
<1>2. JobAt("idle", None) /\ "idle" \in Pcs /\ "idle" \notin SavePcs BY DEF JobAt, Pcs, SavePcs
<1>3. /\ pc' = [pc EXCEPT ![t] = "idle"] /\ job' = [job EXCEPT ![t] = None]
      /\ late' = [late EXCEPT ![t] = {}]
  BY DEF Finish
<1> QED BY <1>1, <1>2, <1>3, TurnType

LEMMA StoreUnchanged ==
  ASSUME StoreOK, UNCHANGED <<store, now>>
  PROVE  StoreOK' /\ Existing' = Existing
  BY DEF StoreOK, store, Existing

LEMMA TxnsUnchanged ==
  ASSUME TxnsOK, Known, UNCHANGED <<lock, pc, job>>, late' \in [Txns -> SUBSET Links],
         Existing \subseteq Existing'
  PROVE  TxnsOK' /\ Known'
  BY DEF TxnsOK, JobAt, Known

\* Row locks are handed to a transaction one at a time.
LEMMA LockNextType ==
  ASSUME TypeOK, NEW t \in Txns, NEW r \in Rows, LockNext(t, r)
  PROVE  TypeOK'
<1>1. StoreOK' /\ Existing' = Existing BY StoreUnchanged DEF LockNext, TypeOK
<1>2. TxnsOK' /\ Known' BY <1>1, StoreUnchanged DEF LockNext, TypeOK, TxnsOK, JobAt, Known
<1> QED BY <1>1, <1>2 DEF TypeOK

LEMMA OpenStepsTypeOK ==
  ASSUME TypeOK, NEW t \in Txns,
         \/ \E links \in SUBSET Links, l \in Links, o \in Outcomes : OpenBegin(t, links, l, o)
         \/ OpenRecord(t) \/ OpenRefuse(t)
         \/ \E l \in Links, o \in Outcomes : AdminOpen(t, l, o)
         \/ OpenCommit(t)
  PROVE  TypeOK'
<1> USE DEF TypeOK
<1>1. ASSUME NEW links \in SUBSET Links, NEW l \in Links, NEW o \in Outcomes, OpenBegin(t, links, l, o)
      PROVE  TypeOK'
  <2>1. StoreOK' /\ Existing' = Existing BY <1>1, StoreUnchanged DEF OpenBegin
  <2> DEFINE what == [anchor |-> l, links |-> links, outcome |-> o,
                      owners |-> OwnersOf(l), successor |-> {}]
  <2>2. OwnersOf(l) \in SUBSET Versions BY WorkflowAssumption DEF OwnersOf, StoreOK
  <2>3. o \in OpenOutcomes /\ l \in links BY <1>1 DEF OpenBegin
  <2>4. what \in OpenJobs BY <2>2, <2>3 DEF OpenJobs
  <2>5. pc' = [pc EXCEPT ![t] = "open_lock"] /\ job' = [job EXCEPT ![t] = what] /\ UNCHANGED <<lock, late>>
    BY <1>1 DEF OpenBegin, Begin
  <2> HIDE DEF what
  <2>6. JobAt("open_lock", what) /\ "open_lock" \in Pcs /\ "open_lock" \notin SavePcs BY <2>4 DEF JobAt, Pcs, SavePcs
  <2>7. TxnsOK' /\ Known' BY <2>5, <2>6, <2>1, TurnType DEF TxnsOK
  <2> QED BY <2>1, <2>7
<1>2. CASE OpenRecord(t)
  <2>1. StoreOK' /\ Existing' = Existing BY <1>2, StoreUnchanged DEF OpenRecord
  <2>2. PICK d \in Discrepancies : job' = [job EXCEPT ![t] =
            [anchor |-> job[t].anchor, links |-> job[t].links, outcome |-> job[t].outcome,
             discrepancy |-> d, made |-> OpeningOf(d, job[t].outcome)]]
    BY <1>2 DEF OpenRecord
  <2> DEFINE what == [anchor |-> job[t].anchor, links |-> job[t].links, outcome |-> job[t].outcome,
                      discrepancy |-> d, made |-> OpeningOf(d, job[t].outcome)]
  <2>3. job[t] \in OpenJobs BY <1>2 DEF OpenRecord, TxnsOK, JobAt
  <2>4. TransitionPk \in 1 .. MaxTransitions
    BY <1>2, TransitionKeys, WorkflowAssumption DEF OpenRecord
  <2>5. OpeningOf(d, job[t].outcome) \in TransitionRows(1 .. MaxTransitions)
    BY <2>3, <2>4 DEF OpeningOf, TransitionRows, OpenJobs, StoreOK
  <2>6. what \in OpenedJobs BY <2>3, <2>5 DEF OpenedJobs, OpenJobs, OpeningOf
  <2>7. pc' = [pc EXCEPT ![t] = "open_commit"] /\ job' = [job EXCEPT ![t] = what] /\ UNCHANGED <<lock, late>>
    BY <1>2, <2>2 DEF OpenRecord
  <2> HIDE DEF what
  <2>8. JobAt("open_commit", what) /\ "open_commit" \in Pcs /\ "open_commit" \notin SavePcs BY <2>6 DEF JobAt, Pcs, SavePcs
  <2>9. TxnsOK' /\ Known' BY <2>7, <2>8, <2>1, TurnType DEF TxnsOK
  <2> QED BY <2>1, <2>9
<1>3. CASE OpenRefuse(t)
  BY <1>3, FinishType, StoreUnchanged DEF OpenRefuse, Rollback
<1>4. ASSUME NEW l \in Links, NEW o \in Outcomes, AdminOpen(t, l, o)
      PROVE  TypeOK'
  <2>1. StoreOK' /\ Existing' = Existing BY <1>4, StoreUnchanged DEF AdminOpen
  <2>2. PICK d \in Discrepancies :
          Begin(t, "open_commit", [anchor |-> l, links |-> {l}, outcome |-> o,
                                   discrepancy |-> d, made |-> OpeningOf(d, o)])
    BY <1>4 DEF AdminOpen
  <2> DEFINE what == [anchor |-> l, links |-> {l}, outcome |-> o,
                      discrepancy |-> d, made |-> OpeningOf(d, o)]
  <2>3. TransitionPk \in 1 .. MaxTransitions
    BY <1>4, TransitionKeys, WorkflowAssumption DEF AdminOpen
  <2>4. OpeningOf(d, o) \in TransitionRows(1 .. MaxTransitions)
    BY <2>3 DEF OpeningOf, TransitionRows, StoreOK
  <2>5. o \in OpenOutcomes BY <1>4 DEF AdminOpen
  <2>6. what \in OpenedJobs BY <2>4, <2>5 DEF OpenedJobs, OpeningOf
  <2>7. pc' = [pc EXCEPT ![t] = "open_commit"] /\ job' = [job EXCEPT ![t] = what] /\ UNCHANGED <<lock, late>>
    BY <1>4, <2>2 DEF AdminOpen, Begin
  <2> HIDE DEF what
  <2>8. JobAt("open_commit", what) /\ "open_commit" \in Pcs /\ "open_commit" \notin SavePcs BY <2>6 DEF JobAt, Pcs, SavePcs
  <2>9. TxnsOK' /\ Known' BY <2>7, <2>8, <2>1, TurnType DEF TxnsOK
  <2> QED BY <2>1, <2>9
<1>5. CASE OpenCommit(t)
  <2>1. job[t] \in OpenedJobs BY <1>5 DEF OpenCommit, TxnsOK, JobAt
  <2> DEFINE row == [anchor |-> job[t].anchor, links |-> job[t].links, status |-> "open",
                     outcome |-> job[t].outcome]
  <2>2. row \in DiscrepancyRows
    BY <2>1 DEF OpenedJobs, DiscrepancyRows
  <2>3. \/ discrepancies' = [discrepancies EXCEPT ![job[t].discrepancy] = row]
        \/ discrepancies' = discrepancies
    BY <1>5 DEF OpenCommit
  <2> HIDE DEF row
  <2>4. discrepancies' \in [Discrepancies -> DiscrepancyRows \cup {Absent}]
        /\ Existing \subseteq Existing'
    <3>1. discrepancies \in [Discrepancies -> DiscrepancyRows \cup {Absent}]
      BY DEF StoreOK
    <3>2. CASE discrepancies' = discrepancies
      BY <3>1, <3>2 DEF Existing
    <3>3. CASE discrepancies' = [discrepancies EXCEPT ![job[t].discrepancy] = row]
      <4>1. row # Absent
        BY <2>2, WorkflowAssumption
      <4>2. \A d \in Discrepancies : discrepancies'[d] = discrepancies[d] \/ discrepancies'[d] = row
        BY <3>1, <3>3
      <4>3. discrepancies' \in [Discrepancies -> DiscrepancyRows \cup {Absent}]
        BY <2>2, <3>1, <3>3
      <4> QED BY <4>1, <4>2, <4>3 DEF Existing
    <3> QED BY <2>3, <3>2, <3>3
  <2>5. transitions' \subseteq TransitionRows(1 .. MaxTransitions)
    BY <1>5, <2>1 DEF OpenCommit, StoreOK, OpenedJobs
  <2>6. StoreOK' BY <1>5, <2>4, <2>5 DEF OpenCommit, StoreOK
  <2>7. TxnsOK' /\ Known' BY <1>5, <2>4, FinishType DEF OpenCommit
  <2> QED BY <2>6, <2>7
<1> QED BY <1>1, <1>2, <1>3, <1>4, <1>5

LEMMA ResolveStepsTypeOK ==
  ASSUME TypeOK, NEW t \in Txns,
         \/ \E d \in Discrepancies, o \in Outcomes : ResolveRecord(t, d, o)
         \/ \E d \in Discrepancies, o \in Outcomes, status \in {"open", "resolved"} :
              AdminRead(t, d, status, o)
         \/ AdminNotice(t) \/ AdminUpdate(t) \/ AdminRefuse(t) \/ DiscrepancyCommit(t)
  PROVE  TypeOK'
<1> USE DEF TypeOK
<1>1. ASSUME NEW d \in Discrepancies, NEW o \in Outcomes, ResolveRecord(t, d, o)
      PROVE  TypeOK'
  <2>1. StoreOK' /\ Existing' = Existing BY <1>1, StoreUnchanged DEF ResolveRecord
  <2> DEFINE what == [discrepancy |-> d, status |-> "resolved", outcome |-> o,
                      made |-> ResolutionOf(d, o)]
  <2>2. TransitionPk \in 1 .. MaxTransitions
    BY <1>1, TransitionKeys, WorkflowAssumption DEF ResolveRecord
  <2>3. ResolutionOf(d, o) \in TransitionRows(Nat)
    BY <2>2 DEF ResolutionOf, TransitionRows, StoreOK
  <2>4. what \in SaveJobs /\ what.made.pk \in 1 .. MaxTransitions
    BY <2>2, <2>3 DEF SaveJobs, ResolutionOf, Statuses
  <2>5. /\ pc' = [pc EXCEPT ![t] = "resolve_commit"] /\ job' = [job EXCEPT ![t] = what]
        /\ lock' \in [Rows -> Txns \cup {None}] /\ late' = late
    BY <1>1 DEF ResolveRecord, Begin, TxnsOK
  <2> HIDE DEF what
  <2>6. JobAt("resolve_commit", what) /\ "resolve_commit" \in Pcs /\ what.discrepancy \in Existing
    BY <1>1, <2>4 DEF JobAt, Pcs, ResolveRecord, Open, what
  <2>7. TxnsOK' /\ Known' BY <2>5, <2>6, <2>1, TurnType
  <2> QED BY <2>1, <2>7
<1>2. ASSUME NEW d \in Discrepancies, NEW o \in Outcomes, NEW status \in {"open", "resolved"},
             AdminRead(t, d, status, o)
      PROVE  TypeOK'
  <2>1. StoreOK' /\ Existing' = Existing BY <1>2, StoreUnchanged DEF AdminRead
  <2> DEFINE what == [discrepancy |-> d, status |-> status, outcome |-> o,
                      previous |-> "open", at |-> now]
  <2>2. what \in FormJobs BY DEF FormJobs, Statuses, StoreOK
  <2>3. pc' = [pc EXCEPT ![t] = "admin_notice"] /\ job' = [job EXCEPT ![t] = what] /\ UNCHANGED <<lock, late>>
    BY <1>2 DEF AdminRead, Begin
  <2> HIDE DEF what
  <2>4. JobAt("admin_notice", what) /\ "admin_notice" \in Pcs /\ what.discrepancy \in Existing
    BY <1>2, <2>2 DEF JobAt, Pcs, AdminRead, Open, what
  <2>5. TxnsOK' /\ Known' BY <2>3, <2>4, <2>1, TurnType DEF TxnsOK
  <2> QED BY <2>1, <2>5
<1>3. CASE AdminUpdate(t)
  <2>1. StoreOK' /\ Existing' = Existing BY <1>3, StoreUnchanged DEF AdminUpdate
  <2> DEFINE made == [ResolutionOf(job[t].discrepancy, job[t].outcome) EXCEPT !.at = job[t].at]
             what == [discrepancy |-> job[t].discrepancy, status |-> job[t].status,
                      outcome |-> job[t].outcome, made |-> made]
             at   == IF Resolves(t) THEN "resolve_commit" ELSE "edit_commit"
  <2>2. job[t] \in FormJobs BY <1>3 DEF AdminUpdate, TxnsOK, JobAt
  <2>3. TransitionPk \in Nat BY TransitionKeys
  <2>4. made \in TransitionRows(Nat) /\ made.kind = "resolved"
        /\ made.discrepancy = job[t].discrepancy /\ made.pk = TransitionPk
    BY <2>2, <2>3 DEF ResolutionOf, TransitionRows, FormJobs
  <2>5. Resolves(t) => TransitionPk \in 1 .. MaxTransitions
    BY <1>3, TransitionKeys, WorkflowAssumption DEF AdminUpdate
  <2>6. /\ pc' = [pc EXCEPT ![t] = at] /\ job' = [job EXCEPT ![t] = what]
        /\ lock' \in [Rows -> Txns \cup {None}] /\ late' = late
    BY <1>3 DEF AdminUpdate, TxnsOK
  <2> HIDE DEF made
  <2>7. what \in SaveJobs /\ what.made = made
    BY <2>2, <2>4 DEF SaveJobs, FormJobs
  <2> HIDE DEF what
  <2>8. JobAt(at, what) /\ at \in Pcs BY <2>4, <2>5, <2>7 DEF JobAt, Pcs
  <2>10. what.discrepancy \in Existing
    BY <1>3 DEF AdminUpdate, Known, SavePcs, what
  <2> HIDE DEF at
  <2>9. TxnsOK' /\ Known' BY <2>1, <2>6, <2>8, <2>10, TurnType
  <2> QED BY <2>1, <2>9
<1>4. CASE AdminNotice(t)
  <2>1. StoreOK' /\ Existing' = Existing BY <1>4, StoreUnchanged DEF AdminNotice
  <2>2. job[t] \in FormJobs /\ job[t].discrepancy \in Existing
    BY <1>4 DEF AdminNotice, TxnsOK, JobAt, Known, SavePcs
  <2> DEFINE what == [job[t] EXCEPT !.previous = discrepancies[job[t].discrepancy].status]
  <2>3. discrepancies[job[t].discrepancy] \in DiscrepancyRows
    BY <2>2 DEF Existing, StoreOK
  <2>4. what \in FormJobs /\ what.discrepancy = job[t].discrepancy
    BY <2>2, <2>3 DEF FormJobs, DiscrepancyRows, Statuses
  <2>5. pc' = [pc EXCEPT ![t] = "admin_update"] /\ job' = [job EXCEPT ![t] = what] /\ UNCHANGED <<lock, late>>
    BY <1>4 DEF AdminNotice, TxnsOK
  <2> HIDE DEF what
  <2>6. JobAt("admin_update", what) /\ "admin_update" \in Pcs BY <2>4 DEF JobAt, Pcs
  <2>7. TxnsOK' /\ Known' BY <2>1, <2>2, <2>4, <2>5, <2>6, TurnType DEF TxnsOK
  <2> QED BY <2>1, <2>7
<1>5. CASE AdminRefuse(t)
  BY <1>5, FinishType, StoreUnchanged DEF AdminRefuse, Rollback
<1>6. CASE DiscrepancyCommit(t)
  <2>1. /\ job[t] \in SaveJobs /\ job[t].discrepancy \in Existing
        /\ pc[t] = "resolve_commit" => job[t].made.pk \in 1 .. MaxTransitions
    BY <1>6 DEF DiscrepancyCommit, TxnsOK, JobAt, Known, SavePcs
  <2>2. pc[t] = "resolve_commit" => job[t].made \in TransitionRows(1 .. MaxTransitions)
    BY <2>1 DEF SaveJobs, TransitionRows
  <2>3. transitions' \subseteq TransitionRows(1 .. MaxTransitions)
    BY <1>6, <2>2 DEF DiscrepancyCommit, StoreOK
  <2> DEFINE d == job[t].discrepancy
             row == [discrepancies[d] EXCEPT !.status = job[t].status, !.outcome = job[t].outcome]
  <2>4. d \in Discrepancies /\ discrepancies[d] \in DiscrepancyRows
    BY <2>1 DEF Existing, StoreOK
  <2>5. row \in DiscrepancyRows
    BY <2>1, <2>4 DEF DiscrepancyRows, SaveJobs, Statuses
  <2>6. discrepancies' = [discrepancies EXCEPT ![d] = row]
    BY <1>6 DEF DiscrepancyCommit
  <2> HIDE DEF row, d
  <2>7. discrepancies' \in [Discrepancies -> DiscrepancyRows \cup {Absent}]
        /\ Existing \subseteq Existing'
    BY <2>4, <2>5, <2>6, WorkflowAssumption DEF StoreOK, Existing
  <2>8. StoreOK' BY <1>6, <2>3, <2>7 DEF DiscrepancyCommit, StoreOK
  <2>9. TxnsOK' /\ Known' BY <1>6, <2>7, FinishType DEF DiscrepancyCommit
  <2> QED BY <2>8, <2>9
<1> QED BY <1>1, <1>2, <1>3, <1>4, <1>5, <1>6

LEMMA ReviewStepsTypeOK ==
  ASSUME TypeOK, NEW t \in Txns,
         \/ \E l \in Links, o \in Outcomes, dates \in ReviewDates,
               successor \in {{}} \cup {{v} : v \in Versions} : ReviewBegin(t, l, o, dates, successor)
         \/ ReviewRecord(t) \/ ReviewRefuse(t) \/ ReviewCommit(t)
  PROVE  TypeOK'
<1> USE DEF TypeOK
<1>1. ASSUME NEW l \in Links, NEW o \in Outcomes, NEW dates \in ReviewDates,
             NEW successor \in {{}} \cup {{v} : v \in Versions},
             ReviewBegin(t, l, o, dates, successor)
      PROVE  TypeOK'
  <2>1. StoreOK' /\ Existing' = Existing BY <1>1, StoreUnchanged DEF ReviewBegin
  <2> DEFINE what == [subject |-> SubjectOf[l], links |-> EvidenceOf(SubjectOf[l]),
                      outcome |-> o, dates |-> dates, owners |-> OwnersOf(l),
                      successor |-> successor]
  <2>2. OwnersOf(l) \in SUBSET Versions /\ SubjectOf[l] \in Subjects
        /\ EvidenceOf(SubjectOf[l]) \in SUBSET Links /\ successor \in SUBSET Versions
    BY WorkflowAssumption DEF OwnersOf, StoreOK, EvidenceOf
  <2>3. what \in ReviewJobs BY <2>2 DEF ReviewJobs
  <2>4. pc' = [pc EXCEPT ![t] = "review_lock"] /\ job' = [job EXCEPT ![t] = what] /\ UNCHANGED <<lock, late>>
    BY <1>1 DEF ReviewBegin, Begin
  <2> HIDE DEF what
  <2>5. JobAt("review_lock", what) /\ "review_lock" \in Pcs /\ "review_lock" \notin SavePcs
    BY <2>3 DEF JobAt, Pcs, SavePcs
  <2>6. TxnsOK' /\ Known' BY <2>1, <2>4, <2>5, TurnType DEF TxnsOK
  <2> QED BY <2>1, <2>6
<1>2. CASE ReviewRecord(t)
  <2>1. StoreOK' /\ Existing' = Existing BY <1>2, StoreUnchanged DEF ReviewRecord
  <2> DEFINE j    == job[t]
             made == [subject |-> j.subject, links |-> j.links, state |-> j.outcome,
                      verifiedOn |-> j.dates.verifiedOn, reverifyOn |-> j.dates.reverifyOn,
                      successor |-> j.successor, at |-> now, pk |-> ReviewPk]
             what == [made |-> made]
  <2>2. j \in ReviewJobs BY <1>2 DEF ReviewRecord, TxnsOK, JobAt
  <2>3. ReviewPk \in 1 .. MaxReviews
    BY <1>2, ReviewKeys, WorkflowAssumption DEF ReviewRecord
  <2>4. j.dates.reverifyOn # None => j.dates.verifiedOn <= j.dates.reverifyOn
    BY <2>2, WorkflowAssumption DEF ReviewJobs
  <2>5. made \in ReviewRows
    BY <2>2, <2>3, <2>4 DEF ReviewRows, ReviewJobs, StoreOK
  <2>6. pc' = [pc EXCEPT ![t] = "review_commit"] /\ job' = [job EXCEPT ![t] = what] /\ UNCHANGED <<lock, late>>
    BY <1>2 DEF ReviewRecord
  <2> HIDE DEF made
  <2>7. what \in ReviewedJobs BY <2>5 DEF ReviewedJobs
  <2> HIDE DEF what
  <2>8. JobAt("review_commit", what) /\ "review_commit" \in Pcs /\ "review_commit" \notin SavePcs
    BY <2>7 DEF JobAt, Pcs, SavePcs
  <2>9. TxnsOK' /\ Known' BY <2>1, <2>6, <2>8, TurnType DEF TxnsOK
  <2> QED BY <2>1, <2>9
<1>3. CASE ReviewRefuse(t)
  BY <1>3, FinishType, StoreUnchanged DEF ReviewRefuse, Rollback
<1>4. CASE ReviewCommit(t)
  <2>1. job[t].made \in ReviewRows
    BY <1>4 DEF ReviewCommit, TxnsOK, JobAt, ReviewedJobs
  <2>2. StoreOK' /\ Existing' = Existing BY <1>4, <2>1 DEF ReviewCommit, StoreOK, Existing
  <2> QED BY <1>4, <2>2, FinishType DEF ReviewCommit
<1> QED BY <1>1, <1>2, <1>3, <1>4

LEMMA PublishStepsTypeOK ==
  ASSUME TypeOK, NEW t \in Txns,
         \/ \E v \in Versions : PublishBegin(t, v)
         \/ PublishGraph(t) \/ PublishGate(t) \/ PublishDecide(t) \/ Crash(t)
  PROVE  TypeOK'
<1> USE DEF TypeOK
<1>1. ASSUME NEW v \in Versions, PublishBegin(t, v) PROVE TypeOK'
  <2>1. StoreOK' /\ Existing' = Existing BY <1>1, StoreUnchanged DEF PublishBegin
  <2>2. /\ pc' = [pc EXCEPT ![t] = "publish_rows"] /\ job' = [job EXCEPT ![t] = [version |-> v]]
        /\ lock' \in [Rows -> Txns \cup {None}] /\ late' = late
    BY <1>1 DEF PublishBegin, Begin, TxnsOK
  <2>3. [version |-> v] \in PublishJobs BY DEF PublishJobs
  <2>4. JobAt("publish_rows", [version |-> v]) /\ "publish_rows" \in Pcs /\ "publish_rows" \notin SavePcs
    BY <2>3 DEF JobAt, Pcs, SavePcs
  <2>5. TxnsOK' /\ Known' BY <2>1, <2>2, <2>4, TurnType
  <2> QED BY <2>1, <2>5
<1>2. CASE PublishGate(t)
  <2>1. StoreOK' /\ Existing' = Existing BY <1>2, StoreUnchanged DEF PublishGate
  <2> DEFINE what == [version |-> job[t].version, gate |-> Open]
  <2>2. job[t] \in GraphJobs BY <1>2 DEF PublishGate, TxnsOK, JobAt
  <2>3. what \in GateJobs BY <2>2 DEF GateJobs, GraphJobs, Open, Existing
  <2>4. pc' = [pc EXCEPT ![t] = "publish_gate"] /\ job' = [job EXCEPT ![t] = what] /\ UNCHANGED <<lock, late>>
    BY <1>2 DEF PublishGate
  <2> HIDE DEF what
  <2>5. JobAt("publish_gate", what) /\ "publish_gate" \in Pcs /\ "publish_gate" \notin SavePcs
    BY <2>3 DEF JobAt, Pcs, SavePcs
  <2>6. TxnsOK' /\ Known' BY <2>1, <2>4, <2>5, TurnType DEF TxnsOK
  <2> QED BY <2>1, <2>6
<1>3. CASE PublishDecide(t)
  <2>1. job[t].version \in Versions
    BY <1>3 DEF PublishDecide, TxnsOK, JobAt, GateJobs
  <2>2. state' \in [Versions -> LifecycleStates]
    BY <1>3, <2>1 DEF PublishDecide, StoreOK, LifecycleStates
  <2>3. StoreOK' /\ Existing' = Existing
    BY <1>3, <2>2 DEF PublishDecide, StoreOK, Existing
  <2> QED BY <1>3, <2>3, FinishType DEF PublishDecide
<1>4. CASE Crash(t)
  BY <1>4, FinishType, StoreUnchanged DEF Crash, Rollback
<1>5. CASE PublishGraph(t)
  <2>1. StoreOK' /\ Existing' = Existing BY <1>5, StoreUnchanged DEF PublishGraph
  <2>2. job[t] \in PublishJobs BY <1>5 DEF PublishGraph, TxnsOK, JobAt
  <2>3. PICK graph \in SUBSET Dependencies :
          job' = [job EXCEPT ![t] = [version |-> job[t].version, graph |-> graph]]
    BY <1>5 DEF PublishGraph
  <2> DEFINE what == [version |-> job[t].version, graph |-> graph]
  <2>4. what \in GraphJobs BY <2>2 DEF GraphJobs, PublishJobs
  <2>5. pc' = [pc EXCEPT ![t] = "publish_graph"] /\ job' = [job EXCEPT ![t] = what] /\ UNCHANGED <<lock, late>>
    BY <1>5, <2>3 DEF PublishGraph
  <2> HIDE DEF what
  <2>6. JobAt("publish_graph", what) /\ "publish_graph" \in Pcs /\ "publish_graph" \notin SavePcs
    BY <2>4 DEF JobAt, Pcs, SavePcs
  <2>7. TxnsOK' /\ Known' BY <2>1, <2>5, <2>6, TurnType DEF TxnsOK
  <2> QED BY <2>1, <2>7
<1> QED BY <1>1, <1>2, <1>3, <1>4, <1>5

LEMMA EditsTypeOK ==
  ASSUME TypeOK, Edit \/ Tick
  PROVE  TypeOK'
<1> USE DEF TypeOK
<1>1. UNCHANGED <<discrepancies, transitions, reviews, lock, pc, job>>
  BY DEF Edit, Tick, Withdraw, AddEvidence, CommitEvidence, LoseEvidence, RemoveEvidence, Associate, Dissociate, store
<1>8. late' \in [Txns -> SUBSET Links]
  <2>1. ASSUME NEW l \in Links, CommitEvidence(l) PROVE late' \in [Txns -> SUBSET Links]
    BY <2>1 DEF CommitEvidence, TxnsOK
  <2>2. CASE late' = late BY <2>2 DEF TxnsOK
  <2> QED BY <2>1, <2>2 DEF Edit, Tick, Withdraw, AddEvidence, LoseEvidence, RemoveEvidence, Associate,
                             Dissociate
<1>2. TxnsOK' /\ Known' BY <1>1, <1>8, TxnsUnchanged DEF Existing
<1>3. state' \in [Versions -> LifecycleStates]
  BY DEF Edit, Tick, Withdraw, AddEvidence, CommitEvidence, LoseEvidence, RemoveEvidence, Associate, Dissociate, store, StoreOK,
         LifecycleStates
<1>4. owners' \in [Subjects -> SUBSET Versions]
  <2>1. ASSUME NEW v \in Versions, NEW s \in Subjects, Associate(v, s) \/ Dissociate(v, s)
        PROVE  owners' \in [Subjects -> SUBSET Versions]
    BY <2>1 DEF Associate, Dissociate, StoreOK
  <2>2. CASE owners' = owners BY <2>2 DEF StoreOK
  <2> QED BY <2>1, <2>2 DEF Edit, Tick, Withdraw, AddEvidence, CommitEvidence, LoseEvidence, RemoveEvidence, store
<1>5. /\ evidence' \subseteq Links /\ spare' \subseteq Links /\ evidence' \cap spare' = {}
      /\ inserting' \subseteq spare'
  BY DEF Edit, Tick, Withdraw, AddEvidence, CommitEvidence, LoseEvidence, RemoveEvidence, Associate, Dissociate, store, StoreOK
<1>6. now' \in 0 .. MaxNow
  BY WorkflowAssumption
  DEF Edit, Tick, Withdraw, AddEvidence, CommitEvidence, LoseEvidence, RemoveEvidence, Associate, Dissociate, store, StoreOK
<1>7. StoreOK' BY <1>1, <1>3, <1>4, <1>5, <1>6 DEF StoreOK
<1> QED BY <1>2, <1>7

LEMMA InitTypeOK == Init => TypeOK
<1> SUFFICES ASSUME Init PROVE TypeOK OBVIOUS
<1>1. StoreOK
  BY WorkflowAssumption DEF Init, StoreOK, LifecycleStates
<1>2. TxnsOK /\ Known
  BY DEF Init, TxnsOK, Known, Pcs, JobAt, SavePcs
<1> QED BY <1>1, <1>2 DEF TypeOK

LEMMA NextTypeOK == TypeOK /\ [Next]_vars => TypeOK'
<1> SUFFICES ASSUME TypeOK, [Next]_vars PROVE TypeOK' OBVIOUS
<1>1. ASSUME NEW t \in Txns, Continue(t) PROVE TypeOK'
  BY <1>1, LockNextType, OpenStepsTypeOK, ResolveStepsTypeOK, ReviewStepsTypeOK,
     PublishStepsTypeOK DEF Continue
<1>2. ASSUME NEW t \in Txns, Start(t) PROVE TypeOK'
  BY <1>2, OpenStepsTypeOK, ResolveStepsTypeOK, ReviewStepsTypeOK, PublishStepsTypeOK DEF Start
<1>3. CASE UNCHANGED vars
  <2>1. UNCHANGED <<store, now, lock, pc, job, late>> BY <1>3 DEF vars, store
  <2>2. StoreOK' /\ Existing' = Existing BY <2>1, StoreUnchanged DEF TypeOK
  <2>3. late' \in [Txns -> SUBSET Links] BY <2>1 DEF TypeOK, TxnsOK
  <2> QED BY <2>1, <2>2, <2>3, TxnsUnchanged DEF TypeOK
<1> QED BY <1>1, <1>2, <1>3, PublishStepsTypeOK, EditsTypeOK DEF Next

(* The tables, locks and jobs of the workflow always have the types that the
   transactions rely on, discrepancies that are being saved included.         *)
THEOREM WorkflowTyped == Spec => []TypeOK
  BY InitTypeOK, NextTypeOK, PTL DEF Spec

-----------------------------------------------------------------------------
(* What steps leave alone. *)

Moves(t) == Continue(t) \/ Start(t) \/ Crash(t)

\* A transaction changes nothing of the others.
LEMMA OthersStay ==
  ASSUME TypeOK, NEW t \in Txns, Moves(t), NEW u \in Txns \ {t}
  PROVE  /\ pc'[u] = pc[u] /\ job'[u] = job[u] /\ late'[u] = late[u]
         /\ \A r \in Rows : lock'[r] = u <=> lock[r] = u
         /\ Held(u)' = Held(u)
<1> USE DEF TypeOK, TxnsOK
<1>1. ASSUME Finish(t)
      PROVE  /\ pc'[u] = pc[u] /\ job'[u] = job[u] /\ late'[u] = late[u]
             /\ \A r \in Rows : lock'[r] = u <=> lock[r] = u
  BY <1>1, WorkflowAssumption DEF Finish
<1>2. ASSUME NEW at, NEW what, Begin(t, at, what)
      PROVE  pc'[u] = pc[u] /\ job'[u] = job[u] /\ late'[u] = late[u]
  BY <1>2 DEF Begin
<1>3. /\ pc'[u] = pc[u] /\ job'[u] = job[u] /\ late'[u] = late[u]
      /\ \A r \in Rows : lock'[r] = u <=> lock[r] = u
  <2>1. CASE Continue(t)
    <3>1. CASE \E r \in Rows : LockNext(t, r)
      BY <3>1, WorkflowAssumption DEF LockNext
    <3>2. CASE \/ OpenRecord(t) \/ AdminNotice(t) \/ ReviewRecord(t) \/ PublishGraph(t)
               \/ PublishGate(t)
      BY <3>2 DEF OpenRecord, AdminNotice, ReviewRecord, PublishGraph, PublishGate
    <3>3. CASE AdminUpdate(t)
      BY <3>3, WorkflowAssumption DEF AdminUpdate
    <3>4. CASE \/ OpenRefuse(t) \/ OpenCommit(t) \/ AdminRefuse(t) \/ DiscrepancyCommit(t)
               \/ ReviewRefuse(t) \/ ReviewCommit(t) \/ PublishDecide(t)
      BY <1>1, <3>4 DEF OpenRefuse, OpenCommit, AdminRefuse, DiscrepancyCommit, ReviewRefuse,
                        ReviewCommit, PublishDecide, Rollback
    <3> QED BY <2>1, <3>1, <3>2, <3>3, <3>4 DEF Continue
  <2>2. CASE Start(t)
    <3>1. ASSUME NEW d \in Discrepancies, NEW o \in Outcomes, ResolveRecord(t, d, o)
          PROVE  \A r \in Rows : lock'[r] = u <=> lock[r] = u
      BY <3>1, WorkflowAssumption DEF ResolveRecord
    <3>2. ASSUME NEW v \in Versions, PublishBegin(t, v)
          PROVE  \A r \in Rows : lock'[r] = u <=> lock[r] = u
      BY <3>2, WorkflowAssumption DEF PublishBegin
    <3>3. \A r \in Rows : lock'[r] = u <=> lock[r] = u
      BY <2>2, <3>1, <3>2 DEF Start, OpenBegin, AdminOpen, AdminRead, ReviewBegin
    <3>4. \E at, what : Begin(t, at, what)
      BY <2>2 DEF Start, OpenBegin, AdminOpen, AdminRead, ReviewBegin, PublishBegin, ResolveRecord
    <3> QED BY <1>2, <3>3, <3>4
  <2>3. CASE Crash(t) BY <1>1, <2>3 DEF Crash, Rollback
  <2> QED BY <2>1, <2>2, <2>3 DEF Moves
<1> QED BY <1>3 DEF Held

\* What a transaction's steps change in the database, and which steps do.
LEMMA MovesStore ==
  ASSUME NEW t \in Txns, Moves(t)
  PROVE  /\ UNCHANGED <<owners, evidence, spare, inserting, now>>
         /\ state' = state \/ PublishDecide(t)
         /\ UNCHANGED <<discrepancies, transitions>> \/ OpenCommit(t) \/ DiscrepancyCommit(t)
         /\ reviews' = reviews \/ ReviewCommit(t)
<1>1. CASE Continue(t)
  BY <1>1 DEF Continue, LockNext, OpenRecord, OpenRefuse, OpenCommit, AdminNotice, AdminUpdate,
     AdminRefuse, DiscrepancyCommit, ReviewRecord, ReviewRefuse, ReviewCommit, PublishGraph, PublishGate,
     PublishDecide, Rollback, store
<1>2. CASE Start(t)
  BY <1>2 DEF Start, OpenBegin, AdminOpen, ResolveRecord, AdminRead, ReviewBegin, PublishBegin, store
<1>3. CASE Crash(t)
  BY <1>3 DEF Crash, Rollback, store
<1> QED BY <1>1, <1>2, <1>3 DEF Moves

LEMMA EditsLeave ==
  ASSUME Edit \/ Tick
  PROVE  UNCHANGED <<discrepancies, transitions, reviews, lock, pc, job>>
  BY DEF Edit, Tick, Withdraw, AddEvidence, CommitEvidence, LoseEvidence, RemoveEvidence, Associate, Dissociate, store

\* The end of a transaction frees its locks.
LEMMA FinishFrees ==
  ASSUME TypeOK, NEW t \in Txns, Finish(t)
  PROVE  pc'[t] = "idle" /\ Held(t)' = {} /\ \A r \in Rows : lock'[r] # t
  BY WorkflowAssumption DEF TypeOK, TxnsOK, Finish, Held

-----------------------------------------------------------------------------
(* Locks. *)

LEMMA AggregateRanked ==
  ASSUME StoreOK, NEW v \in Versions
  PROVE  Aggregate(v) \subseteq Ranked
<1>1. MaterialOf(v) \subseteq Links BY DEF MaterialOf, StoreOK
<1>2. UNION {Cites[l] : l \in MaterialOf(v)} \subseteq Sources BY <1>1, WorkflowAssumption
<1>3. ProcedureOf[v] \in Procedures BY WorkflowAssumption
<1> QED BY <1>1, <1>2, <1>3 DEF Aggregate, DependenciesOf, ItemsOf, Ranked

LEMMA GraphRowsRanked ==
  ASSUME TypeOK, NEW t \in Txns, pc[t] = "publish_graph"
  PROVE  Wanted(t) \subseteq Ranked
<1>1. Wanted(t) = GraphRows(t) BY DEF Wanted
<1>2. job[t].graph \subseteq Dependencies BY DEF TypeOK, TxnsOK, JobAt, GraphJobs
<1>3. \A d \in Dependencies : DependencyOf[d] \in Versions BY WorkflowAssumption
<1> QED BY <1>1, <1>2, <1>3 DEF GraphRows, Ranked

LEMMA WantedRows ==
  ASSUME TypeOK, NEW t \in Txns, pc[t] \in {"open_lock", "review_lock", "publish_rows"}
  PROVE  /\ Wanted(t) = InOrder(t, NeededRows(t) \ Held(t))
         /\ NeededRows(t) \subseteq Ranked
<1> USE DEF TypeOK
<1>1. CASE pc[t] = "publish_rows"
  <2>1. Wanted(t) = PublishRows(t) BY <1>1 DEF Wanted
  <2>2. job[t].version \in Versions BY <1>1 DEF TxnsOK, JobAt, PublishJobs
  <2>3. NeededRows(t) \subseteq Ranked
    BY <1>1, <2>2, AggregateRanked DEF NeededRows
  <2> QED BY <1>1, <2>1, <2>3 DEF PublishRows, NeededRows
<1>2. CASE pc[t] # "publish_rows"
  <2>1. pc[t] \in {"open_lock", "review_lock"} BY <1>2
  <2>2. Wanted(t) = WorkflowRows(t) BY <2>1 DEF Wanted
  <2>3. job[t] \in OpenJobs \cup ReviewJobs BY <2>1 DEF TxnsOK, JobAt
  <2>4. job[t].owners \subseteq Versions /\ job[t].successor \subseteq Versions
        /\ job[t].links \subseteq Links
    BY <2>3 DEF OpenJobs, ReviewJobs
  <2>5. NeededRows(t) \subseteq Ranked BY <1>2, <2>4 DEF NeededRows, Ranked
  <2> QED BY <1>2, <2>2, <2>5 DEF WorkflowRows, NeededRows
<1> QED BY <1>1, <1>2

\* A transaction that wants no more row has locked all that it needs.
LEMMA AllLocked ==
  ASSUME TypeOK, NEW t \in Txns, pc[t] \in {"open_lock", "review_lock", "publish_rows"},
         Wanted(t) = {}
  PROVE  \A r \in NeededRows(t) : lock[r] = t
<1>1. NeededRows(t) \ Held(t) = {}
  BY WantedRows, InOrderEmpty
<1> QED BY <1>1 DEF Held

\* What a version owns does not grow while a publisher holds it, and its evidence
\* only by a link whose item nobody has locked.
LEMMA AggregateSteps ==
  ASSUME TypeOK, Edit \/ Tick, NEW u \in Txns, NEW v \in Versions, lock[v] = u
  PROVE  /\ ItemsOf(v)' \subseteq ItemsOf(v)
         /\ \/ MaterialOf(v)' \subseteq MaterialOf(v)
            \/ \E l \in Links : /\ SubjectOf[l] \in ItemsOf(v) /\ lock[SubjectOf[l]] = None
                              /\ MaterialOf(v)' \subseteq MaterialOf(v) \cup {l}
<1> USE DEF TypeOK, StoreOK
<1>1. lock[v] # None BY WorkflowAssumption
<1>2. ASSUME NEW l \in Links, CommitEvidence(l)
      PROVE  /\ ItemsOf(v)' \subseteq ItemsOf(v)
             /\ \/ MaterialOf(v)' \subseteq MaterialOf(v)
                \/ /\ SubjectOf[l] \in ItemsOf(v) /\ lock[SubjectOf[l]] = None
                   /\ MaterialOf(v)' \subseteq MaterialOf(v) \cup {l}
  <2>1. owners' = owners /\ evidence' = evidence \cup {l} /\ lock[SubjectOf[l]] = None
    BY <1>2 DEF CommitEvidence
  <2>2. SubjectOf[l] \in Subjects BY WorkflowAssumption
  <2>3. CASE v \in owners[SubjectOf[l]] BY <2>1, <2>2, <2>3 DEF ItemsOf, MaterialOf, OwnersOf
  <2>4. CASE v \notin owners[SubjectOf[l]] BY <2>1, <2>4 DEF ItemsOf, MaterialOf, OwnersOf
  <2> QED BY <2>3, <2>4
<1>3. ASSUME NEW l \in Links, RemoveEvidence(l)
      PROVE  ItemsOf(v)' \subseteq ItemsOf(v) /\ MaterialOf(v)' \subseteq MaterialOf(v)
  BY <1>3 DEF RemoveEvidence, ItemsOf, MaterialOf, OwnersOf
<1>4. ASSUME NEW w \in Versions, NEW s \in Subjects, Associate(w, s) \/ Dissociate(w, s)
      PROVE  ItemsOf(v)' \subseteq ItemsOf(v) /\ MaterialOf(v)' \subseteq MaterialOf(v)
  <2>1. ASSUME NEW q \in Subjects, v \in owners'[q] PROVE v \in owners[q]
    BY <1>1, <1>4, <2>1 DEF Associate, Dissociate
  <2>2. evidence' = evidence BY <1>4 DEF Associate, Dissociate
  <2>3. \A l \in evidence : SubjectOf[l] \in Subjects
    BY WorkflowAssumption
  <2> QED BY <2>1, <2>2, <2>3 DEF ItemsOf, MaterialOf, OwnersOf
<1>5. CASE UNCHANGED <<evidence, owners>> BY <1>5 DEF ItemsOf, MaterialOf, OwnersOf
<1>6. (\E w \in Versions : Withdraw(w)) \/ (\E l \in Links : AddEvidence(l) \/ LoseEvidence(l)) \/ Tick
        => UNCHANGED <<evidence, owners>>
  BY DEF Withdraw, AddEvidence, LoseEvidence, Tick, store
<1> QED BY <1>2, <1>3, <1>4, <1>5, <1>6 DEF Edit

\* Once the publisher holds the items too, neither grows.
LEMMA MaterialShrinks ==
  ASSUME TypeOK, Edit \/ Tick, NEW u \in Txns, NEW v \in Versions, lock[v] = u,
         \A s \in ItemsOf(v) : lock[s] = u
  PROVE  ItemsOf(v)' \subseteq ItemsOf(v) /\ MaterialOf(v)' \subseteq MaterialOf(v)
<1>1. u # None BY WorkflowAssumption
<1> QED BY <1>1, AggregateSteps

LEMMA InitHolds == Init => AllHold
  BY WorkflowAssumption DEF Init, AllHold, Holds, Held

\* The transaction that moves.
LEMMA MoverHolds ==
  ASSUME TypeOK, NEW t \in Txns, Holds(t), Moves(t)
  PROVE  Holds(t)'
<1> USE DEF TypeOK
<1>1. CASE Finish(t)
  <2>1. pc'[t] = "idle" /\ Held(t)' = {} BY <1>1, FinishFrees
  <2> QED BY <2>1 DEF Holds
<1>2. ASSUME NEW r \in Rows, LockNext(t, r) PROVE Holds(t)'
  <2>1. /\ lock' = [lock EXCEPT ![r] = t] /\ UNCHANGED <<pc, job, owners, evidence>>
        /\ lock[r] = None
        /\ pc[t] \in {"open_lock", "review_lock", "publish_rows", "publish_graph", "publish_gate"}
        /\ r \in Wanted(t)
    BY <1>2 DEF LockNext, store
  <2>2. \A q \in Rows : lock[q] = t => lock'[q] = t BY <2>1 DEF TxnsOK
  <2>3. pc[t] # "publish_gate" => r \in Ranked
    BY <2>1, WantedRows, GraphRowsRanked DEF InOrder
  <2>4. Held(t)' \subseteq Held(t) \cup {r} BY <2>1 DEF Held, TxnsOK
  <2>5. pc[t] # "publish_gate" => Held(t)' \cap Discrepancies = {}
    BY <2>1, <2>3, <2>4, LockOrderAssumption DEF Holds
  <2>6. ASSUME pc[t] \in {"publish_rows", "publish_graph", "publish_gate"}
        PROVE  lock'[job[t].version] = t
    <3>1. job[t].version \in Rows
      BY <2>6 DEF TxnsOK, JobAt, PublishJobs, GraphJobs, GateJobs, Rows, Ranked
    <3> QED BY <2>2, <2>6, <3>1 DEF Holds
  <2>7. ASSUME pc[t] \in {"publish_graph", "publish_gate"},
               NEW q \in ItemsOf(job[t].version)' \cup MaterialOf(job[t].version)'
        PROVE  lock'[q] = t
    <3>1. q \in ItemsOf(job[t].version) \cup MaterialOf(job[t].version)
      BY <2>1, <2>7 DEF ItemsOf, MaterialOf, OwnersOf
    <3>2. q \in Rows BY <3>1 DEF ItemsOf, MaterialOf, StoreOK, Rows, Ranked
    <3> QED BY <2>2, <2>7, <3>1, <3>2 DEF Holds
  <2> QED BY <2>1, <2>5, <2>6, <2>7 DEF Holds
<1>3. CASE OpenRecord(t)
  <2>1. /\ pc[t] = "open_lock" /\ Wanted(t) = {} /\ ~Moved(t) /\ pc'[t] = "open_commit"
        /\ job'[t].anchor = job[t].anchor /\ lock' = lock
    BY <1>3 DEF OpenRecord, TxnsOK
  <2>2. job[t].anchor \in job[t].links /\ job[t].links \subseteq evidence
    BY <2>1 DEF TxnsOK, JobAt, OpenJobs, Moved
  <2>3. lock[job[t].anchor] = t
    BY <2>1, <2>2, AllLocked DEF NeededRows
  <2>4. Held(t)' = Held(t) BY <2>1 DEF Held
  <2> QED BY <2>1, <2>3, <2>4 DEF Holds
<1>4. CASE AdminNotice(t)
  <2>1. pc[t] = "admin_notice" /\ pc'[t] = "admin_update" /\ Held(t)' = Held(t)
    BY <1>4 DEF AdminNotice, Held, TxnsOK
  <2> QED BY <2>1 DEF Holds
<1>5. CASE ReviewRecord(t)
  <2>1. pc[t] = "review_lock" /\ pc'[t] = "review_commit" /\ Held(t)' = Held(t)
    BY <1>5 DEF ReviewRecord, Held, TxnsOK
  <2> QED BY <2>1 DEF Holds
<1>6. CASE PublishGraph(t)
  <2>1. /\ pc[t] = "publish_rows" /\ Wanted(t) = {} /\ pc'[t] = "publish_graph"
        /\ job'[t].version = job[t].version /\ UNCHANGED <<lock, evidence, owners>>
    BY <1>6 DEF PublishGraph, TxnsOK, store
  <2>2. \A r \in ItemsOf(job[t].version) \cup MaterialOf(job[t].version) : lock[r] = t
    BY <2>1, AllLocked DEF NeededRows, Aggregate
  <2>3. \A r \in ItemsOf(job[t].version)' \cup MaterialOf(job[t].version)' : lock[r] = t
    BY <2>1, <2>2 DEF ItemsOf, MaterialOf, OwnersOf
  <2>4. Held(t)' = Held(t) BY <2>1 DEF Held
  <2> QED BY <2>1, <2>3, <2>4 DEF Holds
<1>9. CASE PublishGate(t)
  <2>1. /\ pc[t] = "publish_graph" /\ pc'[t] = "publish_gate"
        /\ job'[t].version = job[t].version /\ UNCHANGED <<lock, evidence, owners>>
    BY <1>9 DEF PublishGate, TxnsOK, store
  <2>2. \A r \in ItemsOf(job[t].version)' \cup MaterialOf(job[t].version)' : lock[r] = t
    BY <2>1 DEF ItemsOf, MaterialOf, OwnersOf, Holds
  <2> QED BY <2>1, <2>2 DEF Holds
<1>7. CASE AdminUpdate(t)
  <2>1. /\ pc'[t] \in {"resolve_commit", "edit_commit"} /\ job'[t].discrepancy = job[t].discrepancy
        /\ lock' = [lock EXCEPT ![job[t].discrepancy] = t] /\ pc[t] = "admin_update"
    BY <1>7 DEF AdminUpdate, TxnsOK
  <2>2. job[t].discrepancy \in Rows BY <2>1 DEF TxnsOK, JobAt, FormJobs, Rows
  <2>3. lock'[job'[t].discrepancy] = t BY <2>1, <2>2 DEF TxnsOK
  <2> QED BY <2>1, <2>3 DEF Holds
<1>8. CASE Start(t)
  <2>1. ASSUME NEW d \in Discrepancies, NEW o \in Outcomes, ResolveRecord(t, d, o)
        PROVE  Holds(t)'
    <3>1. pc'[t] = "resolve_commit" /\ job'[t].discrepancy = d /\ lock'[d] = t
      BY <2>1 DEF ResolveRecord, Begin, TxnsOK, Rows
    <3> QED BY <3>1 DEF Holds
  <2>2. ASSUME NEW v \in Versions, PublishBegin(t, v) PROVE Holds(t)'
    <3>1. /\ pc[t] = "idle" /\ pc'[t] = "publish_rows" /\ job'[t].version = v
          /\ lock' = [lock EXCEPT ![v] = t]
      BY <2>2 DEF PublishBegin, Begin, TxnsOK
    <3>2. v \in Rows /\ v \notin Discrepancies BY LockOrderAssumption DEF Rows, Ranked
    <3>3. Held(t)' \subseteq {v} /\ lock'[v] = t BY <3>1, <3>2 DEF Held, Holds, TxnsOK
    <3> QED BY <3>1, <3>2, <3>3 DEF Holds
  <2>3. ASSUME NEW at \in {"open_lock", "open_commit", "admin_notice", "review_lock"}, NEW what,
               Begin(t, at, what), lock' = lock
        PROVE  Holds(t)'
    <3>1. pc[t] = "idle" /\ pc'[t] = at BY <2>3 DEF Begin, TxnsOK
    <3>2. Held(t)' = {} BY <2>3, <3>1 DEF Held, Holds
    <3> QED BY <3>1, <3>2 DEF Holds
  <2> QED BY <1>8, <2>1, <2>2, <2>3 DEF Start, OpenBegin, AdminOpen, AdminRead, ReviewBegin
<1> QED
  BY <1>1, <1>2, <1>3, <1>4, <1>5, <1>6, <1>7, <1>8, <1>9
  DEF Moves, Continue, Crash, Rollback, OpenRefuse, OpenCommit, AdminRefuse, DiscrepancyCommit,
      ReviewRefuse, ReviewCommit, PublishDecide

LEMMA StepHolds ==
  ASSUME TypeOK, AllHold, [Next]_vars
  PROVE  AllHold'
<1> SUFFICES ASSUME NEW u \in Txns PROVE Holds(u)' BY DEF AllHold
<1>0. Holds(u) BY DEF AllHold
<1>1. ASSUME NEW t \in Txns, Moves(t) PROVE Holds(u)'
  <2>1. CASE u = t BY <1>0, <1>1, <2>1, MoverHolds
  <2>2. CASE u # t
    <3>1. /\ pc'[u] = pc[u] /\ job'[u] = job[u] /\ Held(u)' = Held(u)
          /\ UNCHANGED <<evidence, owners>> /\ \A r \in Rows : lock[r] = u => lock'[r] = u
      BY <1>1, <2>2, OthersStay, MovesStore
    <3>2. /\ MaterialOf(job[u].version)' = MaterialOf(job[u].version)
          /\ ItemsOf(job[u].version)' = ItemsOf(job[u].version)
      BY <3>1 DEF ItemsOf, MaterialOf, OwnersOf
    <3>3. \A r \in ItemsOf(job[u].version) \cup MaterialOf(job[u].version) : r \in Rows
      BY DEF ItemsOf, MaterialOf, Rows, Ranked, TypeOK, StoreOK
    <3>4. pc[u] \in {"publish_rows", "publish_graph", "publish_gate"} => job[u].version \in Rows
      BY DEF TypeOK, TxnsOK, JobAt, PublishJobs, GraphJobs, GateJobs, Rows, Ranked
    <3>5. pc[u] \in {"resolve_commit", "edit_commit"} => job[u].discrepancy \in Rows
      BY DEF TypeOK, TxnsOK, JobAt, SaveJobs, Rows
    <3>6. pc[u] = "open_commit" => job[u].anchor \in Rows
      BY DEF TypeOK, TxnsOK, JobAt, OpenedJobs, Rows, Ranked
    <3> QED BY <1>0, <3>1, <3>2, <3>3, <3>4, <3>5, <3>6 DEF Holds
  <2> QED BY <2>1, <2>2
<1>2. CASE Edit \/ Tick
  <2>1. UNCHANGED <<lock, pc, job>> BY <1>2, EditsLeave
  <2>2. ASSUME pc[u] \in {"publish_graph", "publish_gate"}
        PROVE  /\ MaterialOf(job[u].version)' \subseteq MaterialOf(job[u].version)
               /\ ItemsOf(job[u].version)' \subseteq ItemsOf(job[u].version)
    <3>1. PICK v \in Versions : v = job[u].version
      BY <2>2 DEF TypeOK, TxnsOK, JobAt, GraphJobs, GateJobs
    <3>2. MaterialOf(v)' \subseteq MaterialOf(v) /\ ItemsOf(v)' \subseteq ItemsOf(v)
      BY <1>0, <1>2, <2>2, <3>1, MaterialShrinks DEF Holds
    <3> QED BY <2>1, <3>1, <3>2 DEF MaterialOf, ItemsOf
  <2> QED BY <1>0, <2>1, <2>2 DEF Holds, Held
<1>3. CASE UNCHANGED vars
  BY <1>0, <1>3 DEF vars, Holds, Held, ItemsOf, MaterialOf, OwnersOf
<1> QED BY <1>1, <1>2, <1>3 DEF Next, Moves

-----------------------------------------------------------------------------
(* What commits record. *)

RowOf(j) ==
  [anchor |-> j.anchor, links |-> j.links, status |-> "open", outcome |-> j.outcome]

\* A commit of an opening adds one discrepancy and its transition, or nothing.
LEMMA OpenCommits ==
  ASSUME TypeOK, NEW t \in Txns, Fits(t), OpenCommit(t)
  PROVE  /\ job[t] \in OpenedJobs /\ job[t].discrepancy \notin Existing
         /\ \/ UNCHANGED <<discrepancies, transitions>>
            \/ /\ job[t].anchor \in evidence
               /\ Existing' = Existing \cup {job[t].discrepancy}
               /\ transitions' = transitions \cup {job[t].made}
               /\ discrepancies'[job[t].discrepancy] = RowOf(job[t])
               /\ \A d \in Existing : discrepancies'[d] = discrepancies[d]
<1> USE DEF TypeOK
<1>1. job[t] \in OpenedJobs /\ job[t].discrepancy \notin Existing
  BY DEF OpenCommit, TxnsOK, JobAt, Fits
<1>2. job[t].discrepancy \in Discrepancies /\ RowOf(job[t]) \in DiscrepancyRows
  BY <1>1 DEF OpenedJobs, DiscrepancyRows, RowOf
<1>3. CASE job[t].anchor \notin evidence
  BY <1>1, <1>3 DEF OpenCommit
<1>4. CASE job[t].anchor \in evidence
  <2>1. /\ discrepancies' = [discrepancies EXCEPT ![job[t].discrepancy] = RowOf(job[t])]
        /\ transitions' = transitions \cup {job[t].made}
    BY <1>4 DEF OpenCommit, RowOf
  <2>2. /\ discrepancies'[job[t].discrepancy] = RowOf(job[t])
        /\ \A d \in Discrepancies \ {job[t].discrepancy} : discrepancies'[d] = discrepancies[d]
    BY <1>2, <2>1 DEF StoreOK
  <2>3. Existing' = Existing \cup {job[t].discrepancy}
    BY <1>2, <2>2, WorkflowAssumption DEF Existing
  <2>4. \A d \in Existing : d \in Discrepancies \ {job[t].discrepancy}
    BY <1>1 DEF Existing
  <2> QED BY <1>1, <1>4, <2>1, <2>2, <2>3, <2>4
<1> QED BY <1>3, <1>4

\* A commit of a saved discrepancy changes its status and outcome.
LEMMA SaveCommits ==
  ASSUME TypeOK, NEW t \in Txns, DiscrepancyCommit(t)
  PROVE  /\ job[t] \in SaveJobs /\ job[t].discrepancy \in Existing /\ Existing' = Existing
         /\ transitions' = IF pc[t] = "resolve_commit"
                           THEN transitions \cup {job[t].made} ELSE transitions
         /\ discrepancies'[job[t].discrepancy].status = job[t].status
         /\ \A d \in Existing : d # job[t].discrepancy => discrepancies'[d] = discrepancies[d]
         /\ \A d \in Existing : /\ discrepancies'[d].anchor = discrepancies[d].anchor
                                /\ discrepancies'[d].links = discrepancies[d].links
<1> USE DEF TypeOK
<1>1. job[t] \in SaveJobs /\ job[t].discrepancy \in Existing
  BY DEF DiscrepancyCommit, TxnsOK, JobAt, Known, SavePcs
<1> DEFINE d   == job[t].discrepancy
           row == [discrepancies[d] EXCEPT !.status = job[t].status, !.outcome = job[t].outcome]
<1>2. d \in Discrepancies /\ discrepancies[d] \in DiscrepancyRows
  BY <1>1 DEF Existing, StoreOK
<1>3. /\ row \in DiscrepancyRows /\ row.status = job[t].status
      /\ row.anchor = discrepancies[d].anchor /\ row.links = discrepancies[d].links
  BY <1>1, <1>2 DEF DiscrepancyRows, SaveJobs, Statuses
<1>4. discrepancies' = [discrepancies EXCEPT ![d] = row]
  BY DEF DiscrepancyCommit
<1>5. transitions' = IF pc[t] = "resolve_commit"
                     THEN transitions \cup {job[t].made} ELSE transitions
  BY DEF DiscrepancyCommit
<1> HIDE DEF row
<1>6. discrepancies'[d] = row /\ \A e \in Discrepancies : e # d => discrepancies'[e] = discrepancies[e]
  BY <1>2, <1>4 DEF StoreOK
<1>7. Existing' = Existing
  BY <1>1, <1>2, <1>3, <1>6, WorkflowAssumption DEF Existing
<1>8. \A e \in Existing : e \in Discrepancies BY DEF Existing
<1> QED BY <1>1, <1>3, <1>5, <1>6, <1>7, <1>8

\* Discrepancies keep their evidence, and the records only grow.
LEMMA RecordsGrow ==
  ASSUME TypeOK, AllFit, [Next]_vars
  PROVE  /\ transitions \subseteq transitions' /\ reviews \subseteq reviews'
         /\ Existing \subseteq Existing'
         /\ \A d \in Existing : /\ discrepancies'[d].anchor = discrepancies[d].anchor
                                /\ discrepancies'[d].links = discrepancies[d].links
                                /\ AlreadyResolved(d) => AlreadyResolved(d)'
                                /\ OpeningsOf(d)' = OpeningsOf(d)
<1>1. ASSUME UNCHANGED <<discrepancies, transitions>>
      PROVE  /\ transitions \subseteq transitions' /\ Existing \subseteq Existing'
             /\ \A d \in Existing : /\ discrepancies'[d].anchor = discrepancies[d].anchor
                                    /\ discrepancies'[d].links = discrepancies[d].links
                                    /\ AlreadyResolved(d) => AlreadyResolved(d)'
                                    /\ OpeningsOf(d)' = OpeningsOf(d)
  BY <1>1 DEF Existing, AlreadyResolved, OpeningsOf
<1>2. ASSUME NEW t \in Txns, OpenCommit(t), ~UNCHANGED <<discrepancies, transitions>>
      PROVE  /\ transitions \subseteq transitions' /\ Existing \subseteq Existing'
             /\ \A d \in Existing : /\ discrepancies'[d].anchor = discrepancies[d].anchor
                                    /\ discrepancies'[d].links = discrepancies[d].links
                                    /\ AlreadyResolved(d) => AlreadyResolved(d)'
                                    /\ OpeningsOf(d)' = OpeningsOf(d)
  <2>1. Fits(t) BY DEF AllFit
  <2>2. /\ transitions' = transitions \cup {job[t].made}
        /\ job[t].made.discrepancy \notin Existing
        /\ Existing \subseteq Existing'
        /\ \A d \in Existing : discrepancies'[d] = discrepancies[d]
    BY <1>2, <2>1, OpenCommits DEF OpenedJobs
  <2> QED BY <2>2 DEF AlreadyResolved, OpeningsOf
<1>3. ASSUME NEW t \in Txns, DiscrepancyCommit(t)
      PROVE  /\ transitions \subseteq transitions' /\ Existing \subseteq Existing'
             /\ \A d \in Existing : /\ discrepancies'[d].anchor = discrepancies[d].anchor
                                    /\ discrepancies'[d].links = discrepancies[d].links
                                    /\ AlreadyResolved(d) => AlreadyResolved(d)'
                                    /\ OpeningsOf(d)' = OpeningsOf(d)
  <2>1. job[t].made.kind = "resolved" BY <1>3, SaveCommits DEF SaveJobs
  <2>2. transitions' = transitions \/ transitions' = transitions \cup {job[t].made}
    BY <1>3, SaveCommits
  <2> QED BY <1>3, <2>1, <2>2, SaveCommits DEF AlreadyResolved, OpeningsOf
<1>4. CASE Edit \/ Tick \/ UNCHANGED vars
  BY <1>1, <1>4, EditsLeave DEF vars
<1>5. ASSUME NEW t \in Txns, Moves(t) PROVE reviews \subseteq reviews'
  BY <1>5, MovesStore DEF ReviewCommit
<1>6. ASSUME NEW t \in Txns, Moves(t)
      PROVE  UNCHANGED <<discrepancies, transitions>> \/ OpenCommit(t) \/ DiscrepancyCommit(t)
  BY <1>6, MovesStore
<1>7. CASE \E t \in Txns : Moves(t)
  BY <1>1, <1>2, <1>3, <1>5, <1>6, <1>7
<1>8. CASE Edit \/ Tick \/ UNCHANGED vars
  BY <1>4, <1>8, EditsLeave, <1>1 DEF vars
<1> QED BY <1>7, <1>8 DEF Next, Moves

LEMMA StepRecords ==
  ASSUME TypeOK, AllFit, RecordsAgree, [Next]_vars
  PROVE  RecordsAgree'
<1>1. ASSUME NEW e \in transitions' PROVE e.discrepancy \in Existing' /\ e.at <= now'
  <2>1. now \in Nat /\ now' \in Nat /\ now <= now'
    <3>1. now' = now \/ now' = now + 1
      BY MovesStore, WorkflowAssumption DEF Next, Moves, Edit, Tick, Withdraw, AddEvidence,
         CommitEvidence, LoseEvidence, RemoveEvidence, Associate, Dissociate, vars
    <3>2. now \in Nat BY WorkflowAssumption DEF TypeOK, StoreOK
    <3> QED BY <3>1, <3>2
  <2>2. CASE e \in transitions
    <3>1. e.at \in Nat /\ e.at <= now /\ e.discrepancy \in Existing
      BY <2>2, WorkflowAssumption DEF RecordsAgree, TypeOK, StoreOK, TransitionRows
    <3> QED BY <2>1, <3>1, RecordsGrow
  <2>3. CASE e \notin transitions
    <3>1. PICK t \in Txns : Moves(t)
      BY <2>3, EditsLeave DEF Next, Moves, vars
    <3>2. OpenCommit(t) \/ DiscrepancyCommit(t)
      BY <2>3, <3>1, MovesStore
    <3>3. Fits(t) BY DEF AllFit
    <3>4. e = job[t].made /\ e.discrepancy \in Existing' /\ pc[t] \in {"open_commit", "resolve_commit"}
      <4>1. CASE OpenCommit(t)
        BY <2>3, <3>3, <4>1, OpenCommits DEF OpenedJobs, OpenCommit
      <4>2. CASE DiscrepancyCommit(t)
        BY <2>3, <3>3, <4>2, SaveCommits DEF SaveJobs
      <4> QED BY <3>2, <4>1, <4>2
    <3>5. e.at <= now BY <3>3, <3>4 DEF Fits
    <3>6. now' = now BY <3>1, MovesStore
    <3> QED BY <3>4, <3>5, <3>6
  <2> QED BY <2>2, <2>3
<1>2. ASSUME NEW d \in Existing', d \notin Existing
      PROVE  /\ discrepancies'[d].anchor \in discrepancies'[d].links \cap evidence'
             /\ \E o \in transitions' : o.kind = "opened" /\ o.discrepancy = d
             /\ discrepancies'[d].status = "resolved" => AlreadyResolved(d)'
  <2>1. PICK t \in Txns : Moves(t)
    BY <1>2, EditsLeave DEF Next, Moves, vars, Existing
  <2>2. OpenCommit(t)
    BY <1>2, <2>1, MovesStore, SaveCommits DEF Existing
  <2>3. Fits(t) BY DEF AllFit
  <2>4. /\ d = job[t].discrepancy /\ discrepancies'[d] = RowOf(job[t])
        /\ transitions' = transitions \cup {job[t].made} /\ job[t].anchor \in evidence
        /\ job[t] \in OpenedJobs
    BY <1>2, <2>2, <2>3, OpenCommits DEF Existing
  <2>5. evidence' = evidence BY <2>1, MovesStore
  <2>6. /\ job[t].anchor \in job[t].links /\ job[t].made.kind = "opened"
        /\ job[t].made.discrepancy = d
    BY <2>4 DEF OpenedJobs
  <2> QED BY <2>4, <2>5, <2>6 DEF RowOf
<1>3. ASSUME NEW d \in Existing
      PROVE  /\ discrepancies'[d].anchor \in discrepancies'[d].links \cap evidence'
             /\ \E o \in transitions' : o.kind = "opened" /\ o.discrepancy = d
  <2>1. /\ discrepancies[d].anchor \in discrepancies[d].links \cap evidence
        /\ \E o \in transitions : o.kind = "opened" /\ o.discrepancy = d
    BY DEF RecordsAgree
  <2>2. ASSUME NEW l \in Links, RemoveEvidence(l) PROVE discrepancies[d].anchor \in evidence'
    BY <2>1, <2>2 DEF RemoveEvidence, ReferredTo
  <2>3. discrepancies[d].anchor \in evidence'
    <3>1. ASSUME NEW t \in Txns, Moves(t) PROVE evidence' = evidence BY <3>1, MovesStore
    <3>2. CASE Edit \/ Tick \/ UNCHANGED vars
      BY <2>1, <2>2, <3>2 DEF Edit, Tick, Withdraw, AddEvidence, CommitEvidence, LoseEvidence, Associate, Dissociate, vars, store
    <3> QED BY <2>1, <3>1, <3>2 DEF Next, Moves
  <2> QED BY <2>1, <2>3, RecordsGrow
<1>4. ASSUME NEW d \in Existing, discrepancies'[d].status = "resolved"
      PROVE  AlreadyResolved(d)'
  <2>1. CASE discrepancies[d].status = "resolved"
    BY <2>1, RecordsGrow DEF RecordsAgree
  <2>2. CASE discrepancies[d].status # "resolved"
    <3>1. PICK t \in Txns : Moves(t)
      BY <1>4, <2>2, EditsLeave DEF Next, Moves, vars
    <3>2. Fits(t) BY DEF AllFit
    <3>3. DiscrepancyCommit(t) /\ d = job[t].discrepancy
      BY <1>4, <2>2, <3>1, <3>2, MovesStore, OpenCommits, SaveCommits
    <3>4. job[t].status = "resolved" BY <1>4, <3>3, SaveCommits
    <3>5. CASE pc[t] = "resolve_commit"
      BY <3>3, <3>5, SaveCommits DEF SaveJobs, AlreadyResolved
    <3>6. CASE pc[t] = "edit_commit"
      BY <3>2, <3>3, <3>4, <3>6, RecordsGrow DEF Fits
    <3> QED BY <3>3, <3>5, <3>6 DEF DiscrepancyCommit
  <2> QED BY <2>1, <2>2
<1> QED BY <1>1, <1>2, <1>3, <1>4 DEF RecordsAgree

-----------------------------------------------------------------------------
(* What is about to be recorded. *)

LEMMA OpeningType ==
  ASSUME TypeOK, NEW e \in transitions
  PROVE  e.at \in Nat /\ e.pk \in Nat /\ now \in Nat
  BY WorkflowAssumption DEF TypeOK, StoreOK, TransitionRows

\* The primary key of a new transition is new.
LEMMA MoverFits ==
  ASSUME TypeOK, RecordsAgree, NEW t \in Txns, Fits(t), Moves(t)
  PROVE  Fits(t)'
<1> USE DEF TypeOK
<1>1. CASE Finish(t)
  <2>1. pc'[t] = "idle" BY <1>1, FinishFrees
  <2> QED BY <2>1 DEF Fits
<1>2. ASSUME NEW r \in Rows, LockNext(t, r) PROVE Fits(t)'
  <2>1. pc'[t] \in {"open_lock", "review_lock", "publish_rows", "publish_graph", "publish_gate"}
    BY <1>2 DEF LockNext
  <2> QED BY <2>1 DEF Fits
<1>3. CASE PublishGraph(t) \/ PublishGate(t)
  <2>1. pc'[t] \in {"publish_graph", "publish_gate"} BY <1>3 DEF PublishGraph, PublishGate, TxnsOK
  <2> QED BY <2>1 DEF Fits
<1>4. ASSUME NEW at \in {"open_lock", "review_lock", "publish_rows"}, NEW what, Begin(t, at, what)
      PROVE  Fits(t)'
  <2>1. pc'[t] = at BY <1>4 DEF Begin, TxnsOK
  <2> QED BY <2>1 DEF Fits
<1>5. ASSUME NEW d \in Discrepancies \ Reserved, NEW o, UNCHANGED <<store, now>>,
             pc'[t] = "open_commit", job'[t].discrepancy = d, job'[t].made = OpeningOf(d, o)
      PROVE  Fits(t)'
  <2>1. d \notin Existing' BY <1>5 DEF Reserved, Existing, store
  <2>2. job'[t].made.at = now /\ job'[t].made.pk = TransitionPk BY <1>5 DEF OpeningOf
  <2>3. \A e \in transitions : e.pk # TransitionPk BY TransitionKeys, OpeningType
  <2>4. now \in Nat /\ now' = now /\ transitions' = transitions
    BY <1>5, WorkflowAssumption DEF StoreOK, store
  <2> QED BY <1>5, <2>1, <2>2, <2>3, <2>4 DEF Fits
<1>6. CASE OpenRecord(t)
  <2>1. PICK d \in Discrepancies \ Reserved :
          job' = [job EXCEPT ![t] =
            [anchor |-> job[t].anchor, links |-> job[t].links, outcome |-> job[t].outcome,
             discrepancy |-> d, made |-> OpeningOf(d, job[t].outcome)]]
    BY <1>6 DEF OpenRecord
  <2>2. job'[t].discrepancy = d /\ job'[t].made = OpeningOf(d, job[t].outcome)
    BY <2>1 DEF TxnsOK
  <2>3. pc'[t] = "open_commit" /\ UNCHANGED <<store, now>> BY <1>6 DEF OpenRecord, TxnsOK
  <2> QED BY <1>5, <2>2, <2>3
<1>7. ASSUME NEW l \in Links, NEW o \in Outcomes, AdminOpen(t, l, o) PROVE Fits(t)'
  <2>1. PICK d \in Discrepancies \ Reserved :
          Begin(t, "open_commit", [anchor |-> l, links |-> {l}, outcome |-> o,
                                   discrepancy |-> d, made |-> OpeningOf(d, o)])
    BY <1>7 DEF AdminOpen
  <2>2. pc'[t] = "open_commit" /\ job'[t].discrepancy = d /\ job'[t].made = OpeningOf(d, o)
    BY <2>1 DEF Begin, TxnsOK
  <2>3. UNCHANGED <<store, now>> BY <1>7 DEF AdminOpen
  <2> QED BY <1>5, <2>2, <2>3
<1>8. ASSUME NEW d \in Existing, NEW at, ~AlreadyResolved(d), UNCHANGED <<store, now>>,
             at \in Nat, at <= now, \A o \in OpeningsOf(d) : o.at <= at,
             pc'[t] = "resolve_commit", job'[t].discrepancy = d,
             job'[t].made.at = at, job'[t].made.pk = TransitionPk
      PROVE  Fits(t)'
  <2>1. ~AlreadyResolved(d)' /\ OpeningsOf(d)' = OpeningsOf(d)
    BY <1>8 DEF AlreadyResolved, OpeningsOf, store
  <2>2. \A e \in transitions : e.pk < TransitionPk /\ e.pk # TransitionPk
    BY TransitionKeys, OpeningType
  <2>3. \A o \in OpeningsOf(d) : o.at <= at /\ o.pk < TransitionPk
    BY <1>8, <2>2 DEF OpeningsOf
  <2>4. now' = now /\ transitions' = transitions BY <1>8 DEF store
  <2>5. /\ ~AlreadyResolved(job[t].discrepancy)'
        /\ \A o \in OpeningsOf(job[t].discrepancy)' : o.at <= job'[t].made.at /\ o.pk < job'[t].made.pk
    BY <1>8, <2>1, <2>3 DEF AlreadyResolved, OpeningsOf
  <2> QED BY <1>8, <2>2, <2>4, <2>5 DEF Fits
<1>9. ASSUME NEW d \in Discrepancies, NEW o \in Outcomes, ResolveRecord(t, d, o) PROVE Fits(t)'
  <2>1. /\ pc'[t] = "resolve_commit" /\ job'[t].discrepancy = d
        /\ job'[t].made = ResolutionOf(d, o)
    BY <1>9 DEF ResolveRecord, Begin, TxnsOK
  <2>2. d \in Existing /\ ~AlreadyResolved(d) /\ UNCHANGED <<store, now>>
    BY <1>9 DEF ResolveRecord, Open
  <2>3. now \in Nat /\ now <= now BY WorkflowAssumption DEF StoreOK
  <2>4. \A e \in OpeningsOf(d) : e.at <= now BY DEF RecordsAgree, OpeningsOf
  <2>5. job'[t].made.at = now /\ job'[t].made.pk = TransitionPk BY <2>1 DEF ResolutionOf
  <2> QED BY <1>8, <2>1, <2>2, <2>3, <2>4, <2>5
<1>10. ASSUME NEW d \in Discrepancies, NEW o \in Outcomes, NEW status \in {"open", "resolved"},
              AdminRead(t, d, status, o)
       PROVE  Fits(t)'
  <2>1. /\ pc'[t] = "admin_notice" /\ job'[t].discrepancy = d /\ job'[t].at = now
        /\ UNCHANGED <<store, now>>
    BY <1>10 DEF AdminRead, Begin, TxnsOK
  <2>2. now \in Nat /\ \A e \in OpeningsOf(d) : e.at <= now
    BY WorkflowAssumption DEF RecordsAgree, OpeningsOf, StoreOK
  <2>3. OpeningsOf(job[t].discrepancy)' = OpeningsOf(d)
    BY <2>1 DEF OpeningsOf, store
  <2> QED BY <2>1, <2>2, <2>3 DEF Fits
<1>11. CASE AdminNotice(t)
  <2>1. /\ pc[t] = "admin_notice" /\ pc'[t] = "admin_update" /\ job[t] \in FormJobs
        /\ job[t].discrepancy \in Existing /\ UNCHANGED <<store, now>>
        /\ job'[t] = [job[t] EXCEPT !.previous = discrepancies[job[t].discrepancy].status]
    BY <1>11 DEF AdminNotice, TxnsOK, JobAt, Known, SavePcs
  <2>2. /\ job'[t].discrepancy = job[t].discrepancy /\ job'[t].at = job[t].at
        /\ job'[t].previous = discrepancies[job[t].discrepancy].status
    BY <2>1 DEF FormJobs
  <2>3. OpeningsOf(job[t].discrepancy)' = OpeningsOf(job[t].discrepancy)
        /\ (AlreadyResolved(job[t].discrepancy)' <=> AlreadyResolved(job[t].discrepancy))
    BY <2>1, <2>2 DEF OpeningsOf, AlreadyResolved, store
  <2>4. job'[t].previous = "resolved" => AlreadyResolved(job[t].discrepancy)
    BY <2>1, <2>2 DEF RecordsAgree
  <2>5. job[t].at <= now /\ \A o \in OpeningsOf(job[t].discrepancy) : o.at <= job[t].at
    BY <2>1 DEF Fits
  <2> QED BY <2>1, <2>2, <2>3, <2>4, <2>5 DEF Fits
<1>12. CASE AdminUpdate(t)
  <2>1. /\ pc[t] = "admin_update" /\ job[t] \in FormJobs /\ job[t].discrepancy \in Existing
        /\ UNCHANGED <<store, now>>
        /\ pc'[t] = (IF Resolves(t) THEN "resolve_commit" ELSE "edit_commit")
        /\ job'[t].discrepancy = job[t].discrepancy /\ job'[t].status = job[t].status
        /\ job'[t].made = [ResolutionOf(job[t].discrepancy, job[t].outcome) EXCEPT !.at = job[t].at]
        /\ Resolves(t) => ~AlreadyResolved(job[t].discrepancy)
    BY <1>12 DEF AdminUpdate, TxnsOK, JobAt, Known, SavePcs
  <2>2. job'[t].made.at = job[t].at /\ job'[t].made.pk = TransitionPk
    BY <2>1 DEF ResolutionOf
  <2>3. job[t].at \in Nat BY <2>1, WorkflowAssumption DEF FormJobs
  <2>4. job[t].at <= now /\ \A o \in OpeningsOf(job[t].discrepancy) : o.at <= job[t].at
    BY <2>1 DEF Fits
  <2>5. CASE Resolves(t) BY <1>8, <2>1, <2>2, <2>3, <2>4, <2>5
  <2>6. CASE ~Resolves(t)
    <3>1. job[t].status = "resolved" => AlreadyResolved(job[t].discrepancy)
      BY <2>1, <2>6 DEF Resolves, FormJobs, Statuses, Fits
    <3>2. AlreadyResolved(job[t].discrepancy)' <=> AlreadyResolved(job[t].discrepancy)
      BY <2>1 DEF AlreadyResolved, store
    <3> QED BY <2>1, <2>6, <3>1, <3>2 DEF Fits
  <2> QED BY <2>5, <2>6
<1>13. CASE ReviewRecord(t)
  <2>1. pc'[t] = "review_commit" /\ job'[t].made.pk = ReviewPk /\ reviews' = reviews
    BY <1>13 DEF ReviewRecord, TxnsOK, store
  <2>2. \A r \in reviews : r.pk # ReviewPk
    BY ReviewKeys, WorkflowAssumption DEF StoreOK, ReviewRows
  <2> QED BY <2>1, <2>2 DEF Fits
<1>14. CASE Continue(t)
  BY <1>1, <1>2, <1>3, <1>6, <1>11, <1>12, <1>13, <1>14
  DEF Continue, Rollback, OpenRefuse, OpenCommit, AdminRefuse, DiscrepancyCommit, ReviewRefuse,
      ReviewCommit, PublishDecide
<1>15. CASE Start(t)
  BY <1>4, <1>7, <1>9, <1>10, <1>15 DEF Start, OpenBegin, ReviewBegin, PublishBegin
<1> QED BY <1>1, <1>14, <1>15 DEF Moves, Crash, Rollback

LEMMA NewKeys ==
  ASSUME TypeOK, NEW t \in Txns, Moves(t)
  PROVE  /\ pc'[t] \in {"open_commit", "resolve_commit"} => job'[t].made.pk = TransitionPk
         /\ pc'[t] = "open_commit" => job'[t].discrepancy \notin Reserved
         /\ pc'[t] = "review_commit" => job'[t].made.pk = ReviewPk
<1> USE DEF TypeOK, TxnsOK
<1>1. CASE pc'[t] \notin {"open_commit", "resolve_commit", "review_commit"}
  BY <1>1
<1>2. CASE pc'[t] \in {"open_commit", "resolve_commit", "review_commit"}
  <2>1. ~Finish(t) BY <1>2, FinishFrees
  <2>2. ASSUME NEW r \in Rows, LockNext(t, r) PROVE FALSE
    BY <1>2, <2>2 DEF LockNext
  <2>3. CASE OpenRecord(t)
    BY <2>3 DEF OpenRecord, OpeningOf
  <2>4. CASE AdminUpdate(t)
    <3>1. job'[t].made = [ResolutionOf(job[t].discrepancy, job[t].outcome) EXCEPT !.at = job[t].at]
          /\ pc'[t] \in {"resolve_commit", "edit_commit"}
      BY <2>4 DEF AdminUpdate
    <3> QED BY <3>1 DEF ResolutionOf
  <2>5. CASE ReviewRecord(t)
    BY <2>5 DEF ReviewRecord
  <2>6. ~AdminNotice(t) /\ ~PublishGraph(t) /\ ~PublishGate(t)
    BY <1>2 DEF AdminNotice, PublishGraph, PublishGate
  <2>7. ASSUME NEW l \in Links, NEW o \in Outcomes, AdminOpen(t, l, o)
        PROVE  /\ pc'[t] = "open_commit" /\ job'[t].made.pk = TransitionPk
               /\ job'[t].discrepancy \notin Reserved
    BY <2>7 DEF AdminOpen, Begin, OpeningOf
  <2>8. ASSUME NEW d \in Discrepancies, NEW o \in Outcomes, ResolveRecord(t, d, o)
        PROVE  pc'[t] = "resolve_commit" /\ job'[t].made.pk = TransitionPk
    BY <2>8 DEF ResolveRecord, Begin, ResolutionOf
  <2>9. ASSUME NEW at \in {"open_lock", "admin_notice", "review_lock", "publish_rows"}, NEW what,
               Begin(t, at, what)
        PROVE  FALSE
    BY <1>2, <2>9 DEF Begin
  <2>10. CASE Continue(t)
    BY <2>1, <2>2, <2>3, <2>4, <2>5, <2>6, <2>10
    DEF Continue, Rollback, OpenRefuse, OpenCommit, AdminRefuse, DiscrepancyCommit, ReviewRefuse,
        ReviewCommit, PublishDecide
  <2>11. CASE Start(t)
    BY <2>7, <2>8, <2>9, <2>11 DEF Start, OpenBegin, AdminRead, ReviewBegin, PublishBegin
  <2> QED BY <2>1, <2>10, <2>11 DEF Moves, Crash, Rollback
<1> QED BY <1>1, <1>2

LEMMA StepKeys ==
  ASSUME TypeOK, KeysDiffer, [Next]_vars
  PROVE  KeysDiffer'
<1>1. ASSUME NEW t \in Txns, Moves(t) PROVE KeysDiffer'
  <2>1. ASSUME NEW u \in Txns \ {t}
        PROVE  /\ pc'[t] \in {"open_commit", "resolve_commit"}
                    /\ pc'[u] \in {"open_commit", "resolve_commit"}
                    => job'[t].made.pk # job'[u].made.pk
               /\ pc'[t] = "open_commit" /\ pc'[u] = "open_commit"
                    => job'[t].discrepancy # job'[u].discrepancy
               /\ pc'[t] = "review_commit" /\ pc'[u] = "review_commit"
                    => job'[t].made.pk # job'[u].made.pk
    <3>1. pc'[u] = pc[u] /\ job'[u] = job[u] BY <1>1, OthersStay
    <3>2. pc[u] \in {"open_commit", "resolve_commit"} => job[u].made.pk # TransitionPk
      <4>1. pc[u] \in {"open_commit", "resolve_commit"} => job[u].made.pk \in Nat
        BY WorkflowAssumption DEF TypeOK, TxnsOK, JobAt, OpenedJobs, TransitionRows
      <4> QED BY <4>1, TransitionKeys
    <3>3. pc[u] = "open_commit" => job[u].discrepancy \in Reserved
      BY DEF Reserved, Active
    <3>4. pc[u] = "review_commit" => job[u].made.pk # ReviewPk
      <4>1. pc[u] = "review_commit" => job[u].made.pk \in Nat
        BY WorkflowAssumption DEF TypeOK, TxnsOK, JobAt, ReviewedJobs, ReviewRows
      <4> QED BY <4>1, ReviewKeys
    <3> QED BY <1>1, <3>1, <3>2, <3>3, <3>4, NewKeys
  <2>2. ASSUME NEW u \in Txns \ {t} PROVE pc'[u] = pc[u] /\ job'[u] = job[u]
    BY <1>1, OthersStay
  <2> QED BY <2>1, <2>2 DEF KeysDiffer
<1>2. CASE Edit \/ Tick \/ UNCHANGED vars
  BY <1>2, EditsLeave DEF KeysDiffer, vars
<1> QED BY <1>1, <1>2 DEF Next, Moves

\* Two transactions do not save the same discrepancy at once.
LEMMA SaversDiffer ==
  ASSUME TypeOK, AllHold, NEW t \in Txns, NEW u \in Txns, t # u,
         pc[t] \in {"resolve_commit", "edit_commit"}, pc[u] \in {"resolve_commit", "edit_commit"}
  PROVE  job[t].discrepancy # job[u].discrepancy
  BY DEF AllHold, Holds

LEMMA OthersFit ==
  ASSUME TypeOK, AllHold, AllFit, KeysDiffer, [Next]_vars, NEW t \in Txns, Moves(t), NEW u \in Txns \ {t}
  PROVE  Fits(u)'
<1>0. /\ pc'[u] = pc[u] /\ job'[u] = job[u] /\ now' = now
      /\ Fits(u) /\ Fits(t)
  BY OthersStay, MovesStore DEF AllFit
<1> DEFINE d == job[u].discrepancy
<1>1. pc[u] \in SavePcs => d \in Existing
  BY DEF TypeOK, Known
<1>3. pc[u] \in SavePcs => (AlreadyResolved(d) => AlreadyResolved(job[u].discrepancy)')
                           /\ OpeningsOf(job[u].discrepancy)' = OpeningsOf(d)
  <2> SUFFICES ASSUME pc[u] \in SavePcs
               PROVE  /\ AlreadyResolved(d) => AlreadyResolved(job[u].discrepancy)'
                      /\ OpeningsOf(job[u].discrepancy)' = OpeningsOf(d)
    OBVIOUS
  <2>1. PICK e \in Existing : e = d BY <1>1
  <2>2. (AlreadyResolved(e) => AlreadyResolved(e)') /\ OpeningsOf(e)' = OpeningsOf(e)
    BY RecordsGrow
  <2> QED BY <1>0, <2>1, <2>2 DEF AlreadyResolved, OpeningsOf
<1>4. pc[u] = "open_commit" => d \notin Existing'
  <2>1. CASE OpenCommit(t)
    <3>1. pc[t] = "open_commit" BY <2>1 DEF OpenCommit
    <3>2. pc[u] = "open_commit" => d \notin Existing /\ d # job[t].discrepancy
      BY <1>0, <3>1 DEF Fits, KeysDiffer
    <3>3. \/ UNCHANGED discrepancies
          \/ Existing' = Existing \cup {job[t].discrepancy}
      BY <1>0, <2>1, OpenCommits
    <3> QED BY <3>2, <3>3 DEF Existing
  <2>2. CASE DiscrepancyCommit(t)
    BY <1>0, <2>2, SaveCommits DEF Fits
  <2>3. CASE UNCHANGED <<discrepancies, transitions>>
    BY <1>0, <2>3 DEF Fits, Existing
  <2> QED BY <2>1, <2>2, <2>3, MovesStore
<1>5. \/ transitions' = transitions
      \/ /\ pc[t] \in {"open_commit", "resolve_commit"}
         /\ transitions' = transitions \cup {job[t].made}
         /\ pc[t] = "open_commit" => job[t].made.kind = "opened"
         /\ pc[t] = "resolve_commit" => job[t].made.discrepancy = job[t].discrepancy
  <2>1. CASE OpenCommit(t)
    <3>1. pc[t] = "open_commit" BY <2>1 DEF OpenCommit
    <3> QED BY <1>0, <2>1, <3>1, OpenCommits DEF OpenedJobs
  <2>2. CASE DiscrepancyCommit(t)
    BY <1>0, <2>2, SaveCommits DEF SaveJobs
  <2> QED BY <2>1, <2>2, MovesStore
<1>6. pc[u] = "resolve_commit" => ~AlreadyResolved(job[u].discrepancy)'
  <2> SUFFICES ASSUME pc[u] = "resolve_commit" PROVE ~AlreadyResolved(job[u].discrepancy)'
    OBVIOUS
  <2>1. ~AlreadyResolved(d) BY <1>0 DEF Fits
  <2>2. pc[t] = "resolve_commit" => job[t].discrepancy # d
    BY SaversDiffer
  <2> QED BY <1>0, <1>5, <2>1, <2>2 DEF AlreadyResolved
<1>7. pc[u] \in {"open_commit", "resolve_commit"} =>
        /\ job[u].made.at <= now /\ \A e \in transitions' : e.pk # job[u].made.pk
  BY <1>0, <1>5 DEF Fits, KeysDiffer
<1>8. pc[u] = "review_commit" => \A r \in reviews' : r.pk # job[u].made.pk
  BY <1>0, MovesStore DEF Fits, KeysDiffer, ReviewCommit
<1>9. pc[u] = "edit_commit" /\ job[u].status = "resolved" => AlreadyResolved(job[u].discrepancy)'
  BY <1>0, <1>3 DEF Fits, SavePcs
<1>10. pc[u] = "admin_update" /\ job[u].previous = "resolved" => AlreadyResolved(job[u].discrepancy)'
  BY <1>0, <1>3 DEF Fits, SavePcs
<1>11. pc[u] \in {"admin_notice", "admin_update"} =>
         job[u].at <= now /\ \A o \in OpeningsOf(job[u].discrepancy)' : o.at <= job[u].at
  BY <1>0, <1>3 DEF Fits, SavePcs
<1>12. pc[u] = "resolve_commit" =>
         \A o \in OpeningsOf(job[u].discrepancy)' : o.at <= job[u].made.at /\ o.pk < job[u].made.pk
  BY <1>0, <1>3 DEF Fits, SavePcs
<1> QED BY <1>0, <1>4, <1>6, <1>7, <1>8, <1>9, <1>10, <1>11, <1>12 DEF Fits

LEMMA EditFits ==
  ASSUME TypeOK, NEW u \in Txns, Fits(u), Edit \/ Tick \/ UNCHANGED vars
  PROVE  Fits(u)'
<1>1. UNCHANGED <<discrepancies, transitions, reviews, pc, job>>
  BY EditsLeave DEF vars
<1>2. now \in Nat /\ now' \in Nat /\ now <= now'
  <2>1. now' = now \/ now' = now + 1
    BY DEF Edit, Tick, Withdraw, AddEvidence, CommitEvidence, LoseEvidence, RemoveEvidence, Associate, Dissociate, vars
  <2> QED BY <2>1, WorkflowAssumption DEF TypeOK, StoreOK
<1>3. /\ Existing' = Existing
      /\ AlreadyResolved(job[u].discrepancy)' <=> AlreadyResolved(job[u].discrepancy)
      /\ OpeningsOf(job[u].discrepancy)' = OpeningsOf(job[u].discrepancy)
  BY <1>1 DEF Existing, AlreadyResolved, OpeningsOf
<1>4. pc[u] \in {"open_commit", "resolve_commit"} => job[u].made.at \in Nat
  BY WorkflowAssumption DEF TypeOK, TxnsOK, JobAt, OpenedJobs, SaveJobs, TransitionRows
<1>5. pc[u] \in {"admin_notice", "admin_update"} => job[u].at \in Nat
  BY WorkflowAssumption DEF TypeOK, TxnsOK, JobAt, FormJobs
<1> QED BY <1>1, <1>2, <1>3, <1>4, <1>5 DEF Fits

LEMMA StepFits ==
  ASSUME TypeOK, AllHold, RecordsAgree, AllFit, KeysDiffer, [Next]_vars
  PROVE  AllFit'
<1> SUFFICES ASSUME NEW u \in Txns PROVE Fits(u)' BY DEF AllFit
<1>0. Fits(u) BY DEF AllFit
<1>1. ASSUME NEW t \in Txns, Moves(t) PROVE Fits(u)'
  <2>1. CASE u = t BY <1>0, <1>1, <2>1, MoverFits
  <2>2. CASE u # t BY <1>1, <2>2, OthersFit
  <2> QED BY <2>1, <2>2
<1> QED BY <1>0, <1>1, EditFits DEF Next, Moves

-----------------------------------------------------------------------------
(* The publication's gate. *)

\* A gate covers what was open when it was read.
LEMMA MoverSaw ==
  ASSUME TypeOK, RecordsAgree, NEW t \in Txns, GateSaw(t), Moves(t)
  PROVE  GateSaw(t)'
<1> SUFFICES ASSUME pc'[t] = "publish_gate" PROVE GateSaw(t)' BY DEF GateSaw
<1> USE DEF TypeOK, TxnsOK
<1>1. ~Finish(t) BY FinishFrees
<1>2. PublishGate(t) \/ \E r \in Rows : LockNext(t, r)
  <2>1. CASE Continue(t)
    BY <1>1, <2>1
    DEF Continue, Rollback, OpenRefuse, OpenCommit, AdminRefuse, DiscrepancyCommit, ReviewRefuse,
        ReviewCommit, PublishDecide, OpenRecord, AdminNotice, AdminUpdate, ReviewRecord, PublishGraph
  <2>2. CASE Start(t)
    BY <2>2 DEF Start, Begin, OpenBegin, AdminOpen, ResolveRecord, AdminRead, ReviewBegin, PublishBegin
  <2> QED BY <1>1, <2>1, <2>2 DEF Moves, Crash, Rollback
<1>3. CASE PublishGate(t)
  <2>1. job'[t].gate = Open /\ UNCHANGED <<discrepancies, transitions>>
    BY <1>3 DEF PublishGate, store
  <2>2. \A d \in Existing \ Open : AlreadyResolved(d)
    BY DEF RecordsAgree, Existing, Open, StoreOK, DiscrepancyRows
  <2> QED BY <2>1, <2>2 DEF GateSaw, Existing, AlreadyResolved
<1>4. ASSUME NEW r \in Rows, LockNext(t, r) PROVE GateSaw(t)'
  BY <1>4 DEF LockNext, store, GateSaw, Existing, AlreadyResolved, OwnersOf
<1> QED BY <1>2, <1>3, <1>4

LEMMA StepSaw ==
  ASSUME TypeOK, AllHold, RecordsAgree, RecordsAgree', AllFit, AllSaw, [Next]_vars
  PROVE  AllSaw'
<1> SUFFICES ASSUME NEW u \in Txns PROVE GateSaw(u)' BY DEF AllSaw
<1>1. CASE Moves(u) BY <1>1, MoverSaw DEF AllSaw
<1>2. CASE ~Moves(u)
  <2>1. pc'[u] = pc[u] /\ job'[u] = job[u]
    BY <1>2, OthersStay, EditsLeave DEF Next, Moves, vars
  <2> SUFFICES ASSUME pc[u] = "publish_gate", NEW d \in Existing' \ job[u].gate,
                      job[u].version \in OwnersOf(discrepancies[d].anchor)'
               PROVE  AlreadyResolved(d)'
    BY <2>1 DEF GateSaw, OwnersOf
  <2>2. PICK v \in Versions : v = job[u].version
    BY DEF TypeOK, TxnsOK, JobAt, GateJobs
  <2>3. lock[v] = u /\ \A r \in ItemsOf(v) \cup MaterialOf(v) : lock[r] = u
    BY <2>2 DEF AllHold, Holds
  <2> DEFINE l == discrepancies'[d].anchor
  <2>4. l \in evidence' /\ v \in owners'[SubjectOf[l]]
    BY <2>1, <2>2 DEF RecordsAgree, OwnersOf
  <2>5. l \in evidence /\ v \in owners[SubjectOf[l]]
    <3>1. ASSUME NEW t \in Txns, Moves(t) PROVE UNCHANGED <<owners, evidence>>
      BY <3>1, MovesStore
    <3>2. CASE Edit \/ Tick
      <4>1. MaterialOf(v)' \subseteq MaterialOf(v)
        BY <2>2, <2>3, <3>2, MaterialShrinks
      <4>2. l \in MaterialOf(v)' BY <2>4 DEF MaterialOf, OwnersOf
      <4> QED BY <4>1, <4>2 DEF MaterialOf, OwnersOf
    <3> QED BY <2>4, <3>1, <3>2 DEF Next, Moves, vars
  <2>6. CASE d \in Existing
    <3>1. l = discrepancies[d].anchor BY <2>6, RecordsGrow
    <3>2. AlreadyResolved(d) BY <2>2, <2>5, <2>6, <3>1 DEF AllSaw, GateSaw, OwnersOf
    <3> QED BY <2>6, <3>2, RecordsGrow
  <2>7. CASE d \notin Existing
    <3>1. PICK t \in Txns : Moves(t)
      BY <2>7, EditsLeave DEF Next, Moves, vars, Existing
    <3>2. OpenCommit(t) /\ Fits(t)
      BY <2>7, <3>1, MovesStore, SaveCommits DEF Existing, AllFit
    <3>3. l = job[t].anchor
      <4>1. d \in Existing' /\ Existing' # Existing BY <2>7
      <4>2. ~UNCHANGED <<discrepancies, transitions>> BY <4>1 DEF Existing
      <4>3. d = job[t].discrepancy /\ discrepancies'[d] = RowOf(job[t])
        BY <2>7, <3>2, <4>1, <4>2, OpenCommits
      <4> QED BY <4>3 DEF RowOf
    <3>4. lock[l] \in {None, t} BY <3>2, <3>3 DEF OpenCommit
    <3>5. lock[l] = u BY <2>3, <2>5 DEF MaterialOf, OwnersOf
    <3> QED BY <1>2, <3>1, <3>4, <3>5, WorkflowAssumption
  <2> QED BY <2>6, <2>7
<1> QED BY <1>1, <1>2

LEMMA GateHolds ==
  ASSUME TypeOK, AllSaw, [Next]_vars, NEW v \in Versions,
         state[v] = "draft", state'[v] = "published", NEW d \in Disputes(v, Open)
  PROVE  AlreadyResolved(d)
<1>1. PICK t \in Txns : PublishDecide(t)
  <2>1. ASSUME NEW t \in Txns, Moves(t) PROVE PublishDecide(t)
    BY <2>1, MovesStore
  <2>2. ASSUME NEW w \in Versions, Withdraw(w) PROVE FALSE
    BY <2>2 DEF Withdraw, TypeOK, StoreOK
  <2>3. CASE Edit \/ Tick \/ UNCHANGED vars
    BY <2>2, <2>3 DEF Edit, Tick, AddEvidence, CommitEvidence, LoseEvidence, RemoveEvidence, Associate, Dissociate, vars, store
  <2> QED BY <2>1, <2>3 DEF Next, Moves
<1>2. job[t].version \in Versions /\ pc[t] = "publish_gate"
  BY <1>1 DEF PublishDecide, TypeOK, TxnsOK, JobAt, GateJobs
<1>3. job[t].version = v /\ Disputes(v, job[t].gate \cap Open) = {}
  BY <1>1, <1>2 DEF PublishDecide, TypeOK, StoreOK
<1>4. d \in Existing \ job[t].gate /\ v \in OwnersOf(discrepancies[d].anchor)
  BY <1>3 DEF Disputes, Open
<1> QED BY <1>2, <1>3, <1>4 DEF AllSaw, GateSaw

-----------------------------------------------------------------------------
(* Reverifications. *)

LEMMA MoverStands ==
  ASSUME TypeOK, NEW t \in Txns, Stands(t), Moves(t)
  PROVE  Stands(t)'
<1> USE DEF TypeOK, TxnsOK
<1>1. CASE pc'[t] \notin {"review_lock", "review_commit"} BY <1>1 DEF Stands
<1>2. ASSUME NEW l \in Links, NEW o \in Outcomes, NEW dates \in ReviewDates,
             NEW successor \in {{}} \cup {{v} : v \in Versions},
             ReviewBegin(t, l, o, dates, successor)
      PROVE  Stands(t)'
  <2>1. /\ pc'[t] = "review_lock" /\ job'[t].subject = SubjectOf[l]
        /\ job'[t].links = EvidenceOf(SubjectOf[l]) /\ l \in evidence
    BY <1>2 DEF ReviewBegin, Begin
  <2> QED BY <2>1 DEF Stands, EvidenceOf
<1>3. ASSUME NEW r \in Rows, LockNext(t, r), pc'[t] \in {"review_lock", "review_commit"}
      PROVE  Stands(t)'
  BY <1>3 DEF LockNext, Stands
<1>4. CASE ReviewRecord(t)
  <2> DEFINE j == job[t]
  <2>1. /\ pc[t] = "review_lock" /\ Wanted(t) = {} /\ ~Moved(t) /\ Complete(t)
        /\ Public(j.subject)
        /\ \A v \in j.successor : state[v] = "draft" /\ v \notin j.owners
        /\ pc'[t] = "review_commit" /\ UNCHANGED <<lock, state, owners, evidence>>
        /\ job'[t].made.subject = j.subject /\ job'[t].made.links = j.links
        /\ job'[t].made.successor = j.successor
    BY <1>4 DEF ReviewRecord, ReviewStands, store
  <2>2. j.links = EvidenceOf(j.subject) BY <2>1 DEF Complete
  <2>3. owners[j.subject] = j.owners
    <3>1. PICK l \in j.links : SubjectOf[l] = j.subject BY <2>1 DEF Stands
    <3> QED BY <2>1, <3>1 DEF Moved, OwnersOf
  <2>4. \A v \in j.successor : lock[v] = t
    BY <2>1, AllLocked DEF NeededRows
  <2>5. job'[t].made.links = EvidenceOf(job[t].made.subject)' /\ Public(job[t].made.subject)'
    BY <2>1, <2>2 DEF EvidenceOf, Public
  <2> QED BY <2>1, <2>3, <2>4, <2>5 DEF Stands
<1>5. pc'[t] \in {"review_lock", "review_commit"} =>
        \/ ReviewRecord(t)
        \/ \E r \in Rows : LockNext(t, r)
        \/ \E l \in Links, o \in Outcomes, dates \in ReviewDates,
              successor \in {{}} \cup {{v} : v \in Versions} : ReviewBegin(t, l, o, dates, successor)
  <2> SUFFICES ASSUME pc'[t] \in {"review_lock", "review_commit"}
               PROVE  \/ ReviewRecord(t)
                      \/ \E r \in Rows : LockNext(t, r)
                      \/ \E l \in Links, o \in Outcomes, dates \in ReviewDates,
                            successor \in {{}} \cup {{v} : v \in Versions} :
                              ReviewBegin(t, l, o, dates, successor)
    OBVIOUS
  <2>1. ~Finish(t) BY FinishFrees
  <2>2. CASE Continue(t)
    BY <2>1, <2>2
    DEF Continue, Rollback, OpenRefuse, OpenCommit, AdminRefuse, DiscrepancyCommit, ReviewRefuse,
        ReviewCommit, PublishDecide, OpenRecord, AdminNotice, AdminUpdate, PublishGraph, PublishGate
  <2>3. CASE Start(t)
    <3>1. ASSUME NEW at, at \notin {"review_lock", "review_commit"}, NEW what, Begin(t, at, what)
          PROVE  FALSE
      BY <3>1 DEF Begin
    <3> QED BY <2>3, <3>1 DEF Start, OpenBegin, AdminOpen, ResolveRecord, AdminRead, PublishBegin
  <2> QED BY <2>1, <2>2, <2>3 DEF Moves, Crash, Rollback
<1> QED BY <1>1, <1>2, <1>3, <1>4, <1>5

\* An item that something public uses keeps its evidence, and that use; what comes
\* is noted for the reverifications that have read it.
LEMMA StandingKept ==
  ASSUME TypeOK, NEW u \in Txns, Edit \/ Tick, NEW s \in Subjects, u \in ReviewsOf(s),
         NEW L, L \subseteq EvidenceOf(s), EvidenceOf(s) \ L \subseteq late[u], Public(s),
         NEW S \in SUBSET Versions,
         \A v \in S : lock[v] = u /\ state[v] = "draft" /\ v \notin owners[s]
  PROVE  /\ L \subseteq EvidenceOf(s)' /\ EvidenceOf(s)' \ L \subseteq late'[u] /\ Public(s)'
         /\ \A v \in S : lock'[v] = u /\ state'[v] = "draft" /\ v \notin owners'[s]
<1> USE DEF TypeOK, StoreOK
<1>1. lock' = lock /\ \A v \in S : lock[v] # None BY EditsLeave, WorkflowAssumption
<1>2. ~Draft(s) BY DEF Draft, Public
<1>3. ASSUME NEW v \in Versions, Withdraw(v)
      PROVE  /\ EvidenceOf(s)' = EvidenceOf(s) /\ owners' = owners /\ late' = late /\ Public(s)'
             /\ \A w \in Versions : (state'[w] = "draft") = (state[w] = "draft")
  BY <1>3 DEF Withdraw, EvidenceOf, Public
<1>4. ASSUME NEW l \in Links, AddEvidence(l) \/ LoseEvidence(l) \/ RemoveEvidence(l)
      PROVE  EvidenceOf(s)' = EvidenceOf(s) /\ owners' = owners /\ state' = state /\ late' = late
  BY <1>2, <1>4 DEF AddEvidence, LoseEvidence, RemoveEvidence, EvidenceOf
<1>5. ASSUME NEW w \in Versions, NEW q \in Subjects, Associate(w, q) \/ Dissociate(w, q)
      PROVE  /\ EvidenceOf(s)' = EvidenceOf(s) /\ state' = state /\ late' = late /\ Public(s)'
             /\ \A v \in S : v \notin owners'[s]
  BY <1>1, <1>5 DEF Associate, Dissociate, EvidenceOf, Public
<1>6. CASE Tick BY <1>1, <1>6 DEF Tick, store, EvidenceOf, Public
<1>7. ASSUME NEW l \in Links, CommitEvidence(l)
      PROVE  /\ L \subseteq EvidenceOf(s)' /\ EvidenceOf(s)' \ L \subseteq late'[u]
             /\ owners' = owners /\ state' = state
  <2>1. /\ evidence' = evidence \cup {l} /\ owners' = owners /\ state' = state
        /\ late' = IF Public(SubjectOf[l])
                   THEN [t \in Txns |-> IF t \in ReviewsOf(SubjectOf[l]) THEN late[t] \cup {l} ELSE late[t]]
                   ELSE late
    BY <1>7 DEF CommitEvidence
  <2>2. late[u] \subseteq late'[u] BY <2>1
  <2>3. SubjectOf[l] = s => l \in late'[u] BY <2>1
  <2> QED BY <2>1, <2>2, <2>3 DEF EvidenceOf
<1>8. CASE \E l \in Links : CommitEvidence(l) BY <1>1, <1>7, <1>8 DEF Public
<1>9. CASE \E l \in Links : AddEvidence(l) \/ LoseEvidence(l) \/ RemoveEvidence(l)
  BY <1>1, <1>4, <1>9 DEF Public
<1>10. CASE \E v \in Versions : Withdraw(v) BY <1>1, <1>3, <1>10
<1>11. CASE \E v \in Versions, q \in Subjects : Associate(v, q) \/ Dissociate(v, q)
  BY <1>1, <1>5, <1>11
<1> QED BY <1>6, <1>8, <1>9, <1>10, <1>11 DEF Edit

LEMMA StepStands ==
  ASSUME TypeOK, AllHold, AllStand, [Next]_vars
  PROVE  AllStand'
<1> SUFFICES ASSUME NEW u \in Txns PROVE Stands(u)' BY DEF AllStand
<1>0. Stands(u) BY DEF AllStand
<1>1. CASE Moves(u) BY <1>0, <1>1, MoverStands
<1>2. CASE ~Moves(u)
  <2>1. pc'[u] = pc[u] /\ job'[u] = job[u]
    BY <1>2, OthersStay, EditsLeave DEF Next, Moves, vars
  <2>2. CASE pc[u] # "review_commit" BY <1>0, <2>1, <2>2 DEF Stands
  <2>3. CASE pc[u] = "review_commit"
    <3>1. job[u].made \in ReviewRows BY <2>3 DEF TypeOK, TxnsOK, JobAt, ReviewedJobs
    <3>2. PICK s \in Subjects : s = job[u].made.subject BY <3>1 DEF ReviewRows
    <3>3. PICK S \in SUBSET Versions : S = job[u].made.successor BY <3>1 DEF ReviewRows
    <3>4. PICK L \in SUBSET Links : L = job[u].made.links BY <3>1 DEF ReviewRows
    <3>5. /\ L \subseteq EvidenceOf(s) /\ EvidenceOf(s) \ L \subseteq late[u] /\ Public(s)
          /\ \A v \in S : lock[v] = u /\ state[v] = "draft" /\ v \notin owners[s]
      BY <1>0, <2>3, <3>2, <3>3, <3>4 DEF Stands
    <3>6. /\ L \subseteq EvidenceOf(s)' /\ EvidenceOf(s)' \ L \subseteq late'[u] /\ Public(s)'
          /\ \A v \in S : lock'[v] = u /\ state'[v] = "draft" /\ v \notin owners'[s]
      <4>1. CASE Edit \/ Tick
        <5>1. u \in ReviewsOf(s) BY <2>3, <3>2 DEF ReviewsOf
        <5> QED BY <3>5, <4>1, <5>1, StandingKept
      <4>2. ASSUME NEW t \in Txns, Moves(t)
            PROVE  /\ L \subseteq EvidenceOf(s)' /\ EvidenceOf(s)' \ L \subseteq late'[u] /\ Public(s)'
                   /\ \A v \in S : lock'[v] = u /\ state'[v] = "draft" /\ v \notin owners'[s]
        <5>1. t # u /\ UNCHANGED <<owners, evidence>> BY <1>2, <4>2, MovesStore
        <5>2. late'[u] = late[u] /\ \A v \in S : lock'[v] = u
          BY <3>5, <4>2, <5>1, OthersStay DEF Rows, Ranked
        <5>3. \A v \in Versions : state'[v] # state[v] => state'[v] = "published" /\ lock[v] = t
          <6>1. CASE state' = state BY <6>1
          <6>2. CASE PublishDecide(t)
            <7>1. pc[t] = "publish_gate" BY <6>2 DEF PublishDecide
            <7>2. lock[job[t].version] = t BY <7>1 DEF AllHold, Holds
            <7> QED BY <6>2, <7>2 DEF PublishDecide, TypeOK, StoreOK
          <6> QED BY <4>2, <6>1, <6>2, MovesStore
        <5>4. \A v \in S : state'[v] = "draft" BY <3>5, <5>1, <5>3
        <5>5. Public(s)'
          BY <3>5, <5>1, <5>3 DEF TypeOK, StoreOK, Public
        <5> QED BY <3>5, <5>1, <5>2, <5>4, <5>5 DEF EvidenceOf
      <4>3. CASE UNCHANGED vars BY <3>5, <4>3 DEF vars, EvidenceOf, Public
      <4> QED BY <4>1, <4>2, <4>3 DEF Next, Moves
    <3>7. EvidenceOf(job[u].made.subject)' = EvidenceOf(s)' /\ Public(job[u].made.subject)' = Public(s)'
      BY <2>1, <3>2 DEF EvidenceOf, Public
    <3> QED BY <2>1, <2>3, <3>2, <3>3, <3>4, <3>6, <3>7 DEF Stands
  <2> QED BY <2>2, <2>3
<1> QED BY <1>1, <1>2

LEMMA ReviewsStand ==
  ASSUME AllStand, NEW t \in Txns, pc[t] = "review_commit", NEW r, r = job[t].made
  PROVE  /\ r.links \subseteq EvidenceOf(r.subject)
         /\ EvidenceOf(r.subject) \ r.links \subseteq late[t]
         /\ Public(r.subject)
         /\ \A v \in r.successor : state[v] = "draft" /\ v \notin owners[r.subject]
  BY DEF AllStand, Stands

-----------------------------------------------------------------------------
(* The invariant of the records, and what follows from it. *)

RecordsInv ==
  TypeOK /\ AllHold /\ RecordsAgree /\ AllFit /\ KeysDiffer /\ AllSaw /\ AllStand

LEMMA InitInv == Init => RecordsInv
<1> SUFFICES ASSUME Init PROVE RecordsInv OBVIOUS
<1>1. TypeOK /\ AllHold BY InitTypeOK, InitHolds
<1>2. Existing = {} BY DEF Init, Existing
<1>3. \A t \in Txns : pc[t] = "idle" BY DEF Init
<1>4. RecordsAgree BY <1>2 DEF RecordsAgree, Init
<1> QED
  BY <1>1, <1>3, <1>4
  DEF RecordsInv, AllFit, Fits, KeysDiffer, AllSaw, GateSaw, AllStand, Stands

LEMMA StepInv == RecordsInv /\ [Next]_vars => RecordsInv'
<1> SUFFICES ASSUME RecordsInv, [Next]_vars PROVE RecordsInv' OBVIOUS
<1> USE DEF RecordsInv
<1>1. TypeOK' /\ AllHold' /\ RecordsAgree'
  BY NextTypeOK, StepHolds, StepRecords
<1> QED BY <1>1, StepFits, StepKeys, StepSaw, StepStands

LEMMA RecordsHold == Spec => []RecordsInv
  BY InitInv, StepInv, PTL DEF Spec

(* The gate reads and locks the open discrepancies after the publisher has the
   material of its version, so that one opened behind it has to wait, and one
   that a form reopens has its resolution on record.                         *)
THEOREM GateKeepsOut == Spec => NothingDisputedIsPublished
<1> DEFINE Step == \A v \in Versions : state[v] = "draft" /\ state'[v] = "published" =>
                     \A d \in Disputes(v, Open) : AlreadyResolved(d)
<1>1. RecordsInv /\ [Next]_vars => Step
  BY GateHolds DEF RecordsInv
<1>2. RecordsInv /\ [Next]_vars => [Step]_vars
  BY <1>1
<1> QED BY <1>2, RecordsHold, PTL DEF Spec, NothingDisputedIsPublished

(* What a reverification read before it had its locks still holds when it is
   recorded: the evidence is its item's, and all that the item had when it was
   read again; the item is public, the successor a draft.                    *)
THEOREM ReviewsStandOnEvidence == Spec => ReverificationsStand
<1> DEFINE Step == \A t \in Txns : LET r == job[t].made IN
                     pc[t] = "review_commit" /\ r \in reviews' \ reviews =>
                     /\ r.links \subseteq EvidenceOf(r.subject)
                     /\ EvidenceOf(r.subject) \ r.links \subseteq late[t]
                     /\ Public(r.subject)
                     /\ \A v \in r.successor : state[v] = "draft" /\ v \notin owners[r.subject]
<1>1. RecordsInv /\ [Next]_vars => Step
  BY ReviewsStand DEF RecordsInv
<1>2. RecordsInv /\ [Next]_vars => [Step]_vars
  BY <1>1
<1> QED BY <1>2, RecordsHold, PTL DEF Spec, ReverificationsStand

-----------------------------------------------------------------------------
(* The abstract history. *)

\* A transition keeps the event it stands for.
LEMMA EventsStay ==
  ASSUME RecordsInv, [Next]_vars, NEW e \in transitions
  PROVE  EventOf(e)' = EventOf(e)
  BY RecordsGrow DEF RecordsInv, RecordsAgree, EventOf

LEMMA EventFields ==
  ASSUME NEW e
  PROVE  /\ EventOf(e).kind = e.kind /\ EventOf(e).discrepancy = e.discrepancy
         /\ EventOf(e).at = e.at /\ EventOf(e).pk = e.pk
         /\ EventOf(e).subject = SubjectOf[discrepancies[e.discrepancy].anchor]
  BY DEF EventOf

\* The replayed transitions are those of the table.
LEMMA HistoryTransitions ==
  ASSUME TypeOK
  PROVE  /\ EventHistory!Transitions = {EventOf(e) : e \in transitions}
         /\ EventHistory!Reviews = {ReviewEventOf(r) : r \in {q \in reviews : q.successor = {}}}
<1>1. \A e \in transitions : EventOf(e).kind # "review"
  BY DEF TypeOK, StoreOK, TransitionRows, EventOf
<1>2. \A r \in reviews : ReviewEventOf(r).kind = "review"
  BY DEF ReviewEventOf
<1> QED BY <1>1, <1>2 DEF EventHistory!Transitions, EventHistory!Reviews, Captured

\* What a step adds to the events.
LEMMA CapturedStep ==
  ASSUME RecordsInv, RecordsInv', [Next]_vars
  PROVE  \/ Captured' = Captured
         \/ \E t \in Txns : \E e \in transitions' :
              /\ OpenCommit(t) \/ (DiscrepancyCommit(t) /\ pc[t] = "resolve_commit")
              /\ e = job[t].made /\ transitions' = transitions \cup {e} /\ e \notin transitions
              /\ Captured' = Captured \cup {EventOf(e)'}
         \/ \E t \in Txns : /\ ReviewCommit(t) /\ job[t].made.successor = {}
                            /\ Captured' = Captured \cup {ReviewEventOf(job[t].made)}
<1> DEFINE Old == {EventOf(e) : e \in transitions}
           OldReviews == {ReviewEventOf(r) : r \in {q \in reviews : q.successor = {}}}
<1>1. \A e \in transitions : EventOf(e)' = EventOf(e)
  BY EventsStay
<1>2. ASSUME transitions' = transitions PROVE Old' = Old
  BY <1>1, <1>2
<1>3. ASSUME reviews' = reviews PROVE OldReviews' = OldReviews
  BY <1>3 DEF ReviewEventOf
<1>4. Captured = Old \cup OldReviews /\ Captured' = Old' \cup OldReviews'
  BY DEF Captured
<1>5. CASE transitions' = transitions /\ reviews' = reviews
  BY <1>2, <1>3, <1>4, <1>5
<1>6. CASE ~(transitions' = transitions /\ reviews' = reviews)
  <2>1. PICK t \in Txns : Moves(t)
    BY <1>6, EditsLeave DEF Next, Moves, vars
  <2>2. CASE ReviewCommit(t)
    <3>1. transitions' = transitions /\ reviews' = reviews \cup {job[t].made}
      BY <2>2 DEF ReviewCommit
    <3>2. Old' = Old BY <1>2, <3>1
    <3>3. OldReviews' = OldReviews \cup
            (IF job[t].made.successor = {} THEN {ReviewEventOf(job[t].made)} ELSE {})
      BY <3>1 DEF ReviewEventOf
    <3> QED BY <1>4, <2>2, <3>2, <3>3
  <2>3. CASE ~ReviewCommit(t)
    <3>1. reviews' = reviews BY <2>1, <2>3, MovesStore
    <3>2. OpenCommit(t) \/ DiscrepancyCommit(t)
      BY <1>6, <2>1, <3>1, MovesStore
    <3>3. OpenCommit(t) \/ (DiscrepancyCommit(t) /\ pc[t] = "resolve_commit")
      BY <1>6, <3>1, <3>2, SaveCommits DEF RecordsInv
    <3>4. PICK e \in transitions' : e = job[t].made /\ transitions' = transitions \cup {e}
      <4>1. CASE OpenCommit(t)
        BY <1>6, <3>1, <4>1, OpenCommits DEF RecordsInv, AllFit
      <4>2. CASE DiscrepancyCommit(t)
        BY <1>6, <3>1, <4>2, SaveCommits DEF RecordsInv
      <4> QED BY <3>2, <4>1, <4>2
    <3>6. Old' = Old \cup {EventOf(e)'}
      BY <1>1, <3>4
    <3>7. e \notin transitions BY <1>6, <3>1, <3>4
    <3>5. OldReviews' = OldReviews BY <1>3, <3>1
    <3> QED BY <1>4, <3>3, <3>4, <3>5, <3>6, <3>7
  <2> QED BY <2>2, <2>3
<1> QED BY <1>5, <1>6

LEMMA OpeningIsOpen ==
  ASSUME RecordsInv, [Next]_vars, NEW t \in Txns, OpenCommit(t), NEW e \in transitions',
         e = job[t].made, transitions' = transitions \cup {e}, e \notin transitions,
         Captured' = Captured \cup {EventOf(e)'}
  PROVE  EventHistory!HistoryNext
<1> USE DEF RecordsInv
<1>1. /\ job[t] \in OpenedJobs /\ job[t].discrepancy \notin Existing
      /\ job[t].anchor \in evidence
      /\ discrepancies' = [discrepancies EXCEPT ![job[t].discrepancy] =
                             [anchor |-> job[t].anchor, links |-> job[t].links,
                              status |-> "open", outcome |-> job[t].outcome]]
  <2>1. Fits(t) BY DEF AllFit
  <2> QED BY <2>1, OpenCommits DEF OpenCommit
<1>2. /\ e \in TransitionRows(1 .. MaxTransitions) /\ e.kind = "opened"
      /\ e.state \in Outcomes \cap OpenOutcomes /\ e.discrepancy = job[t].discrepancy
      /\ job[t].anchor \in Links
  BY <1>1 DEF OpenedJobs
<1>3. SubjectOf[discrepancies'[e.discrepancy].anchor] = SubjectOf[job[t].anchor]
  BY <1>1, <1>2 DEF TypeOK, StoreOK, TransitionRows
<1>4. PICK s \in Subjects : s = SubjectOf[job[t].anchor] BY <1>2, WorkflowAssumption
<1>5. PICK d \in Discrepancies : d = e.discrepancy BY <1>2 DEF TransitionRows
<1>6. EventOf(e)' = [kind |-> "opened", subject |-> s, discrepancy |-> d, state |-> e.state,
                     at |-> e.at, pk |-> e.pk]
  BY <1>2, <1>3, <1>4, <1>5 DEF EventOf
<1>7. EventHistory!Opened(d) = {}
  <2>1. \A f \in transitions : f.discrepancy # d
    BY <1>1, <1>2, <1>5 DEF RecordsAgree
  <2> QED BY <2>1, HistoryTransitions, EventFields DEF EventHistory!Opened
<1>8. EventHistory!Fresh(e.pk, EventHistory!Transitions)
  <2>1. \A f \in transitions : f.pk # e.pk BY DEF AllFit, Fits, OpenCommit
  <2> QED BY <2>1, HistoryTransitions, EventFields DEF EventHistory!Fresh
<1>9. EventHistory!Open(s, d, e.state, e.at, e.pk)
  BY <1>2, <1>6, <1>7, <1>8
  DEF EventHistory!Open, EventHistory!Record, EventHistory!OpenOutcomes, OpenOutcomes
<1> QED BY <1>2, <1>9 DEF EventHistory!HistoryNext, TransitionRows

LEMMA ResolutionResolves ==
  ASSUME RecordsInv, [Next]_vars, NEW t \in Txns, DiscrepancyCommit(t), pc[t] = "resolve_commit",
         NEW e \in transitions', e = job[t].made, transitions' = transitions \cup {e},
         e \notin transitions, Captured' = Captured \cup {EventOf(e)'}
  PROVE  EventHistory!HistoryNext
<1> USE DEF RecordsInv
<1>1. job[t] \in SaveJobs /\ job[t].discrepancy \in Existing
  BY SaveCommits
<1>2. /\ e \in TransitionRows(1 .. MaxTransitions) /\ e.kind = "resolved"
      /\ e.discrepancy = job[t].discrepancy
  BY <1>1 DEF SaveJobs, TypeOK, TxnsOK, JobAt, TransitionRows
<1>3. PICK d \in Discrepancies : d = e.discrepancy /\ d \in Existing
  BY <1>1, <1>2 DEF Existing
<1>4. discrepancies'[d].anchor = discrepancies[d].anchor
  BY <1>3, RecordsGrow
<1>5. PICK o \in transitions : o.kind = "opened" /\ o.discrepancy = d
  BY <1>3 DEF RecordsAgree
<1>6. /\ ~AlreadyResolved(d) /\ o.at <= e.at /\ o.pk < e.pk
      /\ \A f \in transitions : f.pk # e.pk
  BY <1>2, <1>3, <1>5 DEF AllFit, Fits, OpeningsOf
<1>7. EventOf(o).subject = SubjectOf[discrepancies[d].anchor] BY <1>5, EventFields
<1>8. EventOf(e)' = [kind |-> "resolved", subject |-> EventOf(o).subject, discrepancy |-> d,
                     state |-> e.state, at |-> e.at, pk |-> e.pk]
  BY <1>2, <1>3, <1>4, <1>7 DEF EventOf
<1>9. EventOf(o) \in EventHistory!Opened(d) /\ EventHistory!Resolved(d) = {}
  BY <1>5, <1>6, HistoryTransitions, EventFields
  DEF EventHistory!Opened, EventHistory!Resolved, AlreadyResolved
<1>10. EventHistory!Fresh(e.pk, EventHistory!Transitions)
  BY <1>6, HistoryTransitions, EventFields DEF EventHistory!Fresh
<1>11. e.at >= EventOf(o).at /\ e.pk > EventOf(o).pk
  BY <1>2, <1>5, <1>6, OpeningType, EventFields DEF TransitionRows
<1>12. EventHistory!Resolve(d, e.state, e.at, e.pk)
  BY <1>8, <1>9, <1>10, <1>11 DEF EventHistory!Resolve, EventHistory!Record
<1> QED BY <1>2, <1>12 DEF EventHistory!HistoryNext, TransitionRows

LEMMA ReviewReviews ==
  ASSUME RecordsInv, NEW t \in Txns, ReviewCommit(t),
         Captured' = Captured \cup {ReviewEventOf(job[t].made)}
  PROVE  EventHistory!HistoryNext
<1> USE DEF RecordsInv
<1>1. PICK r \in ReviewRows : r = job[t].made
  BY DEF ReviewCommit, TypeOK, TxnsOK, JobAt, ReviewedJobs
<1>2. /\ r.subject \in Subjects /\ r.state \in Outcomes /\ r.at \in 0 .. MaxNow
      /\ r.pk \in 1 .. MaxReviews /\ (r.reverifyOn # None => r.verifiedOn <= r.reverifyOn)
      /\ \E d \in ReviewDates : d.verifiedOn = r.verifiedOn
      /\ \E d \in ReviewDates : d.reverifyOn = r.reverifyOn
  BY DEF ReviewRows
<1>3. EventHistory!Fresh(r.pk, EventHistory!Reviews)
  <2>1. \A q \in reviews : q.pk # r.pk BY <1>1 DEF AllFit, Fits, ReviewCommit
  <2> QED BY <2>1, HistoryTransitions DEF EventHistory!Fresh, ReviewEventOf
<1>4. EventHistory!Review(r.subject, r.state, r.verifiedOn, r.reverifyOn, r.at, r.pk)
  BY <1>1, <1>2, <1>3 DEF EventHistory!Review, EventHistory!Record, ReviewEventOf
<1> DEFINE Dates == UNION {{d.verifiedOn, d.reverifyOn} : d \in ReviewDates}
<1>5. r.verifiedOn \in Dates \ {None} /\ r.reverifyOn \in Dates
  BY <1>2, WorkflowAssumption
<1> QED BY <1>2, <1>4, <1>5 DEF EventHistory!HistoryNext

(* Whatever the order in which transactions take their keys, wait and commit, the
   tables grow by openings of new discrepancies, by one resolution of an opened
   one that is not before its opening, and by reviews of a proper deadline.     *)
THEOREM HistoryImplemented == Spec => ImplementsHistory
<1>1. ASSUME Init PROVE EventHistory!HistoryInit
  BY <1>1 DEF Init, EventHistory!HistoryInit, Captured
<1>2. ASSUME RecordsInv, RecordsInv', [Next]_vars
      PROVE  EventHistory!HistoryNext \/ UNCHANGED EventHistory!historyVars
  <2>1. CASE Captured' = Captured BY <2>1 DEF EventHistory!historyVars
  <2>2. ASSUME NEW t \in Txns, NEW e \in transitions',
               OpenCommit(t) \/ (DiscrepancyCommit(t) /\ pc[t] = "resolve_commit"),
               e = job[t].made /\ transitions' = transitions \cup {e} /\ e \notin transitions,
               Captured' = Captured \cup {EventOf(e)'}
        PROVE  EventHistory!HistoryNext
    BY <1>2, <2>2, OpeningIsOpen, ResolutionResolves
  <2>3. ASSUME NEW t \in Txns, ReviewCommit(t),
               Captured' = Captured \cup {ReviewEventOf(job[t].made)}
        PROVE  EventHistory!HistoryNext
    BY <1>2, <2>3, ReviewReviews
  <2> QED BY <1>2, <2>1, <2>2, <2>3, CapturedStep
<1> QED BY <1>1, <1>2, RecordsHold, PTL DEF Spec, ImplementsHistory, EventHistory!HistorySpec

-----------------------------------------------------------------------------
(* What has been shown of a day that is over. *)

LEMMA DayIsInteger == \A at \in Nat : Day(at) \in Int
  BY DayAssumption DEF Day

\* The events of an item up to a day.
PastOf(s, day) == AsOf({e \in Captured : e.subject = s}, day)

LEMMA NewEventIsPending ==
  ASSUME RecordsInv, RecordsInv', [Next]_vars
  PROVE  /\ Captured \subseteq Captured'
         /\ \A e \in Captured' \ Captured : Day(e.at) \in PendingDays /\ Day(e.at) \in Int
<1> USE DEF RecordsInv
<1>1. ASSUME NEW t \in Txns, pc[t] \in {"open_commit", "resolve_commit", "review_commit"}
      PROVE  Day(job[t].made.at) \in PendingDays /\ Day(job[t].made.at) \in Int
  <2>1. job[t].made \in Pending BY <1>1 DEF Pending, Made
  <2>2. job[t].made.at \in 0 .. MaxNow
    BY <1>1 DEF TypeOK, TxnsOK, JobAt, OpenedJobs, SaveJobs, ReviewedJobs, TransitionRows, ReviewRows
  <2>3. job[t].made.at \in Nat BY <2>2, WorkflowAssumption
  <2> QED BY <2>1, <2>3, DayIsInteger DEF PendingDays
<1>2. CASE Captured' = Captured BY <1>2
<1>3. ASSUME NEW t \in Txns, NEW e \in transitions',
             OpenCommit(t) \/ (DiscrepancyCommit(t) /\ pc[t] = "resolve_commit"),
             e = job[t].made, Captured' = Captured \cup {EventOf(e)'}
      PROVE  /\ Captured \subseteq Captured'
             /\ \A f \in Captured' \ Captured : Day(f.at) \in PendingDays /\ Day(f.at) \in Int
  <2>1. pc[t] \in {"open_commit", "resolve_commit"} BY <1>3 DEF OpenCommit
  <2>2. EventOf(e)'.at = job[t].made.at BY <1>3 DEF EventOf
  <2> QED BY <1>1, <1>3, <2>1, <2>2
<1>4. ASSUME NEW t \in Txns, ReviewCommit(t),
             Captured' = Captured \cup {ReviewEventOf(job[t].made)}
      PROVE  /\ Captured \subseteq Captured'
             /\ \A f \in Captured' \ Captured : Day(f.at) \in PendingDays /\ Day(f.at) \in Int
  <2>1. pc[t] = "review_commit" BY <1>4 DEF ReviewCommit
  <2>2. ReviewEventOf(job[t].made).at = job[t].made.at BY DEF ReviewEventOf
  <2> QED BY <1>1, <1>4, <2>1, <2>2
<1> QED BY <1>2, <1>3, <1>4, CapturedStep

LEMMA PastStays ==
  ASSUME RecordsInv, RecordsInv', [Next]_vars, NEW day \in Int,
         \A pending \in PendingDays : pending > day, NEW s \in Subjects
  PROVE  Overlay(s, day)' = Overlay(s, day)
<1>1. PastOf(s, day)' = PastOf(s, day)
  BY NewEventIsPending DEF PastOf, AsOf
<1> QED BY <1>1 DEF Overlay, PastOf

(* What was made on a day that is over is committed with the time at which it was
   made; so as soon as no such transaction is left, that day is settled.       *)
THEOREM PastStaysSettled == Spec => PastIsSettled
<1> DEFINE Step == \A day \in 0 .. Day(now) - 1 :
                     (\A pending \in PendingDays : pending > day)
                       => \A s \in Subjects : Overlay(s, day)' = Overlay(s, day)
<1>1. RecordsInv /\ RecordsInv' /\ [Next]_vars => Step
  BY PastStays
<1>2. RecordsInv /\ RecordsInv' /\ [Next]_vars => [Step]_vars
  BY <1>1
<1> QED BY <1>2, RecordsHold, PTL DEF Spec, PastIsSettled

-----------------------------------------------------------------------------
(* Deadlocks. *)

LEMMA InitAscends == Init => AllAscend
  BY DEF Init, AllAscend, Ascends

\* The transaction that moves.
LEMMA MoverAscends ==
  ASSUME TypeOK, NEW t \in Txns, Holds(t), Ascends(t), Moves(t)
  PROVE  Ascends(t)'
<1> USE DEF TypeOK
<1> DEFINE Locking == {"open_lock", "review_lock", "publish_rows"}
<1>1. CASE pc'[t] \notin Locking BY <1>1 DEF Ascends
<1>2. ASSUME NEW links \in SUBSET Links, NEW l \in Links, NEW o \in Outcomes, OpenBegin(t, links, l, o)
      PROVE  Ascends(t)'
  <2>1. Held(t)' = {} BY <1>2 DEF OpenBegin, Begin, Holds, Held
  <2>2. job'[t].links \cap spare' = {}
    BY <1>2 DEF OpenBegin, Begin, EvidenceOf, store, TxnsOK, StoreOK
  <2> QED BY <2>1, <2>2 DEF Ascends
<1>3. ASSUME NEW l \in Links, NEW o \in Outcomes, NEW dates \in ReviewDates,
             NEW successor \in {{}} \cup {{v} : v \in Versions},
             ReviewBegin(t, l, o, dates, successor)
      PROVE  Ascends(t)'
  <2>1. Held(t)' = {} BY <1>3 DEF ReviewBegin, Begin, Holds, Held
  <2>2. job'[t].links \cap spare' = {}
    BY <1>3 DEF ReviewBegin, Begin, EvidenceOf, store, TxnsOK, StoreOK
  <2> QED BY <2>1, <2>2 DEF Ascends
<1>4. ASSUME NEW v \in Versions, PublishBegin(t, v)
      PROVE  Ascends(t)'
  <2>1. Held(t) = {} BY <1>4 DEF PublishBegin, Begin, Holds
  <2>2. pc'[t] = "publish_rows" /\ job'[t].version = v
    BY <1>4 DEF PublishBegin, Begin, TxnsOK
  <2>3. Held(t)' = {v}
    BY <1>4, <2>1 DEF PublishBegin, Held, TxnsOK, Rows, Ranked
  <2> DEFINE Others == Procedures \cup Dependencies \cup Subjects \cup Links \cup Sources
  <2>4. NeededRows(t)' \subseteq {v} \cup Others
    <3>1. evidence' \subseteq Links BY <1>4 DEF PublishBegin, store, StoreOK
    <3>2. NeededRows(t)' = Aggregate(v)'
      BY <2>2 DEF NeededRows, Aggregate, ItemsOf, MaterialOf, DependenciesOf
    <3>3. MaterialOf(v)' \subseteq Links BY <3>1 DEF MaterialOf
    <3>4. UNION {Cites[l] : l \in MaterialOf(v)'} \subseteq Sources BY <3>3, WorkflowAssumption
    <3>5. ProcedureOf[v] \in Procedures BY WorkflowAssumption
    <3>6. Aggregate(v)' \subseteq {v} \cup Others
      BY <3>3, <3>4, <3>5 DEF Aggregate, DependenciesOf, ItemsOf
    <3> QED BY <3>2, <3>6
  <2>5. \A r \in Others : Rank[v] < Rank[r]
    BY LockOrderAssumption
  <2> QED BY <2>2, <2>3, <2>4, <2>5 DEF Ascends, Ranked
<1>5. ASSUME NEW r \in Rows, LockNext(t, r), pc'[t] \in Locking
      PROVE  Ascends(t)'
  <2>1. /\ pc[t] \in Locking /\ r \in Wanted(t) /\ lock' = [lock EXCEPT ![r] = t]
        /\ UNCHANGED <<owners, evidence, spare, pc, job>>
    BY <1>5 DEF LockNext, store
  <2>2. Wanted(t) = InOrder(t, NeededRows(t) \ Held(t)) /\ NeededRows(t) \subseteq Ranked
    BY <2>1, WantedRows
  <2>3. r \in NeededRows(t) \ Held(t) /\ \A q \in NeededRows(t) \ Held(t) : Rank[r] <= Rank[q]
    BY <2>1, <2>2 DEF InOrder
  <2>4. Held(t)' = Held(t) \cup {r}
    BY <2>1 DEF Held, TxnsOK
  <2>5. NeededRows(t)' = NeededRows(t)
    BY <2>1 DEF NeededRows, Aggregate, DependenciesOf, ItemsOf, MaterialOf, OwnersOf
  <2>6. \A q \in NeededRows(t) \ (Held(t) \cup {r}) : Rank[r] < Rank[q]
    BY <2>2, <2>3, WorkflowAssumption, LockOrderAssumption
  <2> QED BY <2>1, <2>2, <2>3, <2>4, <2>5, <2>6 DEF Ascends
<1>6. pc'[t] \in Locking =>
        \/ \E r \in Rows : LockNext(t, r)
        \/ \E links \in SUBSET Links, l \in Links, o \in Outcomes : OpenBegin(t, links, l, o)
        \/ \E l \in Links, o \in Outcomes, dates \in ReviewDates,
              successor \in {{}} \cup {{v} : v \in Versions} : ReviewBegin(t, l, o, dates, successor)
        \/ \E v \in Versions : PublishBegin(t, v)
  <2> SUFFICES ASSUME pc'[t] \in Locking, ~\E r \in Rows : LockNext(t, r), ~Start(t) PROVE FALSE
    <3>1. ASSUME NEW at, at \notin Locking, NEW what, Begin(t, at, what)
          PROVE  pc'[t] \notin Locking
      BY <3>1 DEF Begin, TxnsOK
    <3> QED BY <3>1 DEF Start, AdminOpen, ResolveRecord, AdminRead
  <2>1. ~Finish(t) BY FinishFrees
  <2> QED
    BY <2>1
    DEF Moves, Crash, Rollback, Continue, OpenRefuse, OpenCommit, AdminRefuse, DiscrepancyCommit,
        ReviewRefuse, ReviewCommit, PublishDecide, OpenRecord, AdminNotice, AdminUpdate,
        ReviewRecord, PublishGraph, PublishGate, TxnsOK
<1> QED BY <1>1, <1>2, <1>3, <1>4, <1>5, <1>6

LEMMA StepAscends ==
  ASSUME TypeOK, AllHold, AllAscend, [Next]_vars
  PROVE  AllAscend'
<1> SUFFICES ASSUME NEW u \in Txns PROVE Ascends(u)' BY DEF AllAscend
<1> USE DEF TypeOK
<1>0. Ascends(u) /\ Holds(u) BY DEF AllAscend, AllHold
<1>1. ASSUME NEW t \in Txns, Moves(t) PROVE Ascends(u)'
  <2>1. CASE u = t BY <1>0, <1>1, <2>1, MoverAscends
  <2>2. CASE u # t
    <3>1. /\ pc'[u] = pc[u] /\ job'[u] = job[u] /\ Held(u)' = Held(u)
          /\ UNCHANGED <<owners, evidence, spare>>
      BY <1>1, <2>2, OthersStay, MovesStore
    <3>2. NeededRows(u)' = NeededRows(u)
      BY <3>1 DEF NeededRows, Aggregate, DependenciesOf, ItemsOf, MaterialOf, OwnersOf
    <3> QED BY <1>0, <3>1, <3>2 DEF Ascends
  <2> QED BY <2>1, <2>2
<1>2. CASE Edit \/ Tick
  <2>1. UNCHANGED <<lock, pc, job>> BY <1>2, EditsLeave
  <2>2. Held(u)' = Held(u) BY <2>1 DEF Held
  <2>3. spare' \subseteq spare /\ \A l \in evidence' : l \in evidence \/ l \in spare
    BY <1>2 DEF StoreOK, Edit, Tick, Withdraw, AddEvidence, CommitEvidence, LoseEvidence, RemoveEvidence, Associate, Dissociate, store
  <2>4. CASE pc[u] \in {"open_lock", "review_lock"}
    <3>1. job[u].links \cap spare = {} BY <1>0, <2>4 DEF Ascends
    <3>2. NeededRows(u)' \subseteq NeededRows(u)
      BY <2>1, <2>3, <2>4, <3>1 DEF NeededRows
    <3> QED BY <1>0, <2>1, <2>2, <2>3, <2>4, <3>2 DEF Ascends
  <2>5. CASE pc[u] = "publish_rows"
    <3>1. PICK v \in Versions : v = job[u].version
      BY <2>5 DEF TxnsOK, JobAt, PublishJobs
    <3>2. NeededRows(u) = Aggregate(v) /\ NeededRows(u)' = Aggregate(v)'
      BY <2>1, <2>5, <3>1 DEF NeededRows, Aggregate, DependenciesOf, ItemsOf, MaterialOf
    <3>3. lock[v] = u BY <1>0, <2>5, <3>1 DEF Holds
    <3>4. CASE MaterialOf(v)' \subseteq MaterialOf(v)
      <4>1. ItemsOf(v)' \subseteq ItemsOf(v) BY <1>2, <3>3, AggregateSteps
      <4>2. NeededRows(u)' \subseteq NeededRows(u)
        BY <3>2, <3>4, <4>1 DEF Aggregate, DependenciesOf
      <4> QED BY <1>0, <2>1, <2>2, <2>5, <4>2 DEF Ascends
    <3>5. ASSUME NEW l \in Links, SubjectOf[l] \in ItemsOf(v), lock[SubjectOf[l]] = None,
                 MaterialOf(v)' \subseteq MaterialOf(v) \cup {l}
          PROVE  Ascends(u)'
      <4>1. ItemsOf(v)' \subseteq ItemsOf(v) BY <1>2, <3>3, AggregateSteps
      <4>2. NeededRows(u)' \subseteq NeededRows(u) \cup {l} \cup Cites[l]
        BY <3>2, <3>5, <4>1 DEF Aggregate, DependenciesOf
      <4> DEFINE s == SubjectOf[l]
      <4>3. s \in NeededRows(u) \ Held(u) /\ s \in Subjects
        BY <3>2, <3>5, WorkflowAssumption DEF Aggregate, Held, ItemsOf
      <4>4. \A h \in Held(u) : h \in Ranked /\ Rank[h] < Rank[s]
        BY <1>0, <2>5, <4>3 DEF Ascends
      <4>5. \A r \in {l} \cup Cites[l] : r \in Ranked /\ Rank[s] < Rank[r]
        BY <4>3, WorkflowAssumption, LockOrderAssumption DEF Ranked
      <4>6. \A h \in Held(u), r \in {l} \cup Cites[l] : h \in Ranked /\ Rank[h] < Rank[r]
        <5>1. \A r \in Ranked : Rank[r] \in Nat BY WorkflowAssumption
        <5>2. s \in Ranked BY <4>3 DEF Ranked
        <5> QED BY <4>4, <4>5, <5>1, <5>2
      <4> QED BY <1>0, <2>1, <2>2, <2>5, <4>2, <4>6 DEF Ascends
    <3> QED BY <1>2, <3>3, <3>4, <3>5, AggregateSteps
  <2>6. CASE pc[u] \notin {"open_lock", "review_lock", "publish_rows"}
    BY <2>1, <2>6 DEF Ascends
  <2> QED BY <2>4, <2>5, <2>6
<1>3. CASE UNCHANGED vars
  <2>1. UNCHANGED <<owners, evidence, spare, lock, pc, job>> BY <1>3 DEF vars
  <2>2. NeededRows(u)' = NeededRows(u) /\ Held(u)' = Held(u)
    BY <2>1 DEF NeededRows, Aggregate, DependenciesOf, ItemsOf, MaterialOf, OwnersOf, Held
  <2> QED BY <1>0, <2>1, <2>2 DEF Ascends
<1> QED BY <1>1, <1>2, <1>3 DEF Next, Moves

LEMMA LocksAscend == Spec => [](RecordsInv /\ AllAscend)
<1>1. RecordsInv /\ AllAscend /\ [Next]_vars => AllAscend'
  BY StepAscends DEF RecordsInv
<1> QED BY <1>1, InitAscends, RecordsHold, PTL DEF Spec

Gates == {"publish_graph", "publish_gate"}

\* Who waits within a circle without a gate is still taking ranked rows, or holds
\* nothing that another could wait for.
LEMMA WaitsForRanked ==
  ASSUME TypeOK, AllHold, NEW S \in SUBSET Txns, Deadlocked(S),
         \A t \in S : pc[t] \notin Gates,
         NEW t \in S, NEW r \in Wanted(t), NEW u \in S, u # t, lock[r] = u
  PROVE  r \in Ranked /\ r \in Rows /\ pc[u] \in {"open_lock", "review_lock", "publish_rows"}
<1> USE DEF TypeOK, TxnsOK, Gates
<1>1. ASSUME NEW w \in S
      PROVE  pc[w] \in {"open_lock", "review_lock", "publish_rows", "open_commit", "admin_update"}
  <2>1. Wanted(w) # {} BY DEF Deadlocked, Waits
  <2> QED BY <2>1 DEF Wanted
<1>2. ASSUME NEW w \in S, pc[w] = "admin_update" PROVE FALSE
  <2>1. Wanted(w) = {job[w].discrepancy} BY <1>2 DEF Wanted
  <2>2. PICK x \in S : lock[job[w].discrepancy] = x BY <2>1 DEF Deadlocked, Waits
  <2>3. job[w].discrepancy \in Discrepancies BY <1>2 DEF JobAt, FormJobs
  <2>4. Held(x) \cap Discrepancies # {} BY <2>2, <2>3 DEF Held, Rows
  <2>5. pc[x] \in {"resolve_commit", "edit_commit"} BY <2>4 DEF AllHold, Holds
  <2> QED BY <1>1, <2>5
<1>3. r \in Ranked
  <2>1. CASE pc[t] = "open_commit" BY <2>1 DEF Wanted, JobAt, OpenedJobs, Ranked
  <2>2. CASE pc[t] \in {"open_lock", "review_lock", "publish_rows"}
    BY <2>2, WantedRows DEF InOrder
  <2> QED BY <1>1, <1>2, <2>1, <2>2
<1>4. r \in Rows /\ r \in Held(u) BY <1>3 DEF Rows, Held
<1>5. ASSUME pc[u] = "open_commit" PROVE FALSE
  <2>1. lock[job[u].anchor] = u BY <1>4, <1>5 DEF AllHold, Holds
  <2>2. Wanted(u) = {job[u].anchor} BY <1>5 DEF Wanted
  <2> QED BY <2>1, <2>2 DEF Deadlocked, Waits
<1> QED BY <1>1, <1>2, <1>3, <1>4, <1>5

LEMMA CirclesNeedTheGates ==
  ASSUME TypeOK, AllHold, AllAscend, NEW S \in SUBSET Txns, Deadlocked(S)
  PROVE  \E t \in S : pc[t] \in Gates
<1> SUFFICES ASSUME \A t \in S : pc[t] \notin Gates PROVE FALSE OBVIOUS
<1> DEFINE Fought == {r \in Ranked : \E t, u \in S : t # u /\ r \in Wanted(t) /\ lock[r] = u}
<1>1. ASSUME NEW t \in S PROVE \E r \in Fought : r \in Wanted(t) /\ lock[r] # t
  <2>1. PICK u \in S, r \in Wanted(t) : u # t /\ lock[r] = u BY DEF Deadlocked, Waits
  <2>2. r \in Ranked BY <2>1, WaitsForRanked
  <2> QED BY <2>1, <2>2
<1>2. Fought # {} BY <1>1 DEF Deadlocked
<1>3. IsFiniteSet(Fought) BY LockOrderAssumption, FS_Subset
<1>4. Fought \subseteq Ranked OBVIOUS
<1>5. ASSUME NEW r \in Fought PROVE \E q \in Fought : Rank[r] < Rank[q]
  <2>1. PICK t, u \in S : t # u /\ r \in Wanted(t) /\ lock[r] = u OBVIOUS
  <2>2. r \in Held(u) /\ pc[u] \in {"open_lock", "review_lock", "publish_rows"}
    BY <2>1, WaitsForRanked DEF Held
  <2>3. PICK q \in Fought : q \in Wanted(u) /\ lock[q] # u BY <1>1
  <2>4. q \in NeededRows(u) \ Held(u)
    BY <2>2, <2>3, WantedRows DEF InOrder
  <2> QED BY <2>2, <2>3, <2>4 DEF AllAscend, Ascends
<1> HIDE DEF Fought
<1>6. \A r \in Fought : Rank[r] \in Nat BY <1>4, WorkflowAssumption
<1>7. PICK r \in Fought : \A q \in Fought : Rank[q] <= Rank[r]
  BY <1>2, <1>3, <1>6, GreatestNumbered
<1> QED BY <1>5, <1>6, <1>7

(* Among the rows that the members of a circle fight for one is last in the lock
   order; whoever holds it waits for nothing before it, unless it is a publisher
   in its gates, which lock published versions and disputed evidence out of that
   order.                                                                     *)
THEOREM DeadlocksGoThroughTheGates == Spec => []DeadlocksNeedTheGates
<1>1. RecordsInv /\ AllAscend => DeadlocksNeedTheGates
  BY CirclesNeedTheGates DEF RecordsInv, DeadlocksNeedTheGates, Gates
<1> QED BY <1>1, LocksAscend, PTL
=============================================================================
