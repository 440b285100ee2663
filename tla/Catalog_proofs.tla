--------------------------- MODULE Catalog_proofs ---------------------------
(***************************************************************************)
(* What holds of the catalogue for every set of services, procedures,      *)
(* versions, publishers and requests.  The argument: what a publisher read *)
(* stays true until it publishes, because editors wait for its rows; what  *)
(* it published stays loadable, because Facts are never unpublished,       *)
(* material that a public version uses is never edited, and the gates want *)
(* of its claims what the loader wants; whom it shares a row with has been *)
(* published before it read; and a request reads one snapshot.             *)
(***************************************************************************)
EXTENDS Catalog, TLAPS

Service(v) == PrimaryService[ProcedureOf[v]]

Loads(v) ==
  /\ content[v].needs \cup Rules(content[v].claims) \subseteq facts
  /\ ClaimsRead(content[v].claims)
  /\ content[v].routes \subseteq sound

\* What the gates of v found that only locks keep true.
Admitted(v) ==
  /\ Loads(v)
  /\ content[v].needs \cup Asked(content[v].claims) \subseteq rows[Service(v)].asked
  /\ ({v} \cup content[v].routes) \cap disputes = {}

Exclusive ==
  \A p, q \in Publishers : p # q /\ job[p] # None /\ job[q] # None =>
     RowsOf(job[p].version) \cap RowsOf(job[q].version) = {}

DecisionsHold ==
  \A p \in Publishers : job[p] # None /\ job[p].read /\ job[p].passed => Admitted(job[p].version)

PublicLoads == \A v \in Versions : state[v] \in {"published", "withdrawn"} => Loads(v)

IInv == TypeOK /\ Exclusive /\ DecisionsHold /\ PublicLoads

-----------------------------------------------------------------------------
(* The two judges of claims. *)

\* Whatever a version claims, what the gates accept the loader reads.  The
\* loader wants support without contradiction wherever it wants evidence, the
\* gates only of claims said to be current: those are the ones it asks about.
THEOREM GatesAgreeWithLoader ==
  ASSUME NEW c, ClaimGates(c)
  PROVE  ClaimsRead(c)
<1>1. ASSUME NEW links, \E l \in links : Supports(l), \A l \in links : ~Contradicts(l)
      PROVE  Adequate(links)
  BY <1>1 DEF Adequate, Supports, Contradicts, Complete
<1>2. ASSUME NEW i \in c.items PROVE ItemRead(i)
  BY DEF ClaimGates, ChecklistGate, Complete, ItemRead
<1>3. ASSUME NEW s \in c.steps PROVE StepRead(s)
  BY <1>1 DEF ClaimGates, StepGate, StepRead
<1>4. ASSUME NEW w \in c.warnings PROVE WarningRead(w)
  BY <1>1 DEF ClaimGates, WarningGate, WarningRead
<1>5. ASSUME NEW f \in c.fees PROVE FeeRead(f)
  BY <1>1 DEF ClaimGates, FeeGate, Complete, FeeRead
<1> QED
  BY <1>2, <1>3, <1>4, <1>5 DEF ClaimsRead

-----------------------------------------------------------------------------
(* The start. *)

LEMMA InitInv == Init => IInv
<1> SUFFICES ASSUME Init PROVE IInv
  OBVIOUS
<1> USE CatalogAssumption
<1>1. content \in [Versions -> Contents]
  <2>1. \A v \in Versions : content[v] \in Contents
    BY DEF Init
  <2> QED
    BY <2>1 DEF Init
<1>2. rows \in [Services -> Preselections]
  <2>1. \A s \in Services : rows[s] \in Preselections
    BY DEF Init
  <2> QED
    BY <2>1 DEF Init
<1>3. TypeOK
  BY <1>1, <1>2 DEF Init, TypeOK
<1> QED
  BY <1>3 DEF Init, IInv, Exclusive, DecisionsHold, PublicLoads

-----------------------------------------------------------------------------
(* Publishers. *)

\* Those that still hold rows afterwards hold what they held.
LEMMA ExclusiveStays ==
  ASSUME Exclusive, content' = content,
         \A q \in Publishers : job'[q] # None => job[q] # None /\ job'[q].version = job[q].version
  PROVE  Exclusive'
<1>1. \A w : RowsOf(w)' = RowsOf(w)
  BY DEF RowsOf
<1>2. ASSUME NEW p \in Publishers, NEW q \in Publishers, p # q, job'[p] # None, job'[q] # None
      PROVE  RowsOf(job[p].version)' \cap RowsOf(job[q].version)' = {}
  <2>1. RowsOf(job[p].version) \cap RowsOf(job[q].version) = {}
    BY <1>2 DEF Exclusive
  <2>2. job'[p].version = job[p].version /\ job'[q].version = job[q].version
    BY <1>2
  <2> QED
    BY <1>1, <2>1, <2>2
<1> QED
  BY <1>2 DEF Exclusive

\* A publisher that begins shares no row with one at work.
LEMMA BeginInv ==
  ASSUME IInv, NEW p \in Publishers, NEW v \in Versions, Begin(p, v)
  PROVE  IInv'
<1> USE DEF IInv
<1>1. TypeOK'
  BY DEF TypeOK, Begin, editing, Jobs
<1>2. \A q \in Publishers : job'[q] # None =>
        \/ q = p /\ job'[q].version = v /\ ~job'[q].read
        \/ q # p /\ job'[q] = job[q]
  BY DEF TypeOK, Begin
<1>3. \A w \in Versions : RowsOf(w)' = RowsOf(w)
  BY DEF Begin, RowsOf
<1>4. \A q \in Publishers : job[q] # None => /\ job[q].version \in Versions
                                             /\ RowsOf(job[q].version) \cap RowsOf(v) = {}
  BY DEF TypeOK, Jobs, Begin, Locked
<1>5. Exclusive'
  <2>1. \A q \in Publishers : job'[q] # None => job'[q].version \in Versions
    BY <1>2, <1>4
  <2>2. ASSUME NEW q \in Publishers, NEW r \in Publishers, q # r,
               job'[q] # None, job'[r] # None
        PROVE  RowsOf(job'[q].version) \cap RowsOf(job'[r].version) = {}
    <3>1. CASE q = p
      BY <1>2, <1>4, <2>2, <3>1
    <3>2. CASE r = p
      BY <1>2, <1>4, <2>2, <3>2
    <3>3. CASE q # p /\ r # p
      BY <1>2, <2>2, <3>3 DEF Exclusive
    <3> QED
      BY <3>1, <3>2, <3>3
  <2>3. ASSUME NEW q \in Publishers, NEW r \in Publishers, q # r,
               job'[q] # None, job'[r] # None
        PROVE  RowsOf(job[q].version)' \cap RowsOf(job[r].version)' = {}
    BY <1>3, <2>1, <2>2, <2>3
  <2> QED
    BY <2>3 DEF Exclusive
<1>6. DecisionsHold'
  BY <1>2 DEF DecisionsHold, Admitted, Loads, Service, Begin, editing
<1>7. PublicLoads'
  BY DEF PublicLoads, Loads, Begin, editing
<1> QED
  BY <1>1, <1>5, <1>6, <1>7

\* What the gates found is what the rows say.
LEMMA ReadInv ==
  ASSUME IInv, NEW p \in Publishers, ReadGates(p)
  PROVE  IInv'
<1> USE DEF IInv
<1>1. PICK v \in Versions : v = job[p].version
  BY DEF TypeOK, Jobs, ReadGates
<1>2. job' = [job EXCEPT ![p] = [version |-> v, read |-> TRUE, passed |-> Gates(v),
                                 edges |-> PublishedNow \cup {v}]]
  BY <1>1 DEF ReadGates
<1>3. Gates(v) \in BOOLEAN /\ PublishedNow \cup {v} \in SUBSET Versions
  BY DEF Gates, EvidenceGates, OwnershipGate, SelectionGate, RulesGate, SetupOf, Decodes, RoutingGate, DiscrepancyGate, OverlapGate, PublishedNow
<1>5. ASSUME NEW q \in Publishers, job'[q] # None
      PROVE  job[q] # None /\ job'[q].version = job[q].version
  <2>1. CASE q = p
    BY <2>1, <1>1, <1>2 DEF TypeOK, ReadGates
  <2>2. CASE q # p
    BY <2>2, <1>2, <1>5 DEF TypeOK
  <2> QED
    BY <2>1, <2>2
<1>4. TypeOK'
  <2>1. job' \in [Publishers -> Jobs \cup {None}]
    BY <1>2, <1>3 DEF TypeOK, Jobs
  <2>2. \A q \in Publishers : job'[q] # None => state[job'[q].version] = "draft"
    BY <1>5 DEF TypeOK
  <2> QED
    BY <2>1, <2>2 DEF TypeOK, ReadGates, editing
<1>6. Exclusive'
  <2>1. content' = content
    BY DEF ReadGates, editing
  <2> QED
    BY <1>5, <2>1, ExclusiveStays
<1>7. Gates(v) => Admitted(v)
  BY GatesAgreeWithLoader DEF Gates, EvidenceGates, OwnershipGate, SelectionGate, RulesGate, SetupOf, Decodes, RoutingGate, DiscrepancyGate, Admitted, Loads, Service
<1>8. DecisionsHold'
  <2> SUFFICES ASSUME NEW q \in Publishers, job'[q] # None, job'[q].read, job'[q].passed
               PROVE  Admitted(job'[q].version)
    BY DEF DecisionsHold, Admitted, Loads, Service, ReadGates, editing
  <2>1. CASE q = p
    BY <2>1, <1>2, <1>7 DEF TypeOK
  <2>2. CASE q # p
    BY <2>2, <1>2 DEF TypeOK, DecisionsHold
  <2> QED
    BY <2>1, <2>2
<1>9. PublicLoads'
  BY DEF PublicLoads, Loads, ReadGates, editing
<1> QED
  BY <1>4, <1>6, <1>8, <1>9

\* A publisher that leaves disturbs no other.
LEMMA EndInv ==
  ASSUME IInv, NEW p \in Publishers, job[p] # None, job' = [job EXCEPT ![p] = None],
         UNCHANGED <<content, editing>>,
         \/ UNCHANGED state
         \/ /\ state' = [state EXCEPT ![job[p].version] = "published"]
            /\ job[p].read /\ job[p].passed
  PROVE  IInv'
<1> USE DEF IInv
<1>1. PICK v \in Versions : v = job[p].version
  BY DEF TypeOK, Jobs
<1>2. \A q \in Publishers : job'[q] # None => q # p /\ job'[q] = job[q] /\ job[q].version \in Versions
  BY DEF TypeOK, Jobs
<1>3. \A q \in Publishers : job'[q] # None => job[q].version # v
  BY <1>1, <1>2 DEF Exclusive, RowsOf
<1>4. state' \in [Versions -> {"draft", "published", "withdrawn"}]
         /\ \A w \in Versions : (state'[w] = state[w] \/ (w = v /\ Loads(v)))
  BY <1>1 DEF TypeOK, DecisionsHold, Admitted
<1>5. TypeOK'
  <2>1. \A q \in Publishers : job'[q] # None => state'[job'[q].version] = "draft"
    BY <1>1, <1>2, <1>3, <1>4 DEF TypeOK
  <2> QED
    BY <1>4, <2>1 DEF TypeOK, editing
<1>6. Exclusive'
  BY <1>2, ExclusiveStays
<1>7. DecisionsHold'
  BY <1>2 DEF DecisionsHold, Admitted, Loads, Service, editing
<1>8. PublicLoads'
  BY <1>4 DEF PublicLoads, Loads, editing
<1> QED
  BY <1>5, <1>6, <1>7, <1>8

LEMMA WithdrawInv ==
  ASSUME IInv, NEW v \in Versions, Withdraw(v)
  PROVE  IInv'
<1> USE DEF IInv
<1>1. /\ state' \in [Versions -> {"draft", "published", "withdrawn"}]
      /\ \A w \in Versions : state'[w] \in {"published", "withdrawn"} => state[w] \in {"published", "withdrawn"}
      /\ \A w \in Versions : state[w] = "draft" => state'[w] = "draft"
  BY DEF TypeOK, Withdraw
<1>2. \A p \in Publishers : job[p] # None => job[p].version \in Versions
  BY DEF TypeOK, Jobs
<1>3. TypeOK'
  BY <1>1, <1>2 DEF TypeOK, Withdraw, editing
<1>4. Exclusive' /\ DecisionsHold'
  BY DEF Exclusive, RowsOf, DecisionsHold, Admitted, Loads, Service, Withdraw, editing
<1>5. PublicLoads'
  BY <1>1 DEF PublicLoads, Loads, Withdraw, editing
<1> QED
  BY <1>3, <1>4, <1>5

-----------------------------------------------------------------------------
(* Editors. *)

\* An edit touches no row of a version that a publisher holds.
LEMMA Untouched ==
  ASSUME TypeOK, NEW x, x \notin Locked, NEW p \in Publishers, job[p] # None
  PROVE  x \notin RowsOf(job[p].version)
  BY DEF Locked

\* What an edit may not spoil: the decisions taken and what public versions need.
LEMMA EditInv ==
  ASSUME IInv, Edit,
         rows' \in [Services -> Preselections], facts' \subseteq Facts, sound' \subseteq Points,
         disputes' \subseteq Versions \cup Points,
         \A p \in Publishers : job[p] # None /\ Admitted(job[p].version) => Admitted(job[p].version)',
         \A v \in Versions : state[v] \in {"published", "withdrawn"} /\ Loads(v) => Loads(v)'
  PROVE  IInv'
<1> USE DEF IInv
<1>1. UNCHANGED <<content, state, job>> /\ edits' = edits + 1
  BY DEF Edit
<1>2. TypeOK'
  BY <1>1 DEF TypeOK
<1>3. Exclusive'
  BY <1>1 DEF Exclusive, RowsOf
<1>4. DecisionsHold'
  BY <1>1 DEF DecisionsHold, Admitted, Loads, Service
<1>5. PublicLoads'
  BY <1>1 DEF PublicLoads, Loads
<1> QED
  BY <1>2, <1>3, <1>4, <1>5

LEMMA EditServiceInv ==
  ASSUME IInv, NEW s \in Services, EditService(s)
  PROVE  IInv'
<1> USE DEF IInv
<1>1. PICK u \in Setups[s] : rows' = [rows EXCEPT ![s] = u]
  BY DEF EditService
<1>2. rows' \in [Services -> Preselections]
  BY <1>1, CatalogAssumption DEF TypeOK
<1>3. ASSUME NEW p \in Publishers, job[p] # None, Admitted(job[p].version)
      PROVE  Admitted(job[p].version)'
  <2>1. s \notin RowsOf(job[p].version)
    BY <1>3, Untouched DEF EditService
  <2>2. Service(job[p].version) # s
    BY <2>1 DEF RowsOf, Service
  <2>3. Service(job[p].version) \in Services
    BY <1>3, CatalogAssumption DEF Service, TypeOK, Jobs
  <2>4. /\ UNCHANGED <<content, job, facts, sound, disputes>>
        /\ rows'[Service(job[p].version)] = rows[Service(job[p].version)]
    BY <1>1, <2>2, <2>3 DEF EditService, Edit, TypeOK
  <2> QED
    BY <1>3, <2>4 DEF Admitted, Loads, Service
<1>4. ASSUME NEW v \in Versions, Loads(v) PROVE Loads(v)'
  BY <1>4 DEF Loads, EditService, Edit
<1> QED
  BY <1>2, <1>3, <1>4, EditInv DEF EditService, TypeOK

LEMMA PublishFactInv ==
  ASSUME IInv, NEW f \in Facts, PublishFact(f)
  PROVE  IInv'
<1> USE DEF IInv
<1>1. ASSUME NEW p \in Publishers, job[p] # None, Admitted(job[p].version)
      PROVE  Admitted(job[p].version)'
  BY <1>1 DEF Admitted, Loads, Service, PublishFact, Edit
<1>2. ASSUME NEW v \in Versions, Loads(v) PROVE Loads(v)'
  BY <1>2 DEF Loads, PublishFact, Edit
<1> QED
  BY <1>1, <1>2, EditInv DEF PublishFact, TypeOK

LEMMA EditPointInv ==
  ASSUME IInv, NEW m \in Points, EditPoint(m)
  PROVE  IInv'
<1> USE DEF IInv
<1>1. ASSUME NEW p \in Publishers, job[p] # None, Admitted(job[p].version)
      PROVE  Admitted(job[p].version)'
  <2>1. m \notin RowsOf(job[p].version)
    BY <1>1, Untouched DEF EditPoint
  <2> QED
    BY <1>1, <2>1 DEF RowsOf, Admitted, Loads, Service, EditPoint, Edit
<1>2. ASSUME NEW v \in Versions, state[v] \in {"published", "withdrawn"}, Loads(v)
      PROVE  Loads(v)'
  <2>1. m \notin content[v].routes
    BY <1>2 DEF EditPoint, Preserved, Public, Database
  <2> QED
    BY <1>2, <2>1 DEF Loads, EditPoint, Edit
<1> QED
  BY <1>1, <1>2, EditInv DEF EditPoint, TypeOK

LEMMA DisputeInv ==
  ASSUME IInv, NEW o \in Disputable, Dispute(o)
  PROVE  IInv'
<1> USE DEF IInv
<1>1. ASSUME NEW p \in Publishers, job[p] # None, Admitted(job[p].version)
      PROVE  Admitted(job[p].version)'
  <2>1. o \notin RowsOf(job[p].version)
    BY <1>1, Untouched DEF Dispute
  <2> QED
    BY <1>1, <2>1 DEF RowsOf, Admitted, Loads, Service, Dispute, Edit
<1>2. ASSUME NEW v \in Versions, Loads(v) PROVE Loads(v)'
  BY <1>2 DEF Loads, Dispute, Edit
<1> QED
  BY <1>1, <1>2, EditInv, CatalogAssumption DEF Dispute, TypeOK

-----------------------------------------------------------------------------
(* The invariant and what follows. *)

LEMMA StepInv == IInv /\ [Next]_vars => IInv'
<1> SUFFICES ASSUME IInv, [Next]_vars PROVE IInv'
  OBVIOUS
<1>1. ASSUME UNCHANGED <<content, state, job, editing>> PROVE IInv'
  BY <1>1 DEF IInv, TypeOK, Exclusive, RowsOf, DecisionsHold, Admitted, Loads, Service,
              PublicLoads, editing
<1>2. ASSUME NEW p \in Publishers, NEW v \in Versions, Begin(p, v) PROVE IInv'
  BY <1>2, BeginInv
<1>3. ASSUME NEW p \in Publishers, ReadGates(p) PROVE IInv'
  BY <1>3, ReadInv
<1>4. ASSUME NEW p \in Publishers, Publish(p) \/ Reject(p) PROVE IInv'
  BY <1>4, EndInv DEF Publish, Reject
<1>5. ASSUME NEW v \in Versions, Withdraw(v) PROVE IInv'
  BY <1>5, WithdrawInv
<1>6. ASSUME NEW s \in Services, EditService(s) PROVE IInv'
  BY <1>6, EditServiceInv
<1>7. ASSUME NEW f \in Facts, PublishFact(f) PROVE IInv'
  BY <1>7, PublishFactInv
<1>8. ASSUME NEW m \in Points, EditPoint(m) PROVE IInv'
  BY <1>8, EditPointInv
<1>9. ASSUME NEW o \in Disputable, Dispute(o) PROVE IInv'
  BY <1>9, DisputeInv
<1>10. ASSUME NEW r \in Requests,
              (\E s \in Services : Asks(r, s)) \/ Load(r) \/ Project(r) \/ Leave(r)
       PROVE  IInv'
  BY <1>10, <1>1 DEF Asks, Load, Project, Leave
<1>11. ASSUME UNCHANGED vars PROVE IInv'
  BY <1>11, <1>1 DEF vars, editing
<1> QED
  BY <1>2, <1>3, <1>4, <1>5, <1>6, <1>7, <1>8, <1>9, <1>10, <1>11 DEF Next

LEMMA Inductive == Spec => []IInv
  BY InitInv, StepInv, PTL DEF Spec

\* Publishers work on drafts and every variable keeps its type.
THEOREM CatalogTyped == Spec => []TypeOK
<1>1. IInv => TypeOK
  BY DEF IInv
<1> QED
  BY <1>1, Inductive, PTL

\* What the gates admitted never makes the loader refuse the catalogue.
THEOREM PublishedIsLoadable == Spec => []PublicVersionsLoad
<1>1. IInv => PublicVersionsLoad
  <2> SUFFICES ASSUME IInv, NEW v \in Versions, v \in Refused(Database) PROVE FALSE
    BY DEF PublicVersionsLoad
  <2>1. v \notin Services
    BY CatalogAssumption
  <2> QED
    BY <2>1 DEF IInv, PublicLoads, Loads, Refused, RulesRead, MaterialRead, Public, Database
<1> QED
  BY <1>1, Inductive, PTL

\* What the gates read still holds when the version becomes public.
THEOREM GatesOutlast == Spec => GatesHoldAtPublication
<1> DEFINE Held == \A v \in Versions : state[v] = "draft" /\ state'[v] = "published" =>
                      /\ content[v].needs \cup Asked(content[v].claims)
                           \subseteq rows[PrimaryService[ProcedureOf[v]]].asked
                      /\ content[v].routes \subseteq sound
                      /\ ({v} \cup content[v].routes) \cap disputes = {}
<1>1. IInv /\ [Next]_vars => Held
  <2> SUFFICES ASSUME IInv, [Next]_vars, NEW v \in Versions, state[v] = "draft", state'[v] = "published"
               PROVE  Admitted(v)
    BY DEF Admitted, Loads, Service
  <2>1. ASSUME NEW p \in Publishers, Publish(p) PROVE Admitted(v)
    BY <2>1 DEF IInv, TypeOK, DecisionsHold, Publish
  <2>2. ASSUME NEW w \in Versions, Withdraw(w) PROVE FALSE
    BY <2>2 DEF Withdraw, IInv, TypeOK
  <2>3. ASSUME UNCHANGED state PROVE FALSE
    BY <2>3
  <2> QED
    BY <2>1, <2>2, <2>3 DEF Next, vars, Begin, ReadGates, Reject, EditService, PublishFact, EditPoint,
                            Dispute, Edit, Asks, Load, Project, Leave
<1>2. Held => [Held]_vars
  OBVIOUS
<1> QED
  BY <1>1, Inductive, PTL DEF Spec, GatesHoldAtPublication

-----------------------------------------------------------------------------
(* Cycles of prerequisites. *)

\* Every published version that has a row in common with one whose gates have
\* read was published before they read.
ReadersKnow ==
  \A p \in Publishers : job[p] # None /\ job[p].read =>
    /\ job[p].version \in job[p].edges
    /\ \A w \in PublishedNow : RowsOf(w) \cap RowsOf(job[p].version) # {} => w \in job[p].edges

CyclesInv == IInv /\ ReadersKnow /\ CyclesNeedStrangers

Strangers(v, w) ==
  /\ PrimaryService[ProcedureOf[v]] # PrimaryService[ProcedureOf[w]]
  /\ (Cites[v] \cup content[v].routes) \cap (Cites[w] \cup content[w].routes) = {}

LEMMA AcquaintancesShareRows ==
  ASSUME NEW v \in Versions, NEW w \in Versions, ~Strangers(v, w)
  PROVE  RowsOf(v) \cap RowsOf(w) # {}
  BY DEF Strangers, RowsOf

\* A cycle stays one when more is published.
LEMMA CyclesGrow ==
  ASSUME NEW vs, NEW ws, vs \subseteq ws, HasBlockingCycle(vs)
  PROVE  HasBlockingCycle(ws)
  BY DEF HasBlockingCycle

LEMMA CyclesStay ==
  ASSUME content' = content, NEW vs
  PROVE  HasBlockingCycle(vs)' <=> HasBlockingCycle(vs)
  BY DEF HasBlockingCycle

LEMMA PublishKeepsCycles ==
  ASSUME CyclesInv, NEW p \in Publishers, Publish(p)
  PROVE  ReadersKnow' /\ CyclesNeedStrangers'
<1> USE DEF CyclesInv, IInv
<1>1. PICK v \in Versions : v = job[p].version /\ job[p].read /\ job[p] # None
  BY DEF Publish, TypeOK, Jobs
<1>2. /\ content' = content /\ job' = [job EXCEPT ![p] = None]
      /\ PublishedNow' \subseteq PublishedNow \cup {v}
  BY <1>1 DEF Publish, PublishedNow, TypeOK
<1>3. ASSUME NEW q \in Publishers, job'[q] # None, job'[q].read
      PROVE  /\ job'[q].version \in job'[q].edges
             /\ \A w \in PublishedNow' :
                  RowsOf(w)' \cap RowsOf(job[q].version)' # {} => w \in job'[q].edges
  <2>1. q # p /\ job'[q] = job[q] BY <1>2, <1>3 DEF TypeOK
  <2>2. RowsOf(v) \cap RowsOf(job[q].version) = {} BY <1>1, <1>3, <2>1 DEF Exclusive
  <2>3. \A w : RowsOf(w)' = RowsOf(w) BY <1>2 DEF RowsOf
  <2>4. RowsOf(job[q].version)' = RowsOf(job[q].version) BY <1>2, <2>1 DEF RowsOf
  <2> QED BY <1>2, <1>3, <2>1, <2>2, <2>3, <2>4 DEF ReadersKnow
<1>4. CyclesNeedStrangers'
  <2> SUFFICES ASSUME NEW vs \in SUBSET PublishedNow', HasBlockingCycle(vs),
                      \A w, x \in vs : ~Strangers(w, x)
               PROVE  FALSE
    <3>1. \A vs : HasBlockingCycle(vs)' <=> HasBlockingCycle(vs) BY <1>2, CyclesStay
    <3>2. \A w, x : Strangers(w, x)' <=> Strangers(w, x) BY <1>2 DEF Strangers
    <3>3. CyclesNeedStrangers' <=>
            \A vs \in SUBSET PublishedNow' :
              HasBlockingCycle(vs)' => \E w, x \in vs : Strangers(w, x)'
      BY DEF CyclesNeedStrangers, Strangers
    <3> QED BY <3>1, <3>2, <3>3
  <2>1. CASE v \notin vs
    <3>1. vs \subseteq PublishedNow BY <1>2, <2>1
    <3> QED BY <3>1 DEF CyclesNeedStrangers, Strangers
  <2>2. CASE v \in vs
    <3>1. \A w \in vs : w \in Versions BY DEF PublishedNow
    <3>2. ASSUME NEW w \in vs PROVE w \in job[p].edges \cap (PublishedNow \cup {v})
      <4>1. RowsOf(w) \cap RowsOf(v) # {} BY <2>2, <3>1, AcquaintancesShareRows
      <4> QED BY <1>1, <1>2, <4>1 DEF ReadersKnow
    <3>3. HasBlockingCycle(job[p].edges \cap (PublishedNow \cup {v})) BY <3>2, CyclesGrow
    <3> QED BY <1>1, <3>3 DEF Publish, Acyclic
  <2> QED BY <2>1, <2>2
<1> QED BY <1>3, <1>4 DEF ReadersKnow

\* Nothing else publishes, and a publisher that reads sees all that is published.
LEMMA OthersKeepCycles ==
  ASSUME CyclesInv, content' = content, \A v \in Versions : state'[v] = "published" => state[v] = "published",
         \A q \in Publishers : job'[q] # None /\ job'[q].read =>
           \/ job'[q] = job[q]
           \/ job'[q].edges = PublishedNow \cup {job'[q].version}
  PROVE  ReadersKnow' /\ CyclesNeedStrangers'
<1> USE DEF CyclesInv
<1>1. PublishedNow' \subseteq PublishedNow BY DEF PublishedNow
<1>2. CyclesNeedStrangers' BY <1>1, CyclesStay DEF CyclesNeedStrangers
<1>3. ASSUME NEW q \in Publishers, job'[q] # None, job'[q].read
      PROVE  /\ job'[q].version \in job'[q].edges
             /\ \A w \in PublishedNow' :
                  RowsOf(w)' \cap RowsOf(job[q].version)' # {} => w \in job'[q].edges
  <2>1. CASE job'[q] = job[q]
    <3>1. RowsOf(job[q].version)' = RowsOf(job[q].version) BY <2>1 DEF RowsOf
    <3>2. \A w : RowsOf(w)' = RowsOf(w) BY DEF RowsOf
    <3> QED BY <1>1, <1>3, <2>1, <3>1, <3>2 DEF ReadersKnow
  <2>2. CASE job'[q].edges = PublishedNow \cup {job'[q].version} BY <1>1, <2>2
  <2> QED BY <1>3, <2>1, <2>2
<1> QED BY <1>2, <1>3 DEF ReadersKnow

LEMMA StepCycles == CyclesInv /\ [Next]_vars => CyclesInv'
<1> SUFFICES ASSUME CyclesInv, [Next]_vars PROVE ReadersKnow' /\ CyclesNeedStrangers'
  BY StepInv DEF CyclesInv
<1> USE DEF CyclesInv, IInv
<1>1. ASSUME UNCHANGED <<content, state, job>> PROVE ReadersKnow' /\ CyclesNeedStrangers'
  BY <1>1, OthersKeepCycles
<1>2. ASSUME NEW p \in Publishers, NEW v \in Versions, Begin(p, v)
      PROVE  ReadersKnow' /\ CyclesNeedStrangers'
  <2>1. \A q \in Publishers : job'[q] # None /\ job'[q].read => job'[q] = job[q]
    BY <1>2 DEF Begin, TypeOK
  <2> QED BY <1>2, <2>1, OthersKeepCycles DEF Begin
<1>3. ASSUME NEW p \in Publishers, ReadGates(p) PROVE ReadersKnow' /\ CyclesNeedStrangers'
  <2>1. \A q \in Publishers : job'[q] # None /\ job'[q].read =>
          job'[q] = job[q] \/ job'[q].edges = PublishedNow \cup {job'[q].version}
    BY <1>3 DEF ReadGates, TypeOK
  <2> QED BY <1>3, <2>1, OthersKeepCycles DEF ReadGates
<1>4. ASSUME NEW p \in Publishers, Reject(p) PROVE ReadersKnow' /\ CyclesNeedStrangers'
  <2>1. \A q \in Publishers : job'[q] # None => job'[q] = job[q] BY <1>4 DEF Reject, TypeOK
  <2> QED BY <1>4, <2>1, OthersKeepCycles DEF Reject
<1>5. ASSUME NEW v \in Versions, Withdraw(v) PROVE ReadersKnow' /\ CyclesNeedStrangers'
  BY <1>5, OthersKeepCycles DEF Withdraw, TypeOK
<1>6. UNCHANGED vars => UNCHANGED <<content, state, job>> BY DEF vars
<1>7. \A s \in Services : EditService(s) => UNCHANGED <<content, state, job>> BY DEF EditService, Edit
<1>8. (\E f \in Facts : PublishFact(f)) \/ (\E m \in Points : EditPoint(m)) \/ (\E o \in Disputable : Dispute(o))
        => UNCHANGED <<content, state, job>>
  BY DEF PublishFact, EditPoint, Dispute, Edit
<1>9. ASSUME NEW r \in Requests, (\E s \in Services : Asks(r, s)) \/ Load(r) \/ Project(r) \/ Leave(r)
      PROVE  UNCHANGED <<content, state, job>>
  BY <1>9 DEF Asks, Load, Project, Leave
<1> QED
  BY <1>1, <1>2, <1>3, <1>4, <1>5, <1>6, <1>7, <1>8, <1>9, PublishKeepsCycles DEF Next

\* Published versions each two of which share a row never close a cycle of
\* prerequisites, of any length: the last of their publishers knows them all.
THEOREM CyclesTakeStrangers == Spec => []CyclesNeedStrangers
<1>1. Init => CyclesInv
  <2> SUFFICES ASSUME Init PROVE ReadersKnow /\ CyclesNeedStrangers
    BY InitInv DEF CyclesInv
  <2>1. PublishedNow = {} /\ \A p \in Publishers : job[p] = None
    BY DEF Init, PublishedNow
  <2>2. ASSUME HasBlockingCycle({}) PROVE FALSE
    <3>1. PICK ring \in (SUBSET Procedures) \ {{}} :
            \A p \in ring : \E v \in {} : ProcedureOf[v] = p /\ content[v].requires \cap ring # {}
      BY <2>2 DEF HasBlockingCycle
    <3>2. \E p : p \in ring BY <3>1
    <3> QED BY <3>1, <3>2
  <2>3. CyclesNeedStrangers BY <2>1, <2>2 DEF CyclesNeedStrangers
  <2> QED BY <2>1, <2>3 DEF ReadersKnow
<1>2. CyclesInv => CyclesNeedStrangers BY DEF CyclesInv
<1> QED BY <1>1, <1>2, StepCycles, PTL DEF Spec

-----------------------------------------------------------------------------
(* What requests answer. *)

Databases == [state : [Versions -> {"draft", "published", "withdrawn"}],
              rows : [Services -> Preselections], facts : SUBSET Facts,
              sound : SUBSET Points, disputes : SUBSET (Versions \cup Points)]

\* What a request for service s looks for, read from the database as a whole.
Candidates(db, s) == {v \in Public(db) : ProcedureOf[v] \in db.rows[s].candidates}

Whole(db, s) ==
  LET chosen == Candidates(db, s)
      required == {v \in Public(db) : \E w \in chosen : ProcedureOf[v] \in content[w].requires}
      routed == UNION {content[v].routes : v \in chosen}
  IN IF Refused(db) # {} THEN [refused |-> TRUE]
     ELSE [refused  |-> FALSE,
           rows     |-> db.rows[s],
           guidance |-> [v \in chosen |-> [state |-> db.state[v], says |-> {content[v]}]],
           required |-> [v \in required |-> db.state[v]],
           routed   |-> routed \cap db.sound,
           disputed |-> db.disputes \cap (chosen \cup routed)]

\* Loading any part that holds the candidates and all they require answers as
\* the whole would.
LEMMA PartAnswersAsWhole ==
  ASSUME TypeOK, NEW db \in Databases, NEW s \in Services, NEW ps \in SUBSET Procedures,
         db.rows[s].candidates \subseteq ps, Closed(db, ps)
  PROVE  AnswerFrom(db, Scoped(db, ps), s) = Whole(db, s)
<1> DEFINE vs == {v \in Public(db) : ProcedureOf[v] \in ps}
           scope == Scoped(db, ps)
           loaded == Materialized(db, scope)
           snapshot == Projected(db, scope, loaded)
           chosen == Candidates(db, s)
           routed == UNION {content[v].routes : v \in chosen}
           points == UNION {content[v].routes : v \in vs}
           refused == Refused(db) # {}
           versions == [v \in vs |-> [state |-> db.state[v], says |-> {content[v]}]]
           sources == points \cap db.sound
           disputed == db.disputes \cap (vs \cup points)
<1>1. scope = [procedures |-> ps, versions |-> vs, points |-> points]
  BY DEF Scoped
<1>2. loaded = [refused |-> refused, rows |-> db.rows, versions |-> versions, sound |-> sources,
                disputed |-> {}]
  <2> DEFINE ws == {v \in Public(db) : ProcedureOf[v] \in scope.procedures}
             owned == [v \in ws |-> [state |-> db.state[v], says |-> Owned(scope, v)]]
             seen == db.sound \cap UNION {content[v].routes : v \in ws \cap scope.versions}
  <2>1. loaded = [refused |-> Refused(db) # {}, rows |-> db.rows, versions |-> owned,
                  sound |-> seen, disputed |-> {}]
    BY DEF Materialized
  <2>2. ws = vs /\ ws \cap scope.versions = vs BY <1>1
  <2>3. \A v \in vs : Owned(scope, v) = {content[v]} BY <1>1 DEF Owned
  <2>4. owned = versions BY <2>2, <2>3
  <2>5. seen = sources
    <3> DEFINE both == ws \cap scope.versions
    <3>1. seen = db.sound \cap UNION {content[v].routes : v \in both} OBVIOUS
    <3>2. both = vs BY <2>2
    <3> HIDE DEF both, vs, seen
    <3> QED BY <3>1, <3>2
  <2> HIDE DEF loaded, owned, versions, seen, sources
  <2> QED BY <2>1, <2>4, <2>5
<1>3. snapshot = [refused |-> refused, rows |-> db.rows, versions |-> versions, sound |-> sources,
                  disputed |-> disputed]
  <2>1. snapshot = [loaded EXCEPT !.disputed = db.disputes \cap LinkOwners(scope)]
    BY DEF Projected
  <2>2. LinkOwners(scope) = vs \cup points BY <1>1 DEF LinkOwners
  <2>3. snapshot = [loaded EXCEPT !.disputed = disputed] BY <2>1, <2>2
  <2> HIDE DEF loaded, snapshot, refused, versions, sources, disputed
  <2> QED BY <1>2, <2>3
<1>a. /\ snapshot.refused = refused /\ snapshot.rows = db.rows /\ snapshot.versions = versions
      /\ snapshot.sound = sources /\ snapshot.disputed = disputed
  <2> HIDE DEF snapshot, refused, versions, sources, disputed
  <2> QED BY <1>3
<1>b. DOMAIN snapshot.versions = vs /\ \A v \in vs : /\ snapshot.versions[v].state = db.state[v]
                                                     /\ snapshot.versions[v].says = {content[v]}
  <2> HIDE DEF snapshot
  <2> QED BY <1>a
<1>4. chosen \subseteq vs BY DEF Candidates
<1>5. \A v \in chosen : content[v].requires \subseteq ps
  BY <1>4 DEF Closed, Targets, Public
<1> DEFINE picked == {v \in DOMAIN snapshot.versions : ProcedureOf[v] \in snapshot.rows[s].candidates}
           said == UNION {snapshot.versions[v].says : v \in picked}
           sought == {v \in DOMAIN snapshot.versions : \E c \in said : ProcedureOf[v] \in c.requires}
           shown == UNION {c.routes : c \in said}
<1> HIDE DEF snapshot
<1>6. picked = chosen BY <1>a, <1>b DEF Candidates
<1>7. said = {content[v] : v \in chosen} BY <1>4, <1>6, <1>b
<1>8. sought = {v \in Public(db) : \E w \in chosen : ProcedureOf[v] \in content[w].requires}
  <2>1. sought = {v \in vs : \E w \in chosen : ProcedureOf[v] \in content[w].requires}
    BY <1>7, <1>b
  <2> QED BY <1>5, <2>1
<1>9. shown = routed BY <1>7
<1>10. [v \in picked |-> snapshot.versions[v]]
         = [v \in chosen |-> [state |-> db.state[v], says |-> {content[v]}]]
  BY <1>4, <1>6, <1>a
<1>11. [v \in sought |-> snapshot.versions[v].state] = [v \in sought |-> db.state[v]]
  BY <1>b
<1>12. routed \subseteq points BY <1>4
<1>13. shown \cap snapshot.sound = routed \cap db.sound
  <2> HIDE DEF shown, routed, points
  <2> QED BY <1>9, <1>12, <1>a
<1>14. snapshot.disputed \cap (picked \cup shown) = db.disputes \cap (chosen \cup routed)
  <2> HIDE DEF shown, routed, points, chosen, picked, vs
  <2> QED BY <1>4, <1>6, <1>9, <1>12, <1>a
<1>16. Planned(snapshot, s) =
         IF snapshot.refused THEN [refused |-> TRUE]
         ELSE [refused |-> FALSE, rows |-> snapshot.rows[s],
               guidance |-> [v \in picked |-> snapshot.versions[v]],
               required |-> [v \in sought |-> snapshot.versions[v].state],
               routed |-> shown \cap snapshot.sound,
               disputed |-> snapshot.disputed \cap (picked \cup shown)]
  BY DEF Planned
<1> DEFINE needed == {v \in Public(db) : \E w \in chosen : ProcedureOf[v] \in content[w].requires}
<1>17. Whole(db, s) =
         IF Refused(db) # {} THEN [refused |-> TRUE]
         ELSE [refused |-> FALSE, rows |-> db.rows[s],
               guidance |-> [v \in chosen |-> [state |-> db.state[v], says |-> {content[v]}]],
               required |-> [v \in needed |-> db.state[v]],
               routed |-> routed \cap db.sound,
               disputed |-> db.disputes \cap (chosen \cup routed)]
  BY DEF Whole
<1>18. AnswerFrom(db, scope, s) = Planned(snapshot, s) BY DEF AnswerFrom, snapshot
<1>19. sought = needed BY <1>8
<1>20. (refused /\ snapshot.refused) \/ (~refused /\ ~snapshot.refused) BY <1>a
<1> HIDE DEF chosen, routed, picked, sought, shown, needed, refused
<1>21. CASE refused BY <1>16, <1>17, <1>18, <1>20, <1>21 DEF refused
<1>22. CASE ~refused
  <2>1. Whole(db, s) =
          [refused |-> FALSE, rows |-> db.rows[s],
           guidance |-> [v \in chosen |-> [state |-> db.state[v], says |-> {content[v]}]],
           required |-> [v \in needed |-> db.state[v]],
           routed |-> routed \cap db.sound, disputed |-> db.disputes \cap (chosen \cup routed)]
    BY <1>17, <1>22 DEF refused
  <2>2. Planned(snapshot, s) =
          [refused |-> FALSE, rows |-> db.rows[s],
           guidance |-> [v \in picked |-> snapshot.versions[v]],
           required |-> [v \in sought |-> snapshot.versions[v].state],
           routed |-> shown \cap snapshot.sound,
           disputed |-> snapshot.disputed \cap (picked \cup shown)]
    BY <1>16, <1>20, <1>22, <1>a
  <2>3. Planned(snapshot, s) = Whole(db, s)
    BY <2>1, <2>2, <1>10, <1>11, <1>13, <1>14, <1>19
  <2> QED BY <1>18, <2>3
<1> QED BY <1>21, <1>22

\* What discovery reaches is such a part, and so is everything.
LEMMA ReachedIsClosed ==
  ASSUME TypeOK, NEW db \in Databases, NEW s \in Services
  PROVE  /\ Reached(db, s) \in SUBSET Procedures
         /\ db.rows[s].candidates \subseteq Reached(db, s) /\ Closed(db, Reached(db, s))
         /\ db.rows[s].candidates \subseteq Procedures /\ Closed(db, Procedures)
<1>1. db.rows[s].candidates \subseteq Procedures BY DEF Databases, Preselections
<1>2. \A v \in Public(db) : content[v].requires \subseteq Procedures
  BY DEF Public, TypeOK, Contents
<1>3. ASSUME NEW v \in Public(db), ProcedureOf[v] \in Reached(db, s)
      PROVE  content[v].requires \subseteq Reached(db, s)
  <2> SUFFICES ASSUME NEW q \in content[v].requires, NEW ps \in SUBSET Procedures,
                      db.rows[s].candidates \subseteq ps, Closed(db, ps)
               PROVE  q \in ps
    BY <1>2 DEF Reached
  <2> QED BY <1>3 DEF Reached, Closed, Targets
<1> QED BY <1>1, <1>2, <1>3 DEF Reached, Closed, Targets

LEMMA OneAnswer ==
  ASSUME TypeOK, NEW db \in Databases, NEW s \in Services
  PROVE  AnswerFrom(db, Scope(db, s), s) = AnswerFrom(db, Scoped(db, Procedures), s)
  BY ReachedIsClosed, PartAnswersAsWhole DEF Scope

\* What is read of a database depends on nothing that changes.
LEMMA ReadingStays ==
  ASSUME content' = content, NEW db, NEW s, NEW scope
  PROVE  /\ Scope(db, s)' = Scope(db, s)
         /\ Scoped(db, Procedures)' = Scoped(db, Procedures)
         /\ Materialized(db, scope)' = Materialized(db, scope)
         /\ AnswerFrom(db, scope, s)' = AnswerFrom(db, scope, s)
<1>1. \A ps : Closed(db, ps)' <=> Closed(db, ps)
  BY DEF Closed, Targets
<1>2. Reached(db, s)' = Reached(db, s)
  BY <1>1 DEF Reached
<1>3. \A ps : Scoped(db, ps)' = Scoped(db, ps)
  BY DEF Scoped
<1>4. Scope(db, s)' = Scope(db, s)
  BY <1>2, <1>3 DEF Scope
<1>5. Refused(db)' = Refused(db)
  BY DEF Refused, RulesRead, MaterialRead
<1>6. \A v : Owned(scope, v)' = Owned(scope, v)
  BY DEF Owned
<1>7. Materialized(db, scope)' = Materialized(db, scope)
  BY <1>5, <1>6 DEF Materialized
<1>8. AnswerFrom(db, scope, s)' = AnswerFrom(db, scope, s)
  BY <1>7 DEF AnswerFrom
<1> QED BY <1>3, <1>4, <1>7, <1>8

\* A request keeps to the database it began with.
KeepsTo(q) ==
  /\ q = [service |-> q.service, step |-> q.step, begun |-> q.begun, scope |-> q.scope,
          snapshot |-> q.snapshot, answer |-> q.answer]
  /\ q.begun \in Databases /\ q.service \in Services
  /\ q.scope = Scope(q.begun, q.service)
  /\ q.step = "project" => q.snapshot = Materialized(q.begun, q.scope)
  /\ q.step = "done" => q.answer = AnswerFrom(q.begun, q.scope, q.service)

RequestsKeep ==
  /\ DOMAIN request = Requests
  /\ \A r \in Requests : request[r] # None => KeepsTo(request[r])

RequestsInv == IInv /\ RequestsKeep

LEMMA KeepsToStays ==
  ASSUME content' = content, NEW q
  PROVE  KeepsTo(q)' <=> KeepsTo(q)
<1>1. Scope(q.begun, q.service)' = Scope(q.begun, q.service) BY ReadingStays
<1>2. Materialized(q.begun, q.scope)' = Materialized(q.begun, q.scope) BY ReadingStays
<1>3. AnswerFrom(q.begun, q.scope, q.service)' = AnswerFrom(q.begun, q.scope, q.service)
  BY ReadingStays
<1> QED BY <1>1, <1>2, <1>3 DEF KeepsTo

LEMMA StepRequest ==
  ASSUME RequestsInv, NEW r \in Requests,
         (\E s \in Services : Asks(r, s)) \/ Load(r) \/ Project(r) \/ Leave(r)
  PROVE  RequestsKeep'
<1> USE DEF RequestsInv, IInv
<1>1. content' = content /\ DOMAIN request' = Requests /\ \A x \in Requests \ {r} : request'[x] = request[x]
  BY DEF Asks, Load, Project, Leave, RequestsKeep
<1>2. ASSUME request'[r] # None PROVE KeepsTo(request'[r])
  <2>1. ASSUME NEW s \in Services, Asks(r, s) PROVE KeepsTo(request'[r])
    <3>1. request'[r] = [service |-> s, step |-> "load", begun |-> Database,
                         scope |-> Scope(Database, s), snapshot |-> None, answer |-> None]
      BY <2>1 DEF Asks, RequestsKeep
    <3>2. Database \in Databases BY DEF Database, Databases, TypeOK
    <3> QED BY <3>1, <3>2 DEF KeepsTo
  <2>2. CASE Load(r)
    <3>1. PICK q : q = request[r] /\ KeepsTo(q) BY <2>2 DEF Load, RequestsKeep
    <3>2. request'[r] = [q EXCEPT !.step = "project", !.snapshot = Materialized(q.begun, q.scope)]
      BY <2>2, <3>1 DEF Load, Seen, RequestsKeep
    <3> DEFINE m == Materialized(q.begun, q.scope)
    <3>3. m = Materialized(q.begun, q.scope) OBVIOUS
    <3> HIDE DEF m
    <3>4. request'[r] = [service |-> q.service, step |-> "project", begun |-> q.begun,
                         scope |-> q.scope, snapshot |-> m, answer |-> q.answer]
      BY <3>1, <3>2, <3>3 DEF KeepsTo
    <3> QED BY <3>1, <3>3, <3>4 DEF KeepsTo
  <2>3. CASE Project(r)
    <3>1. PICK q : q = request[r] /\ KeepsTo(q) /\ q.step = "project"
      BY <2>3 DEF Project, RequestsKeep
    <3> DEFINE a == Planned(Projected(q.begun, q.scope, q.snapshot), q.service)
    <3>2. request'[r] = [q EXCEPT !.step = "done", !.answer = a]
      BY <2>3, <3>1 DEF Project, Seen, RequestsKeep
    <3>3. a = AnswerFrom(q.begun, q.scope, q.service) BY <3>1 DEF KeepsTo, AnswerFrom
    <3> HIDE DEF a
    <3>4. request'[r] = [service |-> q.service, step |-> "done", begun |-> q.begun,
                         scope |-> q.scope, snapshot |-> q.snapshot, answer |-> a]
      BY <3>1, <3>2 DEF KeepsTo
    <3> QED BY <3>1, <3>3, <3>4 DEF KeepsTo
  <2>4. CASE Leave(r) BY <1>2, <2>4 DEF Leave, RequestsKeep
  <2> QED BY <2>1, <2>2, <2>3, <2>4
<1>3. ASSUME NEW x \in Requests, request'[x] # None PROVE KeepsTo(request[x])'
  <2>1. PICK q : q = request'[x] OBVIOUS
  <2>2. KeepsTo(q)
    BY <1>1, <1>2, <1>3, <2>1 DEF RequestsKeep
  <2>3. KeepsTo(q)' BY <1>1, <2>2, KeepsToStays
  <2> QED BY <2>1, <2>3 DEF KeepsTo
<1> QED BY <1>1, <1>3 DEF RequestsKeep

LEMMA StepRequests == RequestsInv /\ [Next]_vars => RequestsInv'
<1> SUFFICES ASSUME RequestsInv, [Next]_vars PROVE RequestsKeep'
  BY StepInv DEF RequestsInv
<1>1. ASSUME content' = content, request' = request PROVE RequestsKeep'
  <2> SUFFICES ASSUME NEW x \in Requests, request[x] # None PROVE KeepsTo(request[x])'
    BY <1>1 DEF RequestsInv, RequestsKeep
  <2>1. PICK q : q = request[x] /\ KeepsTo(q) BY DEF RequestsInv, RequestsKeep
  <2>2. KeepsTo(q)' BY <1>1, <2>1, KeepsToStays
  <2> QED BY <1>1, <2>1, <2>2 DEF KeepsTo
<1>2. \/ content' = content /\ request' = request
      \/ \E r \in Requests : (\E s \in Services : Asks(r, s)) \/ Load(r) \/ Project(r) \/ Leave(r)
  BY DEF Next, vars, Begin, ReadGates, Publish, Reject, Withdraw, EditService, PublishFact,
         EditPoint, Dispute, Edit
<1> QED BY <1>1, <1>2, StepRequest

\* A request that reads by parts, while the catalogue changes, answers what the
\* whole said when it began: the part it discovers holds all that its service's
\* candidates say and require, and one snapshot is read throughout.
THEOREM RequestsReadOneInstant == Spec => []RequestsSeeOneInstant
<1>1. Init => RequestsInv
  BY InitInv DEF RequestsInv, RequestsKeep, Init
<1>2. RequestsInv => RequestsSeeOneInstant
  <2> SUFFICES ASSUME RequestsInv, NEW r \in Requests, request[r] # None, request[r].step = "done"
               PROVE  request[r].answer = AnswerFrom(request[r].begun,
                                            Scoped(request[r].begun, Procedures), request[r].service)
    BY DEF RequestsSeeOneInstant
  <2>1. KeepsTo(request[r]) BY DEF RequestsInv, RequestsKeep
  <2>2. PICK db \in Databases : db = request[r].begun BY <2>1 DEF KeepsTo
  <2>3. PICK s \in Services : s = request[r].service BY <2>1 DEF KeepsTo
  <2>4. AnswerFrom(db, Scope(db, s), s) = AnswerFrom(db, Scoped(db, Procedures), s)
    BY OneAnswer DEF RequestsInv, IInv
  <2> QED BY <2>1, <2>2, <2>3, <2>4 DEF KeepsTo
<1> QED BY <1>1, <1>2, StepRequests, PTL DEF Spec
=============================================================================
