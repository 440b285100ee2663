------------------------------ MODULE Catalog ------------------------------
(***************************************************************************)
(* The catalogue that publishers fill, editors change and planning         *)
(* requests read.  A publisher locks the rows its version uses, lets the   *)
(* gates read, and publishes; editors go on changing what services share;  *)
(* a request discovers which part of the catalogue its service can reach,  *)
(* checks all of it and loads that part, in one REPEATABLE READ            *)
(* transaction.                                                            *)
(***************************************************************************)
EXTENDS Naturals, FiniteSets, PublicationClaims

CONSTANTS
  Services, Procedures, Versions, Points, Sources,
  Publishers, Requests,
  PrimaryService,     \* [Procedures -> Services]
  ProcedureOf,        \* [Versions -> Procedures]
  Cites,              \* [Versions -> SUBSET Sources], with their authorities
  Drafts,             \* [Versions -> sets of contents]: what a draft may say
  Setups,             \* the pre-selection rows an editor may give a service
  Disputable,         \* owners whose evidence may be disputed
  MaxEdits            \* bound on editors' transactions

\* What a version says: the Facts that decide whether it applies, the
\* Procedures its prerequisites name, the Service Point material it routes to,
\* and its claims.
Contents == [needs : SUBSET Facts, requires : SUBSET Procedures, routes : SUBSET Points,
             claims : Claims]

\* The rows a service shares among its Procedures: candidates with the Facts
\* of their predicates, the Facts of its contradictions and of its questions.
Preselections == [active : BOOLEAN, candidates : SUBSET Procedures,
                  chosenBy : SUBSET Facts, opposed : SUBSET Facts, asked : SUBSET Facts]

ASSUME CatalogAssumption ==
  /\ Versions \cap Services = {}
  /\ PrimaryService \in [Procedures -> Services]
  /\ ProcedureOf \in [Versions -> Procedures]
  /\ Cites \in [Versions -> SUBSET Sources]
  /\ Drafts \in [Versions -> SUBSET Contents]
  /\ \A v \in Versions : \A d \in Drafts[v] : ProcedureOf[v] \notin d.requires
  /\ Setups \in [Services -> SUBSET Preselections]
  /\ \A s \in Services : \A u \in Setups[s] : \A p \in u.candidates : PrimaryService[p] = s
  /\ Disputable \subseteq Versions \cup Points
  /\ MaxEdits \in Nat

VARIABLES
  content,    \* [Versions -> Contents], frozen once a publisher holds the version
  state,      \* [Versions -> {"draft", "published", "withdrawn"}]
  rows,       \* [Services -> Preselections]
  facts,      \* the published Fact definitions
  sound,      \* the material whose evidence is adequate
  disputes,   \* the owners of open discrepancies
  job,        \* [Publishers -> None or a publication in progress]
  request,    \* [Requests -> None or a planning request]
  edits

vars == <<content, state, rows, facts, sound, disputes, job, request, edits>>
editing == <<rows, facts, sound, disputes, edits>>

\* The database as one statement sees it.
Database == [state |-> state, rows |-> rows, facts |-> facts, sound |-> sound, disputes |-> disputes]

-----------------------------------------------------------------------------
(* The graph of prerequisites. *)

Public(db) == {v \in Versions : db.state[v] \in {"published", "withdrawn"}}
PublishedNow == {v \in Versions : state[v] = "published"}

Targets(vs) == UNION {content[v].requires : v \in vs}

\* A graph has a cycle when some of its nodes all have a successor among them.
HasBlockingCycle(vs) ==
  \E ring \in (SUBSET Procedures) \ {{}} :
     \A p \in ring : \E v \in vs : ProcedureOf[v] = p /\ content[v].requires \cap ring # {}

-----------------------------------------------------------------------------
(* Publication: the rows it locks and the gates it passes. *)

\* Fault: forgets the shared sources; the evidence links would still be locked.
RowsOfWithoutProvenance(v) == {v, ProcedureOf[v], PrimaryService[ProcedureOf[v]]} \cup content[v].routes

\* Fault: forgets the pre-selection rows of the service.
RowsOfWithoutService(v) == {v, ProcedureOf[v]} \cup content[v].routes \cup Cites[v]

\* The version, its Procedure, the primary service with its pre-selection
\* rows, the material, the provenance.
RowsOf(v) == {v, ProcedureOf[v], PrimaryService[ProcedureOf[v]]} \cup content[v].routes \cup Cites[v]

Locked == UNION {RowsOf(job[p].version) : p \in {q \in Publishers : job[q] # None}}

Decodes(names) == names \subseteq facts

SetupOf(v) == rows[PrimaryService[ProcedureOf[v]]]

OwnershipGate(v) == ProcedureOf[v] \in SetupOf(v).candidates

\* The predicates of the candidates can be read and asked about.
SelectionGate(v) == Decodes(SetupOf(v).chosenBy) /\ SetupOf(v).chosenBy \subseteq SetupOf(v).asked

\* So can the rules of the version and of its claims; no question asks for
\* what is not published.
RulesGate(v) ==
  /\ Decodes(content[v].needs \cup Rules(content[v].claims)) /\ Decodes(SetupOf(v).asked)
  /\ content[v].needs \cup Asked(content[v].claims) \subseteq SetupOf(v).asked

EvidenceGates(v) == ClaimGates(content[v].claims)

RoutingGate(v) == content[v].routes \subseteq sound
DiscrepancyGate(v) == ({v} \cup content[v].routes) \cap disputes = {}
OverlapGate(v) == \A w \in PublishedNow : ProcedureOf[w] # ProcedureOf[v]

Gates(v) == /\ OwnershipGate(v) /\ SelectionGate(v) /\ RulesGate(v) /\ EvidenceGates(v)
            /\ RoutingGate(v) /\ DiscrepancyGate(v) /\ OverlapGate(v)

Begin(p, v) ==
  /\ job[p] = None
  /\ state[v] = "draft"
  /\ RowsOf(v) \cap Locked = {}
  /\ job' = [job EXCEPT ![p] = [version |-> v, read |-> FALSE, passed |-> FALSE, edges |-> {}]]
  /\ UNCHANGED <<content, state, request, editing>>

\* The gates read what the locks hold.  The cycle check reads the rows of the
\* draft and of what is published when its statement starts.
ReadGates(p) ==
  /\ job[p] # None
  /\ ~job[p].read
  /\ LET v == job[p].version IN
     job' = [job EXCEPT ![p] = [version |-> v, read |-> TRUE, passed |-> Gates(v), edges |-> PublishedNow \cup {v}]]
  /\ UNCHANGED <<content, state, request, editing>>

\* A statement that waited for a row drops it when it matches no more, and
\* does not see the rows that started to match meanwhile.
Acyclic(p) == ~HasBlockingCycle(job[p].edges \cap (PublishedNow \cup {job[p].version}))

Publish(p) ==
  /\ job[p] # None
  /\ job[p].read
  /\ job[p].passed
  /\ Acyclic(p)
  /\ state' = [state EXCEPT ![job[p].version] = "published"]
  /\ job' = [job EXCEPT ![p] = None]
  /\ UNCHANGED <<content, request, editing>>

Reject(p) ==
  /\ job[p] # None
  /\ job[p].read
  /\ ~(job[p].passed /\ Acyclic(p))
  /\ job' = [job EXCEPT ![p] = None]
  /\ UNCHANGED <<content, state, request, editing>>

Withdraw(v) ==
  /\ state[v] = "published"
  /\ v \notin Locked
  /\ state' = [state EXCEPT ![v] = "withdrawn"]
  /\ UNCHANGED <<content, job, request, editing>>

-----------------------------------------------------------------------------
(* Editors.  Rows a publisher locked wait for it: an update for the row, an *)
(* insertion for the service its deferred foreign key names.                *)

Edit == edits < MaxEdits /\ edits' = edits + 1 /\ UNCHANGED <<content, state, job, request>>

EditService(s) ==
  /\ s \notin Locked
  /\ Edit
  /\ \E u \in Setups[s] \ {rows[s]} : rows' = [rows EXCEPT ![s] = u]
  /\ UNCHANGED <<facts, sound, disputes>>

\* A published definition is neither changed, unpublished nor deleted.
PublishFact(f) ==
  /\ f \notin facts
  /\ Edit
  /\ facts' = facts \cup {f}
  /\ UNCHANGED <<rows, sound, disputes>>

\* Fault: only what is published now preserves its material.
PreservedByPublished(m) == \E v \in PublishedNow : m \in content[v].routes

Preserved(m) == \E v \in Public(Database) : m \in content[v].routes

EditPoint(m) ==
  /\ m \notin Locked
  /\ ~Preserved(m)
  /\ Edit
  /\ sound' = (sound \ {m}) \cup ({m} \ sound)
  /\ UNCHANGED <<rows, facts, disputes>>

\* A discrepancy is opened or resolved under the locks of its evidence.
Dispute(o) ==
  /\ o \notin Locked
  /\ Edit
  /\ disputes' = (disputes \ {o}) \cup ({o} \ disputes)
  /\ UNCHANGED <<rows, facts, sound>>

-----------------------------------------------------------------------------
(* Loading the catalogue for a request. *)

\* Closed under the prerequisites of public versions.
Closed(db, ps) ==
  Targets({v \in Public(db) : ProcedureOf[v] \in ps}) \subseteq ps

Reached(db, s) ==
  {p \in Procedures :
     \A ps \in SUBSET Procedures : db.rows[s].candidates \subseteq ps /\ Closed(db, ps) => p \in ps}

Scoped(db, ps) ==
  LET vs == {v \in Public(db) : ProcedureOf[v] \in ps}
  IN [procedures |-> ps, versions |-> vs, points |-> UNION {content[v].routes : v \in vs}]

Scope(db, s) == Scoped(db, Reached(db, s))

\* The owners of links that anchor history: versions and their material.
LinkOwners(scope) == scope.versions \cup scope.points

RulesRead(db, v) == content[v].needs \cup Rules(content[v].claims) \subseteq db.facts
MaterialRead(db, v) == content[v].routes \subseteq db.sound
ServiceReads(db, s) ==
  db.rows[s].chosenBy \cup db.rows[s].opposed \cup db.rows[s].asked \subseteq db.facts

\* Who is to blame when the catalogue is refused as a whole: a version whose
\* rules, claims or material cannot be read, an active service that names a Fact
\* which is not published.
Refused(db) ==
  {v \in Public(db) : ~(RulesRead(db, v) /\ ClaimsRead(content[v].claims) /\ MaterialRead(db, v))}
    \cup {s \in Services : db.rows[s].active /\ ~ServiceReads(db, s)}

\* What a version owns comes only with a version that was discovered.
Owned(scope, v) == IF v \in scope.versions THEN {content[v]} ELSE {}

\* Versions by Procedure, what they own by the versions discovered.
Materialized(db, scope) ==
  LET vs == {v \in Public(db) : ProcedureOf[v] \in scope.procedures}
  IN [refused  |-> Refused(db) # {},
      rows     |-> db.rows,
      versions |-> [v \in vs |-> [state |-> db.state[v], says |-> Owned(scope, v)]],
      sound    |-> db.sound \cap UNION {content[v].routes : v \in vs \cap scope.versions},
      disputed |-> {}]

Projected(db, scope, snapshot) ==
  [snapshot EXCEPT !.disputed = db.disputes \cap LinkOwners(scope)]

\* What the planner looks at for service s: the versions of the candidates
\* with all they own, and the state of the versions they require.
Planned(snapshot, s) ==
  LET chosen   == {v \in DOMAIN snapshot.versions : ProcedureOf[v] \in snapshot.rows[s].candidates}
      said     == UNION {snapshot.versions[v].says : v \in chosen}
      required == {v \in DOMAIN snapshot.versions : \E c \in said : ProcedureOf[v] \in c.requires}
      routed   == UNION {c.routes : c \in said}
  IN IF snapshot.refused THEN [refused |-> TRUE]
     ELSE [refused  |-> FALSE,
           rows     |-> snapshot.rows[s],
           guidance |-> [v \in chosen |-> snapshot.versions[v]],
           required |-> [v \in required |-> snapshot.versions[v].state],
           routed   |-> routed \cap snapshot.sound,
           disputed |-> snapshot.disputed \cap (chosen \cup routed)]

AnswerFrom(db, scope, s) == Planned(Projected(db, scope, Materialized(db, scope)), s)

Asks(r, s) ==
  /\ request[r] = None
  /\ request' = [request EXCEPT ![r] =
       [service |-> s, step |-> "load", begun |-> Database, scope |-> Scope(Database, s),
        snapshot |-> None, answer |-> None]]
  /\ UNCHANGED <<content, state, job, editing>>

\* Fault: READ COMMITTED, where every statement sees the database of its own time.
SeenByStatement(r) == Database

\* REPEATABLE READ: every statement sees the database of the first.
Seen(r) == request[r].begun

Load(r) ==
  /\ request[r] # None
  /\ request[r].step = "load"
  /\ request' = [request EXCEPT ![r].step = "project",
                                ![r].snapshot = Materialized(Seen(r), request[r].scope)]
  /\ UNCHANGED <<content, state, job, editing>>

Project(r) ==
  /\ request[r] # None
  /\ request[r].step = "project"
  /\ request' = [request EXCEPT ![r].step = "done",
       ![r].answer = Planned(Projected(Seen(r), request[r].scope, request[r].snapshot), request[r].service)]
  /\ UNCHANGED <<content, state, job, editing>>

Leave(r) ==
  /\ request[r] # None
  /\ request[r].step = "done"
  /\ request' = [request EXCEPT ![r] = None]
  /\ UNCHANGED <<content, state, job, editing>>

-----------------------------------------------------------------------------
Init ==
  /\ content \in {c \in [Versions -> UNION {Drafts[v] : v \in Versions}] :
                    \A v \in Versions : c[v] \in Drafts[v]}
  /\ state = [v \in Versions |-> "draft"]
  /\ rows \in {u \in [Services -> UNION {Setups[s] : s \in Services}] :
                 \A s \in Services : u[s] \in Setups[s]}
  /\ facts \in SUBSET Facts
  /\ sound \in SUBSET Points
  /\ disputes = {}
  /\ job = [p \in Publishers |-> None]
  /\ request = [r \in Requests |-> None]
  /\ edits = 0

Next ==
  \/ \E p \in Publishers : \/ \E v \in Versions : Begin(p, v)
                           \/ ReadGates(p) \/ Publish(p) \/ Reject(p)
  \/ \E v \in Versions : Withdraw(v)
  \/ \E s \in Services : EditService(s)
  \/ \E f \in Facts : PublishFact(f)
  \/ \E m \in Points : EditPoint(m)
  \/ \E o \in Disputable : Dispute(o)
  \/ \E r \in Requests : \/ \E s \in Services : Asks(r, s)
                         \/ Load(r) \/ Project(r) \/ Leave(r)

Spec == Init /\ [][Next]_vars

-----------------------------------------------------------------------------
(* Properties. *)

Jobs == [version : Versions, read : BOOLEAN, passed : BOOLEAN, edges : SUBSET Versions]

\* Every variable of the publishers and the editors keeps its type, and what a
\* publisher works on stays a draft.
TypeOK ==
  /\ content \in [Versions -> Contents]
  /\ state \in [Versions -> {"draft", "published", "withdrawn"}]
  /\ rows \in [Services -> Preselections]
  /\ facts \subseteq Facts
  /\ sound \subseteq Points
  /\ disputes \subseteq Versions \cup Points
  /\ job \in [Publishers -> Jobs \cup {None}]
  /\ edits \in Nat
  /\ \A p \in Publishers : job[p] # None => state[job[p].version] = "draft"

\* The loader refuses the whole catalogue, for every service, as soon as one
\* row is bad.  What the gates admitted never is that row, whatever editors
\* change afterwards: only the pre-selection rows of an active service are.
PublicVersionsLoad == Refused(Database) \cap Versions = {}

\* Every prerequisite names a Procedure that does not, in the end, require
\* the Procedure that names it.
NoBlockingCycle == ~HasBlockingCycle(PublishedNow)

\* A cycle of published prerequisites takes two publishers whose versions
\* have no row in common; any row they share makes the later one wait before
\* its gates read, and see the other's version.
CyclesNeedStrangers ==
  \A vs \in SUBSET PublishedNow :
     HasBlockingCycle(vs) => \E v, w \in vs :
       /\ PrimaryService[ProcedureOf[v]] # PrimaryService[ProcedureOf[w]]
       /\ (Cites[v] \cup content[v].routes) \cap (Cites[w] \cup content[w].routes) = {}

\* A version becomes public only while what the gates demanded of the rows it
\* shares with others still holds: its service asks for every Fact its rules
\* name, its material is sound and nothing it rests on is disputed.
GatesHoldAtPublication ==
  [][\A v \in Versions : state[v] = "draft" /\ state'[v] = "published" =>
       /\ content[v].needs \cup Asked(content[v].claims) \subseteq rows[PrimaryService[ProcedureOf[v]]].asked
       /\ content[v].routes \subseteq sound
       /\ ({v} \cup content[v].routes) \cap disputes = {}]_vars

Everything == Scoped(Database, Procedures)

\* What a request answers is what the whole catalogue was when it began, although
\* it loads only the part its service leads to, in many statements, while
\* publishers and editors change it: the same guidance, prerequisites and
\* disputes, and a refusal exactly when the whole is refused.
RequestsSeeOneInstant ==
  \A r \in Requests :
     request[r] # None /\ request[r].step = "done" =>
       request[r].answer = AnswerFrom(request[r].begun, Scoped(request[r].begun, Procedures),
                                      request[r].service)
=============================================================================
