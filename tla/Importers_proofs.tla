-------------------------- MODULE Importers_proofs --------------------------
(***************************************************************************)
(* Proofs about Importers: whatever editors, reviewers and other importers *)
(* do in between, what was accepted and not edited is accepted again, and  *)
(* no importer rewrites a row that it did not create.                      *)
(***************************************************************************)
EXTENDS Importers, TLAPS

Shapes ==
  /\ shared \in [SharedRows -> Texts \cup {None}]
  /\ version \in [Versions -> VersionRows \cup {None}]
  /\ accepted \subseteq Packages
  /\ run \in [Jobs -> [package : Packages, makes : (SUBSET SharedRows) \cup {None}] \cup {None}]

(* The rows of a package's questions exist as soon as one of its versions
   does: an importer creates them together.  Without it an editor could add
   the questions to versions that were sealed without any.                  *)
QuestionsExist ==
  \A p \in Packages : \A v \in VersionsOf[p] : version[v] # None => shared[p] # None

Accepted == Shapes /\ QuestionsExist /\ RerunVerifies

-----------------------------------------------------------------------------
(* Seals and upgrades. *)

LEMMA OwnerIsUnique ==
  ASSUME NEW p \in Packages, NEW v \in VersionsOf[p]
  PROVE  v \in Versions /\ Owner(v) = p
BY Partition DEF Owner

LEMMA OwnerExists ==
  ASSUME NEW v \in Versions
  PROVE  Owner(v) \in Packages /\ v \in VersionsOf[Owner(v)]
BY Partition DEF Owner

LEMMA RowFields ==
  ASSUME NEW q \in VersionRows
  PROVE  /\ q = [state |-> q.state, text |-> q.text, trust |-> q.trust, scenario |-> q.scenario]
         /\ q # None
         /\ q.state \in {"draft", "published", "withdrawn"} /\ q.text \in Texts /\ q.trust \in Texts
         /\ q.scenario \in [Scenarios -> ScenarioRows \cup {None}]
BY AbsenceAssumption DEF VersionRows

(* Sealing touches the scenarios and nothing else. *)
LEMMA SealedRow ==
  ASSUME NEW p, NEW s, NEW texts,
         NEW q, q = [state |-> q.state, text |-> q.text, trust |-> q.trust, scenario |-> q.scenario],
         q.state \in {"draft", "published", "withdrawn"}, q.text \in Texts, q.trust \in Texts,
         s[p] \in Texts \cup {None},
         texts \in [Scenarios -> Texts \cup {"prior", None}]
  PROVE  /\ Sealed(p, s, q, texts) \in VersionRows
         /\ Sealed(p, s, q, texts) = [q EXCEPT !.scenario = Sealed(p, s, q, texts).scenario]
         /\ Sealed(p, s, q, texts).state = q.state
         /\ Sealed(p, s, q, texts).text = q.text
         /\ Sealed(p, s, q, texts).trust = q.trust
         /\ \A i \in Scenarios :
              Sealed(p, s, q, texts).scenario[i] =
                IF texts[i] = None THEN None
                ELSE [text |-> texts[i], seal |-> <<q.text, s[p]>>]
<1> DEFINE new == [i \in Scenarios |-> IF texts[i] = None THEN None
                                       ELSE [text |-> texts[i], seal |-> <<q.text, s[p]>>]]
<1>1. Sealed(p, s, q, texts) = [q EXCEPT !.scenario = new]
  BY DEF Sealed, Behaviour
<1>2. new \in [Scenarios -> ScenarioRows \cup {None}]
  <2>1. ASSUME NEW i \in Scenarios, texts[i] # None
        PROVE  [text |-> texts[i], seal |-> <<q.text, s[p]>>] \in ScenarioRows
    BY <2>1 DEF ScenarioRows
  <2> QED BY <2>1
<1>3. \A i \in Scenarios : new[i] = IF texts[i] = None THEN None
                                    ELSE [text |-> texts[i], seal |-> <<q.text, s[p]>>]
  OBVIOUS
<1> HIDE DEF new
<1>4. PICK r : r = [q EXCEPT !.scenario = new]
  OBVIOUS
<1>5. r = [state |-> q.state, text |-> q.text, trust |-> q.trust, scenario |-> new]
  BY <1>4
<1>6. /\ r \in VersionRows /\ r.scenario = new /\ r.state = q.state /\ r.text = q.text
      /\ r.trust = q.trust /\ r = [q EXCEPT !.scenario = r.scenario]
  BY <1>2, <1>4, <1>5 DEF VersionRows
<1> QED BY <1>1, <1>3, <1>4, <1>6

(* What verifies does so whatever the state of the version becomes. *)
LEMMA StateDoesNotCount ==
  ASSUME NEW p, NEW s, NEW q \in VersionRows, NEW st \in {"draft", "published", "withdrawn"},
         NEW r, r = [q EXCEPT !.state = st]
  PROVE  r \in VersionRows /\ (VersionVerified(p, s, q) => VersionVerified(p, s, r))
<1>1. r = [state |-> st, text |-> q.text, trust |-> q.trust, scenario |-> q.scenario]
  BY RowFields
<1>2. r \in VersionRows /\ r.scenario = q.scenario /\ r.text = q.text /\ r.trust = q.trust
  BY <1>1, RowFields DEF VersionRows
<1> QED BY <1>2 DEF VersionVerified, Behaviour, ScenarioTexts, IsPrior

(* What verifies before the upgrade of its scenarios verifies after it. *)
LEMMA UpgradeVerifies ==
  ASSUME NEW p, NEW s, NEW q \in VersionRows, s[p] \in Texts \cup {None}
  PROVE  /\ Upgrade(p, s, q) \in VersionRows
         /\ VersionVerified(p, s, q) => VersionVerified(p, s, Upgrade(p, s, q))
         /\ Upgrade(p, s, q) # q =>
              /\ q.state = "draft" /\ ScenarioTexts(q) = PriorTexts
              /\ [q EXCEPT !.scenario = Upgrade(p, s, q).scenario] = Upgrade(p, s, q)
<1>1. CASE ~(q.state = "draft" /\ IsPrior(p, q))
  BY <1>1 DEF Upgrade, UpgradeInAnyState
<1>2. CASE q.state = "draft" /\ IsPrior(p, q)
  <2>1. Upgrade(p, s, q) = Sealed(p, s, q, ResearchedTexts)
    BY <1>2 DEF Upgrade, UpgradeInAnyState
  <2>2. PICK r : r = Sealed(p, s, q, ResearchedTexts)
    OBVIOUS
  <2>3. /\ ResearchedTexts \in [Scenarios -> Texts \cup {"prior", None}]
        /\ \A i \in Scenarios : ResearchedTexts[i] = "researched" /\ ResearchedTexts[i] # None
    BY AbsenceAssumption DEF ResearchedTexts, Texts
  <2>4. /\ r \in VersionRows /\ r = [q EXCEPT !.scenario = r.scenario]
        /\ r.text = q.text /\ r.trust = q.trust
        /\ \A i \in Scenarios : r.scenario[i] = [text |-> "researched", seal |-> <<q.text, s[p]>>]
    BY <2>2, <2>3, RowFields, SealedRow
  <2>5. \A i \in Scenarios : r.scenario[i] # None
    BY <2>4, <2>3, RowFields, AbsenceAssumption DEF ScenarioRows, Texts
  <2>6. ScenarioTexts(r) = ResearchedTexts
    BY <2>4, <2>5 DEF ScenarioTexts, ResearchedTexts
  <2>7. {r.scenario[i].seal : i \in {j \in Scenarios : r.scenario[j] # None}} = {Behaviour(p, s, r)}
    BY <2>4, <2>5 DEF Behaviour, Scenarios
  <2>8. VersionVerified(p, s, q) => VersionVerified(p, s, r)
    BY <2>4, <2>6, <2>7 DEF VersionVerified
  <2> QED BY <1>2, <2>1, <2>2, <2>4, <2>8 DEF IsPrior
<1> QED BY <1>1, <1>2

-----------------------------------------------------------------------------
(* The initial states. *)

LEMMA InitialVersion ==
  ASSUME NEW p, NEW s, s[p] \in Texts \cup {None}, NEW st \in {"draft", "published"}
  PROVE  Prior(p, s, st) \in VersionRows
<1> DEFINE q == [state |-> st, text |-> "researched", trust |-> "researched", scenario |-> None]
<1>1. PriorTexts \in [Scenarios -> Texts \cup {"prior", None}]
  <2>1. \A i \in {"first", "added"} : PriorTexts[i] \in {"prior", None}
    BY DEF PriorTexts
  <2>2. PriorTexts = [i \in {"first", "added"} |-> PriorTexts[i]]
    BY DEF PriorTexts
  <2> QED BY <2>1, <2>2 DEF Scenarios
<1>2. Sealed(p, s, q, PriorTexts) \in VersionRows
  BY <1>1, SealedRow DEF Texts
<1> QED BY <1>2 DEF Prior

LEMMA InitialRows == Init => Accepted
<1> SUFFICES ASSUME Init PROVE Accepted
  OBVIOUS
<1>1. PICK old \in SUBSET Upgraded, st \in {"draft", "published"} :
        /\ shared = [r \in SharedRows |-> IF \E p \in old : r \in SharedOf(p) THEN "researched"
                                          ELSE None]
        /\ version = [v \in Versions |-> IF Owner(v) \in old THEN Prior(Owner(v), shared, st)
                                         ELSE None]
  BY DEF Init
<1>2. shared \in [SharedRows -> Texts \cup {None}]
  BY <1>1 DEF Texts
<1>3. ASSUME NEW v \in Versions
      PROVE  version[v] \in VersionRows \cup {None}
  <2>1. Owner(v) \in SharedRows
    BY OwnerExists DEF SharedRows
  <2>2. Prior(Owner(v), shared, st) \in VersionRows
    BY <1>2, <2>1, InitialVersion
  <2> QED BY <1>1, <2>2
<1>4. Shapes
  <2>1. version = [v \in Versions |-> version[v]]
    BY <1>1
  <2>2. version \in [Versions -> VersionRows \cup {None}]
    BY <1>3, <2>1
  <2> QED BY <1>2, <2>2 DEF Init, Shapes
<1>5. QuestionsExist
  <2> SUFFICES ASSUME NEW p \in Packages, NEW v \in VersionsOf[p], version[v] # None
               PROVE  shared[p] # None
    BY DEF QuestionsExist
  <2>1. p \in old
    BY <1>1, OwnerIsUnique
  <2> QED BY <1>1, <2>1, AbsenceAssumption DEF SharedRows, SharedOf, Texts
<1> QED BY <1>4, <1>5 DEF Accepted, RerunVerifies, Init

-----------------------------------------------------------------------------
(* An importer commits. *)

(* The commit of a package: its rows s, its versions vs before any upgrade.  *)
LEMMA CommitKeeps ==
  ASSUME Accepted, NEW j \in Jobs, NEW p \in Packages, run[j] # None, run[j].package = p,
         NEW s \in [SharedRows -> Texts \cup {None}],
         \A r \in SharedRows : shared[r] # None => s[r] = shared[r],
         NEW vs \in [Versions -> VersionRows \cup {None}],
         \A v \in Versions : v \notin VersionsOf[p] => vs[v] = version[v],
         s[p] # None \/ VersionsOf[p] = {},
         UNCHANGED run \/ run' = [run EXCEPT ![j] = None],
         Commit(j, s, vs)
  PROVE  /\ Accepted'
         /\ \A r \in SharedRows : shared[r] # None => shared'[r] = shared[r]
         /\ \A v \in Versions : version'[v] # version[v] =>
              v \in VersionsOf[p] /\ version'[v] = Upgrade(p, s, vs[v]) /\ vs[v] # None
<1> DEFINE after == [v \in Versions |-> IF v \in VersionsOf[p] THEN Upgrade(p, s, vs[v]) ELSE vs[v]]
<1>t. run' \in [Jobs -> [package : Packages, makes : (SUBSET SharedRows) \cup {None}] \cup {None}]
  BY DEF Accepted, Shapes
<1>1. CASE ~Verified(p, s, vs)
  <2>1. UNCHANGED <<shared, version, accepted>>
    BY <1>1 DEF Commit
  <2> QED BY <2>1, <1>t DEF Accepted, Shapes, QuestionsExist, RerunVerifies, Verified, VersionVerified, Behaviour
<1>2. CASE Verified(p, s, vs)
  <2>1. shared' = s /\ version' = after /\ accepted' = accepted \cup {p}
    BY <1>2 DEF Commit
  <2>2. s[p] \in Texts \cup {None}
    BY DEF SharedRows
  <2>3. \A v \in VersionsOf[p] : v \in Versions /\ vs[v] \in VersionRows /\ VersionVerified(p, s, vs[v])
    BY <1>2, OwnerIsUnique DEF Verified
  <2>4. \A v \in VersionsOf[p] :
          Upgrade(p, s, vs[v]) \in VersionRows /\ VersionVerified(p, s, Upgrade(p, s, vs[v]))
    BY <2>2, <2>3, UpgradeVerifies
  <2> HIDE DEF after
  <2>5. /\ after \in [Versions -> VersionRows \cup {None}]
        /\ \A v \in VersionsOf[p] : after[v] = Upgrade(p, s, vs[v])
        /\ \A v \in Versions : v \notin VersionsOf[p] => after[v] = version[v]
    BY <2>4, OwnerIsUnique DEF after
  <2>6. Shapes'
    BY <2>1, <2>5, <1>t DEF Accepted, Shapes
  <2>7. QuestionsExist'
    <3> SUFFICES ASSUME NEW q \in Packages, NEW v \in VersionsOf[q], after[v] # None
                 PROVE  s[q] # None
      BY <2>1 DEF QuestionsExist
    <3>1. CASE q = p
      BY <3>1
    <3>2. CASE q # p
      <4>1. v \in Versions /\ v \notin VersionsOf[p]
        BY <3>2, OwnerIsUnique
      <4> QED BY <4>1, <2>5 DEF Accepted, QuestionsExist, SharedRows
    <3> QED BY <3>1, <3>2
  <2>8. RerunVerifies'
    <3> SUFFICES ASSUME NEW q \in accepted \cup {p}
                 PROVE  Verified(q, s, after)
      BY <2>1 DEF RerunVerifies
    <3>1. CASE q = p
      <4>1. \A v \in VersionsOf[p] : after[v] # None /\ VersionVerified(p, s, after[v])
        BY <2>4, <2>5, RowFields
      <4>2. \A r \in RecordsOf[p] : s[r] = "researched"
        BY <1>2 DEF Verified
      <4> QED BY <3>1, <4>1, <4>2 DEF Verified
    <3>2. CASE q # p
      <4>1. q \in Packages /\ Verified(q, shared, version)
        BY <3>2 DEF Accepted, Shapes, RerunVerifies
      <4>2. \A r \in RecordsOf[q] : s[r] = "researched"
        <5> SUFFICES ASSUME NEW r \in RecordsOf[q] PROVE s[r] = "researched"
          OBVIOUS
        <5>1. r \in SharedRows /\ shared[r] = "researched"
          BY <4>1, Partition DEF Verified, SharedRows
        <5> QED BY <5>1, AbsenceAssumption DEF Texts
      <4>3. ASSUME NEW v \in VersionsOf[q]
            PROVE  after[v] # None /\ VersionVerified(q, s, after[v])
        <5>1. v \in Versions /\ v \notin VersionsOf[p]
          BY <3>2, <4>1, OwnerIsUnique
        <5>2. version[v] # None /\ VersionVerified(q, shared, version[v])
          BY <4>1 DEF Verified
        <5>3. s[q] = shared[q]
          BY <4>1, <5>2 DEF Accepted, QuestionsExist, SharedRows
        <5>4. VersionVerified(q, s, version[v])
          BY <5>2, <5>3 DEF VersionVerified, Behaviour, ScenarioTexts, IsPrior
        <5> QED BY <5>1, <5>2, <5>4, <2>5
      <4> QED BY <4>2, <4>3 DEF Verified
    <3> QED BY <3>1, <3>2
  <2>9. \A v \in Versions : version'[v] # version[v] =>
          v \in VersionsOf[p] /\ version'[v] = Upgrade(p, s, vs[v]) /\ vs[v] # None
    BY <2>1, <2>3, <2>5, RowFields
  <2> QED BY <2>1, <2>6, <2>7, <2>8, <2>9 DEF Accepted
<1> QED BY <1>1, <1>2

(* A verification, or a creation that collides with nothing, in the terms of
   the lemma above.                                                         *)
LEMMA FinishKeeps ==
  ASSUME Accepted, NEW j \in Jobs, Finish(j)
  PROVE  /\ Accepted'
         /\ \A r \in SharedRows : shared[r] # None => shared'[r] = shared[r]
         /\ \A v \in Versions : version[v] # None /\ version'[v] # version[v] =>
              /\ version[v].state = "draft"
              /\ ScenarioTexts(version[v]) = PriorTexts
              /\ [version[v] EXCEPT !.scenario = version'[v].scenario] = version'[v]
<1> DEFINE p == run[j].package
           s == Written(p)
           created == [v \in Versions |-> IF v \in VersionsOf[p] THEN New(p, s) ELSE version[v]]
<1>1. run[j] # None /\ run' = [run EXCEPT ![j] = None] /\ p \in Packages
  BY DEF Finish, Accepted, Shapes
<1>2. CASE ~Creating(j)
  <2>1. Commit(j, shared, version)
    BY <1>2 DEF Finish
  <2>2. /\ shared \in [SharedRows -> Texts \cup {None}]
        /\ version \in [Versions -> VersionRows \cup {None}]
    BY DEF Accepted, Shapes
  <2>3. CASE shared[p] # None \/ VersionsOf[p] = {}
    <3>1. /\ Accepted'
          /\ \A r \in SharedRows : shared[r] # None => shared'[r] = shared[r]
          /\ \A v \in Versions : version'[v] # version[v] =>
               v \in VersionsOf[p] /\ version'[v] = Upgrade(p, shared, version[v]) /\ version[v] # None
      BY <1>1, <2>1, <2>2, <2>3, CommitKeeps
    <3>2. shared[p] \in Texts \cup {None}
      BY <1>1, <2>2 DEF SharedRows
    <3> QED BY <2>2, <3>1, <3>2, UpgradeVerifies
  <2>4. CASE shared[p] = None /\ VersionsOf[p] # {}
    <3>1. ~Verified(p, shared, version)
      BY <1>1, <2>4 DEF Accepted, QuestionsExist, Verified
    <3>2. UNCHANGED <<shared, version, accepted>>
      BY <2>1, <3>1 DEF Commit
    <3> QED BY <1>1, <3>2 DEF Accepted, Shapes, QuestionsExist, RerunVerifies, Verified, VersionVerified, Behaviour
  <2> QED BY <2>3, <2>4
<1>3. CASE Creating(j) /\ Collides(j)
  <2>1. UNCHANGED <<shared, version, accepted>>
    BY <1>3 DEF Finish
  <2> QED BY <1>1, <2>1 DEF Accepted, Shapes, QuestionsExist, RerunVerifies, Verified, VersionVerified, Behaviour
<1>4. CASE Creating(j) /\ ~Collides(j)
  <2>1. Commit(j, s, created)
    BY <1>4 DEF Finish
  <2>2. \A v \in VersionsOf[p] : version[v] = None
    BY <1>4 DEF Collides, Exist
  <2>3. /\ s \in [SharedRows -> Texts \cup {None}]
        /\ \A r \in SharedRows : shared[r] # None => s[r] = shared[r]
        /\ s[p] # None /\ s[p] \in Texts \cup {None}
    BY <1>1, AbsenceAssumption DEF Accepted, Shapes, Written, Missing, SharedOf, SharedRows, Texts
  <2> HIDE DEF s
  <2>4. New(p, s) \in VersionRows
    <3> DEFINE q == [state |-> "draft", text |-> "researched", trust |-> "researched", scenario |-> None]
    <3>1. ResearchedTexts \in [Scenarios -> Texts \cup {"prior", None}]
      BY DEF ResearchedTexts, Texts
    <3>2. Sealed(p, s, q, ResearchedTexts) \in VersionRows
      BY <3>1, <2>3, SealedRow DEF Texts
    <3> QED BY <3>2 DEF New
  <2>5. /\ created \in [Versions -> VersionRows \cup {None}]
        /\ \A v \in Versions : v \notin VersionsOf[p] => created[v] = version[v]
    BY <2>4 DEF Accepted, Shapes
  <2> HIDE DEF created
  <2>6. /\ Accepted'
        /\ \A r \in SharedRows : shared[r] # None => shared'[r] = shared[r]
        /\ \A v \in Versions : version'[v] # version[v] => v \in VersionsOf[p]
    BY <1>1, <2>1, <2>3, <2>5, CommitKeeps
  <2> QED BY <2>2, <2>6
<1> QED BY <1>2, <1>3, <1>4

-----------------------------------------------------------------------------
(* Editors, reviewers and administrators. *)

LEMMA BeginKeeps ==
  ASSUME Accepted, NEW j \in Jobs, NEW p \in Packages, Begin(j, p)
  PROVE  Accepted' /\ UNCHANGED <<shared, version>>
<1>1. UNCHANGED <<shared, version, accepted>>
  BY DEF Begin
<1>2. run' \in [Jobs -> [package : Packages, makes : (SUBSET SharedRows) \cup {None}] \cup {None}]
  <2>1. Missing(p) \in SUBSET SharedRows
    BY Partition DEF Missing, SharedOf, SharedRows
  <2> QED BY <2>1 DEF Begin, BeginCreation, BeginVerification, Accepted, Shapes
<1> QED
  BY <1>1, <1>2 DEF Accepted, Shapes, QuestionsExist, RerunVerifies, Verified, VersionVerified, Behaviour

LEMMA AddSharedKeeps ==
  ASSUME Accepted, NEW r \in SharedRows, AddShared(r)
  PROVE  Accepted'
<1>1. PICK t \in Texts : shared' = [shared EXCEPT ![r] = t]
  BY DEF AddShared
<1>2. shared[r] = None /\ UNCHANGED <<version, run>> /\ accepted' = accepted
  BY DEF AddShared, Edited, Accepted, Shapes
<1>3. Shapes'
  BY <1>1, <1>2 DEF Accepted, Shapes
<1>4. QuestionsExist'
  BY <1>1, <1>2, AbsenceAssumption DEF Accepted, Shapes, QuestionsExist, SharedRows
<1>5. RerunVerifies'
  <2> SUFFICES ASSUME NEW p \in accepted PROVE Verified(p, shared', version)
    BY <1>2 DEF RerunVerifies, Verified, VersionVerified, Behaviour
  <2>1. p \in Packages /\ Verified(p, shared, version)
    BY DEF Accepted, Shapes, RerunVerifies
  <2>2. \A q \in RecordsOf[p] : shared'[q] = "researched"
    <3> SUFFICES ASSUME NEW q \in RecordsOf[p] PROVE shared'[q] = "researched"
      OBVIOUS
    <3>1. q \in SharedRows /\ shared[q] = "researched" /\ q # r
      BY <1>2, <2>1, Partition, AbsenceAssumption DEF Verified, SharedRows, Texts
    <3> QED BY <1>1, <3>1 DEF Accepted, Shapes
  <2>3. \A v \in VersionsOf[p] : version[v] # None /\ VersionVerified(p, shared', version[v])
    <3> SUFFICES ASSUME NEW v \in VersionsOf[p]
                 PROVE  version[v] # None /\ VersionVerified(p, shared', version[v])
      OBVIOUS
    <3>1. version[v] # None /\ VersionVerified(p, shared, version[v])
      BY <2>1 DEF Verified
    <3>2. shared'[p] = shared[p]
      BY <1>1, <1>2, <2>1, <3>1 DEF Accepted, Shapes, QuestionsExist, SharedRows
    <3> QED BY <3>1, <3>2 DEF VersionVerified, Behaviour
  <2> QED BY <2>2, <2>3 DEF Verified
<1> QED BY <1>3, <1>4, <1>5 DEF Accepted

LEMMA EditSharedKeeps ==
  ASSUME Accepted, NEW r \in SharedRows, EditShared(r)
  PROVE  Accepted'
<1>1. /\ shared[r] # None /\ shared' = [shared EXCEPT ![r] = Other(shared[r])]
      /\ UNCHANGED <<version, run>>
      /\ accepted' = accepted \ {p \in Packages : r \in SharedOf(p)}
  BY DEF EditShared, Edited
<1>2. Other(shared[r]) \in Texts /\ Other(shared[r]) # None
  BY AbsenceAssumption DEF Other, Texts
<1>3. Shapes'
  BY <1>1, <1>2 DEF Accepted, Shapes
<1>4. QuestionsExist'
  BY <1>1, <1>2 DEF Accepted, Shapes, QuestionsExist, SharedRows
<1>5. RerunVerifies'
  <2> SUFFICES ASSUME NEW p \in accepted, p \in Packages, r \notin SharedOf(p)
               PROVE  Verified(p, shared', version)
    BY <1>1 DEF RerunVerifies, Verified, VersionVerified, Behaviour, Accepted, Shapes
  <2>1. Verified(p, shared, version)
    BY DEF Accepted, RerunVerifies
  <2>2. \A q \in SharedOf(p) : shared'[q] = shared[q]
    BY <1>1, Partition DEF Accepted, Shapes, SharedOf, SharedRows
  <2>3. \A q \in RecordsOf[p] : shared'[q] = "researched"
    BY <2>1, <2>2 DEF Verified, SharedOf
  <2>4. shared'[p] = shared[p]
    BY <2>2 DEF SharedOf
  <2>5. \A v \in VersionsOf[p] : version[v] # None /\ VersionVerified(p, shared', version[v])
    BY <2>1, <2>4 DEF Verified, VersionVerified, Behaviour
  <2> QED BY <2>3, <2>5 DEF Verified
<1> QED BY <1>3, <1>4, <1>5 DEF Accepted

(* A version changes: if the change costs its package the acceptance, or if
   it verifies as before, what is accepted verifies.                         *)
LEMMA ChangeKeeps ==
  ASSUME Accepted, NEW v \in Versions, version[v] # None, NEW q \in VersionRows,
         version' = [version EXCEPT ![v] = q], UNCHANGED <<shared, run>>,
         \/ accepted' = accepted \ {Owner(v)}
         \/ /\ accepted' = accepted
            /\ VersionVerified(Owner(v), shared, version[v]) => VersionVerified(Owner(v), shared, q)
  PROVE  Accepted'
<1>1. q # None
  BY RowFields
<1>2. Shapes'
  BY DEF Accepted, Shapes
<1>3. QuestionsExist'
  BY OwnerIsUnique DEF Accepted, Shapes, QuestionsExist
<1>4. ASSUME NEW p \in accepted, p \in Packages,
             \/ p # Owner(v)
             \/ VersionVerified(p, shared, version[v]) => VersionVerified(p, shared, q)
      PROVE  Verified(p, shared, version')
  <2>1. Verified(p, shared, version)
    BY <1>4 DEF Accepted, RerunVerifies
  <2>2. ASSUME NEW w \in VersionsOf[p]
        PROVE  version'[w] # None /\ VersionVerified(p, shared, version'[w])
    <3>1. w \in Versions /\ Owner(w) = p /\ version[w] # None /\ VersionVerified(p, shared, version[w])
      BY <1>4, <2>1, <2>2, OwnerIsUnique DEF Verified
    <3>2. CASE w # v
      <4>1. version'[w] = version[w]
        BY <3>2 DEF Accepted, Shapes
      <4> QED BY <3>1, <4>1
    <3>3. CASE w = v
      <4>1. version'[w] = q
        BY <3>1, <3>3 DEF Accepted, Shapes
      <4> QED BY <1>1, <1>4, <3>1, <3>3, <4>1
    <3> QED BY <3>2, <3>3
  <2> QED BY <2>1, <2>2 DEF Verified
<1>5. RerunVerifies'
  <2>1. \A p \in Packages : Verified(p, shared, version') => Verified(p, shared, version)'
    BY DEF Verified, VersionVerified, Behaviour
  <2>2. \A p \in accepted' : /\ p \in accepted /\ p \in Packages
                             /\ \/ p # Owner(v)
                                \/ VersionVerified(p, shared, version[v]) => VersionVerified(p, shared, q)
    BY DEF Accepted, Shapes
  <2> QED BY <1>4, <2>1, <2>2 DEF RerunVerifies
<1> QED BY <1>2, <1>3, <1>5 DEF Accepted

LEMMA WorkKeeps ==
  ASSUME Accepted, NEW v \in Versions, version[v] # None, Work(v)
  PROVE  Accepted' /\ UNCHANGED run
<1>o. PICK o \in VersionRows : o = version[v]
  BY DEF Accepted, Shapes
<1>f. /\ o = [state |-> o.state, text |-> o.text, trust |-> o.trust, scenario |-> o.scenario]
      /\ o.state \in {"draft", "published", "withdrawn"} /\ o.text \in Texts /\ o.trust \in Texts
      /\ o.scenario \in [Scenarios -> ScenarioRows \cup {None}]
  BY RowFields
<1>1. CASE EditText(v) \/ EditTrust(v) \/ Reverify(v)
  <2>1. PICK q : /\ version' = [version EXCEPT ![v] = q]
                 /\ \/ q = [o EXCEPT !.text = Other(@)]
                    \/ q = [o EXCEPT !.trust = Other(@)]
                    \/ q = [o EXCEPT !.trust = "edited"]
    BY <1>1, <1>o DEF EditText, EditTrust, Reverify, Save, Accepted, Shapes
  <2>2. q \in VersionRows
    BY <2>1, <1>f DEF VersionRows, Other, Texts
  <2>3. accepted' = accepted \ {Owner(v)} /\ UNCHANGED <<shared, run>>
    BY <1>1 DEF EditText, EditTrust, Reverify, Save, Edited
  <2> QED BY <2>1, <2>2, <2>3, ChangeKeeps
<1>2. ASSUME NEW i \in Scenarios, NEW t \in Texts \cup ({ScenarioTexts(version[v])[i]} \ {None}),
             SaveScenario(v, i, t)
      PROVE  Accepted' /\ UNCHANGED run
  <2> DEFINE new == [text |-> t, seal |-> Behaviour(Owner(v), shared, version[v])]
             q == [version[v] EXCEPT !.scenario[i] = new]
  <2>1. version' = [version EXCEPT ![v] = q] /\ accepted' = accepted \ {Owner(v)} /\ UNCHANGED <<shared, run>>
    BY <1>2 DEF SaveScenario, Save, Edited
  <2>2. t \in Texts \cup {"prior"}
    <3> SUFFICES ASSUME t \notin Texts PROVE t = "prior"
      OBVIOUS
    <3>1. t = ScenarioTexts(o)[i] /\ t # None
      BY <1>o
    <3>2. o.scenario[i] # None /\ t = o.scenario[i].text
      BY <3>1 DEF ScenarioTexts
    <3>3. o.scenario[i] \in ScenarioRows
      BY <3>2, <1>f
    <3> QED BY <3>2, <3>3 DEF ScenarioRows
  <2>3. new \in ScenarioRows
    <3>1. shared[Owner(v)] \in Texts \cup {None}
      BY OwnerExists DEF Accepted, Shapes, SharedRows
    <3> QED BY <2>2, <3>1, <1>o, <1>f DEF Behaviour, ScenarioRows
  <2> HIDE DEF new
  <2>4. q \in VersionRows
    <3>1. q = [state |-> o.state, text |-> o.text, trust |-> o.trust, scenario |-> [o.scenario EXCEPT ![i] = new]]
      BY <1>o, <1>f
    <3>2. [o.scenario EXCEPT ![i] = new] \in [Scenarios -> ScenarioRows \cup {None}]
      BY <2>3, <1>f
    <3> HIDE DEF q
    <3> QED BY <3>1, <3>2, <1>f DEF VersionRows
  <2> HIDE DEF q
  <2> QED BY <2>1, <2>4, ChangeKeeps
<1>3. CASE Publish(v) \/ Withdraw(v)
  <2>1. PICK st \in {"published", "withdrawn"} : version' = [version EXCEPT ![v].state = st]
    BY <1>3 DEF Publish, Withdraw, Advance
  <2>2. UNCHANGED <<shared, run, accepted>>
    BY <1>3 DEF Publish, Withdraw, Advance
  <2>3. PICK q : q = [o EXCEPT !.state = st]
    OBVIOUS
  <2>4. version' = [version EXCEPT ![v] = q]
    BY <2>1, <2>3, <1>o
  <2>5. q \in VersionRows /\ (VersionVerified(Owner(v), shared, version[v]) => VersionVerified(Owner(v), shared, q))
    BY <2>3, <1>o, StateDoesNotCount
  <2> QED BY <2>2, <2>4, <2>5, ChangeKeeps
<1> QED BY <1>1, <1>2, <1>3 DEF Work

-----------------------------------------------------------------------------

LEMMA AcceptedIsKept == Accepted /\ [Next]_vars => Accepted'
<1> SUFFICES ASSUME Accepted, [Next]_vars PROVE Accepted'
  OBVIOUS
<1>1. ASSUME NEW j \in Jobs, Finish(j) PROVE Accepted'
  BY <1>1, FinishKeeps
<1>2. ASSUME NEW j \in Jobs, NEW p \in Packages, Begin(j, p) PROVE Accepted'
  BY <1>2, BeginKeeps
<1>3. CASE PublishFacts
  BY <1>3 DEF PublishFacts, Accepted, Shapes, QuestionsExist, RerunVerifies, Verified, VersionVerified, Behaviour
<1>4. ASSUME NEW r \in SharedRows, AddShared(r) PROVE Accepted'
  BY <1>4, AddSharedKeeps
<1>5. ASSUME NEW r \in SharedRows, EditShared(r) PROVE Accepted'
  BY <1>5, EditSharedKeeps
<1>6. ASSUME NEW v \in Versions, version[v] # None, Work(v) PROVE Accepted'
  BY <1>6, WorkKeeps
<1>7. CASE UNCHANGED vars
  BY <1>7 DEF vars, Accepted, Shapes, QuestionsExist, RerunVerifies, Verified, VersionVerified, Behaviour
<1> QED BY <1>1, <1>2, <1>3, <1>4, <1>5, <1>6, <1>7 DEF Next, ImporterNext

(* What an importer accepted and nobody edited since verifies again, whatever
   was published, withdrawn, upgraded or imported in between: running an
   importer twice is safe, for every set of packages that share records.      *)
THEOREM RerunIsSafe == Spec => []RerunVerifies
<1>1. Accepted => RerunVerifies
  BY DEF Accepted
<1> QED BY InitialRows, AcceptedIsKept, <1>1, PTL DEF Spec

Untouched ==
  run' # run =>
    /\ \A r \in SharedRows : shared[r] # None => shared'[r] = shared[r]
    /\ \A v \in Versions : version[v] # None /\ version'[v] # version[v] =>
         /\ version[v].state = "draft"
         /\ ScenarioTexts(version[v]) = PriorTexts
         /\ [version[v] EXCEPT !.scenario = version'[v].scenario] = version'[v]

LEMMA StepsRewriteNothing == Accepted /\ [Next]_vars => [Untouched]_vars
<1> SUFFICES ASSUME Accepted, Next, run' # run PROVE Untouched
  BY DEF Untouched
<1>1. ASSUME NEW j \in Jobs, Finish(j) PROVE Untouched
  BY <1>1, FinishKeeps DEF Untouched
<1>2. ASSUME NEW j \in Jobs, NEW p \in Packages, Begin(j, p) PROVE Untouched
  BY <1>2, BeginKeeps DEF Untouched
<1>3. ~PublishFacts
  BY DEF PublishFacts
<1>4. ASSUME NEW r \in SharedRows PROVE ~AddShared(r) /\ ~EditShared(r)
  BY DEF AddShared, EditShared, Edited
<1>5. ASSUME NEW v \in Versions, version[v] # None PROVE ~Work(v)
  BY <1>5, WorkKeeps
<1> QED BY <1>1, <1>2, <1>3, <1>4, <1>5 DEF Next, ImporterNext

(* An importer rewrites nothing it finds: records and questions keep their
   text, and of a version only the scenarios of a draft that carries exactly
   those of the older release are replaced.                                   *)
THEOREM ImportersRewriteNothing == Spec => NothingRewritten
<1>1. Spec => [][Untouched]_vars
  BY InitialRows, AcceptedIsKept, StepsRewriteNothing, PTL DEF Spec
<1> QED BY <1>1 DEF Untouched, NothingRewritten
=============================================================================
