------------------------------ MODULE Importers ------------------------------
(***************************************************************************)
(* The deterministic importers of researched packages: each creates its    *)
(* versions from nothing, or verifies the versions it finds, while editors *)
(* change the rows it shares and other importers run.  A transaction reads *)
(* what is committed when it reads it; the unique identities make the      *)
(* second of two creators of one row fail.                                 *)
(***************************************************************************)
EXTENDS Naturals, FiniteSets

CONSTANTS
  None,
  Jobs,        \* importer processes
  Packages,    \* researched packages, one importer each
  Versions, VersionsOf,    \* the versions a package creates
  Records, RecordsOf,      \* authorities, sources and material it cites
  Upgraded,    \* packages that recognise and upgrade an older set of scenarios
  Undigested,  \* packages whose scenario texts no digest covers
  MaxEdits

ASSUME Partition ==
  /\ VersionsOf \in [Packages -> SUBSET Versions]
  /\ RecordsOf \in [Packages -> SUBSET Records]
  /\ \A p, q \in Packages : p # q => VersionsOf[p] \cap VersionsOf[q] = {}
  /\ \A v \in Versions : \E p \in Packages : v \in VersionsOf[p]

VARIABLES
  facts,     \* the fact definitions of the code are published
  shared,    \* of each record, and of each package's questions and candidate: the text, or None
  version,   \* of each version: [state, text, trust, scenario], or None
  run,       \* of each job: [package, makes], or None
  edits,     \* changes by editors so far
  accepted   \* packages an importer accepted and nobody edited since

vars == <<facts, shared, version, run, edits, accepted>>

Texts == {"researched", "edited"}
Scenarios == {"first", "added"}    \* the second came with the upgrade

ScenarioRows ==
  [text : Texts \cup {"prior"}, seal : Texts \X (Texts \cup {None})]

VersionRows ==
  [state : {"draft", "published", "withdrawn"}, text : Texts, trust : Texts,
   scenario : [Scenarios -> ScenarioRows \cup {None}]]

\* A row that does not exist is none of the rows.
ASSUME AbsenceAssumption ==
  None \notin Texts \cup {"prior"} /\ None \notin ScenarioRows /\ None \notin VersionRows

SharedOf(p) == RecordsOf[p] \cup {p}
SharedRows == Records \cup Packages
Owner(v) == CHOOSE p \in Packages : v \in VersionsOf[p]
Exist(p) == {v \in VersionsOf[p] : version[v] # None}
Other(t) == IF t = "researched" THEN "edited" ELSE "researched"

-----------------------------------------------------------------------------
(* Seals and digests. *)

\* Fault: the lifecycle of a version belongs to its behaviour.
BehaviourWithState(p, s, v) == <<v.text, s[p], v.state>>

\* What a scenario is sealed with: claims, questions and candidate; no trust, no state.
Behaviour(p, s, v) == <<v.text, s[p]>>

Sealed(p, s, v, texts) ==
  [v EXCEPT !.scenario = [i \in Scenarios |->
     IF texts[i] = None THEN None ELSE [text |-> texts[i], seal |-> Behaviour(p, s, v)]]]

ScenarioTexts(v) ==
  [i \in Scenarios |-> IF v.scenario[i] = None THEN None ELSE v.scenario[i].text]

ResearchedTexts == [i \in Scenarios |-> "researched"]
PriorTexts == [first |-> "prior", added |-> None]
IsPrior(p, v) == p \in Upgraded /\ ScenarioTexts(v) = PriorTexts

VersionVerified(p, s, v) ==
  /\ {v.scenario[i].seal : i \in {j \in Scenarios : v.scenario[j] # None}} = {Behaviour(p, s, v)}
  /\ p \in Undigested \/ ScenarioTexts(v) = ResearchedTexts \/ IsPrior(p, v)
  /\ v.trust = "researched"

Verified(p, s, vs) ==
  /\ \A v \in VersionsOf[p] : vs[v] # None /\ VersionVerified(p, s, vs[v])
  /\ \A r \in RecordsOf[p] : s[r] = "researched"

-----------------------------------------------------------------------------
(* An importer. *)

Creating(j) == run[j] # None /\ run[j].makes # None
Locked(p) == \E j \in Jobs : run[j] # None /\ run[j].package = p /\ run[j].makes = None

Missing(p) == {r \in SharedOf(p) : shared[r] = None}

\* Nothing exists: every shared row is reused as researched, or missing.
BeginCreation(j, p) ==
  /\ Exist(p) = {}
  /\ facts
  /\ \A r \in SharedOf(p) : shared[r] # "edited"
  /\ run' = [run EXCEPT ![j] = [package |-> p, makes |-> Missing(p)]]

\* All versions exist: they are locked, and verified instead of written.
BeginVerification(j, p) ==
  /\ Exist(p) = VersionsOf[p]
  /\ ~Locked(p)
  /\ run' = [run EXCEPT ![j] = [package |-> p, makes |-> None]]

\* Anything else is refused at once, and nothing has changed.
Begin(j, p) ==
  /\ run[j] = None
  /\ BeginCreation(j, p) \/ BeginVerification(j, p)
  /\ UNCHANGED <<facts, shared, version, edits, accepted>>

\* Fault: rows that were reused are saved again.
WrittenAgain(p) == [r \in SharedRows |-> IF r \in SharedOf(p) THEN "researched" ELSE shared[r]]

Written(p) == [r \in SharedRows |-> IF r \in Missing(p) THEN "researched" ELSE shared[r]]

New(p, s) ==
  Sealed(p, s, [state |-> "draft", text |-> "researched", trust |-> "researched", scenario |-> None],
         ResearchedTexts)

\* Fault: a lost race fails although the row is as researched, and so for ever.
CollidesWithAny(j) == Exist(run[j].package) # {} \/ run[j].makes # SharedOf(run[j].package)

\* Someone else committed a row that this transaction was creating.
Collides(j) ==
  LET p == run[j].package IN Exist(p) # {} \/ \E r \in run[j].makes : shared[r] # None

\* Fault: scenarios of published versions are brought up to date as well.
UpgradeInAnyState(p, s, v) == IF IsPrior(p, v) THEN Sealed(p, s, v, ResearchedTexts) ELSE v

Upgrade(p, s, v) == IF v.state = "draft" THEN UpgradeInAnyState(p, s, v) ELSE v

Commit(j, s, vs) ==
  LET p == run[j].package
      after == [v \in Versions |-> IF v \in VersionsOf[p] THEN Upgrade(p, s, vs[v]) ELSE vs[v]]
  IN IF Verified(p, s, vs)
     THEN shared' = s /\ version' = after /\ accepted' = accepted \cup {p}
     ELSE UNCHANGED <<shared, version, accepted>>

\* Creates and verifies, or verifies; what fails rolls back.
Finish(j) ==
  /\ run[j] # None
  /\ LET p == run[j].package
         s == Written(p)
     IN IF ~Creating(j) THEN Commit(j, shared, version)
        ELSE IF Collides(j) THEN UNCHANGED <<shared, version, accepted>>
        ELSE Commit(j, s, [v \in Versions |-> IF v \in VersionsOf[p] THEN New(p, s) ELSE version[v]])
  /\ run' = [run EXCEPT ![j] = None]
  /\ UNCHANGED <<facts, edits>>

-----------------------------------------------------------------------------
(* Editors, reviewers and administrators. *)

PublishFacts == facts' = TRUE /\ UNCHANGED <<shared, version, run, edits, accepted>>

Edited(touched) ==
  /\ edits < MaxEdits
  /\ edits' = edits + 1
  /\ accepted' = accepted \ touched
  /\ UNCHANGED <<facts, run>>

Cited(r) == \E p \in Packages : r \in RecordsOf[p] /\
              \E v \in Exist(p) : version[v].state # "draft"

\* An editor writes the row by hand, before any importer does.
AddShared(r) ==
  /\ shared[r] = None
  /\ \E t \in Texts : shared' = [shared EXCEPT ![r] = t]
  /\ Edited({})
  /\ UNCHANGED version

EditShared(r) ==
  /\ shared[r] # None
  /\ ~Cited(r)
  /\ shared' = [shared EXCEPT ![r] = Other(@)]
  /\ Edited({p \in Packages : r \in SharedOf(p)})
  /\ UNCHANGED version

Save(v, new) ==
  /\ version[v].state = "draft" /\ ~Locked(Owner(v))
  /\ version' = [version EXCEPT ![v] = new]
  /\ Edited({Owner(v)})
  /\ UNCHANGED shared

EditText(v) == Save(v, [version[v] EXCEPT !.text = Other(@)])
EditTrust(v) == Save(v, [version[v] EXCEPT !.trust = Other(@)])

\* One scenario is saved, changed or not, and sealed with the behaviour of the day.
SaveScenario(v, i, t) ==
  Save(v, [version[v] EXCEPT !.scenario[i] =
             [text |-> t, seal |-> Behaviour(Owner(v), shared, version[v])]])

\* Evidence of a published version is verified again.
Reverify(v) ==
  /\ version[v].state = "published" /\ ~Locked(Owner(v))
  /\ version' = [version EXCEPT ![v].trust = "edited"]
  /\ Edited({Owner(v)})
  /\ UNCHANGED shared

Advance(v, from, to) ==
  /\ version[v].state = from /\ ~Locked(Owner(v))
  /\ version' = [version EXCEPT ![v].state = to]
  /\ UNCHANGED <<facts, shared, run, edits, accepted>>

\* The gates admit a version whose scenarios are sealed with its behaviour.
Publish(v) ==
  /\ \A i \in Scenarios : version[v].scenario[i] # None =>
       version[v].scenario[i].seal = Behaviour(Owner(v), shared, version[v])
  /\ Advance(v, "draft", "published")

Withdraw(v) == Advance(v, "published", "withdrawn")

Work(v) ==
  \/ EditText(v) \/ EditTrust(v) \/ Reverify(v) \/ Publish(v) \/ Withdraw(v)
  \/ \E i \in Scenarios : \E t \in Texts \cup ({ScenarioTexts(version[v])[i]} \ {None}) : SaveScenario(v, i, t)

-----------------------------------------------------------------------------
\* A package is absent, or an older release imported it.
Prior(p, s, st) ==
  Sealed(p, s, [state |-> st, text |-> "researched", trust |-> "researched", scenario |-> None],
         PriorTexts)

Init ==
  /\ facts \in BOOLEAN
  /\ \E old \in SUBSET Upgraded, st \in {"draft", "published"} :
       /\ old # {} => facts
       /\ shared = [r \in SharedRows |-> IF \E p \in old : r \in SharedOf(p) THEN "researched"
                                         ELSE None]
       /\ version = [v \in Versions |-> IF Owner(v) \in old THEN Prior(Owner(v), shared, st)
                                        ELSE None]
  /\ run = [j \in Jobs |-> None]
  /\ edits = 0
  /\ accepted = {}

ImporterNext == \E j \in Jobs : Finish(j) \/ \E p \in Packages : Begin(j, p)

Next ==
  \/ ImporterNext
  \/ PublishFacts
  \/ \E r \in SharedRows : AddShared(r) \/ EditShared(r)
  \/ \E v \in Versions : version[v] # None /\ Work(v)

Spec == Init /\ [][Next]_vars

\* An operator runs a package again until it is in; a command that runs ends.
FairSpec ==
  /\ Spec
  /\ \A j \in Jobs : WF_<<run>>(Finish(j))
  /\ \A p \in Packages : SF_<<run>>(\E j \in Jobs : Begin(j, p))

-----------------------------------------------------------------------------
(* Properties. *)

\* Idempotence: what an importer accepted and nobody edited is accepted
\* again, whatever was published, withdrawn, upgraded or imported since.
RerunVerifies == \A p \in accepted : Verified(p, shared, version)

\* An importer rewrites nothing: shared rows keep their text, versions keep
\* everything, and only a draft that carries exactly the older scenarios gets
\* the new ones.
NothingRewritten ==
  [][run' # run =>
       /\ \A r \in SharedRows : shared[r] # None => shared'[r] = shared[r]
       /\ \A v \in Versions : version[v] # None /\ version'[v] # version[v] =>
            /\ version[v].state = "draft"
            /\ ScenarioTexts(version[v]) = PriorTexts
            /\ [version[v] EXCEPT !.scenario = version'[v].scenario] = version'[v]]_vars

\* Whatever the order and the collisions of the importers, repeated runs bring
\* every package in, unless an editor comes between.
ImportsConverge ==
  facts ~> (edits > 0 \/ \A p \in Packages : Exist(p) = VersionsOf[p])

\* docs/importer-development.md: "fail-closed - reject unexpected existing semantic
\* drift rather than overwrite it": an importer that finds its versions accepts
\* them only as they were researched.
DriftIsRejected ==
  [][\A p \in accepted' \ accepted : Exist(p) # {} =>
       /\ shared[p] = "researched"
       /\ \A v \in VersionsOf[p] : version[v].text = "researched"]_vars
=============================================================================
