----------------------------- MODULE DraftImport -----------------------------
(***************************************************************************)
(* Authoring one draft version: editors save rows in the Admin, a          *)
(* published version is cloned into the draft, and draft packs, exported   *)
(* from the live draft or composed from nothing, are inspected, imported   *)
(* and confirmed.  An answer may be lost, so every request may be sent     *)
(* again; an import may crash before it commits.                           *)
(***************************************************************************)
EXTENDS Naturals, FiniteSets

CONSTANTS
  None,
  Claims, Basis,      \* the claims of a version; the basis others are scoped to
  Texts, Passages,    \* authored texts; passages of evidence
  Clients,            \* people who hold a pack
  Source, Draft,      \* a published version, and the draft under work
  MaxWork             \* bound on packs and transactions of editors, together

ASSUME PartsAssumption ==
  /\ Basis \in Claims /\ Texts # {} /\ Source # Draft

VARIABLES
  db,        \* [version: of Source and Draft, shared: catalogue row, other]
  editing,   \* an editor's transaction holds its tables
  cloning,   \* the source a clone has read and locked, or None
  importer,  \* the import that holds every table: [client, mode, allow], or None
  client,    \* of each client: [pack, token]
  reply,     \* the answer of this step: [client, code], or None
  work       \* packs and transactions of editors so far

vars == <<db, editing, cloning, importer, client, reply, work>>

-----------------------------------------------------------------------------
(* The types of versions, packs and databases. *)

Rows ==
  [text : Texts, scoped : BOOLEAN, evidence : Passages \cup {None}, trusted : BOOLEAN]

Contents ==
  [meta : Texts,
   claims : [Claims -> [text : Texts, scoped : BOOLEAN, evidence : Passages \cup {None}]
                       \cup {None}],
   scenario : Texts \cup {None}]

Behaviours == [meta : Texts, claims : [Claims -> (Texts \X BOOLEAN) \cup {None}]]

VersionsWith(receipts) ==
  [state : {"draft", "published", "withdrawn"}, meta : Texts, rows : [Claims -> Rows \cup {None}],
   history : SUBSET Claims, risk : BOOLEAN,
   scenario : [text : Texts, seal : Behaviours] \cup {None}, receipt : receipts]

DatabasesWith(receipts, others) ==
  [version : [{Source, Draft} -> VersionsWith(receipts) \cup {None}],
   shared : Texts \cup {None}, other : others]

Revisions == DatabasesWith({None}, {None})

PackRows ==
  [base : Revisions \cup {None}, explicit : BOOLEAN, content : Contents, risk : BOOLEAN,
   shared : Texts \cup {None}]

Receipts  == [request : PackRows, revision : Revisions]
Versions  == VersionsWith(Receipts \cup {None})
Databases == DatabasesWith(Receipts \cup {None}, {0, 1})
Tokens    == [precondition : DatabasesWith({None}, {0, 1}), requires : BOOLEAN,
              after : DatabasesWith({None}, {0, 1})]
Imports   == [client : Clients, mode : {"inspect", "import", "confirm"}, allow : BOOLEAN]

Refusals ==
  {"not_found", "invalid_base_revision", "stale_inspection", "immutable_version", "noop",
   "identity_collision", "stale_revision", "shared_conflict", "risk_reduction",
   "deletions_require_confirmation", "unresolved_reference", "protected_history"}

\* What is absent is none of what may be present.
ASSUME AbsenceAssumption ==
  /\ None \notin Texts /\ None \notin Rows /\ None \notin PackRows
  /\ None \notin [text : Texts, scoped : BOOLEAN, evidence : Passages \cup {None}]
  /\ None \notin [text : Texts, seal : Behaviours] /\ None \notin Texts \X BOOLEAN
  /\ None \notin Receipts /\ None \notin Versions /\ None \notin VersionsWith({None})
  /\ None \notin Tokens /\ None \notin Imports /\ None \notin Refusals

-----------------------------------------------------------------------------
(* Versions, packs and digests. *)

Authored(row) ==
  IF row = None THEN None
  ELSE [text |-> row.text, scoped |-> row.scoped, evidence |-> row.evidence]

WithTrust(row, trusted) ==
  [text |-> row.text, scoped |-> row.scoped, evidence |-> row.evidence, trusted |-> trusted]

AuthoredRows(k) ==
  [text : Texts, scoped : IF k = Basis THEN {FALSE} ELSE BOOLEAN, evidence : Passages \cup {None}]

ScenarioText(v) == IF v.scenario = None THEN None ELSE v.scenario.text

Content(v) ==
  [meta |-> v.meta, claims |-> [k \in Claims |-> Authored(v.rows[k])],
   scenario |-> ScenarioText(v)]

\* What a scenario is sealed with: no evidence and no trust.
Behaviour(v) ==
  [meta |-> v.meta,
   claims |-> [k \in Claims |-> IF v.rows[k] = None THEN None
                                ELSE <<v.rows[k].text, v.rows[k].scoped>>]]

WithoutReceipt(v) == IF v = None THEN None ELSE [v EXCEPT !.receipt = None]

\* Everything but the receipt.
Live(d) == [d EXCEPT !.version[Draft] = WithoutReceipt(@)]

\* Fault: a preview is bound to the version alone.
PreconditionOfVersion(d) == WithoutReceipt(d.version[Draft])

Precondition(d) == Live(d)

\* The rows of unrelated versions do not belong to the revision.
Revision(d) == [Live(d) EXCEPT !.other = None]

\* A row with one field changed, removed, or written again after a removal.
Neighbours(k, r) ==
  {None} \cup {new \in AuthoredRows(k) :
                r = None \/ Cardinality({f \in DOMAIN new : new[f] # r[f]}) <= 1}

\* Everything a pack may say, one change away from what it was made of.
OneChange(content) ==
  {content} \cup {[content EXCEPT !.meta = t] : t \in Texts}
  \cup {[content EXCEPT !.scenario = t] : t \in Texts \cup {None}}
  \cup UNION {{[content EXCEPT !.claims[k] = r] : r \in Neighbours(k, content.claims[k])} :
              k \in Claims}

Packs(base, explicit, v) ==
  [base : {base}, explicit : {explicit}, content : OneChange(Content(v)),
   risk : {v.risk}, shared : {None}]
  \cup [base : {base}, explicit : {explicit}, content : {Content(v)},
        risk : BOOLEAN, shared : Texts \cup {None}]

Blank(p) ==
  [state |-> "draft", meta |-> p.content.meta, rows |-> [k \in Claims |-> None],
   history |-> {}, risk |-> FALSE, scenario |-> None, receipt |-> None]

-----------------------------------------------------------------------------
(* Reconciliation of the draft with a pack. *)

\* Fault: a basis is changed under the claims that are scoped to it.
AffectedDirectly(old, content) ==
  {k \in Claims : \/ Authored(old.rows[k]) # content.claims[k]
                  \/ old.meta # content.meta /\ content.claims[k] # None}

Affected(old, content) ==
  LET direct == AffectedDirectly(old, content)
      Scoped(row) == row # None /\ row.scoped
  IN direct \cup {k \in Claims : /\ Basis \in direct
                                 /\ Scoped(old.rows[k]) \/ Scoped(content.claims[k])}

Deletes(old, content) ==
  \/ \E k \in Claims : /\ old.rows[k] # None
                       /\ \/ content.claims[k] = None
                          \/ old.rows[k].evidence # None /\ content.claims[k].evidence = None
  \/ old.scenario # None /\ content.scenario = None

\* Fault: every scenario is saved again, and sealed with what it never ran on.
ScenarioResealed(old, new, content) ==
  IF content.scenario = None THEN None
  ELSE [text |-> content.scenario, seal |-> Behaviour(new)]

Scenario(old, new, content) ==
  IF content.scenario = ScenarioText(old) THEN old.scenario
  ELSE ScenarioResealed(old, new, content)

Reconciled(old, p) ==
  LET hit == Affected(old, p.content)
      Row(k) == WithTrust(p.content.claims[k], k \notin hit /\ old.rows[k].trusted)
      new == [old EXCEPT !.meta = p.content.meta,
                         !.rows = [k \in Claims |-> IF p.content.claims[k] = None THEN None
                                                    ELSE Row(k)],
                         !.risk = @ \/ p.risk]
  IN [new EXCEPT !.scenario = Scenario(old, new, p.content)]

OldVersion(d, p) == IF d.version[Draft] = None THEN Blank(p) ELSE d.version[Draft]

Written(d, p) ==
  LET next == [d EXCEPT !.version[Draft] = Reconciled(OldVersion(d, p), p),
                        !.shared = IF @ = None THEN p.shared ELSE @]
  IN [next EXCEPT !.version[Draft].receipt = [request |-> p, revision |-> Revision(next)]]

-----------------------------------------------------------------------------
(* An import: every table is locked before anything is read. *)

\* Fault: the retry is recognised by its request alone.
IsRetryOfRequest(d, p) ==
  LET v == d.version[Draft] IN v.receipt # None /\ v.receipt.request = p

IsRetry(d, p) ==
  IsRetryOfRequest(d, p) /\ d.version[Draft].receipt.revision = Revision(d)

\* Refusals before anything is written, in the order of the code.
Early(d, c, mode) ==
  LET p == client[c].pack
      stale == mode = "confirm" /\ client[c].token.precondition # Precondition(d)
  IN IF d.version[Draft] = None THEN
       IF p.explicit THEN "not_found"
       ELSE IF p.base # None THEN "invalid_base_revision"
       ELSE IF stale THEN "stale_inspection" ELSE None
     ELSE IF d.version[Draft].state # "draft" THEN "immutable_version"
     ELSE IF IsRetry(d, p) THEN "noop"
     ELSE IF stale THEN "stale_inspection"
     ELSE IF ~p.explicit THEN "identity_collision"
     ELSE IF p.base # Revision(d) THEN "stale_revision"
     ELSE None

Unresolved(content) ==
  /\ content.claims[Basis] = None
  /\ \E k \in Claims : content.claims[k] # None /\ content.claims[k].scoped

\* Fault: a claim under dispute is rewritten like any other.
LateWithoutHistory(d, p, consent) ==
  LET old == OldVersion(d, p) IN
  IF d.shared # None /\ p.shared \notin {None, d.shared} THEN "shared_conflict"
  ELSE IF old.risk /\ ~p.risk THEN "risk_reduction"
  ELSE IF Deletes(old, p.content) /\ ~consent THEN "deletions_require_confirmation"
  ELSE IF Unresolved(p.content) THEN "unresolved_reference" ELSE None

\* Refusals while the draft is rewritten: the transaction rolls back.
Late(d, p, consent) ==
  LET old == OldVersion(d, p)
      before == LateWithoutHistory(d, p, TRUE)
  IN IF before \in {"shared_conflict", "risk_reduction"} THEN before
     ELSE IF Affected(old, p.content) \cap old.history # {} THEN "protected_history"
     ELSE LateWithoutHistory(d, p, consent)

\* Fault: the rows of the draft are locked, the tables are not.
ExcludedNever == FALSE

\* What an editor must not start while an import holds the tables.
Excluded == importer # None

Token(before, after, requires) ==
  [precondition |-> Precondition(before), requires |-> requires, after |-> Live(after)]

Answer(c, code) == reply' = [client |-> c, code |-> code]

\* LOCK TABLE ... NOWAIT: refused while anybody writes or clones.
Begin(c, mode, allow) ==
  /\ importer = None /\ ~editing /\ cloning = None
  /\ client[c].pack # None
  /\ mode = "confirm" => /\ client[c].token # None
                         /\ client[c].token.requires => allow
  /\ LET early == Early(db, c, mode) IN
       IF early = None
       THEN /\ importer' = [client |-> c, mode |-> mode, allow |-> allow]
            /\ reply' = None /\ UNCHANGED client
       ELSE /\ Answer(c, IF early = "noop" /\ mode = "inspect" THEN "dry_run" ELSE early)
            /\ UNCHANGED importer
            /\ IF early = "noop" /\ mode = "inspect"
               THEN client' = [client EXCEPT ![c].token = Token(db, db, FALSE)]
               ELSE UNCHANGED client
  /\ UNCHANGED <<db, editing, cloning, work>>

Write ==
  /\ importer # None /\ importer' = None
  /\ LET c == importer.client
         p == client[c].pack
         late == Late(db, p, importer.allow \/ importer.mode = "inspect")
         next == Written(db, p)
     IN IF late # None THEN Answer(c, late) /\ UNCHANGED <<db, client>>
        ELSE IF importer.mode = "inspect"
        THEN /\ client' = [client EXCEPT ![c].token =
                             Token(db, next, Deletes(OldVersion(db, p), p.content))]
             /\ Answer(c, "dry_run") /\ UNCHANGED db
        ELSE /\ db' = next
             /\ Answer(c, IF Live(next) = Live(db) THEN "noop" ELSE "written")
             /\ UNCHANGED client
  /\ UNCHANGED <<editing, cloning, work>>

\* The server dies, or the database fails: nothing of the import remains.
Crash ==
  /\ importer # None /\ importer' = None /\ reply' = None
  /\ UNCHANGED <<db, editing, cloning, client, work>>

\* A pack is exported from the draft and changed, or composed from nothing.
Prepare(c) ==
  /\ client[c].pack = None /\ importer = None
  /\ work < MaxWork /\ work' = work + 1
  /\ \E p \in Packs(None, FALSE, db.version[Source])
              \cup (IF db.version[Draft] = None THEN {}
                    ELSE Packs(Revision(db), TRUE, db.version[Draft])) :
       client' = [client EXCEPT ![c].pack = p]
  /\ reply' = None /\ UNCHANGED <<db, editing, cloning, importer>>

-----------------------------------------------------------------------------
(* Editors. *)

\* Saving a row keeps its recorded trust; a new row is not trusted.
RowsSaved(v) ==
  UNION {{[v EXCEPT !.rows[k] = WithTrust(r, @ # None /\ @.trusted)] :
            r \in Neighbours(k, Authored(v.rows[k])) \ {None}} : k \in Claims}

\* A claim is verified, or a discrepancy or a re-verification goes on its record.
ClaimsJudged(v) ==
  LET present == {k \in Claims : v.rows[k] # None}
  IN {[v EXCEPT !.rows[k].trusted = TRUE] : k \in present}
     \cup {[v EXCEPT !.history = @ \cup {k}] : k \in present}

\* A scenario is saved, and sealed; or the version is published on its seal.
ScenariosSaved(v) ==
  {[v EXCEPT !.scenario = [text |-> t, seal |-> Behaviour(v)]] : t \in Texts}
  \cup (IF v.scenario # None /\ v.scenario.seal = Behaviour(v)
        THEN {[v EXCEPT !.state = "published"]} ELSE {})

Edited(v) == RowsSaved(v) \cup ClaimsJudged(v) \cup ScenariosSaved(v)

Sound(v) == /\ \A k \in Claims : v.rows[k] # None => Authored(v.rows[k]) \in AuthoredRows(k)
            /\ (\E k \in Claims : v.rows[k] # None /\ v.rows[k].scoped) => v.rows[Basis] # None

Open ==
  /\ ~editing /\ ~Excluded /\ work < MaxWork
  /\ editing' = TRUE /\ work' = work + 1 /\ reply' = None
  /\ UNCHANGED <<db, cloning, importer, client>>

Commit ==
  /\ editing /\ editing' = FALSE /\ reply' = None
  /\ \/ /\ db.version[Draft] # None /\ db.version[Draft].state = "draft"
        /\ \E v \in Edited(db.version[Draft]) : Sound(v) /\ db' = [db EXCEPT !.version[Draft] = v]
     \/ \E t \in Texts : db' = [db EXCEPT !.shared = t]
     \/ db' = [db EXCEPT !.other = 1 - @]
  /\ UNCHANGED <<cloning, importer, client, work>>

SourceLocked == cloning # None

Withdraw ==
  /\ db.version[Source].state = "published" /\ ~SourceLocked /\ ~Excluded
  /\ db' = [db EXCEPT !.version[Source].state = "withdrawn"]
  /\ reply' = None /\ UNCHANGED <<editing, cloning, importer, client, work>>

CloneBegin ==
  /\ cloning = None /\ ~Excluded
  /\ db.version[Source].state = "published" /\ db.version[Draft] = None
  /\ cloning' = db.version[Source] /\ reply' = None
  /\ UNCHANGED <<db, editing, importer, client, work>>

\* Rows, evidence, trust and risks are copied, scenarios are sealed again, and
\* the history stays with the source.
Cloned(v) ==
  LET copy == [v EXCEPT !.state = "draft", !.history = {}, !.receipt = None]
  IN IF copy.scenario = None THEN copy ELSE [copy EXCEPT !.scenario.seal = Behaviour(copy)]

CloneCommit ==
  /\ cloning # None /\ cloning' = None /\ reply' = None
  /\ db' = [db EXCEPT !.version[Draft] = Cloned(cloning)]
  /\ UNCHANGED <<editing, importer, client, work>>

-----------------------------------------------------------------------------

Init ==
  /\ \E row \in [text : {CHOOSE t \in Texts : TRUE}, scoped : {FALSE},
                 evidence : Passages, trusted : {TRUE}],
        risk \in BOOLEAN :
       LET published == [state |-> "published", meta |-> row.text,
                         rows |-> [k \in Claims |-> [row EXCEPT !.scoped = k # Basis]],
                         history |-> {}, risk |-> risk, scenario |-> None, receipt |-> None]
       IN db = [version |-> [v \in {Source, Draft} |->
                               IF v = Source
                               THEN [published EXCEPT !.scenario =
                                       [text |-> row.text, seal |-> Behaviour(published)]]
                               ELSE None],
                shared |-> None, other |-> 0]
  /\ editing = FALSE /\ cloning = None /\ importer = None /\ reply = None /\ work = 0
  /\ client = [c \in Clients |-> [pack |-> None, token |-> None]]

Next ==
  \/ \E c \in Clients, mode \in {"inspect", "import", "confirm"}, allow \in BOOLEAN :
       Begin(c, mode, allow)
  \/ \E c \in Clients : Prepare(c)
  \/ Write \/ Crash \/ Open \/ Commit \/ Withdraw \/ CloneBegin \/ CloneCommit

Spec == Init /\ [][Next]_vars

-----------------------------------------------------------------------------
(* Properties. *)

Imported == reply' # None
Of(d) == d.version[Draft]

\* An import changes the draft only when the draft it commits over is the one
\* its pack was exported from, or when there was none: a row that somebody
\* inserted or saved in the meantime is never overwritten.  What it commits is
\* whole: no refusal halfway leaves a scoped claim without its basis.
ImportWritesOnWhatItSaw ==
  [][Imported /\ db' # db =>
       LET p == client[reply'.client].pack IN
       /\ IF Of(db) = None THEN p.base = None ELSE p.base = Revision(db)
       /\ Sound(Of(db'))]_vars

\* Whoever is told that the pack is in the database, also by an answer to a
\* request that was sent again, finds it there, whole.
AnswerIsTrue ==
  [][Imported /\ reply'.code \in {"written", "noop"} =>
       LET p == client[reply'.client].pack IN
       /\ Of(db') # None /\ Content(Of(db')) = p.content
       /\ p.risk => Of(db').risk
       /\ p.shared # None => db'.shared = p.shared]_vars

Ground(v, k) == [meta |-> v.meta, row |-> v.rows[k],
                 basis |-> IF v.rows[k].scoped THEN Authored(v.rows[Basis]) ELSE None]

\* A pack attests nothing: what is trusted after an import was trusted before
\* it, on the same text, the same evidence, the same metadata and the same basis;
\* a scenario that the import writes is sealed with the behaviour it leaves, and
\* one that it does not write keeps its seal, stale or not.
ImportsAttestNothing ==
  [][Imported /\ Of(db') # None =>
       /\ \A k \in Claims : Of(db').rows[k] # None /\ Of(db').rows[k].trusted =>
            /\ Of(db) # None /\ Of(db).rows[k] # None
            /\ Ground(Of(db), k) = Ground(Of(db'), k)
       /\ Of(db) # None /\ Of(db').scenario # Of(db).scenario =>
            /\ ScenarioText(Of(db')) # ScenarioText(Of(db))
            /\ Of(db').scenario # None => Of(db').scenario.seal = Behaviour(Of(db'))]_vars

\* Claims with a discrepancy or a re-verification on record are left exactly as
\* they are, a risk flag is never cleared, and only drafts are rewritten.
HistoryAndRisksKept ==
  [][Imported /\ Of(db) # None =>
       /\ Of(db').history = Of(db).history
       /\ \A k \in Of(db).history : Of(db').rows[k] = Of(db).rows[k]
       /\ Of(db).risk => Of(db').risk
       /\ Of(db).state # "draft" => db' = db]_vars

\* A confirmed import leaves the whole database as the inspection showed it.
ConfirmDoesWhatWasShown ==
  [][Imported /\ importer # None /\ importer.mode = "confirm" /\ reply'.code = "written" =>
       Live(db') = client[reply'.client].token.after]_vars
=============================================================================
