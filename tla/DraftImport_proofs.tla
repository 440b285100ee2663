------------------------- MODULE DraftImport_proofs -------------------------
(***************************************************************************)
(* Proofs about authoring a draft: an import overwrites nothing that its   *)
(* pack did not know, attests nothing, and leaves the database as it       *)
(* answers and as the inspection showed it, for any number of clients, of  *)
(* claims and of editors' transactions.                                    *)
(***************************************************************************)
EXTENDS DraftImport, TLAPS

AuthoredAny == [text : Texts, scoped : BOOLEAN, evidence : Passages \cup {None}]

Typed ==
  /\ db \in Databases
  /\ db.version[Source] \in VersionsWith({None})
  /\ cloning \in VersionsWith({None}) \cup {None}
  /\ importer \in Imports \cup {None}
  /\ client \in [Clients -> [pack : PackRows \cup {None}, token : Tokens \cup {None}]]

(* The basis is scoped to nothing, in the database and in every pack. *)
BasisAlone(rows) == rows[Basis] # None => rows[Basis].scoped = FALSE

BasesAlone ==
  /\ \A v \in {Source, Draft} : db.version[v] # None => BasisAlone(db.version[v].rows)
  /\ cloning # None => BasisAlone(cloning.rows)
  /\ \A c \in Clients : client[c].pack # None => BasisAlone(client[c].pack.content.claims)

(* While an import holds the tables nobody writes, so what let it begin still
   holds when it writes.                                                      *)
Undisturbed ==
  importer # None =>
    /\ ~editing /\ cloning = None
    /\ client[importer.client].pack # None
    /\ Early(db, importer.client, importer.mode) = None
    /\ importer.mode = "confirm" => client[importer.client].token # None

(* What a pack asks for is in the database. *)
InPlace(d, p) ==
  /\ Of(d) # None /\ Content(Of(d)) = p.content
  /\ p.risk => Of(d).risk
  /\ p.shared # None => d.shared = p.shared

(* A receipt is given for a revision in which its request is in place. *)
ReceiptsTell ==
  Of(db) # None /\ Of(db).receipt # None =>
    InPlace(Of(db).receipt.revision, Of(db).receipt.request)

(* A token shows what the pack makes of the database that was inspected. *)
TokensTell ==
  \A c \in Clients : client[c].token # None =>
    /\ client[c].pack # None
    /\ \E d \in Databases :
         /\ d.version[Source] \in VersionsWith({None})
         /\ client[c].token.precondition = Live(d)
         /\ client[c].token.after = Live(Written(d, client[c].pack))

Consistent == Typed /\ BasesAlone /\ Undisturbed /\ ReceiptsTell /\ TokensTell

-----------------------------------------------------------------------------
(* Fields. *)

LEMMA VersionFields ==
  ASSUME NEW receipts, NEW v \in VersionsWith(receipts)
  PROVE  /\ v = [state |-> v.state, meta |-> v.meta, rows |-> v.rows, history |-> v.history,
                 risk |-> v.risk, scenario |-> v.scenario, receipt |-> v.receipt]
         /\ v.state \in {"draft", "published", "withdrawn"} /\ v.meta \in Texts
         /\ v.rows \in [Claims -> Rows \cup {None}]
         /\ v.history \in SUBSET Claims /\ v.risk \in BOOLEAN
         /\ v.scenario \in [text : Texts, seal : Behaviours] \cup {None}
         /\ v.receipt \in receipts
BY DEF VersionsWith

LEMMA DatabaseFields ==
  ASSUME NEW receipts, NEW others, NEW d \in DatabasesWith(receipts, others)
  PROVE  /\ d = [version |-> d.version, shared |-> d.shared, other |-> d.other]
         /\ d.version \in [{Source, Draft} -> VersionsWith(receipts) \cup {None}]
         /\ d.shared \in Texts \cup {None}
         /\ d.other \in others
BY DEF DatabasesWith

LEMMA PackFields ==
  ASSUME NEW p \in PackRows
  PROVE  /\ p.base \in Revisions \cup {None} /\ p.explicit \in BOOLEAN /\ p.content \in Contents
         /\ p.risk \in BOOLEAN /\ p.shared \in Texts \cup {None}
         /\ p # None
BY AbsenceAssumption DEF PackRows

LEMMA ContentFields ==
  ASSUME NEW c \in Contents
  PROVE  /\ c = [meta |-> c.meta, claims |-> c.claims, scenario |-> c.scenario]
         /\ c.meta \in Texts /\ c.claims \in [Claims -> AuthoredAny \cup {None}]
         /\ c.scenario \in Texts \cup {None}
BY DEF Contents, AuthoredAny

LEMMA RowFields ==
  ASSUME NEW r \in Rows
  PROVE  /\ r = WithTrust(r, r.trusted) /\ r # None
         /\ r.text \in Texts /\ r.scoped \in BOOLEAN /\ r.evidence \in Passages \cup {None}
         /\ r.trusted \in BOOLEAN
         /\ Authored(r) = [text |-> r.text, scoped |-> r.scoped, evidence |-> r.evidence]
         /\ Authored(r) \in AuthoredAny
BY AbsenceAssumption DEF Rows, WithTrust, Authored, AuthoredAny

LEMMA TrustedRow ==
  ASSUME NEW r \in AuthoredAny, NEW trusted \in BOOLEAN
  PROVE  /\ WithTrust(r, trusted) \in Rows
         /\ WithTrust(r, trusted).trusted = trusted
         /\ WithTrust(r, trusted).scoped = r.scoped
         /\ WithTrust(r, trusted).text = r.text
         /\ WithTrust(r, trusted).evidence = r.evidence
         /\ Authored(WithTrust(r, trusted)) = r
<1>1. r = [text |-> r.text, scoped |-> r.scoped, evidence |-> r.evidence]
      /\ r.text \in Texts /\ r.scoped \in BOOLEAN /\ r.evidence \in Passages \cup {None}
  BY DEF AuthoredAny
<1>2. PICK q : q = [text |-> r.text, scoped |-> r.scoped, evidence |-> r.evidence, trusted |-> trusted]
  OBVIOUS
<1>3. /\ q \in Rows /\ q.trusted = trusted /\ q.scoped = r.scoped /\ q.text = r.text
      /\ q.evidence = r.evidence
  BY <1>1, <1>2 DEF Rows
<1>4. Authored(q) = r
  BY <1>1, <1>3, RowFields
<1> QED BY <1>2, <1>3, <1>4 DEF WithTrust

LEMMA AuthoredOfRows ==
  ASSUME NEW rows \in [Claims -> Rows \cup {None}], NEW k \in Claims
  PROVE  /\ Authored(rows[k]) \in AuthoredAny \cup {None}
         /\ Authored(rows[k]) = None <=> rows[k] = None
<1>1. CASE rows[k] = None
  BY <1>1 DEF Authored
<1>2. CASE rows[k] # None
  <2>1. rows[k] \in Rows
    BY <1>2
  <2>2. Authored(rows[k]) \in AuthoredAny
    BY <2>1, RowFields
  <2>3. None \notin AuthoredAny
    BY AbsenceAssumption DEF AuthoredAny
  <2> QED BY <1>2, <2>2, <2>3
<1> QED BY <1>1, <1>2

LEMMA NoVersion ==
  /\ None \notin Versions /\ None \notin VersionsWith({None})
  /\ VersionsWith({None}) \subseteq Versions
<1>1. VersionsWith({None}) \subseteq Versions
  BY DEF VersionsWith, Versions
<1> QED BY <1>1, AbsenceAssumption

-----------------------------------------------------------------------------
(* What a pack makes of a version. *)

RowsAfter(old, content) ==
  [k \in Claims |->
     IF content.claims[k] = None THEN None
     ELSE WithTrust(content.claims[k], k \notin Affected(old, content) /\ old.rows[k].trusted)]

(* A claim that is not affected keeps its row; a trusted one was not affected. *)
LEMMA RowsAfterImport ==
  ASSUME NEW old, old.rows \in [Claims -> Rows \cup {None}], NEW content \in Contents
  PROVE  /\ RowsAfter(old, content) \in [Claims -> Rows \cup {None}]
         /\ \A k \in Claims :
              /\ Authored(RowsAfter(old, content)[k]) = content.claims[k]
              /\ RowsAfter(old, content)[k] # None <=> content.claims[k] # None
              /\ k \notin Affected(old, content) => RowsAfter(old, content)[k] = old.rows[k]
              /\ RowsAfter(old, content)[k] # None /\ RowsAfter(old, content)[k].trusted
                   => k \notin Affected(old, content)
<1> DEFINE after == RowsAfter(old, content)
           hit == Affected(old, content)
<1>1. \A k \in Claims : content.claims[k] \in AuthoredAny \cup {None}
  BY ContentFields
<1>2. \A k \in Claims : k \notin hit => Authored(old.rows[k]) = content.claims[k]
  BY DEF Affected, AffectedDirectly
<1>3. ASSUME NEW k \in Claims
      PROVE  /\ after[k] \in Rows \cup {None}
             /\ Authored(after[k]) = content.claims[k]
             /\ after[k] # None <=> content.claims[k] # None
             /\ k \notin hit => after[k] = old.rows[k]
             /\ after[k] # None /\ after[k].trusted => k \notin hit
  <2>1. CASE content.claims[k] = None
    <3>1. after[k] = None
      BY <2>1 DEF RowsAfter
    <3> QED BY <1>2, <2>1, <3>1, AuthoredOfRows DEF Authored
  <2>2. CASE content.claims[k] # None
    <3>1. PICK trusted \in BOOLEAN : trusted <=> (k \notin hit /\ old.rows[k].trusted)
      OBVIOUS
    <3>2. after[k] = WithTrust(content.claims[k], trusted)
      BY <2>2, <3>1 DEF RowsAfter
    <3>3. content.claims[k] \in AuthoredAny
      BY <1>1, <2>2
    <3>4. PICK r \in Rows : /\ r = WithTrust(content.claims[k], trusted) /\ r.trusted = trusted
                            /\ Authored(r) = content.claims[k]
      BY <3>3, TrustedRow
    <3>5. k \notin hit => r = old.rows[k]
      <4> SUFFICES ASSUME k \notin hit PROVE r = old.rows[k]
        OBVIOUS
      <4>1. Authored(old.rows[k]) = content.claims[k]
        BY <1>2
      <4>2. old.rows[k] \in Rows
        BY <2>2, <4>1, AuthoredOfRows DEF Authored
      <4>3. old.rows[k] = WithTrust(old.rows[k], old.rows[k].trusted) /\ old.rows[k].trusted \in BOOLEAN
        BY <4>2, RowFields
      <4>4. /\ old.rows[k].text = r.text /\ old.rows[k].scoped = r.scoped
            /\ old.rows[k].evidence = r.evidence
        BY <3>4, <4>1, <4>2, RowFields
      <4>5. old.rows[k].trusted = r.trusted
        BY <3>1, <3>4, <4>3
      <4>6. r = WithTrust(r, r.trusted)
        BY RowFields
      <4> QED BY <4>3, <4>4, <4>5, <4>6 DEF WithTrust
    <3> QED BY <2>2, <3>1, <3>2, <3>4, <3>5, RowFields
  <2> QED BY <2>1, <2>2
<1>4. after = [k \in Claims |-> after[k]]
  BY DEF RowsAfter
<1> QED BY <1>3, <1>4

(* The scenario of the pack, sealed with what the pack leaves. *)
Sealing(meta, rows) ==
  [meta |-> meta,
   claims |-> [k \in Claims |-> IF rows[k] = None THEN None ELSE <<rows[k].text, rows[k].scoped>>]]

ScenarioAfter(old, content) ==
  IF content.scenario = ScenarioText(old) THEN old.scenario
  ELSE IF content.scenario = None THEN None
  ELSE [text |-> content.scenario, seal |-> Sealing(content.meta, RowsAfter(old, content))]

LEMMA Sealed ==
  ASSUME NEW meta \in Texts, NEW rows \in [Claims -> Rows \cup {None}]
  PROVE  Sealing(meta, rows) \in Behaviours
<1>1. \A k \in Claims : rows[k] # None => <<rows[k].text, rows[k].scoped>> \in Texts \X BOOLEAN
  BY RowFields
<1> QED BY <1>1 DEF Sealing, Behaviours

LEMMA ScenarioAfterImport ==
  ASSUME NEW old, old.rows \in [Claims -> Rows \cup {None}],
         old.scenario \in [text : Texts, seal : Behaviours] \cup {None},
         NEW content \in Contents
  PROVE  LET after == ScenarioAfter(old, content) IN
         /\ after \in [text : Texts, seal : Behaviours] \cup {None}
         /\ (IF after = None THEN None ELSE after.text) = content.scenario
         /\ after # old.scenario =>
              /\ content.scenario # ScenarioText(old)
              /\ after # None => after.seal = Sealing(content.meta, RowsAfter(old, content))
<1> DEFINE after == ScenarioAfter(old, content)
<1>0. content.scenario \in Texts \cup {None} /\ content.meta \in Texts
  BY ContentFields
<1>1. CASE content.scenario = ScenarioText(old)
  BY <1>1 DEF ScenarioAfter, ScenarioText
<1>2. CASE content.scenario # ScenarioText(old) /\ content.scenario = None
  BY <1>2 DEF ScenarioAfter
<1>3. CASE content.scenario # ScenarioText(old) /\ content.scenario # None
  <2>1. PICK seal : seal = Sealing(content.meta, RowsAfter(old, content))
    OBVIOUS
  <2>2. seal \in Behaviours
    BY <1>0, <2>1, RowsAfterImport, Sealed
  <2>3. after = [text |-> content.scenario, seal |-> seal]
    BY <1>3, <2>1 DEF ScenarioAfter
  <2>4. after \in [text : Texts, seal : Behaviours] /\ after.text = content.scenario
        /\ after.seal = seal
    BY <1>0, <1>3, <2>2, <2>3
  <2>5. after # None
    BY <2>4, AbsenceAssumption
  <2> HIDE DEF after
  <2>6. /\ after \in [text : Texts, seal : Behaviours] \cup {None}
        /\ (IF after = None THEN None ELSE after.text) = content.scenario
        /\ after # old.scenario =>
              /\ content.scenario # ScenarioText(old)
              /\ after # None => after.seal = Sealing(content.meta, RowsAfter(old, content))
    BY <1>3, <2>1, <2>4, <2>5
  <2> QED BY <2>6 DEF after
<1> QED BY <1>1, <1>2, <1>3

(* The version a pack makes of an old one, field by field. *)
LEMMA ReconciledVersion ==
  ASSUME NEW receipts, NEW old \in VersionsWith(receipts), NEW p \in PackRows
  PROVE  Reconciled(old, p) =
           [state |-> old.state, meta |-> p.content.meta, rows |-> RowsAfter(old, p.content),
            history |-> old.history, risk |-> (old.risk \/ p.risk),
            scenario |-> ScenarioAfter(old, p.content), receipt |-> old.receipt]
<1> DEFINE hit == Affected(old, p.content)
           Row(k) == WithTrust(p.content.claims[k], k \notin hit /\ old.rows[k].trusted)
           rows == [k \in Claims |-> IF p.content.claims[k] = None THEN None ELSE Row(k)]
<1>1. rows = RowsAfter(old, p.content)
  BY DEF RowsAfter
<1>2. PICK after : after = RowsAfter(old, p.content)
  OBVIOUS
<1>3. PICK risk : risk = (old.risk \/ p.risk)
  OBVIOUS
<1>4. PICK new : new = [old EXCEPT !.meta = p.content.meta, !.rows = after, !.risk = risk]
  OBVIOUS
<1>5. new = [state |-> old.state, meta |-> p.content.meta, rows |-> after, history |-> old.history,
             risk |-> risk, scenario |-> old.scenario, receipt |-> old.receipt]
  <2>1. PICK n1 : n1 = [old EXCEPT !.meta = p.content.meta]
    OBVIOUS
  <2>2. n1 = [state |-> old.state, meta |-> p.content.meta, rows |-> old.rows,
              history |-> old.history, risk |-> old.risk, scenario |-> old.scenario,
              receipt |-> old.receipt]
    BY <2>1, VersionFields
  <2>3. PICK n2 : n2 = [n1 EXCEPT !.rows = after]
    OBVIOUS
  <2>4. n2 = [state |-> old.state, meta |-> p.content.meta, rows |-> after,
              history |-> old.history, risk |-> old.risk, scenario |-> old.scenario,
              receipt |-> old.receipt]
    BY <2>2, <2>3
  <2>5. [n2 EXCEPT !.risk = risk] =
            [state |-> old.state, meta |-> p.content.meta, rows |-> after,
              history |-> old.history, risk |-> risk, scenario |-> old.scenario,
              receipt |-> old.receipt]
    BY <2>4
  <2> QED BY <1>4, <2>1, <2>3, <2>5, ZenonT(30)
<1>6. PICK scenario : scenario = Scenario(old, new, p.content)
  OBVIOUS
<1>7. scenario = ScenarioAfter(old, p.content)
  <2>1. Behaviour(new) = Sealing(p.content.meta, after)
    <3>1. new.meta = p.content.meta /\ new.rows = after
      BY <1>5
    <3> QED BY <3>1 DEF Behaviour, Sealing
  <2> QED BY <1>2, <1>6, <2>1 DEF Scenario, ScenarioResealed, ScenarioAfter
<1>8. Reconciled(old, p) = [new EXCEPT !.scenario = scenario]
  <2>1. new = [old EXCEPT !.meta = p.content.meta, !.rows = rows, !.risk = @ \/ p.risk]
    BY <1>1, <1>2, <1>3, <1>4, ZenonT(30)
  <2> QED BY <1>6, <2>1, ZenonT(30) DEF Reconciled
<1>9. [new EXCEPT !.scenario = scenario] =
        [state |-> old.state, meta |-> p.content.meta, rows |-> after, history |-> old.history,
         risk |-> risk, scenario |-> scenario, receipt |-> old.receipt]
  BY <1>5
<1> QED BY <1>2, <1>3, <1>7, <1>8, <1>9

-----------------------------------------------------------------------------
(* What a pack makes of a database. *)

LEMMA OldVersions ==
  ASSUME NEW d \in Databases, NEW p \in PackRows
  PROVE  OldVersion(d, p) \in Versions
<1>1. CASE d.version[Draft] # None
  BY <1>1, DatabaseFields DEF OldVersion, Databases, Versions
<1>2. CASE d.version[Draft] = None
  <2>1. p.content.meta \in Texts
    BY PackFields, ContentFields
  <2>2. Blank(p) \in Versions
    BY <2>1 DEF Blank, Versions, VersionsWith
  <2> QED BY <1>2, <2>2 DEF OldVersion
<1> QED BY <1>1, <1>2

VersionAfter(d, p, receipt) ==
  [state |-> OldVersion(d, p).state, meta |-> p.content.meta,
   rows |-> RowsAfter(OldVersion(d, p), p.content), history |-> OldVersion(d, p).history,
   risk |-> (OldVersion(d, p).risk \/ p.risk),
   scenario |-> ScenarioAfter(OldVersion(d, p), p.content), receipt |-> receipt]

SharedAfter(d, p) == IF d.shared = None THEN p.shared ELSE d.shared

DatabaseAfter(d, p, receipt, other) ==
  [version |-> [v \in {Source, Draft} |-> IF v = Draft THEN VersionAfter(d, p, receipt)
                                          ELSE d.version[Source]],
   shared |-> SharedAfter(d, p), other |-> other]

ReceiptAfter(d, p) == [request |-> p, revision |-> DatabaseAfter(d, p, None, None)]

LEMMA VersionAfterImport ==
  ASSUME NEW d \in Databases, NEW p \in PackRows, NEW receipts, NEW receipt \in receipts
  PROVE  VersionAfter(d, p, receipt) \in VersionsWith(receipts)
<1>1. PICK old \in Versions : old = OldVersion(d, p)
  BY OldVersions
<1>2. /\ old.state \in {"draft", "published", "withdrawn"} /\ old.history \in SUBSET Claims
      /\ old.rows \in [Claims -> Rows \cup {None}]
      /\ old.scenario \in [text : Texts, seal : Behaviours] \cup {None}
      /\ old.risk \in BOOLEAN
  BY VersionFields DEF Versions
<1>3. p.content \in Contents /\ p.content.meta \in Texts /\ p.risk \in BOOLEAN
  BY PackFields, ContentFields
<1>4. PICK rows : rows = RowsAfter(old, p.content)
  OBVIOUS
<1>5. PICK scenario : scenario = ScenarioAfter(old, p.content)
  OBVIOUS
<1>6. rows \in [Claims -> Rows \cup {None}]
  BY <1>2, <1>3, <1>4, RowsAfterImport
<1>7. scenario \in [text : Texts, seal : Behaviours] \cup {None}
  BY <1>2, <1>3, <1>5, ScenarioAfterImport
<1>8. PICK risk \in BOOLEAN : risk = (old.risk \/ p.risk)
  BY <1>2, <1>3
<1>9. VersionAfter(d, p, receipt) =
        [state |-> old.state, meta |-> p.content.meta, rows |-> rows, history |-> old.history,
         risk |-> risk, scenario |-> scenario, receipt |-> receipt]
  BY <1>1, <1>4, <1>5, <1>8 DEF VersionAfter
<1> QED BY <1>2, <1>3, <1>6, <1>7, <1>9 DEF VersionsWith

LEMMA DatabaseAfterImport ==
  ASSUME NEW d \in Databases, d.version[Source] \in VersionsWith({None}), NEW p \in PackRows,
         NEW receipts, None \in receipts, NEW receipt \in receipts, NEW others, NEW other \in others
  PROVE  DatabaseAfter(d, p, receipt, other) \in DatabasesWith(receipts, others)
<1>1. VersionAfter(d, p, receipt) \in VersionsWith(receipts)
  BY VersionAfterImport
<1>2. d.version[Source] \in VersionsWith(receipts)
  BY DEF VersionsWith
<1>3. SharedAfter(d, p) \in Texts \cup {None}
  BY DatabaseFields, PackFields DEF Databases, SharedAfter
<1>4. [v \in {Source, Draft} |-> IF v = Draft THEN VersionAfter(d, p, receipt) ELSE d.version[Source]]
        \in [{Source, Draft} -> VersionsWith(receipts) \cup {None}]
  BY <1>1, <1>2
<1> QED BY <1>3, <1>4 DEF DatabaseAfter, DatabasesWith

LEMMA ReceiptAfterImport ==
  ASSUME NEW d \in Databases, d.version[Source] \in VersionsWith({None}), NEW p \in PackRows
  PROVE  ReceiptAfter(d, p) \in Receipts
<1>1. DatabaseAfter(d, p, None, None) \in Revisions
  BY DatabaseAfterImport DEF Revisions
<1> QED BY <1>1 DEF ReceiptAfter, Receipts

(* The live database, written out. *)
LEMMA LiveDatabase ==
  ASSUME NEW receipts, NEW others, NEW d \in DatabasesWith(receipts, others)
  PROVE  Live(d) = [version |-> [v \in {Source, Draft} |-> IF v = Draft THEN WithoutReceipt(d.version[Draft])
                                                           ELSE d.version[Source]],
                    shared |-> d.shared, other |-> d.other]
<1>1. PICK plain : plain = WithoutReceipt(d.version[Draft])
  OBVIOUS
<1>2. Live(d) = [d EXCEPT !.version[Draft] = plain]
  BY <1>1 DEF Live
<1>3. PICK versions : versions = [d.version EXCEPT ![Draft] = plain]
  OBVIOUS
<1>4. versions = [v \in {Source, Draft} |-> IF v = Draft THEN plain ELSE d.version[Source]]
  BY <1>3, DatabaseFields, PartsAssumption
<1>5. [d EXCEPT !.version[Draft] = plain] =
        [version |-> versions, shared |-> d.shared, other |-> d.other]
  BY <1>3, DatabaseFields
<1> QED BY <1>1, <1>2, <1>4, <1>5

LEMMA PlainVersion ==
  ASSUME NEW receipts, NEW v \in VersionsWith(receipts), None \notin VersionsWith(receipts)
  PROVE  WithoutReceipt(v) =
           [state |-> v.state, meta |-> v.meta, rows |-> v.rows, history |-> v.history,
            risk |-> v.risk, scenario |-> v.scenario, receipt |-> None]
BY VersionFields DEF WithoutReceipt

(* The database that an import commits, with its receipt. *)
LEMMA WrittenDatabase ==
  ASSUME NEW d \in Databases, d.version[Source] \in VersionsWith({None}), NEW p \in PackRows
  PROVE  /\ Written(d, p) = DatabaseAfter(d, p, ReceiptAfter(d, p), d.other)
         /\ Written(d, p) \in Databases
         /\ Live(Written(d, p)) = DatabaseAfter(d, p, None, d.other)
<1>1. PICK old \in Versions : old = OldVersion(d, p)
  BY OldVersions
<1>2. PICK new : new = Reconciled(old, p)
  OBVIOUS
<1>3. new = VersionAfter(d, p, old.receipt)
  BY <1>1, <1>2, ReconciledVersion DEF Versions, VersionAfter
<1>4. old.receipt \in Receipts \cup {None} /\ new \in Versions
  BY <1>3, VersionFields, VersionAfterImport DEF Versions
<1>5. WithoutReceipt(new) = VersionAfter(d, p, None)
  <2>1. WithoutReceipt(new) =
           [state |-> new.state, meta |-> new.meta, rows |-> new.rows, history |-> new.history,
            risk |-> new.risk, scenario |-> new.scenario, receipt |-> None]
    BY <1>4, NoVersion, PlainVersion DEF Versions
  <2>2. /\ new.state = OldVersion(d, p).state /\ new.meta = p.content.meta
        /\ new.rows = RowsAfter(OldVersion(d, p), p.content)
        /\ new.history = OldVersion(d, p).history
        /\ new.risk = (OldVersion(d, p).risk \/ p.risk)
        /\ new.scenario = ScenarioAfter(OldVersion(d, p), p.content)
    BY <1>3 DEF VersionAfter
  <2> QED BY <2>1, <2>2 DEF VersionAfter
<1>6. PICK shared : shared = SharedAfter(d, p)
  OBVIOUS
<1>7. PICK next : next = [d EXCEPT !.version[Draft] = new, !.shared = shared]
  OBVIOUS
<1>8. next = [version |-> [v \in {Source, Draft} |-> IF v = Draft THEN new ELSE d.version[Source]],
              shared |-> shared, other |-> d.other]
  <2>1. PICK versions : versions = [d.version EXCEPT ![Draft] = new]
    OBVIOUS
  <2>2. versions = [v \in {Source, Draft} |-> IF v = Draft THEN new ELSE d.version[Source]]
    BY <2>1, DatabaseFields, PartsAssumption DEF Databases
  <2>3. PICK n1 : n1 = [d EXCEPT !.version[Draft] = new]
    OBVIOUS
  <2>4. n1 = [version |-> versions, shared |-> d.shared, other |-> d.other]
    BY <2>1, <2>3, DatabaseFields DEF Databases
  <2>5. [n1 EXCEPT !.shared = shared] = [version |-> versions, shared |-> shared, other |-> d.other]
    BY <2>4
  <2>6. next = [n1 EXCEPT !.shared = shared]
    BY <1>7, <2>3, ZenonT(30)
  <2> QED BY <2>2, <2>5, <2>6
<1>9. next \in Databases
  <2>1. /\ d.other \in {0, 1} /\ d.version[Source] \in Versions
    BY NoVersion, DatabaseFields DEF Databases
  <2>2. shared \in Texts \cup {None}
    BY <1>6, DatabaseFields, PackFields DEF Databases, SharedAfter
  <2>3. [v \in {Source, Draft} |-> IF v = Draft THEN new ELSE d.version[Source]]
          \in [{Source, Draft} -> Versions \cup {None}]
    BY <1>4, <2>1
  <2> QED BY <1>8, <2>1, <2>2, <2>3 DEF Databases, DatabasesWith, Versions
<1>10. Live(next) = DatabaseAfter(d, p, None, d.other)
  <2>1. next.version[Draft] = new /\ next.version[Source] = d.version[Source]
        /\ next.shared = shared /\ next.other = d.other
    BY <1>8, PartsAssumption
  <2>2. Live(next) =
          [version |-> [v \in {Source, Draft} |-> IF v = Draft THEN WithoutReceipt(next.version[Draft])
                                                  ELSE next.version[Source]],
           shared |-> next.shared, other |-> next.other]
    BY <1>9, LiveDatabase DEF Databases
  <2> QED BY <1>5, <1>6, <2>1, <2>2 DEF DatabaseAfter
<1>11. Revision(next) = DatabaseAfter(d, p, None, None)
  <2>1. PICK live : live = DatabaseAfter(d, p, None, d.other)
    OBVIOUS
  <2>2. [live EXCEPT !.other = None] = DatabaseAfter(d, p, None, None)
    BY <2>1 DEF DatabaseAfter
  <2> QED BY <1>10, <2>1, <2>2 DEF Revision
<1>12. PICK receipt : receipt = ReceiptAfter(d, p)
  OBVIOUS
<1>13. Written(d, p) = [next EXCEPT !.version[Draft].receipt = receipt]
  <2>1. next = [d EXCEPT !.version[Draft] = Reconciled(OldVersion(d, p), p),
                         !.shared = IF @ = None THEN p.shared ELSE @]
    <3>1. shared = IF d.shared = None THEN p.shared ELSE d.shared
      BY <1>6 DEF SharedAfter
    <3>2. PICK n1 : n1 = [d EXCEPT !.version[Draft] = new]
      OBVIOUS
    <3>3. n1.shared = d.shared
      BY <3>2, DatabaseFields DEF Databases
    <3>4. next = [n1 EXCEPT !.shared = IF @ = None THEN p.shared ELSE @]
      <4>1. next = [n1 EXCEPT !.shared = shared]
        BY <1>7, <3>2, ZenonT(30)
      <4> QED BY <3>1, <3>3, <4>1
    <3> QED BY <1>1, <1>2, <3>2, <3>4, ZenonT(30)
  <2>2. receipt = [request |-> p, revision |-> Revision(next)]
    BY <1>11, <1>12 DEF ReceiptAfter
  <2> QED BY <2>1, <2>2, ZenonT(30) DEF Written
<1>14. [next EXCEPT !.version[Draft].receipt = receipt] = DatabaseAfter(d, p, receipt, d.other)
  <2>1. PICK versions : versions = [v \in {Source, Draft} |-> IF v = Draft THEN new ELSE d.version[Source]]
    OBVIOUS
  <2>2. PICK stamped : stamped = [new EXCEPT !.receipt = receipt]
    OBVIOUS
  <2>3. stamped = VersionAfter(d, p, receipt)
    <3>1. new = [state |-> OldVersion(d, p).state, meta |-> p.content.meta,
                 rows |-> RowsAfter(OldVersion(d, p), p.content), history |-> OldVersion(d, p).history,
                 risk |-> (OldVersion(d, p).risk \/ p.risk),
                 scenario |-> ScenarioAfter(OldVersion(d, p), p.content), receipt |-> old.receipt]
      BY <1>3 DEF VersionAfter
    <3>2. PICK b : b = (OldVersion(d, p).risk \/ p.risk)
      OBVIOUS
    <3>3. new = [state |-> OldVersion(d, p).state, meta |-> p.content.meta,
                 rows |-> RowsAfter(OldVersion(d, p), p.content), history |-> OldVersion(d, p).history,
                 risk |-> b,
                 scenario |-> ScenarioAfter(OldVersion(d, p), p.content), receipt |-> old.receipt]
      BY <3>1, <3>2
    <3>4. stamped = [state |-> OldVersion(d, p).state, meta |-> p.content.meta,
                 rows |-> RowsAfter(OldVersion(d, p), p.content), history |-> OldVersion(d, p).history,
                 risk |-> b,
                 scenario |-> ScenarioAfter(OldVersion(d, p), p.content), receipt |-> receipt]
      BY <2>2, <3>3
    <3> QED BY <3>2, <3>4 DEF VersionAfter
  <2>4. [versions EXCEPT ![Draft] = stamped]
          = [v \in {Source, Draft} |-> IF v = Draft THEN stamped ELSE d.version[Source]]
    BY <2>1, PartsAssumption
  <2>5. next.version = versions /\ next.version[Draft] = new
    BY <1>8, <2>1
  <2>6. next = [version |-> versions, shared |-> shared, other |-> d.other]
    BY <1>8, <2>1
  <2>7. [next EXCEPT !.version[Draft].receipt = receipt]
          = [version |-> [versions EXCEPT ![Draft] = stamped], shared |-> shared, other |-> d.other]
    BY <2>2, <2>5, <2>6
  <2> QED BY <1>6, <2>3, <2>4, <2>7 DEF DatabaseAfter
<1>15. Written(d, p) = DatabaseAfter(d, p, ReceiptAfter(d, p), d.other)
  BY <1>12, <1>13, <1>14
<1>16. Written(d, p) \in Databases
  <2>1. d.other \in {0, 1}
    BY DatabaseFields DEF Databases
  <2>2. PICK receipts, others : receipts = Receipts \cup {None} /\ others = {0, 1}
    OBVIOUS
  <2>3. ReceiptAfter(d, p) \in receipts /\ None \in receipts /\ d.other \in others
    BY <2>1, <2>2, ReceiptAfterImport
  <2>4. DatabaseAfter(d, p, ReceiptAfter(d, p), d.other) \in DatabasesWith(receipts, others)
    BY <2>3, DatabaseAfterImport
  <2> QED BY <1>15, <2>2, <2>4 DEF Databases
<1>17. Live(Written(d, p)) = DatabaseAfter(d, p, None, d.other)
  <2>1. PICK w \in Databases : w = Written(d, p)
    BY <1>16
  <2>2. PICK v : v = VersionAfter(d, p, ReceiptAfter(d, p))
    OBVIOUS
  <2>3. w.version[Draft] = v /\ w.version[Source] = d.version[Source]
        /\ w.shared = SharedAfter(d, p) /\ w.other = d.other
    BY <1>15, <2>1, <2>2, PartsAssumption DEF DatabaseAfter
  <2>4. v \in Versions
    BY <2>2, ReceiptAfterImport, VersionAfterImport DEF Versions
  <2>5. WithoutReceipt(v) = VersionAfter(d, p, None)
    <3>1. WithoutReceipt(v) =
           [state |-> v.state, meta |-> v.meta, rows |-> v.rows, history |-> v.history,
            risk |-> v.risk, scenario |-> v.scenario, receipt |-> None]
      BY <2>4, NoVersion, PlainVersion DEF Versions
    <3>2. /\ v.state = OldVersion(d, p).state /\ v.meta = p.content.meta
          /\ v.rows = RowsAfter(OldVersion(d, p), p.content)
          /\ v.history = OldVersion(d, p).history
          /\ v.risk = (OldVersion(d, p).risk \/ p.risk)
          /\ v.scenario = ScenarioAfter(OldVersion(d, p), p.content)
      BY <2>2 DEF VersionAfter
    <3> QED BY <3>1, <3>2 DEF VersionAfter
  <2>6. Live(w) = [version |-> [u \in {Source, Draft} |-> IF u = Draft THEN WithoutReceipt(w.version[Draft])
                                                           ELSE w.version[Source]],
                    shared |-> w.shared, other |-> w.other]
    BY LiveDatabase DEF Databases
  <2> QED BY <2>1, <2>3, <2>5, <2>6 DEF DatabaseAfter
<1> QED BY <1>15, <1>16, <1>17

(* What a pack makes of a database depends on what is live in it. *)
LEMMA SameLive ==
  ASSUME NEW d \in Databases, d.version[Source] \in VersionsWith({None}),
         NEW e \in Databases, e.version[Source] \in VersionsWith({None}),
         Live(d) = Live(e), NEW p \in PackRows
  PROVE  Live(Written(d, p)) = Live(Written(e, p))
<1>1. /\ WithoutReceipt(d.version[Draft]) = WithoutReceipt(e.version[Draft])
      /\ d.version[Source] = e.version[Source] /\ d.shared = e.shared /\ d.other = e.other
  <2>1. /\ Live(d) = [version |-> [v \in {Source, Draft} |-> IF v = Draft THEN WithoutReceipt(d.version[Draft])
                                                             ELSE d.version[Source]],
                      shared |-> d.shared, other |-> d.other]
        /\ Live(e) = [version |-> [v \in {Source, Draft} |-> IF v = Draft THEN WithoutReceipt(e.version[Draft])
                                                             ELSE e.version[Source]],
                      shared |-> e.shared, other |-> e.other]
    BY LiveDatabase DEF Databases
  <2>2. PICK live : live = Live(d)
    OBVIOUS
  <2>3. PICK f : f = [v \in {Source, Draft} |-> IF v = Draft THEN WithoutReceipt(d.version[Draft])
                                                ELSE d.version[Source]]
    OBVIOUS
  <2>4. PICK g : g = [v \in {Source, Draft} |-> IF v = Draft THEN WithoutReceipt(e.version[Draft])
                                                ELSE e.version[Source]]
    OBVIOUS
  <2>5. live.version = f /\ live.shared = d.shared /\ live.other = d.other
    BY <2>1, <2>2, <2>3
  <2>6. live.version = g /\ live.shared = e.shared /\ live.other = e.other
    <3>1. live = [version |-> g, shared |-> e.shared, other |-> e.other]
      BY <2>1, <2>2, <2>4
    <3> QED BY <3>1
  <2>7. /\ f[Draft] = WithoutReceipt(d.version[Draft]) /\ f[Source] = d.version[Source]
        /\ g[Draft] = WithoutReceipt(e.version[Draft]) /\ g[Source] = e.version[Source]
    BY <2>3, <2>4, PartsAssumption
  <2> QED BY <2>5, <2>6, <2>7
<1>2. PICK u \in Versions, v \in Versions : u = OldVersion(d, p) /\ v = OldVersion(e, p)
  BY OldVersions
<1>3. /\ u.state = v.state /\ u.meta = v.meta /\ u.rows = v.rows /\ u.history = v.history
      /\ u.risk = v.risk /\ u.scenario = v.scenario
  <2>1. /\ d.version[Draft] \in Versions \cup {None} /\ e.version[Draft] \in Versions \cup {None}
    BY DatabaseFields DEF Databases, Versions
  <2>2. \A w \in Versions :
          /\ WithoutReceipt(w) # None
          /\ WithoutReceipt(w) = [state |-> w.state, meta |-> w.meta, rows |-> w.rows,
                                  history |-> w.history, risk |-> w.risk,
                                  scenario |-> w.scenario, receipt |-> None]
    <3> SUFFICES ASSUME NEW w \in Versions
                 PROVE  /\ WithoutReceipt(w) # None
                        /\ WithoutReceipt(w) = [state |-> w.state, meta |-> w.meta, rows |-> w.rows,
                                  history |-> w.history, risk |-> w.risk,
                                  scenario |-> w.scenario, receipt |-> None]
      OBVIOUS
    <3>1. WithoutReceipt(w) = [state |-> w.state, meta |-> w.meta, rows |-> w.rows,
                               history |-> w.history, risk |-> w.risk,
                               scenario |-> w.scenario, receipt |-> None]
      BY NoVersion, PlainVersion DEF Versions
    <3>2. WithoutReceipt(w) \in VersionsWith({None})
      BY <3>1, VersionFields DEF Versions, VersionsWith
    <3> QED BY <3>1, <3>2, NoVersion
  <2>3. CASE d.version[Draft] = None
    <3>1. e.version[Draft] = None
      BY <1>1, <2>1, <2>2, <2>3 DEF WithoutReceipt
    <3> QED BY <1>2, <2>3, <3>1 DEF OldVersion
  <2>4. CASE d.version[Draft] # None
    <3>1. e.version[Draft] # None
      BY <1>1, <2>1, <2>2, <2>4 DEF WithoutReceipt
    <3>2. u = d.version[Draft] /\ v = e.version[Draft]
      BY <1>2, <2>4, <3>1 DEF OldVersion
    <3>3. [state |-> u.state, meta |-> u.meta, rows |-> u.rows, history |-> u.history, risk |-> u.risk,
           scenario |-> u.scenario, receipt |-> None] =
          [state |-> v.state, meta |-> v.meta, rows |-> v.rows, history |-> v.history, risk |-> v.risk,
           scenario |-> v.scenario, receipt |-> None]
      BY <1>1, <2>2, <3>2
    <3> QED BY <3>3
  <2> QED BY <2>3, <2>4
<1>4. RowsAfter(u, p.content) = RowsAfter(v, p.content)
  <2>1. Affected(u, p.content) = Affected(v, p.content)
    BY <1>3 DEF Affected, AffectedDirectly
  <2> QED BY <1>3, <2>1 DEF RowsAfter
<1>5. ScenarioAfter(u, p.content) = ScenarioAfter(v, p.content)
  BY <1>3, <1>4 DEF ScenarioAfter, ScenarioText
<1>6. VersionAfter(d, p, None) = VersionAfter(e, p, None)
  BY <1>2, <1>3, <1>4, <1>5 DEF VersionAfter
<1>7. DatabaseAfter(d, p, None, d.other) = DatabaseAfter(e, p, None, e.other)
  BY <1>1, <1>6 DEF DatabaseAfter, SharedAfter
<1> QED BY <1>7, WrittenDatabase

(* A pack whose content is in place changes nothing. *)
LEMMA InPlaceStays ==
  ASSUME NEW d \in Databases, d.version[Source] \in VersionsWith({None}), NEW p \in PackRows,
         InPlace(d, p)
  PROVE  Live(Written(d, p)) = Live(d)
<1>1. PICK old \in Versions : old = d.version[Draft] /\ old = OldVersion(d, p)
  BY DatabaseFields DEF Databases, Versions, InPlace, Of, OldVersion
<1>2. /\ old.meta = p.content.meta
      /\ \A k \in Claims : Authored(old.rows[k]) = p.content.claims[k]
      /\ ScenarioText(old) = p.content.scenario
  <2>1. p.content = [meta |-> old.meta, claims |-> [k \in Claims |-> Authored(old.rows[k])],
                     scenario |-> ScenarioText(old)]
    BY <1>1 DEF InPlace, Content, Of
  <2> QED BY <2>1
<1>3. Affected(old, p.content) = {}
  BY <1>2, PartsAssumption DEF Affected, AffectedDirectly
<1>4. RowsAfter(old, p.content) = old.rows
  <2>1. old.rows \in [Claims -> Rows \cup {None}] /\ p.content \in Contents
    BY VersionFields, PackFields DEF Versions
  <2>2. PICK rows : rows = RowsAfter(old, p.content)
    OBVIOUS
  <2>3. rows \in [Claims -> Rows \cup {None}] /\ \A k \in Claims : rows[k] = old.rows[k]
    BY <1>3, <2>1, <2>2, RowsAfterImport
  <2> QED BY <2>1, <2>2, <2>3
<1>5. ScenarioAfter(old, p.content) = old.scenario
  BY <1>2 DEF ScenarioAfter
<1>6. (old.risk \/ p.risk) = old.risk
  <2>1. old.risk \in BOOLEAN /\ p.risk \in BOOLEAN /\ (p.risk => old.risk)
    BY <1>1, VersionFields, PackFields DEF Versions, InPlace, Of
  <2> QED BY <2>1
<1>7. VersionAfter(d, p, None) = WithoutReceipt(old)
  <2>1. WithoutReceipt(old) =
           [state |-> old.state, meta |-> old.meta, rows |-> old.rows, history |-> old.history,
            risk |-> old.risk, scenario |-> old.scenario, receipt |-> None]
    BY NoVersion, PlainVersion DEF Versions
  <2> QED BY <1>1, <1>2, <1>4, <1>5, <1>6, <2>1 DEF VersionAfter
<1>8. SharedAfter(d, p) = d.shared
  BY DEF InPlace, SharedAfter
<1>9. Live(d) = [version |-> [v \in {Source, Draft} |-> IF v = Draft THEN WithoutReceipt(d.version[Draft])
                                                        ELSE d.version[Source]],
                 shared |-> d.shared, other |-> d.other]
  BY LiveDatabase DEF Databases
<1>10. DatabaseAfter(d, p, None, d.other) = Live(d)
  BY <1>1, <1>7, <1>8, <1>9 DEF DatabaseAfter
<1> QED BY <1>10, WrittenDatabase

(* After the import of a pack its content is in place. *)
LEMMA ImportIsInPlace ==
  ASSUME NEW d \in Databases, d.version[Source] \in VersionsWith({None}), NEW p \in PackRows,
         d.shared = None \/ p.shared \in {None, d.shared}, NEW receipt \in Receipts \cup {None}, NEW other
  PROVE  InPlace(DatabaseAfter(d, p, receipt, other), p)
<1>1. PICK old \in Versions : old = OldVersion(d, p)
  BY OldVersions
<1>2. PICK v \in Versions : v = VersionAfter(d, p, receipt)
  BY VersionAfterImport DEF Versions
<1>3. /\ old.rows \in [Claims -> Rows \cup {None}] /\ p.content \in Contents
      /\ old.scenario \in [text : Texts, seal : Behaviours] \cup {None}
      /\ p.risk \in BOOLEAN /\ old.risk \in BOOLEAN
  BY VersionFields, PackFields DEF Versions
<1>4. /\ v.meta = p.content.meta /\ v.rows = RowsAfter(old, p.content)
      /\ v.scenario = ScenarioAfter(old, p.content) /\ v.risk = (old.risk \/ p.risk)
  BY <1>1, <1>2 DEF VersionAfter
<1>5. Content(v) = p.content
  <2>1. p.content = [meta |-> p.content.meta, claims |-> p.content.claims, scenario |-> p.content.scenario]
        /\ p.content.claims \in [Claims -> AuthoredAny \cup {None}]
    BY <1>3, ContentFields
  <2>2. \A k \in Claims : Authored(v.rows[k]) = p.content.claims[k]
    BY <1>3, <1>4, RowsAfterImport
  <2>3. [k \in Claims |-> Authored(v.rows[k])] = p.content.claims
    BY <2>1, <2>2
  <2>4. ScenarioText(v) = p.content.scenario
    BY <1>3, <1>4, ScenarioAfterImport DEF ScenarioText
  <2> QED BY <1>4, <2>1, <2>3, <2>4 DEF Content
<1>6. v # None
  BY NoVersion
<1>7. PICK w : w = DatabaseAfter(d, p, receipt, other)
  OBVIOUS
<1>8. w.version[Draft] = v /\ w.shared = SharedAfter(d, p)
  BY <1>2, <1>7, PartsAssumption DEF DatabaseAfter
<1>9. p.shared # None => w.shared = p.shared
  BY <1>8 DEF SharedAfter
<1>10. p.risk => v.risk
  BY <1>3, <1>4
<1>11. InPlace(w, p)
  BY <1>5, <1>6, <1>8, <1>9, <1>10 DEF InPlace, Of
<1> QED BY <1>7, <1>11

-----------------------------------------------------------------------------
(* Live databases, revisions and tokens. *)

LEMMA PlainTyped ==
  ASSUME NEW v \in Versions \cup {None}
  PROVE  /\ WithoutReceipt(v) \in VersionsWith({None}) \cup {None}
         /\ v = None <=> WithoutReceipt(v) = None
         /\ v # None => /\ Content(WithoutReceipt(v)) = Content(v)
                        /\ WithoutReceipt(v).risk = v.risk
<1>1. CASE v = None
  BY <1>1 DEF WithoutReceipt
<1>2. CASE v # None
  <2>1. PICK w : w = WithoutReceipt(v)
    OBVIOUS
  <2>2. w = [state |-> v.state, meta |-> v.meta, rows |-> v.rows, history |-> v.history,
             risk |-> v.risk, scenario |-> v.scenario, receipt |-> None]
    BY <1>2, <2>1, NoVersion, PlainVersion DEF Versions
  <2>3. w \in VersionsWith({None})
    BY <1>2, <2>2, VersionFields DEF Versions, VersionsWith
  <2>4. w.meta = v.meta /\ w.rows = v.rows /\ w.scenario = v.scenario /\ w.risk = v.risk
    BY <2>2
  <2>5. Content(w) = Content(v)
    BY <2>4 DEF Content, ScenarioText
  <2> QED BY <1>2, <2>1, <2>3, <2>4, <2>5, NoVersion
<1> QED BY <1>1, <1>2

LEMMA LiveTyped ==
  ASSUME NEW d \in Databases, d.version[Source] \in VersionsWith({None})
  PROVE  /\ Live(d) \in DatabasesWith({None}, {0, 1})
         /\ Revision(d) \in Revisions
         /\ Of(Live(d)) = WithoutReceipt(Of(d)) /\ Of(Revision(d)) = WithoutReceipt(Of(d))
         /\ Live(d).shared = d.shared /\ Revision(d).shared = d.shared
<1>1. PICK plain : plain = WithoutReceipt(d.version[Draft])
  OBVIOUS
<1>2. d.version[Draft] \in Versions \cup {None} /\ d.shared \in Texts \cup {None} /\ d.other \in {0, 1}
  BY DatabaseFields DEF Databases, Versions
<1>3. plain \in VersionsWith({None}) \cup {None}
  BY <1>1, <1>2, PlainTyped
<1>4. PICK versions : versions = [v \in {Source, Draft} |-> IF v = Draft THEN plain ELSE d.version[Source]]
  OBVIOUS
<1>5. PICK live : live = [version |-> versions, shared |-> d.shared, other |-> d.other]
  OBVIOUS
<1>6. live = Live(d)
  BY <1>1, <1>4, <1>5, LiveDatabase DEF Databases
<1>7. versions \in [{Source, Draft} -> VersionsWith({None}) \cup {None}]
  BY <1>3, <1>4
<1>8. versions[Draft] = plain
  BY <1>4
<1>9. live \in DatabasesWith({None}, {0, 1}) /\ live.version = versions /\ live.shared = d.shared
  BY <1>2, <1>5, <1>7 DEF DatabasesWith
<1>10. PICK revision : revision = [live EXCEPT !.other = None]
  OBVIOUS
<1>11. revision = Revision(d)
  BY <1>6, <1>10 DEF Revision
<1>12. revision = [version |-> versions, shared |-> d.shared, other |-> None]
  BY <1>5, <1>10
<1>13. revision \in Revisions /\ revision.version = versions /\ revision.shared = d.shared
  BY <1>2, <1>7, <1>12 DEF Revisions, DatabasesWith
<1> QED BY <1>1, <1>6, <1>8, <1>9, <1>11, <1>13 DEF Of

(* Receipts do not count when one asks what is in place. *)
LEMMA InPlaceInRevision ==
  ASSUME NEW d \in Databases, d.version[Source] \in VersionsWith({None}), NEW p
  PROVE  InPlace(Revision(d), p) <=> InPlace(d, p)
<1>1. PICK v \in Versions \cup {None} : v = Of(d)
  BY DatabaseFields DEF Databases, Versions, Of
<1>2. PICK w : w = WithoutReceipt(v)
  OBVIOUS
<1>3. /\ w = None <=> v = None
      /\ v # None => Content(w) = Content(v) /\ w.risk = v.risk
  BY <1>2, PlainTyped
<1>4. PICK r : r = Revision(d)
  OBVIOUS
<1>5. Of(r) = w /\ r.shared = d.shared
  BY <1>1, <1>2, <1>4, LiveTyped
<1>6. InPlace(r, p) <=> InPlace(d, p)
  BY <1>1, <1>3, <1>5 DEF InPlace
<1> QED BY <1>4, <1>6

LEMMA TokenTyped ==
  ASSUME NEW d \in Databases, d.version[Source] \in VersionsWith({None}),
         NEW e \in Databases, e.version[Source] \in VersionsWith({None}), NEW requires \in BOOLEAN
  PROVE  Token(d, e, requires) \in Tokens
BY LiveTyped DEF Token, Tokens, Precondition

LEMMA WrittenSource ==
  ASSUME NEW d \in Databases, d.version[Source] \in VersionsWith({None}), NEW p \in PackRows
  PROVE  /\ Written(d, p).version[Source] = d.version[Source]
         /\ Of(Written(d, p)) = VersionAfter(d, p, ReceiptAfter(d, p))
         /\ Written(d, p).shared = SharedAfter(d, p)
<1>1. PICK w : w = Written(d, p)
  OBVIOUS
<1>2. PICK v : v = VersionAfter(d, p, ReceiptAfter(d, p))
  OBVIOUS
<1>3. w = [version |-> [u \in {Source, Draft} |-> IF u = Draft THEN v ELSE d.version[Source]],
           shared |-> SharedAfter(d, p), other |-> d.other]
  BY <1>1, <1>2, WrittenDatabase DEF DatabaseAfter
<1>4. /\ w.version[Source] = d.version[Source] /\ w.version[Draft] = v
      /\ w.shared = SharedAfter(d, p)
  BY <1>3, PartsAssumption
<1> QED BY <1>1, <1>2, <1>4 DEF Of

-----------------------------------------------------------------------------
(* What packs say. *)

LEMMA ContentTyped ==
  ASSUME NEW v \in Versions
  PROVE  /\ Content(v) \in Contents
         /\ BasisAlone(v.rows) => BasisAlone(Content(v).claims)
<1>1. PICK rows \in [Claims -> Rows \cup {None}] : rows = v.rows
  BY VersionFields DEF Versions
<1>2. PICK claims : claims = [k \in Claims |-> Authored(rows[k])]
  OBVIOUS
<1>3. claims \in [Claims -> AuthoredAny \cup {None}]
  BY <1>2, AuthoredOfRows
<1>4. ScenarioText(v) \in Texts \cup {None} /\ v.meta \in Texts
  BY VersionFields DEF Versions, ScenarioText
<1>5. PICK content : content = [meta |-> v.meta, claims |-> claims, scenario |-> ScenarioText(v)]
  OBVIOUS
<1>6. content = Content(v)
  BY <1>1, <1>2, <1>5 DEF Content
<1>7. content \in Contents /\ content.claims = claims
  BY <1>3, <1>4, <1>5 DEF Contents, AuthoredAny
<1>8. BasisAlone(rows) => BasisAlone(claims)
  <2>1. claims[Basis] = Authored(rows[Basis]) /\ rows[Basis] \in Rows \cup {None}
    BY <1>2, PartsAssumption
  <2>2. CASE rows[Basis] = None
    BY <2>1, <2>2 DEF BasisAlone, Authored
  <2>3. CASE rows[Basis] # None
    <3>1. claims[Basis].scoped = rows[Basis].scoped
      BY <2>1, <2>3, RowFields
    <3> QED BY <2>3, <3>1 DEF BasisAlone
  <2> QED BY <2>2, <2>3
<1> QED BY <1>1, <1>6, <1>7, <1>8

LEMMA AuthoredRowsTyped ==
  ASSUME NEW k \in Claims, NEW r \in AuthoredRows(k)
  PROVE  r \in AuthoredAny /\ (k = Basis => r.scoped = FALSE)
BY DEF AuthoredRows, AuthoredAny

LEMMA OneChangeTyped ==
  ASSUME NEW content \in Contents, BasisAlone(content.claims), NEW new \in OneChange(content)
  PROVE  new \in Contents /\ BasisAlone(new.claims)
<1>0. /\ content = [meta |-> content.meta, claims |-> content.claims, scenario |-> content.scenario]
      /\ content.meta \in Texts /\ content.claims \in [Claims -> AuthoredAny \cup {None}]
      /\ content.scenario \in Texts \cup {None}
  BY ContentFields
<1>1. CASE new = content
  BY <1>1
<1>2. ASSUME NEW t \in Texts, new = [content EXCEPT !.meta = t]
      PROVE  new \in Contents /\ BasisAlone(new.claims)
  <2>1. new = [meta |-> t, claims |-> content.claims, scenario |-> content.scenario]
    BY <1>0, <1>2
  <2>2. new \in Contents /\ new.claims = content.claims
    BY <1>0, <2>1 DEF Contents, AuthoredAny
  <2> QED BY <2>2
<1>3. ASSUME NEW t \in Texts \cup {None}, new = [content EXCEPT !.scenario = t]
      PROVE  new \in Contents /\ BasisAlone(new.claims)
  <2>1. new = [meta |-> content.meta, claims |-> content.claims, scenario |-> t]
    BY <1>0, <1>3
  <2>2. new \in Contents /\ new.claims = content.claims
    BY <1>0, <2>1 DEF Contents, AuthoredAny
  <2> QED BY <2>2
<1>4. ASSUME NEW k \in Claims, NEW r \in Neighbours(k, content.claims[k]),
             new = [content EXCEPT !.claims[k] = r]
      PROVE  new \in Contents /\ BasisAlone(new.claims)
  <2>1. r = None \/ (r \in AuthoredAny /\ (k = Basis => r.scoped = FALSE))
    BY <1>4, AuthoredRowsTyped DEF Neighbours
  <2>2. PICK claims : claims = [content.claims EXCEPT ![k] = r]
    OBVIOUS
  <2>3. claims \in [Claims -> AuthoredAny \cup {None}]
    BY <1>0, <2>1, <2>2
  <2>4. new = [meta |-> content.meta, claims |-> claims, scenario |-> content.scenario]
    BY <1>0, <1>4, <2>2
  <2>5. new \in Contents /\ new.claims = claims
    BY <1>0, <2>3, <2>4 DEF Contents, AuthoredAny
  <2>6. BasisAlone(claims)
    BY <1>0, <2>1, <2>2, PartsAssumption DEF BasisAlone
  <2> QED BY <2>5, <2>6
<1> QED BY <1>1, <1>2, <1>3, <1>4 DEF OneChange

LEMMA PacksTyped ==
  ASSUME NEW base \in Revisions \cup {None}, NEW explicit \in BOOLEAN, NEW v \in Versions,
         BasisAlone(v.rows), NEW p \in Packs(base, explicit, v)
  PROVE  p \in PackRows /\ BasisAlone(p.content.claims)
<1>1. PICK content \in Contents : content = Content(v) /\ BasisAlone(content.claims)
  BY ContentTyped
<1>2. /\ p.base = base /\ p.explicit = explicit /\ p.content \in OneChange(content)
      /\ p.risk \in BOOLEAN /\ p.shared \in Texts \cup {None}
      /\ p = [base |-> p.base, explicit |-> p.explicit, content |-> p.content, risk |-> p.risk,
              shared |-> p.shared]
  <2>1. v.risk \in BOOLEAN
    BY VersionFields DEF Versions
  <2>2. content \in OneChange(content)
    BY DEF OneChange
  <2> QED BY <1>1, <2>1, <2>2 DEF Packs
<1>3. p.content \in Contents /\ BasisAlone(p.content.claims)
  BY <1>1, <1>2, OneChangeTyped
<1> QED BY <1>2, <1>3 DEF PackRows

-----------------------------------------------------------------------------
(* What editors and clones write. *)

LEMMA SoundBasis ==
  ASSUME NEW v \in Versions, Sound(v)
  PROVE  BasisAlone(v.rows)
<1>1. v.rows \in [Claims -> Rows \cup {None}]
  BY VersionFields DEF Versions
<1>2. CASE v.rows[Basis] = None
  BY <1>2 DEF BasisAlone
<1>3. CASE v.rows[Basis] # None
  <2>1. v.rows[Basis] \in Rows
    BY <1>1, <1>3, PartsAssumption
  <2>2. Authored(v.rows[Basis]) \in AuthoredRows(Basis)
    BY <1>3, PartsAssumption DEF Sound
  <2>3. Authored(v.rows[Basis]).scoped = FALSE
    BY <2>2, PartsAssumption, AuthoredRowsTyped
  <2>4. Authored(v.rows[Basis]).scoped = v.rows[Basis].scoped
    BY <2>1, RowFields
  <2> QED BY <2>3, <2>4 DEF BasisAlone
<1> QED BY <1>2, <1>3

LEMMA BehaviourTyped ==
  ASSUME NEW v \in Versions
  PROVE  Behaviour(v) \in Behaviours
<1>1. Behaviour(v) = Sealing(v.meta, v.rows)
  BY DEF Behaviour, Sealing
<1> QED BY <1>1, Sealed, VersionFields DEF Versions

LEMMA EditedTyped ==
  ASSUME NEW v \in Versions, NEW new \in Edited(v)
  PROVE  new \in Versions /\ new.receipt = v.receipt
<1>0. /\ v = [state |-> v.state, meta |-> v.meta, rows |-> v.rows, history |-> v.history,
              risk |-> v.risk, scenario |-> v.scenario, receipt |-> v.receipt]
      /\ v.state \in {"draft", "published", "withdrawn"} /\ v.meta \in Texts
      /\ v.rows \in [Claims -> Rows \cup {None}]
      /\ v.history \in SUBSET Claims /\ v.risk \in BOOLEAN
      /\ v.scenario \in [text : Texts, seal : Behaviours] \cup {None}
      /\ v.receipt \in Receipts \cup {None}
  BY VersionFields DEF Versions
<1>1. ASSUME NEW rows \in [Claims -> Rows \cup {None}], new = [v EXCEPT !.rows = rows]
      PROVE  new \in Versions /\ new.receipt = v.receipt
  <2>1. new = [state |-> v.state, meta |-> v.meta, rows |-> rows, history |-> v.history,
               risk |-> v.risk, scenario |-> v.scenario, receipt |-> v.receipt]
    BY <1>0, <1>1
  <2> QED BY <1>0, <2>1 DEF Versions, VersionsWith
<1>2. ASSUME NEW k \in Claims, NEW r \in Neighbours(k, Authored(v.rows[k])) \ {None},
             new = [v EXCEPT !.rows[k] = WithTrust(r, @ # None /\ @.trusted)]
      PROVE  new \in Versions /\ new.receipt = v.receipt
  <2>1. r \in AuthoredAny
    BY AuthoredRowsTyped DEF Neighbours
  <2>2. PICK trusted \in BOOLEAN : trusted = (v.rows[k] # None /\ v.rows[k].trusted)
    <3>1. (v.rows[k] # None /\ v.rows[k].trusted) \in BOOLEAN
      BY <1>0, RowFields
    <3> QED BY <3>1
  <2>3. PICK row \in Rows : row = WithTrust(r, trusted)
    BY <2>1, TrustedRow
  <2>4. PICK rows : rows = [v.rows EXCEPT ![k] = row]
    OBVIOUS
  <2>5. rows \in [Claims -> Rows \cup {None}]
    BY <1>0, <2>4
  <2>6. new = [v EXCEPT !.rows = rows]
    <3>1. new = [v EXCEPT !.rows[k] = row]
      BY <1>2, <2>2, <2>3
    <3> QED BY <1>0, <2>4, <3>1
  <2> QED BY <1>1, <2>5, <2>6
<1>3. ASSUME NEW k \in Claims, v.rows[k] # None, new = [v EXCEPT !.rows[k].trusted = TRUE]
      PROVE  new \in Versions /\ new.receipt = v.receipt
  <2>1. v.rows[k] \in Rows
    BY <1>0, <1>3
  <2>2. PICK row : row = [v.rows[k] EXCEPT !.trusted = TRUE]
    OBVIOUS
  <2>3. row \in Rows
    BY <2>1, <2>2 DEF Rows
  <2>4. PICK rows : rows = [v.rows EXCEPT ![k] = row]
    OBVIOUS
  <2>5. rows \in [Claims -> Rows \cup {None}]
    BY <1>0, <2>3, <2>4
  <2>6. new = [v EXCEPT !.rows = rows]
    BY <1>0, <1>3, <2>2, <2>4
  <2> QED BY <1>1, <2>5, <2>6
<1>4. ASSUME NEW k \in Claims, new = [v EXCEPT !.history = @ \cup {k}]
      PROVE  new \in Versions /\ new.receipt = v.receipt
  <2>1. new = [state |-> v.state, meta |-> v.meta, rows |-> v.rows, history |-> v.history \cup {k},
               risk |-> v.risk, scenario |-> v.scenario, receipt |-> v.receipt]
    BY <1>0, <1>4
  <2> QED BY <1>0, <2>1 DEF Versions, VersionsWith
<1>5. ASSUME NEW t \in Texts, new = [v EXCEPT !.scenario = [text |-> t, seal |-> Behaviour(v)]]
      PROVE  new \in Versions /\ new.receipt = v.receipt
  <2>1. PICK scenario \in [text : Texts, seal : Behaviours] : scenario = [text |-> t, seal |-> Behaviour(v)]
    BY BehaviourTyped
  <2>2. new = [state |-> v.state, meta |-> v.meta, rows |-> v.rows, history |-> v.history,
               risk |-> v.risk, scenario |-> scenario, receipt |-> v.receipt]
    BY <1>0, <1>5, <2>1
  <2> QED BY <1>0, <2>2 DEF Versions, VersionsWith
<1>6. ASSUME new = [v EXCEPT !.state = "published"]
      PROVE  new \in Versions /\ new.receipt = v.receipt
  <2>1. new = [state |-> "published", meta |-> v.meta, rows |-> v.rows, history |-> v.history,
               risk |-> v.risk, scenario |-> v.scenario, receipt |-> v.receipt]
    BY <1>0, <1>6
  <2> QED BY <1>0, <2>1 DEF Versions, VersionsWith
<1>7. \/ \E k \in Claims : \E r \in Neighbours(k, Authored(v.rows[k])) \ {None} :
           new = [v EXCEPT !.rows[k] = WithTrust(r, @ # None /\ @.trusted)]
      \/ \E k \in Claims : v.rows[k] # None /\ new = [v EXCEPT !.rows[k].trusted = TRUE]
      \/ \E k \in Claims : new = [v EXCEPT !.history = @ \cup {k}]
      \/ \E t \in Texts : new = [v EXCEPT !.scenario = [text |-> t, seal |-> Behaviour(v)]]
      \/ new = [v EXCEPT !.state = "published"]
  <2>1. CASE new \in RowsSaved(v)
    <3> DEFINE Saved(k, r) == [v EXCEPT !.rows[k] = WithTrust(r, @ # None /\ @.trusted)]
               Hits(k) == Neighbours(k, Authored(v.rows[k])) \ {None}
    <3>1. new \in UNION {{Saved(k, r) : r \in Hits(k)} : k \in Claims}
      BY <2>1, ZenonT(30) DEF RowsSaved
    <3> SUFFICES \E k \in Claims : \E r \in Hits(k) : new = Saved(k, r)
      BY ZenonT(30)
    <3> HIDE DEF Saved, Hits
    <3>2. PICK k \in Claims : new \in {Saved(k, r) : r \in Hits(k)}
      BY <3>1
    <3> QED BY <3>2
  <2>2. CASE new \in ClaimsJudged(v)
    BY <2>2, ZenonT(30) DEF ClaimsJudged
  <2>3. CASE new \in ScenariosSaved(v)
    BY <2>3, ZenonT(30) DEF ScenariosSaved
  <2>4. new \in RowsSaved(v) \/ new \in ClaimsJudged(v) \/ new \in ScenariosSaved(v)
    BY DEF Edited
  <2> QED BY <2>1, <2>2, <2>3, <2>4
<1> QED BY <1>2, <1>3, <1>4, <1>5, <1>6, <1>7

WithDraft(d, v) == [d EXCEPT !.version[Draft] = v]

LEMMA DraftReplaced ==
  ASSUME NEW d \in Databases, NEW v \in Versions \cup {None}
  PROVE  /\ WithDraft(d, v) \in Databases
         /\ WithDraft(d, v).version[Source] = d.version[Source]
         /\ WithDraft(d, v).version[Draft] = v
<1> DEFINE e == WithDraft(d, v)
<1>0. /\ d = [version |-> d.version, shared |-> d.shared, other |-> d.other]
      /\ d.version \in [{Source, Draft} -> Versions \cup {None}]
      /\ d.shared \in Texts \cup {None} /\ d.other \in {0, 1}
  BY DatabaseFields DEF Databases, Versions
<1>1. PICK versions : versions = [d.version EXCEPT ![Draft] = v]
  OBVIOUS
<1>2. /\ versions \in [{Source, Draft} -> Versions \cup {None}]
      /\ versions[Source] = d.version[Source] /\ versions[Draft] = v
  BY <1>0, <1>1, PartsAssumption
<1>3. e = [version |-> versions, shared |-> d.shared, other |-> d.other]
  BY <1>0, <1>1 DEF WithDraft
<1> HIDE DEF e
<1>4. e \in Databases /\ e.version[Source] = d.version[Source] /\ e.version[Draft] = v
  BY <1>0, <1>2, <1>3 DEF Databases, DatabasesWith, Versions
<1> QED BY <1>4 DEF e

(* A clone is a draft without history and without a receipt. *)
LEMMA CloneTyped ==
  ASSUME NEW v \in VersionsWith({None}), BasisAlone(v.rows)
  PROVE  Cloned(v) \in VersionsWith({None}) /\ BasisAlone(Cloned(v).rows)
<1>a. PICK copy : copy = [v EXCEPT !.state = "draft", !.history = {}, !.receipt = None]
  OBVIOUS
<1>b. PICK new : new = IF copy.scenario = None THEN copy
                       ELSE [copy EXCEPT !.scenario.seal = Behaviour(copy)]
  OBVIOUS
<1>c. new = Cloned(v)
  BY <1>a, <1>b, ZenonT(30) DEF Cloned
<1> SUFFICES new \in VersionsWith({None}) /\ BasisAlone(new.rows)
  BY <1>c, ZenonT(30)
<1>1. copy = [state |-> "draft", meta |-> v.meta, rows |-> v.rows, history |-> {}, risk |-> v.risk,
              scenario |-> v.scenario, receipt |-> None]
  <2>1. PICK c1 : c1 = [v EXCEPT !.state = "draft"]
    OBVIOUS
  <2>2. c1 = [state |-> "draft", meta |-> v.meta, rows |-> v.rows, history |-> v.history,
              risk |-> v.risk, scenario |-> v.scenario, receipt |-> v.receipt]
    BY <2>1, VersionFields
  <2>3. PICK c2 : c2 = [c1 EXCEPT !.history = {}]
    OBVIOUS
  <2>4. c2 = [state |-> "draft", meta |-> v.meta, rows |-> v.rows, history |-> {},
              risk |-> v.risk, scenario |-> v.scenario, receipt |-> v.receipt]
    BY <2>2, <2>3
  <2>5. [c2 EXCEPT !.receipt = None] =
          [state |-> "draft", meta |-> v.meta, rows |-> v.rows, history |-> {}, risk |-> v.risk,
           scenario |-> v.scenario, receipt |-> None]
    BY <2>4
  <2> QED BY <1>a, <2>1, <2>3, <2>5, ZenonT(30)
<1>2. copy \in VersionsWith({None}) /\ copy.rows = v.rows
  BY <1>1, VersionFields DEF VersionsWith
<1>3. CASE copy.scenario = None
  BY <1>b, <1>2, <1>3
<1>4. CASE copy.scenario # None
  <2>1. PICK seal \in Behaviours : seal = Behaviour(copy)
    BY <1>2, NoVersion, BehaviourTyped
  <2>2. copy.scenario \in [text : Texts, seal : Behaviours]
    BY <1>2, <1>4, VersionFields
  <2>3. PICK scenario : scenario = [copy.scenario EXCEPT !.seal = seal]
    OBVIOUS
  <2>4. scenario \in [text : Texts, seal : Behaviours]
    BY <2>2, <2>3
  <2>5. new = [copy EXCEPT !.scenario.seal = seal]
    BY <1>b, <1>4, <2>1
  <2>6. new = [state |-> copy.state, meta |-> copy.meta, rows |-> copy.rows, history |-> copy.history,
               risk |-> copy.risk, scenario |-> scenario, receipt |-> copy.receipt]
    <3>1. copy = [state |-> copy.state, meta |-> copy.meta, rows |-> copy.rows,
                  history |-> copy.history, risk |-> copy.risk, scenario |-> copy.scenario,
                  receipt |-> copy.receipt]
      BY <1>2, VersionFields
    <3>2. new = [copy EXCEPT !.scenario = scenario]
      BY <2>3, <2>5, <3>1
    <3> QED BY <3>1, <3>2
  <2>7. new.rows = v.rows
    BY <1>2, <2>6
  <2>8. new \in VersionsWith({None})
    BY <1>2, <2>4, <2>6, VersionFields DEF VersionsWith
  <2> QED BY <2>7, <2>8
<1> QED BY <1>3, <1>4

-----------------------------------------------------------------------------
(* The invariant is kept. *)

LEMMA ConsistentInitially == Init => Consistent
<1> SUFFICES ASSUME Init PROVE Consistent
  OBVIOUS
<1>1. PICK row \in [text : {CHOOSE t \in Texts : TRUE}, scoped : {FALSE}, evidence : Passages,
                    trusted : {TRUE}], risk \in BOOLEAN :
        LET published == [state |-> "published", meta |-> row.text,
                         rows |-> [k \in Claims |-> [row EXCEPT !.scoped = k # Basis]],
                         history |-> {}, risk |-> risk, scenario |-> None, receipt |-> None]
        IN db = [version |-> [v \in {Source, Draft} |->
                               IF v = Source
                               THEN [published EXCEPT !.scenario =
                                       [text |-> row.text, seal |-> Behaviour(published)]]
                               ELSE None],
                shared |-> None, other |-> 0]
  BY DEF Init
<1>2. /\ row.text \in Texts /\ row.evidence \in Passages /\ row.trusted = TRUE
      /\ row = [text |-> row.text, scoped |-> row.scoped, evidence |-> row.evidence,
                trusted |-> row.trusted]
  BY PartsAssumption
<1>3. PICK rows : rows = [k \in Claims |-> [row EXCEPT !.scoped = k # Basis]]
  OBVIOUS
<1>4. rows \in [Claims -> Rows \cup {None}] /\ BasisAlone(rows)
  <2>1. \A k \in Claims : rows[k] = [text |-> row.text, scoped |-> k # Basis,
                                     evidence |-> row.evidence, trusted |-> row.trusted]
    BY <1>2, <1>3
  <2>2. ASSUME NEW k \in Claims
        PROVE  rows[k] \in Rows
    <3>1. PICK scoped \in BOOLEAN : scoped = (k # Basis)
      OBVIOUS
    <3>2. PICK trusted \in BOOLEAN : trusted = row.trusted
      BY <1>2
    <3>3. rows[k] = [text |-> row.text, scoped |-> scoped, evidence |-> row.evidence,
                     trusted |-> trusted]
      BY <2>1, <3>1, <3>2
    <3> QED BY <1>2, <3>3 DEF Rows
  <2>3. rows = [k \in Claims |-> rows[k]]
    BY <1>3
  <2> QED BY <2>1, <2>2, <2>3, PartsAssumption DEF BasisAlone
<1>5. PICK published : published = [state |-> "published", meta |-> row.text, rows |-> rows,
                                    history |-> {}, risk |-> risk, scenario |-> None, receipt |-> None]
  OBVIOUS
<1>6. PICK scenario : scenario = [text |-> row.text, seal |-> Behaviour(published)]
  OBVIOUS
<1>7. PICK source : source = [published EXCEPT !.scenario = scenario]
  OBVIOUS
<1>8. db = [version |-> [v \in {Source, Draft} |-> IF v = Source THEN source ELSE None],
            shared |-> None, other |-> 0]
  BY <1>1, <1>3, <1>5, <1>6, <1>7, ZenonT(30)
<1>9. published \in Versions
  BY <1>2, <1>4, <1>5 DEF Versions, VersionsWith
<1>10. scenario \in [text : Texts, seal : Behaviours]
  BY <1>2, <1>6, <1>9, BehaviourTyped
<1>11. source \in VersionsWith({None}) /\ source.rows = rows
  <2>1. source = [state |-> "published", meta |-> row.text, rows |-> rows, history |-> {},
                  risk |-> risk, scenario |-> scenario, receipt |-> None]
    BY <1>5, <1>7
  <2> QED BY <1>2, <1>4, <1>10, <2>1 DEF VersionsWith
<1>12. source \in Versions
  BY <1>11, NoVersion
<1>13. db \in Databases /\ db.version[Source] = source /\ db.version[Draft] = None
  <2>1. PICK versions : versions = [v \in {Source, Draft} |-> IF v = Source THEN source ELSE None]
    OBVIOUS
  <2>2. /\ versions \in [{Source, Draft} -> Versions \cup {None}]
        /\ versions[Source] = source /\ versions[Draft] = None
    BY <1>12, <2>1, PartsAssumption
  <2>3. db = [version |-> versions, shared |-> None, other |-> 0]
    BY <1>8, <2>1
  <2> QED BY <2>2, <2>3 DEF Databases, DatabasesWith, Versions
<1>14. /\ cloning = None /\ importer = None
       /\ client = [c \in Clients |-> [pack |-> None, token |-> None]]
  BY DEF Init
<1>15. Typed
  BY <1>11, <1>13, <1>14 DEF Typed
<1>16. BasesAlone
  BY <1>4, <1>11, <1>13, <1>14 DEF BasesAlone
<1>17. Undisturbed /\ ReceiptsTell /\ TokensTell
  BY <1>13, <1>14 DEF Undisturbed, ReceiptsTell, TokensTell, Of
<1> QED BY <1>15, <1>16, <1>17 DEF Consistent

LEMMA BeginKeeps ==
  ASSUME Consistent, NEW c \in Clients, NEW mode \in {"inspect", "import", "confirm"},
         NEW allow \in BOOLEAN, Begin(c, mode, allow)
  PROVE  Consistent'
<1>1. PICK early : early = Early(db, c, mode)
  OBVIOUS
<1>2. /\ importer = None /\ ~editing /\ cloning = None /\ client[c].pack # None
      /\ mode = "confirm" => client[c].token # None
      /\ db' = db /\ editing' = editing /\ cloning' = cloning
  BY DEF Begin
<1>3. Typed /\ BasesAlone /\ ReceiptsTell /\ TokensTell
  BY DEF Consistent
<1>4. CASE early = None
  <2>1. importer' = [client |-> c, mode |-> mode, allow |-> allow] /\ client' = client
    BY <1>1, <1>4 DEF Begin
  <2>2. Typed'
    BY <1>2, <1>3, <2>1 DEF Typed, Imports
  <2>3. BasesAlone' /\ ReceiptsTell' /\ TokensTell'
    BY <1>2, <1>3, <2>1 DEF BasesAlone, ReceiptsTell, TokensTell
  <2>4. Undisturbed'
    BY <1>1, <1>2, <1>4, <2>1 DEF Undisturbed, Early
  <2> QED BY <2>2, <2>3, <2>4 DEF Consistent
<1>5. CASE early # None /\ ~(early = "noop" /\ mode = "inspect")
  <2>1. importer' = importer /\ client' = client
    BY <1>1, <1>5 DEF Begin
  <2>2. Typed' /\ BasesAlone' /\ ReceiptsTell' /\ TokensTell'
    BY <1>2, <1>3, <2>1 DEF Typed, BasesAlone, ReceiptsTell, TokensTell
  <2> QED BY <1>2, <2>1, <2>2 DEF Consistent, Undisturbed
<1>6. CASE early = "noop" /\ mode = "inspect"
  <2>1. PICK token : token = Token(db, db, FALSE)
    OBVIOUS
  <2>2. "noop" # None
    BY AbsenceAssumption DEF Refusals
  <2>3. importer' = importer /\ client' = [client EXCEPT ![c].token = token]
    BY <1>1, <1>6, <2>1, <2>2 DEF Begin
  <2>4. token \in Tokens /\ token.precondition = Live(db) /\ token.after = Live(db)
    BY <1>3, <2>1, TokenTyped DEF Typed, Token, Precondition
  <2>5. PICK p \in PackRows : p = client[c].pack
    BY <1>2, <1>3 DEF Typed
  <2>6. /\ client' \in [Clients -> [pack : PackRows \cup {None}, token : Tokens \cup {None}]]
        /\ client'[c].pack = p /\ client'[c].token = token
        /\ \A o \in Clients : client'[o].pack = client[o].pack
        /\ \A o \in Clients \ {c} : client'[o] = client[o]
    BY <1>3, <2>3, <2>4, <2>5 DEF Typed
  <2>7. Typed' /\ BasesAlone' /\ ReceiptsTell' /\ Undisturbed'
    BY <1>2, <1>3, <2>3, <2>6 DEF Typed, BasesAlone, ReceiptsTell, Undisturbed
  <2>8. IsRetry(db, p) /\ Of(db) # None
    BY <1>1, <1>6, <2>2, <2>5, AbsenceAssumption DEF Early, Refusals, Of
  <2>9. InPlace(db, p)
    <3>1. PICK revision : revision = Revision(db)
      OBVIOUS
    <3>2. Of(db).receipt # None /\ Of(db).receipt.request = p /\ Of(db).receipt.revision = revision
      BY <2>8, <3>1 DEF IsRetry, IsRetryOfRequest, Of
    <3>3. InPlace(revision, p)
      BY <1>3, <2>8, <3>2 DEF ReceiptsTell
    <3> QED BY <1>3, <3>1, <3>3, InPlaceInRevision DEF Typed
  <2>10. Live(Written(db, p)) = Live(db)
    BY <1>3, <2>9, InPlaceStays DEF Typed
  <2>11. /\ db \in Databases /\ db.version[Source] \in VersionsWith({None})
         /\ token.precondition = Live(db) /\ token.after = Live(Written(db, p))
    BY <1>3, <2>4, <2>10 DEF Typed
  <2>12. TokensTell'
    <3> SUFFICES ASSUME NEW o \in Clients, client'[o].token # None
                 PROVE  /\ client'[o].pack # None
                        /\ \E d \in Databases :
                             /\ d.version[Source] \in VersionsWith({None})
                             /\ client'[o].token.precondition = Live(d)
                             /\ client'[o].token.after = Live(Written(d, client'[o].pack))
      BY DEF TokensTell
    <3>1. CASE o = c
      BY <1>2, <2>5, <2>6, <2>11, <3>1
    <3>2. CASE o # c
      BY <1>3, <2>6, <3>2 DEF TokensTell
    <3> QED BY <3>1, <3>2
  <2> QED BY <2>7, <2>12 DEF Consistent
<1> QED BY <1>4, <1>5, <1>6


LEMMA WriteStands ==
  ASSUME Consistent, Write
  PROVE  /\ importer.client \in Clients /\ client[importer.client].pack \in PackRows
         /\ BasisAlone(client[importer.client].pack.content.claims)
         /\ IF Of(db) = None THEN client[importer.client].pack.base = None
            ELSE /\ Of(db).state = "draft"
                 /\ client[importer.client].pack.base = Revision(db)
         /\ importer.mode = "confirm" =>
              /\ client[importer.client].token # None
              /\ client[importer.client].token.precondition = Live(db)
<1>1. importer \in Imports /\ importer # None
  BY DEF Write, Consistent, Typed
<1>2. PICK c \in Clients : c = importer.client
  BY <1>1 DEF Imports
<1>3. client[c].pack \in PackRows /\ BasisAlone(client[c].pack.content.claims)
  BY <1>1, <1>2 DEF Consistent, Typed, Undisturbed, BasesAlone
<1>4. PICK mode : mode = importer.mode
  OBVIOUS
<1>5. Early(db, c, mode) = None
  BY <1>1, <1>2, <1>4 DEF Consistent, Undisturbed
<1>6. \A refusal \in Refusals : refusal # None
  BY AbsenceAssumption
<1>7. IF db.version[Draft] = None THEN client[c].pack.base = None
      ELSE db.version[Draft].state = "draft" /\ client[c].pack.base = Revision(db)
  BY <1>5, <1>6 DEF Early, Refusals
<1>8. mode = "confirm" => client[c].token.precondition = Precondition(db)
  BY <1>5, <1>6 DEF Early, Refusals
<1>9. mode = "confirm" => client[c].token # None
  BY <1>1, <1>2, <1>4 DEF Consistent, Undisturbed
<1> QED BY <1>2, <1>3, <1>4, <1>7, <1>8, <1>9 DEF Of, Precondition

(* What was not refused while the draft was rewritten. *)
LEMMA NotRefused ==
  ASSUME NEW d, NEW p, NEW consent, Late(d, p, consent) = None
  PROVE  /\ d.shared = None \/ p.shared \in {None, d.shared}
         /\ OldVersion(d, p).risk => p.risk
         /\ Affected(OldVersion(d, p), p.content) \cap OldVersion(d, p).history = {}
         /\ ~Unresolved(p.content)
<1>1. \A refusal \in Refusals : refusal # None
  BY AbsenceAssumption
<1>2. PICK before : before = LateWithoutHistory(d, p, TRUE)
  OBVIOUS
<1>3. PICK after : after = LateWithoutHistory(d, p, consent)
  OBVIOUS
<1>4. /\ before \notin {"shared_conflict", "risk_reduction"}
      /\ Affected(OldVersion(d, p), p.content) \cap OldVersion(d, p).history = {}
      /\ after = None
  BY <1>1, <1>2, <1>3 DEF Late, Refusals
<1>5. /\ d.shared = None \/ p.shared \in {None, d.shared}
      /\ ~(OldVersion(d, p).risk /\ ~p.risk)
      /\ ~Unresolved(p.content)
  BY <1>1, <1>3, <1>4 DEF LateWithoutHistory, Refusals
<1> QED BY <1>4, <1>5

LEMMA WriteKeeps ==
  ASSUME Consistent, Write
  PROVE  Consistent'
<1>1. Typed /\ BasesAlone /\ ReceiptsTell /\ TokensTell
  BY DEF Consistent
<1>2. PICK c \in Clients, p \in PackRows :
        c = importer.client /\ p = client[c].pack /\ BasisAlone(p.content.claims)
  BY WriteStands
<1>3. PICK next : next = Written(db, p)
  OBVIOUS
<1>4. PICK late : late = Late(db, p, importer.allow \/ importer.mode = "inspect")
  OBVIOUS
<1>5. importer' = None /\ cloning' = cloning
  BY DEF Write
<1>6. db \in Databases /\ db.version[Source] \in VersionsWith({None})
  BY <1>1 DEF Typed
<1>7. /\ next \in Databases /\ next.version[Source] = db.version[Source]
      /\ next.version[Draft] = VersionAfter(db, p, ReceiptAfter(db, p))
  BY <1>3, <1>6, WrittenDatabase, WrittenSource DEF Of
<1>8. Undisturbed'
  BY <1>5 DEF Undisturbed
<1>9. CASE late # None
  <2>1. db' = db /\ client' = client
    BY <1>2, <1>4, <1>9 DEF Write
  <2> QED BY <1>1, <1>5, <1>8, <2>1 DEF Consistent, Typed, BasesAlone, ReceiptsTell, TokensTell
<1>10. CASE late = None /\ importer.mode = "inspect"
  <2>1. PICK requires : requires = Deletes(OldVersion(db, p), p.content)
    OBVIOUS
  <2>2. requires \in BOOLEAN
    BY <2>1 DEF Deletes
  <2>3. PICK token : token = Token(db, next, requires)
    OBVIOUS
  <2>4. db' = db /\ client' = [client EXCEPT ![c].token = token]
    BY <1>2, <1>3, <1>4, <1>10, <2>1, <2>3 DEF Write
  <2>5. token \in Tokens /\ token.precondition = Live(db) /\ token.after = Live(next)
    BY <1>6, <1>7, <2>2, <2>3, TokenTyped DEF Token, Precondition
  <2>6. /\ client' \in [Clients -> [pack : PackRows \cup {None}, token : Tokens \cup {None}]]
        /\ client'[c].pack = p /\ client'[c].token = token
        /\ \A o \in Clients : client'[o].pack = client[o].pack
        /\ \A o \in Clients \ {c} : client'[o] = client[o]
    BY <1>1, <1>2, <2>4, <2>5 DEF Typed
  <2>7. Typed' /\ BasesAlone' /\ ReceiptsTell'
    BY <1>1, <1>5, <2>4, <2>6 DEF Typed, BasesAlone, ReceiptsTell
  <2>8. /\ db \in Databases /\ db.version[Source] \in VersionsWith({None})
        /\ token.precondition = Live(db) /\ token.after = Live(Written(db, p)) /\ p # None
    BY <1>3, <1>6, <2>5, PackFields
  <2>9. TokensTell'
    <3> SUFFICES ASSUME NEW o \in Clients, client'[o].token # None
                 PROVE  /\ client'[o].pack # None
                        /\ \E d \in Databases :
                             /\ d.version[Source] \in VersionsWith({None})
                             /\ client'[o].token.precondition = Live(d)
                             /\ client'[o].token.after = Live(Written(d, client'[o].pack))
      BY DEF TokensTell
    <3>1. CASE o = c
      BY <2>6, <2>8, <3>1
    <3>2. CASE o # c
      BY <1>1, <2>6, <3>2 DEF TokensTell
    <3> QED BY <3>1, <3>2
  <2> QED BY <1>8, <2>7, <2>9 DEF Consistent
<1>11. CASE late = None /\ importer.mode # "inspect"
  <2>1. db' = next /\ client' = client
    BY <1>2, <1>3, <1>4, <1>11 DEF Write
  <2>2. Typed' /\ TokensTell'
    BY <1>1, <1>5, <1>6, <1>7, <2>1 DEF Typed, TokensTell
  <2>3. PICK receipt : receipt = ReceiptAfter(db, p)
    OBVIOUS
  <2>4. PICK v : v = VersionAfter(db, p, receipt)
    OBVIOUS
  <2>5. v.rows = RowsAfter(OldVersion(db, p), p.content) /\ v.receipt = receipt
    BY <2>4 DEF VersionAfter
  <2>6. BasisAlone(v.rows)
    <3>1. PICK rows : rows = RowsAfter(OldVersion(db, p), p.content)
      OBVIOUS
    <3>2. OldVersion(db, p).rows \in [Claims -> Rows \cup {None}] /\ p.content \in Contents
      BY <1>6, OldVersions, VersionFields, PackFields DEF Versions
    <3>3. /\ rows[Basis] \in Rows \cup {None} /\ Authored(rows[Basis]) = p.content.claims[Basis]
          /\ rows[Basis] # None <=> p.content.claims[Basis] # None
      BY <3>1, <3>2, RowsAfterImport, PartsAssumption
    <3>4. rows[Basis] # None => Authored(rows[Basis]).scoped = rows[Basis].scoped
      BY <3>3, RowFields
    <3> QED BY <1>2, <2>5, <3>1, <3>3, <3>4 DEF BasisAlone
  <2>7. BasesAlone'
    BY <1>1, <1>5, <1>7, <2>1, <2>3, <2>4, <2>6 DEF BasesAlone
  <2>8. ReceiptsTell'
    <3>1. receipt = [request |-> p, revision |-> DatabaseAfter(db, p, None, None)]
      BY <2>3 DEF ReceiptAfter
    <3>2. db.shared = None \/ p.shared \in {None, db.shared}
      BY <1>4, <1>11, NotRefused
    <3>3. InPlace(receipt.revision, receipt.request)
      BY <1>6, <3>1, <3>2, ImportIsInPlace
    <3>4. Of(db') = v
      BY <1>7, <2>1, <2>3, <2>4 DEF Of
    <3> QED BY <2>5, <3>3, <3>4 DEF ReceiptsTell
  <2> QED BY <1>8, <2>2, <2>7, <2>8 DEF Consistent
<1> QED BY <1>9, <1>10, <1>11

LEMMA PrepareKeeps ==
  ASSUME Consistent, NEW c \in Clients, Prepare(c)
  PROVE  Consistent'
<1>1. Typed /\ BasesAlone /\ ReceiptsTell /\ TokensTell
  BY DEF Consistent
<1>2. /\ client[c].pack = None /\ importer = None /\ importer' = importer
      /\ db' = db /\ cloning' = cloning
  BY DEF Prepare
<1>3. PICK p : /\ p \in Packs(None, FALSE, db.version[Source])
                       \cup (IF db.version[Draft] = None THEN {}
                             ELSE Packs(Revision(db), TRUE, db.version[Draft]))
               /\ client' = [client EXCEPT ![c].pack = p]
  BY ZenonT(30) DEF Prepare
<1>4. p \in PackRows /\ BasisAlone(p.content.claims)
  <2>1. PICK revision : revision = Revision(db)
    OBVIOUS
  <2>2. db.version[Source] \in Versions /\ BasisAlone(db.version[Source].rows)
    BY <1>1, NoVersion DEF Typed, BasesAlone
  <2>3. CASE p \in Packs(None, FALSE, db.version[Source])
    BY <2>2, <2>3, PacksTyped
  <2>4. CASE db.version[Draft] # None /\ p \in Packs(revision, TRUE, db.version[Draft])
    <3>1. revision \in Revisions
      BY <1>1, <2>1, LiveTyped DEF Typed
    <3>2. db.version[Draft] \in Versions /\ BasisAlone(db.version[Draft].rows)
      BY <1>1, <2>4, DatabaseFields DEF Typed, BasesAlone, Databases, Versions
    <3> QED BY <2>4, <3>1, <3>2, PacksTyped
  <2> QED BY <1>3, <2>1, <2>3, <2>4
<1>5. /\ client' \in [Clients -> [pack : PackRows \cup {None}, token : Tokens \cup {None}]]
      /\ client'[c].pack = p /\ client'[c].token = client[c].token
      /\ \A o \in Clients \ {c} : client'[o] = client[o]
  BY <1>1, <1>3, <1>4 DEF Typed
<1>6. client[c].token = None
  BY <1>1, <1>2 DEF TokensTell
<1>7. Typed' /\ ReceiptsTell' /\ Undisturbed'
  BY <1>1, <1>2, <1>5 DEF Typed, ReceiptsTell, Undisturbed
<1>8. BasesAlone'
  BY <1>1, <1>2, <1>4, <1>5 DEF BasesAlone
<1>9. TokensTell'
  BY <1>1, <1>5, <1>6 DEF TokensTell
<1> QED BY <1>7, <1>8, <1>9 DEF Consistent

LEMMA CommitKeeps ==
  ASSUME Consistent, Commit
  PROVE  Consistent'
<1>1. Typed /\ BasesAlone /\ ReceiptsTell /\ TokensTell
  BY DEF Consistent
<1>2. importer = None /\ importer' = None /\ cloning' = cloning /\ client' = client
  BY DEF Commit, Consistent, Undisturbed
<1>3. Undisturbed' /\ TokensTell'
  BY <1>1, <1>2 DEF Undisturbed, TokensTell
<1>4. /\ db = [version |-> db.version, shared |-> db.shared, other |-> db.other]
      /\ db.version \in [{Source, Draft} -> Versions \cup {None}]
      /\ db.shared \in Texts \cup {None} /\ db.other \in {0, 1}
  BY <1>1, DatabaseFields DEF Typed, Databases, Versions
<1>5. ASSUME NEW v \in Edited(db.version[Draft]), db.version[Draft] # None, Sound(v),
             db' = [db EXCEPT !.version[Draft] = v]
      PROVE  Consistent'
  <2>1. db.version[Draft] \in Versions
    BY <1>4, <1>5
  <2>2. v \in Versions /\ v.receipt = db.version[Draft].receipt
    BY <2>1, EditedTyped
  <2>3. BasisAlone(v.rows)
    BY <1>5, <2>2, SoundBasis
  <2>4. db' \in Databases /\ db'.version[Source] = db.version[Source] /\ db'.version[Draft] = v
    <3>1. db \in Databases /\ v \in Versions \cup {None}
      BY <1>1, <2>2 DEF Typed
    <3>2. db' = WithDraft(db, v)
      BY <1>5, ZenonT(30) DEF WithDraft
    <3> QED BY <3>1, <3>2, DraftReplaced
  <2>5. Typed' /\ BasesAlone'
    BY <1>1, <1>2, <2>3, <2>4 DEF Typed, BasesAlone
  <2>6. ReceiptsTell'
    BY <1>1, <1>5, <2>2, <2>4 DEF ReceiptsTell, Of
  <2> QED BY <1>3, <2>5, <2>6 DEF Consistent
<1>6. ASSUME NEW t \in Texts, db' = [db EXCEPT !.shared = t]
      PROVE  Consistent'
  <2>1. db' = [version |-> db.version, shared |-> t, other |-> db.other]
    BY <1>4, <1>6
  <2>2. db' \in Databases /\ db'.version = db.version
    BY <1>4, <2>1 DEF Databases, DatabasesWith, Versions
  <2> QED BY <1>1, <1>2, <1>3, <2>2 DEF Consistent, Typed, BasesAlone, ReceiptsTell, Of
<1>7. ASSUME db' = [db EXCEPT !.other = 1 - @]
      PROVE  Consistent'
  <2>1. PICK other \in {0, 1} : other = 1 - db.other
    BY <1>4
  <2>2. db' = [version |-> db.version, shared |-> db.shared, other |-> other]
    BY <1>4, <1>7, <2>1
  <2>3. db' \in Databases /\ db'.version = db.version
    BY <1>4, <2>2 DEF Databases, DatabasesWith, Versions
  <2> QED BY <1>1, <1>2, <1>3, <2>3 DEF Consistent, Typed, BasesAlone, ReceiptsTell, Of
<1>8. \/ \E v \in Edited(db.version[Draft]) :
           db.version[Draft] # None /\ Sound(v) /\ db' = [db EXCEPT !.version[Draft] = v]
      \/ \E t \in Texts : db' = [db EXCEPT !.shared = t]
      \/ db' = [db EXCEPT !.other = 1 - @]
  BY ZenonT(30) DEF Commit
<1> QED BY <1>5, <1>6, <1>7, <1>8

LEMMA CloneCommitKeeps ==
  ASSUME Consistent, CloneCommit
  PROVE  Consistent'
<1>1. Typed /\ BasesAlone /\ TokensTell
  BY DEF Consistent
<1>2. /\ cloning \in VersionsWith({None}) /\ BasisAlone(cloning.rows)
      /\ cloning' = None /\ importer' = importer /\ client' = client
  BY <1>1 DEF CloneCommit, Typed, BasesAlone
<1>3. importer = None
  BY DEF CloneCommit, Consistent, Undisturbed
<1>4. PICK new : new = Cloned(cloning)
  OBVIOUS
<1>5. db' = [db EXCEPT !.version[Draft] = new]
  <2>1. db' = [db EXCEPT !.version[Draft] = Cloned(cloning)]
    BY ZenonT(30) DEF CloneCommit
  <2> QED BY <1>4, <2>1, ZenonT(30)
<1>7. new \in VersionsWith({None}) /\ BasisAlone(new.rows)
  BY <1>2, <1>4, CloneTyped
<1>8. new \in Versions /\ new.receipt = None
  BY <1>7, NoVersion, VersionFields
<1>9. db' \in Databases /\ db'.version[Source] = db.version[Source] /\ db'.version[Draft] = new
  <2>1. db \in Databases /\ new \in Versions \cup {None}
    BY <1>1, <1>8 DEF Typed
  <2>2. db' = WithDraft(db, new)
    BY <1>5, ZenonT(30) DEF WithDraft
  <2> QED BY <2>1, <2>2, DraftReplaced
<1>10. Typed' /\ BasesAlone'
  BY <1>1, <1>2, <1>7, <1>9 DEF Typed, BasesAlone
<1>11. Undisturbed' /\ ReceiptsTell' /\ TokensTell'
  BY <1>1, <1>2, <1>3, <1>8, <1>9 DEF Undisturbed, ReceiptsTell, TokensTell, Of
<1> QED BY <1>10, <1>11 DEF Consistent

LEMMA WithdrawKeeps ==
  ASSUME Consistent, Withdraw
  PROVE  Consistent'
<1>1. Typed /\ BasesAlone /\ ReceiptsTell /\ TokensTell
  BY DEF Consistent
<1>2. /\ importer = None /\ importer' = importer /\ cloning' = cloning /\ client' = client
      /\ db' = [db EXCEPT !.version[Source].state = "withdrawn"]
  BY DEF Withdraw, Excluded
<1>3. /\ db = [version |-> db.version, shared |-> db.shared, other |-> db.other]
      /\ db.version \in [{Source, Draft} -> Versions \cup {None}]
      /\ db.shared \in Texts \cup {None} /\ db.other \in {0, 1}
  BY <1>1, DatabaseFields DEF Typed, Databases, Versions
<1>4. PICK source : source = [db.version[Source] EXCEPT !.state = "withdrawn"]
  OBVIOUS
<1>5. source \in VersionsWith({None}) /\ source.rows = db.version[Source].rows
  <2>1. PICK old \in VersionsWith({None}) : old = db.version[Source]
    BY <1>1 DEF Typed
  <2>2. source = [state |-> "withdrawn", meta |-> old.meta, rows |-> old.rows, history |-> old.history,
                  risk |-> old.risk, scenario |-> old.scenario, receipt |-> old.receipt]
    BY <1>4, <2>1, VersionFields
  <2> QED BY <2>1, <2>2, VersionFields DEF VersionsWith
<1>6. PICK versions : versions = [db.version EXCEPT ![Source] = source]
  OBVIOUS
<1>7. /\ versions \in [{Source, Draft} -> Versions \cup {None}]
      /\ versions[Source] = source /\ versions[Draft] = db.version[Draft]
  BY <1>3, <1>5, <1>6, NoVersion, PartsAssumption
<1>8. db' = [version |-> versions, shared |-> db.shared, other |-> db.other]
  BY <1>2, <1>3, <1>4, <1>6
<1>9. /\ db' \in Databases /\ db'.version[Source] = source
      /\ db'.version[Draft] = db.version[Draft]
  BY <1>3, <1>7, <1>8 DEF Databases, DatabasesWith, Versions
<1>10. db.version[Source] # None
  BY <1>1, NoVersion DEF Typed
<1>11. Typed' /\ BasesAlone'
  BY <1>1, <1>2, <1>5, <1>9, <1>10 DEF Typed, BasesAlone
<1>12. Undisturbed' /\ ReceiptsTell' /\ TokensTell'
  BY <1>1, <1>2, <1>9 DEF Undisturbed, ReceiptsTell, TokensTell, Of
<1> QED BY <1>11, <1>12 DEF Consistent

LEMMA CloneBeginKeeps ==
  ASSUME Consistent, CloneBegin
  PROVE  Consistent'
<1>1. Typed /\ BasesAlone /\ ReceiptsTell /\ TokensTell
  BY DEF Consistent
<1>2. /\ importer = None /\ importer' = importer /\ cloning' = db.version[Source]
      /\ client' = client /\ db' = db
  BY DEF CloneBegin, Excluded
<1>3. db.version[Source] \in VersionsWith({None}) /\ db.version[Source] # None
  BY <1>1, NoVersion DEF Typed
<1>4. Typed' /\ BasesAlone'
  BY <1>1, <1>2, <1>3 DEF Typed, BasesAlone
<1>5. Undisturbed' /\ ReceiptsTell' /\ TokensTell'
  BY <1>1, <1>2 DEF Undisturbed, ReceiptsTell, TokensTell
<1> QED BY <1>4, <1>5 DEF Consistent

LEMMA NextKeeps == Consistent /\ [Next]_vars => Consistent'
<1> SUFFICES ASSUME Consistent, [Next]_vars PROVE Consistent'
  OBVIOUS
<1>1. ASSUME NEW c \in Clients, NEW mode \in {"inspect", "import", "confirm"}, NEW allow \in BOOLEAN,
             Begin(c, mode, allow)
      PROVE  Consistent'
  BY <1>1, BeginKeeps
<1>2. ASSUME NEW c \in Clients, Prepare(c)
      PROVE  Consistent'
  BY <1>2, PrepareKeeps
<1>3. CASE Write
  BY <1>3, WriteKeeps
<1>4. CASE Crash
  BY <1>4 DEF Crash, Consistent, Typed, BasesAlone, Undisturbed, ReceiptsTell, TokensTell
<1>5. CASE Open
  BY <1>5 DEF Open, Excluded, Consistent, Typed, BasesAlone, Undisturbed, ReceiptsTell, TokensTell
<1>6. CASE Commit
  BY <1>6, CommitKeeps
<1>7. CASE Withdraw
  BY <1>7, WithdrawKeeps
<1>8. CASE CloneBegin
  BY <1>8, CloneBeginKeeps
<1>9. CASE CloneCommit
  BY <1>9, CloneCommitKeeps
<1>10. CASE UNCHANGED vars
  BY <1>10 DEF vars, Consistent, Typed, BasesAlone, Undisturbed, Early, ReceiptsTell, TokensTell
<1> QED BY <1>1, <1>2, <1>3, <1>4, <1>5, <1>6, <1>7, <1>8, <1>9, <1>10 DEF Next

LEMMA AlwaysConsistent == Spec => []Consistent
BY ConsistentInitially, NextKeeps, PTL DEF Spec

-----------------------------------------------------------------------------
(* Who answers, and what was done. *)

(* Nothing is written: the answer is a refusal, a preview, or that the pack is
   in the database already.                                                   *)
AnsweredOnly ==
  /\ db' = db /\ reply'.client \in Clients
  /\ reply'.code # "written"
  /\ reply'.code = "noop" => /\ client[reply'.client].pack \in PackRows
                             /\ InPlace(db, client[reply'.client].pack)

(* The pack p is written, and nothing of the kind that is refused was met. *)
Wrote(c, p) ==
  /\ importer # None /\ c = importer.client /\ reply'.client = c
  /\ p = client[c].pack /\ db' = Written(db, p)
  /\ IF Of(db) = None THEN p.base = None ELSE Of(db).state = "draft" /\ p.base = Revision(db)
  /\ db.shared = None \/ p.shared \in {None, db.shared}
  /\ OldVersion(db, p).risk => p.risk
  /\ Affected(OldVersion(db, p), p.content) \cap OldVersion(db, p).history = {}
  /\ ~Unresolved(p.content) /\ BasisAlone(p.content.claims)
  /\ importer.mode = "confirm" => /\ client[c].token # None
                                  /\ client[c].token.precondition = Live(db)

LEMMA RetryIsInPlace ==
  ASSUME Consistent, NEW p \in PackRows, Of(db) # None, IsRetry(db, p)
  PROVE  InPlace(db, p)
<1>1. PICK revision : revision = Revision(db)
  OBVIOUS
<1>2. Of(db).receipt # None /\ Of(db).receipt.request = p /\ Of(db).receipt.revision = revision
  BY <1>1 DEF IsRetry, IsRetryOfRequest, Of
<1>3. InPlace(revision, p)
  BY <1>2 DEF Consistent, ReceiptsTell
<1> QED BY <1>1, <1>3, InPlaceInRevision DEF Consistent, Typed

LEMMA BeginAnswers ==
  ASSUME Consistent, NEW c \in Clients, NEW mode \in {"inspect", "import", "confirm"},
         NEW allow \in BOOLEAN, Begin(c, mode, allow), reply' # None
  PROVE  AnsweredOnly
<1>1. PICK early : early = Early(db, c, mode)
  OBVIOUS
<1>2. PICK code : code = IF early = "noop" /\ mode = "inspect" THEN "dry_run" ELSE early
  OBVIOUS
<1>3. db' = db /\ early # None /\ reply' = [client |-> c, code |-> code]
  BY <1>1, <1>2 DEF Begin, Answer
<1>4. client[c].pack \in PackRows
  BY DEF Begin, Consistent, Typed
<1>5. early # "written" /\ (early = "noop" => db.version[Draft] # None /\ IsRetry(db, client[c].pack))
  BY <1>1, <1>3 DEF Early
<1>6. reply'.client = c /\ reply'.code = code /\ code # "written" /\ (code = "noop" => early = "noop")
  BY <1>2, <1>3, <1>5
<1>7. early = "noop" => InPlace(db, client[c].pack)
  BY <1>4, <1>5, RetryIsInPlace DEF Of
<1> QED BY <1>3, <1>4, <1>6, <1>7 DEF AnsweredOnly

LEMMA WriteAnswers ==
  ASSUME Consistent, Write
  PROVE  AnsweredOnly \/ \E c \in Clients, p \in PackRows : Wrote(c, p)
<1>1. PICK c \in Clients, p \in PackRows :
        c = importer.client /\ p = client[c].pack /\ BasisAlone(p.content.claims)
  BY WriteStands
<1>2. PICK consent : consent = (importer.allow \/ importer.mode = "inspect")
  OBVIOUS
<1>3. PICK late : late = Late(db, p, consent)
  OBVIOUS
<1>4. late # None => late \notin {"written", "noop"}
  BY <1>3 DEF Late, LateWithoutHistory
<1>5. CASE late # None
  <2>1. db' = db /\ reply' = [client |-> c, code |-> late]
    BY <1>1, <1>2, <1>3, <1>5 DEF Write, Answer
  <2>2. reply'.client = c /\ reply'.code = late
    BY <2>1
  <2> QED BY <1>4, <1>5, <2>1, <2>2 DEF AnsweredOnly
<1>6. CASE late = None /\ importer.mode = "inspect"
  <2>1. db' = db /\ reply' = [client |-> c, code |-> "dry_run"]
    BY <1>1, <1>2, <1>3, <1>6 DEF Write, Answer
  <2>2. reply'.client = c /\ reply'.code = "dry_run"
    BY <2>1
  <2> QED BY <2>1, <2>2 DEF AnsweredOnly
<1>7. CASE late = None /\ importer.mode # "inspect"
  <2>1. PICK code : code = IF Live(Written(db, p)) = Live(db) THEN "noop" ELSE "written"
    OBVIOUS
  <2>2. importer # None /\ db' = Written(db, p) /\ reply' = [client |-> c, code |-> code]
    BY <1>1, <1>2, <1>3, <1>7, <2>1 DEF Write, Answer
  <2>3. reply'.client = c
    BY <2>2
  <2>4. /\ db.shared = None \/ p.shared \in {None, db.shared}
        /\ OldVersion(db, p).risk => p.risk
        /\ Affected(OldVersion(db, p), p.content) \cap OldVersion(db, p).history = {}
        /\ ~Unresolved(p.content)
    BY <1>3, <1>7, NotRefused
  <2>5. Wrote(c, p)
    BY <1>1, <2>2, <2>3, <2>4, WriteStands DEF Wrote
  <2> QED BY <2>5
<1> QED BY <1>5, <1>6, <1>7

LEMMA Answers ==
  ASSUME Consistent, Next, Imported
  PROVE  AnsweredOnly \/ \E c \in Clients, p \in PackRows : Wrote(c, p)
<1>1. \/ \E c \in Clients, mode \in {"inspect", "import", "confirm"}, allow \in BOOLEAN :
           Begin(c, mode, allow)
      \/ Write
  BY DEF Next, Imported, Prepare, Crash, Open, Commit, Withdraw, CloneBegin, CloneCommit
<1> QED BY <1>1, BeginAnswers, WriteAnswers DEF Imported

-----------------------------------------------------------------------------
(* What an import leaves. *)

LEMMA WroteLeaves ==
  ASSUME Consistent, NEW c \in Clients, NEW p \in PackRows, Wrote(c, p),
         NEW old, old = OldVersion(db, p), NEW v, v = Of(db')
  PROVE  /\ old \in Versions /\ v # None /\ p.content \in Contents
         /\ Of(db) # None => old = Of(db)
         /\ Of(db) = None => \A k \in Claims : old.rows[k] = None
         /\ v.meta = p.content.meta /\ v.rows = RowsAfter(old, p.content) /\ v.history = old.history
         /\ v.risk = (old.risk \/ p.risk) /\ v.scenario = ScenarioAfter(old, p.content)
<1>1. /\ db \in Databases /\ db.version[Source] \in VersionsWith({None})
      /\ db' = Written(db, p)
  BY DEF Consistent, Typed, Wrote
<1>2. PICK receipt \in Receipts : receipt = ReceiptAfter(db, p)
  BY <1>1, ReceiptAfterImport
<1>3. v = VersionAfter(db, p, receipt)
  BY <1>1, <1>2, WrittenSource
<1>4. v \in Versions
  BY <1>1, <1>3, VersionAfterImport DEF Versions
<1>5. Of(db) = None => \A k \in Claims : old.rows[k] = None
  BY DEF Of, OldVersion, Blank
<1>6. old \in Versions /\ p.content \in Contents /\ (Of(db) # None => old = Of(db))
  BY <1>1, OldVersions, PackFields DEF OldVersion, Of
<1>7. /\ v.meta = p.content.meta /\ v.rows = RowsAfter(old, p.content) /\ v.history = old.history
      /\ v.risk = (old.risk \/ p.risk) /\ v.scenario = ScenarioAfter(old, p.content)
  BY <1>3 DEF VersionAfter
<1> QED BY <1>4, <1>5, <1>6, <1>7, NoVersion

LEMMA WroteInPlace ==
  ASSUME Consistent, NEW c \in Clients, NEW p \in PackRows, Wrote(c, p)
  PROVE  InPlace(db', p)
<1>1. /\ db \in Databases /\ db.version[Source] \in VersionsWith({None})
      /\ db' = Written(db, p) /\ (db.shared = None \/ p.shared \in {None, db.shared})
  BY DEF Consistent, Typed, Wrote
<1>2. PICK receipt \in Receipts : receipt = ReceiptAfter(db, p)
  BY <1>1, ReceiptAfterImport
<1>3. PICK next : next = DatabaseAfter(db, p, receipt, db.other)
  OBVIOUS
<1>4. InPlace(next, p)
  BY <1>1, <1>3, ImportIsInPlace
<1>5. db' = next
  BY <1>1, <1>2, <1>3, WrittenDatabase
<1> QED BY <1>4, <1>5

-----------------------------------------------------------------------------
(* The theorems: what every import does. *)

WritesOnWhatItSaw ==
  Imported /\ db' # db =>
    LET p == client[reply'.client].pack IN
    /\ IF Of(db) = None THEN p.base = None ELSE p.base = Revision(db)
    /\ Sound(Of(db'))

LEMMA WroteSound ==
  ASSUME Consistent, NEW c \in Clients, NEW p \in PackRows, Wrote(c, p)
  PROVE  Sound(Of(db'))
<1>1. PICK old, v : old = OldVersion(db, p) /\ v = Of(db')
  OBVIOUS
<1>2. old \in Versions /\ p.content \in Contents /\ v.rows = RowsAfter(old, p.content)
  BY <1>1, WroteLeaves
<1>3. PICK rows : rows = RowsAfter(old, p.content)
  OBVIOUS
<1>4. /\ rows \in [Claims -> Rows \cup {None}]
      /\ \A k \in Claims : /\ Authored(rows[k]) = p.content.claims[k]
                           /\ rows[k] # None <=> p.content.claims[k] # None
  BY <1>2, <1>3, VersionFields, RowsAfterImport DEF Versions
<1>5. /\ p.content.claims \in [Claims -> AuthoredAny \cup {None}]
      /\ BasisAlone(p.content.claims) /\ ~Unresolved(p.content)
  BY <1>2, ContentFields DEF Wrote
<1>6. ASSUME NEW k \in Claims, rows[k] # None
      PROVE  Authored(rows[k]) \in AuthoredRows(k)
  <2>1. PICK r \in AuthoredAny : r = p.content.claims[k]
    BY <1>4, <1>5, <1>6
  <2>2. k = Basis => r.scoped = FALSE
    BY <1>4, <1>5, <1>6, <2>1 DEF BasisAlone
  <2>3. r \in AuthoredRows(k)
    BY <2>2 DEF AuthoredAny, AuthoredRows
  <2> QED BY <1>4, <2>1, <2>3
<1>7. ASSUME NEW k \in Claims, rows[k] # None, rows[k].scoped
      PROVE  rows[Basis] # None
  <2>1. rows[k] \in Rows
    BY <1>4, <1>7
  <2>2. Authored(rows[k]).scoped = rows[k].scoped
    BY <2>1, RowFields
  <2>3. p.content.claims[k] # None /\ p.content.claims[k].scoped
    BY <1>4, <1>7, <2>2
  <2>4. p.content.claims[Basis] # None
    BY <1>5, <2>3 DEF Unresolved
  <2> QED BY <1>4, <2>4, PartsAssumption
<1>8. v.rows = rows
  BY <1>2, <1>3
<1>9. Sound(v)
  BY <1>6, <1>7, <1>8 DEF Sound
<1> QED BY <1>1, <1>9

(* An import changes the draft only when the draft it commits over is the one
   its pack was exported from, or when there was none, and what it commits is
   whole.                                                                     *)
THEOREM ImportsKnowWhatTheyOverwrite == Spec => ImportWritesOnWhatItSaw
<1>1. Consistent /\ [Next]_vars => [WritesOnWhatItSaw]_vars
  <2> SUFFICES ASSUME Consistent, Next, Imported, db' # db
               PROVE  LET p == client[reply'.client].pack IN
                      /\ IF Of(db) = None THEN p.base = None ELSE p.base = Revision(db)
                      /\ Sound(Of(db'))
    BY DEF WritesOnWhatItSaw
  <2>1. PICK c \in Clients, p \in PackRows : Wrote(c, p)
    BY Answers DEF AnsweredOnly
  <2>2. Sound(Of(db'))
    BY <2>1, WroteSound
  <2>3. p = client[reply'.client].pack
        /\ (IF Of(db) = None THEN p.base = None ELSE p.base = Revision(db))
    BY <2>1 DEF Wrote
  <2> QED BY <2>2, <2>3
<1> QED BY <1>1, AlwaysConsistent, PTL DEF Spec, WritesOnWhatItSaw, ImportWritesOnWhatItSaw

AnswersTruly ==
  Imported /\ reply'.code \in {"written", "noop"} =>
    LET p == client[reply'.client].pack IN
    /\ Of(db') # None /\ Content(Of(db')) = p.content
    /\ p.risk => Of(db').risk
    /\ p.shared # None => db'.shared = p.shared

(* Whoever is told that the pack is in the database, also by the answer to a
   request that was sent again, finds it there, whole.                        *)
THEOREM AnswersAreTrue == Spec => AnswerIsTrue
<1>1. Consistent /\ [Next]_vars => [AnswersTruly]_vars
  <2> SUFFICES ASSUME Consistent, Next, Imported, reply'.code \in {"written", "noop"}
               PROVE  InPlace(db', client[reply'.client].pack)
    BY DEF AnswersTruly, InPlace
  <2>1. CASE AnsweredOnly
    BY <2>1 DEF AnsweredOnly
  <2>2. CASE \E c \in Clients, p \in PackRows : Wrote(c, p)
    <3>1. PICK c \in Clients, p \in PackRows : Wrote(c, p)
      BY <2>2
    <3>2. InPlace(db', p) /\ p = client[reply'.client].pack
      BY <3>1, WroteInPlace DEF Wrote
    <3> QED BY <3>2
  <2> QED BY <2>1, <2>2, Answers
<1> QED BY <1>1, AlwaysConsistent, PTL DEF Spec, AnswersTruly, AnswerIsTrue

AttestsNothing ==
  Imported /\ Of(db') # None =>
    /\ \A k \in Claims : Of(db').rows[k] # None /\ Of(db').rows[k].trusted =>
         /\ Of(db) # None /\ Of(db).rows[k] # None
         /\ Ground(Of(db), k) = Ground(Of(db'), k)
    /\ Of(db) # None /\ Of(db').scenario # Of(db).scenario =>
         /\ ScenarioText(Of(db')) # ScenarioText(Of(db))
         /\ Of(db').scenario # None => Of(db').scenario.seal = Behaviour(Of(db'))

LEMMA WroteTrust ==
  ASSUME Consistent, NEW c \in Clients, NEW p \in PackRows, Wrote(c, p),
         NEW v, v = Of(db'), NEW k \in Claims, v.rows[k] # None, v.rows[k].trusted
  PROVE  Of(db) # None /\ Of(db).rows[k] # None /\ Ground(Of(db), k) = Ground(v, k)
<1>1. PICK old : old = OldVersion(db, p)
  OBVIOUS
<1>2. /\ old \in Versions /\ p.content \in Contents
      /\ v.meta = p.content.meta /\ v.rows = RowsAfter(old, p.content)
      /\ Of(db) # None => old = Of(db)
      /\ Of(db) = None => \A j \in Claims : old.rows[j] = None
  BY <1>1, WroteLeaves
<1>3. PICK rows : rows = RowsAfter(old, p.content)
  OBVIOUS
<1>4. /\ old.rows \in [Claims -> Rows \cup {None}] /\ rows \in [Claims -> Rows \cup {None}]
      /\ \A j \in Claims : /\ Authored(rows[j]) = p.content.claims[j]
                           /\ rows[j] # None <=> p.content.claims[j] # None
                           /\ j \notin Affected(old, p.content) => rows[j] = old.rows[j]
      /\ k \notin Affected(old, p.content)
  BY <1>2, <1>3, VersionFields, RowsAfterImport DEF Versions
<1>5. rows[k] = old.rows[k] /\ rows[k] # None /\ p.content.claims[k] # None
  BY <1>2, <1>3, <1>4
<1>6. Of(db) # None /\ old = Of(db)
  BY <1>2, <1>5
<1>7. old.meta = v.meta
  BY <1>2, <1>4, <1>5 DEF Affected, AffectedDirectly
<1>8. old.rows[k].scoped => Authored(old.rows[Basis]) = Authored(rows[Basis])
  <2> SUFFICES ASSUME old.rows[k].scoped PROVE Authored(old.rows[Basis]) = Authored(rows[Basis])
    OBVIOUS
  <2>1. Basis \notin AffectedDirectly(old, p.content)
    BY <1>4, <1>5 DEF Affected
  <2>2. Authored(old.rows[Basis]) = p.content.claims[Basis]
    BY <2>1, PartsAssumption DEF AffectedDirectly
  <2> QED BY <1>4, <2>2, PartsAssumption
<1>9. Ground(old, k) = Ground(v, k)
  BY <1>2, <1>3, <1>5, <1>7, <1>8 DEF Ground
<1> QED BY <1>5, <1>6, <1>9

LEMMA WroteScenario ==
  ASSUME Consistent, NEW c \in Clients, NEW p \in PackRows, Wrote(c, p),
         NEW v, v = Of(db'), Of(db) # None, v.scenario # Of(db).scenario
  PROVE  /\ ScenarioText(v) # ScenarioText(Of(db))
         /\ v.scenario # None => v.scenario.seal = Behaviour(v)
<1>1. PICK old : old = OldVersion(db, p)
  OBVIOUS
<1>2. /\ old \in Versions /\ p.content \in Contents /\ old = Of(db)
      /\ v.meta = p.content.meta /\ v.rows = RowsAfter(old, p.content)
      /\ v.scenario = ScenarioAfter(old, p.content)
  BY <1>1, WroteLeaves
<1>3. PICK after : after = ScenarioAfter(old, p.content)
  OBVIOUS
<1>4. /\ (IF after = None THEN None ELSE after.text) = p.content.scenario
      /\ p.content.scenario # ScenarioText(old)
      /\ after # None => after.seal = Sealing(p.content.meta, RowsAfter(old, p.content))
  BY <1>2, <1>3, VersionFields, ScenarioAfterImport DEF Versions
<1>5. ScenarioText(v) = p.content.scenario
  BY <1>2, <1>3, <1>4 DEF ScenarioText
<1>6. Behaviour(v) = Sealing(p.content.meta, RowsAfter(old, p.content))
  BY <1>2 DEF Behaviour, Sealing
<1> QED BY <1>2, <1>3, <1>4, <1>5, <1>6

(* A pack attests nothing: what is trusted after an import was trusted before
   it on the same ground, and a scenario is sealed with what it runs on.      *)
THEOREM PacksAttestNothing == Spec => ImportsAttestNothing
<1>1. Consistent /\ [Next]_vars => [AttestsNothing]_vars
  <2> SUFFICES ASSUME Consistent, Next, Imported, Of(db') # None
               PROVE  AttestsNothing
    BY DEF AttestsNothing
  <2>1. CASE AnsweredOnly
    <3>1. db' = db
      BY <2>1 DEF AnsweredOnly
    <3>2. Of(db) # None
      BY <3>1
    <3> QED BY <3>1, <3>2 DEF AttestsNothing
  <2>2. CASE \E c \in Clients, p \in PackRows : Wrote(c, p)
    <3>1. PICK c \in Clients, p \in PackRows : Wrote(c, p)
      BY <2>2
    <3>2. PICK v : v = Of(db')
      OBVIOUS
    <3>3. ASSUME NEW k \in Claims, v.rows[k] # None, v.rows[k].trusted
          PROVE  Of(db) # None /\ Of(db).rows[k] # None /\ Ground(Of(db), k) = Ground(v, k)
      BY <3>1, <3>2, <3>3, WroteTrust
    <3>4. Of(db) # None /\ v.scenario # Of(db).scenario =>
            /\ ScenarioText(v) # ScenarioText(Of(db))
            /\ v.scenario # None => v.scenario.seal = Behaviour(v)
      BY <3>1, <3>2, WroteScenario
    <3> QED BY <3>2, <3>3, <3>4 DEF AttestsNothing
  <2> QED BY <2>1, <2>2, Answers
<1> QED BY <1>1, AlwaysConsistent, PTL DEF Spec, AttestsNothing, ImportsAttestNothing

KeepsHistoryAndRisks ==
  Imported /\ Of(db) # None =>
    /\ Of(db').history = Of(db).history
    /\ \A k \in Of(db).history : Of(db').rows[k] = Of(db).rows[k]
    /\ Of(db).risk => Of(db').risk
    /\ Of(db).state # "draft" => db' = db

(* Claims with a history stay exactly as they are, a risk flag is never
   cleared, and only drafts are rewritten.                                    *)
THEOREM HistoryAndRisksStay == Spec => HistoryAndRisksKept
<1>1. Consistent /\ [Next]_vars => [KeepsHistoryAndRisks]_vars
  <2> SUFFICES ASSUME Consistent, Next, Imported, Of(db) # None
               PROVE  KeepsHistoryAndRisks
    BY DEF KeepsHistoryAndRisks
  <2>1. CASE AnsweredOnly
    <3>1. db' = db
      BY <2>1 DEF AnsweredOnly
    <3> QED BY <3>1 DEF KeepsHistoryAndRisks
  <2>2. CASE \E c \in Clients, p \in PackRows : Wrote(c, p)
    <3>1. PICK c \in Clients, p \in PackRows : Wrote(c, p)
      BY <2>2
    <3>2. PICK old, v : old = OldVersion(db, p) /\ v = Of(db')
      OBVIOUS
    <3>3. /\ old \in Versions /\ old = Of(db) /\ p.content \in Contents
          /\ v.rows = RowsAfter(old, p.content) /\ v.history = old.history
          /\ v.risk = (old.risk \/ p.risk)
      BY <3>1, <3>2, WroteLeaves
    <3>4. Affected(old, p.content) \cap old.history = {} /\ old.state = "draft"
      BY <3>1, <3>2, <3>3 DEF Wrote
    <3>5. old.rows \in [Claims -> Rows \cup {None}] /\ old.history \in SUBSET Claims
      BY <3>3, VersionFields DEF Versions
    <3>6. \A k \in old.history : v.rows[k] = old.rows[k]
      BY <3>3, <3>4, <3>5, RowsAfterImport
    <3> QED BY <3>2, <3>3, <3>4, <3>6 DEF KeepsHistoryAndRisks
  <2> QED BY <2>1, <2>2, Answers
<1> QED BY <1>1, AlwaysConsistent, PTL DEF Spec, KeepsHistoryAndRisks, HistoryAndRisksKept

ConfirmsWhatWasShown ==
  Imported /\ importer # None /\ importer.mode = "confirm" /\ reply'.code = "written" =>
    Live(db') = client[reply'.client].token.after

(* A confirmed import leaves the whole database as the inspection showed it. *)
THEOREM ConfirmationsDoWhatWasShown == Spec => ConfirmDoesWhatWasShown
<1>1. Consistent /\ [Next]_vars => [ConfirmsWhatWasShown]_vars
  <2> SUFFICES ASSUME Consistent, Next, Imported, importer # None, importer.mode = "confirm",
                      reply'.code = "written"
               PROVE  Live(db') = client[reply'.client].token.after
    BY DEF ConfirmsWhatWasShown
  <2>1. PICK c \in Clients, p \in PackRows : Wrote(c, p)
    BY Answers DEF AnsweredOnly
  <2>2. /\ reply'.client = c /\ p = client[c].pack /\ db' = Written(db, p)
        /\ client[c].token # None /\ client[c].token.precondition = Live(db)
    BY <2>1 DEF Wrote
  <2>3. PICK d \in Databases : /\ d.version[Source] \in VersionsWith({None})
                               /\ client[c].token.precondition = Live(d)
                               /\ client[c].token.after = Live(Written(d, p))
    BY <2>2 DEF Consistent, TokensTell
  <2>4. db \in Databases /\ db.version[Source] \in VersionsWith({None})
    BY DEF Consistent, Typed
  <2>5. Live(Written(db, p)) = Live(Written(d, p))
    BY <2>2, <2>3, <2>4, SameLive
  <2> QED BY <2>2, <2>3, <2>5
<1> QED BY <1>1, AlwaysConsistent, PTL DEF Spec, ConfirmsWhatWasShown, ConfirmDoesWhatWasShown
=============================================================================
