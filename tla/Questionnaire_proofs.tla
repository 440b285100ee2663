------------------------ MODULE Questionnaire_proofs ------------------------
(***************************************************************************)
(* Proofs about the questionnaire: for any pages, services, cases and      *)
(* planner, the owner sees the case of its tab, what was cleared stays     *)
(* away, and nothing is sent before a deadline of the server.              *)
(***************************************************************************)
EXTENDS Questionnaire, TLAPS

IsCase(c) ==
  c = [service |-> c.service, date |-> c.date, facts |-> c.facts, history |-> c.history,
       cleared |-> c.cleared]

IsTab(t) ==
  /\ t = [case |-> t.case, idle |-> t.idle, failure |-> t.failure, waiting |-> t.waiting,
          notice |-> t.notice]
  /\ t.idle \in BOOLEAN /\ t.waiting \in BOOLEAN
  /\ IsCase(t.case)

IsFlight(f) ==
  f = [by |-> f.by, case |-> f.case, live |-> f.live] /\ f.by \in Mounts /\ f.live \in BOOLEAN

IsDocument(d) ==
  /\ d = [ignoreStored |-> d.ignoreStored, idleNext |-> d.idleNext, clearNotice |-> d.clearNotice]
  /\ d.ignoreStored \in BOOLEAN /\ d.idleNext \in BOOLEAN

Troubled(notice) == notice \in {"memory", "clear_failed"}

Shapes ==
  /\ owner \in Mounts \cup {None}
  /\ mounted \subseteq Mounts
  /\ \A f \in flights : IsFlight(f)
  /\ IsDocument(doc)
  /\ tab # None \/ owner # None => IsTab(tab)
  /\ stored # None => IsCase(stored)

(* What is cleared on the privacy page and could not be removed is never read
   again by this document.                                                    *)
ClearedIsIgnored ==
  /\ stored # None /\ stored.cleared = "privacy" => doc.ignoreStored
  /\ tab # None \/ owner # None => tab.case.cleared # "privacy"

(* A tab that reports no trouble is what the storage holds, owned or not; and
   after a clean removal the storage is empty until the next page mounts.     *)
StorageAgrees ==
  /\ (tab # None \/ owner # None) /\ ~Troubled(tab.notice)
       => stored = IF tab.idle THEN None ELSE tab.case
  /\ doc.idleNext =>
       owner = None /\ doc.ignoreStored /\ (doc.clearNotice # "clear_failed" => stored = None)

(* Nothing is in the air while the tab waits for a deadline. *)
WaitingIsQuiet == (tab # None \/ owner # None) /\ tab.waiting => Live = {}

Sound == Shapes /\ ClearedIsIgnored /\ StorageAgrees /\ ViewIsCurrent /\ WaitingIsQuiet

-----------------------------------------------------------------------------
(* What is done to a case keeps its service, and who cleared it. *)

SameOrigin(c, d) == IsCase(d) /\ d.service = c.service /\ d.cleared = c.cleared

LEMMA FreshCases ==
  ASSUME NEW service
  PROVE  IsCase(FreshCase(service)) /\ FreshCase(service).service = service
         /\ FreshCase(service).cleared # "privacy"
BY NoneAssumption DEF IsCase, FreshCase

LEMMA RewoundCases ==
  ASSUME NEW c, IsCase(c), NEW i
  PROVE  SameOrigin(c, RewindCase(c, i))
<1>1. CASE i \notin 1..Len(c.history)
  BY <1>1 DEF RewindCase, SameOrigin
<1>2. CASE i \in 1..Len(c.history)
  <2>1. PICK facts, history : RewindCase(c, i) = [c EXCEPT !.facts = facts, !.history = history]
    BY <1>2 DEF RewindCase
  <2>2. PICK d : d = [c EXCEPT !.facts = facts, !.history = history]
    OBVIOUS
  <2>3. d = [service |-> c.service, date |-> c.date, facts |-> facts, history |-> history,
             cleared |-> c.cleared]
    BY <2>2 DEF IsCase
  <2> QED BY <2>1, <2>2, <2>3 DEF SameOrigin, IsCase
<1> QED BY <1>1, <1>2

LEMMA ResubmittedCases ==
  ASSUME NEW c, IsCase(c), NEW question, NEW draft
  PROVE  SameOrigin(c, Resubmitted(c, question, draft))
<1> DEFINE values == Given(question, draft)
<1>1. PICK base : base = RewindCase(c, Earliest(c, Changed(c, question, values)))
  OBVIOUS
<1>2. SameOrigin(c, base)
  BY <1>1, RewoundCases
<1>3. PICK facts, history :
        Resubmitted(c, question, draft) = [base EXCEPT !.facts = facts, !.history = history]
  <2>1. Resubmitted(c, question, draft)
          = [base EXCEPT !.facts = Replaced(@, question, values), !.history = Append(@, question)]
    BY <1>1 DEF Resubmitted
  <2> QED BY <2>1
<1>4. PICK d : d = [base EXCEPT !.facts = facts, !.history = history]
  OBVIOUS
<1>5. d = [service |-> base.service, date |-> base.date, facts |-> facts, history |-> history,
           cleared |-> base.cleared]
  BY <1>2, <1>4 DEF SameOrigin, IsCase
<1> QED BY <1>2, <1>3, <1>4, <1>5 DEF SameOrigin, IsCase

LEMMA CorrectedCases ==
  ASSUME NEW c, IsCase(c), NEW keys
  PROVE  SameOrigin(c, CorrectDiagnostics(c, keys))
<1>1. PICK base : base = RewindCase(c, Earliest(c, keys))
  OBVIOUS
<1>2. SameOrigin(c, base)
  BY <1>1, RewoundCases
<1>3. PICK facts : CorrectDiagnostics(c, keys) = [base EXCEPT !.facts = facts]
  BY <1>1 DEF CorrectDiagnostics
<1>4. PICK d : d = [base EXCEPT !.facts = facts]
  OBVIOUS
<1>5. d = [service |-> base.service, date |-> base.date, facts |-> facts, history |-> base.history,
           cleared |-> base.cleared]
  BY <1>2, <1>4 DEF SameOrigin, IsCase
<1> QED BY <1>2, <1>3, <1>4, <1>5 DEF SameOrigin, IsCase

LEMMA RedatedCases ==
  ASSUME NEW c, IsCase(c), NEW date, NEW d, d = [c EXCEPT !.date = date]
  PROVE  SameOrigin(c, d)
<1>1. d = [service |-> c.service, date |-> date, facts |-> c.facts, history |-> c.history,
           cleared |-> c.cleared]
  BY DEF IsCase
<1> QED BY <1>1 DEF SameOrigin, IsCase

(* Storing a case. *)
LEMMA SavedCases ==
  ASSUME NEW case, NEW old, NEW s \in Save(case, old)
  PROVE  \/ s.ok = TRUE /\ s.stored = case
         \/ s.ok = FALSE /\ s.stored \in {old, None}
<1>1. CASE s = [ok |-> TRUE, stored |-> case]
  BY <1>1
<1>2. CASE s = [ok |-> FALSE, stored |-> None] \/ s = [ok |-> FALSE, stored |-> old]
  BY <1>2
<1> QED BY <1>1, <1>2 DEF Save

LEMMA ClearedCases ==
  ASSUME NEW old, old # None => IsCase(old), NEW by, NEW s \in ClearStorage(old, by)
  PROVE  \/ s.ok = TRUE /\ s.stored = None
         \/ /\ s.ok = FALSE
            /\ s.stored # None =>
                 /\ IsCase(s.stored) /\ old # None
                 /\ s.stored.cleared = by \/ s.stored.cleared = old.cleared
<1>1. PICK kept : kept = IF old = None \/ old.facts = <<>> THEN old ELSE [old EXCEPT !.cleared = by]
  OBVIOUS
<1>2. s = [ok |-> TRUE, stored |-> None] \/ s = [ok |-> FALSE, stored |-> kept]
  BY <1>1 DEF ClearStorage
<1>3. (s.ok = TRUE /\ s.stored = None) \/ (s.ok = FALSE /\ s.stored = kept)
  <2>1. CASE s = [ok |-> TRUE, stored |-> None]
    BY <2>1
  <2>2. CASE s = [ok |-> FALSE, stored |-> kept]
    BY <2>2
  <2> QED BY <1>2, <2>1, <2>2
<1>4. CASE old = None \/ old.facts = <<>>
  BY <1>1, <1>3, <1>4
<1>5. CASE ~(old = None \/ old.facts = <<>>)
  <2>1. kept = [old EXCEPT !.cleared = by]
    BY <1>1, <1>5
  <2>2. kept = [service |-> old.service, date |-> old.date, facts |-> old.facts,
                history |-> old.history, cleared |-> by]
    BY <1>5, <2>1 DEF IsCase
  <2>3. IsCase(kept) /\ kept.cleared = by
    BY <2>2 DEF IsCase
  <2> QED BY <1>3, <1>5, <2>3
<1> QED BY <1>4, <1>5

-----------------------------------------------------------------------------
(* Requests. *)

LEMMA CancelledFlights ==
  ASSUME NEW inAir, \A f \in inAir : IsFlight(f), NEW mount
  PROVE  /\ \A f \in Cancelled(inAir, mount) : IsFlight(f)
         /\ \A f \in Cancelled(inAir, mount) : f.live => f \in inAir /\ f.by # mount
         /\ \A f \in inAir : f.live /\ f.by # mount => f \in Cancelled(inAir, mount)
<1>1. ASSUME NEW f \in inAir, NEW g, g = [f EXCEPT !.live = FALSE]
      PROVE  IsFlight(g) /\ ~g.live
  <2>1. f = [by |-> f.by, case |-> f.case, live |-> f.live] /\ f.by \in Mounts
    BY DEF IsFlight
  <2>2. g = [by |-> f.by, case |-> f.case, live |-> FALSE]
    BY <1>1, <2>1
  <2> QED BY <2>1, <2>2 DEF IsFlight
<1>2. ASSUME NEW g \in Cancelled(inAir, mount)
      PROVE  IsFlight(g) /\ (g.live => g \in inAir /\ g.by # mount)
  <2>1. PICK f \in inAir : g = IF f.by = mount THEN [f EXCEPT !.live = FALSE] ELSE f
    BY DEF Cancelled
  <2>2. CASE f.by = mount
    <3>1. g = [f EXCEPT !.live = FALSE]
      BY <2>1, <2>2
    <3> QED BY <1>1, <3>1
  <2>3. CASE f.by # mount
    BY <2>1, <2>3
  <2> QED BY <2>2, <2>3
<1>3. ASSUME NEW f \in inAir, f.by # mount
      PROVE  f \in Cancelled(inAir, mount)
  BY <1>3 DEF Cancelled
<1> QED BY <1>2, <1>3

(* A request is sent at once and is then the only one that counts, or the tab
   waits and none is in the air.                                              *)
LEMMA RunsOneRequest ==
  ASSUME NEW t, IsTab(t), NEW mount \in Mounts,
         NEW inAir, \A f \in inAir : IsFlight(f), \A f \in inAir : f.live => f.by = mount,
         Run(t, inAir, mount)
  PROVE  /\ IsTab(tab') /\ tab'.case = t.case /\ tab'.idle = t.idle
         /\ tab'.waiting = t.waiting /\ tab'.notice = t.notice
         /\ \A f \in flights' : IsFlight(f)
         /\ \A f \in flights' : f.live =>
              f = [by |-> mount, case |-> t.case, live |-> TRUE] /\ ~t.waiting
         /\ view'.status # "result"
         /\ view'.status = "loading" <=> \E f \in flights' : f.live
<1> DEFINE others == Cancelled(inAir, mount)
           request == [by |-> mount, case |-> t.case, live |-> TRUE]
<1>1. (\A f \in others : IsFlight(f)) /\ \A f \in others : ~f.live
  BY CancelledFlights
<1>2. CASE t.waiting
  <2>1. tab' = t /\ flights' = others
    BY <1>2 DEF Run
  <2>2. view'.status = "failure"
    BY <1>2 DEF Run, Failure
  <2> QED BY <1>1, <2>1, <2>2
<1>3. CASE ~t.waiting
  <2>1. tab' = [t EXCEPT !.failure = None] /\ flights' = others \cup {request}
    BY <1>3 DEF Run
  <2>2. view'.status = "loading"
    BY <1>3 DEF Run, View
  <2>3. tab' = [case |-> t.case, idle |-> t.idle, failure |-> None, waiting |-> t.waiting,
                notice |-> t.notice]
    BY <2>1 DEF IsTab
  <2>4. IsTab(tab') /\ tab'.case = t.case /\ tab'.idle = t.idle
        /\ tab'.waiting = t.waiting /\ tab'.notice = t.notice
    BY <2>3 DEF IsTab
  <2>5. IsFlight(request) /\ request.live
    BY DEF IsFlight
  <2> HIDE DEF others, request
  <2> QED BY <1>1, <1>3, <2>1, <2>2, <2>4, <2>5 DEF request
<1> QED BY <1>2, <1>3 DEF IsTab

(* With at most one live request, of the owner, cancelling it leaves none. *)
LEMMA OwnersRequests ==
  ASSUME Sound
  PROVE  /\ \A f \in Live : f = [by |-> owner, case |-> tab.case, live |-> TRUE]
         /\ \A f \in flights : f.live => f.by = owner
         /\ \A f \in Cancelled(flights, owner) : IsFlight(f) /\ ~f.live
<1>1. \A f \in flights : f.live => f.by = owner /\ f.case = tab.case /\ f.live = TRUE
  BY DEF Sound, ViewIsCurrent, LoadingIsLive, Live, Shapes, IsFlight
<1>2. \A f \in Live : f = [by |-> owner, case |-> tab.case, live |-> TRUE]
  BY <1>1 DEF Sound, Shapes, IsFlight, Live
<1>3. \A f \in flights : IsFlight(f)
  BY DEF Sound, Shapes
<1>4. \A f \in Cancelled(flights, owner) : IsFlight(f) /\ ~f.live
  BY <1>1, <1>3, CancelledFlights
<1> QED BY <1>1, <1>2, <1>4

LEMMA NobodysRequests == Sound /\ owner = None => Live = {}
BY OwnersRequests, NoneAssumption DEF Sound, Shapes, IsFlight, Live

-----------------------------------------------------------------------------
(* The case that a page finds. *)

Opened(case, idle, notice) ==
  [case |-> case, idle |-> idle, failure |-> None, waiting |-> FALSE, notice |-> notice]

(* What is loaded is not what the privacy page cleared. *)
LEMMA LoadedCases ==
  ASSUME Sound, ~doc.ignoreStored, NEW service, NEW l \in Load(service, stored)
  PROVE  /\ IsCase(l.case) /\ l.case.service = service /\ l.case.cleared # "privacy"
         /\ l.stored \in {None, stored}
<1>1. l = [case |-> FreshCase(service), notice |-> "memory", stored |-> stored]
      \/ l = [case |-> FreshCase(service), notice |-> None, stored |-> None]
      \/ l = [case |-> FreshCase(service), notice |-> "discarded", stored |-> None]
      \/ /\ stored # None /\ stored.service = service
         /\ l = [case |-> stored, notice |-> "restored", stored |-> stored]
  BY DEF Load
<1>2. ASSUME NEW n, NEW k, l = [case |-> FreshCase(service), notice |-> n, stored |-> k]
      PROVE  l.case = FreshCase(service) /\ l.stored = k
  BY <1>2
<1>3. CASE stored # None /\ stored.service = service
           /\ l = [case |-> stored, notice |-> "restored", stored |-> stored]
  BY <1>3 DEF Sound, Shapes, ClearedIsIgnored
<1> QED BY <1>1, <1>2, <1>3, FreshCases

LEMMA FoundTabs ==
  ASSUME Sound, NEW service, NEW found \in Found(service)
  PROVE  /\ IsTab(found.tab) /\ found.tab.case.cleared # "privacy"
         /\ found.stored # None =>
              IsCase(found.stored) /\ (found.stored.cleared = "privacy" => doc.ignoreStored)
         /\ ~Troubled(found.tab.notice) =>
              found.stored = IF found.tab.idle THEN None ELSE found.tab.case
         /\ \/ tab # None /\ tab.case.service = service /\ found.tab = tab
            \/ /\ ~(tab # None /\ tab.case.service = service)
               /\ found.tab.case.service = service /\ found.tab.waiting = FALSE
<1>1. CASE tab # None /\ tab.case.service = service
  <2>1. found = [tab |-> tab, stored |-> stored]
    BY <1>1 DEF Found
  <2> QED BY <1>1, <2>1 DEF Sound, Shapes, ClearedIsIgnored, StorageAgrees
<1>2. CASE ~(tab # None /\ tab.case.service = service)
  <2> DEFINE loads == IF doc.ignoreStored
                      THEN {[case |-> FreshCase(service), notice |-> doc.clearNotice, stored |-> stored]}
                      ELSE Load(service, stored)
  <2>1. ASSUME NEW l \in loads
        PROVE  /\ IsCase(l.case) /\ l.case.service = service /\ l.case.cleared # "privacy"
               /\ l.stored \in {None, stored}
               /\ doc.ignoreStored => l.notice = doc.clearNotice /\ l.stored = stored
    <3>1. CASE doc.ignoreStored
      <4>1. l = [case |-> FreshCase(service), notice |-> doc.clearNotice, stored |-> stored]
        BY <3>1
      <4>2. l.case = FreshCase(service) /\ l.notice = doc.clearNotice /\ l.stored = stored
        BY <4>1
      <4> QED BY <4>2, FreshCases
    <3>2. CASE ~doc.ignoreStored
      BY <3>2, LoadedCases
    <3> QED BY <3>1, <3>2
  <2>k. \A k \in {None, stored} : k # None =>
          IsCase(k) /\ (k.cleared = "privacy" => doc.ignoreStored)
    BY DEF Sound, Shapes, ClearedIsIgnored
  <2> HIDE DEF loads
  <2>2. CASE doc.idleNext
    <3>1. PICK l \in loads : found = [tab |-> Opened(l.case, TRUE, l.notice), stored |-> l.stored]
      <4>1. doc.idleNext = TRUE
        BY <2>2 DEF Sound, Shapes, IsDocument
      <4> QED BY <1>2, <2>2, <4>1 DEF Found, Opened, loads
    <3>2. found.tab = Opened(l.case, TRUE, l.notice) /\ found.stored = l.stored
      BY <3>1
    <3>3. ~Troubled(l.notice) => l.stored = None
      BY <2>1, <2>2 DEF Sound, StorageAgrees, Troubled
    <3>4. /\ IsTab(found.tab) /\ found.tab.case = l.case /\ found.tab.idle = TRUE
          /\ found.tab.waiting = FALSE /\ found.tab.notice = l.notice
      <4>1. found.tab = Opened(l.case, TRUE, l.notice) /\ IsCase(l.case)
        BY <2>1, <3>2
      <4> QED BY <4>1 DEF Opened, IsTab
    <3>5. found.stored \in {None, stored}
      BY <2>1, <3>2
    <3>6. ~Troubled(found.tab.notice) => found.stored = IF found.tab.idle THEN None ELSE found.tab.case
      BY <3>2, <3>3, <3>4
    <3> QED BY <1>2, <2>1, <2>k, <3>4, <3>5, <3>6
  <2>3. CASE ~doc.idleNext
    <3>0. PICK l \in loads : \E s \in Save(l.case, l.stored) :
            found = [tab |-> Opened(l.case, FALSE, IF s.ok THEN l.notice ELSE "memory"),
                     stored |-> s.stored]
      <4>1. doc.idleNext = FALSE
        BY <2>3 DEF Sound, Shapes, IsDocument
      <4> QED BY <1>2, <2>3, <4>1 DEF Found, Opened, loads
    <3>1. PICK s \in Save(l.case, l.stored) :
            found = [tab |-> Opened(l.case, FALSE, IF s.ok THEN l.notice ELSE "memory"),
                     stored |-> s.stored]
      BY <3>0
    <3>2. /\ found.tab = Opened(l.case, FALSE, IF s.ok THEN l.notice ELSE "memory")
          /\ found.stored = s.stored
      BY <3>1
    <3>3. CASE s.ok = TRUE /\ s.stored = l.case
      <4>1. /\ IsTab(found.tab) /\ found.tab.case = l.case /\ found.tab.idle = FALSE
            /\ found.tab.waiting = FALSE /\ found.stored = l.case
        <5>1. PICK n : found.tab = Opened(l.case, FALSE, n) /\ IsCase(l.case)
          BY <2>1, <3>2
        <5> QED BY <3>2, <3>3, <5>1 DEF Opened, IsTab
      <4> QED BY <1>2, <2>1, <4>1
    <3>4. CASE s.ok = FALSE /\ s.stored \in {l.stored, None}
      <4>1. found.tab = Opened(l.case, FALSE, "memory") /\ found.stored \in {None, stored}
        BY <2>1, <3>2, <3>4
      <4>2. /\ IsTab(found.tab) /\ found.tab.case = l.case
            /\ found.tab.waiting = FALSE /\ Troubled(found.tab.notice)
        <5>1. found.tab = Opened(l.case, FALSE, "memory") /\ IsCase(l.case)
          BY <2>1, <4>1
        <5> QED BY <5>1 DEF Opened, IsTab, Troubled
      <4> QED BY <1>2, <2>1, <2>k, <4>1, <4>2
    <3> QED BY <3>3, <3>4, SavedCases
  <2> QED BY <2>2, <2>3
<1> QED BY <1>1, <1>2

-----------------------------------------------------------------------------
(* Steps. *)

Deadline ==
  tab # None /\ tab.waiting /\ tab' # None /\ tab'.case.service = tab.case.service =>
    /\ tab'.waiting \/ (flights' = flights /\ tab'.case = tab.case /\ owner' = owner)
    /\ ~\E f \in flights' \ flights : f.live

(* After a step that leaves at most the owner's request about the tab's case,
   and no result, the owner sees its own case.                                *)
LEMMA OwnerSeesItsCase ==
  ASSUME \A f \in flights' : f.live => f.by = owner' /\ f.case = tab'.case /\ ~tab'.waiting,
         view'.status # "result",
         owner' # None => ((view'.status = "loading") <=> \E f \in flights' : f.live)
  PROVE  ViewIsCurrent' /\ WaitingIsQuiet'
BY DEF ViewIsCurrent, ShownIsCurrent, LoadingIsLive, WaitingIsQuiet, Live

LEMMA AttachKeeps ==
  ASSUME Sound, NEW mount \in Mounts, NEW service \in Services, Attach(mount, service)
  PROVE  Sound' /\ Deadline
<1> DEFINE inAir == Cancelled(flights, owner)
<1>1. PICK found \in Found(service) :
        /\ stored' = found.stored
        /\ IF found.tab.idle THEN tab' = found.tab /\ flights' = inAir /\ view' = View("idle")
           ELSE IF found.tab.failure # None
             THEN tab' = found.tab /\ flights' = inAir /\ view' = Failure(found.tab.failure)
           ELSE Run(found.tab, inAir, mount)
  BY DEF Attach
<1>2. owner' = mount /\ mounted' = mounted \cup {mount} /\ doc' = [doc EXCEPT !.idleNext = FALSE]
  BY DEF Attach
<1>3. /\ IsTab(found.tab) /\ found.tab.case.cleared # "privacy"
      /\ found.stored # None =>
           IsCase(found.stored) /\ (found.stored.cleared = "privacy" => doc.ignoreStored)
      /\ ~Troubled(found.tab.notice) =>
           found.stored = IF found.tab.idle THEN None ELSE found.tab.case
      /\ \/ tab # None /\ tab.case.service = service /\ found.tab = tab
         \/ /\ ~(tab # None /\ tab.case.service = service)
            /\ found.tab.case.service = service /\ found.tab.waiting = FALSE
  BY FoundTabs
<1>4. \A f \in inAir : IsFlight(f) /\ ~f.live
  BY OwnersRequests
<1> HIDE DEF inAir
<1>5. /\ IsTab(tab') /\ tab'.case = found.tab.case /\ tab'.idle = found.tab.idle
      /\ tab'.waiting = found.tab.waiting /\ tab'.notice = found.tab.notice
      /\ \A f \in flights' : IsFlight(f)
      /\ \A f \in flights' : f.live =>
           f = [by |-> mount, case |-> found.tab.case, live |-> TRUE] /\ ~found.tab.waiting
      /\ view'.status # "result"
      /\ view'.status = "loading" <=> \E f \in flights' : f.live
  <2>1. CASE found.tab.idle
    <3>1. tab' = found.tab /\ flights' = inAir /\ view'.status = "idle"
      BY <1>1, <2>1 DEF View
    <3> QED BY <1>3, <1>4, <3>1
  <2>2. CASE ~found.tab.idle /\ found.tab.failure # None
    <3>1. tab' = found.tab /\ flights' = inAir /\ view'.status = "failure"
      BY <1>1, <2>2 DEF Failure
    <3> QED BY <1>3, <1>4, <3>1
  <2>3. CASE ~found.tab.idle /\ ~(found.tab.failure # None)
    <3>1. Run(found.tab, inAir, mount)
      BY <1>1, <2>3
    <3>2. \A f \in inAir : IsFlight(f)
      BY <1>4
    <3>3. \A f \in inAir : f.live => f.by = mount
      BY <1>4
    <3> QED BY <1>3, <3>1, <3>2, <3>3, RunsOneRequest
  <2> QED BY <2>1, <2>2, <2>3
<1>6. \A f \in flights' : f.live => f.by = owner' /\ f.case = tab'.case /\ ~tab'.waiting
  BY <1>2, <1>5
<1>7. ViewIsCurrent' /\ WaitingIsQuiet'
  BY <1>5, <1>6, OwnerSeesItsCase
<1>8. /\ IsDocument(doc') /\ doc'.ignoreStored = doc.ignoreStored /\ doc'.idleNext = FALSE
  <2>1. IsDocument(doc)
    BY DEF Sound, Shapes
  <2>2. doc' = [ignoreStored |-> doc.ignoreStored, idleNext |-> FALSE, clearNotice |-> doc.clearNotice]
    BY <1>2, <2>1 DEF IsDocument
  <2> QED BY <2>1, <2>2 DEF IsDocument
<1>9. Shapes'
  BY <1>1, <1>2, <1>3, <1>5, <1>8 DEF Sound, Shapes
<1>10. ClearedIsIgnored' /\ StorageAgrees'
  BY <1>1, <1>3, <1>5, <1>8 DEF ClearedIsIgnored, StorageAgrees
<1>11. Deadline
  <2> SUFFICES ASSUME tab # None, tab.waiting, tab'.case.service = tab.case.service
               PROVE  tab'.waiting /\ ~\E f \in flights' : f.live
    BY DEF Deadline
  <2>1. found.tab = tab
    BY <1>3, <1>5
  <2> QED BY <1>5, <2>1
<1> QED BY <1>7, <1>9, <1>10, <1>11 DEF Sound

LEMMA ReleaseKeeps ==
  ASSUME Sound, NEW mount \in Mounts, Release(mount)
  PROVE  Sound' /\ Deadline
<1>1. mounted' = mounted \ {mount} /\ flights' = Cancelled(flights, mount)
      /\ UNCHANGED <<tab, doc, stored>>
  BY DEF Release
<1>2. \A f \in flights : IsFlight(f)
  BY DEF Sound, Shapes
<1>3. /\ \A f \in flights' : IsFlight(f)
      /\ \A f \in flights' : f.live => f \in flights /\ f.by # mount
      /\ \A f \in flights : f.live /\ f.by # mount => f \in flights'
  BY <1>1, <1>2, CancelledFlights
<1>4. Deadline
  BY <1>1, <1>3 DEF Deadline, Sound, Shapes, IsTab
<1>5. CASE owner = mount
  <2>1. owner' = None /\ view'.status = "initializing"
    BY <1>5 DEF Release, View
  <2>2. \A f \in flights' : ~f.live
    BY <1>3, <1>5, OwnersRequests
  <2>3. ViewIsCurrent' /\ WaitingIsQuiet'
    BY <2>1, <2>2, OwnerSeesItsCase
  <2>4. Shapes' /\ ClearedIsIgnored' /\ StorageAgrees'
    BY <1>1, <1>3, <2>1 DEF Sound, Shapes, ClearedIsIgnored, StorageAgrees
  <2> QED BY <1>4, <2>3, <2>4 DEF Sound
<1>6. CASE owner # mount
  <2>1. UNCHANGED <<owner, view>>
    BY <1>6 DEF Release
  <2>2. Live' = Live
    <3>1. \A f \in flights : f.live => f.by = owner
      BY OwnersRequests
    <3> QED BY <1>3, <1>6, <3>1 DEF Live
  <2>3. ViewIsCurrent' /\ WaitingIsQuiet'
    BY <1>1, <2>1, <2>2 DEF Sound, ViewIsCurrent, ShownIsCurrent, LoadingIsLive, WaitingIsQuiet
  <2>4. Shapes' /\ ClearedIsIgnored' /\ StorageAgrees'
    BY <1>1, <1>3, <2>1 DEF Sound, Shapes, ClearedIsIgnored, StorageAgrees
  <2> QED BY <1>4, <2>3, <2>4 DEF Sound
<1> QED BY <1>5, <1>6

(* The tab goes on with another case, and keeps its deadline. *)
LEMMA ChangedTabs ==
  ASSUME NEW t, IsTab(t), NEW c, NEW idle, NEW notice
  PROVE  [t EXCEPT !.case = c, !.idle = idle, !.notice = notice] =
         [case |-> c, idle |-> idle, failure |-> t.failure, waiting |-> t.waiting, notice |-> notice]
<1>1. PICK u1 : u1 = [t EXCEPT !.case = c]
  OBVIOUS
<1>2. u1 = [case |-> c, idle |-> t.idle, failure |-> t.failure, waiting |-> t.waiting,
            notice |-> t.notice]
  BY <1>1 DEF IsTab
<1>3. PICK u2 : u2 = [u1 EXCEPT !.idle = idle]
  OBVIOUS
<1>4. u2 = [case |-> c, idle |-> idle, failure |-> t.failure, waiting |-> t.waiting,
            notice |-> t.notice]
  BY <1>2, <1>3
<1>5. [u2 EXCEPT !.notice = notice] =
        [case |-> c, idle |-> idle, failure |-> t.failure, waiting |-> t.waiting, notice |-> notice]
  BY <1>4
<1> QED BY <1>1, <1>3, <1>5, ZenonT(30)

LEMMA ClearTabCaseKeeps ==
  ASSUME Sound, ClearTabCase
  PROVE  Sound' /\ Deadline
<1>1. owner' = None /\ view'.status = "initializing" /\ flights' = Cancelled(flights, owner)
      /\ UNCHANGED mounted
  BY DEF ClearTabCase, View
<1>2. PICK s \in ClearStorage(stored, "privacy") :
        LET notice == IF s.ok THEN None ELSE "clear_failed" IN
        /\ stored' = s.stored
        /\ doc' = [ignoreStored |-> TRUE, idleNext |-> TRUE, clearNotice |-> notice]
        /\ tab' = IF tab = None THEN None
                  ELSE [tab EXCEPT !.case = FreshCase(tab.case.service), !.idle = TRUE,
                                   !.notice = notice]
  BY DEF ClearTabCase
<1>3. PICK notice : notice = IF s.ok THEN None ELSE "clear_failed"
  OBVIOUS
<1>4. /\ stored' = s.stored
      /\ doc' = [ignoreStored |-> TRUE, idleNext |-> TRUE, clearNotice |-> notice]
      /\ tab' = IF tab = None THEN None
                ELSE [tab EXCEPT !.case = FreshCase(tab.case.service), !.idle = TRUE,
                                 !.notice = notice]
  BY <1>2, <1>3
<1>5. /\ stored' # None => IsCase(stored')
      /\ notice # "clear_failed" => stored' = None
  <2>1. stored # None => IsCase(stored)
    BY DEF Sound, Shapes
  <2> QED BY <1>3, <1>4, <2>1, ClearedCases
<1>6. IsDocument(doc') /\ doc'.ignoreStored /\ doc'.idleNext /\ doc'.clearNotice = notice
  BY <1>4 DEF IsDocument
<1>7. \A f \in flights' : IsFlight(f) /\ ~f.live
  BY <1>1, OwnersRequests
<1>8. ASSUME tab' # None
      PROVE  /\ tab # None /\ IsTab(tab') /\ tab'.case.cleared # "privacy"
             /\ tab'.idle = TRUE /\ tab'.waiting = tab.waiting /\ tab'.notice = notice
  <2>1. tab # None /\ IsTab(tab)
    BY <1>4, <1>8 DEF Sound, Shapes
  <2>2. tab' = [case |-> FreshCase(tab.case.service), idle |-> TRUE, failure |-> tab.failure,
                waiting |-> tab.waiting, notice |-> notice]
    <3>1. tab' = [tab EXCEPT !.case = FreshCase(tab.case.service), !.idle = TRUE, !.notice = notice]
      BY <1>4, <2>1, ZenonT(30)
    <3>2. IsTab(tab)
      BY <2>1
    <3> QED BY <3>1, <3>2, ChangedTabs, ZenonT(30)
  <2> QED BY <2>1, <2>2, FreshCases DEF IsTab
<1>9. ViewIsCurrent' /\ WaitingIsQuiet'
  BY <1>1, <1>7, OwnerSeesItsCase
<1>10. Shapes' /\ ClearedIsIgnored'
  BY <1>1, <1>5, <1>6, <1>7, <1>8 DEF Sound, Shapes, ClearedIsIgnored
<1>11. StorageAgrees'
  BY <1>1, <1>5, <1>6, <1>8 DEF StorageAgrees, Troubled
<1>12. Deadline
  BY <1>7, <1>8 DEF Deadline
<1> QED BY <1>9, <1>10, <1>11, <1>12 DEF Sound

LEMMA ClearCaseKeeps ==
  ASSUME Sound, ClearCase
  PROVE  Sound' /\ Deadline
<1>1. owner # None /\ view'.status = "idle" /\ flights' = Cancelled(flights, owner)
      /\ UNCHANGED <<doc, owner, mounted>>
  BY DEF ClearCase, View
<1>2. PICK s \in ClearStorage(stored, "questionnaire") :
        /\ stored' = s.stored
        /\ tab' = [tab EXCEPT !.case = FreshCase(tab.case.service), !.idle = TRUE,
                              !.notice = IF s.ok THEN None ELSE "clear_failed"]
  BY DEF ClearCase
<1>3. PICK notice : notice = IF s.ok THEN None ELSE "clear_failed"
  OBVIOUS
<1>4. tab' = [tab EXCEPT !.case = FreshCase(tab.case.service), !.idle = TRUE, !.notice = notice]
  BY <1>2, <1>3
<1>5. /\ stored' # None => IsCase(stored') /\ (stored'.cleared = "privacy" => doc.ignoreStored)
      /\ notice # "clear_failed" => stored' = None
  <2>1. stored # None => IsCase(stored) /\ (stored.cleared = "privacy" => doc.ignoreStored)
    BY DEF Sound, Shapes, ClearedIsIgnored
  <2>2. \/ s.ok = TRUE /\ s.stored = None
        \/ /\ s.ok = FALSE
           /\ s.stored # None =>
                /\ IsCase(s.stored) /\ stored # None
                /\ s.stored.cleared = "questionnaire" \/ s.stored.cleared = stored.cleared
    <3>1. stored # None => IsCase(stored)
      BY <2>1
    <3> QED BY <3>1, ClearedCases
  <2> QED BY <1>2, <1>3, <2>1, <2>2
<1>6. /\ IsTab(tab') /\ tab'.case.cleared # "privacy" /\ tab'.idle = TRUE
      /\ tab'.waiting = tab.waiting /\ tab'.notice = notice
  <2>1. IsTab(tab)
    BY <1>1 DEF Sound, Shapes
  <2>2. tab' = [case |-> FreshCase(tab.case.service), idle |-> TRUE, failure |-> tab.failure,
                waiting |-> tab.waiting, notice |-> notice]
    BY <1>4, <2>1, ChangedTabs, ZenonT(30)
  <2> QED BY <2>1, <2>2, FreshCases DEF IsTab
<1>7. \A f \in flights' : IsFlight(f) /\ ~f.live
  BY <1>1, OwnersRequests
<1>8. ViewIsCurrent' /\ WaitingIsQuiet'
  BY <1>1, <1>7, OwnerSeesItsCase
<1>9. Shapes' /\ ClearedIsIgnored'
  BY <1>1, <1>5, <1>6, <1>7 DEF Sound, Shapes, ClearedIsIgnored
<1>10. StorageAgrees'
  BY <1>1, <1>5, <1>6 DEF Sound, StorageAgrees, Troubled
<1>11. Deadline
  BY <1>6, <1>7 DEF Deadline
<1> QED BY <1>8, <1>9, <1>10, <1>11 DEF Sound

LEMMA ReloadKeeps ==
  ASSUME Sound, Reload
  PROVE  Sound' /\ Deadline
<1>1. /\ tab' = None /\ doc' = NewDocument /\ owner' = None /\ mounted' = {}
      /\ view'.status = "initializing" /\ flights' = {}
      /\ stored' = IF stored = None THEN None ELSE [stored EXCEPT !.cleared = None]
  BY DEF Reload, View
<1>2. stored' # None => IsCase(stored') /\ stored'.cleared = None
  <2> SUFFICES ASSUME stored # None PROVE IsCase(stored') /\ stored'.cleared = None
    BY <1>1
  <2>1. IsCase(stored) /\ stored' = [stored EXCEPT !.cleared = None]
    BY <1>1 DEF Sound, Shapes
  <2>2. stored' = [service |-> stored.service, date |-> stored.date, facts |-> stored.facts,
                   history |-> stored.history, cleared |-> None]
    BY <2>1 DEF IsCase
  <2> QED BY <2>2 DEF IsCase
<1>3. ViewIsCurrent' /\ WaitingIsQuiet'
  BY <1>1, OwnerSeesItsCase
<1>4. IsDocument(doc') /\ ~doc'.idleNext
  BY <1>1 DEF NewDocument, IsDocument
<1>5. Shapes' /\ ClearedIsIgnored' /\ StorageAgrees'
  BY <1>1, <1>2, <1>4, NoneAssumption DEF Shapes, ClearedIsIgnored, StorageAgrees
<1> QED BY <1>1, <1>3, <1>5 DEF Sound, Deadline

(* The owner goes on with a case of the same origin: it is stored, or the tab
   tells that it could not be.                                                *)
LEMMA AdvanceKeeps ==
  ASSUME Sound, NEW case, owner # None => SameOrigin(tab.case, case), Advance(case)
  PROVE  Sound' /\ Deadline
<1>1. owner # None /\ UNCHANGED <<doc, owner, mounted>>
  BY DEF Advance
<1>2. PICK s \in Save(case, stored) :
        /\ stored' = s.stored
        /\ Run([tab EXCEPT !.case = case, !.idle = FALSE,
                           !.notice = IF s.ok THEN @ ELSE "memory"], flights, owner)
  BY DEF Advance
<1>3. IsTab(tab) /\ tab.case.cleared # "privacy" /\ owner \in Mounts
  BY <1>1 DEF Sound, Shapes, ClearedIsIgnored
<1>4. IsCase(case) /\ case.service = tab.case.service /\ case.cleared # "privacy"
  BY <1>1, <1>3 DEF SameOrigin
<1>5. PICK t : t = [tab EXCEPT !.case = case, !.idle = FALSE,
                               !.notice = IF s.ok THEN @ ELSE "memory"]
  OBVIOUS
<1>6. PICK notice : notice = IF s.ok THEN tab.notice ELSE "memory"
  OBVIOUS
<1>7. t = [case |-> case, idle |-> FALSE, failure |-> tab.failure, waiting |-> tab.waiting,
           notice |-> notice]
  <2>1. PICK u1 : u1 = [tab EXCEPT !.case = case]
    OBVIOUS
  <2>2. u1 = [case |-> case, idle |-> tab.idle, failure |-> tab.failure, waiting |-> tab.waiting,
              notice |-> tab.notice]
    BY <1>3, <2>1 DEF IsTab
  <2>3. PICK u2 : u2 = [u1 EXCEPT !.idle = FALSE]
    OBVIOUS
  <2>4. u2 = [case |-> case, idle |-> FALSE, failure |-> tab.failure, waiting |-> tab.waiting,
              notice |-> tab.notice]
    BY <2>2, <2>3
  <2>5. t = [u2 EXCEPT !.notice = IF s.ok THEN @ ELSE "memory"]
    BY <1>5, <2>1, <2>3, ZenonT(30)
  <2>6. t = [case |-> case, idle |-> FALSE, failure |-> tab.failure, waiting |-> tab.waiting,
             notice |-> IF s.ok THEN tab.notice ELSE "memory"]
    BY <2>4, <2>5
  <2> QED BY <1>6, <2>6
<1>8. /\ IsTab(t) /\ t.case = case /\ t.idle = FALSE /\ t.waiting = tab.waiting /\ t.notice = notice
  BY <1>3, <1>4, <1>7 DEF IsTab
<1>9. Run(t, flights, owner)
  BY <1>2, <1>5, ZenonT(30)
<1>10. (\A f \in flights : IsFlight(f)) /\ \A f \in flights : f.live => f.by = owner
  BY OwnersRequests DEF Sound, Shapes
<1>11. /\ IsTab(tab') /\ tab'.case = t.case /\ tab'.idle = t.idle
       /\ tab'.waiting = t.waiting /\ tab'.notice = t.notice
       /\ \A f \in flights' : IsFlight(f)
       /\ \A f \in flights' : f.live =>
            f = [by |-> owner, case |-> t.case, live |-> TRUE] /\ ~t.waiting
       /\ view'.status # "result"
       /\ view'.status = "loading" <=> \E f \in flights' : f.live
  BY <1>3, <1>8, <1>9, <1>10, RunsOneRequest
<1>12. \A f \in flights' : f.live => f.by = owner' /\ f.case = tab'.case /\ ~tab'.waiting
  BY <1>1, <1>11
<1>13. ViewIsCurrent' /\ WaitingIsQuiet'
  BY <1>11, <1>12, OwnerSeesItsCase
<1>14. \/ stored' = case /\ notice = tab.notice
       \/ stored' \in {stored, None} /\ notice = "memory"
  <2>1. (s.ok = TRUE /\ s.stored = case) \/ (s.ok = FALSE /\ s.stored \in {stored, None})
    BY SavedCases
  <2> QED BY <1>2, <1>6, <2>1
<1>15. Shapes'
  BY <1>1, <1>4, <1>11, <1>14 DEF Sound, Shapes
<1>16. ClearedIsIgnored'
  BY <1>1, <1>4, <1>8, <1>11, <1>14 DEF Sound, ClearedIsIgnored
<1>17. StorageAgrees'
  BY <1>1, <1>8, <1>11, <1>14 DEF Sound, StorageAgrees, Troubled
<1>18. Deadline
  BY <1>8, <1>11 DEF Deadline
<1> QED BY <1>13, <1>15, <1>16, <1>17, <1>18 DEF Sound

LEMMA ControlsKeep ==
  ASSUME Sound, Answer \/ Retry \/ Change \/ Correct \/ UseDate \/ UseToday
  PROVE  Sound' /\ Deadline
<1>1. owner # None => IsCase(tab.case)
  BY DEF Sound, Shapes, IsTab
<1>2. CASE Answer
  <2>1. PICK values :
          Advance(Resubmitted(tab.case, view.answer.keys, values))
    BY <1>2 DEF Answer, Submit
  <2>2. PICK case : case = Resubmitted(tab.case, view.answer.keys, values)
    OBVIOUS
  <2>3. owner # None => SameOrigin(tab.case, case)
    BY <1>1, <2>2, ResubmittedCases
  <2> QED BY <2>1, <2>2, <2>3, AdvanceKeeps
<1>3. CASE Retry
  <2>1. PICK case : case = tab.case
    OBVIOUS
  <2>2. owner # None => SameOrigin(tab.case, case)
    BY <1>1, <2>1 DEF SameOrigin
  <2> QED BY <1>3, <2>1, <2>2, AdvanceKeeps DEF Retry, Submit
<1>4. CASE Change
  <2>1. PICK i : Advance(RewindCase(tab.case, i))
    BY <1>4 DEF Change
  <2>2. PICK case : case = RewindCase(tab.case, i)
    OBVIOUS
  <2>3. owner # None => SameOrigin(tab.case, case)
    BY <1>1, <2>2, RewoundCases
  <2> QED BY <2>1, <2>2, <2>3, AdvanceKeeps
<1>5. CASE Correct
  <2>1. Advance(CorrectDiagnostics(tab.case, view.answer.keys))
    BY <1>5 DEF Correct
  <2>2. PICK case : case = CorrectDiagnostics(tab.case, view.answer.keys)
    OBVIOUS
  <2>3. owner # None => SameOrigin(tab.case, case)
    BY <1>1, <2>2, CorrectedCases
  <2> QED BY <2>1, <2>2, <2>3, AdvanceKeeps
<1>6. CASE UseDate \/ UseToday
  <2>1. PICK date : Advance([tab.case EXCEPT !.date = date])
    BY <1>6 DEF UseDate, UseToday
  <2>2. PICK case : case = [tab.case EXCEPT !.date = date]
    OBVIOUS
  <2>3. owner # None => SameOrigin(tab.case, case)
    BY <1>1, <2>2, RedatedCases
  <2> QED BY <2>1, <2>2, <2>3, AdvanceKeeps
<1> QED BY <1>2, <1>3, <1>4, <1>5, <1>6

LEMMA EditDateKeeps ==
  ASSUME Sound, EditDate
  PROVE  Sound' /\ Deadline
<1>1. owner # None /\ view'.status = "date_edit" /\ flights' = Cancelled(flights, owner)
      /\ UNCHANGED <<tab, doc, owner, mounted, stored>>
  BY DEF EditDate, View
<1>2. \A f \in flights' : IsFlight(f) /\ ~f.live
  BY <1>1, OwnersRequests
<1>3. ViewIsCurrent' /\ WaitingIsQuiet'
  BY <1>1, <1>2, OwnerSeesItsCase
<1>4. Shapes' /\ ClearedIsIgnored' /\ StorageAgrees'
  BY <1>1, <1>2 DEF Sound, Shapes, ClearedIsIgnored, StorageAgrees
<1> QED BY <1>1, <1>2, <1>3, <1>4 DEF Sound, Deadline

(* An answer, late or in time: only the owner's live request counts, and it
   is about the case that the tab holds.                                      *)
LEMMA SettleKeeps ==
  ASSUME Sound, NEW f \in flights, Settle(f)
  PROVE  Sound' /\ Deadline
<1>1. flights' = flights \ {f} /\ UNCHANGED <<doc, owner, mounted, stored>>
  BY DEF Settle
<1>2. \A g \in flights' : IsFlight(g)
  BY <1>1 DEF Sound, Shapes
<1>3. CASE ~Accepts(f)
  <2>1. UNCHANGED <<tab, view>>
    BY <1>3 DEF Settle
  <2>2. ~f.live
    BY <1>3, OwnersRequests DEF Accepts
  <2>3. Live' = Live
    BY <1>1, <2>2 DEF Live
  <2>4. ViewIsCurrent' /\ WaitingIsQuiet'
    BY <1>1, <2>1, <2>3 DEF Sound, ViewIsCurrent, ShownIsCurrent, LoadingIsLive, WaitingIsQuiet
  <2>5. Shapes' /\ ClearedIsIgnored' /\ StorageAgrees'
    BY <1>1, <1>2, <2>1 DEF Sound, Shapes, ClearedIsIgnored, StorageAgrees
  <2> QED BY <1>1, <2>1, <2>4, <2>5 DEF Sound, Deadline
<1>4. CASE Accepts(f)
  <2>1. f \in Live /\ owner = f.by /\ f.case = tab.case
    <3>1. f \in Live
      BY <1>4 DEF Accepts, Live
    <3> QED BY <3>1, <1>4 DEF Accepts, Sound, ViewIsCurrent, LoadingIsLive
  <2>2. owner # None
    BY <2>1, NobodysRequests
  <2>3. \A g \in flights' : ~g.live
    <3>1. \A g \in Live : g = f
      BY <2>1, OwnersRequests
    <3> QED BY <1>1, <3>1 DEF Live
  <2>4. Live' = {}
    BY <2>3 DEF Live
  <2>5. ~tab.waiting
    BY <2>1, <2>2 DEF Sound, WaitingIsQuiet
  <2>6. Deadline
    BY <2>5 DEF Deadline
  <2>7. CASE view' = Received(f.case) /\ UNCHANGED tab
    <3>1. \/ view'.status = "configuration"
          \/ view'.status = "result" /\ view'.case = f.case
      BY <2>7 DEF Received, View, Result
    <3>2. ViewIsCurrent' /\ WaitingIsQuiet'
      BY <2>1, <2>4, <2>7, <3>1 DEF ViewIsCurrent, ShownIsCurrent, LoadingIsLive, WaitingIsQuiet
    <3>3. Shapes' /\ ClearedIsIgnored' /\ StorageAgrees'
      BY <1>1, <1>2, <2>7 DEF Sound, Shapes, ClearedIsIgnored, StorageAgrees
    <3> QED BY <2>6, <3>2, <3>3 DEF Sound
  <2>8. ASSUME NEW kind \in Kinds, NEW delay \in BOOLEAN,
               tab' = [tab EXCEPT !.failure = kind, !.waiting = delay], view' = Failure(kind)
        PROVE  Sound'
    <3>1. view'.status = "failure"
      BY <2>8 DEF Failure
    <3>2. IsTab(tab)
      BY <2>2 DEF Sound, Shapes
    <3>3. tab' = [case |-> tab.case, idle |-> tab.idle, failure |-> kind, waiting |-> delay,
                  notice |-> tab.notice]
      <4>1. PICK u1 : u1 = [tab EXCEPT !.failure = kind]
        OBVIOUS
      <4>2. u1 = [case |-> tab.case, idle |-> tab.idle, failure |-> kind, waiting |-> tab.waiting,
                  notice |-> tab.notice]
        BY <3>2, <4>1 DEF IsTab
      <4>3. tab' = [u1 EXCEPT !.waiting = delay]
        BY <2>8, <4>1, ZenonT(30)
      <4> QED BY <4>2, <4>3
    <3>4. /\ IsTab(tab') /\ tab'.case = tab.case /\ tab'.idle = tab.idle /\ tab'.notice = tab.notice
      BY <3>2, <3>3 DEF IsTab
    <3>5. ViewIsCurrent' /\ WaitingIsQuiet'
      BY <2>3, <3>1, OwnerSeesItsCase
    <3>6. Shapes' /\ ClearedIsIgnored' /\ StorageAgrees'
      BY <1>1, <1>2, <2>2, <3>4 DEF Sound, Shapes, ClearedIsIgnored, StorageAgrees
    <3> QED BY <3>5, <3>6 DEF Sound
  <2> QED BY <1>4, <2>6, <2>7, <2>8 DEF Settle
<1> QED BY <1>3, <1>4

LEMMA DeadlinePassesKeeps ==
  ASSUME Sound, DeadlinePasses
  PROVE  Sound' /\ Deadline
<1>1. tab # None /\ tab.waiting /\ tab' = [tab EXCEPT !.waiting = FALSE]
      /\ UNCHANGED <<doc, owner, mounted, view, flights, stored>>
  BY DEF DeadlinePasses
<1>2. IsTab(tab)
  BY <1>1 DEF Sound, Shapes
<1>3. tab' = [case |-> tab.case, idle |-> tab.idle, failure |-> tab.failure, waiting |-> FALSE,
              notice |-> tab.notice]
  BY <1>1, <1>2 DEF IsTab
<1>4. /\ IsTab(tab') /\ tab'.case = tab.case /\ tab'.idle = tab.idle /\ tab'.notice = tab.notice
      /\ tab'.waiting = FALSE
  BY <1>2, <1>3 DEF IsTab
<1>5. Live' = Live
  BY <1>1 DEF Live
<1>6. ViewIsCurrent' /\ WaitingIsQuiet'
  BY <1>1, <1>4, <1>5 DEF Sound, ViewIsCurrent, ShownIsCurrent, LoadingIsLive, WaitingIsQuiet
<1>7. Shapes' /\ ClearedIsIgnored' /\ StorageAgrees'
  BY <1>1, <1>4 DEF Sound, Shapes, ClearedIsIgnored, StorageAgrees
<1>8. Deadline
  BY <1>1, <1>4 DEF Deadline
<1> QED BY <1>6, <1>7, <1>8 DEF Sound

-----------------------------------------------------------------------------

LEMMA SoundAtFirst == Init => Sound
<1> SUFFICES ASSUME Init PROVE Sound
  OBVIOUS
<1>1. IsDocument(doc) /\ ~doc.idleNext
  BY DEF Init, NewDocument, IsDocument
<1>2. Live = {} /\ view.status = "initializing"
  BY DEF Init, Live, View
<1> QED
  BY <1>1, <1>2 DEF Init, Sound, Shapes, ClearedIsIgnored, StorageAgrees, ViewIsCurrent,
     ShownIsCurrent, LoadingIsLive, WaitingIsQuiet

LEMMA SoundAfterSteps == Sound /\ [Next]_vars => Sound' /\ [Deadline]_vars
<1> SUFFICES ASSUME Sound, [Next]_vars PROVE Sound' /\ [Deadline]_vars
  OBVIOUS
<1>1. ASSUME NEW m \in Mounts, NEW s \in Services, Attach(m, s) PROVE Sound' /\ Deadline
  BY <1>1, AttachKeeps
<1>2. ASSUME NEW m \in Mounts, Release(m) PROVE Sound' /\ Deadline
  BY <1>2, ReleaseKeeps
<1>3. CASE ClearTabCase
  BY <1>3, ClearTabCaseKeeps
<1>4. CASE Reload
  BY <1>4, ReloadKeeps
<1>5. CASE Answer \/ Retry \/ Change \/ Correct \/ UseDate \/ UseToday
  BY <1>5, ControlsKeep
<1>6. CASE EditDate
  BY <1>6, EditDateKeeps
<1>7. CASE ClearCase
  BY <1>7, ClearCaseKeeps
<1>8. CASE SettleLive \/ SettleStale
  BY <1>8, SettleKeeps DEF SettleLive, SettleStale, Live
<1>9. CASE DeadlinePasses
  BY <1>9, DeadlinePassesKeeps
<1>10. CASE UNCHANGED vars
  <2>1. Live' = Live
    BY <1>10 DEF vars, Live
  <2> QED BY <1>10, <2>1 DEF vars, Sound, Shapes, ClearedIsIgnored, StorageAgrees, ViewIsCurrent,
                             ShownIsCurrent, LoadingIsLive, WaitingIsQuiet
<1> QED BY <1>1, <1>2, <1>3, <1>4, <1>5, <1>6, <1>7, <1>8, <1>9, <1>10 DEF Next, Acts

LEMMA SoundAlways == Spec => [](Sound) /\ [][Deadline]_vars
BY SoundAtFirst, SoundAfterSteps, PTL DEF Spec

(* Whoever owns the tab sees its own case, and waits for its own answer only:
   for any number of pages, services, dates and requests in the air.          *)
THEOREM OwnerSeesItsOwnCase == Spec => []ViewIsCurrent
<1>1. Sound => ViewIsCurrent
  BY DEF Sound
<1> QED BY <1>1, SoundAlways, PTL

(* What was cleared does not come back in this document, and a reload finds
   the case as it is, or nothing, unless the tab says otherwise.              *)
THEOREM ClearedStaysAway == Spec => []ClearingLasts
<1>1. Sound => ClearingLasts
  BY DEF Sound, ClearedIsIgnored, StorageAgrees, Troubled, ClearingLasts, PrivacyClearIsFinal,
         ReloadFindsTheCase
<1> QED BY <1>1, SoundAlways, PTL

(* The server's deadline is held by every control: nothing is sent before it,
   and only time, another service or another document ends it.                *)
THEOREM NothingBeforeTheDeadline == Spec => DeadlineHeld
<1>1. Spec => [][Deadline]_vars
  BY SoundAlways, PTL
<1> QED BY <1>1, PTL DEF Deadline, DeadlineHeld
=============================================================================
