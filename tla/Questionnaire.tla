---------------------------- MODULE Questionnaire ----------------------------
(***************************************************************************)
(* The questionnaire of one browser tab.  Pages mount and unmount while    *)
(* the document lives; the last one that mounted owns the tab's case, and  *)
(* only its requests count.  A request may be answered late or never, and  *)
(* its cancellation may be ignored; the document may be reloaded.          *)
(***************************************************************************)
EXTENDS TabCase

CONSTANTS
  Services, Dates, Values,
  Mounts,             \* identities of mounted pages
  Planner(_, _),      \* facts, date -> [kind, keys, dated]: what the server answers
  Kinds, Delaying,    \* kinds of failure; those that may name a deadline
  MaxFlights          \* requests in the air at once

ASSUME NoneAssumption ==
  None \notin Mounts \cup {"privacy", "memory", "clear_failed"}

VARIABLES
  tab,      \* the TabCase: [case, idle, failure, waiting, notice], or None
  doc,      \* of the document: [ignoreStored, idleNext, clearNotice]
  owner,    \* the mount that owns the case, or None
  mounted,  \* mounts that were not released yet
  view,     \* what the owner shows
  flights,  \* requests in the air: [by, case, live]; live until cancelled
  stored    \* the case in the session storage, or None

vars == <<tab, doc, owner, mounted, view, flights, stored>>

NewDocument == [ignoreStored |-> FALSE, idleNext |-> FALSE, clearNotice |-> None]

View(status)       == [status |-> status]
Failure(kind)      == [status |-> "failure", kind |-> kind]
Result(case, answer) == [status |-> "result", case |-> case, answer |-> answer]

Init ==
  /\ tab = None /\ doc = NewDocument /\ owner = None /\ mounted = {}
  /\ view = View("initializing") /\ flights = {} /\ stored = None

-----------------------------------------------------------------------------
(* Requests. *)

Live == {f \in flights : f.live}

\* The mount's request is aborted and its sequence number superseded.
Cancelled(inAir, mount) ==
  {IF f.by = mount THEN [f EXCEPT !.live = FALSE] ELSE f : f \in inAir}

\* Fault: the view waits for an answer that was never asked for.
RunUnasked(t, inAir, mount) ==
  /\ tab' = t /\ flights' = Cancelled(inAir, mount) /\ view' = View("loading")

\* Before the server's deadline nothing is sent.
Run(t, inAir, mount) ==
  LET others == Cancelled(inAir, mount) IN
  IF t.waiting THEN
    /\ tab' = t /\ flights' = others
    /\ view' = Failure(IF t.failure = None THEN "rate_limited" ELSE t.failure)
  ELSE
    /\ Cardinality(others) < MaxFlights
    /\ tab' = [t EXCEPT !.failure = None]
    /\ flights' = others \cup {[by |-> mount, case |-> t.case, live |-> TRUE]}
    /\ view' = View("loading")

\* Fault: an answer to an earlier request of the same page counts.
AcceptsOfOwner(f) == owner = f.by

Accepts(f) == owner = f.by /\ f.live

Received(case) ==
  LET answer == Planner(case.facts, case.date) IN
  IF answer.kind = "question" /\ QuestionProblem(answer.keys, case.facts)
  THEN View("configuration") ELSE Result(case, answer)

Settle(f) ==
  /\ flights' = flights \ {f}
  /\ UNCHANGED <<doc, owner, mounted, stored>>
  /\ IF ~Accepts(f) THEN UNCHANGED <<tab, view>>
     ELSE \/ view' = Received(f.case) /\ UNCHANGED tab
          \/ \E kind \in Kinds, delay \in BOOLEAN :
               /\ delay => kind \in Delaying
               /\ tab' = [tab EXCEPT !.failure = kind, !.waiting = delay]
               /\ view' = Failure(kind)

\* The server answers, fails, or lets the client's own deadline expire.
SettleLive  == \E f \in Live : Settle(f)
SettleStale == \E f \in flights \ Live : Settle(f)

DeadlinePasses ==
  /\ tab # None /\ tab.waiting /\ tab' = [tab EXCEPT !.waiting = FALSE]
  /\ UNCHANGED <<doc, owner, mounted, view, flights, stored>>

-----------------------------------------------------------------------------
(* Ownership. *)

\* Fault: what could not be removed is loaded again.
FoundAgain(service) ==
  IF tab # None /\ tab.case.service = service THEN {[tab |-> tab, stored |-> stored]}
  ELSE {[tab |-> [case |-> l.case, idle |-> doc.idleNext, failure |-> None,
                  waiting |-> FALSE, notice |-> l.notice], stored |-> l.stored] :
          l \in Load(service, stored)}

\* The case a page finds: that of the tab, or else that of the storage.
Found(service) ==
  IF tab # None /\ tab.case.service = service THEN {[tab |-> tab, stored |-> stored]}
  ELSE
    LET loads == IF doc.ignoreStored
                 THEN {[case |-> FreshCase(service), notice |-> doc.clearNotice, stored |-> stored]}
                 ELSE Load(service, stored)
        Opened(l, notice) == [case |-> l.case, idle |-> doc.idleNext, failure |-> None,
                              waiting |-> FALSE, notice |-> notice]
    IN IF doc.idleNext THEN {[tab |-> Opened(l, l.notice), stored |-> l.stored] : l \in loads}
       ELSE UNION {{[tab |-> Opened(l, IF s.ok THEN l.notice ELSE "memory"), stored |-> s.stored] :
                      s \in Save(l.case, l.stored)} : l \in loads}

\* The newest mount takes the case over; a route change that comes back also does.
Attach(mount, service) ==
  LET inAir == Cancelled(flights, owner) IN
  /\ mount \notin mounted /\ \A f \in flights : f.by # mount
  /\ owner' = mount /\ mounted' = mounted \cup {mount}
  /\ doc' = [doc EXCEPT !.idleNext = FALSE]
  /\ \E found \in Found(service) :
       /\ stored' = found.stored
       /\ IF found.tab.idle THEN tab' = found.tab /\ flights' = inAir /\ view' = View("idle")
          ELSE IF found.tab.failure # None
            THEN tab' = found.tab /\ flights' = inAir /\ view' = Failure(found.tab.failure)
          ELSE Run(found.tab, inAir, mount)

\* The cleanup of a page may run after another one took over.
Release(mount) ==
  /\ mount \in mounted /\ mounted' = mounted \ {mount}
  /\ flights' = Cancelled(flights, mount)
  /\ IF owner = mount THEN owner' = None /\ view' = View("initializing")
     ELSE UNCHANGED <<owner, view>>
  /\ UNCHANGED <<tab, doc, stored>>

\* The control of the privacy page, whatever service was open.
ClearTabCase ==
  /\ owner' = None /\ view' = View("initializing")
  /\ flights' = Cancelled(flights, owner)
  /\ \E s \in ClearStorage(stored, "privacy") :
       LET notice == IF s.ok THEN None ELSE "clear_failed" IN
       /\ stored' = s.stored
       /\ doc' = [ignoreStored |-> TRUE, idleNext |-> TRUE, clearNotice |-> notice]
       /\ tab' = IF tab = None THEN None
                 ELSE [tab EXCEPT !.case = FreshCase(tab.case.service), !.idle = TRUE,
                                  !.notice = notice]
  /\ UNCHANGED mounted

\* A new document: only what was stored is left of the old one.
Reload ==
  /\ tab' = None /\ doc' = NewDocument /\ owner' = None /\ mounted' = {}
  /\ view' = View("initializing") /\ flights' = {}
  /\ stored' = IF stored = None THEN None ELSE [stored EXCEPT !.cleared = None]

-----------------------------------------------------------------------------
(* The owner's controls. *)

Idle == ~\E f \in Live : f.by = owner

\* The case is kept, stored and asked about.
Advance(case) ==
  /\ owner # None
  /\ \E s \in Save(case, stored) :
       /\ stored' = s.stored
       /\ Run([tab EXCEPT !.case = case, !.idle = FALSE,
                          !.notice = IF s.ok THEN @ ELSE "memory"], flights, owner)
  /\ UNCHANGED <<doc, owner, mounted>>

Submit(case) == owner # None /\ Idle /\ ~tab.waiting /\ Advance(case)

Asked(kind) == view.status = "result" /\ view.answer.kind = kind

\* One or more fields of the question; fields that were known come filled in.
Answer ==
  /\ Asked("question")
  /\ \E given \in SUBSET view.answer.keys : \E values \in [given -> Values] :
       /\ ~SubmitRefused(tab.case, view.answer.keys, values)
       /\ Submit(Resubmitted(tab.case, view.answer.keys, values))

Retry ==
  /\ \/ view.status \in {"failure", "configuration", "idle"}
     \/ Asked("inconclusive")
     \/ Asked("invalid") /\ view.answer.keys = {} /\ ~view.answer.dated
  /\ Submit(tab.case)

Change ==
  /\ owner # None
  /\ \E i \in Reviewable(tab.case) : Advance(RewindCase(tab.case, i))

Correct ==
  /\ Asked("invalid") /\ view.answer.keys # {} /\ owner # None /\ ~tab.waiting
  /\ Advance(CorrectDiagnostics(tab.case, view.answer.keys))

EditDate ==
  /\ owner # None /\ view' = View("date_edit")
  /\ flights' = Cancelled(flights, owner)
  /\ UNCHANGED <<tab, doc, owner, mounted, stored>>

UseDate ==
  /\ owner # None /\ ~tab.waiting
  /\ \E date \in Dates :
       /\ Idle \/ date # tab.case.date
       /\ Advance([tab.case EXCEPT !.date = date])

UseToday ==
  /\ owner # None /\ view.status \notin {"idle", "loading"} /\ Idle /\ ~tab.waiting
  /\ Advance([tab.case EXCEPT !.date = Today])

\* Fault: the case of the tab is replaced, with all that goes with it.
ClearAll ==
  /\ owner # None /\ view' = View("idle")
  /\ flights' = Cancelled(flights, owner)
  /\ \E s \in ClearStorage(stored, "questionnaire") :
       /\ stored' = s.stored
       /\ tab' = [case |-> FreshCase(tab.case.service), idle |-> TRUE, failure |-> None,
                  waiting |-> FALSE, notice |-> IF s.ok THEN None ELSE "clear_failed"]
  /\ UNCHANGED <<doc, owner, mounted>>

ClearCase ==
  /\ owner # None /\ view' = View("idle")
  /\ flights' = Cancelled(flights, owner)
  /\ \E s \in ClearStorage(stored, "questionnaire") :
       /\ stored' = s.stored
       /\ tab' = [tab EXCEPT !.case = FreshCase(tab.case.service), !.idle = TRUE,
                             !.notice = IF s.ok THEN None ELSE "clear_failed"]
  /\ UNCHANGED <<doc, owner, mounted>>

-----------------------------------------------------------------------------
Acts ==
  \/ \E m \in Mounts, s \in Services : Attach(m, s)
  \/ \E m \in Mounts : Release(m)
  \/ ClearTabCase \/ Reload
  \/ Answer \/ Retry \/ Change \/ Correct \/ EditDate \/ UseDate \/ UseToday \/ ClearCase

Next == Acts \/ SettleLive \/ SettleStale \/ DeadlinePasses

Spec == Init /\ [][Next]_vars

\* A request ends at the latest when the client's deadline expires.
FairSpec == Spec /\ WF_vars(SettleLive)

-----------------------------------------------------------------------------
(* Properties *)

\* A result is shown only for the case the tab holds: no answer to an earlier
\* request, page, date or service is taken for it (run's guards).
ShownIsCurrent ==
  owner # None /\ view.status = "result" => view.case = tab.case

\* The owner waits for an answer exactly when one request is live, and that is its own
\* request about the case the tab holds (cancelRequest, attach, editDate).
LoadingIsLive ==
  /\ \A f \in Live : f.by = owner /\ f.case = tab.case
  /\ owner # None => (view.status = "loading") = (Live # {})

\* Whoever owns the tab sees its own case, and waits for nothing but its own answer.
ViewIsCurrent == ShownIsCurrent /\ LoadingIsLive

\* Answers cleared on the privacy page never come back in this document, even if they
\* could not be removed from the storage ("A failed deletion must not revive old
\* stored answers later in this document", attach).
PrivacyClearIsFinal == tab # None => tab.case.cleared # "privacy"

\* No cleared answers come back in this document, whichever control cleared them.
ClearedAnswersStayAway == tab # None => tab.case.cleared = None

\* Unless the tab tells that it works in memory or could not clear, a reload finds
\* the case as it is, or nothing after it was cleared (commitCase, clear).
ReloadFindsTheCase ==
  owner # None /\ tab.notice \notin {"memory", "clear_failed"}
    => stored = IF tab.idle THEN None ELSE tab.case

\* What was cleared or changed does not come back by a later mount or a reload,
\* although the storage may refuse to write or to remove it.
ClearingLasts == PrivacyClearIsFinal /\ ReloadFindsTheCase

\* The server's deadline holds as long as the service stays open: only time ends it,
\* clearing and mounting again do not, and nothing is sent before ("clearing is not a
\* retry bypass", clear).
DeadlineHeld ==
  [][tab # None /\ tab.waiting /\ tab' # None /\ tab'.case.service = tab.case.service =>
       /\ tab'.waiting \/ (flights' = flights /\ tab'.case = tab.case /\ owner' = owner)
       /\ ~\E f \in flights' \ flights : f.live]_vars

\* Loading ends unless the citizen keeps acting (requestPlan's own deadline).
LoadingEnds == []<>(view.status # "loading") \/ []<><<Acts>>_vars
=============================================================================
