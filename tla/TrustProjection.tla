-------------------------- MODULE TrustProjection --------------------------
(***************************************************************************)
(* The trust shown for an evidence-bearing item: the recorded history of   *)
(* its discrepancies and reverifications, replayed up to an evaluation     *)
(* date over what was authored, and the decision whether the result may be *)
(* asserted on that date.                                                  *)
(*                                                                         *)
(* A date is a natural number or None; an instant belongs to a day.        *)
(***************************************************************************)
EXTENDS Integers, FiniteSets, Folds

CONSTANTS
  None,            \* no date
  InstantsPerDay   \* instants the clock shows in a day

VerificationStates == {"current", "needs_reverification", "stale", "disputed", "unknown"}
OpenOutcomes       == {"disputed", "needs_reverification", "unknown"}

ASSUME DayAssumption == InstantsPerDay \in Nat \ {0} /\ None \notin VerificationStates

Day(instant) == instant \div InstantsPerDay

MaxDate(a, b) == IF a = None \/ (b # None /\ b > a) THEN b ELSE a

NotAfter(date, day)  == date = None \/ date <= day
NotBefore(date, day) == date = None \/ day <= date

-----------------------------------------------------------------------------
(* History.  An event is the opening or the resolution of a discrepancy, or
   a review of the item's evidence; pk orders the rows of its table.         *)

\* Replay order: instant, discrepancies before reviews, primary key.
Precedes(e, f) ==
  \/ e.at < f.at
  \/ e.at = f.at /\ e.kind # "review" /\ f.kind = "review"
  \/ e.at = f.at /\ (e.kind = "review") = (f.kind = "review") /\ e.pk < f.pk

\* Fault: a review counts from the day it names rather than the day it was recorded.
RetroactiveReviews(history, day) ==
  {e \in history : (IF e.kind = "review" THEN e.verifiedOn ELSE Day(e.at)) <= day}

\* The events that were established by the evaluation date.
AsOf(history, day) == {e \in history : Day(e.at) <= day}

Latest(events) == CHOOSE e \in events : \A f \in events \ {e} : Precedes(f, e)

-----------------------------------------------------------------------------
(* Replay. *)

NoOverlay ==
  [state |-> None, verifiedOn |-> None, reverifyOn |-> None, reviewed |-> FALSE,
   evidenceState |-> None, evidenceVerifiedOn |-> None, open |-> {}]

ReplayTransition(e, overlay) ==
  [overlay EXCEPT
     !.state = e.state,
     !.verifiedOn = MaxDate(@, Day(e.at)),
     !.open = IF e.kind = "opened"
              THEN @ \cup {[discrepancy |-> e.discrepancy, state |-> e.state]}
              ELSE {d \in @ : d.discrepancy # e.discrepancy}]

ReplayReview(e, overlay) ==
  LET established == MaxDate(e.verifiedOn, Day(e.at)) IN
  [overlay EXCEPT
     !.state = e.state,
     !.verifiedOn = established,
     !.reverifyOn = e.reverifyOn,
     !.reviewed = TRUE,
     !.evidenceState = e.state,
     !.evidenceVerifiedOn = established]

Replay(events) ==
  MapThenFoldSet(LAMBDA e, overlay : IF e.kind = "review"
                                     THEN ReplayReview(e, overlay)
                                     ELSE ReplayTransition(e, overlay),
                 NoOverlay, LAMBDA e : e, Latest, events)

\* Fault: the last word counts even while another discrepancy is open.
LastWordCounts(overlay) == overlay.state

\* The worst open discrepancy decides, whatever was recorded after it.
FinalState(overlay) ==
  LET open == {d.state : d \in overlay.open} IN
  IF open = {} THEN overlay.state
  ELSE IF "disputed" \in open THEN "disputed"
  ELSE IF "needs_reverification" \in open THEN "needs_reverification"
  ELSE "unknown"

\* An item [state, verifiedOn, reverifyOn, link] and its evidence link
\* [state, verifiedOn, reverifyOn] as they are shown.
Overlaid(item, overlay) ==
  [state |-> IF FinalState(overlay) = None THEN item.state ELSE FinalState(overlay),
   verifiedOn |-> MaxDate(item.verifiedOn, overlay.verifiedOn),
   reverifyOn |-> IF overlay.reviewed THEN overlay.reverifyOn ELSE item.reverifyOn,
   link |-> IF overlay.evidenceState = None THEN item.link
            ELSE [state |-> overlay.evidenceState,
                  verifiedOn |-> overlay.evidenceVerifiedOn,
                  reverifyOn |-> overlay.reverifyOn]]

Projected(item, history, day) == Overlaid(item, Replay(AsOf(history, day)))

-----------------------------------------------------------------------------
(* Assessment of material [state, verifiedOn, reverifyOn] with an effective
   interval [from, to] and the date its source was retrieved.                *)

\* Fault: a passed deadline is looked at before the end of the interval.
AssessDeadlineFirst(m, from, to, retrievedOn, day) ==
  LET established == m.verifiedOn # None /\ (to = None \/ m.verifiedOn <= to)
                     /\ (to = None \/ NotAfter(retrievedOn, to)) IN
  IF ~NotAfter(m.verifiedOn, day) \/ ~NotAfter(retrievedOn, day) THEN "inconclusive"
  ELSE IF m.state = "stale"
    THEN IF established /\ NotAfter(from, day) THEN "context_only" ELSE "inconclusive"
  ELSE IF m.state # "current" \/ ~NotAfter(from, day) THEN "inconclusive"
  ELSE IF ~NotBefore(m.reverifyOn, day) THEN "inconclusive"
  ELSE IF ~NotBefore(to, day) THEN IF established THEN "context_only" ELSE "inconclusive"
  ELSE "assert_current"

AssessTrust(m, from, to, retrievedOn, day) ==
  LET established == m.verifiedOn # None /\ (to = None \/ m.verifiedOn <= to)
                     /\ (to = None \/ NotAfter(retrievedOn, to)) IN
  IF ~NotAfter(m.verifiedOn, day) \/ ~NotAfter(retrievedOn, day) THEN "inconclusive"
  ELSE IF m.state = "stale"
    THEN IF established /\ NotAfter(from, day) THEN "context_only" ELSE "inconclusive"
  ELSE IF m.state # "current" \/ ~NotAfter(from, day) THEN "inconclusive"
  ELSE IF ~NotBefore(to, day) THEN IF established THEN "context_only" ELSE "inconclusive"
  ELSE IF ~NotBefore(m.reverifyOn, day) THEN "inconclusive"
  ELSE "assert_current"

Disposition(material, day) == AssessTrust(material, None, None, None, day)

\* Guidance is given for an item that is current and that its evidence supports.
Guided(item, day) ==
  /\ Disposition(item, day) = "assert_current"
  /\ Disposition(item.link, day) = "assert_current"
=============================================================================
