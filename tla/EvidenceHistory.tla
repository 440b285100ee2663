-------------------------- MODULE EvidenceHistory --------------------------
(***************************************************************************)
(* What the evidence workflow promises of its records, without             *)
(* transactions or locks: events are only ever added, a discrepancy is     *)
(* opened once and then resolved at most once, and what is shown of an     *)
(* item on a date is what the events up to that date establish.            *)
(***************************************************************************)
EXTENDS TrustProjection

CONSTANTS
  Subjects,         \* evidence-bearing items
  Discrepancies,    \* identities of discrepancies
  Instants,         \* bound: instants at which something may be recorded
  TransitionPks,    \* bound: primary keys of discrepancy transitions
  ReviewPks,        \* bound: primary keys of reverifications
  Outcomes,         \* states that openings, resolutions and reviews may name
  ReviewDates,      \* dates a review may give as verified_on and reverify_on
  MaterialDates,    \* bound: dates for which the assessment itself is compared
  Authored          \* items as they may be authored

ASSUME HistoryAssumption ==
  /\ Instants \cup TransitionPks \cup ReviewPks \subseteq Nat
  /\ Outcomes \subseteq VerificationStates
  /\ ReviewDates \cup MaterialDates \subseteq Nat \cup {None}

VARIABLES
  authored,   \* [Subjects -> Authored], fixed by the publication
  history     \* events

historyVars == <<authored, history>>

Transitions == {e \in history : e.kind # "review"}
Reviews     == {e \in history : e.kind = "review"}

Opened(d)   == {e \in Transitions : e.discrepancy = d /\ e.kind = "opened"}
Resolved(d) == {e \in Transitions : e.discrepancy = d /\ e.kind = "resolved"}

Fresh(pk, table) == \A e \in table : e.pk # pk

HistoryInit == authored \in [Subjects -> Authored] /\ history = {}

Record(e) == history' = history \cup {e} /\ UNCHANGED authored

Open(s, d, state, at, pk) ==
  /\ Opened(d) = {} /\ Fresh(pk, Transitions)
  /\ state \in OpenOutcomes
  /\ Record([kind |-> "opened", subject |-> s, discrepancy |-> d, state |-> state,
             at |-> at, pk |-> pk])

Resolve(d, state, at, pk) ==
  \E o \in Opened(d) :
    /\ Resolved(d) = {} /\ Fresh(pk, Transitions)
    /\ at >= o.at /\ pk > o.pk
    /\ Record([kind |-> "resolved", subject |-> o.subject, discrepancy |-> d,
               state |-> state, at |-> at, pk |-> pk])

Review(s, state, verifiedOn, reverifyOn, at, pk) ==
  /\ Fresh(pk, Reviews)
  /\ reverifyOn # None => verifiedOn <= reverifyOn
  /\ Record([kind |-> "review", subject |-> s, state |-> state, verifiedOn |-> verifiedOn,
             reverifyOn |-> reverifyOn, at |-> at, pk |-> pk])

HistoryNext ==
  \/ \E s \in Subjects, d \in Discrepancies, o \in Outcomes, at \in Instants, pk \in TransitionPks :
       Open(s, d, o, at, pk)
  \/ \E d \in Discrepancies, o \in Outcomes, at \in Instants, pk \in TransitionPks :
       Resolve(d, o, at, pk)
  \/ \E s \in Subjects, o \in Outcomes, on \in ReviewDates \ {None}, due \in ReviewDates,
        at \in Instants, pk \in ReviewPks :
       Review(s, o, on, due, at, pk)

HistorySpec == HistoryInit /\ [][HistoryNext]_historyVars

-----------------------------------------------------------------------------
(* What the history says of an item on a day, said without replaying it. *)

Days     == {Day(i) : i \in Instants} \cup (ReviewDates \ {None})
Of(s)    == {e \in history : e.subject = s}
Shown(s, day) == Projected(authored[s], Of(s), day)

OpenOn(s, day) ==
  {o \in AsOf(Of(s), day) : o.kind = "opened" /\
     ~\E r \in AsOf(Of(s), day) : r.kind = "resolved" /\ r.discrepancy = o.discrepancy}

\* The newest of a set of events, by instant, then discrepancies before reviews,
\* then primary key.
Newest(events) ==
  LET newestInstant == {e \in events : \A f \in events : f.at <= e.at}
      reviews == {e \in newestInstant : e.kind = "review"}
      last    == IF reviews # {} THEN reviews ELSE newestInstant
  IN  CHOOSE e \in last : \A f \in last : f.pk <= e.pk

(* An open discrepancy is never masked: neither a later review nor the
   resolution of another discrepancy makes the item anything better than the
   worst of what is still open, on any date.                                 *)
OpenNeverMasked ==
  \A s \in Subjects : \A day \in Days :
    LET states == {o.state : o \in OpenOn(s, day)} IN
    states # {} =>
      /\ Disposition(Shown(s, day), day) = "inconclusive"
      /\ Shown(s, day).state = IF "disputed" \in states THEN "disputed"
                               ELSE IF "needs_reverification" \in states
                               THEN "needs_reverification" ELSE "unknown"

\* The deadline and the evidence that stand on a day: the last review's, which
\* covers item and evidence, or else what was authored.
Standing(s, day) ==
  LET reviews == {e \in AsOf(Of(s), day) : e.kind = "review"} IN
  IF reviews = {}
  THEN [deadline |-> authored[s].reverifyOn, link |-> authored[s].link]
  ELSE LET r == Newest(reviews) IN
       [deadline |-> r.reverifyOn,
        link |-> [state |-> r.state, verifiedOn |-> r.verifiedOn, reverifyOn |-> r.reverifyOn]]

LastWord(s, day) ==
  IF AsOf(Of(s), day) = {} THEN authored[s].state ELSE Newest(AsOf(Of(s), day)).state

(* Guidance on a day is given only for what the history up to that day
   establishes: nothing open, the last word "current", and a review (or the
   author) behind the evidence whose dates still hold.  The resolution of a
   discrepancy alone renews neither the evidence nor a deadline.             *)
GuidanceIsEstablished ==
  \A s \in Subjects : \A day \in Days :
    Guided(Shown(s, day), day) =>
      /\ OpenOn(s, day) = {}
      /\ LastWord(s, day) = "current"
      /\ NotBefore(Standing(s, day).deadline, day)
      /\ Standing(s, day).link.state = "current"
      /\ NotAfter(Standing(s, day).link.verifiedOn, day)
      /\ NotBefore(Standing(s, day).link.reverifyOn, day)

(* On every day what is shown of an item is what its history establishes: an
   open discrepancy shows through, and guidance has all its grounds.         *)
ShownIsEstablished == OpenNeverMasked /\ GuidanceIsEstablished

(* An event is never applied to a date before the day it was recorded on, so an
   evaluation of an earlier day is not affected by it.                       *)
LaterEventsDoNotCount ==
  [][\A s \in Subjects : \A day \in Days :
       (\A e \in history' \ history : Day(e.at) > day)
         => Projected(authored'[s], {e \in history' : e.subject = s}, day) = Shown(s, day)]_historyVars

-----------------------------------------------------------------------------
(* The assessment of any material on any day, compared with what its early
   returns are meant to compute: a comparison of operators, made once, before
   anything is recorded.                                                     *)

Material == [state : VerificationStates, verifiedOn : MaterialDates,
             reverifyOn : MaterialDates]

(* Material is asserted on exactly the days on which it is current, in force,
   already verified and retrieved, and not past its deadline, all inclusive. *)
AssertedExactlyWithin ==
  history = {} =>
  \A m \in Material, from, to, retrievedOn \in MaterialDates, day \in MaterialDates \ {None} :
    AssessTrust(m, from, to, retrievedOn, day) = "assert_current" <=>
      /\ m.state = "current"
      /\ \A d \in {from, m.verifiedOn, retrievedOn} : NotAfter(d, day)
      /\ \A d \in {to, m.reverifyOn} : NotBefore(d, day)

(* What was once offered as dated context remains so: it is context because it
   was verified in time, which no later day undoes.                          *)
ContextStays ==
  history = {} =>
  \A m \in Material, from, to, retrievedOn \in MaterialDates, day \in MaterialDates \ {None} :
    AssessTrust(m, from, to, retrievedOn, day) = "context_only"
      => AssessTrust(m, from, to, retrievedOn, day + 1) = "context_only"

(* The early returns of the assessment leave no gap and do not overlap: no
   order of the dates of material makes it assert too much, or forget.       *)
AssessmentIsExact == AssertedExactlyWithin /\ ContextStays
=============================================================================
