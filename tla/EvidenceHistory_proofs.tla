----------------------- MODULE EvidenceHistory_proofs -----------------------
(***************************************************************************)
(* Proofs about the evidence history: what is recorded later changes       *)
(* nothing on an earlier day, the early returns of the assessment compute  *)
(* what they are meant to, and replaying a history in its order shows what *)
(* it establishes.                                                         *)
(***************************************************************************)
EXTENDS EvidenceHistory, FiniteSetTheorems, WellFoundedInduction, TLAPS

LEMMA DayIsNatural == ASSUME NEW i \in Nat PROVE Day(i) \in Int
BY DayAssumption DEF Day

LEMMA DaysAreIntegers == Days \subseteq Int
BY HistoryAssumption, DayIsNatural DEF Days

(* Every step records one event, at an instant of the clock. *)
LEMMA OneEventAtATime ==
  ASSUME HistoryNext
  PROVE  /\ UNCHANGED authored
         /\ \E e : e.at \in Instants /\ history' = history \cup {e}
<1>1. ASSUME NEW s \in Subjects, NEW d \in Discrepancies, NEW o \in Outcomes, NEW at \in Instants,
             NEW pk \in TransitionPks, Open(s, d, o, at, pk)
      PROVE  UNCHANGED authored /\ \E e : e.at \in Instants /\ history' = history \cup {e}
  BY <1>1 DEF Open, Record
<1>2. ASSUME NEW d \in Discrepancies, NEW o \in Outcomes, NEW at \in Instants,
             NEW pk \in TransitionPks, Resolve(d, o, at, pk)
      PROVE  UNCHANGED authored /\ \E e : e.at \in Instants /\ history' = history \cup {e}
  BY <1>2 DEF Resolve, Record
<1>3. ASSUME NEW s \in Subjects, NEW o \in Outcomes, NEW on \in ReviewDates \ {None},
             NEW due \in ReviewDates, NEW at \in Instants, NEW pk \in ReviewPks,
             Review(s, o, on, due, at, pk)
      PROVE  UNCHANGED authored /\ \E e : e.at \in Instants /\ history' = history \cup {e}
  BY <1>3 DEF Review, Record
<1> QED BY <1>1, <1>2, <1>3 DEF HistoryNext

LaterEvents ==
  \A s \in Subjects : \A day \in Days :
    (\A e \in history' \ history : Day(e.at) > day)
      => Projected(authored'[s], {e \in history' : e.subject = s}, day) = Shown(s, day)

LEMMA StepsLeaveThePast == [HistoryNext]_historyVars => [LaterEvents]_historyVars
<1> SUFFICES ASSUME HistoryNext, NEW s \in Subjects, NEW day \in Days,
                    \A e \in history' \ history : Day(e.at) > day
             PROVE  Projected(authored'[s], {e \in history' : e.subject = s}, day) = Shown(s, day)
  BY DEF LaterEvents
<1>1. UNCHANGED authored
  BY OneEventAtATime
<1>2. PICK e : e.at \in Instants /\ history' = history \cup {e}
  BY OneEventAtATime
<1>3. AsOf({f \in history' : f.subject = s}, day) = AsOf(Of(s), day)
  <2>1. CASE e \in history
    BY <1>2, <2>1 DEF AsOf, Of
  <2>2. CASE e \notin history
    <3>1. e \in history' \ history
      BY <1>2, <2>2
    <3>2. Day(e.at) > day /\ Day(e.at) \in Int /\ day \in Int
      BY <1>2, <3>1, HistoryAssumption, DayIsNatural, DaysAreIntegers
    <3>3. ~(Day(e.at) <= day)
      BY <3>2
    <3> QED BY <1>2, <3>3 DEF AsOf, Of
  <2> QED BY <2>1, <2>2
<1> QED BY <1>1, <1>3 DEF Shown, Projected

(* Whatever is recorded of an item, what was shown of it for an earlier day
   stays what it was, for every history and every length of a day.            *)
THEOREM EarlierDaysStand == HistorySpec => LaterEventsDoNotCount
<1>1. HistorySpec => [][LaterEvents]_historyVars
  BY StepsLeaveThePast, PTL DEF HistorySpec
<1> QED BY <1>1, PTL DEF LaterEvents, LaterEventsDoNotCount

-----------------------------------------------------------------------------
(* The assessment. *)

LEMMA AssertionIsExact ==
  ASSUME NEW m, NEW from, NEW to, NEW retrievedOn, NEW day
  PROVE  AssessTrust(m, from, to, retrievedOn, day) = "assert_current" <=>
           /\ m.state = "current"
           /\ \A d \in {from, m.verifiedOn, retrievedOn} : NotAfter(d, day)
           /\ \A d \in {to, m.reverifyOn} : NotBefore(d, day)
<1>1. /\ (\A d \in {from, m.verifiedOn, retrievedOn} : NotAfter(d, day)) <=>
           NotAfter(from, day) /\ NotAfter(m.verifiedOn, day) /\ NotAfter(retrievedOn, day)
      /\ (\A d \in {to, m.reverifyOn} : NotBefore(d, day)) <=>
           NotBefore(to, day) /\ NotBefore(m.reverifyOn, day)
  OBVIOUS
<1> QED BY <1>1 DEF AssessTrust

LEMMA ContextIsPast ==
  ASSUME NEW m, m.verifiedOn \in Nat \cup {None}, NEW from \in Nat \cup {None},
         NEW to \in Nat \cup {None}, NEW retrievedOn \in Nat \cup {None}, NEW day \in Nat,
         AssessTrust(m, from, to, retrievedOn, day) = "context_only"
  PROVE  AssessTrust(m, from, to, retrievedOn, day + 1) = "context_only"
<1>1. \A d \in Nat \cup {None} : NotAfter(d, day) => NotAfter(d, day + 1)
  BY DEF NotAfter
<1>2. \A d \in Nat \cup {None} : ~NotBefore(d, day) => ~NotBefore(d, day + 1)
  BY DEF NotBefore
<1> QED BY <1>1, <1>2 DEF AssessTrust

(* The assessment of any material on any day: it is asserted on exactly the
   days its dates allow, and what is context once stays context.              *)
LEMMA AssessmentsAreExact == AssessmentIsExact
<1>1. AssertedExactlyWithin
  BY AssertionIsExact DEF AssertedExactlyWithin
<1>2. ContextStays
  <2> SUFFICES ASSUME NEW m \in Material, NEW from \in MaterialDates, NEW to \in MaterialDates,
                      NEW retrievedOn \in MaterialDates, NEW day \in MaterialDates \ {None},
                      AssessTrust(m, from, to, retrievedOn, day) = "context_only"
               PROVE  AssessTrust(m, from, to, retrievedOn, day + 1) = "context_only"
    BY DEF ContextStays
  <2>1. m.verifiedOn \in Nat \cup {None} /\ day \in Nat
    BY HistoryAssumption DEF Material
  <2> QED BY <2>1, HistoryAssumption, ContextIsPast
<1> QED BY <1>1, <1>2 DEF AssessmentIsExact

(* The early returns of the assessment leave no gap and do not overlap, for
   material with any dates whatever.                                          *)
THEOREM AssessmentHasNoGaps == HistorySpec => []AssessmentIsExact
BY AssessmentsAreExact, PTL

-----------------------------------------------------------------------------
(* Order.  Induction is along sets: the least of a set of natural numbers, and
   the subsets of a finite set by their size.                                *)

LEMMA LeastNatural ==
  ASSUME NEW T \in SUBSET Nat, T # {}
  PROVE  \E n \in T : \A m \in T : n <= m
<1>1. PICK n \in T : \A m \in T : ~(<<m, n>> \in OpToRel(<, Nat))
  BY NatLessThanWellFounded, WFMin
<1>2. \A m \in T : ~(m < n)
  BY <1>1 DEF OpToRel
<1> QED BY <1>2

\* What holds of a set when it holds of its proper subsets holds of all subsets.
LEMMA SubsetInduction ==
  ASSUME NEW S, IsFiniteSet(S), NEW Good,
         \A T \in SUBSET S : (\A U \in SUBSET T : U # T => U \in Good) => T \in Good
  PROVE  \A T \in SUBSET S : T \in Good
<1> DEFINE Bad == {T \in SUBSET S : T \notin Good}
           Sizes == {Cardinality(T) : T \in Bad}
<1>1. \A T \in SUBSET S : IsFiniteSet(T) /\ Cardinality(T) \in Nat
  BY FS_Subset, FS_CardinalityType
<1> SUFFICES ASSUME Bad # {} PROVE FALSE OBVIOUS
<1>2. Sizes \in SUBSET Nat /\ Sizes # {}
  BY <1>1
<1>3. PICK T \in Bad : \A U \in Bad : Cardinality(T) <= Cardinality(U)
  <2>1. PICK n \in Sizes : \A m \in Sizes : n <= m
    <3> HIDE DEF Sizes
    <3> QED BY <1>2, LeastNatural
  <2> QED BY <2>1
<1>4. ASSUME NEW U \in SUBSET T, U # T PROVE U \in Good
  <2>1. Cardinality(U) < Cardinality(T)
    BY <1>1, <1>4, FS_Subset
  <2>2. U \in SUBSET S
    BY <1>4
  <2>3. Cardinality(U) \in Nat /\ Cardinality(T) \in Nat
    BY <1>1, <2>2
  <2>4. U \notin Bad
    <3> HIDE DEF Bad
    <3> QED BY <1>3, <2>1, <2>3
  <2> QED BY <2>2, <2>4
<1> QED BY <1>4

\* An event as the workflow records it.
IsEvent(e) ==
  /\ e.kind \in {"opened", "resolved", "review"}
  /\ e.at \in Nat /\ e.pk \in Nat /\ e.state \in VerificationStates
  /\ e.kind = "review" => e.verifiedOn \in Nat /\ e.verifiedOn # None

\* Events that replay has an order for, discrepancies opened before resolved.
Replayable(events) ==
  /\ IsFiniteSet(events)
  /\ \A e \in events : IsEvent(e)
  /\ \A e, f \in events :
       e # f /\ (e.kind = "review") = (f.kind = "review") => e.pk # f.pk
  /\ \A o, r \in events :
       o.kind = "opened" /\ r.kind = "resolved" /\ o.discrepancy = r.discrepancy => Precedes(o, r)

LEMMA PartsAreReplayable ==
  ASSUME NEW S, Replayable(S), NEW T \in SUBSET S
  PROVE  Replayable(T)
BY FS_Subset DEF Replayable

LEMMA ReplayOrder ==
  ASSUME NEW S, Replayable(S)
  PROVE  /\ \A e, f \in S : e # f => Precedes(e, f) \/ Precedes(f, e)
         /\ \A e, f \in S : ~(Precedes(e, f) /\ Precedes(f, e))
         /\ \A e, f, g \in S : Precedes(e, f) /\ Precedes(f, g) => Precedes(e, g)
BY DEF Replayable, IsEvent, Precedes

\* The last of some events is the one that all others precede.
LEMMA LatestIsLast ==
  ASSUME NEW S, Replayable(S), S # {}
  PROVE  /\ Latest(S) \in S
         /\ \A f \in S \ {Latest(S)} : Precedes(f, Latest(S))
<1> DEFINE Good == {T \in SUBSET S : T # {} => \E e \in T : \A f \in T \ {e} : Precedes(f, e)}
<1>1. IsFiniteSet(S)
  BY DEF Replayable
<1>2. ASSUME NEW T \in SUBSET S, \A U \in SUBSET T : U # T => U \in Good
      PROVE  T \in Good
  <2> SUFFICES ASSUME T # {} PROVE \E e \in T : \A f \in T \ {e} : Precedes(f, e)
    OBVIOUS
  <2>1. PICK y \in T : TRUE
    OBVIOUS
  <2>2. T \ {y} \in Good
    BY <1>2, <2>1
  <2>3. CASE T \ {y} = {}
    BY <2>1, <2>3
  <2>4. CASE T \ {y} # {}
    <3>1. PICK e \in T \ {y} : \A f \in (T \ {y}) \ {e} : Precedes(f, e)
      BY <2>2, <2>4
    <3>2. CASE Precedes(y, e)
      BY <3>1, <3>2
    <3>3. CASE Precedes(e, y)
      <4>1. \A f \in T \ {y} : Precedes(f, y)
        BY <3>1, <3>3, ReplayOrder
      <4> QED BY <4>1
    <3> QED BY <3>1, <3>2, <3>3, ReplayOrder
  <2> QED BY <2>3, <2>4
<1>3. S \in Good
  <2> HIDE DEF Good
  <2> QED BY <1>1, <1>2, SubsetInduction
<1> QED BY <1>3 DEF Latest

LEMMA LatestIsUnique ==
  ASSUME NEW S, Replayable(S), NEW e \in S, \A f \in S \ {e} : Precedes(f, e)
  PROVE  Latest(S) = e
BY LatestIsLast, ReplayOrder

LEMMA NewestIsLatest ==
  ASSUME NEW S, Replayable(S), S # {}
  PROVE  Newest(S) = Latest(S)
<1> DEFINE newestInstant == {e \in S : \A f \in S : f.at <= e.at}
           reviews == {e \in newestInstant : e.kind = "review"}
           last    == IF reviews # {} THEN reviews ELSE newestInstant
<1>1. PICK x \in S : x = Latest(S) /\ \A f \in S \ {x} : Precedes(f, x)
  BY LatestIsLast
<1>2. x \in newestInstant
  BY <1>1 DEF Replayable, IsEvent, Precedes
<1>3. \A f \in newestInstant : f.at = x.at
  BY <1>2 DEF Replayable, IsEvent
<1>4. reviews # {} => x \in reviews
  <2> SUFFICES ASSUME NEW r \in reviews PROVE x.kind = "review"
    BY <1>2
  <2> QED BY <1>1, <1>3 DEF Replayable, IsEvent, Precedes
<1>5. x \in last
  BY <1>2, <1>4
<1>6. \A f \in last : f \in S /\ f.at = x.at /\ (f.kind = "review") = (x.kind = "review")
  BY <1>3, <1>4, <1>2
<1> HIDE DEF last
<1>7. \A f \in last : f # x => f.pk < x.pk
  BY <1>1, <1>6 DEF Replayable, IsEvent, Precedes
<1>8. \A f \in last : f.pk \in Nat
  BY <1>6 DEF Replayable, IsEvent
<1>9. \A e \in last : (\A f \in last : f.pk <= e.pk) <=> e = x
  BY <1>5, <1>7, <1>8
<1>10. (CHOOSE e \in last : \A f \in last : f.pk <= e.pk) = x
  BY <1>5, <1>9
<1> QED BY <1>1, <1>10 DEF Newest, last
-----------------------------------------------------------------------------
(* Replay. *)

\* The state of an overlay after event e.
Applied(e, overlay) ==
  IF e.kind = "review" THEN ReplayReview(e, overlay) ELSE ReplayTransition(e, overlay)

\* The recursion along which a set of events is replayed, and its solutions.
ReplayEquation(g, T) == IF T = {} THEN NoOverlay ELSE Applied(Latest(T), g[T \ {Latest(T)}])
ReplayOf(g, S) == g = [T \in SUBSET S |-> ReplayEquation(g, T)]

LEMMA ReplayIsRecursive ==
  ASSUME NEW S, NEW h, ReplayOf(h, S)
  PROVE  \E g : ReplayOf(g, S) /\ Replay(S) = g[S]
<1>1. Replay(S) = (CHOOSE g : ReplayOf(g, S))[S]
  BY DEF Replay, MapThenFoldSet, ReplayOf, ReplayEquation, Applied
<1> QED BY <1>1
\* Replay is well defined: each round of the equation settles the sets of one more event.
LEMMA ReplayExists ==
  ASSUME NEW S, Replayable(S)
  PROVE  \E g : ReplayOf(g, S)
<1> DEFINE Upto(n, g) == \A T \in SUBSET S : Cardinality(T) <= n => g[T] = ReplayEquation(g, T)
           Bad == {n \in Nat : ~\E g : DOMAIN g = SUBSET S /\ Upto(n, g)}
<1>1. \A T \in SUBSET S : IsFiniteSet(T) /\ Cardinality(T) \in Nat
  BY FS_Subset, FS_CardinalityType DEF Replayable
<1>2. \A T \in SUBSET S : T # {} =>
        T \ {Latest(T)} \in SUBSET S /\ Cardinality(T \ {Latest(T)}) = Cardinality(T) - 1
  <2> SUFFICES ASSUME NEW T \in SUBSET S, T # {}
               PROVE  Cardinality(T \ {Latest(T)}) = Cardinality(T) - 1
    OBVIOUS
  <2>1. Latest(T) \in T
    BY PartsAreReplayable, LatestIsLast
  <2> QED BY <1>1, <2>1, FS_RemoveElement
<1>3. Bad = {}
  <2> SUFFICES ASSUME Bad # {} PROVE FALSE OBVIOUS
  <2>1. PICK n \in Bad : \A m \in Bad : n <= m
    <3>1. Bad \in SUBSET Nat
      OBVIOUS
    <3> HIDE DEF Bad
    <3> QED BY <3>1, LeastNatural
  <2>2. n # 0
    <3> DEFINE g == [T \in SUBSET S |-> NoOverlay]
    <3>1. \A T \in SUBSET S : Cardinality(T) <= 0 => T = {}
      BY <1>1, FS_EmptySet
    <3>2. Upto(0, g)
      BY <3>1 DEF ReplayEquation
    <3>3. DOMAIN g = SUBSET S
      OBVIOUS
    <3> HIDE DEF g, Upto
    <3> QED BY <3>2, <3>3
  <2>3. n - 1 \in Nat /\ n - 1 \notin Bad
    <3>1. n \in Nat
      OBVIOUS
    <3> HIDE DEF Bad
    <3> QED BY <2>1, <2>2, <3>1
  <2>4. PICK g : DOMAIN g = SUBSET S /\ Upto(n - 1, g)
    BY <2>3
  <2> DEFINE h == [T \in SUBSET S |-> ReplayEquation(g, T)]
  <2>5. ASSUME NEW T \in SUBSET S, Cardinality(T) <= n
        PROVE  h[T] = ReplayEquation(h, T)
    <3>1. CASE T = {}
      BY <3>1 DEF ReplayEquation
    <3>2. CASE T # {}
      <4> DEFINE U == T \ {Latest(T)}
      <4>1. U \in SUBSET S /\ Cardinality(U) <= n - 1
        BY <1>1, <1>2, <2>1, <2>5, <3>2
      <4> HIDE DEF U
      <4>2. g[U] = ReplayEquation(g, U)
        BY <2>4, <4>1
      <4>3. h[U] = g[U]
        BY <4>1, <4>2
      <4> QED BY <3>2, <4>3 DEF ReplayEquation, U
    <3> QED BY <3>1, <3>2
  <2>6. DOMAIN h = SUBSET S
    OBVIOUS
  <2> HIDE DEF h
  <2>7. Upto(n, h)
    BY <2>5
  <2> HIDE DEF Upto
  <2> QED BY <2>6, <2>7
<1>4. Cardinality(S) \in Nat /\ \A T \in SUBSET S : Cardinality(T) <= Cardinality(S)
  BY <1>1, FS_Subset
<1>5. PICK g : DOMAIN g = SUBSET S /\ Upto(Cardinality(S), g)
  BY <1>3, <1>4
<1> DEFINE h == [T \in SUBSET S |-> g[T]]
<1>6. \A T \in SUBSET S : h[T] = ReplayEquation(h, T)
  BY <1>2, <1>4, <1>5 DEF ReplayEquation
<1>7. h = [T \in SUBSET S |-> ReplayEquation(h, T)]
  BY <1>6
<1> QED BY <1>7 DEF ReplayOf

\* What a discrepancy that is open among some events shows.
OpenAmong(T) ==
  {o \in T : o.kind = "opened" /\ ~\E r \in T : r.kind = "resolved" /\ r.discrepancy = o.discrepancy}
Claims(T)    == {[discrepancy |-> o.discrepancy, state |-> o.state] : o \in OpenAmong(T)}
ReviewsIn(T) == {e \in T : e.kind = "review"}

IsOverlay(o) ==
  o = [state |-> o.state, verifiedOn |-> o.verifiedOn, reverifyOn |-> o.reverifyOn,
       reviewed |-> o.reviewed, evidenceState |-> o.evidenceState,
       evidenceVerifiedOn |-> o.evidenceVerifiedOn, open |-> o.open]

\* The overlay o says of the events T what T establishes.
Establishes(T, o) ==
  /\ IsOverlay(o)
  /\ o.open = Claims(T)
  /\ o.state = IF T = {} THEN None ELSE Latest(T).state
  /\ o.reviewed = (ReviewsIn(T) # {})
  /\ ReviewsIn(T) = {} => o.evidenceState = None
  /\ ReviewsIn(T) # {} =>
       /\ o.reverifyOn = Latest(ReviewsIn(T)).reverifyOn
       /\ o.evidenceState = Latest(ReviewsIn(T)).state
       /\ o.evidenceVerifiedOn = MaxDate(Latest(ReviewsIn(T)).verifiedOn, Day(Latest(ReviewsIn(T)).at))

LEMMA NothingEstablishesNothing == Establishes({}, NoOverlay)
BY DEF Establishes, NoOverlay, IsOverlay, Claims, OpenAmong, ReviewsIn

\* One more event, later than all others.
LEMMA OpeningEstablishes ==
  ASSUME NEW T, Replayable(T), NEW x \in T, \A f \in T \ {x} : Precedes(f, x),
         x.kind = "opened", NEW o, Establishes(T \ {x}, o)
  PROVE  Establishes(T, Applied(x, o))
<1> DEFINE U == T \ {x}
           n == Applied(x, o)
<1>1. n = [state |-> x.state, verifiedOn |-> MaxDate(o.verifiedOn, Day(x.at)),
           reverifyOn |-> o.reverifyOn, reviewed |-> o.reviewed,
           evidenceState |-> o.evidenceState, evidenceVerifiedOn |-> o.evidenceVerifiedOn,
           open |-> o.open \cup {[discrepancy |-> x.discrepancy, state |-> x.state]}]
  <2>1. n = [o EXCEPT !.state = x.state, !.verifiedOn = MaxDate(@, Day(x.at)),
                      !.open = @ \cup {[discrepancy |-> x.discrepancy, state |-> x.state]}]
    BY DEF Applied, ReplayTransition
  <2>2. PICK a, b, c, d, e, f, g :
          o = [state |-> a, verifiedOn |-> b, reverifyOn |-> c, reviewed |-> d,
               evidenceState |-> e, evidenceVerifiedOn |-> f, open |-> g]
    BY DEF Establishes, IsOverlay
  <2> QED BY <2>1, <2>2
<1>2. Latest(T) = x
  BY LatestIsUnique
<1>3. ReviewsIn(T) = ReviewsIn(U)
  BY DEF ReviewsIn
<1>4. OpenAmong(T) = OpenAmong(U) \cup {x}
  <2>1. ~\E r \in T : r.kind = "resolved" /\ r.discrepancy = x.discrepancy
    BY ReplayOrder DEF Replayable
  <2> QED BY <2>1 DEF OpenAmong
<1>5. Claims(T) = Claims(U) \cup {[discrepancy |-> x.discrepancy, state |-> x.state]}
  BY <1>4 DEF Claims
<1> HIDE DEF n, U
<1>6. IsOverlay(n) /\ n.open = Claims(T) /\ n.state = x.state
  BY <1>1, <1>5 DEF IsOverlay, Establishes, U
<1>7. /\ n.reviewed = o.reviewed /\ n.reverifyOn = o.reverifyOn
      /\ n.evidenceState = o.evidenceState /\ n.evidenceVerifiedOn = o.evidenceVerifiedOn
  BY <1>1
<1>8. Establishes(T, n)
  BY <1>2, <1>3, <1>6, <1>7 DEF Establishes, U
<1> QED BY <1>8 DEF n

LEMMA ResolvingEstablishes ==
  ASSUME NEW T, Replayable(T), NEW x \in T, \A f \in T \ {x} : Precedes(f, x),
         x.kind = "resolved", NEW o, Establishes(T \ {x}, o)
  PROVE  Establishes(T, Applied(x, o))
<1> DEFINE U == T \ {x}
           n == Applied(x, o)
           rest == {d \in o.open : d.discrepancy # x.discrepancy}
<1>1. n = [state |-> x.state, verifiedOn |-> MaxDate(o.verifiedOn, Day(x.at)),
           reverifyOn |-> o.reverifyOn, reviewed |-> o.reviewed,
           evidenceState |-> o.evidenceState, evidenceVerifiedOn |-> o.evidenceVerifiedOn,
           open |-> rest]
  <2>1. n = [o EXCEPT !.state = x.state, !.verifiedOn = MaxDate(@, Day(x.at)),
                      !.open = {d \in @ : d.discrepancy # x.discrepancy}]
    BY DEF Applied, ReplayTransition
  <2>2. PICK a, b, c, d, e, f, g :
          o = [state |-> a, verifiedOn |-> b, reverifyOn |-> c, reviewed |-> d,
               evidenceState |-> e, evidenceVerifiedOn |-> f, open |-> g]
    BY DEF Establishes, IsOverlay
  <2> QED BY <2>1, <2>2
<1>2. Latest(T) = x
  BY LatestIsUnique
<1>3. ReviewsIn(T) = ReviewsIn(U)
  BY DEF ReviewsIn
<1>4. OpenAmong(T) = {p \in OpenAmong(U) : p.discrepancy # x.discrepancy}
  BY DEF OpenAmong
<1>5. Claims(T) = {d \in Claims(U) : d.discrepancy # x.discrepancy}
  BY <1>4 DEF Claims
<1> HIDE DEF n, U
<1>6. IsOverlay(n) /\ n.open = Claims(T) /\ n.state = x.state
  BY <1>1, <1>5 DEF IsOverlay, Establishes, U
<1>7. /\ n.reviewed = o.reviewed /\ n.reverifyOn = o.reverifyOn
      /\ n.evidenceState = o.evidenceState /\ n.evidenceVerifiedOn = o.evidenceVerifiedOn
  BY <1>1
<1>8. Establishes(T, n)
  BY <1>2, <1>3, <1>6, <1>7 DEF Establishes, U
<1> QED BY <1>8 DEF n

LEMMA ReviewingEstablishes ==
  ASSUME NEW T, Replayable(T), NEW x \in T, \A f \in T \ {x} : Precedes(f, x),
         x.kind = "review", NEW o, Establishes(T \ {x}, o)
  PROVE  Establishes(T, Applied(x, o))
<1> DEFINE U == T \ {x}
           n == Applied(x, o)
           established == MaxDate(x.verifiedOn, Day(x.at))
<1>1. n = [state |-> x.state, verifiedOn |-> established, reverifyOn |-> x.reverifyOn,
           reviewed |-> TRUE, evidenceState |-> x.state, evidenceVerifiedOn |-> established,
           open |-> o.open]
  <2>1. n = [o EXCEPT !.state = x.state, !.verifiedOn = established,
                      !.reverifyOn = x.reverifyOn, !.reviewed = TRUE,
                      !.evidenceState = x.state, !.evidenceVerifiedOn = established]
    BY DEF Applied, ReplayReview
  <2>2. PICK a, b, c, d, e, f, g :
          o = [state |-> a, verifiedOn |-> b, reverifyOn |-> c, reviewed |-> d,
               evidenceState |-> e, evidenceVerifiedOn |-> f, open |-> g]
    BY DEF Establishes, IsOverlay
  <2> QED BY <2>1, <2>2
<1>2. Latest(T) = x
  BY LatestIsUnique
<1>3. Latest(ReviewsIn(T)) = x /\ x \in ReviewsIn(T)
  <2>1. ReviewsIn(T) \in SUBSET T /\ x \in ReviewsIn(T)
    BY DEF ReviewsIn
  <2> QED BY <2>1, PartsAreReplayable, LatestIsUnique
<1>4. OpenAmong(T) = OpenAmong(U)
  BY DEF OpenAmong
<1> HIDE DEF n, U, established
<1>5. IsOverlay(n) /\ n.open = Claims(T) /\ n.state = x.state
  BY <1>1, <1>4 DEF IsOverlay, Establishes, Claims, U
<1>6. /\ n.reviewed = TRUE /\ n.reverifyOn = x.reverifyOn
      /\ n.evidenceState = x.state /\ n.evidenceVerifiedOn = established
  BY <1>1
<1>7. Establishes(T, n)
  BY <1>2, <1>3, <1>5, <1>6 DEF Establishes, established
<1> QED BY <1>7 DEF n

\* Whatever was recorded in whatever order, replaying it says what it establishes.
LEMMA ReplayEstablishes ==
  ASSUME NEW S, Replayable(S)
  PROVE  Establishes(S, Replay(S))
<1>1. PICK g : ReplayOf(g, S) /\ Replay(S) = g[S]
  BY ReplayExists, ReplayIsRecursive
<1> DEFINE Good == {T \in SUBSET S : Establishes(T, g[T])}
<1>2. ASSUME NEW T \in SUBSET S, \A U \in SUBSET T : U # T => U \in Good
      PROVE  T \in Good
  <2>1. g[T] = ReplayEquation(g, T)
    BY <1>1 DEF ReplayOf
  <2>2. CASE T = {}
    BY <2>1, <2>2, NothingEstablishesNothing DEF ReplayEquation
  <2>3. CASE T # {}
    <3>1. PICK x \in T : x = Latest(T) /\ \A f \in T \ {x} : Precedes(f, x)
      BY <2>3, PartsAreReplayable, LatestIsLast
    <3>2. g[T] = Applied(x, g[T \ {x}])
      BY <2>1, <2>3, <3>1 DEF ReplayEquation
    <3>3. Establishes(T \ {x}, g[T \ {x}])
      BY <1>2, <3>1
    <3>4. Replayable(T) /\ x.kind \in {"opened", "resolved", "review"}
      BY PartsAreReplayable DEF Replayable, IsEvent
    <3>5. Establishes(T, Applied(x, g[T \ {x}]))
      BY <3>1, <3>3, <3>4, OpeningEstablishes, ResolvingEstablishes, ReviewingEstablishes
    <3> QED BY <3>2, <3>5
  <2> QED BY <2>2, <2>3
<1>3. S \in Good
  <2>1. IsFiniteSet(S)
    BY DEF Replayable
  <2> HIDE DEF Good
  <2> QED BY <1>2, <2>1, SubsetInduction
<1> QED BY <1>1, <1>3
-----------------------------------------------------------------------------
(* What is shown. *)

\* What the workflow keeps of its records: replay has an order for them, and no
\* discrepancy is resolved that was not opened, or opened twice.
RecordsAreReplayable ==
  /\ Replayable(history)
  /\ \A o, p \in history :
       o.kind = "opened" /\ p.kind = "opened" /\ o.discrepancy = p.discrepancy => o = p
  /\ \A r \in history : r.kind = "resolved" =>
       \E o \in history : o.kind = "opened" /\ o.discrepancy = r.discrepancy

LEMMA OpeningKeepsOrder ==
  ASSUME RecordsAreReplayable,
         NEW s \in Subjects, NEW d \in Discrepancies, NEW state \in Outcomes, NEW at \in Instants,
         NEW pk \in TransitionPks, Open(s, d, state, at, pk)
  PROVE  RecordsAreReplayable'
<1> DEFINE e == [kind |-> "opened", subject |-> s, discrepancy |-> d, state |-> state,
                 at |-> at, pk |-> pk]
<1>1. history' = history \cup {e}
  BY DEF Open, Record
<1>2. IsEvent(e)
  BY HistoryAssumption DEF IsEvent
<1>3. \A f \in history : f.kind # "review" => f.pk # pk
  BY DEF Open, Fresh, Transitions
<1>4. \A f \in history : f.kind # "review" => f.discrepancy # d
  BY DEF Open, Opened, Transitions, RecordsAreReplayable, Replayable, IsEvent
<1>5. e.kind = "opened" /\ e.discrepancy = d /\ e.pk = pk
  OBVIOUS
<1> HIDE DEF e
<1>6. IsFiniteSet(history')
  BY <1>1, FS_AddElement DEF RecordsAreReplayable, Replayable
<1>7. Replayable(history)'
  BY <1>1, <1>2, <1>3, <1>4, <1>5, <1>6 DEF RecordsAreReplayable, Replayable
<1> QED BY <1>1, <1>4, <1>5, <1>7 DEF RecordsAreReplayable

LEMMA ResolvingKeepsOrder ==
  ASSUME RecordsAreReplayable,
         NEW d \in Discrepancies, NEW state \in Outcomes, NEW at \in Instants,
         NEW pk \in TransitionPks, Resolve(d, state, at, pk)
  PROVE  RecordsAreReplayable'
<1>1. PICK o \in history : /\ o.kind = "opened" /\ o.discrepancy = d
                           /\ at >= o.at /\ pk > o.pk
                           /\ Fresh(pk, Transitions)
                           /\ Record([kind |-> "resolved", subject |-> o.subject,
                                      discrepancy |-> d, state |-> state, at |-> at, pk |-> pk])
  BY DEF Resolve, Opened, Transitions
<1> DEFINE e == [kind |-> "resolved", subject |-> o.subject, discrepancy |-> d, state |-> state,
                 at |-> at, pk |-> pk]
<1>2. history' = history \cup {e}
  BY <1>1 DEF Record
<1>3. IsEvent(e)
  BY HistoryAssumption DEF IsEvent
<1>4. \A f \in history : f.kind # "review" => f.pk # pk
  BY <1>1 DEF Fresh, Transitions
<1>5. \A p \in history : p.kind = "opened" /\ p.discrepancy = d => p = o
  BY <1>1 DEF RecordsAreReplayable
<1>6. Precedes(o, e)
  <2>1. o.at \in Nat /\ o.pk \in Nat /\ at \in Nat /\ pk \in Nat
    BY <1>1, HistoryAssumption DEF RecordsAreReplayable, Replayable, IsEvent
  <2> QED BY <1>1, <2>1 DEF Precedes
<1>7. e.kind = "resolved" /\ e.discrepancy = d /\ e.pk = pk
  OBVIOUS
<1> HIDE DEF e
<1>8. IsFiniteSet(history')
  BY <1>2, FS_AddElement DEF RecordsAreReplayable, Replayable
<1>9. Replayable(history)'
  BY <1>2, <1>3, <1>4, <1>5, <1>6, <1>7, <1>8 DEF RecordsAreReplayable, Replayable
<1> QED BY <1>1, <1>2, <1>7, <1>9 DEF RecordsAreReplayable

LEMMA ReviewingKeepsOrder ==
  ASSUME RecordsAreReplayable,
         NEW s \in Subjects, NEW state \in Outcomes, NEW on \in ReviewDates \ {None},
         NEW due \in ReviewDates, NEW at \in Instants, NEW pk \in ReviewPks,
         Review(s, state, on, due, at, pk)
  PROVE  RecordsAreReplayable'
<1> DEFINE e == [kind |-> "review", subject |-> s, state |-> state, verifiedOn |-> on,
                 reverifyOn |-> due, at |-> at, pk |-> pk]
<1>1. history' = history \cup {e}
  BY DEF Review, Record
<1>2. IsEvent(e)
  BY HistoryAssumption DEF IsEvent
<1>3. \A f \in history : f.kind = "review" => f.pk # pk
  BY DEF Review, Fresh, Reviews
<1>4. e.kind = "review" /\ e.pk = pk
  OBVIOUS
<1> HIDE DEF e
<1>5. IsFiniteSet(history')
  BY <1>1, FS_AddElement DEF RecordsAreReplayable, Replayable
<1>6. Replayable(history)'
  BY <1>1, <1>2, <1>3, <1>4, <1>5 DEF RecordsAreReplayable, Replayable
<1> QED BY <1>1, <1>4, <1>6 DEF RecordsAreReplayable

LEMMA RecordsStayReplayable ==
  ASSUME RecordsAreReplayable, [HistoryNext]_historyVars
  PROVE  RecordsAreReplayable'
<1>1. CASE UNCHANGED historyVars
  BY <1>1 DEF historyVars, RecordsAreReplayable
<1>2. CASE HistoryNext
  BY <1>2, OpeningKeepsOrder, ResolvingKeepsOrder, ReviewingKeepsOrder DEF HistoryNext
<1> QED BY <1>1, <1>2

\* Everything that counts on a day, replayed.
LEMMA ShownIsReplayed ==
  ASSUME RecordsAreReplayable, NEW s \in Subjects, NEW day \in Days
  PROVE  \E T, o : /\ T = AsOf(Of(s), day) /\ Replayable(T) /\ Establishes(T, o)
                   /\ Shown(s, day) = Overlaid(authored[s], o)
                   /\ {x.state : x \in o.open} = {x.state : x \in OpenOn(s, day)}
<1>1. PICK T : T = AsOf(Of(s), day)
  OBVIOUS
<1>2. T \in SUBSET history
  BY <1>1 DEF AsOf, Of
<1>3. Replayable(T)
  BY <1>2, PartsAreReplayable DEF RecordsAreReplayable
<1>4. Establishes(T, Replay(T))
  BY <1>3, ReplayEstablishes
<1>5. OpenOn(s, day) = OpenAmong(T)
  BY <1>1 DEF OpenOn, OpenAmong
<1>6. {x.state : x \in Claims(T)} = {x.state : x \in OpenAmong(T)}
  <2>1. ASSUME NEW e \in OpenAmong(T) PROVE e.state \in {x.state : x \in Claims(T)}
    <3>1. PICK c : c = [discrepancy |-> e.discrepancy, state |-> e.state]
      OBVIOUS
    <3>2. c \in Claims(T) /\ c.state = e.state
      BY <3>1 DEF Claims
    <3> QED BY <3>2
  <2>2. ASSUME NEW c \in Claims(T) PROVE c.state \in {x.state : x \in OpenAmong(T)}
    <3>1. PICK e \in OpenAmong(T) : c = [discrepancy |-> e.discrepancy, state |-> e.state]
      BY DEF Claims
    <3> QED BY <3>1
  <2> QED BY <2>1, <2>2
<1>7. PICK o : o = Replay(T)
  OBVIOUS
<1>8. Establishes(T, o)
  BY <1>4, <1>7
<1>9. o.open = Claims(T)
  BY <1>8 DEF Establishes
<1>10. {x.state : x \in o.open} = {x.state : x \in OpenOn(s, day)}
  BY <1>5, <1>6, <1>9
<1>11. Shown(s, day) = Overlaid(authored[s], o)
  BY <1>1, <1>7 DEF Shown, Projected
<1> QED BY <1>1, <1>3, <1>8, <1>10, <1>11

LEMMA OpenShows ==
  ASSUME NEW item, NEW o, NEW day, {x.state : x \in o.open} # {}
  PROVE  LET states == {x.state : x \in o.open}
             shown  == Overlaid(item, o) IN
         /\ Disposition(shown, day) = "inconclusive"
         /\ shown.state = IF "disputed" \in states THEN "disputed"
                          ELSE IF "needs_reverification" \in states
                          THEN "needs_reverification" ELSE "unknown"
<1> DEFINE shown == Overlaid(item, o)
<1>1. FinalState(o) \in {"disputed", "needs_reverification", "unknown"}
  BY DEF FinalState
<1>2. FinalState(o) # None
  BY <1>1, DayAssumption DEF VerificationStates
<1>3. shown.state = FinalState(o)
  BY <1>2 DEF Overlaid
<1>4. shown.state # "stale" /\ shown.state # "current"
  BY <1>1, <1>3
<1> HIDE DEF shown
<1>5. Disposition(shown, day) = "inconclusive"
  BY <1>4 DEF Disposition, AssessTrust
<1>6. FinalState(o) = IF "disputed" \in {x.state : x \in o.open} THEN "disputed"
                      ELSE IF "needs_reverification" \in {x.state : x \in o.open}
                      THEN "needs_reverification" ELSE "unknown"
  BY DEF FinalState
<1> QED BY <1>3, <1>5, <1>6 DEF shown

LEMMA OpenIsNeverMasked ==
  ASSUME RecordsAreReplayable
  PROVE  OpenNeverMasked
<1> SUFFICES ASSUME NEW s \in Subjects, NEW day \in Days, {x.state : x \in OpenOn(s, day)} # {}
             PROVE  LET states == {x.state : x \in OpenOn(s, day)} IN
                    /\ Disposition(Shown(s, day), day) = "inconclusive"
                    /\ Shown(s, day).state = IF "disputed" \in states THEN "disputed"
                                             ELSE IF "needs_reverification" \in states
                                             THEN "needs_reverification" ELSE "unknown"
  BY DEF OpenNeverMasked
<1>1. PICK o : /\ Shown(s, day) = Overlaid(authored[s], o)
               /\ {x.state : x \in o.open} = {x.state : x \in OpenOn(s, day)}
  BY ShownIsReplayed
<1>2. PICK item : item = authored[s]
  OBVIOUS
<1>3. {x.state : x \in o.open} # {}
  BY <1>1
<1>4. /\ Disposition(Overlaid(item, o), day) = "inconclusive"
      /\ Overlaid(item, o).state = IF "disputed" \in {x.state : x \in o.open} THEN "disputed"
                                   ELSE IF "needs_reverification" \in {x.state : x \in o.open}
                                   THEN "needs_reverification" ELSE "unknown"
  BY <1>3, OpenShows
<1> QED BY <1>1, <1>2, <1>4

\* What it takes to give guidance on an item as it is shown.
LEMMA GuidanceTakes ==
  ASSUME NEW item, NEW day, Guided(item, day)
  PROVE  /\ item.state = "current" /\ NotBefore(item.reverifyOn, day)
         /\ item.link.state = "current" /\ NotBefore(item.link.reverifyOn, day)
         /\ NotAfter(item.link.verifiedOn, day)
<1>1. Disposition(item, day) = "assert_current" /\ Disposition(item.link, day) = "assert_current"
  BY DEF Guided
<1>2. item.state = "current" /\ NotBefore(item.reverifyOn, day)
  BY <1>1 DEF Disposition, AssessTrust
<1>3. /\ item.link.state = "current" /\ NotBefore(item.link.reverifyOn, day)
      /\ NotAfter(item.link.verifiedOn, day)
  BY <1>1 DEF Disposition, AssessTrust
<1> QED BY <1>2, <1>3

LEMMA GuidanceHasItsGrounds ==
  ASSUME RecordsAreReplayable
  PROVE  GuidanceIsEstablished
<1> SUFFICES ASSUME NEW s \in Subjects, NEW day \in Days, Guided(Shown(s, day), day)
             PROVE  /\ OpenOn(s, day) = {}
                    /\ LastWord(s, day) = "current"
                    /\ NotBefore(Standing(s, day).deadline, day)
                    /\ Standing(s, day).link.state = "current"
                    /\ NotAfter(Standing(s, day).link.verifiedOn, day)
                    /\ NotBefore(Standing(s, day).link.reverifyOn, day)
  BY DEF GuidanceIsEstablished
<1>1. PICK T, o : /\ T = AsOf(Of(s), day) /\ Replayable(T) /\ Establishes(T, o)
                  /\ Shown(s, day) = Overlaid(authored[s], o)
                  /\ {x.state : x \in o.open} = {x.state : x \in OpenOn(s, day)}
  BY ShownIsReplayed
<1>2. PICK shown : shown = Shown(s, day)
  OBVIOUS
<1>3. /\ shown.state = "current" /\ NotBefore(shown.reverifyOn, day)
      /\ shown.link.state = "current" /\ NotBefore(shown.link.reverifyOn, day)
      /\ NotAfter(shown.link.verifiedOn, day)
  BY <1>2, GuidanceTakes
<1>4. OpenOn(s, day) = {}
  <2> SUFFICES ASSUME OpenOn(s, day) # {} PROVE FALSE
    OBVIOUS
  <2>1. {x.state : x \in o.open} # {}
    BY <1>1
  <2>2. Disposition(shown, day) = "inconclusive"
    BY <1>1, <1>2, <2>1, OpenShows
  <2> QED BY <1>2, <2>2 DEF Guided
<1>5. /\ shown.state = IF o.state = None THEN authored[s].state ELSE o.state
      /\ shown.reverifyOn = IF o.reviewed THEN o.reverifyOn ELSE authored[s].reverifyOn
      /\ shown.link = IF o.evidenceState = None THEN authored[s].link
                      ELSE [state |-> o.evidenceState, verifiedOn |-> o.evidenceVerifiedOn,
                            reverifyOn |-> o.reverifyOn]
  <2>1. {x.state : x \in o.open} = {}
    BY <1>1, <1>4
  <2>2. FinalState(o) = o.state
    BY <2>1 DEF FinalState
  <2> QED BY <1>1, <1>2, <2>2 DEF Overlaid
<1>6. LastWord(s, day) = "current"
  <2>1. CASE T = {}
    BY <1>1, <1>3, <1>5, <2>1 DEF LastWord, Establishes
  <2>2. CASE T # {}
    <3>1. Latest(T) \in T /\ Newest(T) = Latest(T)
      BY <1>1, <2>2, LatestIsLast, NewestIsLatest
    <3>2. o.state = Latest(T).state /\ o.state # None
      BY <1>1, <2>2, <3>1, DayAssumption DEF Establishes, Replayable, IsEvent
    <3> QED BY <1>1, <1>3, <1>5, <2>2, <3>1, <3>2 DEF LastWord
  <2> QED BY <2>1, <2>2
<1>7. CASE ReviewsIn(T) = {}
  <2>1. ~o.reviewed /\ o.evidenceState = None
    BY <1>1, <1>7 DEF Establishes
  <2>2. Standing(s, day) = [deadline |-> authored[s].reverifyOn, link |-> authored[s].link]
    BY <1>1, <1>7 DEF Standing, ReviewsIn
  <2> QED BY <1>3, <1>4, <1>5, <1>6, <2>1, <2>2
<1>8. CASE ReviewsIn(T) # {}
  <2>1. ReviewsIn(T) \in SUBSET T
    BY DEF ReviewsIn
  <2>2. PICK r \in ReviewsIn(T) : r = Latest(ReviewsIn(T)) /\ r = Newest(ReviewsIn(T))
    BY <1>1, <1>8, <2>1, PartsAreReplayable, LatestIsLast, NewestIsLatest
  <2>3. /\ r.state # None /\ r.verifiedOn \in Nat /\ r.verifiedOn # None /\ r.at \in Nat
    BY <1>1, <2>2, DayAssumption DEF ReviewsIn, Replayable, IsEvent
  <2>4. /\ o.reviewed /\ o.reverifyOn = r.reverifyOn /\ o.evidenceState = r.state
        /\ o.evidenceVerifiedOn = MaxDate(r.verifiedOn, Day(r.at))
    BY <1>1, <1>8, <2>2 DEF Establishes
  <2>5. Standing(s, day) = [deadline |-> r.reverifyOn,
                            link |-> [state |-> r.state, verifiedOn |-> r.verifiedOn,
                                      reverifyOn |-> r.reverifyOn]]
    BY <1>1, <1>8, <2>2 DEF Standing, ReviewsIn
  <2>6. /\ NotBefore(r.reverifyOn, day) /\ r.state = "current"
        /\ NotAfter(MaxDate(r.verifiedOn, Day(r.at)), day)
    BY <1>3, <1>5, <2>3, <2>4
  <2>7. NotAfter(r.verifiedOn, day)
    <3>1. Day(r.at) \in Int /\ day \in Int
      BY <2>3, DayIsNatural, DaysAreIntegers
    <3> QED BY <2>3, <2>6, <3>1 DEF MaxDate, NotAfter
  <2> QED BY <1>4, <1>6, <2>5, <2>6, <2>7
<1> QED BY <1>7, <1>8

(* An open discrepancy always shows through, and guidance is given on a day only
   for what the events up to that day establish, however many were recorded and
   in whatever order their instants, kinds and keys replay them.              *)
THEOREM HistoryEstablishesWhatIsShown == HistorySpec => []ShownIsEstablished
<1>1. HistoryInit => RecordsAreReplayable
  BY FS_EmptySet DEF HistoryInit, RecordsAreReplayable, Replayable
<1>2. RecordsAreReplayable => ShownIsEstablished
  BY OpenIsNeverMasked, GuidanceHasItsGrounds DEF ShownIsEstablished
<1> QED BY <1>1, <1>2, RecordsStayReplayable, PTL DEF HistorySpec
=============================================================================
