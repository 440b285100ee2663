SPECIFICATION HistorySpec
CONSTANTS
  None = None
  InstantsPerDay = 2
  Subjects = {item}
  Discrepancies = {d1, d2}
  Instants = {1, 2}
  TransitionPks = {1, 2, 3}
  ReviewPks = {1, 2}
  Outcomes = {"current", "disputed", "unknown"}
  ReviewDates = {None, 0}
  MaterialDates = {None, 0, 1, 2, 3}
  Authored <- AuthoredItems
SYMMETRY Symmetry
CHECK_DEADLOCK FALSE
INVARIANTS ShownIsEstablished AssessmentIsExact
PROPERTIES LaterEventsDoNotCount
