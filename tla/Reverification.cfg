SPECIFICATION Spec
CONSTANTS
  t1 = t1  t2 = t2  v1 = v1  v2 = v2  proc1 = proc1  proc2 = proc2  item = item  point = point
  e1 = e1  e2 = e2  source = source  dep = dep
  None = None  Absent = Absent
  Txns = {t1, t2}
  Versions = {v1, v2}
  Procedures = {proc1}
  ProcedureOf <- OneProcedure
  Subjects = {item}
  Shareable = {item}
  HomeOf <- ItemHome
  Links = {e1, e2}
  SubjectOf <- ItemEvidence
  Sources = {}
  Cites <- CitesNothing
  Dependencies = {}
  DependencyOf <- Dependent
  Rank <- LockOrder
  GraphRank <- GraphOrder
  Outcomes = {"current"}
  ReviewDates <- DueDates
  Discrepancies = {}
  MaxReviews = 1
  MaxTransitions = 1
  MaxNow = 1
  InstantsPerDay = 1
SYMMETRY Symmetry
PROPERTIES ReverificationsStand PastIsSettled
