SPECIFICATION Spec
CONSTANTS
  t1 = t1  t2 = t2  v1 = v1  v2 = v2  proc1 = proc1  proc2 = proc2  item = item  point = point
  e1 = e1  e2 = e2  source = source  dep = dep
  None = None  Absent = Absent
  Txns = {t1, t2}
  Versions = {v1, v2}
  Procedures = {proc1, proc2}
  ProcedureOf <- TwoProcedures
  Subjects = {item, point}
  Shareable = {point}
  HomeOf <- TwoHomes
  Links = {e1, e2}
  SubjectOf <- TwoEvidence
  Sources = {source}
  Cites <- CitesSource
  Dependencies = {dep}
  DependencyOf <- Dependent
  Rank <- LockOrder
  GraphRank <- GraphOrder
  Outcomes = {"disputed"}
  ReviewDates = {}
  Discrepancies = {1}
  MaxReviews = 0
  MaxTransitions = 3
  MaxNow = 0
  InstantsPerDay = 1
SYMMETRY Symmetry
INVARIANTS DeadlocksNeedTheGates
PROPERTIES NothingDisputedIsPublished ImplementsHistory
