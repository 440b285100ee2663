SPECIFICATION Spec
CONSTANTS
  t1 = t1  t2 = t2  v1 = v1  v2 = v2  proc = proc  ann = ann  bob = bob
  item = item  source = source  policy1 = policy1  policy2 = policy2  dep = dep
  x = x  y = y
  None = None  Absent = Absent  Unread = Unread
  Txns = {t1, t2}
  Users = {ann}
  Versions = {v1, v2}
  Procedures = {proc}
  ProcedureOf <- TwoVersionsProcedure
  Windows <- TouchingDays
  Rows = {source, dep, policy1, policy2}
  Shared = {source}
  Owners <- TwoVersionsOwners
  PolicyRow <- TwoVersionsPolicyRow
  LockRank <- TwoVersionsRank
  ReadRank <- TwoVersionsRank
  DependencyRows = {dep}
  GraphRank <- TwoVersionsGraph
  Values = {x, y}
  Sound = {x}
  Policies <- NoRisks
  Dimensions = {"general"}
  Risks = {}
  Mode = "solo"
  Disputable = {dep}
  Days = {0, 1, 2, 3}
  MaxApprovals = 1
SYMMETRY Symmetry
INVARIANTS OneVersionInForce DeadlocksNeedTheGates
PROPERTIES GatesHoldAtCommit ImplementsLifecycle
