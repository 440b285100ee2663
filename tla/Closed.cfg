SPECIFICATION Spec
CONSTANTS
  t1 = t1  t2 = t2  v1 = v1  v2 = v2  proc = proc  ann = ann  bob = bob
  item = item  source = source  policy1 = policy1  policy2 = policy2  dep = dep
  x = x  y = y
  None = None  Absent = Absent  Unread = Unread
  Txns = {t1, t2}
  Users = {ann}
  Versions = {v1}
  Procedures = {proc}
  ProcedureOf <- OneDraftProcedure
  Windows <- Always
  Rows = {item, policy1}
  Shared = {}
  Owners <- OneDraftOwners
  PolicyRow <- OneDraftPolicyRow
  LockRank <- OneDraftRank
  ReadRank <- OneDraftRank
  DependencyRows = {}
  GraphRank <- NoGraph
  Values = {x}
  Sound = {x}
  Policies <- NoRisks
  Dimensions = {}
  Risks = {}
  Mode = "solo"
  Disputable = {}
  Days = {0}
  MaxApprovals = 0
INVARIANTS PublishedAggregateClosed
