SPECIFICATION Spec
CONSTANTS
  s1 = s1  s2 = s2  p1 = p1  p2 = p2  p3 = p3  v1 = v1  v2 = v2  v3 = v3
  f = f  m = m  src = src  pubA = pubA  pubB = pubB  r1 = r1
  None = None
  Services = {s1, s2}
  Procedures = {p1, p2, p3}
  Versions = {v1, v2, v3}
  Facts = {f}
  Points = {m}
  Sources = {src}
  Publishers = {pubA, pubB}
  Requests = {r1}
  PrimaryService <- PrimaryOf
  ProcedureOf <- VersionsOf
  Cites <- Citations
  Drafts <- SomeDrafts
  Setups <- SomeSetups
  Disputable = {v1, m}
  MaxEdits = 1
SYMMETRY Symmetry
INVARIANTS PublicVersionsLoad CyclesNeedStrangers RequestsSeeOneInstant
PROPERTIES GatesHoldAtPublication
