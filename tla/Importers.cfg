SPECIFICATION FairSpec
CONSTANTS
  None = None
  passport = passport
  family = family
  j1 = j1
  j2 = j2
  Jobs = {j1, j2}
  Packages = {passport, family}
  Versions = {"passport.2026", "family.historical", "family.current"}
  VersionsOf <- MCVersionsOf
  Records = {"gazette", "ministry"}
  RecordsOf <- MCRecordsOf
  Upgraded = {passport}
  Undigested = {family}
  MaxEdits = 2
INVARIANTS RerunVerifies
PROPERTIES NothingRewritten ImportsConverge
CHECK_DEADLOCK FALSE
