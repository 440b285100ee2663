SPECIFICATION FairSpec
CONSTANTS
  None = None
  Today = 1
  MaxFacts = 3
  Services = {a, b}
  Dates = {1, 2}
  Values = {1}
  Mounts = {m1, m2}
  Planner <- MCPlanner
  Kinds = {"rate_limited"}
  Delaying = {"rate_limited"}
  MaxFlights = 2
INVARIANTS
  ViewIsCurrent
  ClearingLasts
PROPERTIES
  DeadlineHeld
  LoadingEnds
