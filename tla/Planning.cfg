SPECIFICATION FairSpec
CONSTANTS
  None = None
  InstantsPerDay = 1
  Definitions <- MCDefinitions
  Rules <- MCRules
  Catalogues <- MCCatalogues
  Days <- MCDays
INVARIANTS
  ShownGuidanceStands
  NothingSilentlyDropped
  RefusalsStand
  BlamedFactsSuffice
  VersionInForceIsUsed
PROPERTIES
  HistoryIsUsable
  DialogueEnds
CHECK_DEADLOCK FALSE
