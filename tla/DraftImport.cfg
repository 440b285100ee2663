SPECIFICATION Spec
CONSTANTS
  None = None
  Claims = {basis, claim}
  Basis = basis
  Texts = {1, 2}
  Passages = {3}
  Clients = {c1, c2}
  Source = source
  Draft = draft
  MaxWork = 2
SYMMETRY Symmetry
CHECK_DEADLOCK FALSE
PROPERTIES
  ImportWritesOnWhatItSaw
  AnswerIsTrue
  ImportsAttestNothing
  HistoryAndRisksKept
  ConfirmDoesWhatWasShown
