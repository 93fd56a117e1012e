CONSTANTS
  KeyNames = {"k1", "k2"}
  EventNames = {"e1", "e2"}
  Identifiers <- MCIdentifiers
  Numeral <- MCNumeral
  MAX_HOT_KEYS = 1
  Inputs <- StaleInputs
  TemplateDirs <- FullTemplates
  OutDirs = {"absent", "dir", "file"}
  WriteFaults = FALSE
  MaxRuns = 2
INIT Init
NEXT Next
INVARIANTS
  SuccessLeavesCurrentHeaders
