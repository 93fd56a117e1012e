CONSTANTS
  KeyNames = {"k1", "k2"}
  EventNames = {"e1", "e2"}
  Identifiers <- MCIdentifiers
  Numeral <- MCNumeral
  MAX_HOT_KEYS = 1
  Inputs <- GenInputs
  TemplateDirs <- GenTemplateDirs
  OutDirs = {"absent", "dir", "file"}
  WriteFaults = TRUE
  MaxRuns = 3
INIT Init
NEXT Next
PROPERTIES
  GeneratorContractSpec
