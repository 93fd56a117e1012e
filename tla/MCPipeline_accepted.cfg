CONSTANTS
  KeyNames = {"k1", "k2"}
  EventNames = {"e1", "e2"}
  Identifiers <- MCIdentifiers
  Numeral <- MCNumeral
  MAX_HOT_KEYS = 1
  Inputs <- PipelineInputs
  TemplateDirs <- PipelineTemplates
  OutDirs = {"absent", "dir"}
  WriteFaults = FALSE
  MaxRuns = 1
INIT Init
NEXT Next
INVARIANTS
  AcceptedDocumentRendered
