CONSTANTS
  KeyNames = {"k1", "k2"}
  EventNames = {"e1", "e2"}
  Identifiers <- MCIdentifiers
  Numeral <- MCNumeral
  MAX_HOT_KEYS = 1
  Inputs <- KeysInputs
INIT Init
NEXT Next
INVARIANTS
  ErrorsSound
  TracebackOnlyOnMalformed
PROPERTIES
  ContractSpec
