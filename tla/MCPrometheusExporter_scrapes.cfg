CONSTANTS
  SERVICES <- MCServices
  Outcomes = {"ok", "error", "oserror"}
  MaxRequests = 2
  MaxCpu = 1
  MaxRestarts = 1
SPECIFICATION Spec
INVARIANTS
  TypeOK
  CounterDropsExplained
PROPERTIES
  EveryRequestAnswered
  ExporterContractSpec
