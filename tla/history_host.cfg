SPECIFICATION HostSpec
CONSTANTS
  Probes = 3
  FUEL_PER_CALL = 6
INVARIANTS
  FailureIsContained
  OnlyFailuresLeak
