\* A page that stays open while the service restarts: a violation.
SPECIFICATION Spec
CONSTANTS
  LogLimit = 2
  ShownLimit = 2
  MaxEntries = 4
  MaxFaults = 0
  MaxRestarts = 1
INVARIANTS StreamsDeliver
CHECK_DEADLOCK FALSE
