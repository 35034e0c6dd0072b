\* Lost connections, reloads, a restart of the service, a buffer that overflows.
SPECIFICATION FairSpec
CONSTANTS
  LogLimit = 2
  ShownLimit = 2
  MaxEntries = 6
  MaxFaults = 3
  MaxRestarts = 1
INVARIANTS TypeOK ShownInOrder NothingSkipped
PROPERTIES EntriesArrive
CHECK_DEADLOCK FALSE
