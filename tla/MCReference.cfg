\* Two clients and a node of one workspace that is run up to twice.
SPECIFICATION Spec
CONSTANTS
  Idents = {i1}
  Names = {n1}
  Procs = {p1, p2}
  Clients = {c1, c2}
  None = None
SYMMETRY Symmetry
INVARIANTS LiveIsTracked StopIsThorough RunningIsOwned StatusHasReason LockHasBuilder
CHECK_DEADLOCK FALSE
