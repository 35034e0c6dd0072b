\* Two workspaces of native nodes, the sweeps of an E-Stop and of Close.
SPECIFICATION Spec
CONSTANTS
  Workspaces = {w1, w2}
  Names = {k1}
  Nodes = {n1, n2}
  Clients = {c1}
  Loop = Loop
  Closer = Closer
  Requests <- MCNative
  MaxRestarts = 1
  Safety = TRUE
  None = None
SYMMETRY MCSymmetry
INVARIANTS
  SweepComplete
  StatusFaithful
PROPERTIES
  StartsAdmitted
  RestartPolicyKept
  ImplementsService
