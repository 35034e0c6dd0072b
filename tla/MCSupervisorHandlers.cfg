\* Two clients on one workspace, while Close may begin at any moment.
SPECIFICATION Spec
CONSTANTS
  Workspaces = {w1}
  Names = {k1, k2}
  Nodes = {n1, n2}
  Clients = {c1, c2}
  Loop = Loop
  Closer = Closer
  Requests <- MCScript
  MaxRestarts = 1
  Safety = FALSE
  None = None
SYMMETRY MCSymmetry
INVARIANTS
  TypeOK
  OneWaiter
  DoneClosedOnce
  OneProcessPerName
  BuildUndisturbed
PROPERTIES
  StoppingFreezesGeneration
