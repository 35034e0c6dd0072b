\* A deletion while a node of the workspace survives SIGKILL: a violation.
SPECIFICATION Spec
CONSTANTS
  Workspaces = {w1}
  Names = {k1}
  Nodes = {n1}
  Clients = {c1}
  Loop = Loop
  Closer = Closer
  Requests <- MCScript
  MaxRestarts = 1
  Safety = FALSE
  None = None
INVARIANTS
  DeletedWorkspacesAreStopped
