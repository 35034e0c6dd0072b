\* What must eventually happen to nodes, requests and Close.
SPECIFICATION FairSpec
CONSTANTS
  Workspaces = {w1}
  Names = {k1}
  Nodes = {n1}
  Clients = {c1, c2}
  Loop = Loop
  Closer = Closer
  Requests <- MCNative
  MaxRestarts = 1
  Safety = TRUE
  None = None
PROPERTIES
  EStopQuiesces
  CloseReturns
  RequestsAnswered
