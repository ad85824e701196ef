\* A Stop while the worker starts the turn.
SPECIFICATION Spec
CONSTANTS
  m1 = m1
  m2 = m2
  m3 = m3
  c1 = c1
  c2 = c2
  NoMsg = NoMsg
  NoClient = NoClient
  Msgs = {m1}
  Clients = {c1}
  ClientOf <- MCOwnClient
  Steerable = {m1}
  Exact = {}
  Stops = {u1}
  Capacity = 1
  MaxTargeted = 1
  Wrap = 4
INVARIANTS StopReachesTheTurn
CHECK_DEADLOCK FALSE
