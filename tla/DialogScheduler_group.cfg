\* Two mentions of a Member, each of which may be stopped.
SPECIFICATION FairSpec
CONSTANTS
  m1 = m1
  m2 = m2
  m3 = m3
  c1 = c1
  c2 = c2
  NoMsg = NoMsg
  NoClient = NoClient
  Msgs = {m1, m2}
  Clients = {c1, c2}
  ClientOf <- MCOwnClient
  Steerable = {}
  Exact = {m1, m2}
  Stops = {}
  Capacity = 1
  MaxTargeted = 1
  Wrap = 4
INVARIANTS NamedStopHolds StartedIsExecuted
PROPERTIES EveryIdReturns
CHECK_DEADLOCK FALSE
