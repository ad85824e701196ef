\* A Session to which one message is sent twice and another once, and its Stop.
SPECIFICATION Spec
CONSTANTS
  m1 = m1
  m2 = m2
  m3 = m3
  c1 = c1
  c2 = c2
  NoMsg = NoMsg
  NoClient = NoClient
  Msgs = {m1, m2, m3}
  Clients = {c1}
  ClientOf <- MCSentTwice
  Steerable = {m1, m2}
  Exact = {}
  Stops = {u1}
  Capacity = 1
  MaxTargeted = 1
  Wrap = 4
INVARIANTS NoLeakedClientId OneLivePerClient StoppedNeverStarts FreshNeverDropped
  PendingCounts
CHECK_DEADLOCK FALSE
