\* Two requests for one directory, both deferred escalations, and their retries.
SPECIFICATION Spec
CONSTANTS
  r1 = r1
  r2 = r2
  p1 = p1
  a1 = a1
  NoRun = NoRun
  NoSession = NoSession
  NoPath = NoPath
  Runs = {r1, r2}
  Sessions = {s1, s2}
  Paths = {p1}
  Keys = {k1, k2}
  Agents = {a1}
  Workspace <- MCSameWorkspace
  AgentOf <- MCAgentOf
  Escalations <- MCEscalations
  MaxAttempts = 2
  MaxDeliveries = 2
INVARIANTS RetryLineage NoRunStranded NoLeakedLock PathExclusion
PROPERTIES Finality ImplementsDispatch
