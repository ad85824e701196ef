\* The dispatcher and an inline caller deliver the same Runs.
SPECIFICATION Spec
CONSTANTS
  r1 = r1
  r2 = r2
  r3 = r3
  s0 = s0
  s1 = s1
  s2 = s2
  s3 = s3
  p1 = p1
  a1 = a1
  NoRun = NoRun
  NoSession = NoSession
  NoPath = NoPath
  Desktop = desktop
  Runs = {r1, r2}
  Sessions = {s1, s2}
  Paths = {p1}
  Keys = {k1, k2}
  Agents = {a1}
  Inline = {caller}
  Clicks = {}
  Earlier = {}
  Workspace <- MCSameWorkspace
  AgentOf <- MCAgentOf
  Escalations <- MCLastEscalation
  Home <- MCHome
  MaxAttempts = 1
  MaxDeliveries = 1
  QueueCapacity = 1
  MaxCrashes = 0
  MaxStops = 0
  MaxUserTurns = 0
  MaxCancels = 0
INVARIANTS TurnRunsUnderItsLock
CHECK_DEADLOCK FALSE
