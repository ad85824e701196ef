\* A user talks to the Session that a Run resumes, may stop it or cancel the Run, and
\* an inline caller that outlives its lease competes with the dispatcher.
SPECIFICATION Spec
CONSTANTS
  r1 = r1
  r2 = r2
  r3 = r3
  s0 = s0
  s1 = s1
  s2 = s2
  s3 = s3
  p1 = p1
  a1 = a1
  NoRun = NoRun
  NoSession = NoSession
  NoPath = NoPath
  Desktop = desktop
  Runs = {r1}
  Sessions = {s0, s1}
  Paths = {p1}
  Keys = {k1}
  Agents = {a1}
  Inline = {caller}
  Clicks = {}
  Earlier = {s0}
  Workspace <- MCSameWorkspace
  AgentOf <- MCAgentOf
  Escalations <- MCNoEscalations
  Home <- MCHome
  MaxAttempts = 2
  MaxDeliveries = 2
  QueueCapacity = 1
  MaxCrashes = 0
  MaxStops = 1
  MaxUserTurns = 1
  MaxCancels = 1
INVARIANTS NoPhantomSession NoLeakedMessageId
CHECK_DEADLOCK FALSE
