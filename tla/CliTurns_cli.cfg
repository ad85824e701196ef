\* One CLI Session: two messages of this window, one of another.
SPECIFICATION Spec
CONSTANTS
  x1 = x1
  x2 = x2
  y1 = y1
  NoIntent = NoIntent
  Own = {x1, x2}
  Foreign = {y1}
  MaxActs = 1
  MaxFaults = 1
  MaxGates = 1
  MaxEvents = 2
  Circumstances = {}
INVARIANTS TerminalAppliedOnce TrackedTurnCanEnd NoStrandedTurn
PROPERTIES ReleasedByItsOwnEnd StopHolds TurnIsReleased
CHECK_DEADLOCK FALSE
