\* The queue of one Session: three messages.
SPECIFICATION Spec
CONSTANTS
  MaxMessages = 3
  MaxCommands = 1
  MaxFaults = 1
  Circumstances = {}
INVARIANTS FailedWasNotSent SentOnce NoStrandedTurn
PROPERTIES NaturalWaitsForBackend HeldNeverDrained QueueDrains
CHECK_DEADLOCK FALSE
