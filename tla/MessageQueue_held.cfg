\* A row is sent at once, and the user presses Stop before it goes.
SPECIFICATION Spec
CONSTANTS
  MaxMessages = 2
  MaxCommands = 2
  MaxFaults = 0
  Circumstances = {}
PROPERTIES ParkedStaysParked
CHECK_DEADLOCK FALSE
