\* One Routine, a schedule of three occurrences and a manual fire.
SPECIFICATION FairSpec
CONSTANTS
  f1 = f1
  h1 = h1
  Nobody = Nobody
  Gone = Gone
  NoKey = NoKey
  Hosts = {h1}
  Fires = {f1}
  LastTick = 3
  Policy <- MCMixed
  MaxCatchUp = 2
  MaxDue = 3
  MaxApplies = 1
  MaxFaults = 1
  MaxEvents = 1
  Circumstances = {}
INVARIANTS OneActiveRun WatermarkIsHonest
PROPERTIES ActivationsDrain OccurrencesAreDecided
CHECK_DEADLOCK FALSE
