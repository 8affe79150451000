SPECIFICATION Spec
CONSTANTS
  Roles = {"actor", "critic"}
  Ranks = {1, 2}
  MaxStep = 6
  Trainers = {"sync", "one_step_off"}
  Keeps = {0, 2}
  EpochLens = {2, 4}
  TotalSteps = 4
  SaveFreq = 3
  Expires = TRUE
  Warmup = 2
  MaxCrashes = 2
INVARIANTS TrackerNamesWhole OneStepOff
PROPERTIES ImplementsRun Finishes
