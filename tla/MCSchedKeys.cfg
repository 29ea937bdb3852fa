CONSTANTS
  MaxId = 5
  MaxTasks = 6
  MaxStarts = 1
  SleepValues = {3}
  MksecPerTick = 5
  CountInRegister = TRUE
  SwitchKeys = TRUE
SPECIFICATION FairSpec
PROPERTIES KeysServed
