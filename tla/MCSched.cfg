CONSTANTS
  MaxId = 6
  MaxTasks = 6
  MaxStarts = 2
  SleepValues = {13}
  MksecPerTick = 5
  CountInRegister = TRUE
  SwitchKeys = TRUE
SPECIFICATION FairSpec
INVARIANTS ListedPointers DeadNeverRuns NeverLeftMasked BusyIsRunning
PROPERTIES OnlyAwakeDispatched KillsOnlyDead ReadyRuns SleeperWakes PlainKeysServed
