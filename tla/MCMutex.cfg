CONSTANTS
  NofNodes = 2
  Tasks = {t1, t2}
  Names = {x}
  MaxNest = 2
SPECIFICATION FairSpec
INVARIANTS LocksHeld OpenIsKept
PROPERTIES FreeIsTaken ImplementsLocks
