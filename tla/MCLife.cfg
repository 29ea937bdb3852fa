CONSTANTS
  Width = 80
  Height = 25
  MaxGenerations = 120
SPECIFICATION Spec
INVARIANTS InsideArena OscillatorsRepeat
PROPERTIES NextIsConway
CHECK_DEADLOCK FALSE
