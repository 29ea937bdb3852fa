CONSTANTS
  Lines <- MCLines
  Separators = {" "}
  Names <- MCNames
  MAX_NAME_LENGTH = 4
  Width = 5
  MaxId = 10
SPECIFICATION Spec
INVARIANT WordsFit
PROPERTIES KillsTheNamed KillsTheListed
