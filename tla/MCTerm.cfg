CONSTANTS
  NofTerms = 2
  InputSize = 3
  Columns = 2
  Rows = 2
  Shell = Shell
  Programs = {p}
  Users = {p}
  Newline = Newline
  Backspace = Backspace
  Carriage = Carriage
  Nul = Nul
  Plain = Plain
  Keys = {Newline, Backspace, Plain}
  EraseRead = FALSE
  Texts <- TwoTexts
  Ioctls = {"CLEAR_INPUT", "READ_LINE", "MODE_TERMINAL", "MODE_PICTURE"}
  Sizes = {2, 3}
SPECIFICATION FairSpec
INVARIANTS TypeOK InputBounds OutputInside ActiveOpen LineIntact RoomForEnter
PROPERTIES LineReadReturns
