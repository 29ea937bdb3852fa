CONSTANTS
  NofTerms = 2
  InputSize = 3
  Columns = 2
  Rows = 2
  Shell = Shell
  Programs = {}
  Users = {Shell}
  Newline = Newline
  Backspace = Backspace
  Carriage = Carriage
  Nul = Nul
  Plain = Plain
  Keys = {Newline, Backspace, Plain}
  EraseRead = TRUE
  Texts <- OneText
  Ioctls = {"CLEAR_INPUT", "READ_LINE"}
  Sizes = {3}
SPECIFICATION FairSpec
INVARIANTS NeverDies
