CONSTANTS
  NofNodes = 4
  NofTerms = 4
  Tasks = {t1, t2}
  Kernel = Kernel
  MaxId = 5
SPECIFICATION Spec
INVARIANTS OpenIsFound
