CONSTANTS
  NofNodes = 4
  NofTerms = 3
  Tasks = {t1, t2}
  Kernel = Kernel
  MaxId = 5
SYMMETRY TaskSymmetry
SPECIFICATION Spec
INVARIANTS Linked TermsHeldOnce LookupSound
PROPERTIES ImplementsFileTable
