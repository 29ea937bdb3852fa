CONSTANTS
  Blocks = {b1, b2, b3, b4}
  First = b1
  MaxItems = 3
  Tasks = {t1}
  Kernel = Kernel
SPECIFICATION Spec
INVARIANTS HeldIsLive CountsRight
PROPERTIES ImplementsPool
