SPECIFICATION Spec
CONSTANTS
  Writers = {w1, w2}
  Capacity = 2
  MAX_LINES = 2
  MaxLogged = 3
  MaxDay = 2
INVARIANTS LinesAreKept 
PROPERTIES LinesAreStored
CHECK_DEADLOCK FALSE
