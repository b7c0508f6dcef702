CONSTANTS
  Clients = {c1, c2}
  Barbers = {b1, b2}
  NUL = nul
  CHAIR_TOTAL = 2
  BUFFER_SIZE = 5
  LEFTOVER = 1
  MAX_MISSED = 0
SPECIFICATION Spec
INVARIANTS
  OneBarberPerClient
CHECK_DEADLOCK FALSE
