CONSTANTS
  Clients = {c1, c2}
  Barbers = {b1, b2}
  NUL = nul
  CHAIR_TOTAL = 1
  BUFFER_SIZE = 6
  LEFTOVER = 2
  MAX_MISSED = 2
SPECIFICATION FairSpec
INVARIANTS
  TypeOK
  PlacesCounted
  HaircutsCounted
  InsideSegment
PROPERTIES
  ImplementsShop
  ShopEmpties
CHECK_DEADLOCK FALSE
