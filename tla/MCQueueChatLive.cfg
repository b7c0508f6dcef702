CONSTANTS
  Clients = {c1, c2, c3}
  MAX_CLIENTS = 2
  FREE = free
  ServerRoom = 1
  ClientRoom = 1
SPECIFICATION FairSpec
PROPERTIES
  RequestsAnswered
CHECK_DEADLOCK FALSE
