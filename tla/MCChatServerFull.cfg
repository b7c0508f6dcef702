CONSTANTS
  Clients = {c1, c2}
  NoClient = nobody
  MAX_CONN = 1
  StreamRoom = 0
SPECIFICATION FairSpec
PROPERTIES
  PingsContinue
CHECK_DEADLOCK FALSE
