CONSTANTS
  Clients = {c1, c2}
  NoClient = nobody
  MAX_CONN = 2
  StreamRoom = 1
SPECIFICATION Spec
SYMMETRY Symmetry
INVARIANTS
  TypeOK
  NoDescriptorLeak
  AnswerOutstanding
CHECK_DEADLOCK FALSE
