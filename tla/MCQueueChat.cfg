CONSTANTS
  Clients = {c1, c2, c3, c4}
  MAX_CLIENTS = 2
  FREE = free
  ServerRoom = 2
  ClientRoom = 1
SPECIFICATION Spec
SYMMETRY Symmetry
INVARIANTS
  TypeOK
  RefusedOnlyWhenFull
  AnswerComesFirst
  SlotIsClientId
  ListWillBeAnswered
CHECK_DEADLOCK FALSE
