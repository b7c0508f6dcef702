CONSTANTS
  MAX_ID = 3
  Barbers0 = 1
  Chairs0 = 0
  Room0 = 0
SPECIFICATION FairSpec
INVARIANTS
  TypeOK
  BarbersConserved
  ChairsNeverLost
PROPERTIES
  EveryoneLeaves
CHECK_DEADLOCK FALSE
