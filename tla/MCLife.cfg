CONSTANTS
  grid_height = 2
  grid_width = 2
SPECIFICATION Spec
CONSTRAINT Timely
INVARIANTS
  TypeOK
  ConflictsByGreeting
  PicturesFollow
CHECK_DEADLOCK FALSE
