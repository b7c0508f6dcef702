CONSTANTS
  Elves = {e1, e2}
  Reindeer = {r1, r2}
  SantaThread = s
  NoThread = none
  ELVES_REQUIRED = 2
  DELIVERIES = 1
SPECIFICATION Spec
INVARIANTS
  SantaNotAsleepOnElves
