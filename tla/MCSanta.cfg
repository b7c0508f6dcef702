CONSTANTS
  Elves = {e1, e2, e3}
  Reindeer = {r1, r2, r3}
  SantaThread = s
  NoThread = none
  ELVES_REQUIRED = 2
  DELIVERIES = 2
SPECIFICATION FairSpec
INVARIANTS
  TypeOK
  GroupLeaderOnly
  HerdNotStranded
PROPERTIES
  EndsUnlessAllStranded
  ImplementsProblem
