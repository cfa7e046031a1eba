SPECIFICATION Spec
CONSTANTS
  Word = 128
  UsecPerMsec = 5
  Rate = 8
  Gap = 3
  Stalls = {2, 7, 10}
  Horizon = 60
INVARIANTS
  StallLasts
  StallBounded
PROPERTIES
  StallEnds
