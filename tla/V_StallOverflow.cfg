SPECIFICATION Spec
CONSTANTS
  Word = 128
  UsecPerMsec = 5
  Rate = 8
  Gap = 3
  Stalls = {20}
  Horizon = 60
INVARIANT StallLasts
