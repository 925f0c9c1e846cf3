SPECIFICATION XFairSpec
CONSTANTS
  Overrides <- XMPPOverrides
  Outside = {"Connect"}
  Patient = TRUE
  MaxConnects = 3
  MaxWrites = 0
  MaxFarewells = 0
  MaxChunks = 4
  Offers <- MCOffers
INVARIANTS
  WritesInStep
PROPERTIES
  UsesTCPClient
  ChoosesStrongest
  FeaturesAnswered
  ChallengeTaken
CHECK_DEADLOCK FALSE
