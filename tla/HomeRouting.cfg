CONSTANTS
  NoSpace = None
  Ranks = {1, 2, 3}
  Texts <- SomeTexts
  Servers <- AllServers
  Kept <- WebClient
  MaxCandidates = 2
  MaxChanges = 1
SPECIFICATION RoutingSpec
INVARIANT ForbiddenIsRefused
PROPERTY CreatesOnlyForGoals
CHECK_DEADLOCK FALSE
