\* Four teams in two pools; top of each and one wildcard.
CONSTANTS
  None = None
  Line <- FourTeams
  PoolSize = 2
  Rule <- TopAndWildcard
  Pools <- TwoPools
  PoolGames <- OnePerPool
  Bracket <- ThreeSeeds
  Lucks <- EitherWay
  Scorelines <- OneEach
  MaxForfeits = 1
SPECIFICATION Spec
INVARIANTS
  ResultStands
  BracketFollowsResults
  EveryoneIsPlaced
PROPERTIES
  DecidedStays
CHECK_DEADLOCK FALSE
