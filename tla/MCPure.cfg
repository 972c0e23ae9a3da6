\* Settlements of up to three entrants and ten units under every rule and
\* structure; pools of up to nine teams and brackets of up to seventeen seeds
\* on up to three courts; two and three pools with every result.
CONSTANTS
  None = None
  MaxEntrants = 3
  MaxPool = 10
  MaxTeams = 9
  MaxSeeds = 17
  MaxCourts = 3
SPECIFICATION Spec
INVARIANTS
  PaidByPlacement
  PaidAsPromised
  PoolPlayIsARoundRobin
  NobodyPlaysTwiceAtOnce
  BracketIsFair
  CutLineIsShown
  AdvancementIgnoresIds
CHECK_DEADLOCK FALSE
