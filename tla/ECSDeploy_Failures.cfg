SPECIFICATION FairStrategySpec
CONSTANTS
  Images = {v1, v2}
  FirstImage = v1
  NoImage = none
  StableTGARNs <- WithOrWithoutGroup
  Percents = {10, 100}
  MaxName = 3
  Failing <- Survivable
  LostAnswers = FALSE
  MaxFailures = 2
  Strategies = {"canary", "rolling", "blue/green"}
INVARIANTS TrafficServed NoOrphans
PROPERTIES BlueIsDestroyed
