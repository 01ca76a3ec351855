SPECIFICATION FairStrategySpec
CONSTANTS
  Images = {v1, v2}
  FirstImage = v1
  NoImage = none
  StableTGARNs <- ConfiguredGroup
  Percents = {10, 100}
  MaxName = 2
  Failing <- GroupRequests
  LostAnswers = FALSE
  MaxFailures = 1
  Strategies = {"blue/green"}
PROPERTIES BlueIsDestroyed
