SPECIFICATION StrategySpec
CONSTANTS
  Images = {v1, v2}
  FirstImage = v1
  NoImage = none
  StableTGARNs <- ConfiguredGroup
  Percents = {10, 100}
  MaxName = 3
  Failing <- ListenerRequest
  LostAnswers = FALSE
  MaxFailures = 1
  Strategies = {"canary"}
INVARIANTS TrafficServed
