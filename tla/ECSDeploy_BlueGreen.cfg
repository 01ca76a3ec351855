SPECIFICATION StrategySpec
CONSTANTS
  Images = {v1, v2, v3}
  FirstImage = v1
  NoImage = none
  StableTGARNs <- WithOrWithoutGroup
  Percents = {}
  MaxName = 3
  Failing <- AnyMishap
  LostAnswers = TRUE
  MaxFailures = 3
  Strategies = {"blue/green"}
PROPERTIES ImplementsRollout
