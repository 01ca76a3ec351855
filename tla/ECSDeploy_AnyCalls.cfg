SPECIFICATION Spec
CONSTANTS
  Images = {v1, v2}
  FirstImage = v1
  NoImage = none
  StableTGARNs <- ConfiguredGroup
  Percents = {10}
  MaxName = 2
  Failing <- AnyMishap
  LostAnswers = TRUE
  MaxFailures = 1
INVARIANTS TypeOK
PROPERTIES PromotionComplete CanaryGone
