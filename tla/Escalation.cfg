SPECIFICATION Spec
CONSTANTS
  Rules = {cpu, gpu, fan}
  Channels <- TwoChannels
  Routed <- Routes
  Never = Never
  Cooldown = 3
  DailyCap = 2
  DayLength = 2
  MaxTime = 5
  MaxNotices = 4
  MaxFaults = 1
INVARIANTS NoDeliveryNoCooldown SilenceIsEarned CooldownHolds QuotaHolds
SYMMETRY RuleSymmetry
CHECK_DEADLOCK FALSE
