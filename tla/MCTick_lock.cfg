SPECIFICATION TickSpec
CONSTANTS
  d1 = d1  d2 = d2  g1 = g1  g2 = g2
  Daemons <- TwoDaemons
  Campaigns <- TwoCampaigns
  One = 4
  Cfg <- Cfg1
  Bidder <- Bidder1
  Cost <- Cost1
  Goals <- TwoGoals
  NoGoal = NoGoal
  Servers <- Servers1
  Cooldown <- Cooldown1
  Budget = 4
  Deltas <- HitAndMiss
  Modes <- Decider
  MaxTick = 1
  MaxPolicy = 1
  MaxDeaths = 0
INVARIANTS OneTickAtATime
CHECK_DEADLOCK FALSE
