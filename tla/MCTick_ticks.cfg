SPECIFICATION FairTickSpec
CONSTANTS
  d1 = d1  d2 = d2  g1 = g1  g2 = g2
  Daemons <- OneDaemon
  Campaigns <- TwoCampaigns
  One = 4
  Cfg <- Cfg1
  Bidder <- Bidder1
  Cost <- Cost1
  Goals <- TwoGoals
  NoGoal = NoGoal
  Servers <- Servers1
  Cooldown <- Cooldown1
  Budget = 4
  Deltas <- HitAndMiss
  Modes <- EveryMode
  MaxTick = 3
  MaxPolicy = 2
  MaxDeaths = 1
INVARIANTS TickTypeOK BudgetAccounted LossesBounded CooldownHolds ClosedGoalsRest OnePolicy SettledOnce SettlesWhatRan DisabledForCause
PROPERTIES TicksGoOn
CHECK_DEADLOCK FALSE
