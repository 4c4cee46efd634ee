SPECIFICATION FairSpec
CONSTANTS
  mg = mg
  pg = pg
  s1 = s1
  s2 = s2
  Tasks = {mg, pg, s1, s2}
  Mongoose = mg
  Purger = pg
  Boot <- MCBoot
  Reinit <- MCReinit
  Period <- MCPeriod
  Shortest = 1
  MaxTimeout = 2
  PollTimeout = 1
  Overrun = 1
  NULL = NULL
INVARIANTS
  TypeOK
  SweepExact
  TimersHonest
PROPERTIES
  NeverTooEarly
  PurgeRuns
