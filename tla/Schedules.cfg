SPECIFICATION Spec
CONSTANTS
  Zones <- MCZones
  Firsts <- MCFirsts
  Runners = {r1, r2}
  Hours = {2, 20, 22}
  Instants <- MCInstants
  BatchSize = 2
  Starts <- MCStarts
  None = None
INVARIANTS
  NextIsFirst
  OneSummaryPerPeriod
  LatestPeriodOnly
  AdvancedMeansQueued
PROPERTIES
  DueIsServed
CHECK_DEADLOCK FALSE
