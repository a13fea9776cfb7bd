SPECIFICATION Spec
CONSTANTS
  Zones <- SkipZones
  Firsts <- MCFirsts
  Runners = {r1}
  Hours = {20}
  Instants <- SkipInstants
  BatchSize = 2
  Starts <- SkipStarts
  None = None
INVARIANT OneSummaryPerPeriod
CHECK_DEADLOCK FALSE
