CONSTANTS
  Jobs = {j1, j2}
  Lanes = {w1, w2}
  DedupeKey <- OwnKey
  MaxAttempts = 2
  MaxFaults = 2
  NoJob = NoJob
SPECIFICATION FairSpec
INVARIANTS QueueTypeOK LatestClaimKeepsJob ExclusiveHandling ReceivesAccounted
PROPERTIES ImplementsLease EveryJobSettles
