CONSTANTS
  a = a
  c = c
  u1 = u1
  Jobs = {a, c}
  Lanes = {w1, w2}
  DedupeKey <- OwnKey
  MaxAttempts = 5
  MaxFaults = 1
  NoJob = NoJob
  Users = {u1}
  Owner <- OneUser
  Ephemeral = {c}
  OutboundEnabled = {TRUE, FALSE}
  MonthlyMessageLimit = 1
  MaxErrors = 1
  MaxLockLosses = 1
  Nobody = Nobody
SPECIFICATION FairOutboxSpec
INVARIANTS AtMostOneCall CallsWithinQuota StatusIsHonest ConfirmationRemoved
PROPERTIES DeletedUserIsSilent EveryMessageDecided
