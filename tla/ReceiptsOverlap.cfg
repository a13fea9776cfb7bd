CONSTANTS
  a = a
  b = b
  Jobs = {a}
  Lanes = {w1, w2}
  DedupeKey <- OwnKey
  MaxAttempts = 2
  MaxFaults = 2
  NoJob = NoJob
  Image <- SameImage
  ExtractionEnabled = {TRUE}
  MonthlyOCRLimit = 1
  LeasesLapse = TRUE
  MaxErrors = 1
  MaxStoreErrors = 1
  Nobody = Nobody
  Deleter = Deleter
SPECIFICATION ReceiptsSpec
INVARIANTS DraftMatchesReceipt OriginalAvailable
PROPERTY SweptOnlyWhenDue
