CONSTANTS
  a = a
  b = b
  Jobs = {a}
  Lanes = {w1, w2}
  DedupeKey <- OwnKey
  MaxAttempts = 2
  MaxFaults = 2
  NoJob = NoJob
  Image <- SameImage
  ExtractionEnabled = {TRUE, FALSE}
  MonthlyOCRLimit = 1
  LeasesLapse = FALSE
  MaxErrors = 1
  MaxStoreErrors = 0
  Nobody = Nobody
  Deleter = Deleter
SPECIFICATION FairReceiptsSpec
INVARIANTS DoneIsDurable OriginalsAreTracked
PROPERTIES EveryReceiptSettles ExpiredOriginalsGo
