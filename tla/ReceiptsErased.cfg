CONSTANTS
  a = a
  b = b
  Jobs = {a}
  Lanes = {w1}
  DedupeKey <- OwnKey
  MaxAttempts = 2
  MaxFaults = 0
  NoJob = NoJob
  Image <- SameImage
  ExtractionEnabled = {TRUE}
  MonthlyOCRLimit = 0
  LeasesLapse = FALSE
  MaxErrors = 0
  MaxStoreErrors = 0
  Nobody = Nobody
  Deleter = Deleter
SPECIFICATION ReceiptsSpec
INVARIANT ErasedMeansErased
