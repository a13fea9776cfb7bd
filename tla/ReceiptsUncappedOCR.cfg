CONSTANTS
  a = a
  b = b
  Jobs = {a}
  Lanes = {w1}
  DedupeKey <- OwnKey
  MaxAttempts = 2
  MaxFaults = 0
  NoJob = NoJob
  Image <- SameImage
  ExtractionEnabled = {TRUE, FALSE}
  MonthlyOCRLimit = 1
  LeasesLapse = FALSE
  MaxErrors = 0
  MaxStoreErrors = 1
  Nobody = Nobody
  Deleter = Deleter
SPECIFICATION ReceiptsSpec
INVARIANT OCRWithinLimit
