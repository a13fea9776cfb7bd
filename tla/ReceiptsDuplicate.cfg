CONSTANTS
  a = a
  b = b
  Jobs = {a, b}
  Lanes = {w1, w2}
  DedupeKey <- OwnKey
  MaxAttempts = 2
  MaxFaults = 1
  NoJob = NoJob
  Image <- SameImage
  ExtractionEnabled = {TRUE}
  MonthlyOCRLimit = 1
  LeasesLapse = FALSE
  MaxErrors = 0
  MaxStoreErrors = 0
  Nobody = Nobody
  Deleter = Deleter
SPECIFICATION ReceiptsSpec
INVARIANTS OneReceiptPerImage OCRWithinLimit NeverSilent
SYMMETRY Symmetry
