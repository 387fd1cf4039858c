\* Single and bulk uploads of up to two files: every way to fail, every loop.
SPECIFICATION Spec
CONSTANTS
  None = None
  ScanRequests <- MCScanRequests
  MaxFiles = 2
  Files <- MCFiles
  FileSpecs <- MCFileSpecs
  CollectionSpecs <- MCCollectionSpecs
INVARIANTS
  TypeOK
  AcceptedPassesAll
  ScannedFirst
  FailuresAllReported
  BreakdownIs500
