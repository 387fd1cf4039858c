\* A list with two text scans: the second reads a stream that is at its end.
SPECIFICATION Spec
CONSTANTS
  None = None
  ScanRequests <- MCScanRequests
  MaxFiles = 1
  Files <- MCFiles
  FileSpecs <- TwoScans
  CollectionSpecs <- NoCollectionSpecs
INVARIANT AcceptedPassesAll
