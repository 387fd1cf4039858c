\* Three requests for keys that are prefixes of each other race over listings
\* longer than one reply of S3; replicas die.
SPECIFICATION Spec
CONSTANTS
  Requests = {r1, r2, r3}
  Keys <- MCKeys
  Longer <- MCLonger
  Seed <- SeedThree
  Ops = {"put", "delete", "get", "details"}
  MaxItems = 1
  PageSize = 2
  Faults = {"s3", "unreachable", "audit", "lost", "gap", "crash"}
  ReuseIds = FALSE
  Earlier = Earlier
  NoKey = NoKey
SYMMETRY Symmetry
INVARIANTS CreatedIsNew LeftOversAreOlder NothingVanishes NotListedIsTrue HandlerInv RemovalOK
  AuditNeverInventsSaves
