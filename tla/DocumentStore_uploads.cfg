\* Requests of every kind with up to two files or keys race; S3 and the audit
\* table fail and lose replies.
SPECIFICATION Spec
CONSTANTS
  Requests = {r1, r2}
  Keys <- MCKeys
  Longer <- MCLonger
  Seed <- SeedOne
  Ops = {"post", "put", "bulk", "delete", "get", "details"}
  MaxItems = 2
  PageSize = 2
  Faults = {"checks", "s3", "unreachable", "audit", "lost", "gap"}
  ReuseIds = FALSE
  Earlier = Earlier
  NoKey = NoKey
SYMMETRY Symmetry
INVARIANTS TypeOK SettledIsAudited SavedMeansStored RefusedMeansUnstored
PROPERTIES AuditIsAppendOnly KeepsPromise
