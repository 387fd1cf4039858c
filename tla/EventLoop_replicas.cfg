\* Two replicas with one thread each, calls that hang, replicas that are killed,
\* large and small files.
SPECIFICATION LoopSpec
CONSTANTS
  Requests = {r1, r2}
  Replicas = {s1, s2}
  Keys = {"doc"}
  Longer = {}
  Seed <- SeedEmpty
  Ops = {"post", "bulk", "delete"}
  MaxItems = 2
  PageSize = 10
  Faults = {"checks", "s3", "crash"}
  ReuseIds = FALSE
  MayHang = TRUE
  Earlier = Earlier
  NoKey = NoKey
  Nowhere = Nowhere
INVARIANTS LoopOK PostsOfAReplicaAreSerial
PROPERTIES AnsweredUnlessHung DeletesOfAReplicaAreSerial
