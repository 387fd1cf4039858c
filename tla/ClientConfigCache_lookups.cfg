\* Two replicas, three requests of two callers whose files are changed, edited, doubled and broken.
SPECIFICATION Spec
CONSTANTS
  Requests = {r1, r2, r3}
  Replicas = {s1, s2}
  Users = {"app", "other"}
  Buckets = {"b1", "b2", "b3"}
  Anonymous = "anonymous"
  Sources = {"file", "env"}
  EnvUser = "app"
  EnvConfig <- MCEnvConfig
  Deployable <- MCDeployable
  Ttl = 1
  MaxTime = 2
  None = None
  Broken = Broken
SYMMETRY Symmetry
INVARIANTS TypeOK BucketWasGiven
PROPERTIES ConfigIsRecent RefusalIsCurrent
