\* A deployed change of bucket reaches the config and not the S3Service.
SPECIFICATION Spec
CONSTANTS
  Requests = {r1, r2}
  Replicas = {s1}
  Users = {"app"}
  Buckets = {"b1", "b2", "b3"}
  Anonymous = "anonymous"
  Sources = {"file"}
  EnvUser = "app"
  EnvConfig <- MCEnvConfig
  Deployable <- MCOnlyApp
  Ttl = 1
  MaxTime = 3
  None = None
  Broken = Broken
SYMMETRY Symmetry
INVARIANTS SavedWhereItSays
