\* A replica reloads two files that are rewritten, broken and removed.
SPECIFICATION AuthSpec
CONSTANTS
  Replicas = {s1}
  Files = {"routes", "client"}
  Rules <- MCRules
  RouteRule = "route"
  DeleteRule = "delete"
  Garbled = Garbled
  Absent = Absent
  Deployable <- MCDeployable
  Interval = 2
INVARIANTS AuthTypeOK AllowedIsRecent KeptRulesGrant
