\* Commands and removals over two clients in two homes.
SPECIFICATION ToolSpec
CONSTANTS
  Clients = {"ab", "abc"}
  Homes = {h1, h2}
  Fragments = {"ab", "abc"}
  Begins <- MCBegins
  Buckets = {b1, b2}
  Routes <- MCRoutes
  FreshPaths = {}
  FreshActions = {"PUT"}
  FreshArgs = {}
  Recommended <- MCRecommended
  AllFilters <- MCAllFilters
  Absent = Absent
  Cut = Cut
  None = None
  Deployments <- MCDeployments
  MaxCommands = 2
SYMMETRY NamesAlike
INVARIANTS ToolTypeOK
PROPERTIES WrittenAsAccepted StaysLoadable RefusedLeavesFiles RulesFollowConfig OnlyTheNamedClient
