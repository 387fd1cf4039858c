\* Two POSTs of the same new key.
SPECIFICATION Spec
CONSTANTS
  Requests = {r1, r2}
  Keys <- MCKeys
  Longer <- MCLonger
  Seed <- SeedEmpty
  Ops = {"post"}
  MaxItems = 1
  PageSize = 10
  Faults = {}
  ReuseIds = FALSE
  Earlier = Earlier
  NoKey = NoKey
INVARIANT PostNeverOverwrites
