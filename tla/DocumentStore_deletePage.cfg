\* A key with more versions than one reply of S3 lists is deleted.
SPECIFICATION Spec
CONSTANTS
  Requests = {r1, r2}
  Keys <- MCKeys
  Longer <- MCLonger
  Seed <- SeedTwice
  Ops = {"delete"}
  MaxItems = 1
  PageSize = 1
  Faults = {}
  ReuseIds = FALSE
  Earlier = Earlier
  NoKey = NoKey
INVARIANT DeletedMeansGone
