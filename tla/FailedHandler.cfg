\* One handler, whose statements may fail after its first commit.
CONSTANTS
  Admins = {a1}
  Requests = {}
  Models <- MCModel
  Rejected = {}
  MaxCommits = 2
  MaxReloads = 0
SPECIFICATION SnapshotFairSpec
PROPERTIES
  MutationsAreServed
