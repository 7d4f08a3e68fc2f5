\* A request and the job, two refreshes of a grant, one authorization after the
\* first, one new row, one crash.
CONSTANTS
  Requests = {r1}
  Scheduler = job
  Ids = {a1, a2}
  Grants = {g1, g2}
  NoOne = NoOne
  NoId = NoId
  NoToken = NoToken
  MaxSerial = 3
  MaxCrashes = 1
SPECIFICATION FairSpec
INVARIANTS
  TokenNeverStranded
  RefreshedLeaseIsNew
PROPERTIES
  DeletedStaysDeleted
  CredentialsArrive
\* Stops when every authorization is used up and no live row is left.
CHECK_DEADLOCK FALSE
