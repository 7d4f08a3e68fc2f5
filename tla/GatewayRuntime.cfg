\* Backends: two attempts, two overlapping reloads, three generations, the
\* extension's file edited once.
\* Middlewares: two rescans that may overlap or fail, three modules, four maps.
\* Snapshot: two handlers, two reloads that may overlap or fail, two commits.
CONSTANTS
  Dispatches = {d1, d2}
  Reloads = {x1, x2}
  Builtins = {openai}
  Extensions = {ext}
  Flaky = {ext}
  Edited = {ext}
  MaxVersion = 2
  MaxGeneration = 3
  Rescans = {x1, x2}
  Resolvers = {r1}
  Files <- MCFiles
  ExtFiles <- MCExt
  Bound <- MCBound
  MaxMaps = 4
  Admins = {a1, a2}
  Requests = {r1}
  Models <- MCModel
  Rejected = {1}
  MaxCommits = 2
  MaxReloads = 2
SPECIFICATION RuntimeSpec
INVARIANTS
  PinnedGenerationLives
  OnlyUncoveredRescanHides
  SnapshotIsOneInstant
PROPERTIES
  UsedGenerationRetires
  ChangesReachRequests
\* A closed process stops.
CHECK_DEADLOCK FALSE
