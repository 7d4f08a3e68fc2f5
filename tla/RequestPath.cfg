\* Queue: four requests compete for one model under limits 1 to 3.
\* Execution: two requests over two children, two attempts each.
\* Stream: two streamed requests, sockets of two frames.
CONSTANTS
  Callers = {c1, c2, c3, c4}
  Limits <- MCLimits
  Requests = {r1, r2}
  Children <- MCChildren
  Snapshots <- MCSnapshots
  MaxAttempts = 2
  MaxChildren = 2
  MaxLost = 1
  Responses = {s1, s2}
  Scripts <- MCScripts
  HighWater = 2
SPECIFICATION PathSpec
INVARIANTS
  ResourceAccounting
  NothingHeldWhileWaiting
  ExhaustedMeansTried
  AuditTellsOutcome
PROPERTIES
  NoOvertaking
  ImplementsLimiter
  RequestSettles
  ConnectedClientIsServed
\* A stream that is finished stops.
CHECK_DEADLOCK FALSE
