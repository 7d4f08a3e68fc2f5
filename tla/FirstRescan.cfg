\* One rescan, long after the last one, and a request that comes meanwhile.
CONSTANTS
  Rescans = {x1}
  Resolvers = {r1}
  Files <- MCFiles
  ExtFiles <- MCExt
  Bound <- MCBound
  MaxMaps = 2
SPECIFICATION MiddlewareSpec
INVARIANTS
  OlderCatalogServesRescan
