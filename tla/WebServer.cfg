\* Routes registered in every order, then served through every chain.
SPECIFICATION Spec
CONSTANTS
  Method = {"GET", "POST"}
  Route <- MCRoute
  Request <- MCRequest
  Mdls <- MCMdls
  ErrCodes = {404, 500}
  HasExt = {"c.png", "d.png"}
  CacheSize = 1
  MaxRoutes = 3
INVARIANTS FoundMatches RoutesKept ChainContains CacheBounded
CHECK_DEADLOCK FALSE
