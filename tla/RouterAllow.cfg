SPECIFICATION RouterSpec
CONSTANTS
  HttpMethods = {"GET", "POST", "PUT"}
  HttpRoutes <- ThreeRoutes
  RequestPaths <- ShortPaths
  MaxRoutes = 4
INVARIANT AllowExact
\* The routes are registered once.
CHECK_DEADLOCK FALSE
