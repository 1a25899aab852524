SPECIFICATION BuildAndServe
CONSTANTS
  Routers = {r1, r2}
  Paths <- McPaths
  Clash <- McClash
  Order <- McOrder
  Uris = {"/a", "/c"}
  h = h
  v = v
  f = f
  Handlers = {h, v}
  Services = {v}
  Fallbacks = {f}
  Layers = {k, l}
  States = {Unit, s}
  Unit = Unit
  MaxCalls = 5
  Conns = {c1, c2}
  Extractors <- McExtractors
  MaxBuilt = 2
  MaxRequests = 2
SYMMETRY Symmetric
INVARIANTS
  NodeConsistent
  Answered
  ServedRight
CHECK_DEADLOCK FALSE
