CONSTANTS
  Requests = {r1, r2}
  Items = {i1, i2}
  Stale = {s}
SPECIFICATION Spec
PROPERTIES
  WaitsForInFlight
