SPECIFICATION Spec
CONSTANTS
  Requests = {r1, r2, r3}
  NoRequest = NoRequest
  Agent = "traex"
  MaxQueue = 1
  MaxPending = 1
  MaxRevision = 0
SYMMETRY Symmetry
INVARIANTS StartClean CapacityBound
