SPECIFICATION ConsentSpec
CONSTANTS
  Requests = {r1, r2}
  NoRequest = NoRequest
  Agent = "traex"
  MaxQueue = 2
  MaxPending = 1
  MaxRevision = 1
SYMMETRY Symmetry
INVARIANTS WithdrawnNeverSent ImmediateOwnsRow ConfigsComplete
PROPERTIES DeliversAsPromised NoStrandedStart
