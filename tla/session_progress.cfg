SPECIFICATION ServerSpec
CONSTANTS
  Requests = {r1}
  NoRequest = NoRequest
  Agent = "claude"
  MaxQueue = 1
  MaxPending = 1
  MaxRevision = 1
PROPERTIES ClientsAnswered HandoffResolved
