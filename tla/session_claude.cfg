SPECIFICATION Spec
CONSTANTS
  Requests = {r1, r2}
  NoRequest = NoRequest
  Agent = "claude"
  MaxQueue = 2
  MaxPending = 1
  MaxRevision = 0
SYMMETRY Symmetry
INVARIANTS
  TypeOK HandoffAgreement AtMostOnce IdleCheckSound RestWithoutActor StatusAgreement NoMissedWakeup
