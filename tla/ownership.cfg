SPECIFICATION MCSpec
CONSTANTS
  Apps = {a1, a2}
  NoApp = NoApp
  Resources = {r1}
  NoResource = NoResource
  Windows = {}
  MaxInstances = 2
  MaxLate = 2
SYMMETRY Symmetry
INVARIANTS NothingOrphaned LeftoversRecorded OwnKnown
PROPERTY StaleCloseFenced
CHECK_DEADLOCK FALSE
