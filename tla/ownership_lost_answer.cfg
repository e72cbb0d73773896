SPECIFICATION Spec
CONSTANTS
  Apps = {a1, a2}
  NoApp = NoApp
  Resources = {r1}
  NoResource = NoResource
  Windows = {"answer"}
  MaxInstances = 1
  MaxLate = 2
INVARIANT Recoverable
CHECK_DEADLOCK FALSE
