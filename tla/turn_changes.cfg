SPECIFICATION Spec
CONSTANTS
  Sessions = {s1}
  Files = {f1, f2}
  Versions = {v1, v2}
  Absent = Absent
  Link = Link
  NoSession = NoSession
  MaxTurns = 2
  MaxMoves = 2
  MaxRestarts = 1
SYMMETRY Symmetry
INVARIANTS ObjectsKept QuietRestore NeverFabricated
PROPERTIES FrozenHistory UndoExact
CHECK_DEADLOCK FALSE
