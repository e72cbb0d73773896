SPECIFICATION Spec
CONSTANTS
  Sessions = {s1, s2}
  NoSession = NoSession
  Clients = {c1, c2}
  Windows = {"resume", "timeout"}
  Kinds = {"send", "resume", "terminal", "undo", "archive", "edit", "close", "unarchive", "closeTerminal", "prepare"}
  MaxRequests = 3
INVARIANTS TypeOK RestoreAlone ArchivedAtRest UpgradeSafe NeverStuck
SYMMETRY Symmetry
CHECK_DEADLOCK FALSE
