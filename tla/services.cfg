SPECIFICATION MCSpec
CONSTANTS
  Windows = {"w1", "w2"}
  Ids = {"p1", "p2"}
  Urls = {"u1", "u2"}
  Protocols = {"x", "y"}
  Targets <- TheTargets
  Speaks <- TheSpeaks
  MaxProviders = 2
  MaxOps = 3
  Coordinators = {"c1", "c2"}
  Bridges = {"b1"}
  Builds = {"old", "new"}
  BuildOf <- TheBuildOf
  MaxDaemons = 2
  ClaudeInputs = {"i1", "i2"}
  Tools = {"t1", "t2"}
  SkillNames = {"k1"}
  ClaudeTopics = {"inputs", "agents", "titles", "skills"}
  MaxClaudeInputs = 2
  MaxAgents = 2
  MaxStreams = 1
  MaxClaudeTurns = 3
  TraexInputs = {"i1", "i2"}
  TraexWork = {"c1"}
  TraexItems = {"m1"}
  TraexTopics = {"inputs", "work", "text"}
  MaxTraexInputs = 1
  MaxTraexRequests = 4
  MaxTraexTurns = 2
  MaxOut = 5
  MaxIn = 3
  RingLimit = 2
  ReadLimit = 1
  InputQueue = 2
  Models = {"m1", "m2"}
  Agents = {"a1"}
  AgentSpeaks <- TheAgentSpeaks
  Hosts = {"h1"}
  MaxChanges = 2
  HostDaemons = {"d1", "d2"}
  Jobs = {"j1", "j2"}
  MaxCrashes = 1
  MaxOther = 1
  MaxRecords = 2
  HistoryRows = 1
  MaxBlocks = 5
  MaxSnapshot = 6
  Children = {"a1", "a2"}
  UntoldChildren = {"a2"}
  MaxChildEvents = 4
  Approvals = {"a1", "a2"}
  MaxLog = 6
  PageTurns = 1
  PageRows = 3
  PageEvents = 2
  PageBytes = 4
  PollRows = 2
  MaxTitles = 3
  MaxRefreshes = 2
  Uploads = {"u1", "u2", "u3"}
  MaxFile = 2
  MaxCache = 3
  MaxPending = 2
  MaxEntries = 2
  MaxHostCrashes = 1
  Projects = {"p1"}
  Sessions = {1, 2, 3}
  MaxPins = 1
  PageSize = 1
  MaxTime = 2
  Calls = {"k1", "k2", "k3"}
  CallSources = {"s1", "s2"}
  Files = {"f1", "f2"}
  OldEvents <- TheOldEvents
  SourceWindow = 2
  MaxSources = 3
  MaxGrants = 1
  MaxSourceEvents = 4
INVARIANTS
  TypesCorrect DaemonsSound AdaptersKeepWork ChildRecordsExact ConversationExact
  TerminalStreamsExact HostIndexesExact ProvidersSound HostChangesSound
PROPERTY StepsAllowed
CHECK_DEADLOCK FALSE
