------------------------------ MODULE MCServices ------------------------------
(***************************************************************************)
(* The modules that share no state, checked in one run: a behaviour is one *)
(* of the module that the rigid variable "focus" names.  The variables x1,  *)
(* x2, ... are those of that module, in the order it declares them, and 0   *)
(* where it has no more; the variables of Providers keep their names.       *)
(***************************************************************************)
EXTENDS Providers

\* Of the modules the theorems speak of the constants are those of this one.
CONSTANTS
  \* --- LocalUpgrade ---
  Coordinators, Bridges, Builds, BuildOf, MaxDaemons,
  \* --- ClaudeAdapter ---
  ClaudeInputs, Tools, SkillNames, ClaudeTopics, MaxClaudeInputs, MaxAgents, MaxStreams, MaxClaudeTurns,
  \* --- TraexAdapter ---
  TraexInputs, TraexWork, TraexItems, TraexTopics, MaxTraexInputs, MaxTraexRequests, MaxTraexTurns,
  \* --- Terminals ---
  MaxOut, MaxIn, RingLimit, ReadLimit, InputQueue,
  \* --- HostProviders, with Ids and Protocols ---
  Models, Agents, AgentSpeaks, Hosts, MaxChanges,
  \* --- Skills ---
  HostDaemons, Jobs, MaxCrashes, MaxOther,
  \* --- ChildHistory, ChildSnapshot and Subagents ---
  MaxRecords, HistoryRows, MaxBlocks, MaxSnapshot, Children, UntoldChildren, MaxChildEvents,
  \* --- Timeline ---
  Approvals, MaxLog, PageTurns, PageRows, PageEvents, PageBytes, PollRows,
  \* --- TitleSync ---
  MaxTitles, MaxRefreshes,
  \* --- Attachments ---
  Uploads, MaxFile, MaxCache, MaxPending, MaxEntries, MaxHostCrashes,
  \* --- Catalog ---
  Projects, Sessions, MaxPins, PageSize, MaxTime,
  \* --- Sources ---
  Calls, CallSources, Files, OldEvents, SourceWindow, MaxSources, MaxGrants, MaxSourceEvents

VARIABLES
  focus,
  x1, x2, x3, x4, x5, x6, x7, x8, x9, x10, x11, x12, x13, x14, x15, x16, x17, x18,
  x19, x20, x21, x22, x23, x24, x25, x26, x27, x28, x29, x30, x31, x32, x33, x34,
  x35

TheTargets == {<<"h1", "a1">>, <<"h2", "a1">>}
TheSpeaks == [t \in TheTargets |-> {"x"}]
TheBuildOf == [c \in {"c1", "c2", "b1"} |-> IF c = "c1" THEN "old" ELSE "new"]
TheOldEvents == <<[call |-> "k1", source |-> "s1"], [call |-> "k2", source |-> "s2"]>>
TheAgentSpeaks == [a \in {"a1"} |-> {"x"}]

LU == INSTANCE LocalUpgrade WITH
  phase <- x1, build <- x2, draining <- x3, busy <- x4,
  socket <- x5, step <- x6, peer <- x7, seen <- x8
CA == INSTANCE ClaudeAdapter WITH
  Inputs <- ClaudeInputs, Skills <- SkillNames, Topics <- ClaudeTopics,
  MaxInputs <- MaxClaudeInputs, MaxTurns <- MaxClaudeTurns, phase <- x1, queued <- x2, consumed <- x3,
  tasks <- x4, agentTasks <- x5, foreground <- x6, sessionState <- x7,
  delegated <- x8, streamed <- x9, children <- x10, overflow <- x11, emitted <- x12,
  last <- x13, named <- x14, session <- x15, renaming <- x16, renamed <- x17,
  describe <- x18, attempted <- x19, generating <- x20, requested <- x21,
  pending <- x22, loads <- x23, out <- x24, topic <- x25, reports <- x26,
  busy <- x27, used <- x28, live <- x29, part <- x30, captured <- x31, named0 <- x32,
  shown <- x33, expanded <- x34, turns <- x35
TX == INSTANCE TraexAdapter WITH
  Inputs <- TraexInputs, Work <- TraexWork, Items <- TraexItems, Topics <- TraexTopics,
  MaxInputs <- MaxTraexInputs, MaxRequests <- MaxTraexRequests, MaxTurns <- MaxTraexTurns, phase <- x1,
  turn <- x2, completed <- x3, success <- x4, steered <- x5, early <- x6,
  pending <- x7, interrupt <- x8, rename <- x9, approvals <- x10, streamed <- x11,
  background <- x12, children <- x13, out <- x14, dead <- x15, topic <- x16,
  at <- x17, ends <- x18, answers <- x19, notes <- x20, took <- x21, live <- x22,
  confirmed <- x23, stops <- x24
CH == INSTANCE ChildHistory WITH
  PageRows <- HistoryRows, file <- x1, tail <- x2, live <- x3, over <- x4,
  rows <- x5, cursor <- x6, stream <- x7, job <- x8, more <- x9, seen <- x10,
  after <- x11, source <- x12, incomplete <- x13, settled <- x14
CS == INSTANCE ChildSnapshot WITH
  MaxEvents <- MaxSnapshot, log <- x1
SU == INSTANCE Subagents WITH
  Agents <- Children, Untold <- UntoldChildren, MaxEvents <- MaxChildEvents,
  rows <- x1, clock <- x2, seen <- x3, finals <- x4
TL == INSTANCE Timeline WITH
  Asks <- Approvals, log <- x1, open <- x2, live <- x3, step <- x4,
  before <- x5, cursor <- x6, shown <- x7, extended <- x8
TS == INSTANCE TitleSync WITH
  next <- x1, db <- x2, native <- x3, file <- x4,
  partial <- x5, lag <- x6, live <- x7, index <- x8, refresh <- x9, offline <- x10,
  told <- x11, refreshes <- x12, confirmed <- x13
TE == INSTANCE Terminals WITH
  open <- x1, shell <- x2, stopped <- x3, end <- x4, kept <- x5, pty <- x6,
  eof <- x7, queue <- x8, writing <- x9, writer <- x10, taken <- x11, typed <- x12,
  after <- x13, seen <- x14, missed <- x15, finished <- x16
AT == INSTANCE Attachments WITH
  MaxCrashes <- MaxHostCrashes, pending <- x1, bytes <- x2, files <- x3,
  client <- x4, crashes <- x5
CT == INSTANCE Catalog WITH
  project <- x1, session <- x2, now <- x3, list <- x4, cursor <- x5, reading <- x6,
  quiet <- x7
SR == INSTANCE Sources WITH
  Connectors <- CallSources, Old <- OldEvents, Window <- SourceWindow,
  MaxEvents <- MaxSourceEvents, events <- x1,
  observed <- x2, uses <- x3, used <- x4, grants <- x5, link <- x6
HP == INSTANCE HostProviders WITH
  Speaks <- AgentSpeaks, records <- x1, bound <- x2, hostBound <- x3, changes <- x4,
  sent <- x5, launched <- x6
SK == INSTANCE Skills WITH
  Daemons <- HostDaemons, copies <- x1, stages <- x2, slot <- x3, job <- x4, started <- x5,
  crashes <- x6, others <- x7

ASSUME ServicesAssumption ==
  /\ LU!LocalUpgradeAssumption
  /\ CA!ClaudeAssumption
  /\ TX!TraexAssumption
  /\ CH!HistoryAssumption
  /\ CS!SnapshotAssumption
  /\ SU!SubagentsAssumption
  /\ TL!TimelineAssumption
  /\ TS!TitleAssumption
  /\ TE!TerminalAssumption
  /\ AT!AttachmentAssumption
  /\ CT!CatalogAssumption
  /\ SR!SourceAssumption
  /\ HP!HostProviderAssumption
  /\ SK!SkillAssumption

-----------------------------------------------------------------------------
Rest == <<file, lock, op, copy, ops, intended>>
NoRest ==
  /\ file = Empty /\ intended = Empty /\ lock = None /\ op = [w \in Windows |-> Idle]
  /\ copy = [w \in Windows |-> Empty] /\ ops = 0

\* The variables that a module with fewer of them leaves out.
From25 == <<x25, x26, x27, x28, x29, x30, x31, x32, x33, x34, x35>>
From17 == <<x17, x18, x19, x20, x21, x22, x23, x24, From25>>
From15 == <<x15, x16, From17>>
From14 == <<x14, From15>>
From9 == <<x9, x10, x11, x12, x13, From14>>
From8 == <<x8, From9>>
From7 == <<x7, From8>>
From6 == <<x6, From7>>
From5 == <<x5, From6>>
From2 == <<x2, x3, x4, From5>>
From1 == <<x1, From2>>
None25 == x25 = 0 /\ x26 = 0 /\ x27 = 0 /\ x28 = 0 /\ x29 = 0 /\ x30 = 0 /\ x31 = 0 /\
    x32 = 0 /\ x33 = 0 /\ x34 = 0 /\ x35 = 0
None17 == x17 = 0 /\ x18 = 0 /\ x19 = 0 /\ x20 = 0 /\ x21 = 0 /\ x22 = 0 /\ x23 = 0 /\
    x24 = 0 /\ None25
None15 == x15 = 0 /\ x16 = 0 /\ None17
None14 == x14 = 0 /\ None15
None9 == x9 = 0 /\ x10 = 0 /\ x11 = 0 /\ x12 = 0 /\ x13 = 0 /\ None14
None8 == x8 = 0 /\ None9
None7 == x7 = 0 /\ None8
None6 == x6 = 0 /\ None7
None5 == x5 = 0 /\ None6
None2 == x2 = 0 /\ x3 = 0 /\ x4 = 0 /\ None5
None1 == x1 = 0 /\ None2

MCInit ==
  \/ focus = "upgrade" /\ LU!Init /\ NoRest /\ None9
  \/ focus = "claude" /\ CA!Init /\ NoRest
  \/ focus = "traex" /\ TX!Init /\ NoRest /\ None25
  \/ focus = "history" /\ CH!Init /\ NoRest /\ None15
  \/ focus = "snapshot" /\ CS!Init /\ NoRest /\ None2
  \/ focus = "subagents" /\ SU!Init /\ NoRest /\ None5
  \/ focus = "timeline" /\ TL!Init /\ NoRest /\ None9
  \/ focus = "titles" /\ TS!Init /\ NoRest /\ None14
  \/ focus = "terminals" /\ TE!Init /\ NoRest /\ None17
  \/ focus = "attachments" /\ AT!Init /\ NoRest /\ None6
  \/ focus = "catalog" /\ CT!Init /\ NoRest /\ None8
  \/ focus = "sources" /\ SR!Init /\ NoRest /\ None7
  \/ focus = "hostProviders" /\ HP!Init /\ NoRest /\ None7
  \/ focus = "skills" /\ SK!Init /\ NoRest /\ None8
  \/ focus = "providers" /\ Init /\ None1

MCNext ==
  \/ focus = "upgrade" /\ LU!Next /\ UNCHANGED <<focus, Rest, From9>>
  \/ focus = "claude" /\ CA!Next /\ UNCHANGED <<focus, Rest>>
  \/ focus = "traex" /\ TX!Next /\ UNCHANGED <<focus, Rest, From25>>
  \/ focus = "history" /\ CH!Next /\ UNCHANGED <<focus, Rest, From15>>
  \/ focus = "snapshot" /\ CS!Next /\ UNCHANGED <<focus, Rest, From2>>
  \/ focus = "subagents" /\ SU!Next /\ UNCHANGED <<focus, Rest, From5>>
  \/ focus = "timeline" /\ TL!Next /\ UNCHANGED <<focus, Rest, From9>>
  \/ focus = "titles" /\ TS!Next /\ UNCHANGED <<focus, Rest, From14>>
  \/ focus = "terminals" /\ TE!Next /\ UNCHANGED <<focus, Rest, From17>>
  \/ focus = "attachments" /\ AT!Next /\ UNCHANGED <<focus, Rest, From6>>
  \/ focus = "catalog" /\ CT!Next /\ UNCHANGED <<focus, Rest, From8>>
  \/ focus = "sources" /\ SR!Next /\ UNCHANGED <<focus, Rest, From7>>
  \/ focus = "hostProviders" /\ HP!Next /\ UNCHANGED <<focus, Rest, From7>>
  \/ focus = "skills" /\ SK!Next /\ UNCHANGED <<focus, Rest, From8>>
  \/ focus = "providers" /\ Next /\ UNCHANGED <<focus, From1>>

all == <<focus, From1, Rest>>
MCSpec == MCInit /\ [][MCNext]_all

-----------------------------------------------------------------------------
(* What each module promises, when the run is about it.                     *)

\* The state of every module is well-formed.
TypesCorrect ==
  /\ focus = "upgrade" => LU!TypeOK
  /\ focus = "claude" => CA!TypeOK
  /\ focus = "traex" => TX!TypeOK
  /\ focus = "history" => CH!TypeOK
  /\ focus = "timeline" => TL!TypeOK
  /\ focus = "titles" => TS!TypeOK
  /\ focus = "terminals" => TE!TypeOK
  /\ focus = "attachments" => AT!TypeOK
  /\ focus = "catalog" => CT!TypeOK
  /\ focus = "sources" => SR!TypeOK
  /\ focus = "hostProviders" => HP!TypeOK
  /\ focus = "skills" => SK!TypeOK
  /\ focus = "providers" => TypeOK

\* However daemons are started, drained, killed and replaced by coordinators of
\* two builds, one daemon at a time has the database and answers new
\* connections, and streams are handed out only by a daemon of the right build.
DaemonsSound == focus = "upgrade" => LU!OneReachableDaemon /\ LU!OwnBuildOnly

\* Neither adapter lets its CLI be replaced while something it started works;
\* and the Traex adapter agrees with its server whenever nothing is under way.
AdaptersKeepWork ==
  /\ focus = "claude" => CA!ReplacesNoWork
  /\ focus = "traex" => TX!ReplacesNoWork /\ TX!AgreesWhenQuiet

\* What an agent did is recorded once and whole, by whichever of its identities,
\* in whatever order and over whatever pages it is told.
ChildRecordsExact ==
  /\ focus = "history" => CH!HistoryExact
  /\ focus = "snapshot" => CS!NormalizeSettles
  /\ focus = "subagents" => SU!OneRowEach

\* A conversation shows every row once and every question that waits, and keeps
\* the name its user has given it, however late pages and refreshes are.
ConversationExact ==
  /\ focus = "timeline" => TL!ShownOnce /\ TL!AsksShown
  /\ focus = "titles" => TS!RenameKept

\* A terminal accounts for every byte of its output, and types what it accepted
\* in order and nothing after a part that was lost.
TerminalStreamsExact == focus = "terminals" => TE!OutputAccounted /\ TE!InputsInOrder

\* What a host keeps of uploads, sessions and sources stays within its limits,
\* is listed without gap or repetition, and counts every use once.
HostIndexesExact ==
  /\ focus = "attachments" => AT!CacheBounded
  /\ focus = "catalog" => CT!RecentExact
  /\ focus = "sources" => SR!UsesExact

\* A change of the host that comes late, fails or is given up neither starts a
\* turn with a provider that does not fit, nor restores or halves a skill.
HostChangesSound ==
  /\ focus = "hostProviders" => HP!LaunchesSound
  /\ focus = "skills" => SK!StaleRefused /\ SK!InstalledWhole

\* What no step may do: drain a daemon that works, take a turn for over, an input
\* for refused or a text for shown that is not, or drop a provider made here.
StepsAllowed ==
  [][/\ focus = "upgrade" => LU!DrainStep
     /\ focus = "claude" => CA!ReportStep /\ CA!TextStep
     /\ focus = "traex" => TX!RefusalStep
     /\ focus = "hostProviders" => HP!OwnKept]_all
===============================================================================
