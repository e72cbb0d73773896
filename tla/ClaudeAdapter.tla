---------------------------- MODULE ClaudeAdapter ----------------------------
(***************************************************************************)
(* What the adapter of Claude makes of the lines its CLI writes: one       *)
(* action per input of the host and per kind of message.  out is what one  *)
(* step hands to the actor.  The CLI is external; what it does is seen in  *)
(* the ghost variables, which the adapter never reads.                     *)
(***************************************************************************)
EXTENDS Naturals, FiniteSets

CONSTANTS
  Inputs,        \* messages delivered while a turn runs
  Tools,         \* uses of the Agent tool
  Skills,        \* skills of the CLI's catalog
  Topics,        \* what the behaviours of this instance are about
  MaxInputs,     \* 16 in the code
  MaxAgents,     \* 256 in the code
  MaxStreams,    \* 512 in the code
  MaxTurns       \* bound: turns the CLI ends

AllTopics == {"inputs", "agents", "titles", "skills"}

ClaudeAssumption ==
  /\ Topics \subseteq AllTopics /\ MaxInputs \in Nat /\ MaxAgents \in Nat /\ MaxStreams \in Nat /\ MaxTurns \in Nat
  /\ {"none", "parent"} \cap Tools = {}

VARIABLES
  \* --- Claude ---
  phase, queued, consumed,
  tasks, agentTasks, foreground, sessionState, delegated,
  streamed, children, overflow, emitted, last,
  named, session, renaming, renamed, describe, attempted, generating,
  requested, pending, loads,
  out,        \* what the last step handed over
  \* --- ghost: the CLI ---
  topic,      \* what this behaviour is about.  Never changes.
  reports,    \* does this CLI report its state?  Never changes.
  busy,       \* is a turn of the parent under way?
  used,       \* uses of the tool so far: each has an identity of its own
  live,       \* agents that work
  part,       \* agents, or "parent", whose message is being streamed
  captured,   \* of these, the ones of which the reader has got a part
  named0,     \* inputs the CLI has said are in this turn
  shown,      \* has the turn shown any text?
  expanded,   \* skills expanded in this turn
  turns       \* bound

turn    == <<phase, queued, consumed>>
agents  == <<tasks, agentTasks, foreground, sessionState, delegated>>
texts   == <<streamed, children, overflow, emitted, last>>
titles  == <<named, session, renaming, renamed, describe, attempted, generating>>
skills  == <<requested, pending, loads>>
rigid   == <<topic, reports>>
ghosts  == <<busy, used, live, part, captured, named0, shown, expanded, turns>>
vars    == <<turn, agents, texts, titles, skills, out, rigid, ghosts>>

Init ==
  /\ phase = "idle" /\ queued = {} /\ consumed = {}
  /\ tasks = {} /\ agentTasks = {} /\ foreground = {} /\ sessionState = "none" /\ delegated = FALSE
  /\ streamed = FALSE /\ children = {} /\ overflow = FALSE /\ emitted = FALSE /\ last = "none"
  /\ named \in BOOLEAN /\ session \in {"none", "a"} /\ renaming = FALSE /\ renamed = FALSE
  /\ describe = FALSE /\ attempted = FALSE /\ generating = "none"
  /\ requested = {} /\ pending = {} /\ loads = {} /\ out = {}
  /\ topic \in Topics /\ reports \in BOOLEAN
  /\ busy = FALSE /\ used = {} /\ live = {} /\ part = {} /\ captured = {} /\ named0 = {}
  /\ shown = FALSE /\ expanded = {} /\ turns = 0

About(t) == topic = t
Ready == phase \in {"running", "between"}

-----------------------------------------------------------------------------
(* What the actor asks the adapter. *)

HasBackground == tasks # {} \/ foreground # {}
CanStartTurn == phase = "between" /\ queued = {} /\ ~renaming
\* (Fault: a CLI that never reports its state is taken to be idle.)
SettledSilent == sessionState \in {"idle", "none"}
Settled == sessionState = "idle" \/ (sessionState = "none" /\ ~delegated)
CanReconfigure == CanStartTurn /\ ~HasBackground /\ Settled

-----------------------------------------------------------------------------
(* A turn starts. *)

\* reset_turn.  (Fault: what the last turn emitted counts for this one.)
EmittedKept == emitted
EmittedReset == FALSE
OverflowReset == overflow /\ (HasBackground \/ children # {})
ResetTurn ==
  /\ overflow' = OverflowReset /\ requested' = {} /\ pending' = {} /\ loads' = {}
NewTurnGhosts == shown' = FALSE /\ expanded' = {} /\ busy' = TRUE

Asks(input) ==
  \/ input = "plain" /\ UNCHANGED requested
  \/ input \in Skills /\ About("skills") /\ requested' = requested \cup {input}

Open ==
  /\ phase = "idle" /\ phase' \in {"opening", "discovering"} /\ out' = {}
  /\ UNCHANGED <<queued, consumed, agents, texts, titles, skills, rigid, ghosts>>

\* The first prompt waits for the initialization.
StartFirst ==
  /\ phase = "idle" /\ phase' = "initializing" /\ out' = {}
  /\ \E input \in {"plain"} \cup Skills :
       Asks(input) /\ describe' = (input = "plain" /\ About("titles"))
  /\ busy' = TRUE
  /\ UNCHANGED <<queued, consumed, agents, texts, named, session, renaming, renamed, attempted, generating,
                 pending, loads, rigid, used, live, part, captured, named0, shown, expanded, turns>>

StartNext ==
  /\ CanStartTurn /\ ~busy /\ turns < MaxTurns
  /\ phase' = "running" /\ emitted' = EmittedReset /\ streamed' = FALSE /\ out' = {}
  /\ overflow' = OverflowReset /\ pending' = {} /\ loads' = {}
  /\ \E input \in {"plain"} \cup (IF About("skills") THEN Skills ELSE {}) :
       /\ requested' = {input} \cap Skills
       /\ describe' = (describe \/ (input = "plain" /\ About("titles") /\ ~attempted))
  /\ NewTurnGhosts
  /\ UNCHANGED <<queued, consumed, agents, children, last, named, session, renaming, renamed, attempted,
                 generating, rigid, used, live, part, captured, named0, turns>>

\* The answer to initialize; a probe for commands ends with it.
Initialized ==
  /\ phase \in {"opening", "initializing", "discovering"}
  /\ phase' = CASE phase = "opening" -> "between" [] phase = "initializing" -> "running" [] OTHER -> "finished"
  /\ out' = {IF phase = "discovering" THEN "commands" ELSE "ready"}
  /\ UNCHANGED <<queued, consumed, agents, texts, titles, skills, rigid, ghosts>>

\* session_state_changed.  A CLI that reports its state says so before it works,
\* and that it is idle when nothing is left.
SessionState(state) ==
  /\ Ready /\ reports /\ sessionState # state /\ (state = "idle" => ~busy /\ live = {})
  /\ sessionState' = state /\ out' = {}
  /\ UNCHANGED <<turn, tasks, agentTasks, foreground, delegated, texts, titles, skills, rigid, ghosts>>

-----------------------------------------------------------------------------
(* Inputs delivered while a turn runs. *)

Deliver(i) ==
  /\ About("inputs") /\ phase = "running" /\ Cardinality(queued) < MaxInputs /\ i \notin queued \cup named0
  /\ queued' = queued \cup {i} /\ out' = {}
  /\ UNCHANGED <<phase, consumed, agents, texts, titles, skills, rigid, ghosts>>

\* Any line of the parent may name inputs it has taken up; they are committed
\* at the result.
Named(ids) == consumed' = consumed \cup (ids \cap queued)

Acknowledge(i) ==
  /\ About("inputs") /\ busy /\ i \in queued /\ Named({i}) /\ named0' = named0 \cup {i} /\ out' = {}
  /\ UNCHANGED <<phase, queued, agents, texts, titles, skills, rigid, busy, used, live, part, captured,
                 shown, expanded, turns>>

-----------------------------------------------------------------------------
(* The parent speaks.  Between turns its first words start one. *)

Wakes == phase = "between"
Woken(o) == out' = o \cup (IF Wakes THEN {"turnStarted"} ELSE {})
\* Reset when it wakes, kept otherwise.
WakeReset ==
  /\ phase' = "running"
  /\ IF Wakes THEN ResetTurn ELSE UNCHANGED <<overflow, skills>>

\* A piece of text.
Delta ==
  /\ Ready /\ (busy \/ turns < MaxTurns) /\ WakeReset /\ Woken({"text"})
  /\ streamed' = TRUE /\ emitted' = TRUE
  /\ busy' = TRUE /\ part' = part \cup {"parent"} /\ captured' = captured \cup {"parent"}
  /\ shown' = TRUE /\ expanded' = (IF Wakes THEN {} ELSE expanded)
  /\ UNCHANGED <<queued, consumed, agents, children, last, titles, rigid, used, live, named0, turns>>

\* A message is complete: its text was streamed or is shown now; it may use the
\* Agent tool.
Message(t) ==
  /\ Ready /\ (reports => sessionState = "running") /\ (busy \/ turns < MaxTurns) /\ WakeReset
  /\ LET show == IF Wakes THEN TRUE ELSE ~streamed IN
     /\ Woken(IF show THEN {"text"} ELSE {})
     /\ emitted' = (IF Wakes THEN TRUE ELSE emitted \/ show)
     /\ shown' = (IF Wakes THEN show ELSE shown \/ show)
  /\ streamed' = FALSE
  /\ t # "none" => t \notin used /\ About("agents")
                   /\ Cardinality(foreground) < MaxAgents
  /\ used' = used \cup ({t} \cap Tools)
  /\ foreground' = foreground \cup ({t} \cap Tools) /\ live' = live \cup ({t} \cap Tools)
  /\ delegated' = (delegated \/ t \in Tools)
  /\ busy' = TRUE /\ part' = part \ {"parent"} /\ captured' = captured \ {"parent"}
  /\ expanded' = (IF Wakes THEN {} ELSE expanded)
  /\ UNCHANGED <<queued, consumed, tasks, agentTasks, sessionState, children, last, titles, rigid, named0, turns>>

\* The result of the parent.  A late one between turns, empty or the one just
\* given, is no turn; any other is a turn of its own.
\* (Fault: a result of an agent nobody knows is taken for it.)
OfChildKnown(parent) == parent \in foreground \cup agentTasks
OfChild(parent) == parent # "none"

EndOfTurn(text, failed) ==
  LET consumes == consumed \cap queued IN
  /\ phase' = "between" /\ queued' = queued \ consumes /\ consumed' = {} /\ last' = text
  /\ emitted' = (IF Wakes THEN EmittedReset ELSE emitted) /\ streamed' = (IF Wakes THEN FALSE ELSE streamed)
  /\ IF Wakes THEN ResetTurn ELSE UNCHANGED <<overflow, skills>>
  /\ LET shows == ~failed /\ text # "" /\ ~(IF Wakes THEN EmittedReset ELSE emitted)
         titled == ~failed /\ ~attempted /\ ~named /\ describe /\ session # "none"
     IN
     /\ out' = {IF failed THEN "failed" ELSE "finished"} \cup (IF shows THEN {"text"} ELSE {}) \cup (IF Wakes THEN {"turnStarted"} ELSE {})
                 \cup (IF consumes # {} THEN {"consumed"} ELSE {}) \cup (IF titled THEN {"askTitle"} ELSE {})
     /\ attempted' = (attempted \/ titled) /\ generating' = (IF titled THEN session ELSE generating)
     /\ describe' = IF ~failed /\ ~attempted /\ ~named THEN FALSE ELSE describe

Result(text, failed) ==
  /\ Ready /\ turns < MaxTurns /\ turns' = turns + 1
  /\ (Wakes => ~busy) /\ ~(~busy /\ ~failed /\ text \in {"", last})
  /\ "parent" \notin part
  /\ EndOfTurn(text, failed)
  /\ busy' = FALSE /\ named0' = {} /\ shown' = FALSE /\ expanded' = {}
  /\ UNCHANGED <<agents, children, named, session, renaming, renamed,
                 rigid, used, live, part, captured>>

Trailing ==
  /\ phase = "between" /\ ~busy /\ out' = {}
  /\ LET consumes == consumed \cap queued IN queued' = queued \ consumes
  /\ consumed' = {}
  /\ UNCHANGED <<phase, agents, texts, titles, skills, rigid, ghosts>>

-----------------------------------------------------------------------------
(* Agents. *)

Known(t) == t \in agentTasks \cup foreground

\* (Fault: once a slot is free again a stream is taken up halfway.)
SkipsFull(t) == t \notin children /\ Cardinality(children) >= MaxStreams
SkipsOverflow(t) == t \notin children /\ (overflow \/ Cardinality(children) >= MaxStreams)
Skips(t) == SkipsOverflow(t)

ChildDelta(t) ==
  /\ Ready /\ t \in live
  /\ overflow' = (overflow \/ (Known(t) /\ t \notin children /\ Cardinality(children) >= MaxStreams))
  /\ LET takes == Known(t) /\ ~Skips(t) IN
     /\ children' = children \cup (IF takes THEN {t} ELSE {})
     /\ out' = IF takes THEN {"childText"} ELSE {}
     /\ captured' = captured \cup (IF takes THEN {t} ELSE {})
  /\ part' = part \cup {t}
  /\ UNCHANGED <<turn, agents, streamed, emitted, last, titles, skills, rigid, busy, used, live, named0,
                 shown, expanded, turns>>

ChildMessage(t) ==
  /\ Ready /\ t \in live
  /\ children' = children \ {t} /\ out' = IF Known(t) /\ t \notin children THEN {"childText"} ELSE {}
  /\ part' = part \ {t} /\ captured' = captured \ {t}
  /\ UNCHANGED <<turn, agents, streamed, overflow, emitted, last, titles, skills, rigid, busy, used, live,
                 named0, shown, expanded, turns>>

\* The agent goes on in the background (the CLI says so before the tool has its
\* result); beyond the limit one that is over is forgotten.
TaskStarted(t) ==
  /\ Ready /\ t \in live \cap foreground /\ Cardinality(tasks) < MaxAgents
  /\ \E old \in SUBSET (agentTasks \ tasks) :
       /\ Cardinality(old) = (IF Cardinality(agentTasks) >= MaxAgents THEN 1 ELSE 0)
       /\ agentTasks' = (agentTasks \ old) \cup {t}
  /\ tasks' = tasks \cup {t} /\ foreground' = foreground \ {t} /\ out' = {"subagent"}
  /\ UNCHANGED <<turn, sessionState, delegated, texts, titles, skills, rigid, ghosts>>

\* task_notification and task_updated with a final status.
TaskEnds(t) ==
  /\ Ready /\ t \in live \cap tasks
  /\ tasks' = tasks \ {t} /\ live' = live \ {t} /\ part' = part \ {t} /\ captured' = captured \ {t}
  /\ out' = IF t \in agentTasks THEN {"subagent"} ELSE {}
  /\ UNCHANGED <<turn, agentTasks, foreground, sessionState, delegated, texts, titles, skills, rigid, used, busy, named0,
                 shown, expanded, turns>>

\* tool_result: the agent is done, or was only launched by a CLI that tells
\* nothing more of it.
ToolResult(t, done) ==
  /\ Ready /\ busy /\ t \in live \cap foreground /\ foreground' = foreground \ {t} /\ out' = {"subagent"}
  /\ live' = (IF done THEN live \ {t} ELSE live)
  /\ part' = (IF done THEN part \ {t} ELSE part) /\ captured' = (IF done THEN captured \ {t} ELSE captured)
  /\ UNCHANGED <<turn, tasks, agentTasks, sessionState, delegated, texts, titles, skills, rigid, used, busy,
                 named0, shown, expanded, turns>>

\* A result that belongs to an agent never ends the turn of the parent.
AgentResult(t) ==
  /\ Ready /\ t \in live /\ t \notin part
  /\ live' = live \ {t} /\ turns < MaxTurns /\ turns' = turns + (IF OfChild(t) THEN 0 ELSE 1)
  /\ IF OfChild(t)
     THEN /\ children' = children \ {t} /\ tasks' = tasks \ {t}
          /\ foreground' = (IF t \in agentTasks THEN foreground ELSE foreground \ {t})
          /\ out' = (IF Known(t) THEN {"subagent"} ELSE {})
          /\ UNCHANGED <<turn, streamed, overflow, emitted, last, skills, describe, attempted, generating>>
     ELSE EndOfTurn("other", FALSE) /\ UNCHANGED <<children, tasks, foreground>>
  /\ UNCHANGED <<agentTasks, sessionState, delegated, named, session, renaming, renamed, rigid, used, busy,
                 part, captured, named0, shown, expanded>>

-----------------------------------------------------------------------------
(* Titles. *)

Rename ==
  /\ About("titles") /\ Ready /\ ~renaming /\ renaming' = TRUE /\ renamed' = FALSE /\ out' = {}
  /\ UNCHANGED <<turn, agents, texts, named, session, describe, attempted, generating, skills, rigid, ghosts>>

RenameAnswer(ok) ==
  /\ renaming /\ renaming' = FALSE /\ named' = (named \/ ok)
  /\ renamed' = (IF ok THEN FALSE ELSE renamed)
  /\ out' = {IF ~ok THEN "renameFailed" ELSE IF renamed THEN "renamedToNative" ELSE "renamed"}
  /\ UNCHANGED <<turn, agents, texts, session, describe, attempted, generating, skills, rigid, ghosts>>

\* session_title_changed, of this session or of another one.
TitleChanged(s) ==
  /\ About("titles") /\ Ready
  /\ LET mine == session = "none" \/ s = session IN
     /\ named' = (named \/ mine) /\ renamed' = (renamed \/ (mine /\ renaming))
     /\ out' = IF mine /\ ~renaming THEN {"nativeName"} ELSE {}
  /\ UNCHANGED <<turn, agents, texts, session, renaming, describe, attempted, generating, skills, rigid, ghosts>>

\* system init may name another native session than the one before.
NativeSession(s) ==
  /\ About("titles") /\ Ready /\ s # session /\ session' = s /\ out' = {"session"}
  /\ UNCHANGED <<turn, agents, texts, named, renaming, renamed, describe, attempted, generating, skills, rigid, ghosts>>

\* A generated title is for the session it was asked for, unless that was named.
Takes == ~named /\ session = generating
TitleAnswer(ok) ==
  /\ generating # "none" /\ generating' = "none"
  /\ out' = IF ~Takes THEN {} ELSE IF ok THEN {"generatedTitle"} ELSE {"notice"}
  /\ UNCHANGED <<turn, agents, texts, named, session, renaming, renamed, describe, attempted, skills, rigid, ghosts>>

-----------------------------------------------------------------------------
(* Skills. *)

Recorded(n) == IF n \subseteq loads THEN {} ELSE {"loaded"}

\* The CLI expands a slash command; its replay is proof for a known skill.
Expand(n, replay, known) ==
  /\ About("skills") /\ phase = "running" /\ busy
  /\ LET asked == {n} \cap requested
         proved == IF replay /\ known THEN asked ELSE {}
     IN pending' = asked \ proved /\ loads' = loads \cup proved /\ out' = Recorded(proved)
  /\ expanded' = expanded \cup {n}
  /\ UNCHANGED <<turn, agents, texts, titles, requested, rigid, busy, used, live, part, captured, named0, shown, turns>>

\* The text of a skill is put into the conversation; any other user message
\* ends the expansion.
SkillContext(synthetic) ==
  /\ About("skills") /\ phase = "running" /\ busy
  /\ pending' = {} /\ loads' = (IF synthetic THEN loads \cup pending ELSE loads)
  /\ out' = IF synthetic THEN Recorded(pending) ELSE {}
  /\ UNCHANGED <<turn, agents, texts, titles, requested, rigid, ghosts>>

Next ==
  \/ \E state \in {"idle", "running"} : SessionState(state)
  \/ Open \/ StartFirst \/ StartNext \/ Initialized \/ Delta \/ Trailing \/ Rename
  \/ \E i \in Inputs : Deliver(i) \/ Acknowledge(i)
  \/ \E t \in Tools \cup {"none"} : Message(t)
  \/ \E text \in {"", "same", "other"}, failed \in BOOLEAN : Result(text, failed)
  \/ \E t \in Tools : ChildDelta(t) \/ ChildMessage(t) \/ TaskStarted(t) \/ TaskEnds(t) \/ AgentResult(t)
  \/ \E t \in Tools, done \in BOOLEAN : ToolResult(t, done)
  \/ \E ok \in BOOLEAN : RenameAnswer(ok) \/ TitleAnswer(ok)
  \/ \E s \in {"a", "b"} : TitleChanged(s) \/ NativeSession(s)
  \/ \E n \in Skills, replay, known \in BOOLEAN : Expand(n, replay, known)
  \/ \E synthetic \in BOOLEAN : SkillContext(synthetic)

Spec == Init /\ [][Next]_vars

-----------------------------------------------------------------------------
(* Safety. *)

TypeOK ==
  /\ phase \in {"idle", "opening", "initializing", "discovering", "running", "between", "finished"}
  /\ queued \subseteq Inputs /\ consumed \subseteq queued /\ Cardinality(queued) <= MaxInputs
  /\ tasks \cup agentTasks \cup foreground \cup children \subseteq Tools
  /\ Cardinality(tasks) <= MaxAgents /\ Cardinality(agentTasks) <= MaxAgents /\ Cardinality(children) <= MaxStreams
  /\ sessionState \in {"none", "idle", "running"} /\ session \in {"none", "a", "b"}
  /\ requested \cup pending \cup loads \subseteq Skills /\ pending \subseteq requested

\* A CLI that may be replaced runs no agent: neither one it reported, nor one a
\* CLI that tells nothing of its state went on with after its turn.
ReplacesNoWork == CanReconfigure => live = {}

\* Only the parent's own result ends its turn, whatever its agents and late
\* repetitions report; an input leaves the adapter only when the CLI has named
\* it; a turn that ends well with an answer has shown it; and a skill is said to
\* be loaded only when the CLI has expanded it in this very turn.
ReportStep ==
  /\ turns' # turns /\ {"finished", "failed"} \cap out' # {} => live' = live
  /\ turns' # turns /\ "finished" \in out' /\ last' # "" => shown \/ "text" \in out'
  /\ queued' \subseteq queued => queued \ queued' \subseteq named0
  /\ loads' \subseteq expanded' \cup loads /\ (loads' # loads => loads' \subseteq expanded')

\* The text of a message is shown once and whole: as it is streamed or when it
\* is complete, never both, and a stream is never taken up halfway, however the
\* messages of the parent and its agents interleave.
TextStep ==
  /\ \A t \in Tools :
       /\ t \in part /\ t \notin captured => t \notin captured'
       /\ ChildMessage(t) /\ Known(t) => ("childText" \in out' <=> t \notin captured)
  /\ (\E t \in Tools \cup {"none"} : Message(t)) => ("text" \in out' <=> "parent" \notin captured)

\* What carries them.  A CLI that says nothing of its state is believed to be idle
\* only while it has never used the tool; an agent that was told to go on in the
\* background is a task until it ends.
AgentsKept ==
  /\ live \subseteq used /\ used \subseteq Tools /\ foreground \cup agentTasks \cup children \subseteq used
  /\ (sessionState # "none" => reports) /\ (sessionState = "idle" \/ ~delegated => live = {})
  /\ live \cap agentTasks \subseteq tasks

\* A message of which the reader has no part is one it was full for, or one of an
\* agent it does not know.
TextsKept ==
  /\ captured \subseteq part /\ part \subseteq live \cup {"parent"}
  /\ \A t \in live : (t \in children <=> t \in captured) /\ (t \in part \ captured => overflow \/ ~Known(t))
  /\ "parent" \in part => phase = "running"
  /\ phase = "running" => (streamed <=> "parent" \in captured)

\* A turn that has begun to speak, what the CLI has named, what it has expanded.
TurnKept ==
  /\ turns \in Nat /\ consumed \subseteq named0
  /\ phase = "running" => (emitted => shown) /\ pending \cup loads \subseteq expanded
  /\ ~Ready => ~emitted /\ ~streamed /\ pending = {} /\ loads = {}
FlagsTyped == {overflow, streamed, emitted, shown, delegated} \subseteq BOOLEAN
ClaudeInv == FlagsTyped /\ AgentsKept /\ TextsKept /\ TurnKept
=============================================================================
