------------------------------ MODULE Subagents ------------------------------
(***************************************************************************)
(* The agents a session has started, as the store keeps them: one row per  *)
(* agent, found by the identity of the use of the tool, by the native one  *)
(* or by the one of the row.  The CLI is external: the messages about an   *)
(* agent name its tool, alone or with its native identity, or never do,    *)
(* and they come in any order.                                             *)
(***************************************************************************)
EXTENDS Naturals, FiniteSets

CONSTANTS
  Agents,
  Untold,        \* agents whose tool the CLI does not tell
  MaxEvents      \* bound on updates

SubagentsAssumption == Untold \subseteq Agents /\ MaxEvents \in Nat /\ "none" \notin Agents

Terminal == {"completed", "failed", "stopped"}
Reported == Terminal \cup {"running", "none"}
\* The identities of an agent: of its tool use, and its native one.
Tool(a) == <<"tool", a>>
Native(a) == <<"native", a>>
NoTool == <<"tool", "none">>

VARIABLES
  rows,          \* subagents: id, native, tool, status, started, at
  clock,
  seen,          \* ghost: agents the CLI has named
  finals         \* ghost: what was confirmed of each agent

vars == <<rows, clock, seen, finals>>
Init == rows = {} /\ clock = 0 /\ seen = {} /\ finals = [a \in Agents |-> "none"]

Active(status) == status = "running"

\* The latest row that matches.  (Fault: only the identity of the row counts.)
MatchesId(r, id, tool) == r.id = id
MatchesAny(r, id, tool) == r.id = id \/ r.native = id \/ (tool # NoTool /\ r.tool = tool)
Matches(r, id, tool) == MatchesAny(r, id, tool)
Latest(S) == {r \in S : \A o \in S : o.at <= r.at}

Fresh(id, tool) == [id |-> id, native |-> id, tool |-> tool, status |-> "unknown", started |-> FALSE, at |-> 0]

\* Progress that comes late does not resurrect a task whose end is confirmed.
\* (Fault: the last message wins.)
StatusLast(old, new) == new
StatusKept(old, new) == IF Active(old) \/ old = "unknown" \/ ~Active(new) THEN new ELSE old
StatusAfter(old, new) == StatusKept(old, new)

Updated(task, id, tool, status) ==
  [id |-> task.id, native |-> id, tool |-> IF tool = NoTool THEN task.tool ELSE tool,
   status |-> IF status = "none" THEN task.status ELSE StatusAfter(task.status, status),
   started |-> task.started \/ Active(status), at |-> clock + 1]

Event(id, tool, status) ==
  LET found == Latest({r \in rows : Matches(r, id, tool)})
      task == IF found = {} THEN Fresh(id, tool) ELSE CHOOSE r \in found : TRUE
  IN /\ rows' = {r \in rows : r.id # task.id} \cup {Updated(task, id, tool, status)}
     /\ clock' = clock + 1

\* A message of the CLI about an agent.
Message(a, id, status) ==
  /\ clock < MaxEvents /\ id \in {Tool(a), Native(a)} /\ (a \in Untold => id = Native(a))
  /\ Event(id, IF a \in Untold THEN NoTool ELSE Tool(a), status)
  /\ seen' = seen \cup {a} /\ finals' = [finals EXCEPT ![a] = IF status \in Terminal THEN status ELSE @]

\* end_subagents: the session closes, its CLI dies, or the daemon is restarted.
EndSubagents(status) ==
  /\ \E r \in rows : Active(r.status)
  /\ rows' = {IF Active(r.status) THEN [Updated(r, r.native, r.tool, status) EXCEPT !.at = clock] ELSE r : r \in rows}
  /\ UNCHANGED <<clock, seen, finals>>

Next ==
  \/ \E a \in Agents, status \in Reported : \E id \in {Tool(a), Native(a)} : Message(a, id, status)
  \/ \E status \in {"stopped", "unknown"} : EndSubagents(status)

Spec == Init /\ [][Next]_vars

Of(a) == {r \in rows : r.id \in {Tool(a), Native(a)} \/ r.native \in {Tool(a), Native(a)} \/ r.tool = Tool(a)}

\* An agent is one row, whatever identity its messages carry and in whatever
\* order they come; its output, which is joined by the tool, finds that row;
\* and what was confirmed of its end is not undone by a late message.
OneRowEach ==
  /\ \A a \in Agents : Cardinality(Of(a)) = (IF a \in seen THEN 1 ELSE 0)
  /\ \A a \in Agents : \A r \in Of(a) : (a \notin Untold => r.tool = Tool(a)) /\ (finals[a] # "none" => ~Active(r.status))

-----------------------------------------------------------------------------
(* Why it is so: an inductive invariant. *)

RowShape(r) ==
  /\ r.at \in Nat /\ r.started \in BOOLEAN /\ r.status \in Terminal \cup {"running", "unknown"}
  /\ r = [id |-> r.id, native |-> r.native, tool |-> r.tool, status |-> r.status, started |-> r.started, at |-> r.at]

\* The row of an agent carries identities of that agent only.
Own(r, a) ==
  IF a \in Untold THEN r.id = Native(a) /\ r.native = Native(a) /\ r.tool = NoTool
  ELSE {r.id, r.native} \subseteq {Tool(a), Native(a)} /\ r.tool = Tool(a)

RowsKept ==
  /\ clock \in Nat /\ seen \subseteq Agents /\ finals \in [Agents -> Terminal \cup {"none"}]
  /\ \A r \in rows : RowShape(r) /\ \E a \in seen : Own(r, a)
  /\ \A a \in seen : \E r \in rows : Own(r, a) /\ \A o \in rows : Own(o, a) => o = r
  /\ \A a \in Agents : finals[a] # "none" => a \in seen /\ \A r \in rows : Own(r, a) => r.status \in Terminal
=============================================================================
