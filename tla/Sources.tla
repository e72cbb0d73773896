------------------------------- MODULE Sources -------------------------------
(***************************************************************************)
(* The sources of a task, told from its messages and tools: the index that  *)
(* the store keeps while it appends events, that live tools go to directly, *)
(* and that is caught up whenever the sources are listed; and the paths     *)
(* outside the project that may be previewed.                              *)
(***************************************************************************)
EXTENDS Naturals, Sequences, FiniteSets

CONSTANTS
  Calls,         \* ids of tool calls
  Connectors,    \* what tools belong to
  Files,         \* what messages refer to, and what may be previewed
  Old,           \* events of a version without an index
  Window,        \* 256 in the code
  MaxSources,    \* 512
  MaxGrants,     \* 512
  MaxEvents      \* bound

SourceAssumption == {Window, MaxSources, MaxGrants, MaxEvents} \subseteq Nat /\ Old \in Seq([call : Calls, source : Connectors])

VARIABLES
  events,        \* those that name sources: tools, and messages with files
  observed,      \* tool calls counted
  uses,          \* source -> how often a tool of it was used; files are never counted
  used,          \* ghost: tool call -> its source when it was first told
  grants,        \* paths recorded
  link           \* what a path that is an alias leads to now, or "gone"

vars == <<events, observed, uses, used, grants, link>>

Init ==
  /\ events = Old /\ observed = {} /\ uses = [s \in {} |-> 0] /\ used = [c \in {} |-> 0]
  /\ grants = {} /\ link \in Files

Index == <<observed, uses>>

\* index_source: a source known already adds up; there is room for so many.
AddTo(u, source, n) ==
  IF source \in DOMAIN u THEN [u EXCEPT ![source] = @ + n]
  ELSE IF Cardinality(DOMAIN u) >= MaxSources THEN u
  ELSE [s \in DOMAIN u \cup {source} |-> IF s = source THEN n ELSE u[s]]

\* index_tool: each call counts once.  (Fault: whenever it is told.)
CountsAlways(i, call) == TRUE
CountsOnce(i, call) == call \notin i[1]
Counts(i, call) == CountsOnce(i, call)

IndexCall(i, call, source) ==
  IF Counts(i, call) THEN <<i[1] \cup {call}, AddTo(i[2], source, 1)>> ELSE i

\* index_event
IndexEvent(i, e) ==
  IF "call" \in DOMAIN e THEN IndexCall(i, e.call, e.source) ELSE <<i[1], AddTo(i[2], e.file, 0)>>

Told(call, source) ==
  used' = [c \in DOMAIN used \cup {call} |-> IF c \in DOMAIN used THEN used[c] ELSE source]

\* An event is appended and indexed in one transaction.
Tool(call, source) ==
  /\ Len(events) < MaxEvents /\ events' = Append(events, [call |-> call, source |-> source])
  /\ LET i == IndexCall(Index, call, source) IN observed' = i[1] /\ uses' = i[2]
  /\ Told(call, source) /\ UNCHANGED <<grants, link>>
Message(file) ==
  /\ Len(events) < MaxEvents /\ events' = Append(events, [file |-> file])
  /\ uses' = AddTo(uses, file, 0)
  /\ UNCHANGED <<observed, used, grants, link>>

\* The adapter tells a tool of a child, which has no event.
Observe(call, source) ==
  /\ LET i == IndexCall(Index, call, source) IN observed' = i[1] /\ uses' = i[2]
  /\ Told(call, source) /\ UNCHANGED <<events, grants, link>>

\* sources: the latest events are indexed once more, then the index is listed.
Recent == SubSeq(events, IF Len(events) > Window THEN Len(events) - Window + 1 ELSE 1, Len(events))

\* The index after the first n of some events more.
Indexed(i, new) ==
  LET after[n \in 0 .. Len(new)] == IF n = 0 THEN i ELSE IndexEvent(after[n - 1], new[n])
  IN after[Len(new)]

\* The source of a call is the one it is first told with.
TellsCall(e, c) == "call" \in DOMAIN e /\ e.call = c
FirstOf(new, c) == CHOOSE n \in DOMAIN new : TellsCall(new[n], c) /\ \A m \in DOMAIN new : TellsCall(new[m], c) => n <= m
List ==
  /\ LET i == Indexed(Index, Recent) IN observed' = i[1] /\ uses' = i[2]
  /\ LET new == {Recent[n].call : n \in {n \in DOMAIN Recent : "call" \in DOMAIN Recent[n]}}
     IN used' = [c \in DOMAIN used \cup new |-> IF c \in DOMAIN used THEN used[c] ELSE Recent[FirstOf(Recent, c)].source]
  /\ UNCHANGED <<events, grants, link>>

-----------------------------------------------------------------------------
(* What may be previewed: paths are recorded as what they lead to. *)

Links(file) == link' = file /\ UNCHANGED <<events, observed, uses, used, grants>>
Goes == link' = "gone" /\ UNCHANGED <<events, observed, uses, used, grants>>

Grant(file) ==
  /\ Cardinality(grants) < MaxGrants \/ file \in grants
  /\ grants' = grants \cup {file} /\ UNCHANGED <<events, observed, uses, used, link>>
\* The path as it was recorded goes even when the file has gone; any other path
\* is first followed.
Revoke(file) == grants' = grants \ {file} /\ UNCHANGED <<events, observed, uses, used, link>>
RevokeAlias == grants' = grants \ {link} /\ UNCHANGED <<events, observed, uses, used, link>>

Next ==
  \/ \E c \in Calls, s \in Connectors : Tool(c, s) \/ Observe(c, s)
  \/ \E f \in Files : Message(f) \/ Links(f) \/ Grant(f) \/ Revoke(f)
  \/ List \/ Goes \/ RevokeAlias

Spec == Init /\ [][Next]_vars

-----------------------------------------------------------------------------
(* Safety. *)

TypeOK ==
  /\ observed \subseteq Calls /\ DOMAIN uses \subseteq Connectors \cup Files /\ Cardinality(DOMAIN uses) <= MaxSources
  /\ grants \subseteq Files /\ Cardinality(grants) <= MaxGrants

\* A tool call counts once, however often and wherever it is told: as an event,
\* by the adapter, again by an Agent that repeats itself, and by every listing.
UsesExact ==
  \A s \in DOMAIN uses : s \in Connectors =>
    uses[s] = Cardinality({c \in DOMAIN used : used[c] = s})

-----------------------------------------------------------------------------
(* Why it is so: an inductive invariant. *)

ToolEvents == [call : Calls, source : Connectors]
FileEvents == [file : Files]

\* What is counted is what was told, and a source that has no place in an index
\* with room for it has not been used.
IndexTrue(seen, counts, told) ==
  /\ IsFiniteSet(seen) /\ DOMAIN told = seen /\ seen \subseteq Calls /\ told = [c \in seen |-> told[c]]
  /\ IsFiniteSet(DOMAIN counts) /\ counts \in [DOMAIN counts -> Nat] /\ DOMAIN counts \subseteq Connectors \cup Files
  /\ Cardinality(DOMAIN counts) <= MaxSources
  /\ \A s \in DOMAIN counts : s \in Connectors => counts[s] = Cardinality({c \in seen : told[c] = s})
  /\ Cardinality(DOMAIN counts) < MaxSources => \A c \in seen : told[c] \in DOMAIN counts

SourcesKept ==
  /\ events \in Seq(ToolEvents \cup FileEvents) /\ link \in Files \cup {"gone"}
  /\ IsFiniteSet(grants) /\ grants \subseteq Files /\ Cardinality(grants) <= MaxGrants
  /\ IndexTrue(observed, uses, used)
=============================================================================
