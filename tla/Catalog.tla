------------------------------- MODULE Catalog -------------------------------
(***************************************************************************)
(* What a host keeps of projects and sessions besides their histories:     *)
(* which projects are shown, which sessions are archived, pinned and       *)
(* recent; and an App that reads the recent sessions page by page while     *)
(* other Apps and Agents change all of it.                                 *)
(***************************************************************************)
EXTENDS Naturals, Sequences, FiniteSets, SequencesExt

CONSTANTS
  Projects,
  Sessions,      \* natural numbers: their order is that of the ids
  MaxPins,       \* 100 in the code
  PageSize,      \* 100
  MaxTime        \* bound: ticks of the clock

CatalogAssumption ==
  Sessions \subseteq Nat /\ MaxPins \in Nat /\ PageSize \in Nat \ {0} /\ MaxTime \in Nat \ {0}

VARIABLES
  project,       \* "none", "shown" or "hidden"
  session,       \* of the sessions there are: project, last activity, archived, pinned, busy
  now,
  list, cursor, reading,  \* what the App has read, where it goes on, is it at it?
  quiet          \* ghost: the sessions that were recent all along and had no activity

vars == <<project, session, now, list, cursor, reading, quiet>>

Start == [at |-> MaxTime + 1, id |-> 0]
End == [at |-> 0, id |-> 0]

Init ==
  /\ project = [p \in Projects |-> "none"] /\ session = [s \in {} |-> 0] /\ now = 1
  /\ list = <<>> /\ cursor = Start /\ reading = FALSE /\ quiet = {}

Set(s, field, value) == session' = [session EXCEPT ![s][field] = value]
Reader == <<list, cursor, reading>>

Tick == now < MaxTime /\ now' = now + 1 /\ UNCHANGED <<project, session, Reader>>

-----------------------------------------------------------------------------
(* Projects. *)

\* add_named_project: the same directory is the same project again.
AddProject(p) ==
  /\ project[p] # "shown" /\ project' = [project EXCEPT ![p] = "shown"]
  /\ UNCHANGED <<session, now, Reader>>
RemoveProject(p) ==
  /\ project[p] = "shown" /\ \A s \in DOMAIN session : session[s].project = p => ~session[s].busy
  /\ project' = [project EXCEPT ![p] = "hidden"]
  /\ UNCHANGED <<session, now, Reader>>

-----------------------------------------------------------------------------
(* Sessions. *)

Visible(s) == ~session[s].archived /\ project[session[s].project] # "hidden"
Recent == {s \in DOMAIN session : Visible(s)}

Create(s, p) ==
  /\ s \notin DOMAIN session /\ project[p] # "none"
  /\ session' = [t \in DOMAIN session \cup {s} |->
                   IF t = s THEN [project |-> p, at |-> now, archived |-> FALSE, pinned |-> FALSE, busy |-> FALSE] ELSE session[t]]
  /\ UNCHANGED <<project, now, Reader>>

\* A hidden project still accepts messages for its sessions.
Begin(s) ==
  /\ ~session[s].busy /\ ~session[s].archived
  /\ session' = [session EXCEPT ![s].busy = TRUE, ![s].at = now]
  /\ UNCHANGED <<project, now, Reader>>
\* Text, tools, approvals and subagents count as activity; states do not.
Activity(s) == session[s].busy /\ Set(s, "at", now) /\ UNCHANGED <<project, now, Reader>>
Settle(s) == session[s].busy /\ Set(s, "busy", FALSE) /\ UNCHANGED <<project, now, Reader>>

Pinned == {s \in Recent : session[s].pinned}
\* pinned_sessions returns at most MaxPins.
AtMost(n) == IF n < MaxPins THEN n ELSE MaxPins
Pin(s) ==
  /\ ~session[s].archived
  /\ session[s].pinned \/ AtMost(Cardinality(Pinned)) < MaxPins
  /\ Set(s, "pinned", TRUE) /\ UNCHANGED <<project, now, Reader>>
Unpin(s) == Set(s, "pinned", FALSE) /\ UNCHANGED <<project, now, Reader>>

Archive(s) ==
  /\ ~session[s].busy /\ session' = [session EXCEPT ![s].archived = TRUE, ![s].pinned = FALSE]
  /\ UNCHANGED <<project, now, Reader>>
Restore(s) == Set(s, "archived", FALSE) /\ UNCHANGED <<project, now, Reader>>

-----------------------------------------------------------------------------
(* Recent sessions: recent_sessions and useRecentSessions. *)

\* The latest activity first, then the highest id.  (Fault: sessions of the same
\* time as the last one of a page are passed over.)
BelowTime(s, c) == session[s].at < c.at
BelowBoth(s, c) == session[s].at < c.at \/ (session[s].at = c.at /\ s < c.id)
Below(s, c) == BelowBoth(s, c)

Cursor(s) == [at |-> session[s].at, id |-> s]
InOrder(ss, f) ==
  /\ \A s \in ss : \E n \in DOMAIN f : f[n] = s
  /\ \A m, n \in DOMAIN f : m < n => BelowBoth(f[n], Cursor(f[m]))
Ordered(ss) == CHOOSE f \in [1 .. Cardinality(ss) -> ss] : InOrder(ss, f)
After(c) == Ordered({s \in Recent : Below(s, c)})
Page(c) == SubSeq(After(c), 1, IF Len(After(c)) < PageSize THEN Len(After(c)) ELSE PageSize)

\* The first page, then the next ones; the list is shown when it has all it asked for.
ReadFirst == ~reading /\ reading' = TRUE /\ list' = <<>> /\ cursor' = Start /\ UNCHANGED <<project, session, now>>
ReadPage ==
  /\ reading /\ cursor # End
  /\ list' = list \o Page(cursor)
  /\ cursor' = IF Len(After(cursor)) > PageSize THEN Cursor(Last(Page(cursor))) ELSE End
  /\ UNCHANGED <<project, session, now, reading>>
ReadEnds == reading /\ cursor # Start /\ reading' = FALSE /\ UNCHANGED <<project, session, now, list, cursor>>

-----------------------------------------------------------------------------
Steps ==
  \/ Tick
  \/ \E p \in Projects : AddProject(p) \/ RemoveProject(p) \/ \E s \in Sessions : Create(s, p)
  \/ \E s \in DOMAIN session :
       Begin(s) \/ Activity(s) \/ Settle(s) \/ Pin(s) \/ Unpin(s) \/ Archive(s) \/ Restore(s)
  \/ ReadPage \/ ReadEnds

Still == {s \in quiet : session'[s].at = session[s].at /\ ~session'[s].archived /\ project'[session[s].project] # "hidden"}

Next ==
  \/ Steps /\ quiet' = Still
  \/ ReadFirst /\ quiet' = Recent

Spec == Init /\ [][Next]_vars

-----------------------------------------------------------------------------
(* Safety. *)

TypeOK ==
  /\ project \in [Projects -> {"none", "shown", "hidden"}] /\ DOMAIN session \subseteq Sessions
  /\ \A s \in DOMAIN session :
       /\ project[session[s].project] # "none" /\ session[s].at \in 1 .. now
       /\ session[s].archived => (~session[s].busy /\ ~session[s].pinned)

\* Read page by page while sessions come, go and move to the front, the recent
\* sessions name none twice and leave out none that stayed where it was.
RecentExact ==
  /\ IsInjective(list)
  /\ \A s \in quiet : s \in ToSet(list) \/ BelowBoth(s, cursor)

\* "The pinned-session endpoint ... caps pins at 100 per host": the code does
\* not keep this, as the pins of a removed project come back with it.
PinCap == Cardinality(Pinned) <= MaxPins

-----------------------------------------------------------------------------
(* Why it is so: an inductive invariant. *)

SessionShape == [project : Projects, at : Nat, archived : BOOLEAN, pinned : BOOLEAN, busy : BOOLEAN]

\* What has been read is not below the place to go on from, and what has not
\* been read and was quiet is.
ReadTrue ==
  /\ list \in Seq(DOMAIN session) /\ cursor \in [at : Nat, id : Nat]
  /\ IsInjective(list) /\ \A n \in DOMAIN list : ~BelowBoth(list[n], cursor)
  /\ quiet \subseteq Recent /\ \A s \in quiet : s \in ToSet(list) \/ BelowBoth(s, cursor)

CatalogKept ==
  /\ TypeOK /\ now \in 1 .. MaxTime
  /\ IsFiniteSet(DOMAIN session) /\ session \in [DOMAIN session -> SessionShape]
  /\ ReadTrue
=============================================================================
