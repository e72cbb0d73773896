------------------------------- MODULE Timeline -------------------------------
(***************************************************************************)
(* How a conversation is read.  The event log of a session only grows.  A  *)
(* window opens on its end: history answers pages backwards, each bounded   *)
(* by turns, rows, events and bytes, with the pieces of one text joined;    *)
(* from then on poll follows the log forwards, and the user may load what   *)
(* is earlier.                                                             *)
(***************************************************************************)
EXTENDS Naturals, Sequences, FiniteSets, SequencesExt

CONSTANTS
  Asks,          \* identities of approvals
  MaxLog,        \* bound: rows of the log
  PageTurns,     \* 2 in the code
  PageRows,      \* 16384
  PageEvents,    \* 128
  PageBytes,     \* 256 KiB, counted in units: see Size
  PollRows       \* 200, with a budget of bytes of the same kind

TimelineAssumption ==
  /\ MaxLog \in Nat
  /\ {PageTurns, PageRows, PageEvents, PageBytes, PollRows} \subseteq Nat \ {0}

\* Rows: the message of the user, a piece of text, the end of a turn, anything
\* else, and the approvals with their answers.
Row(kind, ask) == [kind |-> kind, ask |-> ask]
Plain == {Row(kind, "none") : kind \in {"user", "text", "ended", "other"}}

VARIABLES
  log,
  open,        \* ghost: approvals the CLI waits for
  live,        \* is a turn under way?
  step,        \* the window: "opening" while it still pages backwards, "open", or "shut"
  before,      \* where the next page backwards begins, 0 for nothing earlier
  cursor,      \* the last row it holds
  shown,       \* its events, each with the rows it was made of
  extended     \* has the user loaded anything earlier?

vars == <<log, open, live, step, before, cursor, shown, extended>>

\* A conversation is opened, or selected again, at any time.
Init ==
  /\ log = <<>> /\ open = {} /\ live = FALSE
  /\ step = "shut" /\ before = MaxLog + 1 /\ cursor = 0 /\ shown = {} /\ extended = FALSE

-----------------------------------------------------------------------------
(* The log. *)

Window == <<step, before, cursor, shown, extended>>
Write(row) == Len(log) < MaxLog /\ log' = Append(log, row) /\ UNCHANGED Window

Turn ==
  /\ live' = ~live /\ open' = {}
  /\ Write(Row(IF live THEN "ended" ELSE "user", "none"))
Work == live /\ \E kind \in {"text", "other"} : Write(Row(kind, "none")) /\ UNCHANGED <<open, live>>
AskUser(a) ==
  /\ live /\ \A i \in DOMAIN log : log[i].ask # a
  /\ Write(Row("ask", a)) /\ open' = open \cup {a} /\ UNCHANGED live
AnswerUser(a) == a \in open /\ Write(Row("answer", a)) /\ open' = open \ {a} /\ UNCHANGED live

-----------------------------------------------------------------------------
(* A page backwards. *)

\* One row more, from the newest to the oldest: it joins the event before it, or
\* it is one of its own, or the page is full.
Joins(page, i) == page.events # <<>> /\ log[i].kind = "text" /\ log[Last(page.events).seq].kind = "text"
Size(page, i) == IF Joins(page, i) THEN 1 ELSE 2

Full(page, i) ==
  \/ page.turns = PageTurns \/ page.rows = PageRows
  \/ ~Joins(page, i) /\ Len(page.events) = PageEvents
  \/ page.bytes + Size(page, i) > PageBytes /\ page.events # <<>>

Taken(page, i) ==
  IF Joins(page, i) THEN [page.events EXCEPT ![Len(page.events)].rows = @ \cup {i}]
  ELSE Append(page.events, [seq |-> i, rows |-> {i}])
Turns(i) == IF log[i].kind = "user" THEN 1 ELSE 0

TakeRow(page, i) ==
  IF page.more THEN page
  ELSE IF Full(page, i) THEN [page EXCEPT !.more = TRUE, !.split = Joins(page, i)]
  ELSE [page EXCEPT !.rows = @ + 1, !.bytes = @ + Size(page, i), !.turns = @ + Turns(i),
                    !.oldest = i, !.events = Taken(page, i)]

NoRows == [events |-> <<>>, rows |-> 0, bytes |-> 0, turns |-> 0, oldest |-> 0, more |-> FALSE, split |-> FALSE]
Page(from) ==
  LET taken[n \in 0 .. (from - 1)] == IF n = 0 THEN NoRows ELSE TakeRow(taken[n - 1], from - n)
  IN taken[from - 1]

\* An approval below a row that the live turn still waits for.
\* (Faults: none is looked for; only the last row is.)
PendingBelowNone(first) == FALSE
PendingBelow(first) ==
  \E i \in 1 .. (first - 1) :
    /\ log[i].kind = "ask"
    /\ \A j \in (i + 1) .. Len(log) :
         log[j].kind \notin {"user", "ended"} /\ ~(log[j].kind = "answer" /\ log[j].ask = log[i].ask)

\* (Fault: a text that was cut is not completed.)
NeedsEarlierPending(page) == page.more /\ PendingBelow(page.oldest)
NeedsEarlierBoth(page) == page.more /\ (page.split \/ PendingBelow(page.oldest))
NeedsEarlier(page) == NeedsEarlierBoth(page)

Below(from) == IF from > Len(log) + 1 THEN Len(log) + 1 ELSE from
Joined(page) == shown \cup Range(page.events)
LastSeq(events) == IF events = {} THEN 0 ELSE Max({e.seq : e \in events})

-----------------------------------------------------------------------------
(* The window. *)

Select ==
  /\ step = "shut" /\ step' = "opening" /\ before' = MaxLog + 1 /\ shown' = {} /\ cursor' = 0 /\ extended' = FALSE
  /\ UNCHANGED <<log, open, live>>

\* The first pages, until nothing makes an earlier one necessary.
History ==
  /\ step = "opening"
  /\ LET page == Page(Below(before)) IN
     /\ shown' = Joined(page) /\ before' = IF page.more THEN page.oldest ELSE 0
     /\ IF NeedsEarlier(page) THEN UNCHANGED <<step, cursor>>
        ELSE step' = "open" /\ cursor' = LastSeq(shown')
  /\ UNCHANGED <<log, open, live, extended>>

\* (Fault: rows that were seen count from the number of events.)
NextRowsCounted == {i \in DOMAIN log : i > Cardinality(shown) /\ i <= Cardinality(shown) + PollRows}
NextRowsAfter == {i \in DOMAIN log : i > cursor /\ i <= cursor + PollRows}
NextRows == NextRowsAfter

Poll ==
  /\ step = "open" /\ NextRows # {}
  /\ shown' = shown \cup {[seq |-> i, rows |-> {i}] : i \in NextRows}
  /\ cursor' = Max(NextRows)
  /\ UNCHANGED <<log, open, live, step, before, extended>>

LoadEarlier ==
  /\ step = "open" /\ before # 0
  /\ LET page == Page(before) IN
     shown' = Joined(page) /\ before' = IF page.more THEN page.oldest ELSE 0
  /\ extended' = TRUE
  /\ UNCHANGED <<log, open, live, step, cursor>>

Next ==
  \/ Turn \/ Work \/ \E a \in Asks : AskUser(a) \/ AnswerUser(a)
  \/ Select \/ History \/ Poll \/ LoadEarlier

Spec == Init /\ [][Next]_vars

-----------------------------------------------------------------------------
(* Safety. *)

TypeOK ==
  /\ log \in Seq(Plain \cup {Row(kind, a) : kind \in {"ask", "answer"}, a \in Asks}) /\ Len(log) <= MaxLog
  /\ open \subseteq Asks /\ live \in BOOLEAN /\ (~live => open = {})
  /\ step \in {"shut", "opening", "open"} /\ before \in 0 .. (MaxLog + 1) /\ cursor \in 0 .. Len(log)
  /\ \A e \in shown : e.seq = Max(e.rows) /\ e.rows \subseteq DOMAIN log

Held == UNION {e.rows : e \in shown}

\* The window holds every row from its first to its last exactly once, however
\* the log grew while it was read and wherever the pages were cut, and the
\* message it begins with is whole until the user asks for more.
ShownOnce ==
  /\ \A d, e \in shown : d # e => d.seq # e.seq /\ d.rows \cap e.rows = {}
  /\ step = "open" =>
       /\ Held = {i \in 1 .. cursor : i >= before}
       /\ ~extended /\ before > 1 => ~(log[before].kind = "text" /\ log[before - 1].kind = "text")

\* Whatever the CLI waits for can be answered: it is in the window, or follows
\* in the rows that are polled next.
AsksShown ==
  step = "open" => \A i \in DOMAIN log : log[i].kind = "ask" /\ log[i].ask \in open => i \in Held \/ i > cursor

-----------------------------------------------------------------------------
(* Why it is so: an inductive invariant. *)

Events == [seq : Nat, rows : SUBSET Nat]

\* The CLI waits for an approval only if nothing after it has ended the wait.
WaitsTrue ==
  \A i, j \in DOMAIN log : (i < j /\ log[i].kind = "ask" /\ log[i].ask \in open)
    => log[j].kind \notin {"user", "ended"} /\ ~(log[j].kind = "answer" /\ log[j].ask = log[i].ask)

\* Events of a window: each is named for the newest row it was made of, and no
\* two have a row in common.
EventsTrue(events) ==
  /\ events \subseteq Events
  /\ \A e \in events : e.seq \in e.rows /\ (\A i \in e.rows : i <= e.seq) /\ e.rows \subseteq DOMAIN log
  /\ \A d, e \in events : d # e => d.rows \cap e.rows = {}

\* A window that pages backwards holds what it has read up to now; one that is
\* open, what lies between where it goes on backwards and forwards.
WindowTrue ==
  /\ step = "opening" =>
       \/ shown = {} /\ before = MaxLog + 1
       \/ \E top \in DOMAIN log : before \in 2 .. top /\ Held = before .. top
  /\ step = "open" =>
       /\ before \in {0} \cup (2 .. cursor) /\ Held = {i \in 1 .. cursor : i >= before}
       /\ ~extended /\ before > 1 => ~(log[before].kind = "text" /\ log[before - 1].kind = "text")
       /\ \A i \in DOMAIN log : (i < before /\ log[i].kind = "ask") => log[i].ask \notin open

TimelineKept == TypeOK /\ WaitsTrue /\ EventsTrue(shown) /\ WindowTrue
=============================================================================
