---------------------------- MODULE ChildHistory ----------------------------
(***************************************************************************)
(* The history of one child agent: its native file, which it appends to;   *)
(* the index the store keeps of it, page by page, with a cursor; the       *)
(* stream of what its CLI said; and a view that pages through what is      *)
(* indexed.  A record is a text, a handback, or the result of a handback   *)
(* (done, failed); the report of a handback is shown once it is done.      *)
(***************************************************************************)
EXTENDS Naturals, Sequences, FiniteSets

CONSTANTS
  MaxRecords,    \* bound: records of the child
  PageRows       \* 128 in the code

HistoryAssumption == MaxRecords \in Nat /\ PageRows \in Nat \ {0}

Kinds == {"text", "hand", "done", "failed"}
Readers == {"capture", "view"}      \* the end of the child, and who looks at it

VARIABLES
  file, tail,    \* complete records, and whether an unfinished one follows
  live, over,    \* does the CLI run, and has the child ended?
  rows, cursor,  \* subagent_history (native) and subagent_history_sources
  stream,        \* subagent_history (stream)
  job,           \* what each reader is doing
  more,          \* what the view was told of its source
  seen, after, source, incomplete, settled   \* the view

native == <<file, tail, live, over>>
store  == <<rows, cursor, stream>>
view   == <<seen, after, source, incomplete, settled>>
vars   == <<native, store, job, more, view>>

NoCursor == [known |-> FALSE, offset |-> 0, pending |-> FALSE, more |-> FALSE, tail |-> FALSE]
NoJob == [step |-> "none"]

Init ==
  /\ file = <<>> /\ tail = FALSE /\ live = TRUE /\ over = FALSE
  /\ rows = {} /\ cursor = NoCursor /\ stream = {} /\ job = [r \in Readers |-> NoJob] /\ more = FALSE
  /\ seen = {} /\ after = 0 /\ source = "none" /\ incomplete = FALSE /\ settled = FALSE

Event(seq, kind) == [seq |-> seq, kind |-> kind]

-----------------------------------------------------------------------------
(* The child. *)

\* subagent_event: the report follows the result that confirms it.
Streamed(kind) ==
  LET next == Cardinality(stream) + 1
      told == \E e \in stream : e.kind = "hand"
  IN stream \cup {Event(next, kind)} \cup (IF kind = "done" /\ told THEN {Event(next + 1, "report")} ELSE {})

Write(kind, streams) ==
  /\ live /\ ~over /\ Len(file) < MaxRecords /\ file' = Append(file, kind) /\ tail' = FALSE
  /\ stream' = IF streams THEN Streamed(kind) ELSE stream
  /\ UNCHANGED <<live, over, rows, cursor, job, more, view>>

BeginWrite ==
  /\ live /\ ~over /\ Len(file) < MaxRecords /\ ~tail /\ tail' = TRUE
  /\ UNCHANGED <<file, live, over, store, job, more, view>>

ChildEnds == live /\ ~over /\ over' = TRUE /\ UNCHANGED <<file, tail, live, store, job, more, view>>

\* The children of a CLI that goes away are marked as ended.
Dies == live /\ live' = FALSE /\ over' = TRUE /\ UNCHANGED <<file, tail, store, job, more, view>>

-----------------------------------------------------------------------------
(* A reader takes the cursor, reads whole records, and stores them. *)

\* The owner of the CLI always reads; without it only a capture that is
\* unfinished or has never begun is taken up.
Unfinished == ~cursor.known \/ cursor.more
MayRead == live \/ Unfinished

Load(r) ==
  /\ job[r].step = "none" /\ MayRead /\ (r = "capture" => over)
  /\ job' = [job EXCEPT ![r] = [step |-> "loaded", from |-> cursor]]
  /\ UNCHANGED <<native, store, more, view>>

\* Pending handbacks are part of the cursor, so that a result on a later page
\* finds its own.  (Fault: a page knows only its own handbacks.)
CarriedNot(from) == FALSE
CarriedOver(from) == from.pending
Carried(from) == CarriedOver(from)

\* Is a handback waiting for its result after record n?
PendingAfter(from, n) ==
  \E j \in from.offset .. n :
     /\ IF j = from.offset THEN Carried(from) ELSE file[j] = "hand"
     /\ \A k \in (j + 1) .. n : file[k] \notin {"done", "failed"}

PageOf(from, to) ==
  LET is == (from.offset + 1) .. to
  IN {Event(2 * i, file[i]) : i \in is}
     \cup {Event(2 * i + 1, "report") : i \in {k \in is : file[k] = "done" /\ PendingAfter(from, k - 1)}}

Read(r) ==
  /\ job[r].step = "loaded"
  /\ LET from == job[r].from IN
     \E to \in from.offset .. Len(file) :
       /\ to > from.offset \/ to = Len(file)
       /\ LET ends == to = Len(file) /\ tail IN
          job' = [job EXCEPT ![r] =
             [step |-> "read", page |-> PageOf(from, to),
              to |-> [known |-> TRUE, offset |-> to, pending |-> PendingAfter(from, to),
                      more |-> ~ends /\ (to < Len(file) \/ tail), tail |-> ends]]]
  /\ UNCHANGED <<native, store, more, view>>

\* A capture cannot regress a newer cursor.  (Fault: the last one wins.)
NewerAny(to) == TRUE
NewerOnly(to) == cursor.offset <= to.offset
Newer(to) == NewerOnly(to)

Store(r) ==
  /\ job[r].step = "read"
  /\ rows' = rows \cup {e \in job[r].page : \A old \in rows : old.seq # e.seq}
  /\ cursor' = IF ~cursor.known \/ Newer(job[r].to) THEN job[r].to ELSE cursor
  /\ more' = IF r = "view" THEN job[r].to.more ELSE more
  /\ job' = [job EXCEPT ![r] = IF r = "view" THEN [step |-> "answer"] ELSE NoJob]
  /\ UNCHANGED <<native, stream, view>>

\* The deadline of three seconds, or a failed read.
Drop(r) ==
  /\ job[r].step \in {"loaded", "read"} /\ job' = [job EXCEPT ![r] = NoJob]
  /\ UNCHANGED <<native, store, more, view>>

-----------------------------------------------------------------------------
(* The view asks for the next page. *)

Least(S, n) == {e \in S : Cardinality({d \in S : d.seq <= e.seq}) <= n}
HasNative == cursor.known /\ rows # {}
SourceNow == IF HasNative THEN "native" ELSE IF stream # {} THEN "stream" ELSE "legacy"
RowsOf(s) == CASE s = "native" -> rows [] s = "stream" -> stream [] OTHER -> {}

\* The cursor counts only within the source it belongs to.
\* (Fault: it is used across them.)
AfterAny(s) == after
AfterOfSource(s) == IF source = s THEN after ELSE 0
AfterIn(s) == AfterOfSource(s)

Answer(told) ==
  LET s == SourceNow
      from == AfterIn(s)
      left == {e \in RowsOf(s) : e.seq > from}
      page == Least(left, PageRows)
  IN
  /\ source' = s /\ settled' = ~live
  /\ seen' = (IF source = s THEN seen ELSE {}) \cup page
  /\ after' = IF page = {} THEN from ELSE CHOOSE n \in {e.seq : e \in page} : \A e \in page : e.seq <= n
  /\ incomplete' = (s = "native" /\ ((cursor.more /\ ~told) \/ (cursor.tail /\ over)))

\* Its request has read a page, or there was none to read.
ViewAnswered ==
  /\ job["view"].step = "answer" /\ Answer(more) /\ more' = FALSE /\ job' = [job EXCEPT !["view"] = NoJob]
  /\ UNCHANGED <<native, store>>

ViewCached ==
  /\ job["view"].step = "none" /\ ~MayRead /\ Answer(FALSE) /\ UNCHANGED <<native, store, job, more>>

Next ==
  \/ \E kind \in Kinds, streams \in BOOLEAN : Write(kind, streams)
  \/ BeginWrite \/ ChildEnds \/ Dies \/ ViewAnswered \/ ViewCached
  \/ \E r \in Readers : Load(r) \/ Read(r) \/ Store(r) \/ Drop(r)

Spec == Init /\ [][Next]_vars

-----------------------------------------------------------------------------
(* Safety. *)

TypeOK ==
  /\ file \in Seq(Kinds) /\ cursor.offset \in 0 .. Len(file) /\ DOMAIN job = Readers
  /\ source \in {"none", "legacy", "stream", "native"} /\ (live \/ over)

\* What the index must hold of the first n records: each once, and after a
\* confirmation the report it confirms, also when the handback was long before.
Reported(k) ==
  \E j \in 1 .. (k - 1) : file[j] = "hand" /\ \A i \in (j + 1) .. (k - 1) : file[i] \notin {"done", "failed"}
Reference(n) ==
  {Event(2 * i, file[i]) : i \in 1 .. n}
  \cup {Event(2 * i + 1, "report") : i \in {k \in 1 .. n : file[k] = "done" /\ Reported(k)}}

\* Whatever pages overlap, arrive late or are given up, the index holds exactly
\* the records before its cursor, none twice and no report lost at the edge of a
\* page; and the view holds a prefix of its source without a gap.
HistoryExact ==
  /\ rows = Reference(cursor.offset)
  /\ seen = {e \in RowsOf(source) : e.seq <= after}

\* A child that is over, of a CLI that is gone, and a view that has asked since
\* and has nothing more to read: everything the child recorded is shown, or the
\* view says that something is missing.
CompleteOrMarked ==
  settled /\ ~MayRead /\ (\A r \in Readers : job[r] = NoJob) /\ source = "native" /\ seen = rows =>
  incomplete \/ (rows = Reference(Len(file)) /\ ~tail)

-----------------------------------------------------------------------------
(* Why it is so: an inductive invariant. *)

\* A cursor knows whether a handback waits at its record.
CursorTrue(c) == c.offset \in 0 .. Len(file) /\ (c.pending <=> Reported(c.offset + 1))

\* A page is the part of the history between two cursors, and the first of them
\* is not ahead of the index.
JobTrue(j) ==
  \/ j.step \in {"none", "answer"}
  \/ j.step = "loaded" /\ CursorTrue(j.from) /\ j.from.offset <= cursor.offset
  \/ /\ j.step = "read" /\ CursorTrue(j.to) /\ j.to.known
     /\ \E from \in 0 .. j.to.offset :
          from <= cursor.offset /\ j.page = {e \in Reference(j.to.offset) : e.seq > 2 * from + 1}

\* The stream numbers what it holds, and a view has not read ahead of its source.
StreamNumbered == IsFiniteSet(stream) /\ \A e \in stream : e.seq \in 1 .. Cardinality(stream)
ViewBehind ==
  /\ after \in Nat
  /\ source = "native" => after <= 2 * cursor.offset + 1
  /\ source = "stream" => after <= Cardinality(stream)

HistoryKept ==
  /\ file \in Seq(Kinds) /\ live \in BOOLEAN /\ over \in BOOLEAN /\ (live \/ over)
  /\ source \in {"none", "legacy", "stream", "native"}
  /\ CursorTrue(cursor) /\ (~cursor.known => cursor.offset = 0)
  /\ job = [r \in Readers |-> job[r]] /\ \A r \in Readers : JobTrue(job[r])
  /\ StreamNumbered /\ ViewBehind
  /\ HistoryExact
=============================================================================
