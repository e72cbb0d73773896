---------------------------- MODULE ChildSnapshot ----------------------------
(***************************************************************************)
(* The bounded snapshot of a child agent: what parse_child_transcript makes*)
(* of the tail of its native file, and what normalize_child_transcript     *)
(* makes of a snapshot, of this version or of an older one that knew no    *)
(* reports.  An event is a text, the handback of a report, or its result.  *)
(***************************************************************************)
EXTENDS Naturals, SequencesExt

CONSTANTS
  MaxBlocks,     \* bound: blocks of the log
  MaxEvents      \* 500 in the code; the 256 KiB are a second bound of this kind

SnapshotAssumption == MaxBlocks \in Nat /\ MaxEvents \in Nat \ {0}

\* Blocks: prose, prose that repeats the beginning of the report, a handback
\* (short, or so long that its fields are clipped), and its result.
Blocks == {"prose", "part1", "hand", "long", "done", "failed"}
VARIABLE log
Init == log = <<>>
Next == Len(log) < MaxBlocks /\ \E b \in Blocks : log' = Append(log, b)
Spec == Init /\ [][Next]_log

\* report_events cuts a report into pieces.
ReportEvents == <<"part1", "part2">>

\* The fields of a long handback become one clipped string.
Bounded(b) == IF b = "long" THEN "clipped" ELSE b

\* After each block the oldest events go until the window is kept.
Keep(events) == IF Len(events) > MaxEvents THEN SubSeq(events, Len(events) - MaxEvents + 1, Len(events)) ELSE events

\* Only a result that confirms the delivery promotes the report.
Promote(acc, b) == IF b = "done" /\ acc.pending THEN ReportEvents ELSE <<>>
PendingNow(acc, b) == IF b \in {"hand", "long"} THEN TRUE ELSE IF b \in {"done", "failed"} THEN FALSE ELSE acc.pending

ParseBlock(acc, b) ==
  [pending |-> PendingNow(acc, b), events |-> Keep(acc.events \o <<Bounded(b)>> \o Promote(acc, b))]
Nothing == [pending |-> FALSE, events |-> <<>>]
Parse(blocks) ==
  LET after[n \in 0 .. Len(blocks)] == IF n = 0 THEN Nothing ELSE ParseBlock(after[n - 1], blocks[n])
  IN after[Len(blocks)].events

\* A snapshot of an older version holds no reports.
OlderBlock(acc, b) == Keep(acc \o <<Bounded(b)>>)
Older(blocks) ==
  LET after[n \in 0 .. Len(blocks)] == IF n = 0 THEN <<>> ELSE OlderBlock(after[n - 1], blocks[n])
  IN after[Len(blocks)]

\* A report that already follows is not added again.  (Fault: any text that
\* follows is taken for it.)
PresentText(following) == following # <<>> /\ Head(following) \in {"prose", "part1"}
PresentExactly(following) == IsPrefix(ReportEvents, following)
AlreadyPresent(following) == PresentExactly(following)

NormalizeBlock(events, acc, i) ==
  LET b == events[i]
      report == IF AlreadyPresent(SubSeq(events, i + 1, Len(events))) THEN <<>> ELSE Promote(acc, b)
  IN [pending |-> PendingNow(acc, b), events |-> Keep(acc.events \o <<b>> \o report)]
Normalize(events) ==
  LET after[n \in 0 .. Len(events)] == IF n = 0 THEN Nothing ELSE NormalizeBlock(events, after[n - 1], n)
  IN after[Len(events)].events

\* A snapshot that has been parsed or normalized is left as it is, and an older
\* one comes to hold the report of every confirmed handback it still shows.
NormalizeSettles ==
  /\ Normalize(Parse(log)) = Parse(log)
  /\ Normalize(Normalize(Older(log))) = Normalize(Older(log))
  /\ Len(log) * 2 <= MaxEvents => \A i, j \in DOMAIN log :
       i < j /\ log[i] = "hand" /\ log[j] = "done" /\ (\A k \in (i + 1) .. (j - 1) : log[k] \notin {"done", "failed", "hand", "long"})
         => LET shown == Normalize(Older(log))
            IN \E n \in 1 .. (Len(shown) - 2) : SubSeq(shown, n, n + 2) = <<"done">> \o ReportEvents
=============================================================================
