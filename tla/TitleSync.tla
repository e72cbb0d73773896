------------------------------ MODULE TitleSync ------------------------------
(***************************************************************************)
(* The title of a session has three homes: the store, the memory of its    *)
(* CLI, and the log the CLI keeps.  The user renames it here, with or      *)
(* without a CLI, or in the CLI itself; the CLI makes titles up; and every *)
(* answer that lists sessions refreshes titles from the logs, whose index   *)
(* is read without any lock on the session.                                *)
(***************************************************************************)
EXTENDS Naturals, Sequences

CONSTANTS
  MaxTitles,     \* bound: titles that are given; each is a new one
  MaxRefreshes   \* bound: refreshes

TitleAssumption == MaxTitles \in Nat /\ MaxRefreshes \in Nat

Titles == 0 .. MaxTitles
Title(t, custom) == [title |-> t, custom |-> custom]
NoTitle == Title(0, FALSE)

VARIABLES
  next,        \* ghost: titles are numbered in the order they are asked for
  db,          \* title and custom_title of the session
  native,      \* native_id, which changes when the CLI begins a new log
  file,        \* the titles in the log
  partial,     \* is its last line unfinished?
  lag,         \* titles the CLI has told and not written yet
  live,        \* has the session a CLI?
  index,       \* TitleIndex: how far the log was scanned, and the last titles of each kind
  refresh,     \* refresh_titles
  offline,     \* rename_saved_session
  told,        \* a rename sent to the CLI, 0 for none
  refreshes,
  confirmed    \* ghost: the rename the user was last told of, or one asked for before that
               \* was still under way

vars == <<next, db, native, file, partial, lag, live, index, refresh, offline, told, refreshes, confirmed>>

NewIndex == [offset |-> 0, custom |-> NoTitle, generated |-> NoTitle]
NoJob == [step |-> "none"]

Init ==
  /\ next = 0 /\ db = NoTitle /\ native = 1 /\ file = <<>> /\ partial = FALSE /\ lag = <<>> /\ live = FALSE
  /\ index = NewIndex /\ refresh = NoJob /\ offline = NoJob /\ told = 0 /\ refreshes = 0 /\ confirmed = 0

New(t) == next < MaxTitles /\ t = next + 1 /\ next' = t

\* Store::sync_native_title: a title the user gave yields only to another one
\* somebody gave.
Synced(t) ==
  IF t.title = 0 \/ (db.custom /\ ~t.custom) THEN db
  ELSE Title(t.title, db.custom \/ t.custom)

-----------------------------------------------------------------------------
(* The CLI. *)

Start ==
  /\ ~live /\ live' = TRUE
  /\ UNCHANGED <<next, db, native, file, partial, lag, index, refresh, offline, told, refreshes, confirmed>>

\* It begins another log, which has no titles.
NewNative ==
  /\ live /\ native = 1 /\ native' = 2 /\ file' = <<>> /\ partial' = FALSE /\ lag' = <<>> /\ index' = NewIndex
  /\ UNCHANGED <<next, db, live, refresh, offline, told, refreshes, confirmed>>

\* Its user names the session, or it makes a title up; either is told at once
\* and written when it comes to it.
Names(t, custom) ==
  /\ live /\ New(t) /\ lag' = Append(lag, Title(t, custom)) /\ db' = Synced(Title(t, custom))
  /\ UNCHANGED <<native, file, partial, live, index, refresh, offline, told, refreshes, confirmed>>

Flush ==
  /\ live /\ lag # <<>> /\ file' = Append(file, Head(lag)) /\ lag' = Tail(lag) /\ partial' = FALSE
  /\ UNCHANGED <<next, db, native, live, index, refresh, offline, told, refreshes, confirmed>>
\* A line is being written.
Writes ==
  /\ live /\ ~partial /\ partial' = TRUE
  /\ UNCHANGED <<next, db, native, file, lag, live, index, refresh, offline, told, refreshes, confirmed>>

\* It writes what it has before it goes; the rename it still owes is refused.
Exit ==
  /\ live /\ live' = FALSE /\ file' = file \o lag /\ lag' = <<>> /\ partial' = FALSE /\ told' = 0
  /\ UNCHANGED <<next, db, native, index, refresh, offline, refreshes, confirmed>>

-----------------------------------------------------------------------------
(* The user renames the session: rename_title. *)

Asked == {n \in {told, IF offline = NoJob THEN 0 ELSE offline.title} : n # 0}
\* Of two renames under way at once either may be the last.
Confirmed(t) == CHOOSE n \in Asked : n <= t /\ \A o \in Asked : n <= o

\* With a CLI, the CLI does it, one at a time, and its confirmation counts.
AskLive(t) ==
  /\ live /\ told = 0 /\ New(t) /\ told' = t
  /\ UNCHANGED <<db, native, file, partial, lag, live, index, refresh, offline, refreshes, confirmed>>
ConfirmLive ==
  /\ live /\ told # 0 /\ lag' = Append(lag, Title(told, TRUE)) /\ db' = Synced(Title(told, TRUE))
  /\ confirmed' = Confirmed(told) /\ told' = 0
  /\ UNCHANGED <<next, native, file, partial, live, index, refresh, offline, refreshes>>
RefuseLive ==
  /\ told # 0 /\ told' = 0
  /\ UNCHANGED <<next, db, native, file, partial, lag, live, index, refresh, offline, refreshes, confirmed>>

\* Without one a record is appended to the log, read back, and stored; a CLI may
\* have come up meanwhile.
AskOffline(t) ==
  /\ ~live /\ offline = NoJob /\ New(t) /\ offline' = [step |-> "asked", title |-> t]
  /\ UNCHANGED <<db, native, file, partial, lag, live, index, refresh, told, refreshes, confirmed>>
AppendOffline ==
  /\ offline.step = "asked" /\ ~partial
  /\ file' = Append(file, Title(offline.title, TRUE)) /\ offline' = [offline EXCEPT !.step = "appended"]
  /\ UNCHANGED <<next, db, native, partial, lag, live, index, refresh, told, refreshes, confirmed>>
\* The last of the records that are of a kind.
LastOf(records, custom, old) ==
  LET of == {i \in DOMAIN records : records[i].custom = custom}
  IN IF of = {} THEN old ELSE records[CHOOSE i \in of : \A j \in of : j <= i]
LastCustom(records) == LastOf(records, TRUE, NoTitle)
StoreOffline ==
  /\ offline.step = "appended" /\ LastCustom(file) = Title(offline.title, TRUE)
  /\ db' = Title(offline.title, TRUE) /\ confirmed' = Confirmed(offline.title) /\ offline' = NoJob
  /\ UNCHANGED <<next, native, file, partial, lag, live, index, refresh, told, refreshes>>
FailOffline ==
  /\ offline # NoJob /\ offline' = NoJob
  /\ UNCHANGED <<next, db, native, file, partial, lag, live, index, refresh, told, refreshes, confirmed>>

-----------------------------------------------------------------------------
(* Refreshing: refresh_titles. *)

\* Sessions with a CLI and a name of their own are left out.
Select ==
  /\ refresh = NoJob /\ refreshes < MaxRefreshes /\ refreshes' = refreshes + 1
  /\ ~live \/ ~db.custom
  /\ refresh' = [step |-> "selected", seen |-> db, native |-> native]
  /\ UNCHANGED <<next, db, native, file, partial, lag, live, index, offline, told, confirmed>>

\* Each read goes on where the last one stopped, as far as its budget reaches.
Scanned(to) ==
  LET records == SubSeq(file, index.offset + 1, to)
  IN [offset |-> to, custom |-> LastOf(records, TRUE, index.custom), generated |-> LastOf(records, FALSE, index.generated)]
Named(i) == IF i.custom # NoTitle THEN i.custom ELSE i.generated

\* A scan that has not come to the end of whole lines says nothing.
\* (Fault: it says what it has found so far.)
CompleteAlways(i) == TRUE
CompleteAtEnd(i) == i.offset = Len(file) /\ ~partial
Complete(i) == CompleteAtEnd(i)

Read ==
  /\ refresh.step = "selected"
  /\ IF refresh.native = native
     THEN \E to \in index.offset .. Len(file) :
            /\ to > index.offset \/ to = Len(file)
            /\ index' = Scanned(to)
            /\ refresh' = [step |-> "read", seen |-> refresh.seen, native |-> native,
                           found |-> IF Complete(index') THEN Named(index') ELSE NoTitle]
     ELSE refresh' = NoJob /\ UNCHANGED index
  /\ UNCHANGED <<next, db, native, file, partial, lag, live, offline, told, refreshes, confirmed>>

\* What was found counts only for the session as it was seen before.
\* (Faults: whatever was found counts; a name is taken from the log of a CLI
\* that has told another one.)
CurrentAny == TRUE
CurrentSeen == (~live \/ ~refresh.seen.custom) /\ native = refresh.native /\ db = refresh.seen
Current == CurrentSeen

Apply ==
  /\ refresh.step = "read" /\ refresh' = NoJob
  /\ db' = IF Current THEN Synced(refresh.found) ELSE db
  /\ UNCHANGED <<next, native, file, partial, lag, live, index, offline, told, refreshes, confirmed>>

Next ==
  \/ Start \/ NewNative \/ Flush \/ Writes \/ Exit \/ ConfirmLive \/ RefuseLive
  \/ AppendOffline \/ StoreOffline \/ FailOffline \/ Select \/ Read \/ Apply
  \/ \E t \in Titles : AskLive(t) \/ AskOffline(t) \/ \E custom \in BOOLEAN : Names(t, custom)

Spec == Init /\ [][Next]_vars

-----------------------------------------------------------------------------
(* Safety. *)

TypeOK ==
  /\ next \in Titles /\ {db.title, confirmed, told} \subseteq Titles /\ db.custom \in BOOLEAN
  /\ native \in {1, 2} /\ index.offset \in 0 .. Len(file) /\ {partial, live} \subseteq BOOLEAN
  /\ ~live => lag = <<>> /\ told = 0

\* Once the user is told that a session has a name it never shows one that is
\* older than the request, whatever a slow refresh has read before, however far
\* the index of its log lags behind, and whether the CLI has written it yet.
RenameKept == confirmed # 0 => db.title >= confirmed /\ db.custom

-----------------------------------------------------------------------------
(* Why it is so: an inductive invariant. *)

TitleRecords == [title : Nat, custom : BOOLEAN]

JobShape ==
  /\ refresh \in {NoJob} \cup [step : {"selected"}, seen : TitleRecords, native : {1, 2}]
                         \cup [step : {"read"}, seen : TitleRecords, native : {1, 2}, found : TitleRecords]
  /\ offline \in {NoJob} \cup [step : {"asked", "appended"}, title : Nat]

Shape ==
  /\ next \in Titles /\ told \in Nat /\ confirmed \in Nat /\ refreshes \in Nat /\ db \in TitleRecords
  /\ native \in {1, 2} /\ live \in BOOLEAN /\ partial \in BOOLEAN
  /\ file \in Seq(TitleRecords) /\ lag \in Seq(TitleRecords)
  /\ index \in [offset : Nat, custom : TitleRecords, generated : TitleRecords] /\ index.offset <= Len(file)
  /\ JobShape
  /\ ~live => lag = <<>> /\ told = 0

\* The titles that have been seen anywhere.
Known ==
  {db.title, index.custom.title, index.generated.title}
  \cup {file[i].title : i \in DOMAIN file} \cup {lag[i].title : i \in DOMAIN lag}
  \cup (IF refresh = NoJob THEN {} ELSE {refresh.seen.title})
  \cup (IF refresh.step = "read" THEN {refresh.found.title} ELSE {})

\* Titles are new when they are asked for, and those under way nobody has seen;
\* a rename without a CLI was asked for before the CLI that is there.
Numbered ==
  /\ \A n \in Known \cup {told, confirmed} : n <= next
  /\ told # 0 => told \notin Known
  /\ offline # NoJob =>
       /\ 0 < offline.title /\ offline.title <= next
       /\ told # 0 => offline.title < told
       /\ \A i \in DOMAIN lag : offline.title < lag[i].title
       /\ offline.step = "asked" => offline.title \notin Known

\* The last name in a list of titles is not older than n.
LastNamed(records, n) ==
  \A i \in DOMAIN records :
    records[i].custom /\ (\A j \in (i + 1) .. Len(records) : ~records[j].custom) => n <= records[i].title
Names0(records) == \E i \in DOMAIN records : records[i].custom

\* What is confirmed is neither newer than what the log will end with, nor than
\* what is still under way.
LogKept ==
  /\ Names0(lag) => LastNamed(lag, confirmed)
  /\ ~Names0(lag) => LastNamed(file, confirmed)
  /\ told # 0 => confirmed <= told
  /\ offline # NoJob => confirmed <= offline.title
  /\ offline.step = "appended" => (\A i \in DOMAIN file : file[i].title # offline.title) \/ LastNamed(file, offline.title)

IndexTrue ==
  /\ ~index.generated.custom
  /\ \/ index.custom = NoTitle /\ \A i \in 1 .. index.offset : ~file[i].custom
     \/ \E i \in 1 .. index.offset :
          /\ file[i] = index.custom /\ file[i].custom
          /\ \A j \in (i + 1) .. index.offset : ~file[j].custom

\* A refresh that may still count for a session with a name has found none that
\* is older than the confirmed one, or will not.
RefreshTrue ==
  refresh # NoJob =>
    /\ refresh.native <= native
    /\ refresh.native = native /\ refresh.seen = db /\ db.custom =>
         /\ LastNamed(file, confirmed)
         /\ \A i \in DOMAIN lag : lag[i].custom => confirmed <= lag[i].title
         /\ refresh.step = "read" /\ refresh.found.custom => confirmed <= refresh.found.title
    /\ /\ refresh.step = "read" /\ refresh.native = native /\ refresh.found.custom
       /\ offline # NoJob /\ refresh.seen.title = offline.title
       /\ \E i \in DOMAIN file : file[i].title = offline.title
       => offline.title <= refresh.found.title

TitlesKept == Shape /\ Numbered /\ LogKept /\ IndexTrue /\ RefreshTrue /\ RenameKept
=============================================================================
