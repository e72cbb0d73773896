----------------------------- MODULE TurnChanges -----------------------------
(***************************************************************************)
(* What a turn did to the files, and taking it back.  Before a turn the    *)
(* actor of a session captures a snapshot of the project directory; when   *)
(* the turn ends it captures another, freezes the difference as the turn's *)
(* history, and the latest turn of a session may then be undone.           *)
(*                                                                         *)
(* One project directory is modelled, with every session of it, the        *)
(* terminals of the host, and an editor outside the host's control.  A     *)
(* file's version stands for its bytes, which is what snapshots are        *)
(* compared by: a change of permissions alone is no entry of a summary.    *)
(* Undo compares permissions too, and may refuse because of them.          *)
(***************************************************************************)
EXTENDS Naturals, FiniteSets, FiniteSetsExt, Functions

CONSTANTS
  Sessions,      \* sessions of the project
  Files,         \* paths inside the directory
  Versions,      \* contents of a regular file
  Absent, Link,  \* no file; a symbolic link
  NoSession,     \* no session
  MaxTurns,      \* bound: turns of all sessions
  MaxMoves,      \* bound: writes by agents, terminals and the editor, and agents put
                 \* to work in the background
  MaxRestarts    \* bound: restarts of the daemon

ASSUME TurnChangesAssumption ==
  /\ Absent \notin Versions /\ Link \notin Versions /\ Absent # Link
  /\ NoSession \notin Sessions
  /\ MaxTurns \in Nat /\ MaxMoves \in Nat /\ MaxRestarts \in Nat

Turns == 1..MaxTurns

VARIABLES
  \* --- the directory ---
  disk,       \* what is at each path
  root,       \* identity of the directory: replacing it changes it
  tracked,    \* paths in the index of the repository; an actor never changes it
  ignored,    \* untracked paths the ignore rules hide
  rulesEver,  \* ghost: have the rules changed?
  \* --- the sessions ---
  act,        \* where the actor of each session is
  turnOf,     \* its latest turn, 0 for none
  bg,         \* does it have agents working in the background?
  bgAtStart,  \* did it have them when its turn started?
  cap,        \* the capture under way
  handed,     \* does its CLI hold inputs handed off during a turn?
  ahead,      \* ghost: has the CLI begun one of them before the boundary of the
              \* turn was captured?
  terminal,   \* is a terminal open on the host?
  \* --- the database and its objects ---
  author,     \* requests: the session of each turn
  row,        \* turn_changes
  task,       \* task_baselines
  objects,    \* contents stored in the snapshot directory
  \* --- the undo request under way: it holds the write lock of admission ---
  undo,
  \* --- bounds ---
  moves, restarts,
  \* --- ghost: files others wrote since the undo last verified them ---
  touched

tree     == <<disk, root, tracked, ignored, rulesEver>>
natively == <<handed, ahead>>
sessions == <<act, turnOf, bg, bgAtStart, cap, handed, ahead, terminal>>
stored   == <<author, row, task, objects>>
vars     == <<disk, root, tracked, ignored, rulesEver, act, turnOf, bg, bgAtStart, cap,
              handed, ahead, terminal, author, row, task, objects, undo, moves, restarts, touched>>

-----------------------------------------------------------------------------
(* Snapshots. *)

\* files holds the paths read, Absent for one that went away meanwhile;
\* partial: something could not be captured.  present is not in the code: the
\* files that were really there during the capture.
Snapshots ==
  [ok : {TRUE}, root : {1, 2}, files : UNION {[F -> Versions \cup {Absent}] : F \in SUBSET Files},
   partial : BOOLEAN, present : SUBSET Files]
Unavailable == [ok |-> FALSE, root |-> 0, files |-> <<>>, partial |-> FALSE, present |-> {}]
NoCapture == [listed |-> {}, partial |-> FALSE, root |-> 0, present |-> {}]

Present == {f \in Files : disk[f] # Absent}
\* What an enumeration of the directory yields: Git names every tracked path,
\* there or not, and the untracked ones its rules do not hide.
Inventory == tracked \cup (Present \ ignored)
\* Links are left out by the walk and refused by the read.
Listing ==
  [listed  |-> {f \in Inventory : disk[f] # Link},
   partial |-> \E f \in Inventory : disk[f] = Link,
   root    |-> root,
   present |-> Present]
\* Reading what was listed: a path may have gone away or become a link since.
Read(c) ==
  LET kept == {f \in c.listed : disk[f] # Link} IN
  [ok |-> TRUE, root |-> c.root, files |-> [f \in kept |-> disk[f]],
   partial |-> c.partial \/ kept # c.listed, present |-> c.present \cap Present]
\* A capture that takes too long, or whose directory was replaced, fails.
Captured(c) == {Unavailable} \cup (IF c.root = root THEN {Read(c)} ELSE {})

At(s, f) == IF f \in DOMAIN s.files THEN s.files[f] ELSE Absent
\* A path that is missing from a partial snapshot is unknown, not deleted.
\* (Fault: it is taken for a deletion.)
UnsureNever(b, a, f) == FALSE
Unsure(b, a, f) ==
  \/ At(b, f) # Absent /\ f \notin DOMAIN a.files /\ a.partial
  \/ At(a, f) # Absent /\ f \notin DOMAIN b.files /\ b.partial
SameRoot(b, a) == b.ok /\ a.ok => b.root = a.root
\* Of a snapshot only the files of the summary are retained.
Kept(s, entries) == [s EXCEPT !.files = Restrict(s.files, entries \cap DOMAIN s.files)]
\* The frozen turn.
Compare(b, a, background) ==
  LET both    == b.ok /\ a.ok /\ SameRoot(b, a)
      differ  == {f \in Files : At(b, f) # At(a, f)}
      entries == IF both THEN {f \in differ : ~Unsure(b, a, f)} ELSE {}
  IN [state |-> "frozen", ok |-> both, entries |-> entries,
      partial |-> both /\ (b.partial \/ a.partial \/ entries # differ),
      background |-> background, undo |-> "ready",
      before |-> IF both THEN Kept(b, entries) ELSE Unavailable,
      after  |-> IF both THEN Kept(a, entries) ELSE Unavailable]

NoRow == [state |-> "none"]
Dropped == [state |-> "dropped"]
\* life is not in the code: the life of the daemon the baseline was captured in.
OpenRow(b) == [state |-> "open", before |-> b, life |-> restarts]
Frozen(t) == row[t].state = "frozen"
Contents(s) == {s.files[f] : f \in DOMAIN s.files} \cap Versions
\* What a capture reads is stored under its hash before anything names it.
Publish(s) == objects \cup Contents(s)

-----------------------------------------------------------------------------
(* Initial state. *)

NoUndo == [phase |-> "none", turn |-> 0, todo |-> {}, verified |-> {}]

Init ==
  /\ disk \in [Files -> Versions \cup {Absent}] /\ root = 1
  /\ tracked \in SUBSET Files /\ ignored = {} /\ rulesEver = FALSE
  /\ act = [s \in Sessions |-> "idle"] /\ turnOf = [s \in Sessions |-> 0]
  /\ bg = [s \in Sessions |-> FALSE] /\ bgAtStart = [s \in Sessions |-> FALSE]
  /\ cap = [s \in Sessions |-> NoCapture] /\ terminal = FALSE
  /\ handed = [s \in Sessions |-> FALSE] /\ ahead = [s \in Sessions |-> FALSE]
  /\ author = [t \in Turns |-> NoSession] /\ row = [t \in Turns |-> NoRow]
  /\ task = [s \in Sessions |-> NoRow] /\ objects = {}
  /\ undo = NoUndo /\ moves = 0 /\ restarts = 0 /\ touched = {}

CountMove == moves < MaxMoves /\ moves' = moves + 1

-----------------------------------------------------------------------------
(* Turns. *)

\* Undo holds the write lock of file_admission from its first check to its
\* answer; sending, opening and terminals hold a read lock.
\* (Fault: they do not.)
AdmittedAlways == TRUE
Admitted == undo.phase = "none"

\* accept_turn: the request is durable before anything is captured, and the CLI
\* owes nothing of an earlier input.
Begin(s) ==
  /\ Admitted /\ act[s] = "idle" /\ ~handed[s]
  /\ \E t \in Turns :
       /\ author[t] = NoSession /\ \A u \in 1..(t - 1) : author[u] # NoSession
       /\ author' = [author EXCEPT ![t] = s] /\ turnOf' = [turnOf EXCEPT ![s] = t]
  /\ act' = [act EXCEPT ![s] = "begun"]
  /\ UNCHANGED <<tree, bg, bgAtStart, cap, natively, terminal, row, task, objects, undo, moves, restarts, touched>>

\* Store::pending_turn: the latest turn of s with a baseline that is not frozen.
Open(s) == {t \in Turns : author[t] = s /\ row[t].state = "open"}

\* Snapshot::capture_with: enumerate, then read.
List(s) ==
  /\ \/ act[s] = "begun"
     \/ act[s] = "ending" /\ Open(s) # {}
  /\ cap[s] = NoCapture
  /\ cap' = [cap EXCEPT ![s] = Listing]
  /\ UNCHANGED <<tree, act, turnOf, bg, bgAtStart, natively, terminal, stored, undo, moves, restarts, touched>>

\* Only the first request of a session gives it the baseline of the whole task.
FirstRequest(s) == Cardinality({t \in Turns : author[t] = s}) = 1

Baseline(s) ==
  /\ act[s] = "begun" /\ cap[s] # NoCapture
  /\ \E b \in Captured(cap[s]) :
       /\ row' = [row EXCEPT ![turnOf[s]] = OpenRow(b)]
       /\ task' = IF task[s] # NoRow THEN task
                  ELSE [task EXCEPT ![s] = OpenRow(IF FirstRequest(s) THEN b ELSE Unavailable)]
       /\ objects' = Publish(b)
  /\ act' = [act EXCEPT ![s] = "running"] /\ cap' = [cap EXCEPT ![s] = NoCapture]
  /\ bgAtStart' = [bgAtStart EXCEPT ![s] = bg[s]]
  /\ UNCHANGED <<tree, turnOf, bg, natively, terminal, author, undo, moves, restarts, touched>>

\* The turn leaves agents working in the background, and they finish.
Background(s) ==
  /\ \/ act[s] = "running" /\ ~bg[s] /\ CountMove
     \/ bg[s] /\ UNCHANGED moves
  /\ bg' = [bg EXCEPT ![s] = ~@]
  /\ UNCHANGED <<tree, act, turnOf, bgAtStart, cap, natively, terminal, stored, undo, restarts, touched>>

\* mark_forwarded: the CLI gets a further input while its turn runs.  It may
\* begin it before the host captures the boundary, so in the same transaction
\* the open turn loses its baseline.  (Fault: it does not.)
OverlapKept(s) == row
Overlap(s) == [t \in Turns |-> IF t \in Open(s) THEN [row[t] EXCEPT !.before = Unavailable] ELSE row[t]]
HandOff(s) ==
  /\ act[s] = "running"
  /\ row' = Overlap(s) /\ handed' = [handed EXCEPT ![s] = TRUE]
  /\ UNCHANGED <<tree, act, turnOf, bg, bgAtStart, cap, ahead, terminal, author, task, objects, undo,
                 moves, restarts, touched>>

\* Inputs are consumed by the turn they were handed off in, or by one of their
\* own; or the CLI refuses them.  One that was begun later is still held.
InputsSettled(s) ==
  /\ act[s] \in {"running", "idle"} /\ handed[s] /\ ~ahead[s]
  /\ handed' = [handed EXCEPT ![s] = FALSE]
  /\ UNCHANGED <<tree, act, turnOf, bg, bgAtStart, cap, ahead, terminal, stored, undo, moves, restarts, touched>>

\* The CLI is done with the turn and begins an input it holds, while the result
\* waits to be read or the boundary is being captured.
BeginsNext(s) ==
  /\ Open(s) # {} /\ handed[s] /\ ~ahead[s]
  /\ ahead' = [ahead EXCEPT ![s] = TRUE]
  /\ UNCHANGED <<tree, act, turnOf, bg, bgAtStart, cap, handed, terminal, stored, undo, moves, restarts, touched>>

\* Action::TurnStarted: the actor hears of a turn it did not begin, of an input it
\* handed off or a follow-up of background work.  It has no row.
NativeTurn(s) ==
  /\ act[s] = "idle" /\ (handed[s] \/ bg[s])
  /\ act' = [act EXCEPT ![s] = "running"] /\ bgAtStart' = [bgAtStart EXCEPT ![s] = bg[s]]
  /\ UNCHANGED <<tree, turnOf, bg, cap, natively, terminal, stored, undo, moves, restarts, touched>>

\* The result of the turn, which may settle inputs, with the CLI still there; or
\* the end of the CLI with everything it runs, whether a turn was under way or not.
EndTurn(s) ==
  /\ \/ /\ act[s] = "running" /\ UNCHANGED bg
        /\ \E still \in {handed[s], ahead[s]} : handed' = [handed EXCEPT ![s] = still]
     \/ /\ act[s] \in {"running", "idle"} /\ bg' = [bg EXCEPT ![s] = FALSE]
        /\ handed' = [handed EXCEPT ![s] = FALSE]
  /\ act' = [act EXCEPT ![s] = "ending"]
  /\ UNCHANGED <<tree, turnOf, bgAtStart, cap, ahead, terminal, stored, undo, moves, restarts, touched>>

\* finish_turn.
Freeze(s) ==
  /\ act[s] = "ending" /\ Open(s) # {} /\ cap[s] # NoCapture
  /\ \E a \in Captured(cap[s]) :
       LET t == Max(Open(s)) IN
       /\ row' = [row EXCEPT ![t] = Compare(@.before, a, bg[s] \/ bgAtStart[s])]
       /\ objects' = Publish(a)
  /\ act' = [act EXCEPT ![s] = "frozen"] /\ cap' = [cap EXCEPT ![s] = NoCapture]
  /\ ahead' = [ahead EXCEPT ![s] = FALSE]
  /\ UNCHANGED <<tree, turnOf, bg, bgAtStart, handed, terminal, author, task, undo, moves, restarts, touched>>

\* The final status of the turn is stored.
Settle(s) ==
  /\ \/ act[s] = "frozen"
     \/ act[s] = "ending" /\ Open(s) = {}
  /\ act' = [act EXCEPT ![s] = "idle"] /\ cap' = [cap EXCEPT ![s] = NoCapture]
  /\ bgAtStart' = [bgAtStart EXCEPT ![s] = FALSE]
  /\ UNCHANGED <<tree, turnOf, bg, natively, terminal, stored, undo, moves, restarts, touched>>

-----------------------------------------------------------------------------
(* Writers. *)

\* An agent, a program in a terminal, or the editor of the user, at any time.
Write(f, v) ==
  /\ CountMove /\ disk[f] # v /\ disk' = [disk EXCEPT ![f] = v]
  /\ touched' = touched \cup {f}
  /\ UNCHANGED <<root, tracked, ignored, rulesEver, sessions, stored, undo, restarts>>

\* The ignore rules are a file like another: writing it hides or shows paths.
ChangeRules(f) ==
  /\ f \notin tracked /\ CountMove
  /\ ignored' = IF f \in ignored THEN ignored \ {f} ELSE ignored \cup {f}
  /\ rulesEver' = TRUE
  /\ UNCHANGED <<disk, root, tracked, sessions, stored, undo, restarts, touched>>

\* The directory is moved away and another one put in its place.
ReplaceRoot ==
  /\ root = 1 /\ CountMove /\ root' = 2
  /\ UNCHANGED <<disk, tracked, ignored, rulesEver, sessions, stored, undo, restarts, touched>>

Terminal ==
  /\ terminal' = ~terminal /\ (terminal \/ Admitted)
  /\ UNCHANGED <<tree, act, turnOf, bg, bgAtStart, cap, natively, stored, undo, moves, restarts, touched>>

-----------------------------------------------------------------------------
(* Undo. *)

Latest(t) == \A u \in Turns : u > t => author[u] # author[t]
\* No session is active, no CLI works in the background or holds an input that
\* was handed off, no terminal is open.
HostIdle == ~terminal /\ \A s \in Sessions : act[s] = "idle" /\ ~bg[s] /\ ~handed[s]
\* FrozenTurn::verify_current.
Matches(t, f) == root = row[t].after.root /\ disk[f] = At(row[t].after, f)
\* FrozenTurn::validate_undo_loaded.
Undoable(t) ==
  /\ Frozen(t) /\ row[t].undo = "ready"
  /\ row[t].ok /\ ~row[t].partial /\ ~row[t].background /\ row[t].entries # {}
  /\ \A f \in row[t].entries : Matches(t, f)

UndoAsked(t) ==
  /\ undo = NoUndo /\ Frozen(t) /\ Latest(t) /\ HostIdle /\ Undoable(t)
  /\ undo' = [NoUndo EXCEPT !.phase = "closing", !.turn = t]
  /\ UNCHANGED <<tree, sessions, stored, moves, restarts, touched>>

\* The idle CLIs of the directory were closed; the files are checked again and
\* the intent is durable before the first of them is written.
UndoIntent ==
  /\ undo.phase = "closing" /\ Undoable(undo.turn)
  /\ row' = [row EXCEPT ![undo.turn].undo = "unknown"]
  /\ undo' = [undo EXCEPT !.phase = "restoring", !.todo = row[undo.turn].entries]
  /\ touched' = {}
  /\ UNCHANGED <<tree, sessions, author, task, objects, moves, restarts>>

\* One file after the other: checked once more, then replaced in one step.
Verify(f) ==
  /\ undo.phase = "restoring" /\ f \in undo.todo /\ undo.verified = {}
  /\ Matches(undo.turn, f)
  /\ undo' = [undo EXCEPT !.verified = {f}] /\ touched' = touched \ {f}
  /\ UNCHANGED <<tree, sessions, stored, moves, restarts>>

\* persist replaces, persist_noclobber only creates, remove_file only removes.
\* A link is replaced or removed like a file.  (Fault: persist in both cases.)
RestorableClobber(t, f) == At(row[t].before, f) = Absent => disk[f] # Absent
Restorable(t, f) ==
  IF At(row[t].before, f) = Absent THEN disk[f] # Absent
  ELSE At(row[t].after, f) = Absent => disk[f] = Absent

Restore(f) ==
  /\ undo.phase = "restoring" /\ f \in undo.verified /\ Restorable(undo.turn, f)
  /\ disk' = [disk EXCEPT ![f] = At(row[undo.turn].before, f)]
  /\ undo' = [undo EXCEPT !.todo = @ \ {f}, !.verified = {}] /\ touched' = touched \ {f}
  /\ UNCHANGED <<root, tracked, ignored, rulesEver, sessions, stored, moves, restarts>>

Complete == undo.todo = {}
UndoDone ==
  /\ undo.phase = "restoring" /\ Complete
  /\ row' = [row EXCEPT ![undo.turn].undo = "reverted"] /\ undo' = NoUndo
  /\ UNCHANGED <<tree, sessions, author, task, objects, moves, restarts, touched>>

\* A check fails, or reading and writing does: what is restored stays, and so
\* does the intent.
UndoFails ==
  /\ undo # NoUndo /\ undo' = NoUndo
  /\ UNCHANGED <<tree, sessions, stored, moves, restarts, touched>>

-----------------------------------------------------------------------------
(* Restart. *)

\* Contents named by the rows that are left.  (Fault: by task baselines only.)
ReferencesTasksOnly(rows) ==
  UNION {Contents(task[s].before) : s \in {s \in Sessions : task[s] # NoRow}}
References(rows) ==
  (UNION {Contents(task[s].before) : s \in {s \in Sessions : task[s] # NoRow}})
    \cup (UNION {Contents(rows[t].before) \cup Contents(rows[t].after)
                 : t \in {t \in Turns : rows[t].state = "frozen"}})

\* Turns without an end: their files are unknown from now on.
AfterRestart == [t \in Turns |-> IF row[t].state = "open" THEN Dropped ELSE row[t]]

\* The daemon dies and Store::open cleans up, before any request is accepted.
Restart ==
  /\ restarts < MaxRestarts /\ restarts' = restarts + 1
  /\ row' = AfterRestart /\ objects' = objects \cap References(AfterRestart)
  /\ act' = [s \in Sessions |-> "idle"] /\ cap' = [s \in Sessions |-> NoCapture]
  /\ bg' = [s \in Sessions |-> FALSE] /\ bgAtStart' = [s \in Sessions |-> FALSE]
  /\ handed' = [s \in Sessions |-> FALSE] /\ ahead' = [s \in Sessions |-> FALSE]
  /\ terminal' = FALSE /\ undo' = NoUndo
  /\ UNCHANGED <<tree, turnOf, author, task, moves, touched>>

Next ==
  \/ \E s \in Sessions :
       \/ Begin(s) \/ List(s) \/ Baseline(s) \/ Background(s) \/ EndTurn(s) \/ Freeze(s) \/ Settle(s)
       \/ HandOff(s) \/ InputsSettled(s) \/ BeginsNext(s) \/ NativeTurn(s)
  \/ \E f \in Files : ChangeRules(f) \/ Verify(f) \/ Restore(f)
  \/ \E f \in Files, v \in Versions \cup {Absent, Link} : Write(f, v)
  \/ \E t \in Turns : UndoAsked(t)
  \/ ReplaceRoot \/ Terminal \/ UndoIntent \/ UndoDone \/ UndoFails \/ Restart

Spec == Init /\ [][Next]_vars

-----------------------------------------------------------------------------
(* Safety. *)

TypeOK ==
  /\ disk \in [Files -> Versions \cup {Absent, Link}] /\ root \in {1, 2}
  /\ tracked \subseteq Files /\ ignored \subseteq Files
  /\ act \in [Sessions -> {"idle", "begun", "running", "ending", "frozen"}]
  /\ turnOf \in [Sessions -> 0..MaxTurns]
  /\ bg \in [Sessions -> BOOLEAN] /\ bgAtStart \in [Sessions -> BOOLEAN] /\ terminal \in BOOLEAN
  /\ handed \in [Sessions -> BOOLEAN] /\ ahead \in [Sessions -> BOOLEAN]
  /\ author \in [Turns -> Sessions \cup {NoSession}]
  /\ \A t \in Turns :
       \/ row[t] \in {NoRow, Dropped}
       \/ row[t].state = "open" /\ row[t].before \in Snapshots \cup {Unavailable}
       \/ /\ Frozen(t) /\ row[t].entries \subseteq Files /\ row[t].undo \in {"ready", "unknown", "reverted"}
          /\ DOMAIN row[t].before.files \cup DOMAIN row[t].after.files \subseteq row[t].entries
  /\ objects \subseteq Versions
  /\ undo.phase \in {"none", "closing", "restoring"} /\ undo.todo \subseteq Files
  /\ moves \in 0..MaxMoves /\ restarts \in 0..MaxRestarts /\ touched \subseteq Files

\* History can be read: the contents every stored snapshot names are in the
\* snapshot directory, whatever the cleanup at startup removed; and the state is
\* well typed.
ObjectsKept ==
  /\ TypeOK
  /\ \A s \in Sessions : task[s] # NoRow => Contents(task[s].before) \subseteq objects
  /\ \A t \in Turns :
       /\ row[t].state \in {"open", "frozen"} => Contents(row[t].before) \subseteq objects
       /\ Frozen(t) => Contents(row[t].after) \subseteq objects

\* While files are restored no agent works, none has work it could begin by
\* itself, and no terminal is open: only an editor outside the host can write,
\* and every turn of the project is over.
QuietRestore ==
  undo.phase # "none" =>
    /\ ~terminal
    /\ \A s \in Sessions : act[s] \in {"idle", "ending"} /\ ~bg[s] /\ ~handed[s] /\ Open(s) = {}

\* The history of a turn makes up no change: a file it says the turn added was
\* not there before, one it says the turn deleted was not there after.  The code
\* keeps this only while the ignore rules stay as they were (NeverFabricated): a
\* rule changed within the turn hides or shows files that did not change.
NothingFabricated ==
  \A t \in Turns : Frozen(t) =>
    \A f \in row[t].entries :
      /\ At(row[t].before, f) = Absent => f \notin row[t].before.present
      /\ At(row[t].after, f) = Absent => f \notin row[t].after.present

\* The same, while the ignore rules of the repository are what they were: a
\* snapshot that could not capture everything is never taken for the whole.
NeverFabricated == ~rulesEver => NothingFabricated

\* A turn is frozen by its own end only, in the life of the daemon that began it,
\* and never with files of a later turn: once the CLI may have begun an input that
\* was handed off meanwhile, its history has no files and nothing to undo.  Until
\* then it changes in two ways: a restart drops it, and such an input takes its
\* baseline.  What is frozen never changes; and an undo that was begun is either
\* completed by that same request or stays unknown, across crashes too.
FrozenHistory ==
  [][\A t \in Turns :
       /\ row[t].state = "open" /\ row'[t] # row[t] =>
            \/ row'[t] = Dropped /\ act' = [s \in Sessions |-> "idle"]
            \/ row'[t] = [row[t] EXCEPT !.before = Unavailable] /\ handed'[author[t]]
            \/ /\ row'[t].state = "frozen" /\ turnOf[author[t]] = t /\ row[t].life = restarts
               /\ ahead[author[t]] => ~row'[t].ok /\ row'[t].entries = {}
       /\ row[t].state = "dropped" => row'[t] = row[t]
       /\ Frozen(t) /\ row'[t] # row[t] =>
            /\ row'[t] = [row[t] EXCEPT !.undo = row'[t].undo] /\ undo.turn = t
            /\ <<row[t].undo, row'[t].undo>> \in {<<"ready", "unknown">>, <<"unknown", "reverted">>}
    ]_vars

\* A version written between the last check of a file and its replacement can be
\* lost, but never one that appeared where the turn had left nothing.
ReplacesOwnResult ==
  \A f \in Files :
    undo.todo # undo'.todo /\ undo'.phase = "restoring" /\ undo.phase = "restoring" /\ disk'[f] # disk[f] =>
      \/ disk[f] = At(row[undo.turn].after, f)
      \/ f \in touched /\ At(row[undo.turn].after, f) # Absent

RevertsAll ==
  \A t \in Turns :
    Frozen(t) /\ row[t].undo = "unknown" /\ row'[t].undo = "reverted" =>
      \A f \in row[t].entries \ touched : disk[f] = At(row[t].before, f)

\* Undo replaces what the turn left and nothing else, and a turn reads as
\* reverted only when every file of it is what it was before the turn, but for
\* files an editor wrote after they were restored.
UndoExact == [][ReplacesOwnResult /\ RevertsAll]_vars
=============================================================================
