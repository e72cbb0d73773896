-------------------------- MODULE TurnChangesProofs --------------------------
(***************************************************************************)
(* Theorems of TurnChanges, for any number of sessions, files, versions,   *)
(* turns, moves and restarts: what a frozen turn says stays readable and   *)
(* true, nobody works while undo restores, and undo replaces what the turn *)
(* left and nothing else.                                                  *)
(***************************************************************************)
EXTENDS TurnChanges, TLAPS

USE DEF tree, natively, sessions, stored

\* The steps of a session and its CLI.
SessionStep(s) ==
  \/ Begin(s) \/ List(s) \/ Baseline(s) \/ Background(s) \/ EndTurn(s) \/ Freeze(s) \/ Settle(s)
  \/ HandOff(s) \/ InputsSettled(s) \/ BeginsNext(s) \/ NativeTurn(s)

Stored == Snapshots \cup {Unavailable}
Captures == [listed : SUBSET Files, partial : BOOLEAN, root : {0, 1, 2}, present : SUBSET Files]
OpenRows == [state : {"open"}, before : Stored, life : 0..MaxRestarts]
FrozenRows ==
  [state : {"frozen"}, ok : BOOLEAN, entries : SUBSET Files, partial : BOOLEAN, background : BOOLEAN,
   undo : {"ready", "unknown", "reverted"}, before : Stored, after : Stored]
Rows == {NoRow, Dropped} \cup OpenRows \cup FrozenRows
Undos ==
  [phase : {"none", "closing", "restoring"}, turn : {0} \cup Turns, todo : SUBSET Files, verified : SUBSET Files]

TypedTree ==
  /\ disk \in [Files -> Versions \cup {Absent, Link}] /\ root \in {1, 2}
  /\ tracked \subseteq Files /\ ignored \subseteq Files /\ rulesEver \in BOOLEAN
TypedSessions ==
  /\ act \in [Sessions -> {"idle", "begun", "running", "ending", "frozen"}]
  /\ turnOf \in [Sessions -> 0..MaxTurns]
  /\ bg \in [Sessions -> BOOLEAN] /\ bgAtStart \in [Sessions -> BOOLEAN]
  /\ cap \in [Sessions -> Captures] /\ terminal \in BOOLEAN
  /\ handed \in [Sessions -> BOOLEAN] /\ ahead \in [Sessions -> BOOLEAN]
TypedStore ==
  /\ author \in [Turns -> Sessions \cup {NoSession}]
  /\ row \in [Turns -> Rows] /\ task \in [Sessions -> {NoRow} \cup OpenRows]
  /\ objects \subseteq Versions
TypedRest ==
  /\ undo \in Undos /\ moves \in 0..MaxMoves /\ restarts \in 0..MaxRestarts /\ touched \subseteq Files
Typed == TypedTree /\ TypedSessions /\ TypedStore /\ TypedRest

-----------------------------------------------------------------------------
(* Rows and snapshots.                                                       *)

\* The state of a row says which record it is.
LEMMA RowsByState ==
  ASSUME NEW r \in Rows
  PROVE  /\ r.state = "open" <=> r \in OpenRows
         /\ r.state = "frozen" <=> r \in FrozenRows
         /\ r.state = "none" <=> r = NoRow
         /\ r.state = "dropped" <=> r = Dropped
         /\ r.state \in {"none", "dropped", "open", "frozen"}
<1>1. NoRow.state = "none" /\ Dropped.state = "dropped" BY DEF NoRow, Dropped
<1>2. \A x \in OpenRows : x.state = "open" BY DEF OpenRows
<1>3. \A x \in FrozenRows : x.state = "frozen" BY DEF FrozenRows
<1>4. QED BY <1>1, <1>2, <1>3 DEF Rows

\* A stored snapshot holds versions of files of the directory.
LEMMA StoredFiles ==
  ASSUME NEW s \in Stored
  PROVE  /\ DOMAIN s.files \subseteq Files
         /\ \A f \in DOMAIN s.files : s.files[f] \in Versions \cup {Absent}
         /\ s.files = [f \in DOMAIN s.files |-> s.files[f]]
         /\ s.ok \in BOOLEAN /\ s.partial \in BOOLEAN /\ s.present \subseteq Files
         /\ Contents(s) \subseteq Versions
<1>1. CASE s \in Snapshots
  <2>1. PICK F \in SUBSET Files : s.files \in [F -> Versions \cup {Absent}] BY <1>1 DEF Snapshots
  <2>2. s.ok \in BOOLEAN /\ s.partial \in BOOLEAN /\ s.present \subseteq Files BY <1>1 DEF Snapshots
  <2>3. QED BY <2>1, <2>2 DEF Contents
<1>2. CASE s = Unavailable
  <2>1. s.files = <<>> /\ s.ok = FALSE /\ s.partial = FALSE /\ s.present = {} BY <1>2 DEF Unavailable
  <2>2. DOMAIN s.files = {} BY <2>1
  <2>3. s.files = [f \in {} |-> s.files[f]] BY <2>1
  <2>4. QED BY <2>1, <2>2, <2>3 DEF Contents
<1>3. QED BY <1>1, <1>2 DEF Stored

\* Of what is read only files are kept.
LEMMA ReadIsSnapshot ==
  ASSUME TypedTree, NEW c \in Captures, NEW b \in Captured(c)
  PROVE  b \in Stored /\ Contents(b) \subseteq Versions
<1>1. CASE b = Unavailable BY <1>1, StoredFiles DEF Stored
<1>2. CASE b = Read(c) /\ c.root = root
  <2> DEFINE kept == {f \in c.listed : disk[f] # Link}
  <2>1. kept \in SUBSET Files /\ c.partial \in BOOLEAN /\ c.root \in {1, 2} /\ c.present \subseteq Files
    BY <1>2 DEF Captures, TypedTree
  <2>2. \A f \in kept : disk[f] \in Versions \cup {Absent} BY <2>1 DEF TypedTree
  <2>3. [f \in kept |-> disk[f]] \in [kept -> Versions \cup {Absent}] BY <2>2
  <2>4. b = [ok |-> TRUE, root |-> c.root, files |-> [f \in kept |-> disk[f]],
             partial |-> c.partial \/ kept # c.listed, present |-> c.present \cap Present]
    BY <1>2 DEF Read
  <2> HIDE DEF kept
  <2>5. [f \in kept |-> disk[f]] \in UNION {[F -> Versions \cup {Absent}] : F \in SUBSET Files} BY <2>1, <2>3
  <2>6. b \in Snapshots BY <2>1, <2>4, <2>5 DEF Snapshots
  <2>7. QED BY <2>6, StoredFiles DEF Stored
<1>3. QED BY <1>1, <1>2 DEF Captured

\* What is kept of a snapshot for the files of a summary.
LEMMA KeptOf ==
  ASSUME NEW s \in Snapshots, NEW E \in SUBSET Files
  PROVE  /\ Kept(s, E) \in Snapshots
         /\ DOMAIN Kept(s, E).files \subseteq E
         /\ \A f \in E : At(Kept(s, E), f) = At(s, f)
         /\ Kept(s, E).present = s.present /\ Kept(s, E).root = s.root
         /\ Contents(Kept(s, E)) \subseteq Contents(s)
<1> DEFINE D == E \cap DOMAIN s.files
           g == [f \in D |-> s.files[f]]
<1>1. PICK F \in SUBSET Files : s.files \in [F -> Versions \cup {Absent}] BY DEF Snapshots
<1>2. g \in [D -> Versions \cup {Absent}] /\ D \in SUBSET Files BY <1>1
<1>3. g \in UNION {[G -> Versions \cup {Absent}] : G \in SUBSET Files} BY <1>2
<1>4. Kept(s, E) = [s EXCEPT !.files = g] BY DEF Kept, Restrict
<1>5. DOMAIN g = D /\ \A f \in D : g[f] = s.files[f] OBVIOUS
<1> HIDE DEF g, D
<1>6. Kept(s, E) \in Snapshots /\ Kept(s, E).files = g
      /\ Kept(s, E).present = s.present /\ Kept(s, E).root = s.root
  BY <1>3, <1>4 DEF Snapshots
<1>7. \A f \in E : At(Kept(s, E), f) = At(s, f) BY <1>5, <1>6 DEF At, D
<1>8. Contents(Kept(s, E)) \subseteq Contents(s) BY <1>5, <1>6 DEF Contents, D
<1>9. QED BY <1>5, <1>6, <1>7, <1>8 DEF D

\* The frozen turn: its entries are files that differ and are known on both
\* sides, and what is stored of the two snapshots is what they said of them.
LEMMA CompareOf ==
  ASSUME NEW b \in Stored, NEW a \in Stored, NEW g \in BOOLEAN
  PROVE  LET r == Compare(b, a, g) IN
         /\ r \in FrozenRows
         /\ DOMAIN r.before.files \cup DOMAIN r.after.files \subseteq r.entries
         /\ Contents(r.before) \subseteq Contents(b) /\ Contents(r.after) \subseteq Contents(a)
         /\ \A f \in r.entries :
              /\ At(r.before, f) = At(b, f) /\ At(r.after, f) = At(a, f)
              /\ At(b, f) # At(a, f) /\ ~Unsure(b, a, f)
              /\ r.before.present = b.present /\ r.after.present = a.present
<1> DEFINE both == b.ok /\ a.ok /\ SameRoot(b, a)
           differ == {f \in Files : At(b, f) # At(a, f)}
           entries == IF both THEN {f \in differ : ~Unsure(b, a, f)} ELSE {}
           partial == both /\ (b.partial \/ a.partial \/ entries # differ)
           before == IF both THEN Kept(b, entries) ELSE Unavailable
           after == IF both THEN Kept(a, entries) ELSE Unavailable
           r == Compare(b, a, g)
<1>1. r = [state |-> "frozen", ok |-> both, entries |-> entries, partial |-> partial, background |-> g,
           undo |-> "ready", before |-> before, after |-> after]
  BY DEF Compare
<1>2. both \in BOOLEAN /\ partial \in BOOLEAN /\ entries \in SUBSET Files
  BY StoredFiles DEF SameRoot
<1>3. \A f \in entries : At(b, f) # At(a, f) /\ ~Unsure(b, a, f) OBVIOUS
<1>4. /\ before \in Stored /\ after \in Stored
      /\ DOMAIN before.files \subseteq entries /\ DOMAIN after.files \subseteq entries
      /\ Contents(before) \subseteq Contents(b) /\ Contents(after) \subseteq Contents(a)
      /\ \A f \in entries : /\ At(before, f) = At(b, f) /\ At(after, f) = At(a, f)
                             /\ before.present = b.present /\ after.present = a.present
  <2>1. CASE both
    <3>1. b \in Snapshots /\ a \in Snapshots BY <2>1 DEF Stored, Unavailable
    <3>2. before = Kept(b, entries) /\ after = Kept(a, entries) BY <2>1
    <3> HIDE DEF entries, before, after
    <3>3. QED BY <1>2, <3>1, <3>2, KeptOf DEF Stored
  <2>2. CASE ~both
    <3>1. entries = {} /\ before = Unavailable /\ after = Unavailable BY <2>2
    <3>2. DOMAIN Unavailable.files = {} /\ Contents(Unavailable) = {} BY DEF Unavailable, Contents
    <3>3. QED BY <3>1, <3>2 DEF Stored
  <2>3. QED BY <2>1, <2>2
<1> HIDE DEF both, entries, partial, before, after, r
<1>5. r \in FrozenRows BY <1>1, <1>2, <1>4 DEF FrozenRows
<1>6. r.entries = entries /\ r.before = before /\ r.after = after BY <1>1
<1>7. QED BY <1>3, <1>4, <1>5, <1>6 DEF r

-----------------------------------------------------------------------------
(* The types. *)

LEMMA MaxOfOne == ASSUME NEW x \in Nat, NEW S, S \subseteq {x}, S # {} PROVE Max(S) = x
<1>1. S = {x} OBVIOUS
<1>2. x \in S /\ \A y \in S : x >= y BY <1>1
<1>3. Max(S) \in S BY <1>2 DEF Max
<1>4. QED BY <1>1, <1>3

\* A turn ends the turn whose baseline it has.
Current ==
  \A s \in Sessions :
    /\ act[s] = "begun" => turnOf[s] \in Turns /\ author[turnOf[s]] = s /\ row[turnOf[s]] = NoRow
    /\ Open(s) \subseteq (IF act[s] \in {"running", "ending"} THEN {turnOf[s]} ELSE {})

\* What the turn of s is frozen from.
LEMMA FrozenFrom ==
  ASSUME Typed, Current, NEW s \in Sessions, Open(s) # {}
  PROVE  /\ Max(Open(s)) = turnOf[s] /\ turnOf[s] \in Turns /\ author[turnOf[s]] = s
         /\ row[turnOf[s]] \in OpenRows
<1>1. Open(s) \subseteq {turnOf[s]} /\ turnOf[s] \in Nat BY DEF Current, Typed, TypedSessions
<1>2. Max(Open(s)) = turnOf[s] BY <1>1, MaxOfOne
<1>3. turnOf[s] \in Open(s) BY <1>1
<1>4. turnOf[s] \in Turns /\ author[turnOf[s]] = s /\ row[turnOf[s]].state = "open" BY <1>3 DEF Open
<1>5. row[turnOf[s]] \in Rows BY <1>4 DEF Typed, TypedStore
<1>6. QED BY <1>2, <1>4, <1>5, RowsByState

\* A turn gets its baseline, or its end, and nothing else of the store changes
\* but the objects.
LEMMA BaselineRow ==
  ASSUME Typed, Current, NEW s \in Sessions, Baseline(s)
  PROVE  /\ turnOf[s] \in Turns /\ author[turnOf[s]] = s /\ row[turnOf[s]] = NoRow
         /\ \E b \in Captured(cap[s]) :
              /\ b \in Stored /\ Contents(b) \subseteq Versions
              /\ OpenRow(b) \in OpenRows
              /\ row' = [row EXCEPT ![turnOf[s]] = OpenRow(b)] /\ objects' = objects \cup Contents(b)
              /\ \/ task' = task
                 \/ \E d \in {b, Unavailable} : task' = [task EXCEPT ![s] = OpenRow(d)] /\ OpenRow(d) \in OpenRows
<1>1. act[s] = "begun" BY DEF Baseline
<1>2. turnOf[s] \in Turns /\ author[turnOf[s]] = s /\ row[turnOf[s]] = NoRow BY <1>1 DEF Current
<1>3. PICK b \in Captured(cap[s]) :
        /\ row' = [row EXCEPT ![turnOf[s]] = OpenRow(b)]
        /\ task' = IF task[s] # NoRow THEN task
                   ELSE [task EXCEPT ![s] = OpenRow(IF FirstRequest(s) THEN b ELSE Unavailable)]
        /\ objects' = Publish(b)
  BY DEF Baseline
<1>4. cap[s] \in Captures /\ TypedTree /\ restarts \in 0..MaxRestarts BY DEF Typed, TypedSessions, TypedRest
<1>5. b \in Stored /\ Contents(b) \subseteq Versions BY <1>4, ReadIsSnapshot
<1>6. \A d \in Stored : OpenRow(d) \in OpenRows BY <1>4 DEF OpenRow, OpenRows
<1>7. Unavailable \in Stored BY DEF Stored
<1>8. \/ task' = task
      \/ \E d \in {b, Unavailable} : task' = [task EXCEPT ![s] = OpenRow(d)]
  BY <1>3
<1>9. objects' = objects \cup Contents(b) BY <1>3 DEF Publish
<1>10. QED BY <1>2, <1>3, <1>5, <1>6, <1>7, <1>8, <1>9

LEMMA FreezeRow ==
  ASSUME Typed, Current, NEW s \in Sessions, Freeze(s)
  PROVE  /\ turnOf[s] \in Turns /\ author[turnOf[s]] = s /\ row[turnOf[s]] \in OpenRows
         /\ Open(s) # {} /\ act[s] = "ending"
         /\ \E a \in Captured(cap[s]), g \in BOOLEAN :
              /\ a \in Stored /\ Contents(a) \subseteq Versions
              /\ row[turnOf[s]].before \in Stored
              /\ row' = [row EXCEPT ![turnOf[s]] = Compare(row[turnOf[s]].before, a, g)]
              /\ objects' = objects \cup Contents(a)
<1>1. Open(s) # {} /\ act[s] = "ending" BY DEF Freeze
<1>2. /\ Max(Open(s)) = turnOf[s] /\ turnOf[s] \in Turns /\ author[turnOf[s]] = s
      /\ row[turnOf[s]] \in OpenRows
  BY <1>1, FrozenFrom
<1> DEFINE t == Max(Open(s))
           g == bg[s] \/ bgAtStart[s]
<1>3. PICK a \in Captured(cap[s]) :
        /\ row' = [row EXCEPT ![t] = Compare(row[t].before, a, g)]
        /\ objects' = Publish(a)
  BY DEF Freeze
<1>4. cap[s] \in Captures /\ TypedTree /\ g \in BOOLEAN BY DEF Typed, TypedSessions
<1>5. a \in Stored /\ Contents(a) \subseteq Versions BY <1>4, ReadIsSnapshot
<1>6. row[turnOf[s]].before \in Stored BY <1>2 DEF OpenRows
<1>7. objects' = objects \cup Contents(a) BY <1>3 DEF Publish
<1>8. t = turnOf[s] BY <1>2
<1> HIDE DEF g, t
<1>9. QED BY <1>1, <1>2, <1>3, <1>4, <1>5, <1>6, <1>7, <1>8

\* A hand-off takes the baseline of the open turn, and the turn stays open.
LEMMA HandOffRow ==
  ASSUME Typed, NEW s \in Sessions, HandOff(s)
  PROVE  /\ row' \in [Turns -> Rows]
         /\ \A t \in Turns : t \notin Open(s) => row'[t] = row[t]
         /\ \A t \in Open(s) : /\ t \in Turns /\ row[t] \in OpenRows /\ row'[t] \in OpenRows
                              /\ row'[t] = [row[t] EXCEPT !.before = Unavailable]
                              /\ row'[t].before = Unavailable /\ row'[t].life = row[t].life
<1>1. row \in [Turns -> Rows] BY DEF Typed, TypedStore
<1>2. row' = [t \in Turns |-> IF t \in Open(s) THEN [row[t] EXCEPT !.before = Unavailable] ELSE row[t]]
  BY DEF HandOff, Overlap
<1>3. \A t \in Turns : t \notin Open(s) => row'[t] = row[t] BY <1>2
<1>4. ASSUME NEW t \in Open(s)
      PROVE  /\ t \in Turns /\ row[t] \in OpenRows /\ row'[t] \in OpenRows
             /\ row'[t] = [row[t] EXCEPT !.before = Unavailable]
             /\ row'[t].before = Unavailable /\ row'[t].life = row[t].life
  <2>1. t \in Turns /\ row[t].state = "open" BY DEF Open
  <2>2. row[t] \in OpenRows BY <1>1, <2>1, RowsByState
  <2>3. row'[t] = [row[t] EXCEPT !.before = Unavailable] BY <1>2, <2>1
  <2>4. Unavailable \in Stored BY DEF Stored
  <2> HIDE DEF Stored
  <2>5. QED BY <2>1, <2>2, <2>3, <2>4 DEF OpenRows
<1>5. \A t \in Turns : row'[t] \in Rows BY <1>1, <1>3, <1>4 DEF Rows
<1>6. row' \in [Turns -> Rows] BY <1>2, <1>5
<1>7. QED BY <1>3, <1>4, <1>6

\* What an undo under way relies on, and what it has done so far.
Undoing ==
  /\ undo.phase = "none" => undo = NoUndo
  /\ undo.phase # "none" => undo.turn \in Turns /\ row[undo.turn] \in FrozenRows
  /\ undo.phase = "closing" => undo.verified = {}
  /\ undo.phase = "restoring" =>
       /\ row[undo.turn].undo = "unknown"
       /\ undo.verified \subseteq undo.todo /\ undo.todo \subseteq row[undo.turn].entries
       /\ \A f \in undo.verified : disk[f] = At(row[undo.turn].after, f) \/ f \in touched
       /\ \A f \in row[undo.turn].entries \ (undo.todo \cup touched) : disk[f] = At(row[undo.turn].before, f)

\* Only the state of the undo changes in the row.
LEMMA UndoneRow ==
  ASSUME row \in [Turns -> Rows], NEW t \in Turns, row[t] \in FrozenRows,
         NEW x \in {"ready", "unknown", "reverted"}, row' = [row EXCEPT ![t].undo = x]
  PROVE  /\ row' \in [Turns -> Rows] /\ row'[t] = [row[t] EXCEPT !.undo = x] /\ row'[t] \in FrozenRows
         /\ row'[t].undo = x /\ row'[t].entries = row[t].entries
         /\ row'[t].before = row[t].before /\ row'[t].after = row[t].after
         /\ \A u \in Turns : u # t => row'[u] = row[u]
<1>1. row' = [row EXCEPT ![t] = [row[t] EXCEPT !.undo = x]] OBVIOUS
<1>2. [row[t] EXCEPT !.undo = x] \in FrozenRows BY DEF FrozenRows
<1>3. row'[t] = [row[t] EXCEPT !.undo = x] /\ \A u \in Turns : u # t => row'[u] = row[u] BY <1>1
<1>4. row' \in [Turns -> Rows] BY <1>1, <1>2 DEF Rows
<1>5. QED BY <1>2, <1>3, <1>4 DEF FrozenRows

LEMMA RestartRows ==
  ASSUME row \in [Turns -> Rows], row' = AfterRestart
  PROVE  /\ row' \in [Turns -> Rows]
         /\ \A t \in Turns : \/ row[t] \in OpenRows /\ row'[t] = Dropped
                             \/ row[t] \notin OpenRows /\ row'[t] = row[t] /\ row[t].state # "open"
<1>1. \A t \in Turns : row'[t] = IF row[t].state = "open" THEN Dropped ELSE row[t] BY DEF AfterRestart
<1>2. \A t \in Turns : row[t] \in Rows /\ (row[t].state = "open" <=> row[t] \in OpenRows) BY RowsByState
<1>3. Dropped \in Rows BY DEF Rows
<1>4. row' \in [Turns -> Rows] BY <1>1, <1>2, <1>3 DEF AfterRestart
<1>5. QED BY <1>1, <1>2, <1>4

LEMMA SessionTypes ==
  ASSUME Typed, Current, NEW s \in Sessions, SessionStep(s)
  PROVE  Typed'
<1> USE DEF Typed, TypedTree, TypedSessions, TypedStore, TypedRest
<1>1. NoCapture \in Captures BY DEF NoCapture, Captures
<1>2. CASE Begin(s)
  <2>1. Turns \subseteq 0..MaxTurns BY TurnChangesAssumption DEF Turns
  <2>2. QED BY <1>2, <2>1 DEF Begin
<1>3. CASE List(s)
  <2>1. Listing \in Captures
    <3>1. Inventory \subseteq Files /\ Present \subseteq Files BY DEF Inventory, Present
    <3>2. QED BY <3>1 DEF Listing, Captures
  <2>2. QED BY <1>3, <2>1 DEF List
<1>4. CASE Baseline(s)
  <2>1. act' = [act EXCEPT ![s] = "running"] /\ cap' = [cap EXCEPT ![s] = NoCapture]
        /\ bgAtStart' = [bgAtStart EXCEPT ![s] = bg[s]]
        /\ UNCHANGED <<tree, turnOf, bg, natively, terminal, author, undo, moves, restarts, touched>>
    BY <1>4 DEF Baseline
  <2>2. TypedSessions' BY <1>1, <2>1
  <2>3. PICK b \in Captured(cap[s]) :
          /\ b \in Stored /\ Contents(b) \subseteq Versions /\ OpenRow(b) \in OpenRows
          /\ row' = [row EXCEPT ![turnOf[s]] = OpenRow(b)] /\ objects' = objects \cup Contents(b)
          /\ \/ task' = task
             \/ \E d \in {b, Unavailable} : task' = [task EXCEPT ![s] = OpenRow(d)] /\ OpenRow(d) \in OpenRows
    BY <1>4, BaselineRow
  <2>4. row' \in [Turns -> Rows] BY <2>3 DEF Rows
  <2>5. task' \in [Sessions -> {NoRow} \cup OpenRows] BY <2>3
  <2>6. QED BY <2>1, <2>2, <2>3, <2>4, <2>5
<1>5. CASE Background(s)
  <2>1. moves' \in 0..MaxMoves BY <1>5, TurnChangesAssumption DEF Background, CountMove
  <2>2. QED BY <1>5, <2>1 DEF Background
<1>6. CASE EndTurn(s) BY <1>6 DEF EndTurn
<1>7. CASE Freeze(s)
  <2>1. act' = [act EXCEPT ![s] = "frozen"] /\ cap' = [cap EXCEPT ![s] = NoCapture]
        /\ ahead' = [ahead EXCEPT ![s] = FALSE]
        /\ UNCHANGED <<tree, turnOf, bg, bgAtStart, handed, terminal, author, task, undo, moves, restarts, touched>>
    BY <1>7 DEF Freeze
  <2>2. TypedSessions' BY <1>1, <2>1
  <2>3. PICK a \in Captured(cap[s]), g \in BOOLEAN :
          /\ a \in Stored /\ Contents(a) \subseteq Versions /\ row[turnOf[s]].before \in Stored
          /\ row' = [row EXCEPT ![turnOf[s]] = Compare(row[turnOf[s]].before, a, g)]
          /\ objects' = objects \cup Contents(a)
    BY <1>7, FreezeRow
  <2>4. Compare(row[turnOf[s]].before, a, g) \in Rows BY <2>3, CompareOf DEF Rows
  <2>5. row' \in [Turns -> Rows] BY <2>3, <2>4
  <2>6. QED BY <2>1, <2>2, <2>3, <2>5
<1>8. CASE Settle(s) BY <1>1, <1>8 DEF Settle
<1>9. CASE HandOff(s)
  <2>1. row' \in [Turns -> Rows] BY <1>9, HandOffRow
  <2>2. QED BY <1>9, <2>1 DEF HandOff
<1>10. CASE InputsSettled(s) BY <1>10 DEF InputsSettled
<1>11. CASE BeginsNext(s) BY <1>11 DEF BeginsNext
<1>12. CASE NativeTurn(s) BY <1>12 DEF NativeTurn
<1>13. QED
  BY <1>2, <1>3, <1>4, <1>5, <1>6, <1>7, <1>8, <1>9, <1>10, <1>11, <1>12 DEF SessionStep

LEMMA OtherTypes ==
  ASSUME Typed, Current, Undoing,
         \/ \E f \in Files : ChangeRules(f) \/ Verify(f) \/ Restore(f)
         \/ \E f \in Files, v \in Versions \cup {Absent, Link} : Write(f, v)
         \/ \E t \in Turns : UndoAsked(t)
         \/ ReplaceRoot \/ Terminal \/ UndoIntent \/ UndoDone \/ UndoFails \/ Restart
  PROVE  Typed'
<1> USE DEF Typed, TypedTree, TypedSessions, TypedStore, TypedRest
<1>1. NoUndo \in Undos BY DEF NoUndo, Undos
<1>2. CountMove => moves' \in 0..MaxMoves BY TurnChangesAssumption DEF CountMove
<1>3. ASSUME NEW f \in Files, ChangeRules(f) PROVE Typed' BY <1>2, <1>3 DEF ChangeRules
<1>4. ASSUME NEW f \in Files, Verify(f) PROVE Typed'
  <2>1. undo' \in Undos BY <1>4 DEF Verify, Undos
  <2>2. QED BY <1>4, <2>1 DEF Verify
<1>5. ASSUME NEW f \in Files, Restore(f) PROVE Typed'
  <2>1. undo' \in Undos BY <1>5 DEF Restore, Undos
  <2>2. row[undo.turn].before \in Stored BY <1>5 DEF Restore, Undoing, FrozenRows
  <2>3. At(row[undo.turn].before, f) \in Versions \cup {Absent, Link} BY <2>2, StoredFiles DEF At
  <2>4. QED BY <1>5, <2>1, <2>3 DEF Restore
<1>6. ASSUME NEW f \in Files, NEW v \in Versions \cup {Absent, Link}, Write(f, v) PROVE Typed'
  BY <1>2, <1>6 DEF Write
<1>7. ASSUME NEW t \in Turns, UndoAsked(t) PROVE Typed'
  <2>1. undo' \in Undos BY <1>1, <1>7 DEF UndoAsked, Undos
  <2>2. QED BY <1>7, <2>1 DEF UndoAsked
<1>8. CASE ReplaceRoot BY <1>2, <1>8 DEF ReplaceRoot
<1>9. CASE Terminal BY <1>9 DEF Terminal
<1>10. CASE UndoIntent
  <2>1. undo.turn \in Turns /\ row[undo.turn] \in FrozenRows /\ row' = [row EXCEPT ![undo.turn].undo = "unknown"]
    BY <1>10 DEF UndoIntent, Undoing
  <2>2. row' \in [Turns -> Rows] BY <2>1, UndoneRow
  <2>3. row[undo.turn].entries \subseteq Files BY <2>1 DEF FrozenRows
  <2>4. undo' \in Undos BY <1>10, <2>3 DEF UndoIntent, Undos
  <2>5. QED BY <1>10, <2>2, <2>4 DEF UndoIntent
<1>11. CASE UndoDone
  <2>1. undo.turn \in Turns /\ row[undo.turn] \in FrozenRows /\ row' = [row EXCEPT ![undo.turn].undo = "reverted"]
    BY <1>11 DEF UndoDone, Undoing
  <2>2. row' \in [Turns -> Rows] BY <2>1, UndoneRow
  <2>3. QED BY <1>1, <1>11, <2>2 DEF UndoDone
<1>12. CASE UndoFails BY <1>1, <1>12 DEF UndoFails
<1>13. CASE Restart
  <2>1. row' \in [Turns -> Rows] BY <1>13, RestartRows DEF Restart
  <2>2. restarts' \in 0..MaxRestarts BY <1>13, TurnChangesAssumption DEF Restart
  <2>3. NoCapture \in Captures BY DEF NoCapture, Captures
  <2>4. QED BY <1>1, <1>13, <2>1, <2>2, <2>3 DEF Restart
<1>14. QED BY <1>3, <1>4, <1>5, <1>6, <1>7, <1>8, <1>9, <1>10, <1>11, <1>12, <1>13

-----------------------------------------------------------------------------
(* Turns and their sessions.                                                 *)

\* A baseline is of the present life of the daemon.
Lives == \A t \in Turns : row[t].state = "open" => row[t].life = restarts
\* A turn nobody has begun has no row.
Unwritten == \A t \in Turns : author[t] = NoSession => row[t] = NoRow
\* An input that was handed off during a turn, and may be begun before the end of
\* the turn is captured, has taken its baseline.
Overlapped ==
  \A s \in Sessions :
    /\ act[s] = "begun" => ~handed[s]
    /\ ahead[s] => Open(s) # {}
    /\ handed[s] \/ ahead[s] => \A t \in Open(s) : row[t].before = Unavailable
SessionsInv == Lives /\ Unwritten /\ Current /\ Overlapped /\ QuietRestore

LEMMA NoAuthor == NoSession \notin Sessions BY TurnChangesAssumption

LEMMA SessionSteps ==
  ASSUME Typed, SessionsInv, NEW s \in Sessions, SessionStep(s)
  PROVE  SessionsInv'
<1> USE DEF SessionsInv
<1>1. /\ act \in [Sessions -> {"idle", "begun", "running", "ending", "frozen"}]
      /\ turnOf \in [Sessions -> 0..MaxTurns] /\ bg \in [Sessions -> BOOLEAN] /\ row \in [Turns -> Rows]
      /\ author \in [Turns -> Sessions \cup {NoSession}]
      /\ handed \in [Sessions -> BOOLEAN] /\ ahead \in [Sessions -> BOOLEAN]
  BY DEF Typed, TypedSessions, TypedStore
<1>2. CASE Begin(s)
  <2>1. PICK t \in Turns : /\ author[t] = NoSession /\ author' = [author EXCEPT ![t] = s]
                           /\ turnOf' = [turnOf EXCEPT ![s] = t]
    BY <1>2 DEF Begin
  <2>2. /\ undo.phase = "none" /\ act[s] = "idle" /\ act' = [act EXCEPT ![s] = "begun"]
        /\ ~handed[s] /\ UNCHANGED <<row, undo, restarts, natively>>
    BY <1>2 DEF Begin, Admitted
  <2>3. row[t] = NoRow BY <2>1 DEF Unwritten
  <2>4. \A u \in Sessions : Open(u)' = Open(u)
    <3>1. row[t].state # "open" BY <2>3 DEF NoRow
    <3>2. \A u \in Sessions, v \in Turns : v # t => author'[v] = author[v] BY <1>1, <2>1
    <3>3. QED BY <2>2, <3>1, <3>2 DEF Open
  <2>5. Current'
    <3>1. ASSUME NEW u \in Sessions, u # s
          PROVE  act'[u] = act[u] /\ turnOf'[u] = turnOf[u]
      BY <1>1, <2>1, <2>2, <3>1
    <3>2. ASSUME NEW u \in Sessions, u # s, turnOf[u] \in Turns, author[turnOf[u]] = u
          PROVE  author'[turnOf[u]] = u
      BY <1>1, <2>1, <3>2, NoAuthor
    <3>3. act'[s] = "begun" /\ turnOf'[s] = t /\ author'[t] = s /\ row'[t] = NoRow BY <1>1, <2>1, <2>2, <2>3
    <3>4. Open(s) = {} BY <2>2 DEF Current
    <3>5. QED BY <2>2, <2>4, <3>1, <3>2, <3>3, <3>4 DEF Current
  <2>6. Lives' BY <2>2 DEF Lives
  <2>7. Unwritten' BY <1>1, <2>1, <2>2, NoAuthor DEF Unwritten
  <2>8. Overlapped'
    <3>1. \A u \in Sessions : act'[u] = "begun" => u = s \/ act[u] = "begun" BY <1>1, <2>2
    <3>2. QED BY <2>2, <2>4, <3>1 DEF Overlapped
  <2>9. QuietRestore' BY <2>2 DEF QuietRestore
  <2>10. QED BY <2>5, <2>6, <2>7, <2>8, <2>9
<1>3. CASE \/ List(s) \/ Background(s) \/ EndTurn(s) \/ Settle(s)
           \/ InputsSettled(s) \/ BeginsNext(s) \/ NativeTurn(s)
  <2> USE DEF List, Background, EndTurn, Settle, InputsSettled, BeginsNext, NativeTurn
  <2>1. UNCHANGED <<row, author, turnOf, undo, restarts, terminal>> BY <1>3
  <2>2. \A u \in Sessions : Open(u)' = Open(u) BY <2>1 DEF Open
  <2>3. Lives' /\ Unwritten' BY <2>1 DEF Lives, Unwritten
  <2>4. \A u \in Sessions : u # s => act'[u] = act[u] /\ bg'[u] = bg[u]
                                  /\ handed'[u] = handed[u] /\ ahead'[u] = ahead[u]
    BY <1>1, <1>3
  <2>5. \/ act'[s] = act[s]
        \/ act[s] \in {"running", "idle"} /\ act'[s] = "ending"
        \/ Open(s) = {} /\ act'[s] = "idle"
        \/ Open(s) = {} /\ act'[s] = "running" /\ (handed[s] \/ bg[s])
    <3>1. CASE Settle(s)
      <4>1. act[s] = "frozen" => Open(s) = {} BY DEF Current
      <4>2. QED BY <1>1, <3>1, <4>1
    <3>2. CASE NativeTurn(s)
      <4>1. act[s] = "idle" => Open(s) = {} BY DEF Current
      <4>2. QED BY <1>1, <3>2, <4>1
    <3>3. CASE List(s) \/ Background(s) \/ EndTurn(s) \/ InputsSettled(s) \/ BeginsNext(s) BY <1>1, <3>3
    <3>4. QED BY <1>3, <3>1, <3>2, <3>3
  <2>6. /\ bg'[s] => bg[s] \/ act[s] = "running"
        /\ handed'[s] => handed[s] \/ (ahead[s] /\ act[s] = "running")
        /\ ahead'[s] => ahead[s] \/ (handed[s] /\ Open(s) # {})
        /\ act'[s] = "begun" => act[s] = "begun" /\ handed'[s] = handed[s]
    <3>1. CASE EndTurn(s) BY <1>1, <3>1
    <3>2. CASE List(s) \/ Background(s) \/ Settle(s) \/ InputsSettled(s) \/ BeginsNext(s) \/ NativeTurn(s)
      BY <1>1, <3>2
    <3>3. QED BY <1>3, <3>1, <3>2
  <2> HIDE DEF List, Background, EndTurn, Settle, InputsSettled, BeginsNext, NativeTurn
  <2>7. Current' BY <2>1, <2>2, <2>4, <2>5 DEF Current
  <2>8. Overlapped' BY <2>1, <2>2, <2>4, <2>6 DEF Overlapped
  <2>9. undo.phase # "none" => act'[s] \in {"idle", "ending"} /\ ~bg'[s] /\ ~handed'[s]
    <3>1. undo.phase # "none" => act[s] \in {"idle", "ending"} /\ ~bg[s] /\ ~handed[s] BY DEF QuietRestore
    <3>2. QED BY <2>5, <2>6, <3>1
  <2>10. QuietRestore' BY <2>1, <2>2, <2>4, <2>9 DEF QuietRestore
  <2>11. QED BY <2>3, <2>7, <2>8, <2>10
<1>4. CASE Baseline(s)
  <2>1. turnOf[s] \in Turns /\ author[turnOf[s]] = s /\ row[turnOf[s]] = NoRow BY <1>4, BaselineRow
  <2>2. PICK b : row' = [row EXCEPT ![turnOf[s]] = OpenRow(b)] BY <1>4, BaselineRow
  <2>3. OpenRow(b).life = restarts BY DEF OpenRow
  <2>4. act[s] = "begun" /\ act' = [act EXCEPT ![s] = "running"]
        /\ UNCHANGED <<author, turnOf, bg, natively, undo, restarts, terminal>>
    BY <1>4 DEF Baseline
  <2>5. \A t \in Turns : t # turnOf[s] => row'[t] = row[t] BY <1>1, <2>1, <2>2
  <2>6. row'[turnOf[s]] = OpenRow(b) BY <1>1, <2>1, <2>2
  <2>7. \A u \in Sessions : u # s => Open(u)' = Open(u) BY <2>1, <2>4, <2>5 DEF Open
  <2>8. Open(s)' \subseteq {turnOf[s]}
    <3>1. Open(s) = {} BY <2>4 DEF Current
    <3>2. QED BY <2>4, <2>5, <3>1 DEF Open
  <2>9. Lives' BY <2>3, <2>4, <2>5, <2>6 DEF Lives
  <2>10. Unwritten' BY <2>1, <2>4, <2>5, NoAuthor DEF Unwritten
  <2>11. Current'
    <3>1. ASSUME NEW u \in Sessions, u # s
          PROVE  /\ act'[u] = act[u]
                 /\ act[u] = "begun" => row'[turnOf[u]] = row[turnOf[u]]
      <4>1. act'[u] = act[u] BY <1>1, <2>4, <3>1
      <4>2. act[u] = "begun" => turnOf[u] \in Turns /\ turnOf[u] # turnOf[s] BY <2>1, <3>1 DEF Current
      <4>3. QED BY <2>5, <4>1, <4>2
    <3>2. act'[s] = "running" BY <1>1, <2>4
    <3>3. QED BY <2>1, <2>4, <2>7, <2>8, <3>1, <3>2 DEF Current
  <2>12. undo.phase = "none" BY <2>4 DEF QuietRestore
  <2>13. QuietRestore' BY <2>4, <2>12 DEF QuietRestore
  <2>14. Overlapped'
    <3>1. ~handed[s] /\ ~ahead[s] BY <2>4 DEF Overlapped, Current
    <3>2. \A u \in Sessions : act'[u] = "begun" => u # s /\ act[u] = "begun" BY <1>1, <2>4
    <3>3. \A u \in Sessions : u # s => \A t \in Open(u) : row'[t] = row[t] BY <2>1, <2>5 DEF Open
    <3>4. QED BY <2>4, <2>7, <3>1, <3>2, <3>3 DEF Overlapped
  <2>15. QED BY <2>9, <2>10, <2>11, <2>13, <2>14
<1>5. CASE Freeze(s)
  <2>1. turnOf[s] \in Turns /\ author[turnOf[s]] = s /\ Open(s) # {} /\ act[s] = "ending" BY <1>5, FreezeRow
  <2>2. PICK b, a, g : row' = [row EXCEPT ![turnOf[s]] = Compare(b, a, g)] BY <1>5, FreezeRow
  <2>3. Compare(b, a, g).state = "frozen" BY DEF Compare
  <2>4. act' = [act EXCEPT ![s] = "frozen"] /\ ahead' = [ahead EXCEPT ![s] = FALSE]
        /\ UNCHANGED <<author, turnOf, bg, handed, undo, restarts, terminal>>
    BY <1>5 DEF Freeze
  <2>5. \A t \in Turns : t # turnOf[s] => row'[t] = row[t] BY <1>1, <2>1, <2>2
  <2>6. row'[turnOf[s]].state = "frozen" BY <1>1, <2>1, <2>2, <2>3
  <2>7. \A u \in Sessions : u # s => Open(u)' = Open(u) BY <2>1, <2>4, <2>5 DEF Open
  <2>8. Open(s)' = {}
    <3>1. Open(s) \subseteq {turnOf[s]} BY DEF Current
    <3>2. QED BY <2>4, <2>5, <2>6, <3>1 DEF Open
  <2>9. Lives' BY <2>4, <2>5, <2>6 DEF Lives
  <2>10. Unwritten' BY <2>1, <2>4, <2>5, NoAuthor DEF Unwritten
  <2>11. Current'
    <3>1. ASSUME NEW u \in Sessions, u # s
          PROVE  /\ act'[u] = act[u]
                 /\ act[u] = "begun" => row'[turnOf[u]] = row[turnOf[u]]
      <4>1. act'[u] = act[u] BY <1>1, <2>4, <3>1
      <4>2. act[u] = "begun" => turnOf[u] \in Turns /\ turnOf[u] # turnOf[s] BY <2>1, <3>1 DEF Current
      <4>3. QED BY <2>5, <4>1, <4>2
    <3>2. act'[s] = "frozen" BY <1>1, <2>4
    <3>3. QED BY <2>4, <2>7, <2>8, <3>1, <3>2 DEF Current
  <2>12. undo.phase = "none" BY <2>1 DEF QuietRestore
  <2>13. QuietRestore' BY <2>4, <2>12 DEF QuietRestore
  <2>14. Overlapped'
    <3>1. \A u \in Sessions : act'[u] = "begun" => act[u] = "begun" BY <1>1, <2>4
    <3>2. ~ahead'[s] /\ \A u \in Sessions : u # s => ahead'[u] = ahead[u] BY <1>1, <2>4
    <3>3. \A u \in Sessions : u # s => \A t \in Open(u) : row'[t] = row[t] BY <2>1, <2>5 DEF Open
    <3>4. QED BY <2>4, <2>7, <2>8, <3>1, <3>2, <3>3 DEF Overlapped
  <2>15. QED BY <2>9, <2>10, <2>11, <2>13, <2>14
<1>6. CASE HandOff(s)
  <2>1. /\ \A t \in Turns : t \notin Open(s) => row'[t] = row[t]
        /\ \A t \in Open(s) : /\ t \in Turns /\ row[t] \in OpenRows /\ row'[t] \in OpenRows
                             /\ row'[t].before = Unavailable /\ row'[t].life = row[t].life
    BY <1>6, HandOffRow
  <2>2. /\ act[s] = "running" /\ handed' = [handed EXCEPT ![s] = TRUE]
        /\ UNCHANGED <<act, author, turnOf, bg, ahead, undo, restarts, terminal>>
    BY <1>6 DEF HandOff
  <2>3. \A t \in Open(s) : author[t] = s /\ row[t].state = "open" /\ row'[t].state = "open"
    BY <2>1 DEF Open, OpenRows
  <2>4. \A u \in Sessions : Open(u)' = Open(u) BY <2>1, <2>2, <2>3 DEF Open
  <2>5. Lives' BY <2>1, <2>2, <2>3 DEF Lives
  <2>6. Unwritten' BY <2>1, <2>2, <2>3, NoAuthor DEF Unwritten
  <2>7. Current'
    <3>1. NoRow.state # "open" BY DEF NoRow
    <3>2. \A t \in Turns : row[t] = NoRow => row'[t] = NoRow BY <2>1, <2>3, <3>1
    <3>3. QED BY <2>2, <2>4, <3>2 DEF Current
  <2>8. Overlapped'
    <3>1. handed'[s] /\ \A u \in Sessions : u # s => handed'[u] = handed[u] BY <1>1, <2>2
    <3>2. \A u \in Sessions : u # s => \A t \in Open(u) : row'[t] = row[t] BY <2>1, <2>3 DEF Open
    <3>3. QED BY <2>1, <2>2, <2>4, <3>1, <3>2 DEF Overlapped
  <2>9. undo'.phase = "none" BY <2>2 DEF QuietRestore
  <2>10. QuietRestore' BY <2>9 DEF QuietRestore
  <2>11. QED BY <2>5, <2>6, <2>7, <2>8, <2>10
<1>7. QED BY <1>2, <1>3, <1>4, <1>5, <1>6 DEF SessionStep

\* The steps that leave the sessions as they are, and the restart.
LEMMA SessionsBeside ==
  ASSUME Typed, SessionsInv, Undoing,
         \/ \E f \in Files : ChangeRules(f) \/ Verify(f) \/ Restore(f)
         \/ \E f \in Files, v \in Versions \cup {Absent, Link} : Write(f, v)
         \/ \E t \in Turns : UndoAsked(t)
         \/ ReplaceRoot \/ Terminal \/ UndoIntent \/ UndoDone \/ UndoFails \/ Restart
  PROVE  SessionsInv'
<1> USE DEF SessionsInv
<1>1. row \in [Turns -> Rows] BY DEF Typed, TypedStore
<1>2. ASSUME UNCHANGED <<row, author, act, turnOf, bg, restarts, natively>>
      PROVE  /\ Lives' /\ Unwritten' /\ Current' /\ Overlapped'
             /\ \A s \in Sessions : Open(s)' = Open(s)
  <2>1. \A s \in Sessions : Open(s)' = Open(s) BY <1>2 DEF Open
  <2>2. QED BY <1>2, <2>1 DEF Lives, Unwritten, Current, Overlapped
<1>3. CASE \/ \E f \in Files : ChangeRules(f) \/ Verify(f) \/ Restore(f)
           \/ \E f \in Files, v \in Versions \cup {Absent, Link} : Write(f, v)
           \/ ReplaceRoot \/ Terminal \/ UndoFails
  <2>1. UNCHANGED <<row, author, act, turnOf, bg, restarts, natively>>
    BY <1>3 DEF ChangeRules, Verify, Restore, Write, ReplaceRoot, Terminal, UndoFails
  <2>2. undo'.phase # "none" => undo.phase # "none"
    <3>1. undo \in Undos BY DEF Typed, TypedRest
    <3>2. ASSUME NEW f \in Files, Verify(f) \/ Restore(f) PROVE undo'.phase = undo.phase
      BY <3>1, <3>2 DEF Verify, Restore, Undos
    <3>3. CASE UndoFails BY <3>3 DEF UndoFails, NoUndo
    <3>4. CASE UNCHANGED undo BY <3>4
    <3>5. QED BY <1>3, <3>2, <3>3, <3>4 DEF ChangeRules, Write, ReplaceRoot, Terminal
  <2>3. undo.phase # "none" /\ terminal' => terminal
    BY <1>3 DEF ChangeRules, Verify, Restore, Write, ReplaceRoot, Terminal, UndoFails, Admitted
  <2>4. QED BY <1>2, <2>1, <2>2, <2>3 DEF QuietRestore
<1>4. ASSUME NEW t \in Turns, UndoAsked(t) PROVE SessionsInv'
  <2>1. UNCHANGED <<row, author, act, turnOf, bg, restarts, terminal, natively>> /\ HostIdle BY <1>4 DEF UndoAsked
  <2>2. \A s \in Sessions : act[s] = "idle" /\ ~bg[s] /\ ~handed[s] /\ ~terminal BY <2>1 DEF HostIdle
  <2>3. \A s \in Sessions : Open(s) = {} BY <2>2 DEF Current
  <2>4. QED BY <1>2, <2>1, <2>2, <2>3 DEF QuietRestore, HostIdle
<1>5. CASE UndoIntent \/ UndoDone
  <2>1. undo.turn \in Turns /\ row[undo.turn] \in FrozenRows /\ undo.phase # "none"
    BY <1>5 DEF UndoIntent, UndoDone, Undoing
  <2>2. PICK x \in {"unknown", "reverted"} : row' = [row EXCEPT ![undo.turn].undo = x]
    BY <1>5 DEF UndoIntent, UndoDone
  <2>3. UNCHANGED <<author, act, turnOf, bg, restarts, terminal, natively>> BY <1>5 DEF UndoIntent, UndoDone
  <2>4. /\ row'[undo.turn] \in FrozenRows
        /\ \A u \in Turns : u # undo.turn => row'[u] = row[u]
    BY <1>1, <2>1, <2>2, UndoneRow
  <2>5. row[undo.turn].state = "frozen" /\ row'[undo.turn].state = "frozen" BY <2>1, <2>4 DEF FrozenRows
  <2>6. \A s \in Sessions : Open(s)' = Open(s) BY <2>3, <2>4, <2>5 DEF Open
  <2>7. Lives' BY <2>3, <2>4, <2>5 DEF Lives
  <2>8. Unwritten'
    <3>1. row[undo.turn] # NoRow BY <2>5 DEF NoRow
    <3>2. author[undo.turn] # NoSession BY <2>1, <3>1 DEF Unwritten
    <3>3. QED BY <2>3, <2>4, <3>2 DEF Unwritten
  <2>9. Current'
    <3>1. \A s \in Sessions : act[s] # "begun" BY <2>1 DEF QuietRestore
    <3>2. QED BY <2>3, <2>6, <3>1 DEF Current
  <2>10. QuietRestore' BY <2>1, <2>3, <2>6 DEF QuietRestore
  <2>11. Overlapped'
    <3>1. \A s \in Sessions : \A t \in Open(s) : row'[t] = row[t] BY <2>4, <2>5 DEF Open
    <3>2. QED BY <2>3, <2>6, <3>1 DEF Overlapped
  <2>12. QED BY <2>7, <2>8, <2>9, <2>10, <2>11
<1>6. CASE Restart
  <2>1. \A t \in Turns : \/ row[t] \in OpenRows /\ row'[t] = Dropped
                         \/ row[t] \notin OpenRows /\ row'[t] = row[t] /\ row[t].state # "open"
    <3>1. row' = AfterRestart BY <1>6 DEF Restart
    <3>2. QED BY <1>1, <3>1, RestartRows
  <2>2. /\ act' = [s \in Sessions |-> "idle"] /\ undo' = NoUndo /\ UNCHANGED author
        /\ handed' = [s \in Sessions |-> FALSE] /\ ahead' = [s \in Sessions |-> FALSE]
    BY <1>6 DEF Restart
  <2>3. \A t \in Turns : row'[t].state # "open" BY <2>1 DEF Dropped
  <2>4. \A s \in Sessions : Open(s)' = {} BY <2>3 DEF Open
  <2>5. Lives' BY <2>3 DEF Lives
  <2>6. Unwritten'
    <3>1. \A t \in Turns : row[t] = NoRow => row[t] \notin OpenRows
      <4>1. NoRow.state # "open" BY DEF NoRow
      <4>2. QED BY <1>1, <4>1, RowsByState
    <3>2. QED BY <2>1, <2>2, <3>1 DEF Unwritten
  <2>7. Current' BY <2>2, <2>4 DEF Current
  <2>8. QuietRestore' BY <2>2 DEF QuietRestore, NoUndo
  <2>9. Overlapped' BY <2>2 DEF Overlapped
  <2>10. QED BY <2>5, <2>6, <2>7, <2>8, <2>9
<1>7. QED BY <1>3, <1>4, <1>5, <1>6

-----------------------------------------------------------------------------
(* What the rows say. *)

\* A snapshot that is not partial has every file that was there.
Whole(b) == \A f \in b.present : At(b, f) = Absent => f \notin DOMAIN b.files /\ b.partial
WholeListing(c) == \A f \in c.present : f \in c.listed \/ c.partial
\* Every entry of a frozen turn is a change, and only entries are kept.
Trim(r) ==
  /\ DOMAIN r.before.files \cup DOMAIN r.after.files \subseteq r.entries
  /\ \A f \in r.entries : At(r.before, f) # At(r.after, f)
TrueToFiles(r) ==
  \A f \in r.entries :
    /\ At(r.before, f) = Absent => f \notin r.before.present
    /\ At(r.after, f) = Absent => f \notin r.after.present

Named ==
  /\ \A s \in Sessions : task[s] \in OpenRows => Contents(task[s].before) \subseteq objects
  /\ \A t \in Turns :
       /\ row[t] \in OpenRows \cup FrozenRows => Contents(row[t].before) \subseteq objects
       /\ row[t] \in FrozenRows => Contents(row[t].after) \subseteq objects
Trimmed == \A t \in Turns : row[t] \in FrozenRows => Trim(row[t])
Honest ==
  ~rulesEver =>
    /\ ignored = {}
    /\ \A s \in Sessions : WholeListing(cap[s])
    /\ \A t \in Turns :
         /\ row[t] \in OpenRows => Whole(row[t].before)
         /\ row[t] \in FrozenRows => TrueToFiles(row[t])
RowsInv == Named /\ Trimmed /\ Honest

LEMMA KindsDiffer == OpenRows \cap FrozenRows = {} /\ NoRow \notin OpenRows \cup FrozenRows /\ Dropped \notin OpenRows \cup FrozenRows
<1>1. \A x \in OpenRows : x.state = "open" BY DEF OpenRows
<1>2. \A x \in FrozenRows : x.state = "frozen" BY DEF FrozenRows
<1>3. NoRow.state = "none" /\ Dropped.state = "dropped" BY DEF NoRow, Dropped
<1>4. QED BY <1>1, <1>2, <1>3

\* What went away between the listing and the reading makes a snapshot partial.
LEMMA ReadIsWhole ==
  ASSUME NEW c \in Captures, WholeListing(c), NEW b \in Captured(c)
  PROVE  Whole(b)
<1>1. CASE b = Unavailable BY <1>1 DEF Unavailable, Whole
<1>2. CASE b = Read(c)
  <2> DEFINE kept == {f \in c.listed : disk[f] # Link}
  <2>1. /\ b.files = [f \in kept |-> disk[f]] /\ b.partial = (c.partial \/ kept # c.listed)
        /\ b.present = c.present \cap Present
    BY <1>2 DEF Read
  <2>2. ASSUME NEW f \in b.present, At(b, f) = Absent PROVE f \notin kept /\ b.partial
    <3>1. f \in c.present /\ disk[f] # Absent BY <2>1, <2>2 DEF Present
    <3>2. DOMAIN b.files = kept /\ (f \in kept => b.files[f] = disk[f]) BY <2>1
    <3>3. f \notin kept BY <2>2, <3>1, <3>2 DEF At
    <3>4. c.partial \/ kept # c.listed BY <3>1, <3>3 DEF WholeListing
    <3>5. QED BY <2>1, <3>3, <3>4
  <2>3. DOMAIN b.files = kept BY <2>1
  <2>4. QED BY <2>2, <2>3 DEF Whole
<1>3. QED BY <1>1, <1>2 DEF Captured

\* Neither does the comparison of two whole snapshots make up a change.
LEMMA CompareIsTrue ==
  ASSUME NEW b \in Stored, NEW a \in Stored, NEW g \in BOOLEAN, Whole(b), Whole(a)
  PROVE  TrueToFiles(Compare(b, a, g))
<1> DEFINE r == Compare(b, a, g)
<1>1. \A f \in r.entries :
        /\ At(r.before, f) = At(b, f) /\ At(r.after, f) = At(a, f)
        /\ At(b, f) # At(a, f) /\ ~Unsure(b, a, f)
        /\ r.before.present = b.present /\ r.after.present = a.present
  BY CompareOf
<1> HIDE DEF r
<1>2. ASSUME NEW f \in r.entries, At(r.before, f) = Absent PROVE f \notin r.before.present
  <2>1. At(b, f) = Absent /\ At(a, f) # Absent /\ ~Unsure(b, a, f) /\ r.before.present = b.present
    BY <1>1, <1>2
  <2>2. ~(f \notin DOMAIN b.files /\ b.partial) BY <2>1 DEF Unsure
  <2>3. QED BY <2>1, <2>2 DEF Whole
<1>3. ASSUME NEW f \in r.entries, At(r.after, f) = Absent PROVE f \notin r.after.present
  <2>1. At(a, f) = Absent /\ At(b, f) # Absent /\ ~Unsure(b, a, f) /\ r.after.present = a.present
    BY <1>1, <1>3
  <2>2. ~(f \notin DOMAIN a.files /\ a.partial) BY <2>1 DEF Unsure
  <2>3. QED BY <2>1, <2>2 DEF Whole
<1>4. TrueToFiles(r) BY <1>2, <1>3 DEF TrueToFiles
<1>5. QED BY <1>4 DEF r

LEMMA RowsBySession ==
  ASSUME Typed, SessionsInv, RowsInv, NEW s \in Sessions, SessionStep(s)
  PROVE  RowsInv'
<1>1. /\ row \in [Turns -> Rows] /\ task \in [Sessions -> {NoRow} \cup OpenRows] /\ cap \in [Sessions -> Captures]
      /\ Current /\ TypedTree
  BY DEF Typed, TypedSessions, TypedStore, SessionsInv
<1>2. WholeListing(NoCapture) BY DEF WholeListing, NoCapture
<1>3. CASE Begin(s) \/ Background(s) \/ EndTurn(s) \/ InputsSettled(s) \/ BeginsNext(s) \/ NativeTurn(s)
  <2>1. UNCHANGED <<row, task, objects, cap, rulesEver, ignored>>
    BY <1>3 DEF Begin, Background, EndTurn, InputsSettled, BeginsNext, NativeTurn
  <2>2. QED BY <2>1 DEF RowsInv, Named, Trimmed, Honest
<1>4. CASE List(s) \/ Settle(s)
  <2>1. UNCHANGED <<row, task, objects, rulesEver, ignored>> BY <1>4 DEF List, Settle
  <2>2. cap' = [cap EXCEPT ![s] = Listing] \/ cap' = [cap EXCEPT ![s] = NoCapture] BY <1>4 DEF List, Settle
  <2>3. ASSUME ignored = {} PROVE WholeListing(Listing)
    <3>1. ASSUME NEW f \in Present PROVE f \in Listing.listed \/ Listing.partial
      BY <2>3 DEF Listing, Inventory
    <3>2. Listing.present = Present BY DEF Listing
    <3>3. QED BY <3>1, <3>2 DEF WholeListing
  <2>4. Honest'
    <3>1. ASSUME ~rulesEver PROVE \A u \in Sessions : WholeListing(cap'[u])
      <4>1. ignored = {} /\ \A u \in Sessions : WholeListing(cap[u]) BY <3>1 DEF RowsInv, Honest
      <4>2. \A u \in Sessions : cap'[u] \in {cap[u], Listing, NoCapture} BY <1>1, <2>2
      <4>3. QED BY <1>2, <2>3, <4>1, <4>2
    <3>2. QED BY <2>1, <3>1 DEF RowsInv, Honest
  <2>5. QED BY <2>1, <2>4 DEF RowsInv, Named, Trimmed
<1>5. CASE Baseline(s)
  <2>1. turnOf[s] \in Turns BY <1>1, <1>5, BaselineRow
  <2>2. PICK b \in Captured(cap[s]) :
          /\ b \in Stored /\ OpenRow(b) \in OpenRows
          /\ row' = [row EXCEPT ![turnOf[s]] = OpenRow(b)] /\ objects' = objects \cup Contents(b)
          /\ \/ task' = task
             \/ \E d \in {b, Unavailable} : task' = [task EXCEPT ![s] = OpenRow(d)] /\ OpenRow(d) \in OpenRows
    BY <1>1, <1>5, BaselineRow
  <2>3. /\ row'[turnOf[s]] = OpenRow(b) /\ OpenRow(b).before = b
        /\ \A t \in Turns : t # turnOf[s] => row'[t] = row[t]
    BY <1>1, <2>1, <2>2 DEF OpenRow
  <2>4. \A u \in Sessions : task'[u] = task[u] \/ \E d \in {b, Unavailable} : task'[u].before = d
    BY <1>1, <2>2 DEF OpenRow
  <2>5. Contents(Unavailable) = {} BY DEF Contents, Unavailable
  <2>6. OpenRow(b) \notin FrozenRows BY <2>2, KindsDiffer
  <2>7. Named' BY <2>2, <2>3, <2>4, <2>5, <2>6 DEF RowsInv, Named
  <2>8. Trimmed' BY <2>3, <2>6 DEF RowsInv, Trimmed
  <2>9. Honest'
    <3>1. cap' = [cap EXCEPT ![s] = NoCapture] /\ UNCHANGED <<rulesEver, ignored>> BY <1>5 DEF Baseline
    <3>2. ASSUME ~rulesEver PROVE Whole(b)
      <4>1. WholeListing(cap[s]) /\ cap[s] \in Captures BY <1>1, <3>2 DEF RowsInv, Honest
      <4>2. QED BY <4>1, ReadIsWhole
    <3>3. ~rulesEver => \A u \in Sessions : WholeListing(cap'[u]) BY <1>1, <1>2, <3>1 DEF RowsInv, Honest
    <3>4. QED BY <2>3, <2>6, <3>1, <3>2, <3>3 DEF RowsInv, Honest
  <2>10. QED BY <2>7, <2>8, <2>9 DEF RowsInv
<1>6. CASE Freeze(s)
  <2> DEFINE old == row[turnOf[s]]
  <2>1. turnOf[s] \in Turns /\ old \in OpenRows BY <1>1, <1>6, FreezeRow
  <2>2. PICK a \in Captured(cap[s]), g \in BOOLEAN :
          /\ a \in Stored /\ old.before \in Stored
          /\ row' = [row EXCEPT ![turnOf[s]] = Compare(old.before, a, g)]
          /\ objects' = objects \cup Contents(a)
    BY <1>1, <1>6, FreezeRow
  <2> DEFINE r == Compare(old.before, a, g)
  <2>3. /\ r \in FrozenRows /\ Trim(r)
        /\ Contents(r.before) \subseteq Contents(old.before) /\ Contents(r.after) \subseteq Contents(a)
    <3>1. \A f \in r.entries : At(r.before, f) # At(r.after, f) BY <2>2, CompareOf
    <3>2. QED BY <2>2, <3>1, CompareOf DEF Trim
  <2>4. ~rulesEver => TrueToFiles(r)
    <3>1. ASSUME ~rulesEver PROVE Whole(a) /\ Whole(old.before)
      <4>1. WholeListing(cap[s]) /\ cap[s] \in Captures BY <1>1, <3>1 DEF RowsInv, Honest
      <4>2. Whole(a) BY <4>1, ReadIsWhole
      <4>3. Whole(old.before) BY <2>1, <3>1 DEF RowsInv, Honest
      <4>4. QED BY <4>2, <4>3
    <3>2. QED BY <2>2, <3>1, CompareIsTrue
  <2>5. Contents(old.before) \subseteq objects BY <2>1 DEF RowsInv, Named
  <2>6. row'[turnOf[s]] = r /\ \A t \in Turns : t # turnOf[s] => row'[t] = row[t] BY <1>1, <2>1, <2>2
  <2>7. task' = task /\ cap' = [cap EXCEPT ![s] = NoCapture] /\ UNCHANGED <<rulesEver, ignored>>
    BY <1>6 DEF Freeze
  <2> HIDE DEF r, old
  <2>8. r \notin OpenRows BY <2>3, KindsDiffer
  <2>9. Named' BY <2>2, <2>3, <2>5, <2>6, <2>7 DEF RowsInv, Named
  <2>10. Trimmed' BY <2>3, <2>6 DEF RowsInv, Trimmed
  <2>11. ~rulesEver => \A u \in Sessions : WholeListing(cap'[u]) BY <1>1, <1>2, <2>7 DEF RowsInv, Honest
  <2>12. Honest' BY <2>4, <2>6, <2>7, <2>8, <2>11 DEF RowsInv, Honest
  <2>13. QED BY <2>9, <2>10, <2>12 DEF RowsInv
<1>7. CASE HandOff(s)
  <2>1. /\ \A t \in Turns : t \notin Open(s) => row'[t] = row[t]
        /\ \A t \in Open(s) : row'[t] \in OpenRows /\ row'[t].before = Unavailable
    BY <1>7, HandOffRow
  <2>2. UNCHANGED <<task, objects, cap, rulesEver, ignored>> BY <1>7 DEF HandOff
  <2>3. Contents(Unavailable) = {} /\ Whole(Unavailable) BY DEF Contents, Unavailable, Whole
  <2>4. \A t \in Open(s) : row'[t] \notin FrozenRows BY <2>1, KindsDiffer
  <2>5. Named' BY <2>1, <2>2, <2>3, <2>4 DEF RowsInv, Named
  <2>6. Trimmed' BY <2>1, <2>4 DEF RowsInv, Trimmed
  <2>7. Honest' BY <2>1, <2>2, <2>3, <2>4 DEF RowsInv, Honest
  <2>8. QED BY <2>5, <2>6, <2>7 DEF RowsInv
<1>8. QED BY <1>3, <1>4, <1>5, <1>6, <1>7 DEF SessionStep

\* The cleanup at startup spares what a frozen turn names.
LEMMA SparedByRow ==
  ASSUME NEW rows, NEW t \in Turns, rows[t].state = "frozen"
  PROVE  Contents(rows[t].before) \cup Contents(rows[t].after) \subseteq References(rows)
<1>1. t \in {u \in Turns : rows[u].state = "frozen"} OBVIOUS
<1>2. ASSUME NEW x \in Contents(rows[t].before) \cup Contents(rows[t].after) PROVE x \in References(rows)
  <2> DEFINE named == {Contents(rows[u].before) \cup Contents(rows[u].after)
                      : u \in {u \in Turns : rows[u].state = "frozen"}}
  <2>1. Contents(rows[t].before) \cup Contents(rows[t].after) \in named BY <1>1
  <2>2. x \in UNION named BY <1>2, <2>1
  <2>3. QED BY <2>2, Zenon DEF References
<1>3. QED BY <1>2

LEMMA RowsBeside ==
  ASSUME Typed, SessionsInv, Undoing, RowsInv,
         \/ \E f \in Files : ChangeRules(f) \/ Verify(f) \/ Restore(f)
         \/ \E f \in Files, v \in Versions \cup {Absent, Link} : Write(f, v)
         \/ \E t \in Turns : UndoAsked(t)
         \/ ReplaceRoot \/ Terminal \/ UndoIntent \/ UndoDone \/ UndoFails \/ Restart
  PROVE  RowsInv'
<1>1. row \in [Turns -> Rows] /\ task \in [Sessions -> {NoRow} \cup OpenRows] BY DEF Typed, TypedStore
<1>2. CASE \/ \E f \in Files : ChangeRules(f) \/ Verify(f) \/ Restore(f)
           \/ \E f \in Files, v \in Versions \cup {Absent, Link} : Write(f, v)
           \/ \E t \in Turns : UndoAsked(t)
           \/ ReplaceRoot \/ Terminal \/ UndoFails
  <2>1. UNCHANGED <<row, task, objects, cap>> /\ (rulesEver' \/ UNCHANGED <<rulesEver, ignored>>)
    BY <1>2 DEF ChangeRules, Verify, Restore, Write, UndoAsked, ReplaceRoot, Terminal, UndoFails
  <2>2. QED BY <2>1 DEF RowsInv, Named, Trimmed, Honest
<1>3. CASE UndoIntent \/ UndoDone
  <2> DEFINE t == undo.turn
  <2>1. t \in Turns /\ row[t] \in FrozenRows BY <1>3 DEF UndoIntent, UndoDone, Undoing
  <2>2. PICK x \in {"unknown", "reverted"} : row' = [row EXCEPT ![undo.turn].undo = x]
    BY <1>3 DEF UndoIntent, UndoDone
  <2>3. UNCHANGED <<task, objects, cap, rulesEver, ignored>> BY <1>3 DEF UndoIntent, UndoDone
  <2>4. /\ row'[t] \in FrozenRows /\ row'[t].entries = row[t].entries
        /\ row'[t].before = row[t].before /\ row'[t].after = row[t].after
        /\ \A u \in Turns : u # t => row'[u] = row[u]
    BY <1>1, <2>1, <2>2, UndoneRow
  <2>5. row'[t] \notin OpenRows BY <2>4, KindsDiffer
  <2> HIDE DEF t
  <2>6. Named' BY <2>1, <2>3, <2>4, <2>5 DEF RowsInv, Named
  <2>7. Trimmed' BY <2>1, <2>4 DEF RowsInv, Trimmed, Trim
  <2>8. Honest' BY <2>1, <2>3, <2>4, <2>5 DEF RowsInv, Honest, TrueToFiles
  <2>9. QED BY <2>6, <2>7, <2>8 DEF RowsInv
<1>4. CASE Restart
  <2>1. \A t \in Turns : \/ row[t] \in OpenRows /\ row'[t] = Dropped
                         \/ row[t] \notin OpenRows /\ row'[t] = row[t]
    <3>1. row' = AfterRestart BY <1>4 DEF Restart
    <3>2. QED BY <1>1, <3>1, RestartRows
  <2>2. /\ row' = AfterRestart /\ objects' = objects \cap References(AfterRestart)
        /\ cap' = [s \in Sessions |-> NoCapture] /\ UNCHANGED <<task, rulesEver, ignored>>
    BY <1>4 DEF Restart
  <2>3. Dropped \notin OpenRows \cup FrozenRows BY KindsDiffer
  <2>4. ASSUME NEW s \in Sessions, task[s] \in OpenRows
        PROVE  Contents(task[s].before) \subseteq objects'
    <3>1. task[s] # NoRow BY <2>4, KindsDiffer
    <3>2. Contents(task[s].before) \subseteq References(AfterRestart) BY <3>1 DEF References
    <3>3. QED BY <2>2, <2>4, <3>2 DEF RowsInv, Named
  <2>5. ASSUME NEW t \in Turns, row'[t] \in OpenRows \cup FrozenRows
        PROVE  /\ row[t] \in FrozenRows /\ row'[t] = row[t]
               /\ Contents(row[t].before) \subseteq objects' /\ Contents(row[t].after) \subseteq objects'
    <3>1. row'[t] = row[t] /\ row[t] \in FrozenRows BY <2>1, <2>3, <2>5
    <3>2. AfterRestart[t] = row[t] /\ AfterRestart[t].state = "frozen" BY <2>2, <3>1 DEF FrozenRows
    <3>3. Contents(row[t].before) \cup Contents(row[t].after) \subseteq References(AfterRestart)
      BY <3>2, SparedByRow
    <3>4. QED BY <2>2, <3>1, <3>2, <3>3 DEF RowsInv, Named
  <2>6. Named' BY <2>2, <2>4, <2>5 DEF Named
  <2>7. Trimmed' BY <2>5 DEF RowsInv, Trimmed
  <2>8. Honest'
    <3>1. WholeListing(NoCapture) BY DEF WholeListing, NoCapture
    <3>2. \A t \in Turns : row'[t] \notin OpenRows BY <2>1, <2>3
    <3>3. QED BY <2>2, <2>5, <3>1, <3>2 DEF RowsInv, Honest
  <2>9. QED BY <2>6, <2>7, <2>8 DEF RowsInv
<1>5. QED BY <1>2, <1>3, <1>4

-----------------------------------------------------------------------------
(* The undo under way.                                                       *)

\* No session works on the turn an undo restores.
LEMMA UndoingBySession ==
  ASSUME Typed, SessionsInv, Undoing, NEW s \in Sessions, SessionStep(s)
  PROVE  Undoing'
<1> USE DEF SessionStep, Begin, List, Baseline, Background, EndTurn, Freeze, Settle, HandOff, InputsSettled,
            BeginsNext, NativeTurn
<1>1. UNCHANGED <<undo, disk, touched>> OBVIOUS
<1>2. CASE undo.phase = "none" BY <1>1, <1>2 DEF Undoing
<1>3. CASE undo.phase # "none"
  <2>1. act[s] \in {"idle", "ending"} /\ Open(s) = {} BY <1>3 DEF SessionsInv, QuietRestore
  <2>2. row' = row BY <2>1
  <2>3. QED BY <1>1, <2>2 DEF Undoing
<1>4. QED BY <1>2, <1>3

LEMMA UndoingBeside ==
  ASSUME Typed, SessionsInv, Undoing,
         \/ \E f \in Files : ChangeRules(f) \/ Verify(f) \/ Restore(f)
         \/ \E f \in Files, v \in Versions \cup {Absent, Link} : Write(f, v)
         \/ \E t \in Turns : UndoAsked(t)
         \/ ReplaceRoot \/ Terminal \/ UndoIntent \/ UndoDone \/ UndoFails \/ Restart
  PROVE  Undoing'
<1>1. /\ row \in [Turns -> Rows] /\ undo \in Undos /\ disk \in [Files -> Versions \cup {Absent, Link}]
  BY DEF Typed, TypedTree, TypedStore, TypedRest
<1>2. CASE UNCHANGED <<undo, disk, touched, row>> BY <1>2 DEF Undoing
<1>3. ASSUME NEW f \in Files, NEW v \in Versions \cup {Absent, Link}, Write(f, v) PROVE Undoing'
  <2>1. UNCHANGED <<undo, row>> /\ touched' = touched \cup {f} /\ disk' = [disk EXCEPT ![f] = v]
    BY <1>3 DEF Write
  <2>2. \A g \in Files : g # f => disk'[g] = disk[g] BY <1>1, <2>1
  <2>3. undo.phase = "restoring" => row[undo.turn].entries \subseteq Files /\ undo.todo \subseteq Files
    BY <1>1 DEF Undoing, FrozenRows, Undos
  <2>4. QED BY <2>1, <2>2, <2>3 DEF Undoing
<1>4. ASSUME NEW t \in Turns, UndoAsked(t) PROVE Undoing'
  <2>1. Frozen(t) /\ row' = row /\ undo' = [NoUndo EXCEPT !.phase = "closing", !.turn = t] BY <1>4 DEF UndoAsked
  <2>2. row[t] \in FrozenRows BY <1>1, <2>1, RowsByState DEF Frozen
  <2>3. undo'.phase = "closing" /\ undo'.turn = t /\ undo'.verified = {} BY <2>1 DEF NoUndo
  <2>4. QED BY <2>1, <2>2, <2>3 DEF Undoing
<1>5. CASE UndoIntent
  <2>1. undo.phase = "closing" /\ undo.turn \in Turns /\ row[undo.turn] \in FrozenRows /\ undo.verified = {}
    BY <1>5 DEF UndoIntent, Undoing
  <2>2. row' = [row EXCEPT ![undo.turn].undo = "unknown"] BY <1>5 DEF UndoIntent
  <2>3. /\ row'[undo.turn] \in FrozenRows /\ row'[undo.turn].undo = "unknown"
        /\ row'[undo.turn].entries = row[undo.turn].entries
    BY <1>1, <2>1, <2>2, UndoneRow
  <2>4. /\ undo'.phase = "restoring" /\ undo'.turn = undo.turn /\ undo'.todo = row[undo.turn].entries
        /\ undo'.verified = {}
    BY <1>1, <1>5, <2>1 DEF UndoIntent, Undos
  <2>5. QED BY <2>1, <2>3, <2>4 DEF Undoing
<1>6. ASSUME NEW f \in Files, Verify(f) PROVE Undoing'
  <2>1. /\ undo.phase = "restoring" /\ f \in undo.todo /\ Matches(undo.turn, f)
        /\ touched' = touched \ {f} /\ UNCHANGED <<row, disk>>
    BY <1>6 DEF Verify
  <2>2. /\ undo'.phase = "restoring" /\ undo'.turn = undo.turn /\ undo'.todo = undo.todo
        /\ undo'.verified = {f}
    BY <1>1, <1>6 DEF Verify, Undos
  <2>3. disk[f] = At(row[undo.turn].after, f) BY <2>1 DEF Matches
  <2>4. QED BY <2>1, <2>2, <2>3 DEF Undoing
<1>7. ASSUME NEW f \in Files, Restore(f) PROVE Undoing'
  <2>1. /\ undo.phase = "restoring" /\ f \in undo.verified
        /\ touched' = touched \ {f} /\ row' = row
        /\ disk' = [disk EXCEPT ![f] = At(row[undo.turn].before, f)]
    BY <1>7 DEF Restore
  <2>2. /\ undo'.phase = "restoring" /\ undo'.turn = undo.turn /\ undo'.todo = undo.todo \ {f}
        /\ undo'.verified = {}
    BY <1>1, <1>7 DEF Restore, Undos
  <2>3. disk'[f] = At(row[undo.turn].before, f) /\ \A g \in Files : g # f => disk'[g] = disk[g] BY <1>1, <2>1
  <2>4. row[undo.turn].entries \subseteq Files BY <2>1 DEF Undoing, FrozenRows
  <2>5. QED BY <2>1, <2>2, <2>3, <2>4 DEF Undoing
<1>8. CASE UndoDone \/ UndoFails \/ Restart
  <2>1. undo' = NoUndo BY <1>8 DEF UndoDone, UndoFails, Restart
  <2>2. QED BY <2>1 DEF Undoing, NoUndo
<1>9. (\E f \in Files : ChangeRules(f)) \/ ReplaceRoot \/ Terminal => UNCHANGED <<undo, disk, touched, row>>
  BY DEF ChangeRules, ReplaceRoot, Terminal
<1>10. QED BY <1>2, <1>3, <1>4, <1>5, <1>6, <1>7, <1>8, <1>9

-----------------------------------------------------------------------------
(* The inductive invariant.                                                  *)

HInv == Typed /\ SessionsInv /\ RowsInv /\ Undoing

LEMMA InitHInv == ASSUME Init PROVE HInv
<1>1. NoCapture \in Captures /\ NoUndo \in Undos BY DEF NoCapture, Captures, NoUndo, Undos
<1>2. NoRow \in Rows /\ 0 \in 0..MaxTurns /\ 0 \in 0..MaxMoves /\ 0 \in 0..MaxRestarts
  BY TurnChangesAssumption DEF Rows
<1>3. Typed BY <1>1, <1>2 DEF Init, Typed, TypedTree, TypedSessions, TypedStore, TypedRest
<1>4. \A t \in Turns : row[t] = NoRow /\ row[t].state = "none" BY DEF Init, NoRow
<1>5. SessionsInv
  <2>1. \A s \in Sessions : Open(s) = {} BY <1>4 DEF Open
  <2>2. Current BY <2>1 DEF Init, Current
  <2>3. Overlapped BY DEF Init, Overlapped
  <2>4. QED BY <1>4, <2>2, <2>3 DEF Init, SessionsInv, Lives, Unwritten, QuietRestore, NoUndo
<1>6. RowsInv
  <2>1. WholeListing(NoCapture) BY DEF WholeListing, NoCapture
  <2>2. QED BY <1>4, <2>1, KindsDiffer DEF Init, RowsInv, Named, Trimmed, Honest
<1>7. Undoing BY DEF Init, Undoing, NoUndo
<1>8. QED BY <1>3, <1>5, <1>6, <1>7 DEF HInv

LEMMA NextHInv == ASSUME HInv, [Next]_vars PROVE HInv'
<1> USE DEF HInv
<1>1. CASE UNCHANGED vars
  <2>1. \A s \in Sessions : Open(s)' = Open(s) BY <1>1 DEF vars, Open
  <2>2. Typed' BY <1>1 DEF vars, Typed, TypedTree, TypedSessions, TypedStore, TypedRest
  <2>3. SessionsInv' BY <1>1, <2>1 DEF vars, SessionsInv, Lives, Unwritten, Current, Overlapped, QuietRestore
  <2>4. RowsInv' BY <1>1 DEF vars, RowsInv, Named, Trimmed, Honest
  <2>5. Undoing' BY <1>1 DEF vars, Undoing
  <2>6. QED BY <2>2, <2>3, <2>4, <2>5
<1>2. ASSUME NEW s \in Sessions, SessionStep(s) PROVE HInv'
  <2>1. Typed' BY <1>2, SessionTypes DEF SessionsInv
  <2>2. QED BY <1>2, <2>1, SessionSteps, RowsBySession, UndoingBySession
<1>3. CASE \/ \E f \in Files : ChangeRules(f) \/ Verify(f) \/ Restore(f)
           \/ \E f \in Files, v \in Versions \cup {Absent, Link} : Write(f, v)
           \/ \E t \in Turns : UndoAsked(t)
           \/ ReplaceRoot \/ Terminal \/ UndoIntent \/ UndoDone \/ UndoFails \/ Restart
  <2>1. Typed' BY <1>3, OtherTypes DEF SessionsInv
  <2>2. QED BY <1>3, <2>1, SessionsBeside, RowsBeside, UndoingBeside
<1>4. QED BY <1>1, <1>2, <1>3 DEF Next, SessionStep

LEMMA HistoryInvariant == Spec => []HInv
<1>1. QED BY InitHInv, NextHInv, PTL DEF Spec

-----------------------------------------------------------------------------
(* The theorems.                                                             *)

\* What a frozen turn, an open turn and the baseline of a task name can be read
\* from the snapshot directory, whatever Store::open cleaned up when the daemon
\* restarted: task_changes.rs publishes before it names, store.rs removes only
\* what no row is left to name.
THEOREM HistoryReadable == Spec => []ObjectsKept
<1>1. ASSUME HInv PROVE ObjectsKept
  <2> USE <1>1 DEF HInv
  <2>1. row \in [Turns -> Rows] /\ task \in [Sessions -> {NoRow} \cup OpenRows] /\ undo \in Undos
    BY DEF Typed, TypedStore, TypedRest
  <2>2. ASSUME NEW t \in Turns
        PROVE  /\ row[t].state = "open" <=> row[t] \in OpenRows
               /\ Frozen(t) <=> row[t] \in FrozenRows
               /\ \/ row[t] \in {NoRow, Dropped}
                  \/ row[t].state = "open" /\ row[t].before \in Snapshots \cup {Unavailable}
                  \/ /\ Frozen(t) /\ row[t].entries \subseteq Files
                     /\ row[t].undo \in {"ready", "unknown", "reverted"}
                     /\ DOMAIN row[t].before.files \cup DOMAIN row[t].after.files \subseteq row[t].entries
    <3>1. row[t] \in Rows BY <2>1
    <3>2. /\ row[t].state = "open" <=> row[t] \in OpenRows
          /\ Frozen(t) <=> row[t] \in FrozenRows
      BY <3>1, RowsByState DEF Frozen
    <3>3. CASE row[t] \in OpenRows BY <3>2, <3>3 DEF OpenRows, Stored
    <3>4. CASE row[t] \in FrozenRows BY <3>2, <3>4 DEF FrozenRows, RowsInv, Trimmed, Trim
    <3>5. QED BY <3>1, <3>2, <3>3, <3>4 DEF Rows
  <2>3. TypeOK BY <2>1, <2>2 DEF TypeOK, Typed, TypedTree, TypedSessions, TypedStore, TypedRest, Undos
  <2>4. \A s \in Sessions : task[s] # NoRow => Contents(task[s].before) \subseteq objects
    BY <2>1 DEF RowsInv, Named
  <2>5. \A t \in Turns :
          /\ row[t].state \in {"open", "frozen"} => Contents(row[t].before) \subseteq objects
          /\ Frozen(t) => Contents(row[t].after) \subseteq objects
    BY <2>2 DEF RowsInv, Named, Frozen
  <2>6. QED BY <2>3, <2>4, <2>5 DEF ObjectsKept
<1>2. QED BY <1>1, HistoryInvariant, PTL

\* From the first check of an undo to its answer no turn runs, no CLI works in
\* the background and no terminal is open: the write lock of file_admission
\* keeps out what the checks found absent.
THEOREM NobodyWorksMeanwhile == Spec => []QuietRestore
<1>1. HInv => QuietRestore BY DEF HInv, SessionsInv
<1>2. QED BY <1>1, HistoryInvariant, PTL

\* A summary makes up no change: what it says was added was not there before the
\* turn, what it says was deleted was not there after it, as long as the ignore
\* rules stayed what they were.
THEOREM HistoryTrue == Spec => []NeverFabricated
<1>1. ASSUME HInv PROVE NeverFabricated
  <2>1. ASSUME ~rulesEver, NEW t \in Turns, Frozen(t) PROVE TrueToFiles(row[t])
    <3>1. row[t] \in Rows BY <1>1 DEF HInv, Typed, TypedStore
    <3>2. row[t] \in FrozenRows BY <2>1, <3>1, RowsByState DEF Frozen
    <3>3. QED BY <1>1, <2>1, <3>2 DEF HInv, RowsInv, Honest
  <2>2. QED BY <2>1 DEF NeverFabricated, NothingFabricated, TrueToFiles
<1>2. QED BY <1>1, HistoryInvariant, PTL

\* The rows a step may change.
LEMMA RowSteps ==
  ASSUME HInv, [Next]_vars
  PROVE  \/ row' = row
         \/ \E s \in Sessions :
              /\ turnOf[s] \in Turns /\ author[turnOf[s]] = s
              /\ \/ row[turnOf[s]] = NoRow
                 \/ /\ row[turnOf[s]] \in OpenRows /\ row'[turnOf[s]].state = "frozen"
                    /\ ahead[s] => ~row'[turnOf[s]].ok /\ row'[turnOf[s]].entries = {}
              /\ \A u \in Turns : u # turnOf[s] => row'[u] = row[u]
         \/ \E s \in Sessions :
              /\ handed'[s]
              /\ \A t \in Turns :
                   \/ row'[t] = row[t]
                   \/ author[t] = s /\ row[t] \in OpenRows /\ row'[t] = [row[t] EXCEPT !.before = Unavailable]
         \/ /\ UndoIntent \/ UndoDone
            /\ undo.turn \in Turns /\ row[undo.turn] \in FrozenRows
            /\ <<row[undo.turn].undo, row'[undo.turn].undo>> \in {<<"ready", "unknown">>, <<"unknown", "reverted">>}
            /\ UndoDone <=> row'[undo.turn].undo = "reverted"
            /\ row'[undo.turn] = [row[undo.turn] EXCEPT !.undo = row'[undo.turn].undo]
            /\ \A u \in Turns : u # undo.turn => row'[u] = row[u]
         \/ /\ act' = [s \in Sessions |-> "idle"]
            /\ \A t \in Turns : \/ row[t] \in OpenRows /\ row'[t] = Dropped
                                \/ row[t] \notin OpenRows /\ row'[t] = row[t]
<1> USE DEF HInv
<1>1. row \in [Turns -> Rows] /\ Current BY DEF Typed, TypedStore, SessionsInv
<1>2. ASSUME NEW s \in Sessions, Baseline(s)
      PROVE  /\ turnOf[s] \in Turns /\ author[turnOf[s]] = s /\ row[turnOf[s]] = NoRow
             /\ \A u \in Turns : u # turnOf[s] => row'[u] = row[u]
  <2>1. turnOf[s] \in Turns /\ author[turnOf[s]] = s /\ row[turnOf[s]] = NoRow BY <1>1, <1>2, BaselineRow
  <2>2. PICK b : row' = [row EXCEPT ![turnOf[s]] = OpenRow(b)] BY <1>1, <1>2, BaselineRow
  <2>3. QED BY <1>1, <2>1, <2>2
<1>3. ASSUME NEW s \in Sessions, Freeze(s)
      PROVE  /\ turnOf[s] \in Turns /\ author[turnOf[s]] = s /\ row[turnOf[s]] \in OpenRows
             /\ row'[turnOf[s]].state = "frozen"
             /\ ahead[s] => ~row'[turnOf[s]].ok /\ row'[turnOf[s]].entries = {}
             /\ \A u \in Turns : u # turnOf[s] => row'[u] = row[u]
  <2>1. turnOf[s] \in Turns /\ author[turnOf[s]] = s /\ row[turnOf[s]] \in OpenRows BY <1>1, <1>3, FreezeRow
  <2>2. PICK a, g : row' = [row EXCEPT ![turnOf[s]] = Compare(row[turnOf[s]].before, a, g)]
    BY <1>1, <1>3, FreezeRow
  <2>3. \A b : Compare(b, a, g).state = "frozen" BY DEF Compare
  <2>4. Compare(Unavailable, a, g).ok = FALSE /\ Compare(Unavailable, a, g).entries = {}
    BY DEF Compare, Unavailable
  <2>5. ahead[s] => row[turnOf[s]].before = Unavailable
    <3>1. turnOf[s] \in Open(s) BY <2>1 DEF Open, OpenRows
    <3>2. QED BY <3>1 DEF SessionsInv, Overlapped
  <2>6. QED BY <1>1, <2>1, <2>2, <2>3, <2>4, <2>5
<1>4. CASE UndoIntent
  <2>1. undo.turn \in Turns /\ row[undo.turn] \in FrozenRows /\ row[undo.turn].undo = "ready" /\ ~UndoDone
    BY <1>4 DEF UndoIntent, UndoDone, Undoing, Undoable
  <2>2. row' = [row EXCEPT ![undo.turn].undo = "unknown"] BY <1>4 DEF UndoIntent
  <2>3. /\ row'[undo.turn] = [row[undo.turn] EXCEPT !.undo = "unknown"] /\ row'[undo.turn].undo = "unknown"
        /\ \A u \in Turns : u # undo.turn => row'[u] = row[u]
    BY <1>1, <2>1, <2>2, UndoneRow
  <2>4. QED BY <1>4, <2>1, <2>3
<1>5. CASE UndoDone
  <2>1. undo.turn \in Turns /\ row[undo.turn] \in FrozenRows /\ row[undo.turn].undo = "unknown"
    BY <1>5 DEF UndoDone, Undoing
  <2>2. row' = [row EXCEPT ![undo.turn].undo = "reverted"] BY <1>5 DEF UndoDone
  <2>3. /\ row'[undo.turn] = [row[undo.turn] EXCEPT !.undo = "reverted"] /\ row'[undo.turn].undo = "reverted"
        /\ \A u \in Turns : u # undo.turn => row'[u] = row[u]
    BY <1>1, <2>1, <2>2, UndoneRow
  <2>4. QED BY <1>5, <2>1, <2>3
<1>6. CASE Restart
  <2>1. row' = AfterRestart /\ act' = [s \in Sessions |-> "idle"] BY <1>6 DEF Restart
  <2>2. QED BY <1>1, <2>1, RestartRows
<1>7. ASSUME NEW s \in Sessions, HandOff(s)
      PROVE  /\ handed'[s]
             /\ \A t \in Turns :
                  \/ row'[t] = row[t]
                  \/ author[t] = s /\ row[t] \in OpenRows /\ row'[t] = [row[t] EXCEPT !.before = Unavailable]
  <2>1. handed' = [handed EXCEPT ![s] = TRUE] BY <1>7 DEF HandOff
  <2>2. handed'[s] BY <2>1 DEF Typed, TypedSessions
  <2>3. /\ \A t \in Turns : t \notin Open(s) => row'[t] = row[t]
        /\ \A t \in Open(s) : row[t] \in OpenRows /\ row'[t] = [row[t] EXCEPT !.before = Unavailable]
    BY <1>7, HandOffRow
  <2>4. \A t \in Open(s) : author[t] = s BY DEF Open
  <2>5. QED BY <2>2, <2>3, <2>4
<1>8. ASSUME \A s \in Sessions : ~Baseline(s) /\ ~Freeze(s) /\ ~HandOff(s), ~UndoIntent, ~UndoDone, ~Restart
      PROVE  row' = row
  BY <1>8 DEF Next, vars, Begin, List, Background, EndTurn, Settle, InputsSettled, BeginsNext, NativeTurn,
              ChangeRules, Verify, Restore, Write, UndoAsked, ReplaceRoot, Terminal, UndoFails
<1>9. QED BY <1>2, <1>3, <1>4, <1>5, <1>6, <1>7, <1>8

\* finish_turn freezes a turn in the life of the daemon that began it and from
\* its own baseline, and without files once the CLI may have begun an input handed
\* off during the turn: mark_forwarded has taken the baseline before.  A restart
\* gives up what was open; what is frozen only its undo marks, first unknown, then
\* reverted.
THEOREM HistoryFrozen == Spec => FrozenHistory
<1> DEFINE A == \A t \in Turns :
       /\ row[t].state = "open" /\ row'[t] # row[t] =>
            \/ row'[t] = Dropped /\ act' = [s \in Sessions |-> "idle"]
            \/ row'[t] = [row[t] EXCEPT !.before = Unavailable] /\ handed'[author[t]]
            \/ /\ row'[t].state = "frozen" /\ turnOf[author[t]] = t /\ row[t].life = restarts
               /\ ahead[author[t]] => ~row'[t].ok /\ row'[t].entries = {}
       /\ row[t].state = "dropped" => row'[t] = row[t]
       /\ Frozen(t) /\ row'[t] # row[t] =>
            /\ row'[t] = [row[t] EXCEPT !.undo = row'[t].undo] /\ undo.turn = t
            /\ <<row[t].undo, row'[t].undo>> \in {<<"ready", "unknown">>, <<"unknown", "reverted">>}
<1>1. ASSUME HInv, [Next]_vars PROVE A
  <2> SUFFICES ASSUME NEW t \in Turns, row'[t] # row[t]
               PROVE  /\ row[t].state = "open" =>
                           \/ row'[t] = Dropped /\ act' = [s \in Sessions |-> "idle"]
                           \/ row'[t] = [row[t] EXCEPT !.before = Unavailable] /\ handed'[author[t]]
                           \/ /\ row'[t].state = "frozen" /\ turnOf[author[t]] = t /\ row[t].life = restarts
                              /\ ahead[author[t]] => ~row'[t].ok /\ row'[t].entries = {}
                      /\ row[t].state # "dropped"
                      /\ Frozen(t) =>
                           /\ row'[t] = [row[t] EXCEPT !.undo = row'[t].undo] /\ undo.turn = t
                           /\ <<row[t].undo, row'[t].undo>> \in {<<"ready", "unknown">>, <<"unknown", "reverted">>}
    OBVIOUS
  <2>1. row[t] \in Rows BY <1>1 DEF HInv, Typed, TypedStore
  <2>2. /\ row[t].state = "open" <=> row[t] \in OpenRows
        /\ Frozen(t) <=> row[t] \in FrozenRows
        /\ row[t].state = "dropped" <=> row[t] = Dropped
    BY <2>1, RowsByState DEF Frozen
  <2>3. row[t].state = "open" => row[t].life = restarts BY <1>1 DEF HInv, SessionsInv, Lives
  <2>4. NoRow.state = "none" BY DEF NoRow
  <2>5. CASE \E s \in Sessions :
               /\ turnOf[s] \in Turns /\ author[turnOf[s]] = s
               /\ \/ row[turnOf[s]] = NoRow
                  \/ /\ row[turnOf[s]] \in OpenRows /\ row'[turnOf[s]].state = "frozen"
                     /\ ahead[s] => ~row'[turnOf[s]].ok /\ row'[turnOf[s]].entries = {}
               /\ \A u \in Turns : u # turnOf[s] => row'[u] = row[u]
    BY <2>2, <2>3, <2>4, <2>5, KindsDiffer DEF Frozen
  <2>6. CASE /\ undo.turn \in Turns /\ row[undo.turn] \in FrozenRows
             /\ <<row[undo.turn].undo, row'[undo.turn].undo>> \in {<<"ready", "unknown">>, <<"unknown", "reverted">>}
             /\ row'[undo.turn] = [row[undo.turn] EXCEPT !.undo = row'[undo.turn].undo]
             /\ \A u \in Turns : u # undo.turn => row'[u] = row[u]
    BY <2>2, <2>6, KindsDiffer
  <2>7. CASE /\ act' = [s \in Sessions |-> "idle"]
             /\ \A u \in Turns : \/ row[u] \in OpenRows /\ row'[u] = Dropped
                                 \/ row[u] \notin OpenRows /\ row'[u] = row[u]
    BY <2>2, <2>7, KindsDiffer
  <2>8. CASE \E s \in Sessions :
               /\ handed'[s]
               /\ \A u \in Turns :
                    \/ row'[u] = row[u]
                    \/ author[u] = s /\ row[u] \in OpenRows /\ row'[u] = [row[u] EXCEPT !.before = Unavailable]
    BY <2>2, <2>8, KindsDiffer
  <2>9. QED BY <1>1, <2>5, <2>6, <2>7, <2>8, RowSteps
<1>2. Spec => [][A]_vars BY <1>1, HistoryInvariant, PTL DEF Spec
<1>3. QED BY <1>2, PTL DEF FrozenHistory

\* An undo writes over the result of the turn only: the file it last verified
\* (FrozenTurn::verify_current), or one an editor changed after that check, but
\* never one that appeared where the turn had left nothing (persist_noclobber);
\* and the turn reads as reverted only when its files are what they were.
THEOREM UndoIsExact == Spec => UndoExact
<1>1. ASSUME HInv, [Next]_vars PROVE ReplacesOwnResult
  <2> SUFFICES ASSUME NEW f \in Files, undo.todo # undo'.todo, undo'.phase = "restoring",
                      undo.phase = "restoring", disk'[f] # disk[f]
               PROVE  \/ disk[f] = At(row[undo.turn].after, f)
                      \/ f \in touched /\ At(row[undo.turn].after, f) # Absent
    BY DEF ReplacesOwnResult
  <2>1. undo \in Undos /\ disk \in [Files -> Versions \cup {Absent, Link}]
    BY <1>1 DEF HInv, Typed, TypedTree, TypedRest
  <2>2. \E g \in Files : Restore(g)
    <3>1. \A g \in Files : ~Verify(g)
      <4>1. ASSUME NEW g \in Files, Verify(g) PROVE FALSE BY <2>1, <4>1 DEF Verify, Undos
      <4>2. QED BY <4>1
    <3>2. ~UndoIntent BY DEF UndoIntent
    <3>3. ~UndoDone /\ ~UndoFails /\ ~Restart BY DEF UndoDone, UndoFails, Restart, NoUndo
    <3>4. \A t \in Turns : ~UndoAsked(t) BY DEF UndoAsked, NoUndo
    <3>5. undo' # undo OBVIOUS
    <3>6. QED
      BY <1>1, <3>1, <3>2, <3>3, <3>4, <3>5
      DEF Next, vars, Begin, List, Baseline, Background, EndTurn, Freeze, Settle, HandOff, InputsSettled,
          BeginsNext, NativeTurn, ChangeRules, Write, ReplaceRoot, Terminal
  <2>3. PICK g \in Files : Restore(g) BY <2>2
  <2>4. f = g BY <2>1, <2>3 DEF Restore
  <2>5. f \in undo.verified /\ Restorable(undo.turn, f) BY <2>3, <2>4 DEF Restore
  <2>6. /\ disk[f] = At(row[undo.turn].after, f) \/ f \in touched
        /\ undo.turn \in Turns /\ row[undo.turn] \in FrozenRows /\ f \in row[undo.turn].entries
    BY <1>1, <2>5 DEF HInv, Undoing
  <2>7. At(row[undo.turn].before, f) # At(row[undo.turn].after, f)
    BY <1>1, <2>6 DEF HInv, RowsInv, Trimmed, Trim
  <2>8. At(row[undo.turn].after, f) = Absent => disk[f] = Absent BY <2>5, <2>7 DEF Restorable
  <2>9. QED BY <2>6, <2>8
<1>2. ASSUME HInv, [Next]_vars PROVE RevertsAll
  <2> SUFFICES ASSUME NEW t \in Turns, Frozen(t), row[t].undo = "unknown", row'[t].undo = "reverted"
               PROVE  \A f \in row[t].entries \ touched : disk[f] = At(row[t].before, f)
    BY DEF RevertsAll
  <2>1. row[t] \in Rows BY <1>2 DEF HInv, Typed, TypedStore
  <2>2. row[t] \in FrozenRows BY <2>1, RowsByState DEF Frozen
  <2>3. UndoDone /\ undo.turn = t
    <3>1. row'[t] # row[t] OBVIOUS
    <3>2. row[t] # NoRow /\ row[t] \notin OpenRows BY <2>2, KindsDiffer
    <3>3. QED BY <1>2, <3>1, <3>2, RowSteps
  <2>4. undo.phase = "restoring" /\ undo.todo = {} BY <2>3 DEF UndoDone, Complete
  <2>5. QED BY <1>2, <2>3, <2>4 DEF HInv, Undoing
<1>3. QED BY <1>1, <1>2, HistoryInvariant, PTL DEF Spec, UndoExact
=============================================================================
