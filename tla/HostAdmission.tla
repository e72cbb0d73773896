---------------------------- MODULE HostAdmission ----------------------------
(***************************************************************************)
(* Who may act on a host at the same time.  Every request of a client is   *)
(* dispatched under a read lock of draining; what starts work also takes a *)
(* read lock of file_admission, undo and archive take its write lock, and  *)
(* an upgrade takes the write lock of draining.  Checks that nothing runs  *)
(* read, from outside, a flag each session's actor keeps.                  *)
(*                                                                         *)
(* The actor of a session is SessionActor seen from here: it takes one     *)
(* request after the other out of its channel, answers it, and then, in    *)
(* the tail of its loop, may start a turn from its queue and stores the    *)
(* flag.  All sessions are of one project directory.                       *)
(***************************************************************************)
EXTENDS Naturals, Sequences, FiniteSets

CONSTANTS
  Sessions,     \* sessions of the host
  NoSession,    \* no session
  Clients,      \* connections
  Windows,      \* the timing windows this instance admits
  Kinds,        \* the requests this instance makes
  MaxRequests   \* bound: requests of all clients

\* "resume"   a resumed queue is answered before the actor stores its flag;
\* "timeout"  a request is given up while it waits in the actor's channel.
WindowNames == {"resume", "timeout"}
Guarded == {"send", "resume", "terminal"}
Exclusive == {"undo", "archive"}
ToActor == {"send", "resume", "edit"}
AllKinds == Guarded \cup Exclusive \cup {"edit", "close", "unarchive", "closeTerminal", "prepare"}

ASSUME AdmissionAssumption ==
  /\ Windows \subseteq WindowNames /\ Kinds \subseteq AllKinds /\ MaxRequests \in Nat
  /\ NoSession \notin Sessions /\ IsFiniteSet(Clients)

VARIABLES
  \* --- the daemon ---
  draining,   \* Lifecycle.draining: an upgrade was granted
  terminal,   \* is a terminal open?
  \* --- the sessions ---
  run,        \* Runs: has the session an actor?
  safe,       \* Run.safe_to_close
  chan,       \* what waits in the actor's channel
  tail,       \* has the actor handled something and not stored its flag yet?
  cli,        \* has it a CLI?
  turn,       \* is a turn under way?  (The stored status is active.)
  queue,      \* its queue: empty, held back for the user, or due to be sent
  archived,
  \* --- the clients ---
  op,         \* the request of each connection
  requests,   \* bound
  windows     \* the windows open in this behaviour.  Never changes.

actors == <<run, safe, chan, tail, cli, turn, queue>>
vars   == <<draining, terminal, run, safe, chan, tail, cli, turn, queue, archived, op, requests, windows>>

-----------------------------------------------------------------------------
\* number tells the answer a request waits for from that of one given up.
NoOp == [kind |-> "none", on |-> NoSession, step |-> "idle", todo |-> {}, number |-> 0]
Steps == {"idle", "asked", "entered", "holding", "checked", "sent", "done", "refused",
          "sweeping", "restoring", "closed"}

Init ==
  /\ draining = FALSE /\ terminal = FALSE
  /\ run = [s \in Sessions |-> FALSE] /\ safe = [s \in Sessions |-> FALSE]
  /\ chan = [s \in Sessions |-> <<>>] /\ tail = [s \in Sessions |-> FALSE]
  /\ cli = [s \in Sessions |-> FALSE] /\ turn = [s \in Sessions |-> FALSE]
  /\ queue \in [Sessions -> {"empty", "held"}] /\ archived = [s \in Sessions |-> FALSE]
  /\ op = [c \in Clients |-> NoOp] /\ requests = 0 /\ windows \in {{}, Windows}

\* The locks, read off the requests that hold them.
Entered(c) == op[c].step \notin {"idle", "asked"}
Holds(c) == Entered(c) /\ op[c].step # "entered"
ExclusiveHeld == \E c \in Clients : op[c].kind \in Exclusive /\ Holds(c)
SharedHeld == \E c \in Clients : op[c].kind \in Guarded /\ Holds(c)

Step(c, step) == op' = [op EXCEPT ![c].step = step]

-----------------------------------------------------------------------------
(* Connections. *)

Ask(c) ==
  /\ op[c] = NoOp /\ requests < MaxRequests /\ requests' = requests + 1
  /\ \E kind \in Kinds, s \in Sessions :
       op' = [op EXCEPT ![c] = [kind |-> kind, on |-> s, step |-> "asked", todo |-> {}, number |-> requests']]
  /\ UNCHANGED <<draining, terminal, actors, archived, windows>>

\* connection: the read lock of draining is held until the answer is written;
\* during an upgrade everything is refused.
Enter(c) ==
  /\ op[c].step = "asked" /\ op[c].kind # "prepare"
  /\ Step(c, IF draining THEN "refused" ELSE "entered")
  /\ UNCHANGED <<draining, terminal, actors, archived, requests, windows>>

\* (Fault: undo and archive do not exclude what starts work.)
FreeToHoldAlways(kind) == TRUE
FreeToHold(kind) ==
  /\ kind \in Exclusive => ~ExclusiveHeld /\ ~SharedHeld
  /\ kind \in Guarded => ~ExclusiveHeld

Hold(c) ==
  /\ op[c].step = "entered" /\ FreeToHold(op[c].kind)
  /\ Step(c, "holding")
  /\ UNCHANGED <<draining, terminal, actors, archived, requests, windows>>

Answer(c) ==
  /\ op[c].step \in {"done", "refused"}
  /\ op' = [op EXCEPT ![c] = NoOp]
  /\ UNCHANGED <<draining, terminal, actors, archived, requests, windows>>

\* control_for: the archive flag is read first, the actor is looked up or
\* started after it.
Check(c) ==
  /\ op[c].step = "holding" /\ op[c].kind \in ToActor
  /\ Step(c, IF archived[op[c].on] THEN "refused" ELSE "checked")
  /\ UNCHANGED <<draining, terminal, actors, archived, requests, windows>>

Push(s, c, kind) == chan' = [chan EXCEPT ![s] = Append(@, [kind |-> kind, number |-> op[c].number])]

Dispatch(c) ==
  LET s == op[c].on IN
  /\ op[c].step = "checked"
  /\ Push(s, c, op[c].kind) /\ Step(c, "sent")
  /\ run' = [run EXCEPT ![s] = TRUE]
  /\ safe' = [safe EXCEPT ![s] = @ /\ run[s]]
  /\ UNCHANGED <<draining, terminal, tail, cli, turn, queue, archived, requests, windows>>

\* The ten seconds of a request are over; what it asked for stays in the channel.
GiveUp(c) ==
  /\ "timeout" \in windows /\ op[c].step = "sent" /\ op[c].kind \in ToActor
  /\ Step(c, "refused")
  /\ UNCHANGED <<draining, terminal, actors, archived, requests, windows>>

\* runtime::close, for the user, or by archive and undo, which name the session.
SendClose(c, s, kind, step) ==
  IF run[s]
  THEN Push(s, c, kind) /\ step = "sent" /\ UNCHANGED <<run, safe, tail, cli, turn, queue>>
  ELSE step = "closed" /\ UNCHANGED actors

Close(c) ==
  /\ op[c].step = "holding" /\ op[c].kind = "close"
  /\ \E step \in {"sent", "closed"}, kind \in {"cancel", "cancelIdle"} :
       SendClose(c, op[c].on, kind, step) /\ Step(c, step)
  /\ UNCHANGED <<draining, terminal, archived, requests, windows>>

\* runtime::archive.
Archive(c) ==
  /\ op[c].step = "holding" /\ op[c].kind = "archive"
  /\ IF turn[op[c].on] THEN Step(c, "refused") /\ UNCHANGED actors
     ELSE \E step \in {"sent", "closed"} : SendClose(c, op[c].on, "cancel", step) /\ Step(c, step)
  /\ UNCHANGED <<draining, terminal, archived, requests, windows>>

\* The close was confirmed: only then is the flag saved.
Closed(c) ==
  /\ op[c].step = "closed"
  /\ archived' = IF op[c].kind = "archive" THEN [archived EXCEPT ![op[c].on] = TRUE] ELSE archived
  /\ Step(c, "done")
  /\ UNCHANGED <<draining, terminal, actors, requests, windows>>

Unarchive(c) ==
  /\ op[c].step = "holding" /\ op[c].kind = "unarchive"
  /\ archived' = [archived EXCEPT ![op[c].on] = FALSE] /\ Step(c, "done")
  /\ UNCHANGED <<draining, terminal, actors, requests, windows>>

Terminal(c) ==
  /\ op[c].step = "holding" /\ op[c].kind \in {"terminal", "closeTerminal"}
  /\ terminal' = (op[c].kind = "terminal") /\ Step(c, "done")
  /\ UNCHANGED <<draining, actors, archived, requests, windows>>

\* What undo and upgrade ask before they go on.  (Fault: terminals are
\* forgotten.)
HostIdleNoTerminals == \A s \in Sessions : ~turn[s] /\ (run[s] => safe[s])
HostIdle == ~terminal /\ \A s \in Sessions : ~turn[s] /\ (run[s] => safe[s])

Running == {s \in Sessions : run[s]}
\* (Fault: undo does not close them.)
OverlappingNone == {}
Overlapping == Running

\* Undo: check, close the idle CLIs one by one, restore.
Undo(c) ==
  /\ op[c].step = "holding" /\ op[c].kind = "undo"
  /\ op' = [op EXCEPT ![c].step = IF HostIdle THEN "sweeping" ELSE "refused",
                      ![c].todo = IF HostIdle THEN Overlapping ELSE {}]
  /\ UNCHANGED <<draining, terminal, actors, archived, requests, windows>>

Sweep(c) ==
  /\ op[c].step = "sweeping"
  /\ IF op[c].todo = {} THEN Step(c, "restoring") /\ UNCHANGED actors
     ELSE \E s \in op[c].todo, step \in {"sent", "closed"} :
            /\ SendClose(c, s, "cancelIdle", step)
            /\ op' = [op EXCEPT ![c].todo = @ \ {s}, ![c].step = IF step = "sent" THEN step ELSE "sweeping"]
  /\ UNCHANGED <<draining, terminal, archived, requests, windows>>

Restored(c) ==
  /\ op[c].step = "restoring" /\ Step(c, "done")
  /\ UNCHANGED <<draining, terminal, actors, archived, requests, windows>>

\* PrepareUpgrade: the write lock of draining, for two seconds at most.
Prepare(c) ==
  /\ op[c].step = "asked" /\ op[c].kind = "prepare"
  /\ IF ~(\E d \in Clients : Entered(d)) /\ HostIdle
     THEN draining' = TRUE /\ Step(c, "done")
     ELSE draining' = draining /\ Step(c, "refused")
  /\ UNCHANGED <<terminal, actors, archived, requests, windows>>

-----------------------------------------------------------------------------
(* The actor of a session. *)

\* The answers to those who still wait for them.  What is left in the channel of
\* an actor that ends is refused.  (Fault: nobody answers it.)
RepliedTaken(taken, lost) ==
  [c \in Clients |->
     IF op[c].step # "sent" \/ op[c].number \notin taken THEN op[c]
     ELSE [op[c] EXCEPT !.step = IF op[c].kind = "undo" THEN "sweeping"
                                 ELSE IF op[c].kind \in {"archive", "close"} THEN "closed" ELSE "done"]]
Replied(taken, lost) ==
  [c \in Clients |->
     IF op[c].step # "sent" \/ op[c].number \notin taken \cup lost THEN op[c]
     ELSE [op[c] EXCEPT !.step = IF op[c].number \in lost THEN "refused"
                                 ELSE CASE op[c].kind = "undo" -> "sweeping"
                                        [] op[c].kind \in {"archive", "close"} -> "closed"
                                        [] OTHER -> "done"]]

Vetoed(s) == turn[s] \/ queue[s] = "due"

\* A turn is sent at once where nothing waits; resuming makes what is held due;
\* closing holds it back.
QueueAfter(s, kind, ends) ==
  CASE ends -> IF queue[s] = "due" THEN "held" ELSE queue[s]
    [] kind = "resume" /\ queue[s] = "held" -> "due"
    [] kind = "send" /\ queue[s] = "empty" /\ turn[s] -> "due"
    [] OTHER -> queue[s]

\* (Fault: the next actor of the session finds it.)
BehindKept(s) == Tail(chan[s])
Behind(s) == <<>>

\* One request out of the channel.
Receive(s) ==
  /\ run[s] /\ ~tail[s] /\ chan[s] # <<>>
  /\ LET m == Head(chan[s])
         ends == m.kind = "cancel" \/ (m.kind = "cancelIdle" /\ ~Vetoed(s))
     IN
     /\ op' = IF ends THEN Replied({m.number}, {chan[s][i].number : i \in 2..Len(chan[s])})
              ELSE IF m.kind = "cancelIdle" THEN Replied({}, {m.number}) ELSE Replied({m.number}, {})
     /\ chan' = [chan EXCEPT ![s] = IF ends THEN Behind(s) ELSE Tail(@)]
     /\ run'  = [run EXCEPT ![s] = ~ends]
     /\ cli'  = [cli EXCEPT ![s] = ~ends /\ (@ \/ (m.kind = "send" /\ queue[s] = "empty"))]
     /\ turn' = [turn EXCEPT ![s] = ~ends /\ (@ \/ (m.kind = "send" /\ queue[s] = "empty"))]
     /\ queue' = [queue EXCEPT ![s] = QueueAfter(s, m.kind, ends)]
     /\ safe' = [safe EXCEPT ![s] = ~ends /\ @ /\ m.kind # "send" /\ (m.kind = "resume" => "resume" \in windows)]
     /\ tail' = [tail EXCEPT ![s] = ~ends /\ m.kind # "cancelIdle"]
  /\ UNCHANGED <<draining, terminal, archived, requests, windows>>

\* The turn ends; whether anything waits is seen in the tail.
TurnEnds(s) ==
  /\ turn[s] /\ ~tail[s]
  /\ turn' = [turn EXCEPT ![s] = FALSE] /\ tail' = [tail EXCEPT ![s] = TRUE]
  /\ UNCHANGED <<draining, terminal, run, safe, chan, cli, queue, archived, op, requests, windows>>

\* The tail of the loop: start the next queued turn, then store the flag.
AtRest(s) == ~turn[s] /\ queue[s] # "due"
TailOfLoop(s) ==
  /\ tail[s] /\ tail' = [tail EXCEPT ![s] = FALSE]
  /\ LET starts == queue[s] = "due" /\ ~turn[s] IN
     /\ turn' = [turn EXCEPT ![s] = @ \/ starts] /\ cli' = [cli EXCEPT ![s] = @ \/ starts]
     /\ \E rest \in {"empty", "due"} : queue' = IF starts THEN [queue EXCEPT ![s] = rest] ELSE queue
     /\ safe' = [safe EXCEPT ![s] = AtRest(s)]
  /\ UNCHANGED <<draining, terminal, run, chan, archived, op, requests, windows>>

Handle(c) ==
  \/ Enter(c) \/ Hold(c) \/ Answer(c) \/ Check(c) \/ Dispatch(c) \/ Close(c) \/ Archive(c) \/ Closed(c)
  \/ Unarchive(c) \/ Terminal(c) \/ Undo(c) \/ Sweep(c) \/ Restored(c) \/ Prepare(c)

Next ==
  \/ \E c \in Clients : Ask(c) \/ GiveUp(c) \/ Handle(c)
  \/ \E s \in Sessions : Receive(s) \/ TurnEnds(s) \/ TailOfLoop(s)

Spec == Init /\ [][Next]_vars

-----------------------------------------------------------------------------
(* Safety. *)

TypeOK ==
  /\ draining \in BOOLEAN /\ terminal \in BOOLEAN
  /\ {run, safe, tail, cli, turn, archived} \subseteq [Sessions -> BOOLEAN]
  /\ queue \in [Sessions -> {"empty", "held", "due"}]
  /\ \A s \in Sessions : Len(chan[s]) <= Cardinality(Clients) + (IF "timeout" \in windows THEN MaxRequests ELSE 0)
  /\ \A c \in Clients :
       /\ op[c].kind \in AllKinds \cup {"none"} /\ op[c].on \in Sessions \cup {NoSession}
       /\ op[c].step \in Steps /\ op[c].todo \subseteq Sessions
  /\ requests \in 0..MaxRequests /\ windows \subseteq Windows
  /\ \A s \in Sessions : ~run[s] => ~safe[s] /\ chan[s] = <<>> /\ ~tail[s] /\ ~cli[s] /\ ~turn[s]

\* Undo restores files while nobody of the host works on them: no turn, no CLI
\* that could start one, no terminal.  The flag may be stale and a given-up
\* request may still wait in a channel: the close that follows in the same
\* channel finds what the flag missed.
RestoreAlone ==
  (\E c \in Clients : op[c].step = "restoring") =>
    ~terminal /\ \A s \in Sessions : ~turn[s] /\ ~cli[s] /\ queue[s] # "due"

\* An archived session has no CLI and no turn, and nothing will start one.
ArchivedAtRest == \A s \in Sessions : archived[s] => ~turn[s] /\ ~cli[s] /\ queue[s] # "due"

\* A granted upgrade ends no work: the daemon that is about to stop runs no
\* turn and holds no terminal, and none starts.
UpgradeInterruptsNothing == draining => ~terminal /\ \A s \in Sessions : ~turn[s] /\ queue[s] # "due"

\* The same, where no flag is stale and no given-up request waits in a channel.
UpgradeSafe == windows = {} => UpgradeInterruptsNothing

\* Archived sessions have no actors.  The code does not keep this: an edit that
\* read the flag before it was saved starts one, with no CLI, afterwards.
ArchivedHasNoActor == \A s \in Sessions : archived[s] => ~run[s]

\* What has a next step of its own: a request that waits neither for a lock nor
\* for an actor, and an actor that has something in its channel or in its tail.
MayGoOn(c) ==
  \/ op[c].step \in {"asked", "holding", "checked", "sweeping", "restoring", "closed", "done", "refused"}
  \/ op[c].step = "entered" /\ FreeToHold(op[c].kind)
ActorMayGoOn(s) == tail[s] \/ (run[s] /\ chan[s] # <<>>)

\* No request waits for ever: while one is not answered some task of the daemon
\* can go on, although no turn need ever end.  The two locks and the channels
\* are never waited for in a circle, and an actor that ends answers what is
\* left in its channel.  (Every behaviour makes boundedly many requests and
\* each takes boundedly many steps.)
SomeoneGoesOn ==
  (\E c \in Clients : op[c].step # "idle") =>
    (\E c \in Clients : MayGoOn(c)) \/ (\E s \in Sessions : ActorMayGoOn(s))

\* So it is, and the steps said to be possible are.
NeverStuck ==
  /\ SomeoneGoesOn
  /\ \A c \in Clients : MayGoOn(c) => ENABLED Handle(c)
  /\ \A s \in Sessions : ActorMayGoOn(s) => ENABLED (Receive(s) \/ TailOfLoop(s))
=============================================================================
