---------------------------- MODULE SessionActor ----------------------------
(***************************************************************************)
(* One session of the Latte Work server: the actor that owns the session's *)
(* native CLI process (runtime.rs), the durable message queue it drains    *)
(* (message_queue.rs, store.rs) and the part of the agent adapters that    *)
(* decides what the CLI still owes (agents/claude.rs, agents/traex.rs).    *)
(*                                                                         *)
(* An iteration of the actor's loop is cut where another party can see a   *)
(* difference: at every durable commit that precedes a write to the CLI,   *)
(* and at every branch of the code that follows the select.  pc names the  *)
(* place; a daemon crash can come at any of them.  Clients are free: any   *)
(* request may arrive whenever the actor is back at its select.            *)
(*                                                                         *)
(* A prompt is its request id, a text is the revision of its queue row,    *)
(* and a launch configuration is only known to be remembered or not; a     *)
(* comparison of two configurations may go either way.                     *)
(***************************************************************************)
EXTENDS Integers, FiniteSets

CONSTANTS
  Requests,     \* client-chosen request ids
  NoRequest,    \* no request
  Agent,        \* "claude" or "traex"
  MaxQueue,     \* queue capacity, pending and handed off together (16)
  MaxPending,   \* unanswered approvals and questions (32)
  MaxRevision   \* bound: edits and rejections of one queue row

ASSUME ConstantsAssumption ==
  /\ IsFiniteSet(Requests)
  /\ NoRequest \notin Requests
  /\ Agent \in {"claude", "traex"}
  /\ MaxQueue \in Nat \ {0}
  /\ MaxPending \in Nat \ {0}
  /\ MaxRevision \in Nat

VARIABLES
  \* --- durable: SQLite ---
  status,       \* Session.status
  accepted,     \* ids in the requests table
  row,          \* message_queue.status per id, "none" when there is no row
  revision,     \* QueuedMessage.revision
  rank,         \* message_queue.sort_order
  position,     \* message_queue.position (AUTOINCREMENT)
  pause,        \* queue state: "no", "sending" (while a send-now runs), "held"
  \* --- the actor's control and memory ---
  pc, prev,     \* program location; previous_status
  current,      \* the request being started or handed off
  origin,       \* which call of accept_turn is running
  immediate,    \* the accepted "send now" and the pause to restore after it
  forwarded,    \* ForwardedInputs
  configs,      \* ids with a remembered launch configuration (queued_configs)
  opening,      \* some Open request waits for its reply
  safe,         \* safe_to_close
  \* --- the native process and its adapter; phase "none" is no process ---
  phase, turnActive, stopping, ackPending, pending,
  prompt,       \* prompt the adapter keeps until initialization completes
  unacked,      \* inputs written, not yet attributed (Claude) or answered (Traex)
  steered,      \* Traex: inputs the running native turn has acknowledged
  renaming,     \* a title change (Traex: any other native request) is unconfirmed
  outcome,      \* last native result of this turn: "none", "ok", "failed"
  \* --- history ---
  sent          \* prompt writes since the last definitive native rejection

queueVars   == <<row, revision, rank, position>>
durable     == <<status, accepted, row, revision, rank, position, pause>>
memory      == <<immediate, forwarded, configs, opening, safe>>
adapter     == <<phase, prompt, unacked, steered, renaming, outcome>>
supervision == <<turnActive, stopping, ackPending, pending>>
process     == <<phase, prompt, unacked, steered, renaming, turnActive, stopping, ackPending, pending>>
turn        == <<current, origin>>
vars == <<status, accepted, row, revision, rank, position, pause, pc, prev, current, origin,
          immediate, forwarded, configs, opening, safe, phase, turnActive, stopping, ackPending,
          pending, prompt, unacked, steered, renaming, outcome, sent>>

Statuses == {"Ready", "Running", "Waiting", "Completed", "Failed", "Stopped", "Unknown"}
RowStates == {"none", "pending", "forwarded", "dispatched", "uncertain", "taken", "cancelled"}
Locations == {"down", "absent", "select", "handoff", "start", "error", "settle", "immediate",
              "after", "auto", "queueError", "flag"}
Phases == {"none", "opening", "starting", "running", "between"}
NoImmediate == [id |-> NoRequest, revision |-> 0, restore |-> "no"]

Active(s) == s \in {"Running", "Waiting"}
Alive == phase # "none"
\* TurnState.ready: set by the line that completes initialization, for good.
IsReady == phase \in {"running", "between"}
Pending == {r \in Requests : row[r] = "pending"}
Forwarded == {r \in Requests : row[r] = "forwarded"}
Live == Pending \cup Forwarded

\* AgentAdapter::can_start_turn and Process::can_start_turn.
\* (Fault: inputs the CLI still owes an account of are forgotten.)
AdapterIdleUnsettled == phase = "between" /\ ~renaming
AdapterIdle == phase = "between" /\ unacked = {} /\ ~renaming
CanStartTurn == AdapterIdle /\ ~turnActive /\ ~stopping /\ ~ackPending /\ pending = 0

\* The budget of the queue counts what waits and what is in the CLI's hands.
\* (Fault: only what waits.)
QueueLoadPending == Cardinality(Pending)
QueueLoad == Cardinality(Live)

\* (Fault: one interaction too many.)
RoomToAskOffByOne == pending <= MaxPending
RoomToAsk == pending < MaxPending

(***************************************************************************)
(* The order of the durable queue: sort_order, then insertion.             *)
(***************************************************************************)
Before(a, b) == rank[a] < rank[b] \/ (rank[a] = rank[b] /\ position[a] < position[b])
IsHead(r) == r \in Pending /\ \A q \in Pending \ {r} : Before(r, q)

\* n is one more than the largest value of f on S, or 1.
Follows(n, f, S) == (\A s \in S : f[s] < n) /\ (n = 1 \/ \E s \in S : f[s] = n - 1)
Numbers == 1 .. Cardinality(Requests)

\* uncertain_forwarded: whatever was handed off may or may not have been processed.
\* (Faults: the rows are left as they are; they are queued again.)
QuarantinedNever == row
QuarantinedReplay == [r \in Requests |-> IF row[r] = "forwarded" THEN "pending" ELSE row[r]]
Quarantined == [r \in Requests |-> IF row[r] = "forwarded" THEN "uncertain" ELSE row[r]]
\* consume_forwarded: the native result names these inputs.
Consumed(ids) ==
  [r \in Requests |-> IF r \in ids /\ row[r] = "forwarded" THEN "dispatched" ELSE row[r]]

FlagsOK ==
  /\ opening \in BOOLEAN /\ safe \in BOOLEAN /\ renaming \in BOOLEAN
  /\ turnActive \in BOOLEAN /\ stopping \in BOOLEAN /\ ackPending \in BOOLEAN

DataOK ==
  /\ status \in Statuses /\ prev \in Statuses
  /\ accepted \subseteq Requests
  /\ row \in [Requests -> RowStates]
  /\ revision \in [Requests -> 0..MaxRevision]
  /\ rank \in [Requests -> Nat] /\ position \in [Requests -> Nat]
  /\ pause \in {"no", "sending", "held"}
  /\ pc \in Locations
  /\ current \in Requests \cup {NoRequest}
  /\ origin \in {"none", "send", "immediate", "auto"}
  /\ immediate \in [id : Requests, revision : 0..MaxRevision,
                    restore : {"no", "sending", "held"}] \cup {NoImmediate}
  /\ forwarded \subseteq Requests /\ configs \subseteq Requests
  /\ phase \in Phases
  /\ pending \in 0..MaxPending
  /\ prompt \in Requests \cup {NoRequest}
  /\ unacked \subseteq Requests /\ steered \subseteq Requests
  /\ outcome \in {"none", "ok", "failed"}
  /\ sent \in [Requests -> Nat]

\* Every variable has its type.
TypeOK == DataOK /\ FlagsOK

Init ==
  /\ status = "Ready" /\ prev = "Ready" /\ accepted = {} /\ pause = "no"
  /\ row = [r \in Requests |-> "none"]
  /\ revision = [r \in Requests |-> 0]
  /\ rank = [r \in Requests |-> 0] /\ position = [r \in Requests |-> 0]
  /\ pc = "absent" /\ current = NoRequest /\ origin = "none"
  /\ immediate = NoImmediate /\ forwarded = {} /\ configs = {}
  /\ opening = FALSE /\ safe = FALSE
  /\ phase = "none" /\ prompt = NoRequest /\ unacked = {} /\ steered = {} /\ renaming = FALSE
  /\ turnActive = FALSE /\ stopping = FALSE /\ ackPending = FALSE /\ pending = 0
  /\ outcome = "none"
  /\ sent = [r \in Requests |-> 0]

-----------------------------------------------------------------------------
(* Pieces of handlers. *)

\* Dropping a process drops the adapter's memory; p is "none", or "opening"
\* when a fresh one is started in its place.
ResetProcess(p) ==
  /\ phase' = p /\ prompt' = NoRequest /\ unacked' = {} /\ steered' = {} /\ renaming' = FALSE
  /\ turnActive' = FALSE /\ stopping' = FALSE /\ ackPending' = FALSE /\ pending' = 0
CloseProcess == ResetProcess("none")

\* One arm of the select.  next holds where the iteration can go on: a write
\* to the CLI that fails enters the error branch, anything else settles.
Receive == pc = "select" /\ UNCHANGED prev
Select(next) == Receive /\ pc' \in next /\ UNCHANGED turn

\* accept_turn up to its commit point: the process may first be replaced for a
\* new configuration, then Store::begin records the request and retires its row.
BeginTurn(r, from) ==
  /\ accepted' = accepted \cup {r} /\ status' = "Running"
  /\ row' = [row EXCEPT ![r] = IF @ \in {"pending", "forwarded"} THEN "dispatched" ELSE @]
  /\ current' = r /\ origin' = from /\ pc' = "start" /\ outcome' = "none"
  /\ \/ UNCHANGED process
     \/ AdapterIdle /\ CloseProcess

Written(r) == [sent EXCEPT ![r] = @ + 1]

-----------------------------------------------------------------------------
(* Requests of clients. *)

\* control_for: the first request of a session without an actor starts one.
StartActor ==
  /\ pc = "absent" /\ pc' = "select" /\ prev' = status /\ safe' = FALSE
  /\ UNCHANGED <<durable, turn, immediate, forwarded, configs, opening, process, outcome, sent>>

\* A request its handler refuses, or answers from what is stored.  Send clears
\* safe_to_close before it looks.
Refuse ==
  /\ Select({"settle"}) /\ safe' \in {safe, FALSE}
  /\ UNCHANGED <<durable, immediate, forwarded, configs, opening, process, outcome, sent>>

\* Control::Open: start the CLI without a prompt; wait until it is ready.
Open ==
  /\ Select({"settle"})
  /\ \/ ~Alive /\ phase' = "opening"
     \/ Alive /\ ~IsReady /\ UNCHANGED phase
  /\ opening' = TRUE
  /\ UNCHANGED <<durable, immediate, forwarded, configs, safe, prompt, unacked, steered,
                 renaming, supervision, outcome, sent>>

\* Control::RenameTitle, when the adapter takes it.
RenameTitle ==
  /\ Select({"settle", "error"})
  /\ IsReady /\ ~renaming /\ renaming' = TRUE /\ safe' = FALSE
  /\ UNCHANGED <<durable, immediate, forwarded, configs, opening, phase, prompt, unacked,
                 steered, supervision, outcome, sent>>

\* Control::Interrupt with inputs in the CLI's hands: only closing is definite.
StopHandedOff ==
  /\ Select({"settle"})
  /\ forwarded # {}
  /\ immediate' = NoImmediate /\ forwarded' = {}
  /\ row' = Quarantined /\ pause' = "held" /\ status' = "Stopped"
  /\ CloseProcess
  /\ UNCHANGED <<accepted, revision, rank, position, configs, opening, safe, outcome, sent>>

\* Control::Interrupt of a running turn: ask the CLI now, or once it is ready.
StopTurn ==
  /\ Select(IF IsReady THEN {"settle", "error"} ELSE {"settle"})
  /\ forwarded = {} /\ turnActive /\ ~stopping
  /\ immediate' = NoImmediate
  /\ stopping' = TRUE /\ ackPending' = (ackPending \/ IsReady)
  /\ UNCHANGED <<durable, forwarded, configs, opening, safe, adapter, turnActive, pending, sent>>

\* Control::Interrupt with nothing to stop, or with a stop already under way.
StopNothing ==
  /\ Select({"settle"})
  /\ forwarded = {} /\ (turnActive => stopping)
  /\ immediate # NoImmediate /\ immediate' = NoImmediate
  /\ UNCHANGED <<durable, forwarded, configs, opening, safe, process, outcome, sent>>

\* Dispatch{interrupt: false} in a running turn: the adapter prepares the
\* input and mark_forwarded commits; WriteHandoff then writes the prompt.
HandOff(r) ==
  /\ Receive /\ pc' = "handoff" /\ current' = r /\ UNCHANGED origin
  /\ turnActive /\ IsReady /\ ~stopping /\ ~ackPending
  /\ immediate = NoImmediate /\ Cardinality(forwarded) < MaxQueue
  /\ Cardinality(unacked \cup steered) < MaxQueue
  /\ row[r] = "pending" /\ row' = [row EXCEPT ![r] = "forwarded"]
  /\ forwarded' = forwarded \cup {r} /\ unacked' = unacked \cup {r}
  /\ configs' = configs \ {r}
  /\ UNCHANGED <<status, accepted, revision, rank, position, pause, immediate, opening, safe,
                 phase, prompt, steered, renaming, supervision, outcome, sent>>

WriteHandoff ==
  /\ pc = "handoff" /\ pc' \in {"settle", "error"}
  /\ sent' = Written(current) /\ current' = NoRequest
  /\ UNCHANGED <<durable, prev, origin, memory, process, outcome>>

\* Every other Dispatch becomes the immediate message: the queue is paused
\* around it and the turn in its way, if it may interrupt one, is stopped.
SendImmediately(r, interrupt) ==
  /\ immediate = NoImmediate
  /\ turnActive => interrupt
  /\ interrupt \/ forwarded = {}
  /\ Alive => IsReady /\ ~stopping /\ ~ackPending
  /\ row[r] = "pending"
  /\ immediate' = [id |-> r, revision |-> revision[r], restore |-> pause]
  /\ pause' = "sending"
  /\ \/ /\ forwarded # {} /\ Select({"settle"})
        /\ CloseProcess /\ forwarded' = {} /\ row' = Quarantined /\ status' = "Stopped"
     \/ /\ forwarded = {} /\ turnActive /\ Select({"settle", "error"})
        /\ stopping' = TRUE /\ ackPending' = TRUE
        /\ UNCHANGED <<status, row, forwarded, phase, prompt, unacked, steered, renaming,
                       turnActive, pending>>
     \/ /\ forwarded = {} /\ ~turnActive /\ Select({"settle"})
        /\ UNCHANGED <<status, row, forwarded, process>>
  /\ UNCHANGED <<accepted, revision, rank, position, configs, opening, safe, outcome, sent>>

\* No queue operation while a message is being sent now.
\* (Fault: the queue is not locked.)
QueueFreeAlways == TRUE
QueueFree == immediate = NoImmediate

\* take_queued and the removing edit_queued.
Withdraw(r) ==
  /\ Select({"settle"}) /\ QueueFree
  /\ row[r] = "pending"
  /\ row' \in {[row EXCEPT ![r] = "taken"], [row EXCEPT ![r] = "cancelled"]}
  /\ configs' = configs \ {r}
  /\ UNCHANGED <<status, accepted, revision, rank, position, pause, immediate, forwarded,
                 opening, safe, process, outcome, sent>>

\* edit_queued with a new text.
Edit(r) ==
  /\ Select({"settle"}) /\ QueueFree
  /\ row[r] = "pending" /\ revision[r] < MaxRevision
  /\ revision' = [revision EXCEPT ![r] = @ + 1]
  /\ UNCHANGED <<status, accepted, row, rank, position, pause, memory, process, outcome, sent>>

\* reorder_queue: ranks 0, 1, ... in the requested order.
Reorder ==
  /\ Select({"settle"}) /\ QueueFree
  /\ \E order \in [Pending -> 0 .. Cardinality(Pending) - 1] :
       /\ \A a, b \in Pending : order[a] = order[b] => a = b
       /\ rank' = [r \in Requests |-> IF r \in Pending THEN order[r] ELSE rank[r]]
  /\ UNCHANGED <<status, accepted, row, revision, position, pause, memory, process, outcome, sent>>

\* clear_queue also deletes the pause.
Clear ==
  /\ Select({"settle"}) /\ QueueFree
  /\ row' = [r \in Requests |-> IF row[r] = "pending" THEN "cancelled" ELSE row[r]]
  /\ pause' = "no" /\ configs' = {}
  /\ UNCHANGED <<status, accepted, revision, rank, position, immediate, forwarded, opening, safe,
                 process, outcome, sent>>

\* QueueAction::Resume, with a configuration for exactly the pending rows.
Resume ==
  /\ Select({"settle"}) /\ QueueFree
  /\ pause' = "no" /\ configs' = Pending
  /\ UNCHANGED <<status, accepted, queueVars, immediate, forwarded, opening, safe, process,
                 outcome, sent>>

-----------------------------------------------------------------------------
(* Control::Send and receive_turn. *)

\* (Fault: requests that started a turn are not remembered.)
FreshInQueue(r) == row[r] = "none"
Fresh(r) == row[r] = "none" /\ r \notin accepted
Busy == forwarded # {} \/ Active(status) \/ (Alive /\ ~CanStartTurn)

\* A busy session, or one with a queue, saves the prompt (Store::enqueue).
Enqueue(r) ==
  /\ Select({"settle"}) /\ safe' = FALSE
  /\ Fresh(r) /\ (Busy \/ Pending # {})
  /\ QueueLoad < MaxQueue
  /\ row' = [row EXCEPT ![r] = "pending"]
  /\ \E n \in Numbers : Follows(n, rank, Pending) /\ rank' = [rank EXCEPT ![r] = n]
  /\ \E n \in Numbers : /\ Follows(n, position, {q \in Requests : row[q] # "none"})
                        /\ position' = [position EXCEPT ![r] = n]
  /\ configs' = configs \cup {r}
  /\ UNCHANGED <<status, accepted, revision, pause, immediate, forwarded, opening, process,
                 outcome, sent>>

\* An idle session starts the turn.  send_queued does so only with an empty
\* queue, and lifts the pause; plain send ignores the queue.
SendNow(r) ==
  /\ Receive /\ safe' = FALSE
  /\ Fresh(r) /\ ~Busy
  /\ (Pending = {} /\ pause' = "no") \/ UNCHANGED pause
  /\ BeginTurn(r, "send")
  /\ UNCHANGED <<revision, rank, position, immediate, forwarded, configs, opening, sent>>

\* accept_turn after its commit point: write the prompt, or spawn a CLI whose
\* adapter keeps it; any failure closes the process and fails the turn.
StartTurn ==
  /\ pc = "start"
  /\ \/ /\ phase = "between" /\ phase' = "running" /\ turnActive' = TRUE
        /\ sent' = Written(current)
        /\ UNCHANGED <<status, prompt, unacked, steered, renaming, stopping, ackPending, pending>>
     \/ /\ ~Alive /\ phase' = "starting" /\ turnActive' = TRUE /\ prompt' = current
        /\ UNCHANGED <<status, unacked, steered, renaming, stopping, ackPending, pending, sent>>
     \/ /\ CloseProcess /\ status' = "Failed"
        /\ sent' \in {sent} \cup (IF Alive THEN {Written(current)} ELSE {})
  /\ pc' = CASE origin = "send" -> "settle"
             [] origin = "immediate" -> "after"
             [] OTHER -> IF status' = "Failed" THEN "queueError" ELSE "flag"
  /\ current' = NoRequest /\ origin' = "none"
  /\ UNCHANGED <<accepted, queueVars, pause, prev, memory, outcome>>

-----------------------------------------------------------------------------
(* Answers, closing, restarts. *)

\* Nothing runs, is owed or waits to run: what safe_to_close and an idle close
\* look at.  (Fault: an interrupt without its acknowledgement is no obstacle.)
AtRestUnacknowledged ==
  /\ pause # "no" \/ Pending = {}
  /\ immediate = NoImmediate /\ forwarded = {}
  /\ Alive => pending = 0 /\ AdapterIdle
AtRest ==
  /\ pause # "no" \/ Pending = {}
  /\ immediate = NoImmediate /\ forwarded = {}
  /\ Alive => ~ackPending /\ pending = 0 /\ AdapterIdle

\* The status after an answer.  (Fault: the turn is forgotten.)
AnsweredStatusIdle == IF pending' > 0 THEN "Waiting" ELSE "Completed"
AnsweredStatus ==
  IF pending' > 0 THEN "Waiting" ELSE IF turnActive THEN "Running" ELSE "Completed"

\* Control::AnswerQuestion and Control::Approval: the pending interaction is
\* used up first; only a written answer moves the session's status.
Answer ==
  /\ pending > 0 /\ pending' = pending - 1
  /\ \/ /\ Select({"settle"})
        /\ status' = AnsweredStatus
     \/ Select({"error"}) /\ UNCHANGED status
  /\ UNCHANGED <<accepted, queueVars, pause, memory, adapter, turnActive, stopping, ackPending, sent>>

\* Control::Cancel: the actor ends with its process.
EndActor ==
  /\ Receive /\ pc' = "absent"
  /\ pause' = "held" /\ CloseProcess
  /\ status' = IF Active(status) THEN "Stopped" ELSE status
  /\ immediate' = NoImmediate /\ forwarded' = {} /\ configs' = {}
  /\ opening' = FALSE /\ safe' = FALSE
  /\ UNCHANGED <<accepted, revision, rank, position, turn, outcome, sent>>

Close == EndActor /\ row' = Quarantined

\* Cancel{only_if_idle: true}, when nothing vetoes it.
CloseIfIdle ==
  /\ AtRest /\ (Alive => ~turnActive)
  /\ EndActor /\ UNCHANGED row

\* The daemon dies; only SQLite is left.
Crash ==
  /\ pc # "down" /\ pc' = "down" /\ prev' = status
  /\ current' = NoRequest /\ origin' = "none" /\ outcome' = "none"
  /\ immediate' = NoImmediate /\ forwarded' = {} /\ configs' = {}
  /\ opening' = FALSE /\ safe' = FALSE
  /\ CloseProcess
  /\ UNCHANGED <<durable, sent>>

\* Store::open: a queue with messages, waiting or handed off, is paused.
\* (Fault: only for those handed off.)
RestartPauseForwarded == IF Forwarded # {} THEN "held" ELSE pause
RestartPause == IF Live # {} THEN "held" ELSE pause

Restart ==
  /\ pc = "down" /\ pc' = "absent"
  /\ row' = Quarantined
  /\ pause' = RestartPause
  /\ status' = IF Active(status) THEN "Unknown" ELSE status
  /\ UNCHANGED <<accepted, revision, rank, position, prev, turn, memory, process, outcome, sent>>
-----------------------------------------------------------------------------
(* Lines of the native CLI, as the adapters translate them. *)

\* Traex may still owe the answer to a request of its adapter: the initial title
\* of a new thread, or the start of a turn that is already over.
MayOwe == {renaming} \cup {Agent = "traex"}

\* The acknowledged initialization: a prompt the adapter kept is written, and
\* a stop that came too early for the CLI is sent.
NativeReady ==
  /\ Select({"settle", "error"})
  /\ \/ phase = "opening" /\ phase' = "between" /\ UNCHANGED <<prompt, sent>>
     \/ phase = "starting" /\ phase' = "running" /\ prompt' = NoRequest /\ sent' = Written(prompt)
  /\ ackPending' = (ackPending \/ stopping) /\ renaming' \in MayOwe
  /\ UNCHANGED <<durable, memory, unacked, steered, turnActive, stopping, pending, outcome>>

\* Claude: output between turns is the start of an autonomous follow-up.
NativeTurnStarted ==
  /\ Select({"settle"})
  /\ Agent = "claude" /\ phase = "between" /\ phase' = "running"
  /\ turnActive' = TRUE /\ outcome' = "none"
  /\ status' = IF Active(status) THEN status ELSE "Running"
  /\ UNCHANGED <<accepted, queueVars, pause, memory, prompt, unacked, steered, renaming,
                 stopping, ackPending, pending, sent>>

\* What a result settles.  Claude: the inputs the CLI has attributed, whatever
\* the result.  Traex: the acknowledged steers, if the turn succeeded.
Settled(failed) ==
  IF Agent = "claude" THEN SUBSET unacked
  ELSE {IF failed THEN {} ELSE steered}

\* Process::apply of a result: it settles the inputs ids, and ends the turn
\* unless an interaction is still open, which is an error unless it was stopped.
FinishTurn(ids, failed) ==
  /\ unacked' = unacked \ ids /\ steered' = {}
  /\ row' = Consumed(ids)
  /\ phase' = "between" /\ renaming' \in MayOwe /\ outcome' = IF failed THEN "failed" ELSE "ok"
  /\ IF pending > 0 /\ ~stopping
       THEN /\ Select({"error"})
            /\ turnActive' = TRUE
            /\ UNCHANGED <<status, forwarded, stopping, pending>>
       ELSE /\ Select({"settle"})
            /\ turnActive' = FALSE /\ stopping' = FALSE /\ pending' = 0
            /\ status' = IF stopping THEN "Stopped" ELSE IF failed THEN "Failed" ELSE "Completed"
            /\ forwarded' = forwarded \ ids
  /\ UNCHANGED <<accepted, revision, rank, position, pause, immediate, configs, opening, safe,
                 prompt, ackPending, sent>>

NativeResult ==
  /\ phase = "running"
  /\ \E failed \in BOOLEAN : \E ids \in Settled(failed) : FinishTurn(ids, failed)

\* Claude: a result line between turns starts and ends a turn of its own.
NativeIdleResult ==
  /\ Agent = "claude" /\ phase = "between"
  /\ \E failed \in BOOLEAN : \E ids \in SUBSET unacked : FinishTurn(ids, failed)

\* An input settled outside a turn: Claude's trailing result envelope, or
\* Traex's late acknowledgement of an input whose turn already succeeded.
NativeInputSettled(r) ==
  /\ Select({"settle"})
  /\ phase = "between" /\ r \in unacked /\ unacked' = unacked \ {r}
  /\ IF Agent = "claude" \/ outcome = "ok"
       THEN row' = Consumed({r}) /\ forwarded' = forwarded \ {r}
       ELSE UNCHANGED <<row, forwarded>>
  /\ UNCHANGED <<status, accepted, revision, rank, position, pause, immediate, configs, opening,
                 safe, phase, prompt, steered, renaming, supervision, outcome, sent>>

\* Traex: the steer is acknowledged while its turn runs.
NativeSteered(r) ==
  /\ Select({"settle"})
  /\ Agent = "traex" /\ phase = "running"
  /\ r \in unacked /\ unacked' = unacked \ {r} /\ steered' = steered \cup {r}
  /\ UNCHANGED <<durable, memory, phase, prompt, renaming, supervision, outcome, sent>>

\* reject_forwarded: the row returns to the queue with a new revision, and the
\* queue is paused.  (Fault: it is not.)
SentBackRunning(r) ==
  /\ revision[r] < MaxRevision /\ revision' = [revision EXCEPT ![r] = @ + 1]
  /\ row' = [row EXCEPT ![r] = "pending"] /\ UNCHANGED pause
SentBack(r) ==
  /\ revision[r] < MaxRevision /\ revision' = [revision EXCEPT ![r] = @ + 1]
  /\ row' = [row EXCEPT ![r] = "pending"] /\ pause' = "held"

\* Traex: the steer is refused.
NativeRejected(r) ==
  /\ Select({"settle"})
  /\ Agent = "traex" /\ r \in unacked /\ unacked' = unacked \ {r}
  /\ sent' = [sent EXCEPT ![r] = 0]
  /\ IF row[r] = "forwarded"
       THEN SentBack(r)
       ELSE UNCHANGED <<revision, row, pause>>
  /\ forwarded' = forwarded \ {r}
  /\ UNCHANGED <<status, accepted, rank, position, immediate, configs, opening, safe, phase,
                 prompt, steered, renaming, supervision, outcome>>

\* A tool approval or a question; Traex has none between turns.
NativeAsk ==
  /\ IF Agent = "claude" THEN IsReady ELSE phase = "running"
  /\ IF RoomToAsk
       THEN Select({"settle"}) /\ pending' = pending + 1 /\ status' = "Waiting"
       ELSE Select({"error"}) /\ UNCHANGED <<pending, status>>
  /\ UNCHANGED <<accepted, queueVars, pause, memory, adapter, turnActive, stopping, ackPending, sent>>

\* The interrupt is acknowledged; interactions it cut short are forgotten.
NativeInterrupted ==
  /\ Select({"settle"})
  /\ ackPending /\ ackPending' = FALSE /\ pending' = 0
  /\ UNCHANGED <<durable, memory, adapter, turnActive, stopping, sent>>

NativeRenamed ==
  /\ Select({"settle"})
  /\ renaming /\ renaming' = FALSE
  /\ UNCHANGED <<durable, memory, phase, prompt, unacked, steered, supervision, outcome, sent>>

-----------------------------------------------------------------------------
(* Losing the process, and deadlines. *)

\* End of output, an unreadable line, a native error.
NativeLost ==
  /\ Alive /\ Select({"error"})
  /\ UNCHANGED <<durable, memory, process, outcome, sent>>

InitTimeout ==
  /\ Alive /\ ~IsReady /\ Select({"error"})
  /\ UNCHANGED <<durable, memory, process, outcome, sent>>

\* 24 hours, or 10 seconds after a Stop.  (Fault: a stop disarms it.)
TurnDueUnstopped == turnActive /\ ~stopping
TurnDue == turnActive

TurnTimeout ==
  /\ TurnDue /\ Select({"error"})
  /\ UNCHANGED <<durable, memory, process, outcome, sent>>

\* 24 hours for every handed-off input.  (Fault: only while the turn runs.)
HandoffDueInTurn == forwarded # {} /\ turnActive
HandoffDue == forwarded # {}

HandoffTimeout ==
  /\ HandoffDue /\ Select({"error"})
  /\ UNCHANGED <<durable, memory, process, outcome, sent>>

\* (Fault: the deadline counts only while a turn is in the way.)
ImmediateExpiresInTurn == immediate # NoImmediate /\ turnActive
ImmediateExpires == immediate # NoImmediate

\* 8 seconds: give the message back to the queue, leave the turn alone.
ImmediateTimeout ==
  /\ Select({"settle"})
  /\ ImmediateExpires /\ immediate' = NoImmediate
  /\ pause' = IF immediate.restore = "no" THEN "held" ELSE immediate.restore
  /\ UNCHANGED <<status, accepted, queueVars, forwarded, configs, opening, safe, process,
                 outcome, sent>>

\* The error branch: everything in flight becomes uncertain; a CLI that had
\* come up is reopened without a prompt.
Fail ==
  /\ pc = "error" /\ pc' = "settle"
  /\ forwarded' = {} /\ row' = Quarantined
  /\ immediate' = NoImmediate /\ pause' = "held" /\ status' = "Failed"
  /\ \/ IsReady /\ ResetProcess("opening")
     \/ CloseProcess
  /\ UNCHANGED <<accepted, revision, rank, position, prev, turn, configs, opening, safe, outcome, sent>>

-----------------------------------------------------------------------------
(* The end of every iteration. *)

\* (Fault: nobody tells those who wait for a CLI that is gone.)
StillOpeningDead == opening /\ ~IsReady
StillOpening == opening /\ Alive /\ ~IsReady

\* (Fault: a stopped turn counts as ended well.)
EndedUnlessStopped == status \in {"Failed", "Unknown"}
Ended == ~Active(status) /\ status # "Completed"

\* Answer the Opens; a session that ended other than by completion pauses its
\* queue and gives up on its handoffs.
Settle ==
  /\ pc = "settle" /\ pc' = "immediate"
  /\ opening' = StillOpening
  /\ pause' = IF Ended /\ (Active(prev) \/ prev # status) THEN "held" ELSE pause
  /\ row' = IF Ended /\ forwarded # {} THEN Quarantined ELSE row
  /\ forwarded' = IF Ended THEN {} ELSE forwarded
  /\ UNCHANGED <<status, accepted, revision, rank, position, prev, turn, immediate, configs, safe,
                 process, outcome, sent>>

ImmediateDue ==
  /\ immediate # NoImmediate /\ ~Active(status)
  /\ Alive => IsReady /\ ~turnActive /\ ~ackPending
EndedBadly == status \in {"Failed", "Unknown"} /\ Active(prev)

\* The message to send now waits on, is started, or is given back: the
\* pause that was put around it stays when it is refused.
ResolveImmediate ==
  /\ pc = "immediate" /\ UNCHANGED <<prev, revision, rank, position, pause, forwarded, configs, opening, safe, sent>>
  /\ \/ /\ ~ImmediateDue /\ pc' = "auto"
        /\ UNCHANGED <<status, accepted, row, turn, immediate, process, outcome>>
     \/ /\ ImmediateDue /\ (EndedBadly \/ Alive) /\ pc' = "auto"
        /\ immediate' = NoImmediate
        /\ UNCHANGED <<status, accepted, row, turn, process, outcome>>
     \/ /\ ImmediateDue /\ ~EndedBadly /\ (Alive => CanStartTurn)
        /\ BeginTurn(immediate.id, "immediate") /\ UNCHANGED immediate

\* Back from accept_turn: forget stale configurations, and unless the start
\* failed give the queue its earlier pause.
AfterImmediate ==
  /\ pc = "after" /\ pc' = "auto"
  /\ immediate' = NoImmediate /\ configs' = configs \cap Pending
  /\ pause' = IF status = "Failed" THEN pause ELSE immediate.restore
  /\ UNCHANGED <<status, accepted, queueVars, prev, turn, forwarded, opening, safe, process,
                 outcome, sent>>

\* (Fault: only the end of a turn is a reason to look at the queue.)
AutoDueAfterTurn ==
  /\ pause = "no" /\ forwarded = {} /\ ~Active(status) /\ Active(prev)
  /\ Alive => CanStartTurn
  /\ Pending # {}
AutoDue ==
  /\ pause = "no" /\ forwarded = {} /\ ~Active(status)
  /\ Alive => CanStartTurn
  /\ Pending # {}

\* The head of a running queue starts the next turn, with the configuration
\* remembered for it.
DrainQueue ==
  /\ pc = "auto"
  /\ UNCHANGED <<prev, revision, rank, position, pause, immediate, forwarded, opening, safe, sent>>
  /\ \/ /\ ~AutoDue /\ pc' = "flag"
        /\ UNCHANGED <<status, accepted, row, turn, configs, process, outcome>>
     \/ \E r \in Requests :
          /\ AutoDue /\ IsHead(r) /\ configs' = configs \ {r}
          /\ \/ r \in configs /\ BeginTurn(r, "auto")
             \/ /\ r \notin configs \/ Alive
                /\ pc' = "queueError"
                /\ UNCHANGED <<status, accepted, row, turn, process, outcome>>

QueueError ==
  /\ pc = "queueError" /\ pc' = "flag"
  /\ forwarded' = {} /\ row' = Quarantined /\ pause' = "held"
  /\ UNCHANGED <<status, accepted, revision, rank, position, prev, turn, immediate, configs,
                 opening, safe, process, outcome, sent>>

\* safe_to_close; background work of the CLI may veto it.
Flag ==
  /\ pc = "flag" /\ pc' = "select" /\ prev' = status
  /\ safe' \in IF ~AtRest THEN {FALSE} ELSE IF Alive THEN BOOLEAN ELSE {TRUE}
  /\ UNCHANGED <<durable, turn, immediate, forwarded, configs, opening, process, outcome, sent>>

-----------------------------------------------------------------------------
Tail == Fail \/ Settle \/ ResolveImmediate \/ StartTurn \/ AfterImmediate \/ DrainQueue
          \/ QueueError \/ Flag \/ WriteHandoff

Deadlines == InitTimeout \/ TurnTimeout \/ HandoffTimeout \/ ImmediateTimeout

Native ==
  \/ NativeReady \/ NativeTurnStarted \/ NativeResult \/ NativeIdleResult
  \/ NativeAsk \/ NativeInterrupted \/ NativeRenamed \/ NativeLost
  \/ \E r \in Requests : NativeInputSettled(r) \/ NativeSteered(r) \/ NativeRejected(r)

Client ==
  \/ StartActor \/ Refuse \/ Open \/ RenameTitle \/ StopHandedOff \/ StopTurn \/ StopNothing
  \/ Reorder \/ Clear \/ Resume \/ Answer \/ Close \/ CloseIfIdle
  \/ \E r \in Requests :
       \/ HandOff(r) \/ Withdraw(r) \/ Edit(r) \/ Enqueue(r) \/ SendNow(r)
       \/ \E interrupt \in BOOLEAN : SendImmediately(r, interrupt)

Next == Client \/ Native \/ Deadlines \/ Tail \/ Crash \/ Restart

Spec == Init /\ [][Next]_vars

-----------------------------------------------------------------------------
(* Safety. *)

\* The actor's memory of what the CLI holds agrees with the durable queue at
\* every point where the actor can be interrupted by a request or a line: an
\* input is never awaited without a row, nor left 'forwarded' unwatched.
\* (A result that turns out to be an error settles its rows first and drops
\* the memory in the error branch.)
HandoffAgreement ==
  /\ pc \notin {"error", "down"} => forwarded = Forwarded
  /\ pc = "error" => Forwarded \subseteq forwarded
  /\ pc = "down" => forwarded = {}

\* No prompt is written to a CLI twice, through any mix of sends, retries,
\* edits, handoffs, stops, crashes and restarts, unless the CLI has
\* definitively refused it in between.
AtMostOnce == \A r \in Requests : sent[r] <= 1

\* A message that waits in the queue, or was taken back or cancelled, is not
\* with any CLI: its prompt was never written, or was definitively refused, and
\* it was never the prompt of a turn.
WithdrawnNeverSent ==
  \A r \in Requests :
    row[r] \in {"pending", "taken", "cancelled"} => sent[r] = 0 /\ r \notin accepted

\* While a message is being sent now, it stays in the queue as its sender saw
\* it, the queue cannot start another one, and no other input is in the CLI's
\* hands.
ImmediateOwnsRow ==
  immediate # NoImmediate /\ pc \notin {"start", "after", "error"} =>
    /\ row[immediate.id] = "pending" /\ revision[immediate.id] = immediate.revision
    /\ pause # "no" /\ Forwarded = {}

\* A turn is started only on a CLI that owes nothing: no other turn, stop,
\* approval or handed-off input could be confused with the new one.
StartClean ==
  pc = "start" =>
    /\ ~turnActive /\ ~stopping /\ ~ackPending /\ pending = 0
    /\ unacked = {} /\ steered = {} /\ prompt = NoRequest
    /\ Forwarded = {} /\ row[current] \notin {"pending", "uncertain"}

\* A queue that runs by itself has a launch configuration for every message:
\* only a confirmation by the user ever stands between them.
ConfigsComplete ==
  pause = "no" /\ pc \notin {"down", "absent", "after", "error", "queueError"} => Pending \subseteq configs

\* What upgrade and undo read from outside the actor: no flag of a live
\* actor and no stored status hides a turn, a handoff or an approval.
IdleCheckSound ==
  safe /\ ~Active(status) =>
    /\ ~turnActive /\ ~ackPending /\ pending = 0 /\ prompt = NoRequest /\ Forwarded = {}
    /\ pc = "select" => immediate = NoImmediate /\ (pause # "no" \/ Pending = {})

\* A session without an actor is at rest: closed, or recovered after a crash,
\* it has no active status, no input in doubt left 'forwarded' and no queue that
\* would start by itself.
RestWithoutActor ==
  pc = "absent" => ~Active(status) /\ Forwarded = {} /\ (Pending # {} => pause # "no")

\* The stored status and the actor's turn agree whenever the actor listens.
StatusAgreement ==
  pc = "select" =>
    /\ turnActive => Active(status)
    /\ status = "Running" => turnActive
    /\ stopping \/ prompt # NoRequest => turnActive

\* No wake-up is missed: when the actor listens again, a queue that runs by
\* itself is waiting for something that will bring the actor back.
NoMissedWakeup ==
  pc = "select" /\ pause = "no" /\ Pending # {} =>
    Active(status) \/ forwarded # {} \/ immediate # NoImmediate \/ (Alive /\ ~CanStartTurn)

\* A waiting session has something to answer.  The code does not keep this: a
\* question asked between the interrupted result and the acknowledgement of the
\* stop is forgotten by the acknowledgement.
WaitingHasInteraction ==
  pc = "select" /\ status = "Waiting" /\ ~turnActive => pending > 0

\* A completed turn has its native result.
CompletedNeedsResult ==
  [][status # "Completed" /\ status' = "Completed" /\ accepted # {} => outcome' = "ok"]_vars

\* Pending and handed-off messages share one budget, also when the CLI sends one
\* back while others arrive.
CapacityBound == Cardinality(Live) <= MaxQueue
=============================================================================
