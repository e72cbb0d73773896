---------------------------- MODULE TraexAdapter ----------------------------
(***************************************************************************)
(* The adapter of Traex against its app-server: requests and responses     *)
(* with identities, and notifications.  The server is external: it handles *)
(* a request at any moment after it was sent and writes the response at    *)
(* any later one; that a turn has started is told before its end, or       *)
(* never, and a stop is refused only after the end of its turn was told.   *)
(* An error of the adapter (bail!) ends the CLI: dead.                     *)
(***************************************************************************)
EXTENDS Naturals, FiniteSets

CONSTANTS
  Inputs,        \* messages delivered while a turn runs
  Work,          \* commands and agents that go on in the background
  Items,         \* messages of the agent
  Topics,        \* what the behaviours of this instance are about
  MaxInputs,     \* 16 in the code
  MaxRequests,   \* 32 in the code: at more, request fails and the CLI ends
  MaxTurns       \* bound

TraexAssumption ==
  /\ Topics \subseteq {"inputs", "work", "text"} /\ MaxInputs \in Nat /\ MaxTurns \in Nat \ {0}
  /\ MaxRequests \in Nat /\ MaxInputs + 3 <= MaxRequests
  /\ "none" \notin Inputs

VARIABLES
  \* --- Traex ---
  phase, turn,   \* 0: no turn
  completed, success, steered, early, pending, interrupt, rename, approvals, streamed, background, children,
  out, dead,
  \* --- ghost: the server ---
  topic, at, ends, answers, notes, took, live, confirmed, stops

turns  == <<phase, turn, completed, success, early, interrupt, stops>>
inputs == <<steered, took, confirmed>>
texts  == <<streamed, approvals>>
work   == <<background, children, live>>
server == <<at, ends, answers, notes>>
rest   == <<topic, dead>>
vars   == <<turns, inputs, texts, work, server, rest, pending, rename, out>>

Req(method, n, i) == [method |-> method, turn |-> n, input |-> i]
Simple(method) == Req(method, 0, "none")
About(t) == topic = t
Methods(ms) == \E r \in pending : r.method \in ms
Unhandled(r) == r \in pending /\ ~\E a \in answers : a.req = r
Turns == 1 .. MaxTurns

Init ==
  /\ phase = "fresh" /\ turn = 0 /\ completed = 0 /\ success = FALSE /\ steered = {} /\ early = {} /\ pending = {}
  /\ interrupt = FALSE /\ rename = FALSE /\ approvals = {} /\ streamed = {} /\ background = {} /\ children = {}
  /\ out = {} /\ dead = FALSE
  /\ topic \in Topics /\ at = 0 /\ ends = [n \in Turns |-> "none"] /\ answers = {} /\ notes = {} /\ took = {}
  /\ live = {} /\ confirmed = {} /\ stops = {}

\* The turns so far are 1 .. Last.
Last == CHOOSE n \in 0 .. MaxTurns : \A m \in Turns : m <= n <=> ends[m] # "none" \/ m = at

-----------------------------------------------------------------------------
(* What the actor asks the adapter. *)

HasBackground == background # {} \/ children # {}
\* (Fault: a turn starts while requests of the last one are open.)
StartReady == phase = "ready"
StartQuiet == phase = "ready" /\ pending = {}
CanStartTurn == StartQuiet
CanReconfigure == StartQuiet /\ ~HasBackground

\* initialize, config/read and thread/start follow each other, and then the name
\* of a new session and the prompt that waited.
Open ==
  /\ phase = "fresh" /\ phase' = "opening" /\ pending' = pending \cup {Simple("initialize")} /\ out' = {}
  /\ UNCHANGED <<turn, completed, success, early, interrupt, stops, inputs, texts, work, server, rest, rename>>

Start ==
  /\ CanStartTurn /\ Last < MaxTurns
  /\ phase' = "starting" /\ early' = {} /\ streamed' = {} /\ pending' = pending \cup {Simple("turn/start")} /\ out' = {}
  /\ UNCHANGED <<turn, completed, success, interrupt, stops, inputs, approvals, work, server, rest, rename>>

Steer(i) ==
  /\ About("inputs") /\ phase = "running" /\ i \notin {s[1] : s \in took} \cup {r.input : r \in pending}
  /\ Cardinality(steered) + Cardinality({r \in pending : r.input # "none"}) < MaxInputs
  /\ pending' = pending \cup {Req("turn/steer", turn, i)} /\ out' = {}
  /\ UNCHANGED <<turns, inputs, texts, work, server, rest, rename>>

\* A stop before the turn has its identity waits for it.
Interrupt ==
  /\ phase # "fresh" /\ phase # "opening" /\ ~interrupt /\ ~Methods({"turn/interrupt"})
  /\ IF turn # 0
     THEN /\ pending' = pending \cup {Req("turn/interrupt", turn, "none")} /\ out' = {}
          /\ stops' = stops \cup {turn} /\ UNCHANGED interrupt
     ELSE /\ interrupt' = (phase = "starting") /\ out' = IF phase = "starting" THEN {} ELSE {"interrupted"}
          /\ stops' = stops \cup (IF phase = "starting" THEN {IF Unhandled(Simple("turn/start")) THEN Last + 1 ELSE Last} ELSE {})
          /\ UNCHANGED pending
  /\ UNCHANGED <<phase, turn, completed, success, early, inputs, texts, work, server, rest, rename>>

Rename ==
  /\ phase \in {"ready", "running"} /\ ~rename /\ rename' = TRUE /\ pending' = pending \cup {Simple("thread/name/set")}
  /\ out' = {} /\ UNCHANGED <<turns, inputs, texts, work, server, rest>>

Approve(q) ==
  /\ q \in approvals /\ approvals' = approvals \ {q} /\ out' = {}
  /\ UNCHANGED <<turns, inputs, streamed, work, server, rest, pending, rename>>

-----------------------------------------------------------------------------
(* The server. *)

Tell(r, ok) == answers' = answers \cup {[req |-> r, ok |-> ok]}
ServerKeeps == UNCHANGED <<turns, inputs, texts, work, rest, pending, rename>> /\ out' = {}

HandleStart ==
  /\ LET r == Simple("turn/start") IN Unhandled(r) /\ Tell(r, TRUE)
  /\ at = 0 /\ at' = Last + 1 /\ notes' \in {notes, notes \cup {<<"started", Last + 1>>}}
  /\ UNCHANGED ends /\ ServerKeeps

HandleSteer(r) ==
  /\ r.method = "turn/steer" /\ Unhandled(r) /\ Tell(r, at = r.turn) /\ out' = {}
  /\ took' = took \cup (IF at = r.turn THEN {<<r.input, r.turn>>} ELSE {})
  /\ UNCHANGED <<turns, steered, confirmed, texts, work, at, ends, notes, rest, pending, rename>>

HandleOther(r, ok) ==
  /\ r.method \in {"initialize", "config/read", "thread/start", "turn/interrupt", "thread/name/set"} /\ Unhandled(r)
  /\ ok \/ r.method = "thread/name/set" \/ (r.method = "turn/interrupt" /\ at # r.turn /\ <<"completed", r.turn>> \notin notes)
  /\ Tell(r, ok) /\ UNCHANGED <<at, ends, notes>> /\ ServerKeeps

End(status) ==
  /\ at # 0 /\ ends' = [ends EXCEPT ![at] = status] /\ at' = 0 /\ notes' = notes \cup {<<"completed", at>>}
  /\ UNCHANGED answers /\ ServerKeeps

-----------------------------------------------------------------------------
(* Turns. *)

Finished(n) ==
  /\ phase' = "ready" /\ turn' = 0 /\ completed' = n /\ success' = (ends[n] = "completed")
  /\ approvals' = {} /\ streamed' = {} /\ steered' = {}
  /\ confirmed' = confirmed \cup (IF success' THEN steered ELSE {})
  /\ out' = {IF success' THEN "finished" ELSE "failed"} \cup (IF success' /\ steered # {} THEN {"consumed"} ELSE {})

\* The identity of the turn is known: an end that came before it counts, and a
\* stop that waited is sent.
\* (Faults: the end that came early is forgotten; the stop is not taken.)
EarlyLost(n) == FALSE
EarlyKept(n) == n \in early
EndedEarly(n) == EarlyKept(n)
WaitingKept == interrupt
WaitingTaken == FALSE
AfterAdmit == WaitingTaken

AdmitTurn(n, asked) ==
  /\ early' = {} /\ interrupt' = AfterAdmit
  /\ IF EndedEarly(n)
     THEN Finished(n) /\ pending' = asked
     ELSE /\ phase' = "running" /\ turn' = n /\ out' = {"session"}
          /\ pending' = asked \cup (IF interrupt THEN {Req("turn/interrupt", n, "none")} ELSE {})
          /\ UNCHANGED <<completed, success, steered, confirmed, approvals, streamed>>
  /\ UNCHANGED <<stops, took, work, rest, rename>>

Started(n) ==
  /\ <<"started", n>> \in notes /\ notes' = notes \ {<<"started", n>>} /\ UNCHANGED <<at, ends, answers>>
  /\ IF phase = "starting" THEN AdmitTurn(n, pending)
     ELSE out' = {} /\ UNCHANGED <<turns, inputs, texts, work, rest, pending, rename>>

Completed(n) ==
  /\ <<"completed", n>> \in notes /\ <<"started", n>> \notin notes /\ notes' = notes \ {<<"completed", n>>}
  /\ UNCHANGED <<at, ends, answers, work, rest, pending, rename, took, interrupt, stops>>
  /\ \/ /\ phase = "starting" /\ early' = early \cup {n} /\ out' = {}
        /\ UNCHANGED <<phase, turn, completed, success, steered, confirmed, texts>>
     \/ phase = "running" /\ turn = n /\ Finished(n) /\ UNCHANGED early
     \/ /\ phase # "starting" /\ turn # n /\ out' = {}
        /\ UNCHANGED <<phase, turn, completed, success, early, steered, confirmed, texts>>

-----------------------------------------------------------------------------
(* Responses. *)

Quietly == UNCHANGED <<turns, inputs, texts, work>>
Died == dead' = TRUE /\ Quietly /\ UNCHANGED <<rename, topic>> /\ out' = {}

\* The input is in the turn that runs, or in one that has ended since.
\* (Fault: an input whose turn has ended is given back.)
LateRejected == "rejected"
LateSettled == IF success THEN "consumed" ELSE "doubt"
Late == LateSettled

SteerAnswer(r, ok) ==
  \/ ~ok /\ out' = {"rejected"} /\ Quietly /\ UNCHANGED <<rename, rest>>
  \/ /\ ok /\ phase = "running" /\ turn = r.turn /\ steered' = steered \cup {r.input} /\ out' = {}
     /\ UNCHANGED <<turns, took, confirmed, texts, work, rename, rest>>
  \/ /\ ok /\ turn # r.turn /\ completed = r.turn
     /\ confirmed' = confirmed \cup (IF Late = "consumed" THEN {r.input} ELSE {}) /\ out' = {Late} \ {"doubt"}
     /\ UNCHANGED <<turns, steered, took, texts, work, rename, rest>>
  \/ ok /\ turn # r.turn /\ completed # r.turn /\ Died

\* Only the end of the very turn makes the refusal of its stop obsolete.
InterruptAnswer(r, ok) ==
  \/ (ok \/ r.turn = completed) /\ out' = {"interrupted"} /\ Quietly /\ UNCHANGED <<rename, rest>>
  \/ ~ok /\ r.turn # completed /\ Died

Response(a) ==
  /\ a \in answers /\ answers' = answers \ {a} /\ UNCHANGED <<at, ends, notes>>
  /\ LET r == a.req
         asked == pending \ {r}
     IN
     \/ /\ r.method \in {"initialize", "config/read"}
        /\ pending' = asked \cup {Simple(IF r.method = "initialize" THEN "config/read" ELSE "thread/start")}
        /\ out' = {} /\ Quietly /\ UNCHANGED <<rename, rest>>
     \/ /\ r.method = "thread/start" /\ out' = {"ready"}
        /\ \E titled \in BOOLEAN, prompted \in BOOLEAN :
             /\ rename' = titled /\ phase' = (IF prompted THEN "starting" ELSE "ready")
             /\ pending' = asked \cup (IF titled THEN {Simple("thread/name/set")} ELSE {})
                                 \cup (IF prompted THEN {Simple("turn/start")} ELSE {})
        /\ UNCHANGED <<turn, completed, success, early, interrupt, stops, inputs, texts, work, rest>>
     \/ /\ r.method = "turn/start"
        /\ IF phase = "starting" THEN AdmitTurn(Last, asked)
           ELSE pending' = asked /\ out' = {} /\ Quietly /\ UNCHANGED <<rename, rest>>
     \/ r.method = "turn/steer" /\ pending' = asked /\ SteerAnswer(r, a.ok)
     \/ r.method = "turn/interrupt" /\ pending' = asked /\ InterruptAnswer(r, a.ok)
     \/ /\ r.method = "thread/name/set" /\ pending' = asked /\ rename' = FALSE
        /\ out' = (IF rename THEN {"renamed"} ELSE {}) /\ Quietly /\ UNCHANGED rest

-----------------------------------------------------------------------------
(* Items of a turn. *)

Running(n) == phase = "running" /\ turn = n /\ at = n
ItemKeeps == UNCHANGED <<turns, inputs, server, rest, pending, rename>>

Ask(q) ==
  /\ About("text") /\ Running(at) /\ approvals' = approvals \cup {q} /\ out' = {"approval"}
  /\ ItemKeeps /\ UNCHANGED <<streamed, work>>

\* A piece of a message, or the whole of it.
Text(i, whole) ==
  /\ About("text") /\ Running(at)
  /\ streamed' = streamed \cup {i} /\ out' = IF whole /\ i \in streamed THEN {} ELSE {"text"}
  /\ ItemKeeps /\ UNCHANGED <<approvals, work>>

\* A command goes on after its turn, with or without the number of its process.
Backgrounded(c, process) ==
  /\ About("work") /\ Running(at) /\ c \notin live \cup children /\ c \notin {b.item : b \in background}
  /\ background' = background \cup {[item |-> c, turn |-> turn, process |-> process]}
  /\ live' = live \cup {c} /\ out' = {"notice"} /\ ItemKeeps /\ UNCHANGED <<children, texts>>

\* It ends, which its own item says, whenever it comes; one that was declined
\* does not.
CommandEnds(b, exited) ==
  /\ b \in background /\ live' = (IF exited THEN live \ {b.item} ELSE live)
  /\ background' = (IF exited THEN background \ {b} ELSE background) /\ out' = {"toolResult"}
  /\ ItemKeeps /\ UNCHANGED <<children, texts>>

\* A later command polls it: only an exit of its process releases it.
\* (Fault: a poll that says nothing of an exit releases it as well.)
PollAny(exited) == TRUE
PollExited(exited) == exited
Releases(exited) == PollExited(exited)

Polled(b, exited) ==
  /\ b \in background /\ b.process /\ Running(at)
  /\ live' = (IF exited THEN live \ {b.item} ELSE live)
  /\ background' = (IF Releases(exited) THEN background \ {b} ELSE background) /\ out' = {"toolResult"}
  /\ ItemKeeps /\ UNCHANGED <<children, texts>>

\* An agent works from the moment it is named until a snapshot says it is over.
Agent(c, over) ==
  /\ About("work") /\ Running(at) /\ c \notin {b.item : b \in background} /\ (over => c \in live)
  /\ children' = (IF over THEN children \ {c} ELSE children \cup {c})
  /\ live' = (IF over THEN live \ {c} ELSE live \cup {c}) /\ out' = {"tool"}
  /\ ItemKeeps /\ UNCHANGED <<background, texts>>

Next ==
  /\ ~dead
  /\ \/ Open \/ Start \/ Interrupt \/ Rename \/ HandleStart
     \/ \E i \in Inputs : Steer(i)
     \/ \E r \in pending : HandleSteer(r) \/ \E ok \in BOOLEAN : HandleOther(r, ok)
     \/ \E status \in {"completed", "failed"} : End(status)
     \/ \E n \in Turns : Started(n) \/ Completed(n)
     \/ \E a \in answers : Response(a)
     \/ \E i \in Items : Ask(i) \/ Approve(i) \/ \E whole \in BOOLEAN : Text(i, whole)
     \/ \E c \in Work, p \in BOOLEAN : Backgrounded(c, p) \/ Agent(c, p)
     \/ \E b \in background, exited \in BOOLEAN : CommandEnds(b, exited) \/ Polled(b, exited)

Spec == Init /\ [][Next]_vars

-----------------------------------------------------------------------------
(* Safety. *)

TypeOK ==
  /\ phase \in {"fresh", "opening", "starting", "ready", "running"} /\ turn \in 0 .. MaxTurns /\ at \in 0 .. MaxTurns
  /\ (turn # 0 <=> phase = "running") /\ (interrupt => phase = "starting")
  /\ steered \subseteq Inputs /\ confirmed \subseteq Inputs /\ Cardinality(steered) <= MaxInputs
  /\ children \subseteq Work /\ Cardinality(pending) <= MaxRequests /\ \A a \in answers : a.req \in pending

\* Whatever order requests, responses and notifications take, a server that
\* keeps the protocol never brings the adapter to an error, and when nothing is
\* under way the two agree: on whether a turn runs, and on the inputs that a
\* turn which succeeded has taken, all of which are confirmed and no others.
AgreesWhenQuiet ==
  /\ ~dead
  /\ confirmed \subseteq {s[1] : s \in {t \in took : ends[t[2]] = "completed"}}
  /\ pending = {} /\ notes = {} =>
       /\ (phase = "running" <=> at # 0) /\ phase # "starting"
       /\ \A t \in took : ends[t[2]] = "completed" => t[1] \in confirmed

\* An input is given back to its author only when the server has not taken it,
\* and a stop is sent only to the turn in which it was asked for.
RefusalStep ==
  /\ "rejected" \in out' => \E a \in answers : a \notin answers' /\ a.req.input \notin {s[1] : s \in took}
  /\ \A r \in pending' : r.method = "turn/interrupt" => r.turn \in stops'

\* Between turns the CLI is replaced only when nothing it has spoken of works.
ReplacesNoWork == CanReconfigure => live = {}

\* What carries them.  Turns are told of one at a time: at most the last one runs
\* or is still to be told of.
StartAsked == Simple("turn/start")
Waiting == phase = "starting" /\ Unhandled(StartAsked)
Under == phase = "running" \/ (phase = "starting" /\ ~Unhandled(StartAsked))

TurnsNumbered ==
  /\ Last \in 0 .. MaxTurns /\ at \in {0, Last} /\ ends \in [Turns -> {"none", "completed", "failed"}]
  /\ \A n \in Turns : ends[n] # "none" <=> n <= Last /\ n # at

\* A request that names a turn names the last one, and a new turn waits for its answer.
Asked ==
  [method : {"initialize", "config/read", "thread/start", "turn/start", "turn/steer", "turn/interrupt", "thread/name/set"},
   turn : 0 .. MaxTurns, input : Inputs \cup {"none"}]
RequestsSound ==
  /\ pending \subseteq Asked
  /\ answers \subseteq [req : pending, ok : BOOLEAN] /\ \A a, b \in answers : a.req = b.req => a = b
  /\ phase = "fresh" => pending = {}
  /\ \A r \in pending :
       /\ r.method \in {"initialize", "config/read", "thread/start"} => phase = "opening" /\ pending = {r}
       /\ r.method = "turn/start" => r = StartAsked /\ phase \in {"starting", "ready", "running"}
       /\ r.method \in {"turn/steer", "turn/interrupt"} => phase \in {"ready", "running"} /\ r.turn = Last /\ Last # 0
       /\ r.method = "turn/interrupt" => r.turn \in stops
       /\ r.method = "turn/steer" <=> r.input # "none"

TurnSound ==
  /\ phase \in {"fresh", "opening", "starting", "ready", "running"} /\ {success, interrupt} \subseteq BOOLEAN
  /\ phase \in {"fresh", "opening"} => Last = 0
  /\ turn = (IF phase = "running" THEN Last ELSE 0) /\ (interrupt => phase = "starting")
  /\ phase = "starting" => StartAsked \in pending
  /\ phase # "starting" => ~Unhandled(StartAsked)
  /\ interrupt => (IF Waiting THEN Last + 1 ELSE Last) \in stops
  /\ ~Under => /\ at = 0 /\ notes = {} /\ early = {} /\ completed = Last
               /\ Last # 0 => (success <=> ends[Last] = "completed")
  /\ Waiting => Last < MaxTurns
  /\ Under => /\ Last # 0 /\ notes \subseteq {<<"started", Last>>, <<"completed", Last>>}
              /\ \/ at = Last /\ <<"completed", Last>> \notin notes /\ early = {}
                 \/ at = 0 /\ <<"completed", Last>> \in notes /\ early = {}
                 \/ at = 0 /\ notes = {} /\ early = {Last} /\ phase = "starting"
  /\ \A a \in answers : a.req.method = "turn/interrupt" /\ ~a.ok => phase = "ready"

\* An input that was taken is confirmed, or on its way to be.
Takers == {s[1] : s \in took}
InputsSound ==
  /\ ~dead /\ took \subseteq Inputs \X Turns /\ steered \subseteq Inputs
  /\ phase # "running" => steered = {}
  /\ \A i \in steered : <<i, turn>> \in took
  /\ \A i \in confirmed : \E n \in Turns : <<i, n>> \in took /\ ends[n] = "completed"
  /\ \A s \in took :
       \/ s[1] \in confirmed \/ ends[s[2]] = "failed"
       \/ phase = "running" /\ s[2] = turn /\ s[1] \in steered
       \/ \E a \in answers : a.ok /\ a.req = Req("turn/steer", s[2], s[1])
  /\ \A a \in answers : a.req.method = "turn/steer" =>
       IF a.ok THEN <<a.req.input, a.req.turn>> \in took ELSE a.req.input \notin Takers
  /\ \A r \in pending : r.method = "turn/steer" /\ Unhandled(r) => r.input \notin Takers
  /\ \A r, q \in pending : r.method = "turn/steer" /\ r.input = q.input => r = q
WorkTold == live \subseteq children \cup {b.item : b \in background}

\* Messages are steered or asked for, and besides them one request of a kind waits.
RequestsFew ==
  /\ IsFiniteSet(steered) /\ IsFiniteSet(pending)
  /\ Cardinality(steered) + Cardinality({r \in pending : r.input # "none"}) <= MaxInputs
  /\ \A r \in pending : r.method = "thread/name/set" => r = Simple("thread/name/set")
  /\ children \subseteq Work
TraexInv == TurnsNumbered /\ RequestsSound /\ TurnSound /\ InputsSound /\ WorkTold
=============================================================================
