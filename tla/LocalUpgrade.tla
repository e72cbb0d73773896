----------------------------- MODULE LocalUpgrade -----------------------------
(***************************************************************************)
(* Which daemon of a state directory a connection reaches.  A daemon holds *)
(* server.lock for its life and listens on one socket file.  Local         *)
(* coordinators serialize on upgrade.lock, ask an idle daemon of another   *)
(* build to stop and take over; bridges attach to whatever is there.  Both *)
(* start a daemon when none answers.                                       *)
(***************************************************************************)
EXTENDS Naturals, FiniteSets

CONSTANTS
  Coordinators,  \* invocations of connect-local
  Bridges,       \* invocations of connect
  Builds,        \* the executables in use
  BuildOf,       \* the build of each invocation
  MaxDaemons     \* bound: daemons that are started

Connectors == Coordinators \cup Bridges

LocalUpgradeAssumption ==
  Coordinators \cap Bridges = {} /\ Builds # {} /\ BuildOf \in [Connectors -> Builds] /\ MaxDaemons \in Nat

Daemons == 1..MaxDaemons

VARIABLES
  phase,     \* of each daemon
  build,     \* its executable
  draining,  \* Lifecycle.draining
  busy,      \* has it a task or a terminal?
  socket,    \* the daemon whose listener control.sock is bound to, 0 for no file
  step,      \* where each invocation is
  peer,      \* the daemon its stream leads to, 0 for none
  seen       \* the daemon whose status it has read

vars == <<phase, build, draining, busy, socket, step, peer, seen>>

DaemonPhases == {"none", "spawned", "locked", "serving", "stopping", "unlinked", "gone"}
ConnectorSteps == {"idle", "connect", "ask", "prepare", "wait", "reconnect", "recheck", "final", "verify", "connected"}

Init ==
  /\ phase = [d \in Daemons |-> "none"] /\ build \in [Daemons -> {CHOOSE b \in Builds : TRUE}]
  /\ draining = [d \in Daemons |-> FALSE] /\ busy = [d \in Daemons |-> FALSE] /\ socket = 0
  /\ step = [c \in Connectors |-> "idle"] /\ peer = [c \in Connectors |-> 0] /\ seen = [c \in Connectors |-> 0]

-----------------------------------------------------------------------------
(* Daemons. *)

\* serve owns the lock until it returns, after its socket is gone.
\* (Fault: it gives the lock back when it stops listening.)
HoldsUntilStop(d) == phase[d] \in {"locked", "serving"}
Holds(d) == phase[d] \in {"locked", "serving", "stopping", "unlinked"}
LockFree == \A d \in Daemons : ~Holds(d)
Live(d) == phase[d] \in {"locked", "serving", "stopping", "unlinked"}

Enters(d, from, to) == phase[d] = from /\ phase' = [phase EXCEPT ![d] = to]

\* try_lock.  A coordinator that waits for the lock takes it for a moment and
\* may be in the way.
TakeLock(d) ==
  /\ \/ LockFree /\ Enters(d, "spawned", "locked")
     \/ /\ ~LockFree \/ \E c \in Coordinators : step[c] = "wait"
        /\ Enters(d, "spawned", "gone")
  /\ UNCHANGED <<build, draining, busy, socket, step, peer, seen>>

\* The socket file of a daemon that died is removed, and a new one bound.
Listen(d) ==
  /\ Enters(d, "locked", "serving") /\ socket' = d
  /\ UNCHANGED <<build, draining, busy, step, peer, seen>>

\* Tasks and terminals come and go; none is admitted while it drains.
Work(d) ==
  /\ phase[d] = "serving" /\ ~draining[d] /\ busy' = [busy EXCEPT ![d] = ~@]
  /\ UNCHANGED <<phase, build, draining, socket, step, peer, seen>>

\* A granted upgrade, or a signal, ends the accept loop.
Stop(d) ==
  /\ Enters(d, "serving", "stopping")
  /\ UNCHANGED <<build, draining, busy, socket, step, peer, seen>>
Unlink(d) ==
  /\ Enters(d, "stopping", "unlinked") /\ socket' = 0
  /\ UNCHANGED <<build, draining, busy, step, peer, seen>>
\* The daemon exits or dies: the lock is released, a socket file it had stays,
\* and every stream to it ends.
End(d) ==
  /\ Live(d) /\ phase' = [phase EXCEPT ![d] = "gone"]
  /\ UNCHANGED <<build, draining, busy, socket, step, peer, seen>>

-----------------------------------------------------------------------------
(* Connections. *)

Go(c, from, to) == step[c] = from /\ step' = [step EXCEPT ![c] = to]
\* Connecting succeeds while a process listens, also one that accepts no more.
Reach == socket # 0 /\ phase[socket] \in {"serving", "stopping"}

\* connect_local: upgrade.lock is held to the end.
Begin(c) ==
  /\ c \in Coordinators => \A o \in Coordinators : step[o] \in {"idle", "connected"}
  /\ Go(c, "idle", "connect")
  /\ UNCHANGED <<phase, build, draining, busy, socket, peer, seen>>

\* connect_socket: a daemon is started when nobody listens; whoever wins the
\* lock is then connected to.
Spawn(c) ==
  /\ step[c] \in {"connect", "reconnect"} /\ ~Reach
  /\ \E d \in Daemons :
       /\ phase[d] = "none" /\ \A e \in 1..(d - 1) : phase[e] # "none"
       /\ phase' = [phase EXCEPT ![d] = "spawned"] /\ build' = [build EXCEPT ![d] = BuildOf[c]]
  /\ UNCHANGED <<draining, busy, socket, step, peer, seen>>

Connect(c) ==
  /\ Reach /\ peer' = [peer EXCEPT ![c] = socket]
  /\ \/ c \in Coordinators /\ Go(c, "connect", "ask")
     \/ c \in Bridges /\ Go(c, "connect", "connected")
     \/ Go(c, "reconnect", "recheck")
     \/ Go(c, "final", "verify")
  /\ UNCHANGED <<phase, build, draining, busy, socket, seen>>

\* Only a daemon that still accepts answers on a new stream.
Answers(c) == phase[peer[c]] = "serving"
Current(c) == build[peer[c]] = BuildOf[c] /\ ~draining[peer[c]]

\* The first status decides; the second and third must be the wanted one.
Status(c) ==
  /\ step[c] = "ask" /\ Answers(c)
  /\ Go(c, "ask", IF Current(c) THEN "final" ELSE IF draining[peer[c]] THEN "wait" ELSE "prepare")
  /\ seen' = [seen EXCEPT ![c] = peer[c]] /\ peer' = [peer EXCEPT ![c] = 0]
  /\ UNCHANGED <<phase, build, draining, busy, socket>>
\* server_status asks again after a failure; nothing else is ever repeated.
AskAgain(c) ==
  /\ Go(c, "ask", "connect") /\ peer' = [peer EXCEPT ![c] = 0]
  /\ UNCHANGED <<phase, build, draining, busy, socket, seen>>

\* PrepareUpgrade names the daemon whose status was read.  (Fault: whoever
\* listens by now is stopped.)
NamedAny(c, d) == TRUE
Named(c, d) == seen[c] = d
Prepare(c) ==
  /\ Reach /\ phase[socket] = "serving" /\ Named(c, socket) /\ ~busy[socket]
  /\ Go(c, "prepare", "wait")
  /\ draining' = [draining EXCEPT ![socket] = TRUE]
  /\ UNCHANGED <<phase, build, busy, socket, peer, seen>>
Waited(c) ==
  /\ LockFree /\ Go(c, "wait", "reconnect")
  /\ UNCHANGED <<phase, build, draining, busy, socket, peer, seen>>
Recheck(c) ==
  /\ step[c] = "recheck" /\ Answers(c) /\ Current(c) /\ Go(c, "recheck", "final")
  /\ peer' = [peer EXCEPT ![c] = 0]
  /\ UNCHANGED <<phase, build, draining, busy, socket, seen>>

\* The stream that is returned is checked itself.  (Fault: the status read
\* before is relied on.)
CurrentBefore(c) == TRUE
VerifiedStream(c) == Current(c)
Verify(c) ==
  /\ step[c] = "verify" /\ Answers(c) /\ VerifiedStream(c) /\ Go(c, "verify", "connected")
  /\ UNCHANGED <<phase, build, draining, busy, socket, peer, seen>>

\* Any refusal, failure or timeout; and the end of a connection.
GiveUp(c) ==
  /\ step[c] # "idle" /\ step' = [step EXCEPT ![c] = "idle"]
  /\ peer' = [peer EXCEPT ![c] = 0] /\ seen' = [seen EXCEPT ![c] = 0]
  /\ UNCHANGED <<phase, build, draining, busy, socket>>

Next ==
  \/ \E d \in Daemons : TakeLock(d) \/ Listen(d) \/ Work(d) \/ Stop(d) \/ Unlink(d) \/ End(d)
  \/ \E c \in Connectors : Begin(c) \/ Spawn(c) \/ Connect(c) \/ GiveUp(c)
  \/ \E c \in Coordinators : Status(c) \/ AskAgain(c) \/ Prepare(c) \/ Waited(c) \/ Recheck(c) \/ Verify(c)

Spec == Init /\ [][Next]_vars

-----------------------------------------------------------------------------
(* Safety. *)

TypeOK ==
  /\ phase \in [Daemons -> DaemonPhases] /\ build \in [Daemons -> Builds]
  /\ {draining, busy} \subseteq [Daemons -> BOOLEAN] /\ socket \in 0..MaxDaemons
  /\ step \in [Connectors -> ConnectorSteps]
  /\ peer \in [Connectors -> 0..MaxDaemons] /\ seen \in [Connectors -> 0..MaxDaemons]

\* One daemon at a time has the database open, and one that serves is the one
\* new connections reach: nobody removes the socket of another daemon.
OneReachableDaemon ==
  /\ \A d, e \in Daemons : Live(d) /\ Live(e) => d = e
  /\ \A d \in Daemons : phase[d] = "serving" => socket = d

\* A coordinator only hands out streams to a daemon of its own build, however
\* daemons died, were stopped or were started by others meanwhile.
OwnBuildOnly ==
  \A c \in Coordinators : step[c] = "connected" => build[peer[c]] = BuildOf[c]

\* Only an idle daemon of another build is drained, by a coordinator that has
\* read its status; a daemon that works, or already is what the coordinator
\* wants, is never stopped.
DrainStep ==
  \A d \in Daemons : draining'[d] # draining[d] =>
    /\ ~busy[d]
    /\ \E c \in Coordinators : step[c] = "prepare" /\ seen[c] = d /\ BuildOf[c] # build[d]

\* What carries them: a coordinator talks to a daemon that was started, whose
\* build is then for good, and asks for an upgrade of one of another build.
PeersStarted ==
  \A c \in Coordinators :
    /\ step[c] \in {"ask", "recheck", "verify", "connected"} =>
         peer[c] \in Daemons /\ phase[peer[c]] # "none"
    /\ step[c] = "prepare" =>
         seen[c] \in Daemons /\ phase[seen[c]] # "none" /\ build[seen[c]] # BuildOf[c]
UpgradeInv == TypeOK /\ OneReachableDaemon /\ PeersStarted /\ OwnBuildOnly
=============================================================================
