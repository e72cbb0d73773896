-------------------------- MODULE ResourceOwnership --------------------------
(***************************************************************************)
(* Who closes what.  Every launch of the desktop App is an owner id; it    *)
(* claims a session or terminal on a host's daemon before it opens it.     *)
(* Quitting the App closes what it owns within a deadline and leaves a     *)
(* record of the rest on disk; the next connection of any App to the host  *)
(* settles the records: it closes what they name on the local host, and    *)
(* adopts what survives on a remote one.                                   *)
(*                                                                         *)
(* The daemon is upgrade.rs with the parts of main.rs that touch the table *)
(* of owners; the App is lifecycle.rs, pending_close.rs and main.rs of the *)
(* desktop host.  One host is modelled.  A request is sent, then handled,  *)
(* then answered, each in a step of its own; its answer may be lost, and   *)
(* the daemon may restart or an App die between any two steps.             *)
(*                                                                         *)
(* Windows names the timing windows the code leaves open and that a run    *)
(* admits (WindowNames below says what each one is).                       *)
(***************************************************************************)
EXTENDS Integers, FiniteSets

CONSTANTS
  Apps,          \* launches of the App, one owner id each
  NoApp,         \* no owner
  Resources,     \* sessions and terminals of the host
  NoResource,    \* no resource
  Windows,       \* the timing windows this instance admits
  MaxInstances,  \* bound: starts of the daemon
  MaxLate        \* bound: requests given up by their App and handled later

\* "late"     a request its App gave up on is handled all the same, later;
\* "admission" quitting stops waiting for requests in flight after a second;
\* "log"      the record is not written because a connection attempt holds it;
\* "answer"   the answer to an adoption is lost;
\* "partial"  reading or rewriting a record, of this host or of another, fails
\*            after others were settled;
\* "race"     another App acts on a resource between its claim and its opening,
\*            or settles the record of an App that is still quitting.
WindowNames == {"late", "admission", "log", "answer", "partial", "race"}

ASSUME OwnershipAssumption ==
  /\ NoApp \notin Apps
  /\ NoResource \notin Resources
  /\ Windows \subseteq WindowNames
  /\ MaxInstances \in Nat \ {0}
  /\ MaxLate \in Nat

VARIABLES
  remote,     \* is the host reached over SSH?  Never changes.
  \* --- the daemon ---
  instance,   \* server_id: how often the daemon has started
  owner,      \* Lifecycle.owners
  live,       \* sessions and terminals that are open
  closing,    \* the close request that holds the write lock of draining
  late,       \* requests given up by their App and not handled yet
  \* --- the App ---
  phase,      \* where the App is between its launch and its exit
  link,       \* the connection to the host: "none", "settling", "ready"
  owned,      \* Connections.owned_instances: the instance each entry was made on
  work,       \* what the App is doing with each resource
  batch,      \* resources named by the unanswered close request of the exit
  reading,    \* the record being settled
  rpc,        \* the request about that record: "none", "sent", "served"
  got,        \* resources its answer grants
  adopted,    \* resources granted so far by this connection attempt
  \* --- disk ---
  record      \* pending-resources/<owner>.json: resource to instance

daemon == <<remote, instance, owner, live, closing, late>>
app    == <<phase, link, owned, work, batch>>
settle == <<reading, rpc, got, adopted>>
vars   == <<remote, instance, owner, live, closing, late, phase, link, owned, work, batch,
            reading, rpc, got, adopted, record>>

Phases == {"off", "up", "recording", "waiting", "cleaning", "leaving", "gone", "killed"}
Steps == {"idle", "admitted", "claim", "claimed", "open", "close", "unowned"}
Nothing == [r \in Resources |-> 0]
Entries == [Resources -> 0..MaxInstances]
NoClosing == [owner |-> NoApp, caller |-> NoApp, todo |-> {}, at |-> NoResource]
Closings == [owner : Apps, caller : Apps \cup {NoApp}, todo : SUBSET Resources,
             at : Resources \cup {NoResource}] \cup {NoClosing}
Requests == [kind : {"claim", "open", "close", "cleanup"}, app : Apps, on : SUBSET Resources]
              \cup [kind : {"adopt"}, app : Apps, previous : Apps, on : SUBSET Resources]

TypeOK ==
  /\ remote \in BOOLEAN /\ instance \in 1..MaxInstances
  /\ owner \in [Resources -> Apps \cup {NoApp}]
  /\ live \subseteq Resources
  /\ closing \in Closings
  /\ late \subseteq Requests
  /\ phase \in [Apps -> Phases]
  /\ link \in [Apps -> {"none", "settling", "ready"}]
  /\ owned \in [Apps -> Entries] /\ record \in [Apps -> Entries]
  /\ work \in [Apps -> [Resources -> Steps]]
  /\ batch \in [Apps -> SUBSET Resources]
  /\ reading \in [Apps -> Apps \cup {NoApp}]
  /\ rpc \in [Apps -> {"none", "sent", "served"}]
  /\ got \in [Apps -> SUBSET Resources] /\ adopted \in [Apps -> SUBSET Resources]

Init ==
  /\ remote \in BOOLEAN /\ instance = 1 /\ live = {} /\ closing = NoClosing /\ late = {}
  /\ owner = [r \in Resources |-> NoApp]
  /\ phase = [a \in Apps |-> "off"] /\ link = [a \in Apps |-> "none"]
  /\ owned = [a \in Apps |-> Nothing] /\ record = [a \in Apps |-> Nothing]
  /\ work = [a \in Apps |-> [r \in Resources |-> "idle"]]
  /\ batch = [a \in Apps |-> {}]
  /\ reading = [a \in Apps |-> NoApp] /\ rpc = [a \in Apps |-> "none"]
  /\ got = [a \in Apps |-> {}] /\ adopted = [a \in Apps |-> {}]

Quitting(a) == phase[a] \in {"recording", "waiting", "cleaning", "leaving"}
Running(a) == phase[a] = "up" \/ Quitting(a)
OfInstance(entries) == {r \in Resources : entries[r] = instance}
\* The lock file of the records: a connection attempt holds it while it settles.
LogFree == \A a \in Apps : link[a] # "settling"
\* A close request holds the write lock of draining from its first check to its
\* answer; every other request holds a read lock while it is handled.
\* (Fault: requests are handled while the close is under way.)
AdmittedAlways == TRUE
Admitted == closing = NoClosing
\* No other App is between the claim and the opening of r.
Undisturbed(a, r) ==
  "race" \in Windows \/ \A b \in Apps \ {a} : work[b][r] \notin {"claimed", "open"}

-----------------------------------------------------------------------------
(* The App works with its resources: host_request. *)

\* Any of the requests S may still be on its way when its App gives up on it.
StillSent(S) == \E T \in SUBSET S : Cardinality(late \cup T) <= MaxLate /\ late' = late \cup T

Work(a, r, from, to) == work[a][r] = from /\ work' = [work EXCEPT ![a][r] = to]

Launch(a) ==
  /\ phase[a] = "off" /\ phase' = [phase EXCEPT ![a] = "up"]
  /\ UNCHANGED <<daemon, link, owned, work, batch, settle, record>>

\* An open, send or create request passes the last check of quitting before
\* its claim.
Admit(a, r) ==
  /\ phase[a] = "up" /\ link[a] = "ready" /\ Work(a, r, "idle", "admitted")
  /\ UNCHANGED <<daemon, phase, link, owned, batch, settle, record>>

\* claim_resource: the entry is made before the claim is sent.
Claim(a, r) ==
  /\ Work(a, r, "admitted", "claim") /\ owned' = [owned EXCEPT ![a][r] = instance]
  /\ UNCHANGED <<daemon, phase, link, batch, settle, record>>

\* Request::ClaimResources: the newest claim holds.
ServeClaim(a, r) ==
  /\ Admitted /\ Undisturbed(a, r) /\ Work(a, r, "claim", "claimed")
  /\ owner' = [owner EXCEPT ![r] = a]
  /\ UNCHANGED <<remote, instance, live, closing, late, phase, link, owned, batch, settle, record>>

\* The claim is answered and the request itself goes out.  A request of the
\* user interface is withheld once quitting has begun; the sessions reopened
\* after a connection are not.
Send(a, r) ==
  /\ Work(a, r, "claimed", "open")
  /\ UNCHANGED <<daemon, phase, link, owned, batch, settle, record>>
Withhold(a, r) ==
  /\ Quitting(a) /\ Work(a, r, "claimed", "idle")
  /\ UNCHANGED <<daemon, phase, link, owned, batch, settle, record>>

\* The daemon opens the session or terminal, or refuses; the entry of a terminal
\* that was refused at its creation goes when the answer arrives.
ServeOpen(a, r) ==
  /\ Admitted
  /\ UNCHANGED <<remote, instance, owner, closing, late, phase, link, owned, batch, settle, record>>
  /\ \/ Work(a, r, "open", "idle") /\ live' \in {live, live \cup {r}}
     \/ Work(a, r, "open", "unowned") /\ r \notin live /\ UNCHANGED live

\* CloseAgentSession and CloseTerminal of the user interface: no owner is
\* checked, and the dispatcher forgets whoever it was.
Close(a, r) ==
  /\ phase[a] = "up" /\ link[a] = "ready" /\ Work(a, r, "idle", "close")
  /\ UNCHANGED <<daemon, phase, link, owned, batch, settle, record>>
ServeClose(a, r) ==
  /\ Admitted /\ Undisturbed(a, r) /\ Work(a, r, "close", "unowned")
  /\ live' = live \ {r} /\ owner' = [owner EXCEPT ![r] = NoApp]
  /\ UNCHANGED <<remote, instance, closing, late, phase, link, owned, batch, settle, record>>
Disown(a, r) ==
  /\ Work(a, r, "unowned", "idle") /\ owned' = [owned EXCEPT ![a][r] = 0]
  /\ UNCHANGED <<daemon, phase, link, batch, settle, record>>

\* The bridge is lost or the answer is not awaited any longer.
Lingering(a, r) ==
  IF "late" \in Windows /\ work[a][r] \in {"claim", "open", "close"}
  THEN {[kind |-> work[a][r], app |-> a, on |-> {r}]} ELSE {}
GiveUp(a, r) ==
  /\ work[a][r] # "idle"
  /\ work' = [work EXCEPT ![a][r] = "idle"]
  /\ StillSent(Lingering(a, r))
  /\ UNCHANGED <<remote, instance, owner, live, closing, phase, link, owned, batch, settle, record>>

Disconnect(a) ==
  /\ link[a] = "ready" /\ link' = [link EXCEPT ![a] = "none"]
  /\ UNCHANGED <<daemon, phase, owned, work, batch, settle, record>>

-----------------------------------------------------------------------------
(* Connecting: pending_close::drain settles the records under their lock. *)

Connect(a) ==
  /\ phase[a] = "up" /\ link[a] = "none" /\ LogFree
  /\ link' = [link EXCEPT ![a] = "settling"]
  /\ adopted' = [adopted EXCEPT ![a] = {}]
  /\ UNCHANGED <<daemon, phase, owned, work, batch, reading, rpc, got, record>>

\* A record of this host with nothing of the daemon's present instance is
\* dropped without a request.
DropRecord(a, j) ==
  /\ link[a] = "settling" /\ rpc[a] = "none"
  /\ record[j] # Nothing /\ OfInstance(record[j]) = {}
  /\ record' = [record EXCEPT ![j] = Nothing]
  /\ UNCHANGED <<daemon, app, settle>>

SettleRecord(a, j) ==
  /\ link[a] = "settling" /\ rpc[a] = "none" /\ OfInstance(record[j]) # {}
  /\ "race" \in Windows \/ ~Quitting(j)
  /\ reading' = [reading EXCEPT ![a] = j] /\ rpc' = [rpc EXCEPT ![a] = "sent"]
  /\ UNCHANGED <<daemon, app, got, adopted, record>>

\* Request::AdoptResources: what is alive and still belongs to the record's
\* owner, or already to the App that asks (its earlier answer was lost).
Adoptable(a, j) == {r \in live : owner[r] \in {j, a}}
Adoption(a) == OfInstance(record[reading[a]]) \cap Adoptable(a, reading[a])
ServeAdopt(a) ==
  /\ remote /\ Admitted /\ rpc[a] = "sent" /\ rpc' = [rpc EXCEPT ![a] = "served"]
  /\ \A r \in Adoption(a) : Undisturbed(a, r)
  /\ owner' = [r \in Resources |-> IF r \in Adoption(a) THEN a ELSE owner[r]]
  /\ got' = [got EXCEPT ![a] = Adoption(a)]
  /\ UNCHANGED <<remote, instance, live, closing, late, app, reading, adopted, record>>

WriteRecord(a) ==
  /\ rpc[a] = "served" /\ rpc' = [rpc EXCEPT ![a] = "none"]
  /\ record' = [record EXCEPT ![reading[a]] = Nothing]
  /\ adopted' = [adopted EXCEPT ![a] = @ \cup got[a]]
  /\ got' = [got EXCEPT ![a] = {}] /\ reading' = [reading EXCEPT ![a] = NoApp]
  /\ UNCHANGED <<daemon, app>>

\* Every record is settled: what was adopted is this App's.  The new connection
\* replaces the old one; answers that arrive on that are not used, so requests
\* in flight on it are given up before.
\* (Fault: it is shown, and not entered as owned.)
NothingAdopted(a) == owned[a]
WithAdopted(a) == [r \in Resources |-> IF r \in adopted[a] THEN instance ELSE owned[a][r]]
Connected(a) ==
  /\ link[a] = "settling" /\ rpc[a] = "none" /\ \A j \in Apps : record[j] = Nothing
  /\ \A r \in Resources : work[a][r] = "idle"
  /\ link' = [link EXCEPT ![a] = "ready"]
  /\ owned' = [owned EXCEPT ![a] = WithAdopted(a)]
  /\ adopted' = [adopted EXCEPT ![a] = {}]
  /\ UNCHANGED <<daemon, phase, work, batch, reading, rpc, got, record>>

\* A request or the rewriting of a record fails, and the attempt with it.  What
\* was adopted is forgotten; the daemon finishes a close it has begun.
LateSettling(a) ==
  IF rpc[a] # "sent" \/ closing.caller = a THEN {}
  ELSE IF ~remote
  THEN {[kind |-> "cleanup", app |-> reading[a], on |-> OfInstance(record[reading[a]])]}
  ELSE IF "late" \in Windows
  THEN {[kind |-> "adopt", app |-> a, previous |-> reading[a],
         on |-> OfInstance(record[reading[a]])]}
  ELSE {}
Abandoned(a) == IF closing.caller = a THEN [closing EXCEPT !.caller = NoApp] ELSE closing
ForgetSettling(a) ==
  /\ reading' = [reading EXCEPT ![a] = NoApp] /\ rpc' = [rpc EXCEPT ![a] = "none"]
  /\ got' = [got EXCEPT ![a] = {}] /\ adopted' = [adopted EXCEPT ![a] = {}]
ConnectFails(a) ==
  /\ link[a] = "settling"
  /\ adopted[a] # {} => "partial" \in Windows
  /\ got[a] # {} => "answer" \in Windows
  /\ link' = [link EXCEPT ![a] = "none"]
  /\ closing' = IF closing.owner = a THEN closing ELSE Abandoned(a)
  /\ StillSent(LateSettling(a))
  /\ ForgetSettling(a)
  /\ UNCHANGED <<remote, instance, owner, live, phase, owned, work, batch, record>>

-----------------------------------------------------------------------------
(* Quitting: lifecycle::quit. *)

Step(a, from, to) == phase[a] = from /\ phase' = [phase EXCEPT ![a] = to]

Quit(a) ==
  /\ Step(a, "up", "recording")
  /\ UNCHANGED <<daemon, link, owned, work, batch, settle, record>>

\* persist: the record of this App is what it owns now.
Persisted(a) ==
  IF LogFree THEN record' = [record EXCEPT ![a] = owned[a]]
  ELSE "log" \in Windows /\ UNCHANGED record
Record(a) ==
  /\ Step(a, "recording", "waiting") /\ Persisted(a)
  /\ UNCHANGED <<daemon, link, owned, work, batch, settle>>

\* A tab closes its own terminal while the App waits: the same close request
\* for one resource, after any connection attempt, and after the answer to its
\* creation, which holds the same client.
CloseTab(a, r) ==
  /\ phase[a] = "waiting" /\ link[a] # "settling" /\ batch[a] = {} /\ work[a][r] = "idle"
  /\ owned[a][r] = instance /\ batch' = [batch EXCEPT ![a] = {r}]
  /\ UNCHANGED <<daemon, phase, link, owned, work, settle, record>>

\* stop_owned first waits for the requests in flight.
\* (Fault: it waits for a connection attempt only.)
SettlingOnly(a) == link[a] = "settling"
InFlight(a) == link[a] = "settling" \/ \E r \in Resources : work[a][r] # "idle"
Wait(a) ==
  /\ Step(a, "waiting", "cleaning") /\ batch[a] = {}
  /\ InFlight(a) => "admission" \in Windows
  /\ UNCHANGED <<daemon, link, owned, work, batch, settle, record>>

\* One close request for everything owned on the daemon's present instance;
\* what was owned on an earlier one is gone already and is confirmed at once.
\* (Fault: everything is, before the daemon has answered.)
ConfirmedAll(a) == Nothing
Unconfirmed(a) == [r \in Resources |-> IF owned[a][r] = instance THEN instance ELSE 0]
Clean(a) ==
  /\ Step(a, "cleaning", "leaving")
  /\ batch' = [batch EXCEPT ![a] = OfInstance(owned[a])]
  /\ owned' = [owned EXCEPT ![a] = Unconfirmed(a)]
  /\ UNCHANGED <<daemon, link, work, settle, record>>

\* The process ends: its memory is lost, the requests it sent may still arrive.
LateCleanup(a) ==
  IF batch[a] = {} \/ closing.caller = a THEN {}
  ELSE {[kind |-> "cleanup", app |-> a, on |-> batch[a]]}
Leftover(a) == LateCleanup(a) \cup LateSettling(a) \cup UNION {Lingering(a, r) : r \in Resources}
Exit(a) ==
  /\ link' = [link EXCEPT ![a] = "none"] /\ owned' = [owned EXCEPT ![a] = Nothing]
  /\ work' = [work EXCEPT ![a] = [r \in Resources |-> "idle"]]
  /\ batch' = [batch EXCEPT ![a] = {}]
  /\ ForgetSettling(a)
  /\ closing' = Abandoned(a)
  /\ StillSent(Leftover(a))
  /\ UNCHANGED <<remote, instance, owner, live>>

\* All is confirmed, or the deadline of eight seconds has passed: what is still
\* owned is recorded, and the App exits.
Leave(a) ==
  /\ phase[a] \in {"waiting", "cleaning", "leaving"}
  /\ phase' = [phase EXCEPT ![a] = "gone"]
  /\ Persisted(a) /\ Exit(a)

\* A crash or forced kill runs no cleanup.
Kill(a) ==
  /\ Running(a) /\ phase' = [phase EXCEPT ![a] = "killed"]
  /\ Exit(a) /\ UNCHANGED record

-----------------------------------------------------------------------------
(* The daemon: Request::CloseOwnedResources, late requests, restarts. *)

Begin(for, caller, on) ==
  closing' = [owner |-> for, caller |-> caller, todo |-> on, at |-> NoResource]

ServeCleanup(a) ==
  /\ Admitted /\ batch[a] # {} /\ Begin(a, a, batch[a])
  /\ UNCHANGED <<remote, instance, owner, live, late, app, settle, record>>
ServeSettlement(a) ==
  /\ ~remote /\ Admitted /\ rpc[a] = "sent"
  /\ Begin(reading[a], a, OfInstance(record[reading[a]]))
  /\ UNCHANGED <<remote, instance, owner, live, late, app, settle, record>>

\* One resource at a time: check its owner, ...
Check(r) ==
  /\ closing.at = NoResource /\ r \in closing.todo
  /\ closing' = IF owner[r] = closing.owner THEN [closing EXCEPT !.at = r]
                ELSE [closing EXCEPT !.todo = @ \ {r}]
  /\ UNCHANGED <<remote, instance, owner, live, late, app, settle, record>>
\* ... close it and forget its owner, ...
CloseHeld ==
  /\ closing.at # NoResource
  /\ Undisturbed(closing.owner, closing.at)
  /\ live' = live \ {closing.at} /\ owner' = [owner EXCEPT ![closing.at] = NoApp]
  /\ closing' = [closing EXCEPT !.at = NoResource, !.todo = @ \ {closing.at}]
  /\ UNCHANGED <<remote, instance, late, app, settle, record>>
\* ... or fail, leaving the rest alone.
CloseFails ==
  /\ closing.at # NoResource /\ closing' = NoClosing
  /\ LET a == closing.caller IN
     IF a = NoApp THEN UNCHANGED <<link, batch, settle>>
     ELSE IF a = closing.owner THEN batch' = [batch EXCEPT ![a] = {}] /\ UNCHANGED <<link, settle>>
     ELSE link' = [link EXCEPT ![a] = "none"] /\ ForgetSettling(a) /\ UNCHANGED batch
  /\ UNCHANGED <<remote, instance, owner, live, late, phase, owned, work, record>>

\* The answer: to the exiting App, unless it is lost, ...
CloseDone == closing # NoClosing /\ closing.todo = {} /\ closing' = NoClosing
CleanupDone(a) ==
  /\ CloseDone /\ closing.caller = a /\ closing.owner = a
  /\ \/ UNCHANGED owned
     \/ owned' = [owned EXCEPT ![a] = [r \in Resources |-> IF r \in batch[a] THEN 0 ELSE @[r]]]
  /\ batch' = [batch EXCEPT ![a] = {}]
  /\ UNCHANGED <<remote, instance, owner, live, late, phase, link, work, settle, record>>
\* ... to the App that settles a record, ...
SettlementDone(a) ==
  /\ CloseDone /\ closing.caller = a /\ closing.owner # a
  /\ rpc' = [rpc EXCEPT ![a] = "served"]
  /\ UNCHANGED <<remote, instance, owner, live, late, app, reading, got, adopted, record>>
\* ... or to nobody.
LateDone ==
  /\ CloseDone /\ closing.caller = NoApp
  /\ UNCHANGED <<remote, instance, owner, live, late, app, settle, record>>

\* A request whose App has given up on it is handled without an answer.
ServeLate(m) ==
  /\ Admitted /\ late' = late \ {m}
  /\ CASE m.kind = "claim" ->
            owner' = [r \in Resources |-> IF r \in m.on THEN m.app ELSE owner[r]]
              /\ UNCHANGED <<live, closing>>
       [] m.kind = "open" -> live' = live \cup m.on /\ UNCHANGED <<owner, closing>>
       [] m.kind = "close" ->
            /\ live' = live \ m.on
            /\ owner' = [r \in Resources |-> IF r \in m.on THEN NoApp ELSE owner[r]]
            /\ UNCHANGED closing
       [] m.kind = "adopt" ->
            /\ owner' = [r \in Resources |->
                 IF r \in m.on \cap live /\ owner[r] \in {m.previous, m.app}
                 THEN m.app ELSE owner[r]]
            /\ UNCHANGED <<live, closing>>
       [] OTHER -> Begin(m.app, NoApp, m.on) /\ UNCHANGED <<owner, live>>
  /\ UNCHANGED <<remote, instance, app, settle, record>>

\* A session or terminal ends by itself; the table keeps its owner.
End(r) ==
  /\ r \in live /\ live' = live \ {r}
  /\ UNCHANGED <<remote, instance, owner, closing, late, app, settle, record>>

\* The daemon ends with all it holds, and every connection breaks.
Restart ==
  /\ instance < MaxInstances /\ instance' = instance + 1
  /\ owner' = [r \in Resources |-> NoApp] /\ live' = {} /\ closing' = NoClosing /\ late' = {}
  /\ link' = [a \in Apps |-> "none"]
  /\ work' = [a \in Apps |-> [r \in Resources |-> "idle"]]
  /\ batch' = [a \in Apps |-> {}]
  /\ reading' = [a \in Apps |-> NoApp] /\ rpc' = [a \in Apps |-> "none"]
  /\ got' = [a \in Apps |-> {}] /\ adopted' = [a \in Apps |-> {}]
  /\ UNCHANGED <<remote, phase, owned, record>>

-----------------------------------------------------------------------------
AppStep(a) ==
  \/ Launch(a) \/ Disconnect(a) \/ Connect(a) \/ WriteRecord(a) \/ Connected(a) \/ ConnectFails(a)
  \/ Quit(a) \/ Record(a) \/ Wait(a) \/ Clean(a) \/ Leave(a) \/ Kill(a)
  \/ \E j \in Apps : DropRecord(a, j) \/ SettleRecord(a, j)
  \/ \E r \in Resources : \/ Admit(a, r) \/ Claim(a, r) \/ Send(a, r) \/ Withhold(a, r)
                          \/ Close(a, r) \/ Disown(a, r) \/ GiveUp(a, r) \/ CloseTab(a, r)

DaemonStep ==
  \/ \E a \in Apps :
       \/ ServeAdopt(a) \/ ServeCleanup(a) \/ ServeSettlement(a)
       \/ CleanupDone(a) \/ SettlementDone(a)
       \/ \E r \in Resources : ServeClaim(a, r) \/ ServeOpen(a, r) \/ ServeClose(a, r)
  \/ \E r \in Resources : Check(r) \/ End(r)
  \/ \E m \in late : ServeLate(m)
  \/ CloseHeld \/ CloseFails \/ LateDone \/ Restart

Next == DaemonStep \/ \E a \in Apps : AppStep(a)

Spec == Init /\ [][Next]_vars

-----------------------------------------------------------------------------
\* Every open session or terminal belongs to an App: no order of claims,
\* openings, closes and settlements leaves one that nobody would ever close.
OwnedWhileLive == \A r \in live : owner[r] # NoApp

\* An App that quit left a record of everything of its own that is still open,
\* so that the next connection can close or adopt it.
Recoverable ==
  \A r \in live : \A a \in Apps : owner[r] = a /\ phase[a] = "gone" => record[a][r] = instance

\* A running App knows what the daemon counts as its own, or a record still
\* tells it: an adoption whose answer was lost is asked for again.
KnownOrRecorded ==
  \A r \in live : \A a \in Apps : owner[r] = a /\ Running(a) =>
    \/ owned[a][r] = instance
    \/ r \in got[a] \cup adopted[a]
    \/ \E j \in Apps : record[j][r] = instance

\* A close on behalf of an owner closes only what is that owner's at that very
\* moment: a claim or adoption by another App fences it off.
StaleCloseFenced ==
  [][\A r \in Resources :
       r \in live \ live' /\ closing.at = r => owner[r] = closing.owner]_vars
=============================================================================
