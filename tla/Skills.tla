-------------------------------- MODULE Skills --------------------------------
(***************************************************************************)
(* One skill of a host: the directories that say whether it is enabled,     *)
(* the worker of each daemon that moves and installs it, and the scratch    *)
(* directories of installations, which a later one cleans up.               *)
(***************************************************************************)
EXTENDS Naturals, Functions

CONSTANTS
  Daemons,       \* of builds that share the home directory of a user
  Jobs,          \* requests that reach a worker; bound
  MaxCrashes, MaxOther  \* bounds: daemons that die, changes that others make

None == "none"

SkillAssumption == {MaxCrashes, MaxOther} \subseteq Nat /\ None \notin Daemons \cup Jobs

States == {"enabled", "disabled", "uninstalled"}
\* The order in which an installation looks whether there is a copy.
NextState == [enabled |-> "disabled", disabled |-> "uninstalled", uninstalled |-> None]

VARIABLES
  copies,        \* state -> what is in its directory: "none", "part", "whole"
  stages,        \* job -> its scratch directory: content, lease, who holds the lease
  slot,          \* daemon -> the job that has its only permit
  job,           \* the jobs that run
  started,       \* jobs used up
  crashes, others

vars == <<copies, stages, slot, job, started, crashes, others>>

Init ==
  /\ copies \in {[s \in States |-> None], [s \in States |-> IF s = "enabled" THEN "whole" ELSE None]}
  /\ stages = [j \in {} |-> 0] /\ slot = [d \in Daemons |-> None] /\ job = [j \in {} |-> 0]
  /\ started = {} /\ crashes = 0 /\ others = 0

Put(f, i, x) == [j \in DOMAIN f \cup {i} |-> IF j = i THEN x ELSE f[j]]
Less(f, s) == Restrict(f, DOMAIN f \ s)
At(j, step) == j \in DOMAIN job /\ job[j].step = step
\* Budget::check: a job looks at it before every step of its own.
InTime(j) == ~job[j].cancelled

Present == {s \in States : copies[s] # None}
\* Whoever is not this job's own daemon has changed the copies.
Disturb(f, d) == [j \in DOMAIN f |-> IF f[j].daemon # d THEN [f[j] EXCEPT !.disturbed = TRUE] ELSE f[j]]

-----------------------------------------------------------------------------
(* Worker::run. *)

Request(d, kind, expected, target, found) ==
  [daemon |-> d, kind |-> kind, expected |-> expected, target |-> target, found |-> found,
   step |-> "look", cancelled |-> FALSE, disturbed |-> FALSE, mine |-> None]

Start(j, d, r) ==
  /\ j \notin started /\ slot[d] = None
  /\ started' = started \cup {j} /\ slot' = [slot EXCEPT ![d] = j]
  /\ job' = Put(job, j, r)
  /\ UNCHANGED <<copies, stages, crashes, others>>
Change(j, d) ==
  \E e \in States, t \in States : e # t /\ Start(j, d, Request(d, "state", e, t, None))
Install(j, d) == Start(j, d, Request(d, "install", None, "enabled", "enabled"))

\* The caller has waited long enough, or has gone: it is told that the outcome is
\* unknown.  The work cannot be aborted and keeps its slot.  (Fault: it is free.)
SlotFreed(d, j) == [slot EXCEPT ![d] = None]
SlotKept(d, j) == slot
SlotAfterTimeout(d, j) == SlotKept(d, j)
Timeout(j) ==
  /\ j \in DOMAIN job /\ InTime(j)
  /\ job' = [job EXCEPT ![j].cancelled = TRUE] /\ slot' = SlotAfterTimeout(job[j].daemon, j)
  /\ UNCHANGED <<copies, stages, started, crashes, others>>

\* The job returns: its scratch directory goes while its lease is still held.
Ends(j) ==
  /\ job' = Less(job, {j}) /\ slot' = [d \in Daemons |-> IF slot[d] = j THEN None ELSE slot[d]]
  /\ stages' = Less(stages, {j}) /\ UNCHANGED <<copies, started, crashes, others>>
Goes(j, step, found) ==
  /\ InTime(j) /\ job' = [job EXCEPT ![j].step = step, ![j].found = found]
  /\ UNCHANGED <<copies, stages, slot, started, crashes, others>>
\* A check finds the time over; a step in the middle of its work leaves the scratch
\* directory it was cleaning up to a later one.
Stop(j) ==
  /\ j \in DOMAIN job /\ ~InTime(j) /\ job[j].step \notin {"go", "lease"}
  /\ job' = Less(job, {j}) /\ slot' = [d \in Daemons |-> IF slot[d] = j THEN None ELSE slot[d]]
  /\ stages' = [k \in DOMAIN stages \ {j} |-> IF stages[k].holder = j THEN [stages[k] EXCEPT !.holder = None] ELSE stages[k]]
  /\ UNCHANGED <<copies, started, crashes, others>>

-----------------------------------------------------------------------------
(* set_state_checked, then set_state. *)

\* Exactly one copy, in the state the client was shown or already where it wants it.
Compare(j) ==
  /\ At(j, "look") /\ job[j].kind = "state" /\ InTime(j)
  /\ IF \E s \in {job[j].expected, job[j].target} : Present = {s} THEN Goes(j, "again", None) ELSE Ends(j)
Find(j) ==
  /\ At(j, "again") /\ InTime(j)
  /\ IF \E s \in States \ {job[j].target} : Present = {s}
     THEN Goes(j, "aim", CHOOSE s \in States : Present = {s}) ELSE Ends(j)
Aim(j) ==
  /\ At(j, "aim") /\ job[j].kind = "state" /\ InTime(j)
  /\ IF copies[job[j].target] = None THEN Goes(j, "go", job[j].found) ELSE Ends(j)

\* rename: it fails when the source has gone, and never replaces a directory.
Rename(j, content, rest) ==
  IF content # None /\ copies[job[j].target] = None
  THEN /\ copies' = [rest EXCEPT ![job[j].target] = content]
       /\ job' = Disturb(Less(job, {j}), job[j].daemon)
  ELSE UNCHANGED copies /\ job' = Less(job, {j})
Leave(j) ==
  /\ slot' = [d \in Daemons |-> IF slot[d] = j THEN None ELSE slot[d]]
  /\ stages' = Less(stages, {j}) /\ UNCHANGED <<started, crashes, others>>
Move(j) ==
  /\ At(j, "go") /\ job[j].kind = "state"
  /\ Rename(j, copies[job[j].found], [copies EXCEPT ![job[j].found] = None]) /\ Leave(j)

-----------------------------------------------------------------------------
(* install and Staging. *)

Absent(j) ==
  /\ At(j, "look") /\ job[j].kind = "install" /\ InTime(j)
  /\ IF copies[job[j].found] # None THEN Ends(j)
     ELSE IF NextState[job[j].found] = None THEN Goes(j, "recover", None)
     ELSE Goes(j, "look", NextState[job[j].found])

\* Only a directory with the marker, whose lease nobody holds.
\* (Fault: with the marker.)
AbandonedMarked(k) == stages[k].marked
AbandonedFree(k) == stages[k].marked /\ stages[k].holder = None
Abandoned(k) == AbandonedFree(k)
Recover(j, k) ==
  /\ At(j, "recover") /\ InTime(j) /\ k \in DOMAIN stages /\ k # j /\ Abandoned(k)
  /\ job' = [job EXCEPT ![j].step = "remove", ![j].mine = k]
  /\ stages' = [stages EXCEPT ![k].holder = j, ![k].content = IF @ = None THEN None ELSE "part"]
  /\ UNCHANGED <<copies, slot, started, crashes, others>>
Removed(j) ==
  /\ At(j, "remove") /\ InTime(j)
  /\ job' = [job EXCEPT ![j].step = "recover", ![j].mine = None] /\ stages' = Less(stages, {job[j].mine})
  /\ UNCHANGED <<copies, slot, started, crashes, others>>

\* The directory, then its lease and marker.
MakeStage(j) ==
  /\ At(j, "recover") /\ InTime(j) /\ job' = [job EXCEPT ![j].step = "lease"]
  /\ stages' = Put(stages, j, [content |-> None, marked |-> FALSE, holder |-> None])
  /\ UNCHANGED <<copies, slot, started, crashes, others>>
Lease(j) ==
  /\ At(j, "lease") /\ job' = [job EXCEPT ![j].step = "copy"]
  /\ stages' = [stages EXCEPT ![j].marked = TRUE, ![j].holder = j]
  /\ UNCHANGED <<copies, slot, started, crashes, others>>
Copy(j) ==
  /\ At(j, "copy") /\ InTime(j) /\ j \in DOMAIN stages
  /\ stages' = [stages EXCEPT ![j].content = IF @ = None THEN "part" ELSE "whole"]
  /\ job' = [job EXCEPT ![j].step = IF stages[j].content = None THEN "copy" ELSE "aim"]
  /\ UNCHANGED <<copies, slot, started, crashes, others>>
\* The source has changed, is too large or not plain.
CopyFails(j) == At(j, "copy") /\ Ends(j)
Decide(j) == At(j, "aim") /\ job[j].kind = "install" /\ Goes(j, "go", None)
Place(j) ==
  /\ At(j, "go") /\ job[j].kind = "install"
  /\ Rename(j, IF j \in DOMAIN stages THEN stages[j].content ELSE None, copies) /\ Leave(j)

-----------------------------------------------------------------------------
(* A daemon dies, its leases are free; and somebody else changes the directories. *)

Crash(d) ==
  /\ crashes < MaxCrashes /\ crashes' = crashes + 1
  /\ LET dead == {j \in DOMAIN job : job[j].daemon = d}
     IN /\ dead # {} /\ job' = Less(job, dead)
        /\ stages' = [k \in DOMAIN stages |-> IF stages[k].holder \in dead THEN [stages[k] EXCEPT !.holder = None] ELSE stages[k]]
  /\ slot' = [slot EXCEPT ![d] = None] /\ UNCHANGED <<copies, started, others>>

Other ==
  /\ others < MaxOther /\ others' = others + 1
  /\ \E s \in States, content \in {None, "whole"} : copies' = [copies EXCEPT ![s] = content]
  /\ job' = Disturb(job, None) /\ UNCHANGED <<stages, slot, started, crashes>>

Next ==
  \/ \E j \in Jobs, d \in Daemons : Change(j, d) \/ Install(j, d)
  \/ \E j \in Jobs :
       \/ Timeout(j) \/ Stop(j) \/ Compare(j) \/ Find(j) \/ Aim(j) \/ Move(j)
       \/ Absent(j) \/ (\E k \in Jobs : Recover(j, k)) \/ Removed(j) \/ MakeStage(j) \/ Lease(j)
       \/ Copy(j) \/ CopyFails(j) \/ Decide(j) \/ Place(j)
  \/ \E d \in Daemons : Crash(d)
  \/ Other

Spec == Init /\ [][Next]_vars

-----------------------------------------------------------------------------
(* Safety. *)

TypeOK ==
  /\ copies \in [States -> {None, "part", "whole"}] /\ DOMAIN stages \subseteq Jobs /\ DOMAIN job \subseteq started
  /\ \A d \in Daemons : slot[d] # None => slot[d] \in DOMAIN job /\ job[slot[d]].daemon = d

\* "State updates compare the displayed prior state; stale actions cannot restore
\* a newly uninstalled skill": whatever earlier request was given up and still
\* ran, a skill is moved out of the state its client was shown, unless somebody
\* who is no client of this daemon has moved it meanwhile.
StaleRefused ==
  \A j \in DOMAIN job :
    At(j, "go") /\ job[j].kind = "state" /\ ~job[j].disturbed => job[j].found = job[j].expected

\* Whatever fails, dies or is cleaned up on the way, an installation appears
\* under the name of its skill as a whole.
InstalledWhole == \A s \in States : copies[s] # "part"

\* What carries them.  A job has the slot of its daemon until it ends, so that
\* whatever moves a copy meanwhile is of another daemon and disturbs it.
Steps == {"look", "again", "aim", "go", "recover", "remove", "lease", "copy"}
JobsTyped ==
  /\ copies \in [States -> {None, "part", "whole"}] /\ slot \in [Daemons -> Jobs \cup {None}]
  /\ started \subseteq Jobs /\ DOMAIN job \subseteq started /\ DOMAIN stages \subseteq started
  /\ job \in [DOMAIN job ->
       [daemon : Daemons, kind : {"state", "install"}, expected : States \cup {None}, target : States,
        found : States \cup {None}, step : Steps, cancelled : BOOLEAN, disturbed : BOOLEAN,
        mine : Jobs \cup {None}]]
  /\ stages \in [DOMAIN stages ->
       [content : {None, "part", "whole"}, marked : BOOLEAN, holder : Jobs \cup {None}]]
SlotsHeld == \A j \in DOMAIN job : slot[job[j].daemon] = j

\* A scratch directory is its job's alone from the lease on, and one that is
\* cleaned up belongs to whoever does it.
StagesHeld ==
  \A j \in DOMAIN job :
    /\ job[j].kind = "state" => job[j].step \in {"look", "again", "aim", "go"}
    /\ job[j].kind = "state" \/ job[j].step \in {"look", "recover", "remove"} => j \notin DOMAIN stages
    /\ job[j].step = "again" => job[j].kind = "state"
    /\ job[j].step = "lease" => j \in DOMAIN stages /\ ~stages[j].marked /\ stages[j].holder = None
    /\ job[j].kind = "install" /\ job[j].step \in {"copy", "aim", "go"} =>
         j \in DOMAIN stages /\ stages[j].holder = j
    /\ job[j].kind = "install" /\ job[j].step \in {"aim", "go"} => stages[j].content = "whole"
    /\ job[j].step = "remove" => job[j].mine \in DOMAIN stages /\ stages[job[j].mine].holder = j

\* An undisturbed job sees what it has compared.
FoundRight ==
  \A j \in DOMAIN job :
    /\ job[j].kind = "install" /\ job[j].step = "look" => job[j].found \in States
    /\ job[j].kind = "state" /\ job[j].step \in {"aim", "go"} =>
         job[j].found \in States /\ (~job[j].disturbed => job[j].found = job[j].expected)
    /\ job[j].step = "again" /\ ~job[j].disturbed => Present \in {{job[j].expected}, {job[j].target}}
SkillInv == JobsTyped /\ SlotsHeld /\ StagesHeld /\ FoundRight /\ InstalledWhole
===============================================================================
