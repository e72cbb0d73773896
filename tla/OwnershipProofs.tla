-------------------------- MODULE OwnershipProofs --------------------------
(***************************************************************************)
(* Resource ownership for any number of Apps, resources and daemon starts, *)
(* on a local or remote host.                                              *)
(*                                                                         *)
(* With every timing window open: a close on behalf of an owner ends       *)
(* nothing that another App has claimed or adopted since.  What carries it *)
(* is the write lock of draining, held from the check of the owner to the  *)
(* close.                                                                  *)
(*                                                                         *)
(* With windows closed, the three invariants of ownership, each with no    *)
(* more of them closed than it needs: what is open has an owner, a running *)
(* App knows what is its own, and what an App leaves is in its record.     *)
(***************************************************************************)
EXTENDS MCResourceOwnership, TLAPS

USE DEF daemon, app, settle

\* A close request names its owner, its caller, what is left and what it holds.
ClosingForm ==
  closing = [owner |-> closing.owner, caller |-> closing.caller,
             todo |-> closing.todo, at |-> closing.at]

\* What the close request has checked still belongs to the owner it is for.
HeldIsOwned == closing.at # NoResource => owner[closing.at] = closing.owner

FenceInv == ClosingForm /\ HeldIsOwned

\* A step that leaves the table of owners alone, and the close request too
\* except that its caller may be gone.
LEMMA CloseUndisturbed ==
  ASSUME FenceInv, UNCHANGED owner,
         closing' = closing \/ closing' = [closing EXCEPT !.caller = NoApp]
  PROVE  FenceInv'
BY DEF FenceInv, ClosingForm, HeldIsOwned

\* While no close request is handled the table of owners may change at will.
LEMMA NothingHeld ==
  ASSUME closing' = NoClosing \/ \E o, c, t : closing' =
           [owner |-> o, caller |-> c, todo |-> t, at |-> NoResource]
  PROVE  FenceInv'
BY DEF FenceInv, ClosingForm, HeldIsOwned, NoClosing

\* An App's own steps do not touch the table of owners.
LEMMA AppKeepsFence ==
  ASSUME FenceInv, NEW a \in Apps, AppStep(a)
  PROVE  FenceInv'
<1>1. UNCHANGED owner /\ (closing' = closing \/ closing' = [closing EXCEPT !.caller = NoApp])
  <2>1. CASE \/ Launch(a) \/ Disconnect(a) \/ Connect(a) \/ WriteRecord(a) \/ Connected(a)
             \/ Quit(a) \/ Record(a) \/ Wait(a) \/ Clean(a)
    BY <2>1 DEF Launch, Disconnect, Connect, WriteRecord, Connected, Quit, Record, Wait, Clean
  <2>2. CASE ConnectFails(a) \/ Leave(a) \/ Kill(a)
    BY <2>2 DEF ConnectFails, Leave, Kill, Exit, Abandoned
  <2>3. CASE \E j \in Apps : DropRecord(a, j) \/ SettleRecord(a, j)
    BY <2>3 DEF DropRecord, SettleRecord
  <2>4. CASE \E r \in Resources : \/ Admit(a, r) \/ Claim(a, r) \/ Send(a, r) \/ Withhold(a, r)
                                  \/ Close(a, r) \/ Disown(a, r) \/ GiveUp(a, r) \/ CloseTab(a, r)
    BY <2>4 DEF Admit, Claim, Send, Withhold, Close, Disown, GiveUp, CloseTab
  <2>5. QED BY <2>1, <2>2, <2>3, <2>4 DEF AppStep
<1>2. QED BY <1>1, CloseUndisturbed

\* The daemon changes the table of owners only while it holds nothing, or in
\* the very step that ends its hold.
LEMMA DaemonKeepsFence ==
  ASSUME FenceInv, DaemonStep
  PROVE  FenceInv'
<1>1. CASE \E a \in Apps :
             \/ ServeAdopt(a)
             \/ \E r \in Resources : ServeClaim(a, r) \/ ServeOpen(a, r) \/ ServeClose(a, r)
  BY <1>1, NothingHeld DEF ServeAdopt, ServeClaim, ServeOpen, ServeClose, Admitted
<1>2. CASE \E a \in Apps : \/ ServeCleanup(a) \/ ServeSettlement(a)
                           \/ CleanupDone(a) \/ SettlementDone(a)
  BY <1>2, NothingHeld DEF ServeCleanup, ServeSettlement, Begin, CleanupDone, SettlementDone, CloseDone
<1>3. ASSUME NEW r \in Resources, Check(r) PROVE FenceInv'
  BY <1>3 DEF Check, FenceInv, ClosingForm, HeldIsOwned
<1>4. CASE \E r \in Resources : End(r)
  BY <1>4, CloseUndisturbed DEF End
<1>5. ASSUME NEW m \in late, ServeLate(m) PROVE FenceInv'
  BY <1>5, NothingHeld DEF ServeLate, Begin, Admitted
<1>6. CASE CloseHeld
  BY <1>6, NothingHeld DEF CloseHeld, FenceInv, ClosingForm
<1>7. CASE CloseFails \/ LateDone \/ Restart
  BY <1>7, NothingHeld DEF CloseFails, LateDone, CloseDone, Restart
<1>8. QED BY <1>1, <1>2, <1>3, <1>4, <1>5, <1>6, <1>7 DEF DaemonStep

\* Whatever a close request has checked is its owner's for as long as it holds it.
THEOREM FenceHolds == Spec => []FenceInv
<1>1. Init => FenceInv
  BY NothingHeld DEF Init, FenceInv, ClosingForm, HeldIsOwned, NoClosing
<1>2. FenceInv /\ [Next]_vars => FenceInv'
  <2>1. ASSUME FenceInv, UNCHANGED vars PROVE FenceInv'
    BY <2>1, CloseUndisturbed DEF vars
  <2>2. QED BY <2>1, AppKeepsFence, DaemonKeepsFence DEF Next
<1>3. QED BY <1>1, <1>2, PTL DEF Spec

\* A close on behalf of an owner closes only what is that owner's at that very
\* moment, however its request was delayed (upgrade.rs, CloseOwnedResources).
THEOREM StaleClosesAreFenced == Spec => StaleCloseFenced
<1> DEFINE Fenced == \A r \in Resources :
                       r \in live \ live' /\ closing.at = r => owner[r] = closing.owner
<1>1. FenceInv /\ [Next]_vars => [Fenced]_vars
  BY OwnershipAssumption DEF FenceInv, HeldIsOwned
<1>2. QED BY <1>1, FenceHolds, PTL DEF Spec, StaleCloseFenced
-----------------------------------------------------------------------------
(* What is open has an owner.  The windows "late", "admission" and "race" are   *)
(* closed: with any of them open it may have none.                              *)

Orderly == "late" \notin Windows /\ "admission" \notin Windows /\ "race" \notin Windows

Past == {"waiting", "cleaning", "leaving", "gone", "killed"}
Over == {"gone", "killed"}
\* The App is quitting or gone, and asks for none of S.
Rested(a, S) == phase[a] \in Past /\ \A r \in S : work[a][r] = "idle"
\* What the close request has still to look at or to close.
Held == closing.todo \cup ({closing.at} \ {NoResource})

\* What an App opens is its own until the daemon has answered.
Claimed == \A a \in Apps, r \in Resources : work[a][r] \in {"claimed", "open"} => owner[r] = a
\* An App that has waited for its requests makes none.
Idling ==
  \A a \in Apps : phase[a] \in {"off", "cleaning", "leaving", "gone", "killed"} =>
    \A r \in Resources : work[a][r] = "idle"
\* Close requests, of the exit, for a record, late or under way, are for an App
\* that is past its work.
Batches == \A a \in Apps : batch[a] # {} => Rested(a, batch[a])
Records == \A a \in Apps : record[a] # Nothing => phase[a] \in Past
Readings ==
  \A a \in Apps : /\ reading[a] # NoApp => phase[reading[a]] \in Over
                  /\ rpc[a] # "none" => reading[a] # NoApp
Lates == \A m \in late : m.kind = "cleanup" /\ phase[m.app] \in Over
ClosingRested == closing # NoClosing => Rested(closing.owner, Held)
\* Whoever settles a record by it waits for the answer.
Asking ==
  closing # NoClosing /\ closing.caller \notin {NoApp, closing.owner} =>
    rpc[closing.caller] = "sent" /\ reading[closing.caller] = closing.owner

OwnInv ==
  /\ TypeOK /\ OwnedWhileLive /\ Claimed /\ Idling
  /\ Batches /\ Records /\ Readings /\ Lates /\ ClosingRested /\ Asking

\* An App's phase moves forward.
LEMMA PhaseSteps ==
  ASSUME TypeOK, [Next]_vars, NEW a \in Apps
  PROVE  \/ phase'[a] = phase[a]
         \/ Launch(a) /\ phase[a] = "off" /\ phase'[a] = "up"
         \/ Quit(a) /\ phase[a] = "up" /\ phase'[a] = "recording"
         \/ Record(a) /\ phase[a] = "recording" /\ phase'[a] = "waiting"
         \/ Wait(a) /\ phase[a] = "waiting" /\ phase'[a] = "cleaning"
         \/ Clean(a) /\ phase[a] = "cleaning" /\ phase'[a] = "leaving"
         \/ Leave(a) /\ phase[a] \in {"waiting", "cleaning", "leaving"} /\ phase'[a] = "gone"
         \/ Kill(a) /\ Running(a) /\ phase'[a] = "killed"
<1>1. phase \in [Apps -> Phases] BY DEF TypeOK
<1>2. ASSUME NEW b \in Apps,
             \/ Launch(b) \/ Quit(b) \/ Record(b) \/ Wait(b) \/ Clean(b) \/ Leave(b) \/ Kill(b)
      PROVE  \/ Launch(b) /\ phase[b] = "off" /\ phase' = [phase EXCEPT ![b] = "up"]
             \/ Quit(b) /\ phase[b] = "up" /\ phase' = [phase EXCEPT ![b] = "recording"]
             \/ Record(b) /\ phase[b] = "recording" /\ phase' = [phase EXCEPT ![b] = "waiting"]
             \/ Wait(b) /\ phase[b] = "waiting" /\ phase' = [phase EXCEPT ![b] = "cleaning"]
             \/ Clean(b) /\ phase[b] = "cleaning" /\ phase' = [phase EXCEPT ![b] = "leaving"]
             \/ /\ Leave(b) /\ phase[b] \in {"waiting", "cleaning", "leaving"}
                /\ phase' = [phase EXCEPT ![b] = "gone"]
             \/ Kill(b) /\ Running(b) /\ phase' = [phase EXCEPT ![b] = "killed"]
  <2>1. CASE Launch(b) BY <2>1 DEF Launch
  <2>2. CASE Quit(b) BY <2>2 DEF Quit, Step
  <2>3. CASE Record(b) BY <2>3 DEF Record, Step
  <2>4. CASE Wait(b) BY <2>4 DEF Wait, Step
  <2>5. CASE Clean(b) BY <2>5 DEF Clean, Step
  <2>6. CASE Leave(b) BY <2>6 DEF Leave
  <2>7. CASE Kill(b) BY <2>7 DEF Kill
  <2>8. QED BY <1>2, <2>1, <2>2, <2>3, <2>4, <2>5, <2>6, <2>7
<1>3. ASSUME NEW b \in Apps, AppStep(b),
             ~(Launch(b) \/ Quit(b) \/ Record(b) \/ Wait(b) \/ Clean(b) \/ Leave(b) \/ Kill(b))
      PROVE  UNCHANGED phase
  BY <1>3 DEF AppStep, Disconnect, Connect, WriteRecord, Connected, ConnectFails, DropRecord, SettleRecord,
              Admit, Claim, Send, Withhold, Close, Disown, GiveUp, CloseTab
<1>4. DaemonStep \/ UNCHANGED vars => UNCHANGED phase
  BY DEF DaemonStep, vars, ServeAdopt, ServeCleanup, ServeSettlement, CleanupDone, SettlementDone, ServeClaim,
         ServeOpen, ServeClose, Check, End, ServeLate, CloseHeld, CloseFails, LateDone, Restart
<1>5. ASSUME NEW b \in Apps, a # b, NEW to, phase' = [phase EXCEPT ![b] = to]
      PROVE  phase'[a] = phase[a]
  BY <1>1, <1>5
<1>6. ASSUME NEW b \in Apps, a # b,
             \/ Launch(b) \/ Quit(b) \/ Record(b) \/ Wait(b) \/ Clean(b) \/ Leave(b) \/ Kill(b)
      PROVE  phase'[a] = phase[a]
  BY <1>2, <1>5, <1>6
<1>7. CASE \/ Launch(a) \/ Quit(a) \/ Record(a) \/ Wait(a) \/ Clean(a) \/ Leave(a) \/ Kill(a)
  BY <1>1, <1>2, <1>7
<1>8. QED BY <1>3, <1>4, <1>6, <1>7 DEF Next

\* Requests are taken up by a running App only, and move on.
LEMMA WorkSteps ==
  ASSUME TypeOK, [Next]_vars, NEW a \in Apps, NEW r \in Resources
  PROVE  \/ work'[a][r] = work[a][r]
         \/ work'[a][r] = "idle"
         \/ phase[a] = "up" /\ work[a][r] = "idle" /\ work'[a][r] \in {"admitted", "close"}
         \/ Claim(a, r) /\ work[a][r] = "admitted" /\ work'[a][r] = "claim"
         \/ ServeClaim(a, r) /\ work[a][r] = "claim" /\ work'[a][r] = "claimed"
         \/ Send(a, r) /\ work[a][r] = "claimed" /\ work'[a][r] = "open"
         \/ (ServeOpen(a, r) \/ ServeClose(a, r)) /\ work[a][r] \in {"open", "close"} /\ work'[a][r] = "unowned"
<1>1. work \in [Apps -> [Resources -> Steps]] BY DEF TypeOK
<1>2. ASSUME NEW b \in Apps, NEW q \in Resources, NEW from, NEW to, Work(b, q, from, to)
      PROVE  /\ work[b][q] = from /\ work'[b][q] = to
             /\ (b = a /\ q = r) \/ work'[a][r] = work[a][r]
  BY <1>1, <1>2 DEF Work
<1>3. ASSUME NEW b \in Apps, NEW q \in Resources,
             \/ Admit(b, q) \/ Claim(b, q) \/ Send(b, q) \/ Withhold(b, q) \/ Close(b, q) \/ Disown(b, q)
             \/ ServeClaim(b, q) \/ ServeOpen(b, q) \/ ServeClose(b, q)
      PROVE  \/ work'[a][r] = work[a][r]
             \/ work'[a][r] = "idle"
             \/ phase[a] = "up" /\ work[a][r] = "idle" /\ work'[a][r] \in {"admitted", "close"}
             \/ Claim(a, r) /\ work[a][r] = "admitted" /\ work'[a][r] = "claim"
             \/ ServeClaim(a, r) /\ work[a][r] = "claim" /\ work'[a][r] = "claimed"
             \/ Send(a, r) /\ work[a][r] = "claimed" /\ work'[a][r] = "open"
             \/ /\ ServeOpen(a, r) \/ ServeClose(a, r)
                /\ work[a][r] \in {"open", "close"} /\ work'[a][r] = "unowned"
  <2>1. CASE Admit(b, q) \/ Close(b, q) BY <1>2, <2>1 DEF Admit, Close
  <2>2. CASE Withhold(b, q) \/ Disown(b, q) BY <1>2, <2>2 DEF Withhold, Disown
  <2>3. CASE Claim(b, q) BY <1>2, <2>3 DEF Claim
  <2>4. CASE ServeClaim(b, q) BY <1>2, <2>4 DEF ServeClaim
  <2>5. CASE Send(b, q) BY <1>2, <2>5 DEF Send
  <2>6. CASE ServeOpen(b, q) BY <1>2, <2>6 DEF ServeOpen
  <2>7. CASE ServeClose(b, q) BY <1>2, <2>7 DEF ServeClose
  <2>8. QED BY <1>3, <2>1, <2>2, <2>3, <2>4, <2>5, <2>6, <2>7
<1>4. ASSUME NEW b \in Apps, Leave(b) \/ Kill(b) \/ \E q \in Resources : GiveUp(b, q)
      PROVE  work'[a][r] \in {work[a][r], "idle"}
  BY <1>1, <1>4 DEF Leave, Kill, Exit, GiveUp
<1>5. CASE Restart BY <1>5 DEF Restart
<1>6. ASSUME NEW b \in Apps,
             \/ Launch(b) \/ Disconnect(b) \/ Connect(b) \/ WriteRecord(b) \/ Connected(b) \/ ConnectFails(b)
             \/ Quit(b) \/ Record(b) \/ Wait(b) \/ Clean(b)
             \/ \E j \in Apps : DropRecord(b, j) \/ SettleRecord(b, j)
             \/ \E q \in Resources : CloseTab(b, q)
             \/ ServeAdopt(b) \/ ServeCleanup(b) \/ ServeSettlement(b) \/ CleanupDone(b) \/ SettlementDone(b)
      PROVE  UNCHANGED work
  BY <1>6 DEF Launch, Disconnect, Connect, WriteRecord, Connected, ConnectFails, Quit, Record, Wait, Clean,
       DropRecord, SettleRecord, CloseTab, ServeAdopt, ServeCleanup, ServeSettlement, CleanupDone, SettlementDone
<1>7. CASE (\E q \in Resources : Check(q) \/ End(q)) \/ (\E m \in late : ServeLate(m)) \/ CloseHeld \/ CloseFails
           \/ LateDone \/ UNCHANGED vars
  BY <1>7 DEF Check, End, ServeLate, CloseHeld, CloseFails, LateDone, vars
<1>8. QED BY <1>3, <1>4, <1>5, <1>6, <1>7 DEF Next, AppStep, DaemonStep

LEMMA StaysRested ==
  ASSUME TypeOK, [Next]_vars, NEW a \in Apps, NEW S \in SUBSET Resources, Rested(a, S)
  PROVE  phase'[a] \in Past /\ \A r \in S : work'[a][r] = "idle"
<1>1. phase'[a] \in Past BY PhaseSteps DEF Rested, Past
<1>2. phase[a] # "up" BY DEF Rested, Past
<1>3. QED BY <1>1, <1>2, WorkSteps DEF Rested

LEMMA StaysOver ==
  ASSUME TypeOK, [Next]_vars, NEW a \in Apps, phase[a] \in Over
  PROVE  phase'[a] = phase[a]
BY PhaseSteps DEF Over, Running, Quitting
\* What an App that exits or gives up a connection leaves on its way.
LEMMA Leftovers ==
  ASSUME OwnInv, Orderly, NEW a \in Apps, NEW m \in Leftover(a)
  PROVE  /\ m \in Requests /\ m.kind = "cleanup"
         /\ m \in LateCleanup(a) => m.app = a
         /\ m \in LateSettling(a) => m.app \in Apps /\ phase[m.app] \in Over
         /\ m \in LateCleanup(a) \cup LateSettling(a)
<1>1. \A r \in Resources : Lingering(a, r) = {} BY DEF Lingering, Orderly
<1>2. m \in LateCleanup(a) \cup LateSettling(a) BY <1>1 DEF Leftover
<1>3. ASSUME m \in LateCleanup(a) PROVE m \in Requests /\ m.kind = "cleanup" /\ m.app = a
  <2>1. m = [kind |-> "cleanup", app |-> a, on |-> batch[a]] BY <1>3 DEF LateCleanup
  <2>2. batch[a] \in SUBSET Resources BY DEF OwnInv, TypeOK
  <2>3. QED BY <2>1, <2>2 DEF Requests
<1>4. ASSUME m \in LateSettling(a)
      PROVE  m \in Requests /\ m.kind = "cleanup" /\ m.app \in Apps /\ phase[m.app] \in Over
  <2>1. m = [kind |-> "cleanup", app |-> reading[a], on |-> OfInstance(record[reading[a]])] /\ rpc[a] = "sent"
    BY <1>4 DEF LateSettling, Orderly
  <2>2. reading[a] \in Apps /\ phase[reading[a]] \in Over BY <2>1 DEF OwnInv, Readings, TypeOK
  <2>3. OfInstance(record[reading[a]]) \in SUBSET Resources BY DEF OfInstance
  <2>4. QED BY <2>1, <2>2, <2>3 DEF Requests
<1>5. QED BY <1>2, <1>3, <1>4

\* Which requests wait to arrive late after a step.
LEMMA LateSteps ==
  ASSUME OwnInv, Orderly, [Next]_vars, NEW m \in late', m \notin late
  PROVE  m \in Requests /\ m.kind = "cleanup" /\ phase'[m.app] \in Over
<1>1. TypeOK BY DEF OwnInv
<1>2. PICK a \in Apps : \/ Leave(a) \/ Kill(a) \/ ConnectFails(a)
                        \/ \E r \in Resources : GiveUp(a, r)
  <2>1. CASE UNCHANGED late BY <2>1
  <2>2. CASE \E n \in late : ServeLate(n) BY <2>2 DEF ServeLate
  <2>3. CASE Restart BY <2>3 DEF Restart
  <2>4. CASE \E a \in Apps : Leave(a) \/ Kill(a) \/ ConnectFails(a) \/ \E r \in Resources : GiveUp(a, r) BY <2>4
  <2>5. ASSUME NEW a \in Apps, AppStep(a),
               ~(Leave(a) \/ Kill(a) \/ ConnectFails(a) \/ \E r \in Resources : GiveUp(a, r))
        PROVE  UNCHANGED late
    BY <2>5 DEF AppStep, Launch, Disconnect, Connect, WriteRecord, Connected, DropRecord, SettleRecord,
         Quit, Record, Wait, Clean, Admit, Claim, Send, Withhold, Close, Disown, CloseTab
  <2>6. ASSUME DaemonStep, ~Restart, \A n \in late : ~ServeLate(n) PROVE UNCHANGED late
    BY <2>6 DEF DaemonStep, ServeAdopt, ServeCleanup, ServeSettlement, CleanupDone, SettlementDone, ServeClaim,
         ServeOpen, ServeClose, Check, End, CloseHeld, CloseFails, LateDone
  <2>7. QED BY <2>1, <2>2, <2>3, <2>4, <2>5, <2>6 DEF Next, vars
<1>3. CASE Leave(a) \/ Kill(a)
  <2>1. m \in Leftover(a) BY <1>3 DEF Leave, Kill, Exit, StillSent
  <2>2. phase'[a] \in Over BY <1>1, <1>3 DEF Leave, Kill, Over, TypeOK
  <2>3. QED BY <1>1, <2>1, <2>2, Leftovers, StaysOver
<1>4. CASE ConnectFails(a)
  <2>1. m \in LateSettling(a) BY <1>4 DEF ConnectFails, StillSent
  <2>2. m \in Leftover(a) BY <2>1 DEF Leftover
  <2>3. QED BY <1>1, <2>1, <2>2, Leftovers, StaysOver
<1>5. ASSUME NEW r \in Resources, GiveUp(a, r) PROVE FALSE
  <2>1. Lingering(a, r) = {} BY DEF Lingering, Orderly
  <2>2. QED BY <1>5, <2>1 DEF GiveUp, StillSent
<1>6. QED BY <1>2, <1>3, <1>4, <1>5

-----------------------------------------------------------------------------
(* The types.                                                                *)

LEMMA WorkTyped ==
  ASSUME work \in [Apps -> [Resources -> Steps]], NEW a \in Apps, NEW r \in Resources, NEW to \in Steps,
         work' = [work EXCEPT ![a][r] = to]
  PROVE  work' \in [Apps -> [Resources -> Steps]]
<1>1. [work[a] EXCEPT ![r] = to] \in [Resources -> Steps] OBVIOUS
<1>2. work' = [work EXCEPT ![a] = [work[a] EXCEPT ![r] = to]] OBVIOUS
<1>3. QED BY <1>1, <1>2

LEMMA OwnTypesOfApp ==
  ASSUME OwnInv, Orderly, NEW a \in Apps, AppStep(a)
  PROVE  TypeOK'
<1> USE DEF TypeOK
<1>1. TypeOK BY DEF OwnInv
<1>2. late' \subseteq Requests BY <1>1, LateSteps DEF Next
<1>3. closing' \in Closings
  <2>1. closing' = closing \/ closing' = [closing EXCEPT !.caller = NoApp]
    <3>1. CASE ConnectFails(a) \/ Leave(a) \/ Kill(a) BY <3>1 DEF ConnectFails, Leave, Kill, Exit, Abandoned
    <3>2. CASE ~(ConnectFails(a) \/ Leave(a) \/ Kill(a))
      BY <3>2 DEF AppStep, Launch, Disconnect, Connect, WriteRecord, Connected, DropRecord, SettleRecord,
           Quit, Record, Wait, Clean, Admit, Claim, Send, Withhold, Close, Disown, CloseTab, GiveUp
    <3>3. QED BY <3>1, <3>2
  <2>2. [closing EXCEPT !.caller = NoApp] \in Closings
    <3>1. CASE closing = NoClosing
      <4>1. [NoClosing EXCEPT !.caller = NoApp] = NoClosing BY DEF NoClosing
      <4>2. QED BY <1>1, <3>1, <4>1
    <3>2. CASE closing # NoClosing BY <1>1, <3>2 DEF Closings
    <3>3. QED BY <3>1, <3>2
  <2>3. QED BY <1>1, <2>1, <2>2
<1>4. Nothing \in Entries /\ \A e \in Entries : OfInstance(e) \in SUBSET Resources
  BY OwnershipAssumption DEF Nothing, Entries, OfInstance
<1>5. CASE Launch(a) \/ Quit(a) \/ Wait(a) BY <1>1, <1>5 DEF Launch, Quit, Wait, Step, Phases
<1>6. CASE Disconnect(a) \/ Connect(a) BY <1>1, <1>6 DEF Disconnect, Connect
<1>7. CASE WriteRecord(a) BY <1>1, <1>4, <1>7 DEF WriteRecord
<1>8. CASE Connected(a)
  <2>1. WithAdopted(a) \in Entries
    <3>1. instance \in 0..MaxInstances /\ owned[a] \in Entries BY <1>1, OwnershipAssumption
    <3>2. QED BY <3>1 DEF WithAdopted, Entries
  <2>2. QED BY <1>1, <1>8, <2>1 DEF Connected
<1>9. CASE ConnectFails(a) BY <1>1, <1>2, <1>3, <1>9 DEF ConnectFails, ForgetSettling
<1>10. CASE Record(a) BY <1>1, <1>10 DEF Record, Persisted, Step, Phases
<1>11. CASE Clean(a)
  <2>1. Unconfirmed(a) \in Entries
    <3>1. instance \in 0..MaxInstances /\ 0 \in 0..MaxInstances BY <1>1, OwnershipAssumption
    <3>2. QED BY <3>1 DEF Unconfirmed, Entries
  <2>2. OfInstance(owned[a]) \in SUBSET Resources BY <1>1, <1>4
  <2>3. phase' \in [Apps -> Phases] BY <1>1, <1>11 DEF Clean, Step, Phases
  <2>4. owned' \in [Apps -> Entries] BY <1>1, <1>11, <2>1 DEF Clean
  <2>5. batch' \in [Apps -> SUBSET Resources] BY <1>1, <1>11, <2>2 DEF Clean
  <2>6. QED BY <1>1, <1>11, <2>3, <2>4, <2>5 DEF Clean
<1>12. CASE Leave(a) \/ Kill(a)
  <2>1. [r \in Resources |-> "idle"] \in [Resources -> Steps] BY DEF Steps
  <2>2. record' \in [Apps -> Entries] BY <1>1, <1>12 DEF Leave, Kill, Persisted
  <2>3. phase' \in [Apps -> Phases] BY <1>1, <1>12 DEF Leave, Kill, Phases
  <2>4. UNCHANGED <<remote, instance, owner, live>> /\ Exit(a) BY <1>12 DEF Leave, Kill, Exit
  <2>5. QED BY <1>1, <1>2, <1>3, <1>4, <2>1, <2>2, <2>3, <2>4 DEF Exit, ForgetSettling
<1>13. ASSUME NEW j \in Apps, DropRecord(a, j) \/ SettleRecord(a, j) PROVE TypeOK'
  <2>1. CASE DropRecord(a, j)
    <3>1. record' \in [Apps -> Entries] BY <1>1, <1>4, <2>1 DEF DropRecord
    <3>2. QED BY <1>1, <2>1, <3>1 DEF DropRecord
  <2>2. CASE SettleRecord(a, j) BY <1>1, <2>2 DEF SettleRecord
  <2>3. QED BY <1>13, <2>1, <2>2
<1>14. ASSUME NEW r \in Resources, Admit(a, r) \/ Send(a, r) \/ Withhold(a, r) \/ Close(a, r) PROVE TypeOK'
  <2>1. PICK to \in Steps : work' = [work EXCEPT ![a][r] = to]
    BY <1>14 DEF Admit, Send, Withhold, Close, Work, Steps
  <2>2. work' \in [Apps -> [Resources -> Steps]] BY <1>1, <2>1, WorkTyped
  <2>3. QED BY <1>1, <1>14, <2>2 DEF Admit, Send, Withhold, Close
<1>15. ASSUME NEW r \in Resources, Claim(a, r) \/ Disown(a, r) PROVE TypeOK'
  <2>1. instance \in 0..MaxInstances /\ 0 \in 0..MaxInstances BY <1>1, OwnershipAssumption
  <2>2. PICK n \in 0..MaxInstances : owned' = [owned EXCEPT ![a][r] = n]
    BY <1>15, <2>1 DEF Claim, Disown
  <2>3. owned' \in [Apps -> Entries]
    <3>1. [owned[a] EXCEPT ![r] = n] \in Entries BY <1>1, <2>2 DEF Entries
    <3>2. owned' = [owned EXCEPT ![a] = [owned[a] EXCEPT ![r] = n]] BY <2>2
    <3>3. QED BY <1>1, <3>1, <3>2
  <2>4. PICK to \in Steps : work' = [work EXCEPT ![a][r] = to] BY <1>15 DEF Claim, Disown, Work, Steps
  <2>5. work' \in [Apps -> [Resources -> Steps]] BY <1>1, <2>4, WorkTyped
  <2>6. QED BY <1>1, <1>15, <2>3, <2>5 DEF Claim, Disown
<1>16. ASSUME NEW r \in Resources, GiveUp(a, r) PROVE TypeOK'
  <2>1. work' = [work EXCEPT ![a][r] = "idle"] /\ "idle" \in Steps BY <1>16 DEF GiveUp, Steps
  <2>2. work' \in [Apps -> [Resources -> Steps]] BY <1>1, <2>1, WorkTyped
  <2>3. QED BY <1>1, <1>2, <1>16, <2>2 DEF GiveUp
<1>17. ASSUME NEW r \in Resources, CloseTab(a, r) PROVE TypeOK' BY <1>1, <1>17 DEF CloseTab
<1>18. QED
  BY <1>5, <1>6, <1>7, <1>8, <1>9, <1>10, <1>11, <1>12, <1>13, <1>14, <1>15, <1>16, <1>17 DEF AppStep

LEMMA OwnTypesOfDaemon ==
  ASSUME OwnInv, Orderly, DaemonStep
  PROVE  TypeOK'
<1> USE DEF TypeOK
<1>1. TypeOK BY DEF OwnInv
<1>2. NoClosing \in Closings BY DEF Closings
<1>3. \A e \in Entries : OfInstance(e) \in SUBSET Resources BY DEF OfInstance
<1>4. ASSUME NEW for \in Apps, NEW caller \in Apps \cup {NoApp}, NEW on \in SUBSET Resources,
             Begin(for, caller, on)
      PROVE  closing' \in Closings
  BY <1>4 DEF Begin, Closings
<1>5. ASSUME NEW a \in Apps, ServeAdopt(a) PROVE TypeOK'
  <2>1. Adoption(a) \in SUBSET Resources BY DEF Adoption, OfInstance
  <2>2. owner' \in [Resources -> Apps \cup {NoApp}] BY <1>1, <1>5 DEF ServeAdopt
  <2>3. QED BY <1>1, <1>5, <2>1, <2>2 DEF ServeAdopt
<1>6. ASSUME NEW a \in Apps, ServeCleanup(a) PROVE TypeOK'
  <2>1. closing' \in Closings BY <1>1, <1>4, <1>6 DEF ServeCleanup
  <2>2. QED BY <1>1, <1>6, <2>1 DEF ServeCleanup
<1>7. ASSUME NEW a \in Apps, ServeSettlement(a) PROVE TypeOK'
  <2>1. reading[a] \in Apps BY <1>1, <1>7 DEF ServeSettlement, OwnInv, Readings
  <2>2. OfInstance(record[reading[a]]) \in SUBSET Resources BY <1>1, <1>3, <2>1
  <2>3. closing' \in Closings BY <1>1, <1>4, <1>7, <2>1, <2>2 DEF ServeSettlement
  <2>4. QED BY <1>1, <1>7, <2>3 DEF ServeSettlement
<1>8. ASSUME NEW a \in Apps, CleanupDone(a) PROVE TypeOK'
  <2>1. \A r \in Resources : owned[a][r] \in 0..MaxInstances /\ 0 \in 0..MaxInstances
    BY <1>1, OwnershipAssumption DEF Entries
  <2>2. [r \in Resources |-> IF r \in batch[a] THEN 0 ELSE owned[a][r]] \in Entries BY <2>1 DEF Entries
  <2>3. owned' \in [Apps -> Entries] BY <1>1, <1>8, <2>2 DEF CleanupDone
  <2>4. QED BY <1>1, <1>2, <1>8, <2>3 DEF CleanupDone, CloseDone
<1>9. ASSUME NEW a \in Apps, SettlementDone(a) PROVE TypeOK'
  BY <1>1, <1>2, <1>9 DEF SettlementDone, CloseDone
<1>10. ASSUME NEW a \in Apps, NEW r \in Resources, ServeClaim(a, r) \/ ServeOpen(a, r) \/ ServeClose(a, r)
       PROVE  TypeOK'
  <2>1. PICK to \in Steps : work' = [work EXCEPT ![a][r] = to]
    BY <1>10 DEF ServeClaim, ServeOpen, ServeClose, Work, Steps
  <2>2. work' \in [Apps -> [Resources -> Steps]] BY <1>1, <2>1, WorkTyped
  <2>3. QED BY <1>1, <1>10, <2>2 DEF ServeClaim, ServeOpen, ServeClose
<1>11. ASSUME NEW r \in Resources, Check(r) \/ End(r) PROVE TypeOK'
  <2>1. closing' \in Closings
    <3>1. closing.owner \in Apps \cup {NoApp} /\ closing.todo \in SUBSET Resources
      BY <1>1 DEF Closings, NoClosing
    <3>2. CASE End(r) BY <1>1, <3>2 DEF End
    <3>3. CASE Check(r)
      <4>1. closing # NoClosing BY <3>3 DEF Check, NoClosing
      <4>2. closing \in [owner : Apps, caller : Apps \cup {NoApp}, todo : SUBSET Resources,
                         at : Resources \cup {NoResource}]
        BY <1>1, <4>1 DEF Closings
      <4>3. [closing EXCEPT !.at = r] \in Closings /\ [closing EXCEPT !.todo = @ \ {r}] \in Closings
        BY <4>2 DEF Closings
      <4>4. QED BY <3>3, <4>3 DEF Check
    <3>4. QED BY <1>11, <3>2, <3>3
  <2>2. QED BY <1>1, <1>11, <2>1 DEF Check, End
<1>12. ASSUME NEW m \in late, ServeLate(m) PROVE TypeOK'
  <2>1. m.kind = "cleanup" /\ m \in Requests BY <1>1 DEF OwnInv, Lates
  <2>2. m.app \in Apps /\ m.on \in SUBSET Resources BY <2>1 DEF Requests
  <2>3. Begin(m.app, NoApp, m.on) /\ UNCHANGED <<owner, live>> BY <1>12, <2>1 DEF ServeLate
  <2>4. closing' \in Closings BY <1>4, <2>2, <2>3
  <2>5. QED BY <1>1, <1>12, <2>3, <2>4 DEF ServeLate
<1>13. CASE CloseHeld
  <2>1. closing' \in Closings
    <3>1. closing # NoClosing BY <1>13 DEF CloseHeld, NoClosing
    <3>2. QED BY <1>1, <1>13, <3>1 DEF CloseHeld, Closings
  <2>2. owner' \in [Resources -> Apps \cup {NoApp}] /\ live' \subseteq Resources BY <1>1, <1>13 DEF CloseHeld
  <2>3. QED BY <1>1, <1>13, <2>1, <2>2 DEF CloseHeld
<1>14. CASE CloseFails
  <2>1. /\ link' \in [Apps -> {"none", "settling", "ready"}] /\ batch' \in [Apps -> SUBSET Resources]
        /\ reading' \in [Apps -> Apps \cup {NoApp}] /\ rpc' \in [Apps -> {"none", "sent", "served"}]
        /\ got' \in [Apps -> SUBSET Resources] /\ adopted' \in [Apps -> SUBSET Resources]
    BY <1>1, <1>14 DEF CloseFails, ForgetSettling
  <2>2. QED BY <1>1, <1>2, <1>14, <2>1 DEF CloseFails
<1>15. CASE LateDone BY <1>1, <1>2, <1>15 DEF LateDone, CloseDone
<1>16. CASE Restart BY <1>1, <1>2, <1>16, OwnershipAssumption DEF Restart, Steps
<1>17. QED
  BY <1>5, <1>6, <1>7, <1>8, <1>9, <1>10, <1>11, <1>12, <1>13, <1>14, <1>15, <1>16 DEF DaemonStep
-----------------------------------------------------------------------------
(* Which steps change what.                                                  *)

\* The table of owners.
LEMMA OwnerSteps ==
  ASSUME TypeOK, Lates, [Next]_vars, NEW r \in Resources
  PROVE  \/ owner'[r] = owner[r]
         \/ \E a \in Apps : ServeClaim(a, r) /\ owner'[r] = a
         \/ \E a \in Apps : ServeClose(a, r) /\ owner'[r] = NoApp
         \/ \E a \in Apps : ServeAdopt(a) /\ r \in Adoption(a) /\ owner'[r] = a
         \/ CloseHeld /\ closing.at = r /\ owner'[r] = NoApp
         \/ Restart
<1>1. owner \in [Resources -> Apps \cup {NoApp}] BY DEF TypeOK
<1>2. ASSUME NEW a \in Apps, AppStep(a) PROVE UNCHANGED owner
  BY <1>2 DEF AppStep, Launch, Disconnect, Connect, WriteRecord, Connected, ConnectFails, DropRecord, SettleRecord,
       Quit, Record, Wait, Clean, Leave, Kill, Exit, Admit, Claim, Send, Withhold, Close, Disown, GiveUp, CloseTab
<1>3. ASSUME NEW a \in Apps, NEW q \in Resources, ServeClaim(a, q)
      PROVE  owner'[r] = owner[r] \/ (q = r /\ owner'[r] = a)
  BY <1>1, <1>3 DEF ServeClaim
<1>4. ASSUME NEW a \in Apps, NEW q \in Resources, ServeClose(a, q)
      PROVE  owner'[r] = owner[r] \/ (q = r /\ owner'[r] = NoApp)
  BY <1>1, <1>4 DEF ServeClose
<1>5. ASSUME NEW a \in Apps, ServeAdopt(a)
      PROVE  owner'[r] = owner[r] \/ (r \in Adoption(a) /\ owner'[r] = a)
  BY <1>5 DEF ServeAdopt
<1>6. CASE CloseHeld BY <1>1, <1>6 DEF CloseHeld
<1>7. ASSUME NEW m \in late, ServeLate(m) PROVE UNCHANGED owner
  BY <1>7 DEF ServeLate, Lates
<1>8. ASSUME NEW a \in Apps,
             \/ ServeCleanup(a) \/ ServeSettlement(a) \/ CleanupDone(a) \/ SettlementDone(a)
             \/ \E q \in Resources : ServeOpen(a, q)
      PROVE  UNCHANGED owner
  BY <1>8 DEF ServeCleanup, ServeSettlement, CleanupDone, SettlementDone, ServeOpen
<1>9. (\E q \in Resources : Check(q) \/ End(q)) \/ CloseFails \/ LateDone \/ UNCHANGED vars => UNCHANGED owner
  BY DEF Check, End, CloseFails, LateDone, vars
<1>10. QED BY <1>2, <1>3, <1>4, <1>5, <1>6, <1>7, <1>8, <1>9 DEF Next, DaemonStep

\* What opens.
LEMMA LiveSteps ==
  ASSUME TypeOK, Lates, [Next]_vars, NEW r \in Resources, r \in live', r \notin live
  PROVE  \E a \in Apps : ServeOpen(a, r) /\ work[a][r] = "open"
<1>1. ASSUME NEW a \in Apps, AppStep(a) PROVE UNCHANGED live
  BY <1>1 DEF AppStep, Launch, Disconnect, Connect, WriteRecord, Connected, ConnectFails, DropRecord, SettleRecord,
       Quit, Record, Wait, Clean, Leave, Kill, Exit, Admit, Claim, Send, Withhold, Close, Disown, GiveUp, CloseTab
<1>2. ASSUME NEW a \in Apps, NEW q \in Resources, ServeOpen(a, q) PROVE q = r /\ work[a][r] = "open"
  BY <1>2 DEF ServeOpen, Work
<1>3. ASSUME NEW m \in late, ServeLate(m) PROVE UNCHANGED live
  BY <1>3 DEF ServeLate, Lates
<1>4. ASSUME NEW a \in Apps,
             \/ ServeAdopt(a) \/ ServeCleanup(a) \/ ServeSettlement(a) \/ CleanupDone(a) \/ SettlementDone(a)
             \/ \E q \in Resources : ServeClaim(a, q) \/ ServeClose(a, q)
      PROVE  live' \subseteq live
  BY <1>4 DEF ServeAdopt, ServeCleanup, ServeSettlement, CleanupDone, SettlementDone, ServeClaim, ServeClose
<1>5. (\E q \in Resources : Check(q) \/ End(q)) \/ CloseHeld \/ CloseFails \/ LateDone \/ Restart \/ UNCHANGED vars
        => live' \subseteq live
  BY DEF Check, End, CloseHeld, CloseFails, LateDone, Restart, vars
<1>6. QED BY <1>1, <1>2, <1>3, <1>4, <1>5 DEF Next, DaemonStep

\* What the close request of an exit names.
LEMMA BatchSteps ==
  ASSUME TypeOK, [Next]_vars, NEW a \in Apps
  PROVE  \/ batch'[a] = batch[a]
         \/ batch'[a] = {} /\ (Leave(a) \/ Kill(a) \/ CleanupDone(a) \/ CloseFails \/ Restart)
         \/ Clean(a) /\ batch'[a] = OfInstance(owned[a])
         \/ \E r \in Resources : CloseTab(a, r) /\ batch'[a] = {r}
<1>1. batch \in [Apps -> SUBSET Resources] BY DEF TypeOK
<1>2. ASSUME NEW b \in Apps, Clean(b) PROVE (b = a /\ batch'[a] = OfInstance(owned[a])) \/ batch'[a] = batch[a]
  BY <1>1, <1>2 DEF Clean
<1>3. ASSUME NEW b \in Apps, NEW r \in Resources, CloseTab(b, r)
      PROVE  (b = a /\ batch'[a] = {r}) \/ batch'[a] = batch[a]
  BY <1>1, <1>3 DEF CloseTab
<1>4. ASSUME NEW b \in Apps, Leave(b) \/ Kill(b) \/ CleanupDone(b)
      PROVE  (b = a /\ batch'[a] = {}) \/ batch'[a] = batch[a]
  BY <1>1, <1>4 DEF Leave, Kill, Exit, CleanupDone
<1>5. CloseFails \/ Restart => batch'[a] \in {batch[a], {}}
  BY <1>1 DEF CloseFails, Restart
<1>6. ASSUME NEW b \in Apps,
             \/ Launch(b) \/ Disconnect(b) \/ Connect(b) \/ WriteRecord(b) \/ Connected(b) \/ ConnectFails(b)
             \/ Quit(b) \/ Record(b) \/ Wait(b) \/ \E j \in Apps : DropRecord(b, j) \/ SettleRecord(b, j)
      PROVE  UNCHANGED batch
  BY <1>6 DEF Launch, Disconnect, Connect, WriteRecord, Connected, ConnectFails, DropRecord, SettleRecord,
       Quit, Record, Wait
<1>7. ASSUME NEW b \in Apps, NEW r \in Resources,
             \/ Admit(b, r) \/ Claim(b, r) \/ Send(b, r) \/ Withhold(b, r) \/ Close(b, r) \/ Disown(b, r)
             \/ GiveUp(b, r) \/ ServeClaim(b, r) \/ ServeOpen(b, r) \/ ServeClose(b, r)
      PROVE  UNCHANGED batch
  BY <1>7 DEF Admit, Claim, Send, Withhold, Close, Disown, GiveUp, ServeClaim, ServeOpen, ServeClose
<1>8. ASSUME NEW b \in Apps, ServeAdopt(b) \/ ServeCleanup(b) \/ ServeSettlement(b) \/ SettlementDone(b)
      PROVE  UNCHANGED batch
  BY <1>8 DEF ServeAdopt, ServeCleanup, ServeSettlement, SettlementDone
<1>9. (\E q \in Resources : Check(q) \/ End(q)) \/ (\E m \in late : ServeLate(m)) \/ CloseHeld \/ LateDone
        \/ UNCHANGED vars => UNCHANGED batch
  BY DEF Check, End, ServeLate, CloseHeld, LateDone, vars
<1>10. CASE \E b \in Apps : Leave(b) \/ Kill(b) \/ CleanupDone(b) BY <1>4, <1>10
<1>11. QED BY <1>2, <1>3, <1>5, <1>6, <1>7, <1>8, <1>9, <1>10 DEF Next, AppStep, DaemonStep

\* The records on disk.
LEMMA RecordSteps ==
  ASSUME TypeOK, [Next]_vars, NEW a \in Apps
  PROVE  \/ record'[a] = record[a]
         \/ (Record(a) \/ Leave(a)) /\ LogFree /\ record'[a] = owned[a]
         \/ record'[a] = Nothing /\ \E b \in Apps : DropRecord(b, a) \/ (WriteRecord(b) /\ reading[b] = a)
<1>1. record \in [Apps -> Entries] BY DEF TypeOK
<1>2. ASSUME NEW b \in Apps, Record(b) \/ Leave(b)
      PROVE  record'[a] = record[a] \/ (b = a /\ LogFree /\ record'[a] = owned[a])
  BY <1>1, <1>2 DEF Record, Leave, Persisted
<1>3. ASSUME NEW b \in Apps, NEW j \in Apps, DropRecord(b, j)
      PROVE  record'[a] = record[a] \/ (j = a /\ record'[a] = Nothing)
  BY <1>1, <1>3 DEF DropRecord
<1>4. ASSUME NEW b \in Apps, WriteRecord(b)
      PROVE  record'[a] = record[a] \/ (reading[b] = a /\ record'[a] = Nothing)
  BY <1>1, <1>4 DEF WriteRecord
<1>5. ASSUME NEW b \in Apps,
             \/ Launch(b) \/ Disconnect(b) \/ Connect(b) \/ Connected(b) \/ ConnectFails(b)
             \/ Quit(b) \/ Wait(b) \/ Clean(b) \/ Kill(b) \/ \E j \in Apps : SettleRecord(b, j)
      PROVE  UNCHANGED record
  BY <1>5 DEF Launch, Disconnect, Connect, Connected, ConnectFails, SettleRecord, Quit, Wait, Clean, Kill, Exit
<1>6. ASSUME NEW b \in Apps, NEW r \in Resources,
             \/ Admit(b, r) \/ Claim(b, r) \/ Send(b, r) \/ Withhold(b, r) \/ Close(b, r) \/ Disown(b, r)
             \/ GiveUp(b, r) \/ CloseTab(b, r) \/ ServeClaim(b, r) \/ ServeOpen(b, r) \/ ServeClose(b, r)
      PROVE  UNCHANGED record
  BY <1>6 DEF Admit, Claim, Send, Withhold, Close, Disown, GiveUp, CloseTab, ServeClaim, ServeOpen, ServeClose
<1>7. ASSUME NEW b \in Apps,
             ServeAdopt(b) \/ ServeCleanup(b) \/ ServeSettlement(b) \/ CleanupDone(b) \/ SettlementDone(b)
      PROVE  UNCHANGED record
  BY <1>7 DEF ServeAdopt, ServeCleanup, ServeSettlement, CleanupDone, SettlementDone
<1>8. (\E q \in Resources : Check(q) \/ End(q)) \/ (\E m \in late : ServeLate(m)) \/ CloseHeld \/ CloseFails
        \/ LateDone \/ Restart \/ UNCHANGED vars => UNCHANGED record
  BY DEF Check, End, ServeLate, CloseHeld, CloseFails, LateDone, Restart, vars
<1>9. QED BY <1>2, <1>3, <1>4, <1>5, <1>6, <1>7, <1>8 DEF Next, AppStep, DaemonStep

\* The record an App settles, and its request about it.
LEMMA ReadingSteps ==
  ASSUME TypeOK, [Next]_vars, NEW a \in Apps
  PROVE  \/ rpc'[a] = rpc[a] /\ reading'[a] = reading[a]
         \/ /\ rpc'[a] = "none" /\ reading'[a] = NoApp
            /\ \/ WriteRecord(a) \/ ConnectFails(a) \/ Leave(a) \/ Kill(a) \/ Restart
               \/ CloseFails /\ closing.caller = a
         \/ \E j \in Apps : SettleRecord(a, j) /\ rpc[a] = "none" /\ rpc'[a] = "sent" /\ reading'[a] = j
         \/ ServeAdopt(a) /\ rpc[a] = "sent" /\ rpc'[a] = "served" /\ reading'[a] = reading[a]
         \/ SettlementDone(a) /\ rpc'[a] = "served" /\ reading'[a] = reading[a]
<1>1. reading \in [Apps -> Apps \cup {NoApp}] /\ rpc \in [Apps -> {"none", "sent", "served"}] BY DEF TypeOK
<1>2. ASSUME NEW b \in Apps, NEW j \in Apps, SettleRecord(b, j)
      PROVE  \/ b = a /\ rpc[a] = "none" /\ rpc'[a] = "sent" /\ reading'[a] = j
             \/ b # a /\ rpc'[a] = rpc[a] /\ reading'[a] = reading[a]
  BY <1>1, <1>2 DEF SettleRecord
<1>3. ASSUME NEW b \in Apps, ServeAdopt(b)
      PROVE  \/ b = a /\ rpc[a] = "sent" /\ rpc'[a] = "served" /\ reading'[a] = reading[a]
             \/ b # a /\ rpc'[a] = rpc[a] /\ reading'[a] = reading[a]
  BY <1>1, <1>3 DEF ServeAdopt
<1>4. ASSUME NEW b \in Apps, SettlementDone(b)
      PROVE  \/ b = a /\ rpc'[a] = "served" /\ reading'[a] = reading[a]
             \/ b # a /\ rpc'[a] = rpc[a] /\ reading'[a] = reading[a]
  BY <1>1, <1>4 DEF SettlementDone
<1>5. ASSUME NEW b \in Apps, WriteRecord(b) \/ ConnectFails(b) \/ Leave(b) \/ Kill(b)
      PROVE  \/ b = a /\ rpc'[a] = "none" /\ reading'[a] = NoApp
             \/ rpc'[a] = rpc[a] /\ reading'[a] = reading[a]
  BY <1>1, <1>5 DEF WriteRecord, ConnectFails, Leave, Kill, Exit, ForgetSettling
<1>6. CASE CloseFails \/ Restart BY <1>1, <1>6 DEF CloseFails, Restart, ForgetSettling
<1>7. ASSUME NEW b \in Apps,
             \/ Launch(b) \/ Disconnect(b) \/ Connect(b) \/ Connected(b) \/ Quit(b) \/ Record(b) \/ Wait(b)
             \/ Clean(b) \/ \E j \in Apps : DropRecord(b, j)
      PROVE  UNCHANGED <<rpc, reading>>
  BY <1>7 DEF Launch, Disconnect, Connect, Connected, Quit, Record, Wait, Clean, DropRecord
<1>8. ASSUME NEW b \in Apps, NEW r \in Resources,
             \/ Admit(b, r) \/ Claim(b, r) \/ Send(b, r) \/ Withhold(b, r) \/ Close(b, r) \/ Disown(b, r)
             \/ GiveUp(b, r) \/ CloseTab(b, r) \/ ServeClaim(b, r) \/ ServeOpen(b, r) \/ ServeClose(b, r)
      PROVE  UNCHANGED <<rpc, reading>>
  BY <1>8 DEF Admit, Claim, Send, Withhold, Close, Disown, GiveUp, CloseTab, ServeClaim, ServeOpen, ServeClose
<1>9. ASSUME NEW b \in Apps, ServeCleanup(b) \/ ServeSettlement(b) \/ CleanupDone(b)
      PROVE  UNCHANGED <<rpc, reading>>
  BY <1>9 DEF ServeCleanup, ServeSettlement, CleanupDone
<1>10. (\E q \in Resources : Check(q) \/ End(q)) \/ (\E m \in late : ServeLate(m)) \/ CloseHeld
         \/ LateDone \/ UNCHANGED vars => UNCHANGED <<rpc, reading>>
  BY DEF Check, End, ServeLate, CloseHeld, LateDone, vars
<1>11. CASE \E b \in Apps, j \in Apps : SettleRecord(b, j) BY <1>2, <1>11
<1>12. CASE \E b \in Apps : ServeAdopt(b) \/ SettlementDone(b) BY <1>3, <1>4, <1>12
<1>13. QED BY <1>5, <1>6, <1>7, <1>8, <1>9, <1>10, <1>11, <1>12 DEF Next, AppStep, DaemonStep

\* The close request under way.
LEMMA ClosingSteps ==
  ASSUME TypeOK, Lates, [Next]_vars
  PROVE  \/ closing' = closing
         \/ /\ closing' = [closing EXCEPT !.caller = NoApp] /\ closing.caller \in Apps
            /\ LET c == closing.caller IN ConnectFails(c) \/ Leave(c) \/ Kill(c)
         \/ closing' = NoClosing
         \/ \E r \in Resources : Check(r)
         \/ CloseHeld
         \/ \E a \in Apps : ServeCleanup(a) \/ ServeSettlement(a)
         \/ \E m \in late : ServeLate(m) /\ Begin(m.app, NoApp, m.on)
<1>1. ASSUME NEW a \in Apps, ConnectFails(a) \/ Leave(a) \/ Kill(a)
      PROVE  closing' = closing \/ (closing' = [closing EXCEPT !.caller = NoApp] /\ closing.caller = a)
  BY <1>1 DEF ConnectFails, Leave, Kill, Exit, Abandoned
<1>2. ASSUME NEW a \in Apps, AppStep(a), ~(ConnectFails(a) \/ Leave(a) \/ Kill(a)) PROVE UNCHANGED closing
  BY <1>2 DEF AppStep, Launch, Disconnect, Connect, WriteRecord, Connected, DropRecord, SettleRecord,
       Quit, Record, Wait, Clean, Admit, Claim, Send, Withhold, Close, Disown, GiveUp, CloseTab
<1>3. ASSUME NEW m \in late, ServeLate(m) PROVE Begin(m.app, NoApp, m.on)
  BY <1>3 DEF ServeLate, Lates
<1>4. ASSUME NEW a \in Apps, CleanupDone(a) \/ SettlementDone(a) PROVE closing' = NoClosing
  BY <1>4 DEF CleanupDone, SettlementDone, CloseDone
<1>5. CloseFails \/ LateDone \/ Restart => closing' = NoClosing
  BY DEF CloseFails, LateDone, CloseDone, Restart
<1>6. ASSUME NEW a \in Apps,
             ServeAdopt(a) \/ \E r \in Resources : ServeClaim(a, r) \/ ServeOpen(a, r) \/ ServeClose(a, r)
      PROVE  UNCHANGED closing
  BY <1>6 DEF ServeAdopt, ServeClaim, ServeOpen, ServeClose
<1>7. (\E r \in Resources : End(r)) \/ UNCHANGED vars => UNCHANGED closing BY DEF End, vars
<1>8. CASE \E a \in Apps : AppStep(a)
  <2>1. PICK a \in Apps : AppStep(a) BY <1>8
  <2>2. QED BY <1>1, <1>2, <2>1
<1>9. QED BY <1>3, <1>4, <1>5, <1>6, <1>7, <1>8 DEF Next, DaemonStep
-----------------------------------------------------------------------------
(* The parts of the invariant, one by one.                                   *)

\* Nobody takes a resource from an App that is about to open it.
LEMMA StaysClaimed ==
  ASSUME OwnInv, Orderly, [Next]_vars
  PROVE  Claimed'
<1> SUFFICES ASSUME NEW a \in Apps, NEW r \in Resources, work'[a][r] \in {"claimed", "open"}
             PROVE  owner'[r] = a
  BY DEF Claimed
<1>1. TypeOK /\ Lates BY DEF OwnInv
<1>2. CASE ServeClaim(a, r) BY <1>1, <1>2 DEF ServeClaim, TypeOK
<1>3. CASE ~ServeClaim(a, r)
  <2>1. owner[r] = a /\ work[a][r] \in {"claimed", "open"}
    <3>1. CASE Send(a, r) /\ work[a][r] = "claimed" BY <3>1 DEF OwnInv, Claimed
    <3>2. CASE work'[a][r] = work[a][r] BY <3>2 DEF OwnInv, Claimed
    <3>3. QED BY <1>1, <1>3, <3>1, <3>2, WorkSteps
  <2>2. ASSUME NEW b \in Apps, Undisturbed(b, r) PROVE b = a
    BY <2>1, <2>2 DEF Undisturbed, Orderly
  <2>3. ASSUME NEW b \in Apps, ServeClaim(b, r) PROVE FALSE
    BY <1>3, <2>2, <2>3 DEF ServeClaim
  <2>4. ASSUME NEW b \in Apps, ServeClose(b, r) PROVE FALSE
    BY <2>1, <2>2, <2>4 DEF ServeClose, Work
  <2>5. ASSUME NEW b \in Apps, ServeAdopt(b), r \in Adoption(b) PROVE b = a
    BY <2>2, <2>5 DEF ServeAdopt
  <2>6. ASSUME CloseHeld, closing.at = r PROVE FALSE
    <3>1. closing # NoClosing /\ r \in Held BY <2>6, OwnershipAssumption DEF CloseHeld, NoClosing, Held
    <3>2. closing.owner \in Apps BY <1>1, <3>1 DEF TypeOK, Closings
    <3>3. closing.owner = a BY <2>2, <2>6, <3>2 DEF CloseHeld
    <3>4. work[a][r] = "idle" BY <3>1, <3>3 DEF OwnInv, ClosingRested, Rested
    <3>5. QED BY <2>1, <3>4
  <2>7. ASSUME Restart PROVE FALSE BY <2>7 DEF Restart
  <2>8. QED BY <1>1, <2>1, <2>3, <2>4, <2>5, <2>6, <2>7, OwnerSteps
<1>4. QED BY <1>2, <1>3

\* An owner is forgotten only with what it owned.
LEMMA StaysOwned ==
  ASSUME OwnInv, Orderly, [Next]_vars
  PROVE  OwnedWhileLive'
<1> SUFFICES ASSUME NEW r \in live' PROVE owner'[r] # NoApp
  BY DEF OwnedWhileLive
<1>1. TypeOK /\ Lates BY DEF OwnInv
<1>2. r \in Resources
  <2>1. CASE \E a \in Apps : AppStep(a) BY <1>1, <2>1, OwnTypesOfApp DEF TypeOK
  <2>2. CASE DaemonStep BY <2>2, OwnTypesOfDaemon DEF TypeOK
  <2>3. CASE UNCHANGED vars BY <1>1, <2>3 DEF vars, TypeOK
  <2>4. QED BY <2>1, <2>2, <2>3 DEF Next
<1>3. owner[r] # NoApp
  <2>1. CASE r \in live BY <2>1 DEF OwnInv, OwnedWhileLive
  <2>2. ASSUME NEW a \in Apps, work[a][r] = "open" PROVE owner[r] # NoApp
    BY <1>2, <2>2, OwnershipAssumption DEF OwnInv, Claimed
  <2>3. QED BY <1>1, <1>2, <2>1, <2>2, LiveSteps
<1>4. ASSUME NEW a \in Apps, ServeClose(a, r) PROVE FALSE BY <1>4 DEF ServeClose
<1>5. ASSUME CloseHeld, closing.at = r PROVE FALSE BY <1>5 DEF CloseHeld
<1>6. ASSUME Restart PROVE FALSE BY <1>6 DEF Restart
<1>7. QED BY <1>1, <1>2, <1>3, <1>4, <1>5, <1>6, OwnerSteps, OwnershipAssumption

LEMMA StaysIdling ==
  ASSUME OwnInv, Orderly, [Next]_vars
  PROVE  Idling'
<1> DEFINE Still == {"off", "cleaning", "leaving", "gone", "killed"}
<1> SUFFICES ASSUME NEW a \in Apps, phase'[a] \in Still, NEW r \in Resources
             PROVE  work'[a][r] = "idle"
  BY DEF Idling
<1>1. TypeOK BY DEF OwnInv
<1>2. CASE phase[a] \in Still
  <2>1. work[a][r] = "idle" /\ phase[a] # "up" BY <1>2 DEF OwnInv, Idling
  <2>2. QED BY <1>1, <2>1, WorkSteps
<1>3. CASE Wait(a)
  <2>1. ~InFlight(a) BY <1>3 DEF Wait, Orderly
  <2>2. work[a][r] = "idle" BY <2>1 DEF InFlight
  <2>3. QED BY <1>3, <2>2 DEF Wait
<1>4. CASE Leave(a) \/ Kill(a) BY <1>1, <1>4 DEF Leave, Kill, Exit, TypeOK
<1>5. QED BY <1>1, <1>2, <1>3, <1>4, PhaseSteps

LEMMA StaysBatched ==
  ASSUME OwnInv, Orderly, [Next]_vars
  PROVE  Batches'
<1> SUFFICES ASSUME NEW a \in Apps, batch'[a] # {}
             PROVE  phase'[a] \in Past /\ \A r \in batch'[a] : work'[a][r] = "idle"
  BY DEF Batches, Rested
<1>1. TypeOK BY DEF OwnInv
<1>2. CASE batch'[a] = batch[a]
  <2>1. Rested(a, batch[a]) /\ batch[a] \in SUBSET Resources BY <1>1, <1>2 DEF OwnInv, Batches, TypeOK
  <2>2. QED BY <1>1, <1>2, <2>1, StaysRested
<1>3. CASE Clean(a) /\ batch'[a] = OfInstance(owned[a])
  <2>1. phase[a] = "cleaning" /\ phase'[a] = "leaving" BY <1>1, <1>3 DEF Clean, Step, TypeOK
  <2>2. \A r \in Resources : work[a][r] = "idle" BY <2>1 DEF OwnInv, Idling
  <2>3. UNCHANGED work BY <1>3 DEF Clean
  <2>4. QED BY <1>3, <2>1, <2>2, <2>3 DEF Past, OfInstance
<1>4. ASSUME NEW r \in Resources, CloseTab(a, r), batch'[a] = {r}
      PROVE  phase'[a] \in Past /\ \A q \in batch'[a] : work'[a][q] = "idle"
  BY <1>4 DEF CloseTab, Past
<1>5. QED BY <1>1, <1>2, <1>3, <1>4, BatchSteps

LEMMA StaysRecorded ==
  ASSUME OwnInv, Orderly, [Next]_vars
  PROVE  Records'
<1> SUFFICES ASSUME NEW a \in Apps, record'[a] # Nothing PROVE phase'[a] \in Past
  BY DEF Records, Nothing
<1>1. TypeOK BY DEF OwnInv
<1>2. CASE record'[a] = record[a]
  <2>1. Rested(a, {}) BY <1>2 DEF OwnInv, Records, Rested
  <2>2. QED BY <1>1, <2>1, StaysRested
<1>3. CASE Record(a) \/ Leave(a) BY <1>1, <1>3 DEF Record, Leave, Step, TypeOK, Past
<1>4. QED BY <1>1, <1>2, <1>3, RecordSteps

\* Only the record of an App that is gone is settled.
LEMMA StaysReading ==
  ASSUME OwnInv, Orderly, [Next]_vars
  PROVE  Readings'
<1>1. TypeOK BY DEF OwnInv
<1>2. ASSUME NEW a \in Apps, reading'[a] # NoApp PROVE phase'[reading'[a]] \in Over
  <2>1. CASE reading'[a] = reading[a]
    <3>1. reading[a] \in Apps /\ phase[reading[a]] \in Over BY <1>1, <1>2, <2>1 DEF OwnInv, Readings, TypeOK
    <3>2. QED BY <1>1, <2>1, <3>1, StaysOver
  <2>2. ASSUME NEW j \in Apps, SettleRecord(a, j), reading'[a] = j PROVE phase'[reading'[a]] \in Over
    <3>1. PICK r \in Resources : record[j][r] = instance BY <2>2 DEF SettleRecord, OfInstance
    <3>2. record[j] # Nothing BY <1>1, <3>1, OwnershipAssumption DEF Nothing, TypeOK
    <3>3. phase[j] \in Past /\ ~Quitting(j) BY <2>2, <3>2 DEF OwnInv, Records, SettleRecord, Orderly
    <3>4. phase[j] \in Over BY <3>3 DEF Past, Quitting, Over
    <3>5. QED BY <2>2, <3>4 DEF SettleRecord
  <2>3. QED BY <1>1, <1>2, <2>1, <2>2, ReadingSteps
<1>3. ASSUME NEW a \in Apps, rpc'[a] # "none" PROVE reading'[a] # NoApp
  <2>1. rpc[a] # "none" => reading[a] # NoApp BY DEF OwnInv, Readings
  <2>2. ASSUME SettlementDone(a) PROVE rpc[a] # "none"
    BY <2>2, OwnershipAssumption DEF SettlementDone, CloseDone, OwnInv, Asking
  <2>3. QED BY <1>1, <1>3, <2>1, <2>2, ReadingSteps, OwnershipAssumption
<1>4. QED BY <1>2, <1>3 DEF Readings

LEMMA StaysLate ==
  ASSUME OwnInv, Orderly, [Next]_vars
  PROVE  Lates'
<1> SUFFICES ASSUME NEW m \in late' PROVE m.kind = "cleanup" /\ phase'[m.app] \in Over
  BY DEF Lates
<1>1. CASE m \in late
  <2>1. m.kind = "cleanup" /\ phase[m.app] \in Over /\ m \in Requests BY <1>1 DEF OwnInv, Lates, TypeOK
  <2>2. m.app \in Apps BY <2>1 DEF Requests
  <2>3. QED BY <2>1, <2>2, StaysOver DEF OwnInv
<1>2. CASE m \notin late BY <1>2, LateSteps
<1>3. QED BY <1>1, <1>2
LEMMA StaysClosingRested ==
  ASSUME OwnInv, Orderly, [Next]_vars
  PROVE  ClosingRested'
<1> SUFFICES ASSUME closing' # NoClosing
             PROVE  /\ phase'[closing'.owner] \in Past
                    /\ \A r \in Held' : work'[closing'.owner][r] = "idle"
  BY DEF ClosingRested, Rested
<1>1. TypeOK /\ Lates BY DEF OwnInv
<1>2. ASSUME closing # NoClosing, closing'.owner = closing.owner, Held' \subseteq Held
      PROVE  /\ phase'[closing'.owner] \in Past
             /\ \A r \in Held' : work'[closing'.owner][r] = "idle"
  <2>1. closing.owner \in Apps /\ closing.todo \in SUBSET Resources /\ closing.at \in Resources \cup {NoResource}
    BY <1>1, <1>2 DEF TypeOK, Closings
  <2>2. Held \in SUBSET Resources BY <2>1 DEF Held
  <2>3. Rested(closing.owner, Held) BY <1>2 DEF OwnInv, ClosingRested
  <2>4. QED BY <1>1, <1>2, <2>1, <2>2, <2>3, StaysRested
<1>3. CASE closing # NoClosing
           /\ (closing' = closing \/ closing' = [closing EXCEPT !.caller = NoApp] \/ CloseHeld
                 \/ \E r \in Resources : Check(r))
  <2>1. closing \in [owner : Apps, caller : Apps \cup {NoApp}, todo : SUBSET Resources,
                     at : Resources \cup {NoResource}]
    BY <1>1, <1>3 DEF TypeOK, Closings
  <2>2. closing'.owner = closing.owner /\ Held' \subseteq Held
    <3>1. CASE closing' = closing \/ closing' = [closing EXCEPT !.caller = NoApp] BY <2>1, <3>1 DEF Held
    <3>2. CASE CloseHeld BY <2>1, <3>2 DEF CloseHeld, Held
    <3>3. CASE \E r \in Resources : Check(r) BY <2>1, <3>3 DEF Check, Held
    <3>4. QED BY <1>3, <3>1, <3>2, <3>3
  <2>3. QED BY <1>2, <1>3, <2>2
<1>4. ASSUME NEW for, NEW caller, NEW on, Begin(for, caller, on), UNCHANGED <<phase, work>>,
             for \in Apps, on \in SUBSET Resources, Rested(for, on)
      PROVE  /\ phase'[closing'.owner] \in Past
             /\ \A r \in Held' : work'[closing'.owner][r] = "idle"
  <2>1. closing'.owner = for /\ Held' = on BY <1>4 DEF Begin, Held
  <2>2. QED BY <1>4, <2>1 DEF Rested
<1>5. ASSUME NEW j \in Apps, phase[j] \in Over, NEW S \in SUBSET Resources PROVE Rested(j, S)
  BY <1>5 DEF OwnInv, Idling, Rested, Over, Past
<1>6. ASSUME NEW a \in Apps, ServeCleanup(a)
      PROVE  /\ phase'[closing'.owner] \in Past
             /\ \A r \in Held' : work'[closing'.owner][r] = "idle"
  <2>1. batch[a] \in SUBSET Resources /\ Rested(a, batch[a]) BY <1>1, <1>6 DEF ServeCleanup, OwnInv, Batches, TypeOK
  <2>2. Begin(a, a, batch[a]) /\ UNCHANGED <<phase, work>> BY <1>6 DEF ServeCleanup
  <2>3. QED BY <1>4, <2>1, <2>2
<1>7. ASSUME NEW a \in Apps, ServeSettlement(a)
      PROVE  /\ phase'[closing'.owner] \in Past
             /\ \A r \in Held' : work'[closing'.owner][r] = "idle"
  <2>1. reading[a] \in Apps /\ phase[reading[a]] \in Over
    BY <1>1, <1>7 DEF ServeSettlement, OwnInv, Readings, TypeOK
  <2>2. OfInstance(record[reading[a]]) \in SUBSET Resources BY DEF OfInstance
  <2>3. Begin(reading[a], a, OfInstance(record[reading[a]])) /\ UNCHANGED <<phase, work>>
    BY <1>7 DEF ServeSettlement
  <2>4. QED BY <1>4, <1>5, <2>1, <2>2, <2>3
<1>8. ASSUME NEW m \in late, ServeLate(m), Begin(m.app, NoApp, m.on)
      PROVE  /\ phase'[closing'.owner] \in Past
             /\ \A r \in Held' : work'[closing'.owner][r] = "idle"
  <2>1. m \in Requests /\ m.kind = "cleanup" /\ phase[m.app] \in Over BY <1>1 DEF Lates, TypeOK
  <2>2. m.app \in Apps /\ m.on \in SUBSET Resources BY <2>1 DEF Requests
  <2>3. UNCHANGED <<phase, work>> BY <1>8 DEF ServeLate
  <2>4. QED BY <1>4, <1>5, <1>8, <2>1, <2>2, <2>3
<1>9. closing = NoClosing =>
        /\ ~CloseHeld /\ \A r \in Resources : ~Check(r)
        /\ [closing EXCEPT !.caller = NoApp] = NoClosing
  BY DEF CloseHeld, Check, NoClosing
<1>10. QED BY <1>1, <1>3, <1>6, <1>7, <1>8, <1>9, ClosingSteps

\* The App whose settlement the daemon is at waits for it, or gives it up.
LEMMA StaysAsking ==
  ASSUME OwnInv, Orderly, [Next]_vars
  PROVE  Asking'
<1> SUFFICES ASSUME closing' # NoClosing, closing'.caller \notin {NoApp, closing'.owner}
             PROVE  rpc'[closing'.caller] = "sent" /\ reading'[closing'.caller] = closing'.owner
  BY DEF Asking
<1>1. TypeOK /\ Lates BY DEF OwnInv
<1>2. ASSUME closing # NoClosing, closing'.owner = closing.owner, closing'.caller = closing.caller
      PROVE  rpc'[closing'.caller] = "sent" /\ reading'[closing'.caller] = closing'.owner
  <2> DEFINE c == closing.caller
  <2>1. c \in Apps /\ c # closing.owner BY <1>1, <1>2, OwnershipAssumption DEF TypeOK, Closings
  <2>2. rpc[c] = "sent" /\ reading[c] = closing.owner BY <1>2, <2>1, OwnershipAssumption DEF OwnInv, Asking
  <2>3. ~ServeAdopt(c) BY <1>2 DEF ServeAdopt, Admitted
  <2>4. ~SettlementDone(c) BY DEF SettlementDone, CloseDone
  <2>5. ASSUME WriteRecord(c) \/ ConnectFails(c) \/ Leave(c) \/ Kill(c) \/ Restart \/ CloseFails PROVE FALSE
    <3>1. ~WriteRecord(c) BY <2>2 DEF WriteRecord
    <3>2. ~CloseFails /\ ~Restart BY <1>2 DEF CloseFails, Restart
    <3>3. ASSUME ConnectFails(c) \/ Leave(c) \/ Kill(c) PROVE closing'.caller = NoApp
      <4>1. closing' = [closing EXCEPT !.caller = NoApp]
        BY <2>1, <3>3 DEF ConnectFails, Leave, Kill, Exit, Abandoned
      <4>2. QED BY <1>1, <1>2, <4>1 DEF TypeOK, Closings
    <3>4. QED BY <1>2, <2>1, <2>5, <3>1, <3>2, <3>3, OwnershipAssumption
  <2>6. QED BY <1>1, <1>2, <2>1, <2>2, <2>3, <2>4, <2>5, ReadingSteps
<1>3. CASE closing # NoClosing /\ (closing' = closing \/ CloseHeld \/ \E r \in Resources : Check(r))
  <2>1. closing \in [owner : Apps, caller : Apps \cup {NoApp}, todo : SUBSET Resources,
                     at : Resources \cup {NoResource}]
    BY <1>1, <1>3 DEF TypeOK, Closings
  <2>2. closing'.owner = closing.owner /\ closing'.caller = closing.caller
    BY <1>3, <2>1 DEF CloseHeld, Check
  <2>3. QED BY <1>2, <1>3, <2>2
<1>4. ASSUME closing' = [closing EXCEPT !.caller = NoApp] PROVE FALSE
  BY <1>1, <1>4 DEF TypeOK, Closings, NoClosing
<1>5. ASSUME NEW a \in Apps, ServeCleanup(a) PROVE FALSE BY <1>5 DEF ServeCleanup, Begin
<1>6. ASSUME NEW m \in late, Begin(m.app, NoApp, m.on) PROVE FALSE BY <1>6 DEF Begin
<1>7. ASSUME NEW a \in Apps, ServeSettlement(a)
      PROVE  rpc'[closing'.caller] = "sent" /\ reading'[closing'.caller] = closing'.owner
  BY <1>7 DEF ServeSettlement, Begin
<1>8. closing = NoClosing => ~CloseHeld /\ \A r \in Resources : ~Check(r)
  BY DEF CloseHeld, Check, NoClosing
<1>9. QED BY <1>1, <1>3, <1>4, <1>5, <1>6, <1>7, <1>8, ClosingSteps
-----------------------------------------------------------------------------
(* The theorems of this part.                                                *)

LEMMA OwnInvStarts ==
  ASSUME Init
  PROVE  OwnInv
<1>1. TypeOK
  BY OwnershipAssumption DEF Init, TypeOK, Closings, Phases, Steps, Entries, Nothing
<1>2. QED
  BY <1>1 DEF Init, OwnInv, OwnedWhileLive, Claimed, Idling, Batches, Records, Readings, Lates,
       ClosingRested, Asking

LEMMA OwnInvKept ==
  ASSUME OwnInv, Orderly, [Next]_vars
  PROVE  OwnInv'
<1>1. TypeOK'
  <2>1. CASE \E a \in Apps : AppStep(a) BY <2>1, OwnTypesOfApp
  <2>2. CASE DaemonStep BY <2>2, OwnTypesOfDaemon
  <2>3. CASE UNCHANGED vars BY <2>3 DEF OwnInv, vars, TypeOK
  <2>4. QED BY <2>1, <2>2, <2>3 DEF Next
<1>2. QED
  BY <1>1, StaysOwned, StaysClaimed, StaysIdling, StaysBatched, StaysRecorded, StaysReading, StaysLate,
     StaysClosingRested, StaysAsking DEF OwnInv

\* Every open session or terminal belongs to an App, for any number of Apps,
\* resources and daemon starts, with the windows "log", "answer" and "partial"
\* open: what orphans a resource is a late request, an exit that does not wait
\* for its requests, or two Apps at one resource (upgrade.rs, lifecycle.rs).
THEOREM OwnersStay ==
  ASSUME Orderly
  PROVE  Spec => []OwnedWhileLive
<1>1. OwnInv /\ [Next]_vars => OwnInv' BY OwnInvKept
<1>2. OwnInv => OwnedWhileLive BY DEF OwnInv
<1>3. QED BY <1>1, <1>2, OwnInvStarts, PTL DEF Spec

\* The behaviours of the run are those of the narrow instance, or wide ones.
LEMMA NarrowSteps ==
  ASSUME [MCNext]_<<vars, wide>>
  PROVE  wide' = wide /\ (wide \/ [Next]_vars)
BY DEF MCNext

\* The same of the run's own specification, with the types of every variable.
THEOREM NothingIsOrphaned ==
  ASSUME Orderly
  PROVE  MCSpec => []NothingOrphaned
<1> DEFINE Inv == wide \/ OwnInv
<1>1. MCInit => Inv BY OwnInvStarts DEF MCInit
<1>2. Inv /\ [MCNext]_<<vars, wide>> => Inv' BY NarrowSteps, OwnInvKept
<1>3. Inv => NothingOrphaned BY DEF NothingOrphaned, OwnInv
<1>4. QED BY <1>1, <1>2, <1>3, PTL DEF MCSpec
-----------------------------------------------------------------------------
(* What an App knows of its own.  Only the window "log" is open: an answer   *)
(* that is lost, or a record that is not read to its end, loses what was     *)
(* adopted.                                                                  *)

Reliable == Windows \subseteq {"log"}

\* r is open and the daemon counts it as a's.
Mine(a, r) == r \in live /\ owner[r] = a

\* What an App asks for is entered as owned before the request goes out.
Bound ==
  \A a \in Apps, r \in Resources :
    work[a][r] \in {"claim", "claimed", "open"} => owned[a][r] = instance
\* One connection attempt at a time settles records.
Alone == \A a, b \in Apps : link[a] = "settling" /\ link[b] = "settling" => a = b
\* What belongs to a connection attempt, and what to the exit, is there no longer.
Linked ==
  \A a \in Apps :
    /\ link[a] # "none" => Running(a)
    /\ link[a] # "settling" => rpc[a] = "none" /\ got[a] = {} /\ adopted[a] = {}
    /\ rpc[a] # "served" => got[a] = {}
    /\ rpc[a] = "none" => reading[a] = NoApp
    /\ got[a] \cup adopted[a] # {} => remote
    /\ batch[a] # {} => link[a] # "settling" /\ phase[a] # "cleaning"
    /\ phase[a] \in {"cleaning", "leaving"} => link[a] # "settling"
Looking == closing.at \in closing.todo \cup {NoResource}
\* What a close request no longer has to do, it has closed or found another's.
Cleaned ==
  closing # NoClosing /\ closing.caller = closing.owner =>
    /\ batch[closing.owner] # {}
    /\ \A r \in batch[closing.owner] \ closing.todo : ~Mine(closing.owner, r)
Settling ==
  closing # NoClosing /\ closing.caller \notin {NoApp, closing.owner} =>
    ~remote /\ \A r \in OfInstance(record[closing.owner]) \ closing.todo : ~Mine(closing.owner, r)
\* A running App has an entry of what is its own, or is being told of it.
Known ==
  \A a \in Apps, r \in Resources :
    Mine(a, r) /\ Running(a) => owned[a][r] = instance \/ r \in got[a] \cup adopted[a]
\* An entry is dropped only once the daemon has closed what it was for.
Unowned ==
  \A a \in Apps, r \in Resources :
    work[a][r] = "unowned" => ~Mine(a, r) \/ r \in got[a] \cup adopted[a]
Fresh == \A a \in Apps : phase[a] = "off" => \A r \in Resources : owner[r] # a

KnowInv ==
  /\ OwnInv /\ Bound /\ Alone /\ Linked /\ Looking /\ Cleaned /\ Settling
  /\ Known /\ Unowned /\ Fresh

LEMMA ReliableIsOrderly ==
  ASSUME Reliable
  PROVE  Orderly /\ "answer" \notin Windows /\ "partial" \notin Windows
BY DEF Reliable, Orderly

\* The entries of what an App owns.
LEMMA OwnedSteps ==
  ASSUME TypeOK, [Next]_vars, NEW a \in Apps, NEW r \in Resources
  PROVE  \/ owned'[a][r] = owned[a][r]
         \/ Claim(a, r) /\ owned'[a][r] = instance
         \/ Disown(a, r)
         \/ Connected(a) /\ r \in adopted[a] /\ owned'[a][r] = instance
         \/ Clean(a) /\ owned[a][r] # instance
         \/ CleanupDone(a) /\ r \in batch[a]
         \/ Leave(a) \/ Kill(a)
<1>1. owned \in [Apps -> [Resources -> 0..MaxInstances]] BY DEF TypeOK, Entries
<1>2. ASSUME NEW b \in Apps, NEW q \in Resources, Claim(b, q)
      PROVE  (b = a /\ q = r /\ owned'[a][r] = instance) \/ owned'[a][r] = owned[a][r]
  BY <1>1, <1>2 DEF Claim
<1>3. ASSUME NEW b \in Apps, NEW q \in Resources, Disown(b, q)
      PROVE  (b = a /\ q = r) \/ owned'[a][r] = owned[a][r]
  BY <1>1, <1>3 DEF Disown
<1>4. ASSUME NEW b \in Apps, Connected(b)
      PROVE  (b = a /\ r \in adopted[a] /\ owned'[a][r] = instance) \/ owned'[a][r] = owned[a][r]
  BY <1>1, <1>4 DEF Connected, WithAdopted
<1>5. ASSUME NEW b \in Apps, Clean(b)
      PROVE  (b = a /\ owned[a][r] # instance) \/ owned'[a][r] = owned[a][r]
  BY <1>1, <1>5 DEF Clean, Unconfirmed
<1>6. ASSUME NEW b \in Apps, CleanupDone(b)
      PROVE  (b = a /\ r \in batch[a]) \/ owned'[a][r] = owned[a][r]
  BY <1>1, <1>6 DEF CleanupDone
<1>7. ASSUME NEW b \in Apps, Leave(b) \/ Kill(b) PROVE b = a \/ owned'[a][r] = owned[a][r]
  BY <1>1, <1>7 DEF Leave, Kill, Exit
<1>8. ASSUME NEW b \in Apps,
             \/ Launch(b) \/ Disconnect(b) \/ Connect(b) \/ WriteRecord(b) \/ ConnectFails(b)
             \/ Quit(b) \/ Record(b) \/ Wait(b) \/ \E j \in Apps : DropRecord(b, j) \/ SettleRecord(b, j)
      PROVE  UNCHANGED owned
  BY <1>8 DEF Launch, Disconnect, Connect, WriteRecord, ConnectFails, DropRecord, SettleRecord, Quit, Record, Wait
<1>9. ASSUME NEW b \in Apps, NEW q \in Resources,
             \/ Admit(b, q) \/ Send(b, q) \/ Withhold(b, q) \/ Close(b, q)
             \/ GiveUp(b, q) \/ CloseTab(b, q) \/ ServeClaim(b, q) \/ ServeOpen(b, q) \/ ServeClose(b, q)
      PROVE  UNCHANGED owned
  BY <1>9 DEF Admit, Send, Withhold, Close, GiveUp, CloseTab, ServeClaim, ServeOpen, ServeClose
<1>10. ASSUME NEW b \in Apps, ServeAdopt(b) \/ ServeCleanup(b) \/ ServeSettlement(b) \/ SettlementDone(b)
       PROVE  UNCHANGED owned
  BY <1>10 DEF ServeAdopt, ServeCleanup, ServeSettlement, SettlementDone
<1>11. (\E q \in Resources : Check(q) \/ End(q)) \/ (\E m \in late : ServeLate(m)) \/ CloseHeld \/ CloseFails
         \/ LateDone \/ Restart \/ UNCHANGED vars => UNCHANGED owned
  BY DEF Check, End, ServeLate, CloseHeld, CloseFails, LateDone, Restart, vars
<1>12. CASE \E b \in Apps, q \in Resources : Claim(b, q) \/ Disown(b, q) BY <1>2, <1>3, <1>12
<1>13. CASE \E b \in Apps : Connected(b) \/ Clean(b) \/ CleanupDone(b) \/ Leave(b) \/ Kill(b)
  BY <1>4, <1>5, <1>6, <1>7, <1>13
<1>14. QED BY <1>8, <1>9, <1>10, <1>11, <1>12, <1>13 DEF Next, AppStep, DaemonStep

\* The connection to the host.
LEMMA LinkSteps ==
  ASSUME TypeOK, [Next]_vars, NEW a \in Apps
  PROVE  \/ link'[a] = link[a]
         \/ Disconnect(a) /\ link[a] = "ready" /\ link'[a] = "none"
         \/ Connect(a) /\ link'[a] = "settling"
         \/ Connected(a) /\ link'[a] = "ready"
         \/ (ConnectFails(a) \/ Leave(a) \/ Kill(a) \/ Restart) /\ link'[a] = "none"
         \/ CloseFails /\ closing.caller = a /\ closing.owner # a /\ link'[a] = "none"
<1>1. link \in [Apps -> {"none", "settling", "ready"}] BY DEF TypeOK
<1>2. ASSUME NEW b \in Apps, Disconnect(b)
      PROVE  (b = a /\ link[a] = "ready" /\ link'[a] = "none") \/ link'[a] = link[a]
  BY <1>1, <1>2 DEF Disconnect
<1>3. ASSUME NEW b \in Apps, Connect(b) PROVE (b = a /\ link'[a] = "settling") \/ link'[a] = link[a]
  BY <1>1, <1>3 DEF Connect
<1>4. ASSUME NEW b \in Apps, Connected(b) PROVE (b = a /\ link'[a] = "ready") \/ link'[a] = link[a]
  BY <1>1, <1>4 DEF Connected
<1>5. ASSUME NEW b \in Apps, ConnectFails(b) \/ Leave(b) \/ Kill(b)
      PROVE  (b = a /\ link'[a] = "none") \/ link'[a] = link[a]
  BY <1>1, <1>5 DEF ConnectFails, Leave, Kill, Exit
<1>6. CASE CloseFails BY <1>1, <1>6 DEF CloseFails
<1>7. CASE Restart BY <1>7 DEF Restart
<1>8. ASSUME NEW b \in Apps,
             \/ Launch(b) \/ WriteRecord(b) \/ Quit(b) \/ Record(b) \/ Wait(b) \/ Clean(b)
             \/ \E j \in Apps : DropRecord(b, j) \/ SettleRecord(b, j)
      PROVE  UNCHANGED link
  BY <1>8 DEF Launch, WriteRecord, DropRecord, SettleRecord, Quit, Record, Wait, Clean
<1>9. ASSUME NEW b \in Apps, NEW q \in Resources,
             \/ Admit(b, q) \/ Claim(b, q) \/ Send(b, q) \/ Withhold(b, q) \/ Close(b, q) \/ Disown(b, q)
             \/ GiveUp(b, q) \/ CloseTab(b, q) \/ ServeClaim(b, q) \/ ServeOpen(b, q) \/ ServeClose(b, q)
      PROVE  UNCHANGED link
  BY <1>9 DEF Admit, Claim, Send, Withhold, Close, Disown, GiveUp, CloseTab, ServeClaim, ServeOpen, ServeClose
<1>10. ASSUME NEW b \in Apps,
              ServeAdopt(b) \/ ServeCleanup(b) \/ ServeSettlement(b) \/ CleanupDone(b) \/ SettlementDone(b)
       PROVE  UNCHANGED link
  BY <1>10 DEF ServeAdopt, ServeCleanup, ServeSettlement, CleanupDone, SettlementDone
<1>11. (\E q \in Resources : Check(q) \/ End(q)) \/ (\E m \in late : ServeLate(m)) \/ CloseHeld
         \/ LateDone \/ UNCHANGED vars => UNCHANGED link
  BY DEF Check, End, ServeLate, CloseHeld, LateDone, vars
<1>12. CASE \E b \in Apps : Disconnect(b) \/ Connect(b) \/ Connected(b) BY <1>2, <1>3, <1>4, <1>12
<1>13. CASE \E b \in Apps : ConnectFails(b) \/ Leave(b) \/ Kill(b) BY <1>5, <1>13
<1>14. QED BY <1>6, <1>7, <1>8, <1>9, <1>10, <1>11, <1>12, <1>13 DEF Next, AppStep, DaemonStep

\* What a connection attempt has been granted.
LEMMA GrantSteps ==
  ASSUME TypeOK, [Next]_vars, NEW a \in Apps
  PROVE  \/ got'[a] = got[a] /\ adopted'[a] = adopted[a]
         \/ Connect(a) /\ got'[a] = got[a] /\ adopted'[a] = {}
         \/ ServeAdopt(a) /\ got'[a] = Adoption(a) /\ adopted'[a] = adopted[a]
         \/ WriteRecord(a) /\ got'[a] = {} /\ adopted'[a] = adopted[a] \cup got[a]
         \/ Connected(a) /\ got'[a] = got[a] /\ adopted'[a] = {}
         \/ (ConnectFails(a) \/ Leave(a) \/ Kill(a) \/ Restart) /\ got'[a] = {} /\ adopted'[a] = {}
         \/ /\ CloseFails /\ closing.caller = a /\ closing.owner # a
            /\ got'[a] = {} /\ adopted'[a] = {}
<1>1. got \in [Apps -> SUBSET Resources] /\ adopted \in [Apps -> SUBSET Resources] BY DEF TypeOK
<1>2. ASSUME NEW b \in Apps, Connect(b) \/ Connected(b)
      PROVE  \/ b = a /\ got'[a] = got[a] /\ adopted'[a] = {}
             \/ got'[a] = got[a] /\ adopted'[a] = adopted[a]
  BY <1>1, <1>2 DEF Connect, Connected
<1>3. ASSUME NEW b \in Apps, ServeAdopt(b)
      PROVE  \/ b = a /\ got'[a] = Adoption(a) /\ adopted'[a] = adopted[a]
             \/ got'[a] = got[a] /\ adopted'[a] = adopted[a]
  BY <1>1, <1>3 DEF ServeAdopt
<1>4. ASSUME NEW b \in Apps, WriteRecord(b)
      PROVE  \/ b = a /\ got'[a] = {} /\ adopted'[a] = adopted[a] \cup got[a]
             \/ got'[a] = got[a] /\ adopted'[a] = adopted[a]
  BY <1>1, <1>4 DEF WriteRecord
<1>5. ASSUME NEW b \in Apps, ConnectFails(b) \/ Leave(b) \/ Kill(b)
      PROVE  \/ b = a /\ got'[a] = {} /\ adopted'[a] = {}
             \/ got'[a] = got[a] /\ adopted'[a] = adopted[a]
  BY <1>1, <1>5 DEF ConnectFails, Leave, Kill, Exit, ForgetSettling
<1>6. CASE CloseFails BY <1>1, <1>6 DEF CloseFails, ForgetSettling
<1>7. CASE Restart BY <1>7 DEF Restart
<1>8. ASSUME NEW b \in Apps,
             \/ Launch(b) \/ Disconnect(b) \/ Quit(b) \/ Record(b) \/ Wait(b) \/ Clean(b)
             \/ \E j \in Apps : DropRecord(b, j) \/ SettleRecord(b, j)
      PROVE  UNCHANGED <<got, adopted>>
  BY <1>8 DEF Launch, Disconnect, DropRecord, SettleRecord, Quit, Record, Wait, Clean
<1>9. ASSUME NEW b \in Apps, NEW q \in Resources,
             \/ Admit(b, q) \/ Claim(b, q) \/ Send(b, q) \/ Withhold(b, q) \/ Close(b, q) \/ Disown(b, q)
             \/ GiveUp(b, q) \/ CloseTab(b, q) \/ ServeClaim(b, q) \/ ServeOpen(b, q) \/ ServeClose(b, q)
      PROVE  UNCHANGED <<got, adopted>>
  BY <1>9 DEF Admit, Claim, Send, Withhold, Close, Disown, GiveUp, CloseTab, ServeClaim, ServeOpen, ServeClose
<1>10. ASSUME NEW b \in Apps, ServeCleanup(b) \/ ServeSettlement(b) \/ CleanupDone(b) \/ SettlementDone(b)
       PROVE  UNCHANGED <<got, adopted>>
  BY <1>10 DEF ServeCleanup, ServeSettlement, CleanupDone, SettlementDone
<1>11. (\E q \in Resources : Check(q) \/ End(q)) \/ (\E m \in late : ServeLate(m)) \/ CloseHeld
         \/ LateDone \/ UNCHANGED vars => UNCHANGED <<got, adopted>>
  BY DEF Check, End, ServeLate, CloseHeld, LateDone, vars
<1>12. CASE \E b \in Apps : Connect(b) \/ Connected(b) \/ ServeAdopt(b) \/ WriteRecord(b)
  BY <1>2, <1>3, <1>4, <1>12
<1>13. CASE \E b \in Apps : ConnectFails(b) \/ Leave(b) \/ Kill(b) BY <1>5, <1>13
<1>14. QED BY <1>6, <1>7, <1>8, <1>9, <1>10, <1>11, <1>12, <1>13 DEF Next, AppStep, DaemonStep

\* The daemon's instance changes at a restart only, and the host never.
LEMMA InstanceSteps ==
  ASSUME Next \/ UNCHANGED vars
  PROVE  UNCHANGED remote /\ (UNCHANGED instance \/ Restart)
<1>1. ASSUME NEW a \in Apps, AppStep(a) PROVE UNCHANGED <<remote, instance>>
  BY <1>1 DEF AppStep, Launch, Disconnect, Connect, WriteRecord, Connected, ConnectFails, DropRecord, SettleRecord,
       Quit, Record, Wait, Clean, Leave, Kill, Exit, Admit, Claim, Send, Withhold, Close, Disown, GiveUp, CloseTab
<1>2. DaemonStep => UNCHANGED remote /\ (UNCHANGED instance \/ Restart)
  BY DEF DaemonStep, ServeAdopt, ServeCleanup, ServeSettlement, CleanupDone, SettlementDone, ServeClaim,
       ServeOpen, ServeClose, Check, End, ServeLate, CloseHeld, CloseFails, LateDone, Restart
<1>3. QED BY <1>1, <1>2 DEF Next, vars
\* What becomes an App's own, it has asked for.
LEMMA MineSteps ==
  ASSUME OwnInv, [Next]_vars, NEW a \in Apps, NEW r \in Resources, r \in live', owner'[r] = a
  PROVE  \/ Mine(a, r)
         \/ ServeOpen(a, r) /\ work[a][r] = "open"
         \/ ServeClaim(a, r) /\ work[a][r] = "claim"
         \/ ServeAdopt(a) /\ r \in Adoption(a)
<1>1. TypeOK /\ Lates BY DEF OwnInv
<1>2. CASE r \in live
  <2>1. ASSUME NEW b \in Apps, ServeClaim(b, r), owner'[r] = b PROVE ServeClaim(a, r) /\ work[a][r] = "claim"
    BY <2>1 DEF ServeClaim, Work
  <2>2. ~Restart BY DEF Restart
  <2>3. QED BY <1>1, <1>2, <2>1, <2>2, OwnerSteps, OwnershipAssumption DEF Mine
<1>3. CASE r \notin live
  <2>1. PICK b \in Apps : ServeOpen(b, r) /\ work[b][r] = "open" BY <1>1, <1>3, LiveSteps
  <2>2. owner[r] = b BY <2>1 DEF OwnInv, Claimed
  <2>3. QED BY <2>1, <2>2 DEF ServeOpen
<1>4. QED BY <1>2, <1>3

\* Nothing becomes anybody's while a close request is under way.
LEMMA MineShrinks ==
  ASSUME OwnInv, [Next]_vars, closing # NoClosing, NEW a \in Apps, NEW r \in Resources, r \in live', owner'[r] = a
  PROVE  Mine(a, r)
BY MineSteps DEF ServeOpen, ServeClaim, ServeAdopt, Admitted

LEMMA StaysBound ==
  ASSUME KnowInv, Reliable, [Next]_vars
  PROVE  Bound'
<1> SUFFICES ASSUME NEW a \in Apps, NEW r \in Resources, work'[a][r] \in {"claim", "claimed", "open"}
             PROVE  owned'[a][r] = instance'
  BY DEF Bound
<1>1. TypeOK BY DEF KnowInv, OwnInv
<1>2. instance' = instance
  <2>1. ~Restart BY DEF Restart
  <2>2. QED BY <2>1, InstanceSteps
<1>3. CASE Claim(a, r) BY <1>1, <1>2, <1>3 DEF Claim, TypeOK, Entries
<1>4. CASE ~Claim(a, r)
  <2>1. work[a][r] \in {"claim", "claimed", "open"} BY <1>1, <1>4, WorkSteps
  <2>2. owned[a][r] = instance BY <2>1 DEF KnowInv, Bound
  <2>3. ~Disown(a, r) BY <2>1 DEF Disown, Work
  <2>4. r \notin batch[a] BY <2>1 DEF KnowInv, OwnInv, Batches, Rested
  <2>5. ~Leave(a) /\ ~Kill(a) BY <1>1 DEF Leave, Kill, Exit, TypeOK
  <2>6. QED BY <1>1, <1>2, <1>4, <2>2, <2>3, <2>4, <2>5, OwnedSteps
<1>5. QED BY <1>3, <1>4

LEMMA StaysAlone ==
  ASSUME KnowInv, Reliable, [Next]_vars
  PROVE  Alone'
<1> SUFFICES ASSUME NEW a \in Apps, NEW b \in Apps, a # b, link'[a] = "settling", link'[b] = "settling"
             PROVE  FALSE
  BY DEF Alone
<1>1. TypeOK BY DEF KnowInv, OwnInv
<1>2. ASSUME NEW c \in Apps, NEW d \in Apps, c # d, Connect(c), link'[d] = "settling" PROVE FALSE
  BY <1>1, <1>2 DEF Connect, LogFree, TypeOK
<1>3. link[a] = "settling" /\ link[b] = "settling" BY <1>1, <1>2, LinkSteps
<1>4. QED BY <1>3 DEF KnowInv, Alone

LEMMA StaysLinked ==
  ASSUME KnowInv, Reliable, [Next]_vars
  PROVE  Linked'
<1>1. TypeOK BY DEF KnowInv, OwnInv
<1> SUFFICES ASSUME NEW a \in Apps
             PROVE  /\ link'[a] # "none" => Running(a)'
                    /\ link'[a] # "settling" => rpc'[a] = "none" /\ got'[a] = {} /\ adopted'[a] = {}
                    /\ rpc'[a] # "served" => got'[a] = {}
                    /\ rpc'[a] = "none" => reading'[a] = NoApp
                    /\ got'[a] \cup adopted'[a] # {} => remote'
                    /\ batch'[a] # {} => link'[a] # "settling" /\ phase'[a] # "cleaning"
                    /\ phase'[a] \in {"cleaning", "leaving"} => link'[a] # "settling"
  BY DEF Linked
<1>2. /\ link[a] # "none" => Running(a)
      /\ link[a] # "settling" => rpc[a] = "none" /\ got[a] = {} /\ adopted[a] = {}
      /\ rpc[a] # "served" => got[a] = {}
      /\ rpc[a] = "none" => reading[a] = NoApp
      /\ got[a] \cup adopted[a] # {} => remote
      /\ batch[a] # {} => link[a] # "settling" /\ phase[a] # "cleaning"
      /\ phase[a] \in {"cleaning", "leaving"} => link[a] # "settling"
  BY DEF KnowInv, Linked
<1>3. link'[a] # "none" => Running(a)'
  <2>1. CASE Leave(a) \/ Kill(a) BY <1>1, <2>1 DEF Leave, Kill, Exit, TypeOK
  <2>2. CASE Connect(a) BY <2>2 DEF Connect, Running
  <2>3. CASE Connected(a) BY <1>2, <2>3 DEF Connected, Running, Quitting
  <2>4. CASE link'[a] = link[a] /\ ~Leave(a) /\ ~Kill(a)
    <3>1. SUFFICES ASSUME Running(a) PROVE Running(a)'
      BY <1>2, <2>4
    <3>2. QED BY <1>1, <2>4, <3>1, PhaseSteps DEF Running, Quitting
  <2>5. QED BY <1>1, <2>1, <2>2, <2>3, <2>4, LinkSteps
<1>4. rpc'[a] = "none" => reading'[a] = NoApp BY <1>1, <1>2, ReadingSteps
<1>5. got'[a] \cup adopted'[a] # {} => remote'
  <2>1. remote' = remote BY InstanceSteps
  <2>2. ServeAdopt(a) => remote BY DEF ServeAdopt
  <2>3. QED BY <1>1, <1>2, <2>1, <2>2, GrantSteps
<1>6. ASSUME WriteRecord(a) \/ ConnectFails(a) \/ Leave(a) \/ Kill(a) \/ Restart PROVE got'[a] = {}
  BY <1>1, <1>6 DEF WriteRecord, ConnectFails, Leave, Kill, Exit, ForgetSettling, Restart, TypeOK
<1>7. ASSUME SettlementDone(a) PROVE rpc[a] = "sent"
  BY <1>7, OwnershipAssumption DEF SettlementDone, CloseDone, KnowInv, OwnInv, Asking
<1>8. rpc'[a] # "served" => got'[a] = {}
  <2>1. SUFFICES ASSUME rpc'[a] # "served" PROVE got'[a] = {}
    OBVIOUS
  <2>2. CASE rpc[a] = "served"
    <3>1. CASE CloseFails /\ closing.caller = a
      <4>1. closing.owner = a => rpc'[a] = "served" BY <2>2, <3>1, OwnershipAssumption DEF CloseFails
      <4>2. closing.owner # a => got'[a] = {}
        BY <1>1, <3>1, OwnershipAssumption DEF CloseFails, ForgetSettling, TypeOK
      <4>3. QED BY <2>1, <4>1, <4>2
    <3>2. QED BY <1>1, <1>6, <1>7, <2>1, <2>2, <3>1, ReadingSteps
  <2>3. CASE rpc[a] # "served"
    <3>1. got[a] = {} BY <1>2, <2>3
    <3>2. ~ServeAdopt(a) BY <1>1, <2>1 DEF ServeAdopt, TypeOK
    <3>3. QED BY <1>1, <3>1, <3>2, GrantSteps
  <2>4. QED BY <2>2, <2>3
<1>9. link'[a] # "settling" => rpc'[a] = "none" /\ got'[a] = {} /\ adopted'[a] = {}
  <2>1. SUFFICES ASSUME link'[a] # "settling" PROVE rpc'[a] = "none" /\ got'[a] = {} /\ adopted'[a] = {}
    OBVIOUS
  <2>2. CASE link'[a] = link[a]
    <3>1. rpc[a] = "none" /\ got[a] = {} /\ adopted[a] = {} BY <1>2, <2>1, <2>2
    <3>2. \A j \in Apps : ~SettleRecord(a, j) BY <2>1, <2>2 DEF SettleRecord
    <3>3. ~ServeAdopt(a) /\ ~WriteRecord(a) BY <3>1 DEF ServeAdopt, WriteRecord
    <3>4. rpc'[a] = "none" BY <1>1, <1>7, <3>1, <3>2, <3>3, ReadingSteps
    <3>5. QED BY <1>1, <3>1, <3>3, <3>4, GrantSteps
  <2>3. CASE Disconnect(a) BY <1>2, <2>3 DEF Disconnect
  <2>4. CASE Connected(a) BY <1>1, <1>2, <2>4 DEF Connected, TypeOK
  <2>5. CASE ConnectFails(a) \/ Leave(a) \/ Kill(a) \/ Restart
    BY <1>1, <2>5 DEF ConnectFails, Leave, Kill, Exit, ForgetSettling, Restart, TypeOK
  <2>6. CASE CloseFails /\ closing.caller = a /\ closing.owner # a
    BY <1>1, <2>6, OwnershipAssumption DEF CloseFails, ForgetSettling, TypeOK
  <2>7. QED BY <1>1, <2>1, <2>2, <2>3, <2>4, <2>5, <2>6, LinkSteps
<1>10. link'[a] = "settling" => link[a] = "settling" \/ Connect(a) BY <1>1, LinkSteps
<1>11. Connect(a) => phase[a] = "up" /\ phase'[a] = "up" BY DEF Connect
<1>12. batch'[a] # {} => link'[a] # "settling" /\ phase'[a] # "cleaning"
  <2>1. SUFFICES ASSUME batch'[a] # {} PROVE link'[a] # "settling" /\ phase'[a] # "cleaning"
    OBVIOUS
  <2>2. CASE batch'[a] = batch[a]
    <3>1. phase[a] # "up" BY <2>1, <2>2 DEF KnowInv, OwnInv, Batches, Rested, Past
    <3>2. ~Wait(a) BY <2>1, <2>2 DEF Wait
    <3>3. QED BY <1>1, <1>2, <1>10, <1>11, <2>1, <2>2, <3>1, <3>2, PhaseSteps
  <2>3. CASE Clean(a) BY <1>1, <1>2, <2>3 DEF Clean, Step, TypeOK
  <2>4. CASE \E r \in Resources : CloseTab(a, r) BY <2>4 DEF CloseTab
  <2>5. QED BY <1>1, <2>1, <2>2, <2>3, <2>4, BatchSteps
<1>13. phase'[a] \in {"cleaning", "leaving"} => link'[a] # "settling"
  <2>1. Wait(a) => link'[a] # "settling"
    BY ReliableIsOrderly DEF Wait, InFlight, Orderly
  <2>2. QED BY <1>1, <1>2, <1>10, <1>11, <2>1, PhaseSteps
<1>14. QED BY <1>3, <1>4, <1>5, <1>8, <1>9, <1>12, <1>13
\* The next look of a close request under way.
LEMMA ClosingProgress ==
  ASSUME KnowInv, closing # NoClosing,
         \/ CloseHeld
         \/ \E r \in Resources : Check(r)
  PROVE  /\ closing'.owner = closing.owner /\ closing'.caller = closing.caller
         /\ closing'.at \in closing'.todo \cup {NoResource}
         /\ \A r \in closing.todo \ closing'.todo : owner[r] # closing.owner \/ r \notin live'
         /\ UNCHANGED <<remote, instance, batch, record>>
<1>1. closing \in [owner : Apps, caller : Apps \cup {NoApp}, todo : SUBSET Resources,
                   at : Resources \cup {NoResource}]
  BY DEF KnowInv, OwnInv, TypeOK, Closings
<1>2. CASE CloseHeld
  <2>1. /\ closing'.owner = closing.owner /\ closing'.caller = closing.caller
        /\ closing'.at = NoResource /\ closing'.todo = closing.todo \ {closing.at}
    BY <1>1, <1>2 DEF CloseHeld
  <2>2. closing.at \notin live' BY <1>2 DEF CloseHeld
  <2>3. QED BY <1>2, <2>1, <2>2 DEF CloseHeld
<1>3. ASSUME NEW r \in Resources, Check(r), owner[r] = closing.owner
      PROVE  /\ closing'.owner = closing.owner /\ closing'.caller = closing.caller
             /\ closing'.at \in closing'.todo /\ closing'.todo = closing.todo
  BY <1>1, <1>3 DEF Check
<1>4. ASSUME NEW r \in Resources, Check(r), owner[r] # closing.owner
      PROVE  /\ closing'.owner = closing.owner /\ closing'.caller = closing.caller
             /\ closing'.at = NoResource /\ closing'.todo = closing.todo \ {r}
  BY <1>1, <1>4 DEF Check
<1>5. ASSUME NEW r \in Resources, Check(r) PROVE UNCHANGED <<remote, instance, batch, record>>
  BY <1>5 DEF Check
<1>6. QED BY <1>2, <1>3, <1>4, <1>5

LEMMA NothingToClose ==
  ASSUME closing = NoClosing
  PROVE  /\ ~CloseHeld /\ \A r \in Resources : ~Check(r)
         /\ [closing EXCEPT !.caller = NoApp] = NoClosing
BY DEF CloseHeld, Check, NoClosing

LEMMA StaysLooking ==
  ASSUME KnowInv, Reliable, [Next]_vars
  PROVE  Looking'
<1>1. TypeOK /\ Lates BY DEF KnowInv, OwnInv
<1>2. CASE CloseHeld \/ \E r \in Resources : Check(r)
  BY <1>2, ClosingProgress, NothingToClose DEF Looking
<1>3. CASE closing' = closing BY <1>3 DEF KnowInv, Looking
<1>4. CASE closing' = [closing EXCEPT !.caller = NoApp]
  <2>1. closing'.at = closing.at /\ closing'.todo = closing.todo
    BY <1>1, <1>4 DEF TypeOK, Closings, NoClosing
  <2>2. QED BY <2>1 DEF KnowInv, Looking
<1>5. CASE closing' = NoClosing BY <1>5 DEF Looking, NoClosing
<1>6. ASSUME NEW for, NEW caller, NEW on, Begin(for, caller, on) PROVE Looking'
  BY <1>6 DEF Begin, Looking
<1>7. CASE \E a \in Apps : ServeCleanup(a) \/ ServeSettlement(a)
  BY <1>6, <1>7 DEF ServeCleanup, ServeSettlement
<1>8. QED BY <1>1, <1>2, <1>3, <1>4, <1>5, <1>6, <1>7, ClosingSteps

LEMMA StaysCleaned ==
  ASSUME KnowInv, Reliable, [Next]_vars
  PROVE  Cleaned'
<1> DEFINE o == closing'.owner
<1> SUFFICES ASSUME closing' # NoClosing, closing'.caller = o
             PROVE  /\ batch'[o] # {}
                    /\ \A r \in batch'[o] \ closing'.todo : ~(r \in live' /\ owner'[r] = o)
  BY DEF Cleaned, Mine
<1>1. TypeOK /\ Lates /\ OwnInv BY DEF KnowInv, OwnInv
<1>2. ASSUME closing # NoClosing, o = closing.owner, closing'.caller = closing.caller
      PROVE  /\ o \in Apps /\ batch[o] # {} /\ batch[o] \in SUBSET Resources
             /\ \A r \in batch[o] \ closing.todo : ~Mine(o, r)
  BY <1>1, <1>2 DEF KnowInv, Cleaned, TypeOK, Closings
<1>3. CASE closing # NoClosing /\ closing' = closing
  <2>1. o \in Apps /\ batch[o] # {} /\ batch[o] \in SUBSET Resources BY <1>2, <1>3
  <2>2. ~Clean(o) BY <2>1 DEF Clean, Step, KnowInv, Linked
  <2>3. \A r \in Resources : ~CloseTab(o, r) BY <2>1 DEF CloseTab
  <2>4. ~Leave(o) /\ ~Kill(o)
    <3>1. SUFFICES ASSUME Leave(o) \/ Kill(o) PROVE FALSE
      OBVIOUS
    <3>2. closing' = [closing EXCEPT !.caller = NoApp] BY <1>3, <3>1 DEF Leave, Kill, Exit, Abandoned
    <3>3. closing'.caller = NoApp BY <1>1, <1>3, <3>2 DEF TypeOK, Closings
    <3>4. QED BY <2>1, <3>3, OwnershipAssumption
  <2>5. ~CleanupDone(o) /\ ~CloseFails /\ ~Restart BY DEF CleanupDone, CloseDone, CloseFails, Restart
  <2>6. batch'[o] = batch[o] BY <1>1, <2>1, <2>2, <2>3, <2>4, <2>5, BatchSteps
  <2>7. QED BY <1>1, <1>2, <1>3, <2>1, <2>6, MineShrinks
<1>4. CASE closing # NoClosing /\ (CloseHeld \/ \E r \in Resources : Check(r))
  <2>1. /\ o = closing.owner /\ closing'.caller = closing.caller /\ UNCHANGED batch
        /\ \A r \in closing.todo \ closing'.todo : owner[r] # closing.owner \/ r \notin live'
    BY <1>4, ClosingProgress
  <2>2. /\ o \in Apps /\ batch[o] # {} /\ batch[o] \in SUBSET Resources
        /\ \A r \in batch[o] \ closing.todo : ~Mine(o, r)
    BY <1>2, <1>4, <2>1
  <2>3. ASSUME NEW r \in batch[o] \ closing'.todo PROVE ~(r \in live' /\ owner'[r] = o)
    BY <1>1, <1>4, <2>1, <2>2, <2>3, MineShrinks DEF Mine
  <2>4. QED BY <2>1, <2>2, <2>3
<1>5. ASSUME closing' = [closing EXCEPT !.caller = NoApp] PROVE FALSE
  <2>1. closing # NoClosing BY <1>5, NothingToClose
  <2>2. closing \in [owner : Apps, caller : Apps \cup {NoApp}, todo : SUBSET Resources,
                     at : Resources \cup {NoResource}]
    BY <1>1, <2>1 DEF TypeOK, Closings
  <2>3. closing'.owner \in Apps /\ closing'.caller = NoApp BY <1>5, <2>2
  <2>4. QED BY <2>3, OwnershipAssumption
<1>6. ASSUME NEW a \in Apps, ServeCleanup(a)
      PROVE  /\ batch'[o] # {}
             /\ \A r \in batch'[o] \ closing'.todo : ~(r \in live' /\ owner'[r] = o)
  BY <1>6 DEF ServeCleanup, Begin
<1>7. ASSUME NEW a \in Apps, ServeSettlement(a) PROVE FALSE
  <2>1. reading[a] = a /\ rpc[a] = "sent" BY <1>7 DEF ServeSettlement, Begin
  <2>2. link[a] = "settling" BY <2>1 DEF KnowInv, Linked
  <2>3. Running(a) BY <2>2 DEF KnowInv, Linked
  <2>4. phase[a] \in Over BY <1>1, <2>1, OwnershipAssumption DEF OwnInv, Readings
  <2>5. QED BY <2>3, <2>4 DEF Running, Quitting, Over
<1>8. ASSUME NEW m \in late, Begin(m.app, NoApp, m.on) PROVE FALSE
  <2>1. m \in Requests /\ m.kind = "cleanup" BY <1>1, <1>8 DEF TypeOK, Lates
  <2>2. m.app \in Apps BY <2>1 DEF Requests
  <2>3. QED BY <1>8, <2>2, OwnershipAssumption DEF Begin
<1>9. QED BY <1>1, <1>3, <1>4, <1>5, <1>6, <1>7, <1>8, ClosingSteps, NothingToClose

LEMMA StaysSettling ==
  ASSUME KnowInv, Reliable, [Next]_vars
  PROVE  Settling'
<1> DEFINE o == closing'.owner
<1> SUFFICES ASSUME closing' # NoClosing, closing'.caller \notin {NoApp, o}
             PROVE  /\ ~remote'
                    /\ \A r \in Resources :
                         record'[o][r] = instance' /\ r \notin closing'.todo => ~(r \in live' /\ owner'[r] = o)
  BY DEF Settling, Mine, OfInstance
<1>1. TypeOK /\ Lates /\ OwnInv BY DEF KnowInv, OwnInv
<1>2. UNCHANGED <<remote, instance>>
  <2>1. ~Restart BY DEF Restart
  <2>2. QED BY <2>1, InstanceSteps
<1>3. ASSUME closing # NoClosing, o = closing.owner, closing'.caller = closing.caller
      PROVE  /\ o \in Apps /\ ~remote /\ phase[o] \in Over
             /\ \A r \in Resources : record[o][r] = instance /\ r \notin closing.todo => ~Mine(o, r)
  <2>1. o \in Apps /\ closing.caller \in Apps BY <1>1, <1>3 DEF TypeOK, Closings
  <2>2. reading[closing.caller] = o BY <1>3 DEF KnowInv, OwnInv, Asking
  <2>3. phase[o] \in Over BY <2>1, <2>2, OwnershipAssumption DEF KnowInv, OwnInv, Readings
  <2>4. QED BY <1>3, <2>1, <2>3 DEF KnowInv, Settling, OfInstance
<1>4. CASE closing # NoClosing /\ closing' = closing
  <2>1. o \in Apps /\ phase[o] \in Over BY <1>3, <1>4
  <2>2. ~Record(o) /\ ~Leave(o) BY <2>1 DEF Record, Leave, Step, Over
  <2>3. record'[o] = record[o] \/ record'[o] = Nothing BY <1>1, <2>1, <2>2, RecordSteps
  <2>4. \A r \in Resources : Nothing[r] # instance BY <1>1, OwnershipAssumption DEF Nothing, TypeOK
  <2>5. QED BY <1>1, <1>2, <1>3, <1>4, <2>1, <2>3, <2>4, MineShrinks
<1>5. CASE closing # NoClosing /\ (CloseHeld \/ \E r \in Resources : Check(r))
  <2>1. /\ o = closing.owner /\ closing'.caller = closing.caller /\ UNCHANGED <<remote, instance, record>>
        /\ \A r \in closing.todo \ closing'.todo : owner[r] # closing.owner \/ r \notin live'
    BY <1>5, ClosingProgress
  <2>2. /\ o \in Apps /\ ~remote
        /\ \A r \in Resources : record[o][r] = instance /\ r \notin closing.todo => ~Mine(o, r)
    BY <1>3, <1>5, <2>1
  <2>3. ASSUME NEW r \in Resources, record[o][r] = instance, r \notin closing'.todo
        PROVE  ~(r \in live' /\ owner'[r] = o)
    BY <1>1, <1>5, <2>1, <2>2, <2>3, MineShrinks DEF Mine
  <2>4. QED BY <2>1, <2>2, <2>3
<1>6. ASSUME closing' = [closing EXCEPT !.caller = NoApp] PROVE FALSE
  BY <1>1, <1>6 DEF TypeOK, Closings, NoClosing
<1>7. ASSUME NEW a \in Apps, ServeCleanup(a) PROVE FALSE BY <1>7 DEF ServeCleanup, Begin
<1>8. ASSUME NEW a \in Apps, ServeSettlement(a)
      PROVE  /\ ~remote'
             /\ \A r \in Resources :
                  record'[o][r] = instance' /\ r \notin closing'.todo => ~(r \in live' /\ owner'[r] = o)
  <2>1. o = reading[a] /\ closing'.todo = {r \in Resources : record[o][r] = instance}
    BY <1>8 DEF ServeSettlement, Begin, OfInstance
  <2>2. QED BY <1>8, <2>1 DEF ServeSettlement
<1>9. ASSUME NEW m \in late, Begin(m.app, NoApp, m.on) PROVE FALSE BY <1>9 DEF Begin
<1>10. QED BY <1>1, <1>4, <1>5, <1>6, <1>7, <1>8, <1>9, ClosingSteps, NothingToClose
\* What an App was granted stays with it until it is entered as owned.
LEMMA GrantsKept ==
  ASSUME KnowInv, Reliable, [Next]_vars, NEW a \in Apps, NEW r \in got[a] \cup adopted[a],
         ~Connected(a), ~Leave(a), ~Kill(a), ~Restart
  PROVE  r \in got'[a] \cup adopted'[a]
<1>1. TypeOK BY DEF KnowInv, OwnInv
<1>2. link[a] = "settling" /\ remote BY DEF KnowInv, Linked
<1>3. ~Connect(a) BY <1>2 DEF Connect
<1>4. ServeAdopt(a) => got[a] = {} BY DEF ServeAdopt, KnowInv, Linked
<1>5. ~ConnectFails(a) BY ReliableIsOrderly DEF ConnectFails
<1>6. ~(CloseFails /\ closing.caller = a /\ closing.owner # a)
  <2>1. SUFFICES ASSUME CloseFails, closing.caller = a, closing.owner # a PROVE FALSE
    OBVIOUS
  <2>2. closing # NoClosing BY <2>1 DEF CloseFails, NoClosing
  <2>3. closing.caller \notin {NoApp, closing.owner} BY <2>1, OwnershipAssumption
  <2>4. QED BY <1>2, <2>2, <2>3 DEF KnowInv, Settling
<1>7. QED BY <1>1, <1>3, <1>4, <1>5, <1>6, GrantSteps

LEMMA StaysKnown ==
  ASSUME KnowInv, Reliable, [Next]_vars
  PROVE  Known'
<1> SUFFICES ASSUME NEW a \in Apps, NEW r \in Resources, r \in live', owner'[r] = a, Running(a)'
             PROVE  owned'[a][r] = instance' \/ r \in got'[a] \cup adopted'[a]
  BY DEF Known, Mine
<1>1. TypeOK /\ OwnInv BY DEF KnowInv, OwnInv
<1>2. ~Restart BY DEF Restart
<1>3. instance' = instance BY <1>2, InstanceSteps
<1>4. ~Leave(a) /\ ~Kill(a) BY <1>1 DEF Leave, Kill, Running, Quitting, TypeOK
<1>5. CASE ServeOpen(a, r) /\ work[a][r] = "open" BY <1>3, <1>5 DEF ServeOpen, KnowInv, Bound
<1>6. CASE ServeClaim(a, r) /\ work[a][r] = "claim" BY <1>3, <1>6 DEF ServeClaim, KnowInv, Bound
<1>7. CASE ServeAdopt(a) /\ r \in Adoption(a) BY <1>1, <1>7 DEF ServeAdopt, TypeOK
<1>8. CASE Mine(a, r)
  <2>1. Running(a)
    <3>1. ~Launch(a) BY <1>8 DEF Launch, KnowInv, Fresh, Mine
    <3>2. QED BY <1>1, <3>1, PhaseSteps DEF Running, Quitting
  <2>2. CASE r \in got[a] \cup adopted[a]
    <3>1. CASE Connected(a)
      <4>1. r \in adopted[a] BY <2>2, <3>1 DEF Connected, KnowInv, Linked
      <4>2. QED BY <1>1, <1>3, <3>1, <4>1 DEF Connected, WithAdopted, TypeOK
    <3>2. CASE ~Connected(a) BY <1>2, <1>4, <2>2, <3>2, GrantsKept
    <3>3. QED BY <3>1, <3>2
  <2>3. CASE owned[a][r] = instance
    <3>1. CASE Disown(a, r)
      <4>1. work[a][r] = "unowned" BY <3>1 DEF Disown, Work
      <4>2. r \in got[a] \cup adopted[a] BY <1>8, <4>1 DEF KnowInv, Unowned
      <4>3. QED BY <2>2, <4>2
    <3>2. ASSUME CleanupDone(a), r \in batch[a] PROVE FALSE
      BY <1>8, <3>2, OwnershipAssumption DEF CleanupDone, CloseDone, KnowInv, Cleaned
    <3>3. QED BY <1>1, <1>3, <1>4, <2>3, <3>1, <3>2, OwnedSteps
  <2>4. QED BY <1>8, <2>1, <2>2, <2>3 DEF KnowInv, Known
<1>9. QED BY <1>1, <1>5, <1>6, <1>7, <1>8, MineSteps

LEMMA StaysUnowned ==
  ASSUME KnowInv, Reliable, [Next]_vars
  PROVE  Unowned'
<1> SUFFICES ASSUME NEW a \in Apps, NEW r \in Resources, work'[a][r] = "unowned", r \in live', owner'[r] = a
             PROVE  r \in got'[a] \cup adopted'[a]
  BY DEF Unowned, Mine
<1>1. TypeOK /\ OwnInv BY DEF KnowInv, OwnInv
<1>2. ~ServeClose(a, r) BY DEF ServeClose
<1>3. ~ServeOpen(a, r)
  <2>1. SUFFICES ASSUME ServeOpen(a, r) PROVE FALSE
    OBVIOUS
  <2>2. CASE Work(a, r, "open", "idle") BY <1>1, <2>2 DEF Work, TypeOK
  <2>3. CASE r \notin live /\ UNCHANGED live BY <2>3
  <2>4. QED BY <2>1, <2>2, <2>3 DEF ServeOpen
<1>4. work[a][r] = "unowned" BY <1>1, <1>2, <1>3, WorkSteps
<1>5. ~Connected(a) BY <1>4 DEF Connected
<1>6. ~Leave(a) /\ ~Kill(a) /\ ~Restart BY <1>1 DEF Leave, Kill, Exit, Restart, TypeOK
<1>7. CASE ServeAdopt(a) /\ r \in Adoption(a) BY <1>1, <1>7 DEF ServeAdopt, TypeOK
<1>8. CASE Mine(a, r)
  <2>1. r \in got[a] \cup adopted[a] BY <1>4, <1>8 DEF KnowInv, Unowned
  <2>2. QED BY <1>5, <1>6, <2>1, GrantsKept
<1>9. QED BY <1>1, <1>4, <1>7, <1>8, MineSteps

LEMMA StaysFresh ==
  ASSUME KnowInv, Reliable, [Next]_vars
  PROVE  Fresh'
<1> SUFFICES ASSUME NEW a \in Apps, phase'[a] = "off", NEW r \in Resources PROVE owner'[r] # a
  BY DEF Fresh
<1>1. TypeOK /\ OwnInv /\ Lates BY DEF KnowInv, OwnInv
<1>2. phase[a] = "off" BY <1>1, PhaseSteps
<1>3. owner[r] # a BY <1>2 DEF KnowInv, Fresh
<1>4. ~ServeClaim(a, r) BY <1>1, <1>2 DEF ServeClaim, Work, OwnInv, Idling
<1>5. ~ServeAdopt(a)
  <2>1. ~Running(a) BY <1>2 DEF Running, Quitting
  <2>2. QED BY <2>1 DEF ServeAdopt, KnowInv, Linked
<1>6. Restart => owner'[r] = NoApp BY DEF Restart
<1>7. QED BY <1>1, <1>3, <1>4, <1>5, <1>6, OwnerSteps, OwnershipAssumption

LEMMA KnowInvStarts ==
  ASSUME Init
  PROVE  KnowInv
BY OwnInvStarts, OwnershipAssumption DEF Init, KnowInv, Bound, Alone, Linked, Looking, Cleaned, Settling, Known,
   Unowned, Fresh, NoClosing, Mine

LEMMA KnowInvKept ==
  ASSUME KnowInv, Reliable, [Next]_vars
  PROVE  KnowInv'
<1>1. OwnInv' BY ReliableIsOrderly, OwnInvKept DEF KnowInv
<1>2. QED
  BY <1>1, StaysBound, StaysAlone, StaysLinked, StaysLooking, StaysCleaned, StaysSettling, StaysKnown,
     StaysUnowned, StaysFresh DEF KnowInv

\* A running App knows what the daemon counts as its own: the entry is made
\* before the claim is sent, and dropped only once the daemon has closed what it
\* was for (claim_resource, owned_instances and quit of the desktop host).
THEOREM AppsKnowTheirs ==
  ASSUME Reliable
  PROVE  Spec => []KnownOrRecorded
<1>1. KnowInv /\ [Next]_vars => KnowInv' BY KnowInvKept
<1>2. KnowInv => KnownOrRecorded
  <2>1. KnowInv => live \subseteq Resources BY DEF KnowInv, OwnInv, TypeOK
  <2>2. QED BY <2>1 DEF KnowInv, Known, Mine, KnownOrRecorded
<1>3. QED BY <1>1, <1>2, KnowInvStarts, PTL DEF Spec

\* The same of the run's own specification.
THEOREM OwnIsKnown ==
  ASSUME Reliable
  PROVE  MCSpec => []OwnKnown
<1> DEFINE Inv == wide \/ KnowInv
<1>1. MCInit => Inv BY KnowInvStarts DEF MCInit
<1>2. Inv /\ [MCNext]_<<vars, wide>> => Inv' BY NarrowSteps, KnowInvKept
<1>3. Inv => OwnKnown
  <2>1. KnowInv => live \subseteq Resources BY DEF KnowInv, OwnInv, TypeOK
  <2>2. QED BY <2>1 DEF OwnKnown, KnowInv, Known, Mine, KnownOrRecorded
<1>4. QED BY <1>1, <1>2, <1>3, PTL DEF MCSpec

-----------------------------------------------------------------------------
(* What an App leaves behind.  No window is open: with "log" the record may  *)
(* not be written at all.                                                    *)

NoWindow == Windows = {}

\* A record is dropped only when nothing it names is its owner's any longer.
Settled ==
  \A a \in Apps : rpc[a] = "served" /\ phase[reading[a]] = "gone" =>
    \A r \in Resources : ~Mine(reading[a], r)
Left ==
  \A a \in Apps, r \in Resources : Mine(a, r) /\ phase[a] = "gone" => record[a][r] = instance

LeftInv == KnowInv /\ Left /\ Settled

LEMMA GoneStayAway ==
  ASSUME KnowInv, [Next]_vars, NEW a \in Apps, phase[a] \in Over,
         NEW r \in Resources, r \in live', owner'[r] = a
  PROVE  Mine(a, r)
<1>1. OwnInv BY DEF KnowInv
<1>2. work[a][r] = "idle" BY DEF KnowInv, OwnInv, Idling, Over
<1>3. ~ServeAdopt(a)
  <2>1. ~Running(a) BY DEF Running, Quitting, Over
  <2>2. QED BY <2>1 DEF ServeAdopt, KnowInv, Linked
<1>4. QED BY <1>1, <1>2, <1>3, MineSteps

LEMMA StaysLeft ==
  ASSUME LeftInv, NoWindow, [Next]_vars
  PROVE  Left'
<1> SUFFICES ASSUME NEW a \in Apps, NEW r \in Resources, r \in live', owner'[r] = a, phase'[a] = "gone"
             PROVE  record'[a][r] = instance'
  BY DEF Left, Mine
<1>1. TypeOK /\ OwnInv /\ KnowInv BY DEF LeftInv, KnowInv, OwnInv
<1>2. instance' = instance
  <2>1. ~Restart BY DEF Restart
  <2>2. QED BY <2>1, InstanceSteps
<1>3. CASE Leave(a)
  <2>1. Mine(a, r) /\ Running(a) BY <1>3 DEF Leave, Exit, Mine, Running, Quitting
  <2>2. LogFree /\ record'[a] = owned[a] BY <1>1, <1>3 DEF Leave, Persisted, NoWindow, TypeOK
  <2>3. got[a] = {} /\ adopted[a] = {} BY <1>1, <2>2 DEF LogFree, KnowInv, Linked
  <2>4. QED BY <1>1, <1>2, <2>1, <2>2, <2>3 DEF KnowInv, Known
<1>4. CASE phase[a] = "gone"
  <2>1. Mine(a, r) BY <1>1, <1>4, GoneStayAway DEF Over
  <2>2. record[a][r] = instance BY <1>4, <2>1 DEF LeftInv, Left
  <2>3. \A b \in Apps : ~DropRecord(b, a) BY <2>2 DEF DropRecord, OfInstance
  <2>4. \A b \in Apps : ~(WriteRecord(b) /\ reading[b] = a)
    BY <1>4, <2>1 DEF WriteRecord, LeftInv, Settled
  <2>5. ~Record(a) /\ ~Leave(a) BY <1>4 DEF Record, Leave, Step
  <2>6. QED BY <1>1, <1>2, <2>2, <2>3, <2>4, <2>5, RecordSteps
<1>5. QED BY <1>1, <1>3, <1>4, PhaseSteps

LEMMA StaysSettled ==
  ASSUME LeftInv, NoWindow, [Next]_vars
  PROVE  Settled'
<1> SUFFICES ASSUME NEW a \in Apps, rpc'[a] = "served", phase'[reading'[a]] = "gone", NEW r \in Resources,
                    r \in live', owner'[r] = reading'[a]
             PROVE  FALSE
  BY DEF Settled, Mine
<1>1. TypeOK /\ OwnInv /\ KnowInv BY DEF LeftInv, KnowInv, OwnInv
<1>2. ASSUME SettlementDone(a)
      PROVE  /\ rpc[a] = "sent" /\ reading[a] = closing.owner
             /\ \A q \in OfInstance(record[reading[a]]) : ~Mine(reading[a], q)
  BY <1>1, <1>2, OwnershipAssumption DEF SettlementDone, CloseDone, KnowInv, OwnInv, Asking, Settling
<1>3. rpc[a] # "none" /\ reading'[a] = reading[a] BY <1>1, <1>2, ReadingSteps
<1>4. reading[a] \in Apps /\ phase[reading[a]] \in Over
  BY <1>1, <1>3 DEF OwnInv, Readings, TypeOK
<1>5. phase[reading[a]] = "gone" BY <1>1, <1>3, <1>4, StaysOver
<1>6. Mine(reading[a], r) BY <1>1, <1>3, <1>4, GoneStayAway
<1>7. record[reading[a]][r] = instance BY <1>4, <1>5, <1>6 DEF LeftInv, Left
<1>8. CASE rpc[a] = "served" BY <1>5, <1>6, <1>8 DEF LeftInv, Settled
<1>9. CASE ServeAdopt(a)
  <2>1. r \in Adoption(a) BY <1>6, <1>7 DEF Adoption, Adoptable, OfInstance, Mine
  <2>2. owner'[r] = a BY <1>9, <2>1 DEF ServeAdopt
  <2>3. Running(a) BY <1>1, <1>9 DEF ServeAdopt, KnowInv, Linked
  <2>4. QED BY <1>3, <1>4, <2>2, <2>3 DEF Running, Quitting, Over
<1>10. CASE SettlementDone(a) BY <1>2, <1>6, <1>7, <1>10 DEF OfInstance
<1>11. QED BY <1>1, <1>8, <1>9, <1>10, ReadingSteps

LEMMA LeftInvStarts ==
  ASSUME Init
  PROVE  LeftInv
BY KnowInvStarts DEF Init, LeftInv, Left, Settled, Mine

LEMMA LeftInvKept ==
  ASSUME LeftInv, NoWindow, [Next]_vars
  PROVE  LeftInv'
<1>1. Reliable BY DEF NoWindow, Reliable
<1>2. QED BY <1>1, KnowInvKept, StaysLeft, StaysSettled DEF LeftInv

LEMMA LeftIsRecoverable ==
  ASSUME LeftInv
  PROVE  Recoverable
BY DEF LeftInv, KnowInv, OwnInv, TypeOK, Left, Mine, Recoverable

\* What an App that quit has left open is in its record, so that the next
\* connection closes or adopts it (pending_close.rs, persist and drain).
THEOREM LeftoversKept ==
  ASSUME NoWindow
  PROVE  Spec => []Recoverable
<1>1. LeftInv /\ [Next]_vars => LeftInv' BY LeftInvKept
<1>2. QED BY <1>1, LeftInvStarts, LeftIsRecoverable, PTL DEF Spec

\* The same of the run's own specification.
THEOREM LeftoversAreRecorded ==
  ASSUME NoWindow
  PROVE  MCSpec => []LeftoversRecorded
<1> DEFINE Inv == wide \/ LeftInv
<1>1. MCInit => Inv BY LeftInvStarts DEF MCInit
<1>2. Inv /\ [MCNext]_<<vars, wide>> => Inv' BY NarrowSteps, LeftInvKept
<1>3. Inv => LeftoversRecorded BY LeftIsRecoverable DEF LeftoversRecorded
<1>4. QED BY <1>1, <1>2, <1>3, PTL DEF MCSpec
=============================================================================
