----------------------------- MODULE SessionProofs -----------------------------
(***************************************************************************)
(* The session actor, for every set of requests, every capacity of the     *)
(* queue and either agent.  First what it does to its rows and its memory; *)
(* then what it knows of itself: its stored status, its turn, the flag     *)
(* others read, the queue that runs by itself; then what it promises       *)
(* others: it implements PromptDelivery, and messages stranded by a bad    *)
(* end do not start by themselves.  Each invariant holds at first, and     *)
(* every action preserves it.                                              *)
(***************************************************************************)
EXTENDS SessionDelivery, QueueConsent, FiniteSetTheorems, TLAPS

USE DEF durable, memory, adapter, supervision, process, turn, queueVars

\* The number of messages that wait is a natural number, and so is that of all
\* requests: reordering and the ranks of new rows stay within Nat.
LEMMA CardinalitiesAreNat ==
  /\ Cardinality(Requests) \in Nat
  /\ Cardinality(Pending) \in Nat
<1>1. IsFiniteSet(Requests) BY ConstantsAssumption
<1>2. Pending \subseteq Requests BY DEF Pending
<1>3. IsFiniteSet(Pending) BY <1>1, <1>2, FS_Subset
<1>4. QED BY <1>1, <1>3, FS_CardinalityType

USE DEF Statuses, RowStates, Locations, Phases, ResetProcess, CloseProcess, Receive, Select

LEMMA InitData == Init => DataOK
BY ConstantsAssumption DEF Init, DataOK

\* What the three operators that rewrite the rows return.
LEMMA RewrittenRows ==
  ASSUME DataOK, NEW ids
  PROVE  /\ Quarantined \in [Requests -> RowStates]
         /\ Consumed(ids) \in [Requests -> RowStates]
BY DEF DataOK, Quarantined, Consumed

\* Writing a prompt counts it.
LEMMA WrittenType ==
  ASSUME sent \in [Requests -> Nat], NEW r
  PROVE  Written(r) \in [Requests -> Nat]
<1>1. CASE r \in Requests BY <1>1 DEF Written
<1>2. CASE r \notin Requests
  <2>1. ASSUME NEW x \in Requests PROVE Written(r)[x] = sent[x] BY <1>2, <2>1 DEF Written
  <2>2. QED BY <1>2, <2>1 DEF Written
<1>3. QED BY <1>1, <1>2

LEMMA ClientData ==
  ASSUME DataOK, Client
  PROVE  DataOK'
<1> USE DEF DataOK
<1>1. CASE StartActor BY <1>1 DEF StartActor
<1>2. CASE Refuse BY <1>2 DEF Refuse
<1>3. CASE Open BY <1>3 DEF Open
<1>4. CASE RenameTitle BY <1>4 DEF RenameTitle
<1>5. CASE StopHandedOff BY <1>5, RewrittenRows, ConstantsAssumption DEF StopHandedOff
<1>6. CASE StopTurn BY <1>6 DEF StopTurn
<1>7. CASE StopNothing BY <1>7 DEF StopNothing
<1>8. CASE Reorder BY <1>8, CardinalitiesAreNat DEF Reorder
<1>9. CASE Clear BY <1>9 DEF Clear
<1>10. CASE Resume BY <1>10 DEF Resume, Pending
<1>11. CASE Answer BY <1>11, ConstantsAssumption DEF Answer, AnsweredStatus
<1>12. CASE Close BY <1>12, RewrittenRows, ConstantsAssumption DEF Close, EndActor
<1>13. CASE CloseIfIdle BY <1>13, ConstantsAssumption DEF CloseIfIdle, EndActor
<1>14. ASSUME NEW r \in Requests, HandOff(r) PROVE DataOK' BY <1>14 DEF HandOff
<1>15. ASSUME NEW r \in Requests, Withdraw(r) PROVE DataOK' BY <1>15 DEF Withdraw
<1>16. ASSUME NEW r \in Requests, Edit(r) PROVE DataOK' BY <1>16, ConstantsAssumption DEF Edit
<1>17. ASSUME NEW r \in Requests, Enqueue(r) PROVE DataOK'
  BY <1>17, CardinalitiesAreNat DEF Enqueue, Numbers
<1>18. ASSUME NEW r \in Requests, SendNow(r) PROVE DataOK'
  BY <1>18, ConstantsAssumption DEF SendNow, BeginTurn
<1>19. ASSUME NEW r \in Requests, NEW interrupt \in BOOLEAN, SendImmediately(r, interrupt)
       PROVE DataOK'
  <2>1. immediate' \in [id : Requests, revision : 0..MaxRevision,
                         restore : {"no", "sending", "held"}]
    BY <1>19 DEF SendImmediately
  <2>2. CASE forwarded # {} BY <1>19, <2>1, <2>2, RewrittenRows, ConstantsAssumption DEF SendImmediately
  <2>3. CASE forwarded = {} BY <1>19, <2>1, <2>3, ConstantsAssumption DEF SendImmediately
  <2>4. QED BY <2>2, <2>3
<1>20. QED
  BY <1>1, <1>2, <1>3, <1>4, <1>5, <1>6, <1>7, <1>8, <1>9, <1>10, <1>11, <1>12, <1>13, <1>14,
     <1>15, <1>16, <1>17, <1>18, <1>19 DEF Client

LEMMA NativeData ==
  ASSUME DataOK, Native
  PROVE  DataOK'
<1> USE ConstantsAssumption DEF DataOK
<1>1. CASE NativeReady BY <1>1, WrittenType DEF NativeReady
<1>2. CASE NativeTurnStarted BY <1>2 DEF NativeTurnStarted
<1>3. ASSUME NEW ids, NEW failed \in BOOLEAN, FinishTurn(ids, failed) PROVE DataOK'
  BY <1>3, RewrittenRows DEF FinishTurn
<1>4. CASE NativeResult \/ NativeIdleResult BY <1>3, <1>4 DEF NativeResult, NativeIdleResult
<1>5. CASE NativeAsk BY <1>5 DEF NativeAsk, RoomToAsk
<1>6. CASE NativeInterrupted BY <1>6 DEF NativeInterrupted
<1>7. CASE NativeRenamed BY <1>7 DEF NativeRenamed
<1>8. CASE NativeLost BY <1>8 DEF NativeLost
<1>9. ASSUME NEW r \in Requests, NativeInputSettled(r) PROVE DataOK'
  BY <1>9, RewrittenRows DEF NativeInputSettled
<1>10. ASSUME NEW r \in Requests, NativeSteered(r) PROVE DataOK' BY <1>10 DEF NativeSteered
<1>11. ASSUME NEW r \in Requests, NativeRejected(r) PROVE DataOK'
  BY <1>11 DEF NativeRejected, SentBack
<1>12. QED
  BY <1>1, <1>2, <1>4, <1>5, <1>6, <1>7, <1>8, <1>9, <1>10, <1>11 DEF Native

LEMMA TailData ==
  ASSUME DataOK, Tail \/ Deadlines
  PROVE  DataOK'
<1> USE DEF DataOK
<1>1. CASE Fail BY <1>1, RewrittenRows, ConstantsAssumption DEF Fail
<1>2. CASE Settle BY <1>2, RewrittenRows DEF Settle, StillOpening
<1>3. CASE ResolveImmediate
  <2>1. CASE ~ImmediateDue /\ pc' = "auto" BY <1>3, <2>1 DEF ResolveImmediate
  <2>2. CASE ImmediateDue /\ pc' = "auto" BY <1>3, <2>2 DEF ResolveImmediate, BeginTurn
  <2>3. CASE ImmediateDue /\ pc' # "auto"
    <3>1. immediate.id \in Requests BY <2>3, ConstantsAssumption DEF ImmediateDue
    <3>2. QED BY <1>3, <2>3, <3>1, ConstantsAssumption DEF ResolveImmediate, BeginTurn
  <2>4. QED BY <1>3, <2>1, <2>2, <2>3 DEF ResolveImmediate
<1>4. CASE StartTurn
  <2>1. /\ <<accepted, queueVars, pause, prev, memory, outcome>>'
            = <<accepted, queueVars, pause, prev, memory, outcome>>
        /\ current' = NoRequest /\ origin' = "none"
    BY <1>4 DEF StartTurn
  <2>2. pc' \in Locations /\ phase' \in Phases
    BY <1>4 DEF StartTurn
  <2>3. sent' \in [Requests -> Nat]
    BY <1>4, WrittenType DEF StartTurn
  <2>4. status' \in Statuses /\ pending' \in 0..MaxPending
    BY <1>4, ConstantsAssumption DEF StartTurn
  <2>5. /\ prompt' \in Requests \cup {NoRequest}
        /\ unacked' \subseteq Requests /\ steered' \subseteq Requests
    BY <1>4 DEF StartTurn
  <2>6. QED BY <2>1, <2>2, <2>3, <2>4, <2>5
<1>5. CASE AfterImmediate
  <2>1. pause' \in {"no", "sending", "held"} BY <1>5 DEF AfterImmediate, NoImmediate
  <2>2. QED BY <1>5, <2>1 DEF AfterImmediate
<1>6. CASE DrainQueue BY <1>6, ConstantsAssumption DEF DrainQueue, BeginTurn
<1>7. CASE QueueError BY <1>7, RewrittenRows DEF QueueError
<1>8. CASE Flag BY <1>8 DEF Flag
<1>9. CASE WriteHandoff BY <1>9, WrittenType DEF WriteHandoff
<1>10. CASE InitTimeout \/ TurnTimeout \/ HandoffTimeout
  BY <1>10 DEF InitTimeout, TurnTimeout, HandoffTimeout
<1>11. CASE ImmediateTimeout
  <2>1. pause' \in {"no", "sending", "held"} BY <1>11 DEF ImmediateTimeout, NoImmediate
  <2>2. QED BY <1>11, <2>1 DEF ImmediateTimeout
<1>12. QED
  BY <1>1, <1>2, <1>3, <1>4, <1>5, <1>6, <1>7, <1>8, <1>9, <1>10, <1>11 DEF Tail, Deadlines

LEMMA FlagsType ==
  ASSUME FlagsOK, [Next]_vars
  PROVE  FlagsOK'
<1> USE DEF FlagsOK
<1>1. CASE Client
  <2>1. CASE StartActor BY <2>1, Zenon DEF StartActor
  <2>2. CASE Refuse BY <2>2, Zenon DEF Refuse
  <2>3. CASE Open BY <2>3, Zenon DEF Open
  <2>4. CASE RenameTitle BY <2>4, Zenon DEF RenameTitle
  <2>5. CASE StopHandedOff BY <2>5, Zenon DEF StopHandedOff
  <2>6. CASE StopTurn BY <2>6, Zenon DEF StopTurn
  <2>7. CASE StopNothing BY <2>7, Zenon DEF StopNothing
  <2>8. CASE Reorder \/ Clear \/ Resume BY <2>8, Zenon DEF Reorder, Clear, Resume
  <2>9. CASE Answer BY <2>9, Zenon DEF Answer
  <2>10. CASE Close \/ CloseIfIdle BY <2>10, Zenon DEF Close, CloseIfIdle, EndActor
  <2>11. ASSUME NEW r \in Requests, HandOff(r) \/ Withdraw(r) \/ Edit(r) \/ Enqueue(r)
         PROVE FlagsOK'
    BY <2>11, Zenon DEF HandOff, Withdraw, Edit, Enqueue
  <2>12. ASSUME NEW r \in Requests, SendNow(r) PROVE FlagsOK'
    BY <2>12, Zenon DEF SendNow, BeginTurn
  <2>13. ASSUME NEW r \in Requests, NEW interrupt \in BOOLEAN, SendImmediately(r, interrupt)
         PROVE FlagsOK'
    BY <2>13, Zenon DEF SendImmediately
  <2>14. QED
    BY <1>1, <2>1, <2>2, <2>3, <2>4, <2>5, <2>6, <2>7, <2>8, <2>9, <2>10, <2>11, <2>12, <2>13
    DEF Client
<1>2. CASE Native
  <2>1. CASE NativeReady BY <2>1, Zenon DEF NativeReady, MayOwe
  <2>2. CASE NativeTurnStarted BY <2>2, Zenon DEF NativeTurnStarted
  <2>3. ASSUME NEW ids, NEW failed, FinishTurn(ids, failed) PROVE FlagsOK'
    BY <2>3, Zenon DEF FinishTurn, MayOwe
  <2>4. CASE NativeResult \/ NativeIdleResult BY <2>3, <2>4, Zenon DEF NativeResult, NativeIdleResult
  <2>5. CASE NativeAsk BY <2>5, Zenon DEF NativeAsk
  <2>6. CASE NativeInterrupted \/ NativeRenamed \/ NativeLost
    BY <2>6, Zenon DEF NativeInterrupted, NativeRenamed, NativeLost
  <2>7. ASSUME NEW r \in Requests, NativeInputSettled(r) \/ NativeSteered(r) \/ NativeRejected(r)
        PROVE FlagsOK'
    BY <2>7, Zenon DEF NativeInputSettled, NativeSteered, NativeRejected
  <2>8. QED BY <1>2, <2>1, <2>2, <2>4, <2>5, <2>6, <2>7 DEF Native
<1>3. CASE Deadlines
  BY <1>3, Zenon DEF Deadlines, InitTimeout, TurnTimeout, HandoffTimeout, ImmediateTimeout
<1>4. CASE Tail
  <2>1. CASE Fail \/ QueueError BY <2>1, Zenon DEF Fail, QueueError
  <2>2. CASE Settle BY <2>2, Zenon DEF Settle, StillOpening
  <2>3. CASE ResolveImmediate BY <2>3, Zenon DEF ResolveImmediate, BeginTurn
  <2>4. CASE StartTurn BY <2>4, Zenon DEF StartTurn
  <2>5. CASE AfterImmediate BY <2>5, Zenon DEF AfterImmediate
  <2>6. CASE DrainQueue BY <2>6, Zenon DEF DrainQueue, BeginTurn
  <2>7. CASE Flag BY <2>7, Zenon DEF Flag
  <2>8. CASE WriteHandoff BY <2>8, Zenon DEF WriteHandoff
  <2>9. QED BY <1>4, <2>1, <2>2, <2>3, <2>4, <2>5, <2>6, <2>7, <2>8 DEF Tail
<1>5. CASE Crash \/ Restart BY <1>5, Zenon DEF Crash, Restart
<1>6. CASE UNCHANGED vars BY <1>6, Zenon DEF vars
<1>7. QED BY <1>1, <1>2, <1>3, <1>4, <1>5, <1>6, Zenon DEF Next

LEMMA NextData ==
  ASSUME TypeOK, [Next]_vars
  PROVE  DataOK'
<1> USE DEF TypeOK
<1>1. CASE Client BY <1>1, ClientData
<1>2. CASE Native BY <1>2, NativeData
<1>3. CASE Tail \/ Deadlines BY <1>3, TailData
<1>4. CASE Crash BY <1>4, ConstantsAssumption DEF Crash, DataOK
<1>5. CASE Restart BY <1>5, RewrittenRows DEF Restart, DataOK, RestartPause
<1>6. CASE UNCHANGED vars BY <1>6 DEF vars, DataOK
<1>7. QED BY <1>1, <1>2, <1>3, <1>4, <1>5, <1>6 DEF Next

LEMMA InitTypeOK == Init => TypeOK
<1>1. Init => FlagsOK BY Zenon DEF Init, FlagsOK
<1>2. QED BY <1>1, InitData DEF TypeOK

LEMMA NextType ==
  ASSUME TypeOK, [Next]_vars
  PROVE  TypeOK'
BY NextData, FlagsType DEF TypeOK

\* Every reachable state of a session is one the server's types allow: states,
\* revisions, ranks and the number of open interactions stay in their domains.
THEOREM TypeCorrect == Spec => []TypeOK
<1>1. Init => TypeOK BY InitTypeOK
<1>2. TypeOK /\ [Next]_vars => TypeOK' BY NextType
<1>3. QED BY <1>1, <1>2, PTL DEF Spec

-----------------------------------------------------------------------------
(* The messages in the hands of the CLI, and the message that is being sent *)
(* now.  The two facts need each other: sending now requires that nothing   *)
(* is handed off, which the actor knows only from its memory, and a handoff *)
(* requires that nothing is being sent now.                                 *)

HIDE DEF Statuses, RowStates, Locations, Phases

\* ImmediateOwnsRow, with the places where it holds a little longer: from the
\* commit of the immediate turn to the return of its start the row is gone.
ImmediateKept ==
  immediate # NoImmediate /\ ~(pc = "start" /\ origin = "immediate") /\ pc # "after" =>
    /\ row[immediate.id] = "pending" /\ revision[immediate.id] = immediate.revision
    /\ pause # "no" /\ Forwarded = {}

HandoffInv == TypeOK /\ HandoffAgreement /\ ImmediateKept

\* A step of the select that touches neither the queue nor these two memories.
LEMMA Undisturbed ==
  ASSUME HandoffInv, pc \in {"select", "absent", "flag"}, pc' \notin {"down", "start"},
         UNCHANGED <<row, revision, pause, forwarded, immediate>>
  PROVE  HandoffAgreement' /\ ImmediateKept'
<1>1. HandoffAgreement' BY DEF HandoffInv, HandoffAgreement, Forwarded
<1>2. ImmediateKept' BY DEF HandoffInv, ImmediateKept, Forwarded
<1>3. QED BY <1>1, <1>2

\* What the three operators that rewrite the rows leave in the CLI's hands.
LEMMA LeftForwarded ==
  ASSUME TypeOK
  PROVE  /\ row' = Quarantined => Forwarded' = {}
         /\ \A ids : row' = Consumed(ids) => Forwarded' = Forwarded \ ids
         /\ \A r \in Requests, v \in RowStates :
              row' = [row EXCEPT ![r] = v] =>
                Forwarded' = IF v = "forwarded" THEN Forwarded \cup {r} ELSE Forwarded \ {r}
<1> USE DEF TypeOK, DataOK, Forwarded, RowStates
<1>1. row' = Quarantined => Forwarded' = {} BY DEF Quarantined
<1>2. ASSUME NEW ids, row' = Consumed(ids) PROVE Forwarded' = Forwarded \ ids
  BY <1>2 DEF Consumed
<1>3. ASSUME NEW r \in Requests, NEW v \in RowStates, row' = [row EXCEPT ![r] = v]
      PROVE Forwarded' = IF v = "forwarded" THEN Forwarded \cup {r} ELSE Forwarded \ {r}
  BY <1>3
<1>4. QED BY <1>1, <1>2, <1>3

\* The commit of a turn takes one waiting or unknown message; nothing that is
\* in the CLI's hands moves.
LEMMA BeginTurnForwarded ==
  ASSUME TypeOK, NEW r \in Requests, NEW from, row[r] # "forwarded", BeginTurn(r, from)
  PROVE  Forwarded' = Forwarded
BY DEF TypeOK, DataOK, BeginTurn, Forwarded

\* With nothing being sent now, there is only the agreement to keep.
LEMMA NothingSentNow ==
  ASSUME immediate' = NoImmediate
  PROVE  ImmediateKept'
BY DEF ImmediateKept

LEMMA ClientHandoff ==
  ASSUME HandoffInv, Client
  PROVE  HandoffAgreement' /\ ImmediateKept'
<1> USE DEF HandoffInv
<1>1. CASE StartActor BY <1>1, Undisturbed DEF StartActor
<1>2. CASE Refuse BY <1>2, Undisturbed DEF Refuse
<1>3. CASE Open BY <1>3, Undisturbed DEF Open
<1>4. CASE RenameTitle BY <1>4, Undisturbed DEF RenameTitle
<1>5. CASE StopHandedOff
  <2>1. ImmediateKept' BY <1>5, NothingSentNow DEF StopHandedOff
  <2>2. HandoffAgreement' BY <1>5, LeftForwarded DEF StopHandedOff, HandoffAgreement
  <2>3. QED BY <2>1, <2>2
<1>6. CASE StopTurn \/ StopNothing
  <2>1. ImmediateKept' BY <1>6, NothingSentNow DEF StopTurn, StopNothing
  <2>2. HandoffAgreement'
    BY <1>6 DEF StopTurn, StopNothing, HandoffAgreement, Forwarded
  <2>3. QED BY <2>1, <2>2
<1>7. CASE Reorder \/ Clear \/ Resume
  <2>1. ImmediateKept' BY <1>7, NothingSentNow DEF Reorder, Clear, Resume, QueueFree
  <2>2. Forwarded' = Forwarded
    BY <1>7 DEF Reorder, Clear, Resume, Forwarded, TypeOK, DataOK
  <2>3. HandoffAgreement' BY <1>7, <2>2 DEF Reorder, Clear, Resume, HandoffAgreement
  <2>4. QED BY <2>1, <2>3
<1>8. CASE Answer BY <1>8, Undisturbed DEF Answer
<1>9. CASE Close
  <2>1. ImmediateKept' BY <1>9, NothingSentNow DEF Close, EndActor
  <2>2. HandoffAgreement' BY <1>9, LeftForwarded DEF Close, EndActor, HandoffAgreement
  <2>3. QED BY <2>1, <2>2
<1>10. CASE CloseIfIdle
  <2>1. ImmediateKept' BY <1>10, NothingSentNow DEF CloseIfIdle, EndActor
  <2>2. HandoffAgreement'
    BY <1>10 DEF CloseIfIdle, EndActor, AtRest, HandoffAgreement, Forwarded
  <2>3. QED BY <2>1, <2>2
<1>11. ASSUME NEW r \in Requests, HandOff(r) PROVE HandoffAgreement' /\ ImmediateKept'
  <2>1. ImmediateKept' BY <1>11, NothingSentNow DEF HandOff
  <2>2. Forwarded' = Forwarded \cup {r} BY <1>11, LeftForwarded DEF HandOff, RowStates
  <2>3. HandoffAgreement' BY <1>11, <2>2 DEF HandOff, HandoffAgreement
  <2>4. QED BY <2>1, <2>3
<1>12. ASSUME NEW r \in Requests, Withdraw(r) PROVE HandoffAgreement' /\ ImmediateKept'
  <2>1. ImmediateKept' BY <1>12, NothingSentNow DEF Withdraw, QueueFree
  <2>2. Forwarded' = Forwarded
    BY <1>12 DEF Withdraw, Forwarded, TypeOK, DataOK
  <2>3. HandoffAgreement' BY <1>12, <2>2 DEF Withdraw, HandoffAgreement
  <2>4. QED BY <2>1, <2>3
<1>13. ASSUME NEW r \in Requests, Edit(r) PROVE HandoffAgreement' /\ ImmediateKept'
  <2>1. ImmediateKept' BY <1>13, NothingSentNow DEF Edit, QueueFree
  <2>2. HandoffAgreement' BY <1>13 DEF Edit, HandoffAgreement, Forwarded
  <2>3. QED BY <2>1, <2>2
<1>14. ASSUME NEW r \in Requests, Enqueue(r) PROVE HandoffAgreement' /\ ImmediateKept'
  <2>1. Forwarded' = Forwarded
    BY <1>14 DEF Enqueue, Fresh, Forwarded, TypeOK, DataOK
  <2>2. HandoffAgreement' BY <1>14, <2>1 DEF Enqueue, HandoffAgreement
  <2>3. ASSUME immediate # NoImmediate
        PROVE  row[immediate.id] = "pending" /\ immediate.id \in Requests
    BY <1>14, <2>3 DEF Enqueue, ImmediateKept, TypeOK, DataOK
  <2>4. ImmediateKept'
    BY <1>14, <2>1, <2>3 DEF Enqueue, Fresh, ImmediateKept, TypeOK, DataOK
  <2>5. QED BY <2>2, <2>4
<1>15. ASSUME NEW r \in Requests, SendNow(r) PROVE HandoffAgreement' /\ ImmediateKept'
  <2>1. Forwarded' = Forwarded BY <1>15, BeginTurnForwarded DEF SendNow, Fresh
  <2>2. HandoffAgreement' BY <1>15, <2>1 DEF SendNow, BeginTurn, HandoffAgreement
  <2>3. ASSUME immediate # NoImmediate
        PROVE  immediate.id \in Pending
    BY <1>15, <2>3 DEF SendNow, ImmediateKept, Pending, TypeOK, DataOK
  <2>4. ASSUME immediate # NoImmediate
        PROVE  row'[immediate.id] = row[immediate.id]
    BY <1>15, <2>3, <2>4 DEF SendNow, Fresh, BeginTurn, Pending, TypeOK, DataOK
  <2>5. ImmediateKept'
    BY <1>15, <2>1, <2>3, <2>4 DEF SendNow, ImmediateKept
  <2>6. QED BY <2>2, <2>5
<1>16. ASSUME NEW r \in Requests, NEW interrupt \in BOOLEAN, SendImmediately(r, interrupt)
       PROVE  HandoffAgreement' /\ ImmediateKept'
  <2>1. CASE forwarded # {}
    <3>1. Forwarded' = {} BY <1>16, <2>1, LeftForwarded DEF SendImmediately
    <3>2. HandoffAgreement' BY <1>16, <2>1, <3>1 DEF SendImmediately, HandoffAgreement
    <3>3. row'[r] = "pending"
      BY <1>16, <2>1 DEF SendImmediately, Quarantined, TypeOK, DataOK
    <3>4. ImmediateKept' BY <1>16, <3>1, <3>3 DEF SendImmediately, ImmediateKept
    <3>5. QED BY <3>2, <3>4
  <2>2. CASE forwarded = {}
    <3>1. row' = row /\ forwarded' = forwarded BY <1>16, <2>2 DEF SendImmediately
    <3>2. pc = "select" /\ pc' # "down" BY <1>16, <2>2 DEF SendImmediately
    <3>3. Forwarded = {} /\ Forwarded' = {}
      BY <2>2, <3>1, <3>2 DEF HandoffAgreement, Forwarded
    <3>4. HandoffAgreement' BY <2>2, <3>1, <3>2, <3>3 DEF HandoffAgreement
    <3>5. ImmediateKept' BY <1>16, <3>1, <3>3 DEF SendImmediately, ImmediateKept
    <3>6. QED BY <3>4, <3>5
  <2>3. QED BY <2>1, <2>2
<1>17. QED
  BY <1>1, <1>2, <1>3, <1>4, <1>5, <1>6, <1>7, <1>8, <1>9, <1>10, <1>11, <1>12, <1>13, <1>14,
     <1>15, <1>16 DEF Client

\* A waiting message waits on when others are quarantined or settled.
LEMMA PendingKept ==
  ASSUME TypeOK, NEW r \in Requests, row[r] = "pending"
  PROVE  /\ row' = Quarantined => row'[r] = "pending"
         /\ \A ids : row' = Consumed(ids) => row'[r] = "pending"
BY DEF TypeOK, DataOK, Quarantined, Consumed

\* What is being sent now is a request.
LEMMA ImmediateIsRequest ==
  ASSUME TypeOK, immediate # NoImmediate
  PROVE  immediate.id \in Requests
BY DEF TypeOK, DataOK

LEMMA FinishHandoff ==
  ASSUME HandoffInv, NEW ids, NEW failed, FinishTurn(ids, failed)
  PROVE  HandoffAgreement' /\ ImmediateKept'
<1> USE DEF HandoffInv
<1>1. Forwarded' = Forwarded \ ids BY LeftForwarded DEF FinishTurn
<1>2. pc = "select" /\ pc' \in {"error", "settle"} BY DEF FinishTurn
<1>3. HandoffAgreement' BY <1>1, <1>2 DEF FinishTurn, HandoffAgreement
<1>4. ImmediateKept'
  <2>1. SUFFICES ASSUME immediate # NoImmediate PROVE ImmediateKept'
    BY NothingSentNow DEF FinishTurn
  <2>2. immediate.id \in Requests /\ row[immediate.id] = "pending" /\ Forwarded = {}
    BY <1>2, <2>1, ImmediateIsRequest DEF ImmediateKept
  <2>3. row'[immediate.id] = "pending" BY <2>2, PendingKept DEF FinishTurn
  <2>4. QED BY <1>1, <1>2, <2>1, <2>2, <2>3 DEF FinishTurn, ImmediateKept
<1>5. QED BY <1>3, <1>4

LEMMA NativeHandoff ==
  ASSUME HandoffInv, Native
  PROVE  HandoffAgreement' /\ ImmediateKept'
<1> USE DEF HandoffInv
<1>1. CASE NativeReady BY <1>1, Undisturbed DEF NativeReady
<1>2. CASE NativeTurnStarted BY <1>2, Undisturbed DEF NativeTurnStarted
<1>3. CASE NativeResult \/ NativeIdleResult
  BY <1>3, FinishHandoff DEF NativeResult, NativeIdleResult
<1>4. CASE NativeAsk BY <1>4, Undisturbed DEF NativeAsk
<1>5. CASE NativeInterrupted \/ NativeRenamed \/ NativeLost
  BY <1>5, Undisturbed DEF NativeInterrupted, NativeRenamed, NativeLost
<1>6. ASSUME NEW r \in Requests, NativeInputSettled(r)
      PROVE  HandoffAgreement' /\ ImmediateKept'
  <2>1. CASE row' = row /\ forwarded' = forwarded
    BY <1>6, <2>1, Undisturbed DEF NativeInputSettled
  <2>2. CASE row' = Consumed({r}) /\ forwarded' = forwarded \ {r}
    <3>1. Forwarded' = Forwarded \ {r} BY <2>2, LeftForwarded
    <3>2. HandoffAgreement' BY <1>6, <2>2, <3>1 DEF NativeInputSettled, HandoffAgreement
    <3>3. SUFFICES ASSUME immediate # NoImmediate PROVE ImmediateKept'
      BY <1>6, <3>2, NothingSentNow DEF NativeInputSettled
    <3>4. immediate.id \in Requests /\ row[immediate.id] = "pending" /\ Forwarded = {}
      BY <1>6, <3>3, ImmediateIsRequest DEF NativeInputSettled, ImmediateKept
    <3>5. row'[immediate.id] = "pending" BY <2>2, <3>4, PendingKept
    <3>6. QED BY <1>6, <3>1, <3>3, <3>4, <3>5 DEF NativeInputSettled, ImmediateKept
  <2>3. QED BY <1>6, <2>1, <2>2 DEF NativeInputSettled
<1>7. ASSUME NEW r \in Requests, NativeSteered(r)
      PROVE  HandoffAgreement' /\ ImmediateKept'
  BY <1>7, Undisturbed DEF NativeSteered
<1>8. ASSUME NEW r \in Requests, NativeRejected(r)
      PROVE  HandoffAgreement' /\ ImmediateKept'
  <2>1. CASE row[r] = "forwarded"
    <3>1. r \in Forwarded /\ immediate = NoImmediate
      BY <1>8, <2>1 DEF NativeRejected, ImmediateKept, Forwarded
    <3>2. Forwarded' = Forwarded \ {r}
      BY <1>8, <2>1, LeftForwarded DEF NativeRejected, SentBack, RowStates
    <3>3. HandoffAgreement' BY <1>8, <3>2 DEF NativeRejected, HandoffAgreement
    <3>4. ImmediateKept' BY <1>8, <3>1, NothingSentNow DEF NativeRejected
    <3>5. QED BY <3>3, <3>4
  <2>2. CASE row[r] # "forwarded"
    <3>1. r \notin forwarded
      BY <1>8, <2>2 DEF NativeRejected, HandoffAgreement, Forwarded
    <3>2. QED BY <1>8, <2>2, <3>1, Undisturbed DEF NativeRejected
  <2>3. QED BY <2>1, <2>2
<1>9. QED BY <1>1, <1>2, <1>3, <1>4, <1>5, <1>6, <1>7, <1>8 DEF Native

LEMMA TailHandoff ==
  ASSUME HandoffInv, Tail \/ Deadlines
  PROVE  HandoffAgreement' /\ ImmediateKept'
<1> USE DEF HandoffInv
<1>1. CASE Fail
  BY <1>1, LeftForwarded, NothingSentNow DEF Fail, HandoffAgreement
<1>2. CASE Settle
  <2>1. forwarded = Forwarded BY <1>2 DEF Settle, HandoffAgreement
  <2>2. row' = Quarantined \/ row' = row BY <1>2 DEF Settle
  <2>3. Forwarded' \subseteq Forwarded BY <2>2, LeftForwarded DEF Forwarded
  <2>4. HandoffAgreement'
    <3>1. CASE Ended /\ forwarded # {}
      BY <1>2, <3>1, LeftForwarded DEF Settle, HandoffAgreement
    <3>2. CASE ~Ended \/ forwarded = {}
      BY <1>2, <2>1, <3>2 DEF Settle, HandoffAgreement, Forwarded
    <3>3. QED BY <3>1, <3>2
  <2>5. SUFFICES ASSUME immediate # NoImmediate PROVE ImmediateKept'
    BY <1>2, <2>4, NothingSentNow DEF Settle
  <2>6. immediate.id \in Requests /\ row[immediate.id] = "pending" /\ Forwarded = {}
    BY <1>2, <2>5, ImmediateIsRequest DEF Settle, ImmediateKept
  <2>7. row'[immediate.id] = "pending" BY <2>2, <2>6, PendingKept
  <2>8. QED BY <1>2, <2>3, <2>5, <2>6, <2>7 DEF Settle, ImmediateKept
<1>3. CASE ResolveImmediate
  <2>1. pc = "immediate" /\ forwarded = Forwarded /\ forwarded' = forwarded
    BY <1>3 DEF ResolveImmediate, HandoffAgreement
  <2>2. CASE pc' = "auto" /\ row' = row /\ immediate' \in {immediate, NoImmediate}
    BY <1>3, <2>1, <2>2 DEF ResolveImmediate, HandoffAgreement, ImmediateKept, Forwarded
  <2>3. CASE ImmediateDue /\ BeginTurn(immediate.id, "immediate")
    <3>1. immediate.id \in Requests /\ row[immediate.id] = "pending"
      BY <2>1, <2>3, ImmediateIsRequest DEF ImmediateDue, ImmediateKept
    <3>2. Forwarded' = Forwarded BY <2>3, <3>1, BeginTurnForwarded
    <3>3. pc' = "start" /\ origin' = "immediate" BY <2>3 DEF BeginTurn
    <3>4. QED BY <2>1, <3>2, <3>3 DEF HandoffAgreement, ImmediateKept
  <2>4. QED BY <1>3, <2>2, <2>3 DEF ResolveImmediate
<1>4. CASE StartTurn
  <2>1. UNCHANGED <<row, revision, pause, forwarded, immediate>> BY <1>4 DEF StartTurn
  <2>2. /\ pc = "start" /\ pc' \notin {"start", "down", "error"}
        /\ origin = "immediate" => pc' = "after"
    BY <1>4 DEF StartTurn
  <2>3. QED BY <2>1, <2>2 DEF HandoffAgreement, ImmediateKept, Forwarded
<1>5. CASE AfterImmediate
  BY <1>5, NothingSentNow DEF AfterImmediate, HandoffAgreement, Forwarded
<1>6. CASE DrainQueue
  <2>1. pc = "auto" /\ forwarded = Forwarded /\ forwarded' = forwarded /\ immediate' = immediate
    BY <1>6 DEF DrainQueue, HandoffAgreement
  <2>2. CASE row' = row /\ pc' \in {"flag", "queueError"}
    BY <1>6, <2>1, <2>2 DEF DrainQueue, HandoffAgreement, ImmediateKept, Forwarded
  <2>3. ASSUME NEW r \in Requests, AutoDue, IsHead(r), BeginTurn(r, "auto")
        PROVE  HandoffAgreement' /\ ImmediateKept'
    <3>1. immediate = NoImmediate BY <2>1, <2>3 DEF AutoDue, ImmediateKept
    <3>2. row[r] = "pending" BY <2>3 DEF IsHead, Pending
    <3>3. Forwarded' = Forwarded BY <2>3, <3>2, BeginTurnForwarded
    <3>4. pc' = "start" BY <2>3 DEF BeginTurn
    <3>5. QED BY <2>1, <3>1, <3>3, <3>4, NothingSentNow DEF HandoffAgreement
  <2>4. QED BY <1>6, <2>2, <2>3 DEF DrainQueue
<1>7. CASE QueueError
  <2>1. Forwarded' = {} /\ HandoffAgreement'
    BY <1>7, LeftForwarded DEF QueueError, HandoffAgreement
  <2>2. SUFFICES ASSUME immediate # NoImmediate PROVE ImmediateKept'
    BY <1>7, <2>1, NothingSentNow DEF QueueError
  <2>3. immediate.id \in Requests /\ row[immediate.id] = "pending"
    BY <1>7, <2>2, ImmediateIsRequest DEF QueueError, ImmediateKept
  <2>4. row'[immediate.id] = "pending" BY <1>7, <2>3, PendingKept DEF QueueError
  <2>5. QED BY <1>7, <2>1, <2>2, <2>4 DEF QueueError, ImmediateKept
<1>8. CASE Flag BY <1>8, Undisturbed DEF Flag
<1>9. CASE WriteHandoff
  BY <1>9 DEF WriteHandoff, HandoffAgreement, ImmediateKept, Forwarded
<1>10. CASE InitTimeout \/ TurnTimeout \/ HandoffTimeout
  BY <1>10, Undisturbed DEF InitTimeout, TurnTimeout, HandoffTimeout
<1>11. CASE ImmediateTimeout
  BY <1>11, NothingSentNow DEF ImmediateTimeout, HandoffAgreement, Forwarded
<1>12. QED
  BY <1>1, <1>2, <1>3, <1>4, <1>5, <1>6, <1>7, <1>8, <1>9, <1>10, <1>11 DEF Tail, Deadlines

LEMMA NextHandoff ==
  ASSUME HandoffInv, [Next]_vars
  PROVE  HandoffInv'
<1> USE DEF HandoffInv
<1>1. TypeOK' BY NextType
<1>2. CASE Client BY <1>1, <1>2, ClientHandoff
<1>3. CASE Native BY <1>1, <1>3, NativeHandoff
<1>4. CASE Tail \/ Deadlines BY <1>1, <1>4, TailHandoff
<1>5. CASE Crash BY <1>1, <1>5, NothingSentNow DEF Crash, HandoffAgreement
<1>6. CASE Restart
  <2>1. Forwarded' = {} /\ HandoffAgreement'
    BY <1>6, LeftForwarded DEF Restart, HandoffAgreement
  <2>2. SUFFICES ASSUME immediate # NoImmediate PROVE ImmediateKept'
    BY <1>1, <1>6, <2>1, NothingSentNow DEF Restart
  <2>3. immediate.id \in Requests /\ row[immediate.id] = "pending"
    BY <1>6, <2>2, ImmediateIsRequest DEF Restart, ImmediateKept
  <2>4. row'[immediate.id] = "pending" BY <1>6, <2>3, PendingKept DEF Restart
  <2>5. QED BY <1>6, <2>1, <2>2, <2>4 DEF Restart, RestartPause, ImmediateKept
<1>7. CASE UNCHANGED vars
  BY <1>1, <1>7 DEF vars, HandoffAgreement, ImmediateKept, Forwarded
<1>8. QED BY <1>2, <1>3, <1>4, <1>5, <1>6, <1>7 DEF Next

\* The inductive invariant of this module.
LEMMA HandoffInvariant == Spec => []HandoffInv
<1>1. Init => HandoffInv
  BY InitTypeOK DEF Init, HandoffInv, HandoffAgreement, ImmediateKept, Forwarded
<1>2. HandoffInv /\ [Next]_vars => HandoffInv' BY NextHandoff
<1>3. QED BY <1>1, <1>2, PTL DEF Spec

\* The inputs the actor waits for are exactly the rows it stored as handed off,
\* whatever is sent, stopped, refused, settled, lost or restarted.
THEOREM HandoffsAgree == Spec => []HandoffAgreement
BY HandoffInvariant, PTL DEF HandoffInv

\* The message being sent now is in the queue as its sender saw it, nothing else
\* can start, and nothing else is in the CLI's hands.
THEOREM ImmediateKeepsRow == Spec => []ImmediateOwnsRow
<1>1. HandoffInv => ImmediateOwnsRow BY DEF HandoffInv, ImmediateKept, ImmediateOwnsRow
<1>2. QED BY <1>1, HandoffInvariant, PTL

-----------------------------------------------------------------------------
(* What is written to the CLI.  A prompt leaves the server from three        *)
(* places: the start of a turn, the end of the initialization for which the  *)
(* adapter kept it, and a handoff into a running turn.  The invariant says   *)
(* where an unwritten prompt may be at any moment.                           *)

\* A message in the CLI's hands never was the prompt of a turn.
HandedNotAccepted == \A r \in Requests : row[r] = "forwarded" => r \notin accepted

\* A request nobody has made was not written.
UnknownUnsent == \A r \in Requests : row[r] = "none" /\ r \notin accepted => sent[r] = 0

\* The adapter keeps a prompt exactly while it initializes for a turn.
KeptPromptUnsent ==
  /\ prompt # NoRequest => phase = "starting" /\ prompt \in accepted /\ sent[prompt] = 0
  /\ phase = "starting" => prompt \in Requests

\* Between a commit and the write it is for.
CommittedUnsent ==
  /\ pc = "start" => current \in accepted /\ sent[current] = 0 /\ phase \in {"none", "between"}
  /\ pc = "handoff" => current \in Requests /\ row[current] = "forwarded" /\ sent[current] = 0

SendInv ==
  /\ AtMostOnce /\ WithdrawnNeverSent /\ HandedNotAccepted /\ UnknownUnsent
  /\ KeptPromptUnsent /\ CommittedUnsent

DeliveryInv == HandoffInv /\ SendInv

\* Rows only move on: what waits is withdrawn, cancelled or stays, and what is
\* handed off is settled, given up or stays.
RowsMoveOn ==
  \A r \in Requests :
    \/ row'[r] = row[r]
    \/ row[r] = "pending" /\ row'[r] \in {"taken", "cancelled"}
    \/ row[r] = "forwarded" /\ row'[r] \in {"dispatched", "uncertain"}

\* The process keeps its prompt, or keeps none and does not initialize for one.
PromptMovesOn ==
  \/ UNCHANGED <<prompt, phase>>
  \/ prompt' = NoRequest /\ phase' # "starting"

\* A step that writes nothing, accepts nothing and adds nothing to the queue.
LEMMA NothingWritten ==
  ASSUME DeliveryInv, UNCHANGED <<accepted, sent>>, pc' \notin {"start", "handoff"},
         RowsMoveOn, PromptMovesOn
  PROVE  SendInv'
<1> USE DEF DeliveryInv, SendInv
<1>1. AtMostOnce' BY DEF AtMostOnce
<1>2. WithdrawnNeverSent'
  BY DEF RowsMoveOn, WithdrawnNeverSent
<1>3. HandedNotAccepted' BY DEF RowsMoveOn, HandedNotAccepted
<1>4. UnknownUnsent' BY DEF RowsMoveOn, UnknownUnsent
<1>5. KeptPromptUnsent' BY DEF PromptMovesOn, KeptPromptUnsent
<1>6. CommittedUnsent' BY DEF CommittedUnsent
<1>7. QED BY <1>1, <1>2, <1>3, <1>4, <1>5, <1>6

\* Quarantining and settling rows moves them on.
LEMMA SettledRowsMoveOn ==
  ASSUME TypeOK
  PROVE  /\ row' = row => RowsMoveOn
         /\ row' = Quarantined => RowsMoveOn
         /\ \A ids : row' = Consumed(ids) => RowsMoveOn
BY DEF TypeOK, DataOK, RowsMoveOn, Quarantined, Consumed

\* The commit of a turn: its prompt is accepted, and not yet written.
LEMMA BeginTurnDelivery ==
  ASSUME DeliveryInv, UNCHANGED sent, phase \in {"none", "between"},
         NEW r \in Requests, row[r] \in {"none", "pending"}, sent[r] = 0,
         NEW from, BeginTurn(r, from)
  PROVE  SendInv'
<1> USE DEF DeliveryInv, HandoffInv, SendInv, TypeOK, DataOK
<1>1. /\ row'[r] \in {"none", "dispatched"}
      /\ \A q \in Requests \ {r} : row'[q] = row[q]
      /\ accepted' = accepted \cup {r}
  BY DEF BeginTurn
<1>2. prompt' = NoRequest /\ phase' \in {"none", "between"}
  BY DEF BeginTurn, KeptPromptUnsent
<1>3. pc' = "start" /\ current' = r BY DEF BeginTurn
<1>4. AtMostOnce' BY DEF AtMostOnce
<1>5. WithdrawnNeverSent' BY <1>1 DEF WithdrawnNeverSent
<1>6. HandedNotAccepted' BY <1>1 DEF HandedNotAccepted
<1>7. UnknownUnsent' BY <1>1 DEF UnknownUnsent
<1>8. KeptPromptUnsent' BY <1>2 DEF KeptPromptUnsent
<1>9. CommittedUnsent' BY <1>1, <1>2, <1>3 DEF CommittedUnsent
<1>10. QED BY <1>4, <1>5, <1>6, <1>7, <1>8, <1>9

\* Writing an accepted, unwritten prompt.
LEMMA WriteDelivery ==
  ASSUME DeliveryInv, UNCHANGED <<accepted, row>>,
         NEW r \in Requests, sent[r] = 0, sent' = Written(r),
         r \in accepted \/ row[r] = "forwarded"
  PROVE  AtMostOnce' /\ WithdrawnNeverSent' /\ HandedNotAccepted' /\ UnknownUnsent'
<1> USE DEF DeliveryInv, HandoffInv, SendInv, TypeOK, DataOK
<1>1. sent'[r] = 1 /\ \A q \in Requests \ {r} : sent'[q] = sent[q] BY DEF Written
<1>2. AtMostOnce' BY <1>1 DEF AtMostOnce
<1>3. WithdrawnNeverSent' BY <1>1 DEF WithdrawnNeverSent
<1>4. HandedNotAccepted' BY DEF HandedNotAccepted
<1>5. UnknownUnsent' BY <1>1 DEF UnknownUnsent
<1>6. QED BY <1>2, <1>3, <1>4, <1>5

LEMMA ClientDelivery ==
  ASSUME DeliveryInv, Client
  PROVE  SendInv'
<1> USE DEF DeliveryInv, HandoffInv
<1>1. CASE StartActor
  BY <1>1, SettledRowsMoveOn, NothingWritten DEF StartActor, PromptMovesOn
<1>2. CASE Refuse BY <1>2, SettledRowsMoveOn, NothingWritten DEF Refuse, PromptMovesOn
<1>3. CASE Open
  <2>1. PromptMovesOn
    BY <1>3 DEF Open, PromptMovesOn, Alive, SendInv, KeptPromptUnsent
  <2>2. QED BY <1>3, <2>1, SettledRowsMoveOn, NothingWritten DEF Open
<1>4. CASE RenameTitle
  BY <1>4, SettledRowsMoveOn, NothingWritten DEF RenameTitle, PromptMovesOn
<1>5. CASE StopHandedOff
  BY <1>5, SettledRowsMoveOn, NothingWritten DEF StopHandedOff, PromptMovesOn
<1>6. CASE StopTurn
  BY <1>6, SettledRowsMoveOn, NothingWritten DEF StopTurn, PromptMovesOn
<1>7. CASE StopNothing
  BY <1>7, SettledRowsMoveOn, NothingWritten DEF StopNothing, PromptMovesOn
<1>8. CASE Reorder
  BY <1>8, SettledRowsMoveOn, NothingWritten DEF Reorder, PromptMovesOn
<1>9. CASE Clear
  <2>1. RowsMoveOn BY <1>9 DEF Clear, RowsMoveOn
  <2>2. QED BY <1>9, <2>1, NothingWritten DEF Clear, PromptMovesOn
<1>10. CASE Resume
  BY <1>10, SettledRowsMoveOn, NothingWritten DEF Resume, PromptMovesOn
<1>11. CASE Answer
  BY <1>11, SettledRowsMoveOn, NothingWritten DEF Answer, PromptMovesOn
<1>12. CASE Close
  BY <1>12, SettledRowsMoveOn, NothingWritten DEF Close, EndActor, PromptMovesOn
<1>13. CASE CloseIfIdle
  BY <1>13, SettledRowsMoveOn, NothingWritten DEF CloseIfIdle, EndActor, PromptMovesOn
<1>14. ASSUME NEW r \in Requests, HandOff(r) PROVE SendInv'
  <2> USE DEF SendInv, TypeOK, DataOK
  <2>1. /\ row[r] = "pending" /\ row'[r] = "forwarded"
        /\ \A q \in Requests \ {r} : row'[q] = row[q]
    BY <1>14 DEF HandOff
  <2>2. /\ UNCHANGED <<accepted, sent, prompt, phase>>
        /\ pc' = "handoff" /\ current' = r
    BY <1>14 DEF HandOff
  <2>3. sent[r] = 0 /\ r \notin accepted BY <2>1 DEF WithdrawnNeverSent
  <2>4. AtMostOnce' BY <2>2 DEF AtMostOnce
  <2>5. WithdrawnNeverSent' BY <2>1, <2>2 DEF WithdrawnNeverSent
  <2>6. HandedNotAccepted' BY <2>1, <2>2, <2>3 DEF HandedNotAccepted
  <2>7. UnknownUnsent' BY <2>1, <2>2 DEF UnknownUnsent
  <2>8. KeptPromptUnsent' BY <2>2 DEF KeptPromptUnsent
  <2>9. CommittedUnsent' BY <2>1, <2>2, <2>3 DEF CommittedUnsent
  <2>10. QED BY <2>4, <2>5, <2>6, <2>7, <2>8, <2>9
<1>15. ASSUME NEW r \in Requests, Withdraw(r) PROVE SendInv'
  <2>1. RowsMoveOn BY <1>15 DEF Withdraw, RowsMoveOn, TypeOK, DataOK
  <2>2. QED BY <1>15, <2>1, NothingWritten DEF Withdraw, PromptMovesOn
<1>16. ASSUME NEW r \in Requests, Edit(r) PROVE SendInv'
  BY <1>16, SettledRowsMoveOn, NothingWritten DEF Edit, PromptMovesOn
<1>17. ASSUME NEW r \in Requests, Enqueue(r) PROVE SendInv'
  <2> USE DEF SendInv, TypeOK, DataOK
  <2>1. /\ row[r] = "none" /\ r \notin accepted /\ row'[r] = "pending"
        /\ \A q \in Requests \ {r} : row'[q] = row[q]
    BY <1>17 DEF Enqueue, Fresh
  <2>2. /\ UNCHANGED <<accepted, sent, prompt, phase>>
        /\ pc' = "settle"
    BY <1>17 DEF Enqueue
  <2>3. sent[r] = 0 BY <2>1 DEF UnknownUnsent
  <2>4. AtMostOnce' BY <2>2 DEF AtMostOnce
  <2>5. WithdrawnNeverSent' BY <2>1, <2>2, <2>3 DEF WithdrawnNeverSent
  <2>6. HandedNotAccepted' BY <2>1, <2>2 DEF HandedNotAccepted
  <2>7. UnknownUnsent' BY <2>1, <2>2 DEF UnknownUnsent
  <2>8. KeptPromptUnsent' BY <2>2 DEF KeptPromptUnsent
  <2>9. CommittedUnsent' BY <2>2 DEF CommittedUnsent
  <2>10. QED BY <2>4, <2>5, <2>6, <2>7, <2>8, <2>9
<1>18. ASSUME NEW r \in Requests, SendNow(r) PROVE SendInv'
  <2>1. row[r] = "none" /\ sent[r] = 0 BY <1>18 DEF SendNow, Fresh, SendInv, UnknownUnsent
  <2>2. phase \in {"none", "between"}
    BY <1>18 DEF SendNow, Busy, Alive, CanStartTurn, AdapterIdle
  <2>3. BeginTurn(r, "send") /\ UNCHANGED sent BY <1>18 DEF SendNow
  <2>4. QED BY <2>1, <2>2, <2>3, BeginTurnDelivery
<1>19. ASSUME NEW r \in Requests, NEW interrupt \in BOOLEAN, SendImmediately(r, interrupt)
       PROVE  SendInv'
  <2>1. row' = Quarantined \/ row' = row BY <1>19 DEF SendImmediately
  <2>2. RowsMoveOn BY <2>1, SettledRowsMoveOn
  <2>3. PromptMovesOn BY <1>19 DEF SendImmediately, PromptMovesOn
  <2>4. UNCHANGED <<accepted, sent>> /\ pc' \in {"settle", "error"}
    BY <1>19 DEF SendImmediately
  <2>5. QED BY <2>2, <2>3, <2>4, NothingWritten
<1>20. QED
  BY <1>1, <1>2, <1>3, <1>4, <1>5, <1>6, <1>7, <1>8, <1>9, <1>10, <1>11, <1>12, <1>13, <1>14,
     <1>15, <1>16, <1>17, <1>18, <1>19 DEF Client

LEMMA NativeDelivery ==
  ASSUME DeliveryInv, Native
  PROVE  SendInv'
<1> USE DEF DeliveryInv, HandoffInv
<1>1. CASE NativeReady
  <2>1. CASE phase = "opening"
    <3>1. PromptMovesOn BY <1>1, <2>1 DEF NativeReady, PromptMovesOn, SendInv, KeptPromptUnsent
    <3>2. QED BY <1>1, <2>1, <3>1, SettledRowsMoveOn, NothingWritten DEF NativeReady
  <2>2. CASE phase = "starting"
    <3>1. prompt \in Requests /\ prompt \in accepted /\ sent[prompt] = 0
      BY <2>2, ConstantsAssumption DEF SendInv, KeptPromptUnsent
    <3>2. UNCHANGED <<accepted, row>> /\ sent' = Written(prompt) BY <1>1, <2>2 DEF NativeReady
    <3>3. AtMostOnce' /\ WithdrawnNeverSent' /\ HandedNotAccepted' /\ UnknownUnsent'
      BY <3>1, <3>2, WriteDelivery
    <3>4. KeptPromptUnsent' /\ CommittedUnsent'
      BY <1>1, <2>2 DEF NativeReady, KeptPromptUnsent, CommittedUnsent
    <3>5. QED BY <3>3, <3>4 DEF SendInv
  <2>3. QED BY <1>1, <2>1, <2>2 DEF NativeReady
<1>2. CASE NativeTurnStarted
  <2>1. PromptMovesOn
    BY <1>2 DEF NativeTurnStarted, PromptMovesOn, SendInv, KeptPromptUnsent
  <2>2. QED BY <1>2, <2>1, SettledRowsMoveOn, NothingWritten DEF NativeTurnStarted
<1>3. ASSUME NEW ids, NEW failed, FinishTurn(ids, failed), phase \in {"running", "between"}
      PROVE  SendInv'
  <2>1. PromptMovesOn BY <1>3 DEF FinishTurn, PromptMovesOn, SendInv, KeptPromptUnsent
  <2>2. RowsMoveOn BY <1>3, SettledRowsMoveOn DEF FinishTurn
  <2>3. UNCHANGED <<accepted, sent>> /\ pc' \in {"settle", "error"} BY <1>3 DEF FinishTurn
  <2>4. QED BY <2>1, <2>2, <2>3, NothingWritten
<1>4. CASE NativeResult \/ NativeIdleResult BY <1>3, <1>4 DEF NativeResult, NativeIdleResult
<1>5. CASE NativeAsk
  BY <1>5, SettledRowsMoveOn, NothingWritten DEF NativeAsk, PromptMovesOn
<1>6. CASE NativeInterrupted \/ NativeRenamed \/ NativeLost
  BY <1>6, SettledRowsMoveOn, NothingWritten
  DEF NativeInterrupted, NativeRenamed, NativeLost, PromptMovesOn
<1>7. ASSUME NEW r \in Requests, NativeInputSettled(r) PROVE SendInv'
  BY <1>7, SettledRowsMoveOn, NothingWritten DEF NativeInputSettled, PromptMovesOn
<1>8. ASSUME NEW r \in Requests, NativeSteered(r) PROVE SendInv'
  BY <1>8, SettledRowsMoveOn, NothingWritten DEF NativeSteered, PromptMovesOn
<1>9. ASSUME NEW r \in Requests, NativeRejected(r) PROVE SendInv'
  <2> USE DEF SendInv, TypeOK, DataOK
  <2>1. /\ sent'[r] = 0 /\ \A q \in Requests \ {r} : sent'[q] = sent[q]
        /\ row' = [row EXCEPT ![r] = IF row[r] = "forwarded" THEN "pending" ELSE row[r]]
        /\ UNCHANGED <<accepted, prompt, phase>> /\ pc' = "settle"
    BY <1>9 DEF NativeRejected, SentBack
  <2>2. ASSUME NEW q \in Requests
        PROVE  \/ row'[q] = row[q]
               \/ q = r /\ row[q] = "forwarded" /\ row'[q] = "pending"
    <3>1. CASE q = r BY <2>1, <3>1
    <3>2. CASE q # r BY <2>1, <3>2
    <3>3. QED BY <3>1, <3>2
  <2>3. ASSUME NEW q \in Requests PROVE sent'[q] <= sent[q] /\ (sent[q] = 0 => sent'[q] = 0)
    <3>1. sent[q] \in Nat OBVIOUS
    <3>2. sent'[q] = 0 \/ sent'[q] = sent[q] BY <2>1
    <3>3. QED BY <3>1, <3>2
  <2>4. AtMostOnce' BY <2>1, <2>3 DEF AtMostOnce
  <2>5. WithdrawnNeverSent'
    BY <2>1, <2>2, <2>3 DEF WithdrawnNeverSent, HandedNotAccepted
  <2>6. HandedNotAccepted' BY <2>1, <2>2 DEF HandedNotAccepted
  <2>7. UnknownUnsent' BY <2>1, <2>2, <2>3 DEF UnknownUnsent
  <2>8. KeptPromptUnsent'
    <3>1. prompt # NoRequest => prompt \in Requests OBVIOUS
    <3>2. QED BY <2>1, <2>3, <3>1 DEF KeptPromptUnsent
  <2>9. CommittedUnsent' BY <2>1 DEF CommittedUnsent
  <2>10. QED BY <2>4, <2>5, <2>6, <2>7, <2>8, <2>9
<1>10. QED BY <1>1, <1>2, <1>4, <1>5, <1>6, <1>7, <1>8, <1>9 DEF Native

LEMMA TailDelivery ==
  ASSUME DeliveryInv, Tail \/ Deadlines
  PROVE  SendInv'
<1> USE DEF DeliveryInv, HandoffInv
<1>1. CASE Fail
  BY <1>1, SettledRowsMoveOn, NothingWritten DEF Fail, PromptMovesOn
<1>2. CASE Settle
  <2>1. RowsMoveOn BY <1>2, SettledRowsMoveOn DEF Settle
  <2>2. QED BY <1>2, <2>1, NothingWritten DEF Settle, PromptMovesOn
<1>3. CASE ResolveImmediate
  <2>1. CASE row' = row /\ pc' = "auto" /\ UNCHANGED <<accepted, process>>
    BY <1>3, <2>1, SettledRowsMoveOn, NothingWritten DEF ResolveImmediate, PromptMovesOn
  <2>2. CASE ImmediateDue /\ (Alive => CanStartTurn) /\ BeginTurn(immediate.id, "immediate")
    <3>1. pc = "immediate" /\ UNCHANGED sent BY <1>3 DEF ResolveImmediate
    <3>2. immediate.id \in Requests /\ row[immediate.id] = "pending"
      BY <2>2, <3>1, ImmediateIsRequest DEF ImmediateDue, ImmediateKept
    <3>3. sent[immediate.id] = 0 BY <3>2 DEF SendInv, WithdrawnNeverSent
    <3>4. phase \in {"none", "between"} BY <2>2 DEF Alive, CanStartTurn, AdapterIdle
    <3>5. QED BY <2>2, <3>1, <3>2, <3>3, <3>4, BeginTurnDelivery
  <2>3. QED BY <1>3, <2>1, <2>2 DEF ResolveImmediate
<1>4. CASE StartTurn
  <2>1. /\ current \in Requests /\ current \in accepted /\ sent[current] = 0
        /\ phase \in {"none", "between"} /\ prompt = NoRequest
    BY <1>4, ConstantsAssumption
    DEF StartTurn, SendInv, CommittedUnsent, KeptPromptUnsent, TypeOK, DataOK
  <2>2. UNCHANGED <<accepted, row>> /\ pc' \notin {"start", "handoff"} BY <1>4 DEF StartTurn
  <2>3. CASE sent' = Written(current) /\ prompt' = NoRequest /\ phase' # "starting"
    <3>1. AtMostOnce' /\ WithdrawnNeverSent' /\ HandedNotAccepted' /\ UnknownUnsent'
      BY <2>1, <2>2, <2>3, WriteDelivery
    <3>2. KeptPromptUnsent' /\ CommittedUnsent'
      BY <2>2, <2>3 DEF KeptPromptUnsent, CommittedUnsent
    <3>3. QED BY <3>1, <3>2 DEF SendInv
  <2>4. CASE UNCHANGED sent /\ prompt' = NoRequest /\ phase' # "starting"
    BY <2>2, <2>4, SettledRowsMoveOn, NothingWritten DEF PromptMovesOn
  <2>5. CASE UNCHANGED sent /\ prompt' = current /\ phase' = "starting"
    <3>1. AtMostOnce' /\ WithdrawnNeverSent' /\ HandedNotAccepted' /\ UnknownUnsent'
      BY <2>2, <2>5
      DEF SendInv, AtMostOnce, WithdrawnNeverSent, HandedNotAccepted, UnknownUnsent
    <3>2. KeptPromptUnsent' /\ CommittedUnsent'
      BY <2>1, <2>2, <2>5 DEF KeptPromptUnsent, CommittedUnsent
    <3>3. QED BY <3>1, <3>2 DEF SendInv
  <2>6. QED BY <1>4, <2>1, <2>3, <2>4, <2>5 DEF StartTurn
<1>5. CASE AfterImmediate
  BY <1>5, SettledRowsMoveOn, NothingWritten DEF AfterImmediate, PromptMovesOn
<1>6. CASE DrainQueue
  <2>1. CASE row' = row /\ pc' \in {"flag", "queueError"} /\ UNCHANGED <<accepted, process>>
    BY <1>6, <2>1, SettledRowsMoveOn, NothingWritten DEF DrainQueue, PromptMovesOn
  <2>2. ASSUME NEW r \in Requests, AutoDue, IsHead(r), BeginTurn(r, "auto")
        PROVE  SendInv'
    <3>1. row[r] = "pending" BY <2>2 DEF IsHead, Pending
    <3>2. sent[r] = 0 BY <3>1 DEF SendInv, WithdrawnNeverSent
    <3>3. phase \in {"none", "between"} BY <2>2 DEF AutoDue, Alive, CanStartTurn, AdapterIdle
    <3>4. UNCHANGED sent BY <1>6 DEF DrainQueue
    <3>5. QED BY <2>2, <3>1, <3>2, <3>3, <3>4, BeginTurnDelivery
  <2>3. QED BY <1>6, <2>1, <2>2 DEF DrainQueue
<1>7. CASE QueueError
  BY <1>7, SettledRowsMoveOn, NothingWritten DEF QueueError, PromptMovesOn
<1>8. CASE Flag BY <1>8, SettledRowsMoveOn, NothingWritten DEF Flag, PromptMovesOn
<1>9. CASE WriteHandoff
  <2>1. current \in Requests /\ row[current] = "forwarded" /\ sent[current] = 0
    BY <1>9 DEF WriteHandoff, SendInv, CommittedUnsent
  <2>2. AtMostOnce' /\ WithdrawnNeverSent' /\ HandedNotAccepted' /\ UnknownUnsent'
    BY <1>9, <2>1, WriteDelivery DEF WriteHandoff
  <2>3. UNCHANGED <<accepted, phase, prompt>> /\ pc' \notin {"start", "handoff"}
    BY <1>9 DEF WriteHandoff
  <2>4. KeptPromptUnsent'
    BY <1>9, <2>1, <2>3
    DEF WriteHandoff, Written, SendInv, KeptPromptUnsent, HandedNotAccepted, TypeOK, DataOK
  <2>5. CommittedUnsent' BY <2>3 DEF CommittedUnsent
  <2>6. QED BY <2>2, <2>4, <2>5 DEF SendInv
<1>10. CASE Deadlines
  BY <1>10, SettledRowsMoveOn, NothingWritten
  DEF Deadlines, InitTimeout, TurnTimeout, HandoffTimeout, ImmediateTimeout, PromptMovesOn
<1>11. QED
  BY <1>1, <1>2, <1>3, <1>4, <1>5, <1>6, <1>7, <1>8, <1>9, <1>10 DEF Tail

LEMMA NextDelivery ==
  ASSUME DeliveryInv, [Next]_vars
  PROVE  DeliveryInv'
<1> USE DEF DeliveryInv, HandoffInv
<1>1. HandoffInv' BY NextHandoff
<1>2. CASE Client BY <1>1, <1>2, ClientDelivery
<1>3. CASE Native BY <1>1, <1>3, NativeDelivery
<1>4. CASE Tail \/ Deadlines BY <1>1, <1>4, TailDelivery
<1>5. CASE Crash
  BY <1>1, <1>5, SettledRowsMoveOn, NothingWritten DEF Crash, PromptMovesOn
<1>6. CASE Restart
  BY <1>1, <1>6, SettledRowsMoveOn, NothingWritten DEF Restart, PromptMovesOn
<1>7. CASE UNCHANGED vars
  <2>1. SendInv'
    BY <1>7 DEF vars, SendInv, AtMostOnce, WithdrawnNeverSent, HandedNotAccepted, UnknownUnsent,
                KeptPromptUnsent, CommittedUnsent
  <2>2. QED BY <1>1, <2>1
<1>8. QED BY <1>2, <1>3, <1>4, <1>5, <1>6, <1>7 DEF Next

\* The inductive invariant of this module.
LEMMA DeliveryInvariant == Spec => []DeliveryInv
<1>1. Init => DeliveryInv
  <2>1. Init => HandoffInv
    BY InitTypeOK DEF Init, HandoffInv, HandoffAgreement, ImmediateKept, Forwarded
  <2>2. Init => SendInv
    BY DEF Init, SendInv, AtMostOnce, WithdrawnNeverSent, HandedNotAccepted, UnknownUnsent,
           KeptPromptUnsent, CommittedUnsent
  <2>3. QED BY <2>1, <2>2 DEF DeliveryInv
<1>2. DeliveryInv /\ [Next]_vars => DeliveryInv' BY NextDelivery
<1>3. QED BY <1>1, <1>2, PTL DEF Spec

\* No prompt is written to a CLI twice unless the CLI refused it in between:
\* whatever is sent again, edited, handed off, stopped, crashed or restarted.
THEOREM PromptAtMostOnce == Spec => []AtMostOnce
<1>1. DeliveryInv => AtMostOnce BY DEF DeliveryInv, SendInv
<1>2. QED BY <1>1, DeliveryInvariant, PTL

\* What waits in the queue, was taken back or was cancelled is not with any CLI.
THEOREM WithdrawnStaysUnsent == Spec => []WithdrawnNeverSent
<1>1. DeliveryInv => WithdrawnNeverSent BY DEF DeliveryInv, SendInv
<1>2. QED BY <1>1, DeliveryInvariant, PTL

-----------------------------------------------------------------------------
(* The process, and what the actor remembers of it. *)

Cleared ==
  /\ prompt = NoRequest /\ unacked = {} /\ steered = {} /\ ~renaming
  /\ ~turnActive /\ ~stopping /\ ~ackPending /\ pending = 0

\* Without a process nothing is remembered of one; a turn is under way only in a
\* process that was given its prompt, or keeps it.
ProcessKept ==
  /\ phase = "none" => Cleared
  /\ steered # {} => phase = "running"
  /\ turnActive /\ pc # "error" => phase \in {"starting", "running"}
  /\ pc \in {"down", "absent"} => phase = "none" /\ immediate = NoImmediate /\ ~safe /\ forwarded = {}

LEMMA ClientProcess ==
  ASSUME TypeOK, ProcessKept, Client
  PROVE  ProcessKept'
<1> USE DEF ProcessKept, Cleared
<1>1. CASE StartActor BY <1>1 DEF StartActor
<1>2. CASE Refuse BY <1>2 DEF Refuse
<1>3. CASE Open BY <1>3 DEF Open, Alive, IsReady
<1>4. CASE RenameTitle BY <1>4 DEF RenameTitle, IsReady
<1>5. CASE StopHandedOff BY <1>5 DEF StopHandedOff
<1>6. CASE StopTurn BY <1>6 DEF StopTurn
<1>7. CASE StopNothing BY <1>7 DEF StopNothing
<1>8. CASE Reorder \/ Clear \/ Resume BY <1>8 DEF Reorder, Clear, Resume
<1>9. CASE Answer BY <1>9 DEF Answer
<1>10. CASE Close \/ CloseIfIdle BY <1>10 DEF Close, CloseIfIdle, EndActor
<1>11. ASSUME NEW r \in Requests, HandOff(r) PROVE ProcessKept' BY <1>11 DEF HandOff, IsReady
<1>12. ASSUME NEW r \in Requests, Withdraw(r) \/ Edit(r) \/ Enqueue(r) PROVE ProcessKept'
  BY <1>12 DEF Withdraw, Edit, Enqueue
<1>13. ASSUME NEW r \in Requests, SendNow(r) PROVE ProcessKept' BY <1>13 DEF SendNow, BeginTurn
<1>14. ASSUME NEW r \in Requests, NEW interrupt \in BOOLEAN, SendImmediately(r, interrupt)
       PROVE  ProcessKept'
  BY <1>14 DEF SendImmediately
<1>15. QED
  BY <1>1, <1>2, <1>3, <1>4, <1>5, <1>6, <1>7, <1>8, <1>9, <1>10, <1>11, <1>12, <1>13, <1>14
  DEF Client

LEMMA NativeProcess ==
  ASSUME TypeOK, ProcessKept, Native
  PROVE  ProcessKept'
<1> USE DEF ProcessKept, Cleared
<1>1. CASE NativeReady BY <1>1 DEF NativeReady
<1>2. CASE NativeTurnStarted BY <1>2 DEF NativeTurnStarted
<1>3. ASSUME NEW ids, NEW failed, FinishTurn(ids, failed) PROVE ProcessKept'
  BY <1>3 DEF FinishTurn
<1>4. CASE NativeResult \/ NativeIdleResult BY <1>3, <1>4 DEF NativeResult, NativeIdleResult
<1>5. CASE NativeAsk BY <1>5 DEF NativeAsk, IsReady
<1>6. CASE NativeInterrupted \/ NativeRenamed \/ NativeLost
  BY <1>6 DEF NativeInterrupted, NativeRenamed, NativeLost
<1>7. ASSUME NEW r \in Requests, NativeInputSettled(r) \/ NativeSteered(r) \/ NativeRejected(r)
      PROVE ProcessKept'
  BY <1>7 DEF NativeInputSettled, NativeSteered, NativeRejected
<1>8. QED BY <1>1, <1>2, <1>4, <1>5, <1>6, <1>7 DEF Native

LEMMA OtherProcess ==
  ASSUME TypeOK, CommittedUnsent, ProcessKept, Tail \/ Deadlines \/ Crash \/ Restart \/ UNCHANGED vars
  PROVE  ProcessKept'
<1> USE DEF ProcessKept, Cleared
<1>1. CASE Fail BY <1>1 DEF Fail
<1>2. CASE Settle BY <1>2 DEF Settle
<1>3. CASE ResolveImmediate BY <1>3 DEF ResolveImmediate, BeginTurn
<1>4. CASE StartTurn BY <1>4 DEF StartTurn, Alive
<1>5. CASE AfterImmediate BY <1>5 DEF AfterImmediate
<1>6. CASE DrainQueue BY <1>6 DEF DrainQueue, BeginTurn
<1>7. CASE QueueError \/ Flag
  <2>1. UNCHANGED <<process, immediate>> /\ pc' \notin {"down", "absent"} /\ pc # "error"
    BY <1>7, Zenon DEF QueueError, Flag
  <2>2. QED BY <2>1
<1>8. CASE WriteHandoff BY <1>8 DEF WriteHandoff
<1>9. CASE Deadlines
  BY <1>9 DEF Deadlines, InitTimeout, TurnTimeout, HandoffTimeout, ImmediateTimeout
<1>10. CASE Crash \/ Restart BY <1>10 DEF Crash, Restart
<1>11. CASE UNCHANGED vars BY <1>11 DEF vars
<1>12. QED BY <1>1, <1>2, <1>3, <1>4, <1>5, <1>6, <1>7, <1>8, <1>9, <1>10, <1>11 DEF Tail

-----------------------------------------------------------------------------
(* The stored status and the turn. *)

\* What holds between the commit of a turn and the end of its failure is less:
\* the status says that a turn runs before it does, and a result that is an
\* error leaves the turn to the error branch.
StatusKept ==
  /\ pc \notin {"start", "error", "down"} =>
       /\ turnActive => Active(status)
       /\ status = "Running" => turnActive
       /\ stopping \/ prompt # NoRequest => turnActive
  /\ pc = "start" => status = "Running"
  /\ pc = "absent" => ~Active(status)
  /\ pc = "select" => prev = status

LEMMA ClientStatus ==
  ASSUME TypeOK, KeptPromptUnsent, ProcessKept, StatusKept, Client
  PROVE  StatusKept'
<1> USE DEF StatusKept, ProcessKept, Cleared, Active
<1>1. CASE StartActor BY <1>1 DEF StartActor
<1>2. CASE Refuse BY <1>2 DEF Refuse
<1>3. CASE Open BY <1>3 DEF Open, Alive, IsReady
<1>4. CASE RenameTitle BY <1>4 DEF RenameTitle, IsReady
<1>5. CASE StopHandedOff BY <1>5 DEF StopHandedOff
<1>6. CASE StopTurn BY <1>6 DEF StopTurn
<1>7. CASE StopNothing BY <1>7 DEF StopNothing
<1>8. CASE Reorder \/ Clear \/ Resume BY <1>8 DEF Reorder, Clear, Resume
<1>9. CASE Answer BY <1>9 DEF Answer, AnsweredStatus
<1>10. CASE Close \/ CloseIfIdle BY <1>10 DEF Close, CloseIfIdle, EndActor
<1>11. ASSUME NEW r \in Requests, HandOff(r) PROVE StatusKept' BY <1>11 DEF HandOff, IsReady
<1>12. ASSUME NEW r \in Requests, Withdraw(r) \/ Edit(r) \/ Enqueue(r) PROVE StatusKept'
  BY <1>12 DEF Withdraw, Edit, Enqueue
<1>13. ASSUME NEW r \in Requests, SendNow(r) PROVE StatusKept' BY <1>13 DEF SendNow, BeginTurn
<1>14. ASSUME NEW r \in Requests, NEW interrupt \in BOOLEAN, SendImmediately(r, interrupt)
       PROVE  StatusKept'
  BY <1>14 DEF SendImmediately
<1>15. QED
  BY <1>1, <1>2, <1>3, <1>4, <1>5, <1>6, <1>7, <1>8, <1>9, <1>10, <1>11, <1>12, <1>13, <1>14
  DEF Client

LEMMA NativeStatus ==
  ASSUME TypeOK, KeptPromptUnsent, ProcessKept, StatusKept, Native
  PROVE  StatusKept'
<1> USE DEF StatusKept, ProcessKept, Cleared, Active, KeptPromptUnsent
<1>1. CASE NativeReady BY <1>1 DEF NativeReady
<1>2. CASE NativeTurnStarted BY <1>2 DEF NativeTurnStarted
<1>3. ASSUME NEW ids, NEW failed, FinishTurn(ids, failed), phase # "starting"
      PROVE  StatusKept'
  BY <1>3 DEF FinishTurn
<1>4. CASE NativeResult \/ NativeIdleResult BY <1>3, <1>4 DEF NativeResult, NativeIdleResult
<1>5. CASE NativeAsk BY <1>5 DEF NativeAsk, IsReady
<1>6. CASE NativeInterrupted \/ NativeRenamed \/ NativeLost
  BY <1>6 DEF NativeInterrupted, NativeRenamed, NativeLost
<1>7. ASSUME NEW r \in Requests, NativeInputSettled(r) \/ NativeSteered(r) \/ NativeRejected(r)
      PROVE StatusKept'
  BY <1>7 DEF NativeInputSettled, NativeSteered, NativeRejected
<1>8. QED BY <1>1, <1>2, <1>4, <1>5, <1>6, <1>7 DEF Native

LEMMA OtherStatus ==
  ASSUME TypeOK, ProcessKept, StatusKept, StartClean,
         Tail \/ Deadlines \/ Crash \/ Restart \/ UNCHANGED vars
  PROVE  StatusKept'
<1> USE DEF StatusKept, ProcessKept, Cleared, Active
<1>1. CASE Fail BY <1>1 DEF Fail
<1>2. CASE Settle BY <1>2 DEF Settle
<1>3. CASE ResolveImmediate BY <1>3 DEF ResolveImmediate, BeginTurn
<1>4. CASE StartTurn
  <2>1. pc = "start" /\ pc' \in {"settle", "after", "queueError", "flag"}
    BY <1>4 DEF StartTurn
  <2>2. \/ turnActive' = TRUE /\ UNCHANGED <<status, stopping>>
        \/ CloseProcess /\ status' = "Failed"
    BY <1>4 DEF StartTurn
  <2>3. QED BY <2>1, <2>2
<1>5. CASE AfterImmediate BY <1>5 DEF AfterImmediate
<1>6. CASE DrainQueue BY <1>6 DEF DrainQueue, BeginTurn
<1>7. CASE QueueError BY <1>7 DEF QueueError
<1>8. CASE Flag
  <2>1. UNCHANGED <<status, process>> /\ pc = "flag" /\ pc' = "select" /\ prev' = status
    BY <1>8, Zenon DEF Flag
  <2>2. QED BY <2>1
<1>9. CASE WriteHandoff BY <1>9 DEF WriteHandoff
<1>10. CASE Deadlines
  BY <1>10 DEF Deadlines, InitTimeout, TurnTimeout, HandoffTimeout, ImmediateTimeout
<1>11. CASE Crash BY <1>11 DEF Crash
<1>12. CASE Restart BY <1>12 DEF Restart
<1>13. CASE UNCHANGED vars BY <1>13 DEF vars
<1>14. QED
  BY <1>1, <1>2, <1>3, <1>4, <1>5, <1>6, <1>7, <1>8, <1>9, <1>10, <1>11, <1>12, <1>13 DEF Tail

\* The commit of a turn on an idle CLI, or on none, with nothing handed off.
LEMMA BeginTurnClean ==
  ASSUME TypeOK, KeptPromptUnsent, ProcessKept, Alive => CanStartTurn, Forwarded = {},
         pc # "error", NEW r \in Requests, row[r] \in {"none", "pending"},
         NEW from, BeginTurn(r, from)
  PROVE  StartClean'
<1>1. row[r] # "forwarded" BY DEF Forwarded
<1>2. Forwarded' = {} BY <1>1, BeginTurnForwarded
<1>3. current' = r /\ row'[r] \in {"none", "dispatched"} BY DEF BeginTurn, TypeOK, DataOK
<1>4. Cleared
  BY DEF Alive, CanStartTurn, AdapterIdle, ProcessKept, Cleared, KeptPromptUnsent
<1>5. Cleared' BY <1>4 DEF BeginTurn, Cleared
<1>6. QED BY <1>2, <1>3, <1>5 DEF StartClean, Cleared

\* A turn is committed by a client, for the message to send now or by the queue.
LEMMA WhoBegins ==
  ASSUME Next, pc' = "start"
  PROVE  (\E r \in Requests : SendNow(r)) \/ ResolveImmediate \/ DrainQueue
<1>1. CASE Client
  BY <1>1 DEF Client, StartActor, Refuse, Open, RenameTitle, StopHandedOff, StopTurn,
     StopNothing, Reorder, Clear, Resume, Answer, Close, CloseIfIdle, EndActor, HandOff, Withdraw,
     Edit, Enqueue, SendImmediately
<1>2. CASE Native
  BY <1>2 DEF Native, NativeReady, NativeTurnStarted, NativeResult, NativeIdleResult, NativeAsk,
     NativeInterrupted, NativeRenamed, NativeLost, NativeInputSettled, NativeSteered,
     NativeRejected, FinishTurn
<1>3. CASE Tail \/ Deadlines
  BY <1>3 DEF Tail, Deadlines, Fail, Settle, AfterImmediate, QueueError, Flag,
     WriteHandoff, StartTurn, InitTimeout, TurnTimeout, HandoffTimeout, ImmediateTimeout
<1>4. CASE Crash \/ Restart BY <1>4 DEF Crash, Restart
<1>5. QED BY <1>1, <1>2, <1>3, <1>4 DEF Next

LEMMA NextStartClean ==
  ASSUME DeliveryInv, ProcessKept, StartClean, [Next]_vars
  PROVE  StartClean'
<1> USE DEF DeliveryInv, HandoffInv, SendInv
<1>1. CASE pc' # "start" BY <1>1 DEF StartClean
<1>2. ASSUME NEW r \in Requests, SendNow(r) PROVE StartClean'
  <2>1. row[r] = "none" /\ BeginTurn(r, "send") /\ pc = "select" /\ forwarded = {}
        /\ (Alive => CanStartTurn)
    BY <1>2 DEF SendNow, Fresh, Busy
  <2>2. Forwarded = {} BY <2>1 DEF HandoffAgreement
  <2>3. QED BY <2>1, <2>2, BeginTurnClean
<1>3. CASE ResolveImmediate /\ pc' = "start"
  <2>1. /\ ImmediateDue /\ (Alive => CanStartTurn) /\ BeginTurn(immediate.id, "immediate")
        /\ pc = "immediate"
    BY <1>3 DEF ResolveImmediate
  <2>2. /\ immediate.id \in Requests /\ row[immediate.id] = "pending" /\ Forwarded = {}
    BY <2>1, ImmediateIsRequest DEF ImmediateDue, ImmediateKept
  <2>3. QED BY <2>1, <2>2, BeginTurnClean
<1>4. CASE DrainQueue /\ pc' = "start"
  <2>1. PICK r \in Requests : AutoDue /\ IsHead(r) /\ BeginTurn(r, "auto") /\ pc = "auto"
    BY <1>4 DEF DrainQueue
  <2>2. Forwarded = {} /\ row[r] = "pending" /\ (Alive => CanStartTurn)
    BY <2>1 DEF AutoDue, HandoffAgreement, IsHead, Pending
  <2>3. QED BY <2>1, <2>2, BeginTurnClean
<1>5. CASE UNCHANGED vars
  BY <1>5 DEF vars, StartClean, Forwarded
<1>6. QED BY <1>1, <1>2, <1>3, <1>4, <1>5, WhoBegins

-----------------------------------------------------------------------------
(* The flag that others read. *)

Resting == ~turnActive /\ ~ackPending /\ pending = 0 /\ prompt = NoRequest /\ Forwarded = {}

IdleKept ==
  /\ pc = "select" /\ safe => AtRest /\ ~turnActive
  /\ safe /\ ~Active(status) => Resting

\* What the flag says while the actor listens.
LEMMA SafeMeansRest ==
  ASSUME DeliveryInv, ProcessKept, IdleKept, pc = "select", safe
  PROVE  /\ Resting /\ unacked = {} /\ immediate = NoImmediate /\ forwarded = {}
         /\ phase \in {"none", "between"}
<1> USE DEF DeliveryInv, HandoffInv, SendInv
<1>1. AtRest /\ ~turnActive BY DEF IdleKept
<1>2. Forwarded = {} BY <1>1 DEF AtRest, HandoffAgreement
<1>3. CASE phase = "none" BY <1>1, <1>2, <1>3 DEF ProcessKept, Cleared, Resting, AtRest
<1>4. CASE phase # "none"
  BY <1>1, <1>2, <1>4 DEF AtRest, Alive, AdapterIdle, Resting, KeptPromptUnsent
<1>5. QED BY <1>3, <1>4

\* Four ways in which a step cannot make the flag wrong.
LEMMA FlagNotWrong ==
  ASSUME DeliveryInv, IdleKept, pc' # "select",
         \/ ~safe'
         \/ Active(status)'
         \/ Forwarded' = {} /\ ~turnActive' /\ ~ackPending' /\ pending' = 0 /\ prompt' = NoRequest
         \/ /\ safe' => safe
            /\ UNCHANGED <<status, turnActive, ackPending, pending, prompt>>
            /\ Forwarded' \subseteq Forwarded
  PROVE  IdleKept'
BY DEF IdleKept, Resting, Active

LEMMA ClientIdle ==
  ASSUME DeliveryInv, ProcessKept, StatusKept, IdleKept, Client
  PROVE  IdleKept'
<1> USE DEF DeliveryInv, HandoffInv
<1>1. CASE StartActor
  <2>1. ~safe' BY <1>1 DEF StartActor
  <2>2. QED BY <2>1 DEF IdleKept
<1>2. CASE Refuse \/ Open
  <2>1. safe' => safe BY <1>2, Zenon DEF Refuse, Open
  <2>2. QED BY <1>2, <2>1, FlagNotWrong DEF Refuse, Open, Forwarded
<1>3. CASE RenameTitle BY <1>3, FlagNotWrong DEF RenameTitle
<1>4. CASE StopHandedOff
  <2>1. Forwarded' = {} BY <1>4, LeftForwarded DEF StopHandedOff
  <2>2. QED BY <1>4, <2>1, FlagNotWrong DEF StopHandedOff
<1>5. CASE StopTurn
  <2>1. Active(status)' BY <1>5 DEF StopTurn, StatusKept, Active
  <2>2. QED BY <1>5, <2>1, FlagNotWrong DEF StopTurn
<1>6. CASE StopNothing BY <1>6, FlagNotWrong DEF StopNothing, Forwarded
<1>7. CASE Reorder \/ Clear \/ Resume
  <2>1. Forwarded' = Forwarded BY <1>7 DEF Reorder, Clear, Resume, Forwarded, TypeOK, DataOK
  <2>2. QED BY <1>7, <2>1, FlagNotWrong DEF Reorder, Clear, Resume
<1>8. CASE Answer
  <2>1. ~safe BY <1>8, SafeMeansRest DEF Answer, Resting, TypeOK, DataOK
  <2>2. QED BY <1>8, <2>1, FlagNotWrong DEF Answer
<1>9. CASE Close \/ CloseIfIdle
  <2>1. ~safe' /\ pc' = "absent" BY <1>9 DEF Close, CloseIfIdle, EndActor
  <2>2. QED BY <2>1, FlagNotWrong
<1>10. ASSUME NEW r \in Requests, HandOff(r) PROVE IdleKept'
  <2>1. Active(status)' BY <1>10 DEF HandOff, StatusKept, Active
  <2>2. QED BY <1>10, <2>1, FlagNotWrong DEF HandOff
<1>11. ASSUME NEW r \in Requests, Withdraw(r) \/ Edit(r) PROVE IdleKept'
  <2>1. Forwarded' = Forwarded BY <1>11 DEF Withdraw, Edit, Forwarded, TypeOK, DataOK
  <2>2. QED BY <1>11, <2>1, FlagNotWrong DEF Withdraw, Edit
<1>12. ASSUME NEW r \in Requests, Enqueue(r) \/ SendNow(r) PROVE IdleKept'
  BY <1>12, FlagNotWrong DEF Enqueue, SendNow, BeginTurn
<1>13. ASSUME NEW r \in Requests, NEW interrupt \in BOOLEAN, SendImmediately(r, interrupt)
       PROVE  IdleKept'
  <2>1. pc' # "select" BY <1>13 DEF SendImmediately
  <2>2. CASE safe
    <3>1. Resting /\ forwarded = {} BY <1>13, <2>2, SafeMeansRest DEF SendImmediately
    <3>2. UNCHANGED <<row, status, process>> BY <1>13, <3>1 DEF SendImmediately, Resting
    <3>3. QED BY <2>1, <3>1, <3>2, FlagNotWrong DEF Resting, Forwarded
  <2>3. CASE ~safe BY <1>13, <2>1, <2>3, FlagNotWrong DEF SendImmediately
  <2>4. QED BY <2>2, <2>3
<1>14. QED
  BY <1>1, <1>2, <1>3, <1>4, <1>5, <1>6, <1>7, <1>8, <1>9, <1>10, <1>11, <1>12, <1>13 DEF Client

LEMMA NativeIdle ==
  ASSUME DeliveryInv, ProcessKept, StatusKept, IdleKept, Native
  PROVE  IdleKept'
<1> USE DEF DeliveryInv, HandoffInv
<1>1. pc = "select" /\ pc' # "select" /\ safe' = safe
  BY DEF Native, NativeReady, NativeTurnStarted, NativeResult, NativeIdleResult, NativeAsk,
     NativeInterrupted, NativeRenamed, NativeLost, NativeInputSettled, NativeSteered,
     NativeRejected, FinishTurn
<1>2. CASE ~safe BY <1>1, <1>2, FlagNotWrong
<1>3. CASE safe
  <2>1. /\ Resting /\ unacked = {} /\ phase \in {"none", "between"}
    BY <1>1, <1>3, SafeMeansRest
  <2>2. CASE NativeReady BY <2>1, <2>2 DEF NativeReady
  <2>3. CASE NativeTurnStarted
    <3>1. Active(status)' BY <2>3 DEF NativeTurnStarted, Active
    <3>2. QED BY <1>1, <3>1, FlagNotWrong
  <2>4. CASE NativeResult BY <2>1, <2>4 DEF NativeResult
  <2>5. ASSUME NEW ids, NEW failed, FinishTurn(ids, failed) PROVE IdleKept'
    <3>1. Forwarded' = {} BY <2>1, <2>5, LeftForwarded DEF FinishTurn, Resting
    <3>2. ~turnActive' /\ ~ackPending' /\ pending' = 0 /\ prompt' = NoRequest
      BY <2>1, <2>5 DEF FinishTurn, Resting
    <3>3. QED BY <1>1, <3>1, <3>2, FlagNotWrong
  <2>6. CASE NativeIdleResult BY <2>5, <2>6 DEF NativeIdleResult
  <2>7. CASE NativeAsk
    <3>1. RoomToAsk BY <2>1, ConstantsAssumption DEF Resting, RoomToAsk
    <3>2. Active(status)' BY <2>7, <3>1 DEF NativeAsk, Active
    <3>3. QED BY <1>1, <3>2, FlagNotWrong
  <2>8. CASE NativeInterrupted BY <2>1, <2>8 DEF NativeInterrupted, Resting
  <2>9. CASE NativeRenamed \/ NativeLost
    BY <1>1, <2>9, FlagNotWrong DEF NativeRenamed, NativeLost, Forwarded
  <2>10. QED
    BY <2>1, <2>2, <2>3, <2>4, <2>6, <2>7, <2>8, <2>9
    DEF Native, NativeInputSettled, NativeSteered, NativeRejected
<1>4. QED BY <1>2, <1>3

LEMMA OtherIdle ==
  ASSUME DeliveryInv, ProcessKept, StatusKept, StartClean, IdleKept,
         Tail \/ Deadlines \/ Crash \/ Restart \/ UNCHANGED vars
  PROVE  IdleKept'
<1> USE DEF DeliveryInv, HandoffInv
<1>1. CASE Fail
  <2>1. Forwarded' = {} BY <1>1, LeftForwarded DEF Fail
  <2>2. QED BY <1>1, <2>1, FlagNotWrong DEF Fail
<1>2. CASE Settle
  <2>1. row' = row \/ row' = Quarantined BY <1>2 DEF Settle
  <2>2. Forwarded' \subseteq Forwarded BY <2>1, LeftForwarded DEF Forwarded
  <2>3. QED BY <1>2, <2>2, FlagNotWrong DEF Settle
<1>3. CASE ResolveImmediate
  <2>1. CASE pc' = "auto" BY <1>3, <2>1, FlagNotWrong DEF ResolveImmediate, BeginTurn, Forwarded
  <2>2. CASE pc' # "auto" BY <1>3, <2>2, FlagNotWrong DEF ResolveImmediate, BeginTurn, Active
  <2>3. QED BY <2>1, <2>2
<1>4. CASE StartTurn
  <2>1. /\ pc = "start" /\ pc' \in {"settle", "after", "queueError", "flag"} /\ row' = row
        /\ UNCHANGED status \/ CloseProcess
    BY <1>4 DEF StartTurn
  <2>2. CASE UNCHANGED status
    <3>1. Active(status)' BY <2>1, <2>2 DEF StatusKept, Active
    <3>2. QED BY <2>1, <3>1, FlagNotWrong
  <2>3. CASE CloseProcess
    <3>1. Forwarded' = {} BY <2>1 DEF StartClean, Forwarded
    <3>2. QED BY <2>1, <2>3, <3>1, FlagNotWrong
  <2>4. QED BY <2>1, <2>2, <2>3
<1>5. CASE AfterImmediate BY <1>5, FlagNotWrong DEF AfterImmediate, Forwarded
<1>6. CASE DrainQueue
  <2>1. CASE pc' = "start" BY <1>6, <2>1, FlagNotWrong DEF DrainQueue, BeginTurn, Active
  <2>2. CASE pc' # "start" BY <1>6, <2>2, FlagNotWrong DEF DrainQueue, BeginTurn, Forwarded
  <2>3. QED BY <2>1, <2>2
<1>7. CASE QueueError
  <2>1. Forwarded' = {} BY <1>7, LeftForwarded DEF QueueError
  <2>2. QED BY <1>7, <2>1, FlagNotWrong DEF QueueError
<1>8. CASE Flag
  <2>1. /\ UNCHANGED <<durable, immediate, forwarded, process>> /\ pc = "flag"
        /\ safe' => AtRest
    <3>1. safe' \in IF ~AtRest THEN {FALSE} ELSE IF Alive THEN BOOLEAN ELSE {TRUE}
      BY <1>8, Zenon DEF Flag
    <3>2. safe' => AtRest BY <3>1
    <3>3. QED BY <1>8, <3>2, Zenon DEF Flag
  <2>2. SUFFICES ASSUME safe' PROVE IdleKept'
    BY DEF IdleKept
  <2>3. ~turnActive
    <3>1. CASE phase = "none" BY <3>1 DEF ProcessKept, Cleared
    <3>2. CASE phase # "none" BY <2>1, <2>2, <3>2 DEF AtRest, Alive, AdapterIdle, ProcessKept
    <3>3. QED BY <3>1, <3>2
  <2>4. Resting
    <3>1. Forwarded = {} BY <2>1, <2>2 DEF AtRest, HandoffAgreement
    <3>2. CASE phase = "none" BY <3>1, <3>2 DEF ProcessKept, Cleared, Resting
    <3>3. CASE phase # "none"
      BY <2>1, <2>2, <2>3, <3>1, <3>3
      DEF AtRest, Alive, AdapterIdle, Resting, SendInv, KeptPromptUnsent
    <3>4. QED BY <3>2, <3>3
  <2>5. AtRest' BY <2>1, <2>2 DEF AtRest, Pending, Alive, AdapterIdle
  <2>6. QED BY <2>1, <2>3, <2>4, <2>5 DEF IdleKept, Resting, Forwarded
<1>9. CASE WriteHandoff BY <1>9, FlagNotWrong DEF WriteHandoff, Forwarded
<1>10. CASE Deadlines
  BY <1>10, FlagNotWrong
  DEF Deadlines, InitTimeout, TurnTimeout, HandoffTimeout, ImmediateTimeout, Forwarded
<1>11. CASE Crash BY <1>11, FlagNotWrong DEF Crash
<1>12. CASE Restart
  <2>1. ~safe' /\ pc' = "absent" BY <1>12 DEF Restart, ProcessKept
  <2>2. QED BY <2>1, FlagNotWrong
<1>13. CASE UNCHANGED vars
  BY <1>13 DEF vars, IdleKept, AtRest, Resting, Forwarded, Pending, Alive, AdapterIdle, Active
<1>14. QED
  BY <1>1, <1>2, <1>3, <1>4, <1>5, <1>6, <1>7, <1>8, <1>9, <1>10, <1>11, <1>12, <1>13 DEF Tail

-----------------------------------------------------------------------------
(* The queue that runs by itself. *)

\* What waits when rows are rewritten.
LEMMA PendingAfter ==
  ASSUME TypeOK
  PROVE  /\ row' = row => Pending' = Pending
         /\ row' = Quarantined => Pending' = Pending
         /\ \A ids : row' = Consumed(ids) => Pending' = Pending
         /\ \A r \in Requests, v \in RowStates :
              row' = [row EXCEPT ![r] = v] =>
                Pending' = IF v = "pending" THEN Pending \cup {r} ELSE Pending \ {r}
         /\ \A r \in Requests : \A from : BeginTurn(r, from) => Pending' = Pending \ {r}
<1> USE DEF TypeOK, DataOK, Pending
<1>1. row' = row => Pending' = Pending OBVIOUS
<1>2. row' = Quarantined => Pending' = Pending BY DEF Quarantined
<1>3. ASSUME NEW ids, row' = Consumed(ids) PROVE Pending' = Pending BY <1>3 DEF Consumed
<1>4. ASSUME NEW r \in Requests, NEW v \in RowStates, row' = [row EXCEPT ![r] = v]
      PROVE Pending' = IF v = "pending" THEN Pending \cup {r} ELSE Pending \ {r}
  BY <1>4
<1>5. ASSUME NEW r \in Requests, NEW from, BeginTurn(r, from) PROVE Pending' = Pending \ {r}
  <2>1. row' = [row EXCEPT ![r] = IF row[r] \in {"pending", "forwarded"} THEN "dispatched" ELSE row[r]]
    BY <1>5 DEF BeginTurn
  <2>2. row'[r] # "pending" /\ \A q \in Requests \ {r} : row'[q] = row[q] BY <2>1
  <2>3. QED BY <2>2
<1>6. QED BY <1>1, <1>2, <1>3, <1>4, <1>5

\* ConfigsComplete rests on what a message that is sent now will restore, and on
\* the pause of a session without an actor.
ConfigsKept ==
  /\ ConfigsComplete
  /\ immediate # NoImmediate => pause # "no"
  /\ immediate # NoImmediate /\ immediate.restore = "no" => Pending \ {immediate.id} \subseteq configs
  /\ pc = "after" \/ (pc = "start" /\ origin = "immediate") =>
       immediate # NoImmediate /\ immediate.id \notin Pending
  /\ pc = "absent" /\ Pending # {} => pause # "no"

\* A step that adds nothing to the queue, takes no configuration away and does
\* not let the queue run.
LEMMA ConfigsStay ==
  ASSUME ConfigsKept, Pending' \subseteq Pending, configs' = configs,
         immediate' \in {immediate, NoImmediate}, pc' \notin {"absent", "after"},
         pc' = "start" => origin' # "immediate" \/ (immediate' # NoImmediate /\ immediate'.id \notin Pending'),
         \/ pause' # "no"
         \/ pause' = pause /\ pc \notin {"down", "absent", "after", "error", "queueError"}
  PROVE  ConfigsKept'
BY DEF ConfigsKept, ConfigsComplete

LEMMA ClientConfigs ==
  ASSUME DeliveryInv, ProcessKept, ConfigsKept, Client
  PROVE  ConfigsKept'
<1> USE DEF DeliveryInv, HandoffInv
<1>1. CASE StartActor
  <2>1. Pending' = Pending BY <1>1, PendingAfter DEF StartActor
  <2>2. QED BY <1>1, <2>1 DEF StartActor, ConfigsKept, ConfigsComplete, ProcessKept
<1>2. CASE Refuse \/ Open \/ RenameTitle \/ StopHandedOff \/ StopTurn \/ StopNothing \/ Answer
  <2>1. /\ row' = row \/ row' = Quarantined
        /\ configs' = configs /\ immediate' \in {immediate, NoImmediate}
        /\ pause' = pause \/ pause' = "held"
        /\ pc = "select" /\ pc' \notin {"absent", "after", "start"}
    BY <1>2 DEF Refuse, Open, RenameTitle, StopHandedOff, StopTurn, StopNothing, Answer
  <2>2. Pending' = Pending BY <2>1, PendingAfter
  <2>3. QED BY <2>1, <2>2, ConfigsStay
<1>3. CASE Reorder
  <2>1. Pending' = Pending BY <1>3, PendingAfter DEF Reorder
  <2>2. QED BY <1>3, <2>1, ConfigsStay DEF Reorder
<1>4. CASE Clear
  <2>1. Pending' = {} BY <1>4 DEF Clear, Pending, TypeOK, DataOK
  <2>2. QED BY <1>4, <2>1 DEF Clear, QueueFree, ConfigsKept, ConfigsComplete
<1>5. CASE Resume
  <2>1. Pending' = Pending BY <1>5, PendingAfter DEF Resume
  <2>2. QED BY <1>5, <2>1 DEF Resume, QueueFree, ConfigsKept, ConfigsComplete
<1>6. CASE Close \/ CloseIfIdle
  <2>1. pause' = "held" /\ immediate' = NoImmediate /\ pc' = "absent"
    BY <1>6 DEF Close, CloseIfIdle, EndActor
  <2>2. QED BY <2>1 DEF ConfigsKept, ConfigsComplete
<1>7. ASSUME NEW r \in Requests, HandOff(r) \/ Withdraw(r) PROVE ConfigsKept'
  <2>1. PICK v \in {"forwarded", "taken", "cancelled"} : row' = [row EXCEPT ![r] = v]
    BY <1>7 DEF HandOff, Withdraw
  <2>2. Pending' = Pending \ {r} BY <2>1, PendingAfter DEF RowStates
  <2>3. QED BY <1>7, <2>2 DEF HandOff, Withdraw, QueueFree, ConfigsKept, ConfigsComplete
<1>8. ASSUME NEW r \in Requests, Edit(r) PROVE ConfigsKept'
  <2>1. Pending' = Pending BY <1>8, PendingAfter DEF Edit
  <2>2. QED BY <1>8, <2>1, ConfigsStay DEF Edit
<1>9. ASSUME NEW r \in Requests, Enqueue(r) PROVE ConfigsKept'
  <2>1. Pending' = Pending \cup {r} BY <1>9, PendingAfter DEF Enqueue, RowStates
  <2>2. QED BY <1>9, <2>1 DEF Enqueue, ConfigsKept, ConfigsComplete
<1>10. ASSUME NEW r \in Requests, SendNow(r) PROVE ConfigsKept'
  <2>1. row[r] = "none" /\ BeginTurn(r, "send") BY <1>10 DEF SendNow, Fresh
  <2>2. Pending' = Pending BY <2>1, PendingAfter DEF Pending
  <2>3. pc' = "start" /\ origin' = "send" BY <2>1 DEF BeginTurn
  <2>4. UNCHANGED <<immediate, configs>> /\ pc = "select" BY <1>10 DEF SendNow
  <2>5. CASE pause' = pause BY <2>2, <2>3, <2>4, <2>5, ConfigsStay
  <2>6. CASE Pending = {} /\ pause' = "no"
    <3>1. immediate = NoImmediate
      BY <2>4, <2>6, ImmediateIsRequest DEF ImmediateKept, Pending
    <3>2. QED BY <2>2, <2>3, <2>4, <2>6, <3>1 DEF ConfigsKept, ConfigsComplete
  <2>7. QED BY <1>10, <2>5, <2>6 DEF SendNow
<1>11. ASSUME NEW r \in Requests, NEW interrupt \in BOOLEAN, SendImmediately(r, interrupt)
       PROVE  ConfigsKept'
  <2>1. /\ row' = row \/ row' = Quarantined
        /\ configs' = configs /\ pause' = "sending"
        /\ immediate' = [id |-> r, revision |-> revision[r], restore |-> pause]
        /\ pc = "select" /\ pc' \in {"settle", "error"}
    BY <1>11 DEF SendImmediately
  <2>2. Pending' = Pending BY <2>1, PendingAfter
  <2>3. QED BY <2>1, <2>2 DEF ConfigsKept, ConfigsComplete
<1>12. QED
  BY <1>1, <1>2, <1>3, <1>4, <1>5, <1>6, <1>7, <1>8, <1>9, <1>10, <1>11 DEF Client

LEMMA NativeConfigs ==
  ASSUME DeliveryInv, ConfigsKept, Native
  PROVE  ConfigsKept'
<1> USE DEF DeliveryInv, HandoffInv
<1>1. /\ pc = "select" /\ pc' \in {"settle", "error"}
      /\ UNCHANGED <<configs, immediate>>
  BY DEF Native, NativeReady, NativeTurnStarted, NativeResult, NativeIdleResult, NativeAsk,
     NativeInterrupted, NativeRenamed, NativeLost, NativeInputSettled, NativeSteered,
     NativeRejected, FinishTurn
<1>2. CASE UNCHANGED pause /\ (row' = row \/ \E ids : row' = Consumed(ids))
  <2>1. Pending' = Pending BY <1>2, PendingAfter
  <2>2. QED BY <1>1, <1>2, <2>1, ConfigsStay
<1>3. ASSUME NEW r \in Requests, NativeRejected(r), row[r] = "forwarded" PROVE ConfigsKept'
  <2>1. immediate = NoImmediate BY <1>1, <1>3 DEF ImmediateKept, Forwarded
  <2>2. pause' = "held" BY <1>3 DEF NativeRejected, SentBack
  <2>3. QED BY <1>1, <2>1, <2>2 DEF ConfigsKept, ConfigsComplete
<1>4. QED
  BY <1>2, <1>3
  DEF Native, NativeReady, NativeTurnStarted, NativeResult, NativeIdleResult, NativeAsk,
     NativeInterrupted, NativeRenamed, NativeLost, NativeInputSettled, NativeSteered,
     NativeRejected, FinishTurn

LEMMA OtherConfigs ==
  ASSUME DeliveryInv, ProcessKept, ConfigsKept,
         Tail \/ Deadlines \/ Crash \/ Restart \/ UNCHANGED vars
  PROVE  ConfigsKept'
<1> USE DEF DeliveryInv, HandoffInv
<1>1. CASE Fail \/ QueueError
  <2>1. Pending' = Pending BY <1>1, PendingAfter DEF Fail, QueueError
  <2>2. QED BY <1>1, <2>1, ConfigsStay DEF Fail, QueueError
<1>2. CASE Settle
  <2>1. Pending' = Pending BY <1>2, PendingAfter DEF Settle
  <2>2. QED BY <1>2, <2>1, ConfigsStay DEF Settle
<1>3. CASE ResolveImmediate
  <2>1. CASE pc' = "auto"
    <3>1. row' = row BY <1>3, <2>1 DEF ResolveImmediate, BeginTurn
    <3>2. Pending' = Pending BY <3>1, PendingAfter
    <3>3. QED BY <1>3, <2>1, <3>2, ConfigsStay DEF ResolveImmediate
  <2>2. CASE pc' # "auto"
    <3>1. /\ immediate # NoImmediate /\ BeginTurn(immediate.id, "immediate")
          /\ UNCHANGED <<immediate, configs, pause>> /\ pc = "immediate" /\ pc' = "start"
      BY <1>3, <2>2 DEF ResolveImmediate, ImmediateDue, BeginTurn
    <3>2. Pending' = Pending \ {immediate.id} BY <3>1, PendingAfter, ImmediateIsRequest
    <3>3. QED BY <3>1, <3>2, ConfigsStay
  <2>3. QED BY <2>1, <2>2
<1>4. CASE StartTurn
  <2>1. /\ pc = "start" /\ UNCHANGED <<row, pause, immediate, configs>>
        /\ pc' \in {"settle", "after", "queueError", "flag"}
        /\ pc' = "after" => origin = "immediate"
    BY <1>4 DEF StartTurn
  <2>2. Pending' = Pending BY <2>1, PendingAfter
  <2>3. QED BY <2>1, <2>2 DEF ConfigsKept, ConfigsComplete
<1>5. CASE AfterImmediate
  <2>1. /\ pc = "after" /\ pc' = "auto" /\ immediate' = NoImmediate
        /\ configs' = configs \cap Pending /\ pause' \in {pause, immediate.restore} /\ row' = row
    BY <1>5 DEF AfterImmediate
  <2>2. Pending' = Pending BY <2>1, PendingAfter
  <2>3. QED BY <2>1, <2>2 DEF ConfigsKept, ConfigsComplete
<1>6. CASE DrainQueue
  <2>1. pc = "auto" /\ UNCHANGED <<immediate, pause>> BY <1>6 DEF DrainQueue
  <2>2. CASE pc' = "flag"
    <3>1. row' = row /\ configs' = configs BY <1>6, <2>2 DEF DrainQueue, BeginTurn
    <3>2. Pending' = Pending BY <3>1, PendingAfter
    <3>3. QED BY <2>1, <2>2, <3>1, <3>2, ConfigsStay
  <2>3. CASE pc' = "queueError"
    <3>1. AutoDue BY <1>6, <2>3 DEF DrainQueue, BeginTurn
    <3>2. immediate = NoImmediate BY <3>1 DEF AutoDue, ConfigsKept
    <3>3. QED BY <2>1, <2>3, <3>2 DEF ConfigsKept, ConfigsComplete
  <2>4. ASSUME NEW r \in Requests, AutoDue, configs' = configs \ {r}, BeginTurn(r, "auto")
        PROVE ConfigsKept'
    <3>1. Pending' = Pending \ {r} BY <2>4, PendingAfter
    <3>2. immediate = NoImmediate BY <2>4 DEF AutoDue, ConfigsKept
    <3>3. pc' = "start" /\ origin' = "auto" BY <2>4 DEF BeginTurn
    <3>4. QED BY <2>1, <2>4, <3>1, <3>2, <3>3 DEF ConfigsKept, ConfigsComplete
  <2>5. QED BY <1>6, <2>2, <2>3, <2>4 DEF DrainQueue
<1>7. CASE Flag \/ WriteHandoff \/ Deadlines
  <2>1. /\ pc \in {"flag", "handoff", "select"} /\ pc' \notin {"absent", "after", "start"}
        /\ row' = row /\ configs' = configs /\ immediate' \in {immediate, NoImmediate}
        /\ pause' = pause \/ pause' # "no"
    BY <1>7
    DEF Flag, WriteHandoff, Deadlines, InitTimeout, TurnTimeout, HandoffTimeout, ImmediateTimeout
  <2>2. Pending' = Pending BY <2>1, PendingAfter
  <2>3. QED BY <2>1, <2>2, ConfigsStay
<1>8. CASE Crash BY <1>8 DEF Crash, ConfigsKept, ConfigsComplete
<1>9. CASE Restart
  <2>1. /\ pc' = "absent" /\ immediate' = NoImmediate /\ row' = Quarantined
        /\ Live # {} => pause' = "held"
    BY <1>9 DEF Restart, RestartPause, ProcessKept
  <2>2. Pending' = Pending BY <2>1, PendingAfter
  <2>3. QED BY <2>1, <2>2 DEF ConfigsKept, ConfigsComplete, Live
<1>10. CASE UNCHANGED vars BY <1>10 DEF vars, ConfigsKept, ConfigsComplete, Pending
<1>11. QED
  BY <1>1, <1>2, <1>3, <1>4, <1>5, <1>6, <1>7, <1>8, <1>9, <1>10 DEF Tail

\* The loop comes back to its select through five actions.
LEMMA WhoListens ==
  ASSUME Next, pc' \in {"flag", "select"}
  PROVE  StartActor \/ DrainQueue \/ StartTurn \/ QueueError \/ Flag
<1>1. CASE Client
  BY <1>1 DEF Client, Refuse, Open, RenameTitle, StopHandedOff, StopTurn,
     StopNothing, Reorder, Clear, Resume, Answer, Close, CloseIfIdle, EndActor, HandOff, Withdraw,
     Edit, Enqueue, SendNow, BeginTurn, SendImmediately
<1>2. CASE Native
  BY <1>2 DEF Native, NativeReady, NativeTurnStarted, NativeResult, NativeIdleResult, NativeAsk,
     NativeInterrupted, NativeRenamed, NativeLost, NativeInputSettled, NativeSteered,
     NativeRejected, FinishTurn
<1>3. CASE Tail \/ Deadlines
  BY <1>3 DEF Tail, Deadlines, Fail, Settle, ResolveImmediate, BeginTurn, AfterImmediate,
     WriteHandoff, InitTimeout, TurnTimeout, HandoffTimeout, ImmediateTimeout
<1>4. CASE Crash \/ Restart BY <1>4 DEF Crash, Restart
<1>5. QED BY <1>1, <1>2, <1>3, <1>4 DEF Next

\* NoMissedWakeup, which is settled when the queue has been looked at.
WakeupKept ==
  pc \in {"flag", "select"} /\ pause = "no" /\ Pending # {} =>
    Active(status) \/ forwarded # {} \/ immediate # NoImmediate \/ (Alive /\ ~CanStartTurn)

LEMMA NextWakeup ==
  ASSUME DeliveryInv, StatusKept, ConfigsKept, WakeupKept, [Next]_vars
  PROVE  WakeupKept'
<1> USE DEF WakeupKept
<1>1. CASE StartActor
  <2>1. pc = "absent" /\ UNCHANGED <<row, pause>> BY <1>1 DEF StartActor
  <2>2. QED BY <2>1 DEF ConfigsKept, Pending
<1>2. CASE DrainQueue /\ pc' \in {"flag", "select"}
  <2>1. ~AutoDue /\ UNCHANGED <<status, row, pause, immediate, forwarded, process>>
    BY <1>2 DEF DrainQueue, BeginTurn
  <2>2. QED BY <2>1 DEF AutoDue, Alive, CanStartTurn, AdapterIdle, Pending, Active
<1>3. CASE StartTurn /\ pc' \in {"flag", "select"}
  <2>1. pc = "start" /\ (status' = status \/ status' = "Failed")
    BY <1>3 DEF StartTurn
  <2>2. status' # "Failed" BY <1>3 DEF StartTurn
  <2>3. Active(status)' BY <2>1, <2>2 DEF StatusKept, Active
  <2>4. QED BY <2>3
<1>4. CASE QueueError BY <1>4 DEF QueueError
<1>5. CASE Flag
  <2>1. pc = "flag" /\ UNCHANGED <<status, row, pause, immediate, forwarded, process>>
    BY <1>5, Zenon DEF Flag
  <2>2. QED BY <2>1 DEF Alive, CanStartTurn, AdapterIdle, Pending, Active
<1>6. CASE UNCHANGED vars BY <1>6 DEF vars, Alive, CanStartTurn, AdapterIdle, Pending, Active
<1>7. CASE pc' \notin {"flag", "select"} BY <1>7
<1>8. QED BY <1>1, <1>2, <1>3, <1>4, <1>5, <1>6, <1>7, WhoListens

-----------------------------------------------------------------------------
(* The budget of the queue. *)

\* A row that is rewritten is one that counted already, or counts no more.
LEMMA LiveAfter ==
  ASSUME TypeOK
  PROVE  /\ row' = row => Live' = Live
         /\ row' = Quarantined => Live' \subseteq Live
         /\ \A ids : row' = Consumed(ids) => Live' \subseteq Live
         /\ \A r \in Live, v \in RowStates : row' = [row EXCEPT ![r] = v] => Live' \subseteq Live
         /\ \A r \in Requests : \A from : BeginTurn(r, from) => Live' \subseteq Live
<1> USE DEF TypeOK, DataOK, Live, Pending, Forwarded
<1>1. row' = row => Live' = Live OBVIOUS
<1>2. row' = Quarantined => Live' \subseteq Live BY DEF Quarantined
<1>3. ASSUME NEW ids, row' = Consumed(ids) PROVE Live' \subseteq Live BY <1>3 DEF Consumed
<1>4. ASSUME NEW r \in Live, NEW v \in RowStates, row' = [row EXCEPT ![r] = v]
      PROVE Live' \subseteq Live
  BY <1>4
<1>5. ASSUME NEW r \in Requests, NEW from, BeginTurn(r, from) PROVE Live' \subseteq Live
  <2>1. row' = [row EXCEPT ![r] = IF row[r] \in {"pending", "forwarded"} THEN "dispatched" ELSE row[r]]
    BY <1>5 DEF BeginTurn
  <2>2. \A q \in Requests : row'[q] \in {"pending", "forwarded"} => row'[q] = row[q] BY <2>1
  <2>3. QED BY <2>2
<1>6. QED BY <1>1, <1>2, <1>3, <1>4, <1>5

\* Only a new message needs a new place; a handoff, and a message that the CLI
\* sends back, keep the place they have.
LEMMA OnlyEnqueueGrows ==
  ASSUME TypeOK, [Next]_vars
  PROVE  Live' \subseteq Live \/ \E r \in Requests : Enqueue(r)
<1>1. CASE row' = row \/ row' = Quarantined \/ \E ids : row' = Consumed(ids)
  BY <1>1, LiveAfter
<1>2. ASSUME NEW r \in Requests, NEW from, BeginTurn(r, from) PROVE Live' \subseteq Live
  BY <1>2, LiveAfter
<1>3. ASSUME NEW r \in Requests, HandOff(r) \/ Withdraw(r) \/ NativeRejected(r)
      PROVE  Live' \subseteq Live
  <2>1. CASE row' = row BY <2>1, LiveAfter
  <2>2. CASE row[r] \in {"pending", "forwarded"}
             /\ \E v \in {"forwarded", "taken", "cancelled", "pending"} : row' = [row EXCEPT ![r] = v]
    BY <2>2, LiveAfter DEF Live, Pending, Forwarded, RowStates
  <2>3. QED BY <1>3, <2>1, <2>2 DEF HandOff, Withdraw, NativeRejected, SentBack
<1>4. CASE Clear BY <1>4 DEF Clear, Live, Pending, Forwarded, TypeOK, DataOK
<1>5. ASSUME Client, ~Clear,
             \A r \in Requests : ~HandOff(r) /\ ~Withdraw(r) /\ ~Enqueue(r) /\ ~SendNow(r)
      PROVE  row' = row \/ row' = Quarantined
  BY <1>5 DEF Client, StartActor, Refuse, Open, RenameTitle, StopHandedOff, StopTurn, StopNothing,
     Reorder, Resume, Answer, Close, CloseIfIdle, Edit, SendImmediately
<1>6. ASSUME Native, \A r \in Requests : ~NativeRejected(r)
      PROVE  row' = row \/ \E ids : row' = Consumed(ids)
  BY <1>6 DEF Native, NativeReady, NativeTurnStarted, NativeResult, NativeIdleResult, NativeAsk,
     NativeInterrupted, NativeRenamed, NativeLost, NativeInputSettled, NativeSteered, FinishTurn
<1>7. CASE DrainQueue \/ ResolveImmediate
  <2>1. row' = row \/ (\E r \in Requests : BeginTurn(r, "auto"))
        \/ (immediate # NoImmediate /\ BeginTurn(immediate.id, "immediate"))
    BY <1>7 DEF DrainQueue, ResolveImmediate, ImmediateDue
  <2>2. QED BY <1>1, <1>2, <2>1, ImmediateIsRequest
<1>8. ASSUME Tail \/ Deadlines \/ Crash \/ Restart \/ UNCHANGED vars,
             ~DrainQueue, ~ResolveImmediate
      PROVE  row' = row \/ row' = Quarantined
  BY <1>8 DEF Tail, Fail, Settle, StartTurn, AfterImmediate, QueueError, Flag, WriteHandoff,
     Deadlines, InitTimeout, TurnTimeout, HandoffTimeout, ImmediateTimeout, Crash, Restart, vars
<1>9. ASSUME NEW r \in Requests, SendNow(r) PROVE Live' \subseteq Live
  <2>1. BeginTurn(r, "send") BY <1>9 DEF SendNow
  <2>2. QED BY <1>2, <2>1
<1>10. QED
  BY <1>1, <1>3, <1>4, <1>5, <1>6, <1>7, <1>8, <1>9 DEF Next

LEMMA NextBudget ==
  ASSUME TypeOK, CapacityBound, [Next]_vars
  PROVE  CapacityBound'
<1>1. IsFiniteSet(Live) /\ Cardinality(Live) \in Nat
  <2>1. Live \subseteq Requests BY DEF Live, Pending, Forwarded
  <2>2. QED BY <2>1, ConstantsAssumption, FS_Subset, FS_CardinalityType
<1>2. MaxQueue \in Nat BY ConstantsAssumption
<1>3. CASE Live' \subseteq Live
  <2>1. Cardinality(Live') <= Cardinality(Live) /\ Cardinality(Live') \in Nat
    BY <1>1, <1>3, FS_Subset, FS_CardinalityType
  <2>2. QED BY <1>1, <1>2, <2>1 DEF CapacityBound
<1>4. ASSUME NEW r \in Requests, Enqueue(r) PROVE CapacityBound'
  <2>1. Live' = Live \cup {r}
    BY <1>4 DEF Enqueue, Live, Pending, Forwarded, TypeOK, DataOK
  <2>2. Cardinality(Live) < MaxQueue BY <1>4 DEF Enqueue, QueueLoad
  <2>3. r \notin Live
    BY <1>4 DEF Enqueue, Fresh, Live, Pending, Forwarded
  <2>4. Cardinality(Live \cup {r}) = Cardinality(Live) + 1
    <3>1. Cardinality(Live \cup {r})
            = IF r \in Live THEN Cardinality(Live) ELSE Cardinality(Live) + 1
      BY <1>1, FS_AddElement, Zenon
    <3>2. QED BY <2>3, <3>1
  <2>5. Cardinality(Live') <= MaxQueue BY <1>1, <1>2, <2>1, <2>2, <2>4
  <2>6. QED BY <2>5 DEF CapacityBound
<1>5. QED BY <1>3, <1>4, OnlyEnqueueGrows

-----------------------------------------------------------------------------
(* All of it together. *)

\* Each part is kept with the help of those before it.
StateInv ==
  /\ DeliveryInv
  /\ ProcessKept /\ StatusKept /\ StartClean
  /\ IdleKept /\ ConfigsKept /\ WakeupKept /\ CapacityBound

LEMMA NextState ==
  ASSUME StateInv, [Next]_vars
  PROVE  StateInv'
<1> USE DEF StateInv
<1>1. DeliveryInv' /\ StartClean' BY NextDelivery, NextStartClean
<1>2. TypeOK /\ KeptPromptUnsent /\ CommittedUnsent BY DEF DeliveryInv, HandoffInv, SendInv
<1>3. ProcessKept' BY <1>2, ClientProcess, NativeProcess, OtherProcess DEF Next
<1>4. StatusKept' BY <1>2, ClientStatus, NativeStatus, OtherStatus DEF Next
<1>5. IdleKept' BY ClientIdle, NativeIdle, OtherIdle DEF Next
<1>6. ConfigsKept' BY ClientConfigs, NativeConfigs, OtherConfigs DEF Next
<1>7. WakeupKept' /\ CapacityBound' BY <1>2, NextWakeup, NextBudget
<1>8. QED BY <1>1, <1>3, <1>4, <1>5, <1>6, <1>7

\* The inductive invariant of this module.
LEMMA StateInvariant == Spec => []StateInv
<1>1. Init => StateInv
  <2>1. ASSUME Init PROVE DeliveryInv
    BY <2>1, InitTypeOK
    DEF Init, DeliveryInv, HandoffInv, HandoffAgreement, ImmediateKept, Forwarded, SendInv,
        AtMostOnce, WithdrawnNeverSent, HandedNotAccepted, UnknownUnsent, KeptPromptUnsent,
        CommittedUnsent
  <2>2. ASSUME Init PROVE Pending = {} /\ Live = {}
    BY <2>2 DEF Init, Live, Pending, Forwarded
  <2>3. Init => CapacityBound
    BY <2>2, ConstantsAssumption, FS_EmptySet DEF CapacityBound
  <2>4. ASSUME Init
        PROVE  ProcessKept /\ StatusKept /\ StartClean /\ IdleKept /\ ConfigsKept /\ WakeupKept
    BY <2>2, <2>4
    DEF Init, ProcessKept, Cleared, StatusKept, Active, StartClean, IdleKept, ConfigsKept,
        ConfigsComplete, WakeupKept
  <2>5. QED BY <2>1, <2>3, <2>4 DEF StateInv
<1>2. StateInv /\ [Next]_vars => StateInv' BY NextState
<1>3. QED BY <1>1, <1>2, PTL DEF Spec

\* No turn is started on a CLI that still owes something: no other turn, stop,
\* approval or handed-off input can be confused with it.
THEOREM TurnsStartClean == Spec => []StartClean
<1>1. StateInv => StartClean BY DEF StateInv
<1>2. QED BY <1>1, StateInvariant, PTL

\* Whenever the actor listens, the status that clients and recovery read agrees
\* with the turn that runs.
THEOREM StatusAgrees == Spec => []StatusAgreement
<1>1. StateInv => StatusAgreement BY DEF StateInv, StatusKept, StatusAgreement
<1>2. QED BY <1>1, StateInvariant, PTL

\* The flag and the status that an upgrade or an undo reads never hide a turn, a
\* handoff, an approval or a queue that runs.
THEOREM IdleCheckIsSound == Spec => []IdleCheckSound
<1>1. StateInv => IdleCheckSound
  BY DEF StateInv, IdleKept, Resting, AtRest, IdleCheckSound
<1>2. QED BY <1>1, StateInvariant, PTL

\* A closed session, and one recovered after a crash, is at rest.
THEOREM RestsWithoutActor == Spec => []RestWithoutActor
<1>1. StateInv => RestWithoutActor
  BY DEF StateInv, DeliveryInv, HandoffInv, HandoffAgreement, ProcessKept, StatusKept,
         ConfigsKept, RestWithoutActor
<1>2. QED BY <1>1, StateInvariant, PTL

\* The actor never sleeps on a queue that runs by itself.
THEOREM NoWakeupMissed == Spec => []NoMissedWakeup
<1>1. StateInv => NoMissedWakeup BY DEF StateInv, WakeupKept, NoMissedWakeup
<1>2. QED BY <1>1, StateInvariant, PTL

\* A queue that runs by itself can start every message it holds.
THEOREM ConfigurationsComplete == Spec => []ConfigsComplete
<1>1. StateInv => ConfigsComplete BY DEF StateInv, ConfigsKept
<1>2. QED BY <1>1, StateInvariant, PTL

\* What waits and what is in the CLI's hands never exceed the queue's capacity.
THEOREM BudgetHolds == Spec => []CapacityBound
<1>1. StateInv => CapacityBound BY DEF StateInv
<1>2. QED BY <1>1, StateInvariant, PTL

-----------------------------------------------------------------------------
(* What is in hand between a commit and the write it is for. *)

\* A handed-off input is unwritten only while the actor is about to write it, or
\* when the daemon died there.
HandInv ==
  /\ current # NoRequest => pc \in {"start", "handoff"}
  /\ pc = "handoff" => prompt = NoRequest
  /\ pc = "queueError" => Forwarded = {}
  /\ \A r \in unacked : sent[r] = 0 => pc = "handoff" /\ r = current
  /\ \A r \in Requests :
       row[r] = "forwarded" /\ sent[r] = 0 => (pc = "handoff" /\ r = current) \/ pc = "down"

\* A step that takes nothing in hand and makes no input unwritten.
LEMMA NothingInHand ==
  ASSUME HandInv, pc \notin {"start", "handoff", "down"},
         pc' \notin {"start", "handoff", "queueError"},
         UNCHANGED current, unacked' \subseteq unacked,
         \A r \in Requests : row'[r] = "forwarded" => row[r] = "forwarded",
         \A r \in Requests : sent'[r] = 0 => sent[r] = 0 \/ (r \notin unacked' /\ row'[r] # "forwarded"),
         unacked \subseteq Requests
  PROVE  HandInv'
BY DEF HandInv

\* What rewriting the rows leaves in the CLI's hands.
LEMMA NoneHandedOff ==
  ASSUME TypeOK
  PROVE  /\ row' = row \/ row' = Quarantined \/ (\E ids : row' = Consumed(ids)) =>
              \A r \in Requests : row'[r] = "forwarded" => row[r] = "forwarded"
         /\ \A q \in Requests, v \in RowStates \ {"forwarded"} :
              row' = [row EXCEPT ![q] = v] =>
                \A r \in Requests : row'[r] = "forwarded" => row[r] = "forwarded"
BY DEF TypeOK, DataOK, RowStates, Quarantined, Consumed

\* The commit of a turn, with nothing in the CLI's hands.
LEMMA BeginTurnHand ==
  ASSUME DeliveryInv, HandInv, pc \notin {"start", "handoff", "down"}, Forwarded = {},
         UNCHANGED sent, NEW r \in Requests, row[r] # "forwarded", NEW from, BeginTurn(r, from)
  PROVE  HandInv'
<1>1. Forwarded' = {} BY BeginTurnForwarded DEF DeliveryInv, HandoffInv
<1>2. \A q \in Requests : row'[q] # "forwarded" BY <1>1 DEF Forwarded
<1>3. unacked' \subseteq unacked BY DEF BeginTurn
<1>4. QED BY <1>2, <1>3 DEF HandInv, BeginTurn

LEMMA ClientHand ==
  ASSUME DeliveryInv, HandInv, Client
  PROVE  HandInv'
<1> USE DEF DeliveryInv, HandoffInv
<1>0. unacked \subseteq Requests BY DEF TypeOK, DataOK
<1>1. CASE StartActor \/ Refuse \/ Open \/ RenameTitle \/ StopHandedOff \/ StopTurn \/ StopNothing
           \/ Reorder \/ Resume \/ Answer \/ Close \/ CloseIfIdle
  <2>1. /\ pc \in {"absent", "select"} /\ pc' \in {"select", "settle", "error", "absent"}
        /\ UNCHANGED <<current, sent>> /\ unacked' \subseteq unacked
        /\ row' = row \/ row' = Quarantined
    BY <1>1 DEF StartActor, Refuse, Open, RenameTitle, StopHandedOff, StopTurn, StopNothing,
       Reorder, Resume, Answer, Close, CloseIfIdle, EndActor
  <2>2. QED BY <1>0, <2>1, NoneHandedOff, NothingInHand
<1>2. CASE Clear
  <2>1. \A r \in Requests : row'[r] = "forwarded" => row[r] = "forwarded" BY <1>2 DEF Clear
  <2>2. QED BY <1>0, <1>2, <2>1, NothingInHand DEF Clear
<1>3. ASSUME NEW r \in Requests, HandOff(r) PROVE HandInv'
  <2>1. prompt = NoRequest BY <1>3 DEF HandOff, IsReady, SendInv, KeptPromptUnsent
  <2>2. \A q \in Requests \ {r} : row'[q] = row[q] BY <1>3 DEF HandOff, TypeOK, DataOK
  <2>3. /\ pc = "select" /\ pc' = "handoff" /\ current' = r /\ UNCHANGED <<prompt, sent>>
        /\ unacked' = unacked \cup {r}
    BY <1>3 DEF HandOff
  <2>4. QED BY <2>1, <2>2, <2>3 DEF HandInv
<1>4. ASSUME NEW r \in Requests, Withdraw(r) \/ Edit(r) \/ Enqueue(r) PROVE HandInv'
  <2>1. /\ pc = "select" /\ pc' = "settle" /\ UNCHANGED <<current, sent, unacked>>
        /\ row' = row \/ \E v \in {"taken", "cancelled", "pending"} : row' = [row EXCEPT ![r] = v]
    BY <1>4 DEF Withdraw, Edit, Enqueue
  <2>2. \A q \in Requests : row'[q] = "forwarded" => row[q] = "forwarded"
    BY <2>1, NoneHandedOff DEF RowStates
  <2>3. QED BY <1>0, <2>1, <2>2, NothingInHand
<1>5. ASSUME NEW r \in Requests, SendNow(r) PROVE HandInv'
  <2>1. /\ row[r] = "none" /\ BeginTurn(r, "send") /\ pc = "select" /\ forwarded = {}
        /\ UNCHANGED sent
    BY <1>5 DEF SendNow, Fresh, Busy
  <2>2. Forwarded = {} BY <2>1 DEF HandoffAgreement
  <2>3. QED BY <2>1, <2>2, BeginTurnHand
<1>6. ASSUME NEW r \in Requests, NEW interrupt \in BOOLEAN, SendImmediately(r, interrupt)
      PROVE  HandInv'
  <2>1. /\ pc = "select" /\ pc' \in {"settle", "error"} /\ UNCHANGED <<current, sent>>
        /\ unacked' \subseteq unacked
        /\ row' = row \/ row' = Quarantined
    BY <1>6 DEF SendImmediately
  <2>2. QED BY <1>0, <2>1, NoneHandedOff, NothingInHand
<1>7. QED BY <1>1, <1>2, <1>3, <1>4, <1>5, <1>6 DEF Client

LEMMA NativeHand ==
  ASSUME DeliveryInv, HandInv, Native
  PROVE  HandInv'
<1> USE DEF DeliveryInv, HandoffInv
<1>0. unacked \subseteq Requests BY DEF TypeOK, DataOK
<1>1. /\ pc = "select" /\ pc' \in {"settle", "error"} /\ UNCHANGED current
      /\ unacked' \subseteq unacked
  BY DEF Native, NativeReady, NativeTurnStarted, NativeResult, NativeIdleResult, NativeAsk,
     NativeInterrupted, NativeRenamed, NativeLost, NativeInputSettled, NativeSteered,
     NativeRejected, FinishTurn
<1>2. CASE NativeReady
  <2>1. row' = row /\ \A r \in Requests : sent'[r] = 0 => sent[r] = 0
    BY <1>2 DEF NativeReady, Written, TypeOK, DataOK
  <2>2. QED BY <1>0, <1>1, <2>1, NothingInHand
<1>3. ASSUME NEW r \in Requests, NativeRejected(r) PROVE HandInv'
  <2>1. /\ \A q \in Requests \ {r} : sent'[q] = sent[q]
        /\ r \notin unacked' /\ row'[r] # "forwarded"
        /\ \A q \in Requests : row'[q] = "forwarded" => row[q] = "forwarded"
    BY <1>3 DEF NativeRejected, SentBack, TypeOK, DataOK
  <2>2. QED BY <1>0, <1>1, <2>1, NothingInHand
<1>4. CASE UNCHANGED sent /\ (row' = row \/ \E ids : row' = Consumed(ids))
  <2>1. \A r \in Requests : row'[r] = "forwarded" => row[r] = "forwarded"
    BY <1>4, NoneHandedOff
  <2>2. QED BY <1>0, <1>1, <1>4, <2>1, NothingInHand
<1>5. QED
  BY <1>2, <1>3, <1>4
  DEF Native, NativeTurnStarted, NativeResult, NativeIdleResult, NativeAsk, NativeInterrupted,
     NativeRenamed, NativeLost, NativeInputSettled, NativeSteered, FinishTurn

LEMMA OtherHand ==
  ASSUME StateInv, HandInv, Tail \/ Deadlines \/ Crash \/ Restart \/ UNCHANGED vars
  PROVE  HandInv'
<1> USE DEF StateInv, DeliveryInv, HandoffInv
<1>0. unacked \subseteq Requests BY DEF TypeOK, DataOK
<1>1. CASE Fail \/ Settle \/ AfterImmediate \/ QueueError \/ Flag \/ Deadlines
  <2>1. /\ pc \notin {"start", "handoff", "down"} /\ pc' \notin {"start", "handoff", "queueError"}
        /\ UNCHANGED <<current, sent>> /\ unacked' \subseteq unacked
        /\ row' = row \/ row' = Quarantined
    BY <1>1 DEF Fail, Settle, AfterImmediate, QueueError, Flag, Deadlines, InitTimeout, TurnTimeout,
       HandoffTimeout, ImmediateTimeout
  <2>2. QED BY <1>0, <2>1, NoneHandedOff, NothingInHand
<1>2. CASE ResolveImmediate
  <2>1. CASE row' = row /\ pc' = "auto" /\ UNCHANGED <<current, unacked>>
    BY <1>0, <1>2, <2>1, NothingInHand DEF ResolveImmediate
  <2>2. CASE ImmediateDue /\ BeginTurn(immediate.id, "immediate")
    <3>1. pc = "immediate" /\ UNCHANGED sent BY <1>2 DEF ResolveImmediate
    <3>2. immediate.id \in Requests /\ row[immediate.id] = "pending" /\ Forwarded = {}
      BY <2>2, <3>1, ImmediateIsRequest DEF ImmediateDue, ImmediateKept
    <3>3. QED BY <2>2, <3>1, <3>2, BeginTurnHand
  <2>3. QED BY <1>2, <2>1, <2>2 DEF ResolveImmediate
<1>3. CASE StartTurn
  <2>1. /\ pc = "start" /\ current' = NoRequest /\ row' = row /\ unacked' \in {unacked, {}}
        /\ pc' \in {"settle", "after", "queueError", "flag"}
    BY <1>3 DEF StartTurn
  <2>2. unacked = {} /\ Forwarded = {} BY <2>1 DEF StartClean
  <2>3. QED BY <2>1, <2>2 DEF HandInv, Forwarded
<1>4. CASE DrainQueue
  <2>1. pc = "auto" /\ UNCHANGED sent BY <1>4 DEF DrainQueue
  <2>2. AutoDue => Forwarded = {} BY <2>1 DEF AutoDue, HandoffAgreement
  <2>3. CASE row' = row /\ pc' = "flag" /\ UNCHANGED <<current, unacked>>
    BY <1>0, <2>1, <2>3, NothingInHand
  <2>4. CASE AutoDue /\ row' = row /\ pc' = "queueError" /\ UNCHANGED <<current, unacked>>
    BY <2>1, <2>2, <2>4 DEF HandInv, Forwarded
  <2>5. ASSUME NEW r \in Requests, AutoDue, IsHead(r), BeginTurn(r, "auto") PROVE HandInv'
    <3>1. row[r] = "pending" BY <2>5 DEF IsHead, Pending
    <3>2. QED BY <2>1, <2>2, <2>5, <3>1, BeginTurnHand
  <2>6. QED BY <1>4, <2>3, <2>4, <2>5 DEF DrainQueue
<1>5. CASE WriteHandoff
  <2>1. /\ pc = "handoff" /\ pc' \in {"settle", "error"} /\ current' = NoRequest
        /\ sent' = Written(current) /\ UNCHANGED <<row, unacked, prompt>>
    BY <1>5 DEF WriteHandoff
  <2>2. current \in Requests /\ sent[current] = 0 BY <2>1 DEF SendInv, CommittedUnsent
  <2>3. sent'[current] = 1 /\ \A q \in Requests \ {current} : sent'[q] = sent[q]
    BY <2>1, <2>2 DEF Written, TypeOK, DataOK
  <2>4. QED BY <1>0, <2>1, <2>2, <2>3 DEF HandInv
<1>6. CASE Crash BY <1>6 DEF Crash, HandInv
<1>7. CASE Restart
  <2>1. unacked' = {} BY <1>7 DEF Restart, ProcessKept, Cleared
  <2>2. Forwarded' = {} BY <1>7, LeftForwarded DEF Restart
  <2>3. QED BY <1>7, <2>1, <2>2 DEF Restart, HandInv, Forwarded
<1>8. CASE UNCHANGED vars BY <1>8 DEF vars, HandInv, Forwarded
<1>9. QED BY <1>1, <1>2, <1>3, <1>4, <1>5, <1>6, <1>7, <1>8 DEF Tail

LEMMA HandInvariant == Spec => [](StateInv /\ HandInv)
<1>1. Init => HandInv BY DEF Init, HandInv
<1>2. StateInv /\ HandInv /\ [Next]_vars => HandInv'
  <2> SUFFICES ASSUME StateInv, HandInv, [Next]_vars PROVE HandInv'
    OBVIOUS
  <2>1. DeliveryInv BY DEF StateInv
  <2>2. QED BY <2>1, ClientHand, NativeHand, OtherHand DEF Next
<1>3. QED BY <1>1, <1>2, StateInvariant, PTL DEF Spec

-----------------------------------------------------------------------------
(* The refinement of PromptDelivery. *)

\* Where a prompt is, as the two tables say it.
LEMMA Placed ==
  ASSUME DeliveryInv, NEW r \in Requests
  PROVE  /\ r \in accepted => placeOf[r] = "admitted"
         /\ placeOf[r] = "handed" <=> row[r] = "forwarded"
         /\ placeOf[r] = "queued" <=> row[r] = "pending"
         /\ placeOf[r] = "new" <=> row[r] = "none" /\ r \notin accepted
BY DEF DeliveryInv, HandoffInv, SendInv, TypeOK, DataOK, RowStates, placeOf, HandedNotAccepted,
   WithdrawnNeverSent

\* A step that writes nothing and accepts nothing, and gives up all that is owed
\* when it gives up what was handed off.
LEMMA StutterOrLose ==
  ASSUME DeliveryInv, UNCHANGED <<accepted, sent>>,
         \/ row' = row /\ UNCHANGED <<current, prompt>>
         \/ (row' = row \/ row' = Quarantined) /\ current' = NoRequest /\ prompt' = NoRequest
  PROVE  Promise!Lose \/ UNCHANGED Promise!promptVars
<1>1. deliveredNow' = deliveredNow BY DEF deliveredNow
<1>2. row' = row => placeOf' = placeOf BY DEF placeOf
<1>3. ASSUME row' = Quarantined
      PROVE  placeOf' = [r \in Requests |-> IF placeOf[r] = "handed" THEN "uncertain" ELSE placeOf[r]]
  <2>1. ASSUME NEW r \in Requests
        PROVE  placeOf'[r] = IF placeOf[r] = "handed" THEN "uncertain" ELSE placeOf[r]
    <3>1. CASE row[r] = "forwarded"
      BY <1>3, <3>1, Placed
      DEF DeliveryInv, SendInv, HandedNotAccepted, placeOf, Quarantined
    <3>2. CASE row[r] # "forwarded"
      BY <1>3, <3>2, Placed DEF placeOf, Quarantined
    <3>3. QED BY <3>1, <3>2
  <2>2. QED BY <2>1 DEF placeOf
<1>4. CASE row' = row /\ UNCHANGED <<current, prompt>>
  <2>1. owedNow' = owedNow BY <1>4 DEF owedNow
  <2>2. QED BY <1>1, <1>2, <1>4, <2>1 DEF Promise!promptVars
<1>5. CASE (row' = row \/ row' = Quarantined) /\ current' = NoRequest /\ prompt' = NoRequest
  <2>1. owedNow' = {} BY <1>5 DEF owedNow
  <2>2. QED BY <1>1, <1>2, <1>3, <1>5, <2>1 DEF Promise!Lose
<1>6. QED BY <1>4, <1>5

\* The commit of a turn admits its prompt.
LEMMA BeginTurnAdmits ==
  ASSUME DeliveryInv, HandInv, pc \notin {"start", "handoff"}, phase \in {"none", "between"},
         Forwarded = {}, UNCHANGED sent,
         NEW r \in Requests, row[r] = "pending" \/ Fresh(r), NEW from, BeginTurn(r, from)
  PROVE  Promise!Admit(r)
<1> USE DEF DeliveryInv, HandoffInv, SendInv
<1>1. current = NoRequest /\ prompt = NoRequest BY DEF HandInv, KeptPromptUnsent
<1>2. owedNow = {} BY <1>1 DEF owedNow
<1>3. r # NoRequest BY ConstantsAssumption
<1>4. current' = r /\ prompt' = NoRequest BY <1>1 DEF BeginTurn
<1>5. owedNow' = {r} BY <1>3, <1>4 DEF owedNow
<1>6. Promise!In("handed") = {} BY Placed DEF Promise!In, Forwarded
<1>7. placeOf[r] \in {"new", "queued"} BY Placed DEF Fresh
<1>8. placeOf' = [placeOf EXCEPT ![r] = "admitted"]
  <2>1. accepted' = accepted \cup {r} /\ \A q \in Requests \ {r} : row'[q] = row[q]
    BY DEF BeginTurn, TypeOK, DataOK
  <2>2. QED BY <2>1 DEF placeOf
<1>9. deliveredNow' = deliveredNow BY DEF deliveredNow
<1>10. QED BY <1>2, <1>5, <1>6, <1>7, <1>8, <1>9 DEF Promise!Admit

\* A write delivers the one prompt that is owed.
LEMMA WriteDelivers ==
  ASSUME DeliveryInv, NEW r \in Requests, owedNow = {r}, owedNow' = {}, sent[r] = 0,
         UNCHANGED <<row, accepted>>, sent' = Written(r),
         r \in accepted \/ row[r] = "forwarded"
  PROVE  Promise!Deliver(r)
<1>1. placeOf' = placeOf BY DEF placeOf
<1>2. sent'[r] = 1 /\ \A q \in Requests \ {r} : sent'[q] = sent[q]
  BY DEF Written, DeliveryInv, HandoffInv, TypeOK, DataOK
<1>3. deliveredNow' = deliveredNow \cup {r} /\ r \notin deliveredNow
  BY <1>2 DEF deliveredNow
<1>4. placeOf[r] \in {"admitted", "handed"} BY Placed
<1>5. QED BY <1>1, <1>3, <1>4 DEF Promise!Deliver

\* What a result names was delivered.
LEMMA ConsumedConfirms ==
  ASSUME DeliveryInv, HandInv, pc = "select", UNCHANGED <<accepted, sent, current, prompt>>,
         NEW ids, row' = Consumed(ids)
  PROVE  Promise!Confirm({r \in Requests : r \in ids /\ row[r] = "forwarded"})
<1> DEFINE S == {r \in Requests : r \in ids /\ row[r] = "forwarded"}
<1>1. S \subseteq Promise!In("handed") BY Placed DEF Promise!In
<1>2. S \subseteq deliveredNow
  BY DEF HandInv, deliveredNow, DeliveryInv, HandoffInv, TypeOK, DataOK
<1>3. ASSUME NEW r \in Requests PROVE placeOf'[r] = IF r \in S THEN "confirmed" ELSE placeOf[r]
  <2>1. CASE r \in S
    <3>1. row'[r] = "dispatched" /\ r \notin accepted'
      BY <2>1 DEF Consumed, DeliveryInv, SendInv, HandedNotAccepted
    <3>2. QED BY <2>1, <3>1 DEF placeOf
  <2>2. CASE r \notin S
    <3>1. row'[r] = row[r] BY <2>2 DEF Consumed
    <3>2. QED BY <2>2, <3>1 DEF placeOf
  <2>3. QED BY <2>1, <2>2
<1>4. placeOf' = [r \in Requests |-> IF r \in S THEN "confirmed" ELSE placeOf[r]]
  BY <1>3 DEF placeOf
<1>5. UNCHANGED <<owedNow, deliveredNow>> BY DEF owedNow, deliveredNow
<1>6. QED BY <1>1, <1>2, <1>4, <1>5 DEF Promise!Confirm

\* Rows that wait are taken back by their author.
LEMMA RowsWithdrawn ==
  ASSUME DeliveryInv, UNCHANGED <<accepted, sent, current, prompt>>, NEW S \in SUBSET Pending,
         \A r \in Requests : IF r \in S THEN row'[r] \in {"taken", "cancelled"} ELSE row'[r] = row[r]
  PROVE  Promise!Withdraw(S)
<1>1. S \subseteq Promise!In("queued") BY Placed DEF Promise!In, Pending
<1>2. ASSUME NEW r \in Requests PROVE placeOf'[r] = IF r \in S THEN "withdrawn" ELSE placeOf[r]
  <2>1. CASE r \in S
    <3>1. r \notin accepted BY <2>1 DEF DeliveryInv, SendInv, WithdrawnNeverSent, Pending
    <3>2. QED BY <2>1, <3>1 DEF placeOf
  <2>2. CASE r \notin S BY <2>2 DEF placeOf
  <2>3. QED BY <2>1, <2>2
<1>3. placeOf' = [r \in Requests |-> IF r \in S THEN "withdrawn" ELSE placeOf[r]]
  BY <1>2 DEF placeOf
<1>4. UNCHANGED <<owedNow, deliveredNow>> BY DEF owedNow, deliveredNow
<1>5. QED BY <1>1, <1>3, <1>4 DEF Promise!Withdraw

\* Every step of the actor is a step of the promise, or none.
Kept == Promise!Next \/ UNCHANGED Promise!promptVars

LEMMA LoseIsKept ==
  ASSUME Promise!Lose \/ UNCHANGED Promise!promptVars
  PROVE  Kept
BY DEF Kept, Promise!Next

LEMMA ClientKeeps ==
  ASSUME DeliveryInv, HandInv, Client
  PROVE  Kept
<1> USE DEF DeliveryInv, HandoffInv
<1>1. CASE StartActor \/ Refuse \/ Open \/ RenameTitle \/ StopTurn \/ StopNothing \/ Reorder
           \/ Resume \/ Answer
  <2>1. UNCHANGED <<accepted, sent, row, current, prompt>>
    BY <1>1 DEF StartActor, Refuse, Open, RenameTitle, StopTurn, StopNothing, Reorder, Resume, Answer
  <2>2. QED BY <2>1, StutterOrLose, LoseIsKept
<1>2. CASE StopHandedOff \/ Close \/ CloseIfIdle
  <2>1. /\ UNCHANGED <<accepted, sent, current>> /\ prompt' = NoRequest /\ pc = "select"
        /\ row' = row \/ row' = Quarantined
    BY <1>2 DEF StopHandedOff, Close, CloseIfIdle, EndActor
  <2>2. current' = NoRequest BY <2>1 DEF HandInv
  <2>3. QED BY <2>1, <2>2, StutterOrLose, LoseIsKept
<1>3. CASE Clear
  <2>1. Promise!Withdraw(Pending)
    BY <1>3, RowsWithdrawn DEF Clear, Pending
  <2>2. QED BY <2>1 DEF Kept, Promise!Next, Pending
<1>4. ASSUME NEW r \in Requests, HandOff(r) PROVE Kept
  <2>1. /\ row[r] = "pending" /\ row' = [row EXCEPT ![r] = "forwarded"] /\ pc = "select"
        /\ UNCHANGED <<accepted, sent, prompt>> /\ current' = r /\ IsReady
    BY <1>4 DEF HandOff
  <2>2. prompt = NoRequest /\ current = NoRequest
    BY <2>1 DEF HandInv, IsReady, SendInv, KeptPromptUnsent
  <2>3. owedNow = {} /\ owedNow' = {r} BY <2>1, <2>2, ConstantsAssumption DEF owedNow
  <2>4. placeOf[r] = "queued" BY <2>1, Placed
  <2>5. placeOf' = [placeOf EXCEPT ![r] = "handed"]
    <3>1. row'[r] = "forwarded" /\ \A q \in Requests \ {r} : row'[q] = row[q]
      BY <2>1 DEF TypeOK, DataOK
    <3>2. r \notin accepted BY <2>1 DEF SendInv, WithdrawnNeverSent
    <3>3. QED BY <2>1, <3>1, <3>2 DEF placeOf
  <2>6. deliveredNow' = deliveredNow BY <2>1 DEF deliveredNow
  <2>7. QED BY <2>3, <2>4, <2>5, <2>6 DEF Kept, Promise!Next, Promise!HandOver
<1>5. ASSUME NEW r \in Requests, Withdraw(r) PROVE Kept
  <2>1. Promise!Withdraw({r})
    BY <1>5, RowsWithdrawn DEF Withdraw, Pending, TypeOK, DataOK
  <2>2. QED BY <2>1 DEF Kept, Promise!Next
<1>6. ASSUME NEW r \in Requests, Edit(r) PROVE Kept
  BY <1>6, StutterOrLose, LoseIsKept DEF Edit
<1>7. ASSUME NEW r \in Requests, Enqueue(r) PROVE Kept
  <2>1. /\ Fresh(r) /\ row' = [row EXCEPT ![r] = "pending"]
        /\ UNCHANGED <<accepted, sent, current, prompt>>
    BY <1>7 DEF Enqueue
  <2>2. placeOf[r] = "new" BY <2>1, Placed DEF Fresh
  <2>3. placeOf' = [placeOf EXCEPT ![r] = "queued"]
    <3>1. row'[r] = "pending" /\ \A q \in Requests \ {r} : row'[q] = row[q]
      BY <2>1 DEF TypeOK, DataOK
    <3>2. QED BY <2>1, <3>1 DEF placeOf, Fresh
  <2>4. UNCHANGED <<owedNow, deliveredNow>> BY <2>1 DEF owedNow, deliveredNow
  <2>5. QED BY <2>2, <2>3, <2>4 DEF Kept, Promise!Next, Promise!Save
<1>8. ASSUME NEW r \in Requests, SendNow(r) PROVE Kept
  <2>1. /\ Fresh(r) /\ BeginTurn(r, "send") /\ pc = "select" /\ forwarded = {} /\ UNCHANGED sent
        /\ phase \in {"none", "between"}
    BY <1>8 DEF SendNow, Busy, Alive, CanStartTurn, AdapterIdle
  <2>2. Forwarded = {} BY <2>1 DEF HandoffAgreement
  <2>3. Promise!Admit(r) BY <2>1, <2>2, BeginTurnAdmits
  <2>4. QED BY <2>3 DEF Kept, Promise!Next
<1>9. ASSUME NEW r \in Requests, NEW interrupt \in BOOLEAN, SendImmediately(r, interrupt)
      PROVE  Kept
  <2>1. /\ pc = "select" /\ UNCHANGED <<accepted, sent, current>>
        /\ (row' = row /\ UNCHANGED prompt) \/ (row' = Quarantined /\ prompt' = NoRequest)
    BY <1>9 DEF SendImmediately
  <2>2. current' = NoRequest BY <2>1 DEF HandInv
  <2>3. QED BY <2>1, <2>2, StutterOrLose, LoseIsKept
<1>10. QED BY <1>1, <1>2, <1>3, <1>4, <1>5, <1>6, <1>7, <1>8, <1>9 DEF Client

LEMMA NativeKeeps ==
  ASSUME DeliveryInv, HandInv, Native
  PROVE  Kept
<1> USE DEF DeliveryInv, HandoffInv
<1>1. CASE NativeReady
  <2>1. pc = "select" /\ UNCHANGED <<accepted, row, current>> BY <1>1 DEF NativeReady
  <2>2. CASE UNCHANGED <<prompt, sent>> BY <2>1, <2>2, StutterOrLose, LoseIsKept
  <2>3. CASE phase = "starting" /\ prompt' = NoRequest /\ sent' = Written(prompt)
    <3>1. prompt \in Requests /\ prompt \in accepted /\ sent[prompt] = 0
      BY <2>3, ConstantsAssumption DEF SendInv, KeptPromptUnsent
    <3>2. owedNow = {prompt} /\ owedNow' = {}
      BY <2>1, <2>3, <3>1, ConstantsAssumption DEF owedNow, HandInv
    <3>3. Promise!Deliver(prompt) BY <2>1, <2>3, <3>1, <3>2, WriteDelivers
    <3>4. QED BY <3>1, <3>3 DEF Kept, Promise!Next
  <2>4. QED BY <1>1, <2>2, <2>3 DEF NativeReady
<1>2. ASSUME NEW ids, row' = Consumed(ids), pc = "select",
             UNCHANGED <<accepted, sent, current, prompt>>
      PROVE  Kept
  <2>1. Promise!Confirm({r \in Requests : r \in ids /\ row[r] = "forwarded"})
    BY <1>2, ConsumedConfirms
  <2>2. QED BY <2>1 DEF Kept, Promise!Next
<1>3. CASE UNCHANGED <<accepted, sent, row, current, prompt>>
  BY <1>3, StutterOrLose, LoseIsKept
<1>4. ASSUME NEW r \in Requests, NativeRejected(r) PROVE Kept
  <2>1. /\ r \in unacked /\ pc = "select" /\ sent' = [sent EXCEPT ![r] = 0]
        /\ row' = IF row[r] = "forwarded" THEN [row EXCEPT ![r] = "pending"] ELSE row
        /\ UNCHANGED <<accepted, current, prompt>>
    BY <1>4 DEF NativeRejected, SentBack
  <2>2. sent[r] # 0 BY <2>1 DEF HandInv
  <2>3. r \in deliveredNow /\ deliveredNow' = deliveredNow \ {r}
    BY <2>1, <2>2 DEF deliveredNow, TypeOK, DataOK
  <2>4. placeOf' = IF placeOf[r] = "handed" THEN [placeOf EXCEPT ![r] = "queued"] ELSE placeOf
    <3>1. CASE row[r] = "forwarded"
      <4>1. row'[r] = "pending" /\ \A q \in Requests \ {r} : row'[q] = row[q]
        BY <2>1, <3>1 DEF TypeOK, DataOK
      <4>2. r \notin accepted BY <3>1 DEF SendInv, HandedNotAccepted
      <4>3. placeOf[r] = "handed" BY <3>1, Placed
      <4>4. QED BY <2>1, <4>1, <4>2, <4>3 DEF placeOf
    <3>2. CASE row[r] # "forwarded"
      <4>1. placeOf[r] # "handed" BY <3>2, Placed
      <4>2. QED BY <2>1, <3>2, <4>1 DEF placeOf
    <3>3. QED BY <3>1, <3>2
  <2>5. owedNow' = owedNow BY <2>1 DEF owedNow
  <2>6. QED BY <2>3, <2>4, <2>5 DEF Kept, Promise!Next, Promise!Refuse
<1>5. ASSUME NEW r \in Requests, NativeInputSettled(r) PROVE Kept
  BY <1>2, <1>3, <1>5 DEF NativeInputSettled
<1>6. ASSUME NEW ids, NEW failed, FinishTurn(ids, failed) PROVE Kept
  BY <1>2, <1>6 DEF FinishTurn
<1>7. QED
  BY <1>1, <1>3, <1>4, <1>5, <1>6
  DEF Native, NativeTurnStarted, NativeResult, NativeIdleResult, NativeAsk, NativeInterrupted,
     NativeRenamed, NativeLost, NativeSteered

LEMMA OtherKeeps ==
  ASSUME StateInv, HandInv, Tail \/ Deadlines \/ Crash \/ Restart \/ UNCHANGED vars
  PROVE  Kept
<1> USE DEF StateInv, DeliveryInv, HandoffInv
<1>1. CASE AfterImmediate \/ Flag \/ Deadlines \/ UNCHANGED vars
  <2>1. UNCHANGED <<accepted, sent, row, current, prompt>>
    BY <1>1 DEF AfterImmediate, Flag, Deadlines, InitTimeout, TurnTimeout, HandoffTimeout,
       ImmediateTimeout, vars
  <2>2. QED BY <2>1, StutterOrLose, LoseIsKept
<1>2. CASE Fail \/ Crash
  <2>1. /\ UNCHANGED <<accepted, sent>> /\ prompt' = NoRequest
        /\ row' = row \/ row' = Quarantined
        /\ current' = NoRequest
    BY <1>2 DEF Fail, Crash, HandInv
  <2>2. QED BY <2>1, StutterOrLose, LoseIsKept
<1>3. CASE Restart
  <2>1. current' = NoRequest /\ prompt' = NoRequest
    BY <1>3 DEF Restart, HandInv, ProcessKept, Cleared
  <2>2. QED BY <1>3, <2>1, StutterOrLose, LoseIsKept DEF Restart
<1>4. CASE Settle
  <2>1. /\ UNCHANGED <<accepted, sent, current, prompt>> /\ pc = "settle"
        /\ row' = row \/ (Ended /\ row' = Quarantined)
    BY <1>4 DEF Settle
  <2>2. CASE row' = row BY <2>1, <2>2, StutterOrLose, LoseIsKept
  <2>3. CASE Ended /\ row' = Quarantined
    <3>1. prompt = NoRequest /\ current = NoRequest
      BY <2>1, <2>3 DEF Ended, StatusKept, HandInv
    <3>2. QED BY <2>1, <2>3, <3>1, StutterOrLose, LoseIsKept
  <2>4. QED BY <2>1, <2>2, <2>3
<1>5. CASE QueueError
  <2>1. row' = row
    BY <1>5 DEF QueueError, HandInv, Quarantined, Forwarded, TypeOK, DataOK
  <2>2. QED BY <1>5, <2>1, StutterOrLose, LoseIsKept DEF QueueError
<1>6. CASE ResolveImmediate
  <2>1. CASE row' = row /\ UNCHANGED <<accepted, current, prompt>>
    BY <1>6, <2>1, StutterOrLose, LoseIsKept DEF ResolveImmediate
  <2>2. CASE ImmediateDue /\ (Alive => CanStartTurn) /\ BeginTurn(immediate.id, "immediate")
    <3>1. pc = "immediate" /\ UNCHANGED sent BY <1>6 DEF ResolveImmediate
    <3>2. immediate.id \in Requests /\ row[immediate.id] = "pending" /\ Forwarded = {}
      BY <2>2, <3>1, ImmediateIsRequest DEF ImmediateDue, ImmediateKept
    <3>3. phase \in {"none", "between"} BY <2>2 DEF Alive, CanStartTurn, AdapterIdle
    <3>4. Promise!Admit(immediate.id) BY <2>2, <3>1, <3>2, <3>3, BeginTurnAdmits
    <3>5. QED BY <3>2, <3>4 DEF Kept, Promise!Next
  <2>3. QED BY <1>6, <2>1, <2>2 DEF ResolveImmediate
<1>7. CASE DrainQueue
  <2>1. pc = "auto" /\ UNCHANGED sent BY <1>7 DEF DrainQueue
  <2>2. CASE row' = row /\ UNCHANGED <<accepted, current, prompt>>
    BY <2>1, <2>2, StutterOrLose, LoseIsKept
  <2>3. ASSUME NEW r \in Requests, AutoDue, IsHead(r), BeginTurn(r, "auto") PROVE Kept
    <3>1. row[r] = "pending" /\ Forwarded = {} /\ phase \in {"none", "between"}
      BY <2>1, <2>3
      DEF IsHead, Pending, AutoDue, HandoffAgreement, Alive, CanStartTurn, AdapterIdle
    <3>2. Promise!Admit(r) BY <2>1, <2>3, <3>1, BeginTurnAdmits
    <3>3. QED BY <3>2 DEF Kept, Promise!Next
  <2>4. QED BY <1>7, <2>2, <2>3 DEF DrainQueue
<1>8. CASE StartTurn
  <2>1. /\ pc = "start" /\ current' = NoRequest /\ UNCHANGED <<accepted, row>>
        /\ prompt = NoRequest /\ current \in Requests /\ current \in accepted /\ sent[current] = 0
    BY <1>8, ConstantsAssumption
    DEF StartTurn, StartClean, SendInv, CommittedUnsent, TypeOK, DataOK
  <2>2. owedNow = {current} BY <2>1, ConstantsAssumption DEF owedNow
  <2>3. CASE sent' = Written(current) /\ UNCHANGED prompt
    <3>1. owedNow' = {} BY <2>1, <2>3 DEF owedNow
    <3>2. Promise!Deliver(current) BY <2>1, <2>2, <2>3, <3>1, WriteDelivers
    <3>3. QED BY <2>1, <3>2 DEF Kept, Promise!Next
  <2>4. CASE UNCHANGED sent /\ prompt' = current
    <3>1. UNCHANGED <<owedNow, placeOf, deliveredNow>>
      BY <2>1, <2>4 DEF owedNow, placeOf, deliveredNow
    <3>2. QED BY <3>1 DEF Kept, Promise!promptVars
  <2>5. CASE prompt' = NoRequest /\ sent' \in {sent, Written(current)}
    <3>1. owedNow' = {} /\ placeOf' = placeOf BY <2>1, <2>5 DEF owedNow, placeOf
    <3>2. deliveredNow' \in {deliveredNow \cup {}, deliveredNow \cup {current}}
      BY <2>1, <2>5 DEF deliveredNow, Written, TypeOK, DataOK
    <3>3. {} \in SUBSET owedNow /\ {current} \in SUBSET owedNow BY <2>2
    <3>4. Promise!LastDelivery BY <3>1, <3>2, <3>3 DEF Promise!LastDelivery
    <3>5. QED BY <3>4 DEF Kept, Promise!Next
  <2>6. QED BY <1>8, <2>1, <2>3, <2>4, <2>5 DEF StartTurn
<1>9. CASE WriteHandoff
  <2>1. /\ current \in Requests /\ row[current] = "forwarded" /\ sent[current] = 0
        /\ prompt = NoRequest /\ current' = NoRequest /\ sent' = Written(current)
        /\ UNCHANGED <<accepted, row, prompt>>
    BY <1>9 DEF WriteHandoff, SendInv, CommittedUnsent, HandInv
  <2>2. owedNow = {current} /\ owedNow' = {} BY <2>1, ConstantsAssumption DEF owedNow
  <2>3. Promise!Deliver(current) BY <2>1, <2>2, WriteDelivers
  <2>4. QED BY <2>1, <2>3 DEF Kept, Promise!Next
<1>10. QED
  BY <1>1, <1>2, <1>3, <1>4, <1>5, <1>6, <1>7, <1>8, <1>9 DEF Tail

\* The session actor keeps the promise of PromptDelivery: through every handler,
\* failure, crash and restart a prompt is admitted, handed over, delivered,
\* confirmed, refused, withdrawn or given up exactly as promised.
THEOREM ActorDelivers == Spec => DeliversAsPromised
<1>1. Init => Promise!Init
  BY DEF Init, Promise!Init, placeOf, owedNow, deliveredNow
<1>2. StateInv /\ HandInv /\ [Next]_vars => [Promise!Next]_(Promise!promptVars)
  <2> SUFFICES ASSUME StateInv, HandInv, [Next]_vars PROVE Kept
    BY DEF Kept
  <2>1. DeliveryInv BY DEF StateInv
  <2>2. QED BY <2>1, ClientKeeps, NativeKeeps, OtherKeeps DEF Next
<1>3. QED BY <1>1, <1>2, HandInvariant, PTL DEF Spec, DeliversAsPromised, Promise!Spec

-----------------------------------------------------------------------------
(* Messages stranded by a bad end. *)

\* A queue that runs by itself holds no stranded message, except on the way to
\* being paused; and what would make it run again, the end of "send now", is only
\* remembered when no message is stranded.
StrandedKept ==
  /\ stranded \subseteq Requests
  /\ \A r \in stranded : row[r] # "none"
  /\ immediate # NoImmediate /\ immediate.restore = "no" => stranded \cap Pending = {}
  /\ pc = "start" /\ origin = "send" => pause # "no" \/ Pending = {}
  /\ pc = "settle" /\ pause = "no" /\ ~(Ended /\ (Active(prev) \/ prev # status)) =>
       stranded \cap Pending = {}
  /\ pc \notin {"error", "queueError", "settle", "down"} /\ pause = "no" =>
       stranded \cap Pending = {}

\* The places where the loop has one step to take.
LEMMA WhoActs ==
  ASSUME Next
  PROVE  /\ pc = "settle" => Settle \/ Crash
         /\ pc = "error" => Fail \/ Crash
         /\ pc = "queueError" => QueueError \/ Crash
         /\ pc = "down" => Restart
<1> USE DEF EndActor, BeginTurn, FinishTurn
<1>1. CASE Client
  BY <1>1 DEF Client, StartActor, Refuse, Open, RenameTitle, StopHandedOff, StopTurn,
     StopNothing, Reorder, Clear, Resume, Answer, Close, CloseIfIdle, HandOff, Withdraw,
     Edit, Enqueue, SendNow, SendImmediately
<1>2. CASE Native
  BY <1>2 DEF Native, NativeReady, NativeTurnStarted, NativeResult, NativeIdleResult, NativeAsk,
     NativeInterrupted, NativeRenamed, NativeLost, NativeInputSettled, NativeSteered,
     NativeRejected
<1>3. CASE Tail \/ Deadlines
  BY <1>3 DEF Tail, Deadlines, Fail, Settle, ResolveImmediate, StartTurn, AfterImmediate, DrainQueue,
     QueueError, Flag, WriteHandoff, InitTimeout, TurnTimeout, HandoffTimeout, ImmediateTimeout
<1>4. CASE Crash \/ Restart BY <1>4 DEF Crash, Restart
<1>5. QED BY <1>1, <1>2, <1>3, <1>4 DEF Next

\* A message gets into the queue when it is new, or when the CLI sends it back.
LEMMA WhoWaits ==
  ASSUME TypeOK, [Next]_vars, NEW r \in Requests
  PROVE  /\ row'[r] = "pending" => row[r] \in {"pending", "none", "forwarded"}
         /\ row'[r] = "none" => row[r] = "none"
<1> USE DEF TypeOK, DataOK, EndActor, BeginTurn, FinishTurn, Quarantined, Consumed
<1>1. CASE Client
  BY <1>1 DEF Client, StartActor, Refuse, Open, RenameTitle, StopHandedOff, StopTurn,
     StopNothing, Reorder, Clear, Resume, Answer, Close, CloseIfIdle, HandOff, Withdraw,
     Edit, Enqueue, Fresh, SendNow, SendImmediately
<1>2. CASE Native
  BY <1>2 DEF Native, NativeReady, NativeTurnStarted, NativeResult, NativeIdleResult, NativeAsk,
     NativeInterrupted, NativeRenamed, NativeLost, NativeInputSettled, NativeSteered,
     NativeRejected, SentBack
<1>3. CASE Tail \/ Deadlines
  BY <1>3 DEF Tail, Deadlines, Fail, Settle, ResolveImmediate, StartTurn, AfterImmediate, DrainQueue,
     QueueError, Flag, WriteHandoff, InitTimeout, TurnTimeout, HandoffTimeout, ImmediateTimeout
<1>4. CASE Crash \/ Restart \/ UNCHANGED vars BY <1>4 DEF Crash, Restart, vars
<1>5. QED BY <1>1, <1>2, <1>3, <1>4 DEF Next

\* Every bad end pauses the queue, is about to, or finds it empty.
LEMMA BadEndPauses ==
  ASSUME StateInv, StrandedKept, [Next]_vars, BadEnd
  PROVE  /\ immediate' = NoImmediate /\ pc' # "start"
         /\ \/ pause' # "no" \/ Pending' = {} \/ pc' \in {"error", "queueError"}
            \/ pc' = "settle" /\ Ended' /\ prev' # status'
<1> USE DEF StateInv, DeliveryInv, HandoffInv
<1>1. CASE Client
  <2>1. status' # status /\ status' \in {"Failed", "Stopped", "Unknown"} => pause' # "no" /\ pc' # "start"
    BY <1>1 DEF Client, StartActor, Refuse, Open, RenameTitle, StopHandedOff, StopTurn,
     StopNothing, Reorder, Clear, Resume, Answer, AnsweredStatus, Close, CloseIfIdle, EndActor, HandOff,
     Withdraw, Edit, Enqueue, SendNow, BeginTurn, SendImmediately
  <2>2. ASSUME NEW r \in Requests, row[r] = "forwarded" PROVE row'[r] # "pending"
    BY <1>1, <2>2 DEF Client, StartActor, Refuse, Open, RenameTitle, StopHandedOff, StopTurn,
     StopNothing, Reorder, Clear, Resume, Answer, Close, CloseIfIdle, EndActor, HandOff, Withdraw,
     Edit, Enqueue, Fresh, SendNow, BeginTurn, SendImmediately, TypeOK, DataOK, Quarantined
  <2>3. QED BY <2>1, <2>2 DEF BadEnd
<1>2. CASE Native
  <2>1. ASSUME NEW ids, NEW failed, FinishTurn(ids, failed), status' # status,
               status' \in {"Failed", "Stopped", "Unknown"}
        PROVE  pc' = "settle" /\ prev' = prev /\ pc = "select"
    BY <2>1 DEF FinishTurn
  <2>2. ASSUME NEW ids, NEW failed, FinishTurn(ids, failed), NEW r \in Requests,
               row[r] = "forwarded"
        PROVE  row'[r] # "pending"
    BY <2>2 DEF FinishTurn, Consumed
  <2>3. ASSUME NEW ids, NEW failed, FinishTurn(ids, failed)
        PROVE  /\ immediate' = NoImmediate /\ pc' # "start"
               /\ pc' = "settle" /\ Ended' /\ prev' # status'
    BY <2>1, <2>2, <2>3 DEF BadEnd, StatusKept, Ended, Active
  <2>4. ASSUME NEW r \in Requests, NativeRejected(r)
        PROVE  immediate' = NoImmediate /\ pc' # "start" /\ pause' # "no"
    <3>1. pc = "select" /\ pc' = "settle" /\ UNCHANGED <<immediate, status>> BY <2>4 DEF NativeRejected
    <3>2. row[r] = "forwarded"
      BY <2>4, <3>1 DEF NativeRejected, BadEnd
    <3>3. immediate = NoImmediate BY <3>1, <3>2 DEF ImmediateKept, Forwarded
    <3>4. QED BY <2>4, <3>1, <3>2, <3>3 DEF NativeRejected, SentBack
  <2>5. ASSUME \A r \in Requests : ~NativeRejected(r),
               \A ids : \A failed : ~FinishTurn(ids, failed)
        PROVE  FALSE
    <3>1. ~(status' # status /\ status' \in {"Failed", "Stopped", "Unknown"})
      BY <1>2, <2>5 DEF Native, NativeReady, NativeTurnStarted, NativeResult, NativeIdleResult,
         NativeAsk, NativeInterrupted, NativeRenamed, NativeLost, NativeInputSettled, NativeSteered
    <3>2. row' = row \/ \E r \in Requests : row' = Consumed({r})
      BY <1>2, <2>5 DEF Native, NativeReady, NativeTurnStarted, NativeResult, NativeIdleResult,
         NativeAsk, NativeInterrupted, NativeRenamed, NativeLost, NativeInputSettled, NativeSteered
    <3>3. \A r \in Requests : row[r] = "forwarded" => row'[r] # "pending"
      BY <3>2 DEF Consumed
    <3>4. QED BY <3>1, <3>3 DEF BadEnd
  <2>6. QED BY <2>3, <2>4, <2>5
<1>3. CASE StartTurn
  <2>1. /\ pc = "start" /\ UNCHANGED <<row, pause, immediate>>
        /\ pc' = CASE origin = "send" -> "settle"
                   [] origin = "immediate" -> "after"
                   [] OTHER -> IF status' = "Failed" THEN "queueError" ELSE "flag"
        /\ status' # status => status' = "Failed"
    BY <1>3 DEF StartTurn
  <2>2. status' = "Failed" /\ immediate' = NoImmediate BY <2>1 DEF BadEnd
  <2>3. origin # "immediate" BY <2>1, <2>2 DEF ConfigsKept
  <2>4. CASE origin = "send"
    BY <2>1, <2>2, <2>4 DEF StrandedKept, Pending
  <2>5. QED BY <2>1, <2>2, <2>3, <2>4
<1>4. CASE Restart
  <2>1. Live # {} => pause' = "held" BY <1>4 DEF Restart, RestartPause
  <2>2. Pending' = Pending BY <1>4, PendingAfter DEF Restart
  <2>3. QED BY <1>4, <2>1, <2>2 DEF Restart, Live, ProcessKept
<1>5. CASE (Tail /\ ~StartTurn) \/ Deadlines \/ Crash \/ UNCHANGED vars
  <2>1. status' # status /\ status' \in {"Failed", "Stopped", "Unknown"} => Fail
    BY <1>5 DEF Tail, Deadlines, Settle, ResolveImmediate, BeginTurn, AfterImmediate,
     DrainQueue, QueueError, Flag, WriteHandoff, InitTimeout, TurnTimeout, HandoffTimeout,
     ImmediateTimeout, Crash, vars
  <2>2. row' = row \/ row' = Quarantined \/ \E r \in Requests, from \in {"auto", "immediate"} : BeginTurn(r, from)
    <3>1. ImmediateDue => immediate.id \in Requests BY ImmediateIsRequest DEF ImmediateDue
    <3>2. QED
      BY <1>5, <3>1 DEF Tail, Deadlines, Fail, Settle, ResolveImmediate, AfterImmediate,
       DrainQueue, QueueError, Flag, WriteHandoff, InitTimeout, TurnTimeout, HandoffTimeout,
       ImmediateTimeout, Crash, vars
  <2>3. \A r \in Requests : row[r] = "forwarded" => row'[r] # "pending"
    BY <2>2 DEF TypeOK, DataOK, Quarantined, BeginTurn
  <2>4. Fail BY <2>1, <2>3 DEF BadEnd
  <2>5. QED BY <2>4 DEF Fail
<1>6. QED BY <1>1, <1>2, <1>3, <1>4, <1>5 DEF Next

\* Without a bad end, nobody is newly stranded.
LEMMA FewerStranded ==
  ASSUME TypeOK, StrandedKept, ConsentNext, ~BadEnd
  PROVE  stranded' \subseteq stranded /\ stranded' \cap Pending' \subseteq stranded \cap Pending
<1>1. stranded' \subseteq stranded BY DEF ConsentNext
<1>2. ASSUME NEW r \in stranded, r \in Pending' PROVE r \in Pending
  <2>1. r \in Requests /\ row'[r] = "pending" /\ row[r] # "none"
    BY <1>2 DEF StrandedKept, Pending
  <2>2. row[r] # "forwarded" BY <2>1 DEF BadEnd
  <2>3. row[r] \in {"pending", "none", "forwarded"} BY <2>1, WhoWaits DEF ConsentNext
  <2>4. QED BY <2>1, <2>2, <2>3 DEF Pending
<1>3. QED BY <1>1, <1>2

\* How a paused queue comes to run: by the user's word, with nothing in it, or
\* after "send now" of a queue that was running.
LEMMA WhoLetsRun ==
  ASSUME StateInv, StrandedKept, ConsentNext, ~BadEnd, pause # "no", pause' = "no"
  PROVE  stranded' \cap Pending' = {}
<1>1. CASE Resume \/ Clear
  BY <1>1 DEF ConsentNext, Confirms
<1>2. ASSUME NEW r \in Requests, SendNow(r) PROVE Pending' = {}
  <2>1. Pending = {} /\ BeginTurn(r, "send") BY <1>2 DEF SendNow
  <2>2. Pending' = Pending \ {r} BY <2>1, PendingAfter DEF StateInv, DeliveryInv, HandoffInv
  <2>3. QED BY <2>1, <2>2
<1>3. CASE AfterImmediate
  <2>1. pc = "after" /\ immediate.restore = "no" BY <1>3 DEF AfterImmediate
  <2>2. immediate # NoImmediate BY <2>1 DEF StateInv, ConfigsKept
  <2>3. stranded \cap Pending = {} BY <2>1, <2>2 DEF StrandedKept
  <2>4. QED BY <2>3, FewerStranded DEF StateInv, DeliveryInv, HandoffInv
<1>4. CASE Restart
  <2>1. Pending = {} BY <1>4 DEF Restart, RestartPause, Live
  <2>2. Pending' = Pending
    BY <1>4, PendingAfter DEF Restart, StateInv, DeliveryInv, HandoffInv
  <2>3. QED BY <2>1, <2>2
<1>5. CASE Client
  <2>1. Resume \/ Clear \/ \E r \in Requests : SendNow(r)
    BY <1>5 DEF Client, StartActor, Refuse, Open, RenameTitle, StopHandedOff, StopTurn,
     StopNothing, Reorder, Answer, Close, CloseIfIdle, EndActor, HandOff, Withdraw,
     Edit, Enqueue, SendImmediately
  <2>2. QED BY <1>1, <1>2, <2>1
<1>6. CASE Native
  BY <1>6 DEF Native, NativeReady, NativeTurnStarted, NativeResult, NativeIdleResult, NativeAsk,
     NativeInterrupted, NativeRenamed, NativeLost, NativeInputSettled, NativeSteered,
     NativeRejected, SentBack, FinishTurn
<1>7. CASE (Tail /\ ~AfterImmediate) \/ Deadlines \/ Crash
  BY <1>7 DEF Tail, Deadlines, Fail, Settle, ResolveImmediate, StartTurn, DrainQueue,
     QueueError, Flag, WriteHandoff, InitTimeout, TurnTimeout, HandoffTimeout, ImmediateTimeout,
     Crash
<1>8. QED BY <1>3, <1>4, <1>5, <1>6, <1>7 DEF ConsentNext, Next

\* The message to send now is accepted when the actor listens.
LEMMA WhoSendsNow ==
  ASSUME Next, immediate' # immediate, immediate' # NoImmediate
  PROVE  pc = "select" /\ immediate'.restore = pause
<1>1. CASE Client
  <2>1. PICK r \in Requests, interrupt \in BOOLEAN : SendImmediately(r, interrupt)
    BY <1>1 DEF Client, StartActor, Refuse, Open, RenameTitle, StopHandedOff, StopTurn,
     StopNothing, Reorder, Clear, Resume, Answer, Close, CloseIfIdle, EndActor, HandOff, Withdraw,
     Edit, Enqueue, SendNow
  <2>2. pc = "select" /\ immediate' = [id |-> r, revision |-> revision[r], restore |-> pause]
    BY <2>1 DEF SendImmediately
  <2>3. QED BY <2>2
<1>2. CASE Native
  BY <1>2 DEF Native, NativeReady, NativeTurnStarted, NativeResult, NativeIdleResult, NativeAsk,
     NativeInterrupted, NativeRenamed, NativeLost, NativeInputSettled, NativeSteered,
     NativeRejected, FinishTurn
<1>3. CASE Tail \/ Deadlines \/ Crash \/ Restart
  BY <1>3 DEF Tail, Deadlines, Fail, Settle, ResolveImmediate, StartTurn, AfterImmediate, DrainQueue,
     QueueError, Flag, WriteHandoff, InitTimeout, TurnTimeout, HandoffTimeout, ImmediateTimeout,
     Crash, Restart
<1>4. QED BY <1>1, <1>2, <1>3 DEF Next

LEMMA NextStranded ==
  ASSUME StateInv, StrandedKept, [ConsentNext]_<<vars, stranded>>
  PROVE  StrandedKept'
<1> USE DEF StateInv, DeliveryInv, HandoffInv
<1>1. CASE UNCHANGED <<vars, stranded>>
  BY <1>1 DEF vars, StrandedKept, Pending, Ended, Active
<1>2. CASE ConsentNext
  <2> DEFINE Calm == stranded' \cap Pending' = {}
  <2>0. Next BY <1>2 DEF ConsentNext
  <2>1. stranded' \subseteq Requests /\ \A r \in stranded' : row'[r] # "none"
    <3>1. stranded' \subseteq stranded \cup {r \in Requests : row'[r] = "pending"}
      BY <1>2 DEF ConsentNext
    <3>2. \A r \in stranded : r \in Requests /\ row'[r] # "none"
      BY <2>0, WhoWaits DEF StrandedKept
    <3>3. QED BY <3>1, <3>2
  <2>2. immediate' # NoImmediate /\ immediate'.restore = "no" => Calm
    <3> SUFFICES ASSUME immediate' # NoImmediate, immediate'.restore = "no" PROVE Calm
      OBVIOUS
    <3>1. ~BadEnd BY <2>0, BadEndPauses
    <3>2. stranded \cap Pending = {} BY <2>0, WhoSendsNow DEF StrandedKept
    <3>3. QED BY <1>2, <3>1, <3>2, FewerStranded
  <2>3. pc' = "start" /\ origin' = "send" => pause' # "no" \/ Pending' = {}
    <3> SUFFICES ASSUME pc' = "start", origin' = "send" PROVE pause' # "no" \/ Pending' = {}
      OBVIOUS
    <3>1. PICK r \in Requests : SendNow(r)
      BY <2>0, WhoBegins DEF ResolveImmediate, DrainQueue, BeginTurn
    <3>2. BeginTurn(r, "send") /\ pc = "select" /\ ~Busy BY <3>1 DEF SendNow
    <3>3. Pending' = Pending \ {r} BY <3>2, PendingAfter
    <3>4. (pause' = "no" /\ Pending = {}) \/ pause' = pause BY <3>1 DEF SendNow
    <3>5. pause # "no" \/ Pending = {} BY <3>2 DEF WakeupKept, Busy, ConfigsKept
    <3>6. QED BY <3>3, <3>4, <3>5
  <2>4. ASSUME pause' = "no", pc' \notin {"error", "queueError", "down"},
               pc' = "settle" => ~(Ended' /\ (Active(prev)' \/ prev' # status'))
        PROVE  Calm
    <3>1. CASE BadEnd
      <4>1. Pending' = {} BY <2>0, <2>4, <3>1, BadEndPauses
      <4>2. QED BY <4>1
    <3>2. CASE ~BadEnd /\ pause # "no" BY <1>2, <2>4, <3>2, WhoLetsRun
    <3>3. CASE ~BadEnd /\ pause = "no"
      <4>1. CASE pc \in {"error", "queueError"}
        BY <2>0, <2>4, <4>1, WhoActs DEF Fail, QueueError, Crash
      <4>2. CASE pc = "down"
        <5>1. Restart BY <2>0, <4>2, WhoActs
        <5>2. Pending = {} BY <2>4, <5>1 DEF Restart, RestartPause, Live
        <5>3. QED BY <1>2, <3>3, <5>2, FewerStranded
      <4>3. CASE pc = "settle"
        <5>1. Settle BY <2>0, <2>4, <4>3, WhoActs DEF Crash
        <5>2. ~(Ended /\ (Active(prev) \/ prev # status)) BY <2>4, <5>1 DEF Settle
        <5>3. stranded \cap Pending = {} BY <3>3, <4>3, <5>2 DEF StrandedKept
        <5>4. QED BY <1>2, <3>3, <5>3, FewerStranded
      <4>4. CASE pc \notin {"error", "queueError", "settle", "down"}
        <5>1. stranded \cap Pending = {} BY <3>3, <4>4 DEF StrandedKept
        <5>2. QED BY <1>2, <3>3, <5>1, FewerStranded
      <4>5. QED BY <4>1, <4>2, <4>3, <4>4
    <3>4. QED BY <3>1, <3>2, <3>3
  <2>5. QED BY <2>1, <2>2, <2>3, <2>4 DEF StrandedKept
<1>3. QED BY <1>1, <1>2

\* Stop, close, failure and restart leave the queue paused: a message that was
\* waiting then is not started by the queue before the user has looked.
THEOREM StrandedStayPut == ConsentSpec => NoStrandedStart
<1>1. ConsentInit => Init /\ StrandedKept
  BY DEF ConsentInit, Init, StrandedKept, Pending
<1>2. [ConsentNext]_<<vars, stranded>> => [Next]_vars BY DEF ConsentNext
<1>3. ConsentSpec => Spec BY <1>1, <1>2, PTL DEF ConsentSpec, Spec
<1>4. StateInv /\ StrandedKept /\ [ConsentNext]_<<vars, stranded>> => StrandedKept'
  BY NextStranded
<1>5. ConsentSpec => [](StateInv /\ StrandedKept)
  BY <1>1, <1>3, <1>4, StateInvariant, PTL DEF ConsentSpec
<1>6. StateInv /\ StrandedKept /\ [ConsentNext]_<<vars, stranded>> =>
        [pc = "auto" /\ pc' = "start" => current' \notin stranded]_<<vars, stranded>>
  <2> SUFFICES ASSUME StateInv, StrandedKept, ConsentNext, pc = "auto", pc' = "start"
               PROVE  current' \notin stranded
    OBVIOUS
  <2>1. DrainQueue
    BY WhoBegins DEF ConsentNext, SendNow, ResolveImmediate
  <2>2. PICK r \in Requests : AutoDue /\ IsHead(r) /\ BeginTurn(r, "auto")
    BY <2>1 DEF DrainQueue
  <2>3. r \in Pending /\ current' = r /\ pause = "no" BY <2>2 DEF IsHead, BeginTurn, AutoDue
  <2>4. QED BY <2>3 DEF StrandedKept
<1>7. QED BY <1>5, <1>6, PTL DEF ConsentSpec, NoStrandedStart

-----------------------------------------------------------------------------
(* What the promise brings. *)

Author == INSTANCE PromptDeliveryProofs WITH
  place <- placeOf, owed <- owedNow, delivered <- deliveredNow

LEMMA PromiseOfAuthor == Promise!Spec => Author!Spec
<1>1. Promise!Init => Author!Init BY DEF Promise!Init, Author!Init
<1>2. [Promise!Next]_(Promise!promptVars) => [Author!Next]_(Author!promptVars)
  <2>1. ASSUME NEW r \in Requests
        PROVE  /\ Promise!Save(r) => Author!Save(r)
               /\ Promise!Admit(r) => Author!Admit(r)
               /\ Promise!HandOver(r) => Author!HandOver(r)
               /\ Promise!Deliver(r) => Author!Deliver(r)
               /\ Promise!Refuse(r) => Author!Refuse(r)
    BY DEF Promise!Save, Author!Save, Promise!Admit, Author!Admit, Promise!HandOver, Author!HandOver,
       Promise!Deliver, Author!Deliver, Promise!Refuse, Author!Refuse, Promise!In, Author!In
  <2>2. ASSUME NEW S \in SUBSET Requests
        PROVE  /\ Promise!Confirm(S) => Author!Confirm(S)
               /\ Promise!Withdraw(S) => Author!Withdraw(S)
    BY DEF Promise!Confirm, Author!Confirm, Promise!Withdraw, Author!Withdraw, Promise!In, Author!In
  <2>3. /\ Promise!LastDelivery => Author!LastDelivery
        /\ Promise!Lose => Author!Lose
        /\ UNCHANGED Promise!promptVars => UNCHANGED Author!promptVars
    BY DEF Promise!LastDelivery, Author!LastDelivery, Promise!Lose, Author!Lose,
       Promise!promptVars, Author!promptVars
  <2>4. QED BY <2>1, <2>2, <2>3 DEF Promise!Next, Author!Next
<1>3. QED BY <1>1, <1>2, PTL DEF Promise!Spec, Author!Spec

\* A request nobody has made, a message that waits and one that was taken back
\* are with no CLI, and no CLI can still be given them: their author may change
\* them or send them elsewhere.
THEOREM AuthorsKeepTheirs == Spec => []Promise!StillTheAuthors
<1>1. Author!StillTheAuthors => Promise!StillTheAuthors
  BY DEF Author!StillTheAuthors, Promise!StillTheAuthors
<1>2. QED
  BY <1>1, ActorDelivers, PromiseOfAuthor, Author!AuthorsDecide, PTL DEF DeliversAsPromised

\* A turn once begun, a confirmation, a doubt and a withdrawal are never undone.
THEOREM PlacesStayFinal == Spec => Promise!FinalPlaces
<1> DEFINE Final ==
      \A r \in Requests :
        placeOf[r] \in {"admitted", "confirmed", "uncertain", "withdrawn"} => placeOf'[r] = placeOf[r]
<1>1. [Final]_(Author!promptVars) => [Final]_(Promise!promptVars)
  BY DEF Author!promptVars, Promise!promptVars
<1>2. QED
  BY <1>1, ActorDelivers, PromiseOfAuthor, Author!PlacesAreFinal, PTL
  DEF DeliversAsPromised, Author!FinalPlaces, Promise!FinalPlaces
================================================================================
