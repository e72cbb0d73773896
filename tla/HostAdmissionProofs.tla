------------------------- MODULE HostAdmissionProofs -------------------------
(***************************************************************************)
(* RestoreAlone and ArchivedAtRest for any number of sessions, clients and *)
(* requests, with every timing window open; UpgradeSafe and TypeOK from a  *)
(* second invariant below.                                                 *)
(*                                                                         *)
(* Undo trusts a flag that may be stale and channels that may hold what    *)
(* others have given up.  What makes it safe is the close it sends each    *)
(* actor through that same channel.  The invariant says so: a session that *)
(* undo has passed is quiet, or undo still waits for its answer.           *)
(***************************************************************************)
EXTENDS HostAdmission, SequenceTheorems, FiniteSetTheorems, TLAPS

Messages == [kind : ToActor \cup {"cancel", "cancelIdle"}, number : Nat]
Ops == [kind : AllKinds \cup {"none"}, on : Sessions \cup {NoSession}, step : Steps,
        todo : SUBSET Sessions, number : Nat]

Typed ==
  /\ draining \in BOOLEAN /\ terminal \in BOOLEAN
  /\ run \in [Sessions -> BOOLEAN] /\ safe \in [Sessions -> BOOLEAN] /\ tail \in [Sessions -> BOOLEAN]
  /\ cli \in [Sessions -> BOOLEAN] /\ turn \in [Sessions -> BOOLEAN] /\ archived \in [Sessions -> BOOLEAN]
  /\ queue \in [Sessions -> {"empty", "held", "due"}]
  /\ chan \in [Sessions -> Seq(Messages)]
  /\ op \in [Clients -> Ops]
  /\ \A c \in Clients : IF op[c].step = "idle" THEN op[c] = NoOp
                        ELSE op[c].kind # "none" /\ op[c].on \in Sessions
  /\ requests \in Nat

Asking(c) == op[c].step # "idle"

\* What waits for the actor of s.
Elements(q) == {q[i] : i \in 1 .. Len(q)}
Waiting(s) == Elements(chan[s])

\* A session without an actor does nothing.
Actorless(s) == ~run[s] => ~turn[s] /\ ~cli[s] /\ queue[s] # "due" /\ chan[s] = <<>>

\* Nothing runs in s, and nothing that waits for its actor would start it.
Quiet(s) ==
  /\ ~turn[s] /\ ~cli[s] /\ queue[s] # "due"
  /\ \A m \in Waiting(s) : m.kind \notin {"send", "resume"}

\* The request holds its lock and may still do something.
InsideSteps == {"holding", "checked", "sent", "sweeping", "restoring", "closed"}
Inside(c) == op[c].step \in InsideSteps

Exclusion ==
  \A c, d \in Clients :
    c # d /\ op[c].kind \in Exclusive /\ Inside(c) /\ Inside(d) =>
      op[d].kind \notin Guarded \cup Exclusive

\* Every request has a number of its own, which no message had before it.
Numbered ==
  /\ \A c \in Clients : Asking(c) => op[c].number \in 1 .. requests
  /\ \A c, d \in Clients : c # d /\ Asking(c) /\ Asking(d) => op[c].number # op[d].number
  /\ \A s \in Sessions : \A m \in Waiting(s) : m.number \in 1 .. requests

\* The sessions whose actors owe c an answer.
Outstanding(c) == {s \in Sessions : \E m \in Waiting(s) : m.number = op[c].number}

\* What an undo or archive sends is a close of the right kind, to one actor at a
\* time.
Closing ==
  \A c \in Clients : op[c].kind \in Exclusive =>
    /\ op[c].step # "sent" /\ Inside(c) => Outstanding(c) = {}
    /\ op[c].step \in {"asked", "entered"} => Outstanding(c) = {}
    /\ \A s, t \in Outstanding(c) : s = t
    /\ \A s \in Outstanding(c) : \A m \in Waiting(s) : m.number = op[c].number =>
         /\ (op[c].kind = "undo" => m.kind = "cancelIdle")
         /\ (op[c].kind = "archive" => m.kind = "cancel" /\ s = op[c].on)

Kept ==
  \A c \in Clients :
    /\ op[c].kind # "undo" => op[c].step \notin {"sweeping", "restoring"}
    /\ op[c].kind \notin ToActor => op[c].step # "checked"

\* Undo has passed every session that is not in its list.
Swept ==
  \A c \in Clients : op[c].kind = "undo" /\ op[c].step \in {"sweeping", "sent", "restoring"} =>
    /\ ~terminal
    /\ \A s \in Sessions : s \notin op[c].todo => Quiet(s) \/ s \in Outstanding(c)
    /\ op[c].step = "restoring" => op[c].todo = {}

\* Archiving has closed its session, or waits for the answer.
ClosedFirst ==
  \A c \in Clients : op[c].kind = "archive" /\ op[c].step = "closed" =>
    Quiet(op[c].on)

\* An archived session is quiet, and no request that passed the flag will wake it.
Retired ==
  \A s \in Sessions : archived[s] =>
    /\ Quiet(s)
    /\ \A d \in Clients : op[d].kind \in {"send", "resume"} /\ op[d].on = s => op[d].step # "checked"

IInv ==
  /\ Typed /\ \A s \in Sessions : Actorless(s)
  /\ Exclusion /\ Numbered /\ Closing /\ Kept /\ Swept /\ ClosedFirst /\ Retired

-----------------------------------------------------------------------------
(* What waits in a channel. *)

\* A message at the end of a channel joins what waits there.
LEMMA ElementsOfAppend ==
  ASSUME NEW S, NEW q \in Seq(S), NEW m \in S
  PROVE  Elements(Append(q, m)) = Elements(q) \cup {m}
<1>1. Len(Append(q, m)) = Len(q) + 1 /\ Len(q) \in Nat BY AppendProperties
<1>2. \A i \in 1 .. Len(q) : Append(q, m)[i] = q[i] BY AppendProperties
<1>3. Append(q, m)[Len(q) + 1] = m BY AppendProperties
<1>4. 1 .. (Len(q) + 1) = (1 .. Len(q)) \cup {Len(q) + 1} BY <1>1
<1>5. QED BY <1>1, <1>2, <1>3, <1>4 DEF Elements

\* Taking the first message leaves the others, and what is behind it is exactly
\* what is at a later place.
LEMMA ElementsOfTail ==
  ASSUME NEW S, NEW q \in Seq(S), q # <<>>
  PROVE  /\ Head(q) \in Elements(q) /\ Head(q) \in S
         /\ Elements(Tail(q)) \subseteq Elements(q) /\ Tail(q) \in Seq(S)
         /\ \A x \in Elements(q) : x = Head(q) \/ x \in Elements(Tail(q))
         /\ \A x \in Elements(q) : x = Head(q) \/ \E i \in 2 .. Len(q) : q[i] = x
<1>1. Len(q) \in Nat \ {0} /\ Head(q) = q[1] /\ Len(Tail(q)) = Len(q) - 1 /\ Tail(q) \in Seq(S)
      /\ Head(q) \in S
  BY HeadTailProperties, EmptySeq, LenProperties
<1>2. \A i \in 1 .. Len(Tail(q)) : Tail(q)[i] = q[i + 1] BY <1>1, HeadTailProperties
<1>3. \A i \in 1 .. Len(q) : i = 1 \/ (i \in 2 .. Len(q) /\ i - 1 \in 1 .. Len(Tail(q)) /\ Tail(q)[i - 1] = q[i])
  BY <1>1, <1>2
<1>4. \A i \in 1 .. Len(Tail(q)) : i + 1 \in 1 .. Len(q) BY <1>1
<1>5. Head(q) \in Elements(q)
  <2>1. 1 \in 1 .. Len(q) BY <1>1
  <2>2. QED BY <1>1, <2>1 DEF Elements
<1>6. Elements(Tail(q)) \subseteq Elements(q) BY <1>2, <1>4 DEF Elements
<1>7. ASSUME NEW x \in Elements(q)
      PROVE  /\ x = Head(q) \/ x \in Elements(Tail(q))
             /\ x = Head(q) \/ \E i \in 2 .. Len(q) : q[i] = x
  <2>1. PICK i \in 1 .. Len(q) : x = q[i] BY <1>7 DEF Elements
  <2>2. CASE i = 1 BY <1>1, <2>1, <2>2
  <2>3. CASE i # 1
    <3>1. i \in 2 .. Len(q) /\ i - 1 \in 1 .. Len(Tail(q)) /\ Tail(q)[i - 1] = q[i] BY <1>3, <2>3
    <3>2. x \in Elements(Tail(q)) BY <2>1, <3>1 DEF Elements
    <3>3. QED BY <2>1, <3>1, <3>2
  <2>4. QED BY <2>2, <2>3
<1>8. QED BY <1>1, <1>5, <1>6, <1>7

\* Nothing waits in an empty channel.
LEMMA ElementsOfEmpty == Elements(<<>>) = {}
BY DEF Elements

-----------------------------------------------------------------------------
(* Three kinds of steps.  First: a request moves on and the actors are as    *)
(* they were.                                                               *)

\* Sessions that are as they were are as quiet as they were.
LEMMA SameSessions ==
  ASSUME UNCHANGED actors
  PROVE  /\ \A s \in Sessions : Waiting(s)' = Waiting(s) /\ Quiet(s)' = Quiet(s)
         /\ (\A s \in Sessions : Actorless(s)) => (\A s \in Sessions : Actorless(s))'
BY DEF actors, Waiting, Quiet, Actorless

\* No request that has passed the archive flag of s would wake it.
Unwanted(s) == \A d \in Clients : op[d].kind \in {"send", "resume"} /\ op[d].on = s => op[d].step # "checked"

\* A request takes its next step.  What each step relies on is a hypothesis.
LEMMA MovingOn ==
  ASSUME IInv, UNCHANGED <<actors, requests>>,
         draining' \in BOOLEAN, terminal' \in BOOLEAN, archived' \in [Sessions -> BOOLEAN],
         NEW c \in Clients, NEW x \in Steps, NEW T \in SUBSET Sessions,
         op' \in [Clients -> Ops], op'[c] = [op[c] EXCEPT !.step = x, !.todo = T],
         \A d \in Clients : d # c => op'[d] = op[d],
         op[c].step # "idle", x \notin {"idle", "asked", "sent"},
         x \in InsideSteps => Inside(c) \/ (op[c].step = "entered" /\ FreeToHold(op[c].kind)),
         x \in InsideSteps \cup {"entered"} => op[c].step # "sent" /\ (Inside(c) \/ op[c].step \in {"asked", "entered"}),
         x \in {"sweeping", "restoring"} =>
           /\ op[c].kind = "undo" /\ ~terminal
           /\ \A s \in Sessions : s \notin T => Quiet(s)
           /\ x = "restoring" => T = {},
         x = "closed" /\ op[c].kind = "archive" => Quiet(op[c].on),
         x = "checked" => ~archived'[op[c].on] /\ op[c].kind \in ToActor,
         terminal' => terminal \/ (Inside(c) /\ op[c].kind \in Guarded),
         \A s \in Sessions : archived'[s] => archived[s] \/ (Quiet(s) /\ x # "checked" /\ Unwanted(s))
  PROVE  IInv'
<1>1. op[c] \in Ops /\ op'[c] \in Ops BY DEF IInv, Typed
<1>2. /\ op'[c].kind = op[c].kind /\ op'[c].on = op[c].on /\ op'[c].todo = T
      /\ op'[c].number = op[c].number /\ op'[c].step = x
  BY <1>1 DEF Ops
<1>3. \A d \in Clients :
        /\ op'[d].kind = op[d].kind /\ op'[d].on = op[d].on /\ op'[d].number = op[d].number
        /\ d # c => op'[d].step = op[d].step /\ op'[d].todo = op[d].todo
  <2> TAKE d \in Clients
  <2>1. CASE d = c BY <1>2, <2>1
  <2>2. CASE d # c
    <3>1. op'[d] = op[d] BY <2>2
    <3>2. QED BY <2>2, <3>1
  <2>3. QED BY <2>1, <2>2
<1>4. \A d \in Clients : Outstanding(d)' = Outstanding(d)
  BY <1>3, SameSessions DEF Outstanding
<1>5. Typed'
  <2>1. \A d \in Clients : IF op'[d].step = "idle" THEN op'[d] = NoOp
                           ELSE op'[d].kind # "none" /\ op'[d].on \in Sessions
    <3> TAKE d \in Clients
    <3>1. CASE d = c BY <1>2, <3>1 DEF Typed, IInv
    <3>2. CASE d # c
      <4>1. op'[d] = op[d] BY <3>2
      <4>2. QED BY <4>1 DEF Typed, IInv
    <3>3. QED BY <3>1, <3>2
  <2>2. QED BY <2>1 DEF Typed, IInv, actors
<1>6. (\A s \in Sessions : Actorless(s))' BY SameSessions DEF IInv
<1>7. Exclusion'
  <2>1. \A d \in Clients : Inside(d) => Holds(d) BY DEF Inside, InsideSteps, Holds, Entered
  <2>2. CASE Inside(c)
    BY <1>3, <2>2 DEF Exclusion, Inside, IInv
  <2>3. CASE x \notin InsideSteps
    BY <1>2, <1>3, <2>3 DEF Exclusion, Inside, IInv
  <2>4. CASE op[c].step = "entered" /\ FreeToHold(op[c].kind)
    <3>1. \A d \in Clients : d # c /\ Inside(d) /\ op[c].kind \in Exclusive => op[d].kind \notin Guarded \cup Exclusive
      BY <2>1, <2>4 DEF FreeToHold, ExclusiveHeld, SharedHeld
    <3>2. \A d \in Clients : d # c /\ Inside(d) /\ op[d].kind \in Exclusive => op[c].kind \notin Guarded \cup Exclusive
      BY <2>1, <2>4 DEF FreeToHold, ExclusiveHeld, SharedHeld
    <3>3. QED BY <1>3, <3>1, <3>2 DEF Exclusion, Inside, IInv
  <2>5. QED BY <2>2, <2>3, <2>4
<1>8. Numbered'
  <2>1. \A s \in Sessions : Waiting(s)' = Waiting(s) BY SameSessions
  <2>2. \A d \in Clients : Asking(d)' = Asking(d) BY <1>2, <1>3 DEF Asking
  <2>3. QED BY <1>3, <2>1, <2>2 DEF Numbered, IInv
<1>9. Closing'
  <2>1. \A s \in Sessions : Waiting(s)' = Waiting(s) BY SameSessions
  <2>2. ASSUME NEW d \in Clients, op'[d].kind \in Exclusive
        PROVE  /\ op'[d].step # "sent" /\ Inside(d)' => Outstanding(d) = {}
               /\ op'[d].step \in {"asked", "entered"} => Outstanding(d) = {}
    BY <1>2, <1>3, <2>2 DEF Closing, Inside, IInv
  <2>3. \A d \in Clients : \A s \in Outstanding(d) : s \in Sessions BY DEF Outstanding
  <2>4. QED BY <1>3, <1>4, <2>1, <2>2, <2>3 DEF Closing, IInv
<1>10. Kept' BY <1>2, <1>3 DEF Kept, IInv
<1>11. Swept'
  <2>1. ASSUME NEW d \in Clients, d # c, op[d].kind = "undo", op[d].step \in {"sweeping", "sent", "restoring"}
        PROVE  ~terminal' /\ ~terminal
    <3>1. ~terminal BY <2>1 DEF Swept, IInv
    <3>2. Inside(d) /\ op[d].kind \in Exclusive BY <2>1 DEF Inside, InsideSteps, Exclusive
    <3>3. ~(Inside(c) /\ op[c].kind \in Guarded) BY <2>1, <3>2 DEF Exclusion, IInv
    <3>4. QED BY <3>1, <3>3
  <2>2. ASSUME op[c].kind = "undo", x \in {"sweeping", "restoring"}
        PROVE  ~terminal'
    BY <2>2 DEF Guarded
  <2>3. \A d \in Clients : d # c /\ op'[d].kind = "undo" /\ op'[d].step \in {"sweeping", "sent", "restoring"} =>
          /\ ~terminal'
          /\ \A s \in Sessions : s \notin op'[d].todo => Quiet(s)' \/ s \in Outstanding(d)'
          /\ op'[d].step = "restoring" => op'[d].todo = {}
    BY <1>3, <1>4, <2>1, SameSessions DEF Swept, IInv
  <2>4. op'[c].kind = "undo" /\ op'[c].step \in {"sweeping", "sent", "restoring"} =>
          /\ ~terminal'
          /\ \A s \in Sessions : s \notin op'[c].todo => Quiet(s)' \/ s \in Outstanding(c)'
          /\ op'[c].step = "restoring" => op'[c].todo = {}
    BY <1>2, <2>2, SameSessions
  <2>5. QED BY <2>3, <2>4 DEF Swept
<1>12. ClosedFirst'
  <2>1. ASSUME NEW d \in Clients, op'[d].kind = "archive", op'[d].step = "closed"
        PROVE  Quiet(op[d].on) /\ op[d].on \in Sessions
    BY <1>2, <1>3, <2>1 DEF ClosedFirst, IInv, Typed
  <2>2. QED BY <1>3, <2>1, SameSessions DEF ClosedFirst
<1>13. Retired'
  <2>1. ASSUME NEW s \in Sessions, archived'[s] PROVE Quiet(s)
    BY <2>1 DEF Retired, IInv
  <2>2. ASSUME NEW s \in Sessions, archived'[s], NEW d \in Clients, op[d].kind \in {"send", "resume"}, op[d].on = s
        PROVE  op'[d].step # "checked"
    <3>1. CASE d = c BY <1>2, <2>2, <3>1
    <3>2. CASE d # c
      <4>1. op[d].step # "checked" BY <2>2 DEF Retired, Unwanted, IInv
      <4>2. QED BY <1>3, <3>2, <4>1
    <3>3. QED BY <3>1, <3>2
  <2>3. QED BY <1>3, <2>1, <2>2, SameSessions DEF Retired
<1>14. QED BY <1>5, <1>6, <1>7, <1>8, <1>9, <1>10, <1>11, <1>12, <1>13 DEF IInv

-----------------------------------------------------------------------------
(* Second: a request puts a message in the channel of s.                     *)

LEMMA Pushing ==
  ASSUME IInv, UNCHANGED <<terminal, tail, cli, turn, queue, archived, requests, draining>>,
         NEW c \in Clients, NEW s \in Sessions, NEW k \in ToActor \cup {"cancel", "cancelIdle"},
         NEW T \in SUBSET Sessions, Push(s, c, k),
         run' = [run EXCEPT ![s] = TRUE], safe' \in [Sessions -> BOOLEAN],
         op' \in [Clients -> Ops], op'[c] = [op[c] EXCEPT !.step = "sent", !.todo = T],
         \A d \in Clients : d # c => op'[d] = op[d],
         Inside(c), op[c].step # "sent",
         k \in {"send", "resume"} => op[c].kind = k /\ op[c].step = "checked" /\ op[c].on = s,
         op[c].kind = "undo" => k = "cancelIdle" /\ op[c].step = "sweeping" /\ T = op[c].todo \ {s},
         op[c].kind = "archive" => k = "cancel" /\ s = op[c].on
  PROVE  IInv'
<1> DEFINE m == [kind |-> k, number |-> op[c].number]
<1>1. op[c] \in Ops /\ op'[c] \in Ops /\ op[c].step # "idle"
  BY DEF IInv, Typed, Inside, InsideSteps
<1>2. /\ op'[c].kind = op[c].kind /\ op'[c].on = op[c].on /\ op'[c].todo = T
      /\ op'[c].number = op[c].number /\ op'[c].step = "sent"
  BY <1>1 DEF Ops
<1>3. \A d \in Clients :
        /\ op'[d].kind = op[d].kind /\ op'[d].on = op[d].on /\ op'[d].number = op[d].number
        /\ d # c => op'[d].step = op[d].step /\ op'[d].todo = op[d].todo
  <2> TAKE d \in Clients
  <2>1. CASE d = c BY <1>2, <2>1
  <2>2. CASE d # c
    <3>1. op'[d] = op[d] BY <2>2
    <3>2. QED BY <2>2, <3>1
  <2>3. QED BY <2>1, <2>2
<1>4. m \in Messages /\ chan \in [Sessions -> Seq(Messages)]
  BY <1>1 DEF Messages, Ops, IInv, Typed
<1>5. /\ chan' \in [Sessions -> Seq(Messages)]
      /\ chan'[s] = Append(chan[s], m) /\ \A t \in Sessions : t # s => chan'[t] = chan[t]
  BY <1>4 DEF Push
<1>6. /\ Waiting(s)' = Waiting(s) \cup {m}
      /\ \A t \in Sessions : t # s => Waiting(t)' = Waiting(t)
  <2>1. chan[s] \in Seq(Messages) BY <1>4
  <2>2. Elements(Append(chan[s], m)) = Elements(chan[s]) \cup {m} BY <1>4, <2>1, ElementsOfAppend
  <2>3. QED BY <1>5, <2>2 DEF Waiting
<1>7. \A t \in Sessions : Quiet(t) /\ (t = s => k \notin {"send", "resume"}) => Quiet(t)'
  BY <1>6 DEF Quiet
<1>8. \A d \in Clients : d # c /\ Asking(d) => Outstanding(d)' = Outstanding(d)
  <2>1. ASSUME NEW d \in Clients, d # c, Asking(d) PROVE m.number # op[d].number
    BY <1>1, <2>1 DEF IInv, Numbered, Asking
  <2>2. ASSUME NEW d \in Clients, d # c, Asking(d), NEW t \in Sessions
        PROVE  (\E n \in Waiting(t)' : n.number = op'[d].number) <=> (\E n \in Waiting(t) : n.number = op[d].number)
    BY <1>3, <1>6, <2>1, <2>2
  <2>3. QED BY <2>2 DEF Outstanding
<1>9. op[c].kind \in Exclusive => Outstanding(c) = {} /\ Outstanding(c)' = {s}
  <2>1. ASSUME op[c].kind \in Exclusive PROVE Outstanding(c) = {}
    BY <2>1 DEF IInv, Closing
  <2>2. ASSUME op[c].kind \in Exclusive PROVE Outstanding(c)' = {s}
    <3>1. \A t \in Sessions : \A n \in Waiting(t) : n.number # op[c].number BY <2>1, <2>2 DEF Outstanding
    <3>2. m.number = op'[c].number BY <1>2
    <3>3. ASSUME NEW t \in Sessions PROVE (\E n \in Waiting(t)' : n.number = op'[c].number) <=> t = s
      <4>1. CASE t = s
        <5>1. m \in Waiting(s)' BY <1>6
        <5>2. QED BY <3>2, <4>1, <5>1
      <4>2. CASE t # s BY <1>2, <1>6, <3>1, <4>2
      <4>3. QED BY <4>1, <4>2
    <3>4. QED BY <3>3 DEF Outstanding
  <2>3. QED BY <2>1, <2>2
<1>10. \A d \in Clients : op[d].kind \in Exclusive => Asking(d)
  BY DEF IInv, Typed, NoOp, Exclusive, Asking
<1>11. Typed'
  <2>1. \A d \in Clients : IF op'[d].step = "idle" THEN op'[d] = NoOp
                           ELSE op'[d].kind # "none" /\ op'[d].on \in Sessions
    <3> TAKE d \in Clients
    <3>1. CASE d = c BY <1>1, <1>2, <3>1 DEF Typed, IInv
    <3>2. CASE d # c
      <4>1. op'[d] = op[d] BY <3>2
      <4>2. QED BY <4>1 DEF Typed, IInv
    <3>3. QED BY <3>1, <3>2
  <2>2. QED BY <1>5, <2>1 DEF Typed, IInv
<1>12. (\A t \in Sessions : Actorless(t))'
  BY <1>5 DEF IInv, Typed, Actorless
<1>13. \A d \in Clients : Inside(d)' = Inside(d)
  <2> TAKE d \in Clients
  <2>1. CASE d = c BY <1>2, <2>1 DEF Inside, InsideSteps
  <2>2. CASE d # c BY <1>3, <2>2 DEF Inside
  <2>3. QED BY <2>1, <2>2
<1>14. Exclusion' BY <1>3, <1>13 DEF Exclusion, IInv
<1>15. Numbered'
  <2>1. \A d \in Clients : Asking(d)' = Asking(d) BY <1>1, <1>2, <1>3 DEF Asking
  <2>2. m.number \in 1 .. requests BY <1>1 DEF IInv, Numbered, Asking
  <2>3. QED BY <1>3, <1>6, <2>1, <2>2 DEF Numbered, IInv
<1>16. Closing'
  <2>1. ASSUME NEW d \in Clients, d # c, op'[d].kind \in Exclusive
        PROVE  /\ op'[d].step # "sent" /\ Inside(d)' => Outstanding(d)' = {}
               /\ op'[d].step \in {"asked", "entered"} => Outstanding(d)' = {}
               /\ \A t, u \in Outstanding(d)' : t = u
    <3>1. op[d].kind \in Exclusive /\ Asking(d) BY <1>3, <1>10, <2>1
    <3>2. Outstanding(d)' = Outstanding(d) BY <1>8, <2>1, <3>1
    <3>3. QED BY <1>3, <1>13, <2>1, <3>1, <3>2 DEF Closing, IInv
  <2>2. ASSUME NEW d \in Clients, d # c, op'[d].kind \in Exclusive, NEW t \in Outstanding(d)',
               NEW n \in Waiting(t)', n.number = op'[d].number
        PROVE  /\ op'[d].kind = "undo" => n.kind = "cancelIdle"
               /\ op'[d].kind = "archive" => n.kind = "cancel" /\ t = op'[d].on
    <3>1. op[d].kind \in Exclusive /\ Asking(d) BY <1>3, <1>10, <2>2
    <3>2. t \in Outstanding(d) BY <1>8, <2>2, <3>1
    <3>3. t \in Sessions BY <3>2 DEF Outstanding
    <3>4. n # m BY <1>1, <1>3, <2>2, <3>1 DEF IInv, Numbered, Asking
    <3>5. n \in Waiting(t) BY <1>6, <2>2, <3>3, <3>4
    <3>6. QED BY <1>3, <2>2, <3>1, <3>2, <3>5 DEF Closing, IInv
  <2>3. ASSUME op'[c].kind \in Exclusive
        PROVE  /\ op'[c].step = "sent" /\ \A t, u \in Outstanding(c)' : t = u
               /\ \A t \in Outstanding(c)' : \A n \in Waiting(t)' : n.number = op'[c].number =>
                    /\ (op'[c].kind = "undo" => n.kind = "cancelIdle")
                    /\ (op'[c].kind = "archive" => n.kind = "cancel" /\ t = op'[c].on)
    <3>1. Outstanding(c)' = {s} /\ Outstanding(c) = {} BY <1>2, <1>9, <2>3
    <3>2. \A n \in Waiting(s) : n.number # op[c].number BY <3>1 DEF Outstanding
    <3>3. \A n \in Waiting(s)' : n.number = op'[c].number => n = m BY <1>2, <1>6, <3>2
    <3>4. QED BY <1>2, <2>3, <3>1, <3>3 DEF Exclusive
  <2>4. QED BY <2>1, <2>2, <2>3 DEF Closing
<1>17. Kept' BY <1>2, <1>3 DEF Kept, IInv
<1>18. ASSUME NEW d \in Clients, d # c, op[d].kind \in Exclusive, Inside(d)
       PROVE  k \notin {"send", "resume"}
  BY <1>18 DEF IInv, Exclusion, Guarded
<1>19. Swept'
  <2>1. ASSUME NEW d \in Clients, op'[d].kind = "undo", op'[d].step \in {"sweeping", "sent", "restoring"}
        PROVE  /\ ~terminal'
               /\ \A t \in Sessions : t \notin op'[d].todo => Quiet(t)' \/ t \in Outstanding(d)'
               /\ op'[d].step = "restoring" => op'[d].todo = {}
    <3>1. CASE d = c
      <4>1. op[c].kind = "undo" /\ op[c].step = "sweeping" /\ T = op[c].todo \ {s} /\ Outstanding(c)' = {s} /\ Outstanding(c) = {}
        BY <1>2, <1>9, <2>1, <3>1 DEF Exclusive
      <4>2. ~terminal /\ \A t \in Sessions : t \notin op[c].todo => Quiet(t)
        BY <4>1 DEF Swept, IInv
      <4>3. QED BY <1>2, <1>7, <3>1, <4>1, <4>2
    <3>2. CASE d # c
      <4>1. op[d].kind = "undo" /\ op[d].step \in {"sweeping", "sent", "restoring"} /\ op[d].kind \in Exclusive /\ Inside(d)
        BY <1>3, <2>1, <3>2 DEF Exclusive, Inside, InsideSteps
      <4>2. Outstanding(d)' = Outstanding(d) BY <1>8, <1>10, <3>2, <4>1
      <4>3. QED BY <1>3, <1>7, <1>18, <3>2, <4>1, <4>2 DEF Swept, IInv
    <3>3. QED BY <3>1, <3>2
  <2>2. QED BY <2>1 DEF Swept
<1>20. ClosedFirst'
  <2>1. ASSUME NEW d \in Clients, op'[d].kind = "archive", op'[d].step = "closed" PROVE Quiet(op[d].on)' /\ op'[d].on = op[d].on
    <3>1. d # c BY <1>2, <2>1
    <3>2. op[d].kind \in Exclusive /\ Inside(d) /\ Quiet(op[d].on) /\ op[d].on \in Sessions
      BY <1>3, <2>1, <3>1 DEF Exclusive, Inside, InsideSteps, ClosedFirst, IInv, Typed
    <3>3. Quiet(op[d].on)' BY <1>7, <1>18, <3>1, <3>2
    <3>4. QED BY <1>3, <3>3
  <2>2. QED BY <2>1 DEF ClosedFirst
<1>21. Retired'
  <2>1. ASSUME NEW t \in Sessions, archived[t] PROVE Quiet(t)'
    <3>1. Quiet(t) BY <2>1 DEF Retired, IInv
    <3>2. t = s => k \notin {"send", "resume"} BY <2>1 DEF Retired, IInv
    <3>3. QED BY <1>7, <3>1, <3>2
  <2>2. ASSUME NEW t \in Sessions, archived[t], NEW d \in Clients, op'[d].kind \in {"send", "resume"}, op'[d].on = t
        PROVE  op'[d].step # "checked"
    BY <1>2, <1>3, <2>2 DEF Retired, IInv
  <2>3. QED BY <2>1, <2>2 DEF Retired
<1>22. QED BY <1>11, <1>12, <1>14, <1>15, <1>16, <1>17, <1>19, <1>20, <1>21 DEF IInv

-----------------------------------------------------------------------------
(* Third: the actor of s takes a message, and those who wait are answered.   *)

\* Nobody's request changes but for its step, and only where it was answered.
LEMMA Answers ==
  ASSUME Typed, NEW taken, NEW lost, op' = Replied(taken, lost)
  PROVE  /\ op' \in [Clients -> Ops]
         /\ \A d \in Clients :
              /\ op'[d].kind = op[d].kind /\ op'[d].on = op[d].on /\ op'[d].todo = op[d].todo
              /\ op'[d].number = op[d].number
              /\ op'[d] = op[d] \/
                   /\ op[d].step = "sent" /\ op[d].number \in taken \cup lost
                   /\ op'[d].step \in {"refused", "sweeping", "closed", "done"}
                   /\ op'[d].step # "refused" => op[d].number \in taken /\ op[d].number \notin lost
                   /\ op'[d].step = "sweeping" => op[d].kind = "undo"
              /\ op[d].step = "sent" /\ op[d].number \in lost => op'[d].step = "refused"
              /\ op[d].step = "sent" /\ op[d].number \in taken => op'[d].step # "sent"
<1>1. \A d \in Clients :
        op'[d] = IF op[d].step # "sent" \/ op[d].number \notin taken \cup lost THEN op[d]
                 ELSE [op[d] EXCEPT !.step = IF op[d].number \in lost THEN "refused"
                                 ELSE CASE op[d].kind = "undo" -> "sweeping"
                                        [] op[d].kind \in {"archive", "close"} -> "closed"
                                        [] OTHER -> "done"]
  BY DEF Replied
<1>2. \A d \in Clients : op[d] \in Ops BY DEF Typed
<1>3. ASSUME NEW d \in Clients
      PROVE  /\ op'[d] \in Ops
             /\ op'[d].kind = op[d].kind /\ op'[d].on = op[d].on /\ op'[d].todo = op[d].todo
             /\ op'[d].number = op[d].number
             /\ op'[d] = op[d] \/
                  /\ op[d].step = "sent" /\ op[d].number \in taken \cup lost
                  /\ op'[d].step \in {"refused", "sweeping", "closed", "done"}
                  /\ op'[d].step # "refused" => op[d].number \in taken /\ op[d].number \notin lost
                  /\ op'[d].step = "sweeping" => op[d].kind = "undo"
             /\ op[d].step = "sent" /\ op[d].number \in lost => op'[d].step = "refused"
             /\ op[d].step = "sent" /\ op[d].number \in taken => op'[d].step # "sent"
  <2>1. CASE op[d].step # "sent" \/ op[d].number \notin taken \cup lost
    BY <1>1, <1>2, <2>1
  <2>2. CASE ~(op[d].step # "sent" \/ op[d].number \notin taken \cup lost) /\ op[d].number \in lost
    <3>1. op'[d] = [op[d] EXCEPT !.step = "refused"] BY <1>1, <2>2
    <3>2. QED BY <1>2, <2>2, <3>1 DEF Ops, Steps
  <2>3. CASE ~(op[d].step # "sent" \/ op[d].number \notin taken \cup lost) /\ op[d].number \notin lost
    <3>1. PICK x \in {"sweeping", "closed", "done"} :
            op'[d] = [op[d] EXCEPT !.step = x] /\ (x = "sweeping" => op[d].kind = "undo")
      BY <1>1, <2>3
    <3>2. QED BY <1>2, <2>3, <3>1 DEF Ops, Steps
  <2>4. QED BY <2>1, <2>2, <2>3
<1>4. op' \in [Clients -> Ops] BY <1>3 DEF Replied
<1>5. QED BY <1>3, <1>4

LEMMA Receiving ==
  ASSUME IInv, NEW s \in Sessions, Receive(s)
  PROVE  IInv'
<1> DEFINE m == Head(chan[s])
           ends == m.kind = "cancel" \/ (m.kind = "cancelIdle" /\ ~Vetoed(s))
           behind == {chan[s][i].number : i \in 2 .. Len(chan[s])}
           taken == IF ~ends /\ m.kind = "cancelIdle" THEN {} ELSE {m.number}
           lost == IF ends THEN behind ELSE IF m.kind = "cancelIdle" THEN {m.number} ELSE {}
<1>1. /\ run[s] /\ chan[s] # <<>> /\ chan[s] \in Seq(Messages) /\ chan \in [Sessions -> Seq(Messages)]
  BY DEF IInv, Typed, Receive
<1>2. /\ m \in Waiting(s) /\ m \in Messages /\ Tail(chan[s]) \in Seq(Messages)
      /\ Elements(Tail(chan[s])) \subseteq Waiting(s)
      /\ \A n \in Waiting(s) : n = m \/ n \in Elements(Tail(chan[s]))
      /\ \A n \in Waiting(s) : n = m \/ n.number \in behind
  <2>1. \A n \in Elements(chan[s]) : n = Head(chan[s]) \/ \E i \in 2 .. Len(chan[s]) : chan[s][i] = n
    BY <1>1, ElementsOfTail
  <2>2. \A n \in Waiting(s) : n = m \/ n.number \in behind BY <2>1 DEF Waiting
  <2>3. QED BY <1>1, <2>2, ElementsOfTail DEF Waiting
<1>3. op' = Replied(taken, lost) BY DEF Receive
<1>4. /\ chan' = [chan EXCEPT ![s] = IF ends THEN <<>> ELSE Tail(chan[s])]
      /\ run' = [run EXCEPT ![s] = ~ends]
      /\ UNCHANGED <<draining, terminal, archived, requests, windows>>
  BY DEF Receive, Behind
<1>5. /\ cli' = [cli EXCEPT ![s] = ~ends /\ (cli[s] \/ (m.kind = "send" /\ queue[s] = "empty"))]
      /\ turn' = [turn EXCEPT ![s] = ~ends /\ (turn[s] \/ (m.kind = "send" /\ queue[s] = "empty"))]
      /\ queue' = [queue EXCEPT ![s] = QueueAfter(s, m.kind, ends)]
  BY DEF Receive
<1>6. /\ safe' \in [Sessions -> BOOLEAN] /\ tail' \in [Sessions -> BOOLEAN]
  BY DEF Receive, IInv, Typed
<1> HIDE DEF m, ends, behind, taken, lost
<1>7. /\ chan' \in [Sessions -> Seq(Messages)]
      /\ chan'[s] = IF ends THEN <<>> ELSE Tail(chan[s])
      /\ \A t \in Sessions : t # s => chan'[t] = chan[t]
  <2>1. <<>> \in Seq(Messages) BY EmptySeq
  <2>2. QED BY <1>1, <1>2, <1>4, <2>1
<1>8. /\ \A t \in Sessions : t # s => Waiting(t)' = Waiting(t)
      /\ Waiting(s)' \subseteq Waiting(s)
      /\ ends => Waiting(s)' = {}
      /\ ~ends => \A n \in Waiting(s) : n = m \/ n \in Waiting(s)'
  BY <1>2, <1>7, ElementsOfEmpty DEF Waiting
<1>9. QueueAfter(s, m.kind, ends) \in {"empty", "held", "due"}
  BY DEF QueueAfter, IInv, Typed
<1>10. Typed'
  <2>1. op' \in [Clients -> Ops] /\ \A d \in Clients : op'[d].kind = op[d].kind /\ op'[d].on = op[d].on
        /\ (op'[d] = op[d] \/ op[d].step = "sent")
        /\ (op'[d] = op[d] \/ op'[d].step \in {"refused", "sweeping", "closed", "done"})
    BY <1>3, Answers DEF IInv
  <2>2. \A d \in Clients : IF op'[d].step = "idle" THEN op'[d] = NoOp
                           ELSE op'[d].kind # "none" /\ op'[d].on \in Sessions
    BY <2>1 DEF IInv, Typed
  <2>3. QED BY <1>4, <1>5, <1>6, <1>7, <1>9, <2>1, <2>2 DEF IInv, Typed
<1>11. ends => Quiet(s)'
  <2>1. ASSUME ends PROVE QueueAfter(s, m.kind, ends) # "due"
    <3>1. m.kind \notin {"send", "resume"} BY <2>1 DEF ends
    <3>2. QED BY <2>1, <3>1 DEF QueueAfter
  <2>2. QED BY <1>5, <1>8, <2>1 DEF Quiet, IInv, Typed
<1>12. \A t \in Sessions : Quiet(t) => Quiet(t)'
  <2>1. ASSUME Quiet(s) PROVE Quiet(s)'
    <3>1. m.kind \notin {"send", "resume"} /\ queue[s] # "due" /\ ~turn[s] /\ ~cli[s] BY <1>2, <2>1 DEF Quiet
    <3>2. QueueAfter(s, m.kind, ends) # "due" BY <3>1 DEF QueueAfter
    <3>3. ~turn'[s] /\ ~cli'[s] /\ queue'[s] # "due" BY <1>5, <3>1, <3>2 DEF IInv, Typed
    <3>4. QED BY <1>8, <2>1, <3>3 DEF Quiet
  <2>2. ASSUME NEW t \in Sessions, t # s, Quiet(t) PROVE Quiet(t)'
    BY <1>5, <1>8, <2>2 DEF Quiet, IInv, Typed
  <2>3. QED BY <2>1, <2>2
<1>13. \A d \in Clients :
         /\ op'[d].kind = op[d].kind /\ op'[d].on = op[d].on /\ op'[d].todo = op[d].todo
         /\ op'[d].number = op[d].number
         /\ op'[d] = op[d] \/
              /\ op[d].step = "sent" /\ op[d].number \in taken \cup lost
              /\ op'[d].step \in {"refused", "sweeping", "closed", "done"}
              /\ op'[d].step # "refused" => op[d].number \in taken /\ op[d].number \notin lost
              /\ op'[d].step = "sweeping" => op[d].kind = "undo"
         /\ op[d].step = "sent" /\ op[d].number \in lost => op'[d].step = "refused"
         /\ op[d].step = "sent" /\ op[d].number \in taken => op'[d].step # "sent"
  BY <1>3, Answers DEF IInv
<1>14. \A d \in Clients : Inside(d)' => Inside(d)
  BY <1>13 DEF Inside, InsideSteps
<1>15. \A d \in Clients : Outstanding(d)' \subseteq Outstanding(d)
  BY <1>8, <1>13 DEF Outstanding
<1>16. \A d \in Clients : op[d].kind \in Exclusive /\ Outstanding(d) # {} /\ Inside(d) => op[d].step = "sent"
  BY DEF IInv, Closing
\* An undo or archive that is answered by going on has had its one message taken,
\* and that message ended the actor.
<1>17. ASSUME NEW d \in Clients, op[d].kind \in Exclusive, op'[d] # op[d], op'[d].step # "refused"
       PROVE  ends /\ s \in Outstanding(d) /\ Outstanding(d)' = {}
  <2>1. op[d].step = "sent" /\ op[d].number \in taken /\ op[d].number \notin lost BY <1>13, <1>17
  <2>2. m.number = op[d].number BY <2>1 DEF taken
  <2>3. s \in Outstanding(d) BY <1>2, <2>2 DEF Outstanding
  <2>4. (op[d].kind = "undo" => m.kind = "cancelIdle") /\ (op[d].kind = "archive" => m.kind = "cancel")
    BY <1>2, <1>17, <2>2, <2>3 DEF IInv, Closing
  <2>5. ends BY <1>17, <2>1, <2>2, <2>4 DEF ends, lost, Exclusive
  <2>6. \A t \in Outstanding(d) : t = s BY <1>17, <2>3 DEF IInv, Closing
  <2>7. s \notin Outstanding(d)' BY <1>8, <2>5 DEF Outstanding
  <2>8. Outstanding(d)' = {} BY <1>15, <2>6, <2>7
  <2>9. QED BY <2>3, <2>5, <2>8
<1>18. (\A t \in Sessions : Actorless(t))'
  <2>1. ASSUME NEW t \in Sessions PROVE Actorless(t)'
    <3>1. CASE t = s
      <4>1. ends => chan'[s] = <<>> /\ Quiet(s)' BY <1>7, <1>11
      <4>2. ~ends => run'[s] BY <1>4 DEF IInv, Typed
      <4>3. QED BY <3>1, <4>1, <4>2 DEF Actorless, Quiet
    <3>2. CASE t # s BY <1>4, <1>5, <1>7, <3>2 DEF Actorless, IInv, Typed
    <3>3. QED BY <3>1, <3>2
  <2>2. QED BY <2>1
<1>19. Exclusion' BY <1>13, <1>14 DEF Exclusion, IInv
<1>20. Numbered'
  <2>1. \A d \in Clients : Asking(d)' = Asking(d) BY <1>13 DEF Asking
  <2>2. \A t \in Sessions : Waiting(t)' \subseteq Waiting(t) BY <1>8
  <2>3. QED BY <1>4, <1>13, <2>1, <2>2 DEF Numbered, IInv
<1>21. Closing'
  <2>1. ASSUME NEW d \in Clients, op'[d].kind \in Exclusive
        PROVE  /\ op'[d].step # "sent" /\ Inside(d)' => Outstanding(d)' = {}
               /\ op'[d].step \in {"asked", "entered"} => Outstanding(d)' = {}
    <3>1. op[d].kind \in Exclusive BY <1>13, <2>1
    <3>2. CASE op'[d] = op[d]
      <4>1. op'[d].step # "sent" /\ Inside(d)' => Outstanding(d) = {} BY <1>14, <1>16, <3>1, <3>2
      <4>2. op'[d].step \in {"asked", "entered"} => Outstanding(d) = {} BY <3>1, <3>2 DEF IInv, Closing
      <4>3. QED BY <1>15, <4>1, <4>2
    <3>3. CASE op'[d] # op[d] /\ op'[d].step # "refused" BY <1>17, <3>1, <3>3
    <3>4. CASE op'[d].step = "refused" BY <3>4 DEF Inside, InsideSteps
    <3>5. QED BY <3>2, <3>3, <3>4
  <2>2. ASSUME NEW d \in Clients, op'[d].kind \in Exclusive
        PROVE  /\ \A t, u \in Outstanding(d)' : t = u
               /\ \A t \in Outstanding(d)' : \A n \in Waiting(t)' : n.number = op'[d].number =>
                    /\ (op'[d].kind = "undo" => n.kind = "cancelIdle")
                    /\ (op'[d].kind = "archive" => n.kind = "cancel" /\ t = op'[d].on)
    <3>1. op[d].kind \in Exclusive BY <1>13, <2>2
    <3>2. \A t \in Sessions : Waiting(t)' \subseteq Waiting(t) BY <1>8
    <3>3. \A t \in Outstanding(d)' : t \in Sessions BY DEF Outstanding
    <3>4. QED BY <1>13, <1>15, <3>1, <3>2, <3>3 DEF Closing, IInv
  <2>3. QED BY <2>1, <2>2 DEF Closing
<1>22. Kept' BY <1>13 DEF Kept, IInv
<1>23. Swept'
  <2>1. ASSUME NEW d \in Clients, op'[d].kind = "undo", op'[d].step \in {"sweeping", "sent", "restoring"}
        PROVE  /\ ~terminal'
               /\ \A t \in Sessions : t \notin op'[d].todo => Quiet(t)' \/ t \in Outstanding(d)'
               /\ op'[d].step = "restoring" => op'[d].todo = {}
    <3>1. op[d].kind = "undo" /\ op[d].kind \in Exclusive /\ op[d].step \in {"sweeping", "sent", "restoring"}
      BY <1>13, <2>1 DEF Exclusive
    <3>2. /\ ~terminal /\ \A t \in Sessions : t \notin op[d].todo => Quiet(t) \/ t \in Outstanding(d)
          /\ op[d].step = "restoring" => op[d].todo = {}
      BY <3>1 DEF Swept, IInv
    <3>3. op'[d].step = "restoring" => op[d].step = "restoring" BY <1>13
    <3>4. ASSUME NEW t \in Sessions, t \in Outstanding(d) PROVE Quiet(t)' \/ t \in Outstanding(d)'
      <4>1. op[d].step = "sent" BY <1>16, <3>1, <3>4 DEF Inside, InsideSteps
      <4>2. PICK n \in Waiting(t) : n.number = op[d].number BY <3>4 DEF Outstanding
      <4>3. CASE t # s
        <5>1. n \in Waiting(t)' BY <1>8, <4>2, <4>3
        <5>2. QED BY <1>13, <4>2, <5>1 DEF Outstanding
      <4>4. CASE t = s /\ ends BY <1>11, <4>4
      <4>5. CASE t = s /\ ~ends
        <5>1. n # m
          <6>1. SUFFICES ASSUME n = m PROVE FALSE OBVIOUS
          <6>2. m.kind = "cancelIdle" BY <3>1, <3>4, <4>2, <6>1 DEF IInv, Closing
          <6>3. op[d].number \in lost BY <4>2, <4>5, <6>1, <6>2 DEF lost
          <6>4. QED BY <1>13, <2>1, <4>1, <6>3
        <5>2. n \in Waiting(s)' BY <1>8, <4>2, <4>5, <5>1
        <5>3. QED BY <1>13, <4>2, <4>5, <5>2 DEF Outstanding
      <4>6. QED BY <4>3, <4>4, <4>5
    <3>5. QED BY <1>4, <1>12, <1>13, <3>2, <3>3, <3>4
  <2>2. QED BY <2>1 DEF Swept
<1>24. ClosedFirst'
  <2>1. ASSUME NEW d \in Clients, op'[d].kind = "archive", op'[d].step = "closed"
        PROVE  Quiet(op[d].on)' /\ op'[d].on = op[d].on
    <3>1. op[d].kind = "archive" /\ op[d].kind \in Exclusive /\ op'[d].on = op[d].on BY <1>13, <2>1 DEF Exclusive
    <3>2. CASE op'[d] = op[d]
      <4>1. Quiet(op[d].on) /\ op[d].on \in Sessions BY <2>1, <3>1, <3>2 DEF ClosedFirst, IInv, Typed
      <4>2. QED BY <1>12, <3>1, <4>1
    <3>3. CASE op'[d] # op[d]
      <4>1. ends /\ s \in Outstanding(d) BY <1>17, <2>1, <3>1, <3>3
      <4>2. \E n \in Waiting(s) : n.number = op[d].number BY <4>1 DEF Outstanding
      <4>3. s = op[d].on BY <3>1, <4>1, <4>2 DEF IInv, Closing
      <4>4. QED BY <1>11, <3>1, <4>1, <4>3
    <3>4. QED BY <3>2, <3>3
  <2>2. QED BY <2>1 DEF ClosedFirst
<1>25. Retired'
  <2>1. \A d \in Clients : op'[d].step = "checked" => op[d].step = "checked" BY <1>13
  <2>2. QED BY <1>4, <1>12, <1>13, <2>1 DEF Retired, IInv
<1>26. QED BY <1>10, <1>18, <1>19, <1>20, <1>21, <1>22, <1>23, <1>24, <1>25 DEF IInv

-----------------------------------------------------------------------------
(* Steps of an actor alone. *)

\* The actor of s ends its turn, or runs the tail of its loop.
LEMMA ActorAlone ==
  ASSUME IInv, UNCHANGED <<draining, terminal, run, chan, archived, op, requests>>,
         NEW s \in Sessions,
         safe' \in [Sessions -> BOOLEAN], tail' \in [Sessions -> BOOLEAN], cli' \in [Sessions -> BOOLEAN],
         turn' \in [Sessions -> BOOLEAN], queue' \in [Sessions -> {"empty", "held", "due"}],
         \A t \in Sessions :
           ~turn[t] /\ queue[t] # "due" => ~turn'[t] /\ queue'[t] # "due" /\ cli'[t] = cli[t]
  PROVE  IInv'
<1>1. \A t \in Sessions : Waiting(t)' = Waiting(t) BY DEF Waiting
<1>2. \A t \in Sessions : Quiet(t) => Quiet(t)' BY <1>1 DEF Quiet
<1>3. \A d \in Clients : Outstanding(d)' = Outstanding(d) BY <1>1 DEF Outstanding
<1>4. Typed' BY DEF IInv, Typed
<1>5. (\A t \in Sessions : Actorless(t))' BY DEF IInv, Actorless
<1>6. Exclusion' BY DEF IInv, Exclusion, Inside
<1>7. Numbered' BY <1>1 DEF IInv, Numbered, Asking
<1>8. Closing'
  <2>1. \A d \in Clients : \A t \in Outstanding(d) : t \in Sessions BY DEF Outstanding
  <2>2. QED BY <1>1, <1>3, <2>1 DEF IInv, Closing, Inside
<1>9. Kept' BY DEF IInv, Kept
<1>10. Swept' BY <1>2, <1>3 DEF IInv, Swept
<1>11. ClosedFirst'
  <2>1. \A d \in Clients : op[d].kind = "archive" /\ op[d].step = "closed" => op[d].on \in Sessions
    BY DEF IInv, Typed
  <2>2. QED BY <1>2, <2>1 DEF IInv, ClosedFirst
<1>12. Retired' BY <1>2 DEF IInv, Retired
<1>13. QED BY <1>4, <1>5, <1>6, <1>7, <1>8, <1>9, <1>10, <1>11, <1>12 DEF IInv

LEMMA TurnEnding == ASSUME IInv, NEW s \in Sessions, TurnEnds(s) PROVE IInv'
<1>1. UNCHANGED <<draining, terminal, run, chan, archived, op, requests, safe, cli, queue>>
  BY DEF TurnEnds
<1>2. turn' = [turn EXCEPT ![s] = FALSE] /\ tail' = [tail EXCEPT ![s] = TRUE] BY DEF TurnEnds
<1>3. turn \in [Sessions -> BOOLEAN] /\ tail \in [Sessions -> BOOLEAN] /\ safe \in [Sessions -> BOOLEAN]
      /\ cli \in [Sessions -> BOOLEAN] /\ queue \in [Sessions -> {"empty", "held", "due"}]
  BY DEF IInv, Typed
<1>4. turn' \in [Sessions -> BOOLEAN] /\ tail' \in [Sessions -> BOOLEAN]
      /\ \A t \in Sessions : ~turn[t] => ~turn'[t]
  BY <1>2, <1>3
<1>5. QED BY <1>1, <1>3, <1>4, ActorAlone

LEMMA TailRunning == ASSUME IInv, NEW s \in Sessions, TailOfLoop(s) PROVE IInv'
<1> DEFINE starts == queue[s] = "due" /\ ~turn[s]
<1>1. UNCHANGED <<draining, terminal, run, chan, archived, op, requests>> BY DEF TailOfLoop
<1>2. PICK rest \in {"empty", "due"} : queue' = IF starts THEN [queue EXCEPT ![s] = rest] ELSE queue
  BY DEF TailOfLoop
<1>3. /\ turn' = [turn EXCEPT ![s] = turn[s] \/ starts] /\ cli' = [cli EXCEPT ![s] = cli[s] \/ starts]
      /\ safe' = [safe EXCEPT ![s] = AtRest(s)] /\ tail' = [tail EXCEPT ![s] = FALSE]
  BY DEF TailOfLoop
<1>4. turn \in [Sessions -> BOOLEAN] /\ tail \in [Sessions -> BOOLEAN] /\ safe \in [Sessions -> BOOLEAN]
      /\ cli \in [Sessions -> BOOLEAN] /\ queue \in [Sessions -> {"empty", "held", "due"}]
  BY DEF IInv, Typed
<1>5. AtRest(s) \in BOOLEAN BY <1>4 DEF AtRest
<1>6. safe' \in [Sessions -> BOOLEAN] /\ tail' \in [Sessions -> BOOLEAN] /\ cli' \in [Sessions -> BOOLEAN]
      /\ turn' \in [Sessions -> BOOLEAN] /\ queue' \in [Sessions -> {"empty", "held", "due"}]
  BY <1>2, <1>3, <1>4, <1>5
<1>7. \A t \in Sessions : ~turn[t] /\ queue[t] # "due" => ~turn'[t] /\ queue'[t] # "due" /\ cli'[t] = cli[t]
  BY <1>2, <1>3, <1>4
<1>8. QED BY <1>1, <1>6, <1>7, ActorAlone

-----------------------------------------------------------------------------
(* The two ends of a request. *)

\* A client asks for something, or has read its answer.
LEMMA ComingAndGoing ==
  ASSUME IInv, UNCHANGED <<draining, terminal, actors, archived>>,
         requests' \in Nat, requests' >= requests, NEW c \in Clients,
         op' \in [Clients -> Ops], \A d \in Clients : d # c => op'[d] = op[d],
         \/ op'[c] = NoOp
         \/ /\ op'[c].step = "asked" /\ op'[c].kind # "none" /\ op'[c].on \in Sessions
            /\ op'[c].number = requests' /\ requests' = requests + 1
  PROVE  IInv'
<1>1. \A d \in Clients : d # c => Outstanding(d)' = Outstanding(d)
  BY SameSessions DEF Outstanding
<1>2. op'[c].step \in {"idle", "asked"} BY DEF NoOp
<1>3. op'[c].step = "asked" => Outstanding(c)' = {}
  <2>1. ASSUME op'[c].step = "asked", NEW t \in Sessions, NEW n \in Waiting(t) PROVE n.number # op'[c].number
    <3>1. op'[c].number = requests + 1 BY <2>1 DEF NoOp
    <3>2. n.number \in 1 .. requests /\ requests \in Nat BY <2>1 DEF IInv, Numbered, Typed
    <3>3. QED BY <3>1, <3>2
  <2>2. QED BY <2>1, SameSessions DEF Outstanding
<1>4. Typed'
  <2>1. \A d \in Clients : IF op'[d].step = "idle" THEN op'[d] = NoOp
                           ELSE op'[d].kind # "none" /\ op'[d].on \in Sessions
    <3> TAKE d \in Clients
    <3>1. CASE d = c BY <3>1, <1>2 DEF NoOp
    <3>2. CASE d # c
      <4>1. op'[d] = op[d] BY <3>2
      <4>2. QED BY <4>1 DEF IInv, Typed
    <3>3. QED BY <3>1, <3>2
  <2>2. QED BY <2>1 DEF IInv, Typed, actors
<1>5. (\A s \in Sessions : Actorless(s))' BY SameSessions DEF IInv
<1>6. Exclusion' BY <1>2 DEF IInv, Exclusion, Inside, InsideSteps
<1>7. Numbered'
  <2>1. requests \in Nat /\ \A d \in Clients : d # c /\ Asking(d) => op'[d].number \in 1 .. requests
    BY DEF IInv, Typed, Numbered, Asking
  <2>2. Asking(c)' => op'[c].number = requests + 1 /\ requests' = requests + 1 BY DEF Asking, NoOp
  <2>3. \A d \in Clients : d # c => Asking(d)' = Asking(d) BY DEF Asking
  <2>4. \A d \in Clients : Asking(d)' => op'[d].number \in 1 .. requests' BY <2>1, <2>2, <2>3
  <2>5. ASSUME NEW d \in Clients, NEW e \in Clients, d # e, Asking(d)', Asking(e)'
        PROVE  op'[d].number # op'[e].number
    <3>1. CASE d # c /\ e # c BY <2>3, <2>5, <3>1 DEF IInv, Numbered
    <3>2. CASE d = c BY <2>1, <2>2, <2>3, <2>5, <3>2
    <3>3. CASE e = c BY <2>1, <2>2, <2>3, <2>5, <3>3
    <3>4. QED BY <3>1, <3>2, <3>3
  <2>6. \A s \in Sessions : \A m \in Waiting(s)' : m.number \in 1 .. requests'
    <3>1. \A s \in Sessions : \A m \in Waiting(s) : m.number \in 1 .. requests BY DEF IInv, Numbered
    <3>2. QED BY <2>1, <3>1, SameSessions
  <2>7. QED BY <2>4, <2>5, <2>6 DEF Numbered
<1>8. Closing'
  <2>1. ASSUME NEW d \in Clients, op'[d].kind \in Exclusive
        PROVE  /\ op'[d].step # "sent" /\ Inside(d)' => Outstanding(d)' = {}
               /\ op'[d].step \in {"asked", "entered"} => Outstanding(d)' = {}
               /\ \A s, t \in Outstanding(d)' : s = t
               /\ \A s \in Outstanding(d)' : \A m \in Waiting(s)' : m.number = op'[d].number =>
                    /\ (op'[d].kind = "undo" => m.kind = "cancelIdle")
                    /\ (op'[d].kind = "archive" => m.kind = "cancel" /\ s = op'[d].on)
    <3>1. CASE d = c
      <4>1. op'[c].step = "asked" BY <2>1, <3>1 DEF NoOp, Exclusive
      <4>2. QED BY <1>3, <3>1, <4>1
    <3>2. CASE d # c
      <4>1. op'[d] = op[d] /\ Outstanding(d)' = Outstanding(d) BY <1>1, <3>2
      <4>2. \A s \in Outstanding(d) : Waiting(s)' = Waiting(s) BY SameSessions DEF Outstanding
      <4>3. QED BY <2>1, <4>1, <4>2 DEF IInv, Closing, Inside
    <3>3. QED BY <3>1, <3>2
  <2>2. QED BY <2>1 DEF Closing
<1>9. Kept' BY <1>2 DEF IInv, Kept
<1>10. Swept'
  <2>1. \A d \in Clients : op'[d].step \in {"sweeping", "sent", "restoring"} => d # c BY <1>2
  <2>2. QED BY <1>1, <2>1, SameSessions DEF IInv, Swept
<1>11. ClosedFirst'
  <2>1. \A d \in Clients : op'[d].kind = "archive" /\ op'[d].step = "closed" =>
          op'[d] = op[d] /\ op[d].on \in Sessions
    BY <1>2 DEF IInv, Typed
  <2>2. QED BY <2>1, SameSessions DEF IInv, ClosedFirst
<1>12. Retired'
  <2>1. \A d \in Clients : op'[d].step = "checked" => op'[d] = op[d] BY <1>2
  <2>2. QED BY <2>1, SameSessions DEF IInv, Retired
<1>13. QED BY <1>4, <1>5, <1>6, <1>7, <1>8, <1>9, <1>10, <1>11, <1>12 DEF IInv

LEMMA Asked == ASSUME IInv, NEW c \in Clients, Ask(c) PROVE IInv'
<1>1. PICK kind \in Kinds, s \in Sessions :
        op' = [op EXCEPT ![c] = [kind |-> kind, on |-> s, step |-> "asked", todo |-> {}, number |-> requests']]
  BY DEF Ask
<1>2. requests \in Nat /\ requests' = requests + 1 /\ op \in [Clients -> Ops] BY DEF Ask, IInv, Typed
<1>3. kind \in AllKinds /\ kind # "none" BY AdmissionAssumption DEF AllKinds, Guarded, Exclusive
<1> DEFINE new == [kind |-> kind, on |-> s, step |-> "asked", todo |-> {}, number |-> requests']
<1>4. new \in Ops /\ new.step = "asked" /\ new.kind = kind /\ new.on = s /\ new.number = requests'
  <2>1. {} \in SUBSET Sessions /\ requests' \in Nat /\ "asked" \in Steps BY <1>2 DEF Steps
  <2>2. QED BY <1>3, <2>1 DEF Ops
<1>5. op' \in [Clients -> Ops] /\ op'[c] = new /\ \A d \in Clients : d # c => op'[d] = op[d]
  BY <1>1, <1>2, <1>4
<1>6. UNCHANGED <<draining, terminal, actors, archived>> BY DEF Ask
<1>7. requests' \in Nat /\ requests' >= requests BY <1>2
<1> HIDE DEF new
<1>8. QED BY <1>2, <1>3, <1>4, <1>5, <1>6, <1>7, ComingAndGoing

LEMMA Answered == ASSUME IInv, NEW c \in Clients, Answer(c) PROVE IInv'
<1>1. op \in [Clients -> Ops] /\ op' = [op EXCEPT ![c] = NoOp] /\ requests \in Nat
  BY DEF Answer, IInv, Typed
<1>2. NoOp \in Ops BY DEF NoOp, Ops, Steps
<1>3. op' \in [Clients -> Ops] /\ op'[c] = NoOp /\ \A d \in Clients : d # c => op'[d] = op[d]
  BY <1>1, <1>2
<1>4. UNCHANGED <<draining, terminal, actors, archived>> /\ requests' = requests BY DEF Answer
<1>5. requests' \in Nat /\ requests' >= requests BY <1>1, <1>4
<1>6. QED BY <1>3, <1>4, <1>5, ComingAndGoing

-----------------------------------------------------------------------------
(* The steps of a request.                                                   *)

\* What Step says of op.
LEMMA StepOfOne ==
  ASSUME IInv, NEW c \in Clients, NEW x \in Steps, Step(c, x), op[c].step # "idle", x # "idle"
  PROVE  /\ op' \in [Clients -> Ops] /\ op'[c] = [op[c] EXCEPT !.step = x, !.todo = op[c].todo]
         /\ \A d \in Clients : d # c => op'[d] = op[d]
         /\ op[c].todo \in SUBSET Sessions /\ op[c].on \in Sessions
<1>1. op \in [Clients -> Ops] /\ op[c] \in Ops /\ op[c].on \in Sessions /\ op' = [op EXCEPT ![c].step = x]
  BY DEF IInv, Typed, Step
<1>2. op'[c] = [op[c] EXCEPT !.step = x] BY <1>1
<1>3. [op[c] EXCEPT !.step = x] = [op[c] EXCEPT !.step = x, !.todo = op[c].todo] BY <1>1 DEF Ops
<1>4. [op[c] EXCEPT !.step = x] \in Ops BY <1>1 DEF Ops
<1>5. op' \in [Clients -> Ops] BY <1>1, <1>4
<1>6. QED BY <1>1, <1>2, <1>3, <1>5 DEF Ops

\* A step that undo and archive take no decision in.
LEMMA MovingTo ==
  ASSUME IInv, UNCHANGED <<actors, requests>>,
         draining' \in BOOLEAN, terminal' \in BOOLEAN, archived' \in [Sessions -> BOOLEAN],
         NEW c \in Clients, NEW x \in {"refused", "done", "entered", "holding", "checked"},
         Step(c, x), op[c].step # "idle",
         x = "holding" => op[c].step = "entered" /\ FreeToHold(op[c].kind),
         x = "entered" => op[c].step = "asked",
         x = "checked" => op[c].step = "holding" /\ ~archived'[op[c].on] /\ op[c].kind \in ToActor,
         terminal' => terminal \/ (Inside(c) /\ op[c].kind \in Guarded),
         \A s \in Sessions : archived'[s] => archived[s] \/ (Quiet(s) /\ x # "checked" /\ Unwanted(s))
  PROVE  IInv'
<1>1. x \in Steps BY DEF Steps
<1>2. /\ op' \in [Clients -> Ops] /\ op'[c] = [op[c] EXCEPT !.step = x, !.todo = op[c].todo]
      /\ \A d \in Clients : d # c => op'[d] = op[d]
      /\ op[c].todo \in SUBSET Sessions
  BY <1>1, StepOfOne
<1>3. x \notin {"idle", "asked", "sent"} OBVIOUS
<1>4. x \in InsideSteps => Inside(c) \/ (op[c].step = "entered" /\ FreeToHold(op[c].kind))
  BY DEF InsideSteps, Inside
<1>5. x \in InsideSteps \cup {"entered"} =>
        op[c].step # "sent" /\ (Inside(c) \/ op[c].step \in {"asked", "entered"})
  BY DEF InsideSteps, Inside
<1>6. x \notin {"sweeping", "restoring"} /\ x # "closed" OBVIOUS
<1>7. x = "checked" => ~archived'[op[c].on] /\ op[c].kind \in ToActor OBVIOUS
<1> DEFINE T == op[c].todo
<1>8. T \in SUBSET Sessions BY <1>2
<1>9. op'[c] = [op[c] EXCEPT !.step = x, !.todo = T] BY <1>2
<1> HIDE DEF T
<1>10. QED BY ONLY IInv, UNCHANGED <<actors, requests>>, draining' \in BOOLEAN, terminal' \in BOOLEAN,
                   archived' \in [Sessions -> BOOLEAN], op[c].step # "idle", <1>1, <1>2, <1>3, <1>4, <1>5, <1>6,
                   <1>7, <1>8, <1>9, c \in Clients,
                   terminal' => terminal \/ (Inside(c) /\ op[c].kind \in Guarded),
                   \A s \in Sessions : archived'[s] => archived[s] \/ (Quiet(s) /\ x # "checked" /\ Unwanted(s)),
                   MovingOn

LEMMA Entering == ASSUME IInv, NEW c \in Clients, Enter(c) PROVE IInv'
<1>1. PICK x \in {"refused", "entered"} : Step(c, x) BY DEF Enter
<1>2. op[c].step = "asked" /\ UNCHANGED <<draining, terminal, actors, archived, requests>> BY DEF Enter
<1>3. x \in Steps /\ x \notin InsideSteps \cup {"idle", "asked", "sent", "sweeping", "restoring", "closed", "checked"}
  BY <1>1 DEF Steps, InsideSteps
<1>4. draining' \in BOOLEAN /\ terminal' \in BOOLEAN /\ archived' \in [Sessions -> BOOLEAN]
  BY <1>2 DEF IInv, Typed
<1>5. QED BY <1>1, <1>2, <1>3, <1>4, MovingTo

LEMMA Holding == ASSUME IInv, NEW c \in Clients, Hold(c) PROVE IInv'
<1>1. Step(c, "holding") /\ op[c].step = "entered" /\ FreeToHold(op[c].kind) BY DEF Hold
<1>2. UNCHANGED <<draining, terminal, actors, archived, requests>> BY DEF Hold
<1>3. "holding" \in Steps BY DEF Steps
<1>4. draining' \in BOOLEAN /\ terminal' \in BOOLEAN /\ archived' \in [Sessions -> BOOLEAN]
  BY <1>2 DEF IInv, Typed
<1>5. QED BY <1>1, <1>2, <1>3, <1>4, MovingTo

LEMMA Checking == ASSUME IInv, NEW c \in Clients, Check(c) PROVE IInv'
<1>1. /\ op[c].step = "holding" /\ op[c].kind \in ToActor
      /\ UNCHANGED <<draining, terminal, actors, archived, requests>>
  BY DEF Check
<1>2. Inside(c) BY <1>1 DEF Inside, InsideSteps
<1>3. draining' \in BOOLEAN /\ terminal' \in BOOLEAN /\ archived' \in [Sessions -> BOOLEAN]
  BY <1>1 DEF IInv, Typed
<1>4. CASE archived[op[c].on]
  <2>1. Step(c, "refused") BY <1>4 DEF Check
  <2>2. "refused" \in Steps /\ "refused" \notin InsideSteps BY DEF Steps, InsideSteps
  <2>3. QED BY <1>1, <1>2, <1>3, <2>1, <2>2, MovingTo
<1>5. CASE ~archived[op[c].on]
  <2>1. Step(c, "checked") BY <1>5 DEF Check
  <2>2. "checked" \in Steps BY DEF Steps
  <2>3. QED BY <1>1, <1>2, <1>3, <1>5, <2>1, <2>2, MovingTo
<1>6. QED BY <1>4, <1>5

LEMMA GivingUp == ASSUME IInv, NEW c \in Clients, GiveUp(c) PROVE IInv'
<1>1. op[c].step = "sent" /\ Step(c, "refused") /\ UNCHANGED <<draining, terminal, actors, archived, requests>>
  BY DEF GiveUp
<1>2. "refused" \in Steps /\ "refused" \notin InsideSteps BY DEF Steps, InsideSteps
<1>3. draining' \in BOOLEAN /\ terminal' \in BOOLEAN /\ archived' \in [Sessions -> BOOLEAN]
  BY <1>1 DEF IInv, Typed
<1>4. QED BY <1>1, <1>2, <1>3, MovingTo

LEMMA Restoring == ASSUME IInv, NEW c \in Clients, Restored(c) PROVE IInv'
<1>1. op[c].step = "restoring" /\ Step(c, "done") /\ UNCHANGED <<draining, terminal, actors, archived, requests>>
  BY DEF Restored
<1>2. "done" \in Steps /\ "done" \notin InsideSteps BY DEF Steps, InsideSteps
<1>3. draining' \in BOOLEAN /\ terminal' \in BOOLEAN /\ archived' \in [Sessions -> BOOLEAN]
  BY <1>1 DEF IInv, Typed
<1>4. QED BY <1>1, <1>2, <1>3, MovingTo

LEMMA Preparing == ASSUME IInv, NEW c \in Clients, Prepare(c) PROVE IInv'
<1>1. PICK x \in {"refused", "done"} : Step(c, x) BY DEF Prepare
<1>2. op[c].step = "asked" /\ draining' \in {TRUE, draining} /\ UNCHANGED <<terminal, actors, archived, requests>>
  BY DEF Prepare
<1>3. x \in Steps /\ x \notin InsideSteps \cup {"idle", "asked", "entered", "sent"}
      /\ x \notin {"sweeping", "restoring", "closed", "checked"}
  BY <1>1 DEF Steps, InsideSteps
<1>4. draining' \in BOOLEAN /\ terminal' \in BOOLEAN /\ archived' \in [Sessions -> BOOLEAN]
  BY <1>2 DEF IInv, Typed
<1>5. QED BY <1>1, <1>2, <1>3, <1>4, MovingTo

LEMMA Unarchiving == ASSUME IInv, NEW c \in Clients, Unarchive(c) PROVE IInv'
<1>1. op[c].step = "holding" /\ Step(c, "done") /\ UNCHANGED <<draining, terminal, actors, requests>>
      /\ archived' = [archived EXCEPT ![op[c].on] = FALSE]
  BY DEF Unarchive
<1>2. "done" \in Steps /\ "done" \notin InsideSteps BY DEF Steps, InsideSteps
<1>3. draining' \in BOOLEAN /\ terminal' \in BOOLEAN /\ archived' \in [Sessions -> BOOLEAN]
      /\ \A s \in Sessions : archived'[s] => archived[s]
  BY <1>1 DEF IInv, Typed
<1>4. QED BY <1>1, <1>2, <1>3, MovingTo

LEMMA TerminalChanging == ASSUME IInv, NEW c \in Clients, Terminal(c) PROVE IInv'
<1>1. op[c].step = "holding" /\ Step(c, "done") /\ UNCHANGED <<draining, actors, archived, requests>>
      /\ terminal' = (op[c].kind = "terminal")
  BY DEF Terminal
<1>2. "done" \in Steps /\ "done" \notin InsideSteps BY DEF Steps, InsideSteps
<1>3. draining' \in BOOLEAN /\ terminal' \in BOOLEAN /\ archived' \in [Sessions -> BOOLEAN]
  BY <1>1 DEF IInv, Typed
<1>4. terminal' => Inside(c) /\ op[c].kind \in Guarded BY <1>1 DEF Inside, InsideSteps, Guarded
<1>5. QED BY <1>1, <1>2, <1>3, <1>4, MovingTo

\* Closing the actor of s: where there is none, s is quiet at once.
LEMMA SendingClose ==
  ASSUME IInv, UNCHANGED <<draining, terminal, archived, requests>>,
         NEW c \in Clients, NEW s \in Sessions, NEW k \in {"cancel", "cancelIdle"}, NEW step,
         NEW T \in SUBSET Sessions, SendClose(c, s, k, step), Inside(c), op[c].step # "sent",
         op[c].kind = "undo" => k = "cancelIdle" /\ op[c].step = "sweeping" /\ T = op[c].todo \ {s},
         op[c].kind = "archive" => k = "cancel" /\ s = op[c].on,
         op' \in [Clients -> Ops], \A d \in Clients : d # c => op'[d] = op[d],
         step = "sent" => op'[c] = [op[c] EXCEPT !.step = "sent", !.todo = T]
  PROVE  \/ step = "sent" /\ IInv'
         \/ step = "closed" /\ UNCHANGED actors /\ Quiet(s)
<1>1. CASE run[s]
  <2>1. Push(s, c, k) /\ step = "sent" /\ UNCHANGED <<run, safe, tail, cli, turn, queue>>
    BY <1>1 DEF SendClose
  <2>2. run' = [run EXCEPT ![s] = TRUE] /\ safe' \in [Sessions -> BOOLEAN]
    BY <1>1, <2>1 DEF IInv, Typed
  <2>3. k \in ToActor \cup {"cancel", "cancelIdle"} /\ k \notin {"send", "resume"} OBVIOUS
  <2>4. IInv' BY <2>1, <2>2, <2>3, Pushing
  <2>5. QED BY <2>1, <2>4
<1>2. CASE ~run[s]
  <2>1. step = "closed" /\ UNCHANGED actors BY <1>2 DEF SendClose
  <2>2. Quiet(s) BY <1>2, ElementsOfEmpty DEF IInv, Actorless, Quiet, Waiting
  <2>3. QED BY <2>1, <2>2
<1>3. QED BY <1>1, <1>2

\* A close the user asked for, or that of archive.
LEMMA ClosingOne ==
  ASSUME IInv, UNCHANGED <<draining, terminal, archived, requests>>,
         NEW c \in Clients, NEW k \in {"cancel", "cancelIdle"}, NEW step \in {"sent", "closed"},
         SendClose(c, op[c].on, k, step), Step(c, step), op[c].step = "holding",
         op[c].kind # "undo", op[c].kind = "archive" => k = "cancel"
  PROVE  IInv'
<1>1. step \in Steps /\ op[c].step # "idle" /\ step # "idle" BY DEF Steps
<1>2. /\ op' \in [Clients -> Ops] /\ op'[c] = [op[c] EXCEPT !.step = step, !.todo = op[c].todo]
      /\ \A d \in Clients : d # c => op'[d] = op[d]
      /\ op[c].todo \in SUBSET Sessions /\ op[c].on \in Sessions
  BY <1>1, StepOfOne
<1>3. Inside(c) BY DEF Inside, InsideSteps
<1>4. \/ step = "sent" /\ IInv'
      \/ step = "closed" /\ UNCHANGED actors /\ Quiet(op[c].on)
  <2> DEFINE T == op[c].todo
             on == op[c].on
  <2>1. T \in SUBSET Sessions /\ on \in Sessions /\ op'[c] = [op[c] EXCEPT !.step = step, !.todo = T] BY <1>2
  <2>2. SendClose(c, on, k, step) /\ (op[c].kind = "archive" => k = "cancel" /\ on = op[c].on) OBVIOUS
  <2>3. op[c].step # "sent" /\ op[c].kind # "undo" OBVIOUS
  <2>4. step = "sent" => op'[c] = [op[c] EXCEPT !.step = "sent", !.todo = T] BY <2>1
  <2> HIDE DEF T, on
  <2>5. \/ step = "sent" /\ IInv'
        \/ step = "closed" /\ UNCHANGED actors /\ Quiet(on)
    BY <1>2, <1>3, <2>1, <2>2, <2>3, <2>4, SendingClose
  <2>6. QED BY <2>5 DEF on
<1>5. CASE step = "closed" /\ UNCHANGED actors /\ Quiet(op[c].on)
  <2>1. draining' \in BOOLEAN /\ terminal' \in BOOLEAN /\ archived' \in [Sessions -> BOOLEAN]
    BY DEF IInv, Typed
  <2> DEFINE T == op[c].todo
  <2>2. T \in SUBSET Sessions /\ op'[c] = [op[c] EXCEPT !.step = step, !.todo = T] BY <1>2
  <2>3. terminal' => terminal OBVIOUS
  <2>4. \A s \in Sessions : archived'[s] => archived[s] OBVIOUS
  <2>5. step \notin {"idle", "asked", "sent"} /\ step \notin {"sweeping", "restoring"} /\ step # "checked" BY <1>5
  <2> HIDE DEF T
  <2>6. QED BY ONLY IInv, UNCHANGED requests, c \in Clients, op[c].step = "holding",
                    <1>1, <1>2, <1>3, <1>5, <2>1, <2>2, <2>3, <2>4, <2>5, MovingOn
<1>6. QED BY <1>4, <1>5

LEMMA UserClosing == ASSUME IInv, NEW c \in Clients, Close(c) PROVE IInv'
<1>1. PICK step \in {"sent", "closed"}, kind \in {"cancel", "cancelIdle"} :
        SendClose(c, op[c].on, kind, step) /\ Step(c, step)
  BY DEF Close
<1>2. op[c].step = "holding" /\ op[c].kind = "close" /\ UNCHANGED <<draining, terminal, archived, requests>>
  BY DEF Close
<1>3. QED BY <1>1, <1>2, ClosingOne

LEMMA Archiving == ASSUME IInv, NEW c \in Clients, Archive(c) PROVE IInv'
<1>1. op[c].step = "holding" /\ op[c].kind = "archive" /\ UNCHANGED <<draining, terminal, archived, requests>>
  BY DEF Archive
<1>2. CASE turn[op[c].on]
  <2>1. Step(c, "refused") /\ UNCHANGED actors BY <1>2 DEF Archive
  <2>2. draining' \in BOOLEAN /\ terminal' \in BOOLEAN /\ archived' \in [Sessions -> BOOLEAN]
    BY <1>1 DEF IInv, Typed
  <2>3. QED BY <1>1, <2>1, <2>2, MovingTo
<1>3. CASE ~turn[op[c].on]
  <2>1. PICK step \in {"sent", "closed"} : SendClose(c, op[c].on, "cancel", step) /\ Step(c, step)
    BY <1>3 DEF Archive
  <2>2. QED BY <1>1, <2>1, ClosingOne
<1>4. QED BY <1>2, <1>3

LEMMA Confirmed == ASSUME IInv, NEW c \in Clients, Closed(c) PROVE IInv'
<1>1. op[c].step = "closed" /\ Step(c, "done") /\ UNCHANGED <<draining, terminal, actors, requests>>
      /\ archived' = IF op[c].kind = "archive" THEN [archived EXCEPT ![op[c].on] = TRUE] ELSE archived
  BY DEF Closed
<1>2. op[c].on \in Sessions BY <1>1 DEF IInv, Typed
<1>3. draining' \in BOOLEAN /\ terminal' \in BOOLEAN /\ archived' \in [Sessions -> BOOLEAN]
  BY <1>1 DEF IInv, Typed
<1>4. op[c].kind = "archive" => Quiet(op[c].on) BY <1>1 DEF IInv, ClosedFirst
<1>5. ASSUME op[c].kind = "archive", NEW d \in Clients, op[d].kind \in {"send", "resume"}
      PROVE  op[d].step # "checked"
  <2>1. op[d].kind \in Guarded /\ op[c].kind \in Exclusive /\ Inside(c) /\ d # c
    BY <1>1, <1>5 DEF Guarded, Exclusive, Inside, InsideSteps
  <2>2. ~Inside(d) BY <2>1 DEF IInv, Exclusion
  <2>3. QED BY <2>2 DEF Inside, InsideSteps
<1>6. op[c].kind = "archive" => Unwanted(op[c].on) BY <1>5 DEF Unwanted
<1>7. \A s \in Sessions : archived'[s] => archived[s] \/ (Quiet(s) /\ Unwanted(s))
  BY <1>1, <1>2, <1>4, <1>6 DEF IInv, Typed
<1>8. QED BY <1>1, <1>3, <1>7, MovingTo

LEMMA Dispatching == ASSUME IInv, NEW c \in Clients, Dispatch(c) PROVE IInv'
<1> DEFINE s == op[c].on
<1>1. op[c].step = "checked" /\ Push(s, c, op[c].kind) /\ Step(c, "sent") /\ run' = [run EXCEPT ![s] = TRUE]
      /\ safe' = [safe EXCEPT ![s] = safe[s] /\ run[s]]
      /\ UNCHANGED <<draining, terminal, tail, cli, turn, queue, archived, requests>>
  BY DEF Dispatch
<1>2. op[c].kind \in ToActor BY <1>1 DEF IInv, Kept
<1>3. /\ op' \in [Clients -> Ops] /\ op'[c] = [op[c] EXCEPT !.step = "sent", !.todo = op[c].todo]
      /\ \A d \in Clients : d # c => op'[d] = op[d]
      /\ op[c].todo \in SUBSET Sessions /\ s \in Sessions
  <2>1. "sent" \in Steps BY DEF Steps
  <2>2. QED BY <1>1, <2>1, StepOfOne
<1>4. Inside(c) BY <1>1 DEF Inside, InsideSteps
<1>5. safe' \in [Sessions -> BOOLEAN] BY <1>1, <1>3 DEF IInv, Typed
<1>6. op[c].kind \notin {"undo", "archive"} BY <1>2 DEF ToActor
<1>7. QED BY <1>1, <1>2, <1>3, <1>4, <1>5, <1>6, Pushing

\* What the steps of undo need of MovingOn.
LEMMA UndoMoves ==
  ASSUME IInv, UNCHANGED <<actors, requests, draining, terminal, archived>>,
         NEW c \in Clients, NEW x \in {"refused", "sweeping", "restoring"}, NEW T \in SUBSET Sessions,
         op[c].kind = "undo", op[c].step \in {"holding", "sweeping"},
         op' = [op EXCEPT ![c] = [op[c] EXCEPT !.step = x, !.todo = T]],
         x # "refused" => ~terminal /\ \A s \in Sessions : s \notin T => Quiet(s),
         x = "restoring" => T = {}
  PROVE  IInv'
<1>1. x \in Steps /\ x \notin {"idle", "asked", "sent"} /\ x # "checked" /\ x # "closed" BY DEF Steps
<1>2. op \in [Clients -> Ops] /\ op[c] \in Ops BY DEF IInv, Typed
<1>3. [op[c] EXCEPT !.step = x, !.todo = T] \in Ops BY <1>1, <1>2 DEF Ops
<1>4. op' \in [Clients -> Ops] /\ op'[c] = [op[c] EXCEPT !.step = x, !.todo = T]
      /\ \A d \in Clients : d # c => op'[d] = op[d]
  BY <1>2, <1>3
<1>5. Inside(c) /\ op[c].step # "sent" /\ op[c].step # "idle" BY DEF Inside, InsideSteps
<1>6. draining' \in BOOLEAN /\ terminal' \in BOOLEAN /\ archived' \in [Sessions -> BOOLEAN]
  BY DEF IInv, Typed
<1>7. x \in InsideSteps => Inside(c) \/ (op[c].step = "entered" /\ FreeToHold(op[c].kind)) BY <1>5
<1>8. x \in InsideSteps \cup {"entered"} =>
        op[c].step # "sent" /\ (Inside(c) \/ op[c].step \in {"asked", "entered"})
  BY <1>5
<1>9. x \in {"sweeping", "restoring"} =>
        /\ op[c].kind = "undo" /\ ~terminal
        /\ \A s \in Sessions : s \notin T => Quiet(s)
        /\ x = "restoring" => T = {}
  OBVIOUS
<1>10. (terminal' => terminal) /\ \A s \in Sessions : archived'[s] => archived[s] OBVIOUS
<1>11. QED BY ONLY IInv, UNCHANGED <<actors, requests>>, c \in Clients, T \in SUBSET Sessions,
                   <1>1, <1>4, <1>5, <1>6, <1>7, <1>8, <1>9, <1>10, MovingOn

LEMMA Undoing == ASSUME IInv, NEW c \in Clients, Undo(c) PROVE IInv'
<1> DEFINE x == IF HostIdle THEN "sweeping" ELSE "refused"
           T == IF HostIdle THEN Overlapping ELSE {}
<1>1. op[c].step = "holding" /\ op[c].kind = "undo" /\ UNCHANGED <<actors, requests, draining, terminal, archived>>
  BY DEF Undo
<1>2. op' = [op EXCEPT ![c].step = x, ![c].todo = T] BY DEF Undo
<1>3. op \in [Clients -> Ops] BY DEF IInv, Typed
<1>4. x \in {"refused", "sweeping", "restoring"} /\ T \in SUBSET Sessions /\ x # "restoring"
  BY DEF Overlapping, Running
<1>5. x # "refused" => ~terminal /\ \A s \in Sessions : s \notin T => Quiet(s)
  <2>1. SUFFICES ASSUME HostIdle PROVE ~terminal /\ \A s \in Sessions : s \notin T => Quiet(s)
    OBVIOUS
  <2>2. ~terminal BY <2>1 DEF HostIdle
  <2>3. \A s \in Sessions : s \notin T => ~run[s] BY <2>1 DEF Overlapping, Running
  <2>4. \A s \in Sessions : ~run[s] => Quiet(s) BY ElementsOfEmpty DEF IInv, Actorless, Quiet, Waiting
  <2>5. QED BY <2>2, <2>3, <2>4
<1> HIDE DEF x, T
<1>6. op' = [op EXCEPT ![c] = [op[c] EXCEPT !.step = x, !.todo = T]] BY <1>2, <1>3 DEF Ops
<1>7. QED BY <1>1, <1>4, <1>5, <1>6, UndoMoves

LEMMA Sweeping == ASSUME IInv, NEW c \in Clients, Sweep(c) PROVE IInv'
<1>1. op[c].step = "sweeping" /\ UNCHANGED <<draining, terminal, archived, requests>> BY DEF Sweep
<1>2. op[c].kind = "undo" /\ op[c].kind \in Exclusive BY <1>1 DEF IInv, Kept, Exclusive
<1>3. Inside(c) /\ op[c].step # "sent" BY <1>1 DEF Inside, InsideSteps
<1>4. Outstanding(c) = {} BY <1>2, <1>3 DEF IInv, Closing
<1>5. ~terminal /\ \A s \in Sessions : s \notin op[c].todo => Quiet(s)
  BY <1>1, <1>2, <1>4 DEF IInv, Swept
<1>6. op \in [Clients -> Ops] /\ op[c] \in Ops /\ op[c].todo \in SUBSET Sessions BY DEF IInv, Typed, Ops
<1>7. CASE op[c].todo = {}
  <2>1. Step(c, "restoring") /\ UNCHANGED actors BY <1>7 DEF Sweep
  <2>2. op' = [op EXCEPT ![c] = [op[c] EXCEPT !.step = "restoring", !.todo = {}]]
    BY <1>6, <1>7, <2>1 DEF Step, Ops
  <2>3. {} \in SUBSET Sessions OBVIOUS
  <2>4. QED BY <1>1, <1>2, <1>5, <1>7, <2>1, <2>2, <2>3, UndoMoves
<1>8. CASE op[c].todo # {}
  <2>1. PICK s \in op[c].todo, step \in {"sent", "closed"} :
          /\ SendClose(c, s, "cancelIdle", step)
          /\ op' = [op EXCEPT ![c].todo = op[c].todo \ {s}, ![c].step = IF step = "sent" THEN step ELSE "sweeping"]
    BY <1>8 DEF Sweep
  <2> DEFINE T == op[c].todo \ {s}
             x == IF step = "sent" THEN "sent" ELSE "sweeping"
  <2>2. s \in Sessions /\ T \in SUBSET Sessions /\ x \in Steps BY <1>6, <2>1 DEF Steps
  <2>3. op' = [op EXCEPT ![c] = [op[c] EXCEPT !.step = x, !.todo = T]] BY <1>6, <2>1 DEF Ops
  <2>4. [op[c] EXCEPT !.step = x, !.todo = T] \in Ops BY <1>6, <2>2 DEF Ops
  <2>5. op' \in [Clients -> Ops] /\ op'[c] = [op[c] EXCEPT !.step = x, !.todo = T]
        /\ \A d \in Clients : d # c => op'[d] = op[d]
    BY <1>6, <2>3, <2>4
  <2>6. step = "sent" => op'[c] = [op[c] EXCEPT !.step = "sent", !.todo = T] BY <2>5
  <2>7. op[c].kind = "undo" => op[c].step = "sweeping" /\ T = op[c].todo \ {s} BY <1>1
  <2>8. op[c].kind # "archive" BY <1>2
  <2> HIDE DEF T
  <2>9. \/ step = "sent" /\ IInv'
        \/ step = "closed" /\ UNCHANGED actors /\ Quiet(s)
    BY ONLY IInv, c \in Clients, <1>1, <1>3, <2>1, <2>2, <2>5, <2>6, <2>7, <2>8, SendingClose
  <2>10. CASE step = "closed" /\ UNCHANGED actors /\ Quiet(s)
    <3>1. x = "sweeping" BY <2>10
    <3>2. \A t \in Sessions : t \notin T => Quiet(t) BY <1>5, <2>10 DEF T
    <3>3. QED BY <1>1, <1>2, <1>5, <2>2, <2>3, <2>10, <3>1, <3>2, UndoMoves
  <2>11. QED BY <2>9, <2>10
<1>9. QED BY <1>7, <1>8

-----------------------------------------------------------------------------
(* The theorems.                                                             *)

LEMMA InitIInv == ASSUME Init PROVE IInv
<1>1. \A s \in Sessions : chan[s] = <<>> /\ Waiting(s) = {} BY ElementsOfEmpty DEF Init, Waiting
<1>2. \A c \in Clients : op[c] = NoOp /\ op[c].step = "idle" /\ op[c].kind = "none" BY DEF Init, NoOp
<1>3. Typed
  <2>1. NoOp \in Ops BY DEF NoOp, Ops, Steps
  <2>2. chan \in [Sessions -> Seq(Messages)] BY DEF Init
  <2>3. op \in [Clients -> Ops] BY <2>1 DEF Init
  <2>4. queue \in [Sessions -> {"empty", "held", "due"}] BY DEF Init
  <2>5. QED BY <1>2, <2>2, <2>3, <2>4 DEF Init, Typed
<1>4. \A s \in Sessions : Actorless(s) BY DEF Init, Actorless
<1>5. Exclusion /\ Kept /\ Swept /\ ClosedFirst
  BY <1>2 DEF Exclusion, Kept, Swept, ClosedFirst, Inside, InsideSteps, Exclusive, ToActor
<1>6. Numbered BY <1>1, <1>2 DEF Numbered, Asking
<1>7. Closing BY <1>1, <1>2 DEF Closing, Exclusive, Inside, InsideSteps, Outstanding
<1>8. Retired BY DEF Init, Retired
<1>9. QED BY <1>3, <1>4, <1>5, <1>6, <1>7, <1>8 DEF IInv

LEMMA NothingDone == ASSUME IInv, UNCHANGED vars PROVE IInv'
<1>1. UNCHANGED <<draining, terminal, run, safe, chan, tail, cli, turn, queue, archived, op, requests>>
  BY DEF vars
<1>2. \A s \in Sessions : Waiting(s)' = Waiting(s) /\ Quiet(s)' = Quiet(s) /\ Actorless(s)' = Actorless(s)
  BY <1>1 DEF Waiting, Quiet, Actorless
<1>3. \A c \in Clients : Outstanding(c)' = Outstanding(c) /\ Inside(c)' = Inside(c) /\ Asking(c)' = Asking(c)
  BY <1>1, <1>2 DEF Outstanding, Inside, Asking
<1>4. Typed' /\ Kept' BY <1>1 DEF IInv, Typed, Kept
<1>5. (\A s \in Sessions : Actorless(s))' BY <1>2 DEF IInv
<1>6. Exclusion' BY <1>1, <1>3 DEF IInv, Exclusion
<1>7. Numbered' BY <1>1, <1>2, <1>3 DEF IInv, Numbered
<1>8. Closing'
  <2>1. \A d \in Clients : \A t \in Outstanding(d) : t \in Sessions BY DEF Outstanding
  <2>2. QED BY <1>1, <1>2, <1>3, <2>1 DEF IInv, Closing
<1>9. Swept' BY <1>1, <1>2, <1>3 DEF IInv, Swept
<1>10. ClosedFirst'
  <2>1. \A d \in Clients : op[d].kind = "archive" /\ op[d].step = "closed" => op[d].on \in Sessions
    BY DEF IInv, Typed
  <2>2. QED BY <1>1, <1>2, <2>1 DEF IInv, ClosedFirst
<1>11. Retired' BY <1>1, <1>2 DEF IInv, Retired
<1>12. QED BY <1>4, <1>5, <1>6, <1>7, <1>8, <1>9, <1>10, <1>11 DEF IInv

LEMMA NextIInv == ASSUME IInv, [Next]_vars PROVE IInv'
<1>1. ASSUME NEW c \in Clients, Ask(c) PROVE IInv' BY <1>1, Asked
<1>2. ASSUME NEW c \in Clients, GiveUp(c) PROVE IInv' BY <1>2, GivingUp
<1>3. ASSUME NEW c \in Clients, Handle(c) PROVE IInv'
  BY <1>3, Entering, Holding, Answered, Checking, Dispatching, UserClosing, Archiving, Confirmed, Unarchiving,
     TerminalChanging, Undoing, Sweeping, Restoring, Preparing DEF Handle
<1>4. ASSUME NEW s \in Sessions, Receive(s) PROVE IInv' BY <1>4, Receiving
<1>5. ASSUME NEW s \in Sessions, TurnEnds(s) PROVE IInv' BY <1>5, TurnEnding
<1>6. ASSUME NEW s \in Sessions, TailOfLoop(s) PROVE IInv' BY <1>6, TailRunning
<1>7. CASE UNCHANGED vars BY <1>7, NothingDone
<1>8. QED BY <1>1, <1>2, <1>3, <1>4, <1>5, <1>6, <1>7 DEF Next

\* When undo restores, its list is empty and no actor owes it an answer: every
\* session is quiet.
LEMMA RestoringAlone == ASSUME IInv PROVE RestoreAlone
<1>1. SUFFICES ASSUME NEW c \in Clients, op[c].step = "restoring"
               PROVE  ~terminal /\ \A s \in Sessions : ~turn[s] /\ ~cli[s] /\ queue[s] # "due"
  BY DEF RestoreAlone
<1>2. op[c].kind = "undo" /\ op[c].kind \in Exclusive BY <1>1 DEF IInv, Kept, Exclusive
<1>3. Outstanding(c) = {} BY <1>1, <1>2 DEF IInv, Closing, Inside, InsideSteps
<1>4. ~terminal /\ op[c].todo = {} /\ \A s \in Sessions : s \notin op[c].todo => Quiet(s)
  BY <1>1, <1>2, <1>3 DEF IInv, Swept
<1>5. QED BY <1>4 DEF Quiet

\* Undo restores while nothing of the host works: for any number of sessions,
\* clients and requests, stale flags and given-up requests included (main.rs,
\* the undo branch of the dispatcher, and runtime::close).
THEOREM UndoRestoresAlone == Spec => []RestoreAlone
<1>1. Init => IInv BY InitIInv
<1>2. IInv /\ [Next]_vars => IInv' BY NextIInv
<1>3. IInv => RestoreAlone BY RestoringAlone
<1>4. QED BY <1>1, <1>2, <1>3, PTL DEF Spec

\* An archived session has no CLI and no turn, and nothing in its channel or
\* queue starts one (runtime::archive and control_for).
THEOREM ArchivedStaysAtRest == Spec => []ArchivedAtRest
<1>1. Init => IInv BY InitIInv
<1>2. IInv /\ [Next]_vars => IInv' BY NextIInv
<1>3. IInv => ArchivedAtRest BY DEF IInv, Retired, Quiet, ArchivedAtRest
<1>4. QED BY <1>1, <1>2, <1>3, PTL DEF Spec

-----------------------------------------------------------------------------
(* The upgrade, and how long a channel gets.                                 *)
(*                                                                           *)
(* An upgrade looks at flags and at who is connected, never into a channel.  *)
(* Why that is enough where no timing window is open: what waits in a channel*)
(* belongs to a client that waits for its answer and holds the read lock the *)
(* upgrade asks for, and a flag that is set is true.                         *)

\* No two messages are the same request.
Distinct(q) == \A i, j \in 1 .. Len(q) : q[i].number = q[j].number => i = j
Single ==
  \A s \in Sessions :
    /\ Distinct(chan[s])
    /\ \A t \in Sessions : t # s => \A m \in Waiting(s), n \in Waiting(t) : m.number # n.number

\* A client that waits for no actor has nothing in a channel.
BeforeSent == {"asked", "entered", "holding", "checked", "sweeping", "closed", "restoring"}
Unsent == \A c \in Clients : op[c].step \in BeforeSent => Outstanding(c) = {}

\* Where nobody gives up, somebody waits for each message.
Owned ==
  "timeout" \notin windows =>
    \A s \in Sessions : \A m \in Waiting(s) : \E c \in Clients : op[c].step = "sent" /\ op[c].number = m.number

\* Where a resumed queue is not answered early, a flag that is set is true.
Flagged ==
  "resume" \notin windows => \A s \in Sessions : run[s] /\ safe[s] => ~turn[s] /\ queue[s] # "due"

Resting == \A s \in Sessions : ~run[s] => ~safe[s] /\ ~tail[s]

Bounded == requests \in 0 .. MaxRequests /\ windows \subseteq Windows

\* After the upgrade was granted only those are left who have not entered or are
\* answered, and no actor has anything to do.
Granted ==
  windows = {} /\ draining =>
    /\ ~terminal /\ \A s \in Sessions : ~turn[s] /\ queue[s] # "due" /\ chan[s] = <<>>
    /\ \A c \in Clients : op[c].step \in {"idle", "asked", "refused", "done"}

Channels == Single /\ Unsent /\ Owned
UInv == IInv /\ Channels /\ Flagged /\ Resting /\ Bounded /\ Granted

-----------------------------------------------------------------------------
(* Channels whose messages have different numbers.                           *)

LEMMA DistinctAppend ==
  ASSUME NEW q \in Seq(Messages), NEW m \in Messages, Distinct(q),
         \A n \in Elements(q) : n.number # m.number
  PROVE  Distinct(Append(q, m))
<1>1. Len(Append(q, m)) = Len(q) + 1 /\ Len(q) \in Nat BY AppendProperties
<1>2. \A i \in 1 .. Len(q) : Append(q, m)[i] = q[i] BY AppendProperties
<1>3. Append(q, m)[Len(q) + 1] = m BY AppendProperties
<1>4. \A i \in 1 .. Len(q) + 1 : i \in 1 .. Len(q) \/ i = Len(q) + 1 BY <1>1
<1>5. \A i \in 1 .. Len(q) : q[i].number # m.number BY DEF Elements
<1>6. QED BY <1>1, <1>2, <1>3, <1>4, <1>5 DEF Distinct

LEMMA DistinctTail ==
  ASSUME NEW q \in Seq(Messages), q # <<>>, Distinct(q)
  PROVE  Distinct(Tail(q)) /\ \A n \in Elements(Tail(q)) : n.number # Head(q).number
<1>1. Len(q) \in Nat \ {0} /\ Head(q) = q[1] /\ Len(Tail(q)) = Len(q) - 1
  BY HeadTailProperties, EmptySeq, LenProperties
<1>2. \A i \in 1 .. Len(Tail(q)) : Tail(q)[i] = q[i + 1] BY <1>1, HeadTailProperties
<1>3. \A i \in 1 .. Len(Tail(q)) : i + 1 \in 1 .. Len(q) /\ i + 1 # 1 BY <1>1
<1>4. 1 \in 1 .. Len(q) BY <1>1
<1>5. Distinct(Tail(q))
  <2>1. ASSUME NEW i \in 1 .. Len(Tail(q)), NEW j \in 1 .. Len(Tail(q)), Tail(q)[i].number = Tail(q)[j].number
        PROVE  i = j
    <3>1. i + 1 = j + 1 BY <1>2, <1>3, <2>1 DEF Distinct
    <3>2. QED BY <1>1, <3>1
  <2>2. QED BY <2>1 DEF Distinct
<1>6. \A i \in 1 .. Len(Tail(q)) : Tail(q)[i].number # q[1].number
  BY <1>2, <1>3, <1>4 DEF Distinct
<1>7. QED BY <1>1, <1>5, <1>6 DEF Elements

LEMMA FirstNumbers == \A n \in Nat : IsFiniteSet(1 .. n) /\ Cardinality(1 .. n) = n
<1> TAKE n \in Nat
<1>1. 1 \in Int /\ n \in Int OBVIOUS
<1>2. IsFiniteSet(1 .. n) /\ Cardinality(1 .. n) = IF 1 > n THEN 0 ELSE n - 1 + 1 BY <1>1, FS_Interval, Zenon
<1>3. QED BY <1>2

\* A channel is no longer than what its numbers can be told apart by.
LEMMA DistinctLength ==
  ASSUME NEW q \in Seq(Messages), Distinct(q), NEW T, IsFiniteSet(T),
         \A i \in 1 .. Len(q) : q[i].number \in T
  PROVE  Len(q) <= Cardinality(T)
<1>1. Len(q) \in Nat BY LenProperties
<1>2. IsFiniteSet(1 .. Len(q)) /\ Cardinality(1 .. Len(q)) = Len(q) BY <1>1, FirstNumbers
<1>3. Cardinality(T) \in Nat BY FS_CardinalityType
<1>4. SUFFICES ASSUME Cardinality(T) < Len(q) PROVE FALSE BY <1>1, <1>3
<1> DEFINE g == [i \in 1 .. Len(q) |-> q[i].number]
<1>5. g \in [1 .. Len(q) -> T] OBVIOUS
<1>6. \E i, j \in 1 .. Len(q) : i # j /\ g[i] = g[j]
  <2>1. Cardinality(T) < Cardinality(1 .. Len(q)) BY <1>2, <1>4
  <2> HIDE DEF g
  <2>2. QED BY <1>2, <1>5, <2>1, FS_PigeonHole, Zenon
<1>7. QED BY <1>6 DEF Distinct
-----------------------------------------------------------------------------
(* The channels, in the three kinds of steps.  First: nothing is put in or   *)
(* taken out.                                                                *)

LEMMA ChannelsStill ==
  ASSUME IInv, Channels, UNCHANGED <<chan, windows>>, NEW c \in Clients,
         \A d \in Clients : d # c => op'[d] = op[d],
         op'[c].step \in BeforeSent =>
           op'[c].number = requests + 1 \/ (op[c].step \in BeforeSent /\ op'[c].number = op[c].number),
         op[c].step = "sent" => "timeout" \in windows
  PROVE  Channels'
<1>1. \A s \in Sessions : Waiting(s)' = Waiting(s) BY DEF Waiting
<1>2. Single' BY <1>1 DEF Single, Channels
<1>3. Unsent'
  <2>1. ASSUME NEW d \in Clients, op'[d].step \in BeforeSent PROVE Outstanding(d)' = {}
    <3>1. CASE d = c /\ op'[c].number = requests + 1
      <4>1. \A s \in Sessions : \A m \in Waiting(s) : m.number # requests + 1 BY DEF IInv, Typed, Numbered
      <4>2. QED BY <1>1, <3>1, <4>1 DEF Outstanding
    <3>2. CASE op[d].step \in BeforeSent /\ op'[d].number = op[d].number
      <4>1. Outstanding(d) = {} BY <3>2 DEF Channels, Unsent
      <4>2. QED BY <1>1, <3>2, <4>1 DEF Outstanding
    <3>3. QED BY <2>1, <3>1, <3>2
  <2>2. QED BY <2>1 DEF Unsent
<1>4. Owned'
  <2>1. ASSUME "timeout" \notin windows, NEW s \in Sessions, NEW m \in Waiting(s)
        PROVE  \E d \in Clients : op'[d].step = "sent" /\ op'[d].number = m.number
    <3>1. PICK d \in Clients : op[d].step = "sent" /\ op[d].number = m.number BY <2>1 DEF Channels, Owned
    <3>2. op'[d] = op[d] BY <2>1, <3>1
    <3>3. QED BY <3>1, <3>2
  <2>2. QED BY <1>1, <2>1 DEF Owned
<1>5. QED BY <1>2, <1>3, <1>4 DEF Channels

\* Second: c, who has nothing in a channel, puts a message in that of s.
LEMMA ChannelsPushed ==
  ASSUME IInv, Channels, UNCHANGED windows, NEW c \in Clients, NEW s \in Sessions,
         NEW k \in ToActor \cup {"cancel", "cancelIdle"}, Push(s, c, k),
         \A d \in Clients : d # c => op'[d] = op[d],
         op[c].step \in BeforeSent, op'[c].step = "sent", op'[c].number = op[c].number
  PROVE  Channels'
<1> DEFINE m == [kind |-> k, number |-> op[c].number]
<1>1. op[c] \in Ops /\ Asking(c) /\ m \in Messages
  BY DEF IInv, Typed, BeforeSent, Asking, Ops, Messages
<1>2. /\ chan \in [Sessions -> Seq(Messages)]
      /\ chan'[s] = Append(chan[s], m) /\ \A t \in Sessions : t # s => chan'[t] = chan[t]
  BY <1>1 DEF Push, IInv, Typed
<1>3. m.number = op[c].number OBVIOUS
<1> HIDE DEF m
<1>4. /\ Waiting(s)' = Waiting(s) \cup {m}
      /\ \A t \in Sessions : t # s => Waiting(t)' = Waiting(t)
  <2>1. chan[s] \in Seq(Messages) BY <1>2
  <2>2. Elements(Append(chan[s], m)) = Elements(chan[s]) \cup {m} BY <1>1, <2>1, ElementsOfAppend
  <2>3. QED BY <1>2, <2>2 DEF Waiting
<1>5. \A t \in Sessions : \A n \in Waiting(t) : n.number # m.number
  BY <1>3 DEF Channels, Unsent, Outstanding
<1>6. Single'
  <2>1. Distinct(Append(chan[s], m))
    <3>1. chan[s] \in Seq(Messages) /\ Distinct(chan[s]) BY <1>2 DEF Channels, Single
    <3>2. \A n \in Elements(chan[s]) : n.number # m.number BY <1>5 DEF Waiting
    <3>3. QED BY <1>1, <3>1, <3>2, DistinctAppend
  <2>2. \A t \in Sessions : Distinct(chan'[t]) BY <1>2, <2>1 DEF Channels, Single
  <2>3. ASSUME NEW t \in Sessions, NEW u \in Sessions, t # u, NEW x \in Waiting(t)', NEW y \in Waiting(u)'
        PROVE  x.number # y.number
    <3>1. CASE x \in Waiting(t) /\ y \in Waiting(u) BY <2>3, <3>1 DEF Channels, Single
    <3>2. CASE x = m /\ y \in Waiting(u) BY <1>5, <3>2
    <3>3. CASE x \in Waiting(t) /\ y = m BY <1>5, <3>3
    <3>4. QED BY <1>4, <2>3, <3>1, <3>2, <3>3
  <2>4. QED BY <2>2, <2>3 DEF Single
<1>7. Unsent'
  <2>1. ASSUME NEW d \in Clients, op'[d].step \in BeforeSent PROVE Outstanding(d)' = {}
    <3>1. d # c /\ op'[d] = op[d] BY <2>1 DEF BeforeSent
    <3>2. Asking(d) /\ Outstanding(d) = {} BY <2>1, <3>1 DEF Channels, Unsent, Asking, BeforeSent
    <3>3. op[d].number # m.number BY <1>1, <1>3, <3>1, <3>2 DEF IInv, Numbered
    <3>4. \A t \in Sessions : \A n \in Waiting(t)' : n.number # op[d].number
      BY <1>4, <3>2, <3>3 DEF Outstanding
    <3>5. QED BY <3>1, <3>4 DEF Outstanding
  <2>2. QED BY <2>1 DEF Unsent
<1>8. Owned'
  <2>1. ASSUME "timeout" \notin windows, NEW t \in Sessions, NEW n \in Waiting(t)'
        PROVE  \E d \in Clients : op'[d].step = "sent" /\ op'[d].number = n.number
    <3>1. CASE n = m BY <1>3, <3>1
    <3>2. CASE n # m
      <4>1. n \in Waiting(t) BY <1>4, <2>1, <3>2
      <4>2. PICK d \in Clients : op[d].step = "sent" /\ op[d].number = n.number
        BY <2>1, <4>1 DEF Channels, Owned
      <4>3. d # c BY <4>2 DEF BeforeSent
      <4>4. QED BY <4>2, <4>3
    <3>3. QED BY <3>1, <3>2
  <2>2. QED BY <2>1 DEF Owned
<1>9. QED BY <1>6, <1>7, <1>8 DEF Channels

\* Third: the actor of s takes one message out and answers, or ends and answers
\* everybody.  Whoever goes on has nothing left in a channel; whoever is not
\* answered still waits.
LEMMA ChannelsReceived ==
  ASSUME IInv, Channels, NEW s \in Sessions, Receive(s)
  PROVE  Channels'
<1> DEFINE m == Head(chan[s])
           ends == m.kind = "cancel" \/ (m.kind = "cancelIdle" /\ ~Vetoed(s))
           behind == {chan[s][i].number : i \in 2 .. Len(chan[s])}
           taken == IF ~ends /\ m.kind = "cancelIdle" THEN {} ELSE {m.number}
           lost == IF ends THEN behind ELSE IF m.kind = "cancelIdle" THEN {m.number} ELSE {}
<1>1. /\ chan[s] # <<>> /\ chan[s] \in Seq(Messages) /\ chan \in [Sessions -> Seq(Messages)]
  BY DEF IInv, Typed, Receive
<1>2. op' = Replied(taken, lost) /\ UNCHANGED windows BY DEF Receive
<1>3. chan' = [chan EXCEPT ![s] = IF ends THEN <<>> ELSE Tail(chan[s])] BY DEF Receive, Behind
<1>4. m \in Waiting(s) /\ Elements(Tail(chan[s])) \subseteq Waiting(s) /\ Distinct(chan[s])
  BY <1>1, ElementsOfTail DEF Waiting, Channels, Single
<1>5. Distinct(Tail(chan[s])) /\ \A n \in Elements(Tail(chan[s])) : n.number # m.number
  BY <1>1, <1>4, DistinctTail
<1>6. \A x \in behind : \E n \in Waiting(s) : n.number = x
  <2>1. \A i \in 2 .. Len(chan[s]) : i \in 1 .. Len(chan[s]) BY <1>1, LenProperties
  <2>2. QED BY <2>1 DEF Waiting, Elements
<1>7. taken \subseteq {m.number} /\ (~ends => lost \subseteq {m.number}) /\ (ends => lost = behind) OBVIOUS
<1>8. \A x \in taken : x = m.number OBVIOUS
<1> HIDE DEF m, ends, behind, taken, lost
<1>9. /\ chan'[s] = IF ends THEN <<>> ELSE Tail(chan[s])
      /\ \A t \in Sessions : t # s => chan'[t] = chan[t]
  BY <1>1, <1>3
<1>10. /\ \A t \in Sessions : t # s => Waiting(t)' = Waiting(t)
       /\ Waiting(s)' \subseteq Waiting(s) /\ (ends => Waiting(s)' = {})
       /\ \A n \in Waiting(s)' : n.number # m.number
  BY <1>4, <1>5, <1>9, ElementsOfEmpty DEF Waiting
<1>11. \A t \in Sessions : \A n \in Waiting(t)' : n \in Waiting(t) /\ n.number # m.number
  <2>1. ASSUME NEW t \in Sessions, t # s, NEW n \in Waiting(t) PROVE n.number # m.number
    BY <1>4, <2>1 DEF Channels, Single
  <2>2. QED BY <1>10, <2>1
<1>12. \A d \in Clients :
         /\ op'[d].number = op[d].number
         /\ op'[d] = op[d] \/
              /\ op[d].step = "sent" /\ op[d].number \in taken \cup lost
              /\ op'[d].step # "refused" => op[d].number \in taken
  BY <1>2, Answers DEF IInv
<1>13. Single'
  <2>1. Distinct(<<>>) BY DEF Distinct
  <2>2. \A t \in Sessions : Distinct(chan'[t]) BY <1>5, <1>9, <2>1 DEF Channels, Single
  <2>3. \A t \in Sessions : Waiting(t)' \subseteq Waiting(t) BY <1>10
  <2>4. QED BY <2>2, <2>3 DEF Channels, Single
<1>14. Unsent'
  <2>1. ASSUME NEW d \in Clients, op'[d].step \in BeforeSent PROVE Outstanding(d)' = {}
    <3>1. CASE op'[d] = op[d]
      <4>1. Outstanding(d) = {} BY <2>1, <3>1 DEF Channels, Unsent
      <4>2. QED BY <1>11, <3>1, <4>1 DEF Outstanding
    <3>2. CASE op'[d] # op[d]
      <4>1. op'[d].number = m.number BY <1>8, <1>12, <2>1, <3>2 DEF BeforeSent
      <4>2. QED BY <1>11, <4>1 DEF Outstanding
    <3>3. QED BY <3>1, <3>2
  <2>2. QED BY <2>1 DEF Unsent
<1>15. Owned'
  <2>1. ASSUME "timeout" \notin windows, NEW t \in Sessions, NEW n \in Waiting(t)'
        PROVE  \E d \in Clients : op'[d].step = "sent" /\ op'[d].number = n.number
    <3>1. n \in Waiting(t) /\ n.number # m.number BY <1>11, <2>1
    <3>2. PICK d \in Clients : op[d].step = "sent" /\ op[d].number = n.number
      BY <2>1, <3>1 DEF Channels, Owned
    <3>3. n.number \notin lost
      <4>1. CASE ends
        <5>1. t # s BY <1>10, <2>1, <4>1
        <5>2. \A x \in Waiting(s) : x.number # n.number BY <3>1, <5>1 DEF Channels, Single
        <5>3. QED BY <1>6, <1>7, <4>1, <5>2
      <4>2. CASE ~ends BY <1>7, <3>1, <4>2
      <4>3. QED BY <4>1, <4>2
    <3>4. n.number \notin taken BY <1>8, <3>1
    <3>5. op'[d] = op[d] BY <1>12, <3>2, <3>3, <3>4
    <3>6. QED BY <3>2, <3>5
  <2>2. QED BY <1>2, <2>1 DEF Owned
<1>16. QED BY <1>13, <1>14, <1>15 DEF Channels

-----------------------------------------------------------------------------
(* The channels, action by action.                                           *)

LEMMA StepTaken ==
  ASSUME IInv, NEW c \in Clients, NEW x \in Steps, Step(c, x)
  PROVE  /\ op'[c].number = op[c].number /\ op'[c].step = x
         /\ \A d \in Clients : d # c => op'[d] = op[d]
<1>1. op \in [Clients -> Ops] /\ op[c] \in Ops BY DEF IInv, Typed
<1>2. QED BY <1>1 DEF Step, Ops

\* A step that neither sends a message nor leaves the wait for an answer.
LEMMA ChannelsMoved ==
  ASSUME IInv, Channels, UNCHANGED <<chan, windows>>, NEW c \in Clients,
         NEW x \in Steps, Step(c, x), op[c].step \in BeforeSent
  PROVE  Channels'
<1>1. /\ op'[c].number = op[c].number /\ op'[c].step = x
      /\ \A d \in Clients : d # c => op'[d] = op[d]
  BY StepTaken
<1>2. op[c].step # "sent" BY DEF BeforeSent
<1>3. QED BY <1>1, <1>2, ChannelsStill

LEMMA ChannelsClosing ==
  ASSUME IInv, Channels, UNCHANGED windows, NEW c \in Clients, NEW s \in Sessions,
         NEW k \in {"cancel", "cancelIdle"}, NEW step, SendClose(c, s, k, step),
         \A d \in Clients : d # c => op'[d] = op[d],
         op[c].step \in BeforeSent, op'[c].number = op[c].number,
         step = "sent" => op'[c].step = "sent"
  PROVE  Channels'
<1>1. CASE run[s]
  <2>1. Push(s, c, k) /\ step = "sent" BY <1>1 DEF SendClose
  <2>2. k \in ToActor \cup {"cancel", "cancelIdle"} OBVIOUS
  <2>3. QED BY <2>1, <2>2, ChannelsPushed
<1>2. CASE ~run[s]
  <2>1. UNCHANGED chan BY <1>2 DEF SendClose, actors
  <2>2. op[c].step # "sent" BY DEF BeforeSent
  <2>3. QED BY <2>1, <2>2, ChannelsStill
<1>3. QED BY <1>1, <1>2

LEMMA ChannelsHandled ==
  ASSUME IInv, Channels, NEW c \in Clients, Handle(c)
  PROVE  Channels'
<1>0. op \in [Clients -> Ops] /\ op[c] \in Ops /\ (op[c].step # "idle" => op[c].on \in Sessions)
  BY DEF IInv, Typed
<1>1. CASE Enter(c)
  <2>1. PICK x \in {"refused", "entered"} : Step(c, x) BY <1>1 DEF Enter
  <2>2. op[c].step \in BeforeSent /\ x \in Steps /\ UNCHANGED <<chan, windows>>
    BY <1>1, <2>1 DEF Enter, BeforeSent, Steps, actors
  <2>3. QED BY <2>1, <2>2, ChannelsMoved
<1>2. CASE Hold(c)
  <2>1. Step(c, "holding") /\ op[c].step \in BeforeSent /\ "holding" \in Steps /\ UNCHANGED <<chan, windows>>
    BY <1>2 DEF Hold, BeforeSent, Steps, actors
  <2>2. QED BY <2>1, ChannelsMoved
<1>3. CASE Answer(c)
  <2>1. op[c].step # "sent" /\ op' = [op EXCEPT ![c] = NoOp] /\ UNCHANGED <<chan, windows>>
    BY <1>3 DEF Answer, actors
  <2>2. op'[c].step \notin BeforeSent /\ \A d \in Clients : d # c => op'[d] = op[d]
    BY <1>0, <2>1 DEF NoOp, BeforeSent
  <2>3. QED BY <2>1, <2>2, ChannelsStill
<1>4. CASE Check(c)
  <2>1. PICK x \in {"refused", "checked"} : Step(c, x) BY <1>4 DEF Check
  <2>2. op[c].step \in BeforeSent /\ x \in Steps /\ UNCHANGED <<chan, windows>>
    BY <1>4, <2>1 DEF Check, BeforeSent, Steps, actors
  <2>3. QED BY <2>1, <2>2, ChannelsMoved
<1>5. CASE Dispatch(c)
  <2>1. Push(op[c].on, c, op[c].kind) /\ Step(c, "sent") /\ op[c].step = "checked" /\ UNCHANGED windows
    BY <1>5 DEF Dispatch
  <2>2. op[c].kind \in ToActor /\ op[c].on \in Sessions /\ op[c].step \in BeforeSent
    BY <1>0, <2>1 DEF IInv, Kept, BeforeSent
  <2>3. /\ op'[c].number = op[c].number /\ op'[c].step = "sent"
        /\ \A d \in Clients : d # c => op'[d] = op[d]
    <3>1. "sent" \in Steps BY DEF Steps
    <3>2. QED BY <2>1, <3>1, StepTaken
  <2>4. QED BY <2>1, <2>2, <2>3, ChannelsPushed
<1>6. ASSUME NEW step \in {"sent", "closed"}, NEW k \in {"cancel", "cancelIdle"},
             SendClose(c, op[c].on, k, step), Step(c, step), op[c].step = "holding", UNCHANGED windows
      PROVE  Channels'
  <2>1. op[c].on \in Sessions /\ op[c].step \in BeforeSent /\ step \in Steps BY <1>0, <1>6 DEF BeforeSent, Steps
  <2>2. /\ op'[c].number = op[c].number /\ op'[c].step = step
        /\ \A d \in Clients : d # c => op'[d] = op[d]
    BY <1>6, <2>1, StepTaken
  <2>3. QED BY <1>6, <2>1, <2>2, ChannelsClosing
<1>7. CASE Close(c)
  <2>1. PICK step \in {"sent", "closed"}, k \in {"cancel", "cancelIdle"} :
          SendClose(c, op[c].on, k, step) /\ Step(c, step)
    BY <1>7 DEF Close
  <2>2. op[c].step = "holding" /\ UNCHANGED windows BY <1>7 DEF Close
  <2>3. QED BY <1>6, <2>1, <2>2
<1>8. CASE Archive(c)
  <2>1. op[c].step = "holding" /\ UNCHANGED windows BY <1>8 DEF Archive
  <2>2. CASE turn[op[c].on]
    <3>1. Step(c, "refused") /\ UNCHANGED chan BY <1>8, <2>2 DEF Archive, actors
    <3>2. op[c].step \in BeforeSent /\ "refused" \in Steps BY <2>1 DEF BeforeSent, Steps
    <3>3. QED BY <2>1, <3>1, <3>2, ChannelsMoved
  <2>3. CASE ~turn[op[c].on]
    <3>1. PICK step \in {"sent", "closed"} : SendClose(c, op[c].on, "cancel", step) /\ Step(c, step)
      BY <1>8, <2>3 DEF Archive
    <3>2. QED BY <1>6, <2>1, <3>1
  <2>4. QED BY <2>2, <2>3
<1>9. CASE Closed(c) \/ Unarchive(c) \/ Terminal(c) \/ Restored(c)
  <2>1. Step(c, "done") /\ op[c].step \in BeforeSent /\ "done" \in Steps /\ UNCHANGED <<chan, windows>>
    BY <1>9 DEF Closed, Unarchive, Terminal, Restored, BeforeSent, Steps, actors
  <2>2. QED BY <2>1, ChannelsMoved
<1>10. CASE Undo(c)
  <2>1. op[c].step = "holding" /\ UNCHANGED <<chan, windows>> BY <1>10 DEF Undo, actors
  <2>2. op'[c].number = op[c].number /\ \A d \in Clients : d # c => op'[d] = op[d]
    BY <1>0, <1>10 DEF Undo, Ops
  <2>3. op[c].step \in BeforeSent /\ op[c].step # "sent" BY <2>1 DEF BeforeSent
  <2>4. QED BY <2>1, <2>2, <2>3, ChannelsStill
<1>11. CASE Sweep(c)
  <2>1. op[c].step = "sweeping" /\ op[c].step \in BeforeSent /\ UNCHANGED windows BY <1>11 DEF Sweep, BeforeSent
  <2>2. CASE op[c].todo = {}
    <3>1. Step(c, "restoring") /\ UNCHANGED chan BY <1>11, <2>2 DEF Sweep, actors
    <3>2. "restoring" \in Steps BY DEF Steps
    <3>3. QED BY <2>1, <3>1, <3>2, ChannelsMoved
  <2>3. CASE op[c].todo # {}
    <3>1. PICK s \in op[c].todo, step \in {"sent", "closed"} :
            /\ SendClose(c, s, "cancelIdle", step)
            /\ op' = [op EXCEPT ![c].todo = op[c].todo \ {s}, ![c].step = IF step = "sent" THEN step ELSE "sweeping"]
      BY <1>11, <2>3 DEF Sweep
    <3>2. s \in Sessions BY <1>0 DEF Ops
    <3>3. /\ op'[c].number = op[c].number /\ (step = "sent" => op'[c].step = "sent")
          /\ \A d \in Clients : d # c => op'[d] = op[d]
      BY <1>0, <3>1 DEF Ops
    <3>4. QED BY <2>1, <3>1, <3>2, <3>3, ChannelsClosing
  <2>4. QED BY <2>2, <2>3
<1>12. CASE Prepare(c)
  <2>1. PICK x \in {"refused", "done"} : Step(c, x) BY <1>12 DEF Prepare
  <2>2. op[c].step \in BeforeSent /\ x \in Steps /\ UNCHANGED <<chan, windows>>
    BY <1>12, <2>1 DEF Prepare, BeforeSent, Steps, actors
  <2>3. QED BY <2>1, <2>2, ChannelsMoved
<1>13. QED BY <1>1, <1>2, <1>3, <1>4, <1>5, <1>7, <1>8, <1>9, <1>10, <1>11, <1>12 DEF Handle

LEMMA ChannelsKept ==
  ASSUME IInv, Channels, [Next]_vars
  PROVE  Channels'
<1>1. op \in [Clients -> Ops] BY DEF IInv, Typed
<1>2. ASSUME NEW c \in Clients, Ask(c) PROVE Channels'
  <2>1. PICK kind \in Kinds, s \in Sessions :
          op' = [op EXCEPT ![c] = [kind |-> kind, on |-> s, step |-> "asked", todo |-> {}, number |-> requests']]
    BY <1>2 DEF Ask
  <2>2. requests' = requests + 1 /\ op[c].step = "idle" /\ UNCHANGED <<chan, windows>>
    BY <1>2 DEF Ask, NoOp, actors
  <2>3. op'[c].number = requests + 1 /\ \A d \in Clients : d # c => op'[d] = op[d] BY <1>1, <2>1, <2>2
  <2>4. QED BY <2>2, <2>3, ChannelsStill
<1>3. ASSUME NEW c \in Clients, GiveUp(c) PROVE Channels'
  <2>1. "timeout" \in windows /\ Step(c, "refused") /\ UNCHANGED <<chan, windows>> BY <1>3 DEF GiveUp, actors
  <2>2. op'[c].step = "refused" /\ \A d \in Clients : d # c => op'[d] = op[d]
    BY <1>1, <2>1 DEF Step, IInv, Typed, Ops
  <2>3. QED BY <2>1, <2>2, ChannelsStill DEF BeforeSent
<1>4. ASSUME NEW c \in Clients, Handle(c) PROVE Channels' BY <1>4, ChannelsHandled
<1>5. ASSUME NEW s \in Sessions, Receive(s) PROVE Channels' BY <1>5, ChannelsReceived
<1>6. CASE UNCHANGED <<chan, op, windows>>
  <2>1. \A s \in Sessions : Waiting(s)' = Waiting(s) BY <1>6 DEF Waiting
  <2>2. \A c \in Clients : Outstanding(c)' = Outstanding(c) BY <1>6, <2>1 DEF Outstanding
  <2>3. Single' BY <1>6, <2>1 DEF Channels, Single
  <2>4. Unsent' BY <1>6, <2>2 DEF Channels, Unsent
  <2>5. Owned' BY <1>6, <2>1 DEF Channels, Owned
  <2>6. QED BY <2>3, <2>4, <2>5 DEF Channels
<1>7. ASSUME NEW s \in Sessions, TurnEnds(s) \/ TailOfLoop(s) PROVE UNCHANGED <<chan, op, windows>>
  BY <1>7 DEF TurnEnds, TailOfLoop
<1>8. UNCHANGED vars => UNCHANGED <<chan, op, windows>> BY DEF vars
<1>9. QED BY <1>2, <1>3, <1>4, <1>5, <1>6, <1>7, <1>8 DEF Next

-----------------------------------------------------------------------------
(* The flags.                                                                *)

\* What a request does to the actors beside its message: it may start one, whose
\* flag is not set.
LEMMA RequestsKeepFlags ==
  ASSUME IInv, NEW c \in Clients, Ask(c) \/ GiveUp(c) \/ Handle(c)
  PROVE  /\ UNCHANGED <<tail, turn, queue, windows>>
         /\ \/ UNCHANGED <<run, safe>>
            \/ \E s \in Sessions : /\ run' = [run EXCEPT ![s] = TRUE]
                                   /\ safe' = [safe EXCEPT ![s] = safe[s] /\ run[s]]
<1>1. ASSUME NEW s, NEW k, NEW step, SendClose(c, s, k, step) PROVE UNCHANGED <<run, safe, tail, turn, queue>>
  BY <1>1 DEF SendClose, actors
<1>2. CASE Dispatch(c)
  <2>1. op[c].on \in Sessions BY <1>2 DEF Dispatch, IInv, Typed
  <2>2. QED BY <1>2, <2>1 DEF Dispatch
<1>3. CASE Close(c) \/ Archive(c) \/ Sweep(c)
  <2>1. UNCHANGED windows BY <1>3 DEF Close, Archive, Sweep
  <2>2. CASE Close(c) BY <1>1, <2>1, <2>2 DEF Close
  <2>3. CASE Archive(c) BY <1>1, <2>1, <2>3 DEF Archive, actors
  <2>4. CASE Sweep(c) BY <1>1, <2>1, <2>4 DEF Sweep, actors
  <2>5. QED BY <1>3, <2>2, <2>3, <2>4
<1>4. CASE Ask(c) \/ GiveUp(c) \/ Enter(c) \/ Hold(c) \/ Answer(c) \/ Check(c) \/ Closed(c) \/ Unarchive(c)
           \/ Terminal(c) \/ Undo(c) \/ Restored(c) \/ Prepare(c)
  BY <1>4 DEF Ask, GiveUp, Enter, Hold, Answer, Check, Closed, Unarchive, Terminal, Undo, Restored, Prepare, actors
<1>5. QED BY <1>2, <1>3, <1>4 DEF Handle

LEMMA FlagsKept ==
  ASSUME IInv, Flagged, Resting, [Next]_vars
  PROVE  Flagged' /\ Resting'
<1>1. /\ run \in [Sessions -> BOOLEAN] /\ safe \in [Sessions -> BOOLEAN] /\ tail \in [Sessions -> BOOLEAN]
      /\ turn \in [Sessions -> BOOLEAN] /\ queue \in [Sessions -> {"empty", "held", "due"}]
  BY DEF IInv, Typed
<1>2. CASE UNCHANGED <<run, safe, tail, turn, queue, windows>>
  BY <1>2 DEF Flagged, Resting
<1>3. ASSUME NEW c \in Clients, Ask(c) \/ GiveUp(c) \/ Handle(c) PROVE Flagged' /\ Resting'
  <2>1. UNCHANGED <<tail, turn, queue, windows>> BY <1>3, RequestsKeepFlags
  <2>2. CASE UNCHANGED <<run, safe>> BY <1>2, <2>1, <2>2
  <2>3. CASE \E s \in Sessions : /\ run' = [run EXCEPT ![s] = TRUE]
                                 /\ safe' = [safe EXCEPT ![s] = safe[s] /\ run[s]]
    <3>1. PICK s \in Sessions : /\ run' = [run EXCEPT ![s] = TRUE]
                                /\ safe' = [safe EXCEPT ![s] = safe[s] /\ run[s]]
      BY <2>3
    <3>2. \A t \in Sessions : (safe'[t] => safe[t] /\ run[t]) /\ (run[t] => run'[t]) BY <1>1, <3>1 DEF Resting
    <3>3. QED BY <2>1, <3>2 DEF Flagged, Resting
  <2>4. QED BY <1>3, <2>2, <2>3, RequestsKeepFlags
<1>4. ASSUME NEW s \in Sessions, Receive(s) PROVE Flagged' /\ Resting'
  <2> DEFINE m == Head(chan[s])
             ends == m.kind = "cancel" \/ (m.kind = "cancelIdle" /\ ~Vetoed(s))
  <2>1. /\ run' = [run EXCEPT ![s] = ~ends]
        /\ turn' = [turn EXCEPT ![s] = ~ends /\ (turn[s] \/ (m.kind = "send" /\ queue[s] = "empty"))]
        /\ queue' = [queue EXCEPT ![s] = QueueAfter(s, m.kind, ends)]
        /\ safe' = [safe EXCEPT ![s] = ~ends /\ safe[s] /\ m.kind # "send" /\ (m.kind = "resume" => "resume" \in windows)]
        /\ tail' = [tail EXCEPT ![s] = ~ends /\ m.kind # "cancelIdle"]
        /\ UNCHANGED windows /\ run[s]
    BY <1>4 DEF Receive
  <2> HIDE DEF m, ends
  <2>2. Resting' BY <1>1, <2>1 DEF Resting
  <2>3. ASSUME "resume" \notin windows, safe'[s] PROVE ~turn'[s] /\ queue'[s] # "due"
    <3>1. ~ends /\ safe[s] /\ m.kind # "send" /\ m.kind # "resume" BY <1>1, <2>1, <2>3
    <3>2. ~turn[s] /\ queue[s] # "due" BY <2>1, <2>3, <3>1 DEF Flagged
    <3>3. QueueAfter(s, m.kind, ends) = queue[s] BY <3>1 DEF QueueAfter
    <3>4. QED BY <1>1, <2>1, <3>1, <3>2, <3>3
  <2>4. ASSUME NEW t \in Sessions, t # s
        PROVE  run'[t] = run[t] /\ safe'[t] = safe[t] /\ turn'[t] = turn[t] /\ queue'[t] = queue[t]
    BY <1>1, <2>1, <2>4
  <2>5. Flagged' BY <2>1, <2>3, <2>4 DEF Flagged
  <2>6. QED BY <2>2, <2>5
<1>5. ASSUME NEW s \in Sessions, TurnEnds(s) PROVE Flagged' /\ Resting'
  <2>1. /\ turn[s] /\ turn' = [turn EXCEPT ![s] = FALSE] /\ tail' = [tail EXCEPT ![s] = TRUE]
        /\ UNCHANGED <<run, safe, queue, windows>>
    BY <1>5 DEF TurnEnds
  <2>2. run[s] BY <2>1 DEF IInv, Actorless
  <2>3. QED BY <1>1, <2>1, <2>2 DEF Flagged, Resting
<1>6. ASSUME NEW s \in Sessions, TailOfLoop(s) PROVE Flagged' /\ Resting'
  <2> DEFINE starts == queue[s] = "due" /\ ~turn[s]
  <2>1. PICK rest \in {"empty", "due"} : queue' = IF starts THEN [queue EXCEPT ![s] = rest] ELSE queue
    BY <1>6 DEF TailOfLoop
  <2>2. /\ turn' = [turn EXCEPT ![s] = turn[s] \/ starts] /\ safe' = [safe EXCEPT ![s] = AtRest(s)]
        /\ tail[s] /\ tail' = [tail EXCEPT ![s] = FALSE] /\ UNCHANGED <<run, windows>>
    BY <1>6 DEF TailOfLoop
  <2>3. run[s] BY <2>2 DEF Resting
  <2>4. Resting' BY <1>1, <2>2, <2>3 DEF Resting
  <2>5. safe'[s] => ~turn'[s] /\ queue'[s] # "due" BY <1>1, <2>1, <2>2 DEF AtRest
  <2>6. ASSUME NEW t \in Sessions, t # s
        PROVE  run'[t] = run[t] /\ safe'[t] = safe[t] /\ turn'[t] = turn[t] /\ queue'[t] = queue[t]
    BY <1>1, <2>1, <2>2, <2>6
  <2>7. Flagged' BY <2>2, <2>5, <2>6 DEF Flagged
  <2>8. QED BY <2>4, <2>7
<1>7. UNCHANGED vars => UNCHANGED <<run, safe, tail, turn, queue, windows>> BY DEF vars
<1>8. QED BY <1>2, <1>3, <1>4, <1>5, <1>6, <1>7 DEF Next

-----------------------------------------------------------------------------
(* The upgrade.                                                              *)

\* When it is granted nothing is in a channel, and every flag was true.
LEMMA GrantedAlone ==
  ASSUME UInv, windows = {}, HostIdle, ~(\E d \in Clients : Entered(d))
  PROVE  ~terminal /\ \A s \in Sessions : ~turn[s] /\ queue[s] # "due" /\ chan[s] = <<>>
<1>1. ~terminal /\ \A s \in Sessions : ~turn[s] /\ (run[s] => safe[s]) BY DEF HostIdle
<1>2. ASSUME NEW s \in Sessions PROVE queue[s] # "due"
  <2>1. CASE run[s] BY <1>1, <2>1 DEF UInv, Flagged
  <2>2. CASE ~run[s] BY <2>2 DEF UInv, IInv, Actorless
  <2>3. QED BY <2>1, <2>2
<1>3. ASSUME NEW s \in Sessions, chan[s] # <<>> PROVE FALSE
  <2>1. chan[s] \in Seq(Messages) BY DEF UInv, IInv, Typed
  <2>2. Head(chan[s]) \in Waiting(s) BY <1>3, <2>1, ElementsOfTail DEF Waiting
  <2>3. PICK d \in Clients : op[d].step = "sent" BY <2>2 DEF UInv, Channels, Owned
  <2>4. Entered(d) BY <2>3 DEF Entered
  <2>5. QED BY <2>4
<1>4. QED BY <1>1, <1>2, <1>3

LEMMA GrantedKept ==
  ASSUME UInv, [Next]_vars
  PROVE  Granted'
<1>1. windows' = windows
  BY DEF Next, Handle, vars, Ask, GiveUp, Enter, Hold, Answer, Check, Dispatch, Close, Archive, Closed, Unarchive,
         Terminal, Undo, Sweep, Restored, Prepare, Receive, TurnEnds, TailOfLoop
<1>2. SUFFICES ASSUME windows = {}, draining'
               PROVE  /\ ~terminal' /\ \A s \in Sessions : ~turn'[s] /\ queue'[s] # "due" /\ chan'[s] = <<>>
                      /\ \A c \in Clients : op'[c].step \in {"idle", "asked", "refused", "done"}
  BY <1>1 DEF Granted
<1> DEFINE After == {"idle", "asked", "refused", "done"}
           Alone == ~terminal /\ \A s \in Sessions : ~turn[s] /\ queue[s] # "due" /\ chan[s] = <<>>
           Left == \A c \in Clients : op[c].step \in After
<1>3. op \in [Clients -> Ops] BY DEF UInv, IInv, Typed
<1>4. ASSUME NEW c \in Clients, NEW x \in After, Step(c, x), Left PROVE Left'
  <2>1. \A d \in Clients : op'[d].step \in After BY <1>3, <1>4 DEF Step, Ops
  <2>2. QED BY <2>1
<1>5. UNCHANGED <<terminal, actors>> /\ Alone => Alone' BY DEF actors
<1>6. CASE draining
  <2>1. Alone /\ Left BY <1>2, <1>6 DEF UInv, Granted
  <2>2. ASSUME NEW c \in Clients, Ask(c) PROVE Alone' /\ Left'
    <3>1. Alone' BY <1>5, <2>1, <2>2 DEF Ask
    <3>2. \E kind, s, n : op' = [op EXCEPT ![c] = [kind |-> kind, on |-> s, step |-> "asked", todo |-> {}, number |-> n]]
      BY <2>2 DEF Ask
    <3>3. \A d \in Clients : op'[d].step \in After BY <1>3, <2>1, <3>2
    <3>4. QED BY <3>1, <3>3
  <2>3. ASSUME NEW c \in Clients, Enter(c) PROVE Alone' /\ Left'
    <3>1. Alone' BY <1>5, <2>1, <2>3 DEF Enter
    <3>2. Step(c, "refused") BY <1>6, <2>3 DEF Enter
    <3>3. QED BY <1>4, <2>1, <3>1, <3>2
  <2>4. ASSUME NEW c \in Clients, Answer(c) PROVE Alone' /\ Left'
    <3>1. Alone' BY <1>5, <2>1, <2>4 DEF Answer
    <3>2. op' = [op EXCEPT ![c] = NoOp] /\ NoOp.step = "idle" BY <2>4 DEF Answer, NoOp
    <3>3. \A d \in Clients : op'[d].step \in After BY <1>3, <2>1, <3>2
    <3>4. QED BY <3>1, <3>3
  <2>5. ASSUME NEW c \in Clients, Prepare(c) PROVE Alone' /\ Left'
    <3>1. Alone' BY <1>5, <2>1, <2>5 DEF Prepare
    <3>2. PICK x \in {"done", "refused"} : Step(c, x) BY <2>5 DEF Prepare
    <3>3. x \in After OBVIOUS
    <3>4. QED BY <1>4, <2>1, <3>1, <3>2, <3>3
  <2>6. ASSUME NEW c \in Clients
        PROVE  ~(\/ GiveUp(c) \/ Hold(c) \/ Check(c) \/ Dispatch(c) \/ Close(c) \/ Archive(c) \/ Closed(c)
                 \/ Unarchive(c) \/ Terminal(c) \/ Undo(c) \/ Sweep(c) \/ Restored(c))
    <3>1. op[c].step \in After BY <2>1
    <3>2. QED
      BY <3>1 DEF GiveUp, Hold, Check, Dispatch, Close, Archive, Closed, Unarchive, Terminal, Undo, Sweep, Restored
  <2>7. ASSUME NEW s \in Sessions PROVE ~Receive(s) /\ ~TurnEnds(s) BY <2>1 DEF Receive, TurnEnds
  <2>8. ASSUME NEW s \in Sessions, TailOfLoop(s) PROVE Alone' /\ Left'
    <3>1. UNCHANGED <<terminal, chan, op>> BY <2>8 DEF TailOfLoop
    <3>2. UNCHANGED queue BY <2>1, <2>8 DEF TailOfLoop
    <3>3. turn' = [turn EXCEPT ![s] = turn[s] \/ (queue[s] = "due" /\ ~turn[s])] BY <2>8 DEF TailOfLoop
    <3>4. \A t \in Sessions : ~turn'[t] BY <2>1, <3>3 DEF UInv, IInv, Typed
    <3>5. QED BY <2>1, <3>1, <3>2, <3>4
  <2>9. UNCHANGED vars => Alone' /\ Left'
    <3>1. UNCHANGED vars => UNCHANGED <<terminal, turn, queue, chan, op>> BY DEF vars
    <3>2. QED BY <2>1, <3>1
  <2>10. Alone' /\ Left' BY <2>2, <2>3, <2>4, <2>5, <2>6, <2>7, <2>8, <2>9 DEF Next, Handle
  <2>11. QED BY <2>10
<1>7. CASE ~draining
  <2>1. PICK c \in Clients : Prepare(c)
    BY <1>2, <1>7 DEF Next, Handle, vars, Ask, GiveUp, Enter, Hold, Answer, Check, Dispatch, Close, Archive, Closed,
         Unarchive, Terminal, Undo, Sweep, Restored, Receive, TurnEnds, TailOfLoop
  <2>2. Step(c, "done") /\ ~(\E d \in Clients : Entered(d)) /\ HostIdle /\ UNCHANGED <<terminal, actors>>
    BY <1>2, <1>7, <2>1 DEF Prepare
  <2>3. Alone BY <1>2, <2>2, GrantedAlone
  <2>4. Left BY <2>2 DEF Entered
  <2>5. Alone' /\ Left' BY <1>4, <1>5, <2>2, <2>3, <2>4
  <2>6. QED BY <2>5
<1>8. QED BY <1>6, <1>7 DEF UInv, IInv, Typed

LEMMA InitUInv == ASSUME Init PROVE UInv
<1>1. \A s \in Sessions : chan[s] = <<>> /\ Waiting(s) = {} /\ ~run[s] BY ElementsOfEmpty DEF Init, Waiting
<1>2. \A s \in Sessions : Distinct(chan[s]) BY <1>1 DEF Distinct
<1>3. Channels BY <1>1, <1>2 DEF Channels, Single, Unsent, Outstanding, Owned
<1>4. Flagged /\ Resting BY DEF Init, Flagged, Resting
<1>5. Bounded BY AdmissionAssumption DEF Init, Bounded
<1>6. Granted BY DEF Init, Granted
<1>7. QED BY <1>3, <1>4, <1>5, <1>6, InitIInv DEF UInv

LEMMA BoundedKept == ASSUME UInv, [Next]_vars PROVE Bounded'
<1>1. ASSUME NEW c \in Clients, Ask(c) PROVE Bounded'
  BY <1>1, AdmissionAssumption DEF UInv, Bounded, Ask
<1>2. CASE UNCHANGED <<requests, windows>> BY <1>2 DEF UInv, Bounded
<1>3. QED
  BY <1>1, <1>2 DEF Next, Handle, vars, GiveUp, Enter, Hold, Answer, Check, Dispatch, Close, Archive, Closed, Unarchive,
         Terminal, Undo, Sweep, Restored, Prepare, Receive, TurnEnds, TailOfLoop

LEMMA NextUInv == ASSUME UInv, [Next]_vars PROVE UInv'
BY NextIInv, ChannelsKept, FlagsKept, BoundedKept, GrantedKept DEF UInv

\* A granted upgrade ends no work, as long as no flag is stale and no given-up
\* request waits in a channel: when the write lock of draining is taken nobody
\* waits for an actor, and after it nobody enters (main.rs, PrepareUpgrade).
THEOREM UpgradeEndsNoWork == Spec => []UpgradeSafe
<1>1. Init => UInv BY InitUInv
<1>2. UInv /\ [Next]_vars => UInv' BY NextUInv
<1>3. UInv => UpgradeSafe BY DEF UInv, Granted, UpgradeSafe, UpgradeInterruptsNothing
<1>4. QED BY <1>1, <1>2, <1>3, PTL DEF Spec

-----------------------------------------------------------------------------
(* The types, and how long a channel gets.                                   *)

\* Where nobody gives up a channel holds at most one message of each client.
LEMMA OneEach ==
  ASSUME UInv, "timeout" \notin windows, NEW s \in Sessions
  PROVE  Len(chan[s]) <= Cardinality(Clients)
<1> DEFINE q == chan[s]
           owner == [i \in 1 .. Len(q) |-> CHOOSE c \in Clients : op[c].number = q[i].number]
<1>1. q \in Seq(Messages) /\ Distinct(q) BY DEF UInv, IInv, Typed, Channels, Single
<1>2. Len(q) \in Nat BY <1>1, LenProperties
<1>3. \A i \in 1 .. Len(q) : q[i] \in Waiting(s) BY DEF Waiting, Elements
<1>4. \A i \in 1 .. Len(q) : \E c \in Clients : op[c].number = q[i].number
  BY <1>3 DEF UInv, Channels, Owned
<1>5. \A i \in 1 .. Len(q) : owner[i] \in Clients /\ op[owner[i]].number = q[i].number BY <1>4
<1>6. owner \in [1 .. Len(q) -> Clients] BY <1>5
<1>7. IsFiniteSet(Clients) /\ Cardinality(Clients) \in Nat BY AdmissionAssumption, FS_CardinalityType
<1>8. IsFiniteSet(1 .. Len(q)) /\ Cardinality(1 .. Len(q)) = Len(q) BY <1>2, FirstNumbers
<1> HIDE DEF owner, q
<1>9. SUFFICES ASSUME Cardinality(Clients) < Len(q) PROVE FALSE BY <1>2, <1>7 DEF q
<1>10. \E i, j \in 1 .. Len(q) : i # j /\ owner[i] = owner[j]
  <2>1. Cardinality(Clients) < Cardinality(1 .. Len(q)) BY <1>8, <1>9
  <2>2. QED BY <1>6, <1>7, <1>8, <2>1, FS_PigeonHole, Zenon
<1>11. PICK i \in 1 .. Len(q), j \in 1 .. Len(q) : i # j /\ owner[i] = owner[j] BY <1>10
<1>12. q[i].number = q[j].number BY <1>5, <1>11
<1>13. QED BY <1>1, <1>11, <1>12 DEF Distinct

\* Otherwise it holds at most one message of each request.
LEMMA NoLongerThanRequests ==
  ASSUME UInv, NEW s \in Sessions
  PROVE  Len(chan[s]) <= MaxRequests
<1>1. chan[s] \in Seq(Messages) /\ Distinct(chan[s]) /\ requests \in Nat /\ requests <= MaxRequests
  BY AdmissionAssumption DEF UInv, IInv, Typed, Channels, Single, Bounded
<1>2. IsFiniteSet(1 .. requests) /\ Cardinality(1 .. requests) = requests BY <1>1, FirstNumbers
<1>3. \A i \in 1 .. Len(chan[s]) : chan[s][i].number \in 1 .. requests
  BY DEF UInv, IInv, Numbered, Waiting, Elements
<1>4. Len(chan[s]) <= Cardinality(1 .. requests) BY <1>1, <1>2, <1>3, DistinctLength
<1>5. Len(chan[s]) \in Nat /\ MaxRequests \in Nat BY <1>1, AdmissionAssumption, LenProperties
<1>6. QED BY <1>1, <1>2, <1>4, <1>5

LEMMA ChannelsBounded ==
  ASSUME UInv, NEW s \in Sessions
  PROVE  Len(chan[s]) <= Cardinality(Clients) + (IF "timeout" \in windows THEN MaxRequests ELSE 0)
<1>1. Cardinality(Clients) \in Nat /\ MaxRequests \in Nat BY AdmissionAssumption, FS_CardinalityType
<1>2. Len(chan[s]) \in Nat BY LenProperties DEF UInv, IInv, Typed
<1>3. CASE "timeout" \in windows BY <1>1, <1>2, <1>3, NoLongerThanRequests
<1>4. CASE "timeout" \notin windows BY <1>1, <1>2, <1>4, OneEach
<1>5. QED BY <1>3, <1>4

\* Every variable keeps its type, a session without an actor has nothing of one,
\* and no channel holds more than one message for each client, and for each
\* request that was given up.
THEOREM TypesHold == Spec => []TypeOK
<1>1. Init => UInv BY InitUInv
<1>2. UInv /\ [Next]_vars => UInv' BY NextUInv
<1>3. UInv => TypeOK
  <2> SUFFICES ASSUME UInv PROVE TypeOK OBVIOUS
  <2>1. Typed BY DEF UInv, IInv
  <2>2. \A c \in Clients :
          /\ op[c].kind \in AllKinds \cup {"none"} /\ op[c].on \in Sessions \cup {NoSession}
          /\ op[c].step \in Steps /\ op[c].todo \subseteq Sessions
    BY <2>1 DEF Typed, Ops
  <2>3. \A s \in Sessions : ~run[s] => ~safe[s] /\ chan[s] = <<>> /\ ~tail[s] /\ ~cli[s] /\ ~turn[s]
    BY DEF UInv, IInv, Actorless, Resting
  <2>4. \A s \in Sessions :
          Len(chan[s]) <= Cardinality(Clients) + (IF "timeout" \in windows THEN MaxRequests ELSE 0)
    BY ChannelsBounded
  <2>5. requests \in 0 .. MaxRequests /\ windows \subseteq Windows BY DEF UInv, Bounded
  <2>6. QED BY <2>1, <2>2, <2>3, <2>4, <2>5 DEF TypeOK, Typed
<1>4. QED BY <1>1, <1>2, <1>3, PTL DEF Spec

-----------------------------------------------------------------------------
(* Nobody waits in a circle.  A request that waits for a lock waits for one   *)
(* that has got further, and what an actor owes is still in its channel.      *)

AnswersDue == \A c \in Clients : op[c].step = "sent" => Outstanding(c) # {}

\* Messages join a channel and no request is sent but with one of its own.
LEMMA DueWhileKept ==
  ASSUME AnswersDue, \A s \in Sessions : Waiting(s) \subseteq Waiting(s)',
         \A c \in Clients : op'[c].step = "sent" =>
           \/ op[c].step = "sent" /\ op'[c].number = op[c].number
           \/ \E s \in Sessions : \E m \in Waiting(s)' : m.number = op'[c].number
  PROVE  AnswersDue'
<1>1. SUFFICES ASSUME NEW c \in Clients, op'[c].step = "sent"
               PROVE  \E s \in Sessions : \E m \in Waiting(s)' : m.number = op'[c].number
  BY DEF AnswersDue, Outstanding
<1>2. CASE op[c].step = "sent" /\ op'[c].number = op[c].number
  <2>1. PICK s \in Sessions : \E m \in Waiting(s) : m.number = op[c].number
    BY <1>2 DEF AnswersDue, Outstanding
  <2>2. Waiting(s) \subseteq Waiting(s)' OBVIOUS
  <2>3. QED BY <1>2, <2>1, <2>2
<1>3. QED BY <1>1, <1>2

\* A request that is sent joins the channel of s.
LEMMA DuePushed ==
  ASSUME IInv, NEW s \in Sessions, NEW c \in Clients, NEW kind \in ToActor \cup {"cancel", "cancelIdle"},
         op[c].step # "idle", Push(s, c, kind)
  PROVE  /\ \A t \in Sessions : Waiting(t) \subseteq Waiting(t)'
         /\ \E m \in Waiting(s)' : m.number = op[c].number
<1> DEFINE m == [kind |-> kind, number |-> op[c].number]
<1>1. chan \in [Sessions -> Seq(Messages)] /\ op[c] \in Ops BY DEF IInv, Typed
<1>2. m \in Messages BY <1>1 DEF Ops, Messages
<1>3. chan' = [chan EXCEPT ![s] = Append(@, m)] BY DEF Push
<1>4. Waiting(s)' = Waiting(s) \cup {m} BY <1>1, <1>2, <1>3, ElementsOfAppend DEF Waiting
<1>5. \A t \in Sessions : t # s => Waiting(t)' = Waiting(t) BY <1>1, <1>3 DEF Waiting
<1>6. m.number = op[c].number OBVIOUS
<1> HIDE DEF m
<1>7. \E n \in Waiting(s)' : n.number = op[c].number BY <1>4, <1>6
<1>8. QED BY <1>4, <1>5, <1>7

\* A close is sent to the actor of s, or there is none.
LEMMA DueClosing ==
  ASSUME IInv, AnswersDue, NEW s \in Sessions, NEW c \in Clients, NEW kind \in {"cancel", "cancelIdle"}, NEW step,
         NEW x, op[c].step \notin {"idle", "sent"}, SendClose(c, s, kind, step), x = "sent" => step = "sent",
         op'[c].step = x, op'[c].number = op[c].number, \A d \in Clients : d # c => op'[d] = op[d]
  PROVE  AnswersDue'
<1>1. CASE run[s]
  <2>1. Push(s, c, kind) BY <1>1 DEF SendClose
  <2>2. \A t \in Sessions : Waiting(t) \subseteq Waiting(t)' BY <2>1, DuePushed
  <2>3. \E m \in Waiting(s)' : m.number = op[c].number BY <2>1, DuePushed
  <2>4. QED BY <2>2, <2>3, DueWhileKept
<1>2. CASE ~run[s]
  <2>1. x # "sent" /\ UNCHANGED actors BY <1>2 DEF SendClose
  <2>2. \A t \in Sessions : Waiting(t)' = Waiting(t) BY <2>1, SameSessions
  <2>3. QED BY <2>1, <2>2, DueWhileKept
<1>3. QED BY <1>1, <1>2

\* The actor of s answers what it takes, and when it ends what it leaves behind.
LEMMA DueReceiving ==
  ASSUME IInv, AnswersDue, NEW s \in Sessions, Receive(s)
  PROVE  AnswersDue'
<1> DEFINE m == Head(chan[s])
           ends == m.kind = "cancel" \/ (m.kind = "cancelIdle" /\ ~Vetoed(s))
           behind == {chan[s][i].number : i \in 2 .. Len(chan[s])}
<1>1. chan \in [Sessions -> Seq(Messages)] /\ chan[s] # <<>> /\ Typed BY DEF IInv, Typed, Receive
<1>2. PICK taken, lost : /\ op' = Replied(taken, lost) /\ m.number \in taken \cup lost
                         /\ ends => behind \subseteq taken \cup lost
  <2>1. CASE ends BY <2>1 DEF Receive
  <2>2. CASE ~ends BY <2>2 DEF Receive
  <2>3. QED BY <2>1, <2>2
<1>3. chan' = [chan EXCEPT ![s] = IF ends THEN <<>> ELSE Tail(@)] BY DEF Receive, Behind
<1>4. \A t \in Sessions : t # s => Waiting(t)' = Waiting(t) BY <1>1, <1>3 DEF Waiting
<1>5. SUFFICES ASSUME NEW c \in Clients, op'[c].step = "sent"
               PROVE  \E t \in Sessions : \E n \in Waiting(t)' : n.number = op'[c].number
  BY DEF AnswersDue, Outstanding
<1>6. op[c].step = "sent" /\ op[c].number \notin taken \cup lost /\ op'[c].number = op[c].number
  BY <1>1, <1>2, <1>5, Answers
<1>61. PICK t \in Sessions : \E n \in Waiting(t) : n.number = op[c].number BY <1>6 DEF AnswersDue, Outstanding
<1>7. PICK n \in Waiting(t) : n.number = op[c].number BY <1>61
<1>8. CASE t # s BY <1>4, <1>6, <1>7, <1>8
<1>9. CASE t = s
  <2>1. n # m BY <1>2, <1>6, <1>7
  <2>2. n \in Elements(Tail(chan[s])) /\ \E i \in 2 .. Len(chan[s]) : chan[s][i] = n
    BY <1>1, <1>7, <1>9, <2>1, ElementsOfTail DEF Waiting
  <2>3. ~ends BY <1>2, <1>6, <1>7, <2>2
  <2>4. chan'[s] = Tail(chan[s]) BY <1>1, <1>3, <2>3
  <2>5. QED BY <1>6, <1>7, <1>9, <2>2, <2>4 DEF Waiting
<1>10. QED BY <1>8, <1>9

\* A step that leaves the channels and sends nothing.
LEMMA DueWithoutChannels ==
  ASSUME AnswersDue, UNCHANGED chan,
         \A c \in Clients : op'[c].step = "sent" => op[c].step = "sent" /\ op'[c].number = op[c].number
  PROVE  AnswersDue'
<1>1. \A s \in Sessions : Waiting(s)' = Waiting(s) BY DEF Waiting
<1>2. QED BY <1>1, DueWhileKept

LEMMA DueHandled ==
  ASSUME IInv, AnswersDue, NEW c \in Clients, Handle(c)
  PROVE  AnswersDue'
<1>0. op \in [Clients -> Ops] /\ Typed BY DEF IInv, Typed
<1>1. ASSUME UNCHANGED chan, NEW x, x # "sent", Step(c, x) PROVE AnswersDue'
  BY <1>0, <1>1, DueWithoutChannels DEF Step, Ops
<1>2. CASE Enter(c) BY <1>1, <1>2 DEF Enter, actors
<1>3. CASE Hold(c) BY <1>1, <1>3 DEF Hold, actors
<1>4. CASE Answer(c) BY <1>0, <1>4, DueWithoutChannels DEF Answer, actors, NoOp
<1>5. CASE Check(c) BY <1>1, <1>5 DEF Check, actors
<1>6. CASE Dispatch(c)
  <2>1. op[c].step = "checked" /\ op[c].on \in Sessions /\ op[c].kind \in ToActor
    BY <1>0, <1>6 DEF Dispatch, Typed, IInv, Kept
  <2>2. PICK s \in Sessions : s = op[c].on BY <2>1
  <2>3. Push(s, c, op[c].kind) /\ op' = [op EXCEPT ![c].step = "sent"] BY <1>6, <2>2 DEF Dispatch, Step, Push
  <2>4. (\A t \in Sessions : Waiting(t) \subseteq Waiting(t)') /\ \E m \in Waiting(s)' : m.number = op[c].number
    BY <2>1, <2>3, DuePushed
  <2>5. op'[c].number = op[c].number /\ \A d \in Clients : d # c => op'[d] = op[d] BY <1>0, <2>3 DEF Ops
  <2>6. \E m \in Waiting(s)' : m.number = op'[c].number BY <2>4, <2>5
  <2>7. ASSUME NEW d \in Clients, op'[d].step = "sent"
        PROVE  \/ op[d].step = "sent" /\ op'[d].number = op[d].number
               \/ \E t \in Sessions : \E m \in Waiting(t)' : m.number = op'[d].number
    BY <2>5, <2>6, <2>7
  <2>8. QED BY <2>4, <2>7, DueWhileKept
<1>7. CASE Close(c)
  <2>1. PICK step \in {"sent", "closed"}, kind \in {"cancel", "cancelIdle"} :
          SendClose(c, op[c].on, kind, step) /\ Step(c, step)
    BY <1>7 DEF Close
  <2>2. op[c].step = "holding" /\ op[c].on \in Sessions BY <1>0, <1>7 DEF Close, Typed
  <2>3. op'[c].step = step /\ op'[c].number = op[c].number /\ \A d \in Clients : d # c => op'[d] = op[d]
    BY <1>0, <2>1 DEF Step, Ops
  <2>4. QED BY <2>1, <2>2, <2>3, DueClosing
<1>8. CASE Archive(c)
  <2>1. CASE turn[op[c].on] BY <1>1, <1>8, <2>1 DEF Archive, actors
  <2>2. CASE ~turn[op[c].on]
    <3>1. PICK step \in {"sent", "closed"} : SendClose(c, op[c].on, "cancel", step) /\ Step(c, step)
      BY <1>8, <2>2 DEF Archive
    <3>2. op[c].step = "holding" /\ op[c].on \in Sessions BY <1>0, <1>8 DEF Archive, Typed
    <3>3. op'[c].step = step /\ op'[c].number = op[c].number /\ \A d \in Clients : d # c => op'[d] = op[d]
      BY <1>0, <3>1 DEF Step, Ops
    <3>4. QED BY <3>1, <3>2, <3>3, DueClosing
  <2>3. QED BY <2>1, <2>2
<1>9. CASE Closed(c) BY <1>1, <1>9 DEF Closed, actors
<1>10. CASE Unarchive(c) BY <1>1, <1>10 DEF Unarchive, actors
<1>11. CASE Terminal(c) BY <1>1, <1>11 DEF Terminal, actors
<1>12. CASE Undo(c)
  <2>1. UNCHANGED chan /\ op'[c].step # "sent" /\ \A d \in Clients : d # c => op'[d] = op[d]
    BY <1>0, <1>12 DEF Undo, actors, Ops
  <2>2. QED BY <2>1, DueWithoutChannels
<1>13. CASE Sweep(c)
  <2>1. CASE op[c].todo = {} BY <1>1, <1>13, <2>1 DEF Sweep, actors
  <2>2. CASE op[c].todo # {}
    <3>1. PICK s \in op[c].todo, step \in {"sent", "closed"} :
            /\ SendClose(c, s, "cancelIdle", step)
            /\ op' = [op EXCEPT ![c].todo = @ \ {s}, ![c].step = IF step = "sent" THEN step ELSE "sweeping"]
      BY <1>13, <2>2 DEF Sweep
    <3>2. op[c].step = "sweeping" /\ s \in Sessions BY <1>0, <1>13, <3>1 DEF Sweep, Ops
    <3>3. PICK x \in {"sent", "sweeping"} : x = (IF step = "sent" THEN step ELSE "sweeping") OBVIOUS
    <3>4. op'[c].step = x /\ op'[c].number = op[c].number /\ \A d \in Clients : d # c => op'[d] = op[d]
      BY <1>0, <3>1, <3>3 DEF Ops
    <3>5. QED BY <3>1, <3>2, <3>3, <3>4, DueClosing
  <2>3. QED BY <2>1, <2>2
<1>14. CASE Restored(c) BY <1>1, <1>14 DEF Restored, actors
<1>15. CASE Prepare(c)
  <2>1. Step(c, "done") \/ Step(c, "refused") BY <1>15 DEF Prepare
  <2>2. UNCHANGED chan BY <1>15 DEF Prepare, actors
  <2>3. QED BY <1>1, <2>1, <2>2
<1>16. QED
  BY <1>2, <1>3, <1>4, <1>5, <1>6, <1>7, <1>8, <1>9, <1>10, <1>11, <1>12, <1>13, <1>14, <1>15 DEF Handle

LEMMA DueKept == IInv /\ AnswersDue /\ [Next]_vars => AnswersDue'
<1> SUFFICES ASSUME IInv, AnswersDue, [Next]_vars PROVE AnswersDue' OBVIOUS
<1>0. op \in [Clients -> Ops] BY DEF IInv, Typed
<1>1. ASSUME NEW c \in Clients, Ask(c) PROVE AnswersDue'
  <2>1. UNCHANGED chan /\ op'[c].step # "sent" /\ \A d \in Clients : d # c => op'[d] = op[d]
    BY <1>0, <1>1 DEF Ask, actors
  <2>2. QED BY <2>1, DueWithoutChannels
<1>2. ASSUME NEW c \in Clients, GiveUp(c) PROVE AnswersDue'
  <2>1. UNCHANGED chan /\ op'[c].step # "sent" /\ \A d \in Clients : d # c => op'[d] = op[d]
    BY <1>0, <1>2 DEF GiveUp, Step, actors, Ops
  <2>2. QED BY <2>1, DueWithoutChannels
<1>3. ASSUME NEW c \in Clients, Handle(c) PROVE AnswersDue' BY <1>3, DueHandled
<1>4. ASSUME NEW s \in Sessions, Receive(s) PROVE AnswersDue' BY <1>4, DueReceiving
<1>5. ASSUME NEW s \in Sessions, TurnEnds(s) \/ TailOfLoop(s) PROVE AnswersDue'
  <2>1. UNCHANGED <<chan, op>> BY <1>5 DEF TurnEnds, TailOfLoop
  <2>2. QED BY <2>1, DueWithoutChannels
<1>6. CASE UNCHANGED vars
  <2>1. UNCHANGED <<chan, op>> BY <1>6 DEF vars
  <2>2. QED BY <2>1, DueWithoutChannels
<1>7. QED BY <1>1, <1>2, <1>3, <1>4, <1>5, <1>6 DEF Next

\* If nobody could go on, whoever is not answered would wait for a lock that
\* another request holds or for an actor; the holder would itself wait for an
\* actor; and that actor has a message to take.
LEMMA NoCircle == ASSUME IInv, AnswersDue PROVE SomeoneGoesOn
<1>1. SUFFICES ASSUME NEW c \in Clients, op[c].step # "idle",
                      \A d \in Clients : ~MayGoOn(d), \A s \in Sessions : ~ActorMayGoOn(s)
               PROVE  FALSE
  BY DEF SomeoneGoesOn
<1>2. \A d \in Clients : op[d].step \in Steps BY DEF IInv, Typed, Ops
<1>3. \A d \in Clients :
        /\ op[d].step \in {"idle", "entered", "sent"}
        /\ op[d].step = "entered" => ~FreeToHold(op[d].kind)
  BY <1>1, <1>2 DEF MayGoOn, Steps
<1>4. \A d \in Clients : op[d].step # "sent"
  <2>1. SUFFICES ASSUME NEW d \in Clients, op[d].step = "sent" PROVE FALSE OBVIOUS
  <2>2. PICK s \in Sessions : Waiting(s) # {} BY <2>1 DEF AnswersDue, Outstanding
  <2>3. chan[s] # <<>> BY <2>2, ElementsOfEmpty DEF Waiting
  <2>4. run[s] BY <2>3 DEF IInv, Actorless
  <2>5. QED BY <1>1, <2>3, <2>4 DEF ActorMayGoOn
<1>5. \A d \in Clients : ~Holds(d)
  <2>1. \A d \in Clients : op[d].step \in {"idle", "entered"} BY <1>3, <1>4
  <2>2. QED BY <2>1 DEF Holds, Entered
<1>6. ~ExclusiveHeld /\ ~SharedHeld BY <1>5 DEF ExclusiveHeld, SharedHeld
<1>7. FreeToHold(op[c].kind) BY <1>6 DEF FreeToHold
<1>8. QED BY <1>1, <1>3, <1>4, <1>7

\* No request waits for ever: for any number of sessions, clients and requests,
\* while one is not answered, some task of the daemon has a next step (the two
\* locks of main.rs, control_for, and the actor's loop).
THEOREM NobodyIsBlocked == Spec => []SomeoneGoesOn
<1>1. Init => IInv /\ AnswersDue
  <2>1. Init => AnswersDue BY DEF Init, AnswersDue, NoOp
  <2>2. QED BY <2>1, InitIInv
<1>2. IInv /\ AnswersDue /\ [Next]_vars => (IInv /\ AnswersDue)' BY NextIInv, DueKept
<1>3. IInv /\ AnswersDue => SomeoneGoesOn BY NoCircle
<1>4. QED BY <1>1, <1>2, <1>3, PTL DEF Spec
=============================================================================
