----------------------------- MODULE RecordsProofs -----------------------------
(***************************************************************************)
(* What is recorded and what is shown of a conversation, for every value of *)
(* the constants: the records of child agents, the snapshot of a child's    *)
(* transcript, the rows of agents, the pages of a conversation and the      *)
(* title of a session.  Much of it is folds over logs and files of any      *)
(* length; what they come to follows by induction over their lengths, from  *)
(* the well-founded order of the natural numbers.                           *)
(***************************************************************************)
EXTENDS MCServices, Integers, Sequences, FiniteSetTheorems, WellFoundedInduction, TLAPS

-----------------------------------------------------------------------------
(* Numbers.  A set of numbers that is not empty has a least one, a bounded one
   a greatest, and one that holds 0 and with n the next holds all of them. *)

LEMMA LeastOf ==
  ASSUME NEW T, T \subseteq Nat, T # {}
  PROVE  \E x \in T : \A y \in T : x <= y
<1>1. \E x \in T : \A y \in T : ~(<<y, x>> \in OpToRel(<, Nat))
  BY NatLessThanWellFounded, WFMin
<1>2. PICK x \in T : \A y \in T : ~(<<y, x>> \in OpToRel(<, Nat)) BY <1>1
<1>3. \A y \in T : x <= y
  <2>1. SUFFICES ASSUME NEW y \in T PROVE x <= y OBVIOUS
  <2>2. ~(<<y, x>> \in OpToRel(<, Nat)) BY <1>2
  <2>3. ~(y < x) BY <2>2 DEF OpToRel
  <2>4. QED BY <2>3
<1>4. QED BY <1>2, <1>3

LEMMA GreatestOf ==
  ASSUME NEW n \in Nat, NEW T, T \subseteq 0 .. n, T # {}
  PROVE  \E x \in T : \A y \in T : y <= x
<1> DEFINE U == {m \in Nat : n - m \in T}
<1>1. PICK t \in T : TRUE OBVIOUS
<1>2. t \in Nat /\ n - t \in Nat /\ n - (n - t) = t BY <1>1
<1>3. U # {} /\ U \subseteq Nat BY <1>1, <1>2
<1>4. PICK m \in U : \A k \in U : m <= k BY <1>3, LeastOf
<1>5. n - m \in T /\ m \in Nat BY <1>4
<1>6. ASSUME NEW y \in T PROVE y <= n - m
  <2>1. y \in Nat /\ y <= n /\ n - y \in Nat /\ n - (n - y) = y OBVIOUS
  <2>2. n - y \in U BY <2>1
  <2>3. m <= n - y BY <1>4, <2>2
  <2>4. QED BY <2>1, <2>3, <1>5
<1>7. QED BY <1>5, <1>6

LEMMA NatSetInduction ==
  ASSUME NEW S, 0 \in S, \A n \in Nat : n \in S => n + 1 \in S
  PROVE  Nat \subseteq S
<1>1. SUFFICES ASSUME Nat \ S # {} PROVE FALSE OBVIOUS
<1>2. PICK x \in Nat \ S : \A y \in Nat \ S : x <= y BY <1>1, LeastOf
<1>3. x # 0 BY <1>2
<1>4. x - 1 \in Nat /\ x - 1 \notin Nat \ S BY <1>2, <1>3
<1>5. QED BY <1>2, <1>4

-----------------------------------------------------------------------------
(* Subagents: the identities of an agent, and the row they share.           *)

\* The library's words are the same in every module.
LEMMA SUSizes == \A S : SU!Cardinality(S) = Cardinality(S) /\ (SU!IsFiniteSet(S) <=> IsFiniteSet(S))
BY DEF SU!Cardinality, Cardinality, SU!IsFiniteSet, IsFiniteSet

\* The identities of two agents differ.
LEMMA IdentitiesDiffer ==
  ASSUME SU!SubagentsAssumption, NEW a \in Children
  PROVE  /\ SU!Tool(a) # SU!Native(a) /\ SU!Tool(a) # SU!NoTool /\ SU!Native(a) # SU!NoTool
         /\ \A b \in Children : SU!Tool(a) = SU!Tool(b) \/ SU!Native(a) = SU!Native(b) => a = b
         /\ \A b \in Children : SU!Tool(a) # SU!Native(b)
BY DEF SU!Tool, SU!Native, SU!NoTool, SU!SubagentsAssumption

\* The identities of an agent match its row and no other.
LEMMA OwnMatches ==
  ASSUME SU!SubagentsAssumption, NEW a \in Children, NEW b \in Children, NEW r, SU!Own(r, b), NEW id, NEW tool,
         id \in {SU!Tool(a), SU!Native(a)}, a \in UntoldChildren => id = SU!Native(a), tool = IF a \in UntoldChildren THEN SU!NoTool ELSE SU!Tool(a)
  PROVE  (SU!Matches(r, id, tool) <=> a = b) /\ (r.id = id => a = b)
<1>1. CASE a = b
  <2>1. CASE a \in UntoldChildren BY <1>1, <2>1 DEF SU!Own, SU!Matches, SU!MatchesAny
  <2>2. CASE a \notin UntoldChildren
    <3>1. tool # SU!NoTool /\ r.tool = tool BY <1>1, <2>2, IdentitiesDiffer DEF SU!Own
    <3>2. QED BY <1>1, <3>1 DEF SU!Matches, SU!MatchesAny
  <2>3. QED BY <2>1, <2>2
<1>2. CASE a # b
  <2>1. {r.id, r.native} \subseteq {SU!Tool(b), SU!Native(b)} /\ r.tool \in {SU!Tool(b), SU!NoTool} BY DEF SU!Own
  <2>2. r.id # id /\ r.native # id BY <1>2, <2>1, IdentitiesDiffer
  <2>3. tool # SU!NoTool => r.tool # tool BY <1>2, <2>1, IdentitiesDiffer
  <2>4. QED BY <1>2, <2>2, <2>3 DEF SU!Matches, SU!MatchesAny
<1>3. QED BY <1>1, <1>2

LEMMA OwnsOne ==
  ASSUME SU!SubagentsAssumption, NEW a \in Children, NEW b \in Children, NEW r, SU!Own(r, a), SU!Own(r, b)
  PROVE  a = b
BY IdentitiesDiffer DEF SU!Own

\* The status of a row after a message, which does not undo an end.
LEMMA StatusIs ==
  ASSUME NEW old \in SU!Terminal \cup {"running", "unknown"}, NEW status \in SU!Reported \cup {"unknown"},
         NEW new, new = IF status = "none" THEN old ELSE SU!StatusAfter(old, status)
  PROVE  /\ new \in SU!Terminal \cup {"running", "unknown"}
         /\ old \in SU!Terminal /\ status \in SU!Reported => new \in SU!Terminal
         /\ status \in SU!Terminal => new \in SU!Terminal
<1>1. SU!StatusAfter(old, status) = IF old = "running" \/ old = "unknown" \/ status # "running" THEN status ELSE old
  BY DEF SU!StatusAfter, SU!StatusKept, SU!Active
<1>2. QED BY <1>1 DEF SU!Terminal, SU!Reported

LEMMA InitRows == ASSUME SU!SubagentsAssumption, SU!Init PROVE SU!RowsKept
BY DEF SU!Init, SU!RowsKept

LEMMA MessageKept ==
  ASSUME SU!SubagentsAssumption, SU!RowsKept, NEW a \in Children, NEW id \in {SU!Tool(a), SU!Native(a)}, NEW status \in SU!Reported,
         SU!Message(a, id, status)
  PROVE  SU!RowsKept'
<1> DEFINE tool == IF a \in UntoldChildren THEN SU!NoTool ELSE SU!Tool(a)
<1> DEFINE found == {r \in x1 : SU!Matches(r, id, tool)}
<1>1. a \in UntoldChildren => id = SU!Native(a) BY DEF SU!Message
<1>2. \A r \in x1, b \in Children : SU!Own(r, b) => (SU!Matches(r, id, tool) <=> a = b) /\ (r.id = id => a = b)
  BY <1>1, OwnMatches
<1>3. PICK task : /\ task = IF SU!Latest(found) = {} THEN SU!Fresh(id, tool) ELSE CHOOSE r \in SU!Latest(found) : TRUE
                  /\ x1' = {r \in x1 : r.id # task.id} \cup {SU!Updated(task, id, tool, status)}
                  /\ x2' = x2 + 1 /\ x3' = x3 \cup {a}
                  /\ x4' = [x4 EXCEPT ![a] = IF status \in SU!Terminal THEN status ELSE @]
  BY DEF SU!Message, SU!Event
<1>4. PICK u : u = SU!Updated(task, id, tool, status) OBVIOUS
<1>5. /\ SU!RowShape(task) /\ (a \in x3 => task \in x1 /\ SU!Own(task, a))
      /\ a \notin x3 => task.id = id /\ task.tool = tool
      /\ \A r \in x1, b \in Children : SU!Own(r, b) => (r.id # task.id <=> a # b)
  <2>1. CASE a \in x3
    <3>1. PICK r \in x1 : SU!Own(r, a) /\ \A o \in x1 : SU!Own(o, a) => o = r BY <2>1 DEF SU!RowsKept
    <3>2. found = {r} BY <1>2, <3>1 DEF SU!RowsKept
    <3>3. r.at \in Nat /\ SU!RowShape(r) BY <3>1 DEF SU!RowsKept, SU!RowShape
    <3>4. SU!Latest(found) = {r} BY <3>2, <3>3 DEF SU!Latest
    <3>5. task = r BY <1>3, <3>4
    <3>6. ASSUME NEW o \in x1, NEW b \in Children, SU!Own(o, b) PROVE o.id # r.id <=> a # b
      <4>1. CASE a = b BY <3>1, <3>6, <4>1
      <4>2. CASE a # b BY <3>1, <3>6, <4>2, IdentitiesDiffer DEF SU!Own
      <4>3. QED BY <4>1, <4>2
    <3>7. QED BY <2>1, <3>1, <3>3, <3>5, <3>6
  <2>2. CASE a \notin x3
    <3>1. found = {} BY <1>2, <2>2 DEF SU!RowsKept
    <3>2. task = SU!Fresh(id, tool) BY <1>3, <3>1 DEF SU!Latest
    <3>3. ASSUME NEW o \in x1, NEW b \in Children, SU!Own(o, b) PROVE o.id # id /\ a # b
      <4>1. PICK c \in x3 : SU!Own(o, c) BY DEF SU!RowsKept
      <4>2. c = b BY <3>3, <4>1, OwnsOne DEF SU!RowsKept
      <4>3. QED BY <1>2, <2>2, <3>3, <4>1, <4>2
    <3>4. SU!RowShape(task) /\ task.id = id /\ task.tool = tool BY <3>2 DEF SU!Fresh, SU!RowShape
    <3>5. QED BY <2>2, <3>3, <3>4
  <2>3. QED BY <2>1, <2>2
<1>6. SU!Own(u, a) /\ SU!RowShape(u) /\ (status \in SU!Terminal \/ task.status \in SU!Terminal => u.status \in SU!Terminal)
  <2>1. /\ u.id = task.id /\ u.native = id /\ u.tool = IF tool = SU!NoTool THEN task.tool ELSE tool
        /\ u.status = IF status = "none" THEN task.status ELSE SU!StatusAfter(task.status, status)
        /\ u.started = (task.started \/ SU!Active(status)) /\ u.at = x2 + 1
        /\ u = [id |-> u.id, native |-> u.native, tool |-> u.tool, status |-> u.status, started |-> u.started, at |-> u.at]
    BY <1>4 DEF SU!Updated
  <2>2. task.status \in SU!Terminal \cup {"running", "unknown"} /\ x2 \in Nat BY <1>5 DEF SU!RowShape, SU!RowsKept
  <2>3. /\ u.status \in SU!Terminal \cup {"running", "unknown"}
        /\ status \in SU!Terminal \/ task.status \in SU!Terminal => u.status \in SU!Terminal
    BY <2>1, <2>2, StatusIs
  <2>4. u.started \in BOOLEAN BY <2>1
  <2>5. SU!RowShape(u) BY <2>1, <2>2, <2>3, <2>4 DEF SU!RowShape
  <2>6. SU!Own(u, a) BY <1>1, <1>5, <2>1 DEF SU!Own
  <2>7. QED BY <2>3, <2>5, <2>6
<1> HIDE DEF tool, found
<1>7. \A r \in x1, b \in Children : SU!Own(r, b) => (r \in x1' <=> a # b) \/ (a = b /\ r = u)
  BY <1>3, <1>4, <1>5
<1>8. \A r : r \in x1' <=> r = u \/ (r \in x1 /\ r.id # task.id) BY <1>3, <1>4
<1>9. ASSUME NEW r \in x1' PROVE SU!RowShape(r) /\ \E b \in x3' : SU!Own(r, b)
  BY <1>3, <1>6, <1>8 DEF SU!RowsKept
<1>10. ASSUME NEW b \in x3' PROVE \E r \in x1' : SU!Own(r, b) /\ \A o \in x1' : SU!Own(o, b) => o = r
  <2>1. CASE b = a
    <3>1. ASSUME NEW o \in x1', SU!Own(o, a) PROVE o = u BY <1>5, <1>8, <3>1
    <3>2. QED BY <1>6, <1>8, <2>1, <3>1
  <2>2. CASE b # a
    <3>1. b \in x3 /\ b \in Children BY <1>3, <2>2 DEF SU!RowsKept
    <3>2. PICK r \in x1 : SU!Own(r, b) /\ \A o \in x1 : SU!Own(o, b) => o = r BY <3>1 DEF SU!RowsKept
    <3>3. r \in x1' BY <1>5, <1>8, <2>2, <3>1, <3>2
    <3>4. ~SU!Own(u, b) BY <1>6, <2>2, <3>1, OwnsOne
    <3>5. QED BY <1>8, <3>2, <3>3, <3>4
  <2>3. QED BY <2>1, <2>2
<1>11. ASSUME NEW b \in Children, x4'[b] # "none"
       PROVE  b \in x3' /\ \A r \in x1' : SU!Own(r, b) => r.status \in SU!Terminal
  <2>1. CASE b = a
    <3>1. status \in SU!Terminal \/ x4[a] # "none" BY <1>3, <1>11, <2>1 DEF SU!RowsKept
    <3>2. x4[a] # "none" => task.status \in SU!Terminal BY <1>5 DEF SU!RowsKept
    <3>3. u.status \in SU!Terminal BY <1>6, <3>1, <3>2
    <3>4. ASSUME NEW o \in x1', SU!Own(o, a) PROVE o = u BY <1>5, <1>8, <3>4
    <3>5. QED BY <1>3, <2>1, <3>3, <3>4
  <2>2. CASE b # a
    <3>1. x4[b] # "none" BY <1>3, <1>11, <2>2 DEF SU!RowsKept
    <3>2. ~SU!Own(u, b) BY <1>6, <2>2, OwnsOne
    <3>3. QED BY <1>3, <1>8, <3>1, <3>2 DEF SU!RowsKept
  <2>3. QED BY <2>1, <2>2
<1>12. x2' \in Nat /\ x3' \subseteq Children /\ x4' \in [Children -> SU!Terminal \cup {"none"}] BY <1>3 DEF SU!RowsKept
<1>13. QED BY <1>9, <1>10, <1>11, <1>12 DEF SU!RowsKept, SU!RowShape, SU!Own

LEMMA EndKept ==
  ASSUME SU!SubagentsAssumption, SU!RowsKept, NEW status \in {"stopped", "unknown"}, SU!EndSubagents(status)
  PROVE  SU!RowsKept'
<1> DEFINE E(r) == IF SU!Active(r.status) THEN [SU!Updated(r, r.native, r.tool, status) EXCEPT !.at = x2] ELSE r
<1>1. x1' = {E(r) : r \in x1} /\ UNCHANGED <<x2, x3, x4>> BY DEF SU!EndSubagents
<1>2. ASSUME NEW r \in x1
      PROVE  /\ SU!RowShape(E(r)) /\ \A a \in Children : SU!Own(E(r), a) <=> SU!Own(r, a)
             /\ r.status \in SU!Terminal => E(r).status \in SU!Terminal
  <2>1. SU!RowShape(r) /\ x2 \in Nat BY DEF SU!RowsKept
  <2>2. CASE ~SU!Active(r.status) BY <2>1, <2>2
  <2>3. CASE SU!Active(r.status)
    <3>1. PICK e : e = E(r) OBVIOUS
    <3>2. /\ e = [id |-> r.id, native |-> r.native, tool |-> r.tool, status |-> e.status, started |-> e.started, at |-> x2]
          /\ e.status = SU!StatusAfter(r.status, status) /\ e.started = (r.started \/ SU!Active(status))
      BY <2>3, <3>1 DEF SU!Updated
    <3>3. e.status \in SU!Terminal \cup {"running", "unknown"} /\ e.started \in BOOLEAN
      <4>1. status \in SU!Reported \cup {"unknown"} /\ status # "none" BY DEF SU!Reported, SU!Terminal
      <4>2. r.status \in SU!Terminal \cup {"running", "unknown"} BY <2>1 DEF SU!RowShape
      <4>3. QED BY <3>2, <4>1, <4>2, StatusIs
    <3>4. /\ e.id = r.id /\ e.native = r.native /\ e.tool = r.tool /\ e.at = x2
          /\ e = [id |-> e.id, native |-> e.native, tool |-> e.tool, status |-> e.status, started |-> e.started, at |-> e.at]
      BY <3>2
    <3>5. SU!RowShape(e) /\ \A a \in Children : SU!Own(e, a) <=> SU!Own(r, a) BY <2>1, <3>3, <3>4 DEF SU!RowShape, SU!Own
    <3>6. r.status \notin SU!Terminal BY <2>3 DEF SU!Active, SU!Terminal
    <3>7. QED BY <3>1, <3>5, <3>6
  <2>4. QED BY <2>2, <2>3
<1> HIDE DEF E
<1>3. ASSUME NEW e \in x1' PROVE SU!RowShape(e) /\ \E a \in x3' : SU!Own(e, a) BY <1>1, <1>2 DEF SU!RowsKept
<1>4. ASSUME NEW a \in x3' PROVE \E e \in x1' : SU!Own(e, a) /\ \A o \in x1' : SU!Own(o, a) => o = e
  <2>1. a \in x3 /\ a \in Children BY <1>1 DEF SU!RowsKept
  <2>2. PICK r \in x1 : SU!Own(r, a) /\ \A o \in x1 : SU!Own(o, a) => o = r BY <2>1 DEF SU!RowsKept
  <2>3. QED BY <1>1, <1>2, <2>1, <2>2
<1>5. ASSUME NEW a \in Children, x4'[a] # "none" PROVE a \in x3' /\ \A e \in x1' : SU!Own(e, a) => e.status \in SU!Terminal
  BY <1>1, <1>2, <1>5 DEF SU!RowsKept
<1>6. x2' \in Nat /\ x3' \subseteq Children /\ x4' \in [Children -> SU!Terminal \cup {"none"}] BY <1>1 DEF SU!RowsKept
<1>7. QED BY <1>3, <1>4, <1>5, <1>6 DEF SU!RowsKept, SU!RowShape, SU!Own

LEMMA NextRows == ASSUME SU!SubagentsAssumption, SU!RowsKept, [SU!Next]_(SU!vars) PROVE SU!RowsKept'
<1>1. CASE UNCHANGED SU!vars BY <1>1 DEF SU!vars, SU!RowsKept
<1>2. CASE SU!Next BY <1>2, MessageKept, EndKept DEF SU!Next
<1>3. QED BY <1>1, <1>2

\* One row, or none, is the row of an agent.
LEMMA RowsOnce == ASSUME SU!SubagentsAssumption, SU!RowsKept PROVE SU!OneRowEach
<1>1. ASSUME NEW a \in Children, NEW r \in x1
      PROVE  SU!Own(r, a) <=> r.id \in {SU!Tool(a), SU!Native(a)} \/ r.native \in {SU!Tool(a), SU!Native(a)} \/ r.tool = SU!Tool(a)
  <2>1. PICK b \in x3 : SU!Own(r, b) BY DEF SU!RowsKept
  <2>2. b \in Children BY DEF SU!RowsKept
  <2>3. CASE a = b BY <2>1, <2>3 DEF SU!Own
  <2>4. CASE a # b
    <3>1. ~SU!Own(r, a) BY <2>1, <2>2, <2>4, OwnsOne
    <3>2. {r.id, r.native} \subseteq {SU!Tool(b), SU!Native(b)} /\ r.tool \in {SU!Tool(b), SU!NoTool} BY <2>1 DEF SU!Own
    <3>3. QED BY <2>2, <2>4, <3>1, <3>2, IdentitiesDiffer
  <2>5. QED BY <2>3, <2>4
<1>2. ASSUME NEW a \in Children PROVE SU!Of(a) = {r \in x1 : SU!Own(r, a)} BY <1>1 DEF SU!Of
<1>3. ASSUME NEW a \in Children PROVE Cardinality(SU!Of(a)) = (IF a \in x3 THEN 1 ELSE 0)
  <2>1. CASE a \in x3
    <3>1. PICK r \in x1 : SU!Own(r, a) /\ \A o \in x1 : SU!Own(o, a) => o = r BY <2>1 DEF SU!RowsKept
    <3>2. SU!Of(a) = {r} BY <1>2, <3>1
    <3>3. QED BY <2>1, <3>2, FS_Singleton
  <2>2. CASE a \notin x3
    <3>1. \A r \in x1 : ~SU!Own(r, a)
      <4>1. SUFFICES ASSUME NEW r \in x1, SU!Own(r, a) PROVE FALSE OBVIOUS
      <4>2. PICK b \in x3 : SU!Own(r, b) BY DEF SU!RowsKept
      <4>3. QED BY <2>2, <4>1, <4>2, OwnsOne DEF SU!RowsKept
    <3>2. SU!Of(a) = {} BY <1>2, <3>1
    <3>3. QED BY <2>2, <3>2, FS_EmptySet
  <2>3. QED BY <2>1, <2>2
<1>4. ASSUME NEW a \in Children, NEW r \in SU!Of(a)
      PROVE  (a \notin UntoldChildren => r.tool = SU!Tool(a)) /\ (x4[a] # "none" => ~SU!Active(r.status))
  <2>1. r \in x1 /\ SU!Own(r, a) BY <1>2
  <2>2. x4[a] # "none" => r.status \in SU!Terminal BY <2>1 DEF SU!RowsKept
  <2>3. QED BY <2>1, <2>2 DEF SU!Own, SU!Active, SU!Terminal
<1>5. QED BY SUSizes, <1>3, <1>4 DEF SU!OneRowEach

-----------------------------------------------------------------------------
(* ChildHistory: what two readers make of the records of a child.            *)

\* The library's words are the same in every module.
LEMMA CHSizes == \A S : CH!Cardinality(S) = Cardinality(S) /\ (CH!IsFiniteSet(S) <=> IsFiniteSet(S))
BY DEF CH!Cardinality, Cardinality, CH!IsFiniteSet, IsFiniteSet

\* The history of the first n records, event by event.
LEMMA ReferenceIs ==
  ASSUME NEW n \in Nat, NEW e
  PROVE  /\ e \in CH!Reference(n) <=>
              \E i \in 1 .. n : \/ e = CH!Event(2 * i, x1[i])
                                \/ x1[i] = "done" /\ CH!Reported(i) /\ e = CH!Event(2 * i + 1, "report")
         /\ e \in CH!Reference(n) => e.seq \in Nat /\ 2 <= e.seq /\ e.seq <= 2 * n + 1
<1>1. e \in CH!Reference(n) <=>
              \E i \in 1 .. n : \/ e = CH!Event(2 * i, x1[i])
                                \/ x1[i] = "done" /\ CH!Reported(i) /\ e = CH!Event(2 * i + 1, "report")
  BY DEF CH!Reference
<1>2. ASSUME e \in CH!Reference(n) PROVE e.seq \in Nat /\ 2 <= e.seq /\ e.seq <= 2 * n + 1
  <2>1. PICK i \in 1 .. n : e.seq = 2 * i \/ e.seq = 2 * i + 1 BY <1>1, <1>2 DEF CH!Event
  <2>2. QED BY <2>1
<1>3. QED BY <1>1, <1>2

\* What came before record m is the part of the history up to its number.
LEMMA ReferenceSplit ==
  ASSUME NEW n \in Nat, NEW m \in 0 .. n
  PROVE  CH!Reference(m) = {e \in CH!Reference(n) : e.seq <= 2 * m + 1}
<1>0. m \in Nat OBVIOUS
<1>1. ASSUME NEW e \in CH!Reference(m) PROVE e \in CH!Reference(n) /\ e.seq <= 2 * m + 1
  <2>1. PICK i \in 1 .. m : \/ e = CH!Event(2 * i, x1[i])
                            \/ x1[i] = "done" /\ CH!Reported(i) /\ e = CH!Event(2 * i + 1, "report")
    BY <1>0, ReferenceIs
  <2>2. i \in 1 .. n OBVIOUS
  <2>3. QED BY <1>0, <2>1, <2>2, ReferenceIs
<1>2. ASSUME NEW e \in CH!Reference(n), e.seq <= 2 * m + 1 PROVE e \in CH!Reference(m)
  <2>1. PICK i \in 1 .. n : \/ e = CH!Event(2 * i, x1[i])
                            \/ x1[i] = "done" /\ CH!Reported(i) /\ e = CH!Event(2 * i + 1, "report")
    BY ReferenceIs
  <2>2. e.seq = 2 * i \/ e.seq = 2 * i + 1 BY <2>1 DEF CH!Event
  <2>3. i \in 1 .. m BY <1>0, <1>2, <2>2
  <2>4. QED BY <1>0, <2>1, <2>3, ReferenceIs
<1>3. QED BY <1>1, <1>2

\* Records that are added leave the history before them alone.
LEMMA ReferenceStays ==
  ASSUME x1 \in Seq(CH!Kinds), NEW kind \in CH!Kinds, x1' = Append(x1, kind), NEW n \in 0 .. Len(x1)
  PROVE  CH!Reference(n)' = CH!Reference(n) /\ (CH!Reported(n + 1)' <=> CH!Reported(n + 1))
<1>1. Len(x1) \in Nat /\ n \in Nat /\ \A i \in 1 .. Len(x1) : x1'[i] = x1[i] OBVIOUS
<1>2. \A k \in 1 .. (n + 1) : CH!Reported(k)' <=> CH!Reported(k)
  <2>1. SUFFICES ASSUME NEW k \in 1 .. (n + 1) PROVE CH!Reported(k)' <=> CH!Reported(k) OBVIOUS
  <2>2. \A j \in 1 .. (k - 1) : x1'[j] = x1[j] BY <1>1
  <2>3. \A j \in 1 .. (k - 1) : \A i \in (j + 1) .. (k - 1) : x1'[i] = x1[i] BY <2>2
  <2>4. QED BY <2>2, <2>3 DEF CH!Reported
<1>3. \A e : e \in CH!Reference(n)' <=> e \in CH!Reference(n)
  <2>1. \A e : e \in CH!Reference(n)' <=>
              \E i \in 1 .. n : \/ e = CH!Event(2 * i, x1'[i])
                                \/ x1'[i] = "done" /\ CH!Reported(i)' /\ e = CH!Event(2 * i + 1, "report")
    BY DEF CH!Reference, CH!Event
  <2>2. \A i \in 1 .. n : x1'[i] = x1[i] /\ (CH!Reported(i)' <=> CH!Reported(i)) BY <1>1, <1>2
  <2>3. QED BY <1>1, <2>1, <2>2, ReferenceIs
<1>4. CH!Reference(n)' = CH!Reference(n) BY <1>3
<1>5. QED BY <1>1, <1>2, <1>4

\* A handback that waits after record n is one the cursor carries or a later one.
LEMMA PendingIs ==
  ASSUME NEW c, CH!CursorTrue(c), Len(x1) \in Nat, NEW n \in c.offset .. Len(x1)
  PROVE  CH!PendingAfter(c, n) <=> CH!Reported(n + 1)
<1>1. c.offset \in Nat /\ n \in Nat /\ c.offset <= n BY DEF CH!CursorTrue
<1>2. ASSUME CH!PendingAfter(c, n) PROVE CH!Reported(n + 1)
  <2>1. PICK j \in c.offset .. n :
          /\ IF j = c.offset THEN c.pending ELSE x1[j] = "hand"
          /\ \A k \in (j + 1) .. n : x1[k] \notin {"done", "failed"}
    BY <1>2 DEF CH!PendingAfter, CH!Carried, CH!CarriedOver
  <2>2. CASE j = c.offset
    <3>1. CH!Reported(c.offset + 1) BY <2>1, <2>2 DEF CH!CursorTrue
    <3>2. PICK i \in 1 .. c.offset : x1[i] = "hand" /\ \A k \in (i + 1) .. c.offset : x1[k] \notin {"done", "failed"}
      BY <1>1, <3>1 DEF CH!Reported
    <3>3. \A k \in (i + 1) .. n : k \in (i + 1) .. c.offset \/ k \in (j + 1) .. n BY <1>1, <2>2
    <3>4. i \in 1 .. n /\ \A k \in (i + 1) .. n : x1[k] \notin {"done", "failed"} BY <1>1, <2>1, <3>2, <3>3
    <3>5. QED BY <1>1, <3>2, <3>4 DEF CH!Reported
  <2>3. CASE j # c.offset
    <3>1. j \in 1 .. n /\ x1[j] = "hand" BY <1>1, <2>1, <2>3
    <3>2. QED BY <1>1, <2>1, <3>1 DEF CH!Reported
  <2>4. QED BY <2>2, <2>3
<1>3. ASSUME CH!Reported(n + 1) PROVE CH!PendingAfter(c, n)
  <2>1. PICK j \in 1 .. n : x1[j] = "hand" /\ \A k \in (j + 1) .. n : x1[k] \notin {"done", "failed"}
    BY <1>1, <1>3 DEF CH!Reported
  <2>2. CASE j <= c.offset
    <3>1. j \in 1 .. c.offset /\ \A k \in (j + 1) .. c.offset : x1[k] \notin {"done", "failed"} BY <1>1, <2>1, <2>2
    <3>2. CH!Reported(c.offset + 1) BY <1>1, <2>1, <3>1 DEF CH!Reported
    <3>3. c.pending BY <3>2 DEF CH!CursorTrue
    <3>4. \A k \in (c.offset + 1) .. n : x1[k] \notin {"done", "failed"} BY <1>1, <2>1, <2>2
    <3>5. c.offset \in c.offset .. n BY <1>1
    <3>6. QED BY <3>3, <3>4, <3>5 DEF CH!PendingAfter, CH!Carried, CH!CarriedOver
  <2>3. CASE c.offset < j
    <3>1. j \in c.offset .. n /\ j # c.offset BY <1>1, <2>3
    <3>2. QED BY <2>1, <3>1 DEF CH!PendingAfter
  <2>4. QED BY <1>1, <2>2, <2>3
<1>4. QED BY <1>2, <1>3

\* A page is the part of the history after its cursor.
LEMMA PageIs ==
  ASSUME NEW c, CH!CursorTrue(c), Len(x1) \in Nat, NEW to \in c.offset .. Len(x1)
  PROVE  CH!PageOf(c, to) = {e \in CH!Reference(to) : e.seq > 2 * c.offset + 1}
<1>1. c.offset \in Nat /\ to \in Nat /\ c.offset <= to BY DEF CH!CursorTrue
<1> DEFINE Of(e, i) == \/ e = CH!Event(2 * i, x1[i])
                       \/ x1[i] = "done" /\ CH!Reported(i) /\ e = CH!Event(2 * i + 1, "report")
<1>2. \A i \in (c.offset + 1) .. to : CH!PendingAfter(c, i - 1) <=> CH!Reported(i)
  <2>1. SUFFICES ASSUME NEW i \in (c.offset + 1) .. to PROVE CH!PendingAfter(c, i - 1) <=> CH!Reported(i) OBVIOUS
  <2>2. i - 1 \in c.offset .. Len(x1) /\ (i - 1) + 1 = i BY <1>1
  <2>3. QED BY <2>2, PendingIs
<1>3. \A e : e \in CH!PageOf(c, to) <=> \E i \in (c.offset + 1) .. to : Of(e, i)
  BY <1>2 DEF CH!PageOf
<1>4. \A e : e \in CH!Reference(to) <=> \E i \in 1 .. to : Of(e, i) BY <1>1, ReferenceIs
<1>5. \A e, i : Of(e, i) => e.seq \in {2 * i, 2 * i + 1} BY DEF CH!Event
<1> HIDE DEF Of
<1>6. ASSUME NEW e \in CH!PageOf(c, to) PROVE e \in CH!Reference(to) /\ e.seq > 2 * c.offset + 1
  <2>1. PICK i \in (c.offset + 1) .. to : Of(e, i) BY <1>3
  <2>2. i \in 1 .. to /\ e.seq \in {2 * i, 2 * i + 1} BY <1>1, <1>5, <2>1
  <2>3. QED BY <1>1, <1>4, <2>1, <2>2
<1>7. ASSUME NEW e \in CH!Reference(to), e.seq > 2 * c.offset + 1 PROVE e \in CH!PageOf(c, to)
  <2>1. PICK i \in 1 .. to : Of(e, i) BY <1>4
  <2>2. e.seq \in {2 * i, 2 * i + 1} BY <1>5, <2>1
  <2>3. i \in (c.offset + 1) .. to BY <1>1, <1>7, <2>2
  <2>4. QED BY <1>3, <2>1, <2>3
<1>8. QED BY <1>6, <1>7

LEMMA InitHistory == ASSUME CH!HistoryAssumption, CH!Init PROVE CH!HistoryKept
<1>1. x6.offset = 0 /\ x6.pending = FALSE /\ x6.known = FALSE BY DEF CH!Init, CH!NoCursor
<1>2. x1 = <<>> /\ Len(x1) = 0 /\ x1 \in Seq(CH!Kinds) BY DEF CH!Init
<1>3. CH!Reference(0) = {} BY DEF CH!Reference
<1>4. ~CH!Reported(0 + 1) BY DEF CH!Reported
<1>5. CH!CursorTrue(x6) BY <1>1, <1>2, <1>4 DEF CH!CursorTrue
<1>6. CH!HistoryExact BY <1>1, <1>3 DEF CH!Init, CH!HistoryExact, CH!RowsOf
<1>7. CH!StreamNumbered BY CHSizes, FS_EmptySet DEF CH!Init, CH!StreamNumbered
<1>8. CH!ViewBehind BY DEF CH!Init, CH!ViewBehind
<1>9. \A r \in CH!Readers : CH!JobTrue(x8[r])
  <2>1. \A r \in CH!Readers : x8[r].step = "none" BY DEF CH!Init, CH!NoJob
  <2>2. QED BY <2>1 DEF CH!JobTrue
<1>10. QED BY <1>1, <1>2, <1>5, <1>6, <1>7, <1>8, <1>9 DEF CH!HistoryKept, CH!Init

\* Steps that leave the files, the store and the view alone.
LEMMA HistoryRest ==
  ASSUME CH!HistoryKept, UNCHANGED <<x1, CH!store, CH!view>>, x3' \in BOOLEAN, x4' \in BOOLEAN, x3' \/ x4',
         x8' = [r \in CH!Readers |-> x8'[r]], \A r \in CH!Readers : CH!JobTrue(x8'[r])
  PROVE  CH!HistoryKept'
<1>1. UNCHANGED <<x1, x5, x6, x7, x10, x11, x12>> BY DEF CH!store, CH!view
<1>2. CH!CursorTrue(x6)' BY <1>1 DEF CH!HistoryKept, CH!CursorTrue, CH!Reported
<1>3. \A r \in CH!Readers : CH!JobTrue(x8[r])'
  <2>1. SUFFICES ASSUME NEW r \in CH!Readers PROVE CH!JobTrue(x8[r])' OBVIOUS
  <2>2. PICK j : j = x8'[r] OBVIOUS
  <2>3. CH!JobTrue(j) BY <2>2
  <2>4. \A n : CH!Reference(n)' = CH!Reference(n) /\ (CH!Reported(n)' <=> CH!Reported(n)) BY <1>1 DEF CH!Reference, CH!Reported
  <2>5. \A c : CH!CursorTrue(c)' <=> CH!CursorTrue(c) BY <1>1, <2>4 DEF CH!CursorTrue
  <2>6. CH!JobTrue(j)' BY <1>1, <2>3, <2>4, <2>5 DEF CH!JobTrue
  <2>7. QED BY <2>2, <2>6 DEF CH!JobTrue, CH!CursorTrue
<1>4. CH!StreamNumbered' /\ CH!ViewBehind' BY <1>1 DEF CH!HistoryKept, CH!StreamNumbered, CH!ViewBehind
<1>5. CH!HistoryExact' BY <1>1 DEF CH!HistoryKept, CH!HistoryExact, CH!Reference, CH!Reported, CH!RowsOf
<1>6. QED BY <1>1, <1>2, <1>3, <1>4, <1>5 DEF CH!HistoryKept

LEMMA JobsChanged ==
  ASSUME CH!HistoryKept, NEW r \in CH!Readers, NEW j, CH!JobTrue(j), x8' = [x8 EXCEPT ![r] = j]
  PROVE  x8' = [o \in CH!Readers |-> x8'[o]] /\ \A o \in CH!Readers : CH!JobTrue(x8'[o])
BY DEF CH!HistoryKept

LEMMA QuietKept ==
  ASSUME CH!HistoryKept, CH!BeginWrite \/ CH!ChildEnds \/ CH!Dies \/ \E r \in CH!Readers : CH!Load(r) \/ CH!Drop(r)
  PROVE  CH!HistoryKept'
<1>1. CASE CH!BeginWrite \/ CH!ChildEnds \/ CH!Dies
  <2>1. UNCHANGED <<x1, CH!store, CH!view, x8>> /\ x3' \in BOOLEAN /\ x4' \in BOOLEAN /\ (x3' \/ x4')
    BY <1>1 DEF CH!BeginWrite, CH!ChildEnds, CH!Dies, CH!HistoryKept
  <2>2. QED BY <2>1, HistoryRest DEF CH!HistoryKept
<1>2. ASSUME NEW r \in CH!Readers, CH!Load(r) PROVE CH!HistoryKept'
  <2>1. UNCHANGED <<x1, x3, x4, CH!store, CH!view>> BY <1>2 DEF CH!Load, CH!native
  <2>2. PICK j : j = [step |-> "loaded", from |-> x6] OBVIOUS
  <2>3. x8' = [x8 EXCEPT ![r] = j] /\ j.step = "loaded" /\ j.from = x6 BY <1>2, <2>2 DEF CH!Load
  <2>4. CH!JobTrue(j) BY <2>3 DEF CH!JobTrue, CH!HistoryKept, CH!CursorTrue
  <2>5. QED BY <2>1, <2>3, <2>4, JobsChanged, HistoryRest DEF CH!HistoryKept
<1>3. ASSUME NEW r \in CH!Readers, CH!Drop(r) PROVE CH!HistoryKept'
  <2>1. UNCHANGED <<x1, x3, x4, CH!store, CH!view>> BY <1>3 DEF CH!Drop, CH!native
  <2>2. CH!JobTrue(CH!NoJob) BY DEF CH!JobTrue, CH!NoJob
  <2>3. x8' = [x8 EXCEPT ![r] = CH!NoJob] BY <1>3 DEF CH!Drop
  <2>4. QED BY <2>1, <2>2, <2>3, JobsChanged, HistoryRest DEF CH!HistoryKept
<1>4. QED BY <1>1, <1>2, <1>3

LEMMA ReadsKept == ASSUME CH!HistoryKept, NEW r \in CH!Readers, CH!Read(r) PROVE CH!HistoryKept'
<1>1. UNCHANGED <<x1, x3, x4, CH!store, CH!view>> BY DEF CH!Read, CH!native
<1>2. PICK from : from = x8[r].from OBVIOUS
<1>3. CH!CursorTrue(from) /\ from.offset <= x6.offset BY <1>2 DEF CH!HistoryKept, CH!JobTrue, CH!Read
<1>4. Len(x1) \in Nat /\ from.offset \in Nat BY <1>3 DEF CH!HistoryKept, CH!CursorTrue
<1>5. PICK to \in from.offset .. Len(x1) : \E more1, tail1 :
        x8' = [x8 EXCEPT ![r] = [step |-> "read", page |-> CH!PageOf(from, to),
                                   to |-> [known |-> TRUE, offset |-> to, pending |-> CH!PendingAfter(from, to),
                                           more |-> more1, tail |-> tail1]]]
  <2>1. PICK to \in from.offset .. Len(x1) :
          x8' = [x8 EXCEPT ![r] = [step |-> "read", page |-> CH!PageOf(from, to),
                                     to |-> [known |-> TRUE, offset |-> to, pending |-> CH!PendingAfter(from, to),
                                             more |-> ~(to = Len(x1) /\ x2) /\ (to < Len(x1) \/ x2),
                                             tail |-> to = Len(x1) /\ x2]]]
    BY <1>2, Zenon DEF CH!Read
  <2>2. QED BY <2>1, Zenon
<1>6. PICK more1, tail1 :
        x8' = [x8 EXCEPT ![r] = [step |-> "read", page |-> CH!PageOf(from, to),
                                   to |-> [known |-> TRUE, offset |-> to, pending |-> CH!PendingAfter(from, to),
                                           more |-> more1, tail |-> tail1]]]
  BY <1>5, Zenon
<1>7. PICK c : c = [known |-> TRUE, offset |-> to, pending |-> CH!PendingAfter(from, to), more |-> more1, tail |-> tail1]
  OBVIOUS
<1>8. c.offset = to /\ (c.pending <=> CH!PendingAfter(from, to)) /\ c.known BY <1>7
<1>9. PICK j : j = [step |-> "read", page |-> CH!PageOf(from, to), to |-> c] OBVIOUS
<1>10. j.step = "read" /\ j.page = CH!PageOf(from, to) /\ j.to = c /\ x8' = [x8 EXCEPT ![r] = j] BY <1>6, <1>7, <1>9
<1>11. CH!CursorTrue(c) BY <1>3, <1>4, <1>8, PendingIs DEF CH!CursorTrue
<1>12. j.page = {e \in CH!Reference(j.to.offset) : e.seq > 2 * from.offset + 1} BY <1>3, <1>4, <1>8, <1>10, PageIs
<1>13. from.offset \in 0 .. j.to.offset BY <1>4, <1>8, <1>10
<1>14. CH!JobTrue(j) BY <1>3, <1>8, <1>10, <1>11, <1>12, <1>13 DEF CH!JobTrue
<1>15. QED BY <1>1, <1>10, <1>14, JobsChanged, HistoryRest DEF CH!HistoryKept

\* A message of the child has numbers nothing in the stream has.
LEMMA StreamedIs ==
  ASSUME CH!StreamNumbered, NEW kind
  PROVE  /\ IsFiniteSet(CH!Streamed(kind)) /\ Cardinality(x7) \in Nat /\ x7 \subseteq CH!Streamed(kind)
         /\ Cardinality(x7) <= Cardinality(CH!Streamed(kind))
         /\ \A e \in CH!Streamed(kind) : e.seq \in 1 .. Cardinality(CH!Streamed(kind))
         /\ \A e \in CH!Streamed(kind) \ x7 : e.seq > Cardinality(x7)
<1>0. PICK n : n = Cardinality(x7) OBVIOUS
<1>1. n \in Nat BY CHSizes, <1>0, FS_CardinalityType DEF CH!StreamNumbered
<1>2. PICK a : a = CH!Event(n + 1, kind) OBVIOUS
<1>3. PICK b : b = CH!Event(n + 1 + 1, "report") OBVIOUS
<1>4. a.seq = n + 1 /\ b.seq = n + 2 /\ a # b BY <1>1, <1>2, <1>3 DEF CH!Event
<1>5. a \notin x7 /\ b \notin x7 BY CHSizes, <1>0, <1>1, <1>4 DEF CH!StreamNumbered
<1>6. PICK s : s = x7 \cup {a} OBVIOUS
<1>7. IsFiniteSet(s) /\ Cardinality(s) = n + 1 BY CHSizes, <1>0, <1>5, <1>6, FS_AddElement DEF CH!StreamNumbered
<1>8. PICK t : t = s \cup {b} OBVIOUS
<1>9. b \notin s BY <1>4, <1>5, <1>6
<1>10. IsFiniteSet(t) /\ Cardinality(t) = n + 2
  <2>1. IsFiniteSet(t) /\ Cardinality(t) = Cardinality(s) + 1 BY <1>7, <1>8, <1>9, FS_AddElement
  <2>2. QED BY <1>1, <1>7, <2>1
<1>11. CH!Streamed(kind) = s \/ CH!Streamed(kind) = t BY CHSizes, <1>0, <1>2, <1>3, <1>6, <1>8 DEF CH!Streamed
<1>12. \A e \in x7 : e.seq \in 1 .. n BY CHSizes, <1>0 DEF CH!StreamNumbered
<1>13. CASE CH!Streamed(kind) = s BY CHSizes, <1>0, <1>1, <1>4, <1>6, <1>7, <1>12, <1>13
<1>14. CASE CH!Streamed(kind) = t
  <2>1. \A e \in t : e \in x7 \/ e = a \/ e = b BY <1>6, <1>8
  <2>2. \A e \in t : e.seq \in 1 .. (n + 2) BY <1>1, <1>4, <1>12, <2>1
  <2>3. \A e \in t \ x7 : e.seq > n BY <1>1, <1>4, <2>1
  <2>4. x7 \subseteq t /\ n <= n + 2 BY <1>1, <1>6, <1>8
  <2>5. QED BY <1>0, <1>1, <1>10, <1>14, <2>2, <2>3, <2>4
<1>15. QED BY <1>11, <1>13, <1>14

LEMMA WriteKept ==
  ASSUME CH!HistoryKept, NEW kind \in CH!Kinds, NEW streams \in BOOLEAN, CH!Write(kind, streams)
  PROVE  CH!HistoryKept'
<1>1. /\ x1' = Append(x1, kind) /\ UNCHANGED <<x3, x4, x5, x6, x8, x10, x11, x12>>
      /\ x7' = x7 \/ x7' = CH!Streamed(kind)
  BY DEF CH!Write, CH!view
<1>2. x1 \in Seq(CH!Kinds) /\ x1' \in Seq(CH!Kinds) /\ Len(x1') = Len(x1) + 1 /\ Len(x1) \in Nat
  BY <1>1 DEF CH!HistoryKept
<1>3. \A n \in 0 .. Len(x1) : CH!Reference(n)' = CH!Reference(n) /\ (CH!Reported(n + 1)' <=> CH!Reported(n + 1))
  BY <1>1, <1>2, ReferenceStays
<1>4. ASSUME NEW c, CH!CursorTrue(c) PROVE /\ c.offset \in 0 .. Len(x1') /\ (c.pending <=> CH!Reported(c.offset + 1)')
                                           /\ CH!Reference(c.offset)' = CH!Reference(c.offset)
  BY <1>2, <1>3, <1>4 DEF CH!CursorTrue
<1>5. CH!CursorTrue(x6) BY DEF CH!HistoryKept
<1>6. CH!CursorTrue(x6)' BY <1>1, <1>4, <1>5 DEF CH!CursorTrue
<1>7. \A r \in CH!Readers : CH!JobTrue(x8[r])'
  <2>1. SUFFICES ASSUME NEW r \in CH!Readers PROVE CH!JobTrue(x8[r])' OBVIOUS
  <2>2. PICK j : j = x8[r] OBVIOUS
  <2>3. CH!JobTrue(j) /\ x8[r]' = j BY <1>1, <2>2 DEF CH!HistoryKept
  <2>4. CASE j.step \in {"none", "answer"} BY <2>3, <2>4 DEF CH!JobTrue
  <2>5. CASE j.step = "loaded" /\ CH!CursorTrue(j.from) /\ j.from.offset <= x6.offset
    BY <1>1, <1>4, <2>3, <2>5 DEF CH!JobTrue, CH!CursorTrue
  <2>6. CASE /\ j.step = "read" /\ CH!CursorTrue(j.to) /\ j.to.known
             /\ \E from \in 0 .. j.to.offset :
                  from <= x6.offset /\ j.page = {e \in CH!Reference(j.to.offset) : e.seq > 2 * from + 1}
    <3>1. PICK n : n = j.to.offset OBVIOUS
    <3>2. CH!Reference(n)' = CH!Reference(n) /\ n \in 0 .. Len(x1') /\ (j.to.pending <=> CH!Reported(n + 1)')
      BY <1>4, <2>6, <3>1
    <3>3. PICK from \in 0 .. n : from <= x6.offset /\ j.page = {e \in CH!Reference(n) : e.seq > 2 * from + 1}
      BY <2>6, <3>1
    <3>4. j.page = {e \in CH!Reference(n)' : e.seq > 2 * from + 1} BY <3>2, <3>3
    <3>5. QED BY <1>1, <2>3, <2>6, <3>1, <3>2, <3>3, <3>4 DEF CH!JobTrue, CH!CursorTrue
  <2>7. QED BY <2>3, <2>4, <2>5, <2>6 DEF CH!JobTrue
<1>8. /\ IsFiniteSet(x7') /\ (\A e \in x7' : e.seq \in 1 .. Cardinality(x7'))
      /\ Cardinality(x7) \in Nat /\ Cardinality(x7) <= Cardinality(x7') /\ x7 \subseteq x7'
      /\ \A e \in x7' \ x7 : e.seq > Cardinality(x7)
  <2>1. CH!StreamNumbered BY DEF CH!HistoryKept
  <2>2. Cardinality(x7) \in Nat BY CHSizes, <2>1, FS_CardinalityType DEF CH!StreamNumbered
  <2>3. CASE x7' = x7 BY CHSizes, <2>1, <2>2, <2>3 DEF CH!StreamNumbered
  <2>4. CASE x7' = CH!Streamed(kind) BY <2>1, <2>4, StreamedIs
  <2>5. QED BY <1>1, <2>3, <2>4
<1>9. CH!StreamNumbered' BY CHSizes, <1>8 DEF CH!StreamNumbered
<1>10. Cardinality(x7') \in Nat BY <1>8, FS_CardinalityType
<1>11. CH!ViewBehind' BY CHSizes, <1>1, <1>8, <1>10 DEF CH!HistoryKept, CH!ViewBehind
<1>12. CH!HistoryExact'
  <2>1. x5' = CH!Reference(x6.offset)' BY <1>1, <1>4, <1>5 DEF CH!HistoryKept, CH!HistoryExact
  <2>2. x10 = {e \in CH!RowsOf(x12) : e.seq <= x11} /\ x11 \in Nat BY DEF CH!HistoryKept, CH!HistoryExact, CH!ViewBehind
  <2>3. CASE x12 = "stream"
    <3>1. CH!RowsOf(x12) = x7 /\ CH!RowsOf(x12)' = x7' BY <1>1, <2>3 DEF CH!RowsOf
    <3>2. x11 <= Cardinality(x7) BY CHSizes, <2>3 DEF CH!HistoryKept, CH!ViewBehind
    <3>3. \A e \in x7' \ x7 : e.seq \in Nat /\ ~(e.seq <= x11)
      BY <1>8, <1>10, <2>2, <3>2
    <3>4. {e \in x7' : e.seq <= x11} = {e \in x7 : e.seq <= x11} BY <1>8, <3>3
    <3>5. QED BY <1>1, <2>1, <2>2, <3>1, <3>4 DEF CH!HistoryExact
  <2>4. CASE x12 # "stream"
    <3>1. CH!RowsOf(x12)' = CH!RowsOf(x12) BY <1>1, <2>4 DEF CH!RowsOf
    <3>2. QED BY <1>1, <2>1, <2>2, <3>1 DEF CH!HistoryExact
  <2>5. QED BY <2>3, <2>4
<1>13. QED BY <1>1, <1>2, <1>6, <1>7, <1>9, <1>11, <1>12 DEF CH!HistoryKept

\* What a page adds to the index: nothing that is behind it, and otherwise what
\* lies between.
LEMMA StoresKept == ASSUME CH!HistoryKept, NEW r \in CH!Readers, CH!Store(r) PROVE CH!HistoryKept'
<1>1. PICK j : j = x8[r] OBVIOUS
<1>2. /\ j.step = "read" /\ UNCHANGED <<x1, x3, x4, x7, x10, x11, x12>>
      /\ x5' = x5 \cup {e \in j.page : \A old \in x5 : old.seq # e.seq}
      /\ x6' = IF ~x6.known \/ CH!Newer(j.to) THEN j.to ELSE x6
  BY <1>1 DEF CH!Store, CH!native, CH!view
<1>3. PICK n : n = j.to.offset OBVIOUS
<1>4. PICK c : c = x6.offset OBVIOUS
<1>5. /\ CH!CursorTrue(j.to) /\ j.to.known /\ CH!CursorTrue(x6)
      /\ \E from \in 0 .. n : from <= c /\ j.page = {e \in CH!Reference(n) : e.seq > 2 * from + 1}
  BY <1>1, <1>2, <1>3, <1>4 DEF CH!HistoryKept, CH!JobTrue
<1>6. PICK from \in 0 .. n : from <= c /\ j.page = {e \in CH!Reference(n) : e.seq > 2 * from + 1} BY <1>5
<1>7. c \in Nat /\ n \in Nat /\ from \in Nat /\ Len(x1) \in Nat /\ n <= Len(x1) /\ c <= Len(x1)
  BY <1>3, <1>4, <1>5 DEF CH!HistoryKept, CH!CursorTrue
<1>8. x5 = CH!Reference(c) BY <1>4 DEF CH!HistoryKept, CH!HistoryExact
<1>9. c <= n => x6'.offset = n /\ x6' = j.to BY <1>2, <1>3, <1>4 DEF CH!Newer, CH!NewerOnly
<1>10. n < c => x6' = x6
  <2>1. SUFFICES ASSUME n < c PROVE x6' = x6 OBVIOUS
  <2>2. c # 0 BY <1>7, <2>1
  <2>3. x6.known BY <1>4, <2>2 DEF CH!HistoryKept
  <2>4. ~CH!Newer(j.to) BY <1>3, <1>4, <1>7, <2>1 DEF CH!Newer, CH!NewerOnly
  <2>5. QED BY <1>2, <2>3, <2>4
<1>11. CH!CursorTrue(x6') /\ c <= x6'.offset /\ (x6' = j.to \/ x6' = x6)
  BY <1>2, <1>4, <1>5, <1>7, <1>9, <1>10 DEF CH!CursorTrue
<1>12. x5' = CH!Reference(x6'.offset)
  <2>1. CASE n <= c
    <3>1. CH!Reference(n) = {e \in CH!Reference(c) : e.seq <= 2 * n + 1} BY <1>7, <2>1, ReferenceSplit
    <3>2. \A e \in j.page : e \in x5 BY <1>6, <1>8, <3>1
    <3>3. x5' = x5 BY <1>2, <3>2
    <3>4. x6'.offset = c BY <1>4, <1>7, <1>9, <1>10, <2>1
    <3>5. QED BY <1>8, <3>3, <3>4
  <2>2. CASE c < n
    <3>1. x5 = {e \in CH!Reference(n) : e.seq <= 2 * c + 1} BY <1>7, <1>8, <2>2, ReferenceSplit
    <3>2. \A e \in CH!Reference(n) : e.seq \in Nat BY <1>7, ReferenceIs
    <3>3. ASSUME NEW e \in x5' PROVE e \in CH!Reference(n) BY <1>2, <1>6, <3>1
    <3>4. ASSUME NEW e \in CH!Reference(n) PROVE e \in x5'
      <4>1. CASE e.seq <= 2 * c + 1 BY <1>2, <3>1, <4>1
      <4>2. CASE ~(e.seq <= 2 * c + 1)
        <5>1. e \in j.page BY <1>6, <1>7, <3>2, <4>2
        <5>2. \A old \in x5 : old.seq # e.seq BY <3>1, <4>2
        <5>3. QED BY <1>2, <5>1, <5>2
      <4>3. QED BY <4>1, <4>2
    <3>5. x6'.offset = n BY <1>7, <1>9, <2>2
    <3>6. QED BY <3>3, <3>4, <3>5
  <2>3. QED BY <1>7, <2>1, <2>2
<1>13. \A m : CH!Reference(m)' = CH!Reference(m) /\ (CH!Reported(m)' <=> CH!Reported(m)) BY <1>2 DEF CH!Reference, CH!Reported
<1>14. \A d : CH!CursorTrue(d)' <=> CH!CursorTrue(d) BY <1>2, <1>13 DEF CH!CursorTrue
<1>15. CH!CursorTrue(x6)' BY <1>2, <1>11, <1>13 DEF CH!CursorTrue
<1>16. x6'.offset \in Nat BY <1>7, <1>11 DEF CH!CursorTrue
<1>17. ~x6'.known => x6'.offset = 0
  <2>1. CASE x6' = x6 BY <2>1 DEF CH!HistoryKept
  <2>2. CASE x6' = j.to BY <1>5, <2>2
  <2>3. QED BY <1>11, <2>1, <2>2
<1>18. CH!HistoryExact'
  <2>1. x5' = CH!Reference(x6.offset)' BY <1>12, <1>2 DEF CH!Reference, CH!Reported
  <2>2. x10 = {e \in CH!RowsOf(x12) : e.seq <= x11} /\ x11 \in Nat BY DEF CH!HistoryKept, CH!HistoryExact, CH!ViewBehind
  <2>3. CASE x12 = "native"
    <3>1. CH!RowsOf(x12) = x5 /\ CH!RowsOf(x12)' = x5' BY <1>2, <2>3 DEF CH!RowsOf
    <3>2. x11 <= 2 * c + 1 BY <1>4, <2>3 DEF CH!HistoryKept, CH!ViewBehind
    <3>3. x5 = {e \in x5' : e.seq <= 2 * c + 1} BY <1>7, <1>8, <1>11, <1>12, <1>16, ReferenceSplit
    <3>4. \A e \in x5' : e.seq \in Nat BY <1>12, <1>16, ReferenceIs
    <3>5. {e \in x5' : e.seq <= x11} = {e \in x5 : e.seq <= x11} BY <1>7, <2>2, <3>2, <3>3, <3>4
    <3>6. QED BY <1>2, <2>1, <2>2, <3>1, <3>5 DEF CH!HistoryExact
  <2>4. CASE x12 # "native"
    <3>1. CH!RowsOf(x12)' = CH!RowsOf(x12) BY <1>2, <2>4 DEF CH!RowsOf
    <3>2. QED BY <1>2, <2>1, <2>2, <3>1 DEF CH!HistoryExact
  <2>5. QED BY <2>3, <2>4
<1>19. CH!ViewBehind'
  <2>1. 2 * c + 1 <= 2 * x6'.offset + 1 /\ 2 * c + 1 \in Nat /\ 2 * x6'.offset + 1 \in Nat BY <1>7, <1>11, <1>16
  <2>2. x11 \in Nat /\ (x12 = "native" => x11 <= 2 * c + 1) BY <1>4 DEF CH!HistoryKept, CH!ViewBehind
  <2>3. x12 = "native" => x11 <= 2 * x6'.offset + 1 BY <2>1, <2>2
  <2>4. QED BY <1>2, <2>2, <2>3 DEF CH!HistoryKept, CH!ViewBehind
<1>20. x8' = [o \in CH!Readers |-> x8'[o]] /\ \A o \in CH!Readers : x8'[o] = x8[o] \/ x8'[o].step \in {"none", "answer"}
  <2>1. x8' = [x8 EXCEPT ![r] = IF r = "view" THEN [step |-> "answer"] ELSE CH!NoJob] BY DEF CH!Store
  <2>2. PICK d : d = IF r = "view" THEN [step |-> "answer"] ELSE CH!NoJob OBVIOUS
  <2>3. d.step \in {"none", "answer"} BY <2>2 DEF CH!NoJob
  <2>4. x8 = [o \in CH!Readers |-> x8[o]] BY DEF CH!HistoryKept
  <2>5. x8' = [x8 EXCEPT ![r] = d] BY <2>1, <2>2
  <2>6. QED BY <2>3, <2>4, <2>5
<1>21. \A o \in CH!Readers : CH!JobTrue(x8[o])'
  <2>1. SUFFICES ASSUME NEW o \in CH!Readers PROVE CH!JobTrue(x8[o])' OBVIOUS
  <2>2. PICK d : d = x8'[o] OBVIOUS
  <2>3. d = x8[o] \/ d.step \in {"none", "answer"} BY <1>20, <2>2
  <2>4. CH!JobTrue(d) BY <2>3 DEF CH!HistoryKept, CH!JobTrue
  <2>5. CASE d.step \in {"none", "answer"} BY <2>2, <2>5 DEF CH!JobTrue
  <2>6. CASE d.step = "loaded" /\ CH!CursorTrue(d.from) /\ d.from.offset <= x6.offset
    <3>1. d.from.offset \in Nat /\ d.from.offset <= x6'.offset BY <1>4, <1>7, <1>11, <1>16, <2>6 DEF CH!CursorTrue
    <3>2. QED BY <1>14, <2>2, <2>6, <3>1 DEF CH!JobTrue, CH!CursorTrue
  <2>7. CASE /\ d.step = "read" /\ CH!CursorTrue(d.to) /\ d.to.known
             /\ \E f \in 0 .. d.to.offset :
                  f <= x6.offset /\ d.page = {e \in CH!Reference(d.to.offset) : e.seq > 2 * f + 1}
    <3>1. PICK f \in 0 .. d.to.offset : f <= c /\ d.page = {e \in CH!Reference(d.to.offset) : e.seq > 2 * f + 1}
      BY <1>4, <2>7
    <3>2. f \in Nat /\ f <= x6'.offset BY <1>7, <1>11, <1>16, <2>7, <3>1 DEF CH!CursorTrue
    <3>3. d.page = {e \in CH!Reference(d.to.offset)' : e.seq > 2 * f + 1} BY <1>13, <3>1
    <3>4. CH!CursorTrue(d.to)' BY <1>14, <2>7
    <3>5. CH!JobTrue(d)' BY <2>7, <3>1, <3>2, <3>3, <3>4 DEF CH!JobTrue
    <3>6. QED BY <2>2, <3>5 DEF CH!JobTrue, CH!CursorTrue
  <2>8. QED BY <2>4, <2>5, <2>6, <2>7 DEF CH!JobTrue
<1>22. CH!StreamNumbered' BY <1>2 DEF CH!HistoryKept, CH!StreamNumbered
<1>23. QED BY <1>2, <1>15, <1>17, <1>18, <1>19, <1>20, <1>21, <1>22 DEF CH!HistoryKept

LEMMA ImageFinite ==
  ASSUME NEW S, IsFiniteSet(S), NEW f, f = [x \in S |-> f[x]]
  PROVE  IsFiniteSet({f[x] : x \in S})
<1> DEFINE T == {f[x] : x \in S}
<1>1. f \in Surjection(S, T) BY DEF Surjection
<1>2. QED BY <1>1, FS_Surjection

LEMMA ReferenceFinite == ASSUME NEW n \in Nat PROVE IsFiniteSet(CH!Reference(n))
<1>1. IsFiniteSet(1 .. n) BY FS_Interval
<1>2. PICK f : f = [i \in 1 .. n |-> CH!Event(2 * i, x1[i])] OBVIOUS
<1>3. PICK g : g = [i \in 1 .. n |-> CH!Event(2 * i + 1, "report")] OBVIOUS
<1>4. IsFiniteSet({f[i] : i \in 1 .. n}) /\ IsFiniteSet({g[i] : i \in 1 .. n})
  <2>1. f = [x \in 1 .. n |-> f[x]] /\ g = [x \in 1 .. n |-> g[x]] BY <1>2, <1>3
  <2>2. QED BY <1>1, <2>1, ImageFinite
<1>5. PICK T : T = {f[i] : i \in 1 .. n} \cup {g[i] : i \in 1 .. n} OBVIOUS
<1>6. IsFiniteSet(T) BY <1>4, <1>5, FS_Union
<1>7. CH!Reference(n) \subseteq T BY <1>2, <1>3, <1>5 DEF CH!Reference
<1>8. QED BY <1>6, <1>7, FS_Subset

\* The first n of a set have nothing between them that is left out.
LEMMA LeastIs ==
  ASSUME NEW S, IsFiniteSet(S), \A e \in S : e.seq \in Nat, NEW n \in Nat
  PROVE  /\ CH!Least(S, n) \subseteq S
         /\ \A p \in CH!Least(S, n), e \in S : e.seq <= p.seq => e \in CH!Least(S, n)
<1>1. ASSUME NEW p \in CH!Least(S, n), NEW e \in S, e.seq <= p.seq PROVE e \in CH!Least(S, n)
  <2>1. PICK A : A = {d \in S : d.seq <= e.seq} OBVIOUS
  <2>2. PICK B : B = {d \in S : d.seq <= p.seq} OBVIOUS
  <2>3. p \in S /\ Cardinality(B) <= n BY CHSizes, <2>2 DEF CH!Least
  <2>4. A \subseteq B BY <1>1, <2>1, <2>2, <2>3
  <2>5. IsFiniteSet(B) /\ B \subseteq S BY <2>2, FS_Subset
  <2>6. Cardinality(A) <= Cardinality(B) /\ IsFiniteSet(A) BY <2>4, <2>5, FS_Subset
  <2>7. Cardinality(A) \in Nat /\ Cardinality(B) \in Nat BY <2>5, <2>6, FS_CardinalityType
  <2>8. Cardinality(A) <= n BY <2>3, <2>6, <2>7
  <2>9. QED BY CHSizes, <2>1, <2>8 DEF CH!Least
<1>2. QED BY <1>1 DEF CH!Least

\* How far a page has come.
EndOf(page, from) ==
  IF page = {} THEN from ELSE CHOOSE k \in {e.seq : e \in page} : \A e \in page : e.seq <= k

\* What a view shows after an answer is its source up to where it has come.
LEMMA PageShown ==
  ASSUME NEW S, IsFiniteSet(S), NEW bound \in Nat, \A e \in S : e.seq \in 1 .. bound,
         NEW from \in 0 .. bound, NEW n \in Nat, NEW left, left = {e \in S : e.seq > from},
         NEW page, page = CH!Least(left, n), NEW to, to = EndOf(page, from)
  PROVE  to \in from .. bound /\ {e \in S : e.seq <= from} \cup page = {e \in S : e.seq <= to}
<1>1. left = {e \in S : e.seq > from} OBVIOUS
<1>2. IsFiniteSet(left) /\ \A e \in left : e.seq \in Nat BY <1>1, FS_Subset
<1>3. page \subseteq left /\ \A p \in page, e \in left : e.seq <= p.seq => e \in page BY <1>1, <1>2, LeastIs
<1>4. CASE page = {} BY <1>4 DEF EndOf
<1>5. CASE page # {}
  <2>1. PICK T : T = {e.seq : e \in page} OBVIOUS
  <2>2. T \subseteq 0 .. bound /\ T # {}
    <3>1. \A e \in page : e \in S BY <1>1, <1>3
    <3>2. \A e \in page : e.seq \in 0 .. bound BY <3>1
    <3>3. QED BY <1>5, <2>1, <3>2
  <2>3. \E k \in T : \A t \in T : t <= k BY <2>2, GreatestOf
  <2>4. to \in T /\ \A e \in page : e.seq <= to BY <1>5, <2>1, <2>3 DEF EndOf
  <2>5. PICK p \in page : p.seq = to BY <2>1, <2>4
  <2>6. to \in Nat /\ to > from /\ to <= bound BY <1>1, <1>3, <2>5
  <2>7. ASSUME NEW e \in S, e.seq <= to PROVE e.seq <= from \/ e \in page
    <3>1. e.seq \in Nat OBVIOUS
    <3>2. CASE e.seq <= from BY <3>2
    <3>3. CASE e.seq > from BY <1>1, <1>3, <2>5, <2>7, <3>3
    <3>4. QED BY <3>1, <3>2, <3>3
  <2>8. ASSUME NEW e \in S, e.seq <= from PROVE e.seq <= to BY <2>6, <2>8
  <2>9. page \subseteq S BY <1>1, <1>3
  <2>10. {e \in S : e.seq <= from} \cup page = {e \in S : e.seq <= to}
    <3>1. \A e \in {e \in S : e.seq <= from} \cup page : e \in S /\ e.seq <= to BY <2>4, <2>8, <2>9
    <3>2. \A e \in {e \in S : e.seq <= to} : e \in {d \in S : d.seq <= from} \cup page BY <2>7
    <3>3. QED BY <3>1, <3>2
  <2>11. to \in from .. bound BY <2>6
  <2>12. QED BY <2>10, <2>11, Zenon
<1>6. QED BY <1>4, <1>5

LEMMA AnswersKept ==
  ASSUME CH!HistoryAssumption, CH!HistoryKept, NEW told, CH!Answer(told), UNCHANGED <<x1, x3, x4, CH!store>>,
         x8' = [r \in CH!Readers |-> x8'[r]], \A r \in CH!Readers : CH!JobTrue(x8'[r])
  PROVE  CH!HistoryKept'
<1>1. UNCHANGED <<x5, x6, x7>> BY DEF CH!store
<1> DEFINE s == CH!SourceNow
           from == CH!AfterIn(s)
           S == CH!RowsOf(s)
           page == CH!Least({e \in S : e.seq > from}, HistoryRows)
<1>2. s = CH!SourceNow OBVIOUS
<1>3. from = CH!AfterIn(s) OBVIOUS
<1>4. S = CH!RowsOf(s) OBVIOUS
<1>5. page = CH!Least({e \in S : e.seq > from}, HistoryRows) OBVIOUS
<1>6. /\ x12' = s /\ x10' = (IF x12 = s THEN x10 ELSE {}) \cup page
      /\ x11' = EndOf(page, from)
  BY DEF CH!Answer, EndOf
<1> HIDE DEF s, from, S, page
<1>7. s \in {"native", "stream", "legacy"} BY <1>2 DEF CH!SourceNow
<1>8. x6.offset \in Nat /\ x5 = CH!Reference(x6.offset) BY DEF CH!HistoryKept, CH!HistoryExact, CH!CursorTrue
<1>9. IsFiniteSet(x7) /\ Cardinality(x7) \in Nat BY CHSizes, FS_CardinalityType DEF CH!HistoryKept, CH!StreamNumbered
<1>10. PICK bound : bound = IF s = "native" THEN 2 * x6.offset + 1 ELSE IF s = "stream" THEN Cardinality(x7) ELSE x11
  OBVIOUS
<1>11. x11 \in Nat BY DEF CH!HistoryKept, CH!ViewBehind
<1>12. bound \in Nat BY <1>8, <1>9, <1>10, <1>11
<1>13. IsFiniteSet(S) /\ \A e \in S : e.seq \in 1 .. bound
  <2>1. CASE s = "native"
    <3>1. S = CH!Reference(x6.offset) /\ bound = 2 * x6.offset + 1 BY <1>4, <1>8, <1>10, <2>1 DEF CH!RowsOf
    <3>2. \A e \in S : e.seq \in Nat /\ 2 <= e.seq /\ e.seq <= 2 * x6.offset + 1 BY <1>8, <3>1, ReferenceIs
    <3>3. QED BY <1>8, <3>1, <3>2, ReferenceFinite
  <2>2. CASE s = "stream" BY CHSizes, <1>4, <1>10, <2>2 DEF CH!RowsOf, CH!HistoryKept, CH!StreamNumbered
  <2>3. CASE s = "legacy" BY <1>4, <2>3, FS_EmptySet DEF CH!RowsOf
  <2>4. QED BY <1>7, <2>1, <2>2, <2>3
<1>14. from \in 0 .. bound
  <2>1. CASE x12 = s
    <3>1. from = x11 BY <1>3, <2>1 DEF CH!AfterIn, CH!AfterOfSource
    <3>2. CASE s = "native" BY <1>8, <1>10, <1>11, <2>1, <3>1, <3>2 DEF CH!HistoryKept, CH!ViewBehind
    <3>3. CASE s = "stream" BY CHSizes, <1>9, <1>10, <1>11, <2>1, <3>1, <3>3 DEF CH!HistoryKept, CH!ViewBehind
    <3>4. CASE s = "legacy" BY <1>10, <1>11, <3>1, <3>4
    <3>5. QED BY <1>7, <3>2, <3>3, <3>4
  <2>2. CASE x12 # s BY <1>3, <1>12, <2>2 DEF CH!AfterIn, CH!AfterOfSource
  <2>3. QED BY <2>1, <2>2
<1>15. x11' \in from .. bound /\ {e \in S : e.seq <= from} \cup page = {e \in S : e.seq <= x11'}
  <2>1. PICK to : to = x11' OBVIOUS
  <2>2. to = EndOf(page, from) BY <1>6, <2>1
  <2>0. PICK left : left = {e \in S : e.seq > from} OBVIOUS
  <2>3. HistoryRows \in Nat BY DEF CH!HistoryAssumption
  <2>4. to \in from .. bound /\ {e \in S : e.seq <= from} \cup page = {e \in S : e.seq <= to}
    BY <1>5, <1>12, <1>13, <1>14, <2>0, <2>2, <2>3, PageShown
  <2>5. QED BY <2>1, <2>4
<1>16. (IF x12 = s THEN x10 ELSE {}) = {e \in S : e.seq <= from}
  <2>1. CASE x12 = s
    <3>1. from = x11 BY <1>3, <2>1 DEF CH!AfterIn, CH!AfterOfSource
    <3>2. QED BY <1>4, <2>1, <3>1 DEF CH!HistoryKept, CH!HistoryExact
  <2>2. CASE x12 # s
    <3>1. from = 0 BY <1>3, <2>2 DEF CH!AfterIn, CH!AfterOfSource
    <3>2. QED BY <1>12, <1>13, <2>2, <3>1
  <2>3. QED BY <2>1, <2>2
<1>17. x10' = {e \in S : e.seq <= x11'} BY <1>6, <1>15, <1>16
<1>18. CH!RowsOf(x12)' = S BY <1>1, <1>4, <1>6 DEF CH!RowsOf
<1>19. \A n : CH!Reference(n)' = CH!Reference(n) /\ (CH!Reported(n)' <=> CH!Reported(n)) BY DEF CH!Reference, CH!Reported
<1>20. CH!HistoryExact' BY <1>1, <1>8, <1>17, <1>18, <1>19 DEF CH!HistoryExact
<1>21. CH!ViewBehind' BY CHSizes, <1>1, <1>6, <1>10, <1>12, <1>14, <1>15 DEF CH!ViewBehind
<1>22. \A c : CH!CursorTrue(c)' <=> CH!CursorTrue(c) BY <1>19 DEF CH!CursorTrue
<1>23. CH!CursorTrue(x6)' BY <1>1, <1>22 DEF CH!HistoryKept, CH!CursorTrue, CH!Reported
<1>24. \A r \in CH!Readers : CH!JobTrue(x8[r])'
  <2>1. SUFFICES ASSUME NEW r \in CH!Readers PROVE CH!JobTrue(x8[r])' OBVIOUS
  <2>2. PICK j : j = x8'[r] OBVIOUS
  <2>3. CH!JobTrue(j) BY <2>2
  <2>4. CH!JobTrue(j)' BY <1>1, <1>19, <1>22, <2>3 DEF CH!JobTrue
  <2>5. QED BY <2>2, <2>4 DEF CH!JobTrue, CH!CursorTrue
<1>25. CH!StreamNumbered' BY <1>1 DEF CH!HistoryKept, CH!StreamNumbered
<1>26. QED BY <1>1, <1>6, <1>7, <1>20, <1>21, <1>23, <1>24, <1>25 DEF CH!HistoryKept

LEMMA NextHistory == ASSUME CH!HistoryAssumption, CH!HistoryKept, [CH!Next]_(CH!vars) PROVE CH!HistoryKept'
<1>1. CASE UNCHANGED CH!vars
  <2>1. UNCHANGED <<x1, x3, x4, CH!store, CH!view, x8>> BY <1>1 DEF CH!vars, CH!native
  <2>2. QED BY <2>1, HistoryRest DEF CH!HistoryKept
<1>2. CASE \E kind \in CH!Kinds, streams \in BOOLEAN : CH!Write(kind, streams) BY <1>2, WriteKept
<1>3. CASE CH!BeginWrite \/ CH!ChildEnds \/ CH!Dies \/ \E r \in CH!Readers : CH!Load(r) \/ CH!Drop(r) BY <1>3, QuietKept
<1>4. CASE \E r \in CH!Readers : CH!Read(r) \/ CH!Store(r) BY <1>4, ReadsKept, StoresKept
<1>5. CASE CH!ViewAnswered
  <2>1. CH!Answer(x9) /\ x8' = [x8 EXCEPT !["view"] = CH!NoJob] /\ UNCHANGED <<x1, x3, x4, CH!store>>
    BY <1>5 DEF CH!ViewAnswered, CH!native
  <2>2. CH!JobTrue(CH!NoJob) /\ "view" \in CH!Readers BY DEF CH!JobTrue, CH!NoJob, CH!Readers
  <2>3. x8' = [r \in CH!Readers |-> x8'[r]] /\ \A r \in CH!Readers : CH!JobTrue(x8'[r]) BY <2>1, <2>2, JobsChanged
  <2>4. QED BY <2>1, <2>3, AnswersKept
<1>6. CASE CH!ViewCached
  <2>1. CH!Answer(FALSE) /\ UNCHANGED <<x8, x1, x3, x4, CH!store>> BY <1>6 DEF CH!ViewCached, CH!native
  <2>2. QED BY <2>1, AnswersKept DEF CH!HistoryKept
<1>7. QED BY <1>1, <1>2, <1>3, <1>4, <1>5, <1>6, Zenon DEF CH!Next

LEMMA HistoryType == ASSUME CH!HistoryKept PROVE CH!TypeOK
<1>1. DOMAIN x8 = CH!Readers BY DEF CH!HistoryKept
<1>2. QED BY <1>1 DEF CH!HistoryKept, CH!TypeOK, CH!CursorTrue

-----------------------------------------------------------------------------
(* ChildSnapshot: a transcript that is parsed, and normalised after it.      *)

\* The results of N steps, the n-th of which takes r to G[n][r].
RunOf(G, a, N, f) == f = [n \in 0 .. N |-> IF n = 0 THEN a ELSE G[n][f[n - 1]]]

LEMMA RunExists ==
  ASSUME NEW S, NEW a \in S, NEW N \in Nat, NEW G, \A n \in 1 .. N : G[n] \in [S -> S]
  PROVE  \E f \in [0 .. N -> S] : RunOf(G, a, N, f)
<1> DEFINE T == {n \in Nat : n <= N => \E f \in [0 .. n -> S] : RunOf(G, a, n, f)}
<1>1. 0 \in T
  <2>1. PICK f : f = [n \in 0 .. 0 |-> a] OBVIOUS
  <2>2. f = [n \in 0 .. 0 |-> IF n = 0 THEN a ELSE G[n][f[n - 1]]] BY <2>1
  <2>3. f \in [0 .. 0 -> S] BY <2>1
  <2>4. QED BY <2>2, <2>3 DEF RunOf
<1>2. ASSUME NEW n \in Nat, n \in T PROVE n + 1 \in T
  <2>1. SUFFICES ASSUME n + 1 <= N PROVE \E g \in [0 .. (n + 1) -> S] : RunOf(G, a, n + 1, g) OBVIOUS
  <2>2. PICK f \in [0 .. n -> S] : RunOf(G, a, n, f) BY <1>2, <2>1
  <2>3. PICK g : g = [m \in 0 .. (n + 1) |-> IF m = n + 1 THEN G[n + 1][f[n]] ELSE f[m]] OBVIOUS
  <2>4. n + 1 \in 1 .. N /\ f[n] \in S BY <2>1, <2>2
  <2>5. G[n + 1][f[n]] \in S BY <2>4
  <2>6. g \in [0 .. (n + 1) -> S] BY <2>2, <2>3, <2>5
  <2>7. \A m \in 0 .. (n + 1) : g[m] = IF m = 0 THEN a ELSE G[m][g[m - 1]]
    <3>1. SUFFICES ASSUME NEW m \in 0 .. (n + 1) PROVE g[m] = IF m = 0 THEN a ELSE G[m][g[m - 1]] OBVIOUS
    <3>2. CASE m = n + 1
      <4>1. m # 0 /\ m - 1 = n /\ n \in 0 .. (n + 1) /\ n # n + 1 BY <3>2
      <4>2. g[n] = f[n] BY <2>3, <4>1
      <4>3. QED BY <2>3, <3>2, <4>1, <4>2
    <3>3. CASE m # n + 1
      <4>1. m \in 0 .. n /\ (m # 0 => m - 1 # n + 1 /\ m - 1 \in 0 .. (n + 1)) BY <3>3
      <4>2. g[m] = f[m] BY <2>3, <3>3
      <4>3. f[m] = IF m = 0 THEN a ELSE G[m][f[m - 1]] BY <2>2, <4>1 DEF RunOf
      <4>4. m # 0 => g[m - 1] = f[m - 1] BY <2>3, <4>1
      <4>5. QED BY <4>2, <4>3, <4>4
    <3>4. QED BY <3>2, <3>3
  <2>8. g = [m \in 0 .. (n + 1) |-> IF m = 0 THEN a ELSE G[m][g[m - 1]]] BY <2>3, <2>7
  <2>9. QED BY <2>6, <2>8 DEF RunOf
<1> HIDE DEF T
<1>3. Nat \subseteq T BY <1>1, <1>2, NatSetInduction
<1>4. QED BY <1>3 DEF T

\* What an event of a snapshot may be, and what is known after some blocks.
Words == CS!Blocks \cup {"clipped", "part2"}
Accs == [pending : BOOLEAN, events : Seq(Words)]

LEMMA LenInNat == ASSUME NEW S, NEW s \in Seq(S) PROVE Len(s) \in Nat
OBVIOUS

LEMMA EmptySeq == ASSUME NEW S PROVE <<>> \in Seq(S)
OBVIOUS

LEMMA ReportParts ==
  CS!ReportEvents \in Seq(Words) /\ Len(CS!ReportEvents) = 2 /\ CS!ReportEvents[1] = "part1" /\ CS!ReportEvents[2] = "part2"
<1>1. "part1" \in Words /\ "part2" \in Words BY DEF Words, CS!Blocks
<1>2. CS!ReportEvents \in Seq(Words) BY <1>1 DEF CS!ReportEvents
<1>3. Len(CS!ReportEvents) = 2 BY DEF CS!ReportEvents
<1>4. CS!ReportEvents[1] = "part1" BY DEF CS!ReportEvents
<1>5. CS!ReportEvents[2] = "part2" BY DEF CS!ReportEvents
<1>6. QED BY <1>2, <1>3, <1>4, <1>5

\* What follows begins with the report when its two parts do.
LEMMA ReportFirst ==
  ASSUME NEW s \in Seq(Words)
  PROVE  CS!IsPrefix(CS!ReportEvents, s) <=> Len(s) >= 2 /\ s[1] = "part1" /\ s[2] = "part2"
<1>1. PICK r \in Seq(Words) : r = CS!ReportEvents /\ Len(r) = 2 /\ r[1] = "part1" /\ r[2] = "part2" BY ReportParts
<1>2. PICK N \in Nat : N = Len(s) BY LenInNat
<1>3. PICK r2 : r2 = SubSeq(r, 1, 2) OBVIOUS
<1>4. r2 \in Seq(Words) /\ Len(r2) = 2 /\ r2[1] = "part1" /\ r2[2] = "part2" BY <1>1, <1>3
<1>5. ASSUME N >= 2 PROVE SubSeq(r, 1, 2) = SubSeq(s, 1, 2) <=> s[1] = "part1" /\ s[2] = "part2"
  <2>1. PICK s2 : s2 = SubSeq(s, 1, 2) OBVIOUS
  <2>2. s2 \in Seq(Words) /\ Len(s2) = 2 /\ s2[1] = s[1] /\ s2[2] = s[2] BY <1>2, <1>5, <2>1
  <2>3. ASSUME s[1] = "part1", s[2] = "part2" PROVE r2 = s2
    <3>1. \A k \in 1 .. 2 : r2[k] = s2[k] BY <1>4, <2>2, <2>3
    <3>2. QED BY <1>4, <2>2, <3>1
  <2>4. QED BY <1>3, <1>4, <2>1, <2>2, <2>3
<1>6. CS!IsPrefix(r, s) <=> 2 <= N /\ SubSeq(r, 1, 2) = SubSeq(s, 1, 2) BY <1>1, <1>2 DEF CS!IsPrefix
<1>7. QED BY <1>1, <1>2, <1>5, <1>6

LEMMA Joined ==
  ASSUME NEW S, NEW e \in Seq(S), NEW c \in S, NEW r \in Seq(S)
  PROVE  /\ e \o <<c>> \o r \in Seq(S) /\ Len(e \o <<c>> \o r) = Len(e) + 1 + Len(r)
         /\ \A k \in 1 .. Len(e) : (e \o <<c>> \o r)[k] = e[k]
         /\ (e \o <<c>> \o r)[Len(e) + 1] = c
         /\ \A k \in 1 .. Len(r) : (e \o <<c>> \o r)[Len(e) + 1 + k] = r[k]
<1>1. PICK x : x = e \o <<c>> OBVIOUS
<1>2. PICK M \in Nat, N \in Nat : M = Len(e) /\ N = Len(r) BY LenInNat
<1>a. x \in Seq(S) /\ Len(x) = M + 1 /\ x[M + 1] = c /\ \A k \in 1 .. M : x[k] = e[k]
  <2>1. <<c>> \in Seq(S) /\ Len(<<c>>) = 1 /\ <<c>>[1] = c OBVIOUS
  <2>2. x \in Seq(S) BY <1>1, <2>1
  <2>3. Len(x) = M + 1 BY <1>1, <1>2, <2>1
  <2>4. x[M + 1] = c BY <1>1, <1>2, <2>1
  <2>5. \A k \in 1 .. M : x[k] = e[k] BY <1>1, <1>2, <2>1
  <2>6. QED BY <2>2, <2>3, <2>4, <2>5
<1>b. PICK y : y = x \o r OBVIOUS
<1>3. /\ y \in Seq(S) /\ Len(y) = M + 1 + N
      /\ \A k \in 1 .. (M + 1) : y[k] = x[k]
      /\ \A k \in 1 .. N : y[M + 1 + k] = r[k]
  <2>1. y \in Seq(S) BY <1>a, <1>b
  <2>2. Len(x \o r) = Len(x) + Len(r) /\ \A k \in 1 .. Len(r) : (x \o r)[Len(x) + k] = r[k] BY <1>a
  <2>3. Len(y) = M + 1 + N BY <1>a, <1>b, <1>2, <2>2
  <2>4. \A k \in 1 .. (M + 1) : y[k] = x[k] BY <1>a, <1>b, <1>2
  <2>5. \A k \in 1 .. N : y[M + 1 + k] = r[k] BY <1>a, <1>b, <1>2, <2>2
  <2>6. QED BY <2>1, <2>3, <2>4, <2>5
<1>4. \A k \in 1 .. M : y[k] = e[k] BY <1>a, <1>3
<1>5. y[M + 1] = c BY <1>a, <1>3
<1>6. QED BY <1>1, <1>2, <1>b, <1>3, <1>4, <1>5

LEMMA KeepEnd ==
  ASSUME CS!SnapshotAssumption, NEW S, NEW ev \in Seq(S)
  PROVE  \E d \in Nat : /\ CS!Keep(ev) \in Seq(S) /\ Len(CS!Keep(ev)) = Len(ev) - d /\ Len(CS!Keep(ev)) <= MaxSnapshot
                        /\ \A k \in 1 .. Len(CS!Keep(ev)) : CS!Keep(ev)[k] = ev[k + d]
                        /\ Len(ev) <= MaxSnapshot => CS!Keep(ev) = ev
<1>1. CASE Len(ev) > MaxSnapshot
  <2>1. PICK d \in Nat : d = Len(ev) - MaxSnapshot BY <1>1 DEF CS!SnapshotAssumption
  <2>2. CS!Keep(ev) = SubSeq(ev, d + 1, Len(ev)) BY <1>1, <2>1 DEF CS!Keep, CS!SnapshotAssumption
  <2>3. PICK N \in Nat : N = Len(ev) BY LenInNat
  <2>4. d + 1 \in 1 .. N /\ N - (d + 1) + 1 = N - d BY <1>1, <2>1, <2>3 DEF CS!SnapshotAssumption
  <2>5. /\ CS!Keep(ev) \in Seq(S) /\ Len(CS!Keep(ev)) = N - d
        /\ \A k \in 1 .. (N - d) : CS!Keep(ev)[k] = ev[k + d]
    BY <2>2, <2>3, <2>4
  <2>6. N - d = MaxSnapshot /\ ~(N <= MaxSnapshot) BY <1>1, <2>1, <2>3 DEF CS!SnapshotAssumption
  <2>7. Len(CS!Keep(ev)) <= MaxSnapshot BY <2>5, <2>6 DEF CS!SnapshotAssumption
  <2>8. QED BY <2>3, <2>5, <2>6, <2>7
<1>2. CASE ~(Len(ev) > MaxSnapshot)
  <2>1. CS!Keep(ev) = ev BY <1>2 DEF CS!Keep
  <2>2. QED BY <1>2, <2>1 DEF CS!SnapshotAssumption
<1>3. QED BY <1>1, <1>2

LEMMA BlockTypes ==
  ASSUME CS!SnapshotAssumption, NEW acc \in Accs, NEW ev \in Seq(Words)
  PROVE  /\ CS!Nothing \in Accs
         /\ \A b \in CS!Blocks : CS!ParseBlock(acc, b) \in Accs
         /\ \A n \in 1 .. Len(ev) : CS!NormalizeBlock(ev, acc, n) \in Accs
<1>1. CS!Nothing \in Accs BY DEF CS!Nothing, Accs
<1>2. \A b \in Words : CS!Promote(acc, b) \in Seq(Words) /\ CS!Bounded(b) \in Words /\ CS!PendingNow(acc, b) \in BOOLEAN
  <2>1. SUFFICES ASSUME NEW b \in Words
                 PROVE  CS!Promote(acc, b) \in Seq(Words) /\ CS!Bounded(b) \in Words /\ CS!PendingNow(acc, b) \in BOOLEAN
    OBVIOUS
  <2>2. "part1" \in Words /\ "part2" \in Words /\ "clipped" \in Words BY DEF Words, CS!Blocks
  <2>3. CS!ReportEvents \in Seq(Words) BY <2>2 DEF CS!ReportEvents
  <2>4. CS!Promote(acc, b) \in Seq(Words) BY <2>3 DEF CS!Promote
  <2>5. CS!Bounded(b) \in Words BY <2>2 DEF CS!Bounded
  <2>6. acc.pending \in BOOLEAN BY DEF Accs
  <2>7. CS!PendingNow(acc, b) \in BOOLEAN BY <2>6 DEF CS!PendingNow
  <2>8. QED BY <2>4, <2>5, <2>7
<1>3. acc.events \in Seq(Words) BY DEF Accs
<1>4. ASSUME NEW b \in CS!Blocks PROVE CS!ParseBlock(acc, b) \in Accs
  <2>0. PICK r \in Seq(Words), c \in Words : r = CS!Promote(acc, b) /\ c = CS!Bounded(b) BY <1>2 DEF Words
  <2>1. PICK e \in Seq(Words) : e = acc.events \o <<c>> \o r BY <1>3, Joined
  <2>2. CS!Keep(e) \in Seq(Words) BY KeepEnd
  <2>3. CS!PendingNow(acc, b) \in BOOLEAN BY <1>2 DEF Words
  <2>4. CS!ParseBlock(acc, b) = [pending |-> CS!PendingNow(acc, b), events |-> CS!Keep(e)] BY <2>0, <2>1 DEF CS!ParseBlock
  <2>5. QED BY <2>2, <2>3, <2>4 DEF Accs
<1>5. ASSUME NEW n \in 1 .. Len(ev) PROVE CS!NormalizeBlock(ev, acc, n) \in Accs
  <2>1. ev[n] \in Words OBVIOUS
  <2>2. PICK r \in Seq(Words) : r = IF CS!AlreadyPresent(SubSeq(ev, n + 1, Len(ev))) THEN <<>> ELSE CS!Promote(acc, ev[n])
    <3>1. <<>> \in Seq(Words) OBVIOUS
    <3>2. QED BY <1>2, <2>1, <3>1
  <2>3. PICK e \in Seq(Words) : e = acc.events \o <<ev[n]>> \o r
    <3>1. PICK c \in Words : c = ev[n] BY <2>1
    <3>2. QED BY <1>3, <3>1, Joined
  <2>4. CS!Keep(e) \in Seq(Words) BY KeepEnd
  <2>5. CS!PendingNow(acc, ev[n]) \in BOOLEAN BY <1>2, <2>1
  <2>6. CS!NormalizeBlock(ev, acc, n) = [pending |-> CS!PendingNow(acc, ev[n]), events |-> CS!Keep(e)]
    BY <2>2, <2>3 DEF CS!NormalizeBlock
  <2>7. QED BY <2>4, <2>5, <2>6 DEF Accs
<1>6. QED BY <1>1, <1>4, <1>5

\* The three folds, as runs.
LEMMA ParseRun ==
  ASSUME CS!SnapshotAssumption, NEW blocks \in Seq(CS!Blocks)
  PROVE  \E f : /\ f[0] = CS!Nothing /\ f[Len(blocks)].events = CS!Parse(blocks)
                /\ \A n \in 1 .. Len(blocks) : f[n] = CS!ParseBlock(f[n - 1], blocks[n])
<1>0. PICK N \in Nat : N = Len(blocks) BY LenInNat
<1> DEFINE after[n \in 0 .. Len(blocks)] == IF n = 0 THEN CS!Nothing ELSE CS!ParseBlock(after[n - 1], blocks[n])
<1>1. CS!Parse(blocks) = after[Len(blocks)].events BY DEF CS!Parse
<1>2. after = CHOOSE f : f = [n \in 0 .. Len(blocks) |-> IF n = 0 THEN CS!Nothing ELSE CS!ParseBlock(f[n - 1], blocks[n])] OBVIOUS
<1> HIDE DEF after
<1>3. \E f : f = [n \in 0 .. Len(blocks) |-> IF n = 0 THEN CS!Nothing ELSE CS!ParseBlock(f[n - 1], blocks[n])]
  <2>1. PICK G : G = [n \in 1 .. Len(blocks) |-> [acc \in Accs |-> CS!ParseBlock(acc, blocks[n])]] OBVIOUS
  <2>2. \A n \in 1 .. Len(blocks) : G[n] \in [Accs -> Accs]
    <3>1. SUFFICES ASSUME NEW n \in 1 .. Len(blocks), NEW acc \in Accs PROVE CS!ParseBlock(acc, blocks[n]) \in Accs BY <2>1
    <3>2. blocks[n] \in CS!Blocks /\ <<>> \in Seq(Words) OBVIOUS
    <3>3. QED BY <3>2, BlockTypes
  <2>3. CS!Nothing \in Accs BY DEF CS!Nothing, Accs
  <2>4. PICK f \in [0 .. Len(blocks) -> Accs] : RunOf(G, CS!Nothing, Len(blocks), f) BY <2>2, <2>3, LenInNat, RunExists
  <2>5. ASSUME NEW n \in 0 .. Len(blocks) PROVE f[n] = IF n = 0 THEN CS!Nothing ELSE CS!ParseBlock(f[n - 1], blocks[n])
    <3>1. f[n] = IF n = 0 THEN CS!Nothing ELSE G[n][f[n - 1]] BY <2>4 DEF RunOf
    <3>2. n # 0 => n \in 1 .. Len(blocks) /\ n - 1 \in 0 .. Len(blocks) BY <1>0
    <3>3. n # 0 => f[n - 1] \in Accs BY <2>4, <3>2
    <3>4. n # 0 => G[n][f[n - 1]] = CS!ParseBlock(f[n - 1], blocks[n]) BY <2>1, <3>2, <3>3
    <3>5. QED BY <3>1, <3>4
  <2>6. f = [n \in 0 .. Len(blocks) |-> IF n = 0 THEN CS!Nothing ELSE CS!ParseBlock(f[n - 1], blocks[n])] BY <2>5
  <2>7. QED BY <2>6
<1>4. after = [n \in 0 .. Len(blocks) |-> IF n = 0 THEN CS!Nothing ELSE CS!ParseBlock(after[n - 1], blocks[n])] BY <1>2, <1>3
<1>5. QED BY <1>0, <1>1, <1>4

LEMMA OlderRun ==
  ASSUME CS!SnapshotAssumption, NEW blocks \in Seq(CS!Blocks)
  PROVE  \E f : /\ f[0] = <<>> /\ f[Len(blocks)] = CS!Older(blocks)
                /\ \A n \in 1 .. Len(blocks) : f[n] = CS!OlderBlock(f[n - 1], blocks[n])
<1>0. PICK N \in Nat : N = Len(blocks) BY LenInNat
<1> DEFINE after[n \in 0 .. Len(blocks)] == IF n = 0 THEN <<>> ELSE CS!OlderBlock(after[n - 1], blocks[n])
<1>1. CS!Older(blocks) = after[Len(blocks)] BY DEF CS!Older
<1>2. after = CHOOSE f : f = [n \in 0 .. Len(blocks) |-> IF n = 0 THEN <<>> ELSE CS!OlderBlock(f[n - 1], blocks[n])] OBVIOUS
<1> HIDE DEF after
<1>3. \E f : f = [n \in 0 .. Len(blocks) |-> IF n = 0 THEN <<>> ELSE CS!OlderBlock(f[n - 1], blocks[n])]
  <2>1. PICK G : G = [n \in 1 .. Len(blocks) |-> [ev \in Seq(Words) |-> CS!OlderBlock(ev, blocks[n])]] OBVIOUS
  <2>2. \A n \in 1 .. Len(blocks) : G[n] \in [Seq(Words) -> Seq(Words)]
    <3>1. SUFFICES ASSUME NEW n \in 1 .. Len(blocks), NEW ev \in Seq(Words) PROVE CS!OlderBlock(ev, blocks[n]) \in Seq(Words)
      BY <2>1
    <3>2. PICK c \in Words : c = CS!Bounded(blocks[n]) BY DEF CS!Bounded, Words
    <3>3. PICK e : e = ev \o <<c>> OBVIOUS
    <3>4. <<c>> \in Seq(Words) OBVIOUS
    <3>5. e \in Seq(Words) BY <3>3, <3>4
    <3>6. QED BY <3>2, <3>3, <3>5, KeepEnd DEF CS!OlderBlock
  <2>3. <<>> \in Seq(Words) OBVIOUS
  <2>4. PICK f \in [0 .. Len(blocks) -> Seq(Words)] : RunOf(G, <<>>, Len(blocks), f) BY <2>2, <2>3, LenInNat, RunExists
  <2>5. ASSUME NEW n \in 0 .. Len(blocks) PROVE f[n] = IF n = 0 THEN <<>> ELSE CS!OlderBlock(f[n - 1], blocks[n])
    <3>1. f[n] = IF n = 0 THEN <<>> ELSE G[n][f[n - 1]] BY <2>4 DEF RunOf
    <3>2. n # 0 => n \in 1 .. Len(blocks) /\ n - 1 \in 0 .. Len(blocks) BY <1>0
    <3>3. n # 0 => f[n - 1] \in Seq(Words) BY <2>4, <3>2
    <3>4. n # 0 => G[n][f[n - 1]] = CS!OlderBlock(f[n - 1], blocks[n]) BY <2>1, <3>2, <3>3
    <3>5. QED BY <3>1, <3>4
  <2>6. f = [n \in 0 .. Len(blocks) |-> IF n = 0 THEN <<>> ELSE CS!OlderBlock(f[n - 1], blocks[n])] BY <2>5
  <2>7. QED BY <2>6
<1>4. after = [n \in 0 .. Len(blocks) |-> IF n = 0 THEN <<>> ELSE CS!OlderBlock(after[n - 1], blocks[n])] BY <1>2, <1>3
<1>5. QED BY <1>0, <1>1, <1>4

LEMMA NormalizeRun ==
  ASSUME CS!SnapshotAssumption, NEW ev \in Seq(Words)
  PROVE  \E f : /\ f[0] = CS!Nothing /\ f[Len(ev)].events = CS!Normalize(ev)
                /\ \A n \in 1 .. Len(ev) : f[n] = CS!NormalizeBlock(ev, f[n - 1], n)
<1>0. PICK N \in Nat : N = Len(ev) BY LenInNat
<1> DEFINE after[n \in 0 .. Len(ev)] == IF n = 0 THEN CS!Nothing ELSE CS!NormalizeBlock(ev, after[n - 1], n)
<1>1. CS!Normalize(ev) = after[Len(ev)].events BY DEF CS!Normalize
<1>2. after = CHOOSE f : f = [n \in 0 .. Len(ev) |-> IF n = 0 THEN CS!Nothing ELSE CS!NormalizeBlock(ev, f[n - 1], n)] OBVIOUS
<1> HIDE DEF after
<1>3. \E f : f = [n \in 0 .. Len(ev) |-> IF n = 0 THEN CS!Nothing ELSE CS!NormalizeBlock(ev, f[n - 1], n)]
  <2>1. PICK G : G = [n \in 1 .. Len(ev) |-> [acc \in Accs |-> CS!NormalizeBlock(ev, acc, n)]] OBVIOUS
  <2>2. \A n \in 1 .. Len(ev) : G[n] \in [Accs -> Accs] BY <2>1, BlockTypes, EmptySeq
  <2>3. CS!Nothing \in Accs BY DEF CS!Nothing, Accs
  <2>4. PICK f \in [0 .. Len(ev) -> Accs] : RunOf(G, CS!Nothing, Len(ev), f) BY <2>2, <2>3, LenInNat, RunExists
  <2>5. ASSUME NEW n \in 0 .. Len(ev) PROVE f[n] = IF n = 0 THEN CS!Nothing ELSE CS!NormalizeBlock(ev, f[n - 1], n)
    <3>1. f[n] = IF n = 0 THEN CS!Nothing ELSE G[n][f[n - 1]] BY <2>4 DEF RunOf
    <3>2. n # 0 => n \in 1 .. Len(ev) /\ n - 1 \in 0 .. Len(ev) BY <1>0
    <3>3. n # 0 => f[n - 1] \in Accs BY <2>4, <3>2
    <3>4. n # 0 => G[n][f[n - 1]] = CS!NormalizeBlock(ev, f[n - 1], n) BY <2>1, <3>2, <3>3
    <3>5. QED BY <3>1, <3>4
  <2>6. f = [n \in 0 .. Len(ev) |-> IF n = 0 THEN CS!Nothing ELSE CS!NormalizeBlock(ev, f[n - 1], n)] BY <2>5
  <2>7. QED BY <2>6
<1>4. after = [n \in 0 .. Len(ev) |-> IF n = 0 THEN CS!Nothing ELSE CS!NormalizeBlock(ev, after[n - 1], n)] BY <1>2, <1>3
<1>5. QED BY <1>0, <1>1, <1>4

-----------------------------------------------------------------------------
\* A handback waits for its result at i of ev; its report follows i; and every
\* confirmed handback has its report.
Pend(ev, i) ==
  \E h \in 1 .. (i - 1) :
    ev[h] \in {"hand", "long"} /\ \A k \in (h + 1) .. (i - 1) : ev[k] \notin {"done", "failed"}
Told(ev, i) == i + 2 <= Len(ev) /\ ev[i + 1] = "part1" /\ ev[i + 2] = "part2"
ReportsTold(ev) == \A i \in 1 .. Len(ev) : ev[i] = "done" /\ Pend(ev, i) => Told(ev, i)

\* What is known after some blocks.
AccTrue(acc) ==
  /\ acc.pending \in BOOLEAN /\ acc.events \in Seq(Words) /\ Len(acc.events) <= MaxSnapshot
  /\ ReportsTold(acc.events) /\ (Pend(acc.events, Len(acc.events) + 1) => acc.pending)

\* The newest events of a snapshot are a snapshot.
LEMMA EndTold ==
  ASSUME NEW S, NEW ev \in Seq(S), NEW end \in Seq(S), NEW d \in Nat, Len(end) = Len(ev) - d,
         \A k \in 1 .. Len(end) : end[k] = ev[k + d], ReportsTold(ev)
  PROVE  ReportsTold(end) /\ (Pend(end, Len(end) + 1) => Pend(ev, Len(ev) + 1))
<1>1. PICK M \in Nat, N \in Nat : M = Len(ev) /\ N = Len(end) /\ N = M - d BY LenInNat
<1>2. ASSUME NEW i \in 1 .. (N + 1), Pend(end, i) PROVE Pend(ev, i + d)
  <2>1. PICK h \in 1 .. (i - 1) : end[h] \in {"hand", "long"} /\ \A k \in (h + 1) .. (i - 1) : end[k] \notin {"done", "failed"}
    BY <1>2 DEF Pend
  <2>2. h \in 1 .. N /\ h + d \in 1 .. (i + d - 1) BY <1>1, <2>1
  <2>3. ev[h + d] \in {"hand", "long"} BY <1>1, <2>1, <2>2
  <2>4. ASSUME NEW k \in (h + d + 1) .. (i + d - 1) PROVE ev[k] \notin {"done", "failed"}
    <3>1. k - d \in (h + 1) .. (i - 1) /\ k - d \in 1 .. N /\ (k - d) + d = k BY <2>4, <2>1, <1>1
    <3>2. ev[k] = end[k - d] BY <1>1, <3>1
    <3>3. QED BY <2>1, <3>1, <3>2
  <2>5. QED BY <2>2, <2>3, <2>4 DEF Pend
<1>3. ASSUME NEW i \in 1 .. N, end[i] = "done", Pend(end, i) PROVE Told(end, i)
  <2>1. Pend(ev, i + d) /\ ev[i + d] = "done" /\ i + d \in 1 .. M BY <1>1, <1>2, <1>3
  <2>2. i + d + 2 <= M /\ ev[i + d + 1] = "part1" /\ ev[i + d + 2] = "part2" BY <1>1, <2>1 DEF ReportsTold, Told
  <2>3. i + 1 \in 1 .. N /\ i + 2 \in 1 .. N /\ i + 1 + d = i + d + 1 /\ i + 2 + d = i + d + 2 BY <1>1, <2>2
  <2>4. end[i + 1] = "part1" /\ end[i + 2] = "part2" BY <1>1, <2>2, <2>3
  <2>5. QED BY <1>1, <2>3, <2>4 DEF Told
<1>4. Pend(end, N + 1) => Pend(ev, N + 1 + d) BY <1>1, <1>2
<1>5. N + 1 + d = M + 1 BY <1>1
<1>6. QED BY <1>1, <1>3, <1>4, <1>5 DEF ReportsTold

\* An event more, with its report if it confirms a handback that waits.
ReportAdded(ev, b, r) == r \in {<<>>, CS!ReportEvents} /\ (b = "done" /\ Pend(ev, Len(ev) + 1) => r = CS!ReportEvents)
StillPends(new, ev, b) ==
  Pend(new, Len(new) + 1) => b \in {"hand", "long"} \/ (Pend(ev, Len(ev) + 1) /\ b \notin {"done", "failed"})
LEMMA EventTold ==
  ASSUME NEW ev \in Seq(Words), NEW b \in Words, NEW r \in Seq(Words), ReportAdded(ev, b, r), ReportsTold(ev)
  PROVE  ReportsTold(ev \o <<b>> \o r) /\ StillPends(ev \o <<b>> \o r, ev, b)
<1>0. PICK new : new = ev \o <<b>> \o r OBVIOUS
<1>1. PICK M \in Nat, N \in Nat : M = Len(ev) /\ N = Len(r) BY LenInNat
<1>2. /\ new \in Seq(Words) /\ Len(new) = M + 1 + N /\ new[M + 1] = b
      /\ \A k \in 1 .. M : new[k] = ev[k]
      /\ \A k \in 1 .. N : new[M + 1 + k] = r[k]
  BY <1>0, <1>1, Joined
<1>3. /\ \A k \in 1 .. N : r[k] \in {"part1", "part2"}
      /\ r = CS!ReportEvents => N = 2 /\ r[1] = "part1" /\ r[2] = "part2"
  <2>1. r \in {<<>>, CS!ReportEvents} BY DEF ReportAdded
  <2>2. CASE r = <<>>
    <3>1. Len(<<>>) = 0 /\ N = 0 BY <1>1, <2>2
    <3>2. r # CS!ReportEvents BY <1>1, <2>2, <3>1, ReportParts
    <3>3. QED BY <3>1, <3>2
  <2>3. CASE r = CS!ReportEvents BY <1>1, <2>3, ReportParts
  <2>4. QED BY <2>1, <2>2, <2>3
<1>4. \A k \in (M + 2) .. (M + 1 + N) : new[k] \in {"part1", "part2"}
  <2>1. SUFFICES ASSUME NEW k \in (M + 2) .. (M + 1 + N) PROVE new[k] \in {"part1", "part2"} OBVIOUS
  <2>2. k - (M + 1) \in 1 .. N /\ M + 1 + (k - (M + 1)) = k BY <1>1
  <2>3. QED BY <1>2, <1>3, <2>2
<1>5. ASSUME NEW i \in 1 .. (M + 1), Pend(new, i) PROVE Pend(ev, i)
  <2>1. PICK h \in 1 .. (i - 1) : new[h] \in {"hand", "long"} /\ \A k \in (h + 1) .. (i - 1) : new[k] \notin {"done", "failed"}
    BY <1>5 DEF Pend
  <2>2. h \in 1 .. M /\ \A k \in (h + 1) .. (i - 1) : k \in 1 .. M BY <1>1, <2>1
  <2>3. QED BY <1>2, <2>1, <2>2 DEF Pend
<1>6. ASSUME NEW i \in 1 .. (M + 1 + N), new[i] = "done", Pend(new, i) PROVE Told(new, i)
  <2>1. CASE i \in 1 .. M
    <3>1. ev[i] = "done" /\ Pend(ev, i) BY <1>1, <1>2, <1>5, <1>6, <2>1
    <3>2. i + 2 <= M /\ ev[i + 1] = "part1" /\ ev[i + 2] = "part2" BY <1>1, <2>1, <3>1 DEF ReportsTold, Told
    <3>3. i + 1 \in 1 .. M /\ i + 2 \in 1 .. M BY <1>1, <2>1, <3>2
    <3>4. QED BY <1>1, <1>2, <3>2, <3>3 DEF Told
  <2>2. CASE i = M + 1
    <3>1. b = "done" /\ Pend(ev, M + 1) BY <1>1, <1>2, <1>5, <1>6, <2>2
    <3>2. N = 2 /\ r[1] = "part1" /\ r[2] = "part2" BY <1>1, <1>3, <3>1 DEF ReportAdded
    <3>3. new[M + 2] = "part1" /\ new[M + 3] = "part2" /\ Len(new) = M + 3
      <4>1. new[M + 1 + 1] = r[1] /\ new[M + 1 + 2] = r[2] BY <1>2, <3>2
      <4>2. M + 1 + 1 = M + 2 /\ M + 1 + 2 = M + 3 /\ M + 1 + N = M + 3 BY <3>2
      <4>3. QED BY <1>2, <3>2, <4>1, <4>2
    <3>4. i + 1 = M + 2 /\ i + 2 = M + 3 BY <2>2
    <3>5. QED BY <3>3, <3>4 DEF Told
  <2>3. CASE i \in (M + 2) .. (M + 1 + N)
    <3>1. new[i] \in {"part1", "part2"} BY <1>4, <2>3
    <3>2. QED BY <1>6, <3>1
  <2>4. i \in 1 .. M \/ i = M + 1 \/ i \in (M + 2) .. (M + 1 + N) BY <1>1
  <2>5. QED BY <2>1, <2>2, <2>3, <2>4
<1>7. ASSUME NEW i, i = M + 2 + N, Pend(new, i), b \notin {"hand", "long"} PROVE Pend(ev, M + 1) /\ b \notin {"done", "failed"}
  <2>1. PICK h \in 1 .. (i - 1) : new[h] \in {"hand", "long"} /\ \A k \in (h + 1) .. (i - 1) : new[k] \notin {"done", "failed"}
    BY <1>7 DEF Pend
  <2>2. h \notin (M + 2) .. (M + 1 + N) BY <1>4, <2>1
  <2>3. h # M + 1 BY <1>2, <1>7, <2>1
  <2>4. h \in 1 .. M BY <1>1, <1>7, <2>1, <2>2, <2>3
  <2>5. M + 1 \in (h + 1) .. (i - 1) BY <1>1, <1>7, <2>4
  <2>6. b \notin {"done", "failed"} BY <1>2, <2>1, <2>5
  <2>7. ev[h] \in {"hand", "long"} /\ h \in 1 .. (M + 1 - 1) BY <1>2, <2>1, <2>4
  <2>8. \A k \in (h + 1) .. (M + 1 - 1) : ev[k] \notin {"done", "failed"}
    <3>1. SUFFICES ASSUME NEW k \in (h + 1) .. (M + 1 - 1) PROVE ev[k] \notin {"done", "failed"} OBVIOUS
    <3>2. k \in 1 .. M /\ k \in (h + 1) .. (i - 1) BY <1>1, <1>7, <2>4
    <3>3. QED BY <1>2, <2>1, <3>2
  <2>9. QED BY <2>6, <2>7, <2>8 DEF Pend
<1>8. Len(new) + 1 = M + 2 + N BY <1>1, <1>2
<1>9. ReportsTold(new) /\ StillPends(new, ev, b) BY <1>1, <1>2, <1>6, <1>7, <1>8 DEF ReportsTold, StillPends
<1>10. QED BY <1>0, <1>9

\* One step of a fold that adds every report.
LEMMA AccStep ==
  ASSUME CS!SnapshotAssumption, NEW acc, AccTrue(acc), NEW b \in Words, NEW c \in Words,
         c = b \/ (b = "long" /\ c = "clipped"),
         NEW acc2, acc2 = [pending |-> CS!PendingNow(acc, b), events |-> CS!Keep(acc.events \o <<c>> \o CS!Promote(acc, b))]
  PROVE  AccTrue(acc2)
<1>1. PICK ev \in Seq(Words) : ev = acc.events BY DEF AccTrue
<1>2. PICK r \in Seq(Words) : r = CS!Promote(acc, b) /\ r \in {<<>>, CS!ReportEvents}
  <2>1. "part1" \in Words /\ "part2" \in Words BY DEF Words, CS!Blocks
  <2>2. CS!ReportEvents \in Seq(Words) /\ <<>> \in Seq(Words) BY <2>1 DEF CS!ReportEvents
  <2>3. QED BY <2>2 DEF CS!Promote
<1>3. PICK new : new = ev \o <<c>> \o r OBVIOUS
<1>4. ReportsTold(ev) /\ (Pend(ev, Len(ev) + 1) => acc.pending) BY <1>1 DEF AccTrue
<1>5. c = "done" /\ Pend(ev, Len(ev) + 1) => r = CS!ReportEvents BY <1>2, <1>4 DEF CS!Promote
<1>c. ReportAdded(ev, c, r) BY <1>2, <1>5 DEF ReportAdded
<1>d. ReportsTold(new) /\ StillPends(new, ev, c) BY <1>3, <1>4, <1>c, EventTold
<1>6. /\ ReportsTold(new)
      /\ Pend(new, Len(new) + 1) => c \in {"hand", "long"} \/ (Pend(ev, Len(ev) + 1) /\ c \notin {"done", "failed"})
  BY <1>d DEF StillPends
<1>7. new \in Seq(Words) BY <1>3, Joined
<1>a. \E d \in Nat : /\ CS!Keep(new) \in Seq(Words) /\ Len(CS!Keep(new)) = Len(new) - d /\ Len(CS!Keep(new)) <= MaxSnapshot
                     /\ \A k \in 1 .. Len(CS!Keep(new)) : CS!Keep(new)[k] = new[k + d]
                     /\ Len(new) <= MaxSnapshot => CS!Keep(new) = new
  BY <1>7, KeepEnd
<1>b. PICK end : end = CS!Keep(new) OBVIOUS
<1>8. PICK d \in Nat : /\ end \in Seq(Words) /\ Len(end) = Len(new) - d /\ Len(end) <= MaxSnapshot
                      /\ \A k \in 1 .. Len(end) : end[k] = new[k + d]
  BY <1>a, <1>b
<1>9. ReportsTold(end) /\ (Pend(end, Len(end) + 1) => Pend(new, Len(new) + 1)) BY <1>6, <1>7, <1>8, EndTold
<1>10. acc2.events = end /\ acc2.pending = CS!PendingNow(acc, b) BY <1>1, <1>2, <1>3, <1>b
<1>11. acc.pending \in BOOLEAN BY DEF AccTrue
<1>12. CS!PendingNow(acc, b) \in BOOLEAN BY <1>11 DEF CS!PendingNow
<1>13. Pend(new, Len(new) + 1) => CS!PendingNow(acc, b)
  <2>1. SUFFICES ASSUME Pend(new, Len(new) + 1) PROVE CS!PendingNow(acc, b) OBVIOUS
  <2>2. CASE c \in {"hand", "long"} BY <2>2 DEF CS!PendingNow
  <2>3. CASE Pend(ev, Len(ev) + 1) /\ c \notin {"done", "failed"} BY <1>4, <2>3 DEF CS!PendingNow
  <2>4. QED BY <1>6, <2>1, <2>2, <2>3
<1>14. QED BY <1>8, <1>9, <1>10, <1>12, <1>13 DEF AccTrue

LEMMA NothingTrue == CS!SnapshotAssumption => AccTrue(CS!Nothing)
<1>1. SUFFICES ASSUME CS!SnapshotAssumption PROVE AccTrue(CS!Nothing) OBVIOUS
<1>2. CS!Nothing.events = <<>> /\ CS!Nothing.pending = FALSE BY DEF CS!Nothing
<1>3. ReportsTold(<<>>) BY DEF ReportsTold
<1>4. ~Pend(<<>>, 1) BY DEF Pend
<1>a. PICK e : e = <<>> OBVIOUS
<1>5. e = <<>> /\ e \in Seq(Words) /\ Len(e) = 0 BY <1>a
<1>6. ReportsTold(e) /\ ~Pend(e, Len(e) + 1) /\ Len(e) <= MaxSnapshot BY <1>1, <1>3, <1>4, <1>5 DEF CS!SnapshotAssumption
<1>7. CS!Nothing.events = e /\ CS!Nothing.pending \in BOOLEAN BY <1>2, <1>5
<1>8. QED BY <1>5, <1>6, <1>7 DEF AccTrue

\* Whatever its log, a parsed snapshot holds the report of every confirmed
\* handback that it shows.
LEMMA ParsedTold ==
  ASSUME CS!SnapshotAssumption, NEW blocks \in Seq(CS!Blocks)
  PROVE  CS!Parse(blocks) \in Seq(Words) /\ Len(CS!Parse(blocks)) <= MaxSnapshot /\ ReportsTold(CS!Parse(blocks))
<1>1. PICK N \in Nat : N = Len(blocks) BY LenInNat
<1>2. PICK f : /\ f[0] = CS!Nothing /\ f[N].events = CS!Parse(blocks)
               /\ \A n \in 1 .. N : f[n] = CS!ParseBlock(f[n - 1], blocks[n])
  BY <1>1, ParseRun
<1> DEFINE T == {n \in Nat : n <= N => AccTrue(f[n])}
<1>3. 0 \in T BY <1>2, NothingTrue
<1>4. ASSUME NEW n \in Nat, n \in T PROVE n + 1 \in T
  <2>1. SUFFICES ASSUME n + 1 <= N PROVE AccTrue(f[n + 1]) OBVIOUS
  <2>2. AccTrue(f[n]) /\ n + 1 \in 1 .. N /\ n + 1 - 1 = n BY <1>1, <1>4, <2>1
  <2>3. PICK acc : acc = f[n] OBVIOUS
  <2>b. PICK b \in CS!Blocks : b = blocks[n + 1] BY <1>1, <2>2
  <2>4. f[n + 1] = CS!ParseBlock(acc, b) BY <1>2, <2>2, <2>3, <2>b
  <2>5. b \in Words /\ CS!Bounded(b) \in Words /\ (CS!Bounded(b) = b \/ (b = "long" /\ CS!Bounded(b) = "clipped"))
    BY DEF Words, CS!Bounded
  <2>6. f[n + 1] = [pending |-> CS!PendingNow(acc, b), events |-> CS!Keep(acc.events \o <<CS!Bounded(b)>> \o CS!Promote(acc, b))]
    BY <2>4 DEF CS!ParseBlock
  <2>7. QED BY <2>2, <2>3, <2>5, <2>6, AccStep
<1> HIDE DEF T
<1>5. N \in T BY <1>3, <1>4, NatSetInduction
<1>6. AccTrue(f[N]) BY <1>5 DEF T
<1>7. QED BY <1>2, <1>6 DEF AccTrue

\* A snapshot of an older version holds no part of a report but what it saw.
LEMMA OlderPlain ==
  ASSUME CS!SnapshotAssumption, NEW blocks \in Seq(CS!Blocks)
  PROVE  /\ CS!Older(blocks) \in Seq(Words) /\ Len(CS!Older(blocks)) <= MaxSnapshot
         /\ \A k \in 1 .. Len(CS!Older(blocks)) : CS!Older(blocks)[k] # "part2"
         /\ Len(blocks) <= MaxSnapshot =>
              Len(CS!Older(blocks)) = Len(blocks) /\ \A k \in 1 .. Len(blocks) : CS!Older(blocks)[k] = CS!Bounded(blocks[k])
<1>1. PICK N \in Nat : N = Len(blocks) BY LenInNat
<1>2. PICK f : /\ f[0] = <<>> /\ f[N] = CS!Older(blocks)
               /\ \A n \in 1 .. N : f[n] = CS!OlderBlock(f[n - 1], blocks[n])
  BY <1>1, OlderRun
<1> DEFINE P(ev, n) == /\ ev \in Seq(Words) /\ Len(ev) <= MaxSnapshot
                       /\ \A k \in 1 .. Len(ev) : ev[k] # "part2"
                       /\ N <= MaxSnapshot => Len(ev) = n /\ \A k \in 1 .. n : ev[k] = CS!Bounded(blocks[k])
           T == {n \in Nat : n <= N => P(f[n], n)}
<1>3. 0 \in T
  <2>1. Len(<<>>) = 0 /\ <<>> \in Seq(Words) OBVIOUS
  <2>2. P(<<>>, 0) BY <2>1 DEF CS!SnapshotAssumption
  <2>3. QED BY <1>2, <2>2
<1>4. ASSUME NEW n \in Nat, n \in T PROVE n + 1 \in T
  <2>1. SUFFICES ASSUME n + 1 <= N PROVE P(f[n + 1], n + 1) OBVIOUS
  <2>2. P(f[n], n) /\ n + 1 \in 1 .. N /\ n + 1 - 1 = n BY <1>1, <1>4, <2>1
  <2>3. PICK ev \in Seq(Words), b \in CS!Blocks : ev = f[n] /\ b = blocks[n + 1] BY <1>1, <2>2
  <2>4. PICK c \in Words : c = CS!Bounded(b) /\ c # "part2" BY DEF Words, CS!Bounded, CS!Blocks
  <2>5. PICK M \in Nat : M = Len(ev) BY LenInNat
  <2>6. PICK new : new = ev \o <<c>> \o <<>> OBVIOUS
  <2>7. <<>> \in Seq(Words) /\ Len(<<>>) = 0 /\ M + 1 + 0 = M + 1 BY <2>5
  <2>8. new \in Seq(Words) /\ Len(new) = M + 1 /\ new[M + 1] = c /\ \A k \in 1 .. M : new[k] = ev[k]
    BY <2>5, <2>6, <2>7, Joined
  <2>9. ev \o <<c>> = new
    <3>1. ev \o <<c>> \in Seq(Words) OBVIOUS
    <3>2. QED BY <2>6, <3>1
  <2>10. f[n + 1] = CS!Keep(new) 
    <3>1. f[n + 1] = CS!OlderBlock(ev, b) BY <1>2, <2>2, <2>3
    <3>2. QED BY <2>4, <2>9, <3>1 DEF CS!OlderBlock
  <2>a. PICK end : end = CS!Keep(new) OBVIOUS
  <2>b. \E d \in Nat : /\ CS!Keep(new) \in Seq(Words) /\ Len(CS!Keep(new)) = Len(new) - d /\ Len(CS!Keep(new)) <= MaxSnapshot
                       /\ \A k \in 1 .. Len(CS!Keep(new)) : CS!Keep(new)[k] = new[k + d]
                       /\ Len(new) <= MaxSnapshot => CS!Keep(new) = new
    BY <2>8, KeepEnd
  <2>11. PICK d \in Nat : /\ end \in Seq(Words) /\ Len(end) = M + 1 - d /\ Len(end) <= MaxSnapshot
                          /\ \A k \in 1 .. Len(end) : end[k] = new[k + d]
                          /\ Len(new) <= MaxSnapshot => end = new
    BY <2>8, <2>a, <2>b
  <2>12. \A k \in 1 .. (M + 1) : new[k] # "part2" BY <2>2, <2>3, <2>4, <2>5, <2>8
  <2>13. \A k \in 1 .. Len(end) : end[k] # "part2"
    <3>1. PICK L \in Nat : L = Len(end) BY LenInNat
    <3>2. \A k \in 1 .. L : k + d \in 1 .. (M + 1) BY <2>5, <2>11, <3>1
    <3>3. QED BY <2>11, <2>12, <3>1, <3>2
  <2>14. ASSUME N <= MaxSnapshot PROVE Len(end) = n + 1 /\ \A k \in 1 .. (n + 1) : end[k] = CS!Bounded(blocks[k])
    <3>1. M = n /\ \A k \in 1 .. n : ev[k] = CS!Bounded(blocks[k]) BY <2>2, <2>3, <2>5, <2>14
    <3>2. end = new BY <2>1, <2>8, <2>11, <2>14, <3>1, <1>1 DEF CS!SnapshotAssumption
    <3>3. QED BY <2>3, <2>4, <2>8, <3>1, <3>2
  <2>15. QED BY <2>10, <2>a, <2>11, <2>13, <2>14
<1> HIDE DEF T
<1>5. N \in T BY <1>3, <1>4, NatSetInduction
<1>6. P(f[N], N) BY <1>5 DEF T
<1>7. QED BY <1>1, <1>2, <1>6

\* A snapshot that holds every report is left as it is.
LEMMA NormalizeKeeps ==
  ASSUME CS!SnapshotAssumption, NEW ev \in Seq(Words), Len(ev) <= MaxSnapshot, ReportsTold(ev)
  PROVE  CS!Normalize(ev) = ev
<1>1. PICK N \in Nat : N = Len(ev) /\ N <= MaxSnapshot BY LenInNat
<1>2. PICK f : /\ f[0] = CS!Nothing /\ f[N].events = CS!Normalize(ev)
               /\ \A n \in 1 .. N : f[n] = CS!NormalizeBlock(ev, f[n - 1], n)
  BY <1>1, NormalizeRun
<1> DEFINE T == {n \in Nat : n <= N => f[n].events = SubSeq(ev, 1, n) /\ (f[n].pending => Pend(ev, n + 1))}
<1>3. 0 \in T
  <2>1. SubSeq(ev, 1, 0) = <<>> OBVIOUS
  <2>2. f[0].events = <<>> /\ f[0].pending = FALSE BY <1>2 DEF CS!Nothing
  <2>3. f[0].events = SubSeq(ev, 1, 0) /\ (f[0].pending => Pend(ev, 0 + 1)) BY <2>1, <2>2
  <2>4. QED BY <2>3
<1>4. ASSUME NEW n \in Nat, n \in T PROVE n + 1 \in T
  <2>1. SUFFICES ASSUME n + 1 <= N
                 PROVE  f[n + 1].events = SubSeq(ev, 1, n + 1) /\ (f[n + 1].pending => Pend(ev, n + 2))
    OBVIOUS
  <2>2. f[n].events = SubSeq(ev, 1, n) /\ (f[n].pending => Pend(ev, n + 1)) /\ n + 1 \in 1 .. N /\ n + 1 - 1 = n
    BY <1>1, <1>4, <2>1
  <2>3. PICK acc, b : acc = f[n] /\ b = ev[n + 1] OBVIOUS
  <2>4. f[n + 1] = CS!NormalizeBlock(ev, acc, n + 1) BY <1>2, <2>2, <2>3
  <2>5. PICK r : r = IF CS!AlreadyPresent(SubSeq(ev, n + 1 + 1, Len(ev))) THEN <<>> ELSE CS!Promote(acc, b) OBVIOUS
  <2>6. r = <<>>
    <3>1. SUFFICES ASSUME b = "done", acc.pending PROVE CS!AlreadyPresent(SubSeq(ev, n + 1 + 1, Len(ev))) BY <2>5 DEF CS!Promote
    <3>2. Told(ev, n + 1) BY <1>1, <2>2, <2>3, <3>1 DEF ReportsTold
    <3>3. n + 3 <= N /\ ev[n + 2] = "part1" /\ ev[n + 3] = "part2" BY <1>1, <3>2 DEF Told
    <3>4. PICK s : s = SubSeq(ev, n + 2, N) OBVIOUS
    <3>5. s \in Seq(Words) /\ Len(s) = N - n - 1 /\ \A k \in 1 .. (N - n - 1) : s[k] = ev[n + 1 + k] BY <1>1, <2>1, <3>4
    <3>6. s[1] = "part1" /\ s[2] = "part2" /\ Len(s) >= 2
      <4>1. 1 \in 1 .. (N - n - 1) /\ 2 \in 1 .. (N - n - 1) /\ n + 1 + 1 = n + 2 /\ n + 1 + 2 = n + 3 BY <3>3
      <4>2. QED BY <3>3, <3>5, <4>1
    <3>7. CS!IsPrefix(CS!ReportEvents, s) BY <3>5, <3>6, ReportFirst
    <3>8. n + 1 + 1 = n + 2 OBVIOUS
    <3>9. QED BY <1>1, <3>4, <3>7, <3>8 DEF CS!AlreadyPresent, CS!PresentExactly
  <2>7. f[n + 1] = [pending |-> CS!PendingNow(acc, b), events |-> CS!Keep(SubSeq(ev, 1, n) \o <<b>> \o <<>>)]
    BY <2>2, <2>3, <2>4, <2>5, <2>6 DEF CS!NormalizeBlock
  <2>8. SubSeq(ev, 1, n) \o <<b>> \o <<>> = SubSeq(ev, 1, n + 1)
    <3>1. PICK e : e = SubSeq(ev, 1, n) OBVIOUS
    <3>2. e \in Seq(Words) /\ Len(e) = n /\ \A k \in 1 .. n : e[k] = ev[k] BY <1>1, <2>1, <3>1
    <3>3. PICK g : g = SubSeq(ev, 1, n + 1) OBVIOUS
    <3>4. g \in Seq(Words) /\ Len(g) = n + 1 /\ \A k \in 1 .. (n + 1) : g[k] = ev[k] BY <1>1, <2>1, <3>3
    <3>5. b \in Words BY <1>1, <2>2, <2>3
    <3>6. <<>> \in Seq(Words) /\ Len(<<>>) = 0 /\ n + 1 + 0 = n + 1 OBVIOUS
    <3>7. PICK h : h = e \o <<b>> \o <<>> OBVIOUS
    <3>8. h \in Seq(Words) /\ Len(h) = n + 1 /\ h[n + 1] = b /\ \A k \in 1 .. n : h[k] = e[k] BY <3>2, <3>5, <3>6, <3>7, Joined
    <3>9. \A k \in 1 .. (n + 1) : h[k] = g[k] BY <2>3, <3>2, <3>4, <3>8
    <3>10. h = g BY <3>4, <3>8, <3>9
    <3>11. QED BY <3>1, <3>3, <3>7, <3>10
  <2>9. CS!Keep(SubSeq(ev, 1, n + 1)) = SubSeq(ev, 1, n + 1)
    <3>1. SubSeq(ev, 1, n + 1) \in Seq(Words) /\ Len(SubSeq(ev, 1, n + 1)) = n + 1 BY <1>1, <2>1
    <3>2. Len(SubSeq(ev, 1, n + 1)) <= MaxSnapshot BY <1>1, <2>1, <3>1 DEF CS!SnapshotAssumption
    <3>3. QED BY <3>1, <3>2, KeepEnd
  <2>10. ASSUME CS!PendingNow(acc, b) PROVE Pend(ev, n + 2)
    <3>1. CASE b \in {"hand", "long"}
      <4>1. n + 1 \in 1 .. (n + 2 - 1) /\ \A k \in (n + 1 + 1) .. (n + 2 - 1) : FALSE OBVIOUS
      <4>2. QED BY <2>3, <3>1, <4>1 DEF Pend
    <3>2. CASE b \notin {"hand", "long"}
      <4>1. b \notin {"done", "failed"} /\ acc.pending BY <2>10, <3>2 DEF CS!PendingNow
      <4>2. Pend(ev, n + 1) BY <2>2, <2>3, <4>1
      <4>3. PICK h \in 1 .. (n + 1 - 1) : ev[h] \in {"hand", "long"} /\ \A k \in (h + 1) .. (n + 1 - 1) : ev[k] \notin {"done", "failed"}
        BY <4>2 DEF Pend
      <4>4. h \in 1 .. (n + 2 - 1) /\ \A k \in (h + 1) .. (n + 2 - 1) : k \in (h + 1) .. (n + 1 - 1) \/ k = n + 1 OBVIOUS
      <4>5. \A k \in (h + 1) .. (n + 2 - 1) : ev[k] \notin {"done", "failed"} BY <2>3, <4>1, <4>3, <4>4
      <4>6. QED BY <4>3, <4>4, <4>5 DEF Pend
    <3>3. QED BY <3>1, <3>2
  <2>11. f[n + 1].events = SubSeq(ev, 1, n + 1)
    <3>1. PICK e : e = SubSeq(ev, 1, n) \o <<b>> \o <<>> OBVIOUS
    <3>2. f[n + 1] = [pending |-> CS!PendingNow(acc, b), events |-> CS!Keep(e)] BY <2>7, <3>1, Zenon
    <3>3. CS!Keep(e) = SubSeq(ev, 1, n + 1) BY <2>8, <2>9, <3>1, Zenon
    <3>4. QED BY <3>2, <3>3
  <2>12. f[n + 1].pending = CS!PendingNow(acc, b) BY <2>7
  <2>13. QED BY <2>10, <2>11, <2>12
<1> HIDE DEF T
<1>5. N \in T BY <1>3, <1>4, NatSetInduction
<1>6. f[N].events = SubSeq(ev, 1, N) BY <1>5 DEF T
<1>7. SubSeq(ev, 1, N) = ev BY <1>1
<1>8. QED BY <1>2, <1>6, <1>7

\* Without a second part that was there already, no report is taken for told.
LEMMA NothingPresent ==
  ASSUME NEW ev \in Seq(Words), \A k \in 1 .. Len(ev) : ev[k] # "part2", NEW n \in 1 .. Len(ev)
  PROVE  ~CS!AlreadyPresent(SubSeq(ev, n + 1, Len(ev)))
<1>1. PICK N \in Nat : N = Len(ev) BY LenInNat
<1>2. PICK s : s = SubSeq(ev, n + 1, N) OBVIOUS
<1>3. s \in Seq(Words) /\ Len(s) = N - n /\ \A k \in 1 .. (N - n) : s[k] = ev[n + k] BY <1>1, <1>2
<1>4. SUFFICES ASSUME CS!IsPrefix(CS!ReportEvents, s) PROVE FALSE BY <1>1, <1>2 DEF CS!AlreadyPresent, CS!PresentExactly
<1>5. Len(s) >= 2 /\ s[2] = "part2" BY <1>3, <1>4, ReportFirst
<1>6. 2 \in 1 .. (N - n) /\ n + 2 \in 1 .. N BY <1>1, <1>3, <1>5
<1>7. QED BY <1>1, <1>3, <1>5, <1>6

\* Then normalizing is a fold that adds every report.
LEMMA NormalizeAdds ==
  ASSUME NEW ev \in Seq(Words), \A k \in 1 .. Len(ev) : ev[k] # "part2", NEW n \in 1 .. Len(ev), NEW acc
  PROVE  CS!NormalizeBlock(ev, acc, n) =
           [pending |-> CS!PendingNow(acc, ev[n]), events |-> CS!Keep(acc.events \o <<ev[n]>> \o CS!Promote(acc, ev[n]))]
<1>1. ~CS!AlreadyPresent(SubSeq(ev, n + 1, Len(ev))) BY NothingPresent
<1>2. QED BY <1>1 DEF CS!NormalizeBlock

LEMMA NormalizedTold ==
  ASSUME CS!SnapshotAssumption, NEW ev \in Seq(Words), \A k \in 1 .. Len(ev) : ev[k] # "part2"
  PROVE  CS!Normalize(ev) \in Seq(Words) /\ Len(CS!Normalize(ev)) <= MaxSnapshot /\ ReportsTold(CS!Normalize(ev))
<1>1. PICK N \in Nat : N = Len(ev) BY LenInNat
<1>2. PICK f : /\ f[0] = CS!Nothing /\ f[N].events = CS!Normalize(ev)
               /\ \A n \in 1 .. N : f[n] = CS!NormalizeBlock(ev, f[n - 1], n)
  BY <1>1, NormalizeRun
<1> DEFINE T == {n \in Nat : n <= N => AccTrue(f[n])}
<1>3. 0 \in T BY <1>2, NothingTrue
<1>4. ASSUME NEW n \in Nat, n \in T PROVE n + 1 \in T
  <2>1. SUFFICES ASSUME n + 1 <= N PROVE AccTrue(f[n + 1]) OBVIOUS
  <2>2. AccTrue(f[n]) /\ n + 1 \in 1 .. N /\ n + 1 - 1 = n BY <1>1, <1>4, <2>1
  <2>3. PICK acc : acc = f[n] OBVIOUS
  <2>4. PICK b \in Words : b = ev[n + 1] BY <1>1, <2>2
  <2>5. f[n + 1] = CS!NormalizeBlock(ev, acc, n + 1) BY <1>2, <2>2, <2>3
  <2>6. f[n + 1] = [pending |-> CS!PendingNow(acc, b), events |-> CS!Keep(acc.events \o <<b>> \o CS!Promote(acc, b))]
    BY <1>1, <2>2, <2>4, <2>5, NormalizeAdds
  <2>7. QED BY <2>2, <2>3, <2>6, AccStep
<1> HIDE DEF T
<1>5. N \in T BY <1>3, <1>4, NatSetInduction
<1>6. AccTrue(f[N]) BY <1>5 DEF T
<1>7. QED BY <1>2, <1>6 DEF AccTrue

Shows(e) == \E n \in Nat : n >= 1 /\ n + 2 <= Len(e) /\ e[n] = "done" /\ e[n + 1] = "part1" /\ e[n + 2] = "part2"
ReportAfter(acc, n, i, j) ==
  /\ acc.pending \in BOOLEAN /\ acc.events \in Seq(Words)
  /\ Len(acc.events) + (IF acc.pending THEN 1 ELSE 0) <= 2 * n
  /\ (i <= n /\ n < j => acc.pending)
  /\ (j <= n => Shows(acc.events))

\* The report of a handback whose result follows, when the window holds all.
LEMMA ReportShown ==
  ASSUME CS!SnapshotAssumption, NEW ev \in Seq(Words), \A k \in 1 .. Len(ev) : ev[k] # "part2", 2 * Len(ev) <= MaxSnapshot,
         NEW i \in 1 .. Len(ev), NEW j \in 1 .. Len(ev), i < j, ev[i] = "hand", ev[j] = "done",
         \A k \in (i + 1) .. (j - 1) : ev[k] \notin {"done", "failed"}
  PROVE  \E n \in 1 .. (Len(CS!Normalize(ev)) - 2) : SubSeq(CS!Normalize(ev), n, n + 2) = <<"done">> \o CS!ReportEvents
<1>1. PICK N \in Nat : N = Len(ev) BY LenInNat
<1>2. PICK f : /\ f[0] = CS!Nothing /\ f[N].events = CS!Normalize(ev)
               /\ \A n \in 1 .. N : f[n] = CS!NormalizeBlock(ev, f[n - 1], n)
  BY <1>1, NormalizeRun
<1> DEFINE T == {n \in Nat : n <= N => ReportAfter(f[n], n, i, j)}
<1>3. 0 \in T
  <2>1. f[0].events = <<>> /\ f[0].pending = FALSE BY <1>2 DEF CS!Nothing
  <2>2. <<>> \in Seq(Words) /\ Len(<<>>) = 0 OBVIOUS
  <2>3. ~(i <= 0) /\ ~(j <= 0) BY <1>1
  <2>4. PICK acc, e : acc = f[0] /\ e = acc.events OBVIOUS
  <2>a. /\ e \in Seq(Words) /\ Len(e) = 0 /\ acc.pending = FALSE /\ 0 + 0 <= 2 * 0
        /\ (IF acc.pending THEN 1 ELSE 0) = 0
    BY <2>1, <2>2, <2>4
  <2>b. ReportAfter(f[0], 0, i, j) BY <2>3, <2>4, <2>a DEF ReportAfter
  <2>5. QED BY <2>b
<1>4. ASSUME NEW n \in Nat, n \in T PROVE n + 1 \in T
  <2>1. SUFFICES ASSUME n + 1 <= N PROVE ReportAfter(f[n + 1], n + 1, i, j) OBVIOUS
  <2>2. ReportAfter(f[n], n, i, j) /\ n + 1 \in 1 .. N /\ n + 1 - 1 = n BY <1>1, <1>4, <2>1
  <2>3. PICK acc : acc = f[n] /\ ReportAfter(acc, n, i, j) BY <2>2
  <2>4. PICK b \in Words : b = ev[n + 1] BY <1>1, <2>2
  <2>5. PICK e \in Seq(Words) : e = acc.events BY <2>3 DEF ReportAfter
  <2>6. PICK M \in Nat : M = Len(e) BY LenInNat
  <2>a. PICK r : r = CS!Promote(acc, b) OBVIOUS
  <2>b. r \in Seq(Words) /\ Len(r) = IF b = "done" /\ acc.pending THEN 2 ELSE 0
    <3>1. CASE b = "done" /\ acc.pending
      <4>1. r = CS!ReportEvents BY <2>a, <3>1 DEF CS!Promote
      <4>2. QED BY <3>1, <4>1, ReportParts
    <3>2. CASE ~(b = "done" /\ acc.pending)
      <4>1. r = <<>> BY <2>a, <3>2 DEF CS!Promote
      <4>2. <<>> \in Seq(Words) /\ Len(<<>>) = 0 OBVIOUS
      <4>3. QED BY <3>2, <4>1, <4>2
    <3>3. QED BY <3>1, <3>2
  <2>c. PICK R \in Nat : R = Len(r) BY <2>b, LenInNat
  <2>7. r \in Seq(Words) /\ r = CS!Promote(acc, b) /\ R = Len(r) /\ R = IF b = "done" /\ acc.pending THEN 2 ELSE 0
    BY <2>a, <2>b, <2>c
  <2>8. PICK new : new = e \o <<b>> \o r OBVIOUS
  <2>9. /\ new \in Seq(Words) /\ Len(new) = M + 1 + R /\ new[M + 1] = b
        /\ \A k \in 1 .. M : new[k] = e[k]
        /\ \A k \in 1 .. R : new[M + 1 + k] = r[k]
    <3>1. r \in Seq(Words) BY <2>b
    <3>2. /\ new \in Seq(Words) /\ Len(new) = Len(e) + 1 + Len(r)
          /\ \A k \in 1 .. Len(e) : new[k] = e[k]
          /\ new[Len(e) + 1] = b
          /\ \A k \in 1 .. Len(r) : new[Len(e) + 1 + k] = r[k]
      BY <2>8, <3>1, Joined
    <3>3. QED BY <2>6, <2>c, <3>2
  <2>10. PICK p \in BOOLEAN : p = acc.pending BY <2>3 DEF ReportAfter
  <2>11. M + (IF p THEN 1 ELSE 0) <= 2 * n BY <2>3, <2>5, <2>6, <2>10 DEF ReportAfter
  <2>12. Len(new) <= MaxSnapshot
    <3>1. M + 1 + R <= 2 * (n + 1) BY <2>7, <2>10, <2>11
    <3>2. 2 * (n + 1) <= MaxSnapshot BY <1>1, <2>1 DEF CS!SnapshotAssumption
    <3>3. QED BY <2>6, <2>7, <2>9, <3>1, <3>2 DEF CS!SnapshotAssumption
  <2>13. CS!Keep(new) = new BY <2>9, <2>12, KeepEnd
  <2>14. f[n + 1] = [pending |-> CS!PendingNow(acc, b), events |-> new]
    <3>1. f[n + 1] = CS!NormalizeBlock(ev, acc, n + 1) BY <1>2, <2>2, <2>3
    <3>2. f[n + 1] = [pending |-> CS!PendingNow(acc, b), events |-> CS!Keep(acc.events \o <<b>> \o CS!Promote(acc, b))]
      BY <1>1, <2>2, <2>4, <3>1, NormalizeAdds
    <3>3. QED BY <2>5, <2>7, <2>8, <2>13, <3>2, Zenon
  <2>15. PICK q \in BOOLEAN : q = CS!PendingNow(acc, b) BY <2>10 DEF CS!PendingNow
  <2>16. /\ b = "done" => ~q
         /\ q => p \/ b \in {"hand", "long"}
         /\ b \in {"hand", "long"} => q
         /\ p /\ b \notin {"done", "failed"} => q
    BY <2>10, <2>15 DEF CS!PendingNow
  <2>17. M + 1 + R + (IF q THEN 1 ELSE 0) <= 2 * (n + 1)
    <3>1. CASE b = "done" BY <2>7, <2>10, <2>11, <2>16, <3>1
    <3>2. CASE b # "done" BY <2>7, <2>10, <2>11, <2>16, <3>2
    <3>3. QED BY <3>1, <3>2
  <2>18. ASSUME i <= n + 1, n + 1 < j PROVE q
    <3>1. CASE i = n + 1 BY <2>4, <2>16, <3>1
    <3>2. CASE i # n + 1
      <4>1. i <= n /\ n < j /\ n + 1 \in (i + 1) .. (j - 1) BY <1>1, <2>18, <3>2
      <4>2. p /\ b \notin {"done", "failed"} BY <2>3, <2>4, <2>10, <4>1 DEF ReportAfter
      <4>3. QED BY <2>16, <4>2
    <3>3. QED BY <3>1, <3>2
  <2>19. ASSUME j <= n + 1 PROVE Shows(new)
    <3>1. CASE j = n + 1
      <4>1. i <= n /\ n < j BY <1>1, <3>1
      <4>2. p /\ b = "done" BY <2>3, <2>4, <2>10, <3>1, <4>1 DEF ReportAfter
      <4>3. R = 2 /\ r = CS!ReportEvents BY <2>7, <2>10, <4>2 DEF CS!Promote
      <4>4. new[M + 1 + 1] = "part1" /\ new[M + 1 + 2] = "part2" /\ new[M + 1] = "done" BY <2>9, <4>2, <4>3, ReportParts
      <4>5. M + 1 + 2 <= Len(new) /\ M + 1 >= 1 /\ M + 1 \in Nat BY <2>6, <2>9, <4>3
      <4>6. QED BY <4>4, <4>5 DEF Shows
    <3>2. CASE j # n + 1
      <4>1. j <= n BY <1>1, <2>19, <3>2
      <4>2. PICK m \in Nat : m >= 1 /\ m + 2 <= M /\ e[m] = "done" /\ e[m + 1] = "part1" /\ e[m + 2] = "part2"
        BY <2>3, <2>5, <2>6, <4>1 DEF ReportAfter, Shows
      <4>3. m \in 1 .. M /\ m + 1 \in 1 .. M /\ m + 2 \in 1 .. M /\ m + 2 <= M + 1 + R BY <2>6, <2>7, <4>2
      <4>4. QED BY <2>9, <4>2, <4>3 DEF Shows
    <3>3. QED BY <3>1, <3>2
  <2>20. f[n + 1].events = new /\ f[n + 1].pending = q BY <2>14, <2>15
  <2>21. QED BY <2>9, <2>17, <2>18, <2>19, <2>20 DEF ReportAfter
<1> HIDE DEF T
<1>5. N \in T BY <1>3, <1>4, NatSetInduction
<1>6. ReportAfter(f[N], N, i, j) BY <1>5 DEF T
<1>7. PICK e \in Seq(Words) : e = CS!Normalize(ev) BY <1>2, <1>6 DEF ReportAfter
<1>8. j <= N BY <1>1
<1>9. PICK n \in Nat : n >= 1 /\ n + 2 <= Len(e) /\ e[n] = "done" /\ e[n + 1] = "part1" /\ e[n + 2] = "part2"
  BY <1>2, <1>6, <1>7, <1>8 DEF ReportAfter, Shows
<1>10. PICK x : x = SubSeq(e, n, n + 2) OBVIOUS
<1>11. PICK L \in Nat : L = Len(e) BY LenInNat
<1>12. n \in 1 .. (L - 2) /\ n + 1 \in 1 .. L /\ n + 2 \in 1 .. L BY <1>9, <1>11
<1>13. x \in Seq(Words) /\ Len(x) = 3 /\ x[1] = e[n] /\ x[2] = e[n + 1] /\ x[3] = e[n + 2] BY <1>9, <1>10, <1>11, <1>12
<1>14. PICK y : y = <<"done">> \o CS!ReportEvents OBVIOUS
<1>15. y \in Seq(Words) /\ Len(y) = 3 /\ y[1] = "done" /\ y[2] = "part1" /\ y[3] = "part2"
  <2>1. "done" \in Words BY DEF Words, CS!Blocks
  <2>2. QED BY <1>14, <2>1, ReportParts DEF CS!ReportEvents
<1>16. x = y
  <2>1. \A k \in 1 .. 3 : x[k] = y[k] BY <1>9, <1>13, <1>15
  <2>2. QED BY <1>13, <1>15, <2>1
<1>17. QED BY <1>7, <1>10, <1>11, <1>12, <1>14, <1>16

\* A snapshot settles, whatever the log.
LEMMA Settles ==
  ASSUME CS!SnapshotAssumption, x1 \in Seq(CS!Blocks)
  PROVE  CS!NormalizeSettles
<1>1. PICK p \in Seq(Words) : p = CS!Parse(x1) /\ Len(p) <= MaxSnapshot /\ ReportsTold(p) BY ParsedTold
<1>2. CS!Normalize(p) = p BY <1>1, NormalizeKeeps
<1>3. PICK o \in Seq(Words) : o = CS!Older(x1) /\ Len(o) <= MaxSnapshot /\ \A k \in 1 .. Len(o) : o[k] # "part2" BY OlderPlain
<1>4. PICK x \in Seq(Words) : x = CS!Normalize(o) /\ Len(x) <= MaxSnapshot /\ ReportsTold(x) BY <1>3, NormalizedTold
<1>5. CS!Normalize(x) = x BY <1>4, NormalizeKeeps
<1>6. ASSUME Len(x1) * 2 <= MaxSnapshot, NEW i \in DOMAIN x1, NEW j \in DOMAIN x1, i < j, x1[i] = "hand", x1[j] = "done",
             \A k \in (i + 1) .. (j - 1) : x1[k] \notin {"done", "failed", "hand", "long"}
      PROVE  \E n \in 1 .. (Len(CS!Normalize(CS!Older(x1))) - 2) : SubSeq(CS!Normalize(CS!Older(x1)), n, n + 2) = <<"done">> \o CS!ReportEvents
  <2>1. PICK N \in Nat : N = Len(x1) BY LenInNat
  <2>2. N <= MaxSnapshot /\ 2 * N <= MaxSnapshot BY <1>6, <2>1 DEF CS!SnapshotAssumption
  <2>3. Len(o) = N /\ \A k \in 1 .. N : o[k] = CS!Bounded(x1[k]) BY <1>3, <2>1, <2>2, OlderPlain
  <2>4. i \in 1 .. N /\ j \in 1 .. N BY <1>6, <2>1
  <2>5. o[i] = "hand" /\ o[j] = "done" BY <1>6, <2>3, <2>4 DEF CS!Bounded
  <2>6. \A k \in (i + 1) .. (j - 1) : o[k] \notin {"done", "failed"}
    <3>1. SUFFICES ASSUME NEW k \in (i + 1) .. (j - 1) PROVE o[k] \notin {"done", "failed"} OBVIOUS
    <3>2. k \in 1 .. N BY <2>1, <2>4
    <3>3. o[k] = CS!Bounded(x1[k]) /\ x1[k] \notin {"done", "failed"} BY <1>6, <2>3, <3>2
    <3>4. QED BY <3>3 DEF CS!Bounded
  <2>7. QED BY <1>3, <1>6, <2>2, <2>3, <2>4, <2>5, <2>6, ReportShown
<1>7. QED BY <1>1, <1>2, <1>3, <1>4, <1>5, <1>6 DEF CS!NormalizeSettles

LEMMA LogWritten == CS!SnapshotAssumption /\ x1 \in Seq(CS!Blocks) /\ [CS!Next]_x1 => (x1 \in Seq(CS!Blocks))'
BY DEF CS!Next

-----------------------------------------------------------------------------
(* Timeline: pages and polls of a conversation.                              *)

\* What a page is after each row.
PageRuns(from, N, f) ==
  f = [n \in 0 .. N |-> IF n = 0 THEN TL!NoRows ELSE TL!TakeRow(f[n - 1], from - n)]

LEMMA PagesExist ==
  ASSUME NEW from, NEW N \in Nat
  PROVE  \E f : PageRuns(from, N, f)
<1> DEFINE S == {n \in Nat : \E f : PageRuns(from, n, f)}
<1>1. 0 \in S
  <2>1. PICK f : f = [n \in 0 .. 0 |-> TL!NoRows] OBVIOUS
  <2>2. f = [n \in 0 .. 0 |-> IF n = 0 THEN TL!NoRows ELSE TL!TakeRow(f[n - 1], from - n)] BY <2>1
  <2>3. PageRuns(from, 0, f) BY <2>2 DEF PageRuns
  <2>4. QED BY <2>3
<1>2. ASSUME NEW n \in Nat, n \in S PROVE n + 1 \in S
  <2>1. PICK f : PageRuns(from, n, f) BY <1>2
  <2>2. PICK g : g = [m \in 0 .. (n + 1) |-> IF m = n + 1 THEN TL!TakeRow(f[n], from - (n + 1)) ELSE f[m]] OBVIOUS
  <2>3. \A m \in 0 .. (n + 1) : g[m] = IF m = 0 THEN TL!NoRows ELSE TL!TakeRow(g[m - 1], from - m)
    <3>1. SUFFICES ASSUME NEW m \in 0 .. (n + 1) PROVE g[m] = IF m = 0 THEN TL!NoRows ELSE TL!TakeRow(g[m - 1], from - m) OBVIOUS
    <3>2. CASE m = n + 1
      <4>1. m # 0 /\ m - 1 = n /\ n \in 0 .. (n + 1) /\ n # n + 1 BY <3>2
      <4>2. g[n] = f[n] BY <2>2, <4>1
      <4>3. QED BY <2>2, <3>2, <4>1, <4>2
    <3>3. CASE m # n + 1
      <4>1. m \in 0 .. n /\ m - 1 # n + 1 BY <3>3
      <4>2. g[m] = f[m] BY <2>2, <3>3
      <4>3. f[m] = IF m = 0 THEN TL!NoRows ELSE TL!TakeRow(f[m - 1], from - m) BY <2>1, <4>1 DEF PageRuns
      <4>4. m # 0 => m - 1 \in 0 .. (n + 1) /\ g[m - 1] = f[m - 1] BY <2>2, <4>1
      <4>5. QED BY <4>2, <4>3, <4>4
    <3>4. QED BY <3>2, <3>3
  <2>4. g = [m \in 0 .. (n + 1) |-> IF m = 0 THEN TL!NoRows ELSE TL!TakeRow(g[m - 1], from - m)] BY <2>2, <2>3
  <2>5. PageRuns(from, n + 1, g) BY <2>4 DEF PageRuns
  <2>6. QED BY <2>5
<1> HIDE DEF S
<1>3. Nat \subseteq S BY <1>1, <1>2, NatSetInduction
<1>4. QED BY <1>3 DEF S

LEMMA PageRun ==
  ASSUME NEW from \in Nat \ {0}
  PROVE  \E f : PageRuns(from, from - 1, f) /\ TL!Page(from) = f[from - 1]
<1> DEFINE taken[n \in 0 .. (from - 1)] == IF n = 0 THEN TL!NoRows ELSE TL!TakeRow(taken[n - 1], from - n)
<1>1. TL!Page(from) = taken[from - 1] BY DEF TL!Page
<1>2. taken = CHOOSE f : f = [n \in 0 .. (from - 1) |-> IF n = 0 THEN TL!NoRows ELSE TL!TakeRow(f[n - 1], from - n)] OBVIOUS
<1> HIDE DEF taken
<1>3. taken = CHOOSE f : PageRuns(from, from - 1, f) BY <1>2 DEF PageRuns
<1>4. from - 1 \in Nat OBVIOUS
<1>5. PageRuns(from, from - 1, taken) BY <1>3, <1>4, PagesExist
<1>6. QED BY <1>1, <1>5

\* A page, when so many rows below a place have been looked at: how far it is,
PageShape ==
  [events : Seq(TL!Events), rows : Nat, bytes : Nat, turns : Nat, oldest : Nat, more : BOOLEAN, split : BOOLEAN]
PageCounts(p, from, n) ==
  /\ p \in PageShape /\ p.rows \in 0 .. n /\ (p.more \/ p.rows = n) /\ (p.more => p.oldest \in 2 .. from)
  /\ p.turns <= p.rows /\ (p.rows = 0 <=> p.events = <<>>)
  /\ p.oldest = IF p.rows = 0 THEN 0 ELSE from - p.rows
\* its events, that are made of the rows from its oldest on, each of one,
PageParts(p, from) ==
  /\ \A m \in DOMAIN p.events : p.events[m].seq \in p.events[m].rows
  /\ \A m \in DOMAIN p.events : \A i \in p.events[m].rows : i <= p.events[m].seq /\ i < from /\ i >= p.oldest
  /\ \A m, k \in DOMAIN p.events : m # k => p.events[m].rows \cap p.events[k].rows = {}
  /\ \A i \in (from - p.rows) .. (from - 1) : \E m \in DOMAIN p.events : i \in p.events[m].rows
\* and where it is cut.
IsText(i) == x1[i].kind = "text"
PageCut(p) ==
  /\ p.events # <<>> => (IsText(p.events[Len(p.events)].seq) <=> IsText(p.oldest))
  /\ p.more /\ ~p.split => ~(IsText(p.oldest) /\ IsText(p.oldest - 1))
PageTrue(p, from, n) == PageCounts(p, from, n) /\ PageParts(p, from) /\ PageCut(p)

LEMMA ShapeOf ==
  ASSUME NEW e \in Seq(TL!Events), NEW rows \in Nat, NEW bytes \in Nat, NEW turns \in Nat, NEW oldest \in Nat,
         NEW more \in BOOLEAN, NEW split \in BOOLEAN
  PROVE  [events |-> e, rows |-> rows, bytes |-> bytes, turns |-> turns, oldest |-> oldest, more |-> more, split |-> split]
           \in PageShape
BY DEF PageShape

\* A page takes one row more, or is full.
LEMMA RowTaken ==
  ASSUME TL!TimelineAssumption, NEW from \in Nat \ {0}, NEW n \in Nat, n + 1 \in 1 .. (from - 1),
         NEW p, PageTrue(p, from, n), NEW q, q = TL!TakeRow(p, from - (n + 1))
  PROVE  PageTrue(q, from, n + 1)
<1>1. PICK i \in Nat : i = from - (n + 1) OBVIOUS
<1>2. i \in 1 .. (from - 1) BY <1>1
<1>3. PageCounts(p, from, n) /\ PageParts(p, from) /\ PageCut(p) BY DEF PageTrue
<1>4. PICK N \in Nat : N = Len(p.events) BY <1>3 DEF PageCounts, PageShape
<1>5. p.events \in [1 .. N -> TL!Events] /\ p.events \in Seq(TL!Events) /\ p \in PageShape BY <1>3, <1>4 DEF PageCounts, PageShape
<1>7. /\ p.events # <<>> <=> N # 0
      /\ N # 0 => TL!Last(p.events) = p.events[N]
  BY <1>4, <1>5 DEF TL!Last
<1>8. TL!Joins(p, i) <=> (IsText(i) /\ N # 0 /\ IsText(p.oldest)) BY <1>3, <1>4, <1>7 DEF PageCut, TL!Joins, IsText
<1>6. PICK e : e = TL!Taken(p, i) OBVIOUS
<1>14. PICK t \in {0, 1} : t = TL!Turns(i) BY DEF TL!Turns
<1>15. PICK size \in Nat : size = TL!Size(p, i) BY DEF TL!Size
<1>16. PICK joins \in BOOLEAN : joins = TL!Joins(p, i) BY DEF TL!Joins
<1>9. q = IF p.more THEN p
          ELSE IF TL!Full(p, i) THEN [p EXCEPT !.more = TRUE, !.split = joins]
          ELSE [p EXCEPT !.rows = @ + 1, !.bytes = @ + size, !.turns = @ + t, !.oldest = i, !.events = e]
  BY <1>1, <1>6, <1>14, <1>15, <1>16 DEF TL!TakeRow
<1>10. CASE p.more
  <2>1. q = p BY <1>9, <1>10
  <2>2. PageCounts(q, from, n + 1) BY <1>3, <1>10, <2>1 DEF PageCounts
  <2>3. QED BY <1>3, <2>1, <2>2 DEF PageTrue
<1>11. CASE ~p.more /\ TL!Full(p, i)
  <2>1. q = [p EXCEPT !.more = TRUE, !.split = joins] BY <1>9, <1>11
  <2>2. /\ q.events = p.events /\ q.rows = p.rows /\ q.bytes = p.bytes /\ q.turns = p.turns /\ q.oldest = p.oldest
        /\ q.more = TRUE /\ q.split = joins /\ q \in PageShape
    BY <1>5, <2>1 DEF PageShape
  <2>3. p.rows = n /\ p.oldest = IF n = 0 THEN 0 ELSE from - n BY <1>3, <1>11 DEF PageCounts
  <2>4. n # 0
    <3>1. SUFFICES ASSUME n = 0 PROVE FALSE OBVIOUS
    <3>2. p.events = <<>> /\ p.turns <= 0 /\ p.turns \in Nat /\ N = 0 BY <1>3, <1>4, <2>3, <3>1 DEF PageCounts, PageShape
    <3>3. {PageTurns, PageRows, PageEvents} \subseteq Nat \ {0} BY DEF TL!TimelineAssumption
    <3>4. QED BY <1>4, <1>11, <2>3, <3>1, <3>2, <3>3 DEF TL!Full
  <2>5. p.oldest = i + 1 /\ p.oldest \in 2 .. from BY <1>1, <1>2, <2>3, <2>4
  <2>6. PageCounts(q, from, n + 1) BY <1>3, <2>2, <2>3, <2>5 DEF PageCounts
  <2>7. PageParts(q, from) BY <1>3, <2>2 DEF PageParts
  <2>8. PageCut(q)
    <3>1. N # 0 /\ p.oldest - 1 = i BY <1>3, <1>7, <2>3, <2>4, <2>5, <1>2 DEF PageCounts
    <3>2. q.more /\ ~q.split => ~(IsText(q.oldest) /\ IsText(q.oldest - 1)) BY <1>8, <1>16, <2>2, <3>1
    <3>3. QED BY <1>3, <2>2, <3>2 DEF PageCut
  <2>9. QED BY <2>6, <2>7, <2>8 DEF PageTrue
<1>12. CASE ~p.more /\ ~TL!Full(p, i)
  <2>3. q = [p EXCEPT !.rows = @ + 1, !.bytes = @ + size, !.turns = @ + t, !.oldest = i, !.events = e]
    BY <1>9, <1>12
  <2>5. /\ q.events = e /\ q.rows = p.rows + 1 /\ q.oldest = i /\ q.turns = p.turns + t /\ q.more = p.more
        /\ q.bytes = p.bytes + size /\ q.split = p.split
    BY <1>5, <2>3 DEF PageShape
  <2>16. p.rows \in Nat /\ p.bytes \in Nat /\ p.turns \in Nat BY <1>5 DEF PageShape
  <2>17. PICK more \in BOOLEAN, split \in BOOLEAN : more = p.more /\ split = p.split
    <3>1. p.more \in BOOLEAN /\ p.split \in BOOLEAN BY <1>5 DEF PageShape
    <3>2. QED BY <3>1, Zenon
  <2>15. q = [events |-> e, rows |-> p.rows + 1, bytes |-> p.bytes + size, turns |-> p.turns + t, oldest |-> i,
              more |-> more, split |-> split]
    BY <1>5, <2>3, <2>17 DEF PageShape
  <2>6. p.rows = n /\ p.oldest = (IF n = 0 THEN 0 ELSE from - n) /\ (n = 0 <=> N = 0) BY <1>3, <1>7, <1>12 DEF PageCounts
  <2>7. from - q.rows = i /\ (n # 0 => p.oldest = i + 1) BY <1>1, <2>5, <2>6
  <2>8. \A m \in 1 .. N : /\ p.events[m] \in TL!Events /\ p.events[m].seq \in p.events[m].rows
                          /\ \A k \in p.events[m].rows : k \in Nat /\ k <= p.events[m].seq /\ k < from /\ k > i
    <3>1. SUFFICES ASSUME NEW m \in 1 .. N
                   PROVE  /\ p.events[m] \in TL!Events /\ p.events[m].seq \in p.events[m].rows
                          /\ \A k \in p.events[m].rows : k \in Nat /\ k <= p.events[m].seq /\ k < from /\ k > i
      OBVIOUS
    <3>2. m \in DOMAIN p.events /\ p.events[m] \in TL!Events BY <1>5, <3>1
    <3>3. p.oldest = i + 1 BY <2>6, <2>7, <3>1
    <3>4. \A k \in p.events[m].rows : k \in Nat BY <3>2 DEF TL!Events
    <3>5. QED BY <1>1, <1>3, <3>2, <3>3, <3>4 DEF PageParts
  <2>9. \A m, k \in 1 .. N : m # k => p.events[m].rows \cap p.events[k].rows = {} BY <1>3, <1>5 DEF PageParts
  <2>10. \A k \in (i + 1) .. (from - 1) : \E m \in 1 .. N : k \in p.events[m].rows
    <3>1. from - p.rows = i + 1 BY <1>1, <2>6
    <3>2. QED BY <1>3, <1>5, <3>1 DEF PageParts
  <2>11. \A k \in i .. (from - 1) : k = i \/ k \in (i + 1) .. (from - 1) BY <1>1
  <2>12. CASE TL!Joins(p, i)
    <3>1. N # 0 /\ IsText(i) /\ IsText(p.oldest) BY <1>8, <2>12
    <3>2. e = [p.events EXCEPT ![N].rows = @ \cup {i}] BY <1>4, <1>6, <2>12 DEF TL!Taken
    <3>3. /\ e \in [1 .. N -> TL!Events] /\ \A m \in 1 .. N : e[m].seq = p.events[m].seq
          /\ e[N].rows = p.events[N].rows \cup {i} /\ \A m \in 1 .. N : m # N => e[m] = p.events[m]
      <4>1. PICK r \in TL!Events : r = p.events[N] BY <1>5, <3>1
      <4>2. PICK u : u = [r EXCEPT !.rows = @ \cup {i}] OBVIOUS
      <4>3. u \in TL!Events /\ u.seq = r.seq /\ u.rows = r.rows \cup {i} BY <4>1, <4>2 DEF TL!Events
      <4>4. e = [p.events EXCEPT ![N] = u] BY <3>2, <4>1, <4>2
      <4>5. e[N] = u /\ \A m \in 1 .. N : m # N => e[m] = p.events[m] BY <1>5, <3>1, <4>4
      <4>6. e \in [1 .. N -> TL!Events] BY <1>5, <4>3, <4>4
      <4>7. QED BY <4>1, <4>3, <4>5, <4>6
    <3>4. e \in Seq(TL!Events) /\ Len(e) = N /\ DOMAIN e = 1 .. N /\ e # <<>> BY <1>4, <3>1, <3>3
    <3>5. PageParts(q, from)
      <4>1. \A m \in 1 .. N : e[m].seq \in e[m].rows BY <2>8, <3>1, <3>3
      <4>2. \A m \in 1 .. N : \A k \in e[m].rows : k <= e[m].seq /\ k < from /\ k >= i
        <5>1. SUFFICES ASSUME NEW m \in 1 .. N, NEW k \in e[m].rows PROVE k <= e[m].seq /\ k < from /\ k >= i OBVIOUS
        <5>2. CASE k \in p.events[m].rows BY <1>1, <2>8, <3>3, <5>2
        <5>3. CASE m = N /\ k = i
          <6>1. p.events[N].seq > i BY <2>8, <5>3
          <6>2. p.events[N].seq \in Nat BY <2>8, <5>3 DEF TL!Events
          <6>3. QED BY <1>1, <1>2, <3>3, <5>3, <6>1, <6>2
        <5>4. QED BY <3>3, <5>1, <5>2, <5>3
      <4>3. \A m, k \in 1 .. N : m # k => e[m].rows \cap e[k].rows = {}
        <5>1. SUFFICES ASSUME NEW m \in 1 .. N, NEW k \in 1 .. N, m # k, NEW x \in e[m].rows, x \in e[k].rows PROVE FALSE
          OBVIOUS
        <5>2. \A l \in 1 .. N : i \notin p.events[l].rows BY <1>1, <2>8
        <5>3. \A l \in 1 .. N : \A y \in e[l].rows : y \in p.events[l].rows \/ (l = N /\ y = i) BY <3>3
        <5>4. QED BY <2>9, <5>1, <5>2, <5>3
      <4>4. \A k \in i .. (from - 1) : \E m \in 1 .. N : k \in e[m].rows
        <5>1. SUFFICES ASSUME NEW k \in i .. (from - 1) PROVE \E m \in 1 .. N : k \in e[m].rows OBVIOUS
        <5>2. CASE k = i BY <3>1, <3>3, <5>2
        <5>3. CASE k \in (i + 1) .. (from - 1)
          <6>1. PICK m \in 1 .. N : k \in p.events[m].rows BY <2>10, <5>3
          <6>2. k \in e[m].rows BY <3>3, <6>1
          <6>3. QED BY <6>2
        <5>4. QED BY <2>11, <5>2, <5>3
      <4>5. DOMAIN q.events = 1 .. N /\ q.oldest = i /\ q.events = e BY <2>5, <3>4
      <4>6. \A k \in (from - q.rows) .. (from - 1) : \E m \in DOMAIN q.events : k \in q.events[m].rows BY <2>7, <4>4, <4>5
      <4>7. QED BY <4>1, <4>2, <4>3, <4>5, <4>6 DEF PageParts
    <3>6. PageCut(q)
      <4>1. IsText(e[N].seq) BY <1>3, <1>4, <3>1, <3>3, <1>7 DEF PageCut
      <4>2. ~q.more BY <1>12, <2>5
      <4>3. QED BY <2>5, <3>1, <3>4, <4>1, <4>2 DEF PageCut
    <3>7. q \in PageShape
      <4>1. p.rows + 1 \in Nat /\ p.bytes + size \in Nat /\ p.turns + t \in Nat BY <1>14, <1>15, <2>16
      <4>2. [events |-> e, rows |-> p.rows + 1, bytes |-> p.bytes + size, turns |-> p.turns + t, oldest |-> i, more |-> more, split |-> split] \in PageShape BY <3>4, <4>1, ShapeOf
      <4>3. QED BY <2>15, <4>2
    <3>8. PageCounts(q, from, n + 1)
      <4>1. p.turns + t <= p.rows + 1 BY <1>3, <1>14, <2>16 DEF PageCounts
      <4>2. QED BY <1>1, <1>12, <2>5, <2>6, <2>7, <3>4, <3>7, <4>1 DEF PageCounts
    <3>9. QED BY <3>5, <3>6, <3>8 DEF PageTrue
  <2>13. CASE ~TL!Joins(p, i)
    <3>1. e = Append(p.events, [seq |-> i, rows |-> {i}]) BY <1>6, <2>13 DEF TL!Taken
    <3>2. [seq |-> i, rows |-> {i}] \in TL!Events BY DEF TL!Events
    <3>3. /\ e \in Seq(TL!Events) /\ Len(e) = N + 1 /\ DOMAIN e = 1 .. (N + 1) /\ e # <<>>
          /\ e[N + 1] = [seq |-> i, rows |-> {i}] /\ \A m \in 1 .. N : e[m] = p.events[m]
      BY <1>4, <1>5, <3>1, <3>2
    <3>4. \A m \in 1 .. (N + 1) : m \in 1 .. N \/ m = N + 1 OBVIOUS
    <3>5. e[N + 1].seq = i /\ e[N + 1].rows = {i} BY <3>3
    <3>6. PageParts(q, from)
      <4>1. \A m \in 1 .. (N + 1) : e[m].seq \in e[m].rows BY <2>8, <3>3, <3>4, <3>5
      <4>2. \A m \in 1 .. (N + 1) : \A k \in e[m].rows : k <= e[m].seq /\ k < from /\ k >= i
        <5>1. SUFFICES ASSUME NEW m \in 1 .. (N + 1), NEW k \in e[m].rows PROVE k <= e[m].seq /\ k < from /\ k >= i OBVIOUS
        <5>2. CASE m \in 1 .. N BY <1>1, <2>8, <3>3, <5>2
        <5>3. CASE m = N + 1 BY <1>1, <1>2, <3>5, <5>3
        <5>4. QED BY <3>4, <5>2, <5>3
      <4>3. \A m, k \in 1 .. (N + 1) : m # k => e[m].rows \cap e[k].rows = {}
        <5>1. SUFFICES ASSUME NEW m \in 1 .. (N + 1), NEW k \in 1 .. (N + 1), m # k, NEW x \in e[m].rows, x \in e[k].rows
                       PROVE  FALSE
          OBVIOUS
        <5>2. \A l \in 1 .. N : e[l] = p.events[l] /\ i \notin p.events[l].rows BY <1>1, <2>8, <3>3
        <5>3. CASE m \in 1 .. N /\ k \in 1 .. N BY <2>9, <5>1, <5>2, <5>3
        <5>4. CASE m = N + 1 \/ k = N + 1 BY <3>4, <3>5, <5>1, <5>2, <5>4
        <5>5. QED BY <3>4, <5>3, <5>4
      <4>4. \A k \in i .. (from - 1) : \E m \in 1 .. (N + 1) : k \in e[m].rows
        <5>1. SUFFICES ASSUME NEW k \in i .. (from - 1) PROVE \E m \in 1 .. (N + 1) : k \in e[m].rows OBVIOUS
        <5>2. CASE k = i BY <3>5, <5>2
        <5>3. CASE k \in (i + 1) .. (from - 1)
          <6>1. PICK m \in 1 .. N : k \in p.events[m].rows BY <2>10, <5>3
          <6>2. m \in 1 .. (N + 1) /\ k \in e[m].rows BY <3>3, <6>1
          <6>3. QED BY <6>2
        <5>4. QED BY <2>11, <5>2, <5>3
      <4>5. DOMAIN e = 1 .. (N + 1) BY <3>3
      <4>6. DOMAIN q.events = 1 .. (N + 1) /\ q.oldest = i /\ q.events = e BY <2>5, <4>5
      <4>7. \A k \in (from - q.rows) .. (from - 1) : \E m \in DOMAIN q.events : k \in q.events[m].rows BY <2>7, <4>4, <4>6
      <4>8. QED BY <4>1, <4>2, <4>3, <4>6, <4>7 DEF PageParts
    <3>7. PageCut(q)
      <4>1. ~q.more BY <1>12, <2>5
      <4>2. QED BY <2>5, <3>3, <3>5, <4>1 DEF PageCut
    <3>8. q \in PageShape
      <4>1. e \in Seq(TL!Events) BY <3>3
      <4>2. p.rows + 1 \in Nat /\ p.bytes + size \in Nat /\ p.turns + t \in Nat BY <1>14, <1>15, <2>16
      <4>3. [events |-> e, rows |-> p.rows + 1, bytes |-> p.bytes + size, turns |-> p.turns + t, oldest |-> i, more |-> more, split |-> split] \in PageShape BY <4>1, <4>2, ShapeOf
      <4>4. QED BY <2>15, <4>3
    <3>9. PageCounts(q, from, n + 1)
      <4>1. p.turns + t <= p.rows + 1 BY <1>3, <1>14, <2>16 DEF PageCounts
      <4>2. QED BY <1>1, <1>12, <2>5, <2>6, <2>7, <3>3, <3>8, <4>1 DEF PageCounts
    <3>10. QED BY <3>6, <3>7, <3>9 DEF PageTrue
  <2>14. QED BY <2>12, <2>13
<1>13. QED BY <1>10, <1>11, <1>12

\* A page, when all rows below a place have been looked at.
LEMMA PageRead ==
  ASSUME TL!TimelineAssumption, NEW from \in Nat \ {0}
  PROVE  PageTrue(TL!Page(from), from, from - 1)
<1>1. PICK N \in Nat : N = from - 1 OBVIOUS
<1>2. PICK f : PageRuns(from, N, f) /\ TL!Page(from) = f[N] BY <1>1, PageRun
<1> DEFINE Right(n) == PageTrue(f[n], from, n)
           S == {n \in Nat : n <= N => Right(n)}
<1>3. f[0] = TL!NoRows /\ \A n \in 1 .. N : f[n] = TL!TakeRow(f[n - 1], from - n)
  <2>1. \A n \in 0 .. N : f[n] = IF n = 0 THEN TL!NoRows ELSE TL!TakeRow(f[n - 1], from - n) BY <1>2 DEF PageRuns
  <2>2. 0 \in 0 .. N /\ \A n \in 1 .. N : n \in 0 .. N /\ n # 0 BY <1>1
  <2>3. QED BY <2>1, <2>2
<1>4. 0 \in S
  <2>1. PICK p : p = TL!NoRows OBVIOUS
  <2>2. <<>> \in Seq(TL!Events) /\ DOMAIN <<>> = {} OBVIOUS
  <2>3. p \in PageShape BY <2>1, <2>2, ShapeOf DEF TL!NoRows
  <2>4. p.events = <<>> /\ p.rows = 0 /\ p.turns = 0 /\ p.oldest = 0 /\ ~p.more BY <2>1 DEF TL!NoRows
  <2>5. PageCounts(p, from, 0) BY <2>3, <2>4 DEF PageCounts
  <2>6. PageParts(p, from)
    <3>1. DOMAIN p.events = {} BY <2>2, <2>4
    <3>2. (from - p.rows) .. (from - 1) = {} BY <2>4
    <3>3. QED BY <3>1, <3>2 DEF PageParts
  <2>7. PageCut(p) BY <2>4 DEF PageCut
  <2>8. Right(0) BY <1>3, <2>1, <2>5, <2>6, <2>7 DEF PageTrue
  <2> HIDE DEF Right
  <2>9. QED BY <2>8
<1>5. ASSUME NEW n \in Nat, n \in S PROVE n + 1 \in S
  <2>1. SUFFICES ASSUME n + 1 <= N PROVE Right(n + 1) OBVIOUS
  <2>2. n + 1 \in 1 .. N /\ n + 1 \in 1 .. (from - 1) /\ n <= N /\ (n + 1) - 1 = n BY <1>1, <2>1
  <2>3. Right(n) BY <1>5, <2>2
  <2>4. f[n + 1] = TL!TakeRow(f[n], from - (n + 1)) BY <1>3, <2>2
  <2>5. QED BY <2>2, <2>3, <2>4, RowTaken
<1> HIDE DEF S
<1>6. Nat \subseteq S BY <1>4, <1>5, NatSetInduction
<1>7. N \in S /\ N <= N BY <1>6
<1>8. Right(N) BY <1>7 DEF S
<1>9. QED BY <1>1, <1>2, <1>8

\* The rows that some events are made of.
RowsOf(events) == UNION {e.rows : e \in events}
\* Where a page begins.
LowOf(p) == IF p.more THEN p.oldest ELSE 1

\* What a page gives: events of their own, of all rows from where it begins to
\* where the last one began.
LEMMA PageGives ==
  ASSUME TL!TimelineAssumption, DOMAIN x1 = 1 .. Len(x1),
         NEW from \in Nat, from \in 1 .. (Len(x1) + 1), Len(x1) \in Nat, NEW p, p = TL!Page(from)
  PROVE  /\ TL!EventsTrue(TL!Range(p.events)) /\ RowsOf(TL!Range(p.events)) = LowOf(p) .. (from - 1)
         /\ LowOf(p) \in 1 .. from /\ p.oldest \in Nat
         /\ p.more => p.oldest \in 2 .. (from - 1)
         /\ p.more /\ ~p.split => ~(IsText(p.oldest) /\ IsText(p.oldest - 1))
<1>1. PageTrue(p, from, from - 1) BY PageRead
<1>2. p \in PageShape /\ p.rows \in 0 .. (from - 1) /\ (p.more \/ p.rows = from - 1) /\ (p.more => p.oldest \in 2 .. from)
      /\ (p.rows = 0 <=> p.events = <<>>) /\ p.oldest = IF p.rows = 0 THEN 0 ELSE from - p.rows
  BY <1>1 DEF PageTrue, PageCounts
<1>3. p.more => p.oldest \in 2 .. (from - 1) /\ p.oldest = from - p.rows BY <1>2
<1>4. LowOf(p) = from - p.rows /\ LowOf(p) \in 1 .. from BY <1>2, <1>3 DEF LowOf
<1>5. PICK N \in Nat : N = Len(p.events) BY <1>2 DEF PageShape
<1>6. p.events \in [1 .. N -> TL!Events] BY <1>2, <1>5 DEF PageShape
<1>7. /\ \A m \in 1 .. N : p.events[m].seq \in p.events[m].rows /\ p.events[m] \in TL!Events
      /\ \A m \in 1 .. N : \A i \in p.events[m].rows : i <= p.events[m].seq /\ i < from /\ i >= p.oldest
      /\ \A m, k \in 1 .. N : m # k => p.events[m].rows \cap p.events[k].rows = {}
      /\ \A i \in LowOf(p) .. (from - 1) : \E m \in 1 .. N : i \in p.events[m].rows
  BY <1>1, <1>4, <1>6 DEF PageTrue, PageParts
<1>8. \A m \in 1 .. N : \A i \in p.events[m].rows : i \in LowOf(p) .. (from - 1)
  <2>1. SUFFICES ASSUME NEW m \in 1 .. N, NEW i \in p.events[m].rows PROVE i \in LowOf(p) .. (from - 1) OBVIOUS
  <2>2. i \in Nat BY <1>7 DEF TL!Events
  <2>3. p.rows # 0 BY <1>2, <1>5, <1>6
  <2>4. QED BY <1>2, <1>4, <1>7, <2>2, <2>3
<1>9. PICK events : events = TL!Range(p.events) OBVIOUS
<1>10. (\A m \in 1 .. N : p.events[m] \in events) /\ \A e \in events : \E m \in 1 .. N : e = p.events[m]
  BY <1>6, <1>9 DEF TL!Range
<1>11. TL!EventsTrue(events)
  <2>1. events \subseteq TL!Events BY <1>7, <1>10
  <2>2. \A e \in events : e.seq \in e.rows /\ (\A i \in e.rows : i <= e.seq) /\ e.rows \subseteq DOMAIN x1
    <3>1. SUFFICES ASSUME NEW e \in events PROVE e.seq \in e.rows /\ (\A i \in e.rows : i <= e.seq) /\ e.rows \subseteq DOMAIN x1
      OBVIOUS
    <3>2. PICK m \in 1 .. N : e = p.events[m] BY <1>10
    <3>3. \A i \in e.rows : i \in LowOf(p) .. (from - 1) BY <1>8, <3>2
    <3>4. \A i \in e.rows : i \in 1 .. Len(x1) BY <1>4, <3>3
    <3>5. DOMAIN x1 = 1 .. Len(x1) OBVIOUS
    <3>6. QED BY <1>7, <3>2, <3>4, <3>5
  <2>3. \A d, e \in events : d # e => d.rows \cap e.rows = {} BY <1>7, <1>10
  <2>4. QED BY <2>1, <2>2, <2>3 DEF TL!EventsTrue
<1>12. RowsOf(events) = LowOf(p) .. (from - 1)
  <2>1. \A i \in RowsOf(events) : i \in LowOf(p) .. (from - 1) BY <1>8, <1>10 DEF RowsOf
  <2>2. \A i \in LowOf(p) .. (from - 1) : i \in RowsOf(events)
    <3>1. SUFFICES ASSUME NEW i \in LowOf(p) .. (from - 1) PROVE i \in RowsOf(events) OBVIOUS
    <3>2. PICK m \in 1 .. N : i \in p.events[m].rows BY <1>7
    <3>3. QED BY <1>10, <3>2 DEF RowsOf
  <2>3. QED BY <2>1, <2>2
<1>13. p.oldest \in Nat BY <1>2 DEF PageShape
<1>14. QED BY <1>1, <1>3, <1>4, <1>9, <1>11, <1>12, <1>13 DEF PageTrue, PageCut

\* Events of rows that lie apart.
LEMMA EventsJoin ==
  ASSUME NEW a, NEW b, TL!EventsTrue(a), TL!EventsTrue(b), RowsOf(a) \cap RowsOf(b) = {}
  PROVE  TL!EventsTrue(a \cup b) /\ RowsOf(a \cup b) = RowsOf(a) \cup RowsOf(b)
<1>1. RowsOf(a \cup b) = RowsOf(a) \cup RowsOf(b) BY DEF RowsOf
<1>2. a \cup b \subseteq TL!Events BY DEF TL!EventsTrue
<1>3. \A e \in a \cup b : e.seq \in e.rows /\ (\A i \in e.rows : i <= e.seq) /\ e.rows \subseteq DOMAIN x1 BY DEF TL!EventsTrue
<1>4. \A d, e \in a \cup b : d # e => d.rows \cap e.rows = {}
  <2>1. SUFFICES ASSUME NEW d \in a \cup b, NEW e \in a \cup b, d # e, NEW x \in d.rows, x \in e.rows PROVE FALSE OBVIOUS
  <2>2. CASE d \in a /\ e \in a BY <2>1, <2>2 DEF TL!EventsTrue
  <2>3. CASE d \in b /\ e \in b BY <2>1, <2>3 DEF TL!EventsTrue
  <2>4. CASE d \in a /\ e \in b BY <2>1, <2>4 DEF RowsOf
  <2>5. CASE d \in b /\ e \in a BY <2>1, <2>5 DEF RowsOf
  <2>6. QED BY <2>1, <2>2, <2>3, <2>4, <2>5
<1>5. QED BY <1>1, <1>2, <1>3, <1>4 DEF TL!EventsTrue

\* The last row of a window is that of its latest event.
LEMMA LastRow ==
  ASSUME NEW events, TL!EventsTrue(events), NEW low \in Nat, NEW top \in Nat, RowsOf(events) = low .. top, low <= top + 1,
         top < low => top = 0
  PROVE  TL!LastSeq(events) = top
<1>1. CASE top < low
  <2>1. RowsOf(events) = {} BY <1>1
  <2>2. events = {} BY <2>1 DEF RowsOf, TL!EventsTrue
  <2>3. QED BY <1>1, <2>2 DEF TL!LastSeq
<1>2. CASE low <= top
  <2>1. top \in RowsOf(events) BY <1>2
  <2>2. PICK e \in events : top \in e.rows BY <2>1 DEF RowsOf
  <2>3. \A d \in events : d.seq \in Nat /\ d.seq <= top
    <3>1. SUFFICES ASSUME NEW d \in events PROVE d.seq \in Nat /\ d.seq <= top OBVIOUS
    <3>2. d.seq \in RowsOf(events) BY DEF RowsOf, TL!EventsTrue
    <3>3. QED BY <3>2
  <2>4. e.seq = top
    <3>1. top <= e.seq BY <2>2 DEF TL!EventsTrue
    <3>2. QED BY <2>3, <3>1
  <2> DEFINE Seqs == {d.seq : d \in events}
  <2>5. top \in Seqs /\ \A y \in Seqs : y \in Nat /\ top >= y BY <2>3, <2>4
  <2>6. events # {} BY <2>2
  <2> HIDE DEF Seqs
  <2>7. TL!Max(Seqs) = top
    <3>1. \A x \in Seqs : (\A y \in Seqs : x >= y) => x = top BY <2>5
    <3>2. QED BY <2>5, <3>1 DEF TL!Max
  <2>8. QED BY <2>6, <2>7 DEF TL!LastSeq, Seqs
<1>3. QED BY <1>1, <1>2

LogRows == TL!Plain \cup {TL!Row(kind, a) : kind \in {"ask", "answer"}, a \in Approvals}

LEMMA LogShape ==
  ASSUME TL!TypeOK
  PROVE  x1 \in Seq(LogRows) /\ Len(x1) \in Nat /\ DOMAIN x1 = 1 .. Len(x1) /\ Len(x1) <= MaxLog
BY DEF TL!TypeOK, LogRows

\* Nothing is written, and nothing shown, at first.
LEMMA InitTimeline == ASSUME TL!TimelineAssumption, TL!Init PROVE TL!TimelineKept
<1>1. x1 = <<>> /\ x2 = {} /\ x3 = FALSE /\ x4 = "shut" /\ x5 = MaxLog + 1 /\ x6 = 0 /\ x7 = {}
  BY DEF TL!Init
<1>2. DOMAIN x1 = {} /\ Len(x1) = 0 /\ MaxLog \in Nat BY <1>1 DEF TL!TimelineAssumption
<1>3. TL!TypeOK
  <2>1. <<>> \in Seq(TL!Plain \cup {TL!Row(kind, a) : kind \in {"ask", "answer"}, a \in Approvals}) OBVIOUS
  <2>2. x2 \subseteq Approvals /\ x3 \in BOOLEAN /\ (~x3 => x2 = {}) /\ x4 \in {"shut", "opening", "open"} BY <1>1
  <2>3. x5 \in 0 .. (MaxLog + 1) /\ x6 \in 0 .. Len(x1) /\ Len(x1) <= MaxLog BY <1>1, <1>2
  <2>4. x1 \in Seq(TL!Plain \cup {TL!Row(kind, a) : kind \in {"ask", "answer"}, a \in Approvals}) BY <1>1, <2>1
  <2>5. \A e \in x7 : e.seq = TL!Max(e.rows) /\ e.rows \subseteq DOMAIN x1 BY <1>1
  <2>6. QED BY <2>2, <2>3, <2>4, <2>5 DEF TL!TypeOK
<1>4. TL!WaitsTrue BY <1>2 DEF TL!WaitsTrue
<1>5. TL!EventsTrue(x7) BY <1>1 DEF TL!EventsTrue
<1>6. TL!WindowTrue BY <1>1 DEF TL!WindowTrue
<1>7. QED BY <1>3, <1>4, <1>5, <1>6 DEF TL!TimelineKept

\* A row is written: the window stays as it is, and a wait that goes on is not
\* ended by the row.
LEMMA RowWritten ==
  ASSUME TL!TimelineAssumption, TL!TimelineKept, NEW row \in LogRows, TL!Write(row), x2' \subseteq Approvals, x3' \in BOOLEAN,
         x3' = FALSE => x2' = {},
         \A i \in DOMAIN x1 : (x1[i].kind = "ask" /\ x1[i].ask \in x2') =>
           /\ x1[i].ask \in x2 /\ row.kind \notin {"user", "ended"}
           /\ ~(row.kind = "answer" /\ row.ask = x1[i].ask)
  PROVE  TL!TimelineKept'
<1>1. TL!TypeOK /\ TL!WaitsTrue /\ TL!EventsTrue(x7) /\ TL!WindowTrue BY DEF TL!TimelineKept
<1>2. PICK L \in Nat : L = Len(x1) BY <1>1, LogShape
<1>3. x1 \in Seq(LogRows) /\ DOMAIN x1 = 1 .. L /\ L < MaxLog /\ x1' = Append(x1, row) BY <1>1, <1>2, LogShape DEF TL!Write
<1>4. /\ x1' \in Seq(LogRows) /\ Len(x1') = L + 1 /\ DOMAIN x1' = 1 .. (L + 1)
      /\ x1'[L + 1] = row /\ \A i \in 1 .. L : x1'[i] = x1[i]
  BY <1>2, <1>3
<1>5. \A i \in 1 .. (L + 1) : i \in 1 .. L \/ i = L + 1 OBVIOUS
<1>6. x4' = x4 /\ x5' = x5 /\ x6' = x6 /\ x7' = x7 /\ x8' = x8 BY DEF TL!Write, TL!Window
<1>7. MaxLog \in Nat /\ L + 1 <= MaxLog BY <1>3 DEF TL!TimelineAssumption
<1>8. x6 \in 0 .. L BY <1>1, <1>2 DEF TL!TypeOK
<1>9. TL!EventsTrue(x7)'
  <2>1. \A e \in x7 : e.rows \subseteq 1 .. (L + 1) BY <1>1, <1>3 DEF TL!EventsTrue
  <2>2. QED BY <1>1, <1>4, <1>6, <2>1 DEF TL!EventsTrue
<1>10. TL!TypeOK'
  <2>1. x1' \in Seq(TL!Plain \cup {TL!Row(kind, a) : kind \in {"ask", "answer"}, a \in Approvals}) BY <1>4 DEF LogRows
  <2>2. \A e \in x7 : e.seq = TL!Max(e.rows) /\ e.rows \subseteq 1 .. (L + 1) BY <1>1, <1>3 DEF TL!TypeOK
  <2>3. \A e \in x7' : e.seq = TL!Max(e.rows) /\ e.rows \subseteq DOMAIN x1' BY <1>4, <1>6, <2>2
  <2>4. x4' \in {"shut", "opening", "open"} /\ x5' \in 0 .. (MaxLog + 1) BY <1>1, <1>6 DEF TL!TypeOK
  <2>5. x6' \in 0 .. (L + 1) BY <1>6, <1>8
  <2>6. QED BY <1>4, <1>7, <2>1, <2>3, <2>4, <2>5 DEF TL!TypeOK
<1>11. TL!WaitsTrue'
  <2>1. SUFFICES ASSUME NEW i \in 1 .. (L + 1), NEW j \in 1 .. (L + 1), i < j, x1'[i].kind = "ask", x1'[i].ask \in x2'
                 PROVE  x1'[j].kind \notin {"user", "ended"} /\ ~(x1'[j].kind = "answer" /\ x1'[j].ask = x1'[i].ask)
    BY <1>4 DEF TL!WaitsTrue
  <2>2. i \in 1 .. L /\ x1'[i] = x1[i] BY <1>4, <2>1
  <2>3. /\ x1[i].ask \in x2 /\ row.kind \notin {"user", "ended"} /\ ~(row.kind = "answer" /\ row.ask = x1[i].ask)
    BY <1>3, <2>1, <2>2
  <2>4. CASE j = L + 1 BY <1>4, <2>2, <2>3, <2>4
  <2>5. CASE j \in 1 .. L
    <3>1. x1[j].kind \notin {"user", "ended"} /\ ~(x1[j].kind = "answer" /\ x1[j].ask = x1[i].ask)
      BY <1>1, <1>3, <2>1, <2>2, <2>3, <2>5 DEF TL!WaitsTrue
    <3>2. QED BY <1>4, <2>2, <2>5, <3>1
  <2>6. QED BY <1>5, <2>4, <2>5
<1>12. TL!Held' = TL!Held BY <1>6 DEF TL!Held
<1>13. TL!WindowTrue'
  <2>1. x4' = "opening" =>
          \/ x7' = {} /\ x5' = MaxLog + 1
          \/ \E top \in DOMAIN x1' : x5' \in 2 .. top /\ TL!Held' = x5' .. top
    <3>1. SUFFICES ASSUME x4 = "opening" PROVE \/ x7' = {} /\ x5' = MaxLog + 1
                                               \/ \E top \in DOMAIN x1' : x5' \in 2 .. top /\ TL!Held' = x5' .. top
      BY <1>6
    <3>2. CASE x7 = {} /\ x5 = MaxLog + 1 BY <1>6, <3>2
    <3>3. CASE \E top \in DOMAIN x1 : x5 \in 2 .. top /\ TL!Held = x5 .. top
      <4>1. PICK top \in 1 .. L : x5 \in 2 .. top /\ TL!Held = x5 .. top BY <1>3, <3>3
      <4>2. top \in DOMAIN x1' BY <1>4
      <4>3. QED BY <1>6, <1>12, <4>1, <4>2
    <3>4. QED BY <1>1, <3>1, <3>2, <3>3 DEF TL!WindowTrue
  <2>2. ASSUME x4' = "open"
        PROVE  /\ x5' \in {0} \cup (2 .. x6') /\ TL!Held' = {i \in 1 .. x6' : i >= x5'}
               /\ ~x8' /\ x5' > 1 => ~(x1'[x5'].kind = "text" /\ x1'[x5' - 1].kind = "text")
               /\ \A i \in DOMAIN x1' : (i < x5' /\ x1'[i].kind = "ask") => x1'[i].ask \notin x2'
    <3>1. /\ x5 \in {0} \cup (2 .. x6) /\ TL!Held = {i \in 1 .. x6 : i >= x5}
          /\ ~x8 /\ x5 > 1 => ~(x1[x5].kind = "text" /\ x1[x5 - 1].kind = "text")
          /\ \A i \in DOMAIN x1 : (i < x5 /\ x1[i].kind = "ask") => x1[i].ask \notin x2
      BY <1>1, <1>6, <2>2 DEF TL!WindowTrue
    <3>2. x5 > 1 => x5 \in 1 .. L /\ x5 - 1 \in 1 .. L BY <1>8, <3>1
    <3>3. \A i \in 1 .. (L + 1) : i < x5 => i \in 1 .. L BY <1>8, <3>1
    <3>4. \A i \in 1 .. L : (x1[i].kind = "ask" /\ x1[i].ask \in x2') => x1[i].ask \in x2 BY <1>3
    <3>5. \A i \in DOMAIN x1' : (i < x5' /\ x1'[i].kind = "ask") => x1'[i].ask \notin x2'
      BY <1>3, <1>4, <1>6, <3>1, <3>3, <3>4
    <3>6. ~x8' /\ x5' > 1 => ~(x1'[x5'].kind = "text" /\ x1'[x5' - 1].kind = "text")
      BY <1>4, <1>6, <3>1, <3>2
    <3>7. x5' \in {0} \cup (2 .. x6') /\ TL!Held' = {i \in 1 .. x6' : i >= x5'} BY <1>6, <1>12, <3>1
    <3>8. QED BY <3>5, <3>6, <3>7
  <2>3. QED BY <2>1, <2>2 DEF TL!WindowTrue
<1>14. QED BY <1>9, <1>10, <1>11, <1>13 DEF TL!TimelineKept

LEMMA SeqsNewest ==
  ASSUME NEW events, TL!EventsTrue(events)
  PROVE  \A e \in events : e.seq = TL!Max(e.rows) /\ e.rows \subseteq DOMAIN x1
<1>1. SUFFICES ASSUME NEW e \in events PROVE e.seq = TL!Max(e.rows) /\ e.rows \subseteq DOMAIN x1 OBVIOUS
<1>2. PICK rows \in SUBSET Nat : rows = e.rows BY DEF TL!EventsTrue, TL!Events
<1>3. e.seq \in rows /\ (\A i \in rows : i <= e.seq) /\ rows \subseteq DOMAIN x1 BY <1>2 DEF TL!EventsTrue
<1>4. \A x \in rows : (\A y \in rows : x >= y) => x = e.seq
  <2>1. SUFFICES ASSUME NEW x \in rows, \A y \in rows : x >= y PROVE x = e.seq OBVIOUS
  <2>2. x \in Nat /\ e.seq \in Nat /\ x <= e.seq /\ x >= e.seq BY <1>2, <1>3, <2>1
  <2>3. QED BY <2>2
<1>5. TL!Max(rows) = e.seq BY <1>3, <1>4 DEF TL!Max
<1>6. QED BY <1>2, <1>3, <1>5

\* What is written in a turn does not end a wait that goes on.
LEMMA WorkWritten ==
  ASSUME TL!TimelineAssumption, TL!TimelineKept,
         TL!Turn \/ TL!Work \/ \E a \in Approvals : TL!AskUser(a) \/ TL!AnswerUser(a)
  PROVE  TL!TimelineKept'
<1>1. TL!TypeOK /\ TL!WaitsTrue BY DEF TL!TimelineKept
<1>2. x2 \subseteq Approvals /\ x3 \in BOOLEAN /\ (~x3 => x2 = {}) BY <1>1 DEF TL!TypeOK
<1>3. CASE TL!Turn
  <2>1. PICK row : row = TL!Row(IF x3 THEN "ended" ELSE "user", "none") OBVIOUS
  <2>2. TL!Write(row) /\ x3' = ~x3 /\ x2' = {} BY <1>3, <2>1 DEF TL!Turn
  <2>3. row \in LogRows BY <2>1 DEF LogRows, TL!Plain
  <2>4. x3' \in BOOLEAN BY <2>2
  <2>5. QED BY <2>2, <2>3, <2>4, RowWritten
<1>4. CASE TL!Work
  <2>1. PICK kind \in {"text", "other"} : TL!Write(TL!Row(kind, "none")) /\ UNCHANGED <<x2, x3>> BY <1>4 DEF TL!Work
  <2>2. PICK row : row = TL!Row(kind, "none") OBVIOUS
  <2>3. row \in LogRows /\ row.kind = kind BY <2>2 DEF LogRows, TL!Plain, TL!Row
  <2>4. row.kind \notin {"user", "ended"} /\ row.kind # "answer" BY <2>3
  <2>5. TL!Write(row) /\ x2' = x2 /\ x3' = x3 BY <2>1, <2>2
  <2>6. \A i \in DOMAIN x1 : (x1[i].kind = "ask" /\ x1[i].ask \in x2') =>
           /\ x1[i].ask \in x2 /\ row.kind \notin {"user", "ended"}
           /\ ~(row.kind = "answer" /\ row.ask = x1[i].ask)
    BY <2>4, <2>5
  <2>7. x2' \subseteq Approvals /\ x3' \in BOOLEAN /\ (x3' = FALSE => x2' = {}) BY <1>2, <2>5
  <2>8. QED BY <2>3, <2>5, <2>6, <2>7, RowWritten
<1>5. ASSUME NEW a \in Approvals, TL!AskUser(a) PROVE TL!TimelineKept'
  <2>1. PICK row : row = TL!Row("ask", a) OBVIOUS
  <2>2. row \in LogRows /\ row.kind = "ask" BY <2>1 DEF LogRows, TL!Row
  <2>3. TL!Write(row) /\ x2' = x2 \cup {a} /\ x3' = x3 /\ x3 /\ \A i \in DOMAIN x1 : x1[i].ask # a
    BY <1>5, <2>1 DEF TL!AskUser
  <2>4. row.kind \notin {"user", "ended"} /\ row.kind # "answer" BY <2>2
  <2>5. \A i \in DOMAIN x1 : (x1[i].kind = "ask" /\ x1[i].ask \in x2') =>
           /\ x1[i].ask \in x2 /\ row.kind \notin {"user", "ended"}
           /\ ~(row.kind = "answer" /\ row.ask = x1[i].ask)
    BY <2>3, <2>4
  <2>6. x2' \subseteq Approvals /\ x3' \in BOOLEAN /\ (x3' = FALSE => x2' = {}) BY <1>2, <2>3
  <2>7. QED BY <2>2, <2>3, <2>5, <2>6, RowWritten
<1>6. ASSUME NEW a \in Approvals, TL!AnswerUser(a) PROVE TL!TimelineKept'
  <2>1. PICK row : row = TL!Row("answer", a) OBVIOUS
  <2>2. row \in LogRows /\ row.kind = "answer" /\ row.ask = a BY <2>1 DEF LogRows, TL!Row
  <2>3. TL!Write(row) /\ x2' = x2 \ {a} /\ x3' = x3 /\ a \in x2 BY <1>6, <2>1 DEF TL!AnswerUser
  <2>4. row.kind \notin {"user", "ended"} BY <2>2
  <2>5. \A i \in DOMAIN x1 : (x1[i].kind = "ask" /\ x1[i].ask \in x2') =>
           /\ x1[i].ask \in x2 /\ row.kind \notin {"user", "ended"}
           /\ ~(row.kind = "answer" /\ row.ask = x1[i].ask)
    BY <2>2, <2>3, <2>4
  <2>6. x2' \subseteq Approvals /\ x3' \in BOOLEAN /\ (x3' = FALSE => x2' = {}) BY <1>2, <2>3
  <2>7. QED BY <2>2, <2>3, <2>5, <2>6, RowWritten
<1>7. QED BY <1>3, <1>4, <1>5, <1>6

\* The log stays, and the window shows other events.
LEMMA WindowMoves ==
  ASSUME TL!TimelineAssumption, TL!TimelineKept, UNCHANGED <<x1, x2, x3>>, TL!EventsTrue(x7'),
         x4' \in {"shut", "opening", "open"}, x5' \in 0 .. (MaxLog + 1), x6' \in 0 .. Len(x1), TL!WindowTrue'
  PROVE  TL!TimelineKept'
<1>1. TL!TypeOK /\ TL!WaitsTrue BY DEF TL!TimelineKept
<1>2. x1' = x1 /\ x2' = x2 /\ x3' = x3 OBVIOUS
<1>3. TL!WaitsTrue' BY <1>1, <1>2 DEF TL!WaitsTrue
<1>4. TL!EventsTrue(x7)' BY <1>2 DEF TL!EventsTrue
<1>5. \A e \in x7' : e.seq = TL!Max(e.rows) /\ e.rows \subseteq DOMAIN x1 BY SeqsNewest
<1>6. TL!TypeOK' BY <1>1, <1>2, <1>5 DEF TL!TypeOK
<1>7. QED BY <1>3, <1>4, <1>6 DEF TL!TimelineKept

\* One of the first pages is read, or a page earlier than all of them.
LEMMA PageJoined ==
  ASSUME TL!TimelineAssumption, TL!TimelineKept, NEW from \in 1 .. (Len(x1) + 1), NEW p, p = TL!Page(from),
         NEW top \in Nat, top <= Len(x1), from <= top + 1, RowsOf(x7) = from .. top
  PROVE  /\ TL!EventsTrue(TL!Joined(p)) /\ RowsOf(TL!Joined(p)) = LowOf(p) .. top /\ LowOf(p) \in 1 .. from
         /\ p.more => p.oldest \in 2 .. top
         /\ p.more /\ ~p.split => ~(IsText(p.oldest) /\ IsText(p.oldest - 1))
         /\ p.oldest \in Nat
<1>1. /\ TL!TypeOK /\ TL!EventsTrue(x7) /\ Len(x1) \in Nat /\ DOMAIN x1 = 1 .. Len(x1) /\ from \in Nat
  BY LogShape DEF TL!TimelineKept
<1>2. /\ TL!EventsTrue(TL!Range(p.events)) /\ RowsOf(TL!Range(p.events)) = LowOf(p) .. (from - 1)
      /\ LowOf(p) \in 1 .. from /\ p.oldest \in Nat
      /\ p.more => p.oldest \in 2 .. (from - 1)
      /\ p.more /\ ~p.split => ~(IsText(p.oldest) /\ IsText(p.oldest - 1))
  BY <1>1, PageGives
<1>3. RowsOf(x7) \cap RowsOf(TL!Range(p.events)) = {} BY <1>1, <1>2
<1>4. TL!EventsTrue(TL!Joined(p)) /\ RowsOf(TL!Joined(p)) = (from .. top) \cup (LowOf(p) .. (from - 1))
  BY <1>1, <1>2, <1>3, EventsJoin DEF TL!Joined
<1>5. (from .. top) \cup (LowOf(p) .. (from - 1)) = LowOf(p) .. top BY <1>1, <1>2
<1>6. p.more => p.oldest \in 2 .. top BY <1>1, <1>2
<1>7. QED BY <1>2, <1>4, <1>5, <1>6

LEMMA HistoryRead == ASSUME TL!TimelineAssumption, TL!TimelineKept, TL!History PROVE TL!TimelineKept'
<1>1. /\ TL!TypeOK /\ TL!WaitsTrue /\ TL!EventsTrue(x7) /\ TL!WindowTrue /\ Len(x1) \in Nat /\ DOMAIN x1 = 1 .. Len(x1)
      /\ Len(x1) <= MaxLog /\ MaxLog \in Nat
  BY LogShape DEF TL!TimelineKept, TL!TimelineAssumption
<1>2. PICK from : from = TL!Below(x5) OBVIOUS
<1>3. PICK p : p = TL!Page(from) OBVIOUS
<1>4. /\ x4 = "opening" /\ x7' = TL!Joined(p) /\ x5' = (IF p.more THEN p.oldest ELSE 0)
      /\ IF TL!NeedsEarlier(p) THEN UNCHANGED <<x4, x6>> ELSE x4' = "open" /\ x6' = TL!LastSeq(x7')
      /\ UNCHANGED <<x1, x2, x3, x8>>
  BY <1>2, <1>3 DEF TL!History
<1>5. \E top \in Nat : /\ from \in 1 .. (Len(x1) + 1) /\ top <= Len(x1) /\ from <= top + 1
                       /\ RowsOf(x7) = from .. top /\ (top < 1 => from = 1)
  <2>1. CASE x7 = {} /\ x5 = MaxLog + 1
    <3>1. from = Len(x1) + 1 BY <1>1, <1>2, <2>1 DEF TL!Below
    <3>2. RowsOf(x7) = {} /\ from .. Len(x1) = {} BY <1>1, <2>1, <3>1 DEF RowsOf
    <3>3. QED BY <1>1, <3>1, <3>2
  <2>2. CASE \E top \in DOMAIN x1 : x5 \in 2 .. top /\ TL!Held = x5 .. top
    <3>1. PICK top \in 1 .. Len(x1) : x5 \in 2 .. top /\ TL!Held = x5 .. top BY <1>1, <2>2
    <3>2. from = x5 BY <1>1, <1>2, <3>1 DEF TL!Below
    <3>3. RowsOf(x7) = TL!Held BY DEF RowsOf, TL!Held
    <3>4. QED BY <1>1, <3>1, <3>2, <3>3
  <2>3. QED BY <1>1, <1>4, <2>1, <2>2 DEF TL!WindowTrue
<1>6. PICK top \in Nat : /\ from \in 1 .. (Len(x1) + 1) /\ top <= Len(x1) /\ from <= top + 1
                         /\ RowsOf(x7) = from .. top /\ (top < 1 => from = 1)
  BY <1>5
<1>7. /\ TL!EventsTrue(x7') /\ RowsOf(x7') = LowOf(p) .. top /\ LowOf(p) \in 1 .. from
      /\ p.more => p.oldest \in 2 .. top
      /\ p.more /\ ~p.split => ~(IsText(p.oldest) /\ IsText(p.oldest - 1))
      /\ p.oldest \in Nat
  BY <1>3, <1>4, <1>6, PageJoined
<1>8. TL!Held' = LowOf(p) .. top BY <1>7 DEF TL!Held, RowsOf
<1>9. x5' \in 0 .. (MaxLog + 1) BY <1>1, <1>4, <1>6, <1>7
<1>10. CASE TL!NeedsEarlier(p)
  <2>1. x4' = "opening" /\ x6' = x6 /\ p.more BY <1>4, <1>10 DEF TL!NeedsEarlier, TL!NeedsEarlierBoth
  <2>2. x5' = p.oldest /\ x5' \in 2 .. top /\ TL!Held' = x5' .. top BY <1>4, <1>7, <1>8, <2>1 DEF LowOf
  <2>3. top \in DOMAIN x1' BY <1>1, <1>4, <1>6, <2>2
  <2>4. TL!WindowTrue' BY <2>1, <2>2, <2>3 DEF TL!WindowTrue
  <2>5. x6' \in 0 .. Len(x1) BY <1>1, <2>1 DEF TL!TypeOK
  <2>6. QED BY <1>4, <1>7, <1>9, <2>1, <2>4, <2>5, WindowMoves
<1>11. CASE ~TL!NeedsEarlier(p)
  <2>1. x4' = "open" /\ x6' = TL!LastSeq(x7') BY <1>4, <1>11
  <2>2. x6' = top
    <3>1. LowOf(p) \in Nat /\ LowOf(p) <= top + 1 /\ (top < LowOf(p) => top = 0) BY <1>6, <1>7 DEF LowOf
    <3>2. QED BY <1>7, <2>1, <3>1, LastRow
  <2>3. x6' \in 0 .. Len(x1) BY <1>1, <1>6, <2>2
  <2>4. p.more => ~p.split /\ ~TL!PendingBelow(p.oldest) BY <1>11 DEF TL!NeedsEarlier, TL!NeedsEarlierBoth
  <2>5. x5' \in {0} \cup (2 .. x6') /\ TL!Held' = {i \in 1 .. x6' : i >= x5'}
    <3>1. CASE p.more BY <1>4, <1>7, <1>8, <2>2, <3>1 DEF LowOf
    <3>2. CASE ~p.more BY <1>4, <1>7, <1>8, <2>2, <3>2 DEF LowOf
    <3>3. QED BY <3>1, <3>2
  <2>6. ~x8' /\ x5' > 1 => ~(x1'[x5'].kind = "text" /\ x1'[x5' - 1].kind = "text")
    BY <1>4, <1>7, <2>4 DEF IsText
  <2>7. \A i \in DOMAIN x1' : (i < x5' /\ x1'[i].kind = "ask") => x1'[i].ask \notin x2'
    <3>1. SUFFICES ASSUME NEW i \in 1 .. Len(x1), i < x5', x1[i].kind = "ask", x1[i].ask \in x2 PROVE FALSE
      BY <1>1, <1>4
    <3>2. p.more /\ x5' = p.oldest BY <1>4, <1>7, <3>1
    <3>3. i \in 1 .. (p.oldest - 1) BY <1>7, <3>1, <3>2
    <3>4. PICK j \in (i + 1) .. Len(x1) : ~(x1[j].kind \notin {"user", "ended"} /\ ~(x1[j].kind = "answer" /\ x1[j].ask = x1[i].ask))
      BY <2>4, <3>1, <3>2, <3>3 DEF TL!PendingBelow
    <3>5. j \in DOMAIN x1 /\ i \in DOMAIN x1 /\ i < j BY <1>1, <3>1
    <3>6. QED BY <1>1, <3>1, <3>4, <3>5 DEF TL!WaitsTrue
  <2>8. TL!WindowTrue' BY <2>1, <2>5, <2>6, <2>7 DEF TL!WindowTrue
  <2>9. QED BY <1>4, <1>7, <1>9, <2>1, <2>3, <2>8, WindowMoves
<1>12. QED BY <1>10, <1>11

LEMMA EarlierRead == ASSUME TL!TimelineAssumption, TL!TimelineKept, TL!LoadEarlier PROVE TL!TimelineKept'
<1>1. /\ TL!TypeOK /\ TL!WaitsTrue /\ TL!EventsTrue(x7) /\ TL!WindowTrue /\ Len(x1) \in Nat /\ DOMAIN x1 = 1 .. Len(x1)
      /\ Len(x1) <= MaxLog /\ MaxLog \in Nat
  BY LogShape DEF TL!TimelineKept, TL!TimelineAssumption
<1>2. PICK p : p = TL!Page(x5) OBVIOUS
<1>3. /\ x4 = "open" /\ x5 # 0 /\ x7' = TL!Joined(p) /\ x5' = (IF p.more THEN p.oldest ELSE 0)
      /\ x8' = TRUE /\ UNCHANGED <<x1, x2, x3, x4, x6>>
  BY <1>2 DEF TL!LoadEarlier
<1>4. x6 \in Nat /\ x6 <= Len(x1) BY <1>1 DEF TL!TypeOK
<1>5. /\ x5 \in 2 .. x6 /\ TL!Held = {i \in 1 .. x6 : i >= x5}
      /\ \A i \in DOMAIN x1 : (i < x5 /\ x1[i].kind = "ask") => x1[i].ask \notin x2
  BY <1>1, <1>3 DEF TL!WindowTrue
<1>6. RowsOf(x7) = x5 .. x6 BY <1>4, <1>5 DEF RowsOf, TL!Held
<1>7. x5 \in 1 .. (Len(x1) + 1) /\ x5 <= x6 + 1 BY <1>1, <1>4, <1>5
<1>8. /\ TL!EventsTrue(x7') /\ RowsOf(x7') = LowOf(p) .. x6 /\ LowOf(p) \in 1 .. x5
      /\ p.more => p.oldest \in 2 .. x6
      /\ p.oldest \in Nat
  BY <1>2, <1>3, <1>4, <1>6, <1>7, PageJoined
<1>9. TL!Held' = LowOf(p) .. x6 BY <1>8 DEF TL!Held, RowsOf
<1>10. x5' \in {0} \cup (2 .. x6') /\ TL!Held' = {i \in 1 .. x6' : i >= x5'}
  <2>1. CASE p.more BY <1>3, <1>8, <1>9, <2>1 DEF LowOf
  <2>2. CASE ~p.more BY <1>3, <1>8, <1>9, <2>2 DEF LowOf
  <2>3. QED BY <2>1, <2>2
<1>11. x5' \in 0 .. (MaxLog + 1) /\ x5' <= x5
  <2>1. p.more => p.oldest = LowOf(p) BY DEF LowOf
  <2>2. QED BY <1>1, <1>3, <1>4, <1>5, <1>8, <2>1
<1>12. \A i \in DOMAIN x1' : (i < x5' /\ x1'[i].kind = "ask") => x1'[i].ask \notin x2'
  <2>1. \A i \in DOMAIN x1 : i < x5' => i < x5 BY <1>1, <1>5, <1>11
  <2>2. QED BY <1>3, <1>5, <2>1
<1>13. TL!WindowTrue' BY <1>3, <1>10, <1>12 DEF TL!WindowTrue
<1>14. x6' \in 0 .. Len(x1) BY <1>3, <1>4
<1>15. QED BY <1>3, <1>8, <1>11, <1>13, <1>14, WindowMoves

LEMMA RowsPolled == ASSUME TL!TimelineAssumption, TL!TimelineKept, TL!Poll PROVE TL!TimelineKept'
<1>1. /\ TL!TypeOK /\ TL!WaitsTrue /\ TL!EventsTrue(x7) /\ TL!WindowTrue /\ Len(x1) \in Nat /\ DOMAIN x1 = 1 .. Len(x1)
      /\ Len(x1) <= MaxLog /\ MaxLog \in Nat /\ PollRows \in Nat
  BY LogShape DEF TL!TimelineKept, TL!TimelineAssumption
<1>2. PICK new : new = TL!NextRows OBVIOUS
<1>3. /\ x4 = "open" /\ new # {} /\ x7' = x7 \cup {[seq |-> i, rows |-> {i}] : i \in new} /\ x6' = TL!Max(new)
      /\ UNCHANGED <<x1, x2, x3, x4, x5, x8>>
  BY <1>2 DEF TL!Poll
<1>4. x6 \in Nat /\ x6 <= Len(x1) /\ x5 \in 0 .. (MaxLog + 1) BY <1>1 DEF TL!TypeOK
<1>5. /\ x5 \in {0} \cup (2 .. x6) /\ TL!Held = {i \in 1 .. x6 : i >= x5}
      /\ ~x8 /\ x5 > 1 => ~(x1[x5].kind = "text" /\ x1[x5 - 1].kind = "text")
      /\ \A i \in DOMAIN x1 : (i < x5 /\ x1[i].kind = "ask") => x1[i].ask \notin x2
  BY <1>1, <1>3 DEF TL!WindowTrue
<1>20. PICK N \in Nat : N = Len(x1) BY <1>1
<1>21. DOMAIN x1 = 1 .. N /\ x6 <= N BY <1>1, <1>4, <1>20
<1>22. PollRows \in Nat BY <1>1
<1>6. PICK end \in Nat : end = IF x6 + PollRows < N THEN x6 + PollRows ELSE N
  <2>1. x6 + PollRows \in Nat BY <1>4, <1>22
  <2>2. QED BY <1>20, <2>1
<1>7. new = (x6 + 1) .. end /\ end > x6 /\ end <= N
  <2>1. new = {i \in 1 .. N : i > x6 /\ i <= x6 + PollRows} BY <1>2, <1>21 DEF TL!NextRows, TL!NextRowsAfter
  <2>2. \A i \in 1 .. N : (i > x6 /\ i <= x6 + PollRows) <=> i \in (x6 + 1) .. end BY <1>4, <1>20, <1>21, <1>22, <1>6
  <2>3. (x6 + 1) .. end \subseteq 1 .. N BY <1>4, <1>20, <1>21, <1>6
  <2>4. new = (x6 + 1) .. end BY <2>1, <2>2, <2>3
  <2>5. end > x6
    <3>1. SUFFICES ASSUME ~(end > x6) PROVE FALSE OBVIOUS
    <3>2. (x6 + 1) .. end = {} BY <1>4, <1>6, <3>1
    <3>3. QED BY <1>3, <2>4, <3>2
  <2>6. end <= N BY <1>6, <1>20
  <2>7. QED BY <2>4, <2>5, <2>6
<1>8. x6' = end
  <2>1. end \in new /\ \A i \in new : i \in Nat /\ end >= i BY <1>4, <1>6, <1>7
  <2>2. \A x \in new : (\A y \in new : x >= y) => x = end BY <2>1
  <2>3. TL!Max(new) = end BY <2>1, <2>2 DEF TL!Max
  <2>4. QED BY <1>3, <2>3
<1>9. PICK fresh : fresh = {[seq |-> i, rows |-> {i}] : i \in new} OBVIOUS
<1>10. \A e \in fresh : \E i \in new : e = [seq |-> i, rows |-> {i}] BY <1>9
<1>11. TL!EventsTrue(fresh) /\ RowsOf(fresh) = new
  <2>1. \A e \in fresh : e \in TL!Events /\ e.seq \in new /\ e.rows = {e.seq}
    <3>1. SUFFICES ASSUME NEW e \in fresh PROVE e \in TL!Events /\ e.seq \in new /\ e.rows = {e.seq} OBVIOUS
    <3>2. PICK i \in new : e = [seq |-> i, rows |-> {i}] BY <1>10
    <3>3. i \in Nat BY <1>4, <1>6, <1>7
    <3>4. QED BY <3>2, <3>3 DEF TL!Events
  <2>2. \A i \in new : i \in Nat /\ i \in DOMAIN x1 BY <1>4, <1>6, <1>7, <1>20, <1>21
  <2>3. \A d, e \in fresh : d # e => d.rows \cap e.rows = {}
    <3>1. SUFFICES ASSUME NEW d \in fresh, NEW e \in fresh, d.rows \cap e.rows # {} PROVE d = e OBVIOUS
    <3>2. PICK i \in new : d = [seq |-> i, rows |-> {i}] BY <1>10
    <3>3. PICK j \in new : e = [seq |-> j, rows |-> {j}] BY <1>10
    <3>4. i = j BY <3>1, <3>2, <3>3
    <3>5. QED BY <3>2, <3>3, <3>4
  <2>4. TL!EventsTrue(fresh) BY <2>1, <2>2, <2>3 DEF TL!EventsTrue
  <2>5. RowsOf(fresh) \subseteq new BY <2>1 DEF RowsOf
  <2>6. new \subseteq RowsOf(fresh)
    <3>1. SUFFICES ASSUME NEW i \in new PROVE i \in RowsOf(fresh) OBVIOUS
    <3>2. [seq |-> i, rows |-> {i}] \in fresh /\ i \in [seq |-> i, rows |-> {i}].rows BY <1>9
    <3>3. QED BY <3>2 DEF RowsOf
  <2>7. QED BY <2>4, <2>5, <2>6
<1>12. RowsOf(x7) = {i \in 1 .. x6 : i >= x5} BY <1>5 DEF RowsOf, TL!Held
<1>13. RowsOf(x7) \cap RowsOf(fresh) = {} BY <1>4, <1>6, <1>7, <1>11, <1>12
<1>14. TL!EventsTrue(x7') /\ RowsOf(x7') = RowsOf(x7) \cup RowsOf(fresh)
  BY <1>1, <1>3, <1>9, <1>11, <1>13, EventsJoin
<1>15. TL!Held' = {i \in 1 .. end : i >= x5}
  <2>1. TL!Held' = {i \in 1 .. x6 : i >= x5} \cup ((x6 + 1) .. end) BY <1>7, <1>11, <1>12, <1>14 DEF TL!Held, RowsOf
  <2>2. \A i \in 1 .. end : (i \in 1 .. x6 \/ i \in (x6 + 1) .. end) /\ (i > x6 => i >= x5) BY <1>4, <1>5, <1>6, <1>7
  <2>3. QED BY <1>4, <1>6, <1>7, <2>1, <2>2
<1>16. x5' \in {0} \cup (2 .. x6') BY <1>3, <1>4, <1>5, <1>6, <1>7, <1>8
<1>17. TL!WindowTrue' BY <1>3, <1>5, <1>8, <1>15, <1>16 DEF TL!WindowTrue
<1>18. x6' \in 0 .. Len(x1) BY <1>6, <1>7, <1>8, <1>20
<1>19. QED BY <1>3, <1>4, <1>14, <1>17, <1>18, WindowMoves

\* Every step keeps it.
LEMMA NextTimeline == ASSUME TL!TimelineAssumption, TL!TimelineKept, [TL!Next]_(TL!vars) PROVE TL!TimelineKept'
<1>1. MaxLog \in Nat /\ TL!TypeOK /\ TL!WindowTrue /\ TL!EventsTrue(x7) /\ Len(x1) \in Nat
  BY LogShape DEF TL!TimelineAssumption, TL!TimelineKept
<1>2. CASE TL!Select
  <2>1. /\ x4' = "opening" /\ x5' = MaxLog + 1 /\ x7' = {} /\ x6' = 0 /\ UNCHANGED <<x1, x2, x3>>
    BY <1>2 DEF TL!Select
  <2>2. TL!EventsTrue(x7') BY <2>1 DEF TL!EventsTrue
  <2>3. TL!WindowTrue' BY <2>1 DEF TL!WindowTrue
  <2>4. x5' \in 0 .. (MaxLog + 1) /\ x6' \in 0 .. Len(x1) BY <1>1, <2>1
  <2>5. QED BY <2>1, <2>2, <2>3, <2>4, WindowMoves
<1>3. CASE UNCHANGED TL!vars
  <2>1. UNCHANGED <<x1, x2, x3>> /\ x4' = x4 /\ x5' = x5 /\ x6' = x6 /\ x7' = x7 /\ x8' = x8
    BY <1>3 DEF TL!vars
  <2>2. TL!WindowTrue' BY <1>1, <2>1 DEF TL!WindowTrue, TL!Held
  <2>3. x4' \in {"shut", "opening", "open"} /\ x5' \in 0 .. (MaxLog + 1) /\ x6' \in 0 .. Len(x1) BY <1>1, <2>1 DEF TL!TypeOK
  <2>4. TL!EventsTrue(x7') BY <1>1, <2>1
  <2>5. QED BY <2>1, <2>2, <2>3, <2>4, WindowMoves
<1>4. QED BY <1>2, <1>3, WorkWritten, HistoryRead, RowsPolled, EarlierRead DEF TL!Next

\* What is held is held once, and what waits is held or comes.
LEMMA TimelineShown == ASSUME TL!TimelineAssumption, TL!TimelineKept PROVE TL!ShownOnce /\ TL!AsksShown /\ TL!TypeOK
<1>1. TL!TypeOK /\ TL!EventsTrue(x7) /\ TL!WindowTrue /\ DOMAIN x1 = 1 .. Len(x1) /\ Len(x1) \in Nat BY LogShape DEF TL!TimelineKept
<1>2. \A d, e \in x7 : d # e => d.seq # e.seq /\ d.rows \cap e.rows = {} BY <1>1 DEF TL!EventsTrue
<1>3. TL!ShownOnce BY <1>1, <1>2 DEF TL!ShownOnce, TL!WindowTrue
<1>4. TL!AsksShown
  <2>1. SUFFICES ASSUME x4 = "open", NEW i \in DOMAIN x1, x1[i].kind = "ask", x1[i].ask \in x2
                 PROVE  i \in TL!Held \/ i > x6
    BY DEF TL!AsksShown
  <2>2. x5 \in {0} \cup (2 .. x6) /\ TL!Held = {k \in 1 .. x6 : k >= x5} /\ ~(i < x5)
    BY <1>1, <2>1 DEF TL!WindowTrue
  <2>3. x6 \in Nat /\ x5 \in Nat /\ i \in Nat /\ i >= 1 BY <1>1, <2>1 DEF TL!TypeOK
  <2>4. QED BY <2>2, <2>3
<1>5. QED BY <1>1, <1>3, <1>4

-----------------------------------------------------------------------------
(* TitleSync: the name of a session, here and in the transcript.             *)

\* The last record of a kind is one of that kind that no other follows.
LEMMA LastOfIs ==
  ASSUME NEW R, NEW records \in Seq(R), NEW custom, NEW old
  PROVE  \/ TS!LastOf(records, custom, old) = old /\ \A i \in DOMAIN records : records[i].custom # custom
         \/ \E i \in DOMAIN records :
              /\ TS!LastOf(records, custom, old) = records[i] /\ records[i].custom = custom
              /\ \A j \in (i + 1) .. Len(records) : records[j].custom # custom
<1> DEFINE of == {i \in DOMAIN records : records[i].custom = custom}
<1>1. CASE of = {} BY <1>1 DEF TS!LastOf
<1>2. CASE of # {}
  <2>1. Len(records) \in Nat /\ DOMAIN records = 1 .. Len(records) OBVIOUS
  <2>0. of \subseteq 0 .. Len(records) BY <2>1
  <2> HIDE DEF of
  <2>2. \E i \in of : \A j \in of : j <= i BY <1>2, <2>0, <2>1, GreatestOf
  <2> USE DEF of
  <2>3. PICK i : i = CHOOSE k \in of : \A j \in of : j <= k OBVIOUS
  <2>4. i \in of /\ \A j \in of : j <= i BY <2>2, <2>3
  <2>5. TS!LastOf(records, custom, old) = records[i] BY <1>2, <2>3 DEF TS!LastOf
  <2>6. \A j \in (i + 1) .. Len(records) : records[j].custom # custom BY <2>1, <2>4
  <2>7. QED BY <2>4, <2>5, <2>6
<1>3. QED BY <1>1, <1>2

\* A title on the end of a list.
LEMMA AppendNamed ==
  ASSUME NEW s \in Seq(TS!TitleRecords), NEW r \in TS!TitleRecords, NEW n,
         r.custom => n <= r.title, ~r.custom => TS!LastNamed(s, n)
  PROVE  TS!LastNamed(Append(s, r), n)
<1> DEFINE a == Append(s, r)
<1>1. /\ Len(s) \in Nat /\ Len(a) = Len(s) + 1 /\ DOMAIN a = 1 .. Len(s) + 1
      /\ a[Len(s) + 1] = r /\ \A i \in 1 .. Len(s) : a[i] = s[i]
  OBVIOUS
<1> HIDE DEF a
<1>2. SUFFICES ASSUME NEW i \in DOMAIN a, a[i].custom, \A j \in (i + 1) .. Len(a) : ~a[j].custom
               PROVE  n <= a[i].title
  BY DEF TS!LastNamed, a
<1>3. CASE i = Len(s) + 1 BY <1>1, <1>2, <1>3
<1>4. CASE i # Len(s) + 1
  <2>1. i \in 1 .. Len(s) /\ i \in DOMAIN s /\ Len(s) + 1 \in (i + 1) .. Len(a) BY <1>1, <1>4
  <2>2. ~r.custom BY <1>1, <1>2, <2>1
  <2>3. \A j \in (i + 1) .. Len(s) : ~s[j].custom BY <1>1, <1>2, <2>1
  <2>4. QED BY <1>1, <1>2, <2>1, <2>2, <2>3 DEF TS!LastNamed
<1>5. QED BY <1>3, <1>4

\* One list after another.
LEMMA JoinNamed ==
  ASSUME NEW s \in Seq(TS!TitleRecords), NEW t \in Seq(TS!TitleRecords), NEW n,
         TS!Names0(t) => TS!LastNamed(t, n), ~TS!Names0(t) => TS!LastNamed(s, n)
  PROVE  TS!LastNamed(s \o t, n)
<1> DEFINE a == s \o t
<1>1. /\ Len(s) \in Nat /\ Len(t) \in Nat /\ Len(a) = Len(s) + Len(t) /\ DOMAIN a = 1 .. Len(s) + Len(t)
      /\ DOMAIN t = 1 .. Len(t) /\ DOMAIN s = 1 .. Len(s)
      /\ \A i \in 1 .. Len(s) : a[i] = s[i]
      /\ \A i \in 1 .. Len(t) : a[Len(s) + i] = t[i]
  OBVIOUS
<1> HIDE DEF a
<1>2. SUFFICES ASSUME NEW i \in DOMAIN a, a[i].custom, \A j \in (i + 1) .. Len(a) : ~a[j].custom
               PROVE  n <= a[i].title
  BY DEF TS!LastNamed, a
<1>3. CASE i > Len(s)
  <2>1. PICK k \in 1 .. Len(t) : i = Len(s) + k
    <3>1. i - Len(s) \in 1 .. Len(t) /\ i = Len(s) + (i - Len(s)) BY <1>1, <1>3
    <3>2. QED BY <3>1
  <2>2. t[k].custom /\ TS!Names0(t) BY <1>1, <1>2, <2>1 DEF TS!Names0
  <2>3. ASSUME NEW j \in (k + 1) .. Len(t) PROVE ~t[j].custom
    <3>1. Len(s) + j \in (i + 1) .. Len(a) /\ j \in 1 .. Len(t) BY <1>1, <2>1
    <3>2. QED BY <1>1, <1>2, <3>1
  <2>4. QED BY <1>1, <2>1, <2>2, <2>3 DEF TS!LastNamed
<1>4. CASE ~(i > Len(s))
  <2>1. i \in 1 .. Len(s) BY <1>1, <1>4
  <2>2. ASSUME NEW k \in DOMAIN t PROVE ~t[k].custom
    <3>1. Len(s) + k \in (i + 1) .. Len(a) /\ k \in 1 .. Len(t) BY <1>1, <2>1
    <3>2. QED BY <1>1, <1>2, <3>1
  <2>3. TS!LastNamed(s, n) BY <2>2 DEF TS!Names0
  <2>4. ASSUME NEW j \in (i + 1) .. Len(s) PROVE ~s[j].custom
    <3>1. j \in (i + 1) .. Len(a) /\ j \in 1 .. Len(s) BY <1>1, <2>1
    <3>2. QED BY <1>1, <1>2, <3>1
  <2>5. QED BY <1>1, <1>2, <2>1, <2>3, <2>4 DEF TS!LastNamed
<1>5. QED BY <1>1, <1>3, <1>4

\* The head of what was told goes to the log.
LEMMA FlushNamed ==
  ASSUME NEW s \in Seq(TS!TitleRecords), NEW t \in Seq(TS!TitleRecords), t # <<>>, NEW n
  PROVE  /\ (TS!Names0(t) => TS!LastNamed(t, n)) /\ (~TS!Names0(t) => TS!LastNamed(s, n)) =>
              /\ TS!Names0(Tail(t)) => TS!LastNamed(Tail(t), n)
              /\ ~TS!Names0(Tail(t)) => TS!LastNamed(Append(s, Head(t)), n)
         /\ Head(t) \in TS!TitleRecords /\ Tail(t) \in Seq(TS!TitleRecords) /\ Head(t) = t[1] /\ 1 \in DOMAIN t
         /\ \A i \in DOMAIN Tail(t) : i + 1 \in DOMAIN t /\ Tail(t)[i] = t[i + 1]
<1> DEFINE u == Tail(t)
<1>1. /\ Len(t) \in Nat /\ DOMAIN t = 1 .. Len(t) /\ Len(u) = Len(t) - 1 /\ DOMAIN u = 1 .. (Len(t) - 1)
      /\ Len(t) > 0 /\ u \in Seq(TS!TitleRecords) /\ Head(t) = t[1] /\ Head(t) \in TS!TitleRecords
      /\ \A i \in DOMAIN u : u[i] = t[i + 1]
  OBVIOUS
<1> HIDE DEF u
<1>2. 1 \in DOMAIN t /\ \A i \in DOMAIN u : i + 1 \in DOMAIN t /\ u[i] = t[i + 1] BY <1>1
<1>3. ASSUME (TS!Names0(t) => TS!LastNamed(t, n)) /\ (~TS!Names0(t) => TS!LastNamed(s, n))
      PROVE  (TS!Names0(u) => TS!LastNamed(u, n)) /\ (~TS!Names0(u) => TS!LastNamed(Append(s, Head(t)), n))
  <2>1. CASE TS!Names0(u)
    <3>1. TS!Names0(t) BY <1>2, <2>1 DEF TS!Names0
    <3>2. TS!LastNamed(t, n) BY <1>3, <3>1
    <3>3. ASSUME NEW i \in DOMAIN u, u[i].custom, \A j \in (i + 1) .. Len(u) : ~u[j].custom
          PROVE  n <= u[i].title
      <4>1. ASSUME NEW j \in (i + 1 + 1) .. Len(t) PROVE ~t[j].custom
        <5>1. j - 1 \in (i + 1) .. Len(u) /\ j - 1 \in DOMAIN u /\ (j - 1) + 1 = j BY <1>1
        <5>2. u[j - 1] = t[(j - 1) + 1] BY <1>2, <5>1
        <5>3. ~u[j - 1].custom BY <3>3, <5>1
        <5>4. QED BY <5>1, <5>2, <5>3
      <4>2. i + 1 \in DOMAIN t /\ t[i + 1].custom BY <1>2, <3>3
      <4>3. n <= t[i + 1].title BY <3>2, <4>1, <4>2 DEF TS!LastNamed
      <4>4. QED BY <1>2, <4>3
    <3>4. TS!LastNamed(u, n) BY <3>3 DEF TS!LastNamed
    <3>5. QED BY <2>1, <3>4
  <2>2. CASE ~TS!Names0(u)
    <3>1. \A j \in 2 .. Len(t) : ~t[j].custom
      <4>1. SUFFICES ASSUME NEW j \in 2 .. Len(t) PROVE ~t[j].custom OBVIOUS
      <4>2. j - 1 \in DOMAIN u /\ (j - 1) + 1 = j BY <1>1
      <4>3. u[j - 1] = t[(j - 1) + 1] BY <1>2, <4>2
      <4>4. QED BY <2>2, <4>2, <4>3 DEF TS!Names0
    <3>2. CASE t[1].custom
      <4>1. TS!LastNamed(t, n) BY <1>2, <1>3, <3>2 DEF TS!Names0
      <4>2. n <= t[1].title BY <1>1, <1>2, <3>1, <3>2, <4>1 DEF TS!LastNamed
      <4>3. TS!LastNamed(Append(s, Head(t)), n) BY <1>1, <3>2, <4>2, AppendNamed
      <4>4. QED BY <2>2, <4>3
    <3>3. CASE ~t[1].custom
      <4>1. ~TS!Names0(t) BY <1>1, <3>1, <3>3 DEF TS!Names0
      <4>2. TS!LastNamed(s, n) BY <1>3, <4>1
      <4>3. TS!LastNamed(Append(s, Head(t)), n) BY <1>1, <3>3, <4>2, AppendNamed
      <4>4. QED BY <2>2, <4>3
    <3>4. QED BY <3>2, <3>3
  <2>3. QED BY <2>1, <2>2
<1>4. QED BY <1>1, <1>2, <1>3 DEF u

\* All titles are numbers that were given.
LEMMA KnownNumbers == ASSUME TS!TitlesKept
  PROVE  /\ x1 \in Nat /\ x11 \in Nat /\ x13 \in Nat /\ x11 <= x1 /\ x13 <= x1
         /\ \A n \in TS!Known : n \in Nat /\ n <= x1
<1>1. x1 \in Nat /\ x11 \in Nat /\ x13 \in Nat BY DEF TS!TitlesKept, TS!Shape, TS!Titles
<1>2. x11 \in TS!Known \cup {x11, x13} /\ x13 \in TS!Known \cup {x11, x13} OBVIOUS
<1>3. x11 <= x1 /\ x13 <= x1 /\ \A n \in TS!Known : n <= x1 BY <1>2 DEF TS!TitlesKept, TS!Numbered
<1>4. ASSUME NEW n \in TS!Known PROVE n \in Nat
  <2>1. x2.title \in Nat /\ x8.custom.title \in Nat /\ x8.generated.title \in Nat
    BY DEF TS!TitlesKept, TS!Shape, TS!TitleRecords
  <2>2. ASSUME NEW i \in DOMAIN x4 PROVE x4[i].title \in Nat
    <3>1. x4[i] \in TS!TitleRecords BY DEF TS!TitlesKept, TS!Shape
    <3>2. QED BY <3>1 DEF TS!TitleRecords
  <2>3. ASSUME NEW i \in DOMAIN x6 PROVE x6[i].title \in Nat
    <3>1. x6[i] \in TS!TitleRecords BY DEF TS!TitlesKept, TS!Shape
    <3>2. QED BY <3>1 DEF TS!TitleRecords
  <2>4. x9 # TS!NoJob => x9.seen.title \in Nat BY DEF TS!TitlesKept, TS!Shape, TS!JobShape, TS!TitleRecords
  <2>5. x9.step = "read" => x9.found.title \in Nat BY DEF TS!TitlesKept, TS!Shape, TS!JobShape, TS!TitleRecords, TS!NoJob
  <2>6. QED BY <2>1, <2>2, <2>3, <2>4, <2>5 DEF TS!Known
<1>5. QED BY <1>1, <1>3, <1>4

LEMMA InitTitles == ASSUME TS!TitleAssumption, TS!Init PROVE TS!TitlesKept
<1> USE DEF TS!Init, TS!Title, TS!NoTitle, TS!NewIndex, TS!NoJob
<1>0. TS!NoTitle \in TS!TitleRecords /\ TS!NewIndex \in [offset : Nat, custom : TS!TitleRecords, generated : TS!TitleRecords]
  BY DEF TS!TitleRecords
<1>1. TS!Shape
  <2>1. x1 \in TS!Titles BY DEF TS!Titles, TS!TitleAssumption
  <2>2. x4 \in Seq(TS!TitleRecords) /\ x6 \in Seq(TS!TitleRecords) /\ Len(x4) = 0 OBVIOUS
  <2>3. x2 \in TS!TitleRecords /\ x8 \in [offset : Nat, custom : TS!TitleRecords, generated : TS!TitleRecords] /\ x8.offset = 0
    BY <1>0
  <2>4. TS!JobShape BY DEF TS!JobShape
  <2>5. /\ x11 \in Nat /\ x13 \in Nat /\ x12 \in Nat /\ x3 \in {1, 2}
        /\ x7 \in BOOLEAN /\ x5 \in BOOLEAN /\ (~x7 => x6 = <<>> /\ x11 = 0)
    OBVIOUS
  <2>6. QED BY <2>1, <2>2, <2>3, <2>4, <2>5 DEF TS!Shape
<1>2. TS!Numbered BY DEF TS!Numbered, TS!Known
<1>3. TS!LogKept BY DEF TS!LogKept, TS!LastNamed, TS!Names0
<1>4. TS!IndexTrue BY DEF TS!IndexTrue
<1>5. TS!RefreshTrue /\ TS!RenameKept BY DEF TS!RefreshTrue, TS!RenameKept
<1>6. QED BY <1>1, <1>2, <1>3, <1>4, <1>5 DEF TS!TitlesKept

\* Steps that touch neither a title nor what is under way.
LEMMA TitlesRest ==
  ASSUME TS!TitlesKept, UNCHANGED <<x1, x2, x3, x4, x6, x8, x9, x10, x11, x12, x13>>,
         x7' \in BOOLEAN, x5' \in BOOLEAN, ~x7' => x6 = <<>> /\ x11 = 0
  PROVE  TS!TitlesKept'
<1>1. TS!Shape' BY DEF TS!TitlesKept, TS!Shape, TS!JobShape
<1>2. TS!Known' = TS!Known BY DEF TS!Known
<1>3. TS!Numbered' BY <1>2 DEF TS!TitlesKept, TS!Numbered
<1>4. TS!LogKept' /\ TS!IndexTrue' /\ TS!RefreshTrue' /\ TS!RenameKept'
  BY DEF TS!TitlesKept, TS!LogKept, TS!IndexTrue, TS!RefreshTrue, TS!RenameKept
<1>5. QED BY <1>1, <1>3, <1>4 DEF TS!TitlesKept

\* A new log has no titles, and what was found in the old one counts no more.
LEMMA NewNativeKept == ASSUME TS!TitlesKept, TS!NewNative PROVE TS!TitlesKept'
<1> USE DEF TS!TitlesKept, TS!NewNative, TS!Title, TS!NoTitle, TS!NewIndex
<1>0. TS!NoTitle \in TS!TitleRecords /\ TS!NewIndex \in [offset : Nat, custom : TS!TitleRecords, generated : TS!TitleRecords]
  BY DEF TS!TitleRecords
<1>1. TS!Shape'
  <2>1. x4' \in Seq(TS!TitleRecords) /\ x6' \in Seq(TS!TitleRecords) /\ Len(x4') = 0 OBVIOUS
  <2>2. x8' \in [offset : Nat, custom : TS!TitleRecords, generated : TS!TitleRecords] /\ x8'.offset = 0 BY <1>0
  <2>3. x3' \in {1, 2} /\ x7' \in BOOLEAN /\ x5' \in BOOLEAN /\ (~x7' => x6' = <<>> /\ x11' = 0)
    BY DEF TS!Shape
  <2>4. QED BY <2>1, <2>2, <2>3 DEF TS!Shape, TS!JobShape
<1>2. TS!Known' \subseteq TS!Known \cup {0} BY DEF TS!Known
<1>3. TS!Numbered' BY <1>2 DEF TS!Numbered, TS!Shape, TS!Titles
<1>4. TS!LogKept' BY DEF TS!LogKept, TS!LastNamed, TS!Names0
<1>5. TS!IndexTrue' BY DEF TS!IndexTrue
<1>6. TS!RefreshTrue' BY DEF TS!RefreshTrue, TS!Shape, TS!JobShape
<1>7. TS!RenameKept' BY DEF TS!RenameKept
<1>8. QED BY <1>1, <1>3, <1>4, <1>5, <1>6, <1>7

\* The CLI names the session: newer than everything.
LEMMA NamesKept == ASSUME TS!TitleAssumption, TS!TitlesKept, NEW t \in TS!Titles, NEW custom \in BOOLEAN, TS!Names(t, custom) PROVE TS!TitlesKept'
<1>1. PICK r : r = TS!Title(t, custom) OBVIOUS
<1>2. /\ r \in TS!TitleRecords /\ r.title = t /\ r.custom = custom /\ t = x1 + 1 /\ x1' = t
      /\ x1 \in Nat /\ t \in Nat
      /\ x6' = Append(x6, r) /\ x7
      /\ x2' = IF x2.custom /\ ~custom THEN x2 ELSE TS!Title(t, x2.custom \/ custom)
      /\ UNCHANGED <<x3, x4, x5, x7, x8, x9, x10, x11, x12, x13>>
  BY <1>1 DEF TS!Names, TS!New, TS!Synced, TS!Title, TS!TitleRecords, TS!Titles, TS!TitlesKept, TS!Shape, TS!TitleAssumption
<1>3. x6 \in Seq(TS!TitleRecords) /\ x2 \in TS!TitleRecords /\ x4 \in Seq(TS!TitleRecords) BY DEF TS!TitlesKept, TS!Shape
<1>4. /\ Len(x6) \in Nat /\ DOMAIN x6 = 1 .. Len(x6) /\ DOMAIN x6' = 1 .. Len(x6) + 1 /\ Len(x6') = Len(x6) + 1
      /\ x6'[Len(x6) + 1] = r /\ (\A i \in DOMAIN x6 : x6'[i] = x6[i]) /\ x6' \in Seq(TS!TitleRecords)
  BY <1>2, <1>3
<1>5. x2' \in TS!TitleRecords /\ x2'.title \in {x2.title, t} BY <1>2, <1>3 DEF TS!Title, TS!TitleRecords
<1>6. TS!Shape' BY <1>2, <1>4, <1>5 DEF TS!TitlesKept, TS!Shape, TS!JobShape
<1>7. TS!Known' \subseteq TS!Known \cup {t}
  <2>1. SUFFICES ASSUME NEW n \in TS!Known', n # t PROVE n \in TS!Known OBVIOUS
  <2>2. CASE n = x2'.title BY <1>5, <2>1, <2>2 DEF TS!Known
  <2>3. CASE n \in {x6'[i].title : i \in DOMAIN x6'} BY <1>2, <1>4, <2>1, <2>3 DEF TS!Known
  <2>4. QED BY <1>2, <2>1, <2>2, <2>3 DEF TS!Known
<1>8. TS!Numbered'
  <2>1. \A n \in TS!Known \cup {x11, x13} : n \in Nat /\ n <= x1 BY KnownNumbers
  <2>2. x11 < t /\ x11 \in Nat BY <1>2, KnownNumbers
  <2>3. x10 # TS!NoJob => x10.title < t /\ x10.title \in Nat BY <1>2 DEF TS!TitlesKept, TS!Shape, TS!JobShape, TS!Numbered, TS!NoJob
  <2>4. \A n \in (TS!Known \cup {x11, x13})' : n <= x1' BY <1>2, <1>7, <2>1
  <2>5. x11' # 0 => x11' \notin TS!Known' BY <1>2, <1>7, <2>2 DEF TS!TitlesKept, TS!Numbered
  <2>6. x10' # TS!NoJob => \A i \in DOMAIN x6' : x10'.title < x6'[i].title
    BY <1>2, <1>4, <2>3 DEF TS!TitlesKept, TS!Numbered
  <2>7. x10' # TS!NoJob /\ x10'.step = "asked" => x10'.title \notin TS!Known'
    BY <1>2, <1>7, <2>3 DEF TS!TitlesKept, TS!Numbered
  <2>8. x10' # TS!NoJob => /\ 0 < x10'.title /\ x10'.title <= x1'
                           /\ x11' # 0 => x10'.title < x11'
    BY <1>2, <2>3 DEF TS!TitlesKept, TS!Numbered
  <2>9. QED BY <2>4, <2>5, <2>6, <2>7, <2>8 DEF TS!Numbered
<1>9. x13 \in Nat /\ x13 <= t BY <1>2, KnownNumbers
<1>10. TS!LogKept'
  <2>1. TS!Names0(x6) => TS!LastNamed(x6, x13) BY DEF TS!TitlesKept, TS!LogKept
  <2>2. CASE custom
    <3>1. TS!LastNamed(x6', x13) BY <1>2, <1>3, <1>9, <2>2, AppendNamed
    <3>5. Len(x6) + 1 \in DOMAIN x6' BY <1>4
    <3>6. r.custom BY <1>2, <2>2
    <3>2. x6'[Len(x6) + 1].custom BY <1>4, <3>6, Zenon
    <3>4. TS!Names0(x6') BY <3>2, <3>5 DEF TS!Names0
    <3>3. QED BY <1>2, <3>1, <3>4 DEF TS!TitlesKept, TS!LogKept, TS!LastNamed
  <2>3. CASE ~custom
    <3>1. TS!Names0(x6') => TS!Names0(x6) BY <1>2, <1>4, <2>3 DEF TS!Names0
    <3>2. TS!Names0(x6) => TS!Names0(x6') BY <1>2, <1>4 DEF TS!Names0
    <3>3. TS!Names0(x6') => TS!LastNamed(x6', x13) BY <1>2, <1>3, <2>1, <2>3, <3>1, AppendNamed
    <3>4. QED BY <1>2, <3>2, <3>3 DEF TS!TitlesKept, TS!LogKept, TS!LastNamed
  <2>4. QED BY <2>2, <2>3
<1>11. TS!IndexTrue' BY <1>2 DEF TS!TitlesKept, TS!IndexTrue
<1>12. TS!RefreshTrue'
  <2>1. x9 # TS!NoJob => x9.seen.title \in Nat /\ x9.seen.title < t
    BY <1>2 DEF TS!TitlesKept, TS!Shape, TS!JobShape, TS!Numbered, TS!Known, TS!NoJob, TS!TitleRecords
  <2>2. x9 # TS!NoJob /\ x9.seen = x2' => x2' = x2 /\ (x2.custom => ~custom)
    BY <1>2, <1>3, <2>1 DEF TS!Title, TS!TitleRecords
  <2>3. QED BY <1>2, <1>4, <2>2 DEF TS!TitlesKept, TS!RefreshTrue, TS!LastNamed
<1>13. TS!RenameKept' BY <1>2, <1>3, <1>9 DEF TS!TitlesKept, TS!RenameKept, TS!Title
<1>14. QED BY <1>6, <1>8, <1>10, <1>11, <1>12, <1>13 DEF TS!TitlesKept

\* The CLI writes what it has told.
LEMMA FlushKept == ASSUME TS!TitlesKept, TS!Flush PROVE TS!TitlesKept'
<1>1. x4 \in Seq(TS!TitleRecords) /\ x6 \in Seq(TS!TitleRecords) BY DEF TS!TitlesKept, TS!Shape
<1>2. PICK h : h = Head(x6) OBVIOUS
<1>3. /\ x7 /\ x6 # <<>> /\ x4' = Append(x4, h) /\ x6' = Tail(x6) /\ x5' = FALSE
      /\ UNCHANGED <<x1, x2, x3, x7, x8, x9, x10, x11, x12, x13>>
  BY <1>2 DEF TS!Flush
<1>4. /\ h \in TS!TitleRecords /\ x6' \in Seq(TS!TitleRecords) /\ 1 \in DOMAIN x6 /\ x6[1] = h
      /\ \A i \in DOMAIN x6' : i + 1 \in DOMAIN x6 /\ x6'[i] = x6[i + 1]
  BY <1>1, <1>2, <1>3, FlushNamed
<1>5. /\ Len(x4) \in Nat /\ DOMAIN x4 = 1 .. Len(x4) /\ DOMAIN x4' = 1 .. Len(x4) + 1 /\ Len(x4') = Len(x4) + 1
      /\ x4'[Len(x4) + 1] = h /\ (\A i \in DOMAIN x4 : x4'[i] = x4[i]) /\ x4' \in Seq(TS!TitleRecords)
  BY <1>1, <1>3, <1>4
<1>6. TS!Shape'
  <2>1. TS!JobShape' BY <1>3 DEF TS!TitlesKept, TS!Shape, TS!JobShape
  <2>2. x8.offset \in Nat /\ x8.offset <= Len(x4) BY DEF TS!TitlesKept, TS!Shape
  <2>3. Len(x4) <= Len(x4') BY <1>5
  <2>4. x8'.offset <= Len(x4') BY ONLY <1>3, <1>5, <2>2, <2>3
  <2>5. QED BY <1>3, <1>4, <1>5, <2>1, <2>4 DEF TS!TitlesKept, TS!Shape
<1>7. TS!Known' \subseteq TS!Known
  <2>1. SUFFICES ASSUME NEW n \in TS!Known' PROVE n \in TS!Known OBVIOUS
  <2>2. CASE n \in {x6'[i].title : i \in DOMAIN x6'} BY <1>4, <2>2 DEF TS!Known
  <2>3. CASE n \in {x4'[i].title : i \in DOMAIN x4'}
    <3>1. PICK i \in DOMAIN x4' : n = x4'[i].title BY <2>3
    <3>2. CASE i \in DOMAIN x4 BY <1>5, <3>1, <3>2 DEF TS!Known
    <3>3. CASE i = Len(x4) + 1 BY <1>4, <1>5, <3>1, <3>3 DEF TS!Known
    <3>4. QED BY <1>5, <3>2, <3>3
  <2>4. QED BY <1>3, <2>1, <2>2, <2>3 DEF TS!Known
<1>8. TS!Numbered' BY <1>3, <1>4, <1>7 DEF TS!TitlesKept, TS!Numbered
<1>9. x10 # TS!NoJob => x10.title < h.title BY <1>4 DEF TS!TitlesKept, TS!Numbered
<1>10. h.title \in Nat /\ x13 \in Nat BY <1>4, KnownNumbers DEF TS!TitleRecords
<1>11. x10 # TS!NoJob => x10.title \in Nat BY DEF TS!TitlesKept, TS!Shape, TS!JobShape, TS!NoJob
<1>12. TS!LogKept'
  <2>1. (TS!Names0(x6') => TS!LastNamed(x6', x13)) /\ (~TS!Names0(x6') => TS!LastNamed(x4', x13))
    BY <1>1, <1>2, <1>3, FlushNamed DEF TS!TitlesKept, TS!LogKept
  <2>2. ASSUME x10.step = "appended"
        PROVE  (\A i \in DOMAIN x4' : x4'[i].title # x10.title) \/ TS!LastNamed(x4', x10.title)
    <3>1. x10 # TS!NoJob BY <2>2 DEF TS!NoJob
    <3>2. CASE TS!LastNamed(x4, x10.title)
      <4>1. x10.title <= h.title BY <1>9, <1>10, <1>11, <3>1
      <4>2. TS!LastNamed(x4', x10.title) BY <1>1, <1>3, <1>4, <3>2, <4>1, AppendNamed
      <4>3. QED BY <4>2
    <3>3. CASE \A i \in DOMAIN x4 : x4[i].title # x10.title
      <4>1. h.title # x10.title BY <1>9, <1>10, <1>11, <3>1
      <4>2. QED BY <1>5, <3>3, <4>1
    <3>4. QED BY <2>2, <3>2, <3>3 DEF TS!TitlesKept, TS!LogKept
  <2>3. QED BY <1>3, <2>1, <2>2 DEF TS!TitlesKept, TS!LogKept, TS!LastNamed
<1>13. TS!IndexTrue'
  <2>1. x8.offset \in Nat /\ x8.offset <= Len(x4) BY DEF TS!TitlesKept, TS!Shape
  <2>2. \A i \in 1 .. x8.offset : i \in DOMAIN x4 /\ x4'[i] = x4[i] BY <1>5, <2>1
  <2>3. QED BY <1>3, <2>1, <2>2 DEF TS!TitlesKept, TS!IndexTrue
<1>14. TS!RefreshTrue'
  <2> SUFFICES ASSUME x9 # TS!NoJob PROVE TS!RefreshTrue' BY <1>3 DEF TS!RefreshTrue
  <2>1. ASSUME x9.native = x3, x9.seen = x2, x2.custom
        PROVE  TS!LastNamed(x4', x13) /\ \A i \in DOMAIN x6' : x6'[i].custom => x13 <= x6'[i].title
    <3>1. TS!LastNamed(x4, x13) /\ \A i \in DOMAIN x6 : x6[i].custom => x13 <= x6[i].title
      BY <2>1 DEF TS!TitlesKept, TS!RefreshTrue
    <3>2. TS!LastNamed(x4', x13) BY <1>1, <1>3, <1>4, <3>1, AppendNamed
    <3>3. QED BY <1>4, <3>1, <3>2
  <2>2. x10 # TS!NoJob /\ (\E i \in DOMAIN x4' : x4'[i].title = x10.title) =>
          \E i \in DOMAIN x4 : x4[i].title = x10.title
    BY <1>5, <1>9, <1>10, <1>11
  <2>3. QED BY <1>3, <2>1, <2>2 DEF TS!TitlesKept, TS!RefreshTrue, TS!LastNamed
<1>15. TS!RenameKept' BY <1>3 DEF TS!TitlesKept, TS!RenameKept
<1>16. QED BY <1>6, <1>8, <1>12, <1>13, <1>14, <1>15 DEF TS!TitlesKept

\* It writes all of it before it goes.
LEMMA ExitKept == ASSUME TS!TitlesKept, TS!Exit PROVE TS!TitlesKept'
<1>1. x4 \in Seq(TS!TitleRecords) /\ x6 \in Seq(TS!TitleRecords) BY DEF TS!TitlesKept, TS!Shape
<1>3. /\ x7 /\ x4' = x4 \o x6 /\ x6' = <<>> /\ x5' = FALSE /\ x7' = FALSE /\ x11' = 0
      /\ UNCHANGED <<x1, x2, x3, x8, x9, x10, x12, x13>>
  BY DEF TS!Exit
<1>5. /\ Len(x4) \in Nat /\ Len(x6) \in Nat /\ DOMAIN x4 = 1 .. Len(x4) /\ DOMAIN x6 = 1 .. Len(x6)
      /\ DOMAIN x4' = 1 .. Len(x4) + Len(x6) /\ Len(x4') = Len(x4) + Len(x6)
      /\ (\A i \in DOMAIN x4 : x4'[i] = x4[i]) /\ x4' \in Seq(TS!TitleRecords)
      /\ \A i \in DOMAIN x6 : x4'[Len(x4) + i] = x6[i]
  BY <1>1, <1>3
<1>4. x6' \in Seq(TS!TitleRecords) /\ DOMAIN x6' = {} BY <1>3
<1>6. TS!Shape'
  <2>1. TS!JobShape' BY <1>3 DEF TS!TitlesKept, TS!Shape, TS!JobShape
  <2>2. x8.offset \in Nat /\ x8.offset <= Len(x4) BY DEF TS!TitlesKept, TS!Shape
  <2>3. Len(x4) <= Len(x4') BY <1>5
  <2>4. x8'.offset <= Len(x4') BY ONLY <1>3, <1>5, <2>2, <2>3
  <2>5. QED BY <1>3, <1>4, <1>5, <2>1, <2>4 DEF TS!TitlesKept, TS!Shape
<1>2. \A i \in DOMAIN x4' : (i \in DOMAIN x4 /\ x4'[i] = x4[i]) \/ \E k \in DOMAIN x6 : x4'[i] = x6[k]
  <2>1. SUFFICES ASSUME NEW i \in DOMAIN x4', i \notin DOMAIN x4 PROVE \E k \in DOMAIN x6 : x4'[i] = x6[k]
    BY <1>5
  <2>2. i - Len(x4) \in DOMAIN x6 /\ Len(x4) + (i - Len(x4)) = i BY <1>5, <2>1
  <2>3. QED BY <1>5, <2>2
<1>7. TS!Known' \subseteq TS!Known
  <2>1. SUFFICES ASSUME NEW n \in TS!Known' PROVE n \in TS!Known OBVIOUS
  <2>3. CASE n \in {x4'[i].title : i \in DOMAIN x4'} BY <1>2, <2>3 DEF TS!Known
  <2>4. QED BY <1>3, <1>4, <2>1, <2>3 DEF TS!Known
<1>8. TS!Numbered'
  <2>1. x11' <= x1 BY <1>3, KnownNumbers
  <2>2. QED BY <1>3, <1>4, <1>7, <2>1 DEF TS!TitlesKept, TS!Numbered
<1>10. x13 \in Nat BY KnownNumbers
<1>11. x10 # TS!NoJob => x10.title \in Nat BY DEF TS!TitlesKept, TS!Shape, TS!JobShape, TS!NoJob
<1>9. x10 # TS!NoJob => \A k \in DOMAIN x6 : x6[k] \in TS!TitleRecords /\ x6[k].title \in Nat /\ x10.title < x6[k].title
  <2>1. SUFFICES ASSUME x10 # TS!NoJob, NEW k \in DOMAIN x6
                 PROVE  x6[k] \in TS!TitleRecords /\ x6[k].title \in Nat /\ x10.title < x6[k].title
    OBVIOUS
  <2>2. x6[k] \in TS!TitleRecords BY <1>1
  <2>3. x6[k].title \in Nat BY <2>2 DEF TS!TitleRecords
  <2>4. QED BY <2>1, <2>2, <2>3 DEF TS!TitlesKept, TS!Numbered
<1>12. TS!LogKept'
  <2>1. TS!LastNamed(x4', x13)
    BY <1>1, <1>3, JoinNamed DEF TS!TitlesKept, TS!LogKept
  <2>2. ASSUME x10.step = "appended"
        PROVE  (\A i \in DOMAIN x4' : x4'[i].title # x10.title) \/ TS!LastNamed(x4', x10.title)
    <3>1. x10 # TS!NoJob BY <2>2 DEF TS!NoJob
    <3>2. CASE TS!LastNamed(x4, x10.title)
      <4>1. TS!LastNamed(x6, x10.title) BY <1>9, <1>11, <3>1 DEF TS!LastNamed
      <4>2. TS!LastNamed(x4', x10.title) BY <1>1, <1>3, <3>2, <4>1, JoinNamed
      <4>3. QED BY <4>2
    <3>3. CASE \A i \in DOMAIN x4 : x4[i].title # x10.title
      BY <1>2, <1>9, <1>11, <3>1, <3>3
    <3>4. QED BY <2>2, <3>2, <3>3 DEF TS!TitlesKept, TS!LogKept
  <2>3. ~TS!Names0(x6') BY <1>4 DEF TS!Names0
  <2>4. QED BY <1>3, <2>1, <2>2, <2>3 DEF TS!TitlesKept, TS!LogKept, TS!LastNamed
<1>13. TS!IndexTrue'
  <2>1. x8.offset \in Nat /\ x8.offset <= Len(x4) BY DEF TS!TitlesKept, TS!Shape
  <2>2. \A i \in 1 .. x8.offset : i \in DOMAIN x4 /\ x4'[i] = x4[i] BY <1>5, <2>1
  <2>3. QED BY <1>3, <2>1, <2>2 DEF TS!TitlesKept, TS!IndexTrue
<1>14. TS!RefreshTrue'
  <2> SUFFICES ASSUME x9 # TS!NoJob PROVE TS!RefreshTrue' BY <1>3 DEF TS!RefreshTrue
  <2>1. ASSUME x9.native = x3, x9.seen = x2, x2.custom
        PROVE  TS!LastNamed(x4', x13)
    <3>1. TS!LastNamed(x4, x13) /\ \A i \in DOMAIN x6 : x6[i].custom => x13 <= x6[i].title
      BY <2>1 DEF TS!TitlesKept, TS!RefreshTrue
    <3>2. TS!LastNamed(x6, x13) BY <3>1 DEF TS!LastNamed
    <3>3. QED BY <1>1, <1>3, <3>1, <3>2, JoinNamed
  <2>2. x10 # TS!NoJob /\ (\E i \in DOMAIN x4' : x4'[i].title = x10.title) =>
          \E i \in DOMAIN x4 : x4[i].title = x10.title
    BY <1>2, <1>9, <1>11
  <2>3. QED BY <1>3, <1>4, <2>1, <2>2 DEF TS!TitlesKept, TS!RefreshTrue, TS!LastNamed
<1>15. TS!RenameKept' BY <1>3 DEF TS!TitlesKept, TS!RenameKept
<1>16. QED BY <1>6, <1>8, <1>12, <1>13, <1>14, <1>15 DEF TS!TitlesKept

LEMMA LastNameIs ==
  ASSUME NEW records \in Seq(TS!TitleRecords), NEW old
  PROVE  /\ \/ TS!LastOf(records, TRUE, old) = old /\ \A i \in DOMAIN records : ~records[i].custom
            \/ \E i \in DOMAIN records :
                 /\ TS!LastOf(records, TRUE, old) = records[i] /\ records[i].custom
                 /\ \A j \in (i + 1) .. Len(records) : ~records[j].custom
         /\ \/ TS!LastOf(records, FALSE, old) = old
            \/ \E i \in DOMAIN records : TS!LastOf(records, FALSE, old) = records[i] /\ ~records[i].custom
<1>0. \A i \in DOMAIN records : records[i].custom \in BOOLEAN
  <2>1. SUFFICES ASSUME NEW i \in DOMAIN records PROVE records[i].custom \in BOOLEAN OBVIOUS
  <2>2. records[i] \in TS!TitleRecords OBVIOUS
  <2>3. QED BY <2>2 DEF TS!TitleRecords
<1>01. Len(records) \in Nat /\ DOMAIN records = 1 .. Len(records) OBVIOUS
<1>1. ASSUME NEW c
      PROVE  \/ TS!LastOf(records, c, old) = old /\ \A i \in DOMAIN records : records[i].custom # c
             \/ \E i \in DOMAIN records :
                  /\ TS!LastOf(records, c, old) = records[i] /\ records[i].custom = c
                  /\ \A j \in (i + 1) .. Len(records) : records[j].custom # c
  BY LastOfIs
<1>2. PICK c : c = TRUE OBVIOUS
<1>3. PICK d : d = FALSE OBVIOUS
<1>4. \/ TS!LastOf(records, TRUE, old) = old /\ \A i \in DOMAIN records : ~records[i].custom
      \/ \E i \in DOMAIN records :
           /\ TS!LastOf(records, TRUE, old) = records[i] /\ records[i].custom
           /\ \A j \in (i + 1) .. Len(records) : ~records[j].custom
  <2>1. CASE TS!LastOf(records, c, old) = old /\ \A i \in DOMAIN records : records[i].custom # c
    <3>1. \A i \in DOMAIN records : ~records[i].custom BY <1>0, <1>2, <2>1
    <3>2. QED BY <1>2, <2>1, <3>1
  <2>2. CASE \E i \in DOMAIN records :
                  /\ TS!LastOf(records, c, old) = records[i] /\ records[i].custom = c
                  /\ \A j \in (i + 1) .. Len(records) : records[j].custom # c
    <3>1. PICK i \in DOMAIN records :
                  /\ TS!LastOf(records, c, old) = records[i] /\ records[i].custom = c
                  /\ \A j \in (i + 1) .. Len(records) : records[j].custom # c
      BY <2>2
    <3>2. records[i].custom BY <1>2, <3>1
    <3>3. \A j \in (i + 1) .. Len(records) : ~records[j].custom
      <4>1. SUFFICES ASSUME NEW j \in (i + 1) .. Len(records) PROVE ~records[j].custom OBVIOUS
      <4>2. j \in DOMAIN records BY <1>01
      <4>3. QED BY <1>0, <1>2, <3>1, <4>2
    <3>4. TS!LastOf(records, TRUE, old) = records[i] BY <1>2, <3>1
    <3>5. QED BY <3>2, <3>3, <3>4
  <2>3. QED BY <1>1, <2>1, <2>2
<1>5. \/ TS!LastOf(records, FALSE, old) = old
      \/ \E i \in DOMAIN records : TS!LastOf(records, FALSE, old) = records[i] /\ ~records[i].custom
  BY <1>1, <1>3
<1>6. QED BY <1>4, <1>5

\* Of two renames under way the one without a CLI is the older one.
LEMMA ConfirmedIs ==
  ASSUME TS!TitlesKept
  PROVE  /\ x11 # 0 /\ x10 = TS!NoJob => TS!Confirmed(x11) = x11
         /\ x11 # 0 /\ x10 # TS!NoJob => TS!Confirmed(x11) = x10.title /\ x10.title < x11
         /\ x10 # TS!NoJob => TS!Confirmed(x10.title) = x10.title
<1>1. x11 \in Nat BY KnownNumbers
<1>2. x10 # TS!NoJob => /\ x10.title \in Nat /\ 0 < x10.title
                        /\ x11 # 0 => x10.title < x11
  BY DEF TS!TitlesKept, TS!Shape, TS!JobShape, TS!Numbered, TS!NoJob
<1>3. CASE x10 = TS!NoJob
  <2>1. x11 # 0 => \A n : n \in TS!Asked <=> n = x11 BY <1>3 DEF TS!Asked
  <2>2. x11 # 0 => TS!Confirmed(x11) = x11 BY <1>1, <2>1 DEF TS!Confirmed
  <2>3. QED BY <1>3, <2>2
<1>4. CASE x10 # TS!NoJob
  <2>1. \A n : n \in TS!Asked <=> n = x10.title \/ (n = x11 /\ x11 # 0) BY <1>2, <1>4 DEF TS!Asked
  <2>2. x11 # 0 => TS!Confirmed(x11) = x10.title BY <1>1, <1>2, <1>4, <2>1 DEF TS!Confirmed
  <2>3. TS!Confirmed(x10.title) = x10.title BY <1>1, <1>2, <1>4, <2>1 DEF TS!Confirmed
  <2>4. QED BY <1>2, <1>4, <2>2, <2>3
<1>5. QED BY <1>3, <1>4

\* The CLI confirms a rename.
LEMMA ConfirmLiveKept == ASSUME TS!TitlesKept, TS!ConfirmLive PROVE TS!TitlesKept'
<1>1. x4 \in Seq(TS!TitleRecords) /\ x6 \in Seq(TS!TitleRecords) /\ x2 \in TS!TitleRecords BY DEF TS!TitlesKept, TS!Shape
<1>2. PICK r : r = TS!Title(x11, TRUE) OBVIOUS
<1>3. /\ r \in TS!TitleRecords /\ r.title = x11 /\ r.custom
      /\ x7 /\ x11 \in Nat /\ x11 # 0 /\ x6' = Append(x6, r) /\ x11' = 0 /\ x13' = TS!Confirmed(x11)
      /\ UNCHANGED <<x1, x3, x4, x5, x7, x8, x9, x10, x12>>
  BY <1>2, KnownNumbers DEF TS!ConfirmLive, TS!Title, TS!TitleRecords
<1>4. x2' = r
  <2>1. (x2.custom \/ TRUE) = TRUE OBVIOUS
  <2>2. TS!Title(x11, TRUE).title = x11 /\ TS!Title(x11, TRUE).custom = TRUE BY DEF TS!Title
  <2>3. QED BY <1>2, <1>3, <2>1, <2>2 DEF TS!ConfirmLive, TS!Synced, TS!Title
<1>5. /\ Len(x6) \in Nat /\ DOMAIN x6 = 1 .. Len(x6) /\ DOMAIN x6' = 1 .. Len(x6) + 1 /\ Len(x6') = Len(x6) + 1
      /\ x6'[Len(x6) + 1] = r /\ (\A i \in DOMAIN x6 : x6'[i] = x6[i]) /\ x6' \in Seq(TS!TitleRecords)
  BY <1>1, <1>3
<1>6. /\ x10 = TS!NoJob => x13' = x11
      /\ x10 # TS!NoJob => x13' = x10.title /\ x10.title < x11 /\ x10.title \in Nat
  BY <1>3, ConfirmedIs DEF TS!TitlesKept, TS!Shape, TS!JobShape, TS!NoJob
<1>7. x13' \in Nat /\ x13' <= x11 /\ x11 <= x1 /\ x1 \in Nat BY <1>3, <1>6, KnownNumbers
<1>8. TS!Shape'
  <2>1. TS!JobShape' BY <1>3 DEF TS!TitlesKept, TS!Shape, TS!JobShape
  <2>2. QED BY <1>3, <1>4, <1>5, <1>7, <2>1 DEF TS!TitlesKept, TS!Shape
<1>9. TS!Known' \subseteq TS!Known \cup {x11}
  <2>1. SUFFICES ASSUME NEW n \in TS!Known', n # x11 PROVE n \in TS!Known OBVIOUS
  <2>2. CASE n \in {x6'[i].title : i \in DOMAIN x6'} BY <1>3, <1>5, <2>1, <2>2 DEF TS!Known
  <2>3. QED BY <1>3, <1>4, <2>1, <2>2 DEF TS!Known
<1>10. TS!Numbered'
  <2>1. \A n \in (TS!Known \cup {x11, x13})' : n <= x1' BY <1>3, <1>7, <1>9, KnownNumbers
  <2>2. x10 # TS!NoJob => \A i \in DOMAIN x6' : x10.title < x6'[i].title
    BY <1>3, <1>5, <1>6 DEF TS!TitlesKept, TS!Numbered
  <2>3. x10 # TS!NoJob /\ x10.step = "asked" => x10.title \notin TS!Known'
    BY <1>3, <1>6, <1>9 DEF TS!TitlesKept, TS!Numbered
  <2>4. x10 # TS!NoJob => 0 < x10.title /\ x10.title <= x1 BY DEF TS!TitlesKept, TS!Numbered
  <2>5. QED BY <1>3, <2>1, <2>2, <2>3, <2>4 DEF TS!Numbered
<1>11. TS!LogKept'
  <2>1. TS!LastNamed(x6', x13') BY <1>1, <1>3, <1>7, AppendNamed
  <2>2. TS!Names0(x6')
    <3>1. Len(x6) + 1 \in DOMAIN x6' BY <1>5
    <3>2. x6'[Len(x6) + 1].custom BY <1>3, <1>5, Zenon
    <3>3. QED BY <3>1, <3>2 DEF TS!Names0
  <2>3. x10 # TS!NoJob => x13' <= x10.title BY <1>6
  <2>4. QED BY <1>3, <2>1, <2>2, <2>3 DEF TS!TitlesKept, TS!LogKept, TS!LastNamed
<1>12. TS!IndexTrue' BY <1>3 DEF TS!TitlesKept, TS!IndexTrue
<1>13. TS!RefreshTrue'
  <2>1. x9 # TS!NoJob => x9.seen.title # x11 BY <1>3 DEF TS!TitlesKept, TS!Numbered, TS!Known
  <2>2. x9 # TS!NoJob => x9.seen # x2' BY <1>3, <1>4, <2>1
  <2>3. QED BY <1>3, <2>2 DEF TS!TitlesKept, TS!RefreshTrue
<1>14. TS!RenameKept' BY <1>3, <1>4, <1>7 DEF TS!RenameKept
<1>15. QED BY <1>8, <1>10, <1>11, <1>12, <1>13, <1>14 DEF TS!TitlesKept

\* The rename that was stored is the one the log ends with.
LEMMA StoreOfflineKept == ASSUME TS!TitlesKept, TS!StoreOffline PROVE TS!TitlesKept'
<1>1. x4 \in Seq(TS!TitleRecords) /\ x6 \in Seq(TS!TitleRecords) BY DEF TS!TitlesKept, TS!Shape
<1>2. PICK o : o = x10.title OBVIOUS
<1>3. x10 # TS!NoJob /\ x10.step = "appended" BY DEF TS!StoreOffline, TS!NoJob
<1>4. o \in Nat /\ 0 < o /\ o <= x1 /\ x1 \in Nat /\ x11 \in Nat
  BY <1>2, <1>3, KnownNumbers DEF TS!TitlesKept, TS!Shape, TS!JobShape, TS!Numbered, TS!NoJob
<1>5. PICK r : r = TS!Title(o, TRUE) OBVIOUS
<1>6. /\ r \in TS!TitleRecords /\ r.title = o /\ r.custom /\ x2' = r /\ x13' = o /\ x10' = TS!NoJob
      /\ UNCHANGED <<x1, x3, x4, x5, x6, x7, x8, x9, x11, x12>>
      /\ TS!LastOf(x4, TRUE, TS!NoTitle) = r
  BY <1>2, <1>3, <1>4, <1>5, ConfirmedIs DEF TS!StoreOffline, TS!Title, TS!TitleRecords, TS!LastCustom
<1>7. PICK i \in DOMAIN x4 : x4[i] = r /\ \A j \in (i + 1) .. Len(x4) : ~x4[j].custom
  <2>1. TS!NoTitle.title = 0 BY DEF TS!NoTitle, TS!Title
  <2>2. r # TS!NoTitle BY <1>4, <1>6, <2>1
  <2>3. PICK i \in DOMAIN x4 : x4[i] = r /\ \A j \in (i + 1) .. Len(x4) : ~x4[j].custom
    BY <1>1, <1>6, <2>2, LastNameIs
  <2>5. QED BY <2>3
<1>8. TS!Shape'
  <2>1. TS!JobShape' BY <1>6 DEF TS!TitlesKept, TS!Shape, TS!JobShape
  <2>2. QED BY <1>4, <1>6, <2>1 DEF TS!TitlesKept, TS!Shape
<1>9. o \in TS!Known BY <1>6, <1>7 DEF TS!Known
<1>10. TS!Known' \subseteq TS!Known BY <1>6, <1>9 DEF TS!Known
<1>11. TS!Numbered' BY <1>4, <1>6, <1>10 DEF TS!TitlesKept, TS!Numbered
<1>12. \A k \in DOMAIN x6 : o <= x6[k].title
  <2>1. SUFFICES ASSUME NEW k \in DOMAIN x6 PROVE o <= x6[k].title OBVIOUS
  <2>2. x6[k] \in TS!TitleRecords BY <1>1
  <2>3. x6[k].title \in Nat BY <2>2 DEF TS!TitleRecords
  <2>4. o < x6[k].title BY <1>2, <1>3 DEF TS!TitlesKept, TS!Numbered
  <2>5. QED BY <1>4, <2>3, <2>4
<1>13. TS!LastNamed(x4, o)
  <2>1. SUFFICES ASSUME NEW k \in DOMAIN x4, x4[k].custom, \A j \in (k + 1) .. Len(x4) : ~x4[j].custom
                 PROVE  o <= x4[k].title
    BY DEF TS!LastNamed
  <2>2. Len(x4) \in Nat /\ DOMAIN x4 = 1 .. Len(x4) BY <1>1
  <2>3. x4[i].custom BY <1>6, <1>7, Zenon
  <2>4. i = k
    <3>1. ~(i < k) BY <1>7, <2>1, <2>2
    <3>2. ~(k < i) BY <2>1, <2>2, <2>3
    <3>3. QED BY <2>2, <3>1, <3>2
  <2>5. QED BY <1>4, <1>6, <1>7, <2>4
<1>14. TS!LogKept'
  <2>1. TS!LastNamed(x6, o) BY <1>12 DEF TS!LastNamed
  <2>2. x11 # 0 => o <= x11 BY <1>2, <1>3, <1>4 DEF TS!TitlesKept, TS!Numbered
  <2>3. x10'.step # "appended" BY <1>6 DEF TS!NoJob
  <2>4. QED BY <1>6, <1>13, <2>1, <2>2, <2>3 DEF TS!LogKept, TS!LastNamed, TS!Names0
<1>15. TS!IndexTrue' BY <1>6 DEF TS!TitlesKept, TS!IndexTrue
<1>16. TS!RefreshTrue'
  <2>1. x9 # TS!NoJob => x9.native <= x3 BY DEF TS!TitlesKept, TS!RefreshTrue
  <2>2. ASSUME x9 # TS!NoJob, x9.native = x3, x9.seen = r
        PROVE  /\ TS!LastNamed(x4, o)
               /\ \A k \in DOMAIN x6 : x6[k].custom => o <= x6[k].title
               /\ x9.step = "read" /\ x9.found.custom => o <= x9.found.title
    <3>1. x9.step = "read" /\ x9.found.custom => o <= x9.found.title
      BY <1>2, <1>3, <1>6, <1>7, <2>2 DEF TS!TitlesKept, TS!RefreshTrue
    <3>2. QED BY <1>12, <1>13, <3>1
  <2>3. QED BY <1>6, <2>1, <2>2 DEF TS!RefreshTrue, TS!LastNamed
<1>17. TS!RenameKept' BY <1>4, <1>6 DEF TS!RenameKept
<1>18. QED BY <1>8, <1>11, <1>14, <1>15, <1>16, <1>17 DEF TS!TitlesKept

\* A rename is asked for, of the CLI or without one: it is newer than anything.
LEMMA AsksKept ==
  ASSUME TS!TitleAssumption, TS!TitlesKept, NEW t \in TS!Titles, TS!AskLive(t) \/ TS!AskOffline(t)
  PROVE  TS!TitlesKept'
<1>1. /\ t \in Nat /\ t = x1 + 1 /\ x1 \in Nat /\ x1' = t /\ t # 0
      /\ UNCHANGED <<x2, x3, x4, x5, x6, x7, x8, x9, x12, x13>>
  BY KnownNumbers DEF TS!AskLive, TS!AskOffline, TS!New, TS!Titles, TS!TitleAssumption
<1>2. TS!Known' = TS!Known BY <1>1 DEF TS!Known
<1>3. \A n \in TS!Known : n \in Nat /\ n <= x1 /\ n <= t /\ n # t BY <1>1, KnownNumbers
<1>4. /\ x11 \in Nat /\ x13 \in Nat /\ x11 <= x1 /\ x13 <= x1 /\ x11 <= t /\ x13 <= t
  BY <1>1, KnownNumbers
<1>5. x10 # TS!NoJob => /\ x10.title \in Nat /\ 0 < x10.title /\ x10.title <= x1
                        /\ x10.title <= t /\ x10.title < t
  BY <1>1 DEF TS!TitlesKept, TS!Shape, TS!JobShape, TS!Numbered, TS!NoJob
<1>6. TS!IndexTrue' BY <1>1 DEF TS!TitlesKept, TS!IndexTrue
<1>7. TS!RenameKept' BY <1>1 DEF TS!TitlesKept, TS!RenameKept
<1>8. CASE TS!AskLive(t)
  <2>1. x7 /\ x11' = t /\ UNCHANGED x10 BY <1>8 DEF TS!AskLive
  <2>2. TS!Shape'
    <3>1. TS!JobShape' BY <1>1, <2>1 DEF TS!TitlesKept, TS!Shape, TS!JobShape
    <3>2. QED BY <1>1, <2>1, <3>1 DEF TS!TitlesKept, TS!Shape
  <2>3. TS!Numbered' BY <1>1, <1>2, <1>3, <1>4, <1>5, <2>1 DEF TS!TitlesKept, TS!Numbered
  <2>4. TS!LogKept' BY <1>1, <1>4, <2>1 DEF TS!TitlesKept, TS!LogKept, TS!LastNamed
  <2>5. TS!RefreshTrue' BY <1>1, <2>1 DEF TS!TitlesKept, TS!RefreshTrue, TS!LastNamed
  <2>6. QED BY <1>6, <1>7, <2>2, <2>3, <2>4, <2>5 DEF TS!TitlesKept
<1>9. CASE TS!AskOffline(t)
  <2>1. ~x7 /\ x6 = <<>> /\ x11 = 0 /\ x10 = TS!NoJob /\ x11' = x11
    BY <1>9 DEF TS!AskOffline, TS!TitlesKept, TS!Shape
  <2> PICK o : o = [step |-> "asked", title |-> t] OBVIOUS
  <2>2. x10' = o /\ o.step = "asked" /\ o.title = t /\ o \in [step : {"asked", "appended"}, title : Nat] /\ o # TS!NoJob
    BY <1>1, <1>9 DEF TS!AskOffline, TS!NoJob
  <2>3. TS!Shape'
    <3>1. TS!JobShape' BY <1>1, <2>2 DEF TS!TitlesKept, TS!Shape, TS!JobShape
    <3>2. QED BY <1>1, <2>1, <3>1 DEF TS!TitlesKept, TS!Shape
  <2>4. t \notin TS!Known BY <1>3
  <2>5. \A n \in (TS!Known \cup {x11, x13})' : n <= x1' BY <1>1, <1>2, <1>3, <1>4, <2>1
  <2>6. DOMAIN x6 = {} BY <2>1
  <2>7. TS!Numbered' BY <1>1, <1>2, <2>1, <2>2, <2>4, <2>5, <2>6 DEF TS!Numbered
  <2>8. TS!LogKept' BY <1>1, <1>4, <2>1, <2>2 DEF TS!TitlesKept, TS!LogKept, TS!LastNamed
  <2>9. x9 # TS!NoJob => x9.seen.title \in TS!Known BY DEF TS!Known
  <2>10. x9 # TS!NoJob => x9.seen.title # x10'.title BY <1>3, <2>2, <2>9
  <2>11. TS!RefreshTrue' BY <1>1, <2>10 DEF TS!TitlesKept, TS!RefreshTrue, TS!LastNamed
  <2>12. QED BY <1>6, <1>7, <2>3, <2>7, <2>8, <2>11 DEF TS!TitlesKept
<1>10. QED BY <1>8, <1>9

\* A rename is refused, or fails.
LEMMA RefusalsKept == ASSUME TS!TitlesKept, TS!RefuseLive \/ TS!FailOffline PROVE TS!TitlesKept'
<1>1. /\ UNCHANGED <<x1, x2, x3, x4, x5, x6, x7, x8, x9, x12, x13>>
      /\ (x11' = x11 \/ x11' = 0) /\ (x10' = x10 \/ x10' = TS!NoJob)
  BY DEF TS!RefuseLive, TS!FailOffline
<1>2. TS!Shape'
  <2>1. TS!JobShape' BY <1>1 DEF TS!TitlesKept, TS!Shape, TS!JobShape
  <2>2. QED BY <1>1, <2>1 DEF TS!TitlesKept, TS!Shape
<1>3. TS!Known' = TS!Known BY <1>1 DEF TS!Known
<1>4. TS!Numbered' BY <1>1, <1>3, KnownNumbers DEF TS!TitlesKept, TS!Numbered
<1>5. TS!NoJob.step # "appended" BY DEF TS!NoJob
<1>6. TS!LogKept' BY <1>1, <1>5 DEF TS!TitlesKept, TS!LogKept, TS!LastNamed
<1>7. TS!IndexTrue' /\ TS!RenameKept' BY <1>1 DEF TS!TitlesKept, TS!IndexTrue, TS!RenameKept
<1>8. TS!RefreshTrue' BY <1>1 DEF TS!TitlesKept, TS!RefreshTrue, TS!LastNamed
<1>9. QED BY <1>2, <1>4, <1>6, <1>7, <1>8 DEF TS!TitlesKept

\* Without a CLI the rename is appended to the log.
LEMMA AppendOfflineKept == ASSUME TS!TitlesKept, TS!AppendOffline PROVE TS!TitlesKept'
<1>1. x4 \in Seq(TS!TitleRecords) /\ x6 \in Seq(TS!TitleRecords) BY DEF TS!TitlesKept, TS!Shape
<1>2. PICK o : o = x10.title OBVIOUS
<1>3. x10 # TS!NoJob /\ x10.step = "asked" BY DEF TS!AppendOffline, TS!NoJob
<1>4. /\ o \in Nat /\ 0 < o /\ o <= x1 /\ x1 \in Nat /\ x11 \in Nat /\ o \notin TS!Known
      /\ x10 \in [step : {"asked", "appended"}, title : Nat] /\ x13 \in Nat /\ x13 <= o
  BY <1>2, <1>3, KnownNumbers DEF TS!TitlesKept, TS!Shape, TS!JobShape, TS!Numbered, TS!LogKept, TS!NoJob
<1>5. PICK r : r = TS!Title(o, TRUE) OBVIOUS
<1>6. /\ r \in TS!TitleRecords /\ r.title = o /\ r.custom /\ x4' = Append(x4, r)
      /\ UNCHANGED <<x1, x2, x3, x5, x6, x7, x8, x9, x11, x12, x13>>
  BY <1>2, <1>4, <1>5 DEF TS!AppendOffline, TS!Title, TS!TitleRecords
<1>7. x10' = [x10 EXCEPT !.step = "appended"] BY DEF TS!AppendOffline
<1>8. x10' \in [step : {"asked", "appended"}, title : Nat] /\ x10'.step = "appended" /\ x10'.title = o
      /\ x10' # TS!NoJob
  BY <1>2, <1>4, <1>7 DEF TS!NoJob
<1>9. /\ Len(x4) \in Nat /\ DOMAIN x4 = 1 .. Len(x4) /\ DOMAIN x4' = 1 .. Len(x4) + 1 /\ Len(x4') = Len(x4) + 1
      /\ x4'[Len(x4) + 1] = r /\ (\A i \in DOMAIN x4 : x4'[i] = x4[i]) /\ x4' \in Seq(TS!TitleRecords)
  BY <1>1, <1>6
<1>10. TS!Shape'
  <2>1. TS!JobShape' BY <1>6, <1>8 DEF TS!TitlesKept, TS!Shape, TS!JobShape
  <2>2. x8.offset \in Nat /\ x8.offset <= Len(x4) BY DEF TS!TitlesKept, TS!Shape
  <2>3. Len(x4) <= Len(x4') BY <1>9
  <2>4. x8'.offset <= Len(x4') BY ONLY <1>6, <1>9, <2>2, <2>3
  <2>5. QED BY <1>6, <1>9, <2>1, <2>4 DEF TS!TitlesKept, TS!Shape
<1>11. TS!Known' \subseteq TS!Known \cup {o}
  <2>1. SUFFICES ASSUME NEW n \in TS!Known', n # o PROVE n \in TS!Known OBVIOUS
  <2>2. CASE n \in {x4'[i].title : i \in DOMAIN x4'} BY <1>6, <1>9, <2>1, <2>2 DEF TS!Known
  <2>3. QED BY <1>6, <2>1, <2>2 DEF TS!Known
<1>12. TS!Numbered'
  <2>1. \A n \in (TS!Known \cup {x11, x13})' : n <= x1' BY <1>4, <1>6, <1>11, KnownNumbers
  <2>2. x11 # 0 => o < x11 BY <1>2, <1>3 DEF TS!TitlesKept, TS!Numbered
  <2>3. x11' # 0 => x11' \notin TS!Known' BY <1>4, <1>6, <1>11, <2>2 DEF TS!TitlesKept, TS!Numbered
  <2>4. \A i \in DOMAIN x6 : o < x6[i].title BY <1>2, <1>3 DEF TS!TitlesKept, TS!Numbered
  <2>5. QED BY <1>4, <1>6, <1>8, <2>1, <2>2, <2>3, <2>4 DEF TS!Numbered
<1>13. TS!LogKept'
  <2>1. ~TS!Names0(x6) => TS!LastNamed(x4', x13) BY <1>1, <1>4, <1>6, AppendNamed DEF TS!TitlesKept, TS!LogKept
  <2>2. TS!LastNamed(x4', o) BY <1>1, <1>4, <1>6, AppendNamed
  <2>3. x11 # 0 => x13 <= x11 BY DEF TS!TitlesKept, TS!LogKept
  <2>4. TS!Names0(x6) => TS!LastNamed(x6, x13) BY DEF TS!TitlesKept, TS!LogKept
  <2>5. QED BY <1>4, <1>6, <1>8, <2>1, <2>2, <2>3, <2>4 DEF TS!LogKept, TS!LastNamed, TS!Names0
<1>14. TS!IndexTrue'
  <2>1. x8.offset \in Nat /\ x8.offset <= Len(x4) BY DEF TS!TitlesKept, TS!Shape
  <2>2. \A i \in 1 .. x8.offset : i \in DOMAIN x4 /\ x4'[i] = x4[i] BY <1>9, <2>1
  <2>3. QED BY <1>6, <2>1, <2>2 DEF TS!TitlesKept, TS!IndexTrue
<1>15. TS!RefreshTrue'
  <2> SUFFICES ASSUME x9 # TS!NoJob PROVE TS!RefreshTrue' BY <1>6 DEF TS!RefreshTrue
  <2>1. ASSUME x9.native = x3, x9.seen = x2, x2.custom PROVE TS!LastNamed(x4', x13)
    <3>1. TS!LastNamed(x4, x13) BY <2>1 DEF TS!TitlesKept, TS!RefreshTrue
    <3>2. QED BY <1>1, <1>4, <1>6, <3>1, AppendNamed
  <2>2. x9.seen.title # o BY <1>4 DEF TS!Known
  <2>3. QED BY <1>6, <1>8, <2>1, <2>2 DEF TS!TitlesKept, TS!RefreshTrue, TS!LastNamed
<1>16. TS!RenameKept' BY <1>6 DEF TS!TitlesKept, TS!RenameKept
<1>17. QED BY <1>10, <1>12, <1>13, <1>14, <1>15, <1>16 DEF TS!TitlesKept

\* A refresh takes a session without a CLI, or without a name of its own.
LEMMA SelectKept == ASSUME TS!TitlesKept, TS!Select PROVE TS!TitlesKept'
<1> PICK r : r = [step |-> "selected", seen |-> x2, native |-> x3] OBVIOUS
<1>1. /\ r.step = "selected" /\ r.seen = x2 /\ r.native = x3
      /\ x9' = r /\ r # TS!NoJob /\ x12' = x12 + 1 /\ x9 = TS!NoJob /\ (~x7 \/ ~x2.custom)
      /\ UNCHANGED <<x1, x2, x3, x4, x5, x6, x7, x8, x10, x11, x13>>
  BY DEF TS!Select, TS!NoJob
<1>2. x2 \in TS!TitleRecords /\ x3 \in {1, 2} /\ x12 \in Nat BY DEF TS!TitlesKept, TS!Shape
<1>3. r \in [step : {"selected"}, seen : TS!TitleRecords, native : {1, 2}] BY <1>2
<1>4. TS!Shape'
  <2>1. TS!JobShape' BY <1>1, <1>3 DEF TS!TitlesKept, TS!Shape, TS!JobShape
  <2>2. x12' \in Nat BY <1>1, <1>2
  <2>3. QED BY <1>1, <2>1, <2>2 DEF TS!TitlesKept, TS!Shape
<1>5. TS!Known' \subseteq TS!Known BY <1>1 DEF TS!Known
<1>6. TS!Numbered' BY <1>1, <1>5 DEF TS!TitlesKept, TS!Numbered
<1>7. TS!LogKept' /\ TS!IndexTrue' /\ TS!RenameKept' BY <1>1 DEF TS!TitlesKept, TS!LogKept, TS!IndexTrue, TS!RenameKept
<1>8. TS!RefreshTrue'
  <2>1. ASSUME x2.custom PROVE TS!LastNamed(x4, x13) /\ DOMAIN x6 = {}
    <3>1. x6 = <<>> BY <1>1, <2>1 DEF TS!TitlesKept, TS!Shape
    <3>2. DOMAIN x6 = {} BY <3>1
    <3>3. QED BY <3>2 DEF TS!TitlesKept, TS!LogKept, TS!Names0
  <2>2. x3 <= x3 BY <1>2
  <2>3. QED BY <1>1, <2>1, <2>2 DEF TS!RefreshTrue, TS!LastNamed
<1>9. QED BY <1>4, <1>6, <1>7, <1>8 DEF TS!TitlesKept

\* l is the last name in a list of titles, or else the old one.
LastNameOf(records, old, l) ==
  \/ l = old /\ \A i \in DOMAIN records : ~records[i].custom
  \/ \E i \in DOMAIN records :
       /\ l = records[i] /\ records[i].custom
       /\ \A j \in (i + 1) .. Len(records) : ~records[j].custom

LEMMA LastCustomIs ==
  ASSUME NEW records \in Seq(TS!TitleRecords), NEW old, NEW l, l = TS!LastOf(records, TRUE, old)
  PROVE  LastNameOf(records, old, l)
BY LastNameIs, Zenon DEF LastNameOf

LEMMA LastMadeUpIs ==
  ASSUME NEW records \in Seq(TS!TitleRecords), NEW old, NEW l, l = TS!LastOf(records, FALSE, old)
  PROVE  l = old \/ \E i \in DOMAIN records : l = records[i] /\ ~records[i].custom
BY LastNameIs, Zenon

\* How far the log was scanned, the index knows its last titles.
LEMMA ScannedIs ==
  ASSUME TS!TitlesKept, NEW to \in x8.offset .. Len(x4), NEW i, i = TS!Scanned(to)
  PROVE  /\ i \in [offset : Nat, custom : TS!TitleRecords, generated : TS!TitleRecords] /\ i.offset = to /\ to <= Len(x4)
         /\ {i.custom.title, i.generated.title} \subseteq TS!Known
         /\ ~i.generated.custom
         /\ \/ i.custom = TS!NoTitle /\ \A k \in 1 .. to : ~x4[k].custom
            \/ \E k \in 1 .. to :
                 /\ x4[k] = i.custom /\ x4[k].custom
                 /\ \A j \in (k + 1) .. to : ~x4[j].custom
<1>1. /\ x4 \in Seq(TS!TitleRecords) /\ x8.offset \in Nat /\ x8.offset <= Len(x4)
      /\ x8.custom \in TS!TitleRecords /\ x8.generated \in TS!TitleRecords
  BY DEF TS!TitlesKept, TS!Shape
<1>2. PICK records : records = SubSeq(x4, x8.offset + 1, to) OBVIOUS
<1>3. PICK off : off = x8.offset OBVIOUS
<1>4. /\ off \in Nat /\ to \in Nat /\ off <= to /\ to <= Len(x4) /\ Len(x4) \in Nat /\ DOMAIN x4 = 1 .. Len(x4)
  BY <1>1, <1>3
<1>5. /\ records \in Seq(TS!TitleRecords) /\ Len(records) = to - off /\ DOMAIN records = 1 .. (to - off)
      /\ \A k \in 1 .. (to - off) : records[k] = x4[off + k]
  BY <1>1, <1>2, <1>3, <1>4
<1>6. /\ i.offset = to /\ i.custom = TS!LastOf(records, TRUE, x8.custom)
      /\ i.generated = TS!LastOf(records, FALSE, x8.generated)
      /\ i = [offset |-> i.offset, custom |-> i.custom, generated |-> i.generated]
  BY <1>2 DEF TS!Scanned
<1>7. \A k \in DOMAIN records : off + k \in DOMAIN x4 /\ off + k <= to /\ records[k] = x4[off + k] BY <1>4, <1>5
<1>8. \A k \in DOMAIN records : records[k] \in TS!TitleRecords /\ records[k].title \in TS!Known
  BY <1>1, <1>7 DEF TS!Known
<1>9. x8.custom.title \in TS!Known /\ x8.generated.title \in TS!Known BY DEF TS!Known
<1>18. records \in Seq(TS!TitleRecords) BY <1>5
<1>19. PICK c : c = x8.custom OBVIOUS
<1>20. PICK g : g = x8.generated OBVIOUS
<1>21. i.custom = TS!LastOf(records, TRUE, c) /\ i.generated = TS!LastOf(records, FALSE, g) BY <1>6, <1>19, <1>20
<1>10. \/ i.custom = x8.custom /\ \A k \in DOMAIN records : ~records[k].custom
       \/ \E k \in DOMAIN records :
            /\ i.custom = records[k] /\ records[k].custom
            /\ \A j \in (k + 1) .. Len(records) : ~records[j].custom
  <2>1. PICK l : l = i.custom OBVIOUS
  <2>2. l = TS!LastOf(records, TRUE, c) BY <2>1, <1>21, Zenon
  <2>3. LastNameOf(records, c, l) BY <1>18, <2>2, LastCustomIs
  <2>4. QED BY <1>19, <2>1, <2>3 DEF LastNameOf
<1>11. \/ i.generated = x8.generated
       \/ \E k \in DOMAIN records : i.generated = records[k] /\ ~records[k].custom
  <2>1. PICK l : l = i.generated OBVIOUS
  <2>2. l = TS!LastOf(records, FALSE, g) BY <2>1, <1>21, Zenon
  <2>3. l = g \/ \E k \in DOMAIN records : l = records[k] /\ ~records[k].custom
    BY <1>18, <2>2, LastMadeUpIs
  <2>4. QED BY <1>20, <2>1, <2>3
<1>12. i.custom \in TS!TitleRecords /\ i.custom.title \in TS!Known BY <1>1, <1>8, <1>9, <1>10
<1>13. i.generated \in TS!TitleRecords /\ i.generated.title \in TS!Known BY <1>1, <1>8, <1>9, <1>11
<1>14. ~i.generated.custom
  <2>1. CASE i.generated = x8.generated BY <2>1 DEF TS!TitlesKept, TS!IndexTrue
  <2>2. CASE \E k \in DOMAIN records : i.generated = records[k] /\ ~records[k].custom BY <2>2
  <2>3. QED BY <1>11, <2>1, <2>2
<1>15. \/ i.custom = TS!NoTitle /\ \A k \in 1 .. to : ~x4[k].custom
       \/ \E k \in 1 .. to :
            /\ x4[k] = i.custom /\ x4[k].custom
            /\ \A j \in (k + 1) .. to : ~x4[j].custom
  <2>1. CASE i.custom = x8.custom /\ \A k \in DOMAIN records : ~records[k].custom
    <3>1. \A j \in (off + 1) .. to : ~x4[j].custom
      <4>1. SUFFICES ASSUME NEW j \in (off + 1) .. to PROVE ~x4[j].custom OBVIOUS
      <4>2. j - off \in DOMAIN records /\ off + (j - off) = j BY <1>4, <1>5
      <4>3. QED BY <1>7, <2>1, <4>2
    <3>2. \A j \in 1 .. to : j \in 1 .. off \/ j \in (off + 1) .. to BY <1>4
    <3>3. CASE x8.custom = TS!NoTitle /\ \A k \in 1 .. off : ~x4[k].custom BY <2>1, <3>1, <3>2, <3>3
    <3>4. CASE \E k \in 1 .. off : /\ x4[k] = x8.custom /\ x4[k].custom
                                   /\ \A j \in (k + 1) .. off : ~x4[j].custom
      <4>1. PICK k \in 1 .. off : /\ x4[k] = x8.custom /\ x4[k].custom
                                  /\ \A j \in (k + 1) .. off : ~x4[j].custom
        BY <3>4
      <4>2. k \in 1 .. to /\ \A j \in (k + 1) .. to : j \in (k + 1) .. off \/ j \in (off + 1) .. to BY <1>4
      <4>3. QED BY <2>1, <3>1, <4>1, <4>2
    <3>5. QED BY <1>3, <3>3, <3>4 DEF TS!TitlesKept, TS!IndexTrue
  <2>2. CASE \E k \in DOMAIN records :
               /\ i.custom = records[k] /\ records[k].custom
               /\ \A j \in (k + 1) .. Len(records) : ~records[j].custom
    <3>1. PICK k \in DOMAIN records : /\ i.custom = records[k] /\ records[k].custom
                                      /\ \A j \in (k + 1) .. Len(records) : ~records[j].custom
      BY <2>2
    <3>2. off + k \in 1 .. to /\ x4[off + k] = i.custom /\ x4[off + k].custom BY <1>4, <1>5, <1>7, <3>1
    <3>3. \A j \in (off + k + 1) .. to : ~x4[j].custom
      <4>1. SUFFICES ASSUME NEW j \in (off + k + 1) .. to PROVE ~x4[j].custom OBVIOUS
      <4>2. j - off \in DOMAIN records /\ off + (j - off) = j /\ j - off \in (k + 1) .. Len(records) BY <1>4, <1>5
      <4>3. QED BY <1>7, <3>1, <4>2
    <3>4. QED BY <3>2, <3>3
  <2>3. QED BY <1>10, <2>1, <2>2
<1>16. i \in [offset : Nat, custom : TS!TitleRecords, generated : TS!TitleRecords] BY <1>4, <1>6, <1>12, <1>13
<1>17. QED BY <1>4, <1>6, <1>12, <1>13, <1>14, <1>15, <1>16

\* A refresh reads on where the last one stopped.
LEMMA ReadKept == ASSUME TS!TitlesKept, TS!Read PROVE TS!TitlesKept'
<1>1. x9 # TS!NoJob /\ x9.step = "selected" BY DEF TS!Read, TS!NoJob
<1>2. UNCHANGED <<x1, x2, x3, x4, x5, x6, x7, x10, x11, x12, x13>> BY DEF TS!Read
<1>3. TS!RenameKept' BY <1>2 DEF TS!TitlesKept, TS!RenameKept
<1>4. TS!LogKept' BY <1>2 DEF TS!TitlesKept, TS!LogKept, TS!LastNamed
<1>5. CASE x9' = TS!NoJob /\ UNCHANGED x8
  <2>1. TS!Shape'
    <3>1. TS!JobShape' BY <1>2, <1>5 DEF TS!TitlesKept, TS!Shape, TS!JobShape
    <3>2. QED BY <1>2, <1>5, <3>1 DEF TS!TitlesKept, TS!Shape
  <2>2. TS!NoJob.step # "read" BY DEF TS!NoJob
  <2>3. TS!Known' \subseteq TS!Known BY <1>2, <1>5, <2>2 DEF TS!Known
  <2>4. TS!Numbered' BY <1>2, <2>3 DEF TS!TitlesKept, TS!Numbered
  <2>5. TS!IndexTrue' /\ TS!RefreshTrue' BY <1>2, <1>5 DEF TS!TitlesKept, TS!IndexTrue, TS!RefreshTrue
  <2>6. QED BY <1>3, <1>4, <2>1, <2>4, <2>5 DEF TS!TitlesKept
<1>6. CASE x9.native = x3 /\ x9' # TS!NoJob
  <2>1. PICK to \in x8.offset .. Len(x4) :
          /\ x8' = TS!Scanned(to)
          /\ x9' = [step |-> "read", seen |-> x9.seen, native |-> x3,
                         found |-> IF TS!Complete(x8') THEN TS!Named(x8') ELSE TS!NoTitle]
    BY <1>6 DEF TS!Read
  <2>2. PICK i : i = x8' OBVIOUS
  <2>3. PICK f : f = IF TS!Complete(i) THEN TS!Named(i) ELSE TS!NoTitle OBVIOUS
  <2>4. PICK r : r = [step |-> "read", seen |-> x9.seen, native |-> x3, found |-> f] OBVIOUS
  <2>5. x9' = r /\ r.step = "read" /\ r.seen = x9.seen /\ r.native = x3 /\ r.found = f BY <2>1, <2>2, <2>3, <2>4
  <2>6. /\ i \in [offset : Nat, custom : TS!TitleRecords, generated : TS!TitleRecords] /\ i.offset = to /\ to <= Len(x4)
        /\ {i.custom.title, i.generated.title} \subseteq TS!Known
        /\ ~i.generated.custom
        /\ \/ i.custom = TS!NoTitle /\ \A k \in 1 .. to : ~x4[k].custom
           \/ \E k \in 1 .. to :
                /\ x4[k] = i.custom /\ x4[k].custom
                /\ \A j \in (k + 1) .. to : ~x4[j].custom
    BY <2>1, <2>2, ScannedIs
  <2>7. TS!NoTitle \in TS!TitleRecords /\ TS!NoTitle.title = 0 /\ ~TS!NoTitle.custom BY DEF TS!NoTitle, TS!Title, TS!TitleRecords
  <2>8. f \in TS!TitleRecords /\ f.title \in TS!Known \cup {0}
    <3>1. f \in {i.custom, i.generated, TS!NoTitle} BY <2>3 DEF TS!Named
    <3>2. i.custom \in TS!TitleRecords /\ i.generated \in TS!TitleRecords BY <2>6
    <3>3. QED BY <2>6, <2>7, <3>1, <3>2
  <2>9. f.custom => /\ to = Len(x4)
                    /\ \E k \in 1 .. to : x4[k] = f /\ x4[k].custom /\ \A j \in (k + 1) .. to : ~x4[j].custom
    <3>1. SUFFICES ASSUME f.custom
                   PROVE  /\ to = Len(x4)
                          /\ \E k \in 1 .. to : x4[k] = f /\ x4[k].custom /\ \A j \in (k + 1) .. to : ~x4[j].custom
      OBVIOUS
    <3>2. TS!Complete(i) /\ f = TS!Named(i) BY <2>3, <2>7, <3>1
    <3>3. to = Len(x4) BY <2>6, <3>2 DEF TS!Complete, TS!CompleteAtEnd
    <3>4. f = i.custom /\ i.custom # TS!NoTitle BY <2>6, <3>1, <3>2 DEF TS!Named
    <3>5. QED BY <2>6, <3>3, <3>4
  <2>10. Len(x4) \in Nat /\ DOMAIN x4 = 1 .. Len(x4) BY DEF TS!TitlesKept, TS!Shape
  <2>11. ASSUME NEW n, f.custom, TS!LastNamed(x4, n) PROVE n <= f.title
    <3>1. PICK k \in 1 .. to : x4[k] = f /\ x4[k].custom /\ \A j \in (k + 1) .. to : ~x4[j].custom BY <2>9, <2>11
    <3>2. n <= x4[k].title BY <2>9, <2>10, <2>11, <3>1 DEF TS!LastNamed
    <3>3. QED BY <3>1, <3>2
  <2>12. x9.seen \in TS!TitleRecords /\ x3 \in {1, 2} BY <1>1 DEF TS!TitlesKept, TS!Shape, TS!JobShape
  <2>13. TS!Shape'
    <3>1. r \in [step : {"read"}, seen : TS!TitleRecords, native : {1, 2}, found : TS!TitleRecords] BY <2>4, <2>8, <2>12
    <3>2. TS!JobShape' BY <1>2, <2>5, <3>1 DEF TS!TitlesKept, TS!Shape, TS!JobShape
    <3>3. x8' \in [offset : Nat, custom : TS!TitleRecords, generated : TS!TitleRecords] /\ x8'.offset <= Len(x4')
      BY <1>2, <2>2, <2>6
    <3>4. QED BY <1>2, <3>2, <3>3 DEF TS!TitlesKept, TS!Shape
  <2>14. TS!Known' \subseteq TS!Known \cup {0}
    <3>1. SUFFICES ASSUME NEW n \in TS!Known' PROVE n \in TS!Known \cup {0} OBVIOUS
    <3>2. CASE n \in {x8'.custom.title, x8'.generated.title} BY <2>2, <2>6, <3>2
    <3>3. CASE n = x9'.seen.title \/ n = x9'.found.title BY <1>1, <2>5, <2>8, <3>3 DEF TS!Known
    <3>4. QED BY <1>2, <3>1, <3>2, <3>3 DEF TS!Known
  <2>15. TS!Numbered'
    <3>1. \A n \in (TS!Known \cup {x11, x13})' : n <= x1'
      <4>1. 0 <= x1 BY KnownNumbers
      <4>2. QED BY <1>2, <2>14, <4>1, KnownNumbers
    <3>2. x10 # TS!NoJob => x10.title # 0 BY DEF TS!TitlesKept, TS!Shape, TS!JobShape, TS!Numbered, TS!NoJob
    <3>3. QED BY <1>2, <2>14, <3>1, <3>2 DEF TS!TitlesKept, TS!Numbered
  <2>16. TS!IndexTrue' BY <1>2, <2>2, <2>6 DEF TS!IndexTrue
  <2>17. TS!RefreshTrue'
    <3>1. ASSUME x9.seen = x2, x2.custom
          PROVE  /\ TS!LastNamed(x4, x13)
                 /\ \A k \in DOMAIN x6 : x6[k].custom => x13 <= x6[k].title
                 /\ f.custom => x13 <= f.title
      <4>1. /\ TS!LastNamed(x4, x13)
            /\ \A k \in DOMAIN x6 : x6[k].custom => x13 <= x6[k].title
        BY <1>1, <1>6, <3>1 DEF TS!TitlesKept, TS!RefreshTrue
      <4>2. QED BY <2>11, <4>1
    <3>2. ASSUME f.custom, x10 # TS!NoJob, x9.seen.title = x10.title,
                 \E k \in DOMAIN x4 : x4[k].title = x10.title
          PROVE  x10.title <= f.title
      <4>1. x9.seen.title \in TS!Known BY <1>1 DEF TS!Known
      <4>2. x10.step = "appended"
        <5>1. x10.step \in {"asked", "appended"} BY <3>2 DEF TS!TitlesKept, TS!Shape, TS!JobShape
        <5>2. QED BY <3>2, <4>1, <5>1 DEF TS!TitlesKept, TS!Numbered
      <4>3. TS!LastNamed(x4, x10.title) BY <3>2, <4>2 DEF TS!TitlesKept, TS!LogKept
      <4>4. QED BY <2>11, <3>2, <4>3
    <3>3. x3 <= x3 BY <2>12
    <3>4. QED BY <1>2, <2>5, <3>1, <3>2, <3>3 DEF TS!RefreshTrue, TS!LastNamed
  <2>18. QED BY <1>3, <1>4, <2>13, <2>15, <2>16, <2>17 DEF TS!TitlesKept
<1>7. QED BY <1>1, <1>5, <1>6 DEF TS!Read, TS!NoJob

\* What was found is applied to a session that is as it was.
LEMMA ApplyKept == ASSUME TS!TitlesKept, TS!Apply PROVE TS!TitlesKept'
<1>1. x9 # TS!NoJob /\ x9.step = "read" BY DEF TS!Apply, TS!NoJob
<1>2. /\ x9' = TS!NoJob /\ x2' = (IF TS!Current THEN TS!Synced(x9.found) ELSE x2)
      /\ UNCHANGED <<x1, x3, x4, x5, x6, x7, x8, x10, x11, x12, x13>>
  BY DEF TS!Apply
<1>3. x9.found \in TS!TitleRecords /\ x2 \in TS!TitleRecords BY <1>1 DEF TS!TitlesKept, TS!Shape, TS!JobShape, TS!NoJob
<1>4. PICK f : f = x9.found OBVIOUS
<1>5. /\ f \in TS!TitleRecords /\ f.title \in Nat /\ f.custom \in BOOLEAN /\ x2.custom \in BOOLEAN
      /\ f.title \in TS!Known /\ x2.title \in TS!Known
  BY <1>1, <1>3, <1>4 DEF TS!TitleRecords, TS!Known
<1>6. \/ x2' = x2
      \/ TS!Current /\ f.title # 0 /\ x2' = TS!Title(f.title, x2.custom \/ f.custom) /\ (x2.custom => f.custom)
  BY <1>2, <1>4 DEF TS!Synced
<1>7. x2' \in TS!TitleRecords /\ x2'.title \in TS!Known
  <2>1. TS!Title(f.title, x2.custom \/ f.custom) \in TS!TitleRecords /\ TS!Title(f.title, x2.custom \/ f.custom).title = f.title
    BY <1>5 DEF TS!Title, TS!TitleRecords
  <2>2. QED BY <1>3, <1>5, <1>6, <2>1
<1>8. TS!Shape'
  <2>1. TS!JobShape' BY <1>2 DEF TS!TitlesKept, TS!Shape, TS!JobShape
  <2>2. QED BY <1>2, <1>7, <2>1 DEF TS!TitlesKept, TS!Shape
<1>9. TS!NoJob.step # "read" BY DEF TS!NoJob
<1>10. TS!Known' \subseteq TS!Known
  <2>1. SUFFICES ASSUME NEW n \in TS!Known' PROVE n \in TS!Known OBVIOUS
  <2>2. CASE n = x2'.title BY <1>7, <2>2
  <2>3. QED BY <1>2, <1>9, <2>1, <2>2 DEF TS!Known
<1>11. TS!Numbered' BY <1>2, <1>10 DEF TS!TitlesKept, TS!Numbered
<1>12. TS!LogKept' /\ TS!IndexTrue' /\ TS!RefreshTrue'
  BY <1>2 DEF TS!TitlesKept, TS!LogKept, TS!LastNamed, TS!IndexTrue, TS!RefreshTrue
<1>13. TS!RenameKept'
  <2>1. CASE x2' = x2 BY <1>2, <2>1 DEF TS!TitlesKept, TS!RenameKept
  <2>2. CASE TS!Current /\ x2' = TS!Title(f.title, x2.custom \/ f.custom) /\ (x2.custom => f.custom)
    <3>1. SUFFICES ASSUME x13 # 0 PROVE x2'.title >= x13 /\ x2'.custom BY <1>2 DEF TS!RenameKept
    <3>2. x2.custom /\ f.custom BY <2>2, <3>1 DEF TS!TitlesKept, TS!RenameKept
    <3>3. x9.native = x3 /\ x9.seen = x2 BY <2>2 DEF TS!Current, TS!CurrentSeen
    <3>4. x13 <= f.title BY <1>1, <1>4, <3>2, <3>3 DEF TS!TitlesKept, TS!RefreshTrue
    <3>5. x2'.title = f.title /\ x2'.custom BY <2>2, <3>2 DEF TS!Title
    <3>6. QED BY <1>5, <3>4, <3>5, KnownNumbers
  <2>3. QED BY <1>6, <2>1, <2>2
<1>14. QED BY <1>8, <1>11, <1>12, <1>13 DEF TS!TitlesKept

LEMMA NextTitles == ASSUME TS!TitleAssumption, TS!TitlesKept, [TS!Next]_(TS!vars) PROVE TS!TitlesKept'
<1>1. CASE TS!Start \/ TS!Writes \/ UNCHANGED TS!vars
  <2>1. /\ UNCHANGED <<x1, x2, x3, x4, x6, x8, x9, x10, x11, x12, x13>>
        /\ x7' \in BOOLEAN /\ x5' \in BOOLEAN /\ (~x7' => x6 = <<>> /\ x11 = 0)
    BY <1>1 DEF TS!Start, TS!Writes, TS!vars, TS!TitlesKept, TS!Shape
  <2>2. QED BY <2>1, TitlesRest
<1>2. CASE \E t \in TS!Titles : TS!AskLive(t) \/ TS!AskOffline(t) \/ \E custom \in BOOLEAN : TS!Names(t, custom)
  BY <1>2, AsksKept, NamesKept
<1>3. CASE TS!NewNative \/ TS!Flush \/ TS!Exit BY <1>3, NewNativeKept, FlushKept, ExitKept
<1>4. CASE TS!ConfirmLive \/ TS!StoreOffline \/ TS!AppendOffline BY <1>4, ConfirmLiveKept, StoreOfflineKept, AppendOfflineKept
<1>5. CASE TS!RefuseLive \/ TS!FailOffline BY <1>5, RefusalsKept
<1>6. CASE TS!Select \/ TS!Read \/ TS!Apply BY <1>6, SelectKept, ReadKept, ApplyKept
<1>7. QED BY <1>1, <1>2, <1>3, <1>4, <1>5, <1>6, Zenon DEF TS!Next

\* The state is well-formed.
LEMMA TitlesType == ASSUME TS!TitleAssumption, TS!TitlesKept PROVE TS!TypeOK
<1>1. x1 \in TS!Titles /\ x1 \in Nat /\ x1 <= MaxTitles BY DEF TS!TitlesKept, TS!Shape, TS!Titles, TS!TitleAssumption
<1>2. x2.title \in TS!Known BY DEF TS!Known
<1>3. {x2.title, x13, x11} \subseteq TS!Titles BY <1>1, <1>2, KnownNumbers DEF TS!Titles, TS!TitleAssumption
<1>4. x8.offset \in 0 .. Len(x4) BY DEF TS!TitlesKept, TS!Shape
<1>5. x2.custom \in BOOLEAN BY DEF TS!TitlesKept, TS!Shape, TS!TitleRecords
<1>6. QED BY <1>1, <1>3, <1>4, <1>5 DEF TS!TypeOK, TS!TitlesKept, TS!Shape

-----------------------------------------------------------------------------
(* A behaviour of this specification is one of the module it is about. *)

\* What carries each of them, while the run is about it.
ChildrenKept ==
  /\ focus = "history" => CH!HistoryKept
  /\ focus = "snapshot" => x1 \in Seq(CS!Blocks)
  /\ focus = "subagents" => SU!RowsKept
TalkKept ==
  /\ focus = "timeline" => TL!TimelineKept
  /\ focus = "titles" => TS!TitlesKept

LEMMA InitRecords == MCInit => ChildrenKept /\ TalkKept
<1> SUFFICES ASSUME MCInit PROVE ChildrenKept /\ TalkKept OBVIOUS
<1>1. focus = "history" => CH!HistoryKept BY ServicesAssumption, InitHistory DEF MCInit
<1>2. focus = "snapshot" => x1 \in Seq(CS!Blocks) BY DEF MCInit, CS!Init
<1>3. focus = "subagents" => SU!RowsKept BY ServicesAssumption, InitRows DEF MCInit
<1>4. focus = "timeline" => TL!TimelineKept BY ServicesAssumption, InitTimeline DEF MCInit
<1>5. focus = "titles" => TS!TitlesKept BY ServicesAssumption, InitTitles DEF MCInit
<1>6. QED BY <1>1, <1>2, <1>3, <1>4, <1>5 DEF ChildrenKept, TalkKept

\* The focus never changes, and its module takes a step of its own or rests.
LEMMA RecordSteps ==
  ASSUME [MCNext]_all
  PROVE  /\ focus' = focus
         /\ focus = "history" => [CH!Next]_(CH!vars)
         /\ focus = "snapshot" => [CS!Next]_x1
         /\ focus = "subagents" => [SU!Next]_(SU!vars)
         /\ focus = "timeline" => [TL!Next]_(TL!vars)
         /\ focus = "titles" => [TS!Next]_(TS!vars)
<1>1. CASE MCNext
  <2>1. focus' = focus BY <1>1 DEF MCNext
  <2>2. (focus = "history" => CH!Next) /\ (focus = "snapshot" => CS!Next) /\ (focus = "subagents" => SU!Next)
    BY <1>1 DEF MCNext
  <2>3. (focus = "timeline" => TL!Next) /\ (focus = "titles" => TS!Next)
    BY <1>1 DEF MCNext
  <2>4. QED BY <2>1, <2>2, <2>3
<1>2. CASE UNCHANGED all
  <2>1. UNCHANGED <<focus, x1, x2, x3, x4, x5, x6, x7, x8, x9, x10, x11, x12, x13, x14>>
    BY <1>2 DEF all, From1, From2, From5, From6, From7, From8, From9, From14
  <2>2. UNCHANGED <<CH!vars, SU!vars>> BY <2>1 DEF CH!vars, CH!native, CH!store, CH!view, SU!vars
  <2>3. UNCHANGED <<TL!vars, TS!vars>> BY <2>1 DEF TL!vars, TS!vars
  <2>4. QED BY <2>1, <2>2, <2>3
<1>3. QED BY <1>1, <1>2

LEMMA NextRecords == ChildrenKept /\ TalkKept /\ [MCNext]_all => (ChildrenKept /\ TalkKept)'
<1> SUFFICES ASSUME ChildrenKept, TalkKept, [MCNext]_all PROVE (ChildrenKept /\ TalkKept)' OBVIOUS
<1> USE DEF ChildrenKept, TalkKept
<1>1. (focus = "history" => CH!HistoryKept)' BY RecordSteps, ServicesAssumption, NextHistory
<1>2. (focus = "snapshot" => x1 \in Seq(CS!Blocks))' BY RecordSteps, ServicesAssumption, LogWritten
<1>3. (focus = "subagents" => SU!RowsKept)' BY RecordSteps, ServicesAssumption, NextRows
<1>4. (focus = "timeline" => TL!TimelineKept)' BY RecordSteps, ServicesAssumption, NextTimeline
<1>5. (focus = "titles" => TS!TitlesKept)' BY RecordSteps, ServicesAssumption, NextTitles
<1>6. QED BY <1>1, <1>2, <1>3, <1>4, <1>5

\* Whatever pages two readers scan and however late they come, the events of a
\* child's history are those of its records so far, each once; its transcript, read
\* and normalised, settles every report once; and every agent has one row, whatever
\* order its identities and ends are told in.
THEOREM ChildRecordsAreExact == MCSpec => []ChildRecordsExact
<1>1. ChildrenKept => ChildRecordsExact
  <2> SUFFICES ASSUME ChildrenKept PROVE ChildRecordsExact OBVIOUS
  <2>1. focus = "history" => CH!HistoryExact BY DEF ChildrenKept, CH!HistoryKept
  <2>2. focus = "snapshot" => CS!NormalizeSettles BY ServicesAssumption, Settles DEF ChildrenKept
  <2>3. focus = "subagents" => SU!OneRowEach BY ServicesAssumption, RowsOnce DEF ChildrenKept
  <2>4. QED BY <2>1, <2>2, <2>3 DEF ChildRecordsExact
<1>2. QED BY <1>1, InitRecords, NextRecords, PTL DEF MCSpec

\* A conversation of any length, read in pages of any size that come late or
\* overlap, shows every row once and every question that waits; and whatever a
\* refresh that is under way finds in the transcript, the name its user has given a
\* session stays, or a later one.
THEOREM ConversationIsExact == MCSpec => []ConversationExact
<1>1. TalkKept => ConversationExact
  <2> SUFFICES ASSUME TalkKept PROVE ConversationExact OBVIOUS
  <2>1. focus = "timeline" => TL!ShownOnce /\ TL!AsksShown BY ServicesAssumption, TimelineShown DEF TalkKept
  <2>2. focus = "titles" => TS!RenameKept BY DEF TalkKept, TS!TitlesKept
  <2>3. QED BY <2>1, <2>2 DEF ConversationExact
<1>2. QED BY <1>1, InitRecords, NextRecords, PTL DEF MCSpec
===============================================================================
