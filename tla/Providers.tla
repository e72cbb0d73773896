------------------------------ MODULE Providers ------------------------------
(***************************************************************************)
(* The providers of the App: one file that every window and every App of    *)
(* the user changes, under a lock, and the provider each Agent of each host  *)
(* is bound to.                                                             *)
(***************************************************************************)
EXTENDS Naturals, FiniteSets, Functions

CONSTANTS
  Windows,       \* whoever changes the file
  Ids,           \* of providers
  Urls, Protocols,
  Targets,       \* pairs of a host and an Agent
  Speaks,        \* target -> the protocols its Agent takes
  MaxProviders,  \* 16 in the code
  MaxOps         \* bound: changes

\* A credential is told apart by the address it was typed for; without one there
\* is no authentication.  Nor need a window hold the lock.
None == "none"

ASSUME ProviderAssumption ==
  /\ Speaks \in [Targets -> SUBSET Protocols] /\ MaxProviders \in Nat \ {0} /\ MaxOps \in Nat
  /\ None \notin Windows

Records == [url : Urls, protocol : Protocols, credential : Urls \cup {None}, revision : Nat]

VARIABLES
  file,          \* records, and which of them a target is bound to
  lock,          \* the window that holds it, or "none"
  op,            \* window -> what it is about
  copy,          \* window -> what it has read
  ops,           \* changes so far; each makes a new revision
  intended       \* ghost: what the file is after every change that was made, one after the other

vars == <<file, lock, op, copy, ops, intended>>

Empty == [records |-> [p \in {} |-> None], bound |-> [t \in {} |-> None]]
Idle == [kind |-> "idle"]

\* An App that finds no file takes over what the one before it left.
LeftBehind(i, u, q) ==
  [records |-> [p \in {i} |-> [url |-> u, protocol |-> q, credential |-> u, revision |-> 0]],
   bound   |-> [t \in {} |-> None]]
Legacy == {Empty} \cup {LeftBehind(i, u, q) : i \in Ids, u \in Urls, q \in Protocols}

Init ==
  /\ file \in Legacy /\ intended = file
  /\ lock = None /\ op = [w \in Windows |-> Idle] /\ copy = [w \in Windows |-> Empty] /\ ops = 0

-----------------------------------------------------------------------------
(* What each operation makes of a configuration; it is refused, or made whole. *)

Set(f, i, x) == [j \in DOMAIN f \cup {i} |-> IF j = i THEN x ELSE f[j]]
Without(f, s) == Restrict(f, DOMAIN f \ s)
BoundTo(c, id) == {t \in DOMAIN c.bound : c.bound[t] = id}

\* save: a credential is kept only for the address and the kind of
\* authentication it was typed for.  (Fault: for the record.)
KeepsAny(c, o) == TRUE
KeepsSame(c, o) ==
  o.typed \/ ~o.auth \/ (o.id \in DOMAIN c.records => c.records[o.id].url = o.url /\ c.records[o.id].credential # None)
Keeps(c, o) == KeepsSame(c, o)

\* A provider in use keeps its protocol.  (Fault: it may change.)
ProtocolFree(c, o) == TRUE
ProtocolKept(c, o) ==
  o.id \in DOMAIN c.records /\ c.records[o.id].protocol # o.protocol => BoundTo(c, o.id) = {}
ProtocolOk(c, o) == ProtocolKept(c, o)

Saves(c, o) ==
  /\ Keeps(c, o) /\ ProtocolOk(c, o)
  /\ o.auth => (o.typed \/ o.id \in DOMAIN c.records)
  /\ Cardinality(DOMAIN c.records \cup {o.id}) <= MaxProviders
Saved(c, o, revision) ==
  LET credential == IF ~o.auth THEN None ELSE IF o.typed THEN o.url ELSE c.records[o.id].credential
  IN [c EXCEPT !.records = Set(@, o.id, [url |-> o.url, protocol |-> o.protocol,
                                         credential |-> credential, revision |-> revision])]

\* bind_agent_provider, under the lock of the file: the Agent of the host must take
\* the protocol of the provider.
Binds(c, o) == o.id \in DOMAIN c.records /\ c.records[o.id].protocol \in Speaks[o.target]

\* delete takes the bindings along.
Deleted(c, o) == [records |-> Without(c.records, {o.id}), bound |-> Without(c.bound, BoundTo(c, o.id))]

Allowed(c, o) ==
  CASE o.kind = "save" -> Saves(c, o)
    [] o.kind = "bind" -> Binds(c, o)
    [] OTHER -> TRUE
Applied(c, o, revision) ==
  CASE o.kind = "save" -> Saved(c, o, revision)
    [] o.kind = "bind" -> [c EXCEPT !.bound = Set(@, o.target, o.id)]
    [] o.kind = "unbind" -> [c EXCEPT !.bound = Without(@, {o.target})]
    [] o.kind = "forget" -> [c EXCEPT !.bound = Without(@, {t \in DOMAIN @ : t[1] = o.host})]
    [] o.kind = "delete" -> Deleted(c, o)

Asked ==
  [kind : {"save"}, id : Ids, url : Urls, protocol : Protocols, auth : BOOLEAN, typed : BOOLEAN]
    \cup [kind : {"bind"}, id : Ids, target : Targets]
    \cup [kind : {"unbind"}, target : Targets]
    \cup [kind : {"forget"}, host : {t[1] : t \in Targets}]
    \cup [kind : {"delete"}, id : Ids]

-----------------------------------------------------------------------------
(* One transaction: open waits for the lock, then reads the file; persist    *)
(* writes a new one and puts it in place at once.                           *)

\* (Fault: nobody waits.)
LockIgnored == TRUE
LockFree == lock = None
MayEnter == LockFree

Enter(w, o) ==
  /\ op[w] = Idle /\ ops < MaxOps /\ MayEnter
  /\ lock' = w /\ copy' = [copy EXCEPT ![w] = file] /\ op' = [op EXCEPT ![w] = o]
  /\ UNCHANGED <<file, ops, intended>>
Leaves(w) == op' = [op EXCEPT ![w] = Idle] /\ copy' = [copy EXCEPT ![w] = Empty] /\ lock' = None
Persist(w) ==
  /\ op[w] # Idle /\ Allowed(copy[w], op[w])
  /\ ops' = ops + 1 /\ file' = Applied(copy[w], op[w], ops') /\ intended' = Applied(intended, op[w], ops')
  /\ Leaves(w)
Refuse(w) ==
  /\ op[w] # Idle /\ ~Allowed(copy[w], op[w]) /\ Leaves(w)
  /\ UNCHANGED <<file, ops, intended>>
\* It cannot write, or it dies: the file is as it was, the lock is free.
Fail(w) == op[w] # Idle /\ Leaves(w) /\ UNCHANGED <<file, ops, intended>>

Next == \E w \in Windows : (\E o \in Asked : Enter(w, o)) \/ Persist(w) \/ Refuse(w) \/ Fail(w)

Spec == Init /\ [][Next]_vars

-----------------------------------------------------------------------------
(* Safety. *)

TypeOK ==
  /\ DOMAIN file.records \subseteq Ids /\ \A p \in DOMAIN file.records : file.records[p] \in Records
  /\ DOMAIN file.bound \subseteq Targets /\ Cardinality(DOMAIN file.records) <= MaxProviders

\* A credential is stored with the address it was typed for, and whatever a
\* target is bound to is there and speaks a protocol that its Agent takes.
Sound(c) ==
  /\ \A p \in DOMAIN c.records : c.records[p].credential \in {None, c.records[p].url}
  /\ \A t \in DOMAIN c.bound :
       c.bound[t] \in DOMAIN c.records /\ c.records[c.bound[t]].protocol \in Speaks[t]

\* Whatever drafts several windows save over each other, no change is lost to
\* another one made at the same time, and credentials and bindings are sound.
ProvidersSound == file = intended /\ Sound(file)
=============================================================================
